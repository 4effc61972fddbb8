--------------------------- MODULE WriteBehindMap ---------------------------
(***************************************************************************)
(* What a write-behind map promises, whatever it is made of: writes take   *)
(* effect at once and in order; the durable copy only ever changes to a    *)
(* snapshot of the whole map, taken when no other snapshot was under way.  *)
(* DistributedBucketMap is shown to implement it.                          *)
(***************************************************************************)
CONSTANTS
  Names,     \* keys
  Values,    \* what keys are mapped to
  Absent,    \* no mapping
  Untouched  \* marks the keys a write does not mention

VARIABLES
  latest,    \* the map as its user sees it
  snapshot,  \* what is being made durable
  durable    \* what a restart would find

vars == <<latest, snapshot, durable>>

Maps == [Names -> Values \cup {Absent}]
Writes == [Names -> Values \cup {Absent, Untouched}]

Written(w, m) == [k \in Names |-> IF w[k] = Untouched THEN m[k] ELSE w[k]]

Init ==
  /\ latest \in Maps
  /\ snapshot = latest
  /\ durable = latest

Write(w) ==
  /\ latest' = Written(w, latest)
  /\ UNCHANGED <<snapshot, durable>>

(* A write that finds no snapshot under way may start one. *)
WriteAndSave(w) ==
  /\ snapshot = durable
  /\ latest' = Written(w, latest)
  /\ snapshot' = latest'
  /\ UNCHANGED durable

StartSaving ==
  /\ snapshot = durable
  /\ snapshot' = latest
  /\ UNCHANGED <<latest, durable>>

FinishSaving ==
  /\ durable' = snapshot
  /\ UNCHANGED <<latest, snapshot>>

Next ==
  \/ \E w \in Writes : Write(w) \/ WriteAndSave(w)
  \/ StartSaving
  \/ FinishSaving

Spec == Init /\ [][Next]_vars
=============================================================================
