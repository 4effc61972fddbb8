--------------------------- MODULE GenerationTable ---------------------------
(***************************************************************************)
(* The map that forgets: inet/MACAddressMap.ts and                         *)
(* inet/DuplicatePacketTable.ts keep their entries in two generations.     *)
(* Entries are added to the newer one; when maxTableSize have been added   *)
(* to it, it becomes the older one, and what that held is forgotten.       *)
(*                                                                         *)
(* Both files do the same, one for MAC addresses (split into two halves to *)
(* index arrays of arrays), one for CRCs of packets.  The size counts      *)
(* additions, also those of a key that is there already.                   *)
(***************************************************************************)
EXTENDS Naturals, Sequences

CONSTANTS
  Unknown,      \* no entry: JavaScript's undefined
  MaxTableSize  \* maxTableSize

ASSUME TableSizeAssumption == MaxTableSize \in Nat \ {0}

Table(Keys, Entries) ==
  [newer: [Keys -> Entries \cup {Unknown}], older: [Keys -> Entries \cup {Unknown}],
   size: 0 .. MaxTableSize]

NoEntries(Keys) == [k \in Keys |-> Unknown]

EmptyTable(Keys) == [newer |-> NoEntries(Keys), older |-> NoEntries(Keys), size |-> 0]

Put(m, k, e) == [x \in DOMAIN m |-> IF x = k THEN e ELSE m[x]]

(* Mutant of AddEntry: the older generation is thrown away when another   *)
(* one begins.                                                             *)
AddAndForget(t, k, e) ==
  IF t.size < MaxTableSize
  THEN [newer |-> Put(t.newer, k, e), older |-> t.older, size |-> t.size + 1]
  ELSE [newer |-> Put(NoEntries(DOMAIN t.newer), k, e), older |-> NoEntries(DOMAIN t.newer),
        size |-> 1]

(* addEntry *)
AddEntry(t, k, e) ==
  IF t.size < MaxTableSize
  THEN [newer |-> Put(t.newer, k, e), older |-> t.older, size |-> t.size + 1]
  ELSE [newer |-> Put(NoEntries(DOMAIN t.newer), k, e), older |-> t.newer, size |-> 1]

(* getEntry, and the lookup of checkPacket *)
GetEntry(t, k) == IF t.newer[k] # Unknown THEN t.newer[k] ELSE t.older[k]

-----------------------------------------------------------------------------
(* What a table is good for, in terms of the additions made to it: a       *)
(* sequence of records with a key and an entry.                            *)

(* i is the latest of the additions from..to that has the key k. *)
IsLatest(log, k, i, from, to) ==
  /\ i \in from .. to
  /\ log[i].key = k
  /\ \A j \in from .. to : log[j].key = k => j <= i

(* The table answers with the latest addition of a key or, when that is    *)
(* more than maxTableSize additions ago, perhaps with nothing.             *)
Recalls(t, log, k) ==
  \/ /\ GetEntry(t, k) = Unknown
     /\ \A i \in 1 .. Len(log) : log[i].key = k => i + MaxTableSize < Len(log)
  \/ \E i \in 1 .. Len(log) :
       IsLatest(log, k, i, 1, Len(log)) /\ GetEntry(t, k) = log[i].entry
=============================================================================
