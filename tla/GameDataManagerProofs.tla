----------------------- MODULE GameDataManagerProofs -----------------------
(***************************************************************************)
(* For every set of names, objects and callers, and any number of updates. *)
(* First, of the map manager by itself: type correctness, the safety       *)
(* invariants, and that it implements WriteBehindMap.  Then, of the whole: *)
(* what the cache of GameDataManager promises the rest of the manager,     *)
(* and, for a program that does not rebind a name while it is being        *)
(* stored, that a name always shows the object that it was last set to;    *)
(* for a play session, that nothing gets lost and that a saved game is     *)
(* whole.                                                                  *)
(***************************************************************************)
EXTENDS GameDataManager, TLAPS

-----------------------------------------------------------------------------
(* The algebra of Overlay *)

(* Updating a node gives a node: updateValues never loses the key set. *)
LEMMA OverlayNode ==
  ASSUME NEW u \in Updates, NEW m \in Node
  PROVE  Overlay(u, m) \in Node
BY SentinelAssumption DEF Overlay, Updates, Node

(* Merging two sets of updates gives a set of updates: pendingUpdates. *)
LEMMA OverlayUpdates ==
  ASSUME NEW u \in Updates, NEW p \in Updates
  PROVE  Overlay(u, p) \in Updates
BY DEF Overlay, Updates

(* The empty update changes nothing, and is a set of updates. *)
LEMMA OverlayNothing ==
  /\ NoUpdates \in Updates
  /\ EmptyNode \in Node
  /\ \A m \in Node : Overlay(NoUpdates, m) = m
  /\ \A p \in Updates : Overlay(NoUpdates, p) = p
  /\ \A p \in Updates : Overlay(p, NoUpdates) = p
BY DEF Overlay, Updates, Node, NoUpdates, EmptyNode

(* Two successive updates are one merged update: what lets the manager     *)
(* gather updates while a batch is in flight.                              *)
LEMMA OverlayAssoc ==
  ASSUME NEW u \in Updates, NEW p \in Updates, NEW m \in Node
  PROVE  Overlay(u, Overlay(p, m)) = Overlay(Overlay(u, p), m)
BY SentinelAssumption DEF Overlay, Updates, Node

-----------------------------------------------------------------------------
(* Type correctness *)

(* A promise handed out for the current batch or for all updates is a call. *)
LEMMA PromiseType ==
  ASSUME TypeOK, NEW w \in Call
  PROVE  /\ BatchPromise(w) \in Call
         /\ AllUpdatesPromise(w) \in Call
         /\ Rejected(w) \in Call
         /\ [w EXCEPT !.state = "batch"] \in Call
         /\ \A m \in Node, i \in Nat : Resolved(w, m, i) \in Call
<1>1. \A s \in CallStates \ {"reading"} : [w EXCEPT !.state = s] \in Call
  BY DEF Call, CallRecord
<1>2. \A m \in Node, i \in Nat : Resolved(w, m, i) \in Call
  BY DEF Call, CallRecord, Resolved, CallStates
<1>3. saved \in Nat /\ root \in Node
  BY DEF TypeOK
<1>4. Rejected(w) \in Call
  BY <1>1 DEF Rejected, CallStates
<1>5. BatchPromise(w) \in Call
  BY <1>1, <1>2, <1>3, <1>4 DEF BatchPromise, CallStates, TypeOK, Phases
<1>6. AllUpdatesPromise(w) \in Call
  BY <1>1, <1>2, <1>3, <1>4 DEF AllUpdatesPromise, CallStates, TypeOK, Phases
<1>7. QED
  BY <1>1, <1>2, <1>4, <1>5, <1>6 DEF CallStates

(* Appending the next moment of the map keeps the history a history. *)
LEMMA HistoryGrows ==
  ASSUME TypeOK, NEW u \in Updates
  PROVE  /\ Len(history) \in Nat /\ Len(history) >= 1
         /\ history[Len(history)] \in Node
         /\ Overlay(u, history[Len(history)]) \in Node
         /\ Append(history, Overlay(u, history[Len(history)])) \in Seq(Node)
<1>1. history \in Seq(Node) /\ Len(history) >= 1
  BY DEF TypeOK
<1>2. history[Len(history)] \in Node
  BY <1>1
<1>3. Overlay(u, history[Len(history)]) \in Node
  BY <1>2, OverlayNode
<1>4. QED
  BY <1>1, <1>2, <1>3

(* A new promise is a call, whatever it is for. *)
LEMMA NewCallType ==
  ASSUME NEW kind \in {"none", "store", "flush", "fetch"}, NEW i \in Nat,
         NEW k \in Names \cup {Untouched}
  PROVE  /\ NewCall(kind, i, k) \in Call
         /\ NewCall(kind, i, k).state = "none"
         /\ NewCall(kind, i, k).key = k
         /\ [NewCall(kind, i, k) EXCEPT !.state = "batch"] \in Call
BY OverlayNothing DEF NewCall, Call, CallRecord, CallStates

(* What storeValues does in each of its three cases. *)
LEMMA StoreCases ==
  ASSUME NEW c \in Callers, NEW u \in Updates, StoreValues(c, u),
         NEW w, w = NewCall("store", Len(history) + 1, Untouched)
  PROVE  /\ history' = Append(history, Overlay(u, history[Len(history)]))
         /\ JoinPending(u) \/ StartBatch(u) \/ StoreNothing(u)
         /\ JoinPending(u) => call' = [call EXCEPT ![c] = BatchPromise(w)]
         /\ StartBatch(u) => call' = [call EXCEPT ![c] = [w EXCEPT !.state = "batch"]]
         /\ StoreNothing(u) => call' = [call EXCEPT ![c] = Resolved(w, root, Len(history) + 1)]
BY DEF StoreValues, TakeUpdates, JoinPending, JoinAs, StartBatch, StoreNothing, managerVars

LEMMA BatchNodeType == TypeOK => BatchNode \in Node
BY OverlayNode DEF TypeOK, BatchNode

(* The types hold at the start. *)
LEMMA TypeInit == Init => TypeOK
<1> SUFFICES ASSUME Init PROVE TypeOK
  OBVIOUS
<1>1. root \in Node /\ nodes \subseteq Node /\ pending \in Updates /\ current \in Updates
  BY OverlayNothing DEF Init
<1>2. history \in Seq(Node) /\ Len(history) = 1 /\ sent = 1 /\ saved = 1
  BY <1>1 DEF Init
<1>3. call \in [Callers -> Call]
  BY NewCallType DEF Init, NoCall
<1>4. QED
  BY <1>1, <1>2, <1>3 DEF Init, TypeOK, Phases

(* A step of the manager keeps the types. *)
LEMMA TypeStep == TypeOK /\ [Next]_mapVars => TypeOK'
<1> SUFFICES ASSUME TypeOK, [Next]_mapVars PROVE TypeOK'
  OBVIOUS
<1> USE DEF Phases
<1>1. ASSUME NEW c \in Callers, NEW u \in Updates, StoreValues(c, u) PROVE TypeOK'
  <2> DEFINE w == NewCall("store", Len(history) + 1, Untouched)
  <2>1. /\ Len(history) \in Nat /\ Len(history) >= 1
        /\ Overlay(u, history[Len(history)]) \in Node
        /\ Append(history, Overlay(u, history[Len(history)])) \in Seq(Node)
    BY HistoryGrows
  <2>0. /\ JoinPending(u) \/ StartBatch(u) \/ StoreNothing(u)
        /\ JoinPending(u) => call' = [call EXCEPT ![c] = BatchPromise(w)]
        /\ StartBatch(u) => call' = [call EXCEPT ![c] = [w EXCEPT !.state = "batch"]]
        /\ StoreNothing(u) => call' = [call EXCEPT ![c] = Resolved(w, root, Len(history) + 1)]
    BY <1>1, StoreCases
  <2> HIDE DEF w
  <2>2. /\ w \in Call /\ w.state = "none"
        /\ [w EXCEPT !.state = "batch"] \in Call
    <3>1. Len(history) + 1 \in Nat
      BY <2>1
    <3>2. w \in Call
      BY <3>1, NewCallType, Zenon DEF w
    <3>3. w.state = "none"
      BY DEF w, NewCall
    <3>4. QED
      BY <3>2, <3>3 DEF Call, CallRecord, CallStates
  <2>3. Overlay(u, pending) \in Updates
    BY OverlayUpdates DEF TypeOK
  <2>4. history' \in Seq(Node) /\ Len(history') = Len(history) + 1
    BY <1>1, <2>1 DEF StoreValues, TakeUpdates, JoinPending, JoinAs, StartBatch,
                      StoreNothing, TypeOK
  <2>5. CASE JoinPending(u)
    <3>1. call' \in [Callers -> Call]
      BY <2>0, <2>2, <2>5, PromiseType DEF JoinPending, JoinAs, TypeOK, w
    <3>2. QED
      BY <2>3, <2>4, <2>5, <3>1 DEF JoinPending, JoinAs, TypeOK
  <2>6. CASE StartBatch(u)
    <3>1. call' \in [Callers -> Call]
      BY <2>0, <2>2, <2>6 DEF StartBatch, TypeOK, w
    <3>2. QED
      BY <2>1, <2>3, <2>4, <2>6, <3>1, OverlayNothing DEF StartBatch, TypeOK
  <2>7. CASE StoreNothing(u)
    <3>1. call' \in [Callers -> Call]
      BY <2>0, <2>1, <2>2, <2>7, PromiseType DEF StoreNothing, TypeOK, w
    <3>2. QED
      BY <2>1, <2>4, <2>7, <3>1 DEF StoreNothing, TypeOK, managerVars
  <2>8. QED
    BY <2>0, <2>5, <2>6, <2>7
<1>2. ASSUME NEW c \in Callers, FlushUpdates(c) PROVE TypeOK'
  <2>1. NewCall("flush", Len(history), Untouched) \in Call
    <3>1. Len(history) \in Nat
      BY DEF TypeOK
    <3>2. QED
      BY <3>1, NewCallType, Zenon
  <2>2. call' \in [Callers -> Call]
    BY <1>2, <2>1, PromiseType DEF FlushUpdates, TypeOK
  <2>3. QED
    BY <1>2, <2>2 DEF FlushUpdates, TypeOK, managerVars, historyVars
<1>3. ASSUME NEW c \in Callers, NEW k \in Names, FetchValue(c, k) PROVE TypeOK'
  <2> DEFINE w == NewCall("fetch", Len(history), k)
             u == Overlay(pending, current)
  <2> HIDE DEF w
  <2>1. w \in Call /\ w.key \in Names
    <3>1. Len(history) \in Nat
      BY DEF TypeOK
    <3>2. QED
      BY <3>1, NewCallType, Zenon DEF w
  <2>2. u \in Updates
    BY OverlayUpdates DEF TypeOK
  <2>3. u[k] # Untouched => u[k] \in Values \cup {Absent}
    BY <2>2 DEF Updates
  <2>4. u[k] # Untouched => [w EXCEPT !.state = "resolved", !.value = u[k]] \in Call
    BY <2>1, <2>3 DEF Call, CallRecord, CallStates
  <2>5. [w EXCEPT !.state = "reading", !.node = root] \in Call
    BY <2>1 DEF Call, CallRecord, CallStates, TypeOK
  <2>6. call' \in [Callers -> Call]
    BY <1>3, <2>4, <2>5 DEF FetchValue, FetchThrough, TypeOK, w
  <2>7. QED
    BY <1>3, <2>6 DEF FetchValue, FetchThrough, TypeOK, managerVars, historyVars
<1>4. ASSUME NEW c \in Callers, AnswerFetch(c) PROVE TypeOK'
  <2>1. call[c] \in Call
    BY DEF TypeOK
  <2>2. CASE call' = [call EXCEPT ![c] = Rejected(@)]
    BY <1>4, <2>1, <2>2, PromiseType DEF AnswerFetch, TypeOK, managerVars, historyVars
  <2>3. CASE call' = [call EXCEPT ![c].state = "resolved",
                                  ![c].value = call[c].node[call[c].key]]
    <3>1. call[c].node[call[c].key] \in Values \cup {Absent}
      BY <1>4, <2>1 DEF Call, CallRecord, Node, AnswerFetch, TypeOK
    <3>2. [call[c] EXCEPT !.state = "resolved", !.value = call[c].node[call[c].key]] \in Call
      BY <2>1, <3>1 DEF Call, CallRecord, CallStates
    <3>3. QED
      BY <1>4, <2>3, <3>2 DEF AnswerFetch, TypeOK, managerVars, historyVars
  <2>4. QED
    BY <1>4, <2>2, <2>3 DEF AnswerFetch
<1>5. ASSUME NEW m \in Node, Apply(m) PROVE TypeOK'
  <2>1. \A c \in Callers : Resolved(call[c], m, sent) \in Call
    <3>1. sent \in Nat /\ call \in [Callers -> Call]
      BY DEF TypeOK
    <3>2. ASSUME NEW c \in Callers PROVE call[c] \in Call
      BY <3>1
    <3>3. QED
      BY <3>1, <3>2, PromiseType, Zenon
  <2>2. call' \in [Callers -> Call]
    BY <1>5, <2>1 DEF Apply, ApplyLeaving, TypeOK
  <2>3. QED
    BY <1>5, <2>2, OverlayNothing DEF Apply, ApplyLeaving, TypeOK
<1>6. CASE GotRootNode
  BY <1>5, <1>6 DEF GotRootNode, TypeOK, historyVars
<1>7. CASE NodeLands
  BY <1>7, BatchNodeType DEF NodeLands, TypeOK, historyVars
<1>8. CASE NodeStored
  BY <1>5, <1>8, BatchNodeType DEF NodeStored
<1>9. CASE BatchFails
  <2>1. call' \in [Callers -> Call]
    BY <1>9, PromiseType DEF BatchFails, TypeOK
  <2>2. QED
    BY <1>9, <2>1 DEF BatchFails, TypeOK, historyVars
<1>10. CASE NextBatch
  <2>1. call' \in [Callers -> Call]
    BY <1>10, PromiseType DEF NextBatch, StartNext, TypeOK
  <2>2. QED
    BY <1>10, <2>1, OverlayNothing DEF NextBatch, StartNext, TypeOK
<1>11. CASE NoNextBatch
  <2>1. Len(history) \in Nat /\ 1 <= Len(history)
    BY DEF TypeOK
  <2>2. call' \in [Callers -> Call]
    BY <1>11, <2>1, PromiseType DEF NoNextBatch, GoIdle, TypeOK
  <2>3. QED
    BY <1>11, <2>1, <2>2 DEF NoNextBatch, GoIdle, TypeOK
<1>12. CASE UNCHANGED mapVars
  BY <1>12 DEF TypeOK, mapVars, managerVars, historyVars
<1>13. QED
  BY <1>1, <1>2, <1>3, <1>4, <1>6, <1>7, <1>8, <1>9, <1>10, <1>11, <1>12 DEF Next, BatchStep

(* Every reachable state of the manager has the types of its declarations. *)
THEOREM TypeCorrect == Spec => []TypeOK
BY TypeInit, TypeStep, PTL DEF Spec

-----------------------------------------------------------------------------
(* The snapshots *)

(* Appending to the history leaves its earlier moments as they were. *)
LEMMA HistoryKeeps ==
  ASSUME TypeOK, NEW m \in Node, history' = Append(history, m)
  PROVE  /\ Len(history') = Len(history) + 1
         /\ history'[Len(history')] = m
         /\ \A i \in 1 .. Len(history) : history'[i] = history[i]
BY DEF TypeOK

(* storeValues takes over updates: whatever else the same step does, the   *)
(* snapshots are in order again, with the new updates in the last one.     *)
LEMMA SnapshotTake ==
  ASSUME TypeOK, SnapshotInv, PhaseInv, NEW u \in Updates, TakeUpdates(u)
  PROVE  SnapshotInv' /\ PhaseInv'
<1>0. /\ root \in Node /\ pending \in Updates /\ current \in Updates
      /\ Len(history) \in Nat /\ sent \in 1 .. Len(history) /\ saved \in 1 .. sent
      /\ \A i \in 1 .. Len(history) : history[i] \in Node
  BY DEF TypeOK
<1> DEFINE last == history[Len(history)]
<1>1. last \in Node /\ Overlay(u, last) \in Node
  BY <1>0, OverlayNode
<1>2. history' = Append(history, Overlay(u, last))
  BY DEF TakeUpdates, JoinPending, JoinAs, StartBatch, StoreNothing
<1>3. /\ Len(history') = Len(history) + 1
      /\ history'[Len(history')] = Overlay(u, last)
      /\ \A i \in 1 .. Len(history) : history'[i] = history[i]
  BY <1>1, <1>2, HistoryKeeps
<1>4. CASE JoinPending(u)
  <2>1. Overlay(Overlay(u, pending), history[sent]) = Overlay(u, last)
    BY <1>0, OverlayAssoc DEF SnapshotInv
  <2>2. SnapshotInv'
    BY <1>0, <1>3, <1>4, <2>1 DEF JoinPending, JoinAs, SnapshotInv
  <2>3. QED
    BY <1>4, <2>2 DEF JoinPending, JoinAs, PhaseInv
<1>5. CASE StartBatch(u)
  <2>1. pending = NoUpdates /\ saved = Len(history) /\ root = last
    BY <1>5 DEF StartBatch, PhaseInv, SnapshotInv
  <2>2. Overlay(Overlay(u, pending), root) = Overlay(u, last)
    BY <1>0, <2>1, OverlayNothing
  <2>3. SnapshotInv'
    BY <1>0, <1>1, <1>3, <1>5, <2>1, <2>2, OverlayNothing DEF StartBatch, SnapshotInv
  <2>4. QED
    BY <1>5, <2>3 DEF StartBatch, PhaseInv
<1>6. CASE StoreNothing(u)
  <2>1. pending = NoUpdates /\ current = NoUpdates /\ saved = Len(history) /\ root = last
    BY <1>6 DEF StoreNothing, PhaseInv, SnapshotInv
  <2>2. u = NoUpdates
    BY <1>6, <2>1, OverlayNothing DEF StoreNothing
  <2>3. Overlay(u, last) = last
    BY <1>1, <2>2, OverlayNothing
  <2>4. SnapshotInv'
    BY <1>0, <1>1, <1>3, <1>6, <2>1, <2>3, OverlayNothing
    DEF StoreNothing, SnapshotInv, managerVars
  <2>5. QED
    BY <1>3, <1>6, <2>1, <2>4 DEF StoreNothing, PhaseInv, managerVars
<1>7. QED
  BY <1>4, <1>5, <1>6 DEF TakeUpdates

(* A step of the manager keeps its snapshots in order. *)
LEMMA SnapshotStep ==
  TypeOK /\ SnapshotInv /\ PhaseInv /\ [Next]_mapVars => SnapshotInv' /\ PhaseInv'
<1> SUFFICES ASSUME TypeOK, SnapshotInv, PhaseInv, [Next]_mapVars
             PROVE  SnapshotInv' /\ PhaseInv'
  OBVIOUS
<1>0. /\ root \in Node /\ pending \in Updates /\ current \in Updates
      /\ Len(history) \in Nat /\ sent \in 1 .. Len(history) /\ saved \in 1 .. sent
      /\ \A i \in 1 .. Len(history) : history[i] \in Node
  BY DEF TypeOK
<1>1. ASSUME NEW c \in Callers, NEW u \in Updates, StoreValues(c, u)
      PROVE  SnapshotInv' /\ PhaseInv'
  BY <1>1, SnapshotTake DEF StoreValues
<1>2. CASE (\E c \in Callers : FlushUpdates(c) \/ AnswerFetch(c))
           \/ (\E c \in Callers, k \in Names : FetchValue(c, k))
  BY <1>2 DEF FlushUpdates, AnswerFetch, FetchValue, FetchThrough, SnapshotInv, PhaseInv,
              managerVars, historyVars
<1>3. ASSUME NEW m, m = Overlay(current, root), Apply(m) PROVE SnapshotInv' /\ PhaseInv'
  <2>1. m = history[sent] /\ m \in Node
    BY <1>0, <1>3 DEF SnapshotInv
  <2>2. QED
    BY <1>3, <2>1, OverlayNothing DEF Apply, ApplyLeaving, SnapshotInv, PhaseInv
<1>4. CASE GotRootNode
  BY <1>3, <1>4 DEF GotRootNode, BatchNode, SnapshotInv, PhaseInv, historyVars
<1>5. CASE NodeLands
  BY <1>5 DEF NodeLands, SnapshotInv, PhaseInv, historyVars
<1>6. CASE NodeStored
  BY <1>3, <1>6 DEF NodeStored, BatchNode
<1>7. CASE BatchFails
  BY <1>7 DEF BatchFails, SnapshotInv, PhaseInv, historyVars
<1>8. CASE NextBatch
  <2>1. root = history[sent] /\ Overlay(pending, root) = history[Len(history)]
    BY <1>0, <1>8, OverlayNothing DEF NextBatch, StartNext, SnapshotInv, PhaseInv
  <2>2. QED
    BY <1>0, <1>8, <2>1, OverlayNothing DEF NextBatch, StartNext, SnapshotInv, PhaseInv
<1>9. CASE NoNextBatch
  <2>1. root = history[sent] /\ history[sent] = history[Len(history)]
    BY <1>0, <1>9, OverlayNothing DEF NoNextBatch, GoIdle, SnapshotInv, PhaseInv
  <2>2. QED
    BY <1>0, <1>9, <2>1, OverlayNothing DEF NoNextBatch, GoIdle, SnapshotInv, PhaseInv
<1>10. CASE UNCHANGED mapVars
  BY <1>10 DEF SnapshotInv, PhaseInv, mapVars, managerVars, historyVars
<1>11. QED
  BY <1>1, <1>2, <1>4, <1>5, <1>6, <1>7, <1>8, <1>9, <1>10 DEF Next, BatchStep

(* The root, the batch and the pending updates are three moments of the    *)
(* map's history, in that order, in every reachable state.                 *)
THEOREM Snapshots == Spec => [](SnapshotInv /\ PhaseInv)
<1>1. Init => SnapshotInv /\ PhaseInv
  BY OverlayNothing DEF Init, SnapshotInv, PhaseInv
<1>2. QED
  BY <1>1, SnapshotStep, TypeCorrect, PTL DEF Spec

-----------------------------------------------------------------------------
(* What callers are told *)

(* A call that is still open is there to be answered; resolving it for the *)
(* moment i of the history keeps FlushInv's promise about it.              *)
LEMMA ResolvedFields ==
  ASSUME NEW w \in Call, NEW m, NEW i
  PROVE  /\ Resolved(w, m, i).op = w.op
         /\ Resolved(w, m, i).since = w.since
         /\ Resolved(w, m, i).state = "resolved"
         /\ Resolved(w, m, i).node = m
         /\ Resolved(w, m, i).at = i
         /\ Rejected(w).op = w.op
         /\ Rejected(w).since = w.since
         /\ Rejected(w).state = "rejected"
BY DEF Resolved, Rejected, Call, CallRecord

(* FlushInv is inductive, given the snapshots. *)
LEMMA FlushInvariant == Spec => []FlushInv
<1>1. Init => FlushInv
  BY DEF Init, FlushInv, NoCall, NewCall
<1>2. TypeOK /\ SnapshotInv /\ PhaseInv /\ FlushInv /\ [Next]_mapVars => FlushInv'
  <2> SUFFICES ASSUME TypeOK, SnapshotInv, PhaseInv, FlushInv, [Next]_mapVars
               PROVE  FlushInv'
    OBVIOUS
  <2>0. /\ call \in [Callers -> Call] /\ Len(history) \in Nat
        /\ sent \in 1 .. Len(history) /\ saved \in 1 .. sent
    BY DEF TypeOK
  <2>a. \A d \in Callers : call[d] \in Call /\ call[d].since \in Nat /\ call[d].at \in Nat
    BY <2>0 DEF Call, CallRecord
  <2>1. ASSUME NEW c \in Callers, NEW u \in Updates, StoreValues(c, u) PROVE FlushInv'
    <3>1. /\ Len(history') = Len(history) + 1
          /\ \A i \in 1 .. Len(history) : history'[i] = history[i]
      <4>1. Overlay(u, history[Len(history)]) \in Node
        BY HistoryGrows
      <4>2. QED
        BY <2>1, <4>1, HistoryKeeps DEF StoreValues, TakeUpdates, JoinPending, JoinAs,
                                        StartBatch, StoreNothing
    <3>2. /\ \A d \in Callers \ {c} : call'[d] = call[d]
          /\ call'[c].op = "store" /\ call'[c].state # "reading"
      <4> DEFINE w == NewCall("store", Len(history) + 1, Untouched)
      <4>0. /\ JoinPending(u) \/ StartBatch(u) \/ StoreNothing(u)
            /\ JoinPending(u) => call' = [call EXCEPT ![c] = BatchPromise(w)]
            /\ StartBatch(u) => call' = [call EXCEPT ![c] = [w EXCEPT !.state = "batch"]]
            /\ StoreNothing(u) => call' = [call EXCEPT ![c] = Resolved(w, root, Len(history) + 1)]
        BY <2>1, StoreCases
      <4>1. w.op = "store" /\ w.state = "none"
        BY DEF NewCall
      <4>2. w \in Call
        <5>1. Len(history) + 1 \in Nat
          BY <2>0
        <5>2. QED
          BY <5>1, NewCallType, Zenon
      <4> HIDE DEF w
      <4>3. [w EXCEPT !.state = "batch"].op = "store" /\ [w EXCEPT !.state = "batch"].state = "batch"
        BY <4>1, <4>2 DEF Call, CallRecord
      <4>4. BatchPromise(w).op = "store" /\ BatchPromise(w).state # "reading"
        BY <4>1, <4>2, <4>3, ResolvedFields DEF BatchPromise, TypeOK, Phases
      <4>5. LET v == Resolved(w, root, Len(history) + 1) IN v.op = "store" /\ v.state # "reading"
        BY <4>1, <4>2, ResolvedFields
      <4>6. \E v : call' = [call EXCEPT ![c] = v] /\ v.op = "store" /\ v.state # "reading"
        BY <4>0, <4>3, <4>4, <4>5
      <4>7. QED
        BY <2>0, <4>6
    <3>3. sent' >= sent
      BY <2>0, <2>1 DEF StoreValues, TakeUpdates, JoinPending, JoinAs, StartBatch,
                        StoreNothing, managerVars
    <3>4. sent' \in Nat
      BY <2>0, <2>1 DEF StoreValues, TakeUpdates, JoinPending, JoinAs, StartBatch,
                        StoreNothing, managerVars
    <3>5. ASSUME NEW d \in Callers, d # c
          PROVE  /\ call[d].state = "reading" => call[d].op = "fetch"
                 /\ call[d].op = "fetch" => call[d].state \in {"reading", "resolved", "rejected"}
                 /\ call[d].op = "flush" =>
                      /\ call[d].since \in 1 .. Len(history')
                      /\ call[d].state = "batch" => call[d].since <= sent'
                      /\ call[d].state = "resolved" =>
                           /\ call[d].at \in call[d].since .. Len(history')
                           /\ call[d].node = history'[call[d].at]
      <4>1. call[d].state = "resolved" /\ call[d].op = "flush" =>
              call[d].at \in 1 .. Len(history)
        BY <2>0, <2>a DEF FlushInv, Call, CallRecord
      <4>2. QED
        BY <2>0, <2>a, <3>1, <3>3, <3>4, <4>1 DEF FlushInv
    <3>6. QED
      BY <3>2, <3>5 DEF FlushInv
  <2>2. ASSUME NEW c \in Callers, FlushUpdates(c) PROVE FlushInv'
    <3> DEFINE w == NewCall("flush", Len(history), Untouched)
    <3>1. w.op = "flush" /\ w.state = "none" /\ w.since = Len(history)
      BY DEF NewCall
    <3>2. w \in Call
      BY <2>0, NewCallType, Zenon
    <3> HIDE DEF w
    <3>3. phase = "idle" => saved = Len(history) /\ root = history[saved]
      BY DEF PhaseInv, SnapshotInv
    <3>4. LET v == AllUpdatesPromise(w) IN
            /\ v.op = "flush" /\ v.since = Len(history)
            /\ v.state \in {"all", "resolved", "rejected"}
            /\ v.state = "resolved" => v.at = Len(history) /\ v.node = history[Len(history)]
      <4>1. LET v == [w EXCEPT !.state = "all"] IN
              v.op = "flush" /\ v.since = Len(history) /\ v.state = "all"
        BY <3>1, <3>2 DEF Call, CallRecord
      <4>2. QED
        BY <3>1, <3>2, <3>3, <4>1, ResolvedFields DEF AllUpdatesPromise, TypeOK, Phases
    <3>5. call' = [call EXCEPT ![c] = AllUpdatesPromise(w)] /\ UNCHANGED historyVars
      BY <2>2 DEF FlushUpdates, w
    <3>6. QED
      BY <2>0, <2>a, <3>4, <3>5 DEF FlushInv, historyVars
  <2>3. ASSUME NEW c \in Callers, NEW k \in Names, FetchValue(c, k) PROVE FlushInv'
    <3>1. /\ call'[c].op = "fetch" /\ call'[c].state \in {"resolved", "reading"}
          /\ \A d \in Callers \ {c} : call'[d] = call[d]
      BY <2>0, <2>3 DEF FetchValue, FetchThrough, NewCall
    <3>2. QED
      BY <2>0, <2>3, <2>a, <3>1 DEF FlushInv, FetchValue, FetchThrough, historyVars
  <2>4. ASSUME NEW c \in Callers, AnswerFetch(c) PROVE FlushInv'
    <3>1. /\ call'[c].op = "fetch" /\ call'[c].state \in {"resolved", "rejected"}
          /\ \A d \in Callers \ {c} : call'[d] = call[d]
      BY <2>0, <2>4, <2>a DEF AnswerFetch, Rejected, FlushInv, Call, CallRecord
    <3>2. QED
      BY <2>0, <2>4, <2>a, <3>1 DEF FlushInv, AnswerFetch, historyVars
  <2>5. ASSUME NEW m, m = Overlay(current, root), Apply(m) PROVE FlushInv'
    <3>1. m = history[sent]
      BY <2>5 DEF SnapshotInv
    <3>2. \A d \in Callers :
            call'[d] = IF call[d].state = "batch" THEN Resolved(call[d], m, sent) ELSE call[d]
      BY <2>5 DEF Apply, ApplyLeaving
    <3>3. history' = history /\ sent' = sent
      BY <2>5 DEF Apply, ApplyLeaving
    <3>4. ASSUME NEW d \in Callers, call[d].state = "batch"
          PROVE  /\ call'[d].op = call[d].op /\ call'[d].since = call[d].since
                 /\ call'[d].state = "resolved" /\ call'[d].node = history[sent]
                 /\ call'[d].at = sent
      BY <2>a, <3>1, <3>2, <3>4, ResolvedFields
    <3>5. QED
      BY <2>0, <2>a, <3>2, <3>3, <3>4 DEF FlushInv
  <2>6. CASE GotRootNode
    BY <2>5, <2>6 DEF GotRootNode, BatchNode, FlushInv, historyVars
  <2>7. CASE NodeLands
    BY <2>7 DEF NodeLands, FlushInv, historyVars
  <2>8. CASE NodeStored
    BY <2>5, <2>8 DEF NodeStored, BatchNode
  <2>9. CASE BatchFails
    <3>1. \A d \in Callers :
            \/ call'[d] = call[d]
            \/ /\ call'[d].state = "rejected" /\ call'[d].op = call[d].op
               /\ call'[d].since = call[d].since
      BY <2>9, <2>a, ResolvedFields DEF BatchFails
    <3>2. \A d \in Callers : call[d].op = "fetch" => call'[d] = call[d]
      BY <2>9 DEF BatchFails, FlushInv
    <3>3. QED
      BY <2>9, <3>1, <3>2 DEF BatchFails, FlushInv, historyVars
  <2>10. CASE NextBatch
    <3>1. \A d \in Callers :
            IF call[d].state = "all"
            THEN call'[d].state = "batch" /\ call'[d].op = call[d].op
                 /\ call'[d].since = call[d].since
            ELSE call'[d] = call[d]
      BY <2>10, <2>a DEF NextBatch, StartNext, Call, CallRecord
    <3>2. history' = history /\ sent' = Len(history)
      BY <2>10 DEF NextBatch, StartNext
    <3>3. QED
      BY <2>0, <2>a, <3>1, <3>2 DEF FlushInv
  <2>11. CASE NoNextBatch
    <3>1. root = history[Len(history)]
      BY <2>11, OverlayNothing DEF NoNextBatch, GoIdle, SnapshotInv, PhaseInv, TypeOK
    <3>2. \A d \in Callers :
            IF call[d].state = "all"
            THEN call'[d].state = "resolved" /\ call'[d].op = call[d].op
                 /\ call'[d].since = call[d].since /\ call'[d].node = root
                 /\ call'[d].at = Len(history)
            ELSE call'[d] = call[d]
      BY <2>11, <2>a, ResolvedFields DEF NoNextBatch, GoIdle
    <3>3. history' = history /\ sent' = Len(history)
      BY <2>11 DEF NoNextBatch, GoIdle
    <3>4. QED
      BY <2>0, <2>a, <3>1, <3>2, <3>3 DEF FlushInv
  <2>12. CASE UNCHANGED mapVars
    BY <2>12 DEF FlushInv, mapVars, historyVars
  <2>13. QED
    BY <2>1, <2>2, <2>3, <2>4, <2>6, <2>7, <2>8, <2>9, <2>10, <2>11, <2>12 DEF Next, BatchStep
<1>3. QED
  BY <1>1, <1>2, TypeCorrect, Snapshots, PTL DEF Spec

(* A promise of flushUpdates resolves to a root that holds everything      *)
(* stored before the call, in every interleaving and for every batch that  *)
(* does not fail.                                                          *)
THEOREM FlushesAreDurable == Spec => []FlushIsDurable
<1>1. TypeOK /\ FlushInv => FlushIsDurable
  BY DEF FlushInv, FlushIsDurable, TypeOK, Call, CallRecord
<1>2. QED
  BY <1>1, FlushInvariant, TypeCorrect, PTL

-----------------------------------------------------------------------------
(* What fetchValue answers *)

(* A step answers or makes at most one fetchValue: the promises of all     *)
(* other fetches are left alone.                                           *)
LEMMA OthersFetch ==
  ASSUME TypeOK, FlushInv, BatchStep \/ UNCHANGED mapVars, NEW d \in Callers,
         call[d].op = "fetch" \/ call'[d].op = "fetch"
  PROVE  call'[d] = call[d]
<1>1. call[d] \in Call
  BY DEF TypeOK
<1>2. ASSUME NEW m, Apply(m) PROVE call'[d] = call[d]
  BY <1>1, <1>2, ResolvedFields DEF Apply, ApplyLeaving, FlushInv
<1>3. CASE BatchFails
  BY <1>1, <1>3, ResolvedFields DEF BatchFails, FlushInv
<1>4. CASE NextBatch
  BY <1>1, <1>4 DEF NextBatch, StartNext, FlushInv, Call, CallRecord
<1>5. CASE NoNextBatch
  BY <1>1, <1>5, ResolvedFields DEF NoNextBatch, GoIdle, FlushInv
<1>6. QED
  BY <1>2, <1>3, <1>4, <1>5 DEF BatchStep, GotRootNode, NodeLands, NodeStored, mapVars

(* fetchValue answers with the value its key had at the call, whatever the *)
(* batch in flight does before the datastore answers.                      *)
THEOREM FetchesSeeLatest == Spec => []FetchSeesLatest
<1>1. Init => FetchInv
  BY DEF Init, FetchInv, NoCall, NewCall
<1>2. /\ TypeOK /\ SnapshotInv /\ FlushInv /\ FetchInv
      /\ [Next]_mapVars
      => FetchInv'
  <2> SUFFICES ASSUME TypeOK, SnapshotInv, FlushInv, FetchInv, [Next]_mapVars
               PROVE  FetchInv'
    OBVIOUS
  <2>0. /\ call \in [Callers -> Call] /\ Len(history) \in Nat /\ Len(history) >= 1
        /\ \A d \in Callers : call[d] \in Call
        /\ root \in Node /\ current \in Updates /\ pending \in Updates
        /\ sent \in 1 .. Len(history)
    BY DEF TypeOK
  <2>1. ASSUME NEW c \in Callers, NEW u \in Updates, StoreValues(c, u) PROVE FetchInv'
    <3>1. /\ Len(history') = Len(history) + 1
          /\ \A i \in 1 .. Len(history) : history'[i] = history[i]
      <4>1. Overlay(u, history[Len(history)]) \in Node
        BY HistoryGrows
      <4>2. QED
        BY <2>1, <4>1, HistoryKeeps DEF StoreValues, TakeUpdates, JoinPending, JoinAs,
                                        StartBatch, StoreNothing
    <3>2. \A d \in Callers \ {c} : call'[d] = call[d]
      BY <2>0, <2>1 DEF StoreValues, TakeUpdates, JoinPending, JoinAs, StartBatch,
                        StoreNothing
    <3>3. call'[c].op = "store"
      <4> DEFINE w == NewCall("store", Len(history) + 1, Untouched)
      <4>0. /\ JoinPending(u) \/ StartBatch(u) \/ StoreNothing(u)
            /\ JoinPending(u) => call' = [call EXCEPT ![c] = BatchPromise(w)]
            /\ StartBatch(u) => call' = [call EXCEPT ![c] = [w EXCEPT !.state = "batch"]]
            /\ StoreNothing(u) => call' = [call EXCEPT ![c] = Resolved(w, root, Len(history) + 1)]
        BY <2>1, StoreCases
      <4>1. w.op = "store"
        BY DEF NewCall
      <4>2. w \in Call
        <5>1. Len(history) + 1 \in Nat
          BY <2>0
        <5>2. QED
          BY <5>1, NewCallType, Zenon
      <4> HIDE DEF w
      <4>3. [w EXCEPT !.state = "batch"].op = "store"
        BY <4>1, <4>2 DEF Call, CallRecord
      <4>4. BatchPromise(w).op = "store"
        BY <4>1, <4>2, <4>3, ResolvedFields DEF BatchPromise, TypeOK, Phases
      <4>5. Resolved(w, root, Len(history) + 1).op = "store"
        BY <4>1, <4>2, ResolvedFields
      <4>6. QED
        BY <2>0, <4>0, <4>3, <4>4, <4>5
    <3>4. QED
      BY <2>0, <3>1, <3>2, <3>3 DEF FetchInv
  <2>2. ASSUME NEW c \in Callers, FlushUpdates(c) PROVE FetchInv'
    <3> DEFINE w == NewCall("flush", Len(history), Untouched)
    <3>1. w.op = "flush" /\ w \in Call
      <4>1. w.op = "flush"
        BY DEF NewCall
      <4>2. w \in Call
        BY <2>0, NewCallType, Zenon
      <4>3. QED
        BY <4>1, <4>2
    <3> HIDE DEF w
    <3>2. [w EXCEPT !.state = "all"].op = "flush"
      BY <3>1 DEF Call, CallRecord
    <3>3. AllUpdatesPromise(w).op = "flush"
      BY <3>1, <3>2, ResolvedFields DEF AllUpdatesPromise, TypeOK, Phases
    <3>4. call'[c].op = "flush" /\ \A d \in Callers \ {c} : call'[d] = call[d]
      BY <2>0, <2>2, <3>3 DEF FlushUpdates, w
    <3>5. QED
      BY <2>2, <3>4 DEF FetchInv, FlushUpdates, historyVars
  <2>3. ASSUME NEW c \in Callers, NEW k \in Names, FetchValue(c, k) PROVE FetchInv'
    <3> DEFINE u == Overlay(pending, current)
    <3>1. u \in Updates
      BY <2>0, OverlayUpdates
    <3>2. Overlay(u, root) = history[Len(history)]
      BY <2>0, OverlayAssoc DEF SnapshotInv
    <3>3. history[Len(history)][k] = IF u[k] = Untouched THEN root[k] ELSE u[k]
      BY <3>2 DEF Overlay
    <3>4. /\ call'[c].since = Len(history) /\ call'[c].key = k
          /\ \/ /\ u[k] # Untouched /\ call'[c].state = "resolved" /\ call'[c].value = u[k]
             \/ /\ u[k] = Untouched /\ call'[c].state = "reading" /\ call'[c].node = root
      BY <2>0, <2>3 DEF FetchValue, FetchThrough, NewCall
    <3>5. /\ history' = history
          /\ \A d \in Callers \ {c} : call'[d] = call[d]
      BY <2>0, <2>3 DEF FetchValue, FetchThrough, historyVars
    <3>6. QED
      BY <2>0, <3>3, <3>4, <3>5 DEF FetchInv
  <2>4. ASSUME NEW c \in Callers, AnswerFetch(c) PROVE FetchInv'
    <3>1. call[c].op = "fetch" /\ call[c].state = "reading"
      BY <2>4 DEF AnswerFetch, FlushInv
    <3>2. /\ call'[c].since = call[c].since /\ call'[c].key = call[c].key
          /\ \/ call'[c].state = "resolved" /\ call'[c].value = call[c].node[call[c].key]
             \/ call'[c].state = "rejected"
          /\ \A d \in Callers \ {c} : call'[d] = call[d]
      BY <2>0, <2>4 DEF AnswerFetch, Rejected, Call, CallRecord
    <3>3. history' = history
      BY <2>4 DEF AnswerFetch, historyVars
    <3>4. QED
      BY <3>1, <3>2, <3>3 DEF FetchInv
  <2>5. CASE BatchStep \/ UNCHANGED mapVars
    <3>1. history' = history
      BY <2>5 DEF BatchStep, GotRootNode, NodeLands, NodeStored, BatchFails, NextBatch,
                  StartNext, NoNextBatch, GoIdle, Apply, ApplyLeaving, mapVars, historyVars
    <3>2. QED
      BY <2>5, <3>1, OthersFetch DEF FetchInv
  <2>6. QED
    BY <2>1, <2>2, <2>3, <2>4, <2>5 DEF Next
<1>3. FetchInv => FetchSeesLatest
  BY DEF FetchInv, FetchSeesLatest
<1>4. QED
  BY <1>1, <1>2, <1>3, TypeCorrect, Snapshots, FlushInvariant, PTL DEF Spec

-----------------------------------------------------------------------------
(* What a restart finds *)

(* A step that resolves a promise of storeValues or flushUpdates resolves  *)
(* it to the root as the step leaves it.                                   *)
LEMMA ResolvedToRoot ==
  ASSUME TypeOK, FlushInv, [Next]_mapVars, NEW d \in Callers,
         call'[d].op \in {"store", "flush"}, call'[d].state = "resolved",
         call'[d] # call[d]
  PROVE  call'[d].node = root'
<1>0. call[d] \in Call /\ call \in [Callers -> Call] /\ Len(history) \in Nat
  BY DEF TypeOK
<1>1. ASSUME NEW kind \in {"store", "flush"}, NEW i \in Nat,
             NEW v, v = NewCall(kind, i, Untouched)
      PROVE  /\ BatchPromise(v).state = "resolved" => BatchPromise(v).node = root
             /\ AllUpdatesPromise(v).state = "resolved" => AllUpdatesPromise(v).node = root
             /\ [v EXCEPT !.state = "batch"].state = "batch"
             /\ v \in Call
  <2>1. v \in Call
    BY <1>1, NewCallType, Zenon
  <2>2. /\ [v EXCEPT !.state = "batch"].state = "batch"
        /\ [v EXCEPT !.state = "all"].state = "all"
    BY <2>1 DEF Call, CallRecord
  <2>3. QED
    BY <2>1, <2>2, ResolvedFields DEF BatchPromise, AllUpdatesPromise, TypeOK, Phases
<1>2. ASSUME NEW c \in Callers, NEW u \in Updates, StoreValues(c, u) PROVE call'[d].node = root'
  <2> DEFINE w == NewCall("store", Len(history) + 1, Untouched)
  <2>1. /\ BatchPromise(w).state = "resolved" => BatchPromise(w).node = root
        /\ [w EXCEPT !.state = "batch"].state = "batch"
        /\ w \in Call
    <3>1. Len(history) + 1 \in Nat
      BY <1>0
    <3>2. QED
      BY <3>1, <1>1, Zenon
  <2>0. /\ JoinPending(u) \/ StartBatch(u) \/ StoreNothing(u)
        /\ JoinPending(u) => call' = [call EXCEPT ![c] = BatchPromise(w)]
        /\ StartBatch(u) => call' = [call EXCEPT ![c] = [w EXCEPT !.state = "batch"]]
        /\ StoreNothing(u) => call' = [call EXCEPT ![c] = Resolved(w, root, Len(history) + 1)]
    BY <1>2, StoreCases
  <2> HIDE DEF w
  <2>2. CASE JoinPending(u)
    BY <1>0, <2>0, <2>1, <2>2 DEF JoinPending, JoinAs
  <2>3. CASE StartBatch(u)
    BY <1>0, <2>0, <2>1, <2>3 DEF StartBatch
  <2>4. CASE StoreNothing(u)
    BY <1>0, <2>0, <2>1, <2>4, ResolvedFields DEF StoreNothing, managerVars
  <2>5. QED
    BY <2>0, <2>2, <2>3, <2>4
<1>3. ASSUME NEW c \in Callers, FlushUpdates(c) PROVE call'[d].node = root'
  <2> DEFINE w == NewCall("flush", Len(history), Untouched)
  <2>1. AllUpdatesPromise(w).state = "resolved" => AllUpdatesPromise(w).node = root
    BY <1>0, <1>1, Zenon
  <2> HIDE DEF w
  <2>2. QED
    BY <1>0, <1>3, <2>1 DEF FlushUpdates, w, managerVars
<1>4. ASSUME NEW c \in Callers, NEW k \in Names, FetchValue(c, k) PROVE call'[d].node = root'
  BY <1>0, <1>4 DEF FetchValue, FetchThrough, NewCall
<1>5. ASSUME NEW c \in Callers, AnswerFetch(c) PROVE call'[d].node = root'
  <2>1. call[c] \in Call /\ call[c].op = "fetch"
    BY <1>5 DEF AnswerFetch, FlushInv, TypeOK
  <2>2. QED
    BY <1>0, <1>5, <2>1 DEF AnswerFetch, Rejected, Call, CallRecord
<1>6. ASSUME NEW m, Apply(m) PROVE call'[d].node = root'
  BY <1>0, <1>6, ResolvedFields DEF Apply, ApplyLeaving
<1>7. CASE BatchFails
  BY <1>0, <1>7, ResolvedFields DEF BatchFails
<1>8. CASE NextBatch
  BY <1>0, <1>8 DEF NextBatch, StartNext, Call, CallRecord
<1>9. CASE NoNextBatch
  BY <1>0, <1>9, ResolvedFields DEF NoNextBatch, GoIdle
<1>10. QED
  BY <1>2, <1>3, <1>4, <1>5, <1>6, <1>7, <1>8, <1>9
  DEF Next, BatchStep, GotRootNode, NodeLands, NodeStored, mapVars

(* The datastore only gains nodes, and the root only moves to one of them. *)
LEMMA RootStays ==
  ASSUME TypeOK, Fetchable(root), [Next]_mapVars
  PROVE  nodes \subseteq nodes' /\ Fetchable(root)'
<1>1. CASE GotRootNode
  BY <1>1 DEF GotRootNode, Apply, ApplyLeaving, Fetchable
<1>2. CASE NodeStored
  BY <1>2 DEF NodeStored, Apply, ApplyLeaving, Fetchable
<1>3. CASE NodeLands
  BY <1>3 DEF NodeLands, Fetchable
<1>4. CASE BatchFails \/ NextBatch \/ NoNextBatch \/ UNCHANGED mapVars
  BY <1>4 DEF BatchFails, NextBatch, StartNext, NoNextBatch, GoIdle, mapVars, managerVars,
              Fetchable
<1>5. ASSUME NEW c \in Callers,
             (\E u \in Updates : StoreValues(c, u)) \/ FlushUpdates(c) \/ AnswerFetch(c)
             \/ (\E k \in Names : FetchValue(c, k))
      PROVE  nodes \subseteq nodes' /\ Fetchable(root)'
  BY <1>5 DEF StoreValues, TakeUpdates, JoinPending, JoinAs, StartBatch, StoreNothing,
              FlushUpdates, AnswerFetch, FetchValue, FetchThrough, managerVars, Fetchable
<1>6. QED
  BY <1>1, <1>2, <1>3, <1>4, <1>5 DEF Next, BatchStep

(* Whenever the process stops, the last root URI that anybody was given    *)
(* names a node that the datastore has.                                    *)
THEOREM RootsStayStored == Spec => []RootsAreStored
<1>1. Init => RootsAreStored
  BY DEF Init, RootsAreStored, Fetchable, NoCall, NewCall
<1>2. TypeOK /\ FlushInv /\ RootsAreStored /\ [Next]_mapVars => RootsAreStored'
  <2> SUFFICES ASSUME TypeOK, FlushInv, RootsAreStored, [Next]_mapVars
               PROVE  RootsAreStored'
    OBVIOUS
  <2>1. nodes \subseteq nodes' /\ Fetchable(root)'
    BY RootStays DEF RootsAreStored
  <2>2. ASSUME NEW d \in Callers, call'[d].op \in {"store", "flush"},
               call'[d].state = "resolved"
        PROVE  Fetchable(call[d].node)'
    <3>1. CASE call'[d] = call[d]
      BY <2>1, <2>2, <3>1 DEF RootsAreStored, Fetchable
    <3>2. CASE call'[d] # call[d]
      <4>1. call'[d].node = root'
        BY <2>2, <3>2, ResolvedToRoot
      <4>2. QED
        BY <2>1, <4>1 DEF Fetchable
    <3>3. QED
      BY <3>1, <3>2
  <2>3. QED
    BY <2>1, <2>2 DEF RootsAreStored
<1>3. QED
  BY <1>1, <1>2, TypeCorrect, FlushInvariant, PTL DEF Spec

-----------------------------------------------------------------------------
(* The refinement *)

(* The batching manager implements the write-behind map: each step is a    *)
(* write, the start or the end of a save, or invisible.                    *)
THEOREM Refinement == Spec => ImplementsWriteBehind
<1> DEFINE newest == Overlay(pending, Overlay(current, root))
           snapshot == Overlay(current, root)
<1>1. Init => WriteBehind!Init
  BY OverlayNothing DEF Init, WriteBehind!Init, WriteBehind!Maps, Node
<1>2. TypeOK /\ SnapshotInv /\ PhaseInv /\ [Next]_mapVars => [WriteBehind!Next]_WriteBehind!vars
  <2> SUFFICES ASSUME TypeOK, SnapshotInv, PhaseInv, [Next]_mapVars
               PROVE  WriteBehind!Next \/ UNCHANGED <<newest, snapshot, root>>
    BY DEF WriteBehind!vars
  <2>0. /\ root \in Node /\ pending \in Updates /\ current \in Updates
        /\ snapshot \in Node /\ newest \in Node
    BY OverlayNode DEF TypeOK
  <2>1. \A u, m : WriteBehind!Written(u, m) = Overlay(u, m)
    BY DEF WriteBehind!Written, Overlay
  <2>2. WriteBehind!Writes = Updates
    BY DEF WriteBehind!Writes, Updates
  <2>3. ASSUME NEW c \in Callers, NEW u \in Updates, StoreValues(c, u)
        PROVE  WriteBehind!Next \/ UNCHANGED <<newest, snapshot, root>>
    <3>1. Overlay(u, newest) = Overlay(Overlay(u, pending), snapshot)
      BY <2>0, OverlayAssoc
    <3>2. CASE JoinPending(u)
      <4>1. WriteBehind!Write(u)
        BY <2>1, <3>1, <3>2 DEF JoinPending, JoinAs, WriteBehind!Write
      <4>2. QED
        BY <2>2, <4>1 DEF WriteBehind!Next
    <3>3. CASE StartBatch(u)
      <4>1. pending = NoUpdates /\ current = NoUpdates
        BY <3>3 DEF StartBatch, PhaseInv
      <4>2. /\ current' = u /\ pending' = NoUpdates /\ root' = root
            /\ snapshot = root /\ newest = root
        BY <2>0, <3>3, <4>1, OverlayNothing DEF StartBatch
      <4>3. snapshot' = Overlay(u, root) /\ newest' = Overlay(u, root)
        BY <2>0, <4>2, OverlayNode, OverlayNothing
      <4>4. WriteBehind!WriteAndSave(u)
        BY <2>1, <4>2, <4>3 DEF WriteBehind!WriteAndSave
      <4>5. QED
        BY <2>2, <4>4 DEF WriteBehind!Next
    <3>4. CASE StoreNothing(u)
      BY <3>4 DEF StoreNothing, managerVars
    <3>5. QED
      BY <2>3, <3>2, <3>3, <3>4 DEF StoreValues, TakeUpdates
  <2>4. ASSUME NEW m, m = snapshot, Apply(m) PROVE WriteBehind!Next
    <3>1. snapshot' = snapshot /\ newest' = newest /\ root' = snapshot
      BY <2>0, <2>4, OverlayNothing DEF Apply, ApplyLeaving
    <3>2. QED
      BY <3>1 DEF WriteBehind!Next, WriteBehind!FinishSaving
  <2>5. CASE GotRootNode \/ NodeStored
    BY <2>4, <2>5 DEF GotRootNode, NodeStored, BatchNode
  <2>6. CASE NextBatch
    <3>1. snapshot = root
      BY <2>0, <2>6, OverlayNothing DEF NextBatch, StartNext, PhaseInv
    <3>2. snapshot' = newest /\ newest' = newest /\ root' = root
      BY <2>0, <2>6, <3>1, OverlayNothing DEF NextBatch, StartNext
    <3>3. QED
      BY <3>1, <3>2 DEF WriteBehind!Next, WriteBehind!StartSaving
  <2>7. CASE NodeLands \/ BatchFails \/ NoNextBatch \/ UNCHANGED mapVars
    BY <2>7 DEF NodeLands, BatchFails, NoNextBatch, GoIdle, mapVars, managerVars
  <2>8. ASSUME NEW c \in Callers,
               FlushUpdates(c) \/ AnswerFetch(c) \/ (\E k \in Names : FetchValue(c, k))
        PROVE  UNCHANGED <<newest, snapshot, root>>
    BY <2>8 DEF FlushUpdates, AnswerFetch, FetchValue, FetchThrough, managerVars
  <2>9. QED
    BY <2>3, <2>5, <2>6, <2>7, <2>8 DEF Next, BatchStep
<1>3. QED
  BY <1>1, <1>2, TypeCorrect, Snapshots, PTL DEF Spec, ImplementsWriteBehind, WriteBehind!Spec

-----------------------------------------------------------------------------
(* The inductive invariant *)

(* The map manager's part of it *)
MapInv == TypeOK /\ SnapshotInv /\ PhaseInv

HardRefs == [n \in Names |-> HardRef(n)]

(* A promise cached under a URN is for the object that the URN names. *)
ValuesAsNamed == \A v \in Values : cache[v].state # "none" => cache[v].of = v

(* Wherever a name is held, in the cache, among the mutable objects, in    *)
(* tempNameMap or in the map, it is what it was last set to; only the map  *)
(* may lag, while the name is being stored.                                *)
NamesInv ==
  \A n \in Names :
    /\ mutable[n] = Absent /\ cache[n].state \in {"finding", "loading", "ready"} =>
         cache[n].of = latest[n]
    /\ mutable[n] = Absent /\ n \notin storing => HardRefs[n] = latest[n]
    /\ mutable[n] # Absent => mutable[n] = latest[n] /\ n \notin storing

(* The operation of c has a name in storing. *)
Storing(c) == op[c].kind = "store" /\ op[c].state \in {"data", "map"} /\ op[c].name # Absent

(* A storeObject under way will bind, or has bound, its name to what the   *)
(* name was last set to.                                                   *)
StoringOk(c) ==
  /\ op[c].kind = "store" /\ op[c].wait # {} => op[c].state = "data"
  /\ Storing(c) => op[c].name \in storing
  /\ Storing(c) /\ op[c].state = "data" => op[c].wait \subseteq {latest[op[c].name]}
  /\ op[c].kind = "store" /\ op[c].state = "map" =>
       op[c].name \in Names /\ HardRefs[op[c].name] = latest[op[c].name]

(* No two operations store the same name. *)
OpsInv ==
  /\ \A c \in Callers : StoringOk(c)
  /\ \A c, d \in Callers : Storing(c) /\ Storing(d) /\ op[c].name = op[d].name => c = d

DataInv == DataTypeOK /\ PinnedAreCached /\ ValuesAsNamed /\ NamesInv /\ OpsInv

-----------------------------------------------------------------------------
(* What the map manager shows *)

(* fetchValue's answer is the present of the map's history. *)
LEMMA MappedIsNow ==
  ASSUME SnapshotInv, NEW n \in Names
  PROVE  Mapped(n) = history[Len(history)][n]
BY DEF SnapshotInv, Mapped

(* The map manager starts in order.                                        *)
LEMMA MapInit == Init => MapInv
<1>1. ASSUME Init PROVE SnapshotInv /\ PhaseInv
  BY <1>1, OverlayNothing DEF Init, SnapshotInv, PhaseInv
<1>2. QED
  BY <1>1, TypeInit DEF MapInv

HardRefsType == HardRefs \in [Names -> Values \cup {Absent}]

(* fetchHardRef gives an object's URN or nothing. *)
LEMMA HardRefsTyped ==
  ASSUME MapInv, DataTypeOK
  PROVE  HardRefsType
<1>1. /\ Len(history) \in Nat /\ Len(history) >= 1 /\ history \in Seq(Node)
  BY DEF MapInv, TypeOK
<1>2. history[Len(history)] \in Node
  BY <1>1
<1>3. \A n \in Names : Mapped(n) \in Values \cup {Absent}
  BY <1>2, MappedIsNow DEF MapInv, Node
<1>4. \A n \in Names : HardRef(n) \in Values \cup {Absent}
  BY <1>3 DEF HardRef, DataTypeOK
<1>5. QED
  BY <1>4 DEF HardRefs, HardRefsType

(* A callback that leaves the map manager alone, or is one of its own,     *)
(* changes no name's mapping.                                              *)
LEMMA MapKept ==
  ASSUME MapInv, BatchStep \/ UNCHANGED mapVars
  PROVE  /\ MapInv'
         /\ \A n \in Names : Mapped(n)' = Mapped(n)
<1>1. [Next]_mapVars
  BY DEF Next
<1>2. MapInv'
  BY <1>1, TypeStep, SnapshotStep DEF MapInv
<1>3. history' = history
  BY DEF BatchStep, GotRootNode, NodeLands, NodeStored, BatchFails, NextBatch, StartNext,
         NoNextBatch, GoIdle, Apply, ApplyLeaving, mapVars, historyVars
<1>4. ASSUME NEW n \in Names PROVE Mapped(n)' = Mapped(n)
  <2>1. Mapped(n)' = history'[Len(history')][n]
    BY <1>2 DEF MapInv, SnapshotInv, Mapped
  <2>2. QED
    BY <1>3, <2>1, MappedIsNow DEF MapInv
<1>5. QED
  BY <1>2, <1>4

(* Updates that the map manager takes are in force from then on. *)
LEMMA MapTaken ==
  ASSUME MapInv, NEW u \in Updates, TakeUpdates(u)
  PROVE  /\ SnapshotInv' /\ PhaseInv'
         /\ \A n \in Names : Mapped(n)' = IF u[n] = Untouched THEN Mapped(n) ELSE u[n]
<1>1. SnapshotInv' /\ PhaseInv'
  BY SnapshotTake DEF MapInv
<1>2. history[Len(history)] \in Node /\ Overlay(u, history[Len(history)]) \in Node
  BY HistoryGrows DEF MapInv
<1>3. history' = Append(history, Overlay(u, history[Len(history)]))
  BY DEF TakeUpdates, JoinPending, JoinAs, StartBatch, StoreNothing
<1>4. history'[Len(history')] = Overlay(u, history[Len(history)])
  BY <1>2, <1>3, HistoryKeeps DEF MapInv, TypeOK
<1>5. ASSUME NEW n \in Names
      PROVE  Mapped(n)' = IF u[n] = Untouched THEN Mapped(n) ELSE u[n]
  <2>1. Mapped(n)' = history'[Len(history')][n]
    BY <1>1 DEF SnapshotInv, Mapped
  <2>2. Mapped(n) = history[Len(history)][n]
    BY MappedIsNow DEF MapInv
  <2>3. QED
    BY <1>4, <2>1, <2>2 DEF Overlay
<1>6. QED
  BY <1>1, <1>5

(* So does storeValues, which takes updates for a caller.                  *)
LEMMA MapStored ==
  ASSUME MapInv, NEW c \in Callers, NEW u \in Updates, StoreValues(c, u)
  PROVE  /\ MapInv'
         /\ \A n \in Names : Mapped(n)' = IF u[n] = Untouched THEN Mapped(n) ELSE u[n]
<1>1. TypeOK'
  <2>1. [Next]_mapVars
    BY DEF Next
  <2>2. QED
    BY <2>1, TypeStep DEF MapInv
<1>2. QED
  BY <1>1, MapTaken DEF MapInv, StoreValues

(* What flushUpdates hands to the map manager, with the promise for it,    *)
(* leaves the map manager in order.                                        *)
LEMMA MapFlushed ==
  ASSUME MapInv, NEW c \in Callers, NEW u \in Updates, TakeUpdates(u),
         call' = [call EXCEPT ![c] =
                    AllUpdatesPromise(NewCall("flush", Len(history), Untouched))']
  PROVE  /\ MapInv'
         /\ \A n \in Names : Mapped(n)' = IF u[n] = Untouched THEN Mapped(n) ELSE u[n]
<1> USE DEF Phases
<1>1. /\ Len(history) \in Nat /\ Len(history) >= 1
      /\ Append(history, Overlay(u, history[Len(history)])) \in Seq(Node)
      /\ Overlay(u, history[Len(history)]) \in Node
  BY HistoryGrows DEF MapInv
<1>2. Overlay(u, pending) \in Updates
  BY OverlayUpdates DEF MapInv, TypeOK
<1>3. history' \in Seq(Node) /\ Len(history') = Len(history) + 1
  BY <1>1 DEF TakeUpdates, MapInv, TypeOK
<1>4. /\ root' \in Node /\ pending' \in Updates /\ current' \in Updates /\ phase' \in Phases
      /\ nodes' \subseteq Node /\ sent' \in 1 .. Len(history') /\ saved' \in 1 .. sent'
  BY <1>1, <1>2, <1>3, OverlayNothing
  DEF TakeUpdates, JoinPending, JoinAs, StartBatch, StoreNothing, managerVars, MapInv, TypeOK
<1>5. call' \in [Callers -> Call]
  <2> DEFINE w == NewCall("flush", Len(history'), Untouched)
  <2>1. w \in Call
    <3>1. Len(history') \in Nat
      BY <1>1, <1>3
    <3>2. QED
      BY <3>1, NewCallType, Zenon
  <2> HIDE DEF w
  <2>2. /\ [w EXCEPT !.state = "all"] \in Call
        /\ Rejected(w) \in Call
        /\ Resolved(w, root', saved') \in Call
    <3>1. root' \in Node /\ saved' \in Nat
      BY <1>1, <1>3, <1>4
    <3>2. QED
      BY <2>1, <3>1, PromiseType, ZenonT(40) DEF MapInv, Call, CallRecord, CallStates
  <2>3. call' = [call EXCEPT ![c] =
                   CASE phase' \in {"fetching", "storing", "applied"} -> [w EXCEPT !.state = "all"]
                     [] phase' = "idle"                               -> Resolved(w, root', saved')
                     [] phase' = "failed"                             -> Rejected(w)]
    BY DEF AllUpdatesPromise, NewCall, Resolved, Rejected, EmptyNode, w
  <2>4. QED
    BY <1>4, <2>2, <2>3 DEF MapInv, TypeOK
<1>6. QED
  BY <1>3, <1>4, <1>5, MapTaken DEF MapInv, TypeOK

-----------------------------------------------------------------------------
(* What fetchHardRef shows *)

(* What leaves the map manager and tempNameMap alone changes no name.      *)
LEMMA HardRefsKept ==
  ASSUME MapInv, BatchStep \/ UNCHANGED mapVars, tempNames' = tempNames
  PROVE  MapInv' /\ HardRefs' = HardRefs
<1>1. MapInv' /\ \A n \in Names : Mapped(n)' = Mapped(n)
  BY MapKept
<1>2. \A n \in Names : HardRef(n)' = HardRef(n)
  BY <1>1 DEF HardRef
<1>3. QED
  BY <1>1, <1>2 DEF HardRefs

(* Once updateMap has bound a name, fetchHardRef shows what it bound.      *)
LEMMA HardRefsBound ==
  ASSUME MapInv, DataTypeOK, NEW c \in Callers, NEW n \in Names, NEW v \in Values,
         StoreValues(c, Only(n, v)), tempNames' = [tempNames EXCEPT ![n] = Untouched]
  PROVE  MapInv' /\ HardRefs' = [HardRefs EXCEPT ![n] = v]
<1> DEFINE u == Only(n, v)
<1>1. u \in Updates
  BY DEF Only, Updates
<1>2. MapInv' /\ \A k \in Names : Mapped(k)' = IF u[k] = Untouched THEN Mapped(k) ELSE u[k]
  BY <1>1, MapStored
<1>3. /\ Mapped(n)' = v
      /\ \A k \in Names \ {n} : Mapped(k)' = Mapped(k)
  BY <1>2, SentinelAssumption DEF Only
<1>4. /\ HardRef(n)' = v
      /\ \A k \in Names \ {n} : HardRef(k)' = HardRef(k)
  BY <1>3 DEF HardRef, DataTypeOK
<1>5. QED
  BY <1>2, <1>4 DEF HardRefs

(* Once tempStoreObject has bound a name, fetchHardRef shows the object.   *)
LEMMA HardRefsTemp ==
  ASSUME MapInv, DataTypeOK, NEW n \in Names, NEW v \in Values,
         UNCHANGED mapVars, tempNames' = [tempNames EXCEPT ![n] = v]
  PROVE  MapInv' /\ HardRefs' = [HardRefs EXCEPT ![n] = v]
<1>1. MapInv' /\ \A k \in Names : Mapped(k)' = Mapped(k)
  BY MapKept
<1>2. /\ HardRef(n)' = v
      /\ \A k \in Names \ {n} : HardRef(k)' = HardRef(k)
  BY <1>1, SentinelAssumption DEF HardRef, DataTypeOK
<1>3. QED
  BY <1>1, <1>2 DEF HardRefs

-----------------------------------------------------------------------------
(* The steps of a fetch *)

(* A promise that gets further is still for the same object. *)
LEMMA AdvancedEntries ==
  ASSUME DataTypeOK, NEW s, NEW t \in {"none", "finding", "loading", "ready", "failed"}, NEW h
  PROVE  /\ Advanced(s, h, t) \in [Refs -> Entry]
         /\ \A r \in Refs : /\ Advanced(s, h, t)[r].of = cache[r].of
                            /\ \/ Advanced(s, h, t)[r] = cache[r]
                               \/ cache[r].state = s /\ Advanced(s, h, t)[r].state = t
BY DEF Advanced, DataTypeOK, Entry

(* What the steps of a fetch do to the cache: nothing but to move promises *)
(* that are not there or not settled.                                      *)
CacheMoves ==
  /\ cache' \in [Refs -> Entry]
  /\ \A r \in Refs : cache'[r] # cache[r] =>
       \/ cache[r].state \in {"finding", "loading"} /\ cache'[r].of = cache[r].of
       \/ /\ cache[r].state = "none"
          /\ r \in Values => cache'[r].of = r
          /\ r \in Names /\ cache'[r].state # "failed" => cache'[r].of = HardRefs[r]

(* A step that only moves promises keeps the invariant.                    *)
LEMMA FetchKeeps ==
  ASSUME MapInv, DataInv, CacheMoves,
         UNCHANGED <<mapVars, storing, tempVars, op, latest>>, knownStored' \subseteq Values,
         lookups' \subseteq Values \cup {Absent}, loads' \subseteq Values,
         UNCHANGED diskVars
  PROVE  MapInv' /\ DataInv'
<1> USE DEF DataInv
<1>1. MapInv' /\ HardRefs' = HardRefs
  BY HardRefsKept DEF tempVars
<1>2. DataTypeOK'
  BY DEF DataTypeOK, CacheMoves, tempVars, diskVars
<1>3. PinnedAreCached'
  BY DEF PinnedAreCached, CacheMoves, tempVars, Refs, Ready, DataTypeOK
<1>4. ValuesAsNamed'
  BY DEF ValuesAsNamed, CacheMoves, Refs
<1>5. NamesInv'
  BY <1>1 DEF NamesInv, CacheMoves, Refs, PinnedAreCached, tempVars
<1>6. OpsInv'
  BY <1>1 DEF OpsInv, StoringOk, Storing
<1>7. QED
  BY <1>1, <1>2, <1>3, <1>4, <1>5, <1>6

(* A fetch begins with what the name or the URN stands for now.            *)
LEMMA FetchObjectKeeps ==
  ASSUME MapInv, DataInv, NEW r \in Refs, FetchObject(r)
  PROVE  MapInv' /\ DataInv'
<1>1. HardRefs \in [Names -> Values \cup {Absent}] /\ DataTypeOK
  BY HardRefsTyped DEF HardRefsType, DataInv
<1>2. r \in Names => HardRefs[r] = HardRef(r)
  BY DEF HardRefs
<1>3. Names \cap Values = {}
  BY DataAssumption
<1>4. cache' \in [Refs -> Entry] /\ \A x \in Refs \ {r} : cache'[x] = cache[x]
  BY <1>1, <1>2 DEF FetchObject, DataTypeOK, Entry
<1>5. /\ cache[r].state = "none"
      /\ r \in Values => cache'[r].of = r
      /\ r \in Names /\ cache'[r].state # "failed" => cache'[r].of = HardRefs[r]
  BY <1>1, <1>2, <1>3 DEF FetchObject, DataTypeOK
<1>6. CacheMoves
  BY <1>4, <1>5 DEF CacheMoves
<1>7. lookups' \subseteq Values \cup {Absent} /\ loads' \subseteq Values
  BY <1>1, <1>2 DEF FetchObject, DataTypeOK, fetchVars
<1>8. QED
  BY <1>1, <1>6, <1>7, FetchKeeps DEF FetchObject, DataTypeOK

(* The callbacks of a fetch move promises to their object.                 *)
LEMMA FetchStepKeeps ==
  ASSUME MapInv, DataInv, FetchStep
  PROVE  MapInv' /\ DataInv'
<1>0. DataTypeOK /\ ValuesAsNamed
  BY DEF DataInv
<1>1. ASSUME NEW h \in Values \cup {Absent}, FoundHardRef(h) PROVE MapInv' /\ DataInv'
  <2>1. CASE h \in Values /\ cache[h].state = "none"
                /\ cache' = [Advanced("finding", h, "loading") EXCEPT
                               ![h] = [state |-> "loading", of |-> h]]
                /\ loads' = loads \cup {h}
    <3>1. /\ Advanced("finding", h, "loading") \in [Refs -> Entry]
          /\ \A r \in Refs :
               /\ Advanced("finding", h, "loading")[r].of = cache[r].of
               /\ \/ Advanced("finding", h, "loading")[r] = cache[r]
                  \/ cache[r].state = "finding"
      BY <1>0, AdvancedEntries
    <3>2. CacheMoves
      BY <2>1, <3>1, DataAssumption DEF CacheMoves, Entry, Refs
    <3>3. lookups' \subseteq Values \cup {Absent} /\ loads' \subseteq Values
      BY <1>0, <1>1, <2>1 DEF FoundHardRef, DataTypeOK
    <3>4. QED
      BY <1>0, <1>1, <3>2, <3>3, FetchKeeps DEF FoundHardRef, DataTypeOK
  <2>2. ASSUME NEW t \in {"none", "finding", "loading", "ready", "failed"},
               cache' = Advanced("finding", h, t), loads' = loads
        PROVE  MapInv' /\ DataInv'
    <3>1. CacheMoves
      BY <1>0, <2>2, AdvancedEntries, SMTT(30) DEF CacheMoves
    <3>2. lookups' \subseteq Values \cup {Absent} /\ loads' \subseteq Values
      BY <1>0, <1>1, <2>2 DEF FoundHardRef, DataTypeOK
    <3>3. QED
      BY <1>0, <1>1, <3>1, <3>2, FetchKeeps DEF FoundHardRef, DataTypeOK
  <2>3. h \in Values => cache[h].state \in {"none", "finding", "loading", "ready", "failed"}
    BY <1>0 DEF DataTypeOK, Entry, Refs
  <2>4. QED
    BY <1>1, <2>1, <2>2, <2>3 DEF FoundHardRef
<1>2. ASSUME NEW h \in Values, ObjectLoaded(h) \/ LoadFails(h) PROVE MapInv' /\ DataInv'
  <2>1. PICK t \in {"ready", "failed"} : cache' = Advanced("loading", h, t)
    BY <1>2 DEF ObjectLoaded, LoadFails, LoadFailsKnowing
  <2>2. CacheMoves
    BY <1>0, <2>1, AdvancedEntries DEF CacheMoves
  <2>3. /\ UNCHANGED <<mapVars, storing, tempVars, op, latest>> /\ UNCHANGED diskVars
        /\ lookups' \subseteq Values \cup {Absent} /\ loads' \subseteq Values
        /\ knownStored' \subseteq Values
    BY <1>0, <1>2 DEF ObjectLoaded, LoadFails, LoadFailsKnowing, DataTypeOK
  <2>4. QED
    BY <2>2, <2>3, FetchKeeps
<1>3. QED
  BY <1>1, <1>2 DEF FetchStep

-----------------------------------------------------------------------------
(* The steps that bind a name.  The program is taken to bind no name that  *)
(* is being stored, nor one behind the back of a mutable object.           *)

(* updateMap binds a free name, in the cache and in the map at once.       *)
LEMMA UpdateMapKeeps ==
  ASSUME MapInv, DataInv, "serialBinds" \in Habits,
         NEW c \in Callers, NEW n \in Names, NEW v \in Values, UpdateMap(c, n, v)
  PROVE  MapInv' /\ DataInv'
<1> USE DEF DataInv
<1>0. Names \cap Values = {} /\ Absent \notin Refs /\ n \in Refs /\ v \in Refs /\ n # v
  BY DataAssumption DEF Refs
<1>1. MapInv' /\ HardRefs' = [HardRefs EXCEPT ![n] = v]
  BY HardRefsBound DEF UpdateMap
<1>2. n \notin storing /\ mutable[n] = Absent
  BY DEF UpdateMap, MayBind
<1>3. /\ cache' = [cache EXCEPT ![n] = cache[v]]
      /\ tempNames' = [tempNames EXCEPT ![n] = Untouched]
      /\ latest' = [latest EXCEPT ![n] = v]
      /\ op' = [op EXCEPT ![c] = NoOp]
      /\ UNCHANGED <<fetchVars, storing, knownStored, tempUrns, mutable, diskVars>>
  BY DEF UpdateMap, Rebound
<1>4. DataTypeOK'
  <2>1. cache' \in [Refs -> Entry] /\ latest' \in Node /\ op' \in [Callers -> Op]
    BY <1>0, <1>3 DEF DataTypeOK, Node, NoOp, Op
  <2>2. QED
    BY <1>3, <2>1 DEF DataTypeOK, fetchVars, diskVars
<1>5. PinnedAreCached'
  BY <1>0, <1>2, <1>3 DEF PinnedAreCached, Ready, DataTypeOK, Refs
<1>6. ValuesAsNamed'
  BY <1>0, <1>3 DEF ValuesAsNamed, DataTypeOK, Refs
<1>7. NamesInv'
  BY <1>0, <1>1, <1>2, <1>3, HardRefsTyped
  DEF NamesInv, ValuesAsNamed, DataTypeOK, Refs, Node, HardRefsType
<1>8. OpsInv'
  BY <1>0, <1>1, <1>2, <1>3, HardRefsTyped
  DEF OpsInv, StoringOk, Storing, DataTypeOK, NoOp, Node, HardRefsType
<1>9. QED
  BY <1>1, <1>4, <1>5, <1>6, <1>7, <1>8

(* storeObject takes a free name into storing; the map lags from here.     *)
LEMMA StoreObjectKeeps ==
  ASSUME MapInv, DataInv, "serialBinds" \in Habits,
         NEW c \in Callers, NEW v \in Values, NEW n \in Names \cup {Absent},
         StoreObject(c, v, n)
  PROVE  MapInv' /\ DataInv'
<1> USE DEF DataInv
<1>0. Names \cap Values = {} /\ Absent \notin Names /\ Values \subseteq Refs /\ Names \subseteq Refs
  BY DataAssumption DEF Refs
<1> DEFINE o == [kind |-> "store", name |-> n, wait |-> {v}, state |-> "data"]
<1>o. /\ o \in Op /\ o.kind = "store" /\ o.name = n /\ o.wait = {v} /\ o.state = "data"
  BY DEF Op
<1> HIDE DEF o
<1>1. MapInv' /\ HardRefs' = HardRefs
  BY HardRefsKept DEF StoreObject, tempVars
<1>2. n \in Names => n \notin storing /\ mutable[n] = Absent
  BY DEF StoreObject, MayBind
<1>3. /\ op' = [op EXCEPT ![c] = o]
      /\ landing' = landing \cup ({v} \ blobs)
      /\ UNCHANGED <<fetchVars, knownStored, tempVars, blobs>>
      /\ \/ n = Absent /\ UNCHANGED <<cache, storing, latest>>
         \/ /\ n \in Names
            /\ cache' = [cache EXCEPT ![n] = Ready(v)]
            /\ storing' = storing \cup {n}
            /\ latest' = [latest EXCEPT ![n] = v]
  BY DEF StoreObject, o
<1>r. Ready(v) \in Entry /\ Ready(v).of = v /\ Ready(v).state = "ready"
  BY DEF Ready, Entry
<1>4. DataTypeOK'
  <2>1. cache' \in [Refs -> Entry] /\ latest' \in Node /\ op' \in [Callers -> Op]
    BY <1>0, <1>3, <1>o, <1>r DEF DataTypeOK, Node
  <2>2. QED
    BY <1>3, <2>1 DEF DataTypeOK, fetchVars, tempVars
<1>5. PinnedAreCached'
  BY <1>0, <1>3, <1>r DEF PinnedAreCached, DataTypeOK, tempVars
<1>6. ValuesAsNamed'
  BY <1>0, <1>3 DEF ValuesAsNamed, DataTypeOK
<1>7. NamesInv'
  BY <1>0, <1>1, <1>2, <1>3, <1>r DEF NamesInv, DataTypeOK, tempVars, Node
<1>8. OpsInv'
  <2>1. ASSUME NEW d \in Callers \ {c} PROVE StoringOk(d)'
    BY <1>0, <1>1, <1>2, <1>3, <2>1 DEF OpsInv, StoringOk, Storing, DataTypeOK, Node
  <2>2. StoringOk(c)'
    BY <1>0, <1>3, <1>o DEF StoringOk, Storing, DataTypeOK, Node
  <2>3. \A d \in Callers \ {c} : Storing(d)' => op[d].name \in storing
    BY <1>3 DEF OpsInv, StoringOk, Storing, DataTypeOK
  <2>4. QED
    BY <1>0, <1>2, <1>3, <1>o, <2>1, <2>2, <2>3 DEF OpsInv, Storing, DataTypeOK
<1>9. QED
  BY <1>1, <1>4, <1>5, <1>6, <1>7, <1>8

(* When its data is stored, the map catches up.                            *)
LEMMA ObjectStoredKeeps ==
  ASSUME MapInv, DataInv, NEW c \in Callers, NEW v \in Values, ObjectStored(c, v)
  PROVE  MapInv' /\ DataInv'
<1> USE DEF DataInv
<1>0. Names \cap Values = {} /\ Absent \notin Names /\ Values \subseteq Refs /\ Names \subseteq Refs
  BY DataAssumption DEF Refs
<1> DEFINE n == op[c].name
<1>r. Ready(v) \in Entry /\ Ready(v).of = v /\ Ready(v).state = "ready"
  BY DEF Ready, Entry
<1>1. /\ op[c] \in Op /\ op[c].kind = "store" /\ op[c].state = "data" /\ v \in op[c].wait
      /\ n \in Names \cup {Absent}
  BY DEF ObjectStored, OpsInv, StoringOk, DataTypeOK, Op
<1>2. CASE n = Absent
  <2>1. MapInv' /\ HardRefs' = HardRefs
    BY <1>0, <1>1, <1>2, HardRefsKept DEF ObjectStored
  <2>2. /\ cache' = [cache EXCEPT ![v] = Ready(v)] /\ op' = [op EXCEPT ![c] = NoOp]
        /\ UNCHANGED <<fetchVars, storing, tempUrns, tempNames, mutable, diskVars, latest>>
        /\ knownStored' = knownStored \cup {v}
    BY <1>0, <1>2 DEF ObjectStored
  <2>3. NoOp \in Op /\ NoOp.kind = "none"
    BY DEF NoOp, Op
  <2>4. DataTypeOK'
    BY <1>0, <1>r, <2>2, <2>3 DEF DataTypeOK, fetchVars, diskVars
  <2>5. PinnedAreCached' /\ ValuesAsNamed'
    BY <1>0, <1>r, <2>2 DEF DataTypeOK, PinnedAreCached, ValuesAsNamed
  <2>6. NamesInv'
    BY <1>0, <1>r, <2>1, <2>2 DEF DataTypeOK, NamesInv
  <2>7. OpsInv'
    BY <2>1, <2>2, <2>3 DEF DataTypeOK, OpsInv, StoringOk, Storing
  <2>8. QED
    BY <2>1, <2>4, <2>5, <2>6, <2>7
<1>3. CASE n \in Names
  <2>1. /\ StoreValues(c, Only(n, v)) /\ tempNames' = [tempNames EXCEPT ![n] = Untouched]
        /\ UNCHANGED <<fetchVars, storing, tempUrns, mutable, diskVars, latest>>
        /\ knownStored' = knownStored \cup {v}
        /\ cache' = [[cache EXCEPT ![v] = Ready(v)] EXCEPT ![n] = [cache EXCEPT ![v] = Ready(v)][v]]
        /\ op' = [op EXCEPT ![c].wait = {}, ![c].state = "map"]
    BY <1>0, <1>3 DEF ObjectStored, Rebound
  <2>2. MapInv' /\ HardRefs' = [HardRefs EXCEPT ![n] = v]
    BY <1>3, <2>1, HardRefsBound
  <2>3. cache' = [[cache EXCEPT ![v] = Ready(v)] EXCEPT ![n] = Ready(v)]
    BY <1>0, <2>1 DEF DataTypeOK
  <2>4. /\ op' \in [Callers -> Op] /\ \A d \in Callers \ {c} : op'[d] = op[d]
        /\ op'[c].kind = "store" /\ op'[c].name = n /\ op'[c].wait = {} /\ op'[c].state = "map"
    BY <1>1, <2>1 DEF DataTypeOK, Op
  <2>5. n \in storing /\ latest[n] = v /\ Storing(c) /\ mutable[n] = Absent
    BY <1>0, <1>1, <1>3 DEF OpsInv, StoringOk, Storing, NamesInv
  <2>6. HardRefs'[n] = v /\ \A k \in Names \ {n} : HardRefs'[k] = HardRefs[k]
    BY <1>3, <2>2, HardRefsTyped DEF HardRefsType
  <2>7. DataTypeOK'
    BY <1>0, <1>3, <1>r, <2>1, <2>3, <2>4 DEF DataTypeOK, fetchVars, diskVars
  <2>8. PinnedAreCached' /\ ValuesAsNamed'
    BY <1>0, <1>3, <1>r, <2>1, <2>3 DEF DataTypeOK, PinnedAreCached, ValuesAsNamed
  <2>9. NamesInv'
    BY <1>0, <1>3, <1>r, <2>1, <2>3, <2>5, <2>6 DEF DataTypeOK, NamesInv
  <2>10. OpsInv'
    <3>1. ASSUME NEW d \in Callers \ {c} PROVE StoringOk(d)'
      BY <1>0, <1>3, <2>1, <2>4, <2>5, <2>6, <3>1 DEF OpsInv, StoringOk, Storing
    <3>2. StoringOk(c)'
      BY <1>3, <2>1, <2>4, <2>5, <2>6 DEF StoringOk, Storing
    <3>3. \A d \in Callers : Storing(d)' => Storing(d) /\ op[d].name = op'[d].name
      BY <2>4, <2>5 DEF Storing
    <3>4. QED
      BY <3>1, <3>2, <3>3 DEF OpsInv
  <2>11. QED
    BY <2>2, <2>7, <2>8, <2>9, <2>10
<1>4. QED
  BY <1>1, <1>2, <1>3

(* fastStoreObject does both at once.                                      *)
LEMMA FastStoreKeeps ==
  ASSUME MapInv, DataInv, "serialBinds" \in Habits,
         NEW c \in Callers, NEW v \in Values, NEW n \in Names \cup {Absent},
         FastStoreObject(c, v, n)
  PROVE  MapInv' /\ DataInv'
<1> USE DEF DataInv
<1>0. Names \cap Values = {} /\ Absent \notin Names /\ Values \subseteq Refs /\ Names \subseteq Refs
  BY DataAssumption DEF Refs
<1>r. Ready(v) \in Entry /\ Ready(v).of = v /\ Ready(v).state = "ready"
  BY DEF Ready, Entry
<1>1. CASE n = Absent
  <2>1. /\ cache' = [cache EXCEPT ![v] = Ready(v)]
        /\ landing' = landing \cup ({v} \ blobs)
        /\ UNCHANGED <<mapVars, storing, tempNames, op, latest>>
        /\ UNCHANGED <<fetchVars, knownStored, tempUrns, mutable, blobs>>
    BY <1>0, <1>1 DEF FastStoreObject
  <2>2. MapInv' /\ HardRefs' = HardRefs
    BY <2>1, HardRefsKept
  <2>3. DataTypeOK'
    BY <1>0, <1>r, <2>1 DEF DataTypeOK, fetchVars
  <2>4. PinnedAreCached' /\ ValuesAsNamed'
    BY <1>0, <1>r, <2>1 DEF DataTypeOK, PinnedAreCached, ValuesAsNamed
  <2>5. NamesInv'
    BY <1>0, <1>r, <2>1, <2>2 DEF DataTypeOK, NamesInv
  <2>6. OpsInv'
    BY <2>1, <2>2 DEF OpsInv, StoringOk, Storing
  <2>7. QED
    BY <2>2, <2>3, <2>4, <2>5, <2>6
<1>2. CASE n \in Names
  <2> DEFINE o == [kind |-> "store", name |-> n, wait |-> {}, state |-> "map"]
  <2>o. /\ o \in Op /\ o.kind = "store" /\ o.name = n /\ o.wait = {} /\ o.state = "map"
    BY <1>2 DEF Op
  <2> HIDE DEF o
  <2>1. /\ StoreValues(c, Only(n, v)) /\ tempNames' = [tempNames EXCEPT ![n] = Untouched]
        /\ storing' = storing \cup {n}
        /\ latest' = [latest EXCEPT ![n] = v]
        /\ landing' = landing \cup ({v} \ blobs)
        /\ UNCHANGED <<fetchVars, knownStored, tempUrns, mutable, blobs>>
        /\ cache' = [[cache EXCEPT ![v] = Ready(v)] EXCEPT ![n] = [cache EXCEPT ![v] = Ready(v)][v]]
        /\ op' = [op EXCEPT ![c] = o]
        /\ n \notin storing /\ mutable[n] = Absent
    BY <1>0, <1>2 DEF FastStoreObject, Rebound, MayBind, o
  <2>2. MapInv' /\ HardRefs' = [HardRefs EXCEPT ![n] = v]
    BY <1>2, <2>1, HardRefsBound
  <2>3. cache' = [[cache EXCEPT ![v] = Ready(v)] EXCEPT ![n] = Ready(v)]
    BY <1>0, <2>1 DEF DataTypeOK
  <2>4. /\ op' \in [Callers -> Op] /\ op'[c] = o /\ \A d \in Callers \ {c} : op'[d] = op[d]
    BY <2>o, <2>1 DEF DataTypeOK
  <2>5. latest' \in Node /\ latest'[n] = v /\ \A k \in Names \ {n} : latest'[k] = latest[k]
    BY <1>2, <2>1 DEF DataTypeOK, Node
  <2>6. HardRefs'[n] = v /\ \A k \in Names \ {n} : HardRefs'[k] = HardRefs[k]
    BY <1>2, <2>2, HardRefsTyped DEF HardRefsType
  <2>7. DataTypeOK'
    BY <1>0, <1>2, <1>r, <2>1, <2>3, <2>4, <2>5 DEF DataTypeOK, fetchVars
  <2>8. PinnedAreCached' /\ ValuesAsNamed'
    BY <1>0, <1>2, <1>r, <2>1, <2>3 DEF DataTypeOK, PinnedAreCached, ValuesAsNamed
  <2>9. NamesInv'
    BY <1>0, <1>2, <1>r, <2>1, <2>3, <2>5, <2>6 DEF DataTypeOK, NamesInv
  <2>10. OpsInv'
    <3>1. ASSUME NEW d \in Callers \ {c} PROVE StoringOk(d)'
      BY <1>0, <1>2, <2>1, <2>4, <2>5, <2>6, <3>1 DEF OpsInv, StoringOk, Storing
    <3>2. StoringOk(c)'
      BY <1>2, <2>o, <2>1, <2>4, <2>5, <2>6 DEF StoringOk, Storing
    <3>3. \A d \in Callers \ {c} : Storing(d)' => op[d] = op'[d] /\ Storing(d) /\ op[d].name # n
      BY <2>1, <2>4 DEF Storing, OpsInv, StoringOk
    <3>4. QED
      BY <2>o, <2>4, <3>1, <3>2, <3>3 DEF OpsInv
  <2>11. QED
    BY <2>2, <2>7, <2>8, <2>9, <2>10
<1>3. QED
  BY <1>1, <1>2

(* tempStoreObject binds a free name in tempNameMap.                       *)
LEMMA TempStoreKeeps ==
  ASSUME MapInv, DataInv, "serialBinds" \in Habits,
         NEW v \in Values, NEW n \in Names \cup {Absent}, TempStoreObject(v, n)
  PROVE  MapInv' /\ DataInv'
<1> USE DEF DataInv
<1>0. Names \cap Values = {} /\ Absent \notin Refs /\ Values \subseteq Refs /\ Names \subseteq Refs
  BY DataAssumption DEF Refs
<1>r. Ready(v) \in Entry /\ Ready(v).of = v /\ Ready(v).state = "ready"
  BY DEF Ready, Entry
<1>1. /\ tempUrns' = tempUrns \cup {v}
      /\ cache' = [r \in Refs |-> IF r \in {v, n} THEN Ready(v) ELSE cache[r]]
      /\ UNCHANGED mapVars
      /\ UNCHANGED <<fetchVars, storing, knownStored, mutable, diskVars, op>>
  BY DEF TempStoreObject, TempStoreCached
<1>2. \/ n = Absent /\ tempNames' = tempNames /\ latest' = latest
      \/ /\ n \in Names /\ n \notin storing /\ mutable[n] = Absent
         /\ tempNames' = [tempNames EXCEPT ![n] = v]
         /\ latest' = [latest EXCEPT ![n] = v]
  BY <1>0 DEF TempStoreObject, TempStoreCached, MayBind
<1>3. /\ MapInv'
      /\ \A k \in Names : HardRefs'[k] = IF k = n THEN v ELSE HardRefs[k]
  BY <1>0, <1>1, <1>2, HardRefsKept, HardRefsTemp, HardRefsTyped DEF HardRefsType
<1>4. latest' \in Node /\ \A k \in Names : latest'[k] = IF k = n THEN v ELSE latest[k]
  BY <1>0, <1>2 DEF DataTypeOK, Node
<1>5. DataTypeOK'
  <2>1. cache' \in [Refs -> Entry]
    BY <1>r, <1>1 DEF DataTypeOK
  <2>2. tempNames' \in [Names -> Values \cup {Untouched}]
    BY <1>2 DEF DataTypeOK
  <2>3. QED
    BY <1>1, <1>4, <2>1, <2>2 DEF DataTypeOK, fetchVars, diskVars
<1>6. PinnedAreCached' /\ ValuesAsNamed'
  BY <1>0, <1>r, <1>1, <1>2 DEF DataTypeOK, PinnedAreCached, ValuesAsNamed
<1>7. NamesInv'
  BY <1>0, <1>r, <1>1, <1>2, <1>3, <1>4 DEF DataTypeOK, NamesInv
<1>8. OpsInv'
  <2>1. ASSUME NEW d \in Callers PROVE StoringOk(d)'
    BY <1>0, <1>1, <1>2, <1>3, <1>4, <2>1 DEF OpsInv, StoringOk, Storing, DataTypeOK, Op
  <2>2. QED
    BY <1>1, <2>1 DEF OpsInv, Storing
<1>9. QED
  BY <1>3, <1>5, <1>6, <1>7, <1>8

-----------------------------------------------------------------------------
(* The steps that end an operation *)

(* What an acknowledgement, a rejection or a clearing of the cache changes *)
(* at most: objects get cached, promises that are not pinned dropped, and  *)
(* operations that store nothing end.                                      *)
CacheEnds ==
  /\ cache' \in [Refs -> Entry]
  /\ \A r \in Refs : \/ cache'[r] = cache[r]
                     \/ r \in Values /\ cache'[r] = Ready(r)
                     \/ r \notin tempUrns \cup storing /\ cache'[r] = NoEntry

OpsEnd ==
  /\ op' \in [Callers -> Op]
  /\ \A c \in Callers : op'[c] = op[c] \/ op'[c].kind # "store"

DiskTyped == landing' \subseteq Values /\ blobs' \subseteq Values /\ knownStored' \subseteq Values

(* Such a step keeps the invariant.                                        *)
LEMMA EndKeeps ==
  ASSUME MapInv, DataInv, CacheEnds, OpsEnd, DiskTyped,
         BatchStep \/ UNCHANGED mapVars,
         UNCHANGED <<fetchVars, storing, tempVars, latest>>
  PROVE  MapInv' /\ DataInv'
<1> USE DEF DataInv
<1>0. Names \cap Values = {} /\ Values \subseteq Refs /\ Names \subseteq Refs
  BY DataAssumption DEF Refs
<1>1. MapInv' /\ HardRefs' = HardRefs
  BY HardRefsKept DEF tempVars
<1>2. DataTypeOK'
  BY DEF CacheEnds, OpsEnd, DiskTyped, DataTypeOK, tempVars, fetchVars
<1>3. \A r \in Values : Ready(r).of = r /\ Ready(r).state = "ready"
  BY DEF Ready
<1>4. NoEntry.state = "none"
  BY DEF NoEntry
<1>5. PinnedAreCached' /\ ValuesAsNamed'
  BY <1>0, <1>3, <1>4 DEF CacheEnds, DataTypeOK, PinnedAreCached, ValuesAsNamed, tempVars
<1>6. NamesInv'
  BY <1>0, <1>1, <1>3, <1>4 DEF CacheEnds, DataTypeOK, NamesInv, tempVars
<1>7. OpsInv'
  BY <1>1 DEF OpsEnd, OpsInv, StoringOk, Storing
<1>8. QED
  BY <1>1, <1>2, <1>5, <1>6, <1>7

(* The datastore or the map manager answers an operation.                  *)
LEMMA AcknowledgedKeeps ==
  ASSUME MapInv, DataInv, NEW c \in Callers,
         \/ \E v \in Values : FlushedObjectStored(c, v)
         \/ FlushDone(c)
         \/ StoringFails(c)
  PROVE  MapInv' /\ DataInv'
<1> USE DEF DataInv
<1>0. op[c] \in Op /\ NoOp \in Op /\ NoOp.kind = "none" /\ Values \subseteq Refs
  BY DEF DataTypeOK, NoOp, Op, Refs
<1>1. \A v \in Values : Ready(v) \in Entry
  BY DEF Ready, Entry
<1>2. ASSUME NEW v \in Values, FlushedObjectStored(c, v) PROVE MapInv' /\ DataInv'
  <2>1. CacheEnds
    BY <1>0, <1>1, <1>2 DEF CacheEnds, FlushedObjectStored, DataTypeOK
  <2>2. OpsEnd
    BY <1>0, <1>2 DEF OpsEnd, FlushedObjectStored, DataTypeOK, Op
  <2>3. DiskTyped
    BY <1>2 DEF DiskTyped, FlushedObjectStored, DataTypeOK, diskVars
  <2>4. QED
    BY <1>2, <2>1, <2>2, <2>3, EndKeeps DEF FlushedObjectStored
<1>3. ASSUME FlushDone(c) \/ StoringFails(c) PROVE MapInv' /\ DataInv'
  <2>1. CacheEnds /\ DiskTyped
    BY <1>3 DEF CacheEnds, DiskTyped, FlushDone, StoringFails, DataTypeOK, diskVars
  <2>2. CASE FlushDone(c)
    <3>1. OpsEnd
      BY <1>0, <2>2 DEF OpsEnd, FlushDone, DataTypeOK, Op
    <3>2. QED
      BY <2>1, <2>2, <3>1, EndKeeps DEF FlushDone
  <2>3. CASE StoringFails(c)
    <3>1. PICK w \in SUBSET Values : op' = [op EXCEPT ![c] = [NoOp EXCEPT !.wait = w]]
      BY <1>0, <2>3 DEF StoringFails, Op
    <3>2. [NoOp EXCEPT !.wait = w] \in Op /\ [NoOp EXCEPT !.wait = w].kind = "none"
      BY <1>0 DEF Op
    <3>3. OpsEnd
      BY <3>1, <3>2 DEF OpsEnd, DataTypeOK
    <3>4. QED
      BY <2>1, <2>3, <3>3, EndKeeps DEF StoringFails
  <2>4. QED
    BY <1>3, <2>2, <2>3
<1>4. QED
  BY <1>2, <1>3

(* The steps that bind nothing and end nothing. *)
LEMMA IdleKeeps ==
  ASSUME MapInv, DataInv, ClearCache \/ Landing \/ MapStep \/ UNCHANGED vars
  PROVE  MapInv' /\ DataInv'
<1> USE DEF ClearCache, ClearCacheBut, Landing, ObjectLands, MapStep, vars, dataVars
<1>1. CacheEnds
  <2>1. NoEntry \in Entry
    BY DEF NoEntry, Entry
  <2>2. QED
    BY <2>1 DEF CacheEnds, DataInv, DataTypeOK
<1>2. DiskTyped
  BY DEF DiskTyped, diskVars, DataInv, DataTypeOK
<1>3. OpsEnd
  BY DEF OpsEnd, DataInv, DataTypeOK
<1>4. UNCHANGED <<fetchVars, storing, tempVars, latest>> /\ (BatchStep \/ UNCHANGED mapVars)
  OBVIOUS
<1>5. QED
  BY <1>1, <1>2, <1>3, <1>4, EndKeeps

(* A name leaves storing only when the map has caught up.                  *)
LEMMA NameStoredKeeps ==
  ASSUME MapInv, DataInv, NEW c \in Callers, NameStored(c)
  PROVE  MapInv' /\ DataInv'
<1> USE DEF DataInv
<1> DEFINE n == op[c].name
<1>1. MapInv' /\ HardRefs' = HardRefs
  BY HardRefsKept DEF NameStored, tempVars
<1>2. n \in Names /\ HardRefs[n] = latest[n] /\ Absent \notin Names
  BY DataAssumption DEF NameStored, OpsInv, StoringOk, Refs
<1>3. Storing(c)
  BY <1>2 DEF Storing, NameStored
<1>4. /\ op' \in [Callers -> Op] /\ op'[c].kind = "none" /\ \A d \in Callers \ {c} : op'[d] = op[d]
      /\ storing' = storing \ {n}
      /\ UNCHANGED <<cache, fetchVars, knownStored, tempVars, diskVars, latest>>
  BY DEF NameStored, DataTypeOK, NoOp, Op
<1>5. DataTypeOK'
  BY <1>4 DEF DataTypeOK, fetchVars, tempVars, diskVars
<1>6. PinnedAreCached' /\ ValuesAsNamed'
  BY <1>4 DEF PinnedAreCached, ValuesAsNamed, tempVars
<1>7. NamesInv'
  BY <1>1, <1>2, <1>4 DEF NamesInv, tempVars
<1>8. OpsInv'
  <2>1. ASSUME NEW d \in Callers \ {c} PROVE StoringOk(d)'
    BY <1>1, <1>3, <1>4, <2>1 DEF OpsInv, StoringOk, Storing
  <2>2. StoringOk(c)'
    BY <1>4 DEF StoringOk, Storing
  <2>3. \A d \in Callers : Storing(d)' => d # c /\ op'[d] = op[d] /\ Storing(d)
    BY <1>4 DEF Storing
  <2>4. QED
    BY <2>1, <2>2, <2>3 DEF OpsInv
<1>9. QED
  BY <1>1, <1>5, <1>6, <1>7, <1>8

-----------------------------------------------------------------------------
(* Mutable objects and flushes *)

(* A room becomes mutable as it was last set, or changes then.             *)
LEMMA MutableKeeps ==
  ASSUME MapInv, DataInv, "serialBinds" \in Habits, NEW n \in Names,
         GetMutableRoom(n) \/ \E v \in Values : Mutate(n, v)
  PROVE  MapInv' /\ DataInv'
<1> USE DEF DataInv
<1>0. Names \cap Values = {} /\ Absent \notin Refs /\ Values \subseteq Refs /\ Names \subseteq Refs
  BY DataAssumption DEF Refs
<1>1. MapInv' /\ HardRefs' = HardRefs
  BY HardRefsKept DEF GetMutableRoom, Mutate, tempVars
<1>2. n \notin storing /\ (\A c \in Callers : Storing(c) => op[c].name # n)
  BY DEF GetMutableRoom, Mutate, NamesInv, OpsInv, StoringOk
<1>3. CASE GetMutableRoom(n)
  <2>1. /\ mutable' = [mutable EXCEPT ![n] = cache[n].of]
        /\ cache' = [cache EXCEPT ![n] = NoEntry]
        /\ mutable[n] = Absent /\ cache[n].state = "ready"
        /\ UNCHANGED <<fetchVars, storing, knownStored, tempUrns, tempNames, diskVars, op, latest>>
    BY <1>3 DEF GetMutableRoom
  <2>2. cache[n].of = latest[n] /\ latest[n] \in Values \cup {Absent} /\ HardRefs[n] = latest[n]
    BY <1>2, <2>1 DEF NamesInv, DataTypeOK, Node
  <2>3. NoEntry \in Entry /\ NoEntry.state = "none"
    BY DEF NoEntry, Entry
  <2>4. DataTypeOK'
    BY <1>0, <2>1, <2>2, <2>3 DEF DataTypeOK, Node, fetchVars, diskVars
  <2>5. PinnedAreCached' /\ ValuesAsNamed'
    BY <1>0, <1>2, <2>1 DEF DataTypeOK, PinnedAreCached, ValuesAsNamed
  <2>6. NamesInv'
    BY <1>0, <1>1, <1>2, <2>1, <2>2, <2>3 DEF DataTypeOK, NamesInv, Node
  <2>7. OpsInv'
    BY <1>1, <2>1 DEF OpsInv, StoringOk, Storing
  <2>8. QED
    BY <1>1, <2>4, <2>5, <2>6, <2>7
<1>4. ASSUME NEW v \in Values, Mutate(n, v) PROVE MapInv' /\ DataInv'
  <2>1. /\ mutable' = [mutable EXCEPT ![n] = v]
        /\ latest' = [latest EXCEPT ![n] = v]
        /\ mutable[n] # Absent
        /\ UNCHANGED <<cache, fetchVars, storing, knownStored, tempUrns, tempNames, diskVars, op>>
    BY <1>4 DEF Mutate
  <2>2. v # Absent
    BY <1>0
  <2>3. DataTypeOK'
    BY <2>1 DEF DataTypeOK, Node, fetchVars, diskVars
  <2>4. PinnedAreCached' /\ ValuesAsNamed'
    BY <2>1 DEF PinnedAreCached, ValuesAsNamed
  <2>5. NamesInv'
    BY <1>1, <1>2, <2>1, <2>2 DEF DataTypeOK, NamesInv, Node
  <2>6. OpsInv'
    <3>1. ASSUME NEW c \in Callers PROVE StoringOk(c)'
      <4>1. op[c].kind = "store" /\ op[c].state = "map" => Storing(c)
        BY <1>0 DEF Storing, OpsInv, StoringOk
      <4>2. Storing(c) => latest'[op[c].name] = latest[op[c].name]
        BY <1>2, <2>1 DEF DataTypeOK, Node
      <4>3. QED
        BY <1>1, <2>1, <4>1, <4>2 DEF OpsInv, StoringOk, Storing
    <3>2. QED
      BY <2>1, <3>1 DEF OpsInv, Storing
  <2>7. QED
    BY <1>1, <2>3, <2>4, <2>5, <2>6
<1>5. QED
  BY <1>3, <1>4

(* A flush moves temporary and mutable names to the map, and no other.     *)
LEMMA FlushKeeps ==
  ASSUME MapInv, DataInv, NEW c \in Callers, Flush(c)
  PROVE  MapInv' /\ DataInv'
<1> USE DEF DataInv
<1>0. Names \cap Values = {} /\ Absent \notin Refs /\ Values \subseteq Refs /\ Names \subseteq Refs
      /\ Mutables \subseteq Names /\ \A n \in Mutables : mutable[n] \in Values
  BY DataAssumption DEF Refs, Mutables, DataTypeOK, Node
<1> DEFINE temps == tempUrns \cup {mutable[n] : n \in Mutables}
           names == [n \in Names |-> IF n \in Mutables THEN mutable[n] ELSE tempNames[n]]
           entries == [r \in Refs |->
                         IF r \in Mutables THEN Ready(mutable[r])
                         ELSE IF r \in {mutable[n] : n \in Mutables} THEN Ready(r)
                         ELSE cache[r]]
           toSave == {v \in Walked(temps, names, entries) \cap temps :
                        entries[v].state = "ready"} \ knownStored
           o == [kind |-> "flush", name |-> Absent, wait |-> toSave, state |-> "data"]
<1>1. toSave \subseteq Values
  BY <1>0 DEF DataTypeOK
<1> HIDE DEF toSave
<1>2. /\ cache' = entries
      /\ landing' = landing \cup (toSave \ blobs)
      /\ op' = [op EXCEPT ![c] = o]
      /\ TakeUpdates(names)
      /\ tempUrns' = {}
      /\ tempNames' = NoUpdates
      /\ call' = [call EXCEPT ![c] =
                    AllUpdatesPromise(NewCall("flush", Len(history), Untouched))']
      /\ UNCHANGED <<fetchVars, storing, knownStored, mutable, blobs, latest>>
  BY DEF Flush, toSave
<1>3. o \in Op /\ o.kind = "flush"
  BY <1>1 DEF Op
<1> HIDE DEF o
<1>4. names \in Updates
  BY <1>0 DEF Updates, DataTypeOK
<1>5. MapInv' /\ \A n \in Names : Mapped(n)' = IF names[n] = Untouched THEN Mapped(n) ELSE names[n]
  BY <1>2, <1>4, MapFlushed
<1>6. \A n \in Names : HardRef(n)' = Mapped(n)'
  BY <1>2 DEF HardRef, NoUpdates
<1>7. \A n \in Names \ Mutables : HardRef(n)' = HardRef(n)
  BY <1>5, <1>6 DEF HardRef
<1>8. \A n \in Names \ Mutables : HardRefs'[n] = HardRefs[n]
  BY <1>7 DEF HardRefs
<1>9. /\ cache' \in [Refs -> Entry]
      /\ \A n \in Names : IF n \in Mutables THEN cache'[n] = Ready(mutable[n])
                         ELSE cache'[n] = cache[n]
      /\ \A v \in Values : cache'[v] = Ready(v) \/ cache'[v] = cache[v]
  <2>1. \A v \in Values : Ready(v) \in Entry
    BY DEF Ready, Entry
  <2>2. entries \in [Refs -> Entry]
    BY <1>0, <2>1 DEF DataTypeOK, Refs
  <2>3. QED
    BY <1>0, <1>2, <2>2
<1> HIDE DEF entries, names, temps
<1>10. \A v \in Values : Ready(v).of = v /\ Ready(v).state = "ready"
  BY DEF Ready
<1>11. \A n \in Names : n \notin Mutables <=> mutable[n] = Absent
  BY DEF Mutables
<1>12. DataTypeOK'
  <2>1. tempNames' \in [Names -> Values \cup {Untouched}]
    BY <1>2 DEF NoUpdates
  <2>2. op' \in [Callers -> Op]
    BY <1>2, <1>3 DEF DataTypeOK
  <2>3. QED
    BY <1>1, <1>2, <1>9, <2>1, <2>2 DEF DataTypeOK, fetchVars
<1>13. PinnedAreCached' /\ ValuesAsNamed'
  BY <1>0, <1>2, <1>9, <1>10 DEF PinnedAreCached, ValuesAsNamed, DataTypeOK
<1>14. NamesInv'
  BY <1>2, <1>8, <1>9, <1>11 DEF NamesInv
<1>15. OpsInv'
  <2>1. ASSUME NEW d \in Callers \ {c} PROVE StoringOk(d)'
    <3>1. op'[d] = op[d]
      BY <1>2, <2>1 DEF DataTypeOK
    <3>2. op[d].kind = "store" /\ op[d].state = "map" =>
            Storing(d) /\ op[d].name \in Names \ Mutables
      BY <1>0, <1>11 DEF OpsInv, StoringOk, Storing, NamesInv
    <3>3. QED
      BY <1>2, <1>8, <2>1, <3>1, <3>2 DEF OpsInv, StoringOk, Storing
  <2>2. op'[c] = o
    BY <1>2 DEF DataTypeOK
  <2>3. StoringOk(c)'
    BY <1>3, <2>2 DEF StoringOk, Storing
  <2>4. \A d \in Callers : Storing(d)' => op'[d] = op[d] /\ Storing(d)
    BY <1>2, <1>3 DEF Storing, DataTypeOK
  <2>5. QED
    BY <2>1, <2>3, <2>4 DEF OpsInv
<1>16. QED
  BY <1>5, <1>12, <1>13, <1>14, <1>15

-----------------------------------------------------------------------------
(* The theorems *)

(* The invariant holds of a manager just made.                             *)
LEMMA DataInvInit == DataInit => MapInv /\ DataInv
<1> SUFFICES ASSUME DataInit PROVE MapInv /\ DataInv
  OBVIOUS
<1>1. MapInv /\ root \in Node
  BY MapInit DEF DataInit, Init
<1>2. \A n \in Names : Mapped(n) = root[n]
  BY MappedIsNow, <1>1 DEF MapInv, DataInit, Init
<1>3. \A n \in Names : HardRefs[n] = latest[n]
  BY <1>2 DEF HardRefs, HardRef, DataInit, NoUpdates
<1>4. /\ NoEntry \in Entry /\ NoEntry.state = "none"
      /\ NoOp \in Op /\ NoOp.kind = "none"
  BY DEF NoEntry, Entry, NoOp, Op
<1>5. Names \subseteq Refs /\ Values \subseteq Refs
  BY DEF Refs
<1>6. DataTypeOK
  <2>1. tempNames \in [Names -> Values \cup {Untouched}]
    BY DEF DataInit, NoUpdates
  <2>2. mutable \in Node
    BY OverlayNothing DEF DataInit
  <2>3. blobs \subseteq Values
    BY DEF DataInit, Needed
  <2>4. QED
    BY <1>1, <1>4, <2>1, <2>2, <2>3 DEF DataInit, DataTypeOK
<1>7. PinnedAreCached /\ ValuesAsNamed
  BY <1>4, <1>5 DEF DataInit, PinnedAreCached, ValuesAsNamed
<1>8. NamesInv
  BY <1>3, <1>4, <1>5 DEF DataInit, NamesInv, EmptyNode
<1>9. OpsInv
  BY <1>4 DEF DataInit, OpsInv, StoringOk, Storing
<1>10. QED
  BY <1>1, <1>6, <1>7, <1>8, <1>9 DEF DataInv

(* Every step keeps it.                                                    *)
LEMMA DataInvStep ==
  ASSUME "serialBinds" \in Habits
  PROVE  MapInv /\ DataInv /\ [DataNext]_vars => MapInv' /\ DataInv'
<1> SUFFICES ASSUME MapInv, DataInv, [DataNext]_vars PROVE MapInv' /\ DataInv'
  OBVIOUS
<1>1. CASE \/ \E r \in Refs : FetchObject(r)
           \/ FetchStep
  BY <1>1, FetchObjectKeeps, FetchStepKeeps
<1>2. CASE \/ \E c \in Callers, v \in Values, n \in Names : UpdateMap(c, n, v)
           \/ \E c \in Callers, v \in Values, n \in Names \cup {Absent} : StoreObject(c, v, n)
           \/ \E c \in Callers, v \in Values, n \in Names \cup {Absent} : FastStoreObject(c, v, n)
           \/ \E v \in Values, n \in Names \cup {Absent} : TempStoreObject(v, n)
  BY <1>2, UpdateMapKeeps, StoreObjectKeeps, FastStoreKeeps, TempStoreKeeps
<1>3. CASE \/ \E n \in Names : GetMutableRoom(n)
           \/ \E n \in Names, v \in Values : Mutate(n, v)
           \/ \E c \in Callers : Flush(c)
  BY <1>3, MutableKeeps, FlushKeeps
<1>4. ASSUME NEW c \in Callers, StoringStep(c) PROVE MapInv' /\ DataInv'
  BY <1>4, ObjectStoredKeeps, NameStoredKeeps, AcknowledgedKeeps DEF StoringStep
<1>5. CASE ClearCache \/ Landing \/ MapStep \/ UNCHANGED vars
  BY <1>5, IdleKeeps
<1>6. QED
  BY <1>1, <1>2, <1>3, <1>4, <1>5 DEF DataNext, ProgramStep

(* So it always holds.                                                     *)
LEMMA DataInvariant ==
  ASSUME "serialBinds" \in Habits
  PROVE  DataSpec => [](MapInv /\ DataInv)
BY DataInvInit, DataInvStep, PTL DEF DataSpec

(* In a program that does not rebind a name while it is being stored, the  *)
(* cache is well typed and keeps every temporary object and every name     *)
(* that is being stored, whatever is flushed, cleared or rejected.         *)
THEOREM CacheStaysSound ==
  ASSUME "serialBinds" \in Habits
  PROVE  DataSpec => []CacheIsSound
<1>1. DataInv => CacheIsSound
  BY DEF DataInv, CacheIsSound
<1>2. QED
  BY <1>1, DataInvariant, PTL

(* In such a program a name shows what it was last set to, however far its *)
(* binding has got: cached, mutable, temporary, flushed or in the map.     *)
THEOREM NamesStayLatest ==
  ASSUME "serialBinds" \in Habits
  PROVE  DataSpec => []NamesShowLatest
<1>1. MapInv /\ DataInv => NamesShowLatest
  <2> SUFFICES ASSUME DataInv, NEW n \in Names, cache[n].state # "failed"
               PROVE  Shown(n) = latest[n]
    BY DEF NamesShowLatest
  <2>1. cache[n].state \in {"none", "finding", "loading", "ready", "failed"}
    BY DEF DataInv, DataTypeOK, Entry, Refs
  <2>2. cache[n].state = "none" => n \notin storing
    BY DEF DataInv, PinnedAreCached
  <2>3. HardRefs[n] = HardRef(n)
    BY DEF HardRefs
  <2>4. QED
    BY <2>1, <2>2, <2>3 DEF DataInv, NamesInv, Shown
<1>2. QED
  BY <1>1, DataInvariant, PTL

(* No step forgets anything that is known to be stored.                    *)
LEMMA KnownStep == KnownStoredIsStored /\ [DataNext]_vars => KnownStoredIsStored'
<1> SUFFICES ASSUME KnownStoredIsStored, [DataNext]_vars PROVE KnownStoredIsStored'
  OBVIOUS
<1> USE DEF KnownStoredIsStored
<1>1. CASE UNCHANGED vars \/ MapStep \/ Landing
  BY <1>1 DEF vars, dataVars, diskVars, MapStep, Landing, ObjectLands
<1>2. CASE FetchStep
  BY <1>2 DEF FetchStep, FoundHardRef, ObjectLoaded, LoadFails, LoadFailsKnowing, diskVars
<1>3. ASSUME NEW c \in Callers, StoringStep(c) PROVE KnownStoredIsStored'
  BY <1>3 DEF StoringStep, ObjectStored, FlushedObjectStored, NameStored, FlushDone,
              StoringFails, diskVars
<1>4. CASE ProgramStep
  BY <1>4 DEF ProgramStep, FetchObject, UpdateMap, StoreObject, FastStoreObject,
              TempStoreObject, TempStoreCached, GetMutableRoom, Mutate, Flush, ClearCache,
              ClearCacheBut, diskVars
<1>5. QED
  BY <1>1, <1>2, <1>3, <1>4 DEF DataNext

(* Whatever the program does, what flushUpdates takes to be stored is.     *)
THEOREM KnownStaysStored == DataSpec => []KnownStoredIsStored
<1>1. DataInit => KnownStoredIsStored
  BY DEF DataInit, KnownStoredIsStored
<1>2. QED
  BY <1>1, KnownStep, PTL DEF DataSpec

-----------------------------------------------------------------------------
(* References between objects *)

(* The closure of a set of references is the least set that has them and   *)
(* all that its members lead to.                                           *)
LEMMA ClosureIsLeast ==
  ASSUME NEW start \in SUBSET Refs, NEW succ
  PROVE  /\ start \subseteq Closure(start, succ)
         /\ Closure(start, succ) \subseteq Refs
         /\ \A x \in Closure(start, succ) : succ[x] \cap Refs \subseteq Closure(start, succ)
         /\ \A S \in SUBSET Refs :
              start \subseteq S /\ (\A x \in S : succ[x] \subseteq S) => Closure(start, succ) \subseteq S
<1> DEFINE C == Closure(start, succ)
           Closed(S) == start \subseteq S /\ \A x \in S : succ[x] \subseteq S
<1>1. \A r : r \in C <=> r \in Refs /\ \A S \in SUBSET Refs : Closed(S) => r \in S
  BY DEF Closure
<1> HIDE DEF C
<1>2. start \subseteq C /\ C \subseteq Refs
  BY <1>1
<1>3. ASSUME NEW x \in C, NEW y \in succ[x] \cap Refs
      PROVE  y \in C
  <2>1. x \in Refs /\ y \in Refs
    BY <1>1
  <2>2. \A S \in SUBSET Refs : Closed(S) => y \in S
    BY <1>1
  <2>3. QED
    BY <1>1, <2>1, <2>2
<1>4. \A S \in SUBSET Refs : Closed(S) => C \subseteq S
  BY <1>1
<1>5. QED
  BY <1>2, <1>3, <1>4 DEF C

(* The references that a game saved as the map m leads to.                 *)
LeadsTo(m) == [r \in Refs |-> IF r \in Values THEN RefsOf[r] ELSE {m[r]} \cap Values]

LEMMA LeadsToType ==
  ASSUME NEW m \in Node
  PROVE  LeadsTo(m) \in [Refs -> SUBSET Refs] /\ Names \in SUBSET Refs
BY DataAssumption DEF LeadsTo, Refs

(* A set of objects that has all that its members refer to, *)
ReferencesIn(S) == \A v \in S : RefsOf[v] \cap Values \subseteq S

(* ... and what all names are mapped to, has all that a saved game needs.  *)
LEMMA NeededIsIn ==
  ASSUME NEW m \in Node, NEW S \in SUBSET Values, ReferencesIn(S),
         \A n \in Names : m[n] \in S \cup {Absent}
  PROVE  Needed(m) \subseteq S
<1> DEFINE T == Names \cup S
<1>1. T \in SUBSET Refs /\ Names \subseteq T /\ Names \cap Values = {} /\ Absent \notin Values
  BY DataAssumption DEF Refs
<1>2. ASSUME NEW x \in T PROVE LeadsTo(m)[x] \subseteq T
  <2>1. CASE x \in Names
    BY <1>1, <2>1 DEF LeadsTo, Refs
  <2>2. CASE x \in S
    <3>1. RefsOf[x] \subseteq Names \cup Values
      BY <2>2, DataAssumption DEF Refs
    <3>2. LeadsTo(m)[x] = RefsOf[x]
      BY <1>1, <2>2 DEF LeadsTo
    <3>3. QED
      BY <2>2, <3>1, <3>2 DEF ReferencesIn
  <2>3. QED
    BY <2>1, <2>2
<1> HIDE DEF T
<1>3. LeadsTo(m) \in [Refs -> SUBSET Refs] /\ Names \in SUBSET Refs
  BY LeadsToType
<1>4. Closure(Names, LeadsTo(m)) \subseteq T
  BY <1>1, <1>2, <1>3, ClosureIsLeast
<1>5. QED
  BY <1>1, <1>4 DEF Needed, LeadsTo, T

(* What a saved game needs is such a set.                                  *)
LEMMA NeededIsWhole ==
  ASSUME NEW m \in Node
  PROVE  ReferencesIn(Needed(m)) /\ \A n \in Names : m[n] \in Needed(m) \cup {Absent}
<1> DEFINE C == Closure(Names, LeadsTo(m))
<1>1. Names \subseteq C /\ (\A x \in C : LeadsTo(m)[x] \subseteq C) /\ C \subseteq Refs
  BY ClosureIsLeast, LeadsToType
<1>2. Needed(m) = Values \cap C
  BY DEF Needed, LeadsTo
<1> HIDE DEF C
<1>3. ASSUME NEW n \in Names PROVE m[n] \in Needed(m) \cup {Absent}
  <2>1. LeadsTo(m)[n] = {m[n]} \cap Values
    BY DataAssumption DEF LeadsTo, Refs
  <2>2. QED
    BY <1>1, <1>2, <2>1 DEF Node
<1>4. ASSUME NEW v \in Needed(m) PROVE RefsOf[v] \cap Values \subseteq Needed(m)
  BY <1>1, <1>2 DEF LeadsTo
<1>5. QED
  BY <1>3, <1>4 DEF ReferencesIn

-----------------------------------------------------------------------------
(* A play session *)

(* The program keeps its objects in memory and flushes them: it does not   *)
(* store or bind anything past the manager, and the datastore is sound.    *)
PlaySession ==
  /\ Uses \cap {"storeObject", "fastStoreObject", "updateMap"} = {}
  /\ ~ DatastoreMayFail
  /\ "serialBinds" \in Habits

(* What is in the datastore or on its way there *)
Stored == landing \cup blobs

(* In a session nothing is in storing, each temporary name is that of a    *)
(* temporary object, and every object that the map ever named is stored.   *)
SessionInv ==
  /\ storing = {}
  /\ \A c \in Callers : op[c].kind # "store"
  /\ \A n \in Names : tempNames[n] \in tempUrns \cup {Untouched}
  /\ \A i \in 1 .. Len(history) : \A n \in Names : history[i][n] \in Stored \cup {Absent}

BaseInv == MapInv /\ DataInv /\ KnownStoredIsStored /\ SessionInv

(* The steps of a caller's flush after the first *)
FlushStep(c) ==
  \/ \E v \in Values : FlushedObjectStored(c, v)
  \/ FlushDone(c)
  \/ StoringFails(c)

(* Only some of the steps are taken in a session.                          *)
LEMMA SessionSteps ==
  ASSUME PlaySession, SessionInv, DataNext
  PROVE  \/ \E r \in Refs : FetchObject(r)
         \/ FetchStep
         \/ \E v \in Values, n \in Names \cup {Absent} : TempStoreObject(v, n)
         \/ \E n \in Names : GetMutableRoom(n)
         \/ \E n \in Names, v \in Values : Mutate(n, v)
         \/ \E c \in Callers : Flush(c)
         \/ ClearCache
         \/ \E c \in Callers : FlushStep(c)
         \/ \E v \in Values : ObjectLands(v)
         \/ MapStep
<1> USE DEF PlaySession
<1>1. CASE ProgramStep
  BY <1>1 DEF ProgramStep, UpdateMap, StoreObject, FastStoreObject
<1>2. ASSUME NEW c \in Callers, StoringStep(c) PROVE FlushStep(c)
  BY <1>2 DEF StoringStep, FlushStep, ObjectStored, NameStored, SessionInv
<1>3. QED
  BY <1>1, <1>2 DEF DataNext, Landing

(* What the map names now is stored, and what is bound to a name now is    *)
(* mutable, temporary or in the map.                                       *)
LEMMA BoundNow ==
  ASSUME BaseInv, NEW n \in Names
  PROVE  /\ Mapped(n) \in Stored \cup {Absent}
         /\ mutable[n] # Absent => mutable[n] = latest[n]
         /\ mutable[n] = Absent => latest[n] = IF tempNames[n] # Untouched THEN tempNames[n]
                                               ELSE Mapped(n)
<1>1. Len(history) \in 1 .. Len(history)
  BY DEF BaseInv, MapInv, TypeOK
<1>2. Mapped(n) = history[Len(history)][n]
  BY MappedIsNow DEF BaseInv, MapInv
<1>3. QED
  BY <1>1, <1>2 DEF BaseInv, SessionInv, DataInv, NamesInv, HardRefs, HardRef

-----------------------------------------------------------------------------
(* What a flush saves *)

(* The operation of a flush that has begun to store w *)
FlushOp(w) == [kind |-> "flush", name |-> Absent, wait |-> w, state |-> "data"]

(* A flush walks W, and stores what is in toSave.  Every object of W that  *)
(* is temporary or mutable is saved, and what it refers to is in W too.    *)
Flushed(c, W, toSave) ==
  /\ landing' = landing \cup (toSave \ blobs) /\ UNCHANGED blobs
  /\ op' = [op EXCEPT ![c] = FlushOp(toSave)]
  /\ \A n \in Names :
       /\ mutable[n] # Absent => RefsOf[mutable[n]] \subseteq W /\ mutable[n] \in Stored'
       /\ mutable[n] = Absent /\ tempNames[n] # Untouched => tempNames[n] \in W
       /\ mutable[n] = Absent => cache'[n] = cache[n]
  /\ \A v \in W \cap tempUrns : RefsOf[v] \subseteq W /\ v \in Stored'
  /\ \A v \in toSave : /\ v \in W \cap tempUrns \/ \E n \in Names : mutable[n] = v
                       /\ cache'[v] = Ready(v)
  /\ \A v \in Values : cache'[v] \in {Ready(v), cache[v]}

(* A flush walks what names are bound to, and on from there as long as     *)
(* what it meets is temporary or mutable.                                  *)
LEMMA FlushSaves ==
  ASSUME BaseInv, NEW c \in Callers, Flush(c)
  PROVE  \E W \in SUBSET Refs, toSave \in SUBSET Values : Flushed(c, W, toSave)
<1>0. Names \cap Values = {} /\ Absent \notin Refs /\ Values \subseteq Refs /\ Names \subseteq Refs
      /\ Mutables \subseteq Names /\ (\A n \in Mutables : mutable[n] \in Values)
      /\ RefsOf \in [Values -> SUBSET Refs] /\ DataTypeOK /\ Untouched \notin Refs
  BY DataAssumption DEF Refs, Mutables, BaseInv, DataInv, DataTypeOK, Node
<1> DEFINE temps == tempUrns \cup {mutable[n] : n \in Mutables}
           names == [n \in Names |-> IF n \in Mutables THEN mutable[n] ELSE tempNames[n]]
           entries == [r \in Refs |->
                         IF r \in Mutables THEN Ready(mutable[r])
                         ELSE IF r \in {mutable[n] : n \in Mutables} THEN Ready(r)
                         ELSE cache[r]]
           object(r) == IF r \in Mutables THEN {mutable[r]}
                        ELSE IF entries[r].state = "ready" THEN {entries[r].of} ELSE {}
           succ == [r \in Refs |-> IF r \in Values \ temps THEN {}
                                    ELSE UNION {RefsOf[v] : v \in object(r)}]
           start == Mutables \cup ({names[n] : n \in Names} \cap Values)
           W == Walked(temps, names, entries)
           toSave == {v \in W \cap temps : entries[v].state = "ready"} \ knownStored
<1>1. W = Closure(start, succ)
  BY DEF Walked
<1>2. /\ cache' = entries
      /\ landing' = landing \cup (toSave \ blobs)
      /\ op' = [op EXCEPT ![c] = FlushOp(toSave)]
      /\ blobs' = blobs
  BY DEF Flush, FlushOp
<1>4. temps \subseteq Values
  BY <1>0 DEF DataTypeOK
<1>5. /\ \A v \in temps : entries[v] = Ready(v)
      /\ \A v \in Values : entries[v] \in {Ready(v), cache[v]}
      /\ \A n \in Names \ Mutables : entries[n] = cache[n]
  BY <1>0 DEF BaseInv, DataInv, PinnedAreCached, DataTypeOK
<1>6. \A v \in Values : Ready(v).state = "ready" /\ Ready(v).of = v
  BY DEF Ready
<1>7. /\ \A n \in Mutables : object(n) = {mutable[n]}
      /\ \A v \in temps : object(v) = {v}
  BY <1>0, <1>4, <1>5, <1>6
<1> HIDE DEF object, entries
<1>8. start \in SUBSET Refs
  BY <1>0
<1>u. \A x : UNION {RefsOf[v] : v \in {x}} = RefsOf[x]
  OBVIOUS
<1>9. \A n \in Mutables : succ[n] = RefsOf[mutable[n]]
  <2>1. ASSUME NEW n \in Mutables PROVE succ[n] = UNION {RefsOf[v] : v \in {mutable[n]}}
    BY <1>0, <1>7
  <2> HIDE DEF succ
  <2>2. QED
    BY <1>u, <2>1
<1>10. \A v \in temps : succ[v] = RefsOf[v]
  <2>1. ASSUME NEW v \in temps PROVE succ[v] = UNION {RefsOf[x] : x \in {v}}
    BY <1>0, <1>4, <1>7
  <2> HIDE DEF succ
  <2>2. QED
    BY <1>u, <2>1
<1> HIDE DEF succ, W, temps
<1>11. start \subseteq W /\ W \subseteq Refs /\ \A x \in W : succ[x] \cap Refs \subseteq W
  BY <1>1, <1>8, ClosureIsLeast
<1>12. /\ \A n \in Mutables : n \in W /\ mutable[n] \in W
       /\ \A n \in Names \ Mutables : tempNames[n] # Untouched => tempNames[n] \in W
  BY <1>0, <1>11 DEF DataTypeOK
<1>13. \A v \in W \cap temps : v \in Stored' /\ RefsOf[v] \subseteq W
  <2>1. \A v \in W \cap temps : entries[v].state = "ready"
    BY <1>4, <1>5, <1>6
  <2>2. knownStored \subseteq blobs
    BY DEF BaseInv, KnownStoredIsStored
  <2>3. QED
    BY <1>0, <1>2, <1>4, <1>10, <1>11, <2>1, <2>2 DEF Stored
<1>14. toSave \in SUBSET Values /\ toSave \subseteq W \cap temps
  BY <1>4
<1> HIDE DEF toSave
<1>15. \A n \in Names : n \in Mutables <=> mutable[n] # Absent
  BY DEF Mutables
<1>16. \A n \in Mutables : mutable[n] \in temps
  BY DEF temps
<1>17. \A v \in temps : v \in tempUrns \/ \E n \in Names : mutable[n] = v
  BY <1>0 DEF temps
<1>18. \A n \in Names : mutable[n] # Absent => RefsOf[mutable[n]] \subseteq W /\ mutable[n] \in Stored'
  BY <1>0, <1>9, <1>11, <1>12, <1>13, <1>15, <1>16
<1>19. \A v \in W \cap tempUrns : RefsOf[v] \subseteq W /\ v \in Stored'
  BY <1>13 DEF temps
<1>20. \A v \in toSave : /\ v \in W \cap tempUrns \/ \E n \in Names : mutable[n] = v
                         /\ cache'[v] = Ready(v)
  BY <1>2, <1>5, <1>14, <1>17
<1>21. /\ \A v \in Values : cache'[v] \in {Ready(v), cache[v]}
       /\ \A n \in Names : mutable[n] = Absent => cache'[n] = cache[n]
       /\ \A n \in Names : mutable[n] = Absent /\ tempNames[n] # Untouched => tempNames[n] \in W
  BY <1>2, <1>5, <1>12, <1>15
<1>22. Flushed(c, W, toSave)
  BY <1>2, <1>18, <1>19, <1>20, <1>21 DEF Flushed
<1>23. QED
  BY <1>11, <1>14, <1>22

-----------------------------------------------------------------------------
(* A session stays one *)

(* What the map manager does by itself is no new moment of its history.    *)
LEMMA BatchesAddNothing ==
  ASSUME BatchStep \/ UNCHANGED mapVars
  PROVE  history' = history
BY DEF BatchStep, GotRootNode, NodeLands, NodeStored, BatchFails, NextBatch, StartNext,
       NoNextBatch, GoIdle, Apply, ApplyLeaving, mapVars, historyVars

(* What the answers to a flush change, of its operation and of the cache   *)
LEMMA FlushStepFacts ==
  ASSUME PlaySession, BaseInv, NEW c \in Callers, FlushStep(c)
  PROVE  /\ UNCHANGED <<mapVars, fetchVars, storing, tempVars, diskVars, latest>>
         /\ \A d \in Callers \ {c} : op'[d] = op[d]
         /\ op'[c].kind # "store" /\ op[c].wait \ blobs \subseteq op'[c].wait
         /\ op'[c].kind = "flush" /\ op'[c].state = "done" =>
              \/ op[c].kind = "flush" /\ op[c].state = "done"
              \/ call[c].state = "resolved" /\ op[c].kind = "flush" /\ op[c].wait = {}
         /\ \A r \in Refs : cache'[r] = cache[r] \/ (r \in Values /\ cache'[r] = Ready(r))
<1>1. op \in [Callers -> Op] /\ cache \in [Refs -> Entry] /\ Values \subseteq Refs
      /\ op[c] \in Op /\ op[c].kind # "store" /\ ~ DatastoreMayFail
  BY DEF BaseInv, SessionInv, DataInv, DataTypeOK, Refs, PlaySession
<1>2. ASSUME NEW v \in Values, FlushedObjectStored(c, v)
      PROVE  /\ op'[c].wait = op[c].wait \ {v} /\ v \in blobs
             /\ op'[c].kind = op[c].kind /\ op'[c].state = op[c].state
  BY <1>1, <1>2 DEF FlushedObjectStored, Op
<1>3. ASSUME NEW v \in Values, FlushedObjectStored(c, v)
      PROVE  /\ \A d \in Callers \ {c} : op'[d] = op[d]
             /\ \A r \in Refs : cache'[r] = cache[r] \/ (r \in Values /\ cache'[r] = Ready(r))
  BY <1>1, <1>3 DEF FlushedObjectStored
<1>4. ASSUME FlushDone(c)
      PROVE  /\ op'[c].wait = op[c].wait /\ op'[c].kind = "flush" /\ op[c].wait = {}
             /\ call[c].state = "resolved" /\ op[c].kind = "flush"
             /\ \A d \in Callers \ {c} : op'[d] = op[d]
  BY <1>1, <1>4 DEF FlushDone, Op
<1>5. ASSUME StoringFails(c)
      PROVE  /\ op'[c].wait = op[c].wait /\ op'[c].kind = "none"
             /\ \A d \in Callers \ {c} : op'[d] = op[d]
  <2>1. op' = [op EXCEPT ![c] = [NoOp EXCEPT !.wait = op[c].wait]]
    BY <1>1, <1>5 DEF StoringFails
  <2>2. [NoOp EXCEPT !.wait = op[c].wait].wait = op[c].wait
        /\ [NoOp EXCEPT !.wait = op[c].wait].kind = "none"
    BY DEF NoOp
  <2>3. QED
    BY <1>1, <2>1, <2>2
<1>6. CASE \E v \in Values : FlushedObjectStored(c, v)
  <2>1. UNCHANGED <<mapVars, fetchVars, storing, tempVars, diskVars, latest>>
    BY <1>6 DEF FlushedObjectStored
  <2>2. QED
    BY <1>1, <1>2, <1>3, <1>6, <2>1
<1>7. CASE FlushDone(c)
  <2>1. UNCHANGED <<mapVars, cache, fetchVars, storing, tempVars, diskVars, latest>>
    BY <1>7 DEF FlushDone
  <2>2. QED
    BY <1>1, <1>4, <1>7, <2>1
<1>8. CASE StoringFails(c)
  <2>1. UNCHANGED <<mapVars, cache, fetchVars, storing, tempVars, diskVars, latest>>
    BY <1>8 DEF StoringFails
  <2>2. QED
    BY <1>1, <1>5, <1>8, <2>1
<1>9. QED
  BY <1>6, <1>7, <1>8 DEF FlushStep

(* A step that binds no name keeps the session one.                        *)
LEMMA SessionKept ==
  ASSUME SessionInv, Stored \subseteq Stored', \A c \in Callers : op'[c].kind # "store",
         UNCHANGED <<history, storing, tempUrns, tempNames>>
  PROVE  SessionInv'
BY DEF SessionInv

(* A flush leaves all that the map then names in the datastore, or on its  *)
(* way there.                                                              *)
LEMMA FlushInSession ==
  ASSUME BaseInv, NEW c \in Callers, Flush(c)
  PROVE  SessionInv'
<1> USE DEF BaseInv
<1> DEFINE names == [n \in Names |-> IF mutable[n] # Absent THEN mutable[n] ELSE tempNames[n]]
<1>0. /\ mutable \in Node /\ tempNames \in [Names -> Values \cup {Untouched}]
      /\ op \in [Callers -> Op] /\ TypeOK /\ Names \cap Values = {}
  BY DataAssumption DEF DataInv, DataTypeOK, MapInv
<1>1. /\ history' = Append(history, Overlay(names, history[Len(history)]))
      /\ storing' = storing /\ tempNames' = NoUpdates
  BY DEF Flush, TakeUpdates, JoinPending, JoinAs, StartBatch, StoreNothing, Mutables
<1>2. names \in Updates
  BY <1>0 DEF Updates, Node
<1>3. PICK W \in SUBSET Refs, toSave \in SUBSET Values : Flushed(c, W, toSave)
  BY FlushSaves
<1>4. Stored \subseteq Stored'
  BY <1>3 DEF Stored, Flushed
<1>5. \A n \in Names : names[n] \in Stored' \cup {Untouched}
  BY <1>0, <1>3 DEF SessionInv, Flushed
<1> HIDE DEF names
<1>6. /\ Len(history) \in Nat /\ Len(history) >= 1
      /\ Overlay(names, history[Len(history)]) \in Node
  BY <1>0, <1>2, HistoryGrows
<1>7. /\ Len(history') = Len(history) + 1
      /\ history'[Len(history')] = Overlay(names, history[Len(history)])
      /\ \A i \in 1 .. Len(history) : history'[i] = history[i]
  BY <1>0, <1>1, <1>6, HistoryKeeps
<1>8. ASSUME NEW i \in 1 .. Len(history'), NEW n \in Names
      PROVE  history'[i][n] \in Stored' \cup {Absent}
  <2>1. CASE i \in 1 .. Len(history)
    BY <1>4, <1>7, <2>1 DEF SessionInv
  <2>2. CASE i = Len(history')
    <3>1. history[Len(history)][n] \in Stored \cup {Absent}
      BY <1>6 DEF SessionInv
    <3>2. history'[i][n] = IF names[n] = Untouched THEN history[Len(history)][n] ELSE names[n]
      BY <1>7, <2>2 DEF Overlay
    <3>3. QED
      BY <1>4, <1>5, <3>1, <3>2
  <2>3. QED
    BY <1>6, <1>7, <2>1, <2>2
<1>9. \A d \in Callers : op'[d].kind # "store"
  <2>1. FlushOp(toSave).kind = "flush"
    BY DEF FlushOp
  <2>2. QED
    BY <1>0, <1>3, <2>1 DEF SessionInv, Flushed
<1>10. \A n \in Names : tempNames'[n] \in tempUrns' \cup {Untouched}
  BY <1>1 DEF NoUpdates
<1>11. QED
  BY <1>1, <1>8, <1>9, <1>10 DEF SessionInv

(* Every step of a session keeps it one.                                   *)
LEMMA SessionStep ==
  ASSUME PlaySession, BaseInv, [DataNext]_vars
  PROVE  SessionInv'
<1>0. SessionInv /\ MapInv /\ op \in [Callers -> Op] /\ tempNames \in [Names -> Values \cup {Untouched}]
  BY DEF BaseInv, DataInv, DataTypeOK
<1> USE DEF Stored
<1>1. CASE UNCHANGED vars \/ MapStep
  <2>1. UNCHANGED dataVars /\ history' = history
    BY <1>1, BatchesAddNothing DEF vars, MapStep
  <2>2. QED
    BY <1>0, <2>1, SessionKept DEF dataVars, diskVars, tempVars, SessionInv
<1>2. ASSUME NEW r \in Refs, FetchObject(r) PROVE SessionInv'
  BY <1>0, <1>2, SessionKept DEF FetchObject, mapVars, historyVars, tempVars, diskVars, SessionInv
<1>3. CASE FetchStep
  BY <1>0, <1>3, SessionKept
  DEF FetchStep, FoundHardRef, ObjectLoaded, LoadFails, LoadFailsKnowing, mapVars, historyVars,
      tempVars, diskVars, SessionInv
<1>4. ASSUME NEW v \in Values, NEW n \in Names \cup {Absent}, TempStoreObject(v, n) PROVE SessionInv'
  <2>1. /\ UNCHANGED <<history, storing, landing, blobs, op>> /\ tempUrns' = tempUrns \cup {v}
        /\ \/ tempNames' = tempNames
           \/ tempNames' = [tempNames EXCEPT ![n] = v]
    BY <1>4 DEF TempStoreObject, TempStoreCached, mapVars, historyVars, diskVars
  <2>2. QED
    BY <1>0, <2>1 DEF SessionInv
<1>5. ASSUME NEW n \in Names, GetMutableRoom(n) PROVE SessionInv'
  BY <1>0, <1>5, SessionKept DEF GetMutableRoom, mapVars, historyVars, tempVars, diskVars, SessionInv
<1>6. ASSUME NEW n \in Names, NEW v \in Values, Mutate(n, v) PROVE SessionInv'
  BY <1>0, <1>6, SessionKept DEF Mutate, mapVars, historyVars, tempVars, diskVars, SessionInv
<1>7. ASSUME NEW c \in Callers, Flush(c) PROVE SessionInv'
  BY <1>7, FlushInSession
<1>8. CASE ClearCache
  BY <1>0, <1>8, SessionKept
  DEF ClearCache, ClearCacheBut, mapVars, historyVars, tempVars, diskVars, SessionInv
<1>9. ASSUME NEW c \in Callers, FlushStep(c) PROVE SessionInv'
  <2>1. /\ UNCHANGED <<mapVars, storing, tempVars, diskVars>>
        /\ \A d \in Callers \ {c} : op'[d] = op[d]
        /\ op'[c].kind # "store"
    BY <1>9, FlushStepFacts
  <2>2. QED
    BY <1>0, <2>1, SessionKept DEF mapVars, historyVars, tempVars, diskVars, SessionInv
<1>10. ASSUME NEW v \in Values, ObjectLands(v) PROVE SessionInv'
  BY <1>0, <1>10, SessionKept DEF ObjectLands, mapVars, historyVars, tempVars, SessionInv
<1>11. QED
  BY <1>0, <1>1, <1>2, <1>3, <1>4, <1>5, <1>6, <1>7, <1>8, <1>9, <1>10, SessionSteps

(* What a session rests on holds from the start. *)
LEMMA BaseInvariant ==
  ASSUME PlaySession
  PROVE  DataSpec => []BaseInv
<1>1. DataInit => BaseInv
  <2> SUFFICES ASSUME DataInit PROVE BaseInv
    OBVIOUS
  <2>1. MapInv /\ DataInv /\ KnownStoredIsStored
    BY DataInvInit DEF DataInit, KnownStoredIsStored
  <2>2. root \in Node /\ history = <<root>> /\ blobs = Needed(root)
    BY DEF DataInit, Init
  <2>3. \A i \in 1 .. Len(history) : \A n \in Names : history[i][n] \in Stored \cup {Absent}
    BY <2>2, NeededIsWhole DEF Stored
  <2>4. SessionInv
    BY <2>3 DEF SessionInv, DataInit, NoOp, NoUpdates
  <2>5. QED
    BY <2>1, <2>4 DEF BaseInv
<1>2. BaseInv /\ [DataNext]_vars => BaseInv'
  BY SessionStep, DataInvStep, KnownStep DEF BaseInv, PlaySession
<1>3. QED
  BY <1>1, <1>2, PTL DEF DataSpec

-----------------------------------------------------------------------------
(* Nothing is lost *)

(* An object that can be had: it is temporary, hence cached, or on its way *)
(* and cached, or stored and not cached as missing.                        *)
Kept(v) ==
  \/ v \in tempUrns
  \/ v \in landing /\ cache[v].state = "ready"
  \/ v \in blobs /\ cache[v].state # "failed"

(* What a name is bound to can be had; and if the name's promise waits for *)
(* an object to be loaded, that object is stored.                          *)
KeptInv ==
  \A n \in Names : mutable[n] = Absent =>
    /\ latest[n] # Absent => Kept(latest[n]) /\ cache[n].state # "failed"
    /\ cache[n].state = "loading" => cache[n].of \in blobs

(* A fetch moves promises on; only one for something that is not stored    *)
(* fails, and only the promise of something that is stored is dropped.     *)
PromisesMove ==
  /\ \A v \in Values :
       \/ cache'[v] = cache[v]
       \/ cache'[v].state = "ready"
       \/ v \in blobs /\ cache'[v].state # "failed"
       \/ v \notin tempUrns \cup blobs /\ (v \in landing => cache[v].state # "ready")
  /\ \A n \in Names : mutable[n] = Absent =>
       \/ cache'[n] = cache[n]
       \/ cache'[n].state \in {"none", "finding", "ready"}
       \/ latest[n] = Absent /\ cache'[n].state = "failed"
       \/ cache'[n].state = "loading" /\ cache'[n].of \in blobs

(* Temporary objects are cached.                                           *)
LEMMA TempsAreReady ==
  ASSUME DataInv, NEW v \in tempUrns
  PROVE  cache[v].state = "ready"
<1>1. cache[v] = Ready(v)
  BY DEF DataInv, PinnedAreCached
<1>2. Ready(v).state = "ready"
  BY DEF Ready
<1>3. QED
  BY <1>1, <1>2

(* A step that does no more than that keeps what there is.                 *)
LEMMA KeptWhenMoved ==
  ASSUME DataTypeOK, KeptInv, PromisesMove, UNCHANGED <<tempUrns, mutable, landing, blobs, latest>>
  PROVE  KeptInv'
<1>1. ASSUME NEW v \in Values, Kept(v) PROVE Kept(v)'
  BY <1>1 DEF Kept, PromisesMove
<1>2. ASSUME NEW n \in Names, mutable'[n] = Absent, latest'[n] # Absent
      PROVE  Kept(latest[n])' /\ cache'[n].state # "failed"
  <2>1. latest[n] \in Values /\ Kept(latest[n]) /\ cache[n].state # "failed"
    BY <1>2 DEF KeptInv, DataTypeOK, Node
  <2>2. QED
    BY <1>1, <1>2, <2>1 DEF PromisesMove
<1>3. QED
  BY <1>2 DEF KeptInv, PromisesMove

(* The steps of a fetch do no more: what a name waits for was stored when  *)
(* it began to wait.                                                       *)
LEMMA KeptInFetch ==
  ASSUME PlaySession, BaseInv, KeptInv, FetchStep
  PROVE  KeptInv'
<1>0. /\ DataTypeOK /\ ValuesAsNamed /\ cache \in [Refs -> Entry] /\ latest \in Node
      /\ Names \cap Values = {} /\ Absent \notin Refs /\ Values \subseteq Refs /\ Names \subseteq Refs
      /\ ~ DatastoreMayFail /\ PinnedAreCached
  BY DataAssumption DEF BaseInv, DataInv, DataTypeOK, Refs, PlaySession
<1>n. \A n \in Names : mutable[n] = Absent /\ cache[n].state \in {"finding", "loading", "ready"} =>
        cache[n].of = latest[n]
  BY DEF BaseInv, DataInv, NamesInv
<1>u. UNCHANGED <<tempUrns, mutable, landing, blobs, latest>>
  BY DEF FetchStep, FoundHardRef, ObjectLoaded, LoadFails, LoadFailsKnowing, tempVars, diskVars
<1>t. \A v \in tempUrns : cache[v].state = "ready"
  BY TempsAreReady DEF BaseInv
<1>1. ASSUME NEW s \in {"finding", "loading"}, NEW t \in {"none", "finding", "loading", "ready", "failed"},
             NEW h \in Values \cup {Absent}, cache' = Advanced(s, h, t),
             t = "failed" => h \notin blobs, s = "finding" /\ h # Absent => t = cache[h].state,
             s = "finding" /\ h = Absent => t = "failed",
             s = "loading" => h # Absent /\ t \in {"ready", "failed"}
      PROVE  PromisesMove
  <2>1. ASSUME NEW v \in Values, cache'[v] # cache[v]
        PROVE  \/ cache'[v].state = "ready"
               \/ v \in blobs /\ cache'[v].state # "failed"
               \/ v \notin tempUrns \cup blobs /\ cache[v].state # "ready"
    <3>1. cache[v].state = s /\ cache[v].of = h /\ cache'[v].state = t
      BY <1>0, <1>1, <2>1 DEF Advanced
    <3>2. h = v
      BY <1>0, <3>1 DEF ValuesAsNamed
    <3>3. QED
      BY <1>0, <1>1, <1>t, <3>1, <3>2
  <2>2. ASSUME NEW n \in Names, mutable[n] = Absent, cache'[n] # cache[n]
        PROVE  \/ cache'[n].state \in {"none", "finding", "ready"}
               \/ latest[n] = Absent /\ cache'[n].state = "failed"
               \/ cache'[n].state = "loading" /\ cache'[n].of \in blobs
    <3>1. cache[n].state = s /\ cache[n].of = h /\ cache'[n].state = t /\ cache'[n].of = h
      BY <1>0, <1>1, <2>2 DEF Advanced, Entry
    <3>2. latest[n] = h
      BY <1>n, <2>2, <3>1
    <3>3. CASE h = Absent
      BY <1>1, <3>1, <3>2, <3>3
    <3>4. CASE h # Absent
      <4>1. Kept(h)
        BY <2>2, <3>2, <3>4 DEF KeptInv
      <4>2. CASE s = "loading"
        <5>1. h \in blobs
          BY <2>2, <3>1, <4>2 DEF KeptInv
        <5>2. QED
          BY <1>1, <3>1, <4>2, <5>1
      <4>3. CASE s = "finding"
        BY <1>1, <1>t, <3>1, <3>4, <4>1, <4>3 DEF Kept
      <4>4. QED
        BY <4>2, <4>3
    <3>5. QED
      BY <3>3, <3>4
  <2>3. QED
    BY <2>1, <2>2 DEF PromisesMove
<1>2. ASSUME NEW h \in Values \cup {Absent}, FoundHardRef(h) PROVE PromisesMove
  <2>1. CASE h \in Values /\ cache[h].state # "none" /\ cache' = Advanced("finding", h, cache[h].state)
    <3>1. cache[h].state \in {"none", "finding", "loading", "ready", "failed"}
      BY <1>0, <2>1 DEF Entry
    <3>2. CASE cache[h].state = "failed" /\ h \in blobs
      <4>1. ASSUME NEW v \in Values PROVE cache'[v] = cache[v]
        BY <1>0, <2>1, <3>2 DEF Advanced, ValuesAsNamed
      <4>2. ASSUME NEW n \in Names, mutable[n] = Absent PROVE cache'[n] = cache[n]
        <5>1. cache[n].state = "finding" /\ cache[n].of = h => Kept(h)
          BY <1>0, <1>n, <2>1, <4>2 DEF KeptInv
        <5>2. ~ Kept(h)
          BY <1>t, <3>2 DEF Kept
        <5>3. QED
          BY <1>0, <2>1, <5>1, <5>2 DEF Advanced
      <4>3. QED
        BY <4>1, <4>2 DEF PromisesMove
    <3>3. CASE ~ (cache[h].state = "failed" /\ h \in blobs)
      BY <1>0, <1>1, <2>1, <3>1, <3>3
    <3>4. QED
      BY <3>2, <3>3
  <2>2. CASE /\ h \in Values /\ cache[h].state = "none"
             /\ cache' = [Advanced("finding", h, "loading") EXCEPT ![h] = [state |-> "loading", of |-> h]]
    <3>1. ASSUME NEW v \in Values, cache'[v] # cache[v]
          PROVE  v = h
      BY <1>0, <2>2, <3>1 DEF Advanced, ValuesAsNamed
    <3>2. h \notin tempUrns /\ (h \in blobs => cache'[h].state # "failed")
      BY <1>0, <1>t, <2>2 DEF Advanced
    <3>3. ASSUME NEW n \in Names, mutable[n] = Absent, cache'[n] # cache[n]
          PROVE  cache'[n].state = "loading" /\ cache'[n].of \in blobs
      <4>1. /\ cache[n].state = "finding" /\ cache[n].of = h
            /\ cache'[n].state = "loading" /\ cache'[n].of = h
        BY <1>0, <2>2, <3>3 DEF Advanced, Entry
      <4>2. Kept(h)
        BY <1>0, <1>n, <2>2, <3>3, <4>1 DEF KeptInv
      <4>3. QED
        BY <1>t, <2>2, <4>1, <4>2 DEF Kept
    <3>4. QED
      BY <2>2, <3>1, <3>2, <3>3 DEF PromisesMove
  <2>3. CASE h = Absent /\ cache' = Advanced("finding", h, "failed")
    <3>1. h \notin blobs
      BY <1>0, <2>3 DEF DataTypeOK
    <3>2. QED
      BY <1>1, <2>3, <3>1
  <2>4. QED
    BY <1>0, <1>2, <2>1, <2>2, <2>3 DEF FoundHardRef
<1>3. ASSUME NEW h \in Values, ObjectLoaded(h) \/ LoadFails(h) PROVE PromisesMove
  <2>1. h # Absent
    BY <1>0
  <2>2. CASE ObjectLoaded(h)
    BY <1>1, <2>1, <2>2 DEF ObjectLoaded
  <2>3. CASE LoadFails(h)
    BY <1>0, <1>1, <2>1, <2>3 DEF LoadFails, LoadFailsKnowing
  <2>4. QED
    BY <1>3, <2>2, <2>3
<1>4. PromisesMove
  BY <1>2, <1>3 DEF FetchStep
<1>5. QED
  BY <1>0, <1>4, <1>u, KeptWhenMoved

(* A flush stores what names are bound to, and leaves it cached.           *)
LEMMA KeptInFlush ==
  ASSUME BaseInv, KeptInv, NEW c \in Callers, Flush(c)
  PROVE  KeptInv'
<1>f. PICK W \in SUBSET Refs, toSave \in SUBSET Values : Flushed(c, W, toSave)
  BY FlushSaves
<1>1. /\ landing' = landing \cup (toSave \ blobs) /\ UNCHANGED blobs
      /\ \A n \in Names : /\ mutable[n] = Absent => cache'[n] = cache[n]
                          /\ mutable[n] = Absent /\ tempNames[n] # Untouched => tempNames[n] \in W
      /\ \A v \in W \cap tempUrns : v \in Stored'
      /\ \A v \in toSave : cache'[v] = Ready(v)
      /\ \A v \in Values : cache'[v] \in {Ready(v), cache[v]}
  BY <1>f DEF Flushed
<1>2. UNCHANGED <<mutable, latest>> /\ latest \in Node
  BY DEF Flush, BaseInv, DataInv, DataTypeOK
<1>3. \A v \in Values : Ready(v).state = "ready"
  BY DEF Ready
<1>4. ASSUME NEW v \in Stored, v \in Values,
             v \in landing => cache[v].state = "ready", v \in blobs => cache[v].state # "failed"
      PROVE  Kept(v)'
  BY <1>1, <1>3, <1>4 DEF Stored, Kept
<1>5. ASSUME NEW n \in Names, mutable[n] = Absent, latest[n] # Absent
      PROVE  Kept(latest[n])'
  <2> DEFINE v == latest[n]
  <2>1. v \in Values /\ Kept(v) /\ latest'[n] = v
    BY <1>2, <1>5 DEF KeptInv, Node
  <2> HIDE DEF v
  <2>2. CASE tempNames[n] # Untouched
    <3>1. v = tempNames[n] /\ v \in tempUrns
      BY <1>5, <2>2, BoundNow DEF BaseInv, SessionInv, v
    <3>2. v \in Stored' /\ cache[v].state = "ready"
      <4>1. v \in Stored'
        BY <1>1, <1>5, <2>2, <3>1
      <4>2. cache[v].state = "ready"
        BY <3>1, TempsAreReady DEF BaseInv
      <4>3. QED
        BY <4>1, <4>2
    <3>3. cache'[v].state = "ready"
      BY <1>1, <1>3, <2>1, <3>2
    <3>4. QED
      BY <2>1, <3>2, <3>3 DEF Stored, Kept
  <2>3. CASE tempNames[n] = Untouched
    <3>1. v \in Stored
      BY <1>5, <2>1, <2>3, BoundNow DEF v
    <3>2. v \in tempUrns => cache[v].state = "ready"
      BY TempsAreReady DEF BaseInv
    <3>3. cache[v].state = "ready" \/ (v \in blobs /\ cache[v].state # "failed")
      BY <2>1, <3>2 DEF Kept
    <3>4. cache'[v].state = "ready" \/ (v \in blobs' /\ cache'[v].state # "failed")
      BY <1>1, <1>3, <2>1, <3>3
    <3>5. v \in Stored'
      BY <1>1, <3>1 DEF Stored
    <3>6. QED
      BY <2>1, <3>4, <3>5 DEF Stored, Kept
  <2>4. QED
    BY <1>2, <2>2, <2>3 DEF v, Kept
<1>6. QED
  BY <1>1, <1>2, <1>5 DEF KeptInv

(* Every step keeps what there is, in a program that clears no cache while *)
(* objects are on their way.                                               *)
LEMMA KeptStep ==
  ASSUME PlaySession, "quietClears" \in Habits, BaseInv, KeptInv, [DataNext]_vars
  PROVE  KeptInv'
<1>0. /\ cache \in [Refs -> Entry] /\ latest \in Node /\ mutable \in Node /\ DataTypeOK
      /\ Names \cap Values = {} /\ Values \subseteq Refs /\ Names \subseteq Refs /\ Absent \notin Refs
      /\ storing = {} /\ SessionInv /\ PinnedAreCached
  BY DataAssumption DEF BaseInv, DataInv, DataTypeOK, Refs, SessionInv
<1>1. CASE UNCHANGED vars \/ MapStep
  <2>1. UNCHANGED dataVars
    BY <1>1 DEF vars, MapStep
  <2>2. QED
    BY <2>1 DEF dataVars, tempVars, diskVars, KeptInv, Kept
<1>2. ASSUME NEW r \in Refs, FetchObject(r) PROVE KeptInv'
  <2>1. /\ UNCHANGED <<tempUrns, mutable, landing, blobs, latest>>
        /\ \A x \in Refs \ {r} : cache'[x] = cache[x]
        /\ cache[r].state = "none"
        /\ \/ r \in Values /\ cache'[r].state = "loading"
           \/ r \in Names /\ cache'[r].state = "finding"
           \/ r \in Names /\ mutable[r] # Absent
    BY <1>0, <1>2 DEF FetchObject, tempVars, diskVars
  <2>2. \A v \in tempUrns : cache[v].state = "ready"
    BY TempsAreReady DEF BaseInv
  <2>3. PromisesMove
    BY <1>0, <2>1, <2>2 DEF PromisesMove
  <2>4. QED
    BY <1>0, <2>1, <2>3, KeptWhenMoved
<1>3. CASE FetchStep
  BY <1>3, KeptInFetch
<1>4. ASSUME NEW v \in Values, NEW n \in Names \cup {Absent}, TempStoreObject(v, n) PROVE KeptInv'
  <2>1. /\ UNCHANGED <<mutable, landing, blobs>> /\ tempUrns' = tempUrns \cup {v}
        /\ cache' = [r \in Refs |-> IF r \in {v, n} THEN Ready(v) ELSE cache[r]]
        /\ \A k \in Names \ {n} : latest'[k] = latest[k]
        /\ n \in Names => latest'[n] = v
    BY <1>0, <1>4 DEF TempStoreObject, TempStoreCached, diskVars, Node
  <2>2. Ready(v).state = "ready"
    BY DEF Ready
  <2>3. \A x \in Values : Kept(x) => Kept(x)'
    BY <1>0, <2>1, <2>2 DEF Kept
  <2>4. v \in tempUrns'
    BY <2>1
  <2>5. ASSUME NEW k \in Names, mutable'[k] = Absent
        PROVE  /\ latest'[k] # Absent => Kept(latest[k])' /\ cache'[k].state # "failed"
               /\ cache'[k].state = "loading" => cache'[k].of \in blobs'
    <3>1. CASE k = n
      BY <1>0, <2>1, <2>2, <2>4, <3>1 DEF Kept
    <3>2. CASE k # n
      <4>1. cache'[k] = cache[k] /\ latest'[k] = latest[k] /\ latest[k] \in Values \cup {Absent}
            /\ mutable[k] = Absent /\ blobs' = blobs
        BY <1>0, <2>1, <2>5, <3>2 DEF Node
      <4>2. latest[k] # Absent => Kept(latest[k]) /\ cache[k].state # "failed"
        BY <4>1 DEF KeptInv
      <4>3. latest[k] # Absent => Kept(latest[k])'
        BY <2>3, <4>1, <4>2 DEF Kept
      <4>4. QED
        BY <4>1, <4>2, <4>3 DEF KeptInv
    <3>3. QED
      BY <3>1, <3>2
  <2>6. QED
    BY <2>5 DEF KeptInv
<1>5. ASSUME NEW n \in Names, GetMutableRoom(n) PROVE KeptInv'
  <2>1. /\ UNCHANGED <<tempUrns, landing, blobs, latest>>
        /\ mutable' = [mutable EXCEPT ![n] = cache[n].of] /\ mutable[n] = Absent
        /\ cache' = [cache EXCEPT ![n] = NoEntry] /\ cache[n].state = "ready"
    BY <1>5 DEF GetMutableRoom, diskVars
  <2>2. NoEntry.state = "none"
    BY DEF NoEntry
  <2>3. cache[n].of = latest[n]
    BY <2>1 DEF BaseInv, DataInv, NamesInv
  <2>4. \A v \in Values : Kept(v)' <=> Kept(v)
    BY <1>0, <2>1 DEF Kept
  <2>5. ASSUME NEW k \in Names, mutable'[k] = Absent
        PROVE  /\ latest'[k] # Absent => Kept(latest[k])' /\ cache'[k].state # "failed"
               /\ cache'[k].state = "loading" => cache'[k].of \in blobs'
    <3>1. CASE k = n
      <4>1. latest'[k] = Absent
        BY <1>0, <2>1, <2>3, <2>5, <3>1 DEF Node
      <4>2. cache'[k].state = "none"
        BY <1>0, <2>1, <2>2, <3>1
      <4>3. QED
        BY <4>1, <4>2
    <3>2. CASE k # n
      <4>1. cache'[k] = cache[k] /\ latest'[k] = latest[k] /\ latest[k] \in Values \cup {Absent}
            /\ mutable[k] = Absent
        BY <1>0, <2>1, <2>5, <3>2 DEF Node
      <4>2. QED
        BY <2>1, <2>4, <4>1 DEF KeptInv
    <3>3. QED
      BY <3>1, <3>2
  <2>6. QED
    BY <2>5 DEF KeptInv
<1>6. ASSUME NEW n \in Names, NEW v \in Values, Mutate(n, v) PROVE KeptInv'
  <2>1. /\ UNCHANGED <<cache, tempUrns, landing, blobs>> /\ v # Absent
        /\ mutable'[n] = v /\ \A k \in Names \ {n} : mutable'[k] = mutable[k] /\ latest'[k] = latest[k]
    BY <1>0, <1>6 DEF Mutate, diskVars, Node
  <2>2. QED
    BY <2>1 DEF KeptInv, Kept
<1>7. ASSUME NEW c \in Callers, Flush(c) PROVE KeptInv'
  BY <1>7, KeptInFlush
<1>8. CASE ClearCache
  <2>1. /\ UNCHANGED <<tempUrns, mutable, landing, blobs, latest>> /\ landing = {}
        /\ cache' = [r \in Refs |-> IF r \in tempUrns \cup storing THEN cache[r] ELSE NoEntry]
    BY <1>8 DEF ClearCache, ClearCacheBut, tempVars, diskVars
  <2>2. NoEntry.state = "none"
    BY DEF NoEntry
  <2>3. PromisesMove
    BY <1>0, <2>1, <2>2 DEF PromisesMove
  <2>4. QED
    BY <1>0, <2>1, <2>3, KeptWhenMoved
<1>9. ASSUME NEW c \in Callers, FlushStep(c) PROVE KeptInv'
  <2>1. /\ UNCHANGED <<tempUrns, mutable, landing, blobs, latest>>
        /\ \A r \in Refs : cache'[r] = cache[r] \/ (r \in Values /\ cache'[r] = Ready(r))
    BY <1>9, FlushStepFacts DEF tempVars, diskVars
  <2>2. \A v \in Values : Ready(v).state = "ready"
    BY DEF Ready
  <2>3. PromisesMove
    BY <1>0, <2>1, <2>2 DEF PromisesMove
  <2>4. QED
    BY <1>0, <2>1, <2>3, KeptWhenMoved
<1>10. ASSUME NEW v \in Values, ObjectLands(v) PROVE KeptInv'
  <2>1. /\ UNCHANGED <<cache, tempUrns, mutable, latest>>
        /\ landing' = landing \ {v} /\ blobs' = blobs \cup {v}
    BY <1>10 DEF ObjectLands, tempVars
  <2>2. \A x : Kept(x) => Kept(x)'
    BY <2>1 DEF Kept
  <2>3. QED
    BY <2>1, <2>2 DEF KeptInv
<1>11. QED
  BY <1>0, <1>1, <1>2, <1>3, <1>4, <1>5, <1>6, <1>7, <1>8, <1>9, <1>10, SessionSteps

(* In a session with a sound datastore and a cache that is cleared only    *)
(* while nothing is on its way, any number of callers, flushes and fetches *)
(* leave to be had what names were set to.                                 *)
THEOREM NothingGetsLost ==
  ASSUME PlaySession, "quietClears" \in Habits
  PROVE  DataSpec => []NothingLost
<1>1. DataInit => KeptInv
  <2> SUFFICES ASSUME DataInit, NEW n \in Names, mutable[n] = Absent
               PROVE  /\ latest[n] # Absent => Kept(latest[n]) /\ cache[n].state # "failed"
                      /\ cache[n].state = "loading" => cache[n].of \in blobs
    BY DEF KeptInv
  <2>1. root \in Node /\ latest = root /\ blobs = Needed(root)
    BY DEF DataInit, Init
  <2>2. root[n] \in blobs \cup {Absent}
    BY <2>1, NeededIsWhole
  <2>3. \A r \in Refs : cache[r].state = "none"
    BY DEF DataInit, NoEntry
  <2>4. blobs \subseteq Refs /\ Names \subseteq Refs
    BY <2>1 DEF Needed, Refs
  <2>5. QED
    BY <2>1, <2>2, <2>3, <2>4 DEF Kept
<1>2. KeptInv /\ BaseInv /\ [DataNext]_vars => KeptInv'
  BY KeptStep
<1>3. BaseInv /\ KeptInv => NothingLost
  <2> SUFFICES ASSUME BaseInv, KeptInv, NEW n \in Names, latest[n] # Absent, mutable[n] = Absent
               PROVE  /\ cache[n].state # "failed"
                      /\ cache[latest[n]].state # "failed"
                      /\ cache[latest[n]].state = "ready" \/ latest[n] \in landing \cup blobs
    BY DEF NothingLost
  <2>1. Kept(latest[n]) /\ cache[n].state # "failed"
    BY DEF KeptInv
  <2>2. latest[n] \in tempUrns => cache[latest[n]].state = "ready"
    BY TempsAreReady DEF BaseInv
  <2>3. QED
    BY <2>1, <2>2 DEF Kept
<1>4. QED
  BY <1>1, <1>2, <1>3, BaseInvariant, PTL DEF DataSpec

-----------------------------------------------------------------------------
(* What is saved is whole *)

(* What a stored object refers to is stored; what a temporary object, or   *)
(* what a name is bound to, refers to is stored or temporary itself.       *)
RefsInv ==
  /\ ReferencesIn(Stored)
  /\ \A v \in tempUrns : RefsOf[v] \cap Values \subseteq tempUrns \cup Stored
  /\ \A n \in Names : latest[n] # Absent => RefsOf[latest[n]] \cap Values \subseteq tempUrns \cup Stored

(* The caller of a flush waits for all that is on its way.                 *)
WaitInv ==
  /\ landing \cap blobs = {}
  /\ \A c \in Callers : landing \subseteq op[c].wait

(* Every root that a caller was given is a moment of the map's history.    *)
AnswersInv ==
  \A c \in Callers :
    call[c].state = "resolved" => \E i \in 1 .. Len(history) : call[c].node = history[i]

(* The root that a flush was given is whole.                               *)
DoneInv ==
  \A c \in Callers :
    op[c].kind = "flush" /\ op[c].state = "done" =>
      call[c].state = "resolved" /\ Needed(call[c].node) \subseteq blobs

(* A flush stores with an object all that it refers to.                    *)
LEMMA RefsInFlush ==
  ASSUME BaseInv, RefsInv, NEW c \in Callers, Flush(c)
  PROVE  RefsInv'
<1>f. PICK W \in SUBSET Refs, toSave \in SUBSET Values : Flushed(c, W, toSave)
  BY FlushSaves
<1>1. /\ landing' = landing \cup (toSave \ blobs) /\ UNCHANGED blobs
      /\ \A n \in Names : /\ mutable[n] # Absent => RefsOf[mutable[n]] \subseteq W
                          /\ mutable[n] = Absent /\ tempNames[n] # Untouched => tempNames[n] \in W
      /\ \A v \in W \cap tempUrns : RefsOf[v] \subseteq W /\ v \in Stored'
      /\ \A v \in toSave : v \in W \cap tempUrns \/ \E n \in Names : mutable[n] = v
  BY <1>f DEF Flushed
<1>2. latest' = latest /\ tempUrns' = {} /\ latest \in Node
  BY DEF Flush, BaseInv, DataInv, DataTypeOK
<1>3. Stored \subseteq Stored' /\ Stored' \subseteq Stored \cup toSave
  BY <1>1 DEF Stored
<1>4. \A R : R \subseteq W /\ R \cap Values \subseteq tempUrns \cup Stored => R \cap Values \subseteq Stored'
  BY <1>1, <1>3
<1>5. ASSUME NEW v \in W \cap tempUrns PROVE RefsOf[v] \cap Values \subseteq Stored'
  BY <1>1, <1>4 DEF RefsInv
<1>6. ASSUME NEW n \in Names, mutable[n] # Absent PROVE RefsOf[mutable[n]] \cap Values \subseteq Stored'
  <2>1. mutable[n] = latest[n]
    BY <1>6, BoundNow
  <2>2. QED
    BY <1>1, <1>4, <1>6, <2>1 DEF RefsInv
<1>7. ASSUME NEW v \in Stored PROVE RefsOf[v] \cap Values \subseteq Stored'
  BY <1>3 DEF RefsInv, ReferencesIn
<1>8. ASSUME NEW n \in Names, latest[n] # Absent PROVE RefsOf[latest[n]] \cap Values \subseteq Stored'
  <2>1. CASE mutable[n] # Absent
    <3>1. mutable[n] = latest[n]
      BY <2>1, BoundNow
    <3>2. QED
      BY <1>6, <2>1, <3>1
  <2>2. CASE mutable[n] = Absent /\ tempNames[n] # Untouched
    <3>1. latest[n] = tempNames[n] /\ latest[n] \in tempUrns
      BY <2>2, BoundNow DEF BaseInv, SessionInv
    <3>2. QED
      BY <1>1, <1>5, <2>2, <3>1
  <2>3. CASE mutable[n] = Absent /\ tempNames[n] = Untouched
    <3>1. latest[n] \in Stored
      BY <1>8, <2>3, BoundNow
    <3>2. QED
      BY <1>7, <3>1
  <2>4. QED
    BY <2>1, <2>2, <2>3
<1>9. ReferencesIn(Stored)'
  <2>1. ASSUME NEW v \in Stored' PROVE RefsOf[v] \cap Values \subseteq Stored'
    <3>1. CASE v \in Stored
      BY <1>7, <3>1
    <3>2. CASE v \in toSave
      <4>1. v \in W \cap tempUrns \/ \E n \in Names : mutable[n] = v
        BY <1>1, <3>2
      <4>2. v # Absent
        BY <3>2, DataAssumption DEF Refs
      <4>3. QED
        BY <1>5, <1>6, <4>1, <4>2
    <3>3. QED
      BY <1>3, <3>1, <3>2
  <2>2. QED
    BY <2>1 DEF ReferencesIn
<1>10. QED
  BY <1>2, <1>8, <1>9 DEF RefsInv

(* A program that refers to nothing dropped keeps objects whole.           *)
LEMMA RefsStep ==
  ASSUME PlaySession, "liveRefs" \in Habits, BaseInv, RefsInv, [DataNext]_vars
  PROVE  RefsInv'
<1>0. latest \in Node /\ SessionInv
  BY DEF BaseInv, DataInv, DataTypeOK
<1>1. ASSUME UNCHANGED <<tempUrns, latest>>, Stored' = Stored PROVE RefsInv'
  BY <1>1 DEF RefsInv, ReferencesIn
<1>2. CASE UNCHANGED vars \/ MapStep
  BY <1>1, <1>2 DEF vars, MapStep, dataVars, tempVars, diskVars, Stored
<1>3. ASSUME NEW r \in Refs, FetchObject(r) PROVE RefsInv'
  BY <1>1, <1>3 DEF FetchObject, tempVars, diskVars, Stored
<1>4. CASE FetchStep
  BY <1>1, <1>4 DEF FetchStep, FoundHardRef, ObjectLoaded, LoadFails, LoadFailsKnowing, tempVars,
                    diskVars, Stored
<1>5. ASSUME NEW v \in Values, NEW n \in Names \cup {Absent}, TempStoreObject(v, n) PROVE RefsInv'
  <2>1. /\ RefsOf[v] \cap Values \subseteq tempUrns \cup Stored
        /\ tempUrns' = tempUrns \cup {v} /\ Stored' = Stored
        /\ \A k \in Names : latest'[k] \in {latest[k], v}
    BY <1>0, <1>5 DEF TempStoreObject, TempStoreCached, MayRefer, diskVars, Stored, Node
  <2>2. QED
    BY <2>1 DEF RefsInv, ReferencesIn
<1>6. ASSUME NEW n \in Names, GetMutableRoom(n) PROVE RefsInv'
  BY <1>1, <1>6 DEF GetMutableRoom, diskVars, Stored
<1>7. ASSUME NEW n \in Names, NEW v \in Values, Mutate(n, v) PROVE RefsInv'
  <2>1. /\ RefsOf[v] \cap Values \subseteq tempUrns \cup Stored
        /\ UNCHANGED tempUrns /\ Stored' = Stored
        /\ \A k \in Names : latest'[k] \in {latest[k], v}
    BY <1>0, <1>7 DEF Mutate, MayRefer, diskVars, Stored, Node
  <2>2. QED
    BY <2>1 DEF RefsInv, ReferencesIn
<1>8. ASSUME NEW c \in Callers, Flush(c) PROVE RefsInv'
  BY <1>8, RefsInFlush
<1>9. CASE ClearCache
  BY <1>1, <1>9 DEF ClearCache, ClearCacheBut, tempVars, diskVars, Stored
<1>10. ASSUME NEW c \in Callers, FlushStep(c) PROVE RefsInv'
  <2>1. UNCHANGED <<tempVars, diskVars, latest>>
    BY <1>10, FlushStepFacts
  <2>2. QED
    BY <1>1, <2>1 DEF tempVars, diskVars, Stored
<1>11. ASSUME NEW v \in Values, ObjectLands(v) PROVE RefsInv'
  BY <1>1, <1>11 DEF ObjectLands, tempVars, Stored
<1>12. QED
  BY <1>0, <1>2, <1>3, <1>4, <1>5, <1>6, <1>7, <1>8, <1>9, <1>10, <1>11, SessionSteps

(* A single caller waits for all that its flush has sent out.              *)
LEMMA WaitStep ==
  ASSUME PlaySession, \A c, d \in Callers : c = d, BaseInv, WaitInv, [DataNext]_vars
  PROVE  WaitInv'
<1>0. op \in [Callers -> Op] /\ SessionInv
  BY DEF BaseInv, DataInv, DataTypeOK
<1>1. ASSUME UNCHANGED <<landing, blobs, op>> PROVE WaitInv'
  BY <1>1 DEF WaitInv
<1>2. CASE UNCHANGED vars \/ MapStep
  BY <1>1, <1>2 DEF vars, MapStep, dataVars, diskVars
<1>3. ASSUME NEW r \in Refs, FetchObject(r) PROVE WaitInv'
  BY <1>1, <1>3 DEF FetchObject, diskVars
<1>4. CASE FetchStep
  BY <1>1, <1>4 DEF FetchStep, FoundHardRef, ObjectLoaded, LoadFails, LoadFailsKnowing, diskVars
<1>5. ASSUME NEW v \in Values, NEW n \in Names \cup {Absent}, TempStoreObject(v, n) PROVE WaitInv'
  BY <1>1, <1>5 DEF TempStoreObject, TempStoreCached, diskVars
<1>6. ASSUME NEW n \in Names,
             GetMutableRoom(n) \/ \E v \in Values : Mutate(n, v)
      PROVE  WaitInv'
  BY <1>1, <1>6 DEF GetMutableRoom, Mutate, diskVars
<1>7. ASSUME NEW c \in Callers, Flush(c) PROVE WaitInv'
  <2>1. PICK W \in SUBSET Refs, toSave \in SUBSET Values : Flushed(c, W, toSave)
    BY <1>7, FlushSaves
  <2>2. landing = {}
    BY <1>7 DEF Flush, Busy, WaitInv
  <2>3. op'[c].wait = toSave
    BY <1>0, <2>1 DEF FlushOp, Flushed
  <2>4. QED
    BY <2>1, <2>2, <2>3 DEF WaitInv, Flushed
<1>8. CASE ClearCache
  BY <1>1, <1>8 DEF ClearCache, ClearCacheBut, diskVars
<1>9. ASSUME NEW c \in Callers, FlushStep(c) PROVE WaitInv'
  <2>1. UNCHANGED diskVars /\ op[c].wait \ blobs \subseteq op'[c].wait
    BY <1>9, FlushStepFacts
  <2>2. QED
    BY <2>1 DEF WaitInv, diskVars
<1>10. ASSUME NEW v \in Values, ObjectLands(v) PROVE WaitInv'
  BY <1>10 DEF ObjectLands, WaitInv
<1>11. QED
  BY <1>0, <1>2, <1>3, <1>4, <1>5, <1>6, <1>7, <1>8, <1>9, <1>10, SessionSteps

(* The map manager leaves promises that are resolved alone, and resolves   *)
(* others to the root.                                                     *)
LEMMA BatchAnswers ==
  ASSUME TypeOK, BatchStep, NEW d \in Callers
  PROVE  \/ call'[d] = call[d]
         \/ /\ call[d].state # "resolved"
            /\ call'[d].state = "resolved" => call'[d].node = root'
<1>0. call[d] \in Call /\ call \in [Callers -> Call]
  BY DEF TypeOK
<1>1. ASSUME NEW m, Apply(m)
      PROVE  \/ call'[d] = call[d]
             \/ call[d].state # "resolved" /\ call'[d].node = root'
  BY <1>0, <1>1, ResolvedFields DEF Apply, ApplyLeaving
<1>2. CASE BatchFails
  BY <1>0, <1>2, ResolvedFields DEF BatchFails
<1>3. CASE NextBatch
  BY <1>0, <1>3 DEF NextBatch, StartNext, Call, CallRecord
<1>4. CASE NoNextBatch
  BY <1>0, <1>4, ResolvedFields DEF NoNextBatch, GoIdle
<1>5. QED
  BY <1>1, <1>2, <1>3, <1>4 DEF BatchStep, GotRootNode, NodeLands, NodeStored

(* What a caller is told is the map as it was at some moment.              *)
LEMMA AnswersStep ==
  ASSUME PlaySession, BaseInv, AnswersInv, [DataNext]_vars
  PROVE  AnswersInv'
<1>0. /\ TypeOK /\ SessionInv /\ MapInv' /\ TypeOK'
      /\ call \in [Callers -> Call] /\ history \in Seq(Node) /\ Len(history) \in Nat
      /\ root' = history'[saved'] /\ saved' \in 1 .. Len(history')
  <2>1. MapInv'
    BY DataInvStep DEF BaseInv, PlaySession
  <2>2. saved' \in 1 .. Len(history') /\ TypeOK'
    BY <2>1 DEF MapInv, TypeOK
  <2>3. QED
    BY <2>1, <2>2 DEF BaseInv, MapInv, TypeOK, SnapshotInv
<1>1. ASSUME /\ \A i \in 1 .. Len(history) : i \in 1 .. Len(history') /\ history'[i] = history[i]
             /\ \A d \in Callers : \/ call'[d] = call[d]
                                   \/ call'[d].state = "resolved" => call'[d].node = root'
      PROVE  AnswersInv'
  <2>1. ASSUME NEW d \in Callers, call'[d].state = "resolved"
        PROVE  \E i \in 1 .. Len(history') : call'[d].node = history'[i]
    <3>1. CASE call'[d] = call[d]
      BY <1>1, <2>1, <3>1 DEF AnswersInv
    <3>2. CASE call'[d].node = root'
      BY <1>0, <3>2
    <3>3. QED
      BY <1>1, <2>1, <3>1, <3>2
  <2>2. QED
    BY <2>1 DEF AnswersInv
<1>2. ASSUME UNCHANGED mapVars PROVE AnswersInv'
  BY <1>2 DEF AnswersInv, mapVars, historyVars
<1>3. CASE UNCHANGED vars
  BY <1>2, <1>3 DEF vars
<1>4. CASE MapStep
  <2>1. history' = history
    BY <1>4, BatchesAddNothing DEF MapStep
  <2>2. QED
    BY <1>0, <1>1, <1>4, <2>1, BatchAnswers DEF MapStep
<1>5. ASSUME NEW c \in Callers, Flush(c) PROVE AnswersInv'
  <2> DEFINE w == NewCall("flush", Len(history), Untouched)
             names == [n \in Names |-> IF n \in Mutables THEN mutable[n] ELSE tempNames[n]]
  <2>1. names \in Updates
    BY DEF BaseInv, DataInv, DataTypeOK, Updates, Node, Mutables
  <2>2. /\ history' = Append(history, Overlay(names, history[Len(history)]))
        /\ call' = [call EXCEPT ![c] = AllUpdatesPromise(NewCall("flush", Len(history), Untouched))']
    BY <1>5 DEF Flush, TakeUpdates
  <2> HIDE DEF names
  <2>3. \A i \in 1 .. Len(history) : i \in 1 .. Len(history') /\ history'[i] = history[i]
    BY <1>0, <2>1, <2>2, HistoryGrows, HistoryKeeps
  <2>4. Len(history') \in Nat
    BY <1>0 DEF TypeOK
  <2>5. w' \in Call /\ w'.state = "none"
    <3>1. NewCall("flush", Len(history'), Untouched) \in Call
          /\ NewCall("flush", Len(history'), Untouched).state = "none"
      BY <2>4, NewCallType, ZenonT(40)
    <3>2. w' = NewCall("flush", Len(history'), Untouched)
      BY DEF NewCall, EmptyNode
    <3>3. QED
      BY <3>1, <3>2
  <2>6. call' = [call EXCEPT ![c] =
                   CASE phase' \in {"fetching", "storing", "applied"} -> [w' EXCEPT !.state = "all"]
                     [] phase' = "idle"                               -> Resolved(w', root', saved')
                     [] phase' = "failed"                             -> Rejected(w')]
    BY <2>2 DEF AllUpdatesPromise, NewCall, Resolved, Rejected, EmptyNode
  <2> HIDE DEF w
  <2>7. /\ [w' EXCEPT !.state = "all"].state = "all"
        /\ Resolved(w', root', saved').node = root'
        /\ Rejected(w').state = "rejected"
    BY <2>5, ResolvedFields DEF Call, CallRecord
  <2>8. phase' \in {"fetching", "storing", "applied", "idle", "failed"}
    BY <1>0 DEF TypeOK, Phases
  <2>9. call'[c].state = "resolved" => call'[c].node = root'
    BY <1>0, <2>6, <2>7, <2>8
  <2>10. \A d \in Callers \ {c} : call'[d] = call[d]
    BY <1>0, <2>6
  <2>11. QED
    BY <1>1, <2>3, <2>9, <2>10
<1>6. CASE UNCHANGED mapVars
  BY <1>2, <1>6
<1>7. ASSUME NEW c \in Callers, FlushStep(c) PROVE UNCHANGED mapVars
  BY <1>7, FlushStepFacts
<1>8. ASSUME \/ \E r \in Refs : FetchObject(r)
             \/ FetchStep
             \/ \E v \in Values, n \in Names \cup {Absent} : TempStoreObject(v, n)
             \/ \E n \in Names : GetMutableRoom(n)
             \/ \E n \in Names, v \in Values : Mutate(n, v)
             \/ ClearCache
             \/ \E v \in Values : ObjectLands(v)
      PROVE  UNCHANGED mapVars
  BY <1>8 DEF FetchObject, FetchStep, FoundHardRef, ObjectLoaded, LoadFails, LoadFailsKnowing,
              TempStoreObject, TempStoreCached, GetMutableRoom, Mutate, ClearCache, ClearCacheBut,
              ObjectLands
<1>9. QED
  BY <1>0, <1>3, <1>4, <1>5, <1>6, <1>7, <1>8, SessionSteps

(* A flush is done when all that its root needs is stored, and so it stays. *)
LEMMA DoneStep ==
  ASSUME PlaySession, \A c, d \in Callers : c = d, BaseInv, RefsInv, WaitInv, AnswersInv, DoneInv,
         [DataNext]_vars
  PROVE  DoneInv'
<1>0. op \in [Callers -> Op] /\ SessionInv /\ TypeOK /\ landing \subseteq Values /\ blobs \subseteq Values
  BY DEF BaseInv, DataInv, DataTypeOK, MapInv
<1>1. ASSUME blobs \subseteq blobs',
             \A c \in Callers : op'[c].kind = "flush" /\ op'[c].state = "done" =>
               /\ op[c].kind = "flush" /\ op[c].state = "done"
               /\ call[c].state = "resolved" => call'[c] = call[c]
      PROVE  DoneInv'
  <2>1. ASSUME NEW c \in Callers, op'[c].kind = "flush", op'[c].state = "done"
        PROVE  call'[c].state = "resolved" /\ Needed(call'[c].node) \subseteq blobs'
    <3>1. call[c].state = "resolved" /\ Needed(call[c].node) \subseteq blobs /\ call'[c] = call[c]
      BY <1>1, <2>1 DEF DoneInv
    <3>2. QED
      BY <1>1, <3>1
  <2>2. ASSUME NEW m PROVE Needed(m)' = Needed(m)
    BY DEF Needed, Closure
  <2>3. QED
    BY <2>1 DEF DoneInv, Needed, Closure
<1>2. ASSUME UNCHANGED <<mapVars, op>>, blobs \subseteq blobs' PROVE DoneInv'
  BY <1>1, <1>2 DEF mapVars
<1>3. CASE UNCHANGED vars
  BY <1>2, <1>3 DEF vars, dataVars, diskVars
<1>4. CASE MapStep
  <2>1. UNCHANGED <<op, blobs>> /\ BatchStep
    BY <1>4 DEF MapStep, dataVars, diskVars
  <2>2. \A c \in Callers : call[c].state = "resolved" => call'[c] = call[c]
    BY <1>0, <2>1, BatchAnswers
  <2>3. QED
    BY <1>1, <2>1, <2>2
<1>5. ASSUME NEW c \in Callers, Flush(c) PROVE DoneInv'
  <2>1. PICK W \in SUBSET Refs, toSave \in SUBSET Values : Flushed(c, W, toSave)
    BY <1>5, FlushSaves
  <2>2. op'[c].state = "data"
    BY <1>0, <2>1 DEF FlushOp, Flushed
  <2>3. QED
    BY <2>2 DEF DoneInv
<1>6. ASSUME NEW c \in Callers, FlushStep(c) PROVE DoneInv'
  <2>1. UNCHANGED <<mapVars, diskVars>>
        /\ (op'[c].kind = "flush" /\ op'[c].state = "done" =>
              \/ op[c].kind = "flush" /\ op[c].state = "done"
              \/ call[c].state = "resolved" /\ op[c].kind = "flush" /\ op[c].wait = {})
    BY <1>6, FlushStepFacts
  <2>2. CASE ~ (call[c].state = "resolved" /\ op[c].wait = {} /\ op'[c].kind = "flush" /\ op'[c].state = "done")
             \/ (op[c].kind = "flush" /\ op[c].state = "done")
    BY <1>1, <2>1, <2>2 DEF mapVars, diskVars
  <2>3. CASE call[c].state = "resolved" /\ op[c].wait = {}
    <3>1. landing = {}
      BY <2>3 DEF WaitInv
    <3>2. PICK i \in 1 .. Len(history) : call[c].node = history[i]
      BY <2>3 DEF AnswersInv
    <3>3. history[i] \in Node /\ Stored = blobs /\ ReferencesIn(blobs)
          /\ \A n \in Names : history[i][n] \in blobs \cup {Absent}
      BY <1>0, <3>1 DEF TypeOK, Stored, RefsInv, SessionInv
    <3>4. Needed(call[c].node) \subseteq blobs
      BY <1>0, <3>2, <3>3, NeededIsIn
    <3>5. \A d \in Callers : call'[d].state = "resolved" /\ Needed(call'[d].node) \subseteq blobs'
      BY <2>1, <2>3, <3>4 DEF mapVars, diskVars
    <3>6. QED
      BY <3>5 DEF DoneInv, Needed, Closure
  <2>4. QED
    BY <2>2, <2>3
<1>7. ASSUME \/ \E r \in Refs : FetchObject(r)
             \/ FetchStep
             \/ \E v \in Values, n \in Names \cup {Absent} : TempStoreObject(v, n)
             \/ \E n \in Names : GetMutableRoom(n)
             \/ \E n \in Names, v \in Values : Mutate(n, v)
             \/ ClearCache
             \/ \E v \in Values : ObjectLands(v)
      PROVE  UNCHANGED <<mapVars, op>> /\ blobs \subseteq blobs'
  BY <1>7 DEF FetchObject, FetchStep, FoundHardRef, ObjectLoaded, LoadFails, LoadFailsKnowing,
              TempStoreObject, TempStoreCached, GetMutableRoom, Mutate, ClearCache, ClearCacheBut,
              ObjectLands, diskVars
<1>8. QED
  BY <1>0, <1>2, <1>3, <1>4, <1>5, <1>6, <1>7, SessionSteps

(* In a session with a sound datastore, of a program whose objects refer   *)
(* to nothing that was dropped and that makes one flush at a time, a game  *)
(* can be loaded from the root that a flush gives.                         *)
THEOREM SavesLoad ==
  ASSUME PlaySession, "liveRefs" \in Habits, \A c, d \in Callers : c = d
  PROVE  DataSpec => []SavedGameLoads
<1> DEFINE Inv == RefsInv /\ WaitInv /\ AnswersInv /\ DoneInv
<1>1. DataInit => Inv
  <2> SUFFICES ASSUME DataInit PROVE Inv
    OBVIOUS
  <2>1. /\ root \in Node /\ latest = root /\ blobs = Needed(root) /\ landing = {} /\ tempUrns = {}
        /\ Stored = blobs
    BY DEF DataInit, Init, Stored
  <2>2. ReferencesIn(Needed(root)) /\ \A n \in Names : root[n] \in Needed(root) \cup {Absent}
    BY <2>1, NeededIsWhole
  <2>3. RefsInv
    BY <2>1, <2>2 DEF RefsInv, ReferencesIn
  <2>4. \A c \in Callers : call[c].state = "none" /\ op[c].kind = "none"
    BY DEF DataInit, Init, NoCall, NewCall, NoOp
  <2>5. QED
    BY <2>1, <2>3, <2>4 DEF WaitInv, AnswersInv, DoneInv
<1>2. BaseInv /\ Inv /\ [DataNext]_vars => Inv'
  BY RefsStep, WaitStep, AnswersStep, DoneStep
<1>3. Inv => SavedGameLoads
  BY DEF DoneInv, SavedGameLoads
<1>4. QED
  BY <1>1, <1>2, <1>3, BaseInvariant, PTL DEF DataSpec
=============================================================================
