------------------------ MODULE DistributedBucketMap ------------------------
(***************************************************************************)
(* The persistent name -> hash-reference map of DistributedBucketMap.ts,   *)
(* and the manager (class DistributedBucketMapManager) that batches its    *)
(* updates.                                                                *)
(*                                                                         *)
(* The whole map is one immutable node in a content-addressed datastore,   *)
(* known by its URI (only leaf nodes exist: _storeValues throws on any     *)
(* other).  A URI is a hash of what it names, so here the node stands for  *)
(* its own URI.  At most one update of the node, a batch, is in flight;    *)
(* what is stored meanwhile is gathered in `pending' and becomes the next  *)
(* batch when the promise chain gets there.                                *)
(*                                                                         *)
(* JavaScript runs each callback to completion, so one callback is one     *)
(* action; the datastore answers between callbacks, in its own time.       *)
(***************************************************************************)
EXTENDS Naturals, Sequences

CONSTANTS
  Names,            \* keys of the map: soft references
  Values,           \* what the keys are mapped to: hash references
  Absent,           \* no mapping: JavaScript's undefined
  Untouched,        \* marks the keys that a set of updates does not mention
  Callers,          \* holders of the promises the manager hands out
  MaxStores,        \* bound of the model: number of calls of storeValues
  DatastoreMayFail  \* whether a fetch or a store may be rejected

ASSUME SentinelAssumption ==
  /\ Absent \notin Values
  /\ Untouched \notin Values \cup {Absent}

ASSUME BoundAssumption == MaxStores \in Nat /\ DatastoreMayFail \in BOOLEAN

VARIABLES
  root,     \* _rootNodeUri
  pending,  \* pendingUpdates
  current,  \* currentUpdates
  phase,    \* how far currentUpdatePromise has got; "idle" when it is null
  nodes,    \* the nodes that have reached the datastore
  call,     \* the promise each caller holds
  history,  \* history variable: the map after each call of storeValues
  sent,     \* history variable: history[sent] is what the batch will write
  saved     \* history variable: history[saved] is what the root holds

managerVars == <<root, pending, current, phase, nodes>>
historyVars == <<history, sent, saved>>
mapVars == <<managerVars, call, historyVars>>

-----------------------------------------------------------------------------
(* Nodes and sets of updates *)

Node == [Names -> Values \cup {Absent}]
Updates == [Names -> Values \cup {Absent, Untouched}]

EmptyNode == [k \in Names |-> Absent]
NoUpdates == [k \in Names |-> Untouched]

(* updateValues, and the loop that merges updates into pendingUpdates: the *)
(* keys that u mentions take u's value, the others keep theirs.            *)
Overlay(u, m) == [k \in Names |-> IF u[k] = Untouched THEN m[k] ELSE u[k]]

(* The root a manager is built on can be fetched: the empty node is known  *)
(* without asking the datastore.                                           *)
Fetchable(m) == m \in nodes \cup {EmptyNode}

-----------------------------------------------------------------------------
(* Promises *)

Phases == {"idle", "fetching", "storing", "applied", "failed"}

(* A promise is still open on the batch in flight ("batch"), on what       *)
(* follows it ("all") or on a read of the root node ("reading").  `since'  *)
(* is the call's place in the history and `at' the answer's.               *)
CallStates == {"none", "batch", "all", "reading", "resolved", "rejected"}

CallRecord == [op: {"none", "store", "flush", "fetch"}, state: CallStates,
               since: Nat, node: Node, at: Nat,
               key: Names \cup {Untouched}, value: Values \cup {Absent}]

Call == {w \in CallRecord : w.state = "reading" => w.key \in Names}

NewCall(op, i, k) == [op |-> op, state |-> "none", since |-> i, node |-> EmptyNode,
                      at |-> 1, key |-> k, value |-> Absent]

NoCall == NewCall("none", 1, Untouched)

Waiting(c) == call[c].state \in {"batch", "all", "reading"}

Resolved(w, m, i) == [w EXCEPT !.state = "resolved", !.node = m, !.at = i]
Rejected(w) == [w EXCEPT !.state = "rejected"]

(* A promise for the current batch, as the caller gets it now. *)
BatchPromise(w) ==
  CASE phase \in {"fetching", "storing"} -> [w EXCEPT !.state = "batch"]
    [] phase \in {"idle", "applied"}     -> Resolved(w, root, saved)
    [] phase = "failed"                  -> Rejected(w)

(* Mutant of AllUpdatesPromise: flushUpdates waits for the current batch.  *)
FlushOfBatch(w) == BatchPromise(w)

(* allUpdatesPromise, as the caller gets it now. *)
AllUpdatesPromise(w) ==
  CASE phase \in {"fetching", "storing", "applied"} -> [w EXCEPT !.state = "all"]
    [] phase = "idle"                               -> Resolved(w, root, saved)
    [] phase = "failed"                             -> Rejected(w)

-----------------------------------------------------------------------------
Init ==
  /\ root \in Node
  /\ nodes = {root}
  /\ pending = NoUpdates
  /\ current = NoUpdates
  /\ phase = "idle"
  /\ call = [c \in Callers |-> NoCall]
  /\ history = <<root>>
  /\ sent = 1
  /\ saved = 1

(* storeValues when a promise is already there: the updates join the       *)
(* pending ones, and u is pending then.                                    *)
JoinAs(u) ==
  /\ phase # "idle"
  /\ pending' = u
  /\ UNCHANGED <<root, current, phase, nodes, sent, saved>>

JoinPending(u) == JoinAs(Overlay(u, pending))

(* storeValues when nothing is in flight runs storeUpdates at once: a      *)
(* batch starts.                                                           *)
StartBatch(u) ==
  /\ phase = "idle"
  /\ Overlay(u, pending) # NoUpdates
  /\ current' = Overlay(u, pending)
  /\ pending' = NoUpdates
  /\ phase' = "fetching"
  /\ sent' = Len(history) + 1
  /\ UNCHANGED <<root, nodes, saved>>

(* ... unless there is nothing to store. *)
StoreNothing(u) ==
  /\ phase = "idle"
  /\ Overlay(u, pending) = NoUpdates
  /\ sent' = Len(history) + 1
  /\ saved' = Len(history) + 1
  /\ UNCHANGED managerVars

(* What storeValues does to the manager, whoever gets the promise. *)
TakeUpdates(u) ==
  /\ Len(history) <= MaxStores
  /\ JoinPending(u) \/ StartBatch(u) \/ StoreNothing(u)
  /\ history' = Append(history, Overlay(u, history[Len(history)]))

StoreValues(c, u) ==
  /\ ~ Waiting(c)
  /\ TakeUpdates(u)
  /\ LET w == NewCall("store", Len(history) + 1, Untouched)
     IN call' = [call EXCEPT ![c] =
                   IF phase = "idle" /\ phase' # "idle" THEN [w EXCEPT !.state = "batch"]
                   ELSE IF phase = "idle" THEN Resolved(w, root, Len(history) + 1)
                   ELSE BatchPromise(w)]

FlushUpdates(c) ==
  /\ ~ Waiting(c)
  /\ call' = [call EXCEPT ![c] =
                AllUpdatesPromise(NewCall("flush", Len(history), Untouched))]
  /\ UNCHANGED <<managerVars, historyVars>>

(* fetchValue looks at the updates u first; only a key that none of them   *)
(* mentions is looked up in the node that is the root at this moment.      *)
FetchThrough(u, c, k) ==
  /\ ~ Waiting(c)
  /\ LET w == NewCall("fetch", Len(history), k)
     IN call' = [call EXCEPT ![c] =
                   IF u[k] # Untouched
                   THEN [w EXCEPT !.state = "resolved", !.value = u[k]]
                   ELSE [w EXCEPT !.state = "reading", !.node = root]]
  /\ UNCHANGED <<managerVars, historyVars>>

(* Mutant of FetchValue: the batch in flight hides what is pending. *)
FetchCurrentFirst(c, k) == FetchThrough(Overlay(current, pending), c, k)

FetchValue(c, k) == FetchThrough(Overlay(pending, current), c, k)

(* The datastore answers a fetchValue. *)
AnswerFetch(c) ==
  /\ call[c].state = "reading"
  /\ \/ /\ Fetchable(call[c].node)
        /\ call' = [call EXCEPT ![c].state = "resolved",
                                ![c].value = call[c].node[call[c].key]]
     \/ /\ DatastoreMayFail
        /\ call' = [call EXCEPT ![c] = Rejected(@)]
  /\ UNCHANGED <<managerVars, historyVars>>

-----------------------------------------------------------------------------
(* The batch in flight *)

BatchNode == Overlay(current, root)

(* The callback that ends a batch; u are the pending updates it leaves. *)
ApplyLeaving(m, u) ==
  /\ root' = m
  /\ current' = NoUpdates
  /\ pending' = u
  /\ phase' = "applied"
  /\ saved' = sent
  /\ call' = [c \in Callers |-> IF call[c].state = "batch"
                                THEN Resolved(call[c], m, sent) ELSE call[c]]
  /\ UNCHANGED <<nodes, history, sent>>

(* Mutant of Apply: the callback clears the pending updates as well. *)
ApplyAndForget(m) == ApplyLeaving(m, NoUpdates)

Apply(m) == ApplyLeaving(m, pending)

(* storeValues (the function) got the old node.  An update that changes    *)
(* nothing is not stored.                                                  *)
GotRootNode ==
  /\ phase = "fetching"
  /\ Fetchable(root)
  /\ \/ /\ BatchNode = root
        /\ Apply(root)
     \/ /\ BatchNode # root
        /\ phase' = "storing"
        /\ UNCHANGED <<root, pending, current, nodes, call, historyVars>>

(* The new node reaches the datastore, which acknowledges it afterwards. *)
NodeLands ==
  /\ phase = "storing"
  /\ BatchNode \notin nodes
  /\ nodes' = nodes \cup {BatchNode}
  /\ UNCHANGED <<root, pending, current, phase, call, historyVars>>

(* Mutant of NodeStored: the node's URI is used before it is stored. *)
NodeNamed ==
  /\ phase = "storing"
  /\ Apply(BatchNode)

NodeStored ==
  /\ phase = "storing"
  /\ BatchNode \in nodes
  /\ Apply(BatchNode)

(* The datastore rejects the fetch or the store.  Nobody handles it:       *)
(* currentUpdatePromise stays set, rejected, and currentUpdates as it was. *)
BatchFails ==
  /\ DatastoreMayFail
  /\ phase \in {"fetching", "storing"}
  /\ phase' = "failed"
  /\ call' = [c \in Callers |-> IF call[c].state \in {"batch", "all"}
                                THEN Rejected(call[c]) ELSE call[c]]
  /\ UNCHANGED <<root, pending, current, nodes, historyVars>>

(* storeUpdates, run by the promise chain after a batch, if it finds u. *)
StartNext(u) ==
  /\ phase = "applied"
  /\ u # NoUpdates
  /\ current' = pending
  /\ pending' = NoUpdates
  /\ phase' = "fetching"
  /\ sent' = Len(history)
  /\ call' = [c \in Callers |-> IF call[c].state = "all"
                                THEN [call[c] EXCEPT !.state = "batch"] ELSE call[c]]
  /\ UNCHANGED <<root, nodes, history, saved>>

(* Mutant of NextBatch: storeUpdates looks at the wrong updates. *)
NextBatchIfCurrent == StartNext(current)

NextBatch == StartNext(pending)

(* ... if it finds no pending updates; calls are the promises then. *)
GoIdle(calls) ==
  /\ phase = "applied"
  /\ pending = NoUpdates
  /\ phase' = "idle"
  /\ sent' = Len(history)
  /\ saved' = Len(history)
  /\ call' = calls
  /\ UNCHANGED <<root, pending, current, nodes, history>>

(* Mutant of NoNextBatch: flushUpdates' promise is replaced, not resolved. *)
NoNextBatchUnannounced == GoIdle(call)

NoNextBatch ==
  GoIdle([c \in Callers |-> IF call[c].state = "all"
                            THEN Resolved(call[c], root, Len(history)) ELSE call[c]])

BatchStep == GotRootNode \/ NodeLands \/ NodeStored \/ BatchFails \/ NextBatch \/ NoNextBatch

Next ==
  \/ \E c \in Callers, u \in Updates : StoreValues(c, u)
  \/ \E c \in Callers : FlushUpdates(c)
  \/ \E c \in Callers, k \in Names : FetchValue(c, k)
  \/ \E c \in Callers : AnswerFetch(c)
  \/ BatchStep

(* The event loop runs every callback whose turn has come, and the         *)
(* datastore answers every request one way or the other.                   *)
Fairness ==
  /\ WF_mapVars(BatchStep)
  /\ \A c \in Callers : WF_mapVars(AnswerFetch(c))

Spec == Init /\ [][Next]_mapVars

FairSpec == Spec /\ Fairness

-----------------------------------------------------------------------------
TypeOK ==
  /\ root \in Node
  /\ pending \in Updates
  /\ current \in Updates
  /\ phase \in Phases
  /\ nodes \subseteq Node
  /\ call \in [Callers -> Call]
  /\ history \in Seq(Node)
  /\ sent \in 1 .. Len(history)
  /\ saved \in 1 .. sent

(* What the manager holds is always three moments of one history: the root *)
(* node is the map as some call of storeValues left it, the batch in       *)
(* flight turns it into a later such moment, and the pending updates turn  *)
(* that one into the present.  No interleaving of calls with the two       *)
(* asynchronous halves of a batch loses, repeats or reorders an update.    *)
SnapshotInv ==
  /\ root = history[saved]
  /\ Overlay(current, root) = history[sent]
  /\ Overlay(pending, history[sent]) = history[Len(history)]

(* What SnapshotInv rests on: between batches nothing is current, and when *)
(* the manager is idle everything stored has been saved.                   *)
PhaseInv ==
  /\ phase = "idle" => pending = NoUpdates /\ current = NoUpdates /\ saved = Len(history)
  /\ phase = "applied" => current = NoUpdates /\ saved = sent

(* A promise from flushUpdates resolves to a root that holds every update  *)
(* stored before the call, also those that were only pending then.         *)
FlushIsDurable ==
  \A c \in Callers :
    call[c].op = "flush" /\ call[c].state = "resolved" =>
      /\ call[c].at >= call[c].since
      /\ call[c].node = history[call[c].at]

(* What FlushIsDurable rests on: a flush that waits for a batch waits for  *)
(* one that was made up after the flush was called, and only a fetchValue  *)
(* waits for a node.                                                       *)
FlushInv ==
  \A c \in Callers :
    /\ call[c].state = "reading" => call[c].op = "fetch"
    /\ call[c].op = "fetch" => call[c].state \in {"reading", "resolved", "rejected"}
    /\ call[c].op = "flush" =>
         /\ call[c].since \in 1 .. Len(history)
         /\ call[c].state = "batch" => call[c].since <= sent
         /\ call[c].state = "resolved" =>
              /\ call[c].at \in call[c].since .. Len(history)
              /\ call[c].node = history[call[c].at]

(* fetchValue answers what the key was mapped to when it was called, even  *)
(* when a batch finishes, or fails, between the call and the answer.       *)
FetchSeesLatest ==
  \A c \in Callers :
    call[c].op = "fetch" /\ call[c].state = "resolved" =>
      call[c].value = history[call[c].since][call[c].key]

(* What FetchSeesLatest rests on: the node an open fetchValue reads has    *)
(* the value that its key had when it was called.                          *)
FetchInv ==
  \A c \in Callers :
    call[c].op = "fetch" =>
      /\ call[c].since \in 1 .. Len(history)
      /\ call[c].state = "reading" =>
           call[c].node[call[c].key] = history[call[c].since][call[c].key]
      /\ call[c].state = "resolved" =>
           call[c].value = history[call[c].since][call[c].key]

(* Every root URI that the manager has, or has given to anyone, names a    *)
(* node that can be fetched: a process that starts from it, after this one *)
(* died at any point of a batch, finds a map.                              *)
RootsAreStored ==
  /\ Fetchable(root)
  /\ \A c \in Callers :
       call[c].op \in {"store", "flush"} /\ call[c].state = "resolved" => Fetchable(call[c].node)

(* The manager is a write-behind map: what fetchValue sees changes only by *)
(* whole calls of storeValues, in the order of the calls, and the root     *)
(* only ever moves to a snapshot of what fetchValue saw.                   *)
WriteBehind ==
  INSTANCE WriteBehindMap WITH
    latest   <- Overlay(pending, Overlay(current, root)),
    snapshot <- Overlay(current, root),
    durable  <- root

ImplementsWriteBehind == WriteBehind!Spec

(* What the comment in storeValues relies on ("it's already set to call    *)
(* storeUpdates when it's done, so we don't need to do anything!"): every  *)
(* update is eventually part of the saved map.                             *)
EveryUpdateSaved ==
  \A i \in 1 .. MaxStores + 1 : Len(history) >= i ~> saved >= i

(* As long as no batch is rejected, that is so: also what joins while the  *)
(* last callback of a batch is still to come is picked up by another one.  *)
SavedUnlessRejected ==
  \A i \in 1 .. MaxStores + 1 : Len(history) >= i ~> (saved >= i \/ phase = "failed")

(* No promise that the manager hands out stays open forever. *)
EveryPromiseSettles == \A c \in Callers : Waiting(c) ~> ~ Waiting(c)
=============================================================================
