--------------------------- MODULE Maze1Simulator ---------------------------
(***************************************************************************)
(* Maze1Simulator.ts: the promise chain on which the simulation of the     *)
(* world advances.                                                         *)
(*                                                                         *)
(* update, doOneOffInterStateUpdate and flushUpdates each put a callback   *)
(* on the promise of the latest state, so the chain is a queue of jobs.    *)
(* An update is a major step: logic updates until half of its time is      *)
(* over, then physics, then vision, then logic updates until its end.  A   *)
(* logic update takes one small step of time and handles all the actions   *)
(* of the state it starts from; what these enqueue goes to the next one.   *)
(* Rooms are loaded on the way, so calls from outside come in between.     *)
(*                                                                         *)
(* What an action does to the world is left out; whether it is handled,    *)
(* and in which order, is not.  A number stands for an action that         *)
(* enqueueAction got from outside, the n-th being n, and Echo for one that *)
(* the simulation itself gave rise to.  Time counts logic steps.           *)
(***************************************************************************)
EXTENDS Naturals, Sequences

CONSTANTS
  HalfSteps,    \* logic steps in half a major step
  MaxEnqueued,  \* bound of the model: number of calls of enqueueAction
  MaxJobs       \* bound of the model: number of jobs put on the chain

ASSUME StepAssumption ==
  /\ HalfSteps \in Nat \ {0}
  /\ MaxEnqueued \in Nat
  /\ MaxJobs \in Nat

VARIABLES
  enqueued,  \* _enqueuedActions
  jobs,      \* callbacks waiting on _currentMajorStatePromise
  stage,     \* what the job being done has come to
  half,      \* the half of the major step that doLogicUpdates is in
  start,     \* startTime of the update
  time,      \* time of the latest state
  actions,   \* enqueuedActions of the latest state
  todo,      \* what the logic update under way has still to handle
  fresh,     \* its newEnqueuedActions
  save,      \* the state that flushUpdates makes for saving
  asked,     \* history variable: number of jobs put on the chain
  issued,    \* history variable: number of actions enqueued from outside
  begun,     \* history variable: issued, when the update began
  handled,   \* history variable: the actions from outside, as handled
  updates    \* history variable: number of updates completed

chainVars == <<jobs, stage, half, start>>
stateVars == <<time, actions>>
stepVars == <<todo, fresh>>
historyVars == <<asked, issued, begun, handled, updates>>
vars == <<enqueued, chainVars, stateVars, stepVars, save, historyVars>>

-----------------------------------------------------------------------------
Echo == 0
External == 1 .. MaxEnqueued
Action == External \cup {Echo}

Jobs == {"update", "oneOff", "flush"}
Stages == {"between", "deciding", "acting", "physics", "vision", "inter", "rejected"}

(* shares: the array of enqueued actions is still the live state's, and    *)
(* sees what is pushed there.  handled and taken are history: how many     *)
(* actions from outside the data has seen, and how many the simulator had  *)
(* taken over, when the save began.                                        *)
NoSave == [state |-> "none", time |-> 0, handled |-> 0, taken |-> 0, actions |-> <<>>,
           shares |-> FALSE]

Unshared == [save EXCEPT !.shares = FALSE]

(* midTime or endTime *)
Target == start + half * HalfSteps

Init ==
  /\ enqueued = <<>>
  /\ jobs = <<>>
  /\ stage = "between"
  /\ half = 1
  /\ start = 0
  /\ time = 0
  /\ actions = <<>>
  /\ todo = <<>>
  /\ fresh = <<>>
  /\ save = NoSave
  /\ asked = 0
  /\ issued = 0
  /\ begun = 0
  /\ handled = <<>>
  /\ updates = 0

-----------------------------------------------------------------------------
(* Calls from outside, at any time *)

EnqueueAction ==
  /\ issued < MaxEnqueued
  /\ issued' = issued + 1
  /\ enqueued' = Append(enqueued, issued + 1)
  /\ UNCHANGED <<chainVars, stateVars, stepVars, save, asked, begun, handled, updates>>

(* update, doOneOffInterStateUpdate or flushUpdates *)
Ask(j) ==
  /\ asked < MaxJobs
  /\ asked' = asked + 1
  /\ jobs' = Append(jobs, j)
  /\ UNCHANGED <<enqueued, stage, half, start, stateVars, stepVars, save, issued, begun,
                 handled, updates>>

-----------------------------------------------------------------------------
(* The logic updates of a major step *)

BeginUpdate ==
  /\ stage = "between"
  /\ jobs # <<>> /\ Head(jobs) = "update"
  /\ stage' = "deciding"
  /\ half' = 1
  /\ start' = time
  /\ begun' = issued
  /\ UNCHANGED <<enqueued, jobs, stateVars, stepVars, save, asked, issued, handled, updates>>

(* slurpEnqueuedActionsInto *)
Slurped == actions \o enqueued

(* doLogicUpdates takes over what was enqueued, in an array of its own,    *)
(* and starts a logic update of the actions a, or goes on to what follows. *)
LogicUpdatesOf(a, starting) ==
  /\ stage = "deciding"
  /\ enqueued' = <<>>
  /\ \/ /\ ~ starting
        /\ actions' = a
        /\ time' = IF time < Target THEN Target ELSE time
        /\ stage' = IF half = 1 THEN "physics" ELSE "inter"
        /\ save' = IF enqueued = <<>> THEN save ELSE Unshared
        /\ UNCHANGED stepVars
     \/ /\ starting
        /\ todo' = a
        /\ fresh' = <<>>
        /\ actions' = <<>>
        /\ stage' = "acting"
        /\ save' = Unshared
        /\ UNCHANGED time
  /\ UNCHANGED <<jobs, half, start, historyVars>>

(* Mutants of DoLogicUpdates: it takes one step too many; it looks for     *)
(* actions before it takes them over; what it takes over comes first.      *)
LogicUpdatesBeyond == LogicUpdatesOf(Slurped, time <= Target /\ Slurped # <<>>)
LogicUpdatesOfOld == LogicUpdatesOf(Slurped, time < Target /\ actions # <<>>)
LogicUpdatesOfNewFirst ==
  LogicUpdatesOf(enqueued \o actions, time < Target /\ Slurped # <<>>)

DoLogicUpdates == LogicUpdatesOf(Slurped, time < Target /\ Slurped # <<>>)

(* doAction: whatever it waits for, it is done before the next one starts. *)
(* It may enqueue an action.                                               *)
HandleActionInto(enqueuing) ==
  /\ stage = "acting"
  /\ todo # <<>>
  /\ todo' = Tail(todo)
  /\ fresh' \in {fresh, Append(fresh, enqueuing)}
  /\ handled' = IF Head(todo) = Echo THEN handled ELSE Append(handled, Head(todo))
  /\ UNCHANGED <<enqueued, chainVars, stateVars, save, asked, issued, begun, updates>>

HandleAction == HandleActionInto(Echo)

StepTaking(duration) ==
  /\ stage = "acting"
  /\ todo = <<>>
  /\ time' = time + duration
  /\ actions' = fresh
  /\ fresh' = <<>>
  /\ stage' = "deciding"
  /\ UNCHANGED <<enqueued, jobs, half, start, todo, save, historyVars>>

(* Mutant of StepDone: the step takes no time. *)
StepInNoTime == StepTaking(0)

StepDone == StepTaking(1)

-----------------------------------------------------------------------------
(* Physics and vision *)

(* Both push what they enqueue into the very array of the state they start *)
(* from.                                                                   *)
PushInPlace ==
  \/ UNCHANGED <<actions, save>>
  \/ /\ actions' = Append(actions, Echo)
     /\ save' = IF save.shares THEN [save EXCEPT !.actions = Append(@, Echo)] ELSE save

Physics ==
  /\ stage = "physics"
  /\ PushInPlace
  /\ stage' = "vision"
  /\ UNCHANGED <<enqueued, jobs, half, start, time, stepVars, historyVars>>

Vision ==
  /\ stage = "vision"
  /\ PushInPlace
  /\ stage' = "deciding"
  /\ half' = 2
  /\ UNCHANGED <<enqueued, jobs, start, time, stepVars, historyVars>>

(* doInterStateUpdates ends the update. *)
EndUpdate ==
  /\ stage = "inter"
  /\ stage' = "between"
  /\ jobs' = Tail(jobs)
  /\ updates' = updates + 1
  /\ UNCHANGED <<enqueued, half, start, stateVars, stepVars, save, asked, issued, begun,
                 handled>>

-----------------------------------------------------------------------------
(* The other jobs *)

OneOffUpdate ==
  /\ stage = "between"
  /\ jobs # <<>> /\ Head(jobs) = "oneOff"
  /\ jobs' = Tail(jobs)
  /\ UNCHANGED <<enqueued, stage, half, start, stateVars, stepVars, save, historyVars>>

(* flushUpdates has the data saved as it is now, keeping the state for the *)
(* answer.  One save is made at a time: saveGame2 disables its button.     *)
Flush ==
  /\ stage = "between"
  /\ jobs # <<>> /\ Head(jobs) = "flush"
  /\ save.state # "open"
  /\ jobs' = Tail(jobs)
  /\ save' = [state |-> "open", time |-> time, handled |-> Len(handled),
              taken |-> issued - Len(enqueued), actions |-> actions, shares |-> TRUE]
  /\ UNCHANGED <<enqueued, stage, half, start, stateVars, stepVars, historyVars>>

(* The data is stored: the state that goes with it is put together. *)
SaveWith(a) ==
  /\ save.state = "open"
  /\ save' = [Unshared EXCEPT !.state = "done", !.actions = a]
  /\ UNCHANGED <<enqueued, chainVars, stateVars, stepVars, historyVars>>

(* Mutants of SaveAnswered: the state is the one of that moment; the       *)
(* actions are left out of it.                                             *)
SaveLatest == SaveWith(actions)
SaveWithout == SaveWith(<<>>)

SaveAnswered == SaveWith(save.actions)

-----------------------------------------------------------------------------
(* Failures *)

(* An action throws (an entity that it addresses is not to be found, say), *)
(* a room cannot be loaded, or an inter-state update throws: the promise   *)
(* is rejected, and the state is gone with it.                             *)
Reject ==
  /\ \/ stage = "acting" /\ todo # <<>>
     \/ stage \in {"physics", "vision", "inter"}
     \/ stage = "between" /\ jobs # <<>> /\ Head(jobs) = "oneOff"
  /\ stage' = "rejected"
  /\ jobs' = Tail(jobs)
  /\ actions' = <<>>
  /\ todo' = <<>>
  /\ fresh' = <<>>
  /\ UNCHANGED <<enqueued, half, start, time, save, historyVars>>

(* Whatever is on the chain, or put there later, is rejected in turn. *)
RejectJob ==
  /\ stage = "rejected"
  /\ jobs # <<>>
  /\ jobs' = Tail(jobs)
  /\ UNCHANGED <<enqueued, stage, half, start, stateVars, stepVars, save, historyVars>>

-----------------------------------------------------------------------------
ChainStep ==
  \/ BeginUpdate \/ DoLogicUpdates \/ HandleAction \/ StepDone
  \/ Physics \/ Vision \/ EndUpdate
  \/ OneOffUpdate \/ Flush
  \/ Reject \/ RejectJob

Next ==
  \/ EnqueueAction
  \/ \E j \in Jobs : Ask(j)
  \/ ChainStep
  \/ SaveAnswered

(* The event loop runs the callbacks, and rooms get loaded or do not. *)
Fairness == WF_vars(ChainStep) /\ WF_vars(SaveAnswered)

Spec == Init /\ [][Next]_vars

FairSpec == Spec /\ Fairness

-----------------------------------------------------------------------------
Save == [state: {"none", "open", "done"}, time: Nat, handled: Nat, taken: Nat,
         actions: Seq(Action), shares: BOOLEAN]

(* Types; and the job being done is still on the chain. *)
TypeOK ==
  /\ enqueued \in Seq(External)
  /\ jobs \in Seq(Jobs)
  /\ stage \notin {"between", "rejected"} => jobs # <<>>
  /\ stage \in Stages
  /\ half \in {1, 2}
  /\ start \in Nat
  /\ time \in Nat
  /\ actions \in Seq(Action)
  /\ todo \in Seq(Action)
  /\ fresh \in Seq({Echo})
  /\ save \in Save
  /\ asked \in 0 .. MaxJobs
  /\ issued \in 0 .. MaxEnqueued
  /\ begun \in 0 .. issued
  /\ handled \in Seq(External)
  /\ updates \in Nat

(* The actions from outside in s are those after the first lo, up to the   *)
(* hi-th, in their order.                                                  *)
Enumerates(s, lo, hi) ==
  /\ \A n \in lo + 1 .. hi : \E i \in DOMAIN s : s[i] = n
  /\ \A i \in DOMAIN s : s[i] # Echo => s[i] \in lo + 1 .. hi
  /\ \A i, j \in DOMAIN s : i < j /\ s[i] # Echo /\ s[j] # Echo => s[i] < s[j]

(* Through all the arrays that an action is passed on in, none is lost,    *)
(* handled twice, or handled before one that was enqueued earlier.         *)
ActionsKept ==
  /\ \A i \in DOMAIN handled : handled[i] = i
  /\ stage # "rejected" => Enumerates(todo \o actions \o enqueued, Len(handled), issued)

(* "At the beginning of a major step they should match!" (update): the     *)
(* logic updates never go beyond the time of their half, so every major    *)
(* step begins at a multiple of its duration, and physics happens halfway. *)
TimesMatch ==
  /\ stage = "between" => time = updates * 2 * HalfSteps
  /\ stage \in {"physics", "vision"} => time = start + HalfSteps

(* What was enqueued before an update began has been handled when its      *)
(* physics are computed, however many actions others give rise to.         *)
ActionsAreTimely == stage = "physics" => Len(handled) >= begun

(* A saved state and the data saved with it fit: of the actions that the   *)
(* simulator had taken over when the save began, those that the data has   *)
(* not seen, and no others, are in the state, once and in their order; and *)
(* it stays so while updates go on and push into the array it shares.      *)
SaveIsComplete ==
  save.state # "none" => Enumerates(save.actions, save.handled, save.taken)

(* Every promise settles, even if actions keep giving rise to actions. *)
JobsSettle == \A n \in 1 .. MaxJobs : asked >= n ~> asked - Len(jobs) >= n
=============================================================================
