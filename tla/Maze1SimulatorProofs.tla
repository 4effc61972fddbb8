------------------------- MODULE Maze1SimulatorProofs -------------------------
(***************************************************************************)
(* The simulation chain, for any number of actions and jobs and any length *)
(* of a major step: the actions from outside are handled once, in order    *)
(* and in time, major steps begin at multiples of their duration, and a    *)
(* saved state fits the data that was saved with it.                       *)
(***************************************************************************)
EXTENDS Maze1Simulator, SequenceTheorems, TLAPS

-----------------------------------------------------------------------------
(* Enumerations: what becomes of one when the array changes                *)

(* Physics and vision append an action of their own. *)
LEMMA EnumeratesEcho ==
  ASSUME NEW s \in Seq(Action), NEW lo \in Nat, NEW hi \in Nat, Enumerates(s, lo, hi)
  PROVE  Enumerates(Append(s, Echo), lo, hi)
<1> DEFINE t == Append(s, Echo)
<1>1. /\ Len(t) = Len(s) + 1 /\ DOMAIN t = 1 .. Len(s) + 1 /\ DOMAIN s = 1 .. Len(s)
      /\ \A i \in 1 .. Len(s) : t[i] = s[i]
      /\ t[Len(s) + 1] = Echo /\ Len(s) \in Nat
  BY DEF Action, Echo
<1> HIDE DEF t
<1>2. \A n \in lo + 1 .. hi : \E i \in DOMAIN t : t[i] = n
  BY <1>1 DEF Enumerates
<1>3. \A i \in DOMAIN t : t[i] # Echo => t[i] \in lo + 1 .. hi
  BY <1>1 DEF Enumerates
<1>4. \A i, j \in DOMAIN t : i < j /\ t[i] # Echo /\ t[j] # Echo => t[i] < t[j]
  BY <1>1 DEF Enumerates
<1> QED
  BY <1>2, <1>3, <1>4 DEF Enumerates, t

(* Actions of the simulation's own enumerate nothing. *)
LEMMA EnumeratesNothing ==
  ASSUME NEW s \in Seq({Echo}), NEW lo \in Nat
  PROVE  Enumerates(s, lo, lo)
BY DEF Enumerates, Echo

(* An empty array enumerates nothing. *)
LEMMA NothingEnumerated ==
  ASSUME NEW lo \in Nat, NEW hi \in Nat, lo <= hi, Enumerates(<<>>, lo, hi)
  PROVE  lo = hi
BY DEF Enumerates

(* doLogicUpdates takes over what has been enqueued since. *)
LEMMA EnumeratesMore ==
  ASSUME NEW s \in Seq(Action), NEW t \in Seq(External), NEW lo \in Nat, NEW hi \in Nat,
         Len(t) <= hi, lo <= hi - Len(t),
         \A i \in DOMAIN t : t[i] = hi - Len(t) + i,
         Enumerates(s, lo, hi - Len(t))
  PROVE  Enumerates(s \o t, lo, hi)
<1> DEFINE u == s \o t
           m == hi - Len(t)
<1>1. /\ Len(s) \in Nat /\ Len(t) \in Nat
      /\ DOMAIN s = 1 .. Len(s) /\ DOMAIN t = 1 .. Len(t)
      /\ DOMAIN u = 1 .. Len(s) + Len(t)
      /\ \A i \in 1 .. Len(s) : u[i] = s[i]
      /\ \A i \in 1 .. Len(t) : u[Len(s) + i] = t[i]
  <2>1. s \in Seq(Action \cup External) /\ t \in Seq(Action \cup External)
    BY DEF Action
  <2> QED
    BY <2>1, ConcatProperties
<1>2. m \in Nat /\ lo <= m /\ hi = m + Len(t)
  BY <1>1
<1>3. \A i \in Len(s) + 1 .. Len(s) + Len(t) : u[i] = m + (i - Len(s))
  <2> SUFFICES ASSUME NEW i \in Len(s) + 1 .. Len(s) + Len(t)
               PROVE  u[i] = m + (i - Len(s))
    OBVIOUS
  <2>1. i - Len(s) \in 1 .. Len(t) /\ Len(s) + (i - Len(s)) = i
    BY <1>1
  <2>2. u[Len(s) + (i - Len(s))] = t[i - Len(s)]
    BY <1>1, <2>1
  <2>3. t[i - Len(s)] = m + (i - Len(s))
    BY <1>1, <2>1
  <2> QED
    BY <2>1, <2>2, <2>3
<1>4. \A i \in 1 .. Len(s) : s[i] # Echo => s[i] \in lo + 1 .. m
  BY <1>1 DEF Enumerates
<1>5. \A n \in lo + 1 .. m : \E i \in 1 .. Len(s) : s[i] = n
  BY <1>1 DEF Enumerates
<1>6. \A i, j \in 1 .. Len(s) : i < j /\ s[i] # Echo /\ s[j] # Echo => s[i] < s[j]
  BY <1>1 DEF Enumerates
<1> HIDE DEF u, m
<1>7. \A n \in lo + 1 .. hi : \E i \in DOMAIN u : u[i] = n
  <2> SUFFICES ASSUME NEW n \in lo + 1 .. hi
               PROVE  \E i \in DOMAIN u : u[i] = n
    OBVIOUS
  <2>1. CASE n <= m
    <3>1. n \in lo + 1 .. m
      BY <1>2, <2>1
    <3>2. PICK i \in 1 .. Len(s) : s[i] = n
      BY <1>5, <3>1
    <3>3. i \in DOMAIN u /\ u[i] = n
      BY <1>1, <3>2
    <3> QED
      BY <3>3
  <2>2. CASE n > m
    <3> DEFINE i == Len(s) + (n - m)
    <3>1. i \in Int /\ n \in Int /\ i = Len(s) + (n - m)
      BY <1>1, <1>2
    <3> HIDE DEF i
    <3>2. i \in Len(s) + 1 .. Len(s) + Len(t) /\ m + (i - Len(s)) = n
      BY <1>1, <1>2, <2>2, <3>1
    <3>3. u[i] = n /\ i \in DOMAIN u
      BY <1>1, <1>3, <3>2
    <3> QED
      BY <3>3
  <2> QED
    BY <1>2, <2>1, <2>2
<1>8. \A i \in DOMAIN u : u[i] # Echo => u[i] \in lo + 1 .. hi
  BY <1>1, <1>2, <1>3, <1>4, SMTT(30)
<1>9. \A i, j \in DOMAIN u : i < j /\ u[i] # Echo /\ u[j] # Echo => u[i] < u[j]
  <2> SUFFICES ASSUME NEW i \in DOMAIN u, NEW j \in DOMAIN u,
                      i < j, u[i] # Echo, u[j] # Echo
               PROVE  u[i] < u[j]
    OBVIOUS
  <2>1. CASE j <= Len(s)
    <3>1. i \in 1 .. Len(s) /\ j \in 1 .. Len(s)
      BY <1>1, <2>1
    <3>2. s[i] = u[i] /\ s[j] = u[j]
      BY <1>1, <3>1
    <3> QED
      BY <1>6, <3>1, <3>2
  <2>2. CASE i <= Len(s) /\ j > Len(s)
    <3>1. i \in 1 .. Len(s) /\ j \in Len(s) + 1 .. Len(s) + Len(t)
      BY <1>1, <2>2
    <3>2. u[i] \in lo + 1 .. m
      BY <1>1, <1>4, <3>1
    <3>3. u[j] = m + (j - Len(s))
      BY <1>3, <3>1
    <3> QED
      BY <1>1, <1>2, <3>1, <3>2, <3>3
  <2>3. CASE i > Len(s)
    <3>1. i \in Len(s) + 1 .. Len(s) + Len(t) /\ j \in Len(s) + 1 .. Len(s) + Len(t)
      BY <1>1, <2>3
    <3>2. u[i] = m + (i - Len(s)) /\ u[j] = m + (j - Len(s))
      BY <1>3, <3>1
    <3> QED
      BY <1>1, <1>2, <3>1, <3>2
  <2> QED
    BY <1>1, <2>1, <2>2, <2>3
<1> QED
  BY <1>7, <1>8, <1>9 DEF Enumerates, u

(* The first action has been handled: one of the simulation's own ... *)
LEMMA EnumeratesTailEcho ==
  ASSUME NEW s \in Seq(Action), s # <<>>, NEW lo \in Nat, NEW hi \in Nat,
         Enumerates(s, lo, hi), Head(s) = Echo
  PROVE  Enumerates(Tail(s), lo, hi)
<1> DEFINE t == Tail(s)
<1>1. /\ Len(s) \in Nat \ {0} /\ DOMAIN s = 1 .. Len(s) /\ DOMAIN t = 1 .. Len(s) - 1
      /\ \A i \in 1 .. Len(s) - 1 : t[i] = s[i + 1]
      /\ s[1] = Echo
  BY HeadTailProperties, EmptySeq
<1> HIDE DEF t
<1>2. \A n \in lo + 1 .. hi : \E i \in DOMAIN t : t[i] = n
  <2> SUFFICES ASSUME NEW n \in lo + 1 .. hi
               PROVE  \E i \in DOMAIN t : t[i] = n
    OBVIOUS
  <2>1. PICK i \in 1 .. Len(s) : s[i] = n
    BY <1>1 DEF Enumerates
  <2>2. i # 1
    BY <1>1, <2>1 DEF Echo
  <2>3. i - 1 \in DOMAIN t /\ t[i - 1] = n
    BY <1>1, <2>1, <2>2
  <2> QED
    BY <2>3
<1>3. \A i \in DOMAIN t : t[i] # Echo => t[i] \in lo + 1 .. hi
  BY <1>1 DEF Enumerates
<1>4. ASSUME NEW i \in DOMAIN t, NEW j \in DOMAIN t, i < j, t[i] # Echo, t[j] # Echo
      PROVE  t[i] < t[j]
  <2>1. /\ i + 1 \in 1 .. Len(s) /\ j + 1 \in 1 .. Len(s) /\ i + 1 < j + 1
        /\ t[i] = s[i + 1] /\ t[j] = s[j + 1]
    BY <1>1, <1>4
  <2> QED
    BY <1>1, <1>4, <2>1 DEF Enumerates
<1> QED
  BY <1>2, <1>3, <1>4 DEF Enumerates, t

(* ... or one from outside, which is the next in the order. *)
LEMMA EnumeratesTailNext ==
  ASSUME NEW s \in Seq(Action), s # <<>>, NEW lo \in Nat, NEW hi \in Nat,
         Enumerates(s, lo, hi), Head(s) # Echo
  PROVE  /\ Head(s) = lo + 1 /\ lo + 1 <= hi
         /\ Enumerates(Tail(s), lo + 1, hi)
<1> DEFINE t == Tail(s)
<1>1. /\ Len(s) \in Nat \ {0} /\ DOMAIN s = 1 .. Len(s) /\ DOMAIN t = 1 .. Len(s) - 1
      /\ \A i \in 1 .. Len(s) - 1 : t[i] = s[i + 1]
      /\ s[1] = Head(s)
      /\ \A i \in 1 .. Len(s) : s[i] \in Nat
  BY HeadTailProperties, EmptySeq DEF Action, External, Echo
<1> HIDE DEF t
<1>2. s[1] \in lo + 1 .. hi
  BY <1>1 DEF Enumerates
<1>3. PICK i \in 1 .. Len(s) : s[i] = lo + 1
  BY <1>1, <1>2 DEF Enumerates
<1>4. i = 1
  <2>1. 1 \in DOMAIN s /\ i \in DOMAIN s /\ s[1] # Echo /\ s[i] # Echo
    BY <1>1, <1>3 DEF Echo
  <2>2. 1 < i => s[1] < s[i]
    BY <2>1 DEF Enumerates
  <2>3. s[1] \in Nat /\ s[1] >= lo + 1
    BY <1>2
  <2> QED
    BY <1>3, <2>2, <2>3
<1>5. \A n \in lo + 2 .. hi : \E k \in DOMAIN t : t[k] = n
  <2> SUFFICES ASSUME NEW n \in lo + 2 .. hi
               PROVE  \E k \in DOMAIN t : t[k] = n
    OBVIOUS
  <2>1. PICK k \in 1 .. Len(s) : s[k] = n
    BY <1>1 DEF Enumerates
  <2>2. k # 1
    BY <1>3, <1>4, <2>1
  <2>3. k - 1 \in DOMAIN t /\ t[k - 1] = n
    BY <1>1, <2>1, <2>2
  <2> QED
    BY <2>3
<1>6. \A k \in DOMAIN t : t[k] # Echo => t[k] \in lo + 2 .. hi
  <2> SUFFICES ASSUME NEW k \in DOMAIN t, t[k] # Echo
               PROVE  t[k] \in lo + 2 .. hi
    OBVIOUS
  <2>1. k + 1 \in 1 .. Len(s) /\ t[k] = s[k + 1] /\ 1 < k + 1 /\ 1 \in 1 .. Len(s)
    BY <1>1
  <2>2. s[1] < s[k + 1] /\ s[k + 1] \in lo + 1 .. hi
    BY <1>1, <2>1 DEF Enumerates
  <2> QED
    BY <1>1, <1>3, <1>4, <2>1, <2>2
<1>7. ASSUME NEW k \in DOMAIN t, NEW j \in DOMAIN t, k < j, t[k] # Echo, t[j] # Echo
      PROVE  t[k] < t[j]
  <2>1. /\ k + 1 \in 1 .. Len(s) /\ j + 1 \in 1 .. Len(s) /\ k + 1 < j + 1
        /\ t[k] = s[k + 1] /\ t[j] = s[j + 1]
    BY <1>1, <1>7
  <2> QED
    BY <1>1, <1>7, <2>1 DEF Enumerates
<1>8. lo + 1 \in Nat /\ lo + 2 = (lo + 1) + 1 /\ lo + 1 <= hi
  BY <1>2
<1>9. Enumerates(t, lo + 1, hi)
  BY <1>5, <1>6, <1>7, <1>8 DEF Enumerates
<1> QED
  BY <1>1, <1>3, <1>4, <1>8, <1>9 DEF t

-----------------------------------------------------------------------------
(* Types                                                                   *)

(* What the actions make of a save has the type of a save. *)
LEMMA SaveTypes ==
  ASSUME save \in Save, NEW a \in Seq(Action)
  PROVE  /\ Unshared \in Save
         /\ Unshared.state = save.state /\ Unshared.actions = save.actions
         /\ Unshared.handled = save.handled /\ Unshared.taken = save.taken
         /\ [Unshared EXCEPT !.state = "done", !.actions = a] \in Save
         /\ [save EXCEPT !.actions = Append(@, Echo)] \in Save
<1>1. Append(save.actions, Echo) \in Seq(Action)
  BY DEF Save, Action
<1> QED
  BY <1>1 DEF Save, Unshared

(* What the simulation itself enqueues may be among any actions. *)
LEMMA EchoesAreActions ==
  ASSUME NEW s \in Seq({Echo})
  PROVE  s \in Seq(Action)
BY DEF Action

LEMMA TypeInit == Init => TypeOK
<1>1. NoSave \in Save
  BY DEF NoSave, Save
<1> QED
  BY <1>1, StepAssumption DEF Init, TypeOK, Stages

LEMMA TypeStep == TypeOK /\ Len(enqueued) <= issued /\ [Next]_vars => TypeOK'
<1> SUFFICES ASSUME TypeOK, Len(enqueued) <= issued, [Next]_vars
             PROVE  TypeOK'
  OBVIOUS
<1> USE StepAssumption
<1> USE DEF chainVars, stateVars, stepVars, historyVars
<1>1. CASE EnqueueAction
  <2>1. issued + 1 \in 1 .. MaxEnqueued /\ issued + 1 \in External
    BY <1>1 DEF EnqueueAction, TypeOK, External
  <2>2. Append(enqueued, issued + 1) \in Seq(External) /\ begun \in 0 .. issued + 1
    BY <2>1 DEF TypeOK
  <2> QED
    BY <1>1, <2>1, <2>2 DEF EnqueueAction, TypeOK
<1>2. ASSUME NEW j \in Jobs, Ask(j)
      PROVE  TypeOK'
  BY <1>2, SMTT(30) DEF Ask, TypeOK
<1>3. CASE BeginUpdate
  BY <1>3 DEF BeginUpdate, TypeOK, Stages
<1>4. CASE DoLogicUpdates
  <2>1. /\ Slurped \in Seq(Action) /\ <<>> \in Seq(External)
        /\ <<>> \in Seq(Action) /\ <<>> \in Seq({Echo})
    BY DEF TypeOK, Slurped, Action
  <2>2. Target \in Nat
    BY DEF TypeOK, Target
  <2>3. save' \in Save
    BY <1>4, SaveTypes, <2>1 DEF DoLogicUpdates, LogicUpdatesOf, TypeOK
  <2>4. actions' \in Seq(Action) /\ todo' \in Seq(Action) /\ fresh' \in Seq({Echo})
    BY <1>4, <2>1 DEF DoLogicUpdates, LogicUpdatesOf, TypeOK
  <2>5. time' \in Nat /\ stage' \in Stages
    BY <1>4, <2>2 DEF DoLogicUpdates, LogicUpdatesOf, TypeOK, Stages
  <2> QED
    BY <1>4, <2>1, <2>3, <2>4, <2>5 DEF DoLogicUpdates, LogicUpdatesOf, TypeOK
<1>5. CASE HandleAction
  <2>1. Head(todo) \in Action /\ Tail(todo) \in Seq(Action)
    BY <1>5 DEF HandleAction, HandleActionInto, TypeOK
  <2>2. handled' \in Seq(External)
    BY <1>5, <2>1 DEF HandleAction, HandleActionInto, TypeOK, Action
  <2>3. fresh' \in Seq({Echo})
    <3>1. fresh \in Seq({Echo}) /\ Append(fresh, Echo) \in Seq({Echo})
      BY DEF TypeOK
    <3> QED
      BY <1>5, <3>1 DEF HandleAction, HandleActionInto, TypeOK
  <2> QED
    BY <1>5, <2>1, <2>2, <2>3 DEF HandleAction, HandleActionInto, TypeOK
<1>6. CASE StepDone
  <2>1. fresh \in Seq(Action) /\ <<>> \in Seq({Echo}) /\ time + 1 \in Nat
    BY EchoesAreActions DEF TypeOK
  <2> QED
    BY <1>6, <2>1 DEF StepDone, StepTaking, TypeOK, Stages
<1>7. CASE Physics \/ Vision
  <2>1. Append(actions, Echo) \in Seq(Action)
    BY DEF TypeOK, Action
  <2>2. actions' \in Seq(Action) /\ save' \in Save
    BY <1>7, <2>1, SaveTypes DEF Physics, Vision, PushInPlace, TypeOK
  <2> QED
    BY <1>7, <2>2 DEF Physics, Vision, TypeOK, Stages
<1>8. CASE EndUpdate
  <2>1. jobs # <<>> /\ Tail(jobs) \in Seq(Jobs)
    BY <1>8 DEF EndUpdate, TypeOK
  <2> QED
    BY <1>8, <2>1 DEF EndUpdate, TypeOK, Stages
<1>9. CASE OneOffUpdate
  BY <1>9 DEF OneOffUpdate, TypeOK
<1>10. CASE Flush
  <2>1. save' \in Save
    <3>1. issued - Len(enqueued) \in Nat
      BY DEF TypeOK
    <3> QED
      BY <1>10, <3>1 DEF Flush, TypeOK, Save
  <2> QED
    BY <1>10, <2>1 DEF Flush, TypeOK
<1>11. CASE Reject
  <2>1. jobs # <<>> /\ Tail(jobs) \in Seq(Jobs)
    BY <1>11 DEF Reject, TypeOK
  <2> QED
    BY <1>11, <2>1 DEF Reject, TypeOK, Stages
<1>12. CASE RejectJob
  BY <1>12 DEF RejectJob, TypeOK
<1>13. CASE SaveAnswered
  <2>1. save.actions \in Seq(Action)
    BY DEF TypeOK, Save
  <2>2. save' \in Save
    BY <1>13, <2>1, SaveTypes DEF SaveAnswered, SaveWith, TypeOK
  <2> QED
    BY <1>13, <2>2 DEF SaveAnswered, SaveWith, TypeOK
<1>14. CASE UNCHANGED vars
  BY <1>14 DEF vars, TypeOK
<1> QED
  BY <1>1, <1>2, <1>3, <1>4, <1>5, <1>6, <1>7, <1>8, <1>9, <1>10, <1>11, <1>12, <1>13, <1>14
  DEF Next, ChainStep

-----------------------------------------------------------------------------
(* The inductive invariant                                                 *)

(* The array with the actions that the simulator has taken over *)
Taken == IF stage = "acting" THEN todo ELSE actions

(* The number of them that it has taken over or handled *)
TakenCount == issued - Len(enqueued)

(* What has not been taken over are the latest actions; what has been, and *)
(* not been handled, are those before.                                     *)
OrderInv ==
  /\ \A i \in DOMAIN handled : handled[i] = i
  /\ \A i \in DOMAIN enqueued : enqueued[i] = TakenCount + i
  /\ Len(enqueued) <= issued
  /\ stage # "acting" => todo = <<>>
  /\ stage = "acting" => actions = <<>>
  /\ stage # "rejected" => /\ Len(handled) <= TakenCount
                           /\ Enumerates(Taken, Len(handled), TakenCount)

(* An update begins at a multiple of its duration, and its logic updates   *)
(* stay within their halves.                                               *)
TimeInv ==
  /\ stage = "between" => time = updates * (2 * HalfSteps)
  /\ stage \notin {"between", "rejected"} => start = updates * (2 * HalfSteps)
  /\ stage \in {"deciding", "acting"} /\ half = 1 => start <= time /\ time <= start + HalfSteps
  /\ stage \in {"deciding", "acting"} /\ half = 2 =>
       start + HalfSteps <= time /\ time <= start + 2 * HalfSteps
  /\ stage = "acting" => time < Target
  /\ stage \in {"physics", "vision"} => half = 1 /\ time = start + HalfSteps
  /\ stage = "inter" => half = 2 /\ time = start + 2 * HalfSteps

(* The first logic update of an update takes over all that there is.       *)
TimelyInv ==
  /\ stage = "physics" => begun <= Len(handled)
  /\ stage = "deciding" /\ half = 1 => time = start \/ begun <= Len(handled)
  /\ stage = "acting" /\ half = 1 => begun <= TakenCount

IInv == TypeOK /\ OrderInv /\ TimeInv /\ TimelyInv /\ SaveIsComplete

LEMMA OrderStep == TypeOK /\ OrderInv /\ [Next]_vars => OrderInv'
<1> SUFFICES ASSUME TypeOK, OrderInv, [Next]_vars
             PROVE  OrderInv'
  OBVIOUS
<1> USE StepAssumption
<1> USE DEF chainVars, stateVars, stepVars, historyVars
<1>0. /\ issued \in Nat /\ Len(enqueued) \in Nat /\ Len(handled) \in Nat
      /\ TakenCount \in Nat /\ Taken \in Seq(Action)
      /\ enqueued \in Seq(External) /\ handled \in Seq(External)
      /\ DOMAIN enqueued = 1 .. Len(enqueued) /\ DOMAIN handled = 1 .. Len(handled)
  BY DEF TypeOK, OrderInv, TakenCount, Taken
<1>1. CASE EnqueueAction
  <2> DEFINE q == Append(enqueued, issued + 1)
  <2>1. Len(q) = Len(enqueued) + 1 /\ DOMAIN q = 1 .. Len(enqueued) + 1
    BY <1>0
  <2>2. TakenCount' = TakenCount
    BY <1>0, <1>1, <2>1 DEF EnqueueAction, TakenCount
  <2>3. \A i \in DOMAIN q : q[i] = TakenCount + i
    <3> SUFFICES ASSUME NEW i \in DOMAIN q
                 PROVE  q[i] = TakenCount + i
      OBVIOUS
    <3>1. CASE i <= Len(enqueued)
      BY <1>0, <2>1, <3>1 DEF OrderInv
    <3>2. CASE i = Len(enqueued) + 1
      BY <1>0, <2>1, <3>2 DEF TakenCount
    <3> QED
      BY <1>0, <2>1, <3>1, <3>2
  <2> QED
    BY <1>0, <1>1, <2>1, <2>2, <2>3 DEF EnqueueAction, OrderInv, Taken
<1>2. ASSUME NEW j \in Jobs, Ask(j)
      PROVE  OrderInv'
  BY <1>2 DEF Ask, OrderInv, Taken, TakenCount
<1>3. CASE BeginUpdate
  BY <1>3 DEF BeginUpdate, OrderInv, Taken, TakenCount
<1>4. CASE DoLogicUpdates
  <2>1. stage = "deciding" /\ todo = <<>> /\ Taken = actions
    BY <1>4 DEF DoLogicUpdates, LogicUpdatesOf, OrderInv, Taken
  <2>2. Enumerates(Slurped, Len(handled), issued)
    <3>1. issued - Len(enqueued) = TakenCount
      BY DEF TakenCount
    <3> QED
      BY <1>0, <2>1, <3>1, EnumeratesMore DEF OrderInv, Slurped
  <2>3. enqueued' = <<>> /\ issued' = issued /\ handled' = handled
    BY <1>4 DEF DoLogicUpdates, LogicUpdatesOf
  <2>4. TakenCount' = issued
    BY <1>0, <2>3 DEF TakenCount
  <2>5. Taken' = Slurped
    BY <1>4 DEF DoLogicUpdates, LogicUpdatesOf, Taken
  <2>6. /\ stage' # "acting" => todo' = <<>>
        /\ stage' = "acting" => actions' = <<>>
    BY <1>4, <2>1 DEF DoLogicUpdates, LogicUpdatesOf
  <2>7. Len(handled) <= issued
    BY <1>0, <2>1 DEF OrderInv, TakenCount
  <2>8. DOMAIN enqueued' = {} /\ Len(enqueued') = 0
    BY <2>3
  <2> QED
    BY <1>0, <2>2, <2>3, <2>4, <2>5, <2>6, <2>7, <2>8 DEF OrderInv
<1>5. CASE HandleAction
  <2>1. stage = "acting" /\ stage' = "acting" /\ todo # <<>> /\ todo' = Tail(todo)
        /\ enqueued' = enqueued /\ issued' = issued /\ actions' = actions
        /\ handled' = IF Head(todo) = Echo THEN handled ELSE Append(handled, Head(todo))
    BY <1>5 DEF HandleAction, HandleActionInto
  <2>2. Taken = todo /\ Taken' = Tail(todo) /\ TakenCount' = TakenCount
    BY <2>1 DEF Taken, TakenCount
  <2>3. Enumerates(todo, Len(handled), TakenCount) /\ todo \in Seq(Action)
    BY <2>1, <2>2 DEF OrderInv, TypeOK
  <2>4. CASE Head(todo) = Echo
    BY <1>0, <2>1, <2>2, <2>3, <2>4, EnumeratesTailEcho DEF OrderInv
  <2>5. CASE Head(todo) # Echo
    <3>1. /\ Head(todo) = Len(handled) + 1 /\ Len(handled) + 1 <= TakenCount
          /\ Enumerates(Tail(todo), Len(handled) + 1, TakenCount)
      BY <1>0, <2>1, <2>3, <2>5, EnumeratesTailNext
    <3> DEFINE h == Append(handled, Len(handled) + 1)
    <3>2. handled' = h /\ Len(h) = Len(handled) + 1 /\ DOMAIN h = 1 .. Len(handled) + 1
      BY <1>0, <2>1, <2>5, <3>1
    <3>3. \A i \in DOMAIN h : h[i] = i
      BY <1>0, <3>2 DEF OrderInv
    <3> QED
      BY <1>0, <2>1, <2>2, <3>1, <3>2, <3>3 DEF OrderInv
  <2> QED
    BY <2>4, <2>5
<1>6. CASE StepDone
  <2>1. /\ stage = "acting" /\ stage' = "deciding" /\ todo = <<>> /\ todo' = <<>>
        /\ actions' = fresh /\ enqueued' = enqueued /\ issued' = issued /\ handled' = handled
    BY <1>6 DEF StepDone, StepTaking
  <2>2. Enumerates(<<>>, Len(handled), TakenCount) /\ Len(handled) <= TakenCount
    BY <2>1 DEF OrderInv, Taken
  <2>3. Len(handled) = TakenCount
    BY <1>0, <2>2, NothingEnumerated
  <2>4. Enumerates(fresh, Len(handled), TakenCount)
    BY <1>0, <2>3, EnumeratesNothing DEF TypeOK
  <2>5. Taken' = fresh /\ TakenCount' = TakenCount
    BY <2>1 DEF Taken, TakenCount
  <2> QED
    BY <2>1, <2>2, <2>4, <2>5 DEF OrderInv
<1>7. CASE Physics \/ Vision
  <2>1. /\ stage \notin {"acting", "rejected"} /\ stage' \notin {"acting", "rejected"}
        /\ UNCHANGED <<todo, enqueued, issued, handled>>
        /\ actions' = actions \/ actions' = Append(actions, Echo)
    BY <1>7 DEF Physics, Vision, PushInPlace
  <2>2. Enumerates(Append(actions, Echo), Len(handled), TakenCount)
    BY <1>0, <2>1, EnumeratesEcho DEF OrderInv, Taken
  <2>3. Enumerates(actions', Len(handled), TakenCount)
    BY <2>1, <2>2 DEF OrderInv, Taken
  <2>4. Taken' = actions' /\ TakenCount' = TakenCount
    BY <2>1 DEF Taken, TakenCount
  <2> QED
    BY <2>1, <2>3, <2>4 DEF OrderInv
<1>8. CASE EndUpdate
  BY <1>8 DEF EndUpdate, OrderInv, Taken, TakenCount
<1>9. CASE OneOffUpdate
  BY <1>9 DEF OneOffUpdate, OrderInv, Taken, TakenCount
<1>10. CASE Flush
  BY <1>10 DEF Flush, OrderInv, Taken, TakenCount
<1>11. CASE Reject
  BY <1>11 DEF Reject, OrderInv, TakenCount
<1>12. CASE RejectJob
  BY <1>12 DEF RejectJob, OrderInv, TakenCount
<1>13. CASE SaveAnswered
  BY <1>13 DEF SaveAnswered, SaveWith, OrderInv, Taken, TakenCount
<1>14. CASE UNCHANGED vars
  BY <1>14 DEF vars, OrderInv, Taken, TakenCount
<1> QED
  BY <1>1, <1>2, <1>3, <1>4, <1>5, <1>6, <1>7, <1>8, <1>9, <1>10, <1>11, <1>12, <1>13, <1>14
  DEF Next, ChainStep

LEMMA TargetOfHalf ==
  ASSUME half \in {1, 2}, start \in Nat
  PROVE  /\ half = 1 => Target = start + HalfSteps
         /\ half = 2 => Target = start + 2 * HalfSteps
         /\ Target \in Nat
<1>1. HalfSteps \in Nat
  BY StepAssumption
<1>2. 1 * HalfSteps = HalfSteps /\ 2 * HalfSteps \in Nat
  BY <1>1
<1> QED
  BY <1>1, <1>2 DEF Target

LEMMA TimeStep == TypeOK /\ TimeInv /\ [Next]_vars => TimeInv'
<1> SUFFICES ASSUME TypeOK, TimeInv, [Next]_vars
             PROVE  TimeInv'
  OBVIOUS
<1> USE DEF chainVars, stateVars, stepVars, historyVars
<1> DEFINE d == 2 * HalfSteps
<1>0. /\ time \in Nat /\ start \in Nat /\ updates \in Nat /\ half \in {1, 2}
      /\ HalfSteps \in Nat \ {0} /\ d \in Nat /\ d = HalfSteps + HalfSteps
      /\ half = 1 => Target = start + HalfSteps
      /\ half = 2 => Target = start + d
      /\ Target \in Nat
  BY StepAssumption, TargetOfHalf DEF TypeOK
<1>00. (updates + 1) * d = updates * d + d
  BY <1>0
<1> HIDE DEF d
<1>1. CASE UNCHANGED <<stage, time, start, half, updates>>
  BY <1>1 DEF TimeInv, Target
<1>2. CASE BeginUpdate
  <2>1. /\ stage = "between" /\ stage' = "deciding" /\ half' = 1 /\ start' = time
        /\ time' = time /\ updates' = updates
    BY <1>2 DEF BeginUpdate
  <2> QED
    BY <1>0, <2>1 DEF TimeInv
<1>3. CASE DoLogicUpdates
  <2>1. /\ stage = "deciding" /\ UNCHANGED <<start, half, updates>>
        /\ \/ /\ ~ (time < Target /\ Slurped # <<>>)
              /\ time' = IF time < Target THEN Target ELSE time
              /\ stage' = IF half = 1 THEN "physics" ELSE "inter"
           \/ time < Target /\ stage' = "acting" /\ time' = time
    BY <1>3 DEF DoLogicUpdates, LogicUpdatesOf
  <2>2. Target' = Target
    BY <2>1 DEF Target
  <2>3. /\ half = 1 => start <= time /\ time <= Target
        /\ half = 2 => start + HalfSteps <= time /\ time <= Target
    BY <1>0, <2>1 DEF TimeInv, d
  <2>4. CASE time < Target /\ stage' = "acting" /\ time' = time
    BY <1>0, <2>1, <2>2, <2>4 DEF TimeInv
  <2>5. CASE time' = Target /\ stage' = IF half = 1 THEN "physics" ELSE "inter"
    BY <1>0, <2>1, <2>2, <2>5 DEF TimeInv, d
  <2>6. time' = time => time' = Target \/ time < Target
    BY <1>0, <2>3
  <2> QED
    BY <1>0, <2>1, <2>3, <2>4, <2>5
<1>4. CASE HandleAction
  BY <1>1, <1>4 DEF HandleAction, HandleActionInto
<1>5. CASE StepDone
  <2>1. /\ stage = "acting" /\ stage' = "deciding" /\ time' = time + 1
        /\ UNCHANGED <<start, half, updates>>
    BY <1>5 DEF StepDone, StepTaking
  <2>2. time < Target
    BY <2>1 DEF TimeInv
  <2> QED
    BY <1>0, <2>1, <2>2 DEF TimeInv, d
<1>6. CASE Physics
  BY <1>0, <1>6 DEF Physics, TimeInv
<1>7. CASE Vision
  <2>1. /\ stage = "vision" /\ stage' = "deciding" /\ half' = 2
        /\ UNCHANGED <<start, time, updates>>
    BY <1>7 DEF Vision
  <2> QED
    BY <1>0, <2>1 DEF TimeInv, d
<1>8. CASE EndUpdate
  <2>1. /\ stage = "inter" /\ stage' = "between" /\ updates' = updates + 1
        /\ UNCHANGED <<start, time>>
    BY <1>8 DEF EndUpdate
  <2>2. time = updates * d + d
    BY <1>0, <2>1 DEF TimeInv, d
  <2> QED
    BY <1>00, <2>1, <2>2 DEF TimeInv, d
<1>9. CASE Reject
  BY <1>9 DEF Reject, TimeInv
<1> QED
  BY <1>1, <1>2, <1>3, <1>4, <1>5, <1>6, <1>7, <1>8, <1>9
  DEF Next, ChainStep, EnqueueAction, Ask, OneOffUpdate, Flush, RejectJob, SaveAnswered,
      SaveWith, vars

LEMMA TimelyStep == TypeOK /\ OrderInv /\ TimelyInv /\ [Next]_vars => TimelyInv'
<1> SUFFICES ASSUME TypeOK, OrderInv, TimelyInv, [Next]_vars
             PROVE  TimelyInv'
  OBVIOUS
<1> USE DEF chainVars, stateVars, stepVars, historyVars
<1>0. /\ time \in Nat /\ start \in Nat /\ issued \in Nat /\ begun \in Nat /\ begun <= issued
      /\ Len(enqueued) \in Nat /\ Len(handled) \in Nat /\ TakenCount \in Nat
      /\ enqueued \in Seq(External) /\ handled \in Seq(External)
  BY StepAssumption DEF TypeOK, OrderInv, TakenCount
<1>1. CASE UNCHANGED <<stage, half, time, start, begun, issued, enqueued, handled>>
  BY <1>1 DEF TimelyInv, TakenCount
<1>2. CASE EnqueueAction
  <2>1. Len(enqueued') = Len(enqueued) + 1 /\ issued' = issued + 1
        /\ UNCHANGED <<stage, half, time, start, begun, handled>>
    BY <1>0, <1>2 DEF EnqueueAction
  <2>2. TakenCount' = TakenCount
    BY <1>0, <2>1 DEF TakenCount
  <2> QED
    BY <2>1, <2>2 DEF TimelyInv
<1>3. CASE BeginUpdate
  BY <1>3 DEF BeginUpdate, TimelyInv
<1>4. CASE DoLogicUpdates
  <2>1. /\ stage = "deciding" /\ enqueued' = <<>>
        /\ UNCHANGED <<start, half, begun, issued, handled>>
    BY <1>4 DEF DoLogicUpdates, LogicUpdatesOf
  <2>2. TakenCount' = issued
    BY <1>0, <2>1 DEF TakenCount
  <2>3. CASE stage' = "acting"
    BY <1>0, <2>1, <2>2, <2>3 DEF TimelyInv
  <2>4. CASE stage' # "acting"
    <3>1. stage' = IF half = 1 THEN "physics" ELSE "inter"
      BY <1>4, <2>4 DEF DoLogicUpdates, LogicUpdatesOf
    <3>2. ~ (time < Target /\ Slurped # <<>>)
      BY <1>4, <2>4 DEF DoLogicUpdates, LogicUpdatesOf
    <3>3. CASE half = 1 /\ time = start
      <4>1. time < Target
        BY <1>0, <3>3, StepAssumption, TargetOfHalf DEF TypeOK
      <4>2. Slurped = <<>> /\ Slurped = actions \o enqueued
        BY <3>2, <4>1 DEF Slurped
      <4>3. actions = <<>> /\ Len(enqueued) = 0
        <5>1. actions \in Seq(Action) /\ Len(actions) \in Nat
          BY DEF TypeOK
        <5>2. Len(actions \o enqueued) = Len(actions) + Len(enqueued)
          BY <1>0, <5>1
        <5>3. Len(actions \o enqueued) = 0
          BY <4>2, EmptySeq
        <5>4. Len(actions) = 0 /\ Len(enqueued) = 0
          BY <1>0, <5>1, <5>2, <5>3
        <5> QED
          BY <5>1, <5>4, EmptySeq
      <4>4. Len(handled) = TakenCount /\ TakenCount = issued
        <5>1. Enumerates(<<>>, Len(handled), TakenCount) /\ Len(handled) <= TakenCount
          BY <2>1, <4>3 DEF OrderInv, Taken
        <5> QED
          BY <1>0, <4>3, <5>1, NothingEnumerated DEF TakenCount
      <4> QED
        BY <1>0, <2>1, <3>1, <3>3, <4>4 DEF TimelyInv
    <3>4. CASE ~ (half = 1 /\ time = start)
      BY <2>1, <3>1, <3>4 DEF TimelyInv
    <3> QED
      BY <3>3, <3>4
  <2> QED
    BY <2>3, <2>4
<1>5. CASE HandleAction
  <2>1. stage = "acting" /\ UNCHANGED <<stage, half, begun, issued, enqueued>>
    BY <1>5 DEF HandleAction, HandleActionInto
  <2> QED
    BY <2>1 DEF TimelyInv, TakenCount
<1>6. CASE StepDone
  <2>1. /\ stage = "acting" /\ stage' = "deciding" /\ todo = <<>>
        /\ UNCHANGED <<half, begun, issued, enqueued, handled>>
    BY <1>6 DEF StepDone, StepTaking
  <2>2. Enumerates(<<>>, Len(handled), TakenCount) /\ Len(handled) <= TakenCount
    BY <2>1 DEF OrderInv, Taken
  <2>3. Len(handled) = TakenCount
    BY <1>0, <2>2, NothingEnumerated
  <2> QED
    BY <2>1, <2>3 DEF TimelyInv
<1>7. CASE Physics \/ Vision
  <2>1. stage' = "vision" \/ (stage' = "deciding" /\ half' = 2)
    BY <1>7 DEF Physics, Vision
  <2> QED
    BY <2>1 DEF TimelyInv
<1>8. CASE EndUpdate
  BY <1>8 DEF EndUpdate, TimelyInv
<1>9. CASE Reject
  BY <1>9 DEF Reject, TimelyInv
<1> QED
  BY <1>1, <1>2, <1>3, <1>4, <1>5, <1>6, <1>7, <1>8, <1>9
  DEF Next, ChainStep, Ask, OneOffUpdate, Flush, RejectJob, SaveAnswered, SaveWith, vars

LEMMA SaveStep == TypeOK /\ OrderInv /\ SaveIsComplete /\ [Next]_vars => SaveIsComplete'
<1> SUFFICES ASSUME TypeOK, OrderInv, SaveIsComplete, [Next]_vars
             PROVE  SaveIsComplete'
  OBVIOUS
<1> USE DEF chainVars, stateVars, stepVars, historyVars
<1>0. /\ save \in Save /\ save.handled \in Nat /\ save.actions \in Seq(Action)
      /\ save.taken \in Nat
  BY DEF TypeOK, Save
<1>1. CASE /\ save'.handled = save.handled /\ save'.taken = save.taken
           /\ save'.actions \in {save.actions, Append(save.actions, Echo)}
           /\ save'.state # "none" => save.state # "none"
  <2> SUFFICES ASSUME save'.state # "none"
               PROVE  Enumerates(save'.actions, save'.handled, save'.taken)
    BY DEF SaveIsComplete
  <2>1. Enumerates(save.actions, save.handled, save.taken)
    BY <1>1 DEF SaveIsComplete
  <2>2. Enumerates(Append(save.actions, Echo), save.handled, save.taken)
    BY <1>0, <2>1, EnumeratesEcho
  <2> QED
    BY <1>1, <2>1, <2>2
<1>2. CASE Flush
  <2>1. /\ save'.handled = Len(handled) /\ save'.actions = actions
        /\ save'.taken = TakenCount /\ stage = "between"
    BY <1>2 DEF Flush, TakenCount
  <2>2. Enumerates(actions, Len(handled), TakenCount)
    BY <2>1 DEF OrderInv, Taken
  <2> QED
    BY <2>1, <2>2 DEF SaveIsComplete
<1>3. CASE EnqueueAction
  <2>1. save' = save
    BY <1>3 DEF EnqueueAction
  <2> QED
    BY <1>0, <1>1, <2>1
<1>4. CASE DoLogicUpdates
  <2>1. save' \in {save, Unshared}
    BY <1>4 DEF DoLogicUpdates, LogicUpdatesOf
  <2>2. /\ Unshared.state = save.state /\ Unshared.actions = save.actions
        /\ Unshared.handled = save.handled /\ Unshared.taken = save.taken
    BY <1>0, SaveTypes
  <2> QED
    BY <1>0, <1>1, <2>1, <2>2
<1>5. CASE Physics \/ Vision
  <2> DEFINE pushed == [save EXCEPT !.actions = Append(@, Echo)]
  <2>1. save' \in {save, pushed}
    BY <1>5 DEF Physics, Vision, PushInPlace
  <2>2. /\ pushed.handled = save.handled /\ pushed.taken = save.taken
        /\ pushed.state = save.state
        /\ pushed.actions = Append(save.actions, Echo)
    BY <1>0 DEF Save
  <2> HIDE DEF pushed
  <2> QED
    BY <1>0, <1>1, <2>1, <2>2
<1>6. CASE SaveAnswered
  <2>1. /\ save.state = "open"
        /\ save' = [Unshared EXCEPT !.state = "done", !.actions = save.actions]
    BY <1>6 DEF SaveAnswered, SaveWith
  <2>2. save'.handled = save.handled /\ save'.taken = save.taken
        /\ save'.actions = save.actions
    BY <1>0, <2>1 DEF Save, Unshared
  <2> QED
    BY <1>0, <1>1, <2>1, <2>2
<1>7. CASE UNCHANGED save
  BY <1>0, <1>1, <1>7
<1> QED
  BY <1>2, <1>3, <1>4, <1>5, <1>6, <1>7
  DEF Next, ChainStep, Ask, BeginUpdate, HandleAction, HandleActionInto, StepDone, StepTaking,
      EndUpdate, OneOffUpdate, Reject, RejectJob, vars

LEMMA InitInvariant == Init => IInv
<1> SUFFICES ASSUME Init
             PROVE  IInv
  OBVIOUS
<1>1. TypeOK
  BY TypeInit
<1>2. OrderInv
  <2>0. Len(<<>>) = 0 /\ <<>> \in Seq({Echo}) /\ 0 \in Nat
    OBVIOUS
  <2>1. Taken = <<>> /\ Len(handled) = 0 /\ stage = "between"
    BY <2>0 DEF Init, Taken
  <2>2. TakenCount = 0
    <3>1. issued = 0 /\ Len(enqueued) = 0
      BY <2>0 DEF Init
    <3> QED
      BY <3>1 DEF TakenCount
  <2>3. Enumerates(<<>>, 0, 0)
    BY <2>0, EnumeratesNothing
  <2> QED
    BY <2>0, <2>1, <2>2, <2>3 DEF Init, OrderInv
<1>3. TimeInv
  BY StepAssumption DEF Init, TimeInv
<1>4. TimelyInv /\ SaveIsComplete
  BY DEF Init, TimelyInv, SaveIsComplete, NoSave
<1> QED
  BY <1>1, <1>2, <1>3, <1>4 DEF IInv

LEMMA Invariant == Spec => []IInv
<1>1. IInv /\ [Next]_vars => IInv'
  BY TypeStep, OrderStep, TimeStep, TimelyStep, SaveStep DEF IInv, OrderInv
<1> QED
  BY InitInvariant, <1>1, PTL DEF Spec

-----------------------------------------------------------------------------
(* The properties                                                          *)

(* The arrays and counters of the simulator have their types, and the job  *)
(* being done stays on the chain until it is over.                         *)
THEOREM TypeCorrect == Spec => []TypeOK
<1>1. IInv => TypeOK
  BY DEF IInv
<1> QED
  BY Invariant, <1>1, PTL

(* However many actions come in whenever, enqueueAction's are all handled, *)
(* once, in the order of the calls, unless the chain is rejected.          *)
THEOREM ActionsHandledOnce == Spec => []ActionsKept
<1>1. IInv => ActionsKept
  <2> SUFFICES ASSUME IInv
               PROVE  ActionsKept
    OBVIOUS
  <2>1. \A i \in DOMAIN handled : handled[i] = i
    BY DEF IInv, OrderInv
  <2>2. ASSUME stage # "rejected"
        PROVE  Enumerates(todo \o actions \o enqueued, Len(handled), issued)
    <3>1. todo \o actions = Taken
      <4>1. /\ todo \in Seq(Action) /\ actions \in Seq(Action)
            /\ IF stage = "acting" THEN actions = <<>> ELSE todo = <<>>
        BY DEF IInv, OrderInv, TypeOK
      <4>2. todo \o <<>> = todo /\ <<>> \o actions = actions
        BY <4>1, ConcatEmptySeq
      <4> QED
        BY <4>1, <4>2 DEF Taken
    <3>2. /\ Taken \in Seq(Action) /\ enqueued \in Seq(External)
          /\ Len(handled) \in Nat /\ issued \in Nat
      BY StepAssumption DEF IInv, TypeOK, Taken
    <3>3. issued - Len(enqueued) = TakenCount
      BY DEF TakenCount
    <3>4. /\ Len(enqueued) <= issued /\ Len(handled) <= TakenCount
          /\ \A i \in DOMAIN enqueued : enqueued[i] = TakenCount + i
          /\ Enumerates(Taken, Len(handled), TakenCount)
      BY <2>2 DEF IInv, OrderInv
    <3>5. Enumerates(Taken \o enqueued, Len(handled), issued)
      BY <3>2, <3>3, <3>4, EnumeratesMore
    <3> QED
      BY <3>1, <3>5
  <2> QED
    BY <2>1, <2>2 DEF ActionsKept
<1> QED
  BY Invariant, <1>1, PTL

(* Every major step begins at a multiple of its duration, and its physics  *)
(* are those of its middle.                                                *)
THEOREM StepsMatch == Spec => []TimesMatch
<1>1. IInv => TimesMatch
  <2> SUFFICES ASSUME IInv
               PROVE  TimesMatch
    OBVIOUS
  <2>1. updates * (2 * HalfSteps) = updates * 2 * HalfSteps
    BY StepAssumption DEF IInv, TypeOK
  <2> QED
    BY <2>1 DEF IInv, TimeInv, TimesMatch
<1> QED
  BY Invariant, <1>1, PTL

(* What was enqueued before an update began is handled before its physics. *)
THEOREM HandledInTime == Spec => []ActionsAreTimely
<1>1. IInv => ActionsAreTimely
  BY StepAssumption DEF IInv, TypeOK, TimelyInv, ActionsAreTimely
<1> QED
  BY Invariant, <1>1, PTL

(* A saved state has the actions that the data saved with it lacks.        *)
THEOREM SavesFit == Spec => []SaveIsComplete
<1>1. IInv => SaveIsComplete
  BY DEF IInv
<1> QED
  BY Invariant, <1>1, PTL
=============================================================================
