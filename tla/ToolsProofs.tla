---------------------------- MODULE ToolsProofs ----------------------------
(***************************************************************************)
(* How the calls of tools run, and which tool the model must call: the     *)
(* proofs about ToolBatch and about ToolChoice.                            *)
(*                                                                         *)
(* First, what holds of a batch of any number of tool calls, any of them   *)
(* exclusive, with any number of steering messages.  The invariants of     *)
(* ToolBatch are not inductive: IInv adds what is true of every pair of    *)
(* calls the barriers order, and of the poll the calls share.              *)
(***************************************************************************)
EXTENDS ToolBatch, ToolChoice, SequenceFacts, TLAPS

(* A call runs only after every earlier call that is exclusive, and an     *)
(* exclusive call only after every earlier call.                           *)
BarriersHeld ==
    \A i, j \in Calls :
        i < j /\ (i \in exclusive \/ j \in exclusive) /\ task[j] # "waiting"
            => task[i] = "settled"

(* There is one poll, the calls that wait for it do so while it is pending,*)
(* and there is none once the batch is interrupted.                        *)
OnePoll ==
    /\ \A i \in Calls : task[i] = "checking" => steeringCheck
    /\ ~steeringCheck => taken = <<>>
    /\ interrupted => ~steeringCheck
    /\ interrupted <=> steeringMessages # <<>>

(* A call has its one result from the moment it leaves the hooks; only an  *)
(* interrupted batch has settled calls without one.                        *)
Answers ==
    \A i \in Calls :
        /\ emits[i] = IF result[i] = "none" THEN 0 ELSE 1
        /\ task[i] \in {"waiting", "before", "executing", "after"} => result[i] = "none"
        /\ task[i] = "checking" => result[i] # "none"
        /\ task[i] = "settled" /\ result[i] = "none" => interrupted
        /\ result[i] = "skipped" => interrupted
        /\ returned => task[i] = "settled" /\ result[i] # "none"

IInv == TypeOK /\ BarriersHeld /\ OnePoll /\ Answers /\ SteeringInOrder

-----------------------------------------------------------------------------
(* Lemmas about the queue operators *)

LEMMA DequeuedType ==
    ASSUME NEW S, NEW q \in Seq(S), NEW mode
    PROVE  /\ Dequeued(mode, q) \in Seq(S)
           /\ Remaining(mode, q) \in Seq(S)
           /\ Dequeued(mode, q) \o Remaining(mode, q) = q
<1>1. CASE mode = "one-at-a-time" /\ q # <<>>
  <2>1. Len(q) >= 1
    BY <1>1
  <2>2. SubSeq(q, 1, 1) \in Seq(S) /\ Tail(q) \in Seq(S)
    BY <1>1, <2>1
  <2>3. SubSeq(q, 1, 1) \o Tail(q) = q
    BY <1>1, <2>1
  <2>4. QED BY <1>1, <2>2, <2>3 DEF Dequeued, Remaining
<1>2. CASE mode = "one-at-a-time" /\ q = <<>>
  BY <1>2 DEF Dequeued, Remaining
<1>3. CASE mode # "one-at-a-time"
  BY <1>3 DEF Dequeued, Remaining
<1>4. QED BY <1>1, <1>2, <1>3

LEMMA IdsConcat ==
    \A p, q, r \in Seq(Nat) : p \o q \o r = p \o (q \o r)
OBVIOUS

LEMMA AppendToConcat ==
    \A p, q \in Seq(Nat), m \in Nat : p \o Append(q, m) = Append(p \o q, m)
OBVIOUS

LEMMA WithoutLastType ==
    ASSUME NEW S, NEW q \in Seq(S)
    PROVE  WithoutLast(q) \in Seq(S)
BY DEF WithoutLast

(* What stands before the last element of the whole stands before the last *)
(* element of its non-empty tail.                                          *)
LEMMA WithoutLastOfConcat ==
    ASSUME NEW S, NEW p \in Seq(S), NEW q \in Seq(S), q # <<>>
    PROVE  p \o WithoutLast(q) = WithoutLast(p \o q)
<1>1. Len(q) >= 1 /\ Len(p \o q) = Len(p) + Len(q) /\ p \o q # <<>>
  OBVIOUS
<1>2. QED BY <1>1 DEF WithoutLast

(* All the calls a started call waits for, though its barrier names only   *)
(* the last exclusive one and the shared ones since.                       *)
LEMMA BarrierCovers ==
    ASSUME TypeOK, BarriersHeld,
           NEW i \in Calls, NEW j \in Calls, i < j,
           i \in exclusive \/ j \in exclusive,
           \A k \in Barrier(j) : task[k] = "settled"
    PROVE  task[i] = "settled"
<1> DEFINE Excl == {k \in exclusive : k < j}
<1>0. Calls \subseteq Nat /\ exclusive \subseteq Calls
  BY BatchAssumption DEF TypeOK, Calls
<1>1. CASE Excl = {}
  <2>1. j \in exclusive /\ i \in SharedTasks(j)
    BY <1>0, <1>1 DEF SharedTasks
  <2>2. QED BY <2>1 DEF Barrier
<1>2. CASE Excl # {}
  <2>1. Excl \subseteq Nat /\ j \in Nat /\ \A k \in Excl : k <= j
    <3>1. j \in Nat /\ Excl \subseteq Nat
      BY <1>0
    <3>2. \A k \in Excl : k < j
      OBVIOUS
    <3> HIDE DEF Excl
    <3>3. QED BY <3>1, <3>2
  <2>2. PICK e \in Excl : \A k \in Excl : k <= e
    BY <1>2, <2>1, GreatestBelow
  <2>3. e \in LastExclusive(j)
    BY <2>2 DEF LastExclusive
  <2>4. task[e] = "settled" /\ e \in Calls /\ e \in exclusive
    BY <1>0, <2>3 DEF Barrier, LastExclusive
  <2>5. CASE i < e
    BY <2>4, <2>5 DEF BarriersHeld
  <2>6. CASE i = e
    BY <2>4, <2>6
  <2>7. CASE i > e
    <3>1. i \notin exclusive /\ j \in exclusive
      BY <1>0, <2>1, <2>2, <2>7
    <3>2. \A k \in exclusive : k < j => k < i
      BY <1>0, <2>1, <2>2, <2>7
    <3>3. i \in SharedTasks(j)
      BY <3>1, <3>2 DEF SharedTasks
    <3>4. QED BY <3>1, <3>3 DEF Barrier
  <2>8. i \in Int /\ e \in Int
    BY <2>1, <1>0
  <2>9. QED BY <2>5, <2>6, <2>7, <2>8
<1>3. QED BY <1>1, <1>2

-----------------------------------------------------------------------------
(* The inductive invariant *)

LEMMA InitIInv == Init => IInv
<1> SUFFICES ASSUME Init PROVE IInv
  OBVIOUS
<1>1. total \in Nat
  BY BatchAssumption DEF Init
<1>2. TypeOK
  <2>1. /\ total \in 1..MaxCalls /\ exclusive \in SUBSET Calls
        /\ interrupted \in BOOLEAN /\ steeringCheck \in BOOLEAN /\ returned \in BOOLEAN
    BY DEF Init
  <2>2. /\ task \in [Calls -> Phases]
        /\ produced \in [Calls -> Outcomes \cup {"none"}]
        /\ result \in [Calls -> Outcomes \cup {"none", "skipped"}]
        /\ emits \in [Calls -> Nat]
    BY DEF Init, Phases
  <2>3. /\ taken \in Seq(Nat) /\ steeringMessages \in Seq(Nat)
        /\ steeringQueue \in Seq(Nat) /\ accepted \in Seq(Nat)
    BY DEF Init
  <2>4. QED BY <2>1, <2>2, <2>3 DEF TypeOK
<1>3. BarriersHeld
  BY DEF Init, BarriersHeld
<1>4. OnePoll /\ Answers
  BY DEF Init, OnePoll, Answers
<1>5. SteeringInOrder
  BY DEF Init, SteeringInOrder
<1>6. QED BY <1>2, <1>3, <1>4, <1>5 DEF IInv

LEMMA StartIInv ==
    ASSUME IInv, NEW i \in Calls, Start(i)
    PROVE  IInv'
<1>1. TypeOK'
  BY DEF IInv, TypeOK, Start, Calls, Phases
<1>2. BarriersHeld'
  <2> SUFFICES ASSUME NEW a \in Calls, NEW b \in Calls, a < b,
                      a \in exclusive \/ b \in exclusive, task'[b] # "waiting"
               PROVE  task'[a] = "settled"
    BY DEF Start, BarriersHeld, Calls
  <2>1. task \in [Calls -> Phases]
    BY DEF IInv, TypeOK
  <2>2. CASE b = i
    <3>1. task[a] = "settled"
      BY <2>2, BarrierCovers DEF IInv, Start
    <3>2. QED BY <2>1, <3>1 DEF Start
  <2>3. CASE b # i
    <3>1. task[a] = "settled"
      BY <2>1, <2>3 DEF IInv, BarriersHeld, Start
    <3>2. QED BY <2>1, <3>1 DEF Start
  <2>4. QED BY <2>2, <2>3
<1>3. OnePoll'
  BY DEF IInv, OnePoll, TypeOK, Start, Calls
<1>4. Answers'
  BY DEF IInv, Answers, TypeOK, Start, Calls
<1>5. SteeringInOrder'
  BY DEF IInv, SteeringInOrder, Start
<1>6. QED BY <1>1, <1>2, <1>3, <1>4, <1>5 DEF IInv

LEMMA ExecuteIInv ==
    ASSUME IInv, NEW i \in Calls, Execute(i)
    PROVE  IInv'
<1>1. TypeOK'
  BY DEF IInv, TypeOK, Execute, Calls, Phases
<1>2. BarriersHeld'
  BY DEF IInv, TypeOK, BarriersHeld, Execute, Calls
<1>3. OnePoll'
  BY DEF IInv, OnePoll, TypeOK, Execute, Calls
<1>4. Answers'
  BY DEF IInv, Answers, TypeOK, Execute, Calls
<1>5. SteeringInOrder'
  BY DEF IInv, SteeringInOrder, Execute
<1>6. QED BY <1>1, <1>2, <1>3, <1>4, <1>5 DEF IInv

LEMMA ProduceIInv ==
    ASSUME IInv, NEW i \in Calls, NEW outcome \in Outcomes, Produce(i, outcome)
    PROVE  IInv'
<1>1. TypeOK'
  BY DEF IInv, TypeOK, Produce, Calls, Phases
<1>2. BarriersHeld'
  BY DEF IInv, TypeOK, BarriersHeld, Produce, Calls
<1>3. OnePoll'
  BY DEF IInv, OnePoll, TypeOK, Produce, Calls
<1>4. Answers'
  BY DEF IInv, Answers, TypeOK, Produce, Calls
<1>5. SteeringInOrder'
  BY DEF IInv, SteeringInOrder, Produce
<1>6. QED BY <1>1, <1>2, <1>3, <1>4, <1>5 DEF IInv

(* The call's result is out; either the batch does not poll, or it shares  *)
(* the pending poll, or it makes one.                                      *)
LEMMA FinishIInv ==
    ASSUME IInv, NEW i \in Calls, NEW outcome \in Outcomes, Finish(i, outcome)
    PROVE  IInv'
<1>0. task \in [Calls -> Phases] /\ result \in [Calls -> Outcomes \cup {"none", "skipped"}]
  BY DEF IInv, TypeOK
<1>1. /\ task' = [task EXCEPT ![i] = task'[i]]
      /\ task'[i] \in {"checking", "settled"}
      /\ task[i] = "after"
      /\ result' = [result EXCEPT ![i] = Emitted(outcome)]
      /\ emits' = [emits EXCEPT ![i] = @ + 1]
      /\ Emitted(outcome) \in Outcomes \cup {"skipped"}
      /\ Emitted(outcome) = "skipped" => interrupted
      /\ UNCHANGED <<total, exclusive, produced, interrupted, steeringMessages,
                     returned, accepted>>
  BY <1>0 DEF Finish, CheckSteering, Emitted, Outcomes
<1>2. /\ taken' \in Seq(Nat) /\ steeringQueue' \in Seq(Nat)
      /\ taken' \o steeringQueue' = taken \o steeringQueue
      /\ steeringCheck' \in BOOLEAN
      /\ task'[i] = "checking" => steeringCheck' /\ ~interrupted
      /\ steeringCheck => steeringCheck'
      /\ ~steeringCheck' => ~steeringCheck /\ taken' = taken
      /\ interrupted => steeringCheck' = steeringCheck
  <2>1. taken \in Seq(Nat) /\ steeringQueue \in Seq(Nat) /\ steeringCheck \in BOOLEAN
    BY DEF IInv, TypeOK
  <2>2. CASE InterruptMode = "wait" \/ interrupted \/ steeringCheck
    BY <1>0, <2>1, <2>2 DEF Finish, CheckSteering
  <2>3. CASE ~(InterruptMode = "wait" \/ interrupted \/ steeringCheck)
    <3>1. taken = <<>>
      BY <2>3 DEF IInv, OnePoll
    <3>2. /\ taken' = Dequeued(SteeringMode, steeringQueue)
          /\ steeringQueue' = Remaining(SteeringMode, steeringQueue)
          /\ steeringCheck' /\ task'[i] = "checking"
      BY <1>0, <2>3 DEF Finish, CheckSteering
    <3>3. /\ taken' \in Seq(Nat) /\ steeringQueue' \in Seq(Nat)
          /\ taken' \o steeringQueue' = steeringQueue
      BY <2>1, <3>2, DequeuedType
    <3>4. taken \o steeringQueue = steeringQueue
      BY <2>1, <3>1
    <3>5. steeringCheck' = TRUE
      BY <2>3 DEF Finish, CheckSteering
    <3>6. QED BY <2>3, <3>2, <3>3, <3>4, <3>5
  <2>4. QED BY <2>2, <2>3
<1>3. TypeOK'
  <2>1. /\ task' \in [Calls -> Phases]
        /\ result' \in [Calls -> Outcomes \cup {"none", "skipped"}]
    BY <1>0, <1>1 DEF Phases
  <2>2. emits' \in [Calls -> Nat]
    BY <1>1 DEF IInv, TypeOK
  <2>3. QED BY <1>1, <1>2, <2>1, <2>2 DEF IInv, TypeOK, Calls
<1>4. BarriersHeld'
  <2> SUFFICES ASSUME NEW a \in Calls, NEW b \in Calls, a < b,
                      a \in exclusive \/ b \in exclusive, task'[b] # "waiting"
               PROVE  task'[a] = "settled"
    BY <1>1 DEF BarriersHeld, Calls
  <2>1. task[b] # "waiting"
    BY <1>0, <1>1
  <2>2. task[a] = "settled"
    BY <2>1 DEF IInv, BarriersHeld
  <2>3. QED BY <1>0, <1>1, <2>2
<1>5. OnePoll'
  <2>1. \A k \in Calls : task'[k] = "checking" => steeringCheck'
    BY <1>0, <1>1, <1>2 DEF IInv, OnePoll
  <2>2. QED BY <1>1, <1>2, <2>1 DEF IInv, OnePoll, Calls
<1>6. Answers'
  BY <1>1 DEF IInv, Answers, TypeOK, Calls, Outcomes
<1>7. SteeringInOrder'
  <2>1. /\ steeringMessages \in Seq(Nat) /\ taken \in Seq(Nat) /\ steeringQueue \in Seq(Nat)
    BY DEF IInv, TypeOK
  <2>2. steeringMessages \o taken' \o steeringQueue' = steeringMessages \o (taken' \o steeringQueue')
    BY <1>2, <2>1, IdsConcat, ZenonT(30)
  <2>3. steeringMessages \o taken \o steeringQueue = steeringMessages \o (taken \o steeringQueue)
    BY <2>1, IdsConcat, ZenonT(30)
  <2>4. QED BY <1>1, <1>2, <2>2, <2>3 DEF IInv, SteeringInOrder
<1>8. QED BY <1>3, <1>4, <1>5, <1>6, <1>7 DEF IInv

LEMMA ResolveCheckIInv ==
    ASSUME IInv, ResolveCheck
    PROVE  IInv'
<1>0. /\ task \in [Calls -> Phases]
      /\ taken \in Seq(Nat) /\ steeringMessages \in Seq(Nat) /\ steeringQueue \in Seq(Nat)
      /\ steeringMessages = <<>> /\ ~interrupted
  BY DEF IInv, TypeOK, OnePoll, ResolveCheck
<1>1. /\ steeringMessages' = taken /\ taken' = <<>>
      /\ interrupted' \in BOOLEAN /\ (interrupted' <=> taken # <<>>)
      /\ ~steeringCheck'
  BY <1>0 DEF IInv, TypeOK, ResolveCheck
<1>2. TypeOK'
  BY <1>0, <1>1 DEF IInv, TypeOK, ResolveCheck, Calls, Phases
<1>3. BarriersHeld'
  BY <1>0 DEF IInv, BarriersHeld, ResolveCheck, Calls
<1>4. OnePoll'
  BY <1>0, <1>1 DEF ResolveCheck, OnePoll, Calls
<1>5. Answers'
  BY <1>0, <1>1 DEF IInv, Answers, TypeOK, ResolveCheck, Calls
<1>6. SteeringInOrder'
  <2>1. taken \o <<>> \o steeringQueue = <<>> \o taken \o steeringQueue
    BY <1>0
  <2>2. steeringQueue' = steeringQueue /\ accepted' = accepted
    BY DEF ResolveCheck
  <2>3. <<>> \o taken \o steeringQueue = accepted
    BY <1>0 DEF IInv, SteeringInOrder
  <2>4. QED BY <1>1, <2>1, <2>2, <2>3 DEF SteeringInOrder
<1>7. QED BY <1>2, <1>3, <1>4, <1>5, <1>6 DEF IInv

LEMMA ReturnIInv ==
    ASSUME IInv, Return
    PROVE  IInv'
<1>1. TypeOK'
  BY DEF IInv, TypeOK, Return, Calls
<1>2. BarriersHeld'
  BY DEF IInv, BarriersHeld, Return, Calls
<1>3. OnePoll'
  BY DEF IInv, OnePoll, Return, Calls
<1>4. Answers'
  BY DEF IInv, Answers, TypeOK, Return, Calls
<1>5. SteeringInOrder'
  BY DEF IInv, SteeringInOrder, Return
<1>6. QED BY <1>1, <1>2, <1>3, <1>4, <1>5 DEF IInv

LEMMA SteerIInv ==
    ASSUME IInv, Steer
    PROVE  IInv'
<1> DEFINE m == Len(accepted) + 1
<1>0. /\ steeringMessages \in Seq(Nat) /\ taken \in Seq(Nat)
      /\ steeringQueue \in Seq(Nat) /\ accepted \in Seq(Nat)
  BY DEF IInv, TypeOK
<1>1. /\ m \in Nat
      /\ steeringQueue' = Append(steeringQueue, m) /\ accepted' = Append(accepted, m)
      /\ UNCHANGED batchVars
  BY <1>0 DEF Steer
<1> HIDE DEF m
<1>2. TypeOK'
  BY <1>0, <1>1 DEF IInv, TypeOK, batchVars, Calls
<1>3. BarriersHeld' /\ OnePoll' /\ Answers'
  BY <1>1 DEF IInv, BarriersHeld, OnePoll, Answers, batchVars, Calls
<1>4. SteeringInOrder'
  <2>1. steeringMessages \o taken \o Append(steeringQueue, m)
            = Append(steeringMessages \o taken \o steeringQueue, m)
    <3>1. steeringMessages \o taken \in Seq(Nat)
      BY <1>0
    <3>2. QED BY <1>0, <1>1, <3>1, AppendToConcat, Zenon
  <2>2. QED BY <1>1, <2>1 DEF IInv, SteeringInOrder, batchVars
<1>5. QED BY <1>2, <1>3, <1>4 DEF IInv

LEMMA PopLastSteerIInv ==
    ASSUME IInv, PopLastSteer
    PROVE  IInv'
<1>0. /\ steeringMessages \o taken \in Seq(Nat)
      /\ steeringQueue \in Seq(Nat) /\ accepted \in Seq(Nat)
  BY DEF IInv, TypeOK
<1>1. /\ steeringQueue # <<>>
      /\ steeringQueue' = WithoutLast(steeringQueue) /\ accepted' = WithoutLast(accepted)
      /\ UNCHANGED batchVars
  BY DEF PopLastSteer
<1>2. TypeOK'
  <2>1. steeringQueue' \in Seq(Nat) /\ accepted' \in Seq(Nat)
    BY <1>0, <1>1, WithoutLastType
  <2>2. QED BY <1>1, <2>1 DEF IInv, TypeOK, batchVars, Calls
<1>3. BarriersHeld' /\ OnePoll' /\ Answers'
  BY <1>1 DEF IInv, BarriersHeld, OnePoll, Answers, batchVars, Calls
<1>4. SteeringInOrder'
  <2>1. steeringMessages \o taken \o WithoutLast(steeringQueue)
            = WithoutLast(steeringMessages \o taken \o steeringQueue)
    BY <1>0, <1>1, WithoutLastOfConcat
  <2>2. QED BY <1>1, <2>1 DEF IInv, SteeringInOrder, batchVars
<1>5. QED BY <1>2, <1>3, <1>4 DEF IInv

LEMMA NextIInv == IInv /\ [Next]_vars => IInv'
<1> SUFFICES ASSUME IInv, [Next]_vars PROVE IInv'
  OBVIOUS
<1>1. ASSUME NEW i \in Calls, Start(i) PROVE IInv'
  BY <1>1, StartIInv
<1>2. ASSUME NEW i \in Calls, Execute(i) PROVE IInv'
  BY <1>2, ExecuteIInv
<1>3. ASSUME NEW i \in Calls, NEW outcome \in Outcomes, Produce(i, outcome) PROVE IInv'
  BY <1>3, ProduceIInv
<1>4. ASSUME NEW i \in Calls, NEW outcome \in Outcomes, Finish(i, outcome) PROVE IInv'
  BY <1>4, FinishIInv
<1>5. CASE ResolveCheck
  BY <1>5, ResolveCheckIInv
<1>6. CASE Return
  BY <1>6, ReturnIInv
<1>7. CASE Steer
  BY <1>7, SteerIInv
<1>8. CASE PopLastSteer
  BY <1>8, PopLastSteerIInv
<1>9. CASE UNCHANGED vars
  BY <1>9 DEF vars, batchVars, IInv, TypeOK, BarriersHeld, OnePoll, Answers,
              SteeringInOrder, Calls
<1>10. QED
  BY <1>1, <1>2, <1>3, <1>4, <1>5, <1>6, <1>7, <1>8, <1>9 DEF Next, BatchStep

LEMMA SpecIInv == Spec => []IInv
<1>1. Init => IInv
  BY InitIInv
<1>2. IInv /\ [Next]_vars => IInv'
  BY NextIInv
<1>3. QED BY <1>1, <1>2, PTL DEF Spec

-----------------------------------------------------------------------------
(* The theorems *)

(* Every state executeToolCalls can be in is well typed, for a batch of any*)
(* size.                                                                   *)
THEOREM TypeCorrect == Spec => []TypeOK
BY SpecIInv, PTL DEF IInv

(* The promise chain of the scheduling loop makes an exclusive tool run    *)
(* alone, whatever the number of calls and whichever are exclusive.        *)
THEOREM ExclusiveToolsRunAlone == Spec => []ExclusiveAlone
<1>1. IInv => ExclusiveAlone
  <2> SUFFICES ASSUME IInv, NEW i \in Calls, NEW j \in Calls, i # j,
                      i \in exclusive, Active(i), Active(j)
               PROVE  FALSE
    BY DEF ExclusiveAlone
  <2>1. i < j \/ j < i
    BY BatchAssumption DEF IInv, TypeOK, Calls
  <2>2. CASE i < j
    BY <2>2 DEF IInv, BarriersHeld, Active
  <2>3. CASE j < i
    BY <2>3 DEF IInv, BarriersHeld, Active
  <2>4. QED BY <2>1, <2>2, <2>3
<1>2. QED BY <1>1, SpecIInv, PTL

(* runTool and the tail sweep together answer every call exactly once.     *)
THEOREM CallsAnsweredOnce == Spec => []AnsweredExactlyOnce
<1>1. IInv => AnsweredExactlyOnce
  BY DEF IInv, Answers, AnsweredExactlyOnce
<1>2. QED BY <1>1, SpecIInv, PTL

(* A call is told it was skipped for a queued message only when there is   *)
(* one.                                                                    *)
THEOREM SkipsAreInterrupts == Spec => []SkippedMeansInterrupted
<1>1. IInv => SkippedMeansInterrupted
  BY DEF IInv, Answers, OnePoll, SkippedMeansInterrupted
<1>2. QED BY <1>1, SpecIInv, PTL

(* What executeToolCalls returns: one answer a call, and a skipped one only*)
(* with the message it was skipped for.                                    *)
THEOREM AnswersHold == Spec => []BatchInv
BY TypeCorrect, CallsAnsweredOnce, SkipsAreInterrupts, PTL DEF BatchInv

(* The single-flight poll of the calls loses, repeats and reorders nothing.*)
THEOREM SteeringKept == Spec => []SteeringInOrder
BY SpecIInv, PTL DEF IInv

(* After the interrupt no call leaves "waiting" for its hooks.             *)
THEOREM InterruptStopsStarts == Spec => NoStartOnceInterrupted
<1>1. IInv /\ [Next]_vars =>
          [interrupted => \A i \in Calls : task[i] = "waiting" => task'[i] # "before"]_vars
  <2> SUFFICES ASSUME IInv, Next, interrupted, NEW i \in Calls, task[i] = "waiting"
               PROVE  task'[i] # "before"
    OBVIOUS
  <2>0. task \in [Calls -> Phases]
    BY DEF IInv, TypeOK
  <2>1. ASSUME NEW k \in Calls, Start(k) \/ Execute(k) PROVE task'[i] # "before"
    BY <2>0, <2>1 DEF Start, Execute
  <2>2. ASSUME NEW k \in Calls, NEW o \in Outcomes, Produce(k, o) \/ Finish(k, o)
        PROVE  task'[i] # "before"
    BY <2>0, <2>2 DEF Produce, Finish, CheckSteering
  <2>3. CASE ResolveCheck
    BY <2>3 DEF ResolveCheck
  <2>4. CASE Return
    BY <2>4 DEF Return
  <2>5. CASE Steer \/ PopLastSteer
    BY <2>5 DEF Steer, PopLastSteer, batchVars
  <2>6. QED BY <2>1, <2>2, <2>3, <2>4, <2>5 DEF Next, BatchStep
<1>2. QED BY <1>1, SpecIInv, PTL DEF Spec, NoStartOnceInterrupted
-----------------------------------------------------------------------------
(* The batch of promises implements OrderedBatch: every step that keeps the*)
(* inductive invariant is a step of OrderedBatch, or leaves unchanged what *)
(* can be seen of the batch.                                               *)

LEMMA InitRefines == Init => Ordered!Init
<1> SUFFICES ASSUME Init PROVE Ordered!Init
  OBVIOUS
<1>1. Running = {}
  BY DEF Init, Running
<1>2. QED BY <1>1 DEF Init, Ordered!Init, Calls, Ordered!Calls

(* What is answered and running does not change when only the task of one  *)
(* call changes, from one phase of runTool to another or from none to none.*)
LEMMA StutterRefines ==
    ASSUME NEW i \in Calls, NEW p, task \in [Calls -> Phases],
           task' = [task EXCEPT ![i] = p],
           (p \in {"before", "executing", "after"})
               <=> (task[i] \in {"before", "executing", "after"}),
           UNCHANGED <<total, exclusive, result, interrupted, returned>>
    PROVE  UNCHANGED Ordered!vars
<1>1. Running' = Running
  BY DEF Running, Calls
<1>2. QED BY <1>1 DEF Ordered!vars

(* A call that starts finds all calls answered that its barrier stands for.*)
LEMMA StartRefines ==
    ASSUME IInv, NEW i \in Calls, Start(i)
    PROVE  Ordered!Begin(i) \/ UNCHANGED Ordered!vars
<1>0. task \in [Calls -> Phases]
  BY DEF IInv, TypeOK
<1>1. CASE interrupted
  <2>1. task' = [task EXCEPT ![i] = "settled"] /\ task[i] = "waiting"
    BY <1>1 DEF Start
  <2>2. QED BY <1>0, <2>1, StutterRefines DEF Start
<1>2. CASE ~interrupted
  <2>1. task' = [task EXCEPT ![i] = "before"] /\ task[i] = "waiting"
    BY <1>2 DEF Start
  <2>2. i \notin Running /\ result[i] = "none"
    BY <2>1 DEF Running, IInv, Answers
  <2>3. ASSUME NEW j \in Calls, j < i, i \in exclusive \/ j \in exclusive
        PROVE  result[j] # "none"
    <3>1. task[j] = "settled"
      BY <2>3, BarrierCovers DEF IInv, Start
    <3>2. QED BY <1>2, <3>1 DEF IInv, Answers
  <2>4. Running' = Running \cup {i}
    BY <1>0, <2>1 DEF Running, Calls, Start
  <2>5. QED BY <1>2, <2>2, <2>3, <2>4 DEF Start, Ordered!Begin, Calls, Ordered!Calls
<1>3. QED BY <1>1, <1>2

LEMMA FinishRefines ==
    ASSUME IInv, NEW i \in Calls, NEW outcome \in Outcomes, Finish(i, outcome)
    PROVE  Ordered!Answer(i, Emitted(outcome)) /\ Emitted(outcome) \in Ordered!Answers
<1>0. task \in [Calls -> Phases]
  BY DEF IInv, TypeOK
<1>1. task[i] = "after" /\ task' \in {[task EXCEPT ![i] = p] : p \in {"checking", "settled"}}
  BY DEF Finish, CheckSteering
<1>2. i \in Running /\ Running' = Running \ {i}
  BY <1>0, <1>1 DEF Running, Calls, Finish
<1>3. (Emitted(outcome) = "skipped") = interrupted
  BY DEF IInv, TypeOK, Emitted, Outcomes
<1>4. Emitted(outcome) \in Ordered!Answers
  BY DEF Emitted, Outcomes, Ordered!Answers
<1>5. QED BY <1>2, <1>3, <1>4 DEF Finish, Ordered!Answer

LEMMA ResolveCheckRefines ==
    ASSUME IInv, ResolveCheck
    PROVE  Ordered!Interrupt \/ UNCHANGED Ordered!vars
<1>1. task \in [Calls -> Phases] /\ ~interrupted
  BY DEF IInv, TypeOK, OnePoll, ResolveCheck
<1>2. Running' = Running
  BY <1>1 DEF Running, ResolveCheck, Calls
<1>3. CASE taken = <<>>
  BY <1>2, <1>3 DEF ResolveCheck, Ordered!vars
<1>4. CASE taken # <<>>
  BY <1>1, <1>2, <1>4 DEF ResolveCheck, Ordered!Interrupt
<1>5. QED BY <1>3, <1>4

LEMMA ReturnRefines ==
    ASSUME IInv, Return
    PROVE  Ordered!Return
<1>1. Running = {} /\ Running' = Running
  BY DEF Running, Return, Calls
<1>2. interrupted \/ \A i \in Calls : result[i] # "none"
  BY DEF IInv, Answers, Return
<1>3. QED BY <1>1, <1>2 DEF Return, Ordered!Return, Calls, Ordered!Calls

LEMMA NextRefines == IInv /\ [Next]_vars => [Ordered!Next]_(Ordered!vars)
<1> SUFFICES ASSUME IInv, [Next]_vars PROVE [Ordered!Next]_(Ordered!vars)
  OBVIOUS
<1>0. task \in [Calls -> Phases] /\ Calls = Ordered!Calls
  BY DEF IInv, TypeOK, Calls, Ordered!Calls
<1>1. ASSUME NEW i \in Calls, Start(i) PROVE [Ordered!Next]_(Ordered!vars)
  BY <1>0, <1>1, StartRefines DEF Ordered!Next
<1>2. ASSUME NEW i \in Calls, Execute(i) PROVE UNCHANGED Ordered!vars
  BY <1>0, <1>2, StutterRefines DEF Execute
<1>3. ASSUME NEW i \in Calls, NEW outcome \in Outcomes, Produce(i, outcome)
      PROVE  UNCHANGED Ordered!vars
  BY <1>0, <1>3, StutterRefines DEF Produce
<1>4. ASSUME NEW i \in Calls, NEW outcome \in Outcomes, Finish(i, outcome)
      PROVE  Ordered!Next
  BY <1>0, <1>4, FinishRefines DEF Ordered!Next
<1>5. CASE ResolveCheck
  BY <1>5, ResolveCheckRefines DEF Ordered!Next
<1>6. CASE Return
  BY <1>6, ReturnRefines DEF Ordered!Next
<1>7. CASE Steer \/ PopLastSteer \/ UNCHANGED vars
  BY <1>7 DEF Steer, PopLastSteer, vars, batchVars, Ordered!vars, Running, Calls
<1>8. QED
  BY <1>1, <1>2, <1>3, <1>4, <1>5, <1>6, <1>7 DEF Next, BatchStep

(* executeToolCalls keeps its promise to runLoopBody: calls behave as if   *)
(* run in the order of the message around the exclusive ones, are answered *)
(* once, and are skipped only after an interrupt, after which none begins. *)
THEOREM BatchIsOrdered == Spec => ImplementsOrderedBatch
<1>1. Init => Ordered!Init
  BY InitRefines
<1>2. IInv /\ [Next]_vars => [Ordered!Next]_(Ordered!vars)
  BY NextRefines
<1>3. QED BY <1>1, <1>2, SpecIInv, PTL DEF Spec, ImplementsOrderedBatch, Ordered!Spec

-----------------------------------------------------------------------------
(***************************************************************************)
(* The tool-choice queue.  What a directive may still yield depends on its *)
(* label, and at most one choice is in flight.                             *)
(***************************************************************************)
YieldsOf == [preview |-> {<<>>, <<"resolve">>},
             force   |-> {<<>>, <<"forced">>, <<"none">>, <<"forced", "none">>},
             todo    |-> {<<>>, <<"todo">>}]

Directives ==
    {d \in [label : Labels, preview : {0} \cup Previews, left : Seq(Yields)] :
        d.left \in YieldsOf[d.label] /\ (d.preview # 0 <=> d.label = "preview")}

ChoicesInFlight ==
    {f \in [label : Labels, preview : {0} \cup Previews, choice : Yields, used : BOOLEAN] :
        <<f.choice>> \in YieldsOf[f.label] /\ (f.preview # 0 <=> f.label = "preview")}

Mishaps == {"overwritten", "unanswered", "abandoned", "repeated", "kept"}

LoopTypes ==
    /\ phase \in {"idle", "waiting", "streaming", "tools"}
    /\ turn \in 0..MaxTurns
    /\ phase \in {"streaming", "tools"} => turn \in Turns
    /\ ended \in [Turns -> {"none", "ok", "failed", "settled"}]
    /\ stray \in BOOLEAN /\ prompting \in BOOLEAN /\ forced \in BOOLEAN
    /\ abort \in {"none", "signalled", "cleaning"}

ActionTypes ==
    /\ preview \in [Previews -> {"none", "pending", "unforceable", "applied", "discarded"}]
    /\ applied \in [Previews -> Nat]
    /\ called \in 0..MaxResolves
    /\ calls \subseteq [preview : Previews, decision : {"apply", "discard"}, turn : Turns,
                        id : 1..MaxResolves]

QueueTypes ==
    /\ queue \in Seq(Directives)
    /\ inFlight \subseteq ChoicesInFlight
    /\ \A f, g \in inFlight : f = g
    /\ settled \in Seq(Yields)
    /\ mishaps \subseteq Mishaps

ChoiceTypes == LoopTypes /\ ActionTypes /\ QueueTypes

(***************************************************************************)
(* The stages of what the user has forced.                                 *)
(***************************************************************************)
Forces == {Directive("force", 0, left) : left \in YieldsOf["force"] \ {<<>>}}
Both == <<Directive("force", 0, <<"forced", "none">>)>>
Apart == <<Directive("force", 0, <<"forced">>), Directive("force", 0, <<"none">>)>>
Rest == <<Directive("force", 0, <<"none">>)>>

(* The choice of the user in flight, or "".                                *)
InFlightIs(choice) == \E f \in inFlight : f.label = "force" /\ f.choice = choice
NoForceInFlight == \A f \in inFlight : f.label # "force"

Stage ==
    LET left == Among(queue, Forces)
    IN  \/ ~forced /\ settled = <<>> /\ NoForceInFlight /\ left = <<>>
        \/ forced /\ settled = <<>> /\ NoForceInFlight /\ left \in {Both, Apart}
        \/ forced /\ settled = <<>> /\ InFlightIs("forced") /\ left = Rest
        \/ forced /\ settled = <<"forced">> /\ NoForceInFlight /\ left = Rest
        \/ forced /\ settled = <<"forced">> /\ InFlightIs("none") /\ left = <<>>
        \/ forced /\ settled = <<"forced", "none">> /\ NoForceInFlight /\ left = <<>>

ForceServed == "overwritten" \notin mishaps => Stage

(***************************************************************************)
(* Where a preview is: queued, in flight with resolve yet to come, or being*)
(* resolved.                                                               *)
(***************************************************************************)
Queued(a) == Among(queue, {Pending(a)})
Offered(a) == \E f \in inFlight : f.preview = a /\ ~f.used
Resolving(a) == \E c \in calls : c.preview = a

Held ==
    mishaps \cap {"overwritten", "unanswered", "kept"} = {} =>
        \A a \in Previews : preview[a] = "pending" =>
            Queued(a) # <<>> \/ Offered(a) \/ Resolving(a)

(* It is in one of these places, once, and only while it is pending.       *)
HeldOnce(a) ==
    /\ Queued(a) \in {<<>>, <<Pending(a)>>}
    /\ Queued(a) # <<>> => ~Offered(a) /\ ~Resolving(a) /\ preview[a] = "pending"
    /\ Offered(a) => ~Resolving(a) /\ preview[a] = "pending"
    /\ Resolving(a) => preview[a] = "pending"
    /\ \A c, d \in calls : c.preview = a /\ d.preview = a => c = d
    /\ applied[a] = IF preview[a] = "applied" THEN 1 ELSE 0

OnePlace ==
    mishaps \cap {"abandoned", "repeated"} = {} => \A a \in Previews : HeldOnce(a)

ChoiceIInv == ChoiceTypes /\ ForceServed /\ Held /\ OnePlace

-----------------------------------------------------------------------------
(* Lemmas about directives and the queue *)

LEMMA KnownYields ==
    /\ YieldsOf["preview"] = {<<>>, <<"resolve">>}
    /\ YieldsOf["force"] = {<<>>, <<"forced">>, <<"none">>, <<"forced", "none">>}
    /\ YieldsOf["todo"] = {<<>>, <<"todo">>}
    /\ \A label \in Labels : <<>> \in YieldsOf[label] /\ YieldsOf[label] \subseteq Seq(Yields)
BY DEF YieldsOf, Labels, Yields

LEMMA PreviewsAre == Previews \subseteq Nat /\ 0 \notin Previews
BY ChoiceAssumption DEF Previews

LEMMA DirectiveType ==
    ASSUME NEW label \in Labels, NEW a \in {0} \cup Previews, NEW left \in YieldsOf[label],
           a # 0 <=> label = "preview"
    PROVE  Directive(label, a, left) \in Directives
<1>1. left \in Seq(Yields)
  BY KnownYields
<1>2. QED BY <1>1 DEF Directive, Directives

LEMMA PendingType == \A a \in Previews : Pending(a) \in Directives
<1> SUFFICES ASSUME NEW a \in Previews PROVE Pending(a) \in Directives
  OBVIOUS
<1>1. a # 0 /\ "preview" \in Labels /\ <<"resolve">> \in YieldsOf["preview"]
  BY PreviewsAre, KnownYields DEF Labels
<1> DEFINE left == <<"resolve">>
<1> HIDE DEF left
<1>2. left \in YieldsOf["preview"] => Directive("preview", a, left) \in Directives
  BY <1>1, DirectiveType
<1>3. QED BY <1>1, <1>2 DEF Pending, left

LEMMA DirectiveIs ==
    \A d \in Directives : /\ d = Directive(d.label, d.preview, d.left)
                          /\ d.label # "preview" => d.preview = 0
<1> SUFFICES ASSUME NEW d \in Directives
             PROVE  /\ d = Directive(d.label, d.preview, d.left)
                    /\ d.label # "preview" => d.preview = 0
  OBVIOUS
<1>1. d \in [label : Labels, preview : {0} \cup Previews, left : Seq(Yields)]
  BY DEF Directives
<1>2. d = Directive(d.label, d.preview, d.left)
  BY <1>1 DEF Directive
<1>3. QED BY <1>2 DEF Directives

LEMMA ForcesTyped == Forces \subseteq Directives
<1> SUFFICES ASSUME NEW left \in YieldsOf["force"]
             PROVE  Directive("force", 0, left) \in Directives
  BY DEF Forces
<1>1. "force" \in Labels
  BY DEF Labels
<1>2. QED BY <1>1, DirectiveType

(* What a directive yields next, and what it has left then.                *)
LEMMA YieldsNext ==
    ASSUME NEW d \in Directives, d.left # <<>>
    PROVE  /\ [d EXCEPT !.left = Tail(@)] \in Directives
           /\ [label |-> d.label, preview |-> d.preview, choice |-> Head(d.left),
               used |-> FALSE] \in ChoicesInFlight
           /\ d.label = "force" =>
                \/ d.left = <<"forced">> /\ Head(d.left) = "forced" /\ Tail(d.left) = <<>>
                \/ d.left = <<"none">> /\ Head(d.left) = "none" /\ Tail(d.left) = <<>>
                \/ d.left = <<"forced", "none">> /\ Head(d.left) = "forced" /\ Tail(d.left) = <<"none">>
           /\ d.label # "force" => Tail(d.left) = <<>>
           /\ d.label = "preview" => d = Pending(d.preview)
<1>1. d.label \in Labels /\ d.left \in YieldsOf[d.label] /\ d.preview \in {0} \cup Previews
  BY DEF Directives
<1>2. /\ d.label = "force" =>
           \/ d.left = <<"forced">> /\ Head(d.left) = "forced" /\ Tail(d.left) = <<>>
           \/ d.left = <<"none">> /\ Head(d.left) = "none" /\ Tail(d.left) = <<>>
           \/ d.left = <<"forced", "none">> /\ Head(d.left) = "forced" /\ Tail(d.left) = <<"none">>
      /\ d.label = "preview" => d.left = <<"resolve">> /\ Head(d.left) = "resolve" /\ Tail(d.left) = <<>>
      /\ d.label = "todo" => d.left = <<"todo">> /\ Head(d.left) = "todo" /\ Tail(d.left) = <<>>
  <2>1. CASE d.label = "force"
    <3>1. d.left \in {<<"forced">>, <<"none">>, <<"forced", "none">>}
      BY <1>1, <2>1, KnownYields, Zenon
    <3>2. /\ Head(<<"forced">>) = "forced" /\ Tail(<<"forced">>) = <<>>
          /\ Head(<<"none">>) = "none" /\ Tail(<<"none">>) = <<>>
          /\ Head(<<"forced", "none">>) = "forced" /\ Tail(<<"forced", "none">>) = <<"none">>
      OBVIOUS
    <3>3. \/ d.left = <<"forced">> /\ Head(d.left) = "forced" /\ Tail(d.left) = <<>>
          \/ d.left = <<"none">> /\ Head(d.left) = "none" /\ Tail(d.left) = <<>>
          \/ d.left = <<"forced", "none">> /\ Head(d.left) = "forced" /\ Tail(d.left) = <<"none">>
      BY <3>1, <3>2, Zenon
    <3>4. d.label # "preview" /\ d.label # "todo"
      BY <2>1
    <3>5. QED BY <3>3, <3>4, Zenon
  <2>2. CASE d.label = "preview"
    <3>1. d.left = <<"resolve">>
      BY <1>1, <2>2, KnownYields, Zenon
    <3>2. QED BY <2>2, <3>1
  <2>3. CASE d.label = "todo"
    <3>1. d.left = <<"todo">>
      BY <1>1, <2>3, KnownYields, Zenon
    <3>2. QED BY <2>3, <3>1
  <2>4. QED BY <1>1, <2>1, <2>2, <2>3 DEF Labels
<1>3. /\ Tail(d.left) \in YieldsOf[d.label]
      /\ <<Head(d.left)>> \in YieldsOf[d.label] /\ Head(d.left) \in Yields
  BY <1>1, <1>2, KnownYields DEF Labels, Yields
<1>4. Tail(d.left) \in Seq(Yields)
  BY <1>1, <1>3, KnownYields
<1>5. [d EXCEPT !.left = Tail(@)] \in Directives
  BY <1>1, <1>3, <1>4 DEF Directives
<1>6. [label |-> d.label, preview |-> d.preview, choice |-> Head(d.left), used |-> FALSE]
          \in ChoicesInFlight
  BY <1>1, <1>3 DEF Directives, ChoicesInFlight
<1>7. d.label = "preview" => d = Pending(d.preview)
  BY <1>2 DEF Directives, Pending, Directive
<1>8. QED BY <1>1, <1>2, <1>5, <1>6, <1>7 DEF Labels

(* A choice in flight that is put back.                                    *)
LEMMA PutBack ==
    ASSUME NEW f \in ChoicesInFlight
    PROVE  /\ Directive(f.label, f.preview, <<f.choice>>) \in Directives
           /\ f.label = "force" => f.choice \in {"forced", "none"} /\ f.preview = 0
           /\ f.preview # 0 => f.label = "preview" /\ f.choice = "resolve"
                               /\ Directive(f.label, f.preview, <<f.choice>>) = Pending(f.preview)
           /\ f.preview \in {0} \cup Previews
<1>1. /\ f.label \in Labels /\ f.preview \in {0} \cup Previews /\ <<f.choice>> \in YieldsOf[f.label]
      /\ f.preview # 0 <=> f.label = "preview"
  BY DEF ChoicesInFlight
<1>2. Directive(f.label, f.preview, <<f.choice>>) \in Directives
  <2> DEFINE left == <<f.choice>>
  <2>1. left \in YieldsOf[f.label]
    BY <1>1
  <2> HIDE DEF left
  <2>2. Directive(f.label, f.preview, left) \in Directives
    BY <1>1, <2>1, DirectiveType
  <2>3. QED BY <2>2 DEF left
<1>3. ASSUME f.label = "force" PROVE f.choice \in {"forced", "none"}
  <2>1. <<f.choice>> \in {<<>>, <<"forced">>, <<"none">>, <<"forced", "none">>}
    BY <1>1, <1>3, KnownYields, Zenon
  <2>2. QED BY <2>1
<1>4. ASSUME f.label = "preview" PROVE f.choice = "resolve"
  <2>1. <<f.choice>> \in {<<>>, <<"resolve">>}
    BY <1>1, <1>4, KnownYields, Zenon
  <2>2. QED BY <2>1
<1>5. QED BY <1>1, <1>2, <1>3, <1>4 DEF Labels, Pending

(* A directive at the head, and one at the end.                            *)
LEMMA PushedAtHead ==
    ASSUME NEW S, NEW s \in Seq(S), NEW x \in S
    PROVE  /\ <<x>> \o s \in Seq(S)
           /\ \A P : Among(<<x>> \o s, P) = IF x \in P THEN <<x>> \o Among(s, P) ELSE Among(s, P)
<1> DEFINE w == <<x>>
<1>1. w \in Seq(S) /\ w \o s \in Seq(S)
  OBVIOUS
<1>2. \A P : Among(w, P) = IF x \in P THEN w ELSE <<>>
  BY AmongOne
<1> HIDE DEF w
<1>3. \A P : Among(w \o s, P) = Among(w, P) \o Among(s, P)
  BY <1>1, AmongConcat
<1>4. \A P : <<>> \o Among(s, P) = Among(s, P)
  BY AmongType
<1>5. \A P : Among(w \o s, P) = IF x \in P THEN w \o Among(s, P) ELSE Among(s, P)
  BY <1>2, <1>3, <1>4
<1>6. QED BY <1>1, <1>5 DEF w

(* The mapping of a step of nextToolChoice to what is among the queue: the *)
(* first directive that is not exhausted yields.                           *)
LEMMA Advances ==
    ASSUME QueueTypes, NextToolChoice
    PROVE  \/ /\ queue' = <<>> /\ UNCHANGED <<inFlight, mishaps>>
              /\ \A P : (\A x \in P : x.left # <<>>) => Among(queue, P) = <<>>
           \/ \E d \in Directives, rest \in Seq(Directives) :
                /\ d.left # <<>>
                /\ queue' = <<[d EXCEPT !.left = Tail(@)]>> \o rest
                /\ inFlight' = {[label |-> d.label, preview |-> d.preview,
                                choice |-> Head(d.left), used |-> FALSE]}
                /\ mishaps' = mishaps \cup {m \in {"overwritten"} : inFlight # {}}
                /\ \A P : (\A x \in P : x.left # <<>>) =>
                      Among(queue, P) = IF d \in P THEN <<d>> \o Among(rest, P) ELSE Among(rest, P)
<1> DEFINE some == {i \in DOMAIN queue : queue[i].left # <<>>}
<1>0. queue \in Seq(Directives) /\ DOMAIN queue = 1..Len(queue) /\ Len(queue) \in Nat
  BY DEF QueueTypes
<1>1. CASE some = {}
  <2>1. queue' = <<>> /\ UNCHANGED <<inFlight, mishaps>>
    BY <1>1 DEF NextToolChoice
  <2>2. ASSUME NEW P, \A x \in P : x.left # <<>> PROVE Among(queue, P) = <<>>
    <3>1. \A k \in 1..Len(queue) : queue[k] \notin P
      BY <1>0, <1>1, <2>2
    <3>2. QED BY <1>0, <3>1, AmongNone
  <2>3. QED BY <2>1, <2>2
<1>2. CASE some # {}
  <2> DEFINE i == Min(some)
             d == queue[i]
             rest == SubSeq(queue, i + 1, Len(queue))
             gone == SubSeq(queue, 1, i - 1)
  <2>1. /\ queue' = <<[d EXCEPT !.left = Tail(@)]>> \o rest
        /\ inFlight' = {[label |-> d.label, preview |-> d.preview, choice |-> Head(d.left),
                        used |-> FALSE]}
        /\ mishaps' = mishaps \cup {m \in {"overwritten"} : inFlight # {}}
    BY <1>2 DEF NextToolChoice, Also
  <2>2. i \in some /\ \A j \in some : i <= j
    <3>1. some \subseteq Nat
      BY <1>0
    <3> HIDE DEF some
    <3>2. \E x \in some : \A y \in some : x <= y
      BY <1>2, <3>1, LeastNatural
    <3>3. QED BY <3>2 DEF Min
  <2>3. i \in 1..Len(queue) /\ d \in Directives /\ d.left # <<>>
    BY <1>0, <2>2
  <2>4. \A k \in 1..(i - 1) : queue[k].left = <<>>
    <3> SUFFICES ASSUME NEW k \in 1..(i - 1), queue[k].left # <<>> PROVE FALSE
      OBVIOUS
    <3>1. k \in DOMAIN queue /\ ~(i <= k)
      BY <1>0, <2>3
    <3>2. QED BY <2>2, <3>1
  <2> HIDE DEF i
  <2>5. /\ rest \in Seq(Directives) /\ gone \in Seq(Directives) /\ Len(gone) = i - 1
        /\ \A k \in 1..Len(gone) : gone[k] = queue[k]
    BY <1>0, <2>3
  <2>6. queue = gone \o (<<d>> \o rest)
    BY <1>0, <2>3, SplitAt
  <2> HIDE DEF d, rest, gone
  <2>7. ASSUME NEW P, \A x \in P : x.left # <<>>
        PROVE  Among(queue, P) = IF d \in P THEN <<d>> \o Among(rest, P) ELSE Among(rest, P)
    <3> DEFINE more == <<d>> \o rest
    <3>1. more \in Seq(Directives)
      BY <2>3, <2>5
    <3>2. Among(more, P) = IF d \in P THEN <<d>> \o Among(rest, P) ELSE Among(rest, P)
      BY <2>3, <2>5, PushedAtHead
    <3> HIDE DEF more
    <3>3. Among(gone \o more, P) = Among(gone, P) \o Among(more, P)
      BY <2>5, <3>1, AmongConcat
    <3>4. Among(gone, P) = <<>>
      <4>1. \A k \in 1..Len(gone) : gone[k] \notin P
        BY <2>4, <2>5, <2>7
      <4>2. QED BY <2>5, <4>1, AmongNone
    <3>5. <<>> \o Among(more, P) = Among(more, P)
      <4>1. Among(more, P) \in Seq(Directives)
        BY <3>1, AmongType
      <4>2. QED BY <4>1
    <3>6. QED BY <2>6, <3>2, <3>3, <3>4, <3>5 DEF more
  <2>8. QED BY <2>1, <2>3, <2>5, <2>7
<1>3. QED BY <1>1, <1>2

-----------------------------------------------------------------------------
(* The types *)

LEMMA RequeuedIs ==
    ASSUME QueueTypes, NEW f \in inFlight
    PROVE  LET d == Directive(f.label, f.preview, <<f.choice>>)
           IN  /\ d \in Directives /\ Requeue(f) \in Seq(Directives)
               /\ \A P : Among(Requeue(f), P) = IF f.label # "todo" /\ d \in P
                                                THEN <<d>> \o Among(queue, P)
                                                ELSE Among(queue, P)
<1> DEFINE d == Directive(f.label, f.preview, <<f.choice>>)
<1>1. d \in Directives /\ queue \in Seq(Directives)
  BY PutBack DEF QueueTypes
<1>2. Requeue(f) = IF f.label = "todo" THEN queue ELSE <<d>> \o queue
  BY DEF Requeue
<1> HIDE DEF d
<1>3. /\ <<d>> \o queue \in Seq(Directives)
      /\ \A P : Among(<<d>> \o queue, P) = IF d \in P THEN <<d>> \o Among(queue, P)
                                            ELSE Among(queue, P)
  BY <1>1, PushedAtHead
<1>4. Requeue(f) \in Seq(Directives)
  BY <1>1, <1>2, <1>3
<1>5. \A P : Among(Requeue(f), P) = IF f.label # "todo" /\ d \in P
                                   THEN <<d>> \o Among(queue, P) ELSE Among(queue, P)
  BY <1>2, <1>3
<1>6. QED BY <1>1, <1>4, <1>5 DEF d

(* removeByLabel drops no directive but the todo list.                     *)
LEMMA SweptIs ==
    ASSUME QueueTypes, EndPrompt
    PROVE  /\ queue' \in Seq(Directives)
           /\ \A P : (\A d \in P : d.label # "todo") => Among(queue', P) = Among(queue, P)
<1> DEFINE Q == {d \in Directives : d.label # "todo"}
<1>1. queue \in Seq(Directives) /\ DOMAIN queue = 1..Len(queue) /\ Len(queue) \in Nat
  BY DEF QueueTypes
<1>2. queue' = Filtered(queue, {i \in DOMAIN queue : queue[i].label # "todo"})
  BY DEF EndPrompt
<1>3. queue' = Among(queue, Q)
  <2> DEFINE K == {i \in DOMAIN queue : queue[i].label # "todo"}
             J == {i \in DOMAIN queue : queue[i] \in Q}
  <2>1. K = J
    BY <1>1
  <2>2. QED BY <1>2, <2>1 DEF Among
<1> HIDE DEF Q
<1>4. queue' \in Seq(Directives)
  BY <1>1, <1>3, AmongType
<1>5. ASSUME NEW P, \A d \in P : d.label # "todo" PROVE Among(queue', P) = Among(queue, P)
  <2>1. \A x \in Directives : x \in P => x \in Q
    BY <1>5 DEF Q
  <2>2. Among(Among(queue, Q), P) = Among(queue, P)
    BY <1>1, <2>1, AmongTwice
  <2>3. QED BY <1>3, <2>2
<1>6. QED BY <1>4, <1>5

LEMMA MishapsGrow == [ChoiceNext]_choiceVars => mishaps \subseteq mishaps'
<1> SUFFICES ASSUME [ChoiceNext]_choiceVars PROVE mishaps \subseteq mishaps'
  OBVIOUS
<1> USE DEF Also, loopVars, promptVars, abortVars, actionVars, userVars
<1>1. CASE UNCHANGED choiceVars
  BY <1>1 DEF choiceVars
<1>2. CASE SetForcedToolChoice \/ Prompt \/ Continue \/ EndPrompt \/ Abort \/ AbortedIdle
  <2>1. CASE SetForcedToolChoice
    BY <2>1 DEF SetForcedToolChoice
  <2>2. CASE Prompt
    BY <2>2 DEF Prompt
  <2>3. CASE Continue
    BY <2>3 DEF Continue
  <2>4. CASE EndPrompt
    BY <2>4 DEF EndPrompt
  <2>5. CASE Abort
    BY <2>5 DEF Abort
  <2>6. CASE AbortedIdle
    BY <2>6 DEF AbortedIdle
  <2>7. QED BY <1>2, <2>1, <2>2, <2>3, <2>4, <2>5, <2>6
<1>3. CASE EndAbort
  BY <1>3 DEF EndAbort, Reject
<1>4. CASE CallModel
  BY <1>4 DEF CallModel, NextToolChoice
<1>5. CASE Leak \/ Answer \/ AnswerFails \/ Throw \/ EndTurn
  BY <1>5 DEF Leak, Answer, AnswerFails, Throw, EndTurn
<1>6. CASE \E t \in Turns : TurnEnd(t)
  BY <1>6 DEF TurnEnd, Resolve, Reject
<1>7. CASE \E a \in Previews : MakePreview(a) \/ MakeUnforceable(a)
  BY <1>7 DEF MakePreview, MakeUnforceable
<1>8. CASE \E decision \in {"apply", "discard"} : CallResolve(decision)
  BY <1>8 DEF CallResolve
<1>9. CASE \E c \in calls : EndResolve(c) \/ ResolveFails(c)
  BY <1>9 DEF EndResolve, ResolveFails
<1>10. QED BY <1>1, <1>2, <1>3, <1>4, <1>5, <1>6, <1>7, <1>8, <1>9 DEF ChoiceNext

LEMMA LoopTypesStep == LoopTypes /\ [ChoiceNext]_choiceVars => LoopTypes'
<1> SUFFICES ASSUME LoopTypes, [ChoiceNext]_choiceVars PROVE LoopTypes'
  OBVIOUS
<1> USE ChoiceAssumption DEF LoopTypes, Turns, loopVars, promptVars, abortVars, userVars
<1>1. CASE UNCHANGED choiceVars
  BY <1>1 DEF choiceVars
<1>2. CASE \/ SetForcedToolChoice \/ Prompt \/ Continue \/ EndPrompt
           \/ Abort \/ AbortedIdle \/ EndAbort
  <2>1. CASE SetForcedToolChoice
    BY <2>1 DEF SetForcedToolChoice
  <2>2. CASE Prompt
    BY <2>2 DEF Prompt
  <2>3. CASE Continue
    BY <2>3 DEF Continue
  <2>4. CASE EndPrompt
    BY <2>4 DEF EndPrompt
  <2>5. CASE Abort
    BY <2>5 DEF Abort
  <2>6. CASE AbortedIdle
    BY <2>6 DEF AbortedIdle
  <2>7. CASE EndAbort
    BY <2>7 DEF EndAbort
  <2>8. QED BY <1>2, <2>1, <2>2, <2>3, <2>4, <2>5, <2>6, <2>7
<1>3. CASE CallModel
  BY <1>3 DEF CallModel
<1>4. CASE Leak \/ Answer \/ Throw
  BY <1>4 DEF Leak, Answer, Throw
<1>5. CASE AnswerFails \/ EndTurn
  BY <1>5 DEF AnswerFails, EndTurn
<1>6. CASE \E t \in Turns : TurnEnd(t)
  BY <1>6 DEF TurnEnd
<1>7. CASE \E a \in Previews : MakePreview(a) \/ MakeUnforceable(a)
  BY <1>7 DEF MakePreview, MakeUnforceable
<1>8. CASE \E decision \in {"apply", "discard"} : CallResolve(decision)
  BY <1>8 DEF CallResolve
<1>9. CASE \E c \in calls : EndResolve(c) \/ ResolveFails(c)
  BY <1>9 DEF EndResolve, ResolveFails
<1>10. QED BY <1>1, <1>2, <1>3, <1>4, <1>5, <1>6, <1>7, <1>8, <1>9 DEF ChoiceNext

LEMMA ActionTypesStep == ChoiceTypes /\ [ChoiceNext]_choiceVars => ActionTypes'
<1> SUFFICES ASSUME ChoiceTypes, [ChoiceNext]_choiceVars PROVE ActionTypes'
  OBVIOUS
<1> USE DEF ChoiceTypes, ActionTypes, actionVars
<1>1. CASE UNCHANGED choiceVars
  BY <1>1 DEF choiceVars
<1>2. CASE \/ SetForcedToolChoice \/ Prompt \/ Continue \/ EndPrompt
           \/ Abort \/ AbortedIdle \/ EndAbort
  <2>1. CASE SetForcedToolChoice
    BY <2>1 DEF SetForcedToolChoice
  <2>2. CASE Prompt
    BY <2>2 DEF Prompt
  <2>3. CASE Continue
    BY <2>3 DEF Continue
  <2>4. CASE EndPrompt
    BY <2>4 DEF EndPrompt
  <2>5. CASE Abort
    BY <2>5 DEF Abort
  <2>6. CASE AbortedIdle
    BY <2>6 DEF AbortedIdle
  <2>7. CASE EndAbort
    BY <2>7 DEF EndAbort
  <2>8. QED BY <1>2, <2>1, <2>2, <2>3, <2>4, <2>5, <2>6, <2>7
<1>3. CASE CallModel \/ Leak \/ Answer \/ AnswerFails \/ Throw \/ EndTurn
  BY <1>3 DEF CallModel, Leak, Answer, AnswerFails, Throw, EndTurn
<1>4. CASE \E t \in Turns : TurnEnd(t)
  BY <1>4 DEF TurnEnd
<1>5. CASE \E a \in Previews : MakePreview(a) \/ MakeUnforceable(a)
  BY <1>5 DEF MakePreview, MakeUnforceable
<1>6. ASSUME NEW decision \in {"apply", "discard"}, CallResolve(decision) PROVE ActionTypes'
  <2>1. PICK f \in inFlight :
           /\ f.preview # 0
           /\ called' = called + 1
           /\ calls' = calls \cup {[preview |-> f.preview, decision |-> decision, turn |-> turn,
                                    id |-> called']}
    BY <1>6 DEF CallResolve
  <2>2. f.preview \in Previews
    BY <2>1, PutBack DEF QueueTypes
  <2>3. called < MaxResolves /\ turn \in Turns /\ UNCHANGED <<preview, applied>>
    BY <1>6 DEF CallResolve, LoopTypes
  <2>4. called' \in 1..MaxResolves
    BY <2>1, <2>3, ChoiceAssumption
  <2>5. calls' \subseteq [preview : Previews, decision : {"apply", "discard"}, turn : Turns,
                          id : 1..MaxResolves]
    BY <2>1, <2>2, <2>3, <2>4
  <2>6. called' \in 0..MaxResolves
    BY <2>4, ChoiceAssumption
  <2>7. QED BY <2>3, <2>5, <2>6
<1>7. ASSUME NEW c \in calls, EndResolve(c) PROVE ActionTypes'
  BY <1>7 DEF EndResolve
<1>8. ASSUME NEW c \in calls, ResolveFails(c) PROVE ActionTypes'
  BY <1>8 DEF ResolveFails
<1>9. QED BY <1>1, <1>2, <1>3, <1>4, <1>5, <1>6, <1>7, <1>8 DEF ChoiceNext

LEMMA ResolveTypes == QueueTypes /\ inFlight # {} /\ Resolve => QueueTypes'
<1> SUFFICES ASSUME QueueTypes, inFlight # {}, Resolve PROVE QueueTypes'
  OBVIOUS
<1>1. settled' \in Seq(Yields)
  <2> DEFINE f == CHOOSE f \in inFlight : TRUE
  <2>1. f \in inFlight
    OBVIOUS
  <2>2. f.choice \in Yields
    BY <2>1 DEF QueueTypes, ChoicesInFlight
  <2> HIDE DEF f
  <2>3. <<f.choice>> \in Seq(Yields) /\ <<>> \in Seq(Yields) /\ settled \in Seq(Yields)
    BY <2>2 DEF QueueTypes
  <2> DEFINE more == IF \E g \in inFlight : g.label = "force" THEN <<f.choice>> ELSE <<>>
  <2>4. settled' = settled \o more
    BY DEF Resolve, f
  <2>5. more \in Seq(Yields)
    BY <2>3
  <2> HIDE DEF more
  <2>6. QED BY <2>3, <2>4, <2>5
<1>2. inFlight' = {} /\ queue' = queue /\ mishaps' \subseteq Mishaps
  BY DEF Resolve, QueueTypes, Mishaps
<1>3. QED BY <1>1, <1>2 DEF QueueTypes

LEMMA RejectTypes == QueueTypes /\ Reject => QueueTypes'
<1> SUFFICES ASSUME QueueTypes, Reject PROVE QueueTypes'
  OBVIOUS
<1>1. PICK f \in inFlight :
         queue' = Requeue(f) /\ mishaps' = mishaps \cup {m \in {"abandoned"} : f.used}
  BY DEF Reject
<1>2. Requeue(f) \in Seq(Directives)
  BY RequeuedIs
<1>3. inFlight' = {} /\ settled' = settled
  BY DEF Reject
<1>4. mishaps' \subseteq Mishaps
  BY <1>1 DEF QueueTypes, Mishaps
<1>5. queue' \in Seq(Directives)
  BY <1>1, <1>2
<1>6. QED BY <1>3, <1>4, <1>5 DEF QueueTypes

LEMMA QueueTypesStep == ChoiceTypes /\ [ChoiceNext]_choiceVars => QueueTypes'
<1> SUFFICES ASSUME ChoiceTypes, [ChoiceNext]_choiceVars PROVE QueueTypes'
  OBVIOUS
<1> USE DEF ChoiceTypes, userVars
<1>0. queue \in Seq(Directives)
  BY DEF QueueTypes
<1>1. CASE UNCHANGED choiceVars
  BY <1>1 DEF choiceVars, QueueTypes
<1>2. CASE SetForcedToolChoice
  <2> DEFINE d == Directive("force", 0, <<"forced", "none">>)
             left == <<"forced", "none">>
  <2>1. queue' = Append(queue, d) /\ UNCHANGED <<inFlight, settled, mishaps>>
    BY <1>2 DEF SetForcedToolChoice
  <2>2. d \in Directives
    <3>1. left \in YieldsOf["force"] /\ "force" \in Labels
      BY KnownYields DEF Labels
    <3> HIDE DEF left
    <3>2. Directive("force", 0, left) \in Directives
      BY <3>1, DirectiveType
    <3>3. QED BY <3>2 DEF left
  <2> HIDE DEF d
  <2>3. queue' \in Seq(Directives)
    BY <1>0, <2>1, <2>2
  <2>4. QED BY <2>1, <2>3 DEF QueueTypes
<1>3. CASE Prompt
  <2> DEFINE d == Directive("todo", 0, <<"todo">>)
             left == <<"todo">>
  <2>1. (queue' = queue \/ queue' = Append(queue, d)) /\ UNCHANGED <<inFlight, settled, mishaps>>
    BY <1>3 DEF Prompt
  <2>2. d \in Directives
    <3>1. left \in YieldsOf["todo"] /\ "todo" \in Labels
      BY KnownYields DEF Labels
    <3> HIDE DEF left
    <3>2. Directive("todo", 0, left) \in Directives
      BY <3>1, DirectiveType
    <3>3. QED BY <3>2 DEF left
  <2> HIDE DEF d
  <2>3. queue' \in Seq(Directives)
    BY <1>0, <2>1, <2>2
  <2>4. QED BY <2>1, <2>3 DEF QueueTypes
<1>4. CASE EndPrompt
  <2>1. queue' \in Seq(Directives)
    BY <1>4, SweptIs
  <2>2. inFlight' \subseteq inFlight /\ UNCHANGED <<settled, mishaps>>
    BY <1>4 DEF EndPrompt
  <2>3. QED BY <2>1, <2>2 DEF QueueTypes
<1>5. CASE EndAbort
  <2>1. CASE inFlight = {}
    BY <1>5, <2>1 DEF EndAbort, QueueTypes
  <2>2. CASE inFlight # {}
    BY <1>5, <2>2, RejectTypes DEF EndAbort
  <2>3. QED BY <2>1, <2>2
<1>6. CASE CallModel
  <2>1. NextToolChoice /\ UNCHANGED settled
    BY <1>6 DEF CallModel
  <2>2. CASE queue' = <<>> /\ UNCHANGED <<inFlight, mishaps>>
    <3>1. <<>> \in Seq(Directives)
      OBVIOUS
    <3>2. QED BY <2>1, <2>2, <3>1 DEF QueueTypes
  <2>3. ASSUME NEW d \in Directives, NEW rest \in Seq(Directives), d.left # <<>>,
               queue' = <<[d EXCEPT !.left = Tail(@)]>> \o rest,
               inFlight' = {[label |-> d.label, preview |-> d.preview,
                             choice |-> Head(d.left), used |-> FALSE]},
               mishaps' = mishaps \cup {m \in {"overwritten"} : inFlight # {}}
        PROVE  QueueTypes'
    <3> DEFINE e == [d EXCEPT !.left = Tail(@)]
               g == [label |-> d.label, preview |-> d.preview, choice |-> Head(d.left),
                     used |-> FALSE]
    <3>1. e \in Directives /\ g \in ChoicesInFlight
      BY <2>3, YieldsNext
    <3>2. queue' = <<e>> \o rest /\ inFlight' = {g}
      BY <2>3
    <3> HIDE DEF e, g
    <3>3. <<e>> \o rest \in Seq(Directives)
      BY <3>1, PushedAtHead
    <3>4. mishaps' \subseteq Mishaps
      BY <2>3 DEF QueueTypes, Mishaps
    <3>5. QED BY <2>1, <3>1, <3>2, <3>3, <3>4 DEF QueueTypes
  <2>4. QED BY <2>1, <2>2, <2>3, Advances
<1>7. CASE Continue \/ Abort \/ AbortedIdle \/ Leak \/ Answer \/ AnswerFails \/ Throw \/ EndTurn
  BY <1>7 DEF Continue, Abort, AbortedIdle, Leak, Answer, AnswerFails, Throw, EndTurn, QueueTypes
<1>8. ASSUME NEW t \in Turns, TurnEnd(t) PROVE QueueTypes'
  <2>1. CASE inFlight = {}
    BY <1>8, <2>1 DEF TurnEnd, QueueTypes
  <2>2. CASE inFlight # {}
    BY <1>8, <2>2, ResolveTypes, RejectTypes DEF TurnEnd
  <2>3. QED BY <2>1, <2>2
<1>u. ASSUME NEW a \in Previews, MakeUnforceable(a) PROVE QueueTypes'
  BY <1>u DEF MakeUnforceable, QueueTypes
<1>9. ASSUME NEW a \in Previews, MakePreview(a) PROVE QueueTypes'
  <2>1. queue' = <<Pending(a)>> \o queue /\ UNCHANGED <<inFlight, settled, mishaps>>
    BY <1>9 DEF MakePreview
  <2>2. queue' \in Seq(Directives)
    BY <1>0, <2>1, PendingType, PushedAtHead
  <2>3. QED BY <2>1, <2>2 DEF QueueTypes
<1>10. ASSUME NEW decision \in {"apply", "discard"}, CallResolve(decision) PROVE QueueTypes'
  <2>1. PICK f \in inFlight :
           inFlight' = {[f EXCEPT !.used = TRUE]} /\ Also("repeated", f.used)
    BY <1>10 DEF CallResolve
  <2>2. [f EXCEPT !.used = TRUE] \in ChoicesInFlight
    BY DEF QueueTypes, ChoicesInFlight
  <2>3. UNCHANGED <<queue, settled>>
    BY <1>10 DEF CallResolve
  <2>4. QED BY <2>1, <2>2, <2>3 DEF QueueTypes, Also, Mishaps
<1>11. ASSUME NEW c \in calls, EndResolve(c) PROVE QueueTypes'
  BY <1>11 DEF EndResolve, QueueTypes
<1>12. ASSUME NEW c \in calls, ResolveFails(c) PROVE QueueTypes'
  <2>1. c.preview \in Previews
    BY DEF ActionTypes
  <2>2. queue' = queue \/ queue' = <<Pending(c.preview)>> \o queue
    BY <1>12 DEF ResolveFails
  <2> DEFINE d == Pending(c.preview)
  <2>3. d \in Directives
    BY <2>1, PendingType
  <2> HIDE DEF d
  <2>4. <<d>> \o queue \in Seq(Directives)
    BY <1>0, <2>3, PushedAtHead
  <2>5. queue' \in Seq(Directives)
    BY <1>0, <2>2, <2>4 DEF d
  <2>6. UNCHANGED <<inFlight, settled>> /\ mishaps' \subseteq Mishaps
    BY <1>12 DEF ResolveFails, Also, QueueTypes, Mishaps
  <2>7. QED BY <2>5, <2>6 DEF QueueTypes
<1>13. QED BY <1>1, <1>2, <1>3, <1>4, <1>5, <1>6, <1>7, <1>8, <1>9, <1>10, <1>11, <1>12,
           <1>u            DEF ChoiceNext

-----------------------------------------------------------------------------
(* The stages of what the user has forced *)

LEMMA ForcesOpen ==
    /\ \A x \in Forces : x.left # <<>> /\ x.label = "force" /\ x.label # "todo"
    /\ \A a : Pending(a) \notin Forces
    /\ \A x \in Directives : x.left # <<>> /\ x.label = "force" => x \in Forces
    /\ \A left \in YieldsOf["force"] \ {<<>>} : Directive("force", 0, left) \in Forces
<1>1. ASSUME NEW x \in Directives, x.left # <<>>, x.label = "force" PROVE x \in Forces
  <2>1. x = Directive("force", 0, x.left) /\ x.left \in YieldsOf["force"]
    BY <1>1, DirectiveIs DEF Directives
  <2>2. QED BY <1>1, <2>1 DEF Forces
<1>2. \A x \in Forces : x.left # <<>> /\ x.label = "force" /\ x.label # "todo"
  BY DEF Forces, Directive
<1>3. \A a : Pending(a) \notin Forces
  <2>1. \A a : Pending(a).label = "preview"
    BY DEF Pending, Directive
  <2>2. QED BY <1>2, <2>1
<1>4. \A left \in YieldsOf["force"] \ {<<>>} : Directive("force", 0, left) \in Forces
  BY DEF Forces
<1>5. QED BY <1>1, <1>2, <1>3, <1>4

LEMMA FirstOf ==
    ASSUME NEW d \in Directives, NEW r \in Seq(Directives)
    PROVE  /\ <<d>> \o r # <<>>
           /\ \A x : <<d>> \o r = <<x>> => d = x /\ r = <<>>
           /\ \A x, y : <<d>> \o r = <<x, y>> => d = x /\ r = <<y>>
<1> DEFINE s == <<d>> \o r
<1>1. /\ Len(r) \in Nat /\ Len(s) = Len(r) + 1 /\ s[1] = d
      /\ (Len(r) = 0 => r = <<>>) /\ (Len(r) = 1 => r = <<r[1]>> /\ s[2] = r[1])
  OBVIOUS
<1> HIDE DEF s
<1>2. s # <<>>
  BY <1>1
<1>3. ASSUME NEW x, s = <<x>> PROVE d = x /\ r = <<>>
  BY <1>1, <1>3
<1>4. ASSUME NEW x, NEW y, s = <<x, y>> PROVE d = x /\ r = <<y>>
  <2>1. Len(s) = 2 /\ s[1] = x /\ s[2] = y
    BY <1>4
  <2>2. Len(r) = 1
    <3>1. Len(r) \in Nat /\ Len(s) = Len(r) + 1
      BY <1>1
    <3>2. Len(s) = 2
      BY <2>1
    <3>3. \A n \in Nat : n + 1 = 2 => n = 1
      OBVIOUS
    <3>4. QED BY <3>1, <3>2, <3>3, Zenon
  <2>3. QED BY <1>1, <2>1, <2>2
<1>5. QED BY <1>2, <1>3, <1>4 DEF s

LEMMA PairOf ==
    ASSUME NEW S, NEW x \in S, NEW y \in S
    PROVE  <<x>> \o <<y>> = <<x, y>>
<1>1. <<x>> \in Seq(S)
  OBVIOUS
<1>2. <<x>> \o <<y>> = Append(<<x>>, y)
  BY <1>1, AppendIsConcat
<1>3. Append(<<x>>, y) = <<x, y>>
  <2> DEFINE a == Append(<<x>>, y)
             b == <<x, y>>
  <2>1. a \in Seq(S) /\ Len(a) = 2 /\ a[1] = x /\ a[2] = y
    BY <1>1
  <2>2. b \in Seq(S) /\ Len(b) = 2 /\ b[1] = x /\ b[2] = y
    OBVIOUS
  <2> HIDE DEF a, b
  <2>3. \A i \in 1..2 : a[i] = b[i]
    BY <2>1, <2>2
  <2>4. a = b
    BY <2>1, <2>2, <2>3, SeqEqual
  <2>5. QED BY <2>4 DEF a, b
<1>4. QED BY <1>2, <1>3

LEMMA StageKept ==
    ASSUME Stage, Among(queue', Forces) = Among(queue, Forces),
           UNCHANGED <<forced, settled>>,
           InFlightIs("forced")' <=> InFlightIs("forced"),
           InFlightIs("none")' <=> InFlightIs("none"),
           NoForceInFlight' <=> NoForceInFlight
    PROVE  Stage'
BY DEF Stage

LEMMA StageAdvances ==
    ASSUME ChoiceTypes, Stage, inFlight = {}, UNCHANGED <<forced, settled>>,
           NEW d \in Directives, NEW rest \in Seq(Directives), d.left # <<>>,
           queue' = <<[d EXCEPT !.left = Tail(@)]>> \o rest,
           inFlight' = {[label |-> d.label, preview |-> d.preview,
                         choice |-> Head(d.left), used |-> FALSE]},
           Among(queue, Forces) = IF d \in Forces THEN <<d>> \o Among(rest, Forces)
                                  ELSE Among(rest, Forces)
    PROVE  Stage'
<1> DEFINE e == [d EXCEPT !.left = Tail(@)]
           r == Among(rest, Forces)
           left == Among(queue, Forces)
<1>1. e \in Directives /\ e.left = Tail(d.left) /\ e.label = d.label /\ e.preview = d.preview
  BY YieldsNext DEF Directives
<1>2. r \in Seq(Directives)
  BY AmongType
<1>3. Among(queue', Forces) = IF e \in Forces THEN <<e>> \o r ELSE r
  <2> HIDE DEF e
  <2>1. Among(<<e>> \o rest, Forces) = IF e \in Forces THEN <<e>> \o r ELSE r
    BY <1>1, PushedAtHead
  <2>2. QED BY <2>1 DEF e
<1>4. left = IF d \in Forces THEN <<d>> \o r ELSE r
  OBVIOUS
<1>5. NoForceInFlight /\ ~InFlightIs("forced") /\ ~InFlightIs("none")
  BY DEF NoForceInFlight, InFlightIs
<1>6. /\ NoForceInFlight' <=> d.label # "force"
      /\ \A choice : InFlightIs(choice)' <=> d.label = "force" /\ Head(d.left) = choice
  BY DEF NoForceInFlight, InFlightIs
<1>7. CASE d.label # "force"
  <2>1. d \notin Forces /\ e \notin Forces
    BY <1>1, <1>7, ForcesOpen
  <2>2. Among(queue', Forces) = left
    BY <1>3, <1>4, <2>1
  <2>3. NoForceInFlight' /\ ~InFlightIs("forced")' /\ ~InFlightIs("none")'
    BY <1>6, <1>7
  <2>4. QED BY <1>5, <2>2, <2>3, StageKept
<1>8. CASE d.label = "force"
  <2>1. d \in Forces /\ left = <<d>> \o r
    BY <1>4, <1>8, ForcesOpen
  <2>2. e \in Forces <=> Tail(d.left) # <<>>
    BY <1>1, <1>8, ForcesOpen
  <2>3. e = Directive("force", 0, Tail(d.left))
    BY <1>1, <1>8, DirectiveIs
  <2> HIDE DEF e, r, left
  <2>0. /\ <<d>> \o r # <<>>
        /\ \A x : <<d>> \o r = <<x>> => d = x /\ r = <<>>
        /\ \A x, y : <<d>> \o r = <<x, y>> => d = x /\ r = <<y>>
    <3>1. d \in Directives /\ r \in Seq(Directives)
      BY <1>2
    <3>2. QED BY <3>1, FirstOf, Zenon
  <2>4. /\ left # <<>>
        /\ \A x : left = <<x>> => d = x /\ r = <<>>
        /\ \A x, y : left = <<x, y>> => d = x /\ r = <<y>>
    BY <2>0, <2>1
  <2>5. \/ forced /\ settled = <<>> /\ left \in {Both, Apart}
        \/ forced /\ settled = <<"forced">> /\ left = Rest
    BY <1>5, <2>4 DEF Stage, left
  <2>6. \A x : Directive("force", 0, x).left = x
    BY DEF Directive
  <2>7. CASE forced /\ settled = <<>> /\ left = Both
    <3>1. d.left = <<"forced", "none">> /\ r = <<>>
      BY <2>4, <2>6, <2>7 DEF Both
    <3>2. Head(d.left) = "forced" /\ Tail(d.left) = <<"none">>
      BY <3>1
    <3>3. Among(queue', Forces) = Rest
      <4>1. <<e>> \o <<>> = <<e>>
        BY <1>1
      <4>2. <<"none">> # <<>>
        OBVIOUS
      <4>3. QED BY <1>3, <2>2, <2>3, <3>1, <3>2, <4>1, <4>2 DEF e, r, Rest
    <3>4. InFlightIs("forced")'
      BY <1>6, <1>8, <3>2
    <3>5. QED BY <2>7, <3>3, <3>4 DEF Stage
  <2>8. CASE forced /\ settled = <<>> /\ left = Apart
    <3>1. d.left = <<"forced">> /\ r = Rest
      BY <2>4, <2>6, <2>8 DEF Apart, Rest
    <3>2. Head(d.left) = "forced" /\ Tail(d.left) = <<>>
      BY <3>1
    <3>3. Among(queue', Forces) = Rest
      BY <1>3, <2>2, <3>1, <3>2 DEF e, r
    <3>4. InFlightIs("forced")'
      BY <1>6, <1>8, <3>2
    <3>5. QED BY <2>8, <3>3, <3>4 DEF Stage
  <2>9. CASE forced /\ settled = <<"forced">> /\ left = Rest
    <3>1. d.left = <<"none">> /\ r = <<>>
      BY <2>4, <2>6, <2>9 DEF Rest
    <3>2. Head(d.left) = "none" /\ Tail(d.left) = <<>>
      BY <3>1
    <3>3. Among(queue', Forces) = <<>>
      BY <1>3, <2>2, <3>1, <3>2 DEF e, r
    <3>4. InFlightIs("none")'
      BY <1>6, <1>8, <3>2
    <3>5. QED BY <2>9, <3>3, <3>4 DEF Stage
  <2>10. QED BY <2>5, <2>7, <2>8, <2>9
<1>9. QED BY <1>7, <1>8

LEMMA StageSettles ==
    ASSUME ChoiceTypes, Stage, inFlight # {}, Resolve, UNCHANGED forced
    PROVE  Stage'
<1> DEFINE f == CHOOSE f \in inFlight : TRUE
           left == Among(queue, Forces)
<1>1. f \in inFlight /\ \A g \in inFlight : g = f
  BY DEF ChoiceTypes, QueueTypes
<1>2. f \in ChoicesInFlight
  BY <1>1 DEF ChoiceTypes, QueueTypes
<1>3. /\ settled' = settled \o IF \E g \in inFlight : g.label = "force" THEN <<f.choice>> ELSE <<>>
      /\ inFlight' = {} /\ queue' = queue
  BY DEF Resolve
<1> HIDE DEF f
<1>4. Among(queue', Forces) = left /\ NoForceInFlight'
  BY <1>3 DEF NoForceInFlight
<1>5. CASE f.label # "force"
  <2>1. NoForceInFlight /\ ~InFlightIs("forced") /\ ~InFlightIs("none")
    BY <1>1, <1>5 DEF NoForceInFlight, InFlightIs
  <2>2. settled' = settled
    <3>1. settled' = settled \o <<>>
      BY <1>1, <1>3, <1>5
    <3>2. QED BY <3>1 DEF ChoiceTypes, QueueTypes
  <2>3. ~InFlightIs("forced")' /\ ~InFlightIs("none")'
    BY <1>3 DEF InFlightIs
  <2>4. QED BY <1>4, <2>1, <2>2, <2>3, StageKept
<1>6. CASE f.label = "force"
  <2>1. ~NoForceInFlight /\ \A choice : InFlightIs(choice) <=> f.choice = choice
    BY <1>1, <1>6 DEF NoForceInFlight, InFlightIs
  <2>2. settled' = settled \o <<f.choice>>
    BY <1>1, <1>3, <1>6
  <2>3. \/ forced /\ settled = <<>> /\ f.choice = "forced" /\ left = Rest
        \/ forced /\ settled = <<"forced">> /\ f.choice = "none" /\ left = <<>>
    BY <2>1 DEF Stage
  <2>4. <<>> \o <<"forced">> = <<"forced">> /\ <<"forced">> \o <<"none">> = <<"forced", "none">>
    <3>1. "forced" \in Yields /\ "none" \in Yields
      BY DEF Yields
    <3>2. <<"forced">> \o <<"none">> = <<"forced", "none">>
      BY <3>1, PairOf
    <3>3. <<"forced">> \in Seq(Yields)
      BY <3>1
    <3>4. QED BY <3>2, <3>3
  <2>5. CASE forced /\ settled = <<>> /\ f.choice = "forced" /\ left = Rest
    <3>1. settled' = <<"forced">>
      BY <2>2, <2>4, <2>5
    <3>2. QED BY <1>4, <2>5, <3>1 DEF Stage
  <2>6. CASE forced /\ settled = <<"forced">> /\ f.choice = "none" /\ left = <<>>
    <3>1. settled' = <<"forced", "none">>
      BY <2>2, <2>4, <2>6
    <3>2. QED BY <1>4, <2>6, <3>1 DEF Stage
  <2>7. QED BY <2>3, <2>5, <2>6
<1>7. QED BY <1>5, <1>6

LEMMA StageRejected ==
    ASSUME ChoiceTypes, Stage, Reject, UNCHANGED forced
    PROVE  Stage'
<1>0. QueueTypes
  BY DEF ChoiceTypes
<1>1. PICK f \in inFlight : queue' = Requeue(f)
  BY DEF Reject
<1>2. \A g \in inFlight : g = f
  BY <1>0 DEF QueueTypes
<1>3. f \in ChoicesInFlight
  BY <1>0 DEF QueueTypes
<1>4. inFlight' = {} /\ settled' = settled
  BY DEF Reject
<1> DEFINE d == Directive(f.label, f.preview, <<f.choice>>)
           left == Among(queue, Forces)
<1>5. Among(queue', Forces) = IF f.label # "todo" /\ d \in Forces THEN <<d>> \o left ELSE left
  BY <1>0, <1>1, RequeuedIs
<1>6. d.label = f.label /\ d.left # <<>> /\ d \in Directives
  BY <1>3, PutBack DEF Directive
<1>7. NoForceInFlight' /\ ~InFlightIs("forced")' /\ ~InFlightIs("none")'
  BY <1>4 DEF NoForceInFlight, InFlightIs
<1>8. CASE f.label # "force"
  <2>1. NoForceInFlight /\ ~InFlightIs("forced") /\ ~InFlightIs("none")
    BY <1>2, <1>8 DEF NoForceInFlight, InFlightIs
  <2>2. Among(queue', Forces) = left
    BY <1>5, <1>6, <1>8, ForcesOpen
  <2>3. QED BY <1>4, <1>7, <2>1, <2>2, StageKept
<1>9. CASE f.label = "force"
  <2>1. ~NoForceInFlight /\ \A choice : InFlightIs(choice) <=> f.choice = choice
    BY <1>2, <1>9 DEF NoForceInFlight, InFlightIs
  <2>2. \/ forced /\ settled = <<>> /\ f.choice = "forced" /\ left = Rest
        \/ forced /\ settled = <<"forced">> /\ f.choice = "none" /\ left = <<>>
    BY <2>1 DEF Stage
  <2>3. d = Directive("force", 0, <<f.choice>>)
    BY <1>3, <1>9, PutBack
  <2>4. d \in Forces /\ f.label # "todo"
    BY <1>6, <1>9, ForcesOpen
  <2> HIDE DEF d, left
  <2>5. Among(queue', Forces) = <<d>> \o left
    BY <1>5, <2>4
  <2>6. CASE forced /\ settled = <<>> /\ f.choice = "forced" /\ left = Rest
    <3>1. d = Directive("force", 0, <<"forced">>)
      BY <2>3, <2>6
    <3> DEFINE e == Directive("force", 0, <<"none">>)
    <3> HIDE DEF e
    <3>2. <<d>> \o <<e>> = <<d, e>>
      <4>1. d \in {d, e} /\ e \in {d, e}
        OBVIOUS
      <4>2. QED BY <4>1, PairOf
    <3>3. Among(queue', Forces) = Apart
      BY <2>5, <2>6, <3>1, <3>2, Zenon DEF Rest, Apart, e
    <3>4. QED BY <1>4, <1>7, <2>6, <3>3 DEF Stage
  <2>7. CASE forced /\ settled = <<"forced">> /\ f.choice = "none" /\ left = <<>>
    <3>1. d = Directive("force", 0, <<"none">>)
      BY <2>3, <2>7
    <3>2. \A x : <<x>> \o <<>> = <<x>>
      OBVIOUS
    <3>3. Among(queue', Forces) = Rest
      BY <2>5, <2>7, <3>1, <3>2, Zenon DEF Rest
    <3>4. QED BY <1>4, <1>7, <2>7, <3>3 DEF Stage
  <2>8. QED BY <2>2, <2>6, <2>7
<1>10. QED BY <1>8, <1>9

LEMMA StagePushed ==
    ASSUME ChoiceTypes, Stage, NEW a \in Previews, queue' = <<Pending(a)>> \o queue,
           UNCHANGED <<inFlight, forced, settled>>
    PROVE  Stage'
<1> DEFINE d == Pending(a)
<1>1. d \in Directives /\ d \notin Forces /\ queue \in Seq(Directives)
  BY PendingType, ForcesOpen DEF ChoiceTypes, QueueTypes
<1> HIDE DEF d
<1>2. Among(<<d>> \o queue, Forces) = Among(queue, Forces)
  BY <1>1, PushedAtHead
<1>3. Among(queue', Forces) = Among(queue, Forces)
  BY <1>2 DEF d
<1>4. QED BY <1>3 DEF Stage, NoForceInFlight, InFlightIs

LEMMA StageStays ==
    ASSUME Stage, UNCHANGED <<queue, inFlight, forced, settled>>
    PROVE  Stage'
BY DEF Stage, NoForceInFlight, InFlightIs

LEMMA ForceStep == ChoiceTypes /\ ForceServed /\ [ChoiceNext]_choiceVars => ForceServed'
<1> SUFFICES ASSUME ChoiceTypes, ForceServed, [ChoiceNext]_choiceVars, "overwritten" \notin mishaps'
             PROVE  Stage'
  BY DEF ForceServed
<1>0. Stage /\ queue \in Seq(Directives) /\ QueueTypes
  BY MishapsGrow DEF ForceServed, ChoiceTypes, QueueTypes
<1> USE DEF userVars
<1>1. CASE UNCHANGED choiceVars
  BY <1>0, <1>1, StageStays DEF choiceVars
<1>2. CASE SetForcedToolChoice
  <2> DEFINE d == Directive("force", 0, <<"forced", "none">>)
             left == <<"forced", "none">>
  <2>1. /\ ~forced /\ forced' = TRUE /\ queue' = Append(queue, d)
        /\ UNCHANGED <<inFlight, settled>>
    BY <1>2 DEF SetForcedToolChoice
  <2>2. d \in Directives /\ d \in Forces
    <3>1. left \in YieldsOf["force"] /\ left # <<>>
      BY KnownYields
    <3> HIDE DEF left
    <3>2. Directive("force", 0, left) \in Forces
      BY <3>1, ForcesOpen
    <3>3. QED BY <3>2, ForcesTyped DEF left
  <2>3. settled = <<>> /\ NoForceInFlight /\ Among(queue, Forces) = <<>>
    BY <1>0, <2>1 DEF Stage
  <2> HIDE DEF d
  <2>4. Among(queue', Forces) = Append(<<>>, d)
    BY <1>0, <2>1, <2>2, <2>3, AmongAppend
  <2>5. Append(<<>>, d) = <<d>>
    OBVIOUS
  <2>6. Among(queue', Forces) = Both
    BY <2>4, <2>5 DEF d, Both
  <2>7. NoForceInFlight'
    BY <2>1, <2>3 DEF NoForceInFlight
  <2>8. QED BY <2>1, <2>3, <2>6, <2>7 DEF Stage
<1>3. CASE Prompt
  <2> DEFINE d == Directive("todo", 0, <<"todo">>)
             left == <<"todo">>
  <2>1. /\ queue' = queue \/ queue' = Append(queue, d)
        /\ UNCHANGED <<inFlight, forced, settled>>
    BY <1>3 DEF Prompt
  <2>2. d \in Directives /\ d \notin Forces
    <3>1. left \in YieldsOf["todo"] /\ "todo" \in Labels
      BY KnownYields DEF Labels
    <3> HIDE DEF left
    <3>2. Directive("todo", 0, left) \in Directives
      BY <3>1, DirectiveType
    <3>3. d.label = "todo"
      BY DEF Directive
    <3>4. QED BY <3>2, <3>3, ForcesOpen DEF left
  <2> HIDE DEF d
  <2>3. Among(Append(queue, d), Forces) = Among(queue, Forces)
    BY <1>0, <2>2, AmongAppend
  <2>4. Among(queue', Forces) = Among(queue, Forces)
    BY <2>1, <2>3
  <2>5. QED BY <1>0, <2>1, <2>4 DEF Stage, NoForceInFlight, InFlightIs
<1>4. CASE EndPrompt
  <2>1. Among(queue', Forces) = Among(queue, Forces)
    BY <1>0, <1>4, SweptIs, ForcesOpen
  <2>2. inFlight' = {f \in inFlight : f.label # "todo"} /\ UNCHANGED <<forced, settled>>
    BY <1>4 DEF EndPrompt
  <2>3. /\ NoForceInFlight' <=> NoForceInFlight
        /\ \A choice : InFlightIs(choice)' <=> InFlightIs(choice)
    BY <2>2 DEF NoForceInFlight, InFlightIs
  <2>4. QED BY <1>0, <2>1, <2>2, <2>3, StageKept
<1>5. CASE EndAbort
  <2>1. CASE inFlight = {}
    BY <1>0, <1>5, <2>1, StageStays DEF EndAbort
  <2>2. CASE inFlight # {}
    BY <1>0, <1>5, <2>2, StageRejected DEF EndAbort
  <2>3. QED BY <2>1, <2>2
<1>6. CASE CallModel
  <2>1. NextToolChoice /\ UNCHANGED <<forced, settled>>
    BY <1>6 DEF CallModel
  <2>2. ASSUME queue' = <<>>, UNCHANGED <<inFlight, mishaps>>,
               \A P : (\A x \in P : x.left # <<>>) => Among(queue, P) = <<>>
        PROVE  Stage'
    <3>1. Among(queue, Forces) = <<>> /\ Among(queue', Forces) = <<>>
      BY <2>2, AmongEmpty, ForcesOpen
    <3>2. QED BY <1>0, <2>1, <2>2, <3>1 DEF Stage, NoForceInFlight, InFlightIs
  <2>3. ASSUME NEW d \in Directives, NEW rest \in Seq(Directives), d.left # <<>>,
               queue' = <<[d EXCEPT !.left = Tail(@)]>> \o rest,
               inFlight' = {[label |-> d.label, preview |-> d.preview,
                             choice |-> Head(d.left), used |-> FALSE]},
               mishaps' = mishaps \cup {m \in {"overwritten"} : inFlight # {}},
               \A P : (\A x \in P : x.left # <<>>) =>
                  Among(queue, P) = IF d \in P THEN <<d>> \o Among(rest, P) ELSE Among(rest, P)
        PROVE  Stage'
    <3>1. inFlight = {}
      BY <2>3
    <3>2. Among(queue, Forces) = IF d \in Forces THEN <<d>> \o Among(rest, Forces)
                                 ELSE Among(rest, Forces)
      BY <2>3, ForcesOpen
    <3>3. QED BY <1>0, <2>1, <2>3, <3>1, <3>2, StageAdvances
  <2>4. QED BY <1>0, <2>1, <2>2, <2>3, Advances
<1>7. CASE Continue \/ Abort \/ AbortedIdle \/ Leak \/ Answer \/ AnswerFails \/ Throw \/ EndTurn
  <2>1. UNCHANGED <<queue, inFlight, forced, settled>>
    BY <1>7 DEF Continue, Abort, AbortedIdle, Leak, Answer, AnswerFails, Throw, EndTurn
  <2>2. QED BY <1>0, <2>1, StageStays
<1>8. ASSUME NEW t \in Turns, TurnEnd(t) PROVE Stage'
  <2>1. CASE inFlight = {}
    BY <1>0, <1>8, <2>1, StageStays DEF TurnEnd
  <2>2. CASE inFlight # {}
    BY <1>0, <1>8, <2>2, StageSettles, StageRejected DEF TurnEnd
  <2>3. QED BY <2>1, <2>2
<1>u. ASSUME NEW a \in Previews, MakeUnforceable(a) PROVE Stage'
  BY <1>0, <1>u, StageStays DEF MakeUnforceable
<1>9. ASSUME NEW a \in Previews, MakePreview(a) PROVE Stage'
  BY <1>0, <1>9, StagePushed DEF MakePreview
<1>10. ASSUME NEW decision \in {"apply", "discard"}, CallResolve(decision) PROVE Stage'
  <2>1. PICK f \in inFlight : inFlight' = {[f EXCEPT !.used = TRUE]}
    BY <1>10 DEF CallResolve
  <2>2. UNCHANGED <<queue, forced, settled>>
    BY <1>10 DEF CallResolve
  <2>3. f \in ChoicesInFlight /\ \A g \in inFlight : g = f
    BY <1>0 DEF QueueTypes
  <2>4. [f EXCEPT !.used = TRUE].label = f.label /\ [f EXCEPT !.used = TRUE].choice = f.choice
    BY <2>3 DEF ChoicesInFlight
  <2>5. /\ NoForceInFlight' <=> NoForceInFlight
        /\ \A choice : InFlightIs(choice)' <=> InFlightIs(choice)
    BY <2>1, <2>3, <2>4 DEF NoForceInFlight, InFlightIs
  <2>6. QED BY <1>0, <2>2, <2>5, StageKept
<1>11. ASSUME NEW c \in calls, EndResolve(c) PROVE Stage'
  BY <1>0, <1>11, StageStays DEF EndResolve
<1>12. ASSUME NEW c \in calls, ResolveFails(c) PROVE Stage'
  <2>1. c.preview \in Previews
    BY DEF ChoiceTypes, ActionTypes
  <2>2. UNCHANGED <<inFlight, forced, settled>>
    BY <1>12 DEF ResolveFails
  <2>3. CASE queue' = queue
    BY <1>0, <2>2, <2>3, StageStays
  <2>4. CASE queue' = <<Pending(c.preview)>> \o queue
    BY <1>0, <2>1, <2>2, <2>4, StagePushed
  <2>5. QED BY <1>12, <2>3, <2>4 DEF ResolveFails
<1>13. QED BY <1>1, <1>2, <1>3, <1>4, <1>5, <1>6, <1>7, <1>8, <1>9, <1>10, <1>11, <1>12,
           <1>u            DEF ChoiceNext

-----------------------------------------------------------------------------
(* The places of the previews *)

(* A step that moves no preview.                                           *)
PlacesKept ==
    /\ UNCHANGED <<preview, calls, applied>>
    /\ \A a \in Previews : Queued(a)' = Queued(a) /\ (Offered(a)' <=> Offered(a))

LEMMA PendingIs ==
    /\ \A a : Pending(a).label = "preview" /\ Pending(a).left # <<>> /\ Pending(a).preview = a
    /\ \A a, b : Pending(a) = Pending(b) => a = b
<1>1. \A a : Pending(a).label = "preview" /\ Pending(a).left # <<>> /\ Pending(a).preview = a
  BY DEF Pending, Directive
<1>2. QED BY <1>1

LEMMA QueuedType == QueueTypes => \A a : Queued(a) \in Seq(Directives)
BY AmongType DEF QueueTypes, Queued

LEMMA QueuedAtHead ==
    ASSUME QueueTypes, NEW d \in Directives, queue' = <<d>> \o queue
    PROVE  \A a : Queued(a)' = IF d = Pending(a) THEN <<d>> \o Queued(a) ELSE Queued(a)
<1>1. \A P : Among(<<d>> \o queue, P) = IF d \in P THEN <<d>> \o Among(queue, P)
                                        ELSE Among(queue, P)
  BY PushedAtHead DEF QueueTypes
<1>2. QED BY <1>1 DEF Queued

LEMMA QueuedAtEnd ==
    ASSUME QueueTypes, NEW label \in {"force", "todo"}, NEW left \in YieldsOf[label],
           queue' = Append(queue, Directive(label, 0, left))
    PROVE  \A a : Queued(a)' = Queued(a)
<1> DEFINE d == Directive(label, 0, left)
<1>1. d \in Directives
  BY DirectiveType DEF Labels
<1>2. \A a : d \notin {Pending(a)}
  BY PendingIs DEF Directive
<1> HIDE DEF d
<1>3. \A P : d \notin P => Among(Append(queue, d), P) = Among(queue, P)
  BY <1>1, AmongAppend DEF QueueTypes
<1>4. QED BY <1>2, <1>3 DEF Queued, d

LEMMA PlacesUnchanged ==
    ASSUME UNCHANGED <<queue, inFlight, preview, calls, applied>>
    PROVE  PlacesKept
BY DEF PlacesKept, Queued, Offered

LEMMA UserKeepsPlaces ==
    ASSUME ChoiceTypes, SetForcedToolChoice \/ Prompt \/ EndPrompt
    PROVE  PlacesKept
<1> USE DEF actionVars
<1>0. QueueTypes
  BY DEF ChoiceTypes
<1>1. CASE SetForcedToolChoice
  <2> DEFINE left == <<"forced", "none">>
  <2>1. queue' = Append(queue, Directive("force", 0, left)) /\ UNCHANGED <<inFlight, actionVars>>
    BY <1>1 DEF SetForcedToolChoice
  <2>2. left \in YieldsOf["force"]
    BY KnownYields
  <2> HIDE DEF left
  <2>3. \A a : Queued(a)' = Queued(a)
    BY <1>0, <2>1, <2>2, QueuedAtEnd
  <2>4. QED BY <2>1, <2>3 DEF PlacesKept, Offered
<1>2. CASE Prompt
  <2> DEFINE left == <<"todo">>
  <2>1. /\ queue' = queue \/ queue' = Append(queue, Directive("todo", 0, left))
        /\ UNCHANGED <<inFlight, actionVars>>
    BY <1>2 DEF Prompt
  <2>2. left \in YieldsOf["todo"]
    BY KnownYields
  <2> HIDE DEF left
  <2>3. CASE queue' = queue
    BY <2>1, <2>3, PlacesUnchanged
  <2>4. CASE queue' = Append(queue, Directive("todo", 0, left))
    <3>1. \A a : Queued(a)' = Queued(a)
      BY <1>0, <2>2, <2>4, QueuedAtEnd
    <3>2. QED BY <2>1, <3>1 DEF PlacesKept, Offered
  <2>5. QED BY <2>1, <2>3, <2>4
<1>3. CASE EndPrompt
  <2>1. \A a : Queued(a)' = Queued(a)
    <3>1. \A P : (\A d \in P : d.label # "todo") => Among(queue', P) = Among(queue, P)
      BY <1>0, <1>3, SweptIs
    <3>2. \A a : \A d \in {Pending(a)} : d.label # "todo"
      BY PendingIs
    <3>3. QED BY <3>1, <3>2 DEF Queued
  <2>2. inFlight' = {f \in inFlight : f.label # "todo"} /\ UNCHANGED actionVars
    BY <1>3 DEF EndPrompt
  <2>3. ASSUME NEW a \in Previews PROVE Offered(a)' <=> Offered(a)
    <3>1. \A f \in inFlight : f.preview = a => f.label # "todo"
      <4>1. \A f \in inFlight : f.preview # 0 => f.label = "preview"
        BY <1>0 DEF QueueTypes, ChoicesInFlight
      <4>2. QED BY <4>1, PreviewsAre
    <3>2. QED BY <2>2, <3>1 DEF Offered
  <2>4. QED BY <2>1, <2>2, <2>3 DEF PlacesKept
<1>4. QED BY <1>1, <1>2, <1>3

LEMMA OthersKeepPlaces ==
    ASSUME Continue \/ Abort \/ AbortedIdle \/ Leak \/ Answer \/ AnswerFails \/ Throw \/ EndTurn
    PROVE  PlacesKept
<1>1. UNCHANGED <<queue, inFlight, preview, calls, applied>>
  BY DEF Continue, Abort, AbortedIdle, Leak, Answer, AnswerFails, Throw, EndTurn, actionVars
<1>2. QED BY <1>1, PlacesUnchanged

(* nextToolChoice: a preview at the head is on offer, what was is lost.    *)
LEMMA TakenPlaces ==
    ASSUME ChoiceTypes, CallModel
    PROVE  /\ UNCHANGED <<preview, calls, applied>>
           /\ \/ PlacesKept
              \/ /\ inFlight # {} => "overwritten" \in mishaps'
                 /\ \A a \in Previews :
                       \/ /\ Offered(a)'
                          /\ Queued(a) = <<Pending(a)>> \o Queued(a)'
                       \/ /\ ~Offered(a)'
                          /\ Queued(a)' = Queued(a)
<1>0. QueueTypes /\ NextToolChoice /\ UNCHANGED <<preview, calls, applied>>
  BY DEF ChoiceTypes, CallModel, actionVars
<1>1. ASSUME queue' = <<>>, UNCHANGED <<inFlight, mishaps>>,
             \A P : (\A x \in P : x.left # <<>>) => Among(queue, P) = <<>>
      PROVE  PlacesKept
  <2>1. \A a : Queued(a) = <<>> /\ Queued(a)' = <<>>
    BY <1>1, AmongEmpty, PendingIs DEF Queued
  <2>2. QED BY <1>0, <1>1, <2>1 DEF PlacesKept, Offered
<1>2. ASSUME NEW d \in Directives, NEW rest \in Seq(Directives), d.left # <<>>,
             queue' = <<[d EXCEPT !.left = Tail(@)]>> \o rest,
             inFlight' = {[label |-> d.label, preview |-> d.preview,
                           choice |-> Head(d.left), used |-> FALSE]},
             mishaps' = mishaps \cup {m \in {"overwritten"} : inFlight # {}},
             \A P : (\A x \in P : x.left # <<>>) =>
                Among(queue, P) = IF d \in P THEN <<d>> \o Among(rest, P) ELSE Among(rest, P)
      PROVE  /\ inFlight # {} => "overwritten" \in mishaps'
             /\ \A a \in Previews :
                   \/ /\ Offered(a)'
                      /\ Queued(a) = <<Pending(a)>> \o Queued(a)'
                   \/ /\ ~Offered(a)'
                      /\ Queued(a)' = Queued(a)
  <2> DEFINE e == [d EXCEPT !.left = Tail(@)]
  <2>1. inFlight # {} => "overwritten" \in mishaps'
    BY <1>2
  <2> SUFFICES ASSUME NEW a \in Previews
               PROVE  \/ /\ Offered(a)'
                         /\ Queued(a) = <<Pending(a)>> \o Queued(a)'
                      \/ /\ ~Offered(a)'
                         /\ Queued(a)' = Queued(a)
    BY <2>1
  <2>2. Offered(a)' <=> d.preview = a
    BY <1>2 DEF Offered
  <2>3. e \in Directives /\ e.left = Tail(d.left) /\ e.label = d.label
    BY <1>2, YieldsNext DEF Directives
  <2>4. e # Pending(a)
    <3>1. d.label # "force" => Tail(d.left) = <<>>
      BY <1>2, YieldsNext
    <3>2. QED BY <2>3, <3>1, PendingIs
  <2>5. Queued(a)' = Among(rest, {Pending(a)})
    <3> HIDE DEF e
    <3>1. Among(<<e>> \o rest, {Pending(a)}) = Among(rest, {Pending(a)})
      BY <2>3, <2>4, PushedAtHead
    <3>2. QED BY <1>2, <3>1 DEF Queued, e
  <2>6. Queued(a) = IF d = Pending(a) THEN <<d>> \o Among(rest, {Pending(a)})
                    ELSE Among(rest, {Pending(a)})
    BY <1>2, PendingIs DEF Queued
  <2>7. d = Pending(a) <=> d.preview = a
    <3>1. d.preview = a => d.label = "preview"
      BY PreviewsAre DEF Directives
    <3>2. QED BY <1>2, <3>1, YieldsNext, PendingIs
  <2>8. QED BY <2>2, <2>5, <2>6, <2>7
<1>3. QED BY <1>0, <1>1, <1>2, Advances

LEMMA SettledPlaces ==
    ASSUME ChoiceTypes, inFlight # {}, Resolve, UNCHANGED <<preview, calls, applied>>
    PROVE  \A a \in Previews : /\ Queued(a)' = Queued(a) /\ ~Offered(a)'
                               /\ Offered(a) => "unanswered" \in mishaps'
<1> SUFFICES ASSUME NEW a \in Previews
             PROVE  /\ Queued(a)' = Queued(a) /\ ~Offered(a)'
                    /\ Offered(a) => "unanswered" \in mishaps'
  OBVIOUS
<1>1. /\ inFlight' = {} /\ queue' = queue
      /\ mishaps' = mishaps \cup {m \in {"unanswered"} :
                                    \E f \in inFlight : f.choice = "resolve" /\ ~f.used}
  BY DEF Resolve
<1>2. \A f \in inFlight : f.preview = a => f.choice = "resolve"
  <2>1. \A f \in inFlight : f.preview # 0 => f.choice = "resolve"
    BY PutBack DEF ChoiceTypes, QueueTypes
  <2>2. QED BY <2>1, PreviewsAre
<1>3. Queued(a)' = Queued(a) /\ ~Offered(a)'
  BY <1>1 DEF Queued, Offered
<1>4. Offered(a) => "unanswered" \in mishaps'
  BY <1>1, <1>2 DEF Offered
<1>5. QED BY <1>3, <1>4

LEMMA RejectedPlaces ==
    ASSUME ChoiceTypes, Reject
    PROVE  \E f \in inFlight :
              /\ f.used => "abandoned" \in mishaps'
              /\ \A a \in Previews :
                    /\ Queued(a)' = IF f.preview = a THEN <<Pending(a)>> \o Queued(a) ELSE Queued(a)
                    /\ ~Offered(a)'
                    /\ Offered(a) <=> f.preview = a /\ ~f.used
<1>0. QueueTypes
  BY DEF ChoiceTypes
<1>1. PICK f \in inFlight :
         queue' = Requeue(f) /\ mishaps' = mishaps \cup {m \in {"abandoned"} : f.used}
  BY DEF Reject
<1>2. inFlight' = {} /\ \A g \in inFlight : g = f
  BY <1>0 DEF Reject, QueueTypes
<1>3. f \in ChoicesInFlight
  BY <1>0 DEF QueueTypes
<1> DEFINE d == Directive(f.label, f.preview, <<f.choice>>)
<1>4. \A P : Among(queue', P) = IF f.label # "todo" /\ d \in P THEN <<d>> \o Among(queue, P)
                               ELSE Among(queue, P)
  BY <1>0, <1>1, RequeuedIs
<1>5. ASSUME NEW a \in Previews
      PROVE  /\ Queued(a)' = IF f.preview = a THEN <<Pending(a)>> \o Queued(a) ELSE Queued(a)
             /\ ~Offered(a)'
             /\ Offered(a) <=> f.preview = a /\ ~f.used
  <2>1. f.preview = a => d = Pending(a) /\ f.label = "preview"
    BY <1>3, PutBack, PreviewsAre
  <2>2. f.preview # a => d # Pending(a)
    BY PendingIs DEF Directive
  <2>3. Queued(a)' = IF f.label # "todo" /\ d = Pending(a) THEN <<d>> \o Queued(a) ELSE Queued(a)
    BY <1>4 DEF Queued
  <2> HIDE DEF d
  <2>4. Queued(a)' = IF f.preview = a THEN <<Pending(a)>> \o Queued(a) ELSE Queued(a)
    BY <2>1, <2>2, <2>3
  <2>5. QED BY <1>2, <2>4 DEF Offered
<1>6. f.used => "abandoned" \in mishaps'
  BY <1>1
<1>7. QED BY <1>5, <1>6

LEMMA PushedPlaces ==
    ASSUME ChoiceTypes, NEW b \in Previews, queue' = <<Pending(b)>> \o queue, UNCHANGED inFlight
    PROVE  \A a \in Previews :
              /\ Queued(a)' = IF a = b THEN <<Pending(a)>> \o Queued(a) ELSE Queued(a)
              /\ Offered(a)' <=> Offered(a)
<1> DEFINE d == Pending(b)
<1>1. d \in Directives /\ QueueTypes
  BY PendingType DEF ChoiceTypes
<1>2. queue' = <<d>> \o queue
  OBVIOUS
<1>3. \A a : d = Pending(a) <=> a = b
  BY PendingIs
<1> HIDE DEF d
<1>4. \A a : Queued(a)' = IF d = Pending(a) THEN <<d>> \o Queued(a) ELSE Queued(a)
  BY <1>1, <1>2, QueuedAtHead
<1>5. QED BY <1>3, <1>4 DEF Offered

LEMMA CalledPlaces ==
    ASSUME ChoiceTypes, NEW decision \in {"apply", "discard"}, CallResolve(decision)
    PROVE  /\ UNCHANGED <<preview, applied>>
           /\ \E f \in inFlight : \E c :
                /\ f.preview \in Previews /\ c.preview = f.preview /\ calls' = calls \cup {c}
                /\ f.used => "repeated" \in mishaps'
                /\ \A a \in Previews : /\ Queued(a)' = Queued(a) /\ ~Offered(a)'
                                       /\ Offered(a) <=> f.preview = a /\ ~f.used
<1>0. QueueTypes
  BY DEF ChoiceTypes
<1>1. PICK f \in inFlight :
         /\ f.preview # 0
         /\ calls' = calls \cup {[preview |-> f.preview, decision |-> decision, turn |-> turn,
                                  id |-> called']}
         /\ inFlight' = {[f EXCEPT !.used = TRUE]}
         /\ Also("repeated", f.used)
  BY DEF CallResolve
<1>2. UNCHANGED <<queue, preview, applied>>
  BY DEF CallResolve
<1>3. f \in ChoicesInFlight /\ \A g \in inFlight : g = f
  BY <1>0 DEF QueueTypes
<1>4. f.preview \in Previews /\ [f EXCEPT !.used = TRUE].used
  BY <1>1, <1>3 DEF ChoicesInFlight
<1>5. f.used => "repeated" \in mishaps'
  BY <1>1 DEF Also
<1>6. \A a \in Previews : /\ Queued(a)' = Queued(a) /\ ~Offered(a)'
                          /\ Offered(a) <=> f.preview = a /\ ~f.used
  BY <1>1, <1>2, <1>3, <1>4 DEF Queued, Offered
<1> DEFINE c == [preview |-> f.preview, decision |-> decision, turn |-> turn, id |-> called']
<1>7. c.preview = f.preview /\ calls' = calls \cup {c}
  BY <1>1
<1> HIDE DEF c
<1>8. \E x : /\ f.preview \in Previews /\ x.preview = f.preview /\ calls' = calls \cup {x}
             /\ f.used => "repeated" \in mishaps'
             /\ \A a \in Previews : /\ Queued(a)' = Queued(a) /\ ~Offered(a)'
                                    /\ Offered(a) <=> f.preview = a /\ ~f.used
  BY <1>4, <1>5, <1>6, <1>7
<1>9. QED BY <1>2, <1>8

LEMMA AtHead == \A a, q : a \in Previews /\ q \in Seq(Directives) => <<Pending(a)>> \o q # <<>>
BY FirstOf, PendingType

LEMMA HeldStep == ChoiceTypes /\ Held /\ [ChoiceNext]_choiceVars => Held'
<1> SUFFICES ASSUME ChoiceTypes, Held, [ChoiceNext]_choiceVars,
                    mishaps' \cap {"overwritten", "unanswered", "kept"} = {},
                    NEW a \in Previews, preview'[a] = "pending"
             PROVE  Queued(a)' # <<>> \/ Offered(a)' \/ Resolving(a)'
  BY DEF Held
<1>0. preview[a] = "pending" => Queued(a) # <<>> \/ Offered(a) \/ Resolving(a)
  BY MishapsGrow DEF Held
<1>t. QueueTypes /\ Queued(a) \in Seq(Directives)
  BY QueuedType DEF ChoiceTypes
<1>m. "overwritten" \notin mishaps' /\ "unanswered" \notin mishaps' /\ "kept" \notin mishaps'
  OBVIOUS
<1> USE DEF actionVars
<1>1. CASE PlacesKept
  BY <1>0, <1>1 DEF PlacesKept, Resolving
<1>2. CASE SetForcedToolChoice \/ Prompt \/ EndPrompt
  BY <1>1, <1>2, UserKeepsPlaces
<1>3. CASE Continue \/ Abort \/ AbortedIdle \/ Leak \/ Answer \/ AnswerFails \/ Throw \/ EndTurn
  BY <1>1, <1>3, OthersKeepPlaces
<1>4. CASE UNCHANGED choiceVars
  BY <1>1, <1>4, PlacesUnchanged DEF choiceVars
<1>5. CASE Reject /\ UNCHANGED <<preview, calls>>
  <2>1. PICK f \in inFlight :
              /\ Queued(a)' = IF f.preview = a THEN <<Pending(a)>> \o Queued(a) ELSE Queued(a)
              /\ Offered(a) <=> f.preview = a /\ ~f.used
    BY <1>5, RejectedPlaces
  <2>2. <<Pending(a)>> \o Queued(a) # <<>>
    BY <1>t, AtHead
  <2>3. QED BY <1>0, <1>5, <2>1, <2>2 DEF Resolving
<1>6. CASE EndAbort
  <2>1. CASE inFlight = {}
    BY <1>1, <1>6, <2>1, PlacesUnchanged DEF EndAbort
  <2>2. CASE inFlight # {}
    BY <1>5, <1>6, <2>2 DEF EndAbort
  <2>3. QED BY <2>1, <2>2
<1>7. CASE CallModel
  <2>1. CASE PlacesKept
    BY <1>1, <2>1
  <2>2. ASSUME inFlight # {} => "overwritten" \in mishaps',
               \/ Offered(a)'
               \/ Queued(a)' = Queued(a)
        PROVE  Queued(a)' # <<>> \/ Offered(a)' \/ Resolving(a)'
    <3>1. ~Offered(a)
      BY <1>m, <2>2 DEF Offered
    <3>2. UNCHANGED <<preview, calls>>
      BY <1>7, TakenPlaces
    <3>3. QED BY <1>0, <2>2, <3>1, <3>2 DEF Resolving
  <2>3. QED BY <1>7, <2>1, <2>2, TakenPlaces
<1>8. ASSUME NEW t \in Turns, TurnEnd(t)
      PROVE  Queued(a)' # <<>> \/ Offered(a)' \/ Resolving(a)'
  <2>1. CASE inFlight = {}
    BY <1>1, <1>8, <2>1, PlacesUnchanged DEF TurnEnd
  <2>2. CASE inFlight # {} /\ Resolve
    <3>1. UNCHANGED <<preview, calls, applied>>
      BY <1>8 DEF TurnEnd
    <3>2. \A b \in Previews : /\ Queued(b)' = Queued(b) /\ ~Offered(b)'
                              /\ Offered(b) => "unanswered" \in mishaps'
      BY <2>2, <3>1, SettledPlaces
    <3>3. Queued(a)' = Queued(a) /\ ~Offered(a)
      BY <1>m, <3>2
    <3>4. QED BY <1>0, <3>1, <3>3 DEF Resolving
  <2>3. CASE Reject
    BY <1>5, <1>8, <2>3 DEF TurnEnd
  <2>4. QED BY <1>8, <2>1, <2>2, <2>3 DEF TurnEnd
<1>u. ASSUME NEW b \in Previews, MakeUnforceable(b)
      PROVE  Queued(a)' # <<>> \/ Offered(a)' \/ Resolving(a)'
  <2>1. /\ UNCHANGED <<queue, inFlight, calls>>
        /\ preview' = [preview EXCEPT ![b] = "unforceable"]
    BY <1>u DEF MakeUnforceable
  <2>2. preview[a] = "pending"
    BY <2>1 DEF ChoiceTypes, ActionTypes
  <2>3. QED BY <1>0, <2>1, <2>2 DEF Queued, Offered, Resolving
<1>9. ASSUME NEW b \in Previews, MakePreview(b)
      PROVE  Queued(a)' # <<>> \/ Offered(a)' \/ Resolving(a)'
  <2>1. /\ queue' = <<Pending(b)>> \o queue /\ UNCHANGED <<inFlight, calls>>
        /\ preview' = [preview EXCEPT ![b] = "pending"]
    BY <1>9 DEF MakePreview
  <2>2. /\ Queued(a)' = IF a = b THEN <<Pending(a)>> \o Queued(a) ELSE Queued(a)
        /\ Offered(a)' <=> Offered(a)
    BY <2>1, PushedPlaces
  <2>3. a # b => preview[a] = "pending"
    BY <2>1 DEF ChoiceTypes, ActionTypes
  <2>4. <<Pending(a)>> \o Queued(a) # <<>>
    BY <1>t, AtHead
  <2>5. QED BY <1>0, <2>1, <2>2, <2>3, <2>4 DEF Resolving
<1>10. ASSUME NEW decision \in {"apply", "discard"}, CallResolve(decision)
       PROVE  Queued(a)' # <<>> \/ Offered(a)' \/ Resolving(a)'
  <2>1. PICK f \in inFlight : \E c :
           /\ c.preview = f.preview /\ calls' = calls \cup {c}
           /\ Queued(a)' = Queued(a)
           /\ Offered(a) <=> f.preview = a /\ ~f.used
    BY <1>10, CalledPlaces
  <2>2. preview' = preview
    BY <1>10, CalledPlaces
  <2>3. QED BY <1>0, <2>1, <2>2 DEF Resolving
<1>11. ASSUME NEW c \in calls, EndResolve(c)
       PROVE  Queued(a)' # <<>> \/ Offered(a)' \/ Resolving(a)'
  <2>1. /\ calls' = calls \ {c} /\ UNCHANGED <<queue, inFlight>>
        /\ preview' = [preview EXCEPT ![c.preview] =
               IF c.decision = "apply" \/ @ = "applied" THEN "applied" ELSE "discarded"]
    BY <1>11 DEF EndResolve
  <2>2. c.preview # a /\ preview[a] = "pending"
    BY <2>1 DEF ChoiceTypes, ActionTypes
  <2>3. Queued(a)' = Queued(a) /\ (Offered(a)' <=> Offered(a))
    BY <2>1 DEF Queued, Offered
  <2>4. Resolving(a) => Resolving(a)'
    BY <2>1, <2>2 DEF Resolving
  <2>5. QED BY <1>0, <2>2, <2>3, <2>4
<1>12. ASSUME NEW c \in calls, ResolveFails(c)
       PROVE  Queued(a)' # <<>> \/ Offered(a)' \/ Resolving(a)'
  <2>1. calls' = calls \ {c} /\ UNCHANGED <<inFlight, preview, applied>>
    BY <1>12 DEF ResolveFails
  <2>2. c.decision = "apply" /\ c.preview \in Previews
    BY <1>12, <1>m DEF ResolveFails, Also, ChoiceTypes, ActionTypes
  <2>3. queue' = <<Pending(c.preview)>> \o queue
    BY <1>12, <2>2 DEF ResolveFails
  <2>4. /\ Queued(a)' = IF a = c.preview THEN <<Pending(a)>> \o Queued(a) ELSE Queued(a)
        /\ Offered(a)' <=> Offered(a)
    BY <2>1, <2>2, <2>3, PushedPlaces
  <2>5. <<Pending(a)>> \o Queued(a) # <<>>
    BY <1>t, AtHead
  <2>6. a # c.preview => (Resolving(a) => Resolving(a)')
    BY <2>1 DEF Resolving
  <2>7. QED BY <1>0, <2>1, <2>4, <2>5, <2>6
<1>13. QED BY <1>2, <1>3, <1>4, <1>6, <1>7, <1>8, <1>9, <1>10, <1>11, <1>12, <1>u DEF ChoiceNext

(* What a preview's place depends on: where it is, and what became of it.  *)
LEMMA SamePlace ==
    ASSUME NEW a \in Previews, HeldOnce(a),
           Queued(a)' = Queued(a), Offered(a)' <=> Offered(a),
           preview'[a] = preview[a], applied'[a] = applied[a],
           \A c : c.preview = a => (c \in calls' <=> c \in calls)
    PROVE  HeldOnce(a)'
<1>1. Resolving(a)' <=> Resolving(a)
  BY DEF Resolving
<1>2. \A c, d \in calls' : c.preview = a /\ d.preview = a => c = d
  BY DEF HeldOnce
<1>3. QED BY <1>1, <1>2 DEF HeldOnce

LEMMA KeptOnce ==
    ASSUME PlacesKept, NEW a \in Previews, HeldOnce(a)
    PROVE  HeldOnce(a)'
BY SamePlace DEF PlacesKept

(* Of a queue where the preview is once, what is left when it is taken.    *)
LEMMA TakenOnce ==
    ASSUME NEW a \in Previews, NEW q \in Seq(Directives),
           <<Pending(a)>> \o q \in {<<>>, <<Pending(a)>>}
    PROVE  q = <<>>
BY FirstOf, PendingType

LEMMA PushedOnce ==
    ASSUME NEW a \in Previews
    PROVE  <<Pending(a)>> \o <<>> = <<Pending(a)>>
BY PendingType

LEMMA RejectedOnce ==
    ASSUME ChoiceTypes, Reject, UNCHANGED <<preview, calls, applied>>,
           "abandoned" \notin mishaps', NEW a \in Previews, HeldOnce(a)
    PROVE  HeldOnce(a)'
<1>1. PICK f \in inFlight :
         /\ f.used => "abandoned" \in mishaps'
         /\ Queued(a)' = IF f.preview = a THEN <<Pending(a)>> \o Queued(a) ELSE Queued(a)
         /\ ~Offered(a)'
         /\ Offered(a) <=> f.preview = a /\ ~f.used
  BY RejectedPlaces
<1>2. CASE f.preview = a
  <2>1. Offered(a)
    BY <1>1, <1>2
  <2>2. Queued(a) = <<>> /\ ~Resolving(a) /\ preview[a] = "pending"
    BY <2>1 DEF HeldOnce
  <2>3. Queued(a)' = <<Pending(a)>> /\ ~Offered(a)' /\ ~Resolving(a)'
    BY <1>1, <1>2, <2>2, PushedOnce DEF Resolving
  <2>4. QED BY <2>2, <2>3 DEF HeldOnce
<1>3. CASE f.preview # a
  <2>1. Queued(a)' = Queued(a) /\ (Offered(a)' <=> Offered(a))
    BY <1>1, <1>3
  <2>2. QED BY <2>1, SamePlace
<1>4. QED BY <1>2, <1>3

LEMMA OnceStep == ChoiceTypes /\ OnePlace /\ [ChoiceNext]_choiceVars => OnePlace'
<1> SUFFICES ASSUME ChoiceTypes, OnePlace, [ChoiceNext]_choiceVars,
                    mishaps' \cap {"abandoned", "repeated"} = {}, NEW a \in Previews
             PROVE  HeldOnce(a)'
  BY DEF OnePlace
<1>0. HeldOnce(a)
  BY MishapsGrow DEF OnePlace
<1>t. QueueTypes /\ Queued(a) \in Seq(Directives)
  BY QueuedType DEF ChoiceTypes
<1>m. "abandoned" \notin mishaps' /\ "repeated" \notin mishaps'
  OBVIOUS
<1>p. /\ preview \in [Previews -> {"none", "pending", "unforceable", "applied", "discarded"}]
      /\ applied \in [Previews -> Nat]
  BY DEF ChoiceTypes, ActionTypes
<1> USE DEF actionVars
<1>1. CASE PlacesKept
  BY <1>0, <1>1, KeptOnce
<1>2. CASE SetForcedToolChoice \/ Prompt \/ EndPrompt
  BY <1>1, <1>2, UserKeepsPlaces
<1>3. CASE Continue \/ Abort \/ AbortedIdle \/ Leak \/ Answer \/ AnswerFails \/ Throw \/ EndTurn
  BY <1>1, <1>3, OthersKeepPlaces
<1>4. CASE UNCHANGED choiceVars
  BY <1>1, <1>4, PlacesUnchanged DEF choiceVars
<1>5. CASE EndAbort
  <2>1. CASE inFlight = {}
    BY <1>1, <1>5, <2>1, PlacesUnchanged DEF EndAbort
  <2>2. CASE inFlight # {}
    BY <1>0, <1>m, <1>5, <2>2, RejectedOnce DEF EndAbort
  <2>3. QED BY <2>1, <2>2
<1>6. CASE CallModel
  <2>1. UNCHANGED <<preview, calls, applied>>
    BY <1>6, TakenPlaces
  <2>2. CASE PlacesKept
    BY <1>1, <2>2
  <2>3. CASE Offered(a)' /\ Queued(a) = <<Pending(a)>> \o Queued(a)'
    <3>1. Queued(a)' \in Seq(Directives)
      <4>1. QueueTypes'
        BY QueueTypesStep
      <4>2. QED BY <4>1, AmongType DEF QueueTypes, Queued
    <3>2. Queued(a)' = <<>> /\ Queued(a) # <<>>
      <4> DEFINE q == Queued(a)'
      <4>1. q \in Seq(Directives) /\ <<Pending(a)>> \o q \in {<<>>, <<Pending(a)>>}
        BY <1>0, <2>3, <3>1 DEF HeldOnce
      <4>2. <<Pending(a)>> \o q # <<>>
        BY <3>1, AtHead
      <4> HIDE DEF q
      <4>3. q = <<>>
        BY <4>1, TakenOnce
      <4>4. QED BY <2>3, <4>2, <4>3 DEF q
    <3>3. ~Resolving(a)' /\ preview'[a] = "pending"
      BY <1>0, <2>1, <3>2 DEF HeldOnce, Resolving
    <3>4. applied'[a] = 0 /\ (\A c, d \in calls' : c.preview = a /\ d.preview = a => c = d)
      BY <1>0, <2>1, <3>3 DEF HeldOnce
    <3>5. QED BY <3>2, <3>3, <3>4 DEF HeldOnce
  <2>4. CASE ~Offered(a)' /\ Queued(a)' = Queued(a)
    <3>1. Resolving(a)' <=> Resolving(a)
      BY <2>1 DEF Resolving
    <3>2. QED BY <1>0, <2>1, <2>4, <3>1 DEF HeldOnce
  <2>5. QED BY <1>6, <2>2, <2>3, <2>4, TakenPlaces
<1>7. ASSUME NEW t \in Turns, TurnEnd(t) PROVE HeldOnce(a)'
  <2>1. UNCHANGED <<preview, calls, applied>>
    BY <1>7 DEF TurnEnd
  <2>2. CASE inFlight = {}
    BY <1>1, <1>7, <2>2, PlacesUnchanged DEF TurnEnd
  <2>3. CASE inFlight # {} /\ Resolve
    <3>1. \A b \in Previews : /\ Queued(b)' = Queued(b)
                              /\ ~Offered(b)'
      BY <2>1, <2>3, SettledPlaces
    <3>2. Resolving(a)' <=> Resolving(a)
      BY <2>1 DEF Resolving
    <3>3. QED BY <1>0, <2>1, <3>1, <3>2 DEF HeldOnce
  <2>4. CASE Reject
    BY <1>0, <1>m, <2>1, <2>4, RejectedOnce
  <2>5. QED BY <1>7, <2>2, <2>3, <2>4 DEF TurnEnd
<1>u. ASSUME NEW b \in Previews, MakeUnforceable(b) PROVE HeldOnce(a)'
  <2>1. /\ UNCHANGED <<queue, inFlight, calls, applied>>
        /\ preview[b] = "none" /\ preview' = [preview EXCEPT ![b] = "unforceable"]
    BY <1>u DEF MakeUnforceable, Made
  <2>2. /\ Queued(a)' = Queued(a) /\ (Offered(a)' <=> Offered(a))
        /\ Resolving(a)' <=> Resolving(a)
    BY <2>1 DEF Queued, Offered, Resolving
  <2>3. CASE a = b
    <3>1. /\ Queued(a) = <<>> /\ ~Offered(a) /\ ~Resolving(a) /\ applied[a] = 0
          /\ \A c, d \in calls : c.preview = a /\ d.preview = a => c = d
      BY <1>0, <2>1, <2>3 DEF HeldOnce
    <3>2. preview'[a] = "unforceable"
      BY <1>p, <2>1, <2>3
    <3>3. QED BY <2>1, <2>2, <3>1, <3>2 DEF HeldOnce
  <2>4. CASE a # b
    <3>1. preview'[a] = preview[a]
      BY <1>p, <2>1, <2>4
    <3>2. QED BY <1>0, <2>1, <2>2, <3>1 DEF HeldOnce
  <2>5. QED BY <2>3, <2>4
<1>8. ASSUME NEW b \in Previews, MakePreview(b) PROVE HeldOnce(a)'
  <2>1. /\ queue' = <<Pending(b)>> \o queue /\ UNCHANGED <<inFlight, calls, applied>>
        /\ preview[b] = "none" /\ preview' = [preview EXCEPT ![b] = "pending"]
    BY <1>8 DEF MakePreview, Made
  <2>2. /\ Queued(a)' = IF a = b THEN <<Pending(a)>> \o Queued(a) ELSE Queued(a)
        /\ Offered(a)' <=> Offered(a)
    BY <2>1, PushedPlaces
  <2>3. CASE a = b
    <3>1. Queued(a) = <<>> /\ ~Offered(a) /\ ~Resolving(a) /\ applied[a] = 0
      BY <1>0, <2>1, <2>3 DEF HeldOnce
    <3>2. preview'[a] = "pending"
      BY <1>p, <2>1, <2>3
    <3>3. Queued(a)' = <<Pending(a)>> /\ ~Offered(a)' /\ ~Resolving(a)' /\ applied'[a] = 0
      BY <2>1, <2>2, <2>3, <3>1, PushedOnce DEF Resolving
    <3>4. \A c, d \in calls' : c.preview = a /\ d.preview = a => c = d
      BY <3>3 DEF Resolving
    <3>5. QED BY <3>2, <3>3, <3>4 DEF HeldOnce
  <2>4. CASE a # b
    <3>1. preview'[a] = preview[a]
      BY <1>p, <2>1, <2>4
    <3>2. QED BY <1>0, <2>1, <2>2, <2>4, <3>1, SamePlace
  <2>5. QED BY <2>3, <2>4
<1>9. ASSUME NEW decision \in {"apply", "discard"}, CallResolve(decision) PROVE HeldOnce(a)'
  <2>1. PICK f \in inFlight : \E c :
           /\ c.preview = f.preview /\ calls' = calls \cup {c}
           /\ f.used => "repeated" \in mishaps'
           /\ Queued(a)' = Queued(a) /\ ~Offered(a)'
           /\ Offered(a) <=> f.preview = a /\ ~f.used
    BY <1>9, CalledPlaces
  <2>2. PICK c : c.preview = f.preview /\ calls' = calls \cup {c}
    BY <2>1
  <2>3. UNCHANGED <<preview, applied>>
    BY <1>9, CalledPlaces
  <2>4. CASE f.preview = a
    <3>1. Offered(a)
      BY <1>m, <2>1, <2>4
    <3>2. Queued(a) = <<>> /\ ~Resolving(a) /\ preview[a] = "pending"
      BY <1>0, <3>1 DEF HeldOnce
    <3>3. \A d, e \in calls' : d.preview = a /\ e.preview = a => d = e
      BY <2>2, <3>2 DEF Resolving
    <3>4. Queued(a)' = <<>> /\ ~Offered(a)' /\ preview'[a] = "pending" /\ applied'[a] = applied[a]
      BY <2>1, <2>3, <3>2
    <3>5. QED BY <1>0, <3>2, <3>3, <3>4 DEF HeldOnce
  <2>5. CASE f.preview # a
    <3>1. ~Offered(a)
      BY <2>1, <2>5
    <3>2. \A d : d.preview = a => (d \in calls' <=> d \in calls)
      BY <2>2, <2>5
    <3>3. Queued(a)' = Queued(a) /\ (Offered(a)' <=> Offered(a))
      BY <2>1, <3>1
    <3>4. QED BY <1>0, <2>3, <3>2, <3>3, SamePlace
  <2>6. QED BY <2>4, <2>5
<1>10. ASSUME NEW c \in calls, EndResolve(c) PROVE HeldOnce(a)'
  <2>1. /\ calls' = calls \ {c} /\ UNCHANGED <<queue, inFlight>>
        /\ preview' = [preview EXCEPT ![c.preview] =
               IF c.decision = "apply" \/ @ = "applied" THEN "applied" ELSE "discarded"]
        /\ applied' = [applied EXCEPT ![c.preview] = IF c.decision = "apply" THEN @ + 1 ELSE @]
    BY <1>10 DEF EndResolve
  <2>2. Queued(a)' = Queued(a) /\ (Offered(a)' <=> Offered(a))
    BY <2>1 DEF Queued, Offered
  <2>3. CASE c.preview = a
    <3>1. Resolving(a)
      BY <2>3 DEF Resolving
    <3>2. /\ Queued(a) = <<>> /\ ~Offered(a) /\ preview[a] = "pending" /\ applied[a] = 0
          /\ \A d \in calls : d.preview = a => d = c
      BY <1>0, <2>3, <3>1 DEF HeldOnce
    <3>3. ~Resolving(a)'
      BY <2>1, <3>2 DEF Resolving
    <3>4. /\ preview'[a] = IF c.decision = "apply" THEN "applied" ELSE "discarded"
          /\ applied'[a] = IF c.decision = "apply" THEN 1 ELSE 0
      BY <1>p, <2>1, <2>3, <3>2
    <3>5. Queued(a)' = <<>> /\ ~Offered(a)'
      BY <2>2, <3>2
    <3>6. \A d, e \in calls' : d.preview = a /\ e.preview = a => d = e
      BY <3>3 DEF Resolving
    <3>7. applied'[a] = IF preview'[a] = "applied" THEN 1 ELSE 0
      BY <3>4
    <3>8. QED BY <3>3, <3>5, <3>6, <3>7 DEF HeldOnce
  <2>4. CASE c.preview # a
    <3>1. preview'[a] = preview[a] /\ applied'[a] = applied[a]
      BY <1>p, <2>1, <2>4
    <3>2. \A d : d.preview = a => (d \in calls' <=> d \in calls)
      BY <2>1, <2>4
    <3>3. QED BY <1>0, <2>2, <3>1, <3>2, SamePlace
  <2>5. QED BY <2>3, <2>4
<1>11. ASSUME NEW c \in calls, ResolveFails(c) PROVE HeldOnce(a)'
  <2>1. calls' = calls \ {c} /\ UNCHANGED <<inFlight, preview, applied>>
    BY <1>11 DEF ResolveFails
  <2>2. c.preview \in Previews
    BY DEF ChoiceTypes, ActionTypes
  <2>3. Offered(a)' <=> Offered(a)
    BY <2>1 DEF Offered
  <2>4. CASE c.preview = a
    <3>1. Resolving(a)
      BY <2>4 DEF Resolving
    <3>2. /\ Queued(a) = <<>> /\ ~Offered(a) /\ preview[a] = "pending" /\ applied[a] = 0
          /\ \A d \in calls : d.preview = a => d = c
      BY <1>0, <2>4, <3>1 DEF HeldOnce
    <3>3. ~Resolving(a)'
      BY <2>1, <3>2 DEF Resolving
    <3>4. Queued(a)' \in {<<>>, <<Pending(a)>>}
      <4>1. CASE queue' = queue
        BY <3>2, <4>1 DEF Queued
      <4>2. CASE queue' = <<Pending(c.preview)>> \o queue
        <5>1. Queued(a)' = <<Pending(a)>> \o Queued(a)
          BY <2>1, <2>2, <2>4, <4>2, PushedPlaces
        <5>2. QED BY <3>2, <5>1, PushedOnce
      <4>3. QED BY <1>11, <4>1, <4>2 DEF ResolveFails
    <3>5. \A d, e \in calls' : d.preview = a /\ e.preview = a => d = e
      BY <3>3 DEF Resolving
    <3>6. ~Offered(a)' /\ preview'[a] = "pending" /\ applied'[a] = 0
      BY <2>1, <2>3, <3>2
    <3>7. QED BY <3>3, <3>4, <3>5, <3>6 DEF HeldOnce
  <2>5. CASE c.preview # a
    <3>1. Queued(a)' = Queued(a)
      <4>1. CASE queue' = queue
        BY <4>1 DEF Queued
      <4>2. CASE queue' = <<Pending(c.preview)>> \o queue
        BY <2>1, <2>2, <2>5, <4>2, PushedPlaces
      <4>3. QED BY <1>11, <4>1, <4>2 DEF ResolveFails
    <3>2. \A d : d.preview = a => (d \in calls' <=> d \in calls)
      BY <2>1, <2>5
    <3>3. QED BY <1>0, <2>1, <2>3, <3>1, <3>2, SamePlace
  <2>6. QED BY <2>4, <2>5
<1>12. QED BY <1>2, <1>3, <1>4, <1>5, <1>6, <1>7, <1>8, <1>9, <1>10, <1>11, <1>u DEF ChoiceNext

-----------------------------------------------------------------------------
(* The invariant *)

LEMMA InitialChoice == ChoiceInit => ChoiceIInv
<1> SUFFICES ASSUME ChoiceInit PROVE ChoiceIInv
  OBVIOUS
<1>1. LoopTypes
  <2>1. turn = 0 /\ turn \in 0..MaxTurns
    BY ChoiceAssumption DEF ChoiceInit
  <2>2. phase = "idle" /\ prompting = FALSE /\ forced = FALSE /\ abort = "none" /\ stray = FALSE
    BY DEF ChoiceInit
  <2>3. ended \in [Turns -> {"none", "ok", "failed", "settled"}]
    BY DEF ChoiceInit
  <2>4. QED BY <2>1, <2>2, <2>3 DEF LoopTypes
<1> USE DEF ChoiceInit
<1>2. ActionTypes
  BY ChoiceAssumption DEF ActionTypes
<1>3. QueueTypes
  BY DEF QueueTypes
<1>4. Stage
  BY AmongEmpty DEF Stage, NoForceInFlight
<1>5. Held
  BY DEF Held
<1>6. OnePlace
  <2> SUFFICES ASSUME NEW a \in Previews PROVE HeldOnce(a)
    BY DEF OnePlace
  <2>1. Queued(a) = <<>> /\ ~Offered(a) /\ ~Resolving(a)
    BY AmongEmpty DEF Queued, Offered, Resolving
  <2>2. QED BY <2>1 DEF HeldOnce
<1>7. QED BY <1>1, <1>2, <1>3, <1>4, <1>5, <1>6 DEF ChoiceIInv, ChoiceTypes, ForceServed

LEMMA ChoiceIInvHolds == ChoiceSpec => []ChoiceIInv
<1>1. ChoiceIInv /\ [ChoiceNext]_choiceVars => ChoiceIInv'
  BY LoopTypesStep, ActionTypesStep, QueueTypesStep, ForceStep, HeldStep, OnceStep
     DEF ChoiceIInv, ChoiceTypes
<1>2. QED BY InitialChoice, <1>1, PTL DEF ChoiceSpec

(* Between races, what the user has forced with /force is served once and  *)
(* in order, the tool and then none, whatever is aborted, fails or is      *)
(* previewed in between (setForcedToolChoice, agent-session.ts:1236).      *)
THEOREM ForcedAreServed == ChoiceSpec => []ChoiceInv
<1>1. ChoiceIInv => ChoiceInv
  <2> SUFFICES ASSUME ChoiceIInv PROVE ChoiceInv
    OBVIOUS
  <2>1. LoopTypes /\ ActionTypes /\ QueueTypes
    BY DEF ChoiceIInv, ChoiceTypes
  <2>2. \A i \in DOMAIN queue :
           /\ queue[i].label \in Labels
           /\ queue[i].preview \in {0} \cup Previews
           /\ queue[i].left \in {<<>>} \cup {<<c>> : c \in Yields} \cup {<<"forced", "none">>}
    <3> SUFFICES ASSUME NEW i \in DOMAIN queue
                 PROVE  /\ queue[i].label \in Labels
                        /\ queue[i].preview \in {0} \cup Previews
                        /\ queue[i].left \in {<<>>} \cup {<<c>> : c \in Yields} \cup {<<"forced", "none">>}
      OBVIOUS
    <3>1. queue[i] \in Directives
      BY <2>1 DEF QueueTypes
    <3>2. queue[i].label \in Labels /\ queue[i].preview \in {0} \cup Previews
          /\ queue[i].left \in YieldsOf[queue[i].label]
      BY <3>1 DEF Directives
    <3>3. \A label \in Labels :
             YieldsOf[label] \subseteq {<<>>} \cup {<<c>> : c \in Yields} \cup {<<"forced", "none">>}
      BY KnownYields DEF Labels, Yields
    <3>4. QED BY <3>2, <3>3
  <2>3. inFlight \subseteq [label : Labels, preview : {0} \cup Previews, choice : Yields,
                            used : BOOLEAN]
    BY <2>1 DEF QueueTypes, ChoicesInFlight
  <2>4. ChoiceTypeOK
    BY <2>1, <2>2, <2>3 DEF LoopTypes, ActionTypes, QueueTypes, Mishaps, ChoiceTypeOK
  <2>5. ForcedInOrder
    BY DEF ChoiceIInv, ForceServed, Stage, ForcedInOrder
  <2>6. QED BY <2>4, <2>5 DEF ChoiceInv
<1>2. QED BY <1>1, ChoiceIInvHolds, PTL

(* Between races, a preview that was queued and is neither applied nor     *)
(* discarded is not stranded: it is queued, in flight or being resolved    *)
(* (resolve.ts:79).                                                        *)
THEOREM PreviewsAreKept == ChoiceSpec => []PreviewKept
<1>1. ChoiceIInv => PreviewKept
  <2> SUFFICES ASSUME ChoiceIInv,
                      mishaps \cap {"overwritten", "unanswered", "kept"} = {},
                      NEW a \in Previews, preview[a] = "pending"
               PROVE  \/ \E i \in DOMAIN queue : queue[i].preview = a /\ queue[i].left # <<>>
                      \/ \E f \in inFlight : f.preview = a
                      \/ \E c \in calls : c.preview = a
    BY DEF PreviewKept
  <2>1. Queued(a) # <<>> \/ Offered(a) \/ Resolving(a)
    BY DEF ChoiceIInv, Held
  <2>2. CASE Queued(a) # <<>>
    <3>1. queue \in Seq(Directives)
      BY DEF ChoiceIInv, ChoiceTypes, QueueTypes
    <3>2. ~(\A k \in 1..Len(queue) : queue[k] \notin {Pending(a)})
      BY <2>2, <3>1, AmongNone DEF Queued
    <3>3. PICK k \in 1..Len(queue) : queue[k] = Pending(a)
      BY <3>2
    <3>4. k \in DOMAIN queue
      BY <3>1
    <3>5. QED BY <3>3, <3>4, PendingIs
  <2>3. QED BY <2>1, <2>2 DEF Offered, Resolving
<1>2. QED BY <1>1, ChoiceIInvHolds, PTL

(* Unless the choice of a preview is put back after resolve was called, or *)
(* resolve is called twice with it, a preview is applied at most once, and *)
(* not after it was discarded; one that could not be queued never is       *)
(* (runResolveInvocation, resolve.ts:121).                                 *)
THEOREM PreviewsAreAppliedOnce == ChoiceSpec => []AppliedOnce
<1>1. ChoiceIInv => AppliedOnce
  <2> SUFFICES ASSUME ChoiceIInv, mishaps \cap {"abandoned", "repeated"} = {}, NEW a \in Previews
               PROVE  /\ applied[a] <= 1
                      /\ preview[a] \in {"discarded", "unforceable"} => applied[a] = 0
    BY DEF AppliedOnce
  <2>1. applied[a] = IF preview[a] = "applied" THEN 1 ELSE 0
    BY DEF ChoiceIInv, OnePlace, HeldOnce
  <2>2. QED BY <2>1
<1>2. QED BY <1>1, ChoiceIInvHolds, PTL
=============================================================================
