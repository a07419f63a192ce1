----------------------- MODULE DirectPublisher_proofs -----------------------
(***************************************************************************)
(* The safety properties of DirectPublisher for any set of messages and    *)
(* any capacity: its two channels respect their capacity, a task is never  *)
(* refused and pops its own message, messages reach the session in the     *)
(* order they were accepted, Terminate counts what it leaves undelivered,  *)
(* and an unbuffered publisher announces that it is ready again.           *)
(***************************************************************************)
EXTENDS DirectPublisher, FiniteSetTheorems, TLAPS

TaskPCs == {"publish", "await", "full", "pop", "report", "signal"}

(* Run holds a task while it offers it and while publishLoop executes it. *)
RunOK ==
    /\ runPC \in {"offer", "wait"} => runTask \in Messages
    /\ loopPC \in TaskPCs => runPC = "wait"

TypeInv == TypeOK /\ RunOK

-----------------------------------------------------------------------------
(* Head, Tail and Append on the channels. *)
LEMMA QueueFacts ==
  ASSUME NEW s \in Seq(Messages)
  PROVE  /\ Len(s) \in Nat
         /\ s # <<>> => /\ Head(s) \in Messages /\ Tail(s) \in Seq(Messages)
                        /\ Len(Tail(s)) = Len(s) - 1 /\ Len(s) > 0
         /\ \A e \in Messages : Append(s, e) \in Seq(Messages) /\ Len(Append(s, e)) = Len(s) + 1
  OBVIOUS

(* A receive keeps a channel within its bounds. *)
LEMMA ReceiveBound ==
  ASSUME NEW s \in Seq(Messages), NEW r, Len(s) <= Capacity,
         r = s \/ (s # <<>> /\ r = Tail(s))
  PROVE  r \in Seq(Messages) /\ Len(r) <= Capacity
  BY QueueFacts, DirectPublisherAssumption

(* Run's non-blocking receive leaves the channel as it is or takes its head. *)
LEMMA PickTakes ==
  ASSUME RunPick
  PROVE  /\ taskQ' = taskQ \/ (taskQ # <<>> /\ taskQ' = Tail(taskQ))
         /\ runPC' = "offer" => taskQ # <<>> /\ taskQ' = Tail(taskQ) /\ runTask' = Head(taskQ)
         /\ runPC' # "offer" => UNCHANGED taskQ
  <1>1. CASE GracefulSignalled /\ taskQ # <<>>
    BY <1>1 DEF RunPick, NoTaskLeft
  <1>2. CASE ~(GracefulSignalled /\ taskQ # <<>>)
    BY <1>2 DEF RunPick, NoTaskLeft
  <1> QED
    BY <1>1, <1>2

(* The constructed publisher has its types. *)
LEMMA InitType == Init => TypeInv
  <1> SUFFICES ASSUME Init PROVE TypeInv
    OBVIOUS
  <1>1. /\ buffer \in Seq(Messages) /\ taskQ \in Seq(Messages) /\ accepted \in Seq(Messages)
        /\ wire \in Seq(Messages) /\ Len(buffer) <= Capacity /\ Len(taskQ) <= Capacity
    BY DirectPublisherAssumption DEF Init
  <1>2. strategy \in {"direct", "reject", "wait"} /\ canSend \in {<<>>, <<TRUE>>, <<FALSE>>}
    BY DirectPublisherAssumption DEF Init
  <1>3. TypeOK
    BY <1>1, <1>2 DEF Init, TypeOK, PipeTypeOK, RunTypeOK, LoopTypeOK, CoreTypeOK, TermTypeOK,
                      EvtTypeOK, PubPCs, Results, RunPCs, LoopPCs, TermPCs
  <1>4. RunOK
    BY DEF Init, RunOK, TaskPCs
  <1> QED
    BY <1>3, <1>4 DEF TypeInv

(* A group of variables that does not change keeps its types. *)
LEMMA Frame ==
  ASSUME TypeInv
  PROVE  /\ UNCHANGED pipeVars => PipeTypeOK'
         /\ UNCHANGED runVars => RunTypeOK'
         /\ UNCHANGED loopVars => LoopTypeOK'
         /\ UNCHANGED coreVars => CoreTypeOK'
         /\ UNCHANGED termVars => TermTypeOK'
         /\ UNCHANGED evtVars => EvtTypeOK'
         /\ UNCHANGED <<runVars, loopVars>> => RunOK'
  <1> USE DEF TypeInv, TypeOK
  <1>1. UNCHANGED pipeVars => PipeTypeOK'
    BY DEF pipeVars, PipeTypeOK
  <1>2. UNCHANGED runVars => RunTypeOK'
    BY DEF runVars, RunTypeOK
  <1>3. UNCHANGED loopVars => LoopTypeOK'
    BY DEF loopVars, LoopTypeOK
  <1>4. UNCHANGED coreVars => CoreTypeOK'
    BY DEF coreVars, CoreTypeOK
  <1>5. UNCHANGED termVars => TermTypeOK'
    BY DEF termVars, TermTypeOK
  <1>6. UNCHANGED evtVars => EvtTypeOK'
    BY DEF evtVars, EvtTypeOK
  <1>7. UNCHANGED <<runVars, loopVars>> => RunOK'
    BY DEF runVars, loopVars, RunOK
  <1> QED
    BY <1>1, <1>2, <1>3, <1>4, <1>5, <1>6, <1>7

(* publish keeps the types. *)
LEMMA PublisherType == ASSUME TypeInv, NEW m \in Messages, Publisher(m) PROVE TypeInv'
  <1> USE Frame, DirectPublisherAssumption DEF TypeInv, TypeOK
  <1>1. CASE PublishCheck(m)
    BY <1>1 DEF PublishCheck, PipeTypeOK, PubPCs, Results
  <1>2. CASE PublishDirect(m)
    <2>1. PipeTypeOK'
      BY <1>2 DEF PublishDirect, Outcomes, Finish, PipeTypeOK, PubPCs, Results
    <2>2. LoopTypeOK' /\ RunOK'
      BY <1>2, QueueFacts DEF PublishDirect, LoopTypeOK, runVars, RunOK
    <2>3. CoreTypeOK'
      BY <1>2 DEF PublishDirect, CoreTypeOK
    <2>4. EvtTypeOK'
      BY <1>2 DEF PublishDirect, EvtTypeOK
    <2> QED
      BY <1>2, <2>1, <2>2, <2>3, <2>4 DEF PublishDirect
  <1>3. CASE PublishLock(m)
    BY <1>3 DEF PublishLock, PipeTypeOK, PubPCs, Results
  <1>4. CASE PublishPush(m)
    <2>1. PipeTypeOK'
      BY <1>4, QueueFacts DEF PublishPush, HasSpace, PipeTypeOK, PubPCs, Results
    <2> QED
      BY <1>4, <2>1 DEF PublishPush
  <1>5. CASE PublishOverflow(m)
    BY <1>5 DEF PublishOverflow, Finish, Unlock, EvtTypeOK, PipeTypeOK, PubPCs, Results
  <1>6. CASE PublishInterrupted(m)
    BY <1>6 DEF PublishInterrupted, Finish, Unlock, PipeTypeOK, PubPCs, Results
  <1>7. CASE SubmitCheck(m)
    BY <1>7 DEF SubmitCheck, Finish, Unlock, PipeTypeOK, PubPCs, Results
  <1>8. CASE SubmitEnqueue(m)
    <2>1. PipeTypeOK'
      BY <1>8, QueueFacts DEF SubmitEnqueue, TaskCapacity, Finish, Unlock, PipeTypeOK, PubPCs, Results
    <2> QED
      BY <1>8, <2>1 DEF SubmitEnqueue
  <1>9. CASE PublishDirectOverflow(m)
    BY <1>9 DEF PublishDirectOverflow, Finish, PipeTypeOK, PubPCs, Results
  <1> QED
    BY <1>1, <1>2, <1>3, <1>4, <1>5, <1>6, <1>7, <1>8, <1>9 DEF Publisher

(* taskBuffer.Run keeps the types. *)
LEMMA RunType == ASSUME TypeInv, Run PROVE TypeInv'
  <1> USE Frame, DirectPublisherAssumption DEF TypeInv, TypeOK
  <1>1. CASE RunTop
    BY <1>1 DEF RunTop, RunTypeOK, RunPCs, RunOK, TaskPCs, loopVars
  <1>2. CASE RunPick
    <2>1. PipeTypeOK'
      <3>1. taskQ' = taskQ \/ (taskQ # <<>> /\ taskQ' = Tail(taskQ))
        BY <1>2, PickTakes
      <3>2. taskQ' \in Seq(Messages) /\ Len(taskQ') <= Capacity
        BY <3>1, ReceiveBound DEF PipeTypeOK
      <3> QED
        BY <1>2, <3>2 DEF RunPick, PipeTypeOK
    <2>2. RunTypeOK' /\ RunOK'
      BY <1>2, PickTakes, QueueFacts
         DEF RunPick, NoTaskLeft, PipeTypeOK, RunTypeOK, RunPCs, RunOK, TaskPCs, loopVars
    <2>3. signals' \subseteq Signals
      BY <1>2 DEF RunPick, Signals
    <2> QED
      BY <1>2, <2>1, <2>2, <2>3 DEF RunPick
  <1>3. CASE RunBlockTake
    <2>1. PipeTypeOK'
      BY <1>3, QueueFacts DEF RunBlockTake, PipeTypeOK
    <2>2. RunTypeOK' /\ RunOK'
      BY <1>3, QueueFacts DEF RunBlockTake, PipeTypeOK, RunTypeOK, RunPCs, RunOK, TaskPCs, loopVars
    <2> QED
      BY <1>3, <2>1, <2>2 DEF RunBlockTake
  <1>4. CASE RunBlockInterrupted
    BY <1>4 DEF RunBlockInterrupted, RunTypeOK, RunPCs, RunOK, TaskPCs, loopVars
  <1>5. CASE RunHandOver
    BY <1>5 DEF RunHandOver, LoopTypeOK, LoopPCs, RunTypeOK, RunPCs, RunOK, TaskPCs
  <1>6. CASE RunAbort
    BY <1>6 DEF RunAbort, RunTypeOK, RunPCs, RunOK, TaskPCs, loopVars
  <1>7. CASE RunExit
    BY <1>7 DEF RunExit, Signals, RunTypeOK, RunPCs, RunOK, TaskPCs, loopVars
  <1> QED
    BY <1>1, <1>2, <1>3, <1>4, <1>5, <1>6, <1>7 DEF Run

(* publishLoop and its tasks keep the types. *)
LEMMA LoopType == ASSUME TypeInv, PublishLoop PROVE TypeInv'
  <1> USE Frame, DirectPublisherAssumption DEF TypeInv, TypeOK
  <1>1. CASE LoopTop
    BY <1>1 DEF LoopTop, LoopTypeOK, LoopPCs, RunOK, TaskPCs, runVars
  <1>2. CASE LoopTerminated
    BY <1>2 DEF LoopTerminated, LoopTypeOK, LoopPCs, RunOK, TaskPCs, runVars
  <1>3. CASE TaskPublishOk
    <2>1. runTask \in Messages
      BY <1>3 DEF TaskPublishOk, RunOK, TaskPCs
    <2>2. LoopTypeOK' /\ RunOK'
      BY <1>3, <2>1, QueueFacts DEF TaskPublishOk, LoopTypeOK, LoopPCs, RunOK, TaskPCs, runVars
    <2> QED
      BY <1>3, <2>2 DEF TaskPublishOk
  <1>4. CASE TaskPublishWouldBlock
    BY <1>4 DEF TaskPublishWouldBlock, CoreTypeOK, LoopTypeOK, LoopPCs, RunOK, TaskPCs, runVars
  <1>5. CASE TaskPublishError
    BY <1>5 DEF TaskPublishError, LoopTypeOK, LoopPCs, RunOK, TaskPCs, runVars
  <1>6. CASE TaskAwaitToken
    BY <1>6 DEF TaskAwaitToken, AbandonTask, CoreTypeOK, LoopTypeOK, LoopPCs, RunOK, TaskPCs, runVars
  <1>7. CASE TaskAwaitTerminated
    BY <1>7 DEF TaskAwaitTerminated, AbandonTask, LoopTypeOK, LoopPCs, RunOK, TaskPCs, runVars
  <1>8. CASE TaskReadFull
    BY <1>8 DEF TaskReadFull, BufferIsFull, LoopTypeOK, LoopPCs, RunOK, TaskPCs, runVars
  <1>9. CASE TaskPop
    <2>1. PipeTypeOK'
      <3>1. buffer' = buffer \/ (buffer # <<>> /\ buffer' = Tail(buffer))
        BY <1>9 DEF TaskPop
      <3>2. buffer' \in Seq(Messages) /\ Len(buffer') <= Capacity
        BY <3>1, ReceiveBound DEF PipeTypeOK
      <3> QED
        BY <1>9, <3>2 DEF TaskPop, PipeTypeOK
    <2>2. LoopTypeOK' /\ RunOK'
      BY <1>9 DEF TaskPop, LoopTypeOK, LoopPCs, RunOK, TaskPCs, runVars
    <2> QED
      BY <1>9, <2>1, <2>2 DEF TaskPop
  <1>10. CASE TaskReport
    BY <1>10 DEF TaskReport, SubmitFailure, NotifyReady, EvtTypeOK, LoopTypeOK, LoopPCs, RunOK,
       TaskPCs, runVars
  <1>11. CASE TaskComplete
    BY <1>11 DEF TaskComplete, LoopTypeOK, LoopPCs, RunTypeOK, RunPCs, RunOK, TaskPCs
  <1> QED
    BY <1>1, <1>2, <1>3, <1>4, <1>5, <1>6, <1>7, <1>8, <1>9, <1>10, <1>11 DEF PublishLoop

(* The session and the core publisher keep the types. *)
LEMMA CoreType == ASSUME TypeInv, Core PROVE TypeInv'
  <1> USE Frame, DirectPublisherAssumption DEF TypeInv, TypeOK
  <1>1. CASE OnCanSend
    <2>1. EvtTypeOK'
      BY <1>1 DEF OnCanSend, EvtTypeOK
    <2>2. CoreTypeOK'
      BY <1>1 DEF OnCanSend, PushToken, CoreTypeOK
    <2> QED
      BY <1>1, <2>1, <2>2 DEF OnCanSend
  <1>2. CASE NotifyWhenReady \/ NotifyGoroutine
    BY <1>2 DEF NotifyWhenReady, NotifyGoroutine, NotifyReady, EvtTypeOK
  <1>3. CASE SessionDown
    BY <1>3 DEF SessionDown, CoreTypeOK
  <1>4. CASE CoreInterrupt
    BY <1>4 DEF CoreInterrupt, PushToken, CoreTypeOK
  <1>5. CASE CoreClose
    BY <1>5 DEF CoreClose, CoreTypeOK
  <1> QED
    BY <1>1, <1>2, <1>3, <1>4, <1>5 DEF Core

(* Termination keeps the types. *)
LEMMA TerminatorType == ASSUME TypeInv, Terminator PROVE TypeInv'
  <1> USE Frame, DirectPublisherAssumption DEF TypeInv, TypeOK
  <1>1. CASE \E k \in TermKinds : TerminateStart(k)
    BY <1>1 DEF TerminateStart, TermTypeOK, TermPCs
  <1>2. CASE TerminateInterrupt
    BY <1>2 DEF TerminateInterrupt, CloseSignal, Signals, TermTypeOK, TermPCs
  <1>3. CASE TerminateGraceful
    BY <1>3 DEF TerminateGraceful, CloseSignal, Signals, TermTypeOK, TermPCs
  <1>4. CASE TerminateTask
    BY <1>4 DEF TerminateTask, CloseSignal, Signals, TermTypeOK, TermPCs
  <1>5. CASE TerminateUngraceful
    BY <1>5 DEF TerminateUngraceful, CloseSignal, AfterUngraceful, Signals, TermTypeOK, TermPCs
  <1>6. CASE TerminateAwaited
    BY <1>6 DEF TerminateAwaited, TermTypeOK, TermPCs
  <1>7. CASE TerminateTimeout
    BY <1>7 DEF TerminateTimeout, TermTypeOK, TermPCs
  <1>8. CASE DrainClose
    BY <1>8 DEF DrainClose, PipeTypeOK, TermTypeOK, TermPCs
  <1>9. CASE DrainOne
    <2>1. PipeTypeOK' /\ Head(buffer) \in Messages
      BY <1>9, QueueFacts DEF DrainOne, PipeTypeOK
    <2>2. TermTypeOK' /\ EvtTypeOK'
      BY <1>9, <2>1 DEF DrainOne, SubmitFailure, EvtTypeOK, TermTypeOK, TermPCs
    <2> QED
      BY <1>9, <2>1, <2>2 DEF DrainOne
  <1>10. CASE DrainDone
    BY <1>10 DEF DrainDone, TermTypeOK, TermPCs
  <1>11. CASE TerminateFinish
    BY <1>11 DEF TerminateFinish, EvtTypeOK, TermTypeOK, TermPCs
  <1> QED
    BY <1>1, <1>2, <1>3, <1>4, <1>5, <1>6, <1>7, <1>8, <1>9, <1>10, <1>11 DEF Terminator

-----------------------------------------------------------------------------
(* The type invariant is inductive. *)
LEMMA TypeStep == TypeInv /\ [Next]_vars => TypeInv'
  <1> SUFFICES ASSUME TypeInv, [Next]_vars PROVE TypeInv'
    OBVIOUS
  <1>1. CASE UNCHANGED vars
    BY <1>1, Frame DEF vars, TypeInv, TypeOK
  <1> QED
    BY <1>1, PublisherType, RunType, LoopType, CoreType, TerminatorType DEF Next

(* Every variable has its type, for every capacity and set of messages:    *)
(* neither channel ever holds more than it was made for.                   *)
THEOREM TypeCorrect == Spec => []TypeOK
  <1>1. TypeInv => TypeOK
    BY DEF TypeInv
  <1> QED
    BY InitType, TypeStep, <1>1, PTL DEF Spec

-----------------------------------------------------------------------------
(***************************************************************************)
(* Why a task is never refused: every message in buffer has at most one    *)
(* task, which is in the task channel, in Run's hands, being executed, or  *)
(* about to be submitted by the holder of bufferPublishLock.               *)
(***************************************************************************)
Critical   == {"push", "submit", "enqueue"}
Submitting == \E m \in Messages : pubPC[m] \in {"submit", "enqueue"}
Bit(b)     == IF b THEN 1 ELSE 0
Waiting    == Len(taskQ) + Bit(Submitting)
Running    == Bit(runPC = "offer") + Bit(InTask)

LockOK  == \A m \in Messages : pubPC[m] \in Critical => lock = m
BoundOK == IF bufferClosed THEN Waiting <= Capacity ELSE Waiting + Running <= Len(buffer)
DrainOK == termPC = "drain" => bufferClosed

BoundInv == TypeInv /\ LockOK /\ BoundOK /\ DrainOK

(* bufferPublishLock admits one goroutine to push and Submit. *)
LEMMA OneSubmitter ==
  ASSUME BoundInv, NEW m \in Messages, pubPC[m] \in Critical, NEW x \in PubPCs,
         pubPC' = [pubPC EXCEPT ![m] = x]
  PROVE  /\ Submitting <=> pubPC[m] \in {"submit", "enqueue"}
         /\ Submitting' <=> x \in {"submit", "enqueue"}
         /\ \A n \in Messages : n # m => pubPC'[n] \notin Critical
         /\ pubPC'[m] = x
  <1>1. \A n \in Messages : n # m => pubPC[n] \notin Critical
    BY DEF BoundInv, LockOK
  <1>2. pubPC'[m] = x /\ \A n \in Messages : n # m => pubPC'[n] = pubPC[n]
    BY DEF BoundInv, TypeInv, TypeOK, PipeTypeOK
  <1> QED
    BY <1>1, <1>2 DEF Submitting, Critical

(* The lengths the counting is about. *)
LEMMA Lengths ==
  ASSUME TypeInv
  PROVE  Len(taskQ) \in Nat /\ Len(buffer) \in Nat /\ Len(buffer) <= Capacity /\ Capacity \in Nat
  BY QueueFacts, DirectPublisherAssumption DEF TypeInv, TypeOK, PipeTypeOK

(* A step of a goroutine that neither was nor is submitting. *)
LEMMA NotSubmitting ==
  ASSUME BoundInv, NEW m \in Messages, NEW x \in PubPCs, pubPC' = [pubPC EXCEPT ![m] = x],
         pubPC[m] \notin {"submit", "enqueue"}, x \notin {"submit", "enqueue"}
  PROVE  Submitting' <=> Submitting
  <1>1. pubPC'[m] = x /\ \A n \in Messages : n # m => pubPC'[n] = pubPC[n]
    BY DEF BoundInv, TypeInv, TypeOK, PipeTypeOK
  <1> QED
    BY <1>1 DEF Submitting

(* publish keeps the bound. *)
LEMMA PublisherBound == ASSUME BoundInv, NEW m \in Messages, Publisher(m)
                        PROVE  LockOK' /\ BoundOK' /\ DrainOK'
  <1>1. DrainOK' /\ Running' = Running
    BY DEF BoundInv, DrainOK, Running, Bit, InTask, Publisher, PublishCheck, PublishDirect,
       PublishDirectOverflow,
       PublishLock, PublishPush, PublishOverflow, PublishInterrupted, SubmitCheck,
       SubmitEnqueue, runVars, loopVars, termVars
  <1>2. Len(taskQ) \in Nat /\ Len(buffer) \in Nat /\ Len(buffer) <= Capacity /\ Capacity \in Nat
        /\ Running \in Nat
    BY Lengths DEF BoundInv, Running, Bit
  <1>3. CASE PublishCheck(m) \/ PublishDirect(m) \/ PublishDirectOverflow(m)
    <2>1. PICK x \in {"lock", "overflow", "done"} : pubPC' = [pubPC EXCEPT ![m] = x]
      BY <1>3 DEF PublishCheck, PublishDirect, PublishDirectOverflow, Finish
    <2>2. /\ pubPC[m] \in {"idle", "lock", "overflow"}
          /\ UNCHANGED <<lock, buffer, bufferClosed, taskQ>>
      BY <1>3 DEF PublishCheck, PublishDirect, PublishDirectOverflow
    <2>3. Submitting' <=> Submitting
      BY <2>1, <2>2, NotSubmitting DEF PubPCs
    <2>4. LockOK'
      BY <2>1, <2>2 DEF BoundInv, TypeInv, TypeOK, PipeTypeOK, LockOK, Critical
    <2>5. BoundOK'
      BY <1>1, <2>2, <2>3 DEF BoundInv, BoundOK, Waiting, Bit
    <2> QED
      BY <1>1, <2>4, <2>5
  <1>4. CASE PublishLock(m)
    <2>1. \A n \in Messages : pubPC[n] \notin Critical
      BY <1>4, DirectPublisherAssumption DEF PublishLock, LockFree, BoundInv, LockOK
    <2>2. /\ pubPC[m] = "lock" /\ pubPC' = [pubPC EXCEPT ![m] = "push"]
          /\ lock' = m /\ UNCHANGED <<buffer, bufferClosed, taskQ>>
      BY <1>4 DEF PublishLock
    <2>3. Submitting' <=> Submitting
      BY <2>2, NotSubmitting DEF PubPCs
    <2>4. LockOK'
      BY <2>1, <2>2 DEF BoundInv, TypeInv, TypeOK, PipeTypeOK, LockOK
    <2>5. BoundOK'
      BY <1>1, <2>2, <2>3 DEF BoundInv, BoundOK, Waiting, Bit
    <2> QED
      BY <1>1, <2>4, <2>5
  <1>5. CASE PublishPush(m)
    <2>1. /\ pubPC[m] = "push" /\ pubPC' = [pubPC EXCEPT ![m] = "submit"]
          /\ ~bufferClosed /\ buffer' = Append(buffer, m) /\ UNCHANGED <<lock, bufferClosed, taskQ>>
      BY <1>5 DEF PublishPush
    <2>2. ~Submitting /\ Submitting' /\ \A n \in Messages : n # m => pubPC'[n] \notin Critical
      BY <2>1, OneSubmitter DEF Critical, PubPCs
    <2>3. Len(buffer') = Len(buffer) + 1
      BY <2>1, QueueFacts DEF BoundInv, TypeInv, TypeOK, PipeTypeOK
    <2>4. LockOK'
      BY <2>1, <2>2 DEF BoundInv, LockOK, Critical
    <2>5. Waiting' = Waiting + 1 /\ Waiting \in Nat
      BY <1>2, <2>1, <2>2 DEF Waiting, Bit
    <2>6. BoundOK'
      BY <1>1, <1>2, <2>1, <2>3, <2>5 DEF BoundInv, BoundOK
    <2> QED
      BY <1>1, <2>4, <2>6
  <1>6. CASE PublishOverflow(m) \/ PublishInterrupted(m)
    <2>1. /\ pubPC[m] = "push" /\ pubPC' = [pubPC EXCEPT ![m] = "done"]
          /\ UNCHANGED <<buffer, bufferClosed, taskQ>>
      BY <1>6 DEF PublishOverflow, PublishInterrupted, Finish
    <2>2. Submitting' <=> Submitting
      BY <2>1, NotSubmitting DEF PubPCs
    <2>3. \A n \in Messages : pubPC'[n] \notin Critical
      BY <2>1, OneSubmitter DEF Critical, PubPCs
    <2>4. BoundOK'
      BY <1>1, <2>1, <2>2 DEF BoundInv, BoundOK, Waiting, Bit
    <2> QED
      BY <1>1, <2>3, <2>4 DEF LockOK
  <1>7. CASE SubmitCheck(m)
    <2>1. PICK x \in {"enqueue", "done"} : /\ pubPC' = [pubPC EXCEPT ![m] = x]
                                           /\ x = "enqueue" => UNCHANGED lock
      BY <1>7 DEF SubmitCheck, Finish
    <2>2. pubPC[m] = "submit" /\ UNCHANGED <<buffer, bufferClosed, taskQ>>
      BY <1>7 DEF SubmitCheck
    <2>3. Submitting /\ (\A n \in Messages : n # m => pubPC'[n] \notin Critical) /\ pubPC'[m] = x
      BY <2>1, <2>2, OneSubmitter DEF Critical, PubPCs
    <2>4. LockOK'
      BY <2>1, <2>2, <2>3 DEF BoundInv, LockOK, Critical
    <2>5. Waiting' <= Waiting /\ Waiting \in Nat /\ Waiting' \in Nat
      BY <1>2, <2>2, <2>3 DEF Waiting, Bit
    <2>6. BoundOK'
      BY <1>1, <1>2, <2>2, <2>5 DEF BoundInv, BoundOK
    <2> QED
      BY <1>1, <2>4, <2>6
  <1>8. CASE SubmitEnqueue(m)
    <2>1. /\ pubPC[m] = "enqueue" /\ pubPC' = [pubPC EXCEPT ![m] = "done"]
          /\ UNCHANGED <<buffer, bufferClosed>>
      BY <1>8 DEF SubmitEnqueue, Finish
    <2>2. Submitting /\ ~Submitting' /\ \A n \in Messages : pubPC'[n] \notin Critical
      BY <2>1, OneSubmitter DEF Critical, PubPCs
    <2>3. Len(taskQ') \in Nat /\ Len(taskQ') <= Len(taskQ) + 1
      BY <1>2, <1>8, QueueFacts DEF SubmitEnqueue, BoundInv, TypeInv, TypeOK, PipeTypeOK
    <2>4. Waiting' <= Waiting /\ Waiting \in Nat /\ Waiting' \in Nat
      BY <1>2, <2>2, <2>3 DEF Waiting, Bit
    <2>5. BoundOK'
      BY <1>1, <1>2, <2>1, <2>4 DEF BoundInv, BoundOK
    <2> QED
      BY <1>1, <2>2, <2>5 DEF LockOK
  <1> QED
    BY <1>3, <1>4, <1>5, <1>6, <1>7, <1>8 DEF Publisher

(* A step that leaves buffer and the publishers alone keeps the bound if   *)
(* it creates no task.                                                     *)
LEMMA NoNewTask ==
  ASSUME BoundInv, UNCHANGED <<pubPC, lock, buffer, bufferClosed, termPC>>,
         Len(taskQ') \in Nat, Running' \in Nat, Len(taskQ') <= Len(taskQ),
         Len(taskQ') + Running' <= Len(taskQ) + Running
  PROVE  LockOK' /\ BoundOK' /\ DrainOK'
  <1>1. Len(taskQ) \in Nat /\ Len(buffer) \in Nat /\ Capacity \in Nat /\ Running \in Nat
    BY Lengths DEF BoundInv, Running, Bit
  <1>2. Submitting' <=> Submitting
    BY DEF Submitting
  <1>3. Waiting' = Len(taskQ') + Bit(Submitting) /\ Bit(Submitting) \in Nat
    BY <1>2 DEF Waiting, Bit
  <1>4. BoundOK'
    BY <1>1, <1>3 DEF BoundInv, BoundOK, Waiting
  <1> QED
    BY <1>4 DEF BoundInv, LockOK, DrainOK

(* taskBuffer.Run keeps the bound: it only moves tasks on, or drops them. *)
LEMMA RunBound == ASSUME BoundInv, Run PROVE LockOK' /\ BoundOK' /\ DrainOK'
  <1> USE DEF Running, Bit, InTask
  <1>1. Len(taskQ) \in Nat /\ Running' \in Nat
    BY Lengths DEF BoundInv
  <1>2. UNCHANGED <<pubPC, lock, buffer, bufferClosed, termPC>>
    BY DEF Run, RunTop, RunPick, RunBlockTake, RunBlockInterrupted, RunHandOver, RunAbort, RunExit,
           pipeVars, termVars
  <1>3. CASE RunTop \/ RunBlockInterrupted \/ RunHandOver \/ RunAbort \/ RunExit
    <2>1. UNCHANGED taskQ /\ Running' <= Running
      BY <1>3 DEF RunTop, RunBlockInterrupted, RunHandOver, RunAbort, RunExit, pipeVars, loopVars
    <2> QED
      BY <1>1, <1>2, <2>1, NoNewTask
  <1>4. CASE RunPick \/ RunBlockTake
    <2>1. \/ UNCHANGED taskQ /\ runPC' # "offer"
          \/ taskQ # <<>> /\ taskQ' = Tail(taskQ) /\ runPC' = "offer"
      BY <1>4, PickTakes DEF RunBlockTake
    <2>2. runPC # "offer" /\ UNCHANGED loopPC
      BY <1>4 DEF RunPick, RunBlockTake, loopVars
    <2>3. CASE UNCHANGED taskQ /\ runPC' # "offer"
      BY <1>1, <1>2, <2>2, <2>3, NoNewTask
    <2>4. CASE taskQ # <<>> /\ taskQ' = Tail(taskQ) /\ runPC' = "offer"
      <3>1. Len(taskQ') \in Nat /\ Len(taskQ') = Len(taskQ) - 1
        BY <1>1, <2>4, QueueFacts DEF BoundInv, TypeInv, TypeOK, PipeTypeOK
      <3> QED
        BY <1>1, <1>2, <2>2, <2>4, <3>1, NoNewTask
    <2> QED
      BY <2>1, <2>3, <2>4
  <1> QED
    BY <1>3, <1>4 DEF Run

(* A task that ends pops its message, unless it is abandoned. *)
LEMMA LoopBound == ASSUME BoundInv, PublishLoop PROVE LockOK' /\ BoundOK' /\ DrainOK'
  <1> USE DEF Running, Bit, InTask
  <1>1. Len(taskQ) \in Nat /\ Running' \in Nat /\ Running \in Nat
    BY Lengths DEF BoundInv
  <1>2. CASE TaskPop
    <2>1. UNCHANGED <<pubPC, lock, bufferClosed, termPC, taskQ, runPC>> /\ Running' = Running - 1
      BY <1>2 DEF TaskPop, runVars, termVars
    <2>2. CASE UNCHANGED buffer
      BY <1>1, <2>1, <2>2, NoNewTask
    <2>3. CASE buffer # <<>> /\ buffer' = Tail(buffer)
      <3>1. Len(buffer) \in Nat /\ Len(buffer') = Len(buffer) - 1
        BY <2>3, QueueFacts DEF BoundInv, TypeInv, TypeOK, PipeTypeOK
      <3>2. Waiting' = Waiting /\ Waiting \in Nat
        BY <1>1, <2>1 DEF Waiting, Submitting
      <3> HIDE DEF Running, Bit
      <3>3. BoundOK'
        BY <1>1, <2>1, <3>1, <3>2 DEF BoundInv, BoundOK
      <3> QED
        BY <2>1, <3>3 DEF BoundInv, LockOK, DrainOK
    <2> QED
      BY <1>2, <2>2, <2>3 DEF TaskPop
  <1>3. CASE ~TaskPop
    <2>1. UNCHANGED <<pubPC, lock, buffer, bufferClosed, termPC, taskQ>>
      BY <1>3 DEF PublishLoop, LoopTop, LoopTerminated, TaskPublishOk, TaskPublishWouldBlock,
         TaskPublishError, TaskAwaitToken, TaskAwaitTerminated, TaskReadFull, TaskReport,
         TaskComplete, pipeVars, termVars
    <2>2. (InTask' => InTask) /\ (runPC' = "offer" => runPC = "offer")
      BY <1>3 DEF PublishLoop, LoopTop, LoopTerminated, TaskPublishOk, TaskPublishWouldBlock,
         TaskPublishError, TaskAwaitToken, TaskAwaitTerminated, TaskReadFull, TaskReport,
         TaskComplete, AbandonTask, runVars
    <2>3. Running' <= Running
      BY <2>2
    <2> QED
      BY <1>1, <2>1, <2>3, NoNewTask
  <1> QED
    BY <1>2, <1>3

(* The core publisher has no part in it. *)
LEMMA CoreBound == ASSUME BoundInv, Core \/ UNCHANGED vars PROVE LockOK' /\ BoundOK' /\ DrainOK'
  <1>1. UNCHANGED <<pipeVars, runVars, loopVars, termVars>>
    BY DEF Core, OnCanSend, NotifyGoroutine, NotifyWhenReady, SessionDown, CoreInterrupt,
       CoreClose, vars
  <1>2. UNCHANGED <<pubPC, lock, buffer, bufferClosed, termPC, taskQ, runPC, loopPC>>
    BY <1>1 DEF pipeVars, runVars, loopVars, termVars
  <1>3. Running' = Running /\ Running \in Nat
    BY <1>2 DEF Running, Bit, InTask
  <1> QED
    BY <1>2, <1>3, NoNewTask, Lengths DEF BoundInv

(* Termination keeps it: buffer is drained only after it has been closed. *)
LEMMA TerminatorBound == ASSUME BoundInv, Terminator PROVE LockOK' /\ BoundOK' /\ DrainOK'
  <1>1. UNCHANGED <<pubPC, lock, taskQ, runPC, loopPC>>
    BY DEF Terminator, TerminateStart, TerminateInterrupt, TerminateGraceful, TerminateTask,
           TerminateUngraceful, CloseSignal, TerminateAwaited, TerminateTimeout, DrainClose,
           DrainOne, DrainDone, TerminateFinish, pipeVars, runVars, loopVars
  <1>2. LockOK' /\ Waiting' = Waiting /\ Running' = Running
    BY <1>1 DEF BoundInv, LockOK, Waiting, Running, Submitting, InTask
  <1>3. Waiting \in Nat /\ Running \in Nat /\ Len(buffer) \in Nat /\ Len(buffer) <= Capacity
        /\ Capacity \in Nat
    BY Lengths DEF BoundInv, Waiting, Running, Bit
  <1>4. CASE DrainClose
    BY <1>2, <1>3, <1>4 DEF DrainClose, BoundInv, BoundOK, DrainOK
  <1>5. CASE DrainOne
    BY <1>2, <1>5 DEF DrainOne, BoundInv, BoundOK, DrainOK
  <1>6. CASE ~DrainClose /\ ~DrainOne
    <2>1. UNCHANGED <<buffer, bufferClosed>> /\ termPC' # "drain"
      BY <1>6 DEF Terminator, TerminateStart, TerminateInterrupt, TerminateGraceful, TerminateTask,
         TerminateUngraceful, AfterUngraceful, CloseSignal, TerminateAwaited, TerminateTimeout,
         DrainDone, TerminateFinish, pipeVars
    <2> QED
      BY <1>2, <2>1 DEF BoundInv, BoundOK, DrainOK
  <1> QED
    BY <1>4, <1>5, <1>6

(* The counting is inductive. *)
LEMMA BoundInductive ==
    /\ Init => BoundInv
    /\ BoundInv /\ [Next]_vars => BoundInv'
  <1>1. Init => BoundInv
    <2>1. Init => LockOK /\ DrainOK
      BY DEF Init, LockOK, Critical, DrainOK
    <2>2. Init => ~bufferClosed /\ Len(taskQ) = 0 /\ Len(buffer) = 0 /\ ~Submitting /\ Running = 0
      BY DEF Init, Submitting, Running, Bit, InTask
    <2>3. Init => BoundOK
      BY <2>2 DEF BoundOK, Waiting, Bit
    <2> QED
      BY <2>1, <2>3, InitType DEF BoundInv
  <1>2. BoundInv /\ [Next]_vars => BoundInv'
    BY TypeStep, PublisherBound, RunBound, LoopBound, CoreBound, TerminatorBound DEF BoundInv, Next
  <1> QED
    BY <1>1, <1>2

(* A goroutine that is about to submit its task finds space for it. *)
LEMMA EnqueueHasSpace ==
  ASSUME BoundInv, NEW m \in Messages, pubPC[m] = "enqueue"
  PROVE  Len(taskQ) < TaskCapacity
  <1>1. Waiting = Len(taskQ) + 1
    BY DEF Waiting, Submitting, Bit
  <1>2. Running \in Nat
    BY DEF Running, Bit
  <1> QED
    BY <1>1, <1>2, Lengths DEF BoundInv, BoundOK, TaskCapacity

(* taskBuffer.Submit never meets a full channel, whatever the capacity,    *)
(* the number of publishers and the way the publisher is terminated.       *)
THEOREM TaskNeverRefused == Spec => []SubmitNeverFull
  <1>1. BoundInv => SubmitNeverFull
    BY EnqueueHasSpace DEF SubmitNeverFull
  <1> QED
    BY <1>1, BoundInductive, PTL DEF Spec
-----------------------------------------------------------------------------
(***************************************************************************)
(* Which signals have been given, and what has been done once they are.    *)
(***************************************************************************)
Stages ==
    /\ (termPC = "idle") <=> (state = "Started")
    /\ (termPC = "done") <=> (state = "Terminated")
    /\ termPC = "idle" => signals = {} /\ termKind = "none"
    /\ termPC # "idle" => termKind # "none"
    /\ strategy = "direct" => termPC \in {"idle", "finish", "done"}
    /\ execClosed => termPC = "done"

SignalsOK ==
    /\ "complete" \in signals <=> runPC = "exited"
    /\ "ungraceful" \in signals => "task" \in signals
    /\ runPC = "exit" => "ungraceful" \in signals
    /\ termPC \in {"ungraceful", "awaitForced"} => "task" \in signals
    /\ canSend = <<FALSE>> => core # "running"

(* Terminate closes and drains buffer after Run has ended; only a down     *)
(* event does not wait for it.                                             *)
Closing ==
    /\ bufferClosed => termPC \in {"drain", "finish", "done"}
    /\ termPC \in {"drain", "finish", "done"} /\ strategy # "direct" => bufferClosed
    /\ termPC \in {"finish", "done"} /\ strategy # "direct" => buffer = <<>>
    /\ termPC \in {"close", "drain", "finish", "done"} /\ strategy # "direct" =>
           "complete" \in signals \/ (termKind = "down" /\ "task" \in signals)

StageInv == Stages /\ SignalsOK /\ Closing

(* The tokens of canSend are told apart.                                   *)
LEMMA TokenFacts == <<>> # <<FALSE>> /\ <<TRUE>> # <<FALSE>>
  <1>1. Len(<<>>) = 0 /\ Len(<<FALSE>>) = 1
    OBVIOUS
  <1>2. <<TRUE>>[1] = TRUE /\ <<FALSE>>[1] = FALSE
    OBVIOUS
  <1> QED
    BY <1>1, <1>2

(* The publishers give no signal.                                          *)
LEMMA PublisherStage == ASSUME TypeInv, StageInv, NEW m \in Messages, Publisher(m) PROVE StageInv'
  <1>1. UNCHANGED <<strategy, state, termPC, termKind, signals, execClosed, bufferClosed, runPC,
                    canSend, core>>
    BY DEF Publisher, PublishCheck, PublishDirect, PublishDirectOverflow, PublishLock, PublishPush,
       PublishOverflow,
           PublishInterrupted, SubmitCheck, SubmitEnqueue, runVars, coreVars, termVars, evtVars
  <1>2. buffer' = buffer \/ ~bufferClosed
    BY DEF Publisher, PublishCheck, PublishDirect, PublishDirectOverflow, PublishLock, PublishPush,
       PublishOverflow,
           PublishInterrupted, SubmitCheck, SubmitEnqueue
  <1> QED
    BY <1>1, <1>2 DEF StageInv, Stages, SignalsOK, Closing

(* Run signals its end, once.                                              *)
LEMMA RunStage == ASSUME TypeInv, StageInv, Run PROVE StageInv'
  <1>1. UNCHANGED <<strategy, state, termPC, termKind, execClosed, bufferClosed, buffer, canSend, core>>
    BY DEF Run, RunTop, RunPick, RunBlockTake, RunBlockInterrupted, RunHandOver, RunAbort, RunExit,
           pipeVars, coreVars, termVars, evtVars
  <1>2. /\ runPC # "exited"
        /\ \/ runPC' = "exited" /\ signals' = signals \cup {"complete"} /\ signals # {}
           \/ /\ runPC' # "exited" /\ UNCHANGED signals
              /\ runPC' = "exit" => "ungraceful" \in signals
    <2>1. CASE RunPick
      BY <2>1 DEF RunPick, GracefulSignalled
    <2>2. CASE RunExit
      BY <2>2 DEF RunExit, StageInv, SignalsOK
    <2> QED
      BY <2>1, <2>2 DEF Run, RunTop, RunBlockTake, RunBlockInterrupted, RunHandOver, RunAbort
  <1>3. Stages'
    BY <1>1, <1>2 DEF StageInv, Stages
  <1>4. SignalsOK'
    BY <1>1, <1>2 DEF StageInv, SignalsOK
  <1>5. Closing'
    BY <1>1, <1>2 DEF StageInv, Closing
  <1> QED
    BY <1>3, <1>4, <1>5 DEF StageInv

(* publishLoop gives no signal, and has nothing to pop from a drained      *)
(* buffer.                                                                 *)
LEMMA LoopStage == ASSUME TypeInv, StageInv, PublishLoop PROVE StageInv'
  <1>1. UNCHANGED <<strategy, state, termPC, termKind, signals, execClosed, bufferClosed, core>>
    BY DEF PublishLoop, LoopTop, LoopTerminated, TaskPublishOk, TaskPublishWouldBlock,
         TaskPublishError, TaskAwaitToken, TaskAwaitTerminated, TaskReadFull, TaskPop, TaskReport,
         TaskComplete, pipeVars, coreVars, termVars, evtVars
  <1>2. /\ buffer = <<>> => buffer' = <<>>
        /\ canSend' = canSend \/ canSend' = <<>>
    BY DEF PublishLoop, LoopTop, LoopTerminated, TaskPublishOk, TaskPublishWouldBlock,
         TaskPublishError, TaskAwaitToken, TaskAwaitTerminated, TaskReadFull, TaskPop, TaskReport,
         TaskComplete, pipeVars, coreVars
  <1>3. runPC' = runPC \/ (runPC = "wait" /\ runPC' = "top")
    BY DEF PublishLoop, LoopTop, LoopTerminated, TaskPublishOk, TaskPublishWouldBlock,
         TaskPublishError, TaskAwaitToken, TaskAwaitTerminated, TaskReadFull, TaskPop, TaskReport,
         TaskComplete, runVars
  <1>4. Stages'
    BY <1>1 DEF StageInv, Stages
  <1>5. SignalsOK'
    <2>1. canSend' = <<FALSE>> => canSend = <<FALSE>>
      BY <1>2, TokenFacts
    <2> QED
      BY <1>1, <1>3, <2>1 DEF StageInv, SignalsOK
  <1>6. Closing'
    BY <1>1, <1>2 DEF StageInv, Closing
  <1> QED
    BY <1>4, <1>5, <1>6 DEF StageInv

(* A token FALSE comes from the core publisher's termination.              *)
LEMMA CoreStage == ASSUME TypeInv, StageInv, Core \/ UNCHANGED vars PROVE StageInv'
  <1>1. UNCHANGED <<strategy, state, termPC, termKind, signals, execClosed, bufferClosed, buffer, runPC>>
    BY DEF Core, OnCanSend, NotifyGoroutine, NotifyWhenReady, SessionDown, CoreInterrupt,
       CoreClose, vars,
           pipeVars, runVars, termVars, evtVars
  <1>2. canSend' = <<FALSE>> => core' # "running"
    <2>1. CASE CoreInterrupt \/ CoreClose
      BY <2>1 DEF CoreInterrupt, CoreClose
    <2>2. CASE OnCanSend
      BY <2>2, TokenFacts DEF OnCanSend, PushToken, StageInv, SignalsOK
    <2>3. CASE NotifyWhenReady \/ NotifyGoroutine \/ SessionDown \/ UNCHANGED vars
      BY <2>3 DEF NotifyWhenReady, NotifyGoroutine, SessionDown, vars, coreVars, StageInv, SignalsOK
    <2> QED
      BY <2>1, <2>2, <2>3 DEF Core
  <1> QED
    BY <1>1, <1>2 DEF StageInv, Stages, SignalsOK, Closing

(* The terminator gives its signals in order.                              *)
LEMMA TerminatorStage == ASSUME TypeInv, StageInv, Terminator PROVE StageInv'
  <1> USE DEF StageInv, Stages, SignalsOK, Closing
  <1>1. UNCHANGED <<strategy, runPC, canSend, core>>
    BY DEF Terminator, TerminateStart, TerminateInterrupt, TerminateGraceful, TerminateTask,
           TerminateUngraceful, CloseSignal, TerminateAwaited, TerminateTimeout, DrainClose,
           DrainOne, DrainDone, TerminateFinish, runVars, coreVars
  <1>2. CASE \E k \in TermKinds : TerminateStart(k)
    <2>1. /\ termPC = "idle" /\ state = "Started" /\ state' = "Terminating" /\ termKind' # "none"
          /\ termPC' = IF strategy = "direct" THEN "finish" ELSE "interrupt"
          /\ UNCHANGED <<signals, execClosed, bufferClosed, buffer>>
      BY <1>2, DirectPublisherAssumption DEF TerminateStart, pipeVars, evtVars
    <2> QED
      BY <1>1, <2>1
  <1>3. CASE TerminateInterrupt \/ TerminateGraceful \/ TerminateTask \/ TerminateUngraceful
    <2>1. /\ UNCHANGED <<state, termKind, execClosed, bufferClosed, buffer>>
          /\ \/ /\ termPC = "interrupt" /\ termPC' = "graceful"
                /\ signals' = signals \cup {"waitInterrupt"}
             \/ /\ termPC = "graceful" /\ termPC' \in {"task", "await"}
                /\ signals' = signals \cup {"graceful"}
             \/ /\ termPC = "task" /\ termPC' = "ungraceful"
                /\ signals' = signals \cup {"task"}
             \/ /\ termPC = "ungraceful" /\ signals' = signals \cup {"ungraceful"}
                /\ termPC' = IF termKind = "down" THEN "close" ELSE "awaitForced"
      BY <1>3 DEF TerminateInterrupt, TerminateGraceful, TerminateTask, TerminateUngraceful,
                  CloseSignal, AfterUngraceful, pipeVars, evtVars
    <2> QED
      BY <1>1, <2>1
  <1>4. CASE TerminateAwaited \/ TerminateTimeout
    <2>1. /\ UNCHANGED <<state, termKind, execClosed, bufferClosed, buffer, signals>>
          /\ termPC \in {"await", "awaitForced"}
          /\ termPC' = "task" \/ (termPC' = "close" /\ "complete" \in signals)
      BY <1>4 DEF TerminateAwaited, TerminateTimeout, pipeVars, evtVars
    <2> QED
      BY <1>1, <2>1
  <1>5. CASE DrainClose \/ DrainOne \/ DrainDone
    <2>1. /\ UNCHANGED <<state, termKind, execClosed, signals>>
          /\ \/ termPC = "close" /\ termPC' = "drain" /\ bufferClosed' = TRUE
             \/ termPC = "drain" /\ termPC' = "drain" /\ UNCHANGED bufferClosed
             \/ /\ termPC = "drain" /\ termPC' = "finish" /\ buffer = <<>>
                /\ UNCHANGED <<bufferClosed, buffer>>
      BY <1>5 DEF DrainClose, DrainOne, DrainDone, pipeVars, evtVars
    <2> QED
      BY <1>1, <2>1
  <1>6. CASE TerminateFinish
    <2>1. /\ UNCHANGED <<termKind, bufferClosed, buffer, signals>>
          /\ termPC = "finish" /\ termPC' = "done" /\ state' = "Terminated"
      BY <1>6 DEF TerminateFinish, pipeVars
    <2> QED
      BY <1>1, <2>1
  <1> QED
    BY <1>2, <1>3, <1>4, <1>5, <1>6 DEF Terminator

(* The stages hold throughout.                                             *)
LEMMA StageInductive ==
    /\ Init => StageInv
    /\ TypeInv /\ StageInv /\ [Next]_vars => StageInv'
  <1>1. Init => StageInv
    <2> SUFFICES ASSUME Init PROVE StageInv
      OBVIOUS
    <2>1. canSend # <<FALSE>>
      BY TokenFacts DEF Init
    <2> QED
      BY <2>1 DEF Init, StageInv, Stages, SignalsOK, Closing
  <1>2. TypeInv /\ StageInv /\ [Next]_vars => StageInv'
    BY PublisherStage, RunStage, LoopStage, CoreStage, TerminatorStage DEF Next
  <1> QED
    BY <1>1, <1>2

(* An unbuffered publisher that was answered would-block either has        *)
(* announced its readiness after that answer, is about to (the goroutine   *)
(* of onCanSend) or is owed a CAN_SEND, whatever its other callers do.     *)
(* The announcement may precede the return of the overflow error.          *)
THEOREM ReadinessIsAnnounced == Spec => []ReadinessNotLostUnbuffered
  <1> DEFINE Inv == TypeInv /\ StageInv /\ ReadinessNotLostUnbuffered
  <1>1. Init => Inv
    BY InitType, StageInductive DEF Init, ReadinessNotLostUnbuffered
  <1>2. Inv /\ [Next]_vars => ReadinessNotLostUnbuffered'
    <2> SUFFICES ASSUME Inv, [Next]_vars,
                        strategy' = "direct", state' = "Started", session' = "up", readyOwed'
                 PROVE  owesCanSend' \/ notifying' > 0
      BY DEF ReadinessNotLostUnbuffered
    <2> USE DEF ReadinessNotLostUnbuffered
    <2>1. /\ readyOwed \in BOOLEAN /\ owesCanSend \in BOOLEAN /\ execClosed \in BOOLEAN
          /\ notifying \in Nat
      BY DEF TypeInv, TypeOK, EvtTypeOK, CoreTypeOK
    <2>2. ASSUME NEW m \in Messages, Publisher(m)
          PROVE  owesCanSend' \/ notifying' > 0
      <3>1. CASE PublishDirect(m)
        <4>1. UNCHANGED <<strategy, state, session, notifying>>
          BY <3>1 DEF PublishDirect, termVars
        <4>2. PICK o \in Outcomes : /\ owesCanSend' = (owesCanSend \/ o = "wouldblock")
                                     /\ readyOwed' = (readyOwed \/ o = "wouldblock")
          BY <3>1 DEF PublishDirect
        <4> QED
          BY <2>1, <4>1, <4>2
      <3>2. CASE PublishOverflow(m)
        BY <3>2 DEF PublishOverflow
      <3>3. CASE ~PublishDirect(m) /\ ~PublishOverflow(m)
        <4>1. UNCHANGED <<strategy, state, session, readyOwed, owesCanSend, notifying>>
          BY <2>2, <3>3 DEF Publisher, PublishCheck, PublishDirectOverflow, PublishLock,
             PublishPush, PublishInterrupted,
             SubmitCheck, SubmitEnqueue, coreVars, termVars, evtVars
        <4> QED
          BY <4>1
      <3> QED
        BY <3>1, <3>2, <3>3
    <2>3. CASE OnCanSend
      <3>1. UNCHANGED <<strategy, state>> /\ termPC = "idle"
        BY <2>3 DEF OnCanSend, termVars, StageInv, Stages
      <3>2. notifying' = notifying + 1
        BY <2>3, <3>1 DEF OnCanSend, HandlesCanSend
      <3> QED
        BY <2>1, <3>2
    <2>4. CASE NotifyWhenReady \/ NotifyGoroutine
      <3>1. UNCHANGED state /\ ~execClosed
        BY <2>4 DEF NotifyWhenReady, NotifyGoroutine, termVars, StageInv, Stages
      <3>2. readyOwed' = (readyOwed /\ execClosed)
        BY <2>4 DEF NotifyWhenReady, NotifyGoroutine, NotifyReady
      <3> QED
        BY <2>1, <3>1, <3>2
    <2>5. CASE PublishLoop
      <3>1. UNCHANGED <<strategy, state, session>>
        BY <2>5 DEF PublishLoop, LoopTop, LoopTerminated, TaskPublishOk, TaskPublishWouldBlock,
           TaskPublishError, TaskAwaitToken, TaskAwaitTerminated, TaskReadFull, TaskPop, TaskReport,
           TaskComplete, coreVars, termVars
      <3>2. UNCHANGED <<readyOwed, notifying>> /\ (UNCHANGED owesCanSend \/ owesCanSend')
        BY <2>5, <3>1 DEF PublishLoop, LoopTop, LoopTerminated, TaskPublishOk, TaskPublishWouldBlock,
           TaskPublishError, TaskAwaitToken, TaskAwaitTerminated, TaskReadFull, TaskPop, TaskReport,
           TaskComplete, coreVars, evtVars
      <3> QED
        BY <3>1, <3>2
    <2>6. CASE Run \/ SessionDown \/ CoreInterrupt \/ CoreClose \/ Terminator \/ UNCHANGED vars
      <3>1. UNCHANGED <<strategy, readyOwed, owesCanSend, notifying>>
        BY <2>6 DEF Run, RunTop, RunPick, RunBlockTake, RunBlockInterrupted, RunHandOver, RunAbort,
           RunExit, SessionDown, CoreInterrupt, CoreClose, Terminator, TerminateStart,
           TerminateInterrupt, TerminateGraceful, TerminateTask, TerminateUngraceful, CloseSignal,
           TerminateAwaited, TerminateTimeout, DrainClose, DrainOne, DrainDone, TerminateFinish,
           coreVars, evtVars, vars
      <3>2. state = "Started" /\ session = "up"
        BY <2>6 DEF Run, RunTop, RunPick, RunBlockTake, RunBlockInterrupted, RunHandOver, RunAbort,
           RunExit, SessionDown, CoreInterrupt, CoreClose, Terminator, TerminateStart,
           TerminateInterrupt, TerminateGraceful, TerminateTask, TerminateUngraceful, CloseSignal,
           TerminateAwaited, TerminateTimeout, DrainClose, DrainOne, DrainDone, TerminateFinish,
           coreVars, termVars, vars
      <3> QED
        BY <3>1, <3>2
    <2> QED
      BY <2>2, <2>3, <2>4, <2>5, <2>6 DEF Next, Core
  <1>3. Inv /\ [Next]_vars => Inv'
    BY <1>2, TypeStep, StageInductive
  <1> QED
    BY <1>1, <1>3, PTL DEF Spec
-----------------------------------------------------------------------------
(***************************************************************************)
(* The order of the messages: acc is the sequence of the accepted ones.    *)
(***************************************************************************)
Among(s, a)          == \E i \in DOMAIN s : s[i] = a
Before(acc, a, b)    == \E i, j \in DOMAIN acc : i < j /\ acc[i] = a /\ acc[j] = b
Precedes(acc, a, s)  == Among(acc, a) /\ \A i \in DOMAIN s : Before(acc, a, s[i])
InOrder(acc, s)      ==
    /\ \A i \in DOMAIN s : Among(acc, s[i])
    /\ \A i, j \in DOMAIN s : i < j => Before(acc, s[i], s[j])

(* Accepting one more message keeps the order of the others.               *)
LEMMA AcceptOne ==
  ASSUME NEW acc \in Seq(Messages), NEW m \in Messages, NEW more, more = Append(acc, m)
  PROVE  /\ Among(more, m)
         /\ \A a : Among(acc, a) => Among(more, a) /\ Before(more, a, m)
         /\ \A a, b : Before(acc, a, b) => Before(more, a, b)
         /\ \A s : InOrder(acc, s) => InOrder(more, s)
         /\ \A a, s : Precedes(acc, a, s) => Precedes(more, a, s)
  <1>1. /\ Len(acc) \in Nat /\ Len(more) = Len(acc) + 1 /\ more[Len(acc) + 1] = m
        /\ DOMAIN acc = 1 .. Len(acc) /\ DOMAIN more = 1 .. (Len(acc) + 1)
        /\ \A i \in 1 .. Len(acc) : more[i] = acc[i]
    OBVIOUS
  <1>2. Among(more, m)
    BY <1>1 DEF Among
  <1>3. \A a : Among(acc, a) => Among(more, a) /\ Before(more, a, m)
    <2> SUFFICES ASSUME NEW a, NEW i \in DOMAIN acc, acc[i] = a
                 PROVE  Among(more, a) /\ Before(more, a, m)
      BY DEF Among
    <2>1. i \in DOMAIN more /\ Len(acc) + 1 \in DOMAIN more /\ i < Len(acc) + 1 /\ more[i] = a
      BY <1>1
    <2> QED
      BY <1>1, <2>1 DEF Among, Before
  <1>4. \A a, b : Before(acc, a, b) => Before(more, a, b)
    <2> SUFFICES ASSUME NEW a, NEW b, NEW i \in DOMAIN acc, NEW j \in DOMAIN acc,
                        i < j, acc[i] = a, acc[j] = b
                 PROVE  Before(more, a, b)
      BY DEF Before
    <2>1. i \in DOMAIN more /\ j \in DOMAIN more /\ more[i] = a /\ more[j] = b
      BY <1>1
    <2> QED
      BY <2>1 DEF Before
  <1> QED
    BY <1>2, <1>3, <1>4 DEF InOrder, Precedes

(* Taking the head of a channel.                                           *)
LEMMA TakeFirst ==
  ASSUME NEW acc, NEW s \in Seq(Messages), s # <<>>
  PROVE  /\ InOrder(acc, s) => InOrder(acc, Tail(s)) /\ Precedes(acc, Head(s), Tail(s))
         /\ \A a : Precedes(acc, a, s) => Precedes(acc, a, Tail(s)) /\ Before(acc, a, Head(s))
  <1>1. /\ Len(s) \in Nat /\ Len(s) > 0 /\ DOMAIN s = 1 .. Len(s) /\ Head(s) = s[1]
        /\ DOMAIN Tail(s) = 1 .. (Len(s) - 1)
        /\ \A i \in 1 .. (Len(s) - 1) : Tail(s)[i] = s[i + 1]
    OBVIOUS
  <1>2. /\ 1 \in DOMAIN s
        /\ \A i \in DOMAIN Tail(s) : i + 1 \in DOMAIN s /\ Tail(s)[i] = s[i + 1] /\ 1 < i + 1
        /\ \A i, j \in DOMAIN Tail(s) : i < j => i + 1 < j + 1
    BY <1>1
  <1>3. InOrder(acc, s) => InOrder(acc, Tail(s)) /\ Precedes(acc, Head(s), Tail(s))
    BY <1>1, <1>2 DEF InOrder, Precedes
  <1>4. \A a : Precedes(acc, a, s) => Precedes(acc, a, Tail(s)) /\ Before(acc, a, Head(s))
    BY <1>1, <1>2 DEF Precedes
  <1> QED
    BY <1>3, <1>4

(* Sending on a channel.                                                   *)
LEMMA SendLast ==
  ASSUME NEW acc, NEW s \in Seq(Messages), NEW m \in Messages
  PROVE  /\ (/\ InOrder(acc, s) /\ Among(acc, m)
             /\ \A i \in DOMAIN s : Before(acc, s[i], m)) => InOrder(acc, Append(s, m))
         /\ \A a : Precedes(acc, a, s) /\ Before(acc, a, m) => Precedes(acc, a, Append(s, m))
         /\ \A a : Among(Append(s, m), a) <=> Among(s, a) \/ a = m
  <1>1. /\ Len(s) \in Nat /\ Append(s, m)[Len(s) + 1] = m
        /\ DOMAIN s = 1 .. Len(s) /\ DOMAIN Append(s, m) = 1 .. (Len(s) + 1)
        /\ \A i \in 1 .. Len(s) : Append(s, m)[i] = s[i]
    OBVIOUS
  <1>2. /\ \A i \in DOMAIN Append(s, m) : \/ i \in DOMAIN s /\ Append(s, m)[i] = s[i]
                                          \/ i = Len(s) + 1 /\ Append(s, m)[i] = m
        /\ \A i \in DOMAIN s : i \in DOMAIN Append(s, m) /\ Append(s, m)[i] = s[i]
        /\ Len(s) + 1 \in DOMAIN Append(s, m)
        /\ \A i, j \in DOMAIN Append(s, m) : i < j => i \in DOMAIN s
    BY <1>1
  <1>3. (/\ InOrder(acc, s) /\ Among(acc, m)
         /\ \A i \in DOMAIN s : Before(acc, s[i], m)) => InOrder(acc, Append(s, m))
    BY <1>2 DEF InOrder
  <1>4. \A a : Precedes(acc, a, s) /\ Before(acc, a, m) => Precedes(acc, a, Append(s, m))
    BY <1>2 DEF Precedes
  <1>5. \A a : Among(Append(s, m), a) <=> Among(s, a) \/ a = m
    BY <1>1, <1>2 DEF Among
  <1> QED
    BY <1>3, <1>4, <1>5

(* What is in a channel stays there when more is sent.                     *)
LEMMA StillAmong ==
  ASSUME NEW s \in Seq(Messages), NEW m \in Messages
  PROVE  \A a : Among(Append(s, m), a) <=> Among(s, a) \/ a = m
  BY SendLast

(***************************************************************************)
(* publish accepts a message once; tasks are submitted, and reach          *)
(* publishLoop, in the order of acceptance, so a task that has not been    *)
(* tried is later than those that have; and buffer is drained in that      *)
(* order too.                                                              *)
(***************************************************************************)
SubmitPCs == {"submit", "enqueue"}
Held      == runPC \in {"offer", "wait"}
NotSent   == runPC = "offer" \/ loopPC \in {"publish", "await"}
Tried(m)  == m \in errored \/ Among(wire, m)

AcceptedOnce ==
    /\ \A i \in DOMAIN accepted : pubPC[accepted[i]] \in SubmitPCs \cup {"done"}
    /\ \A i, j \in DOMAIN accepted : accepted[i] = accepted[j] => i = j

TaskOrder ==
    /\ InOrder(accepted, taskQ)
    /\ Held => Precedes(accepted, runTask, taskQ)
    /\ \A m \in Messages : pubPC[m] \in SubmitPCs =>
           /\ Among(accepted, m)
           /\ \A i \in DOMAIN taskQ : Before(accepted, taskQ[i], m)
           /\ Held => Before(accepted, runTask, m)

WireOrder ==
    strategy # "direct" =>
        /\ InOrder(accepted, wire)
        /\ \A e \in Messages : Tried(e) =>
              /\ Precedes(accepted, e, taskQ)
              /\ NotSent => Before(accepted, e, runTask)
              /\ \A m \in Messages : pubPC[m] \in SubmitPCs => Before(accepted, e, m)

BufferOrder ==
    /\ InOrder(accepted, buffer)
    /\ \A u \in undelivered : Precedes(accepted, u, buffer)

OrderInv == AcceptedOnce /\ TaskOrder /\ WireOrder /\ BufferOrder

(* A step that moves no message.                                           *)
LEMMA OrderQuiet ==
  ASSUME OrderInv, UNCHANGED <<strategy, accepted, taskQ, buffer, undelivered>>,
         strategy = "direct" \/ UNCHANGED <<wire, errored>>,
         Held' => Held /\ UNCHANGED runTask, NotSent' => NotSent /\ UNCHANGED runTask,
         \A m \in Messages : /\ pubPC'[m] \in SubmitPCs => pubPC[m] \in SubmitPCs
                             /\ pubPC[m] \in SubmitPCs \cup {"done"} =>
                                    pubPC'[m] \in SubmitPCs \cup {"done"},
         accepted \in Seq(Messages)
  PROVE  OrderInv'
  <1>1. AcceptedOnce'
    BY DEF OrderInv, AcceptedOnce
  <1>2. TaskOrder'
    BY DEF OrderInv, TaskOrder
  <1>3. WireOrder'
    BY DEF OrderInv, WireOrder, Tried
  <1>4. BufferOrder'
    BY DEF OrderInv, BufferOrder
  <1> QED
    BY <1>1, <1>2, <1>3, <1>4 DEF OrderInv

(* publish pushes to buffer and submits in one critical section.           *)
LEMMA PublisherOrder == ASSUME BoundInv, OrderInv, NEW m \in Messages, Publisher(m) PROVE OrderInv'
  <1> USE DEF SubmitPCs
  <1>1. /\ UNCHANGED <<strategy, undelivered, runPC, runTask, loopPC, errored>>
        /\ accepted \in Seq(Messages) /\ buffer \in Seq(Messages) /\ taskQ \in Seq(Messages)
        /\ pubPC \in [Messages -> PubPCs]
    BY DEF Publisher, PublishCheck, PublishDirect, PublishDirectOverflow, PublishLock, PublishPush,
       PublishOverflow,
           PublishInterrupted, SubmitCheck, SubmitEnqueue, runVars, loopVars, termVars,
           BoundInv, TypeInv, TypeOK, PipeTypeOK
  <1>2. UNCHANGED <<Held, NotSent>>
    BY <1>1 DEF Held, NotSent
  <1>3. CASE PublishPush(m)
    <2>1. /\ pubPC[m] = "push" /\ pubPC' = [pubPC EXCEPT ![m] = "submit"]
          /\ buffer' = Append(buffer, m) /\ accepted' = Append(accepted, m)
          /\ UNCHANGED <<taskQ, wire>>
      BY <1>3 DEF PublishPush, loopVars
    <2>2. /\ pubPC'[m] = "submit" /\ \A n \in Messages : n # m => pubPC'[n] = pubPC[n]
      BY <1>1, <2>1
    <2>3. /\ Among(accepted', m)
          /\ \A a : Among(accepted, a) => Among(accepted', a) /\ Before(accepted', a, m)
          /\ \A a, b : Before(accepted, a, b) => Before(accepted', a, b)
          /\ \A s : InOrder(accepted, s) => InOrder(accepted', s)
          /\ \A a, s : Precedes(accepted, a, s) => Precedes(accepted', a, s)
      BY <1>1, <2>1, AcceptOne
    <2>4. AcceptedOnce'
      <3>1. \A i \in DOMAIN accepted : accepted[i] # m /\ accepted[i] \in Messages
        <4>1. \A i \in DOMAIN accepted : accepted[i] \in Messages
          BY <1>1
        <4>2. \A i \in DOMAIN accepted : pubPC[accepted[i]] # "push"
          BY DEF OrderInv, AcceptedOnce
        <4> QED
          BY <2>1, <4>1, <4>2
      <3>2. /\ Len(accepted) \in Nat /\ accepted'[Len(accepted) + 1] = m
            /\ DOMAIN accepted = 1 .. Len(accepted) /\ DOMAIN accepted' = 1 .. (Len(accepted) + 1)
            /\ \A i \in 1 .. Len(accepted) : accepted'[i] = accepted[i]
        BY <1>1, <2>1
      <3>3. \A i \in DOMAIN accepted' : \/ i \in DOMAIN accepted /\ accepted'[i] = accepted[i]
                                        \/ i = Len(accepted) + 1 /\ accepted'[i] = m
        BY <3>2
      <3> QED
        BY <2>2, <3>1, <3>3 DEF OrderInv, AcceptedOnce
    <2>5. TaskOrder'
      <3>1. \A i \in DOMAIN taskQ : Before(accepted', taskQ[i], m)
        BY <2>3 DEF OrderInv, TaskOrder, InOrder
      <3>2. Held => Before(accepted', runTask, m)
        BY <2>3 DEF OrderInv, TaskOrder, Precedes
      <3> QED
        BY <1>1, <1>2, <2>1, <2>2, <2>3, <3>1, <3>2 DEF OrderInv, TaskOrder
    <2>6. WireOrder'
      <3>1. strategy # "direct" => \A e \in Messages : Tried(e) => Before(accepted', e, m)
        BY <2>3 DEF OrderInv, WireOrder, Precedes
      <3> QED
        BY <1>1, <1>2, <2>1, <2>2, <2>3, <3>1 DEF OrderInv, WireOrder, Tried
    <2>7. BufferOrder'
      <3>1. \A i \in DOMAIN buffer : Before(accepted', buffer[i], m)
        BY <2>3 DEF OrderInv, BufferOrder, InOrder
      <3>2. InOrder(accepted', buffer')
        BY <1>1, <2>1, <2>3, <3>1, SendLast DEF OrderInv, BufferOrder
      <3>3. \A u \in undelivered : Precedes(accepted', u, buffer) /\ Before(accepted', u, m)
        BY <2>3 DEF OrderInv, BufferOrder, Precedes
      <3> QED
        BY <1>1, <2>1, <3>2, <3>3, SendLast DEF BufferOrder
    <2> QED
      BY <2>4, <2>5, <2>6, <2>7 DEF OrderInv
  <1>4. CASE SubmitEnqueue(m)
    <2>1. /\ pubPC[m] = "enqueue" /\ pubPC' = [pubPC EXCEPT ![m] = "done"]
          /\ taskQ' = taskQ \/ taskQ' = Append(taskQ, m)
          /\ UNCHANGED <<buffer, accepted, wire>>
      BY <1>4 DEF SubmitEnqueue, Finish, loopVars
    <2>2. /\ pubPC'[m] = "done" /\ \A n \in Messages : n # m => pubPC'[n] = pubPC[n]
      BY <1>1, <2>1
    <2>3. \A n \in Messages : pubPC'[n] \notin SubmitPCs
      BY <2>1, OneSubmitter DEF Critical, PubPCs
    <2>4. AcceptedOnce' /\ BufferOrder'
      BY <1>1, <2>1, <2>2 DEF OrderInv, AcceptedOnce, BufferOrder
    <2>5. /\ InOrder(accepted, taskQ) /\ Among(accepted, m)
          /\ \A i \in DOMAIN taskQ : Before(accepted, taskQ[i], m)
      BY <2>1 DEF OrderInv, TaskOrder
    <2>6. InOrder(accepted, Append(taskQ, m))
      BY <1>1, <2>5, SendLast
    <2>7. \A a : Precedes(accepted, a, taskQ) /\ Before(accepted, a, m) =>
                Precedes(accepted, a, Append(taskQ, m))
      BY <1>1, SendLast
    <2>8. TaskOrder'
      <3>1. InOrder(accepted, taskQ')
        BY <2>1, <2>5, <2>6
      <3>2. Held => Precedes(accepted, runTask, taskQ')
        BY <2>1, <2>7 DEF OrderInv, TaskOrder
      <3> QED
        BY <1>1, <1>2, <2>1, <2>3, <3>1, <3>2 DEF TaskOrder
    <2>9. WireOrder'
      <3>1. strategy # "direct" => \A e \in Messages : Tried(e) => Precedes(accepted, e, taskQ')
        BY <2>1, <2>7 DEF OrderInv, WireOrder
      <3> QED
        BY <1>1, <1>2, <2>1, <2>3, <3>1 DEF OrderInv, WireOrder, Tried
    <2> QED
      BY <2>4, <2>8, <2>9 DEF OrderInv
  <1>5. CASE ~PublishPush(m) /\ ~SubmitEnqueue(m)
    <2>1. UNCHANGED <<accepted, taskQ, buffer>> /\ (strategy = "direct" \/ UNCHANGED wire)
      BY <1>5 DEF Publisher, PublishCheck, PublishDirect, PublishDirectOverflow, PublishLock,
         PublishOverflow,
           PublishInterrupted, SubmitCheck, loopVars
    <2>2. PICK x : /\ pubPC' = [pubPC EXCEPT ![m] = x]
                   /\ x \in SubmitPCs => pubPC[m] \in SubmitPCs
                   /\ pubPC[m] \in SubmitPCs \cup {"done"} => x \in SubmitPCs \cup {"done"}
      BY <1>5 DEF Publisher, PublishCheck, PublishDirect, PublishDirectOverflow, PublishLock,
         PublishOverflow,
           PublishInterrupted, SubmitCheck, Finish
    <2>3. \A n \in Messages : /\ pubPC'[n] \in SubmitPCs => pubPC[n] \in SubmitPCs
                              /\ pubPC[n] \in SubmitPCs \cup {"done"} =>
                                    pubPC'[n] \in SubmitPCs \cup {"done"}
      BY <1>1, <2>2
    <2> QED
      BY <1>1, <1>2, <2>1, <2>3, OrderQuiet
  <1> QED
    BY <1>3, <1>4, <1>5

(* Run takes the tasks in the order they were submitted.                   *)
LEMMA RunOrder == ASSUME BoundInv, OrderInv, Run PROVE OrderInv'
  <1>1. /\ UNCHANGED <<strategy, accepted, buffer, undelivered, wire, errored, pubPC>>
        /\ accepted \in Seq(Messages) /\ taskQ \in Seq(Messages)
        /\ loopPC \in TaskPCs => runPC = "wait"
    BY DEF Run, RunTop, RunPick, RunBlockTake, RunBlockInterrupted, RunHandOver, RunAbort, RunExit,
           pipeVars, loopVars, termVars, BoundInv, TypeInv, TypeOK, PipeTypeOK, RunOK
  <1>2. CASE runPC' = "offer"
    <2>1. /\ runPC \in {"pick", "block"} /\ UNCHANGED loopPC
          /\ taskQ # <<>> /\ runTask' = Head(taskQ) /\ taskQ' = Tail(taskQ)
      <3>1. CASE RunPick
        BY <1>2, <3>1, PickTakes DEF RunPick, loopVars
      <3>2. CASE RunBlockTake
        BY <3>2 DEF RunBlockTake, loopVars
      <3> QED
        BY <1>2, <3>1, <3>2 DEF Run, RunTop, RunBlockInterrupted, RunHandOver, RunAbort, RunExit
    <2>2. /\ InOrder(accepted, taskQ') /\ Precedes(accepted, runTask', taskQ')
          /\ \A a : Precedes(accepted, a, taskQ) =>
                Precedes(accepted, a, taskQ') /\ Before(accepted, a, runTask')
      BY <1>1, <2>1, TakeFirst DEF OrderInv, TaskOrder
    <2>3. \A n \in Messages : pubPC[n] \in SubmitPCs =>
             /\ Before(accepted, runTask', n)
             /\ \A i \in DOMAIN taskQ' : Before(accepted, taskQ'[i], n)
      <3>1. /\ 1 \in DOMAIN taskQ /\ taskQ[1] = runTask'
            /\ \A i \in DOMAIN taskQ' : i + 1 \in DOMAIN taskQ /\ taskQ'[i] = taskQ[i + 1]
        BY <1>1, <2>1
      <3> QED
        BY <3>1 DEF OrderInv, TaskOrder
    <2>4. AcceptedOnce' /\ BufferOrder'
      BY <1>1 DEF OrderInv, AcceptedOnce, BufferOrder
    <2>5. TaskOrder'
      BY <1>1, <2>2, <2>3 DEF OrderInv, TaskOrder
    <2>6. WireOrder'
      BY <1>1, <2>2 DEF OrderInv, WireOrder, Tried
    <2> QED
      BY <2>4, <2>5, <2>6 DEF OrderInv
  <1>3. CASE runPC' # "offer"
    <2>1. /\ UNCHANGED taskQ
          /\ runPC' = "wait" => runPC = "offer" /\ UNCHANGED runTask
          /\ loopPC' \in {"publish", "await"} =>
                \/ runPC = "offer" /\ UNCHANGED runTask
                \/ UNCHANGED loopPC /\ runPC # "wait"
      <3>1. CASE RunPick
        BY <1>3, <3>1, PickTakes DEF RunPick, loopVars
      <3>2. CASE ~RunPick
        BY <1>3, <3>2 DEF Run, RunTop, RunBlockTake, RunBlockInterrupted, RunHandOver, RunAbort,
               RunExit, pipeVars, loopVars
      <3> QED
        BY <3>1, <3>2
    <2>2. /\ Held' => Held /\ UNCHANGED runTask
          /\ NotSent' => NotSent /\ UNCHANGED runTask
      BY <1>1, <1>3, <2>1 DEF Held, NotSent, TaskPCs
    <2> QED
      BY <1>1, <2>1, <2>2, OrderQuiet
  <1> QED
    BY <1>2, <1>3

(* publishLoop tries one task at a time.                                   *)
LEMMA LoopOrder == ASSUME BoundInv, OrderInv, PublishLoop PROVE OrderInv'
  <1>1. /\ UNCHANGED <<strategy, accepted, taskQ, undelivered, pubPC>>
        /\ accepted \in Seq(Messages) /\ wire \in Seq(Messages) /\ buffer \in Seq(Messages)
        /\ loopPC \in TaskPCs => runPC = "wait"
        /\ runPC \in {"offer", "wait"} => runTask \in Messages
    BY DEF PublishLoop, LoopTop, LoopTerminated, TaskPublishOk, TaskPublishWouldBlock,
         TaskPublishError, TaskAwaitToken, TaskAwaitTerminated, TaskReadFull, TaskPop, TaskReport,
         TaskComplete, pipeVars, termVars, BoundInv, TypeInv, TypeOK, PipeTypeOK, LoopTypeOK, RunOK
  <1>2. CASE TaskPublishOk \/ TaskPublishError
    <2>1. /\ loopPC = "publish" /\ loopPC' = "full" /\ UNCHANGED <<runPC, runTask, buffer>>
          /\ \/ wire' = Append(wire, runTask) /\ errored' = errored
             \/ wire' = wire /\ errored' = errored \cup {runTask}
      BY <1>2 DEF TaskPublishOk, TaskPublishError, pipeVars, runVars
    <2>2. Held /\ NotSent /\ Held' /\ ~NotSent' /\ runTask \in Messages
      BY <1>1, <2>1 DEF Held, NotSent, TaskPCs
    <2>3. \A e \in Messages : Tried(e)' => Tried(e) \/ e = runTask
      BY <1>1, <2>1, <2>2, SendLast DEF Tried
    <2>4. AcceptedOnce' /\ TaskOrder' /\ BufferOrder'
      BY <1>1, <2>1, <2>2 DEF OrderInv, AcceptedOnce, TaskOrder, BufferOrder
    <2>5. WireOrder'
      <3> SUFFICES ASSUME strategy # "direct" PROVE WireOrder'
        BY <1>1 DEF WireOrder
      <3>1. InOrder(accepted, wire')
        <4>1. \A i \in DOMAIN wire : wire[i] \in Messages /\ Tried(wire[i])
          BY <1>1 DEF Tried, Among
        <4>2. \A i \in DOMAIN wire : Before(accepted, wire[i], runTask)
          BY <2>2, <4>1 DEF OrderInv, WireOrder
        <4>3. Among(accepted, runTask) /\ InOrder(accepted, wire)
          BY <2>2 DEF OrderInv, TaskOrder, WireOrder, Precedes
        <4>4. InOrder(accepted, Append(wire, runTask))
          BY <1>1, <2>2, <4>2, <4>3, SendLast
        <4> QED
          BY <2>1, <4>3, <4>4
      <3>2. /\ Precedes(accepted, runTask, taskQ)
            /\ \A m \in Messages : pubPC[m] \in SubmitPCs => Before(accepted, runTask, m)
        BY <2>2 DEF OrderInv, TaskOrder
      <3> QED
        BY <1>1, <2>1, <2>2, <2>3, <3>1, <3>2 DEF OrderInv, WireOrder
    <2> QED
      BY <2>4, <2>5 DEF OrderInv
  <1>3. CASE TaskPop
    <2>1. /\ buffer' = buffer \/ (buffer # <<>> /\ buffer' = Tail(buffer))
          /\ UNCHANGED <<runPC, runTask, wire, errored>>
          /\ loopPC = "pop" /\ loopPC' \in {"signal", "report"}
      BY <1>3 DEF TaskPop, runVars
    <2>2. Held' = Held /\ NotSent' = NotSent
      BY <2>1 DEF Held, NotSent
    <2>3. BufferOrder'
      BY <1>1, <2>1, TakeFirst DEF OrderInv, BufferOrder
    <2> QED
      BY <1>1, <2>1, <2>2, <2>3 DEF OrderInv, AcceptedOnce, TaskOrder, WireOrder, Tried
  <1>4. CASE ~TaskPublishOk /\ ~TaskPublishError /\ ~TaskPop
    <2>1. /\ UNCHANGED <<buffer, wire, errored>>
          /\ runPC' \in {"offer", "wait"} => UNCHANGED <<runPC, runTask>>
          /\ loopPC' \in {"publish", "await"} =>
                loopPC \in {"publish", "await"} /\ UNCHANGED runTask
      BY <1>4 DEF PublishLoop, LoopTop, LoopTerminated, TaskPublishWouldBlock,
         TaskAwaitToken, TaskAwaitTerminated, TaskReadFull, TaskReport, TaskComplete, AbandonTask,
         pipeVars, runVars
    <2>2. /\ Held' => Held /\ UNCHANGED runTask
          /\ NotSent' => NotSent /\ UNCHANGED runTask
      BY <2>1 DEF Held, NotSent
    <2> QED
      BY <1>1, <2>1, <2>2, OrderQuiet
  <1> QED
    BY <1>2, <1>3, <1>4

(* The core publisher moves no message; drainQueue takes them in order.    *)
LEMMA OtherOrder == ASSUME BoundInv, OrderInv, Core \/ Terminator \/ UNCHANGED vars PROVE OrderInv'
  <1>1. /\ UNCHANGED <<strategy, accepted, taskQ, pubPC, wire, errored, runPC, runTask, loopPC>>
        /\ accepted \in Seq(Messages) /\ buffer \in Seq(Messages)
    BY DEF Core, OnCanSend, NotifyGoroutine, NotifyWhenReady, SessionDown, CoreInterrupt,
       CoreClose, vars,
           Terminator, TerminateStart, TerminateInterrupt, TerminateGraceful, TerminateTask,
           TerminateUngraceful, CloseSignal, TerminateAwaited, TerminateTimeout, DrainClose,
           DrainOne, DrainDone, TerminateFinish, pipeVars, runVars, loopVars,
           BoundInv, TypeInv, TypeOK, PipeTypeOK
  <1>2. UNCHANGED <<Held, NotSent>>
    BY <1>1 DEF Held, NotSent
  <1>3. CASE DrainOne
    <2>1. /\ buffer # <<>> /\ buffer' = Tail(buffer) /\ undelivered' = undelivered \cup {Head(buffer)}
      BY <1>3 DEF DrainOne
    <2>2. BufferOrder'
      BY <1>1, <2>1, TakeFirst DEF OrderInv, BufferOrder
    <2> QED
      BY <1>1, <1>2, <2>2 DEF OrderInv, AcceptedOnce, TaskOrder, WireOrder, Tried
  <1>4. CASE ~DrainOne
    <2>1. UNCHANGED <<buffer, undelivered>>
      BY <1>4 DEF Core, OnCanSend, NotifyGoroutine, NotifyWhenReady, SessionDown, CoreInterrupt,
         CoreClose, vars,
           Terminator, TerminateStart, TerminateInterrupt, TerminateGraceful, TerminateTask,
           TerminateUngraceful, CloseSignal, TerminateAwaited, TerminateTimeout, DrainClose,
           DrainDone, TerminateFinish, pipeVars, termVars
    <2> QED
      BY <1>1, <1>2, <2>1, OrderQuiet
  <1> QED
    BY <1>3, <1>4

(* The order is inductive.                                                 *)
LEMMA OrderInductive ==
    /\ Init => OrderInv
    /\ BoundInv /\ OrderInv /\ [Next]_vars => OrderInv'
  <1>1. Init => OrderInv
    <2> SUFFICES ASSUME Init PROVE OrderInv
      OBVIOUS
    <2>1. /\ DOMAIN accepted = {} /\ DOMAIN taskQ = {} /\ DOMAIN wire = {} /\ DOMAIN buffer = {}
          /\ ~Held /\ errored = {} /\ undelivered = {}
          /\ \A m \in Messages : pubPC[m] \notin SubmitPCs
      BY DEF Init, Held, SubmitPCs
    <2> QED
      BY <2>1 DEF OrderInv, AcceptedOnce, TaskOrder, WireOrder, BufferOrder, InOrder, Tried, Among
  <1>2. BoundInv /\ OrderInv /\ [Next]_vars => OrderInv'
    BY PublisherOrder, RunOrder, LoopOrder, OtherOrder DEF Next
  <1> QED
    BY <1>1, <1>2

(* An accepted message is not before itself.                               *)
LEMMA NotBeforeItself == ASSUME TypeInv, OrderInv, NEW a PROVE ~Before(accepted, a, a)
  BY DEF TypeInv, TypeOK, PipeTypeOK, OrderInv, AcceptedOnce, Before

(* Messages reach the session in the order publish accepted them, none     *)
(* twice, whatever the capacity, the number of publishing goroutines and   *)
(* the way the publisher or the session ends.                              *)
THEOREM SentInPublishOrder == Spec => []WireInPublishOrder
  <1>1. BoundInv /\ OrderInv => WireInPublishOrder
    <2> SUFFICES ASSUME BoundInv, OrderInv, strategy # "direct",
                        NEW i \in DOMAIN wire, NEW j \in DOMAIN wire, i < j
                 PROVE  Position(wire[i]) < Position(wire[j])
      BY DEF WireInPublishOrder
    <2>1. Before(accepted, wire[i], wire[j])
      BY DEF OrderInv, WireOrder, InOrder
    <2>2. PICK k, l \in DOMAIN accepted :
             k < l /\ accepted[k] = wire[i] /\ accepted[l] = wire[j]
      BY <2>1 DEF Before
    <2>3. \A n \in DOMAIN accepted : Position(accepted[n]) = n
      BY DEF Position, OrderInv, AcceptedOnce
    <2> QED
      BY <2>2, <2>3
  <1> QED
    BY <1>1, BoundInductive, OrderInductive, PTL DEF Spec
-----------------------------------------------------------------------------
(***************************************************************************)
(* Until a task is interrupted buffer is the message of the task in Run's  *)
(* hands or being executed, then those of the tasks waiting, then the one  *)
(* whose task is about to be submitted.                                    *)
(***************************************************************************)
Free == Undisturbed /\ "complete" \notin signals

InStep ==
    Free =>
        /\ Len(buffer) = Running + Waiting
        /\ Running = 1 => buffer[1] = runTask
        /\ \A i \in DOMAIN taskQ : buffer[Running + i] = taskQ[i]
        /\ \A m \in Messages : pubPC[m] \in SubmitPCs => buffer[Len(buffer)] = m

(* Run holds one task at a time.                                           *)
LEMMA OneRunning ==
  ASSUME TypeInv
  PROVE  /\ Running \in {0, 1} /\ (Running = 1 <=> (runPC = "offer" \/ InTask))
         /\ Bit(Submitting) \in {0, 1}
  BY DEF TypeInv, RunOK, TaskPCs, Running, Bit, InTask

(* What has been given up stays so.                                        *)
LEMMA FreeBefore == ASSUME [Next]_vars, Free' PROVE Free
  <1>1. signals \subseteq signals' /\ (core' = "running" => core = "running")
    <2>1. CASE \E m \in Messages : Publisher(m)
      BY <2>1 DEF Publisher, PublishCheck, PublishDirect, PublishDirectOverflow, PublishLock,
         PublishPush, PublishOverflow,
           PublishInterrupted, SubmitCheck, SubmitEnqueue, coreVars
    <2>2. CASE Run
      BY <2>2 DEF Run, RunTop, RunPick, RunBlockTake, RunBlockInterrupted, RunHandOver, RunAbort,
           RunExit, coreVars
    <2>3. CASE PublishLoop
      BY <2>3 DEF PublishLoop, LoopTop, LoopTerminated, TaskPublishOk, TaskPublishWouldBlock,
           TaskPublishError, TaskAwaitToken, TaskAwaitTerminated, TaskReadFull, TaskPop, TaskReport,
           TaskComplete, coreVars
    <2>4. CASE Core \/ UNCHANGED vars
      BY <2>4 DEF Core, OnCanSend, NotifyGoroutine, NotifyWhenReady, SessionDown, CoreInterrupt,
         CoreClose, vars,
           coreVars
    <2>5. CASE Terminator
      BY <2>5 DEF Terminator, TerminateStart, TerminateInterrupt, TerminateGraceful, TerminateTask,
           TerminateUngraceful, CloseSignal, TerminateAwaited, TerminateTimeout, DrainClose,
           DrainOne, DrainDone, TerminateFinish, coreVars
    <2> QED
      BY <2>1, <2>2, <2>3, <2>4, <2>5 DEF Next
  <1> QED
    BY <1>1 DEF Free, Undisturbed

(* The token a waiting task finds is a CAN_SEND.                           *)
LEMMA TokenIsTrue == ASSUME TypeInv, StageInv, Free, canSend # <<>> PROVE Head(canSend)
  <1>1. canSend = <<TRUE>>
    BY DEF Free, Undisturbed, StageInv, SignalsOK, TypeInv, TypeOK, CoreTypeOK
  <1>2. canSend[1] = TRUE /\ Head(canSend) = canSend[1]
    BY <1>1
  <1> QED
    BY <1>2, Zenon

(* A step that moves nothing between buffer and the tasks.                 *)
LEMMA InStepQuiet ==
  ASSUME InStep, Free, UNCHANGED <<buffer, taskQ>>, Running' = Running, Submitting' <=> Submitting,
         Running = 1 => UNCHANGED runTask,
         \A m \in Messages : pubPC'[m] \in SubmitPCs => pubPC[m] \in SubmitPCs
  PROVE  InStep'
  <1>1. Waiting' = Waiting
    BY DEF Waiting, Bit
  <1> QED
    BY <1>1 DEF InStep

(* publish appends to buffer and then, at the same place, to the tasks.    *)
LEMMA PublisherInStep ==
  ASSUME BoundInv, BoundInv', InStep, Free, NEW m \in Messages, Publisher(m)
  PROVE  InStep'
  <1>1. /\ UNCHANGED <<runPC, runTask, loopPC, signals>>
        /\ buffer \in Seq(Messages) /\ taskQ \in Seq(Messages)
        /\ pubPC \in [Messages -> PubPCs]
    BY DEF Publisher, PublishCheck, PublishDirect, PublishDirectOverflow, PublishLock, PublishPush,
       PublishOverflow,
           PublishInterrupted, SubmitCheck, SubmitEnqueue, runVars, loopVars, termVars,
           BoundInv, TypeInv, TypeOK, PipeTypeOK
  <1>2. Running' = Running /\ Running \in {0, 1} /\ Len(buffer) \in Nat /\ Len(taskQ) \in Nat
    BY <1>1, OneRunning DEF Running, InTask, BoundInv
  <1>3. CASE PublishPush(m)
    <2>1. /\ pubPC[m] = "push" /\ pubPC' = [pubPC EXCEPT ![m] = "submit"]
          /\ buffer' = Append(buffer, m) /\ UNCHANGED taskQ
      BY <1>3 DEF PublishPush
    <2>2. ~Submitting /\ Submitting' /\ \A n \in Messages : n # m => pubPC'[n] \notin SubmitPCs
      BY <2>1, OneSubmitter DEF Critical, PubPCs, SubmitPCs
    <2>3. Waiting = Len(taskQ) /\ Waiting' = Len(taskQ) + 1
      BY <1>2, <2>1, <2>2 DEF Waiting, Bit
    <2>4. /\ Len(buffer') = Len(buffer) + 1 /\ buffer'[Len(buffer) + 1] = m
          /\ \A i \in 1 .. Len(buffer) : buffer'[i] = buffer[i]
          /\ DOMAIN taskQ = 1 .. Len(taskQ)
      BY <1>1, <2>1
    <2>5. Len(buffer) = Running + Len(taskQ)
      BY <2>3 DEF InStep
    <2>6. Len(buffer') = Running' + Waiting'
      BY <1>2, <2>3, <2>4, <2>5
    <2>7. Running' = 1 => buffer'[1] = runTask'
      BY <1>1, <1>2, <2>4, <2>5 DEF InStep
    <2>8. \A i \in DOMAIN taskQ' : buffer'[Running' + i] = taskQ'[i]
      <3> SUFFICES ASSUME NEW i \in 1 .. Len(taskQ) PROVE buffer'[Running + i] = taskQ[i]
        BY <1>2, <2>1, <2>4
      <3>1. Running + i \in 1 .. Len(buffer)
        BY <1>2, <2>5
      <3> QED
        BY <2>4, <3>1 DEF InStep
    <2> QED
      BY <1>2, <2>2, <2>4, <2>6, <2>7, <2>8 DEF InStep
  <1>4. CASE SubmitEnqueue(m)
    <2>1. /\ pubPC[m] = "enqueue" /\ pubPC' = [pubPC EXCEPT ![m] = "done"] /\ UNCHANGED buffer
      BY <1>4 DEF SubmitEnqueue, Finish
    <2>2. Submitting /\ ~Submitting' /\ \A n \in Messages : pubPC'[n] \notin SubmitPCs
      BY <2>1, OneSubmitter DEF Critical, PubPCs, SubmitPCs
    <2>3. Waiting = Len(taskQ) + 1
      BY <1>2, <2>2 DEF Waiting, Bit
    <2>4. taskQ' = Append(taskQ, m)
      BY <1>4, <2>1, EnqueueHasSpace DEF SubmitEnqueue
    <2>5. /\ Len(taskQ') = Len(taskQ) + 1 /\ taskQ'[Len(taskQ) + 1] = m
          /\ \A i \in 1 .. Len(taskQ) : taskQ'[i] = taskQ[i]
          /\ DOMAIN taskQ' = 1 .. (Len(taskQ) + 1) /\ DOMAIN taskQ = 1 .. Len(taskQ)
      BY <1>1, <2>4
    <2>6. Waiting' = Waiting
      BY <1>2, <2>2, <2>3, <2>5 DEF Waiting, Bit
    <2>7. Len(buffer) = Running + Len(taskQ) + 1 /\ buffer[Len(buffer)] = m
      BY <1>2, <2>1, <2>3 DEF InStep, SubmitPCs
    <2>8. \A i \in DOMAIN taskQ' : buffer'[Running' + i] = taskQ'[i]
      <3> SUFFICES ASSUME NEW i \in 1 .. (Len(taskQ) + 1) PROVE buffer[Running + i] = taskQ'[i]
        BY <1>2, <2>1, <2>5
      <3>1. CASE i = Len(taskQ) + 1
        <4>1. Running + i = Len(buffer)
          BY <1>2, <2>7, <3>1
        <4> QED
          BY <2>5, <2>7, <3>1, <4>1
      <3>2. CASE i # Len(taskQ) + 1
        <4>1. i \in DOMAIN taskQ /\ taskQ'[i] = taskQ[i]
          BY <1>2, <2>5, <3>2
        <4> QED
          BY <4>1 DEF InStep
      <3> QED
        BY <3>1, <3>2
    <2> QED
      BY <1>1, <1>2, <2>1, <2>2, <2>6, <2>8 DEF InStep
  <1>5. CASE ~PublishPush(m) /\ ~SubmitEnqueue(m)
    <2>1. UNCHANGED <<taskQ, buffer>>
      BY <1>5 DEF Publisher, PublishCheck, PublishDirect, PublishDirectOverflow, PublishLock,
         PublishOverflow,
           PublishInterrupted, SubmitCheck
    <2>2. PICK x \in PubPCs : /\ pubPC' = [pubPC EXCEPT ![m] = x]
                              /\ x \in SubmitPCs <=> pubPC[m] \in SubmitPCs
      BY <1>5 DEF Publisher, PublishCheck, PublishDirect, PublishDirectOverflow, PublishLock,
         PublishOverflow,
           PublishInterrupted, SubmitCheck, Finish, Free, PubPCs, SubmitPCs
    <2>3. /\ \A n \in Messages : pubPC'[n] \in SubmitPCs <=> pubPC[n] \in SubmitPCs
      BY <1>1, <2>2
    <2>4. Submitting' <=> Submitting
      BY <2>3 DEF Submitting, SubmitPCs
    <2> QED
      BY <1>1, <1>2, <2>1, <2>3, <2>4, InStepQuiet
  <1> QED
    BY <1>3, <1>4, <1>5

(* Run takes the task of the first message.                                *)
LEMMA RunInStep ==
  ASSUME BoundInv, StageInv, InStep, Free, Free', Run
  PROVE  InStep'
  <1>1. /\ UNCHANGED <<buffer, pubPC>> /\ taskQ \in Seq(Messages)
        /\ loopPC \in TaskPCs => runPC = "wait"
    BY DEF Run, RunTop, RunPick, RunBlockTake, RunBlockInterrupted, RunHandOver, RunAbort, RunExit,
           pipeVars, BoundInv, TypeInv, TypeOK, PipeTypeOK, RunOK
  <1>2. Submitting' <=> Submitting
    BY <1>1 DEF Submitting
  <1>3. CASE runPC' = "offer"
    <2>1. /\ runPC \in {"pick", "block"} /\ UNCHANGED loopPC
          /\ taskQ # <<>> /\ runTask' = Head(taskQ) /\ taskQ' = Tail(taskQ)
      <3>1. CASE RunPick
        BY <1>3, <3>1, PickTakes DEF RunPick, loopVars
      <3>2. CASE RunBlockTake
        BY <3>2 DEF RunBlockTake, loopVars
      <3> QED
        BY <1>3, <3>1, <3>2 DEF Run, RunTop, RunBlockInterrupted, RunHandOver, RunAbort, RunExit
    <2>2. Running = 0 /\ Running' = 1
      BY <1>1, <1>3, <2>1 DEF Running, Bit, InTask, TaskPCs
    <2>3. /\ Len(taskQ) \in Nat /\ Len(taskQ) > 0 /\ Len(taskQ') = Len(taskQ) - 1
          /\ runTask' = taskQ[1] /\ 1 \in DOMAIN taskQ
          /\ \A i \in DOMAIN taskQ' : i + 1 \in DOMAIN taskQ /\ taskQ'[i] = taskQ[i + 1] /\ i \in Nat
      BY <1>1, <2>1
    <2>4. Waiting' = Waiting - 1 /\ Waiting \in Nat
      BY <1>2, <2>3 DEF Waiting, Bit
    <2>5. Len(buffer) = Waiting /\ \A i \in DOMAIN taskQ : buffer[0 + i] = taskQ[i]
      BY <2>2, <2>4 DEF InStep
    <2>6. Len(buffer') = Running' + Waiting'
      BY <1>1, <2>2, <2>4, <2>5
    <2>7. buffer'[1] = runTask'
      BY <1>1, <2>3, <2>5
    <2>8. \A i \in DOMAIN taskQ' : buffer'[Running' + i] = taskQ'[i]
      <3> SUFFICES ASSUME NEW i \in DOMAIN taskQ' PROVE buffer[1 + i] = taskQ'[i]
        BY <1>1, <2>2
      <3>1. 1 + i = 0 + (i + 1)
        BY <2>3
      <3> QED
        BY <2>3, <2>5, <3>1
    <2> QED
      BY <1>1, <2>2, <2>6, <2>7, <2>8 DEF InStep
  <1>4. CASE runPC' # "offer"
    <2>1. /\ UNCHANGED taskQ
          /\ runPC = "offer" =>
                runPC' = "wait" /\ loopPC = "select" /\ loopPC' = "publish" /\ UNCHANGED runTask
          /\ runPC # "offer" => UNCHANGED loopPC /\ runPC # "wait"
      <3>1. CASE RunPick
        BY <1>4, <3>1, PickTakes DEF RunPick, loopVars
      <3>2. CASE ~RunPick
        BY <1>4, <3>2 DEF Run, RunTop, RunBlockTake, RunBlockInterrupted, RunHandOver, RunAbort,
               RunExit, pipeVars, loopVars, Free, Undisturbed, StageInv, SignalsOK
      <3> QED
        BY <3>1, <3>2
    <2>2. Running' = Running /\ (Running = 1 => UNCHANGED runTask)
      BY <1>1, <1>4, <2>1 DEF Running, Bit, InTask, TaskPCs
    <2> QED
      BY <1>1, <1>2, <2>1, <2>2, InStepQuiet
  <1> QED
    BY <1>3, <1>4

(* A task that is not interrupted pops the first message.                  *)
LEMMA LoopInStep ==
  ASSUME BoundInv, StageInv, InStep, Free, PublishLoop
  PROVE  InStep'
  <1>1. /\ UNCHANGED <<taskQ, pubPC>> /\ buffer \in Seq(Messages) /\ taskQ \in Seq(Messages)
        /\ loopPC \in TaskPCs => runPC = "wait"
    BY DEF PublishLoop, LoopTop, LoopTerminated, TaskPublishOk, TaskPublishWouldBlock,
         TaskPublishError, TaskAwaitToken, TaskAwaitTerminated, TaskReadFull, TaskPop, TaskReport,
         TaskComplete, pipeVars, BoundInv, TypeInv, TypeOK, PipeTypeOK, RunOK
  <1>2. Submitting' <=> Submitting
    BY <1>1 DEF Submitting
  <1>3. CASE TaskPop
    <2>1. loopPC = "pop" /\ loopPC' \notin {"publish", "await", "full", "pop"} /\ UNCHANGED runPC
      BY <1>3 DEF TaskPop, runVars
    <2>2. Running = 1 /\ Running' = 0
      BY <1>1, <2>1 DEF Running, Bit, InTask, TaskPCs
    <2>3. Len(buffer) = 1 + Waiting /\ Waiting' = Waiting /\ Waiting \in Nat /\ Len(taskQ) \in Nat
          /\ Waiting >= Len(taskQ)
      BY <1>1, <1>2, <2>2 DEF InStep, Waiting, Bit
    <2>4. buffer # <<>> /\ buffer' = Tail(buffer)
      <3>1. buffer # <<>>
        BY <2>3
      <3> QED
        BY <1>3, <3>1 DEF TaskPop
    <2>5. Len(buffer') = Waiting /\ \A i \in 1 .. Waiting : buffer'[i] = buffer[i + 1]
      BY <1>1, <2>3, <2>4
    <2>6. \A i \in DOMAIN taskQ' : buffer'[Running' + i] = taskQ'[i]
      <3> SUFFICES ASSUME NEW i \in DOMAIN taskQ PROVE buffer'[0 + i] = taskQ[i]
        BY <1>1, <2>2
      <3>1. i \in 1 .. Waiting /\ 1 + i = i + 1 /\ 0 + i = i
        BY <1>1, <2>3
      <3> QED
        BY <2>2, <2>5, <3>1 DEF InStep
    <2>7. \A m \in Messages : pubPC'[m] \in SubmitPCs => buffer'[Len(buffer')] = m
      <3> SUFFICES ASSUME NEW m \in Messages, pubPC[m] \in SubmitPCs PROVE buffer'[Len(buffer')] = m
        BY <1>1
      <3>1. Waiting \in 1 .. Waiting
        BY <1>1 DEF Waiting, Submitting, SubmitPCs, Bit
      <3>2. buffer'[Waiting] = buffer[Len(buffer)]
        BY <2>3, <2>5, <3>1
      <3> QED
        BY <2>5, <3>2 DEF InStep
    <2> QED
      BY <2>2, <2>3, <2>5, <2>6, <2>7 DEF InStep
  <1>4. CASE ~TaskPop
    <2>1. UNCHANGED buffer
      BY <1>4 DEF PublishLoop, LoopTop, LoopTerminated, TaskPublishOk, TaskPublishWouldBlock,
         TaskPublishError, TaskAwaitToken, TaskAwaitTerminated, TaskReadFull, TaskReport,
         TaskComplete, pipeVars
    <2>2. /\ runPC' # "offer" => runPC # "offer"
          /\ runPC' = "offer" => runPC = "offer"
          /\ (runPC = "offer" \/ InTask) => UNCHANGED runTask
      BY <1>1, <1>4 DEF PublishLoop, LoopTop, LoopTerminated, TaskPublishOk, TaskPublishWouldBlock,
         TaskPublishError, TaskAwaitToken, TaskAwaitTerminated, TaskReadFull, TaskReport,
         TaskComplete, runVars, InTask
    <2>3. InTask' <=> InTask
      <3>1. CASE TaskAwaitToken
        BY <3>1, TokenIsTrue DEF TaskAwaitToken, InTask, BoundInv
      <3>2. CASE ~TaskAwaitToken
        BY <1>4, <3>2 DEF PublishLoop, LoopTop, LoopTerminated, TaskPublishOk, TaskPublishWouldBlock,
           TaskPublishError, TaskAwaitTerminated, TaskReadFull, TaskReport, TaskComplete,
           TaskInterrupted, InTask, Free, Undisturbed
      <3> QED
        BY <3>1, <3>2
    <2>4. Running' = Running /\ (Running = 1 => UNCHANGED runTask)
      BY <2>2, <2>3 DEF Running, Bit
    <2> QED
      BY <1>1, <1>2, <2>1, <2>4, InStepQuiet
  <1> QED
    BY <1>3, <1>4

(* buffer is not drained as long as nothing has been given up.             *)
LEMMA OtherInStep ==
  ASSUME BoundInv, StageInv, InStep, Free, Core \/ Terminator \/ UNCHANGED vars
  PROVE  InStep'
  <1>1. UNCHANGED <<taskQ, pubPC, runPC, runTask, loopPC>>
    BY DEF Core, OnCanSend, NotifyGoroutine, NotifyWhenReady, SessionDown, CoreInterrupt,
       CoreClose, vars,
           Terminator, TerminateStart, TerminateInterrupt, TerminateGraceful, TerminateTask,
           TerminateUngraceful, CloseSignal, TerminateAwaited, TerminateTimeout, DrainClose,
           DrainOne, DrainDone, TerminateFinish, pipeVars, runVars, loopVars
  <1>2. UNCHANGED buffer
    <2>1. ~DrainOne
      BY DEF DrainOne, StageInv, Stages, Closing, Free, Undisturbed
    <2> QED
      BY <2>1 DEF Core, OnCanSend, NotifyGoroutine, NotifyWhenReady, SessionDown, CoreInterrupt,
         CoreClose, vars,
           Terminator, TerminateStart, TerminateInterrupt, TerminateGraceful, TerminateTask,
           TerminateUngraceful, CloseSignal, TerminateAwaited, TerminateTimeout, DrainClose,
           DrainDone, TerminateFinish, pipeVars
  <1>3. Running' = Running /\ (Submitting' <=> Submitting)
    BY <1>1 DEF Running, InTask, Submitting
  <1> QED
    BY <1>1, <1>2, <1>3, InStepQuiet

(* A task removes its own message from buffer: until one is interrupted,   *)
(* the head of buffer is the message of the task that is about to pop it,  *)
(* whatever the capacity and the number of publishing goroutines.          *)
THEOREM TaskPopsItsOwn == Spec => []TaskPopsOwnMessageUnlessInterrupted
  <1> DEFINE Inv == BoundInv /\ StageInv /\ InStep
  <1>1. Init => Inv
    <2>1. Init => InStep
      <3> SUFFICES ASSUME Init PROVE InStep
        OBVIOUS
      <3>1. /\ Len(buffer) = 0 /\ Len(taskQ) = 0 /\ DOMAIN taskQ = {} /\ Running = 0
            /\ \A m \in Messages : pubPC[m] \notin SubmitPCs
        BY DEF Init, Running, Bit, InTask, SubmitPCs
      <3>2. Waiting = 0
        BY <3>1 DEF Waiting, Bit, Submitting, SubmitPCs
      <3> QED
        BY <3>1, <3>2 DEF InStep
    <2> QED
      BY <2>1, BoundInductive, StageInductive
  <1>2. Inv /\ [Next]_vars => Inv'
    <2> SUFFICES ASSUME Inv, [Next]_vars PROVE Inv'
      OBVIOUS
    <2>1. BoundInv' /\ StageInv'
      BY BoundInductive, StageInductive DEF BoundInv
    <2>2. ASSUME Free' PROVE InStep'
      BY <2>1, <2>2, FreeBefore, PublisherInStep, RunInStep, LoopInStep, OtherInStep DEF Next
    <2> QED
      BY <2>1, <2>2 DEF InStep
  <1>3. Inv => TaskPopsOwnMessageUnlessInterrupted
    <2> SUFFICES ASSUME Inv, Undisturbed, InTask PROVE buffer # <<>> /\ Head(buffer) = runTask
      BY DEF TaskPopsOwnMessageUnlessInterrupted
    <2>1. Free /\ Running = 1
      BY OneRunning DEF BoundInv, TypeInv, RunOK, TaskPCs, InTask, StageInv, SignalsOK, Free
    <2>2. Len(buffer) >= 1 /\ buffer[1] = runTask
      BY <2>1, Lengths DEF InStep, Waiting, Bit, BoundInv
    <2> QED
      BY <2>2 DEF BoundInv, TypeInv, TypeOK, PipeTypeOK
  <1> QED
    BY <1>1, <1>2, <1>3, PTL DEF Spec
-----------------------------------------------------------------------------
(***************************************************************************)
(* The accounts.  What is accepted is in buffer, tried or drained, once; a *)
(* task that has tried its message has yet to pop it.  A message whose     *)
(* publish has returned nil is tried or has a task, until a task is        *)
(* interrupted; once Run has ended, those of them that Terminate found are *)
(* tried.                                                                  *)
(***************************************************************************)
Unpopped == IF loopPC \in {"full", "pop"} THEN 1 ELSE 0

Accounted ==
    termKind # "down" /\ strategy # "direct" =>
        Len(accepted) + Unpopped =
            Len(buffer) + Len(wire) + Cardinality(errored) + Cardinality(undelivered)

Returned == \A m \in Messages : result[m] # "none" => pubPC[m] = "done"

Pending(m) == Among(taskQ, m) \/ (NotSent /\ runTask = m)

Kept ==
    strategy # "direct" /\ Undisturbed =>
        /\ "complete" \notin signals =>
              /\ \A m \in Messages : result[m] = "ok" => Tried(m) \/ Pending(m)
              /\ \A m \in promised : result[m] = "ok"
        /\ "complete" \in signals => \A m \in promised : Tried(m)

PipeInv  == BoundInv /\ StageInv /\ OrderInv
CountInv == Accounted /\ Returned /\ Kept

(* The numbers the accounts are about.                                     *)
LEMMA Counts ==
  ASSUME TypeInv
  PROVE  /\ Len(accepted) \in Nat /\ Len(buffer) \in Nat /\ Len(wire) \in Nat
         /\ Cardinality(errored) \in Nat /\ Cardinality(undelivered) \in Nat
         /\ IsFiniteSet(errored) /\ IsFiniteSet(undelivered)
  <1>1. errored \subseteq Messages /\ undelivered \subseteq Messages
    BY DEF TypeInv, TypeOK, LoopTypeOK, TermTypeOK
  <1>2. IsFiniteSet(errored) /\ IsFiniteSet(undelivered)
    BY <1>1, DirectPublisherAssumption, FS_Subset
  <1>3. Cardinality(errored) \in Nat /\ Cardinality(undelivered) \in Nat
    BY <1>2, FS_CardinalityType
  <1>4. Len(accepted) \in Nat /\ Len(buffer) \in Nat /\ Len(wire) \in Nat
    BY DEF TypeInv, TypeOK, PipeTypeOK, LoopTypeOK
  <1> QED
    BY <1>2, <1>3, <1>4

(* A step that tries, pops and drains nothing.                             *)
LEMMA AccountedQuiet ==
  ASSUME Accounted, UNCHANGED <<strategy, accepted, buffer, errored, undelivered>>,
         termKind' # "down" => termKind # "down",
         strategy = "direct" \/ UNCHANGED wire,
         loopPC' \in {"full", "pop"} <=> loopPC \in {"full", "pop"}
  PROVE  Accounted'
  <1>1. Unpopped' = Unpopped
    BY DEF Unpopped
  <1> QED
    BY <1>1 DEF Accounted

(* A step that gives no message up.                                        *)
LEMMA KeptQuiet ==
  ASSUME Kept, UNCHANGED <<strategy, promised>>, promised \subseteq Messages,
         Undisturbed' => Undisturbed, ("complete" \in signals') <=> ("complete" \in signals),
         \A m \in Messages : Tried(m) => Tried(m)',
         Free /\ strategy # "direct" => \A m \in Messages :
             /\ result'[m] = "ok" => result[m] = "ok" \/ Pending(m)'
             /\ result[m] = "ok" => result'[m] = "ok"
             /\ Pending(m) => Pending(m)' \/ Tried(m)'
  PROVE  Kept'
  <1> SUFFICES ASSUME strategy # "direct", Undisturbed'
               PROVE  Kept'
    BY DEF Kept
  <1>1. CASE "complete" \in signals
    BY <1>1 DEF Kept
  <1>2. CASE "complete" \notin signals
    <2>1. Free
      BY <1>2 DEF Free
    <2>2. \A m \in Messages : result'[m] = "ok" => Tried(m)' \/ Pending(m)'
      BY <1>2, <2>1 DEF Kept
    <2>3. \A m \in promised' : result'[m] = "ok"
      BY <1>2, <2>1 DEF Kept
    <2> QED
      BY <1>2, <2>2, <2>3 DEF Kept
  <1> QED
    BY <1>1, <1>2

(* publish: a message that is accepted is in buffer, and one whose call    *)
(* has returned nil has its task.                                          *)
LEMMA PublisherCount ==
  ASSUME PipeInv, CountInv, NEW m \in Messages, Publisher(m)
  PROVE  CountInv'
  <1>1. /\ UNCHANGED <<strategy, undelivered, runPC, runTask, loopPC, errored, signals, promised,
                       termKind, core>>
        /\ accepted \in Seq(Messages) /\ buffer \in Seq(Messages) /\ taskQ \in Seq(Messages)
        /\ wire \in Seq(Messages) /\ promised \subseteq Messages
        /\ pubPC \in [Messages -> PubPCs] /\ result \in [Messages -> Results]
    BY DEF Publisher, PublishCheck, PublishDirect, PublishDirectOverflow, PublishLock, PublishPush,
       PublishOverflow,
           PublishInterrupted, SubmitCheck, SubmitEnqueue, runVars, loopVars, termVars, coreVars,
           PipeInv, BoundInv, TypeInv, TypeOK, PipeTypeOK, LoopTypeOK, TermTypeOK
  <1>2. UNCHANGED <<NotSent, Undisturbed>>
    BY <1>1 DEF NotSent, Undisturbed
  <1>3. Accounted'
    <2>1. CASE PublishPush(m)
      <3>1. buffer' = Append(buffer, m) /\ accepted' = Append(accepted, m) /\ UNCHANGED wire
        BY <2>1 DEF PublishPush, loopVars
      <3>2. Len(buffer') = Len(buffer) + 1 /\ Len(accepted') = Len(accepted) + 1
        BY <1>1, <3>1
      <3>3. Unpopped' = Unpopped /\ Unpopped \in Nat
        BY <1>1 DEF Unpopped
      <3>4. /\ Len(accepted) \in Nat /\ Len(buffer) \in Nat /\ Len(wire) \in Nat
            /\ Cardinality(errored) \in Nat /\ Cardinality(undelivered) \in Nat
        BY Counts DEF PipeInv, BoundInv
      <3>5. UNCHANGED <<strategy, termKind, wire, errored, undelivered>>
        BY <1>1, <3>1
      <3> QED
        BY <3>2, <3>3, <3>4, <3>5 DEF CountInv, Accounted
    <2>2. CASE ~PublishPush(m)
      <3>1. UNCHANGED <<accepted, buffer>> /\ (strategy = "direct" \/ UNCHANGED wire)
        BY <2>2 DEF Publisher, PublishCheck, PublishDirect, PublishDirectOverflow, PublishLock,
           PublishOverflow,
           PublishInterrupted, SubmitCheck, SubmitEnqueue, loopVars
      <3> QED
        BY <1>1, <3>1, AccountedQuiet DEF CountInv
    <2> QED
      BY <2>1, <2>2
  <1>4. /\ pubPC[m] # "done" /\ result[m] = "none"
        /\ \/ \E x : pubPC' = [pubPC EXCEPT ![m] = x] /\ UNCHANGED result
           \/ \E r : pubPC' = [pubPC EXCEPT ![m] = "done"] /\ result' = [result EXCEPT ![m] = r]
    BY DEF Publisher, PublishCheck, PublishDirect, PublishDirectOverflow, PublishLock, PublishPush,
       PublishOverflow,
           PublishInterrupted, SubmitCheck, SubmitEnqueue, Finish, CountInv, Returned
  <1>5. Returned'
    BY <1>1, <1>4 DEF CountInv, Returned
  <1>6. \A n \in Messages : n # m => result'[n] = result[n]
    BY <1>1, <1>4
  <1>7. Kept'
    <2>1. \A n \in Messages : Tried(n) => Tried(n)'
      <3>1. wire' = wire \/ wire' = Append(wire, m)
        BY DEF Publisher, PublishCheck, PublishDirect, PublishDirectOverflow, PublishLock,
           PublishPush, PublishOverflow,
           PublishInterrupted, SubmitCheck, SubmitEnqueue, loopVars
      <3>2. \A a : Among(wire, a) => Among(Append(wire, m), a)
        BY <1>1, StillAmong
      <3> QED
        BY <1>1, <3>1, <3>2 DEF Tried
    <2>2. \A n \in Messages : Pending(n) => Pending(n)'
      <3>1. taskQ' = taskQ \/ taskQ' = Append(taskQ, m)
        BY DEF Publisher, PublishCheck, PublishDirect, PublishDirectOverflow, PublishLock,
           PublishPush, PublishOverflow,
           PublishInterrupted, SubmitCheck, SubmitEnqueue
      <3>2. \A a : Among(taskQ, a) => Among(Append(taskQ, m), a)
        BY <1>1, StillAmong
      <3> QED
        BY <1>1, <1>2, <3>1, <3>2 DEF Pending
    <2>3. Free /\ strategy # "direct" /\ result'[m] = "ok" => Pending(m)'
      <3> SUFFICES ASSUME Free, strategy # "direct", result'[m] = "ok" PROVE Pending(m)'
        OBVIOUS
      <3>1. SubmitEnqueue(m)
        BY <1>1, <1>4 DEF Publisher, PublishCheck, PublishDirect, PublishDirectOverflow,
           PublishLock, PublishPush,
           PublishOverflow, PublishInterrupted, SubmitCheck, Finish, Free
      <3>2. Len(taskQ) < TaskCapacity
        BY <3>1, EnqueueHasSpace DEF SubmitEnqueue, PipeInv
      <3>3. taskQ' = Append(taskQ, m)
        BY <3>1, <3>2 DEF SubmitEnqueue
      <3> QED
        BY <1>1, <3>3, StillAmong DEF Pending
    <2> QED
      BY <1>1, <1>2, <1>4, <1>6, <2>1, <2>2, <2>3, KeptQuiet DEF CountInv
  <1> QED
    BY <1>3, <1>5, <1>7 DEF CountInv

(* Run ends by itself only when no task is left.                           *)
LEMMA RunCount ==
  ASSUME PipeInv, CountInv, Run
  PROVE  CountInv'
  <1>1. /\ UNCHANGED <<strategy, accepted, buffer, undelivered, wire, errored, pubPC, result, promised,
                       termKind, core>>
        /\ taskQ \in Seq(Messages) /\ promised \subseteq Messages
        /\ loopPC \in TaskPCs => runPC = "wait"
    BY DEF Run, RunTop, RunPick, RunBlockTake, RunBlockInterrupted, RunHandOver, RunAbort, RunExit,
           pipeVars, loopVars, termVars, coreVars, PipeInv, BoundInv, TypeInv, TypeOK, PipeTypeOK,
           TermTypeOK, RunOK
  <1>2. Accounted' /\ Returned'
    <2>1. loopPC' \in {"full", "pop"} <=> loopPC \in {"full", "pop"}
      BY DEF Run, RunTop, RunPick, RunBlockTake, RunBlockInterrupted, RunHandOver, RunAbort, RunExit,
             loopVars
    <2> QED
      BY <1>1, <2>1, AccountedQuiet DEF CountInv, Returned
  <1>3. \A m \in Messages : Tried(m)' <=> Tried(m)
    BY <1>1 DEF Tried
  <1>4. ASSUME UNCHANGED signals, Free => \A m \in Messages : Pending(m) => Pending(m)'
        PROVE  Kept'
    <2>1. Undisturbed' <=> Undisturbed
      BY <1>1, <1>4 DEF Undisturbed
    <2> QED
      BY <1>1, <1>3, <1>4, <2>1, KeptQuiet DEF CountInv
  <1>5. CASE runPC' = "offer"
    <2>1. /\ runPC \in {"pick", "block"} /\ UNCHANGED <<loopPC, signals>>
          /\ taskQ # <<>> /\ runTask' = Head(taskQ) /\ taskQ' = Tail(taskQ)
      <3>1. CASE RunPick
        BY <1>5, <3>1, PickTakes DEF RunPick, loopVars
      <3>2. CASE RunBlockTake
        BY <3>2 DEF RunBlockTake, loopVars
      <3> QED
        BY <1>5, <3>1, <3>2 DEF Run, RunTop, RunBlockInterrupted, RunHandOver, RunAbort, RunExit
    <2>2. \A m : Among(taskQ, m) => Among(taskQ', m) \/ m = runTask'
      <3> SUFFICES ASSUME NEW i \in DOMAIN taskQ PROVE Among(taskQ', taskQ[i]) \/ taskQ[i] = runTask'
        BY DEF Among
      <3>1. CASE i = 1
        BY <1>1, <2>1, <3>1
      <3>2. CASE i # 1
        <4>1. i - 1 \in DOMAIN taskQ' /\ taskQ'[i - 1] = taskQ[i]
          BY <1>1, <2>1, <3>2
        <4> QED
          BY <4>1 DEF Among
      <3> QED
        BY <3>1, <3>2
    <2>3. ~NotSent /\ NotSent'
      BY <1>1, <1>5, <2>1 DEF NotSent, TaskPCs
    <2>4. Kept'
      BY <1>4, <2>1, <2>2, <2>3 DEF Pending
    <2> QED
      BY <1>2, <2>4 DEF CountInv
  <1>6. CASE RunPick /\ GracefulSignalled /\ NoTaskLeft
    <2>1. signals' = signals \cup {"complete"} /\ runPC = "pick" /\ taskQ = <<>>
      BY <1>6 DEF RunPick, NoTaskLeft
    <2>2. "complete" \notin signals /\ ~NotSent
      BY <1>1, <2>1 DEF PipeInv, StageInv, SignalsOK, NotSent, TaskPCs
    <2>3. \A m \in Messages : ~Pending(m)
      BY <2>1, <2>2 DEF Pending, Among
    <2>4. Undisturbed' <=> Undisturbed
      BY <1>1, <2>1 DEF Undisturbed
    <2>5. strategy # "direct" /\ Undisturbed => \A m \in promised : Tried(m)
      BY <1>1, <2>2, <2>3 DEF CountInv, Kept
    <2>6. Kept'
      BY <1>1, <1>3, <2>1, <2>4, <2>5 DEF Kept
    <2> QED
      BY <1>2, <2>6 DEF CountInv
  <1>7. CASE RunExit
    <2>1. "task" \in signals
      BY <1>7 DEF RunExit, PipeInv, StageInv, SignalsOK
    <2>2. ~Undisturbed'
      BY <1>7, <2>1 DEF RunExit, Undisturbed
    <2> QED
      BY <1>2, <2>2 DEF CountInv, Kept
  <1>8. CASE /\ runPC' # "offer" /\ ~RunExit
             /\ ~(RunPick /\ GracefulSignalled /\ NoTaskLeft)
    <2>1. /\ UNCHANGED <<taskQ, signals>>
          /\ \/ runPC = "offer" /\ "ungraceful" \in signals
             \/ runPC = "offer" /\ loopPC' = "publish" /\ UNCHANGED runTask
             \/ runPC # "offer" /\ UNCHANGED <<loopPC, runTask>>
      <3>1. CASE RunPick
        BY <1>8, <3>1, PickTakes DEF RunPick, loopVars
      <3>2. CASE ~RunPick
        BY <1>8, <3>2 DEF Run, RunTop, RunBlockTake, RunBlockInterrupted, RunHandOver,
               RunAbort, pipeVars, runVars, loopVars
      <3> QED
        BY <3>1, <3>2
    <2>2. "ungraceful" \in signals => ~Free
      BY DEF PipeInv, StageInv, SignalsOK, Free, Undisturbed
    <2>3. Kept'
      BY <1>4, <2>1, <2>2 DEF Pending, NotSent
    <2> QED
      BY <1>2, <2>3 DEF CountInv
  <1> QED
    BY <1>5, <1>6, <1>7, <1>8

(* A task tries its message once, and then pops one element of buffer: it  *)
(* never finds buffer empty, unless a down event has drained it.           *)
LEMMA LoopCount ==
  ASSUME PipeInv, CountInv, PublishLoop
  PROVE  CountInv'
  <1>1. /\ UNCHANGED <<strategy, accepted, taskQ, undelivered, pubPC, result, promised, termKind,
                       core, signals>>
        /\ wire \in Seq(Messages) /\ buffer \in Seq(Messages) /\ promised \subseteq Messages
        /\ loopPC \in TaskPCs => runPC = "wait" /\ runTask \in Messages
    BY DEF PublishLoop, LoopTop, LoopTerminated, TaskPublishOk, TaskPublishWouldBlock,
         TaskPublishError, TaskAwaitToken, TaskAwaitTerminated, TaskReadFull, TaskPop, TaskReport,
         TaskComplete, pipeVars, coreVars, termVars, PipeInv, BoundInv, TypeInv, TypeOK, PipeTypeOK,
         LoopTypeOK, TermTypeOK, RunOK
  <1>2. /\ Len(accepted) \in Nat /\ Len(buffer) \in Nat /\ Len(wire) \in Nat
        /\ Cardinality(errored) \in Nat /\ Cardinality(undelivered) \in Nat /\ IsFiniteSet(errored)
    BY Counts DEF PipeInv, BoundInv
  <1>3. Returned' /\ (Undisturbed' <=> Undisturbed)
    BY <1>1 DEF CountInv, Returned, Undisturbed
  <1>4. CASE TaskPublishOk \/ TaskPublishError
    <2>1. /\ loopPC = "publish" /\ loopPC' = "full" /\ UNCHANGED <<runPC, runTask, buffer>>
          /\ \/ wire' = Append(wire, runTask) /\ errored' = errored
             \/ wire' = wire /\ errored' = errored \cup {runTask}
      BY <1>4 DEF TaskPublishOk, TaskPublishError, pipeVars, runVars
    <2>2. Unpopped = 0 /\ Unpopped' = 1 /\ runTask \in Messages
      BY <1>1, <2>1 DEF Unpopped, TaskPCs
    <2>3. strategy # "direct" => runTask \notin errored
      BY <2>1, <2>2, NotBeforeItself DEF PipeInv, BoundInv, OrderInv, WireOrder, Tried, NotSent
    <2>4. strategy # "direct" =>
             Len(wire') + Cardinality(errored') = Len(wire) + Cardinality(errored) + 1
      <3>1. CASE wire' = Append(wire, runTask) /\ errored' = errored
        <4>1. Len(wire') = Len(wire) + 1
          BY <1>1, <2>2, <3>1
        <4> QED
          BY <1>2, <3>1, <4>1
      <3>2. CASE wire' = wire /\ errored' = errored \cup {runTask}
        <4>1. strategy # "direct" => Cardinality(errored') = Cardinality(errored) + 1
          BY <1>2, <2>3, <3>2, FS_AddElement
        <4> QED
          BY <1>2, <3>2, <4>1
      <3> QED
        BY <2>1, <3>1, <3>2
    <2>5. Len(wire') \in Nat /\ Cardinality(errored') \in Nat
      <3>1. wire' \in Seq(Messages)
        BY <1>1, <2>1, <2>2
      <3>2. IsFiniteSet(errored \cup {runTask})
        BY <1>2, FS_AddElement
      <3>3. IsFiniteSet(errored')
        BY <1>2, <2>1, <3>2
      <3> QED
        BY <3>1, <3>3, FS_CardinalityType
    <2>6. Accounted'
      <3>1. UNCHANGED <<strategy, termKind, accepted, buffer, undelivered>>
        BY <1>1, <2>1
      <3> QED
        BY <1>2, <2>2, <2>4, <2>5, <3>1 DEF CountInv, Accounted
    <2>7. \A a : Among(wire, a) => Among(Append(wire, runTask), a)
      BY <1>1, <2>2, StillAmong
    <2>8. Among(Append(wire, runTask), runTask)
      BY <1>1, <2>2, StillAmong
    <2>9. Tried(runTask)' /\ \A m \in Messages : Tried(m) => Tried(m)'
      BY <2>1, <2>7, <2>8 DEF Tried
    <2>10. \A m \in Messages : Pending(m) => Pending(m)' \/ Tried(m)'
      BY <1>1, <2>1, <2>9 DEF Pending
    <2>11. Kept'
      BY <1>1, <1>3, <2>9, <2>10, KeptQuiet DEF CountInv
    <2> QED
      BY <1>3, <2>6, <2>11 DEF CountInv
  <1>5. CASE ~TaskPublishOk /\ ~TaskPublishError
    <2>1. UNCHANGED <<wire, errored>>
      BY <1>5 DEF PublishLoop, LoopTop, LoopTerminated, TaskPublishWouldBlock, TaskAwaitToken,
         TaskAwaitTerminated, TaskReadFull, TaskPop, TaskReport, TaskComplete
    <2>2. Accounted'
      <3>1. CASE TaskPop
        <4>1. /\ loopPC = "pop" /\ loopPC' \notin {"full", "pop"}
              /\ buffer = <<>> => UNCHANGED buffer
              /\ buffer # <<>> => buffer' = Tail(buffer)
          BY <3>1 DEF TaskPop
        <4>2. Unpopped = 1 /\ Unpopped' = 0
          BY <4>1 DEF Unpopped
        <4>3. termKind # "down" /\ strategy # "direct" => buffer # <<>>
          <5> SUFFICES ASSUME termKind # "down", strategy # "direct" PROVE buffer # <<>>
            OBVIOUS
          <5>1. ~bufferClosed
            BY <1>1, <4>1 DEF PipeInv, StageInv, SignalsOK, Closing, TaskPCs
          <5>2. Running = 1 /\ Waiting \in Nat
            BY <1>1, <4>1, OneRunning, Lengths DEF PipeInv, BoundInv, InTask, Waiting
          <5>3. 1 <= Len(buffer)
            BY <1>2, <5>1, <5>2 DEF PipeInv, BoundInv, BoundOK
          <5> QED
            BY <5>3
        <4>4. buffer # <<>> => Len(buffer') = Len(buffer) - 1 /\ Len(buffer) > 0
          BY <1>1, <4>1
        <4>5. UNCHANGED <<strategy, termKind, accepted, wire, errored, undelivered>>
          BY <1>1, <2>1
        <4> QED
          BY <1>2, <4>2, <4>3, <4>4, <4>5 DEF CountInv, Accounted
      <3>2. CASE ~TaskPop
        <4>1. UNCHANGED buffer /\ (loopPC' \in {"full", "pop"} <=> loopPC \in {"full", "pop"})
          BY <1>5, <3>2 DEF PublishLoop, LoopTop, LoopTerminated, TaskPublishWouldBlock,
             TaskAwaitToken, TaskAwaitTerminated, TaskReadFull, TaskReport, TaskComplete,
             AbandonTask, pipeVars
        <4> QED
          BY <1>1, <2>1, <4>1, AccountedQuiet DEF CountInv
      <3> QED
        BY <3>1, <3>2
    <2>3. Free /\ NotSent => NotSent' /\ UNCHANGED runTask
      <3>1. CASE TaskAwaitToken
        BY <3>1, TokenIsTrue DEF TaskAwaitToken, NotSent, runVars, PipeInv, BoundInv
      <3>2. CASE ~TaskAwaitToken
        BY <1>1, <1>5, <3>2 DEF PublishLoop, LoopTop, LoopTerminated, TaskPublishWouldBlock,
           TaskAwaitTerminated, TaskReadFull, TaskPop, TaskReport, TaskComplete, TaskInterrupted,
           NotSent, runVars, Free, Undisturbed, TaskPCs
      <3> QED
        BY <3>1, <3>2
    <2>4. /\ \A m \in Messages : Tried(m) => Tried(m)'
          /\ Free => \A m \in Messages : Pending(m) => Pending(m)'
      BY <1>1, <2>1, <2>3 DEF Tried, Pending
    <2>5. Kept'
      BY <1>1, <1>3, <2>4, KeptQuiet DEF CountInv
    <2> QED
      BY <1>3, <2>2, <2>5 DEF CountInv
  <1> QED
    BY <1>4, <1>5

(* drainQueue counts a message once; Terminate notes the calls that have   *)
(* returned.                                                               *)
LEMMA OtherCount ==
  ASSUME PipeInv, CountInv, Core \/ Terminator \/ UNCHANGED vars
  PROVE  CountInv'
  <1>1. /\ UNCHANGED <<strategy, accepted, taskQ, pubPC, result, wire, errored, runPC, runTask, loopPC>>
        /\ buffer \in Seq(Messages) /\ promised \subseteq Messages
    BY DEF Core, OnCanSend, NotifyGoroutine, NotifyWhenReady, SessionDown, CoreInterrupt,
       CoreClose, vars,
           Terminator, TerminateStart, TerminateInterrupt, TerminateGraceful, TerminateTask,
           TerminateUngraceful, CloseSignal, TerminateAwaited, TerminateTimeout, DrainClose,
           DrainOne, DrainDone, TerminateFinish, pipeVars, runVars, loopVars,
           PipeInv, BoundInv, TypeInv, TypeOK, PipeTypeOK, TermTypeOK
  <1>2. Returned' /\ UNCHANGED Unpopped
    BY <1>1 DEF CountInv, Returned, Unpopped
  <1>3. /\ termKind' # "down" => termKind # "down"
        /\ Undisturbed' => Undisturbed
        /\ ("complete" \in signals') <=> ("complete" \in signals)
    BY DEF Core, OnCanSend, NotifyGoroutine, NotifyWhenReady, SessionDown, CoreInterrupt,
       CoreClose, vars,
           Terminator, TerminateStart, TerminateInterrupt, TerminateGraceful, TerminateTask,
           TerminateUngraceful, CloseSignal, TerminateAwaited, TerminateTimeout, DrainClose,
           DrainOne, DrainDone, TerminateFinish, coreVars, termVars, Undisturbed,
           PipeInv, StageInv, Stages
  <1>4. Accounted'
    <2>1. CASE DrainOne
      <3>1. /\ buffer # <<>> /\ buffer' = Tail(buffer) /\ termKind' = termKind
            /\ undelivered' = undelivered \cup {Head(buffer)}
        BY <2>1 DEF DrainOne
      <3>2. /\ Len(buffer) \in Nat /\ Len(buffer) > 0 /\ Len(buffer') = Len(buffer) - 1
            /\ 1 \in DOMAIN buffer /\ Head(buffer) = buffer[1]
        BY <1>1, <3>1
      <3>3. Head(buffer) \notin undelivered
        BY <3>2, NotBeforeItself DEF PipeInv, BoundInv, OrderInv, BufferOrder, Precedes
      <3>4. /\ Len(accepted) \in Nat /\ Len(wire) \in Nat
            /\ Cardinality(errored) \in Nat /\ Cardinality(undelivered) \in Nat
            /\ IsFiniteSet(undelivered)
        BY Counts DEF PipeInv, BoundInv
      <3>5. Cardinality(undelivered') = Cardinality(undelivered) + 1
        BY <3>1, <3>3, <3>4, FS_AddElement
      <3>6. UNCHANGED <<strategy, termKind, accepted, wire, errored>> /\ Unpopped \in Nat
        BY <1>1, <3>1 DEF Unpopped
      <3> QED
        BY <1>2, <3>2, <3>4, <3>5, <3>6 DEF CountInv, Accounted
    <2>2. CASE ~DrainOne
      <3>1. UNCHANGED <<buffer, undelivered>>
        BY <2>2 DEF Core, OnCanSend, NotifyGoroutine, NotifyWhenReady, SessionDown, CoreInterrupt,
           CoreClose, vars,
           Terminator, TerminateStart, TerminateInterrupt, TerminateGraceful, TerminateTask,
           TerminateUngraceful, CloseSignal, TerminateAwaited, TerminateTimeout, DrainClose,
           DrainDone, TerminateFinish, pipeVars, termVars
      <3> QED
        BY <1>1, <1>3, <3>1, AccountedQuiet DEF CountInv
    <2> QED
      BY <2>1, <2>2
  <1>5. \A m \in Messages : (Tried(m)' <=> Tried(m)) /\ (Pending(m)' <=> Pending(m))
    BY <1>1 DEF Tried, Pending, NotSent
  <1>6. Kept'
    <2>1. CASE \E k \in TermKinds : TerminateStart(k)
      <3>1. /\ "complete" \notin signals /\ signals' = signals
            /\ promised' = {m \in Messages : result[m] = "ok"}
        BY <2>1 DEF TerminateStart, PipeInv, StageInv, Stages
      <3> QED
        BY <1>1, <1>3, <1>5, <3>1 DEF CountInv, Kept
    <2>2. CASE ~(\E k \in TermKinds : TerminateStart(k))
      <3>1. UNCHANGED promised
        BY <2>2 DEF Core, OnCanSend, NotifyGoroutine, NotifyWhenReady, SessionDown, CoreInterrupt,
           CoreClose, vars,
           Terminator, TerminateInterrupt, TerminateGraceful, TerminateTask,
           TerminateUngraceful, CloseSignal, TerminateAwaited, TerminateTimeout, DrainClose,
           DrainOne, DrainDone, TerminateFinish, termVars
      <3> QED
        BY <1>1, <1>3, <1>5, <3>1, KeptQuiet DEF CountInv
    <2> QED
      BY <2>1, <2>2
  <1> QED
    BY <1>2, <1>4, <1>6 DEF CountInv

(* When Terminate returns, the number in its IncompleteMessageDelivery     *)
(* error is the number of accepted messages no task completed, and an      *)
(* uninterrupted Terminate has tried every message whose publish had       *)
(* returned nil before it, whatever the capacity and the number of         *)
(* publishing goroutines.                                                  *)
THEOREM TerminateAccounts == Spec => []TerminateCountsUndelivered
  <1>1. Init => PipeInv /\ CountInv
    <2> SUFFICES ASSUME Init PROVE CountInv
      BY BoundInductive, StageInductive, OrderInductive DEF PipeInv
    <2>1. /\ Len(accepted) = 0 /\ Len(buffer) = 0 /\ Len(wire) = 0 /\ Unpopped = 0
          /\ Cardinality(errored) = 0 /\ Cardinality(undelivered) = 0
      BY FS_EmptySet DEF Init, Unpopped
    <2>2. /\ \A m \in Messages : result[m] = "none"
          /\ promised = {} /\ signals = {}
      BY DEF Init
    <2> QED
      BY <2>1, <2>2 DEF CountInv, Accounted, Returned, Kept
  <1>2. PipeInv /\ CountInv /\ [Next]_vars => PipeInv' /\ CountInv'
    <2>1. PipeInv /\ [Next]_vars => PipeInv'
      BY BoundInductive, StageInductive, OrderInductive DEF PipeInv, BoundInv
    <2>2. PipeInv /\ CountInv /\ [Next]_vars => CountInv'
      BY PublisherCount, RunCount, LoopCount, OtherCount DEF Next
    <2> QED
      BY <2>1, <2>2
  <1>3. PipeInv /\ CountInv => TerminateCountsUndelivered
    <2> SUFFICES ASSUME PipeInv, CountInv, state = "Terminated", termKind \in {"graceful", "timed"},
                        strategy # "direct"
                 PROVE  /\ Cardinality(undelivered) = Len(accepted) - Len(wire) - Cardinality(errored)
                        /\ Undisturbed =>
                              \A m \in promised : m \in errored \/ \E i \in DOMAIN wire : wire[i] = m
      BY DEF TerminateCountsUndelivered
    <2>1. termPC = "done" /\ buffer = <<>> /\ "complete" \in signals /\ runPC = "exited"
      BY DEF PipeInv, StageInv, Stages, SignalsOK, Closing
    <2>2. Unpopped = 0 /\ Len(buffer) = 0
      BY <2>1 DEF Unpopped, PipeInv, BoundInv, TypeInv, RunOK, TaskPCs
    <2>3. Cardinality(undelivered) = Len(accepted) - Len(wire) - Cardinality(errored)
      BY <2>2, Counts DEF CountInv, Accounted, PipeInv, BoundInv
    <2>4. Undisturbed => \A m \in promised : Tried(m)
      BY <2>1 DEF CountInv, Kept
    <2> QED
      BY <2>3, <2>4 DEF Tried, Among
  <1> QED
    BY <1>1, <1>2, <1>3, PTL DEF Spec
=============================================================================
