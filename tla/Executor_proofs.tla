-------------------------- MODULE Executor_proofs --------------------------
(***************************************************************************)
(* Executor's safety for any number of tasks and terminators and any first *)
(* channel size, and that it implements EventQueue.                        *)
(***************************************************************************)
EXTENDS Executor, TLAPS

PastCheck == {"chRLock", "try", "announce", "wlock"}

(* A Submit that has looked at closed holds stateLock until it returns ... *)
HoldsStateLock ==
    \A t \in Tasks : subPC[t] \in {"check"} \cup PastCheck => t \in stReaders

(* ... so the channel it will send on is still open. *)
ClosedOK ==
    /\ chanClosed = closed
    /\ \A t \in Tasks : subPC[t] \in PastCheck => ~closed

(* Run stops, and only then AwaitTermination returns, when the channel is  *)
(* closed and drained.                                                     *)
ExitOK ==
    /\ complete => runPC = "exited"
    /\ runPC = "exited" => closed /\ channel = <<>>
    /\ \A q \in Terminators : termPC[q] = "done" => complete

(* A task that was accepted is in the channel or has been taken. *)
In(t, s) == \E i \in DOMAIN s : s[i] = t
KeptOK == \A t \in Tasks : submitted[t] = "true" => In(t, channel) \/ In(t, taken)

Inv == TypeOK /\ HoldsStateLock /\ ClosedOK /\ ExitOK /\ KeptOK

-----------------------------------------------------------------------------
(* Appending to a sequence adds the new element and keeps the others. *)
LEMMA AppendIn ==
  ASSUME NEW S, NEW s \in Seq(S), NEW t \in S
  PROVE  /\ Append(s, t) \in Seq(S) /\ Len(Append(s, t)) = Len(s) + 1
         /\ In(t, Append(s, t))
         /\ \A u : In(u, s) => In(u, Append(s, t))
  <1>1. Append(s, t) \in Seq(S) /\ Len(Append(s, t)) = Len(s) + 1
    OBVIOUS
  <1>2. In(t, Append(s, t))
    BY DEF In
  <1>3. ASSUME NEW u, In(u, s) PROVE In(u, Append(s, t))
    <2>1. PICK i \in DOMAIN s : s[i] = u
      BY <1>3 DEF In
    <2>2. i \in DOMAIN Append(s, t) /\ Append(s, t)[i] = u
      BY <2>1
    <2> QED
      BY <2>2 DEF In
  <1> QED
    BY <1>1, <1>2, <1>3

(* An element of a sequence is its head or is in its tail. *)
LEMMA TailIn ==
  ASSUME NEW S, NEW s \in Seq(S), s # <<>>
  PROVE  /\ Head(s) \in S /\ Tail(s) \in Seq(S) /\ Len(Tail(s)) = Len(s) - 1
         /\ \A u : In(u, s) => u = Head(s) \/ In(u, Tail(s))
  <1>1. Head(s) \in S /\ Tail(s) \in Seq(S) /\ Len(Tail(s)) = Len(s) - 1
    OBVIOUS
  <1>2. ASSUME NEW u, In(u, s), u # Head(s) PROVE In(u, Tail(s))
    <2>1. PICK i \in DOMAIN s : s[i] = u
      BY <1>2 DEF In
    <2>2. i # 1 /\ i \in 1..Len(s)
      BY <1>2, <2>1
    <2>3. i - 1 \in DOMAIN Tail(s) /\ Tail(s)[i - 1] = u
      BY <2>1, <2>2
    <2> QED
      BY <2>3 DEF In
  <1> QED
    BY <1>1, <1>2

(* NewExecutor establishes the invariant. *)
LEMMA InitInv == Init => Inv
  <1> SUFFICES ASSUME Init PROVE Inv
    OBVIOUS
  <1>1. channel \in Seq(Tasks) /\ taken \in Seq(Tasks) /\ Len(channel) <= scale /\ scale \in Nat \ {0}
    BY ExecutorAssumption DEF Init
  <1>2. TypeOK
    BY <1>1 DEF Init, TypeOK, SubPCs
  <1>3. HoldsStateLock /\ ClosedOK /\ ExitOK /\ KeptOK
    BY DEF Init, HoldsStateLock, ClosedOK, ExitOK, KeptOK, PastCheck
  <1> QED
    BY <1>2, <1>3 DEF Inv

(* Every step of Submit keeps the invariant. *)
LEMMA SubmitInv == ASSUME Inv, NEW t \in Tasks, Submit(t) PROVE Inv'
  <1> USE ExecutorAssumption
          DEF Inv, TypeOK, SubPCs, HoldsStateLock, ClosedOK, ExitOK, KeptOK, PastCheck,
              queueVars, stVars, chVars, subVars, runVars
  <1>1. CASE SubmitLockState(t)
    BY <1>1 DEF SubmitLockState
  <1>2. CASE SubmitCheckClosed(t)
    BY <1>2 DEF SubmitCheckClosed, RefusesTask, Return
  <1>3. CASE SubmitLockChannel(t)
    BY <1>3 DEF SubmitLockChannel
  <1>4. CASE SubmitTry(t)
    <2>1. CASE HasRoom
      <3> DEFINE new == Append(channel, t)
      <3>1. new \in Seq(Tasks) /\ Len(new) = Len(channel) + 1 /\ In(t, new)
            /\ \A u : In(u, channel) => In(u, new)
        BY AppendIn
      <3>2. /\ channel' = new /\ stReaders' = stReaders \ {t} /\ chReaders' = chReaders \ {t}
            /\ subPC' = [subPC EXCEPT ![t] = "done"]
            /\ submitted' = [submitted EXCEPT ![t] = "true"]
            /\ subPC[t] = "try"
            /\ UNCHANGED <<chanClosed, scale, closed, stWriter, chWriter, termPC, runVars>>
        BY <1>4, <2>1 DEF SubmitTry, Return
      <3> HIDE DEF new
      <3>3. TypeOK'
        BY <3>1, <3>2, <2>1 DEF HasRoom
      <3>4. HoldsStateLock' /\ ClosedOK' /\ ExitOK'
        BY <3>2
      <3>5. KeptOK'
        BY <3>1, <3>2
      <3> QED
        BY <3>3, <3>4, <3>5
    <2>2. CASE ~HasRoom
      BY <1>4, <2>2 DEF SubmitTry
    <2> QED
      BY <2>1, <2>2
  <1>5. CASE SubmitAnnounceResize(t)
    BY <1>5 DEF SubmitAnnounceResize
  <1>6. CASE SubmitResize(t)
    <2> DEFINE new == Append(channel, t)
    <2>1. new \in Seq(Tasks) /\ Len(new) = Len(channel) + 1 /\ In(t, new)
          /\ \A u : In(u, channel) => In(u, new)
      BY AppendIn
    <2>2. /\ channel' = new /\ stReaders' = stReaders \ {t} /\ chWriter' = NoTask
          /\ subPC' = [subPC EXCEPT ![t] = "done"]
          /\ submitted' = [submitted EXCEPT ![t] = "true"]
          /\ subPC[t] = "wlock"
          /\ UNCHANGED <<chanClosed, closed, stWriter, chReaders, termPC, runVars>>
      BY <1>6 DEF SubmitResize, Return, Moved, UnlockChannel
    <2>3. scale' \in Nat \ {0} /\ Len(channel) + 1 <= scale'
      BY <1>6 DEF SubmitResize, HasRoom, scalingFactor
    <2> HIDE DEF new
    <2>4. TypeOK'
      BY <2>1, <2>2, <2>3
    <2>5. HoldsStateLock' /\ ClosedOK' /\ ExitOK'
      BY <2>2
    <2>6. KeptOK'
      BY <2>1, <2>2
    <2> QED
      BY <2>4, <2>5, <2>6
  <1> QED
    BY <1>1, <1>2, <1>3, <1>4, <1>5, <1>6 DEF Submit

(* Every step of Run keeps it. *)
LEMMA RunInv == ASSUME Inv, Run PROVE Inv'
  <1> USE ExecutorAssumption
          DEF Inv, TypeOK, SubPCs, HoldsStateLock, ClosedOK, ExitOK, KeptOK, PastCheck,
              queueVars, stVars, chVars, subVars, runVars
  <1>1. CASE RunLock
    BY <1>1 DEF RunLock
  <1>2. CASE RunReceive
    <2>1. Head(channel) \in Tasks /\ Tail(channel) \in Seq(Tasks)
          /\ Len(Tail(channel)) = Len(channel) - 1
          /\ \A u : In(u, channel) => u = Head(channel) \/ In(u, Tail(channel))
      BY <1>2, TailIn DEF RunReceive
    <2>2. taken' \in Seq(Tasks) /\ In(Head(channel), taken') /\ \A u : In(u, taken) => In(u, taken')
      BY <1>2, <2>1, AppendIn DEF RunReceive
    <2>3. TypeOK' /\ HoldsStateLock' /\ ClosedOK' /\ ExitOK'
      BY <1>2, <2>1, <2>2 DEF RunReceive
    <2>4. KeptOK'
      BY <1>2, <2>1, <2>2 DEF RunReceive
    <2> QED
      BY <2>3, <2>4
  <1>3. CASE RunExecute
    BY <1>3 DEF RunExecute
  <1>4. CASE RunExit
    BY <1>4 DEF RunExit, ChannelExhausted
  <1> QED
    BY <1>1, <1>2, <1>3, <1>4 DEF Run

(* Every step of AwaitTermination keeps it. *)
LEMMA TerminateInv == ASSUME Inv, NEW q \in Terminators, AwaitTermination(q) PROVE Inv'
  <1> USE ExecutorAssumption
          DEF Inv, TypeOK, SubPCs, HoldsStateLock, ClosedOK, ExitOK, KeptOK, PastCheck,
              queueVars, stVars, chVars, subVars, runVars
  <1>1. CASE TerminateAnnounce(q)
    BY <1>1 DEF TerminateAnnounce
  <1>2. CASE TerminateClose(q)
    BY <1>2 DEF TerminateClose, HardLocked, MayWrite
  <1>3. CASE TerminateAwaited(q)
    BY <1>3 DEF TerminateAwaited
  <1> QED
    BY <1>1, <1>2, <1>3 DEF AwaitTermination

-----------------------------------------------------------------------------
(* The invariant holds of every reachable state. *)
THEOREM Invariance == Spec => []Inv
  <1>1. ASSUME Inv, UNCHANGED vars PROVE Inv'
    BY <1>1 DEF vars, Inv, TypeOK, HoldsStateLock, ClosedOK, ExitOK, KeptOK,
                queueVars, stVars, chVars, subVars, runVars
  <1>2. Inv /\ [Next]_vars => Inv'
    BY <1>1, SubmitInv, RunInv, TerminateInv DEF Next
  <1> QED
    BY InitInv, <1>2, PTL DEF Spec

(* Every variable has its type; no channel ever holds more than it was     *)
(* made for, resized or not.                                               *)
THEOREM TypeCorrect == Spec => []TypeOK
  <1>1. Inv => TypeOK
    BY DEF Inv
  <1> QED
    BY Invariance, <1>1, PTL

(* Submit never sends on a closed channel. *)
THEOREM SendsOnOpenChannel == Spec => []NoSendOnClosedChannel
  <1>1. Inv => NoSendOnClosedChannel
    BY DEF Inv, ClosedOK, PastCheck, NoSendOnClosedChannel
  <1> QED
    BY Invariance, <1>1, PTL

(* AwaitTermination returns only once every accepted task has been run. *)
THEOREM AwaitsAllTasks == Spec => []AwaitTerminationWaitsForAll
  <1>1. Inv => AwaitTerminationWaitsForAll
    BY DEF Inv, ExitOK, KeptOK, In, AwaitTerminationWaitsForAll
  <1> QED
    BY Invariance, <1>1, PTL

-----------------------------------------------------------------------------
(* A step of the executor is a step of the queue it promises, or none. *)
LEMMA StepRefines == ASSUME Inv, [Next]_vars PROVE [Promise!EQNext]_(Promise!eqVars)
  <1> USE DEF Promise!EQNext, Promise!eqVars, queueVars, stVars, chVars, subVars, runVars
  <1>1. ASSUME NEW t \in Tasks, Submit(t)
        PROVE  Promise!EQAccept(t) \/ UNCHANGED Promise!eqVars
    <2>1. CASE SubmitTry(t) \/ SubmitResize(t)
      <3>1. ~closed
        BY <2>1 DEF Inv, ClosedOK, PastCheck, SubmitTry, SubmitResize
      <3> QED
        BY <2>1, <3>1 DEF SubmitTry, SubmitResize, Moved, Promise!EQAccept
    <2>2. CASE ~(SubmitTry(t) \/ SubmitResize(t))
      BY <1>1, <2>2 DEF Submit, SubmitLockState, SubmitCheckClosed, SubmitLockChannel,
                        SubmitAnnounceResize
    <2> QED
      BY <2>1, <2>2
  <1>2. ASSUME Run PROVE Promise!EQTake \/ Promise!EQStop \/ UNCHANGED Promise!eqVars
    BY <1>2 DEF Inv, ClosedOK, Run, RunLock, RunReceive, RunExecute, RunExit, ChannelExhausted,
                Promise!EQTake, Promise!EQStop
  <1>3. ASSUME NEW q \in Terminators, AwaitTermination(q)
        PROVE  Promise!EQClose \/ UNCHANGED Promise!eqVars
    BY <1>3 DEF AwaitTermination, TerminateAnnounce, TerminateClose, TerminateAwaited,
                Promise!EQClose
  <1>4. CASE UNCHANGED vars
    BY <1>4 DEF vars
  <1> QED
    BY <1>1, <1>2, <1>3, <1>4 DEF Next

(* The executor implements the first-in first-out queue of its interface:  *)
(* a resize neither loses, duplicates nor reorders tasks.                  *)
THEOREM Refinement == Spec => ImplementsEventQueue
  <1>1. Init => Promise!EQInit
    BY DEF Init, Promise!EQInit
  <1>2. Inv /\ [Next]_vars => [Promise!EQNext]_(Promise!eqVars)
    BY StepRefines
  <1> QED
    BY <1>1, <1>2, Invariance, PTL DEF Spec, ImplementsEventQueue, Promise!EQSpec
=============================================================================
