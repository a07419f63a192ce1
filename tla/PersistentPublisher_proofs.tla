---------------------- MODULE PersistentPublisher_proofs ----------------------
(***************************************************************************)
(* The safety properties of PersistentPublisher for any set of messages    *)
(* and any buffer size: ackHandler never closes a closed                   *)
(* correlationComplete when publishes go through the buffer, Terminate     *)
(* forgets no accepted message, and nil means that all are settled.        *)
(***************************************************************************)
EXTENDS PersistentPublisher, FiniteSetTheorems, TLAPS

(***************************************************************************)
(* The order that excludes a second close: the completion signal is asked  *)
(* for only once Run has ended, Run is what adds entries, and ackHandler   *)
(* signals on emptying the table, after which it finds nothing to resolve. *)
(***************************************************************************)
RunEnded ==
    /\ "terminateComplete" \in closed => runPC = "done"
    /\ Buffered /\ termPC = "request" => "terminateComplete" \in closed
    /\ Buffered /\ CompletionRequested => runPC = "done"

SignalledOnEmpty ==
    /\ completes \in Nat
    /\ Buffered /\ completes # 0 =>
          /\ completes = 1
          /\ CompletionRequested
          /\ correlationMap = {}
          /\ ackPC \in {"idle", "lookup"}

SignalInv == RunEnded /\ SignalledOnEmpty

(* What neither part mentions may change freely.                           *)
LEMMA Frame ==
    ASSUME SignalInv,
           UNCHANGED <<strategy, runPC, termPC, closed, correlationMap, completes, ackPC>>
    PROVE  SignalInv'
BY DEF SignalInv, RunEnded, SignalledOnEmpty, Buffered, CompletionRequested

(* A goroutine in publish adds a context only with direct back-pressure.   *)
LEMMA PublishKeeps ==
    ASSUME SignalInv, NEW m \in Messages, Publisher(m) \/ AwaitTimeout(m)
    PROVE  SignalInv'
<1>1. CASE PublishDirectAdd(m)
  BY <1>1 DEF PublishDirectAdd, SignalInv, RunEnded, SignalledOnEmpty, Buffered,
              CompletionRequested, setupVars, taskVars, ackVars, termVars
<1>2. CASE PublishDirectRemove(m)
  BY <1>2 DEF PublishDirectRemove, RemoveCorrelationContext, SignalInv, RunEnded,
              SignalledOnEmpty, Buffered, CompletionRequested, setupVars, taskVars,
              ackVars, termVars
<1>3. ASSUME ~PublishDirectAdd(m), ~PublishDirectRemove(m)
      PROVE  UNCHANGED <<strategy, runPC, termPC, closed, correlationMap, completes, ackPC>>
  BY <1>3 DEF Publisher, AwaitTimeout, PublishCheck, PublishDirectSend, PublishPush,
              PublishOverflow, PublishInterrupted, PublishSubmit, AwaitAcknowledgement,
              setupVars, taskVars, ackVars, termVars
<1>4. QED BY <1>1, <1>2, <1>3, Frame

(* Run adds contexts only while it is not done, that is before a signal.   *)
LEMMA RunKeeps ==
    ASSUME SignalInv, Run
    PROVE  SignalInv'
<1> USE DEF SignalInv, RunEnded, SignalledOnEmpty, Buffered, CompletionRequested,
            setupVars, ackVars, termVars
<1>1. CASE RunCheck BY <1>1 DEF RunCheck
<1>2. CASE RunTake BY <1>2 DEF RunTake
<1>3. CASE RunWait BY <1>3 DEF RunWait
<1>4. CASE RunComplete BY <1>4 DEF RunComplete
<1>5. CASE RunHandOver BY <1>5 DEF RunHandOver
<1>6. CASE TaskAdd BY <1>6 DEF TaskAdd, AddCorrelationContext
<1>7. CASE TaskPublishOk BY <1>7 DEF TaskPublishOk
<1>8. CASE TaskPublishFails BY <1>8 DEF TaskPublishFails
<1>9. CASE TaskAwait BY <1>9 DEF TaskAwait
<1>10. CASE TaskRemove BY <1>10 DEF TaskRemove, TaskDone, RemoveCorrelationContext
<1>11. CASE TaskReadFull BY <1>11 DEF TaskReadFull
<1>12. CASE TaskPop BY <1>12 DEF TaskPop, TaskDone
<1>13. CASE TaskFail BY <1>13 DEF TaskFail, RemoveCorrelationContext, AfterWithdrawal
<1>14. CASE TaskResolve BY <1>14 DEF TaskResolve
<1>15. CASE TaskSignal BY <1>15 DEF TaskSignal, TaskDone
<1>16. QED
  BY <1>1, <1>2, <1>3, <1>4, <1>5, <1>6, <1>7, <1>8, <1>9, <1>10, <1>11, <1>12, <1>13,
     <1>14, <1>15 DEF Run

(* ackHandler is in its last step only if nothing has been signalled yet.  *)
LEMMA AckKeeps ==
    ASSUME SignalInv, AckHandler \/ (\E m \in Messages : OnAcknowledgement(m))
    PROVE  SignalInv'
<1> USE DEF SignalInv, RunEnded, SignalledOnEmpty, Buffered, CompletionRequested,
            setupVars, taskVars, termVars
<1>1. CASE \E m \in Messages : OnAcknowledgement(m)
  BY <1>1 DEF OnAcknowledgement
<1>2. CASE AckLookup BY <1>2 DEF AckLookup
<1>3. CASE AckResolve BY <1>3 DEF AckResolve
<1>4. CASE AckDelete
  <2>1. UNCHANGED <<strategy, runPC, termPC, closed>> /\ ackPC' = "idle"
    BY <1>4 DEF AckDelete
  <2>2. Buffered => completes = 0
    BY <1>4 DEF AckDelete
  <2>3. completes' \in {completes, completes + 1}
    BY <1>4 DEF AckDelete
  <2>4. completes' # completes => CompletionRequested /\ correlationMap' = {}
    BY <1>4 DEF AckDelete, TableDrained
  <2>5. QED BY <2>1, <2>2, <2>3, <2>4
<1>5. QED BY <1>1, <1>2, <1>3, <1>4 DEF AckHandler

(* The terminator asks for the signal only after terminateComplete.        *)
LEMMA TerminatorKeeps ==
    ASSUME SignalInv, Terminator
    PROVE  SignalInv'
<1> USE DEF SignalInv, RunEnded, SignalledOnEmpty, Buffered, CompletionRequested,
            TerminatorAt, TerminatorFrame, setupVars, taskVars
<1>1. CASE TerminateStop BY <1>1 DEF TerminateStop
<1>2. CASE TerminateTasksDrained BY <1>2 DEF TerminateTasksDrained
<1>3. CASE TerminateTimeout BY <1>3 DEF TerminateTimeout
<1>4. CASE TerminateTask BY <1>4 DEF TerminateTask
<1>5. CASE TerminateUngraceful BY <1>5 DEF TerminateUngraceful
<1>6. CASE TerminateJoin BY <1>6 DEF TerminateJoin
<1>7. CASE TerminateRequest BY <1>7 DEF TerminateRequest
<1>8. CASE TerminateAcksComplete BY <1>8 DEF TerminateAcksComplete
<1>9. CASE TerminateDeregister BY <1>9 DEF TerminateDeregister
<1>10. CASE DrainQueueClose BY <1>10 DEF DrainQueueClose
<1>11. CASE DrainQueueOne BY <1>11 DEF DrainQueueOne
<1>12. CASE DrainQueueDone BY <1>12 DEF DrainQueueDone, AfterQueue
<1>13. CASE DrainAckTableLock BY <1>13 DEF DrainAckTableLock
<1>14. CASE (\E m \in Messages : DrainAckTableReach(m)) \/ DrainAckTableOne
  BY <1>14 DEF DrainAckTableReach, DrainAckTableOne
<1>15. CASE DrainAckTableDone BY <1>15 DEF DrainAckTableDone
<1>16. CASE TerminateFinish BY <1>16 DEF TerminateFinish
<1>17. QED
  BY <1>1, <1>2, <1>3, <1>4, <1>5, <1>6, <1>7, <1>8, <1>9, <1>10, <1>11, <1>12, <1>13,
     <1>14, <1>15, <1>16 DEF Terminator

(* The inductive invariant holds of every behaviour of the publisher.      *)
THEOREM Invariance == Spec => []SignalInv
<1>1. Init => SignalInv
  BY DEF Init, SignalInv, RunEnded, SignalledOnEmpty, Buffered, CompletionRequested
<1>2. ASSUME SignalInv, [Next]_vars PROVE SignalInv'
  <2>1. CASE UNCHANGED vars
    BY <1>2, <2>1, Frame DEF vars, setupVars, taskVars, ackVars, termVars
  <2>2. CASE \E m \in Messages : Publisher(m) \/ AwaitTimeout(m)
    BY <1>2, <2>2, PublishKeeps
  <2>3. CASE AckHandler \/ (\E m \in Messages : OnAcknowledgement(m))
    BY <1>2, <2>3, AckKeeps
  <2>4. CASE Run BY <1>2, <2>4, RunKeeps
  <2>5. CASE Terminator BY <1>2, <2>5, TerminatorKeeps
  <2>6. CASE OnCanSend \/ NotifyGoroutine \/ NotifyWhenReady
    BY <1>2, <2>6, Frame DEF OnCanSend, NotifyGoroutine, NotifyWhenReady, setupVars, taskVars,
       ackVars, termVars
  <2>7. CASE \E kind \in TermKinds : TerminateStart(kind)
    BY <1>2, <2>7 DEF TerminateStart, SignalInv, RunEnded, SignalledOnEmpty, Buffered,
                      CompletionRequested, setupVars, taskVars, ackVars
  <2>8. QED BY <1>2, <2>1, <2>2, <2>3, <2>4, <2>5, <2>6, <2>7 DEF Next
<1>3. QED BY <1>1, <1>2, PTL DEF Spec

(* Terminate and the session's callback thread agree on one completion     *)
(* signal: close(correlationComplete) never panics in a buffered publisher.*)
THEOREM SignalledOnce == Spec => []CompleteSignalledOnce
<1>1. SignalInv => CompleteSignalledOnce
  BY DEF SignalInv, SignalledOnEmpty, CompleteSignalledOnce
<1>2. QED BY <1>1, Invariance, PTL
-----------------------------------------------------------------------------
(***************************************************************************)
(* The shape of the publisher's state: what the sequences and the table    *)
(* hold.  Each message is pushed once, its task is submitted once, and     *)
(* bufferPublishLock admits one goroutine at a time.                       *)
(***************************************************************************)
Among(s, a) == \E i \in DOMAIN s : s[i] = a
Distinct(s) == \A i, j \in DOMAIN s : s[i] = s[j] => i = j
Submitted   == {"waiting", "ok", "timeout"}
HasTask     == runPC \notin {"check", "take", "block", "exit", "done"}

Types ==
    /\ pubPC \in [Messages -> PubPCs] /\ capacity \in Nat
    /\ buffer \in Seq(Messages) /\ Len(buffer) <= capacity /\ taskQ \in Seq(Messages)
    /\ correlationMap \subseteq Messages /\ inflight \subseteq Messages
    /\ verdicts \in [Messages -> Seq(Verdicts)] /\ discarded \in Nat
    /\ HasTask => task \in Messages
    /\ ackPC # "idle" => ackMsg \in Messages

Once ==
    /\ Distinct(buffer) /\ Distinct(taskQ)
    /\ \A m \in Messages : /\ Among(buffer, m) => Promised(m)
                           /\ Among(taskQ, m) => pubPC[m] \in Submitted
                           /\ HasTask /\ task = m => pubPC[m] \in Submitted /\ ~Among(taskQ, m)
    /\ \A m, n \in Messages : pubPC[m] = "pushed" /\ pubPC[n] = "pushed" => m = n

(* drainAckTable has counted the entry its range has reached, which stays  *)
(* in the table as long as correlationLock is held.                        *)
Reaching ==
    /\ (termPC = "idle") <=> (state = "Started")
    /\ reached # NoMsg => termPC = "drainAcks" /\ reached \in correlationMap /\ discarded > 0

ShapeInv == Types /\ Once /\ Reaching

(* What the terminator has reached moves only with the terminator.         *)
LEMMA ReachingKept ==
  ASSUME ShapeInv, [Next]_vars
  PROVE  Reaching'
  <1> USE DEF ShapeInv
  <1>1. CASE \E m \in Messages : DrainAckTableReach(m)
    BY <1>1 DEF DrainAckTableReach, UnackedCount, Reaching, Types
  <1>2. CASE Terminator /\ ~(\E m \in Messages : DrainAckTableReach(m))
    BY <1>2 DEF Terminator, TerminatorAt, TerminateStop, TerminateTasksDrained,
       TerminateTimeout, TerminateTask, TerminateUngraceful, TerminateJoin, TerminateRequest,
       TerminateAcksComplete, TerminateDeregister, DrainQueueClose, DrainQueueOne, DrainQueueDone,
       AfterQueue, DrainAckTableLock, DrainAckTableOne, DrainAckTableDone, TerminateFinish, Reaching
  <1>3. CASE \E kind \in TermKinds : TerminateStart(kind)
    BY <1>3 DEF TerminateStart, Reaching
  <1>4. CASE ~Terminator /\ ~(\E kind \in TermKinds : TerminateStart(kind))
    <2>1. UNCHANGED <<state, termPC, reached, discarded>>
      BY <1>4 DEF Next, Publisher, AwaitTimeout, PublishCheck, PublishDirectAdd,
         PublishDirectSend, PublishDirectRemove, PublishPush, PublishOverflow, PublishInterrupted,
         PublishSubmit, AwaitAcknowledgement, OnAcknowledgement, Run, RunCheck, RunTake, RunWait,
         RunComplete, RunHandOver, TaskAdd, TaskPublishOk, TaskPublishFails, TaskAwait, TaskRemove,
         TaskReadFull, TaskPop, TaskFail, TaskResolve, TaskSignal, AckHandler, AckLookup,
         AckResolve, AckDelete, OnCanSend, NotifyGoroutine, NotifyWhenReady, vars, termVars
    <2>2. termPC = "drainAcks" => UNCHANGED correlationMap
      BY <1>4 DEF Next, Publisher, AwaitTimeout, PublishCheck, PublishDirectAdd,
         PublishDirectSend, PublishDirectRemove, PublishPush, PublishOverflow, PublishInterrupted,
         PublishSubmit, AwaitAcknowledgement, OnAcknowledgement, Run, RunCheck, RunTake, RunWait,
         RunComplete, RunHandOver, TaskAdd, TaskPublishOk, TaskPublishFails, TaskAwait, TaskRemove,
         TaskReadFull, TaskPop, TaskFail, TaskResolve, TaskSignal, AckHandler, AckLookup,
         AckResolve, AckDelete, OnCanSend, NotifyGoroutine, NotifyWhenReady, vars,
         AddCorrelationContext, RemoveCorrelationContext, CorrelationUnlocked
    <2> QED
      BY <2>1, <2>2 DEF Reaching
  <1> QED
    BY <1>1, <1>2, <1>3, <1>4

(* Sending on a channel and receiving from it.                             *)
LEMMA ChannelFacts ==
  ASSUME NEW s \in Seq(Messages)
  PROVE  /\ Len(s) \in Nat /\ DOMAIN s = 1 .. Len(s)
         /\ \A a : Among(s, a) => a \in Messages
         /\ s # <<>> => /\ Head(s) \in Messages /\ Tail(s) \in Seq(Messages) /\ Head(s) = s[1]
                        /\ 1 \in DOMAIN s
                        /\ Len(Tail(s)) = Len(s) - 1 /\ Len(s) > 0
                        /\ \A i \in 1 .. (Len(s) - 1) : Tail(s)[i] = s[i + 1]
         /\ \A e \in Messages : /\ Append(s, e) \in Seq(Messages) /\ Len(Append(s, e)) = Len(s) + 1
                                /\ Append(s, e)[Len(s) + 1] = e
                                /\ \A i \in 1 .. Len(s) : Append(s, e)[i] = s[i]
  BY DEF Among

(* What is in a channel after a message is sent.                           *)
LEMMA SendSet ==
  ASSUME NEW s \in Seq(Messages), NEW e \in Messages
  PROVE  /\ \A a : Among(Append(s, e), a) <=> Among(s, a) \/ a = e
         /\ Distinct(s) /\ ~Among(s, e) => Distinct(Append(s, e))
  <1>1. /\ DOMAIN Append(s, e) = 1 .. (Len(s) + 1) /\ Len(s) \in Nat /\ DOMAIN s = 1 .. Len(s)
        /\ \A i \in DOMAIN s : i \in DOMAIN Append(s, e) /\ Append(s, e)[i] = s[i]
        /\ Len(s) + 1 \in DOMAIN Append(s, e) /\ Append(s, e)[Len(s) + 1] = e
    OBVIOUS
  <1>2. \A i \in DOMAIN Append(s, e) : \/ i \in DOMAIN s /\ Append(s, e)[i] = s[i]
                                       \/ i = Len(s) + 1 /\ Append(s, e)[i] = e
    BY <1>1
  <1>3. \A a : Among(Append(s, e), a) <=> Among(s, a) \/ a = e
    BY <1>1, <1>2 DEF Among
  <1>4. Distinct(s) /\ ~Among(s, e) => Distinct(Append(s, e))
    BY <1>2 DEF Distinct, Among
  <1> QED
    BY <1>3, <1>4

(* What is in a channel after its head is received.                        *)
LEMMA ReceiveSet ==
  ASSUME NEW s \in Seq(Messages), s # <<>>
  PROVE  /\ \A a : Among(s, a) <=> Among(Tail(s), a) \/ a = Head(s)
         /\ Among(s, Head(s))
         /\ Distinct(s) => Distinct(Tail(s)) /\ ~Among(Tail(s), Head(s))
  <1>1. /\ Len(s) \in Nat /\ Len(s) > 0 /\ DOMAIN s = 1 .. Len(s) /\ Head(s) = s[1]
        /\ DOMAIN Tail(s) = 1 .. (Len(s) - 1)
        /\ \A i \in 1 .. (Len(s) - 1) : Tail(s)[i] = s[i + 1]
    OBVIOUS
  <1>2. /\ 1 \in DOMAIN s
        /\ \A i \in DOMAIN Tail(s) : i + 1 \in DOMAIN s /\ Tail(s)[i] = s[i + 1] /\ 1 # i + 1
        /\ \A i \in DOMAIN s : i = 1 \/ (i - 1 \in DOMAIN Tail(s) /\ Tail(s)[i - 1] = s[i])
        /\ \A i, j \in DOMAIN Tail(s) : i + 1 = j + 1 => i = j
    BY <1>1
  <1>3. \A a : Among(s, a) <=> Among(Tail(s), a) \/ a = Head(s)
    <2>1. \A i \in DOMAIN s : s[i] = Head(s) \/ Among(Tail(s), s[i])
      BY <1>1, <1>2 DEF Among
    <2>2. \A i \in DOMAIN Tail(s) : Among(s, Tail(s)[i])
      BY <1>2 DEF Among
    <2>3. Among(s, Head(s))
      BY <1>1, <1>2 DEF Among
    <2> QED
      BY <2>1, <2>2, <2>3 DEF Among
  <1>4. Distinct(s) => Distinct(Tail(s)) /\ ~Among(Tail(s), Head(s))
    BY <1>1, <1>2 DEF Distinct, Among
  <1> QED
    BY <1>3, <1>4

(* Resolving a context appends to what the application was told about m,   *)
(* unless a receipt meets a closed executor.                               *)
LEMMA ResolveFacts ==
  ASSUME Types, NEW m \in Messages, NEW v \in Verdicts, Resolve(m, v)
  PROVE  /\ verdicts' \in [Messages -> Seq(Verdicts)]
         /\ \A n \in Messages : n # m => verdicts'[n] = verdicts[n]
         /\ verdicts'[m] \in {verdicts[m], Append(verdicts[m], v)}
         /\ "eventExecutor" \notin closed => verdicts'[m] = Append(verdicts[m], v)
  <1>1. verdicts \in [Messages -> Seq(Verdicts)] /\ Append(verdicts[m], v) \in Seq(Verdicts)
    BY DEF Types
  <1>2. \/ verdicts' = verdicts /\ "eventExecutor" \in closed
        \/ verdicts' = [verdicts EXCEPT ![m] = Append(verdicts[m], v)]
    BY DEF Resolve
  <1> QED
    BY <1>1, <1>2

(* publish keeps the shape.                                                *)
LEMMA PublisherShape ==
  ASSUME ShapeInv, NEW m \in Messages, Publisher(m) \/ AwaitTimeout(m)
  PROVE  Types' /\ Once'
  <1> USE DEF ShapeInv
  <1>1. /\ UNCHANGED <<capacity, runPC, task, ackPC, ackMsg, verdicts, discarded>>
        /\ pubPC \in [Messages -> PubPCs] /\ buffer \in Seq(Messages) /\ taskQ \in Seq(Messages)
    BY DEF Publisher, AwaitTimeout, PublishCheck, PublishDirectAdd, PublishDirectSend,
           PublishDirectRemove, PublishPush, PublishOverflow, PublishInterrupted, PublishSubmit,
           AwaitAcknowledgement, setupVars, taskVars, ackVars, tellVars, termVars, Types
  <1>2. UNCHANGED HasTask
    BY <1>1 DEF HasTask
  <1>3. correlationMap' \subseteq Messages /\ inflight' \subseteq Messages
    BY DEF Publisher, AwaitTimeout, PublishCheck, PublishDirectAdd, PublishDirectSend,
           PublishDirectRemove, PublishPush, PublishOverflow, PublishInterrupted, PublishSubmit,
           AwaitAcknowledgement, AddCorrelationContext, RemoveCorrelationContext, Types
  <1>4. CASE PublishPush(m)
    <2>1. /\ pubPC[m] = "checked" /\ BufferPublishUnlocked /\ HasSpace /\ UNCHANGED taskQ
          /\ buffer' = Append(buffer, m) /\ pubPC' = [pubPC EXCEPT ![m] = "pushed"]
      BY <1>4 DEF PublishPush, Goto
    <2>2. pubPC'[m] = "pushed" /\ \A n \in Messages : n # m => pubPC'[n] = pubPC[n]
      BY <1>1, <2>1
    <2>3. buffer' \in Seq(Messages) /\ Len(buffer') = Len(buffer) + 1
      BY <1>1, <2>1
    <2>4. Len(buffer') <= capacity
      BY <1>1, <2>1, <2>3 DEF HasSpace, Types
    <2>5. Types'
      BY <1>1, <1>2, <1>3, <2>1, <2>3, <2>4 DEF Types, PubPCs
    <2>6. ~Among(buffer, m) /\ ~Among(taskQ, m) /\ ~(HasTask /\ task = m)
      BY <2>1 DEF Once, Promised, Submitted
    <2>7. Distinct(buffer')
      BY <1>1, <2>1, <2>6, SendSet DEF Once
    <2>8. \A n \in Messages : /\ Among(buffer', n) => Promised(n)'
                              /\ Among(taskQ', n) => pubPC'[n] \in Submitted
                              /\ HasTask' /\ task' = n =>
                                    pubPC'[n] \in Submitted /\ ~Among(taskQ', n)
      <3>1. \A a : Among(buffer', a) => Among(buffer, a) \/ a = m
        BY <1>1, <2>1, SendSet
      <3> QED
        BY <1>1, <1>2, <2>1, <2>2, <2>6, <3>1 DEF Once, Promised
    <2>9. \A n, l \in Messages : pubPC'[n] = "pushed" /\ pubPC'[l] = "pushed" => n = l
      BY <2>1, <2>2 DEF BufferPublishUnlocked
    <2> QED
      BY <2>1, <2>5, <2>7, <2>8, <2>9 DEF Once
  <1>5. CASE PublishSubmit(m)
    <2>1. /\ pubPC[m] = "pushed" /\ taskQ' \in {taskQ, Append(taskQ, m)} /\ UNCHANGED buffer
          /\ pubPC' = [pubPC EXCEPT ![m] = Accepted(m)] /\ Accepted(m) \in {"waiting", "ok"}
      BY <1>5 DEF PublishSubmit, Goto, Accepted
    <2>2. pubPC'[m] = Accepted(m) /\ \A n \in Messages : n # m => pubPC'[n] = pubPC[n]
      BY <1>1, <2>1
    <2>3. taskQ' \in Seq(Messages)
      BY <1>1, <2>1, ChannelFacts
    <2>4. Types'
      BY <1>1, <1>2, <1>3, <2>1, <2>3 DEF Types, PubPCs
    <2>5. ~Among(taskQ, m) /\ ~(HasTask /\ task = m)
      BY <2>1 DEF Once, Submitted
    <2>6. Distinct(Append(taskQ, m)) /\ \A a : Among(Append(taskQ, m), a) => Among(taskQ, a) \/ a = m
      BY <1>1, <2>5, SendSet DEF Once
    <2>7. Distinct(taskQ') /\ \A a : Among(taskQ', a) => Among(taskQ, a) \/ a = m
      BY <2>1, <2>6 DEF Once
    <2>8. \A n \in Messages : /\ Among(buffer', n) => Promised(n)'
                              /\ Among(taskQ', n) => pubPC'[n] \in Submitted
                              /\ HasTask' /\ task' = n =>
                                    pubPC'[n] \in Submitted /\ ~Among(taskQ', n)
      BY <1>1, <1>2, <2>1, <2>2, <2>5, <2>7 DEF Once, Promised, Submitted
    <2>9. \A n, l \in Messages : pubPC'[n] = "pushed" /\ pubPC'[l] = "pushed" => n = l
      BY <2>1, <2>2 DEF Once
    <2> QED
      BY <2>1, <2>4, <2>7, <2>8, <2>9 DEF Once
  <1>6. CASE ~PublishPush(m) /\ ~PublishSubmit(m)
    <2>1. UNCHANGED <<buffer, taskQ>>
      BY <1>6 DEF Publisher, AwaitTimeout, PublishCheck, PublishDirectAdd, PublishDirectSend,
           PublishDirectRemove, PublishOverflow, PublishInterrupted, AwaitAcknowledgement, pipeVars
    <2>2. PICK x \in PubPCs : /\ pubPC' = [pubPC EXCEPT ![m] = x]
                              /\ pubPC[m] \in Submitted => x \in Submitted
                              /\ pubPC[m] # "pushed" /\ x # "pushed"
      BY <1>6 DEF Publisher, AwaitTimeout, PublishCheck, PublishDirectAdd, PublishDirectSend,
           PublishDirectRemove, PublishOverflow, PublishInterrupted, AwaitAcknowledgement, Goto,
           Accepted, PubPCs, Submitted
    <2>3. pubPC'[m] = x /\ \A n \in Messages : n # m => pubPC'[n] = pubPC[n]
      BY <1>1, <2>2
    <2>4. \A n \in Messages : /\ pubPC[n] \in Submitted => pubPC'[n] \in Submitted
                              /\ pubPC'[n] = "pushed" <=> pubPC[n] = "pushed"
      BY <2>2, <2>3
    <2>5. Types'
      BY <1>1, <1>2, <1>3, <2>1, <2>2 DEF Types
    <2>6. \A n \in Messages : Promised(n) => Promised(n)'
      BY <2>4 DEF Promised, Submitted
    <2> QED
      BY <1>1, <1>2, <2>1, <2>4, <2>5, <2>6 DEF Once
  <1> QED
    BY <1>4, <1>5, <1>6

(* Run and its tasks keep the shape.                                       *)
LEMMA RunShape ==
  ASSUME ShapeInv, Run
  PROVE  Types' /\ Once'
  <1> USE DEF ShapeInv
  <1>1. /\ UNCHANGED <<capacity, pubPC, ackPC, ackMsg, discarded>>
        /\ buffer \in Seq(Messages) /\ taskQ \in Seq(Messages) /\ Len(buffer) <= capacity
        /\ capacity \in Nat
    BY DEF Run, RunCheck, RunTake, RunWait, RunComplete, RunHandOver, TaskAdd, TaskPublishOk,
           TaskPublishFails, TaskAwait, TaskRemove, TaskReadFull, TaskPop, TaskFail, TaskResolve,
           TaskSignal, setupVars, ackVars, termVars, Types
  <1>2. correlationMap' \subseteq Messages /\ inflight' \subseteq Messages
    <2>1. CASE TaskAdd \/ TaskPublishOk
      BY <2>1 DEF TaskAdd, AddCorrelationContext, TaskPublishOk, Types, HasTask
    <2>2. CASE TaskRemove \/ TaskFail
      BY <2>2 DEF TaskRemove, TaskFail, RemoveCorrelationContext, Types
    <2>3. CASE ~TaskAdd /\ ~TaskPublishOk /\ ~TaskRemove /\ ~TaskFail
      BY <2>3 DEF Run, RunCheck, RunTake, RunWait, RunComplete, RunHandOver, TaskPublishFails,
           TaskAwait, TaskReadFull, TaskPop, TaskResolve, TaskSignal, Types
    <2> QED
      BY <2>1, <2>2, <2>3
  <1>3. verdicts' \in [Messages -> Seq(Verdicts)]
    <2>1. CASE TaskResolve
      BY <2>1, ResolveFacts DEF TaskResolve, Types, HasTask, Verdicts
    <2>2. CASE ~TaskResolve
      BY <2>2 DEF Run, RunCheck, RunTake, RunWait, RunComplete, RunHandOver, TaskAdd, TaskPublishOk,
           TaskPublishFails, TaskAwait, TaskRemove, TaskReadFull, TaskPop, TaskFail, TaskSignal,
           tellVars, Types
    <2> QED
      BY <2>1, <2>2
  <1>4. CASE RunTake
    <2>1. /\ taskQ # <<>> /\ task' = Head(taskQ) /\ taskQ' = Tail(taskQ) /\ UNCHANGED buffer
          /\ runPC' = "held"
      BY <1>4 DEF RunTake
    <2>2. taskQ' \in Seq(Messages) /\ task' \in Messages /\ task' = taskQ[1] /\ 1 \in DOMAIN taskQ
      BY <1>1, <2>1
    <2>3. Distinct(taskQ') /\ ~Among(taskQ', task')
      BY <1>1, <2>1, ReceiveSet DEF Once
    <2>4. \A a : Among(taskQ', a) \/ a = task' => Among(taskQ, a)
      BY <1>1, <2>1, ReceiveSet
    <2>5. Types'
      BY <1>1, <1>2, <1>3, <2>1, <2>2 DEF Types
    <2> QED
      BY <1>1, <2>1, <2>3, <2>4, <2>5 DEF Once, Promised
  <1>5. CASE ~RunTake
    <2>1. /\ UNCHANGED taskQ
          /\ buffer' = buffer \/ (buffer # <<>> /\ buffer' = Tail(buffer))
          /\ HasTask' => HasTask /\ UNCHANGED task
      BY <1>5 DEF Run, RunCheck, RunWait, RunComplete, RunHandOver, TaskAdd, TaskPublishOk,
           TaskPublishFails, TaskAwait, TaskRemove, TaskReadFull, TaskPop, TaskFail, TaskResolve,
           TaskSignal, TaskDone, AfterWithdrawal, pipeVars, HasTask
    <2>2. buffer' \in Seq(Messages) /\ Len(buffer') <= capacity
      BY <1>1, <2>1, ChannelFacts
    <2>3. Distinct(buffer') /\ \A a : Among(buffer', a) => Among(buffer, a)
      BY <1>1, <2>1, ReceiveSet DEF Once
    <2>4. \A n \in Messages : Promised(n) => Promised(n)'
      BY <1>1 DEF Promised
    <2>5. Types'
      BY <1>1, <1>2, <1>3, <2>1, <2>2 DEF Types
    <2> QED
      BY <1>1, <2>1, <2>3, <2>4, <2>5 DEF Once
  <1> QED
    BY <1>4, <1>5

(* The ack handler, the events and the terminator keep the shape.          *)
LEMMA OtherShape ==
  ASSUME ShapeInv,
         \/ AckHandler \/ (\E m \in Messages : OnAcknowledgement(m)) \/ OnCanSend \/ NotifyGoroutine \/ NotifyWhenReady
         \/ Terminator \/ (\E kind \in TermKinds : TerminateStart(kind)) \/ UNCHANGED vars
  PROVE  Types' /\ Once'
  <1> USE DEF ShapeInv
  <1>1. /\ UNCHANGED <<capacity, pubPC, taskQ, runPC, task>>
        /\ buffer \in Seq(Messages) /\ taskQ \in Seq(Messages) /\ Len(buffer) <= capacity
        /\ capacity \in Nat
    BY DEF AckHandler, OnAcknowledgement, AckLookup, AckResolve, AckDelete, OnCanSend,
       NotifyGoroutine, NotifyWhenReady,
           Terminator, TerminatorAt, TerminatorFrame, TerminateStop, TerminateTasksDrained,
           TerminateTimeout,
           TerminateTask, TerminateUngraceful, TerminateJoin, TerminateRequest, TerminateAcksComplete,
           TerminateDeregister, DrainQueueClose, DrainQueueOne, DrainQueueDone, DrainAckTableLock,
           DrainAckTableReach, DrainAckTableOne, DrainAckTableDone, TerminateFinish,
           TerminateStart, vars, setupVars,
           pipeVars, taskVars, Types
  <1>2. UNCHANGED HasTask
    BY <1>1 DEF HasTask
  <1>3. CASE DrainQueueOne
    <2>1. /\ buffer # <<>> /\ buffer' = Tail(buffer) /\ Resolve(Head(buffer), "terminated")
          /\ discarded' = discarded + 1 /\ UNCHANGED <<correlationMap, inflight, ackPC, ackMsg>>
      BY <1>3 DEF DrainQueueOne, TerminatorAt, TerminatorFrame
    <2>2. buffer' \in Seq(Messages) /\ Len(buffer') <= capacity /\ Head(buffer) \in Messages
      BY <1>1, <2>1, ChannelFacts
    <2>3. verdicts' \in [Messages -> Seq(Verdicts)]
      BY <2>1, <2>2, ResolveFacts DEF Verdicts
    <2>4. Types'
      BY <1>1, <1>2, <2>1, <2>2, <2>3 DEF Types
    <2>5. Distinct(buffer') /\ \A a : Among(buffer', a) => Among(buffer, a)
      BY <1>1, <2>1, ReceiveSet DEF Once
    <2>6. \A n \in Messages : Promised(n) => Promised(n)'
      BY <1>1 DEF Promised
    <2> QED
      BY <1>1, <1>2, <2>4, <2>5, <2>6 DEF Once
  <1>4. CASE ~DrainQueueOne
    <2>1. UNCHANGED buffer
      BY <1>4 DEF AckHandler, OnAcknowledgement, AckLookup, AckResolve, AckDelete, OnCanSend,
           NotifyGoroutine, NotifyWhenReady, Terminator, TerminatorAt, TerminatorFrame,
           TerminateStop, TerminateTasksDrained,
           TerminateTimeout, TerminateTask, TerminateUngraceful, TerminateJoin, TerminateRequest,
           TerminateAcksComplete, TerminateDeregister, DrainQueueClose, DrainQueueDone,
           DrainAckTableLock, DrainAckTableReach, DrainAckTableOne, DrainAckTableDone,
           TerminateFinish, TerminateStart,
           vars, pipeVars
    <2>2. Types'
      <3>1. CASE AckResolve
        <4>1. verdicts' \in [Messages -> Seq(Verdicts)]
          BY <3>1, ResolveFacts DEF AckResolve, Types, Verdicts
        <4> QED
          BY <1>1, <1>2, <2>1, <3>1, <4>1 DEF AckResolve, Types, termVars
      <3>2. CASE DrainAckTableOne
        <4>1. reached \in Messages
          BY <3>2 DEF DrainAckTableOne, Reaching, Types
        <4>2. verdicts' \in [Messages -> Seq(Verdicts)]
          BY <3>2, <4>1, ResolveFacts DEF DrainAckTableOne, Verdicts
        <4> QED
          BY <1>1, <1>2, <2>1, <3>2, <4>2 DEF DrainAckTableOne, TerminatorFrame, Types
      <3>3. CASE ~AckResolve /\ ~DrainAckTableOne
        <4>1. /\ UNCHANGED verdicts /\ discarded' \in Nat /\ correlationMap' \subseteq Messages
              /\ inflight' \subseteq Messages /\ (ackPC' # "idle" => ackMsg' \in Messages)
          BY <1>4, <3>3 DEF AckHandler, OnAcknowledgement, AckLookup, AckDelete, OnCanSend,
           RemoveCorrelationContext, DrainAckTableReach, UnackedCount, NotifyGoroutine,
           NotifyWhenReady, Terminator, TerminatorAt, TerminatorFrame, TerminateStop,
           TerminateTasksDrained,
           TerminateTimeout, TerminateTask, TerminateUngraceful, TerminateJoin, TerminateRequest,
           TerminateAcksComplete, TerminateDeregister, DrainQueueClose, DrainQueueDone,
           DrainAckTableLock, DrainAckTableDone, TerminateFinish, TerminateStart,
           vars, tellVars, ackVars, termVars, Types
        <4> QED
          BY <1>1, <1>2, <2>1, <4>1 DEF Types
      <3> QED
        BY <3>1, <3>2, <3>3
    <2> QED
      BY <1>1, <1>2, <2>1, <2>2 DEF Once, Promised
  <1> QED
    BY <1>3, <1>4

(* The shape is inductive.                                                 *)
LEMMA ShapeInductive ==
    /\ Init => ShapeInv
    /\ ShapeInv /\ [Next]_vars => ShapeInv'
  <1>1. Init => ShapeInv
    <2> SUFFICES ASSUME Init PROVE ShapeInv
      OBVIOUS
    <2>1. /\ buffer \in Seq(Messages) /\ Len(buffer) = 0 /\ taskQ \in Seq(Messages)
          /\ DOMAIN buffer = {} /\ DOMAIN taskQ = {} /\ <<>> \in Seq(Verdicts)
      BY DEF Init
    <2>2. capacity \in Nat
      BY PersistentPublisherAssumption DEF Init
    <2>3. ~HasTask /\ ackPC = "idle"
      BY DEF Init, HasTask
    <2>4. Types
      BY <2>1, <2>2, <2>3 DEF Init, Types, PubPCs
    <2>5. Once
      BY <2>1, <2>3 DEF Init, Once, Distinct, Among
    <2>6. Reaching
      BY DEF Init, Reaching
    <2> QED
      BY <2>4, <2>5, <2>6 DEF ShapeInv
  <1>2. ShapeInv /\ [Next]_vars => ShapeInv'
    BY PublisherShape, RunShape, OtherShape, ReachingKept DEF Next, ShapeInv
  <1> QED
    BY <1>1, <1>2

-----------------------------------------------------------------------------
(***************************************************************************)
(* The stages of termination: what has been closed, stopped and drained    *)
(* when the terminator has reached a step.                                 *)
(***************************************************************************)
Lasting  == termKind # "down"
Cleared  == {"lockAcks", "drainAcks", "executor", "done"}
Ending   == {"drainQueue"} \cup Cleared
Late     == {"request", "awaitAcks", "deregister", "close"} \cup Ending

Begun ==
    /\ (termPC = "idle") <=> (state = "Started")
    /\ (termPC = "done") <=> (state = "Terminated")
    /\ "eventExecutor" \in closed => termPC = "done"
    /\ state = "Started" => Lasting /\ raced = {}
    /\ state # "Started" =>
          \A m \in Messages : pubPC[m] \in {"checked", "added", "wouldblock", "remove"} => m \in raced

Paths ==
    /\ Buffered => \A m \in Messages : pubPC[m] \notin {"added", "wouldblock", "remove"}
    /\ ~Buffered => /\ runPC = "done" /\ buffer = <<>> /\ taskQ = <<>>
                    /\ \A m \in Messages : pubPC[m] # "pushed"

(* A task is interrupted only by a terminator whose grace period is over.  *)
Interrupts ==
    /\ "terminateUngraceful" \in closed \/ termPC \in {"ungraceful", "join"} \/ runPC = "remove" =>
          "terminateTask" \in closed
    /\ runPC = "exit" => "terminateUngraceful" \in closed
    /\ Lasting /\ graceful => /\ "terminateTask" \notin closed
                              /\ termPC \notin {"task", "ungraceful", "join"}
    /\ termPC \in {"awaitTasks", "join", "request", "awaitAcks", "deregister"} => Lasting
    /\ ~Lasting /\ Buffered /\ termPC \in {"ungraceful", "close"} \cup Ending =>
          "terminateTask" \in closed

Drained ==
    /\ Buffered /\ termPC \in Ending => "buffer" \in closed
    /\ Buffered /\ termPC \in Cleared => buffer = <<>>
    /\ Buffered /\ Lasting /\ termPC \in Late => runPC = "done"

StageInv == Begun /\ Paths /\ Interrupts /\ Drained

(* publish takes no part in termination.                                   *)
LEMMA PublisherStage ==
  ASSUME ShapeInv, StageInv, NEW m \in Messages, Publisher(m) \/ AwaitTimeout(m)
  PROVE  StageInv'
  <1>1. /\ UNCHANGED <<strategy, runPC, state, termPC, termKind, graceful, raced, closed>>
        /\ pubPC \in [Messages -> PubPCs]
    BY DEF Publisher, AwaitTimeout, PublishCheck, PublishDirectAdd, PublishDirectSend,
           PublishDirectRemove, PublishPush, PublishOverflow, PublishInterrupted, PublishSubmit,
           AwaitAcknowledgement, setupVars, taskVars, termVars, ShapeInv, Types
  <1>2. Interrupts'
    BY <1>1 DEF StageInv, Interrupts, Lasting, Buffered
  <1>3. PICK x : /\ pubPC' = [pubPC EXCEPT ![m] = x]
                 /\ x = "checked" => state = "Started"
                 /\ x \in {"added", "wouldblock", "remove"} =>
                       /\ ~Buffered \/ pubPC[m] \in {"added", "wouldblock", "remove"}
                       /\ pubPC[m] \in {"checked", "added", "wouldblock", "remove"}
                 /\ x = "pushed" => Buffered
    BY DEF Publisher, AwaitTimeout, PublishCheck, PublishDirectAdd, PublishDirectSend,
           PublishDirectRemove, PublishPush, PublishOverflow, PublishInterrupted, PublishSubmit,
           AwaitAcknowledgement, Goto, Accepted
  <1>4. pubPC'[m] = x /\ \A n \in Messages : n # m => pubPC'[n] = pubPC[n]
    BY <1>1, <1>3
  <1>5. Begun'
    BY <1>1, <1>3, <1>4 DEF StageInv, Begun, Lasting
  <1>6. /\ buffer' # buffer => Buffered /\ "buffer" \notin closed
        /\ taskQ' # taskQ => pubPC[m] = "pushed"
    BY DEF Publisher, AwaitTimeout, PublishCheck, PublishDirectAdd, PublishDirectSend,
           PublishDirectRemove, PublishPush, PublishOverflow, PublishInterrupted, PublishSubmit,
           AwaitAcknowledgement, pipeVars
  <1>7. Paths'
    BY <1>1, <1>3, <1>4, <1>6 DEF StageInv, Paths, Buffered
  <1>8. Drained'
    BY <1>1, <1>6 DEF StageInv, Drained, Lasting, Buffered, Ending, Late
  <1> QED
    BY <1>2, <1>5, <1>7, <1>8 DEF StageInv

(* Run stays ended, and gives up a task only when told to.                 *)
LEMMA RunStage ==
  ASSUME ShapeInv, StageInv, Run
  PROVE  StageInv'
  <1>1. UNCHANGED <<strategy, pubPC, state, termPC, termKind, graceful, raced>>
    BY DEF Run, RunCheck, RunTake, RunWait, RunComplete, RunHandOver, TaskAdd, TaskPublishOk,
           TaskPublishFails, TaskAwait, TaskRemove, TaskReadFull, TaskPop, TaskFail, TaskResolve,
           TaskSignal, setupVars, termVars
  <1>2. /\ runPC # "done"
        /\ closed' = closed \/ closed' = closed \cup {"terminateComplete"}
        /\ runPC' = "remove" => "terminateTask" \in closed
        /\ runPC' = "exit" => "terminateUngraceful" \in closed
        /\ buffer = <<>> => buffer' = <<>>
    BY DEF Run, RunCheck, RunTake, RunWait, RunComplete, RunHandOver, TaskAdd, TaskPublishOk,
           TaskPublishFails, TaskAwait, TaskRemove, TaskReadFull, TaskPop, TaskFail, TaskResolve,
           TaskSignal, TaskDone, AfterWithdrawal, pipeVars
  <1>3. Begun'
    BY <1>1, <1>2 DEF StageInv, Begun, Lasting
  <1>4. Paths'
    BY <1>1, <1>2 DEF StageInv, Paths, Buffered
  <1>5. Interrupts'
    BY <1>1, <1>2 DEF StageInv, Interrupts, Lasting, Buffered
  <1>6. Drained'
    BY <1>1, <1>2 DEF StageInv, Drained, Lasting, Buffered
  <1> QED
    BY <1>3, <1>4, <1>5, <1>6 DEF StageInv

(* Neither do acknowledgements and events take part in it.                 *)
LEMMA EventStage ==
  ASSUME StageInv,
         \/ AckHandler \/ (\E m \in Messages : OnAcknowledgement(m)) \/ OnCanSend \/ NotifyGoroutine \/ NotifyWhenReady
         \/ UNCHANGED vars
  PROVE  StageInv'
  <1>1. UNCHANGED <<strategy, pubPC, buffer, taskQ, runPC, state, termPC, termKind, graceful, raced, closed>>
    BY DEF AckHandler, OnAcknowledgement, AckLookup, AckResolve, AckDelete, OnCanSend,
       NotifyGoroutine, NotifyWhenReady,
           vars, setupVars, pipeVars, taskVars, termVars
  <1> QED
    BY <1>1 DEF StageInv, Begun, Paths, Interrupts, Drained, Lasting, Buffered

(* The terminator takes its steps in order.                                *)
LEMMA TerminatorStage ==
  ASSUME SignalInv, StageInv, Terminator \/ (\E kind \in TermKinds : TerminateStart(kind))
  PROVE  StageInv'
  <1> USE DEF Lasting, Buffered, Cleared, Ending, Late
  <1>1. UNCHANGED <<strategy, pubPC, taskQ, runPC>>
    BY DEF Terminator, TerminatorAt, TerminatorFrame, TerminateStop, TerminateTasksDrained,
       TerminateTimeout,
           TerminateTask, TerminateUngraceful, TerminateJoin, TerminateRequest, TerminateAcksComplete,
           TerminateDeregister, DrainQueueClose, DrainQueueOne, DrainQueueDone, DrainAckTableLock,
           DrainAckTableReach, DrainAckTableOne, DrainAckTableDone, TerminateFinish,
           TerminateStart, setupVars, pipeVars,
           taskVars
  <1>2. buffer = <<>> => buffer' = <<>>
    BY DEF Terminator, TerminatorAt, TerminatorFrame, TerminateStop, TerminateTasksDrained,
       TerminateTimeout,
           TerminateTask, TerminateUngraceful, TerminateJoin, TerminateRequest, TerminateAcksComplete,
           TerminateDeregister, DrainQueueClose, DrainQueueOne, DrainQueueDone, DrainAckTableLock,
           DrainAckTableReach, DrainAckTableOne, DrainAckTableDone, TerminateFinish,
           TerminateStart, pipeVars
  <1>3. Paths'
    BY <1>1, <1>2 DEF StageInv, Paths
  <1>4. CASE \E kind \in TermKinds : TerminateStart(kind)
    <2>1. /\ state = "Started" /\ state' = "Terminating" /\ termPC' = "stop"
          /\ raced' = {m \in Messages : pubPC[m] \in {"checked", "added", "wouldblock", "remove"}}
          /\ UNCHANGED <<closed, graceful, buffer>>
      BY <1>4 DEF TerminateStart, pipeVars
    <2>2. Begun'
      BY <1>1, <2>1 DEF StageInv, Begun
    <2>3. Interrupts' /\ Drained'
      BY <1>1, <2>1 DEF StageInv, Begun, Interrupts, Drained
    <2> QED
      BY <1>3, <2>2, <2>3 DEF StageInv
  <1>5. CASE Terminator
    <2>1. UNCHANGED <<termKind, raced>>
      BY <1>5 DEF Terminator, TerminatorAt, TerminatorFrame, TerminateStop, TerminateTasksDrained,
         TerminateTimeout,
           TerminateTask, TerminateUngraceful, TerminateJoin, TerminateRequest, TerminateAcksComplete,
           TerminateDeregister, DrainQueueClose, DrainQueueOne, DrainQueueDone, DrainAckTableLock,
           DrainAckTableReach, DrainAckTableOne, DrainAckTableDone, TerminateFinish
    <2>2. CASE TerminateFinish
      <3>1. /\ termPC = "executor" /\ termPC' = "done" /\ state' = "Terminated"
            /\ closed' = closed \cup {"eventExecutor"} /\ UNCHANGED <<buffer, graceful>>
        BY <2>2 DEF TerminateFinish, TerminatorAt, TerminatorFrame
      <3> QED
        BY <1>1, <1>3, <2>1, <3>1 DEF StageInv, Begun, Interrupts, Drained
    <2>3. CASE ~TerminateFinish
      <3>1. /\ UNCHANGED state /\ termPC \notin {"idle", "done"} /\ termPC' \notin {"idle", "done"}
            /\ "eventExecutor" \in closed' => "eventExecutor" \in closed
        BY <1>5, <2>3 DEF Terminator, TerminatorAt, TerminatorFrame, TerminateStop,
           TerminateTasksDrained,
           TerminateTimeout, TerminateTask, TerminateUngraceful, TerminateJoin, TerminateRequest,
           TerminateAcksComplete, TerminateDeregister, DrainQueueClose, DrainQueueOne, DrainQueueDone,
           AfterQueue, DrainAckTableLock, DrainAckTableReach, DrainAckTableOne, DrainAckTableDone
      <3>2. Begun'
        BY <1>1, <2>1, <3>1 DEF StageInv, Begun
      <3>3. Interrupts' /\ Drained'
        <4> USE DEF StageInv, Interrupts, Drained, SignalInv, RunEnded
        <4>1. CASE TerminateStop
          BY <1>1, <2>1, <4>1 DEF TerminateStop, TerminatorAt, TerminatorFrame
        <4>2. CASE TerminateTasksDrained \/ TerminateJoin
          BY <1>1, <2>1, <4>2 DEF TerminateTasksDrained, TerminateJoin, TerminatorAt, TerminatorFrame
        <4>3. CASE TerminateTimeout
          BY <1>1, <2>1, <4>3 DEF TerminateTimeout, TerminatorAt, TerminatorFrame
        <4>4. CASE TerminateTask
          BY <1>1, <2>1, <4>4 DEF TerminateTask, TerminatorAt, TerminatorFrame
        <4>5. CASE TerminateUngraceful
          BY <1>1, <2>1, <4>5 DEF TerminateUngraceful, TerminatorAt, TerminatorFrame
        <4>6. CASE TerminateRequest \/ TerminateAcksComplete
          BY <1>1, <2>1, <4>6 DEF TerminateRequest, TerminateAcksComplete, TerminatorAt, TerminatorFrame
        <4>7. CASE TerminateDeregister \/ DrainQueueClose
          BY <1>1, <2>1, <4>7 DEF TerminateDeregister, DrainQueueClose, TerminatorAt, TerminatorFrame
        <4>8. CASE DrainQueueOne \/ DrainQueueDone
          BY <1>1, <1>2, <2>1, <4>8 DEF DrainQueueOne, DrainQueueDone, AfterQueue, TerminatorAt,
             TerminatorFrame
        <4>9. CASE \/ DrainAckTableLock \/ DrainAckTableDone
                   \/ DrainAckTableOne \/ \E m \in Messages : DrainAckTableReach(m)
          BY <1>1, <2>1, <4>9 DEF DrainAckTableLock, DrainAckTableDone, DrainAckTableReach,
             DrainAckTableOne, TerminatorAt, TerminatorFrame
        <4> QED
          BY <1>5, <2>3, <4>1, <4>2, <4>3, <4>4, <4>5, <4>6, <4>7, <4>8, <4>9 DEF Terminator
      <3> QED
        BY <1>3, <3>2, <3>3 DEF StageInv
    <2> QED
      BY <2>2, <2>3
  <1> QED
    BY <1>4, <1>5

(* The stages are inductive.                                               *)
LEMMA StageInductive ==
    /\ Init => StageInv
    /\ SignalInv /\ ShapeInv /\ StageInv /\ [Next]_vars => StageInv'
  <1>1. Init => StageInv
    <2> SUFFICES ASSUME Init PROVE StageInv
      OBVIOUS
    <2>1. Begun /\ Interrupts /\ Drained
      BY DEF Init, Begun, Interrupts, Drained, Lasting, Cleared, Ending, Late
    <2>2. Paths
      BY DEF Init, Paths, Buffered
    <2> QED
      BY <2>1, <2>2 DEF StageInv
  <1>2. SignalInv /\ ShapeInv /\ StageInv /\ [Next]_vars => StageInv'
    BY PublisherStage, RunStage, EventStage, TerminatorStage DEF Next
  <1> QED
    BY <1>1, <1>2
-----------------------------------------------------------------------------
(***************************************************************************)
(* What the application hears about a message.  An outcome comes from the  *)
(* broker's acknowledgement or from the failed send; "terminated" comes    *)
(* from drainQueue and drainAckTable.  A message that has not been sent,   *)
(* or whose acknowledgement is still to come, has no outcome yet.          *)
(***************************************************************************)
Outcome(s) == \E i \in DOMAIN s : s[i] # "terminated"
GaveUp(s)  == \E i \in DOMAIN s : s[i] = "terminated"
Single(s)  == \A i, j \in DOMAIN s : s[i] # "terminated" /\ s[j] # "terminated" => i = j

Unsent(m) ==
    \/ pubPC[m] \in {"idle", "checked", "added", "pushed"} \/ Among(taskQ, m)
    \/ /\ task = m
       /\ \/ runPC \in {"held", "add", "publish", "await", "remove", "fail", "resolve"}
          \/ failed /\ runPC \in {"full", "pop"}

Handling(m) == ackMsg = m /\ ackPC \in {"lookup", "resolve"}
Flying(m)   == m \in inflight \/ Handling(m)

OutcomeOf(m) ==
    /\ Unsent(m) => ~Flying(m) /\ ~Outcome(verdicts[m])
    /\ Flying(m) => ~Outcome(verdicts[m])
    /\ m \in inflight => ~Handling(m)
    /\ Single(verdicts[m])

OneOutcome == \A m \in Messages : OutcomeOf(m)

(* Nobody is told "terminated" before, or without, the count of it.        *)
GivenUpLate == \A m \in Messages : GaveUp(verdicts[m]) => discarded > 0 /\ termPC \in Ending

(* What appending a verdict does to the sequence of them.                  *)
LEMMA VerdictFacts ==
  ASSUME NEW s \in Seq(Verdicts), NEW v \in Verdicts
  PROVE  /\ Outcome(Append(s, v)) => Outcome(s) \/ v # "terminated"
         /\ GaveUp(Append(s, v)) => GaveUp(s) \/ v = "terminated"
         /\ Single(s) /\ (v = "terminated" \/ ~Outcome(s)) => Single(Append(s, v))
         /\ Len(s) \in Nat /\ Len(Append(s, v)) = Len(s) + 1 /\ Append(s, v) # <<>>
  <1>1. /\ Len(s) \in Nat /\ Len(Append(s, v)) = Len(s) + 1 /\ Append(s, v) # <<>>
    OBVIOUS
  <1>2. \A i \in DOMAIN Append(s, v) : \/ i \in DOMAIN s /\ Append(s, v)[i] = s[i]
                                       \/ i = Len(s) + 1 /\ Append(s, v)[i] = v
    OBVIOUS
  <1>3. /\ Outcome(Append(s, v)) => Outcome(s) \/ v # "terminated"
        /\ GaveUp(Append(s, v)) => GaveUp(s) \/ v = "terminated"
    BY <1>2 DEF Outcome, GaveUp
  <1>4. Single(s) /\ (v = "terminated" \/ ~Outcome(s)) => Single(Append(s, v))
    BY <1>2 DEF Single, Outcome
  <1> QED
    BY <1>1, <1>3, <1>4

(* What resolving a context does to what the application knows.            *)
LEMMA ResolveTells ==
  ASSUME Types, NEW m \in Messages, NEW v \in Verdicts, Resolve(m, v)
  PROVE  /\ \A n \in Messages : n # m => verdicts'[n] = verdicts[n]
         /\ Outcome(verdicts'[m]) => Outcome(verdicts[m]) \/ v # "terminated"
         /\ GaveUp(verdicts'[m]) => GaveUp(verdicts[m]) \/ v = "terminated"
         /\ Single(verdicts[m]) /\ (v = "terminated" \/ ~Outcome(verdicts[m])) => Single(verdicts'[m])
         /\ verdicts[m] # <<>> => verdicts'[m] # <<>>
         /\ "eventExecutor" \notin closed =>
               verdicts'[m] # <<>> /\ Len(verdicts'[m]) = Len(verdicts[m]) + 1
  <1>1. verdicts[m] \in Seq(Verdicts)
    BY DEF Types
  <1>2. /\ \A n \in Messages : n # m => verdicts'[n] = verdicts[n]
        /\ verdicts'[m] \in {verdicts[m], Append(verdicts[m], v)}
        /\ "eventExecutor" \notin closed => verdicts'[m] = Append(verdicts[m], v)
    BY ResolveFacts
  <1>3. CASE verdicts'[m] = verdicts[m] /\ "eventExecutor" \in closed
    BY <1>2, <1>3
  <1>4. CASE verdicts'[m] = Append(verdicts[m], v)
    BY <1>1, <1>2, <1>4, VerdictFacts
  <1> QED
    BY <1>2, <1>3, <1>4

(* A step that tells nobody anything keeps OutcomeOf(m) if m is not unsent *)
(* or flying after it that was not before, or was sent in it.              *)
LEMMA QuietOutcome ==
  ASSUME NEW m \in Messages, OutcomeOf(m), verdicts'[m] = verdicts[m],
         Unsent(m)' => Unsent(m) /\ (Flying(m)' => Flying(m)),
         Flying(m)' => Flying(m) \/ Unsent(m),
         ~(m \in inflight' /\ Handling(m)')
  PROVE  OutcomeOf(m)'
  BY DEF OutcomeOf

(* publish sends a message that was unsent.                                *)
LEMMA PublisherOutcome ==
  ASSUME ShapeInv, OneOutcome, NEW m \in Messages, Publisher(m) \/ AwaitTimeout(m)
  PROVE  OneOutcome'
  <1>1. /\ UNCHANGED <<runPC, task, failed, ackPC, ackMsg, verdicts>>
        /\ pubPC \in [Messages -> PubPCs] /\ taskQ \in Seq(Messages)
    BY DEF Publisher, AwaitTimeout, PublishCheck, PublishDirectAdd, PublishDirectSend,
           PublishDirectRemove, PublishPush, PublishOverflow, PublishInterrupted, PublishSubmit,
           AwaitAcknowledgement, taskVars, ackVars, tellVars, ShapeInv, Types
  <1>2. \A n \in Messages : Handling(n)' <=> Handling(n)
    BY <1>1 DEF Handling
  <1>3. CASE PublishDirectSend(m)
    <2>1. /\ pubPC[m] = "added" /\ UNCHANGED taskQ
          /\ \/ inflight' = inflight \cup {m} /\ pubPC' = [pubPC EXCEPT ![m] = Accepted(m)]
             \/ inflight' = inflight /\ pubPC' = [pubPC EXCEPT ![m] = "remove"]
             \/ inflight' = inflight /\ pubPC' = [pubPC EXCEPT ![m] = "wouldblock"]
          /\ Accepted(m) \in {"waiting", "ok"}
      BY <1>3 DEF PublishDirectSend, Goto, Accepted, pipeVars
    <2>2. \A n \in Messages : n # m => pubPC'[n] = pubPC[n] /\ (n \in inflight' <=> n \in inflight)
      BY <1>1, <2>1
    <2>3. \A n \in Messages : n # m => OutcomeOf(n)'
      BY <1>1, <1>2, <2>1, <2>2 DEF OneOutcome, OutcomeOf, Unsent, Flying
    <2>4. Unsent(m) /\ ~Flying(m)
      BY <2>1 DEF Unsent, OneOutcome, OutcomeOf
    <2>5. ~Among(taskQ, m) /\ ~(HasTask /\ task = m)
      BY <2>1 DEF ShapeInv, Once, Submitted
    <2>6. pubPC'[m] \in {"waiting", "ok", "wouldblock", "remove"}
      BY <1>1, <2>1
    <2>7. ~Unsent(m)'
      BY <1>1, <2>1, <2>5, <2>6 DEF Unsent, HasTask
    <2>8. OutcomeOf(m)'
      BY <1>1, <1>2, <2>4, <2>7, QuietOutcome DEF OneOutcome, Flying
    <2> QED
      BY <2>3, <2>8 DEF OneOutcome
  <1>4. CASE ~PublishDirectSend(m)
    <2>1. /\ UNCHANGED inflight
          /\ \/ UNCHANGED taskQ
             \/ pubPC[m] = "pushed" /\ taskQ' = Append(taskQ, m)
      BY <1>4 DEF Publisher, AwaitTimeout, PublishCheck, PublishDirectAdd,
           PublishDirectRemove, PublishPush, PublishOverflow, PublishInterrupted, PublishSubmit,
           AwaitAcknowledgement, pipeVars
    <2>2. PICK x : /\ pubPC' = [pubPC EXCEPT ![m] = x]
                   /\ x \in {"idle", "checked", "added", "pushed"} =>
                         pubPC[m] \in {"idle", "checked", "added", "pushed"}
      BY <1>4 DEF Publisher, AwaitTimeout, PublishCheck, PublishDirectAdd,
           PublishDirectRemove, PublishPush, PublishOverflow, PublishInterrupted, PublishSubmit,
           AwaitAcknowledgement, Goto, Accepted
    <2>3. pubPC'[m] = x /\ \A n \in Messages : n # m => pubPC'[n] = pubPC[n]
      BY <1>1, <2>2
    <2>4. \A n \in Messages : Among(taskQ', n) => Among(taskQ, n) \/ (n = m /\ pubPC[m] = "pushed")
      BY <1>1, <2>1, SendSet
    <2>5. \A n \in Messages : Unsent(n)' => Unsent(n)
      BY <1>1, <2>2, <2>3, <2>4 DEF Unsent
    <2>6. \A n \in Messages : Flying(n)' <=> Flying(n)
      BY <1>2, <2>1 DEF Flying
    <2> QED
      BY <1>1, <1>2, <2>1, <2>5, <2>6 DEF OneOutcome, OutcomeOf
  <1> QED
    BY <1>3, <1>4

(* A task sends its own message, which was unsent, or resolves the context *)
(* of one it failed to send.                                               *)
LEMMA RunOutcome ==
  ASSUME ShapeInv, OneOutcome, Run
  PROVE  OneOutcome'
  <1>1. UNCHANGED <<pubPC, ackPC, ackMsg>> /\ taskQ \in Seq(Messages)
    BY DEF Run, RunCheck, RunTake, RunWait, RunComplete, RunHandOver, TaskAdd, TaskPublishOk,
           TaskPublishFails, TaskAwait, TaskRemove, TaskReadFull, TaskPop, TaskFail, TaskResolve,
           TaskSignal, ackVars, ShapeInv, Types
  <1>2. \A n \in Messages : Handling(n)' <=> Handling(n)
    BY <1>1 DEF Handling
  <1>3. CASE TaskPublishOk
    <2>1. /\ runPC = "publish" /\ runPC' = "full" /\ failed' = FALSE
          /\ inflight' = inflight \cup {task} /\ UNCHANGED <<taskQ, task, verdicts>>
      BY <1>3 DEF TaskPublishOk, pipeVars, tellVars
    <2>2. \A n \in Messages : n # task => OutcomeOf(n)'
      BY <1>1, <1>2, <2>1 DEF OneOutcome, OutcomeOf, Unsent, Flying
    <2>3. task \in Messages /\ pubPC[task] \in Submitted /\ ~Among(taskQ, task)
      BY <2>1 DEF ShapeInv, Types, Once, HasTask
    <2>4. \A n \in Messages : n = task => /\ Unsent(n) /\ ~Flying(n) /\ ~Unsent(n)'
      BY <1>1, <2>1, <2>3 DEF Unsent, OneOutcome, OutcomeOf, Submitted
    <2>5. \A n \in Messages : n = task => OutcomeOf(n)'
      BY <1>2, <2>1, <2>4 DEF OneOutcome, OutcomeOf, Flying
    <2> QED
      BY <2>2, <2>5 DEF OneOutcome
  <1>4. CASE TaskResolve
    <2>1. /\ runPC = "resolve" /\ runPC' = "signal" /\ Resolve(task, "refused")
          /\ UNCHANGED <<taskQ, task, failed, inflight>>
      BY <1>4 DEF TaskResolve, pipeVars
    <2>2. task \in Messages /\ pubPC[task] \in Submitted /\ ~Among(taskQ, task)
      BY <2>1 DEF ShapeInv, Types, Once, HasTask
    <2>3. /\ \A n \in Messages : n # task => verdicts'[n] = verdicts[n]
          /\ Single(verdicts[task]) /\ ~Outcome(verdicts[task]) => Single(verdicts'[task])
      BY <2>1, <2>2, ResolveTells DEF ShapeInv, Verdicts
    <2>4. \A n \in Messages : n # task => OutcomeOf(n)'
      BY <1>1, <1>2, <2>1, <2>3 DEF OneOutcome, OutcomeOf, Unsent, Flying
    <2>5. \A n \in Messages : n = task => Unsent(n) /\ ~Flying(n) /\ ~Unsent(n)'
      BY <1>1, <2>1, <2>2 DEF Unsent, OneOutcome, OutcomeOf, Submitted
    <2>6. \A n \in Messages : n = task => OutcomeOf(n)'
      BY <1>2, <2>1, <2>3, <2>5 DEF OneOutcome, OutcomeOf, Flying
    <2> QED
      BY <2>4, <2>6 DEF OneOutcome
  <1>5. CASE RunTake
    <2>1. /\ taskQ # <<>> /\ task' = Head(taskQ) /\ taskQ' = Tail(taskQ)
          /\ runPC' = "held" /\ UNCHANGED <<verdicts, inflight>>
      BY <1>5 DEF RunTake, tellVars
    <2>2. \A a : Among(taskQ', a) \/ a = task' => Among(taskQ, a)
      BY <1>1, <2>1, ReceiveSet
    <2>3. \A n \in Messages : Unsent(n)' => Unsent(n)
      BY <1>1, <2>1, <2>2 DEF Unsent
    <2> QED
      BY <1>2, <2>1, <2>3 DEF OneOutcome, OutcomeOf, Flying
  <1>6. CASE ~TaskPublishOk /\ ~TaskResolve /\ ~RunTake
    <2>1. UNCHANGED <<taskQ, verdicts, inflight>>
      BY <1>6 DEF Run, RunCheck, RunWait, RunComplete, RunHandOver, TaskAdd, TaskPublishFails,
           TaskAwait, TaskRemove, TaskReadFull, TaskPop, TaskFail, TaskSignal, pipeVars, tellVars
    <2>2. \A n \in Messages : Unsent(n)' => Unsent(n)
      <3>1. CASE runPC' \in {"check", "take", "block", "exit", "done", "signal"}
        BY <1>1, <2>1, <3>1 DEF Unsent
      <3>2. CASE runPC' \notin {"check", "take", "block", "exit", "done", "signal"}
        <4>1. /\ UNCHANGED task
              /\ \/ runPC \in {"held", "add", "publish", "await", "remove", "fail", "resolve"}
                 \/ /\ runPC \in {"full", "pop"} /\ UNCHANGED failed
                    /\ runPC' \in {"full", "pop"} \/ failed
          BY <1>6, <3>2 DEF Run, RunCheck, RunWait, RunComplete, RunHandOver, TaskAdd, TaskPublishFails,
           TaskAwait, TaskRemove, TaskReadFull, TaskPop, TaskFail, TaskSignal, TaskDone, SendFailed
        <4> QED
          BY <1>1, <2>1, <4>1 DEF Unsent
      <3> QED
        BY <3>1, <3>2
    <2> QED
      BY <1>2, <2>1, <2>2 DEF OneOutcome, OutcomeOf, Flying
  <1> QED
    BY <1>3, <1>4, <1>5, <1>6

(* The acknowledgement that is being handled is the one that was flying.   *)
LEMMA AckOutcome ==
  ASSUME ShapeInv, OneOutcome, AckHandler \/ (\E m \in Messages : OnAcknowledgement(m))
  PROVE  OneOutcome'
  <1>1. UNCHANGED <<pubPC, taskQ, task, runPC, failed>>
    BY DEF AckHandler, OnAcknowledgement, AckLookup, AckResolve, AckDelete, pipeVars, taskVars
  <1>2. \A n \in Messages : Unsent(n)' <=> Unsent(n)
    BY <1>1 DEF Unsent
  <1>3. CASE \E m \in Messages : OnAcknowledgement(m)
    <2>1. PICK m \in Messages : OnAcknowledgement(m)
      BY <1>3
    <2>2. /\ m \in inflight /\ inflight' = inflight \ {m} /\ UNCHANGED verdicts /\ ackPC = "idle"
          /\ \/ ackPC' = "lookup" /\ ackMsg' = m
             \/ ackPC' = "idle"
      BY <2>1 DEF OnAcknowledgement, tellVars
    <2> QED
      BY <1>2, <2>2 DEF OneOutcome, OutcomeOf, Flying, Handling
  <1>4. CASE AckResolve
    <2>1. /\ ackPC = "resolve" /\ ackPC' = "delete" /\ Resolve(ackMsg, "acked")
          /\ UNCHANGED <<inflight, ackMsg>> /\ ackMsg \in Messages
      BY <1>4 DEF AckResolve, ShapeInv, Types
    <2>2. /\ \A n \in Messages : n # ackMsg => verdicts'[n] = verdicts[n]
          /\ Single(verdicts[ackMsg]) /\ ~Outcome(verdicts[ackMsg]) => Single(verdicts'[ackMsg])
      BY <2>1, ResolveTells DEF ShapeInv, Verdicts
    <2> QED
      BY <1>2, <2>1, <2>2 DEF OneOutcome, OutcomeOf, Flying, Handling
  <1>5. CASE AckLookup \/ AckDelete
    <2>1. /\ UNCHANGED <<inflight, verdicts>>
          /\ \/ ackPC' = "idle"
             \/ ackPC = "lookup" /\ ackPC' = "resolve" /\ UNCHANGED ackMsg
      BY <1>5 DEF AckLookup, AckDelete, tellVars
    <2> QED
      BY <1>2, <2>1 DEF OneOutcome, OutcomeOf, Flying, Handling
  <1> QED
    BY <1>3, <1>4, <1>5 DEF AckHandler

(* The terminator brings no outcome.                                       *)
LEMMA TerminatorOutcome ==
  ASSUME ShapeInv, OneOutcome,
         \/ Terminator \/ (\E kind \in TermKinds : TerminateStart(kind))
         \/ OnCanSend \/ NotifyGoroutine \/ NotifyWhenReady \/ UNCHANGED vars
  PROVE  OneOutcome'
  <1>1. UNCHANGED <<pubPC, taskQ, task, runPC, failed, ackPC, ackMsg, inflight>>
    BY DEF OnCanSend, NotifyGoroutine, NotifyWhenReady,
           Terminator, TerminatorAt, TerminatorFrame, TerminateStop, TerminateTasksDrained,
           TerminateTimeout,
           TerminateTask, TerminateUngraceful, TerminateJoin, TerminateRequest, TerminateAcksComplete,
           TerminateDeregister, DrainQueueClose, DrainQueueOne, DrainQueueDone, DrainAckTableLock,
           DrainAckTableReach, DrainAckTableOne, DrainAckTableDone, TerminateFinish,
           TerminateStart, vars,
           pipeVars, taskVars, ackVars
  <1>2. \A n \in Messages : (Unsent(n)' <=> Unsent(n)) /\ (Handling(n)' <=> Handling(n))
    BY <1>1 DEF Unsent, Handling
  <1>3. \A n \in Messages : /\ Outcome(verdicts'[n]) => Outcome(verdicts[n])
                            /\ Single(verdicts[n]) => Single(verdicts'[n])
    <2>1. CASE DrainQueueOne
      <3>1. Head(buffer) \in Messages /\ Resolve(Head(buffer), "terminated")
        BY <2>1, ChannelFacts DEF DrainQueueOne, ShapeInv, Types
      <3> QED
        BY <3>1, ResolveTells DEF ShapeInv, Verdicts
    <2>2. CASE DrainAckTableOne
      <3>1. PICK m \in Messages : Resolve(m, "terminated")
        BY <2>2 DEF DrainAckTableOne, ShapeInv, Reaching, Types
      <3> QED
        BY <3>1, ResolveTells DEF ShapeInv, Verdicts
    <2>3. CASE ~DrainQueueOne /\ ~DrainAckTableOne
      <3>1. UNCHANGED verdicts
        BY <2>3 DEF OnCanSend, NotifyGoroutine, NotifyWhenReady,
           Terminator, TerminatorAt, TerminatorFrame, TerminateStop, TerminateTasksDrained,
           TerminateTimeout,
           TerminateTask, TerminateUngraceful, TerminateJoin, TerminateRequest, TerminateAcksComplete,
           TerminateDeregister, DrainQueueClose, DrainQueueDone, DrainAckTableLock,
           DrainAckTableReach, DrainAckTableDone, TerminateFinish, TerminateStart, vars, tellVars
      <3> QED
        BY <3>1
    <2> QED
      BY <2>1, <2>2, <2>3
  <1> QED
    BY <1>1, <1>2, <1>3 DEF OneOutcome, OutcomeOf, Flying

(* One outcome at most is inductive.                                       *)
LEMMA OutcomeInductive ==
    /\ Init => OneOutcome
    /\ ShapeInv /\ OneOutcome /\ [Next]_vars => OneOutcome'
  <1>1. Init => OneOutcome
    BY DEF Init, OneOutcome, OutcomeOf, Flying, Handling, Outcome, Single
  <1>2. ShapeInv /\ OneOutcome /\ [Next]_vars => OneOutcome'
    BY PublisherOutcome, RunOutcome, AckOutcome, TerminatorOutcome DEF Next
  <1> QED
    BY <1>1, <1>2

(* drainQueue and drainAckTable count what they give up.                   *)
LEMMA GivenUpInductive ==
    /\ Init => GivenUpLate
    /\ ShapeInv /\ StageInv /\ GivenUpLate /\ [Next]_vars => GivenUpLate'
  <1>1. Init => GivenUpLate
    BY DEF Init, GivenUpLate, GaveUp
  <1>2. ASSUME ShapeInv, StageInv, GivenUpLate, [Next]_vars PROVE GivenUpLate'
    <2>1. CASE Terminator
      <3>1. discarded \in Nat /\ (termPC \in Ending => termPC' \in Ending)
        BY <1>2, <2>1 DEF Terminator, TerminatorAt, TerminatorFrame, TerminateStop,
           TerminateTasksDrained,
           TerminateTimeout, TerminateTask, TerminateUngraceful, TerminateJoin, TerminateRequest,
           TerminateAcksComplete, TerminateDeregister, DrainQueueClose, DrainQueueOne,
           DrainQueueDone, AfterQueue, DrainAckTableLock, DrainAckTableReach, DrainAckTableOne,
           DrainAckTableDone,
           TerminateFinish, Ending, Cleared, ShapeInv, Types
      <3>2. CASE DrainQueueOne
        <4>1. Head(buffer) \in Messages /\ Resolve(Head(buffer), "terminated")
          BY <1>2, <3>2, ChannelFacts DEF DrainQueueOne, ShapeInv, Types
        <4>2. discarded' > 0 /\ termPC' \in Ending
          BY <3>1, <3>2 DEF DrainQueueOne, TerminatorAt, TerminatorFrame, Ending
        <4> QED
          BY <4>2 DEF GivenUpLate
      <3>3. CASE DrainAckTableOne
        <4>1. discarded' > 0 /\ termPC' \in Ending
          BY <1>2, <3>1, <3>3 DEF DrainAckTableOne, ShapeInv, Reaching, Ending, Cleared
        <4> QED
          BY <4>1 DEF GivenUpLate
      <3>4. CASE ~DrainQueueOne /\ ~DrainAckTableOne
        <4>1. UNCHANGED verdicts /\ discarded' \in {discarded, discarded + 1}
          BY <2>1, <3>4 DEF Terminator, TerminateStop, TerminateTasksDrained,
           TerminateTimeout, TerminateTask, TerminateUngraceful, TerminateJoin, TerminateRequest,
           TerminateAcksComplete, TerminateDeregister, DrainQueueClose, DrainQueueDone,
           DrainAckTableLock, DrainAckTableReach, UnackedCount, DrainAckTableDone,
           TerminateFinish, tellVars
        <4> QED
          BY <1>2, <3>1, <4>1 DEF GivenUpLate
      <3> QED
        BY <3>2, <3>3, <3>4
    <2>2. CASE \E kind \in TermKinds : TerminateStart(kind)
      <3>1. UNCHANGED verdicts /\ termPC = "idle"
        BY <1>2, <2>2 DEF TerminateStart, tellVars, StageInv, Begun
      <3> QED
        BY <1>2, <3>1 DEF GivenUpLate, Ending, Cleared
    <2>3. CASE ~Terminator /\ ~(\E kind \in TermKinds : TerminateStart(kind))
      <3>1. UNCHANGED <<discarded, termPC>>
        BY <1>2, <2>3 DEF Next, Publisher, AwaitTimeout, PublishCheck, PublishDirectAdd,
           PublishDirectSend, PublishDirectRemove, PublishPush, PublishOverflow, PublishInterrupted,
           PublishSubmit, AwaitAcknowledgement, OnAcknowledgement, Run, RunCheck, RunTake, RunWait,
           RunComplete, RunHandOver, TaskAdd, TaskPublishOk, TaskPublishFails, TaskAwait, TaskRemove,
           TaskReadFull, TaskPop, TaskFail, TaskResolve, TaskSignal, AckHandler, AckLookup,
           AckResolve, AckDelete, OnCanSend, NotifyGoroutine, NotifyWhenReady, vars, termVars
      <3>2. \A m \in Messages : GaveUp(verdicts'[m]) => GaveUp(verdicts[m])
        <4>1. CASE AckResolve
          <5>1. ackMsg \in Messages /\ Resolve(ackMsg, "acked")
            BY <1>2, <4>1 DEF AckResolve, ShapeInv, Types
          <5> QED
            BY <1>2, <5>1, ResolveTells DEF ShapeInv, Verdicts
        <4>2. CASE TaskResolve
          <5>1. task \in Messages /\ Resolve(task, "refused")
            BY <1>2, <4>2 DEF TaskResolve, ShapeInv, Types, HasTask
          <5> QED
            BY <1>2, <5>1, ResolveTells DEF ShapeInv, Verdicts
        <4>3. CASE ~AckResolve /\ ~TaskResolve
          <5>1. UNCHANGED verdicts
            BY <1>2, <2>3, <4>3 DEF Next, Publisher, AwaitTimeout, PublishCheck, PublishDirectAdd,
           PublishDirectSend, PublishDirectRemove, PublishPush, PublishOverflow, PublishInterrupted,
           PublishSubmit, AwaitAcknowledgement, OnAcknowledgement, Run, RunCheck, RunTake, RunWait,
           RunComplete, RunHandOver, TaskAdd, TaskPublishOk, TaskPublishFails, TaskAwait, TaskRemove,
           TaskReadFull, TaskPop, TaskFail, TaskSignal, AckHandler, AckLookup, AckDelete, OnCanSend,
           NotifyGoroutine, NotifyWhenReady, vars, tellVars
          <5> QED
            BY <5>1
        <4> QED
          BY <4>1, <4>2, <4>3
      <3> QED
        BY <1>2, <3>1, <3>2 DEF GivenUpLate
    <2> QED
      BY <2>1, <2>2, <2>3
  <1> QED
    BY <1>1, <1>2

-----------------------------------------------------------------------------
(***************************************************************************)
(* Until a grace period runs out, buffer holds the message of the task in  *)
(* execution, those of the tasks in the task buffer and the one whose      *)
(* Submit has not returned, in that order: a task pops its own message.    *)
(***************************************************************************)
Executing == runPC \in {"held", "add", "publish", "await", "remove", "full", "pop"}
Running   == IF Executing THEN 1 ELSE 0
Pushing   == IF \E m \in Messages : pubPC[m] = "pushed" THEN 1 ELSE 0

Match ==
    /\ Len(buffer) = Running + Len(taskQ) + Pushing
    /\ Executing => buffer[1] = task
    /\ \A i \in DOMAIN taskQ : buffer[Running + i] = taskQ[i]
    /\ \A m \in Messages : pubPC[m] = "pushed" => buffer[Len(buffer)] = m

InStep ==
    "terminateTask" \notin closed => ~mispopped /\ (runPC # "done" => Match)

(* Steps that leave both channels alone.                                   *)
LEMMA MatchQuiet ==
  ASSUME Match, UNCHANGED <<buffer, taskQ>>, Executing' <=> Executing,
         Executing => UNCHANGED task,
         \A m \in Messages : pubPC'[m] = "pushed" <=> pubPC[m] = "pushed"
  PROVE  Match'
  <1>1. Running' = Running
    BY DEF Running
  <1>2. Pushing' = Pushing
    BY DEF Pushing
  <1> QED
    BY <1>1, <1>2 DEF Match

(* publish appends to both channels, buffer first.                         *)
LEMMA PublisherMatch ==
  ASSUME SignalInv, ShapeInv, Match, runPC # "done",
         NEW m \in Messages, Publisher(m) \/ AwaitTimeout(m)
  PROVE  Match'
  <1>1. /\ UNCHANGED <<runPC, task, capacity>> /\ capacity \in Nat /\ Len(buffer) <= capacity
        /\ pubPC \in [Messages -> PubPCs] /\ taskQ \in Seq(Messages) /\ buffer \in Seq(Messages)
    BY DEF Publisher, AwaitTimeout, PublishCheck, PublishDirectAdd, PublishDirectSend,
           PublishDirectRemove, PublishPush, PublishOverflow, PublishInterrupted, PublishSubmit,
           AwaitAcknowledgement, taskVars, setupVars, ShapeInv, Types
  <1>2. UNCHANGED <<Executing, Running>> /\ Running \in {0, 1}
    BY <1>1 DEF Executing, Running
  <1>3. CASE PublishPush(m)
    <2>1. /\ BufferPublishUnlocked /\ buffer' = Append(buffer, m) /\ UNCHANGED taskQ
          /\ pubPC' = [pubPC EXCEPT ![m] = "pushed"]
      BY <1>3 DEF PublishPush, Goto
    <2>2. pubPC'[m] = "pushed" /\ \A n \in Messages : n # m => pubPC'[n] # "pushed"
      BY <1>1, <2>1 DEF BufferPublishUnlocked
    <2>3. Pushing = 0 /\ Pushing' = 1
      BY <2>1, <2>2 DEF Pushing, BufferPublishUnlocked
    <2>4. /\ Len(buffer) = Running + Len(taskQ) /\ Len(taskQ) \in Nat /\ Len(buffer) \in Nat
          /\ DOMAIN taskQ = 1 .. Len(taskQ)
      BY <1>1, <1>2, <2>3 DEF Match
    <2>5. /\ Len(buffer') = Len(buffer) + 1 /\ buffer'[Len(buffer) + 1] = m
          /\ \A i \in 1 .. Len(buffer) : buffer'[i] = buffer[i]
      BY <1>1, <2>1, ChannelFacts
    <2>6. Len(buffer') = Running' + Len(taskQ') + Pushing'
      BY <1>2, <2>1, <2>3, <2>4, <2>5
    <2>7. Executing' => buffer'[1] = task'
      BY <1>1, <1>2, <2>4, <2>5 DEF Match, Running
    <2>8. \A i \in DOMAIN taskQ' : buffer'[Running' + i] = taskQ'[i]
      <3>1. \A i \in DOMAIN taskQ : Running + i \in 1 .. Len(buffer)
        BY <1>2, <2>4
      <3> QED
        BY <1>2, <2>1, <2>5, <3>1 DEF Match
    <2>9. \A n \in Messages : pubPC'[n] = "pushed" => buffer'[Len(buffer')] = n
      BY <2>2, <2>5
    <2> QED
      BY <2>6, <2>7, <2>8, <2>9 DEF Match
  <1>4. CASE PublishSubmit(m)
    <2>1. /\ pubPC[m] = "pushed" /\ UNCHANGED buffer
          /\ taskQ' = IF "terminateComplete" \in closed \/ Len(taskQ) >= capacity
                      THEN taskQ ELSE Append(taskQ, m)
          /\ pubPC' = [pubPC EXCEPT ![m] = Accepted(m)] /\ Accepted(m) # "pushed"
      BY <1>4 DEF PublishSubmit, Goto, Accepted
    <2>2. \A n \in Messages : pubPC'[n] # "pushed"
      BY <1>1, <2>1 DEF ShapeInv, Once
    <2>3. Pushing = 1 /\ Pushing' = 0
      BY <2>1, <2>2 DEF Pushing
    <2>4. /\ Len(buffer) = Running + Len(taskQ) + 1 /\ Len(taskQ) \in Nat /\ Len(buffer) \in Nat
          /\ buffer[Len(buffer)] = m
      BY <1>1, <1>2, <2>1, <2>3 DEF Match
    <2>5. "terminateComplete" \notin closed /\ ~(Len(taskQ) >= capacity)
      BY <1>1, <1>2, <2>4 DEF SignalInv, RunEnded
    <2>6. taskQ' = Append(taskQ, m)
      BY <2>1, <2>5
    <2>7. /\ Len(taskQ') = Len(taskQ) + 1 /\ DOMAIN taskQ' = 1 .. (Len(taskQ) + 1)
          /\ taskQ'[Len(taskQ) + 1] = m /\ DOMAIN taskQ = 1 .. Len(taskQ)
          /\ \A i \in 1 .. Len(taskQ) : taskQ'[i] = taskQ[i]
      BY <1>1, <2>6
    <2>8. \A i \in DOMAIN taskQ' : buffer'[Running' + i] = taskQ'[i]
      <3>1. \A i \in DOMAIN taskQ' : i \in DOMAIN taskQ \/ (i = Len(taskQ) + 1 /\ Running + i = Len(buffer))
        BY <1>2, <2>4, <2>7
      <3> QED
        BY <1>2, <2>1, <2>4, <2>7, <3>1 DEF Match
    <2>9. Len(buffer') = Running' + Len(taskQ') + Pushing'
      BY <1>2, <2>1, <2>3, <2>4, <2>7
    <2> QED
      BY <1>1, <1>2, <2>1, <2>2, <2>8, <2>9 DEF Match
  <1>5. CASE ~PublishPush(m) /\ ~PublishSubmit(m)
    <2>1. UNCHANGED <<buffer, taskQ>>
      BY <1>5 DEF Publisher, AwaitTimeout, PublishCheck, PublishDirectAdd, PublishDirectSend,
           PublishDirectRemove, PublishOverflow, PublishInterrupted, AwaitAcknowledgement, pipeVars
    <2>2. PICK x : pubPC' = [pubPC EXCEPT ![m] = x] /\ pubPC[m] # "pushed" /\ x # "pushed"
      BY <1>5 DEF Publisher, AwaitTimeout, PublishCheck, PublishDirectAdd, PublishDirectSend,
           PublishDirectRemove, PublishOverflow, PublishInterrupted, AwaitAcknowledgement, Goto,
           Accepted
    <2>3. \A n \in Messages : pubPC'[n] = "pushed" <=> pubPC[n] = "pushed"
      BY <1>1, <2>2
    <2> QED
      BY <1>1, <1>2, <2>1, <2>3, MatchQuiet
  <1> QED
    BY <1>3, <1>4, <1>5

(* Run takes the oldest task and pops that task's message.                 *)
LEMMA RunMatch ==
  ASSUME ShapeInv, StageInv, Match, "terminateTask" \notin closed, Run, runPC' # "done"
  PROVE  Match' /\ (mispopped' => mispopped)
  <1>1. /\ UNCHANGED pubPC /\ taskQ \in Seq(Messages) /\ buffer \in Seq(Messages)
        /\ runPC \notin {"remove", "exit"} /\ "terminateUngraceful" \notin closed
    <2>1. UNCHANGED pubPC
      BY DEF Run, RunCheck, RunTake, RunWait, RunComplete, RunHandOver, TaskAdd, TaskPublishOk,
           TaskPublishFails, TaskAwait, TaskRemove, TaskReadFull, TaskPop, TaskFail, TaskResolve,
           TaskSignal
    <2>2. runPC \notin {"remove", "exit"} /\ "terminateUngraceful" \notin closed
      BY DEF StageInv, Interrupts
    <2> QED
      BY <2>1, <2>2 DEF ShapeInv, Types
  <1>2. UNCHANGED Pushing /\ Pushing \in {0, 1}
    BY <1>1 DEF Pushing
  <1>3. CASE RunTake
    <2>1. /\ runPC \in {"take", "block"} /\ runPC' = "held" /\ taskQ # <<>> /\ task' = Head(taskQ)
          /\ taskQ' = Tail(taskQ) /\ UNCHANGED <<buffer, mispopped>>
      BY <1>3 DEF RunTake
    <2>2. ~Executing /\ Running = 0 /\ Executing' /\ Running' = 1
      BY <2>1 DEF Executing, Running
    <2>3. /\ Len(taskQ) \in Nat /\ Len(taskQ) > 0 /\ DOMAIN taskQ = 1 .. Len(taskQ)
          /\ task' = taskQ[1] /\ Len(taskQ') = Len(taskQ) - 1 /\ DOMAIN taskQ' = 1 .. (Len(taskQ) - 1)
          /\ \A i \in 1 .. (Len(taskQ) - 1) : taskQ'[i] = taskQ[i + 1]
      BY <1>1, <2>1
    <2>4. \A i \in DOMAIN taskQ : buffer[i] = taskQ[i]
      BY <2>2, <2>3 DEF Match
    <2>5. Len(buffer') = Running' + Len(taskQ') + Pushing'
      BY <1>2, <2>1, <2>2, <2>3 DEF Match
    <2>6. buffer'[1] = task'
      BY <2>1, <2>3, <2>4
    <2>7. \A i \in DOMAIN taskQ' : buffer'[Running' + i] = taskQ'[i]
      BY <2>1, <2>2, <2>3, <2>4
    <2> QED
      BY <1>1, <2>1, <2>5, <2>6, <2>7 DEF Match
  <1>4. CASE TaskPop
    <2>1. /\ runPC = "pop" /\ UNCHANGED taskQ
          /\ \/ /\ buffer # <<>> /\ buffer' = Tail(buffer) /\ runPC' \in {"fail", "signal"}
                /\ mispopped' = (mispopped \/ Head(buffer) # task)
             \/ buffer = <<>>
      BY <1>4 DEF TaskPop
    <2>2. Executing /\ Running = 1
      BY <2>1 DEF Executing, Running
    <2>3. Len(taskQ) \in Nat /\ Len(buffer) > 0 /\ buffer[1] = task /\ DOMAIN taskQ = 1 .. Len(taskQ)
      BY <1>1, <1>2, <2>2 DEF Match
    <2>4. buffer # <<>>
      BY <2>3
    <2>5. /\ Head(buffer) = buffer[1] /\ Len(buffer) \in Nat /\ Len(buffer') = Len(buffer) - 1
          /\ \A i \in 1 .. (Len(buffer) - 1) : buffer'[i] = buffer[i + 1]
      BY <1>1, <2>1, <2>4, ChannelFacts
    <2>6. ~Executing' /\ Running' = 0
      BY <2>1, <2>4 DEF Executing, Running
    <2>7. Len(buffer') = Running' + Len(taskQ') + Pushing'
      BY <1>2, <2>1, <2>2, <2>3, <2>5, <2>6 DEF Match
    <2>8. \A i \in DOMAIN taskQ' : buffer'[Running' + i] = taskQ'[i]
      <3>1. \A i \in DOMAIN taskQ : /\ i \in 1 .. (Len(buffer) - 1) /\ buffer[1 + i] = taskQ[i]
                                    /\ 1 + i = i + 1 /\ 0 + i = i
        BY <1>2, <2>2, <2>3, <2>5 DEF Match
      <3> QED
        BY <2>1, <2>5, <2>6, <3>1
    <2>9. \A m \in Messages : pubPC'[m] = "pushed" => buffer'[Len(buffer')] = m
      <3>1. SUFFICES ASSUME NEW m \in Messages, pubPC[m] = "pushed" PROVE buffer'[Len(buffer')] = m
        BY <1>1
      <3>2. Pushing = 1 /\ buffer[Len(buffer)] = m
        BY <3>1 DEF Pushing, Match
      <3>3. Len(buffer') \in 1 .. (Len(buffer) - 1) /\ Len(buffer') + 1 = Len(buffer)
        BY <1>2, <2>2, <2>3, <2>5, <3>2 DEF Match
      <3> QED
        BY <2>5, <3>2, <3>3
    <2>10. mispopped' => mispopped
      BY <2>1, <2>3, <2>4, <2>5
    <2> QED
      BY <2>6, <2>7, <2>8, <2>9, <2>10 DEF Match
  <1>5. CASE ~RunTake /\ ~TaskPop
    <2>1. UNCHANGED <<buffer, taskQ, mispopped>>
      BY <1>1, <1>5 DEF Run, RunCheck, RunWait, RunComplete, RunHandOver, TaskAdd, TaskPublishOk,
           TaskPublishFails, TaskAwait, TaskRemove, TaskReadFull, TaskFail, TaskResolve, TaskSignal,
           pipeVars
    <2>2. (Executing' <=> Executing) /\ (Executing => UNCHANGED task)
      BY <1>1, <1>5 DEF Run, RunCheck, RunWait, RunComplete, RunHandOver, TaskAdd, TaskPublishOk,
           TaskPublishFails, TaskAwait, TaskRemove, TaskReadFull, TaskFail, TaskResolve, TaskSignal,
           TaskDone, AfterWithdrawal, Executing
    <2> QED
      BY <1>1, <2>1, <2>2, MatchQuiet
  <1> QED
    BY <1>3, <1>4, <1>5

(* Being in step is inductive.                                             *)
LEMMA InStepInductive ==
    /\ Init => InStep
    /\ SignalInv /\ ShapeInv /\ StageInv /\ InStep /\ [Next]_vars => InStep'
  <1>1. Init => InStep
    <2> SUFFICES ASSUME Init PROVE InStep
      OBVIOUS
    <2>1. Len(buffer) = 0 /\ Len(taskQ) = 0 /\ DOMAIN taskQ = {} /\ runPC \in {"check", "done"}
      BY DEF Init
    <2>2. ~Executing /\ Running = 0 /\ Pushing = 0
      BY <2>1 DEF Executing, Running, Pushing, Init
    <2> QED
      BY <2>1, <2>2 DEF Init, InStep, Match
  <1>2. ASSUME SignalInv, ShapeInv, StageInv, InStep, [Next]_vars PROVE InStep'
    <2>1. CASE \E m \in Messages : Publisher(m) \/ AwaitTimeout(m)
      <3>1. UNCHANGED <<closed, runPC, mispopped>>
        BY <2>1 DEF Publisher, AwaitTimeout, PublishCheck, PublishDirectAdd, PublishDirectSend,
           PublishDirectRemove, PublishPush, PublishOverflow, PublishInterrupted, PublishSubmit,
           AwaitAcknowledgement, taskVars
      <3> QED
        BY <1>2, <2>1, <3>1, PublisherMatch DEF InStep
    <2>2. CASE Run
      <3>1. /\ runPC # "done" /\ ("terminateTask" \notin closed' => "terminateTask" \notin closed)
            /\ runPC' = "done" => UNCHANGED mispopped
        BY <2>2 DEF Run, RunCheck, RunTake, RunWait, RunComplete, RunHandOver, TaskAdd, TaskPublishOk,
           TaskPublishFails, TaskAwait, TaskRemove, TaskReadFull, TaskPop, TaskFail, TaskResolve,
           TaskSignal, TaskDone
      <3> QED
        BY <1>2, <2>2, <3>1, RunMatch DEF InStep
    <2>3. CASE \/ AckHandler \/ (\E m \in Messages : OnAcknowledgement(m)) \/ OnCanSend
               \/ NotifyGoroutine \/ NotifyWhenReady \/ Terminator \/ (\E kind \in TermKinds : TerminateStart(kind))
               \/ UNCHANGED vars
      <3>1. /\ UNCHANGED <<pubPC, taskQ, runPC, task, mispopped>>
            /\ "terminateTask" \notin closed' => "terminateTask" \notin closed
        BY <2>3 DEF AckHandler, OnAcknowledgement, AckLookup, AckResolve, AckDelete, OnCanSend,
           NotifyGoroutine, NotifyWhenReady, Terminator, TerminatorAt, TerminatorFrame,
           TerminateStop, TerminateTasksDrained,
           TerminateTimeout, TerminateTask, TerminateUngraceful, TerminateJoin, TerminateRequest,
           TerminateAcksComplete, TerminateDeregister, DrainQueueClose, DrainQueueOne,
           DrainQueueDone, DrainAckTableLock, DrainAckTableReach, DrainAckTableOne,
           DrainAckTableDone, TerminateFinish,
           TerminateStart, vars, pipeVars, taskVars
      <3>2. UNCHANGED Executing
        BY <3>1 DEF Executing
      <3>3. CASE DrainQueueOne
        <4>1. "terminateTask" \in closed \/ runPC = "done"
          BY <1>2, <3>3 DEF DrainQueueOne, TerminatorAt, TerminatorFrame, StageInv, Interrupts,
             Drained, Paths,
                            Late, Ending
        <4> QED
          BY <1>2, <3>1, <4>1 DEF InStep
      <3>4. CASE ~DrainQueueOne
        <4>1. UNCHANGED buffer
          BY <2>3, <3>4 DEF AckHandler, OnAcknowledgement, AckLookup, AckResolve, AckDelete, OnCanSend,
           NotifyGoroutine, NotifyWhenReady, Terminator, TerminatorAt, TerminatorFrame,
           TerminateStop, TerminateTasksDrained,
           TerminateTimeout, TerminateTask, TerminateUngraceful, TerminateJoin, TerminateRequest,
           TerminateAcksComplete, TerminateDeregister, DrainQueueClose,
           DrainQueueDone, DrainAckTableLock, DrainAckTableReach, DrainAckTableOne,
           DrainAckTableDone, TerminateFinish,
           TerminateStart, vars, pipeVars
        <4> QED
          BY <1>2, <3>1, <3>2, <4>1, MatchQuiet DEF InStep
      <3> QED
        BY <3>3, <3>4
    <2> QED
      BY <1>2, <2>1, <2>2, <2>3 DEF Next
  <1> QED
    BY <1>1, <1>2

(* As long as no task has popped another's message, buffer still has the   *)
(* message of every task to come, interrupted or not.                      *)
Awaits(m) == Among(taskQ, m) \/ pubPC[m] = "pushed" \/ (Executing /\ task = m)

HasMessage ==
    ~mispopped /\ Lasting /\ runPC # "done" => \A m \in Messages : Awaits(m) => Among(buffer, m)

(* The publish, or a task that pops its own message, keeps the others'.    *)
LEMMA MessageInductive ==
    /\ Init => HasMessage
    /\ ShapeInv /\ StageInv /\ HasMessage /\ [Next]_vars => HasMessage'
  <1>1. Init => HasMessage
    BY DEF Init, HasMessage, Awaits, Among, Executing
  <1>2. ASSUME ShapeInv, StageInv, HasMessage, [Next]_vars PROVE HasMessage'
    <2>1. CASE \E m \in Messages : Publisher(m) \/ AwaitTimeout(m)
      <3>1. PICK m \in Messages : Publisher(m) \/ AwaitTimeout(m)
        BY <2>1
      <3>2. /\ UNCHANGED <<runPC, task, mispopped, termKind>>
            /\ pubPC \in [Messages -> PubPCs] /\ taskQ \in Seq(Messages) /\ buffer \in Seq(Messages)
        BY <1>2, <3>1 DEF Publisher, AwaitTimeout, PublishCheck, PublishDirectAdd, PublishDirectSend,
           PublishDirectRemove, PublishPush, PublishOverflow, PublishInterrupted, PublishSubmit,
           AwaitAcknowledgement, taskVars, termVars, ShapeInv, Types
      <3>3. PICK x : /\ pubPC' = [pubPC EXCEPT ![m] = x]
                     /\ \/ x # "pushed" /\ buffer' = buffer
                        \/ x = "pushed" /\ buffer' = Append(buffer, m)
                     /\ taskQ' = taskQ \/ (pubPC[m] = "pushed" /\ taskQ' = Append(taskQ, m))
        BY <3>1 DEF Publisher, AwaitTimeout, PublishCheck, PublishDirectAdd, PublishDirectSend,
           PublishDirectRemove, PublishPush, PublishOverflow, PublishInterrupted, PublishSubmit,
           AwaitAcknowledgement, Goto, Accepted, pipeVars
      <3>4. pubPC'[m] = x /\ \A n \in Messages : n # m => pubPC'[n] = pubPC[n]
        BY <3>2, <3>3
      <3>5. \A a : Among(buffer, a) \/ (x = "pushed" /\ a = m) => Among(buffer', a)
        <4>1. \A a : Among(buffer, a) \/ a = m => Among(Append(buffer, m), a)
          BY <3>2, SendSet
        <4> QED
          BY <3>3, <4>1
      <3>6. \A a : Among(taskQ', a) => Among(taskQ, a) \/ (pubPC[m] = "pushed" /\ a = m)
        <4>1. \A a : Among(Append(taskQ, m), a) => Among(taskQ, a) \/ a = m
          BY <3>2, SendSet
        <4> QED
          BY <3>3, <4>1
      <3> QED
        BY <1>2, <3>2, <3>4, <3>5, <3>6 DEF HasMessage, Awaits, Executing, Lasting
    <2>2. CASE Run
      <3>1. /\ UNCHANGED <<pubPC, termKind>> /\ taskQ \in Seq(Messages) /\ buffer \in Seq(Messages)
            /\ runPC # "done"
        BY <1>2, <2>2 DEF Run, RunCheck, RunTake, RunWait, RunComplete, RunHandOver, TaskAdd,
           TaskPublishOk, TaskPublishFails, TaskAwait, TaskRemove, TaskReadFull, TaskPop, TaskFail,
           TaskResolve, TaskSignal, termVars, ShapeInv, Types
      <3>2. CASE TaskPop
        <4>1. /\ runPC = "pop" /\ UNCHANGED taskQ /\ runPC' \in {"fail", "signal", "check"}
              /\ \/ buffer # <<>> /\ buffer' = Tail(buffer)
                 \/ buffer = <<>> /\ buffer' = buffer
              /\ ~mispopped' => ~mispopped /\ (buffer # <<>> => Head(buffer) = task)
          <5>1. CASE buffer = <<>>
            BY <3>2, <5>1 DEF TaskPop, TaskDone
          <5>2. CASE buffer # <<>>
            <6>1. mispopped' = (mispopped \/ Head(buffer) # task)
              BY <3>2, <5>2 DEF TaskPop
            <6>2. ~mispopped' => ~mispopped /\ Head(buffer) = task
              BY <6>1
            <6> QED
              BY <3>2, <5>2, <6>2 DEF TaskPop
          <5> QED
            BY <5>1, <5>2
        <4>2. \A n \in Messages : Awaits(n)' => Awaits(n) /\ n # task
          BY <1>2, <3>1, <4>1 DEF Awaits, Executing, ShapeInv, Once, HasTask, Submitted
        <4>3. \A a : Among(buffer, a) => Among(buffer', a) \/ (buffer # <<>> /\ a = Head(buffer))
          BY <3>1, <4>1, ReceiveSet
        <4>4. SUFFICES ASSUME ~mispopped', Lasting' PROVE \A n \in Messages : Awaits(n)' => Among(buffer', n)
          BY DEF HasMessage
        <4>5. ~mispopped /\ Lasting /\ (buffer # <<>> => Head(buffer) = task)
          BY <3>1, <4>1, <4>4 DEF Lasting
        <4> QED
          BY <1>2, <3>1, <4>2, <4>3, <4>5 DEF HasMessage
      <3>3. CASE ~TaskPop
        <4>1. UNCHANGED <<buffer, mispopped>>
          BY <2>2, <3>3 DEF Run, RunCheck, RunTake, RunWait, RunComplete, RunHandOver, TaskAdd,
           TaskPublishOk, TaskPublishFails, TaskAwait, TaskRemove, TaskReadFull, TaskFail,
           TaskResolve, TaskSignal, pipeVars
        <4>2. \A n \in Messages : Awaits(n)' => Awaits(n)
          <5>1. CASE RunTake
            <6>1. taskQ # <<>> /\ task' = Head(taskQ) /\ taskQ' = Tail(taskQ)
              BY <5>1 DEF RunTake
            <6>2. \A a : Among(taskQ', a) \/ a = task' => Among(taskQ, a)
              BY <3>1, <6>1, ReceiveSet
            <6> QED
              BY <3>1, <6>2 DEF Awaits
          <5>2. CASE ~RunTake
            <6>1. UNCHANGED taskQ /\ (Executing' => Executing /\ UNCHANGED task)
              BY <2>2, <3>3, <5>2 DEF Run, RunCheck, RunWait, RunComplete, RunHandOver, TaskAdd,
               TaskPublishOk, TaskPublishFails, TaskAwait, TaskRemove, TaskReadFull, TaskFail,
               TaskResolve, TaskSignal, TaskDone, AfterWithdrawal, pipeVars, Executing
            <6> QED
              BY <3>1, <6>1 DEF Awaits
          <5> QED
            BY <5>1, <5>2
        <4> QED
          BY <1>2, <3>1, <4>1, <4>2 DEF HasMessage, Lasting
      <3> QED
        BY <3>2, <3>3
    <2>3. CASE \/ AckHandler \/ (\E m \in Messages : OnAcknowledgement(m)) \/ OnCanSend
               \/ NotifyGoroutine \/ NotifyWhenReady \/ Terminator \/ (\E kind \in TermKinds : TerminateStart(kind))
               \/ UNCHANGED vars
      <3>1. UNCHANGED <<pubPC, taskQ, runPC, task, mispopped>>
        BY <2>3 DEF AckHandler, OnAcknowledgement, AckLookup, AckResolve, AckDelete, OnCanSend,
           NotifyGoroutine, NotifyWhenReady, Terminator, TerminatorAt, TerminatorFrame,
           TerminateStop, TerminateTasksDrained,
           TerminateTimeout, TerminateTask, TerminateUngraceful, TerminateJoin, TerminateRequest,
           TerminateAcksComplete, TerminateDeregister, DrainQueueClose, DrainQueueOne,
           DrainQueueDone, DrainAckTableLock, DrainAckTableReach, DrainAckTableOne,
           DrainAckTableDone, TerminateFinish,
           TerminateStart, vars, pipeVars, taskVars
      <3>2. Lasting' => Lasting
        BY <1>2, <2>3 DEF AckHandler, OnAcknowledgement, AckLookup, AckResolve, AckDelete, OnCanSend,
           NotifyGoroutine, NotifyWhenReady, Terminator, TerminatorAt, TerminatorFrame,
           TerminateStop, TerminateTasksDrained,
           TerminateTimeout, TerminateTask, TerminateUngraceful, TerminateJoin, TerminateRequest,
           TerminateAcksComplete, TerminateDeregister, DrainQueueClose, DrainQueueOne,
           DrainQueueDone, DrainAckTableLock, DrainAckTableReach, DrainAckTableOne,
           DrainAckTableDone, TerminateFinish,
           TerminateStart, vars, termVars, StageInv, Begun, Lasting
      <3>3. \A n \in Messages : Awaits(n)' <=> Awaits(n)
        BY <3>1 DEF Awaits, Executing
      <3>4. CASE DrainQueueOne
        <4>1. Lasting => runPC = "done"
          BY <1>2, <3>4 DEF DrainQueueOne, TerminatorAt, TerminatorFrame, StageInv, Drained, Paths,
             Late, Ending
        <4> QED
          BY <3>1, <3>2, <4>1 DEF HasMessage
      <3>5. CASE ~DrainQueueOne
        <4>1. UNCHANGED buffer
          BY <2>3, <3>5 DEF AckHandler, OnAcknowledgement, AckLookup, AckResolve, AckDelete, OnCanSend,
           NotifyGoroutine, NotifyWhenReady, Terminator, TerminatorAt, TerminatorFrame,
           TerminateStop, TerminateTasksDrained,
           TerminateTimeout, TerminateTask, TerminateUngraceful, TerminateJoin, TerminateRequest,
           TerminateAcksComplete, TerminateDeregister, DrainQueueClose,
           DrainQueueDone, DrainAckTableLock, DrainAckTableReach, DrainAckTableOne,
           DrainAckTableDone, TerminateFinish,
           TerminateStart, vars, pipeVars
        <4> QED
          BY <1>2, <3>1, <3>2, <3>3, <4>1 DEF HasMessage
      <3> QED
        BY <3>4, <3>5
    <2> QED
      BY <1>2, <2>1, <2>2, <2>3 DEF Next
  <1> QED
    BY <1>1, <1>2

-----------------------------------------------------------------------------
(***************************************************************************)
(* No accepted message is forgotten: until the application is told about   *)
(* it, it is in buffer, in the correlation table, or in the hands of the   *)
(* task that is about to resolve it.  What keeps this going: a task has a  *)
(* context in the table before it pops the message, ackHandler deletes a   *)
(* context only after resolving it, and a direct publish that passed its   *)
(* state check before termination has its context in the table.            *)
(***************************************************************************)
Told(m) == verdicts[m] # <<>>
Tabled  == runPC \in {"publish", "await", "remove", "full", "pop", "fail"}

KeptOf(m) ==
    /\ Settles(m) => \/ Told(m) \/ Among(buffer, m) \/ m \in correlationMap
                     \/ runPC = "resolve" /\ task = m
    /\ Tabled /\ task = m => Told(m) \/ m \in correlationMap
    /\ ackPC = "delete" /\ ackMsg = m => Told(m) \/ "eventExecutor" \in closed
    /\ termPC \in {"executor", "done"} /\ m \in correlationMap => ~Settles(m)
    /\ ~Buffered /\ state = "Started" /\ pubPC[m] = "added" => m \in correlationMap

Trusted   == ~mispopped /\ Lasting
Somewhere == Trusted => \A m \in Messages : KeptOf(m)

(* Neither a mispop nor an unsolicited termination can be undone.          *)
LEMMA TrustedBefore ==
  ASSUME StageInv, [Next]_vars, Trusted'
  PROVE  Trusted
  <1>1. Lasting
    <2>1. CASE \E kind \in TermKinds : TerminateStart(kind)
      BY <2>1 DEF TerminateStart, StageInv, Begun
    <2>2. CASE ~(\E kind \in TermKinds : TerminateStart(kind))
      <3>1. UNCHANGED termKind
        BY <2>2 DEF Next, Publisher, AwaitTimeout, PublishCheck, PublishDirectAdd,
           PublishDirectSend, PublishDirectRemove, PublishPush, PublishOverflow, PublishInterrupted,
           PublishSubmit, AwaitAcknowledgement, OnAcknowledgement, Run, RunCheck, RunTake, RunWait,
           RunComplete, RunHandOver, TaskAdd, TaskPublishOk, TaskPublishFails, TaskAwait, TaskRemove,
           TaskReadFull, TaskPop, TaskFail, TaskResolve, TaskSignal, AckHandler, AckLookup,
           AckResolve, AckDelete, OnCanSend, NotifyGoroutine, NotifyWhenReady, Terminator,
           TerminatorAt, TerminatorFrame, TerminateStop,
           TerminateTasksDrained, TerminateTimeout, TerminateTask, TerminateUngraceful, TerminateJoin,
           TerminateRequest, TerminateAcksComplete, TerminateDeregister, DrainQueueClose,
           DrainQueueOne, DrainQueueDone, DrainAckTableLock, DrainAckTableReach, DrainAckTableOne,
           DrainAckTableDone,
           TerminateFinish, vars, termVars
      <3> QED
        BY <3>1 DEF Trusted, Lasting
    <2> QED
      BY <2>1, <2>2
  <1>2. ~mispopped
    <2>1. CASE TaskPop
      <3>1. mispopped' = mispopped \/ mispopped' = (mispopped \/ Head(buffer) # task)
        BY <2>1 DEF TaskPop
      <3> QED
        BY <3>1 DEF Trusted
    <2>2. CASE ~TaskPop
      <3>1. UNCHANGED mispopped
        BY <2>2 DEF Next, Publisher, AwaitTimeout, PublishCheck, PublishDirectAdd,
           PublishDirectSend, PublishDirectRemove, PublishPush, PublishOverflow, PublishInterrupted,
           PublishSubmit, AwaitAcknowledgement, OnAcknowledgement, Run, RunCheck, RunTake, RunWait,
           RunComplete, RunHandOver, TaskAdd, TaskPublishOk, TaskPublishFails, TaskAwait, TaskRemove,
           TaskReadFull, TaskFail, TaskResolve, TaskSignal, AckHandler, AckLookup,
           AckResolve, AckDelete, OnCanSend, NotifyGoroutine, NotifyWhenReady, Terminator,
           TerminatorAt, TerminatorFrame, TerminateStop,
           TerminateTasksDrained, TerminateTimeout, TerminateTask, TerminateUngraceful, TerminateJoin,
           TerminateRequest, TerminateAcksComplete, TerminateDeregister, DrainQueueClose,
           DrainQueueOne, DrainQueueDone, DrainAckTableLock, DrainAckTableReach, DrainAckTableOne,
           DrainAckTableDone,
           TerminateFinish, TerminateStart, vars, taskVars
      <3> QED
        BY <3>1 DEF Trusted
    <2> QED
      BY <2>1, <2>2
  <1> QED
    BY <1>1, <1>2 DEF Trusted

(* What a verdict sequence that is not empty holds.                        *)
LEMMA ToldMeans ==
  ASSUME Types, NEW m \in Messages, Told(m)
  PROVE  Outcome(verdicts[m]) \/ GaveUp(verdicts[m])
  <1>1. verdicts[m] \in Seq(Verdicts) /\ verdicts[m] # <<>>
    BY DEF Types, Told
  <1>2. 1 \in DOMAIN verdicts[m]
    BY <1>1
  <1> QED
    BY <1>2 DEF Outcome, GaveUp

(* publish puts what it accepts into buffer, or has registered it.         *)
LEMMA PublisherKept ==
  ASSUME ShapeInv, StageInv, NEW m \in Messages, Publisher(m) \/ AwaitTimeout(m), Lasting,
         \A n \in Messages : KeptOf(n)
  PROVE  \A n \in Messages : KeptOf(n)'
  <1>1. /\ UNCHANGED <<strategy, runPC, task, ackPC, ackMsg, verdicts, termPC, state, raced, closed>>
        /\ pubPC \in [Messages -> PubPCs] /\ buffer \in Seq(Messages)
    BY DEF Publisher, AwaitTimeout, PublishCheck, PublishDirectAdd, PublishDirectSend,
           PublishDirectRemove, PublishPush, PublishOverflow, PublishInterrupted, PublishSubmit,
           AwaitAcknowledgement, taskVars, ackVars, tellVars, termVars, setupVars, ShapeInv, Types
  <1>2. PICK x : pubPC' = [pubPC EXCEPT ![m] = x]
    BY DEF Publisher, AwaitTimeout, PublishCheck, PublishDirectAdd, PublishDirectSend,
           PublishDirectRemove, PublishPush, PublishOverflow, PublishInterrupted, PublishSubmit,
           AwaitAcknowledgement, Goto
  <1>3. pubPC'[m] = x /\ \A n \in Messages : n # m => pubPC'[n] = pubPC[n]
    BY <1>1, <1>2
  <1>4. /\ \A n \in Messages : Told(n)' <=> Told(n)
        /\ UNCHANGED <<Tabled, Buffered>>
    BY <1>1 DEF Told, Tabled, Buffered
  <1>5. CASE PublishDirectAdd(m)
    <2>1. /\ correlationMap' = correlationMap \cup {m} /\ UNCHANGED buffer /\ x = "added"
          /\ pubPC[m] = "checked"
      BY <1>1, <1>3, <1>5 DEF PublishDirectAdd, AddCorrelationContext, Goto, pipeVars
    <2>2. \A n \in Messages : Settles(n)' => Settles(n) /\ n # m
      BY <1>1, <1>3, <1>4, <2>1 DEF Settles, Promised
    <2> QED
      BY <1>1, <1>3, <1>4, <2>1, <2>2 DEF KeptOf
  <1>6. CASE PublishDirectRemove(m)
    <2>1. /\ correlationMap' = correlationMap \ {m} /\ UNCHANGED buffer /\ x \in {"overflow", "error"}
          /\ pubPC[m] \in {"wouldblock", "remove"}
      BY <1>1, <1>3, <1>6 DEF PublishDirectRemove, RemoveCorrelationContext, Goto, pipeVars
    <2>2. \A n \in Messages : Settles(n)' => Settles(n) /\ n # m
      BY <1>1, <1>3, <1>4, <2>1 DEF Settles, Promised
    <2>3. ~Tabled
      BY <2>1 DEF StageInv, Paths, Tabled
    <2> QED
      BY <1>1, <1>3, <1>4, <2>1, <2>2, <2>3 DEF KeptOf
  <1>7. CASE PublishDirectSend(m)
    <2>1. UNCHANGED <<correlationMap, buffer>> /\ x # "added" /\ pubPC[m] = "added"
      BY <1>1, <1>3, <1>7 DEF PublishDirectSend, Goto, Accepted, pipeVars
    <2>2. ~Buffered
      BY <2>1 DEF StageInv, Paths
    <2>3. \A n \in Messages : n # m => (Settles(n)' <=> Settles(n))
      BY <1>1, <1>3, <1>4 DEF Settles, Promised
    <2>4. Settles(m)' => state = "Started"
      BY <1>1, <1>4, <2>1, <2>2 DEF Settles, StageInv, Begun
    <2>5. Settles(m)' => m \in correlationMap /\ termPC \notin {"executor", "done"}
      BY <2>1, <2>2, <2>4 DEF KeptOf, StageInv, Begun
    <2> QED
      BY <1>1, <1>3, <1>4, <2>1, <2>3, <2>5 DEF KeptOf
  <1>8. CASE PublishPush(m)
    <2>1. /\ UNCHANGED correlationMap /\ buffer' = Append(buffer, m) /\ x # "added" /\ Buffered
          /\ "buffer" \notin closed
      BY <1>1, <1>3, <1>8 DEF PublishPush, Goto
    <2>2. \A a : Among(buffer, a) \/ a = m => Among(buffer', a)
      BY <1>1, <2>1, SendSet
    <2>3. \A n \in Messages : n # m => (Settles(n)' <=> Settles(n))
      BY <1>1, <1>3, <1>4 DEF Settles, Promised
    <2>4. termPC \notin {"executor", "done"}
      BY <2>1 DEF StageInv, Drained, Ending, Cleared
    <2> QED
      BY <1>1, <1>3, <1>4, <2>1, <2>2, <2>3, <2>4 DEF KeptOf
  <1>9. CASE ~PublishDirectAdd(m) /\ ~PublishDirectRemove(m) /\ ~PublishDirectSend(m) /\ ~PublishPush(m)
    <2>1. /\ UNCHANGED <<correlationMap, buffer>>
          /\ Promised(m)' => Promised(m)
          /\ pubPC'[m] # "added"
      BY <1>1, <1>9 DEF Publisher, AwaitTimeout, PublishCheck, PublishOverflow, PublishInterrupted,
           PublishSubmit, AwaitAcknowledgement, Goto, Accepted, Promised, pipeVars
    <2>2. \A n \in Messages : Settles(n)' => Settles(n)
      BY <1>1, <1>3, <1>4, <2>1 DEF Settles, Promised
    <2> QED
      BY <1>1, <1>3, <1>4, <2>1, <2>2 DEF KeptOf
  <1> QED
    BY <1>5, <1>6, <1>7, <1>8, <1>9

(* A task takes a message out of buffer when its context is in the table,  *)
(* and out of the table when it is in buffer or about to be resolved.      *)
LEMMA RunKept ==
  ASSUME ShapeInv, StageInv, HasMessage, Trusted, Trusted', Run,
         \A n \in Messages : KeptOf(n)
  PROVE  \A n \in Messages : KeptOf(n)'
  <1>1. /\ UNCHANGED <<strategy, pubPC, ackPC, ackMsg, termPC, state, raced>>
        /\ "eventExecutor" \in closed => "eventExecutor" \in closed'
        /\ buffer \in Seq(Messages) /\ runPC # "done"
    BY DEF Run, RunCheck, RunTake, RunWait, RunComplete, RunHandOver, TaskAdd, TaskPublishOk,
           TaskPublishFails, TaskAwait, TaskRemove, TaskReadFull, TaskPop, TaskFail, TaskResolve,
           TaskSignal, setupVars, ackVars, termVars, ShapeInv, Types
  <1>2. Buffered /\ termPC \notin {"executor", "done"} /\ "eventExecutor" \notin closed
    BY <1>1 DEF StageInv, Begun, Paths, Drained, Late, Ending, Cleared, Trusted
  <1>3. UNCHANGED Buffered /\ \A n \in Messages : Settles(n)' <=> Settles(n)
    BY <1>1 DEF Buffered, Settles, Promised
  <1>4. CASE TaskAdd
    <2>1. correlationMap' = correlationMap \cup {task} /\ UNCHANGED <<buffer, verdicts, task>>
          /\ runPC = "add"
      BY <1>4 DEF TaskAdd, AddCorrelationContext, pipeVars, tellVars
    <2> QED
      BY <1>1, <1>2, <1>3, <2>1 DEF KeptOf, Told
  <1>5. CASE TaskRemove
    <2>1. /\ correlationMap' = correlationMap \ {task} /\ UNCHANGED <<buffer, verdicts>>
          /\ runPC = "remove" /\ runPC' = "check"
      BY <1>5 DEF TaskRemove, TaskDone, RemoveCorrelationContext, pipeVars, tellVars
    <2>2. \A n \in Messages : n = task => Among(buffer, n)
      BY <2>1 DEF HasMessage, Trusted, Awaits, Executing
    <2> QED
      BY <1>1, <1>2, <1>3, <2>1, <2>2 DEF KeptOf, Told, Tabled
  <1>6. CASE TaskFail
    <2>1. /\ correlationMap' = correlationMap \ {task} /\ UNCHANGED <<buffer, verdicts, task>>
          /\ runPC = "fail" /\ runPC' = "resolve"
      BY <1>6 DEF TaskFail, RemoveCorrelationContext, AfterWithdrawal, pipeVars, tellVars
    <2> QED
      BY <1>1, <1>2, <1>3, <2>1 DEF KeptOf, Told, Tabled
  <1>7. CASE TaskResolve
    <2>1. /\ UNCHANGED <<correlationMap, buffer, task>> /\ runPC = "resolve" /\ runPC' = "signal"
          /\ Resolve(task, "refused") /\ task \in Messages
      BY <1>7 DEF TaskResolve, pipeVars, ShapeInv, Types, HasTask
    <2>2. verdicts'[task] # <<>> /\ \A n \in Messages : n # task => verdicts'[n] = verdicts[n]
      BY <1>2, <2>1, ResolveTells DEF ShapeInv, Verdicts
    <2> QED
      BY <1>1, <1>2, <1>3, <2>1, <2>2 DEF KeptOf, Told, Tabled
  <1>8. CASE TaskPop
    <2>1. /\ UNCHANGED <<correlationMap, verdicts>> /\ runPC = "pop"
          /\ \/ /\ buffer # <<>> /\ buffer' = Tail(buffer) /\ UNCHANGED task
                /\ mispopped' = (mispopped \/ Head(buffer) # task)
             \/ buffer = <<>> /\ UNCHANGED buffer /\ runPC' = "check"
      BY <1>8 DEF TaskPop, TaskDone, tellVars
    <2>2. buffer # <<>> => Head(buffer) = task
      BY <2>1 DEF Trusted
    <2>3. \A n \in Messages : Among(buffer, n) => Among(buffer', n) \/ n = task
      BY <1>1, <2>1, <2>2, ReceiveSet
    <2>4. \A n \in Messages : n = task => Told(n) \/ n \in correlationMap
      BY <2>1 DEF KeptOf, Tabled
    <2>5. \A n \in Messages : Tabled' /\ task' = n => n = task
      BY <2>1 DEF Tabled
    <2> QED
      BY <1>1, <1>2, <1>3, <2>1, <2>3, <2>4, <2>5 DEF KeptOf, Told
  <1>9. CASE ~TaskAdd /\ ~TaskRemove /\ ~TaskFail /\ ~TaskResolve /\ ~TaskPop
    <2>1. /\ UNCHANGED <<correlationMap, buffer, verdicts>>
          /\ Tabled' => Tabled /\ UNCHANGED task
          /\ runPC # "resolve"
      BY <1>9 DEF Run, RunCheck, RunTake, RunWait, RunComplete, RunHandOver, TaskPublishOk,
           TaskPublishFails, TaskAwait, TaskReadFull, TaskSignal, TaskDone, Tabled, pipeVars, tellVars
    <2> QED
      BY <1>1, <1>2, <1>3, <2>1 DEF KeptOf, Told
  <1> QED
    BY <1>4, <1>5, <1>6, <1>7, <1>8, <1>9

(* ackHandler deletes a context only after it has resolved it.             *)
LEMMA AckKept ==
  ASSUME ShapeInv, StageInv, OneOutcome, GivenUpLate, Lasting,
         AckHandler \/ (\E m \in Messages : OnAcknowledgement(m)),
         \A n \in Messages : KeptOf(n)
  PROVE  \A n \in Messages : KeptOf(n)'
  <1>1. UNCHANGED <<strategy, pubPC, buffer, task, runPC, termPC, state, raced, closed>>
    BY DEF AckHandler, OnAcknowledgement, AckLookup, AckResolve, AckDelete, setupVars, pipeVars,
           taskVars, termVars
  <1>2. /\ UNCHANGED <<Buffered, Tabled>>
        /\ \A n \in Messages : Settles(n)' <=> Settles(n)
    BY <1>1 DEF Buffered, Tabled, Settles, Promised
  <1>3. CASE AckResolve
    <2>1. /\ Resolve(ackMsg, "acked") /\ UNCHANGED <<correlationMap, ackMsg>> /\ ackMsg \in Messages
      BY <1>3 DEF AckResolve, ShapeInv, Types
    <2>2. /\ \A n \in Messages : Told(n) => Told(n)'
          /\ "eventExecutor" \notin closed => verdicts'[ackMsg] # <<>>
      BY <2>1, ResolveTells DEF ShapeInv, Verdicts, Told
    <2> QED
      BY <1>1, <1>2, <2>1, <2>2 DEF KeptOf, Told
  <1>4. CASE AckDelete
    <2>1. /\ ackPC = "delete" /\ correlationMap' = correlationMap \ {ackMsg} /\ UNCHANGED verdicts
          /\ ackPC' = "idle" /\ ackMsg \in Messages
      BY <1>4 DEF AckDelete, RemoveCorrelationContext, tellVars, ShapeInv, Types
    <2>2. \A n \in Messages : Told(n)' <=> Told(n)
      BY <2>1 DEF Told
    <2>3. Told(ackMsg) \/ termPC = "done"
      BY <2>1 DEF KeptOf, StageInv, Begun
    <2>4. termPC = "done" => ~Tabled
      BY DEF StageInv, Drained, Paths, Late, Ending, Cleared, Tabled
    <2>5. \A n \in Messages : n = ackMsg => ~(state = "Started" /\ pubPC[n] = "added")
      <3>1. SUFFICES ASSUME state = "Started", pubPC[ackMsg] = "added" PROVE FALSE
        OBVIOUS
      <3>2. termPC = "idle"
        BY <3>1 DEF StageInv, Begun
      <3>3. ~Outcome(verdicts[ackMsg])
        BY <2>1, <3>1 DEF OneOutcome, OutcomeOf, Unsent
      <3>4. ~GaveUp(verdicts[ackMsg])
        BY <2>1, <3>2 DEF GivenUpLate, Ending, Cleared
      <3> QED
        BY <2>1, <2>3, <3>2, <3>3, <3>4, ToldMeans DEF ShapeInv
    <2> QED
      BY <1>1, <1>2, <2>1, <2>2, <2>3, <2>4, <2>5 DEF KeptOf
  <1>5. CASE AckLookup \/ (\E m \in Messages : OnAcknowledgement(m))
    <2>1. UNCHANGED <<correlationMap, verdicts>> /\ ackPC' # "delete"
      BY <1>5 DEF AckLookup, OnAcknowledgement, tellVars
    <2> QED
      BY <1>1, <1>2, <2>1 DEF KeptOf, Told
  <1> QED
    BY <1>3, <1>4, <1>5 DEF AckHandler

(* The terminator resolves what it drains before it closes the executor.   *)
LEMMA TerminatorKept ==
  ASSUME ShapeInv, StageInv,
         \/ Terminator \/ (\E kind \in TermKinds : TerminateStart(kind))
         \/ OnCanSend \/ NotifyGoroutine \/ NotifyWhenReady \/ UNCHANGED vars,
         \A n \in Messages : KeptOf(n)
  PROVE  \A n \in Messages : KeptOf(n)'
  <1>1. /\ UNCHANGED <<strategy, pubPC, task, runPC, ackPC, ackMsg>>
        /\ "eventExecutor" \in closed => "eventExecutor" \in closed'
        /\ buffer \in Seq(Messages)
    BY DEF OnCanSend, NotifyGoroutine, NotifyWhenReady, Terminator, TerminatorAt, TerminatorFrame,
       TerminateStop,
           TerminateTasksDrained, TerminateTimeout, TerminateTask, TerminateUngraceful, TerminateJoin,
           TerminateRequest, TerminateAcksComplete, TerminateDeregister, DrainQueueClose,
           DrainQueueOne, DrainQueueDone, DrainAckTableLock, DrainAckTableReach, DrainAckTableOne,
           DrainAckTableDone,
           TerminateFinish, TerminateStart, vars, setupVars, taskVars, ackVars, ShapeInv, Types
  <1>2. UNCHANGED <<Buffered, Tabled>>
    BY <1>1 DEF Buffered, Tabled
  <1>3. /\ raced \subseteq raced'
        /\ state' = "Started" => state = "Started"
    BY DEF OnCanSend, NotifyGoroutine, NotifyWhenReady, Terminator, TerminatorAt, TerminatorFrame,
       TerminateStop,
           TerminateTasksDrained, TerminateTimeout, TerminateTask, TerminateUngraceful, TerminateJoin,
           TerminateRequest, TerminateAcksComplete, TerminateDeregister, DrainQueueClose,
           DrainQueueOne, DrainQueueDone, DrainAckTableLock, DrainAckTableReach, DrainAckTableOne,
           DrainAckTableDone,
           TerminateFinish, TerminateStart, vars, termVars, StageInv, Begun
  <1>4. \A n \in Messages : Settles(n)' => Settles(n)
    BY <1>1, <1>2, <1>3 DEF Settles, Promised
  <1>5. CASE DrainQueueOne
    <2>1. /\ termPC = "drainQueue" /\ UNCHANGED <<termPC, correlationMap, closed>> /\ buffer # <<>>
          /\ buffer' = Tail(buffer) /\ Resolve(Head(buffer), "terminated")
      BY <1>5 DEF DrainQueueOne, TerminatorAt, TerminatorFrame
    <2>2. "eventExecutor" \notin closed /\ Head(buffer) \in Messages
      BY <1>1, <2>1, ChannelFacts DEF StageInv, Begun
    <2>3. \A n \in Messages : Told(n) \/ n = Head(buffer) => Told(n)'
      BY <2>1, <2>2, ResolveTells DEF ShapeInv, Verdicts, Told
    <2>4. \A n \in Messages : Among(buffer, n) => Among(buffer', n) \/ n = Head(buffer)
      BY <1>1, <2>1, ReceiveSet
    <2> QED
      BY <1>1, <1>2, <1>3, <1>4, <2>1, <2>3, <2>4 DEF KeptOf
  <1>6. CASE DrainAckTableOne
    <2>1. PICK m \in Messages : m = reached
      BY <1>6 DEF DrainAckTableOne, ShapeInv, Reaching, Types
    <2>2. /\ termPC = "drainAcks" /\ UNCHANGED <<termPC, buffer, closed>> /\ Resolve(m, "terminated")
          /\ correlationMap' = correlationMap \ {m} /\ UNCHANGED state
      BY <1>6, <2>1 DEF DrainAckTableOne
    <2>3. "eventExecutor" \notin closed /\ state # "Started"
      BY <2>2 DEF StageInv, Begun
    <2>4. \A n \in Messages : Told(n) \/ n = m => Told(n)'
      BY <2>2, <2>3, ResolveTells DEF ShapeInv, Verdicts, Told
    <2> QED
      BY <1>1, <1>2, <1>3, <1>4, <2>2, <2>3, <2>4 DEF KeptOf
  <1>7. CASE ~DrainQueueOne /\ ~DrainAckTableOne
    <2>1. /\ UNCHANGED <<correlationMap, buffer, verdicts>>
          /\ termPC' \in {"executor", "done"} => termPC \in {"executor", "done"} \/ correlationMap = {}
      BY <1>7 DEF OnCanSend, NotifyGoroutine, NotifyWhenReady, Terminator, TerminatorAt,
         TerminatorFrame, TerminateStop,
           TerminateTasksDrained, TerminateTimeout, TerminateTask, TerminateUngraceful, TerminateJoin,
           TerminateRequest, TerminateAcksComplete, TerminateDeregister, DrainQueueClose,
           DrainQueueDone, AfterQueue, DrainAckTableLock, DrainAckTableReach, DrainAckTableDone,
           TerminateFinish, TerminateStart, vars, pipeVars, tellVars, termVars
    <2> QED
      BY <1>1, <1>2, <1>3, <1>4, <2>1 DEF KeptOf, Told
  <1> QED
    BY <1>5, <1>6, <1>7

(* That nothing is forgotten is inductive.                                 *)
LEMMA SomewhereInductive ==
    /\ Init => Somewhere
    /\ /\ ShapeInv /\ StageInv /\ OneOutcome /\ GivenUpLate /\ HasMessage /\ Somewhere
       /\ [Next]_vars
       => Somewhere'
  <1>1. Init => Somewhere
    BY DEF Init, Somewhere, KeptOf, Settles, Promised, Tabled
  <1>2. ASSUME ShapeInv, StageInv, OneOutcome, GivenUpLate, HasMessage, Somewhere, [Next]_vars, Trusted'
        PROVE  \A n \in Messages : KeptOf(n)'
    <2>1. Trusted /\ Lasting /\ \A n \in Messages : KeptOf(n)
      BY <1>2, TrustedBefore DEF Somewhere, Trusted
    <2>2. CASE \E m \in Messages : Publisher(m) \/ AwaitTimeout(m)
      BY <1>2, <2>1, <2>2, PublisherKept
    <2>3. CASE Run
      BY <1>2, <2>1, <2>3, RunKept
    <2>4. CASE AckHandler \/ (\E m \in Messages : OnAcknowledgement(m))
      BY <1>2, <2>1, <2>4, AckKept
    <2>5. CASE \/ Terminator \/ (\E kind \in TermKinds : TerminateStart(kind))
               \/ OnCanSend \/ NotifyGoroutine \/ NotifyWhenReady \/ UNCHANGED vars
      BY <1>2, <2>1, <2>5, TerminatorKept
    <2> QED
      BY <1>2, <2>2, <2>3, <2>4, <2>5 DEF Next
  <1> QED
    BY <1>1, <1>2 DEF Somewhere

-----------------------------------------------------------------------------
(***************************************************************************)
(* A graceful end of a buffered publisher: the terminator goes on from its *)
(* wait for acknowledgements only when the table is empty, so that what it *)
(* drains is what no task was submitted for, and nothing else is said of   *)
(* these messages.                                                         *)
(***************************************************************************)
Calm == Buffered /\ Lasting /\ graceful

TableEmpty == termPC \in {"deregister", "close"} \cup Ending => correlationMap = {}

CalmOf(m) ==
    /\ runPC = "done" /\ Among(buffer, m) => ~Flying(m) /\ ~Told(m)
    /\ GaveUp(verdicts[m]) => Len(verdicts[m]) = 1 /\ ~Flying(m) /\ ~Among(buffer, m)

GracefulEnd == Calm => TableEmpty /\ \A m \in Messages : CalmOf(m)

(* The grace period does not come back.                                    *)
LEMMA CalmBefore ==
  ASSUME StageInv, [Next]_vars, Calm'
  PROVE  Calm
  <1>1. CASE Terminator \/ (\E kind \in TermKinds : TerminateStart(kind))
    BY <1>1 DEF Terminator, TerminatorAt, TerminatorFrame, TerminateStop, TerminateTasksDrained,
       TerminateTimeout,
           TerminateTask, TerminateUngraceful, TerminateJoin, TerminateRequest, TerminateAcksComplete,
           TerminateDeregister, DrainQueueClose, DrainQueueOne, DrainQueueDone, DrainAckTableLock,
           DrainAckTableReach, DrainAckTableOne, DrainAckTableDone, TerminateFinish,
           TerminateStart, setupVars,
           Calm, Lasting, Buffered, StageInv, Begun
  <1>2. CASE ~Terminator /\ ~(\E kind \in TermKinds : TerminateStart(kind))
    <2>1. UNCHANGED <<strategy, termKind, graceful>>
      BY <1>2 DEF Next, Publisher, AwaitTimeout, PublishCheck, PublishDirectAdd,
           PublishDirectSend, PublishDirectRemove, PublishPush, PublishOverflow, PublishInterrupted,
           PublishSubmit, AwaitAcknowledgement, OnAcknowledgement, Run, RunCheck, RunTake, RunWait,
           RunComplete, RunHandOver, TaskAdd, TaskPublishOk, TaskPublishFails, TaskAwait, TaskRemove,
           TaskReadFull, TaskPop, TaskFail, TaskResolve, TaskSignal, AckHandler, AckLookup,
           AckResolve, AckDelete, OnCanSend, NotifyGoroutine, NotifyWhenReady, vars, setupVars, termVars
    <2> QED
      BY <2>1 DEF Calm, Lasting, Buffered
  <1> QED
    BY <1>1, <1>2

(* A message that is being published has neither outcome nor verdict, as   *)
(* long as the terminator has not come to drain.                           *)
LEMMA UnsentIsUntold ==
  ASSUME ShapeInv, OneOutcome, GivenUpLate, NEW m \in Messages, Unsent(m), termPC \notin Ending
  PROVE  ~Flying(m) /\ ~Told(m)
  <1>1. ~Flying(m) /\ ~Outcome(verdicts[m]) /\ ~GaveUp(verdicts[m])
    BY DEF OneOutcome, OutcomeOf, GivenUpLate
  <1> QED
    BY <1>1, ToldMeans DEF ShapeInv

(* publish pushes only before buffer is closed.                            *)
LEMMA PublisherCalm ==
  ASSUME ShapeInv, StageInv, OneOutcome, GivenUpLate, Calm,
         NEW m \in Messages, Publisher(m) \/ AwaitTimeout(m),
         TableEmpty, \A n \in Messages : CalmOf(n)
  PROVE  TableEmpty' /\ \A n \in Messages : CalmOf(n)'
  <1>1. /\ UNCHANGED <<runPC, ackPC, ackMsg, verdicts, termPC>> /\ buffer \in Seq(Messages)
    BY DEF Publisher, AwaitTimeout, PublishCheck, PublishDirectAdd, PublishDirectSend,
           PublishDirectRemove, PublishPush, PublishOverflow, PublishInterrupted, PublishSubmit,
           AwaitAcknowledgement, taskVars, ackVars, tellVars, termVars, ShapeInv, Types
  <1>2. UNCHANGED <<correlationMap, inflight>>
    <2>1. Buffered /\ pubPC[m] \notin {"added", "wouldblock", "remove"}
      BY DEF Calm, StageInv, Paths
    <2> QED
      BY <2>1 DEF Publisher, AwaitTimeout, PublishCheck, PublishDirectAdd, PublishDirectSend,
           PublishDirectRemove, PublishPush, PublishOverflow, PublishInterrupted, PublishSubmit,
           AwaitAcknowledgement
  <1>3. TableEmpty' /\ \A n \in Messages : (Flying(n)' <=> Flying(n)) /\ (Told(n)' <=> Told(n))
    BY <1>1, <1>2 DEF TableEmpty, Flying, Handling, Told
  <1>4. CASE PublishPush(m)
    <2>1. /\ pubPC[m] = "checked" /\ buffer' = Append(buffer, m) /\ "buffer" \notin closed
      BY <1>4 DEF PublishPush
    <2>2. termPC \notin Ending
      BY <2>1 DEF Calm, StageInv, Drained
    <2>3. ~Flying(m) /\ ~Told(m)
      BY <2>1, <2>2, UnsentIsUntold DEF Unsent
    <2>4. \A a : Among(buffer', a) => Among(buffer, a) \/ a = m
      BY <1>1, <2>1, SendSet
    <2>5. \A n \in Messages : ~GaveUp(verdicts[n])
      BY <2>2 DEF GivenUpLate
    <2> QED
      BY <1>1, <1>3, <2>3, <2>4, <2>5 DEF CalmOf
  <1>5. CASE ~PublishPush(m)
    <2>1. UNCHANGED buffer
      BY <1>5 DEF Publisher, AwaitTimeout, PublishCheck, PublishDirectAdd, PublishDirectSend,
           PublishDirectRemove, PublishOverflow, PublishInterrupted, PublishSubmit,
           AwaitAcknowledgement, pipeVars
    <2> QED
      BY <1>1, <1>3, <2>1 DEF CalmOf
  <1> QED
    BY <1>4, <1>5

(* When Run ends in step, only a message whose task is being submitted is  *)
(* left in buffer.                                                         *)
LEMMA RunCalm ==
  ASSUME ShapeInv, StageInv, OneOutcome, GivenUpLate, InStep, Calm, Run,
         TableEmpty, \A n \in Messages : CalmOf(n)
  PROVE  TableEmpty' /\ \A n \in Messages : CalmOf(n)'
  <1>1. /\ UNCHANGED <<pubPC, termPC, ackPC, ackMsg>> /\ runPC # "done" /\ buffer \in Seq(Messages)
    BY DEF Run, RunCheck, RunTake, RunWait, RunComplete, RunHandOver, TaskAdd, TaskPublishOk,
           TaskPublishFails, TaskAwait, TaskRemove, TaskReadFull, TaskPop, TaskFail, TaskResolve,
           TaskSignal, ackVars, termVars, ShapeInv, Types
  <1>2. termPC \notin Late
    BY <1>1 DEF Calm, StageInv, Drained
  <1>3. TableEmpty'
    BY <1>1, <1>2 DEF TableEmpty, Late
  <1>4. \A n \in Messages : GaveUp(verdicts'[n]) => GaveUp(verdicts[n])
    <2>1. CASE TaskResolve
      <3>1. task \in Messages /\ Resolve(task, "refused")
        BY <2>1 DEF TaskResolve, ShapeInv, Types, HasTask
      <3> QED
        BY <3>1, ResolveTells DEF ShapeInv, Verdicts
    <2>2. CASE ~TaskResolve
      <3>1. UNCHANGED verdicts
        BY <2>2 DEF Run, RunCheck, RunTake, RunWait, RunComplete, RunHandOver, TaskAdd, TaskPublishOk,
           TaskPublishFails, TaskAwait, TaskRemove, TaskReadFull, TaskPop, TaskFail, TaskSignal,
           tellVars
      <3> QED
        BY <3>1
    <2> QED
      BY <2>1, <2>2
  <1>5. \A n \in Messages : ~GaveUp(verdicts'[n])
    BY <1>2, <1>4 DEF GivenUpLate, Late
  <1>6. CASE RunComplete
    <2>1. /\ UNCHANGED <<buffer, taskQ, verdicts, inflight>>
          /\ (runPC = "take" /\ taskQ = <<>>) \/ runPC = "exit"
      BY <1>6 DEF RunComplete, pipeVars, tellVars
    <2>2. "terminateTask" \notin closed /\ runPC # "exit"
      BY DEF Calm, StageInv, Interrupts
    <2>3. Match /\ Running = 0 /\ Len(taskQ) = 0
      BY <1>1, <2>1, <2>2 DEF InStep, Running, Executing
    <2>4. Len(buffer) = Pushing
      BY <2>3 DEF Match, Pushing
    <2>5. \A n \in Messages : Among(buffer, n) => pubPC[n] = "pushed"
      <3>1. CASE \E n \in Messages : pubPC[n] = "pushed"
        <4>1. PICK n \in Messages : pubPC[n] = "pushed"
          BY <3>1
        <4>2. Len(buffer) = 1 /\ buffer[1] = n
          BY <2>3, <2>4, <4>1 DEF Pushing, Match
        <4>3. \A i \in DOMAIN buffer : i = 1
          BY <1>1, <4>2
        <4> QED
          BY <4>1, <4>2, <4>3 DEF Among
      <3>2. CASE ~(\E n \in Messages : pubPC[n] = "pushed")
        <4>1. Len(buffer) = 0
          BY <2>4, <3>2 DEF Pushing
        <4>2. DOMAIN buffer = {}
          BY <1>1, <4>1
        <4> QED
          BY <4>2 DEF Among
      <3> QED
        BY <3>1, <3>2
    <2>6. \A n \in Messages : Among(buffer, n) => ~Flying(n) /\ ~Told(n)
      BY <1>2, <2>5, UnsentIsUntold DEF Unsent, Late
    <2>7. \A n \in Messages : (Flying(n)' <=> Flying(n)) /\ (Told(n)' <=> Told(n))
      BY <1>1, <2>1 DEF Flying, Handling, Told
    <2> QED
      BY <1>3, <1>5, <2>1, <2>6, <2>7 DEF CalmOf
  <1>7. CASE ~RunComplete
    <2>1. runPC' # "done"
      BY <1>7 DEF Run, RunCheck, RunTake, RunWait, RunHandOver, TaskAdd, TaskPublishOk,
           TaskPublishFails, TaskAwait, TaskRemove, TaskReadFull, TaskPop, TaskFail, TaskResolve,
           TaskSignal, TaskDone, AfterWithdrawal
    <2> QED
      BY <1>3, <1>5, <2>1 DEF CalmOf
  <1> QED
    BY <1>6, <1>7

(* An acknowledgement belongs to a message that is flying.                 *)
LEMMA AckCalm ==
  ASSUME ShapeInv, StageInv, AckHandler \/ (\E m \in Messages : OnAcknowledgement(m)),
         TableEmpty, \A n \in Messages : CalmOf(n)
  PROVE  TableEmpty' /\ \A n \in Messages : CalmOf(n)'
  <1>1. UNCHANGED <<buffer, runPC, termPC>>
    BY DEF AckHandler, OnAcknowledgement, AckLookup, AckResolve, AckDelete, pipeVars, taskVars, termVars
  <1>2. correlationMap = {} => correlationMap' = {}
    BY DEF AckHandler, OnAcknowledgement, AckLookup, AckResolve, AckDelete, RemoveCorrelationContext
  <1>3. \A n \in Messages : Flying(n)' => Flying(n)
    <2>1. CASE \E m \in Messages : OnAcknowledgement(m)
      BY <2>1 DEF OnAcknowledgement, Flying, Handling
    <2>2. CASE AckHandler
      BY <2>2 DEF AckHandler, AckLookup, AckResolve, AckDelete, Flying, Handling
    <2> QED
      BY <2>1, <2>2
  <1>4. CASE AckResolve
    <2>1. ackMsg \in Messages /\ Resolve(ackMsg, "acked") /\ ackPC = "resolve"
      BY <1>4 DEF AckResolve, ShapeInv, Types
    <2>2. /\ \A n \in Messages : n # ackMsg => verdicts'[n] = verdicts[n]
          /\ GaveUp(verdicts'[ackMsg]) => GaveUp(verdicts[ackMsg])
      BY <2>1, ResolveTells DEF ShapeInv, Verdicts
    <2>3. \A n \in Messages : n = ackMsg => Flying(n)
      BY <2>1 DEF Flying, Handling
    <2> QED
      BY <1>1, <1>2, <1>3, <2>1, <2>2, <2>3 DEF TableEmpty, CalmOf, Told
  <1>5. CASE ~AckResolve
    <2>1. UNCHANGED verdicts
      BY <1>5 DEF AckHandler, OnAcknowledgement, AckLookup, AckDelete, tellVars
    <2> QED
      BY <1>1, <1>2, <1>3, <2>1 DEF TableEmpty, CalmOf, Told
  <1> QED
    BY <1>4, <1>5

(* The terminator leaves its wait when ackHandler has emptied the table.   *)
LEMMA TerminatorCalm ==
  ASSUME SignalInv, ShapeInv, StageInv, Calm, Calm',
         \/ Terminator \/ (\E kind \in TermKinds : TerminateStart(kind))
         \/ OnCanSend \/ NotifyGoroutine \/ NotifyWhenReady \/ UNCHANGED vars,
         TableEmpty, \A n \in Messages : CalmOf(n)
  PROVE  TableEmpty' /\ \A n \in Messages : CalmOf(n)'
  <1>1. UNCHANGED <<runPC, ackPC, ackMsg, inflight>> /\ buffer \in Seq(Messages)
    BY DEF OnCanSend, NotifyGoroutine, NotifyWhenReady, Terminator, TerminatorAt, TerminatorFrame,
       TerminateStop,
           TerminateTasksDrained, TerminateTimeout, TerminateTask, TerminateUngraceful, TerminateJoin,
           TerminateRequest, TerminateAcksComplete, TerminateDeregister, DrainQueueClose,
           DrainQueueOne, DrainQueueDone, DrainAckTableLock, DrainAckTableReach, DrainAckTableOne,
           DrainAckTableDone,
           TerminateFinish, TerminateStart, vars, taskVars, ackVars, ShapeInv, Types
  <1>2. \A n \in Messages : Flying(n)' <=> Flying(n)
    BY <1>1 DEF Flying, Handling
  <1>3. TableEmpty'
    <2>1. correlationMap = {} => correlationMap' = {}
      BY DEF OnCanSend, NotifyGoroutine, NotifyWhenReady, Terminator, TerminateStop,
           TerminateTasksDrained, TerminateTimeout, TerminateTask, TerminateUngraceful, TerminateJoin,
           TerminateRequest, TerminateAcksComplete, TerminateDeregister, DrainQueueClose,
           DrainQueueOne, DrainQueueDone, DrainAckTableLock, DrainAckTableReach, DrainAckTableOne,
           DrainAckTableDone,
           TerminateFinish, TerminateStart, vars
    <2>2. termPC \notin {"task", "ungraceful", "join"} /\ Buffered /\ graceful'
      BY DEF Calm, StageInv, Interrupts
    <2>3. completes > 0 => correlationMap = {}
      BY <2>2 DEF SignalInv, SignalledOnEmpty
    <2>4. termPC' \in {"deregister", "close"} \cup Ending =>
             termPC \in {"deregister", "close"} \cup Ending \/ correlationMap = {}
      BY <2>2, <2>3 DEF OnCanSend, NotifyGoroutine, NotifyWhenReady, Terminator, TerminatorAt,
         TerminatorFrame, TerminateStop,
           TerminateTasksDrained, TerminateTimeout, TerminateTask, TerminateUngraceful, TerminateJoin,
           TerminateRequest, RemainingAcks, TerminateAcksComplete, TerminateDeregister,
           DrainQueueClose, DrainQueueOne, DrainQueueDone, AfterQueue, DrainAckTableLock,
           DrainAckTableReach, DrainAckTableOne, DrainAckTableDone, TerminateFinish,
           TerminateStart, vars, termVars,
           Ending, Cleared
    <2> QED
      BY <2>1, <2>4 DEF TableEmpty
  <1>4. CASE DrainQueueOne
    <2>1. /\ termPC = "drainQueue" /\ buffer # <<>>
          /\ buffer' = Tail(buffer) /\ Resolve(Head(buffer), "terminated")
      BY <1>4 DEF DrainQueueOne, TerminatorAt, TerminatorFrame
    <2>2. /\ "eventExecutor" \notin closed /\ Head(buffer) \in Messages /\ runPC = "done"
      BY <1>1, <2>1, ChannelFacts DEF StageInv, Begun, Drained, Calm, Late, Ending
    <2>3. /\ \A n \in Messages : n # Head(buffer) => verdicts'[n] = verdicts[n]
          /\ Len(verdicts'[Head(buffer)]) = Len(verdicts[Head(buffer)]) + 1
      BY <2>1, <2>2, ResolveTells DEF ShapeInv, Verdicts
    <2>4. /\ \A n \in Messages : Among(buffer', n) => Among(buffer, n) /\ n # Head(buffer)
          /\ Among(buffer, Head(buffer))
      BY <1>1, <2>1, ReceiveSet DEF ShapeInv, Once
    <2>5. /\ ~Flying(Head(buffer)) /\ verdicts[Head(buffer)] = <<>>
      BY <2>2, <2>4 DEF CalmOf, Told
    <2>6. Len(verdicts'[Head(buffer)]) = 1
      BY <2>3, <2>5
    <2>7. \A n \in Messages : n # Head(buffer) => CalmOf(n)'
      BY <1>1, <1>2, <2>3, <2>4 DEF CalmOf, Told
    <2>8. \A n \in Messages : n = Head(buffer) => CalmOf(n)'
      BY <1>2, <2>4, <2>5, <2>6 DEF CalmOf
    <2> QED
      BY <1>3, <2>7, <2>8
  <1>5. CASE DrainAckTableOne
    BY <1>5 DEF DrainAckTableOne, ShapeInv, Reaching, TableEmpty, Ending, Cleared
  <1>6. CASE ~DrainQueueOne /\ ~DrainAckTableOne
    <2>1. UNCHANGED <<buffer, verdicts>>
      BY <1>6 DEF OnCanSend, NotifyGoroutine, NotifyWhenReady, Terminator, TerminatorAt,
         TerminatorFrame, TerminateStop,
           TerminateTasksDrained, TerminateTimeout, TerminateTask, TerminateUngraceful, TerminateJoin,
           TerminateRequest, TerminateAcksComplete, TerminateDeregister, DrainQueueClose,
           DrainQueueDone, DrainAckTableLock, DrainAckTableReach, DrainAckTableDone,
           TerminateFinish, TerminateStart, vars, pipeVars, tellVars
    <2> QED
      BY <1>1, <1>2, <1>3, <2>1 DEF CalmOf, Told
  <1> QED
    BY <1>4, <1>5, <1>6

(* The graceful end is inductive.                                          *)
LEMMA GracefulInductive ==
    /\ Init => GracefulEnd
    /\ /\ SignalInv /\ ShapeInv /\ StageInv /\ OneOutcome /\ GivenUpLate /\ InStep /\ GracefulEnd
       /\ [Next]_vars
       => GracefulEnd'
  <1>1. Init => GracefulEnd
    BY DEF Init, GracefulEnd, TableEmpty, CalmOf, Among, GaveUp, Ending, Cleared
  <1>2. ASSUME SignalInv, ShapeInv, StageInv, OneOutcome, GivenUpLate, InStep, GracefulEnd,
               [Next]_vars, Calm'
        PROVE  TableEmpty' /\ \A n \in Messages : CalmOf(n)'
    <2>1. Calm /\ TableEmpty /\ \A n \in Messages : CalmOf(n)
      BY <1>2, CalmBefore DEF GracefulEnd
    <2>2. CASE \E m \in Messages : Publisher(m) \/ AwaitTimeout(m)
      BY <1>2, <2>1, <2>2, PublisherCalm
    <2>3. CASE Run
      BY <1>2, <2>1, <2>3, RunCalm
    <2>4. CASE AckHandler \/ (\E m \in Messages : OnAcknowledgement(m))
      BY <1>2, <2>1, <2>4, AckCalm
    <2>5. CASE \/ Terminator \/ (\E kind \in TermKinds : TerminateStart(kind))
               \/ OnCanSend \/ NotifyGoroutine \/ NotifyWhenReady \/ UNCHANGED vars
      BY <1>2, <2>1, <2>5, TerminatorCalm
    <2> QED
      BY <1>2, <2>2, <2>3, <2>4, <2>5 DEF Next
  <1> QED
    BY <1>1, <1>2 DEF GracefulEnd

(* All the parts together.                                                 *)
VerdictInv ==
    /\ SignalInv /\ ShapeInv /\ StageInv /\ OneOutcome /\ GivenUpLate /\ InStep
    /\ HasMessage /\ Somewhere /\ GracefulEnd

(* The invariant of the publisher as a whole, for any number of messages,  *)
(* any buffer size, back-pressure strategy and way of terminating.         *)
THEOREM VerdictInvariance == Spec => []VerdictInv
  <1>1. Init => ShapeInv /\ StageInv /\ OneOutcome /\ GivenUpLate /\ InStep
                /\ HasMessage /\ Somewhere /\ GracefulEnd
    BY ShapeInductive, StageInductive, OutcomeInductive, GivenUpInductive, InStepInductive,
       MessageInductive, SomewhereInductive, GracefulInductive
  <1>2. SignalInv /\ VerdictInv /\ [Next]_vars =>
           ShapeInv' /\ StageInv' /\ OneOutcome' /\ GivenUpLate' /\ InStep'
           /\ HasMessage' /\ Somewhere' /\ GracefulEnd'
    BY ShapeInductive, StageInductive, OutcomeInductive, GivenUpInductive, InStepInductive,
       MessageInductive, SomewhereInductive, GracefulInductive DEF VerdictInv
  <1>3. Spec => []SignalInv
    BY Invariance
  <1> QED
    BY <1>1, <1>2, <1>3, PTL DEF Spec, VerdictInv

(* When Terminate has returned, whoever was promised a verdict has one.    *)
LEMMA EverybodyIsTold ==
  ASSUME VerdictInv, state = "Terminated", Trusted, NEW m \in Messages, Settles(m)
  PROVE  Told(m)
  <1>1. termPC = "done" /\ runPC = "done" /\ buffer = <<>>
    BY DEF VerdictInv, StageInv, Begun, Paths, Drained, Trusted, Late, Ending, Cleared
  <1>2. ~Among(buffer, m)
    BY <1>1 DEF Among
  <1> QED
    BY <1>1, <1>2 DEF VerdictInv, Somewhere, KeptOf

(* Terminate forgets no accepted message: when it returns each one's       *)
(* context has been resolved, once if the termination was graceful.        *)
THEOREM EveryAcceptedIsResolved == Spec => []AcceptedIsResolved
  <1>1. VerdictInv => AcceptedIsResolved
    <2> SUFFICES ASSUME VerdictInv, state = "Terminated", termKind # "down"
                 PROVE  /\ ~mispopped => \A m \in Messages : Settles(m) => verdicts[m] # <<>>
                        /\ graceful /\ Buffered =>
                              \A m \in Messages : Promised(m) => Len(verdicts[m]) = 1
      BY DEF AcceptedIsResolved
    <2>1. Trusted => \A m \in Messages : Settles(m) => verdicts[m] # <<>>
      BY EverybodyIsTold DEF Told
    <2>2. ASSUME graceful, Buffered, NEW m \in Messages, Promised(m) PROVE Len(verdicts[m]) = 1
      <3>1. Calm
        BY <2>2 DEF Calm, Lasting
      <3>2. ~mispopped
        BY <3>1 DEF VerdictInv, StageInv, Interrupts, InStep, Calm
      <3>3. verdicts[m] \in Seq(Verdicts) /\ verdicts[m] # <<>>
        BY <2>1, <2>2, <3>2 DEF Trusted, Lasting, Settles, VerdictInv, ShapeInv, Types
      <3>4. CASE GaveUp(verdicts[m])
        BY <3>1, <3>4 DEF VerdictInv, GracefulEnd, CalmOf
      <3>5. CASE ~GaveUp(verdicts[m])
        <4>1. \A i, j \in DOMAIN verdicts[m] : i = j
          BY <2>2, <3>5 DEF GaveUp, VerdictInv, OneOutcome, OutcomeOf, Single
        <4>2. Len(verdicts[m]) \in Nat /\ Len(verdicts[m]) > 0 /\ DOMAIN verdicts[m] = 1 .. Len(verdicts[m])
          BY <3>3
        <4>3. 1 \in DOMAIN verdicts[m] /\ Len(verdicts[m]) \in DOMAIN verdicts[m]
          BY <4>2
        <4> QED
          BY <4>1, <4>3
      <3> QED
        BY <3>4, <3>5
    <2> QED
      BY <2>1, <2>2 DEF Trusted, Lasting
  <1>2. QED BY <1>1, VerdictInvariance, PTL

(* Terminate returns nil only if every accepted message was settled by the *)
(* broker or by its failed send, and no message ever has two outcomes.     *)
THEOREM NilReallyMeansSettled == Spec => []NilMeansSettled
  <1>1. VerdictInv => NilMeansSettled
    <2> SUFFICES ASSUME VerdictInv PROVE NilMeansSettled
      OBVIOUS
    <2>1. ASSUME state = "Terminated", termKind # "down", ~mispopped, discarded = 0,
                 NEW m \in Messages, Settles(m)
          PROVE  Outcome(verdicts[m])
      <3>1. Told(m)
        BY <2>1, EverybodyIsTold DEF Trusted, Lasting
      <3>2. ~GaveUp(verdicts[m])
        BY <2>1 DEF VerdictInv, GivenUpLate
      <3> QED
        BY <3>1, <3>2, ToldMeans DEF VerdictInv, ShapeInv
    <2>2. ASSUME NEW m \in Messages
          PROVE  Cardinality({i \in DOMAIN verdicts[m] : verdicts[m][i] # "terminated"}) <= 1
      <3> DEFINE I == {i \in DOMAIN verdicts[m] : verdicts[m][i] # "terminated"}
      <3>1. \A i, j \in I : i = j
        BY <2>2 DEF VerdictInv, OneOutcome, OutcomeOf, Single
      <3>2. CASE I = {}
        BY <3>2, FS_EmptySet
      <3>3. CASE I # {}
        <4>1. PICK i \in I : TRUE
          BY <3>3
        <4>2. I = {i}
          BY <3>1, <4>1
        <4>3. Cardinality({i}) = 1
          BY FS_Singleton
        <4>4. Cardinality(I) = 1
          BY <4>2, <4>3
        <4> QED
          BY <4>4
      <3> QED
        BY <3>2, <3>3
    <2> QED
      BY <2>1, <2>2 DEF NilMeansSettled, Outcome
  <1>2. QED BY <1>1, VerdictInvariance, PTL
=============================================================================
