------------------------- MODULE RequestReply_proofs -------------------------
(***************************************************************************)
(* The safety properties of the request-reply publisher for any number of  *)
(* requests and replies, and any configuration of its buffer.              *)
(***************************************************************************)
EXTENDS RequestReply, TLAPS

(* A request on its way through publish, and one whose outcome closure is  *)
(* at work.                                                                *)
Publishing == {"checked", "created", "signal", "signalError", "push", "pushed", "fail"}
Waiting    == {"waitSent", "waitReply", "dispatch", "close"}
PubPCs     == Publishing \cup Waiting \cup {"idle", "refused", "done", "panicked"}
Outcomes   == {"none", "reply", "timeout", "sendError", "terminated"}
Ended      == {"closed", "replyClosed"}
LastPCs    == {"remove", "removeLock", "drain", "drainSignal", "closeAll", "done"}
TermPCs    == {"idle", "stop", "graceful", "interrupt", "ungraceful", "awaitTasks", "join", "request",
               "awaitReplies"} \cup LastPCs

(* The variables the argument needs have their type.                       *)
Types ==
    /\ pubPC \in [Requests -> PubPCs] /\ outcome \in [Requests -> Outcomes]
    /\ told \in [Requests -> Seq(Outcomes)] /\ entries \subseteq Requests
    /\ sentChan \in [Requests -> {"empty", "ok", "error", "closed"}]
    /\ result \in [Requests -> {"empty", "reply"} \cup Ended]
    /\ graceful \in BOOLEAN /\ crashed \in BOOLEAN /\ termPC \in TermPCs

(* A goroutine moves on.                                                   *)
LEMMA GotoTypes ==
    ASSUME Types, NEW r \in Requests, NEW l \in PubPCs, Goto(r, l)
    PROVE  /\ pubPC' \in [Requests -> PubPCs] /\ pubPC'[r] = l
           /\ \A q \in Requests : q # r => pubPC'[q] = pubPC[q]
BY DEF Goto, Types

(* What signalling the outcome of a send leaves in the channels.           *)
LEMMA SignalTypes ==
    ASSUME Types, NEW r, NEW actor, NEW v \in {"ok", "error"},
           SignalRequestCorrelationSent(actor, r, v) \/ SignalBlocks(actor, r)
    PROVE  /\ sentChan' \in [Requests -> {"empty", "ok", "error", "closed"}] /\ crashed' \in BOOLEAN
           /\ \A q \in Requests : sentChan'[q] = "closed" => sentChan[q] = "closed"
           /\ crashed' => crashed \/ (r \in entries /\ sentChan[r] = "closed")
<1>1. sentChan \in [Requests -> {"empty", "ok", "error", "closed"}] /\ crashed \in BOOLEAN
      /\ entries \subseteq Requests
  BY DEF Types
<1>2. CASE SignalBlocks(actor, r)
  BY <1>1, <1>2 DEF SignalBlocks
<1>3. CASE SignalRequestCorrelationSent(actor, r, v)
  <2>1. CASE r \in entries /\ sentChan[r] = "closed"
    BY <1>1, <1>3, <2>1 DEF SignalRequestCorrelationSent
  <2>2. CASE ~(r \in entries /\ sentChan[r] = "closed")
    <3>1. UNCHANGED crashed /\ sentChan' = [sentChan EXCEPT ![r] = IF r \in entries THEN v ELSE @]
      BY <1>3, <2>2 DEF SignalRequestCorrelationSent
    <3>2. QED BY <1>1, <3>1
  <2>3. QED BY <2>1, <2>2
<1>4. QED BY <1>2, <1>3

(* What removing an entry leaves.                                          *)
LEMMA CloseTypes ==
    ASSUME Types, NEW r \in Requests, CloseReplyCorrelation(r)
    PROVE  /\ sentChan' \in [Requests -> {"empty", "ok", "error", "closed"}] /\ UNCHANGED crashed
           /\ result' \in [Requests -> {"empty", "reply"} \cup Ended]
           /\ entries' = entries \ {r}
           /\ \A q \in Requests : q # r => sentChan'[q] = sentChan[q] /\ result'[q] = result[q]
           /\ \/ UNCHANGED closed
              \/ /\ entries = {r} /\ "requestCorrelateComplete" \in closed
                 /\ closed' = closed \cup {"correlationComplete"}
BY DEF Types, CloseReplyCorrelation, CompletesTable, Ended

(* Publishing and waiting keep the types.                                  *)
LEMMA RequestTypes ==
    ASSUME Types, NEW r \in Requests, PublishCheck(r) \/ Publish(r) \/ ReplyOutcome(r)
    PROVE  Types'
<1>1. UNCHANGED <<termPC, termKind, graceful, raced, state>>
  BY DEF PublishCheck, Publish, CreateReplyCorrelation, PublishDirect, PublishSignal, PublishFail,
         PublishPush, PublishRefused, PublishSubmit, ReplyOutcome, AwaitSent, AwaitReply,
         DispatchOutcome, CloseOutcome, termVars
<1>2. \E l \in PubPCs : Goto(r, l)
  BY DEF PublishCheck, Publish, CreateReplyCorrelation, PublishDirect, PublishSignal, PublishFail,
         PublishPush, PublishRefused, PublishSubmit, ReplyOutcome, AwaitSent, AwaitReply,
         DispatchOutcome, CloseOutcome, Gives, PubPCs, Publishing, Waiting
<1>3. pubPC' \in [Requests -> PubPCs]
  BY <1>2, GotoTypes
<1>4. CASE PublishCheck(r) \/ CreateReplyCorrelation(r) \/ PublishDirect(r) \/ PublishPush(r)
           \/ PublishRefused(r) \/ PublishSubmit(r)
  <2>1. UNCHANGED <<outcome, told, sentChan, result, crashed>> /\ entries' \subseteq Requests
    BY <1>4 DEF PublishCheck, CreateReplyCorrelation, PublishDirect, PublishPush, PublishRefused,
                PublishSubmit, tellVars, sentVars, Types
  <2>2. QED BY <1>1, <1>3, <2>1 DEF Types
<1>5. CASE PublishSignal(r)
  <2>1. UNCHANGED <<outcome, told, result, entries>>
    BY <1>5 DEF PublishSignal, tellVars
  <2>2. \E v \in {"ok", "error"} : SignalRequestCorrelationSent("caller", r, v)
    BY <1>5 DEF PublishSignal
  <2>3. QED BY <1>1, <1>3, <2>1, <2>2, SignalTypes DEF Types
<1>6. CASE PublishFail(r) \/ CloseOutcome(r)
  <2>1. UNCHANGED <<outcome, told>> /\ CloseReplyCorrelation(r)
    BY <1>6 DEF PublishFail, CloseOutcome, tellVars
  <2>2. QED BY <1>1, <1>3, <2>1, CloseTypes DEF Types
<1>7. CASE AwaitSent(r)
  <2>1. UNCHANGED <<told, result, entries, crashed>>
    BY <1>7 DEF AwaitSent
  <2>2. sentChan' \in [Requests -> {"empty", "ok", "error", "closed"}]
    BY <1>7 DEF AwaitSent, Types
  <2>3. \E f \in Outcomes : outcome' = [outcome EXCEPT ![r] = f]
    BY <1>7 DEF AwaitSent, Gives, Outcomes
  <2>4. QED BY <1>1, <1>3, <2>1, <2>2, <2>3 DEF Types
<1>8. CASE AwaitReply(r)
  <2>1. UNCHANGED <<told, sentChan, entries, crashed>>
    BY <1>8 DEF AwaitReply, sentVars
  <2>2. result' \in [Requests -> {"empty", "reply"} \cup Ended]
    BY <1>8 DEF AwaitReply, Types, Ended
  <2>3. \E f \in Outcomes : outcome' = [outcome EXCEPT ![r] = f]
    BY <1>8 DEF AwaitReply, Gives, Outcomes
  <2>4. QED BY <1>1, <1>3, <2>1, <2>2, <2>3 DEF Types
<1>9. CASE DispatchOutcome(r)
  <2>1. UNCHANGED <<sentChan, result, entries, crashed>>
    BY <1>9 DEF DispatchOutcome, sentVars
  <2>2. outcome' = [outcome EXCEPT ![r] = "none"] /\ told' = [told EXCEPT ![r] = Append(@, outcome[r])]
    BY <1>9 DEF DispatchOutcome, Gives
  <2>3. outcome' \in [Requests -> Outcomes] /\ told' \in [Requests -> Seq(Outcomes)]
    BY <2>2 DEF Types, Outcomes
  <2>4. QED BY <1>1, <1>3, <2>1, <2>3 DEF Types
<1>10. QED BY <1>4, <1>5, <1>6, <1>7, <1>8, <1>9 DEF Publish, ReplyOutcome

(* What the sender, the session and the requestor do to a request: at most *)
(* put an outcome or a reply into its channels.                            *)
Passive ==
    /\ UNCHANGED <<strategy, pubPC, outcome, told, entries, graceful, termPC, termKind, raced, closed>>
    /\ sentChan' \in [Requests -> {"empty", "ok", "error", "closed"}]
    /\ result' \in [Requests -> {"empty", "reply"} \cup Ended] /\ crashed' \in BOOLEAN
    /\ \A r \in Requests : /\ sentChan'[r] = "closed" => sentChan[r] = "closed"
                           /\ result'[r] \in Ended => result[r] \in Ended
    /\ crashed' => \/ crashed
                   \/ runPC # "done" /\ task \in entries /\ sentChan[task] = "closed"

(* Those steps.                                                            *)
PassiveStep ==
    \/ Run \/ HandleReplyMessage \/ TerminateRequestorSweep \/ TerminateRequestorStart \/ SessionLost
    \/ OtherLeaksLock \/ UNCHANGED vars \/ \E r \in Requests : OnReplyMessage(r)

(* They are passive, and do not bring Run back.                            *)
LEMMA PassiveKeeps ==
    ASSUME Types, PassiveStep
    PROVE  Passive /\ UNCHANGED <<state, startPC>> /\ (runPC = "done" => runPC' = "done")
<1>1. /\ UNCHANGED <<strategy, pubPC, outcome, told, entries, graceful, termPC, termKind, raced,
                     closed, state, startPC>>
  BY DEF PassiveStep, Run, TaskTake, RunExit, TaskAwait, TaskSignal, TaskBlocked, TaskPop,
     HandleReplyMessage, TerminateRequestorSweep, TerminateRequestorStart, SessionLost,
     OtherLeaksLock, OnReplyMessage, vars, termVars, tellVars, setupVars
<1>2. runPC = "done" => runPC' = "done"
  BY DEF PassiveStep, Run, TaskTake, RunExit, TaskAwait, TaskSignal, TaskBlocked, TaskPop,
     HandleReplyMessage, TerminateRequestorSweep, TerminateRequestorStart, SessionLost,
     OtherLeaksLock, OnReplyMessage, vars, taskVars
<1>3. /\ sentChan \in [Requests -> {"empty", "ok", "error", "closed"}]
      /\ result \in [Requests -> {"empty", "reply"} \cup Ended] /\ crashed \in BOOLEAN
  BY DEF Types
<1>4. CASE TaskSignal \/ TaskBlocked
  <2>1. UNCHANGED result /\ runPC # "done"
    BY <1>4 DEF TaskSignal, TaskBlocked
  <2>2. \E v \in {"ok", "error"} : \/ SignalRequestCorrelationSent("task", task, v)
                                   \/ SignalBlocks("task", task)
    BY <1>4 DEF TaskSignal, TaskBlocked
  <2>3. /\ sentChan' \in [Requests -> {"empty", "ok", "error", "closed"}] /\ crashed' \in BOOLEAN
        /\ \A q \in Requests : sentChan'[q] = "closed" => sentChan[q] = "closed"
        /\ crashed' => crashed \/ (task \in entries /\ sentChan[task] = "closed")
    BY <2>2, SignalTypes
  <2>4. QED BY <1>1, <1>2, <1>3, <2>1, <2>3 DEF Passive
<1>5. CASE HandleReplyMessage
  <2>1. UNCHANGED <<sentChan, crashed>>
    BY <1>5 DEF HandleReplyMessage, sentVars
  <2>2. \/ UNCHANGED result
        \/ result' = [result EXCEPT ![replyReq] = IF @ = "empty" THEN "reply" ELSE @]
    BY <1>5 DEF HandleReplyMessage
  <2>3. /\ result' \in [Requests -> {"empty", "reply"} \cup Ended]
        /\ \A q \in Requests : result'[q] \in Ended => result[q] \in Ended
    BY <1>3, <2>2 DEF Ended
  <2>4. QED BY <1>1, <1>2, <1>3, <2>1, <2>3 DEF Passive
<1>6. CASE UNCHANGED <<sentChan, crashed, result>>
  BY <1>1, <1>2, <1>3, <1>6 DEF Passive
<1>7. CASE PassiveStep /\ ~TaskSignal /\ ~TaskBlocked /\ ~HandleReplyMessage
  <2>1. UNCHANGED <<sentChan, crashed, result>>
    BY <1>7 DEF PassiveStep, Run, TaskTake, RunExit, TaskAwait, TaskPop, TerminateRequestorSweep,
       TerminateRequestorStart, SessionLost, OtherLeaksLock, OnReplyMessage, vars, sentVars
  <2>2. QED BY <1>6, <2>1
<1>8. QED BY <1>4, <1>5, <1>7

(* The steps that begin and carry out the termination leave the            *)
(* goroutines and what they were told alone.                               *)
LEMMA TerminatorKeeps ==
    ASSUME Types, Terminator \/ TerminateSwap \/ Start
    PROVE  UNCHANGED <<strategy, pubPC, outcome, told, entries, runPC>> /\ termPC' \in TermPCs
<1>1. UNCHANGED <<strategy, pubPC, outcome, told, entries, runPC>>
  BY DEF Terminator, TerminateStop, TerminateGraceful, TerminateInterrupt, TerminateUngraceful,
     TermFrame, TerminateTasks, TerminateJoin, TerminateRequest, TerminateReplies,
     RemoveRequestorReplyHandler, DrainQueue, DrainSignal, TerminateCloseAll, TerminateSwap, Start,
     StartAdd, StartSubscribe, StartWithdraw, termVars, setupVars, tellVars, taskVars
<1>2. termPC' \in TermPCs
  BY DEF Terminator, TerminateStop, TerminateGraceful, TerminateInterrupt, TerminateUngraceful,
     TermFrame, TerminateTasks, TerminateJoin, TerminateRequest, TerminateReplies,
     RemoveRequestorReplyHandler, DrainQueue, DrainSignal, TerminateCloseAll, TerminateSwap, Start,
     StartAdd, StartSubscribe, StartWithdraw, termVars, TermIs, TermPCs, LastPCs, Types
<1>3. QED BY <1>1, <1>2

(* Except the last of them, and the signal for a drained request, they     *)
(* touch no channel of a request.                                          *)
LEMMA TerminatorChannels ==
    ASSUME Terminator \/ TerminateSwap \/ Start, ~TerminateCloseAll, ~DrainSignal
    PROVE  UNCHANGED <<sentChan, result, crashed>>
BY DEF Terminator, TerminateStop, TerminateGraceful, TerminateInterrupt, TerminateUngraceful,
   TermFrame, TerminateTasks, TerminateJoin, TerminateRequest, TerminateReplies,
   RemoveRequestorReplyHandler, DrainQueue, TerminateSwap, Start, StartAdd, StartSubscribe,
   StartWithdraw, termVars, sentVars

(* The last of them closes the channels of every entry.                    *)
LEMMA CloseAllEffects ==
    ASSUME Types, TerminateCloseAll
    PROVE  /\ sentChan' \in [Requests -> {"empty", "ok", "error", "closed"}]
           /\ result' \in [Requests -> {"empty", "reply"} \cup Ended] /\ crashed' \in BOOLEAN
           /\ \A r \in Requests \ entries : sentChan'[r] = sentChan[r] /\ result'[r] = result[r]
           /\ crashed' => crashed \/ \E r \in entries : result[r] \in Ended
           /\ termPC = "closeAll" /\ termPC' = "done" /\ state' = "Terminated"
           /\ closed' = closed \cup {"correlationComplete"} /\ UNCHANGED <<termKind, graceful, raced>>
<1>1. /\ sentChan \in [Requests -> {"empty", "ok", "error", "closed"}]
      /\ result \in [Requests -> {"empty", "reply"} \cup Ended] /\ crashed \in BOOLEAN
  BY DEF Types
<1>2. /\ sentChan' \in [Requests -> {"empty", "ok", "error", "closed"}]
      /\ \A r \in Requests \ entries : sentChan'[r] = sentChan[r]
  BY <1>1 DEF TerminateCloseAll
<1>3. /\ result' \in [Requests -> {"empty", "reply"} \cup Ended]
      /\ \A r \in Requests \ entries : result'[r] = result[r]
  BY <1>1 DEF TerminateCloseAll, Ended
<1>4. crashed' = (crashed \/ \E r \in entries : result[r] \in {"closed", "replyClosed"})
  BY DEF TerminateCloseAll
<1>5. crashed' \in BOOLEAN /\ (crashed' => crashed \/ \E r \in entries : result[r] \in Ended)
  BY <1>4, Zenon DEF Ended
<1>6. /\ termPC = "closeAll" /\ termPC' = "done" /\ state' = "Terminated"
      /\ closed' = closed \cup {"correlationComplete"} /\ UNCHANGED <<termKind, graceful, raced>>
  BY DEF TerminateCloseAll, TermIs
<1>7. QED BY <1>2, <1>3, <1>5, <1>6

(* All this keeps the types.                                               *)
LEMMA TerminatorTypes ==
    ASSUME Types, Terminator \/ TerminateSwap \/ Start
    PROVE  Types'
<1>1. UNCHANGED <<strategy, pubPC, outcome, told, entries, runPC>> /\ termPC' \in TermPCs
  BY TerminatorKeeps
<1>2. graceful' \in BOOLEAN
  BY DEF Terminator, TerminateStop, TerminateGraceful, TerminateInterrupt, TerminateUngraceful,
     TermFrame, TerminateTasks, TerminateJoin, TerminateRequest, TerminateReplies,
     RemoveRequestorReplyHandler, DrainQueue, DrainSignal, TerminateCloseAll, TerminateSwap, Start,
     StartAdd, StartSubscribe, StartWithdraw, termVars, Types
<1>3. CASE TerminateCloseAll
  BY <1>1, <1>2, <1>3, CloseAllEffects DEF Types
<1>4. CASE DrainSignal
  <2>1. UNCHANGED result
    BY <1>4 DEF DrainSignal
  <2>2. \E v \in {"ok", "error"} : \/ SignalRequestCorrelationSent("drain", drained, v)
                                   \/ SignalBlocks("drain", drained)
    BY <1>4 DEF DrainSignal
  <2>3. QED BY <1>1, <1>2, <2>1, <2>2, SignalTypes DEF Types
<1>5. CASE ~TerminateCloseAll /\ ~DrainSignal
  BY <1>1, <1>2, <1>5, TerminatorChannels DEF Types
<1>6. QED BY <1>3, <1>4, <1>5

(* The kinds of steps there are.                                           *)
LEMMA StepKinds ==
    ASSUME [Next]_vars
    PROVE  \/ PassiveStep \/ Terminator \/ TerminateSwap \/ Start
           \/ \E r \in Requests : PublishCheck(r) \/ Publish(r) \/ ReplyOutcome(r)
BY DEF Next, Running, Environment, PassiveStep

(* Types is kept by every step.                                            *)
LEMMA TypesInductive ==
    ASSUME Types, [Next]_vars
    PROVE  Types'
<1>1. CASE PassiveStep
  BY <1>1, PassiveKeeps DEF Passive, Types
<1>2. QED BY <1>1, RequestTypes, TerminatorTypes, StepKinds

-----------------------------------------------------------------------------
(* The stages of the termination.  It starts from a started publisher; a   *)
(* session that went down skips most of them; beyond the wait for the      *)
(* running tasks Run has ended, unless the grace period has.               *)
Stages ==
    /\ startPC # "done" => state = "Starting"
    /\ state \in {"Starting", "Started"} => termPC = "idle"
    /\ termPC = "idle" => termKind = "none" /\ closed = {} /\ raced = {}
    /\ termKind = "down" => termPC \in {"stop", "graceful", "interrupt", "ungraceful", "drain",
                                       "drainSignal", "done"}
    /\ (Buffered /\ termKind # "down" /\ termPC \in {"request", "awaitReplies"} \cup LastPCs) =>
           runPC = "done"
    /\ termPC \in {"interrupt", "ungraceful", "join"} /\ termKind # "down" => ~graceful

(* The table of correlations.  A request has an entry from its creation    *)
(* until its goroutine removes it, with open channels until Terminate      *)
(* closes them as its last step.                                           *)
TableOf(r) ==
    /\ pubPC[r] \in {"idle", "checked"} =>
           r \notin entries /\ sentChan[r] # "closed" /\ result[r] \notin Ended
    /\ pubPC[r] \in {"refused", "done"} => r \notin entries
    /\ pubPC[r] \in Waiting \cup (Publishing \ {"checked"}) => r \in entries
    /\ (r \in entries /\ (sentChan[r] = "closed" \/ result[r] \in Ended)) =>
           termPC = "done" /\ termKind # "down"
    /\ Buffered => pubPC[r] \notin {"created", "signal", "signalError"}

Table == \A r \in Requests : TableOf(r)
NoCrash == crashed => ~Buffered

(* Stages is kept by every step: the stages follow one another.            *)
LEMMA StagesInductive ==
    ASSUME Types, Stages, [Next]_vars
    PROVE  Stages'
<1>1. CASE PassiveStep
  BY <1>1, PassiveKeeps DEF Passive, Stages, Buffered
<1>2. ASSUME NEW r \in Requests, PublishCheck(r) \/ Publish(r) \/ ReplyOutcome(r)
      PROVE  Stages'
  <2>1. UNCHANGED <<strategy, state, startPC, termPC, termKind, graceful, raced, runPC>>
    BY <1>2 DEF PublishCheck, Publish, CreateReplyCorrelation, PublishDirect, PublishSignal,
         PublishFail, PublishPush, PublishRefused, PublishSubmit, ReplyOutcome, AwaitSent,
         AwaitReply, DispatchOutcome, CloseOutcome, termVars, setupVars, taskVars
  <2>2. UNCHANGED closed \/ "requestCorrelateComplete" \in closed
    BY <1>2, CloseTypes DEF PublishCheck, Publish, CreateReplyCorrelation, PublishDirect, PublishSignal,
         PublishFail, PublishPush, PublishRefused, PublishSubmit, ReplyOutcome, AwaitSent,
         AwaitReply, DispatchOutcome, CloseOutcome
  <2>3. QED BY <2>1, <2>2 DEF Stages, Buffered
<1>3. CASE Start
  BY <1>3 DEF Start, StartAdd, StartSubscribe, StartWithdraw, termVars, Stages, Buffered,
     setupVars, taskVars
<1>4. CASE TerminateSwap
  BY <1>4 DEF TerminateSwap, TermIs, Stages, Buffered, setupVars, taskVars, LastPCs
<1>5. CASE Terminator
  <2>1. UNCHANGED <<strategy, runPC, termKind, raced, startPC>>
    BY <1>5, TerminatorKeeps DEF Terminator, TerminateStop, TerminateGraceful, TerminateInterrupt,
       TerminateUngraceful, TermFrame, TerminateTasks, TerminateJoin, TerminateRequest,
       TerminateReplies, RemoveRequestorReplyHandler, DrainQueue, DrainSignal, TerminateCloseAll
  <2>2. CASE TerminateStop \/ TerminateGraceful \/ TerminateInterrupt \/ TerminateUngraceful
    BY <2>1, <2>2 DEF TerminateStop, TerminateGraceful, TerminateInterrupt, TerminateUngraceful,
       TermFrame, TermIs, Stages, Buffered, LastPCs
  <2>3. CASE TerminateTasks
    BY <2>1, <2>3 DEF TerminateTasks, TermFrame, TasksEnded, TermIs, Stages, Buffered, LastPCs
  <2>4. CASE TerminateJoin
    BY <2>1, <2>4 DEF TerminateJoin, TermFrame, TasksEnded, TermIs, Stages, Buffered, LastPCs
  <2>5. CASE TerminateRequest
    BY <2>1, <2>5 DEF TerminateRequest, TermFrame, TermIs, Stages, Buffered, LastPCs
  <2>6. CASE TerminateReplies
    BY <2>1, <2>6 DEF TerminateReplies, TermFrame, TermIs, Stages, Buffered, LastPCs
  <2>7. CASE RemoveRequestorReplyHandler
    BY <2>1, <2>7 DEF RemoveRequestorReplyHandler, TermFrame, TermIs, Stages, Buffered, LastPCs
  <2>8. CASE DrainQueue
    BY <2>1, <2>8 DEF DrainQueue, TermIs, Stages, Buffered, LastPCs
  <2>9. CASE DrainSignal
    BY <2>1, <2>9 DEF DrainSignal, TermIs, Stages, Buffered, LastPCs
  <2>10. CASE TerminateCloseAll
    BY <2>1, <2>10 DEF TerminateCloseAll, TermIs, Stages, Buffered, LastPCs
  <2>11. QED BY <1>5, <2>2, <2>3, <2>4, <2>5, <2>6, <2>7, <2>8, <2>9, <2>10 DEF Terminator
<1>6. QED BY <1>1, <1>2, <1>3, <1>4, <1>5, StepKinds

(* A request changes its own row of the table only.                        *)
LEMMA RequestTable ==
    ASSUME Types, Stages, Table, NoCrash, NEW r \in Requests,
           PublishCheck(r) \/ Publish(r) \/ ReplyOutcome(r)
    PROVE  Table' /\ NoCrash'
<1>1. UNCHANGED <<strategy, termPC, termKind>>
  BY DEF PublishCheck, Publish, CreateReplyCorrelation, PublishDirect, PublishSignal, PublishFail,
         PublishPush, PublishRefused, PublishSubmit, ReplyOutcome, AwaitSent, AwaitReply,
         DispatchOutcome, CloseOutcome, termVars, setupVars
<1>2. /\ pubPC \in [Requests -> PubPCs] /\ entries \subseteq Requests
      /\ sentChan \in [Requests -> {"empty", "ok", "error", "closed"}]
      /\ result \in [Requests -> {"empty", "reply"} \cup Ended] /\ TableOf(r)
  BY DEF Types, Table
<1>3. ASSUME \A q \in Requests : q # r =>
                /\ pubPC'[q] = pubPC[q] /\ sentChan'[q] = sentChan[q] /\ result'[q] = result[q]
                /\ q \in entries' <=> q \in entries,
             TableOf(r)'
      PROVE  Table'
  <2>1. ASSUME NEW q \in Requests, q # r PROVE TableOf(q)'
    BY <1>1, <1>3, <2>1 DEF Table, TableOf, Buffered
  <2>2. QED BY <1>3, <2>1 DEF Table
<1>4. ASSUME NEW l \in PubPCs, Goto(r, l)
      PROVE  pubPC'[r] = l /\ \A q \in Requests : q # r => pubPC'[q] = pubPC[q]
  BY <1>4, GotoTypes
<1>5. CASE PublishCheck(r)
  <2>1. /\ UNCHANGED <<entries, sentChan, result, crashed>> /\ pubPC[r] = "idle"
        /\ \E l \in {"checked", "refused"} : Goto(r, l)
    BY <1>5 DEF PublishCheck, sentVars
  <2>2. pubPC'[r] \in {"checked", "refused"} /\ \A q \in Requests : q # r => pubPC'[q] = pubPC[q]
    BY <1>4, <2>1 DEF PubPCs, Publishing
  <2>3. TableOf(r)'
    BY <1>1, <1>2, <2>1, <2>2 DEF TableOf, Waiting, Publishing, Buffered
  <2>4. QED BY <1>1, <1>3, <2>1, <2>2, <2>3 DEF NoCrash, Buffered
<1>6. CASE CreateReplyCorrelation(r)
  <2>1. /\ UNCHANGED <<sentChan, result, crashed>> /\ pubPC[r] = "checked"
        /\ entries' = entries \cup {r} /\ Goto(r, IF Buffered THEN "push" ELSE "created")
    BY <1>6 DEF CreateReplyCorrelation, sentVars
  <2>2. /\ pubPC'[r] = (IF Buffered THEN "push" ELSE "created")
        /\ \A q \in Requests : q # r => pubPC'[q] = pubPC[q]
    BY <1>4, <2>1 DEF PubPCs, Publishing
  <2>3. TableOf(r)'
    BY <1>1, <1>2, <2>1, <2>2 DEF TableOf, Waiting, Publishing, Buffered
  <2>4. QED BY <1>1, <1>3, <2>1, <2>2, <2>3 DEF NoCrash, Buffered
<1>7. CASE PublishDirect(r) \/ PublishPush(r) \/ PublishRefused(r)
  <2>1. /\ UNCHANGED <<entries, sentChan, result, crashed>> /\ pubPC[r] \in {"created", "push"}
        /\ \E l \in {"signal", "signalError", "pushed", "fail"} :
               /\ Goto(r, l) /\ (pubPC[r] = "push" => l \in {"pushed", "fail"})
    BY <1>7 DEF PublishDirect, PublishPush, PublishRefused, sentVars
  <2>2. /\ pubPC'[r] \in {"signal", "signalError", "pushed", "fail"}
        /\ pubPC[r] = "push" => pubPC'[r] \in {"pushed", "fail"}
        /\ \A q \in Requests : q # r => pubPC'[q] = pubPC[q]
    BY <1>4, <2>1 DEF PubPCs, Publishing
  <2>3. TableOf(r)'
    BY <1>1, <1>2, <2>1, <2>2 DEF TableOf, Waiting, Publishing, Buffered
  <2>4. QED BY <1>1, <1>3, <2>1, <2>2, <2>3 DEF NoCrash, Buffered
<1>8. CASE PublishSignal(r)
  <2>1. /\ UNCHANGED <<entries, result>> /\ pubPC[r] \in {"signal", "signalError"}
        /\ \E l \in {"panicked", "waitSent", "fail"} : Goto(r, l)
    BY <1>8 DEF PublishSignal
  <2>2. \E v \in {"ok", "error"} : SignalRequestCorrelationSent("caller", r, v)
    BY <1>8 DEF PublishSignal
  <2>3. /\ pubPC'[r] \in {"panicked", "waitSent", "fail"}
        /\ \A q \in Requests : q # r => pubPC'[q] = pubPC[q]
    BY <1>4, <2>1 DEF PubPCs, Publishing, Waiting
  <2>4. ~Buffered /\ r \in entries
    BY <1>2, <2>1 DEF TableOf, Publishing
  <2>5. sentChan'[r] = "closed" => sentChan[r] = "closed"
    BY <2>2, SignalTypes
  <2>6. \A q \in Requests : q # r => sentChan'[q] = sentChan[q]
    BY <1>2, <2>2 DEF SignalRequestCorrelationSent
  <2>7. TableOf(r)'
    BY <1>1, <1>2, <2>1, <2>3, <2>4, <2>5 DEF TableOf, Waiting, Publishing, Buffered
  <2>8. QED BY <1>1, <1>3, <2>1, <2>3, <2>4, <2>6, <2>7 DEF NoCrash, Buffered
<1>9. CASE PublishFail(r) \/ CloseOutcome(r)
  <2>1. CloseReplyCorrelation(r) /\ \E l \in {"refused", "done"} : Goto(r, l)
    BY <1>9 DEF PublishFail, CloseOutcome
  <2>2. /\ UNCHANGED crashed /\ entries' = entries \ {r}
        /\ \A q \in Requests : q # r => sentChan'[q] = sentChan[q] /\ result'[q] = result[q]
    BY <2>1, CloseTypes
  <2>3. pubPC'[r] \in {"refused", "done"} /\ \A q \in Requests : q # r => pubPC'[q] = pubPC[q]
    BY <1>4, <2>1 DEF PubPCs
  <2>4. TableOf(r)'
    BY <2>2, <2>3 DEF TableOf, Waiting, Publishing
  <2>5. QED BY <1>1, <1>3, <2>2, <2>3, <2>4 DEF NoCrash, Buffered
<1>10. CASE PublishSubmit(r) \/ DispatchOutcome(r)
  <2>1. /\ UNCHANGED <<entries, sentChan, result, crashed>> /\ pubPC[r] \in {"pushed", "dispatch"}
        /\ \E l \in {"waitSent", "close"} : Goto(r, l)
    BY <1>10 DEF PublishSubmit, DispatchOutcome, Gives, sentVars
  <2>2. pubPC'[r] \in {"waitSent", "close"} /\ \A q \in Requests : q # r => pubPC'[q] = pubPC[q]
    BY <1>4, <2>1 DEF PubPCs, Waiting
  <2>3. r \in entries
    BY <1>2, <2>1 DEF TableOf, Waiting, Publishing
  <2>4. TableOf(r)'
    BY <1>1, <1>2, <2>1, <2>2, <2>3 DEF TableOf, Waiting, Publishing, Buffered
  <2>5. QED BY <1>1, <1>3, <2>1, <2>2, <2>4 DEF NoCrash, Buffered
<1>11. CASE AwaitSent(r) \/ AwaitReply(r)
  <2>1. /\ UNCHANGED <<entries, crashed>> /\ pubPC[r] \in {"waitSent", "waitReply"}
        /\ \E l \in {"waitReply", "dispatch"} : Goto(r, l)
    BY <1>11 DEF AwaitSent, AwaitReply, Gives, sentVars
  <2>2. pubPC'[r] \in {"waitReply", "dispatch"} /\ \A q \in Requests : q # r => pubPC'[q] = pubPC[q]
    BY <1>4, <2>1 DEF PubPCs, Waiting
  <2>3. /\ sentChan'[r] = "closed" => sentChan[r] = "closed"
        /\ \A q \in Requests : q # r => sentChan'[q] = sentChan[q]
    BY <1>2, <1>11 DEF AwaitSent, AwaitReply, sentVars
  <2>4. /\ result'[r] \in Ended => result[r] \in Ended
        /\ \A q \in Requests : q # r => result'[q] = result[q]
    BY <1>2, <1>11 DEF AwaitSent, AwaitReply, Ended
  <2>5. r \in entries
    BY <1>2, <2>1 DEF TableOf, Waiting
  <2>6. TableOf(r)'
    BY <1>1, <1>2, <2>1, <2>2, <2>3, <2>4, <2>5 DEF TableOf, Waiting, Publishing, Buffered
  <2>7. QED BY <1>1, <1>3, <2>1, <2>2, <2>3, <2>4, <2>6 DEF NoCrash, Buffered
<1>12. QED BY <1>5, <1>6, <1>7, <1>8, <1>9, <1>10, <1>11 DEF Publish, ReplyOutcome

(* The table is kept by every step, and with a buffer nobody signals on a  *)
(* channel that has been closed.                                           *)
LEMMA TableInductive ==
    ASSUME Types, Stages, Table, NoCrash, [Next]_vars
    PROVE  Table' /\ NoCrash'
<1>1. ASSUME UNCHANGED <<strategy, pubPC, entries, termKind>>,
             termPC = "done" => termPC' = "done",
             \A r \in Requests : /\ sentChan'[r] = "closed" => sentChan[r] = "closed"
                                 /\ result'[r] \in Ended => result[r] \in Ended
      PROVE  Table'
  BY <1>1 DEF Table, TableOf, Buffered
<1>2. CASE PassiveStep
  <2>1. Passive
    BY <1>2, PassiveKeeps
  <2>2. Table'
    BY <1>1, <2>1 DEF Passive
  <2>3. ASSUME Buffered, crashed' PROVE FALSE
    <3>1. runPC # "done" /\ task \in entries /\ sentChan[task] = "closed"
      BY <2>1, <2>3 DEF Passive, NoCrash
    <3>2. termPC = "done" /\ termKind # "down"
      BY <3>1 DEF Types, Table, TableOf
    <3>3. QED BY <2>3, <3>1, <3>2 DEF Stages, LastPCs
  <2>4. QED BY <2>1, <2>2, <2>3 DEF Passive, NoCrash, Buffered
<1>3. CASE \E r \in Requests : PublishCheck(r) \/ Publish(r) \/ ReplyOutcome(r)
  BY <1>3, RequestTable
<1>4. CASE Terminator \/ TerminateSwap \/ Start
  <2>1. UNCHANGED <<strategy, pubPC, entries>>
    BY <1>4, TerminatorKeeps
  <2>2. CASE TerminateCloseAll
    <3>1. /\ \A r \in Requests \ entries : sentChan'[r] = sentChan[r] /\ result'[r] = result[r]
          /\ crashed' => crashed \/ \E r \in entries : result[r] \in Ended
          /\ termPC = "closeAll" /\ termPC' = "done" /\ UNCHANGED termKind
      BY <2>2, CloseAllEffects
    <3>2. termKind # "down"
      BY <3>1 DEF Stages
    <3>3. ASSUME NEW r \in Requests PROVE TableOf(r)'
      BY <2>1, <3>1, <3>2 DEF Table, TableOf, Buffered
    <3>4. ~\E r \in entries : result[r] \in Ended
      BY <3>1 DEF Table, TableOf, Types
    <3>5. QED BY <2>1, <3>1, <3>3, <3>4 DEF Table, NoCrash, Buffered
  <2>3. CASE DrainSignal
    <3>1. UNCHANGED <<result, termKind>> /\ termPC = "drainSignal"
      BY <2>3 DEF DrainSignal
    <3>2. \E v \in {"ok", "error"} : \/ SignalRequestCorrelationSent("drain", drained, v)
                                     \/ SignalBlocks("drain", drained)
      BY <2>3 DEF DrainSignal
    <3>3. /\ \A q \in Requests : sentChan'[q] = "closed" => sentChan[q] = "closed"
          /\ crashed' => crashed \/ (drained \in entries /\ sentChan[drained] = "closed")
      BY <3>2, SignalTypes
    <3>4. ~(drained \in entries /\ sentChan[drained] = "closed")
      BY <3>1 DEF Table, TableOf, Types
    <3>5. QED BY <1>1, <2>1, <3>1, <3>3, <3>4 DEF NoCrash, Buffered
  <2>4. CASE ~TerminateCloseAll /\ ~DrainSignal
    <3>1. UNCHANGED <<sentChan, result, crashed>>
      BY <1>4, <2>4, TerminatorChannels
    <3>2. (termPC # "done" /\ (TerminateSwap \/ UNCHANGED termKind))
          \/ (Start /\ UNCHANGED <<termKind, termPC>>)
      BY <1>4, <2>4 DEF Terminator, TerminateStop, TerminateGraceful, TerminateInterrupt,
         TerminateUngraceful, TermFrame, TerminateTasks, TerminateJoin, TerminateRequest,
         TerminateReplies, RemoveRequestorReplyHandler, DrainQueue, TerminateSwap, Start, StartAdd,
         StartSubscribe, StartWithdraw, termVars
    <3>3. CASE UNCHANGED termKind /\ (termPC = "done" => termPC' = "done")
      BY <1>1, <2>1, <3>1, <3>3 DEF NoCrash, Buffered
    <3>4. CASE TerminateSwap /\ termPC # "done"
      BY <2>1, <3>1, <3>4 DEF Table, TableOf, NoCrash, Buffered
    <3>5. QED BY <3>2, <3>3, <3>4
  <2>5. QED BY <2>2, <2>3, <2>4
<1>5. QED BY <1>2, <1>3, <1>4, StepKinds

(* What holds at first.                                                    *)
LEMMA InitTable == Init => Types /\ Stages /\ Table /\ NoCrash
<1>1. SUFFICES ASSUME Init PROVE Types /\ Stages /\ Table /\ NoCrash
  OBVIOUS
<1>2. Types
  <2>1. pubPC \in [Requests -> PubPCs] /\ outcome \in [Requests -> Outcomes]
    BY <1>1 DEF Init, PubPCs, Outcomes
  <2>2. told \in [Requests -> Seq(Outcomes)]
    <3>1. told = [r \in Requests |-> << >>]
      BY <1>1 DEF Init
    <3>2. << >> \in Seq(Outcomes)
      OBVIOUS
    <3>3. QED BY <3>1, <3>2
  <2>3. /\ sentChan \in [Requests -> {"empty", "ok", "error", "closed"}] /\ entries \subseteq Requests
        /\ result \in [Requests -> {"empty", "reply"} \cup Ended]
    BY <1>1 DEF Init
  <2>4. graceful \in BOOLEAN /\ crashed \in BOOLEAN
    BY <1>1 DEF Init
  <2>5. termPC \in TermPCs
    BY <1>1 DEF Init, TermPCs
  <2>6. QED BY <2>1, <2>2, <2>3, <2>4, <2>5 DEF Types
<1>3. Stages
  BY <1>1 DEF Init, Stages, LastPCs
<1>4. Table
  BY <1>1 DEF Init, Table, TableOf, Waiting, Publishing, Ended, Buffered
<1>5. NoCrash
  BY <1>1 DEF Init, NoCrash
<1>6. QED BY <1>2, <1>3, <1>4, <1>5

(* With a buffer no goroutine sends on a closed sentChan or closes a       *)
(* channel twice, however its request, the publish loop, the replies and   *)
(* the termination overlap.                                                *)
THEOREM BufferedNeverPanics == Spec => []NoPanicWhenBuffered
<1> DEFINE Inv == Types /\ Stages /\ Table /\ NoCrash
<1>1. Init => Inv
  BY InitTable
<1>2. Inv /\ [Next]_vars => Inv'
  BY TypesInductive, StagesInductive, TableInductive
<1>3. Inv => NoPanicWhenBuffered
  BY DEF NoCrash, NoPanicWhenBuffered
<1>4. QED BY <1>1, <1>2, <1>3, PTL DEF Spec

-----------------------------------------------------------------------------
(* A graceful termination.  Once it has begun the requests that had been   *)
(* published before are no longer being published, so that none of them    *)
(* gets a new entry; and neither correlationComplete is closed nor the     *)
(* wait for replies left while one of them has an entry.                   *)
Gone == \A r \in Requests \ raced : r \notin entries

Patience ==
    /\ termPC # "idle" => \A r \in Requests \ raced : pubPC[r] \notin Publishing
    /\ (graceful /\ termKind # "down") =>
           /\ "correlationComplete" \in closed => Gone
           /\ termPC \in LastPCs => Gone
           /\ \A r \in Requests \ raced :
                  /\ pubPC[r] = "dispatch" => outcome[r] # "terminated"
                  /\ told[r] # <<"terminated">>

(* A request that waits is not told of the termination, unless it was      *)
(* overtaken by it.                                                        *)
LEMMA RequestPatience ==
    ASSUME Types, Stages, Table, Patience, NEW r \in Requests,
           PublishCheck(r) \/ Publish(r) \/ ReplyOutcome(r)
    PROVE  Patience'
<1>1. UNCHANGED <<termPC, termKind, graceful, raced, state>>
  BY DEF PublishCheck, Publish, CreateReplyCorrelation, PublishDirect, PublishSignal, PublishFail,
         PublishPush, PublishRefused, PublishSubmit, ReplyOutcome, AwaitSent, AwaitReply,
         DispatchOutcome, CloseOutcome, termVars
<1>2. /\ pubPC \in [Requests -> PubPCs] /\ outcome \in [Requests -> Outcomes]
      /\ told \in [Requests -> Seq(Outcomes)] /\ TableOf(r)
  BY DEF Types, Table
<1>3. \E l \in PubPCs : Goto(r, l)
  BY DEF PublishCheck, Publish, CreateReplyCorrelation, PublishDirect, PublishSignal, PublishFail,
         PublishPush, PublishRefused, PublishSubmit, ReplyOutcome, AwaitSent, AwaitReply,
         DispatchOutcome, CloseOutcome, Gives, PubPCs, Publishing, Waiting
<1>4. \A q \in Requests : q # r => pubPC'[q] = pubPC[q]
  BY <1>3, GotoTypes
<1>5. \A l \in PubPCs : Goto(r, l) => pubPC'[r] = l
  BY GotoTypes
<1>6. ASSUME termPC # "idle", r \notin raced
      PROVE  pubPC[r] \notin Publishing /\ pubPC'[r] \notin Publishing
  <2>1. pubPC[r] \notin Publishing
    BY <1>6 DEF Patience
  <2>2. CASE PublishCheck(r)
    <3>1. state # "Started"
      BY <1>6 DEF Stages
    <3>2. Goto(r, "refused") /\ "refused" \in PubPCs
      BY <2>2, <3>1 DEF PublishCheck, PubPCs
    <3>3. pubPC'[r] = "refused"
      BY <1>5, <3>2
    <3>4. QED BY <2>1, <3>3 DEF Publishing
  <2>3. CASE ReplyOutcome(r)
    <3>1. \E l \in {"waitReply", "dispatch", "close", "done"} : Goto(r, l)
      BY <2>3 DEF ReplyOutcome, AwaitSent, AwaitReply, DispatchOutcome, CloseOutcome, Gives
    <3>2. pubPC'[r] \in {"waitReply", "dispatch", "close", "done"}
      BY <1>5, <3>1 DEF PubPCs, Waiting
    <3>3. QED BY <2>1, <3>2 DEF Publishing
  <2>4. CASE Publish(r)
    <3>1. pubPC[r] \in Publishing
      BY <2>4 DEF Publish, CreateReplyCorrelation, PublishDirect, PublishSignal, PublishFail,
                  PublishPush, PublishRefused, PublishSubmit, Publishing
    <3>2. QED BY <2>1, <3>1
  <2>5. QED BY <2>2, <2>3, <2>4
<1>7. termPC' # "idle" => \A q \in Requests \ raced' : pubPC'[q] \notin Publishing
  BY <1>1, <1>4, <1>6 DEF Patience
<1>8. SUFFICES ASSUME graceful, termKind # "down"
               PROVE  /\ "correlationComplete" \in closed' => Gone'
                      /\ termPC \in LastPCs => Gone'
                      /\ \A q \in Requests \ raced : /\ pubPC'[q] = "dispatch" => outcome'[q] # "terminated"
                                                     /\ told'[q] # <<"terminated">>
  BY <1>1, <1>7 DEF Patience
<1>9. ASSUME termPC # "idle", Gone PROVE Gone'
  <2>1. entries' \subseteq entries \/ (pubPC[r] = "checked" /\ entries' = entries \cup {r})
    BY CloseTypes DEF PublishCheck, Publish, CreateReplyCorrelation, PublishDirect, PublishSignal,
         PublishFail, PublishPush, PublishRefused, PublishSubmit, ReplyOutcome, AwaitSent,
         AwaitReply, DispatchOutcome, CloseOutcome
  <2>2. pubPC[r] = "checked" => r \in raced
    BY <1>6, <1>9 DEF Publishing
  <2>3. QED BY <1>1, <1>9, <2>1, <2>2 DEF Gone
<1>10. "correlationComplete" \in closed' => Gone'
  <2>1. CASE UNCHANGED closed
    <3>1. "correlationComplete" \in closed => termPC # "idle"
      BY DEF Stages
    <3>2. QED BY <1>8, <1>9, <2>1, <3>1 DEF Patience
  <2>2. CASE entries = {r} /\ CloseReplyCorrelation(r)
    <3>1. entries' = {}
      BY <2>2, CloseTypes
    <3>2. QED BY <3>1 DEF Gone
  <2>3. UNCHANGED closed \/ (entries = {r} /\ CloseReplyCorrelation(r))
    BY CloseTypes DEF PublishCheck, Publish, CreateReplyCorrelation, PublishDirect, PublishSignal,
         PublishFail, PublishPush, PublishRefused, PublishSubmit, ReplyOutcome, AwaitSent,
         AwaitReply, DispatchOutcome, CloseOutcome
  <2>4. QED BY <2>1, <2>2, <2>3
<1>11. termPC \in LastPCs => Gone'
  BY <1>8, <1>9 DEF Patience, LastPCs
<1>12. \A q \in Requests : q # r => outcome'[q] = outcome[q] /\ told'[q] = told[q]
  BY <1>2 DEF PublishCheck, Publish, CreateReplyCorrelation, PublishDirect, PublishSignal, PublishFail,
         PublishPush, PublishRefused, PublishSubmit, ReplyOutcome, AwaitSent, AwaitReply,
         DispatchOutcome, CloseOutcome, Gives, tellVars
<1>13. ASSUME r \notin raced
       PROVE  (pubPC'[r] = "dispatch" => outcome'[r] # "terminated") /\ told'[r] # <<"terminated">>
  <2>1. (pubPC[r] = "dispatch" => outcome[r] # "terminated") /\ told[r] # <<"terminated">>
    BY <1>8, <1>13 DEF Patience
  <2>2. r \in entries =>
           /\ "correlationComplete" \notin closed /\ sentChan[r] # "closed" /\ result[r] \notin Ended
    BY <1>2, <1>8, <1>13 DEF Patience, Gone, TableOf, LastPCs
  <2>3. CASE AwaitSent(r) \/ AwaitReply(r)
    <3>1. r \in entries /\ UNCHANGED told
      BY <1>2, <2>3 DEF AwaitSent, AwaitReply, TableOf, Waiting
    <3>2. \E f \in Outcomes \ {"terminated"} : outcome' = [outcome EXCEPT ![r] = f]
      BY <2>2, <2>3, <3>1 DEF AwaitSent, AwaitReply, Gives, Outcomes, Ended
    <3>3. QED BY <1>2, <2>1, <3>1, <3>2
  <2>4. CASE DispatchOutcome(r)
    <3>1. Goto(r, "close") /\ "close" \in PubPCs /\ pubPC[r] = "dispatch"
          /\ told' = [told EXCEPT ![r] = Append(@, outcome[r])]
      BY <2>4 DEF DispatchOutcome, Gives, PubPCs, Waiting
    <3>2. pubPC'[r] = "close" /\ told'[r] = Append(told[r], outcome[r])
      BY <1>2, <1>5, <3>1
    <3>3. told[r] \in Seq(Outcomes) /\ outcome[r] \in Outcomes
      BY <1>2 DEF Types
    <3>4. told'[r] # <<"terminated">>
      <4>1. Append(told[r], outcome[r])[Len(told[r]) + 1] # "terminated"
        BY <2>1, <3>1, <3>3
      <4>2. Len(Append(told[r], outcome[r])) = Len(told[r]) + 1
        BY <3>3
      <4>3. Len(<<"terminated">>) = 1 /\ <<"terminated">>[1] = "terminated"
        OBVIOUS
      <4>4. Append(told[r], outcome[r]) # <<"terminated">>
        BY <4>1, <4>2, <4>3
      <4>5. QED BY <3>2, <4>4
    <3>5. QED BY <3>2, <3>4
  <2>5. CASE PublishCheck(r) \/ Publish(r) \/ CloseOutcome(r)
    <3>1. UNCHANGED <<outcome, told>>
      BY <2>5 DEF PublishCheck, Publish, CreateReplyCorrelation, PublishDirect, PublishSignal,
         PublishFail, PublishPush, PublishRefused, PublishSubmit, CloseOutcome, tellVars
    <3>2. \E l \in PubPCs \ {"dispatch"} : Goto(r, l)
      BY <2>5 DEF PublishCheck, Publish, CreateReplyCorrelation, PublishDirect, PublishSignal,
         PublishFail, PublishPush, PublishRefused, PublishSubmit, CloseOutcome, PubPCs, Publishing,
         Waiting
    <3>3. pubPC'[r] # "dispatch"
      BY <1>5, <3>2
    <3>4. QED BY <2>1, <3>1, <3>3
  <2>6. QED BY <2>3, <2>4, <2>5 DEF ReplyOutcome
<1>14. \A q \in Requests \ raced : /\ pubPC'[q] = "dispatch" => outcome'[q] # "terminated"
                                   /\ told'[q] # <<"terminated">>
  BY <1>4, <1>8, <1>12, <1>13 DEF Patience
<1>15. QED BY <1>10, <1>11, <1>14

(* Patience is kept by every step.                                         *)
LEMMA PatienceInductive ==
    ASSUME Types, Stages, Table, Patience, [Next]_vars
    PROVE  Patience'
<1>1. CASE PassiveStep
  BY <1>1, PassiveKeeps DEF Passive, Patience, Gone
<1>2. CASE \E r \in Requests : PublishCheck(r) \/ Publish(r) \/ ReplyOutcome(r)
  BY <1>2, RequestPatience
<1>3. CASE Terminator \/ TerminateSwap \/ Start
  <2>1. UNCHANGED <<pubPC, outcome, told, entries>>
    BY <1>3, TerminatorKeeps
  <2>2. CASE Start
    <3>1. UNCHANGED <<closed, termPC, termKind, graceful, raced>>
      BY <2>2 DEF Start, StartAdd, StartSubscribe, StartWithdraw, termVars
    <3>2. QED BY <2>1, <3>1 DEF Patience, Gone
  <2>3. CASE TerminateSwap
    <3>1. /\ UNCHANGED <<closed, graceful>> /\ termPC = "idle" /\ termPC' = "stop"
          /\ raced' = {r \in Requests : pubPC[r] \in Publishing}
      BY <2>3 DEF TerminateSwap, TermIs, Publishing
    <3>2. termKind = "none" /\ closed = {} /\ raced = {}
      BY <3>1 DEF Stages
    <3>3. \A r \in Requests \ raced' : pubPC'[r] \notin Publishing
      BY <2>1, <3>1
    <3>4. graceful => \A r \in Requests : /\ pubPC[r] = "dispatch" => outcome[r] # "terminated"
                                          /\ told[r] # <<"terminated">>
      BY <3>2 DEF Patience
    <3>5. QED BY <2>1, <3>1, <3>2, <3>3, <3>4 DEF Patience, LastPCs
  <2>4. CASE Terminator
    <3>1. UNCHANGED <<raced, termKind>> /\ termPC # "idle" /\ (graceful' => graceful)
      BY <2>4 DEF Terminator, TerminateStop, TerminateGraceful, TerminateInterrupt,
         TerminateUngraceful, TermFrame, TerminateTasks, TerminateJoin, TerminateRequest,
         TerminateReplies, RemoveRequestorReplyHandler, DrainQueue, DrainSignal, TerminateCloseAll
    <3>2. Gone' <=> Gone
      BY <2>1, <3>1 DEF Gone
    <3>3. \A r \in Requests \ raced' : pubPC'[r] \notin Publishing
      BY <2>1, <3>1 DEF Patience
    <3>4. SUFFICES ASSUME graceful', termKind # "down"
                   PROVE  /\ "correlationComplete" \in closed' => Gone
                          /\ termPC' \in LastPCs => Gone
      BY <2>1, <3>1, <3>2, <3>3 DEF Patience
    <3>5. graceful /\ ("correlationComplete" \in closed => Gone) /\ (termPC \in LastPCs => Gone)
      BY <3>1, <3>4 DEF Patience
    <3>6. CASE TerminateStop \/ TerminateGraceful \/ TerminateInterrupt \/ TerminateUngraceful
               \/ TerminateTasks
      <4>1. "correlationComplete" \in closed' => "correlationComplete" \in closed
        BY <3>6 DEF TerminateStop, TerminateGraceful, TerminateInterrupt, TerminateUngraceful,
           TermFrame, TerminateTasks
      <4>2. termPC' \notin LastPCs
        BY <3>4, <3>6 DEF TerminateStop, TerminateGraceful, TerminateInterrupt,
           TerminateUngraceful, TermFrame, TerminateTasks, TermIs, LastPCs
      <4>3. QED BY <3>5, <4>1, <4>2
    <3>7. CASE TerminateJoin
      BY <3>5, <3>7 DEF TerminateJoin, TermFrame, Stages
    <3>8. CASE TerminateRequest
      <4>1. "correlationComplete" \in closed' => "correlationComplete" \in closed
        BY <3>8 DEF TerminateRequest, TermFrame
      <4>2. termPC' \in LastPCs => entries = {}
        BY <3>8 DEF TerminateRequest, TermFrame, TermIs, LastPCs
      <4>3. QED BY <3>5, <4>1, <4>2 DEF Gone
    <3>9. CASE TerminateReplies
      <4>1. UNCHANGED closed /\ "correlationComplete" \in closed
        BY <3>4, <3>9 DEF TerminateReplies, TermFrame
      <4>2. QED BY <3>5, <4>1
    <3>10. CASE RemoveRequestorReplyHandler \/ DrainQueue \/ DrainSignal \/ TerminateCloseAll
      <4>1. termPC \in LastPCs
        BY <3>10 DEF RemoveRequestorReplyHandler, TermFrame, DrainQueue, DrainSignal,
           TerminateCloseAll, LastPCs
      <4>2. QED BY <3>5, <4>1
    <3>11. QED BY <2>4, <3>6, <3>7, <3>8, <3>9, <3>10 DEF Terminator
  <2>5. QED BY <1>3, <2>2, <2>3, <2>4
<1>4. QED BY <1>1, <1>2, <1>3, StepKinds

(* A graceful Terminate waits for the own end of every request that was    *)
(* published before it began: none of them is told of the termination.     *)
THEOREM TerminateWaitsForReplies == Spec => []GracefulTerminateWaitsForReplies
<1> DEFINE Inv == Types /\ Stages /\ Table /\ NoCrash /\ Patience
<1>1. Init => Inv
  <2>1. SUFFICES ASSUME Init PROVE Patience
    BY InitTable
  <2>2. closed = {} /\ termPC = "idle" /\ \A r \in Requests : pubPC[r] = "idle" /\ told[r] = << >>
    BY <2>1 DEF Init
  <2>3. QED BY <2>2 DEF Patience, LastPCs
<1>2. Inv /\ [Next]_vars => Inv'
  BY TypesInductive, StagesInductive, TableInductive, PatienceInductive
<1>3. Inv => GracefulTerminateWaitsForReplies
  BY DEF Patience, GracefulTerminateWaitsForReplies
<1>4. QED BY <1>1, <1>2, <1>3, PTL DEF Spec
=============================================================================
