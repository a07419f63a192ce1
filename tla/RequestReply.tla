---------------------------- MODULE RequestReply ----------------------------
(***************************************************************************)
(* The request-reply message publisher and the requestor of the core       *)
(* publisher that routes replies to it.                                    *)
(*                                                                         *)
(*   publish        one application goroutine per request: registers a     *)
(*                  correlation entry, sends or buffers, and becomes the   *)
(*                  outcome closure that waits for the send and the reply  *)
(*   sendTask       runs on the session's publish loop, one at a time      *)
(*   onReplyMessage runs on the session's callback thread                  *)
(*   Terminate / unsolicitedTermination   one goroutine                    *)
(*   terminateRequestor   the messaging service's Disconnect               *)
(*                                                                         *)
(* The life cycle is Lifecycle's, the task buffer and the publish loop are *)
(* DirectPublisher's: here Run and the task it waits for advance together. *)
(* Readiness notification is the direct publisher's and is left out.       *)
(***************************************************************************)
EXTENDS Naturals, Sequences, FiniteSets

CONSTANTS
    Requests,    \* the requests published, each once; also their correlation ids
    Patient,     \* those published with a negative reply timeout
    Setups,      \* the pairs of backpressureConfiguration and bufferSize considered
    TermKinds,   \* the ways termination may start
    MaxReplies,  \* bound: how often the replier answers one request
    MaxBlocks,   \* bound: how often the transport refuses a task with would-block
    NoReq        \* no request

ASSUME RequestReplyAssumption ==
    /\ IsFiniteSet(Requests) /\ Patient \subseteq Requests /\ NoReq \notin Requests
    /\ Setups \subseteq ({"reject", "wait"} \X (Nat \ {0})) \cup {<<"direct", 0>>}
    /\ TermKinds \subseteq {"forever", "timed", "down"}
    /\ MaxReplies \in Nat /\ MaxBlocks \in Nat

VARIABLES
    strategy, capacity, \* the back-pressure configuration
    up,             \* the session is connected
    state,          \* basicMessagePublisher.state
    startPC,        \* Start: "lock", "subscribe", "withdraw", "done"
    pubPC,          \* the goroutine of request r: publish, then the outcome closure
    outcome,        \* retMsg, retErr of the outcome closure
    told,           \* what the reply handler or the caller was given, in that order
    entries,        \* the keys of requestCorrelationMap
    sentChan,       \* entry.sentChan: capacity 1
    result,         \* entry.result: capacity 1
    received,       \* the requests whose entry.received is set
    rxLock,         \* the actor blocked in a send while it holds rxLock, or "free"
    buffer, taskQ,  \* the messages and the tasks of the buffered configurations
    closed,         \* the channels that are closed
    runPC, task,    \* taskBuffer.Run and the sendTask it waits for
    blocks,         \* how often a task met would-block
    termPC, termKind, graceful,
    undelivered,    \* undeliveredCount
    drained,        \* the message drainQueue has taken and not yet signalled
    handler,        \* the publisher's entry is in publisherRxReplyMap
    readLock,       \* an onReplyMessage returned without releasing core's rxLock
    requestor,      \* terminateRequestor: "on", "locking", "off"
    replyReq,       \* the request handleReplyMessage has a reply for
    \* History and environment.
    wire,           \* how many replies the broker still has for a request
    crashed,        \* a goroutine closed or sent on a closed channel without recovering
    mispopped,      \* requests whose message another request's task took from buffer
    raced           \* requests being published when termination began

setupVars == <<strategy, capacity>>
pipeVars  == <<buffer, taskQ>>
taskVars  == <<runPC, task, blocks, mispopped>>
coreVars  == <<handler, readLock, requestor>>
tellVars  == <<outcome, told>>
termVars  == <<state, termPC, termKind, graceful, undelivered, drained, raced>>
sentVars  == <<sentChan, rxLock, crashed>>
vars == <<setupVars, pipeVars, taskVars, coreVars, replyReq, tellVars, termVars, sentVars,
          up, startPC, pubPC, entries, result, received, closed, wire>>

Buffered == strategy # "direct"

Init ==
    /\ \E setup \in Setups : strategy = setup[1] /\ capacity = setup[2]
    /\ up = TRUE /\ state = "Starting" /\ startPC = "lock"
    /\ pubPC = [r \in Requests |-> "idle"]
    /\ outcome = [r \in Requests |-> "none"] /\ told = [r \in Requests |-> <<>>]
    /\ entries = {} /\ received = {}
    /\ sentChan = [r \in Requests |-> "empty"] /\ result = [r \in Requests |-> "empty"]
    /\ rxLock = "free" /\ crashed = FALSE
    /\ buffer = <<>> /\ taskQ = <<>> /\ closed = {}
    /\ runPC = (IF Buffered THEN "take" ELSE "done") /\ task = NoReq
    /\ blocks = 0 /\ mispopped = {}
    /\ termPC = "idle" /\ termKind = "none" /\ graceful = TRUE
    /\ undelivered = 0 /\ drained = NoReq
    /\ handler = FALSE /\ readLock = FALSE /\ requestor = "on"
    /\ replyReq = NoReq
    /\ wire = [r \in Requests |-> 0] /\ raced = {}

(* Start: AddRequestorReplyHandler puts the handler in publisherRxReplyMap *)
(* and subscribes to the reply-to topic; a refused subscription takes it   *)
(* out again and the publisher ends terminated.  The map is under core's   *)
(* rxLock, which all request-reply publishers of the session share.        *)
StartAdd ==
    /\ startPC = "lock" /\ ~readLock
    /\ handler' = TRUE /\ startPC' = "subscribe"
    /\ UNCHANGED <<setupVars, pipeVars, taskVars, readLock, requestor, replyReq, tellVars,
                   termVars, sentVars, up, pubPC, entries, result, received, closed, wire>>

StartSubscribe ==
    /\ startPC = "subscribe"
    /\ \/ up /\ state' = "Started" /\ startPC' = "done"
       \/ UNCHANGED state /\ startPC' = "withdraw"
    /\ UNCHANGED <<setupVars, pipeVars, taskVars, coreVars, replyReq, tellVars, termPC, termKind,
                   graceful, undelivered, drained, raced, sentVars, up, pubPC, entries, result,
                   received, closed, wire>>

StartWithdraw ==
    /\ startPC = "withdraw" /\ ~readLock
    /\ handler' = FALSE /\ startPC' = "done" /\ state' = "Terminated"
    /\ UNCHANGED <<setupVars, pipeVars, taskVars, readLock, requestor, replyReq, tellVars,
                   termPC, termKind, graceful, undelivered, drained, raced, sentVars, up,
                   pubPC, entries, result, received, closed, wire>>

Start == StartAdd \/ StartSubscribe \/ StartWithdraw

-----------------------------------------------------------------------------
(* The correlation table. Its critical sections are single steps, except   *)
(* that signalRequestCorrelationSent may block on a full sentChan while it *)
(* holds rxLock.                                                           *)

Unlocked == rxLock = "free"

SentFull(r) == r \in entries /\ sentChan[r] \in {"ok", "error"}

SignalRequestCorrelationSent(actor, r, value) ==
    /\ rxLock \in {"free", actor} /\ ~SentFull(r)
    /\ rxLock' = "free"
    /\ IF r \in entries /\ sentChan[r] = "closed"
       THEN crashed' = TRUE /\ UNCHANGED sentChan
       ELSE /\ UNCHANGED crashed
            /\ sentChan' = [sentChan EXCEPT ![r] = IF r \in entries THEN value ELSE @]

SignalBlocks(actor, r) ==
    /\ Unlocked /\ SentFull(r)
    /\ rxLock' = actor
    /\ UNCHANGED <<sentChan, crashed>>

(* Mutant: correlationComplete is closed by the first entry that goes.     *)
CompletesTable_Early(r) == r \in entries /\ "requestCorrelateComplete" \in closed
CompletesTable(r) ==
    r \in entries /\ entries = {r} /\ "requestCorrelateComplete" \in closed

(* Only the request's own goroutine calls it, as its last step: the entry, *)
(* with both channels closed or emptied, is then out of everyone's reach.  *)
CloseReplyCorrelation(r) ==
    /\ Unlocked
    /\ entries' = entries \ {r} /\ received' = received \ {r}
    /\ sentChan' = [sentChan EXCEPT ![r] = "closed"]
    /\ result' = [result EXCEPT ![r] = "closed"]
    /\ closed' = IF CompletesTable(r) THEN closed \cup {"correlationComplete"} ELSE closed
    /\ UNCHANGED <<rxLock, crashed>>

-----------------------------------------------------------------------------
(* publish.                                                                *)

Goto(r, pc) == pubPC' = [pubPC EXCEPT ![r] = pc]

PublishCheck(r) ==
    /\ pubPC[r] = "idle" /\ state # "Starting"
    /\ Goto(r, IF state = "Started" THEN "checked" ELSE "refused")
    /\ UNCHANGED <<setupVars, startPC, pipeVars, taskVars, coreVars, replyReq, tellVars, termVars,
                   sentVars, up, entries, result, received, closed, wire>>

CreateReplyCorrelation(r) ==
    /\ pubPC[r] = "checked" /\ Unlocked
    /\ entries' = entries \cup {r}
    /\ Goto(r, IF Buffered THEN "push" ELSE "created")
    /\ UNCHANGED <<setupVars, startPC, pipeVars, taskVars, coreVars, replyReq, tellVars, termVars,
                   sentVars, up, result, received, closed, wire>>

(* SolClientSessionPublish: the request is with the broker, or it failed.  *)
Transmit(r) == up /\ wire' = [wire EXCEPT ![r] = MaxReplies]

PublishDirect(r) ==
    /\ pubPC[r] = "created"
    /\ \/ Transmit(r) /\ Goto(r, "signal")
       \/ UNCHANGED wire /\ Goto(r, "signalError")
    /\ UNCHANGED <<setupVars, startPC, pipeVars, taskVars, coreVars, replyReq, tellVars, termVars,
                   sentVars, up, entries, result, received, closed>>

PublishSignal(r) ==
    /\ pubPC[r] \in {"signal", "signalError"}
    /\ SignalRequestCorrelationSent("caller", r, IF pubPC[r] = "signal" THEN "ok" ELSE "error")
    /\ Goto(r, IF r \in entries /\ sentChan[r] = "closed" THEN "panicked"
               ELSE IF pubPC[r] = "signal" THEN "waitSent" ELSE "fail")
    /\ UNCHANGED <<setupVars, startPC, pipeVars, taskVars, coreVars, replyReq, tellVars, termVars,
                   up, entries, result, received, closed, wire>>

(* The deferred closeReplyCorrelation of a publish that returns an error.  *)
PublishFail(r) ==
    /\ pubPC[r] = "fail"
    /\ CloseReplyCorrelation(r)
    /\ Goto(r, "refused")
    /\ UNCHANGED <<setupVars, startPC, pipeVars, taskVars, coreVars, replyReq, tellVars, termVars,
                   up, wire>>

(* bufferPublishLock is held from here to the submit.                      *)
PublishLockFree == \A r \in Requests : pubPC[r] # "pushed"

PublishPush(r) ==
    /\ pubPC[r] = "push" /\ PublishLockFree
    /\ "buffer" \notin closed /\ Len(buffer) < capacity
    /\ buffer' = Append(buffer, r)
    /\ Goto(r, "pushed")
    /\ UNCHANGED <<setupVars, startPC, taskQ, taskVars, coreVars, replyReq, tellVars, termVars,
                   sentVars, up, entries, result, received, closed, wire>>

(* Overflow, an interrupted wait, or the recovered send on the closed      *)
(* buffer: publish returns an error.                                       *)
PublishRefused(r) ==
    /\ pubPC[r] = "push" /\ PublishLockFree
    /\ \/ "buffer" \in closed
       \/ strategy = "reject" /\ Len(buffer) = capacity
       \/ strategy = "wait" /\ "terminateWaitInterrupt" \in closed
    /\ Goto(r, "fail")
    /\ UNCHANGED <<setupVars, startPC, pipeVars, taskVars, coreVars, replyReq, tellVars, termVars,
                   sentVars, up, entries, result, received, closed, wire>>

(* Submit drops the task once Run has ended.                               *)
PublishSubmit(r) ==
    /\ pubPC[r] = "pushed"
    /\ taskQ' = IF runPC = "done" THEN taskQ ELSE Append(taskQ, r)
    /\ Goto(r, "waitSent")
    /\ UNCHANGED <<setupVars, startPC, buffer, taskVars, coreVars, replyReq, tellVars, termVars,
                   sentVars, up, entries, result, received, closed, wire>>

Publish(r) ==
    \/ CreateReplyCorrelation(r) \/ PublishDirect(r) \/ PublishSignal(r) \/ PublishFail(r)
    \/ PublishPush(r) \/ PublishRefused(r) \/ PublishSubmit(r)

-----------------------------------------------------------------------------
(* The outcome closure createReplyCorrelation returns.                     *)

Gives(r, what, pc) == outcome' = [outcome EXCEPT ![r] = what] /\ Goto(r, pc)

AwaitSent(r) ==
    /\ pubPC[r] = "waitSent"
    /\ \/ /\ sentChan[r] \in {"ok", "error"}
          /\ sentChan' = [sentChan EXCEPT ![r] = "empty"]
          /\ IF sentChan[r] = "ok" THEN Gives(r, "none", "waitReply")
                                   ELSE Gives(r, "sendError", "dispatch")
       \/ /\ sentChan[r] = "closed" \/ "correlationComplete" \in closed
          /\ Gives(r, "terminated", "dispatch") /\ UNCHANGED sentChan
    /\ UNCHANGED <<setupVars, startPC, pipeVars, taskVars, coreVars, replyReq, told, termVars, rxLock,
                   crashed, up, entries, result, received, closed, wire>>

(* A reply whose entry is gone is disposed of; the entry is looked up      *)
(* under rxLock, and nobody but this goroutine removes it.                 *)
AwaitReply(r) ==
    /\ pubPC[r] = "waitReply"
    /\ \/ /\ Unlocked /\ result[r] \in {"reply", "replyClosed"}
          /\ result' = [result EXCEPT ![r] = IF @ = "reply" THEN "empty" ELSE "closed"]
          /\ Gives(r, IF r \in entries THEN "reply" ELSE "terminated", "dispatch")
       \/ /\ result[r] = "closed" \/ "correlationComplete" \in closed
          /\ Gives(r, "terminated", "dispatch") /\ UNCHANGED result
       \/ /\ r \notin Patient
          /\ Gives(r, "timeout", "dispatch") /\ UNCHANGED result
    /\ UNCHANGED <<setupVars, startPC, pipeVars, taskVars, coreVars, replyReq, told, termVars,
                   sentVars, up, entries, received, closed, wire>>

DispatchOutcome(r) ==
    /\ pubPC[r] = "dispatch"
    /\ told' = [told EXCEPT ![r] = Append(@, outcome[r])]
    /\ Gives(r, "none", "close")
    /\ UNCHANGED <<setupVars, startPC, pipeVars, taskVars, coreVars, replyReq, termVars,
                   sentVars, up, entries, result, received, closed, wire>>

CloseOutcome(r) ==
    /\ pubPC[r] = "close"
    /\ CloseReplyCorrelation(r)
    /\ Goto(r, "done")
    /\ UNCHANGED <<setupVars, startPC, pipeVars, taskVars, coreVars, replyReq, tellVars, termVars,
                   up, wire>>

ReplyOutcome(r) ==
    \/ AwaitSent(r) \/ AwaitReply(r) \/ DispatchOutcome(r)
    \/ CloseOutcome(r)

-----------------------------------------------------------------------------
(* taskBuffer.Run and the sendTask it waits for.                           *)

RunIs(pc) == runPC' = pc

(* One attempt of sendTask's loop to publish: the request is sent, or fails*)
(* with the session up or down, or would block.                            *)
Attempt(r) ==
    \/ Transmit(r) /\ RunIs("sent") /\ UNCHANGED blocks
    \/ UNCHANGED <<wire, blocks>> /\ RunIs("failed")
    \/ blocks < MaxBlocks /\ blocks' = blocks + 1 /\ UNCHANGED wire /\ RunIs("await")

TaskTake ==
    /\ runPC = "take" /\ taskQ # <<>> /\ "terminateUngraceful" \notin closed
    /\ task' = Head(taskQ) /\ taskQ' = Tail(taskQ)
    /\ Attempt(Head(taskQ))
    /\ UNCHANGED <<setupVars, startPC, mispopped, buffer, coreVars, replyReq, tellVars, termVars, sentVars, up,
                   pubPC, entries, result, received, closed>>

RunExit ==
    /\ runPC = "take"
    /\ \/ "terminateUngraceful" \in closed
       \/ "terminateGraceful" \in closed /\ taskQ = <<>>
    /\ RunIs("done")
    /\ UNCHANGED <<setupVars, startPC, mispopped, pipeVars, task, blocks, coreVars, replyReq, tellVars, termVars,
                   sentVars, up, pubPC, entries, result, received, closed, wire>>

(* AwaitWritable: CAN_SEND, the terminate signal, or the false the core    *)
(* publisher sends when it terminates.                                     *)
TaskAwait ==
    /\ runPC = "await"
    /\ \/ up /\ Attempt(task)
       \/ /\ "terminateTask" \in closed \/ ~up
          /\ RunIs("interrupted") /\ UNCHANGED <<wire, blocks>>
    /\ UNCHANGED <<setupVars, startPC, mispopped, pipeVars, task, coreVars, replyReq, tellVars, termVars,
                   sentVars, up, pubPC, entries, result, received, closed>>

(* An interrupted task leaves its message in the buffer.                   *)
TaskSignal ==
    /\ runPC \in {"sent", "failed", "interrupted"}
    /\ SignalRequestCorrelationSent("task", task, IF runPC = "sent" THEN "ok" ELSE "error")
    /\ RunIs(IF runPC = "interrupted" THEN "take" ELSE "pop")
    /\ task' = IF runPC = "interrupted" THEN NoReq ELSE task
    /\ UNCHANGED <<setupVars, startPC, mispopped, pipeVars, blocks, coreVars, replyReq, tellVars, termVars,
                   up, pubPC, entries, result, received, closed, wire>>

TaskBlocked ==
    /\ runPC \in {"sent", "failed", "interrupted"}
    /\ SignalBlocks("task", task)
    /\ UNCHANGED <<setupVars, startPC, pipeVars, taskVars, coreVars, replyReq, tellVars, termVars,
                   up, pubPC, entries, result, received, closed, wire>>

TaskPop ==
    /\ runPC = "pop"
    /\ buffer' = IF buffer = <<>> THEN buffer ELSE Tail(buffer)
    /\ mispopped' = IF buffer = <<>> THEN mispopped ELSE mispopped \cup ({Head(buffer)} \ {task})
    /\ RunIs("take") /\ task' = NoReq
    /\ UNCHANGED <<setupVars, startPC, taskQ, blocks, coreVars, replyReq, tellVars, termVars, sentVars,
                   up, pubPC, entries, result, received, closed, wire>>

Run == TaskTake \/ RunExit \/ TaskAwait \/ TaskSignal \/ TaskBlocked \/ TaskPop

-----------------------------------------------------------------------------
(* The core publisher's requestor.                                         *)

WriterWaits ==
    startPC \in {"lock", "withdraw"} \/ termPC = "removeLock" \/ requestor = "locking"

(* The reply may have been for another request-reply publisher of the      *)
(* session that has been terminated: the lock it keeps is this publisher's *)
(* as well. It may have come at any time before; nobody can tell until a   *)
(* writer asks for the lock, so it is enough to decide it then.            *)
OtherLeaksLock ==
    /\ WriterWaits /\ ~readLock
    /\ readLock' = TRUE
    /\ UNCHANGED <<setupVars, startPC, pipeVars, taskVars, handler, requestor, replyReq, tellVars,
                   termVars, sentVars, up, pubPC, entries, result, received, closed, wire>>

(* The publisher waits for the lock that will never be released.           *)
Hangs == readLock /\ (startPC \in {"lock", "withdraw"} \/ termPC = "removeLock")

(* The session's callback thread has a reply for r: onReplyMessage looks   *)
(* the handler up under core's rxLock; without one it returns and the read *)
(* lock stays taken. A waiting writer keeps new readers out.               *)
OnReplyMessage(r) ==
    /\ replyReq = NoReq /\ requestor = "on" /\ up /\ wire[r] > 0
    /\ ~(readLock /\ WriterWaits)
    /\ wire' = [wire EXCEPT ![r] = @ - 1]
    /\ readLock' = (readLock \/ ~handler)
    /\ replyReq' = IF handler THEN r ELSE NoReq
    /\ UNCHANGED <<setupVars, startPC, pipeVars, taskVars, handler, requestor, tellVars, termVars,
                   sentVars, up, pubPC, entries, result, received, closed>>

(* handleReplyMessage: a reply without an entry, or the second one, goes   *)
(* back to the session; the send on a result channel Terminate has closed  *)
(* is recovered.                                                           *)
HandleReplyMessage ==
    /\ replyReq # NoReq /\ Unlocked
    /\ IF replyReq \in entries \ received
       THEN /\ received' = received \cup {replyReq}
            /\ result' = [result EXCEPT ![replyReq] = IF @ = "empty" THEN "reply" ELSE @]
       ELSE UNCHANGED <<received, result>>
    /\ replyReq' = NoReq
    /\ UNCHANGED <<setupVars, startPC, pipeVars, taskVars, coreVars, tellVars, termVars,
                   sentVars, up, pubPC, entries, closed, wire>>

(* terminateRequestor, called when the disconnected service closes its     *)
(* transport: no further callbacks, then the map is emptied. With the      *)
(* session gone neither step touches what the publisher does, so it is     *)
(* enough to take them once the publisher has ended, or hangs.             *)
TerminateRequestorStart ==
    /\ requestor = "on" /\ ~up /\ (state = "Terminated" \/ Hangs)
    /\ requestor' = "locking"
    /\ UNCHANGED <<setupVars, startPC, pipeVars, taskVars, handler, readLock, replyReq, tellVars,
                   termVars, sentVars, up, pubPC, entries, result, received, closed, wire>>

TerminateRequestorSweep ==
    /\ requestor = "locking" /\ ~readLock
    /\ requestor' = "off" /\ handler' = FALSE
    /\ UNCHANGED <<setupVars, startPC, pipeVars, taskVars, readLock, replyReq, tellVars, termVars,
                   sentVars, up, pubPC, entries, result, received, closed, wire>>

SessionLost ==
    /\ up
    /\ up' = FALSE
    /\ UNCHANGED <<setupVars, startPC, pipeVars, taskVars, coreVars, replyReq, tellVars, termVars,
                   sentVars, pubPC, entries, result, received, closed, wire>>

-----------------------------------------------------------------------------
(* Terminate and unsolicitedTermination.                                   *)

TermIs(pc) == termPC' = pc

TerminateSwap ==
    /\ termPC = "idle" /\ state = "Started"
    /\ termKind' \in {k \in TermKinds : k = "down" => ~up}
    /\ state' = "Terminating" /\ TermIs("stop")
    /\ raced' = {r \in Requests : pubPC[r] \in {"checked", "created", "signal", "signalError",
                                                "push", "pushed", "fail"}}
    /\ UNCHANGED <<setupVars, startPC, pipeVars, taskVars, coreVars, replyReq, tellVars, graceful,
                   undelivered, drained, sentVars, up, pubPC, entries, result, received,
                   closed, wire>>

TermFrame ==
    UNCHANGED <<setupVars, startPC, pipeVars, taskVars, replyReq, tellVars, termKind, undelivered,
                drained, raced, sentVars, up, pubPC, entries, result, received, wire>>

(* The publishers that wait for space are told, then the task buffer: to   *)
(* stop gracefully, or by four closes one after the other at once.         *)
TerminateStop ==
    /\ termPC = "stop"
    /\ IF Buffered
       THEN /\ closed' = closed \cup {"terminateWaitInterrupt"}
            /\ TermIs("graceful") /\ UNCHANGED state
       ELSE /\ UNCHANGED closed
            /\ TermIs(IF termKind = "down" THEN "done" ELSE "request")
            /\ state' = IF termKind = "down" THEN "Terminated" ELSE state
    /\ TermFrame /\ UNCHANGED <<coreVars, graceful>>

TerminateGraceful ==
    /\ termPC = "graceful"
    /\ closed' = closed \cup {"terminateGraceful"}
    /\ TermIs(IF termKind = "down" THEN "interrupt" ELSE "awaitTasks")
    /\ TermFrame /\ UNCHANGED <<coreVars, state, graceful>>

(* The running task is interrupted, then Run is.                           *)
TerminateInterrupt ==
    /\ termPC = "interrupt"
    /\ closed' = closed \cup {"terminateTask"}
    /\ TermIs("ungraceful")
    /\ TermFrame /\ UNCHANGED <<coreVars, state, graceful>>

TerminateUngraceful ==
    /\ termPC = "ungraceful"
    /\ closed' = closed \cup {"terminateUngraceful"}
    /\ TermIs(IF termKind = "down" THEN "drain" ELSE "join")
    /\ TermFrame /\ UNCHANGED <<coreVars, state, graceful>>

(* Mutant: the running task is not waited for.                             *)
TasksEnded_NoWait == TRUE
TasksEnded == runPC = "done"

TerminateTasks ==
    /\ termPC = "awaitTasks"
    /\ \/ TasksEnded /\ TermIs("request") /\ UNCHANGED graceful
       \/ termKind = "timed" /\ TermIs("interrupt") /\ graceful' = FALSE
    /\ TermFrame /\ UNCHANGED <<coreVars, state, closed>>

TerminateJoin ==
    /\ termPC = "join" /\ TasksEnded
    /\ TermIs("remove")
    /\ TermFrame /\ UNCHANGED <<coreVars, state, graceful, closed>>

TerminateRequest ==
    /\ termPC = "request" /\ Unlocked
    /\ closed' = closed \cup {"requestCorrelateComplete"}
    /\ TermIs(IF entries = {} THEN "remove" ELSE "awaitReplies")
    /\ TermFrame /\ UNCHANGED <<coreVars, state, graceful>>

TerminateReplies ==
    /\ termPC = "awaitReplies"
    /\ \/ "correlationComplete" \in closed /\ UNCHANGED graceful
       \/ termKind = "timed" /\ graceful' = FALSE
    /\ TermIs("remove")
    /\ TermFrame /\ UNCHANGED <<coreVars, state, closed>>

(* RemoveRequestorReplyHandler unsubscribes and takes the handler out of   *)
(* the map; it leaves it there when the unsubscribe fails.                 *)
RemoveRequestorReplyHandler ==
    /\ \/ termPC = "remove" /\ up /\ TermIs("removeLock") /\ UNCHANGED handler
       \/ termPC = "remove" /\ TermIs(IF Buffered THEN "drain" ELSE "closeAll") /\ UNCHANGED handler
       \/ /\ termPC = "removeLock" /\ ~readLock /\ handler' = FALSE
          /\ TermIs(IF Buffered THEN "drain" ELSE "closeAll")
    /\ TermFrame /\ UNCHANGED <<readLock, requestor, state, graceful, closed>>

DrainQueue ==
    /\ termPC = "drain"
    /\ closed' = closed \cup {"buffer"}
    /\ IF buffer = <<>>
       THEN /\ TermIs(IF termKind = "down" THEN "done" ELSE "closeAll")
            /\ state' = IF termKind = "down" THEN "Terminated" ELSE state
            /\ UNCHANGED <<buffer, drained, undelivered>>
       ELSE /\ TermIs("drainSignal") /\ UNCHANGED state
            /\ drained' = Head(buffer) /\ buffer' = Tail(buffer)
            /\ undelivered' = undelivered + 1
    /\ UNCHANGED <<setupVars, startPC, taskQ, taskVars, coreVars, replyReq, tellVars, termKind,
                   graceful, raced, sentVars, up, pubPC, entries, result, received, wire>>

DrainSignal ==
    /\ termPC = "drainSignal"
    /\ \/ SignalRequestCorrelationSent("drain", drained, "error")
          /\ TermIs("drain") /\ drained' = NoReq
       \/ SignalBlocks("drain", drained) /\ UNCHANGED <<termPC, drained>>
    /\ UNCHANGED <<setupVars, startPC, pipeVars, taskVars, coreVars, replyReq, tellVars, state,
                   termKind, graceful, undelivered, raced, up, pubPC, entries, result,
                   received, closed, wire>>

(* Every remaining waiter is released; the entries stay in the map. The    *)
(* select takes a pending outcome of the send out instead of closing.      *)
TerminateCloseAll ==
    /\ termPC = "closeAll" /\ Unlocked
    /\ closed' = closed \cup {"correlationComplete"}
    /\ sentChan' = [r \in Requests |->
                     IF r \notin entries THEN sentChan[r]
                     ELSE IF sentChan[r] \in {"ok", "error"} THEN "empty" ELSE "closed"]
    /\ result' = [r \in Requests |->
                     IF r \notin entries THEN result[r]
                     ELSE IF result[r] = "reply" THEN "replyClosed" ELSE "closed"]
    /\ crashed' = (crashed \/ \E r \in entries : result[r] \in {"closed", "replyClosed"})
    /\ TermIs("done") /\ state' = "Terminated"
    /\ UNCHANGED <<setupVars, startPC, pipeVars, taskVars, coreVars, replyReq, tellVars, termKind,
                   graceful, undelivered, drained, raced, rxLock, up, pubPC, entries, received,
                   wire>>

Terminator ==
    \/ TerminateStop \/ TerminateGraceful \/ TerminateInterrupt \/ TerminateUngraceful
    \/ TerminateTasks \/ TerminateJoin \/ TerminateRequest
    \/ TerminateReplies \/ RemoveRequestorReplyHandler \/ DrainQueue \/ DrainSignal
    \/ TerminateCloseAll

-----------------------------------------------------------------------------
(* What runs once called: the goroutines of the library and its timers.    *)
Running ==
    \/ \E r \in Requests : Publish(r) \/ ReplyOutcome(r)
    \/ Start \/ Run \/ HandleReplyMessage \/ TerminateRequestorSweep \/ Terminator

(* What the application, the broker and the network decide.                *)
Environment ==
    \/ TerminateSwap \/ SessionLost \/ TerminateRequestorStart \/ OtherLeaksLock
    \/ \E r \in Requests : PublishCheck(r) \/ OnReplyMessage(r)

Next == Running \/ Environment

Spec == Init /\ [][Next]_vars
FairSpec == Spec /\ WF_vars(Running)

-----------------------------------------------------------------------------
(* With a buffer no goroutine panics on a closed sentChan or result:       *)
(* Terminate closes them only after the last sendTask, and before that     *)
(* every select leaves the entry or removes it. (A direct publish that     *)
(* registered its entry before Terminate and signals after it does panic.) *)
NoPanicWhenBuffered == crashed => ~Buffered

(* A graceful Terminate lets every request that was published before it    *)
(* began come to its own end: correlationComplete is not closed while an   *)
(* entry of such a request is still in the table.                          *)
GracefulTerminateWaitsForReplies ==
    graceful /\ termKind # "down" /\ ~crashed =>
        \A r \in Requests \ raced : told[r] # <<"terminated">>

(* The request waits for a reply with no timeout, and nothing can end it:  *)
(* the publisher has not been terminated, or the session went down.        *)
WaitsForever(r) == r \in Patient /\ pubPC[r] = "waitReply" /\ termKind # "timed"

(* The request's message is in the buffer without a task, since Run ended  *)
(* between its push and its submit; Terminate, with no grace period to     *)
(* run out, waits for its entry to go before it drains the buffer.         *)
Stranded(r) ==
    r \in raced /\ pubPC[r] = "waitSent" /\ termPC = "awaitReplies" /\ termKind = "forever"

(* unsolicitedTermination does not wait for the running task: drainQueue   *)
(* takes that task's message, the task takes the next one, and the request *)
(* of that one is told nothing.                                            *)
Overlooked(r) == r \in mispopped /\ pubPC[r] = "waitSent" /\ termKind = "down"

(* A task that the lost session interrupted leaves its message, and the    *)
(* publish that waits for the place waits for the termination to come.     *)
AwaitsTermination(r) == pubPC[r] = "push" /\ strategy = "wait" /\ ~up /\ termPC = "idle"

(* Nothing more will happen to the request: it has ended, or one of the    *)
(* above keeps it.                                                         *)
AtRest(r) ==
    \/ pubPC[r] \in {"idle", "refused", "done", "panicked"} \/ Hangs
    \/ WaitsForever(r) \/ Stranded(r) \/ Overlooked(r) \/ AwaitsTermination(r)

(* Every call comes to its end.  A request is refused, answered, times out *)
(* or is told of the termination.  Termination ends, though sendTask and   *)
(* drainQueue may block on sentChan while they hold the lock the receivers *)
(* of sentChan need; except that an unlimited grace period lasts as long   *)
(* as a request that waits for ever or is stranded.  Start returns, and    *)
(* the session's requestor stops as well.  The exception to all of it is   *)
(* the leaked lock: a reply that found its handler gone, this publisher's  *)
(* or another's of the session, keeps core's read lock, and whoever asks   *)
(* for the write lock after it hangs.                                      *)
EveryWaitEnds ==
    <>[](/\ \A r \in Requests : AtRest(r)
         /\ \/ termPC \in {"idle", "done"} \/ Hangs
            \/ \E r \in Requests : WaitsForever(r) \/ Stranded(r) \/ pubPC[r] = "panicked"
         /\ startPC = "done" \/ Hangs
         /\ requestor # "locking" \/ readLock)
=============================================================================
