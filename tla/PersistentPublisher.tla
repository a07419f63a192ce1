------------------------ MODULE PersistentPublisher ------------------------
(***************************************************************************)
(* The persistent message publisher: a published message stays in the      *)
(* correlation table until the broker acknowledges it, and the correlation *)
(* context it was registered with is resolved with the verdict.            *)
(*                                                                         *)
(*   publish     one application goroutine per message; it either sends    *)
(*               (direct) or pushes to buffer and submits a sendTask       *)
(*   sendTask    runs on the session's publish loop, one at a time: adds   *)
(*               the context, sends, pops one element of buffer            *)
(*   ackHandler  runs on the session's callback thread, one ack at a time  *)
(*   Terminate / unsolicitedTermination   one goroutine                    *)
(*                                                                         *)
(* A context belongs to a receipt listener (Publish) or to the goroutine   *)
(* that waits in PublishAwaitAcknowledgement (the messages of blocking).   *)
(* The task buffer and the publish loop are modelled in full in            *)
(* DirectPublisher; here Run, the task it handed over and the publish loop *)
(* that executes it advance together, since Run waits for the task.        *)
(***************************************************************************)
EXTENDS Naturals, Sequences, FiniteSets

CONSTANTS
    Messages,   \* messages the application publishes, each once; also their message ids
    Setups,     \* the triples of backpressureConfiguration, bufferSize and blocking considered
    TermKinds,  \* the ways termination may start
    NoMsg       \* no message

ASSUME PersistentPublisherAssumption ==
    /\ IsFiniteSet(Messages)
    /\ NoMsg \notin Messages
    /\ Setups \subseteq ({"reject", "wait"} \X (Nat \ {0}) \X SUBSET Messages)
                         \cup ({"direct"} \X {0} \X SUBSET Messages)
    /\ TermKinds \subseteq {"forever", "timed", "down"}

(***************************************************************************)
(* "forever" is Terminate with a negative grace period (no timer), "timed" *)
(* is Terminate with a grace period >= 0 (the timer fires at any moment),  *)
(* "down" is unsolicitedTermination.                                       *)
(***************************************************************************)
VARIABLES
    strategy,       \* backpressureConfiguration
    capacity,       \* cap(buffer), also the capacity of the task buffer
    blocking,       \* the messages the application publishes with PublishAwaitAcknowledgement
    state,          \* basicMessagePublisher.state
    pubPC,          \* where the goroutine publishing m is, or how publish(m) ended
    buffer,         \* persistentMessagePublisherImpl.buffer
    taskQ,          \* the task buffer's channel; a task is named by its message
    closed,         \* the channels that are closed
    runPC,          \* taskBuffer.Run and the sendTask it waits for
    task,           \* the task Run holds
    isFull,         \* sendTask's local isFull
    failed,         \* sendTask's local errorInfo # nil
    correlationMap, \* the message ids that have a correlation context
    completes,      \* how often correlationComplete was closed
    ackRegistered,  \* the ack handler is in acknowledgementMap
    ackPC,          \* ackHandler
    ackMsg,         \* the message it is handling
    blocker,        \* the messages whose acknowledgementChannel (capacity 1) is full
    termPC,         \* the goroutine that terminates the publisher
    termKind,       \* how termination was started
    graceful,       \* Terminate's local graceful: no timer has fired
    discarded,      \* undeliveredCount + unackedCount
    reached,        \* the entry of correlationMap drainAckTable's range has reached
    notifying,      \* how many notifyReady goroutines of onCanSend have yet to run
    \* History and environment.
    inflight,       \* messages the session accepted and the broker has not acknowledged
    verdicts,       \* what the application was told about m, in that order
    owesCanSend,    \* CCSMP answered a direct publish would-block and owes a CAN_SEND
    readyOwed,      \* a publish met would-block or a full buffer; no readiness submitted since
    mispopped,      \* some task took another task's message out of buffer
    raced           \* messages being published when termination began

setupVars == <<strategy, capacity, blocking>>
pipeVars  == <<buffer, taskQ>>
taskVars  == <<runPC, task, isFull, failed, mispopped>>
ackVars   == <<ackRegistered, ackPC, ackMsg>>
tellVars  == <<blocker, verdicts>>
termVars  == <<state, termPC, termKind, graceful, discarded, reached, raced>>
readyVars == <<owesCanSend, notifying, readyOwed>>
vars == <<setupVars, pipeVars, taskVars, ackVars, tellVars, termVars, readyVars, pubPC, closed,
          correlationMap, completes, inflight>>

Channels == {"terminateWaitInterrupt", "terminateGraceful", "terminateTask",
             "terminateUngraceful", "terminateComplete", "requestCorrelateComplete",
             "buffer", "eventExecutor"}
PubPCs  == {"idle", "checked", "added", "wouldblock", "remove", "pushed", "waiting",
            "ok", "timeout", "overflow", "error", "terminated"}
RunPCs  == {"check", "take", "block", "held", "add", "publish", "await", "remove",
            "full", "pop", "fail", "resolve", "signal", "exit", "done"}
AckPCs  == {"idle", "lookup", "resolve", "delete"}
TermPCs == {"idle", "stop", "awaitTasks", "task", "ungraceful", "join", "request",
            "awaitAcks", "deregister", "close", "drainQueue", "lockAcks",
            "drainAcks", "executor", "done"}
Verdicts == {"acked", "refused", "terminated"}

(* The publisher as construct and Start leave it; Lifecycle has Start.     *)
Init ==
    /\ \E setup \in Setups :
         strategy = setup[1] /\ capacity = setup[2] /\ blocking = setup[3]
    /\ state = "Started"
    /\ pubPC = [m \in Messages |-> "idle"]
    /\ buffer = <<>> /\ taskQ = <<>> /\ closed = {}
    /\ runPC = IF strategy = "direct" THEN "done" ELSE "check"
    /\ task = NoMsg /\ isFull = FALSE /\ failed = FALSE
    /\ correlationMap = {} /\ completes = 0
    /\ ackRegistered = TRUE /\ ackPC = "idle" /\ ackMsg = NoMsg
    /\ blocker = {}
    /\ termPC = "idle" /\ termKind = "none" /\ graceful = TRUE /\ discarded = 0
    /\ reached = NoMsg
    /\ inflight = {} /\ verdicts = [m \in Messages |-> <<>>]
    /\ owesCanSend = FALSE /\ notifying = 0 /\ readyOwed = FALSE
    /\ mispopped = FALSE /\ raced = {}

Buffered == strategy # "direct"

-----------------------------------------------------------------------------
(* Correlation contexts.                                                   *)

(* correlationLock is held across steps only by drainAckTable; every other *)
(* critical section is one step.                                           *)
CorrelationUnlocked == termPC # "drainAcks"

(* callbackCorrelationContext.resolve submits a receipt to the event       *)
(* executor, which drops it once closed; blockingCorrelationContext.resolve*)
(* sends to acknowledgementChannel and blocks while that is full.          *)
Resolve(m, verdict) ==
    /\ m \notin blocker
    /\ blocker' = IF m \in blocking THEN blocker \cup {m} ELSE blocker
    /\ verdicts' = IF m \in blocking \/ "eventExecutor" \notin closed
                   THEN [verdicts EXCEPT ![m] = Append(@, verdict)]
                   ELSE verdicts

AddCorrelationContext(m) ==
    /\ CorrelationUnlocked
    /\ correlationMap' = correlationMap \cup {m}

RemoveCorrelationContext(m) ==
    /\ CorrelationUnlocked
    /\ correlationMap' = correlationMap \ {m}

(* notifyReady submits the readiness listener to the event executor.       *)
NotifyReady == readyOwed' = (readyOwed /\ "eventExecutor" \in closed)

-----------------------------------------------------------------------------
(* publish: one goroutine per message.                                     *)

Goto(m, pc) == pubPC' = [pubPC EXCEPT ![m] = pc]

(* publish returned nil: PublishAwaitAcknowledgement goes on to wait.      *)
Accepted(m) == IF m \in blocking THEN "waiting" ELSE "ok"

(* checkStartedStateForPublish is called on entry and again after the tag  *)
(* is attached; the later call is the one that counts.  Building the       *)
(* message in between may fail.                                            *)
PublishCheck(m) ==
    /\ pubPC[m] = "idle"
    /\ \/ Goto(m, IF state = "Started" THEN "checked" ELSE "terminated")
       \/ state = "Started" /\ Goto(m, "error")
    /\ UNCHANGED <<setupVars, pipeVars, taskVars, ackVars, tellVars, termVars, closed,
                   correlationMap, completes, inflight, readyVars>>

PublishDirectAdd(m) ==
    /\ ~Buffered /\ pubPC[m] = "checked"
    /\ AddCorrelationContext(m)
    /\ Goto(m, "added")
    /\ UNCHANGED <<setupVars, pipeVars, taskVars, ackVars, tellVars, termVars, closed,
                   completes, inflight, readyVars>>

(* CCSMP owes a CAN_SEND from the moment it answers would-block.           *)
PublishDirectSend(m) ==
    /\ pubPC[m] = "added"
    /\ \/ Goto(m, Accepted(m)) /\ inflight' = inflight \cup {m} /\ UNCHANGED readyVars
       \/ Goto(m, "remove") /\ UNCHANGED <<inflight, readyVars>>
       \/ /\ Goto(m, "wouldblock")
          /\ owesCanSend' = TRUE /\ readyOwed' = TRUE
          /\ UNCHANGED <<inflight, notifying>>
    /\ UNCHANGED <<setupVars, pipeVars, taskVars, ackVars, tellVars, termVars, closed,
                   correlationMap, completes>>

(* A failed send is withdrawn; would-block becomes an overflow error.      *)
PublishDirectRemove(m) ==
    /\ \/ pubPC[m] = "wouldblock" /\ Goto(m, "overflow")
       \/ pubPC[m] = "remove" /\ Goto(m, "error")
    /\ RemoveCorrelationContext(m)
    /\ UNCHANGED <<setupVars, pipeVars, taskVars, ackVars, tellVars, termVars, closed,
                   completes, inflight, readyVars>>

(* bufferPublishLock is held from the push to the end of Submit.           *)
BufferPublishUnlocked == \A m \in Messages : pubPC[m] # "pushed"

HasSpace == Len(buffer) < capacity

PublishPush(m) ==
    /\ Buffered /\ pubPC[m] = "checked" /\ BufferPublishUnlocked
    /\ "buffer" \notin closed /\ HasSpace
    /\ buffer' = Append(buffer, m)
    /\ Goto(m, "pushed")
    /\ UNCHANGED <<setupVars, taskQ, taskVars, ackVars, tellVars, termVars, closed,
                   correlationMap, completes, inflight, readyVars>>

PublishOverflow(m) ==
    /\ strategy = "reject" /\ pubPC[m] = "checked" /\ BufferPublishUnlocked
    /\ "buffer" \notin closed /\ Len(buffer) = capacity
    /\ Goto(m, "overflow")
    /\ readyOwed' = TRUE
    /\ UNCHANGED <<setupVars, pipeVars, taskVars, ackVars, tellVars, termVars, closed,
                   correlationMap, completes, inflight, owesCanSend, notifying>>

(* The send panics on a closed buffer and is recovered; with back-pressure *)
(* wait the select may also see terminateWaitInterrupt closed.             *)
PublishInterrupted(m) ==
    /\ Buffered /\ pubPC[m] = "checked" /\ BufferPublishUnlocked
    /\ "buffer" \in closed \/ (strategy = "wait" /\ "terminateWaitInterrupt" \in closed)
    /\ Goto(m, "terminated")
    /\ UNCHANGED <<setupVars, pipeVars, taskVars, ackVars, tellVars, termVars, closed,
                   correlationMap, completes, inflight, readyVars>>

(* A task the task buffer refuses leaves its message in buffer.            *)
PublishSubmit(m) ==
    /\ pubPC[m] = "pushed"
    /\ taskQ' = IF "terminateComplete" \in closed \/ Len(taskQ) >= capacity
                THEN taskQ ELSE Append(taskQ, m)
    /\ Goto(m, Accepted(m))
    /\ UNCHANGED <<setupVars, buffer, taskVars, ackVars, tellVars, termVars, closed,
                   correlationMap, completes, inflight, readyVars>>

AwaitAcknowledgement(m) ==
    /\ pubPC[m] = "waiting" /\ m \in blocker
    /\ blocker' = blocker \ {m}
    /\ Goto(m, "ok")
    /\ UNCHANGED <<setupVars, pipeVars, taskVars, ackVars, verdicts, termVars, closed,
                   correlationMap, completes, inflight, readyVars>>

(* timeout >= 0: the timer may fire at any moment.                         *)
AwaitTimeout(m) ==
    /\ pubPC[m] = "waiting"
    /\ Goto(m, "timeout")
    /\ UNCHANGED <<setupVars, pipeVars, taskVars, ackVars, tellVars, termVars, closed,
                   correlationMap, completes, inflight, readyVars>>

-----------------------------------------------------------------------------
(* The task buffer's Run loop and the sendTask it waits for.               *)

RunCheck ==
    /\ runPC = "check"
    /\ runPC' = IF "terminateUngraceful" \in closed THEN "exit" ELSE "take"
    /\ UNCHANGED <<setupVars, pipeVars, task, isFull, failed, mispopped, ackVars, tellVars,
                   termVars, pubPC, closed, correlationMap, completes, inflight, readyVars>>

(* Once terminateGraceful is closed Run drains the channel, then leaves.   *)
RunTake ==
    /\ \/ runPC = "take" /\ "terminateGraceful" \in closed
       \/ runPC = "block"
    /\ taskQ # <<>>
    /\ task' = Head(taskQ) /\ taskQ' = Tail(taskQ)
    /\ runPC' = "held"
    /\ UNCHANGED <<setupVars, buffer, isFull, failed, mispopped, ackVars, tellVars,
                   termVars, pubPC, closed, correlationMap, completes, inflight, readyVars>>

RunWait ==
    /\ \/ runPC = "take" /\ "terminateGraceful" \notin closed /\ runPC' = "block"
       \/ runPC = "block" /\ "terminateGraceful" \in closed /\ runPC' = "check"
    /\ UNCHANGED <<setupVars, pipeVars, task, isFull, failed, mispopped, ackVars, tellVars,
                   termVars, pubPC, closed, correlationMap, completes, inflight, readyVars>>

RunComplete ==
    /\ \/ runPC = "take" /\ "terminateGraceful" \in closed /\ taskQ = <<>>
       \/ runPC = "exit"
    /\ runPC' = "done"
    /\ closed' = closed \cup {"terminateComplete"}
    /\ UNCHANGED <<setupVars, pipeVars, task, isFull, failed, mispopped, ackVars, tellVars,
                   termVars, pubPC, correlationMap, completes, inflight, readyVars>>

(* The publish loop accepts the task, or terminateUngraceful is closed     *)
(* first and the task is dropped.                                          *)
RunHandOver ==
    /\ runPC = "held"
    /\ \/ runPC' = "add" /\ UNCHANGED task
       \/ "terminateUngraceful" \in closed /\ runPC' = "exit" /\ task' = NoMsg
    /\ UNCHANGED <<setupVars, pipeVars, isFull, failed, mispopped, ackVars, tellVars,
                   termVars, pubPC, closed, correlationMap, completes, inflight, readyVars>>

TaskAdd ==
    /\ runPC = "add"
    /\ AddCorrelationContext(task)
    /\ runPC' = "publish"
    /\ UNCHANGED <<setupVars, pipeVars, task, isFull, failed, mispopped, ackVars, tellVars,
                   termVars, pubPC, closed, completes, inflight, readyVars>>

TaskPublishOk ==
    /\ runPC = "publish"
    /\ inflight' = inflight \cup {task}
    /\ failed' = FALSE /\ runPC' = "full"
    /\ UNCHANGED <<setupVars, pipeVars, task, isFull, mispopped, ackVars, tellVars,
                   termVars, pubPC, closed, correlationMap, completes, readyVars>>

TaskPublishFails ==
    /\ runPC = "publish"
    /\ \/ failed' = TRUE /\ runPC' = "full"
       \/ UNCHANGED failed /\ runPC' = "await"   \* would-block
    /\ UNCHANGED <<setupVars, pipeVars, task, isFull, mispopped, ackVars, tellVars,
                   termVars, pubPC, closed, correlationMap, completes, inflight, readyVars>>

(* AwaitWritable: a CAN_SEND token, or terminateTask is closed.            *)
TaskAwait ==
    /\ runPC = "await"
    /\ \/ runPC' = "publish"
       \/ "terminateTask" \in closed /\ runPC' = "remove"
    /\ UNCHANGED <<setupVars, pipeVars, task, isFull, failed, mispopped, ackVars, tellVars,
                   termVars, pubPC, closed, correlationMap, completes, inflight, readyVars>>

BufferIsFull    == Len(buffer) = capacity
SendFailed      == failed
AfterWithdrawal == "resolve"

TaskDone == runPC' = "check" /\ task' = NoMsg /\ isFull' = FALSE /\ failed' = FALSE

(* An interrupted task leaves its message in buffer for drainQueue.        *)
TaskRemove ==
    /\ runPC = "remove"
    /\ RemoveCorrelationContext(task)
    /\ TaskDone
    /\ UNCHANGED <<setupVars, pipeVars, mispopped, ackVars, tellVars, termVars, pubPC,
                   closed, completes, inflight, readyVars>>

TaskReadFull ==
    /\ runPC = "full"
    /\ isFull' = BufferIsFull
    /\ runPC' = "pop"
    /\ UNCHANGED <<setupVars, pipeVars, task, failed, mispopped, ackVars, tellVars,
                   termVars, pubPC, closed, correlationMap, completes, inflight, readyVars>>

(* The pop never blocks; an empty buffer, closed or not, ends the task.    *)
TaskPop ==
    /\ runPC = "pop"
    /\ \/ /\ buffer # <<>>
          /\ buffer' = Tail(buffer)
          /\ mispopped' = (mispopped \/ Head(buffer) # task)
          /\ runPC' = IF SendFailed THEN "fail" ELSE "signal"
          /\ UNCHANGED <<task, isFull, failed>>
       \/ buffer = <<>> /\ TaskDone /\ UNCHANGED <<buffer, mispopped>>
    /\ UNCHANGED <<setupVars, taskQ, ackVars, tellVars, termVars, pubPC, closed,
                   correlationMap, completes, inflight, readyVars>>

TaskFail ==
    /\ runPC = "fail"
    /\ RemoveCorrelationContext(task)
    /\ runPC' = AfterWithdrawal
    /\ UNCHANGED <<setupVars, pipeVars, task, isFull, failed, mispopped, ackVars, tellVars,
                   termVars, pubPC, closed, completes, inflight, readyVars>>

TaskResolve ==
    /\ runPC = "resolve"
    /\ Resolve(task, "refused")
    /\ runPC' = "signal"
    /\ UNCHANGED <<setupVars, pipeVars, task, isFull, failed, mispopped, ackVars, termVars,
                   pubPC, closed, correlationMap, completes, inflight, readyVars>>

TaskSignal ==
    /\ runPC = "signal"
    /\ IF isFull /\ strategy = "reject" THEN NotifyReady ELSE UNCHANGED readyOwed
    /\ TaskDone
    /\ UNCHANGED <<setupVars, pipeVars, mispopped, ackVars, tellVars, termVars, pubPC,
                   closed, correlationMap, completes, inflight, owesCanSend, notifying>>

-----------------------------------------------------------------------------
(* Acknowledgements and CAN_SEND events, from the session.                 *)

(* onAcknowledgement loads the handler, then calls it; an acknowledgement  *)
(* that finds no handler is dropped.                                       *)
OnAcknowledgement(m) ==
    /\ ackPC = "idle" /\ m \in inflight
    /\ inflight' = inflight \ {m}
    /\ IF ackRegistered THEN ackPC' = "lookup" /\ ackMsg' = m ELSE UNCHANGED <<ackPC, ackMsg>>
    /\ UNCHANGED <<setupVars, pipeVars, taskVars, ackRegistered, tellVars, termVars, pubPC,
                   closed, correlationMap, completes, readyVars>>

AckLookup ==
    /\ ackPC = "lookup" /\ CorrelationUnlocked
    /\ IF ackMsg \in correlationMap
       THEN ackPC' = "resolve" /\ UNCHANGED ackMsg
       ELSE ackPC' = "idle" /\ ackMsg' = NoMsg
    /\ UNCHANGED <<setupVars, pipeVars, taskVars, ackRegistered, tellVars, termVars, pubPC,
                   closed, correlationMap, completes, inflight, readyVars>>

(* The context is resolved outside correlationLock.                        *)
AckResolve ==
    /\ ackPC = "resolve"
    /\ Resolve(ackMsg, "acked")
    /\ ackPC' = "delete"
    /\ UNCHANGED <<setupVars, pipeVars, taskVars, ackRegistered, ackMsg, termVars, pubPC,
                   closed, correlationMap, completes, inflight, readyVars>>

(* Mutant: completion is signalled unasked.                                *)
CompletionRequested_Ignored == TRUE
CompletionRequested         == "requestCorrelateComplete" \in closed
TableDrained                == correlationMap' = {}

AckDelete ==
    /\ ackPC = "delete"
    /\ RemoveCorrelationContext(ackMsg)
    /\ completes' = IF state = "Terminating" /\ CompletionRequested /\ TableDrained
                    THEN completes + 1 ELSE completes
    /\ ackPC' = "idle" /\ ackMsg' = NoMsg
    /\ UNCHANGED <<setupVars, pipeVars, taskVars, ackRegistered, tellVars, termVars, pubPC,
                   closed, inflight, readyVars>>

(* onCanSend is registered only with direct back-pressure, until the       *)
(* publisher terminates; it leaves the readiness event to a new goroutine. *)
(* Mutant: it is registered in the buffered modes instead.                 *)
HandlesCanSend_Swapped == Buffered /\ termPC \in {"idle", "stop"}
HandlesCanSend         == ~Buffered /\ termPC \in {"idle", "stop"}

OnCanSend ==
    /\ owesCanSend
    /\ owesCanSend' = FALSE
    /\ notifying' = IF HandlesCanSend THEN notifying + 1 ELSE notifying
    /\ UNCHANGED <<setupVars, pipeVars, taskVars, ackVars, tellVars, termVars, pubPC,
                   closed, correlationMap, completes, inflight, readyOwed>>

NotifyGoroutine ==
    /\ notifying > 0
    /\ notifying' = notifying - 1
    /\ NotifyReady
    /\ UNCHANGED <<setupVars, pipeVars, taskVars, ackVars, tellVars, termVars, pubPC,
                   closed, correlationMap, completes, inflight, owesCanSend>>

(* The application asks; the listener is called at once if IsReady.        *)
IsReady == state = "Started" /\ (strategy = "reject" => Len(buffer) # capacity)

NotifyWhenReady ==
    /\ IsReady
    /\ NotifyReady
    /\ UNCHANGED <<setupVars, pipeVars, taskVars, ackVars, tellVars, termVars, pubPC,
                   closed, correlationMap, completes, inflight, owesCanSend, notifying>>

-----------------------------------------------------------------------------
(* Terminate and unsolicitedTermination.                                   *)

TerminateStart(kind) ==
    /\ state = "Started"
    /\ state' = "Terminating" /\ termKind' = kind /\ termPC' = "stop"
    /\ raced' = {m \in Messages : pubPC[m] \in {"checked", "added", "wouldblock", "remove"}}
    /\ UNCHANGED <<setupVars, pipeVars, taskVars, ackVars, tellVars, graceful, discarded,
                   reached, pubPC, closed, correlationMap, completes, inflight, readyVars>>

TerminatorFrame ==
    UNCHANGED <<setupVars, taskVars, ackPC, ackMsg, pubPC, completes, inflight, readyVars, taskQ,
                termKind, raced>>

TerminatorAt(pc) == termPC = pc /\ TerminatorFrame /\ UNCHANGED reached

(* Waiting publishes are interrupted and the task buffer told to finish;   *)
(* unsolicitedTermination deregisters the ack handler first and goes       *)
(* straight on to the ungraceful signals.                                  *)
TerminateStop ==
    /\ TerminatorAt("stop")
    /\ ackRegistered' = (termKind # "down")
    /\ closed' = IF Buffered
                 THEN closed \cup {"terminateWaitInterrupt", "terminateGraceful"}
                 ELSE closed
    /\ termPC' = IF Buffered THEN IF termKind = "down" THEN "task" ELSE "awaitTasks"
                             ELSE IF termKind = "down" THEN "lockAcks" ELSE "request"
    /\ UNCHANGED <<buffer, tellVars, state, graceful, discarded, correlationMap>>

(* taskBuffer.Terminate returned true.                                     *)
TerminateTasksDrained ==
    /\ TerminatorAt("awaitTasks")
    /\ "terminateComplete" \in closed
    /\ termPC' = "request"
    /\ UNCHANGED <<buffer, closed, ackRegistered, tellVars, state, graceful, discarded,
                   correlationMap>>

(* The grace period runs out while tasks, or acknowledgements, are awaited.*)
TerminateTimeout ==
    /\ \/ TerminatorAt("awaitTasks") /\ termPC' = "task"
       \/ TerminatorAt("awaitAcks") /\ termPC' = "deregister"
    /\ termKind = "timed"
    /\ graceful' = FALSE
    /\ UNCHANGED <<buffer, closed, ackRegistered, tellVars, state, discarded, correlationMap>>

TerminateTask ==
    /\ TerminatorAt("task")
    /\ closed' = closed \cup {"terminateTask"}
    /\ termPC' = "ungraceful"
    /\ UNCHANGED <<buffer, ackRegistered, tellVars, state, graceful, discarded, correlationMap>>

(* TerminateNow does not wait for Run, Terminate does.                     *)
TerminateUngraceful ==
    /\ TerminatorAt("ungraceful")
    /\ closed' = closed \cup {"terminateUngraceful"}
    /\ termPC' = IF termKind = "down" THEN "close" ELSE "join"
    /\ UNCHANGED <<buffer, ackRegistered, tellVars, state, graceful, discarded, correlationMap>>

TerminateJoin ==
    /\ TerminatorAt("join")
    /\ "terminateComplete" \in closed
    /\ termPC' = "deregister"
    /\ UNCHANGED <<buffer, closed, ackRegistered, tellVars, state, graceful, discarded,
                   correlationMap>>

RemainingAcks == correlationMap # {}

TerminateRequest ==
    /\ TerminatorAt("request") /\ CorrelationUnlocked
    /\ closed' = closed \cup {"requestCorrelateComplete"}
    /\ termPC' = IF RemainingAcks THEN "awaitAcks" ELSE "deregister"
    /\ UNCHANGED <<buffer, ackRegistered, tellVars, state, graceful, discarded, correlationMap>>

TerminateAcksComplete ==
    /\ TerminatorAt("awaitAcks")
    /\ completes > 0
    /\ termPC' = "deregister"
    /\ UNCHANGED <<buffer, closed, ackRegistered, tellVars, state, graceful, discarded,
                   correlationMap>>

TerminateDeregister ==
    /\ TerminatorAt("deregister")
    /\ ackRegistered' = FALSE
    /\ termPC' = IF Buffered THEN "close" ELSE "lockAcks"
    /\ UNCHANGED <<buffer, closed, tellVars, state, graceful, discarded, correlationMap>>

(* Mutants: the correlation table is not drained; what is drained from it  *)
(* is not counted.                                                         *)
AfterQueue_KeepsTable == "executor"
AfterQueue            == "lockAcks"
UnackedCount_Ignored  == discarded
UnackedCount          == discarded + 1

DrainQueueClose ==
    /\ TerminatorAt("close")
    /\ closed' = closed \cup {"buffer"}
    /\ termPC' = "drainQueue"
    /\ UNCHANGED <<buffer, ackRegistered, tellVars, state, graceful, discarded, correlationMap>>

DrainQueueOne ==
    /\ TerminatorAt("drainQueue")
    /\ buffer # <<>>
    /\ Resolve(Head(buffer), "terminated")
    /\ buffer' = Tail(buffer)
    /\ discarded' = discarded + 1
    /\ UNCHANGED <<closed, ackRegistered, state, termPC, graceful, correlationMap>>

DrainQueueDone ==
    /\ TerminatorAt("drainQueue")
    /\ buffer = <<>>
    /\ termPC' = AfterQueue
    /\ UNCHANGED <<buffer, closed, ackRegistered, tellVars, state, graceful, discarded,
                   correlationMap>>

DrainAckTableLock ==
    /\ TerminatorAt("lockAcks")
    /\ termPC' = "drainAcks"
    /\ UNCHANGED <<buffer, closed, ackRegistered, tellVars, state, graceful, discarded,
                   correlationMap>>

(* The range reaches the entries in any order, but finishes with the one   *)
(* it has reached before it takes the next: resolve may block there.       *)
DrainAckTableReach(m) ==
    /\ termPC = "drainAcks" /\ TerminatorFrame
    /\ reached = NoMsg /\ m \in correlationMap
    /\ reached' = m
    /\ discarded' = UnackedCount
    /\ UNCHANGED <<buffer, closed, ackRegistered, tellVars, state, termPC, graceful,
                   correlationMap>>

DrainAckTableOne ==
    /\ termPC = "drainAcks" /\ TerminatorFrame
    /\ reached # NoMsg
    /\ Resolve(reached, "terminated")
    /\ correlationMap' = correlationMap \ {reached}
    /\ reached' = NoMsg
    /\ UNCHANGED <<buffer, closed, ackRegistered, state, termPC, graceful, discarded>>

DrainAckTableDone ==
    /\ TerminatorAt("drainAcks")
    /\ reached = NoMsg /\ correlationMap = {}
    /\ termPC' = "executor"
    /\ UNCHANGED <<buffer, closed, ackRegistered, tellVars, state, graceful, discarded,
                   correlationMap>>

(* The event executor is terminated, then terminated(err) is called.       *)
TerminateFinish ==
    /\ TerminatorAt("executor")
    /\ closed' = closed \cup {"eventExecutor"}
    /\ state' = "Terminated" /\ termPC' = "done"
    /\ UNCHANGED <<buffer, ackRegistered, tellVars, graceful, discarded, correlationMap>>

-----------------------------------------------------------------------------
Publisher(m) ==
    \/ PublishCheck(m) \/ PublishDirectAdd(m) \/ PublishDirectSend(m)
    \/ PublishDirectRemove(m) \/ PublishPush(m) \/ PublishOverflow(m)
    \/ PublishInterrupted(m) \/ PublishSubmit(m) \/ AwaitAcknowledgement(m)

Run ==
    \/ RunCheck \/ RunTake \/ RunWait \/ RunComplete \/ RunHandOver \/ TaskAdd
    \/ TaskPublishOk \/ TaskPublishFails \/ TaskAwait \/ TaskRemove \/ TaskReadFull
    \/ TaskPop \/ TaskFail \/ TaskResolve \/ TaskSignal

AckHandler == AckLookup \/ AckResolve \/ AckDelete

Terminator ==
    \/ TerminateStop \/ TerminateTasksDrained \/ TerminateTimeout \/ TerminateTask
    \/ TerminateUngraceful \/ TerminateJoin \/ TerminateRequest
    \/ TerminateAcksComplete \/ TerminateDeregister \/ DrainQueueClose
    \/ DrainQueueOne \/ DrainQueueDone \/ DrainAckTableLock
    \/ (\E m \in Messages : DrainAckTableReach(m)) \/ DrainAckTableOne
    \/ DrainAckTableDone \/ TerminateFinish

Next ==
    \/ \E m \in Messages : Publisher(m) \/ AwaitTimeout(m) \/ OnAcknowledgement(m)
    \/ Run \/ AckHandler \/ OnCanSend \/ NotifyGoroutine \/ NotifyWhenReady \/ Terminator
    \/ \E kind \in TermKinds : TerminateStart(kind)

Spec == Init /\ [][Next]_vars

(***************************************************************************)
(* Goroutines that can run do; the session thread delivers what the broker *)
(* acknowledges; a send that is retried is not refused forever; would-block*)
(* is followed by CAN_SEND.  Timers may fire but need not, except the      *)
(* grace period's.                                                         *)
(***************************************************************************)
FairSpec ==
    /\ Spec
    /\ \A m \in Messages : WF_vars(Publisher(m)) /\ WF_vars(OnAcknowledgement(m))
    /\ WF_vars(Run) /\ SF_vars(TaskPublishOk)
    /\ WF_vars(AckHandler) /\ WF_vars(OnCanSend) /\ WF_vars(NotifyGoroutine)
    /\ WF_vars(Terminator)

-----------------------------------------------------------------------------
(* The state the publisher keeps has its declared types, and both channels *)
(* of the buffered path respect bufferSize.                                *)
TypeOK ==
    /\ strategy \in {"direct", "reject", "wait"} /\ capacity \in Nat /\ blocking \subseteq Messages
    /\ state \in {"Started", "Terminating", "Terminated"}
    /\ pubPC \in [Messages -> PubPCs]
    /\ buffer \in Seq(Messages) /\ taskQ \in Seq(Messages)
    /\ Len(buffer) <= capacity /\ Len(taskQ) <= capacity
    /\ closed \subseteq Channels
    /\ runPC \in RunPCs /\ task \in Messages \cup {NoMsg}
    /\ isFull \in BOOLEAN /\ failed \in BOOLEAN
    /\ correlationMap \subseteq Messages /\ completes \in Nat
    /\ ackRegistered \in BOOLEAN /\ ackPC \in AckPCs /\ ackMsg \in Messages \cup {NoMsg}
    /\ blocker \subseteq Messages
    /\ termPC \in TermPCs /\ termKind \in {"none", "forever", "timed", "down"}
    /\ graceful \in BOOLEAN /\ discarded \in Nat /\ reached \in Messages \cup {NoMsg}
    /\ owesCanSend \in BOOLEAN /\ notifying \in Nat
    /\ inflight \subseteq Messages /\ verdicts \in [Messages -> Seq(Verdicts)]
    /\ readyOwed \in BOOLEAN /\ mispopped \in BOOLEAN /\ raced \subseteq Messages

(* publish(m) has, or is about to, return nil.                             *)
Promised(m) == pubPC[m] \in {"pushed", "waiting", "ok", "timeout"}

(* With direct back-pressure nothing keeps a publish that passed its state *)
(* check from registering its context after the table has been drained.    *)
Settles(m) == Promised(m) /\ (Buffered \/ m \notin raced)

(* Terminate forgets no accepted message: when it returns, every message   *)
(* publish returned nil for has had its correlation context resolved, by   *)
(* the ack handler, by its sendTask, or by drainQueue and drainAckTable;   *)
(* and exactly once if a buffered publisher terminated gracefully, since   *)
(* then no acknowledgement is being handled while the table is drained.    *)
AcceptedIsResolved ==
    state = "Terminated" /\ termKind # "down" =>
        /\ ~mispopped => \A m \in Messages : Settles(m) => verdicts[m] # <<>>
        /\ graceful /\ Buffered =>
              \A m \in Messages : Promised(m) => Len(verdicts[m]) = 1

(* Terminate returns nil only when the broker or the failed send, never    *)
(* the termination, settled every accepted message; and the application    *)
(* never hears of more than one such outcome, since sendTask takes the     *)
(* context out of the table before it resolves it.                         *)
NilMeansSettled ==
    /\ state = "Terminated" /\ termKind # "down" /\ ~mispopped /\ discarded = 0 =>
          \A m \in Messages : Settles(m) =>
              \E i \in DOMAIN verdicts[m] : verdicts[m][i] # "terminated"
    /\ \A m \in Messages :
          Cardinality({i \in DOMAIN verdicts[m] : verdicts[m][i] # "terminated"}) <= 1

(* ackHandler closes correlationComplete at most once (a second close      *)
(* panics on the session's thread) when publishes go through the buffer.   *)
CompleteSignalledOnce == Buffered => completes <= 1

(* The terminator resolves a context whose acknowledgementChannel is full  *)
(* and whose goroutine no longer receives.                                 *)
DrainStuck ==
    \E m \in blocker :
        /\ pubPC[m] \notin {"added", "pushed", "waiting"}
        /\ \/ termPC = "drainAcks" /\ reached = m
           \/ termPC = "drainQueue" /\ buffer # <<>> /\ Head(buffer) = m

(* Termination ends, with the exceptions of DrainStuck and of a direct     *)
(* publisher that waits indefinitely for an acknowledgement its failed     *)
(* send has withdrawn.  PublishAwaitAcknowledgement with an infinite       *)
(* timeout returns whatever termination does meanwhile, as long as each    *)
(* task pops its own message and drainQueue or drainAckTable is not stuck  *)
(* on an earlier entry, which keeps it from every entry behind it.  A      *)
(* would-block answer or a full buffer is followed by a readiness event    *)
(* or by termination: in direct mode CAN_SEND causes it, through the       *)
(* handler Start registered, and in a buffer of one element the task that  *)
(* makes room has seen the buffer full.                                    *)
EveryWaitEnds ==
    /\ termPC = "stop" ~> \/ state = "Terminated"
                          \/ DrainStuck
                          \/ ~Buffered /\ termKind = "forever" /\ raced # {}
    /\ \A m \in Messages :
         pubPC[m] = "waiting" ~> \/ pubPC[m] # "waiting"
                                 \/ mispopped \/ DrainStuck
                                 \/ ~Buffered /\ m \in raced
    /\ readyOwed /\ capacity <= 1 ~> ~readyOwed \/ state # "Started"
=============================================================================
