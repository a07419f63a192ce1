-------------------------- MODULE DirectPublisher --------------------------
(***************************************************************************)
(* The buffered publish pipeline of the direct message publisher:          *)
(*                                                                         *)
(*   publish (application goroutines)                                      *)
(*      | bufferPublishLock: push to buffer, then Submit a sendTask        *)
(*      v                                                                  *)
(*   channelBasedPublisherTaskBuffer.Run (one goroutine per publisher)     *)
(*      | hands one task at a time to the shared, unbuffered taskQueue     *)
(*      v                                                                  *)
(*   ccsmpBackedPublisher.publishLoop (one goroutine per session)          *)
(*      | runs the task: Publish, AwaitWritable on would-block, then pops  *)
(*      v   one element of buffer                                          *)
(*   the session                                                           *)
(*                                                                         *)
(* together with Terminate(gracePeriod), the unsolicited termination that  *)
(* follows a down event, and the termination of the core publisher.        *)
(* The publisher is Started initially; how it gets there, and that only    *)
(* one terminator proceeds, is the subject of Lifecycle.                   *)
(***************************************************************************)
EXTENDS Naturals, Sequences, FiniteSets

CONSTANTS
    Messages,   \* messages the application publishes, each once, each by its own goroutine
    Capacity,   \* bufferSize, the capacity of both buffer and the task buffer
    Strategies, \* the backpressureConfigurations considered
    TermKinds,  \* the ways termination may start
    StaleToken, \* whether another publisher of the session may have left a CAN_SEND token
    NoMsg       \* no message

ASSUME DirectPublisherAssumption ==
    /\ IsFiniteSet(Messages)
    /\ NoMsg \notin Messages
    /\ Capacity \in Nat \ {0}
    /\ Strategies \subseteq {"direct", "reject", "wait"}
    /\ TermKinds \subseteq {"graceful", "timed", "down"}
    /\ StaleToken \subseteq BOOLEAN

(***************************************************************************)
(* "graceful" is Terminate with a negative grace period (no timer),        *)
(* "timed" is Terminate with a grace period >= 0 (the timer fires at any   *)
(* moment), "down" is unsolicitedTermination.                              *)
(***************************************************************************)
VARIABLES
    strategy,     \* backpressureConfiguration; "direct" uses no buffer
    state,        \* basicMessagePublisher.state
    pubPC,        \* where the goroutine publishing m is
    result,       \* what publish(m) returned
    lock,         \* holder of bufferPublishLock
    buffer,       \* directMessagePublisherImpl.buffer
    bufferClosed, \* close(buffer) was called
    taskQ,        \* channelBasedPublisherTaskBuffer.channel; a task is named by its message
    signals,      \* the signal channels that are closed
    runPC,        \* taskBuffer.Run
    runTask,      \* the task Run holds
    loopPC,       \* publishLoop and the sendTask it executes
    isFull,       \* sendTask's local isFull
    failed,       \* sendTask's local errorInfo # nil
    canSend,      \* ccsmpBackedPublisher.canSend, a channel of capacity 1
    core,         \* progress of ccsmpBackedPublisher.terminate
    session,      \* the session as CCSMP sees it
    owesCanSend,  \* CCSMP returned would-block and has not yet raised CAN_SEND
    termPC,       \* the goroutine that terminates the publisher
    termKind,     \* how termination was started
    execClosed,   \* eventExecutor refuses tasks
    notifying,    \* how many notifyReady goroutines of onCanSend have yet to run
    \* History: what the application and the broker observe.
    accepted,     \* messages pushed into buffer, in that order
    wire,         \* messages the session accepted, in that order
    errored,      \* messages whose task saw an error other than would-block
    undelivered,  \* messages drainQueue took out of buffer
    failures,     \* messages given to the publish failure listener
    readyOwed,    \* a publish met would-block or a full buffer; no readiness submitted since
    promised      \* messages whose publish had returned nil when termination began

pipeVars == <<buffer, bufferClosed, taskQ, lock, pubPC, result, accepted>>
runVars  == <<runPC, runTask>>
loopVars == <<loopPC, isFull, failed, wire, errored>>
coreVars == <<canSend, core, session, owesCanSend>>
termVars == <<state, termPC, termKind, undelivered, promised>>
evtVars  == <<execClosed, notifying, failures, readyOwed>>
vars == <<pipeVars, runVars, loopVars, coreVars, termVars, evtVars, signals, strategy>>

Signals == {"waitInterrupt", "graceful", "task", "ungraceful", "complete"}
PubPCs  == {"idle", "lock", "overflow", "push", "submit", "enqueue", "done"}
Results == {"none", "ok", "overflow", "terminated", "error"}
RunPCs  == {"top", "pick", "block", "offer", "wait", "exit", "exited"}
LoopPCs == {"top", "select", "publish", "await", "full", "pop", "report", "signal", "exited"}
TermPCs == {"idle", "interrupt", "graceful", "await", "task", "ungraceful",
            "awaitForced", "close", "drain", "finish", "done"}

Init ==
    /\ strategy \in Strategies
    /\ state = "Started"
    /\ pubPC = [m \in Messages |-> "idle"]
    /\ result = [m \in Messages |-> "none"]
    /\ lock = NoMsg
    /\ buffer = <<>> /\ bufferClosed = FALSE /\ taskQ = <<>>
    /\ signals = {}
    /\ runPC = "top" /\ runTask = NoMsg
    /\ loopPC = "top" /\ isFull = FALSE /\ failed = FALSE
    /\ \E stale \in StaleToken : canSend = IF stale THEN <<TRUE>> ELSE <<>>
    /\ core = "running" /\ session = "up" /\ owesCanSend = FALSE
    /\ termPC = "idle" /\ termKind = "none"
    /\ execClosed = FALSE /\ notifying = 0
    /\ accepted = <<>> /\ wire = <<>> /\ errored = {}
    /\ undelivered = {} /\ failures = {} /\ readyOwed = FALSE /\ promised = {}

-----------------------------------------------------------------------------
(* notifyReady and the failure listener go through eventExecutor.Submit,   *)
(* which refuses once the executor is closed.                              *)

SubmitFailure(m) == failures' = IF execClosed THEN failures ELSE failures \cup {m}
NotifyReady      == readyOwed' = (readyOwed /\ execClosed)

-----------------------------------------------------------------------------
(* publish: one goroutine per message.                                     *)

(* PublishWithProperties and publish both call checkStartedStateForPublish *)
(* before anything is shared; the later check is the one that counts.      *)
PublishCheck(m) ==
    /\ pubPC[m] = "idle"
    /\ IF state = "Started"
       THEN /\ pubPC' = [pubPC EXCEPT ![m] = "lock"]
            /\ UNCHANGED result
       ELSE /\ pubPC' = [pubPC EXCEPT ![m] = "done"]
            /\ result' = [result EXCEPT ![m] = "terminated"]
    /\ UNCHANGED <<strategy, buffer, bufferClosed, taskQ, lock, accepted, runVars, loopVars,
                   coreVars, termVars, evtVars, signals>>

Finish(m, r) ==
    /\ pubPC' = [pubPC EXCEPT ![m] = "done"]
    /\ result' = [result EXCEPT ![m] = r]

(* bufferPublishLock and the two bounded channels; every return of the     *)
(* buffered path runs the deferred Unlock.                                 *)
(* Mutants: no lock; a return without Unlock; a bound off by one.          *)
LockFree_NoLock    == TRUE
LockFree           == lock = NoMsg
Unlock_Forgotten   == UNCHANGED lock
Unlock             == lock' = NoMsg
HasSpace           == Len(buffer) < Capacity
TaskCapacity_Short == Capacity - 1
TaskCapacity       == Capacity

(* What SolClientSessionPublish may answer. *)
Outcomes == IF session = "up" THEN {"ok", "wouldblock", "error"} ELSE {"error"}

(* backpressureConfigurationDirect: the caller publishes on the session.   *)
(* CCSMP owes a CAN_SEND from the moment it answers would-block ...        *)
PublishDirect(m) ==
    /\ strategy = "direct"
    /\ pubPC[m] = "lock"
    /\ \E o \in Outcomes :
         /\ IF o = "wouldblock"
            THEN pubPC' = [pubPC EXCEPT ![m] = "overflow"] /\ UNCHANGED result
            ELSE Finish(m, o)
         /\ wire' = IF o = "ok" THEN Append(wire, m) ELSE wire
         /\ owesCanSend' = (owesCanSend \/ o = "wouldblock")
         /\ readyOwed' = (readyOwed \/ o = "wouldblock")
    /\ UNCHANGED <<strategy, buffer, bufferClosed, taskQ, lock, accepted, runVars, loopPC, isFull,
                   failed, errored, canSend, core, session, termVars,
                   execClosed, notifying, failures, signals>>

(* ... and may raise it before the caller is given the overflow error. *)
PublishDirectOverflow(m) ==
    /\ pubPC[m] = "overflow"
    /\ Finish(m, "overflow")
    /\ UNCHANGED <<strategy, buffer, bufferClosed, taskQ, lock, accepted, runVars, loopVars,
                   coreVars, termVars, evtVars, signals>>

PublishLock(m) ==
    /\ strategy # "direct"
    /\ pubPC[m] = "lock" /\ LockFree
    /\ lock' = m
    /\ pubPC' = [pubPC EXCEPT ![m] = "push"]
    /\ UNCHANGED <<strategy, buffer, bufferClosed, taskQ, result, accepted, runVars, loopVars,
                   coreVars, termVars, evtVars, signals>>

(* buffer <- pub succeeds. *)
PublishPush(m) ==
    /\ pubPC[m] = "push"
    /\ ~bufferClosed /\ HasSpace
    /\ buffer' = Append(buffer, m)
    /\ accepted' = Append(accepted, m)
    /\ pubPC' = [pubPC EXCEPT ![m] = "submit"]
    /\ UNCHANGED <<strategy, bufferClosed, taskQ, lock, result, runVars, loopVars,
                   coreVars, termVars, evtVars, signals>>

(* reject: the default branch of the select. *)
PublishOverflow(m) ==
    /\ pubPC[m] = "push"
    /\ strategy = "reject"
    /\ ~bufferClosed /\ ~HasSpace
    /\ Finish(m, "overflow")
    /\ Unlock
    /\ readyOwed' = TRUE
    /\ UNCHANGED <<strategy, buffer, bufferClosed, taskQ, accepted, runVars, loopVars, coreVars,
                   termVars, execClosed, notifying, failures, signals>>

(* Sending on the closed buffer panics and is recovered as an error; in    *)
(* wait mode the interrupt is the other branch of the same select.         *)
PublishInterrupted(m) ==
    /\ pubPC[m] = "push"
    /\ bufferClosed \/ (strategy = "wait" /\ "waitInterrupt" \in signals)
    /\ Finish(m, "terminated")
    /\ Unlock
    /\ UNCHANGED <<strategy, buffer, bufferClosed, taskQ, accepted, runVars, loopVars, coreVars,
                   termVars, evtVars, signals>>

(* taskBuffer.Submit: first look at terminateComplete ... *)
SubmitCheck(m) ==
    /\ pubPC[m] = "submit"
    /\ IF "complete" \in signals
       THEN Finish(m, "ok") /\ Unlock
       ELSE /\ pubPC' = [pubPC EXCEPT ![m] = "enqueue"]
            /\ UNCHANGED <<result, lock>>
    /\ UNCHANGED <<strategy, buffer, bufferClosed, taskQ, accepted, runVars, loopVars, coreVars,
                   termVars, evtVars, signals>>

(* ... then send without blocking; a refused task is only logged. *)
SubmitEnqueue(m) ==
    /\ pubPC[m] = "enqueue"
    /\ taskQ' = IF Len(taskQ) < TaskCapacity THEN Append(taskQ, m) ELSE taskQ
    /\ Finish(m, "ok")
    /\ Unlock
    /\ UNCHANGED <<strategy, buffer, bufferClosed, accepted, runVars, loopVars, coreVars,
                   termVars, evtVars, signals>>

-----------------------------------------------------------------------------
(* channelBasedPublisherTaskBuffer.Run                                     *)

GracefulSignalled == "graceful" \in signals
NoTaskLeft        == taskQ = <<>>

RunTop ==
    /\ strategy # "direct"
    /\ runPC = "top"
    /\ runPC' = IF "ungraceful" \in signals THEN "exit" ELSE "pick"
    /\ UNCHANGED <<strategy, pipeVars, runTask, loopVars, coreVars, termVars, evtVars, signals>>

(* Draining after terminateGraceful: take a task without blocking, or stop. *)
RunPick ==
    /\ runPC = "pick"
    /\ IF ~GracefulSignalled
       THEN runPC' = "block" /\ UNCHANGED <<taskQ, runTask, signals>>
       ELSE IF NoTaskLeft
       THEN /\ runPC' = "exited"
            /\ signals' = signals \cup {"complete"}
            /\ UNCHANGED <<taskQ, runTask>>
       ELSE /\ runPC' = "offer"
            /\ runTask' = Head(taskQ) /\ taskQ' = Tail(taskQ)
            /\ UNCHANGED signals
    /\ UNCHANGED <<strategy, buffer, bufferClosed, lock, pubPC, result, accepted, loopVars,
                   coreVars, termVars, evtVars>>

RunBlockTake ==
    /\ runPC = "block" /\ taskQ # <<>>
    /\ runPC' = "offer"
    /\ runTask' = Head(taskQ) /\ taskQ' = Tail(taskQ)
    /\ UNCHANGED <<strategy, buffer, bufferClosed, lock, pubPC, result, accepted, loopVars,
                   coreVars, termVars, evtVars, signals>>

RunBlockInterrupted ==
    /\ runPC = "block" /\ GracefulSignalled
    /\ runPC' = "top"
    /\ UNCHANGED <<strategy, pipeVars, runTask, loopVars, coreVars, termVars, evtVars, signals>>

(* The rendezvous on the shared taskQueue. *)
RunHandOver ==
    /\ runPC = "offer" /\ loopPC = "select"
    /\ runPC' = "wait" /\ loopPC' = "publish"
    /\ UNCHANGED <<strategy, pipeVars, runTask, isFull, failed, wire, errored, coreVars,
                   termVars, evtVars, signals>>

RunAbort ==
    /\ runPC = "offer" /\ "ungraceful" \in signals
    /\ runPC' = "exit" /\ runTask' = NoMsg
    /\ UNCHANGED <<strategy, pipeVars, loopVars, coreVars, termVars, evtVars, signals>>

RunExit ==
    /\ runPC = "exit"
    /\ runPC' = "exited"
    /\ signals' = signals \cup {"complete"}
    /\ UNCHANGED <<strategy, pipeVars, runTask, loopVars, coreVars, termVars, evtVars>>

-----------------------------------------------------------------------------
(* publishLoop and the sendTask closure it runs.                           *)

(* Mutants: terminateTask is ignored; an abandoned task pops all the same. *)
TaskInterrupted_Ignored == FALSE
TaskInterrupted         == "task" \in signals
AbandonTask_Pops        == loopPC' = "full"
AbandonTask             == loopPC' = "signal"
BufferIsFull            == Len(buffer) = Capacity

LoopTop ==
    /\ loopPC = "top"
    /\ loopPC' = IF core = "closed" THEN "exited" ELSE "select"
    /\ UNCHANGED <<strategy, pipeVars, runVars, isFull, failed, wire, errored, coreVars,
                   termVars, evtVars, signals>>

LoopTerminated ==
    /\ loopPC = "select" /\ core = "closed"
    /\ loopPC' = "exited"
    /\ UNCHANGED <<strategy, pipeVars, runVars, isFull, failed, wire, errored, coreVars,
                   termVars, evtVars, signals>>

TaskPublishOk ==
    /\ loopPC = "publish" /\ "ok" \in Outcomes
    /\ wire' = Append(wire, runTask)
    /\ loopPC' = "full"
    /\ UNCHANGED <<strategy, pipeVars, runVars, isFull, failed, errored, coreVars,
                   termVars, evtVars, signals>>

TaskPublishWouldBlock ==
    /\ loopPC = "publish" /\ "wouldblock" \in Outcomes
    /\ owesCanSend' = TRUE
    /\ loopPC' = "await"
    /\ UNCHANGED <<strategy, pipeVars, runVars, isFull, failed, wire, errored, canSend,
                   core, session, termVars, evtVars, signals>>

TaskPublishError ==
    /\ loopPC = "publish" /\ "error" \in Outcomes
    /\ errored' = errored \cup {runTask}
    /\ failed' = TRUE
    /\ loopPC' = "full"
    /\ UNCHANGED <<strategy, pipeVars, runVars, isFull, wire, coreVars, termVars,
                   evtVars, signals>>

(* AwaitWritable: a token TRUE retries, a token FALSE abandons the task ... *)
TaskAwaitToken ==
    /\ loopPC = "await" /\ canSend # <<>>
    /\ IF Head(canSend) THEN loopPC' = "publish" ELSE AbandonTask
    /\ canSend' = <<>>
    /\ UNCHANGED <<strategy, pipeVars, runVars, isFull, failed, wire, errored, core,
                   session, owesCanSend, termVars, evtVars, signals>>

(* ... and so does terminateTask: the message stays in buffer. *)
TaskAwaitTerminated ==
    /\ loopPC = "await" /\ TaskInterrupted
    /\ AbandonTask
    /\ UNCHANGED <<strategy, pipeVars, runVars, isFull, failed, wire, errored, coreVars,
                   termVars, evtVars, signals>>

TaskReadFull ==
    /\ loopPC = "full"
    /\ isFull' = BufferIsFull
    /\ loopPC' = "pop"
    /\ UNCHANGED <<strategy, pipeVars, runVars, failed, wire, errored, coreVars, termVars,
                   evtVars, signals>>

(* The non-blocking receive takes whatever is at the head of buffer. *)
TaskPop ==
    /\ loopPC = "pop"
    /\ IF buffer = <<>>
       THEN loopPC' = "signal" /\ UNCHANGED buffer
       ELSE /\ loopPC' = "report"
            /\ buffer' = Tail(buffer)
    /\ UNCHANGED <<strategy, bufferClosed, taskQ, lock, pubPC, result, accepted, runVars, isFull,
                   failed, wire, errored, coreVars, termVars, evtVars, signals>>

TaskReport ==
    /\ loopPC = "report"
    /\ IF failed THEN SubmitFailure(runTask) ELSE UNCHANGED failures
    /\ IF isFull /\ strategy = "reject" THEN NotifyReady ELSE UNCHANGED readyOwed
    /\ loopPC' = "signal"
    /\ UNCHANGED <<strategy, pipeVars, runVars, isFull, failed, wire, errored, coreVars,
                   termVars, execClosed, notifying, signals>>

(* taskCompleteNotify <- true, received by Run. *)
TaskComplete ==
    /\ loopPC = "signal" /\ runPC = "wait"
    /\ loopPC' = "top" /\ runPC' = "top" /\ runTask' = NoMsg
    /\ isFull' = FALSE /\ failed' = FALSE   \* the task's locals are gone
    /\ UNCHANGED <<strategy, pipeVars, wire, errored, coreVars, termVars,
                   evtVars, signals>>

-----------------------------------------------------------------------------
(* The session and the core publisher.                                     *)

(* A non-blocking send on canSend. *)
PushToken(b) == canSend' = IF canSend = <<>> THEN <<b>> ELSE canSend

(* The publisher's own CAN_SEND handler is registered in direct mode only. *)
(* Mutant: it is registered in the buffered modes instead.                 *)
HandlesCanSend_Swapped == strategy # "direct" /\ termPC = "idle"
HandlesCanSend         == strategy = "direct" /\ termPC = "idle"

(* CAN_SEND: the core publisher queues a token; in direct mode the         *)
(* publisher's handler leaves the readiness event to a new goroutine.      *)
OnCanSend ==
    /\ session = "up" /\ owesCanSend
    /\ owesCanSend' = FALSE
    /\ PushToken(TRUE)
    /\ notifying' = IF HandlesCanSend THEN notifying + 1 ELSE notifying
    /\ UNCHANGED <<strategy, pipeVars, runVars, loopVars, core, session, termVars, execClosed,
                   failures, readyOwed, signals>>

NotifyGoroutine ==
    /\ notifying > 0
    /\ notifying' = notifying - 1
    /\ NotifyReady
    /\ UNCHANGED <<strategy, pipeVars, runVars, loopVars, coreVars, termVars, execClosed, failures,
                   signals>>

(* IsReady and NotifyWhenReady, called by the application at any time. *)
NotifyWhenReady ==
    /\ state = "Started" /\ (strategy = "reject" => ~BufferIsFull)
    /\ NotifyReady
    /\ UNCHANGED <<strategy, pipeVars, runVars, loopVars, coreVars, termVars, execClosed, notifying,
                   failures, signals>>

SessionDown ==
    /\ "down" \in TermKinds
    /\ session = "up"
    /\ session' = "down"
    /\ UNCHANGED <<strategy, pipeVars, runVars, loopVars, canSend, core, owesCanSend, termVars,
                   evtVars, signals>>

(* ccsmpBackedPublisher.terminate, called when the transport is closed. *)
CoreInterrupt ==
    /\ session = "down" /\ core = "running"
    /\ core' = "stopping"
    /\ PushToken(FALSE)
    /\ UNCHANGED <<strategy, pipeVars, runVars, loopVars, session, owesCanSend, termVars, evtVars,
                   signals>>

CoreClose ==
    /\ core = "stopping"
    /\ core' = "closed"
    /\ UNCHANGED <<strategy, pipeVars, runVars, loopVars, canSend, session, owesCanSend, termVars,
                   evtVars, signals>>

-----------------------------------------------------------------------------
(* Terminate and unsolicitedTermination, from the moment terminate()       *)
(* returned proceed.                                                       *)

TerminateStart(k) ==
    /\ termPC = "idle" /\ state = "Started"
    /\ (k = "down") => session = "down"
    /\ state' = "Terminating"
    /\ termKind' = k
    /\ termPC' = IF strategy = "direct" THEN "finish" ELSE "interrupt"
    /\ promised' = {m \in Messages : result[m] = "ok"}
    /\ UNCHANGED <<strategy, pipeVars, runVars, loopVars, coreVars, undelivered, evtVars, signals>>

AfterUngraceful == IF termKind = "down" THEN "close" ELSE "awaitForced"

CloseSignal(pc, s, next) ==
    /\ termPC = pc
    /\ signals' = signals \cup {s}
    /\ termPC' = next
    /\ UNCHANGED <<strategy, pipeVars, runVars, loopVars, coreVars, state, termKind, undelivered,
                   promised, evtVars>>

TerminateInterrupt  == CloseSignal("interrupt", "waitInterrupt", "graceful")
TerminateGraceful   == CloseSignal("graceful", "graceful",
                                   IF termKind = "down" THEN "task" ELSE "await")
TerminateTask       == CloseSignal("task", "task", "ungraceful")
TerminateUngraceful == CloseSignal("ungraceful", "ungraceful", AfterUngraceful)

(* Terminate waits for terminateComplete ... *)
TerminateAwaited ==
    /\ termPC \in {"await", "awaitForced"} /\ "complete" \in signals
    /\ termPC' = "close"
    /\ UNCHANGED <<strategy, pipeVars, runVars, loopVars, coreVars, state, termKind, undelivered,
                   promised, evtVars, signals>>

(* ... or the grace period expires. *)
TerminateTimeout ==
    /\ termPC = "await" /\ termKind = "timed"
    /\ termPC' = "task"
    /\ UNCHANGED <<strategy, pipeVars, runVars, loopVars, coreVars, state, termKind, undelivered,
                   promised, evtVars, signals>>

(* drainQueue *)
DrainClose ==
    /\ termPC = "close"
    /\ bufferClosed' = TRUE
    /\ termPC' = "drain"
    /\ UNCHANGED <<strategy, buffer, taskQ, lock, pubPC, result, accepted, runVars, loopVars,
                   coreVars, state, termKind, undelivered, promised, evtVars, signals>>

DrainOne ==
    /\ termPC = "drain" /\ buffer # <<>>
    /\ buffer' = Tail(buffer)
    /\ undelivered' = undelivered \cup {Head(buffer)}
    /\ IF termKind = "down" THEN SubmitFailure(Head(buffer)) ELSE UNCHANGED failures
    /\ UNCHANGED <<strategy, bufferClosed, taskQ, lock, pubPC, result, accepted, runVars, loopVars,
                   coreVars, state, termPC, termKind, promised, execClosed, notifying, readyOwed,
                   signals>>

DrainDone ==
    /\ termPC = "drain" /\ buffer = <<>>
    /\ termPC' = "finish"
    /\ UNCHANGED <<strategy, pipeVars, runVars, loopVars, coreVars, state, termKind, undelivered,
                   promised, evtVars, signals>>

(* The executor is terminated, then the state becomes Terminated. *)
TerminateFinish ==
    /\ termPC = "finish"
    /\ execClosed' = TRUE
    /\ state' = "Terminated"
    /\ termPC' = "done"
    /\ UNCHANGED <<strategy, pipeVars, runVars, loopVars, coreVars, termKind, undelivered,
                   promised, failures, notifying, readyOwed, signals>>

-----------------------------------------------------------------------------
Publisher(m) ==
    \/ PublishCheck(m) \/ PublishDirect(m) \/ PublishDirectOverflow(m)
    \/ PublishLock(m) \/ PublishPush(m) \/ PublishOverflow(m) \/ PublishInterrupted(m)
    \/ SubmitCheck(m) \/ SubmitEnqueue(m)

Run ==
    \/ RunTop \/ RunPick \/ RunBlockTake \/ RunBlockInterrupted
    \/ RunHandOver \/ RunAbort \/ RunExit

PublishLoop ==
    \/ LoopTop \/ LoopTerminated
    \/ TaskPublishOk \/ TaskPublishWouldBlock \/ TaskPublishError
    \/ TaskAwaitToken \/ TaskAwaitTerminated
    \/ TaskReadFull \/ TaskPop \/ TaskReport \/ TaskComplete

Core == OnCanSend \/ NotifyGoroutine \/ NotifyWhenReady \/ SessionDown \/ CoreInterrupt \/ CoreClose

Terminator ==
    \/ \E k \in TermKinds : TerminateStart(k)
    \/ TerminateInterrupt \/ TerminateGraceful \/ TerminateTask \/ TerminateUngraceful
    \/ TerminateAwaited \/ TerminateTimeout
    \/ DrainClose \/ DrainOne \/ DrainDone \/ TerminateFinish

Next == (\E m \in Messages : Publisher(m)) \/ Run \/ PublishLoop \/ Core \/ Terminator

Spec == Init /\ [][Next]_vars

(***************************************************************************)
(* Fairness.  Every goroutine that can run does run (weak fairness); a Go  *)
(* mutex hands the lock to a waiter in bounded time, and a Go select picks *)
(* uniformly among its ready branches (strong fairness).  CCSMP raises the *)
(* CAN_SEND it owes and the timer fires.  The application is never obliged *)
(* to publish, to terminate, or to lose its session.                       *)
(***************************************************************************)
Fairness ==
    /\ \A m \in Messages : SF_vars(Publisher(m) /\ pubPC[m] # "idle")
    /\ WF_vars(Run) /\ WF_vars(PublishLoop)
    /\ SF_vars(TaskAwaitTerminated)
    /\ WF_vars(OnCanSend) /\ WF_vars(NotifyGoroutine) /\ WF_vars(CoreInterrupt \/ CoreClose)
    /\ WF_vars(\/ Terminator /\ termPC # "idle"
               \/ "down" \in TermKinds /\ TerminateStart("down"))

FairSpec == Spec /\ Fairness

(* A session that does not answer would-block for ever. *)
StaysWritable == SF_vars(TaskPublishOk \/ TaskPublishError)

-----------------------------------------------------------------------------
InTask == loopPC \in {"publish", "await", "full", "pop"}

PipeTypeOK ==
    /\ pubPC \in [Messages -> PubPCs] /\ result \in [Messages -> Results]
    /\ lock \in Messages \cup {NoMsg}
    /\ buffer \in Seq(Messages) /\ Len(buffer) <= Capacity
    /\ taskQ \in Seq(Messages) /\ Len(taskQ) <= Capacity
    /\ bufferClosed \in BOOLEAN /\ accepted \in Seq(Messages)
RunTypeOK  == runPC \in RunPCs /\ runTask \in Messages \cup {NoMsg}
LoopTypeOK ==
    /\ loopPC \in LoopPCs /\ isFull \in BOOLEAN /\ failed \in BOOLEAN
    /\ wire \in Seq(Messages) /\ errored \subseteq Messages
CoreTypeOK ==
    /\ canSend \in {<<>>, <<TRUE>>, <<FALSE>>} /\ owesCanSend \in BOOLEAN
    /\ core \in {"running", "stopping", "closed"} /\ session \in {"up", "down"}
TermTypeOK ==
    /\ state \in {"Started", "Terminating", "Terminated"} /\ termPC \in TermPCs
    /\ termKind \in {"none", "graceful", "timed", "down"}
    /\ undelivered \subseteq Messages /\ promised \subseteq Messages
EvtTypeOK  ==
    /\ execClosed \in BOOLEAN /\ notifying \in Nat
    /\ failures \subseteq Messages /\ readyOwed \in BOOLEAN

(* Every variable has its type; buffer and the task channel respect the    *)
(* capacity they were made with (construct).                               *)
TypeOK ==
    /\ strategy \in {"direct", "reject", "wait"} /\ signals \subseteq Signals
    /\ PipeTypeOK /\ RunTypeOK /\ LoopTypeOK /\ CoreTypeOK /\ TermTypeOK /\ EvtTypeOK

(* taskBuffer.Submit never meets a full channel ("This should not happen   *)
(* in regular use"): no message enters buffer whose task is refused for    *)
(* lack of space, whatever termination does meanwhile.                     *)
SubmitNeverFull ==
    \A m \in Messages : pubPC[m] = "enqueue" => Len(taskQ) < TaskCapacity

(* Nothing has yet told a task to give up. *)
Undisturbed == "task" \notin signals /\ core = "running"

(* sendTask removes its own message: until a task is interrupted, the head *)
(* of buffer is the message of the task that is about to pop it.           *)
TaskPopsOwnMessageUnlessInterrupted ==
    (Undisturbed /\ InTask) => (buffer # <<>> /\ Head(buffer) = runTask)

Position(m) == CHOOSE i \in DOMAIN accepted : accepted[i] = m

(* Messages reach the session in the order publish accepted them, also     *)
(* when tasks are interrupted, and none is sent twice.                     *)
WireInPublishOrder ==
    strategy # "direct" =>
        \A i, j \in DOMAIN wire : i < j => Position(wire[i]) < Position(wire[j])

(* When Terminate returns, every accepted message is accounted for: the   *)
(* number reported in its IncompleteMessageDeliveryError is the number of  *)
(* accepted messages that no task completed, and a Terminate that was not  *)
(* interrupted has attempted every message whose publish had returned nil  *)
(* when it began.                                                          *)
TerminateCountsUndelivered ==
    (state = "Terminated" /\ termKind \in {"graceful", "timed"} /\ strategy # "direct") =>
        /\ Cardinality(undelivered) = Len(accepted) - Len(wire) - Cardinality(errored)
        /\ Undisturbed =>
              \A m \in promised : m \in errored \/ \E i \in DOMAIN wire : wire[i] = m

(* The would-block answer that an unbuffered publish reports as overflow   *)
(* is followed by a readiness event: as long as none was submitted after   *)
(* the latest such answer, to whichever goroutine, a CAN_SEND is to come   *)
(* or onCanSend's goroutine is about to submit one.                        *)
(* It counts from the answer, not from the return: between the two CCSMP   *)
(* may raise CAN_SEND, and the event then precedes the error its caller    *)
(* gets (the exception "readiness before the overflow" of the README).     *)
ReadinessNotLostUnbuffered ==
    (strategy = "direct" /\ state = "Started" /\ session = "up" /\ readyOwed) =>
        owesCanSend \/ notifying > 0

(* Terminate with a grace period, and an unsolicited termination, complete *)
(* even if the session would-blocks for ever; Terminate(-1) completes if   *)
(* the session keeps accepting messages and the messaging service is not   *)
(* disconnected under it; and the termination of the core publisher ("will *)
(* terminate immediately") gets publishLoop to exit, also while a task     *)
(* waits for CAN_SEND.                                                     *)
TerminationCompletes ==
    /\ (termKind \in {"timed", "down"}) ~> (state = "Terminated")
    /\ StaysWritable =>
          ((termKind = "graceful") ~> (state = "Terminated" \/ core # "running"))
    /\ (core # "running") ~> (loopPC = "exited")

(* Once the publisher is terminating, for whatever reason, no publish call *)
(* stays blocked on bufferPublishLock or in the wait-when-full select.     *)
PublishReturns ==
    (state # "Started") ~> (\A m \in Messages : pubPC[m] \in {"idle", "done"})
=============================================================================
