------------------------- MODULE PersistentReceiver -------------------------
(***************************************************************************)
(* persistentMessageReceiverImpl: messages of a flow wait in a channel     *)
(* that stops the flow above a high water mark and starts it again below a *)
(* low one; ReceiveMessage and the goroutine of ReceiveAsync consume them, *)
(* messages are acknowledged once they have been handled, and Terminate, a *)
(* session or a flow down event shuts the receiver down.                   *)
(*                                                                         *)
(* The flow belongs to CCSMP: it delivers while it runs and, once stopped, *)
(* at most the Window messages that were in transit.  Subscriptions are    *)
(* the subject of module Subscriptions, concurrent Start and Terminate of  *)
(* Lifecycle, the event executor of Executor.                              *)
(***************************************************************************)
EXTENDS Naturals, Sequences, FiniteSets

CONSTANTS
    MaxMessages,  \* how many messages the flow has
    MaxPausing,   \* bound: how many of them, if the application pauses the receiver
    Window,       \* maxWindowSize
    High, Low,    \* highwater and lowwater
    AutoAck,      \* doAutoAck
    FlowErrors,   \* whether CCSMP may refuse to start or stop a flow
    Receivers,    \* goroutines that call ReceiveMessage
    Usages,       \* what the application does: a set of subsets of {"sync", "async", "pause"}
    Panicking,    \* the messages on which the application's handler panics
    MaxCalls      \* how many calls of ReceiveMessage there are

ASSUME PersistentReceiverAssumption ==
    /\ MaxMessages \in Nat /\ MaxPausing \in 0 .. MaxMessages /\ Window \in Nat /\ High \in Nat /\ Low \in Nat
    /\ 0 < Low /\ Low < High /\ High + Window <= 2 * Window
    /\ AutoAck \in BOOLEAN /\ FlowErrors \in BOOLEAN
    /\ Usages \subseteq SUBSET {"sync", "async", "pause"}
    /\ Panicking \subseteq 1 .. MaxMessages /\ MaxCalls \in Nat

VARIABLES
    state,          \* the state of basicMessageReceiver
    flow,           \* the flow: [running, credit, destroyed, error], error what it ever refused
    flowStopped,    \* internalFlowStopped: 0, 1, or 2 once terminating
    buffer,         \* the channel
    closed,         \* which channels are closed
    bufferClosed,   \* bufferClosed
    emptyFlag,      \* bufferEmptyOnTerminateFlag
    async,          \* ReceiveAsync
    rxCallbackSet,  \* the channel rxCallbackSet, of capacity 1
    cb,             \* messageCallback: [pc, msg]
    pause,          \* doPause and the channels of capacity 1 doUnpause and pauseInterrupt
    pausePC,        \* a goroutine in Pause and one in Resume
    loop,           \* run: [pc, msg]
    rcv,            \* ReceiveMessage: [pc, msg, forever]
    term,           \* Terminate or unsolicitedTermination: [pc, kind, count]
    usage,          \* the way of consuming this application has chosen
    calls,          \* how many calls the application has made
    next,           \* the message the flow delivers next
    fate,           \* what became of each message
    acked,          \* messages acknowledged to the broker
    raced,          \* startFlow met a stopFlow, or was decided on a length that is stale
    panicked        \* some goroutine closed a channel twice

flowVars == <<flow, flowStopped, raced>>
chans    == <<closed, panicked>>
flags    == <<bufferClosed, emptyFlag>>
pauseVars == <<pause, pausePC>>
asyncVars == <<async, rxCallbackSet, usage, pauseVars>>
obs      == <<fate, acked>>
vars == <<state, flow, flowStopped, buffer, closed, bufferClosed, emptyFlag, async, rxCallbackSet,
          usage, pause, pausePC, calls, cb, loop, rcv, term, next, fate, acked, raced, panicked>>

Messages == 1 .. MaxMessages
NoMsg    == 0

(* bufferSize is computed before highwater is assigned, hence the 0. *)
(* Mutant: no margin for the messages in transit.                          *)
Capacity_NoMargin == High
Capacity == 2 * Window + 2 * 0

Init ==
    /\ state = "NotStarted"
    /\ flow = [running |-> FALSE, credit |-> 0, destroyed |-> FALSE, error |-> {}]
    /\ flowStopped = 0 /\ raced = FALSE
    /\ buffer = << >> /\ closed = {} /\ bufferClosed = FALSE /\ emptyFlag = FALSE
    /\ async = "idle" /\ rxCallbackSet = << >>
    /\ usage \in Usages /\ calls = 0
    /\ pause = [doPause |-> FALSE, unpause |-> FALSE, interrupt |-> FALSE]
    /\ pausePC = [g \in {"Pause", "Resume"} |-> "enter"]
    /\ cb = [pc |-> "idle", msg |-> NoMsg] /\ loop = [pc |-> "off", msg |-> NoMsg]
    /\ rcv = [r \in Receivers |-> [pc |-> "idle", msg |-> NoMsg, forever |-> FALSE]]
    /\ term = [pc |-> "none", kind |-> "none", count |-> 0]
    /\ next = 1 /\ fate = [m \in Messages |-> "wire"] /\ acked = {}
    /\ panicked = FALSE

IsEnding == state \in {"Terminating", "Terminated"}

Close(c) == closed' = closed \cup {c} /\ panicked' = (panicked \/ c \in closed)
KeepChannels == UNCHANGED chans

SignalEmpty ==
    IF emptyFlag THEN KeepChannels /\ UNCHANGED emptyFlag
                 ELSE Close("empty") /\ emptyFlag' = TRUE

DrainedOnTerminate == bufferClosed /\ buffer = << >>

checkEmptyBufferAndNotify ==
    IF DrainedOnTerminate THEN SignalEmpty ELSE KeepChannels /\ UNCHANGED emptyFlag

-----------------------------------------------------------------------------
(* The flow, as CCSMP provides it.                                         *)

FlowStart == flow' = [flow EXCEPT !.running = TRUE]
FlowStop ==
    flow' = [flow EXCEPT !.running = FALSE, !.credit = IF flow.running THEN Window ELSE @]
FlowRefuses(what) == FlowErrors /\ flow' = [flow EXCEPT !.error = @ \cup {what}]
FlowDestroy == flow' = [flow EXCEPT !.running = FALSE, !.destroyed = TRUE]

(* A message can be delivered by a running flow, or was in transit when it *)
(* was stopped.                                                            *)
FlowDelivers ==
    /\ ~flow.destroyed /\ (flow.running \/ flow.credit > 0)
    /\ next <= (IF "pause" \in usage THEN MaxPausing ELSE MaxMessages)
Arrive ==
    /\ next' = next + 1
    /\ flow' = [flow EXCEPT !.credit = IF flow.running THEN @ ELSE @ - 1]

(* startFlow, called at a goroutine's label "cas" with what follows it:    *)
(* the flag is swapped before the flow is started.                         *)
StartFlowSwaps == flowStopped = 1

StartFlowSwap ==
    /\ flowStopped' = IF StartFlowSwaps THEN 0 ELSE flowStopped
    /\ UNCHANGED <<flow, raced>>

StartFlowCall ==
    \/ /\ FlowStart
       /\ raced' = (raced \/ cb.pc = "store" \/ flowStopped = 1 \/ Len(buffer) > Low)
       /\ UNCHANGED flowStopped
    \/ FlowRefuses("start") /\ flowStopped' = 1 /\ UNCHANGED raced

(* The consumer's condition for starting the flow again. *)
BelowLow == Len(buffer) <= Low /\ state = "Started"

-----------------------------------------------------------------------------
(* Start                                                                   *)

(* The endpoint is provisioned, the flow created and started. *)
StartFlow ==
    /\ state = "NotStarted" /\ state' = "Starting"
    /\ FlowStart
    /\ UNCHANGED <<flowStopped, raced, buffer, chans, flags, asyncVars, calls, cb, loop, rcv, term,
                   next, obs>>

StartOk ==
    /\ state = "Starting" /\ state' = "Started"
    /\ loop' = [loop EXCEPT !.pc = "wait"]
    /\ UNCHANGED <<flowVars, buffer, chans, flags, asyncVars, calls, cb, rcv, term, next, obs>>

(* A Start that fails destroys the flow; buffer and signals stay as they are. *)
StartFail ==
    /\ state = "Starting" /\ state' = "Terminated"
    /\ FlowDestroy
    /\ UNCHANGED <<flowStopped, raced, buffer, chans, flags, asyncVars, calls, cb, loop, rcv, term,
                   next, obs>>

-----------------------------------------------------------------------------
(* messageCallback, on the context thread                                  *)

Cb(l) == cb' = [cb EXCEPT !.pc = l]

CallbackEnter ==
    /\ cb.pc = "idle" /\ FlowDelivers
    /\ Arrive
    /\ IF IsEnding
       THEN fate' = [fate EXCEPT ![next] = "returned"] /\ UNCHANGED cb
       ELSE fate' = [fate EXCEPT ![next] = "callback"] /\ cb' = [pc |-> "push", msg |-> next]
    /\ UNCHANGED <<state, flowStopped, raced, buffer, chans, flags, asyncVars, calls, loop, rcv,
                   term, acked>>

HasRoom == Len(buffer) < Capacity

(* The push is tried once: a full buffer is logged and the message kept    *)
(* from CCSMP all the same; a send on the closed channel panics, which is  *)
(* recovered, and gives the message back.                                  *)
CallbackPush ==
    /\ cb.pc = "push"
    /\ LET m == cb.msg
       IN  \/ /\ "buffer" \in closed
              /\ fate' = [fate EXCEPT ![m] = "returned"]
              /\ cb' = [pc |-> "idle", msg |-> NoMsg] /\ UNCHANGED buffer
           \/ /\ "buffer" \notin closed /\ HasRoom
              /\ buffer' = Append(buffer, m)
              /\ fate' = [fate EXCEPT ![m] = "buffered"]
              /\ cb' = [pc |-> "high", msg |-> NoMsg]
           \/ /\ "buffer" \notin closed /\ ~HasRoom
              /\ fate' = [fate EXCEPT ![m] = "lost"]
              /\ cb' = [pc |-> "idle", msg |-> NoMsg] /\ UNCHANGED buffer
    /\ UNCHANGED <<state, flowVars, chans, flags, asyncVars, calls, loop, rcv, term, next, acked>>

AboveHigh == Len(buffer) >= High /\ flowStopped = 0

CallbackHigh ==
    /\ cb.pc = "high"
    /\ Cb(IF AboveHigh THEN "stop" ELSE "idle")
    /\ UNCHANGED <<state, flowVars, buffer, chans, flags, asyncVars, calls, loop, rcv, term, next,
                   obs>>

(* stopFlow: stop the flow, then set the flag. *)
CallbackStop ==
    /\ cb.pc = "stop"
    /\ \/ FlowStop /\ Cb("store")
       \/ FlowRefuses("stop") /\ Cb("idle")
    /\ UNCHANGED <<state, flowStopped, raced, buffer, chans, flags, asyncVars, calls, loop, rcv,
                   term, next, obs>>

(* Mutant: the buffer is not looked at again after the flow was stopped. *)
AfterStore_NoRecheck == "idle"
AfterStore == "recheck"

CallbackStore ==
    /\ cb.pc = "store"
    /\ flowStopped' = 1
    /\ Cb(AfterStore)
    /\ UNCHANGED <<state, flow, raced, buffer, chans, flags, asyncVars, calls, loop, rcv, term,
                   next, obs>>

CallbackRecheck ==
    /\ cb.pc = "recheck"
    /\ Cb(IF Len(buffer) < Low /\ state = "Started" THEN "cas" ELSE "idle")
    /\ UNCHANGED <<state, flowVars, buffer, chans, flags, asyncVars, calls, loop, rcv, term, next,
                   obs>>

CallbackSwap ==
    /\ cb.pc = "cas"
    /\ StartFlowSwap /\ Cb(IF StartFlowSwaps THEN "start" ELSE "idle")
    /\ UNCHANGED <<state, buffer, chans, flags, asyncVars, calls, loop, rcv, term, next, obs>>

CallbackStart ==
    /\ cb.pc = "start"
    /\ StartFlowCall /\ Cb("idle")
    /\ UNCHANGED <<state, buffer, chans, flags, asyncVars, calls, loop, rcv, term, next, obs>>

-----------------------------------------------------------------------------
(* ReceiveMessage                                                          *)

Rcv(r, l) == rcv' = [rcv EXCEPT ![r].pc = l]

ReceiveEnter(r) ==
    /\ "sync" \in usage /\ rcv[r].pc = "idle" /\ calls < MaxCalls /\ calls' = calls + 1
    /\ state \notin {"NotStarted", "Starting"}
    /\ \E forever \in BOOLEAN :
           rcv' = [rcv EXCEPT ![r].pc = "select", ![r].forever = forever]
    /\ UNCHANGED <<state, flowVars, buffer, chans, flags, asyncVars, cb, loop, term, next,
                   obs>>

ReceiveTake(r) ==
    /\ rcv[r].pc = "select" /\ buffer # << >>
    /\ rcv' = [rcv EXCEPT ![r].pc = "low", ![r].msg = Head(buffer)]
    /\ buffer' = Tail(buffer)
    /\ fate' = [fate EXCEPT ![Head(buffer)] = "consumed"]
    /\ UNCHANGED <<state, flowVars, chans, flags, asyncVars, calls, cb, loop, term, next, acked>>

(* Mutant: ReceiveMessage waits for messages only. *)
Released_Ignored == FALSE
Released == (buffer = << >> /\ "buffer" \in closed) \/ "empty" \in closed

ReceiveNothing(r) ==
    /\ rcv[r].pc = "select" /\ (Released \/ ~rcv[r].forever)
    /\ Rcv(r, "deferred")
    /\ UNCHANGED <<state, flowVars, buffer, chans, flags, asyncVars, calls, cb, loop, term, next,
                   obs>>

ReceiveLow(r) ==
    /\ rcv[r].pc = "low"
    /\ Rcv(r, IF BelowLow THEN "cas" ELSE "ack")
    /\ UNCHANGED <<state, flowVars, buffer, chans, flags, asyncVars, calls, cb, loop, term, next,
                   obs>>

ReceiveSwap(r) ==
    /\ rcv[r].pc = "cas"
    /\ StartFlowSwap /\ Rcv(r, IF StartFlowSwaps THEN "start" ELSE "ack")
    /\ UNCHANGED <<state, buffer, chans, flags, asyncVars, calls, cb, loop, term, next, obs>>

ReceiveStart(r) ==
    /\ rcv[r].pc = "start"
    /\ StartFlowCall /\ Rcv(r, "ack")
    /\ UNCHANGED <<state, buffer, chans, flags, asyncVars, calls, cb, loop, term, next, obs>>

(* With automatic acknowledgement the message is acknowledged just before  *)
(* it is returned; if the flow refuses, it is disposed of.                 *)
Ack(m) == acked' = IF flow.destroyed THEN acked ELSE acked \cup {m}

ReceiveAck(r) ==
    /\ rcv[r].pc = "ack"
    /\ IF AutoAck THEN Ack(rcv[r].msg) ELSE UNCHANGED acked
    /\ LET refused == AutoAck /\ flow.destroyed
       IN /\ fate' = [fate EXCEPT ![rcv[r].msg] = IF refused THEN "disposed" ELSE "returning"]
          /\ rcv' = [rcv EXCEPT ![r].pc = "deferred", ![r].msg = IF refused THEN NoMsg ELSE @]
    /\ UNCHANGED <<state, flowVars, buffer, chans, flags, asyncVars, calls, cb, loop, term, next>>

ReceiveDeferred(r) ==
    /\ rcv[r].pc = "deferred"
    /\ checkEmptyBufferAndNotify
    /\ Rcv(r, "return")
    /\ UNCHANGED <<state, flowVars, buffer, bufferClosed, asyncVars, calls, cb, loop, term, next,
                   obs>>

(* The caller has the message, if there is one, or the error. *)
ReceiveReturn(r) ==
    /\ rcv[r].pc = "return"
    /\ fate' = IF rcv[r].msg = NoMsg THEN fate ELSE [fate EXCEPT ![rcv[r].msg] = "delivered"]
    /\ rcv' = [rcv EXCEPT ![r].pc = "idle", ![r].msg = NoMsg]
    /\ UNCHANGED <<state, flowVars, buffer, chans, flags, asyncVars, calls, cb, loop, term, next,
                   acked>>

-----------------------------------------------------------------------------
(* ReceiveAsync and run                                                    *)

AsyncSwap ==
    /\ "async" \in usage /\ async = "idle" /\ ~IsEnding
    /\ async' = "signal"
    /\ UNCHANGED <<state, flowVars, buffer, chans, flags, rxCallbackSet, usage, pauseVars, calls, cb, loop, rcv,
                   term, next, obs>>

TrySend(v) == rxCallbackSet' = IF rxCallbackSet = << >> THEN <<v>> ELSE rxCallbackSet

AsyncSignal ==
    /\ async = "signal"
    /\ TrySend(TRUE) /\ async' = "done"
    /\ UNCHANGED <<state, flowVars, buffer, chans, flags, usage, pauseVars, calls, cb, loop, rcv, term, next, obs>>

Loop1(l) == loop' = [loop EXCEPT !.pc = l]

LoopWait ==
    /\ loop.pc = "wait" /\ rxCallbackSet # << >>
    /\ rxCallbackSet' = << >>
    /\ Loop1(IF Head(rxCallbackSet) THEN "top" ELSE "exiting")
    /\ UNCHANGED <<state, flowVars, buffer, chans, flags, async, usage, pauseVars, calls, cb, rcv, term, next, obs>>

(* A paused loop first sees whether it is to announce the empty buffer,    *)
(* then waits for Resume or for the termination.                           *)
LoopPause ==
    /\ loop.pc = "top"
    /\ Loop1(IF pause.doPause THEN "pause" ELSE "look")
    /\ UNCHANGED <<state, flowVars, buffer, chans, flags, asyncVars, calls, cb, rcv, term, next,
                   obs>>

LoopPauseEmpty ==
    /\ loop.pc = "pause"
    /\ checkEmptyBufferAndNotify
    /\ Loop1(IF DrainedOnTerminate /\ ~emptyFlag THEN "exiting" ELSE "paused")
    /\ UNCHANGED <<state, flowVars, buffer, bufferClosed, asyncVars, calls, cb, rcv, term, next,
                   obs>>

LoopPaused ==
    /\ loop.pc = "paused"
    /\ \/ /\ pause.unpause /\ pause' = [pause EXCEPT !.unpause = FALSE]
          /\ Loop1("look")
       \/ closed \cap {"notification", "empty"} # {} /\ Loop1("exiting") /\ UNCHANGED pause
    /\ UNCHANGED <<state, flowVars, buffer, chans, flags, async, rxCallbackSet, usage, pausePC,
                   calls, cb, rcv, term, next, obs>>

(* The loop looks at the termination notification before the select. *)
LoopTop ==
    /\ loop.pc = "look"
    /\ Loop1(IF "notification" \in closed THEN "exiting" ELSE "select")
    /\ UNCHANGED <<state, flowVars, buffer, chans, flags, asyncVars, calls, cb, rcv, term, next,
                   obs>>

(* The handler is called with the message. *)
LoopTake ==
    /\ loop.pc = "select" /\ buffer # << >>
    /\ loop' = [pc |-> "handle", msg |-> Head(buffer)]
    /\ buffer' = Tail(buffer)
    /\ fate' = [fate EXCEPT ![Head(buffer)] = "delivered"]
    /\ UNCHANGED <<state, flowVars, chans, flags, asyncVars, calls, cb, rcv, term, next, acked>>

LoopDrained ==
    /\ loop.pc = "select" /\ buffer = << >> /\ "buffer" \in closed
    /\ SignalEmpty /\ Loop1("exiting")
    /\ UNCHANGED <<state, flowVars, buffer, bufferClosed, asyncVars, calls, cb, rcv, term, next,
                   obs>>

LoopNotified ==
    /\ loop.pc = "select" /\ "notification" \in closed
    /\ Loop1("exiting")
    /\ UNCHANGED <<state, flowVars, buffer, chans, flags, asyncVars, calls, cb, rcv, term, next,
                   obs>>

LoopInterrupted ==
    /\ loop.pc = "select" /\ pause.interrupt
    /\ pause' = [pause EXCEPT !.interrupt = FALSE]
    /\ Loop1("top")
    /\ UNCHANGED <<state, flowVars, buffer, chans, flags, async, rxCallbackSet, usage, pausePC,
                   calls, cb, rcv, term, next, obs>>

(* Mutant: the message of a handler that panicked is acknowledged too. *)
AckAfterHandler_Always(m) == AutoAck
AckAfterHandler(m) == AutoAck /\ m \notin Panicking

(* The handler returns or panics; only the former is acknowledged. *)
LoopHandled ==
    /\ loop.pc = "handle"
    /\ fate' = [fate EXCEPT ![loop.msg] = IF loop.msg \in Panicking THEN "panicked" ELSE "delivered"]
    /\ IF AckAfterHandler(loop.msg) THEN Ack(loop.msg) ELSE UNCHANGED acked
    /\ loop' = [pc |-> "low", msg |-> NoMsg]
    /\ UNCHANGED <<state, flowVars, buffer, chans, flags, asyncVars, calls, cb, rcv, term, next>>

LoopLow ==
    /\ loop.pc = "low"
    /\ Loop1(IF BelowLow THEN "cas" ELSE "top")
    /\ UNCHANGED <<state, flowVars, buffer, chans, flags, asyncVars, calls, cb, rcv, term, next,
                   obs>>

LoopSwap ==
    /\ loop.pc = "cas"
    /\ StartFlowSwap /\ Loop1(IF StartFlowSwaps THEN "start" ELSE "top")
    /\ UNCHANGED <<state, buffer, chans, flags, asyncVars, calls, cb, rcv, term, next, obs>>

LoopStart ==
    /\ loop.pc = "start"
    /\ StartFlowCall /\ Loop1("top")
    /\ UNCHANGED <<state, buffer, chans, flags, asyncVars, calls, cb, rcv, term, next, obs>>

LoopClose ==
    /\ loop.pc = "exiting"
    /\ Close("complete") /\ Loop1("exited")
    /\ UNCHANGED <<state, flowVars, buffer, flags, asyncVars, calls, cb, rcv, term, next, obs>>

-----------------------------------------------------------------------------
(* Pause and Resume, each called once: take back the other's event, set    *)
(* the flag, queue the event.                                              *)

PauseEnter(g) ==
    /\ "pause" \in usage /\ pausePC[g] = "enter" /\ state \in {"Started", "Terminating"}
    /\ pausePC' = [pausePC EXCEPT ![g] = "set"]
    /\ pause' = IF g = "Pause" THEN [pause EXCEPT !.unpause = FALSE]
                               ELSE [pause EXCEPT !.interrupt = FALSE]

PauseSet(g) ==
    /\ pausePC[g] = "set" /\ pausePC' = [pausePC EXCEPT ![g] = "queue"]
    /\ pause' = [pause EXCEPT !.doPause = (g = "Pause")]

PauseQueue(g) ==
    /\ pausePC[g] = "queue" /\ pausePC' = [pausePC EXCEPT ![g] = "done"]
    /\ pause' = IF g = "Pause" THEN [pause EXCEPT !.interrupt = TRUE]
                               ELSE [pause EXCEPT !.unpause = TRUE]

PauseStep(g) ==
    /\ PauseSet(g) \/ PauseQueue(g)
    /\ UNCHANGED <<state, flowVars, buffer, chans, flags, async, rxCallbackSet, usage, calls, cb,
                   loop, rcv, term, next, obs>>

PauseOrResume(g) ==
    \/ /\ PauseEnter(g)
       /\ UNCHANGED <<state, flowVars, buffer, chans, flags, async, rxCallbackSet, usage, calls,
                      cb, loop, rcv, term, next, obs>>
    \/ PauseStep(g)

-----------------------------------------------------------------------------
(* Terminate ("timed"), and unsolicitedTermination after the session or    *)
(* the flow went down ("down").                                            *)

TermGoto(from, to) == term.pc = from /\ term' = [term EXCEPT !.pc = to]
IsDown == term.kind = "down"

TerminateSwap(kind) ==
    /\ state = "Started" /\ state' = "Terminating"
    /\ term' = [pc |-> IF kind = "down" THEN "destroy" ELSE "stopped", kind |-> kind, count |-> 0]
    /\ UNCHANGED <<flowVars, buffer, chans, flags, asyncVars, calls, cb, loop, rcv, next, obs>>

(* internalFlowStopped := 2, so that no consumer starts the flow ... *)
TerminateStopped ==
    /\ TermGoto("stopped", "stop")
    /\ flowStopped' = 2
    /\ UNCHANGED <<state, flow, raced, buffer, chans, flags, asyncVars, calls, cb, loop, rcv, next,
                   obs>>

(* ... then the flow is stopped. *)
TerminateStop ==
    /\ TermGoto("stop", "unblock")
    /\ FlowStop \/ FlowRefuses("stop")
    /\ UNCHANGED <<state, flowStopped, raced, buffer, chans, flags, asyncVars, calls, cb, loop, rcv,
                   next, obs>>

(* A down event destroys the flow first; Terminate does so last, once the  *)
(* event executor has ended and the correlations are cleared.              *)
TerminateDestroy ==
    /\ TermGoto("destroy", IF IsDown THEN "close" ELSE "finish")
    /\ FlowDestroy
    /\ UNCHANGED <<state, flowStopped, raced, buffer, chans, flags, asyncVars, calls, cb, loop, rcv,
                   next, obs>>

TerminateUnblock ==
    /\ TermGoto("unblock", IF IsDown THEN "notify" ELSE "close")
    /\ TrySend(FALSE)
    /\ UNCHANGED <<state, flowVars, buffer, chans, flags, async, usage, pauseVars, calls, cb, loop, rcv, next, obs>>

TerminateClose ==
    /\ TermGoto("close", "mark")
    /\ Close("buffer")
    /\ UNCHANGED <<state, flowVars, buffer, flags, asyncVars, calls, cb, loop, rcv, next, obs>>

TerminateMark ==
    /\ TermGoto("mark", IF IsDown THEN "unblock" ELSE "empty")
    /\ bufferClosed' = TRUE
    /\ UNCHANGED <<state, flowVars, buffer, chans, emptyFlag, asyncVars, calls, cb, loop, rcv, next,
                   obs>>

TerminateEmpty ==
    /\ TermGoto("empty", "wait")
    /\ checkEmptyBufferAndNotify
    /\ UNCHANGED <<state, flowVars, buffer, bufferClosed, asyncVars, calls, cb, loop, rcv, next,
                   obs>>

TerminateWait ==
    /\ \/ TermGoto("wait", "notify")
       \/ TermGoto("wait", "joinEmpty") /\ "empty" \in closed
    /\ UNCHANGED <<state, flowVars, buffer, chans, flags, asyncVars, calls, cb, loop, rcv, next,
                   obs>>

TerminateNotify ==
    /\ TermGoto("notify", IF IsDown THEN "drain" ELSE "join")
    /\ Close("notification")
    /\ UNCHANGED <<state, flowVars, buffer, flags, asyncVars, calls, cb, loop, rcv, next, obs>>

Joined == "complete" \in closed

TerminateJoin ==
    /\ TermGoto("join", "drain") \/ TermGoto("joinEmpty", "destroy")
    /\ Joined
    /\ UNCHANGED <<state, flowVars, buffer, chans, flags, asyncVars, calls, cb, loop, rcv, next,
                   obs>>

Drained == [term EXCEPT !.count = @ + 1]

DrainQueueOne ==
    /\ term.pc = "drain" /\ buffer # << >>
    /\ buffer' = Tail(buffer)
    /\ fate' = [fate EXCEPT ![Head(buffer)] = "freed"]
    /\ term' = Drained
    /\ UNCHANGED <<state, flowVars, chans, flags, asyncVars, calls, cb, loop, rcv, next, acked>>

DrainQueueDone ==
    /\ TermGoto("drain", IF IsDown THEN "finish" ELSE "destroy") /\ buffer = << >>
    /\ SignalEmpty
    /\ UNCHANGED <<state, flowVars, buffer, bufferClosed, asyncVars, calls, cb, loop, rcv, next,
                   obs>>

TerminateFinish ==
    /\ TermGoto("finish", "done")
    /\ state' = "Terminated"
    /\ UNCHANGED <<flowVars, buffer, chans, flags, asyncVars, calls, cb, loop, rcv, next, obs>>

-----------------------------------------------------------------------------
CallbackStep ==
    \/ CallbackPush \/ CallbackHigh \/ CallbackStop \/ CallbackStore \/ CallbackRecheck
    \/ CallbackSwap \/ CallbackStart

ReceiveStep(r) ==
    \/ ReceiveTake(r) \/ ReceiveNothing(r) \/ ReceiveLow(r) \/ ReceiveSwap(r) \/ ReceiveStart(r)
    \/ ReceiveAck(r) \/ ReceiveDeferred(r) \/ ReceiveReturn(r)

Loop ==
    \/ LoopWait \/ LoopPause \/ LoopPauseEmpty \/ LoopPaused \/ LoopTop \/ LoopTake
    \/ LoopInterrupted
    \/ LoopDrained \/ LoopNotified \/ LoopHandled \/ LoopLow \/ LoopSwap
    \/ LoopStart \/ LoopClose

Terminate ==
    \/ TerminateStopped \/ TerminateStop \/ TerminateDestroy \/ TerminateUnblock \/ TerminateClose
    \/ TerminateMark \/ TerminateEmpty \/ TerminateWait \/ TerminateNotify \/ TerminateJoin
    \/ DrainQueueOne \/ DrainQueueDone \/ TerminateFinish

Next ==
    \/ StartFlow \/ StartOk \/ StartFail
    \/ CallbackEnter \/ CallbackStep
    \/ \E r \in Receivers : ReceiveEnter(r) \/ ReceiveStep(r)
    \/ AsyncSwap \/ AsyncSignal \/ Loop
    \/ \E g \in {"Pause", "Resume"} : PauseOrResume(g)
    \/ \E kind \in {"timed", "down"} : TerminateSwap(kind)
    \/ Terminate

Spec == Init /\ [][Next]_vars

(* Goroutines and the context thread are scheduled, handlers return, and   *)
(* the grace period elapses; nobody is obliged to make a call.             *)
Fairness ==
    /\ WF_vars(StartOk \/ StartFail) /\ WF_vars(CallbackStep)
    /\ WF_vars(AsyncSignal) /\ WF_vars(Loop) /\ WF_vars(Terminate)
    /\ \A r \in Receivers : WF_vars(ReceiveStep(r))
    /\ \A g \in {"Pause", "Resume"} : WF_vars(PauseStep(g))

FairSpec == Spec /\ Fairness

-----------------------------------------------------------------------------
(* Properties                                                              *)

(* The margin above the high water mark takes every message in transit:    *)
(* none is lost, unless the flow was started in the middle of stopFlow, or *)
(* with a whole stopFlow between the swap and the start (the flow runs and *)
(* the flag says it is stopped, so that nobody stops it), or on the        *)
(* strength of a length read before the buffer filled up again, or CCSMP   *)
(* refused to stop it or to start it (a refused start sets the flag again, *)
(* when another start may have succeeded meanwhile).                       *)
NoMessageLostUnlessRaced ==
    ~raced /\ flow.error = {} => \A m \in Messages : fate[m] # "lost"

ConsumersQuiet ==
    /\ loop.pc \notin {"handle", "low", "cas", "start"}
    /\ \A r \in Receivers : rcv[r].pc \notin {"low", "cas", "start"}

(* The flow is not left stopped: when nobody is about to start it, a       *)
(* started receiver whose buffer is below the low water mark has a running *)
(* flow.  Named exception: "refused start".  When CCSMP has refused to     *)
(* start it the flow stays stopped, with the flag set so that whoever      *)
(* takes the next message tries again; with an empty buffer there is no    *)
(* next message, and the flow is stopped for ever.  A refused stop starves *)
(* nobody.                                                                 *)
FlowIsNotStarved ==
    state = "Started" /\ cb.pc = "idle" /\ ConsumersQuiet /\ Len(buffer) < Low
        => flow.running \/ ("start" \in flow.error /\ flowStopped = 1)

(* A message is acknowledged only when the application has it, or a        *)
(* ReceiveMessage is about to return it, whatever has become of the        *)
(* receiver since; and never when its handler panicked or termination      *)
(* threw it away.  What was thrown away is what Terminate reports as       *)
(* undelivered.                                                            *)
AckedMeansDelivered ==
    /\ \A m \in acked :
        \/ fate[m] = "delivered"
        \/ fate[m] = "returning" /\ \E r \in Receivers : rcv[r].msg = m
    /\ term.pc = "done" =>
        /\ term.count = Cardinality({m \in Messages : fate[m] = "freed"})
        /\ \A m \in Messages : fate[m] # "buffered"

(* Terminate and unsolicitedTermination end, whoever consumes what is in   *)
(* the buffer and whether or not it is paused, and release a               *)
(* ReceiveMessage without a timeout.  However Pause and Resume overlap,    *)
(* the loop is not left waiting when the flag says it is not paused.       *)
EveryWaitEnds ==
    /\ loop.pc = "paused" ~> loop.pc # "paused" \/ pause.doPause
    /\ term.pc # "none" ~> state = "Terminated" /\ \A r \in Receivers : rcv[r].pc = "idle"
=============================================================================
