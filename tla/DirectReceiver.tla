--------------------------- MODULE DirectReceiver ---------------------------
(***************************************************************************)
(* directMessageReceiverImpl: messages arrive on the context thread of     *)
(* CCSMP, wait in a bounded channel with one of two drop strategies and    *)
(* are consumed by ReceiveMessage and by the goroutine of ReceiveAsync,    *)
(* while Terminate or a down event shuts the receiver down.  Messages are  *)
(* numbered in the order in which CCSMP delivers them.                     *)
(*                                                                         *)
(* Subscriptions are the subject of module Subscriptions, cache requests   *)
(* of Cache, concurrent calls of Start and Terminate of Lifecycle.         *)
(***************************************************************************)
EXTENDS Naturals, Sequences, FiniteSets

CONSTANTS
    MaxMessages,  \* how many messages CCSMP delivers
    Capacity,     \* backpressureBufferSize
    Strategies,   \* the configured strategies, of "dropLatest" and "dropOldest"
    Receivers,    \* goroutines that call ReceiveMessage
    MaxCalls      \* how many calls each of them makes

ASSUME DirectReceiverAssumption ==
    /\ MaxMessages \in Nat /\ Capacity \in Nat \ {0} /\ MaxCalls \in Nat
    /\ Strategies \subseteq {"dropLatest", "dropOldest"}

VARIABLES
    strategy,       \* backpressureStrategy
    state,          \* the state of basicMessageReceiver
    registered,     \* messageCallback is in the dispatch map of the core receiver
    buffer,         \* the channel, of records [id, discard]
    closed,         \* which channels are closed
    bufferClosed,   \* bufferClosed
    emptyFlag,      \* bufferEmptyOnTerminateFlag
    isDiscard,      \* isDiscard
    rxCallback,     \* rxCallback is set
    rxCallbackSet,  \* the channel rxCallbackSet, of capacity 1
    cb,             \* messageCallback: [pc, msg, discard]
    loop,           \* run: [pc, msg]
    async,          \* ReceiveAsync
    rcv,            \* ReceiveMessage of each goroutine: [pc, msg, calls, forever]
    term,           \* Terminate or unsolicitedTermination: [pc, kind, count]
    next,           \* the message CCSMP delivers next
    fate,           \* what became of each message
    marked,         \* messages given to the application with a discard indication
    metric,         \* the two discard counters of the core metrics
    panicked        \* some goroutine closed a channel twice or sent on a closed one

base     == <<strategy, state, registered>>
chans    == <<closed, panicked>>
obs      == <<fate, marked, metric>>
cbVars   == <<cb, next>>
flagVars == <<bufferClosed, emptyFlag>>
appVars  == <<rxCallback, rxCallbackSet, async>>
vars == <<strategy, state, registered, buffer, closed, bufferClosed, emptyFlag, isDiscard,
          rxCallback, rxCallbackSet, cb, loop, async, rcv, term, next, fate, marked, metric,
          panicked>>

Messages == 1 .. MaxMessages
NoMsg    == [id |-> 0, discard |-> FALSE]

Init ==
    /\ strategy \in Strategies
    /\ state = "NotStarted" /\ registered = FALSE
    /\ buffer = << >> /\ closed = {} /\ bufferClosed = FALSE /\ emptyFlag = FALSE
    /\ isDiscard = FALSE /\ rxCallback = FALSE /\ rxCallbackSet = << >>
    /\ cb = [pc |-> "idle", msg |-> NoMsg] /\ loop = [pc |-> "off", msg |-> NoMsg]
    /\ async = "idle"
    /\ rcv = [r \in Receivers |-> [pc |-> "idle", msg |-> NoMsg, calls |-> 0, forever |-> FALSE]]
    /\ term = [pc |-> "none", kind |-> "none", count |-> 0]
    /\ next = 1 /\ fate = [m \in Messages |-> "wire"] /\ marked = {}
    /\ metric = [backpressure |-> 0, termination |-> 0]
    /\ panicked = FALSE

IsEnding == state \in {"Terminating", "Terminated"}

(* close panics when the channel is closed already. *)
Close(c) ==
    /\ closed' = closed \cup {c}
    /\ panicked' = (panicked \/ c \in closed)

KeepChannels == UNCHANGED <<closed, panicked>>

(* bufferEmptyOnTerminate is closed by whoever swaps the flag. *)
SignalEmpty ==
    IF emptyFlag THEN KeepChannels /\ UNCHANGED emptyFlag
                 ELSE Close("empty") /\ emptyFlag' = TRUE

(* Mutant: the buffer is not looked at.                                    *)
CheckEmptyAndNotify_NoLength ==
    IF bufferClosed THEN SignalEmpty ELSE KeepChannels /\ UNCHANGED emptyFlag
CheckEmptyAndNotify ==
    IF bufferClosed /\ buffer = << >> THEN SignalEmpty ELSE KeepChannels /\ UNCHANGED emptyFlag

-----------------------------------------------------------------------------
(* Start                                                                   *)

(* The callback is registered before the subscriptions are added, so       *)
(* messages may arrive while the state is Starting.                        *)
StartRegister ==
    /\ state = "NotStarted"
    /\ state' = "Starting" /\ registered' = TRUE
    /\ UNCHANGED <<strategy, buffer, chans, flagVars, isDiscard, appVars, cbVars, loop, rcv, term,
                   obs>>

(* All subscriptions are confirmed: run starts, then started(nil). *)
StartOk ==
    /\ state = "Starting"
    /\ state' = "Started" /\ loop' = [loop EXCEPT !.pc = "wait"]
    /\ UNCHANGED <<strategy, registered, buffer, chans, flagVars, isDiscard, appVars, cbVars, rcv,
                   term, obs>>

(* A subscription failed.  UnregisterRXCallback waits for a callback in    *)
(* progress; neither the buffer nor its signals are touched.               *)
StartFail ==
    /\ state = "Starting" /\ cb.pc = "idle"
    /\ state' = "Terminated" /\ registered' = FALSE
    /\ UNCHANGED <<strategy, buffer, chans, flagVars, isDiscard, appVars, cbVars, loop, rcv, term,
                   obs>>

-----------------------------------------------------------------------------
(* messageCallback, on the context thread and under the read lock of the   *)
(* dispatch map.                                                           *)

Deliver(f) == fate' = [fate EXCEPT ![next] = f] /\ next' = next + 1

CallbackEnter ==
    /\ cb.pc = "idle" /\ next \in Messages /\ registered
    /\ IF IsEnding
       THEN /\ Deliver("returned")
            /\ metric' = [metric EXCEPT !.termination = @ + 1]
            /\ UNCHANGED cb
       ELSE /\ Deliver("callback")
            /\ cb' = [pc  |-> IF strategy = "dropLatest" THEN "swap" ELSE "push",
                      msg |-> [id |-> next, discard |-> FALSE]]
            /\ UNCHANGED metric
    /\ UNCHANGED <<base, buffer, chans, flagVars, isDiscard, appVars, loop, rcv, term, marked>>

(* A message for a dispatch that is gone goes back to CCSMP. *)
CallbackUnrouted ==
    /\ cb.pc = "idle" /\ next \in Messages /\ ~registered /\ state # "NotStarted"
    /\ Deliver("unrouted")
    /\ UNCHANGED <<base, buffer, chans, flagVars, isDiscard, appVars, cb, loop, rcv, term, marked,
                   metric>>

(* Drop latest: the next message pushed carries the indication. *)
CallbackSwap ==
    /\ cb.pc = "swap"
    /\ cb' = [cb EXCEPT !.pc = "push", !.msg.discard = isDiscard]
    /\ isDiscard' = FALSE
    /\ UNCHANGED <<base, buffer, chans, flagVars, appVars, next, loop, rcv, term, obs>>

CallbackReturn == cb' = [cb EXCEPT !.pc = "idle", !.msg = NoMsg]

HasRoom == Len(buffer) < Capacity

(* A send on the closed channel panics; messageCallback recovers, counts   *)
(* the message and gives it back.  Otherwise the messages discarded for    *)
(* this one are counted once it is in the buffer.                          *)
SendToBuffer(discards) ==
    IF "buffer" \in closed
    THEN /\ panicked' = TRUE
         /\ fate' = [fate EXCEPT ![cb.msg.id] = "returned"]
         /\ metric' = [metric EXCEPT !.termination = @ + 1]
         /\ UNCHANGED buffer
    ELSE /\ HasRoom
         /\ buffer' = Append(buffer, cb.msg)
         /\ fate' = [fate EXCEPT ![cb.msg.id] = "buffered"]
         /\ metric' = [metric EXCEPT !.backpressure = @ + discards]
         /\ UNCHANGED panicked

CallbackPush ==
    /\ cb.pc = "push"
    /\ SendToBuffer(0)
    /\ CallbackReturn
    /\ UNCHANGED <<base, closed, flagVars, isDiscard, appVars, next, loop, rcv, term, marked>>

DropLatest ==
    /\ isDiscard' = TRUE
    /\ fate' = [fate EXCEPT ![cb.msg.id] = "returned"]
    /\ metric' = [metric EXCEPT !.backpressure = @ + 1]

CallbackDropLatest ==
    /\ cb.pc = "push" /\ "buffer" \notin closed /\ ~HasRoom
    /\ strategy = "dropLatest"
    /\ DropLatest
    /\ CallbackReturn
    /\ UNCHANGED <<base, buffer, chans, flagVars, appVars, next, loop, rcv, term, marked>>

CallbackFull ==
    /\ cb.pc = "push" /\ "buffer" \notin closed /\ ~HasRoom
    /\ strategy = "dropOldest"
    /\ cb' = [cb EXCEPT !.pc = "pop"]
    /\ UNCHANGED <<base, buffer, chans, flagVars, isDiscard, appVars, next, loop, rcv, term, obs>>

(* Drop oldest: make room, unless a consumer has done so meanwhile. *)
CallbackPop ==
    /\ cb.pc = "pop"
    /\ IF buffer = << >>
       THEN cb' = [cb EXCEPT !.pc = "pushLate"] /\ UNCHANGED <<buffer, fate>>
       ELSE /\ cb' = [cb EXCEPT !.pc = "store"]
            /\ buffer' = Tail(buffer)
            /\ fate' = [fate EXCEPT ![Head(buffer).id] = "dropped"]
    /\ UNCHANGED <<base, chans, flagVars, isDiscard, appVars, next, loop, rcv, term, marked,
                   metric>>

(* Mutant: the discard is not noted. *)
CallbackStore_NoFlag ==
    /\ cb.pc = "store"
    /\ cb' = [cb EXCEPT !.pc = "pushAgain"]
    /\ UNCHANGED <<base, buffer, chans, flagVars, isDiscard, appVars, next, loop, rcv, term, obs>>
CallbackStore ==
    /\ cb.pc = "store"
    /\ isDiscard' = TRUE
    /\ cb' = [cb EXCEPT !.pc = "pushAgain"]
    /\ UNCHANGED <<base, buffer, chans, flagVars, appVars, next, loop, rcv, term, obs>>

(* This send has no default: it would block if the buffer were full. *)
CallbackPushAgain ==
    /\ cb.pc \in {"pushAgain", "pushLate"}
    /\ SendToBuffer(IF cb.pc = "pushAgain" THEN 1 ELSE 0)
    /\ CallbackReturn
    /\ UNCHANGED <<base, closed, flagVars, isDiscard, appVars, next, loop, rcv, term, marked>>

-----------------------------------------------------------------------------
(* ReceiveMessage                                                          *)

Rcv(r, f) == rcv' = [rcv EXCEPT ![r] = f]

ReceiveEnter(r) ==
    /\ rcv[r].pc = "idle" /\ rcv[r].calls < MaxCalls
    /\ state \notin {"NotStarted", "Starting"}
    /\ \E forever \in BOOLEAN :
           Rcv(r, [pc |-> "select", msg |-> NoMsg, calls |-> rcv[r].calls + 1, forever |-> forever])
    /\ UNCHANGED <<base, buffer, chans, flagVars, isDiscard, appVars, cbVars, loop, term, obs>>

ReceiveTake(r) ==
    /\ rcv[r].pc = "select" /\ buffer # << >>
    /\ Rcv(r, [rcv[r] EXCEPT !.pc = "flag", !.msg = Head(buffer)])
    /\ buffer' = Tail(buffer)
    /\ fate' = [fate EXCEPT ![Head(buffer).id] = "consumed"]
    /\ UNCHANGED <<base, chans, flagVars, isDiscard, appVars, cbVars, loop, term, marked, metric>>

(* The timer, the closed and drained buffer, or bufferEmptyOnTerminate. *)
(* Mutant: ReceiveMessage waits for messages only. *)
Released_Ignored == FALSE
Released == (buffer = << >> /\ "buffer" \in closed) \/ "empty" \in closed

ReceiveNothing(r) ==
    /\ rcv[r].pc = "select" /\ (Released \/ ~rcv[r].forever)
    /\ Rcv(r, [rcv[r] EXCEPT !.pc = "deferred"])
    /\ UNCHANGED <<base, buffer, chans, flagVars, isDiscard, appVars, cbVars, loop, term, obs>>

(* Drop oldest: the next message consumed carries the indication, for all  *)
(* the messages dropped until then (fate "reported").                      *)
Indicate(msg) ==
    LET oldest  == strategy = "dropOldest" /\ isDiscard
        discard == oldest \/ msg.discard
    IN  /\ isDiscard' = (isDiscard /\ ~oldest)
        /\ marked' = IF discard THEN marked \cup {msg.id} ELSE marked
        /\ fate' = [m \in Messages |-> IF m = msg.id THEN "delivered"
                                      ELSE IF oldest /\ fate[m] = "dropped" THEN "reported"
                                      ELSE fate[m]]

ReceiveFlag(r) ==
    /\ rcv[r].pc = "flag"
    /\ Indicate(rcv[r].msg)
    /\ Rcv(r, [rcv[r] EXCEPT !.pc = "deferred", !.msg = NoMsg])
    /\ UNCHANGED <<base, buffer, chans, flagVars, appVars, cbVars, loop, term, metric>>

ReceiveReturn(r) ==
    /\ rcv[r].pc = "deferred"
    /\ CheckEmptyAndNotify
    /\ Rcv(r, [rcv[r] EXCEPT !.pc = "idle"])
    /\ UNCHANGED <<base, buffer, bufferClosed, isDiscard, appVars, cbVars, loop, term, obs>>

-----------------------------------------------------------------------------
(* ReceiveAsync and run                                                    *)

(* The first handler is swapped in; a later one only replaces the pointer. *)
AsyncSwap ==
    /\ async = "idle" /\ ~IsEnding /\ ~rxCallback
    /\ rxCallback' = TRUE /\ async' = "signal"
    /\ UNCHANGED <<base, buffer, chans, flagVars, isDiscard, rxCallbackSet, cbVars, loop, rcv, term,
                   obs>>

(* A send that does not wait on a channel of capacity 1. *)
TrySend(v) == rxCallbackSet' = IF rxCallbackSet = << >> THEN <<v>> ELSE rxCallbackSet

AsyncSignal ==
    /\ async = "signal"
    /\ TrySend(TRUE) /\ async' = "done"
    /\ UNCHANGED <<base, buffer, chans, flagVars, isDiscard, rxCallback, cbVars, loop, rcv, term,
                   obs>>

LoopExit == loop' = [loop EXCEPT !.pc = "exited"]

LoopWait ==
    /\ loop.pc = "wait" /\ rxCallbackSet # << >>
    /\ rxCallbackSet' = << >>
    /\ IF Head(rxCallbackSet)
       THEN loop' = [loop EXCEPT !.pc = "check"] /\ KeepChannels
       ELSE LoopExit /\ Close("complete")
    /\ UNCHANGED <<base, buffer, flagVars, isDiscard, rxCallback, async, cbVars, rcv, term, obs>>

(* The loop looks at terminationNotification first ... *)
LoopCheck ==
    /\ loop.pc = "check"
    /\ IF "notification" \in closed
       THEN LoopExit /\ Close("complete")
       ELSE loop' = [loop EXCEPT !.pc = "select"] /\ KeepChannels
    /\ UNCHANGED <<base, buffer, flagVars, isDiscard, appVars, cbVars, rcv, term, obs>>

(* ... and then waits for it or for a message. *)
LoopTake ==
    /\ loop.pc = "select" /\ buffer # << >>
    /\ loop' = [pc |-> "flag", msg |-> Head(buffer)]
    /\ buffer' = Tail(buffer)
    /\ fate' = [fate EXCEPT ![Head(buffer).id] = "consumed"]
    /\ UNCHANGED <<base, chans, flagVars, isDiscard, appVars, cbVars, rcv, term, marked, metric>>

LoopDrained ==
    /\ loop.pc = "select" /\ buffer = << >> /\ "buffer" \in closed
    /\ SignalEmpty
    /\ loop' = [loop EXCEPT !.pc = "exiting"]
    /\ UNCHANGED <<base, buffer, bufferClosed, isDiscard, appVars, cbVars, rcv, term, obs>>

LoopNotified ==
    /\ loop.pc = "select" /\ "notification" \in closed
    /\ loop' = [loop EXCEPT !.pc = "exiting"]
    /\ UNCHANGED <<base, buffer, chans, flagVars, isDiscard, appVars, cbVars, rcv, term, obs>>

LoopClose ==
    /\ loop.pc = "exiting"
    /\ LoopExit /\ Close("complete")
    /\ UNCHANGED <<base, buffer, flagVars, isDiscard, appVars, cbVars, rcv, term, obs>>

(* The handler is called; it returns (or panics, which is recovered). *)
LoopFlag ==
    /\ loop.pc = "flag"
    /\ Indicate(loop.msg)
    /\ loop' = [pc |-> "handle", msg |-> NoMsg]
    /\ UNCHANGED <<base, buffer, chans, flagVars, appVars, cbVars, rcv, term, metric>>

LoopHandled ==
    /\ loop.pc = "handle"
    /\ loop' = [loop EXCEPT !.pc = "check"]
    /\ UNCHANGED <<base, buffer, chans, flagVars, isDiscard, appVars, cbVars, rcv, term, obs>>

-----------------------------------------------------------------------------
(* Terminate and unsolicitedTermination.  Whichever swaps the state first  *)
(* proceeds; kind tells a call with a grace period, a call with a negative *)
(* one and a down event apart.                                             *)

TermGoto(from, to) == term.pc = from /\ term' = [term EXCEPT !.pc = to]

TerminateSwap(kind) ==
    /\ state = "Started" /\ state' = "Terminating"
    /\ term' = [pc |-> "unregister", kind |-> kind, count |-> 0]
    /\ UNCHANGED <<strategy, registered, buffer, chans, flagVars, isDiscard, appVars, cbVars, loop,
                   rcv, obs>>

(* UnregisterRXCallback takes the write lock of the dispatch map, so it    *)
(* waits for a callback in progress.  A call removes the subscriptions     *)
(* first, both remove the event handler next.                              *)
CallbackIdle == cb.pc = "idle"

TerminateUnregister ==
    /\ TermGoto("unregister", "unblock") /\ CallbackIdle
    /\ registered' = FALSE
    /\ UNCHANGED <<strategy, state, buffer, chans, flagVars, isDiscard, appVars, cbVars, loop, rcv,
                   obs>>

(* Tell run not to go on; dropped when a notification is queued. *)
TerminateUnblock ==
    /\ TermGoto("unblock", "close")
    /\ TrySend(FALSE)
    /\ UNCHANGED <<base, buffer, chans, flagVars, isDiscard, rxCallback, async, cbVars, loop, rcv,
                   obs>>

TerminateClose ==
    /\ TermGoto("close", "mark")
    /\ Close("buffer")
    /\ UNCHANGED <<base, buffer, flagVars, isDiscard, appVars, cbVars, loop, rcv, obs>>

TerminateMark ==
    /\ TermGoto("mark", IF term.kind = "down" THEN "notify" ELSE "empty")
    /\ bufferClosed' = TRUE
    /\ UNCHANGED <<base, buffer, chans, emptyFlag, isDiscard, appVars, cbVars, loop, rcv, obs>>

TerminateEmpty ==
    /\ TermGoto("empty", "wait")
    /\ CheckEmptyAndNotify
    /\ UNCHANGED <<base, buffer, bufferClosed, isDiscard, appVars, cbVars, loop, rcv, obs>>

(* time.NewTimer fires at once for a negative duration too. *)
TerminateTimeout ==
    /\ TermGoto("wait", "notify")
    /\ UNCHANGED <<base, buffer, chans, flagVars, isDiscard, appVars, cbVars, loop, rcv, obs>>

TerminateDelivered ==
    /\ TermGoto("wait", "joinEmpty") /\ "empty" \in closed
    /\ UNCHANGED <<base, buffer, chans, flagVars, isDiscard, appVars, cbVars, loop, rcv, obs>>

(* A down event does not join the goroutine of run. *)
TerminateNotify ==
    /\ TermGoto("notify", IF term.kind = "down" THEN "drain" ELSE "join")
    /\ Close("notification")
    /\ UNCHANGED <<base, buffer, flagVars, isDiscard, appVars, cbVars, loop, rcv, obs>>

Joined == "complete" \in closed

TerminateJoin ==
    /\ \/ TermGoto("join", "drain")
       \/ TermGoto("joinEmpty", "finish")
    /\ Joined
    /\ UNCHANGED <<base, buffer, chans, flagVars, isDiscard, appVars, cbVars, loop, rcv, obs>>

(* drainQueue frees the messages that are left, one at a time. *)
(* Mutant: a drained message is not counted.                               *)
DrainQueueOne_NoCount ==
    /\ term.pc = "drain" /\ buffer # << >>
    /\ buffer' = Tail(buffer)
    /\ fate' = [fate EXCEPT ![Head(buffer).id] = "freed"]
    /\ UNCHANGED <<base, chans, flagVars, isDiscard, appVars, cbVars, loop, rcv, term, marked,
                   metric>>
DrainQueueOne ==
    /\ term.pc = "drain" /\ buffer # << >>
    /\ buffer' = Tail(buffer)
    /\ fate' = [fate EXCEPT ![Head(buffer).id] = "freed"]
    /\ term' = [term EXCEPT !.count = @ + 1]
    /\ UNCHANGED <<base, chans, flagVars, isDiscard, appVars, cbVars, loop, rcv, marked, metric>>

DrainQueueDone ==
    /\ TermGoto("drain", "finish") /\ buffer = << >>
    /\ SignalEmpty
    /\ metric' = [metric EXCEPT !.termination = @ + term.count]
    /\ UNCHANGED <<base, buffer, bufferClosed, isDiscard, appVars, cbVars, loop, rcv, fate, marked>>

(* terminated(err): err reports the count unless it is 0. *)
TerminateFinish ==
    /\ TermGoto("finish", "done")
    /\ state' = "Terminated"
    /\ UNCHANGED <<strategy, registered, buffer, chans, flagVars, isDiscard, appVars, cbVars, loop,
                   rcv, obs>>

-----------------------------------------------------------------------------
Callback ==
    \/ CallbackEnter \/ CallbackUnrouted \/ CallbackSwap \/ CallbackPush \/ CallbackDropLatest
    \/ CallbackFull \/ CallbackPop \/ CallbackStore \/ CallbackPushAgain

Receive(r) ==
    \/ ReceiveEnter(r) \/ ReceiveTake(r) \/ ReceiveNothing(r) \/ ReceiveFlag(r) \/ ReceiveReturn(r)

Loop ==
    \/ LoopWait \/ LoopCheck \/ LoopTake \/ LoopDrained \/ LoopNotified \/ LoopClose
    \/ LoopFlag \/ LoopHandled

Terminate ==
    \/ TerminateUnregister \/ TerminateUnblock \/ TerminateClose \/ TerminateMark \/ TerminateEmpty
    \/ TerminateTimeout \/ TerminateDelivered \/ TerminateNotify \/ TerminateJoin
    \/ DrainQueueOne \/ DrainQueueDone \/ TerminateFinish

Next ==
    \/ StartRegister \/ StartOk \/ StartFail
    \/ Callback \/ Loop \/ AsyncSwap \/ AsyncSignal
    \/ \E r \in Receivers : Receive(r)
    \/ \E kind \in {"timed", "negative", "down"} : TerminateSwap(kind)
    \/ Terminate

Spec == Init /\ [][Next]_vars

(* Goroutines and the context thread are scheduled and application         *)
(* handlers return.  Nobody is obliged to call anything, a receive whose   *)
(* select has several ready cases may take any of them, and the grace      *)
(* period elapses.                                                         *)
Fairness ==
    /\ WF_vars(StartOk \/ StartFail)
    /\ WF_vars(CallbackSwap \/ CallbackPush \/ CallbackDropLatest \/ CallbackFull \/ CallbackPop
               \/ CallbackStore \/ CallbackPushAgain)
    /\ WF_vars(Loop)
    /\ WF_vars(AsyncSignal)
    /\ WF_vars(Terminate)
    /\ \A r \in Receivers :
           WF_vars(ReceiveTake(r) \/ ReceiveNothing(r) \/ ReceiveFlag(r) \/ ReceiveReturn(r))

FairSpec == Spec /\ Fairness

-----------------------------------------------------------------------------
(* Properties                                                              *)

(* bufferEmptyOnTerminate is closed by Terminate, by ReceiveMessage, by    *)
(* the asynchronous loop or by drainQueue, whichever is first, and the     *)
(* buffer is closed only when no callback can send on it: nobody panics.   *)
(* And Terminate's comment holds: the signal is never given while messages *)
(* still exist in the queue.                                               *)
EmptySignalIsRight ==
    ~panicked /\ ("empty" \in closed => "buffer" \in closed /\ buffer = << >>)

DroppedLatest(m) == m \in Messages /\ fate[m] = "returned"

(* Messages dropped by back-pressure are made known to the application.    *)
(* Drop latest: a message carries the discard indication exactly when the  *)
(* one before it was dropped.  Drop oldest: a later consumer reports the   *)
(* drop; but for the moment between the drop and its notification (the     *)
(* race the comment in ReceiveMessage admits) the indication is not lost.  *)
DiscardIsReported ==
    /\ strategy = "dropLatest" =>
        /\ \A i \in 1 .. Len(buffer) : buffer[i].discard <=> DroppedLatest(buffer[i].id - 1)
        /\ \A m \in Messages : fate[m] = "delivered" => (m \in marked <=> DroppedLatest(m - 1))
    /\ strategy = "dropOldest" /\ cb.pc # "store" =>
        \A m \in Messages : fate[m] = "dropped" => isDiscard

Discarded == {m \in Messages : fate[m] \in {"returned", "dropped", "reported", "freed"}}

(* Every message that is neither delivered nor on its way to the           *)
(* application is in one of the two discard metrics, counted once, and     *)
(* what Terminate reports as undelivered is what it freed.                 *)
MetricsCountEveryDiscard ==
    /\ term.pc # "drain" /\ cb.pc \notin {"store", "pushAgain"} =>
        metric.backpressure + metric.termination = Cardinality(Discarded)
    /\ term.pc = "done" =>
        /\ term.count = Cardinality({m \in Messages : fate[m] = "freed"})
        /\ \A m \in Messages : fate[m] \notin {"buffered", "callback"}

(* Terminate and unsolicitedTermination end, whatever was in the buffer,   *)
(* whoever consumes it and whichever notification run was given; and they  *)
(* release a ReceiveMessage without a timeout (a Start that failed closes  *)
(* nothing and does not).  Named exception: "negative grace period".  The  *)
(* code's timer fires at once for one, so this Terminate ends too, without *)
(* waiting for the buffer to be emptied; its documentation says that it    *)
(* waits indefinitely, which would leave it waiting for a consumer.        *)
TerminationCompletes ==
    /\ state = "Terminating" ~> state = "Terminated"
    /\ \A r \in Receivers : rcv[r].pc # "idle" /\ term.pc # "none" ~> rcv[r].pc = "idle"
=============================================================================
