# A TLA+ development for the PubSub+ Go client

This directory keeps TLA+ models of the PubSub+ messaging API for Go
(`src/internal/impl`, `src/internal/ccsmp`, `src/pkg/solace`), the TLC
configurations that check them on small instances, and TLAPS proofs about them
for every instance. `PROJECT.json` lists components, runs, hazards and theorems,
and maps every definition to the source lines it stands for. Paths below are
relative to `src/internal/impl` unless they start with `src/`.

## 1. The system

The client is a Go library around the C library CCSMP. An application creates a
messaging service (one session with a broker) and, from it, publishers and
receivers. The code's own logic is almost entirely about concurrency: CCSMP
calls back on its context thread, each publisher and receiver has goroutines of
its own, and the application may call any operation from any goroutine.

| Component | State | Operations | Talks to |
|---|---|---|---|
| life cycle (`publisher/message_publisher_impl.go`, `receiver/message_receiver_impl.go`) | `state`, `startFuture`, `terminateFuture` | `starting`, `started`, `terminate`, `terminated` | every publisher and receiver |
| future (`future/future_error.go`) | a resolved flag and an error | `Complete`, `Get` | life cycle, service |
| executor (`executor/executor.go`) | a channel that is replaced when full, `closed`, two RW locks | `Submit`, `Run`, `Terminate`, `AwaitTermination` | runs every application callback |
| direct publisher (`publisher/direct_message_publisher_impl.go`) | `buffer`, `bufferPublishLock`, interrupt channel | `publish`, `sendTask`, `Terminate`, `unsolicitedTermination` | task buffer, core publisher, executor |
| task buffer (`publisher/buffer/publisher_task_buffer.go`) | task channel, four signal channels | `Submit`, `Run`, `Terminate`, `TerminateNow` | core publisher's `taskQueue` |
| core publisher (`core/publisher.go`) | `taskQueue`, `canSend`, acknowledgement and reply tables | `publishLoop`, `AwaitWritable`, `onCanSend`, `terminate` | CCSMP |
| persistent publisher | direct publisher's, and a correlation table | as above, and `ackHandler` | core publisher's acknowledgements |
| request-reply publisher | direct publisher's, and a reply table whose entries hold two channels | as above, and `handleReplyMessage` | core publisher's reply dispatch |
| direct receiver | bounded `buffer`, termination channels, subscriptions, cache requests | `ReceiveMessage`, `ReceiveAsync`, `AddSubscription`, `RequestCachedAsync`, `Terminate` | core receiver, cache requestor |
| persistent receiver | `buffer`, flow state, water marks, pause flag, outstanding subscriptions | the same, `Pause`, `Resume`, `Ack`, `Settle` | core receiver |
| core receiver, provisioner | dispatch and correlation tables | subscribe, unsubscribe, provision and their confirmations | CCSMP |
| cache requestor | table of cache sessions, response channel, counter | request, cancel, poll, tear down | CCSMP, direct receiver |
| core events, transport, service | handler table, connection state, listeners | `Connect`, `Disconnect`, down event | all |
| metrics | counters | increment, get, reset | all |
| messages, SDT, builders, validation | a builder's property map, a message | build, set, duplicate, publish, typed getters | CCSMP's message and containers |
| logging, generators, constants | none | - | - |

What is hard about it: a publish takes three goroutines and two channels that
must stay in step; termination (with or without a grace period, or forced by a
down event) races with all of them; confirmations, acknowledgements, replies and
cache responses come back on the context thread, late, twice or not at all, and
are matched through tables that termination is emptying; readiness, discard and
failure indications are promised on paths that read state in one step and use it
in another; flow control is decided by several goroutines at once; and numbers
and strings cross a language boundary with types of other widths.

What makes each component correct:

- life cycle: one body of Start or Terminate at a time, a state that never goes
  back, and every caller gets an answer;
- executor: tasks run once, in the order accepted, all of them before
  termination is reported; no send on a closed channel;
- publish pipeline: bounds, order, exact accounting of undelivered messages,
  readiness after an overflow, termination that completes;
- correlation tables (acknowledgements, replies, confirmations, cache
  responses): each waiter is told once, the thread that tells never blocks, and
  termination does not wait for what cannot come;
- receivers: no message lost between buffer and application other than by the
  chosen drop strategy and with notice, only what was delivered is
  acknowledged, and flow control restarts what it stopped;
- service: the session is destroyed once, its children hear of it first;
- messages: what arrives is what was built.

## 2. Modules

| Module | Models | Source |
|---|---|---|
| `Lifecycle` | any number of Start and Terminate callers and the down event | `message_publisher_impl.go`, `future_error.go`, the outline of `Start`/`Terminate` |
| `Service` | extends `Lifecycle`: the messaging service, transport and event table with one child | `messaging_service_impl.go`, `core/transport.go`, `core/events.go` |
| `EventQueue` | what the executor promises (abstract) | the `Executor` interface and its comments |
| `Executor` | the executor with its locks, resize and termination | `executor.go` |
| `DirectPublisher` | publish pipeline: publishers, task buffer, `publishLoop`, session, termination | `direct_message_publisher_impl.go`, `publisher_task_buffer.go`, `core/publisher.go` |
| `PersistentPublisher` | correlation table: publishers, `sendTask`, `ackHandler`, termination | `persistent_message_publisher_impl.go`, `core/publisher.go` |
| `RequestReply` | reply table: `publish` and its outcome closure, `sendTask`, replies, the requestor | `request_reply_message_publisher_impl.go`, `core/publisher.go` |
| `DirectReceiver` | buffer with two drop strategies, consumers, termination, discard metrics | `direct_message_receiver_impl.go` |
| `PersistentReceiver` | flow control by water marks, consumers, pause, acknowledgement, termination | `persistent_message_receiver_impl.go` |
| `Subscriptions` | the confirmation tables and those who wait on them | both receivers, `core/receiver.go`, the provisioner |
| `Cache` | cache requests, context thread, polling goroutine, teardown | `direct_message_receiver_impl.go`, `core/cache_*.go`, `src/internal/ccsmp/ccsmp_cache.go` |
| `SDT` | containers: writing, reading, typed getters (operators only) | `src/pkg/solace/message/sdt`, `ccsmp_container.go` |
| `Message` | builder, validation, message, publish, reply, getters | `message/*.go`, `validation`, `ccsmp_message*.go` |
| `MC...` | instances and the symmetry set for TLC | |
| `..._proofs` | theorems about the module of that name (`Lifecycle_proofs`: also about `Service`; `Subscriptions_proofs`: also about `Cache`) | |

**Composition.** `Service` extends `Lifecycle`: the child in it is a publisher or
receiver of which only the life cycle is kept, by `Lifecycle`'s own actions, so
that its invariant holds of the child too (the lemma `LifecycleHolds`).
`DirectPublisher` composes publisher, task buffer and core
publisher; `PersistentPublisher` and `RequestReply` keep from that pipeline what
their tables depend on and say so. `Executor` implements `EventQueue`, which is
what the other modules take for granted when they let a callback be submitted in
one step. `Message` is built on `SDT`.

**Lifecycle.** `pc[p]` is where goroutine `p` is inside `starting()`,
`terminate()` and so on; each atomic load, store and compare-and-swap of
`state` is a step, and so is each `Complete` and each return of `Get`. What
Start does after registering its down handler, and what Terminate does before
`terminated()`, is one step that may fail. A down event with a registered
handler starts the goroutine `Down`.

**Service.** `spc[g]` is where a goroutine is in Connect, Disconnect or one of the
two goroutines `downEventHandler` starts. `eventCallback` and `emitEvent` run all
handlers under the table's read lock and are one step each; registration needs
the write lock. A failed Connect leaves the state Connected, as in the code, and
`IsConnected` looks at the sub state as well. The history variable `lostEarly`
records a session that went down before Connect stored Connected.

**Executor.** The channel is a sequence with a capacity `scale`; a
`sync.RWMutex` is a set of readers and a writer that first announces itself
(which holds back new readers, as Go's does) and then waits for the readers to
leave. `RunReceive` and `RunExit` are enabled only when the receive would
return; Run holds `channelLock` for reading while it waits. The
refinement mapping to `EventQueue` is `queue <- channel`,
`terminated <- complete`: a resize is a stutter.

**DirectPublisher.** Each message is published by a goroutine of its own
(`pubPC`). `buffer` and `taskQ` are the two channels, `runPC` is
`taskBuffer.Run`, `loopPC` the shared `publishLoop` together with the `sendTask`
it executes, `termPC` the goroutine that terminates, `signals` the closed
signal channels. CCSMP answers a publish with ok, would-block or an error at
will, owes a CAN_SEND after a would-block, and may lose the session. The answer
and the return of the overflow error are two steps of an unbuffered publish;
`notifying` counts the goroutines that `onCanSend` has started and that have not
submitted their readiness event yet. `strategy`
is the back-pressure configuration. The variables after "History" record what
the application and the broker observe and are read by no guard.

**PersistentPublisher.** `correlationMap` is the set of message ids that have a
context; a message stands for its id, which the atomic counter makes unique.
`correlationLock` is held across steps only by `drainAckTable`, so the other
critical sections are single steps enabled while it is free. Resolving the
context of `PublishAwaitAcknowledgement` sends on a channel of capacity 1
(`blocker` is the set of full ones) and blocks while it is full; resolving that
of `Publish` submits a receipt, which the closed executor drops. `drainAckTable`
ranges over the table in any order, but the entry it has `reached` is the one it
resolves next, and it waits there if it must. `verdicts[m]` records what the
application is told. CCSMP owes a CAN_SEND after a would-block, and what it
causes is up to the handler that Start registers.

**RequestReply.** `pubPC[r]` is the goroutine of a request through `publish` and
then through the closure that waits first on `sentChan`, then on `result` or the
timeout. The two channels have their capacity of 1 and may be closed; a send on a
closed one sets `crashed`. `sendTask` and `drainQueue` may block on `sentChan`
with the correlation lock held. A send answers ok, would-block or an error,
whether or not the session is up. `readLock` is core's read lock that
`onReplyMessage` keeps when its handler is gone. The lock is shared by all
request-reply publishers of the session: `OtherLeaksLock` is a late reply to
another one, and both Start (`startPC`), which adds the reply handler, and
Terminate, which removes it, need the write lock.

**DirectReceiver, PersistentReceiver.** `cb` is the callback on the context
thread, `loop` the goroutine `run`, `rcv[r]` a call of `ReceiveMessage`, `term` the
terminating goroutine; `closed` is the set of closed channels. Every test and
the act that follows it are separate steps where they are separate in the code.
`fate[m]` records what became of each message. In `PersistentReceiver` the flow
is external: it delivers while it runs and, once stopped, what was in transit.
`pause` holds the flag and the two event channels of Pause and Resume.

**Subscriptions.** A correlation id is in `table` from the request until its
event; `results[id]` is the waiter's channel of capacity 1. Calls of Add, Remove,
Provision and Deprovision, Start's initial subscriptions, Terminate's
unsubscriptions and the sweep when the service closes all use it. The broker may
refuse additions and removals, a request may fail with the session up, the
session may be lost, an answer may not come. `failed` records the
unsubscribes of Start and Terminate that failed, `kept` the topics the broker may
still have because a removal failed or was refused.

**Cache.** A cache session is known by its pointer, which the library may give
to a new session once the old one is destroyed. The context thread, the polling
goroutine and teardown share `cacheResponseChan`.

**SDT, Message.** A datum is a Go type, an integer and items; strings are indices
in a table that says what number they spell and where a NUL byte would end
them. `Message` has the state of one builder and a few messages; `wire` is what
each publish handed to the library, and the getters are operators on it. History
variables record what the application asked for.

## 3. Runs

- `direct_pub_safety` (3 messages, capacity 2, all strategies, all ways of
  terminating, with and without a stale CAN_SEND token): a task is never
  refused, until a task is interrupted each pops its own message, order on the
  wire, the number Terminate reports, readiness in unbuffered mode.
- `direct_pub_live` (2 messages, capacity 1, wait-when-full): termination, the
  end of the core publisher and every blocked publish complete.
- `persistent_check` (2 messages, one with `PublishAwaitAcknowledgement` and in
  direct mode also both, buffers of 1 and 2, all ways of terminating): Terminate forgets no
  accepted message and returns nil only if none was discarded; a graceful
  termination settles each exactly once; `correlationComplete` is closed once;
  every wait ends and overflow is followed by readiness.
- `request_reply_check` (2 requests, one without a reply timeout, direct and in
  buffers of 1 and 2, against Start, Terminate and another publisher's late
  reply): no panic with a buffer, a graceful Terminate lets the requests
  published before it finish, every wait ends.
- `direct_receiver_check` (4 messages, capacity 2, both drop strategies, one
  `ReceiveMessage` and the asynchronous loop): the empty signal is right and given
  once, discards are indicated and counted, termination releases everyone.
- `persistent_receiver_check` (5 messages, window 2, water marks 1 and 2, a flow
  call that may fail, a handler that panics, a Pause that overlaps a Resume): no
  message lost, the flow not left stopped unless CCSMP refused to start it,
  acknowledged means delivered, every wait ends.
- `subscriptions_check` (2 topics, one removed and added again, the other perhaps
  removed, an endpoint provisioned, direct and persistent receiver, requests that
  fail or are refused): the session's thread never blocks, no subscription is left
  behind but one whose removal is awaited, failed or was refused, every wait ends.
- `cache_check` (2 requests, by channel and by callback, one outstanding at a
  time, 2 pointers): response threads never block, no panic unless overtaken,
  every accepted request is answered.
- `service_check` (two Connects, one Disconnect, a lost session, an interruption
  listener, a child that is started and hears the down event): orderly shutdown, a
  service that says it is connected works, every call returns.
- `executor_check` (3 tasks, 2 terminators, first capacity 1): implementation of
  `EventQueue`, no send on a closed channel, AwaitTermination waits for all,
  calls return unless caught behind a resize.
- `lifecycle_check` (2 starters, 2 terminators, a down event): mutual exclusion
  of bodies, answers only after termination, a state that only advances, every
  call returns.
- `message_check` (2 messages of one builder): what arrives is what was built.

**Named exceptions.** Where the code does not keep a property in some case, the
property names the case, and the model reaches it. They are worth knowing:

| Property | Exception | In the code |
|---|---|---|
| `TaskPopsOwnMessageUnlessInterrupted` | after the end of the grace period one more task may run and pop the message of the interrupted one | `direct_message_publisher_impl.go:534` |
| `ReadinessNotLostUnbuffered`, `EveryWaitEnds` (persistent publisher) | in a buffer of more than one, `isFull` is read before the pop and the readiness event can be lost | `:530`, `persistent_...:735` |
| `ReadinessNotLostUnbuffered` | readiness before the overflow: CAN_SEND may come between the would-block answer and the return of the overflow error, and nothing is owed after the error; the property counts from the answer | `:440`-`443` |
| `AcceptedIsResolved`, `NilMeansSettled`, `CompleteSignalledOnce` | `raced`: a direct publish that passed its state check registers its context after the table was drained; `mispopped`: see the first row | `persistent_message_publisher_impl.go:119` |
| `EveryWaitEnds` (persistent publisher) | `DrainStuck`: `drainAckTable` resolves, under the lock, a context that `ackHandler` has resolved and whose caller has timed out, and reaches no entry behind it, so that another `PublishAwaitAcknowledgement` is not told either; and Terminate(-1) of a direct publisher after a send that withdrew its context | `:440`, `:698` |
| `NoPanicWhenBuffered` | a direct publish overtaken by Terminate sends on a closed `sentChan` | `request_reply_...:770` |
| `EveryWaitEnds` (request-reply) | `WaitsForever`: a request without a timeout is not woken by a down event; `Stranded`: a message pushed as Run ended, under Terminate(-1); `Overlooked`: a down event and a running task exchange messages; `AwaitsTermination`: a publish that waits for a place in the buffer of a lost session is released only by termination; `Hangs`: a reply that finds its handler gone, of this publisher or another of the session, keeps the shared lock, and the next Start or Terminate waits for it for ever | `:306`, `core/publisher.go:242`-`246`, `:172`, `:229` |
| `DiscardIsReported` | the moment between a drop and its notification (a comment in `ReceiveMessage` admits it) | `direct_message_receiver_impl.go:820` |
| `TerminationCompletes` (direct receiver) | a failed Start closes nothing and leaves a `ReceiveMessage` without timeout waiting; negative grace period: the timer fires at once, so Terminate ends without waiting (see Findings) | `direct_message_receiver_impl.go:313` |
| `NoMessageLostUnlessRaced` | the flow is started in the middle of `stopFlow`, or with a whole `stopFlow` between the swap and the start, or on a stale length; or CCSMP refuses to stop or to start it | `persistent_message_receiver_impl.go:1022` |
| `FlowIsNotStarved` | refused start: CCSMP refuses to start the flow; whoever takes the next message tries again, but with an empty buffer there is none and the flow is stopped for ever | `:1024`-`1028` |
| `AckedMeansDelivered` | a `ReceiveMessage` acknowledges the message it is about to return | `:989`, `:1000` |
| `NoSubscriptionLeft` | an Add and a Remove of one topic overlap; a topic whose removal a RemoveSubscription has sent and still waits for; a topic whose removal failed or was refused (`kept`), which Start and Terminate log before they go on | `direct_message_receiver_impl.go:528`, `:177`, `:187`, `:404`-`407`, `:416` |
| `EveryWaitEnds` (subscriptions) | `Forgotten`: Terminate clears the correlations of a persistent receiver, and their callers are told nothing | `persistent_message_receiver_impl.go:355` |
| `ConnectedWorks` | `lostEarly`: the session is lost before Connect stores Connected, and the event is forgotten (see Findings) | `messaging_service_impl.go:198` |
| `EveryCallReturns` | `OvertakenByConnect`: Disconnect loses its swap to a Connect that then completes | `messaging_service_impl.go:344` |
| `NoPanicUnlessOvertaken`, `EveryRequestAnswered` | teardown closes the channel while a request is being made or a callback is under way; a callback deleted by a reused pointer | `:1150`, `ccsmp_cache.go:295` |
| `CallsReturnUnlessResizing` | a resize waits for the lock Run holds while it waits for a Submit | `executor.go:121` |
| `ArrivesAsBuilt` | `Expressible`, `NulFree`: strings end at a NUL byte, `WithExpiration` drops milliseconds, a sequence number above the signed range reads back negative, a class of service is taken modulo its width, a negative `int8` read as `WChar` wraps, a queue arrives by its name alone; an empty byte array is not found on arrival; the getter of bytes also finds a string, map or stream payload, as its encoded bytes | `ccsmp_message.go:145`, `:104`, `outbound_message_builder_impl.go:332`, `ccsmp_message.go:418`, `:444` |

Three behaviours are reachable in the models and are no property's exception,
since no property is claimed there: an unsolicited termination of the direct
publisher may report a message as failed that has just been sent (`:241`); a down
event that is handled before `started()` is dropped; a Terminate that loses to
another on an unstarted instance returns an error (`message_publisher_impl.go:143`).

**Findings.** In two places the code differs from its documentation. A negative
grace period "will wait indefinitely" (`direct_message_receiver_impl.go:259`), but
Terminate of both receivers hands it to a timer that fires at once (`:313`,
`persistent_message_receiver_impl.go:406`); the publishers test the sign first. The
kind `"negative"` of `direct_receiver_check` is this call. And `IsConnected` "returns
true if service is connected" (`messaging_service_impl.go:423`): a down event
during Connect finds no handler, or one whose swap from Connected fails (`:198`),
and the service then says for good that it is connected. Without its exception
TLC refutes `ConnectedWorks` in eight states.

**Bounds.** With capacity 2 and 3 messages the buffer is empty, partly full and
full, an overflow follows a fill, and one message can be interrupted while
another waits and a third is on its way in. Liveness needs a full buffer and one
blocked publisher: capacity 1 and 2 messages. The races of the persistent and
request-reply publishers are between a message and its own answer, or between two
messages of which one is at the head of `buffer`: two messages. Both in direct mode
with `PublishAwaitAcknowledgement` let `drainAckTable` be stuck on one while the
other waits; a buffer of one makes a second request wait for its place. Of another
request-reply publisher only the lock it shares is seen. `MaxReplies` and
`MaxBlocks` bound what the network does to one request (the properties also hold
with two replies to each request, in a run that takes several minutes). The direct receiver drops
at its third message and indicates the drop at the fourth. The persistent
receiver's buffer has room for `2 * Window` = 4, so five messages are needed to
lose one; a receiver that is paused sees one (`MaxPausing`), which is enough to
be blocked with. `MaxCalls` bounds the calls of `ReceiveMessage`. Two Connects give
a waiter for the connect future, and Disconnect meets the down event; the races of
Terminate with the down event are left to `lifecycle_check`. Two topics and
four calls give an overlap, a bystander and a removal under way at the end. One outstanding cache request and two
requests make the limit bite and a pointer come back. A first channel of
capacity 1 lets three tasks force a resize with another submitter behind it. Two
starters and two terminators plus the down goroutine give every pair of competing
swaps. In `Message` integer types keep the order of their widths (8, 16, 24, 30
bits stand for 8, 16, 32 and 64, since TLC's integers have 32), the boundary
values of every type are tried under every other, and `MaxSteps` = 2 settings are
made in all; `Answers` keeps one of the messages for replies. `CHECK_DEADLOCK
FALSE` is set because every model ends: all calls return and the goroutines exit;
that they do not stop earlier is what the liveness properties say.

**Fairness.** Every goroutine that can run does (weak fairness). Strong
fairness is assumed only where Go provides it: a mutex or RWMutex is handed to a
waiter in bounded time, and a `select` chooses uniformly among ready branches.
CCSMP raises the CAN_SEND it owes, and the goroutine `onCanSend` starts runs; the timer of a grace period fires. Nobody is
obliged to publish, to receive, to call Start or Terminate, or to lose a session.
`StaysWritable` (the session does not answer would-block for ever) is a hypothesis
about Terminate(-1) alone, which has no timer. In `PersistentPublisher` the broker
acknowledges what it accepted and a retried send is not refused for ever; the
caller's timeout may fire but need not. In `RequestReply`, `Subscriptions`,
`Service` and `Cache` fairness is one weak condition: as long as some goroutine
inside a call, or some answer the library owes, can go on, one of them does; each
takes finitely many steps, so none is left behind (the Start of `RequestReply` is
such a goroutine). Their liveness properties say that in the end every call is,
and stays, at rest. There, a reply need not come; a
confirmation, or the library's word that the session is gone, does.

## 4. Proofs

All constants are arbitrary, under the named assumptions of the modules (the
sets of goroutines are disjoint, capacities are positive). Every safety property
of the runs but one (see the end of this section) is a theorem. Each proof has
the same plan: an inductive invariant that is the conjunction of named parts, each
part with a lemma for every kind of step, and a theorem that follows from it. The
invariants were model-checked before they were proved.

**`Lifecycle_proofs`**, about `Lifecycle` and `Service`: `TypeCorrect`,
`BodiesExclude` (`OneOwner`), `TerminateWaits` and `Advances`. `OneOwner` is
inductive only together with `EndedOK`: whoever has passed the store of
`terminated()`, or finds `terminateFuture` resolved, finds the state Terminated,
which no later swap leaves. `LifecycleHolds` carries that invariant over to the
child of a service.
`ShutdownIsOrderly` (`OrderlyShutdown`) rests on three facts: one goroutine at a
time is on the way from the successful swap to the destruction of the session
(`OneCloses`), a started child is in the event table until that table is emptied
(`Registered`), and so it has heard of the end once the event is out (`Informed`).
`ConnectedServiceWorks` (`ConnectedWorks`) needs `Working`: what the connecting
goroutine has brought up at each of its steps, and that a failed Connect finds the
sub state Down when it stores Connected; any other step leaves all this alone or
belongs to the end of the service (`ClosedOrIdle`).

**`Executor_proofs`**: `TypeCorrect`, `SendsOnOpenChannel`, `AwaitsAllTasks` and
`Refinement` (`Spec => EventQueue`). The strengthening says that a Submit between
its check of `closed` and its return holds `stateLock` for reading (so Terminate
cannot close the channel under it), and that an accepted task is in the channel
or has been taken. The refinement needs it for one fact: a task is sent only
while `closed` is false.

**`DirectPublisher_proofs`**: `TypeCorrect` and five properties.

- `TaskNeverRefused` (`SubmitNeverFull`) counts tasks: those in the task channel,
  in Run's hands, being executed, and about to be submitted by the holder of the
  lock are never more than the messages in `buffer` while it is open; once it is
  closed, those in the channel and about to be submitted are never more than the
  capacity, because nothing is pushed any more.
- `SentInPublishOrder` (`WireInPublishOrder`): `taskQ`, `wire` and `buffer` are each
  in the order of `accepted`, and a task that has not been tried is later than
  every one that has (`OrderInv`).
- `TaskPopsItsOwn` (`TaskPopsOwnMessageUnlessInterrupted`): until a task is
  interrupted `buffer` is, position by position, the running task, `taskQ` and
  the message whose Submit has not returned (`InStep`).
- `TerminateAccounts` (`TerminateCountsUndelivered`): an equation between what was
  accepted and what is in `buffer`, sent, refused or drained, with one message
  counted twice while a task has tried it and not popped it (`Accounted`).
- `ReadinessIsAnnounced` (`ReadinessNotLostUnbuffered`): from the would-block answer
  on, whichever goroutine it was given to and whether or not the error has been
  returned, a CAN_SEND is owed or a goroutine of `onCanSend` is to submit.

**`PersistentPublisher_proofs`**: `SignalledOnce` (`CompleteSignalledOnce`) from the
order that excludes a second close: the signal is asked for only once Run has
ended, only Run adds entries in a buffered publisher, and `ackHandler` signals on
emptying the table, after which it finds nothing. `EveryAcceptedIsResolved`
(`AcceptedIsResolved`) and `NilReallyMeansSettled` (`NilMeansSettled`) follow from
`VerdictInv`: until the application is told about a message it is in `buffer`, in
the table or in the hands of the task about to resolve it (`Somewhere`), which
needs that a task pops its own message (`InStep`, `HasMessage`); an outcome is
given once, because an unsent message and one whose acknowledgement is still to
come have none (`OneOutcome`); and a graceful termination goes on from its wait
only with an empty table (`GracefulEnd`).

**`RequestReply_proofs`**: `BufferedNeverPanics` (`NoPanicWhenBuffered`): a request
has an entry exactly from its creation until its goroutine removes it, and the
channels of an entry are closed only by the last step of a Terminate (`Table`), by
which time Run has ended (`Stages`) and nobody is left to send.
`TerminateWaitsForReplies` (`GracefulTerminateWaitsForReplies`): the requests that
were published before the termination began get no new entries, and
`correlationComplete` is not closed while one of them has one (`Patience`).

**`DirectReceiver_proofs`**: `SignalIsRight` (`EmptySignalIsRight`) from who may close
which channel when (`Channels`). `DiscardsAreReported` (`DiscardIsReported`):
`isDiscard` speaks about the message before the next one, passes to the message
being pushed and stays with it (`Pending`, `Carried`); with drop oldest it stands
for all drops since the last report. `EveryDiscardIsCounted`
(`MetricsCountEveryDiscard`): the counters, plus what the callback and the drain
have discarded and not counted yet, are the number of discarded messages
(`Counted`).

**`PersistentReceiver_proofs`**: `FlowNeverStarves` (`FlowIsNotStarved`): while the flow
stands still somebody is about to set the flag, about to start the flow, or about
to look at the buffer, or the buffer is not below the low water mark, or a start
was refused and the flag is set for the next one (`StarveInv`). `MarginSuffices` (`NoMessageLostUnlessRaced`): what is in the buffer,
pushed and in transit fits (`MarginInv`). `OnlyDeliveredIsAcked`
(`AckedMeansDelivered`): each message is in one place, the buffer once or the hands
of one goroutine (`Stored`, `Held`), and every way to the end of Terminate leaves
an empty, closed buffer (`Closing`, `Counted`). `ReceiveMessage` and the
asynchronous loop are treated alike, as consumers that take, look, swap and call.

**`Subscriptions_proofs`**: `NeverBlocks` (`SessionThreadNeverBlocks`): a result is sent
once, by whoever takes the correlation out of the table. `NothingLeft`
(`NoSubscriptionLeft`): requests reach the broker in order, so a topic may remain
there if the last request for it is not a removal; such a topic is in the list, or
an AddSubscription is about to put it there, until Terminate has asked for its
removal (`Listed`). All this is about topics outside `kept`; every
topic of which an unsubscribe of Start or Terminate failed is in it (`FailuresKept`).

The same module holds the theorems about `Cache`, the direct receiver's other
dealings with the session (the specification is `CacheSpec`, so that the module
can extend both). All that is assumed of pointers is that no session has the
pointer `"nil"`, which stands for an event without content. `ResponsesFindRoom`
(`ResponsesNeverBlock`): the callback finds room because three sets are nested.
What is in `cacheResponseChan` or about to be pushed is one event each of
different requests (`Expected`, by `OneFlight`: a session has one event at most,
in one place); those requests are still counted, as the poll takes an event and
counts it in one step (`Counted`); and the count is within the limit because a
request that has been let in but not counted is the only one (`Admission`). None
of this survives teardown, which pushes a second event for a session it cancels:
these parts are claimed only while the cache is `Quiet`, which it cannot become
again (`QuietBefore`). That a request is answered once at most does not depend on
it: after the answer the entry goes in the poll's next step, and only the
request's own goroutine puts one there (`Answers`). `PanicsOnlyWhenOvertaken`
(`NoPanicUnlessOvertaken`): if teardown found no request under way, none can be
half way later, as the receiver has left `started` (`Teardown`), and the poll
finds a closed application channel only for a request whose event came before its
send had failed, which `Sessions` excludes. `CountIsExact` and
`EventsFindTheirRequest` state what the argument shows on the way: no error path
counts a request down twice or not at all, and no event is taken for one of
another request although pointers are used again. Once teardown pushes the count
goes wrong, since the poll also counts the second event and the receive from the
closed channel; only a request that had found the receiver started before still
reads it, and teardown has then overtaken that request.

**What the attempts found.** Two properties did not hold as they stood, though
their runs had passed, and both models were corrected. `NoSubscriptionLeft` claimed
that nothing is left when Terminate returns; a RemoveSubscription that is still
waiting for its answer has taken its topic off the list, and Terminate, which
unsubscribes from what the list says, does not wait for it. A fourth call in the
run now reaches this case. `NoMessageLostUnlessRaced` named too few races: a whole
`stopFlow` may run between a consumer's swap of `flowStopped` and its call that
starts the flow, which then runs with the flag saying that it is stopped, so that
nobody stops it and the buffer overflows. That takes two consumers and seven
messages (a behaviour of 36 states), more than the run's bounds.

**What stays with TLC.** Liveness under fairness. `ArrivesAsBuilt`: `SDT` uses
recursive operators for nested containers, and what it says is an induction over
them.

## 5. Not modelled

Logging, code generators and constant tables. The cgo bindings are external: their
answers are inputs, except where the wrapper converts or keeps a table (`SDT`,
`Message`, `Cache`). The builders of services, publishers and receivers translate
configuration once. Reconnection and reconnection-attempt listeners use the
interruption listeners' mechanism with another event; `UpdateProperty` passes
through. Of the metrics only the two discard counters are modelled; the rest
are sums of CCSMP's own counters, and `GetStat`'s subtraction of duplicate
acknowledgements from a counter read separately (`core/metrics.go:216`) is left
out with them. The layout of correlation tags and ids, settlement by the
application, replay, and the translation of endpoint properties are left out.
Listeners do not call back into publishers or receivers in the models.

## 6. Plan

All components have a module, and all safety properties but `ArrivesAsBuilt` have a
proof. What is left is upkeep: lemmas that several proof modules state alike (what
`Tail` and `Append` do to a sequence of distinct messages) could move to a module of
their own, and the theorems of `Cache` from `Subscriptions_proofs` to one.
