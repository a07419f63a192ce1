------------------------------- MODULE Cache -------------------------------
(***************************************************************************)
(* Cache requests of a direct receiver.                                    *)
(*                                                                         *)
(*   Request(r)  RequestCachedAsync or RequestCachedAsyncWithCallback      *)
(*   Context     the context thread of the C library: goCacheEventCallback *)
(*               hands the outcome of a request to cacheResponseChan       *)
(*   Poll        PollAndProcessCacheResponseChannel: gives the response to *)
(*               the application and destroys the cache session            *)
(*   Terminate   the receiver's termination, up to teardownCache           *)
(*                                                                         *)
(* A cache session is known by its pointer alone, in cacheRequestMap, in   *)
(* cacheToEventCallbackMap and in the events.  The library never gives two *)
(* live sessions one pointer, but it may use that of a destroyed one again.*)
(***************************************************************************)
EXTENDS Integers, Sequences, FiniteSets

CONSTANTS
    Requests,       \* the requests the application makes
    ByChannel,      \* those made with RequestCachedAsync
    Pointers,       \* addresses of cache sessions
    None,           \* no request
    MaxOutstandingCacheRequests

ASSUME CacheAssumption ==
    /\ ByChannel \subseteq Requests /\ None \notin Requests /\ "nil" \notin Pointers
    /\ MaxOutstandingCacheRequests \in Nat \ {0}

Nil == "nil"        \* the session pointer of an event with no content

VARIABLES
    receiverState,  \* the receiver's state: "started", "terminating", "terminated"
    call,           \* the goroutine of request r
    ptr,            \* its cache session
    counter,        \* numOutstandingCacheRequests
    requestMap,     \* cacheRequestMap
    callbackMap,    \* cacheToEventCallbackMap
    chan, open,     \* cacheResponseChan
    poll, event,    \* the polling goroutine and the event it works on
    teardownPC,     \* the termination, up to the end of teardownCache,
    todo,           \* the sessions its Range still visits
    pushes,         \* and the events it is pushing
    ctx,            \* the context thread
    live,           \* library: the sessions that exist
    pending,        \* library: those with a request in progress
    answered,       \* history: how often request r was answered
    erased,         \* history: requests whose callback another's event deleted
    overtaken,      \* history: requests teardownCache did not wait for
    panicked        \* history: a panic took the process down

reqVars  == <<call, ptr, counter>>
mapVars  == <<requestMap, callbackMap>>
chanVars == <<chan, open>>
pollVars == <<poll, event, answered>>
teardownVars == <<receiverState, teardownPC, todo, pushes>>
libVars  == <<live, pending>>
histVars == <<erased, overtaken, panicked>>
cacheVars == <<reqVars, mapVars, chanVars, pollVars, teardownVars, ctx, libVars, histVars>>

Idle == [at |-> "idle", session |-> Nil, owner |-> None]

CacheInit ==
    /\ receiverState = "started"
    /\ call = [r \in Requests |-> "idle"] /\ ptr = [r \in Requests |-> Nil]
    /\ counter = 0
    /\ requestMap = [p \in Pointers |-> None] /\ callbackMap = [p \in Pointers |-> None]
    /\ chan = <<>> /\ open = TRUE
    /\ poll = "off" /\ event = Nil
    /\ teardownPC = "idle" /\ todo = {} /\ pushes = <<>>
    /\ ctx = Idle
    /\ live = {} /\ pending = {}
    /\ answered = [r \in Requests |-> 0]
    /\ erased = {} /\ overtaken = {} /\ panicked = FALSE

Proceed(r, pc) == call' = [call EXCEPT ![r] = pc]
HasRoom == Len(chan) < MaxOutstandingCacheRequests
PollRunning == poll \notin {"off", "ended"}     \* isCachePollingRunning

-----------------------------------------------------------------------------
(* A request.                                                              *)

(* Mutant: the check and the increment are not under one lock.             *)
LockFree_Always == TRUE
(* cacheResourceLock is held from the check to the end of the set-up.      *)
LockFree == \A r \in Requests : call[r] \notin {"check", "admit"}

(* Mutant: a terminated receiver still takes requests.                     *)
MayRequest_AnyState == TRUE
(* checkStateForCacheRequest looks at the receiver's state, at the core    *)
(* receiver, which the service can have stopped at any time, and at the    *)
(* count.                                                                  *)
MayRequest == receiverState = "started"

CheckState(r) ==
    /\ call[r] = "idle" /\ LockFree
    /\ \/ MayRequest /\ Proceed(r, "check")
       \/ Proceed(r, "refused")
    /\ UNCHANGED <<ptr, counter, mapVars, chanVars, pollVars, teardownVars, ctx, libVars, histVars>>

CheckCount(r) ==
    /\ call[r] = "check"
    /\ \/ counter < MaxOutstandingCacheRequests /\ Proceed(r, "admit")
       \/ Proceed(r, "refused")
    /\ UNCHANGED <<ptr, counter, mapVars, chanVars, pollVars, teardownVars, ctx, libVars, histVars>>

(* StartAndInitCacheRequestorIfNotDoneAlready, once the request is counted.*)
(* cachePollingRunningChan is made once: a goroutine started after         *)
(* teardown finds it closed.                                               *)
Admit(r) ==
    /\ call[r] = "admit"
    /\ counter' = counter + 1 /\ Proceed(r, "create")
    /\ poll' = IF poll = "off" THEN "wait" ELSE poll
    /\ panicked' = (poll = "ended")
    /\ UNCHANGED <<erased, overtaken, ptr, mapVars, chanVars, event, answered, teardownVars, ctx,
                   libVars>>

(* CreateCacheRequest.                                                     *)
CreateCacheRequest(r) ==
    /\ call[r] = "create"
    /\ \E p \in Pointers \ live :
        /\ live' = live \cup {p} /\ ptr' = [ptr EXCEPT ![r] = p]
    /\ Proceed(r, "store")
    /\ UNCHANGED <<counter, mapVars, chanVars, pollVars, teardownVars, ctx, pending, histVars>>

CreateFails(r) ==
    /\ call[r] = "create"
    /\ counter' = counter - 1 /\ Proceed(r, "failed")
    /\ UNCHANGED <<ptr, mapVars, chanVars, pollVars, teardownVars, ctx, libVars, histVars>>

(* addCacheSessionToMapIfNotPresent; the session of a request that finds   *)
(* its pointer taken is not destroyed.                                     *)
StoreSession(r) ==
    /\ call[r] = "store"
    /\ LET found == requestMap[ptr[r]] # None
       IN  /\ requestMap' = IF found THEN requestMap ELSE [requestMap EXCEPT ![ptr[r]] = r]
           /\ counter' = IF found THEN counter - 1 ELSE counter
           /\ Proceed(r, IF found THEN "failed" ELSE "send")
    /\ UNCHANGED <<ptr, callbackMap, chanVars, pollVars, teardownVars, ctx, libVars, histVars>>

(* SendCacheRequest registers the callback before it calls the library; a  *)
(* session that has been destroyed is refused.                             *)
SendCacheRequest(r) ==
    /\ call[r] = "send"
    /\ callbackMap' = [callbackMap EXCEPT ![ptr[r]] = r]
    /\ \/ /\ ptr[r] \in live
          /\ pending' = pending \cup {ptr[r]} /\ Proceed(r, "returned")
       \/ pending' = pending /\ Proceed(r, "undo")
    /\ UNCHANGED <<ptr, counter, requestMap, chanVars, pollVars, teardownVars, ctx, live, histVars>>

(* DestroyCacheSession forgets the callback and then the session.          *)
DestroyCacheSession(p) ==
    /\ callbackMap' = [q \in Pointers |-> IF q = p THEN None ELSE callbackMap[q]]
    /\ live' = live \ {p} /\ pending' = pending \ {p}

(* The error path of a failed send: the count, then the entry and the      *)
(* session.  The application's channel is closed with the count.           *)
SendUncount(r) ==
    /\ call[r] = "undo"
    /\ counter' = counter - 1 /\ Proceed(r, "destroy")
    /\ UNCHANGED <<ptr, mapVars, chanVars, pollVars, teardownVars, ctx, libVars, histVars>>

DestroyCacheRequest(r) ==
    /\ call[r] = "destroy"
    /\ requestMap' = [requestMap EXCEPT ![ptr[r]] = None]
    /\ DestroyCacheSession(ptr[r])
    /\ Proceed(r, "failed")
    /\ UNCHANGED <<ptr, counter, chanVars, pollVars, teardownVars, ctx, histVars>>

Request(r) ==
    \/ CheckCount(r)
    \/ Admit(r)
    \/ CreateCacheRequest(r)
    \/ CreateFails(r)
    \/ StoreSession(r)
    \/ SendCacheRequest(r)
    \/ SendUncount(r)
    \/ DestroyCacheRequest(r)

-----------------------------------------------------------------------------
(* goCacheEventCallback, on the context thread: look the callback up, run  *)
(* it, and delete it by its pointer.                                       *)

ContextLookup ==
    /\ ctx = Idle
    /\ \E p \in pending :
        /\ pending' = pending \ {p}
        /\ ctx' = IF callbackMap[p] = None THEN Idle
                  ELSE [at |-> "push", session |-> p, owner |-> callbackMap[p]]
    /\ UNCHANGED <<reqVars, mapVars, chanVars, pollVars, teardownVars, live, histVars>>

(* cacheEventCallback: a send on a closed channel panics.                  *)
ContextPush ==
    /\ ctx.at = "push"
    /\ open => HasRoom
    /\ chan' = IF open THEN Append(chan, ctx.session) ELSE chan
    /\ panicked' = ~open
    /\ ctx' = [ctx EXCEPT !.at = "delete"]
    /\ UNCHANGED <<reqVars, mapVars, open, pollVars, teardownVars, libVars, erased, overtaken>>

(* The deletion, after the callback of owner, of what p stands for by now. *)
DeleteCallback(p, owner) ==
    /\ callbackMap' = [callbackMap EXCEPT ![p] = None]
    /\ erased' = erased \cup ({callbackMap[p]} \ {None, owner})

ContextDelete ==
    /\ ctx.at = "delete"
    /\ DeleteCallback(ctx.session, ctx.owner)
    /\ ctx' = Idle
    /\ UNCHANGED <<reqVars, requestMap, chanVars, pollVars, teardownVars, libVars, overtaken, panicked>>

Context == ContextLookup \/ ContextPush \/ ContextDelete

-----------------------------------------------------------------------------
(* PollAndProcessCacheResponseChannel.                                     *)

(* Every receive counts, that of the closed channel too.                   *)
PollTake ==
    /\ poll = "wait" /\ (chan # <<>> \/ ~open)
    /\ counter' = counter - 1
    /\ IF chan # <<>>
       THEN /\ event' = Head(chan) /\ chan' = Tail(chan) /\ poll' = "process"
       ELSE /\ event' = Nil /\ chan' = chan /\ poll' = "closed"
    /\ UNCHANGED <<call, ptr, mapVars, open, answered, teardownVars, ctx, libVars, histVars>>

Found == IF event = Nil THEN None ELSE requestMap[event]
ChannelClosed(r) == r \in ByChannel /\ call[r] \in {"destroy", "failed"}

(* ProcessCacheEvent gives the response to the application's callback, or  *)
(* to the channel it was given, which a failed send has closed.            *)
ProcessCacheEvent ==
    /\ poll = "process" /\ poll' = "destroy"
    /\ answered' = [r \in Requests |-> IF r = Found THEN answered[r] + 1 ELSE answered[r]]
    /\ panicked' = (Found # None /\ ChannelClosed(Found))
    /\ UNCHANGED <<reqVars, mapVars, chanVars, event, teardownVars, ctx, libVars, erased, overtaken>>

(* and, found or not, removes the entry and destroys the session.          *)
ProcessDestroy ==
    /\ poll = "destroy" /\ poll' = "wait" /\ event' = Nil
    /\ requestMap' = [p \in Pointers |-> IF p = event THEN None ELSE requestMap[p]]
    /\ DestroyCacheSession(event)
    /\ UNCHANGED <<reqVars, chanVars, answered, teardownVars, ctx, histVars>>

PollEnd ==
    /\ poll = "closed" /\ poll' = "ended"
    /\ UNCHANGED <<reqVars, mapVars, chanVars, event, answered, teardownVars, ctx, libVars, histVars>>

Poll == PollTake \/ ProcessCacheEvent \/ ProcessDestroy \/ PollEnd

-----------------------------------------------------------------------------
(* Termination.                                                            *)

(* Terminate or unsolicitedTermination takes the receiver out of started.  *)
ReceiverTerminates ==
    /\ receiverState = "started" /\ receiverState' = "terminating" /\ teardownPC' = "stop"
    /\ UNCHANGED <<todo, pushes, reqVars, mapVars, chanVars, pollVars, ctx, libVars, histVars>>

(* Terminate returns before teardownCache when messages are undelivered.   *)
TerminateIncomplete ==
    /\ teardownPC = "stop" /\ teardownPC' = "done" /\ receiverState' = "terminated"
    /\ UNCHANGED <<todo, pushes, reqVars, mapVars, chanVars, pollVars, ctx, libVars, histVars>>

Underway(r) == call[r] \notin {"idle", "refused", "failed", "returned"}
TeardownBegin ==
    /\ teardownPC = "stop"
    /\ IF PollRunning
       THEN /\ teardownPC' = "range" /\ todo' = {p \in Pointers : requestMap[p] # None}
            /\ receiverState' = receiverState
       ELSE teardownPC' = "done" /\ todo' = {} /\ receiverState' = "terminated"
    /\ overtaken' = {r \in Requests : Underway(r)}
    /\ UNCHANGED <<pushes, reqVars, mapVars, chanVars, pollVars, ctx, libVars, erased, panicked>>

(* Mutant: no event is made for a request that cannot be cancelled.        *)
CancelPendingCacheRequests_Silent(p) ==
    \/ /\ p \in pending /\ callbackMap[p] # None
       /\ pending' = pending \ {p}
       /\ pushes' = <<[event |-> p, after |-> Idle],
                      [event |-> Nil, after |-> [Idle EXCEPT !.session = p, !.owner = callbackMap[p]]]>>
    \/ pending' = pending \ {p} /\ pushes' = <<[event |-> Nil, after |-> Idle]>>
(* CancelPendingCacheRequests: the library cancels the request in progress *)
(* and its callback runs inside the call; or there is nothing to cancel    *)
(* (or no callback any more); or it refuses.  The event it returns is for  *)
(* this session only when the library refuses and has no content otherwise.*)
CancelPendingCacheRequests(p) ==
    \/ /\ p \in pending /\ callbackMap[p] # None
       /\ pending' = pending \ {p}
       /\ pushes' = <<[event |-> p, after |-> Idle],
                      [event |-> Nil, after |-> [Idle EXCEPT !.session = p, !.owner = callbackMap[p]]]>>
    \/ /\ p \in live /\ (p \in pending => callbackMap[p] = None)
       /\ pending' = pending \ {p} /\ pushes' = <<[event |-> Nil, after |-> Idle]>>
    \/ pending' = pending /\ pushes' = <<[event |-> p, after |-> Idle]>>

(* The next entry of the Range, which skips those deleted meanwhile.       *)
TeardownCancel ==
    /\ teardownPC = "range" /\ pushes = <<>>
    /\ \E p \in todo :
        /\ todo' = todo \ {p}
        /\ IF requestMap[p] # None
           THEN CancelPendingCacheRequests(p)
           ELSE UNCHANGED <<pending, pushes>>
    /\ UNCHANGED <<receiverState, teardownPC, reqVars, mapVars, chanVars, pollVars, ctx, live,
                   histVars>>

(* The next event is pushed, by the callback of a cancelled request, which *)
(* then deletes itself, or by teardownCache.                               *)
TeardownPush ==
    /\ pushes # <<>> /\ HasRoom
    /\ chan' = Append(chan, Head(pushes).event) /\ pushes' = Tail(pushes)
    /\ LET callback == Head(pushes).after
       IN  IF callback = Idle THEN UNCHANGED <<callbackMap, erased>>
           ELSE DeleteCallback(callback.session, callback.owner)
    /\ UNCHANGED <<receiverState, teardownPC, todo, reqVars, requestMap, open, pollVars, ctx, libVars,
                   overtaken, panicked>>

(* The channel is closed once the Range is over.                           *)
TeardownClose ==
    /\ teardownPC = "range" /\ todo = {} /\ pushes = <<>>
    /\ open' = FALSE /\ teardownPC' = "done" /\ receiverState' = "terminated"
    /\ overtaken' = (overtaken \cup {callbackMap[p] : p \in pending} \cup {ctx.owner}) \ {None}
    /\ UNCHANGED <<todo, pushes, reqVars, mapVars, chan, pollVars, ctx, libVars, erased, panicked>>

Terminate ==
    \/ TerminateIncomplete
    \/ TeardownBegin
    \/ TeardownCancel
    \/ TeardownPush
    \/ TeardownClose

-----------------------------------------------------------------------------
(* A panic in any goroutine ends the process.                              *)
CacheRunning == ~panicked /\ ((\E r \in Requests : Request(r)) \/ Context \/ Poll \/ Terminate)
CacheNext ==
    \/ CacheRunning
    \/ ~panicked /\ ((\E r \in Requests : CheckState(r)) \/ ReceiverTerminates)

CacheSpec == CacheInit /\ [][CacheNext]_cacheVars
CacheFairSpec == CacheSpec /\ WF_cacheVars(CacheRunning)

-----------------------------------------------------------------------------
(* Neither thread that carries a response waits for room in a channel (the *)
(* poll also runs the application's callbacks, however long they take).    *)
(* The count under cacheResourceLock keeps room in cacheResponseChan for   *)
(* every callback of the library's context thread, which serves the whole  *)
(* session, until teardownCache pushes events of its own; and a request is *)
(* answered at most once, although a cancelled one can have two events, so *)
(* that the polling goroutine finds room in the application's channel of   *)
(* capacity 1.                                                             *)
ResponsesNeverBlock ==
    /\ ctx.at = "push" /\ teardownPC \in {"idle", "stop"} => HasRoom
    /\ \A r \in Requests : answered[r] <= 1

(* The library may report on a session the receiver no longer knows, and a *)
(* request may fail half way: no step then sends on a channel that has     *)
(* been closed, as long as teardownCache found no request still being made *)
(* and left the library nothing to report when it closed cacheResponseChan.*)
NoPanicUnlessOvertaken == panicked => overtaken # {}

(* An accepted request is answered, also when the receiver terminates,     *)
(* unless the callback of an older request with the same session pointer   *)
(* deleted its callback, or teardownCache overtook it.                     *)
EveryRequestAnswered ==
    \A r \in Requests :
        call[r] = "returned" ~> (answered[r] = 1 \/ r \in erased \cup overtaken \/ panicked)
=============================================================================
