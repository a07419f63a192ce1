------------------------------ MODULE Executor ------------------------------
(***************************************************************************)
(* internal/impl/executor: tasks submitted by many goroutines, run by one, *)
(* through a buffered channel that is replaced by one of twice the size    *)
(* when it is full.  Two sync.RWMutex guard it: stateLock (Submit reads,   *)
(* Terminate writes) and channelLock (Run and Submit read, a resizing      *)
(* Submit writes).                                                         *)
(***************************************************************************)
EXTENDS Naturals, Sequences, FiniteSets

CONSTANTS
    Tasks,        \* each is submitted once, by a goroutine of its own
    Terminators,  \* goroutines that call AwaitTermination
    DefaultSize,  \* defaultSize, the capacity of the first channel
    Runner,       \* the goroutine in Run
    NoTask

ASSUME ExecutorAssumption ==
    /\ DefaultSize \in Nat \ {0}
    /\ Runner \notin Tasks /\ NoTask \notin Tasks \cup Terminators

VARIABLES
    channel,     \* contents of the current channel
    chanClosed,  \* the current channel is closed
    scale,       \* capacity of the current channel
    closed,      \* executor.closed
    stReaders, stWriter, \* stateLock
    chReaders, chWriter, \* channelLock
    subPC,       \* where Submit(t) is
    submitted,   \* what Submit(t) returned
    termPC,      \* where AwaitTermination is
    runPC,       \* where Run is
    taken,       \* tasks Run received, in that order
    complete     \* terminateComplete is closed

subVars == <<subPC, submitted>>
runVars == <<runPC, taken, complete>>
stVars  == <<stReaders, stWriter>>
chVars  == <<chReaders, chWriter>>
queueVars == <<channel, chanClosed, scale, closed>>
vars == <<queueVars, stVars, chVars, subVars, termPC, runVars>>

scalingFactor == 2

(* NewExecutor, with Run started on its goroutine. *)
Init ==
    /\ channel = <<>> /\ chanClosed = FALSE /\ scale = DefaultSize
    /\ closed = FALSE
    /\ stReaders = {} /\ stWriter = NoTask
    /\ chReaders = {} /\ chWriter = NoTask
    /\ subPC = [t \in Tasks |-> "idle"]
    /\ submitted = [t \in Tasks |-> "none"]
    /\ termPC = [q \in Terminators |-> "idle"]
    /\ runPC = "rlock" /\ taken = <<>> /\ complete = FALSE

-----------------------------------------------------------------------------
(* sync.RWMutex: a writer first announces itself, which holds back new     *)
(* readers, and then waits for the readers that are in to leave.           *)
MayRead(writer)   == writer = NoTask
MayWrite(readers) == readers = {}

-----------------------------------------------------------------------------
(* Submit                                                                  *)

SubmitLockState(t) ==
    /\ subPC[t] = "idle" /\ MayRead(stWriter)
    /\ stReaders' = stReaders \cup {t}
    /\ subPC' = [subPC EXCEPT ![t] = "check"]
    /\ UNCHANGED <<queueVars, stWriter, chVars, submitted, termPC, runVars>>

(* The deferred stateLock.RUnlock and the return value. *)
(* Mutant: the deferred RUnlock is missing. *)
Return_KeepsLock(t, r) ==
    /\ UNCHANGED stReaders
    /\ subPC' = [subPC EXCEPT ![t] = "done"]
    /\ submitted' = [submitted EXCEPT ![t] = r]
Return(t, r) ==
    /\ stReaders' = stReaders \ {t}
    /\ subPC' = [subPC EXCEPT ![t] = "done"]
    /\ submitted' = [submitted EXCEPT ![t] = r]

RefusesTask == closed

SubmitCheckClosed(t) ==
    /\ subPC[t] = "check"
    /\ IF RefusesTask
       THEN Return(t, "false")
       ELSE /\ subPC' = [subPC EXCEPT ![t] = "chRLock"]
            /\ UNCHANGED <<stReaders, submitted>>
    /\ UNCHANGED <<queueVars, stWriter, chVars, termPC, runVars>>

SubmitLockChannel(t) ==
    /\ subPC[t] = "chRLock" /\ MayRead(chWriter)
    /\ chReaders' = chReaders \cup {t}
    /\ subPC' = [subPC EXCEPT ![t] = "try"]
    /\ UNCHANGED <<queueVars, stVars, chWriter, submitted, termPC, runVars>>

HasRoom == Len(channel) < scale

(* First attempt, under the read lock: send, or give up the lock. *)
SubmitTry(t) ==
    /\ subPC[t] = "try"
    /\ chReaders' = chReaders \ {t}
    /\ IF HasRoom
       THEN channel' = Append(channel, t) /\ Return(t, "true")
       ELSE /\ subPC' = [subPC EXCEPT ![t] = "announce"]
            /\ UNCHANGED <<channel, stReaders, submitted>>
    /\ UNCHANGED <<chanClosed, scale, closed, stWriter, chWriter, termPC, runVars>>

SubmitAnnounceResize(t) ==
    /\ subPC[t] = "announce" /\ chWriter = NoTask
    /\ chWriter' = t
    /\ subPC' = [subPC EXCEPT ![t] = "wlock"]
    /\ UNCHANGED <<queueVars, stVars, chReaders, submitted, termPC, runVars>>

(* resize: the old channel is drained into a larger one, in order. *)
(* Mutant: the first element of the old channel is lost. *)
Moved_LosesHead(old) == Tail(old)
Moved(old) == old

(* The deferred channelLock.Unlock. *)
UnlockChannel == chWriter' = NoTask

(* Second attempt, under the write lock: send, resizing first if the       *)
(* channel is still full.                                                  *)
SubmitResize(t) ==
    /\ subPC[t] = "wlock" /\ MayWrite(chReaders)
    /\ IF HasRoom
       THEN channel' = Append(channel, t) /\ UNCHANGED scale
       ELSE channel' = Append(Moved(channel), t) /\ scale' = scalingFactor * scale
    /\ UnlockChannel
    /\ Return(t, "true")
    /\ UNCHANGED <<chanClosed, closed, stWriter, chReaders, termPC, runVars>>

-----------------------------------------------------------------------------
(* Run                                                                     *)

RunLock ==
    /\ runPC = "rlock" /\ MayRead(chWriter)
    /\ chReaders' = chReaders \cup {Runner}
    /\ runPC' = "receive"
    /\ UNCHANGED <<queueVars, stVars, chWriter, subVars, termPC, taken, complete>>

(* The receive blocks while the channel is open and empty: Run then keeps  *)
(* the read lock.                                                          *)
RunReceive ==
    /\ runPC = "receive" /\ channel # <<>>
    /\ channel' = Tail(channel)
    /\ taken' = Append(taken, Head(channel))
    /\ chReaders' = chReaders \ {Runner}
    /\ runPC' = "execute"
    /\ UNCHANGED <<chanClosed, scale, closed, stVars, chWriter, subVars, termPC, complete>>

RunExecute ==
    /\ runPC = "execute"
    /\ runPC' = "rlock"
    /\ UNCHANGED <<queueVars, stVars, chVars, subVars, termPC, taken, complete>>

(* Mutant: Run stops when the channel is closed, leaving tasks in it. *)
ChannelExhausted_Ignored == TRUE
ChannelExhausted == channel = <<>>

RunExit ==
    /\ runPC = "receive" /\ chanClosed /\ ChannelExhausted
    /\ chReaders' = chReaders \ {Runner}
    /\ runPC' = "exited"
    /\ complete' = TRUE
    /\ UNCHANGED <<queueVars, stVars, chWriter, subVars, termPC, taken>>

-----------------------------------------------------------------------------
(* AwaitTermination = Terminate, then wait for terminateComplete.          *)

TerminateAnnounce(q) ==
    /\ termPC[q] = "idle" /\ stWriter = NoTask
    /\ stWriter' = q
    /\ termPC' = [termPC EXCEPT ![q] = "wlock"]
    /\ UNCHANGED <<queueVars, stReaders, chVars, subVars, runVars>>

(* stateLock.Lock: "a hard lock to make sure that no tasks are submitted   *)
(* racing with the closed".  Mutant: no such lock.                         *)
HardLocked_Not == TRUE
HardLocked == MayWrite(stReaders)

TerminateClose(q) ==
    /\ termPC[q] = "wlock" /\ HardLocked
    /\ closed' = TRUE
    /\ chanClosed' = TRUE   \* close(channel) only if closed was 0
    /\ stWriter' = NoTask
    /\ termPC' = [termPC EXCEPT ![q] = "await"]
    /\ UNCHANGED <<channel, scale, stReaders, chVars, subVars, runVars>>

TerminateAwaited(q) ==
    /\ termPC[q] = "await" /\ complete
    /\ termPC' = [termPC EXCEPT ![q] = "done"]
    /\ UNCHANGED <<queueVars, stVars, chVars, subVars, runVars>>

-----------------------------------------------------------------------------
Submit(t) ==
    \/ SubmitLockState(t) \/ SubmitCheckClosed(t) \/ SubmitLockChannel(t)
    \/ SubmitTry(t) \/ SubmitAnnounceResize(t) \/ SubmitResize(t)

Run == RunLock \/ RunReceive \/ RunExecute \/ RunExit

AwaitTermination(q) == TerminateAnnounce(q) \/ TerminateClose(q) \/ TerminateAwaited(q)

Next ==
    \/ \E t \in Tasks : Submit(t)
    \/ Run
    \/ \E q \in Terminators : AwaitTermination(q)

Spec == Init /\ [][Next]_vars

(* Goroutines that can run do run, submitted tasks return, and an RWMutex  *)
(* starves neither readers nor writers.                                    *)
FairSpec ==
    /\ Spec
    /\ WF_vars(Run) /\ SF_vars(RunLock)
    /\ \A t \in Tasks :
         /\ WF_vars(Submit(t) /\ subPC[t] # "idle")
         /\ SF_vars(SubmitLockChannel(t)) /\ SF_vars(SubmitAnnounceResize(t))
    /\ \A q \in Terminators : WF_vars(AwaitTermination(q) /\ termPC[q] # "idle")

-----------------------------------------------------------------------------
SubPCs  == {"idle", "check", "chRLock", "try", "announce", "wlock", "done"}

(* Every variable has its type, and the channel its capacity. *)
TypeOK ==
    /\ channel \in Seq(Tasks) /\ Len(channel) <= scale
    /\ chanClosed \in BOOLEAN /\ closed \in BOOLEAN /\ complete \in BOOLEAN
    /\ scale \in Nat \ {0}
    /\ stReaders \subseteq Tasks /\ stWriter \in Terminators \cup {NoTask}
    /\ chReaders \subseteq Tasks \cup {Runner} /\ chWriter \in Tasks \cup {NoTask}
    /\ subPC \in [Tasks -> SubPCs]
    /\ submitted \in [Tasks -> {"none", "true", "false"}]
    /\ termPC \in [Terminators -> {"idle", "wlock", "await", "done"}]
    /\ runPC \in {"rlock", "receive", "execute", "exited"}
    /\ taken \in Seq(Tasks)

(* What the interface promises: accepted tasks are taken in order, none is *)
(* lost or duplicated by a resize, none is accepted once closed, and       *)
(* terminateComplete is closed only when all have been taken.              *)
Promise == INSTANCE EventQueue WITH queue <- channel, terminated <- complete

ImplementsEventQueue == Promise!EQSpec

(* No task is sent on a closed channel: a goroutine past the closed check  *)
(* of Submit keeps Terminate from closing the channel it sends on.         *)
NoSendOnClosedChannel ==
    (\E t \in Tasks : subPC[t] \in {"chRLock", "try", "announce", "wlock"}) => ~chanClosed

(* When AwaitTermination returns, every task whose Submit returned true    *)
(* has been run to completion.                                             *)
AwaitTerminationWaitsForAll ==
    (\E q \in Terminators : termPC[q] = "done") =>
        /\ runPC = "exited"
        /\ \A t \in Tasks : submitted[t] = "true" => \E i \in DOMAIN taken : taken[i] = t

(* Some Submit is waiting for the write lock that a resize needs. *)
Resizing == \E t \in Tasks : subPC[t] = "wlock"

(* A Submit, and an AwaitTermination, returns unless it is caught behind a *)
(* resize.                                                                 *)
CallsReturnUnlessResizing ==
    /\ \A t \in Tasks : (subPC[t] = "check") ~> (subPC[t] = "done" \/ Resizing)
    /\ \A q \in Terminators : (termPC[q] = "wlock") ~> (termPC[q] = "done" \/ Resizing)
=============================================================================
