----------------------------- MODULE Lifecycle -----------------------------
(***************************************************************************)
(* The life cycle shared by every publisher (basicMessagePublisher) and,   *)
(* line for line, by every receiver (basicMessageReceiver): any number of  *)
(* goroutines call Start and Terminate, and a down event starts an         *)
(* unsolicited termination on a goroutine of its own.  What Start and      *)
(* Terminate do between starting()/started() and terminate()/terminated()  *)
(* is one step here; DirectPublisher opens up Terminate.                   *)
(***************************************************************************)
EXTENDS Naturals, FiniteSets

CONSTANTS
    Starters,     \* goroutines that call Start
    Terminators,  \* goroutines that call Terminate
    Down          \* the goroutine of unsolicitedTermination

ASSUME LifecycleAssumption ==
    Starters \cap Terminators = {} /\ Down \notin Starters \cup Terminators

VARIABLES
    state,        \* state, read and written atomically
    startFuture,  \* startFuture
    termFuture,   \* terminateFuture
    parent,       \* internalPublisher.IsRunning
    handler,      \* the down event handler is registered
    pc,           \* where each goroutine is
    ret,          \* what its call returned
    outcome       \* the error the terminating goroutine computed

vars == <<state, startFuture, termFuture, parent, handler, pc, ret, outcome>>

Enders == Terminators \cup {Down}
Procs  == Starters \cup Enders

Init ==
    /\ state = "NotStarted"
    /\ startFuture = "pending" /\ termFuture = "pending"
    /\ parent = "idle" /\ handler = FALSE
    /\ pc = [p \in Procs |-> "idle"]
    /\ ret = [p \in Procs |-> "none"]
    /\ outcome = "nil"

Goto(p, l) == pc' = [pc EXCEPT ![p] = l] /\ UNCHANGED ret

Return(p, r) == pc' = [pc EXCEPT ![p] = "done"] /\ ret' = [ret EXCEPT ![p] = r]

IsEnding(s) == s \in {"Terminating", "Terminated"}

-----------------------------------------------------------------------------
(* Start                                                                   *)

checkStartupStateAndWait(p, current) ==
    IF IsEnding(current) THEN Return(p, "illegal") ELSE Goto(p, "startWait")

(* starting(): read the state ... *)
StartRead(p) ==
    /\ pc[p] = "idle"
    /\ IF state = "NotStarted" THEN Goto(p, "parent") ELSE checkStartupStateAndWait(p, state)
    /\ UNCHANGED <<state, startFuture, termFuture, parent, handler, outcome>>

(* ... check that the service runs ... *)
StartCheckParent(p) ==
    /\ pc[p] = "parent"
    /\ IF parent = "running" THEN Goto(p, "cas") ELSE Return(p, "notRunning")
    /\ UNCHANGED <<state, startFuture, termFuture, parent, handler, outcome>>

(* Mutant: the swap replaced by a test of the value read before. *)
MayStart_NoSwap == state \in {"NotStarted", "Starting"}
MayStart == state = "NotStarted"

(* ... and swap NotStarted for Starting, or look again at what it is. *)
StartSwap(p) ==
    /\ pc[p] = "cas"
    /\ IF MayStart
       THEN state' = "Starting" /\ Goto(p, "register")
       ELSE Goto(p, "recheck") /\ UNCHANGED state
    /\ UNCHANGED <<startFuture, termFuture, parent, handler, outcome>>

StartRecheck(p) ==
    /\ pc[p] = "recheck"
    /\ checkStartupStateAndWait(p, state)
    /\ UNCHANGED <<state, startFuture, termFuture, parent, handler, outcome>>

(* The body of Start begins by registering for down events. *)
StartRegister(p) ==
    /\ pc[p] = "register"
    /\ handler' = TRUE
    /\ Goto(p, "body")
    /\ UNCHANGED <<state, startFuture, termFuture, parent, outcome>>

(* started(nil) stores the state, then completes the future. *)
StartOk(p) ==
    /\ pc[p] = "body"
    /\ state' = "Started"
    /\ Goto(p, "started")
    /\ UNCHANGED <<startFuture, termFuture, parent, handler, outcome>>

StartCompleteOk(p) ==
    /\ pc[p] = "started"
    /\ startFuture' = "nil"
    /\ Return(p, "nil")
    /\ UNCHANGED <<state, termFuture, parent, handler, outcome>>

(* A Start that fails unregisters and calls terminated(nil) itself. *)
StartFail(p) ==
    /\ pc[p] = "body"
    /\ handler' = FALSE
    /\ state' = "Terminated"
    /\ Goto(p, "failed")
    /\ UNCHANGED <<startFuture, termFuture, parent, outcome>>

StartFailComplete(p) ==
    /\ pc[p] = "failed"
    /\ termFuture' = "nil"
    /\ Goto(p, "failedStart")
    /\ UNCHANGED <<state, startFuture, parent, handler, outcome>>

(* Mutant: a failed Start leaves startFuture unresolved. *)
StartFailReturn_NoComplete(p) ==
    /\ pc[p] = "failedStart"
    /\ Return(p, "err")
    /\ UNCHANGED <<state, startFuture, termFuture, parent, handler, outcome>>
StartFailReturn(p) ==
    /\ pc[p] = "failedStart"
    /\ startFuture' = "err"
    /\ Return(p, "err")
    /\ UNCHANGED <<state, termFuture, parent, handler, outcome>>

(* startFuture.Get: the condition of its wait loop. *)
Resolved(f) == f # "pending"

StartWait(p) ==
    /\ pc[p] = "startWait" /\ Resolved(startFuture)
    /\ Return(p, startFuture)
    /\ UNCHANGED <<state, startFuture, termFuture, parent, handler, outcome>>

-----------------------------------------------------------------------------
(* Terminate and unsolicitedTermination                                    *)

(* Mutant: a second Terminate does not wait for the first. *)
checkTerminateStateAndWait_NoWait(p, current) ==
    IF IsEnding(current) THEN Return(p, "nil") ELSE Return(p, "illegal")
checkTerminateStateAndWait(p, current) ==
    IF IsEnding(current) THEN Goto(p, "termWait") ELSE Return(p, "illegal")

(* A down event runs the registered handler, which starts a goroutine; a   *)
(* second event finds the first one's goroutine at work or done.           *)
DownEvent ==
    /\ handler /\ pc[Down] \in {"idle", "done"}
    /\ Goto(Down, "swap")
    /\ UNCHANGED <<state, startFuture, termFuture, parent, handler, outcome>>

(* The service connects, and when it closes its transport it forgets every *)
(* handler and stops the core publisher and receiver.                      *)
ParentStart ==
    /\ parent = "idle" /\ parent' = "running"
    /\ UNCHANGED <<state, startFuture, termFuture, handler, pc, ret, outcome>>

EventsTerminate ==
    /\ handler' = FALSE
    /\ UNCHANGED <<state, startFuture, termFuture, parent, pc, ret, outcome>>

ParentStop ==
    /\ parent' = "stopped"
    /\ UNCHANGED <<state, startFuture, termFuture, handler, pc, ret, outcome>>

Parent == DownEvent \/ ParentStart \/ EventsTerminate \/ ParentStop

TerminateCall(p) ==
    /\ p # Down /\ pc[p] = "idle"
    /\ Goto(p, "swap")
    /\ UNCHANGED <<state, startFuture, termFuture, parent, handler, outcome>>

(* Mutant: termination is allowed to overtake a Start. *)
MayTerminate_Early == state \in {"Starting", "Started"}
MayTerminate == state = "Started"

(* terminate(): swap Started for Terminating ... *)
TerminateSwap(p) ==
    /\ pc[p] = "swap"
    /\ IF MayTerminate
       THEN state' = "Terminating" /\ Goto(p, "work")
       ELSE Goto(p, "read") /\ UNCHANGED state
    /\ UNCHANGED <<startFuture, termFuture, parent, handler, outcome>>

(* ... or find out why not ... *)
TerminateRead(p) ==
    /\ pc[p] = "read"
    /\ IF state = "NotStarted" THEN Goto(p, "swapUnstarted")
       ELSE checkTerminateStateAndWait(p, state)
    /\ UNCHANGED <<state, startFuture, termFuture, parent, handler, outcome>>

(* ... and end an unstarted instance at once.  When this second swap fails *)
(* the state that was read before it, NotStarted, is what is checked.      *)
TerminateUnstarted(p) ==
    /\ pc[p] = "swapUnstarted"
    /\ IF state = "NotStarted"
       THEN state' = "Terminated" /\ Goto(p, "unstarted")
       ELSE checkTerminateStateAndWait(p, "NotStarted") /\ UNCHANGED state
    /\ UNCHANGED <<startFuture, termFuture, parent, handler, outcome>>

TerminateUnstartedComplete(p) ==
    /\ pc[p] = "unstarted"
    /\ termFuture' = "nil"
    /\ Return(p, "nil")
    /\ UNCHANGED <<state, startFuture, parent, handler, outcome>>

(* The body of Terminate (or unsolicitedTermination): it unregisters the   *)
(* handler, and ends with nil or an IncompleteMessageDeliveryError.        *)
TerminateWork(p) ==
    /\ pc[p] = "work"
    /\ handler' = FALSE
    /\ outcome' \in {"nil", "err"}
    /\ Goto(p, "terminated")
    /\ UNCHANGED <<state, startFuture, termFuture, parent>>

(* terminated(err) stores the state, then completes the future. *)
TerminateStore(p) ==
    /\ pc[p] = "terminated"
    /\ state' = "Terminated"
    /\ Goto(p, "complete")
    /\ UNCHANGED <<startFuture, termFuture, parent, handler, outcome>>

TerminateComplete(p) ==
    /\ pc[p] = "complete"
    /\ termFuture' = outcome
    /\ Return(p, outcome)
    /\ UNCHANGED <<state, startFuture, parent, handler, outcome>>

(* terminateFuture.Get *)
TerminateWait(p) ==
    /\ pc[p] = "termWait" /\ Resolved(termFuture)
    /\ Return(p, termFuture)
    /\ UNCHANGED <<state, startFuture, termFuture, parent, handler, outcome>>

-----------------------------------------------------------------------------
Start(p) ==
    \/ StartRead(p) \/ StartCheckParent(p) \/ StartSwap(p) \/ StartRecheck(p)
    \/ StartRegister(p) \/ StartOk(p) \/ StartCompleteOk(p)
    \/ StartFail(p) \/ StartFailComplete(p) \/ StartFailReturn(p) \/ StartWait(p)

Terminate(p) ==
    \/ TerminateCall(p) \/ TerminateSwap(p) \/ TerminateRead(p) \/ TerminateUnstarted(p)
    \/ TerminateUnstartedComplete(p) \/ TerminateWork(p) \/ TerminateStore(p)
    \/ TerminateComplete(p) \/ TerminateWait(p)

Next ==
    \/ \E p \in Starters : Start(p)
    \/ \E p \in Enders : Terminate(p)
    \/ Parent

Spec == Init /\ [][Next]_vars

(* A call once made runs on; nobody is obliged to call. *)
FairSpec ==
    /\ Spec
    /\ \A p \in Starters : WF_vars(Start(p) /\ pc[p] # "idle")
    /\ \A p \in Enders : WF_vars(Terminate(p) /\ pc[p] # "idle")

-----------------------------------------------------------------------------
States == {"NotStarted", "Starting", "Started", "Terminating", "Terminated"}
StartPCs == {"parent", "cas", "recheck", "register", "body", "started", "failed",
             "failedStart", "startWait"}
EndPCs == {"swap", "read", "swapUnstarted", "unstarted", "work", "terminated",
           "complete", "termWait"}

(* Every variable has its type. *)
TypeOK ==
    /\ state \in States
    /\ startFuture \in {"pending", "nil", "err"} /\ termFuture \in {"pending", "nil", "err"}
    /\ parent \in {"idle", "running", "stopped"} /\ handler \in BOOLEAN
    /\ pc \in [Procs -> {"idle", "done"} \cup StartPCs \cup EndPCs]
    /\ ret \in [Procs -> {"none", "nil", "err", "illegal", "notRunning"}]
    /\ outcome \in {"nil", "err"}

Rank(s) == CASE s = "NotStarted" -> 0 [] s = "Starting" -> 1 [] s = "Started" -> 2
             [] s = "Terminating" -> 3 [] OTHER -> 4

(* The state only moves forward: no late store of started() or of a failed *)
(* Start revives or restarts an instance.                                  *)
StateOnlyAdvances == [][Rank(state') >= Rank(state)]_vars

StartingPCs == {"register", "body"}
EndingPCs   == {"work", "terminated"}
Owners      == {p \in Procs : pc[p] \in StartingPCs \cup EndingPCs}

(* Of all concurrent callers one runs the body of Start, later one runs    *)
(* the body of Terminate, and never two bodies at once: the channels those *)
(* bodies close are closed once.                                           *)
OneOwner ==
    /\ \A p, q \in Owners : p = q
    /\ \A p \in Owners : IF pc[p] \in StartingPCs THEN state = "Starting"
                                                  ELSE state = "Terminating"

(* A Terminate that returns something other than an IllegalStateError      *)
(* returns only once the instance is Terminated, whoever terminated it.    *)
TerminateReturnsAfterTermination ==
    \A p \in Enders : ret[p] \in {"nil", "err"} => state = "Terminated"

(* Nobody waits for ever on a future: every call returns. *)
CallsReturn == \A p \in Procs : (pc[p] # "idle") ~> (pc[p] = "done")
=============================================================================
