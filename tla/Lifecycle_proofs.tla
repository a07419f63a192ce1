-------------------------- MODULE Lifecycle_proofs --------------------------
(***************************************************************************)
(* Lifecycle's safety properties for any number of callers, and those of   *)
(* the service that runs it for any number of goroutines that connect and  *)
(* disconnect.                                                             *)
(***************************************************************************)
EXTENDS Service, TLAPS

(* Every goroutine is somewhere in the operation it calls. *)
RoleOK ==
    /\ \A p \in Starters : pc[p] \in {"idle", "done"} \cup StartPCs
    /\ \A p \in Enders : pc[p] \in {"idle", "done"} \cup EndPCs

(* Whoever has passed terminated()'s store, or sees its effect, finds the  *)
(* instance Terminated.                                                    *)
EndedPCs == {"complete", "unstarted", "failed", "failedStart"}
EndedOK ==
    /\ \A p \in Procs : pc[p] \in EndedPCs => state = "Terminated"
    /\ termFuture # "pending" => state = "Terminated"

Inv == TypeOK /\ RoleOK /\ OneOwner /\ EndedOK /\ TerminateReturnsAfterTermination

-----------------------------------------------------------------------------
(* Every state construct leaves satisfies the invariant. *)
LEMMA InitInv == Init => Inv
  BY DEF Init, Inv, TypeOK, RoleOK, OneOwner, Owners, StartingPCs, EndingPCs, EndedOK,
         EndedPCs, TerminateReturnsAfterTermination, Procs, Enders, States

(* Every step of Start keeps the invariant. *)
LEMMA StartInv == ASSUME Inv, NEW p \in Starters, Start(p) PROVE Inv'
  <1> USE LifecycleAssumption
          DEF Inv, TypeOK, RoleOK, OneOwner, Owners, StartingPCs, EndingPCs, EndedOK,
              EndedPCs, TerminateReturnsAfterTermination, Procs, Enders, States, StartPCs,
              EndPCs, Goto, Return, IsEnding
  <1>1. CASE StartRead(p)
    BY <1>1 DEF StartRead, checkStartupStateAndWait
  <1>2. CASE StartCheckParent(p)
    BY <1>2 DEF StartCheckParent
  <1>3. CASE StartSwap(p)
    BY <1>3 DEF StartSwap, MayStart
  <1>4. CASE StartRecheck(p)
    BY <1>4 DEF StartRecheck, checkStartupStateAndWait
  <1>5. CASE StartRegister(p)
    BY <1>5 DEF StartRegister
  <1>6. CASE StartOk(p)
    BY <1>6 DEF StartOk
  <1>7. CASE StartCompleteOk(p)
    BY <1>7 DEF StartCompleteOk
  <1>8. CASE StartFail(p)
    <2>1. \A q \in Procs : q # p => pc[q] \notin StartingPCs \cup EndingPCs
      BY <1>8 DEF StartFail
    <2>2. pc' = [pc EXCEPT ![p] = "failed"] /\ state' = "Terminated" /\ p \in Procs
      BY <1>8 DEF StartFail
    <2>3. Owners' = {}
      BY <2>1, <2>2
    <2>4. OneOwner'
      BY <2>3
    <2>5. TypeOK' /\ RoleOK'
      BY <1>8, <2>2 DEF StartFail
    <2>6. EndedOK' /\ TerminateReturnsAfterTermination'
      BY <2>2
    <2> QED
      BY <2>4, <2>5, <2>6
  <1>9. CASE StartFailComplete(p)
    BY <1>9 DEF StartFailComplete
  <1>10. CASE StartFailReturn(p)
    BY <1>10 DEF StartFailReturn
  <1>11. CASE StartWait(p)
    BY <1>11 DEF StartWait, Resolved
  <1> QED
    BY <1>1, <1>2, <1>3, <1>4, <1>5, <1>6, <1>7, <1>8, <1>9, <1>10, <1>11 DEF Start

(* Every step of Terminate, and of the down goroutine, keeps it. *)
LEMMA TerminateInv == ASSUME Inv, NEW p \in Enders, Terminate(p) PROVE Inv'
  <1> USE LifecycleAssumption
          DEF Inv, TypeOK, RoleOK, OneOwner, Owners, StartingPCs, EndingPCs, EndedOK,
              EndedPCs, TerminateReturnsAfterTermination, Procs, Enders, States, StartPCs,
              EndPCs, Goto, Return, IsEnding
  <1>1. CASE TerminateCall(p)
    BY <1>1 DEF TerminateCall
  <1>2. CASE TerminateSwap(p)
    BY <1>2 DEF TerminateSwap, MayTerminate
  <1>3. CASE TerminateRead(p)
    BY <1>3 DEF TerminateRead, checkTerminateStateAndWait
  <1>4. CASE TerminateUnstarted(p)
    BY <1>4 DEF TerminateUnstarted, checkTerminateStateAndWait
  <1>5. CASE TerminateUnstartedComplete(p)
    BY <1>5 DEF TerminateUnstartedComplete
  <1>6. CASE TerminateWork(p)
    <2>1. pc' = [pc EXCEPT ![p] = "terminated"] /\ pc[p] = "work" /\ p \in Procs
      BY <1>6 DEF TerminateWork
    <2>2. Owners' = Owners
      BY <2>1
    <2>3. \A q \in Owners : q = p
      BY <2>1
    <2>4. OneOwner'
      BY <1>6, <2>1, <2>2, <2>3 DEF TerminateWork
    <2> QED
      BY <1>6, <2>1, <2>4 DEF TerminateWork
  <1>7. CASE TerminateStore(p)
    <2>1. \A q \in Procs : q # p => pc[q] \notin StartingPCs \cup EndingPCs
      BY <1>7 DEF TerminateStore
    <2>2. pc' = [pc EXCEPT ![p] = "complete"] /\ state' = "Terminated" /\ p \in Procs
      BY <1>7 DEF TerminateStore
    <2>3. Owners' = {}
      BY <2>1, <2>2
    <2>4. OneOwner'
      BY <2>3
    <2> QED
      BY <1>7, <2>2, <2>4 DEF TerminateStore
  <1>8. CASE TerminateComplete(p)
    BY <1>8 DEF TerminateComplete
  <1>9. CASE TerminateWait(p)
    BY <1>9 DEF TerminateWait, Resolved
  <1> QED
    BY <1>1, <1>2, <1>3, <1>4, <1>5, <1>6, <1>7, <1>8, <1>9 DEF Terminate

(* What the service does, and a step that changes nothing, keep it. *)
LEMMA OtherInv == ASSUME Inv, Parent \/ UNCHANGED vars PROVE Inv'
  <1> USE LifecycleAssumption
          DEF Inv, TypeOK, RoleOK, OneOwner, Owners, StartingPCs, EndingPCs, EndedOK,
              EndedPCs, TerminateReturnsAfterTermination, Procs, Enders, States, StartPCs,
              EndPCs, Goto
  <1>1. CASE DownEvent
    BY <1>1 DEF DownEvent
  <1>2. CASE ParentStart
    BY <1>2 DEF ParentStart
  <1>3. CASE EventsTerminate
    BY <1>3 DEF EventsTerminate
  <1>4. CASE ParentStop
    BY <1>4 DEF ParentStop
  <1>5. CASE UNCHANGED vars
    BY <1>5 DEF vars
  <1> QED
    BY <1>1, <1>2, <1>3, <1>4, <1>5 DEF Parent

(* No step takes the state back. *)
LEMMA NextAdvances == ASSUME Inv, [Next]_vars PROVE Rank(state') >= Rank(state)
  <1> USE LifecycleAssumption DEF Inv, TypeOK, States, Rank, IsEnding
  <1>1. ASSUME NEW p \in Starters, Start(p) PROVE Rank(state') >= Rank(state)
    <2>1. CASE StartFail(p) \/ StartOk(p) \/ StartSwap(p)
      <3>1. pc[p] = "body" => state = "Starting"
        BY DEF OneOwner, Owners, StartingPCs, EndingPCs, Procs
      <3> QED
        BY <2>1, <3>1 DEF StartFail, StartOk, StartSwap, MayStart
    <2>2. CASE UNCHANGED state
      BY <2>2
    <2> QED
      BY <1>1, <2>1, <2>2
         DEF Start, StartRead, StartCheckParent, StartRecheck, StartRegister,
             StartCompleteOk, StartFailComplete, StartFailReturn, StartWait
  <1>2. ASSUME NEW p \in Enders, Terminate(p) PROVE Rank(state') >= Rank(state)
    <2>1. CASE TerminateSwap(p) \/ TerminateUnstarted(p) \/ TerminateStore(p)
      BY <2>1 DEF TerminateSwap, MayTerminate, TerminateUnstarted, TerminateStore
    <2>2. CASE UNCHANGED state
      BY <2>2
    <2> QED
      BY <1>2, <2>1, <2>2
         DEF Terminate, TerminateCall, TerminateRead, TerminateUnstartedComplete,
             TerminateWork, TerminateComplete, TerminateWait
  <1>3. CASE Parent \/ UNCHANGED vars
    BY <1>3 DEF Parent, DownEvent, ParentStart, EventsTerminate, ParentStop, vars
  <1> QED
    BY <1>1, <1>2, <1>3 DEF Next

-----------------------------------------------------------------------------
(* The invariant holds of every reachable state. *)
THEOREM Invariance == Spec => []Inv
  <1>1. Inv /\ [Next]_vars => Inv'
    BY StartInv, TerminateInv, OtherInv DEF Next
  <1> QED
    BY InitInv, <1>1, PTL DEF Spec

(* Every variable has its type, whatever the number of callers. *)
THEOREM TypeCorrect == Spec => []TypeOK
  <1>1. Inv => TypeOK
    BY DEF Inv
  <1> QED
    BY Invariance, <1>1, PTL

(* At most one goroutine is in the body of Start or of Terminate, so the   *)
(* channels those bodies close are closed once.                            *)
THEOREM BodiesExclude == Spec => []OneOwner
  <1>1. Inv => OneOwner
    BY DEF Inv
  <1> QED
    BY Invariance, <1>1, PTL

(* Terminate reports an outcome only of a terminated instance. *)
THEOREM TerminateWaits == Spec => []TerminateReturnsAfterTermination
  <1>1. Inv => TerminateReturnsAfterTermination
    BY DEF Inv
  <1> QED
    BY Invariance, <1>1, PTL

(* The state never goes back. *)
THEOREM Advances == Spec => StateOnlyAdvances
  <1>1. Inv /\ [Next]_vars => [Rank(state') >= Rank(state)]_vars
    BY NextAdvances
  <1> QED
    BY Invariance, <1>1, PTL DEF Spec, StateOnlyAdvances

-----------------------------------------------------------------------------
(***************************************************************************)
(* The service                                                             *)
(***************************************************************************)
ConnectingPCs == {"connect", "events", "components", "register", "connected", "failed",
                  "failedStore"}
BeforeClose   == {"unregister", "clean", "disconnect", "emit"}
ClosingPCs    == BeforeClose \cup {"close", "closeErr", "stop", "stopErr", "destroy", "destroyErr"}
ClosedPCs     == {"store", "storeErr", "complete", "completeErr"}
Closers       == Disconnectors \cup {Closer}
Ended         == {"Disconnecting", "Disconnected"}

(* Where the goroutines of each kind can be.                               *)
ServiceTypes ==
    /\ DOMAIN spc = Goroutines /\ DOMAIN sret = Goroutines
    /\ \A g \in Connectors :
          spc[g] \in {"idle", "read", "wait", "complete", "failedComplete", "done"} \cup ConnectingPCs
    /\ \A g \in Disconnectors :
          spc[g] \in {"idle", "read", "wait", "done"} \cup ClosingPCs \cup ClosedPCs
    /\ spc[Closer] \in {"idle", "unregister", "close", "stop", "destroy", "store", "done"}
    /\ closes \in Nat
    /\ service \in {"NotConnected", "Connecting", "Connected"} \cup Ended

(* One goroutine connects the service, and later one closes it.            *)
OneConnects ==
    /\ \A g \in Connectors : spc[g] \in ConnectingPCs => service = "Connecting"
    /\ \A g, h \in Connectors : spc[g] \in ConnectingPCs /\ spc[h] \in ConnectingPCs => g = h

OneCloses ==
    /\ \A g, h \in Closers :
          spc[g] \in ClosingPCs \cup ClosedPCs /\ spc[h] \in ClosingPCs \cup ClosedPCs => g = h
    /\ service \notin Ended =>
          /\ closes = 0 /\ disconnectFuture = "pending" /\ spc[Closer] = "idle"
          /\ \A g \in Closers : spc[g] \notin ClosingPCs \cup ClosedPCs
    /\ \A g \in Closers : spc[g] \in ClosingPCs => closes = 0
    /\ \A g \in Closers : spc[g] \in ClosedPCs => closes = 1
    /\ closes <= 1 /\ (closes = 1 <=> session = "destroyed")

(* Until the event table is emptied, a started child is registered in it.  *)
Alive == service \notin Ended \/ \E g \in Closers : spc[g] \in BeforeClose \cup {"close", "closeErr"}
InTable == /\ state = "Started" => handler
           /\ \A p \in Starters : pc[p] = "body" => handler
Registered == Alive => InTable

(* The child that was up has heard of the shutdown once the event is out.  *)
ChildHeard == pc[Down] # "idle" \/ IsEnding(state)
Informed ==
    childUp => /\ state = "Started" \/ IsEnding(state)
               /\ spc[Closer] # "idle" => ChildHeard
               /\ \A g \in Disconnectors :
                     spc[g] \in {"close", "stop", "destroy", "store", "complete"} => ChildHeard
               /\ disconnectFuture = "nil" => ChildHeard

ServiceInv == ServiceTypes /\ OneConnects /\ OneCloses /\ Registered /\ Informed

-----------------------------------------------------------------------------
(* A step of the service's own goroutines is for the child one of its      *)
(* parent's steps or none at all.                                          *)
LEMMA ConnectRefines == ASSUME NEW g, Connect(g) PROVE ParentStart \/ UNCHANGED vars
BY DEF Connect, ConnectSwap, ConnectRead, ConnectWait, TransportConnect, TransportStartEvents,
       TransportStart, ConnectRegister, ConnectFailed, ConnectStore, ConnectComplete

(* Closing the transport takes the child out of the event table, or stops  *)
(* the components it depends on.                                           *)
LEMMA CloseRefines == ASSUME NEW g, Close(g) PROVE EventsTerminate \/ ParentStop \/ UNCHANGED vars
BY DEF Close, unregisterEventHandlers, CloseEvents, CloseComponents, CloseSession,
       DisconnectComplete

(* Disconnect emits the down event to the child and closes.                *)
LEMMA DisconnectRefines == ASSUME NEW g, Disconnect(g) PROVE Parent \/ UNCHANGED vars
<1>1. CASE TransportEmit(g)
  BY <1>1 DEF TransportEmit, emitEvent, ChildHears, Parent
<1>2. CASE Close(g)
  BY <1>2, CloseRefines DEF Parent
<1>3. QED
  BY <1>1, <1>2
     DEF Disconnect, DisconnectSwap, DisconnectRead, DisconnectWait, cleanupListeners,
         TransportDisconnect, DisconnectStore

(* So every step of the service is one of the child's, or a stutter.       *)
LEMMA ServiceStepRefines == ASSUME [ServiceNext]_allVars PROVE [Next]_vars
<1>1. CASE \E g \in Connectors : Connect(g)
  BY <1>1, ConnectRefines DEF Next, Parent
<1>2. CASE \E g \in Disconnectors : Disconnect(g)
  BY <1>2, DisconnectRefines DEF Next
<1>3. CASE Close(Closer)
  BY <1>3, CloseRefines DEF Next, Parent
<1>4. CASE Notify
  BY <1>4 DEF Notify, NotifyLock, NotifyOne, NotifyDone, cleanupListeners
<1>5. CASE SessionDown
  BY <1>5 DEF SessionDown, ChildHears, Next, Parent
<1>6. CASE \E l \in Listeners : AddListener(l) \/ RemoveListener(l)
  BY <1>6 DEF AddListener, RemoveListener
<1>7. CASE ChildCalls
  BY <1>7 DEF ChildCalls, Next
<1>8. CASE UNCHANGED allVars
  BY <1>8 DEF allVars
<1>9. QED BY <1>1, <1>2, <1>3, <1>4, <1>5, <1>6, <1>7, <1>8 DEF ServiceNext

(* Service composes with Lifecycle and adds nothing to it: the invariants  *)
(* proved above may be used here.                                          *)
LEMMA LifecycleHolds == ServiceSpec => Spec
<1>1. ServiceInit => Init
  BY DEF ServiceInit
<1>2. [ServiceNext]_allVars => [Next]_vars
  BY ServiceStepRefines
<1>3. QED BY <1>1, <1>2, PTL DEF ServiceSpec, Spec

-----------------------------------------------------------------------------
(* The child never forgets that it heard of a shutdown.                    *)
LEMMA HeardStays ==
    ASSUME Inv, [Next]_vars
    PROVE  /\ ChildHeard => ChildHeard'
           /\ state = "Started" \/ IsEnding(state) => state' = "Started" \/ IsEnding(state')
<1>1. Rank(state') >= Rank(state) /\ Inv'
  BY NextAdvances, StartInv, TerminateInv, OtherInv DEF Next
<1>2. /\ IsEnding(state) => IsEnding(state')
      /\ state = "Started" \/ IsEnding(state) => state' = "Started" \/ IsEnding(state')
  BY <1>1 DEF Rank, IsEnding, Inv, TypeOK, States
<1>3. pc[Down] # "idle" => pc'[Down] # "idle"
  <2> USE LifecycleAssumption DEF Inv, TypeOK, Procs, Enders, Goto, Return
  <2>1. ASSUME NEW p \in Starters, Start(p) PROVE pc'[Down] = pc[Down]
    BY <2>1 DEF Start, StartRead, StartCheckParent, StartSwap, StartRecheck, StartRegister,
       StartOk, StartCompleteOk, StartFail, StartFailComplete, StartFailReturn, StartWait,
       checkStartupStateAndWait
  <2>2. ASSUME NEW p \in Enders, Terminate(p), pc[Down] # "idle" PROVE pc'[Down] # "idle"
    BY <2>2 DEF Terminate, TerminateCall, TerminateSwap, TerminateRead, TerminateUnstarted,
       TerminateUnstartedComplete, TerminateWork, TerminateStore, TerminateComplete,
       TerminateWait, checkTerminateStateAndWait
  <2>3. CASE Parent \/ UNCHANGED vars
    BY <2>3 DEF Parent, DownEvent, ParentStart, EventsTerminate, ParentStop, vars
  <2>4. QED BY <2>1, <2>2, <2>3 DEF Next
<1>4. QED BY <1>2, <1>3 DEF ChildHeard

(* Only the emptying of the event table takes a started child out of it.   *)
LEMMA InTableStays ==
    ASSUME Inv, InTable,
           \/ \E p \in Starters : Start(p)
           \/ \E p \in Enders : Terminate(p)
           \/ DownEvent \/ ParentStart \/ ParentStop \/ UNCHANGED vars
    PROVE  InTable'
<1> USE LifecycleAssumption DEF Inv, TypeOK, Procs, Enders, Goto, Return, InTable
<1>1. ASSUME NEW p \in Starters, Start(p) PROVE InTable'
  <2>1. CASE StartFail(p)
    <3>1. \A q \in Starters : q # p => pc[q] # "body"
      BY <2>1 DEF StartFail, OneOwner, Owners, StartingPCs, EndingPCs
    <3>2. QED BY <2>1, <3>1 DEF StartFail
  <2>2. QED
    BY <1>1, <2>1 DEF Start, StartRead, StartCheckParent, StartSwap, StartRecheck, StartRegister,
       StartOk, StartCompleteOk, StartFailComplete, StartFailReturn, StartWait,
       checkStartupStateAndWait
<1>2. ASSUME NEW p \in Enders, Terminate(p) PROVE InTable'
  <2>1. CASE TerminateWork(p)
    <3>1. state = "Terminating" /\ \A q \in Starters : pc[q] # "body"
      BY <2>1 DEF TerminateWork, OneOwner, Owners, StartingPCs, EndingPCs
    <3>2. QED BY <2>1, <3>1 DEF TerminateWork
  <2>2. QED
    BY <1>2, <2>1 DEF Terminate, TerminateCall, TerminateSwap, TerminateRead, TerminateUnstarted,
       TerminateUnstartedComplete, TerminateStore, TerminateComplete,
       TerminateWait, checkTerminateStateAndWait
<1>3. CASE DownEvent \/ ParentStart \/ ParentStop \/ UNCHANGED vars
  BY <1>3 DEF DownEvent, ParentStart, ParentStop, vars
<1>4. QED BY <1>1, <1>2, <1>3

(* Connect: the goroutine that wins the swap is alone until it has stored  *)
(* Connected.                                                              *)
LEMMA ConnectKeeps ==
    ASSUME ServiceInv, Inv, NEW g \in Connectors, Connect(g)
    PROVE  ServiceInv'
<1> USE ServiceAssumption DEF Goroutines, Callers, Closers, At, Move, Finish
<1>1. ParentStart \/ UNCHANGED vars
  BY ConnectRefines
<1>2. UNCHANGED <<disconnectFuture, closes, childUp>>
  BY DEF Connect, ConnectSwap, ConnectRead, ConnectWait, TransportConnect, TransportStartEvents,
         TransportStart, ConnectRegister, ConnectFailed, ConnectStore, ConnectComplete,
         serviceState, transport
<1>3. /\ DOMAIN spc' = Goroutines /\ DOMAIN sret' = Goroutines
      /\ \A h \in Goroutines \ {g} : spc'[h] = spc[h]
  BY DEF Connect, ConnectSwap, ConnectRead, ConnectWait, TransportConnect, TransportStartEvents,
         TransportStart, ConnectRegister, ConnectFailed, ConnectStore, ConnectComplete,
         ServiceInv, ServiceTypes
<1>4. \A h \in Closers : h \in Goroutines \ {g}
  OBVIOUS
<1>5. /\ service' \in Ended <=> service \in Ended
      /\ session' = session \/ (session' = "up" /\ service = "Connecting")
  BY DEF Connect, ConnectSwap, ConnectRead, ConnectWait, TransportConnect, TransportStartEvents,
         TransportStart, ConnectRegister, ConnectFailed, ConnectStore, ConnectComplete,
         serviceState, transport, ServiceInv, OneConnects, ConnectingPCs, Ended
<1>6. ServiceTypes'
  <2>1. spc'[g] \in {"idle", "read", "wait", "complete", "failedComplete", "done"} \cup ConnectingPCs
    BY DEF Connect, ConnectSwap, ConnectRead, ConnectWait, TransportConnect, TransportStartEvents,
         TransportStart, ConnectRegister, ConnectFailed, ConnectStore, ConnectComplete,
         ServiceInv, ServiceTypes, ConnectingPCs
  <2>2. service' \in {"NotConnected", "Connecting", "Connected"} \cup Ended
    BY DEF Connect, ConnectSwap, ConnectRead, ConnectWait, TransportConnect, TransportStartEvents,
         TransportStart, ConnectRegister, ConnectFailed, ConnectStore, ConnectComplete,
         serviceState, ServiceInv, ServiceTypes
  <2>3. QED BY <1>2, <1>3, <1>4, <2>1, <2>2 DEF ServiceInv, ServiceTypes
<1>7. OneConnects'
  <2>1. CASE ConnectSwap(g)
    BY <1>3, <2>1 DEF ConnectSwap, ServiceInv, OneConnects, ConnectingPCs, ServiceTypes
  <2>2. CASE ConnectStore(g)
    BY <1>3, <2>2 DEF ConnectStore, ServiceInv, OneConnects, ConnectingPCs, ServiceTypes
  <2>3. CASE UNCHANGED service /\ (spc'[g] \in ConnectingPCs => spc[g] \in ConnectingPCs)
    BY <1>3, <2>3 DEF ServiceInv, OneConnects
  <2>4. QED
    BY <2>1, <2>2, <2>3
       DEF Connect, ConnectRead, ConnectWait, TransportConnect, TransportStartEvents,
           TransportStart, ConnectRegister, ConnectFailed, ConnectComplete, serviceState,
           ServiceInv, ServiceTypes, ConnectingPCs
<1>8. OneCloses'
  <2>1. service = "Connecting" => closes = 0 /\ session # "destroyed"
    BY DEF ServiceInv, OneCloses, Ended
  <2>2. QED BY <1>2, <1>3, <1>4, <1>5, <2>1 DEF ServiceInv, OneCloses
<1>9. Registered'
  <2>1. Alive' <=> Alive
    BY <1>3, <1>4, <1>5 DEF Alive
  <2>2. QED BY <1>1, <2>1, InTableStays DEF ServiceInv, Registered
<1>10. Informed'
  <2>1. UNCHANGED <<state, pc>>
    BY <1>1 DEF ParentStart, vars
  <2>2. QED BY <1>2, <1>3, <1>4, <2>1 DEF ServiceInv, Informed, ChildHeard, IsEnding
<1>11. QED BY <1>6, <1>7, <1>8, <1>9, <1>10 DEF ServiceInv

(* A step that leaves the service's goroutines where they are.             *)
LEMMA ChildKeeps ==
    ASSUME ServiceInv, Inv, ChildCalls \/ UNCHANGED allVars
    PROVE  ServiceInv'
<1>1. UNCHANGED svars
  BY DEF ChildCalls, allVars
<1>2. ServiceTypes' /\ OneConnects' /\ OneCloses'
  BY <1>1 DEF svars, serviceState, transport, calls, ServiceInv, ServiceTypes, OneConnects, OneCloses
<1>3. Registered'
  <2>1. Alive' <=> Alive
    BY <1>1 DEF svars, serviceState, calls, Alive
  <2>2. QED BY <2>1, InTableStays DEF ServiceInv, Registered, ChildCalls, allVars
<1>4. Informed'
  <2>1. [Next]_vars
    BY DEF ChildCalls, allVars, Next
  <2>2. QED BY <1>1, <2>1, HeardStays DEF svars, serviceState, calls, ServiceInv, Informed
<1>5. QED BY <1>2, <1>3, <1>4 DEF ServiceInv

(* The notifying goroutine and the listeners' calls touch nothing else.    *)
LEMMA NotifyKeeps ==
    ASSUME ServiceInv, Inv, Notify \/ \E l \in Listeners : AddListener(l) \/ RemoveListener(l)
    PROVE  ServiceInv'
<1>1. /\ UNCHANGED <<vars, service, disconnectFuture, session, closes, childUp>>
      /\ DOMAIN spc' = Goroutines /\ DOMAIN sret' = Goroutines
      /\ \A h \in Goroutines \ {Notifier} : spc'[h] = spc[h]
  BY DEF Notify, NotifyLock, NotifyOne, NotifyDone, cleanupListeners, AddListener, RemoveListener,
         Move, serviceState, transport, calls, ServiceInv, ServiceTypes
<1>2. \A h \in Connectors \cup Closers : h \in Goroutines \ {Notifier}
  BY ServiceAssumption DEF Goroutines, Callers, Closers, Closer, Notifier
<1>3. Closer \in Closers /\ Disconnectors \subseteq Closers
  BY DEF Closers
<1>4. ServiceTypes' /\ OneConnects' /\ OneCloses'
  BY <1>1, <1>2, <1>3 DEF ServiceInv, ServiceTypes, OneConnects, OneCloses
<1>5. Registered'
  <2>1. Alive' <=> Alive
    BY <1>1, <1>2 DEF Alive
  <2>2. QED BY <1>1, <2>1, InTableStays DEF ServiceInv, Registered
<1>6. Informed'
  BY <1>1, <1>2, <1>3 DEF ServiceInv, Informed, ChildHeard, IsEnding, vars
<1>7. QED BY <1>4, <1>5, <1>6 DEF ServiceInv

(* A lost session: the swap of downEventHandler makes its goroutine the    *)
(* one that closes, and a child that is up hears of it in the same step.   *)
LEMMA SessionDownKeeps ==
    ASSUME ServiceInv, Inv, SessionDown
    PROVE  ServiceInv'
<1> USE ServiceAssumption
<1>1. /\ session = "up" /\ session' = "down" /\ UNCHANGED <<disconnectFuture, closes, sret>>
      /\ ChildHears \/ UNCHANGED vars
  BY DEF SessionDown
<1>2. DownEvent \/ UNCHANGED vars
  BY <1>1 DEF ChildHears
<1>3. Closer \in Closers /\ Disconnectors \subseteq Closers
  BY DEF Closers
<1>4. CASE UNCHANGED <<service, spc, childUp>>
  <2>1. ServiceTypes' /\ OneConnects' /\ OneCloses'
    BY <1>1, <1>4 DEF ServiceInv, ServiceTypes, OneConnects, OneCloses
  <2>2. Registered'
    <3>1. Alive' <=> Alive
      BY <1>4 DEF Alive
    <3>2. QED BY <1>2, <3>1, InTableStays DEF ServiceInv, Registered
  <2>3. Informed'
    <3>1. [Next]_vars
      BY <1>2 DEF Next, Parent
    <3>2. QED BY <1>1, <1>4, <3>1, HeardStays DEF ServiceInv, Informed
  <2>4. QED BY <2>1, <2>2, <2>3 DEF ServiceInv
<1>5. CASE /\ ChildHears /\ service = "Connected" /\ service' = "Disconnected"
           /\ spc' = [spc EXCEPT ![Closer] = "unregister", ![Notifier] = "lock"]
           /\ childUp' = (state = "Started")
  <2>1. /\ DOMAIN spc' = Goroutines /\ spc'[Closer] = "unregister"
        /\ \A h \in Goroutines \ {Closer, Notifier} : spc'[h] = spc[h]
    BY <1>5 DEF ServiceInv, ServiceTypes, Goroutines, Closer, Notifier
  <2>2. Connectors \cup Disconnectors \subseteq Goroutines \ {Closer, Notifier}
    BY DEF Goroutines, Callers
  <2>3. /\ closes = 0 /\ disconnectFuture = "pending"
        /\ \A h \in Closers : spc[h] \notin ClosingPCs \cup ClosedPCs
    BY <1>5 DEF ServiceInv, OneCloses, Ended
  <2>4. ServiceTypes'
    BY <1>1, <1>5, <2>1, <2>2 DEF ServiceInv, ServiceTypes, Ended
  <2>5. OneConnects'
    <3>1. \A h \in Connectors : spc'[h] \notin ConnectingPCs
      BY <1>5, <2>1, <2>2 DEF ServiceInv, OneConnects
    <3>2. QED BY <3>1 DEF OneConnects
  <2>6. OneCloses'
    <3>1. \A h \in Closers : spc'[h] \in ClosingPCs \cup ClosedPCs => h = Closer
      BY <2>1, <2>2, <2>3 DEF Closers
    <3>2. "unregister" \notin ClosedPCs
      BY DEF ClosedPCs
    <3>3. \A h \in Closers : spc'[h] \notin ClosedPCs
      BY <2>1, <3>1, <3>2
    <3>4. closes' = 0 /\ session' # "destroyed" /\ service' \in Ended
      BY <1>1, <1>5, <2>3 DEF Ended
    <3>5. QED BY <3>1, <3>3, <3>4 DEF OneCloses
  <2>7. InTable
    BY <1>5 DEF ServiceInv, Registered, Alive, Ended
  <2>8. Registered'
    BY <1>2, <2>7, InTableStays DEF Registered
  <2>9. childUp' => ChildHeard'
    <3>1. CASE handler /\ pc[Down] \in {"idle", "done"}
      BY <1>5, <3>1 DEF ChildHears, DownEvent, ChildHeard, Goto, Inv, TypeOK, Procs, Enders
    <3>2. CASE ~(handler /\ pc[Down] \in {"idle", "done"})
      BY <1>5, <2>7, <3>2 DEF ChildHears, ChildHeard, InTable, vars
    <3>3. QED BY <3>1, <3>2
  <2>10. Informed'
    <3>1. childUp' => state' = "Started"
      BY <1>2, <1>5 DEF DownEvent, vars
    <3>2. QED BY <2>9, <3>1 DEF Informed
  <2>11. QED BY <2>4, <2>5, <2>6, <2>8, <2>10 DEF ServiceInv
<1>6. QED BY <1>4, <1>5 DEF SessionDown, downEventHandler, DownProceeds

(* The steps of the goroutine that closes the service.                     *)
LEMMA CloseKeeps ==
    ASSUME ServiceInv, Inv, NEW g \in Closers, Close(g)
    PROVE  ServiceInv'
<1> USE ServiceAssumption
<1>1. /\ g \in Goroutines /\ UNCHANGED <<service, childUp>>
      /\ DOMAIN spc' = Goroutines /\ DOMAIN sret' = Goroutines
      /\ \A h \in Goroutines \ {g} : spc'[h] = spc[h]
  BY DEF Close, unregisterEventHandlers, CloseEvents, CloseComponents, CloseSession,
         DisconnectComplete, Move, Finish, serviceState, ServiceInv, ServiceTypes, Goroutines,
         Callers, Closers
<1>2. \A h \in Connectors : h \in Goroutines \ {g}
  BY DEF Goroutines, Callers, Closers, Closer, Notifier
<1>3. Closer \in Closers /\ Disconnectors \subseteq Closers /\ Closers \subseteq Goroutines
  BY DEF Closers, Goroutines, Callers
<1>4. spc[g] \in ClosingPCs \cup ClosedPCs
  BY DEF Close, unregisterEventHandlers, CloseEvents, CloseComponents, CloseSession,
         DisconnectComplete, At, ClosingPCs, BeforeClose, ClosedPCs
<1>5. /\ service \in Ended
      /\ \A h \in Closers : spc[h] \in ClosingPCs \cup ClosedPCs => h = g
  BY <1>4 DEF ServiceInv, OneCloses
<1>6. [Next]_vars
  BY CloseRefines DEF Next, Parent
<1>7. OneConnects'
  BY <1>1, <1>2 DEF ServiceInv, OneConnects
<1>8. /\ spc'[g] \in ClosingPCs \cup ClosedPCs \cup {"done"}
      /\ g = Closer => spc'[g] \in {"close", "stop", "destroy", "store", "done"}
  BY <1>1 DEF Close, unregisterEventHandlers, CloseEvents, CloseComponents, CloseSession,
         DisconnectComplete, At, Move, Finish, ClosingPCs, BeforeClose, ClosedPCs,
         ServiceInv, ServiceTypes
<1>9. CASE CloseSession(g)
  <2>1. /\ closes' = closes + 1 /\ session' = "destroyed" /\ UNCHANGED <<vars, disconnectFuture>>
        /\ spc[g] \in ClosingPCs /\ spc'[g] \in ClosedPCs /\ spc'[g] \notin ClosingPCs
    BY <1>1, <1>9 DEF CloseSession, At, Move, serviceState, ClosingPCs, BeforeClose, ClosedPCs,
       ServiceInv, ServiceTypes
  <2>2. closes = 0
    BY <2>1 DEF ServiceInv, OneCloses
  <2>3. ServiceTypes'
    BY <1>1, <1>2, <1>3, <1>8, <2>1, <2>2 DEF ServiceInv, ServiceTypes
  <2>4. OneCloses'
    BY <1>1, <1>3, <1>5, <2>1, <2>2 DEF ServiceInv, OneCloses
  <2>5. Registered'
    <3>1. Alive' => Alive
      BY <1>1, <1>3, <2>1 DEF Alive, ClosingPCs
    <3>2. QED BY <2>1, <3>1, InTableStays DEF ServiceInv, Registered
  <2>6. Informed'
    BY <1>1, <1>3, <1>9, <2>1
       DEF ServiceInv, Informed, ChildHeard, IsEnding, vars, CloseSession, At, Move, ServiceTypes
  <2>7. QED BY <1>7, <2>3, <2>4, <2>5, <2>6 DEF ServiceInv
<1>10. CASE CloseEvents(g)
  <2>1. /\ UNCHANGED <<closes, session, state, pc, disconnectFuture>>
        /\ spc[g] \in ClosingPCs /\ spc'[g] \in ClosingPCs
        /\ \/ spc[g] = "close" /\ spc'[g] = "stop"
           \/ spc[g] = "closeErr" /\ spc'[g] = "stopErr"
    BY <1>1, <1>10 DEF CloseEvents, EventsTerminate, At, Move, serviceState, ClosingPCs,
       BeforeClose, ServiceInv, ServiceTypes
  <2>2. spc'[g] \notin ClosedPCs
    BY <2>1 DEF ClosedPCs
  <2>3. ServiceTypes'
    BY <1>1, <1>2, <1>3, <1>8, <2>1 DEF ServiceInv, ServiceTypes
  <2>4. OneCloses'
    BY <1>1, <1>3, <1>5, <2>1, <2>2 DEF ServiceInv, OneCloses
  <2>5. ~Alive'
    <3>1. \A h \in Closers : spc'[h] \notin BeforeClose \cup {"close", "closeErr"}
      BY <1>1, <1>3, <1>5, <2>1 DEF BeforeClose, ClosingPCs
    <3>2. QED BY <1>1, <1>5, <3>1 DEF Alive
  <2>6. Informed'
    BY <1>1, <1>3, <2>1 DEF ServiceInv, Informed, ChildHeard, IsEnding
  <2>7. QED BY <1>7, <2>3, <2>4, <2>5, <2>6 DEF ServiceInv, Registered
<1>11. CASE unregisterEventHandlers(g) \/ CloseComponents(g)
  <2>1. /\ UNCHANGED <<closes, session, state, pc, disconnectFuture>>
        /\ ParentStop \/ UNCHANGED vars
        /\ spc[g] \in ClosingPCs /\ spc'[g] \in ClosingPCs
        /\ \/ spc[g] = "unregister" /\ spc'[g] = IF g = Closer THEN "close" ELSE "clean"
           \/ spc[g] = "stop" /\ spc'[g] = "destroy"
           \/ spc[g] = "stopErr" /\ spc'[g] = "destroyErr"
    BY <1>1, <1>11 DEF unregisterEventHandlers, CloseComponents, ParentStop, At, Move,
       serviceState, transport, ClosingPCs, BeforeClose, ServiceInv, ServiceTypes, vars
  <2>2. spc'[g] \notin ClosedPCs
    BY <2>1 DEF ClosedPCs
  <2>3. ServiceTypes'
    BY <1>1, <1>2, <1>3, <1>8, <2>1 DEF ServiceInv, ServiceTypes
  <2>4. OneCloses'
    BY <1>1, <1>3, <1>5, <2>1, <2>2 DEF ServiceInv, OneCloses
  <2>5. Registered'
    <3>1. Alive' => Alive
      BY <1>1, <1>3, <2>1 DEF Alive, BeforeClose
    <3>2. QED BY <2>1, <3>1, InTableStays DEF ServiceInv, Registered
  <2>6. Informed'
    <3>1. g \in Disconnectors => g # Closer
      BY DEF Callers
    <3>2. QED BY <1>1, <1>3, <2>1, <3>1 DEF ServiceInv, Informed, ChildHeard, IsEnding
  <2>7. QED BY <1>7, <2>3, <2>4, <2>5, <2>6 DEF ServiceInv
<1>12. CASE DisconnectComplete(g)
  <2>1. /\ UNCHANGED <<vars, closes, session>>
        /\ spc'[g] = "done" /\ disconnectFuture' \in {"nil", "err"}
        /\ disconnectFuture' = "nil" => spc[g] \in {"complete", "store"}
        /\ disconnectFuture' = "nil" /\ spc[g] = "store" => g = Closer
        /\ spc[g] = "store" \/ g \in Disconnectors
    BY <1>1, <1>12 DEF DisconnectComplete, At, Finish, transport, ServiceInv, ServiceTypes
  <2>2. "done" \notin ClosingPCs \cup ClosedPCs
    BY DEF ClosingPCs, BeforeClose, ClosedPCs
  <2>3. ServiceTypes'
    BY <1>1, <1>2, <1>3, <2>1 DEF ServiceInv, ServiceTypes
  <2>4. OneCloses'
    BY <1>1, <1>3, <1>5, <2>1, <2>2 DEF ServiceInv, OneCloses
  <2>5. Registered'
    <3>1. Alive' => Alive
      BY <1>1, <1>3, <2>1 DEF Alive, BeforeClose
    <3>2. QED BY <2>1, <3>1, InTableStays DEF ServiceInv, Registered
  <2>6. Informed'
    <3>1. g = Closer \/ g \in Disconnectors
      BY DEF Closers
    <3>2. g = Closer => spc[g] # "idle"
      BY <1>4 DEF ClosingPCs, BeforeClose, ClosedPCs
    <3>3. disconnectFuture' = "nil" /\ childUp => ChildHeard
      BY <2>1, <3>1, <3>2 DEF ServiceInv, Informed
    <3>4. QED BY <1>1, <1>3, <2>1, <3>2, <3>3 DEF ServiceInv, Informed, ChildHeard, IsEnding, vars
  <2>7. QED BY <1>7, <2>3, <2>4, <2>5, <2>6 DEF ServiceInv
<1>13. QED BY <1>9, <1>10, <1>11, <1>12 DEF Close

(* Disconnect's own steps: its swap makes it the one that closes, and the  *)
(* event it emits reaches a child that is up.                              *)
LEMMA DisconnectKeeps ==
    ASSUME ServiceInv, Inv, NEW g \in Disconnectors, Disconnect(g)
    PROVE  ServiceInv'
<1> USE ServiceAssumption
<1>1. g \in Goroutines /\ g \in Closers /\ g # Closer
  BY DEF Goroutines, Callers, Closers
<1>2. CASE Close(g)
  BY <1>1, <1>2, CloseKeeps
<1>3. ASSUME ~Close(g)
      PROVE  /\ DOMAIN spc' = Goroutines /\ DOMAIN sret' = Goroutines
             /\ \A h \in Goroutines \ {g} : spc'[h] = spc[h]
             /\ UNCHANGED <<disconnectFuture, closes>>
  BY <1>1, <1>3 DEF Disconnect, DisconnectSwap, DisconnectRead, DisconnectWait, cleanupListeners,
     TransportDisconnect, TransportEmit, DisconnectStore, Move, Finish, serviceState, transport,
     ServiceInv, ServiceTypes
<1>4. \A h \in Connectors \cup {Closer} : h \in Goroutines \ {g}
  BY <1>1 DEF Goroutines, Callers
<1>5. Closer \in Closers /\ Closers \subseteq Goroutines /\ Disconnectors \subseteq Goroutines
      /\ Closers = Disconnectors \cup {Closer}
  BY DEF Closers, Goroutines, Callers
<1>6. CASE ~Close(g) /\ DisconnectSwap(g) /\ service = "Connected"
  <2>1. /\ spc'[g] = "unregister" /\ service' = "Disconnecting" /\ UNCHANGED <<vars, session>>
        /\ childUp' = (state = "Started")
    BY <1>1, <1>6 DEF DisconnectSwap, Move, transport, ServiceInv, ServiceTypes
  <2>2. /\ closes = 0 /\ disconnectFuture = "pending" /\ session # "destroyed"
        /\ \A h \in Closers : spc[h] \notin ClosingPCs \cup ClosedPCs
        /\ spc[Closer] = "idle"
    BY <1>6 DEF ServiceInv, OneCloses, Ended
  <2>3. ServiceTypes'
    BY <1>3, <1>4, <1>5, <1>6, <2>1 DEF ServiceInv, ServiceTypes, Ended, ClosingPCs, BeforeClose
  <2>4. OneConnects'
    <3>1. \A h \in Connectors : spc'[h] \notin ConnectingPCs
      BY <1>3, <1>4, <1>6 DEF ServiceInv, OneConnects
    <3>2. QED BY <3>1 DEF OneConnects
  <2>5. OneCloses'
    <3>1. \A h \in Closers : spc'[h] \in ClosingPCs \cup ClosedPCs => h = g
      BY <1>3, <1>5, <1>6, <2>2
    <3>2. "unregister" \notin ClosedPCs
      BY DEF ClosedPCs
    <3>3. \A h \in Closers : spc'[h] \notin ClosedPCs
      BY <2>1, <3>1, <3>2
    <3>4. closes' = 0 /\ session' # "destroyed" /\ service' \in Ended
      BY <1>3, <1>6, <2>1, <2>2 DEF Ended
    <3>5. QED BY <3>1, <3>3, <3>4 DEF OneCloses
  <2>6. Registered'
    <3>1. Alive
      BY <1>6 DEF Alive, Ended
    <3>2. QED BY <2>1, <3>1, InTableStays DEF ServiceInv, Registered
  <2>7. Informed'
    <3>1. \A h \in Disconnectors : spc'[h] \notin {"close", "stop", "destroy", "store", "complete"}
      BY <1>3, <1>5, <1>6, <2>1, <2>2 DEF ClosingPCs, ClosedPCs
    <3>2. spc'[Closer] = "idle" /\ disconnectFuture' # "nil"
      BY <1>3, <1>4, <1>6, <2>2
    <3>3. QED BY <2>1, <3>1, <3>2 DEF Informed, vars
  <2>8. QED BY <2>3, <2>4, <2>5, <2>6, <2>7 DEF ServiceInv
<1>7. CASE /\ ~Close(g)
           /\ \/ DisconnectSwap(g) /\ service # "Connected"
              \/ DisconnectRead(g) \/ DisconnectWait(g)
  <2>1. /\ UNCHANGED <<vars, service, session, childUp>>
        /\ spc[g] \in {"idle", "read", "wait"} /\ spc'[g] \in {"read", "wait", "done"}
    BY <1>1, <1>7 DEF DisconnectSwap, DisconnectRead, DisconnectWait, At, Move, Finish,
       serviceState, transport, ServiceInv, ServiceTypes
  <2>2. /\ spc'[g] \notin ClosingPCs \cup ClosedPCs
        /\ spc'[g] \notin BeforeClose \cup {"close", "closeErr"}
    BY <2>1 DEF ClosingPCs, BeforeClose, ClosedPCs
  <2>3. ServiceTypes' /\ OneConnects'
    BY <1>3, <1>4, <1>5, <1>7, <2>1 DEF ServiceInv, ServiceTypes, OneConnects
  <2>4. OneCloses'
    BY <1>3, <1>4, <1>5, <1>7, <2>1, <2>2 DEF ServiceInv, OneCloses
  <2>5. Registered'
    <3>1. Alive' => Alive
      BY <1>3, <1>5, <1>7, <2>1, <2>2 DEF Alive
    <3>2. QED BY <2>1, <3>1, InTableStays DEF ServiceInv, Registered
  <2>6. Informed'
    BY <1>3, <1>4, <1>5, <1>7, <2>1 DEF ServiceInv, Informed, ChildHeard, IsEnding, vars
  <2>7. QED BY <2>3, <2>4, <2>5, <2>6 DEF ServiceInv
<1>8. CASE /\ ~Close(g)
           /\ \/ cleanupListeners(g, "clean", "disconnect")
              \/ TransportDisconnect(g)
  <2>1. /\ UNCHANGED <<vars, service, childUp>>
        /\ session' = session \/ session' = "down"
        /\ spc[g] \in BeforeClose /\ spc'[g] \in {"disconnect", "emit", "closeErr"}
    BY <1>1, <1>8 DEF cleanupListeners, TransportDisconnect, At, Move, serviceState, transport,
       BeforeClose, ServiceInv, ServiceTypes
  <2>2. /\ spc[g] \in ClosingPCs /\ spc'[g] \in ClosingPCs
        /\ spc'[g] \notin ClosedPCs
    BY <2>1 DEF ClosingPCs, BeforeClose, ClosedPCs
  <2>3. closes = 0 /\ service \in Ended /\ session # "destroyed"
    BY <1>1, <2>2 DEF ServiceInv, OneCloses
  <2>4. ServiceTypes' /\ OneConnects'
    BY <1>3, <1>4, <1>5, <1>8, <2>1, <2>2 DEF ServiceInv, ServiceTypes, OneConnects
  <2>5. OneCloses'
    BY <1>1, <1>3, <1>4, <1>5, <1>8, <2>1, <2>2, <2>3 DEF ServiceInv, OneCloses
  <2>6. Registered'
    <3>1. Alive
      BY <1>1, <2>1 DEF Alive
    <3>2. QED BY <2>1, <3>1, InTableStays DEF ServiceInv, Registered
  <2>7. Informed'
    BY <1>3, <1>4, <1>5, <1>8, <2>1 DEF ServiceInv, Informed, ChildHeard, IsEnding, vars
  <2>8. QED BY <2>4, <2>5, <2>6, <2>7 DEF ServiceInv
<1>9. CASE ~Close(g) /\ TransportEmit(g)
  <2>1. /\ UNCHANGED <<service, session, childUp>> /\ ChildHears
        /\ spc[g] = "emit" /\ spc'[g] = "close"
    BY <1>1, <1>9 DEF TransportEmit, emitEvent, At, Move, serviceState, transport,
       ServiceInv, ServiceTypes
  <2>2. spc[g] \in ClosingPCs /\ spc'[g] \in ClosingPCs /\ spc'[g] \notin ClosedPCs
    BY <2>1 DEF ClosingPCs, BeforeClose, ClosedPCs
  <2>3. ServiceTypes' /\ OneConnects'
    BY <1>3, <1>4, <1>5, <1>9, <2>1, <2>2 DEF ServiceInv, ServiceTypes, OneConnects
  <2>4. OneCloses'
    BY <1>1, <1>3, <1>4, <1>5, <1>9, <2>1, <2>2 DEF ServiceInv, OneCloses
  <2>5. InTable
    BY <1>1, <2>1 DEF ServiceInv, Registered, Alive, BeforeClose
  <2>6. DownEvent \/ UNCHANGED vars
    BY <2>1 DEF ChildHears
  <2>7. Registered'
    BY <2>5, <2>6, InTableStays DEF Registered
  <2>8. childUp => ChildHeard'
    <3>1. CASE handler /\ pc[Down] \in {"idle", "done"}
      BY <2>1, <3>1 DEF ChildHears, DownEvent, ChildHeard, Goto, Inv, TypeOK, Procs, Enders
    <3>2. CASE ~(handler /\ pc[Down] \in {"idle", "done"})
      BY <2>1, <2>5, <3>2 DEF ChildHears, ChildHeard, InTable, vars, ServiceInv, Informed
    <3>3. QED BY <3>1, <3>2
  <2>9. Informed'
    <3>1. UNCHANGED state
      BY <2>6 DEF DownEvent, vars
    <3>2. QED BY <2>1, <2>8, <3>1 DEF ServiceInv, Informed, IsEnding
  <2>10. QED BY <2>3, <2>4, <2>7, <2>9 DEF ServiceInv
<1>10. CASE ~Close(g) /\ DisconnectStore(g)
  <2>1. /\ UNCHANGED <<vars, session, childUp>> /\ service' = "Disconnected"
        /\ \/ spc[g] = "store" /\ spc'[g] = "complete"
           \/ spc[g] = "storeErr" /\ spc'[g] = "completeErr"
    BY <1>1, <1>10 DEF DisconnectStore, At, Move, transport, ServiceInv, ServiceTypes
  <2>2. spc[g] \in ClosedPCs /\ spc'[g] \in ClosedPCs /\ spc'[g] \notin ClosingPCs
    BY <2>1 DEF ClosingPCs, BeforeClose, ClosedPCs
  <2>3. service \in Ended /\ service' \in Ended
    BY <1>1, <2>1, <2>2 DEF ServiceInv, OneCloses, Ended
  <2>4. ServiceTypes'
    BY <1>3, <1>4, <1>5, <1>10, <2>1, <2>2, <2>3 DEF ServiceInv, ServiceTypes
  <2>5. OneConnects'
    BY <1>3, <1>4, <1>10, <2>3 DEF ServiceInv, OneConnects, Ended
  <2>6. OneCloses'
    BY <1>1, <1>3, <1>4, <1>5, <1>10, <2>1, <2>2, <2>3 DEF ServiceInv, OneCloses
  <2>7. Registered'
    <3>1. Alive' => Alive
      BY <1>3, <1>5, <1>10, <2>1, <2>3 DEF Alive, BeforeClose
    <3>2. QED BY <2>1, <3>1, InTableStays DEF ServiceInv, Registered
  <2>8. Informed'
    BY <1>3, <1>4, <1>5, <1>10, <2>1 DEF ServiceInv, Informed, ChildHeard, IsEnding, vars
  <2>9. QED BY <2>4, <2>5, <2>6, <2>7, <2>8 DEF ServiceInv
<1>11. QED
  BY <1>2, <1>6, <1>7, <1>8, <1>9, <1>10 DEF Disconnect

(* The two invariants hold of every reachable state.                       *)
LEMMA ServiceInvariance == ServiceSpec => [](ServiceInv /\ Inv)
<1>1. ServiceInit => ServiceInv
  BY ServiceAssumption
     DEF ServiceInit, Init, ServiceInv, ServiceTypes, OneConnects, OneCloses, Registered, InTable,
         Alive, Informed, Goroutines, Callers, Closers, ConnectingPCs, ClosingPCs, BeforeClose,
         ClosedPCs, Ended, Procs
<1>2. ServiceInv /\ Inv /\ [ServiceNext]_allVars => ServiceInv'
  <2>1. Closer \in Closers
    BY DEF Closers
  <2>2. QED
    BY <2>1, ConnectKeeps, DisconnectKeeps, CloseKeeps, NotifyKeeps, SessionDownKeeps, ChildKeeps
       DEF ServiceNext
<1>3. ServiceSpec => []Inv
  BY LifecycleHolds, Invariance, PTL
<1>4. QED BY <1>1, <1>2, <1>3, PTL DEF ServiceSpec

(* However calls of Disconnect race with each other and with the loss of   *)
(* the session, the session is destroyed once, and a child that was up     *)
(* hears of the end before Disconnect reports success.                     *)
THEOREM ShutdownIsOrderly == ServiceSpec => []OrderlyShutdown
<1>1. ServiceInv => OrderlyShutdown
  BY DEF ServiceInv, OneCloses, Informed, ChildHeard, OrderlyShutdown
<1>2. QED BY <1>1, ServiceInvariance, PTL

-----------------------------------------------------------------------------
(* What the goroutine that connects has brought up by the time it gets to  *)
(* each of its steps; the last of them makes IsConnected true.             *)
Working ==
    /\ \A g \in Connectors :
          /\ spc[g] \in {"events", "components", "register", "connected"}
                => session = "up" \/ lostEarly
          /\ spc[g] \in {"components", "register", "connected"} => callbackSet
          /\ spc[g] \in {"register", "connected"} => parent = "running"
          /\ spc[g] = "connected" => downHandler /\ eventExecutor = "running"
          /\ spc[g] = "failedStore" => subState = "Down"
    /\ ConnectedWorks

Works == <<service, subState, session, lostEarly, parent, callbackSet, downHandler, eventExecutor>>

(* Whatever leaves all that alone, or has begun to close the service,      *)
(* keeps this.                                                             *)
LEMMA ClosedOrIdle ==
    ASSUME Working, ServiceInv', UNCHANGED Works \/ service' \in Ended,
           \A g \in Connectors : spc'[g] = spc[g]
    PROVE  Working'
<1>1. CASE UNCHANGED Works
  BY <1>1 DEF Working, ConnectedWorks, IsConnected, Works
<1>2. CASE service' \in Ended
  BY <1>2 DEF Working, ConnectedWorks, IsConnected, ServiceInv, OneConnects, ConnectingPCs, Ended
<1>3. QED BY <1>1, <1>2

(* Connect brings up one thing after the other, with nobody else at it.    *)
LEMMA ConnectWorking ==
    ASSUME Working, ServiceInv, ServiceInv', NEW g \in Connectors, Connect(g)
    PROVE  Working'
<1> USE ServiceAssumption DEF Goroutines, Callers, At, Move, Finish
<1>1. DOMAIN spc = Goroutines /\ g \in Goroutines /\ Connectors \subseteq Goroutines
  BY DEF ServiceInv, ServiceTypes
<1>2. \A h \in Connectors \ {g} : spc'[h] = spc[h]
  BY <1>1 DEF Connect, ConnectSwap, ConnectRead, ConnectWait, TransportConnect,
     TransportStartEvents, TransportStart, ConnectRegister, ConnectFailed, ConnectStore,
     ConnectComplete
<1>3. spc[g] \in ConnectingPCs =>
         service = "Connecting" /\ \A h \in Connectors \ {g} : spc[h] \notin ConnectingPCs
  BY DEF ServiceInv, OneConnects
<1>4. CASE ConnectSwap(g) \/ ConnectRead(g) \/ ConnectWait(g) \/ ConnectComplete(g)
  BY <1>1, <1>2, <1>4 DEF ConnectSwap, ConnectRead, ConnectWait, ConnectComplete, serviceState,
     transport, vars, Working, ConnectedWorks, IsConnected
<1>5. CASE TransportConnect(g) \/ ConnectFailed(g)
  BY <1>1, <1>2, <1>3, <1>5 DEF TransportConnect, ConnectFailed, serviceState, transport, vars,
     Working, ConnectedWorks, IsConnected, ConnectingPCs
<1>6. CASE TransportStartEvents(g) \/ TransportStart(g) \/ ConnectRegister(g)
  BY <1>1, <1>2, <1>3, <1>6 DEF TransportStartEvents, TransportStart, ConnectRegister, ParentStart,
     serviceState, transport, vars, Working, ConnectedWorks, IsConnected, ConnectingPCs
<1>7. CASE ConnectStore(g)
  BY <1>1, <1>2, <1>3, <1>7 DEF ConnectStore, transport, vars, Working, ConnectedWorks,
     IsConnected, ConnectingPCs
<1>8. QED BY <1>4, <1>5, <1>6, <1>7 DEF Connect

(* A lost session is heard by a service that says it is connected, and it  *)
(* is early for one that is about to say so.                               *)
LEMMA SessionDownWorking ==
    ASSUME Working, ServiceInv, ServiceInv', SessionDown
    PROVE  Working'
<1> USE ServiceAssumption DEF Goroutines, Callers, Closer, Notifier
<1>1. \A g \in Connectors : spc'[g] = spc[g]
  BY DEF SessionDown, downEventHandler, ServiceInv, ServiceTypes
<1>2. CASE service \in Ended
  <2>1. service' \in Ended
    BY <1>2 DEF SessionDown, downEventHandler, Ended
  <2>2. QED BY <1>1, <2>1, ClosedOrIdle
<1>3. CASE IsConnected
  <2>1. service' = "Disconnected"
    BY <1>3 DEF SessionDown, downEventHandler, DownProceeds, Working, ConnectedWorks, IsConnected
  <2>2. QED BY <1>1, <2>1, ClosedOrIdle DEF Ended
<1>4. CASE service \notin Ended /\ ~IsConnected
  <2>1. UNCHANGED <<callbackSet, downHandler>>
    BY DEF SessionDown
  <2>2. UNCHANGED parent
    BY DEF SessionDown, ChildHears, DownEvent, vars
  <2>3. CASE service = "Connected"
    <3>1. ~IsConnected' /\ \A g \in Connectors : spc[g] \notin ConnectingPCs
      BY <1>4, <2>3 DEF SessionDown, downEventHandler, IsConnected, ServiceInv, OneConnects
    <3>2. QED BY <1>1, <3>1 DEF Working, ConnectedWorks, ConnectingPCs
  <2>4. CASE service # "Connected"
    <3>1. UNCHANGED <<service, subState, eventExecutor>>
      BY <2>4 DEF SessionDown, downEventHandler, DownProceeds
    <3>2. \A g \in Connectors : spc[g] \in ConnectingPCs => lostEarly'
      BY DEF SessionDown, ServiceInv, OneConnects
    <3>3. QED BY <1>1, <2>1, <2>2, <2>4, <3>1, <3>2
             DEF Working, ConnectedWorks, IsConnected, ConnectingPCs
  <2>5. QED BY <2>3, <2>4
<1>5. QED BY <1>2, <1>3, <1>4

(* Whoever closes has made the service leave Connected before.             *)
LEMMA CloseWorking ==
    ASSUME Working, ServiceInv, ServiceInv', NEW g \in Closers, Disconnect(g) \/ Close(g)
    PROVE  Working'
<1> USE ServiceAssumption DEF Goroutines, Callers, Closers, Closer, Notifier, At, Move, Finish
<1>1. \A h \in Connectors : spc'[h] = spc[h]
  BY DEF Disconnect, DisconnectSwap, DisconnectRead, DisconnectWait, cleanupListeners,
     TransportDisconnect, TransportEmit, DisconnectStore, Close, unregisterEventHandlers,
     CloseEvents, CloseComponents, CloseSession, DisconnectComplete, ServiceInv, ServiceTypes
<1>2. spc[g] \in ClosingPCs \cup ClosedPCs => service \in Ended
  BY DEF ServiceInv, OneCloses
<1>3. CASE DisconnectSwap(g) \/ DisconnectRead(g) \/ DisconnectWait(g)
  <2>1. UNCHANGED Works \/ service' \in Ended
    BY <1>3 DEF DisconnectSwap, DisconnectRead, DisconnectWait, serviceState, transport, vars,
       Works, Ended
  <2>2. QED BY <1>1, <2>1, ClosedOrIdle
<1>4. CASE ~(DisconnectSwap(g) \/ DisconnectRead(g) \/ DisconnectWait(g))
  <2>1. spc[g] \in ClosingPCs \cup ClosedPCs
    BY <1>4 DEF Disconnect, cleanupListeners, TransportDisconnect, TransportEmit, DisconnectStore,
       Close, unregisterEventHandlers, CloseEvents, CloseComponents, CloseSession,
       DisconnectComplete, ClosingPCs, ClosedPCs, BeforeClose
  <2>2. service' = service \/ service' = "Disconnected"
    BY <1>4 DEF Disconnect, cleanupListeners, TransportDisconnect, TransportEmit, DisconnectStore,
       Close, unregisterEventHandlers, CloseEvents, CloseComponents, CloseSession,
       DisconnectComplete, serviceState
  <2>3. service' \in Ended
    BY <1>2, <2>1, <2>2 DEF Ended
  <2>4. QED BY <1>1, <2>3, ClosedOrIdle
<1>5. QED BY <1>3, <1>4

(* The listeners and the child have no part in it.                         *)
LEMMA OtherWorking ==
    ASSUME Working, ServiceInv, ServiceInv',
           \/ Notify \/ ChildCalls \/ UNCHANGED allVars
           \/ \E l \in Listeners : AddListener(l) \/ RemoveListener(l)
    PROVE  Working'
<1>1. CASE Notify \/ \E l \in Listeners : AddListener(l) \/ RemoveListener(l)
  <2>1. UNCHANGED Works
    BY <1>1 DEF Notify, NotifyLock, NotifyOne, NotifyDone, cleanupListeners, AddListener,
       RemoveListener, serviceState, transport, vars, Works
  <2>2. \A g \in Connectors : spc'[g] = spc[g]
    BY <1>1, ServiceAssumption
       DEF Notify, NotifyLock, NotifyOne, NotifyDone, cleanupListeners, AddListener,
           RemoveListener, calls, Move, Notifier, Callers, Goroutines, ServiceInv, ServiceTypes
  <2>3. QED BY <2>1, <2>2, ClosedOrIdle
<1>2. CASE ChildCalls
  <2>1. UNCHANGED parent
    BY <1>2 DEF ChildCalls, Start, StartRead, StartCheckParent, StartSwap, StartRecheck,
       StartRegister, StartOk, StartCompleteOk, StartFail, StartFailComplete, StartFailReturn,
       StartWait, Terminate, TerminateCall, TerminateSwap, TerminateRead, TerminateUnstarted,
       TerminateUnstartedComplete, TerminateWork, TerminateStore, TerminateComplete,
       TerminateWait
  <2>2. UNCHANGED Works /\ UNCHANGED spc
    BY <1>2, <2>1 DEF ChildCalls, svars, serviceState, transport, calls, Works
  <2>3. QED BY <2>2, ClosedOrIdle
<1>3. CASE UNCHANGED allVars
  <2>1. UNCHANGED Works /\ UNCHANGED spc
    BY <1>3 DEF allVars, vars, svars, serviceState, transport, calls, Works
  <2>2. QED BY <2>1, ClosedOrIdle
<1>4. QED BY <1>1, <1>2, <1>3

(* A service that says it is connected has a running executor and core,    *)
(* hears the session's events and has a session that is up, or was lost    *)
(* before Connect had stored Connected: for any number of goroutines that  *)
(* connect and disconnect, and after Connects that failed too.             *)
THEOREM ConnectedServiceWorks == ServiceSpec => []ConnectedWorks
<1>1. ServiceInit => Working
  BY ServiceAssumption
     DEF ServiceInit, Working, ConnectedWorks, IsConnected, Goroutines, Callers
<1>2. Working /\ ServiceInv /\ ServiceInv' /\ [ServiceNext]_allVars => Working'
  <2>1. Closer \in Closers /\ Disconnectors \subseteq Closers
    BY DEF Closers
  <2>2. QED
    BY <2>1, ConnectWorking, CloseWorking, SessionDownWorking, OtherWorking DEF ServiceNext
<1>3. Working => ConnectedWorks
  BY DEF Working
<1>4. QED BY <1>1, <1>2, <1>3, ServiceInvariance, PTL DEF ServiceSpec
=============================================================================
