------------------------------ MODULE Service ------------------------------
(***************************************************************************)
(* messagingServiceImpl on top of the core transport and its event table,  *)
(* composed with the life cycle of one publisher or receiver it created:   *)
(* goroutines call Connect and Disconnect, the session of CCSMP goes down  *)
(* by itself, interruption listeners come and go, and the child is told of *)
(* a shutdown by the same down event as the service.                       *)
(*                                                                         *)
(* eventCallback and emitEvent call all handlers under the table's read    *)
(* lock, so each is one step.                                              *)
(***************************************************************************)
EXTENDS Lifecycle

CONSTANTS
    Connectors,     \* goroutines that call Connect
    Disconnectors,  \* goroutines that call Disconnect
    Listeners       \* service interruption listeners

Closer   == "closer"    \* the goroutine downEventHandler starts to close the transport
Notifier == "notifier"  \* the one it starts to call the listeners
Callers  == Connectors \cup Disconnectors

ASSUME ServiceAssumption ==
    /\ Connectors \cap Disconnectors = {} /\ Callers \cap {Closer, Notifier} = {}

VARIABLES
    service,           \* the state of messagingServiceImpl
    subState,          \* activeSubState
    connectFuture, disconnectFuture,
    session,           \* the session of CCSMP
    callbackSet,       \* SetEventCallback: the event table hears CCSMP
    downHandler,       \* the service's handlers are in the event table
    eventExecutor,     \* "new", "running", "terminated"
    listeners,         \* downEventHandlers
    heard,             \* the listeners that were called
    closes,            \* how often the transport was closed
    spc,               \* where each goroutine is
    sret,              \* what its call returned
    lostEarly,         \* the session was lost before Connect had stored Connected
    childUp            \* the child was Started when the shutdown began

serviceState == <<service, subState, connectFuture, disconnectFuture>>
transport    == <<session, callbackSet, downHandler, closes, lostEarly>>
calls        == <<spc, sret>>
notices      == <<listeners, heard>>
svars == <<serviceState, transport, eventExecutor, notices, calls, childUp>>
allVars == <<vars, svars>>

Goroutines == Callers \cup {Closer, Notifier}

ServiceInit ==
    /\ Init
    /\ service = "NotConnected" /\ subState = "Up"
    /\ connectFuture = "pending" /\ disconnectFuture = "pending"
    /\ session = "new" /\ callbackSet = FALSE /\ downHandler = FALSE /\ closes = 0 /\ lostEarly = FALSE
    /\ eventExecutor = "new"
    /\ listeners = {} /\ heard = {}
    /\ spc = [g \in Goroutines |-> "idle"] /\ sret = [g \in Goroutines |-> "none"]
    /\ childUp = FALSE

IsConnected == service = "Connected" /\ subState = "Up"

At(g, l)      == spc[g] = l
Move(g, l)    == spc' = [spc EXCEPT ![g] = l] /\ UNCHANGED sret
Finish(g, r)  == spc' = [spc EXCEPT ![g] = "done"] /\ sret' = [sret EXCEPT ![g] = r]

-----------------------------------------------------------------------------
(* Connect                                                                 *)

ConnectSwap(g) ==
    /\ At(g, "idle") /\ g \in Connectors
    /\ IF service = "NotConnected"
       THEN service' = "Connecting" /\ Move(g, "connect")
       ELSE Move(g, "read") /\ UNCHANGED service
    /\ UNCHANGED <<vars, subState, connectFuture, disconnectFuture, transport, eventExecutor,
                   notices, childUp>>

(* Somebody else connects or has connected: wait for what it reports. *)
ConnectRead(g) ==
    /\ At(g, "read") /\ g \in Connectors
    /\ IF service \in {"Disconnecting", "Disconnected"} THEN Finish(g, "illegal")
                                                        ELSE Move(g, "wait")
    /\ UNCHANGED <<vars, serviceState, transport, eventExecutor, notices, childUp>>

ConnectWait(g) ==
    /\ At(g, "wait") /\ g \in Connectors /\ Resolved(connectFuture)
    /\ Finish(g, connectFuture)
    /\ UNCHANGED <<vars, serviceState, transport, eventExecutor, notices, childUp>>

(* transport.Connect: connect the session ... *)
TransportConnect(g) ==
    /\ At(g, "connect")
    /\ \/ session' = "up" /\ Move(g, "events")
       \/ UNCHANGED session /\ Move(g, "failed")
    /\ UNCHANGED <<vars, serviceState, callbackSet, downHandler, closes, lostEarly, eventExecutor,
                   notices, childUp>>

(* ... then listen to its events ... *)
TransportStartEvents(g) ==
    /\ At(g, "events")
    /\ callbackSet' = TRUE
    /\ Move(g, "components")
    /\ UNCHANGED <<vars, serviceState, session, downHandler, closes, lostEarly, eventExecutor,
                   notices, childUp>>

(* ... then start publisher, receiver and provisioner. *)
TransportStart(g) ==
    /\ At(g, "components")
    /\ ParentStart
    /\ Move(g, "register")
    /\ UNCHANGED <<serviceState, transport, eventExecutor, notices, childUp>>

ConnectRegister(g) ==
    /\ At(g, "register")
    /\ eventExecutor' = "running" /\ downHandler' = TRUE
    /\ Move(g, "connected")
    /\ UNCHANGED <<vars, serviceState, session, callbackSet, closes, lostEarly, notices, childUp>>

(* A Connect that failed: the sub state first, so that IsConnected is      *)
(* never true, then the state Connected, which lets Disconnect clean up.   *)
(* Mutant: the sub state is left as it is. *)
ConnectFailed_StaysUp(g) ==
    /\ At(g, "failed")
    /\ Move(g, "failedStore")
    /\ UNCHANGED <<vars, serviceState, transport, eventExecutor, notices, childUp>>
ConnectFailed(g) ==
    /\ At(g, "failed")
    /\ subState' = "Down"
    /\ Move(g, "failedStore")
    /\ UNCHANGED <<vars, service, connectFuture, disconnectFuture, transport, eventExecutor, notices,
                   childUp>>

ConnectStore(g) ==
    /\ \/ At(g, "connected") /\ Move(g, "complete")
       \/ At(g, "failedStore") /\ Move(g, "failedComplete")
    /\ service' = "Connected"
    /\ UNCHANGED <<vars, subState, connectFuture, disconnectFuture, transport, eventExecutor,
                   notices, childUp>>

ConnectComplete(g) ==
    /\ g \in Connectors /\ spc[g] \in {"complete", "failedComplete"}
    /\ connectFuture' = IF At(g, "complete") THEN "nil" ELSE "err"
    /\ Finish(g, connectFuture')
    /\ UNCHANGED <<vars, service, subState, disconnectFuture, transport, eventExecutor, notices,
                   childUp>>

-----------------------------------------------------------------------------
(* Events                                                                  *)

(* The child's part of a down event. *)
ChildHears == IF handler /\ pc[Down] \in {"idle", "done"} THEN DownEvent ELSE UNCHANGED vars

DownProceeds == service = "Connected"

(* downEventHandler: swap Connected for Disconnected, end the executor,    *)
(* and leave the rest to two goroutines.                                   *)
downEventHandler ==
    IF downHandler /\ DownProceeds
    THEN /\ service' = "Disconnected" /\ subState' = "Down" /\ eventExecutor' = "terminated"
         /\ spc' = [spc EXCEPT ![Closer] = "unregister", ![Notifier] = "lock"]
         /\ childUp' = (state = "Started")
    ELSE UNCHANGED <<service, subState, eventExecutor, spc, childUp>>

(* CCSMP reports that the session is lost. *)
SessionDown ==
    /\ session = "up" /\ session' = "down"
    /\ lostEarly' = (lostEarly \/ service = "Connecting")
    /\ IF callbackSet THEN ChildHears /\ downEventHandler
       ELSE UNCHANGED <<vars, service, subState, eventExecutor, spc, childUp>>
    /\ UNCHANGED <<connectFuture, disconnectFuture, callbackSet, downHandler, closes, notices, sret>>

(* The listeners are called one after the other with their lock held. *)
ListenersLocked == At(Notifier, "notify")

NotifyLock ==
    /\ At(Notifier, "lock") /\ Move(Notifier, "notify")
    /\ UNCHANGED <<vars, serviceState, transport, eventExecutor, notices, childUp>>

NotifyOne(l) ==
    /\ At(Notifier, "notify") /\ l \in listeners \ heard
    /\ heard' = heard \cup {l}
    /\ UNCHANGED <<vars, serviceState, transport, eventExecutor, listeners, calls, childUp>>

NotifyDone ==
    /\ At(Notifier, "notify") /\ listeners \subseteq heard
    /\ Move(Notifier, "cleanup")
    /\ UNCHANGED <<vars, serviceState, transport, eventExecutor, notices, childUp>>

cleanupListeners(g, from, to) ==
    /\ At(g, from) /\ ~ListenersLocked
    /\ listeners' = {}
    /\ Move(g, to)
    /\ UNCHANGED <<vars, serviceState, transport, eventExecutor, heard, childUp>>

(* Bound: listeners are added before the service connects. *)
AddListener(l) ==
    /\ ~ListenersLocked /\ l \notin listeners /\ service = "NotConnected"
    /\ listeners' = listeners \cup {l}
    /\ UNCHANGED <<vars, serviceState, transport, eventExecutor, heard, calls, childUp>>

RemoveListener(l) ==
    /\ ~ListenersLocked /\ l \in listeners
    /\ listeners' = listeners \ {l}
    /\ UNCHANGED <<vars, serviceState, transport, eventExecutor, heard, calls, childUp>>

-----------------------------------------------------------------------------
(* Disconnect, and the closing goroutine of a down event                   *)

DisconnectSwap(g) ==
    /\ At(g, "idle") /\ g \in Disconnectors
    /\ IF service = "Connected"
       THEN service' = "Disconnecting" /\ Move(g, "unregister") /\ childUp' = (state = "Started")
       ELSE Move(g, "read") /\ UNCHANGED <<service, childUp>>
    /\ UNCHANGED <<vars, subState, connectFuture, disconnectFuture, transport, eventExecutor, notices>>

DisconnectRead(g) ==
    /\ At(g, "read") /\ g \in Disconnectors
    /\ IF service \in {"NotConnected", "Connecting"} THEN Finish(g, "illegal") ELSE Move(g, "wait")
    /\ UNCHANGED <<vars, serviceState, transport, eventExecutor, notices, childUp>>

DisconnectWait(g) ==
    /\ At(g, "wait") /\ g \in Disconnectors /\ Resolved(disconnectFuture)
    /\ Finish(g, disconnectFuture)
    /\ UNCHANGED <<vars, serviceState, transport, eventExecutor, notices, childUp>>

unregisterEventHandlers(g) ==
    /\ At(g, "unregister")
    /\ downHandler' = FALSE
    /\ Move(g, IF g = Closer THEN "close" ELSE "clean")
    /\ UNCHANGED <<vars, serviceState, session, callbackSet, closes, lostEarly, eventExecutor,
                   notices, childUp>>

(* transport.Disconnect: disconnect the session; only when that succeeds   *)
(* are the children told.                                                  *)
TransportDisconnect(g) ==
    /\ At(g, "disconnect")
    /\ \/ session' = "down" /\ Move(g, "emit")
       \/ UNCHANGED session /\ Move(g, "closeErr")
    /\ UNCHANGED <<vars, serviceState, callbackSet, downHandler, closes, lostEarly, eventExecutor,
                   notices, childUp>>

(* Mutant: the children are not told of a Disconnect. *)
emitEvent_Skip == UNCHANGED vars
emitEvent == ChildHears

TransportEmit(g) ==
    /\ At(g, "emit")
    /\ emitEvent
    /\ Move(g, "close")
    /\ UNCHANGED <<serviceState, transport, eventExecutor, notices, childUp>>

(* transport.Close: the event table is emptied and deaf from now on ... *)
CloseEvents(g) ==
    /\ \/ At(g, "close") /\ Move(g, "stop")
       \/ At(g, "closeErr") /\ Move(g, "stopErr")
    /\ EventsTerminate
    /\ callbackSet' = FALSE /\ downHandler' = FALSE
    /\ UNCHANGED <<serviceState, session, closes, lostEarly, eventExecutor, notices, childUp>>

(* ... the core publisher, receiver and provisioner stop ... *)
CloseComponents(g) ==
    /\ \/ At(g, "stop") /\ Move(g, "destroy")
       \/ At(g, "stopErr") /\ Move(g, "destroyErr")
    /\ ParentStop
    /\ UNCHANGED <<serviceState, transport, eventExecutor, notices, childUp>>

(* ... and session and context are destroyed. *)
CloseSession(g) ==
    /\ \/ At(g, "destroy") /\ Move(g, "store")
       \/ At(g, "destroyErr") /\ Move(g, "storeErr")
    /\ session' = "destroyed" /\ closes' = closes + 1
    /\ UNCHANGED <<vars, serviceState, callbackSet, downHandler, lostEarly, eventExecutor, notices,
                   childUp>>

DisconnectStore(g) ==
    /\ g \in Disconnectors
    /\ \/ At(g, "store") /\ Move(g, "complete")
       \/ At(g, "storeErr") /\ Move(g, "completeErr")
    /\ service' = "Disconnected" /\ eventExecutor' = "terminated"
    /\ UNCHANGED <<vars, subState, connectFuture, disconnectFuture, transport, notices, childUp>>

(* Mutant: the closing goroutine forgets the future. *)
DisconnectComplete_NoFuture(g) ==
    /\ \/ g \in Disconnectors /\ At(g, "complete") /\ Finish(g, "nil")
       \/ g \in Disconnectors /\ At(g, "completeErr") /\ Finish(g, "err")
       \/ g = Closer /\ At(g, "store") /\ Finish(g, "nil")
    /\ disconnectFuture' = IF g = Closer THEN disconnectFuture ELSE sret'[g]
    /\ UNCHANGED <<vars, service, subState, connectFuture, transport, eventExecutor, notices, childUp>>
DisconnectComplete(g) ==
    /\ \/ g \in Disconnectors /\ At(g, "complete") /\ Finish(g, "nil")
       \/ g \in Disconnectors /\ At(g, "completeErr") /\ Finish(g, "err")
       \/ g = Closer /\ At(g, "store") /\ Finish(g, "nil")
    /\ disconnectFuture' = sret'[g]
    /\ UNCHANGED <<vars, service, subState, connectFuture, transport, eventExecutor, notices, childUp>>

-----------------------------------------------------------------------------
Connect(g) ==
    \/ ConnectSwap(g) \/ ConnectRead(g) \/ ConnectWait(g) \/ TransportConnect(g)
    \/ TransportStartEvents(g) \/ TransportStart(g) \/ ConnectRegister(g) \/ ConnectFailed(g)
    \/ ConnectStore(g) \/ ConnectComplete(g)

Close(g) ==
    \/ unregisterEventHandlers(g) \/ CloseEvents(g) \/ CloseComponents(g) \/ CloseSession(g)
    \/ DisconnectComplete(g)

Disconnect(g) ==
    \/ DisconnectSwap(g) \/ DisconnectRead(g) \/ DisconnectWait(g)
    \/ cleanupListeners(g, "clean", "disconnect") \/ TransportDisconnect(g) \/ TransportEmit(g)
    \/ DisconnectStore(g) \/ Close(g)

Notify ==
    \/ NotifyLock \/ \E l \in Listeners : NotifyOne(l)
    \/ NotifyDone \/ cleanupListeners(Notifier, "cleanup", "done")

(* The life cycle of the child goes on by itself. *)
ChildCalls ==
    /\ \/ \E p \in Starters : Start(p)
       \/ \E p \in Enders : Terminate(p)
    /\ UNCHANGED svars

ServiceNext ==
    \/ \E g \in Connectors : Connect(g)
    \/ \E g \in Disconnectors : Disconnect(g)
    \/ Close(Closer) \/ Notify \/ SessionDown
    \/ \E l \in Listeners : AddListener(l) \/ RemoveListener(l)
    \/ ChildCalls

ServiceSpec == ServiceInit /\ [][ServiceNext]_allVars

(* As long as some goroutine inside a call, or one the code has started,   *)
(* can take a step, one of them does.  Each takes finitely many, so this   *)
(* weak form is enough for every one of them.                              *)
Running ==
    \/ \E g \in Connectors : Connect(g) /\ spc[g] # "idle"
    \/ \E g \in Disconnectors : Disconnect(g) /\ spc[g] # "idle"
    \/ Close(Closer) \/ Notify
    \/ /\ \/ \E p \in Starters : Start(p) /\ pc[p] # "idle"
          \/ \E p \in Enders : Terminate(p) /\ pc[p] # "idle"
       /\ UNCHANGED svars

ServiceFairSpec == ServiceSpec /\ WF_allVars(Running)

-----------------------------------------------------------------------------
(* Properties                                                              *)

(* A service that says it is connected works: its session is up, its       *)
(* components run, and downEventHandler will hear of a loss and the        *)
(* executor carry events.  After a Connect that failed, which stores the   *)
(* state Connected on a session that never came up, it does not say so.    *)
(* The exception: a session that is lost before Connect stores Connected.  *)
(* downEventHandler is not registered yet or its swap fails, the event is  *)
(* forgotten, and the service goes on to call itself connected.            *)
ConnectedWorks ==
    IsConnected =>
       /\ session = "up" \/ lostEarly
       /\ parent = "running" /\ callbackSet /\ downHandler /\ eventExecutor = "running"

(* However Disconnect calls and a lost session race, the session is        *)
(* destroyed once and stays destroyed; and a child that was Started when   *)
(* the shutdown began hears of it before Disconnect reports success.       *)
OrderlyShutdown ==
    /\ closes <= 1 /\ (closes = 1 <=> session = "destroyed")
    /\ disconnectFuture = "nil" /\ childUp => pc[Down] # "idle" \/ IsEnding(state)

(* Disconnect lost its swap while the service was Connecting and reads     *)
(* Connected an instant later: it waits for a future that nobody is about  *)
(* to complete.                                                            *)
OvertakenByConnect(g) == spc[g] = "wait" /\ service = "Connected"

(* Every call of Connect, Disconnect, Start and Terminate returns (each    *)
(* goroutine makes one: from some moment on all have returned), except a   *)
(* Disconnect that a Connect overtakes, and a listener that is registered  *)
(* when an interruption is announced is called.                            *)
EveryCallReturns ==
    /\ <>[] /\ \A p \in Procs : pc[p] \in {"idle", "done"}
            /\ \A g \in Callers : spc[g] \in {"idle", "done"} \/ OvertakenByConnect(g)
    /\ \A l \in Listeners : (ListenersLocked /\ l \in listeners) ~> (l \in heard)
=============================================================================
