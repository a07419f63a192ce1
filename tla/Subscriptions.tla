---------------------------- MODULE Subscriptions ----------------------------
(***************************************************************************)
(* Subscriptions of a receiver and provisioning of endpoints: requests to  *)
(* the broker whose confirmations come back as session events and are      *)
(* matched to the waiting goroutine through a correlation table.           *)
(*                                                                         *)
(*   Call(c)      AddSubscription, RemoveSubscription (or the goroutine of *)
(*                their asynchronous forms), Provision or Deprovision      *)
(*   Start        the receiver's Start, with its initial subscriptions     *)
(*   Terminate    a direct receiver unsubscribes what it has, a persistent *)
(*                one withdraws the correlations it still waits for        *)
(*   Core         ccsmpBackedReceiver and ccsmpBackedEndpointProvisioner   *)
(*                answering what is left when the service goes             *)
(*                                                                         *)
(* The receiver's states are Lifecycle's and its messages are those of     *)
(* DirectReceiver and PersistentReceiver.                                  *)
(***************************************************************************)
EXTENDS Naturals, Sequences, FiniteSets

CONSTANTS
    Topics,     \* topics; provisioning is of the one queue
    Initial,    \* WithSubscriptions of the builder
    Calls,      \* the calls the application makes
    OpOf,       \* the operation of a call: "add", "remove", "provision", "deprovision"
    TopicOf,    \* its topic
    Kinds       \* the receivers considered: "direct", "persistent"

Modifies(op) == op \in {"add", "remove"}

ASSUME SubscriptionsAssumption ==
    /\ Initial \subseteq Topics /\ IsFiniteSet(Topics)
    /\ OpOf \in [Calls -> {"add", "remove", "provision", "deprovision"}]
    /\ TopicOf \in [Calls -> Topics]
    /\ Kinds \subseteq {"direct", "persistent"}

(* Correlation ids: one per call, and one per topic that Start adds, that  *)
(* a failed Start removes again, and that Terminate removes.               *)
Ids == ({"call"} \X Calls) \cup ({"start", "undo", "stop"} \X Topics)

VARIABLES
    kind,           \* which receiver this is
    up,             \* the session is connected
    core,           \* the core receiver and provisioner: "running", "closing", "swept", "closed"
    state,          \* the receiver's state
    subscriptions,  \* the receiver's list of topics
    callPC,         \* the goroutine of call c
    startPC, termPC,
    table,          \* subscriptionCorrelation and provisionCorrelation
    results,        \* the result channels, of capacity 1
    issued,         \* the requests that were handed to the session
    failed,         \* the removals of Start and Terminate that could not be handed to it
    outstanding,    \* outstandingSubscriptionEvents of the persistent receiver
    writeLock,      \* cleanupSubscriptions holds subscriptionTerminationLock
    \* History and environment.
    net,            \* requests on their way to the broker, in order
    broker,         \* the topics the broker has for this receiver
    endpoint,       \* the queue exists
    kept,           \* the topics that a removal, failed or refused, has left to the broker
    overlap         \* two calls modified one topic at the same time

tableVars  == <<table, results>>
issueVars  == <<issued, net>>
failVars   == <<failed, kept>>
brokerVars == <<broker, endpoint>>
termVars   == <<state, startPC, termPC, writeLock>>
callVars   == <<callPC, overlap, outstanding, subscriptions>>
vars == <<kind, up, core, termVars, callVars, tableVars, issueVars, failVars, brokerVars>>

Init ==
    /\ kind \in Kinds
    /\ up = TRUE /\ core = "running" /\ state = "Starting"
    /\ subscriptions = Initial
    /\ callPC = [c \in Calls |-> "idle"] /\ overlap = FALSE
    /\ startPC = "subscribe" /\ termPC = "idle" /\ writeLock = FALSE
    /\ table = {} /\ results = [id \in Ids |-> "none"] /\ issued = {} /\ outstanding = {}
    /\ failed = {} /\ kept = {}
    /\ net = <<>> /\ broker = {} /\ endpoint = FALSE

-----------------------------------------------------------------------------
(* The correlation tables of the core receiver and provisioner.            *)

(* newSubscriptionCorrelation and the call of the session; when that fails *)
(* the correlation is cleared again.                                       *)
Issue(id, op, t) ==
    /\ up
    /\ table' = table \cup {id} /\ issued' = issued \cup {id}
    /\ net' = Append(net, [id |-> id, op |-> op, topic |-> t])
    /\ UNCHANGED results

IssueFails == UNCHANGED <<tableVars, issueVars>>

(* Unsubscribe for Start or Terminate, which log an error and go on: the   *)
(* topic stays with the broker.                                            *)
Unsubscribe(tag, t) ==
    \/ Issue(<<tag, t>>, "remove", t) /\ UNCHANGED failVars
    \/ IssueFails /\ failed' = failed \cup {<<tag, t>>} /\ kept' = kept \cup {t}
Attempted(tag, t) == <<tag, t>> \in issued \cup failed

(* Provision and Deprovision of the core, on the one queue.                *)
Provision(id, op) == Issue(id, op, "queue")

(* Mutant: the correlation outlives the event it was made for.             *)
HandleSubscriptionEvent_Keep(id, outcome) ==
    /\ table' = table
    /\ results' = [results EXCEPT ![id] = IF id \in table THEN outcome ELSE @]
HandleSubscriptionEvent(id, outcome) ==
    /\ table' = table \ {id}
    /\ results' = [results EXCEPT ![id] = IF id \in table THEN outcome ELSE @]

(* handleProvisionAndDeprovisionEvent works alike on provisionCorrelation. *)
HandleProvisionEvent(id, outcome) == HandleSubscriptionEvent(id, outcome)

(* What the broker may make of a request: the outcome and the state left.  *)
(* An endpoint that exists (or is missing) is an error unless the caller   *)
(* asked to ignore that.                                                   *)
Verdicts(q) ==
    CASE q.op = "add"    -> {<<"ok", broker \cup {q.topic}, endpoint>>,
                             <<"error", broker, endpoint>>}
      [] q.op = "remove" -> {<<IF q.topic \in broker THEN "ok" ELSE "error",
                               broker \ {q.topic}, endpoint>>,
                             <<"error", broker, endpoint>>}
      [] q.op = "provision" ->
            {<<outcome, broker, TRUE>> : outcome \in {"ok"} \cup {x \in {"error"} : endpoint}}
      [] q.op = "deprovision" ->
            {<<outcome, broker, FALSE>> : outcome \in {"ok"} \cup {x \in {"error"} : ~endpoint}}

(* The broker answers the oldest request and the session's thread hands    *)
(* the event to the table.                                                 *)
BrokerAnswers ==
    /\ up /\ net # <<>>
    /\ \E v \in Verdicts(Head(net)) :
        /\ IF Modifies(Head(net).op) THEN HandleSubscriptionEvent(Head(net).id, v[1])
                                     ELSE HandleProvisionEvent(Head(net).id, v[1])
        /\ broker' = v[2] /\ endpoint' = v[3]
    /\ kept' = IF Head(net).op = "remove" THEN kept \cup (broker' \cap {Head(net).topic}) ELSE kept
    /\ net' = Tail(net)
    /\ UNCHANGED <<kind, up, core, termVars, callVars, issued, failed>>

SessionLost ==
    /\ up
    /\ up' = FALSE /\ net' = <<>> /\ broker' = {} /\ kept' = {}
    /\ UNCHANGED <<kind, core, termVars, callVars, tableVars, issued, failed, endpoint>>

(* transport.Close, which follows a disconnect and a down event: terminate *)
(* takes the event handlers away and then answers whoever still waits.     *)
CoreTerminate ==
    /\ core = "running" /\ ~up
    /\ core' = "closing"
    /\ UNCHANGED <<kind, up, termVars, callVars, tableVars, issueVars, failVars, brokerVars>>

(* Mutant: the table is emptied and nobody is told.                        *)
Interrupt_Silent(ids) == table' = table \ ids /\ UNCHANGED results
(* Whoever waits for one of ids is told that the service is gone.          *)
Interrupt(ids) ==
    /\ table' = table \ ids
    /\ results' = [id \in Ids |-> IF id \in table \cap ids THEN "error" ELSE results[id]]

Provisions == {<<"call", c>> : c \in {c \in Calls : ~Modifies(OpOf[c])}}

CoreSweep ==
    /\ core = "closing" /\ core' = "swept"
    /\ Interrupt(Ids \ Provisions)
    /\ UNCHANGED <<kind, up, termVars, callVars, issueVars, failVars, brokerVars>>

(* The provisioner's terminate, after that of the receiver.                *)
CoreSweepsProvisions ==
    /\ core = "swept" /\ core' = "closed"
    /\ Interrupt(Provisions)
    /\ UNCHANGED <<kind, up, termVars, callVars, issueVars, failVars, brokerVars>>

-----------------------------------------------------------------------------
(* AddSubscription, RemoveSubscription, Provision, Deprovision.            *)

Id(c) == <<"call", c>>
Goto(c, pc) == callPC' = [callPC EXCEPT ![c] = pc]

(* addSubscription and removeSubscription hold the read lock of            *)
(* subscriptionTerminationLock in these places.                            *)
Inside(c) == Modifies(OpOf[c]) /\ callPC[c] \in {"in", "issued"}

(* Mutant: the state is not checked again under the lock.                  *)
Accepts_Stale(c) == IF Modifies(OpOf[c]) THEN state # "Starting" ELSE core = "running"
Accepts(c) == IF Modifies(OpOf[c]) THEN state = "Started" ELSE core = "running"

CallEnter(c) ==
    /\ callPC[c] = "idle" /\ state # "Starting"
    /\ Modifies(OpOf[c]) => ~writeLock
    /\ Goto(c, IF Accepts(c) THEN "in" ELSE "refused")
    /\ UNCHANGED <<kind, up, core, termVars, overlap, outstanding, subscriptions, tableVars,
                   issueVars, failVars, brokerVars>>

(* A destroyed flow takes no further request.                              *)
FlowGone == kind = "persistent" /\ state = "Terminated"

CallIssue(c) ==
    /\ callPC[c] = "in"
    /\ \/ /\ Modifies(OpOf[c]) /\ ~FlowGone
          /\ Issue(Id(c), OpOf[c], TopicOf[c]) /\ Goto(c, "issued")
       \/ /\ ~Modifies(OpOf[c])
          /\ Provision(Id(c), OpOf[c]) /\ Goto(c, "await")
       \/ IssueFails /\ Goto(c, "refused")
    /\ overlap' = (overlap \/ (/\ Modifies(OpOf[c])
                               /\ \E d \in Calls \ {c} : /\ TopicOf[d] = TopicOf[c]
                                                         /\ Inside(d)))
    /\ UNCHANGED <<kind, up, core, termVars, outstanding, subscriptions, failVars, brokerVars>>

addCorrelation(c) ==
    outstanding' = IF kind = "persistent" THEN outstanding \cup {Id(c)} ELSE outstanding
clearCorrelation(c) == outstanding' = outstanding \ {Id(c)}

(* The list is brought up to date after the request was made, under a lock *)
(* of its own; the persistent receiver notes the correlation first.        *)
CallNote(c) ==
    /\ callPC[c] = "issued"
    /\ subscriptions' = IF OpOf[c] = "add" THEN subscriptions \cup {TopicOf[c]}
                                           ELSE subscriptions \ {TopicOf[c]}
    /\ addCorrelation(c)
    /\ Goto(c, "await")
    /\ UNCHANGED <<kind, up, core, termVars, overlap, tableVars, issueVars, failVars, brokerVars>>

CallConfirmed(c) ==
    /\ callPC[c] = "await" /\ results[Id(c)] # "none"
    /\ Goto(c, IF results[Id(c)] = "ok" THEN "ok" ELSE "error")
    /\ clearCorrelation(c)
    /\ UNCHANGED <<kind, up, core, termVars, overlap, subscriptions, tableVars, issueVars,
                   failVars, brokerVars>>

AddOrRemove(c) == Modifies(OpOf[c]) /\ (CallIssue(c) \/ CallNote(c) \/ CallConfirmed(c))
ProvisionEndpoint(c) == ~Modifies(OpOf[c]) /\ (CallIssue(c) \/ CallConfirmed(c))
Call(c) == AddOrRemove(c) \/ ProvisionEndpoint(c)

-----------------------------------------------------------------------------
(* Start.                                                                  *)

Answered(tag) == \A id \in issued : id[1] = tag => results[id] # "none"

StartSubscribe ==
    /\ startPC = "subscribe"
    /\ IF \A t \in Initial : <<"start", t>> \in issued
       THEN startPC' = "await" /\ IssueFails
       ELSE \/ \E t \in Initial : /\ <<"start", t>> \notin issued
                                  /\ Issue(<<"start", t>>, "add", t)
                                  /\ UNCHANGED startPC
            \/ startPC' = "undo" /\ IssueFails
    /\ UNCHANGED <<kind, up, core, state, termPC, writeLock, callVars, failVars, brokerVars>>

StartConfirmed ==
    /\ startPC = "await"
    /\ \/ /\ \A t \in Initial : results[<<"start", t>>] = "ok"
          /\ startPC' = "done" /\ state' = "Started"
       \/ /\ \E t \in Initial : results[<<"start", t>>] = "error"
          /\ startPC' = "undo" /\ UNCHANGED state
    /\ UNCHANGED <<kind, up, core, termPC, writeLock, callVars, tableVars, issueVars,
                   failVars, brokerVars>>

Undone == {t \in Initial : <<"start", t>> \in issued /\ ~Attempted("undo", t)}

(* A failed Start of a direct receiver takes back what it added; of a      *)
(* persistent one it destroys the flow and clears its correlations.        *)
StartUndo ==
    /\ startPC = "undo"
    /\ \/ /\ kind = "direct"
          /\ \E t \in Undone : Unsubscribe("undo", t)
          /\ UNCHANGED <<startPC, state>>
       \/ /\ kind = "direct" /\ Undone = {} /\ Answered("undo")
          /\ startPC' = "failed" /\ state' = "Terminated" /\ IssueFails /\ UNCHANGED failVars
       \/ /\ kind = "persistent"
          /\ table' = {id \in table : id[1] # "start"}
          /\ net' = SelectSeq(net, LAMBDA q : q.id[1] # "start")
          /\ startPC' = "failed" /\ state' = "Terminated" /\ UNCHANGED <<results, issued, failVars>>
    /\ UNCHANGED <<kind, up, core, termPC, writeLock, callVars, brokerVars>>

-----------------------------------------------------------------------------
(* Terminate and unsolicitedTermination, as far as subscriptions go.       *)

TerminateSwap ==
    /\ state = "Started" /\ termPC = "idle"
    /\ state' = "Terminating" /\ termPC' = "lock"
    /\ UNCHANGED <<kind, up, core, startPC, writeLock, callVars, tableVars, issueVars,
                   failVars, brokerVars>>

(* A down event of the session, or of the flow: nothing is unsubscribed.   *)
UnsolicitedTermination ==
    /\ state = "Started" /\ (kind = "direct" => ~up)
    /\ state' = "Terminated" /\ termPC' = "down"
    /\ net' = IF kind = "persistent"
              THEN SelectSeq(net, LAMBDA q : ~Modifies(q.op)) ELSE net
    /\ UNCHANGED <<kind, up, core, startPC, writeLock, callVars, tableVars, issued,
                   failVars, brokerVars>>

(* cleanupSubscriptions keeps the write lock until every topic is answered.*)
CleanupLock ==
    /\ termPC = "lock" /\ kind = "direct"
    /\ ~\E c \in Calls : Inside(c)
    /\ writeLock' = TRUE /\ termPC' = "unsubscribe"
    /\ UNCHANGED <<kind, up, core, state, startPC, callVars, tableVars, issueVars, failVars,
                   brokerVars>>

CleanupUnsubscribe ==
    /\ termPC = "unsubscribe"
    /\ \E t \in subscriptions : ~Attempted("stop", t) /\ Unsubscribe("stop", t)
    /\ UNCHANGED <<kind, up, core, termVars, callVars, brokerVars>>

CleanupDone ==
    /\ termPC = "unsubscribe" /\ Answered("stop")
    /\ \A t \in subscriptions : Attempted("stop", t)
    /\ writeLock' = FALSE /\ termPC' = "done" /\ state' = "Terminated"
    /\ UNCHANGED <<kind, up, core, startPC, callVars, tableVars, issueVars, failVars, brokerVars>>

(* The deferred calls of the persistent Terminate: the correlations are    *)
(* cleared, then the flow is destroyed.                                    *)
ClearOutstanding ==
    /\ termPC = "lock" /\ kind = "persistent"
    /\ table' = table \ outstanding /\ outstanding' = {}
    /\ termPC' = "destroy"
    /\ UNCHANGED <<kind, up, core, state, startPC, writeLock, callPC, overlap, subscriptions,
                   results, issueVars, failVars, brokerVars>>

DestroyFlow ==
    /\ termPC = "destroy"
    /\ net' = SelectSeq(net, LAMBDA q : ~Modifies(q.op))
    /\ state' = "Terminated" /\ termPC' = "done"
    /\ UNCHANGED <<kind, up, core, startPC, writeLock, callVars, tableVars, issued, failVars,
                   brokerVars>>

Terminator ==
    CleanupLock \/ CleanupUnsubscribe \/ CleanupDone \/ ClearOutstanding \/ DestroyFlow

-----------------------------------------------------------------------------
Running ==
    \/ \E c \in Calls : Call(c)
    \/ StartSubscribe \/ StartConfirmed \/ StartUndo \/ Terminator
    \/ BrokerAnswers \/ CoreTerminate \/ CoreSweep
    \/ CoreSweepsProvisions

Environment ==
    \/ \E c \in Calls : CallEnter(c)
    \/ TerminateSwap \/ UnsolicitedTermination \/ SessionLost

Next == Running \/ Environment

Spec == Init /\ [][Next]_vars
FairSpec == Spec /\ WF_vars(Running)

-----------------------------------------------------------------------------
(* Nobody is told twice: a correlation leaves the table when its event is  *)
(* delivered, so neither a late event nor the sweep of terminate sends on  *)
(* a result channel that is full, which would block the session's thread   *)
(* while it holds the table's lock.                                        *)
SessionThreadNeverBlocks == \A id \in table : results[id] = "none"

(* A direct receiver that Terminate or a failed Start has ended leaves no  *)
(* subscription behind on the session, but for one whose removal a call of *)
(* RemoveSubscription has sent and still waits for: such a topic is off    *)
(* the list already and Terminate does not wait for it. An Add and a       *)
(* Remove of one topic that overlap may update the list in the opposite    *)
(* order and are left out, and so is a topic of which a removal failed or  *)
(* was refused: Start and Terminate log that and go on.                    *)
BeingRemoved(t) ==
    \E i \in 1..Len(net) : net[i].op = "remove" /\ net[i].topic = t /\ net[i].id[1] = "call"
NoSubscriptionLeft ==
    kind = "direct" /\ state = "Terminated" /\ up /\ ~overlap =>
        \A t \in broker : BeingRemoved(t) \/ t \in kept

(* The call waits for the confirmation of a persistent receiver's flow     *)
(* that Terminate or a down event has destroyed: it is told nothing, at    *)
(* least until the service closes.                                         *)
Forgotten(c) ==
    /\ kind = "persistent" /\ Modifies(OpOf[c]) /\ callPC[c] = "await"
    /\ state \in {"Terminating", "Terminated"}

(* Every wait for a confirmation ends: of the application's calls, of      *)
(* Start, and of Terminate although it keeps a lock the calls need.        *)
AtRest ==
    /\ \A c \in Calls : callPC[c] \in {"idle", "refused", "ok", "error"} \/ Forgotten(c)
    /\ state \in {"Started", "Terminated"}
EveryWaitEnds == <>[]AtRest

=============================================================================
