------------------------- MODULE Subscriptions_proofs -------------------------
(***************************************************************************)
(* What a direct receiver asks of the session.  The correlation tables     *)
(* never block the session's thread and the receiver leaves no             *)
(* subscription behind, for any topics and calls.  Its cache requests,     *)
(* module Cache, never block the context thread before the receiver tears  *)
(* its cache down, are answered once at most, and send on no closed        *)
(* channel unless they are overtaken by that, for any requests.            *)
(***************************************************************************)
EXTENDS Subscriptions, Cache, FiniteSetTheorems, TLAPS

(* A result is sent once, on a channel whose correlation has left the      *)
(* table, and a call that has not issued its request has none.             *)
Delivery ==
    /\ DOMAIN results = Ids
    /\ issued \subseteq Ids /\ table \subseteq issued
    /\ \A id \in Ids : results[id] # "none" => id \in issued \ table
    /\ DOMAIN callPC = Calls
    /\ \A c \in Calls : callPC[c] \in {"idle", "in"} => Id(c) \notin issued

(* Whatever leaves the table and the set of issued requests alone, and no  *)
(* call before its request, keeps this.                                    *)
LEMMA DeliveryFrame ==
    ASSUME Delivery, UNCHANGED <<tableVars, issued>>,
           \/ UNCHANGED callPC
           \/ \E c \in Calls : \E pc : callPC[c] # "idle" /\ Goto(c, pc) /\ pc \notin {"idle", "in"}
           \/ \E c \in Calls : \E pc : callPC[c] = "idle" /\ Goto(c, pc)
    PROVE  Delivery'
BY DEF Delivery, tableVars, Goto, Id, Ids

(* A request that was not issued before may be issued.                     *)
LEMMA IssueDelivery ==
    ASSUME Delivery, NEW id \in Ids \ issued, NEW op, NEW t, Issue(id, op, t),
           \/ UNCHANGED callPC /\ id[1] # "call"
           \/ \E c \in Calls : \E pc : /\ id = Id(c) /\ Goto(c, pc) /\ pc \notin {"idle", "in"}
    PROVE  Delivery'
BY DEF Delivery, Issue, Goto, Id, Ids

(* The answer to a request is sent to whoever is still in the table.       *)
LEMMA EventDelivery ==
    ASSUME Delivery, NEW id, NEW outcome, HandleSubscriptionEvent(id, outcome),
           UNCHANGED <<issued, callPC>>
    PROVE  Delivery'
BY DEF Delivery, HandleSubscriptionEvent

(* So is the error when the service goes.                                  *)
LEMMA InterruptDelivery ==
    ASSUME Delivery, NEW ids, Interrupt(ids), UNCHANGED <<issued, callPC>>
    PROVE  Delivery'
BY DEF Delivery, Interrupt

(* Withdrawing correlations sends nothing.                                 *)
LEMMA WithdrawDelivery ==
    ASSUME Delivery, table' \subseteq table, UNCHANGED <<results, issued, callPC>>
    PROVE  Delivery'
BY DEF Delivery

(* The steps of an application's call keep it.                             *)
LEMMA CallDelivery ==
    ASSUME Delivery, NEW c \in Calls, Call(c) \/ CallEnter(c)
    PROVE  Delivery'
<1> USE SubscriptionsAssumption
<1>1. CASE CallEnter(c)
  BY <1>1, DeliveryFrame DEF CallEnter, issueVars, Goto
<1>2. CASE CallIssue(c)
  <2>1. Id(c) \in Ids \ issued
    BY <1>2 DEF CallIssue, Delivery, Id, Ids
  <2>2. ASSUME NEW op, NEW t, NEW pc \in {"issued", "await"}, Issue(Id(c), op, t), Goto(c, pc)
        PROVE  Delivery'
    BY <2>1, <2>2, IssueDelivery
  <2>3. CASE IssueFails /\ Goto(c, "refused")
    <3>1. callPC[c] # "idle" BY <1>2 DEF CallIssue
    <3>2. QED BY <2>3, <3>1, DeliveryFrame DEF IssueFails, issueVars
  <2>4. QED BY <1>2, <2>2, <2>3 DEF CallIssue, Provision
<1>3. CASE CallNote(c)
  BY <1>3, DeliveryFrame DEF CallNote, issueVars
<1>4. CASE CallConfirmed(c)
  <2>1. PICK pc \in {"ok", "error"} : Goto(c, pc)
    BY <1>4 DEF CallConfirmed
  <2>2. QED BY <1>4, <2>1, DeliveryFrame DEF CallConfirmed, issueVars
<1>5. QED BY <1>1, <1>2, <1>3, <1>4 DEF Call, AddOrRemove, ProvisionEndpoint

(* So do the steps of Start.                                               *)
LEMMA StartDelivery ==
    ASSUME Delivery, StartSubscribe \/ StartConfirmed \/ StartUndo
    PROVE  Delivery'
<1> USE SubscriptionsAssumption
<1>1. ASSUME NEW t \in Initial, NEW tag \in {"start", "undo"}, NEW op, <<tag, t>> \notin issued,
             Issue(<<tag, t>>, op, t), UNCHANGED callPC
      PROVE  Delivery'
  BY <1>1, IssueDelivery DEF Ids
<1>2. CASE StartSubscribe
  BY <1>1, <1>2, DeliveryFrame DEF StartSubscribe, IssueFails, issueVars, callVars
<1>3. CASE StartConfirmed
  BY <1>3, DeliveryFrame DEF StartConfirmed, issueVars, callVars
<1>4. CASE StartUndo
  BY <1>1, <1>4, DeliveryFrame, WithdrawDelivery
     DEF StartUndo, Undone, Attempted, Unsubscribe, IssueFails, issueVars, callVars
<1>5. QED BY <1>2, <1>3, <1>4

(* So do those of Terminate and of unsolicitedTermination.                 *)
LEMMA TerminateDelivery ==
    ASSUME Delivery, subscriptions \subseteq Topics,
           TerminateSwap \/ UnsolicitedTermination \/ Terminator
    PROVE  Delivery'
<1>1. CASE CleanupUnsubscribe
  <2>1. PICK t \in subscriptions : ~Attempted("stop", t) /\ Unsubscribe("stop", t)
    BY <1>1 DEF CleanupUnsubscribe
  <2>2. UNCHANGED callPC
    BY <1>1 DEF CleanupUnsubscribe, callVars
  <2>3. CASE Issue(<<"stop", t>>, "remove", t)
    BY <2>1, <2>2, <2>3, IssueDelivery DEF Attempted, Ids
  <2>4. CASE IssueFails
    BY <2>2, <2>4, DeliveryFrame DEF IssueFails, issueVars
  <2>5. QED BY <2>1, <2>3, <2>4 DEF Unsubscribe
<1>2. CASE ClearOutstanding
  BY <1>2, WithdrawDelivery DEF ClearOutstanding, issueVars
<1>3. CASE TerminateSwap \/ UnsolicitedTermination \/ CleanupLock \/ CleanupDone \/ DestroyFlow
  BY <1>3, DeliveryFrame
     DEF TerminateSwap, UnsolicitedTermination, CleanupLock, CleanupDone, DestroyFlow,
         issueVars, callVars
<1>4. QED BY <1>1, <1>2, <1>3 DEF Terminator

(* So do the broker, the session and the core.                             *)
LEMMA CoreDelivery ==
    ASSUME Delivery,
           \/ BrokerAnswers \/ SessionLost \/ UNCHANGED vars
           \/ CoreTerminate \/ CoreSweep \/ CoreSweepsProvisions
    PROVE  Delivery'
<1>1. CASE BrokerAnswers
  BY <1>1, EventDelivery DEF BrokerAnswers, HandleProvisionEvent, callVars
<1>2. CASE CoreSweep \/ CoreSweepsProvisions
  BY <1>2, InterruptDelivery DEF CoreSweep, CoreSweepsProvisions, issueVars, callVars
<1>3. CASE SessionLost \/ CoreTerminate \/ UNCHANGED vars
  BY <1>3, DeliveryFrame DEF SessionLost, CoreTerminate, vars, issueVars, callVars
<1>4. QED BY <1>1, <1>2, <1>3

(* The receiver's list holds topics only. *)
ListOK == subscriptions \subseteq Topics

(* A step changes the list only in CallNote.                               *)
LEMMA ListKeeps == ASSUME ListOK, [Next]_vars PROVE ListOK'
<1>1. ASSUME NEW c \in Calls, CallNote(c) PROVE ListOK'
  BY <1>1, SubscriptionsAssumption DEF ListOK, CallNote
<1>2. ASSUME ~\E c \in Calls : CallNote(c) PROVE UNCHANGED subscriptions
  BY <1>2 DEF Next, Running, Environment, Call, AddOrRemove, ProvisionEndpoint, CallEnter,
     CallIssue, CallConfirmed, StartSubscribe, StartConfirmed, StartUndo, Terminator,
     TerminateSwap, UnsolicitedTermination, CleanupLock, CleanupUnsubscribe, CleanupDone,
     ClearOutstanding, DestroyFlow, BrokerAnswers, SessionLost, CoreTerminate, CoreSweep,
     CoreSweepsProvisions, vars, callVars
<1>3. QED BY <1>1, <1>2 DEF ListOK

(* Every step keeps the two.                                               *)
LEMMA NextDelivery == ASSUME Delivery, ListOK, [Next]_vars PROVE Delivery'
BY CallDelivery, StartDelivery, TerminateDelivery, CoreDelivery
   DEF Next, Running, Environment, ListOK

(* The two hold of every reachable state.                                  *)
LEMMA DeliveryInvariance == Spec => [](Delivery /\ ListOK)
<1>1. Init => Delivery /\ ListOK
  BY SubscriptionsAssumption DEF Init, Delivery, ListOK
<1>2. Delivery /\ ListOK /\ [Next]_vars => Delivery' /\ ListOK'
  BY NextDelivery, ListKeeps
<1>3. QED BY <1>1, <1>2, PTL DEF Spec

(* The session's thread finds room in every result channel: an event, the  *)
(* sweep of terminate or a withdrawal is the last to see a correlation.    *)
THEOREM NeverBlocks == Spec => []SessionThreadNeverBlocks
<1>1. Delivery => SessionThreadNeverBlocks
  BY DEF Delivery, SessionThreadNeverBlocks
<1>2. QED BY <1>1, DeliveryInvariance, PTL

-----------------------------------------------------------------------------
(***************************************************************************)
(* What a direct receiver leaves behind. The requests reach the broker in  *)
(* order, so a topic may remain there if the last request for it is not a  *)
(* removal. Until Terminate is through with its list, that is a topic of   *)
(* the list or one that AddSubscription is about to put there.             *)
(***************************************************************************)
NetRequests ==
    [id : Ids, op : {"add", "remove"}, topic : Topics] \cup
    [id : Ids, op : {"provision", "deprovision"}, topic : {"queue"}]

Adds(q, t) == q.op = "add" /\ q.topic = t
Removes(q, t) == q.op = "remove" /\ q.topic = t

MayRemain(b, n, t) ==
    \/ t \in b /\ \A j \in 1..Len(n) : ~Removes(n[j], t)
    \/ \E i \in 1..Len(n) : Adds(n[i], t) /\ \A j \in i+1..Len(n) : ~Removes(n[j], t)

(* Start precedes Terminate, and cleanupSubscriptions keeps calls out.     *)
Phases ==
    /\ startPC \in {"subscribe", "await", "undo", "failed", "done"}
    /\ termPC \in {"idle", "lock", "unsubscribe", "done", "down"}
    /\ startPC \in {"subscribe", "await", "undo"} =>
          state = "Starting" /\ termPC = "idle" /\ subscriptions = Initial
    /\ startPC = "failed" => state = "Terminated" /\ termPC = "idle"
    /\ startPC = "done" =>
          state = CASE termPC = "idle" -> "Started"
                    [] termPC \in {"lock", "unsubscribe"} -> "Terminating"
                    [] termPC \in {"done", "down"} -> "Terminated"
    /\ termPC = "down" => ~up
    /\ termPC = "unsubscribe" => writeLock
    /\ core # "running" => ~up
    /\ \A c \in Calls : Inside(c) => startPC = "done" /\ termPC \in {"idle", "lock", "down"}
    /\ \A c \in Calls : callPC[c] = "issued" => Modifies(OpOf[c])

(* A request is on its way as long as its correlation is in the table.     *)
InFlight ==
    up => /\ net \in Seq(NetRequests)
          /\ \A i \in 1..Len(net) : net[i].id \in table
          /\ \A i, j \in 1..Len(net) : net[i].id = net[j].id => i = j

(* Which goroutine asks for removals, and when.                            *)
Tagged ==
    /\ \A id \in issued : id[1] = "undo" => startPC \in {"undo", "failed"}
    /\ \A id \in issued : id[1] = "stop" => termPC \in {"unsubscribe", "done"}
    /\ up => /\ \A i \in 1..Len(net) : net[i].op = "remove" => net[i].id[1] # "start"
             /\ state = "Terminated" =>
                   \A i \in 1..Len(net) : net[i].op = "remove" => net[i].id[1] = "call"

(* A topic that may remain, unless a removal has left it, is one that      *)
(* somebody still has to remove.                                           *)
ToRemove(t) ==
    \/ /\ startPC \in {"subscribe", "await", "undo"} /\ t \in Initial
       /\ <<"start", t>> \in issued /\ <<"undo", t>> \notin issued
    \/ /\ startPC = "done" /\ state # "Terminated" /\ <<"stop", t>> \notin issued
       /\ \/ t \in subscriptions
          \/ \E c \in Calls : callPC[c] = "issued" /\ OpOf[c] = "add" /\ TopicOf[c] = t

Listed ==
    up /\ ~overlap =>
       /\ \A c, d \in Calls : callPC[c] = "issued" /\ callPC[d] = "issued"
                               /\ TopicOf[c] = TopicOf[d] => c = d
       /\ \A c \in Calls : callPC[c] = "issued" /\ OpOf[c] = "remove" /\ TopicOf[c] \notin kept
                            => ~MayRemain(broker, net, TopicOf[c])
       /\ \A t \in Topics \ kept : MayRemain(broker, net, t) => ToRemove(t)

BrokerOK == up => broker \subseteq Topics

(* A removal that Start or Terminate could not ask for leaves its topic.   *)
FailuresKept ==
    up => \A t \in Topics : <<"undo", t>> \in failed \/ <<"stop", t>> \in failed => t \in kept

Left == Phases /\ InFlight /\ Tagged /\ BrokerOK /\ FailuresKept /\ Listed
LeftInv == kind = "direct" => Left

-----------------------------------------------------------------------------
(* A new request lets its own topic remain if it is an addition, ends that *)
(* of its topic if it is a removal, and changes nothing for the others.    *)
LEMMA AppendRemain ==
    ASSUME NEW n \in Seq(NetRequests), NEW q \in NetRequests, NEW b, NEW t,
           MayRemain(b, Append(n, q), t)
    PROVE  ~Removes(q, t) /\ (MayRemain(b, n, t) \/ Adds(q, t))
<1> DEFINE m == Append(n, q)
<1>1. Len(m) = Len(n) + 1 /\ m[Len(n) + 1] = q /\ Len(n) \in Nat
  OBVIOUS
<1>2. \A i \in 1..Len(n) : m[i] = n[i]
  OBVIOUS
<1> HIDE DEF m
<1>3. MayRemain(b, m, t)
  BY DEF m
<1>4. CASE t \in b /\ \A j \in 1..Len(m) : ~Removes(m[j], t)
  <2>1. Len(n) + 1 \in 1..Len(m) /\ \A j \in 1..Len(n) : j \in 1..Len(m)
    BY <1>1
  <2>2. ~Removes(q, t) /\ \A j \in 1..Len(n) : ~Removes(n[j], t)
    BY <1>1, <1>2, <1>4, <2>1
  <2>3. QED BY <1>4, <2>2 DEF MayRemain
<1>5. CASE \E i \in 1..Len(m) : Adds(m[i], t) /\ \A j \in i+1..Len(m) : ~Removes(m[j], t)
  <2>1. PICK i \in 1..Len(m) : Adds(m[i], t) /\ \A j \in i+1..Len(m) : ~Removes(m[j], t)
    BY <1>5
  <2>2. CASE i = Len(n) + 1
    BY <1>1, <2>1, <2>2 DEF Adds, Removes
  <2>3. CASE i \in 1..Len(n)
    <3>1. Len(n) + 1 \in i+1..Len(m) /\ \A j \in i+1..Len(n) : j \in i+1..Len(m) /\ j \in 1..Len(n)
      BY <1>1, <2>3
    <3>2. ~Removes(q, t) /\ Adds(n[i], t) /\ \A j \in i+1..Len(n) : ~Removes(n[j], t)
      BY <1>1, <1>2, <2>1, <2>3, <3>1
    <3>3. QED BY <2>3, <3>2 DEF MayRemain
  <2>4. QED BY <1>1, <2>2, <2>3
<1>6. QED BY <1>3, <1>4, <1>5 DEF MayRemain

(* An answer lets no topic remain that might not have before.              *)
LEMMA TailRemain ==
    ASSUME NEW n \in Seq(NetRequests), n # <<>>, NEW b, NEW b2, NEW t,
           t \in b2 => (t \in b /\ ~Removes(Head(n), t)) \/ Adds(Head(n), t),
           MayRemain(b2, Tail(n), t)
    PROVE  MayRemain(b, n, t)
<1> DEFINE m == Tail(n)
<1>1. /\ Len(n) \in Nat /\ Len(n) = Len(m) + 1 /\ Head(n) = n[1] /\ Len(m) \in Nat
      /\ \A i \in 1..Len(m) : m[i] = n[i+1]
  OBVIOUS
<1>2. MayRemain(b2, m, t)
  OBVIOUS
<1> HIDE DEF m
<1>3. \A j \in 2..Len(n) : j - 1 \in 1..Len(m) /\ m[j-1] = n[j]
  BY <1>1
<1>4. CASE t \in b2 /\ \A j \in 1..Len(m) : ~Removes(m[j], t)
  <2>1. \A j \in 2..Len(n) : ~Removes(n[j], t)
    BY <1>3, <1>4
  <2>2. CASE t \in b /\ ~Removes(Head(n), t)
    BY <1>1, <2>1, <2>2 DEF MayRemain
  <2>3. CASE Adds(Head(n), t)
    <3>1. 1 \in 1..Len(n) /\ Adds(n[1], t) /\ \A j \in 1+1..Len(n) : ~Removes(n[j], t)
      BY <1>1, <2>1, <2>3
    <3>2. QED BY <3>1 DEF MayRemain
  <2>4. QED BY <1>4, <2>2, <2>3
<1>5. CASE \E i \in 1..Len(m) : Adds(m[i], t) /\ \A j \in i+1..Len(m) : ~Removes(m[j], t)
  <2>1. PICK i \in 1..Len(m) : Adds(m[i], t) /\ \A j \in i+1..Len(m) : ~Removes(m[j], t)
    BY <1>5
  <2>2. i + 1 \in 1..Len(n) /\ Adds(n[i+1], t)
    BY <1>1, <2>1
  <2>3. \A j \in (i+1)+1..Len(n) : ~Removes(n[j], t)
    BY <1>1, <1>3, <2>1
  <2>4. QED BY <2>2, <2>3 DEF MayRemain
<1>6. QED BY <1>2, <1>4, <1>5 DEF MayRemain

(* A request that was not issued before joins those in flight.             *)
LEMMA IssueInFlight ==
    ASSUME Delivery, InFlight, NEW id \in Ids \ issued, NEW op, NEW t,
           [id |-> id, op |-> op, topic |-> t] \in NetRequests, Issue(id, op, t), up'
    PROVE  /\ net \in Seq(NetRequests)
           /\ InFlight'
           /\ Len(net') = Len(net) + 1 /\ net'[Len(net) + 1] = [id |-> id, op |-> op, topic |-> t]
           /\ \A i \in 1..Len(net) : net'[i] = net[i]
<1> DEFINE q == [id |-> id, op |-> op, topic |-> t]
<1>1. q \in NetRequests /\ net \in Seq(NetRequests) /\ q.id = id
  BY DEF NetRequests, InFlight, Issue
<1> HIDE DEF q
<1>2. net' = Append(net, q) /\ table' = table \cup {id}
  BY DEF Issue, q
<1>3. net' \in Seq(NetRequests) /\ Len(net') = Len(net) + 1 /\ Len(net) \in Nat
  BY <1>1, <1>2
<1>4. net'[Len(net) + 1] = q /\ \A i \in 1..Len(net) : net'[i] = net[i]
  BY <1>1, <1>2
<1>5. \A i \in 1..Len(net) : net[i].id \in table /\ net[i].id # id
  BY DEF InFlight, Issue, Delivery
<1>6. \A i \in 1..Len(net') : i \in 1..Len(net) \/ i = Len(net) + 1
  BY <1>3
<1>7. \A i \in 1..Len(net') : net'[i].id \in table'
  BY <1>1, <1>2, <1>4, <1>5, <1>6
<1>8. ASSUME NEW i \in 1..Len(net'), NEW j \in 1..Len(net'), net'[i].id = net'[j].id
      PROVE  i = j
  <2>1. CASE i \in 1..Len(net) /\ j \in 1..Len(net)
    BY <1>4, <1>8, <2>1 DEF InFlight, Issue
  <2>2. CASE i = Len(net) + 1 \/ j = Len(net) + 1
    BY <1>1, <1>4, <1>5, <1>6, <1>8, <2>2
  <2>3. QED BY <1>6, <2>1, <2>2
<1>9. InFlight'
  BY <1>3, <1>7, <1>8 DEF InFlight
<1>10. QED BY <1>1, <1>3, <1>4, <1>9 DEF q

(* Steps that touch neither the session nor the table nor the list.        *)
LEMMA QuietLeft ==
    ASSUME Left, UNCHANGED <<up, net, table, issued, broker, subscriptions>>,
           UNCHANGED <<startPC, termPC, state, failVars>>, Phases', overlap => overlap',
           \A c \in Calls : callPC'[c] = "issued" <=> callPC[c] = "issued"
    PROVE  Left'
<1>1. InFlight' /\ Tagged' /\ BrokerOK' /\ FailuresKept'
  BY DEF Left, InFlight, Tagged, BrokerOK, FailuresKept, failVars
<1>2. Listed'
  BY DEF Left, Listed, ToRemove, Phases, failVars
<1>3. QED BY <1>1, <1>2 DEF Left

(* The steps of a call.                                                    *)
LEMMA CallEnterLeft ==
    ASSUME Left, Delivery, kind = "direct", NEW c \in Calls, CallEnter(c)
    PROVE  Left'
<1> USE SubscriptionsAssumption
<1>1. callPC' = [callPC EXCEPT ![c] = IF Accepts(c) THEN "in" ELSE "refused"]
      /\ DOMAIN callPC = Calls /\ callPC[c] = "idle"
  BY DEF CallEnter, Goto, Delivery
<1>2. Phases'
  BY <1>1 DEF Phases, Left, CallEnter, Inside, Accepts, termVars
<1>3. QED BY <1>1, <1>2, QuietLeft DEF CallEnter, termVars, tableVars, issueVars, brokerVars

(* A call that has its answer is no longer waiting for one.                *)
LEMMA CallConfirmedLeft ==
    ASSUME Left, Delivery, NEW c \in Calls, CallConfirmed(c)
    PROVE  Left'
<1>1. PICK pc \in {"ok", "error"} : callPC' = [callPC EXCEPT ![c] = pc]
  BY DEF CallConfirmed, Goto
<1>2. DOMAIN callPC = Calls /\ callPC[c] = "await"
  BY DEF CallConfirmed, Delivery
<1>3. Phases'
  BY <1>1, <1>2 DEF Phases, Left, CallConfirmed, Inside, termVars
<1>4. QED
  BY <1>1, <1>2, <1>3, QuietLeft DEF CallConfirmed, termVars, tableVars, issueVars, brokerVars

(* CallNote brings the list in line with the request: what is added was    *)
(* announced by the call, what is removed does not remain.                 *)
LEMMA CallNoteLeft ==
    ASSUME Left, Delivery, NEW c \in Calls, CallNote(c)
    PROVE  Left'
<1> USE SubscriptionsAssumption
<1>1. /\ callPC' = [callPC EXCEPT ![c] = "await"] /\ DOMAIN callPC = Calls
      /\ callPC[c] = "issued"
  BY DEF CallNote, Goto, Delivery
<1>2. UNCHANGED <<up, core, state, startPC, termPC, writeLock, overlap, table, issued, net, broker,
                  failed, kept>>
  BY DEF CallNote, termVars, tableVars, issueVars, failVars, brokerVars
<1>3. Phases'
  <2>1. Inside(c)
    BY <1>1 DEF Left, Phases, Inside
  <2>2. startPC = "done"
    BY <2>1 DEF Left, Phases
  <2>3. QED BY <1>1, <1>2, <2>2 DEF Phases, Left, Inside
<1>4. InFlight' /\ Tagged' /\ BrokerOK' /\ FailuresKept'
  BY <1>2 DEF Left, InFlight, Tagged, BrokerOK, FailuresKept
<1>5. ASSUME up, ~overlap PROVE Listed'
  <2>1. /\ \A d, e \in Calls : callPC'[d] = "issued" /\ callPC'[e] = "issued"
                               /\ TopicOf[d] = TopicOf[e] => d = e
        /\ \A d \in Calls : callPC'[d] = "issued" /\ OpOf[d] = "remove" /\ TopicOf[d] \notin kept
                            => ~MayRemain(broker, net, TopicOf[d])
    BY <1>1, <1>5 DEF Left, Listed
  <2>2. ASSUME NEW t \in Topics \ kept, MayRemain(broker, net, t) PROVE ToRemove(t)'
    <3>1. ToRemove(t)
      BY <1>5, <2>2 DEF Left, Listed
    <3>2. CASE startPC # "done"
      BY <1>2, <3>1, <3>2 DEF ToRemove
    <3>3. CASE startPC = "done" /\ OpOf[c] = "add"
      <4>1. subscriptions' = subscriptions \cup {TopicOf[c]}
        BY <3>3 DEF CallNote
      <4>2. QED BY <1>1, <1>2, <3>1, <3>3, <4>1 DEF ToRemove
    <3>4. CASE startPC = "done" /\ OpOf[c] = "remove"
      <4>1. subscriptions' = subscriptions \ {TopicOf[c]}
        BY <3>4 DEF CallNote
      <4>2. t # TopicOf[c]
        BY <1>1, <1>5, <2>2, <3>4 DEF Left, Listed
      <4>3. QED BY <1>1, <1>2, <3>1, <3>4, <4>1, <4>2 DEF ToRemove
    <3>5. OpOf[c] \in {"add", "remove"}
      BY <1>1 DEF Left, Phases, Modifies
    <3>6. QED BY <3>2, <3>3, <3>4, <3>5
  <2>3. QED BY <1>2, <2>1, <2>2 DEF Listed
<1>6. Listed'
  BY <1>2, <1>5 DEF Listed
<1>7. QED BY <1>3, <1>4, <1>6 DEF Left

(* What the broker may come to hold when a request is issued.              *)
LEMMA IssueRemain ==
    ASSUME Delivery, InFlight, NEW id \in Ids \ issued, NEW op, NEW t,
           [id |-> id, op |-> op, topic |-> t] \in NetRequests, Issue(id, op, t), up', UNCHANGED broker,
           NEW u, MayRemain(broker, net, u)'
    PROVE  ~(op = "remove" /\ u = t) /\ (MayRemain(broker, net, u) \/ (op = "add" /\ u = t))
<1> DEFINE q == [id |-> id, op |-> op, topic |-> t]
<1>1. net \in Seq(NetRequests)
  BY IssueInFlight
<1>2. MayRemain(broker, Append(net, q), u)
  BY DEF Issue
<1>3. ~Removes(q, u) /\ (MayRemain(broker, net, u) \/ Adds(q, u))
  BY <1>1, <1>2, AppendRemain
<1>4. QED BY <1>3 DEF Removes, Adds

(* CallIssue: an addition that may remain is one the call will list.       *)
LEMMA CallIssueLeft ==
    ASSUME Left, Delivery, NEW c \in Calls, CallIssue(c), kind = "direct"
    PROVE  Left'
<1> USE SubscriptionsAssumption
<1>1. DOMAIN callPC = Calls /\ callPC[c] = "in"
  BY DEF CallIssue, Delivery
<1>2. UNCHANGED <<up, core, state, startPC, termPC, writeLock, subscriptions, broker, failed, kept>>
  BY DEF CallIssue, termVars, failVars, brokerVars
<1>3. CASE IssueFails /\ Goto(c, "refused")
  <2>1. callPC' = [callPC EXCEPT ![c] = "refused"]
    BY <1>3 DEF Goto
  <2>2. Phases'
    BY <1>1, <1>2, <2>1 DEF Phases, Left, Inside
  <2>3. overlap => overlap'
    BY DEF CallIssue
  <2>4. QED
    BY <1>1, <1>2, <1>3, <2>1, <2>2, <2>3, QuietLeft
       DEF IssueFails, tableVars, issueVars, failVars
<1>4. ASSUME NEW pc \in {"issued", "await"}, NEW t,
             Goto(c, pc), Issue(Id(c), OpOf[c], t),
             pc = "issued" => Modifies(OpOf[c]) /\ t = TopicOf[c],
             pc = "await" => ~Modifies(OpOf[c]) /\ t = "queue"
      PROVE  Left'
  <2>1. callPC' = [callPC EXCEPT ![c] = pc] /\ up /\ up'
    BY <1>2, <1>4 DEF Goto, Issue
  <2>2. Id(c) \in Ids \ issued /\ Id(c)[1] = "call"
    BY <1>1 DEF Delivery, Id, Ids
  <2>3. /\ InFlight /\ Phases /\ Tagged /\ Listed
        /\ [id |-> Id(c), op |-> OpOf[c], topic |-> t] \in NetRequests
    BY <1>4, <2>2 DEF Left, NetRequests, Modifies
  <2>4. /\ InFlight' /\ Len(net') = Len(net) + 1 /\ Len(net) \in Nat
        /\ net'[Len(net) + 1] = [id |-> Id(c), op |-> OpOf[c], topic |-> t]
        /\ \A i \in 1..Len(net) : net'[i] = net[i]
    BY <1>4, <2>1, <2>2, <2>3, IssueInFlight
  <2>5. Phases'
    BY <1>1, <1>2, <1>4, <2>1, <2>3 DEF Phases, Inside
  <2>6. Tagged'
    <3>1. \A i \in 1..Len(net') : i \in 1..Len(net) \/ net'[i].id[1] = "call"
      BY <2>2, <2>4
    <3>2. issued' = issued \cup {Id(c)}
      BY <1>4 DEF Issue
    <3>3. QED BY <1>2, <2>1, <2>2, <2>3, <2>4, <3>1, <3>2 DEF Tagged
  <2>7. ASSUME NEW u, MayRemain(broker, net, u)'
        PROVE  /\ ~(OpOf[c] = "remove" /\ u = t)
               /\ MayRemain(broker, net, u) \/ (OpOf[c] = "add" /\ u = t)
    BY <1>2, <1>4, <2>1, <2>2, <2>3, <2>7, IssueRemain
  <2>8. ASSUME ~overlap' PROVE Listed'
    <3>1. ~overlap /\ (Modifies(OpOf[c]) => \A d \in Calls \ {c} : Inside(d) => TopicOf[d] # TopicOf[c])
      BY <2>8 DEF CallIssue
    <3>2. \A d \in Calls : d # c => callPC'[d] = callPC[d]
      BY <1>1, <2>1
    <3>3. \A d \in Calls : callPC[d] = "issued" => Inside(d)
      BY <2>3 DEF Phases, Inside
    <3>4. \A d \in Calls : callPC'[d] = "issued" /\ d # c =>
             callPC[d] = "issued" /\ (Modifies(OpOf[c]) => TopicOf[d] # TopicOf[c])
      BY <3>1, <3>2, <3>3
    <3>5. callPC'[c] = "issued" => Modifies(OpOf[c]) /\ t = TopicOf[c]
      BY <1>1, <1>4, <2>1
    <3>6. ASSUME NEW d \in Calls, NEW e \in Calls, callPC'[d] = "issued", callPC'[e] = "issued",
                 TopicOf[d] = TopicOf[e]
          PROVE  d = e
      BY <2>1, <2>3, <3>1, <3>4, <3>5, <3>6 DEF Listed
    <3>7. ASSUME NEW d \in Calls, callPC'[d] = "issued", OpOf[d] = "remove", TopicOf[d] \notin kept,
                 MayRemain(broker, net, TopicOf[d])'
          PROVE  FALSE
      <4>1. CASE d = c
        BY <2>7, <3>5, <3>7, <4>1
      <4>2. CASE d # c
        <5>1. callPC[d] = "issued" /\ (Modifies(OpOf[c]) => TopicOf[d] # TopicOf[c])
          BY <3>4, <3>7, <4>2
        <5>2. ~MayRemain(broker, net, TopicOf[d])
          BY <2>1, <2>3, <3>1, <3>7, <5>1 DEF Listed
        <5>3. OpOf[c] = "add" /\ TopicOf[d] = t
          BY <2>7, <3>7, <5>2
        <5>4. pc = "issued"
          BY <1>4, <5>3 DEF Modifies
        <5>5. QED BY <1>4, <5>1, <5>3, <5>4
      <4>3. QED BY <4>1, <4>2
    <3>8. ASSUME NEW u \in Topics \ kept, MayRemain(broker, net, u)' PROVE ToRemove(u)'
      <4>1. issued' = issued \cup {Id(c)}
        BY <1>4 DEF Issue
      <4>2. CASE MayRemain(broker, net, u)
        <5>1. ToRemove(u)
          BY <2>1, <2>3, <3>1, <4>2 DEF Listed
        <5>2. \A d \in Calls : callPC[d] = "issued" => callPC'[d] = "issued"
          BY <1>1, <3>2
        <5>3. QED BY <1>2, <2>2, <4>1, <5>1, <5>2 DEF ToRemove
      <4>3. CASE OpOf[c] = "add" /\ u = t
        <5>1. pc = "issued" /\ TopicOf[c] = u
          BY <1>4, <4>3 DEF Modifies
        <5>2. Inside(c)
          BY <1>1, <4>3 DEF Inside, Modifies
        <5>3. startPC = "done" /\ termPC \in {"idle", "lock"} /\ state # "Terminated"
          BY <2>1, <2>3, <5>2 DEF Phases
        <5>4. <<"stop", u>> \notin issued'
          BY <2>2, <2>3, <4>1, <5>3 DEF Tagged
        <5>5. callPC'[c] = "issued"
          BY <1>1, <2>1, <5>1
        <5>6. QED BY <1>2, <4>3, <5>1, <5>3, <5>4, <5>5 DEF ToRemove
      <4>4. QED BY <2>7, <3>8, <4>2, <4>3
    <3>9. QED BY <1>2, <3>6, <3>7, <3>8 DEF Listed
  <2>9. Listed'
    BY <2>8 DEF Listed
  <2>10. BrokerOK' /\ FailuresKept'
    BY <1>2 DEF Left, BrokerOK, FailuresKept
  <2>11. QED BY <2>4, <2>5, <2>6, <2>9, <2>10 DEF Left
<1>5. QED BY <1>3, <1>4 DEF CallIssue, Provision

(* Start: what it adds is on the list and it is the one to take it back.   *)
LEMMA StartSubscribeLeft ==
    ASSUME Left, Delivery, StartSubscribe
    PROVE  Left'
<1> USE SubscriptionsAssumption
<1>1. UNCHANGED <<up, core, state, termPC, writeLock, callPC, overlap, subscriptions, broker,
                  failed, kept>>
  BY DEF StartSubscribe, callVars, failVars, brokerVars
<1>2. /\ startPC = "subscribe" /\ Phases /\ InFlight /\ Tagged /\ BrokerOK /\ FailuresKept /\ Listed
      /\ \A c \in Calls : callPC[c] # "issued"
  BY DEF StartSubscribe, Left, Phases, Inside
<1>3. CASE startPC' \in {"await", "undo"} /\ IssueFails
  <2>1. UNCHANGED <<table, issued, net>>
    BY <1>3 DEF IssueFails, tableVars, issueVars
  <2>2. Phases' /\ InFlight' /\ BrokerOK' /\ FailuresKept'
    BY <1>1, <1>2, <1>3, <2>1 DEF Phases, Inside, InFlight, BrokerOK, FailuresKept
  <2>3. Tagged'
    BY <1>1, <1>2, <1>3, <2>1 DEF Tagged
  <2>4. Listed'
    BY <1>1, <1>2, <1>3, <2>1 DEF Listed, ToRemove
  <2>5. QED BY <2>2, <2>3, <2>4 DEF Left
<1>4. ASSUME NEW t \in Initial, <<"start", t>> \notin issued, Issue(<<"start", t>>, "add", t),
             UNCHANGED startPC
      PROVE  Left'
  <2>1. /\ <<"start", t>> \in Ids \ issued /\ up /\ up'
        /\ [id |-> <<"start", t>>, op |-> "add", topic |-> t] \in NetRequests
        /\ issued' = issued \cup {<<"start", t>>}
    BY <1>1, <1>4 DEF Ids, NetRequests, Issue
  <2>2. /\ InFlight' /\ Len(net') = Len(net) + 1 /\ Len(net) \in Nat
        /\ net'[Len(net) + 1] = [id |-> <<"start", t>>, op |-> "add", topic |-> t]
        /\ \A i \in 1..Len(net) : net'[i] = net[i]
    BY <1>2, <1>4, <2>1, IssueInFlight
  <2>3. Phases' /\ BrokerOK' /\ FailuresKept'
    BY <1>1, <1>2, <1>4 DEF Phases, Inside, BrokerOK, FailuresKept
  <2>4. Tagged'
    <3>1. \A i \in 1..Len(net') : i \in 1..Len(net) \/ net'[i].op = "add"
      BY <2>2
    <3>2. state' # "Terminated"
      BY <1>1, <1>2 DEF Phases
    <3>3. QED BY <1>1, <1>2, <1>4, <2>1, <2>2, <3>1, <3>2 DEF Tagged
  <2>5. ASSUME ~overlap, NEW u \in Topics \ kept, MayRemain(broker, net, u)' PROVE ToRemove(u)'
    <3>1. MayRemain(broker, net, u) \/ u = t
      BY <1>1, <1>2, <1>4, <2>1, <2>5, IssueRemain
    <3>2. MayRemain(broker, net, u) => ToRemove(u)
      BY <1>2, <2>1, <2>5 DEF Listed
    <3>3. <<"undo", t>> \notin issued
      BY <1>2 DEF Tagged
    <3>4. QED BY <1>1, <1>2, <1>4, <2>1, <3>1, <3>2, <3>3 DEF ToRemove
  <2>6. Listed'
    BY <1>1, <1>2, <2>5 DEF Listed
  <2>7. QED BY <2>2, <2>3, <2>4, <2>6 DEF Left
<1>5. QED BY <1>3, <1>4 DEF StartSubscribe

(* Start hears of its initial subscriptions: it is over, or it undoes.     *)
LEMMA StartConfirmedLeft ==
    ASSUME Left, Delivery, StartConfirmed
    PROVE  Left'
<1> USE SubscriptionsAssumption
<1>1. UNCHANGED <<up, core, termPC, writeLock, callPC, overlap, subscriptions, table, issued, net,
                  broker, failed, kept>>
  BY DEF StartConfirmed, callVars, tableVars, issueVars, failVars, brokerVars
<1>2. /\ startPC = "await" /\ Phases /\ InFlight /\ Tagged /\ BrokerOK /\ FailuresKept /\ Listed
      /\ \A c \in Calls : callPC[c] # "issued" /\ ~Inside(c)
  BY DEF StartConfirmed, Left, Phases, Inside
<1>3. \/ startPC' = "done" /\ state' = "Started"
      \/ startPC' = "undo" /\ state' = state
  BY DEF StartConfirmed
<1>4. Phases'
  BY <1>1, <1>2, <1>3 DEF Phases, Inside
<1>5. InFlight' /\ BrokerOK' /\ FailuresKept'
  BY <1>1, <1>2 DEF InFlight, BrokerOK, FailuresKept
<1>6. Tagged'
  BY <1>1, <1>2, <1>3 DEF Tagged, Phases
<1>7. ASSUME NEW t \in Topics, ToRemove(t) PROVE ToRemove(t)'
  <2>1. t \in Initial /\ subscriptions = Initial /\ <<"stop", t>> \notin issued
    BY <1>2, <1>7 DEF ToRemove, Phases, Tagged
  <2>2. QED BY <1>1, <1>2, <1>3, <1>7, <2>1 DEF ToRemove
<1>8. Listed'
  BY <1>1, <1>2, <1>7 DEF Listed
<1>9. QED BY <1>4, <1>5, <1>6, <1>8 DEF Left

(* A removal that could not be asked for leaves its topic and all else.    *)
LEMMA FailedLeft ==
    ASSUME Left, NEW tag \in {"undo", "stop"}, NEW t,
           UNCHANGED <<up, core, startPC, termPC, state, writeLock, callPC, overlap, subscriptions,
                       broker, table, issued, net>>,
           failed' = failed \cup {<<tag, t>>}, kept' = kept \cup {t}
    PROVE  Left'
<1>1. Phases' /\ InFlight' /\ Tagged' /\ BrokerOK'
  BY DEF Left, Phases, Inside, InFlight, Tagged, BrokerOK
<1>2. FailuresKept'
  BY DEF Left, FailuresKept
<1>3. Listed'
  BY DEF Left, Listed, ToRemove
<1>4. QED BY <1>1, <1>2, <1>3 DEF Left

(* A failed Start takes back the subscriptions it was granted.             *)
LEMMA StartUndoLeft ==
    ASSUME Left, Delivery, StartUndo, kind = "direct"
    PROVE  Left'
<1> USE SubscriptionsAssumption
<1>1. UNCHANGED <<up, core, termPC, writeLock, callPC, overlap, subscriptions, broker>>
  BY DEF StartUndo, callVars, brokerVars
<1>2. /\ startPC = "undo" /\ Phases /\ InFlight /\ Tagged /\ BrokerOK /\ FailuresKept /\ Listed
      /\ \A c \in Calls : callPC[c] # "issued" /\ ~Inside(c)
      /\ state = "Starting" /\ termPC = "idle"
  BY DEF StartUndo, Left, Phases, Inside
<1>3. ASSUME NEW t \in Undone, Issue(<<"undo", t>>, "remove", t),
             UNCHANGED <<startPC, state, failed, kept>>
      PROVE  Left'
  <2>1. /\ <<"undo", t>> \in Ids \ issued /\ up /\ up'
        /\ [id |-> <<"undo", t>>, op |-> "remove", topic |-> t] \in NetRequests
        /\ issued' = issued \cup {<<"undo", t>>}
    BY <1>1, <1>3 DEF Ids, NetRequests, Issue, Undone, Attempted
  <2>2. /\ InFlight' /\ Len(net') = Len(net) + 1 /\ Len(net) \in Nat
        /\ net'[Len(net) + 1] = [id |-> <<"undo", t>>, op |-> "remove", topic |-> t]
        /\ \A i \in 1..Len(net) : net'[i] = net[i]
    BY <1>2, <1>3, <2>1, IssueInFlight
  <2>3. Phases' /\ BrokerOK' /\ FailuresKept'
    BY <1>1, <1>2, <1>3 DEF Phases, Inside, BrokerOK, FailuresKept
  <2>4. Tagged'
    <3>1. \A i \in 1..Len(net') : i \in 1..Len(net) \/ net'[i].id[1] = "undo"
      BY <2>2
    <3>2. QED BY <1>1, <1>2, <1>3, <2>1, <2>2, <3>1 DEF Tagged
  <2>5. ASSUME ~overlap, NEW u \in Topics \ kept, MayRemain(broker, net, u)' PROVE ToRemove(u)'
    <3>1. MayRemain(broker, net, u) /\ u # t
      BY <1>1, <1>2, <1>3, <2>1, <2>5, IssueRemain
    <3>2. ToRemove(u)
      BY <1>2, <2>1, <2>5, <3>1 DEF Listed
    <3>3. QED BY <1>1, <1>2, <1>3, <2>1, <3>1, <3>2 DEF ToRemove
  <2>6. Listed'
    BY <1>1, <1>2, <1>3, <2>5 DEF Listed
  <2>7. QED BY <2>2, <2>3, <2>4, <2>6 DEF Left
<1>4. ASSUME Undone = {}, Answered("undo"), startPC' = "failed", state' = "Terminated",
             IssueFails, UNCHANGED <<failed, kept>>
      PROVE  Left'
  <2>1. UNCHANGED <<table, issued, net>>
    BY <1>4 DEF IssueFails, tableVars, issueVars
  <2>2. Phases' /\ InFlight' /\ BrokerOK' /\ FailuresKept'
    BY <1>1, <1>2, <1>4, <2>1 DEF Phases, Inside, InFlight, BrokerOK, FailuresKept
  <2>3. Tagged'
    <3>1. ASSUME up, NEW i \in 1..Len(net), net[i].op = "remove" PROVE net[i].id[1] = "call"
      <4>1. net[i].id \in table /\ net[i].id[1] # "start"
        BY <1>2, <3>1 DEF InFlight, Tagged
      <4>2. net[i].id \in issued /\ net[i].id \in Ids /\ results[net[i].id] = "none"
        BY <4>1 DEF Delivery
      <4>3. net[i].id[1] # "undo" /\ net[i].id[1] # "stop"
        BY <1>2, <1>4, <4>2 DEF Answered, Tagged
      <4>4. QED BY <4>1, <4>2, <4>3 DEF Ids
    <3>2. QED BY <1>1, <1>2, <1>4, <2>1, <3>1 DEF Tagged
  <2>4. ASSUME up, ~overlap, NEW u \in Topics \ kept, MayRemain(broker, net, u) PROVE FALSE
    <3>1. ToRemove(u)
      BY <1>2, <2>4 DEF Listed
    <3>2. <<"undo", u>> \notin failed
      BY <1>2, <2>4 DEF FailuresKept
    <3>3. u \in Undone
      BY <1>2, <3>1, <3>2 DEF ToRemove, Undone, Attempted
    <3>4. QED BY <1>4, <2>4, <3>3
  <2>5. Listed'
    BY <1>1, <1>2, <1>4, <2>1, <2>4 DEF Listed
  <2>6. QED BY <2>2, <2>3, <2>5 DEF Left
<1>5. ASSUME NEW t \in Undone, IssueFails, UNCHANGED <<startPC, state>>,
             failed' = failed \cup {<<"undo", t>>}, kept' = kept \cup {t}
      PROVE  Left'
  <2>1. UNCHANGED <<table, issued, net>>
    BY <1>5 DEF IssueFails, tableVars, issueVars
  <2>2. QED BY <1>1, <1>2, <1>5, <2>1, FailedLeft
<1>6. QED BY <1>3, <1>4, <1>5 DEF StartUndo, Unsubscribe, failVars

(* Terminate: cleanupSubscriptions finds no call between its request and   *)
(* its note, so what may remain is on the list it works through.           *)
LEMMA TerminateLeft ==
    ASSUME Left, Delivery, ListOK, kind = "direct",
           TerminateSwap \/ UnsolicitedTermination \/ Terminator
    PROVE  Left'
<1> USE SubscriptionsAssumption
<1>1. Phases /\ InFlight /\ Tagged /\ BrokerOK /\ FailuresKept /\ Listed
  BY DEF Left
<1>2. CASE TerminateSwap
  <2>1. /\ UNCHANGED <<up, core, startPC, writeLock, callPC, overlap, subscriptions, table,
                       issued, net, broker, failed, kept>>
        /\ state = "Started" /\ termPC = "idle" /\ state' = "Terminating" /\ termPC' = "lock"
    BY <1>2 DEF TerminateSwap, callVars, tableVars, issueVars, failVars, brokerVars
  <2>2. Phases' /\ InFlight' /\ BrokerOK' /\ FailuresKept'
    BY <1>1, <2>1 DEF Phases, Inside, InFlight, BrokerOK, FailuresKept
  <2>3. Tagged'
    BY <1>1, <2>1 DEF Tagged
  <2>4. Listed'
    BY <1>1, <2>1 DEF Listed, ToRemove
  <2>5. QED BY <2>2, <2>3, <2>4 DEF Left
<1>3. CASE UnsolicitedTermination
  <2>1. /\ UNCHANGED <<up, core, startPC, writeLock, callPC, overlap, subscriptions, table,
                       issued, net, broker, failed, kept>>
        /\ ~up /\ state = "Started" /\ state' = "Terminated" /\ termPC' = "down"
    BY <1>3 DEF UnsolicitedTermination, callVars, tableVars, failVars, brokerVars
  <2>2. startPC = "done" /\ termPC = "idle"
    BY <1>1, <2>1 DEF Phases
  <2>3. Phases'
    BY <1>1, <2>1, <2>2 DEF Phases, Inside
  <2>4. Tagged'
    BY <1>1, <2>1, <2>2 DEF Tagged
  <2>5. InFlight' /\ BrokerOK' /\ FailuresKept' /\ Listed'
    BY <2>1 DEF InFlight, BrokerOK, FailuresKept, Listed
  <2>6. QED BY <2>3, <2>4, <2>5 DEF Left
<1>4. CASE CleanupLock
  <2>1. /\ UNCHANGED <<up, core, state, startPC, callPC, overlap, subscriptions, table,
                       issued, net, broker, failed, kept>>
        /\ termPC = "lock" /\ termPC' = "unsubscribe" /\ writeLock'
        /\ \A c \in Calls : ~Inside(c)
    BY <1>4 DEF CleanupLock, callVars, tableVars, issueVars, failVars, brokerVars
  <2>2. Phases' /\ InFlight' /\ BrokerOK' /\ FailuresKept'
    BY <1>1, <2>1 DEF Phases, Inside, InFlight, BrokerOK, FailuresKept
  <2>3. Tagged'
    BY <1>1, <2>1 DEF Tagged
  <2>4. Listed'
    BY <1>1, <2>1 DEF Listed, ToRemove
  <2>5. QED BY <2>2, <2>3, <2>4 DEF Left
<1>5. CASE CleanupUnsubscribe
  <2>1. PICK t \in subscriptions : ~Attempted("stop", t) /\ Unsubscribe("stop", t)
    BY <1>5 DEF CleanupUnsubscribe
  <2>2. /\ UNCHANGED <<up, core, state, startPC, termPC, writeLock, callPC, overlap,
                       subscriptions, broker>>
        /\ termPC = "unsubscribe" /\ startPC = "done" /\ state = "Terminating"
        /\ \A c \in Calls : ~Inside(c) /\ callPC[c] # "issued"
    BY <1>1, <1>5 DEF CleanupUnsubscribe, termVars, callVars, brokerVars, Phases, Inside
  <2>3. CASE Issue(<<"stop", t>>, "remove", t) /\ UNCHANGED <<failed, kept>>
    <3>1. /\ <<"stop", t>> \in Ids \ issued /\ up /\ up'
          /\ [id |-> <<"stop", t>>, op |-> "remove", topic |-> t] \in NetRequests
          /\ issued' = issued \cup {<<"stop", t>>}
      BY <2>1, <2>2, <2>3 DEF Attempted, Ids, NetRequests, Issue, ListOK
    <3>2. /\ InFlight' /\ Len(net') = Len(net) + 1 /\ Len(net) \in Nat
          /\ net'[Len(net) + 1] = [id |-> <<"stop", t>>, op |-> "remove", topic |-> t]
          /\ \A i \in 1..Len(net) : net'[i] = net[i]
      BY <1>1, <2>3, <3>1, IssueInFlight
    <3>3. Phases' /\ BrokerOK' /\ FailuresKept'
      BY <1>1, <2>2, <2>3 DEF Phases, Inside, BrokerOK, FailuresKept
    <3>4. Tagged'
      <4>1. \A i \in 1..Len(net') : i \in 1..Len(net) \/ net'[i].id[1] = "stop"
        BY <3>2
      <4>2. QED BY <1>1, <2>2, <3>1, <3>2, <4>1 DEF Tagged
    <3>5. ASSUME ~overlap, NEW u \in Topics \ kept, MayRemain(broker, net, u)' PROVE ToRemove(u)'
      <4>1. MayRemain(broker, net, u) /\ u # t
        BY <1>1, <2>1, <2>2, <2>3, <3>1, <3>5, IssueRemain
      <4>2. ToRemove(u)
        BY <1>1, <3>1, <3>5, <4>1 DEF Listed
      <4>3. QED BY <2>2, <3>1, <4>1, <4>2 DEF ToRemove
    <3>6. Listed'
      BY <2>2, <2>3, <3>5 DEF Listed
    <3>7. QED BY <3>2, <3>3, <3>4, <3>6 DEF Left
  <2>4. CASE IssueFails /\ failed' = failed \cup {<<"stop", t>>} /\ kept' = kept \cup {t}
    <3>1. UNCHANGED <<table, issued, net>>
      BY <2>4 DEF IssueFails, tableVars, issueVars
    <3>2. QED BY <2>2, <2>4, <3>1, FailedLeft
  <2>5. QED BY <2>1, <2>3, <2>4 DEF Unsubscribe, failVars
<1>6. CASE CleanupDone
  <2>1. /\ UNCHANGED <<up, core, startPC, callPC, overlap, subscriptions, table,
                       issued, net, broker, failed, kept>>
        /\ termPC = "unsubscribe" /\ termPC' = "done" /\ state' = "Terminated"
        /\ startPC = "done" /\ state = "Terminating" /\ Answered("stop")
        /\ \A t \in subscriptions : Attempted("stop", t)
        /\ \A c \in Calls : ~Inside(c) /\ callPC[c] # "issued"
    BY <1>1, <1>6 DEF CleanupDone, callVars, tableVars, issueVars, failVars, brokerVars, Phases, Inside
  <2>2. Phases' /\ InFlight' /\ BrokerOK' /\ FailuresKept'
    BY <1>1, <2>1 DEF Phases, Inside, InFlight, BrokerOK, FailuresKept
  <2>3. Tagged'
    <3>1. ASSUME up, NEW i \in 1..Len(net), net[i].op = "remove" PROVE net[i].id[1] = "call"
      <4>1. net[i].id \in table /\ net[i].id[1] # "start"
        BY <1>1, <3>1 DEF InFlight, Tagged
      <4>2. net[i].id \in issued /\ net[i].id \in Ids /\ results[net[i].id] = "none"
        BY <4>1 DEF Delivery
      <4>3. net[i].id[1] # "undo" /\ net[i].id[1] # "stop"
        BY <1>1, <2>1, <4>2 DEF Answered, Tagged
      <4>4. QED BY <4>1, <4>2, <4>3 DEF Ids
    <3>2. QED BY <1>1, <2>1, <3>1 DEF Tagged
  <2>4. ASSUME up, ~overlap, NEW u \in Topics \ kept, MayRemain(broker, net, u) PROVE FALSE
    <3>1. ToRemove(u)
      BY <1>1, <2>4 DEF Listed
    <3>2. u \in subscriptions /\ <<"stop", u>> \notin issued
      BY <2>1, <3>1 DEF ToRemove
    <3>3. <<"stop", u>> \notin failed
      BY <1>1, <2>4 DEF FailuresKept
    <3>4. QED BY <2>1, <3>2, <3>3 DEF Attempted
  <2>5. Listed'
    BY <2>1, <2>4 DEF Listed
  <2>6. QED BY <2>2, <2>3, <2>5 DEF Left
<1>7. ~ClearOutstanding /\ ~DestroyFlow
  BY <1>1 DEF ClearOutstanding, DestroyFlow, Phases
<1>8. QED BY <1>2, <1>3, <1>4, <1>5, <1>6, <1>7 DEF Terminator

(* What the broker makes of the oldest request.                            *)
LEMMA VerdictRemain ==
    ASSUME NEW q \in NetRequests, broker \subseteq Topics, NEW v \in Verdicts(q)
    PROVE  /\ v[2] \subseteq Topics
           /\ \A t \in v[2] : t \in broker \/ Adds(q, t)
<1>1. CASE q.op = "add"
  <2>1. v \in {<<"ok", broker \cup {q.topic}, endpoint>>, <<"error", broker, endpoint>>}
    BY <1>1 DEF Verdicts
  <2>2. q.topic \in Topics
    BY <1>1 DEF NetRequests
  <2>3. QED BY <1>1, <2>1, <2>2 DEF Adds
<1>2. CASE q.op = "remove"
  <2>1. v[2] \in {broker, broker \ {q.topic}}
    BY <1>2 DEF Verdicts
  <2>2. QED BY <2>1
<1>3. CASE q.op \in {"provision", "deprovision"}
  <2>1. \/ v \in {<<outcome, broker, TRUE>> : outcome \in {"ok"} \cup {x \in {"error"} : endpoint}}
        \/ v \in {<<outcome, broker, FALSE>> : outcome \in {"ok"} \cup {x \in {"error"} : ~endpoint}}
    BY <1>3 DEF Verdicts
  <2>2. \E outcome, e : v = <<outcome, broker, e>>
    BY <2>1
  <2>3. v[2] = broker
    BY <2>2
  <2>4. QED BY <2>3
<1>4. QED BY <1>1, <1>2, <1>3 DEF NetRequests

(* The broker, the session and the core.                                   *)
LEMMA CoreLeft ==
    ASSUME Left, Delivery, kind = "direct",
           \/ BrokerAnswers \/ SessionLost \/ UNCHANGED vars
           \/ CoreTerminate \/ CoreSweep \/ CoreSweepsProvisions
    PROVE  Left'
<1> USE SubscriptionsAssumption
<1>1. Phases /\ InFlight /\ Tagged /\ BrokerOK /\ FailuresKept /\ Listed
  BY DEF Left
<1>2. CASE BrokerAnswers
  <2>1. /\ UNCHANGED <<up, core, state, startPC, termPC, writeLock, callPC, overlap,
                       subscriptions, issued, failed>>
        /\ up /\ net # <<>> /\ net' = Tail(net) /\ table' = table \ {Head(net).id}
    BY <1>2 DEF BrokerAnswers, termVars, callVars, HandleProvisionEvent, HandleSubscriptionEvent
  <2>2. PICK v \in Verdicts(Head(net)) : broker' = v[2]
    BY <1>2 DEF BrokerAnswers
  <2>3. /\ kept \subseteq kept'
        /\ \A t \in broker' \ kept' : ~Removes(Head(net), t)
    BY <1>2 DEF BrokerAnswers, Removes
  <2>4. net \in Seq(NetRequests) /\ Head(net) \in NetRequests /\ broker \subseteq Topics
    BY <1>1, <2>1 DEF InFlight, BrokerOK
  <2>5. /\ broker' \subseteq Topics
        /\ \A t \in broker' \ kept' :
              (t \in broker /\ ~Removes(Head(net), t)) \/ Adds(Head(net), t)
    BY <2>2, <2>3, <2>4, VerdictRemain
  <2>6. /\ net' \in Seq(NetRequests) /\ Len(net') = Len(net) - 1 /\ Len(net) \in Nat
        /\ Head(net) = net[1]
        /\ \A i \in 1..Len(net') : net'[i] = net[i+1] /\ i + 1 \in 1..Len(net) /\ i + 1 # 1
    BY <2>1, <2>4
  <2>7. InFlight'
    <3>1. ASSUME NEW i \in 1..Len(net') PROVE net'[i].id \in table'
      <4>1. 1 \in 1..Len(net)
        BY <2>6, <3>1
      <4>2. net[i+1].id # net[1].id /\ net[i+1].id \in table
        BY <1>1, <2>1, <2>6, <3>1, <4>1 DEF InFlight
      <4>3. QED BY <2>1, <2>6, <3>1, <4>2
    <3>2. ASSUME NEW i \in 1..Len(net'), NEW j \in 1..Len(net'), net'[i].id = net'[j].id
          PROVE  i = j
      <4>1. i + 1 = j + 1
        BY <1>1, <2>1, <2>6, <3>2 DEF InFlight
      <4>2. QED BY <2>6, <4>1
    <3>3. QED BY <2>6, <3>1, <3>2 DEF InFlight
  <2>8. Phases' /\ BrokerOK' /\ FailuresKept'
    BY <1>1, <2>1, <2>3, <2>5 DEF Phases, Inside, BrokerOK, FailuresKept
  <2>9. Tagged'
    BY <1>1, <2>1, <2>6 DEF Tagged
  <2>10. ASSUME NEW u, u \notin kept', MayRemain(broker, net, u)' PROVE MayRemain(broker, net, u)
    BY <2>1, <2>4, <2>5, <2>10, TailRemain
  <2>11. \A u : ToRemove(u)' <=> ToRemove(u)
    BY <2>1 DEF ToRemove
  <2>12. Listed'
    BY <1>1, <2>1, <2>3, <2>10, <2>11 DEF Listed
  <2>13. QED BY <2>7, <2>8, <2>9, <2>12 DEF Left
<1>3. CASE SessionLost
  <2>1. /\ UNCHANGED <<core, state, startPC, termPC, writeLock, callPC, subscriptions, issued>>
        /\ up' = FALSE
    BY <1>3 DEF SessionLost, termVars, callVars
  <2>2. Phases'
    BY <1>1, <2>1 DEF Phases, Inside
  <2>3. InFlight' /\ Tagged' /\ BrokerOK' /\ FailuresKept' /\ Listed'
    BY <1>1, <2>1 DEF InFlight, Tagged, BrokerOK, FailuresKept, Listed
  <2>4. QED BY <2>2, <2>3 DEF Left
<1>4. CASE CoreTerminate \/ CoreSweep \/ CoreSweepsProvisions
  <2>1. /\ UNCHANGED <<up, state, startPC, termPC, writeLock, callPC, subscriptions, issued>>
        /\ ~up
    BY <1>1, <1>4
       DEF CoreTerminate, CoreSweep, CoreSweepsProvisions, termVars, callVars, issueVars, Phases
  <2>2. Phases'
    BY <1>1, <2>1 DEF Phases, Inside
  <2>3. InFlight' /\ Tagged' /\ BrokerOK' /\ FailuresKept' /\ Listed'
    BY <1>1, <2>1 DEF InFlight, Tagged, BrokerOK, FailuresKept, Listed
  <2>4. QED BY <2>2, <2>3 DEF Left
<1>5. CASE UNCHANGED vars
  <2>1. Phases' /\ InFlight' /\ Tagged' /\ BrokerOK' /\ FailuresKept'
    BY <1>1, <1>5 DEF vars, termVars, callVars, tableVars, issueVars, failVars, brokerVars,
                      Phases, Inside, InFlight, Tagged, BrokerOK, FailuresKept
  <2>2. Listed'
    BY <1>1, <1>5 DEF vars, termVars, callVars, issueVars, failVars, brokerVars, Listed, ToRemove
  <2>3. QED BY <2>1, <2>2 DEF Left
<1>6. QED BY <1>2, <1>3, <1>4, <1>5

(* No step changes the kind of the receiver, and every step keeps Left.    *)
LEMMA NextLeft == ASSUME Delivery, ListOK, LeftInv, [Next]_vars PROVE LeftInv'
<1>1. UNCHANGED kind
  BY DEF Next, Running, Environment, Call, AddOrRemove, ProvisionEndpoint, CallEnter,
     CallIssue, CallNote, CallConfirmed, StartSubscribe, StartConfirmed, StartUndo, Terminator,
     TerminateSwap, UnsolicitedTermination, CleanupLock, CleanupUnsubscribe, CleanupDone,
     ClearOutstanding, DestroyFlow, BrokerAnswers, SessionLost, CoreTerminate, CoreSweep,
     CoreSweepsProvisions, vars
<1>2. ASSUME kind = "direct" PROVE Left'
  <2>1. Left
    BY <1>2 DEF LeftInv
  <2>2. ASSUME NEW c \in Calls, Call(c) \/ CallEnter(c) PROVE Left'
    BY <1>2, <2>1, <2>2, CallEnterLeft, CallIssueLeft, CallNoteLeft, CallConfirmedLeft
       DEF Call, AddOrRemove, ProvisionEndpoint
  <2>3. QED
    BY <1>2, <2>1, <2>2, StartSubscribeLeft, StartConfirmedLeft, StartUndoLeft, TerminateLeft,
       CoreLeft DEF Next, Running, Environment
<1>3. QED BY <1>1, <1>2 DEF LeftInv

(* The direct receiver's part of the invariant implies the property.       *)
LEMMA LeftImplies == LeftInv => NoSubscriptionLeft
<1> SUFFICES ASSUME LeftInv, kind = "direct", state = "Terminated", up, ~overlap, 
                    NEW t \in broker \ kept
             PROVE  BeingRemoved(t)
  BY DEF NoSubscriptionLeft
<1>1. Tagged /\ BrokerOK /\ Listed
  BY DEF LeftInv, Left
<1>2. ~ToRemove(t)
  BY DEF ToRemove, LeftInv, Left, Phases
<1>3. ~MayRemain(broker, net, t)
  BY <1>1, <1>2 DEF Listed, BrokerOK
<1>4. PICK j \in 1..Len(net) : Removes(net[j], t)
  BY <1>3 DEF MayRemain
<1>5. QED BY <1>1, <1>4 DEF Tagged, Removes, BeingRemoved

(* A direct receiver that has ended leaves no subscription on the session, *)
(* whatever topics, calls and answers there were, unless its removal has   *)
(* failed, was refused or is on its way, or two calls overlapped on it:    *)
(* cleanupSubscriptions and the undoing of a failed Start reach everything *)
(* else that may remain there.                                             *)
THEOREM NothingLeft == Spec => []NoSubscriptionLeft
<1>1. Init => LeftInv
  BY SubscriptionsAssumption
     DEF Init, LeftInv, Left, Phases, Inside, InFlight, Tagged, BrokerOK, FailuresKept, Listed,
         MayRemain
<1>2. (Delivery /\ ListOK) /\ LeftInv /\ [Next]_vars => LeftInv'
  BY NextLeft
<1>3. QED BY <1>1, <1>2, DeliveryInvariance, LeftImplies, PTL DEF Spec

-----------------------------------------------------------------------------
(***************************************************************************)
(* The cache requests of a direct receiver, module Cache, for any number   *)
(* of requests, sessions and outstanding requests.                         *)
(***************************************************************************)

(* The stages of a request, those in which it alone has a session, and of  *)
(* the poll; what the context thread works on; the two maps.               *)
HoldPCs  == {"store", "send", "undo", "destroy"}
CallPCs  == {"idle", "refused", "check", "admit", "create", "returned", "failed"} \cup HoldPCs
PollPCs  == {"off", "wait", "process", "destroy", "closed", "ended"}
Contexts == [at : {"idle", "push", "delete"}, session : Pointers \cup {Nil},
             owner : Requests \cup {None}]
Entries  == [Pointers -> Requests \cup {None}]

CtxBusy(c) == c.at # "idle" /\ c.session \in Pointers /\ c.owner \in Requests

(* The variables the argument needs have their type.                       *)
CacheTypes ==
    /\ call \in [Requests -> CallPCs] /\ ptr \in [Requests -> Pointers \cup {Nil}]
    /\ counter \in Int /\ requestMap \in Entries /\ callbackMap \in Entries
    /\ chan \in Seq(Pointers \cup {Nil}) /\ open \in BOOLEAN
    /\ poll \in PollPCs /\ event \in Pointers \cup {Nil} /\ answered \in [Requests -> Nat]
    /\ pushes \in Seq([event : Pointers \cup {Nil}, after : Contexts])
    /\ ctx \in Contexts /\ (ctx # Idle => CtxBusy(ctx))
    /\ live \subseteq Pointers /\ pending \subseteq Pointers /\ todo \subseteq Pointers
    /\ \A r \in Requests : call[r] \in HoldPCs \cup {"returned"} => ptr[r] \in Pointers

(* The count is bounded, and a request that was let in is still to be      *)
(* counted.                                                                *)
Admission ==
    /\ counter <= MaxOutstandingCacheRequests
    /\ \A r \in Requests : call[r] = "admit" => counter < MaxOutstandingCacheRequests
    /\ \A r, q \in Requests :
          call[r] \in {"check", "admit"} /\ call[q] \in {"check", "admit"} => r = q

(* An entry of cacheRequestMap is of the request that made it.             *)
EntriesOK ==
    \A p \in Pointers : requestMap[p] # None =>
        ptr[requestMap[p]] = p /\ call[requestMap[p]] \in {"send", "undo", "destroy", "returned"}

(* A request is answered through its entry, which does not outlive the     *)
(* answer by more than the step that removes it.                           *)
AnswerOf(r) ==
    /\ answered[r] <= 1
    /\ call[r] \in {"idle", "refused", "check", "admit", "create", "store"} => answered[r] = 0
    /\ answered[r] = 1 => \A p \in Pointers : requestMap[p] = r => poll = "destroy" /\ event = p
Answers == \A r \in Requests : AnswerOf(r)

(* Until teardownCache begins to push.                                     *)
Quiet == open /\ teardownPC # "range"

(* The stages of termination, and what has to hold for no panic when it    *)
(* overtakes nobody: then no request is half way once teardownCache has    *)
(* begun, and nothing is to come from the library once it has closed the   *)
(* channel.                                                                *)
Teardown ==
    /\ receiverState = "started" <=> teardownPC = "idle"
    /\ teardownPC \in {"idle", "stop"} => overtaken = {}
    /\ ~open => teardownPC = "done"
    /\ pushes # <<>> => teardownPC = "range"
    /\ poll \in {"closed", "ended"} => ~open
    /\ ~Quiet /\ overtaken = {} => \A r \in Requests : ~Underway(r)
    /\ ~open /\ overtaken = {} => ctx = Idle /\ \A p \in pending : callbackMap[p] = None
    /\ panicked => overtaken # {}
    /\ None \notin overtaken

(* An event of session p is to come: its request is in progress, or the    *)
(* event is in cacheResponseChan, or the context thread or the poll has it.*)
Among(s, a) == \E i \in 1..Len(s) : s[i] = a
Pushing(p)  == ctx.at = "push" /\ ctx.session = p
Taken(p)    == poll \in {"process", "destroy"} /\ event = p
HasEvent(p) == p \in pending \/ Among(chan, p) \/ Pushing(p) \/ Taken(p)

(* Every session that a request holds is its own and lives, and an event   *)
(* is to come only of a request that was sent.                             *)
Sessions ==
    /\ \A r \in Requests : call[r] = "store" => ptr[r] \in live /\ requestMap[ptr[r]] = None
    /\ \A r \in Requests : call[r] \in {"send", "undo", "destroy"} => requestMap[ptr[r]] = r
    /\ \A r, q \in Requests : call[r] = "store" /\ call[q] = "store" /\ ptr[r] = ptr[q] => r = q
    /\ \A p \in Pointers : requestMap[p] # None => p \in live
    /\ \A p \in Pointers : HasEvent(p) => requestMap[p] # None /\ call[requestMap[p]] = "returned"

(* A session has one event at most.                                        *)
OneFlight ==
    /\ \A i, j \in 1..Len(chan) : chan[i] = chan[j] => i = j
    /\ \A i \in 1..Len(chan) : chan[i] \in Pointers
    /\ \A p \in Pointers :
          /\ p \in pending => ~Among(chan, p) /\ ~Pushing(p) /\ ~Taken(p)
          /\ Among(chan, p) => ~Pushing(p) /\ ~Taken(p)
          /\ Pushing(p) => ~Taken(p)

(* The count is of the requests from their admission to the step in which  *)
(* the poll takes their event, and those with an event in or at the        *)
(* channel are among them.                                                 *)
Outstanding(r) == call[r] = "returned" /\ requestMap[ptr[r]] = r
Counted ==
    {r \in Requests : call[r] \in {"create", "store", "send", "undo"}
                      \/ (Outstanding(r) /\ ~Taken(ptr[r]))}
Expected ==
    {r \in Requests : Outstanding(r) /\ (Among(chan, ptr[r]) \/ Pushing(ptr[r]))}

Counts ==
    /\ IsFiniteSet(Counted) /\ counter = Cardinality(Counted)
    /\ Len(chan) + (IF ctx.at = "push" THEN 1 ELSE 0) = Cardinality(Expected)

(* The inductive invariant.                                                *)
QuietInv == Quiet => Sessions /\ OneFlight /\ Counts
CacheInv == /\ Admission /\ EntriesOK /\ Answers /\ Teardown /\ QuietInv

(* A request goes on, or fails, with a session or without.                 *)
LEMMA RequestTypes ==
    ASSUME CacheTypes, NEW r \in Requests, CheckState(r) \/ Request(r)
    PROVE  CacheTypes'
<1> USE CacheAssumption
<1>1. UNCHANGED <<chan, open, event, answered, pushes, todo, ctx>>
  BY DEF CheckState, Request, CheckCount, Admit, CreateCacheRequest, CreateFails, StoreSession,
     SendCacheRequest, SendUncount, DestroyCacheRequest, chanVars, pollVars, teardownVars
<1>2. PICK l \in CallPCs : Proceed(r, l)
  BY DEF CheckState, Request, CheckCount, Admit, CreateCacheRequest, CreateFails, StoreSession,
     SendCacheRequest, SendUncount, DestroyCacheRequest, CallPCs, HoldPCs
<1>3. call \in [Requests -> CallPCs] /\ ptr \in [Requests -> Pointers \cup {Nil}] /\ counter \in Int
      /\ \A q \in Requests : call[q] \in HoldPCs \cup {"returned"} => ptr[q] \in Pointers
  BY DEF CacheTypes
<1>4. call' \in [Requests -> CallPCs] /\ call'[r] = l /\ \A q \in Requests : q # r => call'[q] = call[q]
  BY <1>2, <1>3 DEF Proceed
<1>5. counter' \in Int
  BY <1>3 DEF CheckState, Request, CheckCount, Admit, CreateCacheRequest, CreateFails,
     StoreSession, SendCacheRequest, SendUncount, DestroyCacheRequest, reqVars
<1>6. /\ ptr' \in [Requests -> Pointers \cup {Nil}]
      /\ \A q \in Requests : call'[q] \in HoldPCs \cup {"returned"} => ptr'[q] \in Pointers
  <2>1. CASE CreateCacheRequest(r)
    <3>1. PICK p \in Pointers : ptr' = [ptr EXCEPT ![r] = p]
      BY <2>1 DEF CreateCacheRequest
    <3>2. QED BY <1>3, <1>4, <3>1
  <2>2. CASE ~CreateCacheRequest(r)
    <3>1. UNCHANGED ptr
      BY <2>2 DEF CheckState, Request, CheckCount, Admit, CreateFails, StoreSession,
         SendCacheRequest, SendUncount, DestroyCacheRequest
    <3>2. call'[r] \in HoldPCs \cup {"returned"} => call[r] \in HoldPCs
      BY <1>3, <2>2 DEF CheckState, Request, CheckCount, Admit, CreateFails, StoreSession,
         SendCacheRequest, SendUncount, DestroyCacheRequest, Proceed, HoldPCs
    <3>3. QED BY <1>3, <1>4, <3>1, <3>2
  <2>3. QED BY <2>1, <2>2
<1>7. requestMap' \in Entries /\ callbackMap' \in Entries
  <2>1. requestMap \in Entries /\ callbackMap \in Entries
    BY DEF CacheTypes
  <2>2. requestMap' \in Entries
    BY <2>1 DEF Entries, CheckState, Request, CheckCount, Admit, CreateCacheRequest, CreateFails,
       StoreSession, SendCacheRequest, SendUncount, DestroyCacheRequest, mapVars
  <2>3. callbackMap' \in Entries
    BY <2>1 DEF Entries, CheckState, Request, CheckCount, Admit, CreateCacheRequest, CreateFails,
       StoreSession, SendCacheRequest, SendUncount, DestroyCacheRequest, DestroyCacheSession,
       mapVars
  <2>4. QED BY <2>2, <2>3
<1>8. poll' \in PollPCs
  BY DEF CacheTypes, PollPCs, CheckState, Request, CheckCount, Admit, CreateCacheRequest,
     CreateFails, StoreSession, SendCacheRequest, SendUncount, DestroyCacheRequest, pollVars
<1>9. live' \subseteq Pointers /\ pending' \subseteq Pointers
  <2>1. live \subseteq Pointers /\ pending \subseteq Pointers
    BY DEF CacheTypes
  <2>2. call[r] = "send" => ptr[r] \in Pointers
    BY <1>3 DEF HoldPCs
  <2>3. live' \subseteq Pointers
    BY <2>1 DEF CheckState, Request, CheckCount, Admit, CreateCacheRequest, CreateFails,
       StoreSession, SendCacheRequest, SendUncount, DestroyCacheRequest, DestroyCacheSession,
       libVars
  <2>4. pending' \subseteq Pointers
    BY <2>1, <2>2 DEF CheckState, Request, CheckCount, Admit, CreateCacheRequest, CreateFails,
       StoreSession, SendCacheRequest, SendUncount, DestroyCacheRequest, DestroyCacheSession,
       libVars
  <2>5. QED BY <2>3, <2>4
<1>10. QED BY <1>1, <1>4, <1>5, <1>6, <1>7, <1>8, <1>9 DEF CacheTypes

(* The context thread takes up a session and the callback it is given.     *)
LEMMA ContextTypes ==
    ASSUME CacheTypes, Context
    PROVE  CacheTypes'
<1> USE CacheAssumption
<1>1. UNCHANGED <<call, ptr, counter, requestMap, open, poll, event, answered, pushes, todo, live>>
  BY DEF Context, ContextLookup, ContextPush, ContextDelete, reqVars, mapVars, chanVars, pollVars,
     teardownVars, libVars
<1>2. /\ ctx \in Contexts /\ (ctx.at # "idle" => CtxBusy(ctx))
      /\ chan \in Seq(Pointers \cup {Nil}) /\ callbackMap \in Entries /\ pending \subseteq Pointers
  BY DEF CacheTypes, Idle
<1>3. chan' \in Seq(Pointers \cup {Nil})
  BY <1>2 DEF CtxBusy, Context, ContextLookup, ContextPush, ContextDelete, chanVars
<1>4. callbackMap' \in Entries
  BY <1>2 DEF Context, ContextLookup, ContextPush, ContextDelete, DeleteCallback, mapVars, Entries
<1>5. pending' \subseteq Pointers
  BY <1>2 DEF Context, ContextLookup, ContextPush, ContextDelete, libVars
<1>6. ctx' \in Contexts /\ (ctx' # Idle => CtxBusy(ctx'))
  <2>1. Idle \in Contexts /\ Idle.at = "idle"
    BY DEF Idle, Contexts
  <2>2. CASE ContextLookup
    <3>1. PICK p \in pending :
             ctx' = IF callbackMap[p] = None THEN Idle
                    ELSE [at |-> "push", session |-> p, owner |-> callbackMap[p]]
      BY <2>2 DEF ContextLookup
    <3>2. p \in Pointers /\ callbackMap[p] \in Requests \cup {None}
      BY <1>2 DEF Entries
    <3>3. QED BY <2>1, <3>1, <3>2 DEF Contexts, CtxBusy
  <2>3. CASE ContextPush
    BY <1>2, <2>3 DEF ContextPush, Contexts, CtxBusy
  <2>4. CASE ContextDelete
    BY <2>1, <2>4 DEF ContextDelete
  <2>5. QED BY <2>2, <2>3, <2>4 DEF Context
<1>7. QED BY <1>1, <1>3, <1>4, <1>5, <1>6 DEF CacheTypes

(* The polling goroutine takes an event and destroys its session.          *)
LEMMA PollTypes ==
    ASSUME CacheTypes, Poll
    PROVE  CacheTypes'
<1> USE CacheAssumption
<1>1. UNCHANGED <<call, ptr, open, pushes, todo, ctx>>
  BY DEF Poll, PollTake, ProcessCacheEvent, ProcessDestroy, PollEnd, reqVars, chanVars,
     teardownVars
<1>2. /\ counter \in Int /\ chan \in Seq(Pointers \cup {Nil}) /\ event \in Pointers \cup {Nil}
      /\ requestMap \in Entries /\ callbackMap \in Entries /\ answered \in [Requests -> Nat]
      /\ live \subseteq Pointers /\ pending \subseteq Pointers
  BY DEF CacheTypes
<1>3. counter' \in Int /\ poll' \in PollPCs
  BY <1>2 DEF Poll, PollTake, ProcessCacheEvent, ProcessDestroy, PollEnd, reqVars, PollPCs
<1>4. chan' \in Seq(Pointers \cup {Nil}) /\ event' \in Pointers \cup {Nil}
  BY <1>2 DEF Poll, PollTake, ProcessCacheEvent, ProcessDestroy, PollEnd, chanVars
<1>5. answered' \in [Requests -> Nat]
  BY <1>2 DEF Poll, PollTake, ProcessCacheEvent, ProcessDestroy, PollEnd
<1>6. requestMap' \in Entries /\ callbackMap' \in Entries
  BY <1>2 DEF Poll, PollTake, ProcessCacheEvent, ProcessDestroy, PollEnd, DestroyCacheSession,
     mapVars, Entries
<1>7. live' \subseteq Pointers /\ pending' \subseteq Pointers
  BY <1>2 DEF Poll, PollTake, ProcessCacheEvent, ProcessDestroy, PollEnd, DestroyCacheSession,
     libVars
<1>8. QED BY <1>1, <1>3, <1>4, <1>5, <1>6, <1>7 DEF CacheTypes

(* Short sequences.                                                        *)
LEMMA ShortSeq ==
    ASSUME NEW S, NEW a \in S, NEW b \in S
    PROVE  <<a>> \in Seq(S) /\ <<a, b>> \in Seq(S)
OBVIOUS

(* Teardown pushes events and lets the library forget requests.            *)
LEMMA TerminateTypes ==
    ASSUME CacheTypes, Terminate \/ ReceiverTerminates
    PROVE  CacheTypes'
<1> USE CacheAssumption
<1> DEFINE Pushes == [event : Pointers \cup {Nil}, after : Contexts]
<1>1. UNCHANGED <<call, ptr, counter, requestMap, poll, event, answered, ctx, live>>
  BY DEF Terminate, ReceiverTerminates, TerminateIncomplete, TeardownBegin, TeardownCancel,
     TeardownPush, TeardownClose, reqVars, mapVars, pollVars, libVars
<1>2. /\ chan \in Seq(Pointers \cup {Nil}) /\ callbackMap \in Entries /\ pending \subseteq Pointers
      /\ pushes \in Seq(Pushes) /\ open \in BOOLEAN /\ todo \subseteq Pointers
  BY DEF CacheTypes
<1>3. open' \in BOOLEAN /\ todo' \subseteq Pointers
  BY <1>2 DEF Terminate, ReceiverTerminates, TerminateIncomplete, TeardownBegin, TeardownCancel,
     TeardownPush, TeardownClose, chanVars
<1>4. CASE TeardownCancel
  <2>1. UNCHANGED <<chan, callbackMap>>
    BY <1>4 DEF TeardownCancel, mapVars, chanVars
  <2>2. PICK p \in todo : IF requestMap[p] # None THEN CancelPendingCacheRequests(p)
                          ELSE UNCHANGED <<pending, pushes>>
    BY <1>4 DEF TeardownCancel
  <2>3. CASE UNCHANGED <<pending, pushes>>
    BY <1>1, <1>3, <2>1, <2>3 DEF CacheTypes
  <2>4. CASE CancelPendingCacheRequests(p)
    <3>1. p \in Pointers /\ callbackMap[p] \in Requests \cup {None}
      BY <1>2 DEF Entries
    <3> DEFINE after == [Idle EXCEPT !.session = p, !.owner = callbackMap[p]]
    <3>2. Idle \in Contexts /\ after \in Contexts
      BY <3>1 DEF Idle, Contexts
    <3>3. /\ [event |-> p, after |-> Idle] \in Pushes
          /\ [event |-> Nil, after |-> Idle] \in Pushes
          /\ [event |-> Nil, after |-> after] \in Pushes
      BY <3>1, <3>2
    <3>4. pending' \subseteq Pointers
      BY <1>2, <2>4 DEF CancelPendingCacheRequests
    <3>5. pushes' \in {<<[event |-> p, after |-> Idle], [event |-> Nil, after |-> after]>>,
                        <<[event |-> Nil, after |-> Idle]>>, <<[event |-> p, after |-> Idle]>>}
      BY <2>4 DEF CancelPendingCacheRequests
    <3> HIDE DEF Pushes, after
    <3>6. pushes' \in Seq(Pushes)
      BY <3>3, <3>5, ShortSeq
    <3>7. QED BY <1>1, <1>3, <2>1, <3>4, <3>6 DEF CacheTypes, Pushes
  <2>5. QED BY <2>2, <2>3, <2>4
<1>5. CASE TeardownPush
  <2>1. UNCHANGED pending /\ chan' = Append(chan, Head(pushes).event) /\ pushes' = Tail(pushes)
        /\ pushes # <<>>
    BY <1>5 DEF TeardownPush, libVars
  <2>2. /\ Head(pushes) \in Pushes /\ pushes' \in Seq(Pushes)
        /\ Head(pushes).event \in Pointers \cup {Nil}
    <3>1. \A R : \A s \in Seq(R) : s # <<>> => Head(s) \in R /\ Tail(s) \in Seq(R)
      OBVIOUS
    <3>2. Head(pushes) \in Pushes /\ pushes' \in Seq(Pushes)
      BY <1>2, <2>1, <3>1
    <3>3. QED BY <3>2
  <2>3. callbackMap' \in Entries
    BY <1>2, <1>5 DEF TeardownPush, DeleteCallback, Entries
  <2>4. chan' \in Seq(Pointers \cup {Nil})
    BY <1>2, <2>1, <2>2
  <2>5. QED BY <1>1, <1>3, <2>1, <2>2, <2>3, <2>4 DEF CacheTypes
<1>6. CASE ~TeardownCancel /\ ~TeardownPush
  <2>1. UNCHANGED <<chan, callbackMap, pending, pushes>>
    BY <1>6 DEF Terminate, ReceiverTerminates, TerminateIncomplete, TeardownBegin, TeardownClose,
       chanVars, mapVars, libVars
  <2>2. QED BY <1>1, <1>3, <2>1 DEF CacheTypes
<1>7. QED BY <1>4, <1>5, <1>6

(* A step of the specification is one of these.                            *)
LEMMA CacheSteps ==
    ASSUME [CacheNext]_cacheVars
    PROVE  \/ UNCHANGED cacheVars
           \/ /\ ~panicked
              /\ (\E r \in Requests : CheckState(r) \/ Request(r))
                 \/ Context \/ Poll \/ Terminate \/ ReceiverTerminates
BY DEF CacheNext, CacheRunning

(* The types are kept.                                                     *)
LEMMA CacheTypesKept ==
    ASSUME CacheTypes, [CacheNext]_cacheVars
    PROVE  CacheTypes'
<1>1. CASE UNCHANGED cacheVars
  BY <1>1 DEF CacheTypes, cacheVars, reqVars, mapVars, chanVars, pollVars, teardownVars, libVars
<1>2. QED BY <1>1, CacheSteps, RequestTypes, ContextTypes, PollTypes, TerminateTypes

-----------------------------------------------------------------------------
(* The count.  Only an admitted request adds to it.                        *)
LEMMA AdmissionKept ==
    ASSUME CacheTypes, Admission, [CacheNext]_cacheVars
    PROVE  Admission'
<1> USE CacheAssumption
<1>1. call \in [Requests -> CallPCs] /\ counter \in Int
  BY DEF CacheTypes
<1>2. CASE UNCHANGED <<call, counter>>
  BY <1>2 DEF Admission
<1>3. ASSUME NEW r \in Requests, CheckState(r)
      PROVE  Admission'
  <2>1. UNCHANGED counter
    BY <1>3 DEF CheckState
  <2>2. \A q \in Requests : call[q] \notin {"check", "admit"}
    BY <1>3 DEF CheckState, LockFree
  <2>3. /\ call'[r] \in {"check", "refused"}
        /\ \A q \in Requests : q # r => call'[q] = call[q]
    BY <1>1, <1>3 DEF CheckState, Proceed
  <2>4. QED BY <2>1, <2>2, <2>3 DEF Admission
<1>4. ASSUME NEW r \in Requests, Request(r)
      PROVE  Admission'
  <2>1. CASE CheckCount(r)
    <3>1. /\ UNCHANGED counter /\ call[r] = "check"
          /\ \A q \in Requests : q # r => call'[q] = call[q]
          /\ \/ call'[r] = "admit" /\ counter < MaxOutstandingCacheRequests
             \/ call'[r] = "refused"
      BY <1>1, <2>1 DEF CheckCount, Proceed
    <3>2. QED BY <3>1 DEF Admission
  <2>2. CASE ~CheckCount(r)
    <3>1. \A q \in Requests : call'[q] \in {"check", "admit"} => call'[q] = call[q] /\ q # r
      BY <1>1, <1>4, <2>2 DEF Request, CheckCount, Admit, CreateCacheRequest, CreateFails,
         StoreSession, SendCacheRequest, SendUncount, DestroyCacheRequest, Proceed
    <3>2. \/ call[r] = "admit" /\ counter' = counter + 1
          \/ counter' \in {counter, counter - 1}
      BY <1>4, <2>2 DEF Request, CheckCount, Admit, CreateCacheRequest, CreateFails, StoreSession,
         SendCacheRequest, SendUncount, DestroyCacheRequest
    <3>3. QED BY <1>1, <3>1, <3>2 DEF Admission
  <2>3. QED BY <2>1, <2>2
<1>5. CASE Poll
  <2>1. UNCHANGED call /\ counter' \in {counter, counter - 1}
    BY <1>5 DEF Poll, PollTake, ProcessCacheEvent, ProcessDestroy, PollEnd, reqVars
  <2>2. QED BY <1>1, <2>1 DEF Admission
<1>6. CASE Context \/ Terminate \/ ReceiverTerminates \/ UNCHANGED cacheVars
  BY <1>2, <1>6 DEF Context, ContextLookup, ContextPush, ContextDelete, Terminate,
     ReceiverTerminates, TerminateIncomplete, TeardownBegin, TeardownCancel, TeardownPush,
     TeardownClose, reqVars, cacheVars
<1>7. QED BY <1>3, <1>4, <1>5, <1>6, CacheSteps

-----------------------------------------------------------------------------
(* The entries of cacheRequestMap.  Nobody but the request's own goroutine *)
(* puts one there, once.                                                   *)
LEMMA EntriesKept ==
    ASSUME CacheTypes, EntriesOK, [CacheNext]_cacheVars
    PROVE  EntriesOK'
<1> USE CacheAssumption
<1>1. /\ call \in [Requests -> CallPCs] /\ ptr \in [Requests -> Pointers \cup {Nil}]
      /\ requestMap \in [Pointers -> Requests \cup {None}]
  BY DEF CacheTypes, Entries
<1>2. CASE UNCHANGED <<call, ptr>> /\ \A p \in Pointers : requestMap'[p] \in {requestMap[p], None}
  BY <1>1, <1>2 DEF EntriesOK
<1>3. ASSUME NEW r \in Requests, CheckState(r) \/ Request(r)
      PROVE  EntriesOK'
  <2>1. CASE CheckState(r) \/ CheckCount(r) \/ Admit(r) \/ CreateCacheRequest(r)
            \/ CreateFails(r)
    <3>1. /\ UNCHANGED requestMap /\ call[r] \notin {"send", "undo", "destroy", "returned"}
          /\ \A q \in Requests : q # r => call'[q] = call[q] /\ ptr'[q] = ptr[q]
      BY <1>1, <2>1 DEF CheckState, CheckCount, Admit, CreateCacheRequest, CreateFails, Proceed,
         mapVars
    <3>2. QED BY <1>1, <3>1 DEF EntriesOK
  <2>2. CASE StoreSession(r)
    <3>1. CASE requestMap[ptr[r]] # None
      <4>1. UNCHANGED <<ptr, requestMap>> /\ call[r] = "store"
            /\ \A q \in Requests : q # r => call'[q] = call[q]
        BY <1>1, <2>2, <3>1 DEF StoreSession, Proceed
      <4>2. QED BY <1>1, <4>1 DEF EntriesOK
    <3>2. CASE requestMap[ptr[r]] = None
      <4>1. UNCHANGED ptr /\ call[r] = "store" /\ call' = [call EXCEPT ![r] = "send"]
            /\ requestMap' = [requestMap EXCEPT ![ptr[r]] = r]
        BY <1>1, <2>2, <3>2 DEF StoreSession, Proceed
      <4>2. QED BY <1>1, <4>1 DEF EntriesOK
    <3>3. QED BY <3>1, <3>2
  <2>3. CASE SendCacheRequest(r) \/ SendUncount(r)
    <3>1. UNCHANGED <<ptr, requestMap>> /\ \E l \in {"returned", "undo", "destroy"} : Proceed(r, l)
      BY <2>3 DEF SendCacheRequest, SendUncount, mapVars
    <3>2. QED BY <1>1, <3>1 DEF EntriesOK, Proceed
  <2>4. CASE DestroyCacheRequest(r)
    <3>1. UNCHANGED ptr /\ call' = [call EXCEPT ![r] = "failed"]
          /\ requestMap' = [requestMap EXCEPT ![ptr[r]] = None]
      BY <2>4 DEF DestroyCacheRequest, Proceed
    <3>2. QED BY <1>1, <3>1 DEF EntriesOK
  <2>5. QED BY <1>3, <2>1, <2>2, <2>3, <2>4 DEF Request
<1>4. CASE Poll
  BY <1>1, <1>2, <1>4 DEF Poll, PollTake, ProcessCacheEvent, ProcessDestroy, PollEnd, reqVars,
     mapVars
<1>5. CASE Context \/ Terminate \/ ReceiverTerminates \/ UNCHANGED cacheVars
  BY <1>2, <1>5 DEF Context, ContextLookup, ContextPush, ContextDelete, Terminate,
     ReceiverTerminates, TerminateIncomplete, TeardownBegin, TeardownCancel, TeardownPush,
     TeardownClose, reqVars, mapVars, cacheVars
<1>6. QED BY <1>3, <1>4, <1>5, CacheSteps

(* An entry that has been answered is about to be removed, and its request *)
(* makes no other.                                                         *)
LEMMA AnswersKept ==
    ASSUME CacheTypes, EntriesOK, Answers, [CacheNext]_cacheVars
    PROVE  Answers'
<1> USE CacheAssumption
<1>1. /\ call \in [Requests -> CallPCs] /\ answered \in [Requests -> Nat]
      /\ requestMap \in [Pointers -> Requests \cup {None}] /\ event \in Pointers \cup {Nil}
  BY DEF CacheTypes, Entries
<1>2. CASE UNCHANGED <<call, requestMap, answered, poll, event>>
  BY <1>2 DEF Answers, AnswerOf
<1>3. ASSUME NEW r \in Requests, CheckState(r) \/ Request(r)
      PROVE  Answers'
  <2>1. UNCHANGED <<answered, event>> /\ (poll = "destroy" => poll' = "destroy")
    BY <1>3 DEF CheckState, Request, CheckCount, Admit, CreateCacheRequest, CreateFails,
       StoreSession, SendCacheRequest, SendUncount, DestroyCacheRequest, pollVars
  <2>2. \A q \in Requests : q # r => call'[q] = call[q]
    BY <1>1, <1>3 DEF CheckState, Request, CheckCount, Admit, CreateCacheRequest, CreateFails,
       StoreSession, SendCacheRequest, SendUncount, DestroyCacheRequest, Proceed
  <2>3. call'[r] \in {"idle", "refused", "check", "admit", "create", "store"} =>
           call[r] \in {"idle", "refused", "check", "admit", "create", "store"}
    BY <1>1, <1>3 DEF CheckState, Request, CheckCount, Admit, CreateCacheRequest, CreateFails,
       StoreSession, SendCacheRequest, SendUncount, DestroyCacheRequest, Proceed
  <2>4. \A p \in Pointers : \/ requestMap'[p] \in {requestMap[p], None}
                            \/ requestMap'[p] = r /\ call[r] = "store"
    BY <1>1, <1>3 DEF CheckState, Request, CheckCount, Admit, CreateCacheRequest, CreateFails,
       StoreSession, SendCacheRequest, SendUncount, DestroyCacheRequest, mapVars
  <2>5. QED BY <1>1, <2>1, <2>2, <2>3, <2>4 DEF Answers, AnswerOf
<1>4. CASE PollTake \/ PollEnd
  <2>1. UNCHANGED <<call, requestMap, answered>> /\ poll # "destroy"
    BY <1>4 DEF PollTake, PollEnd, reqVars, mapVars, pollVars
  <2>2. QED BY <1>1, <2>1 DEF Answers, AnswerOf
<1>5. CASE ProcessCacheEvent
  <2>1. /\ UNCHANGED <<call, requestMap, event>> /\ poll = "process" /\ poll' = "destroy"
        /\ answered' = [r \in Requests |-> IF r = Found THEN answered[r] + 1 ELSE answered[r]]
    BY <1>5 DEF ProcessCacheEvent, reqVars, mapVars
  <2>2. ASSUME NEW q \in Requests PROVE AnswerOf(q)'
    <3>1. CASE q = Found
      <4>1. event \in Pointers /\ requestMap[event] = q
        BY <1>1, <3>1 DEF Found
      <4>2. answered[q] # 1 /\ answered[q] <= 1 /\ answered[q] \in Nat
        BY <1>1, <2>1, <4>1 DEF Answers, AnswerOf
      <4>3. answered'[q] = 1
        BY <2>1, <3>1, <4>2
      <4>4. \A p \in Pointers : requestMap[p] = q => p = event
        BY <4>1 DEF EntriesOK
      <4>5. call[q] \in {"send", "undo", "destroy", "returned"}
        BY <4>1 DEF EntriesOK
      <4>6. QED BY <2>1, <4>3, <4>4, <4>5 DEF AnswerOf
    <3>2. CASE q # Found
      <4>1. answered'[q] = answered[q] /\ AnswerOf(q)
        BY <2>1, <3>2 DEF Answers
      <4>2. QED BY <2>1, <4>1 DEF AnswerOf
    <3>3. QED BY <3>1, <3>2
  <2>3. QED BY <2>2 DEF Answers
<1>6. CASE ProcessDestroy
  <2>1. /\ UNCHANGED <<call, answered>> /\ poll = "destroy"
        /\ requestMap' = [p \in Pointers |-> IF p = event THEN None ELSE requestMap[p]]
    BY <1>6 DEF ProcessDestroy, reqVars
  <2>2. QED BY <1>1, <2>1 DEF Answers, AnswerOf
<1>7. CASE Context \/ Terminate \/ ReceiverTerminates \/ UNCHANGED cacheVars
  BY <1>2, <1>7 DEF Context, ContextLookup, ContextPush, ContextDelete, Terminate,
     ReceiverTerminates, TerminateIncomplete, TeardownBegin, TeardownCancel, TeardownPush,
     TeardownClose, reqVars, mapVars, pollVars, cacheVars
<1>8. QED BY <1>3, <1>4, <1>5, <1>6, <1>7, CacheSteps DEF Poll

-----------------------------------------------------------------------------
(* A step of a quiet receiver's cache leaves it quiet, or teardown begins  *)
(* to push; it does not become quiet again.                                *)
LEMMA QuietBefore ==
    ASSUME CacheTypes, Teardown, [CacheNext]_cacheVars, Quiet'
    PROVE  Quiet /\ UNCHANGED open
<1>1. CASE \E r \in Requests : CheckState(r) \/ Request(r)
  BY <1>1 DEF Quiet, CheckState, Request, CheckCount, Admit, CreateCacheRequest, CreateFails,
     StoreSession, SendCacheRequest, SendUncount, DestroyCacheRequest, chanVars, teardownVars
<1>2. CASE Context \/ Poll \/ UNCHANGED cacheVars
  BY <1>2 DEF Quiet, Context, ContextLookup, ContextPush, ContextDelete, Poll, PollTake,
     ProcessCacheEvent, ProcessDestroy, PollEnd, chanVars, teardownVars, cacheVars
<1>3. CASE Terminate \/ ReceiverTerminates
  BY <1>3 DEF Quiet, Teardown, Terminate, ReceiverTerminates, TerminateIncomplete, TeardownBegin,
     TeardownCancel, TeardownPush, TeardownClose, chanVars
<1>4. QED BY <1>1, <1>2, <1>3, CacheSteps

(* Teardown's stages are kept by a request, which gets no further than     *)
(* refused once the receiver terminates ...                                *)
LEMMA RequestTeardown ==
    ASSUME CacheTypes, Teardown, NEW r \in Requests, ~panicked, CheckState(r) \/ Request(r)
    PROVE  Teardown'
<1>1. UNCHANGED <<receiverState, teardownPC, open, pushes, overtaken, ctx>> /\ (Quiet' <=> Quiet)
  BY DEF Quiet, CheckState, Request, CheckCount, Admit, CreateCacheRequest, CreateFails,
     StoreSession, SendCacheRequest, SendUncount, DestroyCacheRequest, chanVars, teardownVars,
     histVars
<1>2. call \in [Requests -> CallPCs] /\ callbackMap \in [Pointers -> Requests \cup {None}]
      /\ pending \subseteq Pointers
  BY DEF CacheTypes, Entries
<1>3. ~Quiet => receiverState # "started"
  BY DEF Quiet, Teardown
<1>4. poll' \in {"closed", "ended"} => poll \in {"closed", "ended"}
  BY DEF CheckState, Request, CheckCount, Admit, CreateCacheRequest, CreateFails, StoreSession,
     SendCacheRequest, SendUncount, DestroyCacheRequest, pollVars
<1>5. CASE CheckState(r)
  <2>1. /\ UNCHANGED <<panicked, pending, callbackMap>>
        /\ \A q \in Requests : ~Quiet /\ ~Underway(q) => ~Underway(q)'
    BY <1>2, <1>3, <1>5 DEF CheckState, MayRequest, Underway, Proceed, histVars, mapVars, libVars
  <2>2. QED BY <1>1, <1>4, <2>1 DEF Teardown
<1>6. CASE Request(r)
  <2>1. Underway(r)
    BY <1>6 DEF Underway, Request, CheckCount, Admit, CreateCacheRequest, CreateFails,
       StoreSession, SendCacheRequest, SendUncount, DestroyCacheRequest
  <2>2. ~Quiet => overtaken # {}
    BY <2>1 DEF Teardown
  <2>3. ~open => ~Quiet
    BY DEF Quiet
  <2>4. panicked' => overtaken # {}
    <3>1. CASE Admit(r)
      BY <2>2, <2>3, <3>1 DEF Admit, Teardown
    <3>2. CASE ~Admit(r)
      BY <1>6, <3>2 DEF Request, CheckCount, CreateCacheRequest, CreateFails, StoreSession,
         SendCacheRequest, SendUncount, DestroyCacheRequest, histVars
    <3>3. QED BY <3>1, <3>2
  <2>5. QED BY <1>1, <1>4, <2>2, <2>3, <2>4 DEF Teardown
<1>7. QED BY <1>5, <1>6

(* ... by the context thread, and by the polling goroutine ...             *)
LEMMA ContextTeardown ==
    ASSUME CacheTypes, Teardown, ~panicked, Context
    PROVE  Teardown'
<1>1. UNCHANGED <<receiverState, teardownPC, open, pushes, overtaken, call, poll>> /\ (Quiet' <=> Quiet)
  BY DEF Quiet, Context, ContextLookup, ContextPush, ContextDelete, chanVars, teardownVars,
     histVars, pollVars, reqVars
<1>2. \A q \in Requests : Underway(q)' <=> Underway(q)
  BY <1>1 DEF Underway
<1>3. callbackMap \in [Pointers -> Requests \cup {None}] /\ pending \subseteq Pointers
  BY DEF CacheTypes, Entries
<1>4. ~open /\ overtaken = {} => ctx' = Idle /\ \A p \in pending' : callbackMap'[p] = None
  <2>1. SUFFICES ASSUME ~open, overtaken = {}
                 PROVE  ctx' = Idle /\ \A p \in pending' : callbackMap'[p] = None
    OBVIOUS
  <2>2. ctx = Idle /\ ctx.at = "idle" /\ \A p \in pending : callbackMap[p] = None
    BY <2>1 DEF Teardown, Idle
  <2>3. ContextLookup
    BY <2>2 DEF Context, ContextPush, ContextDelete
  <2>4. QED BY <2>2, <2>3 DEF ContextLookup, mapVars
<1>5. panicked' => overtaken # {}
  <2>1. CASE ContextPush
    <3>1. ctx # Idle /\ panicked' = ~open
      BY <2>1 DEF ContextPush, Idle
    <3>2. QED BY <3>1 DEF Teardown
  <2>2. CASE ~ContextPush
    BY <2>2 DEF Context, ContextLookup, ContextDelete, histVars
  <2>3. QED BY <2>1, <2>2
<1>6. QED BY <1>1, <1>2, <1>4, <1>5 DEF Teardown

(* ... the latter of which finds no channel closed ...                     *)
LEMMA PollTeardown ==
    ASSUME CacheTypes, EntriesOK, Teardown, QuietInv, ~panicked, Poll
    PROVE  Teardown'
<1>1. UNCHANGED <<receiverState, teardownPC, open, pushes, overtaken, call, ctx>> /\ (Quiet' <=> Quiet)
  BY DEF Quiet, Poll, PollTake, ProcessCacheEvent, ProcessDestroy, PollEnd, chanVars,
     teardownVars, histVars, reqVars
<1>2. \A q \in Requests : Underway(q)' <=> Underway(q)
  BY <1>1 DEF Underway
<1>3. callbackMap \in [Pointers -> Requests \cup {None}] /\ pending \subseteq Pointers
  BY DEF CacheTypes, Entries
<1>4. pending' \subseteq pending /\ \A p \in Pointers : callbackMap'[p] \in {callbackMap[p], None}
  BY <1>3 DEF Poll, PollTake, ProcessCacheEvent, ProcessDestroy, PollEnd, DestroyCacheSession,
     libVars, mapVars
<1>5. poll' \in {"closed", "ended"} => ~open
  BY DEF Poll, PollTake, ProcessCacheEvent, ProcessDestroy, PollEnd, Teardown
<1>6. panicked' => overtaken # {}
  <2>1. CASE ProcessCacheEvent
    <3>1. SUFFICES ASSUME Found # None, ChannelClosed(Found) PROVE overtaken # {}
      BY <1>1, <2>1 DEF ProcessCacheEvent
    <3>2. event \in Pointers /\ Found = requestMap[event] /\ Found \in Requests
      BY <3>1 DEF CacheTypes, Entries, Found
    <3>3. call[Found] = "destroy"
      BY <3>1, <3>2 DEF EntriesOK, ChannelClosed
    <3>4. ~Quiet
      BY <2>1, <3>1, <3>2, <3>3 DEF ProcessCacheEvent, QuietInv, Sessions, HasEvent, Taken
    <3>5. QED BY <3>2, <3>3, <3>4 DEF Teardown, Underway
  <2>2. CASE ~ProcessCacheEvent
    BY <2>2 DEF Poll, PollTake, ProcessDestroy, PollEnd, histVars
  <2>3. QED BY <2>1, <2>2
<1>7. QED BY <1>1, <1>2, <1>3, <1>4, <1>5, <1>6 DEF Teardown

(* ... and by the termination itself, which notes whom it overtakes.       *)
LEMMA TerminateTeardown ==
    ASSUME CacheTypes, Teardown, ~panicked, Terminate \/ ReceiverTerminates
    PROVE  Teardown'
<1>1. UNCHANGED <<call, poll, ctx, panicked>>
  BY DEF Terminate, ReceiverTerminates, TerminateIncomplete, TeardownBegin, TeardownCancel,
     TeardownPush, TeardownClose, pollVars, reqVars, histVars
<1>2. /\ callbackMap \in [Pointers -> Requests \cup {None}] /\ pending \subseteq Pointers
      /\ \A q \in Requests : Underway(q)' <=> Underway(q)
  BY <1>1 DEF CacheTypes, Entries, Underway
<1>3. CASE ReceiverTerminates \/ TerminateIncomplete
  BY <1>1, <1>2, <1>3 DEF ReceiverTerminates, TerminateIncomplete, Teardown, Quiet, chanVars,
     histVars, libVars, mapVars
<1>4. CASE TeardownBegin
  <2>1. UNCHANGED <<open, pushes>> /\ teardownPC = "stop" /\ teardownPC' \in {"range", "done"}
        /\ receiverState' # "started" /\ overtaken' = {r \in Requests : Underway(r)} /\ open
    BY <1>4 DEF TeardownBegin, Teardown, chanVars
  <2>2. QED BY <1>1, <1>2, <2>1, CacheAssumption DEF Teardown, Quiet
<1>5. CASE TeardownCancel \/ TeardownPush
  <2>1. UNCHANGED <<receiverState, teardownPC, open, overtaken>> /\ teardownPC = "range"
    BY <1>5 DEF TeardownCancel, TeardownPush, Teardown, chanVars, histVars
  <2>2. QED BY <1>1, <1>2, <2>1 DEF Teardown, Quiet
<1>6. CASE TeardownClose
  <2>1. /\ teardownPC = "range" /\ teardownPC' = "done" /\ receiverState' = "terminated"
        /\ UNCHANGED <<pushes, pending, callbackMap>>
        /\ overtaken' = (overtaken \cup {callbackMap[p] : p \in pending} \cup {ctx.owner}) \ {None}
        /\ pushes = <<>>
    BY <1>6 DEF TeardownClose, libVars, mapVars
  <2>2. ASSUME overtaken' = {}
        PROVE  /\ ctx = Idle /\ \A p \in pending : callbackMap[p] = None
               /\ \A r \in Requests : ~Underway(r)
    <3>1. overtaken = {} /\ ctx.owner = None /\ \A p \in pending : callbackMap[p] = None
      BY <2>1, <2>2 DEF Teardown
    <3>2. ctx = Idle
      BY <3>1, CacheAssumption DEF CacheTypes, CtxBusy
    <3>3. QED BY <2>1, <3>1, <3>2 DEF Teardown, Quiet
  <2>3. QED BY <1>1, <1>2, <2>1, <2>2 DEF Teardown, Quiet
<1>7. QED BY <1>3, <1>4, <1>5, <1>6 DEF Terminate

(* Every step keeps teardown's stages.                                     *)
LEMMA TeardownKept ==
    ASSUME CacheTypes, EntriesOK, Teardown, QuietInv, [CacheNext]_cacheVars
    PROVE  Teardown'
<1>1. CASE UNCHANGED cacheVars
  BY <1>1 DEF Teardown, Quiet, Underway, cacheVars, reqVars, mapVars, chanVars, pollVars,
     teardownVars, libVars, histVars
<1>2. QED BY <1>1, CacheSteps, RequestTeardown, ContextTeardown, PollTeardown, TerminateTeardown

-----------------------------------------------------------------------------
(* Until teardown pushes, a session has one event under way at most, and   *)
(* the count is of the requests whose event the poll has not taken.        *)

(* The requests with an event under way are counted.                       *)
LEMMA ExpectedCounted ==
    ASSUME CacheTypes, OneFlight
    PROVE  Expected \subseteq Counted
<1>1. SUFFICES ASSUME NEW r \in Requests, Outstanding(r), Among(chan, ptr[r]) \/ Pushing(ptr[r])
               PROVE  ~Taken(ptr[r])
  BY DEF Expected, Counted
<1>2. ptr[r] \in Pointers
  BY <1>1 DEF CacheTypes, Outstanding
<1>3. QED BY <1>1, <1>2 DEF OneFlight

(* They are finitely many.                                                 *)
LEMMA ExpectedFinite ==
    ASSUME CacheTypes, OneFlight, Counts
    PROVE  /\ IsFiniteSet(Expected) /\ Cardinality(Expected) <= Cardinality(Counted)
           /\ Cardinality(Expected) \in Nat /\ Cardinality(Counted) \in Nat
BY ExpectedCounted, FS_Subset, FS_CardinalityType DEF Counts

(* Where nothing the argument is about changes, it is kept.                *)
LEMMA QuietFrame ==
    ASSUME Sessions, OneFlight, Counts,
           UNCHANGED <<call, ptr, counter, requestMap, chan, poll, event, ctx, live, pending>>
    PROVE  (Sessions /\ OneFlight /\ Counts)'
<1>1. /\ \A p : /\ (Pushing(p)' <=> Pushing(p)) /\ (Taken(p)' <=> Taken(p))
               /\ (HasEvent(p)' <=> HasEvent(p))
      /\ \A r : Outstanding(r)' <=> Outstanding(r)
  BY DEF Pushing, Taken, HasEvent, Outstanding
<1>2. Counted' = Counted /\ Expected' = Expected
  BY <1>1 DEF Counted, Expected
<1>3. QED BY <1>1, <1>2 DEF Sessions, OneFlight, Counts

(* A step of a request moves no event.                                     *)
LEMMA RequestFlights ==
    ASSUME NEW r \in Requests, CheckState(r) \/ Request(r)
    PROVE  /\ UNCHANGED <<chan, ctx>>
           /\ \A p : (Pushing(p)' <=> Pushing(p)) /\ (Taken(p)' <=> Taken(p))
<1>1. UNCHANGED <<chan, ctx, event>>
  BY DEF CheckState, Request, CheckCount, Admit, CreateCacheRequest, CreateFails, StoreSession,
     SendCacheRequest, SendUncount, DestroyCacheRequest, chanVars, pollVars
<1>2. poll' = poll \/ (poll = "off" /\ poll' = "wait")
  BY DEF CheckState, Request, CheckCount, Admit, CreateCacheRequest, CreateFails, StoreSession,
     SendCacheRequest, SendUncount, DestroyCacheRequest, pollVars
<1>3. QED BY <1>1, <1>2 DEF Pushing, Taken

(* A request of its own goroutine's step is counted, or no longer, or as   *)
(* before, and expects what it did.                                        *)
LEMMA CountStep ==
    ASSUME Counts, UNCHANGED <<chan, ctx>>, Expected' = Expected, NEW r,
           \/ counter' = counter /\ Counted' = Counted
           \/ counter' = counter + 1 /\ Counted' = Counted \cup {r} /\ r \notin Counted
           \/ counter' = counter - 1 /\ Counted' = Counted \ {r} /\ r \in Counted
    PROVE  Counts'
<1>1. IsFiniteSet(Counted) /\ counter = Cardinality(Counted) /\ Cardinality(Counted) \in Nat
  BY FS_CardinalityType DEF Counts
<1>2. IsFiniteSet(Counted') /\ counter' = Cardinality(Counted')
  <2>1. CASE Counted' = Counted \cup {r} /\ r \notin Counted
    BY <1>1, <2>1, FS_AddElement
  <2>2. CASE Counted' = Counted \ {r} /\ r \in Counted
    BY <1>1, <2>2, FS_RemoveElement
  <2>3. CASE counter' = counter /\ Counted' = Counted
    BY <1>1, <2>3
  <2>4. QED BY <2>1, <2>2, <2>3
<1>3. QED BY <1>2 DEF Counts

(* OneFlight is kept by a request whose step adds no session with an event *)
(* under way to those with a request in progress.                          *)
LEMMA RequestOneFlight ==
    ASSUME OneFlight, NEW r \in Requests, CheckState(r) \/ Request(r),
           \A p \in pending' \ pending : ~HasEvent(p)
    PROVE  OneFlight'
BY RequestFlights DEF OneFlight, HasEvent

(* A request that only goes on to another stage, before it has a session   *)
(* or at the end ...                                                       *)
LEMMA StageQuiet ==
    ASSUME CacheTypes, EntriesOK, Sessions, OneFlight, Counts, NEW r \in Requests,
           CheckState(r) \/ CheckCount(r) \/ Admit(r) \/ CreateFails(r)
              \/ SendUncount(r)
    PROVE  (Sessions /\ OneFlight /\ Counts)'
<1> USE CacheAssumption
<1>1. /\ call \in [Requests -> CallPCs] /\ requestMap \in [Pointers -> Requests \cup {None}]
      /\ \A q \in Requests : call[q] = "returned" => ptr[q] \in Pointers
  BY DEF CacheTypes, Entries
<1>2. /\ UNCHANGED <<ptr, requestMap, live, pending>>
      /\ call[r] \in {"idle", "check", "admit", "create", "undo"}
      /\ \E l \in {"refused", "check", "admit", "create", "failed", "destroy"} :
            call' = [call EXCEPT ![r] = l] /\ (l = "destroy" => call[r] = "undo")
  BY DEF CheckState, CheckCount, Admit, CreateFails, SendUncount, Proceed, mapVars, libVars
<1>3. /\ call'[r] \in {"refused", "check", "admit", "create", "failed", "destroy"}
      /\ call'[r] = "destroy" => call[r] = "undo"
      /\ \A q \in Requests : q # r => call'[q] = call[q]
  BY <1>1, <1>2
<1>4. UNCHANGED <<chan, ctx>> /\ \A p : (Pushing(p)' <=> Pushing(p)) /\ (Taken(p)' <=> Taken(p))
  BY RequestFlights DEF Request
<1>5. OneFlight'
  BY <1>2, RequestOneFlight DEF Request
<1>6. \A p \in Pointers : HasEvent(p)' <=> HasEvent(p)
  BY <1>2, <1>4 DEF HasEvent
<1>7. Sessions'
  BY <1>1, <1>2, <1>3, <1>6 DEF Sessions
<1>8. \A q \in Requests : Outstanding(q)' <=> Outstanding(q)
  BY <1>2, <1>3 DEF Outstanding
<1>9. Expected' = Expected
  BY <1>2, <1>4, <1>8 DEF Expected
<1>10. \A q \in Requests : q # r => (q \in Counted' <=> q \in Counted)
  BY <1>2, <1>3, <1>4, <1>8 DEF Counted
<1>11. r \in Counted <=> call[r] \in {"create", "undo"}
  BY <1>2 DEF Counted, Outstanding
<1>12. r \in Counted' <=> call'[r] = "create"
  BY <1>3 DEF Counted, Outstanding
<1>13. Counted \subseteq Requests /\ Counted' \subseteq Requests
  BY DEF Counted
<1>14. CASE CheckState(r) \/ CheckCount(r)
  <2>1. counter' = counter /\ call[r] \in {"idle", "check"} /\ call'[r] # "create"
    BY <1>1, <1>14 DEF CheckState, CheckCount, Proceed
  <2>2. Counted' = Counted
    BY <1>10, <1>11, <1>12, <1>13, <2>1
  <2>3. QED BY <1>4, <1>5, <1>7, <1>9, <2>1, <2>2, CountStep
<1>15. CASE Admit(r)
  <2>1. counter' = counter + 1 /\ call[r] = "admit" /\ call'[r] = "create"
    BY <1>1, <1>15 DEF Admit, Proceed
  <2>2. Counted' = Counted \cup {r} /\ r \notin Counted
    BY <1>10, <1>11, <1>12, <1>13, <2>1
  <2>3. QED BY <1>4, <1>5, <1>7, <1>9, <2>1, <2>2, CountStep
<1>16. CASE CreateFails(r) \/ SendUncount(r)
  <2>1. counter' = counter - 1 /\ call[r] \in {"create", "undo"} /\ call'[r] # "create"
    BY <1>1, <1>16 DEF CreateFails, SendUncount, Proceed
  <2>2. Counted' = Counted \ {r} /\ r \in Counted
    BY <1>10, <1>11, <1>12, <1>13, <2>1
  <2>3. QED BY <1>4, <1>5, <1>7, <1>9, <2>1, <2>2, CountStep
<1>17. QED BY <1>14, <1>15, <1>16

(* ... one that gets a session, whose pointer no entry has ...             *)
LEMMA CreateQuiet ==
    ASSUME CacheTypes, EntriesOK, Sessions, OneFlight, Counts, NEW r \in Requests,
           CreateCacheRequest(r)
    PROVE  (Sessions /\ OneFlight /\ Counts)'
<1> USE CacheAssumption
<1>1. /\ call \in [Requests -> CallPCs] /\ ptr \in [Requests -> Pointers \cup {Nil}]
      /\ requestMap \in [Pointers -> Requests \cup {None}]
  BY DEF CacheTypes, Entries
<1>2. PICK p \in Pointers \ live : live' = live \cup {p} /\ ptr' = [ptr EXCEPT ![r] = p]
  BY DEF CreateCacheRequest
<1>3. /\ UNCHANGED <<counter, requestMap, pending>> /\ call[r] = "create" /\ call'[r] = "store"
      /\ \A q \in Requests : q # r => call'[q] = call[q] /\ ptr'[q] = ptr[q]
      /\ ptr'[r] = p
  BY <1>1, <1>2 DEF CreateCacheRequest, Proceed, mapVars
<1>4. UNCHANGED <<chan, ctx>> /\ \A q : (Pushing(q)' <=> Pushing(q)) /\ (Taken(q)' <=> Taken(q))
  BY RequestFlights DEF Request
<1>5. OneFlight'
  BY <1>3, RequestOneFlight DEF Request
<1>6. \A q \in Pointers : HasEvent(q)' <=> HasEvent(q)
  BY <1>3, <1>4 DEF HasEvent
<1>7. requestMap[p] = None
  BY <1>2 DEF Sessions
<1>8. Sessions'
  <2>1. \A q \in Requests : call'[q] = "store" => ptr'[q] \in live' /\ requestMap'[ptr'[q]] = None
    BY <1>2, <1>3, <1>7 DEF Sessions
  <2>2. \A q \in Requests : call'[q] \in {"send", "undo", "destroy"} => requestMap'[ptr'[q]] = q
    BY <1>3 DEF Sessions
  <2>3. \A q, s \in Requests : call'[q] = "store" /\ call'[s] = "store" /\ ptr'[q] = ptr'[s] => q = s
    BY <1>2, <1>3 DEF Sessions
  <2>4. \A q \in Pointers : requestMap'[q] # None => q \in live'
    BY <1>2, <1>3 DEF Sessions
  <2>5. \A q \in Pointers : HasEvent(q)' => requestMap'[q] # None /\ call'[requestMap'[q]] = "returned"
    BY <1>1, <1>3, <1>6 DEF Sessions
  <2>6. QED BY <2>1, <2>2, <2>3, <2>4, <2>5 DEF Sessions
<1>9. /\ \A q \in Requests : Outstanding(q)' <=> Outstanding(q)
      /\ ~Outstanding(r)
  BY <1>3 DEF Outstanding
<1>10. Expected' = Expected
  BY <1>3, <1>4, <1>9 DEF Expected
<1>11. Counted' = Counted
  BY <1>3, <1>4, <1>9 DEF Counted
<1>12. QED BY <1>3, <1>4, <1>5, <1>8, <1>10, <1>11, CountStep

(* ... one that enters it in cacheRequestMap, where it finds nothing ...   *)
LEMMA StoreQuiet ==
    ASSUME CacheTypes, EntriesOK, Sessions, OneFlight, Counts, NEW r \in Requests,
           StoreSession(r)
    PROVE  (Sessions /\ OneFlight /\ Counts)'
<1> USE CacheAssumption
<1> DEFINE p == ptr[r]
<1>1. /\ call \in [Requests -> CallPCs] /\ ptr \in [Requests -> Pointers \cup {Nil}]
      /\ requestMap \in [Pointers -> Requests \cup {None}]
      /\ \A q \in Requests : call[q] \in HoldPCs \cup {"returned"} => ptr[q] \in Pointers
  BY DEF CacheTypes, Entries
<1>2. call[r] = "store" /\ p \in Pointers /\ p \in live /\ requestMap[p] = None /\ ~HasEvent(p)
  BY <1>1 DEF StoreSession, Sessions, HoldPCs
<1>3. /\ UNCHANGED <<counter, ptr, live, pending>> /\ call'[r] = "send"
      /\ \A q \in Requests : q # r => call'[q] = call[q]
      /\ requestMap'[p] = r /\ \A q \in Pointers : q # p => requestMap'[q] = requestMap[q]
  BY <1>1, <1>2 DEF StoreSession, Proceed, libVars
<1>4. UNCHANGED <<chan, ctx>> /\ \A q : (Pushing(q)' <=> Pushing(q)) /\ (Taken(q)' <=> Taken(q))
  BY RequestFlights DEF Request
<1>5. OneFlight'
  BY <1>3, RequestOneFlight DEF Request
<1>6. \A q \in Pointers : HasEvent(q)' <=> HasEvent(q)
  BY <1>3, <1>4 DEF HasEvent
<1> HIDE DEF p
<1>7. \A q \in Requests : call[q] \in HoldPCs /\ q # r => ptr[q] \in Pointers /\ ptr[q] # p
  BY <1>1, <1>2 DEF Sessions, HoldPCs, p
<1>8. Sessions'
  <2>1. \A q \in Requests : call'[q] = "store" => ptr'[q] \in live' /\ requestMap'[ptr'[q]] = None
    BY <1>1, <1>3, <1>7 DEF Sessions, HoldPCs
  <2>2. \A q \in Requests : call'[q] \in {"send", "undo", "destroy"} => requestMap'[ptr'[q]] = q
    BY <1>1, <1>3, <1>7 DEF Sessions, HoldPCs, p
  <2>3. \A q, s \in Requests : call'[q] = "store" /\ call'[s] = "store" /\ ptr'[q] = ptr'[s] => q = s
    BY <1>3 DEF Sessions
  <2>4. \A q \in Pointers : requestMap'[q] # None => q \in live'
    BY <1>2, <1>3 DEF Sessions
  <2>5. \A q \in Pointers : HasEvent(q)' => requestMap'[q] # None /\ call'[requestMap'[q]] = "returned"
    BY <1>1, <1>2, <1>3, <1>6 DEF Sessions
  <2>6. QED BY <2>1, <2>2, <2>3, <2>4, <2>5 DEF Sessions
<1>9. /\ \A q \in Requests : Outstanding(q)' <=> Outstanding(q)
      /\ ~Outstanding(r)
  BY <1>1, <1>2, <1>3 DEF Outstanding
<1>10. Expected' = Expected
  BY <1>3, <1>4, <1>9 DEF Expected
<1>11. Counted' = Counted
  BY <1>2, <1>3, <1>4, <1>9 DEF Counted
<1>12. QED BY <1>3, <1>4, <1>5, <1>8, <1>10, <1>11, CountStep

(* ... one that sends, so that an event of its session, which has none, is *)
(* to come ...                                                             *)
LEMMA SendQuiet ==
    ASSUME CacheTypes, EntriesOK, Sessions, OneFlight, Counts, NEW r \in Requests,
           SendCacheRequest(r)
    PROVE  (Sessions /\ OneFlight /\ Counts)'
<1> USE CacheAssumption
<1> DEFINE p == ptr[r]
<1>1. /\ call \in [Requests -> CallPCs] /\ requestMap \in [Pointers -> Requests \cup {None}]
      /\ \A q \in Requests : call[q] \in HoldPCs \cup {"returned"} => ptr[q] \in Pointers
  BY DEF CacheTypes, Entries
<1>2. call[r] = "send" /\ p \in Pointers /\ requestMap[p] = r /\ ~HasEvent(p)
  BY <1>1 DEF SendCacheRequest, Sessions, HoldPCs
<1>3. /\ UNCHANGED <<counter, ptr, requestMap, live>>
      /\ \A q \in Requests : q # r => call'[q] = call[q]
      /\ \/ call'[r] = "returned" /\ pending' = pending \cup {p}
         \/ call'[r] = "undo" /\ pending' = pending
  BY <1>1 DEF SendCacheRequest, Proceed
<1>4. UNCHANGED <<chan, ctx>> /\ \A q : (Pushing(q)' <=> Pushing(q)) /\ (Taken(q)' <=> Taken(q))
  BY RequestFlights DEF Request
<1>5. OneFlight'
  BY <1>2, <1>3, RequestOneFlight DEF Request
<1>6. \A q \in Pointers : HasEvent(q)' => HasEvent(q) \/ (q = p /\ call'[r] = "returned")
  BY <1>3, <1>4 DEF HasEvent
<1> HIDE DEF p
<1>7. Sessions'
  <2>1. \A q \in Requests : call'[q] = "store" => ptr'[q] \in live' /\ requestMap'[ptr'[q]] = None
    BY <1>3 DEF Sessions
  <2>2. \A q \in Requests : call'[q] \in {"send", "undo", "destroy"} => requestMap'[ptr'[q]] = q
    BY <1>2, <1>3 DEF Sessions, p
  <2>3. \A q, s \in Requests : call'[q] = "store" /\ call'[s] = "store" /\ ptr'[q] = ptr'[s] => q = s
    BY <1>3 DEF Sessions
  <2>4. \A q \in Pointers : requestMap'[q] # None => q \in live'
    BY <1>3 DEF Sessions
  <2>5. \A q \in Pointers : HasEvent(q)' => requestMap'[q] # None /\ call'[requestMap'[q]] = "returned"
    BY <1>1, <1>2, <1>3, <1>6 DEF Sessions
  <2>6. QED BY <2>1, <2>2, <2>3, <2>4, <2>5 DEF Sessions
<1>8. /\ \A q \in Requests : q # r => (Outstanding(q)' <=> Outstanding(q))
      /\ call'[r] = "returned" => Outstanding(r)'
      /\ ~Taken(p) /\ ~Among(chan, p) /\ ~Pushing(p)
  BY <1>2, <1>3 DEF Outstanding, HasEvent, p
<1>9. Expected' = Expected
  BY <1>2, <1>3, <1>4, <1>8 DEF Expected, Outstanding, p
<1>10. Counted' = Counted
  BY <1>2, <1>3, <1>4, <1>8 DEF Counted, p
<1>11. QED BY <1>3, <1>4, <1>5, <1>7, <1>9, <1>10, CountStep

(* ... and one that destroys its session after a failed send.              *)
LEMMA DestroyQuiet ==
    ASSUME CacheTypes, EntriesOK, Sessions, OneFlight, Counts, NEW r \in Requests,
           DestroyCacheRequest(r)
    PROVE  (Sessions /\ OneFlight /\ Counts)'
<1> USE CacheAssumption
<1> DEFINE p == ptr[r]
<1>1. /\ call \in [Requests -> CallPCs] /\ requestMap \in [Pointers -> Requests \cup {None}]
      /\ \A q \in Requests : call[q] \in HoldPCs \cup {"returned"} => ptr[q] \in Pointers
  BY DEF CacheTypes, Entries
<1>2. call[r] = "destroy" /\ p \in Pointers /\ requestMap[p] = r /\ ~HasEvent(p)
  BY <1>1 DEF DestroyCacheRequest, Sessions, HoldPCs
<1>3. /\ UNCHANGED <<counter, ptr>> /\ call'[r] = "failed"
      /\ \A q \in Requests : q # r => call'[q] = call[q]
      /\ requestMap'[p] = None /\ \A q \in Pointers : q # p => requestMap'[q] = requestMap[q]
      /\ live' = live \ {p} /\ pending' = pending \ {p}
  BY <1>1, <1>2 DEF DestroyCacheRequest, DestroyCacheSession, Proceed
<1>4. UNCHANGED <<chan, ctx>> /\ \A q : (Pushing(q)' <=> Pushing(q)) /\ (Taken(q)' <=> Taken(q))
  BY RequestFlights DEF Request
<1>5. OneFlight'
  BY <1>3, RequestOneFlight DEF Request
<1>6. \A q \in Pointers : HasEvent(q)' => HasEvent(q) /\ q # p
  BY <1>2, <1>3, <1>4 DEF HasEvent
<1> HIDE DEF p
<1>7. \A q \in Requests : call[q] \in HoldPCs /\ q # r => ptr[q] \in Pointers /\ ptr[q] # p
  BY <1>1, <1>2 DEF Sessions, HoldPCs
<1>8. Sessions'
  <2>1. \A q \in Requests : call'[q] = "store" => ptr'[q] \in live' /\ requestMap'[ptr'[q]] = None
    BY <1>1, <1>3, <1>7 DEF Sessions, HoldPCs
  <2>2. \A q \in Requests : call'[q] \in {"send", "undo", "destroy"} => requestMap'[ptr'[q]] = q
    BY <1>1, <1>3, <1>7 DEF Sessions, HoldPCs
  <2>3. \A q, s \in Requests : call'[q] = "store" /\ call'[s] = "store" /\ ptr'[q] = ptr'[s] => q = s
    BY <1>3 DEF Sessions
  <2>4. \A q \in Pointers : requestMap'[q] # None => q \in live'
    BY <1>3 DEF Sessions
  <2>5. \A q \in Pointers : HasEvent(q)' => requestMap'[q] # None /\ call'[requestMap'[q]] = "returned"
    BY <1>1, <1>2, <1>3, <1>6 DEF Sessions
  <2>6. QED BY <2>1, <2>2, <2>3, <2>4, <2>5 DEF Sessions
<1>9. /\ \A q \in Requests : Outstanding(q)' <=> Outstanding(q)
      /\ ~Outstanding(r)
  BY <1>1, <1>2, <1>3 DEF Outstanding
<1>10. Expected' = Expected
  BY <1>3, <1>4, <1>9 DEF Expected
<1>11. Counted' = Counted
  BY <1>2, <1>3, <1>4, <1>9 DEF Counted
<1>12. QED BY <1>3, <1>4, <1>5, <1>8, <1>10, <1>11, CountStep

(* What is among the elements of a sequence that grows ...                 *)
LEMMA AmongAppend ==
    ASSUME NEW S, NEW s \in Seq(S), NEW a \in S, NEW x
    PROVE  Among(Append(s, a), x) <=> Among(s, x) \/ x = a
<1>1. /\ Len(Append(s, a)) = Len(s) + 1 /\ Append(s, a)[Len(s) + 1] = a /\ Len(s) \in Nat
      /\ \A i \in 1..Len(s) : Append(s, a)[i] = s[i]
  OBVIOUS
<1>2. QED BY <1>1 DEF Among

(* ... and of one without repetitions that loses its first.                *)
LEMMA AmongTail ==
    ASSUME NEW S, NEW s \in Seq(S), s # <<>>, \A i, j \in 1..Len(s) : s[i] = s[j] => i = j, NEW x
    PROVE  Among(Tail(s), x) <=> Among(s, x) /\ x # Head(s)
<1>1. /\ Len(s) \in Nat /\ Len(s) >= 1 /\ Len(Tail(s)) = Len(s) - 1 /\ Head(s) = s[1]
      /\ \A i \in 1..Len(Tail(s)) : Tail(s)[i] = s[i + 1]
  OBVIOUS
<1>2. ASSUME Among(Tail(s), x) PROVE Among(s, x) /\ x # Head(s)
  <2>1. PICK i \in 1..Len(Tail(s)) : Tail(s)[i] = x
    BY <1>2 DEF Among
  <2>2. i + 1 \in 1..Len(s) /\ s[i + 1] = x /\ i + 1 # 1 /\ 1 \in 1..Len(s)
    BY <1>1, <2>1
  <2>3. QED BY <1>1, <2>2 DEF Among
<1>3. ASSUME Among(s, x), x # Head(s) PROVE Among(Tail(s), x)
  <2>1. PICK i \in 1..Len(s) : s[i] = x
    BY <1>3 DEF Among
  <2>2. i # 1
    BY <1>1, <1>3, <2>1
  <2>3. i - 1 \in 1..Len(Tail(s)) /\ Tail(s)[i - 1] = x
    BY <1>1, <2>1, <2>2
  <2>4. QED BY <2>3 DEF Among
<1>4. QED BY <1>2, <1>3

(* The context thread takes a session from the requests in progress ...    *)
LEMMA LookupQuiet ==
    ASSUME CacheTypes, EntriesOK, Sessions, OneFlight, Counts, ContextLookup
    PROVE  (Sessions /\ OneFlight /\ Counts)'
<1> USE CacheAssumption
<1>1. /\ requestMap \in [Pointers -> Requests \cup {None}] /\ pending \subseteq Pointers
      /\ \A q \in Requests : call[q] \in HoldPCs \cup {"returned"} => ptr[q] \in Pointers
      /\ chan \in Seq(Pointers \cup {Nil}) /\ Len(chan) \in Nat
  BY DEF CacheTypes, Entries
<1>2. ctx.at = "idle" /\ UNCHANGED <<call, ptr, counter, requestMap, chan, poll, event, live>>
  BY DEF ContextLookup, Idle, reqVars, mapVars, chanVars, pollVars
<1>3. PICK p \in pending :
        /\ pending' = pending \ {p}
        /\ ctx' = IF callbackMap[p] = None THEN Idle
                  ELSE [at |-> "push", session |-> p, owner |-> callbackMap[p]]
  BY DEF ContextLookup
<1>4. p \in Pointers /\ HasEvent(p) /\ ~Among(chan, p) /\ ~Taken(p)
  BY <1>1, <1>3 DEF HasEvent, OneFlight
<1>5. /\ ctx'.at \in {"idle", "push"}
      /\ \A q : Pushing(q)' <=> q = p /\ ctx'.at = "push"
      /\ \A q : ~Pushing(q) /\ (Taken(q)' <=> Taken(q))
  BY <1>2, <1>3 DEF Pushing, Taken, Idle
<1>6. \A q \in Pointers : HasEvent(q)' => HasEvent(q)
  BY <1>2, <1>3, <1>4, <1>5 DEF HasEvent
<1>7. Sessions'
  BY <1>2, <1>6 DEF Sessions
<1>8. OneFlight'
  BY <1>2, <1>3, <1>4, <1>5 DEF OneFlight
<1> DEFINE r == requestMap[p]
<1>9. r \in Requests /\ ptr[r] = p /\ call[r] = "returned"
  BY <1>1, <1>4 DEF Sessions, EntriesOK
<1>10. \A q \in Requests : Outstanding(q)' <=> Outstanding(q)
  BY <1>2 DEF Outstanding
<1>11. Counted' = Counted
  BY <1>2, <1>5, <1>10 DEF Counted
<1>12. IsFiniteSet(Expected) /\ Cardinality(Expected) \in Nat
  BY ExpectedFinite
<1>13. CASE ctx'.at = "idle"
  <2>1. Expected' = Expected
    BY <1>2, <1>5, <1>10, <1>13 DEF Expected
  <2>2. QED BY <1>2, <1>7, <1>8, <1>11, <1>13, <2>1 DEF Counts
<1>14. CASE ctx'.at = "push"
  <2>1. r \notin Expected /\ Outstanding(r)
    BY <1>4, <1>5, <1>9 DEF Expected, Outstanding
  <2>2. \A q \in Requests : Outstanding(q) /\ ptr[q] = p => q = r
    BY DEF Outstanding
  <2>3. Expected' = Expected \cup {r}
    BY <1>2, <1>5, <1>9, <1>10, <1>14, <2>1, <2>2 DEF Expected
  <2>4. Cardinality(Expected') = Cardinality(Expected) + 1
    BY <1>12, <2>1, <2>3, FS_AddElement
  <2>5. Counts'
    BY <1>1, <1>2, <1>11, <1>12, <1>14, <2>4 DEF Counts
  <2>6. QED BY <1>7, <1>8, <2>5
<1>15. QED BY <1>5, <1>13, <1>14

(* ... and hands its event over.                                           *)
LEMMA PushQuiet ==
    ASSUME CacheTypes, EntriesOK, Sessions, OneFlight, Counts, open, ContextPush
    PROVE  (Sessions /\ OneFlight /\ Counts)'
<1> USE CacheAssumption
<1> DEFINE p == ctx.session
<1>1. /\ chan \in Seq(Pointers \cup {Nil}) /\ Len(chan) \in Nat /\ ctx \in Contexts
      /\ (ctx # Idle => CtxBusy(ctx))
  BY DEF CacheTypes
<1>2. /\ ctx.at = "push" /\ UNCHANGED <<call, ptr, counter, requestMap, poll, event, live, pending>>
      /\ chan' = Append(chan, p)
  BY DEF ContextPush, reqVars, mapVars, pollVars, libVars
<1>3. ctx'.at = "delete"
  BY <1>1 DEF ContextPush, Contexts
<1>4. p \in Pointers
  BY <1>1, <1>2 DEF Idle, CtxBusy
<1>5. /\ \A q : Pushing(q) <=> q = p
      /\ \A q : ~Pushing(q)' /\ (Taken(q)' <=> Taken(q))
      /\ \A q : Among(chan', q) <=> Among(chan, q) \/ q = p
  BY <1>1, <1>2, <1>3, <1>4, AmongAppend DEF Pushing, Taken
<1> HIDE DEF p
<1>6. \A q \in Pointers : HasEvent(q)' <=> HasEvent(q)
  BY <1>2, <1>5 DEF HasEvent
<1>7. Sessions'
  BY <1>2, <1>6 DEF Sessions
<1>8. p \notin pending /\ ~Among(chan, p) /\ ~Taken(p)
  BY <1>4, <1>5 DEF OneFlight
<1>9. OneFlight'
  <2>1. /\ Len(chan') = Len(chan) + 1 /\ chan'[Len(chan) + 1] = p
        /\ \A i \in 1..Len(chan) : chan'[i] = chan[i]
    BY <1>1, <1>2, <1>4
  <2>2. \A i \in 1..Len(chan) : chan[i] # p
    BY <1>8 DEF Among
  <2>3. \A i, j \in 1..Len(chan') : chan'[i] = chan'[j] => i = j
    BY <1>1, <2>1, <2>2 DEF OneFlight
  <2>4. \A i \in 1..Len(chan') : chan'[i] \in Pointers
    BY <1>1, <1>4, <2>1 DEF OneFlight
  <2>5. QED BY <1>2, <1>5, <1>8, <2>3, <2>4 DEF OneFlight
<1>10. \A q \in Requests : Outstanding(q)' <=> Outstanding(q)
  BY <1>2 DEF Outstanding
<1>11. Counted' = Counted
  BY <1>2, <1>5, <1>10 DEF Counted
<1>12. Expected' = Expected
  BY <1>2, <1>5, <1>10 DEF Expected
<1>13. Len(chan') = Len(chan) + 1
  BY <1>1, <1>2, <1>4
<1>14. Counts'
  BY <1>1, <1>2, <1>3, <1>11, <1>12, <1>13 DEF Counts
<1>15. QED BY <1>7, <1>9, <1>14

(* The context thread's last step concerns the callback alone.             *)
LEMMA DeleteQuiet ==
    ASSUME Sessions, OneFlight, Counts, ContextDelete
    PROVE  (Sessions /\ OneFlight /\ Counts)'
<1>1. /\ ctx.at = "delete" /\ ctx'.at = "idle"
      /\ UNCHANGED <<call, ptr, counter, requestMap, chan, poll, event, live, pending>>
  BY DEF ContextDelete, Idle, reqVars, mapVars, chanVars, pollVars, libVars
<1>2. /\ \A p : /\ (Pushing(p)' <=> Pushing(p)) /\ (Taken(p)' <=> Taken(p))
               /\ (HasEvent(p)' <=> HasEvent(p))
      /\ \A r : Outstanding(r)' <=> Outstanding(r)
  BY <1>1 DEF Pushing, Taken, HasEvent, Outstanding
<1>3. Counted' = Counted /\ Expected' = Expected
  BY <1>1, <1>2 DEF Counted, Expected
<1>4. QED BY <1>1, <1>2, <1>3 DEF Sessions, OneFlight, Counts

(* The poll takes the first event: its request is no longer counted, nor   *)
(* expected.                                                               *)
LEMMA TakeQuiet ==
    ASSUME CacheTypes, EntriesOK, Sessions, OneFlight, Counts, open, PollTake
    PROVE  (Sessions /\ OneFlight /\ Counts)'
<1> USE CacheAssumption
<1> DEFINE p == Head(chan)
           r == requestMap[p]
<1>1. /\ chan \in Seq(Pointers \cup {Nil}) /\ Len(chan) \in Nat /\ counter \in Int
      /\ requestMap \in [Pointers -> Requests \cup {None}]
  BY DEF CacheTypes, Entries
<1>2. /\ UNCHANGED <<call, ptr, requestMap, ctx, live, pending>> /\ chan # <<>> /\ poll = "wait"
      /\ poll' = "process" /\ event' = p /\ chan' = Tail(chan) /\ counter' = counter - 1
  BY DEF PollTake, mapVars, libVars
<1>3. /\ Len(chan) >= 1 /\ p = chan[1] /\ 1 \in 1..Len(chan) /\ Len(chan') = Len(chan) - 1
      /\ \A i \in 1..Len(chan') : chan'[i] = chan[i + 1] /\ i + 1 \in 1..Len(chan)
  BY <1>1, <1>2
<1>4. p \in Pointers /\ Among(chan, p)
  BY <1>3 DEF OneFlight, Among
<1>5. /\ \A q : (Pushing(q)' <=> Pushing(q)) /\ ~Taken(q) /\ (Taken(q)' <=> q = p)
      /\ \A q : Among(chan', q) <=> Among(chan, q) /\ q # p
  <2>1. \A q : Among(chan', q) <=> Among(chan, q) /\ q # p
    BY <1>1, <1>2, AmongTail DEF OneFlight
  <2>2. QED BY <1>2, <2>1 DEF Pushing, Taken
<1>6. r \in Requests /\ ptr[r] = p /\ call[r] = "returned"
  BY <1>1, <1>4 DEF Sessions, EntriesOK, HasEvent
<1> HIDE DEF p, r
<1>7. \A q \in Pointers : HasEvent(q)' => HasEvent(q)
  BY <1>2, <1>4, <1>5 DEF HasEvent
<1>8. Sessions'
  BY <1>2, <1>7 DEF Sessions
<1>9. OneFlight'
  <2>1. \A i, j \in 1..Len(chan') : chan'[i] = chan'[j] => i = j
    <3>1. SUFFICES ASSUME NEW i \in 1..Len(chan'), NEW j \in 1..Len(chan'), chan'[i] = chan'[j]
                   PROVE  i = j
      OBVIOUS
    <3>2. i + 1 = j + 1
      BY <1>3, <3>1 DEF OneFlight
    <3>3. QED BY <1>1, <1>3, <3>2
  <2>2. \A i \in 1..Len(chan') : chan'[i] \in Pointers
    BY <1>3 DEF OneFlight
  <2>3. p \notin pending /\ ~Pushing(p)
    BY <1>4 DEF OneFlight
  <2>4. QED BY <1>2, <1>5, <2>1, <2>2, <2>3 DEF OneFlight
<1>10. /\ \A q \in Requests : Outstanding(q)' <=> Outstanding(q)
       /\ Outstanding(r) /\ \A q \in Requests : Outstanding(q) /\ ptr[q] = p => q = r
  BY <1>2, <1>6 DEF Outstanding, r
<1>11. Counted' = Counted \ {r} /\ r \in Counted
  BY <1>2, <1>5, <1>6, <1>10 DEF Counted
<1>12. Expected' = Expected \ {r} /\ r \in Expected
  <2>1. ~Pushing(p)
    BY <1>4 DEF OneFlight
  <2>2. QED BY <1>2, <1>4, <1>5, <1>6, <1>10, <2>1 DEF Expected
<1>13. /\ IsFiniteSet(Expected) /\ Cardinality(Expected) \in Nat
       /\ IsFiniteSet(Counted) /\ Cardinality(Counted) \in Nat
  BY ExpectedFinite DEF Counts
<1>14. /\ Cardinality(Expected') = Cardinality(Expected) - 1
       /\ IsFiniteSet(Counted') /\ Cardinality(Counted') = Cardinality(Counted) - 1
  BY <1>11, <1>12, <1>13, FS_RemoveElement
<1>15. Counts'
  BY <1>1, <1>2, <1>3, <1>13, <1>14 DEF Counts
<1>16. QED BY <1>8, <1>9, <1>15

(* It answers, which leaves its event taken ...                            *)
LEMMA ProcessQuiet ==
    ASSUME Sessions, OneFlight, Counts, ProcessCacheEvent
    PROVE  (Sessions /\ OneFlight /\ Counts)'
<1>1. /\ poll = "process" /\ poll' = "destroy"
      /\ UNCHANGED <<call, ptr, counter, requestMap, chan, ctx, event, live, pending>>
  BY DEF ProcessCacheEvent, reqVars, mapVars, chanVars, libVars
<1>2. /\ \A p : /\ (Pushing(p)' <=> Pushing(p)) /\ (Taken(p)' <=> Taken(p))
               /\ (HasEvent(p)' <=> HasEvent(p))
      /\ \A r : Outstanding(r)' <=> Outstanding(r)
  BY <1>1 DEF Pushing, Taken, HasEvent, Outstanding
<1>3. Counted' = Counted /\ Expected' = Expected
  BY <1>1, <1>2 DEF Counted, Expected
<1>4. QED BY <1>1, <1>2, <1>3 DEF Sessions, OneFlight, Counts

(* ... and destroys the session, whose event was the last.                 *)
LEMMA EndQuiet ==
    ASSUME CacheTypes, EntriesOK, Sessions, OneFlight, Counts, ProcessDestroy
    PROVE  (Sessions /\ OneFlight /\ Counts)'
<1> USE CacheAssumption
<1>1. /\ requestMap \in [Pointers -> Requests \cup {None}] /\ event \in Pointers \cup {Nil}
      /\ \A q \in Requests : call[q] \in HoldPCs \cup {"returned"} => ptr[q] \in Pointers
  BY DEF CacheTypes, Entries
<1>2. /\ UNCHANGED <<call, ptr, counter, chan, ctx>> /\ poll = "destroy" /\ poll' = "wait"
      /\ \A q \in Pointers : requestMap'[q] = IF q = event THEN None ELSE requestMap[q]
      /\ live' = live \ {event} /\ pending' = pending \ {event}
  BY DEF ProcessDestroy, DestroyCacheSession, reqVars, chanVars
<1>3. \A q : (Pushing(q)' <=> Pushing(q)) /\ ~Taken(q)' /\ (Taken(q) <=> q = event)
  BY <1>2 DEF Pushing, Taken
<1>4. event \in Pointers => /\ event \notin pending /\ ~Among(chan, event) /\ ~Pushing(event)
                            /\ requestMap[event] # None /\ call[requestMap[event]] = "returned"
  BY <1>3 DEF OneFlight, Sessions, HasEvent
<1>5. \A q \in Pointers : HasEvent(q)' => HasEvent(q) /\ q # event
  BY <1>2, <1>3, <1>4 DEF HasEvent
<1>6. \A q \in Requests : call[q] \in HoldPCs => ptr[q] \in Pointers /\ ptr[q] # event
  <2>1. SUFFICES ASSUME NEW q \in Requests, call[q] \in HoldPCs, ptr[q] = event PROVE FALSE
    BY <1>1
  <2>2. event \in Pointers
    BY <1>1, <2>1
  <2>3. QED BY <1>4, <2>1, <2>2 DEF Sessions, HoldPCs
<1>7. Sessions'
  <2>1. \A q \in Requests : call'[q] = "store" => ptr'[q] \in live' /\ requestMap'[ptr'[q]] = None
    BY <1>2, <1>6 DEF Sessions, HoldPCs
  <2>2. \A q \in Requests : call'[q] \in {"send", "undo", "destroy"} => requestMap'[ptr'[q]] = q
    BY <1>2, <1>6 DEF Sessions, HoldPCs
  <2>3. \A q, s \in Requests : call'[q] = "store" /\ call'[s] = "store" /\ ptr'[q] = ptr'[s] => q = s
    BY <1>2 DEF Sessions
  <2>4. \A q \in Pointers : requestMap'[q] # None => q \in live'
    BY <1>2 DEF Sessions
  <2>5. \A q \in Pointers : HasEvent(q)' => requestMap'[q] # None /\ call'[requestMap'[q]] = "returned"
    BY <1>2, <1>5 DEF Sessions
  <2>6. QED BY <2>1, <2>2, <2>3, <2>4, <2>5 DEF Sessions
<1>8. OneFlight'
  BY <1>2, <1>3 DEF OneFlight
<1>9. \A q \in Requests : Outstanding(q)' <=> Outstanding(q) /\ ptr[q] # event
  BY <1>1, <1>2 DEF Outstanding
<1>10. Counted' = Counted
  BY <1>2, <1>3, <1>9 DEF Counted
<1>11. Expected' = Expected
  BY <1>1, <1>2, <1>3, <1>4, <1>9 DEF Expected, Outstanding
<1>12. QED BY <1>2, <1>7, <1>8, <1>10, <1>11 DEF Counts

(* Every step keeps it, as long as the receiver's cache is quiet.          *)
LEMMA QuietKept ==
    ASSUME CacheTypes, EntriesOK, Teardown, QuietInv, [CacheNext]_cacheVars
    PROVE  QuietInv'
<1>1. SUFFICES ASSUME Quiet' PROVE (Sessions /\ OneFlight /\ Counts)'
  BY DEF QuietInv
<1>2. Quiet /\ open /\ UNCHANGED open
  BY <1>1, QuietBefore DEF Quiet
<1>3. Sessions /\ OneFlight /\ Counts
  BY <1>2 DEF QuietInv
<1>4. ASSUME NEW r \in Requests, CheckState(r) \/ Request(r)
      PROVE  (Sessions /\ OneFlight /\ Counts)'
  BY <1>3, <1>4, StageQuiet, CreateQuiet, StoreQuiet, SendQuiet, DestroyQuiet DEF Request
<1>5. CASE Context
  BY <1>2, <1>3, <1>5, LookupQuiet, PushQuiet, DeleteQuiet DEF Context
<1>6. CASE Poll
  <2>1. ~PollEnd
    BY <1>2 DEF PollEnd, Teardown
  <2>2. QED BY <1>2, <1>3, <1>6, <2>1, TakeQuiet, ProcessQuiet, EndQuiet DEF Poll
<1>7. CASE Terminate \/ ReceiverTerminates
  <2>1. ~TeardownCancel /\ ~TeardownPush /\ ~TeardownClose
    BY <1>2 DEF TeardownCancel, TeardownPush, TeardownClose, Teardown, Quiet
  <2>2. UNCHANGED <<call, ptr, counter, requestMap, chan, poll, event, ctx, live, pending>>
    BY <1>7, <2>1 DEF Terminate, ReceiverTerminates, TerminateIncomplete, TeardownBegin, reqVars,
       mapVars, chanVars, pollVars, libVars
  <2>3. QED BY <1>3, <2>2, QuietFrame
<1>8. CASE UNCHANGED cacheVars
  <2>1. UNCHANGED <<call, ptr, counter, requestMap, chan, poll, event, ctx, live, pending>>
    BY <1>8 DEF cacheVars, reqVars, mapVars, chanVars, pollVars, libVars
  <2>2. QED BY <1>3, <2>1, QuietFrame
<1>9. QED BY <1>4, <1>5, <1>6, <1>7, <1>8, CacheSteps

-----------------------------------------------------------------------------
(* The invariant holds at first ...                                        *)
LEMMA CacheInitially == CacheInit => CacheTypes /\ CacheInv
<1> USE CacheAssumption
<1> SUFFICES ASSUME CacheInit PROVE CacheTypes /\ CacheInv
  OBVIOUS
<1>2. CacheTypes
  <2>1. ctx \in Contexts
    BY DEF CacheInit, Idle, Contexts
  <2>2. /\ chan \in Seq(Pointers \cup {Nil})
        /\ pushes \in Seq([event : Pointers \cup {Nil}, after : Contexts])
    BY DEF CacheInit
  <2>3. QED BY <2>1, <2>2 DEF CacheInit, CacheTypes, CallPCs, HoldPCs, PollPCs, Entries
<1>3. Admission /\ EntriesOK /\ Answers
  BY DEF CacheInit, Admission, EntriesOK, Answers, AnswerOf
<1>4. Teardown
  BY DEF CacheInit, Teardown, Quiet
<1>5. /\ chan = <<>> /\ Len(chan) = 0 /\ ctx.at = "idle" /\ poll = "off" /\ pending = {}
      /\ \A p : ~Among(chan, p) /\ ~Pushing(p) /\ ~Taken(p) /\ ~HasEvent(p)
  BY DEF CacheInit, Idle, Among, Pushing, Taken, HasEvent
<1>6. Sessions /\ OneFlight
  BY <1>5 DEF CacheInit, Sessions, OneFlight
<1>7. Counted = {} /\ Expected = {}
  BY <1>5 DEF CacheInit, Counted, Expected, Outstanding
<1>8. Counts
  BY <1>5, <1>7, FS_EmptySet DEF Counts, CacheInit
<1>9. QED BY <1>2, <1>3, <1>4, <1>6, <1>8 DEF CacheInv, QuietInv

(* ... and always.                                                         *)
LEMMA CacheInvariance == CacheSpec => [](CacheTypes /\ CacheInv)
<1>1. CacheTypes /\ CacheInv /\ [CacheNext]_cacheVars => (CacheTypes /\ CacheInv)'
  BY CacheTypesKept, AdmissionKept, EntriesKept, AnswersKept, TeardownKept, QuietKept DEF CacheInv
<1>2. QED BY <1>1, CacheInitially, PTL DEF CacheSpec

(* cacheResponseChan has room for every callback of the context thread     *)
(* until teardown pushes events of its own, and no request is answered     *)
(* twice, however many requests, sessions and outstanding requests.        *)
THEOREM ResponsesFindRoom == CacheSpec => []ResponsesNeverBlock
<1>1. CacheTypes /\ CacheInv => ResponsesNeverBlock
  <2>1. SUFFICES ASSUME CacheTypes, CacheInv PROVE ResponsesNeverBlock
    OBVIOUS
  <2>2. ASSUME ctx.at = "push", teardownPC \in {"idle", "stop"} PROVE HasRoom
    <3>1. Quiet
      BY <2>1, <2>2 DEF CacheInv, Teardown, Quiet, CacheTypes
    <3>2. OneFlight /\ Counts /\ counter <= MaxOutstandingCacheRequests /\ counter \in Int
      BY <2>1, <3>1 DEF CacheInv, QuietInv, Admission, CacheTypes
    <3>3. /\ Cardinality(Expected) <= Cardinality(Counted)
          /\ Cardinality(Expected) \in Nat /\ Cardinality(Counted) \in Nat
      BY <2>1, <3>2, ExpectedFinite
    <3>4. Len(chan) + 1 = Cardinality(Expected) /\ counter = Cardinality(Counted) /\ Len(chan) \in Nat
      BY <2>1, <2>2, <3>2 DEF Counts, CacheTypes
    <3>5. QED BY <3>2, <3>3, <3>4, CacheAssumption DEF HasRoom
  <2>3. \A r \in Requests : answered[r] <= 1
    BY <2>1 DEF CacheInv, Answers, AnswerOf
  <2>4. QED BY <2>2, <2>3 DEF ResponsesNeverBlock
<1>2. QED BY <1>1, CacheInvariance, PTL

(* No goroutine and no callback sends on a closed channel, or starts a     *)
(* second poll after teardown, unless teardownCache overtook a request.    *)
THEOREM PanicsOnlyWhenOvertaken == CacheSpec => []NoPanicUnlessOvertaken
<1>1. CacheTypes /\ CacheInv => NoPanicUnlessOvertaken
  BY DEF CacheInv, Teardown, NoPanicUnlessOvertaken
<1>2. QED BY <1>1, CacheInvariance, PTL

(* numOutstandingCacheRequests is exact until teardown pushes: it is the   *)
(* number of requests that were admitted and whose event the poll has not  *)
(* taken, and within the limit.                                            *)
CountExact ==
    Quiet => /\ IsFiniteSet(Counted) /\ counter = Cardinality(Counted)
             /\ counter \in 0..MaxOutstandingCacheRequests

(* The count is exact for any limit, also when requests fail half way: no  *)
(* path counts a request down twice or not at all.                         *)
THEOREM CountIsExact == CacheSpec => []CountExact
<1>1. CacheTypes /\ CacheInv => CountExact
  <2>1. SUFFICES ASSUME CacheTypes, CacheInv, Quiet
                 PROVE  /\ IsFiniteSet(Counted) /\ counter = Cardinality(Counted)
                        /\ counter \in 0..MaxOutstandingCacheRequests
    BY DEF CountExact
  <2>2. IsFiniteSet(Counted) /\ counter = Cardinality(Counted)
    BY <2>1 DEF CacheInv, QuietInv, Counts
  <2>3. counter \in Nat /\ counter <= MaxOutstandingCacheRequests
    BY <2>1, <2>2, FS_CardinalityType DEF CacheInv, Admission
  <2>4. QED BY <2>2, <2>3, CacheAssumption
<1>2. QED BY <1>1, CacheInvariance, PTL

(* An event that is to come is of the session of a request that was sent   *)
(* and whose entry is still there, and it is the only one of that session. *)
EventFindsRequest ==
    Quiet => /\ OneFlight
             /\ \A p \in Pointers : HasEvent(p) =>
                   \E r \in Requests : requestMap[p] = r /\ ptr[r] = p /\ call[r] = "returned"

(* Although the library uses pointers again, no event that the context     *)
(* thread or the poll carries is taken for one of another request.         *)
THEOREM EventsFindTheirRequest == CacheSpec => []EventFindsRequest
<1>1. CacheTypes /\ CacheInv => EventFindsRequest
  <2>1. SUFFICES ASSUME CacheTypes, CacheInv, Quiet
                 PROVE  /\ OneFlight
                        /\ \A p \in Pointers : HasEvent(p) =>
                              \E r \in Requests : /\ requestMap[p] = r /\ ptr[r] = p
                                                  /\ call[r] = "returned"
    BY DEF EventFindsRequest
  <2>2. OneFlight /\ Sessions /\ EntriesOK
    BY <2>1 DEF CacheInv, QuietInv
  <2>3. ASSUME NEW p \in Pointers, HasEvent(p)
        PROVE  \E r \in Requests : requestMap[p] = r /\ ptr[r] = p /\ call[r] = "returned"
    <3>1. requestMap[p] \in Requests /\ call[requestMap[p]] = "returned"
      BY <2>1, <2>2, <2>3 DEF Sessions, CacheTypes, Entries
    <3>2. ptr[requestMap[p]] = p
      BY <2>2, <3>1, CacheAssumption DEF EntriesOK
    <3>3. QED BY <3>1, <3>2
  <2>4. QED BY <2>2, <2>3
<1>2. QED BY <1>1, CacheInvariance, PTL
=============================================================================
