---------------------- MODULE PersistentReceiver_proofs ----------------------
(***************************************************************************)
(* The safety properties of the persistent receiver for any number of      *)
(* messages, consumers and calls, any window and any water marks that      *)
(* leave room for one.                                                     *)
(***************************************************************************)
EXTENDS PersistentReceiver, FiniteSetTheorems, TLAPS

States  == {"NotStarted", "Starting", "Started", "Terminating", "Terminated"}
Flows   == [running : BOOLEAN, credit : Nat, destroyed : BOOLEAN,
            error : SUBSET {"start", "stop"}]
CbPCs   == {"idle", "push", "high", "stop", "store", "recheck", "cas", "start"}
LoopPCs == {"off", "wait", "top", "pause", "paused", "look", "select", "handle", "low", "cas",
            "start", "exiting", "exited"}
RcvPCs  == {"idle", "select", "low", "cas", "start", "ack", "deferred", "return"}
Holding == {"low", "cas", "start", "ack"}
TermPCs == {"none", "stopped", "stop", "unblock", "close", "mark", "empty", "wait", "joinEmpty",
            "notify", "join", "drain", "destroy", "finish", "done"}
Fates   == {"wire", "callback", "returned", "buffered", "lost", "consumed", "returning",
            "delivered", "disposed", "panicked", "freed"}
Cbs     == [pc : CbPCs, msg : Messages \cup {NoMsg}]
Loops   == [pc : LoopPCs, msg : Messages \cup {NoMsg}]
Rcvs    == [pc : RcvPCs, msg : Messages \cup {NoMsg}, forever : BOOLEAN]
Terms   == [pc : TermPCs, kind : {"none", "timed", "down"}, count : Nat]

(* Every variable has its type, and whoever holds a message holds one.     *)
Types ==
    /\ state \in States /\ flow \in Flows /\ flowStopped \in {0, 1, 2} /\ raced \in BOOLEAN
    /\ buffer \in Seq(Messages)
    /\ cb \in Cbs /\ loop \in Loops /\ rcv \in [Receivers -> Rcvs] /\ term \in Terms
    /\ next \in Nat \ {0} /\ fate \in [Messages -> Fates] /\ acked \subseteq Messages
    /\ cb.pc = "push" => cb.msg \in Messages
    /\ loop.pc = "handle" => loop.msg \in Messages
    /\ \A r \in Receivers : /\ rcv[r].pc \in Holding => rcv[r].msg \in Messages
                            /\ rcv[r].pc \in {"idle", "select"} => rcv[r].msg = NoMsg

(* What a receiver's label says of the message it holds.                  *)
LEMMA RcvTypes ==
    ASSUME Types, NEW r \in Receivers
    PROVE  /\ rcv[r] \in Rcvs
           /\ rcv[r].pc \in Holding => rcv[r].msg \in Messages
           /\ rcv[r].pc \in {"idle", "select"} => rcv[r].msg = NoMsg
           /\ rcv[r].msg \in Messages \cup {NoMsg}
<1>1. /\ rcv \in [Receivers -> Rcvs]
      /\ \A q \in Receivers : /\ rcv[q].pc \in Holding => rcv[q].msg \in Messages
                              /\ rcv[q].pc \in {"idle", "select"} => rcv[q].msg = NoMsg
  BY Zenon DEF Types
<1>2. rcv[r] \in Rcvs
  BY <1>1
<1>3. rcv[r].msg \in Messages \cup {NoMsg}
  BY <1>2 DEF Rcvs
<1>4. QED BY <1>1, <1>2, <1>3, Zenon

(* The first message of the buffer is one, and what is left are.           *)
LEMMA BufferHead ==
    ASSUME Types, buffer # << >>
    PROVE  /\ Head(buffer) \in Messages /\ Head(buffer) = buffer[1]
           /\ Tail(buffer) \in Seq(Messages)
           /\ Len(buffer) \in Nat \ {0} /\ Len(Tail(buffer)) = Len(buffer) - 1
           /\ \A i \in 1 .. Len(buffer) - 1 : Tail(buffer)[i] = buffer[i + 1]
BY DEF Types

(* What the calls that change the flow leave: a flow.                      *)
LEMMA FlowTypes ==
    ASSUME Types
    PROVE  /\ FlowStart => /\ flow' \in Flows /\ flow'.running
                           /\ flow'.credit = flow.credit /\ flow'.destroyed = flow.destroyed
                           /\ flow'.error = flow.error
           /\ FlowStop => /\ flow' \in Flows /\ ~flow'.running
                          /\ flow'.credit = (IF flow.running THEN Window ELSE flow.credit)
                          /\ flow'.destroyed = flow.destroyed /\ flow'.error = flow.error
           /\ \A what \in {"start", "stop"} : FlowRefuses(what) =>
                  flow' \in Flows /\ flow'.error = flow.error \cup {what} /\ flow'.running = flow.running
           /\ FlowDestroy => flow' \in Flows /\ ~flow'.running /\ flow'.destroyed
                             /\ flow'.error = flow.error
           /\ Arrive /\ FlowDelivers =>
                  /\ flow' \in Flows /\ flow'.running = flow.running
                  /\ flow'.credit = (IF flow.running THEN flow.credit ELSE flow.credit - 1)
                  /\ flow.running \/ flow.credit > 0
                  /\ flow'.destroyed = flow.destroyed /\ flow'.error = flow.error
                  /\ next' = next + 1 /\ next' \in Nat \ {0} /\ next \in Messages
<1> USE PersistentReceiverAssumption
<1>1. flow \in Flows
  BY DEF Types
<1>2. FlowStart => /\ flow' \in Flows /\ flow'.running
                   /\ flow'.credit = flow.credit /\ flow'.destroyed = flow.destroyed
                   /\ flow'.error = flow.error
  BY <1>1 DEF FlowStart, Flows
<1>3. FlowStop => /\ flow' \in Flows /\ ~flow'.running
                  /\ flow'.credit = (IF flow.running THEN Window ELSE flow.credit)
                  /\ flow'.destroyed = flow.destroyed /\ flow'.error = flow.error
  BY <1>1 DEF FlowStop, Flows
<1>4. ASSUME NEW what \in {"start", "stop"}, FlowRefuses(what)
      PROVE  flow' \in Flows /\ flow'.error = flow.error \cup {what} /\ flow'.running = flow.running
  BY <1>1, <1>4 DEF FlowRefuses, Flows
<1>5. FlowDestroy => flow' \in Flows /\ ~flow'.running /\ flow'.destroyed
                     /\ flow'.error = flow.error
  BY <1>1 DEF FlowDestroy, Flows
<1>6. ASSUME Arrive, FlowDelivers
      PROVE  /\ flow' \in Flows /\ flow'.running = flow.running
             /\ flow'.credit = (IF flow.running THEN flow.credit ELSE flow.credit - 1)
             /\ flow.running \/ flow.credit > 0
             /\ flow'.destroyed = flow.destroyed /\ flow'.error = flow.error
             /\ next' = next + 1 /\ next' \in Nat \ {0} /\ next \in Messages
  <2>1. next' = next + 1 /\ next' \in Nat \ {0} /\ next \in Messages
    BY <1>6 DEF Arrive, FlowDelivers, Types, Messages
  <2>2. flow.running \/ flow.credit > 0
    BY <1>6 DEF FlowDelivers
  <2>3. QED BY <1>1, <1>6, <2>1, <2>2 DEF Arrive, Flows
<1>7. QED BY <1>2, <1>3, <1>4, <1>5, <1>6

(* startFlow leaves a flow and a flag.                                     *)
LEMMA StartFlowTypes ==
    ASSUME Types, StartFlowSwap \/ StartFlowCall
    PROVE  flow' \in Flows /\ flowStopped' \in {0, 1, 2} /\ raced' \in BOOLEAN
<1>1. flow \in Flows /\ flowStopped \in {0, 1, 2} /\ raced \in BOOLEAN
  BY DEF Types
<1>2. CASE StartFlowSwap
  BY <1>1, <1>2 DEF StartFlowSwap
<1>3. CASE StartFlowCall
  BY <1>1, <1>3, FlowTypes DEF StartFlowCall
<1>4. QED BY <1>2, <1>3

(* The steps of Start keep the types.                                      *)
LEMMA StartTypes ==
    ASSUME Types, StartFlow \/ StartOk \/ StartFail \/ UNCHANGED vars
    PROVE  Types'
<1>1. /\ state' \in States /\ flow' \in Flows
      /\ UNCHANGED <<flowStopped, raced, buffer, cb, rcv, term, next, fate, acked>>
  BY FlowTypes DEF StartFlow, StartOk, StartFail, vars, flowVars, obs, Types, States
<1>2. UNCHANGED loop \/ loop' = [loop EXCEPT !.pc = "wait"]
  BY DEF StartFlow, StartOk, StartFail, vars
<1>3. loop' \in Loops /\ (loop'.pc = "handle" => loop'.msg \in Messages)
  BY <1>2 DEF Types, Loops, LoopPCs
<1>4. QED BY <1>1, <1>3 DEF Types

(* The steps of messageCallback keep the types.                            *)
LEMMA CallbackTypes ==
    ASSUME Types, CallbackEnter \/ CallbackStep
    PROVE  Types'
<1>1. UNCHANGED <<state, loop, rcv, term, acked>>
  BY DEF CallbackEnter, CallbackStep, CallbackPush, CallbackHigh, CallbackStop, CallbackStore,
         CallbackRecheck, CallbackSwap, CallbackStart, obs
<1>2. ASSUME NEW l \in CbPCs \ {"push"}, Cb(l)
      PROVE  cb' \in Cbs /\ (cb'.pc = "push" => cb'.msg \in Messages)
  BY <1>2 DEF Cb, Types, Cbs
<1>3. CASE CallbackEnter
  <2>1. /\ flow' \in Flows /\ next \in Messages /\ next' \in Nat \ {0}
        /\ UNCHANGED <<flowStopped, raced, buffer>>
    BY <1>3, FlowTypes DEF CallbackEnter
  <2>2. cb' = cb \/ cb' = [pc |-> "push", msg |-> next]
    BY <1>3 DEF CallbackEnter
  <2>3. cb' \in Cbs /\ (cb'.pc = "push" => cb'.msg \in Messages)
    BY <2>1, <2>2 DEF Types, Cbs, CbPCs
  <2>4. fate' \in [Messages -> Fates]
    BY <1>3, <2>1 DEF CallbackEnter, Types, Fates
  <2>5. QED BY <1>1, <2>1, <2>3, <2>4 DEF Types
<1>4. CASE CallbackPush
  <2>1. cb.msg \in Messages /\ UNCHANGED <<flow, flowStopped, raced, next>>
    BY <1>4 DEF CallbackPush, Types, flowVars
  <2>2. \E l \in {"idle", "high"} : cb' = [pc |-> l, msg |-> NoMsg]
    BY <1>4 DEF CallbackPush
  <2>3. cb' \in Cbs /\ (cb'.pc = "push" => cb'.msg \in Messages)
    BY <2>2 DEF Cbs, CbPCs
  <2>4. fate' \in [Messages -> Fates] /\ buffer' \in Seq(Messages)
    BY <1>4, <2>1 DEF CallbackPush, Types, Fates
  <2>5. QED BY <1>1, <2>1, <2>3, <2>4 DEF Types
<1>5. CASE CallbackHigh \/ CallbackStop \/ CallbackStore \/ CallbackRecheck \/ CallbackSwap
           \/ CallbackStart
  <2>1. UNCHANGED <<buffer, next, fate>>
    BY <1>5 DEF CallbackHigh, CallbackStop, CallbackStore, CallbackRecheck, CallbackSwap,
                CallbackStart, obs
  <2>2. \E l \in CbPCs \ {"push"} : Cb(l)
    BY <1>5 DEF CallbackHigh, CallbackStop, CallbackStore, CallbackRecheck, CallbackSwap,
                CallbackStart, CbPCs, AfterStore
  <2>3. flow' \in Flows /\ flowStopped' \in {0, 1, 2} /\ raced' \in BOOLEAN
    <3>1. CASE CallbackHigh \/ CallbackStore \/ CallbackRecheck
      BY <3>1 DEF CallbackHigh, CallbackStore, CallbackRecheck, Types, flowVars
    <3>2. CASE CallbackStop
      BY <3>2, FlowTypes DEF CallbackStop, Types
    <3>3. CASE CallbackSwap \/ CallbackStart
      BY <3>3, StartFlowTypes DEF CallbackSwap, CallbackStart
    <3>4. QED BY <1>5, <3>1, <3>2, <3>3
  <2>4. QED BY <1>1, <1>2, <2>1, <2>2, <2>3 DEF Types
<1>6. QED BY <1>3, <1>4, <1>5 DEF CallbackStep

(* A goroutine in ReceiveMessage goes to l, with message m in its hands.   *)
Goes(r, l, m) ==
    /\ rcv' \in [Receivers -> Rcvs]
    /\ rcv'[r].pc = l /\ rcv'[r].msg = m
    /\ \A q \in Receivers \ {r} : rcv'[q] = rcv[q]

(* The flow refuses the acknowledgement.                                   *)
Refused == AutoAck /\ flow.destroyed

(* Where the steps of ReceiveMessage take it.                              *)
LEMMA ReceiveGoes ==
    ASSUME Types, NEW r \in Receivers
    PROVE  /\ ReceiveEnter(r) => rcv[r].pc = "idle" /\ Goes(r, "select", rcv[r].msg)
           /\ ReceiveTake(r) => /\ rcv[r].pc = "select" /\ buffer # << >>
                                /\ Goes(r, "low", Head(buffer))
           /\ ReceiveNothing(r) => rcv[r].pc = "select" /\ Goes(r, "deferred", rcv[r].msg)
           /\ ReceiveLow(r) => /\ rcv[r].pc = "low"
                               /\ Goes(r, IF BelowLow THEN "cas" ELSE "ack", rcv[r].msg)
           /\ ReceiveSwap(r) => /\ rcv[r].pc = "cas"
                                /\ Goes(r, IF StartFlowSwaps THEN "start" ELSE "ack", rcv[r].msg)
           /\ ReceiveStart(r) => rcv[r].pc = "start" /\ Goes(r, "ack", rcv[r].msg)
           /\ ReceiveAck(r) => /\ rcv[r].pc = "ack"
                               /\ Goes(r, "deferred", IF Refused THEN NoMsg ELSE rcv[r].msg)
           /\ ReceiveDeferred(r) => rcv[r].pc = "deferred" /\ Goes(r, "return", rcv[r].msg)
           /\ ReceiveReturn(r) => rcv[r].pc = "return" /\ Goes(r, "idle", NoMsg)
<1>1. rcv \in [Receivers -> Rcvs]
  BY DEF Types
<1>2. ASSUME NEW l \in RcvPCs, Rcv(r, l)
      PROVE  Goes(r, l, rcv[r].msg)
  BY <1>1, <1>2 DEF Rcv, Goes, Rcvs
<1>3. ReceiveEnter(r) => rcv[r].pc = "idle" /\ Goes(r, "select", rcv[r].msg)
  <2>1. SUFFICES ASSUME ReceiveEnter(r) PROVE rcv[r].pc = "idle" /\ Goes(r, "select", rcv[r].msg)
    OBVIOUS
  <2>2. PICK f \in BOOLEAN : rcv' = [rcv EXCEPT ![r].pc = "select", ![r].forever = f]
    BY <2>1 DEF ReceiveEnter
  <2>3. rcv[r].pc = "idle" BY <2>1 DEF ReceiveEnter
  <2>4. QED BY <1>1, <2>2, <2>3 DEF Goes, Rcvs, RcvPCs
<1>0. ASSUME NEW l \in RcvPCs, NEW m \in Messages \cup {NoMsg},
              rcv' = [rcv EXCEPT ![r].pc = l, ![r].msg = m]
       PROVE  Goes(r, l, m)
  BY <1>1, <1>0 DEF Goes, Rcvs
<1>4. ReceiveTake(r) => rcv[r].pc = "select" /\ buffer # << >> /\ Goes(r, "low", Head(buffer))
  BY <1>0, BufferHead DEF ReceiveTake, RcvPCs
<1>5. ReceiveAck(r) => /\ rcv[r].pc = "ack"
                       /\ Goes(r, "deferred", IF Refused THEN NoMsg ELSE rcv[r].msg)
  <2>1. SUFFICES ASSUME ReceiveAck(r)
                 PROVE  rcv[r].pc = "ack" /\ Goes(r, "deferred", IF Refused THEN NoMsg ELSE rcv[r].msg)
    OBVIOUS
  <2>2. /\ rcv[r].pc = "ack"
        /\ rcv' = [rcv EXCEPT ![r].pc = "deferred", ![r].msg = IF Refused THEN NoMsg ELSE @]
    BY <2>1 DEF ReceiveAck, Refused
  <2>3. CASE Refused
    BY <1>0, <2>2, <2>3 DEF RcvPCs
  <2>4. CASE ~Refused
    BY <1>1, <2>2, <2>4 DEF Goes, Rcvs, RcvPCs
  <2>5. QED BY <2>2, <2>3, <2>4
<1>6. ReceiveNothing(r) => rcv[r].pc = "select" /\ Goes(r, "deferred", rcv[r].msg)
  BY <1>2 DEF ReceiveNothing, RcvPCs
<1>7. ReceiveLow(r) => /\ rcv[r].pc = "low"
                       /\ Goes(r, IF BelowLow THEN "cas" ELSE "ack", rcv[r].msg)
  BY <1>2 DEF ReceiveLow, RcvPCs
<1>8. ReceiveSwap(r) => /\ rcv[r].pc = "cas"
                        /\ Goes(r, IF StartFlowSwaps THEN "start" ELSE "ack", rcv[r].msg)
  BY <1>2 DEF ReceiveSwap, RcvPCs
<1>9. ReceiveStart(r) => rcv[r].pc = "start" /\ Goes(r, "ack", rcv[r].msg)
  BY <1>2 DEF ReceiveStart, RcvPCs
<1>10. ReceiveDeferred(r) => rcv[r].pc = "deferred" /\ Goes(r, "return", rcv[r].msg)
  BY <1>2 DEF ReceiveDeferred, RcvPCs
<1>11. ReceiveReturn(r) => rcv[r].pc = "return" /\ Goes(r, "idle", NoMsg)
  BY <1>0 DEF ReceiveReturn, RcvPCs
<1>12. QED BY <1>3, <1>4, <1>5, <1>6, <1>7, <1>8, <1>9, <1>10, <1>11

(* The steps of ReceiveMessage keep the types.                             *)
LEMMA ReceiveTypes ==
    ASSUME Types, NEW r \in Receivers, ReceiveEnter(r) \/ ReceiveStep(r)
    PROVE  Types'
<1>1. UNCHANGED <<state, cb, loop, term, next>>
  BY DEF ReceiveEnter, ReceiveStep, ReceiveTake, ReceiveNothing, ReceiveLow, ReceiveSwap,
         ReceiveStart, ReceiveAck, ReceiveDeferred, ReceiveReturn
<1>2. ASSUME NEW l, NEW m, Goes(r, l, m), l \in Holding => m \in Messages,
             l \in {"idle", "select"} => m = NoMsg
      PROVE  /\ rcv' \in [Receivers -> Rcvs]
             /\ \A q \in Receivers : /\ rcv'[q].pc \in Holding => rcv'[q].msg \in Messages
                                     /\ rcv'[q].pc \in {"idle", "select"} => rcv'[q].msg = NoMsg
  BY <1>2 DEF Goes, Types
<1>3. /\ rcv[r].pc \in Holding => rcv[r].msg \in Messages
      /\ rcv[r].pc \in {"idle", "select"} => rcv[r].msg = NoMsg
      /\ rcv[r].msg \in Messages \cup {NoMsg}
  BY RcvTypes
<1>4. CASE ReceiveTake(r)
  <2>1. UNCHANGED <<flow, flowStopped, raced, acked>> /\ buffer' \in Seq(Messages)
        /\ Head(buffer) \in Messages
    BY <1>4, BufferHead DEF ReceiveTake, flowVars
  <2>2. fate' \in [Messages -> Fates]
    BY <1>4, <2>1 DEF ReceiveTake, Types, Fates
  <2>3. QED BY <1>1, <1>2, <1>4, <2>1, <2>2, ReceiveGoes DEF Types
<1>5. CASE ReceiveAck(r)
  <2>1. UNCHANGED <<flow, flowStopped, raced, buffer>> /\ rcv[r].msg \in Messages
    BY <1>3, <1>5 DEF ReceiveAck, flowVars, Holding
  <2>2. fate' \in [Messages -> Fates] /\ acked' \subseteq Messages
    BY <1>5, <2>1 DEF ReceiveAck, Ack, Types, Fates
  <2>3. \E m : Goes(r, "deferred", m) /\ "deferred" \notin Holding
    BY <1>5, ReceiveGoes DEF Holding
  <2>4. QED BY <1>1, <1>2, <2>1, <2>2, <2>3 DEF Types
<1>6. CASE ReceiveReturn(r)
  <2>1. UNCHANGED <<flow, flowStopped, raced, buffer, acked>> /\ fate' \in [Messages -> Fates]
    BY <1>3, <1>6 DEF ReceiveReturn, flowVars, Types, Fates
  <2>2. Goes(r, "idle", NoMsg) /\ "idle" \notin Holding
    BY <1>6, ReceiveGoes DEF Holding
  <2>3. QED BY <1>1, <1>2, <2>1, <2>2 DEF Types
<1>7. CASE ReceiveEnter(r) \/ ReceiveNothing(r) \/ ReceiveLow(r) \/ ReceiveSwap(r)
           \/ ReceiveStart(r) \/ ReceiveDeferred(r)
  <2>1. UNCHANGED <<buffer, fate, acked>>
    BY <1>7 DEF ReceiveEnter, ReceiveNothing, ReceiveLow, ReceiveSwap, ReceiveStart,
                ReceiveDeferred, obs
  <2>2. flow' \in Flows /\ flowStopped' \in {0, 1, 2} /\ raced' \in BOOLEAN
    <3>1. CASE ReceiveEnter(r) \/ ReceiveNothing(r) \/ ReceiveLow(r) \/ ReceiveDeferred(r)
      BY <3>1 DEF ReceiveEnter, ReceiveNothing, ReceiveLow, ReceiveDeferred, flowVars, Types
    <3>2. CASE ReceiveSwap(r) \/ ReceiveStart(r)
      BY <3>2, StartFlowTypes DEF ReceiveSwap, ReceiveStart
    <3>3. QED BY <1>7, <3>1, <3>2
  <2>3. \E l \in RcvPCs : /\ Goes(r, l, rcv[r].msg) /\ (l \in Holding => rcv[r].pc \in Holding)
                          /\ l \in {"idle", "select"} => rcv[r].pc = "idle"
    BY <1>7, ReceiveGoes DEF RcvPCs, Holding
  <2>4. QED BY <1>1, <1>2, <1>3, <2>1, <2>2, <2>3 DEF Types
<1>8. QED BY <1>4, <1>5, <1>6, <1>7 DEF ReceiveStep

(* The goroutine of ReceiveAsync goes to one of the places L, with no      *)
(* message of the buffer in its hands.                                     *)
LoopIn(L) == loop' \in Loops /\ loop'.pc \in L /\ loop'.pc # "handle"

(* Where its steps take it.                                                *)
LEMMA LoopGoes ==
    ASSUME Types
    PROVE  /\ LoopWait \/ LoopPause \/ LoopPauseEmpty \/ LoopPaused \/ LoopTop \/ LoopDrained
                 \/ LoopNotified \/ LoopInterrupted \/ LoopClose =>
                  /\ loop.pc \notin {"handle", "low", "cas", "start", "off"}
                  /\ LoopIn(LoopPCs \ {"handle", "low", "cas", "start", "off"})
           /\ LoopTake => /\ loop.pc = "select" /\ buffer # << >> /\ loop' \in Loops
                          /\ loop' = [pc |-> "handle", msg |-> Head(buffer)]
           /\ LoopHandled => loop.pc = "handle" /\ LoopIn({"low"})
           /\ LoopLow => loop.pc = "low" /\ LoopIn({IF BelowLow THEN "cas" ELSE "top"})
           /\ LoopSwap => loop.pc = "cas" /\ LoopIn({IF StartFlowSwaps THEN "start" ELSE "top"})
           /\ LoopStart => loop.pc = "start" /\ LoopIn({"top"})
<1>1. loop \in Loops
  BY DEF Types
<1>2. ASSUME NEW l \in LoopPCs \ {"handle"}, Loop1(l)
      PROVE  LoopIn({l})
  BY <1>1, <1>2 DEF Loop1, LoopIn, Loops
<1>3. ASSUME LoopWait \/ LoopPause \/ LoopPauseEmpty \/ LoopPaused \/ LoopTop \/ LoopDrained
                 \/ LoopNotified \/ LoopInterrupted \/ LoopClose
      PROVE  /\ loop.pc \notin {"handle", "low", "cas", "start", "off"}
             /\ LoopIn(LoopPCs \ {"handle", "low", "cas", "start", "off"})
  <2>1. \E l \in LoopPCs \ {"handle", "low", "cas", "start", "off"} : Loop1(l)
    BY <1>3 DEF LoopWait, LoopPause, LoopPauseEmpty, LoopPaused, LoopTop, LoopDrained,
                LoopNotified, LoopInterrupted, LoopClose, LoopPCs
  <2>2. loop.pc \notin {"handle", "low", "cas", "start", "off"}
    BY <1>3 DEF LoopWait, LoopPause, LoopPauseEmpty, LoopPaused, LoopTop, LoopDrained,
                LoopNotified, LoopInterrupted, LoopClose
  <2>3. QED BY <1>2, <2>1, <2>2 DEF LoopIn
<1>4. LoopTake => /\ loop.pc = "select" /\ buffer # << >> /\ loop' \in Loops
                  /\ loop' = [pc |-> "handle", msg |-> Head(buffer)]
  BY BufferHead DEF LoopTake, Loops, LoopPCs
<1>5. LoopHandled => loop.pc = "handle" /\ LoopIn({"low"})
  BY DEF LoopHandled, LoopIn, Loops, LoopPCs
<1>6. LoopLow => loop.pc = "low" /\ LoopIn({IF BelowLow THEN "cas" ELSE "top"})
  BY <1>2 DEF LoopLow, LoopPCs
<1>7. LoopSwap => loop.pc = "cas" /\ LoopIn({IF StartFlowSwaps THEN "start" ELSE "top"})
  BY <1>2 DEF LoopSwap, LoopPCs
<1>8. LoopStart => loop.pc = "start" /\ LoopIn({"top"})
  BY <1>2 DEF LoopStart, LoopPCs
<1>9. QED BY <1>3, <1>4, <1>5, <1>6, <1>7, <1>8

(* The steps of that goroutine keep the types.                             *)
LEMMA LoopTypes ==
    ASSUME Types, Loop
    PROVE  Types'
<1>1. UNCHANGED <<state, cb, rcv, term, next>>
  BY DEF Loop, LoopWait, LoopPause, LoopPauseEmpty, LoopPaused, LoopTop, LoopTake, LoopInterrupted,
         LoopDrained, LoopNotified, LoopHandled, LoopLow, LoopSwap, LoopStart, LoopClose
<1>2. CASE LoopTake
  <2>1. UNCHANGED <<flow, flowStopped, raced, acked>> /\ buffer' \in Seq(Messages)
        /\ Head(buffer) \in Messages
    BY <1>2, BufferHead DEF LoopTake, flowVars
  <2>2. fate' \in [Messages -> Fates]
    BY <1>2, <2>1 DEF LoopTake, Types, Fates
  <2>3. QED BY <1>1, <1>2, <2>1, <2>2, LoopGoes DEF Types
<1>3. CASE LoopHandled
  <2>1. UNCHANGED <<flow, flowStopped, raced, buffer>> /\ loop.msg \in Messages
    BY <1>3 DEF LoopHandled, flowVars, Types
  <2>2. fate' \in [Messages -> Fates] /\ acked' \subseteq Messages
    BY <1>3, <2>1 DEF LoopHandled, Ack, Types, Fates
  <2>3. QED BY <1>1, <1>3, <2>1, <2>2, LoopGoes DEF Types, LoopIn
<1>4. CASE Loop /\ ~LoopTake /\ ~LoopHandled
  <2>1. UNCHANGED <<buffer, fate, acked>>
    BY <1>4 DEF Loop, LoopWait, LoopPause, LoopPauseEmpty, LoopPaused, LoopTop, LoopInterrupted,
         LoopDrained, LoopNotified, LoopLow, LoopSwap, LoopStart, LoopClose, obs
  <2>2. flow' \in Flows /\ flowStopped' \in {0, 1, 2} /\ raced' \in BOOLEAN
    <3>1. CASE LoopSwap \/ LoopStart
      BY <3>1, StartFlowTypes DEF LoopSwap, LoopStart
    <3>2. CASE ~LoopSwap /\ ~LoopStart
      BY <1>4, <3>2 DEF Loop, LoopWait, LoopPause, LoopPauseEmpty, LoopPaused, LoopTop,
         LoopInterrupted, LoopDrained, LoopNotified, LoopLow, LoopClose, flowVars, Types
    <3>3. QED BY <3>1, <3>2
  <2>3. loop' \in Loops /\ loop'.pc # "handle"
    BY <1>4, LoopGoes DEF Loop, LoopIn
  <2>4. QED BY <1>1, <2>1, <2>2, <2>3 DEF Types
<1>5. QED BY <1>2, <1>3, <1>4

(* What Terminate leaves of itself.                                        *)
LEMMA TermGoes ==
    ASSUME Types
    PROVE  /\ \A p, q \in TermPCs : TermGoto(p, q) =>
                  /\ term.pc = p /\ term'.pc = q /\ term'.kind = term.kind
                  /\ term'.count = term.count /\ term' \in Terms
           /\ term' = Drained => /\ term'.pc = term.pc /\ term'.kind = term.kind
                                 /\ term'.count = term.count + 1 /\ term' \in Terms
<1>1. term \in Terms
  BY DEF Types
<1>2. ASSUME NEW p \in TermPCs, NEW q \in TermPCs, TermGoto(p, q)
      PROVE  /\ term.pc = p /\ term'.pc = q /\ term'.kind = term.kind
             /\ term'.count = term.count /\ term' \in Terms
  BY <1>1, <1>2 DEF TermGoto, Terms
<1>3. term' = Drained => /\ term'.pc = term.pc /\ term'.kind = term.kind
                         /\ term'.count = term.count + 1 /\ term' \in Terms
  BY <1>1 DEF Drained, Terms
<1>4. QED BY <1>2, <1>3

(* The steps of Terminate and of unsolicitedTermination keep the types.    *)
LEMMA TerminateTypes ==
    ASSUME Types, Terminate \/ \E kind \in {"timed", "down"} : TerminateSwap(kind)
    PROVE  Types'
<1>1. UNCHANGED <<cb, loop, rcv, next, acked, raced>>
  BY DEF Terminate, TerminateSwap, TerminateStopped, TerminateStop, TerminateDestroy,
         TerminateUnblock, TerminateClose, TerminateMark, TerminateEmpty, TerminateWait,
         TerminateNotify, TerminateJoin, DrainQueueOne, DrainQueueDone, TerminateFinish, obs,
         flowVars
<1>2. CASE \E kind \in {"timed", "down"} : TerminateSwap(kind)
  BY <1>1, <1>2 DEF TerminateSwap, Types, Terms, TermPCs, States, flowVars, obs
<1>3. CASE DrainQueueOne
  <2>1. UNCHANGED <<state, flow, flowStopped>> /\ buffer' \in Seq(Messages)
        /\ Head(buffer) \in Messages /\ term' \in Terms
    BY <1>3, BufferHead, TermGoes DEF DrainQueueOne, flowVars
  <2>2. fate' \in [Messages -> Fates]
    BY <1>3, <2>1 DEF DrainQueueOne, Types, Fates
  <2>3. QED BY <1>1, <2>1, <2>2 DEF Types
<1>4. CASE Terminate /\ ~DrainQueueOne
  <2>1. UNCHANGED <<buffer, fate>> /\ state' \in States
    BY <1>4 DEF Terminate, TerminateStopped, TerminateStop, TerminateDestroy,
         TerminateUnblock, TerminateClose, TerminateMark, TerminateEmpty, TerminateWait,
         TerminateNotify, TerminateJoin, DrainQueueDone, TerminateFinish, obs, States, Types
  <2>2. \E p, q \in TermPCs : TermGoto(p, q)
    BY <1>4 DEF Terminate, TerminateStopped, TerminateStop, TerminateDestroy,
         TerminateUnblock, TerminateClose, TerminateMark, TerminateEmpty, TerminateWait,
         TerminateNotify, TerminateJoin, DrainQueueDone, TerminateFinish, TermPCs
  <2>3. flow' \in Flows /\ flowStopped' \in {0, 1, 2}
    <3>1. CASE TerminateStop \/ TerminateDestroy
      BY <3>1, FlowTypes DEF TerminateStop, TerminateDestroy, Types
    <3>2. CASE ~TerminateStop /\ ~TerminateDestroy
      BY <1>4, <3>2 DEF Terminate, TerminateStopped, TerminateUnblock, TerminateClose,
         TerminateMark, TerminateEmpty, TerminateWait, TerminateNotify, TerminateJoin,
         DrainQueueDone, TerminateFinish, flowVars, Types
    <3>3. QED BY <3>1, <3>2
  <2>4. term' \in Terms
    BY <2>2, TermGoes
  <2>5. QED BY <1>1, <2>1, <2>3, <2>4 DEF Types
<1>5. QED BY <1>2, <1>3, <1>4

(* ReceiveAsync itself, Pause and Resume touch none of this.               *)
Aside ==
    \/ AsyncSwap \/ AsyncSignal \/ UNCHANGED vars
    \/ \E g \in {"Pause", "Resume"} : PauseOrResume(g)

(* What they leave as it is.                                               *)
LEMMA AsideKeeps ==
    ASSUME Aside
    PROVE  UNCHANGED <<state, flow, flowStopped, raced, buffer, closed, bufferClosed, cb, loop, rcv,
                       term, next, fate, acked>>
BY DEF Aside, AsyncSwap, AsyncSignal, PauseOrResume, PauseStep, vars, flowVars, chans, flags, obs

(* Types is kept by every step.                                            *)
LEMMA TypesInductive ==
    ASSUME Types, [Next]_vars
    PROVE  Types'
<1>1. CASE Aside
  BY <1>1, AsideKeeps DEF Types
<1>2. CASE StartFlow \/ StartOk \/ StartFail
  BY <1>2, StartTypes
<1>3. CASE CallbackEnter \/ CallbackStep
  BY <1>3, CallbackTypes
<1>4. CASE \E r \in Receivers : ReceiveEnter(r) \/ ReceiveStep(r)
  BY <1>4, ReceiveTypes
<1>5. CASE Loop
  BY <1>5, LoopTypes
<1>6. CASE Terminate \/ \E kind \in {"timed", "down"} : TerminateSwap(kind)
  BY <1>6, TerminateTypes
<1>7. QED BY <1>1, <1>2, <1>3, <1>4, <1>5, <1>6 DEF Next, Aside

(* And holds at first.                                                     *)
LEMMA TypesInit == Init => Types
<1>1. SUFFICES ASSUME Init PROVE Types
  OBVIOUS
<1>2. state \in States /\ flow \in Flows /\ flowStopped \in {0, 1, 2} /\ raced \in BOOLEAN
  BY <1>1 DEF Init, States, Flows
<1>3. /\ buffer \in Seq(Messages) /\ next \in Nat \ {0} /\ fate \in [Messages -> Fates]
      /\ acked \subseteq Messages
  BY <1>1 DEF Init, Fates
<1>4. cb \in Cbs /\ loop \in Loops /\ term \in Terms /\ cb.pc = "idle" /\ loop.pc = "off"
  BY <1>1 DEF Init, Cbs, CbPCs, Loops, LoopPCs, Terms, TermPCs
<1>5. rcv \in [Receivers -> Rcvs] /\ \A r \in Receivers : rcv[r].pc = "idle" /\ rcv[r].msg = NoMsg
  BY <1>1 DEF Init, Rcvs, RcvPCs
<1>6. QED BY <1>2, <1>3, <1>4, <1>5 DEF Types, Holding

-----------------------------------------------------------------------------
(* Flow control.  Nobody consumes before the receiver has started, and the *)
(* flag is 2 only once it terminates.                                      *)
Order ==
    /\ ~IsEnding => term.pc = "none"
    /\ state \in {"NotStarted", "Starting"} =>
           loop.pc = "off" /\ \A r \in Receivers : rcv[r].pc = "idle"
    /\ state = "NotStarted" =>
           /\ cb.pc = "idle" /\ ~flow.running /\ flow.credit = 0
           /\ flowStopped = 0 /\ buffer = << >>
    /\ flowStopped = 2 => IsEnding

(* A consumer that has swapped the flag is about to start the flow ...     *)
ConsumerStarts == loop.pc = "start" \/ \E r \in Receivers : rcv[r].pc = "start"

(* ... and one that has taken a message is about to look at the length.    *)
Consuming ==
    \/ loop.pc \in {"handle", "low", "cas"}
    \/ \E r \in Receivers : rcv[r].pc \in {"low", "cas"}

(* What a step of a consumer, sync or async, does to the flow: nothing;    *)
(* take a message; compare the length; swap the flag; start the flow.      *)
FlowKept == UNCHANGED <<flow, flowStopped, raced>>

ConsumerRests ==
    FlowKept /\ UNCHANGED buffer /\ (ConsumerStarts => ConsumerStarts') /\ (Consuming => Consuming')
ConsumerTakes ==
    /\ FlowKept /\ buffer # << >> /\ buffer' = Tail(buffer)
    /\ (ConsumerStarts => ConsumerStarts') /\ Consuming'
ConsumerLooks ==
    /\ FlowKept /\ UNCHANGED buffer /\ (ConsumerStarts => ConsumerStarts')
    /\ Consuming' \/ ~BelowLow
ConsumerSwaps ==
    /\ StartFlowSwap /\ UNCHANGED buffer /\ (ConsumerStarts => ConsumerStarts')
    /\ StartFlowSwaps => ConsumerStarts'
ConsumerCalls == StartFlowCall /\ UNCHANGED buffer

ConsumerStep ==
    /\ ~(state \in {"NotStarted", "Starting"}) /\ UNCHANGED <<state, cb, term, next>>
    /\ ConsumerRests \/ ConsumerTakes \/ ConsumerLooks \/ ConsumerSwaps \/ ConsumerCalls

(* A receiver that goes elsewhere leaves the others where they are.        *)
LEMMA GoesPhases ==
    ASSUME Types, NEW r \in Receivers, NEW l, NEW m, Goes(r, l, m), UNCHANGED loop
    PROVE  /\ rcv[r].pc # "start" => (ConsumerStarts => ConsumerStarts')
           /\ rcv[r].pc \notin {"low", "cas"} => (Consuming => Consuming')
           /\ l = "start" => ConsumerStarts'
           /\ l \in {"low", "cas"} => Consuming'
<1>1. rcv'[r].pc = l /\ \A q \in Receivers \ {r} : rcv'[q].pc = rcv[q].pc
  BY DEF Goes
<1>2. rcv[r].pc # "start" => (ConsumerStarts => ConsumerStarts')
  BY <1>1 DEF ConsumerStarts
<1>3. rcv[r].pc \notin {"low", "cas"} => (Consuming => Consuming')
  BY <1>1 DEF Consuming
<1>4. l = "start" => ConsumerStarts'
  BY <1>1 DEF ConsumerStarts
<1>5. l \in {"low", "cas"} => Consuming'
  BY <1>1 DEF Consuming
<1>6. QED BY <1>2, <1>3, <1>4, <1>5

(* ReceiveMessage is such a consumer ...                                   *)
LEMMA ReceiveConsumes ==
    ASSUME Types, Order, NEW r \in Receivers, ReceiveEnter(r) \/ ReceiveStep(r)
    PROVE  ConsumerStep
<1>1. UNCHANGED <<state, cb, loop, term, next>>
  BY DEF ReceiveEnter, ReceiveStep, ReceiveTake, ReceiveNothing, ReceiveLow, ReceiveSwap,
         ReceiveStart, ReceiveAck, ReceiveDeferred, ReceiveReturn
<1>2. state \notin {"NotStarted", "Starting"}
  <2>1. rcv[r].pc # "idle" \/ state \notin {"NotStarted", "Starting"}
    BY DEF ReceiveEnter, ReceiveStep, ReceiveTake, ReceiveNothing, ReceiveLow, ReceiveSwap,
           ReceiveStart, ReceiveAck, ReceiveDeferred, ReceiveReturn
  <2>2. QED BY <2>1 DEF Order
<1>3. CASE ReceiveEnter(r) \/ ReceiveNothing(r) \/ ReceiveAck(r) \/ ReceiveDeferred(r)
           \/ ReceiveReturn(r)
  <2>1. FlowKept /\ UNCHANGED buffer
    BY <1>3 DEF ReceiveEnter, ReceiveNothing, ReceiveAck, ReceiveDeferred, ReceiveReturn, FlowKept,
                flowVars
  <2>2. rcv[r].pc \notin {"start", "low", "cas"}
    BY <1>3, ReceiveGoes
  <2>3. \E l \in RcvPCs : \E m \in {rcv[r].msg, NoMsg} : Goes(r, l, m)
    BY <1>3, ReceiveGoes DEF RcvPCs
  <2>4. ConsumerRests
    BY <1>1, <2>1, <2>2, <2>3, GoesPhases DEF ConsumerRests
  <2>5. QED BY <1>1, <1>2, <2>4 DEF ConsumerStep
<1>4. CASE ReceiveTake(r)
  <2>1. FlowKept /\ buffer # << >> /\ buffer' = Tail(buffer)
    BY <1>4 DEF ReceiveTake, FlowKept, flowVars
  <2>2. Goes(r, "low", Head(buffer)) /\ rcv[r].pc = "select"
    BY <1>4, ReceiveGoes
  <2>3. ConsumerTakes
    BY <1>1, <2>1, <2>2, GoesPhases DEF ConsumerTakes
  <2>4. QED BY <1>1, <1>2, <2>3 DEF ConsumerStep
<1>5. CASE ReceiveLow(r)
  <2>1. FlowKept /\ UNCHANGED buffer
    BY <1>5 DEF ReceiveLow, FlowKept, flowVars
  <2>2. rcv[r].pc = "low" /\ Goes(r, IF BelowLow THEN "cas" ELSE "ack", rcv[r].msg)
    BY <1>5, ReceiveGoes
  <2>3. (ConsumerStarts => ConsumerStarts') /\ (Consuming' \/ ~BelowLow)
    BY <1>1, <2>2, GoesPhases
  <2>4. QED BY <1>1, <1>2, <2>1, <2>3 DEF ConsumerStep, ConsumerLooks
<1>6. CASE ReceiveSwap(r)
  <2>1. StartFlowSwap /\ UNCHANGED buffer
    BY <1>6 DEF ReceiveSwap
  <2>2. rcv[r].pc = "cas" /\ Goes(r, IF StartFlowSwaps THEN "start" ELSE "ack", rcv[r].msg)
    BY <1>6, ReceiveGoes
  <2>3. (ConsumerStarts => ConsumerStarts') /\ (StartFlowSwaps => ConsumerStarts')
    BY <1>1, <2>2, GoesPhases
  <2>4. QED BY <1>1, <1>2, <2>1, <2>3 DEF ConsumerStep, ConsumerSwaps
<1>7. CASE ReceiveStart(r)
  BY <1>1, <1>2, <1>7 DEF ReceiveStart, ConsumerStep, ConsumerCalls
<1>8. QED BY <1>3, <1>4, <1>5, <1>6, <1>7 DEF ReceiveStep

(* ... and so is the goroutine of ReceiveAsync.                            *)
LEMMA LoopConsumes ==
    ASSUME Types, Order, Loop
    PROVE  ConsumerStep
<1>1. UNCHANGED <<state, cb, rcv, term, next>>
  BY DEF Loop, LoopWait, LoopPause, LoopPauseEmpty, LoopPaused, LoopTop, LoopTake, LoopInterrupted,
         LoopDrained, LoopNotified, LoopHandled, LoopLow, LoopSwap, LoopStart, LoopClose
<1>2. state \notin {"NotStarted", "Starting"}
  BY LoopGoes DEF Loop, Order
<1>3. /\ loop.pc # "start" => (ConsumerStarts => ConsumerStarts')
      /\ loop'.pc = "start" => ConsumerStarts'
      /\ loop'.pc \in {"handle", "low", "cas"} => Consuming'
      /\ loop.pc \notin {"handle", "low", "cas"} => (Consuming => Consuming')
  BY <1>1 DEF ConsumerStarts, Consuming
<1>4. CASE LoopHandled
  <2>1. FlowKept /\ UNCHANGED buffer
    BY <1>4 DEF LoopHandled, FlowKept, flowVars
  <2>2. QED BY <1>1, <1>2, <1>3, <1>4, <2>1, LoopGoes DEF ConsumerStep, ConsumerRests, LoopIn
<1>5. CASE LoopWait \/ LoopPause \/ LoopPauseEmpty \/ LoopPaused \/ LoopTop \/ LoopDrained
                 \/ LoopNotified \/ LoopInterrupted \/ LoopClose
  <2>1. FlowKept /\ UNCHANGED buffer
    BY <1>5 DEF LoopWait, LoopPause, LoopPauseEmpty, LoopPaused, LoopTop, LoopDrained,
                LoopNotified, LoopInterrupted, LoopClose, FlowKept, flowVars
  <2>2. QED BY <1>1, <1>2, <1>3, <1>5, <2>1, LoopGoes DEF ConsumerStep, ConsumerRests
<1>6. CASE LoopTake
  <2>1. FlowKept /\ buffer # << >> /\ buffer' = Tail(buffer)
    BY <1>6 DEF LoopTake, FlowKept, flowVars
  <2>2. loop.pc = "select" /\ loop'.pc = "handle"
    BY <1>6, LoopGoes
  <2>3. QED BY <1>1, <1>2, <1>3, <2>1, <2>2 DEF ConsumerStep, ConsumerTakes
<1>7. CASE LoopLow
  <2>1. FlowKept /\ UNCHANGED buffer
    BY <1>7 DEF LoopLow, FlowKept, flowVars
  <2>2. loop.pc = "low" /\ (BelowLow => loop'.pc = "cas")
    BY <1>7, LoopGoes DEF LoopIn
  <2>3. QED BY <1>1, <1>2, <1>3, <2>1, <2>2 DEF ConsumerStep, ConsumerLooks
<1>8. CASE LoopSwap
  <2>1. StartFlowSwap /\ UNCHANGED buffer
    BY <1>8 DEF LoopSwap
  <2>2. loop.pc = "cas" /\ (StartFlowSwaps => loop'.pc = "start")
    BY <1>8, LoopGoes DEF LoopIn
  <2>3. QED BY <1>1, <1>2, <1>3, <2>1, <2>2 DEF ConsumerStep, ConsumerSwaps
<1>9. CASE LoopStart
  BY <1>1, <1>2, <1>9 DEF LoopStart, ConsumerStep, ConsumerCalls
<1>10. QED BY <1>4, <1>5, <1>6, <1>7, <1>8, <1>9 DEF Loop

(* What a step of the termination does to the flow: set the flag to 2,     *)
(* stop or destroy the flow, or at most take a message.                    *)
TerminationStep ==
    /\ IsEnding /\ IsEnding' /\ UNCHANGED <<raced, cb, loop, rcv, next>>
    /\ \/ flowStopped' = 2 /\ UNCHANGED <<flow, buffer>>
       \/ (FlowStop \/ FlowRefuses("stop") \/ FlowDestroy) /\ UNCHANGED <<flowStopped, buffer>>
       \/ /\ UNCHANGED <<flow, flowStopped>>
          /\ UNCHANGED buffer \/ (buffer # << >> /\ buffer' = Tail(buffer))

(* Every step of Terminate and of unsolicitedTermination is one.           *)
LEMMA TerminateEffects ==
    ASSUME Types, Order, Terminate
    PROVE  TerminationStep
<1>1. UNCHANGED <<raced, cb, loop, rcv, next>>
  BY DEF Terminate, TerminateStopped, TerminateStop, TerminateDestroy,
         TerminateUnblock, TerminateClose, TerminateMark, TerminateEmpty, TerminateWait,
         TerminateNotify, TerminateJoin, DrainQueueOne, DrainQueueDone, TerminateFinish, flowVars
<1>2. term.pc # "none"
  BY DEF Terminate, TerminateStopped, TerminateStop, TerminateDestroy,
         TerminateUnblock, TerminateClose, TerminateMark, TerminateEmpty, TerminateWait,
         TerminateNotify, TerminateJoin, DrainQueueOne, DrainQueueDone, TerminateFinish, TermGoto
<1>3. IsEnding
  BY <1>2 DEF Order
<1>4. IsEnding'
  <2>1. state' = state \/ state' = "Terminated"
    BY DEF Terminate, TerminateStopped, TerminateStop, TerminateDestroy,
         TerminateUnblock, TerminateClose, TerminateMark, TerminateEmpty, TerminateWait,
         TerminateNotify, TerminateJoin, DrainQueueOne, DrainQueueDone, TerminateFinish
  <2>2. QED BY <1>3, <2>1 DEF IsEnding
<1>5. CASE TerminateStopped
  BY <1>1, <1>3, <1>4, <1>5 DEF TerminateStopped, TerminationStep
<1>6. CASE TerminateStop \/ TerminateDestroy
  BY <1>1, <1>3, <1>4, <1>6 DEF TerminateStop, TerminateDestroy, TerminationStep
<1>7. CASE DrainQueueOne
  BY <1>1, <1>3, <1>4, <1>7 DEF DrainQueueOne, TerminationStep, flowVars
<1>8. CASE TerminateUnblock \/ TerminateClose \/ TerminateMark \/ TerminateEmpty \/ TerminateWait
           \/ TerminateNotify \/ TerminateJoin \/ DrainQueueDone \/ TerminateFinish
  <2>1. UNCHANGED <<flow, flowStopped, buffer>>
    BY <1>8 DEF TerminateUnblock, TerminateClose, TerminateMark, TerminateEmpty, TerminateWait,
                TerminateNotify, TerminateJoin, DrainQueueDone, TerminateFinish, flowVars
  <2>2. QED BY <1>1, <1>3, <1>4, <2>1 DEF TerminationStep
<1>9. QED BY <1>5, <1>6, <1>7, <1>8 DEF Terminate

(* Order is kept by every step.                                            *)
LEMMA OrderInductive ==
    ASSUME Types, Order, [Next]_vars
    PROVE  Order'
<1>1. CASE Aside
  BY <1>1, AsideKeeps DEF Order, IsEnding
<1>2. CASE StartFlow \/ StartOk \/ StartFail
  <2>1. UNCHANGED <<term, rcv, flowStopped, cb>> /\ state' # "NotStarted" /\ ~IsEnding
    BY <1>2 DEF StartFlow, StartOk, StartFail, flowVars, IsEnding
  <2>2. state' \in {"NotStarted", "Starting"} => UNCHANGED loop /\ state = "NotStarted"
    BY <1>2 DEF StartFlow, StartOk, StartFail
  <2>3. QED BY <2>1, <2>2 DEF Order
<1>3. CASE CallbackEnter \/ CallbackStep
  <2>1. UNCHANGED <<state, term, loop, rcv>>
    BY <1>3 DEF CallbackEnter, CallbackStep, CallbackPush, CallbackHigh, CallbackStop,
                CallbackStore, CallbackRecheck, CallbackSwap, CallbackStart
  <2>2. state # "NotStarted"
    BY <1>3 DEF Order, CallbackEnter, FlowDelivers, CallbackStep, CallbackPush, CallbackHigh,
                CallbackStop, CallbackStore, CallbackRecheck, CallbackSwap, CallbackStart
  <2>3. flowStopped' \in {0, 1, flowStopped}
    BY <1>3 DEF CallbackEnter, CallbackStep, CallbackPush, CallbackHigh, CallbackStop,
                CallbackStore, CallbackRecheck, CallbackSwap, CallbackStart, StartFlowSwap,
                StartFlowCall, flowVars
  <2>4. QED BY <2>1, <2>2, <2>3 DEF Order, IsEnding
<1>4. CASE Loop \/ \E r \in Receivers : ReceiveEnter(r) \/ ReceiveStep(r)
  <2>1. ConsumerStep
    BY <1>4, LoopConsumes, ReceiveConsumes
  <2>2. /\ state \notin {"NotStarted", "Starting"} /\ UNCHANGED <<state, term>>
        /\ flowStopped' \in {0, 1, flowStopped}
    BY <2>1 DEF ConsumerStep, ConsumerRests, ConsumerTakes, ConsumerLooks, ConsumerSwaps,
                ConsumerCalls, FlowKept, StartFlowSwap, StartFlowCall
  <2>3. QED BY <2>2 DEF Order, IsEnding
<1>5. CASE Terminate
  <2>1. IsEnding'
    BY <1>5, TerminateEffects DEF TerminationStep
  <2>2. QED BY <2>1 DEF Order, IsEnding
<1>6. CASE \E kind \in {"timed", "down"} : TerminateSwap(kind)
  <2>1. IsEnding'
    BY <1>6 DEF TerminateSwap, IsEnding
  <2>2. QED BY <2>1 DEF Order, IsEnding
<1>7. QED BY <1>1, <1>2, <1>3, <1>4, <1>5, <1>6 DEF Next, Aside

(* While the flow of a receiver that is not terminating stands still,      *)
(* somebody is about to set the flag, or to start the flow, or the flag is *)
(* set and either the buffer is not below the low water mark or somebody   *)
(* is about to look at it, or CCSMP has refused a start.  Before the first *)
(* consumer nothing leaves the buffer, so that the callback that stopped   *)
(* the flow finds it full.                                                 *)
StarveInv ==
    /\ (~IsEnding /\ state # "NotStarted" /\ ~flow.running) =>
           \/ cb.pc \in {"store", "start"} \/ ConsumerStarts
           \/ /\ flowStopped = 1
              /\ \/ Len(buffer) >= Low \/ cb.pc \in {"recheck", "cas"} \/ Consuming
                 \/ "start" \in flow.error
    /\ state = "Starting" =>
           /\ cb.pc \in {"stop", "store", "recheck"} => Len(buffer) >= High
           /\ cb.pc \notin {"cas", "start"}

(* Somebody stays about to act while a callback goes on.                   *)
LEMMA CallbackStarve ==
    ASSUME Types, Order, StarveInv, CallbackEnter \/ CallbackStep
    PROVE  StarveInv'
<1> USE PersistentReceiverAssumption
<1>1. UNCHANGED <<state, loop, rcv>> /\ (ConsumerStarts' <=> ConsumerStarts) /\ (Consuming' <=> Consuming)
      /\ (IsEnding' <=> IsEnding)
  BY DEF CallbackEnter, CallbackStep, CallbackPush, CallbackHigh, CallbackStop, CallbackStore,
         CallbackRecheck, CallbackSwap, CallbackStart, ConsumerStarts, Consuming, IsEnding
<1>2. cb \in Cbs /\ Len(buffer) \in Nat /\ buffer \in Seq(Messages) /\ state \in States
  BY DEF Types
<1>3. \A l : Cb(l) => cb'.pc = l
  BY <1>2 DEF Cb, Cbs
<1>4. CASE CallbackEnter
  <2>1. /\ UNCHANGED <<flowStopped, buffer>> /\ cb.pc = "idle" /\ cb'.pc \in {"idle", "push"}
        /\ flow'.running = flow.running /\ flow'.error = flow.error
    BY <1>4, FlowTypes DEF CallbackEnter
  <2>2. QED BY <1>1, <2>1 DEF StarveInv
<1>5. CASE CallbackPush
  <2>1. /\ UNCHANGED <<flow, flowStopped>> /\ cb.pc = "push" /\ cb'.pc \in {"idle", "high"}
    BY <1>5 DEF CallbackPush, flowVars
  <2>2. Len(buffer') >= Len(buffer) /\ Len(buffer') \in Nat
    <3>1. UNCHANGED buffer \/ buffer' = Append(buffer, cb.msg)
      BY <1>5 DEF CallbackPush
    <3>2. cb.msg \in Messages
      BY <2>1 DEF Types
    <3>3. Len(Append(buffer, cb.msg)) = Len(buffer) + 1
      BY <1>2, <3>2
    <3>4. QED BY <1>2, <3>1, <3>3
  <2>3. QED BY <1>1, <1>2, <2>1, <2>2 DEF StarveInv
<1>6. CASE CallbackHigh
  <2>1. /\ UNCHANGED <<flow, flowStopped, buffer>> /\ cb.pc = "high"
        /\ cb'.pc = IF AboveHigh THEN "stop" ELSE "idle"
    BY <1>3, <1>6 DEF CallbackHigh, flowVars
  <2>2. QED BY <1>1, <1>2, <2>1 DEF StarveInv, AboveHigh
<1>7. CASE CallbackStop
  <2>1. /\ UNCHANGED <<flowStopped, buffer>> /\ cb.pc = "stop"
        /\ \/ cb'.pc = "store"
           \/ cb'.pc = "idle" /\ flow'.running = flow.running /\ flow.error \subseteq flow'.error
    BY <1>3, <1>7, FlowTypes DEF CallbackStop
  <2>2. QED BY <1>1, <1>2, <2>1 DEF StarveInv
<1>8. CASE CallbackStore
  <2>1. UNCHANGED <<flow, buffer>> /\ cb.pc = "store" /\ cb'.pc = "recheck" /\ flowStopped' = 1
    BY <1>3, <1>8 DEF CallbackStore, AfterStore
  <2>2. QED BY <1>1, <1>2, <2>1 DEF StarveInv
<1>9. CASE CallbackRecheck
  <2>1. /\ UNCHANGED <<flow, flowStopped, buffer>> /\ cb.pc = "recheck"
        /\ cb'.pc = IF Len(buffer) < Low /\ state = "Started" THEN "cas" ELSE "idle"
    BY <1>3, <1>9 DEF CallbackRecheck, flowVars
  <2>2. ~IsEnding /\ state # "NotStarted" => cb'.pc = "cas" \/ Len(buffer) >= Low
    BY <1>2, <2>1 DEF StarveInv, IsEnding, States
  <2>3. state = "Starting" => cb'.pc = "idle"
    BY <2>1
  <2>4. QED BY <1>1, <1>2, <2>1, <2>2, <2>3 DEF StarveInv
<1>10. CASE CallbackSwap
  <2>1. /\ UNCHANGED <<flow, buffer>> /\ cb.pc = "cas"
        /\ cb'.pc = IF flowStopped = 1 THEN "start" ELSE "idle"
    BY <1>3, <1>10 DEF CallbackSwap, StartFlowSwap, StartFlowSwaps
  <2>2. QED BY <1>1, <1>2, <2>1 DEF StarveInv
<1>11. CASE CallbackStart
  <2>1. /\ UNCHANGED buffer /\ cb.pc = "start" /\ cb'.pc = "idle"
        /\ flow'.running \/ ("start" \in flow'.error /\ flowStopped' = 1)
    BY <1>3, <1>11, FlowTypes DEF CallbackStart, StartFlowCall
  <2>2. QED BY <1>1, <1>2, <2>1 DEF StarveInv
<1>12. QED BY <1>4, <1>5, <1>6, <1>7, <1>8, <1>9, <1>10, <1>11 DEF CallbackStep

(* And while consumers do.                                                 *)
LEMMA ConsumerStarve ==
    ASSUME Types, Order, StarveInv, ConsumerStep
    PROVE  StarveInv'
<1> USE PersistentReceiverAssumption
<1>1. /\ UNCHANGED <<state, cb>> /\ state # "Starting" /\ state # "NotStarted"
      /\ (IsEnding' <=> IsEnding)
  BY DEF ConsumerStep, IsEnding
<1>2. Len(buffer) \in Nat /\ state \in States
  BY DEF Types
<1>3. CASE ConsumerRests
  BY <1>1, <1>3 DEF ConsumerRests, FlowKept, StarveInv
<1>4. CASE ConsumerTakes
  BY <1>1, <1>4 DEF ConsumerTakes, FlowKept, StarveInv
<1>5. CASE ConsumerLooks
  <2>1. ~IsEnding => Consuming' \/ Len(buffer) >= Low
    BY <1>1, <1>2, <1>5 DEF ConsumerLooks, BelowLow, IsEnding, States
  <2>2. QED BY <1>1, <1>2, <1>5, <2>1 DEF ConsumerLooks, FlowKept, StarveInv
<1>6. CASE ConsumerSwaps
  BY <1>1, <1>6 DEF ConsumerSwaps, StartFlowSwap, StartFlowSwaps, StarveInv
<1>7. CASE ConsumerCalls
  <2>1. flow'.running \/ ("start" \in flow'.error /\ flowStopped' = 1)
    BY <1>7, FlowTypes DEF ConsumerCalls, StartFlowCall
  <2>2. QED BY <1>1, <2>1 DEF StarveInv
<1>8. QED BY <1>3, <1>4, <1>5, <1>6, <1>7 DEF ConsumerStep

(* StarveInv is kept by every step.                                        *)
LEMMA StarveInductive ==
    ASSUME Types, Order, StarveInv, [Next]_vars
    PROVE  StarveInv'
<1>1. CASE Aside
  <2>1. (ConsumerStarts' <=> ConsumerStarts) /\ (Consuming' <=> Consuming)
    BY <1>1, AsideKeeps DEF ConsumerStarts, Consuming
  <2>2. QED BY <1>1, <2>1, AsideKeeps DEF StarveInv, IsEnding
<1>2. CASE StartFlow
  <2>1. flow'.running /\ UNCHANGED cb /\ cb.pc = "idle"
    BY <1>2, FlowTypes DEF StartFlow, Order
  <2>2. QED BY <2>1 DEF StarveInv
<1>3. CASE StartOk
  <2>1. UNCHANGED <<flow, flowStopped, buffer, cb, rcv>> /\ state = "Starting" /\ state' = "Started"
        /\ loop.pc = "off"
    BY <1>3 DEF StartOk, flowVars, Order
  <2>2. (ConsumerStarts => ConsumerStarts') /\ (Consuming => Consuming')
    BY <2>1 DEF ConsumerStarts, Consuming
  <2>3. QED BY <2>1, <2>2 DEF StarveInv, IsEnding
<1>4. CASE StartFail \/ Terminate \/ \E kind \in {"timed", "down"} : TerminateSwap(kind)
  <2>1. IsEnding'
    BY <1>4, TerminateEffects DEF StartFail, TerminateSwap, TerminationStep, IsEnding
  <2>2. QED BY <2>1 DEF StarveInv, IsEnding
<1>5. CASE CallbackEnter \/ CallbackStep
  BY <1>5, CallbackStarve
<1>6. CASE Loop \/ \E r \in Receivers : ReceiveEnter(r) \/ ReceiveStep(r)
  BY <1>6, LoopConsumes, ReceiveConsumes, ConsumerStarve
<1>7. QED BY <1>1, <1>2, <1>3, <1>4, <1>5, <1>6 DEF Next, Aside

(* startFlow and stopFlow overlap freely, yet the flow of a started        *)
(* receiver is not left stopped below the low water mark, because stopFlow *)
(* looks at the buffer again after it has set the flag; unless CCSMP has   *)
(* refused a start, which leaves the flag set for whoever takes the next   *)
(* message.                                                                *)
THEOREM FlowNeverStarves == Spec => []FlowIsNotStarved
<1> DEFINE Inv == Types /\ Order /\ StarveInv
<1>1. Init => Inv
  <2>1. Init => Order /\ StarveInv
    BY DEF Init, Order, StarveInv, IsEnding
  <2>2. QED BY <2>1, TypesInit
<1>2. Inv /\ [Next]_vars => Inv'
  BY TypesInductive, OrderInductive, StarveInductive
<1>3. Inv => FlowIsNotStarved
  <2>1. SUFFICES ASSUME Inv, state = "Started", cb.pc = "idle", ConsumersQuiet, Len(buffer) < Low
                 PROVE  flow.running \/ ("start" \in flow.error /\ flowStopped = 1)
    BY DEF FlowIsNotStarved
  <2>2. ~ConsumerStarts /\ ~Consuming
    BY <2>1 DEF ConsumersQuiet, ConsumerStarts, Consuming
  <2>3. ~(Len(buffer) >= Low)
    BY <2>1, PersistentReceiverAssumption DEF Types
  <2>4. QED BY <2>1, <2>2, <2>3 DEF StarveInv, IsEnding
<1>4. QED BY <1>1, <1>2, <1>3, PTL DEF Spec

-----------------------------------------------------------------------------
(* The margin.  A message the callback has not pushed yet needs a place,   *)
(* and so does each that is in transit once the flow is stopped.           *)
Pending == IF cb.pc = "push" THEN 1 ELSE 0

(* As long as nothing has raced and CCSMP has refused nothing: a flow that *)
(* runs is one whose flag is not set and whose buffer is at most at the    *)
(* high water mark, and below it unless the callback is about to stop the  *)
(* flow or termination is; and whatever is pending or in transit fits.     *)
MarginInv ==
    (~raced /\ flow.error = {}) =>
       /\ Len(buffer) + Pending <= Capacity
       /\ (~flow.running /\ ~flow.destroyed) => Len(buffer) + Pending + flow.credit <= Capacity
       /\ flow.running =>
             /\ flowStopped # 1 /\ cb.pc # "store" /\ Len(buffer) <= High
             /\ (cb.pc \notin {"high", "stop"} /\ flowStopped # 2) => Len(buffer) < High
             /\ cb.pc = "push" => Len(buffer) < High
       /\ \A m \in Messages : fate[m] # "lost"

(* Taking messages from the buffer only helps.                             *)
LEMMA TakeMargin ==
    ASSUME Types, MarginInv, buffer # << >>, buffer' = Tail(buffer),
           UNCHANGED <<flow, flowStopped, raced, cb>>,
           \A m \in Messages : fate'[m] = "lost" => fate[m] = "lost"
    PROVE  MarginInv'
<1> USE PersistentReceiverAssumption
<1>1. Len(buffer) \in Nat /\ Len(buffer') \in Nat /\ Len(buffer') = Len(buffer) - 1
      /\ flow.credit \in Nat /\ Capacity \in Nat
  BY BufferHead DEF Types, Flows, Capacity
<1>2. Pending' = Pending /\ Pending \in {0, 1}
  BY DEF Pending
<1>3. QED BY <1>1, <1>2 DEF MarginInv, Capacity

(* Starting the flow on a length that is not stale leaves High - Low.      *)
LEMMA StartMargin ==
    ASSUME Types, MarginInv, StartFlowCall, UNCHANGED buffer,
           \A m \in Messages : fate'[m] = "lost" => fate[m] = "lost",
           UNCHANGED cb \/ cb'.pc = "idle"
    PROVE  MarginInv'
<1> USE PersistentReceiverAssumption
<1>1. Len(buffer) \in Nat /\ flow.credit \in Nat /\ Capacity \in Nat /\ raced \in BOOLEAN
  BY DEF Types, Flows, Capacity
<1>2. Pending' <= Pending /\ Pending' \in {0, 1} /\ Pending \in {0, 1}
  BY DEF Pending
<1>3. CASE FlowRefuses("start")
  BY <1>3, FlowTypes DEF MarginInv
<1>4. CASE FlowStart /\ UNCHANGED flowStopped
            /\ raced' = (raced \/ cb.pc = "store" \/ flowStopped = 1 \/ Len(buffer) > Low)
  <2>1. SUFFICES ASSUME ~raced', flow'.error = {} PROVE MarginInv'
    BY DEF MarginInv
  <2>2. ~raced /\ cb.pc # "store" /\ flowStopped # 1 /\ Len(buffer) <= Low
    <3>1. ~(raced \/ cb.pc = "store" \/ flowStopped = 1 \/ Len(buffer) > Low)
      BY <1>4, <2>1, Zenon
    <3>2. QED BY <1>1, <3>1
  <2>3. flow'.running /\ flow.error = {}
    BY <1>4, <2>1, FlowTypes
  <2>4. Len(buffer) < High /\ Len(buffer) <= High
    BY <1>1, <2>2
  <2>5. Len(buffer) + Pending <= Capacity
    BY <2>2, <2>3 DEF MarginInv
  <2>6. Len(buffer)' + Pending' <= Capacity
    BY <1>1, <1>2, <2>5 DEF Capacity
  <2>7. \A m \in Messages : fate'[m] # "lost"
    BY <2>2, <2>3 DEF MarginInv
  <2>8. cb'.pc # "store"
    BY <2>2
  <2>9. QED BY <1>4, <2>2, <2>3, <2>4, <2>6, <2>7, <2>8 DEF MarginInv, Capacity
<1>5. QED BY <1>3, <1>4 DEF StartFlowCall

(* Stopping a running flow leaves at most Window messages in transit.      *)
LEMMA StopMargin ==
    ASSUME Types, MarginInv, FlowStop, UNCHANGED <<raced, flowStopped, buffer>>,
           \A m \in Messages : fate'[m] = "lost" => fate[m] = "lost",
           UNCHANGED cb \/ (cb.pc = "stop" /\ cb'.pc = "store")
    PROVE  MarginInv'
<1> USE PersistentReceiverAssumption
<1>1. Len(buffer) \in Nat /\ flow.credit \in Nat /\ Capacity \in Nat
  BY DEF Types, Flows, Capacity
<1>2. Pending' = Pending /\ Pending \in {0, 1} /\ (Pending = 1 => cb.pc = "push")
  BY DEF Pending
<1>3. /\ ~flow'.running /\ flow'.error = flow.error /\ flow'.destroyed = flow.destroyed
      /\ flow'.credit = IF flow.running THEN Window ELSE flow.credit
  BY FlowTypes
<1>4. SUFFICES ASSUME ~raced, flow.error = {} PROVE MarginInv'
  BY <1>3 DEF MarginInv
<1>5. flow.running => Len(buffer) + Pending <= High
  BY <1>1, <1>2, <1>4 DEF MarginInv
<1>6. Len(buffer) + Pending + flow'.credit <= Capacity \/ flow.destroyed
  <2>1. CASE flow.running
    BY <1>1, <1>2, <1>3, <1>5, <2>1 DEF Capacity
  <2>2. CASE ~flow.running
    BY <1>3, <1>4, <2>2 DEF MarginInv
  <2>3. QED BY <2>1, <2>2
<1>7. QED BY <1>2, <1>3, <1>4, <1>6 DEF MarginInv, Capacity

(* A callback puts its message where there is room and stops the flow at   *)
(* the high water mark.                                                    *)
LEMMA CallbackMargin ==
    ASSUME Types, Order, MarginInv, CallbackEnter \/ CallbackStep
    PROVE  MarginInv'
<1> USE PersistentReceiverAssumption
<1>1. /\ cb \in Cbs /\ Len(buffer) \in Nat /\ buffer \in Seq(Messages) /\ fate \in [Messages -> Fates]
      /\ flow.credit \in Nat /\ Capacity \in Nat /\ Capacity >= High /\ flowStopped \in {0, 1, 2}
  BY DEF Types, Flows, Capacity
<1>2. \A l : Cb(l) => cb'.pc = l
  BY <1>1 DEF Cb, Cbs
<1>3. Pending = (IF cb.pc = "push" THEN 1 ELSE 0) /\ Pending' = (IF cb'.pc = "push" THEN 1 ELSE 0)
  BY DEF Pending
<1>4. CASE CallbackEnter
  <2>1. /\ UNCHANGED <<flowStopped, raced, buffer>> /\ cb.pc = "idle" /\ next \in Messages
        /\ flow'.running = flow.running /\ flow'.error = flow.error
        /\ ~flow.destroyed /\ ~flow'.destroyed
        /\ flow'.credit = (IF flow.running THEN flow.credit ELSE flow.credit - 1)
        /\ flow.running \/ flow.credit > 0
    BY <1>4, FlowTypes DEF CallbackEnter, FlowDelivers
  <2>2. cb'.pc = IF IsEnding THEN "idle" ELSE "push"
    BY <1>4, <2>1 DEF CallbackEnter
  <2>3. SUFFICES ASSUME ~raced, flow.error = {} PROVE MarginInv'
    BY <2>1 DEF MarginInv
  <2>4. \A m \in Messages : fate'[m] # "lost"
    BY <1>1, <1>4, <2>1, <2>3 DEF CallbackEnter, MarginInv
  <2>5. CASE IsEnding
    BY <1>1, <1>3, <2>1, <2>2, <2>3, <2>4, <2>5 DEF MarginInv, Capacity
  <2>6. CASE ~IsEnding
    <3>1. flowStopped # 2 /\ cb'.pc = "push"
      BY <2>2, <2>6 DEF Order
    <3>2. CASE flow.running
      <4>1. Len(buffer) < High /\ flowStopped # 1
        BY <2>1, <2>3, <3>1, <3>2 DEF MarginInv
      <4>2. QED BY <1>1, <1>3, <2>1, <2>3, <2>4, <3>1, <3>2, <4>1 DEF MarginInv, Capacity
    <3>3. CASE ~flow.running
      <4>1. Len(buffer) + 0 + flow.credit <= Capacity
        BY <1>3, <2>1, <2>3, <3>3 DEF MarginInv
      <4>2. Len(buffer) + 1 + flow'.credit <= Capacity /\ Len(buffer) + 1 <= Capacity
        BY <1>1, <2>1, <3>3, <4>1
      <4>3. QED BY <1>1, <1>3, <2>1, <2>3, <2>4, <3>1, <3>3, <4>2 DEF MarginInv, Capacity
    <3>4. QED BY <3>2, <3>3
  <2>7. QED BY <2>5, <2>6
<1>5. CASE CallbackPush
  <2>1. /\ UNCHANGED <<flow, flowStopped, raced>> /\ cb.pc = "push" /\ cb'.pc \in {"idle", "high"}
        /\ cb.msg \in Messages
    BY <1>5 DEF CallbackPush, flowVars, Types
  <2>2. SUFFICES ASSUME ~raced, flow.error = {} PROVE MarginInv'
    BY <2>1 DEF MarginInv
  <2>3. /\ Len(buffer) + 1 <= Capacity
        /\ (~flow.running /\ ~flow.destroyed) => Len(buffer) + 1 + flow.credit <= Capacity
        /\ flow.running => flowStopped # 1 /\ Len(buffer) < High
        /\ \A m \in Messages : fate[m] # "lost"
    BY <1>3, <2>1, <2>2 DEF MarginInv
  <2>4. HasRoom
    BY <1>1, <2>3 DEF HasRoom
  <2>5. \A m \in Messages : fate'[m] # "lost"
    BY <1>1, <1>5, <2>1, <2>3, <2>4 DEF CallbackPush
  <2>6. Len(Append(buffer, cb.msg)) = Len(buffer) + 1
    BY <1>1, <2>1
  <2>7. \/ Len(buffer') = Len(buffer) + 1 /\ cb'.pc = "high"
        \/ Len(buffer') = Len(buffer) /\ cb'.pc = "idle"
    BY <1>5, <2>4, <2>6 DEF CallbackPush
  <2>8. QED BY <1>1, <1>3, <2>1, <2>2, <2>3, <2>5, <2>7 DEF MarginInv, Capacity
<1>6. CASE CallbackHigh
  <2>1. /\ UNCHANGED <<flow, flowStopped, raced, buffer, fate>> /\ cb.pc = "high"
        /\ cb'.pc = IF Len(buffer) >= High /\ flowStopped = 0 THEN "stop" ELSE "idle"
    BY <1>2, <1>6 DEF CallbackHigh, flowVars, obs, AboveHigh
  <2>2. QED BY <1>1, <1>3, <2>1 DEF MarginInv, Capacity
<1>7. CASE CallbackStop
  <2>1. UNCHANGED <<raced, flowStopped, buffer, fate>> /\ cb.pc = "stop"
    BY <1>7 DEF CallbackStop, obs
  <2>2. (FlowStop /\ cb'.pc = "store") \/ flow'.error # {}
    BY <1>2, <1>7, FlowTypes DEF CallbackStop
  <2>3. QED BY <2>1, <2>2, StopMargin DEF MarginInv
<1>8. CASE CallbackStore
  <2>1. /\ UNCHANGED <<flow, raced, buffer, fate>> /\ cb.pc = "store" /\ cb'.pc = "recheck"
    BY <1>2, <1>8 DEF CallbackStore, AfterStore, obs
  <2>2. QED BY <1>3, <2>1 DEF MarginInv, Capacity
<1>9. CASE CallbackRecheck
  <2>1. /\ UNCHANGED <<flow, flowStopped, raced, buffer, fate>> /\ cb.pc = "recheck"
        /\ cb'.pc \in {"cas", "idle"}
    BY <1>2, <1>9 DEF CallbackRecheck, flowVars, obs
  <2>2. QED BY <1>3, <2>1 DEF MarginInv, Capacity
<1>10. CASE CallbackSwap
  <2>1. /\ UNCHANGED <<flow, raced, buffer, fate>> /\ cb.pc = "cas" /\ cb'.pc \in {"start", "idle"}
        /\ flowStopped' = IF flowStopped = 1 THEN 0 ELSE flowStopped
    BY <1>2, <1>10 DEF CallbackSwap, StartFlowSwap, StartFlowSwaps, obs
  <2>2. QED BY <1>1, <1>3, <2>1 DEF MarginInv, Capacity
<1>11. CASE CallbackStart
  <2>1. StartFlowCall /\ cb'.pc = "idle" /\ UNCHANGED <<buffer, fate>>
    BY <1>2, <1>11 DEF CallbackStart, obs
  <2>2. QED BY <2>1, StartMargin
<1>12. QED BY <1>4, <1>5, <1>6, <1>7, <1>8, <1>9, <1>10, <1>11 DEF CallbackStep

(* Only a full buffer loses a message, and only the callback meets one.    *)
LEMMA LostOnlyInPush ==
    ASSUME Types,
           \/ Loop \/ Terminate
           \/ \E r \in Receivers : ReceiveEnter(r) \/ ReceiveStep(r)
           \/ \E kind \in {"timed", "down"} : TerminateSwap(kind)
    PROVE  \A m \in Messages : fate'[m] = "lost" => fate[m] = "lost"
<1>1. fate \in [Messages -> Fates]
  BY DEF Types
<1> DEFINE NoneLost == \A m \in Messages : fate'[m] = "lost" => fate[m] = "lost"
<1>2. UNCHANGED fate => NoneLost
  OBVIOUS
<1>3. ASSUME NEW x, NEW f, f # "lost", fate' = [fate EXCEPT ![x] = f]
      PROVE  NoneLost
  BY <1>1, <1>3
<1> HIDE DEF NoneLost
<1>4. NoneLost
  <2>1. CASE Loop
    <3>1. CASE LoopTake
      BY <1>3, <3>1 DEF LoopTake
    <3>2. CASE LoopHandled
      <4>1. CASE loop.msg \in Panicking
        BY <1>3, <3>2, <4>1 DEF LoopHandled
      <4>2. CASE loop.msg \notin Panicking
        BY <1>3, <3>2, <4>2 DEF LoopHandled
      <4>3. QED BY <4>1, <4>2
    <3>3. CASE ~LoopTake /\ ~LoopHandled
      BY <1>2, <2>1, <3>3 DEF Loop, LoopWait, LoopPause, LoopPauseEmpty, LoopPaused, LoopTop,
         LoopInterrupted, LoopDrained, LoopNotified, LoopLow, LoopSwap, LoopStart, LoopClose, obs
    <3>4. QED BY <3>1, <3>2, <3>3
  <2>2. CASE Terminate
    <3>1. CASE DrainQueueOne
      BY <1>3, <3>1 DEF DrainQueueOne
    <3>2. CASE ~DrainQueueOne
      BY <1>2, <2>2, <3>2 DEF Terminate, TerminateStopped, TerminateStop, TerminateDestroy,
         TerminateUnblock, TerminateClose, TerminateMark, TerminateEmpty, TerminateWait,
         TerminateNotify, TerminateJoin, DrainQueueDone, TerminateFinish, obs
    <3>3. QED BY <3>1, <3>2
  <2>3. ASSUME NEW r \in Receivers, ReceiveEnter(r) \/ ReceiveStep(r)
        PROVE  NoneLost
    <3>1. CASE ReceiveTake(r)
      BY <1>3, <3>1 DEF ReceiveTake
    <3>2. CASE ReceiveAck(r)
      <4>1. CASE AutoAck /\ flow.destroyed
        BY <1>3, <3>2, <4>1 DEF ReceiveAck
      <4>2. CASE ~(AutoAck /\ flow.destroyed)
        BY <1>3, <3>2, <4>2 DEF ReceiveAck
      <4>3. QED BY <4>1, <4>2
    <3>3. CASE ReceiveReturn(r)
      <4>1. CASE rcv[r].msg = NoMsg
        BY <1>2, <3>3, <4>1 DEF ReceiveReturn
      <4>2. CASE rcv[r].msg # NoMsg
        BY <1>3, <3>3, <4>2 DEF ReceiveReturn
      <4>3. QED BY <4>1, <4>2
    <3>4. CASE ~ReceiveTake(r) /\ ~ReceiveAck(r) /\ ~ReceiveReturn(r)
      BY <1>2, <2>3, <3>4 DEF ReceiveEnter, ReceiveStep, ReceiveNothing, ReceiveLow, ReceiveSwap,
         ReceiveStart, ReceiveDeferred, obs
    <3>5. QED BY <3>1, <3>2, <3>3, <3>4
  <2>4. CASE \E kind \in {"timed", "down"} : TerminateSwap(kind)
    BY <1>2, <2>4 DEF TerminateSwap, obs
  <2>5. QED BY <2>1, <2>2, <2>3, <2>4
<1>5. QED BY <1>4 DEF NoneLost

(* MarginInv is kept by every step.                                        *)
LEMMA MarginInductive ==
    ASSUME Types, Order, MarginInv, [Next]_vars
    PROVE  MarginInv'
<1> USE PersistentReceiverAssumption
<1>1. /\ Len(buffer) \in Nat /\ flow.credit \in Nat /\ Capacity \in Nat /\ Capacity >= High
      /\ flowStopped \in {0, 1, 2}
  BY DEF Types, Flows, Capacity
<1>2. Pending \in {0, 1} /\ (UNCHANGED cb => Pending' = Pending)
  BY DEF Pending
<1>3. ASSUME UNCHANGED <<flow, flowStopped, raced, buffer, cb>>,
             \A m \in Messages : fate'[m] = "lost" => fate[m] = "lost"
      PROVE  MarginInv'
  BY <1>2, <1>3 DEF MarginInv, Capacity
<1>4. CASE Aside
  BY <1>3, <1>4, AsideKeeps
<1>5. CASE StartFlow
  <2>1. /\ UNCHANGED <<flowStopped, raced, buffer, cb, fate>>
        /\ cb.pc = "idle" /\ flowStopped = 0 /\ buffer = << >>
    BY <1>5 DEF StartFlow, Order, obs
  <2>2. flow'.running /\ flow'.error = flow.error
    BY <1>5, FlowTypes DEF StartFlow
  <2>3. Len(buffer) = 0
    BY <2>1
  <2>4. QED BY <1>1, <1>2, <2>1, <2>2, <2>3 DEF MarginInv, Capacity, Pending
<1>6. CASE StartOk
  BY <1>3, <1>6 DEF StartOk, flowVars, obs
<1>7. ASSUME FlowDestroy, UNCHANGED <<flowStopped, raced, buffer, cb>>,
             \A m \in Messages : fate'[m] = "lost" => fate[m] = "lost"
      PROVE  MarginInv'
  <2>1. ~flow'.running /\ flow'.destroyed /\ flow'.error = flow.error
    BY <1>7, FlowTypes
  <2>2. QED BY <1>2, <1>7, <2>1 DEF MarginInv, Capacity
<1>8. CASE StartFail
  BY <1>7, <1>8 DEF StartFail, obs
<1>9. CASE CallbackEnter \/ CallbackStep
  BY <1>9, CallbackMargin
<1>10. CASE Loop \/ \E r \in Receivers : ReceiveEnter(r) \/ ReceiveStep(r)
  <2>1. ConsumerStep
    BY <1>10, LoopConsumes, ReceiveConsumes
  <2>2. UNCHANGED cb /\ \A m \in Messages : fate'[m] = "lost" => fate[m] = "lost"
    BY <1>10, <2>1, LostOnlyInPush DEF ConsumerStep
  <2>3. CASE ConsumerRests \/ ConsumerLooks
    BY <1>3, <2>2, <2>3 DEF ConsumerRests, ConsumerLooks, FlowKept
  <2>4. CASE ConsumerTakes
    BY <2>2, <2>4, TakeMargin DEF ConsumerTakes, FlowKept
  <2>5. CASE ConsumerSwaps
    <3>1. /\ UNCHANGED <<flow, raced, buffer>>
          /\ flowStopped' = IF flowStopped = 1 THEN 0 ELSE flowStopped
      BY <2>5 DEF ConsumerSwaps, StartFlowSwap, StartFlowSwaps
    <3>2. QED BY <1>1, <1>2, <2>2, <3>1 DEF MarginInv, Capacity
  <2>6. CASE ConsumerCalls
    BY <2>2, <2>6, StartMargin DEF ConsumerCalls
  <2>7. QED BY <2>1, <2>3, <2>4, <2>5, <2>6 DEF ConsumerStep
<1>11. CASE Terminate
  <2>1. TerminationStep /\ \A m \in Messages : fate'[m] = "lost" => fate[m] = "lost"
    BY <1>11, TerminateEffects, LostOnlyInPush
  <2>2. CASE flowStopped' = 2 /\ UNCHANGED <<flow, buffer>>
    BY <1>2, <2>1, <2>2 DEF TerminationStep, MarginInv, Capacity
  <2>3. CASE FlowStop /\ UNCHANGED <<flowStopped, buffer>>
    BY <2>1, <2>3, StopMargin DEF TerminationStep
  <2>4. CASE FlowRefuses("stop")
    BY <2>4, FlowTypes DEF MarginInv
  <2>5. CASE FlowDestroy /\ UNCHANGED <<flowStopped, buffer>>
    BY <1>7, <2>1, <2>5 DEF TerminationStep
  <2>6. CASE UNCHANGED <<flow, flowStopped, buffer>>
    BY <1>3, <2>1, <2>6 DEF TerminationStep
  <2>7. CASE UNCHANGED <<flow, flowStopped>> /\ buffer # << >> /\ buffer' = Tail(buffer)
    BY <2>1, <2>7, TakeMargin DEF TerminationStep
  <2>8. QED BY <2>1, <2>2, <2>3, <2>4, <2>5, <2>6, <2>7 DEF TerminationStep
<1>12. CASE \E kind \in {"timed", "down"} : TerminateSwap(kind)
  BY <1>3, <1>12, LostOnlyInPush DEF TerminateSwap, flowVars, obs
<1>13. QED BY <1>4, <1>5, <1>6, <1>8, <1>9, <1>10, <1>11, <1>12 DEF Next, Aside

(* bufferSize leaves room for a whole window above the high water mark, so *)
(* that no message is lost as long as nobody starts the flow in the middle *)
(* of stopFlow, or after a whole one, or on a stale length, and CCSMP      *)
(* stops and starts it when asked to.                                      *)
THEOREM MarginSuffices == Spec => []NoMessageLostUnlessRaced
<1> DEFINE Inv == Types /\ Order /\ MarginInv
<1>1. Init => Inv
  <2>1. Init => Order
    BY DEF Init, Order, IsEnding
  <2>2. ASSUME Init PROVE MarginInv
    <3>1. /\ Len(buffer) = 0 /\ Pending = 0 /\ flow.credit = 0 /\ ~flow.running
          /\ \A m \in Messages : fate[m] # "lost"
      BY <2>2 DEF Init, Pending
    <3>2. QED BY <3>1, PersistentReceiverAssumption DEF MarginInv, Capacity
  <2>3. QED BY <2>1, <2>2, TypesInit
<1>2. Inv /\ [Next]_vars => Inv'
  BY TypesInductive, OrderInductive, MarginInductive
<1>3. Inv => NoMessageLostUnlessRaced
  BY DEF MarginInv, NoMessageLostUnlessRaced
<1>4. QED BY <1>1, <1>2, <1>3, PTL DEF Spec

-----------------------------------------------------------------------------
(* Where a message is.  The buffer holds each of those that wait in it     *)
(* once; the callback, the handler and a receiver hold the message that    *)
(* they are busy with, and nobody else does; and what is acknowledged was  *)
(* delivered, or a receiver that is past its acknowledgement holds it.     *)
Stored ==
    /\ \A i \in 1 .. Len(buffer) : fate[buffer[i]] = "buffered"
    /\ \A i, j \in 1 .. Len(buffer) : buffer[i] = buffer[j] => i = j
    /\ \A m \in Messages : fate[m] = "buffered" => \E i \in 1 .. Len(buffer) : buffer[i] = m
    /\ \A m \in Messages : m >= next => fate[m] = "wire"
    /\ cb.pc = "push" => fate[cb.msg] = "callback"

Held ==
    /\ loop.pc = "handle" => fate[loop.msg] = "delivered" /\ loop.msg \notin acked
    /\ \A r \in Receivers : rcv[r].msg # NoMsg =>
           fate[rcv[r].msg] = IF rcv[r].pc \in Holding THEN "consumed" ELSE "returning"
    /\ \A r, q \in Receivers : rcv[r].msg # NoMsg /\ rcv[r].msg = rcv[q].msg => r = q
    /\ \A m \in acked :
           \/ fate[m] = "delivered"
           \/ fate[m] = "returning" /\ \E r \in Receivers : rcv[r].msg = m

(* Nobody lays hands on a message that was not in them, or lets go of one. *)
NobodyTakes ==
    /\ loop'.pc = "handle" => UNCHANGED loop
    /\ \A r \in Receivers :
           /\ rcv'[r].msg = rcv[r].msg
           /\ rcv[r].msg # NoMsg => (rcv'[r].pc \in Holding <=> rcv[r].pc \in Holding)

(* A step that does nothing to messages ...                                *)
Still ==
    /\ UNCHANGED <<buffer, next, fate, acked>> /\ NobodyTakes
    /\ cb'.pc = "push" => UNCHANGED cb

(* ... as opposed to these, which do.                                      *)
Moving ==
    \/ CallbackEnter \/ CallbackPush \/ LoopTake \/ LoopHandled \/ DrainQueueOne
    \/ \E r \in Receivers : ReceiveTake(r) \/ ReceiveAck(r) \/ ReceiveReturn(r)

(* All the other steps are still.                                          *)
LEMMA StepKinds ==
    ASSUME Types, [Next]_vars
    PROVE  Still \/ Moving
<1>1. UNCHANGED rcv => \A r \in Receivers :
         /\ rcv'[r].msg = rcv[r].msg
         /\ rcv[r].msg # NoMsg => (rcv'[r].pc \in Holding <=> rcv[r].pc \in Holding)
  OBVIOUS
<1>2. CASE Aside
  BY <1>1, <1>2, AsideKeeps DEF Still, NobodyTakes
<1>3. CASE StartFlow \/ StartOk \/ StartFail
  <2>1. UNCHANGED <<buffer, next, fate, acked, cb, rcv>>
    BY <1>3 DEF StartFlow, StartOk, StartFail, obs
  <2>2. loop'.pc = "handle" => UNCHANGED loop
    BY <1>3 DEF StartFlow, StartOk, StartFail, Types, Loops
  <2>3. QED BY <1>1, <2>1, <2>2 DEF Still, NobodyTakes
<1>4. CASE CallbackStep /\ ~CallbackPush
  <2>1. UNCHANGED <<buffer, next, fate, acked, loop, rcv>>
    BY <1>4 DEF CallbackStep, CallbackHigh, CallbackStop, CallbackStore,
                CallbackRecheck, CallbackSwap, CallbackStart, obs
  <2>2. \E l \in CbPCs \ {"push"} : Cb(l)
    BY <1>4 DEF CallbackStep, CallbackHigh, CallbackStop, CallbackStore, CallbackRecheck,
                CallbackSwap, CallbackStart, CbPCs, AfterStore
  <2>3. cb'.pc # "push"
    BY <2>2 DEF Cb, Types, Cbs
  <2>4. QED BY <1>1, <2>1, <2>3 DEF Still, NobodyTakes
<1>5. ASSUME NEW r \in Receivers, ReceiveEnter(r) \/ ReceiveStep(r), ~ReceiveTake(r), ~ReceiveAck(r),
             ~ReceiveReturn(r)
      PROVE  Still
  <2>1. UNCHANGED <<buffer, next, fate, acked, loop, cb>>
    BY <1>5 DEF ReceiveEnter, ReceiveStep, ReceiveNothing, ReceiveLow, ReceiveSwap, ReceiveStart,
                ReceiveDeferred, obs
  <2>2. \E l \in RcvPCs : /\ Goes(r, l, rcv[r].msg)
                          /\ rcv[r].msg # NoMsg => (l \in Holding <=> rcv[r].pc \in Holding)
    BY <1>5, ReceiveGoes DEF ReceiveStep, RcvPCs, Holding, Types
  <2>3. \A q \in Receivers :
           /\ rcv'[q].msg = rcv[q].msg
           /\ rcv[q].msg # NoMsg => (rcv'[q].pc \in Holding <=> rcv[q].pc \in Holding)
    BY <2>2 DEF Goes
  <2>4. QED BY <2>1, <2>3 DEF Still, NobodyTakes
<1>6. CASE Loop /\ ~LoopTake /\ ~LoopHandled
  <2>1. UNCHANGED <<buffer, next, fate, acked, rcv, cb>>
    BY <1>6 DEF Loop, LoopWait, LoopPause, LoopPauseEmpty, LoopPaused, LoopTop, LoopInterrupted,
         LoopDrained, LoopNotified, LoopLow, LoopSwap, LoopStart, LoopClose, obs
  <2>2. loop'.pc # "handle"
    BY <1>6, LoopGoes DEF Loop, LoopIn
  <2>3. QED BY <1>1, <2>1, <2>2 DEF Still, NobodyTakes
<1>7. CASE (Terminate /\ ~DrainQueueOne) \/ \E kind \in {"timed", "down"} : TerminateSwap(kind)
  <2>1. UNCHANGED <<buffer, next, fate, acked, rcv, cb, loop>>
    BY <1>7 DEF Terminate, TerminateSwap, TerminateStopped, TerminateStop, TerminateDestroy,
         TerminateUnblock, TerminateClose, TerminateMark, TerminateEmpty, TerminateWait,
         TerminateNotify, TerminateJoin, DrainQueueDone, TerminateFinish, obs
  <2>2. QED BY <1>1, <2>1 DEF Still, NobodyTakes
<1>8. QED BY <1>2, <1>3, <1>4, <1>5, <1>6, <1>7 DEF Next, Aside, Moving

(* The first message of the buffer gets the fate f.                        *)
TakeHead(f) ==
    /\ buffer # << >> /\ buffer' = Tail(buffer)
    /\ fate' = [fate EXCEPT ![Head(buffer)] = f]

(* The buffer without its first message.                                   *)
LEMMA TakeStored ==
    ASSUME Types, Stored, NEW f \in Fates \ {"buffered"}, TakeHead(f), UNCHANGED <<next, cb>>
    PROVE  /\ Stored' /\ Head(buffer) \in Messages
           /\ fate[Head(buffer)] = "buffered" /\ fate'[Head(buffer)] = f
           /\ \A m \in Messages : m # Head(buffer) => fate'[m] = fate[m]
<1> DEFINE h == Head(buffer)
           n == Len(buffer)
<1>1. /\ h \in Messages /\ h = buffer[1] /\ n \in Nat \ {0} /\ Len(buffer') = n - 1
      /\ \A i \in 1 .. n - 1 : buffer'[i] = buffer[i + 1]
  BY BufferHead DEF TakeHead
<1>2. buffer \in Seq(Messages) /\ fate \in [Messages -> Fates] /\ next \in Nat
  BY DEF Types
<1>3. \A i \in 1 .. n : buffer[i] \in Messages
  BY <1>2
<1>4. fate[h] = "buffered" /\ fate'[h] = f /\ \A m \in Messages : m # h => fate'[m] = fate[m]
  BY <1>1, <1>2 DEF Stored, TakeHead
<1> HIDE DEF h, n
<1>5. \A i \in 1 .. n - 1 : i + 1 \in 1 .. n /\ buffer'[i] # h
  BY <1>1, <1>3 DEF Stored, n
<1>6. \A i \in 1 .. Len(buffer') : fate'[buffer'[i]] = "buffered"
  BY <1>1, <1>3, <1>4, <1>5 DEF Stored, n
<1>7. \A i, j \in 1 .. Len(buffer') : buffer'[i] = buffer'[j] => i = j
  BY <1>1, <1>5 DEF Stored, n
<1>8. ASSUME NEW m \in Messages, fate'[m] = "buffered"
      PROVE  \E i \in 1 .. Len(buffer') : buffer'[i] = m
  <2>1. m # h /\ fate[m] = "buffered"
    BY <1>4, <1>8
  <2>2. PICK i \in 1 .. n : buffer[i] = m
    BY <2>1 DEF Stored, n
  <2>3. i # 1 /\ i - 1 \in 1 .. n - 1
    BY <1>1, <2>1, <2>2
  <2>4. buffer'[i - 1] = m
    BY <1>1, <2>2, <2>3
  <2>5. QED BY <1>1, <2>3, <2>4
<1>9. \A m \in Messages : m >= next' => fate'[m] = "wire"
  BY <1>4 DEF Stored
<1>10. cb'.pc = "push" => fate'[cb'.msg] = "callback"
  BY <1>4 DEF Stored, Types
<1>11. QED BY <1>1, <1>4, <1>6, <1>7, <1>8, <1>9, <1>10 DEF Stored, h

(* A message that was neither in the buffer nor on its way gets another    *)
(* fate of that kind.                                                      *)
LEMMA SettleStored ==
    ASSUME Types, Stored, NEW x \in Messages, NEW f \in Fates \ {"buffered"},
           fate[x] \notin {"buffered", "callback", "wire"},
           fate' = [fate EXCEPT ![x] = f], UNCHANGED <<buffer, next, cb>>
    PROVE  Stored'
<1>1. buffer \in Seq(Messages) /\ fate \in [Messages -> Fates] /\ next \in Nat
  BY DEF Types
<1>2. fate'[x] = f /\ \A m \in Messages : m # x => fate'[m] = fate[m]
  BY <1>1
<1>3. \A i \in 1 .. Len(buffer) : buffer[i] \in Messages /\ buffer[i] # x
  BY <1>1 DEF Stored
<1>4. cb.pc = "push" => cb.msg \in Messages /\ cb.msg # x
  BY DEF Types, Stored
<1>5. QED BY <1>2, <1>3, <1>4 DEF Stored

(* A message comes from the flow.                                          *)
LEMMA EnterStored ==
    ASSUME Types, Stored, CallbackEnter
    PROVE  /\ Stored' /\ NobodyTakes /\ UNCHANGED acked
           /\ \A m \in Messages : fate[m] # "wire" => fate'[m] = fate[m]
           /\ \A m \in Messages : fate'[m] = "freed" => fate[m] = "freed"
<1> USE PersistentReceiverAssumption
<1>1. buffer \in Seq(Messages) /\ fate \in [Messages -> Fates] /\ next \in Nat
  BY DEF Types
<1>2. next \in Messages /\ next' = next + 1 /\ UNCHANGED <<buffer, loop, rcv, acked>>
      /\ cb.pc = "idle"
  BY FlowTypes DEF CallbackEnter
<1>3. PICK f \in {"returned", "callback"} :
         /\ fate' = [fate EXCEPT ![next] = f]
         /\ f = "returned" => UNCHANGED cb
         /\ f = "callback" => cb' = [pc |-> "push", msg |-> next]
  <2>1. CASE IsEnding
    BY <2>1 DEF CallbackEnter
  <2>2. CASE ~IsEnding
    BY <2>2 DEF CallbackEnter
  <2>3. QED BY <2>1, <2>2
<1>4. fate[next] = "wire" /\ fate'[next] = f /\ \A m \in Messages : m # next => fate'[m] = fate[m]
  BY <1>1, <1>2, <1>3 DEF Stored
<1>5. \A i \in 1 .. Len(buffer) : buffer[i] \in Messages /\ buffer[i] # next
  BY <1>1, <1>4 DEF Stored
<1>6. \A m \in Messages : m >= next' => fate'[m] = "wire"
  BY <1>1, <1>2, <1>4 DEF Stored, Messages
<1>7. cb'.pc = "push" => fate'[cb'.msg] = "callback"
  BY <1>2, <1>3, <1>4
<1>8. Stored'
  BY <1>2, <1>4, <1>5, <1>6, <1>7 DEF Stored
<1>9. NobodyTakes
  BY <1>2 DEF NobodyTakes
<1>10. QED BY <1>2, <1>4, <1>8, <1>9

(* The callback puts its message into the buffer, gives it back or drops   *)
(* it.                                                                     *)
LEMMA PushStored ==
    ASSUME Types, Stored, CallbackPush
    PROVE  /\ Stored' /\ NobodyTakes /\ UNCHANGED acked
           /\ \A m \in Messages : fate[m] # "callback" => fate'[m] = fate[m]
           /\ \A m \in Messages : fate'[m] = "freed" => fate[m] = "freed"
<1> DEFINE x == cb.msg
           n == Len(buffer)
<1>1. buffer \in Seq(Messages) /\ fate \in [Messages -> Fates] /\ next \in Nat /\ n \in Nat
  BY DEF Types
<1>2. /\ x \in Messages /\ fate[x] = "callback" /\ UNCHANGED <<next, loop, rcv, acked>>
      /\ cb'.pc # "push"
  BY DEF CallbackPush, Types, Stored
<1>3. \A i \in 1 .. n : buffer[i] \in Messages /\ buffer[i] # x
  BY <1>1, <1>2 DEF Stored
<1>4. NobodyTakes
  BY <1>2 DEF NobodyTakes
<1>5. CASE UNCHANGED buffer /\ \E f \in {"returned", "lost"} : fate' = [fate EXCEPT ![x] = f]
  <2>1. PICK f \in {"returned", "lost"} : fate' = [fate EXCEPT ![x] = f]
    BY <1>5
  <2>2. fate'[x] = f /\ \A m \in Messages : m # x => fate'[m] = fate[m]
    BY <1>1, <1>2, <2>1
  <2>3. Stored'
    BY <1>2, <1>3, <1>5, <2>2 DEF Stored
  <2>4. QED BY <1>2, <1>4, <2>2, <2>3
<1>6. CASE buffer' = Append(buffer, x) /\ fate' = [fate EXCEPT ![x] = "buffered"]
  <2>1. fate'[x] = "buffered" /\ \A m \in Messages : m # x => fate'[m] = fate[m]
    BY <1>1, <1>2, <1>6
  <2>2. /\ Len(Append(buffer, x)) = n + 1 /\ Append(buffer, x)[n + 1] = x
        /\ \A i \in 1 .. n : Append(buffer, x)[i] = buffer[i]
    BY <1>1, <1>2
  <2>3. Len(buffer') = n + 1 /\ buffer'[n + 1] = x /\ \A i \in 1 .. n : buffer'[i] = buffer[i]
    BY <1>6, <2>2
  <2> HIDE DEF x, n
  <2>4. \A i \in 1 .. n + 1 : i \in 1 .. n \/ i = n + 1
    BY <1>1
  <2>5. \A i \in 1 .. Len(buffer') : fate'[buffer'[i]] = "buffered"
    BY <1>3, <2>1, <2>3, <2>4 DEF Stored, n
  <2>6. \A i, j \in 1 .. Len(buffer') : buffer'[i] = buffer'[j] => i = j
    BY <1>3, <2>3, <2>4 DEF Stored, n
  <2>7. ASSUME NEW m \in Messages, fate'[m] = "buffered"
        PROVE  \E i \in 1 .. Len(buffer') : buffer'[i] = m
    <3>1. n + 1 \in 1 .. n + 1 /\ 1 .. n \subseteq 1 .. n + 1
      BY <1>1
    <3>2. CASE m = x
      BY <2>3, <3>1, <3>2
    <3>3. CASE m # x
      <4>1. PICK i \in 1 .. n : buffer[i] = m
        BY <2>1, <2>7, <3>3 DEF Stored, n
      <4>2. QED BY <2>3, <3>1, <4>1
    <3>4. QED BY <3>2, <3>3
  <2>8. \A m \in Messages : m >= next' => fate'[m] = "wire"
    BY <1>2, <2>1 DEF Stored
  <2>9. Stored'
    BY <1>2, <2>5, <2>6, <2>7, <2>8 DEF Stored
  <2>10. QED BY <1>2, <1>4, <2>1, <2>9
<1>7. QED BY <1>5, <1>6 DEF CallbackPush

(* Whoever holds a message goes on holding it.                             *)
LEMMA HeldKeeps ==
    ASSUME Types, Held, NobodyTakes, UNCHANGED acked,
           \A m \in Messages : fate[m] \in {"consumed", "returning", "delivered"} => fate'[m] = fate[m]
    PROVE  Held'
<1>1. /\ loop.pc = "handle" => loop.msg \in Messages
      /\ \A r \in Receivers : rcv[r].msg # NoMsg => rcv[r].msg \in Messages
      /\ acked \subseteq Messages
  BY DEF Types, Rcvs
<1>2. loop'.pc = "handle" => fate'[loop'.msg] = "delivered" /\ loop'.msg \notin acked'
  BY <1>1 DEF Held, NobodyTakes
<1>3. \A r \in Receivers : rcv'[r].msg # NoMsg =>
         fate'[rcv'[r].msg] = IF rcv'[r].pc \in Holding THEN "consumed" ELSE "returning"
  BY <1>1 DEF Held, NobodyTakes
<1>4. \A r, q \in Receivers : rcv'[r].msg # NoMsg /\ rcv'[r].msg = rcv'[q].msg => r = q
  BY DEF Held, NobodyTakes
<1>5. \A m \in acked' :
         fate'[m] = "delivered" \/ (fate'[m] = "returning" /\ \E r \in Receivers : rcv'[r].msg = m)
  BY <1>1 DEF Held, NobodyTakes
<1>6. QED BY <1>2, <1>3, <1>4, <1>5 DEF Held

(* A receiver takes the first message of the buffer.                       *)
LEMMA ReceiveTakeHeld ==
    ASSUME Types, Stored, Held, NEW r \in Receivers, ReceiveTake(r)
    PROVE  Stored' /\ Held' /\ \A m \in Messages : fate'[m] = "freed" <=> fate[m] = "freed"
<1>1. TakeHead("consumed") /\ UNCHANGED <<next, cb, loop, acked>> /\ "consumed" \in Fates \ {"buffered"}
  BY DEF ReceiveTake, TakeHead, Fates
<1>2. /\ Stored' /\ Head(buffer) \in Messages /\ fate[Head(buffer)] = "buffered"
      /\ fate'[Head(buffer)] = "consumed"
      /\ \A m \in Messages : m # Head(buffer) => fate'[m] = fate[m]
  BY <1>1, TakeStored
<1>3. /\ rcv'[r].pc = "low" /\ rcv'[r].msg = Head(buffer)
      /\ \A q \in Receivers \ {r} : rcv'[q] = rcv[q]
  BY ReceiveGoes DEF Goes
<1>4. \A q \in Receivers : rcv[q].msg # NoMsg => rcv[q].msg \in Messages /\ rcv[q].msg # Head(buffer)
  BY <1>2 DEF Types, Rcvs, Held
<1>5. loop.pc = "handle" => loop.msg \in Messages /\ loop.msg # Head(buffer)
  BY <1>2 DEF Types, Held
<1>6. \A m \in acked : m \in Messages /\ m # Head(buffer)
  BY <1>2 DEF Types, Held
<1>7. \A q \in Receivers : rcv'[q].msg # NoMsg =>
         fate'[rcv'[q].msg] = IF rcv'[q].pc \in Holding THEN "consumed" ELSE "returning"
  BY <1>2, <1>3, <1>4 DEF Held, Holding
<1>8. \A p, q \in Receivers : rcv'[p].msg # NoMsg /\ rcv'[p].msg = rcv'[q].msg => p = q
  <2>1. \A q \in Receivers \ {r} : rcv'[q].msg # Head(buffer)
    BY <1>2, <1>3, <1>4, PersistentReceiverAssumption DEF Messages, NoMsg
  <2>2. QED BY <1>3, <2>1 DEF Held
<1>9. \A m \in acked' :
         fate'[m] = "delivered" \/ (fate'[m] = "returning" /\ \E q \in Receivers : rcv'[q].msg = m)
  <2>1. rcv[r].msg = NoMsg
    <3>1. rcv[r].pc = "select"
      BY ReceiveGoes
    <3>2. QED BY <3>1, RcvTypes
  <2>2. \A q \in Receivers : rcv[q].msg # NoMsg => rcv'[q].msg = rcv[q].msg
    BY <1>3, <2>1
  <2>3. \A m \in acked : m # NoMsg
    BY <1>6, PersistentReceiverAssumption DEF Messages, NoMsg
  <2>4. QED BY <1>1, <1>2, <1>6, <2>2, <2>3 DEF Held
<1>10. Held'
  BY <1>1, <1>2, <1>5, <1>7, <1>8, <1>9 DEF Held
<1>11. QED BY <1>2, <1>10

(* A receiver acknowledges its message and goes on to return it, or        *)
(* disposes of it.                                                         *)
LEMMA ReceiveAckHeld ==
    ASSUME Types, Stored, Held, NEW r \in Receivers, ReceiveAck(r)
    PROVE  Stored' /\ Held' /\ \A m \in Messages : fate'[m] = "freed" <=> fate[m] = "freed"
<1> DEFINE x == rcv[r].msg
           f == IF Refused THEN "disposed" ELSE "returning"
<1>1. /\ rcv[r].pc = "ack" /\ x \in Messages /\ x # NoMsg /\ fate[x] = "consumed"
      /\ fate \in [Messages -> Fates]
  <2>1. rcv[r].pc = "ack" /\ x \in Messages /\ fate \in [Messages -> Fates]
    <3>1. rcv[r].pc = "ack"
      BY DEF ReceiveAck
    <3>2. QED BY <3>1, RcvTypes DEF Types, Holding
  <2>2. x # NoMsg
    BY <2>1, PersistentReceiverAssumption DEF Messages, NoMsg
  <2>3. QED BY <2>1, <2>2 DEF Held, Holding
<1>2. UNCHANGED <<buffer, next, cb, loop>> /\ fate' = [fate EXCEPT ![x] = f]
  BY DEF ReceiveAck, Refused
<1>3. acked' = acked \/ (f = "returning" /\ acked' = acked \cup {x})
  <2>1. CASE Refused
    BY <2>1 DEF ReceiveAck, Ack, Refused
  <2>2. CASE ~Refused
    BY <2>2 DEF ReceiveAck, Ack, Refused
  <2>3. QED BY <2>1, <2>2
<1>4. f \in {"disposed", "returning"} /\ fate'[x] = f /\ \A m \in Messages : m # x => fate'[m] = fate[m]
  BY <1>1, <1>2
<1>5. Stored'
  BY <1>1, <1>2, <1>4, SettleStored DEF Fates
<1>6. /\ rcv'[r].pc \notin Holding /\ rcv'[r].msg = (IF f = "disposed" THEN NoMsg ELSE x)
      /\ \A q \in Receivers \ {r} : rcv'[q] = rcv[q]
  BY ReceiveGoes DEF Goes, Holding
<1>7. \A q \in Receivers \ {r} : rcv[q].msg # x /\ (rcv[q].msg # NoMsg => rcv[q].msg \in Messages)
  BY <1>1 DEF Types, Rcvs, Held
<1>8. loop.pc = "handle" => loop.msg \in Messages /\ loop.msg # x
  BY <1>1 DEF Types, Held
<1>9. \A m \in acked : m \in Messages /\ m # x
  BY <1>1 DEF Types, Held
<1> HIDE DEF x, f
<1>10. loop'.pc = "handle" => fate'[loop'.msg] = "delivered" /\ loop'.msg \notin acked'
  BY <1>2, <1>3, <1>4, <1>8 DEF Held
<1>11. \A m \in acked' :
          fate'[m] = "delivered" \/ (fate'[m] = "returning" /\ \E q \in Receivers : rcv'[q].msg = m)
  <2>1. ASSUME NEW m \in acked, fate[m] = "returning"
        PROVE  \E q \in Receivers : rcv'[q].msg = m
    <3>1. PICK q \in Receivers : rcv[q].msg = m
      BY <1>1, <2>1 DEF Held
    <3>2. q # r
      BY <1>9, <3>1 DEF x
    <3>3. QED BY <1>6, <3>1, <3>2
  <2>2. f = "returning" => fate'[x] = "returning" /\ rcv'[r].msg = x
    BY <1>4, <1>6
  <2>3. \A m \in acked :
          fate'[m] = "delivered" \/ (fate'[m] = "returning" /\ \E q \in Receivers : rcv'[q].msg = m)
    BY <1>4, <1>9, <2>1 DEF Held
  <2>4. QED BY <1>3, <2>2, <2>3
<1>12. \A q \in Receivers : rcv'[q].msg # NoMsg =>
          fate'[rcv'[q].msg] = IF rcv'[q].pc \in Holding THEN "consumed" ELSE "returning"
  BY <1>4, <1>6, <1>7 DEF Held
<1>13. \A p, q \in Receivers : rcv'[p].msg # NoMsg /\ rcv'[p].msg = rcv'[q].msg => p = q
  BY <1>6, <1>7 DEF Held
<1>14. Held'
  BY <1>10, <1>11, <1>12, <1>13 DEF Held
<1>15. QED BY <1>1, <1>4, <1>5, <1>14

(* A receiver returns its message to the caller.                           *)
LEMMA ReceiveReturnHeld ==
    ASSUME Types, Stored, Held, NEW r \in Receivers, ReceiveReturn(r)
    PROVE  Stored' /\ Held' /\ \A m \in Messages : fate'[m] = "freed" <=> fate[m] = "freed"
<1> DEFINE x == rcv[r].msg
<1>1. /\ UNCHANGED <<buffer, next, cb, loop, acked>> /\ rcv[r].pc = "return"
      /\ rcv'[r].msg = NoMsg /\ \A q \in Receivers \ {r} : rcv'[q] = rcv[q]
  BY ReceiveGoes DEF ReceiveReturn, Goes
<1>2. fate \in [Messages -> Fates]
  BY DEF Types
<1>3. CASE x = NoMsg
  <2>1. UNCHANGED fate
    BY <1>3 DEF ReceiveReturn
  <2>2. \A m \in acked : m # NoMsg
    BY PersistentReceiverAssumption DEF Types, Messages, NoMsg
  <2>3. \A m \in acked :
          fate[m] = "delivered" \/ (fate[m] = "returning" /\ \E q \in Receivers : rcv'[q].msg = m)
    BY <1>1, <1>3, <2>2 DEF Held
  <2>4. Held'
    BY <1>1, <2>1, <2>3 DEF Held
  <2>5. QED BY <1>1, <2>1, <2>4 DEF Stored
<1>4. CASE x # NoMsg
  <2>1. x \in Messages /\ fate[x] = "returning"
    BY <1>1, <1>4 DEF Types, Rcvs, Held, Holding
  <2>2. fate' = [fate EXCEPT ![x] = "delivered"]
    BY <1>4 DEF ReceiveReturn
  <2>3. fate'[x] = "delivered" /\ \A m \in Messages : m # x => fate'[m] = fate[m]
    BY <1>2, <2>1, <2>2
  <2>4. Stored'
    BY <1>1, <1>2, <2>1, <2>2, SettleStored DEF Fates
  <2>5. \A q \in Receivers \ {r} : rcv[q].msg # x /\ (rcv[q].msg # NoMsg => rcv[q].msg \in Messages)
    BY <1>4 DEF Types, Rcvs, Held
  <2>6. loop.pc = "handle" => loop.msg \in Messages /\ loop.msg # x
    BY <2>1 DEF Types, Held
  <2> HIDE DEF x
  <2>7. loop'.pc = "handle" => fate'[loop'.msg] = "delivered" /\ loop'.msg \notin acked'
    BY <1>1, <2>3, <2>6 DEF Held
  <2>8. \A q \in Receivers : rcv'[q].msg # NoMsg =>
           fate'[rcv'[q].msg] = IF rcv'[q].pc \in Holding THEN "consumed" ELSE "returning"
    BY <1>1, <2>3, <2>5 DEF Held
  <2>9. \A p, q \in Receivers : rcv'[p].msg # NoMsg /\ rcv'[p].msg = rcv'[q].msg => p = q
    BY <1>1 DEF Held
  <2>10. ASSUME NEW m \in acked
         PROVE  \/ fate'[m] = "delivered"
                \/ fate'[m] = "returning" /\ \E q \in Receivers : rcv'[q].msg = m
    <3>1. CASE m = x
      BY <2>3, <3>1
    <3>2. CASE m # x
      <4>1. m \in Messages /\ fate'[m] = fate[m]
        BY <2>3, <3>2 DEF Types
      <4>2. ASSUME NEW q \in Receivers, rcv[q].msg = m PROVE rcv'[q].msg = m
        BY <1>1, <3>2, <4>2 DEF x
      <4>3. QED BY <4>1, <4>2 DEF Held
    <3>3. QED BY <3>1, <3>2
  <2>11. Held'
    BY <1>1, <2>7, <2>8, <2>9, <2>10 DEF Held
  <2>12. QED BY <2>1, <2>3, <2>4, <2>11
<1>5. QED BY <1>3, <1>4

(* The loop hands the first message of the buffer to the handler.          *)
LEMMA LoopTakeHeld ==
    ASSUME Types, Stored, Held, LoopTake
    PROVE  Stored' /\ Held' /\ \A m \in Messages : fate'[m] = "freed" <=> fate[m] = "freed"
<1>1. TakeHead("delivered") /\ UNCHANGED <<next, cb, rcv, acked>> /\ "delivered" \in Fates \ {"buffered"}
  BY DEF LoopTake, TakeHead, Fates
<1>2. /\ Stored' /\ Head(buffer) \in Messages /\ fate[Head(buffer)] = "buffered"
      /\ fate'[Head(buffer)] = "delivered"
      /\ \A m \in Messages : m # Head(buffer) => fate'[m] = fate[m]
  BY <1>1, TakeStored
<1>3. loop'.pc = "handle" /\ loop'.msg = Head(buffer)
  BY LoopGoes
<1>4. \A q \in Receivers : rcv[q].msg # NoMsg => rcv[q].msg \in Messages /\ rcv[q].msg # Head(buffer)
  BY <1>2 DEF Types, Rcvs, Held
<1>5. \A m \in acked : m \in Messages /\ m # Head(buffer)
  BY <1>2 DEF Types, Held
<1>6. Held'
  BY <1>1, <1>2, <1>3, <1>4, <1>5 DEF Held
<1>7. QED BY <1>2, <1>6

(* The handler has returned, and its message is acknowledged, or panicked. *)
LEMMA LoopHandledHeld ==
    ASSUME Types, Stored, Held, LoopHandled
    PROVE  Stored' /\ Held' /\ \A m \in Messages : fate'[m] = "freed" <=> fate[m] = "freed"
<1> DEFINE x == loop.msg
<1>1. /\ loop.pc = "handle" /\ x \in Messages /\ fate[x] = "delivered" /\ x \notin acked
      /\ fate \in [Messages -> Fates]
  BY DEF LoopHandled, Types, Held
<1>2. UNCHANGED <<buffer, next, cb, rcv>>
  BY DEF LoopHandled
<1>3. PICK f \in {"panicked", "delivered"} :
         /\ fate' = [fate EXCEPT ![x] = f]
         /\ acked' = acked \/ (f = "delivered" /\ acked' = acked \cup {x})
  <2>1. CASE x \in Panicking
    BY <2>1 DEF LoopHandled, AckAfterHandler
  <2>2. CASE x \notin Panicking
    BY <2>2 DEF LoopHandled, AckAfterHandler, Ack
  <2>3. QED BY <2>1, <2>2
<1>4. fate'[x] = f /\ \A m \in Messages : m # x => fate'[m] = fate[m]
  BY <1>1, <1>3
<1>5. Stored'
  BY <1>1, <1>2, <1>3, SettleStored DEF Fates
<1>6. loop'.pc # "handle"
  BY LoopGoes DEF LoopIn
<1>7. \A q \in Receivers : rcv[q].msg # NoMsg => rcv[q].msg \in Messages /\ rcv[q].msg # x
  BY <1>1 DEF Types, Rcvs, Held
<1>8. \A m \in acked : m \in Messages /\ m # x
  BY <1>1 DEF Types, Held
<1> HIDE DEF x
<1>9. \A m \in acked' :
         fate'[m] = "delivered" \/ (fate'[m] = "returning" /\ \E r \in Receivers : rcv'[r].msg = m)
  BY <1>2, <1>3, <1>4, <1>8 DEF Held
<1>10. Held'
  BY <1>2, <1>4, <1>6, <1>7, <1>9 DEF Held
<1>11. QED BY <1>1, <1>4, <1>5, <1>10

(* Every step leaves the messages in their places, and only the drain      *)
(* frees one.                                                              *)
LEMMA PlacesInductive ==
    ASSUME Types, Stored, Held, [Next]_vars
    PROVE  /\ Stored' /\ Held'
           /\ DrainQueueOne => /\ Head(buffer) \in Messages /\ fate[Head(buffer)] # "freed"
                               /\ fate'[Head(buffer)] = "freed"
                               /\ \A m \in Messages : m # Head(buffer) => fate'[m] = fate[m]
           /\ ~DrainQueueOne => \A m \in Messages : fate'[m] = "freed" <=> fate[m] = "freed"
<1>1. CASE Still /\ ~DrainQueueOne
  <2>1. Held'
    BY <1>1, HeldKeeps DEF Still
  <2>2. Stored'
    BY <1>1 DEF Still, Stored
  <2>3. QED BY <1>1, <2>1, <2>2 DEF Still
<1>2. CASE CallbackEnter
  <2>1. Stored' /\ Held'
    BY <1>2, EnterStored, HeldKeeps
  <2>2. ~DrainQueueOne
    BY <1>2 DEF CallbackEnter, DrainQueueOne
  <2>3. QED BY <1>2, <2>1, <2>2, EnterStored
<1>3. CASE CallbackPush
  <2>1. Stored' /\ Held'
    BY <1>3, PushStored, HeldKeeps
  <2>2. ~DrainQueueOne
    BY <1>3 DEF CallbackPush, DrainQueueOne
  <2>3. QED BY <1>3, <2>1, <2>2, PushStored
<1>4. CASE DrainQueueOne
  <2>1. TakeHead("freed") /\ UNCHANGED <<next, cb, loop, rcv, acked>> /\ "freed" \in Fates \ {"buffered"}
    BY <1>4 DEF DrainQueueOne, TakeHead, Fates
  <2>2. /\ Stored' /\ Head(buffer) \in Messages /\ fate[Head(buffer)] = "buffered"
        /\ fate'[Head(buffer)] = "freed"
        /\ \A m \in Messages : m # Head(buffer) => fate'[m] = fate[m]
    BY <2>1, TakeStored
  <2>3. Held'
    BY <2>1, <2>2, HeldKeeps DEF NobodyTakes
  <2>4. QED BY <1>4, <2>2, <2>3
<1>5. CASE ~DrainQueueOne /\ (LoopTake \/ LoopHandled
                                \/ \E r \in Receivers : ReceiveTake(r) \/ ReceiveAck(r) \/ ReceiveReturn(r))
  BY <1>5, LoopTakeHeld, LoopHandledHeld, ReceiveTakeHeld, ReceiveAckHeld, ReceiveReturnHeld
<1>6. QED BY <1>1, <1>2, <1>3, <1>4, <1>5, StepKinds DEF Moving

-----------------------------------------------------------------------------
(* The end.  Nothing enters a closed buffer, and bufferEmptyOnTerminate is *)
(* closed only when the closed buffer is empty; so each way to the end of  *)
(* the termination leaves an empty one.                                    *)
Closing ==
    /\ "empty" \in closed => "buffer" \in closed /\ buffer = << >>
    /\ bufferClosed => "buffer" \in closed
    /\ term.pc \in {"stopped", "stop"} => ~IsDown
    /\ (term.pc = "unblock" /\ IsDown) => "buffer" \in closed
    /\ term.pc \in {"mark", "empty", "wait", "joinEmpty", "notify", "join", "drain"} =>
           "buffer" \in closed
    /\ term.pc = "joinEmpty" => "empty" \in closed
    /\ (term.pc = "destroy" /\ ~IsDown) => "buffer" \in closed /\ buffer = << >>
    /\ term.pc \in {"finish", "done"} => "buffer" \in closed /\ buffer = << >>

(* A step may close channels, the one that announces the empty buffer only *)
(* when it is, and fill no closed buffer.                                  *)
ClosesRightly ==
    /\ closed \subseteq closed'
    /\ "empty" \in closed' => "empty" \in closed \/ ("buffer" \in closed /\ buffer = << >>)
    /\ "buffer" \in closed /\ buffer = << >> => buffer' = << >>

(* Announcing the empty buffer is right where it is done.                  *)
LEMMA SignalsRightly ==
    ASSUME Closing, UNCHANGED buffer,
           \/ SignalEmpty /\ "buffer" \in closed /\ buffer = << >>
           \/ checkEmptyBufferAndNotify
    PROVE  ClosesRightly
BY DEF SignalEmpty, checkEmptyBufferAndNotify, DrainedOnTerminate, Close, KeepChannels, chans,
       Closing, ClosesRightly

(* So every step does it rightly.                                          *)
LEMMA EveryStepCloses ==
    ASSUME Types, Closing, [Next]_vars
    PROVE  ClosesRightly
<1>1. ASSUME closed \subseteq closed', "empty" \in closed' => "empty" \in closed,
             \/ UNCHANGED buffer \/ (buffer # << >> /\ buffer' = Tail(buffer))
             \/ "buffer" \notin closed
      PROVE  ClosesRightly
  BY <1>1 DEF ClosesRightly
<1>2. CASE Aside
  BY <1>1, <1>2, AsideKeeps
<1>3. CASE StartFlow \/ StartOk \/ StartFail
  BY <1>1, <1>3 DEF StartFlow, StartOk, StartFail, chans
<1>4. CASE CallbackEnter \/ CallbackStep
  <2>1. UNCHANGED closed
    BY <1>4 DEF CallbackEnter, CallbackStep, CallbackPush, CallbackHigh, CallbackStop,
                CallbackStore, CallbackRecheck, CallbackSwap, CallbackStart, chans
  <2>2. UNCHANGED buffer \/ "buffer" \notin closed
    BY <1>4 DEF CallbackEnter, CallbackStep, CallbackPush, CallbackHigh, CallbackStop,
                CallbackStore, CallbackRecheck, CallbackSwap, CallbackStart
  <2>3. QED BY <1>1, <2>1, <2>2
<1>5. ASSUME NEW r \in Receivers, ReceiveEnter(r) \/ ReceiveStep(r)
      PROVE  ClosesRightly
  <2>1. CASE ReceiveDeferred(r)
    BY <2>1, SignalsRightly DEF ReceiveDeferred
  <2>2. CASE ~ReceiveDeferred(r)
    <3>1. UNCHANGED closed
      BY <1>5, <2>2 DEF ReceiveEnter, ReceiveStep, ReceiveTake, ReceiveNothing, ReceiveLow,
                        ReceiveSwap, ReceiveStart, ReceiveAck, ReceiveReturn, chans
    <3>2. UNCHANGED buffer \/ (buffer # << >> /\ buffer' = Tail(buffer))
      BY <1>5, <2>2 DEF ReceiveEnter, ReceiveStep, ReceiveTake, ReceiveNothing, ReceiveLow,
                        ReceiveSwap, ReceiveStart, ReceiveAck, ReceiveReturn
    <3>3. QED BY <1>1, <3>1, <3>2
  <2>3. QED BY <2>1, <2>2
<1>6. CASE Loop
  <2>1. CASE LoopPauseEmpty
    BY <2>1, SignalsRightly DEF LoopPauseEmpty
  <2>2. CASE LoopDrained
    BY <2>2, SignalsRightly DEF LoopDrained
  <2>3. CASE LoopClose
    BY <1>1, <2>3 DEF LoopClose, Close
  <2>4. CASE LoopWait \/ LoopPause \/ LoopPaused \/ LoopTop \/ LoopTake \/ LoopInterrupted
             \/ LoopNotified \/ LoopHandled \/ LoopLow \/ LoopSwap \/ LoopStart
    <3>1. UNCHANGED closed
      BY <2>4 DEF LoopWait, LoopPause, LoopPaused, LoopTop, LoopTake, LoopInterrupted, LoopNotified,
                  LoopHandled, LoopLow, LoopSwap, LoopStart, chans
    <3>2. UNCHANGED buffer \/ (buffer # << >> /\ buffer' = Tail(buffer))
      BY <2>4 DEF LoopWait, LoopPause, LoopPaused, LoopTop, LoopTake, LoopInterrupted, LoopNotified,
                  LoopHandled, LoopLow, LoopSwap, LoopStart
    <3>3. QED BY <1>1, <3>1, <3>2
  <2>5. QED BY <1>6, <2>1, <2>2, <2>3, <2>4 DEF Loop
<1>7. CASE Terminate
  <2>1. CASE TerminateEmpty
    BY <2>1, SignalsRightly DEF TerminateEmpty
  <2>2. CASE DrainQueueDone
    <3>1. term.pc = "drain" /\ buffer = << >> /\ SignalEmpty /\ UNCHANGED buffer
      BY <2>2 DEF DrainQueueDone, TermGoto
    <3>2. "buffer" \in closed
      BY <3>1 DEF Closing
    <3>3. QED BY <3>1, <3>2, SignalsRightly
  <2>3. CASE TerminateClose \/ TerminateNotify
    BY <1>1, <2>3 DEF TerminateClose, TerminateNotify, Close
  <2>4. CASE DrainQueueOne
    BY <1>1, <2>4 DEF DrainQueueOne, chans
  <2>5. CASE TerminateStopped \/ TerminateStop \/ TerminateDestroy \/ TerminateUnblock
             \/ TerminateMark \/ TerminateWait \/ TerminateJoin \/ TerminateFinish
    <3>1. UNCHANGED <<closed, buffer>>
      BY <2>5 DEF TerminateStopped, TerminateStop, TerminateDestroy, TerminateUnblock,
                  TerminateMark, TerminateWait, TerminateJoin, TerminateFinish, chans
    <3>2. QED BY <1>1, <3>1
  <2>6. QED BY <1>7, <2>1, <2>2, <2>3, <2>4, <2>5 DEF Terminate
<1>8. CASE \E kind \in {"timed", "down"} : TerminateSwap(kind)
  BY <1>1, <1>8 DEF TerminateSwap, chans
<1>9. QED BY <1>2, <1>3, <1>4, <1>5, <1>6, <1>7, <1>8 DEF Next, Aside

(* Closing is kept by every step: the termination by its stages ...        *)
LEMMA TerminateClosing ==
    ASSUME Types, Closing, ClosesRightly, Terminate
    PROVE  Closing'
<1>1. term \in Terms
  BY DEF Types
<1>2. /\ "buffer" \in closed => "buffer" \in closed'
      /\ "empty" \in closed => "empty" \in closed'
      /\ "empty" \in closed' => "buffer" \in closed' /\ buffer' = << >>
      /\ ("buffer" \in closed /\ buffer = << >>) => "buffer" \in closed' /\ buffer' = << >>
  BY DEF ClosesRightly, Closing
<1>3. CASE TerminateMark
  <2>1. /\ term.pc = "mark" /\ term'.kind = term.kind
        /\ term'.pc = IF IsDown THEN "unblock" ELSE "empty"
    BY <1>3, TermGoes DEF TerminateMark, TermPCs
  <2>2. QED BY <1>2, <2>1 DEF Closing, IsDown
<1>4. ASSUME ~TerminateMark PROVE UNCHANGED bufferClosed
  BY <1>4 DEF Terminate, TerminateStopped, TerminateStop, TerminateDestroy,
         TerminateUnblock, TerminateClose, TerminateEmpty, TerminateWait,
         TerminateNotify, TerminateJoin, DrainQueueOne, DrainQueueDone, TerminateFinish, flags
<1>5. CASE ~TerminateMark
  <2>1. UNCHANGED bufferClosed
    BY <1>4, <1>5
  <2>2. CASE TerminateStopped
    <3>1. term.pc = "stopped" /\ term'.kind = term.kind /\ term'.pc = "stop"
      BY <2>2, TermGoes DEF TerminateStopped, TermPCs
    <3>2. QED BY <1>2, <2>1, <3>1 DEF Closing, IsDown
  <2>3. CASE TerminateStop
    <3>1. term.pc = "stop" /\ term'.kind = term.kind /\ term'.pc = "unblock"
      BY <2>3, TermGoes DEF TerminateStop, TermPCs
    <3>2. QED BY <1>2, <2>1, <3>1 DEF Closing, IsDown
  <2>4. CASE TerminateDestroy
    <3>1. /\ term.pc = "destroy" /\ term'.kind = term.kind
          /\ term'.pc = IF IsDown THEN "close" ELSE "finish"
      BY <2>4, TermGoes DEF TerminateDestroy, TermPCs
    <3>2. QED BY <1>2, <2>1, <3>1 DEF Closing, IsDown
  <2>5. CASE TerminateUnblock
    <3>1. /\ term.pc = "unblock" /\ term'.kind = term.kind
          /\ term'.pc = IF IsDown THEN "notify" ELSE "close"
      BY <2>5, TermGoes DEF TerminateUnblock, TermPCs
    <3>2. QED BY <1>2, <2>1, <3>1 DEF Closing, IsDown
  <2>6. CASE TerminateClose
    <3>1. term.pc = "close" /\ term'.kind = term.kind /\ term'.pc = "mark" /\ "buffer" \in closed'
      BY <2>6, TermGoes DEF TerminateClose, TermPCs, Close
    <3>2. QED BY <1>2, <2>1, <3>1 DEF Closing, IsDown
  <2>7. CASE TerminateEmpty
    <3>1. term.pc = "empty" /\ term'.kind = term.kind /\ term'.pc = "wait"
      BY <2>7, TermGoes DEF TerminateEmpty, TermPCs
    <3>2. QED BY <1>2, <2>1, <3>1 DEF Closing, IsDown
  <2>8. CASE TerminateWait
    <3>1. /\ term.pc = "wait" /\ term'.kind = term.kind
          /\ term'.pc = "notify" \/ (term'.pc = "joinEmpty" /\ "empty" \in closed)
      BY <2>8, TermGoes DEF TerminateWait, TermPCs
    <3>2. QED BY <1>2, <2>1, <3>1 DEF Closing, IsDown
  <2>9. CASE TerminateNotify
    <3>1. /\ term.pc = "notify" /\ term'.kind = term.kind
          /\ term'.pc = IF IsDown THEN "drain" ELSE "join"
      BY <2>9, TermGoes DEF TerminateNotify, TermPCs
    <3>2. QED BY <1>2, <2>1, <3>1 DEF Closing, IsDown
  <2>10. CASE TerminateJoin
    <3>1. /\ term'.kind = term.kind
          /\ \/ term.pc = "join" /\ term'.pc = "drain"
             \/ term.pc = "joinEmpty" /\ term'.pc = "destroy"
      BY <2>10, TermGoes DEF TerminateJoin, TermPCs
    <3>2. QED BY <1>2, <2>1, <3>1 DEF Closing, IsDown
  <2>11. CASE DrainQueueOne
    <3>1. term.pc = "drain" /\ term'.kind = term.kind /\ term'.pc = "drain"
      BY <2>11, TermGoes DEF DrainQueueOne
    <3>2. QED BY <1>2, <2>1, <3>1 DEF Closing, IsDown
  <2>12. CASE DrainQueueDone
    <3>1. /\ term.pc = "drain" /\ term'.kind = term.kind /\ buffer = << >>
          /\ term'.pc = IF IsDown THEN "finish" ELSE "destroy"
      BY <2>12, TermGoes DEF DrainQueueDone, TermPCs
    <3>2. "buffer" \in closed
      BY <3>1 DEF Closing
    <3>3. QED BY <1>2, <2>1, <3>1, <3>2 DEF Closing, IsDown
  <2>13. CASE TerminateFinish
    <3>1. term.pc = "finish" /\ term'.kind = term.kind /\ term'.pc = "done"
      BY <2>13, TermGoes DEF TerminateFinish, TermPCs
    <3>2. QED BY <1>2, <2>1, <3>1 DEF Closing, IsDown
  <2>14. QED BY <1>5, <2>2, <2>3, <2>4, <2>5, <2>6, <2>7, <2>8, <2>9, <2>10, <2>11, <2>12, <2>13
            DEF Terminate
<1>6. QED BY <1>3, <1>5

(* ... and by everything else, which leaves those stages alone.            *)
LEMMA ClosingInductive ==
    ASSUME Types, Closing, [Next]_vars
    PROVE  Closing'
<1>1. ClosesRightly
  BY EveryStepCloses
<1>2. CASE Terminate
  BY <1>1, <1>2, TerminateClosing
<1>3. CASE UNCHANGED <<term, bufferClosed>>
  BY <1>1, <1>3 DEF Closing, ClosesRightly, IsDown
<1>4. CASE \E kind \in {"timed", "down"} : TerminateSwap(kind)
  <2>1. PICK kind \in {"timed", "down"} : TerminateSwap(kind)
    BY <1>4
  <2>2. /\ term' = [pc |-> IF kind = "down" THEN "destroy" ELSE "stopped", kind |-> kind, count |-> 0]
        /\ UNCHANGED bufferClosed
    BY <2>1 DEF TerminateSwap, flags
  <2>3. /\ term'.pc \in {"destroy", "stopped"} /\ (term'.pc = "destroy" => term'.kind = "down")
        /\ (term'.pc = "stopped" => term'.kind # "down")
    BY <2>2
  <2>4. QED BY <1>1, <2>2, <2>3 DEF Closing, ClosesRightly, IsDown
<1>5. CASE Aside
  BY <1>3, <1>5, AsideKeeps
<1>6. CASE StartFlow \/ StartOk \/ StartFail
  BY <1>3, <1>6 DEF StartFlow, StartOk, StartFail, flags
<1>7. CASE CallbackEnter \/ CallbackStep
  BY <1>3, <1>7 DEF CallbackEnter, CallbackStep, CallbackPush, CallbackHigh, CallbackStop,
         CallbackStore, CallbackRecheck, CallbackSwap, CallbackStart, flags
<1>8. CASE \E r \in Receivers : ReceiveEnter(r) \/ ReceiveStep(r)
  BY <1>3, <1>8 DEF ReceiveEnter, ReceiveStep, ReceiveTake, ReceiveNothing, ReceiveLow,
         ReceiveSwap, ReceiveStart, ReceiveAck, ReceiveDeferred, ReceiveReturn, flags
<1>9. CASE Loop
  BY <1>3, <1>9 DEF Loop, LoopWait, LoopPause, LoopPauseEmpty, LoopPaused, LoopTop, LoopTake,
         LoopInterrupted, LoopDrained, LoopNotified, LoopHandled, LoopLow, LoopSwap, LoopStart,
         LoopClose, flags
<1>10. QED BY <1>2, <1>4, <1>5, <1>6, <1>7, <1>8, <1>9 DEF Next, Aside

(* What was thrown away is counted.                                        *)
Freed == {m \in Messages : fate[m] = "freed"}
Counted ==
    /\ term.count = Cardinality(Freed)
    /\ ~IsEnding => term.count = 0

(* One more message thrown away is one more counted.                       *)
LEMMA CountedInductive ==
    ASSUME Types, Order, Stored, Held, Counted, [Next]_vars
    PROVE  Counted'
<1> USE PersistentReceiverAssumption
<1>1. IsFiniteSet(Messages) /\ IsFiniteSet(Freed) /\ Freed \subseteq Messages
  <2>1. IsFiniteSet(Messages)
    BY FS_Interval DEF Messages
  <2>2. QED BY <2>1, FS_Subset DEF Freed
<1>2. CASE DrainQueueOne
  <2>1. /\ Head(buffer) \in Messages /\ fate[Head(buffer)] # "freed"
        /\ fate'[Head(buffer)] = "freed"
        /\ \A m \in Messages : m # Head(buffer) => fate'[m] = fate[m]
    BY <1>2, PlacesInductive
  <2>2. Freed' = Freed \cup {Head(buffer)} /\ Head(buffer) \notin Freed
    BY <2>1 DEF Freed
  <2>3. Cardinality(Freed') = Cardinality(Freed) + 1
    BY <1>1, <2>2, FS_AddElement
  <2>4. term'.count = term.count + 1 /\ UNCHANGED state
    BY <1>2, TermGoes DEF DrainQueueOne
  <2>5. IsEnding'
    BY <1>2, TerminateEffects DEF Terminate, TerminationStep
  <2>6. QED BY <2>3, <2>4, <2>5 DEF Counted
<1>3. CASE ~DrainQueueOne
  <2>1. \A m \in Messages : fate'[m] = "freed" <=> fate[m] = "freed"
    BY <1>3, PlacesInductive
  <2>2. Freed' = Freed
    BY <2>1 DEF Freed
  <2>3. CASE Terminate
    <3>1. \E p, q \in TermPCs : TermGoto(p, q)
      BY <1>3, <2>3 DEF Terminate, TerminateStopped, TerminateStop, TerminateDestroy,
         TerminateUnblock, TerminateClose, TerminateMark, TerminateEmpty, TerminateWait,
         TerminateNotify, TerminateJoin, DrainQueueDone, TerminateFinish, TermPCs
    <3>2. term'.count = term.count
      BY <3>1, TermGoes
    <3>3. IsEnding'
      BY <2>3, TerminateEffects DEF TerminationStep
    <3>4. QED BY <2>2, <3>2, <3>3 DEF Counted
  <2>4. CASE \E kind \in {"timed", "down"} : TerminateSwap(kind)
    <3>1. term'.count = 0 /\ ~IsEnding /\ IsEnding'
      BY <2>4 DEF TerminateSwap, IsEnding
    <3>2. QED BY <2>2, <3>1 DEF Counted
  <2>5. CASE UNCHANGED term /\ (IsEnding => IsEnding')
    BY <2>2, <2>5 DEF Counted
  <2>6. CASE Aside
    BY <2>5, <2>6, AsideKeeps DEF IsEnding
  <2>7. CASE StartFlow \/ StartOk \/ StartFail
    BY <2>5, <2>7 DEF StartFlow, StartOk, StartFail, IsEnding
  <2>8. CASE CallbackEnter \/ CallbackStep
    BY <2>5, <2>8 DEF CallbackEnter, CallbackStep, CallbackPush, CallbackHigh, CallbackStop,
         CallbackStore, CallbackRecheck, CallbackSwap, CallbackStart, IsEnding
  <2>9. CASE Loop \/ \E r \in Receivers : ReceiveEnter(r) \/ ReceiveStep(r)
    BY <2>5, <2>9, LoopConsumes, ReceiveConsumes DEF ConsumerStep, IsEnding
  <2>10. QED BY <2>3, <2>4, <2>6, <2>7, <2>8, <2>9 DEF Next, Aside
<1>4. QED BY <1>2, <1>3

(* A message is acknowledged only when the application has it and its      *)
(* handler did not panic; and when the termination is over nothing is left *)
(* in the buffer, and the count it reports is that of the messages it      *)
(* threw away, whoever took them from the buffer meanwhile.                *)
THEOREM OnlyDeliveredIsAcked == Spec => []AckedMeansDelivered
<1> DEFINE Inv == Types /\ Order /\ Stored /\ Held /\ Closing /\ Counted
<1>1. Init => Inv
  <2>1. SUFFICES ASSUME Init PROVE Inv
    OBVIOUS
  <2>2. Order
    BY <2>1 DEF Init, Order, IsEnding
  <2>3. Stored /\ Held
    BY <2>1 DEF Init, Stored, Held, Holding
  <2>4. Closing
    BY <2>1 DEF Init, Closing, IsDown
  <2>5. Freed = {}
    BY <2>1 DEF Init, Freed
  <2>6. Counted
    BY <2>1, <2>5, FS_EmptySet DEF Init, Counted
  <2>7. QED BY <2>1, <2>2, <2>3, <2>4, <2>6, TypesInit
<1>2. Inv /\ [Next]_vars => Inv'
  BY TypesInductive, OrderInductive, PlacesInductive, ClosingInductive, CountedInductive
<1>3. Inv => AckedMeansDelivered
  <2>1. SUFFICES ASSUME Inv PROVE AckedMeansDelivered
    OBVIOUS
  <2>2. \A m \in acked :
          fate[m] = "delivered" \/ (fate[m] = "returning" /\ \E r \in Receivers : rcv[r].msg = m)
    BY <2>1 DEF Held
  <2>3. term.count = Cardinality({m \in Messages : fate[m] = "freed"})
    BY <2>1 DEF Counted, Freed
  <2>4. term.pc = "done" => \A m \in Messages : fate[m] # "buffered"
    BY <2>1 DEF Closing, Stored
  <2>5. QED BY <2>2, <2>3, <2>4 DEF AckedMeansDelivered
<1>4. QED BY <1>1, <1>2, <1>3, PTL DEF Spec
=============================================================================
