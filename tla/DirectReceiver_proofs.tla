------------------------ MODULE DirectReceiver_proofs ------------------------
(***************************************************************************)
(* The safety properties of the direct receiver for any number of messages *)
(* and consumers and any capacity of the buffer.                           *)
(***************************************************************************)
EXTENDS DirectReceiver, FiniteSetTheorems, TLAPS

MsgRec == [id : Messages, discard : BOOLEAN]
CbPCs   == {"idle", "swap", "push", "pop", "store", "pushAgain", "pushLate"}
LoopPCs == {"off", "wait", "check", "select", "flag", "handle", "exiting", "exited"}
RcvPCs  == {"idle", "select", "flag", "deferred"}
OpenPCs == {"none", "unregister", "unblock", "close"}
TermPCs == OpenPCs \cup {"mark", "empty", "wait", "notify", "join", "joinEmpty", "drain",
                         "finish", "done"}
Fates   == {"wire", "callback", "unrouted", "returned", "buffered", "consumed", "delivered",
            "dropped", "reported", "freed"}
Metrics == [backpressure : Nat, termination : Nat]
Rcvs    == [pc : RcvPCs, msg : MsgRec \cup {NoMsg}, calls : Nat, forever : BOOLEAN]

(* Every variable has its type, and whoever holds a message holds one.     *)
Types ==
    /\ strategy \in {"dropLatest", "dropOldest"}
    /\ state \in {"NotStarted", "Starting", "Started", "Terminating", "Terminated"}
    /\ registered \in BOOLEAN /\ bufferClosed \in BOOLEAN /\ emptyFlag \in BOOLEAN
    /\ isDiscard \in BOOLEAN /\ panicked \in BOOLEAN
    /\ buffer \in Seq(MsgRec)
    /\ cb \in [pc : CbPCs, msg : MsgRec \cup {NoMsg}]
    /\ loop \in [pc : LoopPCs, msg : MsgRec \cup {NoMsg}]
    /\ rcv \in [Receivers -> Rcvs]
    /\ term \in [pc : TermPCs, kind : {"none", "timed", "negative", "down"}, count : Nat]
    /\ next \in Nat /\ fate \in [Messages -> Fates]
    /\ marked \subseteq Messages
    /\ metric \in Metrics
    /\ cb.pc # "idle" => cb.msg \in MsgRec
    /\ loop.pc = "flag" => loop.msg \in MsgRec
    /\ \A r \in Receivers : rcv[r].pc = "flag" => rcv[r].msg \in MsgRec

(* Who may close which channel, and when.                                  *)
Channels ==
    /\ ~panicked
    /\ "empty" \in closed <=> emptyFlag
    /\ "complete" \in closed <=> loop.pc = "exited"
    /\ "buffer" \in closed <=> term.pc \notin OpenPCs
    /\ "notification" \in closed => term.pc \in {"join", "drain", "finish", "done"}
    /\ bufferClosed => "buffer" \in closed
    /\ "empty" \in closed => "buffer" \in closed /\ buffer = << >>
    /\ state \in {"NotStarted", "Starting", "Started"} => term.pc = "none"
    /\ state \in {"NotStarted", "Starting"} => loop.pc = "off"
    /\ registered => term.pc \in {"none", "unregister"}
    /\ cb.pc # "idle" => registered

(* The first message of the buffer is one, and what is left are.           *)
LEMMA BufferHead ==
    ASSUME Types, buffer # << >>
    PROVE  /\ Head(buffer) \in MsgRec /\ Head(buffer) = buffer[1] /\ Tail(buffer) \in Seq(MsgRec)
           /\ Len(buffer) \in Nat \ {0} /\ Len(Tail(buffer)) = Len(buffer) - 1
           /\ \A i \in 1..Len(buffer) - 1 : Tail(buffer)[i] = buffer[i+1]
BY DEF Types

(* And so is every other one.                                              *)
LEMMA BufferElements ==
    ASSUME Types, NEW i \in 1 .. Len(buffer)
    PROVE  buffer[i] \in MsgRec /\ buffer[i].id \in Messages /\ buffer[i].discard \in BOOLEAN
<1>1. buffer[i] \in MsgRec
  BY DEF Types
<1>2. QED BY <1>1 DEF MsgRec

(* Counting keeps the counters.                                            *)
LEMMA MetricTypes ==
    ASSUME NEW x \in Metrics, NEW n \in Nat
    PROVE  /\ [x EXCEPT !.backpressure = @ + n] \in Metrics
           /\ [x EXCEPT !.termination = @ + n] \in Metrics
           /\ [x EXCEPT !.backpressure = @ + n].backpressure = x.backpressure + n
           /\ [x EXCEPT !.backpressure = @ + n].termination = x.termination
           /\ [x EXCEPT !.termination = @ + n].termination = x.termination + n
           /\ [x EXCEPT !.termination = @ + n].backpressure = x.backpressure
BY DEF Metrics

(* A channel that is open is closed without a panic.                       *)
LEMMA CloseOnce ==
    ASSUME Types, Channels, NEW c, c \notin closed, Close(c)
    PROVE  closed' = closed \cup {c} /\ panicked' = FALSE
<1>1. closed' = closed \cup {c} /\ panicked' = (panicked \/ c \in closed)
  BY DEF Close
<1>2. ~panicked
  BY DEF Channels
<1>3. (panicked \/ c \in closed) = FALSE
  BY <1>2
<1>4. QED BY <1>1, <1>3

(* What giving the signal does: nothing, or the first of them closes it    *)
(* when the closed buffer is empty.                                        *)
Signalled ==
    /\ panicked' = FALSE
    /\ \/ UNCHANGED <<closed, emptyFlag>>
       \/ /\ closed' = closed \cup {"empty"} /\ emptyFlag' = TRUE
          /\ buffer = << >> /\ "buffer" \in closed

(* The flags keep their type.                                              *)
LEMMA SignalledTypes ==
    ASSUME Types, Signalled PROVE panicked' \in BOOLEAN /\ emptyFlag' \in BOOLEAN
<1>1. emptyFlag \in BOOLEAN
  BY DEF Types
<1>2. CASE UNCHANGED <<closed, emptyFlag>>
  BY <1>1, <1>2 DEF Signalled
<1>3. CASE emptyFlag' = TRUE
  BY <1>3 DEF Signalled
<1>4. QED BY <1>2, <1>3 DEF Signalled

(* bufferEmptyOnTerminate is closed by whoever swaps the flag.             *)
LEMMA SignalOnce ==
    ASSUME Types, Channels,
           \/ SignalEmpty /\ buffer = << >> /\ "buffer" \in closed
           \/ CheckEmptyAndNotify
    PROVE  Signalled
<1>1. /\ panicked = FALSE /\ emptyFlag \in BOOLEAN /\ ("empty" \in closed <=> emptyFlag)
      /\ bufferClosed => "buffer" \in closed
  BY DEF Types, Channels
<1>2. CASE SignalEmpty /\ buffer = << >> /\ "buffer" \in closed
  <2>1. CASE emptyFlag
    BY <1>1, <1>2, <2>1 DEF Signalled, SignalEmpty, KeepChannels
  <2>2. CASE ~emptyFlag
    BY <1>1, <1>2, <2>2, CloseOnce DEF Signalled, SignalEmpty
  <2>3. QED BY <2>1, <2>2
<1>3. CASE CheckEmptyAndNotify
  <2>1. CASE bufferClosed /\ buffer = << >>
    BY <1>1, <1>2, <1>3, <2>1 DEF CheckEmptyAndNotify
  <2>2. CASE ~(bufferClosed /\ buffer = << >>)
    BY <1>1, <1>3, <2>2 DEF CheckEmptyAndNotify, KeepChannels, Signalled
  <2>3. QED BY <2>1, <2>2
<1>4. QED BY <1>2, <1>3

(* The steps of Start.                                                     *)
LEMMA StartTypes ==
    ASSUME Types, Channels, StartRegister \/ StartOk \/ StartFail \/ UNCHANGED vars
    PROVE  Types' /\ Channels'
<1>1. /\ state' \in {"NotStarted", "Starting", "Started", "Terminating", "Terminated"}
      /\ registered' \in BOOLEAN
      /\ loop' \in [pc : LoopPCs, msg : MsgRec \cup {NoMsg}]
      /\ loop'.pc = "wait" \/ UNCHANGED loop
      /\ UNCHANGED <<strategy, buffer, closed, panicked, bufferClosed, emptyFlag, isDiscard, cb, rcv,
                     term, next, fate, marked, metric>>
  BY DEF StartRegister, StartOk, StartFail, vars, chans, flagVars, appVars, cbVars, obs,
         Types, LoopPCs
<1>2. Types'
  BY <1>1 DEF Types
<1>3. Channels'
  BY <1>1 DEF StartRegister, StartOk, StartFail, vars, Types, Channels, LoopPCs
<1>4. QED BY <1>2, <1>3

(* Indicate gives the message a fate and takes the indication.             *)
LEMMA IndicateTypes ==
    ASSUME Types, NEW msg \in MsgRec, Indicate(msg)
    PROVE  /\ isDiscard' \in BOOLEAN /\ marked' \subseteq Messages
           /\ fate' \in [Messages -> Fates]
BY DEF Types, Indicate, MsgRec, Fates

(* The steps of messageCallback: while one runs the buffer is open.        *)
LEMMA CallbackTypes ==
    ASSUME Types, Channels, Callback
    PROVE  Types' /\ Channels'
<1> USE DirectReceiverAssumption
<1>1. cb.pc # "idle" => "buffer" \notin closed /\ cb.msg \in MsgRec /\ cb.msg.id \in Messages
  BY DEF Types, Channels, OpenPCs, MsgRec
<1>2. ASSUME NEW n \in {0, 1}, cb.pc # "idle", SendToBuffer(n)
      PROVE  /\ buffer' \in Seq(MsgRec) /\ fate' \in [Messages -> Fates] /\ UNCHANGED panicked
             /\ metric' \in Metrics
  <2>1. metric \in Metrics /\ buffer \in Seq(MsgRec) /\ fate \in [Messages -> Fates]
    BY DEF Types
  <2>2. metric' \in Metrics
    <3>1. metric' = [metric EXCEPT !.backpressure = @ + n]
      BY <1>1, <1>2 DEF SendToBuffer
    <3>2. n \in Nat
      OBVIOUS
    <3>3. QED BY <2>1, <3>1, <3>2, MetricTypes
  <2>3. QED BY <1>1, <1>2, <2>1, <2>2 DEF SendToBuffer, Fates
<1>3. CASE CallbackEnter
  <2>1. /\ next \in Messages /\ fate' \in [Messages -> Fates] /\ next' = next + 1
        /\ metric' \in Metrics
        /\ UNCHANGED <<strategy, state, registered, buffer, closed, panicked, bufferClosed,
                       emptyFlag, isDiscard, loop, rcv, term, marked>>
    <3>1. metric' \in Metrics
      <4>1. metric' = [metric EXCEPT !.termination = @ + 1] \/ metric' = metric
        BY <1>3 DEF CallbackEnter
      <4>2. metric \in Metrics BY DEF Types
      <4>3. QED BY <4>1, <4>2, MetricTypes
    <3>2. QED BY <1>3, <3>1 DEF CallbackEnter, Deliver, base, chans, flagVars, Types, Fates
  <2>2. cb' = cb \/ \E p \in {"swap", "push"} : cb' = [pc |-> p, msg |-> [id |-> next, discard |-> FALSE]]
    BY <1>3 DEF CallbackEnter
  <2>3. cb' \in [pc : CbPCs, msg : MsgRec \cup {NoMsg}] /\ (cb'.pc # "idle" => cb'.msg \in MsgRec)
    <3>1. CASE cb' = cb
      BY <1>3, <3>1 DEF Types, CallbackEnter
    <3>2. [id |-> next, discard |-> FALSE] \in MsgRec
      BY <2>1 DEF MsgRec
    <3>3. ASSUME NEW p \in {"swap", "push"},
                 cb' = [pc |-> p, msg |-> [id |-> next, discard |-> FALSE]]
          PROVE  cb' \in [pc : CbPCs, msg : MsgRec \cup {NoMsg}] /\ cb'.msg \in MsgRec
      BY <3>2, <3>3 DEF CbPCs
    <3>4. QED BY <2>2, <3>1, <3>3
  <2>4. Types'
    BY <2>1, <2>3 DEF Types
  <2>5. Channels'
    BY <1>3, <2>1 DEF Channels, CallbackEnter
  <2>6. QED BY <2>4, <2>5
<1>4. CASE CallbackUnrouted
  BY <1>4 DEF CallbackUnrouted, Deliver, base, chans, flagVars, appVars, Types, Channels, Fates
<1>5. ASSUME NEW p \in CbPCs, cb' = [cb EXCEPT !.pc = p], cb.pc # "idle"
      PROVE  /\ cb' \in [pc : CbPCs, msg : MsgRec \cup {NoMsg}]
             /\ cb'.pc # "idle" => cb'.msg \in MsgRec
  BY <1>5 DEF Types
<1>6. ASSUME CallbackReturn
      PROVE  /\ cb' \in [pc : CbPCs, msg : MsgRec \cup {NoMsg}] /\ cb'.pc = "idle"
  BY <1>6 DEF Types, CallbackReturn, CbPCs
<1>7. CASE CallbackSwap
  <2>1. /\ cb' \in [pc : CbPCs, msg : MsgRec \cup {NoMsg}] /\ cb'.msg \in MsgRec
        /\ isDiscard' = FALSE
        /\ UNCHANGED <<strategy, state, registered, buffer, closed, panicked, bufferClosed,
                       emptyFlag, loop, rcv, term, next, fate, marked, metric>>
    BY <1>1, <1>7 DEF CallbackSwap, base, chans, flagVars, obs, Types, CbPCs, MsgRec
  <2>2. Types' BY <2>1 DEF Types
  <2>3. Channels' BY <1>7, <2>1 DEF Channels, CallbackSwap
  <2>4. QED BY <2>2, <2>3
<1>8. ASSUME NEW n \in {0, 1}, cb.pc # "idle", SendToBuffer(n), CallbackReturn,
             UNCHANGED <<base, closed, flagVars, isDiscard, loop, rcv, term, next, marked>>
      PROVE  Types' /\ Channels'
  <2>1. Types' BY <1>2, <1>6, <1>8 DEF Types, base, flagVars
  <2>2. Channels' BY <1>1, <1>2, <1>6, <1>8 DEF Channels, base, flagVars
  <2>3. QED BY <2>1, <2>2
<1>9. CASE CallbackPush
  BY <1>8, <1>9 DEF CallbackPush
<1>10. CASE CallbackPushAgain
  BY <1>8, <1>10 DEF CallbackPushAgain
<1>11. CASE CallbackDropLatest
  <2>1. /\ isDiscard' = TRUE /\ fate' \in [Messages -> Fates] /\ CallbackReturn
        /\ metric' \in Metrics
        /\ UNCHANGED <<strategy, state, registered, buffer, closed, panicked, bufferClosed,
                       emptyFlag, loop, rcv, term, next, marked>>
    <3>1. metric' \in Metrics
      BY <1>11, MetricTypes DEF CallbackDropLatest, DropLatest, Types
    <3>2. QED
      BY <1>1, <1>11, <3>1 DEF CallbackDropLatest, DropLatest, base, chans, flagVars, Types, Fates
  <2>2. Types' BY <1>6, <2>1 DEF Types
  <2>3. Channels' BY <1>6, <2>1 DEF Channels
  <2>4. QED BY <2>2, <2>3
<1>12. CASE CallbackFull \/ CallbackStore
  <2>1. /\ isDiscard' \in BOOLEAN /\ cb.pc # "idle"
        /\ \E p \in CbPCs : cb' = [cb EXCEPT !.pc = p]
        /\ UNCHANGED <<strategy, state, registered, buffer, closed, panicked, bufferClosed,
                       emptyFlag, loop, rcv, term, next, fate, marked, metric>>
    BY <1>12 DEF CallbackFull, CallbackStore, base, chans, flagVars, obs, CbPCs, Types
  <2>2. Types' BY <1>5, <2>1 DEF Types
  <2>3. Channels' BY <2>1 DEF Channels
  <2>4. QED BY <2>2, <2>3
<1>13. CASE CallbackPop
  <2>1. /\ fate' \in [Messages -> Fates] /\ buffer' \in Seq(MsgRec)
        /\ buffer = << >> => buffer' = << >>
    BY <1>13, BufferHead DEF CallbackPop, Types, Fates
  <2>2. /\ cb.pc # "idle" /\ \E p \in CbPCs : cb' = [cb EXCEPT !.pc = p]
        /\ UNCHANGED <<strategy, state, registered, closed, panicked, bufferClosed,
                       emptyFlag, isDiscard, loop, rcv, term, next, marked, metric>>
    BY <1>13 DEF CallbackPop, base, chans, flagVars, CbPCs
  <2>3. Types' BY <1>5, <2>1, <2>2 DEF Types
  <2>4. Channels' BY <2>1, <2>2 DEF Channels
  <2>5. QED BY <2>3, <2>4
<1>14. QED
  BY <1>3, <1>4, <1>7, <1>9, <1>10, <1>11, <1>12, <1>13 DEF Callback

(* The steps of ReceiveMessage.                                            *)
LEMMA ReceiveTypes ==
    ASSUME Types, Channels, NEW r \in Receivers, Receive(r)
    PROVE  Types' /\ Channels'
<1> USE DirectReceiverAssumption
<1>1. rcv[r] \in Rcvs /\ rcv \in [Receivers -> Rcvs]
  BY DEF Types
<1>2. ASSUME NEW f \in Rcvs, Rcv(r, f), f.pc = "flag" => f.msg \in MsgRec
      PROVE  /\ rcv' \in [Receivers -> Rcvs]
             /\ \A q \in Receivers : rcv'[q].pc = "flag" => rcv'[q].msg \in MsgRec
  BY <1>1, <1>2 DEF Rcv, Types
<1>3. CASE ReceiveEnter(r)
  <2>1. PICK forever \in BOOLEAN :
           Rcv(r, [pc |-> "select", msg |-> NoMsg, calls |-> rcv[r].calls + 1, forever |-> forever])
    BY <1>3 DEF ReceiveEnter
  <2>2. [pc |-> "select", msg |-> NoMsg, calls |-> rcv[r].calls + 1, forever |-> forever] \in Rcvs
    BY <1>1 DEF Rcvs, RcvPCs
  <2>3. UNCHANGED <<strategy, state, registered, buffer, closed, panicked, bufferClosed,
                       emptyFlag, isDiscard, cb, loop, term, next, fate, marked, metric>>
    BY <1>3 DEF ReceiveEnter, base, chans, flagVars, cbVars, obs
  <2>4. Types' BY <1>2, <2>1, <2>2, <2>3 DEF Types
  <2>5. Channels' BY <2>3 DEF Channels
  <2>6. QED BY <2>4, <2>5
<1>4. CASE ReceiveTake(r)
  <2>1. [rcv[r] EXCEPT !.pc = "flag", !.msg = Head(buffer)] \in Rcvs
    BY <1>1, <1>4, BufferHead DEF ReceiveTake, Rcvs, RcvPCs
  <2>2. /\ fate' \in [Messages -> Fates] /\ buffer' \in Seq(MsgRec) /\ buffer # << >>
        /\ Rcv(r, [rcv[r] EXCEPT !.pc = "flag", !.msg = Head(buffer)]) /\ Head(buffer) \in MsgRec
        /\ UNCHANGED <<strategy, state, registered, closed, panicked, bufferClosed,
                       emptyFlag, isDiscard, cb, loop, term, next, marked, metric>>
    BY <1>4, BufferHead DEF ReceiveTake, base, chans, flagVars, cbVars, Types, Fates
  <2>3. [rcv[r] EXCEPT !.pc = "flag", !.msg = Head(buffer)].msg = Head(buffer)
    BY <1>1 DEF Rcvs
  <2>4. /\ rcv' \in [Receivers -> Rcvs]
        /\ \A q \in Receivers : rcv'[q].pc = "flag" => rcv'[q].msg \in MsgRec
    BY <1>2, <2>1, <2>2, <2>3
  <2>5. Types' BY <2>2, <2>4 DEF Types
  <2>6. Channels' BY <2>2 DEF Channels
  <2>7. QED BY <2>5, <2>6
<1>5. CASE ReceiveNothing(r)
  <2>1. [rcv[r] EXCEPT !.pc = "deferred"] \in Rcvs /\ [rcv[r] EXCEPT !.pc = "deferred"].pc # "flag"
    BY <1>1 DEF Rcvs, RcvPCs
  <2>2. /\ Rcv(r, [rcv[r] EXCEPT !.pc = "deferred"])
        /\ UNCHANGED <<strategy, state, registered, buffer, closed, panicked, bufferClosed,
                       emptyFlag, isDiscard, cb, loop, term, next, fate, marked, metric>>
    BY <1>5 DEF ReceiveNothing, base, chans, flagVars, cbVars, obs
  <2>3. /\ rcv' \in [Receivers -> Rcvs]
        /\ \A q \in Receivers : rcv'[q].pc = "flag" => rcv'[q].msg \in MsgRec
    BY <1>2, <2>1, <2>2
  <2>4. Types' BY <2>2, <2>3 DEF Types
  <2>5. Channels' BY <2>2 DEF Channels
  <2>6. QED BY <2>4, <2>5
<1>6. CASE ReceiveFlag(r)
  <2>1. LET f == [rcv[r] EXCEPT !.pc = "deferred", !.msg = NoMsg] IN f \in Rcvs /\ f.pc # "flag"
    BY <1>1 DEF Rcvs, RcvPCs
  <2>2. /\ Rcv(r, [rcv[r] EXCEPT !.pc = "deferred", !.msg = NoMsg])
        /\ rcv[r].msg \in MsgRec /\ Indicate(rcv[r].msg)
        /\ UNCHANGED <<strategy, state, registered, buffer, closed, panicked, bufferClosed,
                       emptyFlag, cb, loop, term, next, metric>>
    BY <1>6 DEF ReceiveFlag, base, chans, flagVars, cbVars, Types
  <2>3. /\ rcv' \in [Receivers -> Rcvs]
        /\ \A q \in Receivers : rcv'[q].pc = "flag" => rcv'[q].msg \in MsgRec
    BY <1>2, <2>1, <2>2
  <2>4. Types' BY <2>2, <2>3, IndicateTypes DEF Types
  <2>5. Channels' BY <2>2 DEF Channels
  <2>6. QED BY <2>4, <2>5
<1>7. CASE ReceiveReturn(r)
  <2>1. [rcv[r] EXCEPT !.pc = "idle"] \in Rcvs /\ [rcv[r] EXCEPT !.pc = "idle"].pc # "flag"
    BY <1>1 DEF Rcvs, RcvPCs
  <2>2. /\ Rcv(r, [rcv[r] EXCEPT !.pc = "idle"]) /\ CheckEmptyAndNotify
        /\ UNCHANGED <<strategy, state, registered, buffer, bufferClosed,
                       isDiscard, cb, loop, term, next, fate, marked, metric>>
    BY <1>7 DEF ReceiveReturn, base, chans, flagVars, cbVars, obs
  <2>3. /\ rcv' \in [Receivers -> Rcvs]
        /\ \A q \in Receivers : rcv'[q].pc = "flag" => rcv'[q].msg \in MsgRec
    BY <1>2, <2>1, <2>2
  <2>4. Signalled
    BY <2>2, SignalOnce
  <2>5. Types' BY <2>2, <2>3, <2>4, SignalledTypes DEF Types
  <2>6. Channels' BY <2>2, <2>4 DEF Channels, Signalled
  <2>7. QED BY <2>5, <2>6
<1>8. QED BY <1>3, <1>4, <1>5, <1>6, <1>7 DEF Receive

(* The steps of run.                                                       *)
LEMMA LoopTypes ==
    ASSUME Types, Channels, Loop
    PROVE  Types' /\ Channels'
<1> USE DirectReceiverAssumption
<1> DEFINE LoopRec == [pc : LoopPCs, msg : MsgRec \cup {NoMsg}]
<1>1. loop \in LoopRec
  BY DEF Types
<1>2. ASSUME NEW p \in LoopPCs \ {"flag"}, loop' = [loop EXCEPT !.pc = p]
      PROVE  loop' \in LoopRec /\ loop'.pc = p
  BY <1>1, <1>2
<1>3. CASE LoopWait \/ LoopCheck \/ LoopClose
  <2>1. UNCHANGED <<strategy, state, registered, buffer, bufferClosed, emptyFlag, isDiscard, cb,
                    rcv, term, next, fate, marked, metric>>
    BY <1>3 DEF LoopWait, LoopCheck, LoopClose, base, flagVars, cbVars, obs
  <2>2. /\ loop.pc \in {"wait", "check", "exiting"}
        /\ \/ /\ \E p \in {"check", "select"} : loop' = [loop EXCEPT !.pc = p]
              /\ UNCHANGED <<closed, panicked>>
           \/ loop' = [loop EXCEPT !.pc = "exited"] /\ Close("complete")
    BY <1>3 DEF LoopWait, LoopCheck, LoopClose, LoopExit, KeepChannels
  <2>3. \/ /\ loop' \in LoopRec /\ loop'.pc \in {"check", "select"}
           /\ UNCHANGED <<closed, panicked>>
        \/ /\ loop' \in LoopRec /\ loop'.pc = "exited" /\ closed' = closed \cup {"complete"}
           /\ panicked' = FALSE
    <3>1. "complete" \notin closed
      BY <2>2 DEF Channels
    <3>2. QED BY <1>2, <2>2, <3>1, CloseOnce DEF LoopPCs
  <2>4. Types'
    <3>1. panicked' \in BOOLEAN /\ loop' \in LoopRec /\ loop'.pc # "flag"
      <4>1. panicked \in BOOLEAN BY DEF Types
      <4>2. CASE UNCHANGED panicked BY <2>3, <4>1, <4>2
      <4>3. CASE panicked' = FALSE BY <2>3, <4>3
      <4>4. QED BY <2>3, <4>2, <4>3
    <3>2. QED BY <2>1, <3>1 DEF Types
  <2>5. Channels' BY <2>1, <2>2, <2>3 DEF Channels
  <2>6. QED BY <2>4, <2>5
<1>4. CASE LoopTake
  <2>1. /\ fate' \in [Messages -> Fates] /\ buffer' \in Seq(MsgRec) /\ buffer # << >>
        /\ loop' \in LoopRec /\ loop'.msg \in MsgRec /\ loop'.pc = "flag" /\ loop.pc = "select"
        /\ UNCHANGED <<strategy, state, registered, closed, panicked, bufferClosed,
                       emptyFlag, isDiscard, cb, rcv, term, next, marked, metric>>
    BY <1>4, BufferHead DEF LoopTake, base, chans, flagVars, cbVars, Types, Fates, LoopPCs
  <2>2. Types' BY <2>1 DEF Types
  <2>3. Channels' BY <2>1 DEF Channels
  <2>4. QED BY <2>2, <2>3
<1>5. CASE LoopDrained \/ LoopNotified
  <2>1. /\ UNCHANGED <<strategy, state, registered, buffer, bufferClosed, isDiscard, cb,
                       rcv, term, next, fate, marked, metric>>
        /\ \/ UNCHANGED <<closed, panicked, emptyFlag>>
           \/ Signalled
        /\ loop.pc = "select" /\ loop' = [loop EXCEPT !.pc = "exiting"]
    BY <1>5, SignalOnce DEF LoopDrained, LoopNotified, base, chans, flagVars, cbVars, obs
  <2>2. loop' \in LoopRec /\ loop'.pc = "exiting"
    BY <1>2, <2>1 DEF LoopPCs
  <2>3. Types'
    <3>1. panicked' \in BOOLEAN /\ emptyFlag' \in BOOLEAN
      <4>1. panicked \in BOOLEAN /\ emptyFlag \in BOOLEAN BY DEF Types
      <4>2. CASE UNCHANGED <<closed, panicked, emptyFlag>> BY <4>1, <4>2
      <4>3. QED BY <2>1, <4>2, SignalledTypes
    <3>2. QED BY <2>1, <2>2, <3>1 DEF Types
  <2>4. Channels' BY <2>1, <2>2 DEF Channels, Signalled
  <2>5. QED BY <2>3, <2>4
<1>6. CASE LoopFlag
  <2>1. /\ loop.msg \in MsgRec /\ Indicate(loop.msg) /\ loop.pc = "flag"
        /\ loop' = [pc |-> "handle", msg |-> NoMsg]
        /\ UNCHANGED <<strategy, state, registered, buffer, closed, panicked, bufferClosed,
                       emptyFlag, cb, rcv, term, next, metric>>
    BY <1>6 DEF LoopFlag, base, chans, flagVars, cbVars, Types
  <2>2. loop' \in LoopRec /\ loop'.pc = "handle"
    BY <2>1 DEF LoopPCs
  <2>3. Types' BY <2>1, <2>2, IndicateTypes DEF Types
  <2>4. Channels' BY <2>1, <2>2 DEF Channels
  <2>5. QED BY <2>3, <2>4
<1>7. CASE LoopHandled
  <2>1. /\ loop.pc = "handle" /\ loop' = [loop EXCEPT !.pc = "check"]
        /\ UNCHANGED <<strategy, state, registered, buffer, closed, panicked, bufferClosed,
                       emptyFlag, isDiscard, cb, rcv, term, next, fate, marked, metric>>
    BY <1>7 DEF LoopHandled, base, chans, flagVars, cbVars, obs
  <2>2. loop' \in LoopRec /\ loop'.pc = "check"
    BY <1>2, <2>1 DEF LoopPCs
  <2>3. Types' BY <2>1, <2>2 DEF Types
  <2>4. Channels' BY <2>1, <2>2 DEF Channels
  <2>5. QED BY <2>3, <2>4
<1>8. QED BY <1>3, <1>4, <1>5, <1>6, <1>7 DEF Loop

(* The steps of Terminate and of ReceiveAsync.  Only the drain changes     *)
(* the buffer, and the buffer is closed when nobody can send any more.     *)
LEMMA TerminateTypes ==
    ASSUME Types, Channels,
           \/ Terminate \/ \E kind \in {"timed", "negative", "down"} : TerminateSwap(kind)
           \/ AsyncSwap \/ AsyncSignal
    PROVE  Types' /\ Channels'
<1> USE DirectReceiverAssumption
<1> DEFINE TermRec == [pc : TermPCs, kind : {"none", "timed", "negative", "down"}, count : Nat]
<1>1. term \in TermRec
  BY DEF Types
<1>2. ASSUME NEW p \in TermPCs, NEW q, TermGoto(q, p)
      PROVE  /\ term' \in TermRec /\ term.pc = q /\ term'.pc = p /\ term'.count = term.count
             /\ term'.kind = term.kind
  BY <1>1, <1>2 DEF TermGoto
<1>3. CASE AsyncSwap \/ AsyncSignal
  <2>1. UNCHANGED <<strategy, state, registered, buffer, closed, panicked, bufferClosed,
                    emptyFlag, isDiscard, cb, loop, rcv, term, next, fate, marked, metric>>
    BY <1>3 DEF AsyncSwap, AsyncSignal, base, chans, flagVars, cbVars, obs
  <2>2. Types' BY <2>1 DEF Types
  <2>3. Channels' BY <2>1 DEF Channels
  <2>4. QED BY <2>2, <2>3
<1>4. ASSUME NEW kind \in {"timed", "negative", "down"}, TerminateSwap(kind)
      PROVE  Types' /\ Channels'
  <2>1. /\ state = "Started" /\ state' = "Terminating"
        /\ UNCHANGED <<strategy, registered, buffer, closed, panicked, bufferClosed,
                       emptyFlag, isDiscard, cb, loop, rcv, next, fate, marked, metric>>
    BY <1>4 DEF TerminateSwap, chans, flagVars, cbVars, obs
  <2>2. term' \in TermRec /\ term'.pc = "unregister"
    BY <1>4 DEF TerminateSwap, TermPCs, OpenPCs
  <2>3. Types' BY <2>1, <2>2 DEF Types
  <2>4. Channels' BY <2>1, <2>2 DEF Channels, OpenPCs
  <2>5. QED BY <2>3, <2>4
<1>5. CASE TerminateUnregister \/ TerminateUnblock \/ TerminateTimeout \/ TerminateDelivered
           \/ TerminateJoin \/ TerminateFinish
  <2>1. /\ UNCHANGED <<strategy, buffer, closed, panicked, bufferClosed, emptyFlag, isDiscard, cb,
                       loop, rcv, next, fate, marked, metric>>
        /\ state' \in {state, "Terminated"} /\ (UNCHANGED registered \/ registered' = FALSE)
    BY <1>5 DEF TerminateUnregister, TerminateUnblock, TerminateTimeout, TerminateDelivered,
                TerminateJoin, TerminateFinish, base, chans, flagVars, cbVars, obs
  <2>2. \E move \in {<<"unregister", "unblock">>, <<"unblock", "close">>, <<"wait", "notify">>,
                     <<"wait", "joinEmpty">>, <<"join", "drain">>, <<"joinEmpty", "finish">>,
                     <<"finish", "done">>} : TermGoto(move[1], move[2])
    BY <1>5 DEF TerminateUnregister, TerminateUnblock, TerminateTimeout, TerminateDelivered,
                TerminateJoin, TerminateFinish
  <2>3. \E move \in {<<"unregister", "unblock">>, <<"unblock", "close">>, <<"wait", "notify">>,
                     <<"wait", "joinEmpty">>, <<"join", "drain">>, <<"joinEmpty", "finish">>,
                     <<"finish", "done">>} :
             term' \in TermRec /\ term.pc = move[1] /\ term'.pc = move[2]
    BY <1>2, <2>2 DEF TermPCs, OpenPCs
  <2>4. Types'
    <3>1. registered' \in BOOLEAN
      BY <2>1 DEF Types
    <3>2. QED BY <2>1, <2>3, <3>1 DEF Types
  <2>5. term.pc = "unregister" => registered' = FALSE /\ cb.pc = "idle"
    BY <1>5, <2>3 DEF TerminateUnregister, TerminateUnblock, TerminateTimeout, TerminateDelivered,
                TerminateJoin, TerminateFinish, TermGoto, CallbackIdle
  <2>6. Channels' BY <2>1, <2>3, <2>5 DEF Channels, OpenPCs
  <2>7. QED BY <2>4, <2>6
<1>6. CASE TerminateClose \/ TerminateMark
  <2>1. /\ UNCHANGED <<strategy, state, registered, buffer, emptyFlag, isDiscard, cb,
                       loop, rcv, next, fate, marked, metric>>
        /\ \/ TermGoto("close", "mark") /\ Close("buffer") /\ UNCHANGED bufferClosed
           \/ /\ \E p \in {"notify", "empty"} : TermGoto("mark", p)
              /\ bufferClosed' = TRUE /\ UNCHANGED <<closed, panicked>>
    BY <1>6 DEF TerminateClose, TerminateMark, base, chans, flagVars, cbVars, obs
  <2>2. /\ term' \in TermRec
        /\ \/ /\ term.pc = "close" /\ term'.pc = "mark" /\ closed' = closed \cup {"buffer"}
              /\ panicked' = FALSE /\ UNCHANGED bufferClosed
           \/ /\ term.pc = "mark" /\ term'.pc \in {"notify", "empty"}
              /\ bufferClosed' = TRUE /\ UNCHANGED <<closed, panicked>>
    <3>1. term.pc = "close" => "buffer" \notin closed
      BY DEF Channels, OpenPCs
    <3>2. QED BY <1>2, <2>1, <3>1, CloseOnce DEF TermPCs, OpenPCs
  <2>3. Types' BY <2>1, <2>2 DEF Types
  <2>4. Channels' BY <2>1, <2>2 DEF Channels, OpenPCs
  <2>5. QED BY <2>3, <2>4
<1>7. CASE TerminateEmpty
  <2>1. /\ UNCHANGED <<strategy, state, registered, buffer, bufferClosed, isDiscard, cb,
                       loop, rcv, next, fate, marked, metric>>
        /\ TermGoto("empty", "wait") /\ CheckEmptyAndNotify
    BY <1>7 DEF TerminateEmpty, base, chans, flagVars, cbVars, obs
  <2>2. term' \in TermRec /\ term.pc = "empty" /\ term'.pc = "wait"
    BY <1>2, <2>1 DEF TermPCs, OpenPCs
  <2>3. Signalled BY <2>1, SignalOnce
  <2>4. Types' BY <2>1, <2>2, <2>3 DEF Types, Signalled
  <2>5. Channels' BY <2>1, <2>2, <2>3 DEF Channels, Signalled, OpenPCs
  <2>6. QED BY <2>4, <2>5
<1>8. CASE TerminateNotify
  <2>1. /\ UNCHANGED <<strategy, state, registered, buffer, bufferClosed, emptyFlag, isDiscard, cb,
                       loop, rcv, next, fate, marked, metric>>
        /\ Close("notification") /\ \E p \in {"drain", "join"} : TermGoto("notify", p)
    BY <1>8 DEF TerminateNotify, base, flagVars, cbVars, obs
  <2>2. term' \in TermRec /\ term.pc = "notify" /\ term'.pc \in {"drain", "join"}
    BY <1>2, <2>1 DEF TermPCs, OpenPCs
  <2>3. closed' = closed \cup {"notification"} /\ panicked' = FALSE
    <3>1. "notification" \notin closed
      BY <2>2 DEF Channels
    <3>2. QED BY <2>1, <3>1, CloseOnce
  <2>4. Types' BY <2>1, <2>2, <2>3 DEF Types
  <2>5. Channels' BY <2>1, <2>2, <2>3 DEF Channels, OpenPCs
  <2>6. QED BY <2>4, <2>5
<1>9. CASE DrainQueueOne
  <2>1. /\ UNCHANGED <<strategy, state, registered, closed, panicked, bufferClosed, emptyFlag,
                       isDiscard, cb, loop, rcv, next, marked, metric>>
        /\ buffer # << >> /\ buffer' \in Seq(MsgRec) /\ fate' \in [Messages -> Fates]
        /\ term' = [term EXCEPT !.count = @ + 1]
    BY <1>9, BufferHead DEF DrainQueueOne, base, chans, flagVars, cbVars, Types, Fates
  <2>2. term' \in TermRec /\ term'.pc = term.pc
    BY <1>1, <2>1
  <2>3. Types' BY <2>1, <2>2 DEF Types
  <2>4. Channels' BY <2>1, <2>2 DEF Channels
  <2>5. QED BY <2>3, <2>4
<1>10. CASE DrainQueueDone
  <2>1. /\ UNCHANGED <<strategy, state, registered, buffer, bufferClosed, isDiscard, cb,
                       loop, rcv, next, fate, marked>>
        /\ TermGoto("drain", "finish") /\ SignalEmpty /\ buffer = << >>
        /\ metric' = [metric EXCEPT !.termination = @ + term.count]
    BY <1>10 DEF DrainQueueDone, base, chans, flagVars, cbVars, obs
  <2>2. term' \in TermRec /\ term.pc = "drain" /\ term'.pc = "finish"
    BY <1>2, <2>1 DEF TermPCs, OpenPCs
  <2>3. metric \in Metrics /\ term.count \in Nat
    BY <1>1 DEF Types
  <2>4. metric' \in Metrics
    BY <2>1, <2>3, MetricTypes
  <2>5. Signalled
    <3>1. "buffer" \in closed
      BY <2>2 DEF Channels, OpenPCs
    <3>2. QED BY <2>1, <3>1, SignalOnce
  <2>6. Types' BY <2>1, <2>2, <2>4, <2>5 DEF Types, Signalled
  <2>7. Channels' BY <2>1, <2>2, <2>5 DEF Channels, Signalled, OpenPCs
  <2>8. QED BY <2>6, <2>7
<1>11. QED
  BY <1>3, <1>4, <1>5, <1>6, <1>7, <1>8, <1>9, <1>10 DEF Terminate

(* All together.                                                           *)
LEMMA TypesInductive ==
    /\ Init => Types /\ Channels
    /\ Types /\ Channels /\ [Next]_vars => Types' /\ Channels'
<1>1. Init => Types
  <2> SUFFICES ASSUME Init PROVE Types
    OBVIOUS
  <2>1. cb \in [pc : CbPCs, msg : MsgRec \cup {NoMsg}] /\ cb.pc = "idle"
    BY DEF Init, CbPCs
  <2>2. loop \in [pc : LoopPCs, msg : MsgRec \cup {NoMsg}] /\ loop.pc = "off"
    BY DEF Init, LoopPCs
  <2>3. rcv \in [Receivers -> Rcvs] /\ \A r \in Receivers : rcv[r].pc = "idle"
    BY DEF Init, Rcvs, RcvPCs
  <2>4. /\ term \in [pc : TermPCs, kind : {"none", "timed", "negative", "down"}, count : Nat]
        /\ metric \in Metrics /\ fate \in [Messages -> Fates] /\ buffer \in Seq(MsgRec)
    BY DEF Init, TermPCs, OpenPCs, Metrics, Fates
  <2>5. QED BY <2>1, <2>2, <2>3, <2>4, DirectReceiverAssumption DEF Init, Types
<1>2. Init => Channels
  BY DEF Init, Channels, OpenPCs
<1>3. Types /\ Channels /\ [Next]_vars => Types' /\ Channels'
  BY StartTypes, CallbackTypes, ReceiveTypes, LoopTypes, TerminateTypes DEF Next
<1>4. QED BY <1>1, <1>2, <1>3

(* Nobody closes a channel twice or sends on a closed one, and             *)
(* bufferEmptyOnTerminate tells the truth, whatever the callback, the      *)
(* consumers and Terminate or a down event do at the same time.            *)
THEOREM SignalIsRight == Spec => []EmptySignalIsRight
<1>1. Types /\ Channels => EmptySignalIsRight
  BY DEF Channels, EmptySignalIsRight
<1>2. QED BY <1>1, TypesInductive, PTL DEF Spec

-----------------------------------------------------------------------------
(* Where a message is: fate says what its place says.                      *)
Placed ==
    /\ next \in 1 .. MaxMessages + 1
    /\ \A m \in Messages : m >= next <=> fate[m] = "wire"
    /\ cb.pc # "idle" => cb.msg.id = next - 1 /\ fate[cb.msg.id] = "callback"
    /\ \A m \in Messages : fate[m] = "callback" => cb.pc # "idle" /\ m = cb.msg.id
    /\ \A i \in 1 .. Len(buffer) : fate[buffer[i].id] = "buffered"
    /\ \A i, j \in 1 .. Len(buffer) : buffer[i].id = buffer[j].id => i = j
    /\ \A m \in Messages : fate[m] = "buffered" => \E i \in 1 .. Len(buffer) : buffer[i].id = m

(* Each consumer that has taken a message has taken another one.           *)
Held ==
    /\ loop.pc = "flag" => fate[loop.msg.id] = "consumed"
    /\ \A r \in Receivers : rcv[r].pc = "flag" =>
           /\ fate[rcv[r].msg.id] = "consumed"
           /\ loop.pc = "flag" => rcv[r].msg.id # loop.msg.id
           /\ \A q \in Receivers \ {r} : rcv[q].pc = "flag" => rcv[q].msg.id # rcv[r].msg.id

(* The indication msg carries is right.                                    *)
Told(msg) == msg.discard <=> DroppedLatest(msg.id - 1)

(* Drop latest: isDiscard is about the message before the next one, from   *)
(* there it passes to the message being pushed ...                         *)
Pending ==
    /\ cb.pc \in {"idle", "swap", "push"}
    /\ cb.pc = "idle" /\ ~IsEnding => (isDiscard <=> DroppedLatest(next - 1))
    /\ cb.pc = "swap" => (isDiscard <=> DroppedLatest(cb.msg.id - 1))
    /\ cb.pc = "push" => ~isDiscard /\ Told(cb.msg)

(* ... and stays with it until the application has it.                     *)
Carried ==
    /\ \A i \in 1 .. Len(buffer) : Told(buffer[i])
    /\ loop.pc = "flag" => Told(loop.msg)
    /\ \A r \in Receivers : rcv[r].pc = "flag" => Told(rcv[r].msg)
    /\ \A m \in Messages : m \in marked => fate[m] = "delivered"
    /\ \A m \in Messages : fate[m] = "delivered" => (m \in marked <=> DroppedLatest(m - 1))

(* Drop oldest: isDiscard stands for every message dropped since the last  *)
(* report, but while the callback is about to set it.                      *)
Oldest ==
    /\ cb.pc # "swap"
    /\ cb.pc # "store" => \A m \in Messages : fate[m] = "dropped" => isDiscard

Indications ==
    /\ state \in {"Starting", "Started"} => registered
    /\ state = "NotStarted" => ~registered /\ ~isDiscard /\ next = 1 /\ cb.pc = "idle"
    /\ strategy = "dropLatest" => Pending /\ Carried
    /\ strategy = "dropOldest" => Oldest

Freed == {m \in Messages : fate[m] = "freed"}

(* The counters account for every discard, once those are added that the   *)
(* callback and the drain have made and not counted yet.                   *)
Uncounted ==
    (IF cb.pc \in {"store", "pushAgain"} THEN 1 ELSE 0) + (IF term.pc = "drain" THEN term.count ELSE 0)

Counted ==
    /\ metric.backpressure + metric.termination + Uncounted = Cardinality(Discarded)
    /\ term.count = Cardinality(Freed)
    /\ term.pc \notin {"drain", "finish", "done"} => term.count = 0
    /\ term.pc \in {"joinEmpty", "finish", "done"} => "empty" \in closed

(* The ways in which a step may touch the messages.  A consumer, the       *)
(* callback or the drain takes the first one of the buffer ...             *)
TakeHead(f) ==
    /\ buffer # << >> /\ buffer' = Tail(buffer)
    /\ fate' = [fate EXCEPT ![Head(buffer).id] = f]

(* ... and most steps take none.                                           *)
NoNewHolder ==
    /\ loop'.pc = "flag" => loop.pc = "flag" /\ loop'.msg = loop.msg
    /\ \A r \in Receivers : rcv'[r].pc = "flag" => rcv[r].pc = "flag" /\ rcv'[r].msg = rcv[r].msg

KeepMessages == UNCHANGED <<strategy, buffer, isDiscard, fate, marked, next, cb>>

QuietStep ==
    \/ StartRegister \/ StartOk \/ StartFail \/ AsyncSwap \/ AsyncSignal
    \/ \E r \in Receivers : ReceiveEnter(r) \/ ReceiveNothing(r) \/ ReceiveReturn(r)
    \/ LoopWait \/ LoopCheck \/ LoopDrained \/ LoopNotified \/ LoopClose \/ LoopHandled
    \/ \E kind \in {"timed", "negative", "down"} : TerminateSwap(kind)
    \/ TerminateUnregister \/ TerminateUnblock \/ TerminateClose \/ TerminateMark
    \/ TerminateEmpty \/ TerminateTimeout \/ TerminateDelivered \/ TerminateNotify
    \/ TerminateJoin \/ DrainQueueDone \/ TerminateFinish
    \/ UNCHANGED vars

(* A quiet step touches no message.                                        *)
LEMMA QuietKeeps ==
    ASSUME Types, QuietStep
    PROVE  KeepMessages /\ NoNewHolder
<1>1. KeepMessages
  BY DEF QuietStep, StartRegister, StartOk, StartFail, AsyncSwap, AsyncSignal, ReceiveEnter,
         ReceiveNothing, ReceiveReturn, LoopWait, LoopCheck, LoopDrained, LoopNotified, LoopClose,
         LoopHandled, TerminateSwap, TerminateUnregister, TerminateUnblock, TerminateClose,
         TerminateMark, TerminateEmpty, TerminateTimeout, TerminateDelivered, TerminateNotify,
         TerminateJoin, DrainQueueDone, TerminateFinish, vars, base, obs, cbVars, KeepMessages
<1>2. loop \in [pc : LoopPCs, msg : MsgRec \cup {NoMsg}] /\ rcv \in [Receivers -> Rcvs]
  BY DEF Types
<1>3. ASSUME NEW r \in Receivers, ReceiveEnter(r) \/ ReceiveNothing(r) \/ ReceiveReturn(r)
      PROVE  NoNewHolder
  <2>1. UNCHANGED loop /\ \E f : Rcv(r, f) /\ f.pc # "flag"
    <3>1. CASE ReceiveEnter(r) BY <3>1 DEF ReceiveEnter
    <3>2. CASE ReceiveNothing(r) BY <1>2, <3>2 DEF ReceiveNothing, Rcvs
    <3>3. CASE ReceiveReturn(r) BY <1>2, <3>3 DEF ReceiveReturn, Rcvs
    <3>4. QED BY <1>3, <3>1, <3>2, <3>3
  <2>2. QED BY <1>2, <2>1 DEF Rcv, NoNewHolder
<1>4. CASE StartOk \/ LoopWait \/ LoopCheck \/ LoopDrained \/ LoopNotified \/ LoopClose
           \/ LoopHandled
  <2>1. UNCHANGED rcv /\ \E p \in LoopPCs \ {"flag"} : loop' = [loop EXCEPT !.pc = p]
    BY <1>4 DEF StartOk, LoopWait, LoopCheck, LoopDrained, LoopNotified, LoopClose, LoopHandled,
                LoopExit, LoopPCs
  <2>2. QED BY <1>1, <1>2, <2>1 DEF NoNewHolder
<1>5. CASE UNCHANGED <<loop, rcv>>
  BY <1>1, <1>5 DEF NoNewHolder
<1>6. QED
  BY <1>1, <1>3, <1>4, <1>5
  DEF QuietStep, StartRegister, StartFail, AsyncSwap, AsyncSignal, TerminateSwap,
      TerminateUnregister, TerminateUnblock, TerminateClose, TerminateMark, TerminateEmpty,
      TerminateTimeout, TerminateDelivered, TerminateNotify, TerminateJoin, DrainQueueDone,
      TerminateFinish, vars

(* The steps that do touch messages.                                       *)
LEMMA StepKinds ==
    ASSUME [Next]_vars
    PROVE  \/ QuietStep \/ Callback \/ DrainQueueOne \/ LoopTake \/ LoopFlag
           \/ \E r \in Receivers : ReceiveTake(r) \/ ReceiveFlag(r)
BY DEF Next, QuietStep, Loop, Receive, Terminate

(* A message taken from the buffer is out of it and nowhere else.          *)
LEMMA TakePlaced ==
    ASSUME Types, Placed, NEW f \in Fates \ {"wire", "callback", "buffered"}, TakeHead(f),
           UNCHANGED next,
           UNCHANGED cb \/ (cb'.pc # "idle" /\ cb.pc # "idle" /\ cb'.msg = cb.msg)
    PROVE  /\ Placed'
           /\ Head(buffer) \in MsgRec /\ Head(buffer).id \in Messages
           /\ fate[Head(buffer).id] = "buffered" /\ fate'[Head(buffer).id] = f
           /\ \A m \in Messages : m # Head(buffer).id => fate'[m] = fate[m]
<1> DEFINE h == Head(buffer).id
<1>1. /\ Head(buffer) \in MsgRec /\ Head(buffer) = buffer[1] /\ Tail(buffer) \in Seq(MsgRec)
      /\ Len(buffer) \in Nat \ {0} /\ Len(Tail(buffer)) = Len(buffer) - 1
      /\ \A i \in 1..Len(buffer) - 1 : Tail(buffer)[i] = buffer[i+1]
      /\ buffer' = Tail(buffer) /\ fate' = [fate EXCEPT ![h] = f]
  BY BufferHead DEF TakeHead
<1>2. h \in Messages /\ h = buffer[1].id /\ fate[h] = "buffered"
  BY <1>1 DEF Placed, MsgRec
<1>3. /\ fate'[h] = f
      /\ \A m \in Messages : m # h => fate'[m] = fate[m]
  BY <1>1, <1>2 DEF Types
<1>4. \A i \in 1 .. Len(buffer') : i + 1 \in 1 .. Len(buffer) /\ buffer'[i] = buffer[i+1]
  BY <1>1
<1>5. \A i \in 1 .. Len(buffer') : fate'[buffer'[i].id] = "buffered"
  <2> TAKE i \in 1 .. Len(buffer')
  <2>1. buffer'[i].id = buffer[i+1].id /\ i + 1 \in 1 .. Len(buffer) /\ i + 1 # 1
    BY <1>1, <1>4
  <2>2. buffer[i+1].id \in Messages /\ fate[buffer[i+1].id] = "buffered"
    BY <2>1, BufferElements DEF Placed
  <2>3. buffer[i+1].id # h
    BY <1>1, <1>2, <2>1 DEF Placed
  <2>4. QED BY <1>3, <2>1, <2>2, <2>3
<1>6. \A i, j \in 1 .. Len(buffer') : buffer'[i].id = buffer'[j].id => i = j
  BY <1>1, <1>4 DEF Placed
<1>7. \A m \in Messages : fate'[m] = "buffered" => \E i \in 1 .. Len(buffer') : buffer'[i].id = m
  <2> SUFFICES ASSUME NEW m \in Messages, fate'[m] = "buffered"
               PROVE  \E i \in 1 .. Len(buffer') : buffer'[i].id = m
    OBVIOUS
  <2>1. m # h /\ fate[m] = "buffered"
    BY <1>2, <1>3
  <2>2. PICK i \in 1 .. Len(buffer) : buffer[i].id = m
    BY <2>1 DEF Placed
  <2>3. i - 1 \in 1 .. Len(buffer') /\ buffer'[i-1] = buffer[i]
    BY <1>1, <1>2, <1>4, <2>1, <2>2
  <2>4. QED BY <2>2, <2>3
<1>8. cb'.pc # "idle" => cb'.msg.id = next' - 1 /\ fate'[cb'.msg.id] = "callback"
  BY <1>2, <1>3 DEF Placed, Types, MsgRec
<1>9. /\ next' \in 1 .. MaxMessages + 1
      /\ \A m \in Messages : m >= next' <=> fate'[m] = "wire"
      /\ \A m \in Messages : fate'[m] = "callback" => cb'.pc # "idle" /\ m = cb'.msg.id
  BY <1>2, <1>3 DEF Placed
<1>10. Placed'
  BY <1>5, <1>6, <1>7, <1>8, <1>9 DEF Placed
<1>11. QED BY <1>1, <1>2, <1>3, <1>10

(* The callback puts its message at the end of the buffer.                 *)
LEMMA PushPlaced ==
    ASSUME Types, Placed, cb.pc # "idle", cb'.pc = "idle", UNCHANGED next,
           buffer' = Append(buffer, cb.msg), fate' = [fate EXCEPT ![cb.msg.id] = "buffered"]
    PROVE  Placed'
<1>1. /\ cb.msg \in MsgRec /\ cb.msg.id \in Messages /\ cb.msg.id = next - 1
      /\ fate[cb.msg.id] = "callback" /\ buffer \in Seq(MsgRec)
      /\ fate \in [Messages -> Fates] /\ next \in 1 .. MaxMessages + 1
  BY DEF Types, Placed, MsgRec
<1>2. /\ fate'[cb.msg.id] = "buffered"
      /\ \A m \in Messages : m # cb.msg.id => fate'[m] = fate[m]
  BY <1>1
<1>3. /\ Len(buffer') = Len(buffer) + 1 /\ Len(buffer) \in Nat /\ buffer'[Len(buffer')] = cb.msg
      /\ \A i \in 1 .. Len(buffer) : buffer'[i] = buffer[i]
  BY <1>1
<1>4. \A i \in 1 .. Len(buffer) : buffer[i].id \in Messages /\ buffer[i].id # cb.msg.id
  BY <1>1, BufferElements DEF Placed
<1>5. \A i \in 1 .. Len(buffer') : fate'[buffer'[i].id] = "buffered"
  <2> TAKE i \in 1 .. Len(buffer')
  <2>1. CASE i \in 1 .. Len(buffer)
    BY <1>2, <1>3, <1>4, <2>1 DEF Placed
  <2>2. CASE i = Len(buffer')
    BY <1>2, <1>3, <2>2
  <2>3. QED BY <1>3, <2>1, <2>2
<1>6. \A i, j \in 1 .. Len(buffer') : buffer'[i].id = buffer'[j].id => i = j
  <2> SUFFICES ASSUME NEW i \in 1 .. Len(buffer'), NEW j \in 1 .. Len(buffer'),
                      buffer'[i].id = buffer'[j].id
               PROVE  i = j
    OBVIOUS
  <2>1. CASE i \in 1 .. Len(buffer) /\ j \in 1 .. Len(buffer)
    BY <1>3, <2>1 DEF Placed
  <2>2. CASE i \in 1 .. Len(buffer) /\ j = Len(buffer')
    BY <1>3, <1>4, <2>2
  <2>3. CASE j \in 1 .. Len(buffer) /\ i = Len(buffer')
    BY <1>3, <1>4, <2>3
  <2>4. QED BY <1>3, <2>1, <2>2, <2>3
<1>7. \A m \in Messages : fate'[m] = "buffered" => \E i \in 1 .. Len(buffer') : buffer'[i].id = m
  <2> SUFFICES ASSUME NEW m \in Messages, fate'[m] = "buffered"
               PROVE  \E i \in 1 .. Len(buffer') : buffer'[i].id = m
    OBVIOUS
  <2>1. CASE m = cb.msg.id
    BY <1>3, <2>1
  <2>2. CASE m # cb.msg.id
    <3>1. PICK i \in 1 .. Len(buffer) : buffer[i].id = m
      BY <1>2, <2>2 DEF Placed
    <3>2. i \in 1 .. Len(buffer') /\ buffer'[i] = buffer[i]
      BY <1>3
    <3>3. QED BY <3>1, <3>2
  <2>3. QED BY <2>1, <2>2
<1>8. /\ next' \in 1 .. MaxMessages + 1
      /\ \A m \in Messages : m >= next' <=> fate'[m] = "wire"
      /\ \A m \in Messages : fate'[m] # "callback"
  BY <1>1, <1>2 DEF Placed
<1>9. QED
  BY <1>5, <1>6, <1>7, <1>8 DEF Placed

(* CCSMP delivers the next message, to the callback or not.                *)
LEMMA DeliverPlaced ==
    ASSUME Types, Placed, next \in Messages, UNCHANGED buffer, cb.pc = "idle",
           NEW f \in {"returned", "unrouted", "callback"}, Deliver(f),
           IF f = "callback" THEN cb'.pc # "idle" /\ cb'.msg.id = next ELSE UNCHANGED cb
    PROVE  Placed'
<1> USE DirectReceiverAssumption
<1>1. /\ next \in 1 .. MaxMessages /\ fate \in [Messages -> Fates] /\ fate[next] = "wire"
      /\ fate' = [fate EXCEPT ![next] = f] /\ next' = next + 1
  BY DEF Types, Placed, Messages, Deliver
<1>2. fate'[next] = f /\ \A m \in Messages : m # next => fate'[m] = fate[m]
  BY <1>1
<1>3. \A i \in 1 .. Len(buffer) : buffer[i].id \in Messages /\ buffer[i].id # next
  BY <1>1, BufferElements DEF Placed
<1>4. /\ \A i \in 1 .. Len(buffer') : fate'[buffer'[i].id] = "buffered"
      /\ \A i, j \in 1 .. Len(buffer') : buffer'[i].id = buffer'[j].id => i = j
      /\ \A m \in Messages : fate'[m] = "buffered" => \E i \in 1 .. Len(buffer') : buffer'[i].id = m
  BY <1>1, <1>2, <1>3 DEF Placed
<1>5. next' \in 1 .. MaxMessages + 1 /\ next' - 1 = next
  BY <1>1
<1>6. \A m \in Messages : m >= next' <=> fate'[m] = "wire"
  BY <1>1, <1>2 DEF Placed, Messages
<1>7. /\ cb'.pc # "idle" => cb'.msg.id = next' - 1 /\ fate'[cb'.msg.id] = "callback"
      /\ \A m \in Messages : fate'[m] = "callback" => cb'.pc # "idle" /\ m = cb'.msg.id
  BY <1>1, <1>2, <1>5 DEF Placed
<1>8. QED BY <1>4, <1>5, <1>6, <1>7 DEF Placed

(* A message handed to the application is out of the way; with drop oldest *)
(* those dropped before it become reported.                                *)
LEMMA IndicatePlaced ==
    ASSUME Types, Placed, NEW msg \in MsgRec, Indicate(msg), fate[msg.id] = "consumed",
           UNCHANGED <<buffer, cb, next>>
    PROVE  /\ Placed'
           /\ msg.id \in Messages /\ fate'[msg.id] = "delivered"
           /\ \A m \in Messages : m # msg.id =>
                  \/ fate'[m] = fate[m]
                  \/ /\ fate[m] = "dropped" /\ fate'[m] = "reported"
                     /\ strategy = "dropOldest" /\ isDiscard
<1>1. msg.id \in Messages /\ fate \in [Messages -> Fates]
  BY DEF Types, MsgRec
<1>2. /\ fate'[msg.id] = "delivered"
      /\ \A m \in Messages : m # msg.id =>
             \/ fate'[m] = fate[m]
             \/ /\ fate[m] = "dropped" /\ fate'[m] = "reported"
                /\ strategy = "dropOldest" /\ isDiscard
  BY <1>1 DEF Indicate
<1>3. \A m \in Messages : \A f \in {"wire", "callback", "buffered"} : fate'[m] = f <=> fate[m] = f
  BY <1>1, <1>2
<1>4. \A i \in 1 .. Len(buffer) : buffer[i].id \in Messages
  BY BufferElements
<1>5. cb.pc # "idle" => cb.msg.id \in Messages
  BY DEF Types, MsgRec
<1>6. Placed'
  BY <1>3, <1>4, <1>5 DEF Placed
<1>7. QED BY <1>1, <1>2, <1>6

(* What the callback does to messages, to itself and to isDiscard.         *)
LEMMA CallbackPlaced ==
    ASSUME Types, Channels, Placed, Callback
    PROVE  /\ Placed' /\ NoNewHolder /\ UNCHANGED <<marked, strategy>>
           /\ \A m \in Messages : fate[m] \notin {"wire", "callback", "buffered"} => fate'[m] = fate[m]
<1> USE DirectReceiverAssumption
<1>1. NoNewHolder /\ UNCHANGED <<marked, strategy>>
  BY DEF Callback, CallbackEnter, CallbackUnrouted, CallbackSwap, CallbackPush, CallbackDropLatest,
         CallbackFull, CallbackPop, CallbackStore, CallbackPushAgain, base, obs, NoNewHolder
<1>2. /\ fate \in [Messages -> Fates] /\ cb \in [pc : CbPCs, msg : MsgRec \cup {NoMsg}]
      /\ cb.pc # "idle" =>
            /\ cb.msg.id \in Messages /\ fate[cb.msg.id] = "callback" /\ "buffer" \notin closed
  BY DEF Types, Placed, MsgRec, Channels, OpenPCs
<1> DEFINE Settled ==
      \A m \in Messages : fate[m] \notin {"wire", "callback", "buffered"} => fate'[m] = fate[m]
<1>3. ASSUME CallbackReturn PROVE cb'.pc = "idle"
  BY <1>2, <1>3 DEF CallbackReturn
<1>4. CASE CallbackEnter \/ CallbackUnrouted
  <2>1. PICK f \in {"returned", "unrouted", "callback"} :
           /\ Deliver(f) /\ next \in Messages /\ UNCHANGED buffer /\ cb.pc = "idle"
           /\ IF f = "callback" THEN cb'.pc # "idle" /\ cb'.msg.id = next ELSE UNCHANGED cb
    BY <1>4 DEF CallbackEnter, CallbackUnrouted
  <2>2. Placed' BY <2>1, DeliverPlaced
  <2>3. Settled BY <1>2, <2>1 DEF Deliver, Placed
  <2>4. QED BY <1>1, <2>2, <2>3
<1>5. CASE CallbackSwap \/ CallbackFull \/ CallbackStore \/ (CallbackPop /\ buffer = << >>)
  <2>1. /\ cb.pc # "idle" /\ cb'.pc # "idle" /\ cb'.msg.id = cb.msg.id
        /\ UNCHANGED <<buffer, fate, next>>
    <3>1. cb.pc # "idle" /\ UNCHANGED <<buffer, fate, next>>
      BY <1>5 DEF CallbackSwap, CallbackFull, CallbackStore, CallbackPop, obs
    <3>2. cb.msg \in MsgRec
      BY <3>1 DEF Types
    <3>3. CASE CallbackSwap
      BY <1>2, <3>1, <3>2, <3>3 DEF CallbackSwap, MsgRec
    <3>4. CASE \E p \in CbPCs \ {"idle"} : cb' = [cb EXCEPT !.pc = p]
      BY <1>2, <3>1, <3>4
    <3>5. QED BY <1>5, <3>3, <3>4 DEF CallbackFull, CallbackStore, CallbackPop, CbPCs
  <2>2. Placed' BY <1>2, <2>1 DEF Placed
  <2>3. QED BY <1>1, <2>1, <2>2
<1>6. CASE CallbackPush \/ CallbackPushAgain
  <2>1. /\ cb.pc # "idle" /\ UNCHANGED next /\ CallbackReturn
        /\ buffer' = Append(buffer, cb.msg) /\ fate' = [fate EXCEPT ![cb.msg.id] = "buffered"]
    BY <1>2, <1>6 DEF CallbackPush, CallbackPushAgain, SendToBuffer
  <2>2. Placed' BY <1>3, <2>1, PushPlaced
  <2>3. QED BY <1>1, <1>2, <2>1, <2>2
<1>7. CASE CallbackDropLatest
  <2>1. /\ cb.pc # "idle" /\ UNCHANGED <<next, buffer>> /\ cb'.pc = "idle"
        /\ fate' = [fate EXCEPT ![cb.msg.id] = "returned"]
    BY <1>3, <1>7 DEF CallbackDropLatest, DropLatest
  <2>2. /\ fate'[cb.msg.id] = "returned"
        /\ \A m \in Messages : m # cb.msg.id => fate'[m] = fate[m]
    BY <1>2, <2>1
  <2>3. \A i \in 1 .. Len(buffer) : buffer[i].id \in Messages /\ buffer[i].id # cb.msg.id
    BY <1>2, <2>1, BufferElements DEF Placed
  <2>4. Placed'
    BY <1>2, <2>1, <2>2, <2>3 DEF Placed
  <2>5. QED BY <1>1, <1>2, <2>1, <2>2, <2>4
<1>8. CASE CallbackPop /\ buffer # << >>
  <2>1. /\ TakeHead("dropped") /\ UNCHANGED next /\ cb.pc # "idle"
        /\ cb'.pc # "idle" /\ cb'.msg = cb.msg
    BY <1>2, <1>8 DEF CallbackPop, TakeHead
  <2>2. "dropped" \in Fates \ {"wire", "callback", "buffered"}
    BY DEF Fates
  <2>3. Placed' /\ Settled
    BY <2>1, <2>2, TakePlaced
  <2>4. QED BY <1>1, <2>3
<1>9. QED BY <1>4, <1>5, <1>6, <1>7, <1>8 DEF Callback

(* A consumer keeps what it holds.                                         *)
LEMMA HeldKeeps ==
    ASSUME Types, Held, NoNewHolder,
           \A m \in Messages : fate[m] = "consumed" => fate'[m] = "consumed"
    PROVE  Held'
<1>1. /\ loop.pc = "flag" => loop.msg.id \in Messages
      /\ \A r \in Receivers : rcv[r].pc = "flag" => rcv[r].msg.id \in Messages
  BY DEF Types, MsgRec
<1>2. QED BY <1>1 DEF Held, NoNewHolder

(* Placed and Held are kept by every step.                                 *)
LEMMA PlacedInductive ==
    ASSUME Types, Channels, Placed, Held, [Next]_vars
    PROVE  Placed' /\ Held'
<1>1. /\ loop.pc = "flag" => loop.msg \in MsgRec /\ loop.msg.id \in Messages
      /\ \A r \in Receivers : rcv[r].pc = "flag" => rcv[r].msg \in MsgRec /\ rcv[r].msg.id \in Messages
      /\ rcv \in [Receivers -> Rcvs]
  BY DEF Types, MsgRec
<1>2. CASE QuietStep
  <2>1. KeepMessages /\ NoNewHolder
    BY <1>2, QuietKeeps
  <2>2. Placed' BY <2>1 DEF KeepMessages, Placed
  <2>3. Held' BY <2>1, HeldKeeps DEF KeepMessages
  <2>4. QED BY <2>2, <2>3
<1>3. CASE Callback
  BY <1>3, CallbackPlaced, HeldKeeps
<1>4. ASSUME NEW f \in {"consumed", "freed"}, TakeHead(f), UNCHANGED <<next, cb>>
      PROVE  /\ Placed' /\ Head(buffer).id \in Messages
             /\ fate[Head(buffer).id] = "buffered" /\ fate'[Head(buffer).id] = f
             /\ \A m \in Messages : m # Head(buffer).id => fate'[m] = fate[m]
  <2>1. f \in Fates \ {"wire", "callback", "buffered"}
    BY DEF Fates
  <2>2. QED BY <1>4, <2>1, TakePlaced
<1>5. CASE DrainQueueOne
  <2>1. TakeHead("freed") /\ UNCHANGED <<next, cb>> /\ NoNewHolder
    BY <1>5 DEF DrainQueueOne, TakeHead, cbVars, NoNewHolder
  <2>2. QED BY <1>4, <2>1, HeldKeeps
<1>6. CASE LoopTake
  <2>1. TakeHead("consumed") /\ UNCHANGED <<next, cb, rcv>> /\ loop' = [pc |-> "flag", msg |-> Head(buffer)]
    BY <1>6 DEF LoopTake, TakeHead, cbVars
  <2>2. Held'
    BY <1>1, <1>4, <2>1 DEF Held
  <2>3. QED BY <1>4, <2>1, <2>2
<1>7. ASSUME NEW r \in Receivers, ReceiveTake(r)
      PROVE  Placed' /\ Held'
  <2>1. /\ TakeHead("consumed") /\ UNCHANGED <<next, cb, loop>>
        /\ rcv' = [rcv EXCEPT ![r] = [rcv[r] EXCEPT !.pc = "flag", !.msg = Head(buffer)]]
    BY <1>7 DEF ReceiveTake, TakeHead, cbVars, Rcv
  <2>2. rcv'[r].msg = Head(buffer) /\ \A q \in Receivers \ {r} : rcv'[q] = rcv[q]
    BY <1>1, <2>1 DEF Rcvs
  <2>3. Held'
    BY <1>1, <1>4, <2>1, <2>2 DEF Held
  <2>4. QED BY <1>4, <2>1, <2>3
<1>8. CASE LoopFlag
  <2>1. /\ loop.pc = "flag" /\ Indicate(loop.msg) /\ UNCHANGED <<buffer, next, cb, rcv>>
        /\ loop' = [pc |-> "handle", msg |-> NoMsg]
    BY <1>8 DEF LoopFlag, cbVars
  <2>2. fate[loop.msg.id] = "consumed"
    BY <2>1 DEF Held
  <2>3. /\ Placed' /\ \A m \in Messages : m # loop.msg.id =>
                           (fate[m] = "consumed" => fate'[m] = "consumed")
    BY <1>1, <2>1, <2>2, IndicatePlaced
  <2>4. Held'
    BY <1>1, <2>1, <2>3 DEF Held
  <2>5. QED BY <2>3, <2>4
<1>9. ASSUME NEW r \in Receivers, ReceiveFlag(r)
      PROVE  Placed' /\ Held'
  <2>1. /\ rcv[r].pc = "flag" /\ Indicate(rcv[r].msg) /\ UNCHANGED <<buffer, next, cb, loop>>
        /\ rcv' = [rcv EXCEPT ![r] = [rcv[r] EXCEPT !.pc = "deferred", !.msg = NoMsg]]
    BY <1>9 DEF ReceiveFlag, cbVars, Rcv
  <2>2. rcv'[r].pc = "deferred" /\ \A q \in Receivers \ {r} : rcv'[q] = rcv[q]
    BY <1>1, <2>1 DEF Rcvs
  <2>3. fate[rcv[r].msg.id] = "consumed"
    BY <2>1 DEF Held
  <2>4. /\ Placed' /\ \A m \in Messages : m # rcv[r].msg.id =>
                           (fate[m] = "consumed" => fate'[m] = "consumed")
    BY <1>1, <2>1, <2>3, IndicatePlaced
  <2>5. Held'
    BY <1>1, <2>1, <2>2, <2>4 DEF Held
  <2>6. QED BY <2>4, <2>5
<1>10. QED BY <1>2, <1>3, <1>5, <1>6, <1>7, <1>8, <1>9, StepKinds

(* An indication about a message that was delivered by CCSMP some time ago *)
(* stays right: what became of its predecessor is settled.                 *)
Sound(msg) == msg.id \in Messages /\ msg.id < next /\ Told(msg)

(* The messages on their way to the application are such.                  *)
LEMMA AllSound ==
    ASSUME Types, Placed, Held, Carried
    PROVE  /\ \A i \in 1 .. Len(buffer) : Sound(buffer[i])
           /\ loop.pc = "flag" => Sound(loop.msg)
           /\ \A r \in Receivers : rcv[r].pc = "flag" => Sound(rcv[r].msg)
<1> USE DirectReceiverAssumption
<1>1. \A m \in Messages : fate[m] # "wire" => m < next
  BY DEF Placed, Messages
<1>2. \A i \in 1 .. Len(buffer) : Sound(buffer[i])
  BY <1>1, BufferElements DEF Placed, Carried, Sound
<1>3. loop.pc = "flag" => Sound(loop.msg)
  BY <1>1 DEF Types, MsgRec, Held, Carried, Sound
<1>4. \A r \in Receivers : rcv[r].pc = "flag" => Sound(rcv[r].msg)
  BY <1>1 DEF Types, MsgRec, Held, Carried, Sound
<1>5. QED BY <1>2, <1>3, <1>4

(* A step that settles nothing of what is older than the last message      *)
(* keeps them right.                                                       *)
Steady ==
    \A m \in Messages : m < next - 1 => (fate'[m] = "returned" <=> fate[m] = "returned")

(* After such a step an indication still says what became of the message   *)
(* before it.                                                              *)
LEMMA SoundKeeps ==
    ASSUME Types, Placed, Steady, NEW msg, Sound(msg)
    PROVE  msg.discard <=> (msg.id - 1 \in Messages /\ fate'[msg.id - 1] = "returned")
<1> USE DirectReceiverAssumption
<1>1. /\ next \in Nat /\ msg.id \in Nat /\ msg.id - 1 < next - 1
      /\ msg.discard <=> (msg.id - 1 \in Messages /\ fate[msg.id - 1] = "returned")
  BY DEF Placed, Messages, Sound, Told, DroppedLatest
<1>2. QED BY <1>1 DEF Steady

(* So every indication that is carried stays right.                        *)
LEMMA CarriedKeeps ==
    ASSUME Types, Placed, Held, Carried, Steady, UNCHANGED marked,
           \A m \in Messages : fate'[m] = "delivered" <=> fate[m] = "delivered",
           \A i \in 1 .. Len(buffer') : Sound(buffer'[i]),
           loop'.pc = "flag" => Sound(loop'.msg),
           \A r \in Receivers : rcv'[r].pc = "flag" => Sound(rcv'[r].msg)
    PROVE  Carried'
<1> USE DirectReceiverAssumption
<1>1. \A i \in 1 .. Len(buffer') : Told(buffer[i])'
  BY SoundKeeps DEF Told, DroppedLatest
<1>2. loop'.pc = "flag" => Told(loop.msg)'
  BY SoundKeeps DEF Told, DroppedLatest
<1>3. \A r \in Receivers : rcv'[r].pc = "flag" => Told(rcv[r].msg)'
  BY SoundKeeps DEF Told, DroppedLatest
<1>4. \A m \in Messages : fate'[m] = "delivered" => (m \in marked' <=> DroppedLatest(m - 1)')
  <2> SUFFICES ASSUME NEW m \in Messages, fate'[m] = "delivered"
               PROVE  m \in marked' <=> DroppedLatest(m - 1)'
    OBVIOUS
  <2>1. fate[m] = "delivered" /\ m < next /\ next \in Nat /\ m \in Nat
    BY DEF Placed, Messages
  <2>2. m \in marked <=> DroppedLatest(m - 1)
    BY <2>1 DEF Carried
  <2>3. m - 1 < next - 1
    BY <2>1
  <2>4. QED BY <2>2, <2>3 DEF Steady, DroppedLatest
<1>5. QED BY <1>1, <1>2, <1>3, <1>4 DEF Carried

(* How the state of the receiver moves while messages are left alone.      *)
LEMMA QuietState ==
    ASSUME Types, Channels, Indications, QuietStep
    PROVE  /\ state' \in {"Starting", "Started"} => registered'
           /\ state' = "NotStarted" => state = "NotStarted" /\ UNCHANGED registered
           /\ IsEnding => IsEnding'
<1>1. CASE StartRegister \/ StartOk \/ StartFail
  BY <1>1 DEF StartRegister, StartOk, StartFail, Indications, IsEnding
<1>2. ASSUME NEW kind, TerminateSwap(kind)
      PROVE  state' = "Terminating"
  BY <1>2 DEF TerminateSwap
<1>3. CASE TerminateUnregister
  <2>1. term.pc = "unregister" /\ UNCHANGED state
    BY <1>3 DEF TerminateUnregister, TermGoto
  <2>2. IsEnding
    BY <2>1 DEF Channels, Types, IsEnding
  <2>3. QED BY <2>1, <2>2 DEF IsEnding
<1>4. CASE TerminateFinish
  BY <1>4 DEF TerminateFinish, IsEnding
<1>5. CASE UNCHANGED <<state, registered>>
  BY <1>5 DEF Indications, IsEnding
<1>6. QED
  BY <1>1, <1>2, <1>3, <1>4, <1>5
  DEF QuietStep, AsyncSwap, AsyncSignal, ReceiveEnter, ReceiveNothing, ReceiveReturn,
      LoopWait, LoopCheck, LoopDrained, LoopNotified, LoopClose, LoopHandled,
      TerminateUnblock, TerminateClose, TerminateMark, TerminateEmpty, TerminateTimeout,
      TerminateDelivered, TerminateNotify, TerminateJoin, DrainQueueDone, vars, base, IsEnding

(* The indications while the callback runs.                                *)
LEMMA CallbackIndications ==
    ASSUME Types, Channels, Placed, Held, Indications, Callback
    PROVE  Indications'
<1> USE DirectReceiverAssumption
<1>1. /\ UNCHANGED <<state, registered, strategy, marked, loop, rcv>> /\ state # "NotStarted"
      /\ ~registered => IsEnding
  BY DEF Callback, CallbackEnter, CallbackUnrouted, CallbackSwap, CallbackPush, CallbackDropLatest,
         CallbackFull, CallbackPop, CallbackStore, CallbackPushAgain, base, obs, Indications, Types,
         IsEnding
<1>2. /\ fate \in [Messages -> Fates] /\ cb \in [pc : CbPCs, msg : MsgRec \cup {NoMsg}]
      /\ next \in Nat \ {0} /\ isDiscard \in BOOLEAN /\ buffer \in Seq(MsgRec)
      /\ cb.pc # "idle" =>
            /\ cb.msg \in MsgRec /\ cb.msg.id \in Messages /\ fate[cb.msg.id] = "callback"
            /\ "buffer" \notin closed /\ cb.msg.id = next - 1 /\ cb.msg.discard \in BOOLEAN
  BY DEF Types, Placed, MsgRec, Channels, OpenPCs
<1>3. ASSUME CallbackReturn PROVE cb'.pc = "idle"
  BY <1>2, <1>3 DEF CallbackReturn
<1>4. ASSUME strategy = "dropLatest" PROVE Pending' /\ Carried'
  <2>1. Pending /\ Carried
    BY <1>4 DEF Indications
  <2>2. /\ \A i \in 1 .. Len(buffer) : Sound(buffer[i])
        /\ loop'.pc = "flag" => Sound(loop'.msg)
        /\ \A r \in Receivers : rcv'[r].pc = "flag" => Sound(rcv'[r].msg)
    BY <1>1, <2>1, AllSound
  <2>3. CASE CallbackEnter \/ CallbackUnrouted
    <3>1. PICK f \in {"returned", "unrouted", "callback"} :
             /\ Deliver(f) /\ next \in Messages /\ UNCHANGED <<buffer, isDiscard>> /\ cb.pc = "idle"
             /\ IF f = "callback"
                THEN ~IsEnding /\ cb' = [pc |-> "swap", msg |-> [id |-> next, discard |-> FALSE]]
                ELSE IsEnding /\ UNCHANGED cb
      BY <1>1, <1>4, <2>3 DEF CallbackEnter, CallbackUnrouted
    <3>2. /\ fate[next] = "wire" /\ fate'[next] = f /\ next' = next + 1
          /\ \A m \in Messages : m # next => fate'[m] = fate[m]
      BY <1>2, <3>1 DEF Deliver, Placed
    <3>3. Carried'
      <4>1. Steady
        BY <1>2, <3>2 DEF Steady, Messages
      <4>2. \A m \in Messages : fate'[m] = "delivered" <=> fate[m] = "delivered"
        BY <3>1, <3>2
      <4>3. QED BY <1>1, <2>1, <2>2, <3>1, <4>1, <4>2, CarriedKeeps
    <3>4. Pending'
      <4>1. CASE f # "callback"
        BY <1>1, <3>1, <4>1 DEF Pending, IsEnding
      <4>2. CASE f = "callback"
        <5>1. isDiscard <=> DroppedLatest(next - 1)
          BY <2>1, <3>1, <4>2 DEF Pending
        <5>2. cb'.pc = "swap" /\ cb'.msg.id = next /\ UNCHANGED isDiscard
          BY <3>1, <4>2
        <5>3. DroppedLatest(next - 1) <=> (next - 1 \in Messages /\ fate'[next - 1] = "returned")
          BY <1>2, <3>2 DEF DroppedLatest
        <5>4. QED BY <5>1, <5>2, <5>3 DEF Pending, DroppedLatest
      <4>3. QED BY <4>1, <4>2
    <3>5. QED BY <3>3, <3>4
  <2>4. CASE CallbackSwap
    <3>1. /\ cb.pc = "swap" /\ UNCHANGED <<buffer, fate, next>> /\ isDiscard' = FALSE
          /\ cb'.pc = "push" /\ cb'.msg.id = cb.msg.id /\ cb'.msg.discard = isDiscard
      BY <1>2, <2>4 DEF CallbackSwap, obs, MsgRec
    <3>2. Carried'
      BY <1>1, <2>1, <2>2, <3>1, CarriedKeeps DEF Steady
    <3>3. Pending'
      BY <2>1, <3>1 DEF Pending, Told, DroppedLatest
    <3>4. QED BY <3>2, <3>3
  <2>5. CASE CallbackPush
    <3>1. /\ cb.pc = "push" /\ UNCHANGED <<next, isDiscard>> /\ cb'.pc = "idle"
          /\ buffer' = Append(buffer, cb.msg) /\ fate' = [fate EXCEPT ![cb.msg.id] = "buffered"]
      BY <1>2, <1>3, <2>5 DEF CallbackPush, SendToBuffer
    <3>2. /\ fate'[cb.msg.id] = "buffered" /\ ~isDiscard /\ Told(cb.msg)
          /\ \A m \in Messages : m # cb.msg.id => fate'[m] = fate[m]
      BY <1>2, <2>1, <3>1 DEF Pending
    <3>3. Sound(cb.msg)
      BY <1>2, <3>1, <3>2 DEF Sound
    <3>4. \A i \in 1 .. Len(buffer') : Sound(buffer'[i])
      <4> TAKE i \in 1 .. Len(buffer')
      <4>1. buffer'[i] = cb.msg \/ (i \in 1 .. Len(buffer) /\ buffer'[i] = buffer[i])
        BY <1>2, <3>1
      <4>2. QED BY <2>2, <3>3, <4>1
    <3>5. Carried'
      <4>1. Steady
        BY <1>2, <3>1, <3>2 DEF Steady
      <4>2. \A m \in Messages : fate'[m] = "delivered" <=> fate[m] = "delivered"
        BY <1>2, <3>1, <3>2
      <4>3. QED BY <1>1, <2>1, <2>2, <3>4, <4>1, <4>2, CarriedKeeps
    <3>6. Pending'
      BY <1>2, <3>1, <3>2 DEF Pending, DroppedLatest
    <3>7. QED BY <3>5, <3>6
  <2>6. CASE CallbackDropLatest
    <3>1. /\ cb.pc = "push" /\ UNCHANGED <<next, buffer>> /\ cb'.pc = "idle" /\ isDiscard' = TRUE
          /\ fate' = [fate EXCEPT ![cb.msg.id] = "returned"]
      BY <1>3, <2>6 DEF CallbackDropLatest, DropLatest
    <3>2. /\ fate'[cb.msg.id] = "returned"
          /\ \A m \in Messages : m # cb.msg.id => fate'[m] = fate[m]
      BY <1>2, <3>1
    <3>3. Carried'
      <4>1. Steady
        BY <1>2, <3>1, <3>2 DEF Steady
      <4>2. \A m \in Messages : fate'[m] = "delivered" <=> fate[m] = "delivered"
        BY <1>2, <3>1, <3>2
      <4>3. QED BY <1>1, <2>1, <2>2, <3>1, <4>1, <4>2, CarriedKeeps
    <3>4. Pending'
      BY <1>2, <3>1, <3>2 DEF Pending, DroppedLatest
    <3>5. QED BY <3>3, <3>4
  <2>7. CASE CallbackFull \/ CallbackPop \/ CallbackStore \/ CallbackPushAgain
    BY <1>4, <2>1, <2>7
    DEF CallbackFull, CallbackPop, CallbackStore, CallbackPushAgain, Pending
  <2>8. QED BY <2>3, <2>4, <2>5, <2>6, <2>7 DEF Callback
<1>5. ASSUME strategy = "dropOldest" PROVE Oldest'
  <2>1. Oldest
    BY <1>5 DEF Indications
  <2>2. CASE CallbackEnter \/ CallbackUnrouted
    BY <1>2, <1>5, <2>1, <2>2 DEF CallbackEnter, CallbackUnrouted, Deliver, Oldest
  <2>3. CASE CallbackPush \/ CallbackPushAgain
    <3>1. /\ cb.pc \notin {"idle", "store"} /\ UNCHANGED isDiscard /\ cb'.pc = "idle"
          /\ fate' = [fate EXCEPT ![cb.msg.id] = "buffered"]
      BY <1>2, <1>3, <2>3 DEF CallbackPush, CallbackPushAgain, SendToBuffer
    <3>2. QED BY <1>2, <2>1, <3>1 DEF Oldest
  <2>4. CASE CallbackSwap \/ CallbackDropLatest
    BY <1>5, <2>1, <2>4 DEF CallbackSwap, CallbackDropLatest, Oldest
  <2>5. CASE CallbackFull \/ CallbackStore \/ CallbackPop
    <3>1. \/ /\ cb.pc # "store" /\ cb'.pc \in {"pop", "pushLate"} /\ UNCHANGED <<fate, isDiscard>>
          \/ cb'.pc = "pushAgain" /\ isDiscard' = TRUE
          \/ cb'.pc = "store"
      BY <1>2, <2>5 DEF CallbackFull, CallbackStore, CallbackPop, obs
    <3>2. QED BY <2>1, <3>1 DEF Oldest
  <2>6. QED BY <2>2, <2>3, <2>4, <2>5 DEF Callback
<1>6. QED BY <1>1, <1>4, <1>5 DEF Indications

(* The indications when the first message is taken from the buffer.        *)
LEMMA TakeIndications ==
    ASSUME Types, Placed, Held, Indications, NEW f \in {"consumed", "freed"}, TakeHead(f),
           UNCHANGED <<next, cb, isDiscard, marked, strategy, state, registered>>,
           loop'.pc = "flag" =>
               loop'.msg = Head(buffer) \/ (loop.pc = "flag" /\ loop'.msg = loop.msg),
           \A r \in Receivers : rcv'[r].pc = "flag" =>
               rcv'[r].msg = Head(buffer) \/ (rcv[r].pc = "flag" /\ rcv'[r].msg = rcv[r].msg)
    PROVE  Indications'
<1> USE DirectReceiverAssumption
<1>1. f \in Fates \ {"wire", "callback", "buffered"}
  BY DEF Fates
<1>2. /\ Head(buffer).id \in Messages
      /\ fate[Head(buffer).id] = "buffered" /\ fate'[Head(buffer).id] = f
      /\ \A m \in Messages : m # Head(buffer).id => fate'[m] = fate[m]
  BY <1>1, TakePlaced
<1>3. \A m \in Messages : \A g \in {"returned", "delivered", "dropped"} : fate'[m] = g <=> fate[m] = g
  BY <1>2
<1>4. ASSUME strategy = "dropLatest" PROVE Pending' /\ Carried'
  <2>1. Pending /\ Carried
    BY <1>4 DEF Indications
  <2>2. /\ Len(buffer') \in Nat /\ Head(buffer) = buffer[1] /\ 1 \in 1 .. Len(buffer)
        /\ \A i \in 1 .. Len(buffer') : i + 1 \in 1 .. Len(buffer) /\ buffer'[i] = buffer[i+1]
    BY BufferHead DEF TakeHead
  <2>3. /\ \A i \in 1 .. Len(buffer') : Sound(buffer'[i])
        /\ Sound(Head(buffer))
        /\ loop.pc = "flag" => Sound(loop.msg)
        /\ \A r \in Receivers : rcv[r].pc = "flag" => Sound(rcv[r].msg)
    BY <2>1, <2>2, AllSound
  <2>4. Steady /\ \A m \in Messages : fate'[m] = "delivered" <=> fate[m] = "delivered"
    BY <1>3 DEF Steady
  <2>5. /\ loop'.pc = "flag" => Sound(loop'.msg)
        /\ \A r \in Receivers : rcv'[r].pc = "flag" => Sound(rcv'[r].msg)
    BY <2>3
  <2>6. Carried'
    BY <2>1, <2>3, <2>4, <2>5, CarriedKeeps
  <2>7. \A m : DroppedLatest(m)' <=> DroppedLatest(m)
    BY <1>3 DEF DroppedLatest
  <2>8. Pending'
    BY <2>1, <2>7 DEF Pending, Told, IsEnding
  <2>9. QED BY <2>6, <2>8
<1>5. ASSUME strategy = "dropOldest" PROVE Oldest'
  BY <1>3, <1>5 DEF Indications, Oldest
<1>6. QED BY <1>4, <1>5 DEF Indications

(* The indications when a consumer gives its message to the application.   *)
LEMMA FlagIndications ==
    ASSUME Types, Placed, Held, Indications, NEW msg \in MsgRec, Indicate(msg),
           fate[msg.id] = "consumed", Told(msg) \/ strategy = "dropOldest",
           UNCHANGED <<buffer, next, cb, strategy, state, registered>>, NoNewHolder
    PROVE  Indications'
<1> USE DirectReceiverAssumption
<1>1. /\ msg.id \in Messages /\ fate'[msg.id] = "delivered"
      /\ \A m \in Messages : m # msg.id =>
             \/ fate'[m] = fate[m]
             \/ /\ fate[m] = "dropped" /\ fate'[m] = "reported"
                /\ strategy = "dropOldest" /\ isDiscard
  BY IndicatePlaced
<1>2. isDiscard \in BOOLEAN /\ isDiscard' \in BOOLEAN /\ fate \in [Messages -> Fates]
  BY IndicateTypes DEF Types
<1>3. ~isDiscard => ~isDiscard'
  BY <1>2 DEF Indicate
<1>4. ASSUME strategy = "dropLatest" PROVE Pending' /\ Carried'
  <2>1. Pending /\ Carried /\ Told(msg)
    BY <1>4 DEF Indications
  <2>2. /\ \A i \in 1 .. Len(buffer) : Sound(buffer[i])
        /\ loop'.pc = "flag" => Sound(loop'.msg)
        /\ \A r \in Receivers : rcv'[r].pc = "flag" => Sound(rcv'[r].msg)
    BY <2>1, AllSound DEF NoNewHolder
  <2>3. isDiscard' = isDiscard
    BY <1>2, <1>4 DEF Indicate
  <2>4. marked' = IF msg.discard THEN marked \cup {msg.id} ELSE marked
    BY <1>4 DEF Indicate
  <2>5. \A m \in Messages : m # msg.id => fate'[m] = fate[m]
    BY <1>1, <1>4
  <2>6. \A m : DroppedLatest(m)' <=> DroppedLatest(m)
    BY <1>1, <2>5 DEF DroppedLatest
  <2>7. Pending'
    BY <2>1, <2>3, <2>6 DEF Pending, Told, IsEnding
  <2>8. Carried'
    <3>1. msg.id \notin marked
      BY <1>1, <2>1 DEF Carried
    <3>2. msg.discard <=> DroppedLatest(msg.id - 1)
      BY <2>1 DEF Told
    <3>3. msg.id \in marked' <=> DroppedLatest(msg.id - 1)'
      BY <2>4, <2>6, <3>1, <3>2
    <3>4. \A m \in Messages : m # msg.id => (m \in marked' <=> m \in marked)
      BY <2>4
    <3>5. \A m \in Messages : fate'[m] = "delivered" => (m \in marked' <=> DroppedLatest(m - 1)')
      BY <2>1, <2>5, <2>6, <3>3, <3>4 DEF Carried
    <3>6. \A m \in Messages : m \in marked' => fate'[m] = "delivered"
      BY <1>1, <2>1, <2>5, <3>4 DEF Carried
    <3>7. \A i \in 1 .. Len(buffer') : Told(buffer[i])'
      BY <2>1, <2>6 DEF Carried, Told
    <3>8. loop'.pc = "flag" => Told(loop.msg)'
      BY <2>1, <2>6 DEF Carried, Told, NoNewHolder
    <3>9. \A r \in Receivers : rcv'[r].pc = "flag" => Told(rcv[r].msg)'
      BY <2>1, <2>6 DEF Carried, Told, NoNewHolder
    <3>10. QED BY <3>5, <3>6, <3>7, <3>8, <3>9 DEF Carried
  <2>9. QED BY <2>7, <2>8
<1>5. ASSUME strategy = "dropOldest" PROVE Oldest'
  <2>1. Oldest BY <1>5 DEF Indications
  <2>2. CASE isDiscard
    <3>1. \A m \in Messages : fate'[m] # "dropped"
      BY <1>1, <1>2, <1>5, <2>2 DEF Indicate
    <3>2. QED BY <2>1, <3>1 DEF Oldest
  <2>3. CASE ~isDiscard
    BY <1>1, <2>1, <2>3 DEF Oldest
  <2>4. QED BY <2>2, <2>3
<1>6. QED BY <1>3, <1>4, <1>5 DEF Indications

(* The indications in every step.                                          *)
LEMMA IndicationsInductive ==
    ASSUME Types, Channels, Placed, Held, Indications, [Next]_vars
    PROVE  Indications'
<1>1. /\ loop.pc = "flag" => loop.msg \in MsgRec
      /\ \A r \in Receivers : rcv[r].pc = "flag" => rcv[r].msg \in MsgRec
      /\ rcv \in [Receivers -> Rcvs]
      /\ strategy \in {"dropLatest", "dropOldest"}
  BY DEF Types
<1>2. CASE QuietStep
  <2>1. KeepMessages /\ NoNewHolder
    BY <1>2, QuietKeeps
  <2>2. ASSUME strategy = "dropLatest" PROVE Pending' /\ Carried'
    <3>1. Pending /\ Carried
      BY <2>2 DEF Indications
    <3>2. /\ \A i \in 1 .. Len(buffer) : Sound(buffer[i])
          /\ loop'.pc = "flag" => Sound(loop'.msg)
          /\ \A r \in Receivers : rcv'[r].pc = "flag" => Sound(rcv'[r].msg)
      BY <2>1, <3>1, AllSound DEF NoNewHolder
    <3>3. Carried'
      BY <2>1, <3>1, <3>2, CarriedKeeps DEF KeepMessages, Steady
    <3>4. Pending'
      BY <1>2, <2>1, <3>1, QuietState DEF KeepMessages, Pending, Told, DroppedLatest
    <3>5. QED BY <3>3, <3>4
  <2>3. strategy = "dropOldest" => Oldest'
    BY <2>1 DEF KeepMessages, Indications, Oldest
  <2>4. QED
    BY <1>2, <2>1, <2>2, <2>3, QuietState DEF KeepMessages, Indications
<1>3. CASE Callback
  BY <1>3, CallbackIndications
<1>4. CASE DrainQueueOne
  <2>1. /\ TakeHead("freed") /\ UNCHANGED <<loop, rcv>>
        /\ UNCHANGED <<next, cb, isDiscard, marked, strategy, state, registered>>
    BY <1>4 DEF DrainQueueOne, TakeHead, cbVars, base
  <2>2. QED BY <2>1, TakeIndications
<1>5. CASE LoopTake
  <2>1. /\ TakeHead("consumed") /\ UNCHANGED rcv /\ loop'.msg = Head(buffer)
        /\ UNCHANGED <<next, cb, isDiscard, marked, strategy, state, registered>>
    BY <1>5 DEF LoopTake, TakeHead, cbVars, base
  <2>2. QED BY <2>1, TakeIndications
<1>6. ASSUME NEW r \in Receivers, ReceiveTake(r)
      PROVE  Indications'
  <2>1. /\ TakeHead("consumed") /\ UNCHANGED loop
        /\ rcv' = [rcv EXCEPT ![r] = [rcv[r] EXCEPT !.pc = "flag", !.msg = Head(buffer)]]
        /\ UNCHANGED <<next, cb, isDiscard, marked, strategy, state, registered>>
    BY <1>6 DEF ReceiveTake, TakeHead, cbVars, base, Rcv
  <2>2. rcv'[r].msg = Head(buffer) /\ \A q \in Receivers \ {r} : rcv'[q] = rcv[q]
    BY <1>1, <2>1 DEF Rcvs
  <2>3. QED BY <2>1, <2>2, TakeIndications
<1>7. CASE LoopFlag
  <2>1. /\ loop.pc = "flag" /\ Indicate(loop.msg) /\ loop'.pc = "handle" /\ UNCHANGED rcv
        /\ UNCHANGED <<buffer, next, cb, strategy, state, registered>>
    BY <1>7 DEF LoopFlag, cbVars, base
  <2>2. /\ fate[loop.msg.id] = "consumed" /\ (Told(loop.msg) \/ strategy = "dropOldest")
        /\ NoNewHolder /\ loop.msg \in MsgRec
    BY <1>1, <2>1 DEF Held, Indications, Carried, NoNewHolder
  <2>3. QED BY <2>1, <2>2, FlagIndications
<1>8. ASSUME NEW r \in Receivers, ReceiveFlag(r)
      PROVE  Indications'
  <2>1. /\ rcv[r].pc = "flag" /\ Indicate(rcv[r].msg) /\ UNCHANGED loop
        /\ rcv' = [rcv EXCEPT ![r] = [rcv[r] EXCEPT !.pc = "deferred", !.msg = NoMsg]]
        /\ UNCHANGED <<buffer, next, cb, strategy, state, registered>>
    BY <1>8 DEF ReceiveFlag, cbVars, base, Rcv
  <2>2. rcv'[r].pc = "deferred" /\ \A q \in Receivers \ {r} : rcv'[q] = rcv[q]
    BY <1>1, <2>1 DEF Rcvs
  <2>3. /\ fate[rcv[r].msg.id] = "consumed" /\ (Told(rcv[r].msg) \/ strategy = "dropOldest")
        /\ NoNewHolder /\ rcv[r].msg \in MsgRec
    BY <1>1, <2>1, <2>2 DEF Held, Indications, Carried, NoNewHolder
  <2>4. QED BY <2>1, <2>3, FlagIndications
<1>9. QED BY <1>2, <1>3, <1>4, <1>5, <1>6, <1>7, <1>8, StepKinds

(* With drop latest a message carries a discard indication exactly when    *)
(* the one before it was dropped; with drop oldest no drop is forgotten:   *)
(* for any number of messages, consumers and calls, and in whatever order  *)
(* they meet the callback and Terminate.                                   *)
THEOREM DiscardsAreReported == Spec => []DiscardIsReported
<1> DEFINE Inv == Types /\ Channels /\ Placed /\ Held /\ Indications
<1>1. Init => Inv
  <2> SUFFICES ASSUME Init PROVE Inv
    OBVIOUS
  <2> USE DirectReceiverAssumption
  <2>1. /\ fate = [m \in Messages |-> "wire"] /\ cb.pc = "idle" /\ loop.pc = "off" /\ next = 1
        /\ \A r \in Receivers : rcv[r].pc = "idle"
        /\ isDiscard = FALSE /\ registered = FALSE /\ state = "NotStarted" /\ marked = {}
        /\ buffer = << >> /\ Len(buffer) = 0
    BY DEF Init
  <2>2. Placed
    BY <2>1 DEF Placed, Messages
  <2>3. Held
    BY <2>1 DEF Held
  <2>4. ~DroppedLatest(0)
    BY DEF DroppedLatest, Messages
  <2>5. Pending /\ Carried
    BY <2>1, <2>4 DEF Pending, Carried
  <2>6. Oldest
    BY <2>1 DEF Oldest
  <2>7. QED BY <2>1, <2>2, <2>3, <2>5, <2>6, TypesInductive DEF Indications
<1>2. Inv /\ [Next]_vars => Inv'
  BY TypesInductive, PlacedInductive, IndicationsInductive
<1>3. Inv => DiscardIsReported
  BY DEF Indications, Carried, Told, Oldest, DiscardIsReported
<1>4. QED BY <1>1, <1>2, <1>3, PTL DEF Spec

(* Sets of messages are finite; one more message counts one more.          *)
LEMMA CountOneMore ==
    ASSUME NEW S \in SUBSET Messages, NEW m \in Messages, m \notin S
    PROVE  Cardinality(S) \in Nat /\ Cardinality(S \cup {m}) = Cardinality(S) + 1
<1>1. IsFiniteSet(Messages)
  BY FS_Interval, DirectReceiverAssumption DEF Messages
<1>2. IsFiniteSet(S)
  BY <1>1, FS_Subset
<1>3. QED BY <1>2, FS_CardinalityType, FS_AddElement

(* What a step does to the two sets of discarded messages.                 *)
SameDiscards == Discarded' = Discarded /\ Freed' = Freed

(* A message that had no end yet adds one to the set its end belongs to.   *)
LEMMA DiscardSets ==
    ASSUME Types, Types', NEW m \in Messages,
           \A n \in Messages : n # m => fate'[n] = fate[n],
           fate[m] \notin {"returned", "dropped", "reported", "freed"}
    PROVE  /\ fate'[m] \in {"returned", "dropped"} =>
                  Cardinality(Discarded') = Cardinality(Discarded) + 1 /\ Freed' = Freed
           /\ fate'[m] = "freed" =>
                  /\ Cardinality(Discarded') = Cardinality(Discarded) + 1
                  /\ Cardinality(Freed') = Cardinality(Freed) + 1
           /\ fate'[m] \notin {"returned", "dropped", "reported", "freed"} => SameDiscards
<1>1. /\ Discarded \in SUBSET Messages /\ Freed \in SUBSET Messages
      /\ m \notin Discarded /\ m \notin Freed
  BY DEF Discarded, Freed
<1>2. CASE fate'[m] \in {"returned", "dropped"}
  <2>1. Discarded' = Discarded \cup {m} /\ Freed' = Freed
    BY <1>2 DEF Discarded, Freed
  <2>2. QED BY <1>1, <1>2, <2>1, CountOneMore
<1>3. CASE fate'[m] = "freed"
  <2>1. Discarded' = Discarded \cup {m} /\ Freed' = Freed \cup {m}
    BY <1>3 DEF Discarded, Freed
  <2>2. QED BY <1>1, <1>3, <2>1, CountOneMore
<1>4. CASE fate'[m] \notin {"returned", "dropped", "reported", "freed"}
  BY <1>4 DEF Discarded, Freed, SameDiscards
<1>5. QED BY <1>2, <1>3, <1>4 DEF Types, Fates

(* The counters in the steps of Terminate that discard nothing.            *)
LEMMA QuietCounted ==
    ASSUME Types, Types', Channels, Counted, QuietStep
    PROVE  Counted'
<1>1. UNCHANGED <<fate, cb>>
  BY QuietKeeps DEF KeepMessages
<1>2. SameDiscards
  BY <1>1 DEF SameDiscards, Discarded, Freed
<1>3. /\ term \in [pc : TermPCs, kind : {"none", "timed", "negative", "down"}, count : Nat]
      /\ metric \in Metrics /\ metric.backpressure \in Nat /\ metric.termination \in Nat
      /\ term.count \in Nat
  BY DEF Types, Metrics
<1>4. ASSUME UNCHANGED <<term, metric>>, "empty" \in closed => "empty" \in closed' PROVE Counted'
  BY <1>1, <1>2, <1>4 DEF Counted, Uncounted, SameDiscards
<1>5. ASSUME NEW p \in TermPCs, NEW q \in TermPCs, TermGoto(q, p), UNCHANGED metric, q # "drain",
             "empty" \in closed => "empty" \in closed',
             p = "drain" => q \in {"join", "notify"},
             p \in {"joinEmpty", "finish", "done"} =>
                 q \in {"joinEmpty", "finish"} \/ "empty" \in closed',
             q \in {"finish", "done"} => p \in {"finish", "done"}
      PROVE  Counted'
  <2>1. term.pc = q /\ term'.pc = p /\ term'.count = term.count
    BY <1>3, <1>5 DEF TermGoto
  <2>2. Uncounted' = Uncounted
    BY <1>1, <1>3, <1>5, <2>1 DEF Counted, Uncounted
  <2>3. /\ term'.count = Cardinality(Freed)
        /\ term'.pc \notin {"drain", "finish", "done"} => term'.count = 0
        /\ term'.pc \in {"joinEmpty", "finish", "done"} => "empty" \in closed'
    BY <1>5, <2>1 DEF Counted
  <2>4. QED BY <1>2, <1>5, <2>2, <2>3 DEF Counted, SameDiscards
<1>6. ASSUME NEW kind \in {"timed", "negative", "down"}, TerminateSwap(kind) PROVE Counted'
  <2>1. /\ term.pc = "none" /\ term'.pc = "unregister" /\ term'.count = 0
        /\ UNCHANGED <<metric, closed>>
    BY <1>6 DEF TerminateSwap, Channels, chans, obs
  <2>2. QED BY <1>1, <1>2, <1>3, <2>1 DEF Counted, Uncounted, SameDiscards
<1>7. CASE StartRegister \/ StartOk \/ StartFail \/ AsyncSwap \/ AsyncSignal
           \/ LoopNotified \/ LoopHandled \/ UNCHANGED vars
           \/ \E r \in Receivers : ReceiveEnter(r) \/ ReceiveNothing(r)
  BY <1>4, <1>7 DEF StartRegister, StartOk, StartFail, AsyncSwap, AsyncSignal, ReceiveEnter,
                    ReceiveNothing, LoopNotified, LoopHandled, vars, obs, chans
<1>8. CASE LoopWait \/ LoopCheck \/ LoopClose \/ LoopDrained \/ \E r \in Receivers : ReceiveReturn(r)
  BY <1>4, <1>8 DEF LoopWait, LoopCheck, LoopClose, LoopDrained, ReceiveReturn, KeepChannels, Close,
                    SignalEmpty, CheckEmptyAndNotify, obs
<1>9. CASE TerminateUnregister \/ TerminateUnblock \/ TerminateTimeout \/ TerminateDelivered
           \/ TerminateJoin \/ TerminateFinish
  <2>1. UNCHANGED <<metric, closed>>
    BY <1>9 DEF TerminateUnregister, TerminateUnblock, TerminateTimeout, TerminateDelivered,
                TerminateJoin, TerminateFinish, chans, obs
  <2>2. QED
    BY <1>5, <1>9, <2>1
    DEF TerminateUnregister, TerminateUnblock, TerminateTimeout, TerminateDelivered,
        TerminateJoin, TerminateFinish, TermPCs, OpenPCs
<1>10. CASE TerminateClose \/ TerminateMark \/ TerminateEmpty \/ TerminateNotify
  <2>1. UNCHANGED metric /\ ("empty" \in closed => "empty" \in closed')
    BY <1>10 DEF TerminateClose, TerminateMark, TerminateEmpty, TerminateNotify, Close,
                 CheckEmptyAndNotify, SignalEmpty, KeepChannels, chans, obs
  <2>2. QED
    BY <1>5, <1>10, <2>1
    DEF TerminateClose, TerminateMark, TerminateEmpty, TerminateNotify, TermPCs, OpenPCs
<1>11. CASE DrainQueueDone
  <2>1. /\ TermGoto("drain", "finish") /\ SignalEmpty /\ buffer = << >>
        /\ metric' = [metric EXCEPT !.termination = @ + term.count]
    BY <1>11 DEF DrainQueueDone
  <2>2. term.pc = "drain" /\ term'.pc = "finish" /\ term'.count = term.count
    BY <1>3, <2>1 DEF TermGoto
  <2>3. "empty" \in closed'
    BY <2>1 DEF SignalEmpty, KeepChannels, Close, Channels
  <2>4. /\ metric'.backpressure = metric.backpressure
        /\ metric'.termination = metric.termination + term.count
    BY <1>3, <2>1, MetricTypes
  <2>5. QED BY <1>1, <1>2, <1>3, <2>2, <2>3, <2>4 DEF Counted, Uncounted, SameDiscards
<1>12. QED
  BY <1>6, <1>7, <1>8, <1>9, <1>10, <1>11 DEF QuietStep

(* The counters in the steps of the callback.                              *)
LEMMA CallbackCounted ==
    ASSUME Types, Types', Channels, Placed, Counted, Callback
    PROVE  Counted'
<1> USE DirectReceiverAssumption
<1>1. UNCHANGED <<term, closed>>
  BY DEF Callback, CallbackEnter, CallbackUnrouted, CallbackSwap, CallbackPush, CallbackDropLatest,
         CallbackFull, CallbackPop, CallbackStore, CallbackPushAgain, chans
<1>2. /\ fate \in [Messages -> Fates] /\ cb \in [pc : CbPCs, msg : MsgRec \cup {NoMsg}]
      /\ metric \in Metrics /\ metric.backpressure \in Nat /\ metric.termination \in Nat
      /\ term.count \in Nat
      /\ cb.pc # "idle" =>
            cb.msg.id \in Messages /\ fate[cb.msg.id] = "callback" /\ "buffer" \notin closed
  BY DEF Types, Metrics, Placed, MsgRec, Channels, OpenPCs
<1> DEFINE Owed(pc) == IF pc \in {"store", "pushAgain"} THEN 1 ELSE 0
<1>3. ASSUME SameDiscards,
             metric'.backpressure + metric'.termination + Owed(cb'.pc) =
                 metric.backpressure + metric.termination + Owed(cb.pc),
             metric' \in Metrics
      PROVE  Counted'
  <2>1. metric'.backpressure \in Nat /\ metric'.termination \in Nat
    BY <1>3 DEF Metrics
  <2>2. QED BY <1>1, <1>2, <1>3, <2>1 DEF Counted, Uncounted, SameDiscards
<1>4. ASSUME Freed' = Freed, Cardinality(Discarded') = Cardinality(Discarded) + 1,
             metric'.backpressure + metric'.termination + Owed(cb'.pc) =
                 metric.backpressure + metric.termination + Owed(cb.pc) + 1,
             metric' \in Metrics
      PROVE  Counted'
  <2>1. metric'.backpressure \in Nat /\ metric'.termination \in Nat
    BY <1>4 DEF Metrics
  <2>2. QED BY <1>1, <1>2, <1>4, <2>1 DEF Counted, Uncounted
<1>5. metric' \in Metrics
  BY DEF Types
<1>6. ASSUME CallbackReturn PROVE cb'.pc = "idle"
  BY <1>2, <1>6 DEF CallbackReturn
<1>7. CASE CallbackEnter \/ CallbackUnrouted
  <2>1. PICK f \in {"returned", "unrouted", "callback"} :
           /\ Deliver(f) /\ next \in Messages /\ Owed(cb.pc) = 0 /\ Owed(cb'.pc) = 0
           /\ metric' = IF f = "returned" THEN [metric EXCEPT !.termination = @ + 1] ELSE metric
    BY <1>7 DEF CallbackEnter, CallbackUnrouted
  <2>2. /\ fate[next] = "wire" /\ fate'[next] = f
        /\ \A m \in Messages : m # next => fate'[m] = fate[m]
    BY <1>2, <2>1 DEF Deliver, Placed
  <2>3. CASE f = "returned"
    <3>1. Freed' = Freed /\ Cardinality(Discarded') = Cardinality(Discarded) + 1
      BY <2>1, <2>2, <2>3, DiscardSets
    <3>2. metric'.backpressure = metric.backpressure /\ metric'.termination = metric.termination + 1
      BY <1>2, <2>1, <2>3, MetricTypes
    <3>3. QED BY <1>2, <1>4, <1>5, <2>1, <3>1, <3>2
  <2>4. CASE f # "returned"
    <3>1. SameDiscards
      BY <2>1, <2>2, <2>4, DiscardSets
    <3>2. QED BY <1>3, <1>5, <2>1, <2>4, <3>1
  <2>5. QED BY <2>3, <2>4
<1>8. CASE CallbackSwap \/ CallbackFull \/ CallbackStore \/ (CallbackPop /\ buffer = << >>)
  <2>1. UNCHANGED <<fate, metric>> /\ Owed(cb'.pc) = Owed(cb.pc)
    BY <1>2, <1>8 DEF CallbackSwap, CallbackFull, CallbackStore, CallbackPop, obs
  <2>2. SameDiscards
    BY <2>1 DEF SameDiscards, Discarded, Freed
  <2>3. QED BY <1>3, <1>5, <2>1, <2>2
<1>9. CASE CallbackPush \/ CallbackPushAgain
  <2>1. /\ cb.pc # "idle" /\ CallbackReturn /\ Owed(cb.pc) \in Nat
        /\ fate' = [fate EXCEPT ![cb.msg.id] = "buffered"]
        /\ metric' = [metric EXCEPT !.backpressure = @ + Owed(cb.pc)]
    BY <1>2, <1>9 DEF CallbackPush, CallbackPushAgain, SendToBuffer
  <2>2. SameDiscards
    <3>1. /\ fate'[cb.msg.id] = "buffered"
          /\ \A m \in Messages : m # cb.msg.id => fate'[m] = fate[m]
      BY <1>2, <2>1
    <3>2. QED BY <1>2, <2>1, <3>1, DiscardSets
  <2>3. /\ metric'.backpressure = metric.backpressure + Owed(cb.pc)
        /\ metric'.termination = metric.termination
    BY <1>2, <2>1, MetricTypes
  <2>4. Owed(cb'.pc) = 0
    BY <1>6, <2>1
  <2>5. QED BY <1>2, <1>3, <1>5, <2>1, <2>2, <2>3, <2>4
<1>10. CASE CallbackDropLatest
  <2>1. /\ cb.pc = "push" /\ cb'.pc = "idle"
        /\ fate' = [fate EXCEPT ![cb.msg.id] = "returned"]
        /\ metric' = [metric EXCEPT !.backpressure = @ + 1]
    BY <1>6, <1>10 DEF CallbackDropLatest, DropLatest
  <2>2. Freed' = Freed /\ Cardinality(Discarded') = Cardinality(Discarded) + 1
    <3>1. /\ fate'[cb.msg.id] = "returned"
          /\ \A m \in Messages : m # cb.msg.id => fate'[m] = fate[m]
      BY <1>2, <2>1
    <3>2. QED BY <1>2, <2>1, <3>1, DiscardSets
  <2>3. metric'.backpressure = metric.backpressure + 1 /\ metric'.termination = metric.termination
    BY <1>2, <2>1, MetricTypes
  <2>4. QED BY <1>2, <1>4, <1>5, <2>1, <2>2, <2>3
<1>11. CASE CallbackPop /\ buffer # << >>
  <2>1. /\ TakeHead("dropped") /\ UNCHANGED <<next, metric>> /\ cb.pc = "pop"
        /\ cb'.pc = "store" /\ cb'.msg = cb.msg
    BY <1>2, <1>11 DEF CallbackPop, TakeHead
  <2>2. "dropped" \in Fates \ {"wire", "callback", "buffered"}
    BY DEF Fates
  <2>3. /\ Head(buffer).id \in Messages
        /\ fate[Head(buffer).id] = "buffered" /\ fate'[Head(buffer).id] = "dropped"
        /\ \A m \in Messages : m # Head(buffer).id => fate'[m] = fate[m]
    BY <2>1, <2>2, TakePlaced
  <2>4. Freed' = Freed /\ Cardinality(Discarded') = Cardinality(Discarded) + 1
    BY <2>3, DiscardSets
  <2>5. QED BY <1>2, <1>4, <1>5, <2>1, <2>4
<1>12. QED BY <1>7, <1>8, <1>9, <1>10, <1>11 DEF Callback

(* The counters in every step.                                             *)
LEMMA CountedInductive ==
    ASSUME Types, Types', Channels, Placed, Held, Counted, [Next]_vars
    PROVE  Counted'
<1>1. /\ loop.pc = "flag" => loop.msg \in MsgRec
      /\ \A r \in Receivers : rcv[r].pc = "flag" => rcv[r].msg \in MsgRec
      /\ term \in [pc : TermPCs, kind : {"none", "timed", "negative", "down"}, count : Nat]
      /\ metric.backpressure \in Nat /\ metric.termination \in Nat
  BY DEF Types, Metrics
<1>2. ASSUME SameDiscards, UNCHANGED <<term, closed, cb, metric>>
      PROVE  Counted'
  BY <1>2 DEF SameDiscards, Counted, Uncounted
<1>3. ASSUME NEW f \in {"consumed", "freed"}, TakeHead(f), UNCHANGED <<next, cb>>
      PROVE  /\ Head(buffer).id \in Messages
             /\ fate[Head(buffer).id] = "buffered" /\ fate'[Head(buffer).id] = f
             /\ \A m \in Messages : m # Head(buffer).id => fate'[m] = fate[m]
  <2>1. f \in Fates \ {"wire", "callback", "buffered"}
    BY DEF Fates
  <2>2. QED BY <1>3, <2>1, TakePlaced
<1>4. CASE DrainQueueOne
  <2>1. /\ TakeHead("freed") /\ UNCHANGED <<next, cb, closed, metric>> /\ term.pc = "drain"
        /\ term' = [term EXCEPT !.count = @ + 1]
    BY <1>4 DEF DrainQueueOne, TakeHead, cbVars, chans
  <2>2. term'.pc = "drain" /\ term'.count = term.count + 1
    BY <1>1, <2>1
  <2>3. /\ Cardinality(Discarded') = Cardinality(Discarded) + 1
        /\ Cardinality(Freed') = Cardinality(Freed) + 1
    BY <1>3, <2>1, DiscardSets
  <2>4. QED BY <1>1, <2>1, <2>2, <2>3 DEF Counted, Uncounted
<1>5. CASE LoopTake \/ \E r \in Receivers : ReceiveTake(r)
  <2>1. TakeHead("consumed") /\ UNCHANGED <<next, cb, closed, metric, term>>
    BY <1>5 DEF LoopTake, ReceiveTake, TakeHead, cbVars, chans
  <2>2. SameDiscards
    BY <1>3, <2>1, DiscardSets
  <2>3. QED BY <1>2, <2>1, <2>2
<1>6. CASE LoopFlag \/ \E r \in Receivers : ReceiveFlag(r)
  <2>1. UNCHANGED <<buffer, next, cb, closed, metric, term>>
    BY <1>6 DEF LoopFlag, ReceiveFlag, cbVars, chans
  <2>2. PICK msg \in MsgRec : Indicate(msg) /\ fate[msg.id] = "consumed"
    BY <1>1, <1>6 DEF LoopFlag, ReceiveFlag, Held
  <2>3. /\ msg.id \in Messages /\ fate'[msg.id] = "delivered"
        /\ \A m \in Messages : m # msg.id =>
               fate'[m] = fate[m] \/ (fate[m] = "dropped" /\ fate'[m] = "reported")
    BY <2>1, <2>2, IndicatePlaced
  <2>4. SameDiscards
    BY <2>2, <2>3 DEF SameDiscards, Discarded, Freed
  <2>5. QED BY <1>2, <2>1, <2>4
<1>7. QED
  BY <1>4, <1>5, <1>6, QuietCounted, CallbackCounted, StepKinds

(* Every message that is dropped, given back or freed is in the metrics,   *)
(* once, and Terminate reports what it freed, for any number of messages   *)
(* and wherever a termination meets the callback and the consumers.        *)
THEOREM EveryDiscardIsCounted == Spec => []MetricsCountEveryDiscard
<1> DEFINE Inv == Types /\ Channels /\ Placed /\ Held /\ Counted
<1>1. Init => Inv
  <2> SUFFICES ASSUME Init PROVE Inv
    OBVIOUS
  <2> USE DirectReceiverAssumption
  <2>1. /\ fate = [m \in Messages |-> "wire"] /\ cb.pc = "idle" /\ loop.pc = "off" /\ next = 1
        /\ \A r \in Receivers : rcv[r].pc = "idle"
        /\ buffer = << >> /\ Len(buffer) = 0
        /\ term.pc = "none" /\ term.count = 0
        /\ metric.backpressure = 0 /\ metric.termination = 0
    BY DEF Init
  <2>2. Placed
    BY <2>1 DEF Placed, Messages
  <2>3. Held
    BY <2>1 DEF Held
  <2>4. Discarded = {} /\ Freed = {}
    BY <2>1 DEF Discarded, Freed
  <2>5. Cardinality(Discarded) = 0 /\ Cardinality(Freed) = 0
    BY <2>4, FS_EmptySet
  <2>6. Counted
    BY <2>1, <2>5 DEF Counted, Uncounted
  <2>7. QED BY <2>2, <2>3, <2>6, TypesInductive
<1>2. Inv /\ [Next]_vars => Inv'
  BY TypesInductive, PlacedInductive, CountedInductive
<1>3. Inv => MetricsCountEveryDiscard
  <2> SUFFICES ASSUME Inv PROVE MetricsCountEveryDiscard
    OBVIOUS
  <2>1. term.pc # "drain" /\ cb.pc \notin {"store", "pushAgain"} =>
           metric.backpressure + metric.termination = Cardinality(Discarded)
    <3>1. metric.backpressure \in Nat /\ metric.termination \in Nat
      BY DEF Types, Metrics
    <3>2. QED BY <3>1 DEF Counted, Uncounted
  <2>2. ASSUME term.pc = "done"
        PROVE  /\ term.count = Cardinality({m \in Messages : fate[m] = "freed"})
               /\ \A m \in Messages : fate[m] \notin {"buffered", "callback"}
    <3>1. buffer = << >> /\ Len(buffer) = 0
      BY <2>2 DEF Counted, Channels
    <3>2. cb.pc = "idle"
      BY <2>2 DEF Channels
    <3>3. \A m \in Messages : fate[m] \notin {"buffered", "callback"}
      BY <3>1, <3>2 DEF Placed
    <3>4. QED BY <3>3 DEF Counted, Freed
  <2>3. QED BY <2>1, <2>2 DEF MetricsCountEveryDiscard
<1>4. QED BY <1>1, <1>2, <1>3, PTL DEF Spec

=============================================================================
