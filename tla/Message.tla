------------------------------ MODULE Message ------------------------------
(***************************************************************************)
(* The way of a message from the builder to the getters of the receiving   *)
(* application: properties collected by a builder that serves for several  *)
(* messages, validated and written into the message when it is built,      *)
(* overridden on the duplicate that each publish makes, and read back with *)
(* the types the getters have.  The C library stores what it is given and  *)
(* returns it (external); the conversions on both sides are the client's.  *)
(***************************************************************************)
EXTENDS SDT
LOCAL INSTANCE SequencesExt

CONSTANTS
    Handles,       \* messages the application builds, each published once
    Settings,      \* pairs <<property, datum>> the application may set
    Configs,       \* property maps it may pass to Build, Publish, ...
    Expirations,   \* times given to WithExpiration, in milliseconds
    Strings,       \* strings given as HTTP headers, as baggage or to PublishString
    PayloadsOf,    \* the payloads each message may be built with
    Traces,        \* trace contexts: a value for each part, 0 for no trace state
    Refusals,      \* parts of a trace context the library may refuse
    Answers,       \* bound: messages that are sent as replies only
    RequestID,     \* the correlation ID generated for each message as a request
    MaxSteps       \* bound: how many settings the application makes in all

VARIABLES
    builder,   \* builder.properties
    msgs,      \* the application's messages: a content, or Absent, Refused, Disposed
    wire,      \* what was published: a content, Absent or Refused
    settings,  \* history: the maps merged into the builder, in order
    asked,     \* history: what the application asked of each message it has
    sent,      \* history: asked[h] when h was published
    steps      \* bound

vars == <<builder, msgs, wire, settings, asked, sent, steps>>

(* The properties SetProperties knows, by the validation of their values;  *)
(* every other one is a user property.                                     *)
Kind == [expiration |-> "expiration", priority |-> "priority",
         httpContentType |-> "string", httpContentEncoding |-> "string",
         applicationMessageType |-> "string", applicationMessageID |-> "string",
         elidingEligible |-> "bool", correlationID |-> "string", timeToLive |-> "int64",
         dmqEligible |-> "bool", ackImmediately |-> "bool", sequenceNumber |-> "uint64",
         classOfService |-> "service", senderID |-> "string"]

Headers      == DOMAIN Kind
Nothing      == [p \in {} |-> Nil]
Single(p, d) == [q \in {p} |-> d]

Contexts == {"creation", "transport"}
Parts    == {"traceID", "spanID", "sampled", "traceState"}
Unset    == -1

Absent   == [tag |-> "absent"]
Refused  == [tag |-> "refused"]
Disposed == [tag |-> "disposed"]

NewOutboundMessage ==
    [tag |-> "message", head |-> [p \in {} |-> 0], user |-> <<>>, payload |-> Nil,
     trace |-> [k \in Contexts |-> [part \in Parts |-> Unset]], baggage |-> 0,
     dest |-> "none", mode |-> "direct", replyTo |-> "none", reply |-> FALSE]

IsMessage(c) == c.tag = "message"

(* What is asked of a message: the maps its builder had merged, the one    *)
(* its publish was given, its payload, traces and baggage.                 *)
Request(maps, payload) ==
    [maps |-> maps, override |-> Nothing, payload |-> payload,
     trace |-> [k \in Contexts |-> Absent], baggage |-> 0]

Init ==
    /\ builder = Nothing
    /\ msgs = [h \in Handles |-> Absent] /\ wire = [h \in Handles |-> Absent]
    /\ settings = <<>>
    /\ asked = [h \in Handles |-> Request(<<>>, Nil)] /\ sent = [h \in Handles |-> Request(<<>>, Nil)]
    /\ steps = 0

-----------------------------------------------------------------------------
(* Validation.  A property that is nil is left out, without an error.      *)

ToSigned(n, t) == IF n > Greatest(t) THEN n - 2^Bits[t] ELSE n

Valid(n) == [ok |-> TRUE, val |-> n]
Invalid  == [ok |-> FALSE, val |-> 0]

StringPropertyValidation(d) == IF d.type = "string" THEN Valid(d.val) ELSE Invalid

(* Go's conversion of a uint to an int keeps the bits; the float64 comes   *)
(* from JSON, and only whole numbers are considered.                       *)
IntegerPropertyValidation(d) ==
    CASE d.type \in {"int", "float64"} -> Valid(d.val)
      [] d.type = "uint" -> Valid(ToSigned(d.val, "int"))
      [] OTHER -> Invalid

IntegerPropertyValidationWithRange(d, min, max) ==
    LET v == IntegerPropertyValidation(d)
    IN IF v.ok /\ min <= v.val /\ v.val <= max THEN v ELSE Invalid

Int64PropertyValidation(d) == IF d.type \in {"int64", "int32", "int"} THEN Valid(d.val) ELSE Invalid

Uint64PropertyValidation(d) ==
    IF d.type \in {"uint64", "uint32", "uint", "int"} THEN Valid(d.val % 2^Bits["uint64"]) ELSE Invalid

BooleanPropertyValidation(d) ==
    CASE d.type = "int" -> Valid(IF d.val = 1 THEN 1 ELSE 0)
      [] d.type = "bool" -> Valid(d.val)
      [] d.type = "string" -> Valid(IF Texts[d.val].isTrue THEN 1 ELSE 0)
      [] OTHER -> Invalid

(* The setters of the wrapper.  Strings become C strings; the class of     *)
(* service becomes a 32-bit number, of which the library knows three.      *)
SetString(v) == IF v.ok THEN Valid(Texts[v.val].untilNul) ELSE v

SolClientMessageSetClassOfService(v) ==
    LET c == v.val % 2^Bits["uint32"] IN IF v.ok /\ c \in 0..2 THEN Valid(c) ELSE Invalid

(* A time is turned into milliseconds before it is validated. *)
Milliseconds(d) == IF d.type = "time" THEN Datum("int64", d.val) ELSE d

Header(p, d) ==
    CASE Kind[p] = "expiration" -> Int64PropertyValidation(Milliseconds(d))
      [] Kind[p] = "priority"   -> IntegerPropertyValidationWithRange(d, 0, 255)
      [] Kind[p] = "string"     -> SetString(StringPropertyValidation(d))
      [] Kind[p] = "bool"       -> BooleanPropertyValidation(d)
      [] Kind[p] = "int64"      -> Int64PropertyValidation(d)
      [] Kind[p] = "uint64"     -> Uint64PropertyValidation(d)
      [] Kind[p] = "service"    -> SolClientMessageSetClassOfService(IntegerPropertyValidation(d))

SetHeader(m, p, v) == [m EXCEPT !.head = [q \in DOMAIN m.head \cup {p} |-> IF q = p THEN v ELSE m.head[q]]]

(* The user properties of a map are added to those the message has. *)
AddUserProperties(m, config) ==
    LET names == SetToSeq(DOMAIN config \ Headers)
    IN [m EXCEPT !.user = @ \o [i \in DOMAIN names |-> Item(names[i], addItemToContainer(config[names[i]]))]]

(* SetProperties ends at the first property that fails and the message is  *)
(* given up, so it does not matter what was set before.                    *)
SetProperties(m, config) ==
    LET set == {p \in DOMAIN config \cap Headers : config[p] # Nil}
        ok  == /\ \A p \in set : Header(p, config[p]).ok
               /\ \A p \in DOMAIN config \ Headers : Legal(config[p])
    IN IF ~ok THEN Refused
       ELSE AddUserProperties(
                [m EXCEPT !.head = [p \in DOMAIN m.head \cup set |->
                                       IF p \in set THEN Header(p, config[p]).val ELSE m.head[p]]],
                config)

-----------------------------------------------------------------------------
(* The builder                                                             *)

mergeMessagePropertyMap(original, new) ==
    [p \in DOMAIN original \cup DOMAIN new |-> IF p \in DOMAIN new THEN new[p] ELSE original[p]]

Step == steps < MaxSteps /\ steps' = steps + 1
StepFor(config) == IF config = Nothing THEN UNCHANGED steps ELSE Step

(* A structured payload and a map of properties count as one step each. *)
Cost(payload, extra) == (IF payload.items = <<>> THEN 0 ELSE 1) + (IF extra = Nothing THEN 0 ELSE 1)

(* stored is what the code keeps, meant what the application asked for. *)
Set(stored, meant) ==
    /\ Step
    /\ builder' = mergeMessagePropertyMap(builder, stored)
    /\ settings' = Append(settings, meant)
    /\ UNCHANGED <<msgs, wire, asked, sent>>

WithProperty(p, d) == Set(Single(p, d), Single(p, d))
FromConfigurationProvider(config) == Set(config, config)

(* WithExpiration keeps the seconds of the time it is given. *)
WithExpiration(t) ==
    Set(Single("expiration", Datum("int64", (t \div 1000) * 1000)), Single("expiration", Datum("time", t)))

HTTPContentHeader(key, value) ==
    [p \in {"httpContentType", "httpContentEncoding"} |->
        Datum("string", IF p = "httpContentType" THEN key ELSE value)]
WithHTTPContentHeader(key, value) == Set(HTTPContentHeader(key, value), HTTPContentHeader(key, value))

(* A message not told otherwise may go to a dead message queue. *)
Defaults(config) ==
    IF "dmqEligible" \in DOMAIN config THEN config
    ELSE mergeMessagePropertyMap(config, Single("dmqEligible", Datum("bool", 1)))

(* Mutant: GetConfiguration returns the builder's map and not a copy. *)
AfterBuild_Shared(own, used) == used
AfterBuild(own, used) == own

(* BuildWith...Payload.  An array of no bytes, like nil, is given to the   *)
(* library as no attachment.                                               *)
EmptyBytes == Datum("bytes", 0)
WithPayload(m, payload) ==
    CASE ~IsMessage(m) \/ ~Legal(payload) -> Refused
      [] payload \in {Nil, EmptyBytes} -> m
      [] OTHER -> [m EXCEPT !.payload = addItemToContainer(payload)]

Build(h, payload, extra) ==
    LET used == Defaults(mergeMessagePropertyMap(builder, extra))
    IN /\ msgs[h] = Absent
       /\ steps + Cost(payload, extra) <= MaxSteps /\ steps' = steps + Cost(payload, extra)
       /\ msgs' = [msgs EXCEPT ![h] = WithPayload(SetProperties(NewOutboundMessage, used), payload)]
       /\ builder' = AfterBuild(builder, used)
       /\ asked' = [asked EXCEPT ![h] = Request(Append(settings, extra), payload)]
       /\ UNCHANGED <<wire, settings, sent>>

(* Dispose: the first of several calls frees the message. *)
Dispose(h) ==
    /\ IsMessage(msgs[h])
    /\ msgs' = [msgs EXCEPT ![h] = Disposed]
    /\ UNCHANGED <<builder, wire, settings, asked, sent, steps>>

-----------------------------------------------------------------------------
(* Trace contexts and baggage of a message the application holds           *)

(* The parts are set one after the other.  One that the library refuses    *)
(* keeps what was there and makes the result FALSE; a trace state that is  *)
(* not given keeps what was there too.                                     *)
SetTraceContext(old, c, failing) ==
    [part \in Parts |-> IF part = failing \/ (part = "traceState" /\ c[part] = 0) THEN old[part] ELSE c[part]]

SetContext(h, k, c, failing) ==
    /\ IsMessage(msgs[h]) /\ Step
    /\ msgs' = [msgs EXCEPT ![h].trace[k] = SetTraceContext(@, c, failing)]
    /\ asked' = [asked EXCEPT ![h].trace[k] = [tag |-> "set", context |-> c, ok |-> failing = "none"]]
    /\ UNCHANGED <<builder, wire, settings, sent>>

SetCreationTraceContext(h, c, failing)  == SetContext(h, "creation", c, failing)
SetTransportTraceContext(h, c, failing) == SetContext(h, "transport", c, failing)

(* The empty baggage, 0, deletes it. *)
Baggage(b) == IF b = 0 THEN 0 ELSE Texts[b].untilNul

SetBaggage(h, b) ==
    /\ IsMessage(msgs[h]) /\ Step
    /\ msgs' = [msgs EXCEPT ![h].baggage = Baggage(b)]
    /\ asked' = [asked EXCEPT ![h].baggage = b]
    /\ UNCHANGED <<builder, wire, settings, sent>>

-----------------------------------------------------------------------------
(* Publishing                                                              *)

(* Bound: a publish does not name a user property the message has; whether *)
(* the map then holds the key twice is for the library to say.             *)
Fresh(m, config) == \A p \in DOMAIN config \ Headers : ~ \E i \in DOMAIN m.user : m.user[i].key = p

Duplicate(h, config) == SetProperties(msgs[h], config)
Outcome(dup, m)      == IF IsMessage(dup) THEN m ELSE Refused

(* Every publish works on a duplicate, which it overrides and sends as m. *)
Publish(h, config, made, m) ==
    /\ IsMessage(msgs[h]) /\ wire[h] = Absent /\ Fresh(msgs[h], config) /\ StepFor(config)
    /\ wire' = [wire EXCEPT ![h] = Outcome(Duplicate(h, config), m)]
    /\ sent' = [sent EXCEPT ![h] = [asked[h] EXCEPT !.override = mergeMessagePropertyMap(config, made)]]
    /\ UNCHANGED <<builder, msgs, settings, asked>>

SetDestination(m, d)    == [m EXCEPT !.dest = d]
SetCorrelationID(m, id) == SetHeader(m, "correlationID", Texts[id].untilNul)

Direct(m)     == SetDestination(m, "topic")
Persistent(m) == [SetDestination(m, "topic") EXCEPT !.mode = "persistent"]

PublishWithProperties(h, config) == Publish(h, config, Nothing, Direct(Duplicate(h, config)))
PublishPersistent(h, config)     == Publish(h, config, Nothing, Persistent(Duplicate(h, config)))

PublishAwaitAcknowledgement(h, config) ==
    Publish(h, config, Single("ackImmediately", Datum("bool", 1)),
            Persistent(SetHeader(Duplicate(h, config), "ackImmediately", 1)))

(* A request carries the requestor's inbox and an ID made for it. *)
PublishRequest(h, config) ==
    Publish(h, config, Single("correlationID", Datum("string", RequestID[h])),
            SetCorrelationID([SetDestination(Duplicate(h, config), "topic") EXCEPT !.replyTo = "inbox"], RequestID[h]))

(* PublishBytes and PublishString build from the publisher's own builder. *)
PublishPayload(h, payload) ==
    /\ msgs[h] = Absent /\ wire[h] = Absent
    /\ LET built == WithPayload(SetProperties(NewOutboundMessage, Defaults(Nothing)), payload)
       IN wire' = [wire EXCEPT ![h] = Outcome(built, Direct(built))]
    /\ sent' = [sent EXCEPT ![h] = Request(<<>>, payload)]
    /\ UNCHANGED <<builder, msgs, settings, asked, steps>>

(* NewReplierImpl: a received message can be answered when it names both. *)
NewReplierImpl(m) == IsMessage(m) /\ m.replyTo # "none" /\ "correlationID" \in DOMAIN m.head

SetAsReplyMessage(m, replyToDestination, correlationID) ==
    [SetCorrelationID(SetDestination(m, replyToDestination), correlationID) EXCEPT !.reply = TRUE]

Reply(h, r) ==
    /\ NewReplierImpl(wire[r])
    /\ Publish(h, Nothing, Single("correlationID", Datum("string", RequestID[r])),
               SetAsReplyMessage(Duplicate(h, Nothing), wire[r].replyTo, wire[r].head["correlationID"]))

Next ==
    \/ \E s \in Settings : WithProperty(s[1], s[2])
    \/ \E c \in Configs : FromConfigurationProvider(c)
    \/ \E t \in Expirations : WithExpiration(t)
    \/ \E k, v \in Strings : WithHTTPContentHeader(k, v)
    \/ \E h \in Handles :
          \/ \E payload \in PayloadsOf[h], extra \in Configs \cup {Nothing} : Build(h, payload, extra)
          \/ Dispose(h)
          \/ \E c \in Traces, failing \in Refusals \cup {"none"} :
                SetCreationTraceContext(h, c, failing) \/ SetTransportTraceContext(h, c, failing)
          \/ \E b \in Strings \cup {0} : SetBaggage(h, b)
    \/ \E h \in Handles \ Answers :
          \/ \E config \in Configs \cup {Nothing} :
                \/ PublishWithProperties(h, config)
                \/ PublishPersistent(h, config)
                \/ PublishAwaitAcknowledgement(h, config)
                \/ PublishRequest(h, config)
          \/ \E t \in {"string", "bytes"}, s \in Strings : PublishPayload(h, Datum(t, s))
          \/ PublishPayload(h, EmptyBytes)
    \/ \E h \in Answers, r \in Handles : Reply(h, r)

Spec == Init /\ [][Next]_vars

-----------------------------------------------------------------------------
(* The getters of the received message                                     *)

Has(m, p)    == p \in DOMAIN m.head
OnWire(m, p) == IF Has(m, p) THEN [ok |-> TRUE, val |-> m.head[p]] ELSE [ok |-> FALSE, val |-> 0]

(* The library's getter of an unset priority gives -1. *)
GetPriority(m) ==
    LET v == IF Has(m, "priority") THEN m.head["priority"] ELSE Unset
    IN [ok |-> v # Unset, val |-> IF v # Unset THEN v ELSE 0]

GetSequenceNumber(m) ==
    LET r == OnWire(m, "sequenceNumber") IN [r EXCEPT !.val = ToSigned(@, "int64")]

GetCorrelationID(m)      == OnWire(m, "correlationID")
GetApplicationHeader(m, p) == OnWire(m, p)
GetSenderID(m)           == OnWire(m, "senderID")

(* Milliseconds are split into seconds and nanoseconds; 0 is "never". *)
SolClientMessageGetExpiration(m) ==
    LET ms == OnWire(m, "expiration").val IN Valid(((ms \div 1000) * 1000) + (ms % 1000))
GetExpiration(m)     == SolClientMessageGetExpiration(m)
GetClassOfService(m) == Valid(OnWire(m, "classOfService").val)

(* Properties without a getter are for the broker, who reads the wire. *)
Read(m, p) ==
    CASE p = "priority"       -> GetPriority(m)
      [] p = "sequenceNumber" -> GetSequenceNumber(m)
      [] p = "correlationID"  -> GetCorrelationID(m)
      [] p = "senderID"       -> GetSenderID(m)
      [] p = "expiration"     -> GetExpiration(m)
      [] p = "classOfService" -> GetClassOfService(m)
      [] Kind[p] = "string"   -> GetApplicationHeader(m, p)
      [] OTHER                -> OnWire(m, p)

GetProperties(m) == parseData([type |-> "MAP", val |-> 0, items |-> m.user])

(* The attachment is found by the getter of its own type, and by the       *)
(* getter of bytes whatever its type: what that one returns of a string, a *)
(* map or a stream is the field as the library encodes it.                 *)
Encoded == -1
BinaryAttachment(m, t) == m.payload # Nil /\ t \in {"bytes", GoType[m.payload.type]}
GetPayloadAs(m, t) ==
    CASE ~BinaryAttachment(m, t) -> Missing
      [] GoType[m.payload.type] = t -> [ok |-> TRUE, data |-> parseData(m.payload)]
      [] OTHER -> [ok |-> TRUE, data |-> Datum("bytes", Encoded)]

(* A context without a trace state is complete, one without an ID is not. *)
GetTraceContext(c) == [ok |-> \A part \in Parts \ {"traceState"} : c[part] # Unset, context |-> c]
GetCreationTraceContext(m)  == GetTraceContext(m.trace["creation"])
GetTransportTraceContext(m) == GetTraceContext(m.trace["transport"])

GetBaggage(m) == m.baggage

-----------------------------------------------------------------------------
(* What the application expects, said without the client's conversions.    *)

(* A map given to Publish overrides with what is not nil; before that, the *)
(* last map that names the property decides, and a nil there removes it.   *)
Expected(r, p) ==
    LET naming == {i \in DOMAIN r.maps : p \in DOMAIN r.maps[i]}
    IN CASE p \in DOMAIN r.override /\ r.override[p] # Nil -> r.override[p]
         [] naming # {} -> r.maps[Max(naming)][p]
         [] OTHER -> Nil

NeverAsked(p) ==
    CASE p = "dmqEligible" -> Valid(1)
      [] p \in {"expiration", "classOfService"} -> Valid(0)
      [] OTHER -> Invalid

(* Named exceptions: a string ends at a NUL byte, the getter of the        *)
(* sequence number is signed, the class of service is cut to 32 bits,      *)
(* WithExpiration drops milliseconds, a string or a number other than 1 is *)
(* false, and nil in place of dmqEligible is not the default.              *)
NulFree(d) == d.type = "string" => Texts[d.val].untilNul = d.val

Expressible(p, d) ==
    /\ NulFree(d)
    /\ p = "sequenceNumber" => InRange(d.val, "int64")
    /\ p = "classOfService" => d.val \in 0..2
    /\ p = "expiration" => (d.type = "time" => d.val % 1000 = 0)
    /\ Kind[p] = "bool" => d.type = "bool"

HeaderArrives(h, p) ==
    LET d == Expected(sent[h], p)
    IN IF d = Nil
       THEN Read(wire[h], p) = NeverAsked(p)
               \/ (p = "dmqEligible" /\ \E i \in DOMAIN sent[h].maps : p \in DOMAIN sent[h].maps[i])
       ELSE Expressible(p, d) => Read(wire[h], p) = Valid(d.val)

(* The integer a datum stands for. *)
IsNumber(d) == d.type \in IntegerTypes \cup {"bool"} \/ (d.type = "string" /\ Texts[d.val].number)
Number(d)   == IF d.type = "string" THEN Texts[d.val].n ELSE d.val

(* An integer getter returns the number that was sent whenever its type    *)
(* can hold it, and an error otherwise.                                    *)
IntegerExact(r, d, t) ==
    /\ r.ok => IsNumber(d) /\ r.data.val = Number(d)
    /\ (IsNumber(d) /\ InRange(Number(d), t)) => r.ok

(* The other getters return the datum itself when they are asked for its   *)
(* own type; the exception is a wide character from a negative int8.       *)
OtherExact(r, d, t) ==
    /\ d.type = t => r.ok /\ r.data.val = d.val
    /\ (t = "WChar" /\ r.ok /\ d.type # "string" /\ d.val >= 0) => r.data.val = d.val
    /\ (t = "bool" /\ r.ok /\ IsNumber(d)) => (r.data.val = 1) = (Number(d) # 0)

ScalarTypes   == {"bool", "float32", "float64", "WChar", "string", "bytes"}
ResourceTypes == {"map", "stream", "destination", "queue", "topic"}

(* The items of a map or stream arrive under their keys or at their places *)
(* and nothing is found elsewhere.                                         *)
ItemsArrive(got, given) ==
    /\ \A t \in IntegerTypes : ~MapGetInteger(got, "missing", t).ok
    /\ \A t \in IntegerTypes, i \in {-1, Len(given.items)} : ~StreamGetInteger(got, i, t).ok
    /\ \A i \in DOMAIN given.items :
          LET d == given.items[i].data
              k == given.items[i].key
              inMap == given.type = "map"
          IN NulFree(d) =>
               /\ \A t \in IntegerTypes :
                     IntegerExact(IF inMap THEN MapGetInteger(got, k, t) ELSE StreamGetInteger(got, i - 1, t), d, t)
               /\ \A t \in ScalarTypes :
                     OtherExact(IF inMap THEN MapGetScalar(got, k, t) ELSE StreamGetScalar(got, i - 1, t), d, t)
               /\ \A t \in ResourceTypes :
                     OtherExact(IF inMap THEN MapGetResource(got, k, t) ELSE StreamGetResource(got, i - 1, t), d, t)

UserArrives(h) ==
    LET r     == sent[h]
        asking == {r.maps[i] : i \in DOMAIN r.maps} \cup {r.override}
        names == UNION {DOMAIN config \ Headers : config \in asking}
        order == SetToSeq(names)
        got   == GetProperties(wire[h])
    IN /\ {got.items[i].key : i \in DOMAIN got.items} = names /\ Len(got.items) = Len(order)
       /\ ItemsArrive(got, [type |-> "map", items |-> [i \in DOMAIN order |-> Item(order[i], Expected(r, order[i]))]])

(* The payload is found by the getter of its type and, with two named      *)
(* exceptions, by no other: an array of no bytes is not found at all, and  *)
(* the getter of bytes finds every payload, those of another type in their *)
(* encoded form.                                                           *)
PayloadArrives(h) ==
    LET d == sent[h].payload
    IN \A t \in {"map", "stream", "string", "bytes"} :
          LET got  == GetPayloadAs(wire[h], t)
              real == d \notin {Nil, EmptyBytes}
          IN /\ got.ok = (real /\ t \in {d.type, "bytes"})
             /\ (got.ok /\ d.type = t /\ t \in {"map", "stream"}) => ItemsArrive(got.data, d)
             /\ (got.ok /\ d.type = t /\ NulFree(d)) => got.data.val = d.val

(* A trace context whose setting was reported a success is the one that is *)
(* read; the trace state, only when one was given.                         *)
TraceArrives(h, k) ==
    LET last == sent[h].trace[k]
        got  == IF k = "creation" THEN GetCreationTraceContext(wire[h]) ELSE GetTransportTraceContext(wire[h])
    IN IF last = Absent THEN ~got.ok
       ELSE last.ok => got.ok /\ \A part \in Parts : last.context[part] # 0 => got.context[part] = last.context[part]

BaggageArrives(h) ==
    LET b == sent[h].baggage IN (b = 0 \/ Texts[b].untilNul = b) => GetBaggage(wire[h]) = b

(* A received message has exactly what its own Build and Publish asked for *)
(* (the last setting of each property, the payload, traces and baggage),   *)
(* whatever else was built with the same builder before or after and       *)
(* whatever became of the application's message since; a reply has the ID  *)
(* of its request and goes to its inbox; and typed getters return what was *)
(* sent or an error, up to the exceptions named above.                     *)
ArrivesAsBuilt ==
    \A h \in Handles : IsMessage(wire[h]) =>
        /\ \A p \in Headers : HeaderArrives(h, p)
        /\ UserArrives(h) /\ PayloadArrives(h) /\ BaggageArrives(h)
        /\ \A k \in Contexts : TraceArrives(h, k)
        /\ wire[h].reply => wire[h].dest = "inbox"
=============================================================================
