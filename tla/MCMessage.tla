----------------------------- MODULE MCMessage -----------------------------
(* Two messages from one builder: the first carries the boundary values of *)
(* every type in one map or stream, the second shares the builder and replies.   *)
EXTENDS Message, TLC

(* The widths that TLC's integers allow, in the order of the real ones. *)
MCBits == [int8 |-> 8, uint8 |-> 8, int16 |-> 16, uint16 |-> 16, WChar |-> 16,
           int32 |-> 24, uint32 |-> 24, int64 |-> 30, uint64 |-> 30, int |-> 30, uint |-> 30]

Text(number, n, truth, isTrue, length, first, untilNul) ==
    [number |-> number, n |-> n, truth |-> truth, isTrue |-> isTrue,
     length |-> length, first |-> first, untilNul |-> untilNul]

(* "1", "-129", "true", "ab", "ab" NUL "c", "65536"; 9 is neither truth. *)
MCTexts == << Text(TRUE, 1, 1, FALSE, 1, 49, 1), Text(TRUE, -129, 9, FALSE, 4, 45, 2),
              Text(FALSE, 0, 1, TRUE, 4, 116, 3), Text(FALSE, 0, 9, FALSE, 2, 97, 4),
              Text(FALSE, 0, 9, FALSE, 4, 97, 4), Text(TRUE, 65536, 9, FALSE, 5, 54, 6) >>

MCSettings ==
    { <<"priority", Datum("int", 255)>>, <<"priority", Datum("int", 256)>>, <<"priority", Nil>>,
      <<"sequenceNumber", Datum("uint64", 2^30 - 1)>>, 
      <<"correlationID", Datum("string", 5)>>,
      <<"classOfService", Datum("int", 2^24 + 1)>>,
      <<"expiration", Datum("time", 1500)>>,
      <<"dmqEligible", Datum("bool", 0)>>, <<"dmqEligible", Nil>>, <<"ackImmediately", Datum("string", 3)>>,
      <<"senderID", Datum("string", 4)>>,
      <<"mine", Datum("string", 6)>>,
      <<"classOfService", Datum("int", 2)>>, <<"timeToLive", Datum("int32", 9)>>,
      <<"elidingEligible", Datum("bool", 1)>>, <<"applicationMessageID", Datum("string", 1)>>,
      <<"applicationMessageType", Datum("int", 1)>> }

MCConfigs ==
    { [p \in {"priority", "mine"} |-> IF p = "priority" THEN Datum("int", 3) ELSE Datum("uint16", 65535)],
      [p \in {"priority", "dmqEligible", "yours"} |->
          CASE p = "priority" -> Nil [] p = "yours" -> Nil [] OTHER -> Datum("bool", 0)],
      [p \in {"correlationID"} |-> Datum("string", 4)],
      [p \in {"senderID"} |-> Datum("int", 1)] }

(* Every integer type with every boundary of every type that it can hold. *)
Types  == <<"int8", "uint8", "int16", "uint16", "int32", "uint32", "int64", "uint64", "int", "uint">>
Values == <<-129, -128, -1, 0, 1, 127, 128, 255, 256, 32767, 32768, 65535, 65536, 2^23, 2^24 - 1, 2^29, 2^30 - 1>>
Boundaries == [i \in 1..(Len(Types) * Len(Values)) |->
                Datum(Types[((i - 1) % Len(Types)) + 1], Values[((i - 1) \div Len(Types)) + 1])]

Container(t, s) == [type |-> t, val |-> 0, items |-> s]
Chunk(n) == SelectSeq(SubSeq(Boundaries, n * Len(Types) + 1, (n + 1) * Len(Types)), LAMBDA d : InRange(d.val, d.type))
Others == [i \in DOMAIN MCTexts |-> Datum("string", i)]
         \o << Datum("bool", 0), Datum("bool", 1), Datum("float32", 3), Datum("float64", 3),
               Datum("WChar", 65535), Datum("bytes", 4), Datum("topic", 4), Datum("queue", 4), Nil,
               Container("map", <<Item("0", Datum("int8", -128))>>), Container("stream", <<>>) >>
Whole(t, s) == Container(t, [i \in DOMAIN s |-> Item(IF t = "map" THEN ToString(i) ELSE "", s[i])])

MCPayloads ==
    [h \in Handles |->
        IF h = "m1" THEN {Whole("stream", Chunk(n)) : n \in 0..(Len(Values) - 1)}
                         \cup {Whole("map", Others), Whole("stream", Others), Nil, Datum("string", 5),
                               Datum("bytes", 4), EmptyBytes,
                               Container("map", <<Item("0", Datum("complex", 0))>>)}
        ELSE {Nil}]

MCTraces == {[traceID |-> 1, spanID |-> 2, sampled |-> 1, traceState |-> 4],
             [traceID |-> 3, spanID |-> 4, sampled |-> 1, traceState |-> 0]}
MCRequestID == [h \in Handles |-> 1]
=============================================================================
