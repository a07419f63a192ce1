-------------------------------- MODULE SDT --------------------------------
(***************************************************************************)
(* Structured data: how a Go value is written into a container of the C    *)
(* library, how the field is read back at the other end, and what the      *)
(* typed getters of sdt.Map and sdt.Stream make of it.                     *)
(*                                                                         *)
(* A datum is a record: its Go type, an integer val (the integer itself,   *)
(* 0 or 1 for a bool, a name or a token for what is only carried, an index *)
(* in Texts for a string) and its items, a sequence of keyed data, for     *)
(* maps and streams.                                                       *)
(***************************************************************************)
EXTENDS Integers, Sequences

CONSTANTS
    Bits,    \* the width of each integer type
    Texts    \* strings: do they spell a number, which one, their length,
             \* first byte, and the string left when a NUL byte ends it

SignedTypes   == {"int8", "int16", "int32", "int64", "int"}
UnsignedTypes == {"uint8", "uint16", "uint32", "uint64", "uint"}
IntegerTypes  == SignedTypes \cup UnsignedTypes

ASSUME WidthAssumption ==
    /\ Bits \in [IntegerTypes \cup {"WChar"} -> Nat \ {0}]
    /\ \A i \in DOMAIN Texts : Texts[i].untilNul \in DOMAIN Texts

Datum(t, v) == [type |-> t, val |-> v, items |-> <<>>]
Item(k, d)  == [key |-> k, data |-> d]
Nil         == Datum("nil", 0)

Least(t)    == IF t \in SignedTypes THEN -(2^(Bits[t] - 1)) ELSE 0
Greatest(t) == IF t \in SignedTypes THEN 2^(Bits[t] - 1) - 1 ELSE 2^Bits[t] - 1
InRange(n, t) == Least(t) <= n /\ n <= Greatest(t)

(* A C string ends at its first NUL byte. *)
CString(d) == IF d.type = "string" THEN [d EXCEPT !.val = Texts[d.val].untilNul] ELSE d

-----------------------------------------------------------------------------
(* Writing                                                                 *)

(* A destination in a container is a topic, written as a temporary one, or *)
(* a queue, whatever its durability.                                       *)
DestType == [topic |-> "TOPIC_TEMP", queue |-> "QUEUE", tempQueue |-> "QUEUE"]

(* The field type every other Go type is added as; a type that is in       *)
(* neither table is refused with an IllegalTypeError.                      *)
FieldType == [nil |-> "NULL", bool |-> "BOOL",
              int8 |-> "INT8", int16 |-> "INT16", int32 |-> "INT32", int64 |-> "INT64",
              uint8 |-> "UINT8", uint16 |-> "UINT16", uint32 |-> "UINT32", uint64 |-> "UINT64",
              int |-> "INT64", uint |-> "UINT64",
              float32 |-> "FLOAT", float64 |-> "DOUBLE",
              string |-> "STRING", bytes |-> "BYTEARRAY", WChar |-> "WCHAR",
              map |-> "MAP", stream |-> "STREAM"]

RECURSIVE Legal(_)
Legal(d) == /\ d.type \in DOMAIN FieldType \cup DOMAIN DestType
            /\ \A i \in DOMAIN d.items : Legal(d.items[i].data)

ContainerAdd(d)            == [type |-> FieldType[d.type], val |-> CString(d).val, items |-> <<>>]
ContainerAddDestination(d) == [type |-> DestType[d.type], val |-> d.val, items |-> <<>>]
ContainerOpenSub(d, items) == [type |-> FieldType[d.type], val |-> d.val, items |-> items]

RECURSIVE addItemToContainer(_)
(* The items of a stream have no key. *)
addItemToContainer(d) ==
    CASE d.type \in DOMAIN DestType -> ContainerAddDestination(d)
      [] d.type \in {"map", "stream"} ->
            ContainerOpenSub(d, [i \in DOMAIN d.items |->
                [key  |-> IF d.type = "map" THEN d.items[i].key ELSE "",
                 data |-> addItemToContainer(d.items[i].data)]])
      [] OTHER -> ContainerAdd(d)

-----------------------------------------------------------------------------
(* Reading                                                                 *)

(* GetData: the Go type a field is read as.  Both kinds of topic and both  *)
(* kinds of queue are one type again, and every queue a durable exclusive  *)
(* one.                                                                    *)
GoType == [NULL |-> "nil", BOOL |-> "bool",
           INT8 |-> "int8", INT16 |-> "int16", INT32 |-> "int32", INT64 |-> "int64",
           UINT8 |-> "uint8", UINT16 |-> "uint16", UINT32 |-> "uint32", UINT64 |-> "uint64",
           FLOAT |-> "float32", DOUBLE |-> "float64",
           STRING |-> "string", BYTEARRAY |-> "bytes", WCHAR |-> "WChar",
           TOPIC_TEMP |-> "topic", QUEUE |-> "queue",
           MAP |-> "map", STREAM |-> "stream"]

RECURSIVE parseData(_)
(* A field of a type the client does not know (an SMF field, or one of a   *)
(* newer library) is left out of the map or stream it is in.               *)
parseData(f) ==
    [type |-> GoType[f.type], val |-> f.val,
     items |-> [i \in DOMAIN f.items |->
                   [key |-> f.items[i].key, data |-> parseData(f.items[i].data)]]]

-----------------------------------------------------------------------------
(* Typed getters                                                           *)

Ok(t, v)   == [ok |-> TRUE, data |-> Datum(t, v)]
Failed     == [ok |-> FALSE, data |-> Nil]    \* a FormatConversionError
Unchanged(d) == [ok |-> TRUE, data |-> d]

(* The datum is printed and the digits are parsed with the target's width. *)
parseInt(d, t) ==
    CASE d.type = "bool" -> Ok(t, d.val)
      [] d.type \in IntegerTypes /\ InRange(d.val, t) -> Ok(t, d.val)
      [] d.type = "string" /\ Texts[d.val].number /\ InRange(Texts[d.val].n, t) -> Ok(t, Texts[d.val].n)
      [] OTHER -> Failed

(* strconv.ParseUint knows no sign, so a negative number does not parse. *)
parseUint(d, t) ==
    CASE d.type = "bool" -> Ok(t, d.val)
      [] d.type \in IntegerTypes /\ d.val >= 0 /\ d.val <= Greatest(t) -> Ok(t, d.val)
      [] d.type = "string" /\ Texts[d.val].number /\ Texts[d.val].n \in 0..Greatest(t) ->
            Ok(t, Texts[d.val].n)
      [] OTHER -> Failed

getInteger(d, t) == IF t \in SignedTypes THEN parseInt(d, t) ELSE parseUint(d, t)

getBool(d) ==
    CASE d.type \in {"bool"} \cup IntegerTypes -> Ok("bool", IF d.val = 0 THEN 0 ELSE 1)
      [] d.type = "string" /\ Texts[d.val].truth \in {0, 1} -> Ok("bool", Texts[d.val].truth)
      [] OTHER -> Failed

(* A float is its own type or a string that spells one. *)
getFloat(d, t) ==
    CASE d.type = t -> Unchanged(d)
      [] d.type = "string" /\ Texts[d.val].number -> Ok(t, Texts[d.val].n)
      [] OTHER -> Failed

(* An int8 is converted to the unsigned WChar, so a negative one wraps. *)
getWChar(d) ==
    CASE d.type \in {"uint8", "int8"} -> Ok("WChar", d.val % 2^Bits["WChar"])
      [] d.type = "WChar" -> Unchanged(d)
      [] d.type = "string" /\ Texts[d.val].length = 1 -> Ok("WChar", Texts[d.val].first)
      [] OTHER -> Failed

getString(d)    == IF d.type = "string" THEN Unchanged(d) ELSE Failed
getByteArray(d) == IF d.type \in {"bytes", "string"} THEN Unchanged(d) ELSE Failed

(* Maps, streams and destinations are taken as they are. *)
getResource(d, t) ==
    IF d.type = t \/ (t = "destination" /\ d.type \in {"topic", "queue", "tempQueue"})
    THEN Unchanged(d) ELSE Failed

getScalar(d, t) ==
    CASE t = "bool" -> getBool(d)
      [] t \in {"float32", "float64"} -> getFloat(d, t)
      [] t = "WChar" -> getWChar(d)
      [] t = "string" -> getString(d)
      [] t = "bytes" -> getByteArray(d)

Missing == [ok |-> FALSE, data |-> Nil]       \* KeyNotFoundError, OutOfBoundsError

HasKey(m, k) == \E i \in DOMAIN m.items : m.items[i].key = k
Elem(m, k)   == m.items[CHOOSE i \in DOMAIN m.items : m.items[i].key = k].data

MapGetInteger(m, k, t)  == IF HasKey(m, k) THEN getInteger(Elem(m, k), t) ELSE Missing
MapGetScalar(m, k, t)   == IF HasKey(m, k) THEN getScalar(Elem(m, k), t) ELSE Missing
MapGetResource(m, k, t) == IF HasKey(m, k) THEN getResource(Elem(m, k), t) ELSE Missing

(* The indices of a Go slice start at 0. *)
InBounds(s, i) == 0 <= i /\ i < Len(s.items)

StreamGetInteger(s, i, t)  == IF InBounds(s, i) THEN getInteger(s.items[i + 1].data, t) ELSE Missing
StreamGetScalar(s, i, t)   == IF InBounds(s, i) THEN getScalar(s.items[i + 1].data, t) ELSE Missing
StreamGetResource(s, i, t) == IF InBounds(s, i) THEN getResource(s.items[i + 1].data, t) ELSE Missing
=============================================================================
