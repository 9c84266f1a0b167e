------------------------------- MODULE Iproto -------------------------------
(***************************************************************************)
(* The message formats of iproto_typedefs.h and the accessors of           *)
(* IprotoFrame (tntpp_iproto_framing.h).                                   *)
(*                                                                         *)
(* A msgpack object is [type, entries]; entries matters for maps and is a  *)
(* sequence of [key, val].  Bad stands for a key or a value of a type that *)
(* the code does not accept there, and type Truncated for bytes that are   *)
(* no complete object, on which unpack throws.                             *)
(***************************************************************************)
EXTENDS Integers, Sequences, FiniteSets, FiniteSetsExt

Bad       == -2
NoStream  == -3
Truncated == "truncated"

Map(entries) == [type |-> "map", entries |-> entries]

Scalar == [type |-> "scalar", entries |-> <<>>]

Garbage == [type |-> Truncated, entries |-> <<>>]

\* RequestType.  2^64 - 1 is written -1: no comparison of the code tells them apart.
RequestType ==
    [Ok |-> 0, Chunk |-> 128, TypeErrorBegin |-> 32768, TypeErrorEnd |-> 35225,
     Select |-> 1, Insert |-> 2, Replace |-> 3, Update |-> 4, Delete |-> 5, Auth |-> 7,
     Eval |-> 8, Upsert |-> 9, Call |-> 10, Nop |-> 12, Ping |-> 64, Id |-> 73,
     Unknown |-> -1]

FieldType ==
    [Version |-> 84, Features |-> 85, Sync |-> 1, SchemaVersion |-> 5, Timestamp |-> 4,
     SpaceId |-> 16, IndexId |-> 17, Limit |-> 18, Offset |-> 19, Iterator |-> 20,
     RequestType |-> 0, Key |-> 32, Data |-> 48, Error_24 |-> 49, StreamId |-> 10,
     Tuple |-> 33, FunctionName |-> 34, Username |-> 35, Expr |-> 39,
     AfterPosition |-> 46, AfterTuple |-> 47, FetchPosition |-> 31]

\* int_to_field_type returns a value for these, and nullopt for other integers.
KnownFields == {FieldType[f] : f \in DOMAIN FieldType}

is_error_req_type(type) ==
    type >= RequestType.TypeErrorBegin /\ type <= RequestType.TypeErrorEnd

\* The values of the enumeration TarantoolError; Unknown is 0.
TarantoolErrors == 0 .. 280

int_to_tarantool_error(code) == IF code \in TarantoolErrors THEN code ELSE 0
-----------------------------------------------------------------------------
(* MessageHeader *)

NewHeader == [request_type |-> RequestType.Unknown, sync |-> 0, schema_version |-> 0,
              stream_id |-> NoStream]

is_error(h) == is_error_req_type(h.request_type)

\* boost::system::error_code; it converts to true when its value is not 0.
ErrorCode(category, value) == [category |-> category, value |-> value]

NoError == ErrorCode("system", 0)

Raised(ec) == ec.value # 0

header_error_code(h) ==
    IF is_error(h)
    THEN ErrorCode("tarantool",
                   int_to_tarantool_error(h.request_type - RequestType.TypeErrorBegin))
    ELSE NoError

\* The fields that the conversion of a header reads.
HeaderFields ==
    {FieldType.RequestType, FieldType.Sync, FieldType.SchemaVersion, FieldType.StreamId}

\* The conversion does not throw type_error.
Convertible(o) ==
    /\ o.type = "map"
    /\ \A i \in DOMAIN o.entries :
          /\ o.entries[i].key # Bad
          /\ o.entries[i].key \in KnownFields
          /\ o.entries[i].key \in HeaderFields => o.entries[i].val # Bad

\* The value under a key, the last one if there are several.
ValueAt(o, key, default) ==
    LET at == {i \in DOMAIN o.entries : o.entries[i].key = key}
    IN  IF at = {} THEN default ELSE o.entries[Max(at)].val

convert(o) ==
    [request_type   |-> ValueAt(o, FieldType.RequestType, NewHeader.request_type),
     sync           |-> ValueAt(o, FieldType.Sync, NewHeader.sync),
     schema_version |-> ValueAt(o, FieldType.SchemaVersion, NewHeader.schema_version),
     stream_id      |-> ValueAt(o, FieldType.StreamId, NewHeader.stream_id)]

Entry(key, val) == [key |-> key, val |-> val]

pack_header(h) ==
    Map(<<Entry(FieldType.Sync, h.sync), Entry(FieldType.RequestType, h.request_type)>>
        \o IF h.stream_id = NoStream THEN <<>> ELSE <<Entry(FieldType.StreamId, h.stream_id)>>)
-----------------------------------------------------------------------------
(* IprotoFrame: a header and, here, the object its body decodes to. *)

get_error_code(header) ==
    IF is_error(header) THEN header_error_code(header) ELSE ErrorCode("tarantool", 0)

protocol_error == ErrorCode("system", 71)

\* The entries at which the search of as() for the field Data ends.
Stops(body) == {i \in DOMAIN body.entries : body.entries[i].key \in {Bad, FieldType.Data}}

\* The body is a map without the field Data.
NoData == -4

\* as() converts the value of the field Data, or throws: unpack does, the body is no
\* map, a key before Data is no integer, or the value does not convert.  Without a Data
\* it asserts "data is not present in the response message", which ends the program in a
\* build with assertions, and throws in one without.
as(body) ==
    IF body.type # "map" THEN Bad
    ELSE IF Stops(body) = {} THEN NoData
    ELSE LET e == body.entries[Min(Stops(body))]
         IN  IF e.key = Bad THEN Bad ELSE e.val

\* What as(ec) leaves in ec, in a build without assertions.  The code is not reset when
\* the conversion succeeds.
as_ec(header, body, ec) ==
    IF is_error(header) THEN get_error_code(header)
    ELSE IF as(body) \in {Bad, NoData} THEN protocol_error
    ELSE ec
=============================================================================
