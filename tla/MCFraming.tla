----------------------------- MODULE MCFraming -----------------------------
(* Small instances of Framing. *)
EXTENDS Framing

\* The bytes of a payload: headers, then bodies.
HeaderOf(type, sync) == pack_header([NewHeader EXCEPT !.request_type = type, !.sync = sync])

MCObjects ==
    1 :> HeaderOf(RequestType.Ok, 1) @@
    2 :> HeaderOf(RequestType.TypeErrorBegin + 280, 2) @@
    3 :> HeaderOf(RequestType.TypeErrorBegin + 1, 3) @@
    4 :> HeaderOf(RequestType.TypeErrorBegin, 4) @@
    5 :> HeaderOf(RequestType.TypeErrorBegin + 281, 5) @@
    6 :> Map(<<Entry(FieldType.Sync, Bad)>>) @@
    7 :> Garbage @@
    10 :> Map(<<Entry(FieldType.Error_24, 0), Entry(99, 0), Entry(FieldType.Data, 7)>>) @@
    11 :> Map(<<Entry(FieldType.Data, Bad)>>) @@
    12 :> Map(<<Entry(FieldType.Error_24, 0)>>) @@
    13 :> Scalar

Msg(len, payload) == [len |-> len, payload |-> payload]

\* Lengths of one, two, five and nine bytes; responses and errors.
Short  == Msg(<<2>>, <<1, 10>>)
Medium == Msg(<<204, 3>>, <<2, 12, 0>>)
Long   == Msg(<<206, 0, 0, 0, 2>>, <<1, 11>>)
Longer == Msg(<<207, 0, 0, 0, 0, 0, 0, 0, 2>>, <<3, 13>>)

GoodMessages == {Short, Medium, Long, Longer}

\* A signed length, which is accepted though no server sends it.
Signed == Msg(<<208, 2>>, <<1, 10>>)

\* Negative and oversized lengths, a length that is no integer, and headers that do not
\* convert or are cut off.
BadMessages ==
    {Msg(<<255>>, <<1>>), Msg(<<208, 130>>, <<1>>), Msg(<<209, 128, 2>>, <<1>>),
     Msg(<<210, 255, 255, 255, 255>>, <<1>>), Msg(<<211, 0, 0, 0, 1, 0, 0, 0, 2>>, <<1>>),
     Msg(<<144>>, <<1>>), Msg(<<2>>, <<6, 10>>), Msg(<<1>>, <<7>>)}

MCStreams == {<<Short, Long, Medium>>, <<Medium, Signed>>, <<Long, Short>>, <<Longer>>}
                \cup {<<m>> : m \in BadMessages}

\* A 16-bit length, usual for messages of 256 bytes or more; this one has 2.
LengthStreams == {<<Msg(<<205, 0, 2>>, <<1, 10>>)>>} \cup {<<m>> : m \in GoodMessages}

\* Error responses with the codes 0 and 281.
ErrorStreams == {<<m, Msg(<<2>>, <<b, 12>>)>> : m \in GoodMessages, b \in {2, 3, 4, 5}}
=============================================================================
