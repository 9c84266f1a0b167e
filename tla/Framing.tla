------------------------------ MODULE Framing ------------------------------
(***************************************************************************)
(* detail::IprotoFraming (tntpp_iproto_framing.h) over a MutableBuffer:    *)
(* receive_message cuts the bytes of a connection into frames.  It waits   *)
(* in transfer_exactly for the tag of a length, the bytes of the length    *)
(* and the message itself.                                                 *)
(*                                                                         *)
(*   heap        m_buffer                                                  *)
(*   stage       what receive_message is reading; "idle" when it is not    *)
(*               in progress                                               *)
(*   want        the argument of the transfer_exactly it is in             *)
(*   tag         the tag of the length that is being read                  *)
(*   read        the async_read that transfer_exactly waits for: the       *)
(*               buffer it fills, the bytes it must and those it has read  *)
(*   ec          the error that receive_message last completed with        *)
(*   wire        the messages the peer sends on the current connection     *)
(*   taken       how many bytes of them were read from the socket          *)
(*   delivered   every frame handed out, with its body where it is         *)
(*   nth         how many of them on the current connection                *)
(*   connections how many connections there have been                      *)
(*                                                                         *)
(* A message is [len, payload]: the encoded length, and the payload in     *)
(* which one byte stands for one encoded msgpack object, given by Objects: *)
(* the first is the header, the second the body.                           *)
(***************************************************************************)
EXTENDS MutableBuffer, Iproto, SequencesExt

CONSTANTS Streams,         \* the sequences of messages a peer may send
          Objects,         \* the object a byte of a payload stands for
          MaxConnections   \* bound: connections

VARIABLES heap, stage, want, tag, read, ec, wire, taken, delivered, nth, connections

bufferVars == <<stage, want, tag, ec, delivered, nth>>
netVars    == <<wire, connections>>
vars == <<heap, stage, want, tag, read, ec, wire, taken, delivered, nth, connections>>

NoRead == [target |-> 0, min |-> 0, got |-> 0]

\* The bytes of a sequence of messages, and those of the current connection.
BytesOf == [w \in Streams |-> FlattenSeq([i \in DOMAIN w |-> w[i].len \o w[i].payload])]

Sent == BytesOf[wire]

ASSUME StreamsAssumption ==
    \A w \in Streams : w \in Seq([len : Seq(SB!Byte), payload : Seq(SB!Byte)])

ASSUME MaxConnectionsAssumption == MaxConnections \in Nat \ {0}

Init ==
    /\ heap = MutableBuffer
    /\ stage = "idle"
    /\ want = 0
    /\ tag = 0
    /\ read = NoRead
    /\ ec = "none"
    /\ wire \in Streams
    /\ taken = 0
    /\ delivered = <<>>
    /\ nth = 0
    /\ connections = 1
-----------------------------------------------------------------------------
(* The continuations of transfer_exactly. *)

Await(s, n) ==
    /\ stage' = s
    /\ want' = n
    /\ UNCHANGED <<ec, delivered, nth>>

\* receive_message completes with an error.
Fail(error) ==
    /\ stage' = "idle"
    /\ want' = 0
    /\ ec' = error
    /\ UNCHANGED <<tag, delivered, nth>>

\* The size of the length that follows a tag: unsigned and signed integers.
UnsignedSize == [t \in {204, 206, 207} |-> CASE t = 204 -> 1 [] t = 206 -> 4 [] t = 207 -> 8]

SignedSize ==
    [t \in {208, 209, 210, 211} |-> CASE t = 208 -> 1 [] t = 209 -> 2 [] t = 210 -> 4 [] t = 211 -> 8]

LengthSize ==
    [t \in DOMAIN UnsignedSize \cup DOMAIN SignedSize |->
        IF t \in DOMAIN UnsignedSize THEN UnsignedSize[t] ELSE SignedSize[t]]

\* The bytes of a big-endian integer from its end, the part of it that fits the four of a
\* SizeType, and whether there is more.
Digit(bytes, i) == IF i < Len(bytes) THEN bytes[Len(bytes) - i] ELSE 0

AsSizeType(bytes) ==
    Digit(bytes, 0) + 256 * Digit(bytes, 1) + 65536 * Digit(bytes, 2)
        + 16777216 * Digit(bytes, 3)

ExceedsSizeType(bytes) == \E i \in 1 .. Len(bytes) - 4 : bytes[i] # 0

\* Where a message ends is told by its length: it is the one that read_message_length
\* reads, or one at which it gives up, whatever follows.
Understood(m) ==
    \/ m.len = <<Len(m.payload)>> /\ Len(m.payload) < 128
    \/ /\ m.len[1] \in DOMAIN LengthSize
       /\ Len(m.len) = 1 + LengthSize[m.len[1]]
       /\ m.len[1] \in DOMAIN UnsignedSize \/ (m.len[2] < 128 /\ ~ExceedsSizeType(Tail(m.len)))
       /\ AsSizeType(Tail(m.len)) = Len(m.payload)

Rejected(m) ==
    \/ m.len[1] \in 128 .. 255 \ DOMAIN LengthSize
    \/ /\ m.len[1] \in DOMAIN SignedSize
       /\ Len(m.len) = 1 + LengthSize[m.len[1]]
       /\ m.len[2] >= 128 \/ ExceedsSizeType(Tail(m.len))

ASSUME LegibleAssumption ==
    \A w \in Streams : \A i \in DOMAIN w :
        w[i].len # <<>> /\ (Understood(w[i]) \/ Rejected(w[i]))

\* Mutant: the tag is read as a signed number.
OnTag_signed(type) ==
    IF type \in DOMAIN LengthSize
    THEN Await("length", LengthSize[type]) /\ tag' = type
    ELSE Await("body", IF type >= 224 THEN type - 256 ELSE type % 128) /\ UNCHANGED tag

\* Mutant: 32-bit lengths are forgotten, too.
OnTag_no_32_bit(type) ==
    IF type \in DOMAIN LengthSize \ {206}
    THEN Await("length", LengthSize[type]) /\ tag' = type
    ELSE Await("body", IF type < 128 THEN type ELSE 0) /\ UNCHANGED tag

\* read_message_length, with the tag: a length of 7 bits, or a size to read, or a
\* negative number.  The tag 0xcd of 16-bit lengths is not among those it knows, and
\* every other tag leaves the length 0.
OnTag(type) ==
    \/ /\ type < 128
       /\ Await("body", type)
       /\ UNCHANGED tag
    \/ /\ type \in DOMAIN LengthSize
       /\ Await("length", LengthSize[type])
       /\ tag' = type
    \/ /\ type >= 224
       /\ Fail("message_size")
    \/ /\ type \in 128 .. 223 \ DOMAIN LengthSize
       /\ Await("body", 0)
       /\ UNCHANGED tag

\* read_message_length, with the bytes of the length.
OnLength(bytes) ==
    \/ /\ tag \in DOMAIN UnsignedSize \/ (bytes[1] < 128 /\ ~ExceedsSizeType(bytes))
       /\ Await("body", AsSizeType(bytes))
       /\ UNCHANGED tag
    \/ /\ tag \in DOMAIN SignedSize
       /\ bytes[1] >= 128 \/ ExceedsSizeType(bytes)
       /\ Fail("message_size")

\* msgpack::unpack of the first object.
unpack(bytes) == IF bytes = <<>> THEN Garbage ELSE Objects[bytes[1]]

\* receive_message, with the message.
OnBody(frozen, bytes) ==
    \/ /\ unpack(bytes).type = Truncated
       /\ Fail("state_not_recoverable")
    \/ /\ unpack(bytes).type # Truncated
       /\ ~Convertible(unpack(bytes))
       /\ Fail("illegal_byte_sequence")
    \/ /\ Convertible(unpack(bytes))
       /\ delivered' = Append(delivered, [header |-> convert(unpack(bytes)),
                                          body   |-> slice(frozen, 1)])
       /\ nth' = nth + 1
       /\ stage' = "idle"
       /\ want' = 0
       /\ UNCHANGED <<tag, ec>>

\* transfer_exactly completes with the bytes it wants, which are ready in h.
Transferred(h) ==
    LET frozen == FrozenBuffer(h, want)
        bytes  == Contents(h, frozen)
    IN  /\ heap' = advance_reader(h, want)
        /\ read' = NoRead
        /\ \/ stage = "tag" /\ OnTag(bytes[1])
           \/ stage = "length" /\ OnLength(bytes)
           \/ stage = "body" /\ OnBody(frozen, bytes)
-----------------------------------------------------------------------------
(* The receive loop and the coroutine. *)

ReceiveMessage ==
    /\ stage = "idle"
    /\ ec = "none"
    /\ stage' = "tag"
    /\ want' = 1
    /\ UNCHANGED <<heap, tag, read, ec, taken, delivered, nth, netVars>>

\* transfer_exactly finds the bytes in the buffer.
TransferReady ==
    /\ stage # "idle"
    /\ read = NoRead
    /\ SB!ready(m_buffer(heap)) >= want
    /\ Transferred(heap)
    /\ UNCHANGED <<taken, netVars>>

\* Mutant: as many bytes are waited for as if none were ready.
TransferRead_all ==
    LET h == get_receive_buffer(prepare(heap, want))
    IN  /\ stage # "idle"
        /\ read = NoRead
        /\ SB!ready(m_buffer(heap)) < want
        /\ heap' = h
        /\ read' = [target |-> Len(h), min |-> want, got |-> 0]
        /\ UNCHANGED <<bufferVars, taken, netVars>>

\* Mutant: no room is made for the bytes.
TransferRead_unprepared ==
    LET h == get_receive_buffer(heap)
    IN  /\ stage # "idle"
        /\ read = NoRead
        /\ SB!ready(m_buffer(heap)) < want
        /\ heap' = h
        /\ read' = [target |-> Len(h), min |-> want - SB!ready(m_buffer(h)), got |-> 0]
        /\ UNCHANGED <<bufferVars, taken, netVars>>

\* transfer_exactly starts to read the missing ones, and as many more as there is room.
TransferRead ==
    LET h == get_receive_buffer(prepare(heap, want))
    IN  /\ stage # "idle"
        /\ read = NoRead
        /\ SB!ready(m_buffer(heap)) < want
        /\ heap' = h
        /\ read' = [target |-> Len(h), min |-> want - SB!ready(m_buffer(h)), got |-> 0]
        /\ UNCHANGED <<bufferVars, taken, netVars>>

ReadDone ==
    /\ read # NoRead
    /\ read.got >= read.min
    /\ Transferred(advance_writer(heap, read.got))
    /\ UNCHANGED <<taken, netVars>>
-----------------------------------------------------------------------------
(* The socket: async_read calls read_some until it has the minimum. *)

ReadSome ==
    /\ read # NoRead
    /\ read.got < read.min
    /\ LET s == heap[read.target]
       IN  \E k \in 1 .. SB!free(s) - read.got :
              /\ taken + k <= Len(Sent)
              /\ heap' = [heap EXCEPT ![read.target] =
                    SB!Written(s, s.m_write_pointer + read.got,
                               SubSeq(Sent, taken + 1, taken + k))]
              /\ read' = [read EXCEPT !.got = @ + k]
              /\ taken' = taken + k
    /\ UNCHANGED <<bufferVars, netVars>>

\* The connection fails, is closed by the peer or by this side.
ReadFail ==
    /\ read # NoRead
    /\ read.got < read.min
    /\ read' = NoRead
    /\ Fail("net")
    /\ UNCHANGED <<heap, taken, netVars>>

\* After an error the receive loop resets the connection and Connection::connect makes
\* a new one, clearing the buffer before and after it.
Reconnect ==
    /\ ec # "none"
    /\ connections < MaxConnections
    /\ connections' = connections + 1
    /\ heap' = clear(clear(heap))
    /\ ec' = "none"
    /\ wire' \in Streams
    /\ taken' = 0
    /\ nth' = 0
    /\ UNCHANGED <<stage, want, tag, read, delivered>>

Terminated == ec # "none" /\ connections = MaxConnections /\ UNCHANGED vars

Next == ReceiveMessage \/ TransferReady \/ TransferRead \/ ReadDone \/ ReadSome \/ ReadFail
           \/ Reconnect \/ Terminated

Spec == Init /\ [][Next]_vars
-----------------------------------------------------------------------------
(* Properties. *)

DecodeErrors == {"message_size", "illegal_byte_sequence", "state_not_recoverable"}

\* Every variable has its type.
TypeOK ==
    /\ \A i \in DOMAIN heap :
          /\ heap[i].m_size \in Nat /\ heap[i].m_write_pointer \in Nat
          /\ heap[i].m_read_pointer \in Nat
          /\ heap[i].m_data \in Seq(SB!Byte)
    /\ stage \in {"idle", "tag", "length", "body"}
    /\ want \in Nat /\ tag \in {0} \cup DOMAIN LengthSize
    /\ read \in [target : 0 .. Len(heap), min : Nat, got : Nat]
    /\ ec \in {"none", "net"} \cup DecodeErrors
    /\ wire \in Streams /\ taken \in 0 .. Len(Sent)
    /\ nth \in 0 .. Len(delivered)
    /\ connections \in 1 .. MaxConnections

\* The assertions of SharedBuffer (tntpp_mutable_buffer.h:53, 62, 69, 75): the reader
\* never passes the writer nor the writer the end, and a read that is in progress stays
\* within the memory it was given.
PositionsOrdered ==
    /\ \A i \in DOMAIN heap :
          /\ heap[i].m_read_pointer <= heap[i].m_write_pointer
          /\ heap[i].m_write_pointer <= heap[i].m_size
    /\ read # NoRead =>
          /\ read.target = Len(heap)
          /\ read.min <= SB!free(m_buffer(heap))
          /\ read.got <= SB!free(m_buffer(heap))

\* How many bytes were read from the socket and are not consumed yet.
Unread == SB!ready(m_buffer(heap)) + read.got

\* The bytes not consumed yet are the last ones read from the socket of the current
\* connection, in order, whether the read that brought them is over or not: those copied
\* to a new buffer when one is full, too, and none is left from an earlier connection.
BytesInOrder ==
    ec = "none" =>
        /\ Unread <= taken
        /\ \A j \in 1 .. Unread :
              m_buffer(heap).m_data[m_buffer(heap).m_read_pointer + j] = Sent[taken - Unread + j]

Consumed == taken - Unread

\* Bytes are consumed only by the end of a transfer_exactly, and as many as it was asked
\* for: reading, copying to a new buffer and what happens to be read too early lose none.
NoByteLost ==
    [][ec = "none" /\ ec' = "none" =>
          Consumed' = Consumed + IF stage # "idle" /\ stage' # stage THEN want ELSE 0]_vars

\* "FrozenBuffer is immutable reference to the region in SharedBuffer"
\* (tntpp_mutable_buffer.h:89): the bytes of a frame that was handed
\* out stay what they are, whatever is read, copied or cleared after it.
FramesImmutable ==
    [][\A i \in DOMAIN delivered :
          /\ delivered'[i] = delivered[i]
          /\ Contents(heap', delivered[i].body) = Contents(heap, delivered[i].body)]_vars

\* What the peer's message contains, and what the user of a frame reads, now.
Content ==
    [m \in UNION {Range(w) : w \in Streams} |->
        [header |-> IF m.payload # <<>> /\ Convertible(unpack(m.payload))
                    THEN convert(unpack(m.payload)) ELSE NewHeader,
         body   |-> Tail(m.payload)]]

Seen(frame) == [header |-> frame.header, body |-> Contents(heap, frame.body)]

\* The stream of messages that this is.
Stream == INSTANCE MessageStream
    WITH Messages <- Range(Content),
         coming   <- [i \in 1 .. Len(wire) - nth |-> Content[wire[nth + i]]],
         handed   <- [i \in DOMAIN delivered |-> Seen(delivered[i])],
         up       <- ec = "none"

\* Frames are the peer's messages in order, whole, none skipped, repeated or taken from
\* an earlier connection, however the bytes arrive; and the memory of a frame that was
\* handed out is never written again (FrozenBuffer "is immutable").
ImplementsStream == Stream!Spec

BigEndian(bytes) ==
    LET value[i \in 0 .. Len(bytes)] == IF i = 0 THEN 0 ELSE 256 * value[i - 1] + bytes[i]
    IN  value[Len(bytes)]

\* The length of a message as msgpack defines unsigned integers.
EncodesLength(len, n) ==
    \/ Len(len) = 1 /\ len[1] < 128 /\ len[1] = n
    \/ /\ <<len[1], Len(len)>> \in {<<204, 2>>, <<205, 3>>, <<206, 5>>, <<207, 9>>}
       /\ BigEndian(Tail(len)) = n

WellFormed(m) ==
    /\ EncodesLength(m.len, Len(m.payload))
    /\ m.payload # <<>>
    /\ Convertible(unpack(m.payload))

\* A connection is given up for a decoding error only when the next message really is
\* malformed: receive_message never loses its place in the stream, and understands every
\* length it means to, "16-bit unsigned big endian" (tntpp_iproto_framing.h:416) included.
WellFormedAccepted ==
    ec \in DecodeErrors => nth < Len(wire) /\ ~WellFormed(wire[nth + 1])

\* as(ec) reports every error response, as its comment has it: it "catches exceptions and
\* forwards them as an error_code" (tntpp_iproto_framing.h:206), and as() throws for each.
ErrorReported ==
    \A i \in DOMAIN delivered :
        LET h    == delivered[i].header
            body == unpack(Contents(heap, delivered[i].body))
        IN  is_error(h) => Raised(as_ec(h, body, NoError))
-----------------------------------------------------------------------------
(* Liveness. *)

\* The receive loop calls receive_message again after every frame, the strand runs what
\* is queued on it and bytes that were sent arrive.
Fairness == /\ WF_vars(ReceiveMessage) /\ WF_vars(TransferReady) /\ WF_vars(TransferRead)
            /\ WF_vars(ReadDone) /\ WF_vars(ReadSome)

LiveSpec == Spec /\ Fairness

\* A message that has been sent is delivered without waiting for bytes beyond it, unless
\* the connection fails.
SentDelivered ==
    (ec = "none" /\ nth < Len(wire)) ~> (nth = Len(wire) \/ ec # "none")
=============================================================================
