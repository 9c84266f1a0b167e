------------------------- MODULE FramingRefinement -------------------------
(***************************************************************************)
(* IprotoFraming implements MessageStream, for streams of any number of    *)
(* messages of any length, read in any pieces.                             *)
(*                                                                         *)
(* The invariant InPlace says which byte of which message comes next: at   *)
(* every point of receive_message the bytes consumed so far end at the     *)
(* start of a message, after its tag or after its length.  BytesInOrder,   *)
(* proved before, then makes what transfer_exactly returns a part of that  *)
(* message, and so the frame that is handed out the message itself.        *)
(***************************************************************************)
EXTENDS FramingProofs

\* How many bytes come before each message of w.
Start(w) == CHOOSE start : LaidOut(w, start)

\* The message that is read next, and where it starts.
Message == wire[nth + 1]
Here    == Start(wire)[nth + 1]

InPlace ==
    ec = "none" =>
        /\ nth \in 0 .. Len(wire)
        /\ stage \in {"idle", "tag"} => Consumed = Here
        /\ stage \in {"length", "body"} => nth < Len(wire)
        /\ stage = "length" =>
              /\ Consumed = Here + 1
              /\ tag = Message.len[1]
              /\ tag \in DOMAIN LengthSize
              /\ want = LengthSize[tag]
        /\ stage = "body" =>
              \/ /\ Understood(Message)
                 /\ Consumed = Here + Len(Message.len)
                 /\ want = Len(Message.payload)
              \/ Message.len[1] \in 128 .. 223 \ DOMAIN LengthSize /\ want = 0

\* A connection is given up only at a message with a length or a header that is refused.
Refuses(m) == Rejected(m) \/ (Understood(m) /\ ~Convertible(unpack(m.payload)))

Refusal == ec \in DecodeErrors => nth \in 0 .. Len(wire) - 1 /\ Refuses(Message)

PlaceInv == IInv /\ InPlace /\ Refusal
-----------------------------------------------------------------------------
(* Messages and where they are. *)

LEMMA Tags ==
  /\ DOMAIN UnsignedSize = {204, 206, 207}
  /\ DOMAIN SignedSize = {208, 209, 210, 211}
  /\ DOMAIN LengthSize = {204, 206, 207, 208, 209, 210, 211}
<1>1. DOMAIN UnsignedSize = {204, 206, 207} /\ DOMAIN SignedSize = {208, 209, 210, 211}
  BY DEF UnsignedSize, SignedSize
<1>2. DOMAIN LengthSize = DOMAIN UnsignedSize \cup DOMAIN SignedSize
  BY DEF LengthSize
<1> QED
  BY <1>1, <1>2

\* Every length with a tag has bytes.
LEMMA SizesPositive ==
  ASSUME NEW t \in DOMAIN LengthSize
  PROVE  LengthSize[t] \in Nat /\ LengthSize[t] >= 1
<1>1. LengthSize[t] = IF t \in DOMAIN UnsignedSize THEN UnsignedSize[t] ELSE SignedSize[t]
  BY DEF LengthSize
<1>2. CASE t \in {204, 206, 207}
  <2>1. UnsignedSize[t] = CASE t = 204 -> 1 [] t = 206 -> 4 [] t = 207 -> 8
    BY <1>2 DEF UnsignedSize
  <2> QED
    BY <1>1, <1>2, <2>1, Tags
<1>3. CASE t \in {208, 209, 210, 211}
  <2>1. SignedSize[t] = CASE t = 208 -> 1 [] t = 209 -> 2 [] t = 210 -> 4 [] t = 211 -> 8
    BY <1>3 DEF SignedSize
  <2>2. t \notin DOMAIN UnsignedSize
    BY <1>3, Tags
  <2> QED
    BY <1>1, <1>3, <2>1, <2>2
<1> QED
  BY <1>2, <1>3, Tags

LEMMA StartLaidOut ==
  ASSUME NEW w \in Streams
  PROVE  LaidOut(w, Start(w))
<1>1. \E start : LaidOut(w, start)
  BY MessagesLaidOut
<1> QED
  BY <1>1, Zenon DEF Start

LEMMA ByteBounded ==
  ASSUME NEW b \in SB!Byte
  PROVE  b \in Nat /\ b <= 255
  BY DEF SB!Byte

\* The next message, if there is one.
LEMMA NextMessage ==
  ASSUME Scalars, nth \in 0 .. Len(wire) - 1
  PROVE  /\ wire \in Streams /\ nth \in Nat
         /\ Message.len \in Seq(SB!Byte) /\ Message.payload \in Seq(SB!Byte)
         /\ Len(Message.len) \in Nat /\ Len(Message.payload) \in Nat /\ Len(Message.len) >= 1
         /\ Message.len[1] \in Nat /\ Message.len[1] <= 255
         /\ Understood(Message) \/ Rejected(Message)
<1>1. wire \in Streams /\ nth + 1 \in 1 .. Len(wire)
  BY WireTyped DEF Scalars
<1>2. /\ DOMAIN wire = 1 .. Len(wire)
      /\ wire[nth + 1].len \in Seq(SB!Byte) /\ wire[nth + 1].payload \in Seq(SB!Byte)
  BY <1>1, WireTyped
<1>3. /\ wire[nth + 1].len # <<>>
      /\ Understood(wire[nth + 1]) \/ Rejected(wire[nth + 1])
  BY <1>1, <1>2, LegibleAssumption
<1> DEFINE l == Message.len
           p == Message.payload
<1>4. l \in Seq(SB!Byte) /\ p \in Seq(SB!Byte) /\ l # <<>>
  BY <1>2, <1>3 DEF Message
<1> HIDE DEF l, p
<1>5. Len(l) \in Nat /\ Len(p) \in Nat /\ Len(l) >= 1 /\ l[1] \in SB!Byte
  BY <1>4
<1>6. l[1] \in Nat /\ l[1] <= 255
  BY <1>5, ByteBounded
<1> QED
  BY <1>1, <1>3, <1>4, <1>5, <1>6 DEF Message, l, p

LEMMA MessageBytes ==
  ASSUME Scalars, nth \in 0 .. Len(wire) - 1
  PROVE  /\ Here \in Nat
         /\ Start(wire)[nth + 2] = Here + Len(Message.len) + Len(Message.payload)
         /\ \A j \in 1 .. Len(Message.len) : Sent[Here + j] = Message.len[j]
         /\ \A j \in 1 .. Len(Message.payload) :
               Sent[Here + Len(Message.len) + j] = Message.payload[j]
<1> DEFINE i == nth + 1
           start == Start(wire)
<1>1. wire \in Streams
  BY DEF Scalars
<1>2. i \in 1 .. Len(wire) /\ i \in 1 .. Len(wire) + 1 /\ i + 1 = nth + 2
  BY <1>1, WireTyped
<1>3. LaidOut(wire, start)
  BY <1>1, StartLaidOut
<1> HIDE DEF i, start
<1>4. /\ start[i] \in Nat
      /\ start[i + 1] = start[i] + Len(wire[i].len) + Len(wire[i].payload)
      /\ \A j \in 1 .. Len(wire[i].len) : BytesOf[wire][start[i] + j] = wire[i].len[j]
      /\ \A j \in 1 .. Len(wire[i].payload) :
            BytesOf[wire][start[i] + Len(wire[i].len) + j] = wire[i].payload[j]
  BY <1>2, <1>3 DEF LaidOut
<1> QED
  BY <1>2, <1>4 DEF Here, Message, Sent, i, start

\* There is a next message whenever there are bytes beyond the last one.
LEMMA BytesLeft ==
  ASSUME Scalars, nth \in 0 .. Len(wire), Here < Len(Sent)
  PROVE  nth \in 0 .. Len(wire) - 1
<1>1. wire \in Streams /\ Len(wire) \in Nat
  BY WireTyped DEF Scalars
<1>2. Start(wire)[Len(wire) + 1] = Len(Sent) /\ Len(Sent) \in Nat
  BY <1>1, StartLaidOut, SentBytes DEF LaidOut, Sent
<1>3. nth # Len(wire)
  BY <1>2 DEF Here
<1> QED
  BY <1>1, <1>3
-----------------------------------------------------------------------------
(* The end of a transfer_exactly. *)

\* It returns the next bytes of the stream.
LEMMA TransferredBytes ==
  ASSUME Scalars, NEW h, IsHeap(h), want <= SB!ready(m_buffer(h)),
         InOrder(m_buffer(h), SB!ready(m_buffer(h))),
         NEW c, c = taken - SB!ready(m_buffer(h)),
         NEW bytes, bytes = Contents(h, FrozenBuffer(h, want))
  PROVE  /\ bytes \in Seq(SB!Byte) /\ Len(bytes) = want
         /\ \A i \in 1 .. want : bytes[i] = Sent[c + i]
         /\ c \in Nat /\ want \in Nat /\ c + want <= Len(Sent) /\ Len(Sent) \in Nat
<1> DEFINE s == m_buffer(h)
           n == SB!ready(s)
           r == s.m_read_pointer
<1>1. Ordered(s)
  BY CurrentOrdered
<1>2. /\ s.m_size \in Nat /\ s.m_write_pointer \in Nat /\ r \in Nat /\ n \in Nat
      /\ n = s.m_write_pointer - r /\ want \in Nat /\ want <= n
      /\ s.m_write_pointer <= s.m_size
  BY <1>1, OrderedNumbers DEF Scalars, Ordered
<1>3. taken \in Nat /\ taken <= Len(Sent) /\ Len(Sent) \in Nat
  BY SentBytes
<1>4. /\ n <= taken /\ \A j \in 1 .. n : s.m_data[r + j] = Sent[taken - n + j]
  BY DEF InOrder
<1>5. c = taken - n
  OBVIOUS
<1>6. bytes = SB!Read(s, r, want)
  BY DEF Contents, FrozenBuffer, m_buffer
<1> HIDE DEF s, n, r
<1>7. r + want <= s.m_size /\ c \in Nat /\ c + want <= Len(Sent)
  <2> DEFINE size == s.m_size
             write == s.m_write_pointer
             all == Len(Sent)
  <2>1. /\ size \in Nat /\ write \in Nat /\ r \in Nat /\ n \in Nat /\ want \in Nat
        /\ taken \in Nat /\ all \in Nat
    BY <1>2, <1>3
  <2>2. /\ n = write - r /\ want <= n /\ write <= size
        /\ taken <= all /\ n <= taken /\ c = taken - n
    BY <1>2, <1>3, <1>4, <1>5
  <2> HIDE DEF size, write, all
  <2>3. r + want <= size
    BY <2>1, <2>2
  <2>4. c \in Nat /\ c + want <= all
    BY <2>1, <2>2
  <2> QED
    BY <2>3, <2>4 DEF size, all
<1>8. Reads(bytes, s, r, want)
  BY <1>1, <1>2, <1>6, <1>7, ReadBytes
<1>9. \A i \in 1 .. want : i \in 1 .. n
  BY <1>2
<1> QED
  BY <1>2, <1>3, <1>4, <1>5, <1>7, <1>8, <1>9 DEF Reads

\* What the end of a transfer_exactly knows of the step it is in.
Stepping ==
    /\ PlaceInv /\ ec = "none" /\ wire' = wire
    /\ ec' = "none" => Consumed' = Consumed + want
    /\ Consumed \in Nat /\ want \in Nat /\ Consumed + want <= Len(Sent)

\* Nothing is handed out.
Quietly == delivered' = delivered /\ nth' = nth /\ ec' \in {ec} \cup DecodeErrors

LEMMA SamePlace ==
  ASSUME wire' = wire, nth' = nth
  PROVE  Message' = Message /\ Here' = Here
  BY DEF Message, Here

LEMMA GivenUp ==
  ASSUME Stepping, nth \in 0 .. Len(wire) - 1, Refuses(Message),
         NEW e \in DecodeErrors, Fail(e)
  PROVE  InPlace' /\ Refusal' /\ Quietly
<1>1. /\ ec' = e /\ delivered' = delivered /\ nth' = nth /\ wire' = wire
  BY DEF Fail, Stepping
<1>2. Message' = Message
  BY <1>1, SamePlace
<1>3. ec' # "none"
  BY <1>1 DEF DecodeErrors
<1>4. InPlace'
  BY <1>3 DEF InPlace
<1>5. Refuses(Message)'
  BY <1>2 DEF Refuses, Rejected, Understood
<1>6. Refusal'
  BY <1>1, <1>5 DEF Refusal
<1>7. Quietly
  BY <1>1 DEF Quietly
<1> QED
  BY <1>4, <1>6, <1>7

\* A length of one byte: its first byte is the length of the payload.
LEMMA ShortMessage ==
  ASSUME Scalars, nth \in 0 .. Len(wire) - 1, Message.len[1] < 128
  PROVE  Understood(Message) /\ Len(Message.len) = 1 /\ Message.len[1] = Len(Message.payload)
<1>1. /\ Message.len[1] \in Nat
      /\ Understood(Message) \/ Rejected(Message)
      /\ Len(Message.payload) \in Nat
  BY NextMessage
<1>2. /\ Message.len[1] \notin DOMAIN LengthSize /\ Message.len[1] \notin DOMAIN SignedSize
      /\ Message.len[1] \notin 128 .. 255
  <2> DEFINE type == Message.len[1]
  <2>1. type \in Nat /\ type < 128
    BY <1>1
  <2> HIDE DEF type
  <2>2. type \notin DOMAIN LengthSize /\ type \notin DOMAIN SignedSize /\ type \notin 128 .. 255
    BY <2>1, Tags
  <2> QED
    BY <2>2 DEF type
<1>3. ~Rejected(Message)
  BY <1>2 DEF Rejected
<1>4. Message.len = <<Len(Message.payload)>>
  BY <1>1, <1>2, <1>3 DEF Understood
<1> QED
  BY <1>1, <1>3, <1>4

\* A length with a tag: it has as many bytes as the tag says.
LEMMA TaggedMessage ==
  ASSUME Scalars, nth \in 0 .. Len(wire) - 1, Message.len[1] \in DOMAIN LengthSize
  PROVE  /\ Len(Message.len) = 1 + LengthSize[Message.len[1]]
         /\ Tail(Message.len) \in Seq(SB!Byte)
         /\ Len(Tail(Message.len)) = LengthSize[Message.len[1]]
         /\ \A i \in 1 .. LengthSize[Message.len[1]] : Tail(Message.len)[i] = Message.len[1 + i]
<1> DEFINE l == Message.len
           n == LengthSize[l[1]]
<1>1. /\ l \in Seq(SB!Byte) /\ Len(l) >= 1 /\ l[1] \in Nat
      /\ Understood(Message) \/ Rejected(Message)
      /\ Len(Message.payload) \in Nat
  BY NextMessage
<1>2. n \in Nat
  BY LengthSizes
<1>3. l # <<Len(Message.payload)>> \/ ~(Len(Message.payload) < 128)
  BY <1>1, Tags
<1>4. Len(l) = 1 + n
  BY <1>1, <1>3 DEF Understood, Rejected
<1> HIDE DEF n, l
<1>5. l # <<>>
  BY <1>1
<1>6. /\ Tail(l) \in Seq(SB!Byte) /\ Len(Tail(l)) = Len(l) - 1
      /\ \A i \in 1 .. Len(l) - 1 : Tail(l)[i] = l[i + 1]
  BY <1>1, <1>5
<1>7. Len(l) - 1 = n /\ \A i \in 1 .. n : i + 1 = 1 + i
  BY <1>2, <1>4
<1> QED
  BY <1>4, <1>6, <1>7 DEF l, n

\* Awaiting a part of the same message.
LEMMA AwaitedPlace ==
  ASSUME Stepping, nth \in 0 .. Len(wire) - 1, NEW n,
         \/ Await("length", n) /\ tag' = Message.len[1] /\ Consumed + want = Here + 1
            /\ tag' \in DOMAIN LengthSize /\ n = LengthSize[Message.len[1]]
         \/ Await("body", n) /\ Understood(Message) /\ n = Len(Message.payload)
            /\ Consumed + want = Here + Len(Message.len)
         \/ Await("body", n) /\ n = 0 /\ Message.len[1] \in 128 .. 223 \ DOMAIN LengthSize
  PROVE  InPlace' /\ Refusal' /\ Quietly
<1>1. /\ wire' = wire /\ ec = "none" /\ ec' = "none" /\ delivered' = delivered /\ nth' = nth
      /\ want' = n /\ Consumed' = Consumed + want
  BY DEF Await, Stepping
<1>2. Message' = Message /\ Here' = Here
  BY <1>1, SamePlace
<1>3. Quietly
  BY <1>1 DEF Quietly
<1>4. Refusal'
  BY <1>1 DEF Refusal, DecodeErrors
<1>5. nth' \in 0 .. Len(wire') /\ nth' < Len(wire')
  BY <1>1, WireTyped DEF Stepping, PlaceInv, IInv, Scalars
<1>6. CASE /\ Await("length", n) /\ tag' = Message.len[1] /\ Consumed + want = Here + 1
           /\ tag' \in DOMAIN LengthSize /\ n = LengthSize[Message.len[1]]
  <2>1. stage' = "length"
    BY <1>6 DEF Await
  <2> QED
    BY <1>1, <1>2, <1>3, <1>4, <1>5, <1>6, <2>1 DEF InPlace
<1>7. CASE /\ Await("body", n) /\ Understood(Message) /\ n = Len(Message.payload)
           /\ Consumed + want = Here + Len(Message.len)
  <2>1. stage' = "body"
    BY <1>7 DEF Await
  <2>2. Understood(Message)'
    BY <1>2, <1>7 DEF Understood
  <2> QED
    BY <1>1, <1>2, <1>3, <1>4, <1>5, <1>7, <2>1, <2>2 DEF InPlace
<1>8. CASE Await("body", n) /\ n = 0 /\ Message.len[1] \in 128 .. 223 \ DOMAIN LengthSize
  <2>1. stage' = "body"
    BY <1>8 DEF Await
  <2> QED
    BY <1>1, <1>2, <1>3, <1>4, <1>5, <1>8, <2>1 DEF InPlace
<1> QED
  BY <1>6, <1>7, <1>8

LEMMA TagPlace ==
  ASSUME Stepping, stage = "tag", OnTag(Sent[Consumed + 1])
  PROVE  InPlace' /\ Refusal' /\ Quietly
<1>1. Scalars /\ want = 1 /\ Consumed = Here /\ nth \in 0 .. Len(wire)
  BY DEF Stepping, PlaceInv, IInv, Quiet, InPlace
<1>2. Consumed \in Nat /\ Consumed + 1 <= Len(Sent) /\ Len(Sent) \in Nat
  BY <1>1, SentBytes DEF Stepping
<1>3. nth \in 0 .. Len(wire) - 1
  BY <1>1, <1>2, BytesLeft
<1> DEFINE type == Message.len[1]
<1>4. type \in Nat /\ type <= 255 /\ Len(Message.len) \in Nat /\ Len(Message.len) >= 1
  BY <1>1, <1>3, NextMessage
<1>5. Sent[Consumed + 1] = type
  <2>1. 1 \in 1 .. Len(Message.len)
    BY <1>4
  <2> QED
    BY <1>1, <1>3, <2>1, MessageBytes
<1> HIDE DEF type
<1>6. OnTag(type)
  BY <1>5
<1>7. CASE type < 128 /\ Await("body", type) /\ UNCHANGED tag
  <2>1. Understood(Message) /\ Len(Message.len) = 1 /\ type = Len(Message.payload)
    BY <1>1, <1>3, <1>7, ShortMessage DEF type
  <2> QED
    BY <1>1, <1>3, <1>7, <2>1, AwaitedPlace
<1>8. CASE type \in DOMAIN LengthSize /\ Await("length", LengthSize[type]) /\ tag' = type
  BY <1>1, <1>3, <1>8, AwaitedPlace DEF type
<1>9. CASE type >= 224 /\ Fail("message_size")
  <2>1. type \in 128 .. 255 \ DOMAIN LengthSize
    BY <1>4, <1>9, Tags
  <2>2. Refuses(Message)
    BY <2>1 DEF Refuses, Rejected, type
  <2> QED
    BY <1>3, <1>9, <2>2, GivenUp DEF DecodeErrors
<1>10. CASE type \in 128 .. 223 \ DOMAIN LengthSize /\ Await("body", 0) /\ UNCHANGED tag
  BY <1>3, <1>10, AwaitedPlace DEF type
<1> QED
  BY <1>6, <1>7, <1>8, <1>9, <1>10 DEF OnTag

LEMMA LengthPlace ==
  ASSUME Stepping, stage = "length", NEW bytes \in Seq(SB!Byte), Len(bytes) = want,
         \A i \in 1 .. want : bytes[i] = Sent[Consumed + i], OnLength(bytes)
  PROVE  InPlace' /\ Refusal' /\ Quietly
<1> DEFINE type == Message.len[1]
           n == LengthSize[type]
           rest == Tail(Message.len)
<1>1. /\ Scalars /\ nth \in 0 .. Len(wire) /\ nth < Len(wire) /\ Consumed = Here + 1
      /\ tag = type /\ type \in DOMAIN LengthSize /\ want = n
  BY DEF Stepping, PlaceInv, IInv, InPlace
<1>2. nth \in 0 .. Len(wire) - 1
  BY <1>1, WireTyped DEF Scalars
<1>3. /\ Len(Message.len) = 1 + n /\ rest \in Seq(SB!Byte) /\ Len(rest) = n
      /\ \A i \in 1 .. n : rest[i] = Message.len[1 + i]
  BY <1>1, <1>2, TaggedMessage
<1>4. /\ Here \in Nat
      /\ \A j \in 1 .. Len(Message.len) : Sent[Here + j] = Message.len[j]
  BY <1>1, <1>2, MessageBytes
<1>5. n \in Nat
  BY <1>1, LengthSizes
<1> HIDE DEF n, rest
<1>6. ASSUME NEW i \in 1 .. n PROVE bytes[i] = rest[i]
  <2>1. 1 + i \in 1 .. 1 + n /\ (Here + 1) + i = Here + (1 + i)
    BY <1>4, <1>5
  <2>2. bytes[i] = Sent[Consumed + i]
    BY <1>1, <1>6
  <2>3. Sent[Here + (1 + i)] = Message.len[1 + i]
    BY <1>3, <1>4, <2>1
  <2>4. rest[i] = Message.len[1 + i]
    BY <1>3, <1>6
  <2> QED
    BY <1>1, <2>1, <2>2, <2>3, <2>4
<1>7. bytes = rest
  BY <1>1, <1>3, <1>6, SeqEqual
<1>8. n >= 1
  <2>1. type \in DOMAIN LengthSize
    BY <1>1
  <2> QED
    BY <2>1, SizesPositive DEF n
<1>9. rest[1] = Message.len[2]
  <2>1. 1 \in 1 .. n /\ 1 + 1 = 2
    BY <1>5, <1>8
  <2> QED
    BY <1>3, <2>1
<1>10. Understood(Message) \/ Rejected(Message)
  BY <1>1, <1>2, NextMessage
<1>11. CASE /\ tag \in DOMAIN UnsignedSize \/ (bytes[1] < 128 /\ ~ExceedsSizeType(bytes))
            /\ Await("body", AsSizeType(bytes)) /\ UNCHANGED tag
  <2>1. ~Rejected(Message)
    <3>1. type \notin 128 .. 255 \ DOMAIN LengthSize
      BY <1>1
    <3>2. type \in DOMAIN UnsignedSize => type \notin DOMAIN SignedSize
      BY Tags
    <3>3. rest[1] < 128 => ~(rest[1] >= 128)
      <4>1. rest[1] \in SB!Byte
        BY <1>3, <1>5, <1>8
      <4>2. rest[1] \in Nat
        BY <4>1, ByteBounded
      <4> QED
        BY <4>2
    <3> QED
      BY <1>1, <1>7, <1>9, <1>11, <3>1, <3>2, <3>3 DEF Rejected, rest
  <2>2. Understood(Message)
    BY <1>10, <2>1
  <2>3. AsSizeType(rest) = Len(Message.payload)
    <3>1. ~(Message.len = <<Len(Message.payload)>>)
      <4>1. Len(<<Len(Message.payload)>>) = 1
        OBVIOUS
      <4>2. Len(Message.len) # 1
        BY <1>3, <1>5, <1>8
      <4> QED
        BY <4>1, <4>2
    <3> QED
      BY <2>2, <3>1 DEF Understood, rest
  <2>4. Consumed + want = Here + Len(Message.len)
    BY <1>1, <1>3, <1>4, <1>5
  <2> QED
    BY <1>2, <1>7, <1>11, <2>2, <2>3, <2>4, AwaitedPlace
<1>12. CASE /\ tag \in DOMAIN SignedSize
            /\ bytes[1] >= 128 \/ ExceedsSizeType(bytes)
            /\ Fail("message_size")
  <2>1. Rejected(Message)
    BY <1>1, <1>3, <1>7, <1>9, <1>12 DEF Rejected, rest, n
  <2>2. Refuses(Message)
    BY <2>1 DEF Refuses
  <2> QED
    BY <1>2, <1>12, <2>2, GivenUp DEF DecodeErrors
<1> QED
  BY <1>11, <1>12 DEF OnLength

\* The message that comes next is handed out, its body in the memory of frozen.
HandsOut(frozen, bytes) ==
    /\ nth \in 0 .. Len(wire) - 1 /\ nth' = nth + 1 /\ ec' = ec
    /\ bytes = Message.payload /\ bytes # <<>> /\ Convertible(unpack(bytes))
    /\ delivered' = Append(delivered, [header |-> convert(unpack(bytes)),
                                       body   |-> slice(frozen, 1)])

LEMMA NothingConvertible ==
  ~Convertible(unpack(<<>>))
  BY DEF unpack, Convertible, Garbage, Truncated

LEMMA BodyPlace ==
  ASSUME Stepping, stage = "body", NEW bytes \in Seq(SB!Byte), Len(bytes) = want,
         \A i \in 1 .. want : bytes[i] = Sent[Consumed + i],
         NEW frozen, OnBody(frozen, bytes)
  PROVE  InPlace' /\ Refusal' /\ (Quietly \/ HandsOut(frozen, bytes))
<1> DEFINE m == Message
<1>1. /\ Scalars /\ nth \in 0 .. Len(wire) /\ nth < Len(wire) /\ ec = "none" /\ wire' = wire
      /\ \/ Understood(m) /\ Consumed = Here + Len(m.len) /\ want = Len(m.payload)
         \/ m.len[1] \in 128 .. 223 \ DOMAIN LengthSize /\ want = 0
  BY DEF Stepping, PlaceInv, IInv, InPlace
<1>2. nth \in 0 .. Len(wire) - 1
  BY <1>1, WireTyped DEF Scalars
<1>3. /\ m.payload \in Seq(SB!Byte) /\ Len(m.len) \in Nat /\ Len(m.payload) \in Nat
      /\ nth \in Nat
  BY <1>1, <1>2, NextMessage
<1>4. /\ Here \in Nat
      /\ Start(wire)[nth + 2] = Here + Len(m.len) + Len(m.payload)
      /\ \A j \in 1 .. Len(m.payload) : Sent[Here + Len(m.len) + j] = m.payload[j]
  BY <1>1, <1>2, MessageBytes
<1> HIDE DEF m
<1>5. ASSUME ~Convertible(unpack(bytes))
      PROVE  Refuses(m)
  <2>1. CASE Understood(m) /\ Consumed = Here + Len(m.len) /\ want = Len(m.payload)
    <3>1. bytes = m.payload
      <4>1. \A i \in 1 .. want : bytes[i] = m.payload[i]
        BY <1>4, <2>1
      <4> QED
        BY <1>3, <2>1, <4>1, SeqEqual
    <3> QED
      BY <1>5, <2>1, <3>1 DEF Refuses
  <2>2. CASE m.len[1] \in 128 .. 223 \ DOMAIN LengthSize
    <3>1. m.len[1] \in 128 .. 255 \ DOMAIN LengthSize
      BY <2>2
    <3> QED
      BY <3>1 DEF Refuses, Rejected
  <2> QED
    BY <1>1, <2>1, <2>2
<1>6. CASE unpack(bytes).type = Truncated /\ Fail("state_not_recoverable")
  <2>1. ~Convertible(unpack(bytes))
    BY <1>6 DEF Convertible, Truncated
  <2> QED
    BY <1>2, <1>5, <1>6, <2>1, GivenUp DEF DecodeErrors, m
<1>7. CASE ~Convertible(unpack(bytes)) /\ Fail("illegal_byte_sequence")
  BY <1>2, <1>5, <1>7, GivenUp DEF DecodeErrors, m
<1>8. CASE /\ Convertible(unpack(bytes))
           /\ delivered' = Append(delivered, [header |-> convert(unpack(bytes)),
                                              body   |-> slice(frozen, 1)])
           /\ nth' = nth + 1 /\ stage' = "idle" /\ want' = 0 /\ UNCHANGED <<tag, ec>>
  <2>1. bytes # <<>> /\ want # 0
    <3>1. bytes # <<>>
      BY <1>8, NothingConvertible
    <3> QED
      BY <3>1
  <2>2. /\ Consumed = Here + Len(m.len) /\ want = Len(m.payload)
    BY <1>1, <2>1
  <2>3. bytes = m.payload
    <3>1. \A i \in 1 .. want : bytes[i] = m.payload[i]
      BY <1>4, <2>2
    <3> QED
      BY <1>3, <2>2, <3>1, SeqEqual
  <2>4. HandsOut(frozen, bytes)
    BY <1>2, <1>8, <2>1, <2>3 DEF HandsOut, m
  <2>5. ec' = "none" /\ stage' = "idle" /\ nth' = nth + 1
    BY <1>1, <1>8
  <2>6. Consumed' = Here + Len(m.len) + Len(m.payload)
    <3>1. Consumed' = Consumed + want
      BY <2>5 DEF Stepping
    <3> QED
      BY <1>3, <1>4, <2>2, <3>1
  <2>7. Here' = Start(wire)[nth + 2]
    <3>1. nth' + 1 = nth + 2
      BY <1>3, <2>5
    <3>2. Here' = Start(wire')[nth' + 1]
      BY DEF Here
    <3> QED
      BY <1>1, <3>1, <3>2
  <2>8. nth' \in 0 .. Len(wire')
    BY <1>1, <1>2, <2>5, WireTyped DEF Scalars
  <2>9. InPlace'
    BY <1>4, <2>5, <2>6, <2>7, <2>8 DEF InPlace
  <2>10. Refusal'
    BY <2>5 DEF Refusal, DecodeErrors
  <2> QED
    BY <2>4, <2>9, <2>10
<1> QED
  BY <1>6, <1>7, <1>8 DEF OnBody

\* The memory of the frame holds the message without its header.
LEMMA FrameBody ==
  ASSUME NEW h, IsHeap(h), want \in Nat, want >= 1, want <= SB!ready(m_buffer(h)),
         NEW g, g = advance_reader(h, want),
         NEW frozen, frozen = FrozenBuffer(h, want), NEW bytes, bytes = Contents(h, frozen)
  PROVE  Contents(g, slice(frozen, 1)) = Tail(bytes)
<1> DEFINE s == m_buffer(h)
           t == SB!advance_reader(s, want)
           r == s.m_read_pointer
           size == s.m_size
           body == slice(frozen, 1)
           d == Contents(g, body)
<1>1. Ordered(s) /\ Len(h) \in Nat
  BY CurrentOrdered DEF IsHeap
<1>2. /\ size \in Nat /\ s.m_write_pointer \in Nat /\ r \in Nat
      /\ want <= s.m_write_pointer - r /\ s.m_write_pointer <= size
  BY <1>1, OrderedNumbers DEF Ordered
<1>3. Moved(g, h, t)
  BY AdvanceReaderHeap
<1>4. Ordered(t) /\ t.m_size = size /\ t.m_data = s.m_data
  BY <1>1, ReaderOrdered
<1>5. g[Len(h)] = t
  BY <1>3 DEF Moved, m_buffer
<1>6. frozen = [m_data |-> r, m_size |-> want, m_buf |-> Len(h)]
  BY DEF FrozenBuffer
<1>7. bytes = SB!Read(s, r, want)
  BY <1>6 DEF Contents, m_buffer
<1>8. body.m_data = r + 1 /\ body.m_size = want - 1 /\ body.m_buf = Len(h)
  <2>1. frozen \in FrozenBuffers
    BY <1>1, <1>2, <1>6 DEF FrozenBuffers
  <2>2. body = [frozen EXCEPT !.m_data = frozen.m_data + 1, !.m_size = frozen.m_size - 1]
    BY DEF slice
  <2>3. frozen.m_data = r /\ frozen.m_size = want /\ frozen.m_buf = Len(h)
    BY <1>6
  <2> HIDE DEF body, r
  <2>4. /\ body.m_data = frozen.m_data + 1 /\ body.m_size = frozen.m_size - 1
        /\ body.m_buf = frozen.m_buf
    BY <2>1, <2>2 DEF FrozenBuffers
  <2> QED
    BY <2>3, <2>4
<1> HIDE DEF s, t, r, size, body
<1>9. d = SB!Read(t, r + 1, want - 1)
  BY <1>5, <1>8 DEF Contents
<1>10. /\ r + want <= size /\ r + 1 \in Nat /\ want - 1 \in Nat
       /\ (r + 1) + (want - 1) <= size
  BY <1>2
<1> HIDE DEF d
<1>11. Reads(bytes, s, r, want)
  BY <1>1, <1>2, <1>7, <1>10, ReadBytes DEF size
<1>12. Reads(d, t, r + 1, want - 1)
  <2> DEFINE a == r + 1
             b == want - 1
  <2>1. a \in Nat /\ b \in Nat /\ a + b <= t.m_size /\ d = SB!Read(t, a, b)
    BY <1>4, <1>9, <1>10
  <2> HIDE DEF a, b
  <2>2. Reads(d, t, a, b)
    BY <1>4, <2>1, ReadBytes
  <2> QED
    BY <2>2 DEF a, b
<1>13. /\ bytes \in Seq(SB!Byte) /\ Len(bytes) = want
       /\ \A i \in 1 .. want : bytes[i] = s.m_data[r + i]
  BY <1>11 DEF Reads
<1>14. /\ d \in Seq(SB!Byte) /\ Len(d) = want - 1
       /\ \A i \in 1 .. want - 1 : d[i] = s.m_data[(r + 1) + i]
  BY <1>4, <1>12 DEF Reads
<1>15. /\ Tail(bytes) \in Seq(SB!Byte) /\ Len(Tail(bytes)) = want - 1
       /\ \A i \in 1 .. want - 1 : Tail(bytes)[i] = bytes[i + 1]
  <2>1. bytes # <<>>
    BY <1>13
  <2> QED
    BY <1>13, <2>1
<1>16. ASSUME NEW i \in 1 .. want - 1 PROVE d[i] = Tail(bytes)[i]
  <2>1. i + 1 \in 1 .. want /\ (r + 1) + i = r + (i + 1)
    BY <1>2
  <2>2. bytes[i + 1] = s.m_data[r + (i + 1)]
    BY <1>13, <2>1
  <2>3. d[i] = s.m_data[(r + 1) + i]
    BY <1>14
  <2>4. Tail(bytes)[i] = bytes[i + 1]
    BY <1>15
  <2> QED
    BY <2>1, <2>2, <2>3, <2>4
<1>17. d = Tail(bytes)
  BY <1>14, <1>15, <1>16, SeqEqual
<1> QED
  BY <1>17 DEF d, body

\* f is the message that comes next, and is handed out.
HandedOut(f) ==
    /\ nth \in 0 .. Len(wire) - 1 /\ nth' = nth + 1 /\ ec' = ec
    /\ delivered' = Append(delivered, f)
    /\ Message.payload # <<>> /\ Convertible(unpack(Message.payload))
    /\ f.header = convert(unpack(Message.payload))
    /\ Contents(heap', f.body) = Tail(Message.payload)

\* What a step does to the stream.
Goes == Quietly \/ \E f : HandedOut(f)

LEMMA TransferPlace ==
  ASSUME PlaceInv, NEW h, IsHeap(h), Kept(heap, h), stage # "idle", ec = "none",
         want <= SB!ready(m_buffer(h)), InOrder(m_buffer(h), SB!ready(m_buffer(h))),
         Consumed = taken - SB!ready(m_buffer(h)),
         Transferred(h), UNCHANGED <<taken, netVars>>
  PROVE  InPlace' /\ Refusal' /\ Goes
<1> DEFINE frozen == FrozenBuffer(h, want)
           bytes == Contents(h, frozen)
           n == SB!ready(m_buffer(h))
<1>1. IInv /\ Scalars /\ wire' = wire /\ taken' = taken
  BY DEF PlaceInv, IInv, netVars
<1>2. /\ bytes \in Seq(SB!Byte) /\ Len(bytes) = want
      /\ \A i \in 1 .. want : bytes[i] = Sent[Consumed + i]
      /\ Consumed \in Nat /\ want \in Nat /\ Consumed + want <= Len(Sent)
  BY <1>1, TransferredBytes
<1>3. Unread' = n - want
  BY <1>1, TransferKeepsInv
<1>4. n \in Nat /\ taken \in Nat
  BY <1>1, CurrentOrdered, OrderedNumbers, SentBytes
<1>5. heap' = advance_reader(h, want)
  BY DEF Transferred
<1>6. \/ stage = "tag" /\ OnTag(bytes[1])
      \/ stage = "length" /\ OnLength(bytes)
      \/ stage = "body" /\ OnBody(frozen, bytes)
  BY DEF Transferred
<1>7. Consumed' = Consumed + want
  <2>1. Consumed' = taken' - Unread'
    BY DEF Consumed
  <2> QED
    BY <1>1, <1>2, <1>3, <1>4, <2>1
<1>8. frozen = FrozenBuffer(h, want) /\ bytes = Contents(h, frozen)
  OBVIOUS
<1> HIDE DEF frozen, bytes
<1>9. Stepping
  BY <1>1, <1>2, <1>7 DEF Stepping
<1>10. CASE stage = "tag" /\ OnTag(bytes[1])
  <2>1. want = 1
    BY <1>1, <1>10 DEF IInv, Quiet
  <2>2. bytes[1] = Sent[Consumed + 1]
    BY <1>2, <2>1
  <2> QED
    BY <1>9, <1>10, <2>2, TagPlace DEF Goes
<1>11. CASE stage = "length" /\ OnLength(bytes)
  BY <1>2, <1>9, <1>11, LengthPlace DEF Goes
<1>12. CASE stage = "body" /\ OnBody(frozen, bytes)
  <2>1. InPlace' /\ Refusal' /\ (Quietly \/ HandsOut(frozen, bytes))
    BY <1>2, <1>9, <1>12, BodyPlace
  <2>2. ASSUME HandsOut(frozen, bytes)
        PROVE  \E f : HandedOut(f)
    <3> DEFINE f == [header |-> convert(unpack(bytes)), body |-> slice(frozen, 1)]
    <3>1. bytes = Message.payload /\ bytes # <<>>
      BY <2>2 DEF HandsOut
    <3>2. want >= 1
      BY <1>2, <3>1
    <3>3. Contents(heap', slice(frozen, 1)) = Tail(bytes)
      BY <1>2, <1>5, <1>8, <3>2, FrameBody
    <3>4. f.header = convert(unpack(bytes)) /\ f.body = slice(frozen, 1)
      OBVIOUS
    <3>5. delivered' = Append(delivered, f)
      BY <2>2 DEF HandsOut
    <3> HIDE DEF f
    <3>6. HandedOut(f)
      BY <2>2, <3>1, <3>3, <3>4, <3>5 DEF HandsOut, HandedOut
    <3> QED
      BY <3>6
  <2> QED
    BY <2>1, <2>2 DEF Goes
<1> QED
  BY <1>6, <1>10, <1>11, <1>12
-----------------------------------------------------------------------------
(* The steps. *)

\* What every step does to the place in the stream: one of those of a connection, or the
\* failure of the connection, or its replacement.
Steps ==
    \/ wire' = wire /\ ec = "none" /\ Goes
    \/ wire' = wire /\ nth' = nth /\ delivered' = delivered /\ ec = "none" /\ ec' # "none"
    \/ ec # "none" /\ ec' = "none" /\ delivered' = delivered /\ wire' \in Streams /\ nth' = 0
    \/ wire' = wire /\ nth' = nth /\ delivered' = delivered /\ ec' = ec

PlaceKept == InPlace' /\ Refusal' /\ Steps

\* A step that consumes nothing.
LEMMA WaitingPlace ==
  ASSUME PlaceInv, Consumed' = Consumed, wire' = wire, nth' = nth, delivered' = delivered,
         ec' = ec, tag' = tag,
         \/ stage' = stage /\ want' = want
         \/ stage = "idle" /\ stage' = "tag"
  PROVE  PlaceKept
<1>1. Message' = Message /\ Here' = Here
  BY SamePlace
<1>2. Understood(Message)' = Understood(Message) /\ Rejected(Message)' = Rejected(Message)
  BY <1>1 DEF Understood, Rejected
<1>3. InPlace'
  BY <1>1, <1>2 DEF PlaceInv, InPlace
<1>4. Refuses(Message)' = Refuses(Message)
  BY <1>1, <1>2 DEF Refuses
<1>5. Refusal'
  BY <1>4 DEF PlaceInv, Refusal
<1> QED
  BY <1>3, <1>5 DEF PlaceKept, Steps

LEMMA StepConsumes ==
  ASSUME IInv, [Next]_vars
  PROVE  /\ IInv'
         /\ ec = "none" /\ ec' = "none" /\ (stage = "idle" \/ stage' = stage)
               => Consumed' = Consumed
<1>1. IInv' /\ Advances
  BY NextKeeps DEF StepKeeps
<1>2. Consumed \in Int
  BY Numbers DEF Consumed
<1> QED
  BY <1>1, <1>2 DEF Advances

LEMMA UnreadNext ==
  ASSUME IInv'
  PROVE  Unread' \in Nat
<1>1. IsHeap(heap')
  BY DEF IInv
<1>2. SB!ready(m_buffer(heap')) \in Nat
  BY <1>1, CurrentOrdered, OrderedNumbers
<1>3. read'.got \in Nat
  BY <1>1 DEF IInv, ReadTyped
<1>4. Unread' = SB!ready(m_buffer(heap')) + read'.got
  BY DEF Unread
<1> QED
  BY <1>2, <1>3, <1>4

LEMMA TransferReadyPlace ==
  ASSUME PlaceInv, TransferReady
  PROVE  PlaceKept
<1> DEFINE n == SB!ready(m_buffer(heap))
<1>1. /\ stage # "idle" /\ read = NoRead /\ n >= want
      /\ Transferred(heap) /\ UNCHANGED <<taken, netVars>>
  BY DEF TransferReady
<1>2. IInv
  BY DEF PlaceInv
<1>3. IsHeap(heap) /\ n \in Nat /\ want \in Nat
  BY <1>2, Numbers
<1>4. ec = "none"
  BY <1>1, <1>2 DEF IInv, Quiet
<1>5. Unread = n
  BY <1>1, <1>3 DEF Unread, NoRead
<1>6. InOrder(m_buffer(heap), n)
  BY <1>2, <1>4, <1>5 DEF IInv, BytesInOrder, InOrder
<1>7. Kept(heap, heap)
  BY <1>3, KeptSelf
<1>8. want <= n /\ Consumed = taken - n
  BY <1>1, <1>3, <1>5 DEF Consumed
<1>9. InPlace' /\ Refusal' /\ Goes
  BY <1>1, <1>3, <1>4, <1>6, <1>7, <1>8, TransferPlace
<1> QED
  BY <1>1, <1>4, <1>9 DEF PlaceKept, Steps, netVars

LEMMA ReadDonePlace ==
  ASSUME PlaceInv, ReadDone
  PROVE  PlaceKept
<1> DEFINE s == m_buffer(heap)
           h == advance_writer(heap, read.got)
           t == SB!advance_writer(s, read.got)
<1>1. /\ read # NoRead /\ read.got >= read.min
      /\ Transferred(h) /\ UNCHANGED <<taken, netVars>>
  BY DEF ReadDone
<1>2. IInv
  BY DEF PlaceInv
<1>3. /\ IsHeap(heap) /\ Ordered(s) /\ SB!ready(s) \in Nat /\ want \in Nat
      /\ read.got \in Nat /\ read.min \in Nat /\ s.m_read_pointer \in Nat
      /\ s.m_write_pointer \in Nat
  BY <1>2, Numbers
<1>4. /\ stage # "idle" /\ ec = "none" /\ read.min = want - SB!ready(s)
      /\ read.got <= SB!free(s)
  BY <1>1, <1>2 DEF IInv, Reading
<1>5. Moved(h, heap, t)
  BY <1>3, <1>4, AdvanceWriterHeap
<1>6. /\ t.m_data = s.m_data /\ t.m_read_pointer = s.m_read_pointer
      /\ t.m_write_pointer = s.m_write_pointer + read.got
  BY <1>3, <1>4, WriterOrdered
<1> HIDE DEF s, h, t
<1>7. IsHeap(h) /\ Kept(heap, h) /\ m_buffer(h) = t
  BY <1>5 DEF Moved
<1>8. SB!ready(t) = Unread
  BY <1>3, <1>6 DEF SB!ready, Unread, s
<1>9. InOrder(t, Unread)
  BY <1>2, <1>4, <1>6 DEF IInv, BytesInOrder, InOrder, s
<1>10. want <= Unread
  BY <1>1, <1>3, <1>4 DEF Unread, s
<1>11. InPlace' /\ Refusal' /\ Goes
  BY <1>1, <1>4, <1>7, <1>8, <1>9, <1>10, TransferPlace DEF Consumed
<1> QED
  BY <1>1, <1>4, <1>11 DEF PlaceKept, Steps, netVars

\* The place is kept by every step.
LEMMA NextPlace ==
  ASSUME PlaceInv, [Next]_vars
  PROVE  PlaceInv' /\ Steps
<1>1. IInv /\ IInv' /\ Quiet
  BY StepConsumes DEF PlaceInv, IInv
<1>2. /\ ec = "none" /\ ec' = "none" /\ (stage = "idle" \/ stage' = stage)
            => Consumed' = Consumed
  BY <1>1, StepConsumes
<1>3. CASE ReceiveMessage
  <2>1. /\ stage = "idle" /\ stage' = "tag" /\ ec = "none" /\ ec' = ec /\ wire' = wire
        /\ nth' = nth /\ delivered' = delivered /\ tag' = tag
    BY <1>3 DEF ReceiveMessage, netVars
  <2> QED
    BY <1>1, <1>2, <2>1, WaitingPlace DEF PlaceKept, PlaceInv
<1>4. CASE TransferReady
  BY <1>1, <1>4, TransferReadyPlace DEF PlaceKept, PlaceInv
<1>5. CASE TransferRead
  <2>1. /\ stage # "idle" /\ stage' = stage /\ want' = want /\ ec' = ec /\ wire' = wire
        /\ nth' = nth /\ delivered' = delivered /\ tag' = tag
    BY <1>5 DEF TransferRead, netVars, bufferVars
  <2>2. ec = "none"
    BY <1>1, <2>1 DEF Quiet
  <2> QED
    BY <1>1, <1>2, <2>1, <2>2, WaitingPlace DEF PlaceKept, PlaceInv
<1>6. CASE ReadDone
  BY <1>1, <1>6, ReadDonePlace DEF PlaceKept, PlaceInv
<1>7. CASE ReadSome
  <2>1. /\ read # NoRead /\ stage' = stage /\ want' = want /\ ec' = ec /\ wire' = wire
        /\ nth' = nth /\ delivered' = delivered /\ tag' = tag
    BY <1>7 DEF ReadSome, netVars, bufferVars
  <2>2. ec = "none"
    BY <1>1, <2>1 DEF Quiet
  <2> QED
    BY <1>1, <1>2, <2>1, <2>2, WaitingPlace DEF PlaceKept, PlaceInv
<1>8. CASE ReadFail
  <2>1. /\ read # NoRead /\ ec' = "net" /\ wire' = wire /\ nth' = nth
        /\ delivered' = delivered
    BY <1>8 DEF ReadFail, Fail, netVars
  <2>2. ec = "none"
    BY <1>1, <2>1 DEF Quiet
  <2>3. InPlace' /\ Refusal'
    BY <2>1 DEF InPlace, Refusal, DecodeErrors
  <2> QED
    BY <1>1, <2>1, <2>2, <2>3 DEF PlaceInv, Steps
<1>9. CASE Reconnect
  <2>1. /\ ec # "none" /\ ec' = "none" /\ wire' \in Streams /\ taken' = 0 /\ nth' = 0
        /\ delivered' = delivered /\ stage' = stage
    BY <1>9 DEF Reconnect
  <2>2. stage' = "idle"
    BY <1>1, <2>1 DEF Quiet
  <2>3. Consumed' = 0
    <3>1. Unread' \in Nat
      BY <1>1, UnreadNext
    <3>2. Unread' <= taken'
      BY <1>1, <2>1 DEF IInv, BytesInOrder
    <3>3. Unread' = 0
      BY <2>1, <3>1, <3>2
    <3>4. Consumed' = taken' - Unread'
      BY DEF Consumed
    <3> QED
      BY <2>1, <3>3, <3>4
  <2>4. Here' = 0
    <3>1. LaidOut(wire', Start(wire'))
      BY <2>1, StartLaidOut
    <3>2. Here' = Start(wire')[1]
      BY <2>1 DEF Here
    <3> QED
      BY <3>1, <3>2 DEF LaidOut
  <2>5. nth' \in 0 .. Len(wire')
    BY <2>1, WireTyped
  <2>6. InPlace'
    BY <2>1, <2>2, <2>3, <2>4, <2>5 DEF InPlace
  <2>7. Refusal'
    BY <2>1 DEF Refusal, DecodeErrors
  <2> QED
    BY <1>1, <2>1, <2>6, <2>7 DEF PlaceInv, Steps
<1>10. CASE Terminated \/ UNCHANGED vars
  <2>1. /\ stage' = stage /\ want' = want /\ ec' = ec /\ wire' = wire
        /\ nth' = nth /\ delivered' = delivered /\ tag' = tag
        /\ heap' = heap /\ read' = read /\ taken' = taken
    BY <1>10 DEF Terminated, vars
  <2>2. Consumed' = Consumed
    BY <2>1 DEF Consumed, Unread
  <2> QED
    BY <1>1, <2>1, <2>2, WaitingPlace DEF PlaceKept, PlaceInv
<1> QED
  BY <1>3, <1>4, <1>5, <1>6, <1>7, <1>8, <1>9, <1>10 DEF Next

LEMMA InitPlace ==
  Init => PlaceInv
<1> SUFFICES ASSUME Init PROVE PlaceInv
  OBVIOUS
<1>1. IInv
  BY InitInv
<1>2. /\ ec = "none" /\ stage = "idle" /\ taken = 0 /\ nth = 0 /\ wire \in Streams
  BY DEF Init
<1>3. Consumed = 0
  <2>1. Unread \in Nat /\ Unread <= taken
    BY <1>1, <1>2, Numbers DEF IInv, BytesInOrder
  <2>2. Unread = 0
    BY <1>2, <2>1
  <2> QED
    BY <1>2, <2>2 DEF Consumed
<1>4. Here = 0
  <2>1. LaidOut(wire, Start(wire))
    BY <1>2, StartLaidOut
  <2> QED
    BY <1>2, <2>1 DEF LaidOut, Here
<1>5. nth \in 0 .. Len(wire)
  BY <1>2, WireTyped
<1>6. InPlace
  BY <1>2, <1>3, <1>4, <1>5 DEF InPlace
<1>7. Refusal
  BY <1>2 DEF Refusal, DecodeErrors
<1> QED
  BY <1>1, <1>6, <1>7 DEF PlaceInv
-----------------------------------------------------------------------------
(* Theorems. *)

\* receive_message never loses its place: the bytes it has consumed end where a message of
\* the stream starts, after its tag or after its length, whatever the pieces they arrive
\* in; and it gives a connection up only at a message that has a length it refuses or a
\* header that does not convert.
THEOREM PlaceKnown ==
  Spec => []PlaceInv
<1>1. PlaceInv /\ [Next]_vars => PlaceInv'
  BY NextPlace
<1> QED
  BY <1>1, InitPlace, PTL DEF Spec

\* A message that is refused is malformed, unless it has the tag of a 16-bit length.
LEMMA RefusedMalformed ==
  ASSUME NEW m, Refuses(m), WellFormed(m)
  PROVE  m.len[1] = 205
<1>1. CASE Understood(m) /\ ~Convertible(unpack(m.payload))
  BY <1>1 DEF WellFormed
<1>2. CASE Rejected(m)
  <2> DEFINE type == m.len[1]
  <2>1. \/ type < 128 /\ type = Len(m.payload)
        \/ type \in {204, 205, 206, 207}
    BY DEF WellFormed, EncodesLength
  <2>2. type \in 128 .. 255 \ DOMAIN LengthSize \/ type \in DOMAIN SignedSize
    BY <1>2 DEF Rejected
  <2> HIDE DEF type
  <2>3. type \in Int
    BY <2>2, Tags
  <2>4. ~(type < 128)
    BY <2>2, <2>3, Tags
  <2>5. type = 205
    BY <2>1, <2>2, <2>4, Tags
  <2> QED
    BY <2>5 DEF type
<1> QED
  BY <1>1, <1>2 DEF Refuses

\* For peers that do not use 16-bit lengths: a connection is given up for a decoding error
\* only when the next message really is malformed.
THEOREM OnlyMalformedRefused ==
  (\A w \in Streams : \A i \in DOMAIN w : w[i].len[1] # 205) => (Spec => []WellFormedAccepted)
<1> SUFFICES ASSUME \A w \in Streams : \A i \in DOMAIN w : w[i].len[1] # 205
             PROVE  Spec => []WellFormedAccepted
  OBVIOUS
<1>1. PlaceInv => WellFormedAccepted
  <2> SUFFICES ASSUME PlaceInv, ec \in DecodeErrors
               PROVE  nth < Len(wire) /\ ~WellFormed(Message)
    BY DEF WellFormedAccepted, Message
  <2>1. nth \in 0 .. Len(wire) - 1 /\ Refuses(Message) /\ wire \in Streams
    BY DEF PlaceInv, Refusal, IInv, Scalars
  <2>2. Len(wire) \in Nat /\ DOMAIN wire = 1 .. Len(wire)
    BY <2>1, WireTyped
  <2>3. nth < Len(wire) /\ nth + 1 \in DOMAIN wire
    BY <2>1, <2>2
  <2>4. Message.len[1] # 205
    BY <2>1, <2>3 DEF Message
  <2> QED
    BY <2>1, <2>3, <2>4, RefusedMalformed
<1> QED
  BY <1>1, PlaceKnown, PTL
-----------------------------------------------------------------------------
(* The lengths that are understood. *)

\* f holds the number that the first i bytes are, for every i.
Counts(f, bytes, n) ==
    f = [i \in 0 .. n |-> IF i = 0 THEN 0 ELSE 256 * f[i - 1] + bytes[i]]

LEMMA CountExists ==
  ASSUME NEW bytes
  PROVE  \A n \in Nat : \E f : Counts(f, bytes, n)
<1> DEFINE S == {n \in Nat : \E f : Counts(f, bytes, n)}
<1>1. 0 \in S
  <2> DEFINE e == [i \in 0 .. 0 |-> 0]
  <2>1. Counts(e, bytes, 0)
    BY DEF Counts
  <2> QED
    BY <2>1
<1>2. ASSUME NEW n \in Nat, n \in S PROVE n + 1 \in S
  <2>1. PICK f : Counts(f, bytes, n)
    BY <1>2
  <2> DEFINE last == 256 * f[n] + bytes[n + 1]
             g == [i \in 0 .. n + 1 |-> IF i = n + 1 THEN last ELSE f[i]]
  <2>2. \A i \in 0 .. n : f[i] = IF i = 0 THEN 0 ELSE 256 * f[i - 1] + bytes[i]
    BY <2>1 DEF Counts
  <2>3. /\ g[n + 1] = last
        /\ \A i \in 0 .. n : g[i] = f[i]
        /\ g = [i \in 0 .. n + 1 |-> g[i]]
    OBVIOUS
  <2> HIDE DEF g
  <2>4. ASSUME NEW i \in 0 .. n + 1
        PROVE  g[i] = IF i = 0 THEN 0 ELSE 256 * g[i - 1] + bytes[i]
    <3>1. CASE i = n + 1
      <4>1. i - 1 = n /\ n \in 0 .. n /\ i # 0
        BY <3>1
      <4> QED
        BY <2>3, <3>1, <4>1
    <3>2. CASE i # n + 1
      <4>1. i \in 0 .. n /\ (i # 0 => i - 1 \in 0 .. n)
        BY <3>2
      <4>2. g[i] = f[i]
        BY <2>3, <4>1
      <4>3. CASE i = 0
        <5>1. f[i] = 0
          BY <2>2, <4>1, <4>3
        <5> QED
          BY <4>2, <4>3, <5>1
      <4>4. CASE i # 0
        <5>1. f[i] = 256 * f[i - 1] + bytes[i]
          BY <2>2, <4>1, <4>4
        <5>2. g[i - 1] = f[i - 1]
          BY <2>3, <4>1, <4>4
        <5> QED
          BY <4>2, <4>4, <5>1, <5>2
      <4> QED
        BY <4>3, <4>4
    <3> QED
      BY <3>1, <3>2
  <2>5. Counts(g, bytes, n + 1)
    BY <2>3, <2>4 DEF Counts
  <2> QED
    BY <2>5
<1> HIDE DEF S
<1>3. \A n \in Nat : n \in S
  BY <1>1, <1>2, SetInduction
<1> QED
  BY <1>3 DEF S

LEMMA BigEndianCounts ==
  ASSUME NEW bytes, Len(bytes) \in Nat
  PROVE  \E f : Counts(f, bytes, Len(bytes)) /\ BigEndian(bytes) = f[Len(bytes)]
<1> DEFINE n == Len(bytes)
           F == CHOOSE f : f = [i \in 0 .. n |-> IF i = 0 THEN 0 ELSE 256 * f[i - 1] + bytes[i]]
<1>1. \E f : Counts(f, bytes, n)
  BY CountExists
<1>2. Counts(F, bytes, n)
  BY <1>1, Zenon DEF Counts
<1>3. BigEndian(bytes) = F[n]
  BY Zenon DEF BigEndian
<1> QED
  BY <1>2, <1>3

\* The first length that a SizeType does not hold: 2^32.
SizeTypeLimit == 4294967296

\* The number that four digits to the base 256 write.
Value(a, b, c, d) == d + 256 * c + 65536 * b + 16777216 * a

\* The number g with four digits written after it.
Appended(g, a, b, c, d) == 256 * (256 * (256 * (256 * g + a) + b) + c) + d

LEMMA FourDigits ==
  ASSUME NEW g \in Nat, NEW a \in Nat, NEW b \in Nat, NEW c \in Nat, NEW d \in Nat
  PROVE  /\ Appended(g, a, b, c, d) \in Nat
         /\ g = 0 => Appended(g, a, b, c, d) = Value(a, b, c, d)
         /\ Appended(g, a, b, c, d) < SizeTypeLimit => g = 0
<1> DEFINE g1 == 256 * g + a
           g2 == 256 * g1 + b
           g3 == 256 * g2 + c
           g4 == 256 * g3 + d
<1>1. g1 \in Nat /\ (g # 0 => g1 >= 256) /\ (g = 0 => g1 = a)
  BY SMT
<1>2. g2 \in Nat /\ (g # 0 => g2 >= 65536) /\ (g = 0 => g2 = 256 * a + b)
  <2> HIDE DEF g1
  <2> QED
    BY <1>1, SMT
<1>3. g3 \in Nat /\ (g # 0 => g3 >= 16777216) /\ (g = 0 => g3 = 65536 * a + 256 * b + c)
  <2> HIDE DEF g2
  <2> QED
    BY <1>2, SMT
<1>4. g4 \in Nat /\ (g # 0 => ~(g4 < SizeTypeLimit)) /\ (g = 0 => g4 = Value(a, b, c, d))
  <2> HIDE DEF g3
  <2> QED
    BY <1>3, SMTT(30) DEF SizeTypeLimit, Value
<1>5. Appended(g, a, b, c, d) = g4
  BY Zenon DEF Appended
<1> HIDE DEF g4
<1> QED
  BY <1>4, <1>5, Zenon

LEMMA FourAlone ==
  ASSUME NEW a \in Nat, NEW b \in Nat, NEW c \in Nat, NEW d \in Nat
  PROVE  Appended(0, a, b, c, d) = Value(a, b, c, d)
BY FourDigits, 0 \in Nat, SMT

\* The last four bytes are the ones that AsSizeType takes.
LEMMA AsFourDigits ==
  ASSUME NEW bytes, NEW a \in Nat, NEW b \in Nat, NEW c \in Nat, NEW d \in Nat,
         Digit(bytes, 0) = d, Digit(bytes, 1) = c, Digit(bytes, 2) = b, Digit(bytes, 3) = a
  PROVE  AsSizeType(bytes) = Value(a, b, c, d)
BY SMTT(30) DEF AsSizeType, Value

\* A big-endian integer of one, four or eight bytes is read as it was meant, below 2^32.
LEMMA SizeTypeExact ==
  ASSUME NEW bytes \in Seq(SB!Byte), Len(bytes) \in {1, 4, 8}, BigEndian(bytes) < SizeTypeLimit
  PROVE  AsSizeType(bytes) = BigEndian(bytes)
<1> DEFINE n == Len(bytes)
<1>1. PICK f : Counts(f, bytes, n) /\ BigEndian(bytes) = f[n]
  BY BigEndianCounts
<1>2. \A i \in 0 .. n : f[i] = IF i = 0 THEN 0 ELSE 256 * f[i - 1] + bytes[i]
  BY <1>1 DEF Counts
<1>3. \A i \in 1 .. n : bytes[i] \in Nat
  <2> SUFFICES ASSUME NEW i \in 1 .. n PROVE bytes[i] \in Nat
    OBVIOUS
  <2>1. bytes[i] \in SB!Byte
    OBVIOUS
  <2> QED
    BY <2>1, ByteBounded
<1>4. n \in Nat /\ n \in {1, 4, 8}
  OBVIOUS
<1>5. f[0] = 0
  BY <1>2, <1>4
<1>6. \A i \in 1 .. n : f[i] = 256 * f[i - 1] + bytes[i]
  BY <1>2, <1>4
<1>7. CASE n = 1
  <2>1. f[1] = bytes[1] /\ bytes[1] \in Nat
    <3>1. f[1] = 256 * f[1 - 1] + bytes[1] /\ bytes[1] \in Nat
      BY <1>3, <1>6, <1>7
    <3> QED
      BY <1>5, <3>1
  <2>2. /\ Digit(bytes, 0) = bytes[1] /\ Digit(bytes, 1) = 0
        /\ Digit(bytes, 2) = 0 /\ Digit(bytes, 3) = 0
    BY <1>7 DEF Digit
  <2>3. AsSizeType(bytes) = Value(0, 0, 0, bytes[1])
    <3>1. 0 \in Nat
      OBVIOUS
    <3> QED
      BY <2>1, <2>2, <3>1, AsFourDigits
  <2>4. AsSizeType(bytes) = bytes[1]
    BY <2>1, <2>3, SMT DEF Value
  <2> QED
    BY <1>1, <1>7, <2>1, <2>4, Zenon
<1>8. CASE n = 4
  <2>1. /\ f[1] = 256 * f[0] + bytes[1] /\ f[2] = 256 * f[1] + bytes[2]
        /\ f[3] = 256 * f[2] + bytes[3] /\ f[4] = 256 * f[3] + bytes[4]
    BY <1>6, <1>8
  <2>2. bytes[1] \in Nat /\ bytes[2] \in Nat /\ bytes[3] \in Nat /\ bytes[4] \in Nat
    BY <1>3, <1>8
  <2>3. /\ Digit(bytes, 0) = bytes[4] /\ Digit(bytes, 1) = bytes[3]
        /\ Digit(bytes, 2) = bytes[2] /\ Digit(bytes, 3) = bytes[1]
    BY <1>8 DEF Digit
  <2>4. f[0] \in Nat
    BY <1>5
  <2>5. f[4] = Value(bytes[1], bytes[2], bytes[3], bytes[4])
    <3>1. f[4] = Appended(f[0], bytes[1], bytes[2], bytes[3], bytes[4])
      BY <2>1 DEF Appended
    <3>2. Appended(0, bytes[1], bytes[2], bytes[3], bytes[4])
            = Value(bytes[1], bytes[2], bytes[3], bytes[4])
      BY <2>2, FourAlone, Zenon
    <3> QED
      BY <1>5, <3>1, <3>2, Zenon
  <2>6. AsSizeType(bytes) = Value(bytes[1], bytes[2], bytes[3], bytes[4])
    BY <2>2, <2>3, AsFourDigits
  <2> QED
    BY <1>1, <1>8, <2>5, <2>6, Zenon
<1>9. CASE n = 8
  <2>1. /\ f[1] = 256 * f[0] + bytes[1] /\ f[2] = 256 * f[1] + bytes[2]
        /\ f[3] = 256 * f[2] + bytes[3] /\ f[4] = 256 * f[3] + bytes[4]
        /\ f[5] = 256 * f[4] + bytes[5] /\ f[6] = 256 * f[5] + bytes[6]
        /\ f[7] = 256 * f[6] + bytes[7] /\ f[8] = 256 * f[7] + bytes[8]
    BY <1>6, <1>9
  <2>2. /\ bytes[1] \in Nat /\ bytes[2] \in Nat /\ bytes[3] \in Nat /\ bytes[4] \in Nat
        /\ bytes[5] \in Nat /\ bytes[6] \in Nat /\ bytes[7] \in Nat /\ bytes[8] \in Nat
    BY <1>3, <1>9
  <2>3. /\ Digit(bytes, 0) = bytes[8] /\ Digit(bytes, 1) = bytes[7]
        /\ Digit(bytes, 2) = bytes[6] /\ Digit(bytes, 3) = bytes[5]
    BY <1>9 DEF Digit
  <2>4. f[0] \in Nat
    BY <1>5
  <2>5. f[4] \in Nat
    <3>1. f[4] = Appended(f[0], bytes[1], bytes[2], bytes[3], bytes[4])
      BY <2>1 DEF Appended
    <3>2. Appended(f[0], bytes[1], bytes[2], bytes[3], bytes[4]) \in Nat
      BY <2>2, <2>4, FourDigits, Zenon
    <3> QED
      BY <3>1, <3>2, Zenon
  <2>6. f[8] = Appended(f[4], bytes[5], bytes[6], bytes[7], bytes[8])
    BY <2>1 DEF Appended
  <2>7. f[4] = 0
    <3>1. Appended(f[4], bytes[5], bytes[6], bytes[7], bytes[8]) < SizeTypeLimit
      BY <1>1, <1>9, <2>6, Zenon
    <3> QED
      BY <2>2, <2>5, <3>1, FourDigits, Zenon
  <2>8. f[8] = Value(bytes[5], bytes[6], bytes[7], bytes[8])
    <3>1. Appended(0, bytes[5], bytes[6], bytes[7], bytes[8])
            = Value(bytes[5], bytes[6], bytes[7], bytes[8])
      <4>1. bytes[5] \in Nat /\ bytes[6] \in Nat /\ bytes[7] \in Nat /\ bytes[8] \in Nat
        BY <2>2, Zenon
      <4> QED
        BY <4>1, FourAlone, Zenon
    <3> QED
      BY <2>6, <2>7, <3>1, Zenon
  <2>9. AsSizeType(bytes) = Value(bytes[5], bytes[6], bytes[7], bytes[8])
    BY <2>2, <2>3, AsFourDigits
  <2> QED
    BY <1>1, <1>9, <2>8, <2>9
<1> QED
  BY <1>4, <1>7, <1>8, <1>9

\* read_message_length reads the length that the peer encoded, in every encoding but the
\* 16-bit one, for every message below 4 GB: so LegibleAssumption excludes none of these.
THEOREM LengthsUnderstood ==
  \A m \in WireMessages :
      WellFormed(m) /\ m.len[1] # 205 /\ Len(m.payload) < SizeTypeLimit => Understood(m)
<1> SUFFICES ASSUME NEW m \in WireMessages, WellFormed(m), m.len[1] # 205,
                    Len(m.payload) < SizeTypeLimit
             PROVE  Understood(m)
  OBVIOUS
<1> DEFINE l == m.len
           n == Len(m.payload)
           rest == Tail(l)
<1>1. l \in Seq(SB!Byte) /\ Len(l) \in Nat /\ n \in Nat /\ n < SizeTypeLimit
  BY DEF WireMessages
<1>2. EncodesLength(l, n)
  BY DEF WellFormed
<1>3. CASE Len(l) = 1 /\ l[1] < 128 /\ l[1] = n
  <2>1. l = <<n>>
    <3> HIDE DEF l, n
    <3> QED
      BY <1>1, <1>3
  <2> QED
    BY <1>3, <2>1 DEF Understood
<1>4. CASE /\ <<l[1], Len(l)>> \in {<<204, 2>>, <<205, 3>>, <<206, 5>>, <<207, 9>>}
           /\ BigEndian(rest) = n
  <2>1. \/ l[1] = 204 /\ Len(l) = 2
        \/ l[1] = 206 /\ Len(l) = 5
        \/ l[1] = 207 /\ Len(l) = 9
    BY <1>4
  <2>2. l[1] \in DOMAIN UnsignedSize /\ l[1] \in DOMAIN LengthSize
    BY <2>1, Tags
  <2>3. LengthSize[l[1]] = UnsignedSize[l[1]]
    BY <2>2 DEF LengthSize
  <2>4. /\ UnsignedSize[204] = 1 /\ UnsignedSize[206] = 4 /\ UnsignedSize[207] = 8
    BY DEF UnsignedSize
  <2>5. Len(l) = 1 + LengthSize[l[1]]
    <3> HIDE DEF l
    <3>1. CASE l[1] = 204 /\ Len(l) = 2
      BY <2>3, <2>4, <3>1
    <3>2. CASE l[1] = 206 /\ Len(l) = 5
      BY <2>3, <2>4, <3>2
    <3>3. CASE l[1] = 207 /\ Len(l) = 9
      BY <2>3, <2>4, <3>3
    <3> QED
      BY <2>1, <3>1, <3>2, <3>3
  <2>6. rest \in Seq(SB!Byte) /\ Len(rest) = Len(l) - 1
    <3>1. l # <<>>
      BY <2>1
    <3> HIDE DEF l
    <3> QED
      BY <1>1, <3>1
  <2>7. Len(rest) \in {1, 4, 8}
    BY <2>1, <2>6
  <2>8. BigEndian(rest) < SizeTypeLimit
    BY <1>1, <1>4
  <2>9. AsSizeType(rest) = n
    <3> HIDE DEF rest, n
    <3>1. AsSizeType(rest) = BigEndian(rest)
      BY <2>6, <2>7, <2>8, SizeTypeExact, Zenon
    <3> QED
      BY <1>4, <3>1, Zenon
  <2> QED
    BY <2>2, <2>5, <2>9 DEF Understood
<1> QED
  BY <1>2, <1>3, <1>4 DEF EncodesLength
-----------------------------------------------------------------------------
(* The stream that the receive path implements. *)

Coming == [i \in 1 .. Len(wire) - nth |-> Content[wire[nth + i]]]

Handed == [i \in DOMAIN delivered |-> Seen(delivered[i])]

LEMMA Contained ==
  ASSUME NEW w \in Streams, NEW i \in 1 .. Len(w)
  PROVE  /\ Content[w[i]] \in Range(Content)
         /\ Content[w[i]] =
               [header |-> IF w[i].payload # <<>> /\ Convertible(unpack(w[i].payload))
                           THEN convert(unpack(w[i].payload)) ELSE NewHeader,
                body   |-> Tail(w[i].payload)]
<1>1. i \in DOMAIN w
  BY WireTyped
<1>2. w[i] \in Range(w)
  BY <1>1 DEF Range
<1>3. w[i] \in UNION {Range(v) : v \in Streams}
  BY <1>2
<1>4. w[i] \in DOMAIN Content
  BY <1>3 DEF Content
<1>5. Content[w[i]] \in Range(Content)
  BY <1>4 DEF Range
<1> QED
  BY <1>3, <1>5 DEF Content

\* The messages to come, for any wire and place.
LEMMA ComingTyped ==
  ASSUME NEW w \in Streams, NEW n \in 0 .. Len(w),
         NEW c, c = [i \in 1 .. Len(w) - n |-> Content[w[n + i]]]
  PROVE  /\ c \in Seq(Range(Content)) /\ Len(c) = Len(w) - n
         /\ \A i \in 1 .. Len(w) - n : c[i] = Content[w[n + i]]
<1> DEFINE k == Len(w) - n
<1>1. Len(w) \in Nat /\ k \in Nat /\ \A i \in 1 .. k : n + i \in 1 .. Len(w)
  BY WireTyped
<1>2. \A i \in 1 .. k : Content[w[n + i]] \in Range(Content)
  BY <1>1, Contained
<1>3. c = [i \in 1 .. k |-> Content[w[n + i]]]
  OBVIOUS
<1> HIDE DEF k
<1>4. c \in [1 .. k -> Range(Content)]
  BY <1>2, <1>3
<1>5. c \in Seq(Range(Content)) /\ Len(c) = k
  BY <1>1, <1>4, FunctionIsSequence
<1> QED
  BY <1>3, <1>5 DEF k

\* The first of them goes, the others stay.
LEMMA ComingNext ==
  ASSUME NEW w \in Streams, NEW n \in 0 .. Len(w) - 1,
         NEW c, c = [i \in 1 .. Len(w) - n |-> Content[w[n + i]]],
         NEW d, d = [i \in 1 .. Len(w) - (n + 1) |-> Content[w[(n + 1) + i]]]
  PROVE  c # <<>> /\ Head(c) = Content[w[n + 1]] /\ d = Tail(c)
<1> DEFINE k == Len(w) - (n + 1)
<1>1. /\ Len(w) \in Nat /\ n \in 0 .. Len(w) /\ n + 1 \in 0 .. Len(w) /\ k \in Nat
      /\ Len(w) - n = k + 1
  BY WireTyped
<1>2. /\ c \in Seq(Range(Content)) /\ Len(c) = Len(w) - n
      /\ \A i \in 1 .. Len(w) - n : c[i] = Content[w[n + i]]
  BY <1>1, ComingTyped
<1>3. /\ d \in Seq(Range(Content)) /\ Len(d) = k
      /\ \A i \in 1 .. k : d[i] = Content[w[(n + 1) + i]]
  <2> DEFINE e == n + 1
  <2>1. e \in 0 .. Len(w) /\ d = [i \in 1 .. Len(w) - e |-> Content[w[e + i]]]
    BY <1>1
  <2> HIDE DEF e
  <2>2. /\ d \in Seq(Range(Content)) /\ Len(d) = Len(w) - e
        /\ \A i \in 1 .. Len(w) - e : d[i] = Content[w[e + i]]
    BY <2>1, ComingTyped
  <2> QED
    BY <2>2 DEF e
<1> HIDE DEF k
<1>4. c \in Seq(Range(Content)) /\ Len(c) = k + 1 /\ c # <<>>
  <2>1. Len(c) = k + 1
    BY <1>1, <1>2
  <2>2. k + 1 # 0 /\ Len(<<>>) = 0
    BY <1>1
  <2> QED
    BY <1>2, <2>1, <2>2
<1>5. /\ Tail(c) \in Seq(Range(Content)) /\ Len(Tail(c)) = k /\ Head(c) = c[1]
      /\ \A i \in 1 .. k : Tail(c)[i] = c[i + 1]
  BY <1>1, <1>4
<1>6. ASSUME NEW i \in 1 .. k PROVE d[i] = Tail(c)[i]
  <2>1. i + 1 \in 1 .. k + 1 /\ n + (i + 1) = (n + 1) + i
    BY <1>1
  <2>2. c[i + 1] = Content[w[n + (i + 1)]]
    BY <1>1, <1>2, <2>1
  <2> QED
    BY <1>3, <1>5, <2>1, <2>2
<1>7. d = Tail(c)
  BY <1>3, <1>5, <1>6, SeqEqual
<1>8. c[1] = Content[w[n + 1]]
  <2>1. 1 \in 1 .. k + 1
    BY <1>1
  <2> QED
    BY <1>1, <1>2, <2>1
<1> QED
  BY <1>4, <1>5, <1>7, <1>8

\* What was handed out is seen as before.
LEMMA HandedStays ==
  ASSUME IInv, [Next]_vars
  PROVE  /\ delivered \in Seq(Frames) /\ delivered' \in Seq(Frames)
         /\ DOMAIN delivered = 1 .. Len(delivered) /\ Len(delivered) \in Nat
         /\ \A i \in 1 .. Len(delivered) :
               delivered'[i] = delivered[i] /\ Seen(delivered[i])' = Seen(delivered[i])
<1>1. IInv' /\ Kept(heap, heap') /\ Extended
  BY NextKeeps DEF StepKeeps
<1>2. /\ delivered \in Seq(Frames) /\ delivered' \in Seq(Frames)
      /\ DOMAIN delivered = 1 .. Len(delivered) /\ Len(delivered) \in Nat
  BY <1>1 DEF IInv, Scalars
<1>3. IsHeap(heap')
  BY <1>1 DEF IInv
<1>4. ASSUME NEW i \in 1 .. Len(delivered)
      PROVE  delivered'[i] = delivered[i] /\ Seen(delivered[i])' = Seen(delivered[i])
  <2>1. Contents(heap', delivered[i].body) = Contents(heap, delivered[i].body)
    BY <1>1, <1>3, <1>4, FramesStay
  <2>2. delivered'[i] = delivered[i]
    BY <1>1, <1>4 DEF Extended
  <2>3. Seen(delivered[i])' = [header |-> delivered'[i].header,
                               body   |-> Contents(heap', delivered'[i].body)]
    BY DEF Seen
  <2>4. Seen(delivered[i]) = [header |-> delivered[i].header,
                              body   |-> Contents(heap, delivered[i].body)]
    BY DEF Seen
  <2> QED
    BY <2>1, <2>2, <2>3, <2>4
<1> QED
  BY <1>2, <1>4

\* The outcomes of a step, in terms of the stream.
Delivering ==
    /\ ec = "none" /\ ec' = "none"
    /\ Coming # <<>> /\ Handed' = Append(Handed, Head(Coming)) /\ Coming' = Tail(Coming)

Failing == ec = "none" /\ ec' # "none" /\ Coming' = Coming /\ Handed' = Handed

Replacing ==
    /\ ec # "none" /\ ec' = "none"
    /\ Coming' \in Seq(Range(Content)) /\ Handed' = Handed

Waiting == ec' = ec /\ Coming' = Coming /\ Handed' = Handed

LEMMA SameHanded ==
  ASSUME IInv, [Next]_vars, delivered' = delivered
  PROVE  Handed' = Handed
<1>1. /\ DOMAIN delivered = 1 .. Len(delivered)
      /\ \A i \in 1 .. Len(delivered) : Seen(delivered[i])' = Seen(delivered[i])
  BY HandedStays
<1>2. Handed' = [i \in DOMAIN delivered' |-> Seen(delivered[i])']
  BY DEF Handed
<1>3. Handed' = [i \in DOMAIN delivered |-> Seen(delivered[i])']
  BY <1>2
<1> QED
  BY <1>1, <1>3 DEF Handed

LEMMA SameComing ==
  ASSUME wire' = wire, nth' = nth
  PROVE  Coming' = Coming
  BY DEF Coming, Content

LEMMA HandedNext ==
  ASSUME IInv, [Next]_vars, NEW f, HandedOut(f)
  PROVE  Handed' = Append(Handed, Content[Message])
<1> DEFINE n == Len(delivered)
           S == {Seen(delivered[i]) : i \in 1 .. n} \cup {Content[Message]}
<1>1. /\ delivered \in Seq(Frames) /\ DOMAIN delivered = 1 .. n /\ n \in Nat
      /\ \A i \in 1 .. n : Seen(delivered[i])' = Seen(delivered[i])
  BY HandedStays
<1>2. delivered' \in Seq(Frames) /\ delivered' = Append(delivered, f)
  BY HandedStays DEF HandedOut
<1>3. Len(delivered') = n + 1 /\ DOMAIN delivered' = 1 .. n + 1 /\ delivered'[n + 1] = f
  BY <1>1, <1>2
<1>4. Handed = [i \in 1 .. n |-> Seen(delivered[i])]
  BY <1>1 DEF Handed
<1>5. Handed' = [i \in 1 .. n + 1 |-> Seen(delivered[i])']
  BY <1>3 DEF Handed
<1>6. \A i \in 1 .. n : Handed[i] = Seen(delivered[i]) /\ Handed'[i] = Seen(delivered[i])
  BY <1>1, <1>4, <1>5
<1>7. Handed'[n + 1] = Content[Message]
  <2>1. /\ wire \in Streams /\ nth + 1 \in 1 .. Len(wire)
    BY WireTyped DEF IInv, Scalars, HandedOut
  <2>2. Content[Message] =
          [header |-> IF Message.payload # <<>> /\ Convertible(unpack(Message.payload))
                      THEN convert(unpack(Message.payload)) ELSE NewHeader,
           body   |-> Tail(Message.payload)]
    BY <2>1, Contained DEF Message
  <2>3. Content[Message] = [header |-> convert(unpack(Message.payload)),
                            body   |-> Tail(Message.payload)]
    BY <2>2 DEF HandedOut
  <2>4. n + 1 \in 1 .. n + 1
    BY <1>1
  <2>5. Handed'[n + 1] = [header |-> delivered'[n + 1].header,
                          body   |-> Contents(heap', delivered'[n + 1].body)]
    BY <1>5, <2>4 DEF Seen
  <2>6. Handed'[n + 1] = [header |-> f.header, body |-> Contents(heap', f.body)]
    BY <1>3, <2>5
  <2> QED
    BY <2>3, <2>6 DEF HandedOut
<1>8. Handed \in Seq(S) /\ Len(Handed) = n
  <2>1. Handed \in [1 .. n -> S]
    BY <1>4
  <2> HIDE DEF S
  <2> QED
    BY <1>1, <2>1, FunctionIsSequence
<1>9. Handed' \in Seq(S) /\ Len(Handed') = n + 1
  <2>1. \A i \in 1 .. n + 1 : Handed'[i] \in S
    <3> SUFFICES ASSUME NEW i \in 1 .. n + 1 PROVE Handed'[i] \in S
      OBVIOUS
    <3>1. i \in 1 .. n \/ i = n + 1
      BY <1>1
    <3> QED
      BY <1>6, <1>7, <3>1
  <2>2. Handed' = [i \in 1 .. n + 1 |-> Handed'[i]]
    BY <1>5
  <2> HIDE DEF S
  <2>3. Handed' \in [1 .. n + 1 -> S]
    BY <2>1, <2>2
  <2>4. n + 1 \in Nat
    BY <1>1
  <2> QED
    BY <2>3, <2>4, FunctionIsSequence
<1> DEFINE a == Append(Handed, Content[Message])
<1>10. Content[Message] \in S
  OBVIOUS
<1> HIDE DEF S, n
<1>11. /\ a \in Seq(S) /\ Len(a) = n + 1 /\ a[n + 1] = Content[Message]
       /\ \A i \in 1 .. n : a[i] = Handed[i]
  BY <1>8, <1>10, AppendProperties
<1> HIDE DEF a
<1>12. ASSUME NEW i \in 1 .. n + 1 PROVE Handed'[i] = a[i]
  <2>1. i \in 1 .. n \/ i = n + 1
    BY <1>1
  <2> QED
    BY <1>6, <1>7, <1>11, <2>1
<1>13. Handed' = a
  BY <1>9, <1>11, <1>12, SeqEqual
<1> QED
  BY <1>13 DEF a

LEMMA StreamStep ==
  ASSUME PlaceInv, [Next]_vars
  PROVE  Delivering \/ Failing \/ Replacing \/ Waiting
<1>1. IInv /\ Steps
  BY NextPlace DEF PlaceInv
<1>2. CASE wire' = wire /\ ec = "none" /\ Quietly
  <2>1. delivered' = delivered /\ nth' = nth /\ wire' = wire
    BY <1>2 DEF Quietly
  <2>2. Coming' = Coming /\ Handed' = Handed
    BY <1>1, <2>1, SameComing, SameHanded
  <2> QED
    BY <1>2, <2>2 DEF Failing, Waiting, Quietly
<1>3. ASSUME NEW f, HandedOut(f), wire' = wire, ec = "none" PROVE Delivering
  <2>1. Handed' = Append(Handed, Content[Message])
    BY <1>1, <1>3, HandedNext
  <2>2. /\ nth \in 0 .. Len(wire) - 1 /\ nth' = nth + 1 /\ wire \in Streams /\ ec' = "none"
    BY <1>1, <1>3 DEF HandedOut, IInv, Scalars
  <2>3. Coming' = [i \in 1 .. Len(wire) - (nth + 1) |-> Content[wire[(nth + 1) + i]]]
    <3>1. Coming' = [i \in 1 .. Len(wire') - nth' |-> Content[wire'[nth' + i]]]
      BY DEF Coming, Content
    <3> QED
      BY <1>3, <2>2, <3>1
  <2>4. Coming = [i \in 1 .. Len(wire) - nth |-> Content[wire[nth + i]]]
    BY DEF Coming
  <2>5. Coming # <<>> /\ Head(Coming) = Content[wire[nth + 1]] /\ Coming' = Tail(Coming)
    BY <2>2, <2>3, <2>4, ComingNext
  <2> QED
    BY <1>3, <2>1, <2>2, <2>5 DEF Delivering, Message
<1>4. CASE wire' = wire /\ nth' = nth /\ delivered' = delivered /\ ec = "none" /\ ec' # "none"
  BY <1>1, <1>4, SameComing, SameHanded DEF Failing
<1>5. CASE /\ ec # "none" /\ ec' = "none" /\ delivered' = delivered /\ wire' \in Streams
           /\ nth' = 0
  <2>1. Handed' = Handed
    BY <1>1, <1>5, SameHanded
  <2>2. Coming' = [i \in 1 .. Len(wire') - nth' |-> Content[wire'[nth' + i]]]
    BY DEF Coming, Content
  <2>3. nth' \in 0 .. Len(wire')
    BY <1>5, WireTyped
  <2>4. Coming' \in Seq(Range(Content))
    BY <1>5, <2>2, <2>3, ComingTyped
  <2> QED
    BY <1>5, <2>1, <2>4 DEF Replacing
<1>6. CASE wire' = wire /\ nth' = nth /\ delivered' = delivered /\ ec' = ec
  BY <1>1, <1>6, SameComing, SameHanded DEF Waiting
<1> QED
  BY <1>1, <1>2, <1>3, <1>4, <1>5, <1>6 DEF Steps, Goes

\* The frames handed out are the messages of each connection, in order and whole, from its
\* first on and without a gap, and they never change: for any number of messages of any
\* length, any sizes of what is read at once and of the buffer.
THEOREM FramingRefinesStream ==
  Spec => ImplementsStream
<1>1. Init => Stream!Init
  <2> SUFFICES ASSUME Init PROVE Stream!Init
    OBVIOUS
  <2>1. ec = "none" /\ wire \in Streams /\ nth = 0 /\ delivered = <<>>
    BY DEF Init
  <2>2. nth \in 0 .. Len(wire)
    BY <2>1, WireTyped
  <2>3. Coming = [i \in 1 .. Len(wire) - nth |-> Content[wire[nth + i]]]
    BY DEF Coming
  <2>4. Coming \in Seq(Range(Content))
    BY <2>1, <2>2, <2>3, ComingTyped
  <2>5. Handed = <<>>
    BY <2>1 DEF Handed
  <2>6. (ec = "none") = TRUE
    BY <2>1
  <2> QED
    BY <2>4, <2>5, <2>6 DEF Stream!Init, Coming, Handed
<1>2. PlaceInv /\ [Next]_vars => [Stream!Next]_(Stream!streamVars)
  <2> SUFFICES ASSUME PlaceInv, [Next]_vars
               PROVE  [Stream!Next]_(Stream!streamVars)
    OBVIOUS
  <2>1. CASE Delivering
    BY <2>1 DEF Delivering, Stream!Next, Stream!Deliver, Coming, Handed
  <2>2. CASE Failing
    BY <2>2 DEF Failing, Stream!Next, Stream!Fail, Coming, Handed
  <2>3. CASE Replacing
    BY <2>3 DEF Replacing, Stream!Next, Stream!Replace, Coming, Handed
  <2>4. CASE Waiting
    BY <2>4 DEF Waiting, Stream!streamVars, Coming, Handed
  <2> QED
    BY <2>1, <2>2, <2>3, <2>4, StreamStep
<1> QED
  BY <1>1, <1>2, PlaceKnown, PTL DEF Spec, ImplementsStream, Stream!Spec
=============================================================================
