------------------------ MODULE SendPathRefinement -------------------------
(***************************************************************************)
(* The send path implements FifoLink, for any set of buffers and any       *)
(* bounds.  One lemma per method says what it does to the two mapped       *)
(* expressions, Unsent and Torn; soundness (SendPathProofs) is what makes  *)
(* the buffers of a finished or failed write irrelevant.                   *)
(***************************************************************************)
EXTENDS SendPathProofs

\* Taking the first element off a tail of s, with t behind it.
LEMMA TakeFirst ==
  ASSUME NEW s \in Seq(Data), NEW t \in Seq(Data), NEW n \in 1 .. Len(s)
  PROVE  /\ SubSeq(s, n, Len(s)) \o t # <<>>
         /\ Head(SubSeq(s, n, Len(s)) \o t) = s[n]
         /\ Tail(SubSeq(s, n, Len(s)) \o t) = SubSeq(s, n + 1, Len(s)) \o t
<1> DEFINE p == SubSeq(s, n, Len(s)) \o t
           q == SubSeq(s, n + 1, Len(s)) \o t
<1>1. p \in Seq(Data) /\ q \in Seq(Data)
  OBVIOUS
<1>2. Len(p) = Len(s) - n + 1 + Len(t) /\ Len(q) = Len(s) - n + Len(t)
  OBVIOUS
<1>3. p # <<>> /\ Head(p) = s[n]
  <2>1. p # <<>>
    <3>1. Len(p) # 0
      BY <1>2
    <3> HIDE DEF p
    <3> QED
      BY <3>1
  <2>2. Head(p) = p[1]
    BY <1>1, <2>1
  <2>3. p[1] = s[n]
    OBVIOUS
  <2> QED
    BY <2>1, <2>2, <2>3
<1>4. \A i \in 1 .. Len(q) : Tail(p)[i] = q[i]
  OBVIOUS
<1>5. Tail(p) \in Seq(Data) /\ Len(Tail(p)) = Len(q)
  BY <1>1, <1>2, <1>3
<1> QED
  BY <1>1, <1>3, <1>4, <1>5, SeqEqual

\* The whole of s is what is left of it before anything is taken.
LEMMA NothingTaken ==
  ASSUME NEW s \in Seq(Data)
  PROVE  SubSeq(s, 0 + 1, Len(s)) \o <<>> = s
  OBVIOUS
\* Nothing is left of s once all of it is taken.
LEMMA AllTaken ==
  ASSUME NEW s \in Seq(Data), NEW t \in Seq(Data), NEW n \in Nat, n >= Len(s)
  PROVE  SubSeq(s, n + 1, Len(s)) \o t = t
<1>1. SubSeq(s, n + 1, Len(s)) = <<>>
  OBVIOUS
<1> QED
  BY <1>1
-----------------------------------------------------------------------------
\* A step on one and the same link, from what it is in c to what it is in e: nothing that
\* was pending or carried goes missing unless the link is torn.
KeptStep(c, e) ==
    \/ /\ Unsent(e) = Unsent(c) /\ e.wire = c.wire /\ Torn(e) = Torn(c)
    \/ /\ \E d \in Data : Unsent(e) = Append(Unsent(c), d)
       /\ e.wire = c.wire /\ Torn(e) = Torn(c)
    \/ /\ ~Torn(c) /\ Unsent(c) # <<>>
       /\ e.wire = Append(c.wire, Head(Unsent(c)))
       /\ Unsent(e) = Tail(Unsent(c)) /\ Torn(e) = Torn(c)
    \/ /\ Torn(e) = TRUE
       /\ e.wire \in {c.wire, <<>>} /\ Unsent(e) \in {Unsent(c), <<>>}
    \/ /\ Torn(c) /\ Unsent(c) # <<>>
       /\ Unsent(e) = Tail(Unsent(c)) /\ e.wire = c.wire /\ Torn(e) = Torn(c)

\* Any step of the link: a fresh one may replace it, and the server takes what it carries.
LinkStep(c, e) ==
    \/ KeptStep(c, e)
    \/ /\ e.wire = <<>> /\ Torn(e) \in BOOLEAN /\ Unsent(e) = Unsent(c)
    \/ /\ \E i \in DOMAIN c.wire : e.wire = RemoveAt(c.wire, i)
       /\ Unsent(e) = Unsent(c) /\ Torn(e) = Torn(c)

\* Closing tears the link; a write that has already ended keeps the queue behind it.
LEMMA StopStep ==
  ASSUME NEW c, Sound(c)
  PROVE  KeptStep(c, stop(c))
<1> DEFINE e == stop(c)
<1>1. c \in Connections
  BY DEF Sound
<1>2. /\ e.sock = "closed" /\ e.wire = <<>> /\ e.m_queue = c.m_queue
      /\ e.write.st = IF c.write.st = "pending" THEN "error" ELSE c.write.st
      /\ e.write.data = c.write.data /\ e.write.done = c.write.done
  BY <1>1, StopFields
<1>3. Torn(e) = TRUE
  BY <1>2 DEF Torn
<1>4. Unsent(e) \in {Unsent(c), <<>>}
  BY <1>2 DEF Unsent
<1> QED
  BY <1>2, <1>3, <1>4 DEF KeptStep

\* A new socket is a fresh link, unless it inherits a write that was cut off.
LEMMA OpenStep ==
  ASSUME NEW c, Sound(c)
  PROVE  LinkStep(c, open_socket(c))
<1> DEFINE s == stop(c)
           e == open_socket(c)
<1>1. c \in Connections
  BY DEF Sound
<1>2. /\ s \in Connections /\ s.wire = <<>> /\ s.m_queue = c.m_queue
      /\ s.write.st = IF c.write.st = "pending" THEN "error" ELSE c.write.st
      /\ s.write.data = c.write.data /\ s.write.done = c.write.done
  BY <1>1, StopFields
<1>3. e.wire = s.wire /\ e.write = s.write /\ e.m_queue = s.m_queue
  BY <1>2 DEF open_socket, Connections
<1>4. CASE c.write.st = "pending"
  <2>1. Torn(e) = TRUE /\ Unsent(e) = <<>>
    BY <1>2, <1>3, <1>4 DEF Torn, Unsent
  <2> QED
    BY <1>2, <1>3, <2>1 DEF LinkStep, KeptStep
<1>5. CASE c.write.st # "pending"
  <2>1. Unsent(e) = Unsent(c)
    BY <1>2, <1>3, <1>5 DEF Unsent
  <2>2. Torn(e) \in BOOLEAN
    BY DEF Torn
  <2> QED
    BY <1>2, <1>3, <2>1, <2>2 DEF LinkStep
<1> QED
  BY <1>4, <1>5

\* Starting a write of data on an idle send path makes exactly data pending, or, on a
\* closed socket, nothing.
LEMMA StartedWrite ==
  ASSUME NEW b \in Connections, NEW data \in Seq(Data), NEW src \in {"single", "queue"},
         b.m_queue.active = <<>>
  PROVE  LET e == AsyncWrite(b, data, src)
         IN  /\ e.wire = b.wire
             /\ b.sock = "closed" => Torn(e) /\ Unsent(e) = <<>>
             /\ b.sock # "closed" => Unsent(e) = data /\ (Torn(e) <=> b.sock = "broken" \/ b.garbled)
<1> DEFINE e == AsyncWrite(b, data, src)
<1>1. /\ e.wire = b.wire /\ e.sock = b.sock /\ e.m_queue = b.m_queue
      /\ e.write.data = data /\ e.write.done = 0 /\ e.write.cut = "no"
  BY AsyncWriteFields
<1>2. e.write.st = IF b.sock = "closed" THEN "error" ELSE "pending"
  BY AsyncWriteFields DEF AttemptOn
<1>10. e.garbled = b.garbled
  BY AsyncWriteFields
<1> HIDE DEF e
<1>3. b.sock = "closed" => Torn(e) /\ Unsent(e) = <<>>
  BY <1>1, <1>2 DEF Torn, Unsent
<1>4. b.sock # "closed" => (Torn(e) <=> b.sock = "broken" \/ b.garbled)
  BY <1>1, <1>2, <1>10 DEF Torn
<1>5. b.sock # "closed" => Unsent(e) = data
  <2> SUFFICES ASSUME b.sock # "closed" PROVE Unsent(e) = data
    OBVIOUS
  <2>1. e.write.st = "pending" /\ e.m_queue.active = <<>>
    BY <1>1, <1>2
  <2>2. Unsent(e) = SubSeq(data, 0 + 1, Len(data)) \o <<>>
    BY <1>1, <2>1 DEF Unsent
  <2> QED
    BY <2>2, NothingTaken
<1> QED
  BY <1>1, <1>3, <1>4, <1>5 DEF e

\* Sending is accepted at the end, or refused by a link that is torn already.
LEMMA SendStep ==
  ASSUME NEW c, Sound(c), NEW d \in Data
  PROVE  KeptStep(c, send_data(c, d))
<1> DEFINE e == send_data(c, d)
<1>0. c \in Connections /\ c.m_queue \in QueueOf(Data) /\ c.write \in Writes
  BY DEF Sound, Connections
<1>1. CASE c.m_sending
  <2> DEFINE act == c.m_queue.active
  <2>1. act \in Seq(Data)
    BY <1>0 DEF QueueOf
  <2>2. e = [c EXCEPT !.m_queue = push(@, d)]
    BY <1>1 DEF send_data
  <2>3. /\ e.wire = c.wire /\ e.sock = c.sock /\ e.write = c.write
        /\ e.m_queue = push(c.m_queue, d) /\ e.garbled = c.garbled
    BY <1>0, <2>2 DEF Connections
  <2>4. push(c.m_queue, d).active = Append(act, d)
    BY <1>0 DEF push, QueueOf
  <2>5. Torn(e) = Torn(c)
    BY <2>3 DEF Torn
  <2>6. CASE c.write.st = "error"
    <3>1. Unsent(e) = Unsent(c)
      BY <2>3, <2>6 DEF Unsent
    <3> QED
      BY <2>3, <2>5, <3>1 DEF KeptStep
  <2>7. CASE c.write.st # "error"
    <3> DEFINE left == SubSeq(c.write.data, c.write.done + 1, Len(c.write.data))
    <3>1. c.write.data \in Seq(Data) /\ c.write.done \in Nat
      BY <1>0 DEF Writes
    <3>2. left \in Seq(Data)
      BY <3>1
    <3>3. Unsent(c) = left \o act
      BY <2>7 DEF Unsent
    <3>4. Unsent(e) = left \o Append(act, d)
      BY <2>3, <2>4, <2>7 DEF Unsent
    <3> HIDE DEF left, act
    <3>5. left \o Append(act, d) = Append(left \o act, d)
      BY <2>1, <3>2
    <3>6. Unsent(e) = Append(Unsent(c), d)
      BY <3>3, <3>4, <3>5
    <3> QED
      BY <2>3, <2>5, <3>6 DEF KeptStep
  <2> QED
    BY <2>6, <2>7
<1>2. CASE ~c.m_sending
  <2> DEFINE b == [c EXCEPT !.m_sending = TRUE]
             one == <<d>>
  <2>1. b \in Connections
    BY <1>0 DEF Connections
  <2>2. b.sock = c.sock /\ b.wire = c.wire /\ b.m_queue = c.m_queue /\ b.garbled = c.garbled
    BY <1>0 DEF Connections
  <2>3. e = AsyncWrite(b, one, "single")
    BY <1>2 DEF send_data, init_single_send
  <2>4. /\ c.write.st = "none" /\ c.write.data = <<>> /\ c.write.cut = "no"
        /\ c.m_queue.active = <<>>
    BY <1>2 DEF Sound
  <2>5. Unsent(c) = <<>>
    <3>1. c.write.done \in Nat /\ c.write.done >= Len(<<>>)
      BY <1>0 DEF Writes
    <3>2. SubSeq(<<>>, c.write.done + 1, Len(<<>>)) \o <<>> = <<>>
      BY <3>1, EmptyIsSeq, AllTaken
    <3> QED
      BY <2>4, <3>2 DEF Unsent
  <2>6. one \in Seq(Data) /\ one = Append(<<>>, d)
    OBVIOUS
  <2>7. c.sock \in SockStates
    BY <1>0 DEF Connections
  <2> HIDE DEF b, one, e
  <2>8. /\ e.wire = c.wire
        /\ c.sock = "closed" => Torn(e) /\ Unsent(e) = <<>>
        /\ c.sock # "closed" => Unsent(e) = one /\ (Torn(e) <=> c.sock = "broken" \/ c.garbled)
    BY <2>1, <2>2, <2>3, <2>4, <2>6, StartedWrite
  <2>9. CASE c.sock = "closed"
    <3>1. Torn(e) = TRUE
      BY <2>8, <2>9 DEF Torn
    <3> QED
      BY <2>8, <2>9, <3>1 DEF KeptStep, e
  <2>10. CASE c.sock # "closed"
    <3>1. Torn(e) = Torn(c)
      BY <2>4, <2>8, <2>10 DEF Torn
    <3>2. Unsent(e) = Append(Unsent(c), d)
      BY <2>5, <2>6, <2>8, <2>10
    <3> QED
      BY <2>8, <3>1, <3>2 DEF KeptStep, e
  <2> QED
    BY <2>9, <2>10
<1> QED
  BY <1>1, <1>2

\* The completion handler passes the queue on unchanged, or loses it with the link.
LEMMA DataSentStep ==
  ASSUME NEW c, Sound(c), Finished(c), ~HasRest(c)
  PROVE  KeptStep(c, on_data_sent(c))
<1> DEFINE idle == [c EXCEPT !.m_sending = FALSE, !.write = NoWrite]
           e == on_data_sent(c)
<1>0. c \in Connections
  BY DEF Sound
<1>1. idle \in Connections
  BY <1>0, NoWriteType DEF Connections
<1>2. idle.sock = c.sock /\ idle.wire = c.wire /\ idle.m_queue = c.m_queue /\ idle.write = NoWrite
  BY <1>0 DEF Connections
<1>10. idle.garbled = c.garbled
  BY <1>0 DEF Connections
<1>11. SubSeq(<<>>, 0 + 1, Len(<<>>)) \o <<>> = <<>>
  BY EmptyIsSeq, NothingTaken
<1>3. CASE c.write.st = "error"
  <2> DEFINE s == stop(idle)
             k == [s EXCEPT !.m_queue = clear(@)]
  <2>1. WriteRetired(c) = k
    BY <1>3 DEF WriteRetired
  <2> HIDE DEF idle
  <2>2. /\ s \in Connections /\ s.sock = "closed" /\ s.wire = <<>>
        /\ s.write.st = "none" /\ s.write.data = <<>> /\ s.write.done = 0
    <3>1. idle.write.st = "none" /\ idle.write.data = <<>> /\ idle.write.done = 0
      BY <1>2 DEF NoWrite
    <3>2. /\ s \in Connections /\ s.sock = "closed" /\ s.wire = <<>>
          /\ s.write.data = idle.write.data /\ s.write.done = idle.write.done
      BY <1>1, StopFields
    <3>3. s.write.st = IF idle.write.st = "pending" THEN "error" ELSE idle.write.st
      BY <1>1, StopFields
    <3> QED
      BY <3>1, <3>2, <3>3
  <2> HIDE DEF s
  <2>3. k.sock = "closed" /\ k.wire = <<>> /\ k.write = s.write /\ k.m_queue = clear(s.m_queue)
    BY <2>2 DEF Connections
  <2>4. k.m_queue.active = <<>>
    BY <2>2, <2>3 DEF clear, Connections, QueueOf
  <2> HIDE DEF k
  <2>5. e = k
    BY <2>1, <2>4 DEF on_data_sent, is_ready
  <2>6. Unsent(e) = <<>> /\ Torn(e) = TRUE
    BY <1>11, <2>2, <2>3, <2>4, <2>5 DEF Unsent, Torn
  <2> QED
    BY <2>3, <2>5, <2>6 DEF KeptStep
<1>4. CASE c.write.st = "ok"
  <2>1. WriteRetired(c) = idle
    BY <1>4 DEF WriteRetired
  <2>2. Unsent(c) = c.m_queue.active /\ c.write.cut = "no"
    <3>1. /\ c.write.data \in Seq(Data) /\ c.write.done \in Nat
          /\ c.m_queue.active \in Seq(Data)
      BY <1>0 DEF Connections, Writes, QueueOf
    <3>2. c.write.done >= Len(c.write.data)
      BY <1>4, <3>1 DEF HasRest
    <3>3. SubSeq(c.write.data, c.write.done + 1, Len(c.write.data)) \o c.m_queue.active
              = c.m_queue.active
      BY <3>1, <3>2, AllTaken
    <3>4. c.write.cut = "no"
      BY <3>1, <3>2 DEF Sound
    <3> QED
      BY <1>4, <3>3, <3>4 DEF Unsent
  <2>3. CASE ~is_ready(c.m_queue)
    <3>1. e = idle
      BY <1>2, <2>1, <2>3 DEF on_data_sent
    <3> HIDE DEF idle, e
    <3>2. Unsent(e) = Unsent(c)
      <4>1. c.m_queue.active = <<>>
        BY <2>3 DEF is_ready
      <4>2. /\ e.write.st = "none" /\ e.write.data = <<>> /\ e.write.done = 0
            /\ e.m_queue.active = <<>>
        BY <1>2, <3>1, <4>1 DEF NoWrite
      <4> QED
        BY <1>11, <2>2, <4>1, <4>2 DEF Unsent
    <3>3. Torn(e) = Torn(c)
      <4>1. /\ e.sock = c.sock /\ e.garbled = c.garbled
            /\ e.write.st = "none" /\ e.write.cut = "no"
        BY <1>2, <1>10, <3>1 DEF NoWrite
      <4> QED
        BY <1>4, <2>2, <4>1 DEF Torn
    <3> QED
      BY <1>2, <3>1, <3>2, <3>3 DEF KeptStep, e
  <2>4. CASE is_ready(c.m_queue)
    <3> DEFINE q == swap(c.m_queue)
               b == [idle EXCEPT !.m_sending = TRUE, !.m_queue = q]
    <3>1. e = AsyncWrite(b, q.inactive, "queue")
      BY <1>2, <2>1, <2>4 DEF on_data_sent, init_queue_send
    <3> HIDE DEF idle, e
    <3>2. /\ q \in QueueOf(Data) /\ q.active = <<>> /\ q.inactive = c.m_queue.active
          /\ q.inactive \in Seq(Data)
      BY <1>0, EmptyIsSeq DEF swap, QueueOf, Connections
    <3> HIDE DEF q
    <3>3. b \in Connections
      BY <1>1, <3>2 DEF Connections
    <3>4. b.sock = c.sock /\ b.wire = c.wire /\ b.m_queue = q /\ b.garbled = c.garbled
      BY <1>1, <1>2, <1>10 DEF Connections
    <3> HIDE DEF b
    <3>5. /\ e.wire = c.wire
          /\ c.sock = "closed" => Torn(e) /\ Unsent(e) = <<>>
          /\ c.sock # "closed" => Unsent(e) = q.inactive /\ (Torn(e) <=> c.sock = "broken" \/ c.garbled)
      BY <3>1, <3>2, <3>3, <3>4, StartedWrite
    <3>6. CASE c.sock = "closed"
      <4>1. Torn(e) = TRUE
        BY <3>5, <3>6 DEF Torn
      <4> QED
        BY <3>5, <3>6, <4>1 DEF KeptStep, e
    <3>7. CASE c.sock # "closed"
      <4>1. Torn(e) = Torn(c)
        BY <1>4, <2>2, <3>5, <3>7 DEF Torn
      <4>2. Unsent(e) = Unsent(c)
        BY <2>2, <3>2, <3>5, <3>7
      <4> QED
        BY <3>5, <4>1, <4>2 DEF KeptStep, e
    <3> QED
      BY <3>6, <3>7
  <2> QED
    BY <2>3, <2>4
<1> QED
  BY <1>3, <1>4 DEF Finished

\* Between two async_write_some nothing happens to the link, unless the socket is closed.
LEMMA WriteOpStep ==
  ASSUME NEW c, Sound(c), Finished(c)
  PROVE  KeptStep(c, write_op(c))
<1>1. CASE HasRest(c)
  <2> DEFINE e == write_op(c)
  <2>1. c \in Connections /\ c.write \in Writes
    BY DEF Sound, Connections
  <2>2. /\ e.wire = c.wire /\ e.sock = c.sock /\ e.m_queue = c.m_queue
        /\ e.write = [c.write EXCEPT !.st = AttemptOn(c.sock)] /\ e.garbled = c.garbled
    BY <1>1, <2>1 DEF write_op, Connections
  <2>3. /\ e.write.st = AttemptOn(c.sock) /\ e.write.data = c.write.data
        /\ e.write.done = c.write.done /\ e.write.cut = c.write.cut
    BY <2>1, <2>2 DEF Writes
  <2>4. c.write.st = "ok"
    BY <1>1 DEF HasRest
  <2> HIDE DEF e
  <2>5. CASE c.sock = "closed"
    <3>1. Unsent(e) = <<>> /\ Torn(e) = TRUE
      BY <2>3, <2>5 DEF Unsent, Torn, AttemptOn
    <3> QED
      BY <2>2, <3>1 DEF KeptStep, e
  <2>6. CASE c.sock # "closed"
    <3>1. e.write.st = "pending"
      BY <2>3, <2>6 DEF AttemptOn
    <3>2. Unsent(e) = Unsent(c)
      BY <2>2, <2>3, <2>4, <3>1 DEF Unsent
    <3>3. Torn(e) = Torn(c)
      BY <2>2, <2>3, <2>4, <3>1 DEF Torn
    <3> QED
      BY <2>2, <3>2, <3>3 DEF KeptStep, e
  <2> QED
    BY <2>5, <2>6
<1>2. CASE ~HasRest(c)
  BY <1>2, DataSentStep DEF write_op
<1> QED
  BY <1>1, <1>2

\* async_connect: the link is as it was, or torn before it carried anything.
LEMMA ConnectOutcomeStep ==
  ASSUME NEW c, Sound(c), c.sock = "opening"
  PROVE  KeptStep(c, Established(c)) /\ KeptStep(c, ConnectFailed(c))
<1>0. c \in Connections
  BY DEF Sound
<1>1. ASSUME NEW to \in {"up", "broken"}
      PROVE  KeptStep(c, [c EXCEPT !.sock = to])
  <2> DEFINE e == [c EXCEPT !.sock = to]
  <2>1. /\ e.wire = c.wire /\ e.write = c.write /\ e.m_queue = c.m_queue /\ e.sock = to
        /\ e.garbled = c.garbled
    BY <1>0 DEF Connections
  <2> HIDE DEF e
  <2>2. Unsent(e) = Unsent(c)
    BY <2>1 DEF Unsent
  <2>3. Torn(e) = TRUE \/ Torn(e) = Torn(c)
    BY <2>1 DEF Torn
  <2> QED
    BY <2>1, <2>2, <2>3 DEF KeptStep, e
<1> QED
  BY <1>1 DEF Established, ConnectFailed

\* A lost peer tears the link; what is pending stays pending until the write fails.
LEMMA PeerLostStep ==
  ASSUME NEW c, Sound(c)
  PROVE  KeptStep(c, PeerLost(c))
<1> DEFINE e == PeerLost(c)
<1>1. c \in Connections
  BY DEF Sound
<1>2. e.wire = <<>> /\ e.write = c.write /\ e.m_queue = c.m_queue /\ e.sock = "broken"
  BY <1>1 DEF PeerLost, Connections
<1>3. Unsent(e) = Unsent(c) /\ Torn(e) = TRUE
  BY <1>2 DEF Unsent, Torn
<1> QED
  BY <1>2, <1>3 DEF KeptStep

\* A failed write loses everything that is pending.
LEMMA WriteFailedStep ==
  ASSUME NEW c, Sound(c)
  PROVE  KeptStep(c, WriteFailed(c))
<1> DEFINE e == WriteFailed(c)
<1>1. c \in Connections /\ c.write \in Writes
  BY DEF Sound, Connections
<1>2. e.wire = c.wire /\ e.write = [c.write EXCEPT !.st = "error"]
  BY <1>1 DEF WriteFailed, Connections
<1>3. e.write.st = "error"
  BY <1>1, <1>2 DEF Writes
<1>4. Unsent(e) = <<>> /\ Torn(e) = TRUE
  BY <1>3 DEF Unsent, Torn
<1> QED
  BY <1>2, <1>4 DEF KeptStep

\* The beginning of a message that the kernel has taken is not the message.
LEMMA PartTransferredStep ==
  ASSUME NEW c, Sound(c), Writable(c), Divisible(c)
  PROVE  KeptStep(c, PartTransferred(c))
<1> DEFINE e == PartTransferred(c)
<1>0. c.write.st = "pending" /\ c.write.cut = "no"
  BY DEF Writable, Divisible
<1>1. c \in Connections /\ c.write \in Writes
  BY DEF Sound, Connections
<1>2. /\ e.wire = c.wire /\ e.sock = c.sock /\ e.m_queue = c.m_queue
      /\ e.write = [c.write EXCEPT !.st = "ok", !.cut = "here"] /\ e.garbled = c.garbled
  BY <1>1 DEF PartTransferred, Connections
<1>3. /\ e.write.st = "ok" /\ e.write.data = c.write.data
      /\ e.write.done = c.write.done /\ e.write.cut = "here"
  BY <1>1, <1>2 DEF Writes
<1> HIDE DEF e
<1>4. Unsent(e) = Unsent(c)
  BY <1>0, <1>2, <1>3 DEF Unsent
<1>5. Torn(e) = Torn(c)
  BY <1>0, <1>2, <1>3 DEF Torn
<1> QED
  BY <1>2, <1>4, <1>5 DEF KeptStep, e

\* The kernel takes the oldest pending message, to carry it or to lose it.
LEMMA TransferredStep ==
  ASSUME NEW c, Sound(c), Writable(c)
  PROVE  KeptStep(c, Transferred(c))
<1> DEFINE e == Transferred(c)
           n == c.write.done + 1
           data == c.write.data
           act == c.m_queue.active
           lost == c.write.cut = "lost"
<1>0. c.write.st = "pending" /\ c.sock \in {"up", "broken"}
  BY DEF Writable
<1>1. data \in Seq(Data) /\ act \in Seq(Data)
  BY DEF Sound, Connections, Writes, QueueOf
<1>2. /\ n \in 1 .. Len(data) /\ e.sock = c.sock /\ e.m_queue = c.m_queue
      /\ e.wire = IF c.sock = "up" /\ ~lost /\ ~c.garbled
                  THEN Append(c.wire, data[n]) ELSE c.wire
      /\ e.write.st = "ok" /\ e.write.cut = "no"
      /\ e.write.data = data /\ e.write.done = n
  BY TransferredFields
<1>10. e.garbled <=> c.garbled \/ (c.sock = "up" /\ lost)
  BY TransferredFields
<1> HIDE DEF e
<1>3. Unsent(c) = SubSeq(data, n, Len(data)) \o act
  BY <1>0 DEF Unsent
<1>4. Unsent(e) = SubSeq(data, n + 1, Len(data)) \o act
  BY <1>2 DEF Unsent
<1>5. Unsent(c) # <<>> /\ Head(Unsent(c)) = data[n] /\ Tail(Unsent(c)) = Unsent(e)
  <2> HIDE DEF n, data, act
  <2>1. n \in 1 .. Len(data)
    BY <1>2
  <2>2. /\ SubSeq(data, n, Len(data)) \o act # <<>>
        /\ Head(SubSeq(data, n, Len(data)) \o act) = data[n]
        /\ Tail(SubSeq(data, n, Len(data)) \o act) = SubSeq(data, n + 1, Len(data)) \o act
    BY <1>1, <2>1, TakeFirst
  <2> QED
    BY <1>3, <1>4, <2>2
<1>6. Torn(e) = Torn(c)
  BY <1>0, <1>2, <1>10 DEF Torn
<1>7. CASE c.sock = "up" /\ ~lost /\ ~c.garbled
  <2>1. ~Torn(c)
    BY <1>0, <1>7 DEF Torn
  <2> QED
    BY <1>2, <1>5, <1>6, <1>7, <2>1 DEF KeptStep, e
<1>8. CASE c.sock = "broken" \/ lost \/ c.garbled
  <2>1. Torn(c)
    BY <1>8 DEF Torn
  <2> QED
    BY <1>2, <1>5, <1>6, <1>8, <2>1 DEF KeptStep, e
<1> QED
  BY <1>0, <1>7, <1>8

\* The server takes a message that the link has carried.
LEMMA ConsumedStep ==
  ASSUME NEW c, Sound(c), NEW i \in DOMAIN c.wire
  PROVE  LinkStep(c, Consumed(c, i))
<1> DEFINE e == Consumed(c, i)
<1>1. c \in Connections
  BY DEF Sound
<1>2. /\ e.wire = RemoveAt(c.wire, i)
      /\ e.write = c.write /\ e.m_queue = c.m_queue /\ e.sock = c.sock /\ e.garbled = c.garbled
  BY <1>1 DEF Consumed, Connections
<1>3. Unsent(e) = Unsent(c)
  BY <1>2 DEF Unsent
<1>4. Torn(e) = Torn(c)
  BY <1>2 DEF Torn
<1> QED
  BY <1>2, <1>3, <1>4 DEF LinkStep
-----------------------------------------------------------------------------
\* The send path implements the abstract link: first in first out, without duplicates,
\* and nothing is carried after a gap.
THEOREM SendPathRefinesLink == SendSpec => ImplementsLink
<1>1. SendInit => Link!LinkInit
  BY DEF SendInit, NewConnection, NoWrite, EmptyQueue, Link!LinkInit, Unsent, Torn
<1>2. Sound(conn) /\ [SendNext]_conn => [Link!LinkNext]_(Link!linkVars)
  <2> SUFFICES ASSUME Sound(conn), [SendNext]_conn
               PROVE  [Link!LinkNext]_(Link!linkVars)
    OBVIOUS
  <2> DEFINE c == conn
             e == conn'
             Same == Unsent(e) = Unsent(c) /\ e.wire = c.wire /\ Torn(e) = Torn(c)
  <2>1. Unsent(conn)' = Unsent(e) /\ Torn(conn)' = Torn(e)
    BY DEF Unsent, Torn
  <2>2. LinkStep(c, e) => [Link!LinkNext]_(Link!linkVars)
    <3> SUFFICES ASSUME LinkStep(c, e) PROVE [Link!LinkNext]_(Link!linkVars)
      OBVIOUS
    <3>1. CASE Same
      BY <2>1, <3>1 DEF Link!linkVars
    <3>2. CASE /\ \E d \in Data : Unsent(e) = Append(Unsent(c), d)
               /\ e.wire = c.wire /\ Torn(e) = Torn(c)
      BY <2>1, <3>2 DEF Link!LinkNext, Link!Accept
    <3>3. CASE /\ ~Torn(c) /\ Unsent(c) # <<>>
               /\ e.wire = Append(c.wire, Head(Unsent(c)))
               /\ Unsent(e) = Tail(Unsent(c)) /\ Torn(e) = Torn(c)
      BY <2>1, <3>3 DEF Link!LinkNext, Link!HandOver
    <3>4. CASE /\ Torn(e) = TRUE
               /\ e.wire \in {c.wire, <<>>} /\ Unsent(e) \in {Unsent(c), <<>>}
      BY <2>1, <3>4 DEF Link!LinkNext, Link!Tear
    <3>5. CASE /\ Torn(c) /\ Unsent(c) # <<>>
               /\ Unsent(e) = Tail(Unsent(c)) /\ e.wire = c.wire /\ Torn(e) = Torn(c)
      BY <2>1, <3>5 DEF Link!LinkNext, Link!Swallow
    <3>6. CASE e.wire = <<>> /\ Torn(e) \in BOOLEAN /\ Unsent(e) = Unsent(c)
      BY <2>1, <3>6 DEF Link!LinkNext, Link!Replace
    <3>7. CASE /\ \E i \in DOMAIN c.wire : e.wire = RemoveAt(c.wire, i)
               /\ Unsent(e) = Unsent(c) /\ Torn(e) = Torn(c)
      BY <2>1, <3>7 DEF Link!LinkNext, Link!Take, RemoveAt, Link!RemoveAt
    <3> QED
      BY <3>1, <3>2, <3>3, <3>4, <3>5, <3>6, <3>7 DEF LinkStep, KeptStep
  <2>3. UNCHANGED conn => LinkStep(c, e)
    BY DEF LinkStep, KeptStep
  <2>4. ASSUME SendNext PROVE LinkStep(c, e)
    <3>1. ASSUME NEW d \in Data, SendData(d) PROVE LinkStep(c, e)
      BY <3>1, SendStep DEF LinkStep, SendData
    <3>2. CASE OnWritten
      BY <3>2, WriteOpStep DEF LinkStep, OnWritten
    <3>3. CASE Stop
      BY <3>3, StopStep DEF LinkStep, Stop
    <3>4. CASE OpenSocket
      BY <3>4, OpenStep DEF OpenSocket
    <3>5. CASE Establish
      BY <3>5, ConnectOutcomeStep DEF LinkStep, Establish
    <3>6. CASE FailConnect
      BY <3>6, ConnectOutcomeStep DEF LinkStep, FailConnect
    <3>7. CASE LosePeer
      BY <3>7, PeerLostStep DEF LinkStep, LosePeer
    <3>8. CASE Transfer
      BY <3>8, TransferredStep, PartTransferredStep DEF LinkStep, Transfer
    <3>9. CASE FailWrite
      BY <3>9, WriteFailedStep DEF LinkStep, FailWrite
    <3>10. CASE Consume
      BY <3>10, ConsumedStep DEF Consume
    <3> QED
      BY <2>4, <3>1, <3>2, <3>3, <3>4, <3>5, <3>6, <3>7, <3>8, <3>9, <3>10 DEF SendNext
  <2> QED
    BY <2>2, <2>3, <2>4
<1> QED
  BY <1>1, <1>2, SendPathSound, PTL DEF SendSpec, ImplementsLink, Link!LinkSpec
=============================================================================
