-------------------------- MODULE SendPathProofs ---------------------------
(***************************************************************************)
(* Proofs about the send path, for any set of buffers and any bounds.      *)
(*                                                                         *)
(* Sound(c) is the inductive invariant, as a predicate on a Connection, so *)
(* that the lemmas about its methods serve every specification that calls  *)
(* them.  SendingIffWrite is not inductive alone: on_data_sent may start   *)
(* the next write only because no other one is in flight, and the batch it *)
(* freezes stays frozen only because send_data never swaps while           *)
(* m_sending is set.                                                       *)
(***************************************************************************)
EXTENDS SendPath, SequenceTheorems, TLAPS

Sound(c) ==
    /\ c \in Connections
    /\ c.m_sending <=> c.write.st # "none"
    /\ c.m_queue.active # <<>> => c.write.st # "none"
    /\ c.write.st # "none" /\ c.write.src = "queue" => c.m_queue.inactive = c.write.data
    /\ c.write.st = "none" => c.write.data = <<>>
    /\ c.write.st = "pending" => c.write.done < Len(c.write.data)
    /\ c.write.st = "ok" => c.write.done <= Len(c.write.data)
    /\ c.write.cut # "no" => c.write.st # "none" /\ c.write.done < Len(c.write.data)
    /\ c.wire # <<>> => c.sock = "up"

LEMMA EmptyIsSeq == <<>> \in Seq(Data)
  OBVIOUS

LEMMA NoWriteType == NoWrite \in Writes
  BY EmptyIsSeq DEF NoWrite, Writes, WriteStates, Cuts

\* What stop() leaves alone and what it changes.
LEMMA StopFields ==
  ASSUME NEW c \in Connections
  PROVE  /\ stop(c) \in Connections
         /\ stop(c).sock = "closed"
         /\ stop(c).wire = <<>>
         /\ stop(c).m_sending = c.m_sending
         /\ stop(c).m_queue = c.m_queue
         /\ stop(c).write.st = IF c.write.st = "pending" THEN "error" ELSE c.write.st
         /\ stop(c).write.data = c.write.data
         /\ stop(c).write.done = c.write.done
         /\ stop(c).write.src = c.write.src
         /\ stop(c).write.cut = IF c.write.cut = "here" THEN "lost" ELSE c.write.cut
         /\ stop(c).garbled = FALSE
<1>1. c.write \in Writes
  BY DEF Connections
<1>2. Aborted(c.write) \in Writes
  BY <1>1 DEF Aborted, Writes, WriteStates, Cuts
<1>3. stop(c) \in Connections
  BY <1>2, EmptyIsSeq DEF stop, Connections, SockStates
<1>4. /\ stop(c).sock = "closed"
      /\ stop(c).wire = <<>>
      /\ stop(c).write = Aborted(c.write)
      /\ stop(c).m_queue = c.m_queue
  BY DEF stop, Connections
<1>5. stop(c).m_sending = c.m_sending /\ stop(c).garbled = FALSE
  BY DEF stop, Connections
<1>6. /\ Aborted(c.write).st = IF c.write.st = "pending" THEN "error" ELSE c.write.st
      /\ Aborted(c.write).data = c.write.data
      /\ Aborted(c.write).done = c.write.done
      /\ Aborted(c.write).src = c.write.src
      /\ Aborted(c.write).cut = IF c.write.cut = "here" THEN "lost" ELSE c.write.cut
  BY <1>1 DEF Aborted, Writes
<1> QED
  BY <1>3, <1>4, <1>5, <1>6

\* Closing the socket keeps a Connection sound: the write in flight stays in flight.
LEMMA StopSound ==
  ASSUME NEW c, Sound(c)
  PROVE  Sound(stop(c))
  BY StopFields DEF Sound

\* A new connection attempt closes the socket first.
LEMMA OpenSound ==
  ASSUME NEW c, Sound(c)
  PROVE  Sound(open_socket(c))
<1> DEFINE s == stop(c)
           o == open_socket(c)
<1>1. Sound(s)
  BY StopSound
<1>2. s \in Connections /\ s.wire = <<>>
  BY StopFields DEF Sound
<1>3. o \in Connections
  BY <1>2 DEF open_socket, Connections, SockStates
<1>4. o.wire = s.wire /\ o.write = s.write /\ o.m_queue = s.m_queue
  BY <1>2 DEF open_socket, Connections
<1>5. o.m_sending = s.m_sending
  BY <1>2 DEF open_socket, Connections
<1> QED
  BY <1>1, <1>2, <1>3, <1>4, <1>5 DEF Sound

\* An async_write of data starts with nothing taken, and touches nothing else.
LEMMA AsyncWriteFields ==
  ASSUME NEW c \in Connections, NEW data \in Seq(Data), NEW src \in {"single", "queue"}
  PROVE  /\ AsyncWrite(c, data, src) \in Connections
         /\ AsyncWrite(c, data, src).sock = c.sock
         /\ AsyncWrite(c, data, src).wire = c.wire
         /\ AsyncWrite(c, data, src).m_sending = c.m_sending
         /\ AsyncWrite(c, data, src).m_queue = c.m_queue
         /\ AsyncWrite(c, data, src).garbled = c.garbled
         /\ AsyncWrite(c, data, src).write.st = AttemptOn(c.sock)
         /\ AsyncWrite(c, data, src).write.cut = "no"
         /\ AsyncWrite(c, data, src).write.data = data
         /\ AsyncWrite(c, data, src).write.done = 0
         /\ AsyncWrite(c, data, src).write.src = src
<1> DEFINE w == [st |-> AttemptOn(c.sock), data |-> data, done |-> 0, cut |-> "no", src |-> src]
           a == AsyncWrite(c, data, src)
<1>1. w \in Writes
  BY DEF Writes, WriteStates, Cuts, AttemptOn
<1>2. a = [c EXCEPT !.write = w]
  BY DEF AsyncWrite
<1>3. a \in Connections
  BY <1>1, <1>2 DEF Connections
<1>4. a.sock = c.sock /\ a.wire = c.wire /\ a.m_queue = c.m_queue /\ a.write = w
  BY <1>2 DEF Connections
<1>5. a.m_sending = c.m_sending /\ a.garbled = c.garbled
  BY <1>2 DEF Connections
<1> QED
  BY <1>3, <1>4, <1>5

\* Sending queues behind the write in flight, or starts one.
LEMMA SendSound ==
  ASSUME NEW c, Sound(c), NEW d \in Data
  PROVE  Sound(send_data(c, d))
<1> DEFINE s == send_data(c, d)
<1>0. c \in Connections /\ c.m_queue \in QueueOf(Data)
  BY DEF Sound, Connections
<1>1. CASE c.m_sending
  <2> DEFINE q == push(c.m_queue, d)
  <2>1. q \in QueueOf(Data) /\ q.inactive = c.m_queue.inactive
    <3>1. c.m_queue.active \in Seq(Data)
      BY <1>0 DEF QueueOf
    <3>2. Append(c.m_queue.active, d) \in Seq(Data)
      BY <3>1
    <3> QED
      BY <1>0, <3>2 DEF push, QueueOf
  <2>2. s = [c EXCEPT !.m_queue = q]
    BY <1>1 DEF send_data
  <2> HIDE DEF q
  <2>3. s \in Connections
    BY <1>0, <2>1, <2>2 DEF Connections
  <2>4. s.sock = c.sock /\ s.wire = c.wire /\ s.write = c.write /\ s.m_queue = q
    BY <1>0, <2>2 DEF Connections
  <2>5. s.m_sending = c.m_sending
    BY <1>0, <2>2 DEF Connections
  <2> QED
    BY <1>1, <2>1, <2>3, <2>4, <2>5 DEF Sound
<1>2. CASE ~c.m_sending
  <2> DEFINE b == [c EXCEPT !.m_sending = TRUE]
  <2>1. b \in Connections
    BY <1>0 DEF Connections
  <2>2. b.sock = c.sock /\ b.wire = c.wire /\ b.m_queue = c.m_queue
    BY <1>0 DEF Connections
  <2>3. b.m_sending = TRUE
    BY <1>0 DEF Connections
  <2> DEFINE one == <<d>>
  <2>4. s = AsyncWrite(b, one, "single")
    BY <1>2 DEF send_data, init_single_send
  <2>5. one \in Seq(Data) /\ Len(one) = 1
    OBVIOUS
  <2> HIDE DEF b, one, s
  <2>6. /\ s \in Connections /\ s.wire = c.wire /\ s.sock = c.sock
        /\ s.write.st \in {"pending", "error"} /\ s.write.src = "single"
        /\ s.write.data = one /\ s.write.done = 0
    BY <2>1, <2>2, <2>4, <2>5, AsyncWriteFields DEF AttemptOn
  <2>7. s.m_sending = TRUE
    BY <2>1, <2>3, <2>4, <2>5, AsyncWriteFields
  <2>8. s.m_sending <=> s.write.st # "none"
    BY <2>6, <2>7
  <2>9. s.wire # <<>> => s.sock = "up"
    BY <2>6 DEF Sound
  <2>10. s.write.done < Len(s.write.data)
    <3>1. s.write.done = 0
      BY <2>6
    <3>2. Len(s.write.data) = 1
      BY <2>5, <2>6
    <3> QED
      BY <3>1, <3>2
  <2>11. s.write.st # "none" /\ s.write.st # "ok" /\ s.write.src # "queue"
    BY <2>6
  <2>12. s \in Connections
    BY <2>6
  <2>13. Sound(s)
    BY <2>8, <2>9, <2>10, <2>11, <2>12 DEF Sound
  <2> QED
    BY <2>13 DEF s
<1> QED
  BY <1>1, <1>2

\* A Connection between two writes.
Idle(c) ==
    /\ c \in Connections
    /\ c.m_sending = FALSE
    /\ c.write = NoWrite
    /\ c.wire # <<>> => c.sock = "up"

\* The first half of on_data_sent: no write is left, and after a failure no data.
LEMMA RetiredIdle ==
  ASSUME NEW c, Sound(c), Finished(c)
  PROVE  Idle(WriteRetired(c))
<1> DEFINE i == [c EXCEPT !.m_sending = FALSE, !.write = NoWrite]
<1>0. c \in Connections
  BY DEF Sound
<1>1. i \in Connections
  BY <1>0, NoWriteType DEF Connections
<1>2. i.sock = c.sock /\ i.wire = c.wire /\ i.write = NoWrite /\ i.m_queue = c.m_queue
  BY <1>0 DEF Connections
<1>3. i.m_sending = FALSE
  BY <1>0 DEF Connections
<1>4. CASE c.write.st = "error"
  <2> DEFINE s == stop(i)
             q == clear(s.m_queue)
             k == [s EXCEPT !.m_queue = q]
  <2>1. WriteRetired(c) = k
    BY <1>4 DEF WriteRetired
  <2> HIDE DEF i
  <2>2. s \in Connections /\ s.wire = <<>> /\ s.m_sending = FALSE
    BY <1>1, <1>3, StopFields
  <2>3. s.write = NoWrite
    <3>1. Aborted(NoWrite) = NoWrite
      BY DEF Aborted, NoWrite
    <3> QED
      BY <1>1, <1>2, <3>1 DEF stop, Connections
  <2> HIDE DEF s
  <2>4. q \in QueueOf(Data)
    BY <2>2, EmptyIsSeq DEF clear, QueueOf, Connections
  <2> HIDE DEF q
  <2>5. k \in Connections
    BY <2>2, <2>4 DEF Connections
  <2>6. k.wire = <<>> /\ k.write = NoWrite
    BY <2>2, <2>3 DEF Connections
  <2>7. k.m_sending = FALSE
    BY <2>2 DEF Connections
  <2> QED
    BY <2>1, <2>5, <2>6, <2>7 DEF Idle
<1>5. CASE c.write.st # "error"
  <2>1. WriteRetired(c) = i
    BY <1>5 DEF WriteRetired
  <2> QED
    BY <1>1, <1>2, <1>3, <2>1 DEF Idle, Sound
<1> QED
  BY <1>4, <1>5

\* An idle Connection with data starts a batch of all of it.
LEMMA QueueSendSound ==
  ASSUME NEW c, Idle(c), is_ready(c.m_queue)
  PROVE  Sound(init_queue_send(c))
<1> DEFINE q == swap(c.m_queue)
           b == [c EXCEPT !.m_sending = TRUE, !.m_queue = q]
<1>0. c \in Connections /\ c.m_queue \in QueueOf(Data)
  BY DEF Idle, Connections
<1>1. /\ q \in QueueOf(Data)
      /\ q.active = <<>>
      /\ q.inactive = c.m_queue.active
      /\ q.inactive \in Seq(Data)
      /\ Len(q.inactive) > 0
  BY <1>0, EmptyIsSeq DEF swap, QueueOf, is_ready
<1>2. init_queue_send(c) = AsyncWrite(b, q.inactive, "queue")
  BY DEF init_queue_send
<1> HIDE DEF q
<1>3. b \in Connections
  BY <1>0, <1>1 DEF Connections
<1>4. b.sock = c.sock /\ b.wire = c.wire /\ b.m_queue = q
  BY <1>0 DEF Connections
<1>5. b.m_sending = TRUE
  BY <1>0 DEF Connections
<1> HIDE DEF b
<1> QED
  BY <1>1, <1>2, <1>3, <1>4, <1>5, AsyncWriteFields DEF Sound, Idle, AttemptOn

\* The completion handler retires the write and starts the next one if data is queued.
LEMMA DataSentSound ==
  ASSUME NEW c, Sound(c), Finished(c)
  PROVE  Sound(on_data_sent(c))
<1> DEFINE r == WriteRetired(c)
<1>1. Idle(r)
  BY RetiredIdle
<1>2. CASE is_ready(r.m_queue)
  BY <1>1, <1>2, QueueSendSound DEF on_data_sent
<1>3. CASE ~is_ready(r.m_queue)
  <2>1. on_data_sent(c) = r
    BY <1>3 DEF on_data_sent
  <2>2. /\ r.write.st = "none" /\ r.write.cut = "no" /\ r.write.data = <<>>
        /\ r.m_queue.active = <<>>
    BY <1>1, <1>3 DEF Idle, NoWrite, is_ready
  <2> QED
    BY <1>1, <2>1, <2>2 DEF Idle, Sound
<1> QED
  BY <1>2, <1>3
\* The next async_write_some of the same write, or, after the last one, the completion
\* handler.
LEMMA WriteOpSound ==
  ASSUME NEW c, Sound(c), Finished(c)
  PROVE  Sound(write_op(c))
<1>1. CASE HasRest(c)
  <2> DEFINE w == [c.write EXCEPT !.st = AttemptOn(c.sock)]
             e == write_op(c)
  <2>0. c \in Connections /\ c.write \in Writes
    BY DEF Sound, Connections
  <2>1. /\ w \in Writes /\ w.st \in {"pending", "error"} /\ w.data = c.write.data
        /\ w.src = c.write.src /\ w.cut = c.write.cut /\ w.done = c.write.done
    BY <2>0 DEF Writes, WriteStates, AttemptOn
  <2>2. e = [c EXCEPT !.write = w]
    BY <1>1 DEF write_op
  <2> HIDE DEF w, e
  <2>3. e \in Connections
    BY <2>0, <2>1, <2>2 DEF Connections
  <2>4. e.sock = c.sock /\ e.wire = c.wire /\ e.write = w /\ e.m_queue = c.m_queue
    BY <2>0, <2>2 DEF Connections
  <2>5. e.m_sending = c.m_sending
    BY <2>0, <2>2 DEF Connections
  <2>6. c.write.st = "ok" /\ c.write.done < Len(c.write.data)
    BY <1>1 DEF HasRest
  <2>7. Sound(e)
    BY <2>1, <2>3, <2>4, <2>5, <2>6 DEF Sound
  <2> QED
    BY <2>7 DEF e
<1>2. CASE ~HasRest(c)
  BY <1>2, DataSentSound DEF write_op
<1> QED
  BY <1>1, <1>2
-----------------------------------------------------------------------------
(* The network. *)

\* Neither success nor failure of async_connect touches what is being sent.
LEMMA ConnectOutcomeSound ==
  ASSUME NEW c, Sound(c), c.sock = "opening"
  PROVE  Sound(Established(c)) /\ Sound(ConnectFailed(c))
<1>0. c \in Connections /\ c.wire = <<>>
  BY DEF Sound
<1>1. ASSUME NEW to \in {"up", "broken"}
      PROVE  Sound([c EXCEPT !.sock = to])
  <2> DEFINE e == [c EXCEPT !.sock = to]
  <2>1. e \in Connections
    BY <1>0 DEF Connections, SockStates
  <2>2. e.wire = c.wire /\ e.write = c.write /\ e.m_queue = c.m_queue
    BY <1>0 DEF Connections
  <2>3. e.m_sending = c.m_sending
    BY <1>0 DEF Connections
  <2> QED
    BY <1>0, <2>1, <2>2, <2>3 DEF Sound
<1> QED
  BY <1>1 DEF Established, ConnectFailed

\* Losing the peer empties the pipe.
LEMMA PeerLostSound ==
  ASSUME NEW c, Sound(c)
  PROVE  Sound(PeerLost(c))
<1> DEFINE e == PeerLost(c)
<1>0. c \in Connections
  BY DEF Sound
<1>1. e \in Connections
  BY <1>0, EmptyIsSeq DEF PeerLost, Connections, SockStates
<1>2. e.wire = <<>> /\ e.write = c.write /\ e.m_queue = c.m_queue
  BY <1>0 DEF PeerLost, Connections
<1>3. e.m_sending = c.m_sending
  BY <1>0 DEF PeerLost, Connections
<1> QED
  BY <1>1, <1>2, <1>3 DEF Sound

\* A write that fails is still in flight until its handler runs.
LEMMA WriteFailedSound ==
  ASSUME NEW c, Sound(c), c.write.st = "pending"
  PROVE  Sound(WriteFailed(c))
<1> DEFINE w == [c.write EXCEPT !.st = "error"]
           e == WriteFailed(c)
<1>0. c \in Connections /\ c.write \in Writes
  BY DEF Sound, Connections
<1>1. /\ w \in Writes /\ w.st = "error" /\ w.data = c.write.data
      /\ w.src = c.write.src /\ w.cut = c.write.cut /\ w.done = c.write.done
  BY <1>0 DEF Writes, WriteStates
<1>2. e = [c EXCEPT !.write = w]
  BY DEF WriteFailed
<1> HIDE DEF w
<1>3. e \in Connections
  BY <1>0, <1>1, <1>2 DEF Connections
<1>4. e.sock = c.sock /\ e.wire = c.wire /\ e.write = w /\ e.m_queue = c.m_queue
  BY <1>0, <1>2 DEF Connections
<1>5. e.m_sending = c.m_sending
  BY <1>0, <1>2 DEF Connections
<1> QED
  BY <1>1, <1>3, <1>4, <1>5 DEF Sound

\* The beginning of a buffer is gone: its end is still to be written.
LEMMA PartTransferredSound ==
  ASSUME NEW c, Sound(c), Writable(c)
  PROVE  Sound(PartTransferred(c))
<1> DEFINE w == [c.write EXCEPT !.st = "ok", !.cut = "here"]
           e == PartTransferred(c)
<1>0. /\ c \in Connections /\ c.write \in Writes /\ c.write.st = "pending"
      /\ c.write.done \in Nat /\ c.write.data \in Seq(Data)
  BY DEF Sound, Connections, Writes, Writable
<1>1. /\ w \in Writes /\ w.st = "ok" /\ w.data = c.write.data
      /\ w.src = c.write.src /\ w.cut = "here" /\ w.done = c.write.done
  BY <1>0 DEF Writes, WriteStates, Cuts
<1>2. e = [c EXCEPT !.write = w]
  BY DEF PartTransferred
<1> HIDE DEF w, e
<1>3. e \in Connections
  BY <1>0, <1>1, <1>2 DEF Connections
<1>4. e.sock = c.sock /\ e.wire = c.wire /\ e.write = w /\ e.m_queue = c.m_queue
  BY <1>0, <1>2 DEF Connections
<1>5. e.m_sending = c.m_sending
  BY <1>0, <1>2 DEF Connections
<1>6. Sound(e)
  BY <1>0, <1>1, <1>3, <1>4, <1>5 DEF Sound
<1> QED
  BY <1>6 DEF e

\* The fields of a Connection after the kernel has taken one more buffer.
LEMMA TransferredFields ==
  ASSUME NEW c, Sound(c), Writable(c)
  PROVE  LET t    == Transferred(c)
             n    == c.write.done + 1
             torn == c.write.cut = "lost"
         IN  /\ n \in 1 .. Len(c.write.data)
             /\ t \in Connections
             /\ t.sock = c.sock
             /\ t.wire = IF c.sock = "up" /\ ~torn /\ ~c.garbled
                         THEN Append(c.wire, c.write.data[n]) ELSE c.wire
             /\ t.garbled <=> c.garbled \/ (c.sock = "up" /\ torn)
             /\ t.m_sending = c.m_sending
             /\ t.m_queue = c.m_queue
             /\ t.write.st = "ok"
             /\ t.write.cut = "no"
             /\ t.write.data = c.write.data
             /\ t.write.done = n
             /\ t.write.src = c.write.src
<1> DEFINE t    == Transferred(c)
           n    == c.write.done + 1
           torn == c.write.cut = "lost"
           w    == [c.write EXCEPT !.done = n, !.cut = "no", !.st = "ok"]
           g    == c.garbled \/ (c.sock = "up" /\ torn)
           wr   == IF c.sock = "up" /\ ~torn /\ ~c.garbled
                   THEN Append(c.wire, c.write.data[n]) ELSE c.wire
<1>0. c \in Connections /\ c.write \in Writes /\ c.wire \in Seq(Data) /\ c.write.st = "pending"
  BY DEF Sound, Connections, Writable
<1>1. c.write.data \in Seq(Data) /\ c.write.done \in Nat /\ c.write.done < Len(c.write.data)
  BY <1>0 DEF Writes, Sound
<1>2. n \in 1 .. Len(c.write.data)
  BY <1>1
<1>3. c.write.data[n] \in Data
  BY <1>1, <1>2
<1>4. wr \in Seq(Data)
  BY <1>0, <1>3
<1>5. /\ w \in Writes
      /\ w.st = "ok"
      /\ w.cut = "no"
      /\ w.data = c.write.data
      /\ w.done = n
      /\ w.src = c.write.src
  <2>1. n \in Nat
    BY <1>1
  <2> HIDE DEF n
  <2> QED
    BY <1>0, <2>1 DEF Writes, WriteStates, Cuts
<1>6. t = [c EXCEPT !.write = w, !.garbled = g, !.wire = wr]
  BY DEF Transferred
<1>7. g \in BOOLEAN
  OBVIOUS
<1> HIDE DEF w, wr, t, g
<1>8. t \in Connections
  BY <1>0, <1>4, <1>5, <1>6, <1>7 DEF Connections
<1>9. t.sock = c.sock /\ t.wire = wr /\ t.write = w /\ t.m_queue = c.m_queue
  BY <1>0, <1>6 DEF Connections
<1>10. t.m_sending = c.m_sending /\ t.garbled = g
  BY <1>0, <1>6 DEF Connections
<1>11. t.garbled <=> c.garbled \/ (c.sock = "up" /\ torn)
  BY <1>10 DEF g
<1> QED
  BY <1>2, <1>5, <1>8, <1>9, <1>10, <1>11 DEF t, wr

\* The kernel takes buffers without overtaking the end of the write.
LEMMA TransferredSound ==
  ASSUME NEW c, Sound(c), Writable(c)
  PROVE  Sound(Transferred(c))
<1> DEFINE t == Transferred(c)
           n == c.write.done + 1
<1>1. c.write.data \in Seq(Data) /\ c.write.st = "pending"
  BY DEF Sound, Connections, Writes, Writable
<1>2. t.write.st # "none" /\ t.wire # <<>> => t.sock = "up"
  BY TransferredFields DEF Sound
<1>3. t.write.st = "ok" /\ t.write.done <= Len(t.write.data) /\ t.write.cut = "no"
  BY <1>1, TransferredFields
<1>4. t.m_sending <=> t.write.st # "none"
  BY <1>1, TransferredFields DEF Sound
<1>5. t.write.st # "none" /\ t.write.src = "queue" => t.m_queue.inactive = t.write.data
  BY <1>1, TransferredFields DEF Sound
<1>6. t \in Connections /\ t.write.st # "none"
  BY TransferredFields
<1> QED
  BY <1>2, <1>3, <1>4, <1>5, <1>6 DEF Sound

\* The server takes a message off the pipe.
LEMMA ConsumedSound ==
  ASSUME NEW c, Sound(c), NEW i \in DOMAIN c.wire
  PROVE  Sound(Consumed(c, i))
<1> DEFINE rest == RemoveAt(c.wire, i)
           e == Consumed(c, i)
<1>0. c \in Connections /\ c.wire \in Seq(Data)
  BY DEF Sound, Connections
<1>1. rest \in Seq(Data)
  <2>1. i \in 1 .. Len(c.wire)
    BY <1>0
  <2>2. SubSeq(c.wire, 1, i - 1) \in Seq(Data) /\ SubSeq(c.wire, i + 1, Len(c.wire)) \in Seq(Data)
    BY <1>0, <2>1
  <2> QED
    BY <2>2 DEF RemoveAt
<1>2. c.sock = "up"
  BY <1>0 DEF Sound
<1>3. e = [c EXCEPT !.wire = rest]
  BY DEF Consumed
<1> HIDE DEF rest, e
<1>4. e \in Connections
  BY <1>0, <1>1, <1>3 DEF Connections
<1>5. e.sock = c.sock /\ e.write = c.write /\ e.m_queue = c.m_queue
  BY <1>0, <1>3 DEF Connections
<1>6. e.m_sending = c.m_sending
  BY <1>0, <1>3 DEF Connections
<1>7. Sound(e)
  BY <1>2, <1>4, <1>5, <1>6 DEF Sound
<1> QED
  BY <1>7 DEF e
-----------------------------------------------------------------------------
(* The specification. *)

\* The constructed Connection is sound.
LEMMA NewSound == Sound(NewConnection)
<1>1. EmptyQueue \in QueueOf(Data)
  BY EmptyIsSeq DEF EmptyQueue, QueueOf
<1>2. NewConnection \in Connections
  BY <1>1, EmptyIsSeq, NoWriteType DEF NewConnection, Connections, SockStates
<1> QED
  BY <1>2 DEF Sound, NewConnection, NoWrite, EmptyQueue

\* Under any client and any network the Connection stays sound.
THEOREM SendPathSound == SendSpec => []Sound(conn)
<1>1. SendInit => Sound(conn)
  BY NewSound DEF SendInit
<1>2. Sound(conn) /\ [SendNext]_conn => Sound(conn)'
  <2> SUFFICES ASSUME Sound(conn), [SendNext]_conn
               PROVE  Sound(conn')
    BY DEF Sound
  <2>1. ASSUME NEW d \in Data, SendData(d) PROVE Sound(conn')
    BY <2>1, SendSound DEF SendData
  <2>2. CASE OnWritten
    BY <2>2, WriteOpSound DEF OnWritten
  <2>3. CASE Stop
    BY <2>3, StopSound DEF Stop
  <2>4. CASE OpenSocket
    BY <2>4, OpenSound DEF OpenSocket
  <2>5. CASE Establish
    BY <2>5, ConnectOutcomeSound DEF Establish
  <2>6. CASE FailConnect
    BY <2>6, ConnectOutcomeSound DEF FailConnect
  <2>7. CASE LosePeer
    BY <2>7, PeerLostSound DEF LosePeer
  <2>8. CASE Transfer
    BY <2>8, TransferredSound, PartTransferredSound DEF Transfer
  <2>9. CASE FailWrite
    BY <2>9, WriteFailedSound DEF FailWrite, Writable
  <2>10. CASE Consume
    BY <2>10, ConsumedSound DEF Consume
  <2>11. CASE UNCHANGED conn
    BY <2>11
  <2> QED
    BY <2>1, <2>2, <2>3, <2>4, <2>5, <2>6, <2>7, <2>8, <2>9, <2>10, <2>11 DEF SendNext
<1> QED
  BY <1>1, <1>2, PTL DEF SendSpec

\* The flag m_sending tells the truth about the write in flight.
THEOREM SendingIsTrue == SendSpec => []SendingIffWrite
<1>1. Sound(conn) => SendingIffWrite
  BY DEF Sound, SendingIffWrite, InFlight
<1> QED
  BY <1>1, SendPathSound, PTL

\* No queued data without a write whose completion will pick it up.
THEOREM QueueIsServed == SendSpec => []QueueHasSender
<1>1. Sound(conn) => QueueHasSender
  BY DEF Sound, QueueHasSender, InFlight, is_ready
<1> QED
  BY <1>1, SendPathSound, PTL

\* The vector of a queue write does not change until its handler runs.
THEOREM BatchIsStable == SendSpec => []BatchStable
<1>1. Sound(conn) => BatchStable
  BY DEF Sound, BatchStable, InFlight
<1> QED
  BY <1>1, SendPathSound, PTL

\* A write that waits for the socket has something left to write, and so has one of which
\* a buffer was taken in part.
THEOREM WritesAccounted == SendSpec => []WriteAccounted
<1>1. Sound(conn) => WriteAccounted
  BY DEF Sound, WriteAccounted
<1> QED
  BY <1>1, SendPathSound, PTL
=============================================================================
