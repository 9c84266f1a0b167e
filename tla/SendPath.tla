----------------------------- MODULE SendPath ------------------------------
(***************************************************************************)
(* The sending half of detail::Connection (connection.h): m_sending,       *)
(* m_queue, the asynchronous write in flight and the socket they share.    *)
(*                                                                         *)
(* The object is the record conn; its methods are functions from records   *)
(* to records, so that Connector.tla can compose the several calls that    *)
(* one handler makes into one step.  SendSpec runs it under the most       *)
(* general client: anyone may send, close or reopen the socket at any time.*)
(*                                                                         *)
(*   sock    closed / opening (async_connect pending) / up / broken.       *)
(*           socket::is_open() is sock # "closed"; after a failed          *)
(*           async_connect, or once the peer is gone, it is "broken" but   *)
(*           still open.                                                   *)
(*   write   the async_write in flight.  It is a composed operation, one   *)
(*           async_write_some after another: "pending" while one of them   *)
(*           waits for the socket; "ok" and "error" when it has finished   *)
(*           and its handler is queued on the strand.  data are the        *)
(*           buffers that async_write was given, done how many the kernel  *)
(*           has taken, cut where the beginning of the next one is, if it  *)
(*           was taken without its end: "here", on the current socket, or  *)
(*           "lost", on one closed since.  src tells whether the buffers   *)
(*           come from one request or from m_queue.inactive.               *)
(*   wire    the messages the kernel has taken on the current socket and   *)
(*           the server has not yet consumed.                              *)
(*   garbled the current socket has been given the end of a message whose  *)
(*           beginning went to another: to the server nothing that follows *)
(*           on it is a message.                                           *)
(* A buffer (detail::Data) is represented by the request it belongs to.    *)
(***************************************************************************)
EXTENDS DBQueue, Naturals, SequencesExt

CONSTANTS Data,        \* the buffers clients may send
          LargeData,   \* whether the kernel may take a part of a buffer
          MaxPending   \* bound: buffers waiting in the queue, or on the wire

ASSUME MaxPendingAssumption == MaxPending \in Nat \ {0}

ASSUME LargeDataAssumption == LargeData \in BOOLEAN

VARIABLE conn

SockStates  == {"closed", "opening", "up", "broken"}
WriteStates == {"none", "pending", "ok", "error"}

Cuts        == {"no", "here", "lost"}

Writes == [st : WriteStates, data : Seq(Data), done : Nat, cut : Cuts,
           src : {"single", "queue"}]

Connections == [sock : SockStates, m_sending : BOOLEAN, m_queue : QueueOf(Data),
                write : Writes, wire : Seq(Data), garbled : BOOLEAN]

NoWrite == [st |-> "none", data |-> <<>>, done |-> 0, cut |-> "no", src |-> "single"]

\* The constructed object: an unopened socket, nothing to send.
NewConnection == [sock |-> "closed", m_sending |-> FALSE, m_queue |-> EmptyQueue,
                  write |-> NoWrite, wire |-> <<>>, garbled |-> FALSE]

InFlight(c) == c.write.st # "none"

\* The handler of an async_write_some is queued on the strand.
Finished(c) == c.write.st \in {"ok", "error"}
-----------------------------------------------------------------------------
(* Connection's methods. *)

\* close() cancels an async_write_some that is pending: its handler gets
\* operation_aborted.  One that has finished is not cancelled, and neither is the
\* async_write it is a part of: the rest of that is still to come.
Aborted(w) == [w EXCEPT !.st = IF @ = "pending" THEN "error" ELSE @,
                        !.cut = IF @ = "here" THEN "lost" ELSE @]

\* Mutant: stop() also clears the queue, and with it the vector that is being written.
stop_clears_queue(c) ==
    [c EXCEPT !.sock = "closed", !.wire = <<>>, !.garbled = FALSE, !.write = Aborted(@),
              !.m_queue = clear(@)]

\* Connection::stop, and every other socket.close() of the class.
stop(c) ==
    [c EXCEPT !.sock = "closed", !.wire = <<>>, !.garbled = FALSE, !.write = Aborted(@)]

\* async_write_some: on a closed descriptor it fails at once, but its handler is still
\* only queued.
AttemptOn(sock) == IF sock = "closed" THEN "error" ELSE "pending"

\* boost::asio::async_write starts with its first async_write_some.
AsyncWrite(c, data, src) ==
    [c EXCEPT !.write = [st |-> AttemptOn(c.sock), data |-> data, done |-> 0,
                         cut |-> "no", src |-> src]]

init_single_send(c, d) == AsyncWrite([c EXCEPT !.m_sending = TRUE], <<d>>, "single")

init_queue_send(c) ==
    LET q == swap(c.m_queue)
    IN  AsyncWrite([c EXCEPT !.m_sending = TRUE, !.m_queue = q], q.inactive, "queue")

\* Mutant: the m_sending test is dropped, so writes overlap.
send_data_overlapping(c, d) == init_single_send(c, d)

send_data(c, d) ==
    IF c.m_sending THEN [c EXCEPT !.m_queue = push(@, d)]
                   ELSE init_single_send(c, d)

\* What on_data_sent does before it looks at the queue.
WriteRetired(c) ==
    LET idle == [c EXCEPT !.m_sending = FALSE, !.write = NoWrite]
    IN  IF c.write.st = "error"
        THEN [stop(idle) EXCEPT !.m_queue = clear(@)]
        ELSE idle

\* Mutant: the queue is cleared whether the write failed or not.
on_data_sent_always_clears(c) ==
    LET rest == WriteRetired(c) IN [rest EXCEPT !.m_queue = clear(@)]

\* Mutant: m_sending is reset after the follow-up write has been started.
on_data_sent_late_reset(c) ==
    LET rest == WriteRetired(c)
    IN  IF is_ready(rest.m_queue) THEN [init_queue_send(rest) EXCEPT !.m_sending = FALSE]
                                  ELSE rest

\* Mutant: the queue is not looked at when a write completes.
on_data_sent_forgets_queue(c) == WriteRetired(c)

\* Mutant: the is_ready() test is dropped, so empty batches are written.
on_data_sent_always_sends(c) == init_queue_send(WriteRetired(c))

on_data_sent(c) ==
    LET rest == WriteRetired(c)
    IN  IF is_ready(rest.m_queue) THEN init_queue_send(rest) ELSE rest

\* Buffers, or the rest of one, that the async_write in flight has yet to write.
HasRest(c) == c.write.st = "ok" /\ c.write.done < Len(c.write.data)

\* The handler of an async_write_some: async_write goes on with the next one, on whatever
\* socket there is by now, until everything is written or one has failed; then it calls
\* on_data_sent.
write_op(c) ==
    IF HasRest(c) THEN [c EXCEPT !.write = [@ EXCEPT !.st = AttemptOn(c.sock)]]
                  ELSE on_data_sent(c)

\* One turn of connect()'s address loop up to the suspension in async_connect.
open_socket(c) == [stop(c) EXCEPT !.sock = "opening"]
-----------------------------------------------------------------------------
(* The kernel, the network and the server, as the code above sees them. *)

Established(c)   == [c EXCEPT !.sock = "up"]
ConnectFailed(c) == [c EXCEPT !.sock = "broken"]
PeerLost(c)      == [c EXCEPT !.sock = "broken", !.wire = <<>>]

Writable(c) == c.write.st = "pending" /\ c.sock \in {"up", "broken"}

\* The kernel may take the beginning of the next buffer only: async_write_some offers it
\* at most 64 KB, and it takes what it has room for.
Divisible(c) == LargeData /\ c.write.cut = "no"

PartTransferred(c) == [c EXCEPT !.write = [@ EXCEPT !.st = "ok", !.cut = "here"]]

\* The kernel takes the next buffer, or what is left of it.  (To take several at once is
\* to take one after another.)  A broken socket may still take it, to lose it.
Transferred(c) ==
    LET n    == c.write.done + 1
        torn == c.write.cut = "lost"
        w    == [c.write EXCEPT !.done = n, !.cut = "no", !.st = "ok"]
        live == c.sock = "up"
    IN  [c EXCEPT !.write   = w,
                  !.garbled = @ \/ (live /\ torn),
                  !.wire    = IF live /\ ~torn /\ ~c.garbled
                              THEN Append(@, c.write.data[n]) ELSE @]

WriteFailed(c) == [c EXCEPT !.write = [@ EXCEPT !.st = "error"]]

\* The server takes a message; it serves them in any order.
Consumed(c, i) == [c EXCEPT !.wire = RemoveAt(@, i)]
-----------------------------------------------------------------------------
(* The most general client. *)

SendInit == conn = NewConnection

SendData(d) ==
    /\ Len(conn.m_queue.active) < MaxPending
    /\ conn' = send_data(conn, d)

OnWritten == Finished(conn) /\ conn' = write_op(conn)

Stop == conn' = stop(conn)

OpenSocket == conn' = open_socket(conn)

Establish == conn.sock = "opening" /\ conn' = Established(conn)

FailConnect == conn.sock = "opening" /\ conn' = ConnectFailed(conn)

LosePeer == conn.sock = "up" /\ conn' = PeerLost(conn)

Transfer ==
    /\ Writable(conn)
    /\ \/ Divisible(conn) /\ conn' = PartTransferred(conn)
       \/ Len(conn.wire) < MaxPending /\ conn' = Transferred(conn)

FailWrite ==
    /\ Writable(conn)
    /\ conn.sock = "broken"
    /\ conn' = WriteFailed(conn)

Consume == \E i \in DOMAIN conn.wire : conn' = Consumed(conn, i)

SendNext ==
    \/ \E d \in Data : SendData(d)
    \/ OnWritten \/ Stop \/ OpenSocket
    \/ Establish \/ FailConnect \/ LosePeer
    \/ Transfer \/ FailWrite \/ Consume

SendSpec == SendInit /\ [][SendNext]_conn
-----------------------------------------------------------------------------
(* Properties. *)

\* m_sending tells the truth: it is set exactly while a write is in flight, from
\* init_*_send to the run of on_data_sent, closes and reopens included.  If it were
\* clear too early two async_writes would interleave their bytes; if it stayed set,
\* nothing would ever be sent again.
SendingIffWrite == conn.m_sending <=> InFlight(conn)

\* No data is stranded: whatever sits in the queue has a write in flight whose
\* completion will look at the queue.
QueueHasSender == is_ready(conn.m_queue) => InFlight(conn)

\* The vector handed to a queue write "MUST live long enough" (connection.h:198):
\* until its handler runs, nothing clears, swaps or refills it.
BatchStable ==
    InFlight(conn) /\ conn.write.src = "queue" => conn.m_queue.inactive = conn.write.data

\* A write that waits for the socket has something left to write, and so has one of which
\* a buffer was taken in part: none is reported as done with a message half sent.
WriteAccounted ==
    conn.write.st = "pending" \/ conn.write.cut # "no" =>
        conn.write.done < Len(conn.write.data)

\* What is accepted and still has a chance to be sent, in order.
Unsent(c) ==
    IF c.write.st = "error" THEN <<>>
    ELSE SubSeq(c.write.data, c.write.done + 1, Len(c.write.data)) \o c.m_queue.active

\* The next thing on this socket is no message, or nothing.
Torn(c) ==
    \/ c.sock \in {"closed", "broken"}
    \/ c.write.st = "error"
    \/ c.write.cut = "lost"
    \/ c.garbled

Link == INSTANCE FifoLink WITH Msg <- Data, pending <- Unsent(conn),
                               carried <- conn.wire, torn <- Torn(conn)

\* The send path implements the link: first in first out, no duplicates, and no message
\* follows a gap on the same socket, whatever closes and reopens it and whenever the
\* handlers of a write run, between two parts of it too.  A socket that is given the end
\* of a message without its beginning is torn, and no message follows that on it.
ImplementsLink == Link!LinkSpec
=============================================================================
