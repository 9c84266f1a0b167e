---------------------------- MODULE Connection -----------------------------
(***************************************************************************)
(* detail::Connection as a whole: the send path plus the read side, that   *)
(* is the connect() coroutine and receive_message().  At most one of these *)
(* is in progress at a time; io is the asynchronous operation it is        *)
(* suspended in.                                                           *)
(*                                                                         *)
(*   io.op   "none", "spawned" (the receive loop is queued on the strand), *)
(*           "resolve", "connect", "hello" (the suspension points of       *)
(*           connect()) or "read" (receive_message)                        *)
(*   io.st   "pending", or how it finished: its completion handler is      *)
(*           queued on the strand                                          *)
(*   io.msg  the sync of the frame that was read                           *)
(*   addrs   how many resolved addresses connect() has not tried           *)
(*   inbox   frames the peer has sent on the current socket, read into     *)
(*           m_stream's buffer or still in the kernel's, that              *)
(*           receive_message has not delivered                             *)
(*                                                                         *)
(* The continuations that the coroutine returns to are in Connector.tla.   *)
(* Hosts, endpoints, the salt and the framing of messages are left out.    *)
(***************************************************************************)
EXTENDS SendPath

CONSTANTS MaxAddrs,  \* bound: addresses a host name resolves to
          Frames     \* what receive_message may deliver

ASSUME MaxAddrsAssumption == MaxAddrs \in Nat \ {0}

NoFrame == "no frame"

VARIABLES io, addrs, inbox

IoOps    == {"none", "spawned", "resolve", "connect", "hello", "read"}
IoStates == {"pending", "ok", "error"}

Ios == [op : IoOps, st : IoStates, msg : Frames \cup {NoFrame}]

Pending(op) == [op |-> op, st |-> "pending", msg |-> NoFrame]

NoIo == Pending("none")

Done(op) == io.op = op /\ io.st # "pending"

\* What close() does to the operation on the socket: it is cancelled unless it has
\* already finished, in which case its handler runs as if nothing had happened.
Cancelled(o) ==
    IF o.op \in {"connect", "hello", "read"} /\ o.st = "pending"
    THEN [o EXCEPT !.st = "error"]
    ELSE o

\* receive_message.  NetReceive and NetReadError finish it: what m_stream has buffered
\* is delivered even after the socket was closed.
receive_message == Pending("read")

\* connect() up to its first suspension.  The assertion at its top is the property
\* SocketClosedOnConnect.
connect == Pending("resolve")

\* Mutant: one address too many is tried.
TryNextAddress_past_end ==
    /\ addrs' = addrs - 1
    /\ conn' = open_socket(conn)
    /\ inbox' = <<>>
    /\ io' = Pending("connect")

\* The head of the address loop: clear the buffer, drop the old socket and try the next
\* address.
TryNextAddress ==
    /\ addrs > 0
    /\ addrs' = addrs - 1
    /\ conn' = open_socket(conn)
    /\ inbox' = <<>>
    /\ io' = Pending("connect")

\* socket.set_option and, when the Info message is formatted, remote_endpoint() throw
\* on a socket that somebody has closed, or that the peer has reset, after
\* async_connect had succeeded and before its handler ran.
ConnectedSocketUsable(logInfo) ==
    /\ conn.sock # "closed"
    /\ logInfo => conn.sock # "broken"

\* Between async_connect and the hello message.
AwaitHello ==
    /\ io' = Pending("hello")
    /\ UNCHANGED <<conn, addrs, inbox>>
-----------------------------------------------------------------------------
(* The resolver, the network and the server's side of the connection. *)

NetResolve ==
    /\ io = Pending("resolve")
    /\ \/ /\ io' = [io EXCEPT !.st = "ok"]
          /\ addrs' \in 1 .. MaxAddrs
       \/ /\ io' = [io EXCEPT !.st = "error"]
          /\ UNCHANGED addrs
    /\ UNCHANGED <<conn, inbox>>

NetConnect ==
    /\ io = Pending("connect")
    /\ conn.sock = "opening"
    /\ \/ conn' = Established(conn)   /\ io' = [io EXCEPT !.st = "ok"]
       \/ conn' = ConnectFailed(conn) /\ io' = [io EXCEPT !.st = "error"]
    /\ UNCHANGED <<addrs, inbox>>

\* The 128 bytes of a hello, or a read error, or bytes that are not a hello.
NetHello ==
    /\ io = Pending("hello")
    /\ \/ conn.sock = "up" /\ io' = [io EXCEPT !.st = "ok"]
       \/ io' = [io EXCEPT !.st = "error"]
    /\ UNCHANGED <<conn, addrs, inbox>>

\* The peer closes an established connection, and what it sent before can still be
\* read, or resets it.
NetBreak ==
    /\ conn.sock = "up"
    /\ conn' = PeerLost(conn)
    /\ inbox' \in {inbox, <<>>}
    /\ UNCHANGED <<io, addrs>>

NetReceive ==
    /\ io = Pending("read")
    /\ inbox # <<>>
    /\ io' = [io EXCEPT !.st = "ok", !.msg = Head(inbox)]
    /\ inbox' = Tail(inbox)
    /\ UNCHANGED <<conn, addrs>>

\* A read error (on a closed socket, unless the frame was buffered before), or a frame
\* that does not decode.
NetReadError ==
    /\ io = Pending("read")
    /\ io' = [io EXCEPT !.st = "error"]
    /\ UNCHANGED <<conn, addrs, inbox>>

NetTransfer ==
    /\ Writable(conn)
    /\ \/ Divisible(conn) /\ conn' = PartTransferred(conn)
       \/ conn' = Transferred(conn)
    /\ UNCHANGED <<io, addrs, inbox>>

NetWriteFail ==
    /\ Writable(conn)
    /\ conn.sock = "broken"
    /\ conn' = WriteFailed(conn)
    /\ UNCHANGED <<io, addrs, inbox>>
=============================================================================
