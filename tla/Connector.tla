----------------------------- MODULE Connector -----------------------------
(***************************************************************************)
(* tntpp::Connector and its receive loop (tarantool_connector.hpp) over a  *)
(* Connection.  Everything that touches m_state runs on one strand; each   *)
(* of its handlers is one action here.  Users on other threads only post   *)
(* to the strand (Call) or release the Connector (DropConnector).          *)
(*                                                                         *)
(*   m_s         Internal::m_s                                             *)
(*   m_requests  the keys of Internal::m_requests.  The completion handler *)
(*               of an entry is empty, and throws when called, exactly     *)
(*               when its request has an outcome already: it is moved      *)
(*               from when it is invoked.                                  *)
(*   outcome     what each request's completion handler was called with;   *)
(*               "idle" before the call, "issued" while it is owed         *)
(*   posted      lambdas queued on the strand, in order: a request, or the *)
(*               destructor's StopLambda                                   *)
(*   owner       who holds the Connector: nobody yet, the coroutine of     *)
(*               Connector::connect, the user, or nobody any more          *)
(*   loop        the receive loop: "dead" if an exception left it, and     *)
(*               "escaped" if one left connect() below it and took the     *)
(*               suspended loop with it                                    *)
(*   session     who the server thinks is on the current socket; "refused" *)
(*               if it is a guest whose credentials it did not accept      *)
(*                                                                         *)
(* AuthId is the auth request of Connector::connect.  ReauthId stands for  *)
(* those the loop makes after reconnecting: they are refused on the spot,  *)
(* so one identifier is enough for all of them.  generate_id() gives every *)
(* other request a fresh identifier, here a member of Reqs.                *)
(***************************************************************************)
EXTENDS Connection

CONSTANTS Reqs,           \* the requests users make
          Creds,          \* whether the Config holds credentials
          LogInfo,        \* whether the logger formats messages of level Info
          HandlersThrow   \* whether users' completion handlers may throw

ASSUME SwitchAssumption ==
    Creds \in BOOLEAN /\ LogInfo \in BOOLEAN /\ HandlersThrow \in BOOLEAN

AuthId     == "auth"
ReauthId   == "reauth"
StopLambda == "stop"

\* Frames that carry no request's sync, and error responses to AuthId.  The code of the
\* second is 0 or not in the client's table: it becomes an error_code of value 0, which
\* async_auth completes with and which everybody takes for success.
EventFrame    == "event"
AuthRefused   == "auth refused"
AuthUncharted == "auth refused, code unknown"

Ids       == Reqs \cup {AuthId, ReauthId}
AllFrames == Ids \cup {EventFrame, AuthRefused, AuthUncharted}

\* generate_id() gives requests identifiers of their own.
ASSUME ReqsAssumption ==
    Reqs \cap {AuthId, ReauthId, StopLambda, EventFrame, AuthRefused, AuthUncharted,
                  NoFrame} = {}

\* The buffers and frames of the Connection are those of the requests.
ASSUME DataAssumption == Data = Ids /\ Frames = AllFrames

VARIABLES m_s, m_requests, outcome, posted, owner, loop, session

connectorVars == <<m_s, m_requests, outcome, posted, owner, loop, session>>
vars == <<conn, io, addrs, inbox, m_s, m_requests, outcome, posted, owner, loop, session>>

States   == {"Connecting", "Connected", "Stopped"}
Failures == {"not_connected", "broken_pipe", "canceled", "refused"}
Outcomes == {"idle", "issued", "ok"} \cup Failures
Owners   == {"unborn", "connect", "user", "gone"}
Loops    == {"absent", "running", "finished", "dead", "escaped"}

\* Requests whose completion handler has yet to be called.
Owed(out) == {r \in Ids : out[r] = "issued"}

Complete(out, rs, how) == [r \in Ids |-> IF r \in rs THEN how ELSE out[r]]

Init ==
    /\ conn = NewConnection
    /\ io = connect
    /\ addrs = 0
    /\ inbox = <<>>
    /\ m_s = "Connected"
    /\ m_requests = {}
    /\ outcome = [r \in Ids |-> "idle"]
    /\ posted = <<>>
    /\ owner = "unborn"
    /\ loop = "absent"
    /\ session = "guest"
-----------------------------------------------------------------------------
(* Internal::reset and the head of the receive loop. *)

StateAfterReset(ms) == IF ms = "Connected" THEN "Connecting" ELSE ms

ResetError(ms) == IF ms = "Stopped" THEN "canceled" ELSE "broken_pipe"

\* Completing the auth request with an error ends Connector::connect, which holds the
\* only reference: the Connector is destroyed on the spot, on the strand.
AuthFailed(rs) == AuthId \in rs

\* No handler throws: all are called, the socket is closed and the loop goes on, to
\* reconnect or, once stopped, to end (with a second, empty, reset).
CleanReset(c, ms, reqs, out) ==
    LET called == reqs \cap Owed(out)
        ended  == ms = "Stopped" \/ AuthFailed(called)
    IN  /\ reqs \subseteq Owed(out)
        /\ m_s' = IF AuthFailed(called) THEN "Stopped" ELSE StateAfterReset(ms)
        /\ owner' = IF AuthFailed(called) THEN "gone" ELSE owner
        /\ outcome' = Complete(out, called, ResetError(ms))
        /\ m_requests' = {}
        /\ conn' = stop(c)
        /\ io' = IF ended THEN NoIo ELSE connect
        /\ loop' = IF ended THEN "finished" ELSE loop

\* The handler of t is empty, or throws; those of called were visited before it.  The
\* exception is caught as "totally unexpected", and the reset() in that catch clause
\* meets the handlers just emptied and throws again: the loop is gone, the socket is
\* left as it is, and the entries not visited keep handlers nobody will call.
FaultyReset(c, ms, reqs, out) ==
    \E t \in reqs : \E visited \in SUBSET ((reqs \cap Owed(out)) \ {t}) :
        LET called == visited \cup ({t} \cap Owed(out))
        IN  /\ t \notin Owed(out) \/ HandlersThrow
            /\ m_s' = IF AuthFailed(called) THEN "Stopped" ELSE StateAfterReset(ms)
            /\ owner' = IF AuthFailed(called) THEN "gone" ELSE owner
            /\ outcome' = Complete(out, called, ResetError(ms))
            /\ m_requests' = reqs
            /\ conn' = IF AuthFailed(called) THEN stop(c) ELSE c
            /\ io' = NoIo
            /\ loop' = "dead"

\* Mutant: reset() forgets that the connection is lost.
reset_stays_connected(c, ms, reqs, out) ==
    /\ m_requests' = {}
    /\ outcome' = Complete(out, reqs \cap Owed(out), ResetError(ms))
    /\ conn' = stop(c)
    /\ m_s' = ms
    /\ io' = connect
    /\ UNCHANGED <<loop, owner>>

\* Mutant: reset() drops the entries without calling their handlers.
reset_without_calls(c, ms, reqs, out) ==
    /\ m_requests' = {}
    /\ outcome' = out
    /\ conn' = stop(c)
    /\ m_s' = StateAfterReset(ms)
    /\ io' = IF ms = "Stopped" THEN NoIo ELSE connect
    /\ loop' = IF ms = "Stopped" THEN "finished" ELSE loop
    /\ UNCHANGED owner

reset(c, ms, reqs, out) == CleanReset(c, ms, reqs, out) \/ FaultyReset(c, ms, reqs, out)

\* Mutant: the loop does not reconnect.
Continue_gives_up(c, ms, reqs, out) ==
    \/ /\ ms = "Stopped"
       /\ reset(c, ms, reqs, out)
    \/ /\ ms # "Stopped"
       /\ io' = IF ms = "Connected" THEN receive_message ELSE NoIo
       /\ conn' = c
       /\ m_s' = ms
       /\ m_requests' = reqs
       /\ outcome' = out
       /\ UNCHANGED <<loop, owner>>

\* The loop goes round again, in the state its arguments describe.
Continue(c, ms, reqs, out) ==
    \/ /\ ms = "Stopped"
       /\ reset(c, ms, reqs, out)
    \/ /\ ms # "Stopped"
       /\ io' = IF ms = "Connected" THEN receive_message ELSE connect
       /\ conn' = c
       /\ m_s' = ms
       /\ m_requests' = reqs
       /\ outcome' = out
       /\ UNCHANGED <<loop, owner>>
-----------------------------------------------------------------------------
(* Connection::connect, resumed on behalf of Connector::connect (the loop is absent) *)
(* or of the receive loop.                                                            *)

\* connect() completes with an error.
ConnectError ==
    /\ \/ /\ loop = "absent"
          /\ owner' = "gone"
          /\ io' = NoIo
          /\ conn' = stop(conn)
          /\ UNCHANGED <<m_s, m_requests, outcome, loop>>
       \/ /\ loop = "running"
          /\ Continue(conn, m_s, m_requests, outcome)
    /\ UNCHANGED <<addrs, inbox, posted, session>>

\* The address loop: the next address, if there is one.
NextAddressOrError ==
    \/ /\ TryNextAddress
       /\ session' = "guest"
       /\ UNCHANGED <<m_s, m_requests, outcome, posted, owner, loop>>
    \/ /\ addrs = 0
       /\ ConnectError

\* An exception leaves connect(), whose caller is destroyed with it.
ConnectThrows ==
    /\ io' = NoIo
    /\ IF loop = "absent" THEN /\ owner' = "gone"
                               /\ conn' = stop(conn)
                               /\ UNCHANGED loop
                          ELSE /\ loop' = "escaped"
                               /\ UNCHANGED <<owner, conn>>
    /\ UNCHANGED <<addrs, inbox, m_s, m_requests, outcome, posted, session>>

OnResolved ==
    /\ Done("resolve")
    /\ IF io.st = "ok" THEN NextAddressOrError ELSE ConnectError

OnConnected ==
    /\ Done("connect")
    /\ \/ io.st = "error" /\ NextAddressOrError
       \/ /\ io.st = "ok"
          /\ ConnectedSocketUsable(LogInfo)
          /\ AwaitHello
          /\ UNCHANGED connectorVars
       \/ /\ io.st = "ok"
          /\ ~ConnectedSocketUsable(LogInfo)
          /\ ConnectThrows

\* Connector::connect goes on: the Connector is made, the loop spawned and, with
\* credentials, the auth request dispatched to the strand.
ConnectorCreated ==
    /\ loop' = "running"
    /\ io' = Pending("spawned")
    /\ IF Creds THEN /\ owner' = "connect"
                     /\ outcome' = [outcome EXCEPT ![AuthId] = "issued"]
                     /\ posted' = Append(posted, AuthId)
                ELSE /\ owner' = "user"
                     /\ UNCHANGED <<outcome, posted>>
    /\ UNCHANGED <<conn, addrs, inbox, m_s, m_requests, session>>

\* The loop has reconnected, but the Connector is gone: break, without a reset.
LoopEndsUnlocked ==
    /\ owner = "gone"
    /\ loop' = "finished"
    /\ io' = NoIo
    /\ UNCHANGED <<conn, addrs, inbox, m_s, m_requests, outcome, posted, owner, session>>

\* Mutant: the loop does not look whether the Connector still exists.
LoopReconnected_no_lock ==
    /\ ~Creds
    /\ m_s' = "Connected"
    /\ io' = receive_message
    /\ UNCHANGED <<conn, addrs, inbox, m_requests, outcome, posted, owner, loop, session>>

\* Mutant: the loop does not authenticate again.
LoopReconnected_no_auth ==
    /\ owner # "gone"
    /\ m_s' = "Connected"
    /\ io' = receive_message
    /\ UNCHANGED <<conn, addrs, inbox, m_requests, outcome, posted, owner, loop, session>>

LoopReconnected ==
    /\ owner # "gone"
    /\ ~Creds
    /\ m_s' = "Connected"
    /\ io' = receive_message
    /\ UNCHANGED <<conn, addrs, inbox, m_requests, outcome, posted, owner, loop, session>>

\* async_auth in the loop: send_request runs inline, finds m_s # Connected and refuses,
\* so the loop calls connect() again; then the lambda stores the emptied handler and
\* sends the buffer, which is already freed.
LoopReauthRefused ==
    /\ owner # "gone"
    /\ Creds
    /\ Len(conn.m_queue.active) < MaxPending
    /\ io' = connect
    /\ outcome' = [outcome EXCEPT ![ReauthId] = "not_connected"]
    /\ m_requests' = m_requests \cup {ReauthId}
    /\ conn' = send_data(conn, ReauthId)
    /\ UNCHANGED <<addrs, inbox, m_s, posted, owner, loop, session>>

OnHello ==
    /\ Done("hello")
    /\ \/ io.st = "error" /\ NextAddressOrError
       \/ io.st = "ok" /\ loop = "absent" /\ ConnectorCreated
       \/ io.st = "ok" /\ loop = "running"
             /\ (LoopEndsUnlocked \/ LoopReconnected \/ LoopReauthRefused)
-----------------------------------------------------------------------------
(* The receive loop. *)

LoopStart ==
    /\ io.op = "spawned"
    /\ Continue(conn, m_s, m_requests, outcome)
    /\ UNCHANGED <<addrs, inbox, posted, session>>

OnReadError ==
    /\ Done("read")
    /\ io.st = "error"
    /\ reset(conn, m_s, m_requests, outcome)
    /\ UNCHANGED <<addrs, inbox, posted, session>>

\* The sync of a frame, and of the one just read.
SyncOf(frame) == IF frame \in {AuthRefused, AuthUncharted} THEN AuthId ELSE frame

FrameSync == SyncOf(io.msg)

\* Mutant: the entry is looked up but not taken out of m_requests.
OnFrame_find ==
    LET called == {FrameSync} \cap m_requests \cap Owed(outcome)
    IN  /\ Done("read")
        /\ io.st = "ok"
        /\ owner' = IF AuthId \in called THEN "user" ELSE owner
        /\ outcome' = Complete(outcome, called, "ok")
        /\ io' = receive_message
        /\ UNCHANGED <<conn, addrs, inbox, m_s, m_requests, posted, loop, session>>

\* Mutant: the handler is copied, not moved, when it is called.
OnFrame_copied_handler ==
    /\ Done("read")
    /\ io.st = "ok"
    /\ Continue(conn, m_s, m_requests \ {FrameSync},
                Complete(outcome, {FrameSync} \cap m_requests, "ok"))
    /\ UNCHANGED <<addrs, inbox, posted, session>>

\* A frame: the entry with its sync is extracted and its handler called.  An empty or
\* throwing handler makes no difference here, the exception is caught and logged.
\* Success of the auth request hands the Connector to the user; an error response to
\* it destroys the Connector, hence stops it, before the loop goes round: to its end,
\* with nothing to reset, for no other request can be registered before connect() is done.
OnFrame ==
    LET called == {FrameSync} \cap m_requests \cap Owed(outcome)
        failed == io.msg = AuthRefused /\ AuthId \in called
        rest   == m_requests \ {FrameSync}
        out    == Complete(outcome, called, IF failed THEN "refused" ELSE "ok")
    IN  /\ Done("read")
        /\ io.st = "ok"
        /\ \/ /\ AuthId \notin called
              /\ Continue(conn, m_s, rest, out)
           \/ /\ AuthId \in called
              /\ owner' = IF failed THEN "gone" ELSE "user"
              /\ m_s' = IF failed THEN "Stopped" ELSE m_s
              /\ conn' = IF failed THEN stop(conn) ELSE conn
              /\ outcome' = out
              /\ m_requests' = rest
              /\ IF failed THEN loop' = "finished" /\ io' = NoIo
                           ELSE io' = receive_message /\ UNCHANGED loop
        /\ UNCHANGED <<addrs, inbox, posted, session>>

\* Connection::on_data_sent, or the next part of the write.
DataSent ==
    /\ Finished(conn)
    /\ conn' = write_op(conn)
    /\ io' = IF conn.write.st = "error" THEN Cancelled(io) ELSE io
    /\ UNCHANGED <<addrs, inbox>>
    /\ UNCHANGED connectorVars
-----------------------------------------------------------------------------
(* The lambdas dispatched to the strand. *)

\* Mutant: the test of m_s is dropped.
Accepted_any_state(r) ==
    /\ m_requests' = m_requests \cup {r}
    /\ conn' = send_data(conn, r)
    /\ UNCHANGED <<io, m_s, outcome, owner>>

\* send_request while connected.
Accepted(r) ==
    /\ m_s = "Connected"
    /\ m_requests' = m_requests \cup {r}
    /\ conn' = send_data(conn, r)
    /\ UNCHANGED <<io, m_s, outcome, owner>>

\* send_request while not connected: the handler is called with not_connected and, as
\* nothing returns there, the emptied handler is stored and the buffer it owned sent.
\* If it was the auth request the Connector is destroyed, and stopped, in between.
Refused(r) ==
    LET c == IF AuthFailed({r}) THEN stop(conn) ELSE conn
    IN  /\ m_s # "Connected"
        /\ outcome' = [outcome EXCEPT ![r] = "not_connected"]
        /\ owner' = IF AuthFailed({r}) THEN "gone" ELSE owner
        /\ m_s' = IF AuthFailed({r}) THEN "Stopped" ELSE m_s
        /\ io' = IF AuthFailed({r}) THEN Cancelled(io) ELSE io
        /\ \/ /\ m_requests' = m_requests \cup {r}
              /\ conn' = send_data(c, r)
           \/ /\ HandlersThrow
              /\ conn' = c
              /\ UNCHANGED m_requests

\* Mutant: the destructor does not close the socket.
Stopped_socket_open ==
    /\ m_s' = "Stopped"
    /\ UNCHANGED <<conn, io, m_requests, outcome, owner>>

\* ~Connector: stop the loop and close the socket.
Stopped ==
    /\ m_s' = "Stopped"
    /\ conn' = stop(conn)
    /\ io' = Cancelled(io)
    /\ UNCHANGED <<m_requests, outcome, owner>>

RunPosted ==
    /\ posted # <<>>
    /\ posted' = Tail(posted)
    /\ IF Head(posted) = StopLambda THEN Stopped
                                    ELSE Accepted(Head(posted)) \/ Refused(Head(posted))
    /\ UNCHANGED <<addrs, inbox, loop, session>>
-----------------------------------------------------------------------------
(* Users: ping, call, eval and every other request; releasing the Connector. *)

Call(r) ==
    /\ owner = "user"
    /\ outcome[r] = "idle"
    /\ outcome' = [outcome EXCEPT ![r] = "issued"]
    /\ posted' = Append(posted, r)
    /\ UNCHANGED <<conn, io, addrs, inbox, m_s, m_requests, owner, loop, session>>

DropConnector ==
    /\ owner = "user"
    /\ owner' = "gone"
    /\ posted' = Append(posted, StopLambda)
    /\ UNCHANGED <<conn, io, addrs, inbox, m_s, m_requests, outcome, loop, session>>
-----------------------------------------------------------------------------
(* The server. *)

\* It answers a message it has received, whatever became of the request meanwhile.
NetReply ==
    /\ conn.sock = "up"
    /\ Len(inbox) < MaxPending
    /\ \E i \in DOMAIN conn.wire :
          /\ conn' = Consumed(conn, i)
          /\ \/ /\ inbox' = Append(inbox, conn.wire[i])
                /\ session' = IF conn.wire[i] = AuthId THEN "user" ELSE session
             \/ /\ conn.wire[i] = AuthId
                /\ \/ inbox' = Append(inbox, AuthRefused) /\ UNCHANGED session
                   \/ inbox' = Append(inbox, AuthUncharted) /\ session' = "refused"
    /\ UNCHANGED <<io, addrs, m_s, m_requests, outcome, posted, owner, loop>>

\* A frame that answers no request.
NetEvent ==
    /\ conn.sock = "up"
    /\ Len(inbox) < MaxPending
    /\ inbox' = Append(inbox, EventFrame)
    /\ UNCHANGED <<conn, io, addrs, connectorVars>>

Net == /\ NetResolve \/ NetConnect \/ NetHello \/ NetBreak \/ NetReceive
             \/ NetReadError \/ NetTransfer \/ NetWriteFail
       /\ UNCHANGED connectorVars

Strand == OnResolved \/ OnConnected \/ OnHello \/ LoopStart \/ OnReadError \/ OnFrame
             \/ DataSent \/ RunPosted

\* Nothing is left that could run.
Freed == owner = "gone" /\ loop # "running" /\ posted = <<>>

Terminated == Freed /\ ~InFlight(conn) /\ UNCHANGED vars

Next ==
    \/ Strand
    \/ Net \/ NetReply \/ NetEvent
    \/ \E r \in Reqs : Call(r)
    \/ DropConnector
    \/ Terminated

Spec == Init /\ [][Next]_vars
-----------------------------------------------------------------------------
(* Properties. *)

\* Every variable has the type its declaration gives it.
TypeOK ==
    /\ conn \in Connections
    /\ io \in Ios
    /\ addrs \in Nat
    /\ inbox \in Seq(Frames)
    /\ m_s \in States
    /\ m_requests \in SUBSET Ids
    /\ outcome \in [Ids -> Outcomes]
    /\ posted \in Seq(Ids \cup {StopLambda})
    /\ owner \in Owners
    /\ loop \in Loops
    /\ session \in {"guest", "user", "refused"}

\* The entries of m_requests whose handler is still to be called.
Live == m_requests \cap Owed(outcome)

\* A request whose handler is owed is somewhere: queued on the strand, or registered.
\* No interleaving of replies, resets, refusals and reconnects drops one.
NoRequestForgotten ==
    \A r \in Owed(outcome) : r \in m_requests \/ \E i \in DOMAIN posted : posted[i] = r

\* A registered live request is being served: the loop is reading the connection it
\* was sent on (or about to), never reconnecting or finished, unless an exception has
\* taken the loop away.
LiveServed ==
    Live # {} => loop = "dead" \/ (loop = "running" /\ io.op \in {"spawned", "read"})

\* While m_s is Connected there is a reader: requests are never accepted with nobody
\* to deliver their answers.
ConnectedHasReader ==
    m_s = "Connected" /\ loop # "absent" =>
        loop = "running" /\ io.op \in {"spawned", "read"}

\* With credentials, a Connector that users hold and that says Connected has an
\* authenticated session on its socket, reconnects included, unless the server refused
\* it with an error that the client does not know.
ConnectedIsAuthenticated ==
    Creds /\ owner = "user" /\ m_s = "Connected" /\ conn.sock = "up" =>
        session \in {"user", "refused"}

\* The loop only ever dies of one of two causes: a request was refused with
\* not_connected and left its empty handler behind, or a user's handler threw.
DeathHasCause ==
    loop = "dead" => HandlersThrow \/ \E r \in m_requests : outcome[r] = "not_connected"

\* Once the Connector is stopped it stays stopped: a reconnect that is under way when
\* it is destroyed cannot bring it back to Connected.
StoppedIsFinal == [][m_s = "Stopped" => m_s' = "Stopped"]_vars

\* A user's handler is called at most once.  A request that was refused stays registered and
\* is sent all the same, so its answer, or the next reset, comes upon it a second time.
CompletedOnce ==
    [][\A r \in Reqs \cup {AuthId} :
          outcome[r] \notin {"idle", "issued"} => outcome'[r] = outcome[r]]_vars

\* A live request is never lost in silence: its data is still on its way, or its answer
\* has come in, or the connection shows a failure that makes the loop reset it.
NoSilentLoss ==
    loop = "running" =>
        \A r \in Live :
            \/ r \in Range(Unsent(conn)) \cup Range(conn.wire)
            \/ \E i \in DOMAIN inbox : SyncOf(inbox[i]) = r
            \/ io.op = "read" /\ io.st = "error"
            \/ io.op = "read" /\ io.st = "ok" /\ FrameSync = r
            \/ Torn(conn)

\* The assertion at the top of Connection::connect (connection.h:75): it is entered with
\* a closed socket.
SocketClosedOnConnect == io = connect => conn.sock = "closed"

\* "all other errors MUST be handled by the error code above"
\* (tarantool_connector.hpp:474): none of them leaves connect() as an exception and
\* destroys the loop that waits for connect() while the user holds the Connector.
NoErrorEscapes == loop = "escaped" => owner # "user"

\* "totally unexpected error (definitely a bug)", "must not be here"
\* (tarantool_connector.hpp:482-487): the clause that ends the loop is never entered.
UnexpectedNeverHappens == loop # "dead"

\* "data param MUST live for the whole duration of the operation"
\* (tarantool_connector.hpp:74): the buffers still to be sent belong to requests whose
\* handler has not been called.  The handler's call frees them.
BuffersAlive == Range(Unsent(conn)) \subseteq Owed(outcome)
-----------------------------------------------------------------------------
(* Liveness. *)

\* The io_context is run: what is queued on the strand is executed.
StrandFairness ==
    /\ WF_vars(OnResolved) /\ WF_vars(OnConnected) /\ WF_vars(OnHello)
    /\ WF_vars(LoopStart) /\ WF_vars(OnReadError) /\ WF_vars(OnFrame)
    /\ WF_vars(DataSent) /\ WF_vars(RunPosted)

\* Operations on the network end, one way or the other.  That a hello arrives or fails
\* is an assumption: the code sets no timeout on it.
NetworkFairness ==
    /\ WF_vars(NetResolve /\ UNCHANGED connectorVars)
    /\ WF_vars(NetConnect /\ UNCHANGED connectorVars)
    /\ WF_vars(NetHello /\ UNCHANGED connectorVars)
    /\ WF_vars(NetTransfer /\ UNCHANGED connectorVars)
    /\ WF_vars(NetReceive /\ UNCHANGED connectorVars)
    /\ WF_vars(conn.sock \in {"broken", "closed"} /\ NetReadError /\ UNCHANGED connectorVars)

\* The server answers what it is asked for as long as it is connected, and closes a
\* connection on which it was sent something that is no message.
ServerFairness ==
    /\ SF_vars(NetReply)
    /\ WF_vars(conn.garbled /\ NetBreak /\ UNCHANGED connectorVars)

\* The server can be reached: attempts do not fail for ever, and a connection is not
\* always lost again before the handler of async_connect has run.
ReachableFairness ==
    /\ SF_vars(NetResolve /\ io'.st = "ok" /\ UNCHANGED connectorVars)
    /\ SF_vars(NetConnect /\ io'.st = "ok" /\ UNCHANGED connectorVars)
    /\ SF_vars(conn.sock = "up" /\ OnConnected)
    /\ SF_vars(NetHello /\ io'.st = "ok" /\ UNCHANGED connectorVars)

LiveSpec == Spec /\ StrandFairness /\ NetworkFairness /\ ServerFairness /\ ReachableFairness

\* Releasing the Connector ends its loop, wherever the loop is: reading, reconnecting or
\* not yet started.
DropEndsLoop == owner = "gone" ~> loop # "running"

\* Every request completes, unless an exception has taken the loop away.
RequestsComplete ==
    \A r \in Reqs : outcome[r] = "issued" ~> (outcome[r] # "issued" \/ loop \in {"dead", "escaped"})

\* "This class also handles reconnects" (tarantool_connector.hpp:43): a lost connection
\* is re-established for as long as somebody holds the Connector.  Exceptions that take the
\* loop away are excepted: UnexpectedNeverHappens and NoErrorEscapes are about these.
Reconnects ==
    m_s = "Connecting" ~>
        (m_s = "Connected" \/ owner = "gone" \/ loop \in {"dead", "escaped"})
=============================================================================
