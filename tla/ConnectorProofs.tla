-------------------------- MODULE ConnectorProofs --------------------------
(***************************************************************************)
(* Proofs about the Connector, for any number of requests, addresses and   *)
(* queued buffers, with and without credentials, throwing handlers and     *)
(* logging.                                                                *)
(***************************************************************************)
EXTENDS Connector, SendPathProofs

\* Type correctness, with the soundness of the Connection that SendPathProofs
\* establishes for each of its methods.
Typed == TypeOK /\ Sound(conn)

\* What one step leaves well typed, whichever handler it belongs to.
TypedCore ==
    /\ Sound(conn)
    /\ io \in Ios
    /\ m_s \in States
    /\ m_requests \in SUBSET Ids
    /\ outcome \in [Ids -> Outcomes]
    /\ owner \in Owners
    /\ loop \in Loops

LEMMA TypedSplit ==
  Typed <=> /\ TypedCore
            /\ addrs \in Nat /\ inbox \in Seq(Frames)
            /\ posted \in Seq(Ids \cup {StopLambda})
            /\ session \in {"guest", "user", "refused"}
  BY DEF Typed, TypeOK, TypedCore, Sound

\* The values that handlers give to io are operations.
LEMMA PendingType ==
  ASSUME NEW op \in IoOps
  PROVE  Pending(op) \in Ios
  BY DEF Pending, Ios, IoStates, NoFrame

LEMMA ConnectType == connect \in Ios
  BY PendingType DEF connect, IoOps

LEMMA NoIoType == NoIo \in Ios
  BY PendingType DEF NoIo, IoOps

LEMMA ReceiveType == receive_message \in Ios /\ receive_message.op = "read"
<1>1. Pending("read") \in Ios /\ Pending("read").op = "read"
  BY PendingType DEF IoOps, Pending
<1> QED
  BY <1>1 DEF receive_message

\* Cancelling an operation changes its state only.
LEMMA CancelledType ==
  ASSUME NEW o \in Ios
  PROVE  Cancelled(o) \in Ios /\ Cancelled(o).op = o.op
  BY DEF Cancelled, Ios, IoStates

LEMMA FinishedIoType ==
  ASSUME NEW o \in Ios, NEW st \in IoStates
  PROVE  [o EXCEPT !.st = st] \in Ios /\ [o EXCEPT !.st = st].op = o.op
  BY DEF Ios

LEMMA CompleteType ==
  ASSUME NEW out \in [Ids -> Outcomes], NEW rs, NEW how \in Outcomes
  PROVE  Complete(out, rs, how) \in [Ids -> Outcomes]
  BY DEF Complete

\* reset() leaves everything well typed, whether or not a handler throws.
LEMMA ResetTyped ==
  ASSUME TypedCore,
         NEW c, Sound(c), NEW ms \in States, NEW reqs \in SUBSET Ids,
         NEW out \in [Ids -> Outcomes], reset(c, ms, reqs, out)
  PROVE  TypedCore'
<1>0. /\ owner \in Owners /\ "gone" \in Owners
      /\ loop \in Loops /\ "finished" \in Loops /\ "dead" \in Loops
      /\ StateAfterReset(ms) \in States /\ "Stopped" \in States
      /\ ResetError(ms) \in Outcomes
  BY DEF TypedCore, Owners, Loops, States, Outcomes, Failures, StateAfterReset, ResetError
<1>1. CASE CleanReset(c, ms, reqs, out)
  <2>1. Sound(conn')
    BY <1>1, StopSound DEF CleanReset
  <2>2. io' \in Ios
    BY <1>1, ConnectType, NoIoType DEF CleanReset
  <2>3. m_s' \in States /\ owner' \in Owners /\ loop' \in Loops
    BY <1>0, <1>1 DEF CleanReset
  <2>4. m_requests' \in SUBSET Ids
    BY <1>1 DEF CleanReset
  <2>5. outcome' \in [Ids -> Outcomes]
    BY <1>0, <1>1, CompleteType DEF CleanReset
  <2> QED
    BY <2>1, <2>2, <2>3, <2>4, <2>5 DEF TypedCore, Sound
<1>2. CASE FaultyReset(c, ms, reqs, out)
  <2>1. PICK called :
          /\ m_s' = IF AuthFailed(called) THEN "Stopped" ELSE StateAfterReset(ms)
          /\ owner' = IF AuthFailed(called) THEN "gone" ELSE owner
          /\ outcome' = Complete(out, called, ResetError(ms))
          /\ m_requests' = reqs
          /\ conn' = IF AuthFailed(called) THEN stop(c) ELSE c
          /\ io' = NoIo
          /\ loop' = "dead"
    BY <1>2 DEF FaultyReset
  <2>2. Sound(conn')
    BY <2>1, StopSound
  <2>3. outcome' \in [Ids -> Outcomes]
    BY <1>0, <2>1, CompleteType
  <2>4. io' \in Ios /\ m_s' \in States /\ owner' \in Owners /\ loop' \in Loops /\ m_requests' \in SUBSET Ids
    BY <1>0, <2>1, NoIoType
  <2> QED
    BY <2>2, <2>3, <2>4 DEF TypedCore, Sound
<1> QED
  BY <1>1, <1>2 DEF reset

\* So does going round the loop.
LEMMA ContinueTyped ==
  ASSUME TypedCore,
         NEW c, Sound(c), NEW ms \in States, NEW reqs \in SUBSET Ids,
         NEW out \in [Ids -> Outcomes], Continue(c, ms, reqs, out)
  PROVE  TypedCore'
<1>1. CASE ms = "Stopped" /\ reset(c, ms, reqs, out)
  BY <1>1, ResetTyped
<1>2. CASE /\ io' = IF ms = "Connected" THEN receive_message ELSE connect
           /\ conn' = c /\ m_s' = ms /\ m_requests' = reqs /\ outcome' = out
           /\ UNCHANGED <<loop, owner>>
  BY <1>2, ReceiveType, ConnectType DEF TypedCore, Sound
<1> QED
  BY <1>1, <1>2 DEF Continue
-----------------------------------------------------------------------------
(* Types are preserved: one lemma per group of handlers. *)

LEMMA ConnectErrorTyped ==
  ASSUME Typed, ConnectError
  PROVE  Typed'
<1>1. TypedCore'
  <2>1. CASE loop = "absent"
    <3>1. TypedCore
      BY TypedSplit
    <3>2. /\ owner' = "gone" /\ io' = NoIo /\ conn' = stop(conn)
          /\ UNCHANGED <<m_s, m_requests, outcome, loop>>
      BY <2>1 DEF ConnectError
    <3> QED
      BY <3>1, <3>2, StopSound, NoIoType DEF TypedCore, Owners, Sound
  <2>2. CASE Continue(conn, m_s, m_requests, outcome)
    BY <2>2, ContinueTyped, TypedSplit DEF TypedCore
  <2> QED
    BY <2>1, <2>2 DEF ConnectError
<1> QED
  BY <1>1, TypedSplit DEF ConnectError, Typed, TypeOK, TypedCore, Sound

LEMMA NextAddressTyped ==
  ASSUME Typed, NextAddressOrError
  PROVE  Typed'
<1>1. CASE TryNextAddress /\ session' = "guest"
           /\ UNCHANGED <<m_s, m_requests, outcome, posted, owner, loop>>
  <2>1. Sound(conn')
    BY <1>1, OpenSound DEF TryNextAddress, Typed
  <2>2. io' \in Ios
    BY <1>1, PendingType DEF TryNextAddress, IoOps
  <2>3. addrs' \in Nat /\ inbox' \in Seq(Frames)
    BY <1>1 DEF TryNextAddress, Typed, TypeOK
  <2> QED
    BY <1>1, <2>1, <2>2, <2>3 DEF Typed, TypeOK, Sound
<1>2. CASE ConnectError
  BY <1>2, ConnectErrorTyped
<1> QED
  BY <1>1, <1>2 DEF NextAddressOrError

LEMMA ConnectThrowsTyped ==
  ASSUME Typed, ConnectThrows
  PROVE  Typed'
<1>1. Sound(conn')
  BY StopSound DEF ConnectThrows, Typed
<1>2. io' \in Ios /\ owner' \in Owners /\ loop' \in Loops
  BY NoIoType DEF ConnectThrows, Typed, TypeOK, Owners, Loops
<1> QED
  BY <1>1, <1>2 DEF ConnectThrows, Typed, TypeOK, Sound

LEMMA OnConnectedTyped ==
  ASSUME Typed, OnConnected
  PROVE  Typed'
<1>1. CASE NextAddressOrError
  BY <1>1, NextAddressTyped
<1>2. CASE AwaitHello /\ UNCHANGED connectorVars
  BY <1>2, PendingType DEF AwaitHello, connectorVars, IoOps, Typed, TypeOK, Sound
<1>3. CASE ConnectThrows
  BY <1>3, ConnectThrowsTyped
<1> QED
  BY <1>1, <1>2, <1>3 DEF OnConnected

LEMMA OnHelloTyped ==
  ASSUME Typed, OnHello
  PROVE  Typed'
<1>0. AuthId \in Ids /\ ReauthId \in Ids
  BY DEF Ids
<1>1. CASE NextAddressOrError
  BY <1>1, NextAddressTyped
<1>2. CASE ConnectorCreated
  <2>1. io' \in Ios /\ owner' \in Owners /\ loop' \in Loops
    BY <1>2, PendingType DEF ConnectorCreated, IoOps, Owners, Loops
  <2>2. outcome' \in [Ids -> Outcomes]
    BY <1>0, <1>2 DEF ConnectorCreated, Typed, TypeOK, Outcomes
  <2>3. posted' \in Seq(Ids \cup {StopLambda})
    BY <1>0, <1>2 DEF ConnectorCreated, Typed, TypeOK
  <2> QED
    BY <1>2, <2>1, <2>2, <2>3 DEF ConnectorCreated, Typed, TypeOK, Sound
<1>3. CASE LoopEndsUnlocked
  BY <1>3, NoIoType DEF LoopEndsUnlocked, Loops, Typed, TypeOK, Sound
<1>4. CASE LoopReconnected
  BY <1>4, ReceiveType DEF LoopReconnected, States, Typed, TypeOK, Sound
<1>5. CASE LoopReauthRefused
  <2>1. Sound(conn')
    BY <1>0, <1>5, DataAssumption, SendSound DEF LoopReauthRefused, Typed
  <2>2. io' \in Ios /\ m_requests' \in SUBSET Ids
    BY <1>0, <1>5, ConnectType DEF LoopReauthRefused, Typed, TypeOK
  <2>3. outcome' \in [Ids -> Outcomes]
    BY <1>0, <1>5 DEF LoopReauthRefused, Typed, TypeOK, Outcomes, Failures
  <2> QED
    BY <1>5, <2>1, <2>2, <2>3 DEF LoopReauthRefused, Typed, TypeOK, Sound
<1> QED
  BY <1>1, <1>2, <1>3, <1>4, <1>5 DEF OnHello

LEMMA LoopTyped ==
  ASSUME Typed, LoopStart \/ OnReadError
  PROVE  Typed'
<1>1. TypedCore /\ Sound(conn)
  BY TypedSplit DEF Typed
<1>2. TypedCore'
  BY <1>1, ContinueTyped, ResetTyped DEF LoopStart, OnReadError, TypedCore
<1> QED
  BY <1>2 DEF LoopStart, OnReadError, Typed, TypeOK, TypedCore, Sound

LEMMA OnFrameTyped ==
  ASSUME Typed, OnFrame
  PROVE  Typed'
<1> DEFINE called == {FrameSync} \cap m_requests \cap Owed(outcome)
           failed == io.msg = AuthRefused /\ AuthId \in called
           rest == m_requests \ {FrameSync}
           out == Complete(outcome, called, IF failed THEN "refused" ELSE "ok")
<1>0. TypedCore /\ Sound(conn) /\ m_s \in States /\ loop \in Loops
  BY TypedSplit DEF Typed, TypeOK
<1>1. rest \in SUBSET Ids
  BY DEF Typed, TypeOK
<1>2. out \in [Ids -> Outcomes]
  BY CompleteType DEF Typed, TypeOK, Outcomes, Failures
<1>3. UNCHANGED <<addrs, inbox, posted, session>>
  BY DEF OnFrame
<1>4. \/ Continue(conn, m_s, rest, out)
      \/ /\ owner' = IF failed THEN "gone" ELSE "user"
         /\ m_s' = IF failed THEN "Stopped" ELSE m_s
         /\ conn' = IF failed THEN stop(conn) ELSE conn
         /\ outcome' = out
         /\ m_requests' = rest
         /\ IF failed THEN loop' = "finished" /\ io' = NoIo
                      ELSE io' = receive_message /\ UNCHANGED loop
  BY DEF OnFrame
<1> HIDE DEF failed, rest, out
<1>5. TypedCore'
  <2>1. CASE Continue(conn, m_s, rest, out)
    BY <1>0, <1>1, <1>2, <2>1, ContinueTyped
  <2>2. CASE /\ owner' = IF failed THEN "gone" ELSE "user"
             /\ m_s' = IF failed THEN "Stopped" ELSE m_s
             /\ conn' = IF failed THEN stop(conn) ELSE conn
             /\ outcome' = out
             /\ m_requests' = rest
             /\ IF failed THEN loop' = "finished" /\ io' = NoIo
                          ELSE io' = receive_message /\ UNCHANGED loop
    <3>1. Sound(conn')
      BY <1>0, <2>2, StopSound
    <3>2. io' \in Ios
      BY <2>2, NoIoType, ReceiveType
    <3>3. m_s' \in States /\ owner' \in Owners /\ loop' \in Loops
      BY <1>0, <2>2 DEF States, Owners, Loops
    <3> QED
      BY <1>1, <1>2, <2>2, <3>1, <3>2, <3>3 DEF TypedCore, Sound
  <2> QED
    BY <1>4, <2>1, <2>2
<1> QED
  BY <1>3, <1>5 DEF Typed, TypeOK, TypedCore, Sound

LEMMA DataSentTyped ==
  ASSUME Typed, DataSent
  PROVE  Typed'
<1>1. Sound(conn')
  BY WriteOpSound DEF DataSent, Typed
<1>2. io' \in Ios
  BY CancelledType DEF DataSent, Typed, TypeOK
<1> QED
  BY <1>1, <1>2 DEF DataSent, connectorVars, Typed, TypeOK, Sound

LEMMA RunPostedTyped ==
  ASSUME Typed, RunPosted
  PROVE  Typed'
<1> DEFINE r == Head(posted)
<1>1. posted \in Seq(Ids \cup {StopLambda}) /\ posted # <<>>
  BY DEF RunPosted, Typed, TypeOK
<1>2. r \in Ids \cup {StopLambda} /\ posted' \in Seq(Ids \cup {StopLambda})
  BY <1>1 DEF RunPosted
<1>3. addrs' \in Nat /\ inbox' \in Seq(Frames) /\ loop' \in Loops /\ session' \in {"guest", "user", "refused"}
  BY DEF RunPosted, Typed, TypeOK
<1>4. CASE r = StopLambda
  <2>1. /\ m_s' = "Stopped" /\ conn' = stop(conn) /\ io' = Cancelled(io)
        /\ UNCHANGED <<m_requests, outcome, owner>>
    BY <1>4 DEF RunPosted, Stopped
  <2> QED
    BY <1>2, <1>3, <2>1, StopSound, CancelledType DEF Typed, TypeOK, States, Sound
<1>5. CASE r # StopLambda /\ Accepted(r)
  <2>1. r \in Ids
    BY <1>2, <1>5
  <2>2. /\ m_requests' = m_requests \cup {r} /\ conn' = send_data(conn, r)
        /\ UNCHANGED <<io, m_s, outcome, owner>>
    BY <1>5 DEF Accepted
  <2> HIDE DEF r
  <2>3. Sound(conn')
    BY <2>1, <2>2, DataAssumption, SendSound DEF Typed
  <2> QED
    BY <1>2, <1>3, <2>1, <2>2, <2>3 DEF Typed, TypeOK, Sound
<1>6. CASE r # StopLambda /\ Refused(r)
  <2> DEFINE c == IF AuthFailed({r}) THEN stop(conn) ELSE conn
  <2>1. r \in Ids
    BY <1>2, <1>6
  <2>2. Sound(c)
    BY StopSound DEF Typed
  <2>3. Sound(send_data(c, r))
    BY <2>1, <2>2, DataAssumption, SendSound
  <2>4. Sound(conn')
    BY <1>6, <2>2, <2>3 DEF Refused
  <2>5. m_requests' \in SUBSET Ids
    BY <1>6, <2>1 DEF Refused, Typed, TypeOK
  <2>6. outcome' \in [Ids -> Outcomes]
    BY <1>6, <2>1 DEF Refused, Typed, TypeOK, Outcomes, Failures
  <2>7. m_s' \in States /\ owner' \in Owners
    BY <1>6 DEF Refused, Typed, TypeOK, States, Owners
  <2>8. io' \in Ios
    BY <1>6, CancelledType DEF Refused, Typed, TypeOK
  <2> QED
    BY <1>2, <1>3, <2>4, <2>5, <2>6, <2>7, <2>8 DEF Typed, TypeOK, Sound
<1> QED
  BY <1>4, <1>5, <1>6 DEF RunPosted

LEMMA UserTyped ==
  ASSUME Typed, DropConnector \/ \E r \in Reqs : Call(r)
  PROVE  Typed'
<1>1. CASE DropConnector
  <2>1. posted' \in Seq(Ids \cup {StopLambda})
    BY <1>1 DEF DropConnector, Typed, TypeOK
  <2> QED
    BY <1>1, <2>1 DEF DropConnector, Typed, TypeOK, Owners, Sound
<1>2. ASSUME NEW r \in Reqs, Call(r)
      PROVE  Typed'
  <2>1. r \in Ids
    BY DEF Ids
  <2>2. posted' \in Seq(Ids \cup {StopLambda})
    BY <1>2, <2>1 DEF Call, Typed, TypeOK
  <2>3. outcome' \in [Ids -> Outcomes]
    BY <1>2, <2>1 DEF Call, Typed, TypeOK, Outcomes
  <2> QED
    BY <1>2, <2>2, <2>3 DEF Call, Typed, TypeOK, Sound
<1> QED
  BY <1>1, <1>2

LEMMA NetTyped ==
  ASSUME Typed, Net \/ NetReply \/ NetEvent
  PROVE  Typed'
<1>0. Sound(conn) /\ io \in Ios /\ "ok" \in IoStates /\ "error" \in IoStates
  BY DEF Typed, TypeOK, IoStates
<1>1. CASE Net
  <2>1. CASE NetResolve
    <3>1. addrs' \in Nat
      BY <2>1 DEF NetResolve, Typed, TypeOK
    <3> QED
      BY <1>0, <1>1, <2>1, <3>1, FinishedIoType
         DEF NetResolve, Net, connectorVars, Typed, TypeOK, Sound
  <2>2. CASE NetConnect
    <3>1. Sound(conn')
      BY <1>0, <2>2, ConnectOutcomeSound DEF NetConnect
    <3> QED
      BY <1>0, <1>1, <2>2, <3>1, FinishedIoType
         DEF NetConnect, Net, connectorVars, Typed, TypeOK, Sound
  <2>3. CASE NetHello \/ NetReadError
    BY <1>0, <1>1, <2>3, FinishedIoType
       DEF NetHello, NetReadError, Net, connectorVars, Typed, TypeOK, Sound
  <2>4. CASE NetBreak \/ NetTransfer \/ NetWriteFail
    <3>1. Sound(conn')
      BY <1>0, <2>4, PeerLostSound, TransferredSound, PartTransferredSound, WriteFailedSound
         DEF NetBreak, NetTransfer, NetWriteFail, Writable
    <3>2. UNCHANGED <<io, addrs>>
      BY <2>4 DEF NetBreak, NetTransfer, NetWriteFail
    <3>3. inbox' \in Seq(Frames)
      <4>1. inbox \in Seq(Frames) /\ <<>> \in Seq(Frames)
        BY DEF Typed, TypeOK
      <4>2. inbox' \in {inbox, <<>>}
        BY <2>4 DEF NetBreak, NetTransfer, NetWriteFail
      <4> QED
        BY <4>1, <4>2
    <3> QED
      BY <1>1, <3>1, <3>2, <3>3 DEF Net, connectorVars, Typed, TypeOK, Sound
  <2>5. CASE NetReceive
    <3>1. Head(inbox) \in Frames /\ inbox' \in Seq(Frames)
      BY <2>5 DEF NetReceive, Typed, TypeOK
    <3>2. io' \in Ios
      BY <1>0, <2>5, <3>1 DEF NetReceive, Ios
    <3> QED
      BY <1>1, <2>5, <3>1, <3>2 DEF NetReceive, Net, connectorVars, Typed, TypeOK, Sound
  <2> QED
    BY <1>1, <2>1, <2>2, <2>3, <2>4, <2>5 DEF Net
<1>2. CASE NetReply
  <2>1. PICK i \in DOMAIN conn.wire :
          /\ conn' = Consumed(conn, i)
          /\ inbox' \in {Append(inbox, conn.wire[i]), Append(inbox, AuthRefused),
                        Append(inbox, AuthUncharted)}
          /\ session' \in {"user", "refused", session}
    BY <1>2 DEF NetReply
  <2>2. conn.wire[i] \in Frames /\ AuthRefused \in Frames /\ AuthUncharted \in Frames
    BY <1>0, DataAssumption DEF Sound, Connections, AllFrames
  <2>3. inbox' \in Seq(Frames)
    <3>1. \A f \in Frames : Append(inbox, f) \in Seq(Frames)
      BY DEF Typed, TypeOK
    <3> QED
      BY <2>1, <2>2, <3>1
  <2>4. Sound(conn')
    BY <1>0, <2>1, ConsumedSound
  <2>5. session' \in {"guest", "user", "refused"}
    BY <2>1 DEF Typed, TypeOK
  <2> QED
    BY <1>2, <2>3, <2>4, <2>5 DEF NetReply, Typed, TypeOK, Sound
<1>3. CASE NetEvent
  <2>1. EventFrame \in Frames
    BY DataAssumption DEF AllFrames
  <2>2. inbox' \in Seq(Frames)
    BY <1>3, <2>1 DEF NetEvent, Typed, TypeOK
  <2> QED
    BY <1>3, <2>2 DEF NetEvent, connectorVars, Typed, TypeOK, Sound
<1> QED
  BY <1>1, <1>2, <1>3

\* Every reachable state is well typed, and the Connection in it sound: the invariants of
\* the send path hold under the very calls that the Connector and its loop make.
THEOREM ConnectorTyped == Spec => []Typed
<1>1. Init => Typed
  <2> SUFFICES ASSUME Init PROVE Typed
    OBVIOUS
  <2>1. outcome \in [Ids -> Outcomes]
    BY DEF Init, Outcomes
  <2>2. Sound(conn)
    BY NewSound DEF Init
  <2> QED
    BY <2>1, <2>2, ConnectType DEF Init, Typed, TypeOK, States, Owners, Loops, Sound
<1>2. Typed /\ [Next]_vars => Typed'
  <2> SUFFICES ASSUME Typed, [Next]_vars PROVE Typed'
    OBVIOUS
  <2>1. CASE OnResolved
    BY <2>1, NextAddressTyped, ConnectErrorTyped DEF OnResolved
  <2>2. CASE OnConnected
    BY <2>2, OnConnectedTyped
  <2>3. CASE OnHello
    BY <2>3, OnHelloTyped
  <2>4. CASE LoopStart \/ OnReadError
    BY <2>4, LoopTyped
  <2>5. CASE OnFrame
    BY <2>5, OnFrameTyped
  <2>6. CASE DataSent
    BY <2>6, DataSentTyped
  <2>7. CASE RunPosted
    BY <2>7, RunPostedTyped
  <2>8. CASE DropConnector \/ \E r \in Reqs : Call(r)
    BY <2>8, UserTyped
  <2>9. CASE Net \/ NetReply \/ NetEvent
    BY <2>9, NetTyped
  <2>10. CASE UNCHANGED vars
    BY <2>10 DEF vars, Typed, TypeOK, Sound
  <2> QED
    BY <2>1, <2>2, <2>3, <2>4, <2>5, <2>6, <2>7, <2>8, <2>9, <2>10 DEF Next, Strand, Terminated
<1> QED
  BY <1>1, <1>2, PTL DEF Spec

\* Every variable of the Connector always has its type.
THEOREM TypeCorrect == Spec => []TypeOK
<1>1. Typed => TypeOK
  BY DEF Typed
<1> QED
  BY <1>1, ConnectorTyped, PTL
=============================================================================
