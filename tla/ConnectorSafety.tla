-------------------------- MODULE ConnectorSafety --------------------------
(***************************************************************************)
(* Safety of the Connector, for every value of the constants: live         *)
(* requests are served, Connected means that somebody reads, Stopped is    *)
(* final, and no request is forgotten.                                     *)
(*                                                                         *)
(* None of these is inductive alone.  That reset() finds every live        *)
(* request, say, needs to know that none is registered while the loop is   *)
(* reconnecting, hence that m_s is then not Connected, hence where the     *)
(* loop is in every state; and that Stopped is final needs to know that    *)
(* whoever may reconnect still holds a Connector that nobody has stopped.  *)
(***************************************************************************)
EXTENDS ConnectorProofs

\* Where the loop is agrees with m_s.
LoopAgrees ==
    /\ loop = "absent" =>
         /\ owner \in {"unborn", "gone"} /\ m_s = "Connected"
         /\ posted = <<>> /\ m_requests = {} /\ Owed(outcome) = {}
         /\ io.op \in {"none", "resolve", "connect", "hello"}
    /\ loop = "running" =>
         \/ io.op \in {"spawned", "read"} /\ m_s # "Connecting"
         \/ io.op \in {"resolve", "connect", "hello"} /\ m_s # "Connected"
    /\ loop \in {"finished", "dead", "escaped"} => m_s # "Connected" /\ io.op = "none"

\* Only a Connector that is gone is stopped, or about to be, and the auth request is owed
\* only while Connector::connect holds the Connector, when nothing else can be.
OwnerAgrees ==
    /\ m_s = "Stopped" => owner = "gone"
    /\ (\E i \in DOMAIN posted : posted[i] = StopLambda) => owner = "gone"
    /\ outcome[AuthId] = "issued" => owner = "connect"
    /\ owner \in {"unborn", "connect"} => Owed(outcome) \subseteq {AuthId}

Agree == LoopAgrees /\ OwnerAgrees /\ LiveServed

LEMMA AuthIsId == AuthId \in Ids /\ ReauthId \in Ids /\ AuthId \notin Reqs /\ AuthId # ReauthId
  BY ReqsAssumption DEF Ids, AuthId, ReauthId

LEMMA CompleteOwed ==
  ASSUME NEW out \in [Ids -> Outcomes], NEW rs, NEW how \in Outcomes \ {"issued"}
  PROVE  /\ Owed(Complete(out, rs, how)) = Owed(out) \ rs
         /\ \A r \in Ids : Complete(out, rs, how)[r] = IF r \in rs THEN how ELSE out[r]
  BY DEF Owed, Complete

LEMMA IoOp == /\ connect.op = "resolve" /\ NoIo.op = "none"
              /\ \A op \in IoOps : Pending(op).op = op
  BY DEF connect, NoIo, Pending

\* reset(), called by a running loop with what it knows about the requests.
LEMMA ResetAgrees ==
  ASSUME Typed, Agree, loop = "running",
         NEW c, NEW ms \in States, NEW reqs \in SUBSET Ids, NEW out \in [Ids -> Outcomes],
         ms = "Stopped" => owner = "gone",
         out[AuthId] = "issued" => owner = "connect", Owed(out) \subseteq Owed(outcome),
         reset(c, ms, reqs, out), UNCHANGED posted
  PROVE  Agree'
<1>0. ResetError(ms) \in Outcomes \ {"issued"}
  BY DEF ResetError, Outcomes, Failures
<1>1. ASSUME NEW called,
             outcome' = Complete(out, called, ResetError(ms)),
             owner' = IF AuthFailed(called) THEN "gone" ELSE owner,
             m_s' = IF AuthFailed(called) THEN "Stopped" ELSE StateAfterReset(ms)
      PROVE  OwnerAgrees' /\ m_s' # "Connected"
  <2>1. m_s' = "Stopped" => owner' = "gone"
    BY <1>1 DEF StateAfterReset
  <2>2. (\E i \in DOMAIN posted : posted[i] = StopLambda)' => owner' = "gone"
    BY <1>1 DEF Agree, OwnerAgrees
  <2>3. outcome'[AuthId] = "issued" => owner' = "connect"
    BY <1>0, <1>1, AuthIsId, CompleteOwed DEF AuthFailed
  <2>4. m_s' # "Connected"
    BY <1>1 DEF StateAfterReset
  <2>5. Owed(outcome)' \subseteq Owed(outcome)
    <3>1. Owed(outcome') \subseteq Owed(outcome)
      BY <1>0, <1>1, CompleteOwed
    <3> QED
      BY <3>1 DEF Owed
  <2>6. owner' \in {"unborn", "connect"} => owner' = owner
    BY <1>1
  <2> QED
    BY <2>1, <2>2, <2>3, <2>4, <2>5, <2>6 DEF OwnerAgrees, Agree
<1>2. CASE CleanReset(c, ms, reqs, out)
  <2> DEFINE called == reqs \cap Owed(out)
             ended == ms = "Stopped" \/ AuthFailed(called)
  <2>1. /\ m_s' = IF AuthFailed(called) THEN "Stopped" ELSE StateAfterReset(ms)
        /\ owner' = IF AuthFailed(called) THEN "gone" ELSE owner
        /\ outcome' = Complete(out, called, ResetError(ms))
        /\ m_requests' = {}
        /\ io' = IF ended THEN NoIo ELSE connect
        /\ loop' = IF ended THEN "finished" ELSE loop
    BY <1>2 DEF CleanReset
  <2> HIDE DEF called
  <2>2. OwnerAgrees' /\ m_s' # "Connected"
    BY <1>1, <2>1
  <2>3. LiveServed'
    BY <2>1 DEF LiveServed, Live
  <2>4. LoopAgrees'
    BY <2>1, <2>2, IoOp DEF LoopAgrees
  <2> QED
    BY <2>2, <2>3, <2>4 DEF Agree
<1>3. CASE FaultyReset(c, ms, reqs, out)
  <2>1. PICK called :
          /\ m_s' = IF AuthFailed(called) THEN "Stopped" ELSE StateAfterReset(ms)
          /\ owner' = IF AuthFailed(called) THEN "gone" ELSE owner
          /\ outcome' = Complete(out, called, ResetError(ms))
          /\ io' = NoIo
          /\ loop' = "dead"
    BY <1>3 DEF FaultyReset
  <2>2. OwnerAgrees' /\ m_s' # "Connected"
    BY <1>1, <2>1
  <2>3. LiveServed'
    BY <2>1 DEF LiveServed
  <2>4. LoopAgrees'
    BY <2>1, <2>2, IoOp DEF LoopAgrees
  <2> QED
    BY <2>2, <2>3, <2>4 DEF Agree
<1> QED
  BY <1>2, <1>3 DEF reset

\* Going round the loop: it may reconnect only if no live request is left behind.
LEMMA ContinueAgrees ==
  ASSUME Typed, Agree, loop = "running",
         NEW c, NEW ms \in States, NEW reqs \in SUBSET Ids, NEW out \in [Ids -> Outcomes],
         ms = "Stopped" => owner = "gone",
         out[AuthId] = "issued" => owner = "connect", Owed(out) \subseteq Owed(outcome),
         ms = "Connecting" => reqs \cap Owed(out) = {},
         Continue(c, ms, reqs, out), UNCHANGED posted
  PROVE  Agree'
<1>1. CASE ms = "Stopped" /\ reset(c, ms, reqs, out)
  BY <1>1, ResetAgrees
<1>2. CASE /\ ms # "Stopped"
           /\ io' = IF ms = "Connected" THEN receive_message ELSE connect
           /\ conn' = c /\ m_s' = ms /\ m_requests' = reqs /\ outcome' = out
           /\ UNCHANGED <<loop, owner>>
  <2>1. io'.op = IF ms = "Connected" THEN "read" ELSE "resolve"
    BY <1>2, IoOp, ReceiveType
  <2>2. LoopAgrees'
    BY <1>2, <2>1 DEF LoopAgrees, States
  <2>3. OwnerAgrees'
    BY <1>2 DEF OwnerAgrees, Agree, Owed
  <2>4. LiveServed'
    BY <1>2, <2>1 DEF LiveServed, Live, Owed, States
  <2> QED
    BY <2>2, <2>3, <2>4 DEF Agree
<1> QED
  BY <1>1, <1>2 DEF Continue
-----------------------------------------------------------------------------
(* What is registered or queued has been issued, and what has been issued is registered, *)
(* queued or complete.                                                                    *)

Queued == {posted[i] : i \in DOMAIN posted}

Issued == \A r \in m_requests \cup (Queued \cap Ids) : outcome[r] # "idle"

Bookkept == Issued /\ NoRequestForgotten

\* A step that queues nothing keeps the books, if it unregisters only what it completes.
LEMMA BooksKept ==
  ASSUME Typed, Typed', Bookkept, UNCHANGED posted,
         \A r \in m_requests' : r \in m_requests \/ outcome'[r] # "idle",
         \A r \in Ids : outcome'[r] = outcome[r] \/ outcome'[r] \notin {"idle", "issued"},
         \A r \in m_requests : r \in m_requests' \/ outcome'[r] # "issued"
  PROVE  Bookkept'
<1>1. m_requests \subseteq Ids /\ m_requests' \subseteq Ids
  BY DEF Typed, TypeOK
<1>2. Issued'
  BY <1>1 DEF Bookkept, Issued, Queued
<1>3. NoRequestForgotten'
  BY DEF Bookkept, NoRequestForgotten, Owed
<1> QED
  BY <1>2, <1>3 DEF Bookkept

\* reset() completes what it unregisters.
LEMMA ResetBooks ==
  ASSUME NEW c, NEW ms, NEW reqs \in SUBSET Ids, NEW out \in [Ids -> Outcomes],
         reset(c, ms, reqs, out)
  PROVE  /\ m_requests' \subseteq reqs
         /\ \A r \in Ids : outcome'[r] = out[r] \/ outcome'[r] \notin {"idle", "issued"}
         /\ \A r \in reqs : r \in m_requests' \/ outcome'[r] # "issued"
<1>0. ResetError(ms) \in Outcomes \ {"issued"} /\ ResetError(ms) \notin {"idle", "issued"}
  BY DEF ResetError, Outcomes, Failures
<1>1. CASE CleanReset(c, ms, reqs, out)
  <2> DEFINE called == reqs \cap Owed(out)
  <2>1. m_requests' = {} /\ outcome' = Complete(out, called, ResetError(ms)) /\ reqs \subseteq Owed(out)
    BY <1>1 DEF CleanReset
  <2>2. called = reqs
    BY <2>1
  <2> HIDE DEF called
  <2>3. \A r \in Ids : outcome'[r] = IF r \in called THEN ResetError(ms) ELSE out[r]
    BY <1>0, <2>1, CompleteOwed
  <2> QED
    BY <1>0, <2>1, <2>2, <2>3
<1>2. CASE FaultyReset(c, ms, reqs, out)
  <2>1. PICK called : m_requests' = reqs /\ outcome' = Complete(out, called, ResetError(ms))
    BY <1>2 DEF FaultyReset
  <2>2. \A r \in Ids : outcome'[r] = IF r \in called THEN ResetError(ms) ELSE out[r]
    BY <1>0, <2>1, CompleteOwed
  <2> QED
    BY <1>0, <2>1, <2>2
<1> QED
  BY <1>1, <1>2 DEF reset

LEMMA ContinueBooks ==
  ASSUME NEW c, NEW ms, NEW reqs \in SUBSET Ids, NEW out \in [Ids -> Outcomes],
         Continue(c, ms, reqs, out)
  PROVE  /\ m_requests' \subseteq reqs
         /\ \A r \in Ids : outcome'[r] = out[r] \/ outcome'[r] \notin {"idle", "issued"}
         /\ \A r \in reqs : r \in m_requests' \/ outcome'[r] # "issued"
  BY ResetBooks DEF Continue

\* A frame unregisters the request it completes.
LEMMA OnFrameBooks ==
  ASSUME Typed, Typed', Bookkept, OnFrame
  PROVE  Bookkept'
<1> DEFINE called == {FrameSync} \cap m_requests \cap Owed(outcome)
           how == IF io.msg = AuthRefused /\ AuthId \in called THEN "refused" ELSE "ok"
           rest == m_requests \ {FrameSync}
           out == Complete(outcome, called, how)
<1>0. m_requests \in SUBSET Ids /\ outcome \in [Ids -> Outcomes] /\ UNCHANGED posted
  BY DEF Typed, TypeOK, OnFrame
<1>1. how \in Outcomes \ {"issued"} /\ how \notin {"idle", "issued"}
  BY DEF Outcomes, Failures
<1>2. \/ Continue(conn, m_s, rest, out)
      \/ outcome' = out /\ m_requests' = rest
  BY DEF OnFrame
<1>3. FrameSync \in m_requests => FrameSync \in called \/ outcome[FrameSync] # "issued"
  BY <1>0 DEF Owed
<1>4. called \subseteq {FrameSync} /\ rest \in SUBSET Ids
  BY <1>0
<1> HIDE DEF called, how
<1>5. /\ out \in [Ids -> Outcomes]
      /\ \A r \in Ids : out[r] = IF r \in called THEN how ELSE outcome[r]
  BY <1>0, <1>1, CompleteOwed, CompleteType
<1> HIDE DEF out
<1>6. /\ m_requests' \subseteq rest
      /\ \A r \in Ids : outcome'[r] = out[r] \/ outcome'[r] \notin {"idle", "issued"}
      /\ \A r \in rest : r \in m_requests' \/ outcome'[r] # "issued"
  BY <1>2, <1>4, <1>5, ContinueBooks
<1>7. \A r \in Ids : outcome'[r] = outcome[r] \/ outcome'[r] \notin {"idle", "issued"}
  BY <1>1, <1>5, <1>6
<1>8. \A r \in m_requests : r \in m_requests' \/ outcome'[r] # "issued"
  BY <1>0, <1>1, <1>3, <1>5, <1>6
<1> QED
  BY <1>0, <1>6, <1>7, <1>8, BooksKept

LEMMA RunPostedBooks ==
  ASSUME Typed, Typed', Bookkept, RunPosted
  PROVE  Bookkept'
<1> DEFINE r == Head(posted)
<1>0. posted \in Seq(Ids \cup {StopLambda}) /\ posted # <<>> /\ posted' = Tail(posted)
  BY DEF RunPosted, Typed, TypeOK
<1>1. r \in Ids \cup {StopLambda} /\ r \in Queued /\ Queued = Queued' \cup {r}
  <2>1. \A i \in DOMAIN posted' : i + 1 \in DOMAIN posted /\ posted'[i] = posted[i + 1]
    BY <1>0
  <2>2. \A i \in DOMAIN posted : i = 1 \/ (i - 1 \in DOMAIN posted' /\ posted'[i - 1] = posted[i])
    BY <1>0
  <2>3. r = posted[1] /\ 1 \in DOMAIN posted
    BY <1>0
  <2>4. r \in Ids \cup {StopLambda}
    BY <1>0
  <2> HIDE DEF r
  <2>5. r \in Queued
    BY <2>3 DEF Queued
  <2>6. Queued' \subseteq Queued
    BY <2>1 DEF Queued
  <2>7. Queued \subseteq Queued' \cup {r}
    BY <2>2, <2>3 DEF Queued
  <2> QED
    BY <2>4, <2>5, <2>6, <2>7
<1>2. m_requests \subseteq Ids /\ outcome \in [Ids -> Outcomes] /\ StopLambda \notin Ids
  BY ReqsAssumption DEF Typed, TypeOK, Ids, StopLambda, AuthId, ReauthId
<1>3. NoRequestForgotten <=> Owed(outcome) \subseteq m_requests \cup Queued
  BY DEF NoRequestForgotten, Queued
<1>4. NoRequestForgotten' <=> Owed(outcome)' \subseteq m_requests' \cup Queued'
  BY DEF NoRequestForgotten, Queued
<1>5. CASE r = StopLambda
  <2>1. UNCHANGED <<m_requests, outcome>>
    BY <1>5 DEF RunPosted, Stopped
  <2> HIDE DEF r
  <2> QED
    BY <1>1, <1>2, <1>3, <1>4, <1>5, <2>1 DEF Bookkept, Issued, Owed
<1>6. CASE r # StopLambda /\ Accepted(r)
  <2>1. m_requests' = m_requests \cup {r} /\ UNCHANGED outcome
    BY <1>6 DEF Accepted
  <2> HIDE DEF r
  <2> QED
    BY <1>1, <1>2, <1>3, <1>4, <1>6, <2>1 DEF Bookkept, Issued, Owed
<1>7. CASE r # StopLambda /\ Refused(r)
  <2>1. /\ outcome' = [outcome EXCEPT ![r] = "not_connected"]
        /\ m_requests' \in {m_requests, m_requests \cup {r}}
    BY <1>7 DEF Refused
  <2> HIDE DEF r
  <2>2. \A q \in Ids : outcome'[q] = IF q = r THEN "not_connected" ELSE outcome[q]
    BY <1>2, <2>1
  <2>3. r \in Ids
    BY <1>1, <1>7
  <2>4. Issued'
    BY <1>1, <1>2, <2>1, <2>2, <2>3 DEF Bookkept, Issued
  <2>5. Owed(outcome)' \subseteq Owed(outcome) \ {r}
    BY <2>2 DEF Owed
  <2> QED
    BY <1>1, <1>3, <1>4, <2>1, <2>4, <2>5 DEF Bookkept
<1> QED
  BY <1>5, <1>6, <1>7 DEF RunPosted
-----------------------------------------------------------------------------
(* One lemma per group of handlers. *)

\* Steps that touch neither the requests nor m_s, and leave the loop where it is.
LEMMA QuietAgrees ==
  ASSUME Agree, io'.op = io.op,
         UNCHANGED <<m_s, m_requests, outcome, posted, owner, loop>>
  PROVE  Agree'
  BY DEF Agree, LoopAgrees, OwnerAgrees, LiveServed, Live, Owed

\* Moving on inside connect().
LEMMA ConnectingAgrees ==
  ASSUME Agree, io.op \in {"resolve", "connect", "hello"},
         io'.op \in {"resolve", "connect", "hello"},
         UNCHANGED <<m_s, m_requests, outcome, posted, owner, loop>>
  PROVE  Agree'
  BY DEF Agree, LoopAgrees, OwnerAgrees, LiveServed, Live, Owed

LEMMA ConnectErrorAgrees ==
  ASSUME Typed, Agree, ConnectError, io.op \in {"resolve", "connect", "hello"}
  PROVE  Agree'
<1>0. UNCHANGED posted
  BY DEF ConnectError
<1>1. CASE loop = "absent"
  <2>1. owner' = "gone" /\ io' = NoIo /\ UNCHANGED <<m_s, m_requests, outcome, loop>>
    BY <1>1 DEF ConnectError
  <2>2. outcome[AuthId] # "issued"
    BY <1>1, AuthIsId DEF Agree, LoopAgrees, Owed
  <2> QED
    BY <1>0, <1>1, <2>1, <2>2, IoOp DEF Agree, LoopAgrees, OwnerAgrees, LiveServed, Live, Owed
<1>2. CASE loop = "running" /\ Continue(conn, m_s, m_requests, outcome)
  <2>1. m_requests \cap Owed(outcome) = {}
    BY <1>2 DEF Agree, LiveServed, Live
  <2>2. m_s \in States /\ m_requests \in SUBSET Ids /\ outcome \in [Ids -> Outcomes]
    BY DEF Typed, TypeOK
  <2>3. /\ m_s = "Stopped" => owner = "gone"
        /\ outcome[AuthId] = "issued" => owner = "connect"
    BY DEF Agree, OwnerAgrees
  <2> QED
    BY <1>0, <1>2, <2>1, <2>2, <2>3, ContinueAgrees
<1> QED
  BY <1>1, <1>2 DEF ConnectError

LEMMA NextAddressAgrees ==
  ASSUME Typed, Agree, NextAddressOrError, io.op \in {"resolve", "connect", "hello"}
  PROVE  Agree'
<1>1. CASE TryNextAddress /\ UNCHANGED <<m_s, m_requests, outcome, posted, owner, loop>>
  <2>1. io'.op = "connect"
    BY <1>1, IoOp DEF TryNextAddress, IoOps
  <2> QED
    BY <1>1, <2>1, ConnectingAgrees
<1>2. CASE ConnectError
  BY <1>2, ConnectErrorAgrees
<1> QED
  BY <1>1, <1>2 DEF NextAddressOrError

LEMMA OnConnectedAgrees ==
  ASSUME Typed, Agree, OnConnected
  PROVE  Agree'
<1>0. io.op = "connect"
  BY DEF OnConnected, Done
<1>1. CASE NextAddressOrError
  BY <1>0, <1>1, NextAddressAgrees
<1>2. CASE AwaitHello /\ UNCHANGED connectorVars
  <2>1. io'.op = "hello"
    BY <1>2, IoOp DEF AwaitHello, IoOps
  <2> QED
    BY <1>0, <1>2, <2>1, ConnectingAgrees DEF connectorVars
<1>3. CASE ConnectThrows
  <2>1. io'.op = "none" /\ UNCHANGED <<m_s, m_requests, outcome, posted>>
    BY <1>3, IoOp DEF ConnectThrows
  <2>2. CASE loop = "absent"
    <3>1. owner' = "gone" /\ UNCHANGED loop
      BY <1>3, <2>2 DEF ConnectThrows
    <3>2. outcome[AuthId] # "issued"
      BY <2>2, AuthIsId DEF Agree, LoopAgrees, Owed
    <3> QED
      BY <2>1, <2>2, <3>1, <3>2 DEF Agree, LoopAgrees, OwnerAgrees, LiveServed, Live, Owed
  <2>3. CASE loop # "absent"
    <3>1. loop' = "escaped" /\ UNCHANGED owner
      BY <1>3, <2>3 DEF ConnectThrows
    <3>2. loop = "running"
      BY <1>0, <2>3 DEF Agree, LoopAgrees, Typed, TypeOK, Loops
    <3>3. m_s # "Connected" /\ Live = {}
      BY <1>0, <3>2 DEF Agree, LoopAgrees, LiveServed
    <3> QED
      BY <2>1, <3>1, <3>3 DEF Agree, LoopAgrees, OwnerAgrees, LiveServed, Live, Owed
  <2> QED
    BY <2>2, <2>3
<1> QED
  BY <1>1, <1>2, <1>3 DEF OnConnected

LEMMA OnHelloAgrees ==
  ASSUME Typed, Agree, OnHello
  PROVE  Agree'
<1>0. io.op = "hello"
  BY DEF OnHello, Done
<1>1. CASE NextAddressOrError
  BY <1>0, <1>1, NextAddressAgrees
<1>2. CASE loop = "absent" /\ ConnectorCreated
  <2>1. /\ loop' = "running" /\ io'.op = "spawned"
        /\ UNCHANGED <<m_s, m_requests>>
    BY <1>2, IoOp DEF ConnectorCreated, IoOps
  <2>2. /\ m_s = "Connected" /\ m_requests = {} /\ posted = <<>> /\ Owed(outcome) = {}
        /\ outcome[AuthId] # "issued"
    BY <1>2, AuthIsId DEF Agree, LoopAgrees, Owed
  <2>3. LoopAgrees' /\ LiveServed'
    BY <2>1, <2>2 DEF LoopAgrees, LiveServed
  <2>4. CASE Creds
    <3>1. /\ owner' = "connect" /\ posted' = Append(posted, AuthId)
          /\ outcome' = [outcome EXCEPT ![AuthId] = "issued"]
      BY <1>2, <2>4 DEF ConnectorCreated
    <3>2. \A i \in DOMAIN posted' : posted'[i] = AuthId
      BY <2>2, <3>1
    <3>3. Owed(outcome)' \subseteq {AuthId}
      BY <2>2, <3>1 DEF Owed, Typed, TypeOK
    <3> QED
      BY <2>1, <2>2, <2>3, <3>1, <3>2, <3>3 DEF Agree, OwnerAgrees, AuthId, StopLambda
  <2>5. CASE ~Creds
    <3>1. owner' = "user" /\ UNCHANGED <<outcome, posted>>
      BY <1>2, <2>5 DEF ConnectorCreated
    <3>2. \A i \in DOMAIN posted : posted[i] # StopLambda
      BY <2>2
    <3> QED
      BY <2>1, <2>2, <2>3, <3>1, <3>2 DEF Agree, OwnerAgrees
  <2> QED
    BY <2>4, <2>5
<1>3. CASE loop = "running" /\ (LoopEndsUnlocked \/ LoopReconnected \/ LoopReauthRefused)
  <2>1. m_s # "Connected" /\ Live = {}
    BY <1>0, <1>3 DEF Agree, LoopAgrees, LiveServed
  <2>2. CASE LoopEndsUnlocked
    <3>1. /\ loop' = "finished" /\ io'.op = "none"
          /\ UNCHANGED <<m_s, m_requests, outcome, posted, owner>>
      BY <2>2, IoOp DEF LoopEndsUnlocked
    <3> QED
      BY <2>1, <3>1 DEF Agree, LoopAgrees, OwnerAgrees, LiveServed, Live, Owed
  <2>3. CASE LoopReconnected
    <3>1. /\ m_s' = "Connected" /\ io'.op = "read"
          /\ UNCHANGED <<m_requests, outcome, posted, owner, loop>>
      BY <2>3, ReceiveType DEF LoopReconnected
    <3>2. owner # "gone"
      BY <2>3 DEF LoopReconnected
    <3> QED
      BY <1>3, <3>1, <3>2 DEF Agree, LoopAgrees, OwnerAgrees, LiveServed, Owed
  <2>4. CASE LoopReauthRefused
    <3>1. /\ io'.op = "resolve"
          /\ outcome' = [outcome EXCEPT ![ReauthId] = "not_connected"]
          /\ m_requests' = m_requests \cup {ReauthId}
          /\ UNCHANGED <<m_s, posted, owner, loop>>
      BY <2>4, IoOp DEF LoopReauthRefused
    <3>2. outcome'[AuthId] = outcome[AuthId]
      BY <3>1, AuthIsId DEF Typed, TypeOK
    <3>3. Live' = {}
      BY <2>1, <3>1, AuthIsId DEF Live, Owed, Typed, TypeOK
    <3>4. Owed(outcome)' \subseteq Owed(outcome)
      BY <3>1, AuthIsId DEF Owed, Typed, TypeOK
    <3> QED
      BY <1>3, <2>1, <3>1, <3>2, <3>3, <3>4 DEF Agree, LoopAgrees, OwnerAgrees, LiveServed
  <2> QED
    BY <1>3, <2>2, <2>3, <2>4
<1> QED
  BY <1>1, <1>2, <1>3 DEF OnHello

LEMMA LoopStepAgrees ==
  ASSUME Typed, Agree, LoopStart \/ OnReadError
  PROVE  Agree'
<1>0. io.op \in {"spawned", "read"} /\ UNCHANGED posted
  BY DEF LoopStart, OnReadError, Done
<1>1. loop = "running" /\ m_s # "Connecting"
  BY <1>0 DEF Agree, LoopAgrees, Typed, TypeOK, Loops
<1>2. m_s \in States /\ m_requests \in SUBSET Ids /\ outcome \in [Ids -> Outcomes]
  BY DEF Typed, TypeOK
<1>3. /\ m_s = "Stopped" => owner = "gone"
      /\ outcome[AuthId] = "issued" => owner = "connect"
  BY DEF Agree, OwnerAgrees
<1> QED
  BY <1>0, <1>1, <1>2, <1>3, ContinueAgrees, ResetAgrees DEF LoopStart, OnReadError

LEMMA OnFrameAgrees ==
  ASSUME Typed, Agree, OnFrame
  PROVE  Agree'
<1> DEFINE called == {FrameSync} \cap m_requests \cap Owed(outcome)
           failed == io.msg = AuthRefused /\ AuthId \in called
           how == IF failed THEN "refused" ELSE "ok"
           rest == m_requests \ {FrameSync}
           out == Complete(outcome, called, how)
<1>0. io.op = "read" /\ UNCHANGED posted
  BY DEF OnFrame, Done
<1>1. loop = "running" /\ m_s # "Connecting"
  BY <1>0 DEF Agree, LoopAgrees, Typed, TypeOK, Loops
<1>2. m_s \in States /\ rest \in SUBSET Ids /\ outcome \in [Ids -> Outcomes]
  BY DEF Typed, TypeOK
<1>3. how \in Outcomes \ {"issued"}
  BY DEF Outcomes, Failures
<1>4. \/ AuthId \notin called /\ Continue(conn, m_s, rest, out)
      \/ /\ AuthId \in called
         /\ owner' = IF failed THEN "gone" ELSE "user"
         /\ m_s' = IF failed THEN "Stopped" ELSE m_s
         /\ outcome' = out
         /\ m_requests' = rest
         /\ IF failed THEN loop' = "finished" /\ io' = NoIo
                      ELSE io' = receive_message /\ UNCHANGED loop
  BY DEF OnFrame
<1>5. AuthId \in called => FrameSync = AuthId /\ outcome[AuthId] = "issued"
  BY DEF Owed
<1> HIDE DEF called, how
<1>6. /\ out \in [Ids -> Outcomes]
      /\ Owed(out) = Owed(outcome) \ called
      /\ out[AuthId] = IF AuthId \in called THEN how ELSE outcome[AuthId]
  BY <1>2, <1>3, AuthIsId, CompleteType, CompleteOwed
<1> HIDE DEF out, rest, failed
<1>7. CASE AuthId \notin called /\ Continue(conn, m_s, rest, out)
  <2>1. /\ m_s = "Stopped" => owner = "gone"
        /\ out[AuthId] = "issued" => owner = "connect"
    BY <1>6, <1>7 DEF Agree, OwnerAgrees
  <2> QED
    BY <1>0, <1>1, <1>2, <1>6, <1>7, <2>1, ContinueAgrees
<1>8. CASE /\ AuthId \in called
           /\ owner' = IF failed THEN "gone" ELSE "user"
           /\ m_s' = IF failed THEN "Stopped" ELSE m_s
           /\ outcome' = out
           /\ m_requests' = rest
           /\ IF failed THEN loop' = "finished" /\ io' = NoIo
                        ELSE io' = receive_message /\ UNCHANGED loop
  <2>1. owner = "connect" /\ m_s # "Stopped"
    BY <1>5, <1>8 DEF Agree, OwnerAgrees
  <2>2. \A i \in DOMAIN posted : posted[i] # StopLambda
    BY <2>1 DEF Agree, OwnerAgrees
  <2>3. outcome'[AuthId] # "issued"
    BY <1>3, <1>6, <1>8
  <2>4. OwnerAgrees'
    <3>1. owner' \in {"gone", "user"} /\ (m_s' = "Stopped" => owner' = "gone")
      BY <1>8, <2>1
    <3> QED
      BY <1>0, <2>2, <2>3, <3>1 DEF OwnerAgrees
  <2>5. CASE failed
    <3>1. loop' = "finished" /\ io'.op = "none" /\ m_s' = "Stopped"
      BY <1>8, <2>5, IoOp
    <3>2. Live' = {}
      <4>1. Owed(outcome') \subseteq Owed(outcome) \ {AuthId}
        BY <1>6, <1>8
      <4>2. Owed(outcome') = {}
        BY <2>1, <4>1 DEF Agree, OwnerAgrees
      <4> QED
        BY <4>2 DEF Live, Owed
    <3> QED
      BY <2>4, <3>1, <3>2 DEF Agree, LoopAgrees, LiveServed
  <2>6. CASE ~failed
    <3>1. io'.op = "read" /\ loop' = "running"
      BY <1>1, <1>8, <2>6, ReceiveType
    <3> QED
      BY <1>1, <1>8, <2>4, <2>6, <3>1 DEF Agree, LoopAgrees, LiveServed
  <2> QED
    BY <2>5, <2>6
<1> QED
  BY <1>4, <1>7, <1>8

LEMMA RunPostedAgrees ==
  ASSUME Typed, Agree, RunPosted
  PROVE  Agree'
<1> DEFINE r == Head(posted)
<1>0. /\ posted \in Seq(Ids \cup {StopLambda}) /\ posted # <<>> /\ posted' = Tail(posted)
      /\ UNCHANGED loop
  BY DEF RunPosted, Typed, TypeOK
<1>1. r \in Ids \cup {StopLambda} /\ r = posted[1] /\ 1 \in DOMAIN posted
  BY <1>0
<1>2. loop # "absent"
  BY <1>0 DEF Agree, LoopAgrees
<1>3. (\E i \in DOMAIN posted : posted[i] = StopLambda)' => owner = "gone"
  <2>1. \A i \in DOMAIN posted' : i + 1 \in DOMAIN posted /\ posted'[i] = posted[i + 1]
    BY <1>0
  <2> QED
    BY <2>1 DEF Agree, OwnerAgrees
<1>4. CASE r = StopLambda
  <2>1. owner = "gone"
    BY <1>1, <1>4 DEF Agree, OwnerAgrees
  <2>2. m_s' = "Stopped" /\ io' = Cancelled(io) /\ UNCHANGED <<m_requests, outcome, owner>>
    BY <1>4 DEF RunPosted, Stopped
  <2>3. io'.op = io.op
    BY <2>2, CancelledType DEF Typed, TypeOK
  <2>4. LoopAgrees' /\ LiveServed'
    BY <1>0, <1>2, <2>2, <2>3 DEF Agree, LoopAgrees, LiveServed, Live, Owed
  <2>5. OwnerAgrees'
    BY <2>1, <2>2 DEF Agree, OwnerAgrees, Owed
  <2> QED
    BY <2>4, <2>5 DEF Agree
<1>5. CASE r # StopLambda /\ Accepted(r)
  <2>1. /\ m_s = "Connected" /\ m_requests' = m_requests \cup {r}
        /\ UNCHANGED <<io, m_s, outcome, owner>>
    BY <1>5 DEF Accepted
  <2>2. loop = "running" /\ io.op \in {"spawned", "read"}
    BY <1>2, <2>1 DEF Agree, LoopAgrees, Typed, TypeOK, Loops
  <2>3. LoopAgrees' /\ LiveServed'
    BY <1>0, <2>1, <2>2 DEF LoopAgrees, LiveServed
  <2>4. OwnerAgrees'
    BY <1>3, <2>1 DEF Agree, OwnerAgrees, Owed
  <2> QED
    BY <2>3, <2>4 DEF Agree
<1>6. CASE r # StopLambda /\ Refused(r)
  <2>1. /\ m_s # "Connected"
        /\ outcome' = [outcome EXCEPT ![r] = "not_connected"]
        /\ owner' = IF r = AuthId THEN "gone" ELSE owner
        /\ m_s' = IF r = AuthId THEN "Stopped" ELSE m_s
        /\ io' \in {io, Cancelled(io)}
        /\ m_requests' \in {m_requests, m_requests \cup {r}}
    BY <1>6 DEF Refused, AuthFailed
  <2>2. io'.op = io.op
    BY <2>1, CancelledType DEF Typed, TypeOK
  <2>3. r \in Ids
    BY <1>1, <1>6
  <2> HIDE DEF r
  <2>4. Owed(outcome)' = Owed(outcome) \ {r}
    BY <2>1, <2>3 DEF Owed, Typed, TypeOK
  <2>5. Live' \subseteq Live
    BY <2>1, <2>4 DEF Live
  <2>6. LiveServed'
    BY <1>0, <2>2, <2>5 DEF LiveServed, Agree
  <2>7. LoopAgrees'
    BY <1>0, <1>2, <2>1, <2>2 DEF Agree, LoopAgrees
  <2>8. outcome'[AuthId] = "issued" => r # AuthId /\ outcome[AuthId] = "issued"
    BY <2>1, AuthIsId DEF Typed, TypeOK
  <2>9. OwnerAgrees'
    BY <1>3, <2>1, <2>4, <2>8 DEF Agree, OwnerAgrees
  <2> QED
    BY <2>6, <2>7, <2>9 DEF Agree
<1> QED
  BY <1>4, <1>5, <1>6 DEF RunPosted

LEMMA UserAgrees ==
  ASSUME Typed, Agree, Issued, DropConnector \/ \E r \in Reqs : Call(r)
  PROVE  Agree'
<1>0. owner = "user" /\ UNCHANGED <<io, m_s, m_requests, loop>>
  BY DEF DropConnector, Call
<1>1. /\ loop # "absent" /\ m_s # "Stopped" /\ outcome[AuthId] # "issued"
      /\ \A i \in DOMAIN posted : posted[i] # StopLambda
  BY <1>0 DEF Agree, LoopAgrees, OwnerAgrees
<1>2. posted \in Seq(Ids \cup {StopLambda})
  BY DEF Typed, TypeOK
<1>3. CASE DropConnector
  <2>1. owner' = "gone" /\ UNCHANGED outcome
    BY <1>3 DEF DropConnector
  <2> QED
    BY <1>0, <1>1, <2>1 DEF Agree, LoopAgrees, OwnerAgrees, LiveServed, Live, Owed
<1>4. ASSUME NEW r \in Reqs, Call(r)
      PROVE  Agree'
  <2>1. /\ outcome[r] = "idle" /\ outcome' = [outcome EXCEPT ![r] = "issued"]
        /\ posted' = Append(posted, r) /\ UNCHANGED owner
    BY <1>4 DEF Call
  <2>2. r \in Ids /\ r # AuthId /\ r # StopLambda
    BY ReqsAssumption DEF Ids
  <2>3. r \notin m_requests
    BY <2>1 DEF Issued
  <2>4. Live' = Live
    BY <1>0, <2>1, <2>2, <2>3 DEF Live, Owed, Typed, TypeOK
  <2>5. \A i \in DOMAIN posted' : posted'[i] # StopLambda
    BY <1>1, <1>2, <2>1, <2>2
  <2>6. outcome'[AuthId] # "issued"
    BY <1>1, <2>1, <2>2 DEF Typed, TypeOK
  <2> QED
    BY <1>0, <1>1, <2>1, <2>4, <2>5, <2>6 DEF Agree, LoopAgrees, OwnerAgrees, LiveServed
<1> QED
  BY <1>3, <1>4

LEMMA NetAgrees ==
  ASSUME Typed, Agree, Net \/ NetReply \/ NetEvent
  PROVE  Agree'
<1>1. UNCHANGED <<m_s, m_requests, outcome, posted, owner, loop>>
  BY DEF Net, NetReply, NetEvent, connectorVars
<1>2. io'.op = io.op
  BY DEF Net, NetReply, NetEvent, NetResolve, NetConnect, NetHello, NetBreak, NetReceive,
         NetReadError, NetTransfer, NetWriteFail, Typed, TypeOK, Ios
<1> QED
  BY <1>1, <1>2, QuietAgrees

LEMMA AgreeStep ==
  ASSUME Typed, Agree, Issued, [Next]_vars
  PROVE  Agree'
<1>1. CASE OnResolved
  BY <1>1, NextAddressAgrees, ConnectErrorAgrees DEF OnResolved, Done
<1>2. CASE OnConnected
  BY <1>2, OnConnectedAgrees
<1>3. CASE OnHello
  BY <1>3, OnHelloAgrees
<1>4. CASE LoopStart \/ OnReadError
  BY <1>4, LoopStepAgrees
<1>5. CASE OnFrame
  BY <1>5, OnFrameAgrees
<1>6. CASE DataSent
  <2>1. io'.op = io.op
    BY <1>6, CancelledType DEF DataSent, Typed, TypeOK
  <2> QED
    BY <1>6, <2>1, QuietAgrees DEF DataSent, connectorVars
<1>7. CASE RunPosted
  BY <1>7, RunPostedAgrees
<1>8. CASE DropConnector \/ \E r \in Reqs : Call(r)
  BY <1>8, UserAgrees
<1>9. CASE Net \/ NetReply \/ NetEvent
  BY <1>9, NetAgrees
<1>10. CASE UNCHANGED vars
  BY <1>10, QuietAgrees DEF vars
<1> QED
  BY <1>1, <1>2, <1>3, <1>4, <1>5, <1>6, <1>7, <1>8, <1>9, <1>10 DEF Next, Strand, Terminated
-----------------------------------------------------------------------------
(* The books, step by step. *)

\* Issuing a request queues it.
LEMMA IssueBooks ==
  ASSUME Typed, Bookkept, NEW r \in Ids, posted' = Append(posted, r),
         outcome' = [outcome EXCEPT ![r] = "issued"], UNCHANGED m_requests
  PROVE  Bookkept'
<1>1. /\ posted \in Seq(Ids \cup {StopLambda}) /\ outcome \in [Ids -> Outcomes]
      /\ m_requests \subseteq Ids
  BY DEF Typed, TypeOK
<1>2. \A i \in DOMAIN posted : i \in DOMAIN posted' /\ posted'[i] = posted[i]
  BY <1>1
<1>3. Len(posted) + 1 \in DOMAIN posted' /\ posted'[Len(posted) + 1] = r
  BY <1>1
<1>4. \A i \in DOMAIN posted' : posted'[i] = r \/ (i \in DOMAIN posted /\ posted'[i] = posted[i])
  BY <1>1
<1>5. \A q \in Ids : outcome'[q] = IF q = r THEN "issued" ELSE outcome[q]
  BY <1>1
<1>6. Queued' \subseteq Queued \cup {r}
  BY <1>4 DEF Queued
<1>7. Issued'
  BY <1>1, <1>5, <1>6 DEF Bookkept, Issued
<1>8. \A q \in Owed(outcome)' : q = r \/ q \in Owed(outcome)
  BY <1>5 DEF Owed
<1>9. NoRequestForgotten'
  BY <1>2, <1>3, <1>8 DEF Bookkept, NoRequestForgotten
<1> QED
  BY <1>7, <1>9 DEF Bookkept

\* Queueing the destructor's lambda changes nothing.
LEMMA DropBooks ==
  ASSUME Typed, Bookkept, DropConnector
  PROVE  Bookkept'
<1>1. /\ posted \in Seq(Ids \cup {StopLambda}) /\ StopLambda \notin Ids
      /\ posted' = Append(posted, StopLambda) /\ UNCHANGED <<m_requests, outcome>>
  BY ReqsAssumption DEF Typed, TypeOK, DropConnector, Ids, StopLambda, AuthId, ReauthId
<1>2. \A i \in DOMAIN posted : i \in DOMAIN posted' /\ posted'[i] = posted[i]
  BY <1>1
<1>3. \A i \in DOMAIN posted' :
        posted'[i] = StopLambda \/ (i \in DOMAIN posted /\ posted'[i] = posted[i])
  BY <1>1
<1>4. Queued' \cap Ids \subseteq Queued
  BY <1>1, <1>3 DEF Queued
<1>5. Issued'
  BY <1>1, <1>4 DEF Bookkept, Issued
<1>6. NoRequestForgotten'
  BY <1>1, <1>2 DEF Bookkept, NoRequestForgotten, Owed
<1> QED
  BY <1>5, <1>6 DEF Bookkept

\* Steps that touch no request.
LEMMA QuietBooks ==
  ASSUME Bookkept, UNCHANGED <<m_requests, outcome, posted>>
  PROVE  Bookkept'
  BY DEF Bookkept, Issued, Queued, NoRequestForgotten, Owed

\* Going round the loop, or resetting, with the requests as they are.
LEMMA LoopBooks ==
  ASSUME Typed, Typed', Bookkept, UNCHANGED posted,
         \/ Continue(conn, m_s, m_requests, outcome)
         \/ reset(conn, m_s, m_requests, outcome)
  PROVE  Bookkept'
<1>1. m_requests \in SUBSET Ids /\ outcome \in [Ids -> Outcomes]
  BY DEF Typed, TypeOK
<1>2. /\ m_requests' \subseteq m_requests
      /\ \A r \in Ids : outcome'[r] = outcome[r] \/ outcome'[r] \notin {"idle", "issued"}
      /\ \A r \in m_requests : r \in m_requests' \/ outcome'[r] # "issued"
  BY <1>1, ContinueBooks, ResetBooks
<1> QED
  BY <1>2, BooksKept

LEMMA NextAddressBooks ==
  ASSUME Typed, Typed', Bookkept, NextAddressOrError \/ ConnectError
  PROVE  Bookkept'
<1>1. CASE ConnectError
  BY <1>1, QuietBooks, LoopBooks DEF ConnectError
<1>2. CASE UNCHANGED <<m_requests, outcome, posted>>
  BY <1>2, QuietBooks
<1> QED
  BY <1>1, <1>2 DEF NextAddressOrError

LEMMA OnHelloBooks ==
  ASSUME Typed, Typed', Bookkept, OnHello
  PROVE  Bookkept'
<1>1. CASE NextAddressOrError
  BY <1>1, NextAddressBooks
<1>2. CASE ConnectorCreated
  BY <1>2, AuthIsId, IssueBooks, QuietBooks DEF ConnectorCreated
<1>3. CASE LoopEndsUnlocked \/ LoopReconnected
  BY <1>3, QuietBooks DEF LoopEndsUnlocked, LoopReconnected
<1>4. CASE LoopReauthRefused
  <2>1. /\ outcome' = [outcome EXCEPT ![ReauthId] = "not_connected"]
        /\ m_requests' = m_requests \cup {ReauthId} /\ UNCHANGED posted
    BY <1>4 DEF LoopReauthRefused
  <2>2. \A r \in Ids : outcome'[r] = IF r = ReauthId THEN "not_connected" ELSE outcome[r]
    BY <2>1 DEF Typed, TypeOK
  <2> QED
    BY <2>1, <2>2, AuthIsId, BooksKept
<1> QED
  BY <1>1, <1>2, <1>3, <1>4 DEF OnHello

LEMMA BookStep ==
  ASSUME Typed, Typed', Bookkept, [Next]_vars
  PROVE  Bookkept'
<1>1. CASE OnResolved
  BY <1>1, NextAddressBooks DEF OnResolved
<1>2. CASE OnConnected
  BY <1>2, NextAddressBooks, QuietBooks DEF OnConnected, ConnectThrows, connectorVars
<1>3. CASE OnHello
  BY <1>3, OnHelloBooks
<1>4. CASE LoopStart \/ OnReadError
  BY <1>4, LoopBooks DEF LoopStart, OnReadError
<1>5. CASE OnFrame
  BY <1>5, OnFrameBooks
<1>6. CASE DataSent \/ Net \/ NetReply \/ NetEvent
  BY <1>6, QuietBooks DEF DataSent, Net, NetReply, NetEvent, connectorVars
<1>7. CASE RunPosted
  BY <1>7, RunPostedBooks
<1>8. CASE DropConnector
  BY <1>8, DropBooks
<1>9. ASSUME NEW r \in Reqs, Call(r) PROVE Bookkept'
  BY <1>9, IssueBooks DEF Call, Ids
<1>10. CASE UNCHANGED vars
  BY <1>10, QuietBooks DEF vars
<1> QED
  BY <1>1, <1>2, <1>3, <1>4, <1>5, <1>6, <1>7, <1>8, <1>9, <1>10 DEF Next, Strand, Terminated
-----------------------------------------------------------------------------
(* The theorems. *)

Safe == Typed /\ Bookkept /\ Agree

LEMMA InitSafe == Init => Bookkept /\ Agree
<1> SUFFICES ASSUME Init PROVE Bookkept /\ Agree
  OBVIOUS
<1>1. /\ m_requests = {} /\ posted = <<>> /\ m_s = "Connected" /\ owner = "unborn"
      /\ loop = "absent" /\ io.op = "resolve"
  BY IoOp DEF Init
<1>2. outcome = [r \in Ids |-> "idle"]
  BY DEF Init
<1>3. Owed(outcome) = {} /\ outcome[AuthId] = "idle"
  BY <1>2, AuthIsId DEF Owed
<1>4. Bookkept
  BY <1>1, <1>3 DEF Bookkept, Issued, Queued, NoRequestForgotten
<1>5. Agree
  BY <1>1, <1>3 DEF Agree, LoopAgrees, OwnerAgrees, LiveServed, Live
<1> QED
  BY <1>4, <1>5

\* The inductive invariant: the state is typed, the books are kept, and the loop, the
\* owner and the registered requests agree.
THEOREM ConnectorSafe == Spec => []Safe
<1>1. Init => Bookkept /\ Agree
  BY InitSafe
<1>2. Typed /\ Typed' /\ Bookkept /\ Agree /\ [Next]_vars => Bookkept' /\ Agree'
  BY BookStep, AgreeStep DEF Bookkept
<1>3. Spec => []Typed
  BY ConnectorTyped
<1> QED
  BY <1>1, <1>2, <1>3, PTL DEF Spec, Safe

\* No interleaving of replies, resets, refusals and reconnects drops a request whose
\* handler is owed: it is queued on the strand or registered in m_requests.
THEOREM NothingForgotten == Spec => []NoRequestForgotten
<1>1. Safe => NoRequestForgotten
  BY DEF Safe, Bookkept
<1> QED
  BY <1>1, ConnectorSafe, PTL

\* A registered live request has a loop that reads the connection it was sent on.
THEOREM LiveRequestsServed == Spec => []LiveServed
<1>1. Safe => LiveServed
  BY DEF Safe, Agree
<1> QED
  BY <1>1, ConnectorSafe, PTL

\* Requests are accepted (m_s = Connected) only while somebody reads their answers.
THEOREM ReaderWhileConnected == Spec => []ConnectedHasReader
<1>1. Safe => ConnectedHasReader
  BY DEF Safe, Agree, LoopAgrees, ConnectedHasReader, Typed, TypeOK, Loops
<1> QED
  BY <1>1, ConnectorSafe, PTL

\* No handler takes m_s out of Stopped.  The only one that sets it to Connected finds, in
\* a weak pointer that still locks, that the Connector has not been destroyed.
LEMMA StoppedStays ==
  ASSUME Safe, [Next]_vars, m_s = "Stopped"
  PROVE  m_s' = "Stopped"
<1>0. owner = "gone"
  BY DEF Safe, Agree, OwnerAgrees
<1>1. ASSUME NEW c, NEW reqs, NEW out, Continue(c, m_s, reqs, out) \/ reset(c, m_s, reqs, out)
      PROVE  m_s' = "Stopped"
  BY <1>1 DEF Continue, reset, CleanReset, FaultyReset, StateAfterReset
<1>2. ASSUME NextAddressOrError \/ ConnectError
      PROVE  m_s' = "Stopped"
  BY <1>1, <1>2 DEF NextAddressOrError, ConnectError
<1>3. CASE OnResolved \/ OnConnected
  BY <1>2, <1>3 DEF OnResolved, OnConnected, ConnectThrows, connectorVars
<1>4. CASE OnHello
  BY <1>0, <1>2, <1>4 DEF OnHello, ConnectorCreated, LoopEndsUnlocked, LoopReconnected,
                          LoopReauthRefused
<1>5. CASE LoopStart \/ OnReadError
  BY <1>1, <1>5 DEF LoopStart, OnReadError
<1>6. CASE OnFrame
  BY <1>1, <1>6 DEF OnFrame
<1>7. CASE RunPosted
  BY <1>7 DEF RunPosted, Stopped, Accepted, Refused
<1>8. CASE DataSent \/ Net \/ NetReply \/ NetEvent
  BY <1>8 DEF DataSent, Net, NetReply, NetEvent, connectorVars
<1>9. CASE DropConnector \/ (\E r \in Reqs : Call(r)) \/ UNCHANGED vars
  BY <1>9 DEF DropConnector, Call, vars
<1> QED
  BY <1>3, <1>4, <1>5, <1>6, <1>7, <1>8, <1>9 DEF Next, Strand, Terminated

\* Once the Connector is stopped it stays stopped, a reconnect under way or not.
THEOREM StopIsFinal == Spec => StoppedIsFinal
<1>1. Safe /\ [Next]_vars => [m_s = "Stopped" => m_s' = "Stopped"]_vars
  BY StoppedStays
<1> QED
  BY <1>1, ConnectorSafe, PTL DEF Spec, StoppedIsFinal
=============================================================================
