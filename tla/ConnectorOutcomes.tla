------------------------- MODULE ConnectorOutcomes -------------------------
(***************************************************************************)
(* What becomes of the requests of a Connector, for every value of the     *)
(* constants: handlers are called at most once, the loop dies of a known   *)
(* cause, Connected means authenticated, and no request is lost without a  *)
(* trace that makes the loop notice.                                       *)
(***************************************************************************)
EXTENDS ConnectorSafety, SendPathRefinement

-----------------------------------------------------------------------------
(* Handlers are called at most once. *)

\* What is queued on the strand is queued once, is owed, and is not yet registered.
QueuedOnce ==
    /\ \A i, j \in DOMAIN posted : posted[i] = posted[j] => i = j
    /\ \A i \in DOMAIN posted :
          posted[i] # StopLambda => posted[i] \in Owed(outcome) \ m_requests
    /\ outcome[ReauthId] # "issued"

\* The auth request is made when the loop is spawned.
AuthUnasked == loop = "absent" => outcome[AuthId] = "idle"

\* A step that changes the outcome of requests only by completing registered, live ones.
CompletesRegistered ==
    \A r \in Ids \ {ReauthId} :
        outcome'[r] = outcome[r] \/ (r \in m_requests /\ outcome[r] = "issued")

\* Such a step, if it queues nothing and registers nothing of the users'.
LEMMA OnceKept ==
  ASSUME Typed, QueuedOnce, CompletesRegistered, UNCHANGED posted,
         m_requests' \subseteq m_requests \cup {ReauthId}, outcome'[ReauthId] # "issued"
  PROVE  QueuedOnce'
<1>1. \A i \in DOMAIN posted :
        posted[i] # StopLambda => posted[i] \in Ids \ {ReauthId} /\ posted[i] \notin m_requests
  BY DEF QueuedOnce, Owed
<1>2. \A i \in DOMAIN posted : posted[i] # StopLambda => posted[i] \in Owed(outcome)' \ m_requests'
  BY <1>1 DEF QueuedOnce, Owed, CompletesRegistered
<1> QED
  BY <1>2 DEF QueuedOnce

\* Handlers that touch no request.
LEMMA QuietOnce ==
  ASSUME QueuedOnce, UNCHANGED <<m_requests, outcome, posted>>
  PROVE  QueuedOnce' /\ CompletesRegistered
  BY DEF QueuedOnce, Owed, CompletesRegistered

\* reset() calls the handlers of live entries only: those it has moved from are empty.
LEMMA ResetCalls ==
  ASSUME NEW c, NEW ms, NEW reqs \in SUBSET Ids, NEW out \in [Ids -> Outcomes],
         reset(c, ms, reqs, out)
  PROVE  /\ m_requests' \subseteq reqs
         /\ \A r \in Ids : outcome'[r] = out[r]
                              \/ (r \in reqs /\ out[r] = "issued" /\ outcome'[r] # "issued")
<1>0. ResetError(ms) \in Outcomes \ {"issued"}
  BY DEF ResetError, Outcomes, Failures
<1>1. PICK called \in SUBSET (reqs \cap Owed(out)) :
        /\ outcome' = Complete(out, called, ResetError(ms))
        /\ m_requests' \subseteq reqs
  <2>1. CASE CleanReset(c, ms, reqs, out)
    BY <2>1 DEF CleanReset
  <2>2. CASE FaultyReset(c, ms, reqs, out)
    <3>1. PICK t \in reqs, visited \in SUBSET (reqs \cap Owed(out)) :
            /\ outcome' = Complete(out, visited \cup ({t} \cap Owed(out)), ResetError(ms))
            /\ m_requests' = reqs
      BY <2>2 DEF FaultyReset
    <3>2. visited \cup ({t} \cap Owed(out)) \in SUBSET (reqs \cap Owed(out))
      OBVIOUS
    <3> QED
      BY <3>1, <3>2
  <2> QED
    BY <2>1, <2>2 DEF reset
<1>2. \A r \in Ids : outcome'[r] = IF r \in called THEN ResetError(ms) ELSE out[r]
  BY <1>0, <1>1, CompleteOwed
<1> QED
  BY <1>0, <1>1, <1>2 DEF Owed

LEMMA ContinueCalls ==
  ASSUME NEW c, NEW ms, NEW reqs \in SUBSET Ids, NEW out \in [Ids -> Outcomes],
         Continue(c, ms, reqs, out)
  PROVE  /\ m_requests' \subseteq reqs
         /\ \A r \in Ids : outcome'[r] = out[r]
                              \/ (r \in reqs /\ out[r] = "issued" /\ outcome'[r] # "issued")
  BY ResetCalls DEF Continue

\* Going round the loop, or resetting, with the requests as they are.
LEMMA LoopOnce ==
  ASSUME Typed, QueuedOnce, UNCHANGED posted,
         \/ Continue(conn, m_s, m_requests, outcome)
         \/ reset(conn, m_s, m_requests, outcome)
  PROVE  QueuedOnce' /\ CompletesRegistered
<1>1. m_requests \in SUBSET Ids /\ outcome \in [Ids -> Outcomes] /\ ReauthId \in Ids
  BY AuthIsId DEF Typed, TypeOK
<1>2. /\ m_requests' \subseteq m_requests
      /\ \A r \in Ids : outcome'[r] = outcome[r]
            \/ (r \in m_requests /\ outcome[r] = "issued" /\ outcome'[r] # "issued")
  BY <1>1, ContinueCalls, ResetCalls
<1>3. CompletesRegistered /\ outcome'[ReauthId] # "issued"
  BY <1>1, <1>2 DEF CompletesRegistered, QueuedOnce
<1> QED
  BY <1>2, <1>3, OnceKept

LEMMA NextAddressOnce ==
  ASSUME Typed, QueuedOnce, NextAddressOrError \/ ConnectError
  PROVE  QueuedOnce' /\ CompletesRegistered
<1>1. CASE ConnectError
  BY <1>1, QuietOnce, LoopOnce DEF ConnectError
<1>2. CASE UNCHANGED <<m_requests, outcome, posted>>
  BY <1>2, QuietOnce
<1> QED
  BY <1>1, <1>2 DEF NextAddressOrError

\* The answer to a request: its handler is called unless it is empty already.
LEMMA OnFrameOnce ==
  ASSUME Typed, QueuedOnce, OnFrame
  PROVE  QueuedOnce' /\ CompletesRegistered
<1> DEFINE called == {FrameSync} \cap m_requests \cap Owed(outcome)
           how == IF io.msg = AuthRefused /\ AuthId \in called THEN "refused" ELSE "ok"
           rest == m_requests \ {FrameSync}
           out == Complete(outcome, called, how)
<1>0. /\ m_requests \in SUBSET Ids /\ outcome \in [Ids -> Outcomes] /\ UNCHANGED posted
      /\ ReauthId \in Ids
  BY AuthIsId DEF Typed, TypeOK, OnFrame
<1>1. how \in Outcomes \ {"issued"}
  BY DEF Outcomes, Failures
<1>2. \/ Continue(conn, m_s, rest, out)
      \/ outcome' = out /\ m_requests' = rest
  BY DEF OnFrame
<1>3. called \subseteq m_requests \cap Owed(outcome) /\ rest \in SUBSET Ids /\ rest \subseteq m_requests
  BY <1>0
<1> HIDE DEF called, how, rest
<1>4. /\ out \in [Ids -> Outcomes]
      /\ \A r \in Ids : out[r] = IF r \in called THEN how ELSE outcome[r]
  BY <1>0, <1>1, CompleteOwed, CompleteType
<1> HIDE DEF out
<1>5. /\ m_requests' \subseteq rest
      /\ \A r \in Ids : outcome'[r] = out[r]
            \/ (r \in rest /\ out[r] = "issued" /\ outcome'[r] # "issued")
  BY <1>2, <1>3, <1>4, ContinueCalls
<1>6. \A r \in Ids : outcome'[r] = outcome[r]
        \/ (r \in m_requests /\ outcome[r] = "issued" /\ outcome'[r] # "issued")
  BY <1>1, <1>3, <1>4, <1>5 DEF Owed
<1>7. CompletesRegistered /\ outcome'[ReauthId] # "issued"
  BY <1>0, <1>6 DEF CompletesRegistered, QueuedOnce
<1> QED
  BY <1>0, <1>3, <1>5, <1>7, OnceKept

\* A request is queued when it is issued: it was idle, hence not queued before.
LEMMA IssueOnce ==
  ASSUME Typed, QueuedOnce, Issued, NEW r \in Ids \ {ReauthId}, outcome[r] = "idle",
         posted' = Append(posted, r),
         outcome' = [outcome EXCEPT ![r] = "issued"], UNCHANGED m_requests
  PROVE  QueuedOnce'
<1>1. /\ posted \in Seq(Ids \cup {StopLambda}) /\ outcome \in [Ids -> Outcomes]
      /\ ReauthId \in Ids
  BY AuthIsId DEF Typed, TypeOK
<1>2. \A i \in DOMAIN posted : posted[i] # r
  BY <1>1 DEF QueuedOnce, Owed, Issued, Queued
<1>3. r \notin m_requests
  BY DEF Issued
<1>4. \A i \in DOMAIN posted' : \/ i = Len(posted) + 1 /\ posted'[i] = r
                                \/ i \in DOMAIN posted /\ posted'[i] = posted[i]
  BY <1>1
<1>5. \A q \in Ids : outcome'[q] = IF q = r THEN "issued" ELSE outcome[q]
  BY <1>1
<1>6. \A i, j \in DOMAIN posted' : posted'[i] = posted'[j] => i = j
  BY <1>2, <1>4 DEF QueuedOnce
<1>7. \A i \in DOMAIN posted' :
        posted'[i] # StopLambda => posted'[i] \in Owed(outcome)' \ m_requests'
  BY <1>3, <1>4, <1>5 DEF QueuedOnce, Owed
<1>8. outcome'[ReauthId] # "issued"
  BY <1>1, <1>5 DEF QueuedOnce
<1> QED
  BY <1>6, <1>7, <1>8 DEF QueuedOnce

\* The destructor's lambda is queued once: nobody holds the Connector afterwards.
LEMMA DropOnce ==
  ASSUME Typed, QueuedOnce, OwnerAgrees, DropConnector
  PROVE  QueuedOnce'
<1>1. posted \in Seq(Ids \cup {StopLambda}) /\ posted' = Append(posted, StopLambda)
  BY DEF Typed, TypeOK, DropConnector
<1>2. UNCHANGED <<m_requests, outcome>> /\ \A i \in DOMAIN posted : posted[i] # StopLambda
  BY DEF DropConnector, OwnerAgrees
<1>3. \A i \in DOMAIN posted' : \/ i = Len(posted) + 1 /\ posted'[i] = StopLambda
                                \/ i \in DOMAIN posted /\ posted'[i] = posted[i]
  BY <1>1
<1> QED
  BY <1>2, <1>3 DEF QueuedOnce, Owed

\* The lambda of a request runs once: it registers the request or completes it.
LEMMA RunPostedOnce ==
  ASSUME Typed, QueuedOnce, RunPosted
  PROVE  /\ QueuedOnce'
         /\ \A q \in Ids : outcome'[q] = outcome[q] \/ outcome[q] = "issued"
<1> DEFINE r == Head(posted)
<1>0. /\ posted \in Seq(Ids \cup {StopLambda}) /\ posted # <<>> /\ posted' = Tail(posted)
      /\ outcome \in [Ids -> Outcomes] /\ ReauthId \in Ids
  BY AuthIsId DEF RunPosted, Typed, TypeOK
<1>1. r = posted[1] /\ 1 \in DOMAIN posted /\ r \in Ids \cup {StopLambda}
  BY <1>0
<1>2. \A i \in DOMAIN posted' : i + 1 \in DOMAIN posted /\ posted'[i] = posted[i + 1]
                                   /\ i \in Nat /\ i + 1 # 1
  BY <1>0
<1>3. r # StopLambda => r \in Owed(outcome) \ m_requests
  BY <1>1 DEF QueuedOnce
<1>4. r = StopLambda => UNCHANGED <<m_requests, outcome>>
  BY DEF RunPosted, Stopped
<1>5. r # StopLambda => /\ m_requests' \subseteq m_requests \cup {r}
                        /\ outcome' \in {outcome, [outcome EXCEPT ![r] = "not_connected"]}
  BY DEF RunPosted, Accepted, Refused
<1> HIDE DEF r
<1>6. \A i \in DOMAIN posted' : posted'[i] # r
  BY <1>1, <1>2 DEF QueuedOnce
<1>7. \A i, j \in DOMAIN posted' : posted'[i] = posted'[j] => i = j
  BY <1>2 DEF QueuedOnce
<1>8. /\ m_requests' \subseteq m_requests \cup {r}
      /\ \A q \in Ids : outcome'[q] = outcome[q] \/ (q = r /\ outcome[q] = "issued"
                                                     /\ outcome'[q] = "not_connected")
  BY <1>0, <1>1, <1>3, <1>4, <1>5 DEF Owed
<1>9. \A i \in DOMAIN posted' :
        posted'[i] # StopLambda => posted'[i] \in Owed(outcome)' \ m_requests'
  BY <1>2, <1>6, <1>8 DEF QueuedOnce, Owed
<1>10. outcome'[ReauthId] # "issued"
  BY <1>0, <1>8 DEF QueuedOnce
<1> QED
  BY <1>7, <1>8, <1>9, <1>10 DEF QueuedOnce

LEMMA OnHelloOnce ==
  ASSUME Typed, QueuedOnce, AuthUnasked, Issued, OnHello
  PROVE  /\ QueuedOnce'
         /\ \A q \in Ids \ {ReauthId} : outcome'[q] = outcome[q] \/ outcome[q] \in {"idle", "issued"}
<1>0. outcome \in [Ids -> Outcomes] /\ AuthId \in Ids \ {ReauthId} /\ ReauthId \in Ids
  BY AuthIsId DEF Typed, TypeOK
<1>1. CASE NextAddressOrError
  BY <1>1, NextAddressOnce DEF CompletesRegistered
<1>2. CASE LoopEndsUnlocked \/ LoopReconnected
  BY <1>2, QuietOnce DEF LoopEndsUnlocked, LoopReconnected
<1>3. CASE LoopReauthRefused
  <2>1. /\ outcome' = [outcome EXCEPT ![ReauthId] = "not_connected"]
        /\ m_requests' = m_requests \cup {ReauthId} /\ UNCHANGED posted
    BY <1>3 DEF LoopReauthRefused
  <2>2. \A q \in Ids : outcome'[q] = IF q = ReauthId THEN "not_connected" ELSE outcome[q]
    BY <1>0, <2>1
  <2>3. CompletesRegistered /\ outcome'[ReauthId] # "issued"
    BY <1>0, <2>2 DEF CompletesRegistered
  <2> QED
    BY <2>1, <2>2, <2>3, OnceKept
<1>4. CASE loop = "absent" /\ ConnectorCreated
  <2>1. CASE ~Creds
    BY <1>4, <2>1, QuietOnce DEF ConnectorCreated
  <2>2. CASE Creds
    <3>1. /\ outcome' = [outcome EXCEPT ![AuthId] = "issued"]
          /\ posted' = Append(posted, AuthId) /\ UNCHANGED m_requests
      BY <1>4, <2>2 DEF ConnectorCreated
    <3>2. outcome[AuthId] = "idle"
      BY <1>4 DEF AuthUnasked
    <3>3. QueuedOnce'
      BY <1>0, <3>1, <3>2, IssueOnce
    <3> QED
      BY <1>0, <3>1, <3>2, <3>3
  <2> QED
    BY <2>1, <2>2
<1> QED
  BY <1>1, <1>2, <1>3, <1>4 DEF OnHello

\* Until the loop is spawned no request is made.
LEMMA UnaskedStep ==
  ASSUME Typed, Agree, AuthUnasked, [Next]_vars
  PROVE  AuthUnasked'
<1> SUFFICES ASSUME loop' = "absent" PROVE loop = "absent" /\ UNCHANGED outcome
  BY DEF AuthUnasked
<1>0. loop = "absent" => /\ owner # "user" /\ posted = <<>>
                         /\ io.op \in {"none", "resolve", "connect", "hello"}
  BY DEF Agree, LoopAgrees
<1>1. ASSUME NEW c, NEW ms, NEW reqs, NEW out, reset(c, ms, reqs, out), loop # "absent" PROVE FALSE
  BY <1>1 DEF reset, CleanReset, FaultyReset
<1>2. ASSUME NEW c, NEW ms, NEW reqs, NEW out, Continue(c, ms, reqs, out), loop # "absent" PROVE FALSE
  BY <1>1, <1>2 DEF Continue
<1>3. ASSUME NextAddressOrError \/ ConnectError PROVE loop = "absent" /\ UNCHANGED outcome
  BY <1>2, <1>3 DEF NextAddressOrError, ConnectError
<1>4. CASE OnResolved \/ OnConnected
  BY <1>3, <1>4 DEF OnResolved, OnConnected, ConnectThrows, connectorVars
<1>5. CASE OnHello
  BY <1>3, <1>5 DEF OnHello, ConnectorCreated, LoopEndsUnlocked, LoopReconnected, LoopReauthRefused
<1>6. CASE LoopStart \/ OnReadError \/ OnFrame
  <2>1. loop # "absent"
    BY <1>0, <1>6 DEF LoopStart, OnReadError, OnFrame, Done
  <2>2. loop' # "absent"
    BY <1>1, <1>2, <1>6, <2>1 DEF LoopStart, OnReadError, OnFrame
  <2> QED
    BY <2>2
<1>7. CASE RunPosted
  BY <1>0, <1>7 DEF RunPosted
<1>8. CASE DropConnector \/ \E r \in Reqs : Call(r)
  BY <1>0, <1>8 DEF DropConnector, Call
<1>9. CASE DataSent \/ Net \/ NetReply \/ NetEvent \/ UNCHANGED vars
  BY <1>9 DEF DataSent, Net, NetReply, NetEvent, connectorVars, vars
<1> QED
  BY <1>4, <1>5, <1>6, <1>7, <1>8, <1>9 DEF Next, Strand, Terminated

\* One step: what is queued stays as it should be, and no completed request changes.
LEMMA OnceStep ==
  ASSUME Safe, QueuedOnce, AuthUnasked, [Next]_vars
  PROVE  /\ QueuedOnce'
         /\ \A q \in Ids \ {ReauthId} : outcome'[q] = outcome[q] \/ outcome[q] \in {"idle", "issued"}
<1>0. Typed /\ Agree /\ Issued /\ outcome \in [Ids -> Outcomes]
  BY DEF Safe, Bookkept, Typed, TypeOK
<1>1. CASE OnResolved
  BY <1>0, <1>1, NextAddressOnce DEF OnResolved, CompletesRegistered
<1>2. CASE OnConnected
  BY <1>0, <1>2, NextAddressOnce, QuietOnce
     DEF OnConnected, ConnectThrows, connectorVars, CompletesRegistered
<1>3. CASE OnHello
  BY <1>0, <1>3, OnHelloOnce
<1>4. CASE LoopStart \/ OnReadError
  BY <1>0, <1>4, LoopOnce DEF LoopStart, OnReadError, CompletesRegistered
<1>5. CASE OnFrame
  BY <1>0, <1>5, OnFrameOnce DEF CompletesRegistered
<1>6. CASE DataSent \/ Net \/ NetReply \/ NetEvent \/ UNCHANGED vars
  BY <1>6, QuietOnce DEF DataSent, Net, NetReply, NetEvent, connectorVars, vars
<1>7. CASE RunPosted
  BY <1>0, <1>7, RunPostedOnce
<1>8. CASE DropConnector
  BY <1>0, <1>8, DropOnce DEF DropConnector, Agree
<1>9. ASSUME NEW r \in Reqs, Call(r)
      PROVE  /\ QueuedOnce'
             /\ \A q \in Ids \ {ReauthId} : outcome'[q] = outcome[q] \/ outcome[q] \in {"idle", "issued"}
  <2>1. /\ outcome[r] = "idle" /\ outcome' = [outcome EXCEPT ![r] = "issued"]
        /\ posted' = Append(posted, r) /\ UNCHANGED m_requests
    BY <1>9 DEF Call
  <2>2. r \in Ids \ {ReauthId}
    BY ReqsAssumption DEF Ids
  <2> QED
    BY <1>0, <2>1, <2>2, IssueOnce
<1> QED
  BY <1>1, <1>2, <1>3, <1>4, <1>5, <1>6, <1>7, <1>8, <1>9 DEF Next, Strand, Terminated

\* The inductive invariant: with Safe, what is queued is queued once and still owed.
LEMMA QueueSafe == Spec => [](QueuedOnce /\ AuthUnasked)
<1>1. Init => QueuedOnce /\ AuthUnasked
  BY AuthIsId DEF Init, QueuedOnce, AuthUnasked
<1>2. Safe /\ QueuedOnce /\ AuthUnasked /\ [Next]_vars => (QueuedOnce /\ AuthUnasked)'
  BY OnceStep, UnaskedStep DEF Safe
<1> QED
  BY <1>1, <1>2, ConnectorSafe, PTL DEF Spec

\* A user's handler is called at most once, though a refused request stays registered and
\* is sent: its answer and the next reset find its handler empty.
THEOREM HandlersCalledOnce == Spec => CompletedOnce
<1>1. Safe /\ QueuedOnce /\ AuthUnasked /\ [Next]_vars =>
        [\A r \in Reqs \cup {AuthId} :
            outcome[r] \notin {"idle", "issued"} => outcome'[r] = outcome[r]]_vars
  <2>1. Reqs \cup {AuthId} \subseteq Ids \ {ReauthId}
    BY AuthIsId, ReqsAssumption DEF Ids
  <2> QED
    BY <2>1, OnceStep
<1> QED
  BY <1>1, ConnectorSafe, QueueSafe, PTL DEF Spec, CompletedOnce
-----------------------------------------------------------------------------
(* What the loop dies of. *)

\* Unless users' handlers throw, the only entries with an empty handler are those of
\* refused requests, and a loop that died met one of them.
Causes ==
    ~HandlersThrow =>
        /\ loop # "dead" => \A r \in m_requests : outcome[r] \in {"issued", "not_connected"}
        /\ loop = "dead" => \E r \in m_requests : outcome[r] = "not_connected"

LEMMA QuietCauses ==
  ASSUME Causes, UNCHANGED <<m_requests, outcome>>, loop # "dead", loop' # "dead"
  PROVE  Causes'
  BY DEF Causes

\* reset() is stopped by the empty handler of a refused request, or not at all.
LEMMA ResetCauses ==
  ASSUME loop # "dead", NEW c, NEW ms, NEW reqs \in SUBSET Ids, NEW out \in [Ids -> Outcomes],
         ~HandlersThrow => \A r \in reqs : out[r] \in {"issued", "not_connected"},
         reset(c, ms, reqs, out)
  PROVE  Causes'
<1> SUFFICES ASSUME ~HandlersThrow PROVE Causes'
  BY DEF Causes
<1>0. ResetError(ms) \in Outcomes \ {"issued"}
  BY DEF ResetError, Outcomes, Failures
<1>1. CASE CleanReset(c, ms, reqs, out)
  <2>1. m_requests' = {} /\ loop' # "dead"
    BY <1>1 DEF CleanReset
  <2> QED
    BY <2>1 DEF Causes
<1>2. CASE FaultyReset(c, ms, reqs, out)
  <2>1. PICK t \in reqs, visited \in SUBSET (reqs \cap Owed(out)) :
          /\ t \notin Owed(out)
          /\ outcome' = Complete(out, visited \cup ({t} \cap Owed(out)), ResetError(ms))
          /\ m_requests' = reqs
          /\ loop' = "dead"
    BY <1>2 DEF FaultyReset
  <2>2. t \notin visited \cup ({t} \cap Owed(out)) /\ t \in Ids
    BY <2>1
  <2>3. out[t] = "not_connected"
    BY <2>1, <2>2 DEF Owed
  <2>4. outcome'[t] = "not_connected"
    BY <1>0, <2>1, <2>2, <2>3, CompleteOwed
  <2> QED
    BY <2>1, <2>4 DEF Causes
<1> QED
  BY <1>1, <1>2 DEF reset

LEMMA ContinueCauses ==
  ASSUME loop # "dead", NEW c, NEW ms, NEW reqs \in SUBSET Ids, NEW out \in [Ids -> Outcomes],
         ~HandlersThrow => \A r \in reqs : out[r] \in {"issued", "not_connected"},
         Continue(c, ms, reqs, out)
  PROVE  Causes'
<1>1. CASE reset(c, ms, reqs, out)
  BY <1>1, ResetCauses
<1>2. CASE m_requests' = reqs /\ outcome' = out /\ UNCHANGED loop
  BY <1>2 DEF Causes
<1> QED
  BY <1>1, <1>2 DEF Continue

\* The same, with the requests as they are.
LEMMA LoopCauses ==
  ASSUME Typed, Causes, loop # "dead",
         \/ Continue(conn, m_s, m_requests, outcome)
         \/ reset(conn, m_s, m_requests, outcome)
  PROVE  Causes'
<1>1. m_requests \in SUBSET Ids /\ outcome \in [Ids -> Outcomes]
  BY DEF Typed, TypeOK
<1>2. ~HandlersThrow => \A r \in m_requests : outcome[r] \in {"issued", "not_connected"}
  BY DEF Causes
<1> QED
  BY <1>1, <1>2, ContinueCauses, ResetCauses

LEMMA NextAddressCauses ==
  ASSUME Typed, Causes, loop # "dead", NextAddressOrError \/ ConnectError
  PROVE  Causes'
<1>1. CASE ConnectError
  BY <1>1, QuietCauses, LoopCauses DEF ConnectError
<1>2. CASE UNCHANGED <<m_requests, outcome, loop>>
  BY <1>2, QuietCauses
<1> QED
  BY <1>1, <1>2 DEF NextAddressOrError

\* A frame takes its entry out, so what it completes is not met again.
LEMMA OnFrameCauses ==
  ASSUME Typed, Causes, loop # "dead", OnFrame
  PROVE  Causes'
<1> DEFINE called == {FrameSync} \cap m_requests \cap Owed(outcome)
           how == IF io.msg = AuthRefused /\ AuthId \in called THEN "refused" ELSE "ok"
           rest == m_requests \ {FrameSync}
           out == Complete(outcome, called, how)
<1>0. m_requests \in SUBSET Ids /\ outcome \in [Ids -> Outcomes]
  BY DEF Typed, TypeOK
<1>1. how \in Outcomes \ {"issued"}
  BY DEF Outcomes, Failures
<1>2. \/ Continue(conn, m_s, rest, out)
      \/ outcome' = out /\ m_requests' = rest /\ loop' # "dead"
  BY DEF OnFrame
<1>3. called \cap rest = {} /\ rest \in SUBSET Ids /\ rest \subseteq m_requests
  BY <1>0
<1> HIDE DEF called, how, rest
<1>4. /\ out \in [Ids -> Outcomes]
      /\ \A r \in Ids : out[r] = IF r \in called THEN how ELSE outcome[r]
  BY <1>0, <1>1, CompleteOwed, CompleteType
<1> HIDE DEF out
<1>5. ~HandlersThrow => \A r \in rest : out[r] \in {"issued", "not_connected"}
  BY <1>3, <1>4 DEF Causes
<1>6. CASE Continue(conn, m_s, rest, out)
  BY <1>3, <1>4, <1>5, <1>6, ContinueCauses
<1>7. CASE outcome' = out /\ m_requests' = rest /\ loop' # "dead"
  BY <1>5, <1>7 DEF Causes
<1> QED
  BY <1>2, <1>6, <1>7

\* A request is registered live, or refused.
LEMMA RunPostedCauses ==
  ASSUME Typed, Agree, QueuedOnce, Causes, RunPosted
  PROVE  Causes'
<1> DEFINE r == Head(posted)
<1>0. /\ r = posted[1] /\ 1 \in DOMAIN posted /\ UNCHANGED loop
      /\ m_requests \in SUBSET Ids /\ outcome \in [Ids -> Outcomes]
  BY DEF RunPosted, Typed, TypeOK
<1>1. r # StopLambda => r \in Owed(outcome) \ m_requests
  BY <1>0 DEF QueuedOnce
<1>2. CASE r = StopLambda
  <2>1. UNCHANGED <<m_requests, outcome>>
    BY <1>2 DEF RunPosted, Stopped
  <2> QED
    BY <1>0, <2>1 DEF Causes
<1>3. CASE r # StopLambda /\ Accepted(r)
  <2>1. m_requests' = m_requests \cup {r} /\ UNCHANGED outcome /\ m_s = "Connected"
    BY <1>3 DEF Accepted
  <2>2. loop # "dead"
    BY <2>1 DEF Agree, LoopAgrees
  <2> HIDE DEF r
  <2> QED
    BY <1>0, <1>1, <1>3, <2>1, <2>2 DEF Causes, Owed
<1>4. CASE r # StopLambda /\ Refused(r)
  <2>1. /\ outcome' = [outcome EXCEPT ![r] = "not_connected"]
        /\ m_requests' \in {m_requests, m_requests \cup {r}}
    BY <1>4 DEF Refused
  <2> HIDE DEF r
  <2>2. \A q \in Ids : outcome'[q] = IF q = r THEN "not_connected" ELSE outcome[q]
    BY <1>0, <2>1
  <2> QED
    BY <1>0, <1>1, <1>4, <2>1, <2>2 DEF Causes, Owed
<1> QED
  BY <1>2, <1>3, <1>4 DEF RunPosted

LEMMA CausesStep ==
  ASSUME Safe, QueuedOnce, Causes, [Next]_vars
  PROVE  Causes'
<1>0. Typed /\ Agree /\ Issued /\ m_requests \in SUBSET Ids /\ outcome \in [Ids -> Outcomes]
  BY DEF Safe, Bookkept, Typed, TypeOK
<1>1. ASSUME io.op # "none" PROVE loop # "dead"
  BY <1>0, <1>1 DEF Agree, LoopAgrees
<1>2. CASE OnResolved \/ OnConnected
  <2>1. loop # "dead"
    BY <1>1, <1>2 DEF OnResolved, OnConnected, Done
  <2>2. CASE NextAddressOrError \/ ConnectError
    BY <1>0, <2>1, <2>2, NextAddressCauses
  <2>3. CASE ConnectThrows \/ UNCHANGED connectorVars
    BY <2>1, <2>3, QuietCauses DEF ConnectThrows, connectorVars
  <2> QED
    BY <1>2, <2>2, <2>3 DEF OnResolved, OnConnected
<1>3. CASE OnHello
  <2>1. loop # "dead"
    BY <1>1, <1>3 DEF OnHello, Done
  <2>2. CASE NextAddressOrError
    BY <1>0, <2>1, <2>2, NextAddressCauses
  <2>3. CASE LoopEndsUnlocked \/ LoopReconnected
    BY <2>1, <2>3, QuietCauses DEF LoopEndsUnlocked, LoopReconnected
  <2>4. CASE LoopReauthRefused
    <3>1. /\ outcome' = [outcome EXCEPT ![ReauthId] = "not_connected"]
          /\ m_requests' = m_requests \cup {ReauthId} /\ UNCHANGED loop
      BY <2>4 DEF LoopReauthRefused
    <3>2. \A q \in Ids : outcome'[q] = IF q = ReauthId THEN "not_connected" ELSE outcome[q]
      BY <1>0, <3>1
    <3> QED
      BY <1>0, <2>1, <3>1, <3>2, AuthIsId DEF Causes
  <2>5. CASE loop = "absent" /\ ConnectorCreated
    <3>1. m_requests' = {} /\ loop' # "dead"
      BY <1>0, <2>5 DEF ConnectorCreated, Agree, LoopAgrees
    <3> QED
      BY <3>1 DEF Causes
  <2> QED
    BY <1>3, <2>2, <2>3, <2>4, <2>5 DEF OnHello
<1>4. CASE LoopStart \/ OnReadError
  <2>1. loop # "dead"
    BY <1>1, <1>4 DEF LoopStart, OnReadError, Done
  <2> QED
    BY <1>0, <1>4, <2>1, LoopCauses DEF LoopStart, OnReadError
<1>5. CASE OnFrame
  BY <1>0, <1>1, <1>5, OnFrameCauses DEF OnFrame, Done
<1>6. CASE DataSent \/ Net \/ NetReply \/ NetEvent \/ DropConnector \/ UNCHANGED vars
  BY <1>6 DEF DataSent, Net, NetReply, NetEvent, DropConnector, connectorVars, vars, Causes
<1>7. CASE RunPosted
  BY <1>0, <1>7, RunPostedCauses
<1>8. ASSUME NEW r \in Reqs, Call(r) PROVE Causes'
  <2>1. /\ outcome[r] = "idle" /\ outcome' = [outcome EXCEPT ![r] = "issued"]
        /\ UNCHANGED <<m_requests, loop>>
    BY <1>8 DEF Call
  <2>2. r \notin m_requests
    BY <1>0, <2>1 DEF Issued
  <2> QED
    BY <1>0, <2>1, <2>2 DEF Causes
<1> QED
  BY <1>2, <1>3, <1>4, <1>5, <1>6, <1>7, <1>8 DEF Next, Strand, Terminated

\* The receive loop dies only of the empty handler that a refused request left behind, or
\* of a handler that throws.
THEOREM DeathExplained == Spec => []DeathHasCause
<1>1. Init => Causes
  BY DEF Init, Causes
<1>2. Safe /\ QueuedOnce /\ AuthUnasked /\ Causes /\ [Next]_vars => Causes'
  BY CausesStep
<1>3. Causes => DeathHasCause
  BY DEF Causes, DeathHasCause
<1> QED
  BY <1>1, <1>2, <1>3, ConnectorSafe, QueueSafe, PTL DEF Spec
-----------------------------------------------------------------------------
(* Who is authenticated. *)

\* The answers that async_auth takes for success.
Acceptances == {AuthId, AuthUncharted}

\* An acceptance on its way to the client was sent on the current socket, and the server
\* has dealt with the credentials there.
AnswerSeen ==
    (\E i \in DOMAIN inbox : inbox[i] \in Acceptances) \/ io.msg \in Acceptances =>
        session # "guest"

\* A user who can make requests was let in on the current socket.
Authenticated == Creds /\ owner = "user" /\ m_s = "Connected" => session # "guest"

LEMMA IoMsg ==
  /\ connect.msg = NoFrame /\ NoIo.msg = NoFrame /\ receive_message.msg = NoFrame
  /\ \A op \in IoOps : Pending(op).msg = NoFrame
  /\ NoFrame \notin Acceptances
  BY DEF connect, NoIo, receive_message, Pending, Acceptances, NoFrame, AuthId, AuthUncharted

LEMMA CancelledMsg ==
  ASSUME NEW o \in Ios
  PROVE  Cancelled(o).msg = o.msg
  BY DEF Cancelled, Ios

\* A step that sends and reads nothing.
LEMMA QuietSeen ==
  ASSUME AnswerSeen, io'.msg \in {NoFrame, io.msg}, UNCHANGED <<inbox, session>>
  PROVE  AnswerSeen'
  BY IoMsg DEF AnswerSeen

\* The loop goes round: it starts a read or a connect, and never becomes Connected.
LEMMA LoopSeen ==
  ASSUME NEW c, NEW ms, NEW reqs, NEW out,
         Continue(c, ms, reqs, out) \/ reset(c, ms, reqs, out)
  PROVE  /\ io'.msg = NoFrame
         /\ m_s' = "Connected" => ms = "Connected"
         /\ owner' = "user" => owner = "user"
<1>1. ASSUME reset(c, ms, reqs, out)
      PROVE  /\ io' \in {NoIo, connect} /\ (m_s' = "Connected" => ms = "Connected")
             /\ owner' = "user" => owner = "user"
  BY <1>1 DEF reset, CleanReset, FaultyReset, StateAfterReset
<1> QED
  BY <1>1, IoMsg DEF Continue

\* A new socket makes the peer a guest again: nobody can be Connected then.
LEMMA NextAddressAuth ==
  ASSUME Typed, Agree, AnswerSeen, Authenticated, NextAddressOrError \/ ConnectError,
         io.op \in {"resolve", "connect", "hello"}
  PROVE  AnswerSeen' /\ Authenticated'
<1>1. CASE ConnectError
  <2>1. UNCHANGED <<inbox, session>>
    BY <1>1 DEF ConnectError
  <2>2. /\ io'.msg = NoFrame /\ (m_s' = "Connected" => m_s = "Connected")
        /\ owner' = "user" => owner = "user"
    BY <1>1, LoopSeen, IoMsg DEF ConnectError
  <2> QED
    BY <2>1, <2>2, QuietSeen DEF Authenticated
<1>2. CASE TryNextAddress /\ UNCHANGED <<m_s, owner, loop>>
  <2>1. inbox' = <<>> /\ io'.msg = NoFrame
    BY <1>2, IoMsg DEF TryNextAddress, IoOps
  <2>2. ~(owner = "user" /\ m_s = "Connected")
    BY DEF Agree, LoopAgrees, Typed, TypeOK, Loops
  <2> QED
    BY <1>2, <2>1, <2>2, IoMsg DEF AnswerSeen, Authenticated
<1> QED
  BY <1>1, <1>2 DEF NextAddressOrError

LEMMA OnHelloAuth ==
  ASSUME Typed, Agree, AnswerSeen, Authenticated, OnHello
  PROVE  AnswerSeen' /\ Authenticated'
<1>1. CASE NextAddressOrError
  BY <1>1, NextAddressAuth DEF OnHello, Done
<1>2. CASE ConnectorCreated
  <2>1. io'.msg = NoFrame /\ UNCHANGED <<inbox, session, m_s>> /\ (Creds => owner' = "connect")
    BY <1>2, IoMsg DEF ConnectorCreated, IoOps
  <2> QED
    BY <2>1, QuietSeen DEF Authenticated
<1>3. CASE LoopEndsUnlocked \/ LoopReconnected \/ LoopReauthRefused
  <2>1. /\ io'.msg = NoFrame /\ UNCHANGED <<inbox, session, owner>>
        /\ Creds => UNCHANGED m_s
    BY <1>3, IoMsg DEF LoopEndsUnlocked, LoopReconnected, LoopReauthRefused
  <2> QED
    BY <2>1, QuietSeen DEF Authenticated
<1> QED
  BY <1>1, <1>2, <1>3 DEF OnHello

\* The Connector is handed to the user by an acceptance that has been read.
LEMMA OnFrameAuth ==
  ASSUME Typed, Agree, AnswerSeen, Authenticated, OnFrame
  PROVE  AnswerSeen' /\ Authenticated'
<1> DEFINE called == {FrameSync} \cap m_requests \cap Owed(outcome)
           failed == io.msg = AuthRefused /\ AuthId \in called
           rest == m_requests \ {FrameSync}
           out == Complete(outcome, called, IF failed THEN "refused" ELSE "ok")
<1>0. UNCHANGED <<inbox, session>>
  BY DEF OnFrame
<1>1. CASE AuthId \notin called /\ Continue(conn, m_s, rest, out)
  <2> HIDE DEF called, failed, rest, out
  <2>1. /\ io'.msg = NoFrame /\ (m_s' = "Connected" => m_s = "Connected")
        /\ owner' = "user" => owner = "user"
    BY <1>1, LoopSeen
  <2> QED
    BY <1>0, <2>1, QuietSeen DEF Authenticated
<1>2. CASE /\ AuthId \in called
           /\ owner' = IF failed THEN "gone" ELSE "user"
           /\ IF failed THEN loop' = "finished" /\ io' = NoIo
                        ELSE io' = receive_message /\ UNCHANGED loop
  <2>1. FrameSync = AuthId
    BY <1>2
  <2>2. io.msg \in {AuthId, AuthRefused, AuthUncharted}
    BY <2>1 DEF FrameSync, SyncOf
  <2>3. owner' = "user" => io.msg \in Acceptances
    BY <1>2, <2>2 DEF Acceptances
  <2>4. owner' = "user" => session # "guest"
    BY <2>3 DEF AnswerSeen
  <2>5. io'.msg = NoFrame
    BY <1>2, IoMsg
  <2> QED
    BY <1>0, <2>4, <2>5, QuietSeen DEF Authenticated
<1> QED
  BY <1>1, <1>2 DEF OnFrame

\* The server lets the client in when it sends an acceptance, and not before.
LEMMA NetAuth ==
  ASSUME Typed, AnswerSeen, Authenticated, Net \/ NetReply \/ NetEvent
  PROVE  AnswerSeen' /\ Authenticated'
<1>0. /\ UNCHANGED <<m_s, owner>> /\ inbox \in Seq(Frames) /\ io \in Ios
      /\ conn.wire \in Seq(Ids)
  BY DataAssumption DEF Net, NetReply, NetEvent, connectorVars, Typed, TypeOK, Connections
<1>1. CASE Net /\ ~NetBreak /\ ~NetReceive
  <2>1. UNCHANGED <<inbox, session>>
    BY <1>1 DEF Net, NetResolve, NetConnect, NetHello, NetReadError, NetTransfer,
                NetWriteFail, connectorVars
  <2>2. io'.msg = io.msg
    BY <1>0, <1>1 DEF Net, NetResolve, NetConnect, NetHello, NetReadError, NetTransfer,
                NetWriteFail, Ios
  <2> QED
    BY <1>0, <2>1, <2>2, QuietSeen DEF Authenticated
<1>2. CASE NetBreak /\ UNCHANGED connectorVars
  <2>1. inbox' \in {inbox, <<>>} /\ UNCHANGED <<io, session>>
    BY <1>2 DEF NetBreak, connectorVars
  <2> QED
    BY <1>0, <2>1 DEF AnswerSeen, Authenticated
<1>3. CASE NetReceive /\ UNCHANGED connectorVars
  <2>1. /\ inbox # <<>> /\ inbox' = Tail(inbox) /\ UNCHANGED session
        /\ io' = [io EXCEPT !.st = "ok", !.msg = Head(inbox)]
    BY <1>3 DEF NetReceive, connectorVars
  <2>2. io'.msg = inbox[1] /\ 1 \in DOMAIN inbox
    BY <1>0, <2>1 DEF Ios
  <2>3. \A i \in DOMAIN inbox' : i + 1 \in DOMAIN inbox /\ inbox'[i] = inbox[i + 1]
    BY <1>0, <2>1
  <2> QED
    BY <1>0, <2>1, <2>2, <2>3 DEF AnswerSeen, Authenticated
<1>4. CASE NetReply
  <2>1. PICK i \in DOMAIN conn.wire :
          \/ /\ inbox' = Append(inbox, conn.wire[i])
             /\ session' = IF conn.wire[i] = AuthId THEN "user" ELSE session
          \/ /\ conn.wire[i] = AuthId
             /\ \/ inbox' = Append(inbox, AuthRefused) /\ UNCHANGED session
                \/ inbox' = Append(inbox, AuthUncharted) /\ session' = "refused"
    BY <1>4 DEF NetReply
  <2>2. UNCHANGED io /\ conn.wire[i] \in Ids
    BY <1>0, <1>4 DEF NetReply
  <2>3. AuthUncharted \notin Ids /\ AuthRefused \notin Acceptances
    BY ReqsAssumption DEF Ids, AuthUncharted, AuthRefused, AuthId, ReauthId, Acceptances
  <2>4. PICK f : /\ inbox' = Append(inbox, f)
                 /\ session' = session \/ session' # "guest"
                 /\ f \in Acceptances => session' # "guest"
    BY <2>1, <2>2, <2>3 DEF Acceptances
  <2>5. \A j \in DOMAIN inbox' : inbox'[j] = f \/ (j \in DOMAIN inbox /\ inbox'[j] = inbox[j])
    BY <1>0, <2>4
  <2> QED
    BY <1>0, <2>2, <2>4, <2>5 DEF AnswerSeen, Authenticated
<1>5. CASE NetEvent
  <2>1. inbox' = Append(inbox, EventFrame) /\ UNCHANGED <<io, session>>
    BY <1>5 DEF NetEvent, connectorVars
  <2>2. \A j \in DOMAIN inbox' : inbox'[j] = EventFrame \/ (j \in DOMAIN inbox /\ inbox'[j] = inbox[j])
    BY <1>0, <2>1
  <2>3. EventFrame \notin Acceptances
    BY DEF EventFrame, Acceptances, AuthId, AuthUncharted
  <2> QED
    BY <1>0, <2>1, <2>2, <2>3 DEF AnswerSeen, Authenticated
<1> QED
  BY <1>1, <1>2, <1>3, <1>4, <1>5 DEF Net

LEMMA AuthStep ==
  ASSUME Safe, AnswerSeen, Authenticated, [Next]_vars
  PROVE  AnswerSeen' /\ Authenticated'
<1>0. Typed /\ Agree /\ io \in Ios
  BY DEF Safe, Typed, TypeOK
<1>1. CASE OnResolved
  BY <1>0, <1>1, NextAddressAuth DEF OnResolved, Done
<1>2. CASE OnConnected
  <2>1. CASE NextAddressOrError
    BY <1>0, <1>2, <2>1, NextAddressAuth DEF OnConnected, Done
  <2>2. CASE AwaitHello /\ UNCHANGED connectorVars
    <3>1. io'.msg = NoFrame /\ UNCHANGED <<inbox, session, m_s, owner>>
      BY <2>2, IoMsg DEF AwaitHello, connectorVars, IoOps
    <3> QED
      BY <3>1, QuietSeen DEF Authenticated
  <2>3. CASE ConnectThrows
    <3>1. /\ io'.msg = NoFrame /\ UNCHANGED <<inbox, session, m_s>>
          /\ owner' = "user" => owner = "user"
      BY <2>3, IoMsg DEF ConnectThrows
    <3> QED
      BY <3>1, QuietSeen DEF Authenticated
  <2> QED
    BY <1>2, <2>1, <2>2, <2>3 DEF OnConnected
<1>3. CASE OnHello
  BY <1>0, <1>3, OnHelloAuth
<1>4. CASE LoopStart \/ OnReadError
  <2>1. UNCHANGED <<inbox, session>>
    BY <1>4 DEF LoopStart, OnReadError
  <2>2. /\ io'.msg = NoFrame /\ (m_s' = "Connected" => m_s = "Connected")
        /\ owner' = "user" => owner = "user"
    BY <1>4, LoopSeen DEF LoopStart, OnReadError
  <2> QED
    BY <2>1, <2>2, QuietSeen DEF Authenticated
<1>5. CASE OnFrame
  BY <1>0, <1>5, OnFrameAuth
<1>6. CASE DataSent
  <2>1. io' \in {io, Cancelled(io)} /\ UNCHANGED <<inbox, session, m_s, owner>>
    BY <1>6 DEF DataSent, connectorVars
  <2> QED
    BY <1>0, <2>1, CancelledMsg, QuietSeen DEF Authenticated
<1>7. CASE RunPosted
  <2>1. /\ io' \in {io, Cancelled(io)} /\ UNCHANGED <<inbox, session>>
        /\ m_s' = "Connected" => m_s = "Connected"
        /\ owner' = "user" => owner = "user"
    BY <1>7 DEF RunPosted, Stopped, Accepted, Refused
  <2> QED
    BY <1>0, <2>1, CancelledMsg, QuietSeen DEF Authenticated
<1>8. CASE DropConnector \/ \E r \in Reqs : Call(r)
  <2>1. UNCHANGED <<io, inbox, session, m_s>> /\ (owner' = "user" => owner = "user")
    BY <1>8 DEF DropConnector, Call
  <2> QED
    BY <2>1, QuietSeen DEF Authenticated
<1>9. CASE Net \/ NetReply \/ NetEvent
  BY <1>0, <1>9, NetAuth
<1>10. CASE UNCHANGED vars
  BY <1>10 DEF vars, AnswerSeen, Authenticated
<1> QED
  BY <1>1, <1>2, <1>3, <1>4, <1>5, <1>6, <1>7, <1>8, <1>9, <1>10 DEF Next, Strand, Terminated

\* With credentials, whoever is told Connected talks to a server that has dealt with them
\* on that very socket; no reconnect slips in an unauthenticated one.
THEOREM ConnectedMeansAuthenticated == Spec => []ConnectedIsAuthenticated
<1>1. Init => AnswerSeen /\ Authenticated
  BY IoMsg DEF Init, AnswerSeen, Authenticated
<1>2. Safe /\ AnswerSeen /\ Authenticated /\ [Next]_vars => (AnswerSeen /\ Authenticated)'
  BY AuthStep
<1>3. Safe /\ Authenticated => ConnectedIsAuthenticated
  BY DEF Safe, Typed, TypeOK, Authenticated, ConnectedIsAuthenticated
<1> QED
  BY <1>1, <1>2, <1>3, ConnectorSafe, PTL DEF Spec
-----------------------------------------------------------------------------
(* Nothing is lost in silence. *)

\* The data of r is on its way to the server, or the connection shows that it is torn.
Carried(c, r) == Torn(c) \/ r \in Range(Unsent(c)) \cup Range(c.wire)

\* The loop has something to read that will make it complete r.
Noticed(r) ==
    \/ \E i \in DOMAIN inbox : SyncOf(inbox[i]) = r
    \/ io.op = "read" /\ io.st = "error"
    \/ io.op = "read" /\ io.st = "ok" /\ FrameSync = r

LEMMA LossSplit == NoSilentLoss <=> (loop = "running" => \A r \in Live : Carried(conn, r) \/ Noticed(r))
  BY DEF NoSilentLoss, Carried, Noticed

\* What is in a sequence after one element is added, or the first one taken.
LEMMA AppendRange ==
  ASSUME NEW S, NEW s \in Seq(S), NEW d \in S
  PROVE  Range(Append(s, d)) = Range(s) \cup {d}
<1>1. \A i \in DOMAIN s : i \in DOMAIN Append(s, d) /\ Append(s, d)[i] = s[i]
  OBVIOUS
<1>2. Len(s) + 1 \in DOMAIN Append(s, d) /\ Append(s, d)[Len(s) + 1] = d
  OBVIOUS
<1>3. \A i \in DOMAIN Append(s, d) : i = Len(s) + 1 \/ i \in DOMAIN s
  OBVIOUS
<1> QED
  BY <1>1, <1>2, <1>3 DEF Range

LEMMA TailRange ==
  ASSUME NEW S, NEW s \in Seq(S), s # <<>>
  PROVE  Range(s) = Range(Tail(s)) \cup {Head(s)}
<1>1. \A i \in DOMAIN Tail(s) : i + 1 \in DOMAIN s /\ Tail(s)[i] = s[i + 1]
  OBVIOUS
<1>2. \A i \in DOMAIN s : i = 1 \/ (i - 1 \in DOMAIN Tail(s) /\ Tail(s)[i - 1] = s[i])
  OBVIOUS
<1>3. Head(s) = s[1] /\ 1 \in DOMAIN s
  OBVIOUS
<1> QED
  BY <1>1, <1>2, <1>3 DEF Range

\* Removing one element loses at most that one.
LEMMA RemoveAtRange ==
  ASSUME NEW S, NEW s \in Seq(S), NEW i \in DOMAIN s
  PROVE  Range(s) \subseteq Range(RemoveAt(s, i)) \cup {s[i]}
<1> DEFINE t == RemoveAt(s, i)
           u == SubSeq(s, 1, i - 1)
           v == SubSeq(s, i + 1, Len(s))
<1>1. i \in 1 .. Len(s) /\ Len(s) \in Nat
  OBVIOUS
<1>2. /\ u \in Seq(S) /\ Len(u) = i - 1 /\ \A j \in 1 .. i - 1 : u[j] = s[j]
      /\ v \in Seq(S) /\ Len(v) = Len(s) - i /\ \A j \in 1 .. Len(s) - i : v[j] = s[i + j]
  BY <1>1
<1>3. t = u \o v
  BY DEF RemoveAt
<1> HIDE DEF t, u, v
<1>4. /\ DOMAIN t = 1 .. Len(s) - 1
      /\ \A j \in 1 .. i - 1 : t[j] = s[j]
  BY <1>1, <1>2, <1>3
<1>5. ASSUME NEW j \in i + 1 .. Len(s) PROVE t[j - 1] = s[j]
  <2>1. j - 1 \in 1 .. Len(u) + Len(v) /\ j - 1 > Len(u) /\ j - 1 - Len(u) = j - i
    BY <1>1, <1>2
  <2>2. t[j - 1] = v[j - 1 - Len(u)]
    <3>1. \A k \in 1 .. Len(u) + Len(v) : t[k] = IF k <= Len(u) THEN u[k] ELSE v[k - Len(u)]
      BY <1>2, <1>3, ConcatProperties
    <3>2. ~(j - 1 <= Len(u))
      BY <1>1, <1>2, <2>1
    <3> QED
      BY <2>1, <3>1, <3>2
  <2>3. j - i \in 1 .. Len(s) - i /\ i + (j - i) = j
    BY <1>1
  <2> QED
    BY <1>2, <2>1, <2>2, <2>3
<1>6. ASSUME NEW j \in DOMAIN s PROVE s[j] \in Range(t) \cup {s[i]}
  <2>1. CASE j = i
    BY <2>1
  <2>2. CASE j < i
    <3>1. j \in 1 .. i - 1 /\ j \in DOMAIN t
      BY <1>1, <1>4, <2>2
    <3> QED
      BY <1>4, <3>1 DEF Range
  <2>3. CASE j > i
    <3>1. j \in i + 1 .. Len(s) /\ j - 1 \in DOMAIN t
      BY <1>1, <1>4, <2>3
    <3> QED
      BY <1>5, <3>1 DEF Range
  <2> QED
    BY <1>1, <2>1, <2>2, <2>3
<1> QED
  BY <1>6 DEF Range, t

LEMMA UnsentType ==
  ASSUME NEW c, Sound(c)
  PROVE  Unsent(c) \in Seq(Data) /\ c.wire \in Seq(Data)
<1>1. /\ c.wire \in Seq(Data) /\ c.m_queue.active \in Seq(Data)
      /\ c.write.data \in Seq(Data) /\ c.write.done \in Nat
  BY DEF Sound, Connections, Writes, QueueOf
<1>2. SubSeq(c.write.data, c.write.done + 1, Len(c.write.data)) \in Seq(Data)
  BY <1>1
<1> QED
  BY <1>1, <1>2 DEF Unsent

\* On one and the same link, what is carried stays carried.
LEMMA KeptCarries ==
  ASSUME NEW c, NEW e, Sound(c), KeptStep(c, e), NEW r, Carried(c, r)
  PROVE  Carried(e, r)
<1>0. Unsent(c) \in Seq(Data) /\ c.wire \in Seq(Data)
  BY UnsentType
<1>1. CASE Torn(c) /\ Torn(e) = Torn(c)
  BY <1>1 DEF Carried
<1>2. CASE Torn(e) = TRUE
  BY <1>2 DEF Carried
<1>3. CASE Unsent(e) = Unsent(c) /\ e.wire = c.wire /\ Torn(e) = Torn(c)
  BY <1>3 DEF Carried
<1>4. CASE /\ \E d \in Data : Unsent(e) = Append(Unsent(c), d)
           /\ e.wire = c.wire /\ Torn(e) = Torn(c)
  BY <1>0, <1>4, AppendRange DEF Carried
<1>5. CASE /\ ~Torn(c) /\ Unsent(c) # <<>>
           /\ e.wire = Append(c.wire, Head(Unsent(c)))
           /\ Unsent(e) = Tail(Unsent(c)) /\ Torn(e) = Torn(c)
  <2>1. Range(Unsent(c)) = Range(Unsent(e)) \cup {Head(Unsent(c))}
    BY <1>0, <1>5, TailRange
  <2>2. Range(e.wire) = Range(c.wire) \cup {Head(Unsent(c))}
    <3>1. Head(Unsent(c)) \in Data
      BY <1>0, <1>5
    <3> QED
      BY <1>0, <1>5, <3>1, AppendRange
  <2> QED
    BY <1>5, <2>1, <2>2 DEF Carried
<1> QED
  BY <1>1, <1>2, <1>3, <1>4, <1>5 DEF KeptStep

\* What is given to send_data is carried, or the connection is torn.
LEMMA SentCarried ==
  ASSUME NEW c, Sound(c), NEW d \in Data
  PROVE  Carried(send_data(c, d), d)
<1> DEFINE e == send_data(c, d)
<1>0. c \in Connections /\ c.m_queue \in QueueOf(Data) /\ c.write \in Writes
  BY DEF Sound, Connections
<1>1. CASE c.m_sending
  <2> DEFINE act == c.m_queue.active
             left == SubSeq(c.write.data, c.write.done + 1, Len(c.write.data))
  <2>1. act \in Seq(Data) /\ c.write.data \in Seq(Data) /\ c.write.done \in Nat
    BY <1>0 DEF QueueOf, Writes
  <2>2. e = [c EXCEPT !.m_queue = push(@, d)]
    BY <1>1 DEF send_data
  <2>3. e.write = c.write /\ e.m_queue = push(c.m_queue, d)
    BY <1>0, <2>2 DEF Connections
  <2>4. push(c.m_queue, d).active = Append(act, d)
    BY <1>0 DEF push, QueueOf
  <2>5. left \in Seq(Data)
    BY <2>1
  <2>6. Torn(e) \/ Unsent(e) = left \o Append(act, d)
    BY <2>3, <2>4 DEF Torn, Unsent
  <2> HIDE DEF e, act, left
  <2>7. d \in Range(left \o Append(act, d))
    <3> DEFINE both == left \o act
    <3>1. left \o Append(act, d) = Append(both, d) /\ both \in Seq(Data)
      BY <2>1, <2>5
    <3> HIDE DEF both
    <3>2. d \in Range(Append(both, d))
      BY <3>1, AppendRange
    <3> QED
      BY <3>1, <3>2
  <2> QED
    BY <2>6, <2>7 DEF Carried, e
<1>2. CASE ~c.m_sending
  <2> DEFINE b == [c EXCEPT !.m_sending = TRUE]
             one == <<d>>
  <2>1. b \in Connections
    BY <1>0 DEF Connections
  <2>2. b.m_queue = c.m_queue
    BY <1>0 DEF Connections
  <2>3. e = AsyncWrite(b, one, "single")
    BY <1>2 DEF send_data, init_single_send
  <2>4. c.m_queue.active = <<>>
    BY <1>2 DEF Sound
  <2>5. one \in Seq(Data) /\ d \in Range(one)
    BY DEF Range
  <2> HIDE DEF b, one, e
  <2>6. Torn(e) \/ Unsent(e) = one
    BY <2>1, <2>2, <2>3, <2>4, <2>5, StartedWrite
  <2> QED
    BY <2>5, <2>6 DEF Carried, e
<1> QED
  BY <1>1, <1>2

\* What the server takes is all that is no longer carried.
LEMMA ConsumedCarries ==
  ASSUME NEW c, Sound(c), NEW i \in DOMAIN c.wire, NEW r, Carried(c, r)
  PROVE  Carried(Consumed(c, i), r) \/ r = c.wire[i]
<1> DEFINE e == Consumed(c, i)
<1>1. c \in Connections /\ c.wire \in Seq(Data)
  BY DEF Sound, Connections
<1>2. /\ e.wire = RemoveAt(c.wire, i)
      /\ e.write = c.write /\ e.m_queue = c.m_queue /\ e.sock = c.sock /\ e.garbled = c.garbled
  BY <1>1 DEF Consumed, Connections
<1> HIDE DEF e
<1>3. Unsent(e) = Unsent(c) /\ Torn(e) = Torn(c)
  BY <1>2 DEF Unsent, Torn
<1>4. Range(c.wire) \subseteq Range(e.wire) \cup {c.wire[i]}
  BY <1>1, <1>2, RemoveAtRange
<1> QED
  BY <1>3, <1>4 DEF Carried, e

\* A step that leaves every live request with a trace.
LEMMA LossKept ==
  ASSUME loop' = "running" => \A r \in Live' : Carried(conn', r) \/ Noticed(r)'
  PROVE  NoSilentLoss'
  BY DEF NoSilentLoss, Carried, Noticed, Torn, Unsent

\* reset() leaves no live request registered, or no loop.
LEMMA ResetNoLoss ==
  ASSUME NEW c, NEW ms, NEW reqs, NEW out, reset(c, ms, reqs, out)
  PROVE  NoSilentLoss'
<1>1. m_requests' = {} \/ loop' = "dead"
  BY DEF reset, CleanReset, FaultyReset
<1> QED
  BY <1>1 DEF NoSilentLoss, Live

\* Inside connect() no live request is registered, and none is when the loop is absent.
LEMMA NoLiveWhileConnecting ==
  ASSUME Agree, io.op \in {"resolve", "connect", "hello"}
  PROVE  loop # "dead" /\ Live = {}
  BY DEF Agree, LoopAgrees, LiveServed, Live

LEMMA NextAddressNoLoss ==
  ASSUME Agree, io.op \in {"resolve", "connect", "hello"}, NextAddressOrError \/ ConnectError
  PROVE  NoSilentLoss'
<1>0. Live = {}
  BY NoLiveWhileConnecting
<1>1. UNCHANGED <<m_requests, outcome>>
        \/ \E c, ms, reqs, out : reset(c, ms, reqs, out)
  BY DEF NextAddressOrError, ConnectError, Continue
<1>2. CASE UNCHANGED <<m_requests, outcome>>
  BY <1>0, <1>2, LossKept DEF Live, Owed
<1> QED
  BY <1>1, <1>2, ResetNoLoss

LEMMA OnHelloNoLoss ==
  ASSUME Typed, Agree, OnHello
  PROVE  NoSilentLoss'
<1>0. Live = {} /\ io.op = "hello" /\ outcome \in [Ids -> Outcomes]
  BY NoLiveWhileConnecting DEF OnHello, Done, Typed, TypeOK
<1>1. CASE NextAddressOrError
  BY <1>0, <1>1, NextAddressNoLoss
<1>2. CASE loop = "absent" /\ ConnectorCreated
  <2>1. m_requests' = {}
    BY <1>2 DEF ConnectorCreated, Agree, LoopAgrees
  <2> QED
    BY <2>1 DEF NoSilentLoss, Live
<1>3. CASE LoopEndsUnlocked \/ LoopReconnected
  <2>1. UNCHANGED <<m_requests, outcome>>
    BY <1>3 DEF LoopEndsUnlocked, LoopReconnected
  <2> QED
    BY <1>0, <2>1, LossKept DEF Live, Owed
<1>4. CASE LoopReauthRefused
  <2>1. /\ outcome' = [outcome EXCEPT ![ReauthId] = "not_connected"]
        /\ m_requests' = m_requests \cup {ReauthId}
    BY <1>4 DEF LoopReauthRefused
  <2>2. Live' = {}
    BY <1>0, <2>1 DEF Live, Owed
  <2> QED
    BY <2>2, LossKept
<1> QED
  BY <1>1, <1>2, <1>3, <1>4 DEF OnHello

\* The loop starts its first read: what it knew of every request it still knows.
LEMMA LoopStepNoLoss ==
  ASSUME Typed, Agree, NoSilentLoss, LoopStart \/ OnReadError
  PROVE  NoSilentLoss'
<1>1. CASE \E c, ms, reqs, out : reset(c, ms, reqs, out)
  BY <1>1, ResetNoLoss
<1>2. CASE /\ LoopStart
           /\ UNCHANGED <<conn, m_requests, outcome, loop, inbox>>
  <2>1. io.op = "spawned"
    BY <1>2 DEF LoopStart
  <2>2. loop = "running" => \A r \in Live : Carried(conn, r) \/ Noticed(r)
    BY LossSplit
  <2>3. \A r : Noticed(r) => Noticed(r)'
    BY <1>2, <2>1 DEF Noticed, FrameSync
  <2>4. Live' = Live
    BY <1>2 DEF Live, Owed
  <2> QED
    BY <1>2, <2>2, <2>3, <2>4, LossKept
<1> QED
  BY <1>1, <1>2 DEF LoopStart, OnReadError, Continue

\* A frame completes its own request and takes nothing from the others.
LEMMA OnFrameNoLoss ==
  ASSUME Typed, Agree, NoSilentLoss, OnFrame
  PROVE  NoSilentLoss'
<1> DEFINE called == {FrameSync} \cap m_requests \cap Owed(outcome)
           failed == io.msg = AuthRefused /\ AuthId \in called
           rest == m_requests \ {FrameSync}
           out == Complete(outcome, called, IF failed THEN "refused" ELSE "ok")
<1>0. io.op = "read" /\ io.st = "ok" /\ UNCHANGED inbox
  BY DEF OnFrame, Done
<1>1. \/ \E c, ms, reqs, o : reset(c, ms, reqs, o)
      \/ loop' = "finished"
      \/ conn' = conn /\ m_requests' = rest /\ outcome' = out /\ UNCHANGED loop
  BY DEF OnFrame, Continue
<1>2. CASE conn' = conn /\ m_requests' = rest /\ outcome' = out /\ UNCHANGED loop
  <2>1. outcome \in [Ids -> Outcomes]
    BY DEF Typed, TypeOK
  <2>2. Owed(outcome') \subseteq Owed(outcome)
    BY <1>2, <2>1, CompleteOwed DEF Outcomes, Failures
  <2>3. Live' \subseteq Live \ {FrameSync}
    <3>1. Owed(outcome)' = Owed(outcome')
      BY DEF Owed
    <3> QED
      BY <1>2, <2>2, <3>1 DEF Live
  <2>4. \A r : Noticed(r) /\ r # FrameSync => Noticed(r)'
    BY <1>0 DEF Noticed
  <2>5. loop = "running" => \A r \in Live : Carried(conn, r) \/ Noticed(r)
    BY LossSplit
  <2> QED
    BY <1>2, <2>3, <2>4, <2>5, LossKept
<1>3. CASE loop' = "finished"
  BY <1>3, LossKept
<1> QED
  BY <1>1, <1>2, <1>3, ResetNoLoss

\* A step on the link that leaves the requests alone, or completes some, and may cancel
\* the read in progress.
LEMMA KeptNoLoss ==
  ASSUME Typed, NoSilentLoss, KeptStep(conn, conn'), io' \in {io, Cancelled(io)},
         UNCHANGED <<inbox, loop>>, Live' \subseteq Live
  PROVE  NoSilentLoss'
<1>1. loop = "running" => \A r \in Live : Carried(conn, r) \/ Noticed(r)
  BY LossSplit
<1>2. \A r : Carried(conn, r) => Carried(conn', r)
  BY KeptCarries DEF Typed
<1>3. \A r : Noticed(r) => Noticed(r)'
  BY DEF Noticed, FrameSync, Cancelled, Typed, TypeOK, Ios
<1> QED
  BY <1>1, <1>2, <1>3, LossKept

LEMMA RunPostedNoLoss ==
  ASSUME Typed, NoSilentLoss, RunPosted
  PROVE  NoSilentLoss'
<1> DEFINE r == Head(posted)
<1>0. /\ r \in Ids \cup {StopLambda} /\ UNCHANGED <<inbox, loop>> /\ Sound(conn)
      /\ outcome \in [Ids -> Outcomes]
  BY DEF RunPosted, Typed, TypeOK
<1>1. r # StopLambda => r \in Data
  BY <1>0, DataAssumption
<1>2. CASE r = StopLambda
  <2>1. conn' = stop(conn) /\ io' = Cancelled(io) /\ UNCHANGED <<m_requests, outcome>>
    BY <1>2 DEF RunPosted, Stopped
  <2>2. KeptStep(conn, conn')
    BY <1>0, <2>1, StopStep
  <2>3. Live' = Live
    BY <2>1 DEF Live, Owed
  <2> QED
    BY <1>0, <2>1, <2>2, <2>3, KeptNoLoss
<1>3. CASE r # StopLambda /\ Accepted(r)
  <2>1. /\ m_requests' = m_requests \cup {r} /\ conn' = send_data(conn, r)
        /\ UNCHANGED <<io, outcome>>
    BY <1>3 DEF Accepted
  <2> HIDE DEF r
  <2>2. KeptStep(conn, conn')
    BY <1>0, <1>1, <1>3, <2>1, SendStep
  <2>3. \A q : Carried(conn, q) => Carried(conn', q)
    BY <1>0, <2>2, KeptCarries
  <2>4. Carried(conn', r)
    BY <1>0, <1>1, <1>3, <2>1, SentCarried
  <2>5. Live' \subseteq Live \cup {r}
    BY <2>1 DEF Live, Owed
  <2>6. \A q : Noticed(q) => Noticed(q)'
    BY <1>0, <2>1 DEF Noticed, FrameSync
  <2>7. loop = "running" => \A q \in Live : Carried(conn, q) \/ Noticed(q)
    BY LossSplit
  <2> QED
    BY <1>0, <2>3, <2>4, <2>5, <2>6, <2>7, LossKept
<1>4. CASE r # StopLambda /\ Refused(r)
  <2> DEFINE c == IF AuthFailed({r}) THEN stop(conn) ELSE conn
  <2>1. /\ outcome' = [outcome EXCEPT ![r] = "not_connected"]
        /\ io' \in {io, Cancelled(io)}
        /\ m_requests' \subseteq m_requests \cup {r}
        /\ conn' \in {c, send_data(c, r)}
    BY <1>4 DEF Refused
  <2>2. Live' \subseteq Live
    <3>1. \A q \in Ids : outcome'[q] = IF q = r THEN "not_connected" ELSE outcome[q]
      BY <1>0, <2>1
    <3> HIDE DEF r
    <3> QED
      BY <2>1, <3>1 DEF Live, Owed
  <2> HIDE DEF r
  <2>3. Sound(c) /\ (c = conn \/ KeptStep(conn, c))
    BY <1>0, StopSound, StopStep
  <2>4. CASE conn' = c
    <3>1. KeptStep(conn, conn')
      BY <2>3, <2>4 DEF KeptStep
    <3> QED
      BY <1>0, <2>1, <2>2, <3>1, KeptNoLoss
  <2>5. CASE conn' = send_data(c, r)
    <3>1. KeptStep(c, conn')
      BY <1>1, <1>4, <2>3, <2>5, SendStep
    <3> HIDE DEF c
    <3>2. \A q : Carried(conn, q) => Carried(conn', q)
      BY <1>0, <2>3, <3>1, KeptCarries
    <3>3. \A q : Noticed(q) => Noticed(q)'
      BY <1>0, <2>1 DEF Noticed, FrameSync, Cancelled, Typed, TypeOK, Ios
    <3>4. loop = "running" => \A q \in Live : Carried(conn, q) \/ Noticed(q)
      BY LossSplit
    <3> QED
      BY <1>0, <2>2, <3>2, <3>3, <3>4, LossKept
  <2> QED
    BY <2>1, <2>4, <2>5
<1> QED
  BY <1>2, <1>3, <1>4 DEF RunPosted

\* The network: data moves from the queue to the pipe, from there to the server, and its
\* answer to the inbox and to the read; or a failure shows.
LEMMA NetNoLoss ==
  ASSUME Typed, Agree, NoSilentLoss, Net \/ NetReply \/ NetEvent
  PROVE  NoSilentLoss'
<1>0. /\ UNCHANGED <<m_requests, outcome, loop>> /\ inbox \in Seq(Frames) /\ io \in Ios
      /\ Sound(conn) /\ conn.wire \in Seq(Ids)
  BY DataAssumption DEF Net, NetReply, NetEvent, connectorVars, Typed, TypeOK, Connections
<1>1. Live' = Live
  BY <1>0 DEF Live, Owed
<1>2. loop = "running" => \A r \in Live : Carried(conn, r) \/ Noticed(r)
  BY LossSplit
<1>3. CASE NetResolve \/ NetConnect \/ NetHello
  <2>1. io.op \in {"resolve", "connect", "hello"}
    BY <1>3 DEF NetResolve, NetConnect, NetHello, Pending
  <2>2. Live = {}
    BY <2>1, NoLiveWhileConnecting
  <2> QED
    BY <1>1, <2>2, LossKept
<1>4. CASE NetBreak
  <2>1. conn' = PeerLost(conn)
    BY <1>4 DEF NetBreak
  <2>2. conn'.sock = "broken"
    BY <1>0, <2>1 DEF PeerLost, Sound, Connections
  <2>3. \A r : Carried(conn', r)
    BY <2>2 DEF Carried, Torn
  <2> QED
    BY <2>3, LossKept
<1>5. CASE NetReceive
  <2>1. /\ io.op = "read" /\ io.st = "pending" /\ inbox # <<>> /\ inbox' = Tail(inbox)
        /\ io' = [io EXCEPT !.st = "ok", !.msg = Head(inbox)] /\ UNCHANGED conn
    BY <1>5 DEF NetReceive, Pending
  <2>2. io'.msg = inbox[1] /\ io'.op = "read" /\ io'.st = "ok"
    BY <1>0, <2>1 DEF Ios
  <2>3. \A i \in DOMAIN inbox : i = 1 \/ (i - 1 \in DOMAIN inbox' /\ inbox'[i - 1] = inbox[i])
    BY <1>0, <2>1
  <2>4. \A r : Noticed(r) => \E i \in DOMAIN inbox : SyncOf(inbox[i]) = r
    BY <2>1 DEF Noticed
  <2>5. \A r : Noticed(r) => Noticed(r)'
    BY <2>2, <2>3, <2>4 DEF Noticed, FrameSync
  <2> QED
    BY <1>0, <1>1, <1>2, <2>1, <2>5, LossKept
<1>6. CASE NetReadError
  <2>1. io.op = "read" /\ io' = [io EXCEPT !.st = "error"]
    BY <1>6 DEF NetReadError, Pending
  <2>2. io'.op = "read" /\ io'.st = "error"
    BY <1>0, <2>1 DEF Ios
  <2> QED
    BY <2>2, LossKept DEF Noticed
<1>7. CASE NetTransfer \/ NetWriteFail
  <2>1. KeptStep(conn, conn')
    BY <1>0, <1>7, TransferredStep, PartTransferredStep, WriteFailedStep
       DEF NetTransfer, NetWriteFail
  <2>2. UNCHANGED <<io, inbox>>
    BY <1>7 DEF NetTransfer, NetWriteFail
  <2> QED
    BY <1>0, <1>1, <2>1, <2>2, KeptNoLoss
<1>8. CASE NetReply
  <2>1. PICK i \in DOMAIN conn.wire :
          /\ conn' = Consumed(conn, i)
          /\ \/ inbox' = Append(inbox, conn.wire[i])
             \/ /\ conn.wire[i] = AuthId
                /\ inbox' \in {Append(inbox, AuthRefused), Append(inbox, AuthUncharted)}
    BY <1>8 DEF NetReply
  <2>2. UNCHANGED io /\ conn.wire[i] \in Ids
    BY <1>0, <1>8 DEF NetReply
  <2>3. \A q \in Ids : SyncOf(q) = q
    BY ReqsAssumption DEF Ids, SyncOf, AuthRefused, AuthUncharted, AuthId, ReauthId
  <2>4. PICK f : inbox' = Append(inbox, f) /\ SyncOf(f) = conn.wire[i]
    BY <2>1, <2>2, <2>3 DEF SyncOf
  <2>5. /\ \A j \in DOMAIN inbox : j \in DOMAIN inbox' /\ inbox'[j] = inbox[j]
        /\ Len(inbox) + 1 \in DOMAIN inbox' /\ inbox'[Len(inbox) + 1] = f
    BY <1>0, <2>4
  <2>6. \A r : Noticed(r) => Noticed(r)'
    BY <2>2, <2>5 DEF Noticed, FrameSync
  <2>7. \A r : r = conn.wire[i] => Noticed(r)'
    BY <2>4, <2>5 DEF Noticed
  <2>8. \A r : Carried(conn, r) => Carried(conn', r) \/ r = conn.wire[i]
    BY <1>0, <2>1, ConsumedCarries
  <2> QED
    BY <1>0, <1>1, <1>2, <2>6, <2>7, <2>8, LossKept
<1>9. CASE NetEvent
  <2>1. inbox' = Append(inbox, EventFrame) /\ UNCHANGED <<io, conn>>
    BY <1>9 DEF NetEvent
  <2>2. \A j \in DOMAIN inbox : j \in DOMAIN inbox' /\ inbox'[j] = inbox[j]
    BY <1>0, <2>1
  <2>3. \A r : Noticed(r) => Noticed(r)'
    BY <2>1, <2>2 DEF Noticed, FrameSync
  <2> QED
    BY <1>0, <1>1, <1>2, <2>1, <2>3, LossKept
<1> QED
  BY <1>3, <1>4, <1>5, <1>6, <1>7, <1>8, <1>9 DEF Net

LEMMA LossStep ==
  ASSUME Safe, NoSilentLoss, [Next]_vars
  PROVE  NoSilentLoss'
<1>0. Typed /\ Agree /\ Issued /\ Sound(conn) /\ outcome \in [Ids -> Outcomes]
  BY DEF Safe, Bookkept, Typed, TypeOK
<1>1. CASE OnResolved
  BY <1>0, <1>1, NextAddressNoLoss DEF OnResolved, Done
<1>2. CASE OnConnected
  <2>1. Live = {} /\ io.op = "connect"
    BY <1>0, <1>2, NoLiveWhileConnecting DEF OnConnected, Done
  <2>2. CASE NextAddressOrError
    BY <1>0, <2>1, <2>2, NextAddressNoLoss
  <2>3. CASE UNCHANGED <<m_requests, outcome>>
    BY <2>1, <2>3, LossKept DEF Live, Owed
  <2> QED
    BY <1>2, <2>2, <2>3 DEF OnConnected, ConnectThrows, connectorVars
<1>3. CASE OnHello
  BY <1>0, <1>3, OnHelloNoLoss
<1>4. CASE LoopStart \/ OnReadError
  BY <1>0, <1>4, LoopStepNoLoss
<1>5. CASE OnFrame
  BY <1>0, <1>5, OnFrameNoLoss
<1>6. CASE DataSent
  <2>1. KeptStep(conn, conn')
    BY <1>0, <1>6, WriteOpStep DEF DataSent
  <2>2. io' \in {io, Cancelled(io)} /\ UNCHANGED <<inbox, loop, m_requests, outcome>>
    BY <1>6 DEF DataSent, connectorVars
  <2>3. Live' = Live
    BY <2>2 DEF Live, Owed
  <2> QED
    BY <1>0, <2>1, <2>2, <2>3, KeptNoLoss
<1>7. CASE RunPosted
  BY <1>0, <1>7, RunPostedNoLoss
<1>8. CASE Net \/ NetReply \/ NetEvent
  BY <1>0, <1>8, NetNoLoss
<1>9. CASE DropConnector \/ UNCHANGED vars
  BY <1>9 DEF DropConnector, vars, NoSilentLoss, Live, Owed, FrameSync, Torn, Unsent
<1>10. ASSUME NEW r \in Reqs, Call(r) PROVE NoSilentLoss'
  <2>1. /\ outcome[r] = "idle" /\ outcome' = [outcome EXCEPT ![r] = "issued"]
        /\ UNCHANGED <<conn, io, inbox, loop, m_requests>>
    BY <1>10 DEF Call
  <2>2. r \notin m_requests
    BY <1>0, <2>1 DEF Issued
  <2>3. Live' = Live
    BY <1>0, <2>1, <2>2 DEF Live, Owed
  <2> QED
    BY <2>1, <2>3 DEF NoSilentLoss, FrameSync, Torn, Unsent
<1> QED
  BY <1>1, <1>2, <1>3, <1>4, <1>5, <1>6, <1>7, <1>8, <1>9, <1>10 DEF Next, Strand, Terminated

\* The data of a live request is on its way, or its answer has come in, or the connection
\* shows a failure that makes the loop reset it: none waits for an answer nobody was asked.
THEOREM NothingLostSilently == Spec => []NoSilentLoss
<1>1. Init => NoSilentLoss
  BY DEF Init, NoSilentLoss
<1>2. Safe /\ NoSilentLoss /\ [Next]_vars => NoSilentLoss'
  BY LossStep
<1> QED
  BY <1>1, <1>2, ConnectorSafe, PTL DEF Spec
=============================================================================
