----------------------------- MODULE FifoLink ------------------------------
(***************************************************************************)
(* What the send path of a Connection promises, without sockets, write     *)
(* operations or a double buffer: messages leave in the order in which     *)
(* they were accepted, each at most once, and a link that has lost one is  *)
(* torn: it carries nothing more until it is replaced by a fresh one.      *)
(* So the server never sees a message after a gap.                         *)
(*                                                                         *)
(* A message that has been accepted and is still pending when the link is  *)
(* replaced may travel on the fresh link: the code does not promise that   *)
(* it is dropped.                                                          *)
(***************************************************************************)
EXTENDS Sequences, Naturals, SequencesExt

CONSTANT Msg

VARIABLES pending,  \* accepted, not yet handed over
          carried,  \* handed over on the current link, not yet consumed
          torn      \* the current link has lost a message, a part of one, or its peer

linkVars == <<pending, carried, torn>>

LinkInit == pending = <<>> /\ carried = <<>> /\ torn = TRUE

Accept == /\ \E m \in Msg : pending' = Append(pending, m)
          /\ UNCHANGED <<carried, torn>>

HandOver == /\ ~torn
            /\ pending # <<>>
            /\ carried' = Append(carried, Head(pending))
            /\ pending' = Tail(pending)
            /\ UNCHANGED torn

\* The link is lost, with or without what is pending.
Tear == /\ torn' = TRUE
        /\ carried' \in {carried, <<>>}
        /\ pending' \in {pending, <<>>}

\* A torn link swallows its pending messages in order.
Swallow == /\ torn
           /\ pending # <<>>
           /\ pending' = Tail(pending)
           /\ UNCHANGED <<carried, torn>>

\* A fresh link carries nothing; it may still inherit a failure report, or the second
\* half of a message.
Replace == /\ carried' = <<>>
           /\ torn' \in BOOLEAN
           /\ UNCHANGED pending

Take == /\ \E i \in DOMAIN carried : carried' = RemoveAt(carried, i)
        /\ UNCHANGED <<pending, torn>>

LinkNext == Accept \/ HandOver \/ Tear \/ Swallow \/ Replace \/ Take

LinkSpec == LinkInit /\ [][LinkNext]_linkVars
=============================================================================
