--------------------------- MODULE MessageStream ---------------------------
(***************************************************************************)
(* What IprotoFraming promises its user: the messages of a connection, one *)
(* by one, unaltered and in order, until the connection fails; then those  *)
(* of the next one, from its first.  What was handed out never changes.    *)
(***************************************************************************)
EXTENDS Sequences

CONSTANT Messages

VARIABLES coming,   \* messages of the current connection that are still to come
          handed,   \* every message handed out, the oldest first
          up        \* the current connection has not failed

streamVars == <<coming, handed, up>>

Init ==
    /\ coming \in Seq(Messages)
    /\ handed = <<>>
    /\ up = TRUE

Deliver ==
    /\ up
    /\ coming # <<>>
    /\ handed' = Append(handed, Head(coming))
    /\ coming' = Tail(coming)
    /\ UNCHANGED up

Fail ==
    /\ up
    /\ up' = FALSE
    /\ UNCHANGED <<coming, handed>>

Replace ==
    /\ ~up
    /\ up' = TRUE
    /\ coming' \in Seq(Messages)
    /\ UNCHANGED handed

Next == Deliver \/ Fail \/ Replace

Spec == Init /\ [][Next]_streamVars
=============================================================================
