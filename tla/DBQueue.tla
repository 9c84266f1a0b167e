------------------------------ MODULE DBQueue ------------------------------
(***************************************************************************)
(* The double-buffered queue of detail/tntpp_queue.h: new elements go to   *)
(* the active vector, swap() freezes them in the inactive one, whose       *)
(* reference the send path hands to async_write.  A queue is a record, its *)
(* methods are functions on it.  Only the contents are modelled: the       *)
(* capacity that resize() and clear() leave behind is not (see README).    *)
(***************************************************************************)
EXTENDS Sequences

QueueOf(T) == [active : Seq(T), inactive : Seq(T)]

EmptyQueue == [active |-> <<>>, inactive |-> <<>>]

push(q, value) == [q EXCEPT !.active = Append(@, value)]

is_ready(q) == q.active # <<>>

\* std::swap followed by clearing what has become the active vector.
swap(q) == [active |-> <<>>, inactive |-> q.active]

\* Both vectors, the frozen one included.
clear(q) == [q EXCEPT !.active = <<>>, !.inactive = <<>>]
=============================================================================
