--------------------------- MODULE MutableBuffer ---------------------------
(***************************************************************************)
(* detail::MutableBuffer and detail::FrozenBuffer                          *)
(* (tntpp_mutable_buffer.h).  A MutableBuffer is represented by all the    *)
(* SharedBuffers it has ever allocated, the current one (m_buffer) last;   *)
(* earlier ones live on in the FrozenBuffers that reference them.  These   *)
(* are operators on such a sequence h; Framing.tla holds it as a variable. *)
(***************************************************************************)
EXTENDS Naturals, Sequences

CONSTANT DefaultLength   \* receive_buffer_size of the Config

ASSUME DefaultLengthAssumption == DefaultLength \in Nat

SB == INSTANCE SharedBuffer

MutableBuffer == <<SB!SharedBuffer(DefaultLength)>>

m_buffer(h) == h[Len(h)]

\* Mutant: the bytes not consumed yet are left behind.
prepare_no_copy(h, bytes) ==
    IF SB!free(m_buffer(h)) >= bytes
    THEN h
    ELSE Append(h, SB!SharedBuffer(SB!ready(m_buffer(h)) + bytes + DefaultLength))

\* A new buffer, with the rest of the old one, if bytes do not fit.
prepare(h, bytes) ==
    LET old == m_buffer(h)
        new == SB!SharedBuffer(SB!ready(old) + bytes + DefaultLength)
    IN  IF SB!free(old) >= bytes
        THEN h
        ELSE Append([h EXCEPT ![Len(h)] = SB!advance_reader(old, SB!ready(old))],
                    SB!copy_rest_from(new, old))

\* The effect of get_receive_buffer; the memory it returns is all that is free.
get_receive_buffer(h) ==
    IF SB!free(m_buffer(h)) = 0 THEN prepare(h, DefaultLength) ELSE h

advance_writer(h, bytes) == [h EXCEPT ![Len(h)] = SB!advance_writer(@, bytes)]

\* advance_reader returns FrozenBuffer(h, bytes), and leaves the buffer as follows.
advance_reader(h, bytes) == [h EXCEPT ![Len(h)] = SB!advance_reader(@, bytes)]

\* Mutant: the memory is used again, though frames may still reference it.
clear_in_place(h) ==
    [h EXCEPT ![Len(h)] = [@ EXCEPT !.m_read_pointer = 0, !.m_write_pointer = 0]]

\* A new buffer unless nothing was ever written to the current one.
clear(h) == IF SB!is_empty(m_buffer(h)) THEN h ELSE Append(h, SB!SharedBuffer(DefaultLength))
-----------------------------------------------------------------------------
(* FrozenBuffer: m_size bytes from m_data on in the buffer m_buf. *)

FrozenBuffer(h, bytes) ==
    [m_data |-> m_buffer(h).m_read_pointer, m_size |-> bytes, m_buf |-> Len(h)]

\* Mutant: the slice is as long as it should be and starts where the whole does.
slice_unmoved(f, start) == [f EXCEPT !.m_size = @ - start]

\* slice(start) with the default length.
slice(f, start) == [f EXCEPT !.m_data = @ + start, !.m_size = @ - start]

\* What a user of f reads now.
Contents(h, f) == SB!Read(h[f.m_buf], f.m_data, f.m_size)
=============================================================================
