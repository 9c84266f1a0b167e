---------------------------- MODULE SharedBuffer ----------------------------
(***************************************************************************)
(* detail::SharedBuffer (tntpp_mutable_buffer.h): a block of memory with a *)
(* write and a read position.  Bytes below m_read_pointer are consumed,    *)
(* those up to m_write_pointer are ready and the rest may be written by a  *)
(* read operation at any time.  The assertions of the class are the        *)
(* property PositionsOrdered of Framing.tla.                               *)
(***************************************************************************)
EXTENDS Naturals, Sequences

Byte == 0 .. 255

\* The constructor; make_unique fills the memory with zeros.
SharedBuffer(size) ==
    [m_size          |-> size,
     m_write_pointer |-> 0,
     m_read_pointer  |-> 0,
     m_data          |-> [i \in 1 .. size |-> 0]]

free(s)  == s.m_size - s.m_write_pointer

ready(s) == s.m_write_pointer - s.m_read_pointer

is_empty(s) == s.m_write_pointer = 0

advance_reader(s, n) == [s EXCEPT !.m_read_pointer = @ + n]

advance_writer(s, n) == [s EXCEPT !.m_write_pointer = @ + n]

\* What memcpy, or a read operation, does: bytes are stored from offset on.
Written(s, offset, bytes) ==
    [s EXCEPT !.m_data = [i \in DOMAIN @ |->
        IF i \in offset + 1 .. offset + Len(bytes) THEN bytes[i - offset] ELSE @[i]]]

\* Bytes offset+1 .. offset+n of the memory.
Read(s, offset, n) == SubSeq(s.m_data, offset + 1, offset + n)

\* Mutant: the bytes consumed already are copied, instead of the rest.
copy_rest_from_start(s, other) ==
    advance_writer(Written(s, 0, Read(other, 0, ready(other))), ready(other))

\* copy_rest_from, on the new buffer.  MutableBuffer!prepare does what it does to the
\* old one: the bytes copied count as consumed there.
copy_rest_from(s, other) ==
    advance_writer(Written(s, 0, Read(other, other.m_read_pointer, ready(other))),
                   ready(other))
=============================================================================
