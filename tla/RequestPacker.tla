--------------------------- MODULE RequestPacker ---------------------------
(***************************************************************************)
(* detail::RequestPacker (tntpp_request.h).  The stream of a message is a  *)
(* sequence of items [item, val] that stand for the bytes written:         *)
(*                                                                         *)
(*   "size"     the tag 0xce and the length of what follows, in items      *)
(*   "header"   the encoded MessageHeader                                  *)
(*   "map"      the tag of a map and the number of its entries             *)
(*   "key", "value"   the two halves of an entry                           *)
(***************************************************************************)
EXTENDS Integers, Sequences

Item(item, val) == [item |-> item, val |-> val]

\* All bits set: the size, and the count of a map, until they are known.
DummySize  == -1
DummyCount == 65535

NewPacker == [m_stream |-> <<Item("size", DummySize)>>, map_len_offset |-> 0,
              m_header_count |-> 0]

pack(p, item) == [p EXCEPT !.m_stream = Append(@, item)]

begin_map(p, count) == pack(p, Item("map", count))

\* begin_map() without a count: finalize_map fills it in.
begin_open_map(p) ==
    [pack(p, Item("map", DummyCount)) EXCEPT !.map_len_offset = Len(p.m_stream) + 1]

finalize_map(p) == [p EXCEPT !.m_stream[p.map_len_offset].val = p.m_header_count]

\* m_header_count has 16 bits.
pack_map_entry(p, field, data) ==
    [pack(pack(p, Item("key", field)), Item("value", data))
        EXCEPT !.m_header_count = (@ + 1) % 65536]

finalize(p) == [p EXCEPT !.m_stream[1].val = Len(p.m_stream) - 1]
=============================================================================
