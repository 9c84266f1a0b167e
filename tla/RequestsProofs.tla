--------------------------- MODULE RequestsProofs ---------------------------
(***************************************************************************)
(* Proofs about the making of requests, for any set of operations, any     *)
(* spaces and indexes and any fields of a SelectBuilder.                   *)
(*                                                                         *)
(* The first part is about the packer: Framed is the shape of a message    *)
(* that is being written, and pack_map_entry keeps it.  The second is      *)
(* about the operations: Sound says what the message of an operation has   *)
(* come to at each of its stages, Numbered that identifiers are not        *)
(* shared, and Registered who waits for what.                              *)
(***************************************************************************)
EXTENDS Requests, SequenceTheorems, FiniteSetTheorems, TLAPS

LEMMA FieldNumbers ==
  /\ FieldType.SpaceId = 16 /\ FieldType.Sync = 1
  /\ FieldType.RequestType = 0 /\ FieldType.Tuple = 33 /\ FieldType.Key = 32
  /\ FieldType.FunctionName = 34 /\ FieldType.Expr = 39 /\ FieldType.Username = 35
  BY DEF FieldType

LEMMA FieldsAreNumbers == KnownFields \subseteq Nat
  BY DEF KnownFields, FieldType

LEMMA FieldsKnown ==
  /\ FieldType.SpaceId \in KnownFields
  /\ FieldType.Tuple \in KnownFields /\ FieldType.Key \in KnownFields
  /\ FieldType.FunctionName \in KnownFields /\ FieldType.Expr \in KnownFields
  /\ FieldType.Username \in KnownFields
  /\ BuilderFields \subseteq KnownFields
  BY BuilderAssumption DEF KnownFields, FieldType

LEMMA BuilderFieldNumbers == BuilderFields \subseteq 18 .. 47
<1>1. /\ FieldType.Limit = 18 /\ FieldType.Offset = 19 /\ FieldType.Iterator = 20
      /\ FieldType.Key = 32 /\ FieldType.AfterPosition = 46 /\ FieldType.AfterTuple = 47
      /\ FieldType.FetchPosition = 31
  BY DEF FieldType
<1> QED
  BY <1>1, BuilderAssumption
-----------------------------------------------------------------------------
(* The packer. *)

Header(type, sync) ==
    Item("header", pack_header([NewHeader EXCEPT !.sync = sync, !.request_type = type]))

\* What a stream is made of.
Items == [item : {"size", "map", "key", "value"}, val : Int]
            \cup {Header(t, s) : t \in Int, s \in Nat}

Packers == [m_stream : Seq(Items), map_len_offset : Nat, m_header_count : Nat]

LEMMA ItemFields ==
  ASSUME NEW k, NEW v
  PROVE  Item(k, v).item = k /\ Item(k, v).val = v
  BY DEF Item

LEMMA ItemType ==
  ASSUME NEW k \in {"size", "map", "key", "value"}, NEW v \in Int
  PROVE  Item(k, v) \in Items
  BY DEF Item, Items

LEMMA ItemAppended ==
  ASSUME NEW m \in Seq(Items), NEW x \in Items, NEW n \in Nat, n = Len(m)
  PROVE  /\ Append(m, x) \in Seq(Items)
         /\ Len(Append(m, x)) = n + 1
         /\ \A i \in 1 .. n : Append(m, x)[i] = m[i]
         /\ Append(m, x)[n + 1] = x
  BY AppendProperties

\* The header of a request names the request's sync, and the server reads it back.
LEMMA HeaderRead ==
  ASSUME NEW type, NEW sync
  PROVE  /\ Header(type, sync).item = "header"
         /\ convert(Header(type, sync).val).sync = sync
<1> DEFINE h == [NewHeader EXCEPT !.sync = sync, !.request_type = type]
           es == <<Entry(FieldType.Sync, sync), Entry(FieldType.RequestType, type)>>
<1>1. h.sync = sync /\ h.request_type = type /\ h.stream_id = NoStream
  BY DEF NewHeader
<1>2. pack_header(h) = Map(es \o <<>>)
  BY <1>1 DEF pack_header
<1>3. es \o <<>> = es
  BY DEF Entry
<1>4. pack_header(h).entries = es
  BY <1>2, <1>3 DEF Map
<1>5. {i \in DOMAIN es : es[i].key = FieldType.Sync} = {1}
  BY FieldNumbers DEF Entry
<1>6. Max({1}) = 1
  BY DEF Max
<1>7. es[1].val = sync
  BY DEF Entry
<1>8. ValueAt(pack_header(h), FieldType.Sync, NewHeader.sync) = sync
  <2> HIDE DEF h, es
  <2> QED
    BY <1>4, <1>5, <1>6, <1>7 DEF ValueAt
<1> QED
  BY <1>8, ItemFields DEF Header, convert

\* A message that is being written, as a request with this sync.
Framed(m, sync) ==
    /\ m \in Seq(Items)
    /\ Len(m) >= 3
    /\ Len(m) % 2 = 1
    /\ m[1].item = "size" /\ m[1] = Item("size", m[1].val)
    /\ m[2].item = "header" /\ convert(m[2].val).sync = sync
    /\ m[3].item = "map" /\ m[3] = Item("map", m[3].val)
    /\ \A i \in 4 .. Len(m) : m[i].item = IF i % 2 = 0 THEN "key" ELSE "value"
    /\ \A i, j \in 4 .. Len(m) : i # j /\ m[i].item = "key" => m[i] # m[j]

\* The keys written.
Keys(m) == {f \in KnownFields : \E i \in 4 .. Len(m) : m[i] = Item("key", f)}

\* The body of a message.
LEMMA BodyFields ==
  ASSUME NEW m \in Seq(Items), Len(m) >= 3
  PROVE  /\ Len(Body(m)) = Len(m) - 3
         /\ DOMAIN Body(m) = 1 .. Len(m) - 3
         /\ \A i \in 1 .. Len(m) - 3 : Body(m)[i] = m[i + 3]
<1> DEFINE n == Len(m)
<1>0. n \in Nat /\ n >= 3
  OBVIOUS
<1>1. \A i \in 4 .. n : m[i] \in Items
  OBVIOUS
<1>2. /\ Body(m) \in Seq(Items)
      /\ Len(Body(m)) = IF 4 <= n THEN n - 4 + 1 ELSE 0
      /\ \A i \in 1 .. n - 4 + 1 : Body(m)[i] = m[4 + i - 1]
  BY <1>0, <1>1, SubSeqProperties DEF Body
<1> HIDE DEF n
<1>3. (IF 4 <= n THEN n - 4 + 1 ELSE 0) = n - 3
  BY <1>0
<1>4. DOMAIN Body(m) = 1 .. n - 3
  BY <1>2, <1>3
<1>5. ASSUME NEW i \in 1 .. n - 3 PROVE Body(m)[i] = m[i + 3]
  <2>1. i \in 1 .. n - 4 + 1 /\ 4 + i - 1 = i + 3
    BY <1>0
  <2> QED
    BY <1>2, <2>1
<1> QED
  BY <1>2, <1>3, <1>4, <1>5 DEF n

\* With the size and the count right, the server can parse it.
LEMMA FramedParses ==
  ASSUME NEW m, NEW sync, Framed(m, sync), NEW n \in Nat, n = Len(m),
         m[1] = Item("size", n - 1), m[3] = Item("map", (n - 3) \div 2)
  PROVE  Parses(m, sync)
<1>0. m \in Seq(Items) /\ n >= 3 /\ n % 2 = 1
  BY Zenon DEF Framed
<1>1. /\ Len(Body(m)) = n - 3
      /\ \A i \in 1 .. n - 3 : Body(m)[i] = m[i + 3]
      /\ DOMAIN Body(m) = 1 .. n - 3
  BY <1>0, BodyFields
<1>2. \A i \in 1 .. n - 3 : i + 3 \in 4 .. n /\ ((i + 3) % 2 = 0 <=> i % 2 = 1)
  BY <1>0
<1>3. \A i \in DOMAIN Body(m) : Body(m)[i].item = IF i % 2 = 1 THEN "key" ELSE "value"
  <2> SUFFICES ASSUME NEW i \in 1 .. n - 3
               PROVE  m[i + 3].item = IF i % 2 = 1 THEN "key" ELSE "value"
    BY <1>1, Zenon
  <2>1. m[i + 3].item = IF (i + 3) % 2 = 0 THEN "key" ELSE "value"
    BY <1>2 DEF Framed
  <2> QED
    BY <1>2, <2>1
<1>4. \A i, j \in DOMAIN Body(m) : i # j /\ Body(m)[i].item = "key" => Body(m)[i] # Body(m)[j]
  <2> SUFFICES ASSUME NEW i \in DOMAIN Body(m), NEW j \in DOMAIN Body(m), i # j,
                      Body(m)[i].item = "key"
               PROVE  Body(m)[i] # Body(m)[j]
    OBVIOUS
  <2>1. i \in 1 .. n - 3 /\ j \in 1 .. n - 3
    BY <1>1, Zenon
  <2>2. i + 3 \in 4 .. n /\ j + 3 \in 4 .. n /\ i + 3 # j + 3
    BY <2>1
  <2>3. Body(m)[i] = m[i + 3] /\ Body(m)[j] = m[j + 3]
    BY <1>1, <2>1
  <2>4. m[i + 3].item = "key" => m[i + 3] # m[j + 3]
    BY <2>2, Zenon DEF Framed
  <2> QED
    BY <2>3, <2>4, Zenon
<1>5. (n - 3) % 2 = 0
  BY <1>0
<1> QED
  BY <1>0, <1>1, <1>3, <1>4, <1>5 DEF Parses, Framed

LEMMA EntryFields ==
  ASSUME NEW p \in Packers, NEW field \in KnownFields, NEW data, Item("value", data) \in Items
  PROVE  LET e == pack_map_entry(p, field, data)
             n == Len(p.m_stream)
         IN  /\ e \in Packers
             /\ e.map_len_offset = p.map_len_offset
             /\ e.m_header_count = (p.m_header_count + 1) % 65536
             /\ Len(e.m_stream) = n + 2
             /\ \A i \in 1 .. n : e.m_stream[i] = p.m_stream[i]
             /\ e.m_stream[n + 1] = Item("key", field)
             /\ e.m_stream[n + 2] = Item("value", data)
<1> DEFINE m == p.m_stream
           a == Append(m, Item("key", field))
           b == Append(a, Item("value", data))
           q == pack(pack(p, Item("key", field)), Item("value", data))
           e == pack_map_entry(p, field, data)
<1>1. m \in Seq(Items) /\ p.map_len_offset \in Nat /\ p.m_header_count \in Nat
  BY DEF Packers
<1>2. Item("key", field) \in Items /\ Item("value", data) \in Items
  BY ItemType, FieldsAreNumbers
<1>3. /\ a \in Seq(Items) /\ Len(a) = Len(m) + 1
      /\ \A i \in 1 .. Len(m) : a[i] = m[i]
      /\ a[Len(m) + 1] = Item("key", field)
  BY <1>1, <1>2, AppendProperties
<1> HIDE DEF a
<1>4. /\ b \in Seq(Items) /\ Len(b) = Len(a) + 1
      /\ \A i \in 1 .. Len(a) : b[i] = a[i]
      /\ b[Len(a) + 1] = Item("value", data)
  BY <1>2, <1>3, AppendProperties
<1>5. /\ pack(p, Item("key", field)) \in Packers
      /\ pack(p, Item("key", field)).m_stream = a
      /\ pack(p, Item("key", field)).map_len_offset = p.map_len_offset
      /\ pack(p, Item("key", field)).m_header_count = p.m_header_count
  BY <1>3 DEF pack, Packers, a
<1>6. /\ q \in Packers
      /\ q.m_stream = b
      /\ q.map_len_offset = p.map_len_offset
      /\ q.m_header_count = p.m_header_count
  BY <1>4, <1>5 DEF pack, Packers
<1> HIDE DEF b, q
<1> DEFINE c == (p.m_header_count + 1) % 65536
<1>7. e = [q EXCEPT !.m_header_count = c]
  BY <1>6 DEF pack_map_entry, q
<1>8. c \in Nat
  BY <1>1
<1> HIDE DEF e, m, c
<1>9. /\ e \in Packers
      /\ e.m_stream = b
      /\ e.map_len_offset = p.map_len_offset
      /\ e.m_header_count = c
  BY <1>6, <1>7, <1>8 DEF Packers
<1>10. /\ Len(m) \in Nat
       /\ Len(b) = Len(m) + 2
       /\ \A i \in 1 .. Len(m) : b[i] = m[i]
       /\ b[Len(m) + 1] = Item("key", field)
       /\ b[Len(m) + 2] = Item("value", data)
  BY <1>1, <1>3, <1>4
<1> QED
  BY <1>9, <1>10 DEF e, m, c

\* t is m with an entry more.
Longer(t, m, field, data) ==
    /\ Len(t) = Len(m) + 2
    /\ \A i \in 1 .. Len(m) : t[i] = m[i]
    /\ t[Len(m) + 1] = Item("key", field)
    /\ t[Len(m) + 2] = Item("value", data)

\* e has counted an entry more than p.
Counted(e, p) ==
    /\ e.map_len_offset = p.map_len_offset
    /\ e.m_header_count = (p.m_header_count + 1) % 65536

LEMMA EntryStream ==
  ASSUME NEW p \in Packers, NEW field \in KnownFields, NEW data, Item("value", data) \in Items,
         NEW e, e = pack_map_entry(p, field, data)
  PROVE  /\ e \in Packers
         /\ Counted(e, p)
         /\ Longer(e.m_stream, p.m_stream, field, data)
  BY EntryFields DEF Longer, Counted

\* An entry under a key that is not there yet keeps the shape.
LEMMA FramedEntry ==
  ASSUME NEW p \in Packers, NEW field \in KnownFields, NEW data, NEW sync,
         Item("value", data) \in Items,
         Framed(p.m_stream, sync), field \notin Keys(p.m_stream)
  PROVE  LET e == pack_map_entry(p, field, data)
         IN  /\ Framed(e.m_stream, sync)
             /\ Keys(e.m_stream) = Keys(p.m_stream) \cup {field}
<1> DEFINE m == p.m_stream
           n == Len(p.m_stream)
           t == pack_map_entry(p, field, data).m_stream
<1>1. /\ t \in Seq(Items) /\ Len(t) = n + 2
      /\ \A i \in 1 .. n : t[i] = m[i]
      /\ t[n + 1] = Item("key", field)
      /\ t[n + 2] = Item("value", data)
  <2> DEFINE e == pack_map_entry(p, field, data)
  <2>1. e = pack_map_entry(p, field, data) /\ t = e.m_stream
    OBVIOUS
  <2> HIDE DEF e, t
  <2>2. e \in Packers /\ Longer(e.m_stream, p.m_stream, field, data)
    BY <2>1, EntryStream
  <2>3. e.m_stream \in Seq(Items)
    BY <2>2 DEF Packers
  <2> QED
    BY <2>1, <2>2, <2>3 DEF Longer
<1>2. /\ n \in Nat /\ n >= 3 /\ n % 2 = 1
      /\ \A i \in 4 .. n : m[i].item = IF i % 2 = 0 THEN "key" ELSE "value"
      /\ \A i, j \in 4 .. n : i # j /\ m[i].item = "key" => m[i] # m[j]
  <2>1. n \in Nat
    BY DEF Packers
  <2> QED
    BY <2>1, Zenon DEF Framed
<1>3. t[1] = m[1] /\ t[2] = m[2] /\ t[3] = m[3]
  BY <1>1, <1>2
<1>4. /\ t[n + 1].item = "key" /\ t[n + 1].val = field
      /\ t[n + 2].item = "value" /\ t[n + 2].val = data
  BY <1>1, ItemFields
<1>5. \A i \in 4 .. n : m[i] # Item("key", field)
  BY DEF Keys
<1> HIDE DEF t, m, n
<1>6. (n + 2) % 2 = 1 /\ (n + 1) % 2 = 0
  BY <1>2
<1>7. \A i \in 4 .. Len(t) : i \in 4 .. n \/ i = n + 1 \/ i = n + 2
  BY <1>1, <1>2
<1>8. \A i \in 4 .. n : i \in 1 .. n /\ i # n + 1 /\ i # n + 2 /\ t[i] = m[i]
  BY <1>1, <1>2
<1>9. \A i \in 4 .. Len(t) : t[i].item = IF i % 2 = 0 THEN "key" ELSE "value"
  <2> SUFFICES ASSUME NEW i \in 4 .. Len(t)
               PROVE  t[i].item = IF i % 2 = 0 THEN "key" ELSE "value"
    OBVIOUS
  <2>1. CASE i \in 4 .. n
    BY <2>1, <1>2, <1>8
  <2>2. CASE i = n + 1 \/ i = n + 2
    BY <2>2, <1>2, <1>4, <1>6
  <2> QED
    BY <2>1, <2>2, <1>7
<1>10. \A i, j \in 4 .. Len(t) : i # j /\ t[i].item = "key" => t[i] # t[j]
  <2> SUFFICES ASSUME NEW i \in 4 .. Len(t), NEW j \in 4 .. Len(t), i # j, t[i].item = "key"
               PROVE  t[i] # t[j]
    OBVIOUS
  <2>1. CASE i \in 4 .. n /\ j \in 4 .. n
    BY <2>1, <1>2, <1>8
  <2>2. CASE i = n + 2
    BY <2>2, <1>4
  <2>3. CASE j = n + 2
    BY <2>3, <1>4
  <2>4. CASE i = n + 1 /\ j \in 4 .. n
    BY <2>4, <1>1, <1>5, <1>8
  <2>5. CASE j = n + 1 /\ i \in 4 .. n
    BY <2>5, <1>1, <1>5, <1>8
  <2> QED
    BY <2>1, <2>2, <2>3, <2>4, <2>5, <1>7
<1>11. Keys(t) = Keys(m) \cup {field}
  <2>1. ASSUME NEW f \in Keys(t) PROVE f \in Keys(m) \cup {field}
    <3>1. PICK i \in 4 .. Len(t) : t[i] = Item("key", f)
      BY DEF Keys
    <3>2. CASE i \in 4 .. n
      BY <3>1, <3>2, <1>8 DEF Keys, n, m
    <3>3. CASE i = n + 1
      BY <3>1, <3>3, <1>4, ItemFields
    <3>4. CASE i = n + 2
      BY <3>1, <3>4, <1>4, ItemFields
    <3> QED
      BY <3>2, <3>3, <3>4, <1>7
  <2>2. ASSUME NEW f \in Keys(m) PROVE f \in Keys(t)
    <3>1. PICK i \in 4 .. n : m[i] = Item("key", f)
      BY DEF Keys, n, m
    <3>2. i \in 4 .. Len(t) /\ t[i] = Item("key", f)
      BY <3>1, <1>1, <1>2, <1>8
    <3> QED
      BY <3>2 DEF Keys
  <2>3. field \in Keys(t)
    <3>1. n + 1 \in 4 .. Len(t)
      BY <1>1, <1>2
    <3> QED
      BY <3>1, <1>1 DEF Keys
  <2> QED
    BY <2>1, <2>2, <2>3
<1>12. Framed(t, sync)
  <2>1. /\ m[1].item = "size" /\ m[1] = Item("size", m[1].val)
        /\ m[2].item = "header" /\ convert(m[2].val).sync = sync
        /\ m[3].item = "map" /\ m[3] = Item("map", m[3].val)
    BY DEF Framed, m
  <2>2. Len(t) >= 3 /\ Len(t) % 2 = 1
    BY <1>1, <1>2, <1>6
  <2> QED
    BY <1>1, <1>3, <1>9, <1>10, <2>1, <2>2 DEF Framed
<1> QED
  BY <1>11, <1>12 DEF t, m

\* A packer begun with a header, and with a map of a known or an open size.
LEMMA OpenedFields ==
  ASSUME NEW type \in Int, NEW sync \in Nat
  PROVE  LET p == Opened(type, sync)
         IN  /\ p \in Packers
             /\ Len(p.m_stream) = 2
             /\ p.m_stream[1] = Item("size", DummySize)
             /\ p.m_stream[2] = Header(type, sync)
             /\ p.m_header_count = 0
<1> DEFINE one == <<Item("size", DummySize)>>
           h == Header(type, sync)
           two == Append(one, h)
<1>1. h \in Items /\ Item("size", DummySize) \in Items
  BY ItemType DEF Items, DummySize
<1>2. one \in Seq(Items) /\ Len(one) = 1 /\ one[1] = Item("size", DummySize)
  BY <1>1
<1> HIDE DEF one, h
<1>3. /\ two \in Seq(Items) /\ Len(two) = 2
      /\ two[1] = Item("size", DummySize) /\ two[2] = h
  <2> DEFINE n == Len(one)
  <2>1. n \in Nat /\ n = 1
    BY <1>2
  <2> HIDE DEF n
  <2>2. /\ two \in Seq(Items) /\ Len(two) = n + 1
        /\ \A i \in 1 .. n : two[i] = one[i]
        /\ two[n + 1] = h
    BY <1>1, <1>2, <2>1, ItemAppended DEF n
  <2> QED
    BY <1>2, <2>1, <2>2
<1>4. NewPacker \in Packers /\ NewPacker.m_stream = one /\ NewPacker.m_header_count = 0
  BY <1>2 DEF NewPacker, Packers, one
<1>5. Opened(type, sync) = [NewPacker EXCEPT !.m_stream = two]
  BY <1>4 DEF Opened, pack, Header, h
<1> HIDE DEF two
<1> QED
  BY <1>3, <1>4, <1>5 DEF Packers, h

LEMMA MapOpened ==
  ASSUME NEW type \in Int, NEW sync \in Nat, NEW count \in Nat
  PROVE  LET p == pack(Opened(type, sync), Item("map", count))
         IN  /\ p \in Packers
             /\ Framed(p.m_stream, sync)
             /\ Len(p.m_stream) = 3
             /\ p.m_stream[3] = Item("map", count)
             /\ p.m_header_count = 0
             /\ Keys(p.m_stream) = {}
<1> DEFINE o == Opened(type, sync)
           m == Append(o.m_stream, Item("map", count))
           p == pack(o, Item("map", count))
<1>1. /\ o \in Packers /\ o.m_stream \in Seq(Items) /\ Len(o.m_stream) = 2
      /\ o.m_stream[1] = Item("size", DummySize)
      /\ o.m_stream[2] = Header(type, sync)
      /\ o.m_header_count = 0
  BY OpenedFields DEF Packers
<1> HIDE DEF o
<1>2. Item("map", count) \in Items
  BY ItemType
<1>3. /\ m \in Seq(Items) /\ Len(m) = 2 + 1
      /\ \A i \in 1 .. 2 : m[i] = o.m_stream[i]
      /\ m[2 + 1] = Item("map", count)
  BY <1>1, <1>2, ItemAppended
<1>4. p \in Packers /\ p.m_stream = m /\ p.m_header_count = 0
  BY <1>1, <1>3 DEF pack, Packers
<1> HIDE DEF m, p
<1>5. /\ Len(m) = 3 /\ m[1] = Item("size", DummySize)
      /\ m[2] = Header(type, sync) /\ m[3] = Item("map", count)
  BY <1>1, <1>3
<1>6. /\ m[1].item = "size" /\ m[1] = Item("size", m[1].val)
      /\ m[2].item = "header" /\ convert(m[2].val).sync = sync
      /\ m[3].item = "map" /\ m[3] = Item("map", m[3].val)
  BY <1>5, HeaderRead, ItemFields
<1>7. Framed(m, sync)
  <2>1. /\ Len(m) >= 3 /\ Len(m) % 2 = 1
        /\ \A i \in 4 .. Len(m) : FALSE
    BY <1>5
  <2> QED
    BY <1>3, <1>6, <2>1, Zenon DEF Framed
<1>8. Keys(m) = {}
  BY <1>5 DEF Keys
<1> QED
  BY <1>4, <1>5, <1>7, <1>8 DEF p, o

LEMMA OpenMapFields ==
  ASSUME NEW sync \in Nat
  PROVE  LET p == SelectBuilder(sync)
         IN  /\ p \in Packers
             /\ Framed(p.m_stream, sync)
             /\ Len(p.m_stream) = 3
             /\ p.m_header_count = 0
             /\ p.map_len_offset = 3
             /\ Keys(p.m_stream) = {}
<1> DEFINE o == Opened(RequestType.Select, sync)
           q == pack(o, Item("map", DummyCount))
           p == SelectBuilder(sync)
<1>1. RequestType.Select \in Int /\ DummyCount \in Nat
  BY DEF RequestType, DummyCount
<1>2. /\ q \in Packers /\ Framed(q.m_stream, sync) /\ Len(q.m_stream) = 3
      /\ q.m_header_count = 0 /\ Keys(q.m_stream) = {}
  BY <1>1, MapOpened
<1>3. Len(o.m_stream) = 2
  BY <1>1, OpenedFields
<1>4. p = [q EXCEPT !.map_len_offset = 3]
  BY <1>3 DEF SelectBuilder, begin_open_map
<1> HIDE DEF p, q
<1>5. p \in Packers /\ p.m_stream = q.m_stream /\ p.m_header_count = 0 /\ p.map_len_offset = 3
  BY <1>2, <1>4 DEF Packers
<1> QED
  BY <1>2, <1>5 DEF p

\* finalize_map and finalize fill in the count and the size, and nothing else.
LEMMA Refilled ==
  ASSUME NEW m, NEW sync, Framed(m, sync), NEW k \in {1, 3}, NEW v \in Int, NEW f,
         f = [m EXCEPT ![k].val = v]
  PROVE  /\ Framed(f, sync)
         /\ Len(f) = Len(m)
         /\ f[k] = Item(IF k = 1 THEN "size" ELSE "map", v)
         /\ \A i \in 1 .. Len(m) : i # k => f[i] = m[i]
         /\ Keys(f) = Keys(m)
<1> DEFINE w == IF k = 1 THEN "size" ELSE "map"
           n == Len(m)
<1>0. m \in Seq(Items) /\ n \in Nat /\ n >= 3 /\ n % 2 = 1
  <2>1. m \in Seq(Items)
    BY DEF Framed
  <2>2. n \in Nat
    BY <2>1
  <2> QED
    BY <2>1, <2>2, Zenon DEF Framed
<1>1. m[k] = Item(w, m[k].val)
  BY DEF Framed
<1>2. [m[k] EXCEPT !.val = v] = Item(w, v)
  <2>1. [Item(w, m[k].val) EXCEPT !.val = v] = Item(w, v)
    BY DEF Item
  <2> QED
    BY <1>1, <2>1, Zenon
<1>3. f = [m EXCEPT ![k] = Item(w, v)]
  BY <1>2, Zenon
<1>4. Item(w, v) \in Items
  BY ItemType
<1> HIDE DEF w
<1>5. /\ f \in Seq(Items) /\ Len(f) = n
      /\ \A i \in 1 .. n : i # k => f[i] = m[i]
      /\ f[k] = Item(w, v)
  BY <1>0, <1>3, <1>4
<1> HIDE DEF n
<1>6. \A i \in 4 .. n : f[i] = m[i]
  BY <1>0, <1>5
<1>7. Keys(f) = Keys(m)
  BY <1>5, <1>6 DEF Keys, n
<1>8. f[k].item = w /\ f[k].val = v
  <2>1. Item(w, v).item = w /\ Item(w, v).val = v
    BY ItemFields
  <2> QED
    BY <1>5, <2>1, Zenon
<1>9. /\ f[1].item = "size" /\ f[1] = Item("size", f[1].val)
      /\ f[2].item = "header" /\ convert(f[2].val).sync = sync
      /\ f[3].item = "map" /\ f[3] = Item("map", f[3].val)
  <2>1. /\ m[1].item = "size" /\ m[1] = Item("size", m[1].val)
        /\ m[2].item = "header" /\ convert(m[2].val).sync = sync
        /\ m[3].item = "map" /\ m[3] = Item("map", m[3].val)
    BY DEF Framed
  <2>2. f[2] = m[2]
    BY <1>0, <1>5
  <2>3. CASE k = 1
    <3>1. f[3] = m[3] /\ w = "size"
      BY <2>3, <1>0, <1>5 DEF w
    <3> QED
      BY <2>1, <2>2, <2>3, <3>1, <1>5, <1>8, Zenon
  <2>4. CASE k = 3
    <3>1. f[1] = m[1] /\ w = "map"
      BY <2>4, <1>0, <1>5 DEF w
    <3> QED
      BY <2>1, <2>2, <2>4, <3>1, <1>5, <1>8, Zenon
  <2> QED
    BY <2>3, <2>4
<1>10. /\ \A i \in 4 .. n : f[i].item = IF i % 2 = 0 THEN "key" ELSE "value"
       /\ \A i, j \in 4 .. n : i # j /\ f[i].item = "key" => f[i] # f[j]
  <2>1. /\ \A i \in 4 .. n : m[i].item = IF i % 2 = 0 THEN "key" ELSE "value"
        /\ \A i, j \in 4 .. n : i # j /\ m[i].item = "key" => m[i] # m[j]
    BY Zenon DEF Framed, n
  <2> QED
    BY <1>6, <2>1, Zenon
<1>11. Framed(f, sync)
  BY <1>0, <1>5, <1>9, <1>10, Zenon DEF Framed
<1> QED
  BY <1>5, <1>7, <1>11 DEF w, n

LEMMA FinalizeFields ==
  ASSUME NEW p \in Packers, NEW sync, Framed(p.m_stream, sync)
  PROVE  LET f == finalize(p).m_stream
             m == p.m_stream
         IN  /\ finalize(p) \in Packers
             /\ Framed(f, sync)
             /\ Len(f) = Len(m)
             /\ f[1] = Item("size", Len(m) - 1)
             /\ \A i \in 2 .. Len(m) : f[i] = m[i]
             /\ Keys(f) = Keys(m)
<1> DEFINE m == p.m_stream
           v == Len(m) - 1
           f == finalize(p).m_stream
<1>1. m \in Seq(Items) /\ v \in Int
  BY DEF Packers
<1>2. f = [m EXCEPT ![1].val = v]
  BY DEF finalize, Packers
<1> HIDE DEF f, v
<1>3. /\ Framed(f, sync)
      /\ Len(f) = Len(m)
      /\ f[1] = Item(IF 1 = 1 THEN "size" ELSE "map", v)
      /\ \A i \in 1 .. Len(m) : i # 1 => f[i] = m[i]
      /\ Keys(f) = Keys(m)
  BY <1>1, <1>2, Refilled
<1>4. finalize(p) = [p EXCEPT !.m_stream = f]
  BY DEF finalize, Packers, f
<1>5. f \in Seq(Items)
  BY <1>3, Zenon DEF Framed
<1>6. finalize(p) \in Packers
  BY <1>4, <1>5 DEF Packers
<1> QED
  BY <1>1, <1>3, <1>6 DEF f, v

LEMMA FinalizeMapFields ==
  ASSUME NEW p \in Packers, NEW sync, Framed(p.m_stream, sync), p.map_len_offset = 3
  PROVE  LET q == finalize_map(p)
             f == q.m_stream
             m == p.m_stream
         IN  /\ q \in Packers
             /\ Framed(f, sync)
             /\ Len(f) = Len(m)
             /\ f[3] = Item("map", p.m_header_count)
             /\ \A i \in 4 .. Len(m) : f[i] = m[i]
             /\ Keys(f) = Keys(m)
<1> DEFINE m == p.m_stream
           q == finalize_map(p)
           f == [m EXCEPT ![3].val = p.m_header_count]
<1>1. m \in Seq(Items) /\ Len(m) \in Nat /\ p.m_header_count \in Int
  BY DEF Packers
<1>2. q = [p EXCEPT !.m_stream = f]
  BY DEF finalize_map
<1>3. /\ Framed(f, sync)
      /\ Len(f) = Len(m)
      /\ f[3] = Item(IF 3 = 1 THEN "size" ELSE "map", p.m_header_count)
      /\ \A i \in 1 .. Len(m) : i # 3 => f[i] = m[i]
      /\ Keys(f) = Keys(m)
  BY <1>1, Refilled
<1>4. f \in Seq(Items)
  BY <1>3, Zenon DEF Framed
<1> HIDE DEF f, q
<1>5. q \in Packers /\ q.m_stream = f
  BY <1>2, <1>4 DEF Packers
<1>6. \A i \in 4 .. Len(m) : f[i] = m[i]
  BY <1>1, <1>3
<1>7. f[3] = Item("map", p.m_header_count)
  BY <1>3
<1> QED
  BY <1>3, <1>5, <1>6, <1>7 DEF q

-----------------------------------------------------------------------------
(* The messages. *)

LEMMA RequestTypes ==
  /\ RequestType.Ping \in Int /\ RequestType.Call \in Int /\ RequestType.Eval \in Int
  /\ RequestType.Auth \in Int /\ RequestType.Insert \in Int /\ RequestType.Replace \in Int
  /\ RequestType.Delete \in Int /\ RequestType.Select \in Int
  BY DEF RequestType

\* The message of a Box that is not a select, begun.
Started(p, sync, count, field) ==
    /\ p \in Packers
    /\ Framed(p.m_stream, sync)
    /\ Len(p.m_stream) = 5
    /\ p.m_stream[3] = Item("map", count)
    /\ Keys(p.m_stream) = {field}

LEMMA BoxMessage ==
  ASSUME NEW type \in Int, NEW sync \in Nat, NEW count \in Nat, NEW field \in KnownFields
  PROVE  Started(pack_map_entry(begin_map(Opened(type, sync), count), field, 0),
                 sync, count, field)
<1> DEFINE b == begin_map(Opened(type, sync), count)
           p == pack_map_entry(b, field, 0)
<1>0. Item("value", 0) \in Items
  BY ItemType
<1>1. /\ b \in Packers /\ Framed(b.m_stream, sync) /\ Len(b.m_stream) = 3
      /\ b.m_stream[3] = Item("map", count) /\ Keys(b.m_stream) = {}
  BY MapOpened DEF begin_map
<1> HIDE DEF b
<1>2. p \in Packers /\ Longer(p.m_stream, b.m_stream, field, 0)
  BY <1>0, <1>1, EntryStream, Zenon
<1>3. field \notin Keys(b.m_stream)
  BY <1>1
<1>4. Framed(p.m_stream, sync) /\ Keys(p.m_stream) = Keys(b.m_stream) \cup {field}
  BY <1>0, <1>1, <1>3, FramedEntry, Zenon
<1> HIDE DEF p
<1>5. Len(p.m_stream) = 5 /\ p.m_stream[3] = Item("map", count)
  BY <1>1, <1>2 DEF Longer
<1> QED
  BY <1>1, <1>2, <1>4, <1>5 DEF Started, p, b

\* A request of the Connector with two entries.
LEMMA TwoEntries ==
  ASSUME NEW type \in Int, NEW sync \in Nat, NEW f \in KnownFields, NEW g \in KnownFields, f # g
  PROVE  LET p == finalize(pack_map_entry(pack_map_entry(
                               begin_map(Opened(type, sync), 2), f, 0), g, 0))
         IN  p \in Packers /\ Parses(p.m_stream, sync)
<1> DEFINE b == pack_map_entry(begin_map(Opened(type, sync), 2), f, 0)
           e == pack_map_entry(b, g, 0)
           p == finalize(e)
<1>0. Item("value", 0) \in Items /\ 2 \in Nat
  BY ItemType
<1>b. Started(b, sync, 2, f)
  BY <1>0, BoxMessage, Zenon
<1> HIDE DEF b
<1>1. /\ b \in Packers /\ Framed(b.m_stream, sync) /\ Len(b.m_stream) = 5
      /\ b.m_stream[3] = Item("map", 2) /\ Keys(b.m_stream) = {f}
  BY <1>b DEF Started
<1>2. e \in Packers /\ Longer(e.m_stream, b.m_stream, g, 0)
  BY <1>0, <1>1, EntryStream, Zenon
<1>3. g \notin Keys(b.m_stream)
  BY <1>1
<1>4. Framed(e.m_stream, sync)
  BY <1>0, <1>1, <1>3, FramedEntry, Zenon
<1> HIDE DEF e
<1>5. /\ p \in Packers /\ Framed(p.m_stream, sync) /\ Len(p.m_stream) = Len(e.m_stream)
      /\ p.m_stream[1] = Item("size", Len(e.m_stream) - 1)
      /\ \A i \in 2 .. Len(e.m_stream) : p.m_stream[i] = e.m_stream[i]
  BY <1>2, <1>4, FinalizeFields, Zenon
<1> HIDE DEF p
<1>6. Len(e.m_stream) = 7 /\ e.m_stream[3] = b.m_stream[3] /\ (7 - 3) \div 2 = 2
  BY <1>1, <1>2 DEF Longer
<1>7. /\ 7 \in Nat /\ 7 = Len(p.m_stream)
      /\ p.m_stream[1] = Item("size", 7 - 1) /\ p.m_stream[3] = Item("map", (7 - 3) \div 2)
  BY <1>1, <1>5, <1>6
<1>8. Parses(p.m_stream, sync)
  BY <1>5, <1>7, FramedParses, Zenon
<1> QED
  BY <1>5, <1>8 DEF p, e, b

\* The requests of the Connector can be parsed.
LEMMA ConnectorMessages ==
  ASSUME NEW sync \in Nat, NEW p \in {ping(sync), call(sync), eval(sync), auth(sync)}
  PROVE  p \in Packers /\ Parses(p.m_stream, sync)
<1>1. CASE p = ping(sync)
  <2> DEFINE b == begin_map(Opened(RequestType.Ping, sync), 0)
  <2>1. /\ b \in Packers /\ Framed(b.m_stream, sync) /\ Len(b.m_stream) = 3
        /\ b.m_stream[3] = Item("map", 0)
    BY MapOpened, RequestTypes DEF begin_map
  <2> HIDE DEF b
  <2>2. /\ p \in Packers /\ Framed(p.m_stream, sync) /\ Len(p.m_stream) = 3
        /\ p.m_stream[1] = Item("size", Len(b.m_stream) - 1)
        /\ p.m_stream[3] = b.m_stream[3]
    BY <1>1, <2>1, FinalizeFields DEF ping, b
  <2>3. (3 - 3) \div 2 = 0 /\ Len(b.m_stream) - 1 = 3 - 1
    BY <2>1
  <2>4. p.m_stream[1] = Item("size", 3 - 1) /\ p.m_stream[3] = Item("map", (3 - 3) \div 2)
    BY <2>1, <2>2, <2>3
  <2> QED
    BY <2>2, <2>4, FramedParses
<1>2. /\ FieldType.FunctionName # FieldType.Tuple
      /\ FieldType.Expr # FieldType.Tuple /\ FieldType.Username # FieldType.Tuple
  BY FieldNumbers
<1>3. CASE p = call(sync)
  BY <1>2, <1>3, TwoEntries, RequestTypes, FieldsKnown, Zenon DEF call
<1>4. CASE p = eval(sync)
  BY <1>2, <1>4, TwoEntries, RequestTypes, FieldsKnown, Zenon DEF eval
<1>5. CASE p = auth(sync)
  BY <1>2, <1>5, TwoEntries, RequestTypes, FieldsKnown, Zenon DEF auth
<1> QED
  BY <1>1, <1>3, <1>4, <1>5
-----------------------------------------------------------------------------
(* The operations. *)

Stages == {"none", "builder", "space", "entering", "pack", "send", "sent", "failed"}

Kinds == {"none", "ping", "call", "eval", "auth"} \cup BoxKinds

Variants == SpaceVariants \cup {Unset}

\* A packer, or what is left of one that is gone.
OpRecords ==
    [st : Stages, kind : Kinds, sync : Nat, space : Variants, index : Variants,
     space_index : Nat, packer : Packers, onStrand : BOOLEAN, eager : BOOLEAN,
     dangling : BOOLEAN]

\* The message of a Box, until it is completed.
Begun(r) ==
    LET m == r.packer.m_stream
    IN  /\ Framed(m, r.sync)
        /\ FieldType.SpaceId \notin Keys(m)
        /\ r.kind = "select" =>
              /\ r.packer.map_len_offset = 3
              /\ Keys(m) \subseteq BuilderFields
              /\ r.packer.m_header_count = Cardinality(Keys(m))
              /\ Len(m) = 3 + 2 * Cardinality(Keys(m))
        /\ r.kind # "select" => Len(m) = 5 /\ m[3] = Item("map", 2)

LEMMA VariantIds ==
  ASSUME NEW v \in Variants
  PROVE  v.id \in Nat
<1>1. CASE v = Unset
  BY <1>1 DEF Unset
<1>2. CASE v # Unset
  BY <1>2, VariantsAssumption DEF Variants
<1> QED
  BY <1>1, <1>2

\* Few enough fields for the 16 bits of the count.
LEMMA FewKeys ==
  ASSUME NEW K, K \subseteq BuilderFields
  PROVE  IsFiniteSet(K) /\ Cardinality(K) \in Nat /\ Cardinality(K) <= 48
<1> DEFINE n == 47
<1>1. n \in Nat /\ n = 47
  OBVIOUS
<1> HIDE DEF n
<1>2. K \in SUBSET Nat /\ \A s \in K : s <= n
  BY <1>1, BuilderFieldNumbers
<1>3. IsFiniteSet(K) /\ Cardinality(K) <= n + 1
  BY <1>1, <1>2, FS_BoundedSetOfNaturals
<1> QED
  BY <1>1, <1>3, FS_CardinalityType

\* Adding SpaceId to a message that is begun.
LEMMA SpaceAdded ==
  ASSUME NEW r \in OpRecords, Begun(r), NEW p,
         p = pack_map_entry(r.packer, FieldType.SpaceId, r.space_index)
  PROVE  /\ p \in Packers
         /\ Counted(p, r.packer)
         /\ Longer(p.m_stream, r.packer.m_stream, FieldType.SpaceId, r.space_index)
         /\ Framed(p.m_stream, r.sync)
<1>1. r.packer \in Packers /\ r.space_index \in Int
  BY DEF OpRecords
<1>2. Item("value", r.space_index) \in Items
  BY <1>1, ItemType
<1>3. FieldType.SpaceId \in KnownFields
  BY FieldsKnown
<1>4. /\ p \in Packers /\ Counted(p, r.packer)
      /\ Longer(p.m_stream, r.packer.m_stream, FieldType.SpaceId, r.space_index)
  BY <1>1, <1>2, <1>3, EntryStream, Zenon
<1>5. Framed(r.packer.m_stream, r.sync) /\ FieldType.SpaceId \notin Keys(r.packer.m_stream)
  BY DEF Begun
<1>6. Framed(p.m_stream, r.sync)
  BY <1>1, <1>2, <1>3, <1>5, FramedEntry, Zenon
<1> QED
  BY <1>4, <1>6

\* finalize completes a message whose count is right.
LEMMA Finished ==
  ASSUME NEW q \in Packers, NEW sync, Framed(q.m_stream, sync),
         q.m_stream[3] = Item("map", (Len(q.m_stream) - 3) \div 2)
  PROVE  finalize(q) \in Packers /\ Parses(finalize(q).m_stream, sync)
<1> DEFINE m == q.m_stream
           f == finalize(q).m_stream
           n == Len(m)
<1>1. m \in Seq(Items) /\ n \in Nat
  BY DEF Packers
<1>2. n >= 3
  BY <1>1, Zenon DEF Framed
<1>3. /\ finalize(q) \in Packers /\ Framed(f, sync) /\ Len(f) = n
      /\ f[1] = Item("size", n - 1)
      /\ \A i \in 2 .. n : f[i] = m[i]
  BY FinalizeFields, Zenon
<1> HIDE DEF m, f, n
<1>4. f[3] = m[3]
  BY <1>1, <1>2, <1>3
<1>5. f[3] = Item("map", (n - 3) \div 2)
  BY <1>4, Zenon DEF m, n
<1>6. Parses(f, sync)
  BY <1>1, <1>3, <1>5, FramedParses, Zenon
<1> QED
  BY <1>3, <1>6 DEF f

\* The message of a Box can be parsed once it is completed.
LEMMA CompletedParses ==
  ASSUME NEW r \in OpRecords, r.kind \in BoxKinds, Begun(r)
  PROVE  Completed(r) \in Packers /\ Parses(Completed(r).m_stream, r.sync)
<1> DEFINE p == pack_map_entry(r.packer, FieldType.SpaceId, r.space_index)
           m == r.packer.m_stream
           n == Len(m)
           d == Completed(r)
<1>1. /\ p \in Packers /\ Counted(p, r.packer)
      /\ Longer(p.m_stream, m, FieldType.SpaceId, r.space_index)
      /\ Framed(p.m_stream, r.sync)
  BY SpaceAdded, Zenon
<1>2. m \in Seq(Items) /\ n \in Nat
  BY DEF OpRecords, Packers
<1>3. n >= 3
  BY <1>2, Zenon DEF Framed, Begun
<1>4. d = finalize(IF r.kind = "select" THEN finalize_map(p) ELSE p)
  BY Zenon DEF Completed
<1> HIDE DEF p, m, n, d
<1>5. Len(p.m_stream) = n + 2 /\ \A i \in 1 .. n : p.m_stream[i] = m[i]
  BY <1>1 DEF Longer, n
<1>6. CASE r.kind = "select"
  <2> DEFINE q == finalize_map(p)
             c == Cardinality(Keys(m))
  <2>1. /\ r.packer.map_len_offset = 3 /\ Keys(m) \subseteq BuilderFields
        /\ r.packer.m_header_count = c /\ n = 3 + 2 * c
    BY <1>6 DEF Begun, m, n
  <2>2. c \in Nat /\ c <= 48
    BY <2>1, FewKeys
  <2> HIDE DEF c
  <2>3. p.map_len_offset = 3 /\ p.m_header_count = c + 1
    BY <1>1, <2>1, <2>2 DEF Counted
  <2>4. /\ q \in Packers
        /\ Framed(q.m_stream, r.sync)
        /\ Len(q.m_stream) = Len(p.m_stream)
        /\ q.m_stream[3] = Item("map", p.m_header_count)
    BY <1>1, <2>3, FinalizeMapFields, Zenon
  <2>5. d = finalize(q)
    BY <1>4, <1>6
  <2> HIDE DEF q
  <2>6. c + 1 = (Len(q.m_stream) - 3) \div 2
    BY <1>5, <2>1, <2>2, <2>4
  <2>7. q.m_stream[3] = Item("map", (Len(q.m_stream) - 3) \div 2)
    BY <2>3, <2>4, <2>6, Zenon
  <2> QED
    BY <2>4, <2>5, <2>7, Finished, Zenon DEF d
<1>7. CASE r.kind # "select"
  <2>1. n = 5 /\ m[3] = Item("map", 2)
    BY <1>7 DEF Begun, m, n
  <2>2. d = finalize(p)
    BY <1>4, <1>7
  <2>3. p.m_stream[3] = m[3] /\ (Len(p.m_stream) - 3) \div 2 = 2
    BY <1>5, <2>1
  <2>4. p.m_stream[3] = Item("map", (Len(p.m_stream) - 3) \div 2)
    BY <2>1, <2>3, Zenon
  <2> QED
    BY <1>1, <2>2, <2>4, Finished, Zenon DEF d
<1> QED
  BY <1>6, <1>7

\* What an operation has come to.
Sound(r) ==
    /\ r \in OpRecords
    /\ r.st = "builder" => r.kind = "select"
    /\ r.st \in {"space", "entering"} => r.kind \in BoxKinds
    /\ r.kind \in BoxKinds /\ r.st \in {"builder", "space", "entering", "pack"} => Begun(r)
    /\ r.kind \notin BoxKinds /\ r.st = "pack" => Parses(r.packer.m_stream, r.sync)
    /\ r.st = "send" => r.dangling \/ Parses(r.packer.m_stream, r.sync)

\* The same call with the same message, if further on.
SameCall(e, r) == e.kind = r.kind /\ e.sync = r.sync /\ e.packer = r.packer

\* An operation of a Box that fails, waits for the strand or has its space resolved.
LEMMA AdvancedSound ==
  ASSUME NEW r, Sound(r), r.st \in {"space", "entering"}, NEW e \in OpRecords,
         SameCall(e, r), e.st \in {"failed", "entering", "pack"}
  PROVE  Sound(e)
<1>1. r.kind \in BoxKinds /\ Begun(r)
  BY DEF Sound
<1>2. Begun(e)
  BY <1>1, Zenon DEF SameCall, Begun
<1>3. e.kind \in BoxKinds
  BY <1>1 DEF SameCall
<1> QED
  BY <1>2, <1>3 DEF Sound

\* A space that was given, or one that was a name, is resolved.
LEMMA ResolvedStage ==
  ASSUME NEW r \in OpRecords, NEW id \in Nat, NEW s \in BOOLEAN, NEW e,
         e = [r EXCEPT !.st = "pack", !.space_index = id, !.onStrand = s]
  PROVE  e \in OpRecords /\ SameCall(e, r) /\ e.st = "pack"
<1>1. e \in OpRecords /\ e.st = "pack"
  BY DEF OpRecords, Stages
<1>2. SameCall(e, r)
  BY DEF OpRecords, SameCall
<1> QED
  BY <1>1, <1>2

\* The message is given to the strand, or sent.
LEMMA SendingSound ==
  ASSUME NEW r, Sound(r), r.st = "pack", NEW m \in Messages(r), NEW e,
         \/ e = [r EXCEPT !.st = "send", !.packer.m_stream = m]
         \/ e = [r EXCEPT !.st = "sent"]
  PROVE  /\ m \in Seq(Items) /\ (e.dangling \/ Parses(m, e.sync))
         /\ Sound(e) /\ e.sync = r.sync
<1>1. r \in OpRecords /\ r.packer \in Packers
  BY DEF Sound, OpRecords
<1>2. m \in Seq(Items) /\ (r.dangling \/ Parses(m, r.sync))
  <2>1. CASE r.kind \in BoxKinds
    <3>1. Begun(r)
      BY <2>1 DEF Sound
    <3>2. Completed(r) \in Packers /\ Parses(Completed(r).m_stream, r.sync)
      BY <1>1, <2>1, <3>1, CompletedParses
    <3>3. Completed(r).m_stream \in Seq(Items) /\ <<>> \in Seq(Items)
      BY <3>2 DEF Packers
    <3>4. m = Completed(r).m_stream \/ (r.dangling /\ m = <<>>)
      BY <2>1 DEF Messages
    <3> QED
      BY <3>2, <3>3, <3>4
  <2>2. CASE r.kind \notin BoxKinds
    <3>1. Parses(r.packer.m_stream, r.sync)
      BY <2>2 DEF Sound
    <3>2. m = r.packer.m_stream \/ (r.dangling /\ m = <<>>)
      BY <2>2 DEF Messages
    <3>3. r.packer.m_stream \in Seq(Items) /\ <<>> \in Seq(Items)
      BY <1>1 DEF Packers
    <3> QED
      BY <3>1, <3>2, <3>3
  <2> QED
    BY <2>1, <2>2
<1>3. /\ e \in OpRecords /\ e.st \in {"send", "sent"} /\ e.sync = r.sync
      /\ e.st = "send" => e.packer.m_stream = m
  <2>1. CASE e = [r EXCEPT !.st = "sent"]
    BY <1>1, <2>1 DEF OpRecords, Stages
  <2>2. CASE e = [r EXCEPT !.st = "send", !.packer.m_stream = m]
    <3> DEFINE q == [r.packer EXCEPT !.m_stream = m]
    <3>1. q \in Packers /\ q.m_stream = m
      BY <1>1, <1>2 DEF Packers
    <3>2. e = [r EXCEPT !.st = "send", !.packer = q]
      BY <2>2
    <3> HIDE DEF q
    <3> QED
      BY <1>1, <3>1, <3>2 DEF OpRecords, Stages
  <2> QED
    BY <2>1, <2>2
<1>4. e.dangling = r.dangling
  BY <1>1 DEF OpRecords
<1>5. e.dangling \/ Parses(m, e.sync)
  BY <1>2, <1>3, <1>4, Zenon
<1>6. e.st = "send" => e.dangling \/ Parses(e.packer.m_stream, e.sync)
  BY <1>3, <1>5, Zenon
<1>7. e.st \notin {"builder", "space", "entering", "pack"} /\ e.st # "builder" /\ e.st # "pack"
      /\ e.st \notin {"space", "entering"}
  BY <1>3
<1> QED
  BY <1>2, <1>3, <1>5, <1>6, <1>7, Zenon DEF Sound
-----------------------------------------------------------------------------
(* The system. *)

Typed ==
    /\ m_request_id \in Nat
    /\ op \in [Ops -> OpRecords]
    /\ posted \in Seq(Ops)
    /\ sent \in Seq([op : Ops, message : Seq(Items)])

AllSound == \A o \in Ops : Sound(op[o])

\* Identifiers are handed out once.
Numbered ==
    /\ \A o \in Ops : op[o].st # "none" => op[o].sync < m_request_id
    /\ \A o, p \in Ops : o # p /\ op[o].st # "none" /\ op[p].st # "none" =>
                            op[o].sync # op[p].sync

\* The operations that wait for replies are those whose message was sent.
Registered ==
    /\ \A s \in DOMAIN m_requests :
          m_requests[s] \in Ops /\ op[m_requests[s]].st = "sent" /\ op[m_requests[s]].sync = s
    /\ \A o \in Ops : op[o].st = "sent" => op[o].sync \in DOMAIN m_requests

\* What was sent was complete, unless its packer was gone.
Delivered ==
    \A i \in DOMAIN sent :
        LET r == op[sent[i].op]
        IN  r.st = "sent" /\ (r.dangling \/ Parses(sent[i].message, r.sync))

IInv == Typed /\ AllSound /\ Numbered /\ Registered /\ Delivered

LEMMA SentEntry ==
  ASSUME Typed, NEW i \in DOMAIN sent
  PROVE  sent[i].op \in Ops /\ sent[i].message \in Seq(Items)
<1> DEFINE S == [op : Ops, message : Seq(Items)]
<1>1. sent \in Seq(S)
  BY DEF Typed
<1> HIDE DEF S
<1>2. sent[i] \in S
  BY <1>1
<1> QED
  BY <1>2 DEF S

\* A user makes a request: it takes an identifier that nobody has.
LEMMA BeginStep ==
  ASSUME IInv, NEW o \in Ops, NEW e, Begin(o, e), Sound(e),
         e.sync = m_request_id, e.st \notin {"none", "sent"}
  PROVE  IInv'
<1>1. /\ m_request_id' = m_request_id + 1 /\ m_request_id \in Nat
      /\ UNCHANGED <<posted, m_requests, sent>>
      /\ op[o].st = "none"
  BY DEF Begin, generate_id, IInv, Typed
<1>2. e \in OpRecords
  BY DEF Sound
<1>3. op' \in [Ops -> OpRecords] /\ op'[o] = e /\ \A p \in Ops \ {o} : op'[p] = op[p]
  BY <1>2 DEF Begin, IInv, Typed
<1>4. Typed'
  BY <1>1, <1>3 DEF IInv, Typed
<1>5. AllSound'
  BY <1>3, Zenon DEF IInv, AllSound
<1>6. \A p \in Ops : op'[p].sync \in Nat /\ op[p].sync \in Nat
  BY <1>3 DEF IInv, Typed, OpRecords
<1>7. Numbered'
  <2>1. \A p \in Ops \ {o} : op[p].st # "none" => op[p].sync < m_request_id
    BY DEF IInv, Numbered
  <2>2. \A p \in Ops : op'[p].st # "none" => op'[p].sync < m_request_id + 1
    BY <1>1, <1>3, <1>6, <2>1
  <2>3. ASSUME NEW p \in Ops, NEW q \in Ops, p # q, op'[p].st # "none", op'[q].st # "none"
        PROVE  op'[p].sync # op'[q].sync
    <3>1. CASE p = o
      BY <2>3, <3>1, <1>1, <1>3, <1>6, <2>1
    <3>2. CASE q = o
      BY <2>3, <3>2, <1>1, <1>3, <1>6, <2>1
    <3>3. CASE p # o /\ q # o
      BY <2>3, <3>3, <1>3 DEF IInv, Numbered
    <3> QED
      BY <3>1, <3>2, <3>3
  <2> QED
    BY <1>1, <2>2, <2>3 DEF Numbered
<1>8. Registered'
  <2>1. \A s \in DOMAIN m_requests : m_requests[s] \in Ops \ {o}
    BY <1>1 DEF IInv, Registered
  <2> QED
    BY <1>1, <1>3, <2>1 DEF IInv, Registered
<1>9. Delivered'
  <2>1. \A i \in DOMAIN sent : sent[i].op \in Ops \ {o}
    BY <1>1, SentEntry DEF IInv, Delivered
  <2> QED
    BY <1>1, <1>3, <2>1, Zenon DEF IInv, Delivered
<1> QED
  BY <1>4, <1>5, <1>7, <1>8, <1>9 DEF IInv

\* An operation gets further, without being sent.
LEMMA KeepStep ==
  ASSUME IInv, NEW o \in Ops, NEW e, op' = [op EXCEPT ![o] = e], Sound(e),
         op[o].st \notin {"none", "sent"}, e.st \notin {"none", "sent"}, e.sync = op[o].sync,
         UNCHANGED <<m_request_id, m_requests, sent>>, posted' \in Seq(Ops)
  PROVE  IInv'
<1>2. e \in OpRecords
  BY DEF Sound
<1>3. op' \in [Ops -> OpRecords] /\ op'[o] = e /\ \A p \in Ops \ {o} : op'[p] = op[p]
  BY <1>2 DEF IInv, Typed
<1>4. Typed'
  BY <1>3 DEF IInv, Typed
<1>5. AllSound'
  BY <1>3, Zenon DEF IInv, AllSound
<1>6. \A p \in Ops : op'[p].sync = op[p].sync /\ (op'[p].st = "none" <=> op[p].st = "none")
                      /\ (op'[p].st = "sent" <=> op[p].st = "sent")
  BY <1>3
<1>7. Numbered'
  BY <1>6 DEF IInv, Numbered
<1>8. Registered'
  BY <1>6 DEF IInv, Registered
<1>9. Delivered'
  <2>1. \A i \in DOMAIN sent : sent[i].op \in Ops \ {o}
    BY SentEntry DEF IInv, Delivered
  <2> QED
    BY <1>3, <2>1, Zenon DEF IInv, Delivered
<1> QED
  BY <1>4, <1>5, <1>7, <1>8, <1>9 DEF IInv

\* send_request, on the strand: nobody waits under this identifier yet.
LEMMA DispatchStep ==
  ASSUME IInv, NEW o \in Ops, NEW e, op' = [op EXCEPT ![o] = e], Sound(e),
         op[o].st \notin {"none", "sent"}, e.st = "sent", e.sync = op[o].sync,
         NEW m \in Seq(Items), e.dangling \/ Parses(m, e.sync), Dispatched(o, m),
         UNCHANGED m_request_id, posted' \in Seq(Ops)
  PROVE  IInv'
<1> DEFINE x == [op |-> o, message |-> m]
           D == DOMAIN m_requests
<1>2. e \in OpRecords
  BY DEF Sound
<1>3. op' \in [Ops -> OpRecords] /\ op'[o] = e /\ \A p \in Ops \ {o} : op'[p] = op[p]
  BY <1>2 DEF IInv, Typed
<1>4. /\ x \in [op : Ops, message : Seq(Items)] /\ x.op = o /\ x.message = m
      /\ sent \in Seq([op : Ops, message : Seq(Items)])
  BY DEF IInv, Typed
<1>5. sent' = Append(sent, x)
  BY DEF Dispatched
<1> HIDE DEF x
<1>6. /\ sent' \in Seq([op : Ops, message : Seq(Items)])
      /\ \A i \in DOMAIN sent' : sent'[i] = x \/ (i \in DOMAIN sent /\ sent'[i] = sent[i])
  BY <1>4, <1>5, AppendProperties
<1>7. Typed'
  BY <1>3, <1>6 DEF IInv, Typed
<1>8. AllSound'
  BY <1>3, Zenon DEF IInv, AllSound
<1>9. \A p \in Ops : op'[p].sync = op[p].sync /\ (op'[p].st = "none" <=> op[p].st = "none")
  BY <1>3
<1>10. Numbered'
  BY <1>9 DEF IInv, Numbered
<1>11. \A s \in D : /\ m_requests[s] \in Ops \ {o} /\ op[m_requests[s]].st = "sent"
                     /\ op[m_requests[s]].sync = s
  BY DEF IInv, Registered
<1>12. op[o].sync \notin D
  BY <1>11 DEF IInv, Numbered
<1>13. /\ DOMAIN m_requests' = D \cup {op[o].sync}
       /\ \A s \in D : m_requests'[s] = m_requests[s]
       /\ m_requests'[op[o].sync] = o
  BY <1>12 DEF Dispatched
<1>14. Registered'
  <2>1. ASSUME NEW s \in DOMAIN m_requests'
        PROVE  /\ m_requests'[s] \in Ops /\ op'[m_requests'[s]].st = "sent"
               /\ op'[m_requests'[s]].sync = s
    <3>1. CASE s \in D
      BY <3>1, <1>3, <1>11, <1>13
    <3>2. CASE s = op[o].sync
      BY <3>2, <1>3, <1>13
    <3> QED
      BY <3>1, <3>2, <1>13
  <2>2. ASSUME NEW p \in Ops, op'[p].st = "sent" PROVE op'[p].sync \in DOMAIN m_requests'
    <3>1. CASE p = o
      BY <3>1, <1>9, <1>13
    <3>2. CASE p # o
      BY <2>2, <3>2, <1>3, <1>13 DEF IInv, Registered
    <3> QED
      BY <3>1, <3>2
  <2> QED
    BY <2>1, <2>2 DEF Registered
<1>15. Delivered'
  <2> SUFFICES ASSUME NEW i \in DOMAIN sent'
               PROVE  LET r == op'[sent'[i].op]
                      IN  r.st = "sent" /\ (r.dangling \/ Parses(sent'[i].message, r.sync))
    BY DEF Delivered
  <2>1. CASE sent'[i] = x
    BY <2>1, <1>3, <1>4, Zenon
  <2>2. CASE i \in DOMAIN sent /\ sent'[i] = sent[i]
    <3>1. sent[i].op \in Ops \ {o}
      BY <2>2, SentEntry DEF IInv, Delivered
    <3> QED
      BY <2>2, <3>1, <1>3, Zenon DEF IInv, Delivered
  <2> QED
    BY <2>1, <2>2, <1>6
<1> QED
  BY <1>7, <1>8, <1>10, <1>14, <1>15 DEF IInv
-----------------------------------------------------------------------------
(* The actions. *)

LEMMA IdleFields ==
  Idle \in OpRecords /\ Idle.st = "none"
<1>1. NewPacker \in Packers
  BY ItemType DEF NewPacker, Packers, DummySize
<1>2. Idle \in OpRecords
  BY <1>1 DEF Idle, OpRecords, Stages, Kinds, Variants
<1> QED
  BY <1>2 DEF Idle

LEMMA RequestStep ==
  ASSUME IInv, NEW o \in Ops, NEW s \in BOOLEAN,
         Ping(o, s) \/ Call(o, s) \/ Eval(o, s) \/ Auth(o, s)
  PROVE  IInv'
<1>0. m_request_id \in Nat
  BY DEF IInv, Typed
<1>1. ASSUME NEW kind \in {"ping", "call", "eval", "auth"},
             NEW p \in {ping(m_request_id), call(m_request_id), eval(m_request_id),
                        auth(m_request_id)},
             Request(o, kind, p, s)
      PROVE  IInv'
  <2> DEFINE e == [Idle EXCEPT !.st = "pack", !.kind = kind, !.sync = m_request_id,
                               !.packer = p, !.onStrand = s]
  <2>1. p \in Packers /\ Parses(p.m_stream, m_request_id)
    BY <1>0, <1>1, ConnectorMessages
  <2>2. e \in OpRecords
    BY <1>0, <2>1, IdleFields DEF OpRecords, Stages, Kinds
  <2>3. e.st = "pack" /\ e.kind = kind /\ e.sync = m_request_id /\ e.packer = p
    BY IdleFields DEF OpRecords
  <2>4. Begin(o, e)
    BY <1>1 DEF Request
  <2> HIDE DEF e
  <2>5. Sound(e)
    BY <2>1, <2>2, <2>3 DEF Sound, BoxKinds
  <2> QED
    BY <2>3, <2>4, <2>5, BeginStep
<1> QED
  BY <1>1 DEF Ping, Call, Eval, Auth

LEMMA BoxStep ==
  ASSUME IInv, NEW o \in Ops, NEW s \in BOOLEAN, NEW eager \in BOOLEAN,
         NEW space \in SpaceVariants,
         Insert(o, space, s) \/ Replace(o, space, s) \/ Remove(o, space, s, eager)
  PROVE  IInv'
<1>0. m_request_id \in Nat
  BY DEF IInv, Typed
<1>1. ASSUME NEW kind \in BoxKinds \ {"select"}, NEW p, NEW g \in BOOLEAN,
             NEW f \in {FieldType.Tuple, FieldType.Key},
             Started(p, m_request_id, 2, f),
             BoxRequest(o, kind, p, space, s, g)
      PROVE  IInv'
  <2> DEFINE e == [Idle EXCEPT !.st = "space", !.kind = kind, !.sync = m_request_id,
                               !.packer = p, !.space = space, !.onStrand = s, !.eager = g]
  <2>1. p \in Packers
    BY <1>1 DEF Started
  <2>2. e \in OpRecords
    BY <1>0, <2>1, IdleFields DEF OpRecords, Stages, Kinds, Variants
  <2>3. e.st = "space" /\ e.kind = kind /\ e.sync = m_request_id /\ e.packer = p
    BY IdleFields DEF OpRecords
  <2>4. Begin(o, e)
    BY <1>1 DEF BoxRequest
  <2> HIDE DEF e
  <2>5. Begun(e)
    <3>1. FieldType.SpaceId # f
      BY <1>1, FieldNumbers
    <3> QED
      BY <1>1, <2>3, <3>1 DEF Begun, Started
  <2>6. Sound(e)
    BY <1>1, <2>2, <2>3, <2>5 DEF Sound
  <2> QED
    BY <2>3, <2>4, <2>6, BeginStep
<1>2. /\ 2 \in Nat /\ FieldType.Tuple \in KnownFields /\ FieldType.Key \in KnownFields
      /\ FALSE \in BOOLEAN
  BY FieldsKnown
<1>3. /\ Started(insert(m_request_id), m_request_id, 2, FieldType.Tuple)
      /\ Started(replace(m_request_id), m_request_id, 2, FieldType.Tuple)
      /\ Started(remove(m_request_id), m_request_id, 2, FieldType.Key)
  BY <1>0, <1>2, RequestTypes, BoxMessage, Zenon DEF insert, replace, remove
<1>4. {"insert", "replace", "remove"} \subseteq BoxKinds \ {"select"}
  BY DEF BoxKinds
<1>5. CASE Insert(o, space, s)
  BY <1>1, <1>2, <1>3, <1>4, <1>5 DEF Insert
<1>6. CASE Replace(o, space, s)
  BY <1>1, <1>2, <1>3, <1>4, <1>6 DEF Replace
<1>7. CASE Remove(o, space, s, eager)
  BY <1>1, <1>2, <1>3, <1>4, <1>7 DEF Remove
<1> QED
  BY <1>5, <1>6, <1>7

LEMMA GetSelectBuilderStep ==
  ASSUME IInv, NEW o \in Ops, NEW space \in SpaceVariants, NEW index \in SpaceVariants,
         GetSelectBuilder(o, space, index)
  PROVE  IInv'
<1> DEFINE p == SelectBuilder(m_request_id)
           e == [Idle EXCEPT !.st = "builder", !.kind = "select", !.sync = m_request_id,
                             !.packer = p, !.space = space, !.index = index]
<1>0. m_request_id \in Nat
  BY DEF IInv, Typed
<1>1. /\ p \in Packers /\ Framed(p.m_stream, m_request_id) /\ Len(p.m_stream) = 3
      /\ p.m_header_count = 0 /\ p.map_len_offset = 3 /\ Keys(p.m_stream) = {}
  BY <1>0, OpenMapFields
<1>2. Begin(o, e)
  BY DEF GetSelectBuilder
<1> HIDE DEF p
<1>3. e \in OpRecords
  BY <1>0, <1>1, IdleFields DEF OpRecords, Stages, Kinds, BoxKinds, Variants
<1>4. e.st = "builder" /\ e.kind = "select" /\ e.sync = m_request_id /\ e.packer = p
  BY IdleFields DEF OpRecords
<1> HIDE DEF e
<1>5. Cardinality({}) = 0
  BY FS_EmptySet
<1>6. Begun(e)
  <2> DEFINE m == e.packer.m_stream
             c == Cardinality(Keys(m))
  <2>1. /\ Framed(m, e.sync) /\ Keys(m) = {} /\ e.kind = "select" /\ e.packer.map_len_offset = 3
        /\ e.packer.m_header_count = 0 /\ Len(m) = 3
    BY <1>1, <1>4
  <2>2. c = 0
    BY <1>5, <2>1
  <2>3. e.packer.m_header_count = c /\ Len(m) = 3 + 2 * c
    BY <2>1, <2>2
  <2>4. FieldType.SpaceId \notin Keys(m) /\ Keys(m) \subseteq BuilderFields
    BY <2>1
  <2> QED
    BY <2>1, <2>3, <2>4, Zenon DEF Begun
<1>7. Sound(e)
  BY <1>3, <1>4, <1>6 DEF Sound, BoxKinds
<1> QED
  BY <1>2, <1>4, <1>7, BeginStep

\* SelectBuilder::index.
LEMMA SetIndexStep ==
  ASSUME IInv, NEW o \in Ops, NEW index \in SpaceVariants, SetIndex(o, index)
  PROVE  IInv'
<1> DEFINE r == op[o]
           e == [r EXCEPT !.index = index]
<1>1. Sound(r) /\ r \in OpRecords /\ r.st = "builder" /\ op \in [Ops -> OpRecords]
      /\ posted \in Seq(Ops)
  BY DEF IInv, AllSound, Sound, Typed, SetIndex
<1>2. op' = [op EXCEPT ![o] = e] /\ UNCHANGED <<m_request_id, posted, m_requests, sent>>
  BY <1>1 DEF SetIndex
<1> HIDE DEF r
<1>3. e \in OpRecords
  BY <1>1 DEF OpRecords, Variants
<1>4. /\ e.st = "builder" /\ e.kind = r.kind /\ e.sync = r.sync /\ e.space = r.space
      /\ e.packer = r.packer
  BY <1>1 DEF OpRecords
<1> HIDE DEF e
<1>5. r.kind = "select" /\ Begun(r)
  BY <1>1 DEF Sound, BoxKinds
<1>6. Begun(e)
  BY <1>4, <1>5, Zenon DEF Begun
<1>7. Sound(e)
  BY <1>3, <1>4, <1>5, <1>6 DEF Sound, BoxKinds
<1> QED
  BY <1>1, <1>2, <1>4, <1>7, KeepStep DEF r

\* limit, offset and the other methods: the count follows the entries.
LEMMA FieldBegun ==
  ASSUME NEW r \in OpRecords, Begun(r), r.kind = "select", NEW field \in BuilderFields,
         field \notin Keys(r.packer.m_stream), NEW p, p = pack_map_entry(r.packer, field, 0),
         NEW e, e.packer = p, e.sync = r.sync, e.kind = r.kind
  PROVE  p \in Packers /\ Begun(e)
<1> DEFINE m == r.packer.m_stream
           K == Keys(m)
           c == Cardinality(K)
<1>0. Item("value", 0) \in Items /\ field \in KnownFields /\ r.packer \in Packers
      /\ m \in Seq(Items)
  BY ItemType, FieldsKnown DEF OpRecords, Packers
<1>1. /\ Framed(m, r.sync) /\ r.packer.map_len_offset = 3 /\ K \subseteq BuilderFields
      /\ r.packer.m_header_count = c /\ Len(m) = 3 + 2 * c
  BY DEF Begun
<1>2. p \in Packers /\ Counted(p, r.packer) /\ Longer(p.m_stream, m, field, 0)
  BY <1>0, EntryStream, Zenon
<1>3. Framed(p.m_stream, r.sync) /\ Keys(p.m_stream) = K \cup {field}
  <2>1. Framed(r.packer.m_stream, r.sync) /\ field \notin Keys(r.packer.m_stream)
    BY <1>1
  <2> DEFINE q == pack_map_entry(r.packer, field, 0)
  <2>2. /\ Framed(q.m_stream, r.sync)
        /\ Keys(q.m_stream) = Keys(r.packer.m_stream) \cup {field}
    BY <1>0, <2>1, FramedEntry, Zenon
  <2> QED
    BY <2>2
<1>4. IsFiniteSet(K) /\ c \in Nat /\ c <= 48
  BY <1>1, FewKeys
<1>5. Cardinality(K \cup {field}) = c + 1
  BY <1>4, FS_AddElement
<1> HIDE DEF c, K
<1>6. Len(p.m_stream) = 3 + 2 * (c + 1) /\ p.m_header_count = c + 1 /\ p.map_len_offset = 3
  <2>1. Len(p.m_stream) = Len(m) + 2
    BY <1>2, Zenon DEF Longer
  <2>2. p.m_header_count = (c + 1) % 65536 /\ p.map_len_offset = 3
    BY <1>1, <1>2 DEF Counted
  <2> QED
    BY <1>1, <1>4, <2>1, <2>2
<1>7. Keys(p.m_stream) \subseteq BuilderFields /\ FieldType.SpaceId \notin Keys(p.m_stream)
  <2>1. Keys(p.m_stream) \subseteq BuilderFields
    BY <1>1, <1>3
  <2>2. 16 \notin BuilderFields
    BY BuilderFieldNumbers
  <2> QED
    BY <2>1, <2>2, FieldNumbers
<1>8. /\ Len(p.m_stream) = 3 + 2 * Cardinality(Keys(p.m_stream))
      /\ p.m_header_count = Cardinality(Keys(p.m_stream))
  BY <1>3, <1>5, <1>6
<1> QED
  BY <1>2, <1>3, <1>6, <1>7, <1>8, Zenon DEF Begun

LEMMA SetFieldStep ==
  ASSUME IInv, NEW o \in Ops, NEW field \in BuilderFields, SetField(o, field)
  PROVE  IInv'
<1> DEFINE r == op[o]
           p == pack_map_entry(r.packer, field, 0)
           e == [r EXCEPT !.packer = p]
<1>1. Sound(r) /\ r \in OpRecords /\ r.st = "builder" /\ op \in [Ops -> OpRecords]
      /\ posted \in Seq(Ops)
  BY DEF IInv, AllSound, Sound, Typed, SetField
<1>2. op' = [op EXCEPT ![o] = e] /\ UNCHANGED <<m_request_id, posted, m_requests, sent>>
  BY <1>1 DEF SetField
<1>3. field \notin Keys(r.packer.m_stream)
  BY DEF SetField, Keys
<1>4. r.kind = "select" /\ Begun(r)
  BY <1>1 DEF Sound, BoxKinds
<1> HIDE DEF r
<1>5. p \in Packers
  BY <1>1, <1>3, <1>4, ItemType, FieldsKnown, EntryStream DEF OpRecords
<1> HIDE DEF p
<1>6. e \in OpRecords
  BY <1>1, <1>5 DEF OpRecords
<1>7. e.st = "builder" /\ e.kind = r.kind /\ e.sync = r.sync /\ e.packer = p
  BY <1>1 DEF OpRecords
<1> HIDE DEF e
<1>8. Begun(e)
  BY <1>1, <1>3, <1>4, <1>7, FieldBegun, Zenon DEF p
<1>9. Sound(e)
  BY <1>4, <1>6, <1>7, <1>8 DEF Sound, BoxKinds
<1> QED
  BY <1>1, <1>2, <1>7, <1>9, KeepStep DEF r

\* build() and Box::select.
LEMMA SelectStep ==
  ASSUME IInv, NEW o \in Ops, NEW s \in BOOLEAN, Select(o, s)
  PROVE  IInv'
<1> DEFINE r == op[o]
           e == [r EXCEPT !.st = "space", !.onStrand = s]
<1>1. Sound(r) /\ r \in OpRecords /\ r.st = "builder" /\ op \in [Ops -> OpRecords]
      /\ posted \in Seq(Ops)
  BY DEF IInv, AllSound, Sound, Typed, Select
<1>2. op' = [op EXCEPT ![o] = e] /\ UNCHANGED <<m_request_id, posted, m_requests, sent>>
  BY <1>1 DEF Select
<1> HIDE DEF r
<1>3. e \in OpRecords
  BY <1>1 DEF OpRecords, Stages
<1>4. e.st = "space" /\ e.kind = r.kind /\ e.sync = r.sync /\ e.packer = r.packer
  BY <1>1 DEF OpRecords
<1> HIDE DEF e
<1>5. r.kind = "select" /\ Begun(r)
  BY <1>1 DEF Sound, BoxKinds
<1>6. Begun(e)
  BY <1>4, <1>5, Zenon DEF Begun
<1>7. Sound(e)
  BY <1>3, <1>4, <1>5, <1>6 DEF Sound, BoxKinds
<1> QED
  BY <1>1, <1>2, <1>4, <1>7, KeepStep DEF r

\* get_space_index.
LEMMA GetSpaceIndexStep ==
  ASSUME IInv, NEW o \in Ops, get_space_index(o)
  PROVE  IInv'
<1> DEFINE r == op[o]
           d == r.eager /\ r.kind = "remove"
<1>1. /\ Sound(r) /\ r \in OpRecords /\ r.st = "space"
      /\ op \in [Ops -> OpRecords] /\ posted \in Seq(Ops)
      /\ UNCHANGED <<m_request_id, m_requests, sent>>
  BY DEF IInv, AllSound, Sound, Typed, get_space_index
<1>2. ASSUME NEW e \in OpRecords, op' = [op EXCEPT ![o] = e], SameCall(e, r),
             e.st \in {"failed", "entering", "pack"}, posted' \in Seq(Ops)
      PROVE  IInv'
  <2>1. Sound(e)
    BY <1>1, <1>2, AdvancedSound
  <2>2. e.sync = r.sync /\ e.st \notin {"none", "sent"} /\ r.st \notin {"none", "sent"}
    BY <1>1, <1>2 DEF SameCall
  <2> QED
    BY <1>1, <1>2, <2>1, <2>2, KeepStep
<1>3. ASSUME NEW id \in Nat, NEW s \in BOOLEAN, Resolved(o, id, s), UNCHANGED posted PROVE IInv'
  <2> DEFINE e == [r EXCEPT !.st = "pack", !.space_index = id, !.onStrand = s]
  <2>1. op' = [op EXCEPT ![o] = e]
    BY <1>1, <1>3 DEF Resolved
  <2>2. e \in OpRecords /\ SameCall(e, r) /\ e.st = "pack"
    BY <1>1, ResolvedStage
  <2> HIDE DEF e
  <2> QED
    BY <1>1, <1>2, <1>3, <2>1, <2>2
<1>4. ASSUME op' = [op EXCEPT ![o].st = "failed"], UNCHANGED posted PROVE IInv'
  <2> DEFINE e == [r EXCEPT !.st = "failed"]
  <2>1. op' = [op EXCEPT ![o] = e]
    BY <1>1, <1>4
  <2>2. e \in OpRecords /\ e.st = "failed"
    BY <1>1 DEF OpRecords, Stages
  <2>3. SameCall(e, r)
    BY <1>1 DEF OpRecords, SameCall
  <2> HIDE DEF e
  <2> QED
    BY <1>1, <1>2, <1>4, <2>1, <2>2, <2>3
<1>5. ASSUME Park(o) PROVE IInv'
  <2>1. d \in BOOLEAN
    BY <1>1 DEF OpRecords
  <2> DEFINE e == [r EXCEPT !.st = "entering", !.dangling = d]
  <2>2. op' = [op EXCEPT ![o] = e]
    BY <1>1, <1>5 DEF Park
  <2> HIDE DEF d
  <2>3. e \in OpRecords /\ e.st = "entering"
    BY <1>1, <2>1 DEF OpRecords, Stages
  <2>4. SameCall(e, r)
    BY <1>1 DEF OpRecords, SameCall
  <2>5. posted' \in Seq(Ops)
    BY <1>1, <1>5 DEF Park
  <2> HIDE DEF e
  <2> QED
    BY <1>2, <2>2, <2>3, <2>4, <2>5
<1>6. /\ r.space.id \in Nat /\ r.onStrand \in BOOLEAN /\ IdOfName \in Nat
  BY <1>1, VariantIds DEF OpRecords, IdOfName
<1> QED
  BY <1>3, <1>4, <1>5, <1>6 DEF get_space_index

LEMMA SendStep ==
  ASSUME IInv, NEW o \in Ops, Send(o)
  PROVE  IInv'
<1> DEFINE r == op[o]
<1>1. /\ Sound(r) /\ r \in OpRecords /\ r.st = "pack" /\ r.st \notin {"none", "sent"}
      /\ op \in [Ops -> OpRecords] /\ posted \in Seq(Ops) /\ UNCHANGED m_request_id
  BY DEF IInv, AllSound, Sound, Typed, Send
<1>2. PICK m \in Messages(r) :
        \/ /\ op' = [op EXCEPT ![o].st = "sent"]
           /\ Dispatched(o, m)
           /\ UNCHANGED posted
        \/ /\ op' = [op EXCEPT ![o].st = "send", ![o].packer.m_stream = m]
           /\ posted' = Append(posted, o)
           /\ UNCHANGED <<m_requests, sent>>
  BY DEF Send
<1>3. CASE /\ op' = [op EXCEPT ![o].st = "sent"]
           /\ Dispatched(o, m)
           /\ UNCHANGED posted
  <2> DEFINE e == [r EXCEPT !.st = "sent"]
  <2>1. op' = [op EXCEPT ![o] = e]
    BY <1>1, <1>3
  <2>2. /\ m \in Seq(Items) /\ (e.dangling \/ Parses(m, e.sync))
        /\ Sound(e) /\ e.sync = r.sync
    BY <1>1, SendingSound
  <2>3. e.st = "sent"
    BY <1>1 DEF OpRecords
  <2> HIDE DEF e
  <2> QED
    BY <1>1, <1>3, <2>1, <2>2, <2>3, DispatchStep
<1>4. CASE /\ op' = [op EXCEPT ![o].st = "send", ![o].packer.m_stream = m]
           /\ posted' = Append(posted, o)
           /\ UNCHANGED <<m_requests, sent>>
  <2> DEFINE e == [r EXCEPT !.st = "send", !.packer.m_stream = m]
  <2>1. op' = [op EXCEPT ![o] = e]
    BY <1>1, <1>4
  <2>2. Sound(e) /\ e.sync = r.sync
    <3>1. e = [r EXCEPT !.st = "send", !.packer.m_stream = m]
      OBVIOUS
    <3>2. m \in Messages(r)
      OBVIOUS
    <3> HIDE DEF e, r
    <3>3. \/ e = [r EXCEPT !.st = "send", !.packer.m_stream = m]
          \/ e = [r EXCEPT !.st = "sent"]
      BY <3>1
    <3> QED
      BY <1>1, <3>2, <3>3, SendingSound
  <2>3. e.st = "send"
    BY <1>1 DEF OpRecords
  <2>4. posted' \in Seq(Ops)
    BY <1>1, <1>4
  <2> HIDE DEF e
  <2> QED
    BY <1>1, <1>4, <2>1, <2>2, <2>3, <2>4, KeepStep
<1> QED
  BY <1>2, <1>3, <1>4

\* The strand runs enter_executor or send_request.
LEMMA RunPostedStep ==
  ASSUME IInv, RunPosted
  PROVE  IInv'
<1> DEFINE o == Head(posted)
           r == op[o]
<1>1. posted \in Seq(Ops) /\ posted # <<>> /\ op \in [Ops -> OpRecords]
  BY DEF IInv, Typed, RunPosted
<1>2. o \in Ops /\ posted' = Tail(posted) /\ posted' \in Seq(Ops) /\ UNCHANGED m_request_id
  BY <1>1, HeadTailProperties DEF RunPosted
<1>3. Sound(r) /\ r \in OpRecords
  BY <1>2 DEF IInv, AllSound, Sound
<1>4. \/ /\ r.st = "entering"
         /\ \E s \in BOOLEAN : Resolved(o, IdOfName, s)
         /\ UNCHANGED <<m_requests, sent>>
      \/ /\ r.st = "send"
         /\ op' = [op EXCEPT ![o].st = "sent"]
         /\ Dispatched(o, r.packer.m_stream)
  BY Zenon DEF RunPosted
<1> HIDE DEF o
<1>5. CASE /\ r.st = "entering"
           /\ \E s \in BOOLEAN : Resolved(o, IdOfName, s)
           /\ UNCHANGED <<m_requests, sent>>
  <2>1. PICK s \in BOOLEAN : Resolved(o, IdOfName, s)
    BY <1>5
  <2> DEFINE e == [r EXCEPT !.st = "pack", !.space_index = IdOfName, !.onStrand = s]
  <2>2. op' = [op EXCEPT ![o] = e]
    BY <1>1, <1>2, <2>1 DEF Resolved
  <2>3. e \in OpRecords /\ SameCall(e, r) /\ e.st = "pack"
    <3>1. IdOfName \in Nat
      BY DEF IdOfName
    <3> QED
      BY <1>3, <3>1, ResolvedStage
  <2> HIDE DEF e
  <2>4. Sound(e)
    BY <1>3, <1>5, <2>3, AdvancedSound
  <2>5. e.sync = r.sync
    BY <2>3 DEF SameCall
  <2> QED
    BY <1>2, <1>5, <2>2, <2>3, <2>4, <2>5, KeepStep
<1>6. CASE /\ r.st = "send"
           /\ op' = [op EXCEPT ![o].st = "sent"]
           /\ Dispatched(o, r.packer.m_stream)
  <2> DEFINE e == [r EXCEPT !.st = "sent"]
             m == r.packer.m_stream
  <2>1. op' = [op EXCEPT ![o] = e]
    BY <1>1, <1>2, <1>6
  <2>2. e \in OpRecords /\ e.st = "sent" /\ e.sync = r.sync
    BY <1>3 DEF OpRecords, Stages
  <2>3. e.dangling = r.dangling
    BY <1>3 DEF OpRecords
  <2>4. m \in Seq(Items)
    BY <1>3 DEF OpRecords, Packers
  <2>5. r.dangling \/ Parses(m, r.sync)
    BY <1>3, <1>6 DEF Sound
  <2> HIDE DEF e, m
  <2>6. e.dangling \/ Parses(m, e.sync)
    BY <2>2, <2>3, <2>5, Zenon
  <2>7. Sound(e)
    BY <2>2 DEF Sound
  <2> QED
    BY <1>2, <1>6, <2>1, <2>2, <2>4, <2>6, <2>7, DispatchStep DEF m
<1> QED
  BY <1>4, <1>5, <1>6

LEMMA UserStep ==
  ASSUME IInv, NEW o \in Ops, User(o)
  PROVE  IInv'
<1>1. ASSUME NEW s \in BOOLEAN, Ping(o, s) \/ Call(o, s) \/ Eval(o, s) \/ Auth(o, s)
      PROVE  IInv'
  BY <1>1, RequestStep
<1>2. ASSUME NEW s \in BOOLEAN, Select(o, s) PROVE IInv'
  BY <1>2, SelectStep
<1>3. ASSUME NEW s \in BOOLEAN, NEW space \in SpaceVariants,
             Insert(o, space, s) \/ Replace(o, space, s)
      PROVE  IInv'
  BY <1>3, BoxStep
<1>4. ASSUME NEW s \in BOOLEAN, NEW eager \in BOOLEAN, NEW space \in SpaceVariants,
             Remove(o, space, s, eager)
      PROVE  IInv'
  BY <1>4, BoxStep
<1>5. ASSUME NEW space \in SpaceVariants, NEW index \in SpaceVariants,
             GetSelectBuilder(o, space, index)
      PROVE  IInv'
  BY <1>5, GetSelectBuilderStep
<1>6. ASSUME NEW index \in SpaceVariants, SetIndex(o, index) PROVE IInv'
  BY <1>6, SetIndexStep
<1>7. ASSUME NEW field \in BuilderFields, SetField(o, field) PROVE IInv'
  BY <1>7, SetFieldStep
<1> QED
  BY <1>1, <1>2, <1>3, <1>4, <1>5, <1>6, <1>7, Zenon DEF User

LEMMA InitSound == Init => IInv
<1> SUFFICES ASSUME Init PROVE IInv
  OBVIOUS
<1>1. Typed
  BY IdleFields DEF Init, Typed
<1>2. \A o \in Ops : op[o] = Idle
  BY DEF Init
<1>3. Sound(Idle)
  BY IdleFields DEF Sound
<1>4. AllSound
  BY <1>2, <1>3, Zenon DEF AllSound
<1>5. Numbered /\ Registered /\ Delivered
  BY <1>2, IdleFields DEF Init, Numbered, Registered, Delivered
<1> QED
  BY <1>1, <1>4, <1>5 DEF IInv

LEMMA RequestsInvariant == Spec => []IInv
<1>1. IInv /\ [Next]_vars => IInv'
  <2> SUFFICES ASSUME IInv, [Next]_vars PROVE IInv'
    OBVIOUS
  <2>1. CASE UNCHANGED vars
    BY <2>1 DEF vars, IInv, Typed, AllSound, Numbered, Registered, Delivered
  <2>2. ASSUME NEW o \in Ops, User(o) PROVE IInv'
    BY <2>2, UserStep
  <2>3. ASSUME NEW o \in Ops, Coroutine(o) PROVE IInv'
    BY <2>3, GetSpaceIndexStep, SendStep DEF Coroutine
  <2>4. CASE RunPosted
    BY <2>4, RunPostedStep
  <2>5. CASE Terminated
    BY <2>1, <2>5 DEF Terminated
  <2> QED
    BY <2>1, <2>2, <2>3, <2>4, <2>5, Zenon DEF Next
<1> QED
  BY <1>1, InitSound, PTL DEF Spec

\* The reply to a message that was sent reaches the operation that sent it: identifiers come
\* from one atomic counter, so that insert() in send_request never finds its key taken.
THEOREM RepliesReachOperations == Spec => []ReplyReachesOperation
<1>1. IInv => ReplyReachesOperation
  <2> SUFFICES ASSUME IInv, NEW i \in DOMAIN sent
               PROVE  m_requests[op[sent[i].op].sync] = sent[i].op
    BY DEF ReplyReachesOperation
  <2> DEFINE o == sent[i].op
             q == m_requests[op[o].sync]
  <2>1. o \in Ops /\ op[o].st = "sent"
    BY SentEntry DEF IInv, Delivered
  <2>2. q \in Ops /\ op[q].st = "sent" /\ op[q].sync = op[o].sync
    BY <2>1 DEF IInv, Registered
  <2> QED
    BY <2>1, <2>2 DEF IInv, Numbered
<1> QED
  BY <1>1, RequestsInvariant, PTL

\* Every message sent can be parsed and carries the sync of its operation, whatever entries
\* a SelectBuilder was given, in whatever order, unless it is that of an eager remove whose
\* packer was gone when it was sent.
THEOREM MessagesParse == Spec => []SentParses
<1>1. IInv => SentParses
  <2> SUFFICES ASSUME IInv, NEW i \in DOMAIN sent
               PROVE  LET r == op[sent[i].op] IN Parses(sent[i].message, r.sync) \/ r.dangling
    BY DEF SentParses
  <2> QED
    BY Zenon DEF IInv, Delivered
<1> QED
  BY <1>1, RequestsInvariant, PTL
=============================================================================
