--------------------------- MODULE FramingProofs ---------------------------
(***************************************************************************)
(* Proofs about the receive path, for any streams of messages, any size of *)
(* the receive buffer and any number of connections.                       *)
(*                                                                         *)
(* The lemmas are about the classes, bottom up: what each method of a      *)
(* SharedBuffer keeps (Ordered), what each method of a MutableBuffer keeps *)
(* (IsHeap) and that none of them touches bytes that were consumed (Kept). *)
(* The invariant of IprotoFraming adds what transfer_exactly relies on     *)
(* between the start of a read and its end.                                *)
(***************************************************************************)
EXTENDS Framing, SequenceTheorems, WellFoundedInduction, TLAPS

(* Concatenation of any number of sequences. *)

\* Induction over a set of numbers.
LEMMA SetInduction ==
  ASSUME NEW S, 0 \in S, \A n \in Nat : n \in S => n + 1 \in S
  PROVE  \A n \in Nat : n \in S
<1> DEFINE R == OpToRel(<, Nat)
           T == Nat \ S
<1> SUFFICES ASSUME T # {} PROVE FALSE
  OBVIOUS
<1>1. IsWellFoundedOn(R, Nat)
  BY NatLessThanWellFounded, Zenon
<1>2. T \subseteq Nat
  OBVIOUS
<1>3. \A x, y \in Nat : x < y => <<x, y>> \in R
  BY Zenon DEF OpToRel
<1> HIDE DEF R, T
<1>4. PICK x \in T : \A y \in T : ~ (<<y, x>> \in R)
  BY <1>1, <1>2, WFMin
<1>5. x \in Nat /\ x \notin S /\ x # 0
  BY DEF T
<1>6. x - 1 \in Nat /\ x - 1 < x /\ (x - 1) + 1 = x
  BY <1>5
<1>7. x - 1 \notin T
  BY <1>3, <1>4, <1>5, <1>6
<1>8. x - 1 \in S
  BY <1>6, <1>7 DEF T
<1> QED
  BY <1>5, <1>6, <1>8
\* f holds the concatenation of the first i sequences, for every i.
Flattens(f, seqs, n) ==
    f = [i \in 1 .. n |-> IF i = 1 THEN seqs[i] ELSE f[i - 1] \o seqs[i]]

LEMMA FlattenExists ==
  ASSUME NEW seqs
  PROVE  \A n \in Nat : \E f : Flattens(f, seqs, n)
<1> DEFINE S == {n \in Nat : \E f : Flattens(f, seqs, n)}
<1>1. 0 \in S
  <2> DEFINE e == [i \in 1 .. 0 |-> seqs[i]]
  <2>1. Flattens(e, seqs, 0)
    BY DEF Flattens
  <2> QED
    BY <2>1
<1>2. ASSUME NEW n \in Nat, n \in S PROVE n + 1 \in S
  <2>1. PICK f : Flattens(f, seqs, n)
    BY <1>2
  <2> DEFINE last == IF n + 1 = 1 THEN seqs[n + 1] ELSE f[n] \o seqs[n + 1]
             g == [i \in 1 .. n + 1 |-> IF i = n + 1 THEN last ELSE f[i]]
  <2>2. \A i \in 1 .. n : f[i] = IF i = 1 THEN seqs[i] ELSE f[i - 1] \o seqs[i]
    BY <2>1 DEF Flattens
  <2>3. \A i \in 1 .. n + 1 : g[i] = IF i = 1 THEN seqs[i] ELSE g[i - 1] \o seqs[i]
    <3> SUFFICES ASSUME NEW i \in 1 .. n + 1
                 PROVE  g[i] = IF i = 1 THEN seqs[i] ELSE g[i - 1] \o seqs[i]
      OBVIOUS
    <3>1. CASE i = n + 1
      <4>1. g[i] = last
        BY <3>1
      <4>2. CASE i = 1
        BY <3>1, <4>1, <4>2
      <4>3. CASE i # 1
        <5>1. i - 1 = n /\ n \in 1 .. n + 1 /\ n # n + 1
          BY <3>1, <4>3
        <5>2. g[i - 1] = f[n]
          BY <5>1
        <5> QED
          BY <3>1, <4>1, <4>3, <5>1, <5>2
      <4> QED
        BY <4>2, <4>3
    <3>2. CASE i # n + 1
      <4>1. i \in 1 .. n /\ g[i] = f[i]
        BY <3>2
      <4>2. i # 1 => i - 1 \in 1 .. n + 1 /\ i - 1 # n + 1
        BY <3>2
      <4>3. i # 1 => g[i - 1] = f[i - 1]
        BY <4>2
      <4> QED
        BY <2>2, <4>1, <4>3
    <3> QED
      BY <3>1, <3>2
  <2>4. g = [i \in 1 .. n + 1 |-> g[i]]
    OBVIOUS
  <2> HIDE DEF g, last
  <2>5. Flattens(g, seqs, n + 1)
    BY <2>3, <2>4 DEF Flattens
  <2> QED
    BY <2>5
<1> HIDE DEF S
<1>3. \A n \in Nat : n \in S
  BY <1>1, <1>2, SetInduction
<1> QED
  BY <1>3 DEF S

LEMMA FlattenUnfolds ==
  ASSUME NEW seqs, Len(seqs) \in Nat, Len(seqs) # 0
  PROVE  \E f : Flattens(f, seqs, Len(seqs)) /\ FlattenSeq(seqs) = f[Len(seqs)]
<1> DEFINE n == Len(seqs)
           F == CHOOSE f : f = [i \in 1 .. n |-> IF i = 1 THEN seqs[i] ELSE f[i - 1] \o seqs[i]]
<1>1. \E f : Flattens(f, seqs, n)
  BY FlattenExists
<1>2. Flattens(F, seqs, n)
  BY <1>1, Zenon DEF Flattens
<1>3. FlattenSeq(seqs) = F[n]
  BY Zenon DEF FlattenSeq
<1> QED
  BY <1>2, <1>3

\* flat is the first k sequences one after the other, the i-th of them after start[i].
Placed(flat, seqs, start, k) ==
    /\ start \in [1 .. k + 1 -> Nat]
    /\ start[1] = 0 /\ start[k + 1] = Len(flat)
    /\ \A i \in 1 .. k : start[i + 1] = start[i] + Len(seqs[i])
    /\ \A i \in 1 .. k : \A j \in 1 .. Len(seqs[i]) : flat[start[i] + j] = seqs[i][j]

\* No sequence begins beyond where the next one does, so that each lies within the whole.
LEMMA PlacedWithin ==
  ASSUME NEW B, NEW n \in Nat, NEW seqs \in [1 .. n -> Seq(B)],
         NEW k \in 0 .. n, NEW flat \in Seq(B), NEW start, Placed(flat, seqs, start, k)
  PROVE  \A i \in 1 .. k : start[i] + Len(seqs[i]) <= Len(flat)
<1> DEFINE S == {d \in Nat : \A i \in 1 .. k : i + d = k => start[i] + Len(seqs[i]) <= Len(flat)}
<1>0. /\ \A i \in 1 .. k + 1 : start[i] \in Nat
      /\ \A i \in 1 .. k : Len(seqs[i]) \in Nat /\ start[i + 1] = start[i] + Len(seqs[i])
      /\ start[k + 1] = Len(flat) /\ k \in Nat
  BY DEF Placed
<1>1. 0 \in S
  BY <1>0
<1>2. ASSUME NEW d \in Nat, d \in S PROVE d + 1 \in S
  <2> SUFFICES ASSUME NEW i \in 1 .. k, i + (d + 1) = k
               PROVE  start[i] + Len(seqs[i]) <= Len(flat)
    OBVIOUS
  <2>1. i + 1 \in 1 .. k /\ (i + 1) + d = k /\ i + 1 \in 1 .. k + 1
    BY <1>0
  <2>2. start[i + 1] + Len(seqs[i + 1]) <= Len(flat)
    BY <1>2, <2>1
  <2>3. start[i + 1] \in Nat /\ Len(seqs[i + 1]) \in Nat /\ start[i + 1] = start[i] + Len(seqs[i])
    BY <1>0, <2>1
  <2> QED
    BY <2>2, <2>3
<1>3. \A d \in Nat : d \in S
  <2> HIDE DEF S
  <2> QED
    BY <1>1, <1>2, SetInduction
<1>4. \A i \in 1 .. k : k - i \in Nat /\ i + (k - i) = k
  BY <1>0
<1> QED
  BY <1>3, <1>4

LEMMA PlacedNext ==
  ASSUME NEW B, NEW n \in Nat, NEW seqs \in [1 .. n -> Seq(B)],
         NEW k \in 0 .. n - 1, NEW flat \in Seq(B), NEW start, Placed(flat, seqs, start, k),
         NEW more, more = flat \o seqs[k + 1]
  PROVE  more \in Seq(B) /\ \E t : Placed(more, seqs, t, k + 1)
<1> DEFINE last == seqs[k + 1]
           t == [i \in 1 .. k + 2 |-> IF i = k + 2 THEN Len(flat) + Len(last) ELSE start[i]]
<1>1. last \in Seq(B) /\ Len(last) \in Nat /\ Len(flat) \in Nat /\ k \in Nat
  OBVIOUS
<1> HIDE DEF last
<1>2. /\ more \in Seq(B) /\ Len(more) = Len(flat) + Len(last)
      /\ \A j \in 1 .. Len(flat) : more[j] = flat[j]
      /\ \A j \in 1 .. Len(last) : more[Len(flat) + j] = last[j]
  <2>1. more = flat \o last
    BY DEF last
  <2> QED
    BY <1>1, <2>1
<1>3. /\ \A i \in 1 .. k + 1 : start[i] \in Nat
      /\ start[1] = 0 /\ start[k + 1] = Len(flat)
      /\ \A i \in 1 .. k : start[i + 1] = start[i] + Len(seqs[i])
  BY DEF Placed
<1>4. /\ t \in [1 .. k + 2 -> Nat]
      /\ t[k + 2] = Len(flat) + Len(last)
      /\ \A i \in 1 .. k + 1 : t[i] = start[i]
  BY <1>1, <1>3
<1> HIDE DEF t
<1>5. ASSUME NEW i \in 1 .. k + 1 PROVE t[i + 1] = t[i] + Len(seqs[i])
  <2>1. CASE i = k + 1
    BY <1>1, <1>3, <1>4, <2>1 DEF last
  <2>2. CASE i # k + 1
    <3>1. i \in 1 .. k /\ i + 1 \in 1 .. k + 1
      BY <1>1, <2>2
    <3> QED
      BY <1>3, <1>4, <3>1
  <2> QED
    BY <2>1, <2>2
<1>6. ASSUME NEW i \in 1 .. k + 1, NEW j \in 1 .. Len(seqs[i])
      PROVE  more[t[i] + j] = seqs[i][j]
  <2>1. CASE i = k + 1
    BY <1>1, <1>2, <1>3, <1>4, <1>6, <2>1 DEF last
  <2>2. CASE i # k + 1
    <3>1. i \in 1 .. k /\ t[i] = start[i] /\ start[i] \in Nat /\ Len(seqs[i]) \in Nat
      BY <1>1, <1>3, <1>4, <1>6, <2>2
    <3>2. start[i] + Len(seqs[i]) <= Len(flat)
      <4>1. k \in 0 .. n
        OBVIOUS
      <4> QED
        BY <3>1, <4>1, PlacedWithin
    <3>3. start[i] + j \in 1 .. Len(flat)
      <4> DEFINE a == start[i]
                 b == Len(seqs[i])
                 c == Len(flat)
      <4>1. a \in Nat /\ b \in Nat /\ c \in Nat /\ j \in 1 .. b /\ a + b <= c
        BY <1>1, <1>6, <3>1, <3>2
      <4> HIDE DEF a, b, c
      <4>2. a + j \in 1 .. c
        BY <4>1
      <4> QED
        BY <4>2 DEF a, c
    <3>4. flat[start[i] + j] = seqs[i][j]
      BY <1>6, <3>1 DEF Placed
    <3> QED
      BY <1>2, <3>1, <3>3, <3>4
  <2> QED
    BY <2>1, <2>2
<1>7. (k + 1) + 1 = k + 2 /\ 1 \in 1 .. k + 1
  BY <1>1
<1>8. Placed(more, seqs, t, k + 1)
  BY <1>2, <1>3, <1>4, <1>5, <1>6, <1>7 DEF Placed
<1> QED
  BY <1>2, <1>8

\* FlattenSeq puts the sequences one after the other, for any number of them.
LEMMA FlattenPlaces ==
  ASSUME NEW B, NEW n \in Nat, NEW seqs \in [1 .. n -> Seq(B)]
  PROVE  /\ FlattenSeq(seqs) \in Seq(B)
         /\ \E start : Placed(FlattenSeq(seqs), seqs, start, n)
<1>1. seqs \in Seq(Seq(B)) /\ Len(seqs) = n
  OBVIOUS
<1>2. CASE n = 0
  <2>1. FlattenSeq(seqs) = <<>>
    BY <1>1, <1>2 DEF FlattenSeq
  <2> DEFINE t == [i \in 1 .. 1 |-> 0]
  <2>2. Placed(<<>>, seqs, t, 0)
    BY DEF Placed
  <2> QED
    BY <1>2, <2>1, <2>2
<1>3. CASE n # 0
  <2>1. PICK f : Flattens(f, seqs, n) /\ FlattenSeq(seqs) = f[n]
    BY <1>1, <1>3, FlattenUnfolds
  <2>2. /\ f[1] = seqs[1]
        /\ \A i \in 2 .. n : f[i] = f[i - 1] \o seqs[i]
    <3>1. \A i \in 1 .. n : f[i] = IF i = 1 THEN seqs[i] ELSE f[i - 1] \o seqs[i]
      BY <2>1 DEF Flattens
    <3>2. 1 \in 1 .. n /\ \A i \in 2 .. n : i \in 1 .. n /\ i # 1
      BY <1>3
    <3> QED
      BY <3>1, <3>2
  <2> DEFINE S == {k \in Nat : k + 1 \in 1 .. n =>
                      f[k + 1] \in Seq(B) /\ \E t : Placed(f[k + 1], seqs, t, k + 1)}
  <2>3. 0 \in S
    <3> DEFINE t == [i \in 1 .. 2 |-> IF i = 1 THEN 0 ELSE Len(seqs[1])]
    <3>1. seqs[1] \in Seq(B) /\ Len(seqs[1]) \in Nat
      BY <1>3
    <3>2. t \in [1 .. 2 -> Nat] /\ t[1] = 0 /\ t[2] = Len(seqs[1])
      BY <3>1
    <3> HIDE DEF t
    <3>3. Placed(seqs[1], seqs, t, 1)
      BY <3>1, <3>2 DEF Placed
    <3> QED
      BY <2>2, <3>1, <3>3
  <2>4. ASSUME NEW k \in Nat, k \in S PROVE k + 1 \in S
    <3> SUFFICES ASSUME (k + 1) + 1 \in 1 .. n
                 PROVE  /\ f[(k + 1) + 1] \in Seq(B)
                        /\ \E t : Placed(f[(k + 1) + 1], seqs, t, (k + 1) + 1)
      OBVIOUS
    <3> DEFINE m == k + 1
    <3>1. m \in 1 .. n /\ m \in 0 .. n - 1 /\ m + 1 \in 2 .. n /\ (m + 1) - 1 = m
      OBVIOUS
    <3>2. f[m] \in Seq(B) /\ \E t : Placed(f[m], seqs, t, m)
      BY <2>4, <3>1
    <3>3. f[m + 1] = f[m] \o seqs[m + 1]
      BY <2>2, <3>1
    <3> HIDE DEF m
    <3>4. f[m + 1] \in Seq(B) /\ \E t : Placed(f[m + 1], seqs, t, m + 1)
      <4>1. PICK s : Placed(f[m], seqs, s, m)
        BY <3>2
      <4> QED
        BY <3>1, <3>2, <3>3, <4>1, PlacedNext
    <3> QED
      BY <3>4 DEF m
  <2>5. \A k \in Nat : k \in S
    <3> HIDE DEF S
    <3> QED
      BY <2>3, <2>4, SetInduction
  <2>6. n - 1 \in Nat /\ (n - 1) + 1 = n /\ n \in 1 .. n
    BY <1>3
  <2>7. f[n] \in Seq(B) /\ \E t : Placed(f[n], seqs, t, n)
    BY <2>5, <2>6
  <2> QED
    BY <2>1, <2>7
<1> QED
  BY <1>2, <1>3

\* Two sequences, one after the other.
LEMMA ConcatElements ==
  ASSUME NEW B, NEW s \in Seq(B), NEW t \in Seq(B)
  PROVE  /\ s \o t \in Seq(B) /\ Len(s \o t) = Len(s) + Len(t)
         /\ \A j \in 1 .. Len(s) : (s \o t)[j] = s[j]
         /\ \A j \in 1 .. Len(t) : (s \o t)[Len(s) + j] = t[j]
  OBVIOUS

\* A message as the peer sends it.
WireMessages == [len : Seq(SB!Byte), payload : Seq(SB!Byte)]

LEMMA WireTyped ==
  ASSUME NEW w \in Streams
  PROVE  /\ w \in Seq(WireMessages) /\ Len(w) \in Nat /\ DOMAIN w = 1 .. Len(w)
         /\ \A i \in 1 .. Len(w) :
               w[i] \in WireMessages /\ w[i].len \in Seq(SB!Byte) /\ w[i].payload \in Seq(SB!Byte)
<1>1. w \in Seq(WireMessages)
  BY StreamsAssumption DEF WireMessages
<1>2. Len(w) \in Nat /\ DOMAIN w = 1 .. Len(w) /\ \A i \in 1 .. Len(w) : w[i] \in WireMessages
  BY <1>1
<1>3. \A m \in WireMessages : m.len \in Seq(SB!Byte) /\ m.payload \in Seq(SB!Byte)
  BY DEF WireMessages
<1> QED
  BY <1>1, <1>2, <1>3

\* start[i] bytes come before the i-th message of w: its length, then its payload.
LaidOut(w, start) ==
    /\ start \in [1 .. Len(w) + 1 -> Nat]
    /\ start[1] = 0 /\ start[Len(w) + 1] = Len(BytesOf[w])
    /\ \A i \in 1 .. Len(w) :
          /\ start[i + 1] = start[i] + Len(w[i].len) + Len(w[i].payload)
          /\ \A j \in 1 .. Len(w[i].len) : BytesOf[w][start[i] + j] = w[i].len[j]
          /\ \A j \in 1 .. Len(w[i].payload) :
                BytesOf[w][start[i] + Len(w[i].len) + j] = w[i].payload[j]

LEMMA MessagesLaidOut ==
  ASSUME NEW w \in Streams
  PROVE  BytesOf[w] \in Seq(SB!Byte) /\ \E start : LaidOut(w, start)
<1> DEFINE n == Len(w)
           seqs == [i \in DOMAIN w |-> w[i].len \o w[i].payload]
<1>1. n \in Nat /\ DOMAIN w = 1 .. n
  BY WireTyped
<1>2. \A i \in 1 .. n : w[i].len \in Seq(SB!Byte) /\ w[i].payload \in Seq(SB!Byte)
  BY WireTyped
<1>3. \A i \in 1 .. n : seqs[i] = w[i].len \o w[i].payload
  BY <1>1
<1> HIDE DEF seqs
<1>4. ASSUME NEW i \in 1 .. n
      PROVE  /\ seqs[i] \in Seq(SB!Byte)
             /\ Len(seqs[i]) = Len(w[i].len) + Len(w[i].payload)
             /\ \A j \in 1 .. Len(w[i].len) : seqs[i][j] = w[i].len[j]
             /\ \A j \in 1 .. Len(w[i].payload) : seqs[i][Len(w[i].len) + j] = w[i].payload[j]
  <2> DEFINE a == w[i].len
             b == w[i].payload
  <2>1. a \in Seq(SB!Byte) /\ b \in Seq(SB!Byte) /\ seqs[i] = a \o b
    BY <1>2, <1>3
  <2> HIDE DEF a, b
  <2>2. /\ a \o b \in Seq(SB!Byte) /\ Len(a \o b) = Len(a) + Len(b)
        /\ \A j \in 1 .. Len(a) : (a \o b)[j] = a[j]
        /\ \A j \in 1 .. Len(b) : (a \o b)[Len(a) + j] = b[j]
    BY <2>1, ConcatElements
  <2> QED
    BY <2>1, <2>2 DEF a, b
<1>5. BytesOf[w] = FlattenSeq(seqs)
  BY DEF BytesOf, seqs
<1>6. seqs = [i \in 1 .. n |-> seqs[i]]
  BY <1>1 DEF seqs
<1> HIDE DEF n
<1>7. seqs \in [1 .. n -> Seq(SB!Byte)]
  BY <1>4, <1>6
<1>8. BytesOf[w] \in Seq(SB!Byte) /\ \E start : Placed(BytesOf[w], seqs, start, n)
  BY <1>1, <1>5, <1>7, FlattenPlaces
<1>9. PICK start : Placed(BytesOf[w], seqs, start, n)
  BY <1>8
<1>10. ASSUME NEW i \in 1 .. n
       PROVE  /\ start[i + 1] = start[i] + Len(w[i].len) + Len(w[i].payload)
              /\ \A j \in 1 .. Len(w[i].len) : BytesOf[w][start[i] + j] = w[i].len[j]
              /\ \A j \in 1 .. Len(w[i].payload) :
                    BytesOf[w][start[i] + Len(w[i].len) + j] = w[i].payload[j]
  <2> DEFINE a == Len(w[i].len)
             b == Len(w[i].payload)
             c == start[i]
  <2>1. a \in Nat /\ b \in Nat /\ c \in Nat
    BY <1>1, <1>2, <1>9 DEF Placed
  <2>2. /\ start[i + 1] = c + Len(seqs[i]) /\ Len(seqs[i]) = a + b
        /\ \A j \in 1 .. a + b : BytesOf[w][c + j] = seqs[i][j]
    BY <1>4, <1>9 DEF Placed
  <2>3. /\ \A j \in 1 .. a : seqs[i][j] = w[i].len[j]
        /\ \A j \in 1 .. b : seqs[i][a + j] = w[i].payload[j]
    BY <1>4
  <2> HIDE DEF a, b, c
  <2>4. start[i + 1] = c + a + b
    BY <2>1, <2>2
  <2>5. \A j \in 1 .. a : BytesOf[w][c + j] = w[i].len[j]
    BY <2>1, <2>2, <2>3
  <2>6. \A j \in 1 .. b : BytesOf[w][c + a + j] = w[i].payload[j]
    <3> SUFFICES ASSUME NEW j \in 1 .. b PROVE BytesOf[w][c + a + j] = w[i].payload[j]
      OBVIOUS
    <3>1. a + j \in 1 .. a + b /\ c + a + j = c + (a + j)
      BY <2>1
    <3> QED
      BY <2>2, <2>3, <3>1
  <2> QED
    BY <2>4, <2>5, <2>6 DEF a, b, c
<1>11. LaidOut(w, start)
  BY <1>9, <1>10 DEF LaidOut, Placed, n
<1> QED
  BY <1>8, <1>11
-----------------------------------------------------------------------------
(* SharedBuffer. *)

Buffers == [m_size : Nat, m_write_pointer : Nat, m_read_pointer : Nat, m_data : Seq(SB!Byte)]

\* The assertions of SharedBuffer.
Ordered(s) ==
    /\ s \in Buffers
    /\ s.m_read_pointer <= s.m_write_pointer
    /\ s.m_write_pointer <= s.m_size
    /\ Len(s.m_data) = s.m_size

LEMMA FunctionIsSequence ==
  ASSUME NEW S, NEW n \in Nat, NEW f \in [1 .. n -> S]
  PROVE  f \in Seq(S) /\ Len(f) = n
  OBVIOUS

LEMMA OrderedNumbers ==
  ASSUME NEW s, Ordered(s)
  PROVE  /\ s.m_size \in Nat /\ s.m_write_pointer \in Nat /\ s.m_read_pointer \in Nat
         /\ s.m_data \in Seq(SB!Byte) /\ DOMAIN s.m_data = 1 .. s.m_size
         /\ SB!free(s) \in Nat /\ SB!free(s) = s.m_size - s.m_write_pointer
         /\ SB!ready(s) \in Nat /\ SB!ready(s) = s.m_write_pointer - s.m_read_pointer
<1>1. /\ s.m_size \in Nat /\ s.m_write_pointer \in Nat /\ s.m_read_pointer \in Nat
      /\ s.m_data \in Seq(SB!Byte)
  BY DEF Ordered, Buffers
<1>2. DOMAIN s.m_data = 1 .. s.m_size
  BY <1>1 DEF Ordered
<1>3. s.m_read_pointer <= s.m_write_pointer /\ s.m_write_pointer <= s.m_size
  BY DEF Ordered
<1> QED
  BY <1>1, <1>2, <1>3 DEF SB!free, SB!ready

LEMMA NewOrdered ==
  ASSUME NEW size \in Nat, NEW s, s = SB!SharedBuffer(size)
  PROVE  /\ Ordered(s) /\ s.m_size = size
         /\ s.m_write_pointer = 0 /\ s.m_read_pointer = 0
<1> DEFINE d == [i \in 1 .. size |-> 0]
<1>1. d \in Seq(SB!Byte) /\ Len(d) = size
  BY DEF SB!Byte
<1> HIDE DEF d
<1>2. s = [m_size |-> size, m_write_pointer |-> 0, m_read_pointer |-> 0, m_data |-> d]
  BY DEF SB!SharedBuffer, d
<1> QED
  BY <1>1, <1>2 DEF Ordered, Buffers

LEMMA ReaderOrdered ==
  ASSUME NEW s, Ordered(s), NEW n \in Nat, n <= SB!ready(s), NEW t, t = SB!advance_reader(s, n)
  PROVE  /\ Ordered(t) /\ t.m_size = s.m_size /\ t.m_data = s.m_data
         /\ t.m_write_pointer = s.m_write_pointer
         /\ t.m_read_pointer = s.m_read_pointer + n
<1>1. /\ s.m_size \in Nat /\ s.m_write_pointer \in Nat /\ s.m_read_pointer \in Nat
      /\ n <= s.m_write_pointer - s.m_read_pointer
  BY OrderedNumbers
<1>2. t = [s EXCEPT !.m_read_pointer = s.m_read_pointer + n]
  BY DEF SB!advance_reader
<1>3. s \in Buffers
  BY DEF Ordered
<1>4. /\ t \in Buffers /\ t.m_size = s.m_size /\ t.m_data = s.m_data
      /\ t.m_write_pointer = s.m_write_pointer
      /\ t.m_read_pointer = s.m_read_pointer + n
  BY <1>1, <1>2, <1>3 DEF Buffers
<1> QED
  BY <1>1, <1>4 DEF Ordered

LEMMA WriterOrdered ==
  ASSUME NEW s, Ordered(s), NEW n \in Nat, n <= SB!free(s), NEW t, t = SB!advance_writer(s, n)
  PROVE  /\ Ordered(t) /\ t.m_size = s.m_size /\ t.m_data = s.m_data
         /\ t.m_write_pointer = s.m_write_pointer + n
         /\ t.m_read_pointer = s.m_read_pointer
<1>1. /\ s.m_size \in Nat /\ s.m_write_pointer \in Nat /\ s.m_read_pointer \in Nat
      /\ n <= s.m_size - s.m_write_pointer
  BY OrderedNumbers
<1>2. t = [s EXCEPT !.m_write_pointer = s.m_write_pointer + n]
  BY DEF SB!advance_writer
<1>3. s \in Buffers
  BY DEF Ordered
<1>4. /\ t \in Buffers /\ t.m_size = s.m_size /\ t.m_data = s.m_data
      /\ t.m_read_pointer = s.m_read_pointer
      /\ t.m_write_pointer = s.m_write_pointer + n
  BY <1>1, <1>2, <1>3 DEF Buffers
<1> QED
  BY <1>1, <1>4 DEF Ordered

\* t is s with bytes stored after the offset; those before it are not touched.
Stored(t, s, offset, bytes) ==
    /\ Ordered(t) /\ t.m_size = s.m_size
    /\ t.m_write_pointer = s.m_write_pointer
    /\ t.m_read_pointer = s.m_read_pointer
    /\ \A j \in 1 .. s.m_size : j <= offset => t.m_data[j] = s.m_data[j]
    /\ \A k \in 1 .. Len(bytes) : offset + k <= s.m_size => t.m_data[offset + k] = bytes[k]

LEMMA WrittenOrdered ==
  ASSUME NEW s, Ordered(s), NEW offset \in Nat, NEW bytes \in Seq(SB!Byte),
         NEW t, t = SB!Written(s, offset, bytes)
  PROVE  Stored(t, s, offset, bytes)
<1> DEFINE d == [i \in DOMAIN s.m_data |->
                   IF i \in offset + 1 .. offset + Len(bytes)
                   THEN bytes[i - offset] ELSE s.m_data[i]]
<1>1. /\ s.m_data \in Seq(SB!Byte) /\ DOMAIN s.m_data = 1 .. s.m_size /\ s.m_size \in Nat
      /\ Len(bytes) \in Nat
  BY OrderedNumbers
<1>2. \A i \in 1 .. s.m_size : d[i] \in SB!Byte
  <2> SUFFICES ASSUME NEW i \in 1 .. s.m_size PROVE d[i] \in SB!Byte
    OBVIOUS
  <2>1. CASE i \in offset + 1 .. offset + Len(bytes)
    <3>1. i - offset \in 1 .. Len(bytes)
      BY <1>1, <2>1
    <3>2. bytes[i - offset] \in SB!Byte
      BY <3>1
    <3> QED
      BY <1>1, <2>1, <3>2
  <2>2. CASE i \notin offset + 1 .. offset + Len(bytes)
    BY <1>1, <2>2
  <2> QED
    BY <2>1, <2>2
<1>3. DOMAIN d = 1 .. s.m_size
  BY <1>1
<1>4. \A j \in 1 .. s.m_size : j <= offset => d[j] = s.m_data[j]
  BY <1>1
<1>4a. \A k \in 1 .. Len(bytes) : offset + k <= s.m_size => d[offset + k] = bytes[k]
  <2> SUFFICES ASSUME NEW k \in 1 .. Len(bytes), offset + k <= s.m_size
               PROVE  d[offset + k] = bytes[k]
    OBVIOUS
  <2>1. /\ offset + k \in DOMAIN s.m_data
        /\ offset + k \in offset + 1 .. offset + Len(bytes) /\ (offset + k) - offset = k
    BY <1>1
  <2> QED
    BY <2>1
<1>5. t = [s EXCEPT !.m_data = d]
  BY DEF SB!Written
<1>6. d = [i \in 1 .. s.m_size |-> d[i]]
  BY <1>3
<1> HIDE DEF d
<1>7. d \in Seq(SB!Byte) /\ Len(d) = s.m_size
  <2>1. d \in [1 .. s.m_size -> SB!Byte]
    BY <1>2, <1>6
  <2> QED
    BY <1>1, <2>1, FunctionIsSequence
<1>8. s \in Buffers
  BY DEF Ordered
<1>9. /\ t \in Buffers /\ t.m_size = s.m_size /\ t.m_data = d
      /\ t.m_write_pointer = s.m_write_pointer
      /\ t.m_read_pointer = s.m_read_pointer
  BY <1>5, <1>7, <1>8 DEF Buffers
<1> QED
  BY <1>4, <1>4a, <1>7, <1>9 DEF Ordered, Stored

\* d are the n bytes of s after the offset.
Reads(d, s, offset, n) ==
    /\ d \in Seq(SB!Byte) /\ Len(d) = n
    /\ \A i \in 1 .. n : d[i] = s.m_data[offset + i]

LEMMA ReadBytes ==
  ASSUME NEW s, Ordered(s), NEW offset \in Nat, NEW n \in Nat, offset + n <= s.m_size,
         NEW d, d = SB!Read(s, offset, n)
  PROVE  Reads(d, s, offset, n)
<1> DEFINE lo == offset + 1
           hi == offset + n
<1>1. /\ s.m_data \in Seq(SB!Byte) /\ DOMAIN s.m_data = 1 .. s.m_size /\ s.m_size \in Nat
  BY OrderedNumbers
<1>2. \A i \in lo .. hi : s.m_data[i] \in SB!Byte
  BY <1>1
<1>3. lo \in Int /\ hi \in Int /\ lo = offset + 1 /\ hi = offset + n
  OBVIOUS
<1>4. d = SubSeq(s.m_data, lo, hi)
  BY DEF SB!Read
<1> HIDE DEF lo, hi
<1>5. /\ d \in Seq(SB!Byte)
      /\ Len(d) = IF lo <= hi THEN hi - lo + 1 ELSE 0
      /\ \A i \in 1 .. hi - lo + 1 : d[i] = s.m_data[lo + i - 1]
  BY <1>2, <1>3, <1>4, SubSeqProperties
<1>6. /\ (IF lo <= hi THEN hi - lo + 1 ELSE 0) = n
      /\ hi - lo + 1 = n
      /\ \A i \in 1 .. n : lo + i - 1 = offset + i
  BY <1>3
<1> QED
  BY <1>5, <1>6 DEF Reads

\* The bytes that are ready are the same in both.
SameReady(s, t) ==
    /\ SB!ready(t) = SB!ready(s)
    /\ \A j \in 1 .. SB!ready(s) :
          t.m_data[t.m_read_pointer + j] = s.m_data[s.m_read_pointer + j]

LEMMA CopyOrdered ==
  ASSUME NEW old, Ordered(old), NEW size \in Nat, SB!ready(old) <= size,
         NEW t, t = SB!copy_rest_from(SB!SharedBuffer(size), old)
  PROVE  /\ Ordered(t) /\ t.m_size = size /\ t.m_write_pointer = SB!ready(old)
         /\ t.m_read_pointer = 0 /\ SameReady(old, t)
<1> DEFINE n == SB!ready(old)
           new == SB!SharedBuffer(size)
           bytes == SB!Read(old, old.m_read_pointer, n)
           w == SB!Written(new, 0, bytes)
<1>1. /\ n \in Nat /\ old.m_read_pointer \in Nat /\ old.m_size \in Nat
      /\ old.m_write_pointer \in Nat /\ n = old.m_write_pointer - old.m_read_pointer
  BY OrderedNumbers
<1>2. old.m_read_pointer + n <= old.m_size
  BY <1>1 DEF Ordered
<1>3. t = SB!advance_writer(w, n)
  BY DEF SB!copy_rest_from
<1>4. /\ Ordered(new) /\ new.m_size = size
      /\ new.m_write_pointer = 0 /\ new.m_read_pointer = 0
  BY NewOrdered
<1>5. n <= size
  OBVIOUS
<1> HIDE DEF n, new
<1>6. /\ bytes \in Seq(SB!Byte) /\ Len(bytes) = n
      /\ \A i \in 1 .. n : bytes[i] = old.m_data[old.m_read_pointer + i]
  <2>1. bytes = SB!Read(old, old.m_read_pointer, n)
    OBVIOUS
  <2> HIDE DEF bytes
  <2>2. Reads(bytes, old, old.m_read_pointer, n)
    BY <1>1, <1>2, <2>1, ReadBytes
  <2> QED
    BY <2>2 DEF Reads
<1> HIDE DEF bytes
<1>7. /\ Ordered(w) /\ w.m_size = size
      /\ w.m_write_pointer = 0 /\ w.m_read_pointer = 0
      /\ \A k \in 1 .. n : 0 + k <= size => w.m_data[0 + k] = bytes[k]
  <2> DEFINE zero == 0
  <2>1. zero \in Nat /\ w = SB!Written(new, zero, bytes)
    OBVIOUS
  <2> HIDE DEF w, zero
  <2>2. Stored(w, new, zero, bytes)
    BY <1>4, <1>6, <2>1, WrittenOrdered
  <2> QED
    BY <1>4, <1>6, <2>2 DEF zero, Stored
<1> HIDE DEF w
<1>8. n <= SB!free(w)
  BY <1>1, <1>5, <1>7 DEF SB!free
<1>9. /\ Ordered(t) /\ t.m_size = size /\ t.m_data = w.m_data
      /\ t.m_write_pointer = 0 + n /\ t.m_read_pointer = 0
  BY <1>1, <1>3, <1>7, <1>8, WriterOrdered
<1>10. SB!ready(t) = n
  BY <1>1, <1>9 DEF SB!ready
<1>11. \A j \in 1 .. n : t.m_data[0 + j] = old.m_data[old.m_read_pointer + j]
  BY <1>1, <1>5, <1>6, <1>7, <1>9
<1> QED
  BY <1>1, <1>9, <1>10, <1>11 DEF SameReady, n
-----------------------------------------------------------------------------
(* MutableBuffer. *)

IsHeap(h) ==
    /\ h \in Seq(Buffers)
    /\ Len(h) \in Nat \ {0}
    /\ \A i \in 1 .. Len(h) : Ordered(h[i])

\* From h to g no buffer is given up, and no byte that was consumed is written.
KeptBuffer(s, t) ==
    /\ s.m_read_pointer <= t.m_read_pointer
    /\ \A j \in 1 .. s.m_read_pointer : t.m_data[j] = s.m_data[j]

Kept(h, g) ==
    /\ Len(h) <= Len(g)
    /\ \A i \in 1 .. Len(h) : KeptBuffer(h[i], g[i])

LEMMA CurrentOrdered ==
  ASSUME NEW h, IsHeap(h)
  PROVE  Ordered(m_buffer(h)) /\ Len(h) \in 1 .. Len(h)
  BY DEF IsHeap, m_buffer

LEMMA KeptSelf ==
  ASSUME NEW h, IsHeap(h)
  PROVE  Kept(h, h)
<1>1. \A i \in 1 .. Len(h) : h[i].m_read_pointer \in Nat
  BY OrderedNumbers DEF IsHeap
<1> QED
  BY <1>1 DEF IsHeap, Kept, KeptBuffer

LEMMA KeptOnward ==
  ASSUME NEW h, NEW g, NEW f, IsHeap(h), IsHeap(g), IsHeap(f), Kept(h, g), Kept(g, f)
  PROVE  Kept(h, f)
<1>1. Len(h) <= Len(f)
  BY DEF IsHeap, Kept
<1>2. ASSUME NEW i \in 1 .. Len(h) PROVE KeptBuffer(h[i], f[i])
  <2>1. i \in 1 .. Len(g) /\ i \in 1 .. Len(f)
    BY <1>1 DEF IsHeap, Kept
  <2>2. /\ h[i].m_read_pointer \in Nat /\ g[i].m_read_pointer \in Nat
        /\ f[i].m_read_pointer \in Nat
    BY <1>2, <2>1, OrderedNumbers DEF IsHeap
  <2>3. KeptBuffer(h[i], g[i]) /\ KeptBuffer(g[i], f[i])
    BY <1>2, <2>1 DEF Kept
  <2> QED
    BY <2>2, <2>3 DEF KeptBuffer
<1> QED
  BY <1>1, <1>2 DEF Kept

LEMMA ReplaceCurrent ==
  ASSUME NEW h, IsHeap(h), NEW t, Ordered(t), KeptBuffer(m_buffer(h), t),
         NEW g, g = [h EXCEPT ![Len(h)] = t]
  PROVE  IsHeap(g) /\ Kept(h, g) /\ Len(g) = Len(h) /\ m_buffer(g) = t
<1>1. h \in Seq(Buffers) /\ Len(h) \in Nat \ {0} /\ Len(h) \in 1 .. Len(h)
  BY DEF IsHeap
<1>2. t \in Buffers
  BY DEF Ordered
<1>3. /\ g \in Seq(Buffers) /\ Len(g) = Len(h) /\ g[Len(h)] = t
      /\ \A i \in 1 .. Len(h) : i # Len(h) => g[i] = h[i]
  BY <1>1, <1>2
<1>4. \A i \in 1 .. Len(h) : Ordered(g[i])
  BY <1>3 DEF IsHeap
<1>5. \A i \in 1 .. Len(h) : KeptBuffer(h[i], g[i])
  <2>1. Kept(h, h)
    BY KeptSelf
  <2>2. KeptBuffer(h[Len(h)], t)
    BY DEF m_buffer
  <2> QED
    BY <1>3, <2>1, <2>2 DEF Kept
<1>6. m_buffer(g) = t
  BY <1>3 DEF m_buffer
<1>7. IsHeap(g)
  BY <1>1, <1>3, <1>4 DEF IsHeap
<1>8. Kept(h, g)
  BY <1>1, <1>3, <1>5 DEF Kept
<1> QED
  BY <1>3, <1>6, <1>7, <1>8

LEMMA AppendBuffer ==
  ASSUME NEW h, IsHeap(h), NEW t, Ordered(t), NEW g, g = Append(h, t)
  PROVE  IsHeap(g) /\ Kept(h, g) /\ Len(g) = Len(h) + 1 /\ m_buffer(g) = t
<1>1. h \in Seq(Buffers) /\ Len(h) \in Nat \ {0}
  BY DEF IsHeap
<1>2. t \in Buffers
  BY DEF Ordered
<1>3. /\ g \in Seq(Buffers) /\ Len(g) = Len(h) + 1 /\ g[Len(h) + 1] = t
      /\ \A i \in 1 .. Len(h) : g[i] = h[i]
  BY <1>1, <1>2
<1>4. \A i \in 1 .. Len(g) : Ordered(g[i])
  BY <1>1, <1>3 DEF IsHeap
<1>5. \A i \in 1 .. Len(h) : KeptBuffer(h[i], g[i])
  <2>1. Kept(h, h)
    BY KeptSelf
  <2> QED
    BY <1>3, <2>1 DEF Kept
<1> QED
  BY <1>1, <1>3, <1>4, <1>5 DEF IsHeap, Kept, m_buffer

\* What prepare(n) makes of h: there is room for n bytes, and the same ones are ready.
Prepared(g, h, n) ==
    /\ IsHeap(g) /\ Kept(h, g)
    /\ n <= SB!free(m_buffer(g))
    /\ SameReady(m_buffer(h), m_buffer(g))

LEMMA PrepareHeap ==
  ASSUME NEW h, IsHeap(h), NEW n \in Nat, NEW g, g = prepare(h, n)
  PROVE  Prepared(g, h, n)
<1> DEFINE old  == m_buffer(h)
           size == SB!ready(old) + n + DefaultLength
           new  == SB!SharedBuffer(size)
           done == SB!advance_reader(old, SB!ready(old))
           copy == SB!copy_rest_from(new, old)
           rest == [h EXCEPT ![Len(h)] = done]
<1>1. Ordered(old)
  BY CurrentOrdered
<1>2. /\ SB!ready(old) \in Nat /\ SB!free(old) \in Nat /\ old.m_read_pointer \in Nat
  BY <1>1, OrderedNumbers
<1>3. g = IF SB!free(old) >= n THEN h ELSE Append(rest, copy)
  BY DEF prepare
<1> HIDE DEF old
<1>4. CASE SB!free(old) >= n
  <2>1. g = h
    BY <1>3, <1>4
  <2>2. Kept(h, h)
    BY KeptSelf
  <2>3. SameReady(old, old)
    BY DEF SameReady
  <2>4. n <= SB!free(old)
    BY <1>2, <1>4
  <2> QED
    BY <2>1, <2>2, <2>3, <2>4 DEF Prepared, old
<1>5. CASE ~(SB!free(old) >= n)
  <2>1. g = Append(rest, copy)
    BY <1>3, <1>5
  <2>2. size \in Nat /\ SB!ready(old) <= size /\ n <= size - SB!ready(old)
    BY <1>2, DefaultLengthAssumption
  <2>3. copy = SB!copy_rest_from(SB!SharedBuffer(size), old)
    OBVIOUS
  <2>4. SB!ready(old) <= SB!ready(old)
    BY <1>2
  <2>5. /\ Ordered(done) /\ done.m_data = old.m_data
        /\ done.m_read_pointer = old.m_read_pointer + SB!ready(old)
    BY <1>1, <1>2, <2>4, ReaderOrdered
  <2>6. KeptBuffer(old, done)
    BY <1>2, <2>5 DEF KeptBuffer
  <2> HIDE DEF size, new, done, copy
  <2>7. /\ Ordered(copy) /\ copy.m_size = size /\ copy.m_write_pointer = SB!ready(old)
        /\ SameReady(old, copy)
    BY <1>1, <2>2, <2>3, CopyOrdered
  <2>8. IsHeap(rest) /\ Kept(h, rest)
    BY <2>5, <2>6, ReplaceCurrent DEF old
  <2> HIDE DEF rest
  <2>9. IsHeap(g) /\ Kept(rest, g) /\ m_buffer(g) = copy
    BY <2>1, <2>7, <2>8, AppendBuffer
  <2>10. Kept(h, g)
    BY <2>8, <2>9, KeptOnward
  <2>11. n <= SB!free(copy)
    BY <1>2, <2>2, <2>7 DEF SB!free
  <2> QED
    BY <2>7, <2>9, <2>10, <2>11 DEF Prepared, old
<1> QED
  BY <1>4, <1>5

\* What the socket, and the methods that move a position, make of h: another current
\* buffer with the same bytes consumed.
Moved(g, h, t) ==
    /\ IsHeap(g) /\ Kept(h, g)
    /\ Len(g) = Len(h) /\ m_buffer(g) = t /\ Ordered(t)

LEMMA AdvanceWriterHeap ==
  ASSUME NEW h, IsHeap(h), NEW n \in Nat, n <= SB!free(m_buffer(h)),
         NEW g, g = advance_writer(h, n)
  PROVE  Moved(g, h, SB!advance_writer(m_buffer(h), n))
<1> DEFINE s == m_buffer(h)
           t == SB!advance_writer(s, n)
<1>1. Ordered(s)
  BY CurrentOrdered
<1>2. s.m_read_pointer \in Nat
  BY <1>1, OrderedNumbers
<1>3. /\ Ordered(t) /\ t.m_data = s.m_data /\ t.m_read_pointer = s.m_read_pointer
  BY <1>1, WriterOrdered
<1>4. g = [h EXCEPT ![Len(h)] = t]
  BY DEF advance_writer, m_buffer
<1> HIDE DEF t
<1>5. KeptBuffer(s, t)
  BY <1>2, <1>3 DEF KeptBuffer
<1>6. Moved(g, h, t)
  BY <1>3, <1>4, <1>5, ReplaceCurrent DEF Moved
<1> QED
  BY <1>6 DEF t

LEMMA AdvanceReaderHeap ==
  ASSUME NEW h, IsHeap(h), NEW n \in Nat, n <= SB!ready(m_buffer(h)),
         NEW g, g = advance_reader(h, n)
  PROVE  Moved(g, h, SB!advance_reader(m_buffer(h), n))
<1> DEFINE s == m_buffer(h)
           t == SB!advance_reader(s, n)
<1>1. Ordered(s)
  BY CurrentOrdered
<1>2. s.m_read_pointer \in Nat
  BY <1>1, OrderedNumbers
<1>3. /\ Ordered(t) /\ t.m_data = s.m_data /\ t.m_read_pointer = s.m_read_pointer + n
  BY <1>1, ReaderOrdered
<1>4. g = [h EXCEPT ![Len(h)] = t]
  BY DEF advance_reader, m_buffer
<1> HIDE DEF t
<1>5. KeptBuffer(s, t)
  BY <1>2, <1>3 DEF KeptBuffer
<1>6. Moved(g, h, t)
  BY <1>3, <1>4, <1>5, ReplaceCurrent DEF Moved
<1> QED
  BY <1>6 DEF t

\* After clear nothing is ready.
LEMMA ClearHeap ==
  ASSUME NEW h, IsHeap(h), NEW g, g = clear(h)
  PROVE  IsHeap(g) /\ Kept(h, g) /\ SB!ready(m_buffer(g)) = 0
<1> DEFINE new == SB!SharedBuffer(DefaultLength)
<1>1. g = IF SB!is_empty(m_buffer(h)) THEN h ELSE Append(h, new)
  BY DEF clear
<1>2. CASE SB!is_empty(m_buffer(h))
  <2>1. Ordered(m_buffer(h))
    BY CurrentOrdered
  <2>2. SB!ready(m_buffer(h)) = 0
    BY <1>2, <2>1, OrderedNumbers DEF SB!is_empty
  <2> QED
    BY <1>1, <1>2, <2>2, KeptSelf
<1>3. CASE ~SB!is_empty(m_buffer(h))
  <2>1. Ordered(new) /\ new.m_write_pointer = 0 /\ new.m_read_pointer = 0
    BY NewOrdered, DefaultLengthAssumption
  <2> HIDE DEF new
  <2>2. IsHeap(g) /\ Kept(h, g) /\ m_buffer(g) = new
    BY <1>1, <1>3, <2>1, AppendBuffer
  <2> QED
    BY <2>1, <2>2 DEF SB!ready
<1> QED
  BY <1>2, <1>3
-----------------------------------------------------------------------------
(* FrozenBuffer: it references consumed bytes only, so it never changes. *)

FrozenBuffers == [m_data : Nat, m_size : Nat, m_buf : Nat]

FrameIn(f, h) ==
    /\ f \in FrozenBuffers
    /\ f.m_buf \in 1 .. Len(h)
    /\ f.m_data + f.m_size <= h[f.m_buf].m_read_pointer

LEMMA FrameKept ==
  ASSUME NEW h, NEW g, IsHeap(h), IsHeap(g), Kept(h, g), NEW f, FrameIn(f, h)
  PROVE  FrameIn(f, g) /\ Contents(g, f) = Contents(h, f)
<1> DEFINE s == h[f.m_buf]
           t == g[f.m_buf]
           c == Contents(h, f)
           d == Contents(g, f)
<1>1. /\ f.m_data \in Nat /\ f.m_size \in Nat /\ f.m_buf \in 1 .. Len(h)
      /\ f.m_buf \in 1 .. Len(g)
  BY DEF FrameIn, FrozenBuffers, Kept, IsHeap
<1>2. Ordered(s) /\ Ordered(t) /\ KeptBuffer(s, t)
  BY <1>1 DEF IsHeap, Kept
<1>3. f.m_data + f.m_size <= s.m_read_pointer
  BY DEF FrameIn
<1>4. c = SB!Read(s, f.m_data, f.m_size) /\ d = SB!Read(t, f.m_data, f.m_size)
  BY DEF Contents
<1> HIDE DEF s, t, c, d
<1>5. /\ s.m_size \in Nat /\ s.m_write_pointer \in Nat /\ s.m_read_pointer \in Nat
      /\ t.m_size \in Nat /\ t.m_write_pointer \in Nat /\ t.m_read_pointer \in Nat
  BY <1>2, OrderedNumbers
<1>6. /\ s.m_read_pointer <= s.m_size /\ t.m_read_pointer <= t.m_size
  BY <1>2, <1>5 DEF Ordered
<1>7. s.m_read_pointer <= t.m_read_pointer
  BY <1>2 DEF KeptBuffer
<1>8. /\ f.m_data + f.m_size <= s.m_size /\ f.m_data + f.m_size <= t.m_size
      /\ f.m_data + f.m_size <= t.m_read_pointer
  BY <1>1, <1>3, <1>5, <1>6, <1>7
<1>9. Reads(c, s, f.m_data, f.m_size) /\ Reads(d, t, f.m_data, f.m_size)
  BY <1>1, <1>2, <1>4, <1>8, ReadBytes
<1>10. \A i \in 1 .. f.m_size : f.m_data + i \in 1 .. s.m_read_pointer
  BY <1>1, <1>3, <1>5
<1>11. \A i \in 1 .. f.m_size : d[i] = c[i]
  BY <1>2, <1>9, <1>10 DEF Reads, KeptBuffer
<1>12. d = c
  BY <1>9, <1>11, SeqEqual DEF Reads
<1> QED
  BY <1>1, <1>8, <1>12 DEF FrameIn, s, t, c, d
-----------------------------------------------------------------------------
(* The invariant. *)

Headers == {convert(unpack(b)) : b \in Seq(SB!Byte)}

Frames == [header : Headers, body : FrozenBuffers]

\* TypeOK without the buffers, and the frames.
Scalars ==
    /\ stage \in {"idle", "tag", "length", "body"}
    /\ want \in Nat /\ tag \in {0} \cup DOMAIN LengthSize
    /\ ec \in {"none", "net"} \cup DecodeErrors
    /\ wire \in Streams /\ taken \in 0 .. Len(Sent)
    /\ nth \in 0 .. Len(delivered)
    /\ connections \in 1 .. MaxConnections
    /\ delivered \in Seq(Frames)

ReadTyped == read \in [target : 0 .. Len(heap), min : Nat, got : Nat]

\* A frame that was handed out references consumed bytes.
FramesIn == \A i \in 1 .. Len(delivered) : FrameIn(delivered[i].body, heap)

\* A read is made for the bytes that transfer_exactly lacks, into the current buffer.
Reading ==
    read # NoRead =>
        /\ stage # "idle" /\ ec = "none"
        /\ read.target = Len(heap)
        /\ read.min = want - SB!ready(m_buffer(heap))
        /\ read.min <= SB!free(m_buffer(heap))
        /\ read.got <= SB!free(m_buffer(heap))

Quiet == (ec # "none" => read = NoRead /\ stage = "idle") /\ (stage = "tag" => want = 1)

\* The n bytes that follow the read position of s are the last n taken from the socket.
InOrder(s, n) ==
    /\ n <= taken
    /\ \A j \in 1 .. n : s.m_data[s.m_read_pointer + j] = Sent[taken - n + j]

IInv ==
    /\ IsHeap(heap) /\ Scalars /\ ReadTyped
    /\ FramesIn /\ Reading /\ Quiet /\ BytesInOrder

LEMMA SentBytes ==
  ASSUME Scalars
  PROVE  Sent \in Seq(SB!Byte) /\ Len(Sent) \in Nat /\ taken \in Nat /\ taken <= Len(Sent)
<1>1. Sent \in Seq(SB!Byte)
  BY MessagesLaidOut DEF Scalars, Sent
<1> QED
  BY <1>1 DEF Scalars

LEMMA InvImpliesTypes ==
  IInv => TypeOK
<1> SUFFICES ASSUME IInv PROVE TypeOK
  OBVIOUS
<1>1. DOMAIN heap = 1 .. Len(heap)
  BY DEF IInv, IsHeap
<1>2. \A i \in DOMAIN heap :
         /\ heap[i].m_size \in Nat /\ heap[i].m_write_pointer \in Nat
         /\ heap[i].m_read_pointer \in Nat
         /\ heap[i].m_data \in Seq(SB!Byte)
  BY <1>1, OrderedNumbers DEF IInv, IsHeap
<1> QED
  BY <1>2 DEF IInv, Scalars, ReadTyped, TypeOK

LEMMA InvImpliesOrdered ==
  IInv => PositionsOrdered
<1> SUFFICES ASSUME IInv PROVE PositionsOrdered
  OBVIOUS
<1>1. DOMAIN heap = 1 .. Len(heap)
  BY DEF IInv, IsHeap
<1>2. \A i \in DOMAIN heap :
         /\ heap[i].m_read_pointer <= heap[i].m_write_pointer
         /\ heap[i].m_write_pointer <= heap[i].m_size
  BY <1>1 DEF IInv, IsHeap, Ordered
<1> QED
  BY <1>2 DEF IInv, Reading, PositionsOrdered

LEMMA InitInv ==
  Init => IInv
<1> SUFFICES ASSUME Init PROVE IInv
  OBVIOUS
<1> DEFINE s == SB!SharedBuffer(DefaultLength)
<1>1. heap = <<s>>
  BY DEF Init, MutableBuffer
<1>2. Ordered(s) /\ s.m_write_pointer = 0 /\ s.m_read_pointer = 0
  BY NewOrdered, DefaultLengthAssumption
<1> HIDE DEF s
<1>3. s \in Buffers
  BY <1>2 DEF Ordered
<1>4. heap \in Seq(Buffers) /\ Len(heap) = 1 /\ heap[1] = s
  BY <1>1, <1>3
<1>5. IsHeap(heap)
  BY <1>2, <1>4 DEF IsHeap
<1>6. Sent \in Seq(SB!Byte)
  BY MessagesLaidOut DEF Init, Sent
<1>7. delivered \in Seq(Frames) /\ Len(delivered) = 0
  BY DEF Init
<1>8. Scalars
  BY <1>6, <1>7, MaxConnectionsAssumption DEF Init, Scalars
<1>9. ReadTyped
  BY <1>4 DEF Init, ReadTyped, NoRead
<1>10. FramesIn
  BY <1>7 DEF FramesIn
<1>11. Reading /\ Quiet
  BY DEF Init, Reading, Quiet
<1>12. m_buffer(heap) = s
  BY <1>4 DEF m_buffer
<1>13. Unread = 0
  BY <1>2, <1>12 DEF Unread, SB!ready, Init, NoRead
<1>14. BytesInOrder
  BY <1>13 DEF BytesInOrder, Init
<1> QED
  BY <1>5, <1>8, <1>9, <1>10, <1>11, <1>14 DEF IInv
-----------------------------------------------------------------------------
(* The end of a transfer_exactly. *)

LEMMA LengthSizes ==
  ASSUME NEW t \in DOMAIN LengthSize
  PROVE  LengthSize[t] \in Nat
<1>1. t \in DOMAIN UnsignedSize \cup DOMAIN SignedSize
  BY DEF LengthSize
<1>2. LengthSize[t] = IF t \in DOMAIN UnsignedSize THEN UnsignedSize[t] ELSE SignedSize[t]
  BY <1>1 DEF LengthSize
<1>3. ASSUME t \in DOMAIN UnsignedSize PROVE UnsignedSize[t] \in Nat
  <2>1. t \in {204, 206, 207}
    BY <1>3 DEF UnsignedSize
  <2>2. UnsignedSize[t] = CASE t = 204 -> 1 [] t = 206 -> 4 [] t = 207 -> 8
    BY <2>1 DEF UnsignedSize
  <2> QED
    BY <2>1, <2>2
<1>4. ASSUME t \in DOMAIN SignedSize PROVE SignedSize[t] \in Nat
  <2>1. t \in {208, 209, 210, 211}
    BY <1>4 DEF SignedSize
  <2>2. SignedSize[t] = CASE t = 208 -> 1 [] t = 209 -> 2 [] t = 210 -> 4 [] t = 211 -> 8
    BY <2>1 DEF SignedSize
  <2> QED
    BY <2>1, <2>2
<1> QED
  BY <1>1, <1>2, <1>3, <1>4

LEMMA ByteIsNatural ==
  ASSUME NEW b \in SB!Byte
  PROVE  b \in Nat
  BY DEF SB!Byte

LEMMA SizeTypeIsNatural ==
  ASSUME NEW bytes \in Seq(SB!Byte)
  PROVE  AsSizeType(bytes) \in Nat
<1>1. \A i \in Nat : i < Len(bytes) => Len(bytes) - i \in 1 .. Len(bytes)
  OBVIOUS
<1>2. \A i \in Nat : Digit(bytes, i) \in Nat
  <2> SUFFICES ASSUME NEW i \in Nat PROVE Digit(bytes, i) \in Nat
    OBVIOUS
  <2>1. CASE i < Len(bytes)
    <3>1. bytes[Len(bytes) - i] \in SB!Byte
      BY <1>1, <2>1
    <3>2. bytes[Len(bytes) - i] \in Nat
      BY <3>1, ByteIsNatural
    <3> QED
      BY <2>1, <3>2 DEF Digit
  <2>2. CASE ~(i < Len(bytes))
    BY <2>2 DEF Digit
  <2> QED
    BY <2>1, <2>2
<1>3. /\ Digit(bytes, 0) \in Nat /\ Digit(bytes, 1) \in Nat
      /\ Digit(bytes, 2) \in Nat /\ Digit(bytes, 3) \in Nat
  BY <1>2
<1>4. ASSUME NEW a \in Nat, NEW b \in Nat, NEW c \in Nat, NEW d \in Nat,
             Digit(bytes, 0) = d, Digit(bytes, 1) = c, Digit(bytes, 2) = b, Digit(bytes, 3) = a
      PROVE  AsSizeType(bytes) \in Nat
  <2>1. AsSizeType(bytes) = d + 256 * c + 65536 * b + 16777216 * a
    BY <1>4, SMTT(30) DEF AsSizeType
  <2>2. d + 256 * c + 65536 * b + 16777216 * a \in Nat
    BY SMTT(30)
  <2> QED
    BY <2>1, <2>2, SMTT(30)
<1> QED
  BY <1>3, <1>4, Zenon

\* The three ways in which receive_message goes on.
Continues ==
    \E s \in {"length", "body"}, n \in Nat :
        /\ s # stage /\ stage' = s /\ want' = n
        /\ tag' \in {0} \cup DOMAIN LengthSize
        /\ UNCHANGED <<ec, delivered, nth>>

GivesUp ==
    \E e \in DecodeErrors :
        /\ stage' = "idle" /\ want' = 0 /\ ec' = e
        /\ UNCHANGED <<tag, delivered, nth>>

Delivers(f) ==
    /\ f \in Frames
    /\ delivered' = Append(delivered, f)
    /\ nth' = nth + 1
    /\ stage' = "idle" /\ want' = 0
    /\ UNCHANGED <<tag, ec>>

LEMMA Outcomes ==
  ASSUME Scalars, Quiet, stage # "idle", NEW h, IsHeap(h),
         want <= SB!ready(m_buffer(h)), Transferred(h)
  PROVE  \/ Continues \/ GivesUp
         \/ \E f : /\ Delivers(f) /\ f.body.m_buf = Len(h)
                   /\ f.body.m_data + f.body.m_size = m_buffer(h).m_read_pointer + want
<1> DEFINE s      == m_buffer(h)
           frozen == FrozenBuffer(h, want)
           bytes  == Contents(h, frozen)
<1>1. Ordered(s) /\ Len(h) \in Nat
  BY CurrentOrdered DEF IsHeap
<1>2. /\ s.m_size \in Nat /\ s.m_write_pointer \in Nat /\ s.m_read_pointer \in Nat
      /\ SB!ready(s) = s.m_write_pointer - s.m_read_pointer /\ want \in Nat
  BY <1>1, OrderedNumbers DEF Scalars
<1>3. s.m_read_pointer + want <= s.m_size
  BY <1>1, <1>2 DEF Ordered
<1>4. frozen = [m_data |-> s.m_read_pointer, m_size |-> want, m_buf |-> Len(h)]
  BY DEF FrozenBuffer
<1>5. bytes = SB!Read(s, s.m_read_pointer, want)
  BY <1>4 DEF Contents, m_buffer
<1>6. \/ stage = "tag" /\ OnTag(bytes[1])
      \/ stage = "length" /\ OnLength(bytes)
      \/ stage = "body" /\ OnBody(frozen, bytes)
  BY DEF Transferred
<1> HIDE DEF s, frozen, bytes
<1>7. Reads(bytes, s, s.m_read_pointer, want)
  BY <1>1, <1>2, <1>3, <1>5, ReadBytes
<1>8. bytes \in Seq(SB!Byte) /\ Len(bytes) = want
  BY <1>7 DEF Reads
<1>9. tag \in {0} \cup DOMAIN LengthSize
  BY DEF Scalars
<1>10. CASE stage = "tag" /\ OnTag(bytes[1])
  <2>1. bytes[1] \in Nat
    <3>1. Len(bytes) = 1
      BY <1>8, <1>10 DEF Quiet
    <3>2. bytes[1] \in SB!Byte
      BY <1>8, <3>1
    <3> QED
      BY <3>2 DEF SB!Byte
  <2> DEFINE type == bytes[1]
  <2> HIDE DEF type
  <2>2. OnTag(type) /\ type \in Nat /\ stage = "tag"
    BY <1>10, <2>1 DEF type
  <2>3. CASE type < 128 /\ Await("body", type) /\ UNCHANGED tag
    BY <1>9, <2>2, <2>3 DEF Await, Continues
  <2>4. CASE type \in DOMAIN LengthSize /\ Await("length", LengthSize[type]) /\ tag' = type
    <3>1. LengthSize[type] \in Nat
      BY <2>4, LengthSizes
    <3> QED
      BY <2>2, <2>4, <3>1 DEF Await, Continues
  <2>5. CASE type >= 224 /\ Fail("message_size")
    BY <2>5 DEF Fail, GivesUp, DecodeErrors
  <2>6. CASE Await("body", 0) /\ UNCHANGED tag
    <3>1. 0 \in Nat
      OBVIOUS
    <3> QED
      BY <1>9, <2>2, <2>6, <3>1 DEF Await, Continues
  <2> QED
    BY <2>2, <2>3, <2>4, <2>5, <2>6 DEF OnTag
<1>11. CASE stage = "length" /\ OnLength(bytes)
  <2>1. AsSizeType(bytes) \in Nat
    BY <1>8, SizeTypeIsNatural
  <2>2. CASE Await("body", AsSizeType(bytes)) /\ UNCHANGED tag
    BY <1>9, <1>11, <2>1, <2>2 DEF Await, Continues
  <2>3. CASE Fail("message_size")
    BY <2>3 DEF Fail, GivesUp, DecodeErrors
  <2> QED
    BY <1>11, <2>2, <2>3 DEF OnLength
<1>12. CASE stage = "body" /\ OnBody(frozen, bytes)
  <2>1. CASE Fail("state_not_recoverable")
    BY <2>1 DEF Fail, GivesUp, DecodeErrors
  <2>2. CASE Fail("illegal_byte_sequence")
    BY <2>2 DEF Fail, GivesUp, DecodeErrors
  <2> DEFINE f == [header |-> convert(unpack(bytes)), body |-> slice(frozen, 1)]
  <2>3. CASE /\ Convertible(unpack(bytes))
             /\ delivered' = Append(delivered, f)
             /\ nth' = nth + 1 /\ stage' = "idle" /\ want' = 0 /\ UNCHANGED <<tag, ec>>
    <3>1. bytes # <<>>
      <4>1. unpack(bytes) # Garbage
        BY <2>3 DEF Convertible, Garbage, Truncated
      <4> QED
        BY <4>1 DEF unpack
    <3>2. want >= 1
      BY <1>2, <1>8, <3>1
    <3>3. slice(frozen, 1) = [m_data |-> s.m_read_pointer + 1, m_size |-> want - 1,
                              m_buf |-> Len(h)]
      <4>1. frozen \in FrozenBuffers
        BY <1>1, <1>2, <1>4 DEF FrozenBuffers
      <4>2. slice(frozen, 1) = [frozen EXCEPT !.m_data = frozen.m_data + 1,
                                              !.m_size = frozen.m_size - 1]
        BY DEF slice
      <4> QED
        BY <1>4, <4>1, <4>2 DEF FrozenBuffers
    <3>4. slice(frozen, 1) \in FrozenBuffers
      BY <1>1, <1>2, <3>2, <3>3 DEF FrozenBuffers
    <3>5. convert(unpack(bytes)) \in Headers
      BY <1>8 DEF Headers
    <3>6. f \in Frames
      BY <3>4, <3>5 DEF Frames
    <3>7. f.body = slice(frozen, 1)
      OBVIOUS
    <3> HIDE DEF f
    <3>8. f.body.m_buf = Len(h) /\ f.body.m_data = s.m_read_pointer + 1
          /\ f.body.m_size = want - 1
      BY <3>3, <3>7
    <3>9. f.body.m_data + f.body.m_size = s.m_read_pointer + want
      BY <1>2, <3>8
    <3>10. Delivers(f)
      BY <2>3, <3>6 DEF Delivers
    <3> QED
      BY <3>8, <3>9, <3>10 DEF s
  <2> QED
    BY <1>12, <2>1, <2>2, <2>3 DEF OnBody
<1> QED
  BY <1>6, <1>10, <1>11, <1>12

LEMMA FramesStay ==
  ASSUME IInv, NEW g, IsHeap(g), Kept(heap, g), NEW i \in 1 .. Len(delivered)
  PROVE  /\ FrameIn(delivered[i].body, g)
         /\ Contents(g, delivered[i].body) = Contents(heap, delivered[i].body)
<1>1. IsHeap(heap) /\ FrameIn(delivered[i].body, heap)
  BY DEF IInv, FramesIn
<1> QED
  BY <1>1, FrameKept

\* When the frames are the same, the bytes they reference may not change.
LEMMA SameFrames ==
  ASSUME IInv, IsHeap(heap'), Kept(heap, heap'), delivered' = delivered
  PROVE  FramesIn'
  BY FramesStay DEF FramesIn

\* Frames only ever come after those delivered before.
Extended ==
    /\ Len(delivered) <= Len(delivered')
    /\ \A i \in 1 .. Len(delivered) : delivered'[i] = delivered[i]

LEMMA TransferKeepsInv ==
  ASSUME IInv, NEW h, IsHeap(h), Kept(heap, h), stage # "idle", ec = "none",
         want <= SB!ready(m_buffer(h)), InOrder(m_buffer(h), SB!ready(m_buffer(h))),
         Transferred(h), UNCHANGED <<taken, netVars>>
  PROVE  /\ IInv' /\ Kept(heap, heap') /\ Extended
         /\ Unread' = SB!ready(m_buffer(h)) - want /\ stage' # stage
<1> DEFINE s == m_buffer(h)
           n == SB!ready(s)
           t == SB!advance_reader(s, want)
<1>1. /\ Scalars /\ Quiet /\ want \in Nat /\ IsHeap(heap)
  BY DEF IInv, Scalars
<1>2. heap' = advance_reader(h, want) /\ read' = NoRead
  BY DEF Transferred
<1>3. /\ wire' = wire /\ taken' = taken /\ connections' = connections /\ Sent' = Sent
  BY DEF netVars, Sent
<1>4. Moved(heap', h, t)
  BY <1>1, <1>2, AdvanceReaderHeap
<1>5. /\ IsHeap(heap') /\ Kept(h, heap') /\ Len(heap') = Len(h) /\ m_buffer(heap') = t
  BY <1>4 DEF Moved
<1>6. Kept(heap, heap')
  BY <1>1, <1>5, KeptOnward
<1>7. Ordered(s) /\ Len(h) \in 1 .. Len(h)
  BY CurrentOrdered
<1>8. /\ s.m_read_pointer \in Nat /\ s.m_write_pointer \in Nat /\ n \in Nat
      /\ n = s.m_write_pointer - s.m_read_pointer /\ taken \in Nat
      /\ want <= n /\ InOrder(s, n)
  BY <1>1, <1>7, OrderedNumbers, SentBytes
<1>9. /\ Ordered(t) /\ t.m_data = s.m_data /\ t.m_write_pointer = s.m_write_pointer
      /\ t.m_read_pointer = s.m_read_pointer + want
  BY <1>1, <1>7, ReaderOrdered
<1> HIDE DEF s, n, t
<1>10. SB!ready(t) = n - want
  BY <1>1, <1>8, <1>9 DEF SB!ready
<1>11. Unread' = n - want
  BY <1>1, <1>2, <1>5, <1>8, <1>10 DEF Unread, NoRead
<1>12. InOrder(t, n - want)
  <2>1. n - want <= taken
    BY <1>1, <1>8 DEF InOrder
  <2>2. ASSUME NEW j \in 1 .. n - want
        PROVE  t.m_data[t.m_read_pointer + j] = Sent[taken - (n - want) + j]
    <3>1. /\ want + j \in 1 .. n
          /\ t.m_read_pointer + j = s.m_read_pointer + (want + j)
          /\ taken - (n - want) + j = taken - n + (want + j)
      BY <1>1, <1>8, <1>9
    <3>2. s.m_data[s.m_read_pointer + (want + j)] = Sent[taken - n + (want + j)]
      BY <1>8, <3>1 DEF InOrder
    <3> QED
      BY <1>9, <3>1, <3>2
  <2> QED
    BY <2>1, <2>2 DEF InOrder
<1>13. BytesInOrder'
  BY <1>3, <1>5, <1>11, <1>12 DEF BytesInOrder, InOrder
<1>14. ReadTyped'
  BY <1>2, <1>5, <1>7 DEF ReadTyped, NoRead, IsHeap
<1>15. Reading'
  BY <1>2 DEF Reading
<1>16. /\ delivered \in Seq(Frames) /\ Len(delivered) \in Nat /\ nth \in 0 .. Len(delivered)
  BY <1>1 DEF Scalars
<1>17. CASE Continues
  <2> PICK m \in {"length", "body"}, k \in Nat :
        /\ m # stage /\ stage' = m /\ want' = k
        /\ tag' \in {0} \cup DOMAIN LengthSize
        /\ UNCHANGED <<ec, delivered, nth>>
    BY <1>17 DEF Continues
  <2>1. Scalars'
    BY <1>1, <1>3 DEF Scalars
  <2>2. FramesIn' /\ Extended
    BY <1>5, <1>6, <1>16, SameFrames DEF Extended
  <2>3. Quiet'
    BY <1>2 DEF Quiet
  <2>4. stage' # stage
    OBVIOUS
  <2> QED
    BY <1>5, <1>6, <1>11, <1>13, <1>14, <1>15, <2>1, <2>2, <2>3, <2>4 DEF IInv, s, n
<1>18. CASE GivesUp
  <2> PICK e \in DecodeErrors :
        /\ stage' = "idle" /\ want' = 0 /\ ec' = e
        /\ UNCHANGED <<tag, delivered, nth>>
    BY <1>18 DEF GivesUp
  <2>1. Scalars'
    BY <1>1, <1>3 DEF Scalars
  <2>2. FramesIn' /\ Extended
    BY <1>5, <1>6, <1>16, SameFrames DEF Extended
  <2>3. Quiet'
    BY <1>2 DEF Quiet
  <2>4. stage' # stage
    OBVIOUS
  <2> QED
    BY <1>5, <1>6, <1>11, <1>13, <1>14, <1>15, <2>1, <2>2, <2>3, <2>4 DEF IInv, s, n
<1>19. ASSUME NEW f, Delivers(f), f.body.m_buf = Len(h),
              f.body.m_data + f.body.m_size = s.m_read_pointer + want
       PROVE  /\ IInv' /\ Kept(heap, heap') /\ Extended
              /\ Unread' = SB!ready(m_buffer(h)) - want /\ stage' # stage
  <2>1. /\ f \in Frames /\ delivered' = Append(delivered, f)
        /\ nth' = nth + 1 /\ stage' = "idle" /\ want' = 0 /\ tag' = tag /\ ec' = ec
    BY <1>19 DEF Delivers
  <2>2. /\ delivered' \in Seq(Frames) /\ Len(delivered') = Len(delivered) + 1
        /\ delivered'[Len(delivered) + 1] = f
        /\ \A i \in 1 .. Len(delivered) : delivered'[i] = delivered[i]
    BY <1>16, <2>1
  <2>3. nth' \in 0 .. Len(delivered')
    BY <1>16, <2>1, <2>2
  <2>4. Scalars'
    BY <1>1, <1>3, <2>1, <2>2, <2>3 DEF Scalars
  <2>5. FrameIn(f.body, heap')
    <3>1. heap'[Len(h)] = t
      BY <1>5 DEF m_buffer
    <3>2. f.body \in FrozenBuffers
      BY <2>1 DEF Frames
    <3>3. s.m_read_pointer + want <= t.m_read_pointer
      BY <1>1, <1>8, <1>9
    <3> QED
      BY <1>5, <1>7, <1>19, <3>1, <3>2, <3>3 DEF FrameIn
  <2>6. FramesIn'
    <3> SUFFICES ASSUME NEW i \in 1 .. Len(delivered')
                 PROVE  FrameIn(delivered'[i].body, heap')
      BY DEF FramesIn
    <3>1. CASE i \in 1 .. Len(delivered)
      BY <1>5, <1>6, <2>2, <3>1, FramesStay
    <3>2. CASE i \notin 1 .. Len(delivered)
      <4>1. i = Len(delivered) + 1
        BY <1>16, <2>2, <3>2
      <4> QED
        BY <2>2, <2>5, <4>1
    <3> QED
      BY <3>1, <3>2
  <2>7. Quiet'
    BY <1>2, <2>1 DEF Quiet
  <2>8. Extended
    BY <1>16, <2>2 DEF Extended
  <2>9. stage' # stage
    BY <2>1
  <2> QED
    BY <1>5, <1>6, <1>11, <1>13, <1>14, <1>15, <2>4, <2>6, <2>7, <2>8, <2>9 DEF IInv, s, n
<1> QED
  BY <1>1, <1>17, <1>18, <1>19, Outcomes DEF s
-----------------------------------------------------------------------------
(* The steps. *)

\* What the action properties say of a step.
Advances ==
    ec = "none" /\ ec' = "none" =>
        Consumed' = Consumed + IF stage # "idle" /\ stage' # stage THEN want ELSE 0

StepKeeps == IInv' /\ Kept(heap, heap') /\ Extended /\ Advances

\* The numbers of a state.
LEMMA Numbers ==
  ASSUME IInv
  PROVE  /\ IsHeap(heap) /\ Ordered(m_buffer(heap)) /\ Len(heap) \in 1 .. Len(heap)
         /\ Len(heap) \in Nat
         /\ SB!ready(m_buffer(heap)) \in Nat /\ SB!free(m_buffer(heap)) \in Nat
         /\ m_buffer(heap).m_size \in Nat /\ m_buffer(heap).m_write_pointer \in Nat
         /\ m_buffer(heap).m_read_pointer \in Nat
         /\ read.target \in Nat /\ read.min \in Nat /\ read.got \in Nat
         /\ want \in Nat /\ taken \in Nat /\ Unread \in Nat
<1>1. /\ IsHeap(heap) /\ Ordered(m_buffer(heap)) /\ Len(heap) \in 1 .. Len(heap)
      /\ Len(heap) \in Nat
  BY CurrentOrdered DEF IInv, IsHeap
<1>2. /\ SB!ready(m_buffer(heap)) \in Nat /\ SB!free(m_buffer(heap)) \in Nat
      /\ m_buffer(heap).m_size \in Nat /\ m_buffer(heap).m_write_pointer \in Nat
      /\ m_buffer(heap).m_read_pointer \in Nat
  BY <1>1, OrderedNumbers
<1>3. read.target \in Nat /\ read.min \in Nat /\ read.got \in Nat
  BY <1>1 DEF IInv, ReadTyped
<1>4. want \in Nat /\ taken \in Nat
  BY SentBytes DEF IInv, Scalars
<1> QED
  BY <1>1, <1>2, <1>3, <1>4 DEF Unread

LEMMA SameDelivered ==
  ASSUME IInv, delivered' = delivered
  PROVE  Extended
<1>1. Len(delivered) \in Nat
  BY DEF IInv, Scalars
<1> QED
  BY <1>1 DEF Extended

LEMMA ReceiveMessageKeeps ==
  ASSUME IInv, ReceiveMessage
  PROVE  StepKeeps
<1>1. /\ stage = "idle" /\ ec = "none" /\ stage' = "tag" /\ want' = 1
      /\ heap' = heap /\ tag' = tag /\ read' = read /\ ec' = ec /\ taken' = taken
      /\ delivered' = delivered /\ nth' = nth /\ wire' = wire /\ connections' = connections
  BY DEF ReceiveMessage, netVars
<1>2. IsHeap(heap') /\ Kept(heap, heap')
  BY <1>1, KeptSelf DEF IInv
<1>3. Scalars'
  BY <1>1 DEF IInv, Scalars, Sent
<1>4. ReadTyped' /\ Reading' /\ Quiet'
  BY <1>1 DEF IInv, ReadTyped, Reading, Quiet
<1>5. FramesIn' /\ Extended
  BY <1>1, <1>2, SameFrames, SameDelivered
<1>6. Unread' = Unread /\ Consumed' = Consumed
  BY <1>1 DEF Unread, Consumed
<1>7. BytesInOrder'
  BY <1>1, <1>6 DEF IInv, BytesInOrder, Sent
<1>8. Consumed \in Int
  BY Numbers DEF Consumed
<1>9. Advances
  BY <1>1, <1>6, <1>8 DEF Advances
<1> QED
  BY <1>2, <1>3, <1>4, <1>5, <1>7, <1>9 DEF IInv, StepKeeps

LEMMA TransferAdvances ==
  ASSUME IInv, taken' = taken, Unread' = Unread - want, stage # "idle", stage' # stage
  PROVE  Advances
  BY Numbers DEF Advances, Consumed

LEMMA TransferReadyKeeps ==
  ASSUME IInv, TransferReady
  PROVE  StepKeeps
<1> DEFINE n == SB!ready(m_buffer(heap))
<1>1. /\ stage # "idle" /\ read = NoRead /\ n >= want
      /\ Transferred(heap) /\ UNCHANGED <<taken, netVars>>
  BY DEF TransferReady
<1>2. IsHeap(heap) /\ n \in Nat /\ want \in Nat
  BY Numbers
<1>3. ec = "none"
  BY <1>1 DEF IInv, Quiet
<1>4. Unread = n
  BY <1>1, <1>2 DEF Unread, NoRead
<1>5. InOrder(m_buffer(heap), n)
  BY <1>3, <1>4 DEF IInv, BytesInOrder, InOrder
<1>6. Kept(heap, heap)
  BY <1>2, KeptSelf
<1>7. want <= n
  BY <1>1, <1>2
<1>8. /\ IInv' /\ Kept(heap, heap') /\ Extended
      /\ Unread' = n - want /\ stage' # stage
  BY <1>1, <1>2, <1>3, <1>5, <1>6, <1>7, TransferKeepsInv
<1>9. Advances
  BY <1>1, <1>4, <1>8, TransferAdvances
<1> QED
  BY <1>8, <1>9 DEF StepKeeps

LEMMA ReadDoneKeeps ==
  ASSUME IInv, ReadDone
  PROVE  StepKeeps
<1> DEFINE s == m_buffer(heap)
           h == advance_writer(heap, read.got)
           t == SB!advance_writer(s, read.got)
<1>1. /\ read # NoRead /\ read.got >= read.min
      /\ Transferred(h) /\ UNCHANGED <<taken, netVars>>
  BY DEF ReadDone
<1>2. /\ IsHeap(heap) /\ Ordered(s) /\ SB!ready(s) \in Nat /\ want \in Nat
      /\ read.got \in Nat /\ read.min \in Nat /\ s.m_read_pointer \in Nat
      /\ s.m_write_pointer \in Nat
  BY Numbers
<1>3. /\ stage # "idle" /\ ec = "none" /\ read.min = want - SB!ready(s)
      /\ read.got <= SB!free(s)
  BY <1>1 DEF IInv, Reading
<1>4. Moved(h, heap, t)
  BY <1>2, <1>3, AdvanceWriterHeap
<1>5. /\ t.m_data = s.m_data /\ t.m_read_pointer = s.m_read_pointer
      /\ t.m_write_pointer = s.m_write_pointer + read.got
  BY <1>2, <1>3, WriterOrdered
<1> HIDE DEF s, h, t
<1>6. IsHeap(h) /\ Kept(heap, h) /\ m_buffer(h) = t
  BY <1>4 DEF Moved
<1>7. SB!ready(t) = Unread
  BY <1>2, <1>5 DEF SB!ready, Unread, s
<1>8. InOrder(t, Unread)
  BY <1>3, <1>5 DEF IInv, BytesInOrder, InOrder, s
<1>9. want <= Unread
  BY <1>1, <1>2, <1>3 DEF Unread, s
<1>10. /\ IInv' /\ Kept(heap, heap') /\ Extended
       /\ Unread' = SB!ready(m_buffer(h)) - want /\ stage' # stage
  BY <1>1, <1>3, <1>6, <1>7, <1>8, <1>9, TransferKeepsInv
<1>11. Advances
  BY <1>1, <1>3, <1>6, <1>7, <1>10, TransferAdvances
<1> QED
  BY <1>10, <1>11 DEF StepKeeps

LEMMA TransferReadKeeps ==
  ASSUME IInv, TransferRead
  PROVE  StepKeeps
<1> DEFINE g == prepare(heap, want)
           h == get_receive_buffer(g)
           n == SB!ready(m_buffer(heap))
<1>1. /\ stage # "idle" /\ read = NoRead /\ n < want
      /\ heap' = h
      /\ read' = [target |-> Len(h), min |-> want - SB!ready(m_buffer(h)), got |-> 0]
      /\ UNCHANGED <<bufferVars, taken, netVars>>
  BY DEF TransferRead
<1>2. IsHeap(heap) /\ n \in Nat /\ want \in Nat
  BY Numbers
<1>3. Prepared(g, heap, want)
  BY <1>2, PrepareHeap
<1>4. h = IF SB!free(m_buffer(g)) = 0 THEN prepare(g, DefaultLength) ELSE g
  BY DEF get_receive_buffer
<1> HIDE DEF g, h, n
<1>5. /\ IsHeap(g) /\ Kept(heap, g) /\ want <= SB!free(m_buffer(g))
      /\ SameReady(m_buffer(heap), m_buffer(g))
  BY <1>3 DEF Prepared
<1>6. /\ Ordered(m_buffer(g)) /\ Len(g) \in 1 .. Len(g) /\ Len(g) \in Nat
  BY <1>5, CurrentOrdered DEF IsHeap
<1>7. SB!free(m_buffer(g)) \in Nat
  BY <1>6, OrderedNumbers
<1>8. heap' = g
  BY <1>1, <1>2, <1>4, <1>5, <1>7
<1>9. SB!ready(m_buffer(g)) = n
  BY <1>5 DEF SameReady, n
<1>10. read' = [target |-> Len(g), min |-> want - n, got |-> 0]
  BY <1>1, <1>8, <1>9
<1>11. /\ stage' = stage /\ want' = want /\ tag' = tag /\ ec' = ec /\ taken' = taken
       /\ delivered' = delivered /\ nth' = nth /\ wire' = wire /\ connections' = connections
  BY <1>1 DEF bufferVars, netVars
<1>12. ec = "none"
  BY <1>1 DEF IInv, Quiet
<1>13. Scalars'
  BY <1>11 DEF IInv, Scalars, Sent
<1>14. ReadTyped'
  BY <1>1, <1>2, <1>6, <1>8, <1>10 DEF ReadTyped
<1>15. Reading'
  BY <1>1, <1>2, <1>5, <1>7, <1>8, <1>9, <1>10, <1>11, <1>12 DEF Reading
<1>16. Quiet'
  BY <1>1, <1>11, <1>12 DEF IInv, Quiet
<1>17. FramesIn' /\ Extended
  BY <1>5, <1>8, <1>11, SameFrames, SameDelivered
<1>18. Unread = n
  BY <1>1, <1>2 DEF Unread, NoRead, n
<1>19. Unread' = n
  BY <1>2, <1>8, <1>9, <1>10 DEF Unread
<1>20. BytesInOrder'
  BY <1>5, <1>8, <1>11, <1>12, <1>18, <1>19 DEF IInv, BytesInOrder, SameReady, Sent, n
<1>21. Consumed' = Consumed /\ Consumed \in Int
  BY <1>11, <1>18, <1>19, Numbers DEF Consumed
<1>22. Advances
  BY <1>11, <1>21 DEF Advances
<1> QED
  BY <1>5, <1>8, <1>13, <1>14, <1>15, <1>16, <1>17, <1>20, <1>22 DEF IInv, StepKeeps

LEMMA ReadFailKeeps ==
  ASSUME IInv, ReadFail
  PROVE  StepKeeps
<1>1. /\ heap' = heap /\ read' = NoRead /\ stage' = "idle" /\ want' = 0 /\ ec' = "net"
      /\ tag' = tag /\ taken' = taken /\ delivered' = delivered /\ nth' = nth
      /\ wire' = wire /\ connections' = connections
  BY DEF ReadFail, Fail, netVars
<1>2. IsHeap(heap') /\ Kept(heap, heap')
  BY <1>1, KeptSelf DEF IInv
<1>3. Scalars'
  BY <1>1 DEF IInv, Scalars, Sent
<1>4. ReadTyped'
  BY <1>1, Numbers DEF ReadTyped, NoRead
<1>5. Reading' /\ Quiet' /\ BytesInOrder' /\ Advances
  BY <1>1 DEF Reading, Quiet, BytesInOrder, Advances
<1>6. FramesIn' /\ Extended
  BY <1>1, <1>2, SameFrames, SameDelivered
<1> QED
  BY <1>2, <1>3, <1>4, <1>5, <1>6 DEF IInv, StepKeeps

LEMMA ReconnectKeeps ==
  ASSUME IInv, Reconnect
  PROVE  StepKeeps
<1> DEFINE g == clear(heap)
           h == clear(g)
<1>1. /\ ec # "none" /\ connections < MaxConnections /\ connections' = connections + 1
      /\ heap' = h /\ ec' = "none" /\ wire' \in Streams /\ taken' = 0 /\ nth' = 0
      /\ stage' = stage /\ want' = want /\ tag' = tag /\ read' = read
      /\ delivered' = delivered
  BY DEF Reconnect
<1>2. IsHeap(heap)
  BY DEF IInv
<1>3. IsHeap(g) /\ Kept(heap, g)
  BY <1>2, ClearHeap
<1>4. IsHeap(h) /\ Kept(g, h) /\ SB!ready(m_buffer(h)) = 0
  BY <1>3, ClearHeap
<1> HIDE DEF g, h
<1>5. Kept(heap, h)
  BY <1>2, <1>3, <1>4, KeptOnward
<1>6. read = NoRead /\ stage = "idle"
  BY <1>1 DEF IInv, Quiet
<1>7. Scalars'
  <2>1. Sent' \in Seq(SB!Byte)
    BY <1>1, MessagesLaidOut DEF Sent
  <2>2. connections' \in 1 .. MaxConnections
    BY <1>1, MaxConnectionsAssumption DEF IInv, Scalars
  <2>3. taken' \in 0 .. Len(Sent')
    BY <1>1, <2>1
  <2>4. nth' \in 0 .. Len(delivered')
    BY <1>1 DEF IInv, Scalars
  <2> QED
    BY <1>1, <2>2, <2>3, <2>4 DEF IInv, Scalars
<1>8. ReadTyped'
  BY <1>1, <1>4, <1>6 DEF ReadTyped, NoRead, IsHeap
<1>9. Reading' /\ Quiet' /\ Advances
  BY <1>1, <1>6 DEF Reading, Quiet, Advances
<1>10. Unread' = 0
  BY <1>1, <1>4, <1>6 DEF Unread, NoRead
<1>11. BytesInOrder'
  BY <1>1, <1>10 DEF BytesInOrder
<1>12. FramesIn' /\ Extended
  BY <1>1, <1>4, <1>5, SameFrames, SameDelivered
<1> QED
  BY <1>1, <1>4, <1>5, <1>7, <1>8, <1>9, <1>11, <1>12 DEF IInv, StepKeeps

LEMMA StutterKeeps ==
  ASSUME IInv, UNCHANGED vars
  PROVE  StepKeeps
<1>1. /\ heap' = heap /\ stage' = stage /\ want' = want /\ tag' = tag /\ read' = read
      /\ ec' = ec /\ wire' = wire /\ taken' = taken /\ delivered' = delivered
      /\ nth' = nth /\ connections' = connections
  BY DEF vars
<1>2. IsHeap(heap') /\ Kept(heap, heap')
  BY <1>1, KeptSelf DEF IInv
<1>3. Scalars' /\ ReadTyped' /\ Reading' /\ Quiet'
  BY <1>1 DEF IInv, Scalars, Sent, ReadTyped, Reading, Quiet
<1>4. FramesIn' /\ Extended
  BY <1>1, <1>2, SameFrames, SameDelivered
<1>5. Unread' = Unread /\ Consumed' = Consumed /\ Consumed \in Int
  BY <1>1, Numbers DEF Unread, Consumed
<1>6. BytesInOrder'
  BY <1>1, <1>5 DEF IInv, BytesInOrder, Sent
<1>7. Advances
  BY <1>1, <1>5 DEF Advances
<1> QED
  BY <1>2, <1>3, <1>4, <1>6, <1>7 DEF IInv, StepKeeps

LEMMA ReadSomeKeeps ==
  ASSUME IInv, ReadSome
  PROVE  StepKeeps
<1> DEFINE s == m_buffer(heap)
           offset == s.m_write_pointer + read.got
<1>1. /\ IsHeap(heap) /\ Ordered(s) /\ SB!ready(s) \in Nat /\ SB!free(s) \in Nat
      /\ s.m_size \in Nat /\ s.m_write_pointer \in Nat /\ s.m_read_pointer \in Nat
      /\ read.target \in Nat /\ read.min \in Nat /\ read.got \in Nat
      /\ taken \in Nat /\ Unread \in Nat /\ Len(heap) \in Nat
      /\ Len(heap) \in 1 .. Len(heap)
  BY Numbers
<1>2. read # NoRead /\ stage' = stage /\ want' = want /\ tag' = tag /\ ec' = ec
      /\ delivered' = delivered /\ nth' = nth /\ wire' = wire /\ connections' = connections
  BY DEF ReadSome, bufferVars, netVars
<1>3. /\ stage # "idle" /\ ec = "none" /\ read.target = Len(heap)
      /\ read.min = want - SB!ready(s) /\ read.min <= SB!free(s) /\ read.got <= SB!free(s)
  BY <1>2 DEF IInv, Reading
<1>4. heap[read.target] = s
  BY <1>3 DEF m_buffer
<1>5. \E k \in 1 .. SB!free(s) - read.got :
         /\ taken + k <= Len(Sent)
         /\ heap' = [heap EXCEPT ![Len(heap)] =
                SB!Written(s, offset, SubSeq(Sent, taken + 1, taken + k))]
         /\ read' = [read EXCEPT !.got = read.got + k]
         /\ taken' = taken + k
  BY <1>3, <1>4 DEF ReadSome
<1> HIDE DEF s, offset
<1>5a. PICK k \in 1 .. SB!free(s) - read.got :
         /\ taken + k <= Len(Sent)
         /\ heap' = [heap EXCEPT ![Len(heap)] =
                SB!Written(s, offset, SubSeq(Sent, taken + 1, taken + k))]
         /\ read' = [read EXCEPT !.got = read.got + k]
         /\ taken' = taken + k
  BY <1>5
<1> DEFINE bytes == SubSeq(Sent, taken + 1, taken + k)
           t == SB!Written(s, offset, bytes)
<1>6. /\ k \in Nat /\ k >= 1 /\ read.got + k <= SB!free(s)
      /\ offset = s.m_write_pointer + read.got /\ offset \in Nat
  BY <1>1 DEF offset
<1>7. Sent \in Seq(SB!Byte) /\ Len(Sent) \in Nat
  BY SentBytes DEF IInv
<1>8. /\ bytes \in Seq(SB!Byte) /\ Len(bytes) = k
      /\ \A i \in 1 .. k : bytes[i] = Sent[taken + i]
  <2> DEFINE lo == taken + 1
             hi == taken + k
  <2>1. /\ lo \in Int /\ hi \in Int /\ lo <= hi /\ hi - lo + 1 = k
        /\ \A i \in 1 .. k : lo + i - 1 = taken + i
    BY <1>1, <1>6
  <2>2. \A i \in lo .. hi : Sent[i] \in SB!Byte
    BY <1>1, <1>5a, <1>6, <1>7
  <2>3. bytes = SubSeq(Sent, lo, hi)
    OBVIOUS
  <2> HIDE DEF lo, hi, bytes
  <2>4. /\ bytes \in Seq(SB!Byte)
        /\ Len(bytes) = IF lo <= hi THEN hi - lo + 1 ELSE 0
        /\ \A i \in 1 .. hi - lo + 1 : bytes[i] = Sent[lo + i - 1]
    BY <2>1, <2>2, <2>3, SubSeqProperties
  <2> QED
    BY <2>1, <2>4
<1>9. heap' = [heap EXCEPT ![Len(heap)] = t]
  BY <1>5a
<1> HIDE DEF bytes
<1>10. Stored(t, s, offset, bytes)
  BY <1>1, <1>6, <1>8, WrittenOrdered
<1> HIDE DEF t
<1>11. /\ Ordered(t) /\ t.m_size = s.m_size /\ t.m_write_pointer = s.m_write_pointer
       /\ t.m_read_pointer = s.m_read_pointer
       /\ \A j \in 1 .. s.m_size : j <= offset => t.m_data[j] = s.m_data[j]
       /\ \A i \in 1 .. k : offset + i <= s.m_size => t.m_data[offset + i] = bytes[i]
  BY <1>8, <1>10 DEF Stored
<1>12. /\ s.m_read_pointer <= s.m_write_pointer /\ s.m_write_pointer <= s.m_size
       /\ SB!free(s) = s.m_size - s.m_write_pointer
       /\ SB!ready(s) = s.m_write_pointer - s.m_read_pointer
  BY <1>1 DEF Ordered, SB!free, SB!ready
<1>12a. /\ s.m_read_pointer \in Nat /\ s.m_write_pointer \in Nat /\ s.m_size \in Nat
        /\ s.m_read_pointer <= s.m_write_pointer /\ s.m_write_pointer <= offset
        /\ offset \in Nat /\ k \in Nat /\ offset + k <= s.m_size
        /\ taken \in Nat /\ Unread \in Nat /\ s.m_read_pointer + Unread = offset
  <2>1. Unread = SB!ready(s) + read.got
    BY DEF Unread, s
  <2>2. /\ s.m_read_pointer \in Nat /\ s.m_write_pointer \in Nat /\ s.m_size \in Nat
        /\ read.got \in Nat /\ taken \in Nat /\ Unread \in Nat
    BY <1>1
  <2>3. s.m_write_pointer <= offset
    BY <1>6, <2>2
  <2>4. read.got + k <= s.m_size - s.m_write_pointer
    BY <1>6, <1>12
  <2>5. offset + k <= s.m_size
    BY <1>6, <2>2, <2>4
  <2>6. Unread = s.m_write_pointer - s.m_read_pointer + read.got
    BY <1>12, <2>1
  <2>7. s.m_read_pointer + Unread = offset
    BY <1>6, <2>2, <2>6
  <2> QED
    BY <1>6, <1>12, <2>2, <2>3, <2>5, <2>7
<1>13. KeptBuffer(s, t)
  <2>1. \A j \in 1 .. s.m_read_pointer : j \in 1 .. s.m_size /\ j <= offset
    BY <1>12a
  <2> QED
    BY <1>1, <1>11, <2>1 DEF KeptBuffer
<1>14. IsHeap(heap') /\ Kept(heap, heap') /\ Len(heap') = Len(heap) /\ m_buffer(heap') = t
  BY <1>1, <1>9, <1>11, <1>13, ReplaceCurrent DEF s
<1>15. SB!ready(t) = SB!ready(s) /\ SB!free(t) = SB!free(s)
  BY <1>11 DEF SB!ready, SB!free
<1>16. read \in [target : 0 .. Len(heap), min : Nat, got : Nat]
  BY DEF IInv, ReadTyped
<1>17. /\ read'.target = read.target /\ read'.min = read.min /\ read'.got = read.got + k
       /\ read' \in [target : 0 .. Len(heap), min : Nat, got : Nat]
  <2>1. read' = [read EXCEPT !.got = read.got + k]
    BY <1>5a
  <2>2. read.got + k \in Nat
    BY <1>1, <1>6
  <2> QED
    BY <1>16, <2>1, <2>2
<1>18. ReadTyped'
  BY <1>14, <1>17 DEF ReadTyped
<1>19. Reading'
  BY <1>2, <1>3, <1>6, <1>14, <1>15, <1>17 DEF Reading
<1>20. Quiet'
  BY <1>2, <1>3 DEF IInv, Quiet
<1>21. Scalars'
  <2>1. taken' \in 0 .. Len(Sent)
    BY <1>1, <1>5a, <1>6, <1>7
  <2>2. Sent' = Sent
    BY <1>2 DEF Sent
  <2> QED
    BY <1>2, <2>1, <2>2 DEF IInv, Scalars
<1>22. FramesIn' /\ Extended
  BY <1>2, <1>14, SameFrames, SameDelivered
<1>23. Unread = SB!ready(s) + read.got
  BY DEF Unread, s
<1>24. Unread' = Unread + k
  BY <1>1, <1>6, <1>14, <1>15, <1>17, <1>23 DEF Unread
<1>25. BytesInOrder'
  <2>1. /\ Unread <= taken
        /\ \A j \in 1 .. Unread : s.m_data[s.m_read_pointer + j] = Sent[taken - Unread + j]
    BY <1>3 DEF IInv, BytesInOrder, s
  <2>2. Unread' <= taken'
    BY <1>1, <1>5a, <1>6, <1>24, <2>1
  <2>3. ASSUME NEW j \in 1 .. Unread + k
        PROVE  t.m_data[t.m_read_pointer + j] = Sent[(taken + k) - (Unread + k) + j]
    <3>1. (taken + k) - (Unread + k) + j = taken - Unread + j
      BY <1>1, <1>6
    <3>2. CASE j \in 1 .. Unread
      <4>1. s.m_read_pointer + j \in 1 .. s.m_size /\ s.m_read_pointer + j <= offset
        BY <1>12a, <3>2
      <4> QED
        BY <1>11, <2>1, <3>1, <3>2, <4>1
    <3>3. CASE j \notin 1 .. Unread
      <4> DEFINE i == j - Unread
      <4>1. i \in 1 .. k /\ j = Unread + i
        BY <1>12a, <3>3
      <4> HIDE DEF i
      <4>2. /\ s.m_read_pointer + j = offset + i /\ offset + i <= s.m_size
            /\ taken - Unread + j = taken + i
        BY <1>12a, <4>1
      <4>3. t.m_data[offset + i] = Sent[taken + i]
        BY <1>8, <1>11, <4>1, <4>2
      <4> QED
        BY <1>11, <3>1, <4>2, <4>3
    <3> QED
      BY <3>2, <3>3
  <2>4. Sent' = Sent
    BY <1>2 DEF Sent
  <2> QED
    BY <1>5a, <1>14, <1>24, <2>2, <2>3, <2>4 DEF BytesInOrder
<1>26. Advances
  BY <1>1, <1>2, <1>5a, <1>6, <1>24 DEF Advances, Consumed
<1> QED
  BY <1>14, <1>18, <1>19, <1>20, <1>21, <1>22, <1>25, <1>26 DEF IInv, StepKeeps

LEMMA NextKeeps ==
  ASSUME IInv, [Next]_vars
  PROVE  StepKeeps
<1>1. CASE Terminated
  BY <1>1, StutterKeeps DEF Terminated
<1> QED
  BY <1>1, ReceiveMessageKeeps, TransferReadyKeeps, TransferReadKeeps, ReadDoneKeeps,
     ReadSomeKeeps, ReadFailKeeps, ReconnectKeeps, StutterKeeps DEF Next
-----------------------------------------------------------------------------
(* Theorems. *)

\* The receive path keeps its invariant, for any streams, buffer size and connections.
THEOREM ReceivePathSound ==
  Spec => []IInv
<1>1. IInv /\ [Next]_vars => IInv'
  BY NextKeeps DEF StepKeeps
<1> QED
  BY <1>1, InitInv, PTL DEF Spec

\* Every variable of the receive path has its type: no length read from a peer makes the
\* framing wait for a number of bytes that is none.
THEOREM FramingTypeCorrect ==
  Spec => []TypeOK
  BY ReceivePathSound, InvImpliesTypes, PTL

\* The assertions of SharedBuffer hold for every stream, and every read stays in the memory
\* that prepare made room in, whatever the size of the receive buffer.
THEOREM AssertionsHold ==
  Spec => []PositionsOrdered
  BY ReceivePathSound, InvImpliesOrdered, PTL

\* What is in the buffer are the last bytes of the socket, in order, after any number of
\* reads, reallocations and reconnections.
THEOREM BufferIsSocketOrder ==
  Spec => []BytesInOrder
<1>1. IInv => BytesInOrder
  BY DEF IInv
<1> QED
  BY <1>1, ReceivePathSound, PTL

\* Only the end of a transfer_exactly consumes bytes, and only those it wanted.
THEOREM BytesConsumedOnce ==
  Spec => NoByteLost
<1>1. IInv /\ [Next]_vars =>
        [ec = "none" /\ ec' = "none" =>
           Consumed' = Consumed + IF stage # "idle" /\ stage' # stage THEN want ELSE 0]_vars
  BY NextKeeps DEF StepKeeps, Advances
<1> QED
  BY <1>1, ReceivePathSound, PTL DEF Spec, NoByteLost

\* The memory a FrozenBuffer references is never written again, for as long as it is held:
\* by no read, no copy and no clear.
THEOREM FrozenIsFrozen ==
  Spec => FramesImmutable
<1> DEFINE A == \A i \in DOMAIN delivered :
                   /\ delivered'[i] = delivered[i]
                   /\ Contents(heap', delivered[i].body) = Contents(heap, delivered[i].body)
<1>1. ASSUME IInv, [Next]_vars PROVE A
  <2>1. IInv' /\ Kept(heap, heap') /\ Extended
    BY <1>1, NextKeeps DEF StepKeeps
  <2>2. IsHeap(heap')
    BY <2>1 DEF IInv
  <2>3. DOMAIN delivered = 1 .. Len(delivered)
    BY <1>1 DEF IInv, Scalars
  <2>4. ASSUME NEW i \in 1 .. Len(delivered)
        PROVE  /\ delivered'[i] = delivered[i]
               /\ Contents(heap', delivered[i].body) = Contents(heap, delivered[i].body)
    <3>1. Contents(heap', delivered[i].body) = Contents(heap, delivered[i].body)
      BY <1>1, <2>1, <2>2, FramesStay
    <3> QED
      BY <2>1, <3>1 DEF Extended
  <2> QED
    BY <2>3, <2>4
<1>2. IInv /\ [Next]_vars => [A]_vars
  BY <1>1
<1> QED
  BY <1>2, ReceivePathSound, PTL DEF Spec, FramesImmutable
=============================================================================
