---------------------------- MODULE SliceLemmas -----------------------------
(***************************************************************************)
(* What Go's operations on slices (module GoSlices) make of a heap: which  *)
(* blocks they leave alone, where the slice that they return lies, and     *)
(* what it holds.                                                          *)
(***************************************************************************)
EXTENDS GoSlices, SequenceLemmas

Slices == [block : Nat, off : Nat, len : Nat]

\* s is a slice of the heap h, whose blocks hold elements of V.
Lies(V, h, s) == h \in Seq(Seq(V)) /\ s \in Slices /\ IsSlice(h, s)

\* The blocks of h are blocks of g, and those but b are as they were.
Keeps(h, g, b) ==
  \A c \in DOMAIN h : /\ c \in DOMAIN g /\ Len(g[c]) = Len(h[c])
                      /\ c # b => g[c] = h[c]

\* In h, whatever is written to t does not show in a slice of another block
\* than s.
StaysIn(h, s, t) == t.block = 0 \/ t.block = s.block \/ t.block \notin DOMAIN h

\* What may become of a heap h and a slice s: a heap g and a slice t.
Follows(V, h, s, g, t) == Lies(V, g, t) /\ Keeps(h, g, s.block) /\ StaysIn(h, s, t)

\* new, a heap and a slice, may follow h and s, and the slice holds vals.
Makes(V, h, s, vals, new) ==
  /\ Follows(V, h, s, new.heap, new.slice)
  /\ Items(new.heap, new.slice) = vals /\ new.slice.len = Len(vals)

\* new has the blocks of h, and its slice is not in one of them.
Apart(h, new) == Keeps(h, new.heap, 0) /\ new.slice.block \notin DOMAIN h

-----------------------------------------------------------------------------
\* A slice holds a list if it has its length and its elements.
LEMMA ItemsAre ==
  ASSUME NEW V, NEW h, NEW s, NEW vals \in Seq(V), s.len = Len(vals),
         \A k \in 1 .. Len(vals) : h[s.block][s.off + k] = vals[k]
  PROVE  Items(h, s) = vals
<1>1. vals = [k \in 1 .. Len(vals) |-> vals[k]]
  BY LenProperties
<1>2. Items(h, s) = [k \in 1 .. Len(vals) |-> h[s.block][s.off + k]]
  BY DEF Items
<1> QED
  BY <1>1, <1>2

\* What a slice of a heap holds, and how it lies in its block.
LEMMA ItemsOfSlice ==
  ASSUME NEW V, NEW h \in Seq(Seq(V)), NEW s \in Slices, IsSlice(h, s)
  PROVE  /\ Items(h, s) \in Seq(V) /\ Len(Items(h, s)) = s.len
         /\ s.len \in Nat /\ s.off \in Nat /\ s.block \in Nat
         /\ \A k \in 1 .. s.len : Items(h, s)[k] = h[s.block][s.off + k]
         /\ s.block # 0 => s.block \in DOMAIN h /\ s.off + s.len <= Len(h[s.block])
         /\ s.block = 0 => s.len = 0
         /\ Capacity(h, s) \in Nat /\ s.len <= Capacity(h, s)
         /\ s.block # 0 => Capacity(h, s) = Len(h[s.block]) - s.off
<1>1. /\ s.len \in Nat /\ s.off \in Nat /\ s.block \in Nat
      /\ s.block = 0 => s.len = 0
      /\ s.block # 0 => s.block \in DOMAIN h /\ s.off + s.len <= Len(h[s.block])
  BY DEF Slices, IsSlice, NilSlice
<1>2. \A b \in DOMAIN h : /\ h[b] \in Seq(V) /\ Len(h[b]) \in Nat
                          /\ DOMAIN h[b] = 1 .. Len(h[b])
  BY LenProperties
<1>3. \A k \in 1 .. s.len : h[s.block][s.off + k] \in V
  BY <1>1, <1>2
<1>4. Items(h, s) \in Seq(V) /\ Len(Items(h, s)) = s.len
  <2>1. Items(h, s) \in [1 .. s.len -> V]
    BY <1>3 DEF Items
  <2> QED
    BY <1>1, <2>1, FunctionIsSeq
<1>5. \A k \in 1 .. s.len : Items(h, s)[k] = h[s.block][s.off + k]
  BY DEF Items
<1>6. /\ Capacity(h, s) \in Nat /\ s.len <= Capacity(h, s)
      /\ s.block # 0 => Capacity(h, s) = Len(h[s.block]) - s.off
  BY <1>1, <1>2 DEF Capacity
<1> QED
  BY <1>1, <1>4, <1>5, <1>6

\* s[i] is the item that a slice of a heap holds there.
LEMMA AtItem ==
  ASSUME NEW V, NEW h, NEW s, Lies(V, h, s), NEW i \in Nat, i < s.len
  PROVE  At(h, s, i) = Items(h, s)[i + 1] /\ At(h, s, i) \in V /\ i + 1 \in 1 .. s.len
<1>1. s.len \in Nat /\ s.off \in Nat /\ Items(h, s) \in Seq(V) /\ Len(Items(h, s)) = s.len
  BY ItemsOfSlice DEF Lies
<1>2. i + 1 \in 1 .. s.len /\ s.off + (i + 1) = s.off + i + 1
  BY <1>1
<1>3. Items(h, s)[i + 1] = At(h, s, i)
  BY <1>2 DEF Items, At
<1>4. Items(h, s)[i + 1] \in V
  <2>1. PICK l \in Seq(V) : l = Items(h, s) /\ Len(l) = s.len
    BY <1>1
  <2> QED
    BY <1>2, <2>1, ElementOfSeq
<1> QED
  BY <1>2, <1>3, <1>4

-----------------------------------------------------------------------------
\* A heap and a slice may stay as they are.
LEMMA SelfFollows ==
  ASSUME NEW V, NEW h, NEW s, Lies(V, h, s)
  PROVE  Follows(V, h, s, h, s)
BY DEF Follows, Keeps, StaysIn

\* What follows may be followed again.
LEMMA Transitive ==
  ASSUME NEW V, NEW h, NEW s, NEW g, NEW t, NEW f, NEW u,
         Lies(V, h, s), Follows(V, h, s, g, t), Follows(V, g, t, f, u)
  PROVE  Follows(V, h, s, f, u)
<1>1. \A b \in DOMAIN h : b # 0
  BY LenProperties DEF Lies
<1>2. \A b \in DOMAIN h : b # s.block => b # t.block
  BY <1>1 DEF Follows, StaysIn
<1>3. Keeps(h, f, s.block)
  BY <1>2 DEF Follows, Keeps
<1>4. StaysIn(h, s, u)
  BY DEF Follows, Keeps, StaysIn
<1> QED
  BY <1>3, <1>4 DEF Follows

\* A slice of a slice: a part of it, or more, up to its capacity.
LEMMA CutFollows ==
  ASSUME NEW V, NEW h, NEW s, Lies(V, h, s), NEW i \in Nat, NEW j \in Nat,
         i <= j, j <= Capacity(h, s)
  PROVE  /\ Follows(V, h, s, h, Cut(s, i, j))
         /\ Cut(s, i, j).len = j - i /\ Cut(s, i, j).block = s.block
         /\ Cut(s, i, j).off = s.off + i
         /\ j <= s.len => Items(h, Cut(s, i, j)) = SubSeq(Items(h, s), i + 1, j)
<1>1. h \in Seq(Seq(V)) /\ s \in Slices /\ IsSlice(h, s)
  BY DEF Lies
<1>2. PICK t : t = Cut(s, i, j)
  OBVIOUS
<1>3. /\ t.block = s.block /\ t.off = s.off + i /\ t.len = j - i /\ t \in Slices
      /\ t = [block |-> s.block, off |-> s.off + i, len |-> j - i]
  <2>1. t = [s EXCEPT !.off = s.off + i, !.len = j - i]
    BY <1>2 DEF Cut
  <2>2. j - i \in Nat /\ s.off + i \in Nat
    BY <1>1 DEF Slices
  <2> QED
    BY <1>1, <2>1, <2>2 DEF Slices
<1>4. IsSlice(h, t)
  <2>1. CASE s.block = 0
    <3>1. i = 0 /\ j = 0
      BY <2>1 DEF Capacity
    <3>2. s = NilSlice
      BY <1>1, <2>1, LenProperties DEF IsSlice
    <3> QED
      BY <1>3, <3>1, <3>2 DEF IsSlice, NilSlice
  <2>2. CASE s.block # 0
    <3>1. s.block \in DOMAIN h /\ Capacity(h, s) = Len(h[s.block]) - s.off
          /\ Len(h[s.block]) \in Nat /\ s.off \in Nat
      BY <1>1, <2>2, ItemsOfSlice, LenProperties
    <3> QED
      BY <1>3, <2>2, <3>1 DEF IsSlice
  <2> QED
    BY <2>1, <2>2
<1>5. Follows(V, h, s, h, t)
  BY <1>1, <1>3, <1>4 DEF Follows, Lies, Keeps, StaysIn
<1>6. j <= s.len => Items(h, t) = SubSeq(Items(h, s), i + 1, j)
  <2>1. SUFFICES ASSUME j <= s.len PROVE Items(h, t) = SubSeq(Items(h, s), i + 1, j)
    OBVIOUS
  <2>2. PICK l \in Seq(V) : /\ l = Items(h, s) /\ Len(l) = s.len
                            /\ \A k \in 1 .. s.len : l[k] = h[s.block][s.off + k]
    BY <1>1, ItemsOfSlice
  <2>3. i + 1 \in 1 .. Len(l) + 1 /\ j \in i + 1 - 1 .. Len(l) /\ s.len \in Nat /\ s.off \in Nat
    BY <1>1, <2>1, <2>2 DEF Slices
  <2>4. PICK p \in Seq(V) : /\ p = SubSeq(l, i + 1, j) /\ Len(p) = j - (i + 1) + 1
                            /\ \A k \in 1 .. j - (i + 1) + 1 : p[k] = l[i + 1 + k - 1]
    <3>1. PICK m : m = i + 1
      OBVIOUS
    <3>2. m \in 1 .. Len(l) + 1 /\ j \in m - 1 .. Len(l)
      BY <2>3, <3>1
    <3>3. /\ SubSeq(l, m, j) \in Seq(V) /\ Len(SubSeq(l, m, j)) = j - m + 1
          /\ \A k \in 1 .. j - m + 1 : SubSeq(l, m, j)[k] = l[m + k - 1]
      BY <3>2, SubSeqProperties
    <3> QED
      BY <3>1, <3>3
  <2>5. Len(p) = j - i
    BY <2>4
  <2>6. ASSUME NEW k \in 1 .. Len(p) PROVE h[t.block][t.off + k] = p[k]
    <3>1. p[k] = l[i + k] /\ i + k \in 1 .. s.len
      BY <2>1, <2>3, <2>4, <2>5
    <3>2. PICK o \in Nat, m \in Nat : o = s.off /\ m = i + k /\ t.off + k = o + m
      BY <1>3, <2>3
    <3>3. l[m] = h[s.block][o + m]
      BY <2>2, <3>1, <3>2
    <3> QED
      BY <1>3, <3>1, <3>2, <3>3
  <2>7. Items(h, t) = p
    BY <1>3, <2>5, <2>6, ItemsAre
  <2> QED
    BY <2>2, <2>4, <2>7
<1> QED
  BY <1>2, <1>3, <1>5, <1>6

\* What is written to a slice is in its block, and shows in what it holds.
LEMMA WrittenFollows ==
  ASSUME NEW V, NEW h, NEW s, Lies(V, h, s), NEW i \in Nat, NEW vals \in Seq(V),
         i + Len(vals) <= Capacity(h, s)
  PROVE  /\ Follows(V, h, s, Written(h, s, i, vals), s)
         /\ \A k \in 1 .. s.len :
              Items(Written(h, s, i, vals), s)[k] =
                IF k - i \in 1 .. Len(vals) THEN vals[k - i] ELSE Items(h, s)[k]
         /\ s.block # 0 =>
              \A k \in 1 .. Len(vals) : Written(h, s, i, vals)[s.block][s.off + i + k] = vals[k]
<1>1. /\ h \in Seq(Seq(V)) /\ s \in Slices /\ IsSlice(h, s)
      /\ Len(vals) \in Nat /\ DOMAIN vals = 1 .. Len(vals)
      /\ \A k \in 1 .. Len(vals) : vals[k] \in V
  BY LenProperties DEF Lies
<1>2. CASE vals = <<>>
  <2>1. Len(vals) = 0 /\ Written(h, s, i, vals) = h
    BY <1>2 DEF Written
  <2> QED
    BY <2>1, SelfFollows
<1>3. CASE vals # <<>>
  <2>1. Len(vals) > 0
    BY <1>1, <1>3, EmptySeq
  <2>2. /\ s.block \in DOMAIN h /\ Capacity(h, s) = Len(h[s.block]) - s.off
        /\ s.off \in Nat /\ s.len \in Nat /\ s.off + s.len <= Len(h[s.block])
    <3>1. s.block # 0
      BY <1>1, <2>1 DEF Capacity
    <3> QED
      BY <1>1, <3>1, ItemsOfSlice
  <2>3. PICK b \in DOMAIN h : b = s.block
    BY <2>2
  <2>4. /\ h[b] \in Seq(V) /\ Len(h[b]) \in Nat /\ DOMAIN h[b] = 1 .. Len(h[b])
        /\ \A k \in 1 .. Len(h[b]) : h[b][k] \in V
    BY <1>1, <2>3, LenProperties
  <2>5. PICK block : block = [k \in DOMAIN h[b] |-> IF k - s.off - i \in DOMAIN vals
                                                    THEN vals[k - s.off - i] ELSE h[b][k]]
    OBVIOUS
  <2>6. block \in Seq(V) /\ Len(block) = Len(h[b])
    <3>1. block \in [1 .. Len(h[b]) -> V]
      BY <1>1, <2>4, <2>5
    <3> QED
      BY <2>4, <3>1, FunctionIsSeq
  <2>7. PICK g : g = Written(h, s, i, vals)
    OBVIOUS
  <2>8. g = [h EXCEPT ![b] = block]
    BY <1>3, <2>3, <2>5, <2>7 DEF Written
  <2>9. /\ g \in Seq(Seq(V)) /\ DOMAIN g = DOMAIN h /\ g[b] = block
        /\ \A c \in DOMAIN h \ {b} : g[c] = h[c]
    BY <1>1, <2>6, <2>8
  <2>10. IsSlice(g, s)
    BY <1>1, <2>2, <2>3, <2>6, <2>9 DEF IsSlice
  <2>11. Keeps(h, g, s.block)
    BY <2>3, <2>6, <2>9 DEF Keeps
  <2>12. ASSUME NEW k \in 1 .. s.len
         PROVE  Items(g, s)[k] = IF k - i \in 1 .. Len(vals) THEN vals[k - i] ELSE Items(h, s)[k]
    <3>1. Items(g, s)[k] = block[s.off + k] /\ Items(h, s)[k] = h[b][s.off + k]
      BY <2>3, <2>9 DEF Items
    <3>2. PICK j : j = s.off + k
      OBVIOUS
    <3>3. j \in 1 .. Len(h[b]) /\ j - s.off - i = k - i
      <4>1. PICK o \in Nat, n \in Nat, m \in Nat : o = s.off /\ n = s.len /\ m = Len(h[b])
        BY <2>2, <2>4
      <4>2. o + n <= m /\ k \in 1 .. n /\ j = o + k
        BY <2>2, <2>3, <3>2, <4>1
      <4>3. j \in 1 .. m /\ j - o - i = k - i
        BY <4>2
      <4> QED
        BY <4>1, <4>3
    <3> QED
      BY <1>1, <2>4, <2>5, <3>1, <3>2, <3>3
  <2>13. ASSUME NEW k \in 1 .. Len(vals)
         PROVE  g[b][s.off + i + k] = vals[k]
    <3>1. PICK j : j = s.off + i + k
      OBVIOUS
    <3>2. j \in 1 .. Len(h[b]) /\ j - s.off - i = k
      <4>1. PICK o \in Nat, m \in Nat, n \in Nat :
              /\ o = s.off /\ m = Len(h[b]) /\ n = Len(vals)
              /\ Capacity(h, s) = m - o
        BY <1>1, <2>2, <2>3, <2>4
      <4>2. i + n <= m - o /\ k \in 1 .. n /\ j = o + i + k
        BY <3>1, <4>1
      <4>3. j \in 1 .. m /\ j - o - i = k
        BY <4>2
      <4> QED
        BY <4>1, <4>3
    <3> QED
      BY <1>1, <2>4, <2>5, <2>9, <3>1, <3>2
  <2>14. Follows(V, h, s, g, s)
    BY <1>1, <2>9, <2>10, <2>11 DEF Follows, Lies, StaysIn
  <2> QED
    BY <2>3, <2>7, <2>12, <2>13, <2>14
<1> QED
  BY <1>2, <1>3

\* A new block and a slice of it, which holds what it was made from.
LEMMA FreshFollows ==
  ASSUME NEW V, Empty \in V, NEW h, NEW s, Lies(V, h, s), NEW vals \in Seq(V),
         NEW n \in Nat, Len(vals) <= n
  PROVE  Makes(V, h, s, vals, Fresh(h, vals, n)) /\ Apart(h, Fresh(h, vals, n))
<1> DEFINE new == Fresh(h, vals, n)
<1>1. Len(vals) \in Nat /\ DOMAIN vals = 1 .. Len(vals) /\ Len(h) \in Nat
      /\ DOMAIN h = 1 .. Len(h) /\ h \in Seq(Seq(V)) /\ s \in Slices /\ IsSlice(h, s)
  BY LenProperties DEF Lies
<1>2. CASE n = 0
  <2>1. vals = <<>> /\ new.heap = h /\ new.slice = NilSlice
    BY <1>1, <1>2 DEF Fresh
  <2>2. Items(h, NilSlice) = <<>> /\ NilSlice \in Slices /\ IsSlice(h, NilSlice)
    BY DEF Items, NilSlice, Slices, IsSlice
  <2>3. NilSlice.block = 0 /\ NilSlice.len = 0 /\ Len(<<>>) = 0
    BY DEF NilSlice
  <2> QED
    BY <1>1, <2>1, <2>2, <2>3 DEF Makes, Apart, Follows, Lies, Keeps, StaysIn
<1>3. CASE n # 0
  <2>1. PICK block \in Seq(V) :
          /\ block = [k \in 1 .. n |-> IF k \in DOMAIN vals THEN vals[k] ELSE Empty]
          /\ Len(block) = n /\ DOMAIN block = 1 .. n
    <3>1. PICK f : f = [k \in 1 .. n |-> IF k \in DOMAIN vals THEN vals[k] ELSE Empty]
      OBVIOUS
    <3>2. f \in [1 .. n -> V]
      BY <1>1, <3>1
    <3>3. f \in Seq(V) /\ Len(f) = n /\ DOMAIN f = 1 .. n
      BY <3>2, FunctionIsSeq
    <3> QED
      BY <3>1, <3>3
  <2>2. /\ new.heap = Append(h, block)
        /\ new.slice = [block |-> Len(h) + 1, off |-> 0, len |-> Len(vals)]
    BY <1>3, <2>1 DEF Fresh
  <2>3. /\ new.heap \in Seq(Seq(V)) /\ Len(new.heap) = Len(h) + 1
        /\ new.heap[Len(h) + 1] = block
        /\ \A b \in DOMAIN h : b \in DOMAIN new.heap /\ new.heap[b] = h[b]
        /\ Len(h) + 1 \in DOMAIN new.heap /\ Len(h) + 1 \notin DOMAIN h
    BY <1>1, <2>2, AppendProperties
  <2>4. new.slice \in Slices /\ new.slice.off = 0 /\ new.slice.block = Len(h) + 1
        /\ new.slice.len = Len(vals)
    BY <1>1, <2>2 DEF Slices
  <2>5. IsSlice(new.heap, new.slice)
    BY <1>1, <2>1, <2>3, <2>4 DEF IsSlice
  <2>6. \A k \in 1 .. Len(vals) : new.heap[new.slice.block][new.slice.off + k] = vals[k]
    BY <1>1, <2>1, <2>3, <2>4
  <2>7. Items(new.heap, new.slice) = vals
    <3>1. PICK hp, sl : hp = new.heap /\ sl = new.slice
      OBVIOUS
    <3>2. sl.len = Len(vals) /\ \A k \in 1 .. Len(vals) : hp[sl.block][sl.off + k] = vals[k]
      BY <2>4, <2>6, <3>1
    <3>3. Items(hp, sl) = vals
      BY <3>2, ItemsAre
    <3> QED
      BY <3>1, <3>3
  <2> HIDE DEF new
  <2>8. Keeps(h, new.heap, 0) /\ Keeps(h, new.heap, s.block) /\ StaysIn(h, s, new.slice)
    BY <2>3, <2>4 DEF Keeps, StaysIn
  <2>9. Follows(V, h, s, new.heap, new.slice)
    BY <2>3, <2>4, <2>5, <2>8 DEF Follows, Lies
  <2>10. new = Fresh(h, vals, n)
    BY DEF new
  <2> QED
    BY <2>3, <2>4, <2>7, <2>8, <2>9, <2>10 DEF Makes, Apart
<1> QED
  BY <1>2, <1>3

\* append writes behind what the slice holds, or moves all of it.
LEMMA AppendedFollows ==
  ASSUME NEW V, Empty \in V, NEW h, NEW s, Lies(V, h, s), NEW vals \in Seq(V)
  PROVE  Makes(V, h, s, Items(h, s) \o vals, Appended(h, s, vals))
<1> DEFINE need == s.len + Len(vals)
           cap  == Capacity(h, s)
<1>1. /\ h \in Seq(Seq(V)) /\ s \in Slices /\ IsSlice(h, s)
      /\ s.len \in Nat /\ s.off \in Nat /\ Len(vals) \in Nat /\ need \in Nat
      /\ cap \in Nat /\ s.len <= cap
  BY ItemsOfSlice, LenProperties DEF Lies
<1>2. PICK l \in Seq(V) : /\ l = Items(h, s) /\ Len(l) = s.len
                          /\ \A k \in 1 .. s.len : l[k] = h[s.block][s.off + k]
  BY <1>1, ItemsOfSlice
<1>3. PICK m \in Seq(V) : /\ m = l \o vals /\ Len(m) = need
                          /\ \A k \in 1 .. need : m[k] = IF k <= s.len THEN l[k] ELSE vals[k - s.len]
  <2>1. /\ l \o vals \in Seq(V) /\ Len(l \o vals) = Len(l) + Len(vals)
        /\ \A k \in 1 .. Len(l) + Len(vals) :
             (l \o vals)[k] = IF k <= Len(l) THEN l[k] ELSE vals[k - Len(l)]
    BY ConcatProperties
  <2>2. PICK m : m = l \o vals
    OBVIOUS
  <2>3. /\ m \in Seq(V) /\ Len(m) = s.len + Len(vals)
        /\ \A k \in 1 .. s.len + Len(vals) : m[k] = IF k <= s.len THEN l[k] ELSE vals[k - s.len]
    BY <1>2, <2>1, <2>2
  <2> QED
    BY <2>2, <2>3
<1>4. CASE need <= cap
  <2>1. PICK g, t : g = Written(h, s, s.len, vals) /\ t = Cut(s, 0, need)
    OBVIOUS
  <2>2. Appended(h, s, vals).heap = g /\ Appended(h, s, vals).slice = t
    BY <1>4, <2>1 DEF Appended
  <2>3. /\ Follows(V, h, s, g, s)
        /\ \A k \in 1 .. s.len :
             Items(g, s)[k] = IF k - s.len \in 1 .. Len(vals) THEN vals[k - s.len] ELSE l[k]
        /\ s.block # 0 => \A k \in 1 .. Len(vals) : g[s.block][s.off + s.len + k] = vals[k]
    BY <1>1, <1>2, <1>4, <2>1, WrittenFollows
  <2>4. Lies(V, g, s) /\ Capacity(g, s) = cap
    BY <1>1, <2>3, ItemsOfSlice DEF Follows, Keeps, Capacity
  <2>5. /\ Follows(V, g, s, g, t) /\ t.len = need - 0 /\ t.block = s.block /\ t.off = s.off + 0
    <3>1. PICK j \in Nat : j = need
      BY <1>1
    <3>2. 0 \in Nat /\ 0 <= j /\ j <= Capacity(g, s) /\ t = Cut(s, 0, j)
      BY <1>1, <1>4, <2>1, <2>4, <3>1
    <3>3. /\ Follows(V, g, s, g, Cut(s, 0, j)) /\ Cut(s, 0, j).len = j - 0
          /\ Cut(s, 0, j).block = s.block /\ Cut(s, 0, j).off = s.off + 0
      BY <2>4, <3>2, CutFollows
    <3> QED
      BY <3>1, <3>2, <3>3
  <2>6. t.len = need /\ t.off = s.off
    BY <1>1, <2>5
  <2>7. Follows(V, h, s, g, t)
    BY <2>3, <2>5, Transitive
  <2>8. ASSUME NEW k \in 1 .. Len(m) PROVE g[t.block][t.off + k] = m[k]
    <3>1. CASE k <= s.len
      <4>1. Items(g, s)[k] = g[s.block][s.off + k]
        BY <1>1, <3>1 DEF Items
      <4>2. ~(k - s.len \in 1 .. Len(vals)) /\ k \in 1 .. s.len
        BY <1>1, <3>1
      <4> QED
        BY <1>3, <2>3, <2>5, <2>6, <3>1, <4>1, <4>2
    <3>2. CASE ~(k <= s.len)
      <4>1. PICK j : j = k - s.len
        OBVIOUS
      <4>2. j \in 1 .. Len(vals) /\ s.off + s.len + j = s.off + k
        <5>1. PICK o \in Nat, n \in Nat, v \in Nat : o = s.off /\ n = s.len /\ v = Len(vals)
          BY <1>1
        <5>2. k \in 1 .. n + v /\ ~(k <= n) /\ j = k - n
          BY <1>3, <3>2, <4>1, <5>1
        <5>3. j \in 1 .. v /\ o + n + j = o + k
          BY <5>2
        <5> QED
          BY <5>1, <5>3
      <4>3. s.block # 0
        <5>1. PICK n \in Nat, v \in Nat : n = s.len /\ v = Len(vals) /\ need = n + v
          BY <1>1
        <5>2. v # 0
          BY <4>2, <5>1
        <5>3. cap # 0
          BY <1>4, <5>1, <5>2
        <5> QED
          BY <5>3 DEF Capacity
      <4> QED
        BY <1>3, <2>3, <2>5, <2>6, <3>2, <4>1, <4>2, <4>3
    <3> QED
      BY <3>1, <3>2
  <2>9. Items(g, t) = m
    <3>1. PICK u : u = t
      OBVIOUS
    <3>2. u.len = Len(m) /\ \A k \in 1 .. Len(m) : g[u.block][u.off + k] = m[k]
      BY <1>3, <2>6, <2>8, <3>1
    <3>3. Items(g, u) = m
      BY <3>2, ItemsAre
    <3> QED
      BY <3>1, <3>3
  <2> QED
    BY <1>2, <1>3, <2>2, <2>6, <2>7, <2>9 DEF Makes
<1>5. CASE ~(need <= cap)
  <2>1. PICK n \in Nat : /\ n >= need
                         /\ n = IF need > 2 * cap THEN need ELSE 2 * cap
    BY <1>1
  <2>2. Appended(h, s, vals) = Fresh(h, m, n)
    BY <1>2, <1>3, <1>5, <2>1, Zenon DEF Appended
  <2> HIDE DEF need, cap
  <2>3. Len(m) <= n
    BY <1>1, <1>3, <2>1
  <2>4. Makes(V, h, s, m, Fresh(h, m, n))
    BY <2>3, FreshFollows
  <2>5. need = s.len + Len(vals)
    BY DEF need
  <2> QED
    BY <1>2, <1>3, <2>2, <2>4, <2>5 DEF Makes
<1> QED
  BY <1>4, <1>5

=============================================================================
