--------------------------- MODULE ChannelsProofs ---------------------------
(***************************************************************************)
(* Proofs about Channels.  ListInv says how far the call that holds c.mu   *)
(* has come with the list, and what of it shows in the two words of        *)
(* c.channel and in the block they name; ScanInv says what the hub's       *)
(* search, which reads all this without c.mu, can still find or can not    *)
(* find any more.                                                          *)
(***************************************************************************)
EXTENDS Channels, SliceLemmas

-----------------------------------------------------------------------------
(* Slices and heaps.                                                       *)

\* What is in a concatenation is in one of its parts.
LEMMA ConcatSet ==
  ASSUME NEW V, NEW s \in Seq(V), NEW t \in Seq(V)
  PROVE  Set(s \o t) = Set(s) \cup Set(t)
<1>1. /\ DOMAIN s = 1 .. Len(s) /\ DOMAIN t = 1 .. Len(t) /\ Len(s) \in Nat /\ Len(t) \in Nat
      /\ DOMAIN (s \o t) = 1 .. Len(s) + Len(t)
      /\ \A k \in 1 .. Len(s) : (s \o t)[k] = s[k]
      /\ \A k \in 1 .. Len(t) : (s \o t)[Len(s) + k] = t[k]
      /\ \A k \in 1 .. Len(s) + Len(t) : k \in 1 .. Len(s) \/ k - Len(s) \in 1 .. Len(t)
      /\ \A k \in 1 .. Len(s) + Len(t) : k \notin 1 .. Len(s) => (s \o t)[k] = t[k - Len(s)]
  BY ConcatProperties, LenProperties
<1> HIDE DEF Set
<1>2. Set(s \o t) \subseteq Set(s) \cup Set(t)
  BY <1>1 DEF Set
<1>3. Set(s) \subseteq Set(s \o t)
  BY <1>1 DEF Set
<1>4. Set(t) \subseteq Set(s \o t)
  <2>1. \A k \in 1 .. Len(t) : Len(s) + k \in DOMAIN (s \o t)
    BY <1>1
  <2>2. ASSUME NEW k \in 1 .. Len(t)
        PROVE  t[k] \in Set(s \o t)
    <3>1. PICK j : j = Len(s) + k
      OBVIOUS
    <3>2. j \in DOMAIN (s \o t) /\ (s \o t)[j] = t[k]
      BY <1>1, <2>1, <3>1
    <3> QED
      BY <3>2 DEF Set
  <2> QED
    BY <1>1, <2>2 DEF Set
<1> QED
  BY <1>2, <1>3, <1>4

\* The list l without the item at p.
LessOne(l, p) == [k \in 1 .. Len(l) - 1 |-> IF k < p THEN l[k] ELSE l[k + 1]]

\* LessOne(l, p) is one item shorter than l and holds nothing else.
LEMMA WithoutItem ==
  ASSUME NEW S, NEW l \in Seq(S), NEW p \in 1 .. Len(l)
  PROVE  /\ LessOne(l, p) \in Seq(S) /\ Len(LessOne(l, p)) = Len(l) - 1
         /\ Set(LessOne(l, p)) \subseteq Set(l)
<1>1. Len(l) \in Nat /\ DOMAIN l = 1 .. Len(l) /\ \A k \in 1 .. Len(l) : l[k] \in S
  BY LenProperties
<1>2. PICK f : f = LessOne(l, p)
  OBVIOUS
<1>3. /\ DOMAIN f = 1 .. Len(l) - 1
      /\ \A k \in 1 .. Len(l) - 1 : \E j \in 1 .. Len(l) : f[k] = l[j]
  <2>1. ASSUME NEW k \in 1 .. Len(l) - 1
        PROVE  \E j \in 1 .. Len(l) : f[k] = l[j]
    <3>1. f[k] = IF k < p THEN l[k] ELSE l[k + 1]
      BY <1>2 DEF LessOne
    <3>2. k \in 1 .. Len(l) /\ k + 1 \in 1 .. Len(l)
      BY <1>1
    <3> QED
      BY <3>1, <3>2
  <2> QED
    BY <1>2, <2>1 DEF LessOne
<1>4. f \in [1 .. Len(l) - 1 -> S]
  BY <1>1, <1>2, <1>3 DEF LessOne
<1>5. Len(l) - 1 \in Nat
  BY <1>1
<1>6. f \in Seq(S) /\ Len(f) = Len(l) - 1
  BY <1>4, <1>5, FunctionIsSeq
<1>7. Set(f) \subseteq Set(l)
  BY <1>1, <1>3 DEF Set
<1> QED
  BY <1>2, <1>6, <1>7

\* RemoveFirst takes out the first item that equals e.
LEMMA RemoveFirstItem ==
  ASSUME NEW S, NEW l \in Seq(S), NEW e, NEW p \in 1 .. Len(l), l[p] = e,
         \A k \in 1 .. Len(l) : l[k] = e => p <= k
  PROVE  Promise!Ext!RemoveFirst(l, e) = LessOne(l, p)
<1> DEFINE hits == {i \in 1 .. Len(l) : l[i] = e}
<1>1. Promise!Ext!Min(hits) = p
  BY DEF Promise!Ext!Min
<1>2. Promise!Ext!SelectInSeq(l, LAMBDA v : v = e) = p
  BY <1>1 DEF Promise!Ext!SelectInSeq
<1>3. Promise!Ext!RemoveFirst(l, e) = SubSeq(l, 1, p - 1) \o SubSeq(l, p + 1, Len(l))
  BY <1>2 DEF Promise!Ext!RemoveFirst, Promise!Ext!RemoveAt
<1>4. Len(l) \in Nat /\ DOMAIN l = 1 .. Len(l) /\ \A k \in 1 .. Len(l) : l[k] \in S
  BY LenProperties
<1>5. PICK s \in Seq(S) : /\ s = SubSeq(l, 1, p - 1) /\ Len(s) = p - 1
                          /\ \A k \in 1 .. p - 1 : s[k] = l[k]
  <2>1. 1 \in 1 .. Len(l) + 1 /\ p - 1 \in 1 - 1 .. Len(l)
    BY <1>4
  <2>2. /\ SubSeq(l, 1, p - 1) \in Seq(S) /\ Len(SubSeq(l, 1, p - 1)) = p - 1 - 1 + 1
        /\ \A k \in 1 .. p - 1 - 1 + 1 : SubSeq(l, 1, p - 1)[k] = l[1 + k - 1]
    BY <2>1, SubSeqProperties
  <2>3. p - 1 - 1 + 1 = p - 1 /\ \A k \in 1 .. p - 1 : 1 + k - 1 = k
    BY <1>4
  <2> QED
    BY <2>2, <2>3
<1>6. PICK r \in Seq(S) : /\ r = SubSeq(l, p + 1, Len(l)) /\ Len(r) = Len(l) - p
                          /\ \A k \in 1 .. Len(l) - p : r[k] = l[p + k]
  <2>1. p + 1 \in 1 .. Len(l) + 1 /\ Len(l) \in p + 1 - 1 .. Len(l)
    BY <1>4
  <2>2. /\ SubSeq(l, p + 1, Len(l)) \in Seq(S)
        /\ Len(SubSeq(l, p + 1, Len(l))) = Len(l) - (p + 1) + 1
        /\ \A k \in 1 .. Len(l) - (p + 1) + 1 : SubSeq(l, p + 1, Len(l))[k] = l[p + 1 + k - 1]
    BY <2>1, SubSeqProperties
  <2>3. Len(l) - (p + 1) + 1 = Len(l) - p /\ \A k \in 1 .. Len(l) - p : p + 1 + k - 1 = p + k
    BY <1>4
  <2>4. PICK r : r = SubSeq(l, p + 1, Len(l))
    OBVIOUS
  <2>5. /\ r \in Seq(S) /\ Len(r) = Len(l) - p
        /\ \A k \in 1 .. Len(l) - p : r[k] = l[p + k]
    BY <2>2, <2>3, <2>4
  <2> QED
    BY <2>4, <2>5
<1>7. /\ Len(s \o r) = Len(l) - 1 /\ s \o r \in [1 .. Len(l) - 1 -> S]
      /\ \A k \in 1 .. Len(l) - 1 : (s \o r)[k] = IF k < p THEN s[k] ELSE r[k - (p - 1)]
  <2>1. /\ s \o r \in Seq(S) /\ Len(s \o r) = Len(s) + Len(r)
        /\ \A k \in 1 .. Len(s) + Len(r) :
             (s \o r)[k] = IF k <= Len(s) THEN s[k] ELSE r[k - Len(s)]
    BY ConcatProperties
  <2>2. /\ Len(s) + Len(r) = Len(l) - 1
        /\ \A k \in 1 .. Len(l) - 1 : k <= Len(s) <=> k < p
    <3>1. Len(s) = p - 1 /\ Len(r) = Len(l) - p
      BY <1>5, <1>6, Zenon
    <3>2. p \in Nat /\ Len(l) \in Nat
      BY <1>4
    <3> QED
      BY <3>1, <3>2
  <2>3. s \o r \in [1 .. Len(l) - 1 -> S]
    BY <2>1, <2>2, LenProperties
  <2> QED
    BY <1>5, <2>1, <2>2, <2>3
<1>8. ASSUME NEW k \in 1 .. Len(l) - 1
      PROVE  (s \o r)[k] = IF k < p THEN l[k] ELSE l[k + 1]
  <2>1. CASE k < p
    <3>1. k \in 1 .. p - 1
      BY <1>4, <2>1
    <3> QED
      BY <1>5, <1>7, <2>1, <3>1
  <2>2. CASE ~(k < p)
    <3>1. PICK j \in 1 .. Len(l) - p : j = k - (p - 1) /\ p + j = k + 1
      BY <1>4, <2>2
    <3> QED
      BY <1>6, <1>7, <2>2, <3>1
  <2> QED
    BY <2>1, <2>2
<1>9. s \o r = [k \in 1 .. Len(l) - 1 |-> (s \o r)[k]]
  BY <1>7
<1> QED
  BY <1>3, <1>5, <1>6, <1>8, <1>9 DEF LessOne

\* Without such an item it leaves the list alone.
LEMMA RemoveFirstNone ==
  ASSUME NEW S, NEW l \in Seq(S), NEW e, \A k \in 1 .. Len(l) : l[k] # e
  PROVE  Promise!Ext!RemoveFirst(l, e) = l
<1>1. {i \in 1 .. Len(l) : l[i] = e} = {}
  OBVIOUS
<1>2. Promise!Ext!SelectInSeq(l, LAMBDA v : v = e) = 0
  BY <1>1 DEF Promise!Ext!SelectInSeq
<1> QED
  BY <1>2 DEF Promise!Ext!RemoveFirst

\* new is a heap with a block more than h, and a slice of that block that holds vals.
IsFresh(V, h, vals, new) ==
  /\ new.heap \in Seq(Seq(V)) /\ new.slice \in Slices
  /\ IsSlice(new.heap, new.slice) /\ new.slice.off = 0
  /\ Items(new.heap, new.slice) = vals
  /\ \A b \in DOMAIN h : b \in DOMAIN new.heap /\ new.heap[b] = h[b]
  /\ new.slice.block \notin DOMAIN h
  /\ new.slice.block # 0 =>
       Set(new.heap[new.slice.block]) \subseteq Set(vals) \cup {Empty}

\* Fresh, as make and copy use it, leaves every block as it was.
LEMMA FreshSlice ==
  ASSUME NEW V, Empty \in V, NEW h \in Seq(Seq(V)), NEW vals \in Seq(V),
         NEW n \in Nat, Len(vals) <= n
  PROVE  IsFresh(V, h, vals, Fresh(h, vals, n))
<1> DEFINE new == Fresh(h, vals, n)
<1>1. Len(vals) \in Nat /\ DOMAIN vals = 1 .. Len(vals) /\ Len(h) \in Nat
      /\ DOMAIN h = 1 .. Len(h)
  BY LenProperties
<1>2. CASE n = 0
  <2>1. vals = <<>> /\ new.heap = h /\ new.slice = NilSlice
    BY <1>1, <1>2 DEF Fresh
  <2>2. Items(h, NilSlice) = <<>> /\ NilSlice \in Slices /\ IsSlice(h, NilSlice)
    BY DEF Items, NilSlice, Slices, IsSlice
  <2>3. NilSlice.block = 0 /\ NilSlice.off = 0
    BY DEF NilSlice
  <2> QED
    BY <1>1, <2>1, <2>2, <2>3 DEF IsFresh
<1>3. CASE n # 0
  <2>1. PICK block \in Seq(V) :
          /\ block = [k \in 1 .. n |-> IF k \in DOMAIN vals THEN vals[k] ELSE Empty]
          /\ Len(block) = n /\ DOMAIN block = 1 .. n
    <3>1. PICK f : f = [k \in 1 .. n |-> IF k \in DOMAIN vals THEN vals[k] ELSE Empty]
      OBVIOUS
    <3>2. f \in [1 .. n -> V]
      BY <1>1, <3>1
    <3>3. f \in Seq(V) /\ Len(f) = n /\ DOMAIN f = 1 .. n
      BY <3>2, FunctionIsSeq
    <3> QED
      BY <3>1, <3>3
  <2>2. /\ new.heap = Append(h, block)
        /\ new.slice = [block |-> Len(h) + 1, off |-> 0, len |-> Len(vals)]
    BY <1>3, <2>1 DEF Fresh
  <2>3. /\ new.heap \in Seq(Seq(V)) /\ Len(new.heap) = Len(h) + 1
        /\ new.heap[Len(h) + 1] = block
        /\ \A b \in DOMAIN h : b \in DOMAIN new.heap /\ new.heap[b] = h[b]
        /\ Len(h) + 1 \in DOMAIN new.heap /\ Len(h) + 1 \notin DOMAIN h
    BY <1>1, <2>2, AppendProperties
  <2>4. new.slice \in Slices /\ new.slice.off = 0 /\ new.slice.block = Len(h) + 1
        /\ new.slice.len = Len(vals)
    BY <1>1, <2>2 DEF Slices
  <2>5. IsSlice(new.heap, new.slice)
    BY <1>1, <2>1, <2>3, <2>4 DEF IsSlice
  <2>6. \A k \in 1 .. Len(vals) : new.heap[new.slice.block][new.slice.off + k] = vals[k]
    BY <1>1, <2>1, <2>3, <2>4
  <2>7. Items(new.heap, new.slice) = vals
    <3>1. PICK hp, sl : hp = new.heap /\ sl = new.slice
      OBVIOUS
    <3>2. sl.len = Len(vals) /\ \A k \in 1 .. Len(vals) : hp[sl.block][sl.off + k] = vals[k]
      BY <2>4, <2>6, <3>1
    <3>3. Items(hp, sl) = vals
      BY <3>2, ItemsAre
    <3> QED
      BY <3>1, <3>3
  <2>8. Set(block) \subseteq Set(vals) \cup {Empty}
    BY <2>1 DEF Set
  <2> QED
    BY <2>3, <2>4, <2>5, <2>7, <2>8 DEF IsFresh
<1> QED
  BY <1>2, <1>3

\* g is h with vals written over the elements of block b behind the first i.
IsWritten(V, h, b, i, vals, g) ==
  /\ g \in Seq(Seq(V)) /\ DOMAIN g = DOMAIN h
  /\ \A c \in DOMAIN h : /\ Len(g[c]) = Len(h[c])
                         /\ c # b => g[c] = h[c]
                         /\ Set(g[c]) \subseteq Set(h[c]) \cup Set(vals)
  /\ \A k \in 1 .. Len(h[b]) : k <= i \/ k > i + Len(vals) => g[b][k] = h[b][k]
  /\ \A k \in 1 .. Len(vals) : g[b][i + k] = vals[k]

\* Written touches one block, and of that only the items it writes.
LEMMA WrittenHeap ==
  ASSUME NEW V, NEW h \in Seq(Seq(V)), NEW s \in Slices, s.off = 0, s.block \in DOMAIN h,
         NEW i \in Nat, NEW vals \in Seq(V), vals # <<>>, i + Len(vals) <= Len(h[s.block])
  PROVE  IsWritten(V, h, s.block, i, vals, Written(h, s, i, vals))
<1> DEFINE g == Written(h, s, i, vals)
<1>0. PICK b \in DOMAIN h : b = s.block
  OBVIOUS
<1>1. /\ DOMAIN vals = 1 .. Len(vals) /\ Len(vals) \in Nat
      /\ \A k \in 1 .. Len(vals) : vals[k] \in V
      /\ h[b] \in Seq(V) /\ Len(h[b]) \in Nat /\ DOMAIN h[b] = 1 .. Len(h[b])
      /\ \A k \in 1 .. Len(h[b]) : h[b][k] \in V
  BY LenProperties
<1>2. PICK block : block = [k \in DOMAIN h[b] |-> IF k - 0 - i \in DOMAIN vals
                                                  THEN vals[k - 0 - i] ELSE h[b][k]]
  OBVIOUS
<1>3. /\ block \in Seq(V) /\ Len(block) = Len(h[b])
      /\ DOMAIN block = 1 .. Len(h[b])
  BY <1>1, <1>2
<1>4. g = [h EXCEPT ![b] = block]
  BY <1>0, <1>2 DEF Written
<1> HIDE DEF g
<1>5. /\ g \in Seq(Seq(V)) /\ DOMAIN g = DOMAIN h /\ g[b] = block
      /\ \A c \in DOMAIN h \ {b} : g[c] = h[c]
  BY <1>3, <1>4
<1>6. \A k \in 1 .. Len(h[b]) : k <= i \/ k > i + Len(vals) => block[k] = h[b][k]
  BY <1>1, <1>2
<1>7. \A k \in 1 .. Len(vals) : block[i + k] = vals[k]
  BY <1>0, <1>1, <1>2
<1>8. Set(block) \subseteq Set(h[b]) \cup Set(vals)
  BY <1>1, <1>2 DEF Set
<1>9. IsWritten(V, h, b, i, vals, g)
  BY <1>3, <1>5, <1>6, <1>7, <1>8 DEF IsWritten
<1> QED
  BY <1>0, <1>9 DEF g

\* new is what becomes of h and of a slice s that starts with its block when
\* vals is appended to it.
IsAppended(V, h, s, vals, new) ==
  /\ new.heap \in Seq(Seq(V)) /\ new.slice \in Slices
  /\ IsSlice(new.heap, new.slice) /\ new.slice.off = 0
  /\ Items(new.heap, new.slice) = Items(h, s) \o vals
  /\ \A b \in DOMAIN h :
       /\ b \in DOMAIN new.heap /\ Len(new.heap[b]) = Len(h[b])
       /\ Set(new.heap[b]) \subseteq Set(h[b]) \cup Set(vals)
       /\ \A k \in 1 .. Len(h[b]) :
            b # s.block \/ k <= s.len => new.heap[b][k] = h[b][k]

\* Appended, in place or in a new block.
LEMMA AppendedSlice ==
  ASSUME NEW V, Empty \in V, NEW h \in Seq(Seq(V)), NEW s \in Slices, IsSlice(h, s),
         s.off = 0, NEW vals \in Seq(V), vals # <<>>
  PROVE  IsAppended(V, h, s, vals, Appended(h, s, vals))
<1>0. PICK new : new = Appended(h, s, vals)
  OBVIOUS
<1>1. /\ s.len \in Nat /\ s.block \in Nat /\ Len(vals) \in Nat
      /\ Items(h, s) \in Seq(V) /\ Len(Items(h, s)) = s.len
      /\ Capacity(h, s) \in Nat
      /\ Len(vals) # 0
  BY ItemsOfSlice, LenProperties, EmptySeq
<1>2. PICK need \in Nat : need = s.len + Len(vals)
  BY <1>1
<1>3. PICK l \in Seq(V) : l = Items(h, s) \o vals
  BY <1>1, ConcatProperties
<1>4. /\ Len(l) = need /\ Set(l) = Set(Items(h, s)) \cup Set(vals)
      /\ \A k \in 1 .. s.len : l[k] = Items(h, s)[k]
      /\ \A k \in 1 .. Len(vals) : l[s.len + k] = vals[k]
  <2>1. PICK a \in Seq(V) : a = Items(h, s) /\ Len(a) = s.len
    BY <1>1
  <2>2. /\ Len(a \o vals) = s.len + Len(vals)
        /\ \A k \in 1 .. s.len + Len(vals) :
             (a \o vals)[k] = IF k <= s.len THEN a[k] ELSE vals[k - s.len]
    BY <2>1, ConcatProperties
  <2>3. Set(a \o vals) = Set(a) \cup Set(vals)
    BY ConcatSet
  <2>4. \A k \in 1 .. s.len : (a \o vals)[k] = a[k]
    BY <1>1, <2>2
  <2>5. \A k \in 1 .. Len(vals) : (a \o vals)[s.len + k] = vals[k]
    <3>1. ASSUME NEW k \in 1 .. Len(vals)
          PROVE  (a \o vals)[s.len + k] = vals[k]
      <4>1. PICK j : j = s.len + k
        OBVIOUS
      <4>2. j \in 1 .. s.len + Len(vals) /\ ~(j <= s.len) /\ j - s.len = k
        BY <1>1, <4>1
      <4> QED
        BY <2>2, <4>1, <4>2
    <3> QED
      BY <3>1
  <2> QED
    BY <1>2, <1>3, <2>1, <2>2, <2>3, <2>4, <2>5
<1>5. CASE need > Capacity(h, s)
  <2>1. PICK n \in Nat : n >= need /\ new = Fresh(h, l, n)
    <3>1. PICK n \in Nat :
            n = IF need > 2 * Capacity(h, s) THEN need ELSE 2 * Capacity(h, s)
      BY <1>1
    <3>2. new = Fresh(h, l, n)
      <4>1. ~(s.len + Len(vals) <= Capacity(h, s))
        BY <1>1, <1>2, <1>5
      <4>2. n = IF s.len + Len(vals) > 2 * Capacity(h, s)
                THEN s.len + Len(vals) ELSE 2 * Capacity(h, s)
        BY <1>2, <3>1
      <4> QED
        BY <1>0, <1>3, <4>1, <4>2, Zenon DEF Appended
    <3> QED
      BY <1>1, <1>2, <3>1, <3>2
  <2>2. \A b \in DOMAIN h : Len(h[b]) \in Nat /\ DOMAIN h[b] = 1 .. Len(h[b])
    BY LenProperties
  <2>3. Len(l) <= n
    BY <1>2, <1>4, <2>1
  <2>4. /\ new.heap \in Seq(Seq(V)) /\ new.slice \in Slices
        /\ IsSlice(new.heap, new.slice) /\ new.slice.off = 0
        /\ Items(new.heap, new.slice) = l
        /\ \A b \in DOMAIN h : b \in DOMAIN new.heap /\ new.heap[b] = h[b]
        /\ new.slice.block # 0 =>
              Set(new.heap[new.slice.block]) \subseteq Set(l) \cup {Empty}
    <3>1. /\ l \in Seq(V) /\ n \in Nat /\ h \in Seq(Seq(V)) /\ Empty \in V
          /\ Len(l) <= n /\ new = Fresh(h, l, n)
      BY <2>1, <2>3
    <3>2. IsFresh(V, h, l, Fresh(h, l, n))
      BY <3>1, FreshSlice
    <3>3. IsFresh(V, h, l, new)
      BY <3>1, <3>2
    <3> QED
      BY <3>3 DEF IsFresh
  <2> QED
    BY <1>0, <1>3, <1>4, <2>2, <2>4 DEF IsAppended
<1>6. CASE need <= Capacity(h, s)
  <2>1. new = [heap |-> Written(h, s, s.len, vals), slice |-> Cut(s, 0, need)]
    BY <1>0, <1>2, <1>6 DEF Appended
  <2>2. PICK g : g = Written(h, s, s.len, vals)
    OBVIOUS
  <2>3. new.heap = g
    BY <2>1, <2>2
  <2>4. /\ new.slice \in Slices /\ new.slice.off = 0 /\ new.slice.block = s.block
        /\ new.slice.len = need
    <3>1. new.slice = [s EXCEPT !.off = s.off + 0, !.len = need - 0]
      BY <2>1 DEF Cut
    <3>2. s.off + 0 = 0 /\ need - 0 = need
      BY <1>2
    <3> QED
      BY <3>1, <3>2 DEF Slices
  <2>5. PICK b \in DOMAIN h : s.block = b /\ need <= Len(h[b])
    BY <1>1, <1>2, <1>6, ItemsOfSlice DEF Capacity
  <2>6. /\ g \in Seq(Seq(V)) /\ DOMAIN g = DOMAIN h
        /\ \A c \in DOMAIN h : /\ Len(g[c]) = Len(h[c])
                               /\ c # b => g[c] = h[c]
                               /\ Set(g[c]) \subseteq Set(h[c]) \cup Set(vals)
        /\ \A k \in 1 .. Len(h[b]) : k <= s.len => g[b][k] = h[b][k]
        /\ \A k \in 1 .. Len(vals) : g[b][s.len + k] = vals[k]
    <3>1. s.len + Len(vals) <= Len(h[b])
      BY <1>2, <2>5
    <3>2. /\ h \in Seq(Seq(V)) /\ s.off = 0 /\ b \in DOMAIN h /\ s.block = b
          /\ s.len \in Nat /\ vals \in Seq(V) /\ vals # <<>> /\ s.len + Len(vals) <= Len(h[b])
          /\ g = Written(h, s, s.len, vals)
      BY <1>1, <2>2, <2>5, <3>1
    <3>3. IsWritten(V, h, s.block, s.len, vals, Written(h, s, s.len, vals))
      BY <3>2, WrittenHeap
    <3>4. IsWritten(V, h, b, s.len, vals, g)
      BY <3>2, <3>3
    <3> QED
      BY <3>2, <3>4 DEF IsWritten
  <2>7. IsSlice(g, new.slice)
    BY <1>2, <2>4, <2>5, <2>6 DEF IsSlice
  <2>8. \A k \in 1 .. need : g[b][k] = l[k]
    <3>1. \A k \in 1 .. s.len : Items(h, s)[k] = h[b][k]
      BY <1>1, <2>5, ItemsOfSlice
    <3>2. \A k \in 1 .. s.len : g[b][k] = l[k]
      <4>1. Len(h[b]) \in Nat
        BY <2>5, LenProperties
      <4> QED
        BY <1>1, <1>2, <1>4, <2>5, <2>6, <3>1, <4>1
    <3>3. \A k \in s.len + 1 .. need : k - s.len \in 1 .. Len(vals) /\ k = s.len + (k - s.len)
      BY <1>1, <1>2, SMTT(30)
    <3>4. ASSUME NEW k \in s.len + 1 .. need
          PROVE  g[b][k] = l[k]
      <4>1. PICK j \in 1 .. Len(vals) : k = s.len + j
        BY <3>3
      <4> QED
        BY <1>4, <2>6, <4>1
    <3> QED
      BY <1>1, <1>2, <3>2, <3>4
  <2>9. Items(g, new.slice) = l
    <3>1. /\ new.slice.len = Len(l)
          /\ \A k \in 1 .. Len(l) : g[new.slice.block][new.slice.off + k] = l[k]
      BY <1>4, <2>4, <2>5, <2>8
    <3>2. PICK sl : sl = new.slice
      OBVIOUS
    <3>3. sl.len = Len(l) /\ \A k \in 1 .. Len(l) : g[sl.block][sl.off + k] = l[k]
      BY <3>1, <3>2
    <3>4. l \in Seq(V)
      OBVIOUS
    <3>5. Items(g, sl) = l
      BY <3>3, <3>4, ItemsAre
    <3> QED
      BY <3>2, <3>5
  <2> QED
    BY <1>0, <1>3, <2>3, <2>4, <2>5, <2>6, <2>7, <2>9 DEF IsAppended
<1> QED
  BY <1>1, <1>5, <1>6
-----------------------------------------------------------------------------
(* The invariant of the list.                                              *)

Words == Names \cup {Empty}

Adds == [adds : Batches, removes : {Empty}]
Removals == [adds : {<<>>}, removes : Names]

\* Where a call has not published anything yet, and where it has its result.
Working == {"append", "remove", "shift", "copy", "publish"}
Publishing == {"publish", "publish len", "publish block", "unlock"}

Types ==
  /\ heap \in Seq(Seq(Words))
  /\ channel \in Slices /\ channel.off = 0
  /\ mu \in Users \cup {Nobody}
  /\ pc \in [Users -> Working \cup Publishing \cup {"idle"}]
  /\ call \in [Users -> Adds \cup Removals \cup {NoCall}]
  /\ arr \in [Users -> Slices] /\ \A u \in Users : IsSlice(heap, arr[u])
  /\ moved \in [Users -> Nat]
  /\ before \in Seq(Names)
  /\ calls \in 0 .. MaxCalls

\* A call is under way while its goroutine holds c.mu.
Locked ==
  \A u \in Users : /\ pc[u] # "idle" <=> mu = u
                   /\ pc[u] = "idle" => call[u] = NoCall /\ arr[u] = NilSlice
                   /\ pc[u] = "append" => call[u] \in Adds
                   /\ pc[u] \in {"remove", "shift"} => call[u] \in Removals
                   /\ pc[u] # "idle" => call[u] \in Adds \cup Removals

\* What a call leaves of the list l.
Result(l, c) ==
  IF c.removes = Empty THEN l \o c.adds ELSE Promise!Ext!RemoveFirst(l, c.removes)

\* The list s of which the item at p is taken out, and n items are in their new place.
Shifted(l, p, n) == [k \in 1 .. Len(l) |-> IF k \in p .. n THEN l[k + 1] ELSE l[k]]

\* How far a call has come.
ProgressOf(u) ==
  /\ pc[u] \in {"append", "remove", "shift"} => arr[u] = channel
  /\ pc[u] \in {"append", "remove"} => Published = before
  /\ pc[u] = "shift" =>
       \E p \in 1 .. Len(before) :
         /\ before[p] = call[u].removes
         /\ \A k \in 1 .. Len(before) : before[k] = call[u].removes => p <= k
         /\ p - 1 <= moved[u] /\ moved[u] < Len(before)
         /\ Published = Shifted(before, p, moved[u])
  /\ pc[u] \in Publishing \cup {"copy"} => Items(heap, arr[u]) = Result(before, call[u])
  /\ pc[u] \in Publishing => arr[u].off = 0
  /\ pc[u] = "publish len" => channel.block = arr[u].block
  /\ pc[u] = "publish block" => channel.len = arr[u].len
  /\ pc[u] = "unlock" => channel = arr[u]

Progress == \A u \in Users : ProgressOf(u)

\* Outside of a publication the slice is one.
Whole ==
  /\ mu = Nobody => IsSlice(heap, channel) /\ Published \in Seq(Names)
  /\ \A u \in Users : pc[u] \in Working => IsSlice(heap, channel)

\* While names are added, either word of the slice shows all of the list.
Kept ==
  UnderWay.removes = Empty =>
    /\ Len(List) <= channel.len
    /\ List # <<>> => channel.block \in DOMAIN heap /\ Len(List) <= Len(heap[channel.block])
    /\ \A k \in 1 .. Len(List) : heap[channel.block][k] = List[k]

\* A block that somebody may read holds nothing else.
Known == Set(List) \cup Set(UnderWay.adds) \cup {Empty}

Clean ==
  /\ channel.block # 0 => channel.block \in DOMAIN heap /\ Set(heap[channel.block]) \subseteq Known
  /\ \A u \in Users : pc[u] \in Publishing /\ arr[u].block # 0 =>
       Set(heap[arr[u].block]) \subseteq Set(Items(heap, arr[u])) \cup {Empty}

ListInv == Types /\ Locked /\ Progress /\ Whole /\ Kept /\ Clean

\* A call leaves a list of names, of those that were there and those it adds.
LEMMA ResultIsList ==
  ASSUME NEW l \in Seq(Names), NEW c \in Adds \cup Removals
  PROVE  /\ Result(l, c) \in Seq(Names)
         /\ Set(Result(l, c)) \subseteq Set(l) \cup Set(c.adds)
<1>1. CASE c \in Adds
  <2>1. c.removes = Empty /\ c.adds \in Seq(Names)
    BY <1>1, BatchAssumption DEF Adds
  <2> QED
    BY <2>1, ConcatSet, ConcatProperties DEF Result
<1>2. CASE c \in Removals
  <2>1. c.removes \in Names /\ c.removes # Empty
    BY <1>2, NameAssumption DEF Removals
  <2>2. Result(l, c) = Promise!Ext!RemoveFirst(l, c.removes)
    BY <2>1 DEF Result
  <2>3. Len(l) \in Nat
    BY LenProperties
  <2> DEFINE hits == {k \in 1 .. Len(l) : l[k] = c.removes}
  <2>4. CASE hits = {}
    BY <2>2, <2>4, RemoveFirstNone
  <2>5. CASE hits # {}
    <3>1. hits \in SUBSET Nat
      BY <2>3
    <3>2. PICK p \in hits : \A k \in hits : p <= k
      BY <2>5, <3>1, LeastNumber
    <3>3. Result(l, c) = LessOne(l, p)
      BY <2>2, <3>2, RemoveFirstItem
    <3> QED
      BY <3>2, <3>3, WithoutItem
  <2> QED
    BY <2>4, <2>5
<1> QED
  BY <1>1, <1>2

\* A slice stays one while no block is lost or changes its length.
LEMMA SliceStays ==
  ASSUME NEW h, NEW g, NEW s, IsSlice(h, s),
         \A b \in DOMAIN h : b \in DOMAIN g /\ Len(g[b]) = Len(h[b])
  PROVE  IsSlice(g, s)
BY DEF IsSlice

\* The nil slice is a slice of every heap.
LEMMA NoSlice ==
  ASSUME NEW h
  PROVE  IsSlice(h, NilSlice) /\ NilSlice \in Slices
BY DEF IsSlice, NilSlice, Slices

\* The goroutine in a call holds c.mu, and the others are idle.
LEMMA Holder ==
  ASSUME ListInv, NEW u \in Users, pc[u] # "idle"
  PROVE  /\ mu = u /\ List = before /\ UnderWay = call[u]
         /\ call[u] \in Adds \cup Removals
         /\ \A w \in Users \ {u} : pc[w] = "idle" /\ call[w] = NoCall /\ arr[w] = NilSlice
<1>1. mu = u /\ call[u] \in Adds \cup Removals
  BY DEF ListInv, Locked
<1>2. u # Nobody
  BY UserAssumption
<1>3. \A w \in Users \ {u} : pc[w] = "idle" /\ call[w] = NoCall /\ arr[w] = NilSlice
  BY <1>1 DEF ListInv, Locked
<1> QED
  BY <1>1, <1>2, <1>3 DEF List, UnderWay

\* What a step of the goroutine that holds c.mu leaves as it was.
LEMMA HolderStep ==
  ASSUME ListInv, NEW u \in Users, pc[u] # "idle",
         UNCHANGED <<mu, call, before, calls>>,
         NEW to \in Working \cup Publishing, pc' = [pc EXCEPT ![u] = to],
         to = "append" => call[u] \in Adds,
         to \in {"remove", "shift"} => call[u] \in Removals,
         NEW s \in Slices, arr' = [arr EXCEPT ![u] = s], IsSlice(heap', s),
         moved' \in [Users -> Nat],
         heap' \in Seq(Seq(Words)),
         \A b \in DOMAIN heap : b \in DOMAIN heap' /\ Len(heap'[b]) = Len(heap[b]),
         channel' \in Slices, channel'.off = 0,
         to \in Working => IsSlice(heap', channel'),
         ProgressOf(u)'
  PROVE  /\ Types' /\ Locked' /\ Progress' /\ Whole'
         /\ List' = before /\ UnderWay' = call[u]
         /\ pc'[u] = to /\ arr'[u] = s
         /\ \A w \in Users \ {u} : pc'[w] = "idle"
<1>1. /\ mu = u /\ call[u] \in Adds \cup Removals
      /\ \A w \in Users \ {u} : pc[w] = "idle" /\ call[w] = NoCall /\ arr[w] = NilSlice
  BY Holder
<1>2. pc'[u] = to /\ arr'[u] = s /\ to # "idle"
  BY DEF ListInv, Types, Working, Publishing
<1>3. \A w \in Users \ {u} : pc'[w] = "idle" /\ arr'[w] = NilSlice
  BY <1>1 DEF ListInv, Types
<1>4. Types'
  <2>1. pc' \in [Users -> Working \cup Publishing \cup {"idle"}]
    BY DEF ListInv, Types
  <2>2. arr' \in [Users -> Slices]
    BY DEF ListInv, Types
  <2>3. \A w \in Users : IsSlice(heap', arr'[w])
    BY <1>2, <1>3, NoSlice
  <2> QED
    BY <2>1, <2>2, <2>3 DEF ListInv, Types
<1>5. Locked'
  BY <1>1, <1>2, <1>3 DEF Locked
<1>6. Progress'
  <2>1. ASSUME NEW w \in Users \ {u}
        PROVE  ProgressOf(w)'
    BY <1>3, <2>1 DEF ProgressOf, Publishing
  <2> QED
    BY <2>1 DEF Progress
<1>7. mu' = u /\ u # Nobody
  BY <1>1, UserAssumption
<1>8. Whole'
  BY <1>2, <1>3, <1>7 DEF Whole, Working
<1>9. List' = before /\ UnderWay' = call[u]
  BY <1>7 DEF List, UnderWay
<1> QED
  BY <1>2, <1>3, <1>4, <1>5, <1>6, <1>8, <1>9

\* Steps of the hub.
LEMMA ListStutters ==
  ASSUME ListInv, UNCHANGED <<heap, channel, mu, userVars, before, calls>>
  PROVE  ListInv' /\ List' = List /\ UnderWay' = UnderWay
<1>1. Published' = Published
  BY DEF Published, Items
<1>2. List' = List /\ UnderWay' = UnderWay
  BY <1>1 DEF List, UnderWay, userVars
<1>3. Types' /\ Locked'
  BY DEF ListInv, Types, Locked, userVars
<1>4. Progress'
  <2>1. ASSUME NEW u \in Users
        PROVE  ProgressOf(u)'
    <3>1. ProgressOf(u)
      BY DEF ListInv, Progress
    <3> QED
      BY <1>1, <3>1 DEF ProgressOf, userVars
  <2> QED
    BY <2>1 DEF Progress
<1>5. Whole'
  BY <1>1 DEF ListInv, Whole, userVars
<1>6. Kept'
  BY <1>2 DEF ListInv, Kept
<1>7. Clean'
  BY <1>2 DEF ListInv, Clean, Known, userVars
<1> QED
  BY <1>2, <1>3, <1>4, <1>5, <1>6, <1>7 DEF ListInv

\* A slice that starts with its block shows what it holds.
LEMMA ShownList ==
  ASSUME NEW h \in Seq(Seq(Words)), NEW s \in Slices, IsSlice(h, s), s.off = 0
  PROVE  /\ Len(Items(h, s)) <= s.len
         /\ Items(h, s) # <<>> => s.block \in DOMAIN h /\ Len(Items(h, s)) <= Len(h[s.block])
         /\ \A k \in 1 .. Len(Items(h, s)) : h[s.block][k] = Items(h, s)[k]
<1>1. /\ Items(h, s) \in Seq(Words) /\ Len(Items(h, s)) = s.len /\ s.len \in Nat
      /\ \A k \in 1 .. s.len : Items(h, s)[k] = h[s.block][s.off + k]
      /\ s.block # 0 => s.block \in DOMAIN h /\ s.off + s.len <= Len(h[s.block])
      /\ s.block = 0 => s.len = 0
  BY ItemsOfSlice
<1>2. Items(h, s) # <<>> => s.len # 0
  BY <1>1, EmptySeq
<1> QED
  BY <1>1, <1>2

\* NewClient: the list is Config.Channel.
LEMMA ListInit ==
  ASSUME Init
  PROVE  ListInv /\ List \in Seq(Names)
<1>1. PICK chs \in Configs, n \in Spares :
        LET conf == Fresh(<<>>, chs, Len(chs) + n)
        IN  heap = conf.heap /\ channel = conf.slice /\ before = chs
  BY DEF Init
<1>2. chs \in Seq(Names) /\ chs \in Seq(Words) /\ Len(chs) \in Nat /\ n \in Nat
  BY BatchAssumption, BoundAssumption, LenProperties DEF Words
<1>3. PICK cap \in Nat : cap = Len(chs) + n /\ Len(chs) <= cap
  BY <1>2
<1>4. PICK new : new = Fresh(<<>>, chs, cap)
  OBVIOUS
<1>5. IsFresh(Words, <<>>, chs, new)
  <2>1. Empty \in Words /\ <<>> \in Seq(Seq(Words))
    BY DEF Words
  <2> QED
    BY <1>2, <1>3, <1>4, <2>1, FreshSlice
<1>6. heap = new.heap /\ channel = new.slice /\ before = chs
  BY <1>1, <1>3, <1>4
<1>7. /\ heap \in Seq(Seq(Words)) /\ channel \in Slices /\ channel.off = 0
      /\ IsSlice(heap, channel) /\ Published = chs
      /\ channel.block # 0 => Set(heap[channel.block]) \subseteq Set(chs) \cup {Empty}
  BY <1>5, <1>6 DEF IsFresh, Published
<1>8. List = chs /\ UnderWay = NoCall
  BY <1>7 DEF Init, List, UnderWay
<1>9. \A u \in Users : pc[u] = "idle" /\ call[u] = NoCall /\ arr[u] = NilSlice
  BY DEF Init
<1>10. Types
  BY <1>2, <1>6, <1>7, BoundAssumption, NoSlice DEF Types, Init
<1>11. Locked
  BY <1>9, UserAssumption DEF Locked, Init
<1>12. Progress
  BY <1>9 DEF Progress, ProgressOf, Publishing
<1>13. Whole
  BY <1>2, <1>7, <1>9 DEF Whole, Working
<1>14. Kept
  <2>1. /\ Len(Items(heap, channel)) <= channel.len
        /\ Items(heap, channel) # <<>> =>
             channel.block \in DOMAIN heap /\ Len(Items(heap, channel)) <= Len(heap[channel.block])
        /\ \A k \in 1 .. Len(Items(heap, channel)) :
             heap[channel.block][k] = Items(heap, channel)[k]
    BY <1>7, ShownList
  <2>2. List = Items(heap, channel)
    BY <1>7, <1>8 DEF Published
  <2> QED
    BY <2>1, <2>2, Zenon DEF Kept
<1>15. Clean
  <2>1. channel.block # 0 => channel.block \in DOMAIN heap
    BY <1>7 DEF IsSlice, NilSlice
  <2> QED
    BY <1>7, <1>8, <1>9, <2>1 DEF Clean, Known, Publishing
<1> QED
  BY <1>2, <1>8, <1>10, <1>11, <1>12, <1>13, <1>14, <1>15 DEF ListInv

\* c.mu.Lock(): the call begins with the list as it is.
LEMMA BeginStep ==
  ASSUME ListInv, NEW u \in Users, NEW c \in Adds \cup Removals, Begin(u, c)
  PROVE  ListInv' /\ List' = List /\ mu' # Nobody
<1>1. /\ mu = Nobody /\ mu' = u /\ u # Nobody
      /\ call' = [call EXCEPT ![u] = c] /\ arr' = [arr EXCEPT ![u] = channel]
      /\ pc' = [pc EXCEPT ![u] = IF c.removes = Empty THEN "append" ELSE "remove"]
      /\ calls < MaxCalls /\ calls' = calls + 1
      /\ before' = Published /\ heap' = heap /\ channel' = channel /\ moved' = moved
  BY UserAssumption DEF Begin, Enter
<1>2. IsSlice(heap, channel) /\ Published \in Seq(Names)
  BY <1>1 DEF ListInv, Whole
<1>3. \A w \in Users : pc[w] = "idle" /\ call[w] = NoCall /\ arr[w] = NilSlice
  <2>1. \A w \in Users : mu # w
    BY <1>1, UserAssumption
  <2> QED
    BY <2>1 DEF ListInv, Locked
<1>4. pc'[u] \in {"append", "remove"} /\ call'[u] = c /\ arr'[u] = channel
  BY <1>1 DEF ListInv, Types
<1>5. /\ pc'[u] = "append" => c \in Adds
      /\ pc'[u] = "remove" => c \in Removals
  <2>1. c \in Adds => c.removes = Empty
    BY DEF Adds
  <2>2. c \in Removals => c.removes # Empty
    BY NameAssumption DEF Removals
  <2> QED
    BY <1>1, <2>1, <2>2 DEF ListInv, Types
<1>6. \A w \in Users \ {u} : pc'[w] = "idle" /\ call'[w] = NoCall /\ arr'[w] = NilSlice
  BY <1>1, <1>3 DEF ListInv, Types
<1>7. Published' = Published
  BY <1>1 DEF Published, Items
<1>8. List' = Published /\ List = Published /\ UnderWay' = c /\ UnderWay = NoCall
  BY <1>1 DEF List, UnderWay, ListInv, Types
<1>9. Types'
  <2>1. channel \in Slices /\ heap \in Seq(Seq(Words)) /\ channel.off = 0
    BY DEF ListInv, Types
  <2>2. arr' \in [Users -> Slices] /\ \A w \in Users : IsSlice(heap, arr'[w])
    BY <1>1, <1>2, <1>4, <1>6, <2>1, NoSlice DEF ListInv, Types
  <2>3. pc' \in [Users -> Working \cup Publishing \cup {"idle"}]
    BY <1>1 DEF ListInv, Types, Working
  <2>4. call' \in [Users -> Adds \cup Removals \cup {NoCall}]
    BY <1>1 DEF ListInv, Types
  <2>5. calls' \in 0 .. MaxCalls
    BY <1>1, BoundAssumption DEF ListInv, Types
  <2> QED
    BY <1>1, <1>2, <2>1, <2>2, <2>3, <2>4, <2>5 DEF ListInv, Types
<1>10. Locked'
  BY <1>1, <1>4, <1>5, <1>6 DEF Locked
<1>11. Progress'
  <2>1. ASSUME NEW w \in Users \ {u}
        PROVE  ProgressOf(w)'
    BY <1>6, <2>1 DEF ProgressOf, Publishing
  <2>2. ProgressOf(u)'
    BY <1>1, <1>4, <1>7 DEF ProgressOf, Publishing
  <2> QED
    BY <2>1, <2>2 DEF Progress
<1>12. Whole'
  BY <1>1, <1>2 DEF Whole
<1>13. Kept'
  <2>1. Kept /\ UnderWay.removes = Empty
    BY <1>8 DEF ListInv, NoCall
  <2> QED
    BY <1>1, <1>8, <2>1 DEF Kept
<1>14. Clean'
  <2>1. Known \subseteq Known'
    BY <1>8 DEF Known, NoCall, Set
  <2>2. \A w \in Users : pc'[w] \notin Publishing
    BY <1>4, <1>6 DEF Publishing
  <2> QED
    BY <1>1, <2>1, <2>2 DEF ListInv, Clean
<1> QED
  BY <1>1, <1>8, <1>9, <1>10, <1>11, <1>12, <1>13, <1>14 DEF ListInv

\* What a step that neither begins nor ends a call does to the heap: no block
\* gets a name that was not known, and an append stays behind the list.
HeapKept ==
  /\ \A b \in DOMAIN heap : /\ b \in DOMAIN heap' /\ Len(heap'[b]) = Len(heap[b])
                           /\ Set(heap'[b]) \subseteq Set(heap[b]) \cup Known
  /\ UnderWay.removes = Empty =>
       \A b \in DOMAIN heap : \A k \in 1 .. Len(heap[b]) :
         k <= Len(List) => heap'[b][k] = heap[b][k]

\* arr.Append writes behind the list or into a new block.
LEMMA AppendStep ==
  ASSUME ListInv, NEW u \in Users, AppendNames(u)
  PROVE  ListInv' /\ List' = List /\ UnderWay' = UnderWay /\ HeapKept
<1>1. PICK new : new = Appended(heap, arr[u], call[u].adds)
  OBVIOUS
<1>2. /\ pc[u] = "append" /\ heap' = new.heap /\ arr' = [arr EXCEPT ![u] = new.slice]
      /\ pc' = [pc EXCEPT ![u] = "copy"]
      /\ UNCHANGED <<channel, mu, call, moved, before, calls>>
  BY <1>1 DEF AppendNames, Becomes
<1>3. /\ call[u] \in Adds /\ call[u].removes = Empty /\ call[u].adds \in Seq(Names)
      /\ call[u].adds \in Seq(Words) /\ call[u].adds # <<>>
  <2>1. call[u] \in Adds
    BY <1>2 DEF ListInv, Locked
  <2> QED
    BY <2>1, BatchAssumption DEF Adds, Words
<1>4. /\ arr[u] = channel /\ IsSlice(heap, channel) /\ channel \in Slices /\ channel.off = 0
      /\ Items(heap, channel) = before /\ heap \in Seq(Seq(Words)) /\ before \in Seq(Names)
      /\ moved \in [Users -> Nat]
  BY <1>2 DEF ListInv, Types, Progress, ProgressOf, Whole, Working, Published
<1>5. IsAppended(Words, heap, channel, call[u].adds, new)
  <2>1. Empty \in Words
    BY DEF Words
  <2> QED
    BY <1>1, <1>3, <1>4, <2>1, AppendedSlice
<1>6. /\ heap' \in Seq(Seq(Words)) /\ new.slice \in Slices
      /\ IsSlice(heap', new.slice) /\ new.slice.off = 0
      /\ Items(heap', new.slice) = before \o call[u].adds
      /\ \A b \in DOMAIN heap :
           /\ b \in DOMAIN heap' /\ Len(heap'[b]) = Len(heap[b])
           /\ Set(heap'[b]) \subseteq Set(heap[b]) \cup Set(call[u].adds)
           /\ \A k \in 1 .. Len(heap[b]) :
                b # channel.block \/ k <= channel.len => heap'[b][k] = heap[b][k]
  BY <1>2, <1>4, <1>5, Zenon DEF IsAppended
<1>7. PICK s \in Slices : s = new.slice
  BY <1>6
<1>8. IsSlice(heap', channel)
  BY <1>4, <1>6, SliceStays
<1>9. arr'[u] = s /\ pc'[u] = "copy"
  BY <1>2, <1>7 DEF ListInv, Types
<1>10. ProgressOf(u)'
  <2>1. Items(heap', arr'[u]) = Result(before, call[u])'
    BY <1>2, <1>3, <1>6, <1>7, <1>9 DEF Result
  <2> QED
    BY <1>9, <2>1 DEF ProgressOf, Publishing
<1>11. /\ Types' /\ Locked' /\ Progress' /\ Whole'
       /\ List' = before /\ UnderWay' = call[u]
       /\ \A w \in Users \ {u} : pc'[w] = "idle"
  <2>1. "copy" \in Working \cup Publishing /\ pc[u] # "idle"
    BY <1>2 DEF Working
  <2> QED
    BY <1>2, <1>4, <1>6, <1>7, <1>8, <1>10, <2>1, HolderStep
<1>12. List = before /\ UnderWay = call[u]
  BY <1>2, Holder
<1>13. Kept'
  <2>1. /\ Len(before) <= channel.len
        /\ before # <<>> => channel.block \in DOMAIN heap /\ Len(before) <= Len(heap[channel.block])
        /\ \A k \in 1 .. Len(before) : heap[channel.block][k] = before[k]
    BY <1>3, <1>12 DEF ListInv, Kept
  <2>2. Len(before) \in Nat /\ channel.len \in Nat /\ (before = <<>> => Len(before) = 0)
    BY <1>4, LenProperties, EmptySeq DEF Slices
  <2>3. before # <<>> => channel.block \in DOMAIN heap' /\ Len(before) <= Len(heap'[channel.block])
    BY <1>6, <2>1
  <2>4. ASSUME NEW k \in 1 .. Len(before)
        PROVE  heap'[channel.block][k] = before[k]
    <3>1. before # <<>> /\ k <= channel.len
      BY <2>1, <2>2
    <3>2. Len(heap[channel.block]) \in Nat
      BY <1>4, <2>1, <3>1, LenProperties
    <3>3. k \in 1 .. Len(heap[channel.block])
      BY <2>1, <2>2, <3>1, <3>2
    <3> QED
      BY <1>6, <2>1, <3>1, <3>3
  <2> QED
    BY <1>2, <1>11, <2>1, <2>3, <2>4 DEF Kept
<1>14. Clean'
  <2>1. Known' = Known /\ Set(call[u].adds) \subseteq Known
    BY <1>11, <1>12 DEF Known
  <2>2. channel.block # 0 => channel.block \in DOMAIN heap /\ Set(heap[channel.block]) \subseteq Known
    BY DEF ListInv, Clean
  <2>3. channel.block # 0 =>
          channel.block \in DOMAIN heap' /\ Set(heap'[channel.block]) \subseteq Known'
    BY <1>6, <2>1, <2>2
  <2>4. \A w \in Users : pc'[w] \notin Publishing
    BY <1>9, <1>11 DEF Publishing
  <2> QED
    BY <1>2, <2>3, <2>4 DEF Clean
<1>15. HeapKept
  <2>1. Set(call[u].adds) \subseteq Known
    BY <1>12 DEF Known
  <2>2. /\ Len(before) <= channel.len /\ Len(before) \in Nat /\ channel.len \in Nat
    BY <1>3, <1>4, <1>12, LenProperties DEF ListInv, Kept, Slices
  <2>3. ASSUME NEW b \in DOMAIN heap, NEW k \in 1 .. Len(heap[b]), k <= Len(before)
        PROVE  heap'[b][k] = heap[b][k]
    <3>1. Len(heap[b]) \in Nat
      BY <1>4, LenProperties
    <3>2. k <= channel.len
      BY <2>2, <2>3, <3>1
    <3> QED
      BY <1>6, <3>2
  <2> QED
    BY <1>6, <1>12, <2>1, <2>3 DEF HeapKept
<1> QED
  BY <1>11, <1>12, <1>13, <1>14, <1>15 DEF ListInv

\* arr.Slice() makes a block of its own for the result.
LEMMA CopyStep ==
  ASSUME ListInv, NEW u \in Users, CopyNames(u)
  PROVE  ListInv' /\ List' = List /\ UnderWay' = UnderWay /\ HeapKept
<1>1. PICK new : new = Fresh(heap, Items(heap, arr[u]), arr[u].len)
  OBVIOUS
<1>2. /\ pc[u] = "copy" /\ heap' = new.heap /\ arr' = [arr EXCEPT ![u] = new.slice]
      /\ pc' = [pc EXCEPT ![u] = "publish"]
      /\ UNCHANGED <<channel, mu, call, moved, before, calls>>
  BY <1>1 DEF CopyNames, Becomes
<1>3. /\ arr[u] \in Slices /\ IsSlice(heap, arr[u]) /\ IsSlice(heap, channel)
      /\ channel \in Slices /\ channel.off = 0 /\ heap \in Seq(Seq(Words))
      /\ moved \in [Users -> Nat]
      /\ Items(heap, arr[u]) = Result(before, call[u])
  BY <1>2 DEF ListInv, Types, Progress, ProgressOf, Whole, Working
<1>4. PICK l \in Seq(Words) : l = Items(heap, arr[u]) /\ Len(l) = arr[u].len /\ arr[u].len \in Nat
  BY <1>3, ItemsOfSlice
<1>5. IsFresh(Words, heap, l, new)
  <2>1. Empty \in Words /\ Len(l) <= arr[u].len
    BY <1>4 DEF Words
  <2> QED
    BY <1>1, <1>3, <1>4, <2>1, FreshSlice
<1>6. /\ heap' \in Seq(Seq(Words)) /\ new.slice \in Slices
      /\ IsSlice(heap', new.slice) /\ new.slice.off = 0
      /\ Items(heap', new.slice) = l
      /\ \A b \in DOMAIN heap : b \in DOMAIN heap' /\ heap'[b] = heap[b]
      /\ new.slice.block # 0 =>
           Set(heap'[new.slice.block]) \subseteq Set(l) \cup {Empty}
  BY <1>2, <1>5, Zenon DEF IsFresh
<1>7. PICK s \in Slices : s = new.slice
  BY <1>6
<1>8. IsSlice(heap', channel)
  BY <1>3, <1>6, SliceStays
<1>9. arr'[u] = s /\ pc'[u] = "publish"
  BY <1>2, <1>7 DEF ListInv, Types
<1>10. ProgressOf(u)'
  <2>1. Items(heap', arr'[u]) = Result(before, call[u])'
    BY <1>2, <1>3, <1>4, <1>6, <1>7, <1>9 DEF Result
  <2> QED
    BY <1>6, <1>7, <1>9, <2>1 DEF ProgressOf
<1>11. /\ Types' /\ Locked' /\ Progress' /\ Whole'
       /\ List' = before /\ UnderWay' = call[u]
       /\ \A w \in Users \ {u} : pc'[w] = "idle"
  <2>1. "publish" \in Working \cup Publishing /\ pc[u] # "idle"
    BY <1>2 DEF Working
  <2> QED
    BY <1>2, <1>3, <1>6, <1>7, <1>8, <1>10, <2>1, HolderStep
<1>12. List = before /\ UnderWay = call[u]
  BY <1>2, Holder
<1>13. Kept'
  BY <1>2, <1>6, <1>11, <1>12 DEF ListInv, Kept
<1>14. Clean'
  <2>1. Known' = Known
    BY <1>11, <1>12 DEF Known
  <2>2. channel.block # 0 =>
          channel.block \in DOMAIN heap' /\ Set(heap'[channel.block]) \subseteq Known'
    BY <1>6, <2>1 DEF ListInv, Clean
  <2>3. arr'[u].block # 0 =>
          Set(heap'[arr'[u].block]) \subseteq Set(Items(heap', arr'[u])) \cup {Empty}
    BY <1>6, <1>7, <1>9
  <2> QED
    BY <1>2, <1>11, <2>2, <2>3 DEF Clean, Publishing
<1>15. HeapKept
  BY <1>6 DEF HeapKept
<1> QED
  BY <1>11, <1>12, <1>13, <1>14, <1>15 DEF ListInv

\* s[i:j] within the length of s.
LEMMA CutSlice ==
  ASSUME NEW s \in Slices, NEW i \in Nat, NEW j \in Nat, i <= j
  PROVE  /\ Cut(s, i, j) \in Slices /\ Cut(s, i, j).block = s.block
         /\ Cut(s, i, j).off = s.off + i /\ Cut(s, i, j).len = j - i
<1>1. s.off \in Nat /\ s.off + i \in Nat /\ j - i \in Nat
  BY DEF Slices
<1>2. PICK o \in Nat, n \in Nat : o = s.off + i /\ n = j - i
  BY <1>1
<1>3. Cut(s, i, j) = [s EXCEPT !.off = o, !.len = n]
  BY <1>2 DEF Cut
<1>4. /\ [s EXCEPT !.off = o, !.len = n] \in Slices
      /\ [s EXCEPT !.off = o, !.len = n].block = s.block
      /\ [s EXCEPT !.off = o, !.len = n].off = o
      /\ [s EXCEPT !.off = o, !.len = n].len = n
  BY DEF Slices
<1> QED
  BY <1>2, <1>3, <1>4

\* arr.RemoveValue: no hit, a hit at an end, or one in between.
LEMMA RemoveStep ==
  ASSUME ListInv, NEW u \in Users, RemoveName(u)
  PROVE  ListInv' /\ List' = List /\ UnderWay' = UnderWay
<1>1. /\ pc[u] = "remove"
      /\ UNCHANGED <<heap, channel, mu, call, before, calls>>
  BY DEF RemoveName
<1>2. /\ call[u] \in Removals /\ call[u].removes \in Names /\ call[u].removes # Empty
  BY <1>1, NameAssumption DEF ListInv, Locked, Removals
<1>3. /\ arr[u] = channel /\ IsSlice(heap, channel) /\ channel \in Slices /\ channel.off = 0
      /\ Items(heap, channel) = before /\ Published = before
      /\ heap \in Seq(Seq(Words)) /\ before \in Seq(Names) /\ moved \in [Users -> Nat]
      /\ arr \in [Users -> Slices] /\ pc \in [Users -> Working \cup Publishing \cup {"idle"}]
  BY <1>1 DEF ListInv, Types, Progress, ProgressOf, Whole, Working, Published
<1>4. PICK len \in Nat : /\ len = channel.len /\ Len(before) = len
                         /\ \A k \in 1 .. len : heap[channel.block][k] = before[k]
                         /\ channel.block = 0 => len = 0
                         /\ channel.block # 0 =>
                              channel.block \in DOMAIN heap /\ len <= Len(heap[channel.block])
  <2>1. /\ Len(Items(heap, channel)) = channel.len /\ channel.len \in Nat
        /\ \A k \in 1 .. channel.len : Items(heap, channel)[k] = heap[channel.block][0 + k]
        /\ channel.block # 0 =>
             channel.block \in DOMAIN heap /\ 0 + channel.len <= Len(heap[channel.block])
        /\ channel.block = 0 => channel.len = 0
    BY <1>3, ItemsOfSlice
  <2>2. 0 + channel.len = channel.len /\ \A k \in 1 .. channel.len : 0 + k = k
    BY <2>1
  <2> QED
    BY <1>3, <2>1, <2>2
<1>5. PICK e : e = call[u].removes
  OBVIOUS
<1>6. PICK hits : hits = {i \in 0 .. arr[u].len - 1 : At(heap, arr[u], i) = call[u].removes}
  OBVIOUS
<1>7. \A i : i \in hits <=> i \in 0 .. len - 1 /\ before[i + 1] = e
  <2>1. \A i \in 0 .. len - 1 : 0 + i + 1 = i + 1 /\ i + 1 \in 1 .. len
    OBVIOUS
  <2>2. \A i \in 0 .. len - 1 : At(heap, channel, i) = before[i + 1]
    BY <1>3, <1>4, <2>1 DEF At
  <2> QED
    BY <1>3, <1>4, <1>5, <1>6, <2>2
<1>8. PICK i : i = CHOOSE m \in hits : \A j \in hits : m <= j
  OBVIOUS
<1>9. hits # {} => /\ i \in 0 .. len - 1 /\ before[i + 1] = e
                   /\ \A k \in 1 .. len : before[k] = e => i + 1 <= k
  <2>1. SUFFICES ASSUME hits # {} PROVE /\ i \in 0 .. len - 1 /\ before[i + 1] = e
                   /\ \A k \in 1 .. len : before[k] = e => i + 1 <= k
    OBVIOUS
  <2>2. hits \in SUBSET Nat
    BY <1>7
  <2>3. \E m \in hits : \A j \in hits : m <= j
    BY <2>1, <2>2, LeastNumber
  <2>4. i \in hits /\ \A j \in hits : i <= j
    BY <1>8, <2>3
  <2>5. ASSUME NEW k \in 1 .. len, before[k] = e
        PROVE  i + 1 <= k
    <3>1. PICK j : j = k - 1
      OBVIOUS
    <3>2. j \in 0 .. len - 1 /\ j + 1 = k
      BY <3>1
    <3>3. j \in hits
      BY <1>7, <2>5, <3>2
    <3> QED
      BY <1>7, <2>4, <3>2, <3>3
  <2> QED
    BY <1>7, <2>4, <2>5
<1>10. PICK s \in Slices, to \in {"copy", "shift"} :
         /\ arr' = [arr EXCEPT ![u] = s] /\ pc' = [pc EXCEPT ![u] = to]
         /\ moved' \in [Users -> Nat] /\ IsSlice(heap, s)
         /\ to = "copy" => Items(heap, s) = Result(before, call[u])
         /\ to = "shift" => hits # {} /\ s = channel /\ i \notin {0, len - 1} /\ moved'[u] = i
  <2>1. Result(before, call[u]) = Promise!Ext!RemoveFirst(before, e)
    BY <1>2, <1>5 DEF Result
  <2>2. \/ /\ hits = {}
           /\ pc' = [pc EXCEPT ![u] = "copy"] /\ arr' = arr /\ moved' = moved
        \/ /\ hits # {} /\ i \in {0, len - 1}
           /\ arr' = [arr EXCEPT ![u] = IF i = 0 THEN Cut(channel, 1, len) ELSE Cut(channel, 0, i)]
           /\ pc' = [pc EXCEPT ![u] = "copy"] /\ moved' = moved
        \/ /\ hits # {} /\ i \notin {0, len - 1}
           /\ moved' = [moved EXCEPT ![u] = i]
           /\ pc' = [pc EXCEPT ![u] = "shift"] /\ arr' = arr
    BY <1>3, <1>4, <1>6, <1>8, ZenonT(60) DEF RemoveName
  <2>3. arr = [arr EXCEPT ![u] = channel]
    BY <1>3
  <2>4. CASE hits = {}
    <3>1. \A k \in 1 .. Len(before) : before[k] # e
      <4>1. \A k \in 1 .. len : k - 1 \in 0 .. len - 1 /\ (k - 1) + 1 = k
        OBVIOUS
      <4> QED
        BY <1>4, <1>7, <2>4, <4>1
    <3>2. Items(heap, channel) = Result(before, call[u])
      BY <1>3, <2>1, <3>1, RemoveFirstNone
    <3> QED
      BY <1>3, <2>2, <2>3, <2>4, <3>2
  <2>5. CASE hits # {} /\ i \in {0, len - 1}
    <3>1. PICK s : s = IF i = 0 THEN Cut(channel, 1, len) ELSE Cut(channel, 0, i)
      OBVIOUS
    <3>2. /\ i \in Nat /\ i + 1 \in 1 .. len /\ before[i + 1] = e /\ len - 1 \in Nat
          /\ \A k \in 1 .. len : before[k] = e => i + 1 <= k
      BY <1>9, <2>5
    <3>3. PICK p \in 1 .. len : p = i + 1
      BY <3>2
    <3>4. Result(before, call[u]) = LessOne(before, p)
      <4>1. /\ p \in 1 .. Len(before) /\ before[p] = e
            /\ \A k \in 1 .. Len(before) : before[k] = e => p <= k
        BY <1>4, <3>2, <3>3
      <4> QED
        BY <1>3, <2>1, <4>1, RemoveFirstItem
    <3>5. /\ s \in Slices /\ s.block = channel.block /\ s.len = len - 1
          /\ s.off = IF i = 0 THEN 1 ELSE 0
      <4>1. CASE i = 0
        <5>1. s = Cut(channel, 1, len) /\ 1 <= len /\ 1 \in Nat
          BY <3>1, <3>2, <4>1
        <5> QED
          <6>1. /\ Cut(channel, 1, len) \in Slices /\ Cut(channel, 1, len).block = channel.block
                /\ Cut(channel, 1, len).off = channel.off + 1
                /\ Cut(channel, 1, len).len = len - 1
            BY <1>3, <5>1, CutSlice, ZenonT(60)
          <6> QED
            BY <1>3, <4>1, <5>1, <6>1
      <4>2. CASE i # 0
        <5>1. s = Cut(channel, 0, i) /\ i = len - 1 /\ 0 <= i /\ 0 \in Nat
          BY <2>5, <3>1, <3>2, <4>2
        <5> QED
          <6>1. /\ Cut(channel, 0, i) \in Slices /\ Cut(channel, 0, i).block = channel.block
                /\ Cut(channel, 0, i).off = channel.off + 0
                /\ Cut(channel, 0, i).len = i - 0
            <7>1. channel \in Slices /\ 0 \in Nat /\ i \in Nat /\ 0 <= i
              BY <1>3, <3>2
            <7> QED
              BY <7>1, CutSlice
          <6> QED
            BY <1>3, <3>2, <4>2, <5>1, <6>1
      <4> QED
        BY <4>1, <4>2
    <3>6. IsSlice(heap, s)
      <4>1. channel.block \in DOMAIN heap /\ len <= Len(heap[channel.block])
        BY <1>4, <3>2
      <4>2. Len(heap[channel.block]) \in Nat
        BY <1>3, <4>1, LenProperties
      <4> QED
        BY <3>2, <3>5, <4>1, <4>2 DEF IsSlice
    <3>7. ASSUME NEW k \in 1 .. len - 1
          PROVE  heap[s.block][s.off + k] = IF k < p THEN before[k] ELSE before[k + 1]
      <4>1. CASE i = 0
        <5>1. PICK j \in 1 .. len : j = k + 1 /\ s.off + k = j
          BY <3>5, <4>1
        <5>2. ~(k < p)
          BY <3>3, <4>1
        <5> QED
          BY <1>4, <3>5, <5>1, <5>2
      <4>2. CASE i # 0
        <5>1. k \in 1 .. len /\ s.off + k = k /\ k < p
          BY <2>5, <3>3, <3>5, <4>2
        <5> QED
          BY <1>4, <3>5, <5>1
      <4> QED
        BY <4>1, <4>2
    <3>8. Items(heap, s) = Result(before, call[u])
      BY <1>4, <3>4, <3>5, <3>7 DEF Items, LessOne
    <3>9. arr' = [arr EXCEPT ![u] = s] /\ pc' = [pc EXCEPT ![u] = "copy"] /\ moved' = moved
      BY <2>2, <2>5, <3>1
    <3> QED
      BY <1>3, <3>5, <3>6, <3>8, <3>9
  <2>6. CASE hits # {} /\ i \notin {0, len - 1}
    <3>1. i \in Nat
      BY <1>9, <2>6
    <3>2. arr' = [arr EXCEPT ![u] = channel] /\ pc' = [pc EXCEPT ![u] = "shift"]
      BY <2>2, <2>3, <2>6
    <3>3. moved' \in [Users -> Nat] /\ moved'[u] = i
      BY <1>3, <2>2, <2>6, <3>1
    <3>4. channel \in Slices /\ IsSlice(heap, channel)
      BY <1>3
    <3> QED
      BY <2>6, <3>2, <3>3, <3>4
  <2> QED
    BY <2>4, <2>5, <2>6
<1>11. arr'[u] = s /\ pc'[u] = to
  BY <1>3, <1>10
<1>12. Published' = Published
  BY <1>1 DEF Published, Items
<1>13. ProgressOf(u)'
  <2>1. CASE to = "copy"
    <3>1. Items(heap', arr'[u]) = Result(before, call[u])'
      BY <1>1, <1>10, <1>11, <2>1 DEF Result, Items
    <3> QED
      BY <1>11, <2>1, <3>1 DEF ProgressOf, Publishing
  <2>2. CASE to = "shift"
    <3>1. /\ i \in 0 .. len - 1 /\ before[i + 1] = e /\ i # len - 1
          /\ \A k \in 1 .. len : before[k] = e => i + 1 <= k
      BY <1>9, <1>10, <2>2
    <3>2. PICK p \in 1 .. Len(before) : p = i + 1
      BY <1>4, <3>1
    <3>3. Shifted(before, p, i) = before
      <4>1. p .. i = {}
        BY <3>1, <3>2
      <4>2. before = [k \in 1 .. Len(before) |-> before[k]]
        BY <1>3, LenProperties
      <4> QED
        BY <4>1, <4>2 DEF Shifted
    <3>4. /\ before[p] = e /\ \A k \in 1 .. Len(before) : before[k] = e => p <= k
          /\ p - 1 <= i /\ i < Len(before)
      BY <1>4, <3>1, <3>2
    <3>5. Published' = Shifted(before, p, i)
      BY <1>3, <1>12, <3>3
    <3>6. moved'[u] = i /\ before' = before /\ call'[u].removes = e /\ arr'[u] = channel'
      BY <1>1, <1>5, <1>10, <1>11, <2>2
    <3>7. \E q \in 1 .. Len(before') :
            /\ before'[q] = call'[u].removes
            /\ \A k \in 1 .. Len(before') : before'[k] = call'[u].removes => q <= k
            /\ q - 1 <= moved'[u] /\ moved'[u] < Len(before')
            /\ Published' = Shifted(before', q, moved'[u])
      BY <3>4, <3>5, <3>6
    <3> QED
      BY <1>11, <2>2, <3>6, <3>7 DEF ProgressOf, Publishing, Shifted
  <2> QED
    BY <2>1, <2>2
<1>14. /\ Types' /\ Locked' /\ Progress' /\ Whole'
       /\ List' = before /\ UnderWay' = call[u]
       /\ \A w \in Users \ {u} : pc'[w] = "idle"
  <2>1. to \in Working \cup Publishing /\ pc[u] # "idle" /\ to # "append"
    BY <1>1 DEF Working
  <2>2. /\ heap' \in Seq(Seq(Words)) /\ channel' \in Slices /\ channel'.off = 0
        /\ IsSlice(heap', channel') /\ IsSlice(heap', s)
        /\ \A b \in DOMAIN heap : b \in DOMAIN heap' /\ Len(heap'[b]) = Len(heap[b])
    BY <1>1, <1>3, <1>10
  <2> QED
    BY <1>1, <1>2, <1>10, <1>13, <2>1, <2>2, HolderStep
<1>15. List = before /\ UnderWay = call[u]
  BY <1>1, Holder
<1>16. Kept'
  BY <1>1, <1>14, <1>15 DEF ListInv, Kept
<1>17. Clean'
  <2>1. Known' = Known
    BY <1>14, <1>15 DEF Known
  <2> QED
    BY <1>1, <1>11, <1>14, <2>1 DEF ListInv, Clean, Publishing
<1> QED
  BY <1>14, <1>15, <1>16, <1>17 DEF ListInv

\* One item further.
LEMMA ShiftedFurther ==
  ASSUME NEW l \in Seq(Names), NEW p \in 1 .. Len(l), NEW i \in Nat,
         p - 1 <= i, i + 1 < Len(l)
  PROVE  /\ Shifted(l, p, i)[i + 2] = l[i + 2]
         /\ Shifted(l, p, i + 1)[i + 1] = l[i + 2]
         /\ \A k \in 1 .. Len(l) : k # i + 1 => Shifted(l, p, i + 1)[k] = Shifted(l, p, i)[k]
<1>1. Len(l) \in Nat
  BY LenProperties
<1>2. \A n : \A k \in 1 .. Len(l) : Shifted(l, p, n)[k] = IF k \in p .. n THEN l[k + 1] ELSE l[k]
  BY DEF Shifted
<1>3. /\ i + 2 \in 1 .. Len(l) /\ i + 2 \notin p .. i
      /\ i + 1 \in 1 .. Len(l) /\ i + 1 \in p .. i + 1 /\ (i + 1) + 1 = i + 2
      /\ \A k \in 1 .. Len(l) : k # i + 1 => (k \in p .. i + 1 <=> k \in p .. i)
  BY <1>1
<1> QED
  BY <1>2, <1>3

\* One item of a removal is moved, or the slice cut.
LEMMA ShiftStep ==
  ASSUME ListInv, NEW u \in Users, ShiftName(u)
  PROVE  ListInv' /\ List' = List /\ UnderWay' = UnderWay /\ HeapKept
<1>1. /\ pc[u] = "shift"
      /\ UNCHANGED <<channel, mu, call, before, calls>>
  BY DEF ShiftName
<1>2. /\ call[u] \in Removals /\ call[u].removes \in Names /\ call[u].removes # Empty
  BY <1>1, NameAssumption DEF ListInv, Locked, Removals
<1>3. /\ arr[u] = channel /\ IsSlice(heap, channel) /\ channel \in Slices /\ channel.off = 0
      /\ heap \in Seq(Seq(Words)) /\ before \in Seq(Names) /\ moved \in [Users -> Nat]
      /\ arr \in [Users -> Slices] /\ pc \in [Users -> Working \cup Publishing \cup {"idle"}]
  BY <1>1 DEF ListInv, Types, Progress, ProgressOf, Whole, Working
<1>4. PICK i \in Nat : i = moved[u]
  BY <1>3
<1>5. PICK e : e = call[u].removes
  OBVIOUS
<1>6. PICK p \in 1 .. Len(before) :
        /\ before[p] = e
        /\ \A k \in 1 .. Len(before) : before[k] = e => p <= k
        /\ p - 1 <= i /\ i < Len(before)
        /\ Published = Shifted(before, p, i)
  BY <1>1, <1>4, <1>5 DEF ListInv, Progress, ProgressOf
<1>7. PICK len \in Nat :
        /\ len = channel.len /\ Len(before) = len
        /\ \A k \in 1 .. len : heap[channel.block][k] = Shifted(before, p, i)[k]
        /\ channel.block \in DOMAIN heap /\ len <= Len(heap[channel.block])
  <2>1. /\ Items(heap, channel) \in Seq(Words)
        /\ Len(Items(heap, channel)) = channel.len /\ channel.len \in Nat
        /\ \A k \in 1 .. channel.len : Items(heap, channel)[k] = heap[channel.block][0 + k]
        /\ channel.block # 0 =>
             channel.block \in DOMAIN heap /\ 0 + channel.len <= Len(heap[channel.block])
        /\ channel.block = 0 => channel.len = 0
    BY <1>3, ItemsOfSlice
  <2>2. 0 + channel.len = channel.len /\ \A k \in 1 .. channel.len : 0 + k = k
    BY <2>1
  <2>3. Items(heap, channel) = Shifted(before, p, i)
    BY <1>6 DEF Published
  <2>4. channel.len = Len(before)
    <3>1. Len(before) \in Nat
      BY <1>3, LenProperties
    <3>2. Len(Shifted(before, p, i)) = Len(before)
      BY <3>1 DEF Shifted
    <3> QED
      BY <2>1, <2>3, <3>2
  <2>5. channel.block # 0
    BY <1>6, <2>1, <2>4
  <2> QED
    BY <2>1, <2>2, <2>3, <2>4, <2>5
<1>8. PICK b \in DOMAIN heap : b = channel.block /\ heap[b] \in Seq(Words) /\ Len(heap[b]) \in Nat
                               /\ DOMAIN heap[b] = 1 .. Len(heap[b])
  BY <1>3, <1>7, LenProperties
<1>9. List = before /\ UnderWay = call[u]
  BY <1>1, Holder
<1>10. CASE i < len - 1
  <2>1. /\ heap' = Written(heap, channel, i, <<At(heap, channel, i + 1)>>)
        /\ moved' = [moved EXCEPT ![u] = i + 1] /\ arr' = arr /\ pc' = pc
    BY <1>3, <1>4, <1>7, <1>10 DEF ShiftName
  <2>2. PICK v \in Words : v = before[i + 2] /\ v \in Set(heap[b]) /\ v = At(heap, channel, i + 1)
    <3>1. i + 2 \in 1 .. len /\ 0 + (i + 1) + 1 = i + 2
      BY <1>10
    <3>2. before[i + 2] = Shifted(before, p, i)[i + 2]
      <4>1. before \in Seq(Names) /\ p - 1 <= i /\ i + 1 < Len(before)
        BY <1>3, <1>6, <1>7, <1>10
      <4> QED
        BY <4>1, ShiftedFurther
    <3>3. heap[b][i + 2] = before[i + 2]
      BY <1>7, <1>8, <3>1, <3>2
    <3>4. i + 2 \in DOMAIN heap[b]
      BY <1>7, <1>8, <3>1
    <3>5. At(heap, channel, i + 1) = heap[b][i + 2]
      BY <1>3, <1>8, <3>1 DEF At
    <3> QED
      BY <1>8, <3>3, <3>4, <3>5 DEF Set
  <2>3. IsWritten(Words, heap, b, i, <<v>>, heap')
    <3>1. /\ <<v>> \in Seq(Words) /\ <<v>> # <<>> /\ Len(<<v>>) = 1
      OBVIOUS
    <3>2. i + Len(<<v>>) <= Len(heap[b])
      BY <1>7, <1>8, <1>10, <3>1
    <3>3. IsWritten(Words, heap, channel.block, i, <<v>>, Written(heap, channel, i, <<v>>))
      BY <1>3, <1>8, <3>1, <3>2, WrittenHeap
    <3> QED
      BY <1>8, <2>1, <2>2, <3>3
  <2>4. /\ heap' \in Seq(Seq(Words))
        /\ \A c \in DOMAIN heap : /\ c \in DOMAIN heap' /\ Len(heap'[c]) = Len(heap[c])
                                  /\ c # b => heap'[c] = heap[c]
                                  /\ Set(heap'[c]) \subseteq Set(heap[c]) \cup {v}
        /\ \A k \in 1 .. Len(heap[b]) : k # i + 1 => heap'[b][k] = heap[b][k]
        /\ heap'[b][i + 1] = v
    <3>1. Len(<<v>>) = 1 /\ <<v>>[1] = v /\ Set(<<v>>) = {v} /\ 1 \in 1 .. Len(<<v>>)
      BY DEF Set
    <3>2. \A k \in 1 .. Len(heap[b]) : k # i + 1 => k <= i \/ k > i + 1
      BY <1>8
    <3> QED
      BY <2>3, <3>1, <3>2 DEF IsWritten
  <2>5. Published' = Shifted(before, p, i + 1)
    <3>1. ASSUME NEW k \in 1 .. len
          PROVE  heap'[b][k] = Shifted(before, p, i + 1)[k]
      <4>0. /\ Shifted(before, p, i + 1)[i + 1] = before[i + 2]
            /\ k # i + 1 => Shifted(before, p, i + 1)[k] = Shifted(before, p, i)[k]
        BY <1>3, <1>6, <1>7, <1>10, ShiftedFurther, SMTT(30)
      <4>1. CASE k = i + 1
        BY <2>2, <2>4, <4>0, <4>1
      <4>2. CASE k # i + 1
        <5>1. k \in 1 .. Len(heap[b])
          BY <1>7, <1>8
        <5> QED
          BY <1>7, <1>8, <2>4, <4>0, <4>2, <5>1
      <4> QED
        BY <4>1, <4>2
    <3>2. Published' = [k \in 1 .. len |-> heap'[b][0 + k]]
      BY <1>1, <1>3, <1>7, <1>8 DEF Published, Items
    <3>3. Published' = [k \in 1 .. len |-> heap'[b][k]]
      BY <3>2
    <3>4. Shifted(before, p, i + 1) = [k \in 1 .. len |-> Shifted(before, p, i + 1)[k]]
      BY <1>7 DEF Shifted
    <3> QED
      BY <3>1, <3>3, <3>4
  <2>6. moved'[u] = i + 1 /\ arr'[u] = channel /\ pc'[u] = "shift"
    BY <1>1, <1>3, <2>1
  <2>7. ProgressOf(u)'
    <3>1. \E q \in 1 .. Len(before') :
            /\ before'[q] = call'[u].removes
            /\ \A k \in 1 .. Len(before') : before'[k] = call'[u].removes => q <= k
            /\ q - 1 <= moved'[u] /\ moved'[u] < Len(before')
            /\ Published' = Shifted(before', q, moved'[u])
      <4>1. p - 1 <= i + 1 /\ i + 1 < Len(before)
        BY <1>6, <1>7, <1>10
      <4> QED
        BY <1>1, <1>5, <1>6, <2>5, <2>6, <4>1
    <3> QED
      BY <1>1, <2>6, <3>1 DEF ProgressOf, Publishing, Shifted
  <2>8. IsSlice(heap', channel)
    BY <1>3, <2>4, SliceStays
  <2>9. /\ Types' /\ Locked' /\ Progress' /\ Whole'
        /\ List' = before /\ UnderWay' = call[u]
        /\ \A w \in Users \ {u} : pc'[w] = "idle"
    <3>1. /\ "shift" \in Working \cup Publishing /\ pc[u] # "idle"
          /\ pc' = [pc EXCEPT ![u] = "shift"] /\ arr' = [arr EXCEPT ![u] = channel]
          /\ moved' \in [Users -> Nat]
      BY <1>1, <1>3, <2>1 DEF Working
    <3>2. PICK s \in Slices : s = channel
      BY <1>3
    <3> QED
      BY <1>1, <1>2, <1>3, <2>4, <2>7, <2>8, <3>1, <3>2, HolderStep
  <2>10. Kept'
    BY <1>2, <2>9 DEF Kept
  <2>11. v \in Known /\ Known' = Known
    <3>1. channel.block # 0
      BY <1>3, <1>8, LenProperties
    <3>2. Set(heap[b]) \subseteq Known
      BY <1>8, <3>1 DEF ListInv, Clean
    <3>3. Known' = Known
      BY <1>9, <2>9 DEF Known
    <3> QED
      BY <2>2, <3>2, <3>3
  <2>12. Clean'
    <3>1. \A w \in Users : pc'[w] \notin Publishing
      BY <2>6, <2>9 DEF Publishing
    <3> QED
      BY <1>1, <1>8, <2>4, <2>11, <3>1 DEF ListInv, Clean
  <2>13. HeapKept
    BY <1>2, <1>9, <2>4, <2>11 DEF HeapKept
  <2> QED
    BY <1>9, <2>9, <2>10, <2>12, <2>13 DEF ListInv
<1>11. CASE i = len - 1
  <2>1. /\ arr' = [arr EXCEPT ![u] = Cut(channel, 0, i)] /\ moved' = [moved EXCEPT ![u] = 0]
        /\ pc' = [pc EXCEPT ![u] = "copy"] /\ heap' = heap
    BY <1>3, <1>4, <1>7, <1>11 DEF ShiftName
  <2>2. PICK s \in Slices : s = Cut(channel, 0, i) /\ s.block = b /\ s.off = 0 /\ s.len = i
    <3>1. channel \in Slices /\ 0 \in Nat /\ i \in Nat /\ 0 <= i
      BY <1>3
    <3>2. /\ Cut(channel, 0, i) \in Slices /\ Cut(channel, 0, i).block = channel.block
          /\ Cut(channel, 0, i).off = channel.off + 0
          /\ Cut(channel, 0, i).len = i - 0
      BY <3>1, CutSlice
    <3> QED
      BY <1>3, <1>8, <3>2
  <2>3. IsSlice(heap, s)
    BY <1>7, <1>8, <1>11, <2>2 DEF IsSlice
  <2>4. Items(heap, s) = Result(before, call[u])
    <3>1. Result(before, call[u]) = LessOne(before, p)
      <4>1. Result(before, call[u]) = Promise!Ext!RemoveFirst(before, e)
        BY <1>2, <1>5 DEF Result
      <4> QED
        BY <1>3, <1>6, <4>1, RemoveFirstItem
    <3>2. ASSUME NEW k \in 1 .. i
          PROVE  heap[b][k] = IF k < p THEN before[k] ELSE before[k + 1]
      <4>1. k \in 1 .. len /\ (k \in p .. i <=> ~(k < p))
        BY <1>6, <1>7, <1>11
      <4>2. heap[b][k] = Shifted(before, p, i)[k]
        BY <1>7, <1>8, <4>1
      <4>3. Shifted(before, p, i)[k] = IF k \in p .. i THEN before[k + 1] ELSE before[k]
        BY <1>7, <4>1 DEF Shifted
      <4> QED
        BY <4>1, <4>2, <4>3
    <3>3. Items(heap, s) = [k \in 1 .. i |-> heap[b][0 + k]]
      BY <2>2 DEF Items
    <3>4. Items(heap, s) = [k \in 1 .. i |-> heap[b][k]]
      BY <3>3
    <3>5. LessOne(before, p) = [k \in 1 .. i |-> IF k < p THEN before[k] ELSE before[k + 1]]
      BY <1>7, <1>11 DEF LessOne
    <3> QED
      BY <3>1, <3>2, <3>4, <3>5
  <2>5. arr'[u] = s /\ pc'[u] = "copy"
    BY <1>3, <2>1, <2>2
  <2>6. ProgressOf(u)'
    <3>1. Items(heap', arr'[u]) = Result(before, call[u])'
      BY <1>1, <2>1, <2>4, <2>5, ZenonT(60) DEF Result, Items
    <3> QED
      BY <2>5, <3>1 DEF ProgressOf, Publishing
  <2>7. /\ Types' /\ Locked' /\ Progress' /\ Whole'
        /\ List' = before /\ UnderWay' = call[u]
        /\ \A w \in Users \ {u} : pc'[w] = "idle"
    <3>1. /\ "copy" \in Working \cup Publishing /\ pc[u] # "idle"
          /\ moved' \in [Users -> Nat]
      BY <1>1, <1>3, <2>1 DEF Working
    <3>2. /\ heap' \in Seq(Seq(Words)) /\ channel' \in Slices /\ channel'.off = 0
          /\ IsSlice(heap', channel') /\ IsSlice(heap', s)
          /\ \A c \in DOMAIN heap : c \in DOMAIN heap' /\ Len(heap'[c]) = Len(heap[c])
      BY <1>1, <1>3, <2>1, <2>3
    <3> QED
      BY <1>1, <1>2, <2>1, <2>2, <2>6, <3>1, <3>2, HolderStep
  <2>8. Kept'
    BY <1>2, <2>7 DEF Kept
  <2>9. Known' = Known
    BY <1>9, <2>7 DEF Known
  <2>10. Clean'
    <3>1. \A w \in Users : pc'[w] \notin Publishing
      BY <2>5, <2>7 DEF Publishing
    <3> QED
      BY <1>1, <2>1, <2>9, <3>1 DEF ListInv, Clean
  <2>11. HeapKept
    BY <2>1 DEF HeapKept
  <2> QED
    BY <1>9, <2>7, <2>8, <2>10, <2>11 DEF ListInv
<1>12. i < len - 1 \/ i = len - 1
  BY <1>6, <1>7, SMTT(30)
<1> QED
  BY <1>10, <1>11, <1>12

\* What a goroutine that publishes knows of its result.
LEMMA ResultSlice ==
  ASSUME ListInv, NEW u \in Users, pc[u] \in Publishing
  PROVE  /\ arr[u] \in Slices /\ arr[u].off = 0 /\ IsSlice(heap, arr[u])
         /\ Items(heap, arr[u]) = Result(before, call[u]) /\ Result(before, call[u]) \in Seq(Names)
         /\ arr[u].block # 0 => /\ arr[u].block \in DOMAIN heap
                                 /\ Set(heap[arr[u].block])
                                      \subseteq Set(Items(heap, arr[u])) \cup {Empty}
                                 /\ Set(heap[arr[u].block])
                                      \subseteq Set(before) \cup Set(call[u].adds) \cup {Empty}
         /\ Len(Items(heap, arr[u])) <= arr[u].len
         /\ Items(heap, arr[u]) # <<>> =>
              arr[u].block \in DOMAIN heap /\ Len(Items(heap, arr[u])) <= Len(heap[arr[u].block])
         /\ \A k \in 1 .. Len(Items(heap, arr[u])) :
              heap[arr[u].block][k] = Items(heap, arr[u])[k]
<1>1. pc[u] # "idle"
  BY DEF Publishing
<1>2. /\ arr[u] \in Slices /\ arr[u].off = 0 /\ IsSlice(heap, arr[u])
      /\ Items(heap, arr[u]) = Result(before, call[u])
      /\ heap \in Seq(Seq(Words)) /\ before \in Seq(Names)
  BY DEF ListInv, Types, Progress, ProgressOf
<1>3. call[u] \in Adds \cup Removals
  BY <1>1, Holder
<1>4. /\ Result(before, call[u]) \in Seq(Names)
      /\ Set(Result(before, call[u])) \subseteq Set(before) \cup Set(call[u].adds)
  BY <1>2, <1>3, ResultIsList
<1>5. arr[u].block # 0 => /\ arr[u].block \in DOMAIN heap
                           /\ Set(heap[arr[u].block])
                                \subseteq Set(Items(heap, arr[u])) \cup {Empty}
  BY <1>2, ItemsOfSlice DEF ListInv, Clean
<1>6. /\ Len(Items(heap, arr[u])) <= arr[u].len
      /\ Items(heap, arr[u]) # <<>> =>
           arr[u].block \in DOMAIN heap /\ Len(Items(heap, arr[u])) <= Len(heap[arr[u].block])
      /\ \A k \in 1 .. Len(Items(heap, arr[u])) :
           heap[arr[u].block][k] = Items(heap, arr[u])[k]
  BY <1>2, ShownList
<1> QED
  BY <1>2, <1>4, <1>5, <1>6

\* The old list is in the result of a call that adds names.
LEMMA ResultShows ==
  ASSUME ListInv, NEW u \in Users, pc[u] \in Publishing, call[u].removes = Empty
  PROVE  /\ Len(before) <= arr[u].len
         /\ before # <<>> =>
              arr[u].block \in DOMAIN heap /\ Len(before) <= Len(heap[arr[u].block])
         /\ \A k \in 1 .. Len(before) : heap[arr[u].block][k] = before[k]
<1>1. pc[u] # "idle" /\ before \in Seq(Names)
  BY DEF ListInv, Types, Publishing
<1>2. call[u] \in Adds \cup Removals
  BY <1>1, Holder
<1>3. call[u].adds \in Seq(Names)
  <2>1. CASE call[u] \in Adds
    <3>1. call[u].adds \in Batches
      BY <2>1 DEF Adds
    <3> QED
      BY <3>1, BatchAssumption
  <2>2. CASE call[u] \in Removals
    <3>1. call[u].adds = <<>> /\ <<>> \in Seq(Names)
      BY <2>2 DEF Removals
    <3> QED
      BY <3>1
  <2> QED
    BY <1>2, <2>1, <2>2
<1>4. Items(heap, arr[u]) = before \o call[u].adds
  BY ResultSlice DEF Result
<1>5. PICK l \in Seq(Names) :
        /\ l = before \o call[u].adds /\ Len(l) = Len(before) + Len(call[u].adds)
        /\ \A k \in 1 .. Len(before) : l[k] = before[k]
  <2>1. /\ before \o call[u].adds \in Seq(Names)
        /\ Len(before \o call[u].adds) = Len(before) + Len(call[u].adds)
        /\ \A k \in 1 .. Len(before) + Len(call[u].adds) :
             (before \o call[u].adds)[k] =
               IF k <= Len(before) THEN before[k] ELSE call[u].adds[k - Len(before)]
    BY <1>1, <1>3, ConcatProperties
  <2>2. \A k \in 1 .. Len(before) : k \in 1 .. Len(before) + Len(call[u].adds) /\ k <= Len(before)
    BY <1>1, <1>3, LenProperties
  <2>3. \A k \in 1 .. Len(before) : (before \o call[u].adds)[k] = before[k]
    BY <2>1, <2>2
  <2> QED
    BY <2>1, <2>3
<1>6. Len(before) \in Nat /\ Len(call[u].adds) \in Nat /\ (before # <<>> => Len(before) # 0)
  BY <1>1, <1>3, LenProperties, EmptySeq
<1>7. /\ Len(l) <= arr[u].len
      /\ l # <<>> => arr[u].block \in DOMAIN heap /\ Len(l) <= Len(heap[arr[u].block])
      /\ \A k \in 1 .. Len(l) : heap[arr[u].block][k] = l[k]
  BY <1>4, <1>5, ResultSlice
<1>8. Len(before) <= Len(l) /\ (l = <<>> => Len(l) = 0)
  BY <1>5, <1>6, EmptySeq
<1>9. before # <<>> => l # <<>>
  BY <1>5, <1>6, <1>8
<1>10. arr[u].len \in Nat
  BY ResultSlice DEF Slices
<1>11. before # <<>> => Len(heap[arr[u].block]) \in Nat
  BY <1>7, <1>9, LenProperties DEF ListInv, Types
<1>12. \A k \in 1 .. Len(before) : k \in 1 .. Len(l)
  BY <1>5, <1>6
<1> QED
  BY <1>5, <1>6, <1>7, <1>8, <1>9, <1>10, <1>11, <1>12

\* One word of c.channel is written.
LEMMA PublishStep ==
  ASSUME ListInv, NEW u \in Users, PublishBlock(u) \/ PublishLen(u)
  PROVE  ListInv' /\ List' = List /\ UnderWay' = UnderWay /\ heap' = heap
<1>1. /\ pc[u] \in {"publish", "publish len", "publish block"}
      /\ UNCHANGED <<heap, mu, call, arr, moved, before, calls>>
  BY DEF PublishBlock, PublishLen
<1>2. pc[u] \in Publishing /\ pc[u] # "idle"
  BY <1>1 DEF Publishing
<1>3. /\ heap \in Seq(Seq(Words)) /\ channel \in Slices /\ channel.off = 0
      /\ arr \in [Users -> Slices] /\ pc \in [Users -> Working \cup Publishing \cup {"idle"}]
      /\ moved \in [Users -> Nat] /\ IsSlice(heap, arr[u]) /\ arr[u].off = 0
      /\ Items(heap, arr[u]) = Result(before, call[u])
  BY <1>2 DEF ListInv, Types, Progress, ProgressOf
<1>4. PICK a \in Slices : a = arr[u] /\ a.off = 0
  BY <1>3
<1>5. PICK to \in {"publish len", "publish block", "unlock"}, ch \in Slices :
        /\ pc' = [pc EXCEPT ![u] = to] /\ channel' = ch /\ ch.off = 0
        /\ ch.block \in {channel.block, a.block} /\ ch.len \in {channel.len, a.len}
        /\ to = "publish len" => ch.block = a.block
        /\ to = "publish block" => ch.len = a.len
        /\ to = "unlock" => ch = a
  <2>1. CASE PublishBlock(u)
    <3>1. PICK ch : ch = [channel EXCEPT !.block = a.block, !.off = 0]
      OBVIOUS
    <3>2. channel' = ch
      BY <1>4, <2>1, <3>1 DEF PublishBlock
    <3>3. ch \in Slices /\ ch.block = a.block /\ ch.off = 0 /\ ch.len = channel.len
      BY <1>3, <3>1 DEF Slices
    <3>4. CASE pc[u] = "publish"
      <4>1. pc' = [pc EXCEPT ![u] = "publish len"]
        BY <1>3, <2>1, <3>4 DEF PublishBlock
      <4> QED
        BY <3>2, <3>3, <4>1
    <3>5. CASE pc[u] = "publish block"
      <4>1. pc' = [pc EXCEPT ![u] = "unlock"]
        BY <1>3, <2>1, <3>5 DEF PublishBlock
      <4>2. ch.len = a.len
        BY <1>4, <3>3, <3>5 DEF ListInv, Progress, ProgressOf
      <4>3. ch = a
        BY <1>4, <3>3, <4>2 DEF Slices
      <4> QED
        BY <3>2, <3>3, <4>1, <4>2, <4>3
    <3> QED
      BY <2>1, <3>4, <3>5 DEF PublishBlock
  <2>2. CASE PublishLen(u)
    <3>1. PICK ch : ch = [channel EXCEPT !.len = a.len]
      OBVIOUS
    <3>2. channel' = ch
      BY <1>4, <2>2, <3>1 DEF PublishLen
    <3>3. ch \in Slices /\ ch.block = channel.block /\ ch.off = 0 /\ ch.len = a.len
      BY <1>3, <3>1 DEF Slices
    <3>4. CASE pc[u] = "publish"
      <4>1. pc' = [pc EXCEPT ![u] = "publish block"]
        BY <1>3, <2>2, <3>4 DEF PublishLen
      <4> QED
        BY <3>2, <3>3, <4>1
    <3>5. CASE pc[u] = "publish len"
      <4>1. pc' = [pc EXCEPT ![u] = "unlock"]
        BY <1>3, <2>2, <3>5 DEF PublishLen
      <4>2. ch.block = a.block
        BY <1>4, <3>3, <3>5 DEF ListInv, Progress, ProgressOf
      <4>3. ch = a
        BY <1>4, <3>3, <4>2 DEF Slices
      <4> QED
        BY <3>2, <3>3, <4>1, <4>2, <4>3
    <3> QED
      BY <2>2, <3>4, <3>5 DEF PublishLen
  <2> QED
    BY <2>1, <2>2
<1>6. pc'[u] = to /\ arr'[u] = a
  BY <1>1, <1>3, <1>4, <1>5
<1>7. ProgressOf(u)'
  <2>1. Items(heap', arr'[u]) = Result(before, call[u])'
    BY <1>1, <1>3 DEF Result, Items
  <2> QED
    BY <1>4, <1>5, <1>6, <2>1 DEF ProgressOf
<1>8. /\ Types' /\ Locked' /\ Progress' /\ Whole'
      /\ List' = before /\ UnderWay' = call[u]
      /\ \A w \in Users \ {u} : pc'[w] = "idle"
  <2>1. /\ to \in Working \cup Publishing /\ to \notin Working
        /\ to # "append" /\ to \notin {"remove", "shift"}
    BY DEF Working, Publishing
  <2>2. /\ heap' \in Seq(Seq(Words)) /\ channel' \in Slices /\ channel'.off = 0
        /\ IsSlice(heap', a) /\ arr' = [arr EXCEPT ![u] = a] /\ moved' \in [Users -> Nat]
        /\ \A c \in DOMAIN heap : c \in DOMAIN heap' /\ Len(heap'[c]) = Len(heap[c])
    BY <1>1, <1>3, <1>4, <1>5
  <2> QED
    BY <1>1, <1>2, <1>5, <1>7, <2>1, <2>2, HolderStep
<1>9. List = before /\ UnderWay = call[u]
  BY <1>2, Holder
<1>10. Kept'
  <2>1. SUFFICES ASSUME call[u].removes = Empty PROVE Kept'
    BY <1>8 DEF Kept
  <2>2. /\ Len(before) <= a.len
        /\ before # <<>> => a.block \in DOMAIN heap /\ Len(before) <= Len(heap[a.block])
        /\ \A k \in 1 .. Len(before) : heap[a.block][k] = before[k]
    BY <1>2, <1>4, <2>1, ResultShows
  <2>3. /\ Len(before) <= channel.len
        /\ before # <<>> => channel.block \in DOMAIN heap /\ Len(before) <= Len(heap[channel.block])
        /\ \A k \in 1 .. Len(before) : heap[channel.block][k] = before[k]
    BY <1>9, <2>1 DEF ListInv, Kept
  <2>4. /\ Len(before) <= ch.len
        /\ before # <<>> => ch.block \in DOMAIN heap /\ Len(before) <= Len(heap[ch.block])
        /\ \A k \in 1 .. Len(before) : heap[ch.block][k] = before[k]
    BY <1>5, <2>2, <2>3
  <2> QED
    BY <1>1, <1>5, <1>8, <2>4 DEF Kept
<1>11. Clean'
  <2>1. Known' = Known /\ Known = Set(before) \cup Set(call[u].adds) \cup {Empty}
    BY <1>8, <1>9 DEF Known
  <2>2. a.block # 0 => a.block \in DOMAIN heap /\ Set(heap[a.block]) \subseteq Known
    BY <1>2, <1>4, <2>1, ResultSlice
  <2>3. ch.block # 0 => ch.block \in DOMAIN heap /\ Set(heap[ch.block]) \subseteq Known
    <3>1. channel.block # 0 =>
            channel.block \in DOMAIN heap /\ Set(heap[channel.block]) \subseteq Known
      BY DEF ListInv, Clean
    <3>2. CASE ch.block = channel.block
      BY <3>1, <3>2
    <3>3. CASE ch.block = a.block
      BY <2>2, <3>3
    <3> QED
      BY <1>5, <3>2, <3>3
  <2>4. a.block # 0 => Set(heap[a.block]) \subseteq Set(Items(heap, a)) \cup {Empty}
    BY <1>2, <1>4, ResultSlice
  <2>5. \A w \in Users : pc'[w] \in Publishing => w = u
    <3>1. "idle" \notin Publishing
      BY DEF Publishing
    <3>2. \A w \in Users : w # u => w \in Users \ {u}
      OBVIOUS
    <3> QED
      BY <1>8, <3>1, <3>2, Zenon
  <2> QED
    BY <1>1, <1>4, <1>5, <2>1, <2>3, <2>4, <2>5 DEF Clean
<1> QED
  BY <1>1, <1>8, <1>9, <1>10, <1>11 DEF ListInv

\* c.mu.Unlock(): the list is now the result of the call.
LEMMA UnlockStep ==
  ASSUME ListInv, NEW u \in Users, Unlock(u)
  PROVE  /\ ListInv' /\ mu = u /\ mu' = Nobody /\ UnderWay' = NoCall /\ UnderWay = call[u]
         /\ List = before /\ List' = Result(before, call[u]) /\ List' = Published
<1>1. /\ pc[u] = "unlock" /\ mu' = Nobody
      /\ pc' = [pc EXCEPT ![u] = "idle"] /\ call' = [call EXCEPT ![u] = NoCall]
      /\ arr' = [arr EXCEPT ![u] = NilSlice]
      /\ UNCHANGED <<heap, channel, moved, before, calls>>
  BY DEF Unlock
<1>2. pc[u] \in Publishing /\ pc[u] # "idle"
  BY <1>1 DEF Publishing
<1>3. channel = arr[u]
  BY <1>1 DEF ListInv, Progress, ProgressOf
<1>4. /\ mu = u /\ List = before /\ UnderWay = call[u]
      /\ \A w \in Users \ {u} : pc[w] = "idle" /\ call[w] = NoCall /\ arr[w] = NilSlice
  BY <1>2, Holder
<1>5. /\ IsSlice(heap, channel) /\ Published = Result(before, call[u]) /\ Published \in Seq(Names)
      /\ channel.block # 0 => /\ channel.block \in DOMAIN heap
                               /\ Set(heap[channel.block]) \subseteq Set(Published) \cup {Empty}
      /\ Len(Published) <= channel.len
      /\ Published # <<>> =>
           channel.block \in DOMAIN heap /\ Len(Published) <= Len(heap[channel.block])
      /\ \A k \in 1 .. Len(Published) : heap[channel.block][k] = Published[k]
  BY <1>2, <1>3, ResultSlice DEF Published
<1>6. Published' = Published
  BY <1>1 DEF Published, Items
<1>7. List' = Published /\ UnderWay' = NoCall
  BY <1>1, <1>6 DEF List, UnderWay
<1>8. \A w \in Users : pc'[w] = "idle" /\ call'[w] = NoCall /\ arr'[w] = NilSlice
  BY <1>1, <1>4 DEF ListInv, Types
<1>9. Types'
  <2>1. /\ arr' \in [Users -> Slices] /\ \A w \in Users : IsSlice(heap, arr'[w])
    BY <1>1, <1>8, NoSlice DEF ListInv, Types
  <2>2. /\ pc' \in [Users -> Working \cup Publishing \cup {"idle"}]
        /\ call' \in [Users -> Adds \cup Removals \cup {NoCall}]
    BY <1>1 DEF ListInv, Types
  <2> QED
    BY <1>1, <2>1, <2>2 DEF ListInv, Types
<1>10. Locked'
  BY <1>1, <1>8, UserAssumption DEF Locked
<1>11. Progress'
  BY <1>8 DEF Progress, ProgressOf, Publishing
<1>12. Whole'
  BY <1>1, <1>5, <1>6 DEF Whole
<1>13. Kept'
  BY <1>1, <1>5, <1>7 DEF Kept
<1>14. Clean'
  BY <1>1, <1>5, <1>7, <1>8 DEF Clean, Known, Publishing
<1> QED
  BY <1>1, <1>4, <1>5, <1>7, <1>9, <1>10, <1>11, <1>12, <1>13, <1>14 DEF ListInv

\* The list is one of names, whoever holds c.mu.
LEMMA ListIsSeq ==
  ASSUME ListInv
  PROVE  List \in Seq(Names)
BY DEF ListInv, Types, Whole, List

\* A step that neither begins nor ends a call.
IsWork ==
  /\ ListInv' /\ List' = List /\ UnderWay' = UnderWay
  /\ HeapKept
  /\ UNCHANGED <<hubVars, past>>

-----------------------------------------------------------------------------
(* The invariant of a search.                                              *)

Scanning == hpc \in {"load", "load block", "load len", "scan"}

\* What the hub has read so far.
HubTypes ==
  /\ hpc \in {"idle", "load", "load block", "load len", "scan", "answer", "fault"}
  /\ name \in Words /\ (Scanning => name \in Names)
  /\ view \in Slices /\ view.off = 0
  /\ index \in 0 .. view.len
  /\ hpc \in {"idle", "load", "load block", "load len"} => index = 0 /\ ~found
  /\ found \in BOOLEAN
  /\ past \in [always : BOOLEAN, ever : BOOLEAN, disturbed : BOOLEAN, outside : BOOLEAN]
  /\ scans \in 0 .. MaxScans

\* What a scan that no removal has disturbed will find, and has not passed.
Ahead ==
  Scanning /\ past.always /\ ~past.disturbed =>
    \E w \in 1 .. Len(List) :
      /\ List[w] = name
      /\ hpc \in {"load len", "scan"} =>
           /\ view.block \in DOMAIN heap /\ w <= Len(heap[view.block])
           /\ heap[view.block][w] = name
      /\ hpc \in {"load block", "scan"} => w <= view.len
      /\ hpc = "scan" /\ ~found => index < w

\* A removal that a scan overlaps disturbs it.
Disturbs == Scanning /\ UnderWay.removes # Empty => past.disturbed

\* What is nowhere to be found for a scan.
Absent ==
  Scanning /\ ~past.ever =>
    /\ name \notin Known
    /\ hpc \in {"load len", "scan"} /\ view.block # 0 =>
         view.block \in DOMAIN heap /\ name \notin Set(heap[view.block])
    /\ ~past.outside => ~found

ScanInv == HubTypes /\ Ahead /\ Disturbs /\ Absent /\ AddsNeverHide /\ FoundWasThere

\* A search is not hurt by what a call does between Lock and Unlock.
LEMMA WorkKeepsScan ==
  ASSUME ListInv, ScanInv, IsWork
  PROVE  ScanInv'
<1>1. UNCHANGED <<hpc, name, view, index, found, scans, past>>
  BY DEF IsWork, hubVars
<1>2. List' = List /\ UnderWay' = UnderWay /\ Known' = Known
  BY DEF IsWork, Known
<1>3. HubTypes'
  BY <1>1 DEF ScanInv, HubTypes, Scanning
<1>4. Ahead'
  <2>1. SUFFICES ASSUME Scanning, past.always, ~past.disturbed PROVE Ahead'
    BY <1>1 DEF Ahead, Scanning
  <2>2. PICK w \in 1 .. Len(List) :
          /\ List[w] = name
          /\ hpc \in {"load len", "scan"} =>
               /\ view.block \in DOMAIN heap /\ w <= Len(heap[view.block])
               /\ heap[view.block][w] = name
          /\ hpc \in {"load block", "scan"} => w <= view.len
          /\ hpc = "scan" /\ ~found => index < w
    BY <2>1 DEF ScanInv, Ahead
  <2>3. UnderWay.removes = Empty
    BY <2>1 DEF ScanInv, Disturbs
  <2>4. Len(List) \in Nat /\ w \in Nat /\ w <= Len(List)
    BY ListIsSeq, LenProperties
  <2>5. hpc \in {"load len", "scan"} =>
          /\ view.block \in DOMAIN heap' /\ w <= Len(heap'[view.block])
          /\ heap'[view.block][w] = name
    <3>1. SUFFICES ASSUME hpc \in {"load len", "scan"}
                   PROVE  /\ view.block \in DOMAIN heap' /\ w <= Len(heap'[view.block])
                          /\ heap'[view.block][w] = name
      OBVIOUS
    <3>2. PICK b \in DOMAIN heap : b = view.block /\ w <= Len(heap[b]) /\ heap[b][w] = name
      BY <2>2, <3>1
    <3>3. Len(heap[b]) \in Nat
      BY LenProperties DEF ListInv, Types
    <3>4. w \in 1 .. Len(heap[b])
      BY <2>4, <3>2, <3>3
    <3> QED
      BY <2>3, <2>4, <3>2, <3>4 DEF IsWork, HeapKept
  <2> QED
    BY <1>1, <1>2, <2>2, <2>5 DEF Ahead
<1>5. Disturbs'
  BY <1>1, <1>2 DEF ScanInv, Disturbs, Scanning
<1>6. Absent'
  <2>1. SUFFICES ASSUME Scanning, ~past.ever PROVE Absent'
    BY <1>1 DEF Absent, Scanning
  <2>2. name \notin Known /\ (~past.outside => ~found)
    BY <2>1 DEF ScanInv, Absent
  <2>3. hpc \in {"load len", "scan"} /\ view.block # 0 =>
          view.block \in DOMAIN heap' /\ name \notin Set(heap'[view.block])
    BY <2>1, <2>2 DEF ScanInv, Absent, IsWork, HeapKept
  <2> QED
    BY <1>1, <1>2, <2>2, <2>3 DEF Absent
<1>7. AddsNeverHide' /\ FoundWasThere'
  BY <1>1 DEF ScanInv, AddsNeverHide, FoundWasThere
<1> QED
  BY <1>3, <1>4, <1>5, <1>6, <1>7 DEF ScanInv

\* A call begins or ends.
LEMMA CallKeepsScan ==
  ASSUME ListInv, ScanInv, ListInv', NEW c \in Adds \cup Removals \cup {NoCall},
         List' = Published, UnderWay' = c, ScanHistory(Published, c),
         UNCHANGED <<heap, hubVars>>,
         UnderWay.removes = Empty =>
           Len(List) <= Len(List') /\ \A k \in 1 .. Len(List) : List'[k] = List[k]
  PROVE  ScanInv'
<1>1. UNCHANGED <<heap, hpc, name, view, index, found, scans>>
  BY DEF hubVars
<1>2. CASE hpc \in {"idle", "answer"}
  <2>1. past' = past
    BY <1>2 DEF ScanHistory
  <2>2. ~Scanning /\ ~Scanning'
    BY <1>1, <1>2 DEF Scanning
  <2>3. HubTypes'
    BY <1>1, <2>1, <2>2 DEF ScanInv, HubTypes
  <2>4. AddsNeverHide' /\ FoundWasThere'
    BY <1>1, <2>1 DEF ScanInv, AddsNeverHide, FoundWasThere
  <2> QED
    BY <2>2, <2>3, <2>4 DEF ScanInv, Ahead, Disturbs, Absent
<1>3. CASE hpc \notin {"idle", "answer"}
  <2>1. past' = [past EXCEPT
                   !.always    = past.always /\ name \in Set(Published) /\ name # c.removes,
                   !.ever      = past.ever \/ name \in Set(Published) \cup Set(c.adds),
                   !.disturbed = past.disturbed \/ c.removes # Empty]
    BY <1>3 DEF ScanHistory
  <2>2. /\ past' \in [always : BOOLEAN, ever : BOOLEAN, disturbed : BOOLEAN, outside : BOOLEAN]
        /\ past'.always => past.always
        /\ ~past'.ever => ~past.ever /\ name \notin Set(Published) \cup Set(c.adds)
        /\ ~past'.disturbed => ~past.disturbed /\ c.removes = Empty
        /\ past'.outside = past.outside
    <3>1. past \in [always : BOOLEAN, ever : BOOLEAN, disturbed : BOOLEAN, outside : BOOLEAN]
      BY DEF ScanInv, HubTypes
    <3>2. PICK al \in BOOLEAN, ev \in BOOLEAN, di \in BOOLEAN :
            /\ al = (past.always /\ name \in Set(Published) /\ name # c.removes)
            /\ ev = (past.ever \/ name \in Set(Published) \cup Set(c.adds))
            /\ di = (past.disturbed \/ c.removes # Empty)
      OBVIOUS
    <3>3. past' = [past EXCEPT !.always = al, !.ever = ev, !.disturbed = di]
      BY <2>1, <3>2, Zenon
    <3>4. /\ past' \in [always : BOOLEAN, ever : BOOLEAN, disturbed : BOOLEAN, outside : BOOLEAN]
          /\ past'.always = al /\ past'.ever = ev /\ past'.disturbed = di
          /\ past'.outside = past.outside
      BY <3>1, <3>3
    <3> QED
      BY <3>2, <3>4, Zenon
  <2>3. HubTypes'
    BY <1>1, <2>2 DEF ScanInv, HubTypes, Scanning
  <2>4. Ahead'
    <3>1. SUFFICES ASSUME Scanning, past'.always, ~past'.disturbed PROVE Ahead'
      BY <1>1 DEF Ahead, Scanning
    <3>2. past.always /\ ~past.disturbed
      BY <2>2, <3>1
    <3>3. PICK w \in 1 .. Len(List) :
            /\ List[w] = name
            /\ hpc \in {"load len", "scan"} =>
                 /\ view.block \in DOMAIN heap /\ w <= Len(heap[view.block])
                 /\ heap[view.block][w] = name
            /\ hpc \in {"load block", "scan"} => w <= view.len
            /\ hpc = "scan" /\ ~found => index < w
      BY <3>1, <3>2 DEF ScanInv, Ahead
    <3>4. UnderWay.removes = Empty
      BY <3>1, <3>2 DEF ScanInv, Disturbs
    <3>5. List' \in Seq(Names)
      <4>1. (List \in Seq(Names))'
        BY ListIsSeq, PTL
      <4> QED
        BY <4>1
    <3>6. w \in 1 .. Len(List') /\ List'[w] = name
      <4>1. PICK old, new : old = List /\ new = List'
        OBVIOUS
      <4>2. Len(old) \in Nat /\ Len(new) \in Nat
        BY <3>5, <4>1, ListIsSeq, LenProperties
      <4>3. Len(old) <= Len(new) /\ \A k \in 1 .. Len(old) : new[k] = old[k]
        BY <3>4, <4>1
      <4>4. w \in 1 .. Len(old) /\ old[w] = name
        BY <3>3, <4>1
      <4>5. w \in 1 .. Len(new) /\ new[w] = name
        BY <4>2, <4>3, <4>4
      <4> QED
        BY <4>1, <4>5
    <3> QED
      BY <1>1, <3>3, <3>6 DEF Ahead
  <2>5. Disturbs'
    BY <2>2 DEF Disturbs
  <2>6. Absent'
    <3>1. SUFFICES ASSUME Scanning, ~past'.ever PROVE Absent'
      BY <1>1 DEF Absent, Scanning
    <3>2. ~past.ever /\ name \notin Set(Published) \cup Set(c.adds)
      BY <2>2, <3>1
    <3>3. name # Empty
      BY <3>1, NameAssumption DEF ScanInv, HubTypes
    <3>4. name \notin Known'
      BY <3>2, <3>3 DEF Known
    <3> QED
      BY <1>1, <2>2, <3>1, <3>2, <3>4 DEF ScanInv, Absent
  <2>7. AddsNeverHide' /\ FoundWasThere'
    BY <1>1, <1>3 DEF AddsNeverHide, FoundWasThere
  <2> QED
    BY <2>3, <2>4, <2>5, <2>6, <2>7 DEF ScanInv
<1> QED
  BY <1>2, <1>3

\* The hub changes nothing of the list, and searches as ScanInv says.
LEMMA HubKeepsScan ==
  ASSUME ListInv, ScanInv, Hub
  PROVE  /\ ListInv' /\ ScanInv' /\ List' = List
         /\ UNCHANGED <<heap, channel, mu, userVars, before, calls>>
<1>1. UNCHANGED <<heap, channel, mu, userVars, before, calls>>
  BY DEF Hub, StartScan, BeginScan, LoadBlock, LoadLen, Compare, EndScan, NextMessage
<1>2. ListInv' /\ List' = List /\ UnderWay' = UnderWay
  BY <1>1, ListStutters
<1>3. Known' = Known /\ heap' = heap /\ channel' = channel
  BY <1>1, <1>2 DEF Known
<1>4. /\ name \in Words /\ (Scanning => name \in Names)
      /\ view \in Slices /\ view.off = 0
      /\ index \in 0 .. view.len /\ view.len \in Nat /\ index \in Nat
      /\ found \in BOOLEAN
      /\ past \in [always : BOOLEAN, ever : BOOLEAN, disturbed : BOOLEAN, outside : BOOLEAN]
      /\ scans \in 0 .. MaxScans
      /\ channel \in Slices /\ channel.off = 0 /\ channel.len \in Nat
      /\ heap \in Seq(Seq(Words))
  <2>1. view \in Slices /\ channel \in Slices /\ index \in 0 .. view.len
    BY DEF ScanInv, HubTypes, ListInv, Types
  <2>2. view.len \in Nat /\ channel.len \in Nat
    BY <2>1 DEF Slices
  <2>3. index \in Nat
    BY <2>1, <2>2
  <2> QED
    BY <2>1, <2>2, <2>3 DEF ScanInv, HubTypes, ListInv, Types
<1>5. Len(List) \in Nat /\ DOMAIN List = 1 .. Len(List)
  BY ListIsSeq, LenProperties
<1>6. ASSUME NEW ch \in Names, StartScan(ch)
      PROVE  ScanInv'
  <2>1. /\ hpc = "idle" /\ scans < MaxScans /\ hpc' = "load" /\ name' = ch
        /\ found' = FALSE /\ scans' = scans + 1 /\ view' = view /\ index' = index /\ index = 0
        /\ past' = [always    |-> ch \in Set(List) /\ ch # UnderWay.removes,
                    ever      |-> ch \in Set(List) \cup Set(UnderWay.adds),
                    disturbed |-> UnderWay.removes # Empty,
                    outside   |-> FALSE]
    BY <1>6 DEF StartScan, BeginScan, ScanInv, HubTypes
  <2>2. HubTypes'
    <3>1. scans' \in 0 .. MaxScans
      BY <1>4, <2>1, BoundAssumption
    <3>2. past' \in [always : BOOLEAN, ever : BOOLEAN, disturbed : BOOLEAN, outside : BOOLEAN]
      BY <2>1
    <3> QED
      BY <1>4, <2>1, <3>1, <3>2 DEF HubTypes, Scanning, Words
  <2>3. Ahead'
    <3>1. SUFFICES ASSUME past'.always
                   PROVE  \E w \in 1 .. Len(List) : List[w] = ch
      BY <1>2, <2>1 DEF Ahead, Scanning
    <3>2. ch \in Set(List)
      BY <2>1, <3>1
    <3> QED
      BY <1>5, <3>2 DEF Set
  <2>4. Disturbs'
    BY <1>2, <2>1 DEF Disturbs
  <2>5. Absent'
    <3>1. ch # Empty
      BY NameAssumption
    <3>2. ~past'.ever => ch \notin Known
      BY <2>1, <3>1 DEF Known
    <3> QED
      BY <1>3, <2>1, <3>2 DEF Absent
  <2>6. AddsNeverHide' /\ FoundWasThere'
    BY <2>1 DEF AddsNeverHide, FoundWasThere
  <2> QED
    BY <2>2, <2>3, <2>4, <2>5, <2>6 DEF ScanInv
<1>7. CASE LoadBlock \/ LoadLen
  <2>1. /\ hpc \in {"load", "load block", "load len"} /\ hpc' \in {"load block", "load len", "scan"}
        /\ UNCHANGED <<name, index, found, scans, past>> /\ index = 0 /\ ~found
        /\ Scanning /\ Scanning'
    BY <1>7 DEF LoadBlock, LoadLen, ScanInv, HubTypes, Scanning
  <2>2. PICK v \in Slices :
          /\ view' = v /\ v.off = 0
          /\ hpc' \in {"load len", "scan"} =>
               v.block = channel.block \/ (v.block = view.block /\ hpc = "load len")
          /\ hpc' \in {"load block", "scan"} =>
               v.len = channel.len \/ (v.len = view.len /\ hpc = "load block")
    <3>1. CASE LoadBlock
      <4>1. PICK v : v = [view EXCEPT !.block = channel.block, !.off = 0]
        OBVIOUS
      <4>2. v \in Slices /\ v.block = channel.block /\ v.off = 0 /\ v.len = view.len
        BY <1>4, <4>1 DEF Slices
      <4>3. view' = v
        BY <1>4, <3>1, <4>1 DEF LoadBlock
      <4> QED
        BY <3>1, <4>2, <4>3 DEF LoadBlock
    <3>2. CASE LoadLen
      <4>1. PICK v : v = [view EXCEPT !.len = channel.len]
        OBVIOUS
      <4>2. v \in Slices /\ v.block = view.block /\ v.off = 0 /\ v.len = channel.len
        BY <1>4, <4>1 DEF Slices
      <4>3. view' = v
        BY <3>2, <4>1 DEF LoadLen
      <4> QED
        BY <3>2, <4>2, <4>3 DEF LoadLen
    <3> QED
      BY <1>7, <3>1, <3>2
  <2>3. HubTypes'
    <3>1. index' \in 0 .. view'.len
      <4>1. v.len \in Nat
        BY DEF Slices
      <4>2. index' = 0 /\ view'.len = v.len
        BY <2>1, <2>2
      <4> QED
        BY <4>1, <4>2
    <3> QED
      BY <1>4, <2>1, <2>2, <3>1 DEF HubTypes
  <2>4. Ahead'
    <3>1. SUFFICES ASSUME past.always, ~past.disturbed PROVE Ahead'
      BY <2>1 DEF Ahead
    <3>2. PICK w \in 1 .. Len(List) :
            /\ List[w] = name
            /\ hpc = "load len" =>
                 /\ view.block \in DOMAIN heap /\ w <= Len(heap[view.block])
                 /\ heap[view.block][w] = name
            /\ hpc = "load block" => w <= view.len
      BY <2>1, <3>1 DEF ScanInv, Ahead
    <3>3. UnderWay.removes = Empty
      BY <2>1, <3>1 DEF ScanInv, Disturbs
    <3>4. /\ Len(List) <= channel.len
          /\ channel.block \in DOMAIN heap /\ Len(List) <= Len(heap[channel.block])
          /\ heap[channel.block][w] = List[w]
      <4>1. List # <<>>
        BY <1>5, EmptySeq
      <4> QED
        BY <3>3, <4>1 DEF ListInv, Kept
    <3>5. Len(heap[channel.block]) \in Nat
      BY <1>4, <3>4, LenProperties
    <3>6. w <= channel.len /\ w <= Len(heap[channel.block]) /\ w > 0
      BY <1>4, <1>5, <3>4, <3>5
    <3>7. hpc' \in {"load len", "scan"} =>
            /\ v.block \in DOMAIN heap /\ w <= Len(heap[v.block])
            /\ heap[v.block][w] = name
      BY <2>2, <3>2, <3>4, <3>6
    <3>8. hpc' \in {"load block", "scan"} => w <= v.len
      BY <2>2, <3>2, <3>6
    <3>9. index' < w
      BY <2>1, <3>6
    <3> QED
      BY <1>2, <1>3, <2>1, <2>2, <3>2, <3>7, <3>8, <3>9 DEF Ahead
  <2>5. Disturbs'
    BY <1>2, <2>1 DEF ScanInv, Disturbs
  <2>6. Absent'
    <3>1. SUFFICES ASSUME ~past.ever PROVE Absent'
      BY <2>1 DEF Absent
    <3>2. /\ name \notin Known /\ (~past.outside => ~found)
          /\ hpc = "load len" /\ view.block # 0 =>
               view.block \in DOMAIN heap /\ name \notin Set(heap[view.block])
      BY <2>1, <3>1 DEF ScanInv, Absent
    <3>3. channel.block # 0 => channel.block \in DOMAIN heap /\ name \notin Set(heap[channel.block])
      BY <3>2 DEF ListInv, Clean
    <3>4. hpc' \in {"load len", "scan"} /\ v.block # 0 =>
            v.block \in DOMAIN heap /\ name \notin Set(heap[v.block])
      BY <2>2, <3>2, <3>3
    <3> QED
      BY <1>3, <2>1, <2>2, <3>2, <3>4 DEF Absent
  <2>7. AddsNeverHide' /\ FoundWasThere'
    BY <2>1 DEF AddsNeverHide, FoundWasThere
  <2> QED
    BY <1>1, <1>2, <2>3, <2>4, <2>5, <2>6, <2>7 DEF ScanInv
<1>8. CASE Compare
  <2>1. /\ hpc = "scan" /\ index < view.len /\ ~found /\ index' = index + 1
        /\ UNCHANGED <<name, view, scans>> /\ Scanning
    BY <1>8 DEF Compare, Scanning
  <2>2. \/ /\ index < Capacity(heap, view) /\ found' = (At(heap, view, index) = name)
           /\ hpc' = "scan" /\ past' = past
        \/ /\ index >= Capacity(heap, view) /\ past' = [past EXCEPT !.outside = TRUE]
           /\ found' \in BOOLEAN /\ hpc' \in {"scan", "fault"}
    BY <1>4, <1>8, <2>1 DEF Compare
  <2>3. /\ past' \in [always : BOOLEAN, ever : BOOLEAN, disturbed : BOOLEAN, outside : BOOLEAN]
        /\ past'.always = past.always /\ past'.ever = past.ever /\ past'.disturbed = past.disturbed
        /\ past'.outside => past.outside \/ index >= Capacity(heap, view)
        /\ index >= Capacity(heap, view) /\ ~(index < Capacity(heap, view)) => past'.outside
        /\ hpc' \in {"scan", "fault"} /\ found' \in BOOLEAN
    BY <1>4, <2>2
  <2>4. HubTypes'
    <3>1. index' \in 0 .. view.len
      BY <1>4, <2>1
    <3> QED
      BY <1>4, <2>1, <2>3, <3>1 DEF HubTypes, Scanning
  <2>5. Ahead'
    <3>1. SUFFICES ASSUME past.always, ~past.disturbed, hpc' = "scan" PROVE Ahead'
      BY <2>3 DEF Ahead, Scanning
    <3>2. PICK w \in 1 .. Len(List) :
            /\ List[w] = name
            /\ view.block \in DOMAIN heap /\ w <= Len(heap[view.block])
            /\ heap[view.block][w] = name
            /\ w <= view.len /\ index < w
      BY <2>1, <3>1 DEF ScanInv, Ahead
    <3>3. Len(heap[view.block]) \in Nat /\ view.block # 0
      BY <1>4, <3>2, LenProperties
    <3>4. Capacity(heap, view) = Len(heap[view.block])
      BY <1>4, <3>3 DEF Capacity
    <3>5. index < Capacity(heap, view)
      BY <1>4, <1>5, <3>2, <3>3, <3>4
    <3>6. found' = (heap[view.block][index + 1] = name)
      <4>1. found' = (At(heap, view, index) = name)
        BY <1>4, <2>2, <3>3, <3>4, <3>5
      <4>2. 0 + index + 1 = index + 1
        BY <1>4
      <4> QED
        BY <1>4, <4>1, <4>2 DEF At
    <3>7. ~found' => index' < w
      <4>1. SUFFICES ASSUME ~found' PROVE index + 1 < w
        BY <2>1
      <4>2. index + 1 # w
        BY <3>2, <3>6, <4>1
      <4> QED
        BY <1>4, <1>5, <3>2, <4>2
    <3> QED
      BY <1>2, <1>3, <2>1, <3>2, <3>7 DEF Ahead
  <2>6. Disturbs'
    BY <1>2, <2>1, <2>3 DEF ScanInv, Disturbs
  <2>7. Absent'
    <3>1. SUFFICES ASSUME ~past.ever PROVE Absent'
      BY <2>3 DEF Absent
    <3>2. /\ name \notin Known /\ name \in Names
          /\ view.block # 0 => view.block \in DOMAIN heap /\ name \notin Set(heap[view.block])
      BY <1>4, <2>1, <3>1 DEF ScanInv, Absent
    <3>3. ~past'.outside => ~found'
      <4>1. SUFFICES ASSUME ~past'.outside PROVE ~found'
        OBVIOUS
      <4>2. index < Capacity(heap, view) /\ found' = (At(heap, view, index) = name)
        BY <2>2, <2>3, <4>1
      <4>3. view.block # 0
        BY <1>4, <4>2 DEF Capacity
      <4>4. PICK b \in DOMAIN heap : b = view.block /\ name \notin Set(heap[b])
        BY <3>2, <4>3
      <4>5. Len(heap[b]) \in Nat /\ DOMAIN heap[b] = 1 .. Len(heap[b])
        BY <1>4, LenProperties
      <4>6. index + 1 \in DOMAIN heap[b] /\ 0 + index + 1 = index + 1
        BY <1>4, <4>2, <4>3, <4>4, <4>5 DEF Capacity
      <4>7. At(heap, view, index) = heap[b][index + 1]
        BY <1>4, <4>4, <4>6 DEF At
      <4> QED
        BY <4>2, <4>4, <4>6, <4>7 DEF Set
    <3> QED
      BY <1>3, <2>1, <2>3, <3>2, <3>3 DEF Absent
  <2>8. AddsNeverHide' /\ FoundWasThere'
    BY <2>3 DEF AddsNeverHide, FoundWasThere
  <2> QED
    BY <1>1, <1>2, <2>4, <2>5, <2>6, <2>7, <2>8 DEF ScanInv
<1>9. CASE EndScan
  <2>1. /\ hpc = "scan" /\ (found \/ index = view.len) /\ hpc' = "answer"
        /\ UNCHANGED <<name, view, index, found, scans, past>>
        /\ Scanning /\ ~Scanning'
    BY <1>9 DEF EndScan, Scanning
  <2>2. HubTypes'
    BY <1>4, <2>1 DEF HubTypes
  <2>3. AddsNeverHide'
    <3>1. SUFFICES ASSUME past.always, ~past.disturbed PROVE found
      BY <2>1 DEF AddsNeverHide
    <3>2. PICK w \in 1 .. Len(List) : w <= view.len /\ (~found => index < w)
      BY <2>1, <3>1 DEF ScanInv, Ahead
    <3> QED
      BY <1>4, <1>5, <2>1, <3>2
  <2>4. FoundWasThere'
    BY <2>1 DEF FoundWasThere, ScanInv, Absent
  <2> QED
    BY <1>1, <1>2, <2>1, <2>2, <2>3, <2>4 DEF ScanInv, Ahead, Disturbs, Absent
<1>10. CASE NextMessage
  <2>1. /\ hpc' = "idle" /\ name' = Empty /\ view' = NilSlice /\ index' = 0 /\ found' = FALSE
        /\ past' = NoHistory /\ scans' = scans
    BY <1>10 DEF NextMessage
  <2>2. HubTypes'
    <3>1. NilSlice \in Slices /\ NilSlice.off = 0 /\ NilSlice.len = 0
      BY DEF NilSlice, Slices
    <3>2. NoHistory \in [always : BOOLEAN, ever : BOOLEAN, disturbed : BOOLEAN, outside : BOOLEAN]
      BY DEF NoHistory
    <3>3. index' \in 0 .. view'.len
      BY <2>1, <3>1
    <3> QED
      BY <1>4, <2>1, <3>1, <3>2, <3>3 DEF HubTypes, Scanning, Words
  <2>3. ~Scanning' /\ hpc' # "answer"
    BY <2>1 DEF Scanning
  <2> QED
    BY <1>1, <1>2, <2>2, <2>3 DEF ScanInv, Ahead, Disturbs, Absent, AddsNeverHide, FoundWasThere
<1> QED
  BY <1>1, <1>2, <1>6, <1>7, <1>8, <1>9, <1>10 DEF Hub

-----------------------------------------------------------------------------
(* The theorems.                                                           *)

\* Steps of a goroutine between Lock and Unlock.
LEMMA WorkStep ==
  ASSUME ListInv, NEW u \in Users,
         \/ AppendNames(u) \/ RemoveName(u) \/ ShiftName(u) \/ CopyNames(u)
         \/ PublishBlock(u) \/ PublishLen(u)
  PROVE  IsWork
<1>1. UNCHANGED <<hubVars, past>>
  BY DEF AppendNames, RemoveName, ShiftName, CopyNames, PublishBlock, PublishLen, Becomes
<1>2. CASE RemoveName(u) \/ PublishBlock(u) \/ PublishLen(u)
  <2>1. heap' = heap
    BY <1>2 DEF RemoveName, PublishBlock, PublishLen
  <2> QED
    BY <1>1, <1>2, <2>1, RemoveStep, PublishStep DEF IsWork, HeapKept
<1>3. CASE CopyNames(u)
  BY <1>1, <1>3, CopyStep DEF IsWork
<1>4. CASE ShiftName(u)
  BY <1>1, <1>4, ShiftStep DEF IsWork
<1>5. CASE AppendNames(u)
  BY <1>1, <1>5, AppendStep DEF IsWork
<1> QED
  BY <1>2, <1>3, <1>4, <1>5

\* Every step keeps the invariant, and changes the list as it may be changed.
LEMMA Step ==
  ASSUME ListInv, ScanInv, [Next]_vars
  PROVE  ListInv' /\ ScanInv' /\ [Promise!Next]_List
<1>1. ASSUME NEW u \in Users, AddChannel(u) \/ RemoveChannel(u)
      PROVE  ListInv' /\ ScanInv' /\ [Promise!Next]_List
  <2>1. PICK c \in Adds \cup Removals : Begin(u, c)
    BY <1>1 DEF AddChannel, RemoveChannel, Adds, Removals
  <2>2. ListInv' /\ List' = List /\ mu = Nobody /\ mu' = u /\ u # Nobody /\ heap' = heap
    BY <2>1, BeginStep, UserAssumption DEF Begin, Enter
  <2>3. /\ List' = Published /\ UnderWay' = c /\ ScanHistory(Published, c)
        /\ UNCHANGED <<heap, hubVars>>
    <3>1. before' = Published /\ call' = [call EXCEPT ![u] = c] /\ ScanHistory(Published, c)
          /\ UNCHANGED <<heap, hubVars>>
      BY <2>1 DEF Begin, Enter
    <3> QED
      BY <2>2, <3>1 DEF List, UnderWay, ListInv, Types
  <2>4. Len(List) <= Len(List') /\ \A k \in 1 .. Len(List) : List'[k] = List[k]
    BY <2>2, ListIsSeq, LenProperties
  <2>5. ScanInv'
    BY <2>2, <2>3, <2>4, CallKeepsScan
  <2> QED
    BY <2>2, <2>5
<1>2. ASSUME NEW u \in Users, Unlock(u)
      PROVE  ListInv' /\ ScanInv' /\ [Promise!Next]_List
  <2>1. /\ ListInv' /\ UnderWay' = NoCall /\ UnderWay = call[u]
        /\ List = before /\ List' = Result(List, call[u]) /\ List' = Published
    BY <1>2, UnlockStep
  <2>2. call[u] \in Adds \cup Removals
    <3>1. pc[u] # "idle"
      BY <1>2 DEF Unlock
    <3> QED
      BY <3>1, Holder
  <2>3. UnderWay.removes = Empty =>
          Len(List) <= Len(List') /\ \A k \in 1 .. Len(List) : List'[k] = List[k]
    <3>1. SUFFICES ASSUME call[u].removes = Empty
                   PROVE  Len(List) <= Len(List') /\ \A k \in 1 .. Len(List) : List'[k] = List[k]
      BY <2>1
    <3>2. call[u] \in Adds
      BY <2>2, <3>1, NameAssumption DEF Removals
    <3>3. PICK a \in Seq(Names) : a = call[u].adds
      BY <3>2, BatchAssumption DEF Adds
    <3>4. PICK l \in Seq(Names) : l = List
      BY ListIsSeq
    <3>5. List' = l \o a
      BY <2>1, <3>1, <3>3, <3>4 DEF Result
    <3>6. /\ Len(l \o a) = Len(l) + Len(a) /\ Len(l) \in Nat /\ Len(a) \in Nat
          /\ \A k \in 1 .. Len(l) + Len(a) :
               (l \o a)[k] = IF k <= Len(l) THEN l[k] ELSE a[k - Len(l)]
      BY ConcatProperties, LenProperties
    <3>7. Len(l) <= Len(l \o a) /\ \A k \in 1 .. Len(l) : (l \o a)[k] = l[k]
      BY <3>6
    <3> QED
      BY <3>4, <3>5, <3>7
  <2>4. ScanHistory(Published, NoCall) /\ UNCHANGED <<heap, hubVars>>
    BY <1>2 DEF Unlock
  <2>5. ScanInv'
    BY <2>1, <2>3, <2>4, CallKeepsScan
  <2>6. Promise!Next
    <3>1. CASE call[u] \in Adds
      <4>1. call[u].adds \in Batches /\ List' = List \o call[u].adds
        BY <2>1, <3>1 DEF Adds, Result
      <4> QED
        BY <4>1 DEF Promise!Next, Promise!AddChannel
    <3>2. CASE call[u] \in Removals
      <4>1. call[u].removes \in Names /\ List' = Promise!Ext!RemoveFirst(List, call[u].removes)
        BY <2>1, <3>2, NameAssumption DEF Removals, Result
      <4> QED
        BY <4>1 DEF Promise!Next, Promise!RemoveChannel
    <3> QED
      BY <2>2, <3>1, <3>2
  <2> QED
    BY <2>1, <2>5, <2>6
<1>3. ASSUME NEW u \in Users,
             \/ AppendNames(u) \/ RemoveName(u) \/ ShiftName(u) \/ CopyNames(u)
             \/ PublishBlock(u) \/ PublishLen(u)
      PROVE  ListInv' /\ ScanInv' /\ [Promise!Next]_List
  <2>1. IsWork
    BY <1>3, WorkStep
  <2>2. ScanInv'
    BY <2>1, WorkKeepsScan
  <2> QED
    BY <2>1, <2>2 DEF IsWork
<1>4. CASE Hub
  BY <1>4, HubKeepsScan
<1>5. CASE UNCHANGED vars
  <2>1. UNCHANGED <<heap, channel, mu, userVars, before, calls, hubVars, past>>
    BY <1>5 DEF vars
  <2>2. ListInv' /\ List' = List /\ UnderWay' = UnderWay
    BY <2>1, ListStutters
  <2>3. IsWork
    BY <2>1, <2>2 DEF IsWork, HeapKept
  <2> QED
    BY <2>2, <2>3, WorkKeepsScan
<1> QED
  BY <1>1, <1>2, <1>3, <1>4, <1>5 DEF Next, User, Finished

\* No search is under way at first.
LEMMA ScanInit ==
  ASSUME Init
  PROVE  ScanInv
<1>1. /\ hpc = "idle" /\ name = Empty /\ view = NilSlice /\ index = 0 /\ found = FALSE
      /\ past = NoHistory /\ scans = 0
  BY DEF Init
<1>2. HubTypes
  <2>1. NilSlice \in Slices /\ NilSlice.off = 0 /\ NilSlice.len = 0
    BY DEF NilSlice, Slices
  <2>2. NoHistory \in [always : BOOLEAN, ever : BOOLEAN, disturbed : BOOLEAN, outside : BOOLEAN]
    BY DEF NoHistory
  <2>3. index \in 0 .. view.len /\ scans \in 0 .. MaxScans
    BY <1>1, <2>1, BoundAssumption
  <2> QED
    BY <1>1, <2>1, <2>2, <2>3 DEF HubTypes, Scanning, Words
<1>3. ~Scanning /\ hpc # "answer"
  BY <1>1 DEF Scanning
<1> QED
  BY <1>2, <1>3 DEF ScanInv, Ahead, Disturbs, Absent, AddsNeverHide, FoundWasThere

\* Invariant: the list and the search stay in what ListInv and ScanInv allow.
THEOREM Invariant == Spec => [](ListInv /\ ScanInv)
<1>1. Init => ListInv /\ ScanInv
  BY ListInit, ScanInit
<1>2. ListInv /\ ScanInv /\ [Next]_vars => (ListInv /\ ScanInv)'
  BY Step
<1> QED
  BY <1>1, <1>2, PTL DEF Spec

(* TypeCorrect: in particular, while nobody holds c.mu the channel list is *)
(* a slice of one block, and none of its entries is the empty string of a  *)
(* block that was made and not filled.                                     *)
THEOREM TypeCorrect == Spec => []TypeOK
<1>1. ListInv /\ ScanInv => TypeOK
  <2>1. SUFFICES ASSUME ListInv, ScanInv PROVE TypeOK
    OBVIOUS
  <2>2. \A b \in DOMAIN heap : heap[b] \in Seq(Names \cup {Empty})
    BY <2>1, LenProperties DEF ListInv, Types, Words
  <2>3. mu = Nobody => IsSlice(heap, channel) /\ Empty \notin Set(Published)
    <3>1. SUFFICES ASSUME mu = Nobody PROVE Empty \notin Set(Published)
      BY <2>1 DEF ListInv, Whole
    <3>2. Published \in Seq(Names)
      BY <2>1, <3>1 DEF ListInv, Whole
    <3>3. \A k \in DOMAIN Published : Published[k] \in Names
      BY <3>2, LenProperties
    <3> QED
      BY <3>3, NameAssumption DEF Set
  <2> QED
    BY <2>1, <2>2, <2>3 DEF TypeOK, ListInv, ScanInv, Types, HubTypes
<1> QED
  BY <1>1, Invariant, PTL

(* AddsCorrect: a search that the hub makes without c.mu, word by word and *)
(* item by item, finds a name that was in the list all the while, unless   *)
(* a RemoveChannel was under way; for any number of goroutines and calls.  *)
THEOREM AddsCorrect == Spec => []AddsNeverHide
<1>1. ScanInv => AddsNeverHide
  BY DEF ScanInv
<1> QED
  BY <1>1, Invariant, PTL

(* FoundCorrect: such a search answers yes only for a name that was in the *)
(* list at some moment of the search, or when it read outside of a block.  *)
THEOREM FoundCorrect == Spec => []FoundWasThere
<1>1. ScanInv => FoundWasThere
  BY DEF ScanInv
<1> QED
  BY <1>1, Invariant, PTL

(* ListImplemented: AddChannel and RemoveChannel implement ChannelList.    *)
THEOREM ListImplemented == Spec => ImplementsChannelList
<1>1. Init => Promise!Init
  BY ListInit DEF Promise!Init
<1>2. ListInv /\ ScanInv /\ [Next]_vars => [Promise!Next]_List
  BY Step
<1> QED
  BY <1>1, <1>2, Invariant, PTL DEF Spec, ImplementsChannelList, Promise!Spec
=============================================================================
