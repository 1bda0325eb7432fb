--------------------------- MODULE StrArrayProofs ---------------------------
(***************************************************************************)
(* Proofs about StrArray.  Every method is shown to leave the blocks alone *)
(* that the array does not lie in, and to move the array to no block that  *)
(* was there before, but to that of a slice which the caller passes in; so *)
(* a slice that was handed out as a copy, which lies in a block of its     *)
(* own, keeps its contents until it is passed back.                        *)
(*                                                                         *)
(* For every method it is also shown what it leaves in the array and what  *)
(* it answers: as a sequence, or, where it has a loop, by an invariant of  *)
(* the loop that says where the items of the array stood at first.  So     *)
(* StrArray implements StrSequence.                                        *)
(***************************************************************************)
EXTENDS StrArray, SliceLemmas, FiniteSetTheorems

\* The result r of a method: what follows the heap h and the array a.
Sound(h, a, r) == Follows(Values, h, a, r.heap, r.array)

\* ... and in particular the array then holds vals.
Leaves(h, a, vals, r) == Sound(h, a, r) /\ Items(r.heap, r.array) = vals

\* The slices that r hands out lie in blocks that nobody else knows.
HandsCopies(h, r) ==
  \A k \in DOMAIN r.slices :
    /\ Lies(Values, r.heap, r.slices[k])
    /\ r.slices[k].block \notin DOMAIN h
    /\ r.slices[k].block = 0 \/ r.slices[k].block # r.array.block

Lists(h, a) == Lies(Values, h, a)

\* What r hands out are slices of its heap.
HandsSlices(r) == \A k \in DOMAIN r.slices : Lists(r.heap, r.slices[k])

\* The answer of a method that panics.
Panic == [ok |-> FALSE, vals |-> <<>>, lists |-> <<>>, panic |-> TRUE]

\* What the caller sees of r.
Answer(r) ==
  [ok |-> r.ok, vals |-> r.vals, lists |-> Contents(r.heap, r.slices), panic |-> r.panic]

\* The array then holds vals, and the caller is answered so.
Gives(h, a, r, vals, answer) == Leaves(h, a, vals, r) /\ Answer(r) = answer

-----------------------------------------------------------------------------
(* What the methods are made of.                                           *)

\* The array stays, and what it holds.
LEMMA Unchanged ==
  ASSUME NEW h, NEW a, Lists(h, a), NEW r, r.heap = h, r.array = a
  PROVE  Leaves(h, a, Items(h, a), r)
BY SelfFollows DEF Lists, Leaves, Sound

\* What follows is the result of a method that answers nothing.
LEMMA DoneLeaves ==
  ASSUME NEW h, NEW a, NEW vals, NEW new, Makes(Values, h, a, vals, new)
  PROVE  Leaves(h, a, vals, Done(new))
BY DEF Makes, Leaves, Sound, Done, Result

\* A copy that is handed out is a block of its own.
LEMMA HandsCopy ==
  ASSUME NEW h, NEW a, NEW g, NEW t, Lists(h, a), Follows(Values, h, a, g, t),
         NEW vals \in Seq(Values)
  PROVE  /\ Leaves(h, a, Items(g, t), HandCopy(g, t, vals))
         /\ HandsCopies(h, HandCopy(g, t, vals))
         /\ HandCopy(g, t, vals).ok
         /\ HandCopy(g, t, vals).vals = <<>> /\ ~HandCopy(g, t, vals).panic
         /\ Contents(HandCopy(g, t, vals).heap, HandCopy(g, t, vals).slices) = <<vals>>
<1>1. PICK new : new = Fresh(g, vals, Len(vals))
  OBVIOUS
<1>2. Makes(Values, g, t, vals, new) /\ Apart(g, new)
  <2>1. Empty \in Values /\ Lies(Values, g, t) /\ Len(vals) \in Nat /\ Len(vals) <= Len(vals)
    BY ValueAssumption, LenProperties DEF Follows
  <2>2. Makes(Values, g, t, vals, Fresh(g, vals, Len(vals))) /\ Apart(g, Fresh(g, vals, Len(vals)))
    BY <2>1, FreshFollows
  <2> QED
    BY <1>1, <2>2
<1>3. PICK r : r = HandCopy(g, t, vals)
  OBVIOUS
<1>4. /\ r.heap = new.heap /\ r.array = t /\ r.slices = <<new.slice>>
      /\ r.ok /\ r.vals = <<>> /\ ~r.panic
  BY <1>1, <1>3 DEF HandCopy, Hand, Result
<1>5. Lies(Values, g, t) /\ Lies(Values, h, a) /\ Lies(Values, new.heap, new.slice)
  BY <1>2 DEF Follows, Lists, Makes
<1>6. /\ g \in Seq(Seq(Values)) /\ t \in Slices /\ IsSlice(g, t)
      /\ \A b \in DOMAIN g : b # 0
  BY <1>5, LenProperties DEF Lies
<1>7. \A b \in DOMAIN g : b \in DOMAIN new.heap /\ new.heap[b] = g[b]
  BY <1>2, <1>6 DEF Apart, Keeps
<1>8. Lies(Values, new.heap, t)
  BY <1>5, <1>6, <1>7 DEF Lies, IsSlice
<1>9. Keeps(h, new.heap, a.block) /\ StaysIn(h, a, t)
  BY <1>7 DEF Follows, Keeps
<1>10. Items(new.heap, t) = Items(g, t)
  <2>1. CASE t.len = 0
    BY <2>1 DEF Items
  <2>2. CASE t.len # 0
    <3>1. t.block \in DOMAIN g
      BY <1>6, <2>2 DEF IsSlice, NilSlice
    <3> QED
      BY <1>7, <3>1 DEF Items
  <2> QED
    BY <2>1, <2>2
<1>11. Leaves(h, a, Items(g, t), r)
  BY <1>4, <1>8, <1>9, <1>10 DEF Leaves, Sound, Follows
<1>12. HandsCopies(h, r)
  <2>1. new.slice.block \notin DOMAIN h
    BY <1>2 DEF Apart, Follows, Keeps
  <2>2. new.slice.block = 0 \/ new.slice.block # t.block
    BY <1>2, <1>6 DEF Apart, IsSlice, NilSlice
  <2> QED
    BY <1>4, <1>5, <2>1, <2>2 DEF HandsCopies
<1>13. Contents(r.heap, r.slices) = <<vals>>
  <2>1. Items(new.heap, new.slice) = vals
    BY <1>2 DEF Makes
  <2> QED
    BY <1>4, <2>1 DEF Contents
<1> QED
  BY <1>3, <1>4, <1>11, <1>12, <1>13

\* Items written over the first ones.
LEMMA RewrittenLeaves ==
  ASSUME NEW h, NEW a, Lists(h, a), NEW vals \in Seq(Values), Len(vals) <= a.len
  PROVE  Leaves(h, a, [k \in 1 .. a.len |-> IF k \in 1 .. Len(vals) THEN vals[k]
                                            ELSE Items(h, a)[k]], Rewritten(h, a, vals))
<1>1. /\ a.len \in Nat /\ Len(vals) \in Nat /\ Capacity(h, a) \in Nat /\ a.len <= Capacity(h, a)
  BY ItemsOfSlice, LenProperties DEF Lists, Lies
<1>2. PICK g : g = Written(h, a, 0, vals)
  OBVIOUS
<1>3. /\ Follows(Values, h, a, g, a)
      /\ \A k \in 1 .. a.len :
           Items(g, a)[k] = IF k - 0 \in 1 .. Len(vals) THEN vals[k - 0] ELSE Items(h, a)[k]
  <2>1. 0 \in Nat /\ 0 + Len(vals) <= Capacity(h, a)
    BY <1>1
  <2> QED
    BY <1>2, <2>1, WrittenFollows DEF Lists
<1>4. Items(g, a) = [k \in 1 .. a.len |-> Items(g, a)[k]]
  BY DEF Items
<1>5. \A k \in 1 .. a.len : k - 0 = k
  BY <1>1
<1>6. Items(g, a) = [k \in 1 .. a.len |-> IF k \in 1 .. Len(vals) THEN vals[k]
                                          ELSE Items(h, a)[k]]
  BY <1>3, <1>4, <1>5
<1>7. Rewritten(h, a, vals).heap = g /\ Rewritten(h, a, vals).array = a
  BY <1>2 DEF Rewritten, Done, Result
<1> QED
  BY <1>3, <1>6, <1>7 DEF Leaves, Sound

\* All items written anew.
LEMMA AllRewritten ==
  ASSUME NEW h, NEW a, Lists(h, a), NEW vals \in Seq(Values), Len(vals) = a.len
  PROVE  Leaves(h, a, vals, Rewritten(h, a, vals))
<1>1. a.len \in Nat /\ vals = [k \in 1 .. a.len |-> vals[k]]
  BY LenProperties
<1>2. [k \in 1 .. a.len |-> IF k \in 1 .. Len(vals) THEN vals[k] ELSE Items(h, a)[k]] = vals
  BY <1>1
<1> QED
  BY <1>1, <1>2, RewrittenLeaves

\* A part of the array.
LEMMA CutOf ==
  ASSUME NEW h, NEW a, Lists(h, a), NEW i \in Nat, NEW j \in Nat, i <= j, j <= a.len
  PROVE  /\ Follows(Values, h, a, h, Cut(a, i, j))
         /\ Items(h, Cut(a, i, j)) = SubSeq(Items(h, a), i + 1, j)
         /\ Cut(a, i, j).len = j - i
<1>1. /\ Lies(Values, h, a) /\ Capacity(h, a) \in Nat /\ a.len <= Capacity(h, a)
      /\ a.len \in Nat
  BY ItemsOfSlice DEF Lists, Lies
<1>2. j <= Capacity(h, a)
  BY <1>1
<1>3. /\ Follows(Values, h, a, h, Cut(a, i, j))
      /\ Cut(a, i, j).len = j - i /\ Cut(a, i, j).block = a.block
      /\ Cut(a, i, j).off = a.off + i
      /\ j <= a.len => Items(h, Cut(a, i, j)) = SubSeq(Items(h, a), i + 1, j)
  <2>1. Lies(Values, h, a) /\ i <= j
    BY <1>1
  <2> QED
    BY <1>2, <2>1, CutFollows
<1> QED
  BY <1>3

\* append to what the array has become.
LEMMA AppendedOf ==
  ASSUME NEW h, NEW a, Lists(h, a), NEW g, NEW t, Follows(Values, h, a, g, t),
         NEW vals \in Seq(Values)
  PROVE  Makes(Values, h, a, Items(g, t) \o vals, Appended(g, t, vals))
<1>1. Empty \in Values /\ Lies(Values, g, t) /\ Lies(Values, h, a)
  BY ValueAssumption DEF Follows, Lists
<1>2. Makes(Values, g, t, Items(g, t) \o vals, Appended(g, t, vals))
  BY <1>1, AppendedFollows
<1>3. Follows(Values, h, a, Appended(g, t, vals).heap, Appended(g, t, vals).slice)
  BY <1>1, <1>2, Transitive DEF Makes
<1> QED
  BY <1>2, <1>3 DEF Makes

\* make and copy.
LEMMA FreshOf ==
  ASSUME NEW h, NEW a, Lists(h, a), NEW vals \in Seq(Values), NEW n \in Nat, Len(vals) <= n
  PROVE  Makes(Values, h, a, vals, Fresh(h, vals, n)) /\ Apart(h, Fresh(h, vals, n))
<1>1. Empty \in Values /\ Lies(Values, h, a)
  BY ValueAssumption DEF Lists
<1> QED
  BY <1>1, FreshFollows

\* The length of what was made.
LEMMA LengthMade ==
  ASSUME NEW h, NEW a, NEW s \in Seq(Values), NEW t \in Seq(Values), NEW new,
         Makes(Values, h, a, s \o t, new)
  PROVE  new.slice.len = Len(s) + Len(t)
<1>1. Len(s \o t) = Len(s) + Len(t)
  BY ConcatProperties
<1> QED
  BY <1>1 DEF Makes

\* doRemoveWithoutLock in the middle: the item at i goes, those behind it move up.
LEMMA CloseUpMakes ==
  ASSUME NEW h, NEW a, Lists(h, a), NEW i \in Nat, i < a.len
  PROVE  /\ Makes(Values, h, a, SubSeq(Items(h, a), 1, i)
                                  \o SubSeq(Items(h, a), i + 2, a.len), CloseUp(h, a, i))
         /\ CloseUp(h, a, i).slice.len = a.len - 1
<1>1. a.len \in Nat
  BY ItemsOfSlice DEF Lists, Lies
<1>2. PICK m \in Nat, n \in Nat : m = i + 1 /\ n = a.len
  BY <1>1
<1>3. PICK t : t = Cut(a, 0, i)
  OBVIOUS
<1>4. /\ Follows(Values, h, a, h, t) /\ t.len = i - 0
      /\ Items(h, t) = SubSeq(Items(h, a), 0 + 1, i)
  <2>1. 0 \in Nat /\ 0 <= i /\ i <= a.len
    BY <1>1
  <2>2. /\ Follows(Values, h, a, h, Cut(a, 0, i))
        /\ Items(h, Cut(a, 0, i)) = SubSeq(Items(h, a), 0 + 1, i)
        /\ Cut(a, 0, i).len = i - 0
    BY <2>1, CutOf, Zenon
  <2> QED
    BY <1>3, <2>2
<1>5. PICK u : u = Cut(a, m, n)
  OBVIOUS
<1>6. /\ Follows(Values, h, a, h, u) /\ u.len = n - m
      /\ Items(h, u) = SubSeq(Items(h, a), m + 1, n)
  <2>1. m <= n /\ n <= a.len
    BY <1>1, <1>2
  <2> QED
    BY <1>5, <2>1, CutOf
<1>7. PICK front \in Seq(Values), rear \in Seq(Values) :
        /\ front = Items(h, t) /\ Len(front) = t.len
        /\ rear = Items(h, u) /\ Len(rear) = u.len
  BY <1>4, <1>6, ItemsOfSlice DEF Follows, Lies
<1>8. PICK new : new = Appended(h, t, rear)
  OBVIOUS
<1>9. Makes(Values, h, a, front \o rear, new)
  BY <1>4, <1>7, <1>8, AppendedOf
<1>10. new.slice.len = Len(front) + Len(rear)
  BY <1>9, LengthMade
<1>11. new = CloseUp(h, a, i)
  BY <1>2, <1>3, <1>5, <1>7, <1>8 DEF CloseUp
<1>12. 0 + 1 = 1 /\ m + 1 = i + 2 /\ t.len + u.len = a.len - 1
  <2>1. t.len = i /\ u.len = n - (i + 1) /\ a.len = n
    BY <1>2, <1>4, <1>6
  <2>2. i + (n - (i + 1)) = n - 1
    OBVIOUS
  <2> QED
    BY <1>2, <2>1, <2>2
<1> QED
  BY <1>2, <1>4, <1>6, <1>7, <1>9, <1>10, <1>11, <1>12
-----------------------------------------------------------------------------
(* The forms of results.                                                   *)

\* An empty list of slices has no contents.
LEMMA NoContents ==
  ASSUME NEW h
  PROVE  Contents(h, <<>>) = <<>>
BY DEF Contents

\* A method that finds nothing.
LEMMA FailedGives ==
  ASSUME NEW h, NEW a, Lists(h, a)
  PROVE  Gives(h, a, Failed(h, a), Items(h, a), Promise!Failure)
<1>1. Leaves(h, a, Items(h, a), Failed(h, a))
  BY Unchanged DEF Failed, Result
<1>2. Answer(Failed(h, a)) = Promise!Failure
  BY NoContents DEF Answer, Failed, Result, Promise!Failure, Promise!Reply
<1> QED
  BY <1>1, <1>2 DEF Gives

\* A method that panics.
LEMMA PanickedGives ==
  ASSUME NEW h, NEW a, Lists(h, a)
  PROVE  Gives(h, a, Panicked(h, a), Items(h, a), Panic)
<1>1. PICK r : r = Panicked(h, a)
  OBVIOUS
<1>2. r.heap = h /\ r.array = a /\ r.ok = FALSE /\ r.vals = <<>> /\ r.slices = <<>> /\ r.panic = TRUE
  BY <1>1 DEF Panicked, Failed, Result
<1>3. Leaves(h, a, Items(h, a), r)
  BY <1>2, Unchanged
<1>4. Answer(r) = Panic
  BY <1>2, NoContents DEF Answer, Panic
<1> QED
  BY <1>1, <1>3, <1>4 DEF Gives

\* A method that tells an item.
LEMMA TellGives ==
  ASSUME NEW h, NEW a, Lists(h, a), NEW v
  PROVE  Gives(h, a, Tell(h, a, v), Items(h, a), Promise!Value(v))
<1>1. Leaves(h, a, Items(h, a), Tell(h, a, v))
  BY Unchanged DEF Tell, Result
<1>2. Answer(Tell(h, a, v)) = Promise!Value(v)
  BY NoContents DEF Answer, Tell, Result, Promise!Value, Promise!Reply
<1> QED
  BY <1>1, <1>2 DEF Gives

\* A method that makes vals of the array.
LEMMA DoneGives ==
  ASSUME NEW h, NEW a, NEW vals, NEW new, Makes(Values, h, a, vals, new)
  PROVE  Gives(h, a, Done(new), vals, Promise!Success)
<1>1. Answer(Done(new)) = Promise!Success
  BY NoContents DEF Answer, Done, Result, Promise!Success, Promise!Reply
<1> QED
  BY <1>1, DoneLeaves DEF Gives

\* The same, of items that are written over those of the array.
LEMMA RewrittenGives ==
  ASSUME NEW h, NEW a, NEW vals, NEW new, Leaves(h, a, new, Rewritten(h, a, vals))
  PROVE  Gives(h, a, Rewritten(h, a, vals), new, Promise!Success)
<1>1. Answer(Rewritten(h, a, vals)) = Promise!Success
  BY NoContents DEF Answer, Rewritten, Done, Result, Promise!Success, Promise!Reply
<1> QED
  BY <1>1 DEF Gives

\* A method that hands out a copy.
LEMMA CopyGives ==
  ASSUME NEW h, NEW a, Lists(h, a), NEW vals \in Seq(Values)
  PROVE  /\ Gives(h, a, HandCopy(h, a, vals), Items(h, a), Promise!List(vals))
         /\ HandsCopies(h, HandCopy(h, a, vals))
<1>1. Follows(Values, h, a, h, a)
  BY SelfFollows DEF Lists
<1>2. PICK r : r = HandCopy(h, a, vals)
  OBVIOUS
<1>3. /\ Leaves(h, a, Items(h, a), r) /\ HandsCopies(h, r) /\ r.ok = TRUE
      /\ r.vals = <<>> /\ r.panic = FALSE /\ Contents(r.heap, r.slices) = <<vals>>
  <2>1. r.ok \in BOOLEAN /\ r.panic \in BOOLEAN
    BY <1>2 DEF HandCopy, Hand, Result
  <2> QED
    BY <1>1, <1>2, <2>1, HandsCopy
<1>4. Answer(r) = Promise!List(vals)
  BY <1>3 DEF Answer, Promise!List, Promise!Reply
<1> QED
  BY <1>2, <1>3, <1>4 DEF Gives

\* A method that hands out a part of the array and cuts the array.
LEMMA HandGives ==
  ASSUME NEW h, NEW a, NEW t, Follows(Values, h, a, h, t), NEW s
  PROVE  Gives(h, a, Hand(h, t, s), Items(h, t), Promise!List(Items(h, s)))
<1>1. Answer(Hand(h, t, s)) = Promise!List(Items(h, s))
  <2>1. Contents(h, <<s>>) = <<Items(h, s)>>
    BY DEF Contents
  <2> QED
    BY <2>1 DEF Answer, Hand, Result, Promise!List, Promise!Reply
<1> QED
  BY <1>1 DEF Gives, Leaves, Sound, Hand, Result
\* A method that tells an item and cuts it off.
LEMMA PoppedGives ==
  ASSUME NEW h, NEW a, NEW t, Follows(Values, h, a, h, t), NEW v
  PROVE  Gives(h, a, Result(h, t, TRUE, <<v>>, <<>>), Items(h, t), Promise!Value(v))
<1>1. Answer(Result(h, t, TRUE, <<v>>, <<>>)) = Promise!Value(v)
  BY NoContents DEF Answer, Result, Promise!Value, Promise!Reply
<1> QED
  BY <1>1 DEF Gives, Leaves, Sound, Result

-----------------------------------------------------------------------------
(* The methods that write over items or take the items of the caller.      *)

\* The items of the array, by their number.
LEMMA ItemsOf ==
  ASSUME NEW h, NEW a, Lists(h, a)
  PROVE  /\ Items(h, a) \in Seq(Values) /\ Len(Items(h, a)) = a.len /\ a.len \in Nat
         /\ DOMAIN Items(h, a) = 1 .. a.len
         /\ \A k \in 1 .. a.len : Items(h, a)[k] \in Values
         /\ \A k \in 1 .. a.len : At(h, a, k - 1) = Items(h, a)[k]
<1>1. Items(h, a) \in Seq(Values) /\ Len(Items(h, a)) = a.len /\ a.len \in Nat
  BY ItemsOfSlice DEF Lists, Lies
<1>2. DOMAIN Items(h, a) = 1 .. a.len /\ \A k \in 1 .. a.len : Items(h, a)[k] \in Values
  <2>1. PICK l \in Seq(Values) : l = Items(h, a)
    BY <1>1
  <2> QED
    BY <1>1, <2>1, LenProperties, ElementOfSeq
<1>3. ASSUME NEW k \in 1 .. a.len PROVE At(h, a, k - 1) = Items(h, a)[k]
  <2>1. PICK i \in Nat : i = k - 1 /\ i < a.len /\ i + 1 = k
    BY <1>1
  <2>2. At(h, a, i) = Items(h, a)[i + 1]
    BY <2>1, AtItem DEF Lists
  <2> QED
    BY <2>1, <2>2
<1> QED
  BY <1>1, <1>2, <1>3

\* The smaller of two numbers.
LEMMA SmallerOf ==
  ASSUME NEW m \in Int, NEW n \in Int
  PROVE  /\ Smaller(m, n) \in Int /\ Smaller(m, n) <= m /\ Smaller(m, n) <= n
         /\ Smaller(m, n) = m \/ Smaller(m, n) = n
         /\ 0 <= m /\ 0 <= n => Smaller(m, n) \in Nat
BY DEF Smaller

LEMMA GetGives ==
  ASSUME NEW h, NEW a, Lists(h, a), NEW i \in Int
  PROVE  /\ i \in 0 .. a.len - 1 =>
              Gives(h, a, Get(h, a, i), Items(h, a), Promise!Value(Items(h, a)[i + 1]))
         /\ i \notin 0 .. a.len - 1 =>
              Gives(h, a, Get(h, a, i), Items(h, a), Promise!Failure)
<1>1. a.len \in Nat
  BY ItemsOf
<1>2. CASE i \in 0 .. a.len - 1
  <2>1. i \in Nat /\ i < a.len /\ InRange(a, i)
    BY <1>1, <1>2 DEF InRange
  <2>2. At(h, a, i) = Items(h, a)[i + 1]
    BY <2>1, AtItem DEF Lists
  <2> QED
    BY <1>2, <2>1, <2>2, TellGives DEF Get
<1>3. CASE i \notin 0 .. a.len - 1
  <2>1. ~InRange(a, i)
    BY <1>1, <1>3 DEF InRange
  <2> QED
    BY <1>3, <2>1, FailedGives DEF Get
<1> QED
  BY <1>2, <1>3

LEMMA SetGives ==
  ASSUME NEW h, NEW a, Lists(h, a), NEW i \in Int, NEW v \in Values
  PROVE  /\ i \in 0 .. a.len - 1 =>
              Gives(h, a, Set(h, a, i, v), [Items(h, a) EXCEPT ![i + 1] = v], Promise!Success)
         /\ i \notin 0 .. a.len - 1 =>
              Gives(h, a, Set(h, a, i, v), Items(h, a), Promise!Failure)
<1>1. a.len \in Nat /\ DOMAIN Items(h, a) = 1 .. a.len /\ Capacity(h, a) \in Nat
      /\ a.len <= Capacity(h, a)
  BY ItemsOf, ItemsOfSlice DEF Lists, Lies
<1>2. CASE i \in 0 .. a.len - 1
  <2>1. i \in Nat /\ i < a.len /\ InRange(a, i)
    BY <1>1, <1>2 DEF InRange
  <2>2. PICK w \in Seq(Values) : w = <<v>> /\ Len(w) = 1 /\ w[1] = v
    BY OneItem
  <2>3. PICK g : g = Written(h, a, i, w)
    OBVIOUS
  <2>4. /\ Follows(Values, h, a, g, a)
        /\ \A k \in 1 .. a.len : Items(g, a)[k] =
             IF k - i \in 1 .. Len(w) THEN w[k - i] ELSE Items(h, a)[k]
    <3>1. i + Len(w) <= Capacity(h, a)
      BY <1>1, <2>1, <2>2
    <3> QED
      BY <2>1, <2>3, <3>1, WrittenFollows DEF Lists
  <2>5. \A k \in 1 .. a.len : Items(g, a)[k] = IF k = i + 1 THEN v ELSE Items(h, a)[k]
    BY <2>1, <2>2, <2>4
  <2>6. Items(g, a) = [Items(h, a) EXCEPT ![i + 1] = v]
    <3>1. Items(g, a) = [k \in 1 .. a.len |-> Items(g, a)[k]]
      BY DEF Items
    <3> QED
      BY <1>1, <2>5, <3>1
  <2>7. PICK new : new = [heap |-> g, slice |-> a]
    OBVIOUS
  <2>8. Makes(Values, h, a, [Items(h, a) EXCEPT ![i + 1] = v], new)
    <3>1. a.len = Len(Items(g, a))
      BY <2>4, ItemsOf DEF Follows, Lists
    <3> QED
      BY <2>4, <2>6, <2>7, <3>1 DEF Makes
  <2>9. Set(h, a, i, v) = Done(new)
    BY <2>1, <2>2, <2>3, <2>7 DEF Set
  <2> QED
    BY <1>2, <2>8, <2>9, DoneGives
<1>3. CASE i \notin 0 .. a.len - 1
  <2>1. ~InRange(a, i)
    BY <1>1, <1>3 DEF InRange
  <2> QED
    BY <1>3, <2>1, FailedGives DEF Set
<1> QED
  BY <1>2, <1>3

\* The array becomes the slice s of the caller.
LEMMA SetArrayGives ==
  ASSUME NEW h, NEW s, Lists(h, s)
  PROVE  Gives(h, s, SetArray(h, s), Items(h, s), Promise!Success)
<1>1. PICK new : new = [heap |-> h, slice |-> s]
  OBVIOUS
<1>2. Makes(Values, h, s, Items(h, s), new)
  BY <1>1, SelfFollows, ItemsOf DEF Makes, Lists
<1>3. SetArray(h, s) = Done(new)
  BY <1>1 DEF SetArray
<1> QED
  BY <1>2, <1>3, DoneGives

LEMMA ReplaceGives ==
  ASSUME NEW h, NEW a, Lists(h, a), NEW vals \in Seq(Values)
  PROVE  Gives(h, a, Replace(h, a, vals),
               [k \in DOMAIN Items(h, a) |-> IF k \in DOMAIN vals THEN vals[k]
                                             ELSE Items(h, a)[k]], Promise!Success)
<1>1. /\ a.len \in Nat /\ DOMAIN Items(h, a) = 1 .. a.len
      /\ Len(vals) \in Nat /\ DOMAIN vals = 1 .. Len(vals)
  BY ItemsOf, LenProperties
<1>2. PICK m \in Nat : m = Smaller(Len(vals), a.len) /\ m <= Len(vals) /\ m <= a.len
                       /\ (m = Len(vals) \/ m = a.len)
  <2>1. PICK k \in Nat, n \in Nat : k = Len(vals) /\ n = a.len
    BY <1>1
  <2>2. PICK m : m = Smaller(k, n)
    OBVIOUS
  <2>3. m \in Nat /\ m <= k /\ m <= n /\ (m = k \/ m = n)
    <3>1. k \in Int /\ n \in Int /\ 0 <= k /\ 0 <= n
      OBVIOUS
    <3> QED
      BY <2>2, <3>1, SmallerOf
  <2> QED
    BY <2>1, <2>2, <2>3
<1>3. PICK p \in Seq(Values) : /\ p = SubSeq(vals, 1, m) /\ Len(p) = m
                               /\ \A k \in 1 .. m : p[k] = vals[k]
  <2>1. /\ SubSeq(vals, 1, m) \in Seq(Values) /\ Len(SubSeq(vals, 1, m)) = m
        /\ \A k \in 1 .. m : SubSeq(vals, 1, m)[k] = vals[k]
    BY <1>2, FrontOf
  <2> QED
    BY <2>1
<1>4. PICK new : new = [k \in 1 .. a.len |-> IF k \in 1 .. Len(p) THEN p[k] ELSE Items(h, a)[k]]
  OBVIOUS
<1>5. Leaves(h, a, new, Rewritten(h, a, p))
  BY <1>2, <1>3, <1>4, RewrittenLeaves
<1>6. \A k \in 1 .. a.len : k \in 1 .. m <=> k \in 1 .. Len(vals)
  BY <1>1, <1>2
<1>7. new = [k \in DOMAIN Items(h, a) |-> IF k \in DOMAIN vals THEN vals[k] ELSE Items(h, a)[k]]
  BY <1>1, <1>3, <1>4, <1>6
<1>8. Replace(h, a, vals) = Rewritten(h, a, p)
  BY <1>2, <1>3 DEF Replace
<1>9. Gives(h, a, Replace(h, a, vals), new, Promise!Success)
  BY <1>5, <1>8, RewrittenGives
<1> QED
  BY <1>7, <1>9

LEMMA ReverseGives ==
  ASSUME NEW h, NEW a, Lists(h, a)
  PROVE  Gives(h, a, Reverse(h, a), Promise!Ext!Reverse(Items(h, a)), Promise!Success)
<1>1. /\ a.len \in Nat /\ Len(Items(h, a)) = a.len
      /\ \A k \in 1 .. a.len : Items(h, a)[k] \in Values
      /\ \A k \in 1 .. a.len : At(h, a, k - 1) = Items(h, a)[k]
  BY ItemsOf
<1>2. \A k \in 1 .. a.len : a.len - k = a.len - k + 1 - 1 /\ a.len - k + 1 \in 1 .. a.len
  BY <1>1
<1>3. PICK p : p = [k \in 1 .. a.len |-> At(h, a, a.len - k)]
  OBVIOUS
<1>4. \A k \in 1 .. a.len : At(h, a, a.len - k) = Items(h, a)[a.len - k + 1]
  BY <1>1, <1>2
<1>5. p \in Seq(Values) /\ Len(p) = a.len
  <2>1. p \in [1 .. a.len -> Values]
    BY <1>1, <1>2, <1>3, <1>4
  <2> QED
    BY <1>1, <2>1, FunctionIsSeq
<1>6. p = Promise!Ext!Reverse(Items(h, a))
  BY <1>1, <1>3, <1>4 DEF Promise!Ext!Reverse
<1>7. Leaves(h, a, p, Rewritten(h, a, p)) /\ Reverse(h, a) = Rewritten(h, a, p)
  BY <1>3, <1>5, AllRewritten DEF Reverse
<1> QED
  BY <1>6, <1>7, RewrittenGives

LEMMA WalkGives ==
  ASSUME NEW h, NEW a, Lists(h, a), NEW f \in [Values -> Values]
  PROVE  Gives(h, a, Walk(h, a, f), [k \in DOMAIN Items(h, a) |-> f[Items(h, a)[k]]],
               Promise!Success)
<1>1. /\ a.len \in Nat /\ DOMAIN Items(h, a) = 1 .. a.len
      /\ \A k \in 1 .. a.len : Items(h, a)[k] \in Values
      /\ \A k \in 1 .. a.len : At(h, a, k - 1) = Items(h, a)[k]
  BY ItemsOf
<1>2. PICK p : p = [k \in 1 .. a.len |-> f[At(h, a, k - 1)]]
  OBVIOUS
<1>3. p \in Seq(Values) /\ Len(p) = a.len
  <2>1. p \in [1 .. a.len -> Values]
    BY <1>1, <1>2
  <2> QED
    BY <1>1, <2>1, FunctionIsSeq
<1>4. p = [k \in DOMAIN Items(h, a) |-> f[Items(h, a)[k]]]
  BY <1>1, <1>2
<1>5. Leaves(h, a, p, Rewritten(h, a, p)) /\ Walk(h, a, f) = Rewritten(h, a, p)
  BY <1>2, <1>3, AllRewritten DEF Walk
<1> QED
  BY <1>4, <1>5, RewrittenGives
-----------------------------------------------------------------------------
(* The methods that make the array longer.                                 *)

\* The rear is safe in a copy when the first append may write over it.
LEMMA InsertedGives ==
  ASSUME NEW h, NEW a, Lists(h, a), NEW i \in Nat, i <= a.len, NEW v \in Values
  PROVE  Gives(h, a, Inserted(h, a, i, v),
               SubSeq(Items(h, a), 1, i) \o <<v>> \o SubSeq(Items(h, a), i + 1, a.len),
               Promise!Success)
<1>1. a.len \in Nat /\ 0 + 1 = 1
  BY ItemsOf
<1>2. PICK t : t = Cut(a, 0, i)
  OBVIOUS
<1>3. Follows(Values, h, a, h, t) /\ Items(h, t) = SubSeq(Items(h, a), 0 + 1, i)
  <2>1. 0 \in Nat /\ 0 <= i
    OBVIOUS
  <2>2. /\ Follows(Values, h, a, h, Cut(a, 0, i))
        /\ Items(h, Cut(a, 0, i)) = SubSeq(Items(h, a), 0 + 1, i)
        /\ Cut(a, 0, i).len = i - 0
    BY <2>1, CutOf, Zenon
  <2> QED
    BY <1>2, <2>2
<1>4. PICK u : u = Cut(a, i, a.len)
  OBVIOUS
<1>5. Follows(Values, h, a, h, u) /\ Items(h, u) = SubSeq(Items(h, a), i + 1, a.len)
  <2>1. PICK n \in Nat : n = a.len
    BY <1>1
  <2>2. /\ Follows(Values, h, a, h, Cut(a, i, n))
        /\ Items(h, Cut(a, i, n)) = SubSeq(Items(h, a), i + 1, n)
    <3>1. i <= n /\ n <= a.len
      BY <2>1
    <3> QED
      BY <3>1, CutOf
  <2> QED
    BY <1>4, <2>1, <2>2
<1>6. PICK rear \in Seq(Values) : rear = Items(h, u)
  BY <1>5, ItemsOf DEF Follows, Lists
<1>7. PICK w \in Seq(Values) : w = <<v>>
  BY OneItem
<1>8. PICK front : front = Appended(h, t, w)
  OBVIOUS
<1>9. Makes(Values, h, a, Items(h, t) \o w, front)
  BY <1>3, <1>8, AppendedOf
<1>10. PICK new : new = Appended(front.heap, front.slice, rear)
  OBVIOUS
<1>11. Makes(Values, h, a, Items(front.heap, front.slice) \o rear, new)
  <2>1. Follows(Values, h, a, front.heap, front.slice)
    BY <1>9 DEF Makes
  <2>2. Makes(Values, h, a, Items(front.heap, front.slice) \o rear,
              Appended(front.heap, front.slice, rear))
    BY <2>1, AppendedOf
  <2> QED
    BY <1>10, <2>2
<1>12. Items(front.heap, front.slice) = Items(h, t) \o w
  BY <1>9 DEF Makes
<1>13. Inserted(h, a, i, v) = Done(new)
  BY <1>2, <1>4, <1>6, <1>7, <1>8, <1>10 DEF Inserted
<1>14. Gives(h, a, Done(new), (Items(h, t) \o w) \o rear, Promise!Success)
  BY <1>11, <1>12, DoneGives
<1> QED
  BY <1>1, <1>3, <1>5, <1>6, <1>7, <1>13, <1>14

LEMMA InsertBeforeGives ==
  ASSUME NEW h, NEW a, Lists(h, a), NEW i \in Int, NEW v \in Values
  PROVE  /\ i \in 0 .. a.len - 1 =>
              Gives(h, a, InsertBefore(h, a, i, v),
                    SubSeq(Items(h, a), 1, i) \o <<v>> \o SubSeq(Items(h, a), i + 1, a.len),
                    Promise!Success)
         /\ i \notin 0 .. a.len - 1 =>
              Gives(h, a, InsertBefore(h, a, i, v), Items(h, a), Promise!Failure)
<1>1. a.len \in Nat
  BY ItemsOf
<1>2. i \in 0 .. a.len - 1 => i \in Nat /\ i <= a.len /\ InRange(a, i)
  BY <1>1 DEF InRange
<1>3. i \notin 0 .. a.len - 1 => ~InRange(a, i)
  BY <1>1 DEF InRange
<1> QED
  BY <1>2, <1>3, InsertedGives, FailedGives DEF InsertBefore

LEMMA InsertAfterGives ==
  ASSUME NEW h, NEW a, Lists(h, a), NEW i \in Int, NEW v \in Values
  PROVE  /\ i \in 0 .. a.len - 1 =>
              Gives(h, a, InsertAfter(h, a, i, v),
                    SubSeq(Items(h, a), 1, i + 1) \o <<v>>
                      \o SubSeq(Items(h, a), i + 2, a.len), Promise!Success)
         /\ i \notin 0 .. a.len - 1 =>
              Gives(h, a, InsertAfter(h, a, i, v), Items(h, a), Promise!Failure)
<1>1. a.len \in Nat
  BY ItemsOf
<1>2. CASE i \in 0 .. a.len - 1
  <2>1. PICK j \in Nat : j = i + 1 /\ j <= a.len /\ j + 1 = i + 2 /\ InRange(a, i)
    BY <1>1, <1>2 DEF InRange
  <2>2. Gives(h, a, Inserted(h, a, j, v),
              SubSeq(Items(h, a), 1, j) \o <<v>> \o SubSeq(Items(h, a), j + 1, a.len),
              Promise!Success)
    BY <2>1, InsertedGives
  <2>3. InsertAfter(h, a, i, v) = Inserted(h, a, j, v)
    BY <2>1 DEF InsertAfter
  <2> QED
    BY <1>2, <2>1, <2>2, <2>3
<1>3. CASE i \notin 0 .. a.len - 1
  <2>1. ~InRange(a, i)
    BY <1>1, <1>3 DEF InRange
  <2> QED
    BY <1>3, <2>1, FailedGives DEF InsertAfter
<1> QED
  BY <1>2, <1>3

\* The array is appended to a slice that was made.
LEMMA AppendedToFresh ==
  ASSUME NEW h, NEW a, Lists(h, a), NEW vals \in Seq(Values), NEW n \in Nat, Len(vals) <= n,
         NEW value, value = Fresh(h, vals, n)
  PROVE  Gives(h, a, Done(Appended(value.heap, value.slice, Items(h, a))),
               vals \o Items(h, a), Promise!Success)
<1>1. Makes(Values, h, a, vals, value)
  BY FreshOf
<1>2. PICK l \in Seq(Values) : l = Items(h, a)
  BY ItemsOf
<1>3. Follows(Values, h, a, value.heap, value.slice) /\ Items(value.heap, value.slice) = vals
  BY <1>1 DEF Makes
<1>4. PICK new : new = Appended(value.heap, value.slice, l)
  OBVIOUS
<1>5. Makes(Values, h, a, vals \o l, new)
  <2>1. Makes(Values, h, a, Items(value.heap, value.slice) \o l,
              Appended(value.heap, value.slice, l))
    BY <1>3, AppendedOf
  <2> QED
    BY <1>3, <1>4, <2>1
<1>6. Gives(h, a, Done(new), vals \o l, Promise!Success)
  BY <1>5, DoneGives
<1> QED
  BY <1>2, <1>4, <1>6

\* ... to the slice s of the caller: it may move to the block of that.
LEMMA PushLeftGives ==
  ASSUME NEW h, NEW a, Lists(h, a), NEW s, Lists(h, s)
  PROVE  Gives(h, s, PushLeft(h, a, s), Items(h, s) \o Items(h, a), Promise!Success)
<1>1. PICK l \in Seq(Values) : l = Items(h, a)
  BY ItemsOf
<1>2. Gives(h, s, Done(Appended(h, s, l)), Items(h, s) \o l, Promise!Success)
  <2>1. Follows(Values, h, s, h, s)
    BY SelfFollows DEF Lists
  <2>2. Makes(Values, h, s, Items(h, s) \o l, Appended(h, s, l))
    BY <2>1, AppendedOf
  <2> QED
    BY <2>2, DoneGives
<1> QED
  BY <1>1, <1>2 DEF PushLeft

\* append to the array.
LEMMA AppendGives ==
  ASSUME NEW h, NEW a, Lists(h, a), NEW vals \in Seq(Values)
  PROVE  Gives(h, a, Done(Appended(h, a, vals)), Items(h, a) \o vals, Promise!Success)
<1>1. Follows(Values, h, a, h, a)
  BY SelfFollows DEF Lists
<1>2. Makes(Values, h, a, Items(h, a) \o vals, Appended(h, a, vals))
  BY <1>1, AppendedOf
<1> QED
  BY <1>2, DoneGives

LEMMA PushRightGives ==
  ASSUME NEW h, NEW a, Lists(h, a), NEW vals \in Seq(Values)
  PROVE  Gives(h, a, PushRight(h, a, vals), Items(h, a) \o vals, Promise!Success)
BY AppendGives DEF PushRight

\* Pad: nothing, or n copies of v at one of the ends.
LEMMA PadGives ==
  ASSUME NEW h, NEW a, Lists(h, a), NEW size \in Int, NEW v \in Values,
         NEW n \in Int, n = (IF size < 0 THEN -size ELSE size) - a.len,
         NEW tmp, tmp = [k \in 1 .. n |-> v]
  PROVE  /\ size = 0 \/ n < 0 => Gives(h, a, Pad(h, a, size, v), Items(h, a), Promise!Success)
         /\ size > 0 /\ n >= 0 =>
              Gives(h, a, Pad(h, a, size, v), Items(h, a) \o tmp, Promise!Success)
         /\ size < 0 /\ n >= 0 =>
              Gives(h, a, Pad(h, a, size, v), tmp \o Items(h, a), Promise!Success)
<1>1. a.len \in Nat
  BY ItemsOf
<1>2. n >= 0 => n \in Nat /\ tmp \in Seq(Values) /\ Len(tmp) = n
  <2>1. SUFFICES ASSUME n \in Nat PROVE tmp \in Seq(Values) /\ Len(tmp) = n
    OBVIOUS
  <2>2. tmp \in [1 .. n -> Values]
    BY <2>1
  <2> QED
    BY <2>1, <2>2, FunctionIsSeq
<1>3. ASSUME size = 0 \/ n < 0
      PROVE  Gives(h, a, Pad(h, a, size, v), Items(h, a), Promise!Success)
  <2>1. PICK new : new = [heap |-> h, slice |-> a]
    OBVIOUS
  <2>2. Makes(Values, h, a, Items(h, a), new)
    BY <2>1, SelfFollows, ItemsOf DEF Makes, Lists
  <2>3. Pad(h, a, size, v) = Done(new)
    BY <1>3, <2>1 DEF Pad
  <2> QED
    BY <2>2, <2>3, DoneGives
<1>4. ASSUME size > 0, n >= 0
      PROVE  Gives(h, a, Pad(h, a, size, v), Items(h, a) \o tmp, Promise!Success)
  <2>1. Pad(h, a, size, v) = Done(Appended(h, a, tmp))
    BY <1>4 DEF Pad
  <2> QED
    BY <1>2, <1>4, <2>1, AppendGives
<1>5. ASSUME size < 0, n >= 0
      PROVE  Gives(h, a, Pad(h, a, size, v), tmp \o Items(h, a), Promise!Success)
  <2>1. PICK value : value = Fresh(h, tmp, n)
    OBVIOUS
  <2>2. Pad(h, a, size, v) = Done(Appended(value.heap, value.slice, Items(h, a)))
    BY <1>5, <2>1 DEF Pad
  <2> QED
    BY <1>2, <1>5, <2>1, <2>2, AppendedToFresh
<1> QED
  BY <1>3, <1>4, <1>5
-----------------------------------------------------------------------------
(* The methods that make the array shorter.                                *)

LEMMA RemoveGives ==
  ASSUME NEW h, NEW a, Lists(h, a), NEW i \in Int
  PROVE  /\ i \in 0 .. a.len - 1 =>
              /\ Gives(h, a, Remove(h, a, i),
                       SubSeq(Items(h, a), 1, i) \o SubSeq(Items(h, a), i + 2, a.len),
                       Promise!Value(Items(h, a)[i + 1]))
              /\ Remove(h, a, i).array.len = a.len - 1
              /\ Remove(h, a, i).vals = <<Items(h, a)[i + 1]>>
         /\ i \notin 0 .. a.len - 1 =>
              Gives(h, a, Remove(h, a, i), Items(h, a), Promise!Failure)
<1>1. PICK l \in Seq(Values), n \in Nat :
        /\ l = Items(h, a) /\ n = a.len /\ Len(l) = n
        /\ \A k \in 1 .. n : At(h, a, k - 1) = l[k]
  BY ItemsOf
<1>2. ASSUME i \in 0 .. n - 1
      PROVE  /\ Gives(h, a, Remove(h, a, i), SubSeq(l, 1, i) \o SubSeq(l, i + 2, n),
                      Promise!Value(l[i + 1]))
             /\ Remove(h, a, i).array.len = n - 1 /\ Remove(h, a, i).vals = <<l[i + 1]>>
  <2>1. i \in Nat /\ i < n /\ InRange(a, i)
    BY <1>1, <1>2 DEF InRange
  <2>2. At(h, a, i) = l[i + 1]
    BY <1>1, <2>1, AtItem DEF Lists
  <2>3. PICK rest : /\ Makes(Values, h, a, SubSeq(l, 1, i) \o SubSeq(l, i + 2, n), rest)
                    /\ rest.slice.len = n - 1
                    /\ Remove(h, a, i) = Result(rest.heap, rest.slice, TRUE, <<At(h, a, i)>>, <<>>)
    <3>1. CASE i = 0
      <4>1. PICK t : t = Cut(a, 1, n)
        OBVIOUS
      <4>2. Follows(Values, h, a, h, t) /\ Items(h, t) = SubSeq(l, 1 + 1, n) /\ t.len = n - 1
        <5>1. 1 \in Nat /\ 1 <= n /\ n <= a.len
          BY <1>1, <2>1, <3>1
        <5>2. /\ Follows(Values, h, a, h, Cut(a, 1, n)) /\ Cut(a, 1, n).len = n - 1
              /\ Items(h, Cut(a, 1, n)) = SubSeq(Items(h, a), 1 + 1, n)
          BY <5>1, CutOf
        <5> QED
          BY <1>1, <4>1, <5>2
      <4>3. PICK rest : rest = [heap |-> h, slice |-> t]
        OBVIOUS
      <4>4. PICK r \in Seq(Values) : r = SubSeq(l, i + 2, n) /\ Len(r) = n - 1
        <5>1. 2 \in Nat \ {0} /\ 2 <= n + 1 /\ n <= Len(l)
          BY <1>1, <2>1, <3>1
        <5>2. SubSeq(l, 2, n) \in Seq(Values) /\ Len(SubSeq(l, 2, n)) = n + 1 - 2
          BY <5>1, PartOf
        <5>3. n + 1 - 2 = n - 1 /\ i + 2 = 2
          BY <3>1
        <5> QED
          BY <5>2, <5>3
      <4>5. SubSeq(l, 1, i) = <<>>
        BY <1>1, <3>1, FrontOf, EmptySeq
      <4>6. <<>> \o r = r
        BY ConcatEmptySeq
      <4>7. Makes(Values, h, a, SubSeq(l, 1, i) \o r, rest)
        BY <3>1, <4>2, <4>3, <4>4, <4>5, <4>6 DEF Makes
      <4>8. Remove(h, a, i) = Result(rest.heap, rest.slice, TRUE, <<At(h, a, i)>>, <<>>)
        BY <1>1, <2>1, <3>1, <4>1, <4>3 DEF Remove
      <4> QED
        BY <4>2, <4>3, <4>4, <4>7, <4>8
    <3>2. CASE i # 0 /\ i = n - 1
      <4>1. PICK t : t = Cut(a, 0, i)
        OBVIOUS
      <4>2. Follows(Values, h, a, h, t) /\ Items(h, t) = SubSeq(l, 0 + 1, i) /\ t.len = i - 0
        <5>1. i \in Nat /\ 0 \in Nat /\ 0 <= i /\ i <= a.len
          BY <1>1, <2>1
        <5>2. /\ Follows(Values, h, a, h, Cut(a, 0, i))
              /\ Items(h, Cut(a, 0, i)) = SubSeq(Items(h, a), 0 + 1, i)
              /\ Cut(a, 0, i).len = i - 0
          BY <5>1, CutOf, Zenon
        <5> QED
          BY <1>1, <4>1, <5>2
      <4>3. PICK rest : rest = [heap |-> h, slice |-> t]
        OBVIOUS
      <4>4. PICK r \in Seq(Values) : r = SubSeq(l, 1, i) /\ Len(r) = n - 1
        <5>1. i <= Len(l) /\ i = n - 1
          BY <1>1, <2>1, <3>2
        <5>2. SubSeq(l, 1, i) \in Seq(Values) /\ Len(SubSeq(l, 1, i)) = i
          BY <2>1, <5>1, FrontOf
        <5> QED
          BY <5>1, <5>2
      <4>5. SubSeq(l, i + 2, n) = <<>>
        <5>1. PICK m \in Nat \ {0} : m = i + 2 /\ m <= n + 1 /\ n + 1 - m = 0
          BY <2>1, <3>2
        <5>2. SubSeq(l, m, n) \in Seq(Values) /\ Len(SubSeq(l, m, n)) = n + 1 - m
          BY <1>1, <5>1, PartOf
        <5> QED
          BY <5>1, <5>2, EmptySeq
      <4>6. r \o <<>> = r
        BY ConcatEmptySeq
      <4>7. Makes(Values, h, a, r \o SubSeq(l, i + 2, n), rest)
        BY <2>1, <3>2, <4>2, <4>3, <4>4, <4>5, <4>6 DEF Makes
      <4>8. Remove(h, a, i) = Result(rest.heap, rest.slice, TRUE, <<At(h, a, i)>>, <<>>)
        BY <1>1, <2>1, <3>2, <4>1, <4>3 DEF Remove
      <4>9. rest.slice.len = n - 1
        BY <2>1, <3>2, <4>2, <4>3
      <4> QED
        BY <4>4, <4>7, <4>8, <4>9
    <3>3. CASE i # 0 /\ i # n - 1
      <4>1. PICK rest : rest = CloseUp(h, a, i)
        OBVIOUS
      <4>2. /\ Makes(Values, h, a, SubSeq(l, 1, i) \o SubSeq(l, i + 2, n), rest)
            /\ rest.slice.len = n - 1
        BY <1>1, <2>1, <4>1, CloseUpMakes
      <4>3. Remove(h, a, i) = Result(rest.heap, rest.slice, TRUE, <<At(h, a, i)>>, <<>>)
        BY <1>1, <2>1, <3>3, <4>1 DEF Remove
      <4> QED
        BY <4>2, <4>3
    <3> QED
      BY <3>1, <3>2, <3>3
  <2>4. PICK r : r = Remove(h, a, i)
    OBVIOUS
  <2>5. /\ r.heap = rest.heap /\ r.array = rest.slice /\ r.ok = TRUE /\ r.vals = <<l[i + 1]>>
        /\ r.slices = <<>> /\ r.panic = FALSE
    BY <2>2, <2>3, <2>4 DEF Result
  <2>6. Leaves(h, a, SubSeq(l, 1, i) \o SubSeq(l, i + 2, n), r)
    BY <2>3, <2>5 DEF Makes, Leaves, Sound
  <2>7. Answer(r) = Promise!Value(l[i + 1])
    BY <2>5, NoContents DEF Answer, Promise!Value, Promise!Reply
  <2> QED
    BY <2>3, <2>4, <2>5, <2>6, <2>7 DEF Gives
<1>3. ASSUME i \notin 0 .. n - 1
      PROVE  Gives(h, a, Remove(h, a, i), l, Promise!Failure)
  <2>1. ~InRange(a, i)
    BY <1>1, <1>3 DEF InRange
  <2>2. Remove(h, a, i) = Failed(h, a)
    BY <2>1 DEF Remove
  <2> QED
    BY <1>1, <2>2, FailedGives
<1> QED
  BY <1>1, <1>2, <1>3
LEMMA PopLeftGives ==
  ASSUME NEW h, NEW a, Lists(h, a)
  PROVE  /\ a.len > 0 => Gives(h, a, PopLeft(h, a), SubSeq(Items(h, a), 2, a.len),
                               Promise!Value(Items(h, a)[1]))
         /\ a.len = 0 => Gives(h, a, PopLeft(h, a), Items(h, a), Promise!Failure)
<1>1. a.len \in Nat
  BY ItemsOf
<1>2. ASSUME a.len > 0
      PROVE  Gives(h, a, PopLeft(h, a), SubSeq(Items(h, a), 2, a.len),
                   Promise!Value(Items(h, a)[1]))
  <2>0. PICK n \in Nat : n = a.len /\ 1 <= n
    BY <1>1, <1>2
  <2>1. PICK t : t = Cut(a, 1, n)
    OBVIOUS
  <2>2. Follows(Values, h, a, h, t) /\ Items(h, t) = SubSeq(Items(h, a), 2, a.len)
    <3>1. 1 \in Nat /\ 1 <= n /\ n <= a.len /\ 1 + 1 = 2
      BY <2>0
    <3>2. /\ Follows(Values, h, a, h, Cut(a, 1, n))
          /\ Items(h, Cut(a, 1, n)) = SubSeq(Items(h, a), 1 + 1, n)
      BY <3>1, CutOf
    <3> QED
      BY <2>0, <2>1, <3>1, <3>2
  <2>3. At(h, a, 0) = Items(h, a)[1]
    <3>1. 0 \in Nat /\ 0 < a.len /\ 0 + 1 = 1
      BY <1>2
    <3>2. At(h, a, 0) = Items(h, a)[0 + 1]
      BY <3>1, AtItem DEF Lists
    <3> QED
      BY <3>1, <3>2
  <2>4. PopLeft(h, a) = Result(h, t, TRUE, <<Items(h, a)[1]>>, <<>>)
    <3>1. a.len # 0 /\ t = Cut(a, 1, a.len)
      BY <1>1, <1>2, <2>0, <2>1
    <3> QED
      BY <2>3, <3>1 DEF PopLeft
  <2> QED
    BY <2>2, <2>4, PoppedGives
<1>3. ASSUME a.len = 0 PROVE Gives(h, a, PopLeft(h, a), Items(h, a), Promise!Failure)
  BY <1>3, FailedGives DEF PopLeft
<1> QED
  BY <1>2, <1>3

LEMMA PopRightGives ==
  ASSUME NEW h, NEW a, Lists(h, a)
  PROVE  /\ a.len > 0 => Gives(h, a, PopRight(h, a), SubSeq(Items(h, a), 1, a.len - 1),
                               Promise!Value(Items(h, a)[a.len]))
         /\ a.len = 0 => Gives(h, a, PopRight(h, a), Items(h, a), Promise!Failure)
<1>1. a.len \in Nat
  BY ItemsOf
<1>2. ASSUME a.len > 0
      PROVE  Gives(h, a, PopRight(h, a), SubSeq(Items(h, a), 1, a.len - 1),
                   Promise!Value(Items(h, a)[a.len]))
  <2>0. PICK m \in Nat : m = a.len - 1
    BY <1>1, <1>2
  <2>1. PICK t : t = Cut(a, 0, m)
    OBVIOUS
  <2>2. Follows(Values, h, a, h, t) /\ Items(h, t) = SubSeq(Items(h, a), 1, a.len - 1)
    <3>1. 0 \in Nat /\ 0 <= m /\ m <= a.len /\ 0 + 1 = 1
      BY <1>1, <2>0
    <3>2. /\ Follows(Values, h, a, h, Cut(a, 0, m))
          /\ Items(h, Cut(a, 0, m)) = SubSeq(Items(h, a), 0 + 1, m)
      BY <3>1, CutOf
    <3> QED
      BY <2>0, <2>1, <3>1, <3>2
  <2>3. At(h, a, m) = Items(h, a)[a.len]
    <3>1. m < a.len /\ m + 1 = a.len
      BY <1>1, <2>0
    <3>2. At(h, a, m) = Items(h, a)[m + 1]
      BY <3>1, AtItem DEF Lists
    <3> QED
      BY <3>1, <3>2
  <2>4. PopRight(h, a) = Result(h, t, TRUE, <<Items(h, a)[a.len]>>, <<>>)
    <3>1. a.len # 0 /\ t = Cut(a, 0, a.len - 1) /\ At(h, a, a.len - 1) = Items(h, a)[a.len]
      BY <1>1, <1>2, <2>0, <2>1, <2>3
    <3> QED
      BY <3>1 DEF PopRight
  <2> QED
    BY <2>2, <2>4, PoppedGives
<1>3. ASSUME a.len = 0 PROVE Gives(h, a, PopRight(h, a), Items(h, a), Promise!Failure)
  BY <1>3, FailedGives DEF PopRight
<1> QED
  BY <1>2, <1>3

\* rand.Intn draws one of the items, or panics if there is none.
LEMMA PopRandGives ==
  ASSUME NEW h, NEW a, Lists(h, a), NEW r \in PopRand(h, a)
  PROVE  \/ a.len = 0 /\ Gives(h, a, r, Items(h, a), Panic)
         \/ \E i \in 0 .. a.len - 1 :
              Gives(h, a, r, SubSeq(Items(h, a), 1, i) \o SubSeq(Items(h, a), i + 2, a.len),
                    Promise!Value(Items(h, a)[i + 1]))
<1>1. a.len \in Nat
  BY ItemsOf
<1>2. CASE a.len = 0
  <2>1. r = Panicked(h, a)
    BY <1>2 DEF PopRand
  <2> QED
    BY <1>2, <2>1, PanickedGives
<1>3. CASE a.len # 0
  <2>1. PICK i \in 0 .. a.len - 1 : r = Remove(h, a, i)
    BY <1>3 DEF PopRand
  <2>2. i \in Int
    BY <1>1
  <2> QED
    BY <2>1, <2>2, RemoveGives
<1> QED
  BY <1>2, <1>3

LEMMA PopLeftsGives ==
  ASSUME NEW h, NEW a, Lists(h, a), NEW size \in Int, NEW n \in Nat,
         size > 0 => n = Smaller(size, a.len)
  PROVE  /\ size > 0 /\ a.len > 0 =>
              Gives(h, a, PopLefts(h, a, size), SubSeq(Items(h, a), n + 1, a.len),
                    Promise!List(SubSeq(Items(h, a), 1, n)))
         /\ size <= 0 \/ a.len = 0 =>
              Gives(h, a, PopLefts(h, a, size), Items(h, a), Promise!Failure)
<1>1. PICK l \in Seq(Values), m \in Nat :
        /\ l = Items(h, a) /\ m = a.len /\ Len(l) = m /\ 0 + 1 = 1
  BY ItemsOf
<1>2. ASSUME size > 0, m > 0
      PROVE  Gives(h, a, PopLefts(h, a, size), SubSeq(l, n + 1, m),
                   Promise!List(SubSeq(l, 1, n)))
  <2>1. n <= m /\ (n = size \/ n = m) /\ n <= size
    BY <1>1, <1>2 DEF Smaller
  <2>2. CASE size >= m
    <3>1. n = m
      BY <2>1, <2>2
    <3>2. /\ Follows(Values, h, a, h, Cut(a, 0, 0)) /\ Cut(a, 0, 0).len = 0 - 0
          /\ Items(h, Cut(a, 0, 0)) = SubSeq(Items(h, a), 0 + 1, 0)
      BY <1>1, CutOf
    <3>3. SubSeq(l, 1, 0) = <<>> /\ SubSeq(l, n + 1, m) = <<>> /\ SubSeq(l, 1, n) = l
      <4>1. SubSeq(l, 1, 0) = <<>>
        BY <1>1, FrontOf, EmptySeq
      <4>2. SubSeq(l, n + 1, m) = <<>>
        BY <1>1, <3>1, BehindAll
      <4>3. SubSeq(l, 1, n) = l
        BY <1>1, <3>1, SubSeqFull
      <4> QED
        BY <4>1, <4>2, <4>3
    <3>4. PopLefts(h, a, size) = Hand(h, Cut(a, 0, 0), a)
      BY <1>1, <1>2, <2>2 DEF PopLefts
    <3>5. Gives(h, a, Hand(h, Cut(a, 0, 0), a), Items(h, Cut(a, 0, 0)), Promise!List(Items(h, a)))
      BY <3>2, HandGives
    <3> QED
      BY <1>1, <3>2, <3>3, <3>4, <3>5
  <2>3. CASE ~(size >= m)
    <3>1. n = size /\ n <= m /\ m <= a.len /\ n <= a.len /\ 0 <= n
      BY <1>1, <2>1, <2>3
    <3>2. /\ Follows(Values, h, a, h, Cut(a, n, m))
          /\ Items(h, Cut(a, n, m)) = SubSeq(Items(h, a), n + 1, m)
      BY <3>1, CutOf
    <3>3. Items(h, Cut(a, 0, n)) = SubSeq(Items(h, a), 0 + 1, n)
      BY <3>1, CutOf
    <3>4. PopLefts(h, a, size) = Hand(h, Cut(a, n, m), Cut(a, 0, n))
      BY <1>1, <1>2, <2>3, <3>1 DEF PopLefts
    <3>5. Gives(h, a, Hand(h, Cut(a, n, m), Cut(a, 0, n)), Items(h, Cut(a, n, m)),
                Promise!List(Items(h, Cut(a, 0, n))))
      BY <3>2, HandGives
    <3> QED
      BY <1>1, <3>2, <3>3, <3>4, <3>5
  <2> QED
    BY <2>2, <2>3
<1>3. ASSUME size <= 0 \/ m = 0
      PROVE  Gives(h, a, PopLefts(h, a, size), l, Promise!Failure)
  <2>1. PopLefts(h, a, size) = Failed(h, a)
    BY <1>1, <1>3 DEF PopLefts
  <2> QED
    BY <1>1, <2>1, FailedGives
<1> QED
  BY <1>1, <1>2, <1>3

LEMMA PopRightsGives ==
  ASSUME NEW h, NEW a, Lists(h, a), NEW size \in Int, NEW n \in Nat,
         size > 0 => n = a.len - Smaller(size, a.len)
  PROVE  /\ size > 0 /\ a.len > 0 =>
              Gives(h, a, PopRights(h, a, size), SubSeq(Items(h, a), 1, n),
                    Promise!List(SubSeq(Items(h, a), n + 1, a.len)))
         /\ size <= 0 \/ a.len = 0 =>
              Gives(h, a, PopRights(h, a, size), Items(h, a), Promise!Failure)
<1>1. PICK l \in Seq(Values), m \in Nat :
        /\ l = Items(h, a) /\ m = a.len /\ Len(l) = m /\ 0 + 1 = 1
  BY ItemsOf
<1>2. ASSUME size > 0, m > 0
      PROVE  Gives(h, a, PopRights(h, a, size), SubSeq(l, 1, n),
                   Promise!List(SubSeq(l, n + 1, m)))
  <2>1. CASE size >= m
    <3>1. n = 0
      BY <1>1, <1>2, <2>1 DEF Smaller
    <3>2. /\ Follows(Values, h, a, h, Cut(a, 0, 0))
          /\ Items(h, Cut(a, 0, 0)) = SubSeq(Items(h, a), 0 + 1, 0)
      BY <1>1, CutOf
    <3>3. SubSeq(l, 1, m) = l
      BY <1>1, SubSeqFull
    <3>4. PopRights(h, a, size) = Hand(h, Cut(a, 0, 0), a)
      BY <1>1, <1>2, <2>1 DEF PopRights
    <3>5. Gives(h, a, Hand(h, Cut(a, 0, 0), a), Items(h, Cut(a, 0, 0)), Promise!List(Items(h, a)))
      BY <3>2, HandGives
    <3> QED
      BY <1>1, <3>1, <3>2, <3>3, <3>4, <3>5
  <2>2. CASE ~(size >= m)
    <3>1. n = m - size /\ n <= m /\ m <= a.len /\ n <= a.len /\ 0 <= n
      BY <1>1, <1>2, <2>2 DEF Smaller
    <3>2. /\ Follows(Values, h, a, h, Cut(a, 0, n))
          /\ Items(h, Cut(a, 0, n)) = SubSeq(Items(h, a), 0 + 1, n)
      BY <3>1, CutOf
    <3>3. Items(h, Cut(a, n, m)) = SubSeq(Items(h, a), n + 1, m)
      BY <3>1, CutOf
    <3>4. PopRights(h, a, size) = Hand(h, Cut(a, 0, n), Cut(a, n, m))
      BY <1>1, <1>2, <2>2, <3>1 DEF PopRights
    <3>5. Gives(h, a, Hand(h, Cut(a, 0, n), Cut(a, n, m)), Items(h, Cut(a, 0, n)),
                Promise!List(Items(h, Cut(a, n, m))))
      BY <3>2, HandGives
    <3> QED
      BY <1>1, <3>2, <3>3, <3>4, <3>5
  <2> QED
    BY <2>1, <2>2
<1>3. ASSUME size <= 0 \/ m = 0
      PROVE  Gives(h, a, PopRights(h, a, size), l, Promise!Failure)
  <2>1. PopRights(h, a, size) = Failed(h, a)
    BY <1>1, <1>3 DEF PopRights
  <2> QED
    BY <1>1, <2>1, FailedGives
<1> QED
  BY <1>1, <1>2, <1>3

LEMMA ClearGives ==
  ASSUME NEW h, NEW a, Lists(h, a)
  PROVE  Gives(h, a, Clear(h, a), <<>>, Promise!Success)
<1>1. PICK t : t = IF a.len > 0 THEN NilSlice ELSE a
  OBVIOUS
<1>2. t.len = 0 /\ Items(h, t) = <<>>
  <2>1. t.len = 0
    BY <1>1, ItemsOf DEF NilSlice
  <2>2. Items(h, t) = [k \in 1 .. 0 |-> h[t.block][t.off + k]]
    BY <2>1 DEF Items
  <2> QED
    BY <2>1, <2>2
<1>3. Follows(Values, h, a, h, t)
  <2>1. NilSlice.block = 0 /\ NilSlice \in Slices /\ IsSlice(h, NilSlice)
    BY DEF NilSlice, Slices, IsSlice
  <2> QED
    BY <1>1, <2>1, SelfFollows DEF Lists, Lies, Follows, Keeps, StaysIn
<1>4. PICK new : new = [heap |-> h, slice |-> t]
  OBVIOUS
<1>5. Makes(Values, h, a, <<>>, new)
  BY <1>2, <1>3, <1>4 DEF Makes
<1> QED
  BY <1>1, <1>4, <1>5, DoneGives DEF Clear

-----------------------------------------------------------------------------
(* The methods that read.                                                  *)

\* Who hands out nothing hands out no slice that somebody else knows.
LEMMA HandsNothing ==
  ASSUME NEW h, NEW r, r.slices = <<>>
  PROVE  HandsCopies(h, r)
BY DEF HandsCopies

LEMMA SliceGives ==
  ASSUME NEW h, NEW a, Lists(h, a)
  PROVE  /\ Gives(h, a, Slice(h, a), Items(h, a), Promise!List(Items(h, a)))
         /\ HandsCopies(h, Slice(h, a))
<1>1. Items(h, a) \in Seq(Values)
  BY ItemsOf
<1> QED
  BY <1>1, CopyGives DEF Slice

\* A copy of the items from one index up to another.
LEMMA CopyOfCut ==
  ASSUME NEW h, NEW a, Lists(h, a), NEW i \in Nat, NEW j \in Nat, i <= j, j <= a.len
  PROVE  /\ Gives(h, a, HandCopy(h, a, Items(h, Cut(a, i, j))), Items(h, a),
                  Promise!List(SubSeq(Items(h, a), i + 1, j)))
         /\ HandsCopies(h, HandCopy(h, a, Items(h, Cut(a, i, j))))
<1>1. PICK p : p = Items(h, Cut(a, i, j))
  OBVIOUS
<1>2. p = SubSeq(Items(h, a), i + 1, j) /\ Follows(Values, h, a, h, Cut(a, i, j))
  BY <1>1, CutOf
<1>3. p \in Seq(Values)
  BY <1>1, <1>2, ItemsOfSlice DEF Follows, Lies
<1>4. /\ Gives(h, a, HandCopy(h, a, p), Items(h, a), Promise!List(p))
      /\ HandsCopies(h, HandCopy(h, a, p))
  BY <1>3, CopyGives
<1> QED
  BY <1>1, <1>2, <1>4

LEMMA RangeGives ==
  ASSUME NEW h, NEW a, Lists(h, a), NEW start \in Int, NEW end \in Int,
         NEW from \in Nat, from = IF start < 0 THEN 0 ELSE start,
         NEW to \in Int, to = Smaller(end, a.len)
  PROVE  /\ start > to =>
              Gives(h, a, RangeOf(h, a, start, end), Items(h, a), Promise!Failure)
         /\ start <= to /\ from > to =>
              Gives(h, a, RangeOf(h, a, start, end), Items(h, a), Panic)
         /\ from <= to =>
              Gives(h, a, RangeOf(h, a, start, end), Items(h, a),
                    Promise!List(SubSeq(Items(h, a), from + 1, to)))
         /\ HandsCopies(h, RangeOf(h, a, start, end))
<1>1. a.len \in Nat
  BY ItemsOf
<1>2. ASSUME start > to
      PROVE  /\ Gives(h, a, RangeOf(h, a, start, end), Items(h, a), Promise!Failure)
             /\ HandsCopies(h, RangeOf(h, a, start, end)) /\ from > to
  <2>1. RangeOf(h, a, start, end) = Failed(h, a)
    BY <1>2 DEF RangeOf
  <2>2. HandsCopies(h, Failed(h, a))
    BY HandsNothing DEF Failed, Result
  <2> QED
    BY <1>2, <2>1, <2>2, FailedGives
<1>3. ASSUME start <= to, from > to
      PROVE  /\ Gives(h, a, RangeOf(h, a, start, end), Items(h, a), Panic)
             /\ HandsCopies(h, RangeOf(h, a, start, end))
  <2>1. RangeOf(h, a, start, end) = Panicked(h, a)
    BY <1>3 DEF RangeOf
  <2>2. HandsCopies(h, Panicked(h, a))
    BY HandsNothing DEF Panicked, Failed, Result
  <2> QED
    BY <2>1, <2>2, PanickedGives
<1>4. ASSUME from <= to
      PROVE  /\ Gives(h, a, RangeOf(h, a, start, end), Items(h, a),
                      Promise!List(SubSeq(Items(h, a), from + 1, to)))
             /\ HandsCopies(h, RangeOf(h, a, start, end))
  <2>1. start <= to /\ ~(start > to) /\ ~(from > to) /\ to \in Nat
    BY <1>4
  <2>2. to <= a.len
    BY <1>1 DEF Smaller
  <2>3. RangeOf(h, a, start, end) = HandCopy(h, a, Items(h, Cut(a, from, to)))
    BY <2>1 DEF RangeOf
  <2>4. /\ Gives(h, a, HandCopy(h, a, Items(h, Cut(a, from, to))), Items(h, a),
                 Promise!List(SubSeq(Items(h, a), from + 1, to)))
        /\ HandsCopies(h, HandCopy(h, a, Items(h, Cut(a, from, to))))
    BY <1>4, <2>1, <2>2, CopyOfCut
  <2> QED
    BY <2>3, <2>4
<1>5. start > to \/ (start <= to /\ from > to) \/ from <= to
  OBVIOUS
<1> QED
  BY <1>2, <1>3, <1>4, <1>5

\* A negative offset counts from the end, a negative length from the offset.
LEMMA SubSliceGives ==
  ASSUME NEW h, NEW a, Lists(h, a), NEW offset \in Int, NEW length \in Int,
         NEW from \in Int, from = IF offset < 0 THEN a.len + offset ELSE offset,
         NEW first \in Int, first = IF length < 0 THEN from + length ELSE from,
         NEW last \in Int, last = IF length < 0 THEN from ELSE Smaller(from + length, a.len)
  PROVE  /\ from \in 0 .. a.len /\ from + length >= 0 =>
              Gives(h, a, SubSlice(h, a, offset, length), Items(h, a),
                    Promise!List(SubSeq(Items(h, a), first + 1, last)))
         /\ ~(from \in 0 .. a.len /\ from + length >= 0) =>
              Gives(h, a, SubSlice(h, a, offset, length), Items(h, a), Promise!Failure)
         /\ HandsCopies(h, SubSlice(h, a, offset, length))
<1>1. PICK n \in Nat : n = a.len
  BY ItemsOf
<1>2. PICK r : r = SubSlice(h, a, offset, length)
  OBVIOUS
<1>3. ASSUME from \in 0 .. n, from + length >= 0
      PROVE  /\ Gives(h, a, r, Items(h, a), Promise!List(SubSeq(Items(h, a), first + 1, last)))
             /\ HandsCopies(h, r)
  <2>1. ~(offset > n) /\ ~(from < 0) /\ ~(first < 0) /\ first \in Nat
    BY <1>1, <1>3
  <2>2. last = Smaller(first + (IF length < 0 THEN -length ELSE length), n)
        /\ first <= last /\ last <= n /\ last \in Nat
    BY <1>1, <1>3 DEF Smaller
  <2>3. r = HandCopy(h, a, Items(h, Cut(a, first, last)))
    BY <1>1, <1>2, <2>1, <2>2 DEF SubSlice
  <2>4. /\ Gives(h, a, HandCopy(h, a, Items(h, Cut(a, first, last))), Items(h, a),
                 Promise!List(SubSeq(Items(h, a), first + 1, last)))
        /\ HandsCopies(h, HandCopy(h, a, Items(h, Cut(a, first, last))))
    BY <1>1, <2>1, <2>2, CopyOfCut
  <2> QED
    BY <2>3, <2>4
<1>4. ASSUME ~(from \in 0 .. n /\ from + length >= 0)
      PROVE  Gives(h, a, r, Items(h, a), Promise!Failure) /\ HandsCopies(h, r)
  <2>1. offset > n \/ from < 0 \/ first < 0
    BY <1>1, <1>4
  <2>2. r = Failed(h, a)
    BY <1>1, <1>2, <2>1 DEF SubSlice
  <2>3. HandsCopies(h, Failed(h, a))
    BY HandsNothing DEF Failed, Result
  <2> QED
    BY <2>2, <2>3, FailedGives
<1> QED
  BY <1>1, <1>2, <1>3, <1>4

\* Search tells the first index of the value, or -1.
LEMMA SearchFinds ==
  ASSUME NEW h, NEW a, Lists(h, a), NEW v
  PROVE  \/ /\ Search(h, a, v) = Tell(h, a, -1)
            /\ \A k \in 1 .. a.len : Items(h, a)[k] # v
         \/ \E i \in 0 .. a.len - 1 :
              /\ Search(h, a, v) = Tell(h, a, i)
              /\ Items(h, a)[i + 1] = v
              /\ \A k \in 1 .. i : Items(h, a)[k] # v
<1>1. PICK n \in Nat : n = a.len /\ \A k \in 1 .. n : At(h, a, k - 1) = Items(h, a)[k]
  BY ItemsOf
<1>2. PICK hits : hits = {i \in 0 .. n - 1 : At(h, a, i) = v}
  OBVIOUS
<1>3. \A k \in 1 .. n : Items(h, a)[k] = v <=> k - 1 \in hits
  BY <1>1, <1>2
<1>4. CASE hits = {}
  <2>1. Search(h, a, v) = Tell(h, a, -1)
    BY <1>1, <1>2, <1>4 DEF Search
  <2> QED
    BY <1>1, <1>3, <1>4, <2>1
<1>5. CASE hits # {}
  <2>1. PICK i : i = CHOOSE k \in hits : \A j \in hits : k <= j
    OBVIOUS
  <2>2. i \in hits /\ \A j \in hits : i <= j
    <3>1. \E j \in hits : \A k \in hits : j <= k
      BY <1>2, <1>5, LeastNumber
    <3> QED
      BY <2>1, <3>1
  <2>3. Search(h, a, v) = Tell(h, a, i)
    BY <1>1, <1>2, <1>5, <2>1 DEF Search
  <2>4. i \in 0 .. n - 1 /\ i + 1 \in 1 .. n /\ i + 1 - 1 = i
    BY <1>2, <2>2
  <2>5. Items(h, a)[i + 1] = v
    BY <1>3, <2>2, <2>4
  <2>6. ASSUME NEW k \in 1 .. i PROVE Items(h, a)[k] # v
    <3>1. k \in 1 .. n /\ ~(i <= k - 1)
      BY <2>4
    <3> QED
      BY <1>3, <2>2, <3>1
  <2> QED
    BY <1>1, <2>3, <2>4, <2>5, <2>6
<1> QED
  BY <1>4, <1>5

\* Rand draws one of the items.
LEMMA RandGives ==
  ASSUME NEW h, NEW a, Lists(h, a), NEW r \in Rand(h, a)
  PROVE  \/ a.len = 0 /\ Gives(h, a, r, Items(h, a), Promise!Failure)
         \/ \E k \in 1 .. a.len : Gives(h, a, r, Items(h, a), Promise!Value(Items(h, a)[k]))
<1>1. PICK n \in Nat : n = a.len /\ \A k \in 1 .. n : At(h, a, k - 1) = Items(h, a)[k]
  BY ItemsOf
<1>2. CASE n = 0
  <2>1. r = Failed(h, a)
    BY <1>1, <1>2 DEF Rand
  <2> QED
    BY <1>1, <1>2, <2>1, FailedGives
<1>3. CASE n # 0
  <2>1. PICK i \in 0 .. n - 1 : r = Tell(h, a, At(h, a, i))
    BY <1>1, <1>3 DEF Rand
  <2>2. PICK k \in 1 .. n : k = i + 1 /\ k - 1 = i
    BY <2>1
  <2>3. r = Tell(h, a, Items(h, a)[k])
    BY <1>1, <2>1, <2>2
  <2> QED
    BY <1>1, <2>3, TellGives
<1> QED
  BY <1>2, <1>3

\* Rands draws some of the items, the same one again if need be.
LEMMA RandsGives ==
  ASSUME NEW h, NEW a, Lists(h, a), NEW size \in Int, NEW r \in Rands(h, a, size)
  PROVE  /\ \/ (size <= 0 \/ a.len = 0) /\ Gives(h, a, r, Items(h, a), Promise!Failure)
            \/ /\ size > 0 /\ a.len > 0
               /\ \E s \in [1 .. size -> {Items(h, a)[k] : k \in 1 .. a.len}] :
                    Gives(h, a, r, Items(h, a), Promise!List(s))
         /\ HandsCopies(h, r)
<1>1. PICK n \in Nat : /\ n = a.len
                       /\ \A k \in 1 .. n : /\ At(h, a, k - 1) = Items(h, a)[k]
                                            /\ Items(h, a)[k] \in Values
  BY ItemsOf
<1>2. CASE size <= 0 \/ n = 0
  <2>1. r = Failed(h, a)
    BY <1>1, <1>2 DEF Rands
  <2>2. HandsCopies(h, r)
    BY <2>1, HandsNothing DEF Failed, Result
  <2> QED
    BY <1>1, <1>2, <2>1, <2>2, FailedGives
<1>3. CASE ~(size <= 0 \/ n = 0)
  <2>1. PICK draw \in [1 .. size -> 0 .. n - 1] :
          r = HandCopy(h, a, [k \in 1 .. size |-> At(h, a, draw[k])])
    BY <1>1, <1>3 DEF Rands
  <2>2. PICK s : s = [k \in 1 .. size |-> At(h, a, draw[k])]
    OBVIOUS
  <2>3. ASSUME NEW k \in 1 .. size
        PROVE  s[k] \in {Items(h, a)[j] : j \in 1 .. n} /\ s[k] \in Values
    <3>1. PICK j \in 1 .. n : j = draw[k] + 1 /\ j - 1 = draw[k]
      BY <2>1
    <3>2. s[k] = Items(h, a)[j]
      BY <1>1, <2>2, <3>1
    <3> QED
      BY <1>1, <3>2
  <2>4. s \in [1 .. size -> {Items(h, a)[j] : j \in 1 .. n}] /\ s \in [1 .. size -> Values]
    BY <2>2, <2>3
  <2>5. s \in Seq(Values)
    <3>1. size \in Nat
      BY <1>3
    <3> QED
      BY <2>4, <3>1, FunctionIsSeq
  <2>6. Gives(h, a, r, Items(h, a), Promise!List(s)) /\ HandsCopies(h, r)
    BY <2>1, <2>2, <2>5, CopyGives
  <2> QED
    BY <1>1, <1>3, <2>4, <2>6
<1> QED
  BY <1>2, <1>3

\* Chunk hands out views, and leaves everything as it is.
LEMMA ChunkSound ==
  ASSUME NEW h, NEW a, Lists(h, a), NEW size
  PROVE  Leaves(h, a, Items(h, a), Chunk(h, a, size))
<1>1. Chunk(h, a, size).heap = h /\ Chunk(h, a, size).array = a
  BY DEF Chunk, Failed, Result
<1> QED
  BY <1>1, Unchanged

\* What PopLefts, PopRights and Chunk hand out are slices.
LEMMA HandsCuts ==
  ASSUME NEW h, NEW a, Lists(h, a), NEW i \in Nat, NEW j \in Nat, i <= j, j <= a.len
  PROVE  Lists(h, Cut(a, i, j))
BY CutOf DEF Follows, Lists

LEMMA PopLeftsHands ==
  ASSUME NEW h, NEW a, Lists(h, a), NEW size \in Int
  PROVE  HandsSlices(PopLefts(h, a, size))
<1>1. a.len \in Nat
  BY ItemsOf
<1>2. CASE size <= 0 \/ a.len = 0
  <2>1. PopLefts(h, a, size) = Failed(h, a)
    BY <1>1, <1>2 DEF PopLefts
  <2> QED
    BY <2>1 DEF Failed, Result, HandsSlices
<1>3. CASE size > 0 /\ a.len > 0 /\ size >= a.len
  BY <1>3 DEF PopLefts, Hand, Result, HandsSlices
<1>4. CASE size > 0 /\ a.len > 0 /\ size < a.len
  <2>1. Lists(h, Cut(a, 0, size))
    BY <1>1, <1>4, HandsCuts
  <2>2. PopLefts(h, a, size) = Hand(h, Cut(a, size, a.len), Cut(a, 0, size))
    BY <1>1, <1>4 DEF PopLefts
  <2> QED
    BY <2>1, <2>2 DEF Hand, Result, HandsSlices
<1> QED
  BY <1>1, <1>2, <1>3, <1>4

LEMMA PopRightsHands ==
  ASSUME NEW h, NEW a, Lists(h, a), NEW size \in Int
  PROVE  HandsSlices(PopRights(h, a, size))
<1>1. a.len \in Nat
  BY ItemsOf
<1>2. CASE size <= 0 \/ a.len = 0
  <2>1. PopRights(h, a, size) = Failed(h, a)
    BY <1>1, <1>2 DEF PopRights
  <2> QED
    BY <2>1 DEF Failed, Result, HandsSlices
<1>3. CASE size > 0 /\ a.len > 0 /\ size >= a.len
  BY <1>3 DEF PopRights, Hand, Result, HandsSlices
<1>4. CASE size > 0 /\ a.len > 0 /\ size < a.len
  <2>1. PICK i \in Nat : i = a.len - size /\ i <= a.len
    BY <1>1, <1>4
  <2>2. Lists(h, Cut(a, i, a.len))
    BY <1>1, <2>1, HandsCuts
  <2>3. PopRights(h, a, size) = Hand(h, Cut(a, 0, i), Cut(a, i, a.len))
    BY <1>1, <1>4, <2>1 DEF PopRights
  <2> QED
    BY <2>2, <2>3 DEF Hand, Result, HandsSlices
<1> QED
  BY <1>1, <1>2, <1>3, <1>4

LEMMA ChunkHands ==
  ASSUME NEW h, NEW a, Lists(h, a), NEW size \in Int
  PROVE  HandsSlices(Chunk(h, a, size))
<1>1. PICK n \in Nat : n = a.len
  BY ItemsOf
<1>2. CASE size < 1
  <2>1. Chunk(h, a, size) = Failed(h, a)
    BY <1>2, Zenon DEF Chunk
  <2> QED
    BY <2>1 DEF Failed, Result, HandsSlices
<1>3. CASE ~(size < 1)
  <2>1. PICK d \in Nat : d = size /\ d > 0
    BY <1>3
  <2>2. PICK m \in Nat : m = n + d - 1
    BY <2>1
  <2>3. PICK q \in Nat : q = m \div d /\ q * d <= m
    BY <2>1, <2>2, DivOf
  <2>4. PICK slices : slices = [k \in 1 .. q |-> Cut(a, (k - 1) * d, Smaller(k * d, n))]
    OBVIOUS
  <2>5. ASSUME NEW k \in 1 .. q PROVE Lists(h, slices[k])
    <3>1. PICK i \in Nat, j \in Nat : i = (k - 1) * d /\ j = Smaller(k * d, n)
      BY <2>1 DEF Smaller
    <3>2. i + d = k * d /\ k * d <= q * d
      BY <2>1, <2>3, <3>1
    <3>3. i < n
      BY <2>1, <2>2, <2>3, <3>2
    <3>4. i <= j /\ j <= n
      BY <2>1, <3>1, <3>2, <3>3 DEF Smaller
    <3>5. Lists(h, Cut(a, i, j))
      BY <1>1, <3>4, HandsCuts
    <3> QED
      BY <2>4, <3>1, <3>5
  <2>6. PICK r : r = Result(h, a, TRUE, <<>>, slices)
    OBVIOUS
  <2>7. Chunk(h, a, size) = r
    <3>1. (a.len + size - 1) \div size = q
      BY <1>1, <2>1, <2>2, <2>3
    <3>2. Chunk(h, a, size)
            = Result(h, a, TRUE, <<>>,
                     [k \in 1 .. (a.len + size - 1) \div size |->
                        Cut(a, (k - 1) * size, Smaller(k * size, a.len))])
      BY <1>3, Zenon DEF Chunk
    <3>3. Chunk(h, a, size)
            = Result(h, a, TRUE, <<>>,
                     [k \in 1 .. q |-> Cut(a, (k - 1) * size, Smaller(k * size, a.len))])
      BY <3>1, <3>2, Zenon
    <3> QED
      BY <1>1, <2>1, <2>4, <2>6, <3>3, Zenon
  <2>8. r.heap = h /\ r.slices = slices /\ DOMAIN slices = 1 .. q
    BY <2>4, <2>6 DEF Result
  <2> QED
    BY <2>5, <2>7, <2>8 DEF HandsSlices
<1> QED
  BY <1>2, <1>3

-----------------------------------------------------------------------------
(* The methods with a loop.  A loop is a recursive function of the number  *)
(* of rounds; there is one, because every round makes a state of the loop  *)
(* of a state of the loop.                                                 *)

\* In FilterEmpty, once k items have been looked at: i of them are kept, and
\* the others were empty; o says where the items of l stood in all.
Kept(o, all, k, i, l) ==
  /\ Selects(o, all, l) /\ Len(l) + k = Len(all) + i
  /\ \A j \in 1 .. i : o[j] <= k /\ l[j] # Empty
  /\ \A j \in i + 1 .. Len(l) : o[j] + i = k + j
  /\ \A p \in 1 .. k : all[p] = Empty \/ \E j \in 1 .. i : o[j] = p

\* The item looked at is not empty, and stays.
LEMMA KeepOne ==
  ASSUME NEW all \in Seq(Values), NEW l \in Seq(Values), NEW o, NEW k \in Nat, NEW i \in Nat,
         Kept(o, all, k, i, l), k < Len(all), l[i + 1] # Empty
  PROVE  Kept(o, all, k + 1, i + 1, l)
<1>1. PICK n \in Nat, m \in Nat : n = Len(all) /\ m = Len(l)
  BY LenProperties
<1>2. PICK kk \in Nat, ii \in Nat : kk = k + 1 /\ ii = i + 1 /\ ii \in 1 .. m
  BY <1>1 DEF Kept
<1>3. /\ \A j \in 1 .. i : o[j] <= k /\ l[j] # Empty
      /\ \A j \in ii .. m : o[j] + i = k + j
      /\ \A p \in 1 .. k : all[p] = Empty \/ \E j \in 1 .. i : o[j] = p
      /\ o \in [1 .. m -> 1 .. n] /\ m + k = n + i
  BY <1>1, <1>2 DEF Kept, Selects
<1>4. o[ii] \in Nat /\ o[ii] = kk
  <2>1. o[ii] \in Nat
    BY <1>2, <1>3
  <2>2. ii \in ii .. m
    BY <1>2
  <2>3. o[ii] + i = k + ii
    BY <1>3, <2>2
  <2> QED
    BY <1>2, <2>1, <2>3
<1>5. ASSUME NEW j \in 1 .. ii PROVE o[j] <= kk /\ l[j] # Empty
  <2>1. CASE j = ii
    BY <1>2, <1>4, <2>1
  <2>2. CASE j # ii
    <3>1. j \in 1 .. i /\ j \in 1 .. m
      BY <1>2, <2>2
    <3>2. o[j] \in Nat /\ o[j] <= k /\ l[j] # Empty
      BY <1>3, <3>1
    <3> QED
      BY <1>2, <3>2
  <2> QED
    BY <2>1, <2>2
<1>6. ASSUME NEW j \in ii + 1 .. m PROVE o[j] + ii = kk + j
  <2>1. j \in 1 .. m /\ j \in ii .. m /\ j \in Int
    BY <1>2
  <2>2. o[j] \in Nat /\ o[j] + i = k + j
    BY <1>3, <2>1
  <2>3. PICK x \in Nat, y \in Int : x = o[j] /\ y = j
    BY <2>1, <2>2
  <2>4. x + i = k + y
    BY <2>2, <2>3
  <2>5. x + ii = kk + y
    BY <1>2, <2>4
  <2> QED
    BY <2>3, <2>5
<1>7. ASSUME NEW p \in 1 .. kk PROVE all[p] = Empty \/ \E j \in 1 .. ii : o[j] = p
  <2>1. CASE p = kk
    BY <1>2, <1>4, <2>1
  <2>2. CASE p # kk
    <3>1. p \in 1 .. k
      BY <1>2, <2>2
    <3>2. \A j \in 1 .. i : j \in 1 .. ii
      BY <1>2
    <3> QED
      BY <1>3, <3>1, <3>2
  <2> QED
    BY <2>1, <2>2
<1>8. Selects(o, all, l) /\ m + kk = n + ii
  <2>1. Selects(o, all, l)
    BY DEF Kept
  <2> QED
    BY <1>2, <1>3, <2>1
<1>9. Kept(o, all, kk, ii, l)
  BY <1>1, <1>5, <1>6, <1>7, <1>8 DEF Kept
<1> QED
  BY <1>2, <1>9

\* It is empty, and goes; those behind it move up.
LEMMA DropOne ==
  ASSUME NEW all \in Seq(Values), NEW l \in Seq(Values), NEW o, NEW k \in Nat, NEW i \in Nat,
         Kept(o, all, k, i, l), k < Len(all), l[i + 1] = Empty
  PROVE  Kept(Skip(o, Len(l), i), all, k + 1, i, Without(l, i))
<1>1. PICK n \in Nat, m \in Nat : n = Len(all) /\ m = Len(l)
  BY LenProperties
<1>2. PICK kk \in Nat, ii \in Nat : kk = k + 1 /\ ii = i + 1 /\ ii \in 1 .. m /\ i < m
  BY <1>1 DEF Kept
<1>3. /\ \A j \in 1 .. i : o[j] <= k /\ l[j] # Empty
      /\ \A j \in ii .. m : o[j] + i = k + j
      /\ \A p \in 1 .. k : all[p] = Empty \/ \E j \in 1 .. i : o[j] = p
      /\ o \in [1 .. m -> 1 .. n] /\ m + k = n + i
      /\ \A j \in 1 .. m : l[j] = all[o[j]]
  BY <1>1, <1>2 DEF Kept, Selects
<1>4. PICK w, q : w = Without(l, i) /\ q = Skip(o, m, i)
  OBVIOUS
<1>5. /\ w \in Seq(Values) /\ Len(w) = m - 1
      /\ \A j \in 1 .. m - 1 : w[j] = IF j <= i THEN l[j] ELSE l[j + 1]
  <2>1. m = Len(l) /\ i < m
    BY <1>1, <1>2
  <2>2. Without(l, i) \in Seq(Values) /\ Misses(Without(l, i), l, m, i)
    BY <2>1, WithoutOne
  <2> QED
    BY <1>4, <2>2 DEF Misses
<1>6. Selects(q, all, w)
  BY <1>1, <1>2, <1>4, LeaveOut DEF Kept
<1>7. \A j \in 1 .. m - 1 : q[j] = IF j <= i THEN o[j] ELSE o[j + 1]
  BY <1>4 DEF Skip
<1>8. ASSUME NEW j \in 1 .. i PROVE q[j] = o[j] /\ o[j] <= kk /\ w[j] # Empty
  <2>1. j \in 1 .. m - 1 /\ j \in 1 .. m
    BY <1>2
  <2>2. q[j] = o[j] /\ w[j] = l[j] /\ o[j] <= k /\ o[j] \in Nat
    BY <1>3, <1>5, <1>7, <2>1
  <2> QED
    BY <1>2, <1>3, <2>2
<1>9. ASSUME NEW j \in i + 1 .. m - 1 PROVE q[j] + i = kk + j
  <2>1. j \in 1 .. m - 1 /\ ~(j <= i) /\ j + 1 \in 1 .. m /\ j + 1 \in ii .. m
    BY <1>2
  <2>2. PICK j2 \in Nat : j2 = j + 1
    BY <2>1
  <2>3. q[j] = o[j2] /\ o[j2] \in Nat /\ o[j2] + i = k + j2
    BY <1>3, <1>7, <2>1, <2>2
  <2> QED
    BY <1>2, <2>2, <2>3
<1>10. ASSUME NEW p \in 1 .. kk PROVE all[p] = Empty \/ \E j \in 1 .. i : q[j] = p
  <2>1. CASE p = kk
    <3>1. o[ii] \in Nat /\ o[ii] + i = k + ii
      BY <1>2, <1>3
    <3>2. o[ii] = kk
      BY <1>2, <3>1
    <3> QED
      BY <1>2, <1>3, <2>1, <3>2
  <2>2. CASE p # kk
    <3>1. p \in 1 .. k
      BY <1>2, <2>2
    <3> QED
      BY <1>3, <1>8, <3>1
  <2> QED
    BY <2>1, <2>2
<1>11. (m - 1) + kk = n + i
  BY <1>2, <1>3
<1>12. \A j \in 1 .. i : q[j] <= kk /\ w[j] # Empty
  BY <1>8
<1>13. Kept(q, all, kk, i, w)
  BY <1>1, <1>5, <1>6, <1>9, <1>10, <1>11, <1>12 DEF Kept
<1> QED
  BY <1>1, <1>2, <1>4, <1>13

\* The items that are not empty stay, in their order.
LEMMA FilterEmptySound ==
  ASSUME NEW h, NEW a, Lists(h, a), NEW r, r = FilterEmpty(h, a)
  PROVE  /\ Sound(h, a, r) /\ Answer(r) = Promise!Success
         /\ \E i \in Nat : \E o : Kept(o, Items(h, a), a.len, i, Items(r.heap, r.array))
<1>1. PICK n \in Nat, all \in Seq(Values) : n = a.len /\ all = Items(h, a) /\ Len(all) = n
  BY ItemsOf
<1> DEFINE States == [heap : Seq(Seq(Values)), slice : Slices, i : Nat]
           start == [heap |-> h, slice |-> a, i |-> 0]
           Good(s, k) == /\ Follows(Values, h, a, s.heap, s.slice) /\ s.slice.len + k = n + s.i
                         /\ \E o : Kept(o, all, k, s.i, Items(s.heap, s.slice))
           D == [k \in 0 .. n |-> {s \in States : Good(s, k)}]
           Body(f) == [k \in 0 .. n |-> IF k = 0 THEN start ELSE EmptyRound(f[k - 1])]
           Round == [p \in (1 .. n) \X States |-> EmptyRound(p[2])]
<1>2. start \in D[0]
  <2>1. Follows(Values, h, a, h, a) /\ start \in States
    BY SelfFollows DEF Lists, Lies
  <2>2. PICK o : o = [k \in 1 .. n |-> k]
    OBVIOUS
  <2>3. Selects(o, all, all)
    BY <1>1, <2>2, SelectsAll
  <2>4. \A j \in 1 .. n : o[j] = j
    BY <2>2
  <2>5. Kept(o, all, 0, 0, all)
    BY <1>1, <2>3, <2>4 DEF Kept
  <2>6. start \in States /\ Good(start, 0)
    BY <1>1, <2>1, <2>5
  <2> QED
    BY <2>6
<1> HIDE DEF D
<1>3. ASSUME NEW k \in 1 .. n, NEW s \in D[k - 1]
      PROVE  s \in States /\ EmptyRound(s) \in D[k]
  <2>1. s \in States /\ Good(s, k - 1)
    BY DEF D
  <2>2. PICK g \in Seq(Seq(Values)), t \in Slices, i \in Nat :
          s = [heap |-> g, slice |-> t, i |-> i]
    BY <2>1
  <2>3. PICK m \in Nat : m = t.len /\ m + (k - 1) = n + i /\ i < m
    BY <2>1, <2>2 DEF Slices
  <2>4. Follows(Values, h, a, g, t) /\ Lists(g, t)
    BY <2>1, <2>2 DEF Follows, Lists
  <2>5. PICK b \in Nat : b = k - 1 /\ b + 1 = k /\ b < n
    OBVIOUS
  <2>6. PICK l \in Seq(Values) : /\ l = Items(g, t) /\ Len(l) = m /\ l[i + 1] = At(g, t, i)
                                /\ \E o : Kept(o, all, b, i, l)
    <3>1. PICK p \in 1 .. m : p = i + 1 /\ p - 1 = i
      BY <2>3
    <3>2. Items(g, t) \in Seq(Values) /\ Len(Items(g, t)) = m /\ At(g, t, p - 1) = Items(g, t)[p]
      BY <2>3, <2>4, ItemsOf
    <3>3. \E q : Kept(q, all, b, i, Items(g, t))
      BY <2>1, <2>2, <2>5
    <3> QED
      BY <3>1, <3>2, <3>3
  <2>7. PICK o : Kept(o, all, b, i, l)
    BY <2>6
  <2>8. \A u \in States : Good(u, k) => u \in D[k]
    BY DEF D
  <2>9. CASE At(g, t, i) = Empty
    <3>1. PICK less : less = CloseUp(g, t, i)
      OBVIOUS
    <3>2. /\ Follows(Values, g, t, less.heap, less.slice) /\ less.slice.len = m - 1
          /\ Items(less.heap, less.slice) = SubSeq(l, 1, i) \o SubSeq(l, i + 2, m)
      <4>1. /\ Makes(Values, g, t, SubSeq(Items(g, t), 1, i) \o SubSeq(Items(g, t), i + 2, t.len),
                     CloseUp(g, t, i))
            /\ CloseUp(g, t, i).slice.len = t.len - 1
        BY <2>3, <2>4, CloseUpMakes
      <4> QED
        BY <2>3, <2>6, <3>1, <4>1 DEF Makes
    <3>8. Items(less.heap, less.slice) = Without(l, i)
      BY <2>6, <3>2, Zenon DEF Without
    <3>9. \E q : Kept(q, all, k, i, Without(l, i))
      <4>1. Kept(Skip(o, Len(l), i), all, b + 1, i, Without(l, i))
        BY <1>1, <2>9, <2>5, <2>6, <2>7, DropOne
      <4> QED
        BY <2>5, <4>1
    <3>3. Follows(Values, h, a, less.heap, less.slice)
      BY <2>4, <3>2, Transitive DEF Lists
    <3>4. PICK u : u = [heap |-> less.heap, slice |-> less.slice, i |-> i]
      OBVIOUS
    <3>5. EmptyRound(s) = u
      BY <2>2, <2>9, <3>1, <3>4 DEF EmptyRound
    <3>6. u \in States
      BY <3>2, <3>4 DEF Follows, Lies
    <3>7. (m - 1) + k = n + i
      BY <2>3
    <3>10. Good(u, k)
      BY <3>2, <3>3, <3>4, <3>7, <3>8, <3>9
    <3> QED
      BY <2>2, <2>8, <3>5, <3>6, <3>10
  <2>10. CASE At(g, t, i) # Empty
    <3>1. PICK u : u = [heap |-> g, slice |-> t, i |-> i + 1]
      OBVIOUS
    <3>2. EmptyRound(s) = u
      BY <2>2, <2>10, <3>1 DEF EmptyRound
    <3>3. u \in States
      BY <3>1
    <3>4. m + k = n + (i + 1)
      <4>1. PICK j \in Nat : j = k
        OBVIOUS
      <4>2. m + (j - 1) = n + i
        BY <2>3, <4>1
      <4>3. m + j = n + (i + 1)
        BY <4>2
      <4> QED
        BY <4>1, <4>3
    <3>5. Kept(o, all, k, i + 1, l)
      <4>1. Kept(o, all, b + 1, i + 1, l)
        BY <1>1, <2>10, <2>5, <2>6, <2>7, KeepOne
      <4> QED
        BY <2>5, <4>1
    <3>6. Good(u, k)
      BY <2>3, <2>4, <2>6, <3>1, <3>4, <3>5
    <3> QED
      BY <2>2, <2>8, <3>2, <3>3, <3>6
  <2> QED
    BY <2>9, <2>10
<1>4. PICK loop : loop = CHOOSE f : f = Body(f)
  OBVIOUS
<1>5. loop = Body(loop)
  <2>1. \A k \in 1 .. n : \A s \in D[k - 1] :
          Round[<<k, s>>] = EmptyRound(s) /\ Round[<<k, s>>] \in D[k]
    BY <1>3
  <2> HIDE DEF Round, start
  <2>2. Rounds(n, D, start, Round)
    BY <1>2, <2>1 DEF Rounds
  <2>3. PICK f : /\ f = [k \in 0 .. n |-> f[k]] /\ f[0] = start
                 /\ \A k \in 1 .. n : f[k - 1] \in D[k - 1] /\ f[k] = Round[<<k, f[k - 1]>>]
    BY <2>2, LoopExists
  <2>4. \A k \in 1 .. n : f[k] = EmptyRound(f[k - 1])
    BY <2>1, <2>3
  <2>5. ASSUME NEW k \in 0 .. n
        PROVE  f[k] = IF k = 0 THEN start ELSE EmptyRound(f[k - 1])
    <3>1. k = 0 \/ (k # 0 /\ k \in 1 .. n)
      OBVIOUS
    <3> QED
      BY <2>3, <2>4, <3>1
  <2>6. f = Body(f)
    BY <2>3, <2>5
  <2> QED
    BY <1>4, <2>6
<1>6. loop[n] \in D[n]
  <2>1. loop[0] = start /\ \A k \in 1 .. n : loop[k] = EmptyRound(loop[k - 1])
    BY <1>5
  <2>2. Stays(n, D, loop)
    BY <1>2, <1>3, <2>1 DEF Stays
  <2> QED
    BY <2>2, LoopEnds
<1>7. r = Done(loop[n])
  BY <1>1, <1>4 DEF FilterEmpty
<1>8. /\ loop[n].i \in Nat /\ Follows(Values, h, a, loop[n].heap, loop[n].slice)
      /\ \E o : Kept(o, all, n, loop[n].i, Items(loop[n].heap, loop[n].slice))
  BY <1>6 DEF D
<1>9. r.heap = loop[n].heap /\ r.array = loop[n].slice
  BY <1>7 DEF Done, Result
<1>10. Answer(r) = Promise!Success
  <2>1. r.ok = TRUE /\ r.vals = <<>> /\ r.slices = <<>> /\ r.panic = FALSE
    BY <1>7 DEF Done, Result
  <2> QED
    BY <2>1, NoContents DEF Answer, Promise!Success, Promise!Reply
<1> QED
  BY <1>1, <1>8, <1>9, <1>10 DEF Sound

\* rand.Perm draws a function of the numbers to the numbers.
LEMMA PermutationIs ==
  ASSUME NEW n \in Nat, NEW p \in Permutation(n)
  PROVE  p \in [1 .. n -> 1 .. n]
<1> DEFINE D == [k \in 0 .. n |-> SUBSET [1 .. k -> 1 .. k]]
           States == UNION {D[k] : k \in 0 .. n}
           start == {<<>>}
           Step(s, k) == UNION {Placed(q, k) : q \in s}
           Body(f) == [k \in 0 .. n |-> IF k = 0 THEN start ELSE Step(f[k - 1], k)]
           Round == [q \in (1 .. n) \X States |-> Step(q[2], q[1])]
<1>1. \A k \in 0 .. n : \A s : s \in D[k] <=> s \subseteq [1 .. k -> 1 .. k]
  OBVIOUS
<1>2. start \in D[0]
  <2>1. <<>> \in [1 .. 0 -> 1 .. 0]
    OBVIOUS
  <2> QED
    BY <1>1, <2>1
<1> HIDE DEF D
<1>3. ASSUME NEW k \in 1 .. n, NEW s \in D[k - 1]
      PROVE  s \in States /\ Step(s, k) \in D[k]
  <2>1. k - 1 \in 0 .. n /\ k \in 0 .. n
    OBVIOUS
  <2>2. ASSUME NEW q \in s, NEW e \in Placed(q, k) PROVE e \in [1 .. k -> 1 .. k]
    <3>1. q \in [1 .. k - 1 -> 1 .. k - 1]
      BY <1>1, <2>1
    <3>2. PICK i \in 1 .. k :
            e = [j \in 1 .. k |-> CASE j = i -> k [] j # i /\ j = k -> q[i] [] OTHER -> q[j]]
      BY DEF Placed
    <3>3. \A j \in 1 .. k : j # k => j \in 1 .. k - 1
      OBVIOUS
    <3>4. \A j \in 1 .. k - 1 : q[j] \in 1 .. k
      BY <3>1
    <3>5. \A j \in 1 .. k : e[j] \in 1 .. k
      BY <3>2, <3>3, <3>4
    <3> QED
      BY <3>2, <3>5
  <2>3. Step(s, k) \subseteq [1 .. k -> 1 .. k]
    BY <2>2
  <2>4. s \in States
    BY <2>1
  <2> HIDE DEF Step, States
  <2>5. Step(s, k) \in D[k]
    BY <1>1, <2>1, <2>3
  <2> QED
    BY <2>4, <2>5
<1> HIDE DEF States
<1>4. PICK loop : loop = CHOOSE f : f = Body(f)
  OBVIOUS
<1>5. loop = Body(loop)
  <2>1. \A k \in 1 .. n : \A s \in D[k - 1] :
          Round[<<k, s>>] = Step(s, k) /\ Round[<<k, s>>] \in D[k]
    BY <1>3
  <2> HIDE DEF Round, start, Step
  <2>2. Rounds(n, D, start, Round)
    BY <1>2, <2>1 DEF Rounds
  <2>3. PICK f : /\ f = [k \in 0 .. n |-> f[k]] /\ f[0] = start
                 /\ \A k \in 1 .. n : f[k - 1] \in D[k - 1] /\ f[k] = Round[<<k, f[k - 1]>>]
    BY <2>2, LoopExists
  <2>4. \A k \in 1 .. n : f[k] = Step(f[k - 1], k)
    BY <2>1, <2>3
  <2>5. ASSUME NEW k \in 0 .. n
        PROVE  f[k] = IF k = 0 THEN start ELSE Step(f[k - 1], k)
    <3>1. k = 0 \/ (k # 0 /\ k \in 1 .. n)
      OBVIOUS
    <3> QED
      BY <2>3, <2>4, <3>1
  <2>6. f = Body(f)
    BY <2>3, <2>5
  <2> QED
    BY <1>4, <2>6
<1>6. loop[n] \in D[n]
  <2> HIDE DEF start, Step
  <2>1. loop[0] = start /\ \A k \in 1 .. n : loop[k] = Step(loop[k - 1], k)
    BY <1>5
  <2>2. Stays(n, D, loop)
    BY <1>2, <1>3, <2>1 DEF Stays
  <2> QED
    BY <2>2, LoopEnds
<1>7. Permutation(n) = loop[n]
  BY <1>4 DEF Permutation
<1> QED
  BY <1>1, <1>6, <1>7

\* The n items of l are those of s, taken in the order p.
Renumbers(p, s, l, n) ==
  /\ p \in [1 .. n -> 1 .. n] /\ \A j, k \in 1 .. n : p[j] = p[k] => j = k
  /\ \A k \in 1 .. n : l[k] = s[p[k]]

\* Two items that change places are still the same items.
LEMMA ExchangeRenumbers ==
  ASSUME NEW n \in Nat, NEW s, NEW l \in [1 .. n -> Values], NEW p, Renumbers(p, s, l, n),
         NEW i \in 1 .. n, NEW j \in 1 .. n
  PROVE  Renumbers(Exchanged(p, i, j), s, Exchanged(l, i, j), n)
<1>1. /\ p \in [1 .. n -> 1 .. n] /\ \A j1, j2 \in 1 .. n : p[j1] = p[j2] => j1 = j2
      /\ \A k \in 1 .. n : l[k] = s[p[k]]
  BY DEF Renumbers
<1>2. PICK q, m : q = Exchanged(p, i, j) /\ m = Exchanged(l, i, j)
  OBVIOUS
<1>3. /\ q \in [1 .. n -> 1 .. n]
      /\ \A k \in 1 .. n : q[k] = IF k = j THEN p[i] ELSE IF k = i THEN p[j] ELSE p[k]
  BY <1>1, <1>2 DEF Exchanged
<1>4. \A k \in 1 .. n : m[k] = IF k = j THEN l[i] ELSE IF k = i THEN l[j] ELSE l[k]
  BY <1>2 DEF Exchanged
<1>5. ASSUME NEW j1 \in 1 .. n, NEW j2 \in 1 .. n, q[j1] = q[j2] PROVE j1 = j2
  <2>1. PICK k1 \in 1 .. n : k1 = IF j1 = j THEN i ELSE IF j1 = i THEN j ELSE j1
    OBVIOUS
  <2>2. PICK k2 \in 1 .. n : k2 = IF j2 = j THEN i ELSE IF j2 = i THEN j ELSE j2
    OBVIOUS
  <2>3. q[j1] = p[k1] /\ q[j2] = p[k2]
    BY <1>3, <2>1, <2>2
  <2>4. p[k1] = p[k2]
    BY <1>5, <2>3
  <2>5. k1 = k2
    BY <1>1, <2>4
  <2> QED
    BY <2>1, <2>2, <2>5
<1>6. ASSUME NEW k \in 1 .. n PROVE m[k] = s[q[k]]
  BY <1>1, <1>3, <1>4
<1>7. Renumbers(q, s, m, n)
  BY <1>3, <1>5, <1>6 DEF Renumbers
<1> QED
  BY <1>2, <1>7

\* Items change places with others.
LEMMA ShuffleSound ==
  ASSUME NEW h, NEW a, Lists(h, a), NEW r \in Shuffle(h, a)
  PROVE  /\ Sound(h, a, r) /\ Answer(r) = Promise!Success /\ r.array.len = a.len
         /\ \E q : Renumbers(q, Items(h, a), Items(r.heap, r.array), a.len)
<1>1. PICK n \in Nat : n = a.len /\ Items(h, a) \in [1 .. n -> Values]
  BY ItemsOf DEF Items
<1>2. PICK p \in Permutation(n) :
        r = LET loop[k \in 0 .. n] ==
                  IF k = 0 THEN Items(h, a) ELSE Exchanged(loop[k - 1], k, p[k])
            IN  Rewritten(h, a, loop[n])
  BY <1>1 DEF Shuffle
<1> DEFINE States == [1 .. n -> Values]
           start == Items(h, a)
           D == [k \in 0 .. n |-> {s \in States : \E q : Renumbers(q, start, s, n)}]
           Step(s, k) == Exchanged(s, k, p[k])
           Body(f) == [k \in 0 .. n |-> IF k = 0 THEN start ELSE Step(f[k - 1], k)]
           Round == [q \in (1 .. n) \X States |-> Step(q[2], q[1])]
<1>3. start \in D[0]
  <2>1. PICK q : q = [k \in 1 .. n |-> k]
    OBVIOUS
  <2>2. Renumbers(q, start, start, n)
    BY <2>1 DEF Renumbers
  <2> QED
    BY <1>1, <2>2
<1>4. ASSUME NEW k \in 1 .. n, NEW s \in D[k - 1]
      PROVE  s \in States /\ Step(s, k) \in D[k]
  <2>1. k - 1 \in 0 .. n /\ k \in 0 .. n
    OBVIOUS
  <2>2. p[k] \in 1 .. n
    BY PermutationIs
  <2>3. s \in [1 .. n -> Values] /\ \E q : Renumbers(q, start, s, n)
    BY <2>1
  <2> HIDE DEF start
  <2>4. PICK q : Renumbers(q, start, s, n)
    BY <2>3
  <2>5. Renumbers(Exchanged(q, k, p[k]), start, Exchanged(s, k, p[k]), n)
    BY <2>2, <2>3, <2>4, ExchangeRenumbers
  <2>6. Exchanged(s, k, p[k]) \in States
    BY <2>2, <2>3 DEF Exchanged
  <2> QED
    BY <2>1, <2>3, <2>5, <2>6
<1> HIDE DEF D, States
<1>5. PICK loop : loop = CHOOSE f : f = Body(f)
  OBVIOUS
<1>6. loop = Body(loop)
  <2>1. \A k \in 1 .. n : \A s \in D[k - 1] :
          Round[<<k, s>>] = Step(s, k) /\ Round[<<k, s>>] \in D[k]
    BY <1>4
  <2> HIDE DEF Round, start, Step
  <2>2. Rounds(n, D, start, Round)
    BY <1>3, <2>1 DEF Rounds
  <2>3. PICK f : /\ f = [k \in 0 .. n |-> f[k]] /\ f[0] = start
                 /\ \A k \in 1 .. n : f[k - 1] \in D[k - 1] /\ f[k] = Round[<<k, f[k - 1]>>]
    BY <2>2, LoopExists
  <2>4. \A k \in 1 .. n : f[k] = Step(f[k - 1], k)
    BY <2>1, <2>3
  <2>5. ASSUME NEW k \in 0 .. n
        PROVE  f[k] = IF k = 0 THEN start ELSE Step(f[k - 1], k)
    <3>1. k = 0 \/ (k # 0 /\ k \in 1 .. n)
      OBVIOUS
    <3> QED
      BY <2>3, <2>4, <3>1
  <2>6. f = Body(f)
    BY <2>3, <2>5
  <2> QED
    BY <1>5, <2>6
<1>7. loop[n] \in D[n]
  <2> HIDE DEF start, Step
  <2>1. loop[0] = start /\ \A k \in 1 .. n : loop[k] = Step(loop[k - 1], k)
    BY <1>6
  <2>2. Stays(n, D, loop)
    BY <1>3, <1>4, <2>1 DEF Stays
  <2> QED
    BY <2>2, LoopEnds
<1>8. r = Rewritten(h, a, loop[n])
  BY <1>2, <1>5
<1>9. /\ loop[n] \in Seq(Values) /\ Len(loop[n]) = n
      /\ \E q : Renumbers(q, Items(h, a), loop[n], n)
  <2>1. loop[n] \in [1 .. n -> Values] /\ \E q : Renumbers(q, start, loop[n], n)
    BY <1>7 DEF D, States
  <2>2. PICK l : l = loop[n]
    OBVIOUS
  <2> QED
    BY <2>1, <2>2, FunctionIsSeq
<1>10. PICK vals \in Seq(Values) : vals = loop[n] /\ Len(vals) = n
  BY <1>9
<1>11. Gives(h, a, r, vals, Promise!Success)
  BY <1>1, <1>8, <1>10, AllRewritten, RewrittenGives
<1>12. r.array = a
  BY <1>8 DEF Rewritten, Done, Result
<1> QED
  BY <1>1, <1>9, <1>10, <1>11, <1>12 DEF Gives, Leaves

\* An order of the items, and what is in it.
Before(x, y, reverse) == IF reverse THEN x >= y ELSE x <= y

Ordered(s, n, reverse) == \A j, k \in 1 .. n : j < k => Before(s[j], s[k], reverse)

\* The items of w are the n of s, with v behind the first few.
Holds(w, s, n, place, v) ==
  /\ Len(w) = n + 1
  /\ \A k \in 1 .. n + 1 :
       w[k] = IF k <= place THEN s[k] ELSE IF k = place + 1 THEN v ELSE s[k - 1]

\* v belongs there.
Fits(s, n, place, v, reverse) ==
  /\ \A k \in place + 1 .. n : Before(v, s[k], reverse)
  /\ place # 0 => Before(s[place], v, reverse)

\* Before is an order, and what the less function decides goes with it.
LEMMA BeforeIs ==
  ASSUME NEW x \in Nat, NEW y \in Nat, NEW z \in Nat, NEW reverse \in BOOLEAN
  PROVE  /\ Before(x, y, reverse) /\ Before(y, z, reverse) => Before(x, z, reverse)
         /\ (IF reverse THEN x >= y ELSE x < y) => Before(x, y, reverse)
         /\ ~(IF reverse THEN x >= y ELSE x < y) => Before(y, x, reverse)
<1>1. CASE reverse = TRUE
  BY <1>1 DEF Before
<1>2. CASE reverse = FALSE
  BY <1>2 DEF Before
<1> QED
  BY <1>1, <1>2

\* An insertion puts the item where it belongs, and keeps the others.
LEMMA MovedIs ==
  ASSUME NEW s \in Seq(Values), NEW n \in Nat, n = Len(s), NEW v \in Values,
         NEW reverse \in BOOLEAN, NEW w, w = Moved(s, v, reverse)
  PROVE  /\ w \in Seq(Values)
         /\ \E place \in 0 .. n : Holds(w, s, n, place, v) /\ Fits(s, n, place, v, reverse)
<1> DEFINE Passes(x) == IF reverse THEN v >= x ELSE v < x
<1>1. PICK places : places = {k \in 0 .. n : \A j \in k + 1 .. n : Passes(s[j])}
  OBVIOUS
<1>2. n \in places /\ places \in SUBSET Nat
  BY <1>1
<1>3. PICK place : place = CHOOSE k \in places : \A j \in places : k <= j
  OBVIOUS
<1>4. place \in places /\ \A j \in places : place <= j
  <2>1. \E k \in places : \A j \in places : k <= j
    BY <1>2, LeastNumber
  <2> QED
    BY <1>3, <2>1
<1>5. place \in 0 .. n /\ \A j \in place + 1 .. n : Passes(s[j])
  BY <1>1, <1>4
<1>6. ASSUME place # 0 PROVE ~Passes(s[place])
  <2>1. SUFFICES ASSUME Passes(s[place]) PROVE FALSE
    OBVIOUS
  <2> HIDE DEF Passes
  <2>2. PICK less \in 0 .. n : less + 1 = place /\ ~(place <= less)
    <3>1. place - 1 \in 0 .. n /\ place - 1 + 1 = place /\ ~(place <= place - 1)
      BY <1>5, <1>6
    <3> QED
      BY <3>1
  <2>3. ASSUME NEW j \in less + 1 .. n PROVE Passes(s[j])
    <3>1. j = place \/ j \in place + 1 .. n
      BY <1>5, <2>2
    <3> QED
      BY <1>5, <2>1, <3>1
  <2>4. less \in places
    BY <1>1, <2>3
  <2> QED
    BY <1>4, <2>2, <2>4
<1>7. \A k \in 1 .. n : s[k] \in Nat
  BY ElementOfSeq, ValueAssumption
<1>8. Fits(s, n, place, v, reverse)
  <2>1. v \in Nat
    BY ValueAssumption
  <2>2. ASSUME NEW j \in place + 1 .. n PROVE Before(v, s[j], reverse)
    <3>1. j \in 1 .. n
      BY <1>5
    <3>2. PICK x \in Nat : x = s[j]
      BY <1>7, <3>1
    <3>3. Passes(x)
      BY <1>5, <3>2
    <3> QED
      BY <2>1, <3>2, <3>3, BeforeIs
  <2>3. ASSUME place # 0 PROVE Before(s[place], v, reverse)
    <3>1. place \in 1 .. n
      BY <1>5, <2>3
    <3>2. PICK x \in Nat : x = s[place]
      BY <1>7, <3>1
    <3>3. ~Passes(x)
      BY <1>6, <2>3, <3>2
    <3> QED
      BY <2>1, <3>2, <3>3, BeforeIs
  <2> QED
    BY <2>2, <2>3 DEF Fits
<1> HIDE DEF Passes
<1>9. PICK front \in Seq(Values) : /\ front = SubSeq(s, 1, place) /\ Len(front) = place
                                   /\ \A k \in 1 .. place : front[k] = s[k]
  <2>1. place \in Nat /\ place <= Len(s)
    BY <1>5
  <2>2. /\ SubSeq(s, 1, place) \in Seq(Values) /\ Len(SubSeq(s, 1, place)) = place
        /\ \A k \in 1 .. place : SubSeq(s, 1, place)[k] = s[k]
    BY <2>1, FrontOf
  <2> QED
    BY <2>2
<1>10. PICK rear \in Seq(Values) : /\ rear = SubSeq(s, place + 1, n) /\ Len(rear) = n - place
                                   /\ \A k \in 1 .. n - place : rear[k] = s[k + place]
  <2>1. PICK m \in Nat \ {0} : m = place + 1 /\ m <= n + 1
    BY <1>5
  <2>2. /\ SubSeq(s, m, n) \in Seq(Values) /\ Len(SubSeq(s, m, n)) = n + 1 - m
        /\ \A k \in 1 .. n + 1 - m : SubSeq(s, m, n)[k] = s[k + m - 1]
    BY <2>1, PartOf
  <2>3. n + 1 - m = n - place /\ \A k \in 1 .. n - place : k + m - 1 = k + place
    BY <1>5, <2>1
  <2>4. PICK rear \in Seq(Values) : /\ rear = SubSeq(s, m, n) /\ Len(rear) = n + 1 - m
                                   /\ \A k \in 1 .. n + 1 - m : rear[k] = s[k + m - 1]
    BY <2>2
  <2>5. rear = SubSeq(s, place + 1, n) /\ Len(rear) = n - place
    BY <2>1, <2>3, <2>4
  <2>6. \A k \in 1 .. n - place : rear[k] = s[k + place]
    BY <2>3, <2>4
  <2> QED
    BY <2>5, <2>6
<1>11. PICK one \in Seq(Values) : one = <<v>> /\ Len(one) = 1 /\ one[1] = v
  BY OneItem
<1>12. PICK l \in Seq(Values) :
         /\ l = front \o one /\ Len(l) = place + 1
         /\ \A k \in 1 .. place + 1 : l[k] = IF k <= place THEN front[k] ELSE one[k - place]
  <2>1. /\ front \o one \in Seq(Values) /\ Len(front \o one) = Len(front) + Len(one)
        /\ \A k \in 1 .. Len(front) + Len(one) :
             (front \o one)[k] = IF k <= Len(front) THEN front[k] ELSE one[k - Len(front)]
    BY ConcatProperties
  <2>2. Len(front) = place /\ Len(front) + Len(one) = place + 1
    BY <1>9, <1>11
  <2>3. PICK l \in Seq(Values) : l = front \o one
    BY <2>1
  <2> QED
    BY <2>1, <2>2, <2>3
<1>13. /\ w \in Seq(Values) /\ Len(w) = n + 1
       /\ \A k \in 1 .. n + 1 : w[k] = IF k <= place + 1 THEN l[k] ELSE rear[k - (place + 1)]
  <2>1. /\ l \o rear \in Seq(Values) /\ Len(l \o rear) = Len(l) + Len(rear)
        /\ \A k \in 1 .. Len(l) + Len(rear) :
             (l \o rear)[k] = IF k <= Len(l) THEN l[k] ELSE rear[k - Len(l)]
    BY ConcatProperties
  <2>2. Len(l) + Len(rear) = n + 1
    <3>1. Len(l) = place + 1 /\ Len(rear) = n - place
      BY <1>10, <1>12
    <3> QED
      BY <1>5, <3>1
  <2>3. w = l \o rear
    BY <1>1, <1>3, <1>9, <1>10, <1>11, <1>12 DEF Moved, Passes
  <2> QED
    BY <1>12, <2>1, <2>2, <2>3
<1>14. ASSUME NEW k \in 1 .. n + 1
       PROVE  w[k] = IF k <= place THEN s[k] ELSE IF k = place + 1 THEN v ELSE s[k - 1]
  <2>1. CASE k <= place
    <3>1. k \in 1 .. place /\ k <= place + 1 /\ k \in 1 .. place + 1
      BY <1>5, <2>1
    <3> QED
      BY <1>9, <1>12, <1>13, <2>1, <3>1
  <2>2. CASE k = place + 1
    <3>1. k \in 1 .. place + 1 /\ ~(k <= place) /\ k - place = 1 /\ k <= place + 1
      BY <1>5, <2>2
    <3> QED
      BY <1>11, <1>12, <1>13, <2>2, <3>1
  <2>3. CASE k > place + 1
    <3>1. /\ ~(k <= place) /\ k # place + 1 /\ ~(k <= place + 1)
          /\ k - (place + 1) \in 1 .. n - place /\ k - (place + 1) + place = k - 1
      BY <1>5, <2>3
    <3> QED
      BY <1>10, <1>13, <3>1
  <2> QED
    BY <1>5, <2>1, <2>2, <2>3
<1> QED
  BY <1>5, <1>8, <1>13, <1>14 DEF Holds

\* Ordered items are ordered with another one where it belongs.
LEMMA StaysOrdered ==
  ASSUME NEW s \in Seq(Values), NEW n \in Nat, n = Len(s), NEW v \in Values,
         NEW reverse \in BOOLEAN, NEW w, NEW place \in 0 .. n, Holds(w, s, n, place, v),
         Fits(s, n, place, v, reverse), Ordered(s, n, reverse)
  PROVE  Ordered(w, n + 1, reverse)
<1>1. \A k \in 1 .. n : s[k] \in Nat
  BY ElementOfSeq, ValueAssumption
<1>2. v \in Nat
  BY ValueAssumption
<1>3. \A k \in 1 .. n + 1 :
        w[k] = IF k <= place THEN s[k] ELSE IF k = place + 1 THEN v ELSE s[k - 1]
  BY DEF Holds
<1>4. ASSUME NEW j \in 1 .. n + 1, NEW k \in 1 .. n + 1, j < k
      PROVE  Before(w[j], w[k], reverse)
  <2>1. CASE k <= place \/ place + 1 < j
    <3>1. PICK a \in 1 .. n, b \in 1 .. n : w[j] = s[a] /\ w[k] = s[b] /\ a < b
      <4>1. CASE k <= place
        <5>1. j \in 1 .. n /\ k \in 1 .. n /\ j <= place
          BY <1>4, <4>1
        <5> QED
          BY <1>3, <1>4, <4>1, <5>1
      <4>2. CASE place + 1 < j
        <5>1. /\ j - 1 \in 1 .. n /\ k - 1 \in 1 .. n /\ j - 1 < k - 1
              /\ ~(j <= place) /\ j # place + 1 /\ ~(k <= place) /\ k # place + 1
          BY <1>4, <4>2
        <5> QED
          BY <1>3, <5>1
      <4> QED
        BY <2>1, <4>1, <4>2
    <3> QED
      BY <3>1 DEF Ordered
  <2>2. CASE j = place + 1
    <3>1. w[j] = v /\ k - 1 \in place + 1 .. n /\ w[k] = s[k - 1]
      <4>1. ~(j <= place) /\ ~(k <= place) /\ k # place + 1 /\ k - 1 \in place + 1 .. n
        BY <1>4, <2>2
      <4> QED
        BY <1>3, <2>2, <4>1
    <3> QED
      BY <3>1 DEF Fits
  <2>3. CASE j <= place /\ place < k
    <3>1. w[j] = s[j] /\ j \in 1 .. n /\ place \in 1 .. n /\ place # 0
      BY <1>3, <2>3
    <3>2. PICK x \in Nat, y \in Nat : x = s[j] /\ y = s[place]
      BY <1>1, <3>1
    <3>3. Before(x, y, reverse)
      <4>1. j = place \/ j < place
        BY <2>3
      <4>2. Before(y, y, reverse)
        BY DEF Before
      <4> QED
        BY <3>1, <3>2, <4>1, <4>2 DEF Ordered
    <3>4. Before(y, v, reverse)
      BY <3>1, <3>2 DEF Fits
    <3>5. Before(x, v, reverse)
      BY <1>2, <3>3, <3>4, BeforeIs
    <3>6. CASE k = place + 1
      <4>1. w[k] = v
        BY <1>3, <3>6
      <4> QED
        BY <3>1, <3>2, <3>5, <4>1
    <3>7. CASE k # place + 1
      <4>1. ~(k <= place) /\ k - 1 \in place + 1 .. n /\ k - 1 \in 1 .. n
        BY <2>3, <3>7
      <4>2. PICK z \in Nat : z = s[k - 1] /\ w[k] = z
        BY <1>1, <1>3, <3>7, <4>1
      <4>3. Before(v, z, reverse)
        BY <4>1, <4>2 DEF Fits
      <4>4. Before(x, z, reverse)
        BY <1>2, <3>5, <4>3, BeforeIs
      <4> QED
        BY <3>1, <3>2, <4>2, <4>4
    <3> QED
      BY <3>6, <3>7
  <2> QED
    BY <1>4, <2>1, <2>2, <2>3
<1> QED
  BY <1>4 DEF Ordered

\* ... and they are the items of before, and that one.
LEMMA StaysRenumbered ==
  ASSUME NEW all \in Seq(Values), NEW s \in Seq(Values), NEW n \in Nat, n = Len(s),
         NEW p, Renumbers(p, all, s, n), NEW w, NEW place \in 0 .. n,
         Holds(w, s, n, place, all[n + 1])
  PROVE  \E q : Renumbers(q, all, w, n + 1)
<1>1. PICK m \in Nat : m = n + 1 /\ m \in 1 .. m
  OBVIOUS
<1>2. /\ p \in [1 .. n -> 1 .. n] /\ \A j, k \in 1 .. n : p[j] = p[k] => j = k
      /\ \A k \in 1 .. n : s[k] = all[p[k]]
  BY DEF Renumbers
<1>3. \A k \in 1 .. m :
        w[k] = IF k <= place THEN s[k] ELSE IF k = place + 1 THEN all[m] ELSE s[k - 1]
  BY <1>1 DEF Holds
<1>4. PICK q : q = [k \in 1 .. m |-> IF k <= place THEN p[k]
                                     ELSE IF k = place + 1 THEN m ELSE p[k - 1]]
  OBVIOUS
<1>5. ASSUME NEW k \in 1 .. m
      PROVE  \/ k = place + 1 /\ q[k] = m /\ w[k] = all[m]
             \/ k # place + 1 /\ \E j \in 1 .. n : /\ j = (IF k <= place THEN k ELSE k - 1)
                                                   /\ q[k] = p[j] /\ w[k] = s[j]
  <2>1. CASE k <= place
    <3>1. k # place + 1 /\ k \in 1 .. n
      BY <2>1
    <3> QED
      BY <1>3, <1>4, <2>1, <3>1
  <2>2. CASE k = place + 1
    <3>1. ~(k <= place)
      BY <2>2
    <3> QED
      BY <1>3, <1>4, <2>2, <3>1
  <2>3. CASE k > place + 1
    <3>1. ~(k <= place) /\ k # place + 1 /\ k - 1 \in 1 .. n
      BY <1>1, <2>3
    <3> QED
      BY <1>3, <1>4, <3>1
  <2> QED
    BY <2>1, <2>2, <2>3
<1>6. \A k \in 1 .. n : p[k] \in 1 .. m /\ p[k] # m
  BY <1>1, <1>2
<1>7. q \in [1 .. m -> 1 .. m]
  <2>1. ASSUME NEW k \in 1 .. m PROVE q[k] \in 1 .. m
    BY <1>1, <1>5, <1>6
  <2> QED
    BY <1>4, <2>1
<1>8. ASSUME NEW k \in 1 .. m PROVE w[k] = all[q[k]]
  BY <1>2, <1>5
<1>9. ASSUME NEW j \in 1 .. m, NEW k \in 1 .. m, q[j] = q[k] PROVE j = k
  <2>1. CASE j = place + 1
    BY <1>5, <1>6, <1>9, <2>1
  <2>2. CASE k = place + 1
    BY <1>5, <1>6, <1>9, <2>2
  <2>3. CASE j # place + 1 /\ k # place + 1
    <3>1. PICK a \in 1 .. n : a = (IF j <= place THEN j ELSE j - 1) /\ q[j] = p[a]
      BY <1>5, <2>3
    <3>2. PICK b \in 1 .. n : b = (IF k <= place THEN k ELSE k - 1) /\ q[k] = p[b]
      BY <1>5, <2>3
    <3>3. p[a] = p[b]
      BY <1>9, <3>1, <3>2
    <3>4. a = b
      BY <1>2, <3>3
    <3> QED
      BY <2>3, <3>1, <3>2, <3>4
  <2> QED
    BY <2>1, <2>2, <2>3
<1>10. Renumbers(q, all, w, m)
  BY <1>7, <1>8, <1>9 DEF Renumbers
<1> QED
  BY <1>1, <1>10

\* Every item is put where it belongs among those before it.
LEMMA SortSound ==
  ASSUME NEW h, NEW a, Lists(h, a), NEW reverse \in BOOLEAN, NEW r, r = Sort(h, a, reverse)
  PROVE  /\ Sound(h, a, r) /\ Answer(r) = Promise!Success /\ r.array.len = a.len
         /\ Ordered(Items(r.heap, r.array), a.len, reverse)
         /\ \E q : Renumbers(q, Items(h, a), Items(r.heap, r.array), a.len)
<1>1. PICK n \in Nat, all \in Seq(Values) :
        /\ n = a.len /\ all = Items(h, a)
        /\ \A k \in 1 .. n : all[k] \in Values /\ At(h, a, k - 1) = all[k]
  BY ItemsOf
<1> DEFINE States == Seq(Values)
           Good(s, k) == /\ Len(s) = k /\ Ordered(s, k, reverse)
                         /\ \E q : Renumbers(q, all, s, k)
           D == [k \in 0 .. n |-> {s \in States : Good(s, k)}]
           start == <<>>
           Step(s, k) == Moved(s, At(h, a, k - 1), reverse)
           Body(f) == [k \in 0 .. n |-> IF k = 0 THEN start ELSE Step(f[k - 1], k)]
           Round == [q \in (1 .. n) \X States |-> Step(q[2], q[1])]
<1>2. start \in D[0]
  <2>1. Renumbers(<<>>, all, start, 0)
    BY DEF Renumbers
  <2>2. Ordered(start, 0, reverse)
    BY DEF Ordered
  <2> QED
    BY <2>1, <2>2, EmptySeq
<1>3. ASSUME NEW k \in 1 .. n, NEW s \in D[k - 1]
      PROVE  s \in States /\ Step(s, k) \in D[k]
  <2>1. k - 1 \in 0 .. n /\ k \in 0 .. n
    OBVIOUS
  <2>2. PICK m \in Nat : m = k - 1 /\ m + 1 = k
    OBVIOUS
  <2>3. s \in Seq(Values) /\ Len(s) = m /\ Ordered(s, m, reverse) /\ \E p : Renumbers(p, all, s, m)
    BY <2>1, <2>2
  <2>4. PICK p : Renumbers(p, all, s, m)
    BY <2>3
  <2>5. PICK v \in Values : v = At(h, a, k - 1) /\ v = all[m + 1]
    BY <1>1, <2>2
  <2>6. PICK w : w = Moved(s, v, reverse)
    OBVIOUS
  <2>7. /\ w \in Seq(Values)
        /\ \E place \in 0 .. m : Holds(w, s, m, place, v) /\ Fits(s, m, place, v, reverse)
    BY <2>3, <2>6, MovedIs
  <2>8. PICK place \in 0 .. m : Holds(w, s, m, place, v) /\ Fits(s, m, place, v, reverse)
    BY <2>7
  <2>9. Ordered(w, m + 1, reverse)
    BY <2>3, <2>8, StaysOrdered
  <2>10. \E q : Renumbers(q, all, w, m + 1)
    <3>1. Holds(w, s, m, place, all[m + 1])
      BY <2>5, <2>8
    <3> QED
      BY <2>3, <2>4, <3>1, StaysRenumbered
  <2>11. Len(w) = k
    BY <2>2, <2>8 DEF Holds
  <2>12. Step(s, k) = w
    BY <2>5, <2>6
  <2>13. Good(w, k)
    BY <2>2, <2>9, <2>10, <2>11
  <2> QED
    BY <2>1, <2>3, <2>7, <2>12, <2>13
<1> HIDE DEF D, States
<1>4. PICK loop : loop = CHOOSE f : f = Body(f)
  OBVIOUS
<1>5. loop = Body(loop)
  <2>1. \A k \in 1 .. n : \A s \in D[k - 1] :
          Round[<<k, s>>] = Step(s, k) /\ Round[<<k, s>>] \in D[k]
    BY <1>3
  <2> HIDE DEF Round, start, Step
  <2>2. Rounds(n, D, start, Round)
    BY <1>2, <2>1 DEF Rounds
  <2>3. PICK f : /\ f = [k \in 0 .. n |-> f[k]] /\ f[0] = start
                 /\ \A k \in 1 .. n : f[k - 1] \in D[k - 1] /\ f[k] = Round[<<k, f[k - 1]>>]
    BY <2>2, LoopExists
  <2>4. \A k \in 1 .. n : f[k] = Step(f[k - 1], k)
    BY <2>1, <2>3
  <2>5. ASSUME NEW k \in 0 .. n
        PROVE  f[k] = IF k = 0 THEN start ELSE Step(f[k - 1], k)
    <3>1. k = 0 \/ (k # 0 /\ k \in 1 .. n)
      OBVIOUS
    <3> QED
      BY <2>3, <2>4, <3>1
  <2>6. f = Body(f)
    BY <2>3, <2>5
  <2> QED
    BY <1>4, <2>6
<1>6. loop[n] \in D[n]
  <2> HIDE DEF start, Step
  <2>1. loop[0] = start /\ \A k \in 1 .. n : loop[k] = Step(loop[k - 1], k)
    BY <1>5
  <2>2. Stays(n, D, loop)
    BY <1>2, <1>3, <2>1 DEF Stays
  <2> QED
    BY <2>2, LoopEnds
<1>7. r = Rewritten(h, a, loop[n])
  BY <1>1, <1>4 DEF Sort
<1>8. loop[n] \in Seq(Values) /\ Good(loop[n], n)
  BY <1>6 DEF D, States
<1>9. PICK vals \in Seq(Values) : vals = loop[n] /\ Len(vals) = n
  BY <1>8
<1>10. Gives(h, a, r, vals, Promise!Success)
  BY <1>1, <1>7, <1>9, AllRewritten, RewrittenGives
<1>11. r.array = a
  BY <1>7 DEF Rewritten, Done, Result
<1> QED
  BY <1>1, <1>8, <1>9, <1>10, <1>11 DEF Gives, Leaves

\* No value stands at three places.
AtMostTwice(all) ==
  \A x, y, z \in 1 .. Len(all) : x < y /\ y < z /\ all[x] = all[y] => all[z] # all[y]

\* No item stands in front of place p that equals the one there.
FirstAt(all, p) == \A q \in 1 .. p - 1 : all[q] # all[p]

\* In Unique, when items i and j are compared: l still has the first of equal
\* items, and unless a value stood at three places, no two items are equal that
\* have been compared; o says where the items of l stood in all.
Scanned(o, all, l, i, j) ==
  /\ Selects(o, all, l)
  /\ \A p \in 1 .. Len(all) : FirstAt(all, p) => \E k \in 1 .. Len(l) : o[k] = p
  /\ AtMostTwice(all) =>
       \A b, c \in 1 .. Len(l) :
         b < c /\ (b <= i \/ (b = i + 1 /\ c <= j)) => l[b] # l[c]

\* The loops of Unique begin with all items.
LEMMA ScanStart ==
  ASSUME NEW all \in Seq(Values)
  PROVE  \E o : Scanned(o, all, all, 0, 1)
<1>1. PICK n \in Nat : n = Len(all)
  BY LenProperties
<1>2. PICK o : o = [k \in 1 .. n |-> k]
  OBVIOUS
<1>3. Selects(o, all, all) /\ \A k \in 1 .. n : o[k] = k
  BY <1>1, <1>2, SelectsAll
<1>4. ASSUME NEW b \in 1 .. n, NEW c \in 1 .. n, b < c, b <= 0 \/ (b = 0 + 1 /\ c <= 1) PROVE FALSE
  BY <1>4
<1>5. Scanned(o, all, all, 0, 1)
  BY <1>1, <1>3, <1>4 DEF Scanned
<1> QED
  BY <1>5

\* Items i and j differ: j goes on.
LEMMA ScanOn ==
  ASSUME NEW all \in Seq(Values), NEW l \in Seq(Values), NEW o, NEW i \in Nat, NEW j \in Nat,
         Scanned(o, all, l, i, j), i < j, j < Len(l), l[i + 1] # l[j + 1]
  PROVE  Scanned(o, all, l, i, j + 1)
<1>1. PICK m \in Nat, jj \in Nat, ii \in Nat :
        m = Len(l) /\ jj = j + 1 /\ jj \in 1 .. m /\ ii = i + 1 /\ ii \in 1 .. m
  BY LenProperties
<1>2. AtMostTwice(all) =>
        \A b, c \in 1 .. m : b < c /\ (b <= i \/ (b = ii /\ c <= j)) => l[b] # l[c]
  BY <1>1 DEF Scanned
<1>3. ASSUME AtMostTwice(all), NEW b \in 1 .. m, NEW c \in 1 .. m, b < c,
             b <= i \/ (b = ii /\ c <= jj)
      PROVE  l[b] # l[c]
  <2>1. CASE b = ii /\ c = jj
    BY <1>1, <2>1
  <2>2. CASE ~(b = ii /\ c = jj)
    <3>1. b <= i \/ (b = ii /\ c <= j)
      BY <1>1, <1>3, <2>2
    <3> QED
      BY <1>2, <1>3, <3>1
  <2> QED
    BY <2>1, <2>2
<1>4. Scanned(o, all, l, i, jj)
  BY <1>1, <1>3 DEF Scanned
<1> QED
  BY <1>1, <1>4

\* j is at the end: i goes on.
LEMMA ScanNext ==
  ASSUME NEW all \in Seq(Values), NEW l \in Seq(Values), NEW o, NEW i \in Nat, NEW j \in Nat,
         Scanned(o, all, l, i, j), j >= Len(l)
  PROVE  Scanned(o, all, l, i + 1, i + 2)
<1>1. PICK m \in Nat, ii \in Nat : m = Len(l) /\ ii = i + 1 /\ ii + 1 = i + 2
  BY LenProperties
<1>2. AtMostTwice(all) =>
        \A b, c \in 1 .. m : b < c /\ (b <= i \/ (b = ii /\ c <= j)) => l[b] # l[c]
  BY <1>1 DEF Scanned
<1>3. ASSUME AtMostTwice(all), NEW b \in 1 .. m, NEW c \in 1 .. m, b < c,
             b <= ii \/ (b = ii + 1 /\ c <= ii + 1)
      PROVE  l[b] # l[c]
  <2>1. b <= i \/ (b = ii /\ c <= j)
    BY <1>1, <1>3
  <2> QED
    BY <1>2, <1>3, <2>1
<1>4. Scanned(o, all, l, ii, ii + 1)
  BY <1>1, <1>3 DEF Scanned
<1> QED
  BY <1>1, <1>4

\* Items i and j are equal: item j goes, and j goes on.
LEMMA ScanDrop ==
  ASSUME NEW all \in Seq(Values), NEW l \in Seq(Values), NEW o, NEW i \in Nat, NEW j \in Nat,
         Scanned(o, all, l, i, j), i < j, j < Len(l), l[i + 1] = l[j + 1]
  PROVE  \E q : Scanned(q, all, Without(l, j), i, j + 1)
<1>1. PICK n \in Nat, m \in Nat : n = Len(all) /\ m = Len(l) /\ j < m
  BY LenProperties
<1>2. PICK ii \in 1 .. m, jj \in 1 .. m : ii = i + 1 /\ jj = j + 1 /\ ii < jj
  BY <1>1
<1>3. /\ o \in [1 .. m -> 1 .. n] /\ \A k \in 1 .. m : l[k] = all[o[k]]
      /\ \A b, c \in 1 .. m : b < c => o[b] < o[c]
  BY <1>1 DEF Scanned, Selects
<1>4. AtMostTwice(all) =>
        \A b, c \in 1 .. m : b < c /\ (b <= i \/ (b = ii /\ c <= j)) => l[b] # l[c]
  BY <1>1, <1>2 DEF Scanned
<1>5. PICK w, q : w = Without(l, j) /\ q = Skip(o, m, j)
  OBVIOUS
<1>6. /\ w \in Seq(Values) /\ Len(w) = m - 1
      /\ \A k \in 1 .. m - 1 : w[k] = IF k <= j THEN l[k] ELSE l[k + 1]
  <2>1. Without(l, j) \in Seq(Values) /\ Misses(Without(l, j), l, m, j)
    BY <1>1, WithoutOne
  <2> QED
    BY <1>5, <2>1 DEF Misses
<1>7. /\ Selects(q, all, w)
      /\ \A p : (\E k \in 1 .. m - 1 : q[k] = p) <=> (\E k \in 1 .. m : o[k] = p) /\ p # o[jj]
  <2>1. Selects(o, all, l)
    BY DEF Scanned
  <2>2. Selects(Skip(o, m, j), all, w) /\ Drops(Skip(o, m, j), o, m, j)
    BY <1>1, <1>5, <2>1, LeaveOut
  <2> QED
    BY <1>2, <1>5, <2>2 DEF Drops
<1>8. ASSUME NEW p \in 1 .. n, FirstAt(all, p) PROVE \E k \in 1 .. m - 1 : q[k] = p
  <2>1. \E k \in 1 .. m : o[k] = p
    BY <1>1, <1>8 DEF Scanned
  <2>2. p # o[jj]
    <3>1. o[ii] < o[jj] /\ all[o[ii]] = all[o[jj]] /\ o[ii] \in 1 .. n /\ o[jj] \in 1 .. n
      BY <1>2, <1>3
    <3>2. o[ii] \in 1 .. o[jj] - 1
      BY <3>1
    <3> QED
      BY <1>8, <3>1, <3>2 DEF FirstAt
  <2> QED
    BY <1>7, <2>1, <2>2
<1>9. ASSUME AtMostTwice(all), NEW b \in 1 .. m - 1, NEW c \in 1 .. m - 1, b < c,
             b <= i \/ (b = ii /\ c <= jj)
      PROVE  w[b] # w[c]
  <2>1. b \in 1 .. m /\ b <= j /\ w[b] = l[b]
    <3>1. b \in 1 .. m /\ b <= j
      BY <1>2, <1>9
    <3> QED
      BY <1>6, <3>1
  <2>2. CASE c <= j
    <3>1. c \in 1 .. m /\ w[c] = l[c]
      BY <1>6, <2>2
    <3>2. b <= i \/ (b = ii /\ c <= j)
      BY <1>9, <2>2
    <3> QED
      BY <1>4, <1>9, <2>1, <3>1, <3>2
  <2>3. CASE ~(c <= j)
    <3>1. PICK d \in 1 .. m : d = c + 1 /\ w[c] = l[d] /\ b < d
      <4>1. c + 1 \in 1 .. m /\ b < c + 1
        BY <1>9
      <4> QED
        BY <1>6, <2>3, <4>1
    <3>2. CASE b <= i
      BY <1>4, <1>9, <2>1, <3>1, <3>2
    <3>3. CASE b = ii /\ c = jj
      <4>1. jj < d
        BY <3>1, <3>3
      <4>2. /\ o[ii] \in 1 .. n /\ o[jj] \in 1 .. n /\ o[d] \in 1 .. n
            /\ o[ii] < o[jj] /\ o[jj] < o[d] /\ all[o[ii]] = all[o[jj]]
        BY <1>2, <1>3, <4>1
      <4>3. all[o[d]] # all[o[jj]]
        BY <1>1, <1>9, <4>2 DEF AtMostTwice
      <4>4. l[d] # l[ii]
        BY <1>3, <4>2, <4>3
      <4> QED
        BY <2>1, <3>1, <3>3, <4>4
    <3> QED
      BY <1>2, <1>9, <2>3, <3>2, <3>3
  <2> QED
    BY <2>2, <2>3
<1>10. Scanned(q, all, w, i, jj)
  BY <1>1, <1>2, <1>6, <1>7, <1>8, <1>9 DEF Scanned
<1> QED
  BY <1>2, <1>5, <1>10

\* So far the loops have got after k rounds: the inner one is over after at most
\* n of them.
Progress(n, k, i, j) == i < j /\ (j <= n \/ j = i + 1) /\ k + i + 1 <= i * n + j

\* Either loop goes on by one in a round.
LEMMA ProgressOn ==
  ASSUME NEW n \in Nat, NEW k \in Nat, NEW i \in Nat, NEW j \in Nat, Progress(n, k, i, j), n > 0
  PROVE  /\ Progress(n, k + 1, i + 1, i + 2)
         /\ j < n => Progress(n, k + 1, i, j + 1)
<1>1. PICK rounds \in Nat : rounds = i * n
  OBVIOUS
<1>2. (i + 1) * n = rounds + n
  BY <1>1
<1>3. i < j /\ (j <= n \/ j = i + 1) /\ k + i + 1 <= rounds + j
  BY <1>1 DEF Progress
<1>4. k + 1 + (i + 1) + 1 <= rounds + n + (i + 2)
  BY <1>3
<1>5. Progress(n, k + 1, i + 1, i + 2)
  BY <1>2, <1>4 DEF Progress
<1>6. ASSUME j < n PROVE Progress(n, k + 1, i, j + 1)
  BY <1>1, <1>3, <1>6 DEF Progress
<1> QED
  BY <1>5, <1>6

\* n * n rounds are enough.
LEMMA ProgressEnds ==
  ASSUME NEW n \in Nat, NEW i \in Nat, NEW j \in Nat, Progress(n, n * n, i, j)
  PROVE  n <= i
<1>1. SUFFICES ASSUME i < n PROVE FALSE
  OBVIOUS
<1>2. PICK square \in Nat, rounds \in Nat : square = n * n /\ rounds = i * n
  OBVIOUS
<1>3. rounds + n <= square
  <2>1. (i + 1) * n = rounds + n
    BY <1>2
  <2>2. i + 1 <= n
    BY <1>1
  <2>3. (i + 1) * n <= n * n
    BY <2>2
  <2> QED
    BY <1>2, <2>1, <2>3
<1>4. (j <= n \/ j = i + 1) /\ square + i + 1 <= rounds + j
  BY <1>2 DEF Progress
<1> QED
  BY <1>1, <1>3, <1>4

\* An item that was there before goes, those behind it move up.
LEMMA UniqueSound ==
  ASSUME NEW h, NEW a, Lists(h, a), NEW r, r = Unique(h, a)
  PROVE  /\ Sound(h, a, r) /\ Answer(r) = Promise!Success
         /\ \E i \in Nat, j \in Nat : \E o :
              /\ Scanned(o, Items(h, a), Items(r.heap, r.array), i, j)
              /\ r.array.len <= i
<1>1. PICK len \in Nat, all \in Seq(Values) : len = a.len /\ all = Items(h, a) /\ Len(all) = len
  BY ItemsOf
<1>2. PICK n \in Nat : n = len * len /\ n = a.len * a.len
  BY <1>1
<1> DEFINE States == [heap : Seq(Seq(Values)), slice : Slices, i : Nat, j : Nat]
           start == [heap |-> h, slice |-> a, i |-> 0, j |-> 1]
           Good(s, k) == /\ Follows(Values, h, a, s.heap, s.slice)
                         /\ s.slice.len <= len /\ Progress(len, k, s.i, s.j)
                         /\ \E o : Scanned(o, all, Items(s.heap, s.slice), s.i, s.j)
           D == [k \in 0 .. n |-> {s \in States : Good(s, k)}]
           Step(s, k) == UniqueRound(s)
           Body(f) == [k \in 0 .. n |-> IF k = 0 THEN start ELSE Step(f[k - 1], k)]
           Round == [q \in (1 .. n) \X States |-> Step(q[2], q[1])]
<1>3. start \in D[0]
  <2>1. Follows(Values, h, a, h, a) /\ start \in States
    BY SelfFollows DEF Lists, Lies
  <2>2. \E o : Scanned(o, all, all, 0, 1)
    BY ScanStart
  <2>3. Progress(len, 0, 0, 1)
    BY DEF Progress
  <2>4. Good(start, 0)
    BY <1>1, <2>1, <2>2, <2>3
  <2> QED
    BY <2>1, <2>4
<1>4. ASSUME NEW k \in 1 .. n, NEW s \in D[k - 1]
      PROVE  s \in States /\ Step(s, k) \in D[k]
  <2>1. PICK b \in Nat : b = k - 1 /\ b + 1 = k /\ b \in 0 .. n /\ k \in 0 .. n
    OBVIOUS
  <2>2. s \in States /\ Good(s, b)
    BY <2>1
  <2>3. \A u : u \in States /\ Good(u, k) => u \in D[k]
    BY <2>1
  <2> HIDE DEF D
  <2>4. PICK g \in Seq(Seq(Values)), t \in Slices, i \in Nat, j \in Nat :
          s = [heap |-> g, slice |-> t, i |-> i, j |-> j]
    BY <2>2
  <2>5. /\ Follows(Values, h, a, g, t) /\ Lists(g, t) /\ Progress(len, b, i, j)
        /\ \E o : Scanned(o, all, Items(g, t), i, j)
    BY <2>2, <2>4 DEF Follows, Lists
  <2>6. PICK m \in Nat, l \in Seq(Values) :
          m = t.len /\ m <= len /\ l = Items(g, t) /\ Len(l) = m
    BY <2>2, <2>4, <2>5, ItemsOf
  <2>7. PICK o : Scanned(o, all, l, i, j)
    BY <2>5, <2>6
  <2>8. /\ len > 0 /\ i < j /\ Progress(len, k, i + 1, i + 2)
        /\ j < len => Progress(len, k, i, j + 1)
    <3>1. len > 0
      <4>1. len # 0
        BY <1>2
      <4> QED
        BY <4>1
    <3>2. /\ Progress(len, b + 1, i + 1, i + 2)
          /\ j < len => Progress(len, b + 1, i, j + 1)
      BY <2>5, <3>1, ProgressOn
    <3> QED
      BY <2>1, <2>5, <3>1, <3>2 DEF Progress
  <2>9. ASSUME j < m PROVE At(g, t, i) = l[i + 1] /\ At(g, t, j) = l[j + 1]
    <3>1. PICK p \in 1 .. m, q \in 1 .. m : p = i + 1 /\ p - 1 = i /\ q = j + 1 /\ q - 1 = j
      <4>1. i + 1 \in 1 .. m /\ j + 1 \in 1 .. m /\ i + 1 - 1 = i /\ j + 1 - 1 = j
        BY <2>8, <2>9
      <4> QED
        BY <4>1
    <3>2. At(g, t, p - 1) = Items(g, t)[p] /\ At(g, t, q - 1) = Items(g, t)[q]
      BY <2>5, <2>6, ItemsOf
    <3> QED
      BY <2>6, <3>1, <3>2
  <2>10. CASE j >= m
    <3>1. PICK u : u = [heap |-> g, slice |-> t, i |-> i + 1, j |-> i + 2]
      OBVIOUS
    <3>2. UniqueRound(s) = u
      <4>1. s.j >= s.slice.len /\ ~(s.j < s.slice.len) /\ s.i = i
        BY <2>4, <2>6, <2>10
      <4>2. UniqueRound(s) = [s EXCEPT !.i = i + 1, !.j = i + 2]
        BY <4>1 DEF UniqueRound
      <4> QED
        BY <2>4, <3>1, <4>2
    <3>3. u \in States
      BY <3>1
    <3>4. Scanned(o, all, l, i + 1, i + 2)
      BY <2>6, <2>7, <2>10, ScanNext
    <3>5. Good(u, k)
      BY <2>5, <2>6, <2>8, <3>1, <3>4
    <3> QED
      BY <2>2, <2>3, <3>2, <3>3, <3>5
  <2>11. CASE j < m /\ l[i + 1] = l[j + 1]
    <3>1. PICK less : less = CloseUp(g, t, j)
      OBVIOUS
    <3>2. /\ Follows(Values, g, t, less.heap, less.slice) /\ less.slice.len = m - 1
          /\ Items(less.heap, less.slice) = SubSeq(l, 1, j) \o SubSeq(l, j + 2, m)
      <4>1. /\ Makes(Values, g, t, SubSeq(Items(g, t), 1, j) \o SubSeq(Items(g, t), j + 2, t.len),
                     CloseUp(g, t, j))
            /\ CloseUp(g, t, j).slice.len = t.len - 1
        BY <2>5, <2>6, <2>11, CloseUpMakes
      <4> QED
        BY <2>6, <3>1, <4>1 DEF Makes
    <3>3. Follows(Values, h, a, less.heap, less.slice)
      BY <2>5, <3>2, Transitive DEF Lists
    <3>4. PICK u : u = [heap |-> less.heap, slice |-> less.slice, i |-> i, j |-> j + 1]
      OBVIOUS
    <3>5. UniqueRound(s) = u
      <4>1. ~(s.j >= s.slice.len) /\ s.j < s.slice.len /\ At(g, t, i) = At(g, t, j)
        BY <2>4, <2>6, <2>9, <2>11
      <4> QED
        BY <2>4, <3>1, <3>4, <4>1 DEF UniqueRound
    <3>6. u \in States
      BY <3>3, <3>4 DEF Follows, Lies
    <3>7. \E q : Scanned(q, all, Without(l, j), i, j + 1)
      BY <2>6, <2>7, <2>8, <2>11, ScanDrop
    <3>8. Items(less.heap, less.slice) = Without(l, j)
      BY <2>6, <3>2, Zenon DEF Without
    <3>9. m - 1 <= len /\ j < len
      BY <2>6, <2>11
    <3>10. Good(u, k)
      BY <2>8, <3>2, <3>3, <3>4, <3>7, <3>8, <3>9
    <3> QED
      BY <2>2, <2>3, <3>5, <3>6, <3>10
  <2>12. CASE j < m /\ l[i + 1] # l[j + 1]
    <3>1. PICK u : u = [heap |-> g, slice |-> t, i |-> i, j |-> j + 1]
      OBVIOUS
    <3>2. UniqueRound(s) = u
      <4>1. ~(s.j >= s.slice.len) /\ At(g, t, i) # At(g, t, j)
        BY <2>4, <2>6, <2>9, <2>12
      <4> QED
        BY <2>4, <3>1, <4>1 DEF UniqueRound
    <3>3. u \in States
      BY <3>1
    <3>4. Scanned(o, all, l, i, j + 1)
      BY <2>6, <2>7, <2>8, <2>12, ScanOn
    <3>5. j < len
      BY <2>6, <2>12
    <3>6. Good(u, k)
      BY <2>5, <2>6, <2>8, <3>1, <3>4, <3>5
    <3> QED
      BY <2>2, <2>3, <3>2, <3>3, <3>6
  <2>13. j >= m \/ j < m
    BY <2>6
  <2> QED
    BY <2>10, <2>11, <2>12, <2>13
<1>5. \A s : s \in D[n] => s \in States /\ Good(s, n)
  OBVIOUS
<1> HIDE DEF D, States
<1>6. PICK loop : loop = CHOOSE f : f = Body(f)
  OBVIOUS
<1>7. loop = Body(loop)
  <2>1. \A k \in 1 .. n : \A s \in D[k - 1] :
          Round[<<k, s>>] = Step(s, k) /\ Round[<<k, s>>] \in D[k]
    BY <1>4
  <2> HIDE DEF Round, start, Step
  <2>2. Rounds(n, D, start, Round)
    BY <1>3, <2>1 DEF Rounds
  <2>3. PICK f : /\ f = [k \in 0 .. n |-> f[k]] /\ f[0] = start
                 /\ \A k \in 1 .. n : f[k - 1] \in D[k - 1] /\ f[k] = Round[<<k, f[k - 1]>>]
    BY <2>2, LoopExists
  <2>4. \A k \in 1 .. n : f[k] = Step(f[k - 1], k)
    BY <2>1, <2>3
  <2>5. ASSUME NEW k \in 0 .. n
        PROVE  f[k] = IF k = 0 THEN start ELSE Step(f[k - 1], k)
    <3>1. k = 0 \/ (k # 0 /\ k \in 1 .. n)
      OBVIOUS
    <3> QED
      BY <2>3, <2>4, <3>1
  <2>6. f = Body(f)
    BY <2>3, <2>5
  <2> QED
    BY <1>6, <2>6
<1>8. loop[n] \in D[n]
  <2> HIDE DEF start, Step
  <2>1. loop[0] = start /\ \A k \in 1 .. n : loop[k] = Step(loop[k - 1], k)
    BY <1>7
  <2>2. Stays(n, D, loop)
    BY <1>3, <1>4, <2>1 DEF Stays
  <2> QED
    BY <2>2, LoopEnds
<1>9. r = Done(loop[n])
  BY <1>2, <1>6 DEF Unique
<1>10. loop[n] \in States /\ Good(loop[n], n)
  BY <1>5, <1>8
<1>11. loop[n].i \in Nat /\ loop[n].j \in Nat
  BY <1>10 DEF States
<1>12. loop[n].slice.len <= loop[n].i
  <2>1. PICK i \in Nat, j \in Nat : i = loop[n].i /\ j = loop[n].j
    BY <1>11
  <2>2. len <= i
    BY <1>2, <1>10, <2>1, ProgressEnds
  <2>3. PICK m \in Nat : m = loop[n].slice.len
    BY <1>10, ItemsOf DEF Follows, Lists
  <2> QED
    BY <1>10, <2>1, <2>2, <2>3
<1>13. r.heap = loop[n].heap /\ r.array = loop[n].slice
  BY <1>9 DEF Done, Result
<1>14. Answer(r) = Promise!Success
  <2>1. r.ok = TRUE /\ r.vals = <<>> /\ r.slices = <<>> /\ r.panic = FALSE
    BY <1>9 DEF Done, Result
  <2> QED
    BY <2>1, NoContents DEF Answer, Promise!Success, Promise!Reply
<1> QED
  BY <1>1, <1>10, <1>11, <1>12, <1>13, <1>14 DEF Sound

\* Fill writes over the items from an index on, and behind them.
LEMMA FillGives ==
  ASSUME NEW h, NEW a, Lists(h, a), NEW start \in Int, NEW num \in Int, NEW v \in Values,
         NEW m \in Nat, m = IF a.len < start + num THEN start + num ELSE a.len
  PROVE  /\ start \in 0 .. a.len =>
              Gives(h, a, Fill(h, a, start, num, v),
                    [k \in 1 .. m |-> IF k \in start + 1 .. start + num THEN v
                                      ELSE Items(h, a)[k]], Promise!Success)
         /\ start \notin 0 .. a.len =>
              Gives(h, a, Fill(h, a, start, num, v), Items(h, a), Promise!Failure)
<1>1. PICK len \in Nat : len = a.len
  BY ItemsOf
<1>2. ASSUME start \notin 0 .. len
      PROVE  Gives(h, a, Fill(h, a, start, num, v), Items(h, a), Promise!Failure)
  <2>1. start < 0 \/ start > a.len
    BY <1>1, <1>2
  <2>2. Fill(h, a, start, num, v) = Failed(h, a)
    BY <2>1 DEF Fill
  <2> QED
    BY <2>2, FailedGives
<1>3. SUFFICES ASSUME start \in 0 .. len
               PROVE  Gives(h, a, Fill(h, a, start, num, v),
                            [k \in 1 .. m |-> IF k \in start + 1 .. start + num THEN v
                                              ELSE Items(h, a)[k]], Promise!Success)
  BY <1>1, <1>2
<1>4. PICK n \in Nat : n = IF num > 0 THEN num ELSE 0
  OBVIOUS
<1> DEFINE Length(k) == IF len < start + k THEN start + k ELSE len
           Good(s, k) ==
             /\ Follows(Values, h, a, s.heap, s.slice) /\ s.slice.len = Length(k)
             /\ \A j \in 1 .. Length(k) :
                  Items(s.heap, s.slice)[j] =
                    IF j \in start + 1 .. start + k THEN v ELSE Items(h, a)[j]
           States == [heap : Seq(Seq(Values)), slice : Slices]
           D == [k \in 0 .. n |-> {s \in States : Good(s, k)}]
           begin == [heap |-> h, slice |-> a]
           Step(s, k) == FillRound(s, start + k - 1, v)
           Body(f) == [k \in 0 .. n |-> IF k = 0 THEN begin ELSE Step(f[k - 1], k)]
           Round == [q \in (1 .. n) \X States |-> Step(q[2], q[1])]
<1>5. \A k \in 0 .. n : \A s : s \in D[k] <=> s \in States /\ Good(s, k)
  OBVIOUS
<1> HIDE DEF D
<1>6. begin \in D[0]
  <2>1. begin \in States
    BY DEF Lists, Lies
  <2>2. Follows(Values, h, a, h, a)
    BY SelfFollows DEF Lists
  <2>3. Length(0) = len /\ \A j \in 1 .. len : j \notin start + 1 .. start + 0
    BY <1>3
  <2>4. Good(begin, 0)
    BY <1>1, <2>2, <2>3
  <2> QED
    BY <1>5, <2>1, <2>4
<1>7. ASSUME NEW k \in 1 .. n, NEW s \in D[k - 1]
      PROVE  s \in States /\ Step(s, k) \in D[k]
  <2>1. k - 1 \in 0 .. n /\ k \in 0 .. n
    OBVIOUS
  <2>2. s \in States /\ Good(s, k - 1)
    BY <1>5, <2>1
  <2>3. PICK g \in Seq(Seq(Values)), t \in Slices : s = [heap |-> g, slice |-> t]
    BY <2>2
  <2>4. Follows(Values, h, a, g, t) /\ Lists(g, t)
    BY <2>2, <2>3 DEF Follows, Lists
  <2>5. PICK w \in Nat, i \in Nat : w = Length(k - 1) /\ i = start + k - 1
    BY <1>3
  <2>6. PICK l \in Seq(Values) : /\ l = Items(g, t) /\ Len(l) = w /\ t.len = w
                                 /\ \A j \in 1 .. w : l[j] = IF j \in start + 1 .. i THEN v ELSE Items(h, a)[j]
    <3>1. t.len = w /\ \A j \in 1 .. w :
            Items(g, t)[j] = IF j \in start + 1 .. start + (k - 1) THEN v ELSE Items(h, a)[j]
      BY <2>2, <2>3, <2>5
    <3>2. start + (k - 1) = i
      BY <2>5
    <3>3. Items(g, t) \in Seq(Values) /\ Len(Items(g, t)) = t.len
      BY <2>4, ItemsOf
    <3> QED
      BY <3>1, <3>2, <3>3
  <2>7. start + k = i + 1
    BY <2>5
  <2>8. PICK one \in Seq(Values) : one = <<v>> /\ Len(one) = 1 /\ one[1] = v
    BY OneItem
  <2>9. ASSUME NEW u, u \in States, Follows(Values, h, a, u.heap, u.slice),
               u.slice.len = Length(k),
               \A j \in 1 .. Length(k) : Items(u.heap, u.slice)[j] =
                  IF j \in start + 1 .. i + 1 THEN v ELSE Items(h, a)[j]
        PROVE  u \in D[k]
    BY <1>5, <2>1, <2>7, <2>9
  <2>10. CASE i > w - 1
    <3>1. i = w /\ Length(k) = w + 1
      BY <1>3, <2>5, <2>10
    <3>2. PICK u : u = Appended(g, t, one)
      OBVIOUS
    <3>3. Makes(Values, h, a, l \o one, u)
      BY <2>4, <2>6, <3>2, AppendedOf
    <3>4. /\ l \o one \in Seq(Values) /\ Len(l \o one) = w + 1
          /\ \A j \in 1 .. w + 1 : (l \o one)[j] = IF j <= w THEN l[j] ELSE one[j - w]
      BY <2>6, <2>8, ConcatProperties
    <3>5. \A j \in 1 .. w + 1 :
            (l \o one)[j] = IF j \in start + 1 .. i + 1 THEN v ELSE Items(h, a)[j]
      <4>1. ASSUME NEW j \in 1 .. w
            PROVE  (l \o one)[j] = IF j \in start + 1 .. i + 1 THEN v ELSE Items(h, a)[j]
        <5>1. j \in 1 .. w + 1 /\ j <= w
          OBVIOUS
        <5>2. j \in start + 1 .. i <=> j \in start + 1 .. i + 1
          BY <3>1
        <5> QED
          BY <2>6, <3>4, <5>1, <5>2
      <4>2. (l \o one)[w + 1] = v /\ w + 1 \in start + 1 .. i + 1
        <5>1. PICK e \in 1 .. w + 1 : e = w + 1 /\ ~(e <= w) /\ e - w = 1
          OBVIOUS
        <5>2. (l \o one)[e] = one[1]
          BY <3>4, <5>1
        <5>3. start <= i
          BY <1>3, <2>5
        <5>4. e \in start + 1 .. i + 1
          BY <3>1, <5>1, <5>3
        <5> QED
          BY <2>8, <5>1, <5>2, <5>4
      <4>3. \A j \in 1 .. w + 1 : j \in 1 .. w \/ j = w + 1
        OBVIOUS
      <4> QED
        BY <4>1, <4>2, <4>3
    <3>6. u \in States
      <4>1. u = [heap |-> u.heap, slice |-> u.slice]
        BY <3>2 DEF Appended, Fresh
      <4>2. u.heap \in Seq(Seq(Values)) /\ u.slice \in Slices
        BY <3>3 DEF Makes, Follows, Lies
      <4> QED
        BY <4>1, <4>2
    <3>7. Items(u.heap, u.slice) = l \o one /\ u.slice.len = w + 1
      BY <3>3, <3>4 DEF Makes
    <3>8. u \in D[k]
      BY <2>9, <3>1, <3>3, <3>5, <3>6, <3>7 DEF Makes
    <3>9. Step(s, k) = u
      BY <2>3, <2>5, <2>6, <2>8, <2>10, <3>2 DEF FillRound
    <3> QED
      BY <2>2, <3>8, <3>9
  <2>11. CASE ~(i > w - 1)
    <3>1. i < w /\ Length(k) = w
      BY <1>3, <2>5, <2>11
    <3>2. PICK f : f = Written(g, t, i, one)
      OBVIOUS
    <3>3. /\ Follows(Values, g, t, f, t)
          /\ \A j \in 1 .. w : Items(f, t)[j] = IF j - i \in 1 .. 1 THEN one[j - i] ELSE l[j]
      <4>1. PICK c \in Nat : c = Capacity(g, t) /\ w <= c
        BY <2>4, <2>6, ItemsOfSlice DEF Lists, Lies
      <4>2. i + Len(one) <= Capacity(g, t)
        BY <2>8, <3>1, <4>1
      <4>3. /\ Follows(Values, g, t, f, t)
            /\ \A j \in 1 .. t.len : Items(f, t)[j] =
                 IF j - i \in 1 .. Len(one) THEN one[j - i] ELSE Items(g, t)[j]
        <5>1. Lies(Values, g, t) /\ i \in Nat /\ one \in Seq(Values)
          BY <2>4, <2>8 DEF Lists
        <5>2. /\ Follows(Values, g, t, Written(g, t, i, one), t)
              /\ \A j \in 1 .. t.len : Items(Written(g, t, i, one), t)[j] =
                   IF j - i \in 1 .. Len(one) THEN one[j - i] ELSE Items(g, t)[j]
              /\ t.block # 0 => \A j \in 1 .. Len(one) :
                                  Written(g, t, i, one)[t.block][t.off + i + j] = one[j]
          BY <4>2, <5>1, WrittenFollows
        <5> QED
          BY <3>2, <5>2
      <4> QED
        BY <2>6, <2>8, <4>3
    <3>4. Follows(Values, h, a, f, t)
      BY <2>4, <3>3, Transitive DEF Lists
    <3>5. ASSUME NEW j \in 1 .. w
          PROVE  Items(f, t)[j] = IF j \in start + 1 .. i + 1 THEN v ELSE Items(h, a)[j]
      <4>1. CASE j = i + 1
        <5>1. start <= i
          BY <1>3, <2>5
        <5>2. j - i = 1 /\ j \in start + 1 .. i + 1
          BY <4>1, <5>1
        <5>3. one[1] = v /\ one[j - i] = one[1]
          BY <2>8, <5>2
        <5>4. Items(f, t)[j] = one[j - i]
          BY <3>3, <5>2
        <5> QED
          BY <5>2, <5>3, <5>4
      <4>2. CASE j # i + 1
        <5>1. j - i \notin 1 .. 1 /\ (j \in start + 1 .. i + 1 <=> j \in start + 1 .. i)
          BY <4>2
        <5> QED
          BY <2>6, <3>3, <5>1
      <4> QED
        BY <4>1, <4>2
    <3>6. PICK u : u = [heap |-> f, slice |-> t]
      OBVIOUS
    <3>7. u \in States
      BY <3>4, <3>6 DEF Follows, Lies
    <3>8. u \in D[k]
      BY <2>6, <2>9, <3>1, <3>4, <3>5, <3>6, <3>7
    <3>9. Step(s, k) = u
      BY <2>3, <2>5, <2>6, <2>8, <2>11, <3>2, <3>6 DEF FillRound
    <3> QED
      BY <2>2, <3>8, <3>9
  <2> QED
    BY <2>10, <2>11
<1> HIDE DEF States
<1>8. PICK loop : loop = CHOOSE f : f = Body(f)
  OBVIOUS
<1>9. loop = Body(loop)
  <2>1. \A k \in 1 .. n : \A s \in D[k - 1] :
          Round[<<k, s>>] = Step(s, k) /\ Round[<<k, s>>] \in D[k]
    BY <1>7
  <2> HIDE DEF Round, begin, Step
  <2>2. Rounds(n, D, begin, Round)
    BY <1>6, <2>1 DEF Rounds
  <2>3. PICK f : /\ f = [k \in 0 .. n |-> f[k]] /\ f[0] = begin
                 /\ \A k \in 1 .. n : f[k - 1] \in D[k - 1] /\ f[k] = Round[<<k, f[k - 1]>>]
    BY <2>2, LoopExists
  <2>4. \A k \in 1 .. n : f[k] = Step(f[k - 1], k)
    BY <2>1, <2>3
  <2>5. ASSUME NEW k \in 0 .. n
        PROVE  f[k] = IF k = 0 THEN begin ELSE Step(f[k - 1], k)
    <3>1. k = 0 \/ (k # 0 /\ k \in 1 .. n)
      OBVIOUS
    <3> QED
      BY <2>3, <2>4, <3>1
  <2>6. f = Body(f)
    BY <2>3, <2>5
  <2> QED
    BY <1>8, <2>6
<1>10. loop[n] \in D[n]
  <2> HIDE DEF begin, Step
  <2>1. loop[0] = begin /\ \A k \in 1 .. n : loop[k] = Step(loop[k - 1], k)
    BY <1>9
  <2>2. Stays(n, D, loop)
    BY <1>6, <1>7, <2>1 DEF Stays
  <2> QED
    BY <2>2, LoopEnds
<1>11. Fill(h, a, start, num, v) = Done(loop[n])
  <2>1. ~(start < 0 \/ start > a.len)
    BY <1>1, <1>3
  <2> QED
    BY <1>4, <1>8, <2>1 DEF Fill
<1>12. PICK new : new = loop[n]
  OBVIOUS
<1>13. Good(new, n)
  BY <1>5, <1>10, <1>12
<1>14. PICK vals : vals = [k \in 1 .. m |-> IF k \in start + 1 .. start + num THEN v
                                            ELSE Items(h, a)[k]]
  OBVIOUS
<1>15. Length(n) = m /\ \A j \in 1 .. m : j \in start + 1 .. start + n <=> j \in start + 1 .. start + num
  BY <1>1, <1>3, <1>4
<1>16. Items(new.heap, new.slice) = vals /\ new.slice.len = m
  <2>1. new.slice.len = m
    BY <1>13, <1>15
  <2>2. Items(new.heap, new.slice) = [k \in 1 .. m |-> Items(new.heap, new.slice)[k]]
    BY <2>1 DEF Items
  <2>3. \A j \in 1 .. m : Items(new.heap, new.slice)[j] =
          IF j \in start + 1 .. start + num THEN v ELSE Items(h, a)[j]
    BY <1>13, <1>15
  <2> QED
    BY <1>14, <2>1, <2>2, <2>3
<1>17. Makes(Values, h, a, vals, new)
  <2>1. Follows(Values, h, a, new.heap, new.slice) /\ Lists(new.heap, new.slice)
    BY <1>13 DEF Follows, Lists
  <2>2. Len(vals) = new.slice.len
    BY <1>16, <2>1, ItemsOf
  <2> QED
    BY <1>16, <2>1, <2>2 DEF Makes
<1> QED
  BY <1>11, <1>12, <1>14, <1>17, DoneGives

\* What Remove returns, if the index is in range.
LEMMA RemoveShape ==
  ASSUME NEW h, NEW a, NEW i \in Int, InRange(a, i)
  PROVE  Remove(h, a, i) =
           Result(Remove(h, a, i).heap, Remove(h, a, i).array, TRUE, Remove(h, a, i).vals, <<>>)
<1>1. PICK rest : rest = CASE i = 0 -> [heap |-> h, slice |-> Cut(a, 1, a.len)]
                           [] i # 0 /\ i = a.len - 1 -> [heap |-> h, slice |-> Cut(a, 0, i)]
                           [] OTHER -> CloseUp(h, a, i)
  OBVIOUS
<1>2. Remove(h, a, i) = Result(rest.heap, rest.slice, TRUE, <<At(h, a, i)>>, <<>>)
  BY <1>1 DEF Remove
<1> QED
  BY <1>2 DEF Result

\* In PopRands, once k items of all have been drawn: vals are the ones at the
\* places draw, and l the ones at the other places, in their order.
Drawn(o, draw, all, k, l, vals) ==
  /\ Selects(o, all, l) /\ Len(l) + k = Len(all)
  /\ draw \in [1 .. k -> 1 .. Len(all)] /\ \A i, j \in 1 .. k : draw[i] = draw[j] => i = j
  /\ Len(vals) = k /\ \A j \in 1 .. k : vals[j] = all[draw[j]]
  /\ \A p \in 1 .. Len(all) :
       (\E j \in 1 .. Len(l) : o[j] = p) <=> ~ \E j \in 1 .. k : draw[j] = p

\* One more item is drawn and goes.
LEMMA DrawNext ==
  ASSUME NEW all \in Seq(Values), NEW l \in Seq(Values), NEW vals \in Seq(Values), NEW k \in Nat,
         NEW i \in Nat, i < Len(l), NEW o, NEW draw, Drawn(o, draw, all, k, l, vals),
         NEW one \in Seq(Values), Len(one) = 1, one[1] = l[i + 1]
  PROVE  \E q, next : Drawn(q, next, all, k + 1, Without(l, i), vals \o one)
<1>1. PICK n \in Nat, m \in Nat : n = Len(all) /\ m = Len(l)
  BY LenProperties
<1>2. PICK kk \in Nat, ii \in 1 .. m : kk = k + 1 /\ ii = i + 1 /\ i < m
  BY <1>1
<1>3. /\ o \in [1 .. m -> 1 .. n] /\ m + k = n
      /\ \A j \in 1 .. m : l[j] = all[o[j]]
      /\ draw \in [1 .. k -> 1 .. n] /\ \A j \in 1 .. k : vals[j] = all[draw[j]]
      /\ Len(vals) = k
  BY <1>1 DEF Drawn, Selects
<1>4. /\ \A j1, j2 \in 1 .. k : draw[j1] = draw[j2] => j1 = j2
      /\ \A p \in 1 .. n : (\E j \in 1 .. m : o[j] = p) <=> ~ \E j \in 1 .. k : draw[j] = p
  BY <1>1 DEF Drawn
<1>5. PICK w, q, taken : /\ w = Without(l, i) /\ q = Skip(o, m, i)
                         /\ taken = [j \in 1 .. kk |-> IF j = kk THEN o[ii] ELSE draw[j]]
  OBVIOUS
<1>6. w \in Seq(Values) /\ Len(w) = m - 1
  <2>1. Without(l, i) \in Seq(Values) /\ Misses(Without(l, i), l, m, i)
    BY <1>1, <1>2, WithoutOne
  <2> QED
    BY <1>5, <2>1 DEF Misses
<1>7. /\ Selects(q, all, w)
      /\ \A p : (\E j \in 1 .. m - 1 : q[j] = p) <=> (\E j \in 1 .. m : o[j] = p) /\ p # o[ii]
  <2>1. Selects(o, all, l)
    BY DEF Drawn
  <2>2. m = Len(l) /\ i < m /\ w = Without(l, i)
    BY <1>1, <1>2, <1>5
  <2>3. Selects(Skip(o, m, i), all, w) /\ Drops(Skip(o, m, i), o, m, i)
    BY <2>1, <2>2, LeaveOut
  <2> QED
    BY <1>2, <1>5, <2>3 DEF Drops
<1>8. \A j \in 1 .. kk : j = kk \/ (j # kk /\ j \in 1 .. k)
  BY <1>2
<1>9. /\ kk \in 1 .. kk /\ taken[kk] = o[ii]
      /\ \A j \in 1 .. k : j \in 1 .. kk /\ taken[j] = draw[j]
  BY <1>2, <1>5
<1>10. taken \in [1 .. kk -> 1 .. n]
  BY <1>3, <1>5, <1>8
<1>11. \A j \in 1 .. k : draw[j] # o[ii]
  BY <1>3, <1>4
<1>12. ASSUME NEW j1 \in 1 .. kk, NEW j2 \in 1 .. kk, taken[j1] = taken[j2] PROVE j1 = j2
  <2>1. CASE j1 = kk
    <3>1. ASSUME j2 \in 1 .. k PROVE FALSE
      BY <1>9, <1>11, <1>12, <2>1, <3>1
    <3> QED
      BY <1>8, <2>1, <3>1
  <2>2. CASE j1 \in 1 .. k
    <3>1. j2 \in 1 .. k
      BY <1>8, <1>9, <1>11, <1>12, <2>2
    <3>2. draw[j1] = draw[j2]
      BY <1>9, <1>12, <2>2, <3>1
    <3> QED
      BY <1>4, <2>2, <3>1, <3>2
  <2> QED
    BY <1>8, <2>1, <2>2
<1>13. PICK more \in Seq(Values) :
         /\ more = vals \o one /\ Len(more) = kk
         /\ \A j \in 1 .. kk : more[j] = IF j <= k THEN vals[j] ELSE one[j - k]
  <2>1. /\ vals \o one \in Seq(Values) /\ Len(vals \o one) = Len(vals) + Len(one)
        /\ \A j \in 1 .. Len(vals) + Len(one) :
             (vals \o one)[j] = IF j <= Len(vals) THEN vals[j] ELSE one[j - Len(vals)]
    BY ConcatProperties
  <2>2. Len(vals) = k /\ Len(vals) + Len(one) = kk
    BY <1>2, <1>3
  <2>3. PICK more \in Seq(Values) : more = vals \o one
    BY <2>1
  <2> QED
    BY <2>1, <2>2, <2>3
<1>14. ASSUME NEW j \in 1 .. kk PROVE more[j] = all[taken[j]]
  <2>1. CASE j = kk
    <3>1. more[j] = one[1]
      <4>1. kk \in 1 .. kk /\ ~(kk <= k) /\ kk - k = 1
        BY <1>2
      <4>2. more[kk] = one[kk - k]
        BY <1>13, <4>1
      <4> QED
        BY <2>1, <4>1, <4>2
    <3> QED
      BY <1>2, <1>3, <1>9, <2>1, <3>1
  <2>2. CASE j # kk
    <3>1. j \in 1 .. k
      BY <1>8, <2>2
    <3>2. j <= k
      BY <3>1
    <3> QED
      BY <1>3, <1>9, <1>13, <3>1, <3>2
  <2> QED
    BY <2>1, <2>2
<1>15. ASSUME NEW p \in 1 .. n
       PROVE  (\E j \in 1 .. m - 1 : q[j] = p) <=> ~ \E j \in 1 .. kk : taken[j] = p
  <2>1. (\E j \in 1 .. kk : taken[j] = p) <=> p = o[ii] \/ \E j \in 1 .. k : draw[j] = p
    BY <1>8, <1>9
  <2> QED
    BY <1>4, <1>7, <2>1
<1>16. (m - 1) + kk = n
  BY <1>2, <1>3
<1>17. \A j1, j2 \in 1 .. kk : taken[j1] = taken[j2] => j1 = j2
  BY <1>12
<1>18. Drawn(q, taken, all, kk, w, more)
  <2>1. Selects(q, all, w) /\ Len(w) + kk = Len(all) /\ taken \in [1 .. kk -> 1 .. Len(all)]
    BY <1>1, <1>6, <1>7, <1>10, <1>16
  <2>2. Len(more) = kk /\ \A j \in 1 .. kk : more[j] = all[taken[j]]
    BY <1>13, <1>14
  <2>3. \A p \in 1 .. Len(all) :
          (\E j \in 1 .. Len(w) : q[j] = p) <=> ~ \E j \in 1 .. kk : taken[j] = p
    BY <1>1, <1>6, <1>15
  <2> QED
    BY <1>17, <2>1, <2>2, <2>3 DEF Drawn
<1> QED
  BY <1>2, <1>5, <1>13, <1>18

\* PopRands removes one item after another, and hands out a copy of what it drew.
Draws(h, a, size, r) ==
  \E vals \in Seq(Values) :
    /\ Answer(r) = Promise!List(vals)
    /\ \E o, draw :
         Drawn(o, draw, Items(h, a), Smaller(size, a.len), Items(r.heap, r.array), vals)

\* What PopRands may answer.
LEMMA PopRandsSound ==
  ASSUME NEW h, NEW a, Lists(h, a), NEW size \in Int, NEW r \in PopRands(h, a, size)
  PROVE  /\ Sound(h, a, r) /\ HandsCopies(h, r)
         /\ size <= 0 \/ a.len = 0 => r = Failed(h, a)
         /\ size > 0 /\ a.len > 0 => Draws(h, a, size, r)
<1>1. PICK len \in Nat, all \in Seq(Values) : len = a.len /\ all = Items(h, a) /\ Len(all) = len
  BY ItemsOf
<1>2. CASE size <= 0 \/ len = 0
  <2>1. r = Failed(h, a)
    BY <1>1, <1>2 DEF PopRands
  <2>2. Leaves(h, a, Items(h, a), r) /\ HandsCopies(h, r)
    BY <2>1, Unchanged, HandsNothing DEF Failed, Result
  <2> QED
    BY <1>1, <1>2, <2>1, <2>2 DEF Leaves
<1>3. SUFFICES ASSUME size > 0, len > 0
               PROVE  Sound(h, a, r) /\ HandsCopies(h, r) /\ Draws(h, a, size, r)
  BY <1>1, <1>2
<1>4. PICK n \in Nat : n = Smaller(size, a.len) /\ n <= len
  BY <1>1, <1>3 DEF Smaller
<1> DEFINE Results == [heap : Seq(Seq(Values)), array : Slices, ok : {TRUE}, vals : Seq(Values),
                       slices : {<<>>}, panic : {FALSE}]
           Good(d, k) == /\ Follows(Values, h, a, d.heap, d.array) /\ d.array.len = len - k
                         /\ \E o, draw :
                              Drawn(o, draw, all, k, Items(d.heap, d.array), d.vals)
           D == [k \in 0 .. n |-> SUBSET {d \in Results : Good(d, k)}]
           States == SUBSET Results
           begin == {Result(h, a, TRUE, <<>>, <<>>)}
           Step(s, k) == UNION {DrawOne(d) : d \in s}
           Body(f) == [k \in 0 .. n |-> IF k = 0 THEN begin ELSE Step(f[k - 1], k)]
           Round == [q \in (1 .. n) \X States |-> Step(q[2], q[1])]
<1>5. \A k \in 0 .. n : \A s : s \in D[k] <=> \A d \in s : d \in Results /\ Good(d, k)
  OBVIOUS
<1> HIDE DEF D
<1>6. begin \in D[0]
  <2>1. PICK d : d = Result(h, a, TRUE, <<>>, <<>>)
    OBVIOUS
  <2>2. d \in Results
    <3>1. <<>> \in Seq(Values)
      OBVIOUS
    <3> QED
      BY <2>1, <3>1 DEF Result, Lists, Lies
  <2>3. Good(d, 0)
    <3>1. d.heap = h /\ d.array = a /\ d.vals = <<>>
      BY <2>1 DEF Result
    <3>2. PICK o : o = [k \in 1 .. len |-> k]
      OBVIOUS
    <3>3. Selects(o, all, all) /\ \A k \in 1 .. len : o[k] = k
      BY <1>1, <3>2, SelectsAll
    <3>4. Drawn(o, <<>>, all, 0, all, <<>>)
      <4>1. <<>> \in [1 .. 0 -> 1 .. len] /\ Len(<<>>) = 0 /\ \A k \in 1 .. 0 : FALSE
        OBVIOUS
      <4> QED
        BY <1>1, <3>3, <4>1 DEF Drawn
    <3> QED
      BY <1>1, <3>1, <3>4, SelfFollows DEF Lists
  <2>4. 0 \in 0 .. n /\ \A e \in begin : e \in Results /\ Good(e, 0)
    <3>1. \A e \in begin : e = d
      BY <2>1
    <3> HIDE DEF begin, Results, Good
    <3> QED
      BY <2>2, <2>3, <3>1
  <2> HIDE DEF begin
  <2> QED
    BY <1>5, <2>4
<1>7. ASSUME NEW k \in 1 .. n, NEW s \in D[k - 1]
      PROVE  s \in States /\ Step(s, k) \in D[k]
  <2>1. k - 1 \in 0 .. n /\ k \in 0 .. n
    OBVIOUS
  <2>2. ASSUME NEW d \in s, NEW e \in DrawOne(d) PROVE e \in Results /\ Good(e, k)
    <3>1. d \in Results /\ Good(d, k - 1)
      BY <1>5, <2>1
    <3>2. PICK g \in Seq(Seq(Values)), t \in Slices, vals \in Seq(Values), m \in Nat :
            /\ d.heap = g /\ d.array = t /\ d.vals = vals /\ t.len = m /\ m = len - (k - 1)
            /\ \E o, draw : Drawn(o, draw, all, k - 1, Items(g, t), vals)
      BY <3>1 DEF Slices
    <3>3. Follows(Values, h, a, g, t) /\ Lists(g, t)
      BY <3>1, <3>2 DEF Follows, Lists
    <3>4. PICK i \in 0 .. m - 1 : e = [Remove(g, t, i) EXCEPT !.vals = vals \o @]
      BY <3>2 DEF DrawOne
    <3>5. InRange(t, i) /\ i \in Int
      BY <3>2 DEF InRange
    <3>6. PICK rem : rem = Remove(g, t, i)
      OBVIOUS
    <3>7. PICK v : /\ Sound(g, t, rem) /\ rem.array.len = m - 1 /\ rem.vals = <<v>> /\ v \in Values
                   /\ v = Items(g, t)[i + 1]
                   /\ Items(rem.heap, rem.array) = SubSeq(Items(g, t), 1, i)
                                                      \o SubSeq(Items(g, t), i + 2, t.len)
      <4>1. /\ Sound(g, t, rem) /\ rem.array.len = m - 1 /\ rem.vals = <<Items(g, t)[i + 1]>>
            /\ Items(rem.heap, rem.array) = SubSeq(Items(g, t), 1, i)
                                               \o SubSeq(Items(g, t), i + 2, t.len)
        <5>1. /\ Gives(g, t, Remove(g, t, i),
                       SubSeq(Items(g, t), 1, i) \o SubSeq(Items(g, t), i + 2, t.len),
                       Promise!Value(Items(g, t)[i + 1]))
              /\ Remove(g, t, i).array.len = t.len - 1
              /\ Remove(g, t, i).vals = <<Items(g, t)[i + 1]>>
          BY <3>2, <3>3, <3>5, RemoveGives
        <5> QED
          BY <3>2, <3>6, <5>1 DEF Gives, Leaves
      <4>2. i + 1 \in 1 .. t.len
        BY <3>2
      <4>3. Items(g, t)[i + 1] \in Values
        BY <3>3, <4>2, ItemsOf
      <4> QED
        BY <4>1, <4>3
    <3>8. PICK g2, t2 : g2 = rem.heap /\ t2 = rem.array
      OBVIOUS
    <3>9. rem = Result(g2, t2, TRUE, <<v>>, <<>>)
      <4>1. Remove(g, t, i) =
              Result(Remove(g, t, i).heap, Remove(g, t, i).array, TRUE, Remove(g, t, i).vals, <<>>)
        BY <3>5, RemoveShape
      <4> QED
        BY <3>6, <3>7, <3>8, <4>1
    <3>10. PICK one \in Seq(Values) : one = <<v>> /\ Len(one) = 1 /\ one[1] = v
      BY <3>7, OneItem
    <3>11. PICK more \in Seq(Values) : more = vals \o one
      BY ConcatProperties
    <3>12. e = Result(g2, t2, TRUE, more, <<>>)
      <4>1. rem.vals = one
        BY <3>7, <3>10
      <4>2. e = [rem EXCEPT !.vals = more]
        BY <3>4, <3>6, <3>11, <4>1
      <4>3. rem \in [heap : {g2}, array : {t2}, ok : {TRUE}, vals : {one}, slices : {<<>>},
                     panic : {FALSE}]
        BY <3>9, <3>10 DEF Result
      <4>4. e \in [heap : {g2}, array : {t2}, ok : {TRUE}, vals : {more}, slices : {<<>>},
                   panic : {FALSE}]
        BY <4>2, <4>3
      <4> QED
        BY <4>4 DEF Result
    <3>13. Follows(Values, g, t, g2, t2) /\ t2.len = m - 1
      BY <3>7, <3>8 DEF Sound
    <3>14. Follows(Values, h, a, g2, t2)
      BY <3>3, <3>13, Transitive DEF Lists
    <3>15. m - 1 = len - k
      BY <3>2
    <3>16. e \in Results
      BY <3>12, <3>14 DEF Result, Follows, Lies
    <3>17. e.heap = g2 /\ e.array = t2
      BY <3>12 DEF Result
    <3>18. PICK l \in Seq(Values) : l = Items(g, t) /\ Len(l) = m
      <4>1. Items(g, t) \in Seq(Values) /\ Len(Items(g, t)) = t.len
        BY <3>3, ItemsOf, Zenon
      <4> QED
        BY <3>2, <4>1
    <3>19. Items(g2, t2) = Without(l, i)
      BY <3>2, <3>7, <3>8, <3>18, Zenon DEF Without
    <3>20. PICK b \in Nat : b = k - 1 /\ b + 1 = k
      OBVIOUS
    <3>21. PICK o, draw : Drawn(o, draw, all, b, l, vals)
      BY <3>2, <3>18, <3>20
    <3>22. \E q, next : Drawn(q, next, all, b + 1, Without(l, i), vals \o one)
      <4>1. i \in Nat /\ i < Len(l) /\ one[1] = l[i + 1]
        BY <3>7, <3>10, <3>18
      <4> QED
        BY <1>1, <3>10, <3>20, <3>21, <4>1, DrawNext
    <3>23. \E q, next : Drawn(q, next, all, k, Items(g2, t2), e.vals)
      <4>1. e.vals = vals \o one
        BY <3>11, <3>12 DEF Result
      <4> QED
        BY <3>19, <3>20, <3>22, <4>1
    <3>24. Good(e, k)
      BY <3>13, <3>14, <3>15, <3>17, <3>23
    <3> QED
      BY <3>16, <3>24
  <2>3. s \in States
    BY <1>5, <2>1
  <2>4. \A e \in Step(s, k) : e \in Results /\ Good(e, k)
    BY <2>2
  <2> HIDE DEF Step
  <2>5. Step(s, k) \in D[k]
    BY <1>5, <2>1, <2>4
  <2> QED
    BY <2>3, <2>5
<1> HIDE DEF States
<1>8. PICK loop : loop = CHOOSE f : f = Body(f)
  OBVIOUS
<1>9. loop = Body(loop)
  <2>1. \A k \in 1 .. n : \A s \in D[k - 1] :
          Round[<<k, s>>] = Step(s, k) /\ Round[<<k, s>>] \in D[k]
    BY <1>7
  <2> HIDE DEF Round, begin, Step
  <2>2. Rounds(n, D, begin, Round)
    BY <1>6, <2>1 DEF Rounds
  <2>3. PICK f : /\ f = [k \in 0 .. n |-> f[k]] /\ f[0] = begin
                 /\ \A k \in 1 .. n : f[k - 1] \in D[k - 1] /\ f[k] = Round[<<k, f[k - 1]>>]
    BY <2>2, LoopExists
  <2>4. \A k \in 1 .. n : f[k] = Step(f[k - 1], k)
    BY <2>1, <2>3
  <2>5. ASSUME NEW k \in 0 .. n
        PROVE  f[k] = IF k = 0 THEN begin ELSE Step(f[k - 1], k)
    <3>1. k = 0 \/ (k # 0 /\ k \in 1 .. n)
      OBVIOUS
    <3> QED
      BY <2>3, <2>4, <3>1
  <2>6. f = Body(f)
    BY <2>3, <2>5
  <2> QED
    BY <1>8, <2>6
<1>10. loop[n] \in D[n]
  <2> HIDE DEF begin, Step
  <2>1. loop[0] = begin /\ \A k \in 1 .. n : loop[k] = Step(loop[k - 1], k)
    BY <1>9
  <2>2. Stays(n, D, loop)
    BY <1>6, <1>7, <2>1 DEF Stays
  <2> QED
    BY <2>2, LoopEnds
<1>11. PICK d \in loop[n] : r = HandCopy(d.heap, d.array, d.vals)
  <2>1. ~(size <= 0 \/ a.len = 0)
    BY <1>1, <1>3
  <2>2. PopRands(h, a, size) = {HandCopy(d.heap, d.array, d.vals) : d \in loop[n]}
    BY <1>4, <1>8, <2>1 DEF PopRands
  <2> QED
    BY <2>2
<1>12. d \in Results /\ Good(d, n)
  <2>1. n \in 0 .. n
    OBVIOUS
  <2>2. PICK s : s = loop[n]
    OBVIOUS
  <2> QED
    BY <1>5, <1>10, <2>1, <2>2
<1>13. PICK vals \in Seq(Values) : vals = d.vals
  BY <1>12
<1>14. /\ Leaves(h, a, Items(d.heap, d.array), r) /\ HandsCopies(h, r)
       /\ r.ok /\ r.vals = <<>> /\ ~r.panic /\ Contents(r.heap, r.slices) = <<vals>>
  <2>1. r = HandCopy(d.heap, d.array, vals) /\ Follows(Values, h, a, d.heap, d.array)
    BY <1>11, <1>12, <1>13
  <2> QED
    BY <2>1, HandsCopy
<1>15. Answer(r) = Promise!List(vals)
  <2>1. r.ok = TRUE /\ r.panic = FALSE
    <3>1. r.ok \in BOOLEAN /\ r.panic \in BOOLEAN
      BY <1>11 DEF HandCopy, Hand, Result
    <3> QED
      BY <1>14, <3>1
  <2> QED
    BY <1>14, <2>1 DEF Answer, Promise!List, Promise!Reply
<1>16. PICK o, draw : Drawn(o, draw, all, n, Items(d.heap, d.array), d.vals)
  BY <1>12
<1>17. Draws(h, a, size, r)
  BY <1>1, <1>4, <1>13, <1>14, <1>15, <1>16 DEF Draws, Leaves
<1> QED
  BY <1>14, <1>17 DEF Leaves

-----------------------------------------------------------------------------
(* The inductive invariant.                                                *)

\* What callers have are slices of the heap, and the copies are among them.
KnownOK == (\A s \in known : Lists(heap, s)) /\ \A c \in copies : c.slice \in known

\* A copy that was not passed back does not lie in the block in which the array
\* lies; so no write to the array shows in it.
CopiesApart ==
  \A c \in copies : /\ IsSlice(heap, c.slice)
                    /\ c.slice.block = 0 \/ c.slice.block # array.block

PendingOK == pending \in [Goroutines -> {NotSearching} \cup (Values \X Nat)]

CopiesInv == Lists(heap, array) /\ KnownOK /\ CopiesApart /\ CopiesStay

Inv == CopiesInv /\ FoundStays /\ PendingOK /\ calls \in 0 .. MaxCalls

\* A new array is alone in its block.
LEMMA InitInv ==
  ASSUME Init
  PROVE  Inv
<1>1. PICK vs \in Initial, n \in Spares :
        /\ heap = NewStrArrayFrom(<<>>, vs, n).heap /\ array = NewStrArrayFrom(<<>>, vs, n).slice
        /\ known = {array}
  BY DEF Init
<1>2. vs \in Seq(Values) /\ n \in Nat
  BY ArgumentAssumption
<1>3. PICK m \in Nat : m = Len(vs) + n /\ Len(vs) <= m
  BY <1>2, LenProperties
<1>4. Lists(<<>>, NilSlice)
  BY DEF Lists, Lies, Slices, NilSlice, IsSlice
<1>5. Makes(Values, <<>>, NilSlice, vs, Fresh(<<>>, vs, m))
  BY <1>2, <1>3, <1>4, FreshOf
<1>6. Lists(heap, array)
  BY <1>1, <1>3, <1>5 DEF NewStrArrayFrom, Makes, Follows, Lists
<1>7. KnownOK /\ CopiesApart /\ CopiesStay
  BY <1>1, <1>6 DEF Init, KnownOK, CopiesApart, CopiesStay
<1>8. FoundStays /\ PendingOK /\ calls \in 0 .. MaxCalls
  BY BoundAssumption DEF Init, FoundStays, PendingOK
<1> QED
  BY <1>6, <1>7, <1>8 DEF Inv, CopiesInv

\* A slice of a block that is kept stays a slice of it,
LEMMA StaysSlice ==
  ASSUME NEW h, NEW g, NEW b, Keeps(h, g, b), NEW s, Lists(h, s), NEW t, Lists(g, t)
  PROVE  Lists(g, s)
<1>1. g \in Seq(Seq(Values)) /\ s \in Slices /\ IsSlice(h, s)
  BY DEF Lists, Lies
<1>2. IsSlice(g, s)
  BY <1>1 DEF IsSlice, Keeps
<1> QED
  BY <1>1, <1>2 DEF Lists, Lies

\* ... and if it is not the one that was written to, it holds what it held.
LEMMA StaysCopy ==
  ASSUME NEW h, NEW g, NEW b, Keeps(h, g, b), NEW s, Lists(h, s),
         s.block = 0 \/ s.block # b
  PROVE  Items(g, s) = Items(h, s)
<1>1. CASE s = NilSlice
  BY <1>1 DEF Items, NilSlice
<1>2. CASE s # NilSlice
  <2>1. s.block \in DOMAIN h /\ h \in Seq(Seq(Values))
    BY <1>2 DEF Lists, Lies, IsSlice
  <2>2. s.block # 0
    BY <2>1, LenProperties
  <2>3. g[s.block] = h[s.block]
    BY <2>1, <2>2 DEF Keeps
  <2> QED
    BY <2>3 DEF Items
<1> QED
  BY <1>1, <1>2

\* A method that leaves the other blocks alone, and hands out blocks of their own
\* if it hands out copies, keeps the copies.
LEMMA TakesKeeps ==
  ASSUME CopiesInv, NEW name, NEW arguments, NEW r, Takes(name, arguments, r),
         Sound(heap, array, r), name \in Copying => HandsCopies(heap, r),
         name \in Viewing => HandsSlices(r)
  PROVE  CopiesInv'
<1>1. heap' = r.heap /\ array' = r.array /\ Follows(Values, heap, array, heap', array')
  BY DEF Takes, Does, Sound
<1>2. Lists(heap', array')
  BY <1>1 DEF Follows, Lists
<1>3. \A b \in DOMAIN heap : b # 0 /\ b \in DOMAIN heap'
                             /\ (b # array.block => heap'[b] = heap[b])
  BY <1>1, LenProperties DEF Follows, Keeps, CopiesInv, Lists, Lies
<1>4. array'.block = 0 \/ array'.block = array.block \/ array'.block \notin DOMAIN heap
  BY <1>1 DEF Follows, StaysIn
<1>5. ASSUME NEW c \in copies
      PROVE  /\ IsSlice(heap', c.slice)
             /\ c.slice.block = 0 \/ c.slice.block # array'.block
             /\ Items(heap', c.slice) = c.held
  <2>1. /\ Lists(heap, c.slice) /\ (c.slice.block = 0 \/ c.slice.block # array.block)
        /\ Items(heap, c.slice) = c.held
    BY DEF CopiesInv, KnownOK, CopiesApart, CopiesStay
  <2>2. Keeps(heap, heap', array.block)
    BY <1>1 DEF Follows
  <2>3. Lists(heap', c.slice)
    BY <1>2, <2>1, <2>2, StaysSlice
  <2>4. Items(heap', c.slice) = Items(heap, c.slice)
    BY <2>1, <2>2, StaysCopy
  <2>5. c.slice.block = 0 \/ c.slice.block # array'.block
    BY <1>4, <2>1 DEF Lists, Lies, IsSlice, NilSlice
  <2> QED
    BY <2>1, <2>3, <2>4, <2>5 DEF Lists, Lies
<1>6. ASSUME NEW c \in copies', c \notin copies
      PROVE  /\ IsSlice(heap', c.slice)
             /\ c.slice.block = 0 \/ c.slice.block # array'.block
             /\ Items(heap', c.slice) = c.held
             /\ c.slice \in known'
  <2>1. HandsCopies(heap, r) /\ known' = known \cup Handed(r)
    BY <1>6 DEF Takes
  <2>2. PICK s \in Handed(r) : c = [slice |-> s, held |-> Items(r.heap, s)]
    BY <1>6 DEF Takes
  <2>3. PICK k \in DOMAIN r.slices : s = r.slices[k]
    BY <2>2 DEF Handed
  <2> QED
    BY <1>1, <2>1, <2>2, <2>3 DEF HandsCopies, Lies
<1>7. ASSUME NEW s \in known'
      PROVE  Lists(heap', s)
  <2>1. CASE s \in known
    <3>1. Lists(heap, s) /\ Keeps(heap, heap', array.block)
      BY <1>1, <2>1 DEF CopiesInv, KnownOK, Follows
    <3> QED
      BY <1>2, <3>1, StaysSlice
  <2>2. CASE s \notin known
    <3>1. (name \in Copying \/ name \in Viewing) /\ s \in Handed(r)
      BY <2>2 DEF Takes
    <3>2. PICK k \in DOMAIN r.slices : s = r.slices[k]
      BY <3>1 DEF Handed
    <3> QED
      BY <1>1, <3>1, <3>2 DEF HandsCopies, HandsSlices, Lists
  <2> QED
    BY <2>1, <2>2
<1>8. \A c \in copies' : c.slice \in known'
  BY <1>6 DEF Takes, CopiesInv, KnownOK
<1> QED
  BY <1>2, <1>5, <1>6, <1>7, <1>8 DEF CopiesInv, KnownOK, CopiesApart, CopiesStay

\* What a caller passes in is a slice, and nothing is written when it is made.
LEMMA PassedIs ==
  ASSUME CopiesInv, NEW p \in Passed
  PROVE  Lists(p.heap, p.slice) /\ Keeps(heap, p.heap, 0)
<1>1. Lists(heap, array)
  BY DEF CopiesInv
<1>2. CASE \E vs \in Batches, n \in Spares : p = Fresh(heap, vs, Len(vs) + n)
  <2>1. PICK vs \in Batches, n \in Spares : p = Fresh(heap, vs, Len(vs) + n)
    BY <1>2
  <2>2. vs \in Seq(Values) /\ n \in Nat
    BY ArgumentAssumption
  <2>3. PICK m \in Nat : m = Len(vs) + n /\ Len(vs) <= m
    BY <2>2, LenProperties
  <2>4. Makes(Values, heap, array, vs, p) /\ Apart(heap, p)
    BY <1>1, <2>1, <2>2, <2>3, FreshOf
  <2> QED
    BY <2>4 DEF Makes, Follows, Apart, Lists
<1>3. CASE \E s \in known : p = [heap |-> heap, slice |-> s]
  <2>1. PICK s \in known : p = [heap |-> heap, slice |-> s]
    BY <1>3
  <2> QED
    BY <2>1 DEF CopiesInv, KnownOK, Keeps
<1> QED
  BY <1>2, <1>3 DEF Passed

\* A method that may write to the slice p that it is given, and move the array to
\* its block, keeps the copies that are left.
LEMMA PassKeeps ==
  ASSUME CopiesInv, NEW name, NEW p \in Passed, NEW r, Pass(name, p, r),
         Sound(p.heap, p.slice, r)
  PROVE  CopiesInv'
<1>1. heap' = r.heap /\ array' = r.array /\ Follows(Values, p.heap, p.slice, heap', array')
  BY DEF Pass, Does, Sound
<1>2. Lists(heap', array') /\ Keeps(p.heap, heap', p.slice.block)
  BY <1>1 DEF Follows, Lists
<1>3. Lists(p.heap, p.slice) /\ Keeps(heap, p.heap, 0)
  BY PassedIs
<1>4. array'.block = 0 \/ array'.block = p.slice.block \/ array'.block \notin DOMAIN p.heap
  BY <1>1 DEF Follows, StaysIn
<1>5. ASSUME NEW s \in known'
      PROVE  Lists(heap', s) /\ (s \in known => Lists(p.heap, s))
  <2>1. s \in known \/ s = p.slice
    BY DEF Pass
  <2>2. s \in known => Lists(p.heap, s)
    BY <1>3, StaysSlice DEF CopiesInv, KnownOK
  <2> QED
    BY <1>2, <1>3, <2>1, <2>2, StaysSlice
<1>6. ASSUME NEW c \in copies'
      PROVE  /\ IsSlice(heap', c.slice) /\ c.slice \in known'
             /\ c.slice.block = 0 \/ c.slice.block # array'.block
             /\ Items(heap', c.slice) = c.held
  <2>1. /\ c \in copies /\ c.slice.block # p.slice.block /\ c.slice \in known
        /\ c.slice \in known' /\ Lists(heap, c.slice)
    BY DEF Pass, CopiesInv, KnownOK
  <2>2. Lists(heap', c.slice) /\ Lists(p.heap, c.slice)
    BY <1>5, <2>1
  <2>3. Items(p.heap, c.slice) = Items(heap, c.slice)
    BY <1>3, <2>1, StaysCopy
  <2>4. Items(heap', c.slice) = Items(p.heap, c.slice)
    BY <1>2, <2>1, <2>2, StaysCopy
  <2>5. c.slice.block = 0 \/ c.slice.block \in DOMAIN p.heap
    BY <2>2 DEF Lists, Lies, IsSlice, NilSlice
  <2> QED
    BY <1>4, <2>1, <2>2, <2>3, <2>4, <2>5 DEF Lists, Lies, CopiesInv, CopiesStay
<1> QED
  BY <1>2, <1>5, <1>6 DEF CopiesInv, KnownOK, CopiesApart, CopiesStay

-----------------------------------------------------------------------------
(* Every call is the call of a sound method.                               *)

\* A call of a method that leaves the other blocks alone, and hands out blocks of
\* their own if it promises copies.
SoundCall ==
  \E name, arguments, r :
    /\ Call(name, arguments, r) /\ Sound(heap, array, r)
    /\ name \in Copying => HandsCopies(heap, r)
    /\ name \in Viewing => HandsSlices(r)

\* A call of a method that writes, if at all, to the slice that it is given.
PassingCall ==
  \E name, p, r : p \in Passed /\ Pass(name, p, r) /\ Sound(p.heap, p.slice, r)

\* ... and leaves the items as they are, or appends to them.
AppendingCall ==
  \E name, arguments, r : \E vs \in Seq(Values) :
    /\ Call(name, arguments, r) /\ Leaves(heap, array, Items(heap, array) \o vs, r)
    /\ name \in Copying => HandsCopies(heap, r)
    /\ name \in Viewing => HandsSlices(r)

\* To append is to follow.
LEMMA AppendingCallIsSound ==
  ASSUME AppendingCall
  PROVE  SoundCall
BY DEF AppendingCall, SoundCall, Leaves

\* A call that leaves the items appends nothing.
LEMMA ReadingCall ==
  ASSUME Lists(heap, array), NEW name, NEW arguments, NEW r, Call(name, arguments, r),
         Leaves(heap, array, Items(heap, array), r), name \in Copying => HandsCopies(heap, r),
         name \in Viewing => HandsSlices(r)
  PROVE  AppendingCall
<1>1. Items(heap, array) \o <<>> = Items(heap, array)
  BY ItemsOf, ConcatEmptySeq
<1>2. <<>> \in Seq(Values)
  OBVIOUS
<1> QED
  BY <1>1, <1>2 DEF AppendingCall

\* What the other methods hand out is no copy, and most hand out no view.
LEMMA NoCopy ==
  /\ "Get" \notin Copying /\ "Search" \notin Copying /\ "Chunk" \notin Copying
  /\ "Rand" \notin Copying /\ "PushRight" \notin Copying /\ "Set" \notin Copying
  /\ "SetArray" \notin Copying /\ "Replace" \notin Copying /\ "Sort" \notin Copying
  /\ "SortDown" \notin Copying /\ "Shuffle" \notin Copying /\ "Reverse" \notin Copying
  /\ "Walk" \notin Copying /\ "InsertBefore" \notin Copying /\ "InsertAfter" \notin Copying
  /\ "PushLeft" \notin Copying /\ "Fill" \notin Copying /\ "Pad" \notin Copying
  /\ "Remove" \notin Copying /\ "PopLeft" \notin Copying /\ "PopRight" \notin Copying
  /\ "PopRand" \notin Copying /\ "PopLefts" \notin Copying /\ "PopRights" \notin Copying
  /\ "Clear" \notin Copying /\ "Unique" \notin Copying /\ "FilterEmpty" \notin Copying
  /\ "RemoveValue" \notin Copying
  /\ "Get" \notin Viewing /\ "Search" \notin Viewing /\ "Rand" \notin Viewing
  /\ "PushRight" \notin Viewing /\ "Set" \notin Viewing /\ "SetArray" \notin Viewing
  /\ "Replace" \notin Viewing /\ "Sort" \notin Viewing /\ "SortDown" \notin Viewing
  /\ "Shuffle" \notin Viewing /\ "Reverse" \notin Viewing /\ "Walk" \notin Viewing
  /\ "InsertBefore" \notin Viewing /\ "InsertAfter" \notin Viewing /\ "PushLeft" \notin Viewing
  /\ "Fill" \notin Viewing /\ "Pad" \notin Viewing /\ "Remove" \notin Viewing
  /\ "PopLeft" \notin Viewing /\ "PopRight" \notin Viewing /\ "PopRand" \notin Viewing
  /\ "Clear" \notin Viewing /\ "Unique" \notin Viewing /\ "FilterEmpty" \notin Viewing
  /\ "RemoveValue" \notin Viewing /\ "Slice" \notin Viewing /\ "Range" \notin Viewing
  /\ "SubSlice" \notin Viewing /\ "Rands" \notin Viewing /\ "PopRands" \notin Viewing
BY DEF Copying, Viewing

\* What callers pass in.
LEMMA ArgumentTypes ==
  /\ \A i \in Indexes : i \in Int
  /\ \A n \in Sizes : n \in Int
  /\ \A n \in Spares : n \in Nat
  /\ \A vs \in Batches : vs \in Seq(Values)
  /\ \A f \in Functions : f \in [Values -> Values]
BY ArgumentAssumption

\* The methods that read leave the items.
LEMMA ReadingAppends ==
  ASSUME Lists(heap, array), NEW g, Reading(g)
  PROVE  AppendingCall
<1> DEFINE Same(r) == Leaves(heap, array, Items(heap, array), r)
<1>1. ASSUME NEW i \in Indexes, Call("Get", <<i>>, Get(heap, array, i))
      PROVE  AppendingCall
  <2>1. Same(Get(heap, array, i))
    BY ArgumentTypes, GetGives DEF Gives
  <2> QED
    BY <1>1, <2>1, ReadingCall, NoCopy
<1>2. ASSUME NEW v \in Values, Call("Search", <<v>>, Search(heap, array, v))
      PROVE  AppendingCall
  <2>1. PICK k \in Int : Search(heap, array, v) = Tell(heap, array, k)
    <3>1. array.len \in Nat
      BY ItemsOf
    <3> QED
      BY <3>1, SearchFinds
  <2>2. Same(Search(heap, array, v))
    BY <2>1, TellGives DEF Gives
  <2> QED
    BY <1>2, <2>2, ReadingCall, NoCopy
<1>3. ASSUME Call("Slice", <<>>, Slice(heap, array))
      PROVE  AppendingCall
  <2>1. Same(Slice(heap, array)) /\ HandsCopies(heap, Slice(heap, array))
    BY SliceGives DEF Gives
  <2> QED
    BY <1>3, <2>1, ReadingCall, NoCopy
<1>4. ASSUME NEW i \in Indexes, NEW n \in Sizes, Call("Range", <<i, n>>, RangeOf(heap, array, i, n))
      PROVE  AppendingCall
  <2>1. PICK from \in Nat, to \in Int :
          from = (IF i < 0 THEN 0 ELSE i) /\ to = Smaller(n, array.len)
    BY ArgumentTypes, ItemsOf DEF Smaller
  <2>2. (i > to \/ (i <= to /\ from > to) \/ from <= to) /\ i \in Int /\ n \in Int
    BY <2>1, ArgumentTypes
  <2>3. Same(RangeOf(heap, array, i, n)) /\ HandsCopies(heap, RangeOf(heap, array, i, n))
    BY <2>1, <2>2, RangeGives DEF Gives
  <2> QED
    BY <1>4, <2>3, ReadingCall, NoCopy
<1>5. ASSUME NEW i \in Indexes, NEW n \in Sizes, Call("SubSlice", <<i, n>>, SubSlice(heap, array, i, n))
      PROVE  AppendingCall
  <2>1. i \in Int /\ n \in Int /\ array.len \in Nat
    BY ArgumentTypes, ItemsOf
  <2>2. PICK from \in Int : from = IF i < 0 THEN array.len + i ELSE i
    BY <2>1
  <2>3. PICK first \in Int, last \in Int :
          /\ first = IF n < 0 THEN from + n ELSE from
          /\ last = IF n < 0 THEN from ELSE Smaller(from + n, array.len)
    BY <2>1 DEF Smaller
  <2>4. Same(SubSlice(heap, array, i, n)) /\ HandsCopies(heap, SubSlice(heap, array, i, n))
    BY <2>1, <2>2, <2>3, SubSliceGives DEF Gives
  <2> QED
    BY <1>5, <2>4, ReadingCall, NoCopy
<1>6. ASSUME NEW n \in Sizes, Call("Chunk", <<n>>, Chunk(heap, array, n))
      PROVE  AppendingCall
  <2>1. Same(Chunk(heap, array, n)) /\ HandsSlices(Chunk(heap, array, n))
    BY ArgumentTypes, ChunkSound, ChunkHands
  <2> QED
    BY <1>6, <2>1, ReadingCall, NoCopy
<1>7. ASSUME NEW r \in Rand(heap, array), Call("Rand", <<>>, r)
      PROVE  AppendingCall
  <2>1. Same(r)
    BY RandGives DEF Gives
  <2> QED
    BY <1>7, <2>1, ReadingCall, NoCopy
<1>8. ASSUME NEW n \in Sizes, NEW r \in Rands(heap, array, n), Call("Rands", <<n>>, r)
      PROVE  AppendingCall
  <2>1. Same(r) /\ HandsCopies(heap, r)
    BY ArgumentTypes, RandsGives DEF Gives
  <2> QED
    BY <1>8, <2>1, ReadingCall, NoCopy
<1> QED
  BY <1>1, <1>2, <1>3, <1>4, <1>5, <1>6, <1>7, <1>8 DEF Reading

\* Append and Merge append.
LEMMA AppendingAppends ==
  ASSUME Lists(heap, array), NEW g, Appending(g)
  PROVE  AppendingCall
<1>1. PICK vs \in Batches : Call("PushRight", vs, PushRight(heap, array, vs))
  BY DEF Appending
<1>2. vs \in Seq(Values)
  BY ArgumentTypes
<1>3. Leaves(heap, array, Items(heap, array) \o vs, PushRight(heap, array, vs))
  BY <1>2, PushRightGives DEF Gives
<1> QED
  BY <1>1, <1>2, <1>3, NoCopy DEF AppendingCall

\* Calls of methods that rewrite items are sound,
LEMMA ChangingSound ==
  ASSUME CopiesInv, NEW g, Changing(g)
  PROVE  SoundCall \/ PassingCall
<1>0. Lists(heap, array)
  BY DEF CopiesInv
<1>1. ASSUME NEW i \in Indexes, NEW v \in Values, Call("Set", <<i, v>>, Set(heap, array, i, v))
      PROVE  SoundCall
  <2>1. Sound(heap, array, Set(heap, array, i, v))
    BY <1>0, ArgumentTypes, SetGives DEF Gives, Leaves
  <2> QED
    BY <1>1, <2>1, NoCopy DEF SoundCall
<1>2. ASSUME NEW p \in Passed, Pass("SetArray", p, SetArray(p.heap, p.slice))
      PROVE  PassingCall
  <2>1. Sound(p.heap, p.slice, SetArray(p.heap, p.slice))
    BY PassedIs, SetArrayGives DEF Gives, Leaves
  <2> QED
    BY <1>2, <2>1 DEF PassingCall
<1>3. ASSUME NEW vs \in Batches, Call("Replace", vs, Replace(heap, array, vs))
      PROVE  SoundCall
  <2>1. Sound(heap, array, Replace(heap, array, vs))
    BY <1>0, ArgumentTypes, ReplaceGives DEF Gives, Leaves
  <2> QED
    BY <1>3, <2>1, NoCopy DEF SoundCall
<1>4. ASSUME Call("Sort", <<>>, Sort(heap, array, FALSE))
      PROVE  SoundCall
  <2>1. Sound(heap, array, Sort(heap, array, FALSE))
    BY <1>0, SortSound
  <2> QED
    BY <1>4, <2>1, NoCopy DEF SoundCall
<1>5. ASSUME Call("SortDown", <<>>, Sort(heap, array, TRUE))
      PROVE  SoundCall
  <2>1. Sound(heap, array, Sort(heap, array, TRUE))
    BY <1>0, SortSound
  <2> QED
    BY <1>5, <2>1, NoCopy DEF SoundCall
<1>6. ASSUME NEW r \in Shuffle(heap, array), Call("Shuffle", <<>>, r)
      PROVE  SoundCall
  <2>1. Sound(heap, array, r)
    BY <1>0, ShuffleSound, Zenon
  <2> QED
    BY <1>6, <2>1, NoCopy DEF SoundCall
<1>7. ASSUME Call("Reverse", <<>>, Reverse(heap, array))
      PROVE  SoundCall
  <2>1. Sound(heap, array, Reverse(heap, array))
    BY <1>0, ReverseGives DEF Gives, Leaves
  <2> QED
    BY <1>7, <2>1, NoCopy DEF SoundCall
<1>8. ASSUME NEW f \in Functions, Call("Walk", <<>>, Walk(heap, array, f))
      PROVE  SoundCall
  <2>1. Sound(heap, array, Walk(heap, array, f))
    BY <1>0, ArgumentTypes, WalkGives DEF Gives, Leaves
  <2> QED
    BY <1>8, <2>1, NoCopy DEF SoundCall
<1> QED
  BY <1>1, <1>2, <1>3, <1>4, <1>5, <1>6, <1>7, <1>8 DEF Changing

\* ... those of methods that make the array longer,
LEMMA GrowingSound ==
  ASSUME CopiesInv, NEW g, Growing(g)
  PROVE  SoundCall \/ PassingCall
<1>0. Lists(heap, array)
  BY DEF CopiesInv
<1>1. ASSUME NEW i \in Indexes, NEW v \in Values, Call("InsertBefore", <<i, v>>, InsertBefore(heap, array, i, v))
      PROVE  SoundCall
  <2>1. Sound(heap, array, InsertBefore(heap, array, i, v))
    BY <1>0, ArgumentTypes, InsertBeforeGives DEF Gives, Leaves
  <2> QED
    BY <1>1, <2>1, NoCopy DEF SoundCall
<1>2. ASSUME NEW i \in Indexes, NEW v \in Values, Call("InsertAfter", <<i, v>>, InsertAfter(heap, array, i, v))
      PROVE  SoundCall
  <2>1. Sound(heap, array, InsertAfter(heap, array, i, v))
    BY <1>0, ArgumentTypes, InsertAfterGives DEF Gives, Leaves
  <2> QED
    BY <1>2, <2>1, NoCopy DEF SoundCall
<1>3. ASSUME NEW p \in Passed, Pass("PushLeft", p, PushLeft(p.heap, array, p.slice))
      PROVE  PassingCall
  <2>1. Lists(p.heap, p.slice) /\ Lists(p.heap, array)
    BY <1>0, PassedIs, StaysSlice
  <2>2. Sound(p.heap, p.slice, PushLeft(p.heap, array, p.slice))
    BY <2>1, PushLeftGives DEF Gives, Leaves
  <2> QED
    BY <1>3, <2>2 DEF PassingCall
<1>4. ASSUME NEW i \in Indexes, NEW n \in Sizes, NEW v \in Values, Call("Fill", <<i, n, v>>, Fill(heap, array, i, n, v))
      PROVE  SoundCall
  <2>1. i \in Int /\ n \in Int /\ array.len \in Nat
    BY <1>0, ArgumentTypes, ItemsOf
  <2>2. PICK m \in Nat : m = IF array.len < i + n THEN i + n ELSE array.len
    BY <2>1
  <2>3. Sound(heap, array, Fill(heap, array, i, n, v))
    BY <1>0, <2>1, <2>2, FillGives DEF Gives, Leaves
  <2> QED
    BY <1>4, <2>3, NoCopy DEF SoundCall
<1>5. ASSUME NEW n \in Sizes, NEW v \in Values, Call("Pad", <<n, v>>, Pad(heap, array, n, v))
      PROVE  SoundCall
  <2>1. n \in Int /\ array.len \in Nat
    BY <1>0, ArgumentTypes, ItemsOf
  <2>2. PICK k \in Int : k = (IF n < 0 THEN -n ELSE n) - array.len
    BY <2>1
  <2>3. PICK tmp : tmp = [j \in 1 .. k |-> v]
    OBVIOUS
  <2>4. n = 0 \/ k < 0 \/ (n > 0 /\ k >= 0) \/ (n < 0 /\ k >= 0)
    BY <2>1
  <2>5. Sound(heap, array, Pad(heap, array, n, v))
    BY <1>0, <2>1, <2>2, <2>3, <2>4, PadGives DEF Gives, Leaves
  <2> QED
    BY <1>5, <2>5, NoCopy DEF SoundCall
<1> QED
  BY <1>1, <1>2, <1>3, <1>4, <1>5 DEF Growing

\* ... and those of methods that make it shorter.
LEMMA ShrinkingSound ==
  ASSUME Lists(heap, array), NEW g, Shrinking(g)
  PROVE  SoundCall
<1>1. ASSUME NEW i \in Indexes, Call("Remove", <<i>>, Remove(heap, array, i))
      PROVE  SoundCall
  <2>1. Sound(heap, array, Remove(heap, array, i))
    BY ArgumentTypes, RemoveGives DEF Gives, Leaves
  <2> QED
    BY <1>1, <2>1, NoCopy DEF SoundCall
<1>2. ASSUME Call("PopLeft", <<>>, PopLeft(heap, array))
      PROVE  SoundCall
  <2>1. array.len = 0 \/ array.len > 0
    BY ItemsOf
  <2>2. Sound(heap, array, PopLeft(heap, array))
    BY <2>1, PopLeftGives DEF Gives, Leaves
  <2> QED
    BY <1>2, <2>2, NoCopy DEF SoundCall
<1>3. ASSUME Call("PopRight", <<>>, PopRight(heap, array))
      PROVE  SoundCall
  <2>1. array.len = 0 \/ array.len > 0
    BY ItemsOf
  <2>2. Sound(heap, array, PopRight(heap, array))
    BY <2>1, PopRightGives DEF Gives, Leaves
  <2> QED
    BY <1>3, <2>2, NoCopy DEF SoundCall
<1>4. ASSUME NEW r \in PopRand(heap, array), Call("PopRand", <<>>, r)
      PROVE  SoundCall
  <2>1. Sound(heap, array, r)
    BY PopRandGives DEF Gives, Leaves
  <2> QED
    BY <1>4, <2>1, NoCopy DEF SoundCall
<1>5. ASSUME NEW n \in Sizes, NEW r \in PopRands(heap, array, n), Call("PopRands", <<n>>, r)
      PROVE  SoundCall
  <2>1. Sound(heap, array, r) /\ HandsCopies(heap, r)
    BY ArgumentTypes, PopRandsSound
  <2> QED
    BY <1>5, <2>1, NoCopy DEF SoundCall
<1>6. ASSUME NEW n \in Sizes, Call("PopLefts", <<n>>, PopLefts(heap, array, n))
      PROVE  SoundCall
  <2>1. n \in Int /\ array.len \in Nat
    BY ArgumentTypes, ItemsOf
  <2>2. PICK k \in Nat : n > 0 => k = Smaller(n, array.len)
    BY <2>1 DEF Smaller
  <2>3. (n > 0 /\ array.len > 0) \/ n <= 0 \/ array.len = 0
    BY <2>1
  <2>4. Sound(heap, array, PopLefts(heap, array, n))
    BY <2>1, <2>2, <2>3, PopLeftsGives DEF Gives, Leaves
  <2>5. HandsSlices(PopLefts(heap, array, n))
    BY <2>1, PopLeftsHands
  <2> QED
    BY <1>6, <2>4, <2>5, NoCopy DEF SoundCall
<1>7. ASSUME NEW n \in Sizes, Call("PopRights", <<n>>, PopRights(heap, array, n))
      PROVE  SoundCall
  <2>1. n \in Int /\ array.len \in Nat
    BY ArgumentTypes, ItemsOf
  <2>2. PICK k \in Nat : n > 0 => k = array.len - Smaller(n, array.len)
    BY <2>1 DEF Smaller
  <2>3. (n > 0 /\ array.len > 0) \/ n <= 0 \/ array.len = 0
    BY <2>1
  <2>4. Sound(heap, array, PopRights(heap, array, n))
    BY <2>1, <2>2, <2>3, PopRightsGives DEF Gives, Leaves
  <2>5. HandsSlices(PopRights(heap, array, n))
    BY <2>1, PopRightsHands
  <2> QED
    BY <1>7, <2>4, <2>5, NoCopy DEF SoundCall
<1>8. ASSUME Call("Clear", <<>>, Clear(heap, array))
      PROVE  SoundCall
  <2>1. Sound(heap, array, Clear(heap, array))
    BY ClearGives DEF Gives, Leaves
  <2> QED
    BY <1>8, <2>1, NoCopy DEF SoundCall
<1>9. ASSUME Call("Unique", <<>>, Unique(heap, array))
      PROVE  SoundCall
  <2>1. Sound(heap, array, Unique(heap, array))
    BY UniqueSound, Zenon
  <2> QED
    BY <1>9, <2>1, NoCopy DEF SoundCall
<1>10. ASSUME Call("FilterEmpty", <<>>, FilterEmpty(heap, array))
      PROVE  SoundCall
  <2>1. Sound(heap, array, FilterEmpty(heap, array))
    BY FilterEmptySound, Zenon
  <2> QED
    BY <1>10, <2>1, NoCopy DEF SoundCall
<1> QED
  BY <1>1, <1>2, <1>3, <1>4, <1>5, <1>6, <1>7, <1>8, <1>9, <1>10 DEF Shrinking

-----------------------------------------------------------------------------
(* Every step keeps the invariant.                                         *)

\* The editor does not call while it searches, and nobody else ever searches.
LEMMA EditorIsAlone ==
  ASSUME Inv, MayCall(Editor)
  PROVE  \A g \in Goroutines : pending[g] = NotSearching
BY DEF Inv, FoundStays, MayCall

\* A call counts.
LEMMA CallCounts ==
  ASSUME Inv, NEW g, MayCall(g), calls' = calls + 1
  PROVE  calls' \in 0 .. MaxCalls
BY BoundAssumption DEF Inv, MayCall, Bounded

\* Nobody has found anything that a call of the editor could move.
LEMMA EditorCallKeeps ==
  ASSUME Inv, MayCall(Editor), SoundCall \/ PassingCall
  PROVE  Inv'
<1>1. CopiesInv' /\ pending' = pending /\ calls' = calls + 1
  <2>1. CASE SoundCall
    <3>1. PICK name, arguments, r :
            /\ Call(name, arguments, r) /\ Sound(heap, array, r)
            /\ name \in Copying => HandsCopies(heap, r)
            /\ name \in Viewing => HandsSlices(r)
      BY <2>1 DEF SoundCall
    <3>2. Takes(name, arguments, r) /\ pending' = pending /\ calls' = calls + 1
      BY <3>1 DEF Call
    <3> QED
      BY <3>1, <3>2, TakesKeeps DEF Inv
  <2>2. CASE PassingCall
    <3>1. PICK name, p, r : p \in Passed /\ Pass(name, p, r) /\ Sound(p.heap, p.slice, r)
      BY <2>2 DEF PassingCall
    <3>2. CopiesInv'
      BY <3>1, PassKeeps DEF Inv
    <3> QED
      BY <3>1, <3>2 DEF Pass
  <2> QED
    BY <2>1, <2>2
<1>2. FoundStays'
  BY <1>1, EditorIsAlone DEF FoundStays
<1>3. PendingOK'
  BY <1>1 DEF Inv, PendingOK
<1>4. calls' \in 0 .. MaxCalls
  BY <1>1, CallCounts
<1> QED
  BY <1>1, <1>2, <1>3, <1>4 DEF Inv

\* What RemoveValue has found stays where it is while others append.
LEMMA AppendingCallKeeps ==
  ASSUME Inv, NEW g, MayCall(g), AppendingCall
  PROVE  Inv'
<1>1. PICK name, arguments, r : \E vs \in Seq(Values) :
        /\ Call(name, arguments, r) /\ Leaves(heap, array, Items(heap, array) \o vs, r)
        /\ name \in Copying => HandsCopies(heap, r)
        /\ name \in Viewing => HandsSlices(r)
  BY DEF AppendingCall
<1>2. PICK vs \in Seq(Values) :
        /\ Call(name, arguments, r) /\ Leaves(heap, array, Items(heap, array) \o vs, r)
        /\ name \in Copying => HandsCopies(heap, r)
        /\ name \in Viewing => HandsSlices(r)
  BY <1>1
<1>3. Takes(name, arguments, r) /\ pending' = pending /\ calls' = calls + 1
  BY <1>2 DEF Call
<1>4. CopiesInv'
  BY <1>2, <1>3, TakesKeeps DEF Inv, Leaves
<1>5. Items(heap', array') = Items(heap, array) \o vs
  BY <1>2, <1>3 DEF Takes, Does, Leaves
<1>6. PICK n \in Nat : n = array.len /\ n = Len(Items(heap, array)) /\ Items(heap, array) \in Seq(Values)
  BY ItemsOf DEF Inv, CopiesInv
<1>7. PICK m \in Nat : m = array'.len /\ m = Len(Items(heap', array'))
  BY <1>4, ItemsOf DEF CopiesInv
<1>8. n <= m /\ \A k \in 1 .. n : Items(heap', array')[k] = Items(heap, array)[k]
  BY <1>5, <1>6, <1>7
<1>9. ASSUME NEW v, NEW i, StillThere(v, i) PROVE StillThere(v, i)'
  <2>1. i \in 0 .. n - 1 /\ Items(heap, array)[i + 1] = v /\ \A k \in 1 .. i : Items(heap, array)[k] # v
    BY <1>6, <1>9 DEF StillThere
  <2>2. i \in 0 .. m - 1 /\ i + 1 \in 1 .. n /\ \A k \in 1 .. i : k \in 1 .. n
    BY <1>8, <2>1
  <2> QED
    BY <1>7, <1>8, <2>1, <2>2 DEF StillThere
<1>10. FoundStays'
  BY <1>3, <1>9 DEF Inv, FoundStays
<1>11. PendingOK'
  BY <1>3 DEF Inv, PendingOK
<1>12. calls' \in 0 .. MaxCalls
  BY <1>3, CallCounts
<1> QED
  BY <1>4, <1>10, <1>11, <1>12 DEF Inv

\* Search is right about where the value is.
LEMMA FindValueKeeps ==
  ASSUME Inv, MayCall(Editor), NEW v \in Values, FindValue(Editor, v)
  PROVE  Inv'
<1>1. PICK i : i = Search(heap, array, v).vals[1]
  OBVIOUS
<1>2. calls' \in 0 .. MaxCalls
  BY CallCounts DEF FindValue
<1>3. Lists(heap, array) /\ CopiesInv
  BY DEF Inv, CopiesInv
<1>4. CASE /\ Takes("RemoveValue", <<v>>, Failed(heap, array))
           /\ pending' = pending
  <2>1. Sound(heap, array, Failed(heap, array))
    BY <1>3, FailedGives DEF Gives, Leaves
  <2>2. CopiesInv'
    BY <1>3, <1>4, <2>1, TakesKeeps, NoCopy
  <2>3. FoundStays'
    BY <1>4, EditorIsAlone DEF FoundStays
  <2>4. PendingOK'
    BY <1>4 DEF Inv, PendingOK
  <2> QED
    BY <1>2, <2>2, <2>3, <2>4 DEF Inv
<1>5. CASE /\ i # -1 /\ pending' = [pending EXCEPT ![Editor] = <<v, i>>]
           /\ UNCHANGED <<heap, array, op, args, reply, known, copies>>
  <2>1. CopiesInv'
    BY <1>3, <1>5 DEF CopiesInv, KnownOK, CopiesApart, CopiesStay
  <2>2. \A k : Tell(heap, array, k).vals[1] = k
    BY DEF Tell, Result
  <2>3. i \in 0 .. array.len - 1 /\ StillThere(v, i)
    BY <1>1, <1>3, <1>5, <2>2, SearchFinds DEF StillThere
  <2>4. i \in Nat
    BY <2>3, <1>3, ItemsOf
  <2>5. PendingOK'
    BY <1>5, <2>4 DEF Inv, PendingOK
  <2>6. StillThere(v, i)'
    BY <1>5, <2>3 DEF StillThere
  <2>7. FoundStays'
    BY <1>5, <2>6, EditorIsAlone DEF FoundStays, Inv, PendingOK
  <2> QED
    BY <1>2, <2>1, <2>5, <2>7 DEF Inv
<1> QED
  BY <1>1, <1>4, <1>5 DEF FindValue

\* After the removal nobody searches.
LEMMA RemoveFoundKeeps ==
  ASSUME Inv, NEW g \in Goroutines, RemoveFound(g)
  PROVE  Inv'
<1>1. g = Editor /\ pending[g][2] \in Int
  BY DEF RemoveFound, Inv, FoundStays, PendingOK
<1>2. PICK r : r = Remove(heap, array, pending[g][2])
  OBVIOUS
<1>3. PICK s : s = [r EXCEPT !.vals = <<>>]
  OBVIOUS
<1>4. s.heap = r.heap /\ s.array = r.array
  BY <1>2, <1>3 DEF Remove, Failed, Tell, Result
<1>5. Sound(heap, array, s)
  BY <1>1, <1>2, <1>4, RemoveGives DEF Inv, CopiesInv, Gives, Leaves, Sound
<1>6. /\ Takes("RemoveValue", <<pending[g][1]>>, s)
      /\ pending' = [pending EXCEPT ![g] = NotSearching] /\ calls' = calls
  BY <1>2, <1>3 DEF RemoveFound
<1>7. CopiesInv'
  BY <1>5, <1>6, TakesKeeps, NoCopy DEF Inv
<1>8. FoundStays'
  BY <1>1, <1>6 DEF Inv, FoundStays, PendingOK
<1>9. PendingOK'
  BY <1>6 DEF Inv, PendingOK
<1> QED
  BY <1>6, <1>7, <1>8, <1>9 DEF Inv

\* Invariance, for one step of anybody.
LEMMA NextKeeps ==
  ASSUME Inv, [Next]_vars
  PROVE  Inv'
<1>1. Lists(heap, array) /\ CopiesInv
  BY DEF Inv, CopiesInv
<1>2. ASSUME UNCHANGED vars PROVE Inv'
  BY <1>2 DEF vars, Inv, CopiesInv, KnownOK, CopiesApart, CopiesStay, FoundStays, StillThere,
     PendingOK
<1>3. ASSUME NEW g \in Goroutines, MayCall(g), Reading(g) \/ Appending(g) PROVE Inv'
  <2>1. AppendingCall
    BY <1>1, <1>3, ReadingAppends, AppendingAppends
  <2> QED
    BY <1>3, <2>1, AppendingCallKeeps
<1>4. ASSUME MayCall(Editor), Changing(Editor) \/ Growing(Editor) \/ Shrinking(Editor) PROVE Inv'
  <2>1. SoundCall \/ PassingCall
    BY <1>1, <1>4, ChangingSound, GrowingSound, ShrinkingSound
  <2> QED
    BY <1>4, <2>1, EditorCallKeeps
<1>5. ASSUME MayCall(Editor), NEW v \in Values, FindValue(Editor, v) PROVE Inv'
  BY <1>5, FindValueKeeps
<1>6. ASSUME NEW g \in Goroutines, RemoveFound(g) PROVE Inv'
  BY <1>6, RemoveFoundKeeps
<1> QED
  BY <1>2, <1>3, <1>4, <1>5, <1>6 DEF Next, Edit, Finished

\* The array and what callers have lie in a heap of values; a copy that was not
\* passed back lies in another block than the array, and holds what it held; what a
\* RemoveValue has found stays there until it takes it.
THEOREM Invariance == Spec => []Inv
<1>1. Init => Inv
  BY InitInv
<1>2. Inv /\ [Next]_vars => Inv'
  BY NextKeeps
<1> QED
  BY <1>1, <1>2, PTL DEF Spec

\* Slices lie within their blocks, whatever is called: no method reaches beyond
\* the capacity of a slice or hands out one that does.
THEOREM TypeCorrect == Spec => []TypeOK
<1>1. Inv => TypeOK
  BY DEF Inv, CopiesInv, KnownOK, PendingOK, Lists, Lies, TypeOK
<1> QED
  BY <1>1, Invariance, PTL

\* A slice that a method returned as a copy keeps its contents until it is passed
\* back to SetArray or PushLeft, whatever is called by any number of goroutines: of
\* any items, indexes, sizes, capacities and functions, with any slice that they
\* make, passed before or were handed out, and as often as they like.
THEOREM CopiesCorrect == Spec => []CopiesStay
<1>1. Inv => CopiesStay
  BY DEF Inv, CopiesInv
<1> QED
  BY <1>1, Invariance, PTL

\* Between the two critical sections of a RemoveValue, what Search has found stays
\* the first item that equals the value, whatever others append and read.
THEOREM FoundCorrect == Spec => []FoundStays
<1>1. Inv => FoundStays
  BY DEF Inv
<1> QED
  BY <1>1, Invariance, PTL

-----------------------------------------------------------------------------
(* Every step is one of a plain sequence, or a stuttering one.             *)

\* A call does what its result says.
LEMMA CallDoes ==
  ASSUME NEW name, NEW arguments, NEW r, Takes(name, arguments, r),
         NEW vals, NEW answer, Gives(heap, array, r, vals, answer)
  PROVE  Promise!Called(name, arguments) /\ Promise!Gives(vals, answer)
BY DEF Takes, Does, Gives, Leaves, Answer, Promise!Called, Promise!Gives

\* ... if it finds what it looks for, or else nothing.
LEMMA CallMayFail ==
  ASSUME NEW name, NEW arguments, NEW r, Takes(name, arguments, r),
         NEW vals, NEW answer, NEW cond,
         cond => Gives(heap, array, r, vals, answer),
         ~cond => Gives(heap, array, r, Items(heap, array), Promise!Failure)
  PROVE  Promise!Called(name, arguments) /\ Promise!GivesIf(cond, vals, answer)
<1>1. CASE cond
  <2>1. Promise!Called(name, arguments) /\ Promise!Gives(vals, answer)
    BY <1>1, CallDoes
  <2> QED
    BY <1>1, <2>1 DEF Promise!GivesIf
<1>2. CASE ~cond
  <2>1. Promise!Called(name, arguments) /\ Promise!Gives(Items(heap, array), Promise!Failure)
    BY <1>2, CallDoes
  <2> QED
    BY <1>2, <2>1 DEF Promise!GivesIf
<1> QED
  BY <1>1, <1>2

\* A call to which a slice p is passed does what its result says, too; its
\* arguments are the items of p.
LEMMA PassDoes ==
  ASSUME NEW name, NEW p, NEW r, Pass(name, p, r), Lists(p.heap, p.slice),
         NEW vals, NEW answer, Gives(p.heap, p.slice, r, vals, answer)
  PROVE  /\ Promise!Called(name, Items(p.heap, p.slice)) /\ Promise!Gives(vals, answer)
         /\ Items(p.heap, p.slice) \in {args'} \cap Seq(Values)
<1>1. Items(p.heap, p.slice) \in Seq(Values)
  BY ItemsOf
<1> QED
  BY <1>1 DEF Pass, Does, Gives, Leaves, Answer, Promise!Called, Promise!Gives

\* In a case that is left open the items stay.
LEMMA LeavesOpen ==
  ASSUME NEW name \in OpenCases, NEW arguments, NEW r, Takes(name, arguments, r),
         NEW answer, Gives(heap, array, r, Items(heap, array), answer),
         NEW case, case
  PROVE  Promise!Called(name, arguments) /\ Promise!LeftOpen(name, case)
BY DEF Takes, Does, Gives, Leaves, Promise!Called, Promise!LeftOpen

\* The length of the sequence is that of the array, and its indexes are valid.
LEMMA LengthOf ==
  ASSUME Lists(heap, array)
  PROVE  /\ Promise!N = array.len /\ array.len \in Nat
         /\ \A i : Promise!Valid(i) <=> i \in 0 .. array.len - 1
BY ItemsOf DEF Promise!N, Promise!Valid

\* The lesser of two numbers, and the greater.
LEMMA MinOf ==
  ASSUME NEW m \in Int, NEW n \in Int
  PROVE  /\ Promise!Ext!Min({m, n}) = Smaller(m, n)
         /\ Promise!Ext!Max({m, n}) = IF m < n THEN n ELSE m
<1>1. PICK s \in {m, n} : s = Smaller(m, n) /\ \A k \in {m, n} : s <= k
  BY DEF Smaller
<1>2. Promise!Ext!Min({m, n}) = s
  BY <1>1 DEF Promise!Ext!Min
<1>3. PICK t \in {m, n} : t = (IF m < n THEN n ELSE m) /\ \A k \in {m, n} : t >= k
  OBVIOUS
<1>4. Promise!Ext!Max({m, n}) = t
  BY <1>3 DEF Promise!Ext!Max
<1> QED
  BY <1>1, <1>2, <1>3, <1>4

\* A size cut down to the length.
LEMMA ShortOf ==
  ASSUME Lists(heap, array), NEW n \in Int
  PROVE  Promise!Short(n) = Smaller(n, array.len)
BY LengthOf, MinOf DEF Promise!Short

\* Get, Search, Slice, Range, SubSlice, Rand and Rands answer as on a plain
\* sequence.
LEMMA ReadingImplements ==
  ASSUME Lists(heap, array), NEW g, Reading(g)
  PROVE  Promise!Next \/ \E n \in Sizes : Call("Chunk", <<n>>, Chunk(heap, array, n))
<1>1. ASSUME NEW i \in Indexes, Call("Get", <<i>>, Get(heap, array, i))
      PROVE  Promise!Next
  <2>1. /\ Takes("Get", <<i>>, Get(heap, array, i)) /\ i \in Int
        /\ Promise!Valid(i) <=> i \in 0 .. array.len - 1
    BY <1>1, ArgumentTypes, LengthOf DEF Call
  <2>2. /\ Promise!Valid(i) =>
             Gives(heap, array, Get(heap, array, i), Items(heap, array),
                   Promise!Value(Items(heap, array)[i + 1]))
        /\ ~Promise!Valid(i) =>
             Gives(heap, array, Get(heap, array, i), Items(heap, array), Promise!Failure)
    BY <2>1, GetGives
  <2>3. Promise!Get(i)
    BY <2>1, <2>2, CallMayFail DEF Promise!Get
  <2> QED
    BY <2>3 DEF Promise!Next
<1>2. ASSUME NEW v \in Values, Call("Search", <<v>>, Search(heap, array, v))
      PROVE  Promise!Next
  <2>1. Takes("Search", <<v>>, Search(heap, array, v))
    BY <1>2 DEF Call
  <2>2. PICK n \in Nat : n = array.len /\ DOMAIN Items(heap, array) = 1 .. n
    BY ItemsOf
  <2>3. PICK hits : hits = {k \in DOMAIN Items(heap, array) : Items(heap, array)[k] = v}
    OBVIOUS
  <2>4. Search(heap, array, v)
          = Tell(heap, array, IF hits = {} THEN -1 ELSE Promise!Ext!Min(hits) - 1)
    <3>1. CASE /\ Search(heap, array, v) = Tell(heap, array, -1)
               /\ \A k \in 1 .. n : Items(heap, array)[k] # v
      <4>1. hits = {}
        BY <2>2, <2>3, <3>1
      <4> QED
        BY <3>1, <4>1
    <3>2. ASSUME NEW i \in 0 .. n - 1, Search(heap, array, v) = Tell(heap, array, i),
                 Items(heap, array)[i + 1] = v, \A k \in 1 .. i : Items(heap, array)[k] # v
          PROVE  /\ Search(heap, array, v) = Tell(heap, array, Promise!Ext!Min(hits) - 1)
                 /\ hits # {}
      <4>1. i + 1 \in hits /\ \A k \in hits : k \in 1 .. n /\ k \notin 1 .. i
        BY <2>2, <2>3, <3>2
      <4>2. \A k \in hits : k \in Int /\ i + 1 <= k
        BY <4>1
      <4>3. Promise!Ext!Min(hits) = i + 1
        BY <4>1, <4>2 DEF Promise!Ext!Min
      <4>4. i = i + 1 - 1
        OBVIOUS
      <4> QED
        BY <3>2, <4>1, <4>3, <4>4
    <3> QED
      BY <2>2, <3>1, <3>2, SearchFinds
  <2>5. Gives(heap, array, Search(heap, array, v), Items(heap, array),
              Promise!Value(IF hits = {} THEN -1 ELSE Promise!Ext!Min(hits) - 1))
    BY <2>4, TellGives
  <2>6. Promise!Search(v)
    BY <2>1, <2>3, <2>5, CallDoes DEF Promise!Search
  <2> QED
    BY <2>6 DEF Promise!Next
<1>3. ASSUME Call("Slice", <<>>, Slice(heap, array))
      PROVE  Promise!Next
  <2>1. Promise!Slice
    BY <1>3, SliceGives, CallDoes DEF Call, Promise!Slice
  <2> QED
    BY <2>1 DEF Promise!Next
<1>4. ASSUME NEW i \in Indexes, NEW n \in Sizes, Call("Range", <<i, n>>, RangeOf(heap, array, i, n))
      PROVE  Promise!Next
  <2>1. /\ Takes("Range", <<i, n>>, RangeOf(heap, array, i, n))
        /\ i \in Int /\ n \in Int /\ array.len \in Nat
    BY <1>4, ArgumentTypes, LengthOf DEF Call
  <2>2. PICK from \in Nat : from = IF i < 0 THEN 0 ELSE i
    BY <2>1
  <2>3. PICK to \in Int : to = Smaller(n, array.len)
    BY <2>1 DEF Smaller
  <2>4. Promise!Ext!Max({i, 0}) = from /\ Promise!Short(n) = to
    <3>1. Promise!Ext!Max({i, 0}) = IF i < 0 THEN 0 ELSE i
      <4>1. 0 \in Int /\ i \in Int
        BY <2>1
      <4> QED
        BY <4>1, MinOf, Zenon
    <3>2. Promise!Short(n) = Smaller(n, array.len)
      BY <2>1, ShortOf
    <3> QED
      BY <2>2, <2>3, <3>1, <3>2
  <2>5. ASSUME n < 0 PROVE Promise!Range(i, n)
    <3>1. \E answer : Gives(heap, array, RangeOf(heap, array, i, n), Items(heap, array), answer)
      BY <2>1, <2>2, <2>3, RangeGives
    <3>2. PICK answer :
            Gives(heap, array, RangeOf(heap, array, i, n), Items(heap, array), answer)
      BY <3>1
    <3>3. "Range" \in OpenCases
      BY DEF OpenCases
    <3>4. Promise!Called("Range", <<i, n>>) /\ Promise!LeftOpen("Range", n < 0)
      BY <2>1, <2>5, <3>2, <3>3, LeavesOpen
    <3> QED
      BY <3>4 DEF Promise!Range
  <2>6. ASSUME ~(n < 0), from > to PROVE Promise!Range(i, n)
    <3>1. i > to
      BY <2>1, <2>2, <2>3, <2>6 DEF Smaller
    <3>2. /\ Promise!Called("Range", <<i, n>>)
          /\ Promise!Gives(Items(heap, array), Promise!Failure)
      BY <2>1, <2>2, <2>3, <3>1, RangeGives, CallDoes
    <3> QED
      BY <2>4, <2>6, <3>2 DEF Promise!Range, Promise!GivesIf
  <2>7. ASSUME ~(n < 0), from <= to PROVE Promise!Range(i, n)
    <3>1. /\ Promise!Called("Range", <<i, n>>)
          /\ Promise!Gives(Items(heap, array),
                           Promise!List(SubSeq(Items(heap, array), from + 1, to)))
      BY <2>1, <2>2, <2>3, <2>7, RangeGives, CallDoes
    <3> QED
      BY <2>4, <2>7, <3>1 DEF Promise!Range, Promise!GivesIf
  <2>8. Promise!Range(i, n)
    BY <2>1, <2>2, <2>5, <2>6, <2>7
  <2> QED
    BY <2>8 DEF Promise!Next
<1>5. ASSUME NEW i \in Indexes, NEW n \in Sizes, Call("SubSlice", <<i, n>>, SubSlice(heap, array, i, n))
      PROVE  Promise!Next
  <2>1. /\ Takes("SubSlice", <<i, n>>, SubSlice(heap, array, i, n))
        /\ i \in Int /\ n \in Int /\ array.len \in Nat /\ Promise!N = array.len
    BY <1>5, ArgumentTypes, LengthOf DEF Call
  <2>2. PICK from \in Int : from = IF i < 0 THEN array.len + i ELSE i
    BY <2>1
  <2>3. PICK first \in Int, last \in Int :
          /\ first = IF n < 0 THEN from + n ELSE from
          /\ last = IF n < 0 THEN from ELSE Smaller(from + n, array.len)
    <3>1. (IF n < 0 THEN from + n ELSE from) \in Int
      BY <2>1
    <3>2. (IF n < 0 THEN from ELSE Smaller(from + n, array.len)) \in Int
      BY <2>1 DEF Smaller
    <3> QED
      BY <3>1, <3>2
  <2>4. PICK found : found = (from \in 0 .. array.len /\ from + n >= 0)
    OBVIOUS
  <2>5. /\ found => Gives(heap, array, SubSlice(heap, array, i, n), Items(heap, array),
                          Promise!List(SubSeq(Items(heap, array), first + 1, last)))
        /\ ~found => Gives(heap, array, SubSlice(heap, array, i, n), Items(heap, array),
                           Promise!Failure)
    BY <2>1, <2>2, <2>3, <2>4, SubSliceGives
  <2>6. ASSUME n < 0 PROVE Promise!SubSlice(i, n)
    <3>1. PICK answer :
            Gives(heap, array, SubSlice(heap, array, i, n), Items(heap, array), answer)
      BY <2>5
    <3>2. "SubSlice" \in OpenCases
      BY DEF OpenCases
    <3>3. Promise!Called("SubSlice", <<i, n>>) /\ Promise!LeftOpen("SubSlice", n < 0)
      BY <2>1, <2>6, <3>1, <3>2, LeavesOpen
    <3> QED
      BY <3>3 DEF Promise!SubSlice
  <2>7. ASSUME ~(n < 0) PROVE Promise!SubSlice(i, n)
    <3>1. Promise!Short(from + n) = last /\ first = from
      <4>1. PICK sum \in Int : sum = from + n
        BY <2>1
      <4>2. Promise!Short(sum) = Smaller(sum, array.len)
        BY ShortOf
      <4> QED
        BY <2>3, <2>7, <4>1, <4>2
    <3>2. found = (from \in 0 .. array.len /\ from <= last)
      BY <2>1, <2>3, <2>4, <2>7 DEF Smaller
    <3>3. /\ Promise!Called("SubSlice", <<i, n>>)
          /\ Promise!GivesIf(found, Items(heap, array),
                             Promise!List(SubSeq(Items(heap, array), first + 1, last)))
      BY <2>1, <2>5, CallMayFail
    <3> QED
      BY <2>1, <2>2, <2>7, <3>1, <3>2, <3>3 DEF Promise!SubSlice
  <2>8. Promise!SubSlice(i, n)
    BY <2>6, <2>7
  <2> QED
    BY <2>8 DEF Promise!Next
<1>6. ASSUME NEW r \in Rand(heap, array), Call("Rand", <<>>, r)
      PROVE  Promise!Next
  <2>1. Takes("Rand", <<>>, r) /\ Promise!N = array.len /\ DOMAIN Items(heap, array) = 1 .. array.len
    BY <1>6, LengthOf, ItemsOf DEF Call
  <2>2. ASSUME array.len = 0, Gives(heap, array, r, Items(heap, array), Promise!Failure)
        PROVE  Promise!Rand
    BY <2>1, <2>2, CallDoes DEF Promise!Rand
  <2>3. ASSUME \E k \in 1 .. array.len :
                 Gives(heap, array, r, Items(heap, array), Promise!Value(Items(heap, array)[k]))
        PROVE  Promise!Rand
    <3>1. PICK k \in 1 .. array.len :
            Gives(heap, array, r, Items(heap, array), Promise!Value(Items(heap, array)[k]))
      BY <2>3
    <3>2. Items(heap, array)[k] \in Promise!Ext!Range(Items(heap, array))
      BY <2>1 DEF Promise!Ext!Range
    <3>3. /\ Promise!Called("Rand", <<>>)
          /\ Promise!Gives(Items(heap, array), Promise!Value(Items(heap, array)[k]))
      BY <2>1, <3>1, CallDoes
    <3> QED
      BY <3>2, <3>3 DEF Promise!Rand
  <2>4. Promise!Rand
    BY <2>2, <2>3, RandGives
  <2> QED
    BY <2>4 DEF Promise!Next
<1>7. ASSUME NEW n \in Sizes, NEW r \in Rands(heap, array, n), Call("Rands", <<n>>, r)
      PROVE  Promise!Next
  <2>1. /\ Takes("Rands", <<n>>, r) /\ Promise!N = array.len /\ array.len \in Nat /\ n \in Int
        /\ DOMAIN Items(heap, array) = 1 .. array.len
    BY <1>7, LengthOf, ItemsOf, ArgumentTypes DEF Call
  <2>2. ASSUME n <= 0 \/ array.len = 0,
               Gives(heap, array, r, Items(heap, array), Promise!Failure)
        PROVE  Promise!Rands(n)
    BY <2>1, <2>2, CallDoes DEF Promise!Rands
  <2>3. ASSUME n > 0, array.len > 0,
               \E s \in [1 .. n -> {Items(heap, array)[k] : k \in 1 .. array.len}] :
                 Gives(heap, array, r, Items(heap, array), Promise!List(s))
        PROVE  Promise!Rands(n)
    <3>1. PICK s \in [1 .. n -> {Items(heap, array)[k] : k \in 1 .. array.len}] :
            Gives(heap, array, r, Items(heap, array), Promise!List(s))
      BY <2>3
    <3>2. s \in [1 .. n -> Promise!Ext!Range(Items(heap, array))]
      BY <2>1 DEF Promise!Ext!Range
    <3>3. Promise!Called("Rands", <<n>>) /\ Promise!Gives(Items(heap, array), Promise!List(s))
      BY <2>1, <3>1, CallDoes
    <3> QED
      BY <2>1, <2>3, <3>2, <3>3 DEF Promise!Rands
  <2>4. Promise!Rands(n)
    BY <2>1, <2>2, <2>3, RandsGives
  <2> QED
    BY <2>4 DEF Promise!Next
<1> QED
  BY <1>1, <1>2, <1>3, <1>4, <1>5, <1>6, <1>7 DEF Reading

\* Append and Merge do what they do on a plain sequence.
LEMMA AppendingImplements ==
  ASSUME Lists(heap, array), NEW g, Appending(g)
  PROVE  Promise!Next
<1>1. PICK vs \in Batches : Call("PushRight", vs, PushRight(heap, array, vs))
  BY DEF Appending
<1>2. vs \in Seq(Values) /\ Takes("PushRight", vs, PushRight(heap, array, vs))
  BY <1>1, ArgumentTypes DEF Call
<1>3. Promise!PushRight(vs)
  BY <1>2, PushRightGives, CallDoes DEF Promise!PushRight
<1> QED
  BY <1>3 DEF Promise!Next

\* Set, SetArray, Replace, Reverse and Walk do what they do on a plain sequence,
LEMMA ChangingImplements ==
  ASSUME CopiesInv, NEW g, Changing(g)
  PROVE  \/ Promise!Next
         \/ Call("Sort", <<>>, Sort(heap, array, FALSE))
         \/ Call("SortDown", <<>>, Sort(heap, array, TRUE))
         \/ \E r \in Shuffle(heap, array) : Call("Shuffle", <<>>, r)
<1>0. Lists(heap, array)
  BY DEF CopiesInv
<1>1. ASSUME NEW i \in Indexes, NEW v \in Values, Call("Set", <<i, v>>, Set(heap, array, i, v))
      PROVE  Promise!Next
  <2>1. /\ Takes("Set", <<i, v>>, Set(heap, array, i, v)) /\ i \in Int
        /\ Promise!Valid(i) <=> i \in 0 .. array.len - 1
    BY <1>0, <1>1, ArgumentTypes, LengthOf DEF Call
  <2>2. /\ Promise!Valid(i) =>
             Gives(heap, array, Set(heap, array, i, v),
                   [Items(heap, array) EXCEPT ![i + 1] = v], Promise!Success)
        /\ ~Promise!Valid(i) =>
             Gives(heap, array, Set(heap, array, i, v), Items(heap, array), Promise!Failure)
    BY <1>0, <2>1, SetGives
  <2>3. Promise!Set(i, v)
    BY <2>1, <2>2, CallMayFail DEF Promise!Set, Promise!Ext!ReplaceAt
  <2> QED
    BY <2>3 DEF Promise!Next
<1>2. ASSUME NEW p \in Passed, Pass("SetArray", p, SetArray(p.heap, p.slice))
      PROVE  Promise!Next
  <2>1. Lists(p.heap, p.slice)
    BY PassedIs
  <2>2. PICK vs : vs = Items(p.heap, p.slice)
    OBVIOUS
  <2>3. /\ Promise!Called("SetArray", vs) /\ Promise!Gives(vs, Promise!Success)
        /\ vs \in {args'} \cap Seq(Values)
    BY <1>2, <2>1, <2>2, SetArrayGives, PassDoes
  <2>4. Promise!SetArray(vs)
    BY <2>3 DEF Promise!SetArray
  <2> QED
    BY <2>3, <2>4 DEF Promise!Next
<1>3. ASSUME NEW vs \in Batches, Call("Replace", vs, Replace(heap, array, vs))
      PROVE  Promise!Next
  <2>1. Takes("Replace", vs, Replace(heap, array, vs)) /\ vs \in Seq(Values)
    BY <1>3, ArgumentTypes DEF Call
  <2>2. Promise!Replace(vs)
    BY <1>0, <2>1, ReplaceGives, CallDoes DEF Promise!Replace
  <2> QED
    BY <2>2 DEF Promise!Next
<1>4. ASSUME Call("Reverse", <<>>, Reverse(heap, array))
      PROVE  Promise!Next
  <2>1. Promise!Reverse
    BY <1>0, <1>4, ReverseGives, CallDoes DEF Call, Promise!Reverse
  <2> QED
    BY <2>1 DEF Promise!Next
<1>5. ASSUME NEW f \in Functions, Call("Walk", <<>>, Walk(heap, array, f))
      PROVE  Promise!Next
  <2>1. Takes("Walk", <<>>, Walk(heap, array, f)) /\ f \in [Values -> Values]
    BY <1>5, ArgumentTypes DEF Call
  <2>2. Promise!Walk(f)
    BY <1>0, <2>1, WalkGives, CallDoes DEF Promise!Walk
  <2> QED
    BY <2>2 DEF Promise!Next
<1> QED
  BY <1>1, <1>2, <1>3, <1>4, <1>5 DEF Changing

\* ... and InsertBefore, InsertAfter, PushLeft, Fill and Pad,
LEMMA GrowingImplements ==
  ASSUME CopiesInv, NEW g, Growing(g)
  PROVE  Promise!Next
<1>0. Lists(heap, array)
  BY DEF CopiesInv
<1>1. PICK l \in Seq(Values), len \in Nat :
        l = Items(heap, array) /\ len = array.len /\ Len(l) = len
  BY <1>0, ItemsOf
<1>2. ASSUME NEW i \in Indexes, NEW v \in Values,
             Call("InsertBefore", <<i, v>>, InsertBefore(heap, array, i, v))
      PROVE  Promise!Next
  <2>1. /\ Takes("InsertBefore", <<i, v>>, InsertBefore(heap, array, i, v)) /\ i \in Int
        /\ Promise!Valid(i) <=> i \in 0 .. array.len - 1
    BY <1>0, <1>2, ArgumentTypes, LengthOf DEF Call
  <2>2. PICK new : new = SubSeq(l, 1, i) \o <<v>> \o SubSeq(l, i + 1, len)
    OBVIOUS
  <2>3. /\ Promise!Valid(i) =>
             Gives(heap, array, InsertBefore(heap, array, i, v), new, Promise!Success)
        /\ ~Promise!Valid(i) =>
             Gives(heap, array, InsertBefore(heap, array, i, v), Items(heap, array), Promise!Failure)
    BY <1>0, <1>1, <2>1, <2>2, InsertBeforeGives
  <2>4. Promise!Ext!InsertAt(l, i + 1, v) = new
    <3>1. PICK p : p = i + 1 /\ p - 1 = i /\ Len(l) = len
      BY <1>1, <2>1
    <3>2. Promise!Ext!InsertAt(l, p, v) = SubSeq(l, 1, p - 1) \o <<v>> \o SubSeq(l, p, Len(l))
      BY DEF Promise!Ext!InsertAt
    <3> QED
      BY <2>2, <3>1, <3>2, Zenon
  <2>5. /\ Promise!Called("InsertBefore", <<i, v>>)
        /\ Promise!GivesIf(Promise!Valid(i), new, Promise!Success)
    BY <2>1, <2>3, CallMayFail
  <2>6. Promise!InsertBefore(i, v)
    BY <1>1, <2>4, <2>5 DEF Promise!InsertBefore
  <2> QED
    BY <2>6 DEF Promise!Next
<1>3. ASSUME NEW i \in Indexes, NEW v \in Values,
             Call("InsertAfter", <<i, v>>, InsertAfter(heap, array, i, v))
      PROVE  Promise!Next
  <2>1. /\ Takes("InsertAfter", <<i, v>>, InsertAfter(heap, array, i, v)) /\ i \in Int
        /\ Promise!Valid(i) <=> i \in 0 .. array.len - 1
    BY <1>0, <1>3, ArgumentTypes, LengthOf DEF Call
  <2>2. PICK new : new = SubSeq(l, 1, i + 1) \o <<v>> \o SubSeq(l, i + 2, len)
    OBVIOUS
  <2>3. /\ Promise!Valid(i) =>
             Gives(heap, array, InsertAfter(heap, array, i, v), new, Promise!Success)
        /\ ~Promise!Valid(i) =>
             Gives(heap, array, InsertAfter(heap, array, i, v), Items(heap, array), Promise!Failure)
    BY <1>0, <1>1, <2>1, <2>2, InsertAfterGives
  <2>4. Promise!Ext!InsertAt(l, i + 2, v) = new
    <3>1. PICK p : p = i + 2 /\ p - 1 = i + 1 /\ Len(l) = len
      BY <1>1, <2>1
    <3>2. Promise!Ext!InsertAt(l, p, v) = SubSeq(l, 1, p - 1) \o <<v>> \o SubSeq(l, p, Len(l))
      BY DEF Promise!Ext!InsertAt
    <3> QED
      BY <2>2, <3>1, <3>2, Zenon
  <2>5. /\ Promise!Called("InsertAfter", <<i, v>>)
        /\ Promise!GivesIf(Promise!Valid(i), new, Promise!Success)
    BY <2>1, <2>3, CallMayFail
  <2>6. Promise!InsertAfter(i, v)
    BY <1>1, <2>4, <2>5 DEF Promise!InsertAfter
  <2> QED
    BY <2>6 DEF Promise!Next
<1>4. ASSUME NEW p \in Passed, Pass("PushLeft", p, PushLeft(p.heap, array, p.slice))
      PROVE  Promise!Next
  <2>1. Lists(p.heap, p.slice) /\ Keeps(heap, p.heap, 0)
    BY PassedIs
  <2>2. Lists(p.heap, array)
    BY <1>0, <2>1, StaysSlice
  <2>3. Items(p.heap, array) = Items(heap, array)
    BY <1>0, <2>1, StaysCopy
  <2>4. PICK vs, all : vs = Items(p.heap, p.slice) /\ all = vs \o Items(heap, array)
    OBVIOUS
  <2>5. Gives(p.heap, p.slice, PushLeft(p.heap, array, p.slice), all, Promise!Success)
    BY <1>0, <2>1, <2>2, <2>3, <2>4, PushLeftGives
  <2>6. /\ Promise!Called("PushLeft", vs) /\ Promise!Gives(all, Promise!Success)
        /\ vs \in {args'} \cap Seq(Values)
    BY <1>4, <2>1, <2>4, <2>5, PassDoes
  <2>7. Promise!PushLeft(vs)
    BY <2>4, <2>6 DEF Promise!PushLeft
  <2> QED
    BY <2>6, <2>7 DEF Promise!Next
<1>5. ASSUME NEW i \in Indexes, NEW n \in Sizes, NEW v \in Values,
             Call("Fill", <<i, n, v>>, Fill(heap, array, i, n, v))
      PROVE  Promise!Next
  <2>1. /\ Takes("Fill", <<i, n, v>>, Fill(heap, array, i, n, v)) /\ i \in Int /\ n \in Int
        /\ Promise!N = len
    BY <1>0, <1>1, <1>5, ArgumentTypes, LengthOf DEF Call
  <2>2. PICK m \in Nat : m = IF len < i + n THEN i + n ELSE len
    BY <1>1, <2>1
  <2>3. Promise!Ext!Max({Promise!N, i + n}) = m
    <3>1. PICK end \in Int : end = i + n
      BY <2>1
    <3>2. len \in Int
      OBVIOUS
    <3>3. Promise!Ext!Max({len, end}) = IF len < end THEN end ELSE len
      BY <3>1, <3>2, MinOf, Zenon
    <3> QED
      BY <2>1, <2>2, <3>1, <3>3
  <2>4. PICK new : new = [k \in 1 .. m |-> IF k \in i + 1 .. i + n THEN v
                                           ELSE Items(heap, array)[k]]
    OBVIOUS
  <2>5. /\ i \in 0 .. len => Gives(heap, array, Fill(heap, array, i, n, v), new, Promise!Success)
        /\ ~(i \in 0 .. len) =>
             Gives(heap, array, Fill(heap, array, i, n, v), Items(heap, array), Promise!Failure)
    BY <1>0, <1>1, <2>1, <2>2, <2>4, FillGives
  <2>6. PICK found : found = (i \in 0 .. len)
    OBVIOUS
  <2>7. /\ Promise!Called("Fill", <<i, n, v>>)
        /\ Promise!GivesIf(found, new, Promise!Success)
    BY <2>1, <2>5, <2>6, CallMayFail
  <2>8. Promise!Fill(i, n, v)
    BY <2>1, <2>3, <2>4, <2>6, <2>7 DEF Promise!Fill
  <2> QED
    BY <2>8 DEF Promise!Next
<1>6. ASSUME NEW n \in Sizes, NEW v \in Values, Call("Pad", <<n, v>>, Pad(heap, array, n, v))
      PROVE  Promise!Next
  <2>1. Takes("Pad", <<n, v>>, Pad(heap, array, n, v)) /\ n \in Int /\ Promise!N = len
    BY <1>0, <1>1, <1>6, ArgumentTypes, LengthOf DEF Call
  <2>2. PICK m \in Int : m = (IF n < 0 THEN -n ELSE n) - len
    BY <2>1
  <2>3. PICK missing \in Nat : missing = IF 0 < m THEN m ELSE 0
    BY <2>2
  <2>4. Promise!Ext!Max({0, (IF n < 0 THEN -n ELSE n) - Promise!N}) = missing
    <3>1. 0 \in Int
      OBVIOUS
    <3>2. Promise!Ext!Max({0, m}) = IF 0 < m THEN m ELSE 0
      BY <3>1, MinOf, Zenon
    <3> QED
      BY <2>1, <2>2, <2>3, <3>2
  <2>5. PICK padding : padding = [k \in 1 .. missing |-> v]
    OBVIOUS
  <2>6. PICK tmp : tmp = [k \in 1 .. m |-> v]
    OBVIOUS
  <2>7. m >= 0 => tmp = padding
    <3>1. m >= 0 => missing = m
      BY <2>3
    <3> QED
      BY <2>5, <2>6, <3>1
  <2>8. missing = 0 => l \o padding = l /\ padding \o l = l
    <3>1. ASSUME missing = 0 PROVE padding = <<>>
      <4>1. 1 .. missing = 1 .. 0
        BY <3>1
      <4> QED
        BY <2>5, <4>1
    <3> QED
      BY <3>1, ConcatEmptySeq
  <2>9. CASE n = 0 \/ m < 0
    <3>1. missing = 0
      BY <1>1, <2>2, <2>3, <2>9
    <3>2. Gives(heap, array, Pad(heap, array, n, v), Items(heap, array), Promise!Success)
      BY <1>0, <1>1, <2>1, <2>2, <2>6, <2>9, PadGives
    <3>3. Promise!Called("Pad", <<n, v>>) /\ Promise!Gives(l, Promise!Success)
      BY <1>1, <2>1, <3>2, CallDoes
    <3>4. n >= 0 \/ n < 0
      BY <2>1
    <3>5. Promise!Pad(n, v)
      BY <1>1, <2>4, <2>5, <2>8, <3>1, <3>3, <3>4 DEF Promise!Pad
    <3> QED
      BY <3>5 DEF Promise!Next
  <2>10. ASSUME n > 0, m >= 0 PROVE Promise!Next
    <3>1. Gives(heap, array, Pad(heap, array, n, v), Items(heap, array) \o tmp, Promise!Success)
      BY <1>0, <1>1, <2>1, <2>2, <2>6, <2>10, PadGives
    <3>2. /\ Promise!Called("Pad", <<n, v>>)
          /\ Promise!Gives(Items(heap, array) \o padding, Promise!Success)
      BY <2>1, <2>7, <2>10, <3>1, CallDoes
    <3>3. n >= 0
      BY <2>1, <2>10
    <3>4. Promise!Pad(n, v)
      BY <2>4, <2>5, <3>2, <3>3 DEF Promise!Pad
    <3> QED
      BY <3>4 DEF Promise!Next
  <2>11. ASSUME n < 0, m >= 0 PROVE Promise!Next
    <3>1. Gives(heap, array, Pad(heap, array, n, v), tmp \o Items(heap, array), Promise!Success)
      BY <1>0, <1>1, <2>1, <2>2, <2>6, <2>11, PadGives
    <3>2. /\ Promise!Called("Pad", <<n, v>>)
          /\ Promise!Gives(padding \o Items(heap, array), Promise!Success)
      BY <2>1, <2>7, <2>11, <3>1, CallDoes
    <3>3. Promise!Pad(n, v)
      BY <2>4, <2>5, <2>11, <3>2 DEF Promise!Pad
    <3> QED
      BY <3>3 DEF Promise!Next
  <2> QED
    BY <2>1, <2>9, <2>10, <2>11
<1> QED
  BY <1>2, <1>3, <1>4, <1>5, <1>6 DEF Growing

\* The sequence without the item at an index.
LEMMA RemoveAtIs ==
  ASSUME Lists(heap, array), NEW i \in Int
  PROVE  Promise!Ext!RemoveAt(Items(heap, array), i + 1)
           = SubSeq(Items(heap, array), 1, i) \o SubSeq(Items(heap, array), i + 2, array.len)
<1>1. PICK l, len : l = Items(heap, array) /\ len = array.len /\ Len(l) = len
  BY ItemsOf
<1>2. PICK p : p = i + 1 /\ p - 1 = i /\ p + 1 = i + 2
  OBVIOUS
<1>3. Promise!Ext!RemoveAt(l, p) = SubSeq(l, 1, p - 1) \o SubSeq(l, p + 1, Len(l))
  BY DEF Promise!Ext!RemoveAt
<1> QED
  BY <1>1, <1>2, <1>3, Zenon

\* ... and Remove, the Pops but for PopRands, and Clear.
LEMMA ShrinkingImplements ==
  ASSUME Lists(heap, array), NEW g, Shrinking(g)
  PROVE  \/ Promise!Next
         \/ Call("Unique", <<>>, Unique(heap, array))
         \/ Call("FilterEmpty", <<>>, FilterEmpty(heap, array))
         \/ \E n \in Sizes : \E r \in PopRands(heap, array, n) : Call("PopRands", <<n>>, r)
<1>1. PICK l \in Seq(Values), len \in Nat :
        /\ l = Items(heap, array) /\ len = array.len /\ Len(l) = len /\ Promise!N = len
        /\ DOMAIN l = 1 .. len
  BY ItemsOf, LengthOf
<1>2. ASSUME NEW i \in Indexes, Call("Remove", <<i>>, Remove(heap, array, i))
      PROVE  Promise!Next
  <2>1. /\ Takes("Remove", <<i>>, Remove(heap, array, i)) /\ i \in Int
        /\ Promise!Valid(i) <=> i \in 0 .. array.len - 1
    BY <1>2, ArgumentTypes, LengthOf DEF Call
  <2>2. PICK new : /\ new = Promise!Ext!RemoveAt(l, i + 1)
                   /\ new = SubSeq(l, 1, i) \o SubSeq(l, i + 2, len)
    BY <1>1, <2>1, RemoveAtIs
  <2>3. /\ Promise!Valid(i) =>
             Gives(heap, array, Remove(heap, array, i), new, Promise!Value(l[i + 1]))
        /\ ~Promise!Valid(i) =>
             Gives(heap, array, Remove(heap, array, i), Items(heap, array), Promise!Failure)
    BY <1>1, <2>1, <2>2, RemoveGives
  <2>4. /\ Promise!Called("Remove", <<i>>)
        /\ Promise!GivesIf(Promise!Valid(i), new, Promise!Value(l[i + 1]))
    BY <2>1, <2>3, CallMayFail
  <2>5. Promise!Remove(i)
    BY <1>1, <2>2, <2>4 DEF Promise!Remove
  <2> QED
    BY <2>5 DEF Promise!Next
<1>3. ASSUME Call("PopLeft", <<>>, PopLeft(heap, array))
      PROVE  Promise!Next
  <2>1. Takes("PopLeft", <<>>, PopLeft(heap, array))
    BY <1>3 DEF Call
  <2>2. PICK cond, new : cond = (len > 0) /\ new = SubSeq(l, 2, len)
    OBVIOUS
  <2>3. /\ cond => Gives(heap, array, PopLeft(heap, array), new, Promise!Value(l[1]))
        /\ ~cond => Gives(heap, array, PopLeft(heap, array), Items(heap, array), Promise!Failure)
    <3>1. len > 0 => Gives(heap, array, PopLeft(heap, array), new, Promise!Value(l[1]))
      BY <1>1, <2>2, PopLeftGives
    <3>2. ~(len > 0) => Gives(heap, array, PopLeft(heap, array), Items(heap, array), Promise!Failure)
      BY <1>1, PopLeftGives
    <3> QED
      BY <2>2, <3>1, <3>2
  <2>4. /\ Promise!Called("PopLeft", <<>>)
        /\ Promise!GivesIf(cond, new, Promise!Value(l[1]))
    BY <2>1, <2>3, CallMayFail
  <2>5. Promise!After(1) = new
    BY <1>1, <2>2 DEF Promise!After
  <2>6. Promise!PopLeft
    BY <1>1, <2>2, <2>4, <2>5 DEF Promise!PopLeft
  <2> QED
    BY <2>6 DEF Promise!Next
<1>4. ASSUME Call("PopRight", <<>>, PopRight(heap, array))
      PROVE  Promise!Next
  <2>1. Takes("PopRight", <<>>, PopRight(heap, array))
    BY <1>4 DEF Call
  <2>2. PICK cond, new : cond = (len > 0) /\ new = SubSeq(l, 1, len - 1)
    OBVIOUS
  <2>3. /\ cond => Gives(heap, array, PopRight(heap, array), new, Promise!Value(l[len]))
        /\ ~cond => Gives(heap, array, PopRight(heap, array), Items(heap, array), Promise!Failure)
    <3>1. len > 0 => Gives(heap, array, PopRight(heap, array), new, Promise!Value(l[len]))
      BY <1>1, <2>2, PopRightGives
    <3>2. ~(len > 0) => Gives(heap, array, PopRight(heap, array), Items(heap, array), Promise!Failure)
      BY <1>1, PopRightGives
    <3> QED
      BY <2>2, <3>1, <3>2
  <2>4. /\ Promise!Called("PopRight", <<>>)
        /\ Promise!GivesIf(cond, new, Promise!Value(l[len]))
    BY <2>1, <2>3, CallMayFail
  <2>5. Promise!First(Promise!N - 1) = new
    BY <1>1, <2>2 DEF Promise!First
  <2>6. Promise!PopRight
    BY <1>1, <2>2, <2>4, <2>5 DEF Promise!PopRight
  <2> QED
    BY <2>6 DEF Promise!Next
<1>5. ASSUME NEW r \in PopRand(heap, array), Call("PopRand", <<>>, r)
      PROVE  Promise!Next
  <2>1. Takes("PopRand", <<>>, r)
    BY <1>5 DEF Call
  <2>2. ASSUME len = 0, Gives(heap, array, r, Items(heap, array), Panic)
        PROVE  Promise!PopRand
    <3>1. "PopRand" \in OpenCases /\ Promise!N = 0
      BY <1>1, <2>2 DEF OpenCases
    <3>2. Promise!Called("PopRand", <<>>) /\ Promise!LeftOpen("PopRand", Promise!N = 0)
      BY <2>1, <2>2, <3>1, LeavesOpen
    <3> QED
      BY <3>2 DEF Promise!PopRand
  <2>3. ASSUME NEW i \in 0 .. len - 1,
               Gives(heap, array, r,
                     SubSeq(Items(heap, array), 1, i) \o SubSeq(Items(heap, array), i + 2, array.len),
                     Promise!Value(Items(heap, array)[i + 1]))
        PROVE  Promise!PopRand
    <3>1. PICK k \in 1 .. len : k = i + 1
      OBVIOUS
    <3>2. Gives(heap, array, r, Promise!Ext!RemoveAt(Items(heap, array), k),
                Promise!Value(Items(heap, array)[k]))
      <4>1. i \in Int
        OBVIOUS
      <4>2. Promise!Ext!RemoveAt(Items(heap, array), i + 1)
              = SubSeq(Items(heap, array), 1, i) \o SubSeq(Items(heap, array), i + 2, array.len)
        BY <4>1, RemoveAtIs
      <4> QED
        BY <2>3, <3>1, <4>2
    <3>3. /\ Promise!Called("PopRand", <<>>)
          /\ Promise!Gives(Promise!Ext!RemoveAt(Items(heap, array), k),
                           Promise!Value(Items(heap, array)[k]))
      BY <2>1, <3>2, CallDoes
    <3>4. k \in DOMAIN Items(heap, array)
      BY <1>1
    <3> QED
      BY <3>3, <3>4 DEF Promise!PopRand
  <2>4. Promise!PopRand
    BY <1>1, <2>2, <2>3, PopRandGives
  <2> QED
    BY <2>4 DEF Promise!Next
<1>6. ASSUME NEW n \in Sizes, Call("PopLefts", <<n>>, PopLefts(heap, array, n))
      PROVE  Promise!Next
  <2>1. Takes("PopLefts", <<n>>, PopLefts(heap, array, n)) /\ n \in Int
    BY <1>6, ArgumentTypes DEF Call
  <2>2. PICK cond : cond = (n > 0 /\ len > 0)
    OBVIOUS
  <2>3. PICK k \in Nat : n > 0 => k = Smaller(n, len)
    <3>1. (IF n > 0 THEN Smaller(n, len) ELSE 0) \in Nat
      BY <2>1 DEF Smaller
    <3> QED
      BY <3>1
  <2>4. PICK new, out : new = SubSeq(l, k + 1, len) /\ out = Promise!List(SubSeq(l, 1, k))
    OBVIOUS
  <2>5. /\ cond => Gives(heap, array, PopLefts(heap, array, n), new, out)
        /\ ~cond => Gives(heap, array, PopLefts(heap, array, n), Items(heap, array), Promise!Failure)
    <3>1. n > 0 /\ len > 0 => Gives(heap, array, PopLefts(heap, array, n), new, out)
      BY <1>1, <2>1, <2>3, <2>4, PopLeftsGives
    <3>2. ~(n > 0 /\ len > 0) =>
            Gives(heap, array, PopLefts(heap, array, n), Items(heap, array), Promise!Failure)
      <4>1. ~(n > 0 /\ len > 0) => n <= 0 \/ len = 0
        BY <2>1
      <4> QED
        BY <1>1, <2>1, <2>3, <4>1, PopLeftsGives
    <3> QED
      BY <2>2, <3>1, <3>2
  <2>6. Promise!Called("PopLefts", <<n>>) /\ Promise!GivesIf(cond, new, out)
    BY <2>1, <2>5, CallMayFail
  <2>7. Promise!Short(n) = Smaller(n, len)
    BY <1>1, <2>1, ShortOf
  <2>8. cond => /\ Promise!After(Promise!Short(n)) = new
                /\ Promise!List(Promise!First(Promise!Short(n))) = out
    BY <1>1, <2>2, <2>3, <2>4, <2>7 DEF Promise!After, Promise!First
  <2>9. Promise!PopLefts(n)
    BY <1>1, <2>2, <2>6, <2>8 DEF Promise!PopLefts, Promise!GivesIf
  <2> QED
    BY <2>9 DEF Promise!Next
<1>7. ASSUME NEW n \in Sizes, Call("PopRights", <<n>>, PopRights(heap, array, n))
      PROVE  Promise!Next
  <2>1. Takes("PopRights", <<n>>, PopRights(heap, array, n)) /\ n \in Int
    BY <1>7, ArgumentTypes DEF Call
  <2>2. PICK cond : cond = (n > 0 /\ len > 0)
    OBVIOUS
  <2>3. PICK k \in Nat : n > 0 => k = len - Smaller(n, len)
    <3>1. (IF n > 0 THEN len - Smaller(n, len) ELSE 0) \in Nat
      BY <2>1 DEF Smaller
    <3> QED
      BY <3>1
  <2>4. PICK new, out : new = SubSeq(l, 1, k) /\ out = Promise!List(SubSeq(l, k + 1, len))
    OBVIOUS
  <2>5. /\ cond => Gives(heap, array, PopRights(heap, array, n), new, out)
        /\ ~cond => Gives(heap, array, PopRights(heap, array, n), Items(heap, array), Promise!Failure)
    <3>1. n > 0 /\ len > 0 => Gives(heap, array, PopRights(heap, array, n), new, out)
      BY <1>1, <2>1, <2>3, <2>4, PopRightsGives
    <3>2. ~(n > 0 /\ len > 0) =>
            Gives(heap, array, PopRights(heap, array, n), Items(heap, array), Promise!Failure)
      <4>1. ~(n > 0 /\ len > 0) => n <= 0 \/ len = 0
        BY <2>1
      <4> QED
        BY <1>1, <2>1, <2>3, <4>1, PopRightsGives
    <3> QED
      BY <2>2, <3>1, <3>2
  <2>6. Promise!Called("PopRights", <<n>>) /\ Promise!GivesIf(cond, new, out)
    BY <2>1, <2>5, CallMayFail
  <2>7. Promise!Short(n) = Smaller(n, len)
    BY <1>1, <2>1, ShortOf
  <2>8. cond => /\ Promise!First(Promise!N - Promise!Short(n)) = new
                /\ Promise!List(Promise!After(Promise!N - Promise!Short(n))) = out
    BY <1>1, <2>2, <2>3, <2>4, <2>7 DEF Promise!After, Promise!First
  <2>9. Promise!PopRights(n)
    BY <1>1, <2>2, <2>6, <2>8 DEF Promise!PopRights, Promise!GivesIf
  <2> QED
    BY <2>9 DEF Promise!Next
<1>8. ASSUME Call("Clear", <<>>, Clear(heap, array))
      PROVE  Promise!Next
  <2>1. Promise!Clear
    BY <1>8, ClearGives, CallDoes DEF Call, Promise!Clear
  <2> QED
    BY <2>1 DEF Promise!Next
<1> QED
  BY <1>2, <1>3, <1>4, <1>5, <1>6, <1>7, <1>8 DEF Shrinking

-----------------------------------------------------------------------------
(* RemoveValue.                                                            *)

\* StrSequence counts as this module does.
LEMMA SameCardinality ==
  ASSUME NEW S
  PROVE  /\ Promise!Cardinality(S) = Cardinality(S)
         /\ Promise!Ext!Cardinality(S) = Cardinality(S)
BY DEF Promise!Cardinality, Promise!Ext!Cardinality, Cardinality

\* A value occurs in the sequence if one of its items equals it.
LEMMA OccursIf ==
  ASSUME Lists(heap, array), NEW v
  PROVE  Promise!Occurs(v) > 0 <=> \E k \in 1 .. array.len : Items(heap, array)[k] = v
<1>1. PICK n \in Nat : n = array.len /\ DOMAIN Items(heap, array) = 1 .. n
  BY ItemsOf
<1>2. PICK S : S = {k \in 1 .. n : Items(heap, array)[k] = v}
  OBVIOUS
<1>3. IsFiniteSet(1 .. n)
  BY FS_Interval
<1>4. IsFiniteSet(S) /\ Cardinality(S) \in Nat /\ (Cardinality(S) = 0 <=> S = {})
  <2>1. S \in SUBSET (1 .. n)
    BY <1>2
  <2>2. IsFiniteSet(S)
    BY <1>3, <2>1, FS_Subset
  <2> QED
    BY <2>2, FS_CardinalityType, FS_EmptySet
<1>5. Promise!Occurs(v) = Cardinality(S)
  <2>1. Promise!Occurs(v) = Promise!Cardinality(S)
    BY <1>1, <1>2 DEF Promise!Occurs
  <2> QED
    BY <2>1, SameCardinality
<1> QED
  BY <1>1, <1>2, <1>4, <1>5

\* The removal of what Search found is that of the first occurrence.
LEMMA RemoveFirstIs ==
  ASSUME Lists(heap, array), NEW v, NEW i, StillThere(v, i)
  PROVE  Promise!Ext!RemoveFirst(Items(heap, array), v)
           = SubSeq(Items(heap, array), 1, i) \o SubSeq(Items(heap, array), i + 2, array.len)
<1>1. PICK n \in Nat : n = array.len
  BY ItemsOf
<1>2. PICK l \in Seq(Values) : l = Items(heap, array) /\ Len(l) = n
  BY <1>1, ItemsOf
<1>3. PICK p \in 1 .. n : p = i + 1 /\ l[p] = v /\ \A k \in 1 .. i : l[k] # v
  BY <1>1, <1>2 DEF StillThere
<1>4. i \in Int
  BY <1>1 DEF StillThere
<1>5. PICK hits : hits = {k \in 1 .. Len(l) : l[k] = v}
  OBVIOUS
<1>6. p \in hits /\ \A k \in hits : p <= k
  BY <1>2, <1>3, <1>4, <1>5
<1>7. Promise!Ext!Min(hits) = p
  <2>1. \A x \in hits : (\A y \in hits : x <= y) => x = p
    BY <1>2, <1>5, <1>6
  <2> QED
    BY <1>6, <2>1 DEF Promise!Ext!Min
<1>8. Promise!Ext!SelectInSeq(l, LAMBDA t : t = v) = p
  BY <1>5, <1>6, <1>7 DEF Promise!Ext!SelectInSeq
<1>9. Promise!Ext!RemoveFirst(l, v) = Promise!Ext!RemoveAt(l, p)
  BY <1>2, <1>3, <1>8 DEF Promise!Ext!RemoveFirst
<1> QED
  BY <1>2, <1>3, <1>4, <1>9, RemoveAtIs

\* The second part of RemoveValue removes the first item that equals the value.
LEMMA RemoveValueImplements ==
  ASSUME Inv, NEW g \in Goroutines, RemoveFound(g)
  PROVE  Promise!Next
<1>1. PICK v \in Values, i \in Nat : pending[g] = <<v, i>>
  BY DEF RemoveFound, Inv, PendingOK
<1>2. Lists(heap, array) /\ StillThere(v, i)
  <2>1. pending[g][1] = v /\ pending[g][2] = i
    BY <1>1
  <2>2. Lists(heap, array) /\ StillThere(pending[g][1], pending[g][2])
    BY DEF RemoveFound, Inv, CopiesInv, FoundStays
  <2> QED
    BY <2>1, <2>2
<1>3. i \in Int /\ i \in 0 .. array.len - 1 /\ array.len \in Nat
  BY <1>2, ItemsOf DEF StillThere
<1>4. PICK r : r = Remove(heap, array, i)
  OBVIOUS
<1>5. r = Result(r.heap, r.array, TRUE, r.vals, <<>>)
  <2>1. InRange(array, i)
    BY <1>3 DEF InRange
  <2> QED
    BY <1>3, <1>4, <2>1, RemoveShape
<1>6. PICK s : s = [r EXCEPT !.vals = <<>>]
  OBVIOUS
<1>7. /\ s.heap = r.heap /\ s.array = r.array /\ s.ok = TRUE /\ s.vals = <<>>
      /\ s.slices = <<>> /\ s.panic = FALSE
  BY <1>5, <1>6 DEF Result
<1>8. PICK new : new = SubSeq(Items(heap, array), 1, i) \o SubSeq(Items(heap, array), i + 2, array.len)
  OBVIOUS
<1>9. Gives(heap, array, s, new, Promise!Success)
  <2>1. Leaves(heap, array, new, s)
    <3>1. Leaves(heap, array, new, r)
      BY <1>2, <1>3, <1>4, <1>8, RemoveGives DEF Gives
    <3> QED
      BY <1>7, <3>1 DEF Leaves, Sound
  <2>2. Answer(s) = Promise!Success
    BY <1>7, NoContents DEF Answer, Promise!Success, Promise!Reply
  <2> QED
    BY <2>1, <2>2 DEF Gives
<1>10. Takes("RemoveValue", <<v>>, s)
  BY <1>1, <1>4, <1>6 DEF RemoveFound
<1>11. Promise!Called("RemoveValue", <<v>>) /\ Promise!Gives(new, Promise!Success)
  BY <1>9, <1>10, CallDoes
<1>12. Promise!Ext!RemoveFirst(Items(heap, array), v) = new
  BY <1>2, <1>8, RemoveFirstIs
<1>13. Promise!Occurs(v) > 0
  <2>1. i + 1 \in 1 .. array.len /\ Items(heap, array)[i + 1] = v
    BY <1>2, <1>3 DEF StillThere
  <2> QED
    BY <1>2, <2>1, OccursIf
<1>14. Promise!RemoveValue(v)
  BY <1>11, <1>12, <1>13 DEF Promise!RemoveValue, Promise!GivesIf
<1> QED
  BY <1>14 DEF Promise!Next

\* Search is the end of a RemoveValue that finds nothing.
LEMMA FindValueImplements ==
  ASSUME Inv, NEW v \in Values, FindValue(Editor, v)
  PROVE  Promise!Next \/ UNCHANGED Promise!vars
<1>1. Lists(heap, array)
  BY DEF Inv, CopiesInv
<1>2. PICK i : i = Search(heap, array, v).vals[1]
  OBVIOUS
<1>3. CASE i # -1
  BY <1>2, <1>3 DEF FindValue, Promise!vars
<1>4. ASSUME i = -1 PROVE Promise!Next
  <2>1. Takes("RemoveValue", <<v>>, Failed(heap, array))
    BY <1>2, <1>4 DEF FindValue
  <2>2. Promise!Called("RemoveValue", <<v>>) /\ Promise!Gives(Items(heap, array), Promise!Failure)
    BY <1>1, <2>1, FailedGives, CallDoes
  <2>3. \A k \in 1 .. array.len : Items(heap, array)[k] # v
    <3>1. \A k : Tell(heap, array, k).vals[1] = k
      BY DEF Tell, Result
    <3>2. \A k \in 0 .. array.len - 1 : k # -1
      BY <1>1, ItemsOf
    <3>3. CASE \E k \in 0 .. array.len - 1 : Search(heap, array, v) = Tell(heap, array, k)
      BY <1>2, <1>4, <3>1, <3>2, <3>3
    <3> QED
      BY <1>1, <3>3, SearchFinds
  <2>4. ~(Promise!Occurs(v) > 0)
    BY <1>1, <2>3, OccursIf
  <2>5. Promise!RemoveValue(v)
    BY <2>2, <2>4 DEF Promise!RemoveValue, Promise!GivesIf
  <2> QED
    BY <2>5 DEF Promise!Next
<1> QED
  BY <1>3, <1>4

-----------------------------------------------------------------------------
(* Chunk.                                                                  *)

\* So many numbers below n are multiples of d.
LEMMA MultiplesBelow ==
  ASSUME NEW n \in Nat, NEW d \in Nat, d > 0
  PROVE  Cardinality({m \in 0 .. n - 1 : m % d = 0}) = (n + d - 1) \div d
<1>1. PICK q \in Nat : q = (n + d - 1) \div d
  BY DivOf
<1>2. q * d <= n + d - 1 /\ n + d - 1 < q * d + d
  BY <1>1, DivOf
<1>3. PICK S : S = {m \in 0 .. n - 1 : m % d = 0}
  OBVIOUS
<1>4. PICK f : f = [k \in 1 .. q |-> (k - 1) * d]
  OBVIOUS
<1>5. ASSUME NEW k \in 1 .. q PROVE f[k] \in S
  <2>1. PICK j \in Nat : j = k - 1 /\ j < q
    OBVIOUS
  <2>2. f[k] = j * d /\ j * d \in Nat /\ (j * d) % d = 0
    BY <1>4, <2>1
  <2>3. j * d + d <= q * d
    BY <2>1
  <2>4. j * d < n
    BY <1>2, <2>2, <2>3
  <2> QED
    BY <1>3, <2>2, <2>4
<1>6. ASSUME NEW j \in 1 .. q, NEW k \in 1 .. q, f[j] = f[k] PROVE j = k
  <2>1. PICK a \in Nat, b \in Nat : a = j - 1 /\ b = k - 1
    OBVIOUS
  <2>2. a * d = b * d
    BY <1>4, <1>6, <2>1
  <2>3. a = b
    BY <2>2
  <2> QED
    BY <2>1, <2>3
<1>7. ASSUME NEW m \in S PROVE \E k \in 1 .. q : f[k] = m
  <2>1. m \in Nat /\ m < n /\ m % d = 0
    BY <1>3
  <2>2. PICK j \in Nat : j = m \div d /\ m = j * d
    BY <2>1
  <2>3. j * d < q * d
    BY <1>2, <2>1, <2>2
  <2>4. j < q
    <3>1. SUFFICES ASSUME q <= j PROVE FALSE
      OBVIOUS
    <3>2. q * d <= j * d
      BY <3>1
    <3> QED
      BY <2>3, <3>2
  <2>5. PICK k \in 1 .. q : k - 1 = j
    BY <2>4
  <2>6. f[k] = m
    BY <1>4, <2>2, <2>5
  <2> QED
    BY <2>6
<1>8. ExistsBijection(1 .. q, S)
  <2>1. f \in [1 .. q -> S]
    BY <1>4, <1>5
  <2>2. f \in Bijection(1 .. q, S)
    BY <1>6, <1>7, <2>1 DEF Bijection, Injection, IsInjective, Surjection
  <2> QED
    BY <2>2 DEF ExistsBijection
<1>9. IsFiniteSet(1 .. q) /\ Cardinality(1 .. q) = q
  BY FS_Interval
<1> QED
  BY <1>1, <1>3, <1>8, <1>9, FS_Bijection

\* Chunk answers the items in lists of the size, but for the last one.
LEMMA ChunkImplements ==
  ASSUME Lists(heap, array), NEW size \in Sizes, Call("Chunk", <<size>>, Chunk(heap, array, size))
  PROVE  Promise!Next
<1>1. /\ Takes("Chunk", <<size>>, Chunk(heap, array, size)) /\ size \in Int
      /\ Promise!N = array.len
  BY ArgumentTypes, LengthOf DEF Call
<1>2. PICK n \in Nat : n = array.len
  BY ItemsOf
<1>3. PICK l \in Seq(Values) : l = Items(heap, array) /\ Len(l) = n
  BY <1>2, ItemsOf
<1>4. PICK q : q = Cardinality({m \in 0 .. n - 1 : m % size = 0})
  OBVIOUS
<1>5. PICK parts : parts = [k \in 1 .. q |-> SubSeq(l, (k - 1) * size + 1, Promise!Short(k * size))]
  OBVIOUS
<1>6. ASSUME size >= 1
      PROVE  Gives(heap, array, Chunk(heap, array, size), l, Promise!Reply(TRUE, <<>>, parts))
  <2>1. PICK d \in Nat : d = size /\ d > 0
    BY <1>1, <1>6
  <2>2. q \in Nat /\ q = (n + d - 1) \div d /\ q * d <= n + d - 1
    <3>1. q = (n + d - 1) \div d
      BY <1>4, <2>1, MultiplesBelow
    <3>2. PICK m \in Nat : m = n + d - 1
      BY <2>1
    <3> QED
      BY <2>1, <3>1, <3>2, DivOf
  <2>3. PICK slices : slices = [k \in 1 .. q |-> Cut(array, (k - 1) * d, Smaller(k * d, n))]
    OBVIOUS
  <2>4. Chunk(heap, array, size) = Result(heap, array, TRUE, <<>>, slices)
    <3>1. ~(size < 1) /\ size = d
      BY <2>1
    <3>2. PICK count : count = (array.len + size - 1) \div size /\ count = q
      BY <1>2, <2>1, <2>2
    <3>3. Chunk(heap, array, size)
            = Result(heap, array, TRUE, <<>>,
                     [k \in 1 .. count |->
                        Cut(array, (k - 1) * size, Smaller(k * size, array.len))])
      BY <3>1, <3>2, Zenon DEF Chunk
    <3> QED
      BY <1>2, <2>3, <3>1, <3>2, <3>3, Zenon
  <2>5. ASSUME NEW k \in 1 .. q
        PROVE  Items(heap, slices[k]) = SubSeq(l, (k - 1) * size + 1, Promise!Short(k * size))
    <3>1. PICK i \in Nat : i = (k - 1) * d
      BY <2>1
    <3>2. PICK j \in Nat : j = Smaller(k * d, n)
      BY <2>1 DEF Smaller
    <3>3. i <= j /\ j <= n
      <4>1. i + d = k * d
        BY <2>1, <3>1
      <4>2. k * d <= q * d
        BY <2>1, <2>2
      <4>3. i < n
        BY <2>1, <2>2, <4>1, <4>2
      <4> QED
        BY <2>1, <3>2, <4>1, <4>3 DEF Smaller
    <3>4. Items(heap, Cut(array, i, j)) = SubSeq(l, i + 1, j)
      <4>1. i <= j /\ j <= array.len
        BY <1>2, <3>3
      <4>2. /\ Follows(Values, heap, array, heap, Cut(array, i, j))
            /\ Items(heap, Cut(array, i, j)) = SubSeq(Items(heap, array), i + 1, j)
            /\ Cut(array, i, j).len = j - i
        BY <4>1, CutOf
      <4> QED
        BY <1>3, <4>2
    <3>5. Promise!Short(k * size) = j
      <4>1. PICK end \in Int : end = k * size
        BY <1>1
      <4> QED
        BY <1>2, <2>1, <3>2, <4>1, ShortOf
    <3> QED
      BY <2>1, <2>3, <3>1, <3>2, <3>4, <3>5
  <2>6. Contents(heap, slices) = parts
    <3>1. DOMAIN slices = 1 .. q
      BY <2>3
    <3> QED
      BY <1>5, <2>5, <3>1 DEF Contents
  <2>7. Answer(Chunk(heap, array, size)) = Promise!Reply(TRUE, <<>>, parts)
    BY <2>4, <2>6 DEF Answer, Result, Promise!Reply
  <2> QED
    BY <1>3, <2>7, ChunkSound DEF Gives
<1>7. ASSUME ~(size >= 1)
      PROVE  Gives(heap, array, Chunk(heap, array, size), Items(heap, array), Promise!Failure)
  <2>1. size < 1
    BY <1>1, <1>7
  <2>2. Chunk(heap, array, size) = Failed(heap, array)
    BY <2>1, Zenon DEF Chunk
  <2> QED
    BY <2>2, FailedGives
<1>8. /\ Promise!Called("Chunk", <<size>>)
      /\ Promise!GivesIf(size >= 1, l, Promise!Reply(TRUE, <<>>, parts))
  BY <1>1, <1>6, <1>7, CallMayFail
<1>9. q = Promise!Cardinality({m \in 0 .. Promise!N - 1 : m % size = 0})
  BY <1>1, <1>2, <1>4, SameCardinality
<1>10. Promise!Chunk(size)
  BY <1>3, <1>5, <1>8, <1>9 DEF Promise!Chunk
<1> QED
  BY <1>10 DEF Promise!Next

-----------------------------------------------------------------------------
(* Items that are left out, their order kept.                              *)

\* The numbers o[1], ..., o[m] increase, and P is the set of them.
Increases(o, m) ==
  (\A k \in 1 .. m : o[k] \in Int) /\ \A j, k \in 1 .. m : j < k => o[j] < o[k]

Lines(o, m, P) == \A p : p \in P <=> \E k \in 1 .. m : o[k] = p

\* So many numbers are on a list that increases.
LEMMA Increasing ==
  ASSUME NEW m \in Nat, NEW o, Increases(o, m), NEW P, Lines(o, m, P)
  PROVE  Cardinality(P) = m
<1> USE DEF Increases, Lines
<1>1. PICK f : f = [k \in 1 .. m |-> o[k]]
  OBVIOUS
<1>2. ASSUME NEW j \in 1 .. m, NEW k \in 1 .. m, f[j] = f[k] PROVE j = k
  <2>1. o[j] = o[k] /\ o[j] \in Int
    BY <1>1, <1>2
  <2>2. ~(j < k) /\ ~(k < j)
    BY <2>1
  <2> QED
    BY <2>2
<1>3. ExistsBijection(1 .. m, P)
  <2>1. f \in [1 .. m -> P] /\ \A p \in P : \E k \in 1 .. m : f[k] = p
    BY <1>1
  <2>2. f \in Bijection(1 .. m, P)
    BY <1>2, <2>1 DEF Bijection, Injection, IsInjective, Surjection
  <2> QED
    BY <2>2 DEF ExistsBijection
<1>4. IsFiniteSet(1 .. m) /\ Cardinality(1 .. m) = m
  BY FS_Interval
<1> QED
  BY <1>1, <1>3, <1>4, FS_Bijection

\* What is selected is what stands at the places it is selected from.
LEMMA SelectsAt ==
  ASSUME Lists(heap, array), NEW l \in Seq(Values), NEW o, Selects(o, Items(heap, array), l),
         NEW P, P = {o[k] : k \in 1 .. Len(l)}
  PROVE  Promise!At(P) = l
<1>1. PICK m \in Nat : m = Len(l)
  BY LenProperties
<1>2. PICK s \in Seq(Values), n \in Nat : s = Items(heap, array) /\ n = Len(s)
  BY ItemsOf
<1>3. /\ o \in [1 .. m -> 1 .. n]
      /\ \A j, k \in 1 .. m : j < k => o[j] < o[k]
      /\ \A k \in 1 .. m : l[k] = s[o[k]]
  BY <1>1, <1>2 DEF Selects
<1>4. \A k \in 1 .. m : o[k] \in 1 .. n /\ o[k] \in Int
  BY <1>3
<1>5. Promise!Cardinality(P) = m
  <2>1. Increases(o, m) /\ Lines(o, m, P)
    BY <1>1, <1>3, <1>4 DEF Increases, Lines
  <2>2. Cardinality(P) = m
    BY <2>1, Increasing
  <2> QED
    BY <2>2, SameCardinality
<1>6. ASSUME NEW k \in 1 .. m PROVE Promise!Cardinality({q \in P : q < o[k]}) = k - 1
  <2>1. PICK i \in Nat : i = k - 1 /\ \A j \in 1 .. i : j \in 1 .. m /\ j < k
    OBVIOUS
  <2>2. PICK Q : Q = {q \in P : q < o[k]}
    OBVIOUS
  <2>3. ASSUME NEW j \in 1 .. m, o[j] < o[k] PROVE j \in 1 .. i
    <3>1. ~(k < j) /\ j # k
      BY <1>3, <1>4, <2>3
    <3> QED
      BY <2>1, <3>1
  <2>4. \A p : p \in Q <=> \E j \in 1 .. i : o[j] = p
    BY <1>1, <1>3, <2>1, <2>2, <2>3
  <2>5. Increases(o, i) /\ Lines(o, i, Q)
    <3>1. \A j \in 1 .. i : o[j] \in Int
      BY <1>4, <2>1
    <3>2. \A j, j2 \in 1 .. i : j < j2 => o[j] < o[j2]
      BY <1>3, <2>1
    <3> QED
      BY <2>4, <3>1, <3>2 DEF Increases, Lines
  <2>6. Cardinality(Q) = i
    BY <2>5, Increasing
  <2> QED
    BY <2>1, <2>2, <2>6, SameCardinality
<1>7. ASSUME NEW k \in 1 .. m PROVE Promise!Nth(P, k) = o[k]
  <2>1. o[k] \in P
    BY <1>1
  <2>2. ASSUME NEW p \in P, Promise!Cardinality({q \in P : q < p}) = k - 1 PROVE p = o[k]
    <3>1. PICK j \in 1 .. m : p = o[j]
      BY <1>1
    <3>2. j - 1 = k - 1
      BY <1>6, <2>2, <3>1
    <3> QED
      BY <3>1, <3>2
  <2> QED
    BY <1>6, <2>1, <2>2 DEF Promise!Nth
<1>8. Promise!At(P) = [k \in 1 .. m |-> s[o[k]]]
  BY <1>2, <1>5, <1>7 DEF Promise!At
<1>9. l = [k \in 1 .. m |-> l[k]]
  BY <1>1, LenProperties
<1> QED
  BY <1>3, <1>8, <1>9

\* FilterEmpty leaves the items that are not empty, in their order.
LEMMA FilterEmptyImplements ==
  ASSUME Lists(heap, array), Call("FilterEmpty", <<>>, FilterEmpty(heap, array))
  PROVE  Promise!Next
<1>1. PICK all \in Seq(Values), n \in Nat :
        all = Items(heap, array) /\ n = array.len /\ Len(all) = n /\ DOMAIN all = 1 .. n
  BY ItemsOf
<1>2. PICK r : r = FilterEmpty(heap, array)
  OBVIOUS
<1>3. /\ Takes("FilterEmpty", <<>>, r) /\ Sound(heap, array, r) /\ Answer(r) = Promise!Success
      /\ \E i \in Nat : \E o : Kept(o, all, n, i, Items(r.heap, r.array))
  BY <1>1, <1>2, FilterEmptySound DEF Call
<1>4. PICK l \in Seq(Values), m \in Nat : l = Items(r.heap, r.array) /\ m = Len(l)
  <2>1. Lists(r.heap, r.array)
    BY <1>3 DEF Sound, Follows, Lists
  <2> QED
    BY <2>1, ItemsOf
<1>5. PICK i \in Nat : \E o : Kept(o, all, n, i, l)
  BY <1>3, <1>4
<1>6. PICK o : Kept(o, all, n, i, l)
  BY <1>5
<1>7. /\ Selects(o, all, l) /\ i = m
      /\ o \in [1 .. m -> 1 .. n] /\ \A j \in 1 .. m : l[j] = all[o[j]] /\ l[j] # Empty
      /\ \A p \in 1 .. n : all[p] = Empty \/ \E j \in 1 .. m : o[j] = p
  <2>1. Selects(o, all, l) /\ m + n = n + i
    BY <1>1, <1>4, <1>6 DEF Kept
  <2>2. i = m
    BY <2>1
  <2>3. o \in [1 .. m -> 1 .. n] /\ \A j \in 1 .. m : l[j] = all[o[j]]
    BY <1>1, <1>4, <2>1 DEF Selects
  <2>4. /\ \A j \in 1 .. m : l[j] # Empty
        /\ \A p \in 1 .. n : all[p] = Empty \/ \E j \in 1 .. m : o[j] = p
    BY <1>6, <2>2 DEF Kept
  <2> QED
    BY <2>1, <2>2, <2>3, <2>4
<1>8. PICK P : P = {p \in DOMAIN all : all[p] # Empty}
  OBVIOUS
<1>9. P = {o[j] : j \in 1 .. m}
  <2>1. ASSUME NEW p \in P PROVE \E j \in 1 .. m : p = o[j]
    BY <1>1, <1>7, <1>8
  <2>2. ASSUME NEW j \in 1 .. m PROVE o[j] \in P
    BY <1>1, <1>7, <1>8
  <2> QED
    BY <2>1, <2>2
<1>10. Promise!At(P) = l
  BY <1>1, <1>4, <1>7, <1>9, SelectsAt
<1>11. Gives(heap, array, r, l, Promise!Success)
  BY <1>3, <1>4 DEF Gives, Leaves
<1>12. Promise!Called("FilterEmpty", <<>>) /\ Promise!Gives(l, Promise!Success)
  BY <1>3, <1>11, CallDoes
<1>13. Promise!FilterEmpty
  BY <1>1, <1>8, <1>10, <1>12 DEF Promise!FilterEmpty
<1> QED
  BY <1>13 DEF Promise!Next

\* PopRands takes what it draws out of the array, in the order it draws it.
LEMMA PopRandsImplements ==
  ASSUME Lists(heap, array), NEW size \in Sizes, NEW r \in PopRands(heap, array, size),
         Call("PopRands", <<size>>, r)
  PROVE  Promise!Next
<1>1. PICK all \in Seq(Values), n \in Nat :
        all = Items(heap, array) /\ n = array.len /\ Len(all) = n /\ DOMAIN all = 1 .. n
  BY ItemsOf
<1>2. Takes("PopRands", <<size>>, r) /\ size \in Int /\ Promise!N = n
  BY <1>1, ArgumentTypes, LengthOf DEF Call
<1>3. CASE size <= 0 \/ n = 0
  <2>1. r = Failed(heap, array)
    BY <1>1, <1>2, <1>3, PopRandsSound
  <2>2. Promise!Called("PopRands", <<size>>) /\ Promise!Gives(Items(heap, array), Promise!Failure)
    BY <1>2, <2>1, FailedGives, CallDoes
  <2>3. Promise!PopRands(size)
    BY <1>2, <1>3, <2>2 DEF Promise!PopRands
  <2> QED
    BY <2>3 DEF Promise!Next
<1>4. CASE size > 0 /\ n > 0
  <2>1. PICK k \in Nat : k = Promise!Short(size) /\ k = Smaller(size, array.len)
    <3>1. Smaller(size, array.len) \in Nat
      BY <1>1, <1>2, <1>4 DEF Smaller
    <3> QED
      BY <1>2, <3>1, ShortOf
  <2>2. Sound(heap, array, r) /\ Draws(heap, array, size, r)
    BY <1>1, <1>2, <1>4, PopRandsSound
  <2>3. PICK l \in Seq(Values), m \in Nat : l = Items(r.heap, r.array) /\ m = Len(l)
    <3>1. Lists(r.heap, r.array)
      BY <2>2 DEF Sound, Follows, Lists
    <3> QED
      BY <3>1, ItemsOf
  <2>4. PICK vals \in Seq(Values) : /\ Answer(r) = Promise!List(vals)
                                    /\ \E o, draw : Drawn(o, draw, all, k, l, vals)
    BY <1>1, <2>1, <2>2, <2>3 DEF Draws
  <2>5. PICK o, draw : Drawn(o, draw, all, k, l, vals)
    BY <2>4
  <2>6. /\ Selects(o, all, l) /\ o \in [1 .. m -> 1 .. n] /\ draw \in [1 .. k -> 1 .. n]
        /\ \A i, j \in 1 .. k : draw[i] = draw[j] => i = j
        /\ Len(vals) = k /\ \A j \in 1 .. k : vals[j] = all[draw[j]]
        /\ \A p \in 1 .. n : (\E j \in 1 .. m : o[j] = p) <=> ~ \E j \in 1 .. k : draw[j] = p
    BY <1>1, <2>3, <2>5 DEF Drawn, Selects
  <2>7. draw \in Promise!Ext!Injection(1 .. k, 1 .. n)
    BY <2>6 DEF Promise!Ext!Injection, Promise!Ext!IsInjective
  <2>8. PICK taken, P : taken = Promise!Ext!Range(draw) /\ P = DOMAIN all \ taken
    OBVIOUS
  <2>9. \A p : p \in taken <=> \E j \in 1 .. k : draw[j] = p
    BY <2>6, <2>8 DEF Promise!Ext!Range
  <2>10. P = {o[j] : j \in 1 .. m}
    <3>1. ASSUME NEW p \in P PROVE \E j \in 1 .. m : p = o[j]
      BY <1>1, <2>6, <2>8, <2>9
    <3>2. ASSUME NEW j \in 1 .. m PROVE o[j] \in P
      <4>1. PICK p \in 1 .. n : p = o[j]
        BY <2>6
      <4> QED
        BY <1>1, <2>6, <2>8, <2>9, <4>1
    <3> QED
      BY <3>1, <3>2
  <2>11. Promise!At(P) = l
    BY <1>1, <2>3, <2>6, <2>10, SelectsAt
  <2>12. vals = [j \in DOMAIN draw |-> all[draw[j]]]
    <3>1. DOMAIN draw = 1 .. k /\ vals = [j \in 1 .. k |-> vals[j]]
      BY <2>6, LenProperties
    <3> QED
      BY <2>6, <3>1
  <2>13. Gives(heap, array, r, l, Promise!List(vals))
    BY <2>2, <2>3, <2>4 DEF Gives, Leaves
  <2>14. Promise!Called("PopRands", <<size>>) /\ Promise!Gives(l, Promise!List(vals))
    BY <1>2, <2>13, CallDoes
  <2>15. \E d \in Promise!Ext!Injection(1 .. Promise!Short(size), DOMAIN all) :
           Promise!Gives(Promise!At(DOMAIN all \ Promise!Ext!Range(d)),
                         Promise!List([j \in DOMAIN d |-> all[d[j]]]))
    BY <1>1, <2>1, <2>7, <2>8, <2>11, <2>12, <2>14
  <2>16. Promise!PopRands(size)
    BY <1>1, <1>2, <1>4, <2>14, <2>15 DEF Promise!PopRands
  <2> QED
    BY <2>16 DEF Promise!Next
<1>5. (size <= 0 \/ n = 0) \/ (size > 0 /\ n > 0)
  BY <1>2
<1> QED
  BY <1>3, <1>4, <1>5

-----------------------------------------------------------------------------
(* Items in another order.                                                 *)

\* Items that are taken in another order are a rearranged sequence.
LEMMA IsRearranged ==
  ASSUME Lists(heap, array), NEW n \in Nat, n = array.len,
         NEW l \in Seq(Values), Len(l) = n, NEW p, Renumbers(p, Items(heap, array), l, n)
  PROVE  l \in Promise!Rearranged
<1>1. PICK s \in Seq(Values) :
        /\ s = Items(heap, array) /\ Len(s) = n /\ DOMAIN s = 1 .. n
  BY ItemsOf
<1>2. DOMAIN l = 1 .. n
  BY LenProperties
<1>3. /\ p \in [1 .. n -> 1 .. n] /\ \A j, k \in 1 .. n : p[j] = p[k] => j = k
      /\ \A k \in 1 .. n : l[k] = s[p[k]]
  BY <1>1 DEF Renumbers
<1>4. IsFiniteSet(1 .. n)
  BY FS_Interval
<1>5. \A j \in 1 .. n : \E k \in 1 .. n : p[k] = j
  <2>1. p \in Injection(1 .. n, 1 .. n)
    BY <1>3 DEF Injection, IsInjective
  <2>2. p \in Surjection(1 .. n, 1 .. n)
    BY <1>4, <2>1, FS_Injection
  <2> QED
    BY <2>2 DEF Surjection
<1>6. PICK values : values = Promise!Ext!Range(s) /\ values = Promise!Ext!Range(l)
  <2> PICK R, T : R = Promise!Ext!Range(s) /\ T = Promise!Ext!Range(l)
    OBVIOUS
  <2>1. \A v : v \in R <=> \E j \in 1 .. n : s[j] = v
    BY <1>1 DEF Promise!Ext!Range
  <2>2. \A v : v \in T <=> \E k \in 1 .. n : l[k] = v
    BY <1>2 DEF Promise!Ext!Range
  <2>3. ASSUME NEW v, NEW j \in 1 .. n, s[j] = v PROVE \E k \in 1 .. n : l[k] = v
    <3>1. PICK k \in 1 .. n : p[k] = j
      BY <1>5
    <3>2. l[k] = v
      BY <1>3, <2>3, <3>1
    <3> QED
      BY <3>2
  <2>4. ASSUME NEW v, NEW k \in 1 .. n, l[k] = v PROVE \E j \in 1 .. n : s[j] = v
    BY <1>3, <2>4
  <2>5. \A v : v \in R <=> v \in T
    BY <2>1, <2>2, <2>3, <2>4
  <2>6. R = T
    BY <2>5
  <2> QED
    BY <2>6
<1>7. l \in [DOMAIN s -> values]
  <2>1. \A k \in 1 .. n : l[k] \in values
    BY <1>2, <1>6 DEF Promise!Ext!Range
  <2>2. l = [k \in 1 .. n |-> l[k]]
    BY <1>2, LenProperties
  <2> QED
    BY <1>1, <2>1, <2>2
<1>8. ASSUME NEW v
      PROVE  Promise!Ext!Cardinality({k \in DOMAIN l : l[k] = v})
               = Promise!Ext!Cardinality({k \in DOMAIN s : s[k] = v})
  <2>1. PICK A, B : A = {k \in DOMAIN l : l[k] = v} /\ B = {k \in DOMAIN s : s[k] = v}
    OBVIOUS
  <2>2. PICK f : f = [k \in A |-> p[k]]
    OBVIOUS
  <2>3. f \in [A -> B]
    BY <1>1, <1>2, <1>3, <2>1, <2>2
  <2>4. ASSUME NEW j \in A, NEW k \in A, f[j] = f[k] PROVE j = k
    BY <1>2, <1>3, <2>1, <2>2, <2>4
  <2>5. ASSUME NEW j \in B PROVE \E k \in A : f[k] = j
    <3>1. PICK k \in 1 .. n : p[k] = j
      BY <1>1, <1>5, <2>1
    <3>2. k \in A
      BY <1>1, <1>2, <1>3, <2>1, <3>1
    <3> QED
      BY <2>2, <3>1, <3>2
  <2>6. f \in Bijection(A, B)
    BY <2>3, <2>4, <2>5 DEF Bijection, Injection, IsInjective, Surjection
  <2>7. IsFiniteSet(A)
    <3>1. A \in SUBSET (1 .. n)
      BY <1>2, <2>1
    <3> QED
      BY <1>4, <3>1, FS_Subset
  <2>8. Cardinality(A) = Cardinality(B)
    <3>1. ExistsBijection(A, B)
      BY <2>6 DEF ExistsBijection
    <3> QED
      BY <2>7, <3>1, FS_Bijection
  <2> QED
    BY <2>1, <2>8, SameCardinality
<1>9. Promise!Ext!ToBag(l) = Promise!Ext!ToBag(s)
  BY <1>6, <1>8 DEF Promise!Ext!ToBag
<1> QED
  BY <1>1, <1>6, <1>7, <1>9 DEF Promise!Rearranged

\* Shuffle rearranges the items.
LEMMA ShuffleImplements ==
  ASSUME Lists(heap, array), NEW r \in Shuffle(heap, array), Call("Shuffle", <<>>, r)
  PROVE  Promise!Next
<1>1. PICK n \in Nat : n = array.len
  BY ItemsOf
<1>2. /\ Takes("Shuffle", <<>>, r) /\ Sound(heap, array, r) /\ Answer(r) = Promise!Success
      /\ \E q : Renumbers(q, Items(heap, array), Items(r.heap, r.array), n)
  BY <1>1, ShuffleSound DEF Call
<1>3. r.array.len = n
  BY <1>1, ShuffleSound DEF Call
<1>4. PICK l \in Seq(Values) : l = Items(r.heap, r.array) /\ Len(l) = n
  <2>1. Lists(r.heap, r.array)
    BY <1>2 DEF Sound, Follows, Lists
  <2> QED
    BY <1>3, <2>1, ItemsOf
<1>5. PICK q : Renumbers(q, Items(heap, array), l, n)
  BY <1>2, <1>4
<1>6. l \in Promise!Rearranged
  BY <1>1, <1>4, <1>5, IsRearranged
<1>7. Promise!Called("Shuffle", <<>>) /\ Promise!Gives(l, Promise!Success)
  <2>1. Gives(heap, array, r, l, Promise!Success)
    BY <1>2, <1>4 DEF Gives, Leaves
  <2> QED
    BY <1>2, <2>1, CallDoes
<1>8. Promise!Shuffle
  BY <1>6, <1>7 DEF Promise!Shuffle
<1> QED
  BY <1>8 DEF Promise!Next

\* Sort rearranges them in the order of the strings, or in the reverse order.
LEMMA SortImplements ==
  ASSUME Lists(heap, array), NEW name, NEW reverse \in BOOLEAN, NEW r, r = Sort(heap, array, reverse),
         Takes(name, <<>>, r)
  PROVE  \E l \in Promise!Rearranged :
           /\ Ordered(l, Len(l), reverse)
           /\ Promise!Called(name, <<>>) /\ Promise!Gives(l, Promise!Success)
<1>1. PICK n \in Nat : n = array.len
  BY ItemsOf
<1>2. /\ Sound(heap, array, r) /\ Answer(r) = Promise!Success /\ r.array.len = n
      /\ Ordered(Items(r.heap, r.array), n, reverse)
      /\ \E q : Renumbers(q, Items(heap, array), Items(r.heap, r.array), n)
  BY <1>1, SortSound
<1>3. PICK l \in Seq(Values) : l = Items(r.heap, r.array) /\ Len(l) = n
  <2>1. Lists(r.heap, r.array)
    BY <1>2 DEF Sound, Follows, Lists
  <2> QED
    BY <1>2, <2>1, ItemsOf
<1>4. PICK q : Renumbers(q, Items(heap, array), l, n)
  BY <1>2, <1>3
<1>5. l \in Promise!Rearranged
  BY <1>1, <1>3, <1>4, IsRearranged
<1>6. Promise!Called(name, <<>>) /\ Promise!Gives(l, Promise!Success)
  <2>1. Gives(heap, array, r, l, Promise!Success)
    BY <1>2, <1>3 DEF Gives, Leaves
  <2> QED
    BY <2>1, CallDoes
<1> QED
  BY <1>2, <1>3, <1>5, <1>6

\* The items are ordered when Sort ends,
LEMMA SortUpImplements ==
  ASSUME Lists(heap, array), Call("Sort", <<>>, Sort(heap, array, FALSE))
  PROVE  Promise!Next
<1>1. PICK l \in Promise!Rearranged :
        /\ Ordered(l, Len(l), FALSE)
        /\ Promise!Called("Sort", <<>>) /\ Promise!Gives(l, Promise!Success)
  BY SortImplements DEF Call
<1>2. Promise!Ext!IsSorted(l, <=)
  BY <1>1 DEF Ordered, Before, Promise!Ext!IsSorted
<1>3. Promise!Sort
  BY <1>1, <1>2 DEF Promise!Sort
<1> QED
  BY <1>3 DEF Promise!Next

\* ... and in reverse order when it sorts down.
LEMMA SortDownImplements ==
  ASSUME Lists(heap, array), Call("SortDown", <<>>, Sort(heap, array, TRUE))
  PROVE  Promise!Next
<1>1. PICK l \in Promise!Rearranged :
        /\ Ordered(l, Len(l), TRUE)
        /\ Promise!Called("SortDown", <<>>) /\ Promise!Gives(l, Promise!Success)
  BY SortImplements DEF Call
<1>2. Promise!Ext!IsSorted(l, >=)
  BY <1>1 DEF Ordered, Before, Promise!Ext!IsSorted
<1>3. Promise!SortDown
  BY <1>1, <1>2 DEF Promise!SortDown
<1> QED
  BY <1>3 DEF Promise!Next

\* No value stands at three places if none occurs three times.
LEMMA AtMostTwiceIf ==
  ASSUME Lists(heap, array), \A v \in Values : Promise!Occurs(v) <= 2
  PROVE  AtMostTwice(Items(heap, array))
<1>1. PICK all \in Seq(Values), n \in Nat :
        /\ all = Items(heap, array) /\ n = array.len /\ Len(all) = n /\ DOMAIN all = 1 .. n
        /\ \A k \in 1 .. n : all[k] \in Values
  BY ItemsOf
<1>2. SUFFICES ASSUME NEW x \in 1 .. n, NEW y \in 1 .. n, NEW z \in 1 .. n,
                      x < y, y < z, all[x] = all[y], all[z] = all[y]
               PROVE  FALSE
  BY <1>1 DEF AtMostTwice
<1>3. PICK v \in Values : v = all[y]
  BY <1>1
<1>4. PICK places, three : /\ places = {k \in DOMAIN all : all[k] = v}
                           /\ three = {x, y, z}
  OBVIOUS
<1>5. Cardinality(three) = 3
  <2>1. PICK o : o[1] = x /\ o[2] = y /\ o[3] = z
    <3>1. PICK o : o = [k \in 1 .. 3 |-> IF k = 1 THEN x ELSE IF k = 2 THEN y ELSE z]
      OBVIOUS
    <3> QED
      BY <3>1
  <2>2. \A k \in 1 .. 3 : k = 1 \/ k = 2 \/ k = 3
    OBVIOUS
  <2>3. Increases(o, 3)
    BY <1>2, <2>1, <2>2 DEF Increases
  <2>4. Lines(o, 3, three)
    <3>1. 1 \in 1 .. 3 /\ 2 \in 1 .. 3 /\ 3 \in 1 .. 3
      OBVIOUS
    <3> QED
      BY <1>4, <2>1, <2>2, <3>1 DEF Lines
  <2> QED
    BY <2>3, <2>4, Increasing
<1>6. three \in SUBSET places /\ places \in SUBSET (1 .. n)
  BY <1>1, <1>2, <1>3, <1>4
<1>7. IsFiniteSet(places)
  <2>1. IsFiniteSet(1 .. n)
    BY FS_Interval
  <2> QED
    BY <1>6, <2>1, FS_Subset
<1>8. Cardinality(three) <= Cardinality(places)
  BY <1>6, <1>7, FS_Subset
<1>9. Cardinality(places) <= 2
  <2>1. Promise!Occurs(v) = Cardinality(places)
    BY <1>1, <1>4, SameCardinality DEF Promise!Occurs
  <2> QED
    BY <2>1
<1>10. Cardinality(places) \in Nat
  BY <1>7, FS_CardinalityType
<1> QED
  BY <1>5, <1>8, <1>9, <1>10

\* Unique leaves the first of equal items, and no other one unless some value
\* occurs three times.
LEMMA UniqueImplements ==
  ASSUME Lists(heap, array), Call("Unique", <<>>, Unique(heap, array))
  PROVE  Promise!Next
<1>1. PICK all \in Seq(Values), n \in Nat :
        all = Items(heap, array) /\ n = array.len /\ Len(all) = n /\ DOMAIN all = 1 .. n
  BY ItemsOf
<1>2. PICK r : r = Unique(heap, array)
  OBVIOUS
<1>3. /\ Takes("Unique", <<>>, r) /\ Sound(heap, array, r) /\ Answer(r) = Promise!Success
      /\ \E i \in Nat, j \in Nat : \E o :
           Scanned(o, all, Items(r.heap, r.array), i, j) /\ r.array.len <= i
  BY <1>1, <1>2, UniqueSound DEF Call
<1>4. PICK l \in Seq(Values), m \in Nat :
        l = Items(r.heap, r.array) /\ m = Len(l) /\ m = r.array.len
  <2>1. Lists(r.heap, r.array)
    BY <1>3 DEF Sound, Follows, Lists
  <2> QED
    BY <2>1, ItemsOf
<1>5. PICK i \in Nat, j \in Nat : m <= i /\ \E o : Scanned(o, all, l, i, j)
  BY <1>3, <1>4
<1>6. PICK o : Scanned(o, all, l, i, j)
  BY <1>5
<1>7. /\ Selects(o, all, l) /\ o \in [1 .. m -> 1 .. n] /\ \A k \in 1 .. m : l[k] = all[o[k]]
      /\ \A p \in 1 .. n : FirstAt(all, p) => \E k \in 1 .. m : o[k] = p
  BY <1>1, <1>4, <1>6 DEF Scanned, Selects
<1>8. PICK kept : kept = {o[k] : k \in 1 .. m}
  OBVIOUS
<1>9. Promise!Firsts = {p \in 1 .. n : FirstAt(all, p)}
  BY <1>1 DEF Promise!Firsts, FirstAt
<1>10. kept \in SUBSET (DOMAIN all) /\ Promise!Firsts \subseteq kept
  BY <1>1, <1>7, <1>8, <1>9
<1>11. ASSUME \A v \in Values : Promise!Occurs(v) <= 2 PROVE kept = Promise!Firsts
  <2>1. AtMostTwice(all)
    BY <1>1, <1>11, AtMostTwiceIf
  <2>2. \A b, c \in 1 .. m : b < c => l[b] # l[c]
    <3>1. \A b \in 1 .. m : b <= i
      BY <1>5
    <3> QED
      BY <1>4, <1>6, <2>1, <3>1 DEF Scanned
  <2>3. ASSUME NEW k \in 1 .. m PROVE FirstAt(all, o[k])
    <3>1. PICK p \in 1 .. n : p = o[k]
      BY <1>7
    <3>2. PICK S : S = {q \in 1 .. n : all[q] = all[p]}
      OBVIOUS
    <3>3. PICK q \in S : \A x \in S : q <= x
      <4>1. p \in S /\ S \in SUBSET Nat
        BY <3>2
      <4> QED
        BY <4>1, LeastNumber
    <3>4. FirstAt(all, q)
      <4>1. ASSUME NEW x \in 1 .. q - 1, all[x] = all[q] PROVE FALSE
        <5>1. x \in 1 .. n /\ ~(q <= x)
          BY <3>2, <3>3
        <5>2. x \in S
          BY <3>2, <4>1, <5>1
        <5> QED
          BY <3>3, <5>1, <5>2
      <4> QED
        BY <4>1 DEF FirstAt
    <3>5. PICK c \in 1 .. m : o[c] = q
      BY <1>7, <3>2, <3>4
    <3>6. l[c] = l[k]
      BY <1>7, <3>1, <3>2, <3>5
    <3>7. c = k
      <4>1. ~(c < k) /\ ~(k < c)
        BY <2>2, <3>6
      <4> QED
        BY <4>1
    <3> QED
      BY <3>4, <3>5, <3>7
  <2>4. kept \subseteq Promise!Firsts
    BY <1>7, <1>8, <1>9, <2>3
  <2> QED
    BY <1>10, <2>4
<1>12. Promise!At(kept) = l
  <2>1. kept = {o[k] : k \in 1 .. Len(l)} /\ Selects(o, Items(heap, array), l)
    BY <1>1, <1>4, <1>7, <1>8
  <2> QED
    BY <2>1, SelectsAt
<1>13. Promise!Called("Unique", <<>>) /\ Promise!Gives(l, Promise!Success)
  <2>1. Gives(heap, array, r, l, Promise!Success)
    BY <1>3, <1>4 DEF Gives, Leaves
  <2> QED
    BY <1>3, <2>1, CallDoes
<1>14. Promise!Unique
  <2>1. "Unique" \in OpenCases
    BY DEF OpenCases
  <2>2. (\A v \in Values : Promise!Occurs(v) <= 2) => kept = Promise!Firsts
    BY <1>11
  <2> QED
    BY <1>1, <1>10, <1>12, <1>13, <2>1, <2>2 DEF Promise!Unique
<1> QED
  BY <1>14 DEF Promise!Next

-----------------------------------------------------------------------------
(* The refinement.                                                         *)

\* No method that reads answers anything else than a plain sequence does.
LEMMA ReadingStep ==
  ASSUME Lists(heap, array), NEW g, Reading(g)
  PROVE  Promise!Next
BY ReadingImplements, ChunkImplements

\* No method that rewrites items does anything else,
LEMMA ChangingStep ==
  ASSUME CopiesInv, NEW g, Changing(g)
  PROVE  Promise!Next
BY ChangingImplements, SortUpImplements, SortDownImplements, ShuffleImplements DEF CopiesInv

\* ... and none that takes items away.
LEMMA ShrinkingStep ==
  ASSUME Lists(heap, array), NEW g, Shrinking(g)
  PROVE  Promise!Next
BY ShrinkingImplements, UniqueImplements, FilterEmptyImplements, PopRandsImplements

\* A new array holds the items of the caller.
LEMMA InitImplements ==
  ASSUME Init
  PROVE  Promise!Init
<1>1. Items(heap, array) \in Seq(Values)
  BY InitInv, ItemsOf DEF Inv, CopiesInv
<1> QED
  BY <1>1 DEF Init, Promise!Init, Promise!Failure, Promise!Reply

\* A step is one of a plain sequence, or changes nothing that it has.
LEMMA NextImplements ==
  ASSUME Inv, [Next]_vars
  PROVE  [Promise!Next]_(Promise!vars)
<1>1. Lists(heap, array) /\ CopiesInv
  BY DEF Inv, CopiesInv
<1>2. ASSUME UNCHANGED vars PROVE UNCHANGED Promise!vars
  BY <1>2 DEF vars, Promise!vars
<1>3. ASSUME NEW g \in Goroutines, Reading(g) \/ Appending(g) PROVE Promise!Next
  BY <1>1, <1>3, ReadingStep, AppendingImplements
<1>4. ASSUME Changing(Editor) \/ Growing(Editor) \/ Shrinking(Editor) PROVE Promise!Next
  BY <1>1, <1>4, ChangingStep, GrowingImplements, ShrinkingStep
<1>5. ASSUME NEW v \in Values, FindValue(Editor, v)
      PROVE  Promise!Next \/ UNCHANGED Promise!vars
  BY <1>5, FindValueImplements
<1>6. ASSUME NEW g \in Goroutines, RemoveFound(g) PROVE Promise!Next
  BY <1>6, RemoveValueImplements
<1> QED
  BY <1>2, <1>3, <1>4, <1>5, <1>6 DEF Next, Edit, Finished

\* Every call has the effect and the answer that it has on a plain sequence,
\* although items are shifted, appended in place or moved to other blocks, and
\* RemoveValue takes the lock twice: for arrays of any length, any arguments,
\* and any number of goroutines and of calls.  The four cases of OpenCases, in
\* which the code does something else than its comments say, are left open; the
\* items then stay, or, for Unique, the first of equal ones do.  (StrArrayOps has
\* Sort as the insertion sort that Go uses for up to twelve items.)
THEOREM Refinement == Spec => ImplementsSequence
<1>1. Init => Promise!Init
  BY InitImplements
<1>2. Inv /\ [Next]_vars => [Promise!Next]_(Promise!vars)
  BY NextImplements
<1>3. []Inv /\ [][Next]_vars => [][Promise!Next]_(Promise!vars)
  BY <1>2, PTL
<1> QED
  BY <1>1, <1>3, Invariance, PTL DEF Spec, ImplementsSequence, Promise!Spec
=============================================================================
