---------------------------- MODULE StrArrayOps -----------------------------
(***************************************************************************)
(* The methods of a concurrent-safe StrArray (garray_normal_str.go): what  *)
(* the critical section of each makes of the heap and of the slice that    *)
(* the array holds.  An operator has the name of its method and gives the  *)
(* result, or the set of results where the method draws lots.              *)
(*                                                                         *)
(* Strings are numbers, in the order of the strings.  What a caller passes *)
(* as a slice can have a spare capacity.                                   *)
(***************************************************************************)
EXTENDS GoSlices

\* The heap and the array after a call, whether it found what it looked for,
\* the values it returns, and the slices it hands out.
Result(heap, array, ok, vals, slices) ==
  [heap |-> heap, array |-> array, ok |-> ok, vals |-> vals,
   slices |-> slices, panic |-> FALSE]

Done(r) == Result(r.heap, r.slice, TRUE, <<>>, <<>>)
Failed(heap, a) == Result(heap, a, FALSE, <<>>, <<>>)
Panicked(heap, a) == [Failed(heap, a) EXCEPT !.panic = TRUE]
Tell(heap, a, v) == Result(heap, a, TRUE, <<v>>, <<>>)
Hand(heap, a, s) == Result(heap, a, TRUE, <<>>, <<s>>)

\* make and copy
HandCopy(heap, a, vals) ==
  LET new == Fresh(heap, vals, Len(vals)) IN Hand(new.heap, a, new.slice)

\* The items of a changed where they are.
Rewritten(heap, a, vals) == Done([heap |-> Written(heap, a, 0, vals), slice |-> a])

InRange(a, i) == 0 <= i /\ i < a.len
Smaller(m, n) == IF m < n THEN m ELSE n

\* append(a[:i], a[i+1:]...): the items behind i move up in their block.
CloseUp(heap, a, i) ==
  Appended(heap, Cut(a, 0, i), Items(heap, Cut(a, i + 1, a.len)))

-----------------------------------------------------------------------------
NewStrArrayFrom(heap, vals, spare) == Fresh(heap, vals, Len(vals) + spare)

Get(heap, a, i) ==
  IF InRange(a, i) THEN Tell(heap, a, At(heap, a, i)) ELSE Failed(heap, a)

Set(heap, a, i, v) ==
  IF InRange(a, i)
  THEN Done([heap |-> Written(heap, a, i, <<v>>), slice |-> a])
  ELSE Failed(heap, a)

\* s is the slice that the caller passes, and stays the caller's.
SetArray(heap, s) == Done([heap |-> heap, slice |-> s])

Replace(heap, a, vals) ==
  Rewritten(heap, a, SubSeq(vals, 1, Smaller(Len(vals), a.len)))

\* Up to twelve items sort.Slice is an insertion sort, which ends in the
\* reverse order although the less function holds for equal items.
Moved(s, v, reverse) ==
  LET Passes(w) == IF reverse THEN v >= w ELSE v < w
      places == {k \in 0 .. Len(s) : \A j \in k + 1 .. Len(s) : Passes(s[j])}
      place  == CHOOSE k \in places : \A j \in places : k <= j
  IN  SubSeq(s, 1, place) \o <<v>> \o SubSeq(s, place + 1, Len(s))

Sort(heap, a, reverse) ==
  LET loop[n \in 0 .. a.len] ==
        IF n = 0 THEN <<>> ELSE Moved(loop[n - 1], At(heap, a, n - 1), reverse)
  IN  Rewritten(heap, a, loop[a.len])

\* Mutant: the rear is looked at where it was, not copied.
InsertedInPlace(heap, a, i, v) ==
  LET front == Appended(heap, Cut(a, 0, i), <<v>>)
  IN  Done(Appended(front.heap, front.slice, Items(front.heap, Cut(a, i, a.len))))

\* The rear is copied before the first append may write over it.
Inserted(heap, a, i, v) ==
  LET rear  == Items(heap, Cut(a, i, a.len))
      front == Appended(heap, Cut(a, 0, i), <<v>>)
  IN  Done(Appended(front.heap, front.slice, rear))

InsertBefore(heap, a, i, v) ==
  IF InRange(a, i) THEN Inserted(heap, a, i, v) ELSE Failed(heap, a)

InsertAfter(heap, a, i, v) ==
  IF InRange(a, i) THEN Inserted(heap, a, i + 1, v) ELSE Failed(heap, a)

\* doRemoveWithoutLock: at either end the array is cut, and nothing moves.
Remove(heap, a, i) ==
  LET rest == CASE i = 0 -> [heap |-> heap, slice |-> Cut(a, 1, a.len)]
                [] i # 0 /\ i = a.len - 1 -> [heap |-> heap, slice |-> Cut(a, 0, i)]
                [] OTHER -> CloseUp(heap, a, i)
  IN  IF InRange(a, i)
      THEN Result(rest.heap, rest.slice, TRUE, <<At(heap, a, i)>>, <<>>)
      ELSE Failed(heap, a)

-----------------------------------------------------------------------------
\* append(value, a.array...): the array moves to the block of the slice that the
\* caller passes, or to a new one.
PushLeft(heap, a, s) == Done(Appended(heap, s, Items(heap, a)))

\* Mutant: the arguments of append exchanged.
PushRightSwapped(heap, a, vals) ==
  LET value == Fresh(heap, vals, Len(vals)) IN PushLeft(value.heap, a, value.slice)

\* Append and Merge are PushRight.
PushRight(heap, a, vals) == Done(Appended(heap, a, vals))

PopLeft(heap, a) ==
  IF a.len = 0 THEN Failed(heap, a)
  ELSE Result(heap, Cut(a, 1, a.len), TRUE, <<At(heap, a, 0)>>, <<>>)

PopRight(heap, a) ==
  IF a.len = 0 THEN Failed(heap, a)
  ELSE Result(heap, Cut(a, 0, a.len - 1), TRUE, <<At(heap, a, a.len - 1)>>, <<>>)

\* rand.Intn(0) panics; the deferred Unlock releases the lock.
PopRand(heap, a) ==
  IF a.len = 0 THEN {Panicked(heap, a)}
  ELSE {Remove(heap, a, i) : i \in 0 .. a.len - 1}

DrawOne(d) ==
  {LET r == Remove(d.heap, d.array, i) IN [r EXCEPT !.vals = d.vals \o @] :
     i \in 0 .. d.array.len - 1}

PopRands(heap, a, size) ==
  LET n == Smaller(size, a.len)
      drawn[k \in 0 .. n] ==
        IF k = 0 THEN {Result(heap, a, TRUE, <<>>, <<>>)}
        ELSE UNION {DrawOne(d) : d \in drawn[k - 1]}
  IN  IF size <= 0 \/ a.len = 0 THEN {Failed(heap, a)}
      ELSE {HandCopy(d.heap, d.array, d.vals) : d \in drawn[n]}

\* What is popped is handed out as it lies in the block.
PopLefts(heap, a, size) ==
  CASE size <= 0 \/ a.len = 0 -> Failed(heap, a)
    [] size >= a.len /\ a.len > 0 -> Hand(heap, Cut(a, 0, 0), a)
    [] OTHER -> Hand(heap, Cut(a, size, a.len), Cut(a, 0, size))

PopRights(heap, a, size) ==
  CASE size <= 0 \/ a.len = 0 -> Failed(heap, a)
    [] size >= a.len /\ a.len > 0 -> Hand(heap, Cut(a, 0, 0), a)
    [] OTHER -> Hand(heap, Cut(a, 0, a.len - size), Cut(a, a.len - size, a.len))

-----------------------------------------------------------------------------
\* Range; module Functions has an operator of that name.
RangeOf(heap, a, start, end) ==
  LET offsetEnd == Smaller(end, a.len)
      from      == IF start < 0 THEN 0 ELSE start
  IN  CASE start > offsetEnd -> Failed(heap, a)
        [] start <= offsetEnd /\ from > offsetEnd -> Panicked(heap, a)   \* make(-n)
        [] OTHER -> HandCopy(heap, a, Items(heap, Cut(a, from, offsetEnd)))

\* A negative length asks for the items in front of the offset.
SubSlice(heap, a, offset, length) ==
  LET from  == IF offset < 0 THEN a.len + offset ELSE offset
      first == IF length < 0 THEN from + length ELSE from
      size  == IF length < 0 THEN -length ELSE length
  IN  IF offset > a.len \/ from < 0 \/ first < 0 THEN Failed(heap, a)
      ELSE HandCopy(heap, a, Items(heap, Cut(a, first, Smaller(first + size, a.len))))

\* Mutant: what an array without a lock does.
SliceShared(heap, a) == Hand(heap, a, a)

Slice(heap, a) == HandCopy(heap, a, Items(heap, a))

Clear(heap, a) == Done([heap |-> heap, slice |-> IF a.len > 0 THEN NilSlice ELSE a])

Search(heap, a, v) ==
  LET hits == {i \in 0 .. a.len - 1 : At(heap, a, i) = v}
  IN  Tell(heap, a, IF hits = {} THEN -1
                    ELSE CHOOSE i \in hits : \A j \in hits : i <= j)

\* The two loops: j goes on by one although an item has moved up to it.
UniqueRound(s) ==
  LET less == CloseUp(s.heap, s.slice, s.j)
  IN  CASE s.j >= s.slice.len -> [s EXCEPT !.i = @ + 1, !.j = s.i + 2]
        [] /\ s.j < s.slice.len
           /\ At(s.heap, s.slice, s.i) = At(s.heap, s.slice, s.j) ->
             [heap |-> less.heap, slice |-> less.slice, i |-> s.i, j |-> s.j + 1]
        [] OTHER -> [s EXCEPT !.j = @ + 1]

Unique(heap, a) ==
  LET rounds == a.len * a.len
      loop[n \in 0 .. rounds] ==
        IF n = 0 THEN [heap |-> heap, slice |-> a, i |-> 0, j |-> 1]
        ELSE UniqueRound(loop[n - 1])
  IN  Done(loop[rounds])

FillRound(s, i, v) ==
  IF i > s.slice.len - 1 THEN Appended(s.heap, s.slice, <<v>>)
  ELSE [s EXCEPT !.heap = Written(@, s.slice, i, <<v>>)]

Fill(heap, a, startIndex, num, v) ==
  LET rounds == IF num > 0 THEN num ELSE 0
      loop[n \in 0 .. rounds] ==
        IF n = 0 THEN [heap |-> heap, slice |-> a]
        ELSE FillRound(loop[n - 1], startIndex + n - 1, v)
  IN  IF startIndex < 0 \/ startIndex > a.len THEN Failed(heap, a)
      ELSE Done(loop[rounds])

\* Views of the array, not copies.
Chunk(heap, a, size) ==
  IF size < 1 THEN Failed(heap, a)
  ELSE Result(heap, a, TRUE, <<>>,
         [k \in 1 .. (a.len + size - 1) \div size |->
            Cut(a, (k - 1) * size, Smaller(k * size, a.len))])

Pad(heap, a, size, v) ==
  LET n   == (IF size < 0 THEN -size ELSE size) - a.len
      tmp == [k \in 1 .. n |-> v]
      new == Fresh(heap, tmp, n)
  IN  CASE size = 0 \/ n < 0 -> Done([heap |-> heap, slice |-> a])
        [] size > 0 /\ n >= 0 -> Done(Appended(heap, a, tmp))
        [] size < 0 /\ n >= 0 -> Done(Appended(new.heap, new.slice, Items(heap, a)))

Rand(heap, a) ==
  IF a.len = 0 THEN {Failed(heap, a)}
  ELSE {Tell(heap, a, At(heap, a, i)) : i \in 0 .. a.len - 1}

Rands(heap, a, size) ==
  IF size <= 0 \/ a.len = 0 THEN {Failed(heap, a)}
  ELSE {HandCopy(heap, a, [k \in 1 .. size |-> At(heap, a, draw[k])]) :
          draw \in [1 .. size -> 0 .. a.len - 1]}

\* rand.Perm(n), counted from 1: k gets the place of a number, or one behind all
\* of them, and the number that was there goes to the end.
Placed(p, k) ==
  {[j \in 1 .. k |-> CASE j = i -> k [] j # i /\ j = k -> p[i] [] OTHER -> p[j]] : i \in 1 .. k}

Permutation(n) ==
  LET loop[k \in 0 .. n] ==
        IF k = 0 THEN {<<>>} ELSE UNION {Placed(p, k) : p \in loop[k - 1]}
  IN  loop[n]

Exchanged(s, i, j) == [s EXCEPT ![i] = s[j], ![j] = s[i]]

\* Item i changes places with item p[i], for each i in turn.
Shuffle(heap, a) ==
  {LET loop[n \in 0 .. a.len] ==
         IF n = 0 THEN Items(heap, a) ELSE Exchanged(loop[n - 1], n, p[n])
   IN  Rewritten(heap, a, loop[a.len]) : p \in Permutation(a.len)}

Reverse(heap, a) ==
  Rewritten(heap, a, [k \in 1 .. a.len |-> At(heap, a, a.len - k)])

EmptyRound(s) ==
  LET less == CloseUp(s.heap, s.slice, s.i)
  IN  IF At(s.heap, s.slice, s.i) = Empty
      THEN [heap |-> less.heap, slice |-> less.slice, i |-> s.i]
      ELSE [s EXCEPT !.i = @ + 1]

FilterEmpty(heap, a) ==
  LET loop[n \in 0 .. a.len] ==
        IF n = 0 THEN [heap |-> heap, slice |-> a, i |-> 0] ELSE EmptyRound(loop[n - 1])
  IN  Done(loop[a.len])

\* f is the user's function, for every string.
Walk(heap, a, f) == Rewritten(heap, a, [k \in 1 .. a.len |-> f[At(heap, a, k - 1)]])
=============================================================================
