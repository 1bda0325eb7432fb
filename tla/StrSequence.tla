---------------------------- MODULE StrSequence -----------------------------
(***************************************************************************)
(* What a StrArray promises: a sequence of strings.  Every call changes it *)
(* at one instant and is answered, as the method's comment says; how the   *)
(* items lie in memory, and which slices share it, does not show.  Where   *)
(* the code is known to do something else, the promise can be left open.   *)
(***************************************************************************)
EXTENDS Integers, Sequences, FiniteSets

CONSTANTS
  Values,     \* strings, as numbers in the order of the strings
  Empty,      \* the empty one
  Indexes,    \* arguments: indexes,
  Sizes,      \* sizes and lengths, negative ones too,
  Batches,    \* lists of strings,
  Functions,  \* and functions of strings
  Open        \* the methods with a case left open: "Range", "SubSlice",
              \* "PopRand", "Unique"

VARIABLES
  items,
  op, args, reply   \* the last call that ended, and what it was answered

vars == <<items, op, args, reply>>

Ext == INSTANCE SequencesExt

Reply(ok, vals, lists) == [ok |-> ok, vals |-> vals, lists |-> lists, panic |-> FALSE]
Success == Reply(TRUE, <<>>, <<>>)
Failure == Reply(FALSE, <<>>, <<>>)
Value(v) == Reply(TRUE, <<v>>, <<>>)
List(s) == Reply(TRUE, <<>>, <<s>>)

Called(name, arguments) == op' = name /\ args' = arguments

Gives(new, result) == items' = new /\ reply' = result

\* Nothing happens unless cond holds.
GivesIf(cond, new, result) ==
  \/ cond /\ Gives(new, result)
  \/ ~cond /\ Gives(items, Failure)

\* The items stay, whatever the answer is.
LeftOpen(name, case) == name \in Open /\ case /\ UNCHANGED items

N == Len(items)
Valid(i) == i \in 0 .. N - 1
First(n) == SubSeq(items, 1, n)
After(n) == SubSeq(items, n + 1, N)
Short(n) == Ext!Min({n, N})

\* The k-th of these positions, and the items at them, in order.
Nth(positions, k) ==
  CHOOSE p \in positions : Cardinality({q \in positions : q < p}) = k - 1
At(positions) == [k \in 1 .. Cardinality(positions) |-> items[Nth(positions, k)]]

Rearranged ==
  {s \in [DOMAIN items -> Ext!Range(items)] : Ext!ToBag(s) = Ext!ToBag(items)}

Occurs(v) == Cardinality({k \in DOMAIN items : items[k] = v})
Firsts == {k \in DOMAIN items : \A j \in 1 .. k - 1 : items[j] # items[k]}

-----------------------------------------------------------------------------
Get(i) == Called("Get", <<i>>) /\ GivesIf(Valid(i), items, Value(items[i + 1]))

Set(i, v) ==
  Called("Set", <<i, v>>) /\ GivesIf(Valid(i), Ext!ReplaceAt(items, i + 1, v), Success)

SetArray(vs) == Called("SetArray", vs) /\ Gives(vs, Success)

Replace(vs) ==
  /\ Called("Replace", vs)
  /\ Gives([k \in DOMAIN items |-> IF k \in DOMAIN vs THEN vs[k] ELSE items[k]], Success)

Sort ==
  /\ Called("Sort", <<>>)
  /\ \E s \in Rearranged : Ext!IsSorted(s, <=) /\ Gives(s, Success)

SortDown ==
  /\ Called("SortDown", <<>>)
  /\ \E s \in Rearranged : Ext!IsSorted(s, >=) /\ Gives(s, Success)

Shuffle == Called("Shuffle", <<>>) /\ \E s \in Rearranged : Gives(s, Success)

Reverse == Called("Reverse", <<>>) /\ Gives(Ext!Reverse(items), Success)

Walk(f) ==
  Called("Walk", <<>>) /\ Gives([k \in DOMAIN items |-> f[items[k]]], Success)

InsertBefore(i, v) ==
  /\ Called("InsertBefore", <<i, v>>)
  /\ GivesIf(Valid(i), Ext!InsertAt(items, i + 1, v), Success)

InsertAfter(i, v) ==
  /\ Called("InsertAfter", <<i, v>>)
  /\ GivesIf(Valid(i), Ext!InsertAt(items, i + 2, v), Success)

PushLeft(vs) == Called("PushLeft", vs) /\ Gives(vs \o items, Success)
PushRight(vs) == Called("PushRight", vs) /\ Gives(items \o vs, Success)

Fill(start, num, v) ==
  /\ Called("Fill", <<start, num, v>>)
  /\ GivesIf(start \in 0 .. N,
       [k \in 1 .. Ext!Max({N, start + num}) |->
          IF k \in start + 1 .. start + num THEN v ELSE items[k]], Success)

Pad(size, v) ==
  LET missing == Ext!Max({0, (IF size < 0 THEN -size ELSE size) - N})
      padding == [k \in 1 .. missing |-> v]
  IN  /\ Called("Pad", <<size, v>>)
      /\ \/ size >= 0 /\ Gives(items \o padding, Success)
         \/ size < 0 /\ Gives(padding \o items, Success)

-----------------------------------------------------------------------------
Remove(i) ==
  /\ Called("Remove", <<i>>)
  /\ GivesIf(Valid(i), Ext!RemoveAt(items, i + 1), Value(items[i + 1]))

RemoveValue(v) ==
  Called("RemoveValue", <<v>>) /\ GivesIf(Occurs(v) > 0, Ext!RemoveFirst(items, v), Success)

PopLeft == Called("PopLeft", <<>>) /\ GivesIf(N > 0, After(1), Value(items[1]))
PopRight == Called("PopRight", <<>>) /\ GivesIf(N > 0, First(N - 1), Value(items[N]))

\* An empty array: "the <found> is false".
PopRand ==
  /\ Called("PopRand", <<>>)
  /\ \/ N = 0 /\ Gives(items, Failure)
     \/ LeftOpen("PopRand", N = 0)
     \/ \E k \in DOMAIN items : Gives(Ext!RemoveAt(items, k), Value(items[k]))

PopRands(n) ==
  /\ Called("PopRands", <<n>>)
  /\ \/ (n <= 0 \/ N = 0) /\ Gives(items, Failure)
     \/ /\ n > 0 /\ N > 0
        /\ \E draw \in Ext!Injection(1 .. Short(n), DOMAIN items) :
             Gives(At(DOMAIN items \ Ext!Range(draw)),
                   List([k \in DOMAIN draw |-> items[draw[k]]]))

PopLefts(n) ==
  /\ Called("PopLefts", <<n>>)
  /\ GivesIf(n > 0 /\ N > 0, After(Short(n)), List(First(Short(n))))

PopRights(n) ==
  /\ Called("PopRights", <<n>>)
  /\ GivesIf(n > 0 /\ N > 0, First(N - Short(n)), List(After(N - Short(n))))

Clear == Called("Clear", <<>>) /\ Gives(<<>>, Success)

FilterEmpty ==
  /\ Called("FilterEmpty", <<>>)
  /\ Gives(At({k \in DOMAIN items : items[k] # Empty}), Success)

\* The first of equal items stays, the others go; left open: what becomes of the
\* others when there are more than one.
Unique ==
  /\ Called("Unique", <<>>)
  /\ \E kept \in SUBSET (DOMAIN items) :
       /\ Firsts \subseteq kept
       /\ "Unique" \notin Open \/ (\A v \in Values : Occurs(v) <= 2) => kept = Firsts
       /\ Gives(At(kept), Success)

-----------------------------------------------------------------------------
Search(v) ==
  LET hits == {k \in DOMAIN items : items[k] = v}
  IN  /\ Called("Search", <<v>>)
      /\ Gives(items, Value(IF hits = {} THEN -1 ELSE Ext!Min(hits) - 1))

Slice == Called("Slice", <<>>) /\ Gives(items, List(items))

\* Like array[start:end]; a negative end counts from the end of the array.
Range(start, end) ==
  LET from == Ext!Max({start, 0})
      to   == IF end < 0 THEN N + end ELSE Short(end)
  IN  /\ Called("Range", <<start, end>>)
      /\ \/ GivesIf(from <= to, items, List(SubSeq(items, from + 1, to)))
         \/ LeftOpen("Range", end < 0)

\* A negative offset counts from the end of the array.  A negative length stops
\* that many items from the end.
SubSlice(offset, length) ==
  LET from == IF offset < 0 THEN N + offset ELSE offset
      to   == IF length < 0 THEN N + length ELSE Short(from + length)
  IN  /\ Called("SubSlice", <<offset, length>>)
      /\ \/ GivesIf(from \in 0 .. N /\ from <= to, items,
              List(SubSeq(items, from + 1, to)))
         \/ LeftOpen("SubSlice", length < 0)

Chunk(size) ==
  /\ Called("Chunk", <<size>>)
  /\ GivesIf(size >= 1, items,
       Reply(TRUE, <<>>,
         [k \in 1 .. Cardinality({n \in 0 .. N - 1 : n % size = 0}) |->
            SubSeq(items, (k - 1) * size + 1, Short(k * size))]))

Rand ==
  /\ Called("Rand", <<>>)
  /\ \/ N = 0 /\ Gives(items, Failure)
     \/ \E v \in Ext!Range(items) : Gives(items, Value(v))

Rands(n) ==
  /\ Called("Rands", <<n>>)
  /\ \/ (n <= 0 \/ N = 0) /\ Gives(items, Failure)
     \/ n > 0 /\ N > 0 /\ \E s \in [1 .. n -> Ext!Range(items)] : Gives(items, List(s))

-----------------------------------------------------------------------------
Init ==
  /\ items \in Seq(Values)
  /\ op = "none" /\ args = <<>> /\ reply = Failure

Next ==
  \/ \E i \in Indexes : Get(i) \/ Remove(i)
  \/ \E i \in Indexes, v \in Values : Set(i, v) \/ InsertBefore(i, v) \/ InsertAfter(i, v)
  \/ \E v \in Values : RemoveValue(v) \/ Search(v)
  \/ \E vs \in Batches : Replace(vs) \/ PushRight(vs)
  \/ \E vs \in {args'} \cap Seq(Values) : SetArray(vs) \/ PushLeft(vs)
  \/ Sort \/ SortDown \/ Shuffle \/ Reverse \/ Unique \/ FilterEmpty \/ Clear \/ Slice
  \/ PopLeft \/ PopRight \/ PopRand \/ Rand
  \/ \E n \in Sizes : PopLefts(n) \/ PopRights(n) \/ PopRands(n) \/ Rands(n) \/ Chunk(n)
  \/ \E i \in Indexes, n \in Sizes : Range(i, n) \/ SubSlice(i, n)
  \/ \E i \in Indexes, n \in Sizes, v \in Values : Fill(i, n, v)
  \/ \E n \in Sizes, v \in Values : Pad(n, v)
  \/ \E f \in Functions : Walk(f)

Spec == Init /\ [][Next]_vars
=============================================================================
