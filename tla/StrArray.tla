------------------------------ MODULE StrArray ------------------------------
(***************************************************************************)
(* A concurrent-safe StrArray, made from a caller's slice as AddChannel    *)
(* and RemoveChannel make it, and goroutines that call its methods.        *)
(*                                                                         *)
(* A method is one critical section of a.mu (module RWMutex) and so one    *)
(* step.  RemoveValue is two: Search gives up the lock before Remove takes *)
(* it.  Its answer is right as long as nobody moves items in between, so   *)
(* only one goroutine, the editor, calls methods that do; the others       *)
(* append and read.  (The pool calls all of them under c.mu.)              *)
(***************************************************************************)
EXTENDS StrArrayOps

CONSTANTS
  Goroutines,
  Editor,     \* the one that may move, replace and remove items
  Values, Indexes, Sizes, Batches, Functions,   \* as in StrSequence
  Initial,    \* lists that the array is made from
  Spares,     \* spare capacities of the slices that callers pass in
  MaxCalls,   \* bound on the number of calls
  MaxLength   \* nothing is called any more when the array is longer

ASSUME EditorAssumption == Editor \in Goroutines
ASSUME ValueAssumption == Values \subseteq Nat /\ Empty \in Values
ASSUME ArgumentAssumption ==
  /\ Indexes \subseteq Int /\ Sizes \subseteq Int /\ Spares \subseteq Nat
  /\ Initial \cup Batches \subseteq Seq(Values)
  /\ Functions \subseteq [Values -> Values]
ASSUME BoundAssumption == MaxCalls \in Nat /\ MaxLength \in Nat

VARIABLES
  heap,
  array,     \* a.array
  op, args, reply,   \* the last call that ended, and what it was answered
  pending,   \* the RemoveValue that has searched: its value and what it found
  known,     \* the slices that callers have: what they passed in or were handed
  copies,    \* those they got as copies and have not passed back, with what
             \* they held then
  calls      \* how many have been made

vars == <<heap, array, op, args, reply, pending, known, copies, calls>>

NotSearching == <<>>

\* The methods that return "a copy" of the slice in concurrent-safe usage.
Copying == {"Slice", "Range", "SubSlice", "PopRands", "Rands"}

\* Those that return slices as they lie in the block.
Viewing == {"PopLefts", "PopRights", "Chunk"}

Contents(h, slices) == [k \in DOMAIN slices |-> Items(h, slices[k])]

Handed(r) == {r.slices[k] : k \in DOMAIN r.slices}

Does(name, arguments, r) ==
  /\ heap' = r.heap
  /\ array' = r.array
  /\ op' = name
  /\ args' = arguments
  /\ reply' = [ok |-> r.ok, vals |-> r.vals, lists |-> Contents(r.heap, r.slices),
               panic |-> r.panic]

Takes(name, arguments, r) ==
  /\ Does(name, arguments, r)
  /\ known' = IF name \in Copying \cup Viewing THEN known \cup Handed(r) ELSE known
  /\ copies' = IF name \in Copying
               THEN copies \cup {[slice |-> s, held |-> Items(r.heap, s)] : s \in Handed(r)}
               ELSE copies

Call(name, arguments, r) ==
  /\ calls' = calls + 1
  /\ Takes(name, arguments, r)
  /\ UNCHANGED pending

\* What a caller can pass in: a slice that it makes, or one that it has.
Passed ==
       {Fresh(heap, vs, Len(vs) + n) : vs \in Batches, n \in Spares}
  \cup {[heap |-> heap, slice |-> s] : s \in known}

\* A method to which the caller gives p; a copy in its block is no copy any more.
Pass(name, p, r) ==
  /\ calls' = calls + 1
  /\ Does(name, Items(p.heap, p.slice), r)
  /\ known' = known \cup {p.slice}
  /\ copies' = {c \in copies : c.slice.block # p.slice.block}
  /\ UNCHANGED pending

-----------------------------------------------------------------------------
Reading(g) ==
  \/ \E i \in Indexes : Call("Get", <<i>>, Get(heap, array, i))
  \/ \E v \in Values : Call("Search", <<v>>, Search(heap, array, v))
  \/ Call("Slice", <<>>, Slice(heap, array))
  \/ \E i \in Indexes, n \in Sizes : Call("Range", <<i, n>>, RangeOf(heap, array, i, n))
  \/ \E i \in Indexes, n \in Sizes :
       Call("SubSlice", <<i, n>>, SubSlice(heap, array, i, n))
  \/ \E n \in Sizes : Call("Chunk", <<n>>, Chunk(heap, array, n))
  \/ \E r \in Rand(heap, array) : Call("Rand", <<>>, r)
  \/ \E n \in Sizes : \E r \in Rands(heap, array, n) : Call("Rands", <<n>>, r)

Appending(g) == \E vs \in Batches : Call("PushRight", vs, PushRight(heap, array, vs))

Changing(g) ==
  \/ \E i \in Indexes, v \in Values : Call("Set", <<i, v>>, Set(heap, array, i, v))
  \/ \E p \in Passed : Pass("SetArray", p, SetArray(p.heap, p.slice))
  \/ \E vs \in Batches : Call("Replace", vs, Replace(heap, array, vs))
  \/ Call("Sort", <<>>, Sort(heap, array, FALSE))
  \/ Call("SortDown", <<>>, Sort(heap, array, TRUE))
  \/ \E r \in Shuffle(heap, array) : Call("Shuffle", <<>>, r)
  \/ Call("Reverse", <<>>, Reverse(heap, array))
  \/ \E f \in Functions : Call("Walk", <<>>, Walk(heap, array, f))

Growing(g) ==
  \/ \E i \in Indexes, v \in Values :
       Call("InsertBefore", <<i, v>>, InsertBefore(heap, array, i, v))
  \/ \E i \in Indexes, v \in Values :
       Call("InsertAfter", <<i, v>>, InsertAfter(heap, array, i, v))
  \/ \E p \in Passed : Pass("PushLeft", p, PushLeft(p.heap, array, p.slice))
  \/ \E i \in Indexes, n \in Sizes, v \in Values :
       Call("Fill", <<i, n, v>>, Fill(heap, array, i, n, v))
  \/ \E n \in Sizes, v \in Values : Call("Pad", <<n, v>>, Pad(heap, array, n, v))

Shrinking(g) ==
  \/ \E i \in Indexes : Call("Remove", <<i>>, Remove(heap, array, i))
  \/ Call("PopLeft", <<>>, PopLeft(heap, array))
  \/ Call("PopRight", <<>>, PopRight(heap, array))
  \/ \E r \in PopRand(heap, array) : Call("PopRand", <<>>, r)
  \/ \E n \in Sizes : \E r \in PopRands(heap, array, n) : Call("PopRands", <<n>>, r)
  \/ \E n \in Sizes : Call("PopLefts", <<n>>, PopLefts(heap, array, n))
  \/ \E n \in Sizes : Call("PopRights", <<n>>, PopRights(heap, array, n))
  \/ Call("Clear", <<>>, Clear(heap, array))
  \/ Call("Unique", <<>>, Unique(heap, array))
  \/ Call("FilterEmpty", <<>>, FilterEmpty(heap, array))

\* Mutant: RemoveValue does not look whether Search has found the value.
FindValueUnchecked(g, v) ==
  /\ calls' = calls + 1
  /\ pending' = [pending EXCEPT ![g] = <<v, Search(heap, array, v).vals[1]>>]
  /\ UNCHANGED <<heap, array, op, args, reply, known, copies>>

\* RemoveValue: Search, under the read lock.
FindValue(g, v) ==
  LET i == Search(heap, array, v).vals[1]
  IN  /\ calls' = calls + 1
      /\ \/ /\ i = -1
            /\ Takes("RemoveValue", <<v>>, Failed(heap, array))
            /\ UNCHANGED pending
         \/ /\ i # -1
            /\ pending' = [pending EXCEPT ![g] = <<v, i>>]
            /\ UNCHANGED <<heap, array, op, args, reply, known, copies>>

\* RemoveValue: Remove of the index found, and its answer.
RemoveFound(g) ==
  /\ pending[g] # NotSearching
  /\ LET r == Remove(heap, array, pending[g][2])
     IN  Takes("RemoveValue", <<pending[g][1]>>, [r EXCEPT !.vals = <<>>])
  /\ pending' = [pending EXCEPT ![g] = NotSearching]
  /\ UNCHANGED calls

-----------------------------------------------------------------------------
Init ==
  /\ \E vs \in Initial, n \in Spares :
       LET a == NewStrArrayFrom(<<>>, vs, n)
       IN  heap = a.heap /\ array = a.slice /\ known = {a.slice}
  /\ op = "none" /\ args = <<>>
  /\ reply = [ok |-> FALSE, vals |-> <<>>, lists |-> <<>>, panic |-> FALSE]
  /\ pending = [g \in Goroutines |-> NotSearching]
  /\ copies = {}
  /\ calls = 0

Bounded == calls < MaxCalls /\ array.len <= MaxLength

MayCall(g) == Bounded /\ pending[g] = NotSearching

Edit(g) ==
  \/ Changing(g) \/ Growing(g) \/ Shrinking(g)
  \/ \E v \in Values : FindValue(g, v)

\* All calls have been made and have returned.
Finished ==
  /\ ~Bounded
  /\ \A g \in Goroutines : pending[g] = NotSearching
  /\ UNCHANGED vars

Next ==
  \/ \E g \in Goroutines :
       \/ MayCall(g) /\ (Reading(g) \/ Appending(g))
       \/ MayCall(g) /\ g = Editor /\ Edit(g)
       \/ RemoveFound(g)
  \/ Finished

Spec == Init /\ [][Next]_vars

-----------------------------------------------------------------------------
TypeOK ==
  /\ \A b \in DOMAIN heap : heap[b] \in Seq(Values)
  /\ IsSlice(heap, array)
  /\ \A s \in known : IsSlice(heap, s)
  /\ \A c \in copies : c.slice \in known
  /\ pending \in [Goroutines -> {NotSearching} \cup (Values \X Nat)]
  /\ calls \in 0 .. MaxCalls

(* CopiesStay: a slice that a method returned as a copy ("in concurrent-   *)
(* safe usage, it returns a copy", Range, SubSlice, Slice) keeps its       *)
(* contents, whatever is called and whatever other slices are passed in,   *)
(* until its caller passes it back: SetArray keeps the very slice, and     *)
(* PushLeft may.  AddChannel and RemoveChannel publish such a copy as      *)
(* Client.channel, and the next RemoveChannel makes its array of it.       *)
CopiesStay == \A c \in copies : Items(heap, c.slice) = c.held

(* FoundStays: between the two critical sections of a RemoveValue others   *)
(* append and read, but what Search has found, the first item that equals  *)
(* the value, stays at its index until Remove takes it.                    *)
StillThere(v, i) ==
  /\ i \in 0 .. array.len - 1
  /\ Items(heap, array)[i + 1] = v
  /\ \A k \in 1 .. i : Items(heap, array)[k] # v

FoundStays ==
  \A g \in Goroutines : pending[g] # NotSearching =>
    g = Editor /\ StillThere(pending[g][1], pending[g][2])

(* ImplementsSequence: although items are shifted, appended in place or    *)
(* moved to other blocks, callers pass in what they were handed, and       *)
(* RemoveValue takes the lock twice, every call has the effect and the     *)
(* answer on a plain sequence that its comment says.  Four cases are left  *)
(* open, in which the code does something else: Range and SubSlice with a  *)
(* negative end or length, PopRand of an empty array, and Unique of a      *)
(* value that occurs three times.                                          *)
OpenCases == {"Range", "SubSlice", "PopRand", "Unique"}

Promise == INSTANCE StrSequence WITH items <- Items(heap, array), Open <- OpenCases

ImplementsSequence == Promise!Spec
=============================================================================
