------------------------------ MODULE GoSlices ------------------------------
(***************************************************************************)
(* Go's slices of strings.  A heap is a sequence of blocks, the arrays     *)
(* that slices point into.  A slice is a window: the block, where it       *)
(* starts in it, and how long it is; its capacity ends with the block.     *)
(* Two slices may see the same elements.                                   *)
(***************************************************************************)
EXTENDS Integers, Sequences

CONSTANT Empty   \* the empty string, what make fills a block with

\* A slice of no block: nil, and what make returns for a capacity of 0.
NilSlice == [block |-> 0, off |-> 0, len |-> 0]

\* cap(s)
Capacity(heap, s) == IF s.block = 0 THEN 0 ELSE Len(heap[s.block]) - s.off

\* s[i], which Go counts from 0
At(heap, s, i) == heap[s.block][s.off + i + 1]

\* What s holds.
Items(heap, s) == [k \in 1 .. s.len |-> heap[s.block][s.off + k]]

\* s[i:j], which may reach into the capacity
Cut(s, i, j) == [s EXCEPT !.off = @ + i, !.len = j - i]

\* The heap once vals is written over s[i], s[i+1], ...
Written(heap, s, i, vals) ==
  IF vals = <<>> THEN heap
  ELSE [heap EXCEPT ![s.block] =
          [k \in DOMAIN @ |-> IF k - s.off - i \in DOMAIN vals
                              THEN vals[k - s.off - i] ELSE @[k]]]

\* A new block with this capacity, and a slice of it that holds vals.
Fresh(heap, vals, capacity) ==
  IF capacity = 0 THEN [heap |-> heap, slice |-> NilSlice]
  ELSE [heap  |-> Append(heap, [k \in 1 .. capacity |->
                    IF k \in DOMAIN vals THEN vals[k] ELSE Empty]),
        slice |-> [block |-> Len(heap) + 1, off |-> 0, len |-> Len(vals)]]

\* append(s, vals...): in place while the capacity lasts, or in a new block of
\* twice the capacity, or of what is needed if that is more.
Appended(heap, s, vals) ==
  LET need  == s.len + Len(vals)
      twice == 2 * Capacity(heap, s)
  IN  IF need <= Capacity(heap, s)
      THEN [heap  |-> Written(heap, s, s.len, vals),
            slice |-> Cut(s, 0, need)]
      ELSE Fresh(heap, Items(heap, s) \o vals, IF need > twice THEN need ELSE twice)

\* Any slice of a heap.
IsSlice(heap, s) ==
  \/ s = NilSlice
  \/ /\ s.block \in DOMAIN heap
     /\ s.off \in Nat /\ s.len \in Nat
     /\ s.off + s.len <= Len(heap[s.block])
=============================================================================
