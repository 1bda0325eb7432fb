----------------------------- MODULE MCStrArray -----------------------------
(* An instance of StrArray for TLC: two strings, the empty one and another. *)
EXTENDS StrArray

MCIndexes == {-1, 0, 1}
MCSizes == {-2, -1, 0, 2}

MCInitial == {<<1>>, <<0, 1, 1>>, <<1, 1, 1>>}
MCBatches == {<<>>, <<0, 1>>}

\* The negative end and the negative length of FollowsComments.
MCMinusOne == {-1}

\* Walk exchanges the strings or makes all of them empty.
MCFunctions == {[v \in Values |-> 1 - v], [v \in Values |-> 0]}
-----------------------------------------------------------------------------
(* FollowsComments: the same as ImplementsSequence with no case left open: *)
(* every method, the four included, does and answers what its comment in   *)
(* garray_normal_str.go says.                                              *)
Commented == INSTANCE StrSequence WITH items <- Items(heap, array), Open <- {}

FollowsComments == Commented!Spec
=============================================================================
