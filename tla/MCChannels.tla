----------------------------- MODULE MCChannels -----------------------------
(* Instances of Channels for TLC. *)
EXTENDS Channels, TLC

CONSTANTS chA, chB, chX

\* From no list to one whose removals shift two items; chX may occur twice.
MCConfigs == {<<>>, <<chA>>, <<chA, chB>>, <<chX, chB, chA, chX>>}

MCBatches == {<<chA>>, <<chX, chB>>}

Symmetry == Permutations(Users)
=============================================================================
