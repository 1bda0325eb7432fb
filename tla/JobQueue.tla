------------------------------ MODULE JobQueue ------------------------------
(***************************************************************************)
(* What a goroutine pool promises to the code that hands callbacks to it,  *)
(* independently of how it forks workers: jobs are taken up in the order   *)
(* in which they were submitted, each exactly once, and a limited pool     *)
(* never runs more of them at the same time than its limit.                *)
(*                                                                         *)
(* GrPool implements this specification.  Whether every submitted job is   *)
(* eventually taken up is deliberately not part of it: GrPool guarantees   *)
(* that only without a limit.                                              *)
(***************************************************************************)
EXTENDS Integers, Sequences, FiniteSets

CONSTANT Jobs   \* the jobs (callbacks) that can be submitted

VARIABLES
  limit,      \* the most jobs running at once, -1 when unlimited
  submitted,  \* every job submitted so far, in order
  started,    \* every job a worker has taken up so far, in order
  running     \* the jobs being executed

vars == <<limit, submitted, started, running>>

Init ==
  /\ limit = -1 \/ limit \in Nat \ {0}
  /\ submitted = <<>>
  /\ started = <<>>
  /\ running = {}

Submit(j) ==
  /\ \A i \in DOMAIN submitted : submitted[i] # j
  /\ submitted' = Append(submitted, j)
  /\ UNCHANGED <<limit, started, running>>

\* The next job is the first one that has not been taken up.
Start ==
  /\ Len(started) < Len(submitted)
  /\ limit = -1 \/ Cardinality(running) < limit
  /\ LET j == submitted[Len(started) + 1]
     IN  /\ started' = Append(started, j)
         /\ running' = running \cup {j}
  /\ UNCHANGED <<limit, submitted>>

Finish(j) ==
  /\ j \in running
  /\ running' = running \ {j}
  /\ UNCHANGED <<limit, submitted, started>>

Next ==
  \/ \E j \in Jobs : Submit(j) \/ Finish(j)
  \/ Start

Spec == Init /\ [][Next]_vars
=============================================================================
