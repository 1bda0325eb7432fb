---------------------------- MODULE GrPoolProofs ----------------------------
(***************************************************************************)
(* Proofs about GrPool for any number of adders, workers and calls and any *)
(* limit.                                                                  *)
(*                                                                         *)
(* CountIsLive is inductive together with the types.  WorkersWithinLimit   *)
(* is not: that the successful Cas of an adder respects the limit depends  *)
(* on the value the adder compared earlier, which is what SeenWithinLimit  *)
(* remembers.                                                              *)
(*                                                                         *)
(* That without a limit there are enough goroutines for the jobs, and that *)
(* GrPool implements JobQueue, come last.  That a pushed job is a new one, *)
(* and that a job is run by one worker only, rest on the numbers that      *)
(* adders give to their jobs and on the order in which the list is         *)
(* emptied.                                                                *)
(***************************************************************************)
EXTENDS GrPool, FiniteSetTheorems, SequenceLemmas

\* An adder about to Cas has seen a count below the limit.
SeenWithinLimit ==
  \A a \in Adders : apc[a] = "cas" => limit = -1 \/ seen[a] < limit

\* The job an adder is about to push has a number.
CallNumbered == \A a \in Adders : apc[a] = "push" => calls[a] > 0

IInv ==
  /\ TypeOK
  /\ CountIsLive
  /\ WorkersWithinLimit
  /\ SeenWithinLimit
  /\ CallNumbered

-----------------------------------------------------------------------------
\* The live workers are finitely many.
LEMMA LiveFinite == IsFiniteSet(Live) /\ Cardinality(Live) \in Nat
BY WorkersAssumption, FS_Subset, FS_CardinalityType DEF Live

\* Forking a worker makes one more goroutine live.
LEMMA ForkAddsOne ==
  ASSUME TypeOK, NEW w \in Workers \ Live,
         wpc' = [wpc EXCEPT ![w] = "check"]
  PROVE  Cardinality(Live)' = Cardinality(Live) + 1
<1>1. Live' = Live \cup {w}
  BY DEF TypeOK, Live
<1> QED
  BY <1>1, LiveFinite, FS_AddElement

\* A goroutine that returns is no longer live.
LEMMA ExitRemovesOne ==
  ASSUME TypeOK, NEW w \in Live,
         wpc' = [wpc EXCEPT ![w] = "none"]
  PROVE  Cardinality(Live)' = Cardinality(Live) - 1
<1>1. Live' = Live \ {w}
  BY DEF TypeOK, Live
<1> QED
  BY <1>1, LiveFinite, FS_RemoveElement

\* A live worker makes the number of live workers positive.
LEMMA LivePositive ==
  ASSUME NEW w \in Live
  PROVE  Cardinality(Live) > 0
BY LiveFinite, FS_EmptySet

\* A step of a worker that stays alive leaves the set of live workers alone.
LEMMA StayLive ==
  ASSUME TypeOK, NEW w \in Live, NEW l, l # "none",
         wpc' = [wpc EXCEPT ![w] = l]
  PROVE  Live' = Live
BY DEF TypeOK, Live

-----------------------------------------------------------------------------
LEMMA InitIInv == Init => IInv
<1> SUFFICES ASSUME Init PROVE IInv
  OBVIOUS
<1>1. TypeOK
  <2>1. <<>> \in Seq(Jobs) /\ 0 \in 0 .. MaxAdds
    BY EmptySeq, MaxAddsAssumption
  <2>2. /\ apc \in [Adders -> {"idle", "push", "read", "cas"}]
        /\ seen \in [Adders -> Int]
        /\ calls \in [Adders -> 0 .. MaxAdds]
    BY <2>1 DEF Init
  <2>3. /\ wpc \in [Workers -> {"none", "check", "pop", "run", "exit"}]
        /\ job \in [Workers -> Jobs \cup {NoJob}]
    BY DEF Init
  <2>4. list \in Seq(Jobs) /\ added \in Seq(Jobs) /\ started \in Seq(Jobs)
    BY <2>1 DEF Init
  <2>5. limit = -1 \/ limit \in Nat \ {0}
    BY LimitAssumption DEF Init
  <2> QED
    BY <2>2, <2>3, <2>4, <2>5 DEF Init, TypeOK
<1>2. Live = {}
  BY DEF Init, Live
<1>3. CountIsLive /\ WorkersWithinLimit
  BY <1>1, <1>2, FS_EmptySet DEF Init, TypeOK, CountIsLive, WorkersWithinLimit
<1> QED
  BY <1>1, <1>3 DEF IInv, Init, SeenWithinLimit, CallNumbered

LEMMA NextIInv == IInv /\ [Next]_vars => IInv'
<1> SUFFICES ASSUME IInv, [Next]_vars PROVE IInv'
  OBVIOUS
<1> USE DEF IInv
<1>1. ASSUME NEW a \in Adders, AddCheck(a) PROVE IInv'
  <2>1. TypeOK'
    BY <1>1, MaxAddsAssumption DEF AddCheck, TypeOK
  <2>2. SeenWithinLimit' /\ CallNumbered'
    BY <1>1, MaxAddsAssumption DEF AddCheck, SeenWithinLimit, CallNumbered, TypeOK
  <2> QED
    BY <1>1, <2>1, <2>2 DEF AddCheck, CountIsLive, WorkersWithinLimit, Live
<1>2. ASSUME NEW a \in Adders, AddPush(a) PROVE IInv'
  <2>1. <<a, calls[a]>> \in Jobs
    BY <1>2, MaxAddsAssumption DEF AddPush, TypeOK, CallNumbered, Jobs
  <2>2. TypeOK'
    BY <1>2, <2>1 DEF AddPush, TypeOK
  <2>3. SeenWithinLimit' /\ CallNumbered'
    BY <1>2 DEF AddPush, SeenWithinLimit, CallNumbered, TypeOK
  <2> QED
    BY <1>2, <2>2, <2>3 DEF AddPush, CountIsLive, WorkersWithinLimit, Live
<1>3. ASSUME NEW a \in Adders, AddRead(a) PROVE IInv'
  <2>1. TypeOK'
    BY <1>3 DEF AddRead, TypeOK
  <2>2. SeenWithinLimit' /\ CallNumbered'
    BY <1>3 DEF AddRead, SeenWithinLimit, CallNumbered, TypeOK
  <2> QED
    BY <1>3, <2>1, <2>2 DEF AddRead, CountIsLive, WorkersWithinLimit, Live
<1>4. ASSUME NEW a \in Adders, AddCas(a) PROVE IInv'
  <2>1. SeenWithinLimit' /\ CallNumbered'
    BY <1>4 DEF AddCas, SeenWithinLimit, CallNumbered, TypeOK
  <2>2. CASE count # seen[a]
    <3>1. TypeOK'
      BY <1>4, <2>2 DEF AddCas, TypeOK
    <3> QED
      BY <1>4, <2>1, <2>2, <3>1 DEF AddCas, CountIsLive, WorkersWithinLimit, Live
  <2>3. CASE count = seen[a]
    <3>1. PICK w \in Workers \ Live : wpc' = [wpc EXCEPT ![w] = "check"]
      BY <1>4, <2>3 DEF AddCas
    <3>2. Cardinality(Live)' = Cardinality(Live) + 1
      BY <3>1, ForkAddsOne
    <3>3. /\ count' = count + 1
          /\ apc' = [apc EXCEPT ![a] = "idle"]
          /\ UNCHANGED <<limit, closed, list, seen, calls, job, added, started>>
      BY <1>4, <2>3 DEF AddCas
    <3>4. TypeOK'
      BY <3>1, <3>3 DEF TypeOK
    <3>5. CountIsLive'
      BY <3>2, <3>3 DEF CountIsLive
    <3>6. WorkersWithinLimit'
      <4>1. limit = -1 \/ seen[a] < limit
        BY <1>4 DEF AddCas, SeenWithinLimit
      <4>2. limit = -1 \/ Cardinality(Live) < limit
        BY <2>3, <4>1 DEF CountIsLive
      <4> QED
        BY <3>2, <3>3, <4>2, LiveFinite DEF WorkersWithinLimit, TypeOK
    <3> QED
      BY <2>1, <3>4, <3>5, <3>6
  <2> QED
    BY <2>2, <2>3
<1>5. ASSUME NEW w \in Workers, WorkerCheck(w) PROVE IInv'
  <2>1. TypeOK'
    BY <1>5 DEF WorkerCheck, TypeOK
  <2>2. Live' = Live
    BY <1>5, StayLive DEF WorkerCheck, Live
  <2> QED
    BY <1>5, <2>1, <2>2
       DEF WorkerCheck, CountIsLive, WorkersWithinLimit, SeenWithinLimit, CallNumbered
<1>6. ASSUME NEW w \in Workers, WorkerPop(w) PROVE IInv'
  <2>1. TypeOK'
    <3>1. CASE list = <<>>
      BY <1>6, <3>1 DEF WorkerPop, TypeOK
    <3>2. CASE list # <<>>
      <4>1. Head(list) \in Jobs /\ Tail(list) \in Seq(Jobs)
        BY <3>2, HeadTailProperties DEF TypeOK
      <4>2. Append(started, Head(list)) \in Seq(Jobs)
        BY <4>1, AppendProperties DEF TypeOK
      <4> QED
        BY <1>6, <3>2, <4>1, <4>2 DEF WorkerPop, TypeOK
    <3> QED
      BY <3>1, <3>2
  <2>2. Live' = Live
    BY <1>6, StayLive DEF WorkerPop, Live
  <2> QED
    BY <1>6, <2>1, <2>2
       DEF WorkerPop, CountIsLive, WorkersWithinLimit, SeenWithinLimit, CallNumbered
<1>7. ASSUME NEW w \in Workers, WorkerRun(w) PROVE IInv'
  <2>1. TypeOK'
    BY <1>7 DEF WorkerRun, TypeOK
  <2>2. Live' = Live
    BY <1>7, StayLive DEF WorkerRun, Live
  <2> QED
    BY <1>7, <2>1, <2>2
       DEF WorkerRun, CountIsLive, WorkersWithinLimit, SeenWithinLimit, CallNumbered
<1>8. ASSUME NEW w \in Workers, WorkerExit(w) PROVE IInv'
  <2>1. w \in Live
    BY <1>8 DEF WorkerExit, Live
  <2>2. Cardinality(Live)' = Cardinality(Live) - 1
    BY <1>8, <2>1, ExitRemovesOne DEF WorkerExit
  <2>3. Cardinality(Live) > 0
    BY <2>1, LivePositive
  <2>4. count' = count - 1 /\ count > 0
    BY <1>8, <2>3 DEF WorkerExit, CountIsLive
  <2>5. TypeOK'
    BY <1>8, <2>4 DEF WorkerExit, TypeOK
  <2>6. CountIsLive' /\ WorkersWithinLimit'
    BY <1>8, <2>2, <2>4, LiveFinite DEF WorkerExit, CountIsLive, WorkersWithinLimit, TypeOK
  <2> QED
    BY <1>8, <2>5, <2>6 DEF WorkerExit, SeenWithinLimit, CallNumbered
<1>9. ASSUME Close PROVE IInv'
  <2>1. TypeOK'
    BY <1>9 DEF Close, TypeOK
  <2> QED
    BY <1>9, <2>1
       DEF Close, CountIsLive, WorkersWithinLimit, SeenWithinLimit, CallNumbered, Live
<1>10. ASSUME UNCHANGED vars PROVE IInv'
  BY <1>10
     DEF vars, TypeOK, CountIsLive, WorkersWithinLimit, SeenWithinLimit, CallNumbered, Live
<1> QED
  BY <1>1, <1>2, <1>3, <1>4, <1>5, <1>6, <1>7, <1>8, <1>9, <1>10
     DEF Next, Add, Worker, Finished

\* The invariant holds in every reachable state.
LEMMA SpecIInv == Spec => []IInv
BY InitIInv, NextIInv, PTL DEF Spec

-----------------------------------------------------------------------------
\* The types of grpool.Pool's state, the counter included: the deferred
\* decrements of fork never take it below zero.
THEOREM TypeCorrect == Spec => []TypeOK
BY SpecIInv, PTL DEF IInv

\* The counter Size() reports is exactly the number of live worker goroutines.
THEOREM CountCorrect == Spec => []CountIsLive
BY SpecIInv, PTL DEF IInv

\* A limited pool never has more than limit worker goroutines, for every
\* number of goroutines that race in Add.
THEOREM LimitCorrect == Spec => []WorkersWithinLimit
BY SpecIInv, PTL DEF IInv

-----------------------------------------------------------------------------
\* Jobs leave the list in the order in which they were pushed.
THEOREM OrderCorrect == Spec => []StartedInOrder
<1>1. Init => StartedInOrder
  BY DEF Init, StartedInOrder
<1>2. IInv /\ StartedInOrder /\ [Next]_vars => StartedInOrder'
  <2> SUFFICES ASSUME IInv, StartedInOrder, [Next]_vars PROVE StartedInOrder'
    OBVIOUS
  <2>1. ASSUME NEW a \in Adders, AddPush(a) PROVE StartedInOrder'
    <3>1. <<a, calls[a]>> \in Jobs
      BY <2>1, MaxAddsAssumption DEF AddPush, IInv, TypeOK, CallNumbered, Jobs
    <3>2. PICK j \in Jobs : j = <<a, calls[a]>>
      BY <3>1
    <3>3. started \in Seq(Jobs) /\ list \in Seq(Jobs)
      BY DEF IInv, TypeOK
    <3>4. started \o Append(list, j) = Append(started \o list, j)
      BY <3>3, PushLast
    <3> QED
      BY <2>1, <3>2, <3>4 DEF AddPush, StartedInOrder
  <2>2. ASSUME NEW w \in Workers, WorkerPop(w) PROVE StartedInOrder'
    <3>1. CASE list = <<>>
      BY <2>2, <3>1 DEF WorkerPop, StartedInOrder
    <3>2. CASE list # <<>>
      <4>1. started \in Seq(Jobs) /\ list \in Seq(Jobs)
        BY DEF IInv, TypeOK
      <4>2. Append(started, Head(list)) \o Tail(list) = started \o list
        BY <3>2, <4>1, MoveHead
      <4> QED
        BY <2>2, <3>2, <4>2 DEF WorkerPop, StartedInOrder
    <3> QED
      BY <3>1, <3>2
  <2> QED
    BY <2>1, <2>2
       DEF Next, Add, Worker, AddCheck, AddRead, AddCas, WorkerCheck, WorkerRun,
           WorkerExit, Close, Finished, vars, StartedInOrder
<1> QED
  BY <1>1, <1>2, SpecIInv, PTL DEF Spec

-----------------------------------------------------------------------------
(* Enough workers.                                                         *)

\* The adders that have pushed and have not gone home.
Forking == {a \in Adders : apc[a] \in {"read", "cas"}}

\* The workers that will look at the list again.
Serving == {w \in Workers : wpc[w] \in {"check", "pop", "run"}}

\* Finitely many adders wait to fork.
LEMMA ForkingFinite == IsFiniteSet(Forking) /\ Cardinality(Forking) \in Nat
BY AddersAssumption, FS_Subset, FS_CardinalityType DEF Forking

\* Finitely many workers serve.
LEMMA ServingFinite == IsFiniteSet(Serving) /\ Cardinality(Serving) \in Nat
BY WorkersAssumption, FS_Subset, FS_CardinalityType DEF Serving

\* Any step that does not change the list, nor an adder's or worker's standing.
LEMMA SameStanding ==
  ASSUME EnoughWorkers, closed => closed', UNCHANGED <<limit, list>>,
         Forking' = Forking, Serving' = Serving
  PROVE  EnoughWorkers'
BY DEF EnoughWorkers, Forking, Serving

\* Every job pushed into an unlimited pool has a goroutine that is on its way to
\* the list, at every moment: an adder that will fork, or a worker that has not
\* found the list empty (Pool.Add, Pool.fork).
THEOREM EnoughCorrect == Spec => []EnoughWorkers
<1>1. Init => EnoughWorkers
  BY ForkingFinite, ServingFinite DEF Init, EnoughWorkers, Forking, Serving
<1>2. IInv /\ EnoughWorkers /\ [Next]_vars => EnoughWorkers'
  <2> SUFFICES ASSUME IInv, EnoughWorkers, [Next]_vars, limit' = -1, ~closed'
               PROVE  EnoughWorkers'
    BY DEF EnoughWorkers
  <2>0. TypeOK /\ Len(list) \in Nat
    BY LenProperties DEF IInv, TypeOK
  <2>1. ~closed => Len(list) <= Cardinality(Forking) + Cardinality(Serving)
    <3>1. limit' = limit
      BY DEF Next, Add, AddCheck, AddPush, AddRead, AddCas, Worker, WorkerCheck,
             WorkerPop, WorkerRun, WorkerExit, Close, Finished, vars
    <3> QED
      BY <3>1 DEF EnoughWorkers, Forking, Serving
  <2>2. SUFFICES ASSUME ~closed
                 PROVE  Len(list)' <= Cardinality(Forking)' + Cardinality(Serving)'
    <3>1. ~closed
      BY DEF Next, Add, AddCheck, AddPush, AddRead, AddCas, Worker, WorkerCheck,
             WorkerPop, WorkerRun, WorkerExit, Close, Finished, vars
    <3> QED
      BY <2>2, <3>1 DEF EnoughWorkers, Forking, Serving
  <2>3. ASSUME NEW a \in Adders, AddCheck(a) PROVE EnoughWorkers'
    <3>1. Forking' = Forking /\ Serving' = Serving
      BY <2>0, <2>3 DEF AddCheck, Forking, Serving, TypeOK
    <3> QED
      BY <2>3, <3>1, SameStanding DEF AddCheck
  <2>4. ASSUME NEW a \in Adders, AddPush(a)
        PROVE  Len(list)' <= Cardinality(Forking)' + Cardinality(Serving)'
    <3>1. a \notin Forking /\ Forking' = Forking \cup {a} /\ Serving' = Serving
      BY <2>0, <2>4 DEF AddPush, Forking, Serving, TypeOK
    <3>2. Cardinality(Forking)' = Cardinality(Forking) + 1
      BY <3>1, ForkingFinite, FS_AddElement
    <3>3. <<a, calls[a]>> \in Jobs
      BY <2>4, MaxAddsAssumption DEF AddPush, IInv, TypeOK, CallNumbered, Jobs
    <3>4. Len(list') = Len(list) + 1
      BY <2>0, <2>4, <3>3, AppendProperties DEF AddPush, TypeOK
    <3> QED
      BY <2>0, <2>1, <2>2, <3>1, <3>2, <3>4, ForkingFinite, ServingFinite
  <2>5. ASSUME NEW a \in Adders, AddRead(a) PROVE EnoughWorkers'
    <3>1. Forking' = Forking /\ Serving' = Serving
      BY <2>0, <2>5 DEF AddRead, Forking, Serving, TypeOK
    <3> QED
      BY <2>5, <3>1, SameStanding DEF AddRead
  <2>6. ASSUME NEW a \in Adders, AddCas(a)
        PROVE  Len(list)' <= Cardinality(Forking)' + Cardinality(Serving)'
    <3>1. CASE count # seen[a]
      <4>1. Forking' = Forking /\ Serving' = Serving /\ list' = list
        BY <2>0, <2>6, <3>1 DEF AddCas, Forking, Serving, TypeOK
      <4> QED
        BY <2>1, <2>2, <4>1
    <3>2. CASE count = seen[a]
      <4>1. PICK w \in Workers \ Live : wpc' = [wpc EXCEPT ![w] = "check"]
        BY <2>6, <3>2 DEF AddCas
      <4>2. w \notin Serving /\ Serving' = Serving \cup {w}
        BY <2>0, <4>1 DEF Serving, Live, TypeOK
      <4>3. a \in Forking /\ Forking' = Forking \ {a} /\ list' = list
        BY <2>0, <2>6, <3>2 DEF AddCas, Forking, TypeOK
      <4>4. /\ Cardinality(Serving)' = Cardinality(Serving) + 1
            /\ Cardinality(Forking)' = Cardinality(Forking) - 1
        BY <4>2, <4>3, ForkingFinite, ServingFinite, FS_AddElement, FS_RemoveElement
      <4> QED
        BY <2>0, <2>1, <2>2, <4>3, <4>4, ForkingFinite, ServingFinite
    <3> QED
      BY <3>1, <3>2
  <2>7. ASSUME NEW w \in Workers, WorkerCheck(w) PROVE EnoughWorkers'
    <3>1. Forking' = Forking /\ Serving' = Serving
      BY <2>0, <2>2, <2>7 DEF WorkerCheck, Forking, Serving, TypeOK
    <3> QED
      BY <2>7, <3>1, SameStanding DEF WorkerCheck
  <2>8. ASSUME NEW w \in Workers, WorkerPop(w)
        PROVE  Len(list)' <= Cardinality(Forking)' + Cardinality(Serving)'
    <3>1. CASE list = <<>>
      <4>1. Len(list') = 0
        BY <2>8, <3>1, EmptySeq DEF WorkerPop
      <4>2. Cardinality(Forking)' \in Nat /\ Cardinality(Serving)' \in Nat
        <5>1. IsFiniteSet(Forking') /\ IsFiniteSet(Serving')
          BY AddersAssumption, WorkersAssumption, FS_Subset DEF Forking, Serving
        <5> QED
          BY <5>1, FS_CardinalityType
      <4> QED
        BY <4>1, <4>2
    <3>2. CASE list # <<>>
      <4>1. Len(list') = Len(list) - 1
        BY <2>0, <2>8, <3>2, HeadTailProperties DEF WorkerPop, TypeOK
      <4>2. Forking' = Forking /\ Serving' = Serving
        BY <2>0, <2>8, <3>2 DEF WorkerPop, Forking, Serving, TypeOK
      <4> QED
        BY <2>0, <2>1, <2>2, <4>1, <4>2, ForkingFinite, ServingFinite
    <3> QED
      BY <3>1, <3>2
  <2>9. ASSUME NEW w \in Workers, WorkerRun(w) PROVE EnoughWorkers'
    <3>1. Forking' = Forking /\ Serving' = Serving
      BY <2>0, <2>9 DEF WorkerRun, Forking, Serving, TypeOK
    <3> QED
      BY <2>9, <3>1, SameStanding DEF WorkerRun
  <2>10. ASSUME NEW w \in Workers, WorkerExit(w) PROVE EnoughWorkers'
    <3>1. Forking' = Forking /\ Serving' = Serving
      BY <2>0, <2>10 DEF WorkerExit, Forking, Serving, TypeOK
    <3> QED
      BY <2>10, <3>1, SameStanding DEF WorkerExit
  <2>11. CASE UNCHANGED vars
    BY <2>1, <2>2, <2>11 DEF vars, Forking, Serving
  <2>12. EnoughWorkers' => Len(list)' <= Cardinality(Forking)' + Cardinality(Serving)'
    BY DEF EnoughWorkers, Forking, Serving
  <2> QED
    BY <2>3, <2>4, <2>5, <2>6, <2>7, <2>8, <2>9, <2>10, <2>11, <2>12
       DEF Next, Add, Worker, Close, Finished
<1> QED
  BY <1>1, <1>2, SpecIInv, PTL DEF Spec

-----------------------------------------------------------------------------
(* The refinement.                                                         *)

Running(w) == wpc[w] = "run"

\* No job is pushed twice: an adder's jobs carry the numbers of its calls.
JobsNumbered ==
  \A i \in DOMAIN added :
    /\ added[i][2] <= calls[added[i][1]]
    /\ apc[added[i][1]] = "push" => added[i][2] < calls[added[i][1]]

JobsDistinct == \A i, j \in DOMAIN added : added[i] = added[j] => i = j

\* A job that runs has been taken up, and by one worker only.
RunningStarted ==
  \A w \in Workers : Running(w) => \E i \in DOMAIN started : started[i] = job[w]

RunningDistinct ==
  \A v, w \in Workers : Running(v) /\ Running(w) /\ job[v] = job[w] => v = w

QInv ==
  /\ IInv
  /\ StartedInOrder
  /\ JobsNumbered
  /\ JobsDistinct
  /\ RunningStarted
  /\ RunningDistinct

\* What was taken up is the beginning of what was pushed, and the job at the head
\* of the list comes next.
LEMMA ListFollowsStarted ==
  ASSUME IInv, StartedInOrder
  PROVE  /\ Len(added) = Len(started) + Len(list)
         /\ \A i \in DOMAIN started : i \in DOMAIN added /\ started[i] = added[i]
         /\ list # <<>> => /\ Len(started) + 1 \in DOMAIN added
                           /\ added[Len(started) + 1] = Head(list)
<1>1. /\ list \in Seq(Jobs) /\ started \in Seq(Jobs) /\ added \in Seq(Jobs)
      /\ added = started \o list
  BY DEF IInv, TypeOK, StartedInOrder
<1>2. /\ Len(added) = Len(started) + Len(list)
      /\ \A i \in 1 .. Len(started) + Len(list) :
           added[i] = IF i <= Len(started) THEN started[i] ELSE list[i - Len(started)]
  BY <1>1, ConcatProperties
<1>3. /\ DOMAIN started = 1 .. Len(started) /\ DOMAIN added = 1 .. Len(added)
      /\ Len(started) \in Nat /\ Len(list) \in Nat /\ Len(added) \in Nat
  BY <1>1, LenProperties
<1>4. ASSUME list # <<>> PROVE Len(list) > 0 /\ Head(list) = list[1]
  BY <1>1, <1>3, <1>4, EmptySeq
<1> QED
  BY <1>2, <1>3, <1>4

\* A job that an adder is about to push was not pushed before.
LEMMA PushedIsNew ==
  ASSUME QInv, NEW a \in Adders, AddPush(a)
  PROVE  /\ <<a, calls[a]>> \in Jobs
         /\ \A i \in DOMAIN added : added[i] # <<a, calls[a]>>
<1>1. <<a, calls[a]>> \in Jobs
  BY MaxAddsAssumption DEF AddPush, QInv, IInv, TypeOK, CallNumbered, Jobs
<1>2. ASSUME NEW i \in DOMAIN added, added[i] = <<a, calls[a]>> PROVE FALSE
  <2>1. added[i][2] < calls[a]
    BY <1>2 DEF AddPush, QInv, JobsNumbered
  <2> QED
    BY <1>2, <2>1 DEF QInv, IInv, TypeOK
<1> QED
  BY <1>1, <1>2

\* The job at the head of the list is run by nobody.
LEMMA HeadNotRunning ==
  ASSUME QInv, list # <<>>, NEW w \in Workers, Running(w)
  PROVE  job[w] # Head(list)
<1>1. PICK i \in DOMAIN started : started[i] = job[w]
  BY DEF QInv, RunningStarted
<1>2. i \in DOMAIN added /\ added[i] = job[w] /\ i <= Len(started) /\ Len(started) \in Nat
  BY <1>1, ListFollowsStarted, LenProperties DEF QInv, IInv, TypeOK
<1> QED
  BY <1>2, ListFollowsStarted DEF QInv, JobsDistinct

\* A step that changes neither the history nor what the running workers hold
\* changes no job's standing.
LEMMA SameJobs ==
  ASSUME QInv, UNCHANGED <<added, started>>,
         \A a \in Adders : calls'[a] >= calls[a] /\ calls'[a] \in Int,
         \A a \in Adders : apc'[a] = "push" => apc[a] = "push" \/ calls'[a] > calls[a],
         \A w \in Workers : Running(w)' => Running(w) /\ job'[w] = job[w]
  PROVE  JobsNumbered' /\ JobsDistinct' /\ RunningStarted' /\ RunningDistinct'
<1>1. JobsNumbered'
  <2> SUFFICES ASSUME NEW i \in DOMAIN added
               PROVE  /\ added[i][2] <= calls'[added[i][1]]
                      /\ apc'[added[i][1]] = "push" => added[i][2] < calls'[added[i][1]]
    BY DEF JobsNumbered
  <2>1. added[i] \in Jobs
    BY ElementOfSeq, LenProperties DEF QInv, IInv, TypeOK
  <2>2. added[i][1] \in Adders /\ added[i][2] \in Int
    BY <2>1, MaxAddsAssumption DEF Jobs
  <2>3. calls[added[i][1]] \in Int
    BY <2>2, MaxAddsAssumption DEF QInv, IInv, TypeOK
  <2> QED
    BY <2>2, <2>3 DEF QInv, JobsNumbered
<1>2. JobsDistinct' /\ RunningStarted' /\ RunningDistinct'
  BY DEF QInv, JobsDistinct, RunningStarted, RunningDistinct
<1> QED
  BY <1>1, <1>2

LEMMA PushQInv ==
  ASSUME QInv, NEW a \in Adders, AddPush(a)
  PROVE  JobsNumbered' /\ JobsDistinct' /\ RunningStarted' /\ RunningDistinct'
<1>1. PICK j \in Jobs : j = <<a, calls[a]>>
  BY PushedIsNew
<1>2. added \in Seq(Jobs) /\ added' = Append(added, j)
  BY <1>1 DEF QInv, IInv, TypeOK, AddPush
<1>3. /\ Len(added) \in Nat /\ DOMAIN added = 1 .. Len(added)
      /\ DOMAIN added' = 1 .. Len(added) + 1
      /\ \A i \in 1 .. Len(added) : added'[i] = added[i]
      /\ added'[Len(added) + 1] = j
  BY <1>2, AppendProperties, LenProperties
<1>4. \A i \in DOMAIN added : added[i] # j
  BY <1>1, PushedIsNew
<1>5. JobsDistinct'
  BY <1>3, <1>4 DEF QInv, JobsDistinct
<1>6. JobsNumbered'
  <2> SUFFICES ASSUME NEW i \in DOMAIN added'
               PROVE  /\ added'[i][2] <= calls'[added'[i][1]]
                      /\ apc'[added'[i][1]] = "push" => added'[i][2] < calls'[added'[i][1]]
    BY DEF JobsNumbered
  <2>1. UNCHANGED calls /\ apc' = [apc EXCEPT ![a] = "read"] /\ apc \in [Adders -> {"idle", "push", "read", "cas"}]
    BY DEF AddPush, QInv, IInv, TypeOK
  <2>2. CASE i = Len(added) + 1
    <3>1. calls[a] \in Int
      BY MaxAddsAssumption DEF QInv, IInv, TypeOK
    <3> QED
      BY <1>1, <1>3, <2>1, <2>2, <3>1
  <2>3. CASE i \in DOMAIN added
    <3>1. added[i] \in Jobs
      BY <1>2, <1>3, <2>3, ElementOfSeq
    <3>2. added'[i] = added[i] /\ added[i][1] \in Adders
      BY <1>3, <2>3, <3>1 DEF Jobs
    <3> QED
      BY <2>1, <2>3, <3>2 DEF QInv, JobsNumbered
  <2> QED
    BY <1>3, <2>2, <2>3
<1>7. RunningStarted' /\ RunningDistinct'
  BY DEF AddPush, QInv, RunningStarted, RunningDistinct, Running
<1> QED
  BY <1>5, <1>6, <1>7

LEMMA PopQInv ==
  ASSUME QInv, NEW w \in Workers, WorkerPop(w), list # <<>>
  PROVE  JobsNumbered' /\ JobsDistinct' /\ RunningStarted' /\ RunningDistinct'
<1>1. PICK j : j = Head(list)
  OBVIOUS
<1>2. /\ wpc' = [wpc EXCEPT ![w] = "run"] /\ job' = [job EXCEPT ![w] = j]
      /\ started' = Append(started, j) /\ UNCHANGED <<added, calls, apc>>
      /\ ~Running(w)
  BY <1>1 DEF WorkerPop, Running
<1>3. j \in Jobs /\ started \in Seq(Jobs)
  BY <1>1, HeadTailProperties DEF QInv, IInv, TypeOK
<1>4. /\ \A i \in DOMAIN started : i \in DOMAIN started' /\ started'[i] = started[i]
      /\ Len(started) + 1 \in DOMAIN started' /\ started'[Len(started) + 1] = j
  BY <1>2, <1>3, AppendProperties, LenProperties
<1>5. /\ Running(w)' /\ job'[w] = j
      /\ \A v \in Workers \ {w} : Running(v)' = Running(v) /\ job'[v] = job[v]
  BY <1>2 DEF QInv, IInv, TypeOK, Running
<1>6. \A v \in Workers : Running(v) => job[v] # j
  BY <1>1, HeadNotRunning
<1>7. RunningStarted'
  BY <1>4, <1>5 DEF QInv, RunningStarted
<1>8. RunningDistinct'
  BY <1>5, <1>6 DEF QInv, RunningDistinct
<1>9. JobsNumbered' /\ JobsDistinct'
  BY <1>2 DEF QInv, JobsNumbered, JobsDistinct
<1> QED
  BY <1>7, <1>8, <1>9

LEMMA InitQInv == Init => QInv
<1> SUFFICES ASSUME Init PROVE QInv
  OBVIOUS
<1>1. IInv /\ added = <<>> /\ started = <<>> /\ list = <<>>
  BY InitIInv DEF Init
<1>2. DOMAIN added = {}
  BY <1>1
<1>3. \A w \in Workers : ~Running(w)
  BY DEF Init, Running
<1>4. StartedInOrder
  BY <1>1 DEF StartedInOrder
<1> QED
  BY <1>1, <1>2, <1>3, <1>4
     DEF QInv, JobsNumbered, JobsDistinct, RunningStarted, RunningDistinct

\* QInv is inductive once IInv and the order of the jobs are known.
LEMMA NextQInv ==
  QInv /\ IInv' /\ StartedInOrder' /\ [Next]_vars => QInv'
<1> SUFFICES ASSUME QInv, [Next]_vars
             PROVE  JobsNumbered' /\ JobsDistinct' /\ RunningStarted' /\ RunningDistinct'
  BY DEF QInv
<1>0. calls \in [Adders -> Int] /\ apc \in [Adders -> {"idle", "push", "read", "cas"}]
      /\ wpc \in [Workers -> {"none", "check", "pop", "run", "exit"}]
      /\ job \in [Workers -> Jobs \cup {NoJob}]
  BY MaxAddsAssumption DEF QInv, IInv, TypeOK
<1>1. ASSUME NEW a \in Adders, AddPush(a)
      PROVE  JobsNumbered' /\ JobsDistinct' /\ RunningStarted' /\ RunningDistinct'
  BY <1>1, PushQInv
<1>2. ASSUME NEW a \in Adders, AddCheck(a) \/ AddRead(a) \/ AddCas(a)
      PROVE  JobsNumbered' /\ JobsDistinct' /\ RunningStarted' /\ RunningDistinct'
  <2>1. UNCHANGED <<added, started, job>>
    BY <1>2 DEF AddCheck, AddRead, AddCas
  <2>2. \A v \in Workers : Running(v)' => Running(v)
    BY <1>0, <1>2 DEF AddCheck, AddRead, AddCas, Running
  <2>3. /\ \A b \in Adders : calls'[b] >= calls[b] /\ calls'[b] \in Int
        /\ \A b \in Adders : apc'[b] = "push" => apc[b] = "push" \/ calls'[b] > calls[b]
    BY <1>0, <1>2 DEF AddCheck, AddRead, AddCas
  <2> QED
    BY <2>1, <2>2, <2>3, SameJobs
<1>3. ASSUME NEW w \in Workers, WorkerPop(w)
      PROVE  JobsNumbered' /\ JobsDistinct' /\ RunningStarted' /\ RunningDistinct'
  <2>1. CASE list # <<>>
    BY <1>3, <2>1, PopQInv
  <2>2. CASE list = <<>>
    <3>1. /\ UNCHANGED <<added, started, job, calls, apc>>
          /\ \A v \in Workers : Running(v)' => Running(v)
      BY <1>0, <1>3, <2>2 DEF WorkerPop, Running
    <3> QED
      BY <1>0, <3>1, SameJobs
  <2> QED
    BY <2>1, <2>2
<1>4. ASSUME NEW w \in Workers, WorkerCheck(w) \/ WorkerRun(w) \/ WorkerExit(w)
      PROVE  JobsNumbered' /\ JobsDistinct' /\ RunningStarted' /\ RunningDistinct'
  <2>1. /\ UNCHANGED <<added, started, calls, apc>>
        /\ \A v \in Workers : Running(v)' => Running(v) /\ job'[v] = job[v]
    BY <1>0, <1>4 DEF WorkerCheck, WorkerRun, WorkerExit, Running
  <2> QED
    BY <1>0, <2>1, SameJobs
<1>5. ASSUME Close \/ UNCHANGED vars
      PROVE  JobsNumbered' /\ JobsDistinct' /\ RunningStarted' /\ RunningDistinct'
  BY <1>0, <1>5, SameJobs DEF Close, vars, Running
<1> QED
  BY <1>1, <1>2, <1>3, <1>4, <1>5 DEF Next, Add, Worker, Finished

LEMMA SpecQInv == Spec => []QInv
BY InitQInv, NextQInv, SpecIInv, OrderCorrect, PTL DEF Spec

-----------------------------------------------------------------------------
\* The jobs being run, as the job queue sees them.
RunningJobs == {job[w] : w \in {v \in Workers : wpc[v] = "run"}}

\* JobQueue counts its running jobs as GrPool counts its workers.
LEMMA SameCardinality == ASSUME NEW S PROVE Queue!Cardinality(S) = Cardinality(S)
BY DEF Queue!Cardinality, Cardinality

\* A worker about to pop is not running one of the jobs, so that fewer jobs than
\* the limit are running.
LEMMA RoomToStart ==
  ASSUME IInv, NEW w \in Workers, wpc[w] = "pop", limit # -1
  PROVE  Cardinality(RunningJobs) < limit
<1> DEFINE R == {v \in Workers : wpc[v] = "run"}
           f == [v \in R |-> job[v]]
<1>1. /\ IsFiniteSet(R) /\ R \subseteq Live \ {w} /\ w \in Live
  BY WorkersAssumption, FS_Subset DEF Live
<1>2. Cardinality(R) <= Cardinality(Live \ {w})
  BY <1>1, LiveFinite, FS_RemoveElement, FS_Subset
<1>3. Cardinality(Live \ {w}) = Cardinality(Live) - 1
  BY <1>1, LiveFinite, FS_RemoveElement
<1>4. f \in Surjection(R, RunningJobs)
  BY DEF Surjection, RunningJobs
<1>5. IsFiniteSet(RunningJobs) /\ Cardinality(RunningJobs) <= Cardinality(R)
  BY <1>1, <1>4, FS_Surjection
<1>6. /\ Cardinality(RunningJobs) \in Nat /\ Cardinality(R) \in Nat
      /\ Cardinality(Live) \in Nat
  BY <1>1, <1>5, LiveFinite, FS_CardinalityType
<1>7. Cardinality(Live) <= limit
  BY DEF IInv, WorkersWithinLimit
<1> QED
  BY <1>2, <1>3, <1>5, <1>6, <1>7 DEF IInv, TypeOK

\* grpool's Add, fork and workers are a FIFO queue with at most limit jobs
\* running at a time: a push submits a new job, a pop starts the next one, and
\* the return of job() finishes one; all other steps are invisible.
THEOREM QueueImplemented == Spec => ImplementsJobQueue
<1>1. Init => Queue!Init
  BY InitIInv DEF Init, IInv, TypeOK, Queue!Init
<1>2. QInv /\ [Next]_vars => [Queue!Next]_Queue!vars
  <2> SUFFICES ASSUME QInv, [Next]_vars PROVE [Queue!Next]_Queue!vars
    OBVIOUS
  <2> USE DEF Queue!vars
  <2>0. /\ wpc \in [Workers -> {"none", "check", "pop", "run", "exit"}] /\ job \in [Workers -> Jobs \cup {NoJob}]
        /\ IInv /\ TypeOK
    BY DEF QInv, IInv, TypeOK
  <2>1. ASSUME NEW a \in Adders, AddPush(a) PROVE Queue!Next
    <3>1. PICK j \in Jobs : j = <<a, calls[a]>>
      BY <2>1, PushedIsNew
    <3>2. \A i \in DOMAIN added : added[i] # j
      BY <2>1, <3>1, PushedIsNew
    <3>3. Queue!Submit(j)
      BY <2>1, <3>1, <3>2 DEF AddPush, Queue!Submit
    <3> QED
      BY <3>3 DEF Queue!Next
  <2>2. ASSUME NEW a \in Adders, AddCheck(a) \/ AddRead(a) PROVE UNCHANGED Queue!vars
    BY <2>2 DEF AddCheck, AddRead
  <2>3. ASSUME NEW a \in Adders, AddCas(a) PROVE UNCHANGED Queue!vars
    <3>1. {v \in Workers : wpc'[v] = "run"} = {v \in Workers : wpc[v] = "run"}
      BY <2>0, <2>3 DEF AddCas, Live
    <3> QED
      BY <2>3, <3>1 DEF AddCas
  <2>4. ASSUME NEW w \in Workers, WorkerPop(w), list # <<>> PROVE Queue!Next
    <3>1. PICK j : j = Head(list)
      OBVIOUS
    <3>2. /\ Len(started) < Len(added) /\ added[Len(started) + 1] = j
      BY <2>0, <2>4, <3>1, ListFollowsStarted, LenProperties DEF QInv, TypeOK
    <3>3. limit = -1 \/ Cardinality(RunningJobs) < limit
      BY <2>0, <2>4, RoomToStart DEF WorkerPop
    <3>4. /\ wpc' = [wpc EXCEPT ![w] = "run"] /\ job' = [job EXCEPT ![w] = j]
          /\ started' = Append(started, j) /\ UNCHANGED <<limit, added>> /\ wpc[w] = "pop"
      BY <2>4, <3>1 DEF WorkerPop
    <3>5. RunningJobs' = RunningJobs \cup {j}
      BY <2>0, <3>4 DEF RunningJobs
    <3>6. Queue!Start
      BY <3>2, <3>3, <3>4, <3>5, SameCardinality DEF Queue!Start, RunningJobs
    <3> QED
      BY <3>6 DEF Queue!Next
  <2>5. ASSUME NEW w \in Workers, WorkerPop(w), list = <<>> PROVE UNCHANGED Queue!vars
    <3>1. {v \in Workers : wpc'[v] = "run"} = {v \in Workers : wpc[v] = "run"}
      BY <2>0, <2>5 DEF WorkerPop
    <3> QED
      BY <2>5, <3>1 DEF WorkerPop
  <2>6. ASSUME NEW w \in Workers, WorkerRun(w) PROVE Queue!Next
    <3>1. /\ wpc' = [wpc EXCEPT ![w] = "check"] /\ job' = [job EXCEPT ![w] = NoJob]
          /\ UNCHANGED <<limit, added, started>> /\ wpc[w] = "run"
      BY <2>6 DEF WorkerRun
    <3>2. job[w] \in RunningJobs
      BY <3>1 DEF RunningJobs
    <3>3. \A v \in Workers \ {w} : wpc[v] = "run" => job[v] # job[w]
      BY <3>1 DEF QInv, RunningDistinct, Running
    <3>4. RunningJobs' = RunningJobs \ {job[w]}
      BY <2>0, <3>1, <3>3 DEF RunningJobs
    <3>5. job[w] \in Jobs
      <4>1. PICK i \in DOMAIN started : started[i] = job[w]
        BY <3>1 DEF QInv, RunningStarted, Running
      <4> QED
        BY <2>0, <4>1, ElementOfSeq, LenProperties DEF TypeOK
    <3>6. PICK j \in Jobs : j = job[w]
      BY <3>5
    <3>7. Queue!Finish(j)
      BY <3>1, <3>2, <3>4, <3>6 DEF Queue!Finish, RunningJobs
    <3> QED
      BY <3>7 DEF Queue!Next
  <2>7. ASSUME NEW w \in Workers, WorkerCheck(w) \/ WorkerExit(w)
        PROVE  UNCHANGED Queue!vars
    <3>1. {v \in Workers : wpc'[v] = "run"} = {v \in Workers : wpc[v] = "run"}
      BY <2>0, <2>7 DEF WorkerCheck, WorkerExit
    <3> QED
      BY <2>7, <3>1 DEF WorkerCheck, WorkerExit
  <2>8. ASSUME Close \/ UNCHANGED vars PROVE UNCHANGED Queue!vars
    BY <2>8 DEF Close, vars
  <2> QED
    BY <2>1, <2>2, <2>3, <2>4, <2>5, <2>6, <2>7, <2>8 DEF Next, Add, Worker, Finished
<1> QED
  BY <1>1, <1>2, SpecQInv, PTL DEF Spec, ImplementsJobQueue, Queue!Spec
=============================================================================
