------------------------------- MODULE GrPool -------------------------------
(***************************************************************************)
(* The goroutine pool of util/grpool: a job list shared by the goroutines  *)
(* that call Add and by the worker goroutines that Add forks, of which     *)
(* there are at most limit, if there is a limit.                           *)
(*                                                                         *)
(* Every access to shared state is a step of its own: the atomics of       *)
(* bool.go and int.go (closed, count) and the list operations, which       *)
(* glist.go executes under its mutex.                                      *)
(***************************************************************************)
EXTENDS Integers, Sequences, FiniteSets

CONSTANTS
  Adders,   \* goroutines that call Add
  Workers,  \* identities for forked goroutines, reused after they exit; as many
            \* as there are jobs are enough
  Limits,   \* what NewPool may be called with
  MaxAdds   \* bound: calls of Add per adder

ASSUME LimitAssumption == Limits \subseteq Int
ASSUME MaxAddsAssumption == MaxAdds \in Nat
ASSUME AddersAssumption == IsFiniteSet(Adders)
ASSUME WorkersAssumption == IsFiniteSet(Workers)

VARIABLES
  limit,    \* Pool.limit: -1 means unlimited
  closed,   \* Pool.closed
  list,     \* Pool.list: PushFront appends here, PopBack takes the head
  count,    \* Pool.count
  apc,      \* control point of each adder inside Add
  seen,     \* Add's local n, the value of count last read
  calls,    \* calls of Add made so far by each adder
  wpc,      \* control point of each worker; "none": no such goroutine
  job,      \* the job a worker holds
  added,    \* history: jobs pushed, in order
  started   \* history: jobs popped, in order

vars ==
  <<limit, closed, list, count, apc, seen, calls, wpc, job, added, started>>

\* The n-th job of adder a.
Jobs == Adders \X (1 .. MaxAdds)

NoJob == <<>>

Live == {w \in Workers : wpc[w] # "none"}

TypeOK ==
  /\ limit = -1 \/ limit \in Nat \ {0}
  /\ closed \in BOOLEAN
  /\ list \in Seq(Jobs)
  /\ count \in Nat
  /\ apc \in [Adders -> {"idle", "push", "read", "cas"}]
  /\ seen \in [Adders -> Int]
  /\ calls \in [Adders -> 0 .. MaxAdds]
  /\ wpc \in [Workers -> {"none", "check", "pop", "run", "exit"}]
  /\ job \in [Workers -> Jobs \cup {NoJob}]
  /\ added \in Seq(Jobs)
  /\ started \in Seq(Jobs)

\* NewPool: without a positive limit there is none.
Init ==
  /\ \E l \in Limits : limit = IF l > 0 THEN l ELSE -1
  /\ closed = FALSE
  /\ list = <<>>
  /\ count = 0
  /\ apc = [a \in Adders |-> "idle"]
  /\ seen = [a \in Adders |-> 0]
  /\ calls = [a \in Adders |-> 0]
  /\ wpc = [w \in Workers |-> "none"]
  /\ job = [w \in Workers |-> NoJob]
  /\ added = <<>>
  /\ started = <<>>

-----------------------------------------------------------------------------
(* Add.  On a closed pool it returns an error and changes nothing.         *)

AddCheck(a) ==
  /\ apc[a] = "idle"
  /\ calls[a] < MaxAdds
  /\ ~closed
  /\ apc' = [apc EXCEPT ![a] = "push"]
  /\ calls' = [calls EXCEPT ![a] = @ + 1]
  /\ UNCHANGED <<limit, closed, list, count, seen, wpc, job, added, started>>

AddPush(a) ==
  /\ apc[a] = "push"
  /\ list' = Append(list, <<a, calls[a]>>)
  /\ added' = Append(added, <<a, calls[a]>>)
  /\ apc' = [apc EXCEPT ![a] = "read"]
  /\ UNCHANGED <<limit, closed, count, seen, calls, wpc, job, started>>

\* Mutant: the limit is compared even when it is -1.
AddReadNoUnlimited(a) ==
  /\ apc[a] = "read"
  /\ seen' = [seen EXCEPT ![a] = count]
  /\ apc' = [apc EXCEPT ![a] = IF count >= limit THEN "idle" ELSE "cas"]
  /\ UNCHANGED <<limit, closed, list, count, calls, wpc, job, added, started>>

\* Mutant: off by one, a pool already at its limit still gets a worker.
AddReadOffByOne(a) ==
  /\ apc[a] = "read"
  /\ seen' = [seen EXCEPT ![a] = count]
  /\ apc' = [apc EXCEPT ![a] = IF limit # -1 /\ count > limit
                               THEN "idle" ELSE "cas"]
  /\ UNCHANGED <<limit, closed, list, count, calls, wpc, job, added, started>>

\* A pool with limit workers is left to the workers it has.
AddRead(a) ==
  /\ apc[a] = "read"
  /\ seen' = [seen EXCEPT ![a] = count]
  /\ apc' = [apc EXCEPT ![a] = IF limit # -1 /\ count >= limit
                               THEN "idle" ELSE "cas"]
  /\ UNCHANGED <<limit, closed, list, count, calls, wpc, job, added, started>>

\* Mutant: a plain store in place of the Cas.
AddStore(a) ==
  /\ apc[a] = "cas"
  /\ count' = seen[a] + 1
  /\ \E w \in Workers \ Live : wpc' = [wpc EXCEPT ![w] = "check"]
  /\ apc' = [apc EXCEPT ![a] = "idle"]
  /\ UNCHANGED <<limit, closed, list, seen, calls, job, added, started>>

\* Mutant: a failed Cas is not retried.
AddCasOnce(a) ==
  /\ apc[a] = "cas"
  /\ apc' = [apc EXCEPT ![a] = "idle"]
  /\ \/ count # seen[a] /\ UNCHANGED <<count, wpc>>
     \/ /\ count = seen[a]
        /\ count' = seen[a] + 1
        /\ \E w \in Workers \ Live : wpc' = [wpc EXCEPT ![w] = "check"]
  /\ UNCHANGED <<limit, closed, list, seen, calls, job, added, started>>

\* A failed Cas goes round the loop; a successful one forks a worker.
AddCas(a) ==
  /\ apc[a] = "cas"
  /\ \/ /\ count # seen[a]
        /\ apc' = [apc EXCEPT ![a] = "read"]
        /\ UNCHANGED <<count, wpc>>
     \/ /\ count = seen[a]
        /\ count' = seen[a] + 1
        /\ \E w \in Workers \ Live : wpc' = [wpc EXCEPT ![w] = "check"]
        /\ apc' = [apc EXCEPT ![a] = "idle"]
  /\ UNCHANGED <<limit, closed, list, seen, calls, job, added, started>>

-----------------------------------------------------------------------------
(* The goroutine started by fork.                                          *)

WorkerCheck(w) ==
  /\ wpc[w] = "check"
  /\ wpc' = [wpc EXCEPT ![w] = IF closed THEN "exit" ELSE "pop"]
  /\ UNCHANGED <<limit, closed, list, count, apc, seen, calls, job, added, started>>

\* Mutant: PopFront in place of PopBack takes the youngest job.
WorkerPopFront(w) ==
  /\ wpc[w] = "pop"
  /\ \/ /\ list = <<>>
        /\ wpc' = [wpc EXCEPT ![w] = "exit"]
        /\ UNCHANGED <<list, job, started>>
     \/ /\ list # <<>>
        /\ wpc' = [wpc EXCEPT ![w] = "run"]
        /\ job' = [job EXCEPT ![w] = list[Len(list)]]
        /\ started' = Append(started, list[Len(list)])
        /\ list' = SubSeq(list, 1, Len(list) - 1)
  /\ UNCHANGED <<limit, closed, count, apc, seen, calls, added>>

WorkerPop(w) ==
  /\ wpc[w] = "pop"
  /\ \/ /\ list = <<>>
        /\ wpc' = [wpc EXCEPT ![w] = "exit"]
        /\ UNCHANGED <<list, job, started>>
     \/ /\ list # <<>>
        /\ wpc' = [wpc EXCEPT ![w] = "run"]
        /\ job' = [job EXCEPT ![w] = Head(list)]
        /\ started' = Append(started, Head(list))
        /\ list' = Tail(list)
  /\ UNCHANGED <<limit, closed, count, apc, seen, calls, added>>

\* job() returns.
WorkerRun(w) ==
  /\ wpc[w] = "run"
  /\ wpc' = [wpc EXCEPT ![w] = "check"]
  /\ job' = [job EXCEPT ![w] = NoJob]
  /\ UNCHANGED <<limit, closed, list, count, apc, seen, calls, added, started>>

\* Mutant: the deferred decrement is missing.
WorkerExitUncounted(w) ==
  /\ wpc[w] = "exit"
  /\ wpc' = [wpc EXCEPT ![w] = "none"]
  /\ UNCHANGED <<limit, closed, list, count, apc, seen, calls, job, added, started>>

\* Mutant: the decrement is deferred in the worker and made by its caller too.
WorkerExitTwice(w) ==
  /\ wpc[w] = "exit"
  /\ wpc' = [wpc EXCEPT ![w] = "none"]
  /\ count' = count - 2
  /\ UNCHANGED <<limit, closed, list, apc, seen, calls, job, added, started>>

\* The deferred count.Add(-1).
WorkerExit(w) ==
  /\ wpc[w] = "exit"
  /\ wpc' = [wpc EXCEPT ![w] = "none"]
  /\ count' = count - 1
  /\ UNCHANGED <<limit, closed, list, apc, seen, calls, job, added, started>>

Close ==
  /\ closed' = TRUE
  /\ UNCHANGED <<limit, list, count, apc, seen, calls, wpc, job, added, started>>

-----------------------------------------------------------------------------
Add(a) == AddCheck(a) \/ AddPush(a) \/ AddRead(a) \/ AddCas(a)

Worker(w) == WorkerCheck(w) \/ WorkerPop(w) \/ WorkerRun(w) \/ WorkerExit(w)

\* No call of Add is under way, none is left within the bound, and no worker
\* lives: nothing but a Close can happen any more.
Finished ==
  /\ \A a \in Adders : apc[a] = "idle" /\ (closed \/ calls[a] = MaxAdds)
  /\ Live = {}
  /\ UNCHANGED vars

Next ==
  \/ \E a \in Adders : Add(a)
  \/ \E w \in Workers : Worker(w)
  \/ Close
  \/ Finished

\* A goroutine inside Add or a forked worker keeps running, and jobs return;
\* nobody has to start a call of Add or of Close.
Fairness ==
  /\ \A a \in Adders : WF_vars(AddPush(a) \/ AddRead(a) \/ AddCas(a))
  /\ \A w \in Workers : WF_vars(Worker(w))

Spec == Init /\ [][Next]_vars

FairSpec == Spec /\ Fairness

-----------------------------------------------------------------------------
(* Safety.                                                                 *)

\* Pool.count, which Size() reports and the limit is enforced with, is the
\* number of goroutines that were forked and have not finished, whatever the
\* interleaving of Cas, fork and the deferred decrement.
CountIsLive == count = Cardinality(Live)

\* A limited pool never has more than limit goroutines, so a pool with limit 1
\* runs its callbacks one after the other.
WorkersWithinLimit == limit # -1 => Cardinality(Live) <= limit

\* Jobs leave the list in the order of the PushFront calls, none is lost,
\* duplicated or overtaken, however adders and workers interleave.
StartedInOrder == added = started \o list

\* Without a limit there are always enough goroutines on their way to the list
\* for the jobs in it: an Add that has pushed and will fork, or a worker that
\* has not yet found the list empty.
EnoughWorkers ==
  limit = -1 /\ ~closed =>
    Len(list) <=   Cardinality({a \in Adders : apc[a] \in {"read", "cas"}})
                 + Cardinality({w \in Workers : wpc[w] \in {"check", "pop", "run"}})

\* The pool is a FIFO job queue of limit servers.
Queue == INSTANCE JobQueue WITH
  submitted <- added,
  running   <- {job[w] : w \in {v \in Workers : wpc[v] = "run"}}

ImplementsJobQueue == Queue!Spec

-----------------------------------------------------------------------------
(* Liveness.                                                               *)

Listed(j) == \E i \in DOMAIN list : list[i] = j
Taken(j) == \E i \in DOMAIN started : started[i] = j

\* Without a limit every pushed job is taken up by a worker, unless the pool is
\* closed, however often adders lose the race for count.
EveryJobStarts == \A j \in Jobs : limit = -1 /\ Listed(j) ~> closed \/ Taken(j)

\* "The job will be executed asynchronously" (grpool.go:58): the same, with a
\* limit or without.
JobsAreExecuted == \A j \in Jobs : Listed(j) ~> closed \/ Taken(j)

\* "Close closes the goroutine pool, which makes all goroutines exit"
\* (grpool.go:115), and the count follows them down to zero.
CloseStopsWorkers == closed ~> (Live = {} /\ count = 0)
=============================================================================
