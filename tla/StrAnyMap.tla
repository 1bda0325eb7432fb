----------------------------- MODULE StrAnyMap ------------------------------
(***************************************************************************)
(* The concurrent-safe StrAnyMap (gmap_hash_str_any_map.go): goroutines    *)
(* that share maps, each behind its RWMutex.                               *)
(*                                                                         *)
(* Asking for a lock is a step of its own, and so is every call of a       *)
(* function that the user passes in.  What a critical section does from    *)
(* the moment it has the lock until it leaves is one step.  A map is never *)
(* nil: Replace and NewStrAnyMapFrom are given one that is made.           *)
(***************************************************************************)
EXTENDS MapCalls, RWMutex

CONSTANTS
  Initial,    \* what the maps may be created with
  Offered,    \* the calls that goroutines make
  MaxCalls    \* bound on the number of calls

ASSUME InitialAssumption == Initial \subseteq [Maps -> Entries]
ASSUME OfferedAssumption == Offered \subseteq Calls
ASSUME MaxCallsAssumption == MaxCalls \in Nat

VARIABLES
  data,   \* m.data of each map
  lock,   \* m.mu of each map
  pc,     \* where each goroutine is
  call,   \* the call it is in
  val,    \* the value it brings to doSetWithLockCheck
  seen,   \* the entries that its iteration has passed to the callback
  ret,    \* what its last call returned
  calls   \* how many calls were made

vars == <<data, lock, pc, call, val, seen, ret, calls>>

Init ==
  /\ data \in Initial
  /\ lock = [m \in Maps |-> Unlocked]
  /\ pc = [p \in Callers |-> "idle"]
  /\ call = [p \in Callers |-> NoCall]
  /\ val = [p \in Callers |-> Nil]
  /\ seen = [p \in Callers |-> {}]
  /\ ret = [p \in Callers |-> Nothing]
  /\ calls = 0

Held(p) == data[call[p].on]

HasKey(p) == call[p].key \in Present(Held(p))

ToStep(p, s) == pc' = [pc EXCEPT ![p] = s]

SetLock(m, l) == lock' = [lock EXCEPT ![m] = l]

Reading(p) == pc[p] = "read" /\ HasReadLock(lock[call[p].on], p)

Writing(p) == pc[p] = "write" /\ HasWriteLock(lock[call[p].on], p)

RUnlock(p) == SetLock(call[p].on, ReadUnlocked(lock[call[p].on], p))

Unlock(p) == SetLock(call[p].on, WriteUnlocked(lock[call[p].on]))

Return(p, r) ==
  /\ ToStep(p, "idle")
  /\ call' = [call EXCEPT ![p] = NoCall]
  /\ val' = [val EXCEPT ![p] = Nil]
  /\ seen' = [seen EXCEPT ![p] = {}]
  /\ ret' = [ret EXCEPT ![p] = r]
  /\ UNCHANGED calls

\* The map is left as e, the call returns r.
Write(p, e, r) ==
  /\ data' = [data EXCEPT ![call[p].on] = e]
  /\ Unlock(p)
  /\ Return(p, r)

-----------------------------------------------------------------------------
Begin(p) ==
  /\ pc[p] = "idle"
  /\ calls < MaxCalls
  /\ \E c \in Offered :
       /\ call' = [call EXCEPT ![p] = c]
       /\ ToStep(p, IF c.name \in Reads \cup Composite \cup {"Iterator"}
                    THEN "rlock" ELSE "lock")
  /\ ret' = [ret EXCEPT ![p] = Nothing]
  /\ calls' = calls + 1
  /\ UNCHANGED <<data, lock, val, seen>>

RLock(p) ==
  /\ pc[p] = "rlock"
  /\ SetLock(call[p].on, ReadRequested(lock[call[p].on], p))
  /\ ToStep(p, "read")
  /\ UNCHANGED <<data, call, val, seen, ret, calls>>

Lock(p) ==
  /\ pc[p] = "lock"
  /\ CanAnnounce(lock[call[p].on])
  /\ SetLock(call[p].on, Announced(lock[call[p].on], p))
  /\ ToStep(p, "write")
  /\ UNCHANGED <<data, call, val, seen, ret, calls>>

ReadOnly(p) ==
  /\ Reading(p)
  /\ call[p].name \in Reads
  /\ \E o \in Section(call[p], Held(p)) : Return(p, o.ret)
  /\ RUnlock(p)
  /\ UNCHANGED data

WriteOnly(p) ==
  /\ Writing(p)
  /\ call[p].name \notin Composite \cup {"Merge"}
  /\ \E o \in Section(call[p], Held(p)) : Write(p, o.map, o.ret)

-----------------------------------------------------------------------------
\* Iterator calls f for one entry after the other, with the read lock held.
Visit(p) ==
  /\ Reading(p)
  /\ call[p].name = "Iterator"
  /\ \E k \in Present(Held(p)) :
       /\ k \notin {e[1] : e \in seen[p]}
       /\ seen' = [seen EXCEPT ![p] = @ \cup {<<k, Held(p)[k]>>}]
  /\ UNCHANGED <<data, lock, pc, call, val, ret, calls>>

\* f has returned false, or there is nothing to visit any more.
Visited(p) ==
  /\ Reading(p)
  /\ call[p].name = "Iterator"
  /\ seen[p] # {} \/ Present(Held(p)) = {}
  /\ RUnlock(p)
  /\ Return(p, Copy(seen[p]))
  /\ UNCHANGED data

-----------------------------------------------------------------------------
\* The composite calls look for the key first, with the read lock.
Hit(p) ==
  /\ Reading(p)
  /\ call[p].name \in Composite
  /\ HasKey(p)
  /\ RUnlock(p)
  /\ Return(p, IF call[p].name \in Getters
               THEN Value(Held(p)[call[p].key]) ELSE Found(FALSE))
  /\ UNCHANGED data

\* Mutant: the result of the failed look is brought to doSetWithLockCheck.
MissTakesFound(p) ==
  /\ Reading(p)
  /\ call[p].name \in Composite
  /\ ~HasKey(p)
  /\ RUnlock(p)
  /\ ToStep(p, IF call[p].name \in ByFunc THEN "func" ELSE "lock")
  /\ val' = [val EXCEPT ![p] = Held(p)[call[p].key]]
  /\ UNCHANGED <<data, call, seen, ret, calls>>

Miss(p) ==
  /\ Reading(p)
  /\ call[p].name \in Composite
  /\ ~HasKey(p)
  /\ RUnlock(p)
  /\ ToStep(p, IF call[p].name \in ByFunc THEN "func" ELSE "lock")
  /\ val' = [val EXCEPT ![p] = IF call[p].name \in ByValue THEN call[p].val ELSE Nil]
  /\ UNCHANGED <<data, call, seen, ret, calls>>

\* The function of the user, called without the lock.
CallFunc(p) ==
  /\ pc[p] = "func"
  /\ \E v \in Vals : val' = [val EXCEPT ![p] = v]
  /\ ToStep(p, "lock")
  /\ UNCHANGED <<data, lock, call, seen, ret, calls>>

\* What GetOrSet and SetIfNotExist make of the result of doSetWithLockCheck.
Answer(p, v) == IF call[p].name \in Getters THEN Value(v) ELSE Found(TRUE)

\* doSetWithLockCheck: another goroutine has set the key meanwhile.
KeptOther(p) ==
  /\ Writing(p)
  /\ call[p].name \in Composite
  /\ HasKey(p)
  /\ Write(p, Held(p), Answer(p, Held(p)[call[p].key]))

\* Mutant: doSetWithLockCheck does not look for the key again.
StoreUnchecked(p) ==
  /\ Writing(p)
  /\ call[p].name \in ByValue \cup ByFunc
  /\ Write(p, Stored(Held(p), call[p].key, val[p]), Answer(p, val[p]))

Store(p) ==
  /\ Writing(p)
  /\ call[p].name \in ByValue \cup ByFunc
  /\ ~HasKey(p)
  /\ Write(p, Stored(Held(p), call[p].key, val[p]), Answer(p, val[p]))

\* Mutant: the function is called before the key is looked for again.
EnterFuncUnchecked(p) ==
  /\ Writing(p)
  /\ call[p].name \in ByFuncLock
  /\ ToStep(p, "locked func")
  /\ UNCHANGED <<data, lock, call, val, seen, ret, calls>>

\* The function of the user is about to be called with the lock held.
EnterFunc(p) ==
  /\ Writing(p)
  /\ call[p].name \in ByFuncLock
  /\ ~HasKey(p)
  /\ ToStep(p, "locked func")
  /\ UNCHANGED <<data, lock, call, val, seen, ret, calls>>

StoreResult(p) ==
  /\ pc[p] = "locked func"
  /\ \E v \in Vals :
       Write(p, Stored(Held(p), call[p].key, v), Answer(p, v))

-----------------------------------------------------------------------------
\* Mutant: a map merged into itself is locked twice.
MergeRLockAlways(p) ==
  /\ Writing(p)
  /\ call[p].name = "Merge"
  /\ SetLock(call[p].from, ReadRequested(lock[call[p].from], p))
  /\ ToStep(p, "merge")
  /\ UNCHANGED <<data, call, val, seen, ret, calls>>

\* Merge keeps the write lock of its map and asks for the other's read lock.
MergeRLock(p) ==
  /\ Writing(p)
  /\ call[p].name = "Merge"
  /\ IF call[p].from = call[p].on THEN UNCHANGED lock
     ELSE SetLock(call[p].from, ReadRequested(lock[call[p].from], p))
  /\ ToStep(p, "merge")
  /\ UNCHANGED <<data, call, val, seen, ret, calls>>

MergeCopy(p) ==
  LET m == call[p].on
      other == call[p].from
  IN  /\ pc[p] = "merge"
      /\ other = m \/ HasReadLock(lock[other], p)
      /\ data' = [data EXCEPT ![m] = Overlay(data[m], data[other])]
      /\ lock' = [n \in Maps |-> IF n = m THEN WriteUnlocked(lock[n])
                                 ELSE IF n = other THEN ReadUnlocked(lock[n], p)
                                 ELSE lock[n]]
      /\ Return(p, Nothing)

-----------------------------------------------------------------------------
DoSetWithLockCheck(p) == KeptOther(p) \/ Store(p) \/ EnterFunc(p) \/ StoreResult(p)

GoOn(p) ==
  \/ RLock(p) \/ Lock(p) \/ ReadOnly(p) \/ WriteOnly(p) \/ Visit(p) \/ Visited(p)
  \/ Hit(p) \/ Miss(p) \/ CallFunc(p) \/ DoSetWithLockCheck(p)
  \/ MergeRLock(p) \/ MergeCopy(p)

\* All calls are made and have returned.
Finished ==
  /\ calls = MaxCalls
  /\ \A p \in Callers : pc[p] = "idle"
  /\ UNCHANGED vars

Next == Finished \/ \E p \in Callers : Begin(p) \/ GoOn(p)

Spec == Init /\ [][Next]_vars

-----------------------------------------------------------------------------
(* TypeOK: types of the variables. *)
TypeOK ==
  /\ data \in [Maps -> Entries]
  /\ lock \in [Maps -> Locks]
  /\ pc \in [Callers -> {"idle", "rlock", "read", "func", "lock", "write",
                         "locked func", "merge"}]
  /\ call \in [Callers -> Offered \cup {NoCall}]
  /\ val \in [Callers -> Vals]
  /\ seen \in [Callers -> SUBSET (Keys \X Vals)]
  /\ calls \in 0 .. MaxCalls

(* NeededFunc: while GetOrSetFuncLock or SetIfNotExistFuncLock runs the    *)
(* user's function, its key stays absent: no goroutine can have set it, so *)
(* the result of the function is not made in vain.                         *)
NeededFunc ==
  \A p \in Callers : pc[p] = "locked func" => ~HasKey(p)

(* SteadyIteration: what an iteration has shown to its callback is what    *)
(* the map still holds while it goes on, key for key.                      *)
SteadyIteration ==
  \A p \in Callers :
    pc[p] = "read" /\ call[p].name = "Iterator" => seen[p] \subseteq Pairs(Held(p))

(* NeverStuck: as long as a goroutine is in a call, some goroutine in a    *)
(* call can go on: the locks never make all of them wait for each other.   *)
(* Merges are offered in one direction only; those of two maps into each   *)
(* other do block each other.                                              *)
NeverStuck ==
  (\E p \in Callers : pc[p] # "idle") => ENABLED (\E p \in Callers : GoOn(p))

(* ImplementsAtomicMap: each call, although it takes the lock once or      *)
(* twice and runs the user's functions in between, takes effect at one     *)
(* instant and answers for that instant as its comment says.  Two cases    *)
(* are left open, in which the code does not what its comments say: a      *)
(* SetIfNotExist that has found its key absent answers true, also when     *)
(* another goroutine sets the key before it does ("It returns false if     *)
(* <key> exists", line 244); and nil may not be stored (line 209).         *)

\* SetIfNotExist and its kind, from the look for the key to the return.
Claiming ==
  {p \in Callers : /\ call[p].name \in Composite \ Getters
                   /\ pc[p] \in {"func", "lock", "write", "locked func"}}

Promise == INSTANCE AtomicMap WITH free <- Claiming, Open <- {"lost race", "nil"}

ImplementsAtomicMap == Promise!Spec
=============================================================================
