-------------------------- MODULE StrAnyMapProofs ---------------------------
(***************************************************************************)
(* Proofs about StrAnyMap: what its locks guarantee to the functions of    *)
(* the user that run inside them, and that every call is atomic although   *)
(* it takes the lock once or twice.                                        *)
(*                                                                         *)
(* The invariant MapInv says who is in which lock, from where each         *)
(* goroutine is; that a goroutine inside the write lock is alone; and that *)
(* one that has shown entries to its callback is among the readers.        *)
(***************************************************************************)
EXTENDS StrAnyMap, TLAPS

ReadCalls == Reads \cup Composite \cup {"Iterator"}

\* The goroutine p has the write lock of its map or waits for it, announced.
Writer(p) == pc[p] \in {"write", "locked func", "merge"}

\* The goroutine p has asked for the read lock of m and not given it back.
Reader(p, m) ==
  \/ pc[p] = "read" /\ call[p].on = m
  \/ pc[p] = "merge" /\ call[p].from = m /\ call[p].on # m

-----------------------------------------------------------------------------
(* The inductive invariant.                                                *)

\* Where a goroutine can be in which call, and what it brings along.
Kinds ==
  \A p \in Callers :
    /\ pc[p] = "idle" <=> call[p] = NoCall
    /\ pc[p] \in {"rlock", "read"} => call[p].name \in ReadCalls
    /\ pc[p] \in {"lock", "write"} =>
         /\ call[p].name \notin Reads \cup {"Iterator"}
         /\ call[p].name \in ByValue => val[p] = call[p].val
    /\ pc[p] = "func" => call[p].name \in ByFunc
    /\ pc[p] = "locked func" => call[p].name \in ByFuncLock
    /\ pc[p] = "merge" => call[p].name = "Merge"

\* Who is in which lock.
Holders ==
  \A m \in Maps : \A p \in Callers :
    /\ lock[m].writer = p <=> Writer(p) /\ call[p].on = m
    /\ p \in lock[m].readers \cup lock[m].blocked <=> Reader(p, m)

\* A reader is blocked or inside, and blocked by a writer only.
Blocking ==
  \A m \in Maps :
    /\ lock[m].readers \cap lock[m].blocked = {}
    /\ lock[m].writer = NoOne => lock[m].blocked = {}

\* No reader is inside together with a writer that has gone on.
Alone ==
  \A p \in Callers :
    pc[p] \in {"locked func", "merge"} => lock[call[p].on].readers = {}

\* Entries are shown by Iterator, with the read lock held.
Shown ==
  \A p \in Callers :
    seen[p] # {} => /\ pc[p] = "read" /\ call[p].name = "Iterator"
                    /\ HasReadLock(lock[call[p].on], p)

MapInv ==
  /\ TypeOK
  /\ Kinds
  /\ Holders
  /\ Blocking
  /\ Alone
  /\ Shown
  /\ NeededFunc
  /\ SteadyIteration

-----------------------------------------------------------------------------
(* The calls and their critical sections.                                  *)

\* What the fields of a call are.
LEMMA CallFields ==
  ASSUME NEW c \in Calls
  PROVE  /\ c.on \in Maps
         /\ c.name \in Composite \cup {"Set", "Search", "Contains", "Remove"}
              => c.key \in Keys
         /\ c.name \in ByValue \cup {"Set"} => c.val \in Vals
         /\ c.name \in {"Sets", "Replace"} => c.with \in Entries
         /\ c.name = "Merge" => c.from \in Maps
         /\ c.name \in ReadCalls \cup {"Set", "Sets", "Replace", "Clear", "Removes",
                 "Remove", "FilterEmpty", "Pop", "Pops", "Merge"}
BY DEF Calls, Composite, ByValue, ByFunc, ByFuncLock, ReadCalls, Reads

\* No method is of two kinds.
LEMMA NamesDisjoint ==
  /\ ReadCalls \cap {"Set", "Sets", "Replace", "Clear", "Removes",
                 "Remove", "FilterEmpty", "Pop", "Pops", "Merge", "none"} = {}
  /\ Composite \cap (Reads \cup {"Iterator"}) = {}
  /\ ByValue \cap (ByFunc \cup ByFuncLock) = {} /\ ByFunc \cap ByFuncLock = {}
  /\ Composite = ByValue \cup ByFunc \cup ByFuncLock
  /\ Getters \subseteq Composite
BY DEF Composite, ByValue, ByFunc, ByFuncLock, ReadCalls, Reads, Getters

\* What a critical section leaves is a map, and the map it found if it reads.
LEMMA SectionMap ==
  ASSUME NEW c \in Calls, NEW d \in Entries,
         c.name \notin Composite \cup {"Iterator", "Merge"},
         NEW o \in Section(c, d)
  PROVE  o.map \in Entries /\ (c.name \in Reads => o.map = d)
<1> USE CallFields, ValAssumption DEF Outcome
<1>1. CASE c.name \in {"Set", "Sets", "Replace"}
  <2>1. CASE c.name = "Set"
    BY <2>1 DEF Section, Set, Entries, Reads
  <2>2. CASE c.name = "Sets"
    BY <2>2 DEF Section, Sets, Overlay, Entries, Reads
  <2>3. CASE c.name = "Replace"
    BY <2>3 DEF Section, Replace, Reads
  <2> QED
    BY <1>1, <2>1, <2>2, <2>3
<1>2. ASSUME c.name \in {"Clear", "Removes", "Remove", "FilterEmpty", "Pop", "Pops"}
      PROVE  \E ks : o.map = Without(d, ks)
  <2>1. CASE c.name = "Clear"
    BY <2>1 DEF Section, Clear
  <2>2. CASE c.name = "Removes"
    BY <2>2 DEF Section, Removes
  <2>3. CASE c.name = "Remove"
    BY <2>3 DEF Section, Remove
  <2>4. CASE c.name = "FilterEmpty"
    BY <2>4 DEF Section, FilterEmpty
  <2>5. ASSUME NEW size, o \in Pops(d, size)
        PROVE  \E ks : o.map = Without(d, ks)
    <3>1. PICK ks : o = Outcome(Without(d, ks), Copy({<<k, d[k]>> : k \in ks}))
      BY <2>5, Zenon DEF Pops
    <3> QED
      BY <3>1
  <2>6. CASE c.name \in {"Pop", "Pops"}
    BY <2>5, <2>6 DEF Section, Pop
  <2> QED
    BY <1>2, <2>1, <2>2, <2>3, <2>4, <2>6
<1>3. \A ks : Without(d, ks) \in Entries
  BY DEF Without, Entries
<1>4. CASE c.name \in Reads
  <2>1. CASE c.name = "Search"
    BY <2>1 DEF Section, Search
  <2>2. CASE c.name = "Contains"
    BY <2>2 DEF Section, Contains
  <2>3. CASE c.name = "MapCopy"
    BY <2>3 DEF Section, MapCopy
  <2>4. CASE c.name = "Keys"
    BY <2>4 DEF Section, KeyList
  <2>5. CASE c.name = "Values"
    BY <2>5 DEF Section, Values
  <2>6. CASE c.name = "Size"
    BY <2>6 DEF Section, Size
  <2> QED
    BY <1>4, <2>1, <2>2, <2>3, <2>4, <2>5, <2>6 DEF Reads
<1> QED
  BY <1>1, <1>2, <1>3, <1>4, NamesDisjoint DEF ReadCalls

-----------------------------------------------------------------------------
(* The invariant in the form in which the proofs use it.                   *)

LEMMA MapTypes ==
  ASSUME MapInv
  PROVE  /\ data \in [Maps -> Entries] /\ lock \in [Maps -> Locks]
         /\ pc \in [Callers -> {"idle", "rlock", "read", "func", "lock", "write",
                                "locked func", "merge"}]
         /\ call \in [Callers -> Offered \cup {NoCall}]
         /\ val \in [Callers -> Vals]
         /\ seen \in [Callers -> SUBSET (Keys \X Vals)]
         /\ \A p \in Callers : pc[p] # "idle" => /\ call[p] \in Calls
                                                 /\ call[p].on \in Maps
                                                 /\ Held(p) \in Entries
         /\ NoOne \notin Callers /\ Nil \in Vals /\ Absent \notin Vals
         /\ NoCall \notin Calls
<1>1. /\ data \in [Maps -> Entries] /\ lock \in [Maps -> Locks]
      /\ pc \in [Callers -> {"idle", "rlock", "read", "func", "lock", "write",
                             "locked func", "merge"}]
      /\ call \in [Callers -> Offered \cup {NoCall}]
      /\ val \in [Callers -> Vals]
      /\ seen \in [Callers -> SUBSET (Keys \X Vals)]
      /\ \A p \in Callers : pc[p] # "idle" => call[p] # NoCall
  BY DEF MapInv, TypeOK, Kinds
<1>2. \A p \in Callers : pc[p] # "idle" => call[p] \in Calls
  BY <1>1, OfferedAssumption
<1>3. NoCall \notin Calls
  BY CallFields, NamesDisjoint DEF NoCall
<1> QED
  BY <1>1, <1>2, <1>3, CallFields, NoOneAssumption, ValAssumption DEF Held

\* A goroutine that has the write lock and is not waiting for it is alone: no
\* other writes or reads the map.
LEMMA WriterAlone ==
  ASSUME MapInv, NEW p \in Callers, Writer(p), lock[call[p].on].readers = {},
         NEW q \in Callers, q # p, pc[q] # "idle", call[q].on = call[p].on
  PROVE  /\ ~Writer(q)
         /\ seen[q] = {}
<1>1. call[p].on \in Maps
  BY MapTypes DEF Writer
<1>2. lock[call[p].on].writer = p
  BY <1>1 DEF MapInv, Holders
<1>3. ~Writer(q)
  BY <1>1, <1>2 DEF MapInv, Holders
<1>4. seen[q] = {}
  BY DEF MapInv, Shown, HasReadLock
<1> QED
  BY <1>3, <1>4

\* Writing a map changes nothing that others rely on.
LEMMA WriteKeeps ==
  ASSUME MapInv, NEW p \in Callers, Writer(p), lock[call[p].on].readers = {},
         NEW e \in Entries, data' = [data EXCEPT ![call[p].on] = e],
         \A q \in Callers \ {p} :
           pc'[q] = pc[q] /\ call'[q] = call[q] /\ seen'[q] = seen[q],
         pc'[p] = "idle"
  PROVE  /\ data' \in [Maps -> Entries]
         /\ NeededFunc' /\ SteadyIteration'
<1> USE MapTypes
<1>1. data' \in [Maps -> Entries]
  OBVIOUS
<1>2. ASSUME NEW q \in Callers, q # p, pc[q] # "idle"
      PROVE  \/ Held(q)' = Held(q)
             \/ ~Writer(q) /\ seen'[q] = {}
  BY <1>2, WriterAlone DEF Held
<1>3. NeededFunc'
  BY <1>2 DEF MapInv, NeededFunc, HasKey, Writer
<1>4. SteadyIteration'
  BY <1>2 DEF MapInv, SteadyIteration
<1> QED
  BY <1>1, <1>3, <1>4
-----------------------------------------------------------------------------
(* What the calls of a lock make of it, and who holds which lock.          *)

LEMMA LockCalls ==
  ASSUME NEW l \in Locks, NEW p \in Callers
  PROVE  /\ Announced(l, p) \in Locks
         /\ Announced(l, p).writer = p
         /\ Announced(l, p).readers = l.readers
         /\ Announced(l, p).blocked = l.blocked
         /\ WriteUnlocked(l) \in Locks
         /\ ReadUnlocked(l, p) \in Locks
         /\ ReadUnlocked(l, p).writer = l.writer
         /\ ReadUnlocked(l, p).readers = l.readers \ {p}
         /\ ReadUnlocked(l, p).blocked = l.blocked
         /\ ReadRequested(l, p) \in Locks
         /\ ReadRequested(l, p).writer = l.writer
         /\ IF l.writer = NoOne
            THEN /\ ReadRequested(l, p).readers = l.readers \cup {p}
                 /\ ReadRequested(l, p).blocked = l.blocked
            ELSE /\ ReadRequested(l, p).readers = l.readers
                 /\ ReadRequested(l, p).blocked = l.blocked \cup {p}
BY DEF Locks, Announced, WriteUnlocked, ReadUnlocked, ReadRequested

LEMMA SetLockMap ==
  ASSUME MapInv, NEW m \in Maps, NEW l \in Locks, SetLock(m, l)
  PROVE  /\ lock' \in [Maps -> Locks] /\ lock'[m] = l
         /\ \A n \in Maps \ {m} : lock'[n] = lock[n]
BY MapTypes DEF SetLock

\* A step of p leaves the others where they are.
OthersStay(p) ==
  \A q \in Callers \ {p} : pc'[q] = pc[q] /\ call'[q] = call[q]

LEMMA HoldersStep ==
  ASSUME MapInv, NEW p \in Callers, OthersStay(p),
         \A n \in Maps : \A q \in Callers \ {p} :
           /\ lock'[n].writer = q <=> lock[n].writer = q
           /\ q \in lock'[n].readers \cup lock'[n].blocked
                <=> q \in lock[n].readers \cup lock[n].blocked,
         \A n \in Maps :
           /\ lock'[n].writer = p <=> (Writer(p)' /\ call'[p].on = n)
           /\ p \in lock'[n].readers \cup lock'[n].blocked <=> Reader(p, n)'
  PROVE  Holders'
<1> SUFFICES ASSUME NEW n \in Maps, NEW q \in Callers
             PROVE  /\ lock'[n].writer = q <=> (Writer(q)' /\ call'[q].on = n)
                    /\ q \in lock'[n].readers \cup lock'[n].blocked <=> Reader(q, n)'
  BY DEF Holders
<1>1. CASE q = p
  BY <1>1
<1>2. CASE q # p
  <2>1. /\ lock[n].writer = q <=> Writer(q) /\ call[q].on = n
        /\ q \in lock[n].readers \cup lock[n].blocked <=> Reader(q, n)
    BY DEF MapInv, Holders
  <2>2. (Writer(q)' <=> Writer(q)) /\ (Reader(q, n)' <=> Reader(q, n))
    BY <1>2 DEF OthersStay, Writer, Reader
  <2> QED
    BY <1>2, <2>1, <2>2 DEF OthersStay
<1> QED
  BY <1>1, <1>2

\* The locks stay as they are, and so does what p has of them.
LEMMA HoldersStay ==
  ASSUME MapInv, NEW p \in Callers, OthersStay(p), lock' = lock,
         \A n \in Maps : /\ (Writer(p)' /\ call'[p].on = n) <=> (Writer(p) /\ call[p].on = n)
                         /\ Reader(p, n)' <=> Reader(p, n)
  PROVE  Holders' /\ Blocking'
<1>1. Holders'
  BY HoldersStep DEF MapInv, Holders
<1>2. Blocking'
  BY DEF MapInv, Blocking
<1> QED
  BY <1>1, <1>2

-----------------------------------------------------------------------------
(* Each action preserves the invariant.                                    *)

LEMMA BeginInv ==
  ASSUME MapInv, NEW p \in Callers, Begin(p)
  PROVE  MapInv'
<1>1. PICK c \in Offered :
        /\ call' = [call EXCEPT ![p] = c]
        /\ pc' = [pc EXCEPT ![p] = IF c.name \in ReadCalls THEN "rlock" ELSE "lock"]
  BY DEF Begin, ReadCalls, ToStep
<1>2. /\ pc[p] = "idle" /\ pc'[p] \in {"rlock", "lock"} /\ call'[p] = c /\ c \in Calls
      /\ OthersStay(p) /\ UNCHANGED <<data, lock, val, seen>>
      /\ seen[p] = {}
  BY <1>1, OfferedAssumption, MapTypes DEF Begin, MapInv, Shown, OthersStay
<1>3. TypeOK'
  <2>1. calls' \in 0 .. MaxCalls
    <3>1. calls \in 0 .. MaxCalls
      BY DEF MapInv, TypeOK
    <3>2. calls < MaxCalls /\ calls' = calls + 1
      BY DEF Begin
    <3> QED
      BY <3>1, <3>2, MaxCallsAssumption
  <2>2. /\ pc' \in [Callers -> {"idle", "rlock", "read", "func", "lock", "write",
                                "locked func", "merge"}]
        /\ call' \in [Callers -> Offered \cup {NoCall}]
    BY <1>1 DEF MapInv, TypeOK
  <2> QED
    BY <1>2, <2>1, <2>2 DEF MapInv, TypeOK
<1>4. Kinds'
  <2>1. c.name \notin ByValue \ ReadCalls
    BY NamesDisjoint DEF ReadCalls
  <2> QED
    BY <1>1, <1>2, <2>1, MapTypes, NamesDisjoint, ZenonT(60) DEF MapInv, Kinds, OthersStay, ReadCalls
<1>5. Holders' /\ Blocking'
  BY <1>2, HoldersStay DEF Writer, Reader
<1>6. Alone' /\ Shown' /\ NeededFunc' /\ SteadyIteration'
  BY <1>2 DEF OthersStay, MapInv, Alone, Shown, NeededFunc, HasKey, Held, SteadyIteration
<1> QED
  BY <1>3, <1>4, <1>5, <1>6 DEF MapInv

LEMMA RLockInv ==
  ASSUME MapInv, NEW p \in Callers, RLock(p)
  PROVE  MapInv'
<1>1. /\ pc[p] = "rlock" /\ pc'[p] = "read"
      /\ pc' = [pc EXCEPT ![p] = "read"]
      /\ OthersStay(p) /\ UNCHANGED <<data, call, val, seen, calls>>
      /\ call[p].on \in Maps /\ seen[p] = {}
  BY MapTypes DEF RLock, ToStep, MapInv, Shown, OthersStay
<1>2. PICK m \in Maps : m = call[p].on
  BY <1>1
<1>3. /\ SetLock(m, ReadRequested(lock[m], p)) /\ lock[m] \in Locks
      /\ p \notin lock[m].readers \cup lock[m].blocked
      /\ p # NoOne
  <2>1. SetLock(m, ReadRequested(lock[m], p)) /\ lock[m] \in Locks
    BY <1>2, MapTypes DEF RLock
  <2>2. ~Reader(p, m)
    BY <1>1 DEF Reader
  <2> QED
    BY <2>1, <2>2, NoOneAssumption DEF MapInv, Holders
<1>4. /\ \A n \in Maps \ {m} : lock'[n] = lock[n]
      /\ lock'[m].writer = lock[m].writer
      /\ \/ /\ lock[m].writer = NoOne
            /\ lock'[m].readers = lock[m].readers \cup {p}
            /\ lock'[m].blocked = lock[m].blocked
         \/ /\ lock[m].writer # NoOne
            /\ lock'[m].readers = lock[m].readers
            /\ lock'[m].blocked = lock[m].blocked \cup {p}
      /\ lock' \in [Maps -> Locks]
  BY <1>3, LockCalls, SetLockMap
<1>5. TypeOK'
  BY <1>1, <1>4 DEF MapInv, TypeOK
<1>6. Kinds'
  BY <1>1 DEF MapInv, Kinds, OthersStay
<1>7. Holders'
  <2>1. \A n \in Maps : /\ lock[n].writer # p
                        /\ p \notin lock[n].readers \cup lock[n].blocked
    BY <1>1 DEF MapInv, Holders, Writer, Reader
  <2>2. \A n \in Maps : (Reader(p, n)' <=> n = m) /\ ~Writer(p)'
    BY <1>1, <1>2 DEF Writer, Reader
  <2> QED
    BY <1>1, <1>4, <2>1, <2>2, HoldersStep
<1>8. Blocking'
  BY <1>3, <1>4 DEF MapInv, Blocking
<1>9. Alone'
  <2> SUFFICES ASSUME NEW q \in Callers, pc'[q] \in {"locked func", "merge"}
               PROVE  lock'[call[q].on].readers = {}
    BY <1>1 DEF Alone
  <2>1. q # p /\ pc[q] = pc'[q]
    BY <1>1 DEF OthersStay
  <2>2. call[q].on \in Maps /\ lock[call[q].on].readers = {}
    BY <2>1, MapTypes DEF MapInv, Alone
  <2>3. lock[call[q].on].writer = q
    <3>1. PICK n \in Maps : n = call[q].on
      BY <2>2
    <3>2. Writer(q)
      BY <2>1 DEF Writer
    <3> QED
      BY <3>1, <3>2 DEF MapInv, Holders
  <2> QED
    BY <1>4, <2>2, <2>3, NoOneAssumption
<1>10. Shown'
  BY <1>1, <1>4, MapTypes DEF OthersStay, MapInv, Shown, HasReadLock
<1>11. NeededFunc' /\ SteadyIteration'
  BY <1>1 DEF OthersStay, MapInv, NeededFunc, HasKey, Held, SteadyIteration
<1> QED
  BY <1>5, <1>6, <1>7, <1>8, <1>9, <1>10, <1>11 DEF MapInv

LEMMA LockInv ==
  ASSUME MapInv, NEW p \in Callers, Lock(p)
  PROVE  MapInv'
<1>1. /\ pc[p] = "lock" /\ pc'[p] = "write"
      /\ pc' = [pc EXCEPT ![p] = "write"]
      /\ OthersStay(p) /\ UNCHANGED <<data, call, val, seen, calls>>
      /\ call[p].on \in Maps /\ seen[p] = {}
  BY MapTypes DEF Lock, ToStep, MapInv, Shown, OthersStay
<1>2. PICK m \in Maps : m = call[p].on
  BY <1>1
<1>3. SetLock(m, Announced(lock[m], p)) /\ lock[m] \in Locks /\ lock[m].writer = NoOne
  BY <1>2, MapTypes DEF Lock, CanAnnounce
<1>4. /\ \A n \in Maps \ {m} : lock'[n] = lock[n]
      /\ lock'[m].writer = p
      /\ lock'[m].readers = lock[m].readers
      /\ lock'[m].blocked = lock[m].blocked
      /\ lock' \in [Maps -> Locks]
  BY <1>3, LockCalls, SetLockMap
<1>5. TypeOK'
  BY <1>1, <1>4 DEF MapInv, TypeOK
<1>6. Kinds'
  BY <1>1 DEF MapInv, Kinds, OthersStay
<1>7. Holders'
  <2>1. \A n \in Maps : /\ lock[n].writer # p
                        /\ p \notin lock[n].readers \cup lock[n].blocked
    BY <1>1 DEF MapInv, Holders, Writer, Reader
  <2>2. \A n \in Maps : ~Reader(p, n)' /\ Writer(p)'
    BY <1>1 DEF Writer, Reader
  <2> QED
    BY <1>1, <1>2, <1>3, <1>4, <2>1, <2>2, HoldersStep, NoOneAssumption
<1>8. Blocking'
  BY <1>3, <1>4, NoOneAssumption DEF MapInv, Blocking
<1>9. Alone' /\ Shown'
  <2>1. \A n \in Maps : lock'[n].readers = lock[n].readers
    BY <1>4
  <2>2. \A q \in Callers : pc[q] # "idle" => call[q].on \in Maps
    BY MapTypes
  <2>3. Alone'
    BY <1>1, <2>1, <2>2 DEF OthersStay, MapInv, Alone
  <2>4. Shown'
    BY <1>1, <2>1, <2>2 DEF OthersStay, MapInv, Shown, HasReadLock
  <2> QED
    BY <2>3, <2>4
<1>10. NeededFunc' /\ SteadyIteration'
  BY <1>1 DEF OthersStay, MapInv, NeededFunc, HasKey, Held, SteadyIteration
<1> QED
  BY <1>5, <1>6, <1>7, <1>8, <1>9, <1>10 DEF MapInv
\* What p shares with the others when it gives its read lock back.
LEMMA RUnlockKeeps ==
  ASSUME MapInv, NEW p \in Callers, Reading(p), RUnlock(p), OthersStay(p),
         pc'[p] \in {"idle", "func", "lock"}, UNCHANGED data,
         \A q \in Callers \ {p} : seen'[q] = seen[q],
         seen'[p] = {}
  PROVE  /\ lock' \in [Maps -> Locks]
         /\ Holders' /\ Blocking' /\ Alone' /\ Shown' /\ NeededFunc' /\ SteadyIteration'
<1>1. PICK m \in Maps : m = call[p].on
  BY MapTypes DEF Reading
<1>2. /\ SetLock(m, ReadUnlocked(lock[m], p)) /\ lock[m] \in Locks
      /\ pc[p] = "read" /\ p \in lock[m].readers /\ p \notin lock[m].blocked
  BY <1>1, MapTypes DEF Reading, RUnlock, HasReadLock, MapInv, Blocking
<1>3. /\ \A n \in Maps \ {m} : lock'[n] = lock[n]
      /\ lock'[m].writer = lock[m].writer
      /\ lock'[m].readers = lock[m].readers \ {p}
      /\ lock'[m].blocked = lock[m].blocked
      /\ lock' \in [Maps -> Locks]
  BY <1>2, LockCalls, SetLockMap
<1>4. Holders'
  <2>1. \A n \in Maps : /\ lock[n].writer # p
                        /\ p \in lock[n].readers \cup lock[n].blocked <=> n = m
    BY <1>1, <1>2 DEF MapInv, Holders, Writer, Reader
  <2>2. \A n \in Maps : ~Reader(p, n)' /\ ~Writer(p)'
    BY DEF Writer, Reader
  <2> QED
    BY <1>2, <1>3, <2>1, <2>2, HoldersStep
<1>5. Blocking'
  BY <1>2, <1>3 DEF MapInv, Blocking
<1>6. \A q \in Callers : pc[q] # "idle" => call[q].on \in Maps
  BY MapTypes
<1>7. Alone'
  <2>1. \A n \in Maps : lock'[n].readers \subseteq lock[n].readers
    BY <1>3
  <2> QED
    BY <1>6, <2>1 DEF OthersStay, MapInv, Alone
<1>8. Shown'
  BY <1>2, <1>3, <1>6 DEF OthersStay, MapInv, Shown, HasReadLock
<1>9. NeededFunc' /\ SteadyIteration'
  BY <1>2 DEF OthersStay, MapInv, NeededFunc, HasKey, Held, SteadyIteration
<1> QED
  BY <1>3, <1>4, <1>5, <1>7, <1>8, <1>9

\* A call that returns leaves the others where they are.
LEMMA ReturnTypes ==
  ASSUME MapInv, NEW p \in Callers, NEW r, Return(p, r)
  PROVE  /\ OthersStay(p) /\ pc'[p] = "idle" /\ call'[p] = NoCall /\ seen'[p] = {}
         /\ \A q \in Callers \ {p} : seen'[q] = seen[q] /\ val'[q] = val[q]
         /\ data' \in [Maps -> Entries] /\ lock' \in [Maps -> Locks] => TypeOK'
         /\ Kinds'
<1>1. /\ OthersStay(p) /\ pc'[p] = "idle" /\ call'[p] = NoCall /\ seen'[p] = {}
      /\ \A q \in Callers \ {p} : seen'[q] = seen[q] /\ val'[q] = val[q]
  BY MapTypes DEF Return, ToStep, OthersStay
<1>2. data' \in [Maps -> Entries] /\ lock' \in [Maps -> Locks] => TypeOK'
  BY ValAssumption DEF Return, ToStep, MapInv, TypeOK
<1>3. Kinds'
  BY <1>1, ZenonT(60) DEF MapInv, Kinds, OthersStay
<1> QED
  BY <1>1, <1>2, <1>3

\* ReadOnly, Visited and Hit end like this.
LEMMA ReadReturnInv ==
  ASSUME MapInv, NEW p \in Callers, Reading(p), RUnlock(p), UNCHANGED data,
         NEW r, Return(p, r)
  PROVE  MapInv'
BY ReturnTypes, RUnlockKeeps, MapTypes DEF MapInv

LEMMA MissInv ==
  ASSUME MapInv, NEW p \in Callers, Miss(p)
  PROVE  MapInv'
<1>1. /\ Reading(p) /\ RUnlock(p) /\ UNCHANGED <<data, call, seen>>
      /\ call[p].name \in Composite
      /\ pc'[p] = IF call[p].name \in ByFunc THEN "func" ELSE "lock"
      /\ call[p].name \in ByValue => val'[p] = call[p].val
      /\ OthersStay(p) /\ \A q \in Callers \ {p} : val'[q] = val[q]
  BY MapTypes DEF Miss, ToStep, OthersStay
<1>2. pc[p] = "read" /\ call[p] \in Calls /\ call[p] # NoCall
  BY <1>1, MapTypes DEF Reading
<1>3. seen'[p] = {} /\ \A q \in Callers \ {p} : seen'[q] = seen[q]
  BY <1>1, NamesDisjoint DEF MapInv, Shown
<1>4. /\ lock' \in [Maps -> Locks]
      /\ Holders' /\ Blocking' /\ Alone' /\ Shown' /\ NeededFunc' /\ SteadyIteration'
  BY <1>1, <1>3, RUnlockKeeps
<1>5. TypeOK'
  <2>1. \A v : v \in {call[p].val} => (call[p].name \in ByValue => v \in Vals)
    BY <1>2, CallFields
  <2>2. val' \in [Callers -> Vals]
    BY <2>1, MapTypes DEF Miss
  <2>3. pc' \in [Callers -> {"idle", "rlock", "read", "func", "lock", "write",
                             "locked func", "merge"}]
    BY MapTypes DEF Miss, ToStep
  <2>4. calls' = calls
    BY DEF Miss
  <2> QED
    BY <1>1, <1>4, <2>2, <2>3, <2>4 DEF MapInv, TypeOK
<1>6. Kinds'
  BY <1>1, <1>2, NamesDisjoint, ZenonT(60) DEF MapInv, Kinds, OthersStay
<1> QED
  BY <1>4, <1>5, <1>6 DEF MapInv

\* Steps of p that leave the locks and the maps alone.
LEMMA VisitInv ==
  ASSUME MapInv, NEW p \in Callers, Visit(p)
  PROVE  MapInv'
<1>1. /\ pc[p] = "read" /\ HasReadLock(lock[call[p].on], p)
      /\ call[p].name = "Iterator" /\ OthersStay(p)
      /\ UNCHANGED <<data, lock, pc, call, val, calls>>
  BY DEF Visit, Reading, OthersStay
<1>2. PICK k \in Present(Held(p)) :
        seen' = [seen EXCEPT ![p] = @ \cup {<<k, Held(p)[k]>>}]
  BY DEF Visit
<1>3. k \in Keys /\ Held(p)[k] \in Vals /\ <<k, Held(p)[k]>> \in Pairs(Held(p))
  BY <1>1, MapTypes, ZenonT(60) DEF Present, Pairs, Entries
<1>4. seen' \in [Callers -> SUBSET (Keys \X Vals)]
  <2>1. PICK e \in Keys \X Vals : seen' = [seen EXCEPT ![p] = @ \cup {e}]
    BY <1>2, <1>3
  <2> QED
    BY <2>1, MapTypes
<1>5. TypeOK'
  BY <1>1, <1>4 DEF MapInv, TypeOK
<1>6. Kinds'
  BY <1>1 DEF MapInv, Kinds
<1>7. Holders' /\ Blocking'
  BY <1>1, HoldersStay DEF Writer, Reader
<1>8. Alone' /\ NeededFunc'
  BY <1>1 DEF MapInv, Alone, NeededFunc, HasKey, Held
<1>9. Shown'
  BY <1>1, <1>2, MapTypes DEF MapInv, Shown
<1>10. SteadyIteration'
  <2>1. \A q \in Callers : Held(q)' = Held(q)
    BY <1>1 DEF Held
  <2>2. seen'[p] \subseteq Pairs(Held(p))
    BY <1>1, <1>2, <1>3, MapTypes DEF MapInv, SteadyIteration
  <2> QED
    BY <1>1, <1>2, <2>1, <2>2, MapTypes DEF MapInv, SteadyIteration
<1> QED
  BY <1>5, <1>6, <1>7, <1>8, <1>9, <1>10 DEF MapInv

LEMMA CallFuncInv ==
  ASSUME MapInv, NEW p \in Callers, CallFunc(p)
  PROVE  MapInv'
<1>1. /\ pc[p] = "func" /\ pc'[p] = "lock" /\ OthersStay(p)
      /\ UNCHANGED <<data, lock, call, seen, calls>>
      /\ \A q \in Callers \ {p} : val'[q] = val[q]
  BY MapTypes DEF CallFunc, ToStep, OthersStay
<1>2. TypeOK'
  <2>1. val' \in [Callers -> Vals]
    BY MapTypes DEF CallFunc
  <2>2. pc' \in [Callers -> {"idle", "rlock", "read", "func", "lock", "write",
                             "locked func", "merge"}]
    BY MapTypes DEF CallFunc, ToStep
  <2> QED
    BY <1>1, <2>1, <2>2 DEF MapInv, TypeOK
<1>3. Kinds'
  BY <1>1, NamesDisjoint, ZenonT(60) DEF MapInv, Kinds, OthersStay
<1>4. Holders' /\ Blocking'
  BY <1>1, HoldersStay DEF Writer, Reader
<1>5. Alone' /\ Shown' /\ NeededFunc' /\ SteadyIteration'
  BY <1>1 DEF OthersStay, MapInv, Alone, Shown, NeededFunc, HasKey, Held, SteadyIteration
<1> QED
  BY <1>2, <1>3, <1>4, <1>5 DEF MapInv

LEMMA EnterFuncInv ==
  ASSUME MapInv, NEW p \in Callers, EnterFunc(p)
  PROVE  MapInv'
<1>1. /\ pc[p] = "write" /\ pc'[p] = "locked func" /\ OthersStay(p)
      /\ HasWriteLock(lock[call[p].on], p) /\ ~HasKey(p)
      /\ call[p].name \in ByFuncLock
      /\ UNCHANGED <<data, lock, call, val, seen, calls>>
  BY MapTypes DEF EnterFunc, Writing, ToStep, OthersStay
<1>2. TypeOK'
  <2>1. pc' \in [Callers -> {"idle", "rlock", "read", "func", "lock", "write",
                             "locked func", "merge"}]
    BY MapTypes DEF EnterFunc, ToStep
  <2> QED
    BY <1>1, <2>1 DEF MapInv, TypeOK
<1>3. Kinds'
  BY <1>1, NamesDisjoint DEF MapInv, Kinds, OthersStay
<1>4. Holders' /\ Blocking'
  BY <1>1, HoldersStay DEF Writer, Reader
<1>5. Alone' /\ Shown'
  BY <1>1 DEF OthersStay, MapInv, Alone, Shown, HasWriteLock
<1>6. NeededFunc' /\ SteadyIteration'
  BY <1>1 DEF OthersStay, MapInv, NeededFunc, HasKey, Held, SteadyIteration
<1> QED
  BY <1>2, <1>3, <1>4, <1>5, <1>6 DEF MapInv
\* A writer that is inside alone leaves its map as e and returns.
LEMMA WriteInv ==
  ASSUME MapInv, NEW p \in Callers,
         Writer(p), pc[p] # "merge", lock[call[p].on].readers = {},
         NEW e \in Entries, NEW r, Write(p, e, r)
  PROVE  MapInv'
<1>1. /\ Return(p, r) /\ data' = [data EXCEPT ![call[p].on] = e]
      /\ OthersStay(p) /\ pc'[p] = "idle" /\ seen'[p] = {}
      /\ \A q \in Callers \ {p} : seen'[q] = seen[q]
  BY ReturnTypes DEF Write
<1>2. data' \in [Maps -> Entries] /\ NeededFunc' /\ SteadyIteration'
  BY <1>1, WriteKeeps DEF OthersStay
<1>3. PICK m \in Maps : m = call[p].on
  BY MapTypes DEF Writer
<1>4. SetLock(m, WriteUnlocked(lock[m])) /\ lock[m] \in Locks
  BY <1>3, MapTypes DEF Write, Unlock
<1>5. /\ \A n \in Maps \ {m} : lock'[n] = lock[n]
      /\ lock'[m].writer = NoOne
      /\ lock'[m].readers = lock[m].blocked
      /\ lock'[m].blocked = {}
      /\ lock' \in [Maps -> Locks]
  BY <1>4, LockCalls, SetLockMap DEF WriteUnlocked
<1>6. lock[m].writer = p /\ lock[m].readers = {}
  BY <1>3 DEF MapInv, Holders
<1>7. Holders'
  <2>1. \A n \in Maps : /\ lock[n].writer = p <=> n = m
                        /\ p \notin lock[n].readers \cup lock[n].blocked
    BY <1>3 DEF MapInv, Holders, Writer, Reader
  <2>2. \A n \in Maps : ~Reader(p, n)' /\ ~Writer(p)'
    BY <1>1 DEF Writer, Reader
  <2> QED
    BY <1>1, <1>5, <1>6, <2>1, <2>2, HoldersStep, NoOneAssumption
<1>8. Blocking'
  BY <1>5 DEF MapInv, Blocking
<1>9. \A q \in Callers : pc[q] # "idle" => call[q].on \in Maps
  BY MapTypes
<1>10. Alone'
  <2> SUFFICES ASSUME NEW q \in Callers, pc'[q] \in {"locked func", "merge"}
               PROVE  lock'[call'[q].on].readers = {}
    BY DEF Alone
  <2>1. q # p /\ pc[q] = pc'[q] /\ call'[q] = call[q] /\ Writer(q)
    BY <1>1 DEF OthersStay, Writer
  <2>2. PICK n \in Maps : n = call[q].on
    BY <1>9, <2>1 DEF Writer
  <2>3. lock[n].writer = q
    BY <2>1, <2>2 DEF MapInv, Holders
  <2>4. lock[n].readers = {}
    BY <2>1, <2>2 DEF MapInv, Alone
  <2> QED
    BY <1>5, <1>6, <2>1, <2>2, <2>3, <2>4
<1>11. Shown'
  <2> SUFFICES ASSUME NEW q \in Callers, seen'[q] # {}
               PROVE  /\ pc'[q] = "read" /\ call'[q].name = "Iterator"
                      /\ q \in lock'[call'[q].on].readers
    BY DEF Shown, HasReadLock
  <2>1. q # p /\ seen[q] # {}
    BY <1>1
  <2>2. /\ pc'[q] = "read" /\ call'[q] = call[q] /\ call[q].name = "Iterator"
        /\ pc[q] = "read" /\ q \in lock[call[q].on].readers
    BY <1>1, <2>1 DEF OthersStay, MapInv, Shown, HasReadLock
  <2>3. PICK n \in Maps : n = call[q].on
    BY <1>9, <2>2
  <2> QED
    BY <1>5, <1>6, <2>2, <2>3
<1> QED
  BY <1>1, <1>2, <1>5, <1>7, <1>8, <1>10, <1>11, ReturnTypes DEF MapInv

LEMMA StoredMap ==
  ASSUME NEW d \in Entries, NEW k \in Keys, NEW v \in Vals
  PROVE  Stored(d, k, v) \in Entries
BY DEF Stored, Entries

\* The call that p is in, of which a key is looked for.
LEMMA CompositeCall ==
  ASSUME MapInv, NEW p \in Callers, pc[p] # "idle"
  PROVE  /\ call[p].name \in Composite => call[p].key \in Keys
         /\ call[p].name \in ByValue => call[p].val \in Vals
         /\ Held(p) \in Entries
BY MapTypes, CallFields

LEMMA WriteOnlyInv ==
  ASSUME MapInv, NEW p \in Callers, WriteOnly(p)
  PROVE  MapInv'
<1>1. /\ pc[p] = "write" /\ Writer(p) /\ lock[call[p].on].readers = {}
      /\ call[p].name \notin Composite \cup {"Merge", "Iterator"}
  BY DEF WriteOnly, Writing, HasWriteLock, Writer, MapInv, Kinds
<1>2. PICK o \in Section(call[p], Held(p)) : Write(p, o.map, o.ret)
  BY DEF WriteOnly
<1>3. o.map \in Entries
  BY <1>1, <1>2, MapTypes, SectionMap
<1> QED
  BY <1>1, <1>2, <1>3, WriteInv

LEMMA DoSetInv ==
  ASSUME MapInv, NEW p \in Callers, KeptOther(p) \/ Store(p) \/ StoreResult(p)
  PROVE  MapInv'
<1>1. /\ Writer(p) /\ pc[p] # "merge" /\ lock[call[p].on].readers = {}
      /\ call[p].name \in Composite
  BY NamesDisjoint
     DEF KeptOther, Store, StoreResult, Writing, HasWriteLock, Writer, MapInv, Alone, Kinds
<1>2. call[p].key \in Keys /\ Held(p) \in Entries /\ val[p] \in Vals
  BY <1>1, CompositeCall, MapTypes DEF Writer
<1>3. \E e \in Entries : \E r : Write(p, e, r)
  BY <1>2, StoredMap DEF KeptOther, Store, StoreResult
<1> QED
  BY <1>1, <1>3, WriteInv
LEMMA MergeRLockInv ==
  ASSUME MapInv, NEW p \in Callers, MergeRLock(p)
  PROVE  MapInv'
<1>1. /\ pc[p] = "write" /\ pc'[p] = "merge" /\ OthersStay(p)
      /\ HasWriteLock(lock[call[p].on], p) /\ call[p].name = "Merge"
      /\ UNCHANGED <<data, call, val, seen, calls>>
      /\ call[p].on \in Maps /\ call[p].from \in Maps /\ seen[p] = {}
  BY MapTypes, CallFields
     DEF MergeRLock, Writing, ToStep, OthersStay, MapInv, Shown
<1>2. PICK m \in Maps, n \in Maps : m = call[p].on /\ n = call[p].from
  BY <1>1
<1>3. /\ lock[m] \in Locks /\ lock[n] \in Locks
      /\ lock[m].writer = p /\ lock[m].readers = {}
      /\ p \notin lock[n].readers \cup lock[n].blocked
      /\ p # NoOne
  <2>1. lock[m] \in Locks /\ lock[n] \in Locks
    BY MapTypes
  <2>2. lock[m].writer = p /\ lock[m].readers = {}
    BY <1>1, <1>2 DEF HasWriteLock
  <2>3. ~Reader(p, n)
    BY <1>1 DEF Reader
  <2> QED
    BY <2>1, <2>2, <2>3, NoOneAssumption DEF MapInv, Holders
<1>4. /\ lock' \in [Maps -> Locks]
      /\ \A k \in Maps : /\ k # n \/ m = n => lock'[k] = lock[k]
                         /\ lock'[k].writer = lock[k].writer
      /\ n # m => \/ /\ lock[n].writer = NoOne
                     /\ lock'[n].readers = lock[n].readers \cup {p}
                     /\ lock'[n].blocked = lock[n].blocked
                  \/ /\ lock[n].writer # NoOne
                     /\ lock'[n].readers = lock[n].readers
                     /\ lock'[n].blocked = lock[n].blocked \cup {p}
  <2>1. CASE m = n
    <3>1. lock' = lock
      BY <1>2, <2>1 DEF MergeRLock
    <3> QED
      BY <2>1, <3>1, MapTypes
  <2>2. CASE m # n
    <3>1. SetLock(n, ReadRequested(lock[n], p))
      BY <1>2, <2>2 DEF MergeRLock
    <3> QED
      BY <1>3, <2>2, <3>1, LockCalls, SetLockMap, SMTT(30)
  <2> QED
    BY <2>1, <2>2
<1>5. TypeOK'
  <2>1. pc' \in [Callers -> {"idle", "rlock", "read", "func", "lock", "write",
                             "locked func", "merge"}]
    BY MapTypes DEF MergeRLock, ToStep
  <2> QED
    BY <1>1, <1>4, <2>1 DEF MapInv, TypeOK
<1>6. Kinds'
  BY <1>1 DEF MapInv, Kinds, OthersStay
<1>7. Holders'
  <2>1. \A k \in Maps : /\ lock[k].writer = p <=> k = m
                        /\ p \notin lock[k].readers \cup lock[k].blocked
    BY <1>1, <1>2 DEF MapInv, Holders, Writer, Reader
  <2>2. \A k \in Maps : (Reader(p, k)' <=> k = n /\ n # m) /\ Writer(p)'
    BY <1>1, <1>2 DEF Writer, Reader
  <2>3. \A k \in Maps : \A q \in Callers \ {p} :
          q \in lock'[k].readers \cup lock'[k].blocked
            <=> q \in lock[k].readers \cup lock[k].blocked
    BY <1>4
  <2>4. \A k \in Maps : p \in lock'[k].readers \cup lock'[k].blocked <=> Reader(p, k)'
    BY <1>4, <2>1, <2>2
  <2>5. \A k \in Maps : lock'[k].writer = p <=> (Writer(p)' /\ call'[p].on = k)
    BY <1>1, <1>2, <1>4, <2>1, <2>2
  <2> QED
    BY <1>1, <1>4, <2>3, <2>4, <2>5, HoldersStep
<1>8. Blocking'
  BY <1>3, <1>4 DEF MapInv, Blocking
<1>9. \A q \in Callers : pc[q] # "idle" => call[q].on \in Maps
  BY MapTypes
<1>10. Alone'
  <2> SUFFICES ASSUME NEW q \in Callers, pc'[q] \in {"locked func", "merge"}
               PROVE  lock'[call[q].on].readers = {}
    BY <1>1 DEF Alone
  <2>1. CASE q = p
    BY <1>2, <1>3, <1>4, <2>1
  <2>2. CASE q # p
    <3>1. pc[q] = pc'[q] /\ Writer(q)
      BY <1>1, <2>2 DEF OthersStay, Writer
    <3>2. PICK k \in Maps : k = call[q].on
      BY <1>9, <3>1 DEF Writer
    <3>3. lock[k].writer = q /\ lock[k].readers = {}
      BY <3>1, <3>2 DEF MapInv, Holders, Alone
    <3> QED
      BY <1>4, <3>2, <3>3, NoOneAssumption
  <2> QED
    BY <2>1, <2>2
<1>11. Shown'
  <2>1. \A k \in Maps : lock[k].readers \subseteq lock'[k].readers
    BY <1>4
  <2> QED
    BY <1>1, <1>9, <2>1 DEF OthersStay, MapInv, Shown, HasReadLock
<1>12. NeededFunc' /\ SteadyIteration'
  BY <1>1 DEF OthersStay, MapInv, NeededFunc, HasKey, Held, SteadyIteration
<1> QED
  BY <1>5, <1>6, <1>7, <1>8, <1>10, <1>11, <1>12 DEF MapInv

LEMMA MergeCopyInv ==
  ASSUME MapInv, NEW p \in Callers, MergeCopy(p)
  PROVE  MapInv'
<1>1. /\ pc[p] = "merge" /\ Writer(p) /\ lock[call[p].on].readers = {}
      /\ call[p].name = "Merge" /\ call[p].on \in Maps /\ call[p].from \in Maps
      /\ Return(p, Nothing)
  BY MapTypes, CallFields DEF MergeCopy, Writer, MapInv, Kinds, Alone
<1>2. PICK m \in Maps, n \in Maps : m = call[p].on /\ n = call[p].from
  BY <1>1
<1>3. /\ OthersStay(p) /\ pc'[p] = "idle" /\ seen'[p] = {}
      /\ \A q \in Callers \ {p} : seen'[q] = seen[q]
  BY <1>1, ReturnTypes
<1>4. data' \in [Maps -> Entries] /\ NeededFunc' /\ SteadyIteration'
  <2>1. data' = [data EXCEPT ![m] = Overlay(data[m], data[n])]
    BY <1>2 DEF MergeCopy
  <2>2. Overlay(data[m], data[n]) \in Entries
    <3>1. data[m] \in Entries /\ data[n] \in Entries
      BY MapTypes
    <3> QED
      BY <3>1, ValAssumption DEF Overlay, Entries
  <2> QED
    BY <1>1, <1>2, <1>3, <2>1, <2>2, WriteKeeps DEF OthersStay
<1>5. /\ lock \in [Maps -> Locks]
      /\ lock' = [k \in Maps |-> IF k = m THEN WriteUnlocked(lock[k])
                                 ELSE IF k = n THEN ReadUnlocked(lock[k], p)
                                 ELSE lock[k]]
  BY <1>2, MapTypes DEF MergeCopy
<1>6. /\ lock' \in [Maps -> Locks]
      /\ lock'[m].writer = NoOne
      /\ lock'[m].readers = lock[m].blocked
      /\ lock'[m].blocked = {}
      /\ \A k \in Maps \ {m} : /\ lock'[k].writer = lock[k].writer
                               /\ lock'[k].blocked = lock[k].blocked
                               /\ k # n => lock'[k].readers = lock[k].readers
      /\ n # m => lock'[n].readers = lock[n].readers \ {p}
  <2>1. \A k \in Maps : lock[k] \in Locks
    BY <1>5
  <2>2. \A k \in Maps : /\ WriteUnlocked(lock[k]) \in Locks
                        /\ ReadUnlocked(lock[k], p) \in Locks
    BY <2>1, LockCalls
  <2>3. lock'[m] = WriteUnlocked(lock[m])
    BY <1>5
  <2>4. n # m => lock'[n] = ReadUnlocked(lock[n], p)
    BY <1>5
  <2>5. \A k \in Maps \ {m, n} : lock'[k] = lock[k]
    BY <1>5
  <2>6. lock' \in [Maps -> Locks]
    BY <1>5, <2>1, <2>2
  <2>7. \A k \in Maps : /\ ReadUnlocked(lock[k], p).writer = lock[k].writer
                        /\ ReadUnlocked(lock[k], p).readers = lock[k].readers \ {p}
                        /\ ReadUnlocked(lock[k], p).blocked = lock[k].blocked
    BY <2>1, LockCalls, SMTT(30)
  <2>8. /\ lock'[m].writer = NoOne
        /\ lock'[m].readers = lock[m].blocked
        /\ lock'[m].blocked = {}
    BY <2>3 DEF WriteUnlocked
  <2>9. n # m => /\ lock'[n].writer = lock[n].writer
                 /\ lock'[n].readers = lock[n].readers \ {p}
                 /\ lock'[n].blocked = lock[n].blocked
    BY <2>4, <2>7
  <2> QED
    BY <2>5, <2>6, <2>8, <2>9
<1>7. /\ lock[m].writer = p /\ lock[m].readers = {}
      /\ n # m => p \in lock[n].readers /\ p \notin lock[n].blocked
      /\ \A k \in Maps : k # n \/ m = n => p \notin lock[k].readers \cup lock[k].blocked
      /\ \A k \in Maps : lock[k].writer = p <=> k = m
  <2>1. \A k \in Maps : Reader(p, k) <=> k = n /\ n # m
    BY <1>1, <1>2 DEF Reader
  <2>2. n # m => p \in lock[n].readers
    BY <1>2 DEF MergeCopy, HasReadLock
  <2> QED
    BY <1>1, <1>2, <2>1, <2>2 DEF MapInv, Holders, Blocking
<1>8. Holders'
  <2>1. \A k \in Maps : ~Reader(p, k)' /\ ~Writer(p)'
    BY <1>3 DEF Writer, Reader
  <2>2. \A k \in Maps : p \notin lock'[k].readers \cup lock'[k].blocked
    BY <1>6, <1>7
  <2>3. \A k \in Maps : lock'[k].writer # p
    BY <1>6, <1>7, NoOneAssumption
  <2>4. \A k \in Maps : \A q \in Callers \ {p} :
          /\ lock'[k].writer = q <=> lock[k].writer = q
          /\ q \in lock'[k].readers \cup lock'[k].blocked
               <=> q \in lock[k].readers \cup lock[k].blocked
    BY <1>6, <1>7, NoOneAssumption
  <2> QED
    BY <1>3, <2>1, <2>2, <2>3, <2>4, HoldersStep
<1>9. Blocking'
  <2> SUFFICES ASSUME NEW k \in Maps
               PROVE  /\ lock'[k].readers \cap lock'[k].blocked = {}
                      /\ lock'[k].writer = NoOne => lock'[k].blocked = {}
    BY DEF Blocking
  <2>1. /\ lock[k].readers \cap lock[k].blocked = {}
        /\ lock[k].writer = NoOne => lock[k].blocked = {}
    BY DEF MapInv, Blocking
  <2> QED
    BY <1>6, <2>1
<1>10. \A q \in Callers : pc[q] # "idle" => call[q].on \in Maps
  BY MapTypes
<1>11. Alone'
  <2> SUFFICES ASSUME NEW q \in Callers, pc'[q] \in {"locked func", "merge"}
               PROVE  lock'[call'[q].on].readers = {}
    BY DEF Alone
  <2>1. q # p /\ pc[q] = pc'[q] /\ call'[q] = call[q] /\ Writer(q)
    BY <1>3 DEF OthersStay, Writer
  <2>2. PICK k \in Maps : k = call[q].on
    BY <1>10, <2>1 DEF Writer
  <2>3. lock[k].writer = q
    BY <2>1, <2>2 DEF MapInv, Holders
  <2>4. lock[k].readers = {}
    BY <2>1, <2>2 DEF MapInv, Alone
  <2>5. k # m /\ (k = n => lock'[k].readers = {}) /\ (k # n => lock'[k].readers = {})
    BY <1>6, <1>7, <2>1, <2>3, <2>4
  <2> QED
    BY <2>1, <2>2, <2>5
<1>12. Shown'
  <2> SUFFICES ASSUME NEW q \in Callers, seen'[q] # {}
               PROVE  /\ pc'[q] = "read" /\ call'[q].name = "Iterator"
                      /\ q \in lock'[call'[q].on].readers
    BY DEF Shown, HasReadLock
  <2>1. q # p /\ seen[q] # {}
    BY <1>3
  <2>2. /\ pc'[q] = "read" /\ call'[q] = call[q] /\ call[q].name = "Iterator"
        /\ pc[q] = "read" /\ q \in lock[call[q].on].readers
    BY <1>3, <2>1 DEF OthersStay, MapInv, Shown, HasReadLock
  <2>3. PICK k \in Maps : k = call[q].on
    BY <1>10, <2>2
  <2> QED
    BY <1>6, <1>7, <2>1, <2>2, <2>3
<1> QED
  BY <1>1, <1>4, <1>6, <1>8, <1>9, <1>11, <1>12, ReturnTypes DEF MapInv
-----------------------------------------------------------------------------
(* The theorems.                                                           *)

LEMMA InitInv ==
  ASSUME Init
  PROVE  MapInv
<1>1. TypeOK
  BY InitialAssumption, MaxCallsAssumption, NoOneAssumption, ValAssumption
     DEF Init, TypeOK, Locks, Unlocked
<1>2. Kinds
  BY DEF Init, Kinds
<1>3. Holders /\ Blocking /\ Alone /\ Shown
  BY NoOneAssumption
     DEF Init, Unlocked, Holders, Writer, Reader, Blocking, Alone, Shown
<1>4. NeededFunc /\ SteadyIteration
  BY DEF Init, NeededFunc, SteadyIteration
<1> QED
  BY <1>1, <1>2, <1>3, <1>4 DEF MapInv

LEMMA NextInv ==
  ASSUME MapInv, [Next]_vars
  PROVE  MapInv'
<1>1. CASE UNCHANGED vars
  <2>1. UNCHANGED <<data, lock, pc, call, val, seen, calls>>
    BY <1>1 DEF vars
  <2>2. TypeOK' /\ Kinds'
    BY <2>1 DEF MapInv, TypeOK, Kinds
  <2>3. Holders' /\ Blocking'
    BY <2>1 DEF MapInv, Holders, Writer, Reader, Blocking
  <2>4. Alone' /\ Shown' /\ NeededFunc' /\ SteadyIteration'
    BY <2>1 DEF MapInv, Alone, Shown, NeededFunc, HasKey, SteadyIteration, Held
  <2> QED
    BY <2>2, <2>3, <2>4 DEF MapInv
<1>2. ASSUME NEW p \in Callers, Begin(p) \/ GoOn(p)
      PROVE  MapInv'
  <2>1. CASE Begin(p) \/ RLock(p) \/ Lock(p)
    BY <2>1, BeginInv, RLockInv, LockInv
  <2>2. CASE ReadOnly(p) \/ Visited(p) \/ Hit(p)
    BY <2>2, ReadReturnInv DEF ReadOnly, Visited, Hit
  <2>3. CASE Miss(p) \/ Visit(p) \/ CallFunc(p) \/ EnterFunc(p)
    BY <2>3, MissInv, VisitInv, CallFuncInv, EnterFuncInv
  <2>4. CASE WriteOnly(p) \/ KeptOther(p) \/ Store(p) \/ StoreResult(p)
    BY <2>4, WriteOnlyInv, DoSetInv
  <2>5. CASE MergeRLock(p) \/ MergeCopy(p)
    BY <2>5, MergeRLockInv, MergeCopyInv
  <2> QED
    BY <1>2, <2>1, <2>2, <2>3, <2>4, <2>5 DEF GoOn, DoSetWithLockCheck
<1> QED
  BY <1>1, <1>2 DEF Next, Finished

LEMMA MapInvariant == Spec => []MapInv
<1>1. Init => MapInv
  BY InitInv
<1>2. MapInv /\ [Next]_vars => MapInv'
  BY NextInv
<1> QED
  BY <1>1, <1>2, PTL DEF Spec

(* The maps and the locks of a StrAnyMap always have their types.          *)
THEOREM TypeCorrect == Spec => []TypeOK
<1>1. MapInv => TypeOK
  BY DEF MapInv
<1> QED
  BY <1>1, MapInvariant, PTL

(* However many goroutines share a map, the key for which the user's       *)
(* function runs under the lock (GetOrSetFuncLock, SetIfNotExistFuncLock)  *)
(* stays absent until it has returned.                                     *)
THEOREM FuncCorrect == Spec => []NeededFunc
<1>1. MapInv => NeededFunc
  BY DEF MapInv
<1> QED
  BY <1>1, MapInvariant, PTL

(* However many goroutines share a map, Iterator shows its callback what   *)
(* the map holds until the iteration ends.                                 *)
THEOREM IterationCorrect == Spec => []SteadyIteration
<1>1. MapInv => SteadyIteration
  BY DEF MapInv
<1> QED
  BY <1>1, MapInvariant, PTL

-----------------------------------------------------------------------------
(* StrAnyMap implements AtomicMap.                                         *)

\* AtomicMap has the operators of MapCalls in its own name.
LEMMA SameCalls ==
  /\ Promise!NoCall = NoCall /\ Promise!Nothing = Nothing
  /\ \A v : Promise!Value(v) = Value(v) /\ Promise!Found(v) = Found(v)
            /\ Promise!Copy(v) = Copy(v)
  /\ \A e, r : Promise!Outcome(e, r) = Outcome(e, r)
  /\ \A d : Promise!Present(d) = Present(d)
  /\ Promise!ByValue = ByValue /\ Promise!Getters = Getters
  /\ Promise!Composite = Composite
BY DEF Promise!NoCall, NoCall, Promise!Nothing, Nothing, Promise!Value, Value,
   Promise!Found, Found, Promise!Copy, Copy, Promise!Outcome, Outcome,
   Promise!Present, Present, Promise!ByValue, ByValue, Promise!Getters, Getters,
   Promise!Composite, Composite, Promise!ByFunc, ByFunc, Promise!ByFuncLock, ByFuncLock

LEMMA SameMaps ==
  /\ \A d : Promise!Pairs(d) = Pairs(d)
  /\ \A d, ks : Promise!Without(d, ks) = Without(d, ks)
  /\ \A d, e : Promise!Overlay(d, e) = Overlay(d, e)
  /\ \A d, k, v : Promise!Stored(d, k, v) = Stored(d, k, v)
BY SameCalls DEF Promise!Pairs, Pairs, Promise!Without, Without, Promise!Overlay, Overlay,
   Promise!Stored, Stored

LEMMA SameCardinality == \A S : Promise!Cardinality(S) = Cardinality(S)
BY DEF Promise!Cardinality, Cardinality

LEMMA SameSection ==
  ASSUME NEW c, NEW d
  PROVE  Promise!Section(c, d) = Section(c, d)
BY SameCalls, SameMaps, SameCardinality, Zenon
   DEF Section, Promise!Section, Set, Promise!Set, Sets, Promise!Sets, Replace,
   Promise!Replace, Clear, Promise!Clear, Removes, Promise!Removes, Remove, Promise!Remove,
   FilterEmpty, Promise!FilterEmpty, Pop, Promise!Pop, Pops, Promise!Pops, Search,
   Promise!Search, Contains, Promise!Contains, MapCopy, Promise!MapCopy, KeyList,
   Promise!KeyList, Values, Promise!Values, Size, Promise!Size
\* Whoever returns claims nothing any more, and no one else's claim changes.
LEMMA ReturnsUnclaimed ==
  ASSUME MapInv, NEW p \in Callers, NEW r, Return(p, r)
  PROVE  Claiming' = Claiming \ {p}
<1>1. call'[p] = NoCall /\ \A q \in Callers \ {p} : call'[q] = call[q] /\ pc'[q] = pc[q]
  BY DEF Return, ToStep, MapInv, TypeOK
<1>2. NoCall.name \notin Composite
  BY DEF NoCall, Composite, ByValue, ByFunc, ByFuncLock
<1> QED
  BY <1>1, <1>2 DEF Claiming

\* A step to a place on the same side of the look for the key.
LEMMA ClaimingStays ==
  ASSUME MapInv, NEW p \in Callers, NEW s, UNCHANGED call, ToStep(p, s),
         call[p].name \in Composite =>
           (pc[p] \in {"func", "lock", "write", "locked func"}
              <=> s \in {"func", "lock", "write", "locked func"})
  PROVE  Claiming' = Claiming
<1>1. pc'[p] = s /\ \A q \in Callers \ {p} : pc'[q] = pc[q]
  BY DEF ToStep, MapInv, TypeOK
<1> QED
  BY <1>1 DEF Claiming

\* A call that p returns from, with one of its outcomes.
LEMMA FinishStep ==
  ASSUME MapInv, NEW p \in Callers, pc[p] # "idle",
         NEW o \in Promise!Outcomes(call[p]),
         data' = [data EXCEPT ![call[p].on] = o.map], Return(p, o.ret)
  PROVE  Promise!Finish(p)
<1>1. call[p] # Promise!NoCall
  BY MapTypes, SameCalls
<1>2. call' = [call EXCEPT ![p] = Promise!NoCall] /\ ret' = [ret EXCEPT ![p] = o.ret]
  BY SameCalls DEF Return
<1>3. Claiming' = Claiming \ {p}
  BY ReturnsUnclaimed
<1> QED
  BY <1>1, <1>2, <1>3 DEF Promise!Finish

\* The outcomes of each call.
LEMMA SectionOutcomes ==
  ASSUME NEW c, c.name \notin Composite \cup {"Iterator", "Merge"}
  PROVE  Promise!Outcomes(c) = Section(c, data[c.on])
<1>1. c.name \notin Getters \cup Composite
  BY NamesDisjoint
<1> QED
  BY <1>1, SameCalls, SameSection DEF Promise!Outcomes

\* What doSetWithLockCheck leaves is allowed, as it is left open whether nil is set.
LEMMA StoredPuts == \A d, k, v : Stored(d, k, v) \in Promise!Puts(d, k, v)
BY DEF Stored, Promise!Puts

LEMMA CompositeOutcomes ==
  ASSUME NEW c, c.name \in Composite
  PROVE  LET d == data[c.on]
         IN  /\ d[c.key] # Absent =>
                  /\ c.name \in Getters
                       => Outcome(d, Value(d[c.key])) \in Promise!Outcomes(c)
                  /\ c.name \notin Getters
                       => Outcome(d, Found(FALSE)) \in Promise!Outcomes(c)
             /\ d[c.key] = Absent =>
                  \A v \in Vals : (c.name \in ByValue => v = c.val) =>
                    /\ c.name \in Getters
                         => Outcome(Stored(d, c.key, v), Value(v)) \in Promise!Outcomes(c)
                    /\ c.name \notin Getters
                         => Outcome(Stored(d, c.key, v), Found(TRUE))
                              \in Promise!Outcomes(c)
<1>1. c.name \notin {"Merge", "Iterator"}
  BY NamesDisjoint DEF ReadCalls
<1>2. CASE c.name \in Getters
  <2>1. Promise!Outcomes(c) = Promise!GetOrSet(c, data[c.on])
    BY <1>1, <1>2, SameCalls DEF Promise!Outcomes
  <2>2. ASSUME NEW d, d = data[c.on], d[c.key] # Absent
        PROVE  Outcome(d, Value(d[c.key])) \in Promise!Outcomes(c)
    BY <2>1, <2>2, SameCalls DEF Promise!GetOrSet
  <2>3. ASSUME NEW d, d = data[c.on], d[c.key] = Absent, NEW v \in Vals,
               c.name \in ByValue => v = c.val
        PROVE  Outcome(Stored(d, c.key, v), Value(v)) \in Promise!Outcomes(c)
    <3>1. v \in Promise!Offers(c)
      BY <2>3, SameCalls DEF Promise!Offers
    <3>2. Outcome(Stored(d, c.key, v), Value(v))
            \in {Promise!Outcome(e, Promise!Value(v)) : e \in Promise!Puts(d, c.key, v)}
      BY SameCalls, StoredPuts
    <3> QED
      BY <2>1, <2>3, <3>1, <3>2 DEF Promise!GetOrSet
  <2> QED
    BY <1>2, <2>2, <2>3
<1>3. CASE c.name \notin Getters
  <2>1. Promise!Outcomes(c) = Promise!SetIfNotExist(c, data[c.on])
    BY <1>1, <1>3, SameCalls DEF Promise!Outcomes
  <2>2. ASSUME NEW d, d = data[c.on], d[c.key] # Absent
        PROVE  Outcome(d, Found(FALSE)) \in Promise!Outcomes(c)
    BY <2>1, <2>2, SameCalls DEF Promise!SetIfNotExist
  <2>3. ASSUME NEW d, d = data[c.on], d[c.key] = Absent, NEW v \in Vals,
               c.name \in ByValue => v = c.val
        PROVE  Outcome(Stored(d, c.key, v), Found(TRUE)) \in Promise!Outcomes(c)
    <3>1. v \in Promise!Offers(c)
      BY <2>3, SameCalls DEF Promise!Offers
    <3>2. Outcome(Stored(d, c.key, v), Found(TRUE))
            \in {Promise!Outcome(e, Promise!Found(TRUE)) : e \in Promise!Puts(d, c.key, v)}
      BY SameCalls, StoredPuts
    <3> QED
      BY <2>1, <2>3, <3>1, <3>2 DEF Promise!SetIfNotExist
  <2> QED
    BY <1>3, <2>2, <2>3
<1> QED
  BY <1>2, <1>3

LEMMA IteratorOutcomes ==
  ASSUME NEW c, c.name = "Iterator", NEW s \in SUBSET Pairs(data[c.on]),
         s # {} \/ Present(data[c.on]) = {}
  PROVE  Outcome(data[c.on], Copy(s)) \in Promise!Outcomes(c)
<1>1. Promise!Outcomes(c) = Promise!Iterator(data[c.on])
  <2>1. c.name \notin Getters \cup Composite
    BY NamesDisjoint
  <2> QED
    BY <2>1, SameCalls DEF Promise!Outcomes
<1>2. Present(data[c.on]) = {} => s = {}
  BY DEF Pairs
<1> QED
  BY <1>1, <1>2, SameCalls, SameMaps DEF Promise!Iterator

LEMMA MergeOutcomes ==
  ASSUME NEW c, c.name = "Merge"
  PROVE  Promise!Outcomes(c) = {Outcome(Overlay(data[c.on], data[c.from]), Nothing)}
<1>1. c.name \notin Getters \cup Composite
  BY NamesDisjoint DEF ReadCalls
<1>2. Promise!Outcomes(c) = Promise!Sets(data[c.on], data[c.from])
  BY <1>1, SameCalls DEF Promise!Outcomes
<1> QED
  BY <1>2, SameCalls, SameMaps DEF Promise!Sets
-----------------------------------------------------------------------------
(* Each step is a step of AtomicMap, or none.                              *)

LEMMA StartSteps ==
  ASSUME MapInv, NEW p \in Callers, Begin(p)
  PROVE  Promise!Start(p)
<1>1. call[p] = Promise!NoCall
  BY SameCalls DEF Begin, MapInv, Kinds
<1>2. Claiming' = Claiming
  <2>1. PICK c \in Offered :
          /\ call' = [call EXCEPT ![p] = c]
          /\ ToStep(p, IF c.name \in Reads \cup Composite \cup {"Iterator"}
                       THEN "rlock" ELSE "lock")
    BY DEF Begin
  <2>2. /\ call'[p] = c /\ pc'[p] \in {"rlock", "lock"} /\ pc[p] = "idle"
        /\ c.name \in Composite => pc'[p] = "rlock"
        /\ \A q \in Callers \ {p} : call'[q] = call[q] /\ pc'[q] = pc[q]
    BY <2>1 DEF Begin, ToStep, MapInv, TypeOK
  <2> QED
    BY <2>2 DEF Claiming
<1> QED
  BY <1>1, <1>2, SameCalls DEF Begin, Promise!Start

LEMMA ReadSteps ==
  ASSUME MapInv, NEW p \in Callers, ReadOnly(p) \/ Visited(p) \/ Hit(p)
  PROVE  Promise!Finish(p)
<1>1. /\ pc[p] = "read" /\ UNCHANGED data /\ call[p] \in Calls /\ Held(p) \in Entries
      /\ Held(p) = data[call[p].on]
  BY MapTypes DEF ReadOnly, Visited, Hit, Reading, Held
<1>2. data' = [data EXCEPT ![call[p].on] = Held(p)]
  BY <1>1, MapTypes DEF Held
<1>3. CASE ReadOnly(p)
  <2>1. PICK o \in Section(call[p], Held(p)) : Return(p, o.ret)
    BY <1>3 DEF ReadOnly
  <2>2. call[p].name \in Reads /\ call[p].name \notin Composite \cup {"Iterator", "Merge"}
    BY <1>3, NamesDisjoint DEF ReadOnly, ReadCalls, Reads
  <2>3. o.map = Held(p)
    BY <1>1, <2>1, <2>2, SectionMap
  <2>4. o \in Promise!Outcomes(call[p])
    BY <1>1, <2>1, <2>2, SectionOutcomes
  <2> QED
    BY <1>1, <1>2, <2>1, <2>3, <2>4, FinishStep
<1>4. CASE Visited(p)
  <2>1. call[p].name = "Iterator" /\ Return(p, Copy(seen[p]))
    BY <1>4 DEF Visited
  <2>2. /\ seen[p] \in SUBSET Pairs(data[call[p].on])
        /\ seen[p] # {} \/ Present(data[call[p].on]) = {}
    BY <1>1, <1>4, <2>1 DEF Visited, MapInv, SteadyIteration
  <2>3. Outcome(Held(p), Copy(seen[p])) \in Promise!Outcomes(call[p])
    BY <1>1, <2>1, <2>2, IteratorOutcomes
  <2>4. PICK o \in Promise!Outcomes(call[p]) : o = Outcome(Held(p), Copy(seen[p]))
    BY <2>3
  <2>5. o.map = Held(p) /\ o.ret = Copy(seen[p])
    BY <2>4 DEF Outcome
  <2> QED
    BY <1>1, <1>2, <2>1, <2>5, FinishStep
<1>5. CASE Hit(p)
  <2>1. /\ call[p].name \in Composite /\ call[p].key \in Keys
        /\ Held(p)[call[p].key] # Absent
        /\ Return(p, IF call[p].name \in Getters
                     THEN Value(Held(p)[call[p].key]) ELSE Found(FALSE))
    BY <1>5 DEF Hit, HasKey, Present
  <2>2. PICK o \in Promise!Outcomes(call[p]) :
          o = Outcome(Held(p), IF call[p].name \in Getters
                               THEN Value(Held(p)[call[p].key]) ELSE Found(FALSE))
    BY <1>1, <2>1, CompositeOutcomes
  <2>3. /\ o.map = Held(p)
        /\ o.ret = IF call[p].name \in Getters
                   THEN Value(Held(p)[call[p].key]) ELSE Found(FALSE)
    BY <2>2 DEF Outcome
  <2> QED
    BY <1>1, <1>2, <2>1, <2>3, FinishStep
<1> QED
  BY <1>3, <1>4, <1>5

LEMMA WriteSteps ==
  ASSUME MapInv, NEW p \in Callers, WriteOnly(p)
  PROVE  Promise!Finish(p)
<1>1. /\ pc[p] = "write"
      /\ call[p].name \notin Composite \cup {"Iterator", "Merge"}
  BY DEF WriteOnly, Writing, MapInv, Kinds
<1>2. PICK o \in Section(call[p], Held(p)) : Write(p, o.map, o.ret)
  BY DEF WriteOnly
<1>3. o \in Promise!Outcomes(call[p])
  BY <1>1, <1>2, SectionOutcomes DEF Held
<1> QED
  BY <1>1, <1>2, <1>3, FinishStep DEF Write

\* The look for a key that is not there.
LEMMA MissSteps ==
  ASSUME MapInv, NEW p \in Callers, Miss(p)
  PROVE  Promise!Look(p) \/ UNCHANGED Promise!vars
<1>1. /\ pc[p] = "read" /\ call[p].name \in Composite /\ call[p].key \in Keys
      /\ Held(p) = data[call[p].on] /\ UNCHANGED <<data, call, ret>>
  BY CompositeCall DEF Miss, Reading, Held
<1>2. data[call[p].on][call[p].key] = Absent
  BY <1>1 DEF Miss, HasKey, Present
<1>3. /\ pc'[p] \in {"func", "lock"}
      /\ \A q \in Callers \ {p} : pc'[q] = pc[q]
  BY DEF Miss, ToStep, MapInv, TypeOK
<1>4. CASE call[p].name \in Getters
  <2>1. Claiming' = Claiming
    BY <1>1, <1>3, <1>4 DEF Claiming
  <2> QED
    BY <1>1, <2>1 DEF Promise!vars
<1>5. CASE call[p].name \notin Getters
  <2>1. Claiming' = Claiming \cup {p}
    BY <1>1, <1>3, <1>5 DEF Claiming
  <2>2. call[p].name \in Promise!Composite \ Promise!Getters
    BY <1>1, <1>5, SameCalls
  <2> QED
    BY <1>1, <1>2, <2>1, <2>2 DEF Promise!Look
<1> QED
  BY <1>4, <1>5

LEMMA DoSetSteps ==
  ASSUME MapInv, NEW p \in Callers, KeptOther(p) \/ Store(p) \/ StoreResult(p)
  PROVE  Promise!Finish(p) \/ Promise!LoseRace(p)
<1>1. /\ pc[p] # "idle" /\ call[p].name \in Composite
      /\ call[p].key \in Keys /\ Held(p) = data[call[p].on]
  <2>1. pc[p] # "idle" /\ call[p].name \in Composite
    BY NamesDisjoint DEF KeptOther, Store, StoreResult, Writing, MapInv, Kinds
  <2> QED
    BY <2>1, CompositeCall DEF Held
<1>2. ASSUME NEW o \in Promise!Outcomes(call[p]), NEW e, NEW r,
             o = Outcome(e, r), Write(p, e, r)
      PROVE  Promise!Finish(p)
  <2>1. o.map = e /\ o.ret = r
    BY <1>2 DEF Outcome
  <2> QED
    BY <1>1, <1>2, <2>1, FinishStep DEF Write
<1>3. CASE KeptOther(p)
  <2>1. /\ Held(p)[call[p].key] # Absent
        /\ Write(p, Held(p), Answer(p, Held(p)[call[p].key]))
    BY <1>3 DEF KeptOther, HasKey, Present
  <2>2. CASE call[p].name \in Getters
    <3>1. PICK o \in Promise!Outcomes(call[p]) :
            o = Outcome(Held(p), Answer(p, Held(p)[call[p].key]))
      BY <1>1, <2>1, <2>2, CompositeOutcomes DEF Answer
    <3> QED
      BY <1>2, <2>1, <3>1
  <2>3. CASE call[p].name \notin Getters
    <3>1. p \in Claiming
      BY <1>1, <1>3, <2>3 DEF KeptOther, Writing, Claiming
    <3>2. /\ data' = [data EXCEPT ![call[p].on] = data[call[p].on]]
          /\ Return(p, Found(TRUE))
      BY <1>1, <2>1, <2>3 DEF Write, Answer
    <3>3. /\ call' = [call EXCEPT ![p] = Promise!NoCall]
          /\ ret' = [ret EXCEPT ![p] = Promise!Found(TRUE)]
      BY <3>2, SameCalls DEF Return
    <3>4. data' = data
      BY <3>2, MapTypes DEF MapInv, TypeOK
    <3>5. Claiming' = Claiming \ {p}
      BY <3>2, ReturnsUnclaimed
    <3> QED
      BY <1>1, <2>1, <3>1, <3>3, <3>4, <3>5 DEF Promise!LoseRace
  <2> QED
    BY <2>2, <2>3
<1>4. CASE Store(p) \/ StoreResult(p)
  <2>1. Held(p)[call[p].key] = Absent
    BY <1>1, <1>4 DEF Store, StoreResult, HasKey, Present, MapInv, NeededFunc
  <2>2. PICK v \in Vals :
          /\ Write(p, Stored(Held(p), call[p].key, v), Answer(p, v))
          /\ call[p].name \in ByValue => v = call[p].val
    BY <1>4, MapTypes, NamesDisjoint DEF Store, StoreResult, Writing, MapInv, Kinds
  <2>3. PICK o \in Promise!Outcomes(call[p]) :
          o = Outcome(Stored(Held(p), call[p].key, v), Answer(p, v))
    BY <1>1, <2>1, <2>2, CompositeOutcomes DEF Answer
  <2> QED
    BY <1>2, <2>2, <2>3
<1> QED
  BY <1>3, <1>4

LEMMA MergeSteps ==
  ASSUME MapInv, NEW p \in Callers, MergeCopy(p)
  PROVE  Promise!Finish(p)
<1>1. /\ pc[p] = "merge" /\ call[p].name = "Merge" /\ Return(p, Nothing)
      /\ data' = [data EXCEPT ![call[p].on] =
                    Overlay(data[call[p].on], data[call[p].from])]
  BY DEF MergeCopy, MapInv, Kinds
<1>2. PICK o \in Promise!Outcomes(call[p]) :
        o = Outcome(Overlay(data[call[p].on], data[call[p].from]), Nothing)
  BY <1>1, MergeOutcomes
<1>3. /\ o.map = Overlay(data[call[p].on], data[call[p].from])
      /\ o.ret = Nothing
  BY <1>2 DEF Outcome
<1> QED
  BY <1>1, <1>3, FinishStep

(* Every call on a shared StrAnyMap takes effect at one instant between    *)
(* its start and its return and answers for that instant, although the     *)
(* composite calls take the lock twice and Merge takes two locks; but a    *)
(* SetIfNotExist that found its key absent and then lost it to another     *)
(* goroutine answers true, and nil may not be set.                         *)
THEOREM AtomicImplemented == Spec => ImplementsAtomicMap
<1>1. Init => Promise!Init
  <2> SUFFICES ASSUME Init PROVE Promise!Init
    OBVIOUS
  <2>1. Claiming = {}
    BY DEF Init, Claiming
  <2> QED
    BY <2>1, SameCalls DEF Init, Promise!Init
<1>2. MapInv /\ [Next]_vars => [Promise!Next]_Promise!vars
  <2> SUFFICES ASSUME MapInv, [Next]_vars
               PROVE  Promise!Next \/ UNCHANGED Promise!vars
    OBVIOUS
  <2>1. CASE UNCHANGED vars
    BY <2>1 DEF vars, Claiming, Promise!vars
  <2>2. ASSUME NEW p \in Callers, Begin(p) \/ GoOn(p)
        PROVE  \/ Promise!Start(p) \/ Promise!Finish(p)
               \/ Promise!Look(p) \/ Promise!LoseRace(p)
               \/ UNCHANGED Promise!vars
    <3>1. CASE Begin(p)
      BY <3>1, StartSteps
    <3>2. CASE ReadOnly(p) \/ Visited(p) \/ Hit(p)
      BY <3>2, ReadSteps
    <3>3. CASE WriteOnly(p) \/ KeptOther(p) \/ Store(p) \/ StoreResult(p) \/ MergeCopy(p)
      BY <3>3, WriteSteps, DoSetSteps, MergeSteps
    <3>4. CASE Miss(p)
      BY <3>4, MissSteps
    <3>5. CASE Visit(p)
      BY <3>5 DEF Visit, Claiming, Promise!vars
    <3>6. CASE RLock(p) \/ Lock(p) \/ CallFunc(p) \/ EnterFunc(p) \/ MergeRLock(p)
      <4>1. UNCHANGED <<data, call, ret>>
        BY <3>6 DEF RLock, Lock, CallFunc, EnterFunc, MergeRLock
      <4>2. "Merge" \notin Composite
        BY NamesDisjoint DEF ReadCalls
      <4>3. Claiming' = Claiming
        BY <3>6, <4>1, <4>2, ClaimingStays DEF RLock, Lock, CallFunc, EnterFunc, MergeRLock, Writing
      <4> QED
        BY <4>1, <4>3 DEF Promise!vars
    <3> QED
      BY <2>2, <3>1, <3>2, <3>3, <3>4, <3>5, <3>6 DEF GoOn, DoSetWithLockCheck
  <2> QED
    BY <2>1, <2>2 DEF Next, Finished, Promise!Next
<1> QED
  BY <1>1, <1>2, MapInvariant, PTL DEF Spec, ImplementsAtomicMap, Promise!Spec
=============================================================================
