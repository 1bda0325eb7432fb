------------------------------ MODULE RWMutex -------------------------------
(***************************************************************************)
(* sync.RWMutex, which rwmutex.RWMutex embeds when it is created as safe.  *)
(* A writer first announces itself, from then on new readers are blocked;  *)
(* it has the lock when the readers before it have left.  When it leaves,  *)
(* the blocked readers have the lock before another writer.                *)
(*                                                                         *)
(* A lock is a record; the operators say what a call makes of the lock l.  *)
(***************************************************************************)
CONSTANTS
  Callers,   \* goroutines
  NoOne      \* not a goroutine

ASSUME NoOneAssumption == NoOne \notin Callers

Locks == [writer : Callers \cup {NoOne},   \* announced, or inside
          readers : SUBSET Callers,        \* inside
          blocked : SUBSET Callers]        \* waiting for the writer to leave

Unlocked == [writer |-> NoOne, readers |-> {}, blocked |-> {}]

\* Writers exclude each other before they announce themselves.
CanAnnounce(l) == l.writer = NoOne

Announced(l, p) == [l EXCEPT !.writer = p]

\* Mutant: a writer does not wait for the readers.
HasWriteLockAtOnce(l, p) == l.writer = p

HasWriteLock(l, p) == l.writer = p /\ l.readers = {}

WriteUnlocked(l) == [writer |-> NoOne, readers |-> l.blocked, blocked |-> {}]

ReadRequested(l, p) ==
  IF l.writer = NoOne THEN [l EXCEPT !.readers = @ \cup {p}]
  ELSE [l EXCEPT !.blocked = @ \cup {p}]

HasReadLock(l, p) == p \in l.readers

ReadUnlocked(l, p) == [l EXCEPT !.readers = @ \ {p}]
=============================================================================
