------------------------------ MODULE MapCalls ------------------------------
(***************************************************************************)
(* The calls of a StrAnyMap, and what a critical section of one makes of   *)
(* the map it holds.                                                       *)
(*                                                                         *)
(* A map is a function from Keys to Vals or Absent.  A key can be present  *)
(* with the value Nil.  An operator named after a method gives the set of  *)
(* its outcomes on the map d: the map it leaves and what it returns; Go    *)
(* picks the order of the keys, so Pop and Pops have several.              *)
(***************************************************************************)
EXTENDS Integers, FiniteSets

CONSTANTS
  Maps,       \* StrAnyMap objects
  Keys,
  Vals,       \* what can be stored, Nil among it
  Nil,
  Empties,    \* the values that IsEmpty holds for
  Absent      \* not a value

ASSUME ValAssumption ==
  Nil \in Empties /\ Empties \subseteq Vals /\ Absent \notin Vals

Entries == [Keys -> Vals \cup {Absent}]

Present(d) == {k \in Keys : d[k] # Absent}

Pairs(d) == {<<k, d[k]>> : k \in Present(d)}

Without(d, ks) == [k \in Keys |-> IF k \in ks THEN Absent ELSE d[k]]

Overlay(d, e) == [k \in Keys |-> IF e[k] # Absent THEN e[k] ELSE d[k]]

\* doSetWithLockCheck does not store nil.
Stored(d, k, v) == IF v = Nil THEN d ELSE [d EXCEPT ![k] = v]

-----------------------------------------------------------------------------
Nothing == [nothing |-> TRUE]
Value(v) == [value |-> v]
Found(b) == [found |-> b]
Copy(s) == [pairs |-> s]

Outcome(e, r) == [map |-> e, ret |-> r]

Set(d, k, v) == {Outcome([d EXCEPT ![k] = v], Nothing)}

Sets(d, e) == {Outcome(Overlay(d, e), Nothing)}

Replace(e) == {Outcome(e, Nothing)}

Clear(d) == {Outcome(Without(d, Keys), Nothing)}

Removes(d, ks) == {Outcome(Without(d, ks), Nothing)}

Remove(d, k) == {Outcome(Without(d, {k}), Value(d[k]))}

FilterEmpty(d) ==
  {Outcome(Without(d, {k \in Keys : d[k] \in Empties}), Nothing)}

Pops(d, size) ==
  LET n == IF size > Cardinality(Present(d)) \/ size = -1
           THEN Cardinality(Present(d)) ELSE size
  IN  {Outcome(Without(d, ks), Copy({<<k, d[k]>> : k \in ks})) :
         ks \in {s \in SUBSET Present(d) : Cardinality(s) = n}}

Pop(d) == Pops(d, 1)

Search(d, k) == {Outcome(d, Value(d[k]))}

Contains(d, k) == {Outcome(d, Found(d[k] # Absent))}

MapCopy(d) == {Outcome(d, Copy(Pairs(d)))}

KeyList(d) == {Outcome(d, [keys |-> Present(d)])}

\* How often each value occurs.
Values(d) ==
  {Outcome(d, [values |-> [v \in Vals |-> Cardinality({k \in Keys : d[k] = v})]])}

Size(d) == {Outcome(d, [size |-> Cardinality(Present(d))])}

-----------------------------------------------------------------------------
ByValue == {"GetOrSet", "SetIfNotExist"}
ByFunc == {"GetOrSetFunc", "SetIfNotExistFunc"}
ByFuncLock == {"GetOrSetFuncLock", "SetIfNotExistFuncLock"}
Getters == {"GetOrSet", "GetOrSetFunc", "GetOrSetFuncLock"}
Composite == ByValue \cup ByFunc \cup ByFuncLock

Reads == {"Search", "Contains", "MapCopy", "Keys", "Values", "Size"}

Calls ==
       [name : ByValue \cup {"Set"}, on : Maps, key : Keys, val : Vals]
  \cup [name : ByFunc \cup ByFuncLock \cup {"Search", "Contains", "Remove"},
        on : Maps, key : Keys]
  \cup [name : {"Sets", "Replace"}, on : Maps, with : Entries]
  \cup [name : {"Removes"}, on : Maps, keys : SUBSET Keys]
  \cup [name : {"Pop", "Clear", "FilterEmpty", "MapCopy", "Keys", "Values", "Size",
                  "Iterator"}, on : Maps]
  \cup [name : {"Pops"}, on : Maps, size : -1 .. Cardinality(Keys) + 1]
  \cup [name : {"Merge"}, on : Maps, from : Maps]

NoCall == [name |-> "none"]

\* The outcomes of a call that is one critical section and nothing else.
Section(c, d) ==
  CASE c.name = "Set"         -> Set(d, c.key, c.val)
    [] c.name = "Sets"        -> Sets(d, c.with)
    [] c.name = "Replace"     -> Replace(c.with)
    [] c.name = "Clear"       -> Clear(d)
    [] c.name = "Removes"     -> Removes(d, c.keys)
    [] c.name = "Remove"      -> Remove(d, c.key)
    [] c.name = "FilterEmpty" -> FilterEmpty(d)
    [] c.name = "Pop"         -> Pop(d)
    [] c.name = "Pops"        -> Pops(d, c.size)
    [] c.name = "Search"      -> Search(d, c.key)
    [] c.name = "Contains"    -> Contains(d, c.key)
    [] c.name = "MapCopy"     -> MapCopy(d)
    [] c.name = "Keys"        -> KeyList(d)
    [] c.name = "Values"      -> Values(d)
    [] c.name = "Size"        -> Size(d)
=============================================================================
