----------------------------- MODULE AtomicMap ------------------------------
(***************************************************************************)
(* What a StrAnyMap promises to goroutines that share it: every call takes *)
(* effect at one instant between its start and its return, and does what   *)
(* the method's comment says.  Where the code is known to do something     *)
(* else, the promise can be left open.                                     *)
(***************************************************************************)
EXTENDS MapCalls

CONSTANTS
  Callers,
  Initial,    \* what the maps may be created with
  Offered,    \* the calls that goroutines make
  Open        \* the cases left open, of "lost race" and "nil"

VARIABLES
  data,   \* the contents of each map
  call,   \* the call each goroutine is in
  ret,    \* what its last call returned
  free    \* the goroutines that have found their key to be free (a case left open)

vars == <<data, call, ret, free>>

\* A value passed in, or one that a function returns.
Offers(c) == IF c.name \in ByValue THEN {c.val} ELSE Vals

\* The value is set; left open: nil is not.
Puts(d, k, v) ==
  {[d EXCEPT ![k] = v]} \cup {e \in {d} : v = Nil /\ "nil" \in Open}

GetOrSet(c, d) ==
  IF d[c.key] # Absent THEN {Outcome(d, Value(d[c.key]))}
  ELSE UNION {{Outcome(e, Value(v)) : e \in Puts(d, c.key, v)} : v \in Offers(c)}

\* "It returns false if <key> exists".
SetIfNotExist(c, d) ==
  IF d[c.key] # Absent THEN {Outcome(d, Found(FALSE))}
  ELSE UNION {{Outcome(e, Found(TRUE)) : e \in Puts(d, c.key, v)} : v \in Offers(c)}

\* All entries, or those seen until the callback asked to stop.
Iterator(d) ==
  IF Present(d) = {} THEN {Outcome(d, Copy({}))}
  ELSE {Outcome(d, Copy(s)) : s \in (SUBSET Pairs(d)) \ {{}}}

\* What the call c can make of its map, and what it then returns.
Outcomes(c) ==
  LET d == data[c.on]
  IN  CASE c.name = "Merge"         -> Sets(d, data[c.from])
        [] c.name = "Iterator"      -> Iterator(d)
        [] c.name \in Getters       -> GetOrSet(c, d)
        [] c.name \in Composite \ Getters -> SetIfNotExist(c, d)
        [] OTHER                    -> Section(c, d)

Init ==
  /\ data \in Initial
  /\ call = [p \in Callers |-> NoCall]
  /\ ret = [p \in Callers |-> Nothing]
  /\ free = {}

Start(p) ==
  /\ call[p] = NoCall
  /\ \E c \in Offered : call' = [call EXCEPT ![p] = c]
  /\ ret' = [ret EXCEPT ![p] = Nothing]
  /\ UNCHANGED <<data, free>>

\* The call takes effect and returns.
Finish(p) ==
  /\ call[p] # NoCall
  /\ \E o \in Outcomes(call[p]) :
       /\ data' = [data EXCEPT ![call[p].on] = o.map]
       /\ ret' = [ret EXCEPT ![p] = o.ret]
  /\ call' = [call EXCEPT ![p] = NoCall]
  /\ free' = free \ {p}

-----------------------------------------------------------------------------
(* The case "lost race": SetIfNotExist, which finds its key to be free and *)
(* loses it to another goroutine, may answer true all the same.            *)

Look(p) ==
  /\ "lost race" \in Open
  /\ call[p].name \in Composite \ Getters
  /\ data[call[p].on][call[p].key] = Absent
  /\ free' = free \cup {p}
  /\ UNCHANGED <<data, call, ret>>

LoseRace(p) ==
  /\ p \in free
  /\ data[call[p].on][call[p].key] # Absent
  /\ call' = [call EXCEPT ![p] = NoCall]
  /\ ret' = [ret EXCEPT ![p] = Found(TRUE)]
  /\ free' = free \ {p}
  /\ UNCHANGED data

-----------------------------------------------------------------------------
Next == \E p \in Callers : Start(p) \/ Finish(p) \/ Look(p) \/ LoseRace(p)

Spec == Init /\ [][Next]_vars
=============================================================================
