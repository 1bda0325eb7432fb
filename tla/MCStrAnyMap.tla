---------------------------- MODULE MCStrAnyMap -----------------------------
(* An instance of StrAnyMap for TLC. *)
EXTENDS StrAnyMap, TLC

CONSTANTS m1, m2, a, b, v

\* m1 holds anything but a nil b, m2 one entry.
MCInitial ==
  {d \in [Maps -> Entries] :
     d[m1][b] # Nil /\ d[m2] = [k \in Keys |-> IF k = a THEN v ELSE Absent]}

\* Every method on m1, with a few arguments.  m2 is merged into m1 while it is
\* iterated and cleared.
MCOffered ==
  {c \in Calls :
     \/ /\ c.on = m1
        /\ "key" \in DOMAIN c => c.key = a
        /\ "val" \in DOMAIN c => (c.name = "GetOrSet" \/ c.val = v)
        /\ "with" \in DOMAIN c => c.with[a] = Absent /\ c.with[b] = v
        /\ "keys" \in DOMAIN c => c.keys = Keys
        /\ "size" \in DOMAIN c => c.size \in {-1, 2}
     \/ c.on = m2 /\ c.name \in {"Clear", "Iterator"}}

Symmetry == Permutations(Callers)
=============================================================================
