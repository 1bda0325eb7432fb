------------------------------ MODULE Delivery ------------------------------
(***************************************************************************)
(* What sending promises per connection: the messages a client has         *)
(* accepted are written to its connection in that order, each at most once *)
(* and without a gap, until the stream ends; after that, never.            *)
(* Accepting a message is no promise that it is ever written.              *)
(***************************************************************************)
EXTENDS Integers, Sequences

CONSTANTS Clients, Messages

VARIABLES
  accepted,   \* the messages accepted for each client, in order
  delivered,  \* the messages written to each connection, in order
  ended       \* the clients whose stream has ended

vars == <<accepted, delivered, ended>>

Init ==
  /\ accepted = [c \in Clients |-> <<>>]
  /\ delivered = [c \in Clients |-> <<>>]
  /\ ended = {}

Accept(c) ==
  /\ \E m \in Messages : accepted' = [accepted EXCEPT ![c] = Append(@, m)]
  /\ UNCHANGED <<delivered, ended>>

Deliver(c) ==
  /\ c \notin ended
  /\ Len(delivered[c]) < Len(accepted[c])
  /\ delivered' = [delivered EXCEPT
                     ![c] = Append(@, accepted[c][Len(@) + 1])]
  /\ UNCHANGED <<accepted, ended>>

End(c) ==
  /\ ended' = ended \cup {c}
  /\ UNCHANGED <<accepted, delivered>>

Next == \E c \in Clients : Accept(c) \/ Deliver(c) \/ End(c)

Spec == Init /\ [][Next]_vars
=============================================================================
