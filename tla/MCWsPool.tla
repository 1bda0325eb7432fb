------------------------------ MODULE MCWsPool ------------------------------
(* Instances of WsPool for TLC. *)
EXTENDS WsPool, TLC

CONSTANTS c1, c2, x, news, sport

\* Every connection uses the same identifier: with two, a reconnect.
SameId == [c \in Clients |-> x]

\* c1 listens to the news and not to sport.
NewsReader == (c1 :> {news})
NobodySubscribes == [c \in Clients |-> {}]

\* Connections with one identifier and the same subscriptions are
\* interchangeable.
TwoClients == Permutations(Clients)
=============================================================================
