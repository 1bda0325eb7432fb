-------------------------------- MODULE Hub ---------------------------------
(***************************************************************************)
(* hub.run, the one goroutine that changes the registry of clients, closes *)
(* the channels of a client that has gone and delivers broadcasts.  The    *)
(* select takes any of the three channels that has something.              *)
(***************************************************************************)
EXTENDS WsState

\* Mutant: whatever client the identifier stands for now is released.
HubUnregisterAny ==
  /\ hub.pc = "select" /\ unregister # <<>>
  /\ unregister' = Tail(unregister)
  /\ LET c == clients[Head(unregister)]
     IN  hub' = IF c # None THEN [hub EXCEPT !.pc = "close", !.on = c] ELSE hub
  /\ UNCHANGED <<obj, buf, accepted, register, broadcast, clients, crash>>

\* A client is released only if it is closed: by the time its identifier is
\* taken from unregister the registry may hold the client that replaced it.
HubUnregister ==
  /\ hub.pc = "select" /\ unregister # <<>>
  /\ unregister' = Tail(unregister)
  /\ LET c == clients[Head(unregister)]
     IN  hub' = IF c # None /\ obj[c].IsClose
                THEN [hub EXCEPT !.pc = "close", !.on = c] ELSE hub
  /\ UNCHANGED <<obj, buf, accepted, register, broadcast, clients, crash>>

\* close(client.sendCh), close(client.ping): a panic unless both are open.
HubClose ==
  /\ hub.pc = "close"
  /\ IF obj[hub.on].chans = "open"
     THEN /\ obj' = [obj EXCEPT ![hub.on].chans = "closed"]
          /\ hub' = [hub EXCEPT !.pc = "reset"]
          /\ UNCHANGED crash
     ELSE crash' = "hub" /\ UNCHANGED <<obj, hub>>
  /\ UNCHANGED <<buf, accepted, chanVars, clients>>

\* client.sendCh = nil, client.ping = nil.
HubClear ==
  /\ hub.pc = "reset"
  /\ obj' = [obj EXCEPT ![hub.on].chans = "nil"]
  /\ hub' = [hub EXCEPT !.pc = "remove"]
  /\ UNCHANGED <<buf, accepted, chanVars, clients, crash>>

\* Mutant: the entry stays in the map.
HubRemoveForgotten ==
  /\ hub.pc = "remove"
  /\ hub' = [hub EXCEPT !.pc = "select", !.on = None]
  /\ UNCHANGED <<obj, buf, accepted, chanVars, clients, crash>>

HubRemove ==
  /\ hub.pc = "remove"
  /\ clients' = [clients EXCEPT ![IdOf[hub.on]] = None]
  /\ hub' = [hub EXCEPT !.pc = "select", !.on = None]
  /\ UNCHANGED <<obj, buf, accepted, chanVars, crash>>

HubRegister ==
  /\ hub.pc = "select" /\ register # <<>>
  /\ register' = Tail(register)
  /\ clients' = [clients EXCEPT ![IdOf[Head(register)]] = Head(register)]
  /\ UNCHANGED <<obj, buf, accepted, unregister, broadcast, hub, crash>>

HubBroadcast ==
  /\ hub.pc = "select" /\ broadcast # <<>>
  /\ broadcast' = Tail(broadcast)
  /\ hub' = [hub EXCEPT !.pc = "scan", !.msg = Head(broadcast),
                        !.todo = {id \in Ids : clients[id] # None}]
  /\ UNCHANGED <<obj, buf, accepted, register, unregister, clients, crash>>

\* Mutant: an entry can be visited again.
HubVisitAgain ==
  /\ hub.pc = "scan"
  /\ \E id \in hub.todo :
       LET c == clients[id]
           receives == ~obj[c].IsClose /\ (hub.msg.to = All \/ hub.msg.to \in Subs[c])
       IN  hub' = [hub EXCEPT !.on = IF receives THEN c ELSE @,
                              !.pc = IF receives THEN "check" ELSE @]
  /\ UNCHANGED <<obj, buf, accepted, chanVars, clients, crash>>

\* Iterator visits the entries of the map in any order.  A closed client and
\* one that has not subscribed to the message's channel are passed over.
HubVisit ==
  /\ hub.pc = "scan"
  /\ \E id \in hub.todo :
       LET c == clients[id]
           receives == ~obj[c].IsClose /\ (hub.msg.to = All \/ hub.msg.to \in Subs[c])
       IN  hub' = [hub EXCEPT !.todo = @ \ {id},
                              !.on = IF receives THEN c ELSE @,
                              !.pc = IF receives THEN "check" ELSE @]
  /\ UNCHANGED <<obj, buf, accepted, chanVars, clients, crash>>

\* client.send(message.Msg) in the hub's goroutine.
HubSend ==
  /\ hub.pc \in SendLabels
  /\ \E to \in SendLabels \cup {"idle", "mark"} :
       /\ SendStep(hub.on, hub.msg, hub.pc, to, "hub")
       /\ hub' = IF to = "idle" THEN [hub EXCEPT !.pc = "scan", !.on = None]
                                ELSE [hub EXCEPT !.pc = to]
  /\ UNCHANGED <<obj, chanVars, clients>>

\* The onError that send has called closes the client, in the hub's goroutine
\* too: its last statement sends to the hub itself.
HubErrorCloses ==
  /\ hub.pc \in CloseLabels
  /\ CloseStep(hub.on, hub.pc)
  /\ hub' = IF hub.pc = "unregister" THEN [hub EXCEPT !.pc = "scan", !.on = None]
                                     ELSE [hub EXCEPT !.pc = AfterClose[@]]
  /\ UNCHANGED <<buf, accepted, register, broadcast, clients>>

HubScanned ==
  /\ hub.pc = "scan" /\ hub.todo = {}
  /\ hub' = [hub EXCEPT !.pc = "select", !.msg = None]
  /\ UNCHANGED <<obj, buf, accepted, chanVars, clients, crash>>

HubRun ==
  /\ \/ /\ \/ HubUnregister \/ HubClose \/ HubClear \/ HubRemove \/ HubRegister
           \/ HubBroadcast \/ HubVisit \/ HubSend \/ HubScanned
        /\ UNCHANGED called
     \/ HubErrorCloses
  /\ UNCHANGED <<delivered, pumpVars, userVars>>
=============================================================================
