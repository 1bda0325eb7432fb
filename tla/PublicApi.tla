----------------------------- MODULE PublicApi ------------------------------
(***************************************************************************)
(* What the user's goroutines do with wsPool: the http handler of each     *)
(* connection (NewClient, the On... setters, OpenClient), Close, Send and  *)
(* Broadcast.                                                              *)
(***************************************************************************)
EXTENDS WsState

-----------------------------------------------------------------------------
(* The http handler.                                                       *)

\* NewClient looks the identifier up and closes a client that is still open.
NewClient(c) ==
  /\ hpc[c] = "new"
  /\ LET oldclient == clients[IdOf[c]]
     IN  IF oldclient # None /\ ~obj[oldclient].IsClose
         THEN /\ hpc' = [hpc EXCEPT ![c] = "mark"]
              /\ old' = [old EXCEPT ![c] = oldclient]
         ELSE hpc' = [hpc EXCEPT ![c] = "made"] /\ UNCHANGED old
  /\ UNCHANGED <<objVars, wpc, rpc, register, unregister, crash>>

CloseOld(c) ==
  /\ hpc[c] \in CloseLabels
  /\ CloseStep(old[c], hpc[c])
  /\ IF hpc[c] = "unregister"
     THEN hpc' = [hpc EXCEPT ![c] = "made"] /\ old' = [old EXCEPT ![c] = None]
     ELSE hpc' = [hpc EXCEPT ![c] = AfterClose[@]] /\ UNCHANGED old
  /\ UNCHANGED <<wpc, rpc, register>>

\* client.OnOpen(...), client.OnClose(...), ...: before OpenClient or after it.
SetCallbacks(c) ==
  /\ hpc[c] = IF BindFirst THEN "made" ELSE "returned"
  /\ obj' = [obj EXCEPT ![c].bound = TRUE]
  /\ hpc' = [hpc EXCEPT ![c] = IF BindFirst THEN "ready" ELSE "done"]
  /\ UNCHANGED <<called, old, wpc, rpc, register, unregister, crash>>

\* OpenClient upgrades the connection, c.conn=conn, or fails.
Upgrade(c) ==
  /\ hpc[c] = IF BindFirst THEN "ready" ELSE "made"
  /\ \/ hpc' = [hpc EXCEPT ![c] = "failed"] /\ UNCHANGED obj
     \/ /\ hpc' = [hpc EXCEPT ![c] = "upgraded"]
        /\ obj' = [obj EXCEPT ![c].conn = "open"]
  /\ UNCHANGED <<called, old, wpc, rpc, register, unregister, crash>>

\* c.IsClose=false, although a Close may have marked the client meanwhile.
MarkOpen(c) ==
  /\ hpc[c] = "upgraded"
  /\ obj' = [obj EXCEPT ![c].IsClose = FALSE]
  /\ hpc' = [hpc EXCEPT ![c] = "opened"]
  /\ UNCHANGED <<called, old, wpc, rpc, register, unregister, crash>>

Register(c) ==
  /\ hpc[c] = "opened"
  /\ Len(register) < HubCap
  /\ register' = Append(register, c)
  /\ hpc' = [hpc EXCEPT ![c] = "registered"]
  /\ UNCHANGED <<objVars, old, wpc, rpc, unregister, crash>>

StartPumps(c) ==
  /\ hpc[c] = "registered"
  /\ wpc' = [wpc EXCEPT ![c] = "loop"]
  /\ rpc' = [rpc EXCEPT ![c] = "loop"]
  /\ hpc' = [hpc EXCEPT ![c] = "started"]
  /\ UNCHANGED <<objVars, old, register, unregister, crash>>

\* OpenClient ends with c.onOpen().
CallOnOpen(c) ==
  /\ hpc[c] = "started"
  /\ called' = IF obj[c].bound THEN called \cup {<<c, "onOpen">>} ELSE called
  /\ hpc' = [hpc EXCEPT ![c] = IF BindFirst THEN "done" ELSE "returned"]
  /\ UNCHANGED <<obj, old, wpc, rpc, register, unregister, crash>>

Handler(c) ==
  /\ \/ NewClient(c) \/ CloseOld(c) \/ SetCallbacks(c) \/ Upgrade(c)
     \/ MarkOpen(c) \/ Register(c) \/ StartPumps(c) \/ CallOnOpen(c)
  /\ UNCHANGED <<streamVars, left, frames, panicking, kpc, kon, spc, msg, calls,
                 broadcast, hubVars>>

-----------------------------------------------------------------------------
(* Close.                                                                  *)

\* The user holds the client's pointer once NewClient has returned it.
Close(k) ==
  /\ kpc[k] = "idle"
  /\ \E c \in Clients :
       /\ hpc[c] \notin {"new"} \cup CloseLabels
       /\ CloseEarly \/ obj[c].conn # "nil"
       /\ kon' = [kon EXCEPT ![k] = c]
  /\ kpc' = [kpc EXCEPT ![k] = "mark"]
  /\ UNCHANGED <<objVars, unregister, crash>>

CloseGoesOn(k) ==
  /\ kpc[k] \in CloseLabels
  /\ CloseStep(kon[k], kpc[k])
  /\ kpc' = [kpc EXCEPT ![k] = AfterClose[@]]
  /\ UNCHANGED kon

Closer(k) ==
  /\ Close(k) \/ CloseGoesOn(k)
  /\ UNCHANGED <<streamVars, pumpVars, hpc, old, spc, msg, calls, register,
                 broadcast, hubVars>>

-----------------------------------------------------------------------------
(* Send and Broadcast.                                                     *)

Call(s, pc, to) ==
  /\ spc[s] = "idle"
  /\ calls[s] < MaxSends
  /\ calls' = [calls EXCEPT ![s] = @ + 1]
  /\ msg' = [msg EXCEPT ![s] = [from |-> s, n |-> calls'[s], to |-> to]]
  /\ spc' = [spc EXCEPT ![s] = pc]
  /\ UNCHANGED <<objVars, buf, accepted, unregister, broadcast, crash>>

\* c.Send, for a client whose NewClient has returned.  A closed client is an
\* error that Send returns and does not tell onError.
Send(s) ==
  \E c \in Clients \cap Targets :
    hpc[c] \notin {"new"} \cup CloseLabels /\ ~obj[c].IsClose /\ Call(s, "check", c)

SendGoesOn(s) ==
  /\ spc[s] \in SendLabels
  /\ \E to \in SendLabels \cup {"idle", "mark"} :
       /\ SendStep(msg[s].to, msg[s], spc[s], to, "send")
       /\ spc' = [spc EXCEPT ![s] = to]
       /\ msg' = IF to = "idle" THEN [msg EXCEPT ![s] = None] ELSE msg
  /\ UNCHANGED <<objVars, calls, unregister, broadcast>>

\* The onError that send has called closes the client.
SendErrorCloses(s) ==
  /\ spc[s] \in CloseLabels
  /\ CloseStep(msg[s].to, spc[s])
  /\ IF spc[s] = "unregister"
     THEN spc' = [spc EXCEPT ![s] = "idle"] /\ msg' = [msg EXCEPT ![s] = None]
     ELSE spc' = [spc EXCEPT ![s] = AfterClose[@]] /\ UNCHANGED msg
  /\ UNCHANGED <<buf, accepted, calls, broadcast>>

\* Broadcast without a channel is for All; of several channels the first one
\* is used.
Broadcast(s) == \E ch \in (Channels \cup {All}) \cap Targets : Call(s, "cast", ch)

\* brostcastMsg puts the message into the hub's channel or times out.
BroadcastGoesOn(s) ==
  /\ spc[s] = "cast"
  /\ \/ Len(broadcast) < HubCap /\ broadcast' = Append(broadcast, msg[s])
     \/ UNCHANGED broadcast
  /\ spc' = [spc EXCEPT ![s] = "idle"]
  /\ msg' = [msg EXCEPT ![s] = None]
  /\ UNCHANGED <<objVars, buf, accepted, calls, unregister, crash>>

Sender(s) ==
  /\ \/ Send(s) \/ SendGoesOn(s) \/ SendErrorCloses(s)
     \/ Broadcast(s) \/ BroadcastGoesOn(s)
  /\ UNCHANGED <<delivered, pumpVars, hpc, old, kpc, kon, register, hubVars>>
=============================================================================
