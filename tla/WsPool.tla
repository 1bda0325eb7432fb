------------------------------- MODULE WsPool -------------------------------
(***************************************************************************)
(* The connection pool: the hub, the pumps of every connection and the     *)
(* user's goroutines, running concurrently.                                *)
(***************************************************************************)
EXTENDS Pumps, Hub, PublicApi

Next ==
  /\ crash = "none"
  /\ \/ \E c \in Clients : Writer(c) \/ Reader(c) \/ Handler(c)
     \/ HubRun
     \/ \E k \in Closers : Closer(k)
     \/ \E s \in Senders : Sender(s)

Spec == Init /\ [][Next]_vars

Alive(A) == crash = "none" /\ A

\* The Go scheduler runs every goroutine that can run.  Nobody has to connect,
\* to call Close, Send or Broadcast, or to send a frame; what was begun goes on.
\* A read ends because of the read deadline, a send because of its timer.
Fairness ==
  /\ WF_vars(Alive(HubRun))
  /\ \A c \in Clients :
       /\ WF_vars(Alive(Writer(c)))
       /\ WF_vars(Alive(Reader(c)))
       /\ WF_vars(Alive(hpc[c] # "new" /\ Handler(c)))
  /\ \A k \in Closers : WF_vars(Alive(kpc[k] # "idle" /\ Closer(k)))
  /\ \A s \in Senders : WF_vars(Alive(spc[s] # "idle" /\ Sender(s)))

FairSpec == Spec /\ Fairness

-----------------------------------------------------------------------------
(* Safety.                                                                 *)

\* "Hub maintains the set of active clients" (hub.go:14): a client in the
\* registry was opened under that identifier and its channels are open, except
\* while the hub itself is releasing it.  Broadcasts rely on it, and so does
\* the hub when it closes the channels.
RegistryUsable ==
  \A id \in Ids :
    LET c == clients[id]
    IN  c # None =>
          /\ IdOf[c] = id
          /\ obj[c].conn # "nil"
          /\ obj[c].chans = "open" \/ (hub.pc \in {"reset", "remove"} /\ hub.on = c)

\* The hub's goroutine, on which every connection depends, never panics: it
\* closes no channel twice, closes no nil channel, and a broadcast never meets
\* a closed channel, however reconnects, closes and broadcasts interleave.
HubNeverPanics == crash # "hub"

\* A connection whose identifier is taken over, or that was closed twice, never
\* loses its channels or its entry to a late unregister meant for another: what
\* the hub releases is closed (the comment at hub.go:54).
ReleasesOnlyClosed ==
  [][/\ \A c \in Clients : obj'[c].chans # obj[c].chans => obj[c].IsClose
     /\ \A id \in Ids : clients[id] # None /\ clients'[id] = None
                          => obj[clients[id]].IsClose]_vars

\* While writePump runs, every message put into sendCh has been written or is
\* still in it: none is lost, repeated or overtaken between select, len and
\* drain.  A pump that has ended leaves a prefix.
StreamIntact ==
  \A c \in Clients :
    IF wpc[c] \in {"exit", "done"}
    THEN \E n \in 0 .. Len(accepted[c]) : delivered[c] = SubSeq(accepted[c], 1, n)
    ELSE accepted[c] = delivered[c] \o buf[c]

\* End to end: what one sender sends by one path, Send or Broadcast, reaches a
\* connection in the order of the calls, at most once, and only a connection
\* it is for.
DeliveredAsSent ==
  \A c \in Clients : \A i, j \in DOMAIN delivered[c] :
    LET a == delivered[c][i]
        b == delivered[c][j]
    IN  /\ a.to \in {c, All} \cup Subs[c]
        /\ i < j /\ a.from = b.from /\ (a.to = c <=> b.to = c) => a.n < b.n

\* Callbacks set before OpenClient are in time: when the handler has returned and
\* the websocket has not been closed, the user's onOpen was called, whoever may be
\* in close meanwhile.  (IsClose does not tell: a Close between the two writes with
\* which OpenClient opens the client, publicApi.go:66 and :67, leaves it FALSE.)
OpenCallbackRuns ==
  \A c \in Clients :
    hpc[c] = "done" /\ obj[c].conn = "open" => <<c, "onOpen">> \in called

\* Whoever closes a connection and however often, the callbacks are not taken
\* away before the user's onClose has been called (client.go:249).
OnCloseBeforeClear ==
  [][\A c \in Clients : obj[c].bound /\ ~obj'[c].bound
                          => <<c, "onClose">> \in called]_vars

\* Runtime errors inside the pool reach ErrFun (init.go:8, init.go:13): a panic
\* in a pump does not end the process.
PumpPanicsAreCaught == crash # "readPump"

\* The pool delivers in order and without gaps.
Stream == INSTANCE Delivery WITH
  ended <- {c \in Clients : wpc[c] \in {"exit", "done"}}

ImplementsDelivery == Stream!Spec

-----------------------------------------------------------------------------
(* Liveness.                                                               *)

Crashed == crash # "none"

\* The hub, in the onError of a send of its own, waits at its full channel
\* unregister, from which nobody else receives: it waits for ever.
HubWaitsForItself == hub.pc = "unregister" /\ Len(unregister) = HubCap

\* readPump waits in the ping or pong handler for a writePump that has ended.
HandlerAbandoned(c) == rpc[c] \in {"ping", "pingNil", "pong"} /\ wpc[c] = "done"

\* Close returns although it sends on the hub's bounded channel, to whichever of
\* the user's goroutines, the pumps and the handlers has called it: only when the
\* hub waits for itself do they wait for ever.
CloseReturns ==
  LET Out(label) == label \notin CloseLabels \/ HubWaitsForItself \/ Crashed
  IN  /\ \A k \in Closers : kpc[k] \in CloseLabels ~> Out(kpc[k])
      /\ \A s \in Senders : spc[s] \in CloseLabels ~> Out(spc[s])
      /\ \A c \in Clients : rpc[c] \in CloseLabels ~> Out(rpc[c])
      /\ \A c \in Clients : hpc[c] \in CloseLabels ~> Out(hpc[c])

\* Send and Broadcast return, whatever has become of the connection and of its
\* sendCh, closed, nil or full; so does a Send whose onError closes the client,
\* unless the hub waits for itself.
SendReturns ==
  \A s \in Senders :
    spc[s] # "idle" ~> spc[s] = "idle" \/ HubWaitsForItself \/ Crashed

\* The hub gets back to its select from a release and from a broadcast, also one
\* that meets a full sendCh and whose onError closes the client: nothing but its
\* own full channel holds it for ever.
HubReturns ==
  hub.pc # "select" ~> hub.pc = "select" \/ HubWaitsForItself \/ Crashed

Opened(c) == hpc[c] \in {"opened", "registered", "started", "returned", "done"}

\* A connection that was opened and is marked closed, by whichever goroutine,
\* is really closed in the end, unless readPump, which has to do it, waits in a
\* handler for the writePump that has ended.
ConnectionTornDown ==
  \A c \in Clients :
    Opened(c) /\ obj[c].IsClose
      ~> obj[c].conn = "closed" \/ HandlerAbandoned(c) \/ Crashed

\* "the set of active clients" (hub.go:14): a closed client leaves the registry.
ClosedClientLeaves ==
  \A c \in Clients :
    clients[IdOf[c]] = c /\ obj[c].IsClose ~> clients[IdOf[c]] # c \/ Crashed
=============================================================================
