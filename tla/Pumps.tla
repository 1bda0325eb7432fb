------------------------------- MODULE Pumps --------------------------------
(***************************************************************************)
(* The two goroutines of an open connection, Client.writePump and          *)
(* Client.readPump, with the ping and pong handlers that readPump runs     *)
(* inside ReadMessage.                                                     *)
(*                                                                         *)
(* The connection itself is external: a read returns a frame or an error   *)
(* (the read deadline makes it return), a write succeeds only before       *)
(* conn.Close and may fail at any time (the peer is gone, the write        *)
(* deadline passed).                                                       *)
(***************************************************************************)
EXTENDS WsState

\* c.conn.WriteMessage returns without an error if ok.
WriteReturns(c, ok) == ok => obj[c].conn = "open"

-----------------------------------------------------------------------------
(* writePump.                                                              *)

WriterLoop(c) ==
  /\ wpc[c] = "loop"
  /\ wpc' = [wpc EXCEPT ![c] = IF obj[c].IsClose THEN "exit" ELSE "eval"]
  /\ UNCHANGED <<obj, buf, delivered, left, rpc>>

\* The select reads c.sendCh and c.ping once; a nil channel is never ready.
WriterEval(c) ==
  /\ wpc[c] = "eval"
  /\ wpc' = [wpc EXCEPT ![c] = IF obj[c].chans = "nil" THEN "selectNil"
                                                       ELSE "select"]
  /\ UNCHANGED <<obj, buf, delivered, left, rpc>>

\* Mutant: the newest message is taken.
TransmitNewest(c, next) ==
  /\ buf[c] # <<>>
  /\ buf' = [buf EXCEPT ![c] = SubSeq(@, 1, Len(@) - 1)]
  /\ \E ok \in BOOLEAN :
       /\ WriteReturns(c, ok)
       /\ delivered' = IF ok THEN [delivered EXCEPT ![c] = Append(@, buf[c][Len(buf[c])])]
                             ELSE delivered
       /\ wpc' = [wpc EXCEPT ![c] = IF ok THEN next ELSE "exit"]

\* Mutant: a failed write does not end the pump.
TransmitGoesOn(c, next) ==
  /\ buf[c] # <<>>
  /\ buf' = [buf EXCEPT ![c] = Tail(@)]
  /\ \E ok \in BOOLEAN :
       /\ WriteReturns(c, ok)
       /\ delivered' = IF ok THEN [delivered EXCEPT ![c] = Append(@, Head(buf[c]))]
                             ELSE delivered
       /\ wpc' = [wpc EXCEPT ![c] = next]

\* Receive the oldest message and write it.
Transmit(c, next) ==
  /\ buf[c] # <<>>
  /\ buf' = [buf EXCEPT ![c] = Tail(@)]
  /\ \E ok \in BOOLEAN :
       /\ WriteReturns(c, ok)
       /\ delivered' = IF ok THEN [delivered EXCEPT ![c] = Append(@, Head(buf[c]))]
                             ELSE delivered
       /\ wpc' = [wpc EXCEPT ![c] = IF ok THEN next ELSE "exit"]

WriterReceive(c) ==
  /\ wpc[c] = "select"
  /\ Transmit(c, "len")
  /\ UNCHANGED <<obj, left, rpc>>

\* n := len(c.sendCh), which is 0 when the field is nil by now.
WriterLen(c) ==
  /\ wpc[c] = "len"
  /\ left' = [left EXCEPT ![c] = IF obj[c].chans = "nil" THEN 0 ELSE Len(buf[c])]
  /\ wpc' = [wpc EXCEPT ![c] = "drain"]
  /\ UNCHANGED <<obj, buf, delivered, rpc>>

\* Mutant: one message more than n is drained.
WriterDrainOneMore(c) ==
  /\ wpc[c] = "drain"
  /\ \/ /\ left[c] <= 0
        /\ wpc' = [wpc EXCEPT ![c] = "loop"]
        /\ UNCHANGED <<buf, delivered, left>>
     \/ /\ left[c] >= 0 /\ obj[c].chans # "nil"
        /\ Transmit(c, "drain")
        /\ left' = [left EXCEPT ![c] = @ - 1]
  /\ UNCHANGED <<obj, rpc>>

\* The field c.sendCh is read again for each message: if the hub has set it to
\* nil, the receive blocks forever.
WriterDrain(c) ==
  /\ wpc[c] = "drain"
  /\ \/ /\ left[c] = 0
        /\ wpc' = [wpc EXCEPT ![c] = "loop"]
        /\ UNCHANGED <<buf, delivered, left>>
     \/ /\ left[c] > 0 /\ obj[c].chans # "nil"
        /\ Transmit(c, "drain")
        /\ left' = [left EXCEPT ![c] = @ - 1]
  /\ UNCHANGED <<obj, rpc>>

\* The hub has closed the channels: an empty sendCh ends the pump after a
\* close message, a closed ping is passed over.
WriterChansClosed(c) ==
  /\ wpc[c] = "select" /\ obj[c].chans # "open"
  /\ \/ buf[c] = <<>> /\ wpc' = [wpc EXCEPT ![c] = "exit"]
     \/ wpc' = [wpc EXCEPT ![c] = "loop"]
  /\ UNCHANGED <<obj, buf, delivered, left, rpc>>

\* The pump takes 1 from the unbuffered channel on which the ping or the pong
\* handler waits, and answers the peer with a pong or a ping.
WriterControl(c) ==
  /\ \/ rpc[c] = "ping" /\ wpc[c] = "select" /\ obj[c].chans = "open"
     \/ rpc[c] = "pong" /\ wpc[c] \in {"select", "selectNil"}
  /\ rpc' = [rpc EXCEPT ![c] = "read"]
  /\ \E ok \in BOOLEAN :
       /\ WriteReturns(c, ok)
       /\ wpc' = [wpc EXCEPT ![c] = IF ok THEN "loop" ELSE "exit"]
  /\ UNCHANGED <<obj, buf, delivered, left>>

\* The deferred function marks the client as closed; it leaves conn alone.
WriterExit(c) ==
  /\ wpc[c] = "exit"
  /\ obj' = [obj EXCEPT ![c].IsClose = TRUE]
  /\ wpc' = [wpc EXCEPT ![c] = "done"]
  /\ UNCHANGED <<buf, delivered, left, rpc>>

Writer(c) ==
  /\ \/ WriterLoop(c) \/ WriterEval(c) \/ WriterReceive(c) \/ WriterLen(c)
     \/ WriterDrain(c) \/ WriterChansClosed(c) \/ WriterControl(c)
     \/ WriterExit(c)
  /\ UNCHANGED <<called, accepted, frames, panicking, userVars, chanVars,
                 hubVars, crash>>

-----------------------------------------------------------------------------
(* readPump.                                                               *)

\* Mutant: a pump that finds the client closed does not run c.close().
ReaderLoopNoClose(c) ==
  /\ rpc[c] = "loop"
  /\ rpc' = [rpc EXCEPT ![c] = IF obj[c].IsClose THEN "done" ELSE "read"]
  /\ UNCHANGED <<objVars, frames, panicking, unregister, crash>>

ReaderLoop(c) ==
  /\ rpc[c] = "loop"
  /\ rpc' = [rpc EXCEPT ![c] = IF obj[c].IsClose THEN "mark" ELSE "read"]
  /\ UNCHANGED <<objVars, frames, panicking, unregister, crash>>

ReadFails(c) ==
  /\ rpc[c] = "read"
  /\ rpc' = [rpc EXCEPT ![c] = "mark"]
  /\ UNCHANGED <<objVars, frames, panicking, unregister, crash>>

\* A frame arrives.  Data goes to the pool of callbacks and ends ReadMessage;
\* the handlers of ping and pong run inside it and send on a channel that
\* writePump receives from.
ReadFrame(c) ==
  /\ rpc[c] = "read"
  /\ frames[c] < MaxFrames
  /\ frames' = [frames EXCEPT ![c] = @ + 1]
  /\ \E kind \in FrameKinds :
       rpc' = [rpc EXCEPT ![c] =
                 CASE kind = "data" -> "loop"
                   [] kind = "pong" -> "pong"
                   [] kind = "ping" -> IF obj[c].chans = "nil" THEN "pingNil"
                                                               ELSE "ping"]
  /\ UNCHANGED <<objVars, panicking, unregister, crash>>

\* The hub closes the channel on which the ping handler sends.  The deferred
\* function runs c.close(); its dump() recovers nothing, because recover has to
\* be called by the deferred function itself.
PingPanics(c) ==
  /\ rpc[c] = "ping" /\ obj[c].chans # "open"
  /\ panicking' = panicking \cup {c}
  /\ rpc' = [rpc EXCEPT ![c] = "mark"]
  /\ UNCHANGED <<objVars, frames, unregister, crash>>

ReaderClose(c) ==
  /\ rpc[c] \in CloseLabels
  /\ CloseStep(c, rpc[c])
  /\ rpc' = [rpc EXCEPT ![c] = AfterClose[@]]
  /\ UNCHANGED <<frames, panicking>>

ReaderDies(c) ==
  /\ rpc[c] = "done" /\ c \in panicking
  /\ crash' = "readPump"
  /\ UNCHANGED <<objVars, rpc, frames, panicking, unregister>>

Reader(c) ==
  /\ \/ ReaderLoop(c) \/ ReadFails(c) \/ ReadFrame(c) \/ PingPanics(c)
     \/ ReaderClose(c) \/ ReaderDies(c)
  /\ UNCHANGED <<streamVars, wpc, left, userVars, register, broadcast, hubVars>>
=============================================================================
