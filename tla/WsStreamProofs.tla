--------------------------- MODULE WsStreamProofs ---------------------------
(***************************************************************************)
(* Proofs about the stream of each connection of WsPool: what was put into *)
(* sendCh is what was written, in the same order and without a gap, and    *)
(* WsPool implements Delivery; and messages arrive in the order in which   *)
(* they were sent.                                                         *)
(*                                                                         *)
(* StreamIntact is not inductive: it has to be known that a writePump is   *)
(* started once, so that the stream of a connection whose pump has ended   *)
(* is not taken up again.                                                  *)
(***************************************************************************)
EXTENDS WsPoolProofs, SequenceLemmas

Ended == {c \in Clients : wpc[c] \in {"exit", "done"}}

\* OpenClient starts the pumps, and starts them once.
PumpNotBegun ==
  \A c \in Clients : hpc[c] \notin {"started", "returned", "done"} => wpc[c] = "none"

-----------------------------------------------------------------------------
(* A stream is changed by send, which puts a message at the end of sendCh, *)
(* and by the writePump, which takes the oldest one and writes it or fails *)
(* and ends.  No other step takes a stream back.                           *)

Put(c, m) ==
  /\ buf' = [buf EXCEPT ![c] = Append(@, m)]
  /\ accepted' = [accepted EXCEPT ![c] = Append(@, m)]
  /\ UNCHANGED <<delivered, Ended>>

Written(c) ==
  /\ buf[c] # <<>>
  /\ c \notin Ended
  /\ buf' = [buf EXCEPT ![c] = Tail(@)]
  /\ delivered' = [delivered EXCEPT ![c] = Append(@, Head(buf[c]))]
  /\ UNCHANGED <<accepted, Ended>>

WriteFailed(c) ==
  /\ buf[c] # <<>>
  /\ c \notin Ended
  /\ buf' = [buf EXCEPT ![c] = Tail(@)]
  /\ Ended' = Ended \cup {c}
  /\ UNCHANGED <<accepted, delivered>>

StreamStays ==
  /\ UNCHANGED streamVars
  /\ Ended' = Ended \/ \E c \in Clients : Ended' = Ended \cup {c}

StreamStep ==
  \/ \E c \in Clients, m \in Messages : Put(c, m)
  \/ \E c \in Clients : Written(c) \/ WriteFailed(c)
  \/ StreamStays

\* A step of send puts the message into sendCh or leaves the streams alone.
LEMMA SendStream ==
  ASSUME NEW c \in Clients, NEW m \in Messages, NEW at, NEW to, NEW cause,
         SendStep(c, m, at, to, cause), UNCHANGED <<delivered, wpc>>
  PROVE  StreamStep
<1>1. CASE SendPut(c, m, at, to)
  <2>1. Put(c, m)
    BY <1>1 DEF SendPut, Put, Ended
  <2> QED
    BY <2>1 DEF StreamStep
<1>2. CASE ~SendPut(c, m, at, to)
  <2>1. StreamStays
    BY <1>2 DEF SendStep, SendCheck, SendEval, SendPanics, SendTimeout, StreamStays,
                streamVars, Ended
  <2> QED
    BY <2>1 DEF StreamStep
<1> QED
  BY <1>1, <1>2

LEMMA TransmitStream ==
  ASSUME TypeInv, NEW c \in Clients, NEW next \in {"len", "drain"}, Transmit(c, next),
         wpc[c] \notin {"exit", "done"}, UNCHANGED accepted
  PROVE  StreamStep
<1>1. wpc \in [Clients -> {"none", "loop", "eval", "select", "selectNil", "len",
                           "drain", "exit", "done"}]
  BY DEF TypeInv, TypeOK
<1>2. PICK ok \in BOOLEAN :
        /\ delivered' = IF ok THEN [delivered EXCEPT ![c] = Append(@, Head(buf[c]))]
                              ELSE delivered
        /\ wpc' = [wpc EXCEPT ![c] = IF ok THEN next ELSE "exit"]
  BY DEF Transmit
<1>3. c \notin Ended /\ buf[c] # <<>> /\ buf' = [buf EXCEPT ![c] = Tail(@)]
  BY DEF Transmit, Ended
<1>4. CASE ok
  <2>1. Ended' = Ended
    BY <1>1, <1>2, <1>4 DEF Ended
  <2>2. Written(c)
    BY <1>2, <1>3, <1>4, <2>1 DEF Written
  <2> QED
    BY <2>2 DEF StreamStep
<1>5. CASE ~ok
  <2>1. Ended' = Ended \cup {c}
    BY <1>1, <1>2, <1>5 DEF Ended
  <2>2. WriteFailed(c)
    BY <1>2, <1>3, <1>5, <2>1 DEF WriteFailed
  <2> QED
    BY <2>2 DEF StreamStep
<1> QED
  BY <1>4, <1>5

LEMMA WriterStream ==
  ASSUME TypeInv, NEW c \in Clients, Writer(c)
  PROVE  StreamStep
<1>1. /\ wpc \in [Clients -> {"none", "loop", "eval", "select", "selectNil", "len",
                              "drain", "exit", "done"}]
      /\ UNCHANGED accepted
  BY DEF TypeInv, TypeOK, Writer
<1>2. ASSUME WriterReceive(c) PROVE StreamStep
  BY <1>1, <1>2, TransmitStream DEF WriterReceive
<1>3. ASSUME WriterDrain(c) PROVE StreamStep
  <2>1. CASE Transmit(c, "drain")
    BY <1>1, <1>3, <2>1, TransmitStream DEF WriterDrain
  <2>2. CASE ~Transmit(c, "drain")
    <3>1. StreamStays
      BY <1>1, <1>3, <2>2 DEF WriterDrain, StreamStays, streamVars, Ended
    <3> QED
      BY <3>1 DEF StreamStep
  <2> QED
    BY <2>1, <2>2
<1>4. ASSUME \/ WriterLoop(c) \/ WriterEval(c) \/ WriterLen(c) \/ WriterChansClosed(c)
             \/ WriterControl(c) \/ WriterExit(c)
      PROVE  StreamStays
  <2>1. UNCHANGED streamVars
    BY <1>1, <1>4
       DEF WriterLoop, WriterEval, WriterLen, WriterChansClosed, WriterControl, WriterExit,
           streamVars
  <2>2. PICK l \in {"loop", "eval", "select", "selectNil", "drain", "exit", "done"} :
          /\ wpc' = [wpc EXCEPT ![c] = l]
          /\ l \in {"exit", "done"} \/ wpc[c] \notin {"exit", "done"}
    BY <1>4
       DEF WriterLoop, WriterEval, WriterLen, WriterChansClosed, WriterControl, WriterExit
  <2>3. CASE l \in {"exit", "done"}
    <3>1. Ended' = Ended \cup {c}
      BY <1>1, <2>2, <2>3 DEF Ended
    <3> QED
      BY <2>1, <3>1 DEF StreamStays
  <2>4. CASE l \notin {"exit", "done"}
    <3>1. Ended' = Ended
      BY <1>1, <2>2, <2>4 DEF Ended
    <3> QED
      BY <2>1, <3>1 DEF StreamStays
  <2> QED
    BY <2>3, <2>4
<1> QED
  BY <1>2, <1>3, <1>4 DEF Writer, StreamStep

LEMMA HandlerStream ==
  ASSUME TypeInv, PumpNotBegun, NEW c \in Clients, Handler(c)
  PROVE  StreamStep
<1>1. UNCHANGED streamVars
  BY DEF Handler
<1>2. CASE StartPumps(c)
  <2>1. wpc' = [wpc EXCEPT ![c] = "loop"] /\ wpc[c] = "none"
    BY <1>2 DEF StartPumps, PumpNotBegun
  <2>2. Ended' = Ended
    BY <2>1 DEF Ended, TypeInv, TypeOK
  <2> QED
    BY <1>1, <2>2 DEF StreamStep, StreamStays
<1>3. CASE ~StartPumps(c)
  <2>1. UNCHANGED wpc
    BY <1>3 DEF Handler, NewClient, CloseOld, SetCallbacks, Upgrade, MarkOpen, Register,
              CallOnOpen
  <2> QED
    BY <1>1, <2>1 DEF StreamStep, StreamStays, Ended
<1> QED
  BY <1>2, <1>3

LEMMA HubStream ==
  ASSUME TypeInv, HubRun
  PROVE  StreamStep
<1>1. UNCHANGED <<delivered, wpc>>
  BY DEF HubRun, pumpVars
<1>2. CASE HubSend
  <2>1. PICK to \in SendLabels \cup {"idle", "mark"} :
          SendStep(hub.on, hub.msg, hub.pc, to, "hub")
    BY <1>2 DEF HubSend
  <2>2. hub.on \in Clients /\ hub.msg \in Messages
    BY <1>2 DEF HubSend, TypeInv, LocalsOK, SendLabels
  <2> QED
    BY <1>1, <2>1, <2>2, SendStream
<1>3. CASE ~HubSend
  <2>1. UNCHANGED <<buf, accepted>>
    BY <1>3 DEF HubRun, HubUnregister, HubClose, HubClear, HubRemove, HubRegister,
                HubBroadcast, HubVisit, HubScanned, HubErrorCloses
  <2> QED
    BY <1>1, <2>1 DEF StreamStep, StreamStays, streamVars, Ended
<1> QED
  BY <1>2, <1>3

LEMMA SenderStream ==
  ASSUME TypeInv, NEW s \in Senders, Sender(s)
  PROVE  StreamStep
<1>1. UNCHANGED <<delivered, wpc>>
  BY DEF Sender, pumpVars
<1>2. CASE SendGoesOn(s)
  <2>1. PICK to \in SendLabels \cup {"idle", "mark"} :
          SendStep(msg[s].to, msg[s], spc[s], to, "send")
    BY <1>2 DEF SendGoesOn
  <2>2. msg[s].to \in Clients /\ msg[s] \in Messages
    BY <1>2 DEF SendGoesOn, TypeInv, LocalsOK, SendLabels
  <2> QED
    BY <1>1, <2>1, <2>2, SendStream
<1>3. CASE ~SendGoesOn(s)
  <2>1. UNCHANGED <<buf, accepted>>
    BY <1>3 DEF Sender, Send, SendErrorCloses, Broadcast, BroadcastGoesOn, Call
  <2> QED
    BY <1>1, <2>1 DEF StreamStep, StreamStays, streamVars, Ended
<1> QED
  BY <1>2, <1>3

\* Every step of the pool does one of these to the streams.
LEMMA EveryStreamStep ==
  ASSUME TypeInv, PumpNotBegun, [Next]_vars
  PROVE  StreamStep
<1>1. ASSUME NEW c \in Clients, Writer(c) PROVE StreamStep
  BY <1>1, WriterStream
<1>2. ASSUME NEW c \in Clients, Handler(c) PROVE StreamStep
  BY <1>2, HandlerStream
<1>3. ASSUME NEW c \in Clients, Reader(c) PROVE StreamStep
  BY <1>3 DEF Reader, StreamStep, StreamStays, streamVars, Ended
<1>4. ASSUME NEW k \in Closers, Closer(k) PROVE StreamStep
  BY <1>4 DEF Closer, pumpVars, StreamStep, StreamStays, streamVars, Ended
<1>5. ASSUME NEW s \in Senders, Sender(s) PROVE StreamStep
  BY <1>5, SenderStream
<1>6. ASSUME HubRun PROVE StreamStep
  BY <1>6, HubStream
<1>7. ASSUME UNCHANGED vars PROVE StreamStep
  BY <1>7 DEF vars, pumpVars, StreamStep, StreamStays, streamVars, Ended
<1> QED
  BY <1>1, <1>2, <1>3, <1>4, <1>5, <1>6, <1>7 DEF Next

-----------------------------------------------------------------------------
(* The inductive invariant.                                                *)

StreamInv == TypeInv /\ PumpNotBegun /\ StreamIntact

LEMMA InitStream == Init => StreamInv
<1> SUFFICES ASSUME Init PROVE PumpNotBegun /\ StreamIntact
  BY InitTypes DEF StreamInv
<1>1. PumpNotBegun
  BY DEF Init, PumpNotBegun
<1>2. \A c \in Clients : accepted[c] = <<>> /\ delivered[c] = <<>> /\ buf[c] = <<>>
  BY DEF Init
<1>3. <<>> \o <<>> = <<>>
  OBVIOUS
<1>4. \A c \in Clients : wpc[c] = "none"
  BY DEF Init
<1> QED
  BY <1>1, <1>2, <1>3, <1>4 DEF StreamIntact

LEMMA NextPumpNotBegun ==
  ASSUME TypeInv, PumpNotBegun, [Next]_vars
  PROVE  PumpNotBegun'
<1>1. ASSUME NEW c \in Clients, Writer(c) PROVE PumpNotBegun'
  <2>1. wpc[c] # "none" /\ UNCHANGED hpc
    BY <1>1 DEF Writer, WriterLoop, WriterEval, WriterReceive, WriterLen, WriterDrain,
                WriterChansClosed, WriterControl, WriterExit, userVars
  <2>2. \A d \in Clients \ {c} : wpc'[d] = wpc[d]
    BY <1>1 DEF Writer, WriterLoop, WriterEval, WriterReceive, WriterLen, WriterDrain,
                WriterChansClosed, WriterControl, WriterExit, Transmit, TypeInv, TypeOK
  <2> QED
    BY <2>1, <2>2 DEF PumpNotBegun
<1>2. ASSUME NEW c \in Clients, Handler(c) PROVE PumpNotBegun'
  <2>0. hpc \in [Clients -> {"new", "made", "ready", "upgraded", "opened",
                             "registered", "started", "returned", "failed",
                             "done"} \cup CloseLabels]
    BY DEF TypeInv, TypeOK
  <2>1. CASE StartPumps(c)
    BY <2>0, <2>1 DEF StartPumps, PumpNotBegun, TypeInv, TypeOK
  <2>2. CASE ~StartPumps(c)
    <3>1. UNCHANGED wpc
      BY <1>2, <2>2
         DEF Handler, NewClient, CloseOld, SetCallbacks, Upgrade, MarkOpen, Register,
              CallOnOpen
    <3>2. \A d \in Clients : hpc'[d] \notin {"started", "returned", "done"}
                               => hpc[d] \notin {"started", "returned", "done"}
      BY <1>2, <2>0, <2>2
         DEF Handler, NewClient, CloseOld, SetCallbacks, Upgrade, MarkOpen, Register,
              CallOnOpen,
             CloseLabels
    <3> QED
      BY <3>1, <3>2 DEF PumpNotBegun
  <2> QED
    BY <2>1, <2>2
<1>3. ASSUME \/ \E c \in Clients : Reader(c)
             \/ HubRun
             \/ \E k \in Closers : Closer(k)
             \/ \E s \in Senders : Sender(s)
             \/ UNCHANGED vars
      PROVE  PumpNotBegun'
  BY <1>3 DEF Reader, HubRun, Closer, Sender, vars, pumpVars, userVars, PumpNotBegun
<1> QED
  BY <1>1, <1>2, <1>3 DEF Next

\* The stream of one connection through the steps that concern it.
LEMMA NextStreamIntact ==
  ASSUME StreamInv, StreamStep, TypeInv'
  PROVE  StreamIntact'
<1>0. /\ accepted \in [Clients -> Seq(Messages)]
      /\ delivered \in [Clients -> Seq(Messages)]
      /\ buf \in [Clients -> Seq(Messages)]
  BY DEF StreamInv, TypeInv, TypeOK
<1>1. SUFFICES ASSUME NEW c \in Clients
      PROVE  IF c \in Ended'
             THEN \E n \in 0 .. Len(accepted'[c]) : delivered'[c] = SubSeq(accepted'[c], 1, n)
             ELSE accepted'[c] = delivered'[c] \o buf'[c]
  BY DEF StreamIntact, Ended
<1>2. IF c \in Ended
      THEN \E n \in 0 .. Len(accepted[c]) : delivered[c] = SubSeq(accepted[c], 1, n)
      ELSE accepted[c] = delivered[c] \o buf[c]
  BY DEF StreamInv, StreamIntact, Ended
<1>3. accepted[c] = delivered[c] \o buf[c] =>
        \E n \in 0 .. Len(accepted[c]) : delivered[c] = SubSeq(accepted[c], 1, n)
  BY <1>0, PrefixOfConcat
<1>4. ASSUME NEW m \in Messages, Put(c, m)
      PROVE  IF c \in Ended'
             THEN \E n \in 0 .. Len(accepted'[c]) : delivered'[c] = SubSeq(accepted'[c], 1, n)
             ELSE accepted'[c] = delivered'[c] \o buf'[c]
  <2>1. /\ buf'[c] = Append(buf[c], m) /\ accepted'[c] = Append(accepted[c], m)
        /\ delivered'[c] = delivered[c] /\ Ended' = Ended
    BY <1>0, <1>4 DEF Put
  <2>2. CASE c \in Ended
    <3>1. PICK n \in 0 .. Len(accepted[c]) : delivered[c] = SubSeq(accepted[c], 1, n)
      BY <1>2, <2>2
    <3>2. /\ n \in 0 .. Len(Append(accepted[c], m))
          /\ SubSeq(Append(accepted[c], m), 1, n) = SubSeq(accepted[c], 1, n)
      BY <1>0, PrefixOfPush
    <3> QED
      BY <2>1, <2>2, <3>1, <3>2
  <2>3. CASE c \notin Ended
    <3>1. delivered[c] \o Append(buf[c], m) = Append(delivered[c] \o buf[c], m)
      BY <1>0, PushLast
    <3> QED
      BY <1>2, <2>1, <2>3, <3>1
  <2> QED
    BY <2>2, <2>3
<1>5. ASSUME Written(c)
      PROVE  c \notin Ended' /\ accepted'[c] = delivered'[c] \o buf'[c]
  <2>1. /\ buf[c] # <<>> /\ c \notin Ended /\ Ended' = Ended
        /\ buf'[c] = Tail(buf[c]) /\ delivered'[c] = Append(delivered[c], Head(buf[c]))
        /\ accepted'[c] = accepted[c]
    BY <1>0, <1>5 DEF Written
  <2>2. Append(delivered[c], Head(buf[c])) \o Tail(buf[c]) = delivered[c] \o buf[c]
    BY <1>0, <2>1, MoveHead
  <2> QED
    BY <1>2, <2>1, <2>2
<1>6. ASSUME WriteFailed(c)
      PROVE  /\ c \in Ended'
             /\ \E n \in 0 .. Len(accepted'[c]) : delivered'[c] = SubSeq(accepted'[c], 1, n)
  BY <1>2, <1>3, <1>6 DEF WriteFailed
<1>7. ASSUME UNCHANGED <<accepted[c], delivered[c], buf[c]>>, c \in Ended => c \in Ended'
      PROVE  IF c \in Ended'
             THEN \E n \in 0 .. Len(accepted'[c]) : delivered'[c] = SubSeq(accepted'[c], 1, n)
             ELSE accepted'[c] = delivered'[c] \o buf'[c]
  BY <1>2, <1>3, <1>7
<1>8. ASSUME NEW d \in Clients, d # c,
             (\E m \in Messages : Put(d, m)) \/ Written(d) \/ WriteFailed(d)
      PROVE  UNCHANGED <<accepted[c], delivered[c], buf[c]>> /\ (c \in Ended => c \in Ended')
  BY <1>0, <1>8 DEF Put, Written, WriteFailed
<1>9. ASSUME StreamStays
      PROVE  UNCHANGED <<accepted[c], delivered[c], buf[c]>> /\ (c \in Ended => c \in Ended')
  BY <1>9 DEF StreamStays, streamVars
<1> QED
  BY <1>4, <1>5, <1>6, <1>7, <1>8, <1>9 DEF StreamStep

LEMMA NextStream == StreamInv /\ [Next]_vars => StreamInv'
<1> SUFFICES ASSUME StreamInv, [Next]_vars PROVE StreamInv'
  OBVIOUS
<1>1. TypeInv' /\ PumpNotBegun'
  BY NextTypes, NextPumpNotBegun DEF StreamInv
<1>2. StreamIntact'
  BY <1>1, EveryStreamStep, NextStreamIntact DEF StreamInv
<1> QED
  BY <1>1, <1>2 DEF StreamInv

LEMMA SpecStream == Spec => []StreamInv
BY InitStream, NextStream, PTL DEF Spec

\* What is put into a connection's sendCh is what its writePump writes: nothing
\* is lost, repeated or overtaken between select, len and drain, and a pump that
\* ends, by a failed write or a close, leaves a prefix (Client.send, writePump).
THEOREM StreamCorrect == Spec => []StreamIntact
BY SpecStream, PTL DEF StreamInv

-----------------------------------------------------------------------------
\* The pool keeps the promise of Delivery: a put into sendCh accepts a message,
\* a successful write delivers the next one, and a pump that leaves its loop
\* ends the stream for good.
THEOREM DeliveryImplemented == Spec => ImplementsDelivery
<1>1. Init => Stream!Init
  BY DEF Init, Stream!Init
<1>2. StreamInv /\ [Next]_vars => [Stream!Next]_Stream!vars
  <2> SUFFICES ASSUME StreamInv, [Next]_vars PROVE [Stream!Next]_Stream!vars
    OBVIOUS
  <2>0. /\ accepted \in [Clients -> Seq(Messages)]
        /\ delivered \in [Clients -> Seq(Messages)]
        /\ buf \in [Clients -> Seq(Messages)]
    BY DEF StreamInv, TypeInv, TypeOK
  <2>1. ASSUME NEW c \in Clients, NEW m \in Messages, Put(c, m) PROVE Stream!Accept(c)
    BY <2>1 DEF Put, Stream!Accept, Ended
  <2>2. ASSUME NEW c \in Clients, Written(c) PROVE Stream!Deliver(c)
    <3>1. accepted[c] = delivered[c] \o buf[c] /\ buf[c] # <<>>
      BY <2>2 DEF Written, StreamInv, StreamIntact, Ended
    <3>2. /\ Len(delivered[c]) < Len(accepted[c])
          /\ accepted[c][Len(delivered[c]) + 1] = Head(buf[c])
      BY <2>0, <3>1, HeadOfSecond
    <3> QED
      BY <2>2, <3>2 DEF Written, Stream!Deliver, Ended
  <2>3. ASSUME NEW c \in Clients, WriteFailed(c) PROVE Stream!End(c)
    BY <2>3 DEF WriteFailed, Stream!End, Ended
  <2>4. ASSUME StreamStays PROVE [Stream!Next]_Stream!vars
    <3>1. CASE Ended' = Ended
      BY <2>4, <3>1 DEF StreamStays, streamVars, Stream!vars, Ended
    <3>2. ASSUME NEW c \in Clients, Ended' = Ended \cup {c} PROVE Stream!End(c)
      BY <2>4, <3>2 DEF StreamStays, streamVars, Stream!End, Ended
    <3> QED
      BY <2>4, <3>1, <3>2 DEF StreamStays, Stream!Next
  <2>5. StreamStep
    BY EveryStreamStep DEF StreamInv
  <2> QED
    BY <2>1, <2>2, <2>3, <2>4, <2>5 DEF StreamStep, Stream!Next
<1> QED
  BY <1>1, <1>2, SpecStream, PTL DEF Spec, ImplementsDelivery, Stream!Spec

-----------------------------------------------------------------------------
(***************************************************************************)
(* A proof that WsPool delivers what each sender sends by one path in the  *)
(* order of its calls, at most once, and only to whom it is for.           *)
(*                                                                         *)
(* A message is in its sender's hands, then, if it is a broadcast, in the  *)
(* hub's channel and in the hub's hands, and then in a sendCh.  The        *)
(* invariant OrderInv says that wherever two messages of one sender are on *)
(* that way, the one farther on is the older one; and that the client the  *)
(* hub is about to visit or is sending to has not had the hub's message.   *)
(***************************************************************************)

\* A sender that has begun a call whose message nobody else has yet.
InFlight(s) == spc[s] \in {"cast"} \cup SendLabels

\* A message that has left its sender's hands.
Sent(m) == /\ m.n <= calls[m.from]
           /\ InFlight(m.from) => m.n < calls[m.from]

\* The hub is delivering a broadcast.
Delivering == hub.pc \notin {"select", "close", "reset", "remove"}

\* The hub may still put its message into the sendCh of c.
Pending(c) == IdOf[c] \in hub.todo \/ (hub.on = c /\ hub.pc \in SendLabels)

-----------------------------------------------------------------------------
(* The inductive invariant.                                                *)

\* What a sender has in its hands is the message of its last call.
InHand ==
  \A s \in Senders : InFlight(s) =>
    /\ msg[s].from = s /\ msg[s].n = calls[s]
    /\ spc[s] = "cast" => msg[s].to \notin Clients

AllSent ==
  /\ \A c \in Clients : \A i \in DOMAIN accepted[c] : Sent(accepted[c][i])
  /\ \A i \in DOMAIN broadcast : Sent(broadcast[i])
  /\ Delivering => Sent(hub.msg)

\* The hub's channel keeps the order of each sender's broadcasts.
QueueOrder ==
  /\ \A i \in DOMAIN broadcast : broadcast[i].to \notin Clients
  /\ \A i, j \in DOMAIN broadcast :
       i < j /\ broadcast[i].from = broadcast[j].from => broadcast[i].n < broadcast[j].n

\* The hub's message is a broadcast older than those that wait; the client it is
\* being sent to has subscribed to it and is visited once.
HubOrder ==
  Delivering =>
    /\ hub.msg.to \notin Clients
    /\ \A i \in DOMAIN broadcast :
         broadcast[i].from = hub.msg.from => hub.msg.n < broadcast[i].n
    /\ hub.pc \in SendLabels => /\ hub.msg.to \in {All} \cup Subs[hub.on]
                                /\ IdOf[hub.on] \notin hub.todo

\* A broadcast that a client has accepted is older than those that wait, and not
\* newer than the hub's; it is older than the hub's if the client is still to
\* have that.
Ahead(c, m) ==
  /\ \A j \in DOMAIN broadcast : broadcast[j].from = m.from => m.n < broadcast[j].n
  /\ Delivering /\ hub.msg.from = m.from => /\ m.n <= hub.msg.n
                                            /\ Pending(c) => m.n < hub.msg.n

AcceptedOrder ==
  \A c \in Clients : \A i \in DOMAIN accepted[c] :
    accepted[c][i].to # c => Ahead(c, accepted[c][i])

\* DeliveredAsSent, of what is put into sendCh.
AcceptedAsSent ==
  \A c \in Clients :
    /\ \A i \in DOMAIN accepted[c] : accepted[c][i].to \in {c, All} \cup Subs[c]
    /\ \A i, j \in DOMAIN accepted[c] :
         /\ i < j /\ accepted[c][i].from = accepted[c][j].from
         /\ accepted[c][i].to = c <=> accepted[c][j].to = c
         => accepted[c][i].n < accepted[c][j].n

Order ==
  /\ InHand
  /\ AllSent
  /\ QueueOrder
  /\ HubOrder
  /\ AcceptedOrder
  /\ AcceptedAsSent

OrderInv == TypeInv /\ RegistryUsable /\ Order

orderVars == <<accepted, broadcast, hub, spc, msg, calls>>

\* The types in the form in which the proofs use them.
LEMMA OrderTypes ==
  ASSUME TypeInv
  PROVE  /\ accepted \in [Clients -> Seq(Messages)]
         /\ broadcast \in Seq(Messages)
         /\ spc \in [Senders -> {"idle", "cast"} \cup SendLabels \cup CloseLabels]
         /\ msg \in [Senders -> Messages \cup {None}]
         /\ calls \in [Senders -> Nat]
         /\ hub \in HubStates
         /\ Delivering => hub.msg \in Messages
         /\ hub.pc \in SendLabels => hub.on \in Clients
         /\ \A s \in Senders : InFlight(s) => msg[s] \in Messages
         /\ \A s \in Senders : spc[s] \in SendLabels => msg[s].to \in Clients
         /\ \A m \in Messages : m.from \in Senders /\ m.n \in Nat
         /\ \A c \in Clients : \A i \in DOMAIN accepted[c] : accepted[c][i] \in Messages
         /\ \A i \in DOMAIN broadcast : broadcast[i] \in Messages
<1>1. \A m \in Messages : m.from \in Senders /\ m.n \in Nat
  BY BoundAssumption DEF Messages
<1>2. /\ accepted \in [Clients -> Seq(Messages)] /\ broadcast \in Seq(Messages)
      /\ spc \in [Senders -> {"idle", "cast"} \cup SendLabels \cup CloseLabels]
      /\ msg \in [Senders -> Messages \cup {None}]
      /\ calls \in [Senders -> Nat] /\ hub \in HubStates
  BY BoundAssumption DEF TypeInv, TypeOK
<1>3. /\ \A c \in Clients : \A i \in DOMAIN accepted[c] : accepted[c][i] \in Messages
      /\ \A i \in DOMAIN broadcast : broadcast[i] \in Messages
  BY <1>2, ElementOfSeq, LenProperties
<1>4. /\ Delivering => hub.msg \in Messages
      /\ hub.pc \in SendLabels => hub.on \in Clients
      /\ \A s \in Senders : InFlight(s) => msg[s] \in Messages
      /\ \A s \in Senders : spc[s] \in SendLabels => msg[s].to \in Clients
  BY DEF TypeInv, LocalsOK, Delivering, InFlight, SendLabels
<1> QED
  BY <1>1, <1>2, <1>3, <1>4

\* What has been sent stays sent: a sender begins a call with a number of its own.
LEMMA SentStays ==
  ASSUME TypeInv, NEW m \in Messages, Sent(m),
         \A r \in Senders : \/ calls'[r] = calls[r] /\ (InFlight(r)' => InFlight(r))
                           \/ calls'[r] = calls[r] + 1
  PROVE  Sent(m)'
<1>1. m.from \in Senders /\ m.n \in Nat /\ calls[m.from] \in Nat
  BY OrderTypes
<1>2. CASE calls'[m.from] = calls[m.from] /\ (InFlight(m.from)' => InFlight(m.from))
  BY <1>1, <1>2 DEF Sent
<1>3. CASE calls'[m.from] = calls[m.from] + 1
  BY <1>1, <1>3 DEF Sent
<1> QED
  BY <1>1, <1>2, <1>3

LEMMA InitOrder == Init => Order
<1> SUFFICES ASSUME Init PROVE Order
  OBVIOUS
<1>1. /\ \A c \in Clients : DOMAIN accepted[c] = {}
      /\ DOMAIN broadcast = {}
      /\ ~Delivering
      /\ \A s \in Senders : ~InFlight(s)
  BY DEF Init, Delivering, InFlight, SendLabels
<1> QED
  BY <1>1 DEF Order, InHand, AllSent, QueueOrder, HubOrder, AcceptedOrder, Ahead,
         AcceptedAsSent

LEMMA SameOrder ==
  ASSUME Order, UNCHANGED orderVars
  PROVE  Order'
BY DEF Order, orderVars, InHand, AllSent, QueueOrder, HubOrder, AcceptedOrder, Ahead,
       AcceptedAsSent, Sent, InFlight, Delivering, Pending

\* A message put into sendCh is in order if it is for this client and newer than
\* what its sender has had put there by the same path.
LEMMA AcceptOrder ==
  ASSUME TypeInv, AcceptedAsSent, NEW c \in Clients, NEW m \in Messages,
         accepted'[c] = Append(accepted[c], m),
         \A d \in Clients \ {c} : accepted'[d] = accepted[d],
         m.to \in {c, All} \cup Subs[c],
         \A i \in DOMAIN accepted[c] :
           /\ accepted[c][i].from = m.from
           /\ accepted[c][i].to = c <=> m.to = c
           => accepted[c][i].n < m.n
  PROVE  AcceptedAsSent'
<1>1. /\ DOMAIN accepted'[c] = DOMAIN accepted[c] \cup {Len(accepted[c]) + 1}
      /\ \A i \in DOMAIN accepted[c] : /\ i \in Nat /\ i < Len(accepted[c]) + 1
                                       /\ accepted'[c][i] = accepted[c][i]
      /\ accepted'[c][Len(accepted[c]) + 1] = m
      /\ Len(accepted[c]) \in Nat
  BY OrderTypes, PushElements
<1>2. \A i \in DOMAIN accepted'[c] : accepted'[c][i].to \in {c, All} \cup Subs[c]
  BY <1>1 DEF AcceptedAsSent
<1>3. ASSUME NEW i \in DOMAIN accepted'[c], NEW j \in DOMAIN accepted'[c],
             i < j, accepted'[c][i].from = accepted'[c][j].from,
             accepted'[c][i].to = c <=> accepted'[c][j].to = c
      PROVE  accepted'[c][i].n < accepted'[c][j].n
  <2>1. i \in DOMAIN accepted[c]
    BY <1>1, <1>3
  <2>2. CASE j \in DOMAIN accepted[c]
    BY <1>1, <1>3, <2>1, <2>2 DEF AcceptedAsSent
  <2>3. CASE j = Len(accepted[c]) + 1
    BY <1>1, <1>3, <2>1, <2>3
  <2> QED
    BY <1>1, <2>2, <2>3
<1> QED
  BY <1>2, <1>3, ZenonT(60) DEF AcceptedAsSent

-----------------------------------------------------------------------------
(* Senders.                                                                *)

\* A new call makes everything that was sent before older than its message.
LEMMA CallOrder ==
  ASSUME TypeInv, Order, NEW s \in Senders, NEW to, NEW pc \in {"check", "cast"},
         Call(s, pc, to), pc = "cast" => to \notin Clients,
         UNCHANGED <<accepted, broadcast, hub>>
  PROVE  Order'
<1>1. /\ calls' = [calls EXCEPT ![s] = @ + 1]
      /\ spc' = [spc EXCEPT ![s] = pc]
      /\ msg' = [msg EXCEPT ![s] = [from |-> s, n |-> calls'[s], to |-> to]]
  BY DEF Call
<1>2. \A r \in Senders \ {s} : /\ calls'[r] = calls[r] /\ msg'[r] = msg[r]
                               /\ InFlight(r)' => InFlight(r)
                               /\ spc'[r] = spc[r]
  BY <1>1, OrderTypes DEF InFlight
<1>3. /\ calls'[s] = calls[s] + 1 /\ msg'[s].from = s /\ msg'[s].n = calls'[s]
      /\ msg'[s].to = to /\ spc'[s] = pc /\ calls[s] \in Nat
  BY <1>1, OrderTypes
<1>4. \A m \in Messages : Sent(m) => Sent(m)'
  BY <1>2, <1>3, SentStays
<1>5. InHand'
  BY <1>2, <1>3 DEF Order, InHand
<1>6. AllSent'
  BY <1>4, OrderTypes DEF Order, AllSent, Delivering
<1> QED
  BY <1>5, <1>6
     DEF Order, QueueOrder, HubOrder, AcceptedOrder, Ahead, AcceptedAsSent, Delivering,
         Pending

\* A call that makes no progress, or ends, ages nothing.
LEMMA GiveUpOrder ==
  ASSUME TypeInv, Order, NEW s \in Senders,
         \A r \in Senders : InFlight(r)' => InFlight(r) /\ msg'[r] = msg[r],
         \A r \in Senders : spc'[r] = "cast" => spc[r] = "cast",
         UNCHANGED <<calls, accepted, broadcast, hub>>
  PROVE  Order'
<1>1. \A m \in Messages : Sent(m) => Sent(m)'
  BY SentStays
<1>2. InHand'
  BY DEF Order, InHand
<1>3. AllSent'
  BY <1>1, OrderTypes DEF Order, AllSent, Delivering
<1> QED
  BY <1>2, <1>3
     DEF Order, QueueOrder, HubOrder, AcceptedOrder, Ahead, AcceptedAsSent, Delivering,
         Pending

\* A sender puts its message into sendCh.
LEMMA SenderPutOrder ==
  ASSUME TypeInv, Order, NEW s \in Senders, NEW c \in Clients,
         spc[s] \in SendLabels, msg[s].to = c,
         accepted' = [accepted EXCEPT ![c] = Append(@, msg[s])],
         spc' = [spc EXCEPT ![s] = "idle"], msg' = [msg EXCEPT ![s] = None],
         UNCHANGED <<calls, broadcast, hub>>
  PROVE  Order'
<1> USE OrderTypes
<1>1. PICK m \in Messages : m = msg[s]
  BY DEF InFlight
<1>2. m.from = s /\ m.n = calls[s] /\ m.to = c
  BY <1>1 DEF Order, InHand, InFlight
<1>3. /\ \A d \in Clients \ {c} : accepted'[d] = accepted[d]
      /\ accepted'[c] = Append(accepted[c], m)
  BY <1>1
<1>4. /\ DOMAIN accepted'[c] = DOMAIN accepted[c] \cup {Len(accepted[c]) + 1}
      /\ \A i \in DOMAIN accepted[c] : /\ i \in Nat /\ i < Len(accepted[c]) + 1
                                       /\ accepted'[c][i] = accepted[c][i]
      /\ accepted'[c][Len(accepted[c]) + 1] = m
      /\ Len(accepted[c]) \in Nat
  BY <1>3, PushElements
<1>5. /\ \A r \in Senders : InFlight(r)' => InFlight(r) /\ msg'[r] = msg[r]
      /\ ~InFlight(s)' /\ \A r \in Senders : spc'[r] = "cast" => spc[r] = "cast"
  BY DEF InFlight, SendLabels
<1>6. Sent(m)' /\ \A k \in Messages : Sent(k) => Sent(k)'
  <2>1. Sent(m)'
    BY <1>2, <1>5 DEF Sent
  <2> QED
    BY <1>5, <2>1, SentStays
<1>7. InHand'
  BY <1>5 DEF Order, InHand
<1>8. AllSent'
  BY <1>3, <1>4, <1>6 DEF Order, AllSent, Delivering
<1>9. QueueOrder' /\ HubOrder'
  BY DEF Order, QueueOrder, HubOrder, Delivering
<1>10. AcceptedOrder'
  <2>1. ASSUME NEW d \in Clients, NEW i \in DOMAIN accepted'[d], accepted'[d][i].to # d
        PROVE  i \in DOMAIN accepted[d] /\ accepted'[d][i] = accepted[d][i]
    BY <1>2, <1>3, <1>4, <2>1
  <2>2. \A d, k : Ahead(d, k)' <=> Ahead(d, k)
    BY DEF Ahead, Delivering, Pending
  <2> SUFFICES ASSUME NEW d \in Clients, NEW i \in DOMAIN accepted'[d],
                      accepted'[d][i].to # d
               PROVE  Ahead(d, accepted[d][i])'
    BY DEF AcceptedOrder
  <2>3. PICK k : k = accepted'[d][i]
    OBVIOUS
  <2>4. Ahead(d, k)
    BY <2>1, <2>3 DEF Order, AcceptedOrder
  <2>5. Ahead(d, k)'
    BY <2>2, <2>4
  <2> QED
    BY <2>3, <2>5 DEF Ahead
<1>11. AcceptedAsSent'
  <2>1. \A i \in DOMAIN accepted[c] :
          accepted[c][i].from = s => accepted[c][i].n < m.n
    BY <1>2 DEF Order, AllSent, Sent, InFlight
  <2> QED
    BY <1>2, <1>3, <2>1, AcceptOrder DEF Order
<1> QED
  BY <1>7, <1>8, <1>9, <1>10, <1>11 DEF Order

\* A sender puts its message into the hub's channel.
LEMMA BroadcastPutOrder ==
  ASSUME TypeInv, Order, NEW s \in Senders,
         spc[s] = "cast", broadcast' = Append(broadcast, msg[s]),
         spc' = [spc EXCEPT ![s] = "idle"], msg' = [msg EXCEPT ![s] = None],
         UNCHANGED <<calls, accepted, hub>>
  PROVE  Order'
<1> USE OrderTypes
<1>1. PICK m \in Messages : m = msg[s]
  BY DEF InFlight
<1>2. m.from = s /\ m.n = calls[s] /\ m.to \notin Clients /\ InFlight(s)
  BY <1>1 DEF Order, InHand, InFlight
<1>3. /\ DOMAIN broadcast' = DOMAIN broadcast \cup {Len(broadcast) + 1}
      /\ \A i \in DOMAIN broadcast : /\ i \in Nat /\ i < Len(broadcast) + 1
                                     /\ broadcast'[i] = broadcast[i]
      /\ broadcast'[Len(broadcast) + 1] = m
      /\ Len(broadcast) \in Nat
  BY <1>1, PushElements
<1>4. /\ \A r \in Senders : InFlight(r)' => InFlight(r) /\ msg'[r] = msg[r]
      /\ ~InFlight(s)' /\ \A r \in Senders : spc'[r] = "cast" => spc[r] = "cast"
  BY DEF InFlight, SendLabels
<1>5. Sent(m)' /\ \A k \in Messages : Sent(k) => Sent(k)'
  <2>1. Sent(m)'
    BY <1>2, <1>4 DEF Sent
  <2> QED
    BY <1>4, <2>1, SentStays
<1>6. \A k \in Messages : Sent(k) /\ k.from = s => k.n < m.n
  BY <1>2 DEF Sent
<1>7. InHand'
  BY <1>4 DEF Order, InHand
<1>8. AllSent'
  BY <1>3, <1>5 DEF Order, AllSent, Delivering
<1>9. QueueOrder'
  <2>1. \A i \in DOMAIN broadcast : broadcast[i].from = s => broadcast[i].n < m.n
    BY <1>6 DEF Order, AllSent
  <2> QED
    BY <1>2, <1>3, <2>1 DEF Order, QueueOrder
<1>10. HubOrder'
  <2>1. Delivering /\ hub.msg.from = s => hub.msg.n < m.n
    BY <1>6 DEF Order, AllSent
  <2> QED
    BY <1>2, <1>3, <2>1 DEF Order, HubOrder, Delivering
<1>11. AcceptedOrder'
  <2>1. \A c \in Clients : \A i \in DOMAIN accepted[c] :
          accepted[c][i].from = s => accepted[c][i].n < m.n
    BY <1>6 DEF Order, AllSent
  <2> SUFFICES ASSUME NEW d \in Clients, NEW i \in DOMAIN accepted[d],
                      accepted[d][i].to # d
               PROVE  Ahead(d, accepted[d][i])'
    BY DEF AcceptedOrder
  <2>2. PICK k : k = accepted[d][i]
    OBVIOUS
  <2>3. Ahead(d, k) /\ (k.from = s => k.n < m.n)
    BY <2>1, <2>2 DEF Order, AcceptedOrder
  <2>4. \A j \in DOMAIN broadcast' : broadcast'[j].from = k.from => k.n < broadcast'[j].n
    BY <1>2, <1>3, <2>3 DEF Ahead
  <2>5. Ahead(d, k)'
    BY <2>3, <2>4 DEF Ahead, Delivering, Pending
  <2> QED
    BY <2>2, <2>5 DEF Ahead
<1>12. AcceptedAsSent'
  BY DEF Order, AcceptedAsSent
<1> QED
  BY <1>7, <1>8, <1>9, <1>10, <1>11, <1>12 DEF Order

LEMMA SenderOrder ==
  ASSUME TypeInv, Order, NEW s \in Senders, Sender(s)
  PROVE  Order'
<1>0. UNCHANGED hub
  BY DEF Sender, hubVars
<1>1. CASE Send(s)
  <2>1. PICK c \in Clients : Call(s, "check", c)
    BY <1>1 DEF Send
  <2> QED
    BY <1>0, <2>1, CallOrder DEF Call
<1>2. CASE Broadcast(s)
  <2>1. PICK ch \in Channels \cup {All} : Call(s, "cast", ch)
    BY <1>2 DEF Broadcast
  <2>2. ch \notin Clients
    BY NameAssumption
  <2> QED
    BY <1>0, <2>1, <2>2, CallOrder DEF Call
<1>3. CASE SendGoesOn(s)
  <2>1. PICK to \in SendLabels \cup {"idle", "mark"} :
          /\ SendStep(msg[s].to, msg[s], spc[s], to, "send")
          /\ spc' = [spc EXCEPT ![s] = to]
          /\ msg' = IF to = "idle" THEN [msg EXCEPT ![s] = None] ELSE msg
    BY <1>3 DEF SendGoesOn
  <2>2. spc[s] \in SendLabels /\ UNCHANGED <<calls, broadcast>>
    BY <1>3 DEF SendGoesOn
  <2>3. PICK c \in Clients : c = msg[s].to
    BY <2>2, OrderTypes
  <2>4. CASE SendPut(c, msg[s], spc[s], to)
    BY <1>0, <2>1, <2>2, <2>3, <2>4, SenderPutOrder DEF SendPut
  <2>5. CASE ~SendPut(c, msg[s], spc[s], to)
    <3>1. UNCHANGED accepted
      BY <2>1, <2>3, <2>5
         DEF SendStep, SendCheck, SendEval, SendPanics, SendTimeout
    <3>2. /\ \A r \in Senders : InFlight(r)' => InFlight(r) /\ msg'[r] = msg[r]
          /\ \A r \in Senders : spc'[r] = "cast" => spc[r] = "cast"
      BY <2>1, <2>2, OrderTypes DEF InFlight, SendLabels
    <3> QED
      BY <1>0, <2>2, <3>1, <3>2, GiveUpOrder
  <2> QED
    BY <2>4, <2>5
<1>4. CASE SendErrorCloses(s)
  <2>1. /\ UNCHANGED <<accepted, calls, broadcast>>
        /\ spc[s] \in CloseLabels
        /\ spc' = [spc EXCEPT ![s] = "idle"] \/ spc' = [spc EXCEPT ![s] = AfterClose[@]]
        /\ \A r \in Senders \ {s} : msg'[r] = msg[r]
    BY <1>4, OrderTypes DEF SendErrorCloses
  <2>2. AfterClose[spc[s]] \notin SendLabels \cup {"cast"}
    BY <2>1 DEF AfterClose, CloseLabels, SendLabels
  <2>3. /\ \A r \in Senders : InFlight(r)' => InFlight(r) /\ msg'[r] = msg[r]
        /\ \A r \in Senders : spc'[r] = "cast" => spc[r] = "cast"
    BY <2>1, <2>2, OrderTypes DEF InFlight, SendLabels
  <2> QED
    BY <1>0, <2>1, <2>3, GiveUpOrder
<1>5. CASE BroadcastGoesOn(s)
  <2>1. /\ spc[s] = "cast" /\ UNCHANGED <<accepted, calls>>
        /\ spc' = [spc EXCEPT ![s] = "idle"] /\ msg' = [msg EXCEPT ![s] = None]
        /\ broadcast' = Append(broadcast, msg[s]) \/ broadcast' = broadcast
    BY <1>5 DEF BroadcastGoesOn
  <2>2. CASE broadcast' = Append(broadcast, msg[s])
    BY <1>0, <2>1, <2>2, BroadcastPutOrder
  <2>3. CASE broadcast' = broadcast
    <3>1. /\ \A r \in Senders : InFlight(r)' => InFlight(r) /\ msg'[r] = msg[r]
          /\ \A r \in Senders : spc'[r] = "cast" => spc[r] = "cast"
      BY <2>1, OrderTypes DEF InFlight, SendLabels
    <3> QED
      BY <1>0, <2>1, <2>3, <3>1, GiveUpOrder
  <2> QED
    BY <2>1, <2>2, <2>3
<1> QED
  BY <1>1, <1>2, <1>3, <1>4, <1>5 DEF Sender

-----------------------------------------------------------------------------
(* The hub.                                                                *)

\* A step of the hub that sends nothing and brings it no nearer to a client.
LEMMA HubStays ==
  ASSUME Order, UNCHANGED <<accepted, broadcast, spc, msg, calls>>,
         Delivering' => /\ Delivering /\ hub'.msg = hub.msg
                        /\ \A c \in Clients : Pending(c)' => Pending(c)
                        /\ hub'.pc \in SendLabels =>
                             /\ hub'.msg.to \in {All} \cup Subs[hub'.on]
                             /\ IdOf[hub'.on] \notin hub'.todo
  PROVE  Order'
<1>1. InHand' /\ QueueOrder' /\ AcceptedAsSent'
  BY DEF Order, InHand, InFlight, QueueOrder, AcceptedAsSent
<1>2. AllSent'
  BY DEF Order, AllSent, Sent, InFlight
<1>3. HubOrder'
  BY DEF Order, HubOrder
<1>4. AcceptedOrder'
  BY DEF Order, AcceptedOrder, Ahead
<1> QED
  BY <1>1, <1>2, <1>3, <1>4 DEF Order

\* The hub takes the oldest broadcast.
LEMMA HubBroadcastOrder ==
  ASSUME TypeInv, Order, HubBroadcast, UNCHANGED <<spc, msg, calls>>
  PROVE  Order'
<1> USE OrderTypes
<1>1. /\ broadcast # <<>> /\ broadcast' = Tail(broadcast) /\ UNCHANGED accepted
      /\ hub'.pc = "scan" /\ hub'.msg = Head(broadcast)
  BY DEF HubBroadcast, HubStates
<1>2. /\ 1 \in DOMAIN broadcast /\ hub'.msg = broadcast[1]
      /\ \A i \in DOMAIN broadcast' :
           i \in Nat /\ 1 < i + 1 /\ i + 1 \in DOMAIN broadcast
           /\ broadcast'[i] = broadcast[i + 1]
  BY <1>1, TailElements
<1>3. hub'.pc \notin SendLabels /\ Delivering'
  BY <1>1 DEF SendLabels, Delivering
<1>4. InHand' /\ AcceptedAsSent'
  BY <1>1 DEF Order, InHand, InFlight, AcceptedAsSent
<1>5. AllSent'
  BY <1>1, <1>2 DEF Order, AllSent, Sent, InFlight
<1>6. QueueOrder'
  <2>1. \A i \in DOMAIN broadcast' : broadcast'[i].to \notin Clients
    BY <1>2 DEF Order, QueueOrder
  <2>2. ASSUME NEW i \in DOMAIN broadcast', NEW j \in DOMAIN broadcast',
               i < j, broadcast'[i].from = broadcast'[j].from
        PROVE  broadcast'[i].n < broadcast'[j].n
    <3>1. i + 1 \in DOMAIN broadcast /\ j + 1 \in DOMAIN broadcast /\ i + 1 < j + 1
      BY <1>2, <2>2
    <3> QED
      BY <1>2, <2>2, <3>1 DEF Order, QueueOrder
  <2> QED
    BY <2>1, <2>2 DEF QueueOrder
<1>7. HubOrder'
  BY <1>2, <1>3 DEF Order, QueueOrder, HubOrder
<1>8. AcceptedOrder'
  <2> SUFFICES ASSUME NEW c \in Clients, NEW i \in DOMAIN accepted[c],
                      accepted[c][i].to # c
               PROVE  /\ \A j \in DOMAIN broadcast' :
                           broadcast'[j].from = accepted[c][i].from
                             => accepted[c][i].n < broadcast'[j].n
                      /\ hub'.msg.from = accepted[c][i].from
                           => accepted[c][i].n < hub'.msg.n
    BY <1>1 DEF AcceptedOrder, Ahead
  <2>1. \A j \in DOMAIN broadcast :
          broadcast[j].from = accepted[c][i].from => accepted[c][i].n < broadcast[j].n
    BY DEF Order, AcceptedOrder, Ahead
  <2> QED
    BY <1>2, <2>1
<1> QED
  BY <1>4, <1>5, <1>6, <1>7, <1>8 DEF Order

\* The hub puts its message into the sendCh of the client it visits.
LEMMA HubPutOrder ==
  ASSUME TypeInv, Order, NEW c \in Clients, hub.on = c, hub.pc \in SendLabels,
         accepted' = [accepted EXCEPT ![c] = Append(@, hub.msg)],
         hub' = [hub EXCEPT !.pc = "scan", !.on = None],
         UNCHANGED <<broadcast, spc, msg, calls>>
  PROVE  Order'
<1> USE OrderTypes
<1>0. Delivering
  BY DEF Delivering, SendLabels
<1>1. PICK m \in Messages : m = hub.msg
  BY <1>0
<1>2. /\ hub'.pc = "scan" /\ hub'.msg = m /\ hub'.todo = hub.todo
      /\ IdOf[c] \notin hub.todo /\ m.to \in {All} \cup Subs[c] /\ m.to \notin Clients
  BY <1>0, <1>1 DEF Order, HubOrder, HubStates
<1>3. /\ \A d \in Clients \ {c} : accepted'[d] = accepted[d]
      /\ accepted'[c] = Append(accepted[c], m)
  BY <1>1
<1>4. /\ DOMAIN accepted'[c] = DOMAIN accepted[c] \cup {Len(accepted[c]) + 1}
      /\ \A i \in DOMAIN accepted[c] : /\ i \in Nat /\ i < Len(accepted[c]) + 1
                                       /\ accepted'[c][i] = accepted[c][i]
      /\ accepted'[c][Len(accepted[c]) + 1] = m
      /\ Len(accepted[c]) \in Nat
  BY <1>3, PushElements
<1>5. /\ Delivering' /\ hub'.pc \notin SendLabels /\ ~Pending(c)'
      /\ \A d \in Clients : Pending(d)' => Pending(d)
      /\ Pending(c)
  BY <1>2 DEF Delivering, SendLabels, Pending
<1>6. \A k : Sent(k)' <=> Sent(k)
  BY DEF Sent, InFlight
<1>7. InHand' /\ QueueOrder'
  BY DEF Order, InHand, InFlight, QueueOrder
<1>8. AllSent'
  BY <1>0, <1>1, <1>2, <1>3, <1>4, <1>6 DEF Order, AllSent
<1>9. HubOrder'
  BY <1>0, <1>1, <1>2, <1>5 DEF Order, HubOrder
<1>10. AcceptedOrder'
  <2>1. /\ \A j \in DOMAIN broadcast : broadcast[j].from = m.from => m.n < broadcast[j].n
        /\ m.n <= m.n
    BY <1>0, <1>1 DEF Order, HubOrder
  <2>3. ASSUME NEW d \in Clients, NEW i \in DOMAIN accepted'[d]
        PROVE  \/ i \in DOMAIN accepted[d] /\ accepted'[d][i] = accepted[d][i]
               \/ d = c /\ accepted'[d][i] = m
    BY <1>3, <1>4
  <2> SUFFICES ASSUME NEW d \in Clients, NEW i \in DOMAIN accepted'[d],
                      accepted'[d][i].to # d
               PROVE  Ahead(d, accepted[d][i])'
    BY DEF AcceptedOrder
  <2>4. PICK k : k = accepted'[d][i]
    OBVIOUS
  <2>5. /\ \A j \in DOMAIN broadcast : broadcast[j].from = k.from => k.n < broadcast[j].n
        /\ m.from = k.from => k.n <= m.n /\ (Pending(d) /\ d # c => k.n < m.n)
    <3>1. CASE i \in DOMAIN accepted[d] /\ accepted'[d][i] = accepted[d][i]
      BY <1>0, <1>1, <2>4, <3>1 DEF Order, AcceptedOrder, Ahead
    <3>2. CASE d = c /\ accepted'[d][i] = m
      BY <2>1, <2>4, <3>2
    <3> QED
      BY <2>3, <3>1, <3>2
  <2>6. Ahead(d, k)'
    BY <1>2, <1>5, <2>5 DEF Ahead
  <2> QED
    BY <2>4, <2>6 DEF Ahead
<1>11. AcceptedAsSent'
  <2>1. \A i \in DOMAIN accepted[c] :
          accepted[c][i].to # c /\ accepted[c][i].from = m.from => accepted[c][i].n < m.n
    BY <1>0, <1>1, <1>5 DEF Order, AcceptedOrder, Ahead
  <2>2. m.to # c
    BY <1>2
  <2>3. \A i \in DOMAIN accepted[c] :
          /\ accepted[c][i].from = m.from
          /\ accepted[c][i].to = c <=> m.to = c
          => accepted[c][i].n < m.n
    BY <2>1, <2>2
  <2> QED
    BY <1>2, <1>3, <2>3, AcceptOrder DEF Order
<1> QED
  BY <1>7, <1>8, <1>9, <1>10, <1>11 DEF Order

LEMMA HubOrderStep ==
  ASSUME TypeInv, RegistryUsable, Order, HubRun
  PROVE  Order'
<1>0. UNCHANGED <<spc, msg, calls>> /\ hub \in HubStates
  BY OrderTypes DEF HubRun, userVars
<1>1. CASE HubBroadcast
  BY <1>0, <1>1, HubBroadcastOrder
<1>2. CASE HubVisit
  <2>1. PICK id \in hub.todo :
          LET c == clients[id]
              receives == ~obj[c].IsClose /\ (hub.msg.to = All \/ hub.msg.to \in Subs[c])
          IN  hub' = [hub EXCEPT !.todo = @ \ {id},
                                 !.on = IF receives THEN c ELSE @,
                                 !.pc = IF receives THEN "check" ELSE @]
    BY <1>2 DEF HubVisit
  <2>2. id \in Ids /\ clients[id] # None
    BY <1>0, <2>1 DEF HubStates, TypeInv, LocalsOK
  <2>3. PICK c \in Clients : c = clients[id] /\ IdOf[c] = id
    BY <2>2 DEF RegistryUsable, TypeInv, TypeOK
  <2>4. /\ UNCHANGED <<accepted, broadcast>> /\ hub.pc = "scan"
        /\ hub'.msg = hub.msg /\ hub'.todo = hub.todo \ {id}
        /\ \/ hub'.pc = "scan"
           \/ /\ hub'.pc = "check" /\ hub'.on = c
              /\ hub.msg.to = All \/ hub.msg.to \in Subs[c]
    BY <1>0, <1>2, <2>1, <2>3 DEF HubVisit, HubStates, chanVars
  <2>5. /\ Delivering
        /\ \A d \in Clients : Pending(d)' => Pending(d)
        /\ hub'.pc \in SendLabels => /\ hub'.msg.to \in {All} \cup Subs[hub'.on]
                                     /\ IdOf[hub'.on] \notin hub'.todo
    BY <2>1, <2>3, <2>4 DEF Delivering, Pending, SendLabels
  <2> QED
    BY <1>0, <2>4, <2>5, HubStays
<1>3. CASE HubSend
  <2>1. PICK to \in SendLabels \cup {"idle", "mark"} :
          /\ SendStep(hub.on, hub.msg, hub.pc, to, "hub")
          /\ hub' = IF to = "idle" THEN [hub EXCEPT !.pc = "scan", !.on = None]
                                   ELSE [hub EXCEPT !.pc = to]
    BY <1>3 DEF HubSend
  <2>2. /\ hub.pc \in SendLabels /\ hub.on \in Clients /\ Delivering
        /\ UNCHANGED broadcast
    BY <1>3, OrderTypes DEF HubSend, Delivering, SendLabels, chanVars
  <2>3. CASE SendPut(hub.on, hub.msg, hub.pc, to)
    BY <1>0, <2>1, <2>2, <2>3, HubPutOrder DEF SendPut
  <2>4. CASE ~SendPut(hub.on, hub.msg, hub.pc, to)
    <3>1. UNCHANGED accepted
      BY <2>1, <2>4 DEF SendStep, SendCheck, SendEval, SendPanics, SendTimeout
    <3>2. /\ hub'.msg = hub.msg /\ hub'.todo = hub.todo
          /\ hub'.pc \in SendLabels => hub'.on = hub.on
      BY <1>0, <2>1 DEF HubStates, SendLabels
    <3>3. /\ \A d \in Clients : Pending(d)' => Pending(d)
          /\ hub'.pc \in SendLabels => /\ hub'.msg.to \in {All} \cup Subs[hub'.on]
                                       /\ IdOf[hub'.on] \notin hub'.todo
      BY <2>2, <3>2 DEF Pending, Order, HubOrder
    <3> QED
      BY <1>0, <2>2, <3>1, <3>2, <3>3, HubStays
  <2> QED
    BY <2>3, <2>4
<1>4. CASE HubErrorCloses
  <2>1. /\ UNCHANGED <<accepted, broadcast>>
        /\ hub.pc \in CloseLabels
        /\ hub'.msg = hub.msg /\ hub'.todo = hub.todo
        /\ hub'.pc = "scan" \/ hub'.pc = AfterClose[hub.pc]
    BY <1>0, <1>4 DEF HubErrorCloses, HubStates
  <2>2. hub'.pc \notin SendLabels /\ Delivering
    BY <2>1 DEF AfterClose, CloseLabels, SendLabels, Delivering
  <2> QED
    BY <1>0, <2>1, <2>2, HubStays DEF Pending
<1>5. CASE HubScanned
  BY <1>0, <1>5, HubStays DEF HubScanned, HubStates, Delivering, chanVars
<1>6. CASE HubRegister
  BY <1>0, <1>6, SameOrder DEF HubRegister, orderVars
<1>7. CASE HubUnregister \/ HubClose \/ HubClear \/ HubRemove
  <2>1. hub'.pc \in {"select", "close", "reset", "remove"}
    BY <1>0, <1>7 DEF HubUnregister, HubClose, HubClear, HubRemove, HubStates
  <2>2. UNCHANGED <<accepted, broadcast>>
    BY <1>7 DEF HubUnregister, HubClose, HubClear, HubRemove, chanVars
  <2> QED
    BY <1>0, <2>1, <2>2, HubStays DEF Delivering
<1> QED
  BY <1>1, <1>2, <1>3, <1>4, <1>5, <1>6, <1>7 DEF HubRun

-----------------------------------------------------------------------------
LEMMA NextOrder ==
  ASSUME TypeInv, RegistryUsable, Order, [Next]_vars
  PROVE  Order'
<1>1. ASSUME NEW c \in Clients, Writer(c) \/ Reader(c) \/ Handler(c) PROVE Order'
  BY <1>1, SameOrder
     DEF Writer, Reader, Handler, orderVars, userVars, chanVars, hubVars, streamVars
<1>2. ASSUME NEW k \in Closers, Closer(k) PROVE Order'
  BY <1>2, SameOrder DEF Closer, orderVars, hubVars, streamVars
<1>3. CASE UNCHANGED vars
  BY <1>3, SameOrder
     DEF vars, orderVars, userVars, chanVars, hubVars, streamVars
<1> QED
  BY <1>1, <1>2, <1>3, SenderOrder, HubOrderStep DEF Next

LEMMA SpecOrder == Spec => []Order
<1>1. Order /\ TypeInv /\ RegistryUsable /\ [Next]_vars => Order'
  BY NextOrder
<1> QED
  BY <1>1, InitOrder, SpecTypes, RegistryCorrect, PTL DEF Spec

\* What is written to a connection is the beginning of what it has accepted.
LEMMA DeliveredIsAccepted ==
  ASSUME StreamInv, NEW c \in Clients
  PROVE  \A i \in DOMAIN delivered[c] :
           i \in DOMAIN accepted[c] /\ delivered[c][i] = accepted[c][i]
<1>0. /\ accepted[c] \in Seq(Messages) /\ delivered[c] \in Seq(Messages)
      /\ buf[c] \in Seq(Messages)
  BY DEF StreamInv, TypeInv, TypeOK
<1>1. PICK n \in 0 .. Len(accepted[c]) : delivered[c] = SubSeq(accepted[c], 1, n)
  <2>1. CASE wpc[c] \in {"exit", "done"}
    BY <2>1 DEF StreamInv, StreamIntact
  <2>2. CASE wpc[c] \notin {"exit", "done"}
    <3>1. accepted[c] = delivered[c] \o buf[c]
      BY <2>2 DEF StreamInv, StreamIntact
    <3>2. /\ Len(delivered[c]) \in 0 .. Len(accepted[c])
          /\ delivered[c] = SubSeq(accepted[c], 1, Len(delivered[c]))
      BY <1>0, <3>1, PrefixOfConcat
    <3> QED
      BY <3>2
  <2> QED
    BY <2>1, <2>2
<1>2. Len(accepted[c]) \in Nat /\ DOMAIN accepted[c] = 1 .. Len(accepted[c])
  BY <1>0, LenProperties
<1>3. 1 \in 1 .. Len(accepted[c]) + 1 /\ n \in 1 - 1 .. Len(accepted[c])
  BY <1>2
<1>4. /\ Len(delivered[c]) = n - 1 + 1
      /\ \A i \in 1 .. n - 1 + 1 : delivered[c][i] = accepted[c][1 + i - 1]
  BY <1>0, <1>1, <1>3, SubSeqProperties
<1>5. DOMAIN delivered[c] = 1 .. n
  BY <1>0, <1>2, <1>4, LenProperties
<1> QED
  BY <1>2, <1>4, <1>5

\* What one sender sends by one path, Send or Broadcast, is written to a
\* connection in the order of the calls, at most once, and only to a connection
\* it is for, for any number of senders and connections and whatever is closed,
\* opened or replaced meanwhile (Client.send, hub.run, writePump).
THEOREM OrderCorrect == Spec => []DeliveredAsSent
<1>1. StreamInv /\ Order => DeliveredAsSent
  <2> SUFFICES ASSUME StreamInv, Order, NEW c \in Clients
               PROVE  \A i, j \in DOMAIN delivered[c] :
                        /\ delivered[c][i].to \in {c, All} \cup Subs[c]
                        /\ /\ i < j /\ delivered[c][i].from = delivered[c][j].from
                           /\ delivered[c][i].to = c <=> delivered[c][j].to = c
                           => delivered[c][i].n < delivered[c][j].n
    BY DEF DeliveredAsSent
  <2> QED
    BY DeliveredIsAccepted DEF Order, AcceptedAsSent
<1> QED
  BY <1>1, SpecStream, SpecOrder, PTL
=============================================================================
