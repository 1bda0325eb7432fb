---------------------------- MODULE WsPoolProofs ----------------------------
(***************************************************************************)
(* Proofs about WsPool for any number of connections, identifiers and user *)
(* goroutines and any capacities: the types, and that the registry stays   *)
(* usable, from which it follows that the hub never panics; and that close *)
(* and OpenClient call the user's callbacks when they should.              *)
(*                                                                         *)
(* RegistryUsable is not inductive: a client enters the registry through   *)
(* the channel register, so what the registry may hold depends on what is  *)
(* in that channel, and that on how far the handlers are; and the hub      *)
(* closes channels in several steps, between which it must still be known  *)
(* that the client it works on is the one the registry holds.              *)
(***************************************************************************)
EXTENDS WsPool, SequenceTheorems, TLAPS

-----------------------------------------------------------------------------
(* What the types alone do not say about local variables.                  *)

LocalsOK ==
  /\ \A c \in Clients : hpc[c] \in CloseLabels => old[c] \in Clients
  /\ \A k \in Closers : kpc[k] \in CloseLabels => kon[k] \in Clients
  /\ \A s \in Senders : spc[s] # "idle" => msg[s] \in Messages
  /\ \A s \in Senders : spc[s] \in SendLabels \cup CloseLabels => msg[s].to \in Clients
  /\ hub.pc \notin {"select", "close", "reset", "remove"} => hub.msg \in Messages
  /\ hub.pc \notin {"select", "scan"} => hub.on \in Clients
  /\ hub.pc \in {"select", "close", "reset", "remove"} => hub.todo = {}
  /\ \A id \in hub.todo : clients[id] # None

TypeInv == TypeOK /\ LocalsOK

-----------------------------------------------------------------------------
(* The inductive invariant of the registry.                                *)

BeforeRegister(c) ==
  hpc[c] \in {"new", "made", "ready", "upgraded", "opened", "failed"} \cup CloseLabels

\* A client whose handler has not put it into register is nowhere to be found,
\* and nobody has closed its channels.
Unregistered ==
  \A c \in Clients : BeforeRegister(c) =>
    /\ obj[c].chans = "open"
    /\ \A i \in DOMAIN register : register[i] # c
    /\ \A id \in Ids : clients[id] # c
    /\ hpc[c] \in {"upgraded", "opened"} => obj[c].conn # "nil"

\* A client waits in register at most once, with open channels, and is not in
\* the registry yet.
WaitingOK ==
  /\ \A i, j \in DOMAIN register : register[i] = register[j] => i = j
  /\ \A i \in DOMAIN register :
       /\ obj[register[i]].chans = "open"
       /\ obj[register[i]].conn # "nil"
       /\ \A id \in Ids : clients[id] # register[i]

\* The client that the hub works on is the one in the registry; one that is
\* being released is closed and its channels are as far as the hub is.
HubOK ==
  /\ hub.pc \notin {"select", "scan"} =>
       clients[IdOf[hub.on]] = hub.on
  /\ hub.pc \in {"close", "reset", "remove"} => obj[hub.on].IsClose
  /\ hub.pc = "close" => obj[hub.on].chans = "open"

Registry ==
  /\ Unregistered
  /\ WaitingOK
  /\ HubOK
  /\ RegistryUsable
  /\ HubNeverPanics

RegistryInv == TypeInv /\ Registry

-----------------------------------------------------------------------------
(* Types.                                                                  *)

\* Writing a field keeps the type of the objects.
LEMMA ObjectUpdate ==
  ASSUME NEW o \in [Clients -> Objects], NEW c \in Clients
  PROVE  /\ \A b \in BOOLEAN : [o EXCEPT ![c].IsClose = b] \in [Clients -> Objects]
         /\ \A b \in BOOLEAN : [o EXCEPT ![c].bound = b] \in [Clients -> Objects]
         /\ \A v \in {"nil", "open", "closed"} :
              /\ [o EXCEPT ![c].conn = v] \in [Clients -> Objects]
              /\ [o EXCEPT ![c].chans = v] \in [Clients -> Objects]
BY DEF Objects

\* A statement of close keeps the types of what it changes.
LEMMA CloseStepTypes ==
  ASSUME TypeOK, NEW c \in Clients, NEW at \in CloseLabels, CloseStep(c, at)
  PROVE  /\ obj' \in [Clients -> Objects]
         /\ called' \subseteq Clients \X {"onOpen", "onClose"}
         /\ unregister' \in Seq(Ids)
         /\ crash' \in {"none", "nilConn", "readPump", "send", "hub"}
         /\ AfterClose[at] \in CloseLabels \cup {"done"}
<1>1. AfterClose[at] \in CloseLabels \cup {"done"}
  BY DEF AfterClose, CloseLabels
<1>2. ASSUME CloseMark(c, at) PROVE obj' \in [Clients -> Objects]
  BY <1>2, ObjectUpdate DEF CloseMark, TypeOK
<1>3. ASSUME CloseConn(c, at)
      PROVE  obj' \in [Clients -> Objects] /\ crash' \in {"none", "nilConn", "readPump", "send", "hub"}
  <2>1. CASE obj[c].conn = "nil"
    BY <1>3, <2>1 DEF CloseConn, TypeOK
  <2>2. CASE obj[c].conn # "nil"
    <3>1. obj' = [obj EXCEPT ![c].conn = "closed"] /\ crash' = crash
      BY <1>3, <2>2 DEF CloseConn
    <3>2. [obj EXCEPT ![c].conn = "closed"] \in [Clients -> Objects]
      BY ObjectUpdate DEF TypeOK
    <3> QED
      BY <3>1, <3>2 DEF TypeOK
  <2> QED
    BY <2>1, <2>2
<1>4. ASSUME CloseCallback(c, at)
      PROVE  called' \subseteq Clients \X {"onOpen", "onClose"}
  BY <1>4 DEF CloseCallback, TypeOK
<1>5. ASSUME CloseClear(c, at) PROVE obj' \in [Clients -> Objects]
  BY <1>5, ObjectUpdate DEF CloseClear, TypeOK
<1>6. ASSUME CloseUnregister(c, at) PROVE unregister' \in Seq(Ids)
  BY <1>6, ClientAssumption, AppendProperties DEF CloseUnregister, TypeOK
<1> QED
  BY <1>1, <1>2, <1>3, <1>4, <1>5, <1>6
     DEF CloseStep, CloseMark, CloseConn, CloseCallback, CloseClear, CloseUnregister,
         TypeOK

\* A step of send keeps the types of what it changes.
LEMMA SendStepTypes ==
  ASSUME TypeOK, NEW c \in Clients, NEW m \in Messages, NEW at \in SendLabels,
         NEW to \in SendLabels \cup {"idle", "mark"},
         NEW cause \in {"send", "hub"}, SendStep(c, m, at, to, cause)
  PROVE  /\ buf' \in [Clients -> Seq(Messages)]
         /\ accepted' \in [Clients -> Seq(Messages)]
         /\ crash' \in {"none", "nilConn", "readPump", "send", "hub"}
<1>1. ASSUME SendPut(c, m, at, to)
      PROVE  buf' \in [Clients -> Seq(Messages)] /\ accepted' \in [Clients -> Seq(Messages)]
  BY <1>1, AppendProperties DEF SendPut, TypeOK
<1> QED
  BY <1>1 DEF SendStep, SendPut, SendCheck, SendEval, SendPanics, SendTimeout, TypeOK

LEMMA InitTypes == Init => TypeInv
<1> SUFFICES ASSUME Init PROVE TypeInv
  OBVIOUS
<1>1. <<>> \in Seq(Messages) /\ <<>> \in Seq(Clients) /\ <<>> \in Seq(Ids)
  BY EmptySeq
<1>2. /\ obj \in [Clients -> Objects]
      /\ called \subseteq Clients \X {"onOpen", "onClose"}
  BY DEF Init, Objects
<1>3. /\ buf \in [Clients -> Seq(Messages)]
      /\ accepted \in [Clients -> Seq(Messages)]
      /\ delivered \in [Clients -> Seq(Messages)]
      /\ register \in Seq(Clients)
      /\ unregister \in Seq(Ids)
      /\ broadcast \in Seq(Messages)
  BY <1>1 DEF Init
<1>4. hub \in HubStates
  BY DEF Init, HubStates
<1>5. TypeOK
  BY <1>2, <1>3, <1>4, BoundAssumption DEF Init, TypeOK
<1>6. LocalsOK
  BY DEF Init, LocalsOK, CloseLabels, SendLabels
<1> QED
  BY <1>5, <1>6 DEF TypeInv

LEMMA WriterTypes ==
  ASSUME TypeInv, NEW c \in Clients, Writer(c)
  PROVE  TypeInv'
<1> DEFINE Changed ==
      /\ obj \in [Clients -> Objects]
      /\ buf \in [Clients -> Seq(Messages)]
      /\ delivered \in [Clients -> Seq(Messages)]
      /\ wpc \in [Clients -> {"none", "loop", "eval", "select", "selectNil", "len",
                              "drain", "exit", "done"}]
      /\ left \in [Clients -> Nat]
      /\ rpc \in [Clients -> {"none", "loop", "read", "ping", "pingNil", "pong",
                              "done"} \cup CloseLabels]
<1>0. Changed
  BY DEF TypeInv, TypeOK
<1>1. ASSUME WriterLoop(c) PROVE Changed'
  BY <1>0, <1>1 DEF WriterLoop
<1>2. ASSUME WriterEval(c) PROVE Changed'
  BY <1>0, <1>2 DEF WriterEval
<1>3. ASSUME NEW next \in {"len", "drain"}, Transmit(c, next)
      PROVE  /\ buf' \in [Clients -> Seq(Messages)]
             /\ delivered' \in [Clients -> Seq(Messages)]
             /\ wpc' = [wpc EXCEPT ![c] = next] \/ wpc' = [wpc EXCEPT ![c] = "exit"]
  <2>1. buf[c] \in Seq(Messages) /\ buf[c] # <<>>
    BY <1>0, <1>3 DEF Transmit
  <2>2. Head(buf[c]) \in Messages /\ Tail(buf[c]) \in Seq(Messages)
    BY <2>1, HeadTailProperties
  <2>3. Append(delivered[c], Head(buf[c])) \in Seq(Messages)
    BY <1>0, <2>2, AppendProperties
  <2> QED
    BY <1>0, <1>3, <2>2, <2>3 DEF Transmit
<1>4. ASSUME WriterReceive(c) PROVE Changed'
  BY <1>0, <1>3, <1>4 DEF WriterReceive
<1>5. ASSUME WriterLen(c) PROVE Changed'
  <2>1. Len(buf[c]) \in Nat
    BY <1>0, LenProperties
  <2> QED
    BY <1>0, <1>5, <2>1 DEF WriterLen
<1>6. ASSUME WriterDrain(c) PROVE Changed'
  <2>1. CASE left[c] = 0
    <3>1. wpc' = [wpc EXCEPT ![c] = "loop"] /\ UNCHANGED <<obj, buf, delivered, left, rpc>>
      BY <1>6, <2>1 DEF WriterDrain
    <3> QED
      BY <1>0, <3>1
  <2>2. CASE left[c] > 0
    <3>1. Transmit(c, "drain")
      BY <1>6, <2>2 DEF WriterDrain
    <3>2. left' = [left EXCEPT ![c] = @ - 1] /\ left[c] - 1 \in Nat /\ UNCHANGED <<obj, rpc>>
      BY <1>0, <1>6, <2>2 DEF WriterDrain
    <3> QED
      BY <1>0, <1>3, <3>1, <3>2
  <2> QED
    BY <1>0, <2>1, <2>2
<1>7. ASSUME WriterChansClosed(c) PROVE Changed'
  BY <1>0, <1>7 DEF WriterChansClosed
<1>8. ASSUME WriterControl(c) PROVE Changed'
  BY <1>0, <1>8 DEF WriterControl
<1>9. ASSUME WriterExit(c) PROVE Changed'
  BY <1>0, <1>9, ObjectUpdate DEF WriterExit
<1>10. Changed'
  BY <1>1, <1>2, <1>4, <1>5, <1>6, <1>7, <1>8, <1>9 DEF Writer
<1>11. UNCHANGED <<called, accepted, frames, panicking, userVars, chanVars, hubVars, crash>>
  BY DEF Writer
<1> HIDE DEF Changed
<1>12. TypeOK'
  BY <1>10, <1>11 DEF Changed, TypeInv, TypeOK, userVars, chanVars, hubVars
<1>13. LocalsOK'
  BY <1>11 DEF TypeInv, LocalsOK, userVars, hubVars
<1> QED
  BY <1>12, <1>13 DEF TypeInv

LEMMA ReaderTypes ==
  ASSUME TypeInv, NEW c \in Clients, Reader(c)
  PROVE  TypeInv'
<1> DEFINE Changed ==
      /\ obj \in [Clients -> Objects]
      /\ called \subseteq Clients \X {"onOpen", "onClose"}
      /\ rpc \in [Clients -> {"none", "loop", "read", "ping", "pingNil", "pong",
                              "done"} \cup CloseLabels]
      /\ frames \in [Clients -> 0 .. MaxFrames]
      /\ panicking \subseteq Clients
      /\ unregister \in Seq(Ids)
      /\ crash \in {"none", "nilConn", "readPump", "send", "hub"}
<1>0. Changed
  BY DEF TypeInv, TypeOK
<1>1. ASSUME ReaderLoop(c) PROVE Changed'
  BY <1>0, <1>1 DEF ReaderLoop, objVars, CloseLabels
<1>2. ASSUME ReadFails(c) PROVE Changed'
  BY <1>0, <1>2 DEF ReadFails, objVars, CloseLabels
<1>3. ASSUME ReadFrame(c) PROVE Changed'
  <2>1. frames' \in [Clients -> 0 .. MaxFrames]
    BY <1>0, <1>3, BoundAssumption DEF ReadFrame
  <2>2. rpc' \in [Clients -> {"none", "loop", "read", "ping", "pingNil", "pong",
                              "done"} \cup CloseLabels]
    BY <1>0, <1>3, KindAssumption DEF ReadFrame
  <2> QED
    BY <1>0, <1>3, <2>1, <2>2 DEF ReadFrame, objVars
<1>4. ASSUME PingPanics(c) PROVE Changed'
  BY <1>0, <1>4 DEF PingPanics, objVars, CloseLabels
<1>5. ASSUME ReaderClose(c) PROVE Changed'
  BY <1>0, <1>5, CloseStepTypes DEF ReaderClose, TypeInv
<1>6. ASSUME ReaderDies(c) PROVE Changed'
  BY <1>0, <1>6 DEF ReaderDies, objVars
<1>7. Changed'
  BY <1>1, <1>2, <1>3, <1>4, <1>5, <1>6 DEF Reader
<1>8. UNCHANGED <<streamVars, wpc, left, userVars, register, broadcast, hubVars>>
  BY DEF Reader
<1> HIDE DEF Changed
<1>9. TypeOK'
  BY <1>7, <1>8 DEF Changed, TypeInv, TypeOK, streamVars, userVars, hubVars
<1>10. LocalsOK'
  BY <1>8 DEF TypeInv, LocalsOK, userVars, hubVars
<1> QED
  BY <1>9, <1>10 DEF TypeInv

LEMMA HandlerTypes ==
  ASSUME TypeInv, NEW c \in Clients, Handler(c)
  PROVE  TypeInv'
<1> DEFINE Changed ==
      /\ obj \in [Clients -> Objects]
      /\ called \subseteq Clients \X {"onOpen", "onClose"}
      /\ hpc \in [Clients -> {"new", "made", "ready", "upgraded", "opened",
                              "registered", "started", "returned", "failed",
                              "done"}
                             \cup CloseLabels]
      /\ old \in [Clients -> Clients \cup {None}]
      /\ \A d \in Clients : hpc[d] \in CloseLabels => old[d] \in Clients
      /\ wpc \in [Clients -> {"none", "loop", "eval", "select", "selectNil", "len",
                              "drain", "exit", "done"}]
      /\ rpc \in [Clients -> {"none", "loop", "read", "ping", "pingNil", "pong",
                              "done"} \cup CloseLabels]
      /\ register \in Seq(Clients)
      /\ unregister \in Seq(Ids)
      /\ crash \in {"none", "nilConn", "readPump", "send", "hub"}
<1>0. Changed
  BY DEF TypeInv, TypeOK, LocalsOK
<1>1. ASSUME NewClient(c) PROVE Changed'
  <2>1. clients[IdOf[c]] \in Clients \cup {None}
    BY ClientAssumption DEF TypeInv, TypeOK
  <2>2. CASE clients[IdOf[c]] # None /\ ~obj[clients[IdOf[c]]].IsClose
    BY <1>0, <1>1, <2>1, <2>2 DEF NewClient, objVars, CloseLabels
  <2>3. CASE ~(clients[IdOf[c]] # None /\ ~obj[clients[IdOf[c]]].IsClose)
    BY <1>0, <1>1, <2>3 DEF NewClient, objVars, CloseLabels
  <2> QED
    BY <2>2, <2>3
<1>2. ASSUME CloseOld(c) PROVE Changed'
  <2>1. old[c] \in Clients /\ hpc[c] \in CloseLabels /\ CloseStep(old[c], hpc[c])
    BY <1>0, <1>2 DEF CloseOld
  <2>2. /\ obj' \in [Clients -> Objects]
        /\ called' \subseteq Clients \X {"onOpen", "onClose"}
        /\ unregister' \in Seq(Ids)
        /\ crash' \in {"none", "nilConn", "readPump", "send", "hub"}
    BY <2>1, CloseStepTypes DEF TypeInv
  <2>3. CASE hpc[c] = "unregister"
    BY <1>0, <1>2, <2>2, <2>3 DEF CloseOld, CloseLabels
  <2>4. CASE hpc[c] # "unregister"
    <3>1. AfterClose[hpc[c]] \in CloseLabels
      BY <2>1, <2>4 DEF AfterClose, CloseLabels
    <3> QED
      BY <1>0, <1>2, <2>1, <2>2, <2>4, <3>1 DEF CloseOld
  <2> QED
    BY <2>3, <2>4
<1>3. ASSUME SetCallbacks(c) PROVE Changed'
  <2>1. obj' \in [Clients -> Objects]
    BY <1>0, <1>3, ObjectUpdate DEF SetCallbacks
  <2> QED
    BY <1>0, <1>3, <2>1 DEF SetCallbacks, CloseLabels
<1>4. ASSUME Upgrade(c) PROVE Changed'
  <2>1. \/ obj' = obj
        \/ obj' = [obj EXCEPT ![c].conn = "open"]
    BY <1>4 DEF Upgrade
  <2>2. obj' \in [Clients -> Objects]
    <3>1. [obj EXCEPT ![c].conn = "open"] \in [Clients -> Objects]
      BY <1>0, ObjectUpdate
    <3> QED
      BY <1>0, <2>1, <3>1
  <2> QED
    BY <1>0, <1>4, <2>2 DEF Upgrade, CloseLabels
<1>4a. ASSUME MarkOpen(c) PROVE Changed'
  <2>1. obj' \in [Clients -> Objects]
    BY <1>0, <1>4a, ObjectUpdate DEF MarkOpen
  <2> QED
    BY <1>0, <1>4a, <2>1 DEF MarkOpen, CloseLabels
<1>5. ASSUME Register(c) PROVE Changed'
  <2>1. register' \in Seq(Clients)
    BY <1>0, <1>5, AppendProperties DEF Register
  <2> QED
    BY <1>0, <1>5, <2>1 DEF Register, objVars, CloseLabels
<1>6. ASSUME StartPumps(c) PROVE Changed'
  BY <1>0, <1>6 DEF StartPumps, objVars, CloseLabels
<1>7. ASSUME CallOnOpen(c) PROVE Changed'
  BY <1>0, <1>7 DEF CallOnOpen, CloseLabels
<1>8. Changed'
  BY <1>1, <1>2, <1>3, <1>4, <1>4a, <1>5, <1>6, <1>7 DEF Handler
<1>9. UNCHANGED <<streamVars, left, frames, panicking, kpc, kon, spc, msg, calls,
                  broadcast, hubVars>>
  BY DEF Handler
<1> HIDE DEF Changed
<1>10. TypeOK'
  BY <1>8, <1>9 DEF Changed, TypeInv, TypeOK, streamVars, hubVars
<1>11. LocalsOK'
  BY <1>8, <1>9 DEF Changed, TypeInv, LocalsOK, hubVars
<1> QED
  BY <1>10, <1>11 DEF TypeInv

LEMMA CloserTypes ==
  ASSUME TypeInv, NEW k \in Closers, Closer(k)
  PROVE  TypeInv'
<1> DEFINE Changed ==
      /\ obj \in [Clients -> Objects]
      /\ called \subseteq Clients \X {"onOpen", "onClose"}
      /\ kpc \in [Closers -> {"idle", "done"} \cup CloseLabels]
      /\ kon \in [Closers -> Clients \cup {None}]
      /\ \A l \in Closers : kpc[l] \in CloseLabels => kon[l] \in Clients
      /\ unregister \in Seq(Ids)
      /\ crash \in {"none", "nilConn", "readPump", "send", "hub"}
<1>0. Changed
  BY DEF TypeInv, TypeOK, LocalsOK
<1>1. ASSUME Close(k) PROVE Changed'
  BY <1>0, <1>1 DEF Close, objVars, CloseLabels
<1>2. ASSUME CloseGoesOn(k) PROVE Changed'
  <2>1. kon[k] \in Clients /\ kpc[k] \in CloseLabels /\ CloseStep(kon[k], kpc[k])
    BY <1>0, <1>2 DEF CloseGoesOn
  <2>2. /\ obj' \in [Clients -> Objects]
        /\ called' \subseteq Clients \X {"onOpen", "onClose"}
        /\ unregister' \in Seq(Ids)
        /\ crash' \in {"none", "nilConn", "readPump", "send", "hub"}
        /\ AfterClose[kpc[k]] \in CloseLabels \cup {"done"}
    BY <2>1, CloseStepTypes DEF TypeInv
  <2> QED
    BY <1>0, <1>2, <2>1, <2>2 DEF CloseGoesOn
<1>3. Changed'
  BY <1>1, <1>2 DEF Closer
<1>4. UNCHANGED <<streamVars, pumpVars, hpc, old, spc, msg, calls, register,
                  broadcast, hubVars>>
  BY DEF Closer
<1> HIDE DEF Changed
<1>5. TypeOK'
  BY <1>3, <1>4 DEF Changed, TypeInv, TypeOK, streamVars, pumpVars, hubVars
<1>6. LocalsOK'
  BY <1>3, <1>4 DEF Changed, TypeInv, LocalsOK, hubVars
<1> QED
  BY <1>5, <1>6 DEF TypeInv

LEMMA SenderTypes ==
  ASSUME TypeInv, NEW s \in Senders, Sender(s)
  PROVE  TypeInv'
<1> DEFINE Changed ==
      /\ obj \in [Clients -> Objects]
      /\ called \subseteq Clients \X {"onOpen", "onClose"}
      /\ unregister \in Seq(Ids)
      /\ buf \in [Clients -> Seq(Messages)]
      /\ accepted \in [Clients -> Seq(Messages)]
      /\ spc \in [Senders -> {"idle", "cast"} \cup SendLabels \cup CloseLabels]
      /\ msg \in [Senders -> Messages \cup {None}]
      /\ \A t \in Senders : spc[t] # "idle" => msg[t] \in Messages
      /\ \A t \in Senders : spc[t] \in SendLabels \cup CloseLabels => msg[t].to \in Clients
      /\ calls \in [Senders -> 0 .. MaxSends]
      /\ broadcast \in Seq(Messages)
      /\ crash \in {"none", "nilConn", "readPump", "send", "hub"}
<1>0. Changed
  BY DEF TypeInv, TypeOK, LocalsOK
<1>1. ASSUME NEW pc \in {"check", "cast"}, NEW to \in Clients \cup Channels \cup {All},
             pc = "check" => to \in Clients, Call(s, pc, to)
      PROVE  Changed'
  <2>1. calls' = [calls EXCEPT ![s] = @ + 1] /\ calls'[s] \in 1 .. MaxSends
    BY <1>0, <1>1, BoundAssumption DEF Call
  <2>2. calls' \in [Senders -> 0 .. MaxSends]
    BY <1>0, <2>1
  <2> DEFINE m == [from |-> s, n |-> calls'[s], to |-> to]
  <2>3. m \in Messages /\ m.to = to
    BY <2>1 DEF Messages
  <2>4. /\ msg' = [msg EXCEPT ![s] = m]
        /\ spc' = [spc EXCEPT ![s] = pc]
        /\ UNCHANGED <<obj, called, unregister, buf, accepted, broadcast, crash>>
    BY <1>1 DEF Call, objVars
  <2> HIDE DEF m
  <2> QED
    BY <1>0, <1>1, <2>2, <2>3, <2>4 DEF SendLabels, CloseLabels
<1>2. ASSUME Send(s) PROVE Changed'
  BY <1>1, <1>2 DEF Send
<1>3. ASSUME SendGoesOn(s) PROVE Changed'
  <2>1. PICK to \in SendLabels \cup {"idle", "mark"} :
          /\ SendStep(msg[s].to, msg[s], spc[s], to, "send")
          /\ spc' = [spc EXCEPT ![s] = to]
          /\ msg' = IF to = "idle" THEN [msg EXCEPT ![s] = None] ELSE msg
    BY <1>3 DEF SendGoesOn
  <2>2. spc[s] \in SendLabels /\ msg[s] \in Messages /\ msg[s].to \in Clients
    BY <1>0, <1>3 DEF SendGoesOn, SendLabels
  <2>3. /\ buf' \in [Clients -> Seq(Messages)]
        /\ accepted' \in [Clients -> Seq(Messages)]
        /\ crash' \in {"none", "nilConn", "readPump", "send", "hub"}
    BY <2>1, <2>2, SendStepTypes DEF TypeInv
  <2>4. UNCHANGED <<obj, called, calls, unregister, broadcast>>
    BY <1>3 DEF SendGoesOn, objVars
  <2>5. CASE to = "idle"
    BY <1>0, <2>1, <2>3, <2>4, <2>5 DEF SendLabels, CloseLabels
  <2>6. CASE to # "idle"
    <3>1. to \in SendLabels \cup CloseLabels
      BY <2>6 DEF CloseLabels
    <3> QED
      BY <1>0, <2>1, <2>2, <2>3, <2>4, <2>6, <3>1
  <2> QED
    BY <2>5, <2>6
<1>4. ASSUME Broadcast(s) PROVE Changed'
  BY <1>1, <1>4 DEF Broadcast
<1>5. ASSUME BroadcastGoesOn(s) PROVE Changed'
  <2>1. msg[s] \in Messages
    BY <1>0, <1>5 DEF BroadcastGoesOn
  <2>2. broadcast' \in Seq(Messages)
    <3>1. Append(broadcast, msg[s]) \in Seq(Messages)
      BY <1>0, <2>1, AppendProperties
    <3> QED
      BY <1>0, <1>5, <3>1 DEF BroadcastGoesOn
  <2> QED
    BY <1>0, <1>5, <2>2 DEF BroadcastGoesOn, objVars, SendLabels, CloseLabels
<1>6. ASSUME SendErrorCloses(s) PROVE Changed'
  <2>1. /\ spc[s] \in CloseLabels /\ msg[s].to \in Clients /\ msg[s] \in Messages
        /\ CloseStep(msg[s].to, spc[s])
    BY <1>0, <1>6 DEF SendErrorCloses, CloseLabels
  <2>2. /\ obj' \in [Clients -> Objects]
        /\ called' \subseteq Clients \X {"onOpen", "onClose"}
        /\ unregister' \in Seq(Ids)
        /\ crash' \in {"none", "nilConn", "readPump", "send", "hub"}
    BY <2>1, CloseStepTypes DEF TypeInv
  <2>3. UNCHANGED <<buf, accepted, calls, broadcast>>
    BY <1>6 DEF SendErrorCloses
  <2>4. CASE spc[s] = "unregister"
    <3>1. spc' = [spc EXCEPT ![s] = "idle"] /\ msg' = [msg EXCEPT ![s] = None]
      BY <1>6, <2>4 DEF SendErrorCloses
    <3> QED
      BY <1>0, <2>2, <2>3, <3>1 DEF SendLabels, CloseLabels
  <2>5. CASE spc[s] # "unregister"
    <3>1. AfterClose[spc[s]] \in CloseLabels
      BY <2>1, <2>5 DEF AfterClose, CloseLabels
    <3>2. spc' = [spc EXCEPT ![s] = AfterClose[@]] /\ msg' = msg
      BY <1>6, <2>5 DEF SendErrorCloses
    <3> QED
      BY <1>0, <2>1, <2>2, <2>3, <3>1, <3>2
  <2> QED
    BY <2>4, <2>5
<1>7. Changed'
  BY <1>2, <1>3, <1>4, <1>5, <1>6 DEF Sender
<1>8. UNCHANGED <<delivered, pumpVars, hpc, old, kpc, kon, register, hubVars>>
  BY DEF Sender
<1> HIDE DEF Changed
<1>9. TypeOK'
  BY <1>7, <1>8 DEF Changed, TypeInv, TypeOK, pumpVars, hubVars
<1>10. LocalsOK'
  BY <1>7, <1>8 DEF Changed, TypeInv, LocalsOK, hubVars
<1> QED
  BY <1>9, <1>10 DEF TypeInv

LEMMA HubTypes ==
  ASSUME TypeInv, HubRun
  PROVE  TypeInv'
<1> DEFINE Changed ==
      /\ obj \in [Clients -> Objects]
      /\ called \subseteq Clients \X {"onOpen", "onClose"}
      /\ buf \in [Clients -> Seq(Messages)]
      /\ accepted \in [Clients -> Seq(Messages)]
      /\ register \in Seq(Clients)
      /\ unregister \in Seq(Ids)
      /\ broadcast \in Seq(Messages)
      /\ clients \in [Ids -> Clients \cup {None}]
      /\ hub \in HubStates
      /\ hub.pc \notin {"select", "close", "reset", "remove"} => hub.msg \in Messages
      /\ hub.pc \notin {"select", "scan"} => hub.on \in Clients
      /\ hub.pc \in {"select", "close", "reset", "remove"} => hub.todo = {}
      /\ \A id \in hub.todo : clients[id] # None
      /\ crash \in {"none", "nilConn", "readPump", "send", "hub"}
<1>0. Changed
  BY DEF TypeInv, TypeOK, LocalsOK
<1>1. ASSUME HubUnregister, UNCHANGED called PROVE Changed'
  <2>1. Head(unregister) \in Ids /\ Tail(unregister) \in Seq(Ids)
    BY <1>0, <1>1, HeadTailProperties DEF HubUnregister
  <2>2. clients[Head(unregister)] \in Clients \cup {None}
    BY <1>0, <2>1
  <2>3. hub' = hub \/ ( /\ clients[Head(unregister)] # None
                        /\ hub' = [hub EXCEPT !.pc = "close",
                                              !.on = clients[Head(unregister)]])
    BY <1>1 DEF HubUnregister
  <2>4. hub' \in HubStates
    BY <1>0, <2>2, <2>3 DEF HubStates
  <2>5. hub.pc = "select" /\ UNCHANGED <<obj, buf, accepted, register, broadcast, clients, crash>>
        /\ unregister' = Tail(unregister)
    BY <1>1 DEF HubUnregister
  <2> QED
    <3>1. hub' = hub \/ (hub'.pc = "close" /\ hub'.on \in Clients /\ hub'.todo = hub.todo)
      BY <1>0, <2>2, <2>3 DEF HubStates
    <3> QED
      BY <1>0, <1>1, <2>1, <2>4, <2>5, <3>1
<1>2. ASSUME HubClose, UNCHANGED called PROVE Changed'
  <2>1. CASE obj[hub.on].chans = "open"
    <3>1. hub' = [hub EXCEPT !.pc = "reset"] /\ hub.on \in Clients
      BY <1>0, <1>2, <2>1 DEF HubClose
    <3>2. obj' = [obj EXCEPT ![hub.on].chans = "closed"]
      BY <1>2, <2>1 DEF HubClose
    <3>3. [obj EXCEPT ![hub.on].chans = "closed"] \in [Clients -> Objects]
      BY <1>0, <3>1, ObjectUpdate
    <3> QED
      BY <1>0, <1>2, <2>1, <3>1, <3>2, <3>3 DEF HubClose, chanVars, HubStates, SendLabels, CloseLabels
  <2>2. CASE obj[hub.on].chans # "open"
    BY <1>0, <1>2, <2>2 DEF HubClose, chanVars
  <2> QED
    BY <2>1, <2>2
<1>3. ASSUME HubClear, UNCHANGED called PROVE Changed'
  <2>1. hub.on \in Clients
    BY <1>0, <1>3 DEF HubClear
  <2>2. obj' \in [Clients -> Objects]
    BY <1>0, <1>3, <2>1, ObjectUpdate DEF HubClear
  <2> QED
    BY <1>0, <1>3, <2>1, <2>2 DEF HubClear, chanVars, HubStates, SendLabels, CloseLabels
<1>4. ASSUME HubRemove, UNCHANGED called PROVE Changed'
  BY <1>0, <1>4 DEF HubRemove, chanVars, HubStates, SendLabels, CloseLabels
<1>5. ASSUME HubRegister, UNCHANGED called PROVE Changed'
  <2>1. Head(register) \in Clients /\ Tail(register) \in Seq(Clients)
    BY <1>0, <1>5, HeadTailProperties DEF HubRegister
  <2> QED
    BY <1>0, <1>5, <2>1, ClientAssumption DEF HubRegister
<1>6. ASSUME HubBroadcast, UNCHANGED called PROVE Changed'
  <2>1. Head(broadcast) \in Messages /\ Tail(broadcast) \in Seq(Messages)
    BY <1>0, <1>6, HeadTailProperties DEF HubBroadcast
  <2>2. hub' = [hub EXCEPT !.pc = "scan", !.msg = Head(broadcast),
                           !.todo = {id \in Ids : clients[id] # None}]
    BY <1>6 DEF HubBroadcast
  <2>3. hub' \in HubStates
    BY <1>0, <2>1, <2>2 DEF HubStates
  <2> QED
    <3>1. /\ hub'.pc = "scan" /\ hub'.msg \in Messages
          /\ \A id \in hub'.todo : clients[id] # None
      BY <1>0, <2>1, <2>2 DEF HubStates
    <3> QED
      BY <1>0, <1>6, <2>1, <2>3, <3>1 DEF HubBroadcast
<1>7. ASSUME HubVisit, UNCHANGED called PROVE Changed'
  <2>1. PICK id \in hub.todo :
          LET c == clients[id]
              receives == ~obj[c].IsClose /\ (hub.msg.to = All \/ hub.msg.to \in Subs[c])
          IN  hub' = [hub EXCEPT !.todo = @ \ {id},
                                 !.on = IF receives THEN c ELSE @,
                                 !.pc = IF receives THEN "check" ELSE @]
    BY <1>7 DEF HubVisit
  <2>2. clients[id] \in Clients
    BY <1>0, <2>1 DEF HubStates
  <2>3. hub.pc = "scan" /\ UNCHANGED <<obj, buf, accepted, chanVars, clients, crash>>
    BY <1>7 DEF HubVisit
  <2>4. \/ hub' = [hub EXCEPT !.todo = @ \ {id}, !.on = clients[id], !.pc = "check"]
        \/ hub' = [hub EXCEPT !.todo = @ \ {id}, !.on = hub.on, !.pc = hub.pc]
    BY <2>1
  <2>5. hub.todo \ {id} \in SUBSET Ids /\ "check" \in SendLabels
    BY <1>0 DEF HubStates, SendLabels, CloseLabels
  <2>6. CASE hub' = [hub EXCEPT !.todo = @ \ {id}, !.on = clients[id], !.pc = "check"]
    <3>1. hub' \in HubStates
      BY <1>0, <2>2, <2>5, <2>6 DEF HubStates
    <3>2. /\ hub'.pc = "check" /\ hub'.on \in Clients /\ hub'.msg = hub.msg
          /\ hub'.todo \subseteq hub.todo
      BY <1>0, <2>2, <2>6 DEF HubStates
    <3> QED
      BY <1>0, <1>7, <2>3, <3>1, <3>2 DEF chanVars
  <2>7. CASE hub' = [hub EXCEPT !.todo = @ \ {id}, !.on = hub.on, !.pc = hub.pc]
    <3>1. hub' \in HubStates
      BY <1>0, <2>5, <2>7 DEF HubStates
    <3>2. /\ hub'.pc = "scan" /\ hub'.on = hub.on /\ hub'.msg = hub.msg
          /\ hub'.todo \subseteq hub.todo
      BY <1>0, <2>3, <2>7 DEF HubStates
    <3> QED
      BY <1>0, <1>7, <2>3, <3>1, <3>2 DEF chanVars
  <2> QED
    BY <2>4, <2>6, <2>7
<1>8. ASSUME HubSend, UNCHANGED called PROVE Changed'
  <2>1. PICK to \in SendLabels \cup {"idle", "mark"} :
          /\ SendStep(hub.on, hub.msg, hub.pc, to, "hub")
          /\ hub' = IF to = "idle" THEN [hub EXCEPT !.pc = "scan", !.on = None]
                                   ELSE [hub EXCEPT !.pc = to]
    BY <1>8 DEF HubSend
  <2>2. hub.on \in Clients /\ hub.msg \in Messages /\ hub.pc \in SendLabels
    BY <1>0, <1>8 DEF HubSend, SendLabels
  <2>3. /\ buf' \in [Clients -> Seq(Messages)]
        /\ accepted' \in [Clients -> Seq(Messages)]
        /\ crash' \in {"none", "nilConn", "readPump", "send", "hub"}
    BY <2>1, <2>2, SendStepTypes DEF TypeInv
  <2>4. UNCHANGED <<obj, chanVars, clients>>
    BY <1>8 DEF HubSend
  <2>5. hub' \in HubStates
    BY <1>0, <2>1 DEF HubStates, CloseLabels
  <2> QED
    BY <1>0, <1>8, <2>1, <2>2, <2>3, <2>4, <2>5 DEF HubStates, SendLabels, CloseLabels, chanVars
<1>9. ASSUME HubScanned, UNCHANGED called PROVE Changed'
  BY <1>0, <1>9 DEF HubScanned, chanVars, HubStates, SendLabels, CloseLabels
<1>10. ASSUME HubErrorCloses PROVE Changed'
  <2>1. /\ hub.pc \in CloseLabels /\ hub.on \in Clients /\ hub.msg \in Messages
        /\ CloseStep(hub.on, hub.pc)
    BY <1>0, <1>10 DEF HubErrorCloses, CloseLabels
  <2>2. /\ obj' \in [Clients -> Objects]
        /\ called' \subseteq Clients \X {"onOpen", "onClose"}
        /\ unregister' \in Seq(Ids)
        /\ crash' \in {"none", "nilConn", "readPump", "send", "hub"}
    BY <2>1, CloseStepTypes DEF TypeInv
  <2>3. UNCHANGED <<buf, accepted, register, broadcast, clients>>
    BY <1>10 DEF HubErrorCloses
  <2>4. CASE hub.pc = "unregister"
    <3>1. hub' = [hub EXCEPT !.pc = "scan", !.on = None]
      BY <1>10, <2>4 DEF HubErrorCloses
    <3> QED
      BY <1>0, <2>1, <2>2, <2>3, <3>1 DEF HubStates, SendLabels, CloseLabels
  <2>5. CASE hub.pc # "unregister"
    <3>1. AfterClose[hub.pc] \in CloseLabels
      BY <2>1, <2>5 DEF AfterClose, CloseLabels
    <3>2. hub' = [hub EXCEPT !.pc = AfterClose[@]]
      BY <1>10, <2>5 DEF HubErrorCloses
    <3>3. hub' \in HubStates
      BY <1>0, <3>1, <3>2 DEF HubStates
    <3> QED
      BY <1>0, <2>1, <2>2, <2>3, <3>1, <3>2, <3>3 DEF HubStates, CloseLabels
  <2> QED
    BY <2>4, <2>5
<1>11. Changed'
  BY <1>1, <1>2, <1>3, <1>4, <1>5, <1>6, <1>7, <1>8, <1>9, <1>10 DEF HubRun
<1>12. UNCHANGED <<delivered, pumpVars, userVars>>
  BY DEF HubRun
<1> HIDE DEF Changed
<1>13. TypeOK'
  BY <1>11, <1>12 DEF Changed, TypeInv, TypeOK, pumpVars, userVars
<1>14. LocalsOK'
  BY <1>11, <1>12 DEF Changed, TypeInv, LocalsOK, userVars
<1> QED
  BY <1>13, <1>14 DEF TypeInv

LEMMA NextTypes == TypeInv /\ [Next]_vars => TypeInv'
<1> SUFFICES ASSUME TypeInv, [Next]_vars PROVE TypeInv'
  OBVIOUS
<1>1. CASE Next
  BY <1>1, WriterTypes, ReaderTypes, HandlerTypes, CloserTypes, SenderTypes, HubTypes
     DEF Next
<1>2. CASE UNCHANGED vars
  BY <1>2 DEF vars, objVars, streamVars, pumpVars, userVars, chanVars, hubVars,
              TypeInv, TypeOK, LocalsOK
<1> QED
  BY <1>1, <1>2

LEMMA SpecTypes == Spec => []TypeInv
BY InitTypes, NextTypes, PTL DEF Spec

\* The types of the pool's state, for any number of goroutines: in particular
\* no drain of writePump counts below zero, and every goroutine inside close
\* or send has a client.
THEOREM TypeCorrect == Spec => []TypeOK
BY SpecTypes, PTL DEF TypeInv

-----------------------------------------------------------------------------
(* The registry.                                                           *)

\* What no step but the hub's may do to a client: nobody else touches its
\* channels, a connection is never taken away, and only the handler that opens
\* the client unmarks it.
Harmless ==
  \A c \in Clients :
    /\ obj'[c].chans = obj[c].chans
    /\ obj[c].conn # "nil" => obj'[c].conn # "nil"
    /\ obj[c].IsClose => obj'[c].IsClose \/ BeforeRegister(c)
    /\ BeforeRegister(c)' => BeforeRegister(c)
    /\ hpc'[c] \in {"upgraded", "opened"} => obj'[c].conn # "nil"

\* A harmless step that leaves the registry and the way into it alone.
LEMMA HarmlessAnyHub ==
  ASSUME RegistryInv, Harmless, UNCHANGED <<register, clients>>, crash' # "hub", HubOK',
         hub' = hub \/ hub.pc \notin {"reset", "remove"}
  PROVE  Registry'
<1>1. Unregistered'
  BY DEF RegistryInv, Registry, Unregistered, Harmless
<1>2. WaitingOK'
  <2>1. \A i \in DOMAIN register : register[i] \in Clients
    BY DEF RegistryInv, TypeInv, TypeOK
  <2> QED
    BY <2>1 DEF RegistryInv, Registry, WaitingOK, Harmless
<1>3. RegistryUsable'
  <2>1. \A id \in Ids : clients[id] # None => clients[id] \in Clients
    BY DEF RegistryInv, TypeInv, TypeOK
  <2> QED
    BY <2>1 DEF RegistryInv, Registry, RegistryUsable, Harmless
<1> QED
  BY <1>1, <1>2, <1>3 DEF Registry, HubNeverPanics

\* A harmless step of another goroutine.
LEMMA HarmlessStep ==
  ASSUME RegistryInv, Harmless, UNCHANGED <<register, clients, hub>>, crash' # "hub"
  PROVE  Registry'
<1>1. hub.pc \notin {"select", "scan"} => hub.on \in Clients /\ IdOf[hub.on] \in Ids
  BY ClientAssumption DEF RegistryInv, TypeInv, LocalsOK
<1>2. hub.pc \in {"close", "reset", "remove"} => ~BeforeRegister(hub.on)
  BY <1>1 DEF RegistryInv, Registry, HubOK, Unregistered
<1>3. HubOK'
  BY <1>1, <1>2 DEF RegistryInv, Registry, HubOK, Harmless
<1> QED
  BY <1>3, HarmlessAnyHub

\* Client.close marks, shuts and clears; it never touches the channels.
LEMMA CloseStepHarmless ==
  ASSUME RegistryInv, NEW d \in Clients, NEW at \in CloseLabels, CloseStep(d, at)
  PROVE  /\ \A c \in Clients :
              /\ obj'[c].chans = obj[c].chans
              /\ obj[c].conn # "nil" => obj'[c].conn # "nil"
              /\ obj[c].IsClose => obj'[c].IsClose
         /\ crash' # "hub"
<1>1. obj \in [Clients -> Objects] /\ crash # "hub"
  BY DEF RegistryInv, TypeInv, TypeOK, Registry, HubNeverPanics
<1>2. CASE CloseMark(d, at)
  BY <1>1, <1>2 DEF CloseMark, Objects
<1>3. CASE CloseConn(d, at)
  BY <1>1, <1>3 DEF CloseConn, Objects
<1>4. CASE CloseCallback(d, at)
  BY <1>1, <1>4 DEF CloseCallback
<1>5. CASE CloseClear(d, at)
  BY <1>1, <1>5 DEF CloseClear, Objects
<1>6. CASE CloseUnregister(d, at)
  BY <1>1, <1>6 DEF CloseUnregister
<1> QED
  BY <1>2, <1>3, <1>4, <1>5, <1>6 DEF CloseStep

LEMMA WriterRegistry ==
  ASSUME RegistryInv, NEW c \in Clients, Writer(c)
  PROVE  Harmless /\ Registry'
<1>1. obj' = obj \/ obj' = [obj EXCEPT ![c].IsClose = TRUE]
  BY DEF Writer, WriterLoop, WriterEval, WriterReceive, WriterLen, WriterDrain,
         WriterChansClosed, WriterControl, WriterExit
<1>2. obj \in [Clients -> Objects] /\ crash # "hub" /\ Unregistered
  BY DEF RegistryInv, TypeInv, TypeOK, Registry, HubNeverPanics
<1>3. UNCHANGED <<hpc, register, clients, hub, crash>>
  BY DEF Writer, userVars, chanVars, hubVars
<1>4. Harmless
  BY <1>1, <1>2, <1>3 DEF Harmless, BeforeRegister, Unregistered, Objects
<1> QED
  BY <1>2, <1>3, <1>4, HarmlessStep

LEMMA ReaderRegistry ==
  ASSUME RegistryInv, NEW c \in Clients, Reader(c)
  PROVE  Harmless /\ Registry'
<1>1. obj \in [Clients -> Objects] /\ crash # "hub" /\ Unregistered
  BY DEF RegistryInv, TypeInv, TypeOK, Registry, HubNeverPanics
<1>2. UNCHANGED <<hpc, register, clients, hub>>
  BY DEF Reader, userVars, hubVars
<1>3. CASE ReaderClose(c)
  <2>1. rpc[c] \in CloseLabels /\ CloseStep(c, rpc[c])
    BY <1>3 DEF ReaderClose
  <2>2. Harmless /\ crash' # "hub"
    BY <1>1, <1>2, <2>1, CloseStepHarmless DEF Harmless, BeforeRegister, Unregistered
  <2> QED
    BY <1>2, <2>2, HarmlessStep
<1>4. CASE obj' = obj /\ crash' # "hub"
  BY <1>1, <1>2, <1>4, HarmlessStep DEF Harmless, BeforeRegister, Unregistered
<1> QED
  BY <1>1, <1>3, <1>4 DEF Reader, ReaderLoop, ReadFails, ReadFrame, PingPanics,
                          ReaderDies, objVars

LEMMA CloserRegistry ==
  ASSUME RegistryInv, NEW k \in Closers, Closer(k)
  PROVE  Harmless /\ Registry'
<1>1. obj \in [Clients -> Objects] /\ crash # "hub" /\ Unregistered
  BY DEF RegistryInv, TypeInv, TypeOK, Registry, HubNeverPanics
<1>2. UNCHANGED <<hpc, register, clients, hub>>
  BY DEF Closer, hubVars
<1>3. CASE CloseGoesOn(k)
  <2>1. kpc[k] \in CloseLabels /\ kon[k] \in Clients /\ CloseStep(kon[k], kpc[k])
    BY <1>3 DEF CloseGoesOn, RegistryInv, TypeInv, LocalsOK
  <2>2. Harmless /\ crash' # "hub"
    BY <1>1, <1>2, <2>1, CloseStepHarmless DEF Harmless, BeforeRegister, Unregistered
  <2> QED
    BY <1>2, <2>2, HarmlessStep
<1>4. CASE obj' = obj /\ crash' # "hub"
  BY <1>1, <1>2, <1>4, HarmlessStep DEF Harmless, BeforeRegister, Unregistered
<1> QED
  BY <1>1, <1>3, <1>4 DEF Closer, Close, objVars

LEMMA SenderRegistry ==
  ASSUME RegistryInv, NEW s \in Senders, Sender(s)
  PROVE  Harmless /\ Registry'
<1>1. crash # "hub" /\ Unregistered
  BY DEF RegistryInv, Registry, HubNeverPanics
<1>2. UNCHANGED <<hpc, register, clients, hub>>
  BY DEF Sender, hubVars
<1>3. CASE SendErrorCloses(s)
  <2>1. /\ spc[s] \in CloseLabels /\ msg[s].to \in Clients
        /\ CloseStep(msg[s].to, spc[s])
    BY <1>3 DEF SendErrorCloses, RegistryInv, TypeInv, LocalsOK
  <2>2. Harmless /\ crash' # "hub"
    BY <1>1, <1>2, <2>1, CloseStepHarmless DEF Harmless, BeforeRegister, Unregistered
  <2> QED
    BY <1>2, <2>2, HarmlessStep
<1>4. CASE obj' = obj /\ crash' # "hub"
  BY <1>1, <1>2, <1>4, HarmlessStep DEF Harmless, BeforeRegister, Unregistered
<1>5. (obj' = obj /\ crash' # "hub") \/ SendErrorCloses(s)
  BY <1>1 DEF Sender, Send, Call, SendGoesOn, Broadcast, BroadcastGoesOn, SendStep,
              SendCheck, SendEval, SendPut, SendPanics, SendTimeout, objVars
<1> QED
  BY <1>3, <1>4, <1>5

\* The handler opens a client before it puts it into register, so only
\* Register makes it known to the hub.
LEMMA HandlerHarmless ==
  ASSUME RegistryInv, NEW c \in Clients, Handler(c), ~Register(c)
  PROVE  Harmless /\ crash' # "hub"
<1>1. /\ obj \in [Clients -> Objects]
      /\ crash # "hub"
      /\ \A d \in Clients : hpc[d] \in {"upgraded", "opened"} => obj[d].conn # "nil"
      /\ hpc[c] \in {"new", "made", "ready", "upgraded", "opened", "registered",
                     "started", "returned", "failed", "done"} \cup CloseLabels
  BY DEF RegistryInv, TypeInv, TypeOK, Registry, HubNeverPanics, Unregistered, BeforeRegister
<1> DEFINE Moves(l) ==
      /\ hpc' = [hpc EXCEPT ![c] = l] /\ l \notin {"upgraded", "opened"}
      /\ l \in {"new", "made", "ready", "upgraded", "opened", "failed"} \cup CloseLabels
           => BeforeRegister(c)
<1>2. ASSUME NEW l, Moves(l) PROVE \A d \in Clients :
        /\ BeforeRegister(d)' => BeforeRegister(d)
        /\ hpc'[d] \in {"upgraded", "opened"} => hpc[d] \in {"upgraded", "opened"}
  BY <1>1, <1>2 DEF BeforeRegister, RegistryInv, TypeInv, TypeOK
<1>3. CASE NewClient(c)
  <2>1. Moves("mark") \/ Moves("made")
    BY <1>3 DEF NewClient, BeforeRegister, CloseLabels
  <2>2. obj' = obj /\ crash' = crash
    BY <1>3 DEF NewClient, objVars
  <2> HIDE DEF Moves
  <2> QED
    BY <1>1, <1>2, <2>1, <2>2 DEF Harmless
<1>4. CASE CloseOld(c)
  <2>1. old[c] \in Clients /\ hpc[c] \in CloseLabels /\ CloseStep(old[c], hpc[c])
    BY <1>4 DEF CloseOld, RegistryInv, TypeInv, LocalsOK
  <2>2. Moves("made") \/ Moves(AfterClose[hpc[c]])
    BY <1>4, <2>1 DEF CloseOld, BeforeRegister, AfterClose, CloseLabels
  <2> HIDE DEF Moves
  <2> QED
    BY <1>1, <1>2, <2>1, <2>2, CloseStepHarmless DEF Harmless
<1>5. CASE SetCallbacks(c)
  <2>1. Moves("ready") \/ Moves("done")
    BY <1>5 DEF SetCallbacks, BeforeRegister, CloseLabels
  <2>2. obj' = [obj EXCEPT ![c].bound = TRUE] /\ crash' = crash
    BY <1>5 DEF SetCallbacks
  <2> HIDE DEF Moves
  <2> QED
    BY <1>1, <1>2, <2>1, <2>2 DEF Harmless, Objects
<1>6. CASE Upgrade(c)
  <2>1. BeforeRegister(c) /\ crash' = crash
    BY <1>6 DEF Upgrade, BeforeRegister
  <2>2. CASE hpc' = [hpc EXCEPT ![c] = "failed"] /\ obj' = obj
    <3>1. Moves("failed")
      BY <2>1, <2>2
    <3> HIDE DEF Moves
    <3> QED
      BY <1>1, <1>2, <2>1, <2>2, <3>1 DEF Harmless
  <2>3. CASE /\ hpc' = [hpc EXCEPT ![c] = "upgraded"]
             /\ obj' = [obj EXCEPT ![c].conn = "open"]
    <3>1. \A d \in Clients : d # c => obj'[d] = obj[d] /\ hpc'[d] = hpc[d]
      BY <1>1, <2>3 DEF RegistryInv, TypeInv, TypeOK
    <3>2. /\ obj'[c].chans = obj[c].chans /\ obj'[c].conn = "open"
          /\ obj'[c].IsClose = obj[c].IsClose
      BY <1>1, <2>3 DEF Objects
    <3> QED
      BY <1>1, <2>1, <3>1, <3>2 DEF Harmless, BeforeRegister
  <2> QED
    BY <1>6, <2>2, <2>3 DEF Upgrade
<1>6a. CASE MarkOpen(c)
  <2>1. /\ hpc[c] = "upgraded" /\ BeforeRegister(c) /\ crash' = crash
        /\ \A d \in Clients : d # c => obj'[d] = obj[d] /\ hpc'[d] = hpc[d]
    BY <1>1, <1>6a DEF MarkOpen, BeforeRegister, RegistryInv, TypeInv, TypeOK
  <2>2. obj'[c].chans = obj[c].chans /\ obj'[c].conn = obj[c].conn
    BY <1>1, <1>6a DEF MarkOpen, Objects
  <2> QED
    BY <1>1, <2>1, <2>2 DEF Harmless, BeforeRegister
<1>7. CASE StartPumps(c)
  <2>1. Moves("started") /\ obj' = obj /\ crash' = crash
    BY <1>7 DEF StartPumps, objVars, CloseLabels
  <2> HIDE DEF Moves
  <2> QED
    BY <1>1, <1>2, <2>1 DEF Harmless
<1>8. CASE CallOnOpen(c)
  <2>1. (Moves("done") \/ Moves("returned")) /\ obj' = obj /\ crash' = crash
    BY <1>8 DEF CallOnOpen, CloseLabels
  <2> HIDE DEF Moves
  <2> QED
    BY <1>1, <1>2, <2>1 DEF Harmless
<1> QED
  BY <1>3, <1>4, <1>5, <1>6, <1>6a, <1>7, <1>8 DEF Handler

\* What was true of the client before it was put into register is what WaitingOK
\* asks of it.
LEMMA RegisterRegistry ==
  ASSUME RegistryInv, NEW c \in Clients, Register(c),
         UNCHANGED <<clients, hub>>
  PROVE  Registry'
<1>1. /\ register \in Seq(Clients) /\ obj \in [Clients -> Objects]
      /\ Unregistered /\ WaitingOK /\ HubOK /\ RegistryUsable /\ crash # "hub"
  BY DEF RegistryInv, TypeInv, TypeOK, Registry, HubNeverPanics
<1>2. /\ hpc[c] = "opened" /\ hpc' = [hpc EXCEPT ![c] = "registered"]
      /\ register' = Append(register, c)
      /\ UNCHANGED <<obj, crash, clients, hub>>
  BY DEF Register, objVars
<1>3. /\ obj[c].chans = "open" /\ obj[c].conn # "nil"
      /\ \A i \in DOMAIN register : register[i] # c
      /\ \A id \in Ids : clients[id] # c
  BY <1>1, <1>2 DEF Unregistered, BeforeRegister
<1>4. /\ DOMAIN register = 1 .. Len(register)
      /\ DOMAIN register' = 1 .. Len(register) + 1
      /\ \A i \in 1 .. Len(register) : register'[i] = register[i]
      /\ register'[Len(register) + 1] = c
      /\ Len(register) \in Nat
  BY <1>1, <1>2, AppendProperties, LenProperties
<1>5. Unregistered'
  <2>1. \A d \in Clients : BeforeRegister(d)' => BeforeRegister(d) /\ d # c /\ hpc'[d] = hpc[d]
    BY <1>2 DEF BeforeRegister, CloseLabels, RegistryInv, TypeInv, TypeOK
  <2> QED
    BY <1>1, <1>2, <1>4, <2>1 DEF Unregistered
<1>6. WaitingOK'
  BY <1>1, <1>2, <1>3, <1>4 DEF WaitingOK
<1>7. HubOK' /\ RegistryUsable' /\ HubNeverPanics'
  BY <1>1, <1>2 DEF HubOK, RegistryUsable, HubNeverPanics
<1> QED
  BY <1>5, <1>6, <1>7 DEF Registry

LEMMA HandlerRegistry ==
  ASSUME RegistryInv, NEW c \in Clients, Handler(c)
  PROVE  Registry'
<1>1. UNCHANGED <<clients, hub>>
  BY DEF Handler, hubVars
<1>2. CASE Register(c)
  BY <1>1, <1>2, RegisterRegistry
<1>3. CASE ~Register(c)
  <2>1. UNCHANGED register
    BY <1>3 DEF Handler, NewClient, CloseOld, SetCallbacks, Upgrade, MarkOpen, StartPumps,
               CallOnOpen
  <2> QED
    BY <1>1, <1>3, <2>1, HandlerHarmless, HarmlessStep
<1> QED
  BY <1>2, <1>3

\* The facts about the registry that the hub's steps use.
LEMMA HubFacts ==
  ASSUME RegistryInv
  PROVE  /\ obj \in [Clients -> Objects] /\ register \in Seq(Clients)
         /\ clients \in [Ids -> Clients \cup {None}] /\ hub \in HubStates
         /\ Unregistered /\ WaitingOK /\ HubOK /\ RegistryUsable /\ HubNeverPanics
         /\ \A i \in DOMAIN register : register[i] \in Clients
         /\ \A id \in Ids : clients[id] # None =>
              clients[id] \in Clients /\ IdOf[clients[id]] = id
         /\ hub.pc \notin {"select", "scan"} =>
              /\ hub.on \in Clients /\ hub.on # None
              /\ IdOf[hub.on] \in Ids /\ clients[IdOf[hub.on]] = hub.on
BY ClientAssumption DEF RegistryInv, TypeInv, TypeOK, LocalsOK, Registry, HubOK, RegistryUsable

\* The hub turns to another entry, or to none, of an unchanged registry.
LEMMA HubTurns ==
  ASSUME RegistryInv, UNCHANGED <<obj, hpc, register, clients>>, crash' # "hub",
         hub.pc \notin {"reset", "remove"}, HubOK'
  PROVE  Registry'
<1>1. Unregistered' /\ WaitingOK'
  BY HubFacts DEF Unregistered, WaitingOK, BeforeRegister
<1>2. RegistryUsable'
  BY HubFacts DEF RegistryUsable
<1> QED
  BY <1>1, <1>2 DEF Registry, HubNeverPanics

\* Writing the channels of the client that is being released concerns no client
\* that is not in the registry, and one entry of it only.
LEMMA HubReleases ==
  ASSUME RegistryInv, hub.pc \in {"close", "reset"}, NEW v \in {"closed", "nil"},
         obj' = [obj EXCEPT ![hub.on].chans = v],
         hub' = [hub EXCEPT !.pc = IF @ = "close" THEN "reset" ELSE "remove"],
         UNCHANGED <<hpc, register, clients, crash>>
  PROVE  Registry'
<1>1. /\ hub.on \in Clients /\ clients[IdOf[hub.on]] = hub.on /\ IdOf[hub.on] \in Ids
      /\ obj[hub.on].IsClose
      /\ hub'.on = hub.on /\ hub'.pc \in {"reset", "remove"}
  BY HubFacts DEF HubOK, HubStates
<1>2. /\ \A c \in Clients : c # hub.on => obj'[c] = obj[c]
      /\ obj'[hub.on].IsClose = obj[hub.on].IsClose
      /\ obj'[hub.on].conn = obj[hub.on].conn
  BY <1>1, HubFacts DEF Objects
<1>3. Unregistered'
  <2>1. ~BeforeRegister(hub.on)
    BY <1>1, HubFacts DEF Unregistered
  <2> QED
    BY <1>2, <2>1, HubFacts DEF Unregistered, BeforeRegister
<1>4. WaitingOK'
  BY <1>1, <1>2, HubFacts DEF WaitingOK
<1>5. HubOK'
  BY <1>1, <1>2 DEF HubOK, SendLabels, CloseLabels
<1>6. RegistryUsable'
  BY <1>1, <1>2, HubFacts DEF RegistryUsable
<1> QED
  BY <1>3, <1>4, <1>5, <1>6, HubFacts DEF Registry, HubNeverPanics

LEMMA HubRegistry ==
  ASSUME RegistryInv, HubRun
  PROVE  Registry'
<1>0. UNCHANGED hpc
  BY DEF HubRun, userVars
<1>1. CASE HubUnregister
  <2>1. Head(unregister) \in Ids
    BY <1>1, HeadTailProperties DEF HubUnregister, RegistryInv, TypeInv, TypeOK
  <2> DEFINE c == clients[Head(unregister)]
  <2>2. hub.pc = "select" /\ UNCHANGED <<obj, register, clients, crash>>
    BY <1>1 DEF HubUnregister
  <2>3. CASE c # None /\ obj[c].IsClose
    <3>1. hub' = [hub EXCEPT !.pc = "close", !.on = c]
      BY <1>1, <2>3 DEF HubUnregister
    <3>2. hub'.pc = "close" /\ hub'.on = c
      BY <3>1, HubFacts DEF HubStates
    <3>3. IdOf[c] = Head(unregister) /\ obj[c].chans = "open"
      BY <2>1, <2>2, <2>3, HubFacts DEF RegistryUsable
    <3>4. HubOK'
      BY <2>2, <2>3, <3>2, <3>3 DEF HubOK
    <3> QED
      BY <1>0, <2>2, <3>4, HubTurns, HubFacts DEF HubNeverPanics
  <2>4. CASE ~(c # None /\ obj[c].IsClose)
    <3>1. hub' = hub
      BY <1>1, <2>4 DEF HubUnregister
    <3> QED
      BY <1>0, <2>2, <3>1, HubTurns, HubFacts DEF HubNeverPanics, HubOK
  <2> QED
    BY <2>3, <2>4
<1>2. CASE HubClose
  <2>1. hub.pc = "close" /\ obj[hub.on].chans = "open"
    BY <1>2, HubFacts DEF HubClose, HubOK
  <2>2. /\ obj' = [obj EXCEPT ![hub.on].chans = "closed"]
        /\ hub' = [hub EXCEPT !.pc = "reset"]
        /\ UNCHANGED <<register, clients, crash>>
    BY <1>2, <2>1 DEF HubClose, chanVars
  <2> QED
    BY <1>0, <2>1, <2>2, HubReleases
<1>3. CASE HubClear
  <2>1. /\ hub.pc = "reset"
        /\ obj' = [obj EXCEPT ![hub.on].chans = "nil"]
        /\ hub' = [hub EXCEPT !.pc = "remove"]
        /\ UNCHANGED <<register, clients, crash>>
    BY <1>3 DEF HubClear, chanVars
  <2> QED
    BY <1>0, <2>1, HubReleases
<1>4. CASE HubRemove
  <2>1. /\ hub.pc = "remove"
        /\ clients' = [clients EXCEPT ![IdOf[hub.on]] = None]
        /\ hub' = [hub EXCEPT !.pc = "select", !.on = None]
        /\ UNCHANGED <<obj, register, crash>>
    BY <1>4 DEF HubRemove, chanVars
  <2>2. \A id \in Ids : /\ clients'[id] = IF id = IdOf[hub.on] THEN None ELSE clients[id]
                        /\ clients'[id] # None => clients[id] # None /\ clients[id] # hub.on
    BY <2>1, HubFacts
  <2>3. Unregistered' /\ WaitingOK'
    BY <1>0, <2>1, <2>2, HubFacts, ClientAssumption DEF Unregistered, WaitingOK, BeforeRegister
  <2>4. HubOK'
    BY <2>1, HubFacts DEF HubOK, HubStates, SendLabels, CloseLabels
  <2>5. RegistryUsable'
    BY <2>1, <2>2, HubFacts DEF RegistryUsable
  <2> QED
    BY <2>1, <2>3, <2>4, <2>5, HubFacts DEF Registry, HubNeverPanics
<1>5. CASE HubRegister
  <2> DEFINE c == Head(register)
  <2>1. /\ hub.pc = "select" /\ register # <<>> /\ register' = Tail(register)
        /\ clients' = [clients EXCEPT ![IdOf[c]] = c]
        /\ UNCHANGED <<obj, hub, crash>>
    BY <1>5 DEF HubRegister
  <2>2. /\ Len(register) \in Nat \ {0} /\ DOMAIN register = 1 .. Len(register)
        /\ c = register[1] /\ 1 \in DOMAIN register
        /\ DOMAIN register' = 1 .. Len(register) - 1
        /\ \A i \in DOMAIN register' : register'[i] = register[i + 1] /\ i + 1 \in DOMAIN register
    BY <2>1, HubFacts, LenProperties, HeadTailProperties
  <2>3. c \in Clients /\ IdOf[c] \in Ids /\ obj[c].chans = "open" /\ obj[c].conn # "nil"
    BY <2>2, HubFacts, ClientAssumption DEF WaitingOK
  <2> HIDE DEF c
  <2>4. \A id \in Ids : clients'[id] = IF id = IdOf[c] THEN c ELSE clients[id]
    BY <2>1, <2>3, HubFacts
  <2>5. Unregistered'
    BY <1>0, <2>1, <2>2, <2>4, HubFacts DEF Unregistered, BeforeRegister
  <2>6. WaitingOK'
    <3>1. \A i \in DOMAIN register' : register'[i] # c
      BY <2>2, HubFacts DEF WaitingOK
    <3> QED
      BY <2>1, <2>2, <2>4, <3>1, HubFacts DEF WaitingOK
  <2>7. HubOK'
    BY <2>1 DEF HubOK, SendLabels, CloseLabels
  <2>8. RegistryUsable'
    BY <2>1, <2>3, <2>4, HubFacts DEF RegistryUsable
  <2> QED
    BY <2>1, <2>5, <2>6, <2>7, <2>8, HubFacts DEF Registry, HubNeverPanics
<1>6. CASE HubBroadcast
  <2>1. /\ hub.pc = "select" /\ hub'.pc = "scan"
        /\ UNCHANGED <<obj, register, clients, crash>>
    BY <1>6, HubFacts DEF HubBroadcast, HubStates
  <2> QED
    BY <1>0, <2>1, HubTurns, HubFacts DEF HubNeverPanics, HubOK, SendLabels, CloseLabels
<1>7. CASE HubVisit
  <2>1. hub.pc = "scan" /\ UNCHANGED <<obj, register, clients, crash>>
    BY <1>7 DEF HubVisit, chanVars
  <2>2. PICK id \in hub.todo :
          \/ hub'.pc = "check" /\ hub'.on = clients[id]
          \/ hub'.pc = "scan" /\ hub'.on = hub.on
    BY <1>7, <2>1, HubFacts DEF HubVisit, HubStates
  <2>3. id \in Ids /\ clients[id] # None
    BY <2>2, HubFacts DEF HubStates, RegistryInv, TypeInv, LocalsOK
  <2>4. HubOK'
    BY <2>1, <2>2, <2>3, HubFacts DEF HubOK, SendLabels, CloseLabels
  <2> QED
    BY <1>0, <2>1, <2>4, HubTurns, HubFacts DEF HubNeverPanics
<1>8. CASE HubSend
  <2>1. PICK to \in SendLabels \cup {"idle", "mark"} :
          /\ SendStep(hub.on, hub.msg, hub.pc, to, "hub")
          /\ hub' = IF to = "idle" THEN [hub EXCEPT !.pc = "scan", !.on = None]
                                   ELSE [hub EXCEPT !.pc = to]
    BY <1>8 DEF HubSend
  <2>2. hub.pc \in SendLabels /\ UNCHANGED <<obj, register, clients>>
    BY <1>8 DEF HubSend, chanVars
  <2>3. obj[hub.on].chans = "open"
    BY <2>2, HubFacts DEF RegistryUsable, SendLabels
  <2>4. crash' # "hub"
    BY <2>1, <2>3, HubFacts DEF SendStep, SendCheck, SendEval, SendPut, SendPanics,
                                SendTimeout, HubNeverPanics
  <2>5. \/ hub'.pc = "scan"
        \/ hub'.pc \in SendLabels \cup CloseLabels /\ hub'.on = hub.on
    BY <2>1, HubFacts DEF HubStates, CloseLabels
  <2>6. HubOK'
    BY <2>2, <2>5, HubFacts DEF HubOK, SendLabels, CloseLabels
  <2> QED
    BY <1>0, <2>2, <2>4, <2>6, HubTurns DEF SendLabels
<1>9. CASE HubScanned
  <2>1. /\ hub.pc = "scan" /\ hub'.pc = "select"
        /\ UNCHANGED <<obj, register, clients, crash>>
    BY <1>9, HubFacts DEF HubScanned, HubStates, chanVars
  <2> QED
    BY <1>0, <2>1, HubTurns, HubFacts DEF HubNeverPanics, HubOK, SendLabels, CloseLabels
<1>10. CASE HubErrorCloses
  <2>1. /\ hub.pc \in CloseLabels /\ hub.on \in Clients /\ CloseStep(hub.on, hub.pc)
        /\ UNCHANGED <<register, clients>>
    BY <1>10, HubFacts DEF HubErrorCloses, CloseLabels
  <2>2. Harmless /\ crash' # "hub"
    BY <1>0, <2>1, HubFacts, CloseStepHarmless DEF Harmless, BeforeRegister, Unregistered
  <2>3. \/ hub'.pc = "scan"
        \/ hub'.pc \in CloseLabels /\ hub'.on = hub.on
    BY <1>10, <2>1, HubFacts DEF HubErrorCloses, AfterClose, HubStates, CloseLabels
  <2>4. HubOK'
    BY <2>1, <2>3, HubFacts DEF HubOK, SendLabels, CloseLabels
  <2> QED
    BY <2>1, <2>2, <2>4, HarmlessAnyHub DEF CloseLabels
<1> QED
  BY <1>1, <1>2, <1>3, <1>4, <1>5, <1>6, <1>7, <1>8, <1>9, <1>10 DEF HubRun

LEMMA InitRegistry == Init => RegistryInv
<1> SUFFICES ASSUME Init PROVE RegistryInv
  OBVIOUS
<1>1. TypeInv
  BY InitTypes
<1>2. Registry
  BY ClientAssumption DEF Init, Registry, Unregistered, WaitingOK, HubOK, RegistryUsable,
     HubNeverPanics, SendLabels, CloseLabels
<1> QED
  BY <1>1, <1>2 DEF RegistryInv

LEMMA NextRegistry == RegistryInv /\ [Next]_vars => RegistryInv'
<1> SUFFICES ASSUME RegistryInv, [Next]_vars PROVE RegistryInv'
  OBVIOUS
<1>1. TypeInv'
  BY NextTypes DEF RegistryInv
<1>2. CASE Next
  BY <1>1, <1>2, WriterRegistry, ReaderRegistry, HandlerRegistry, CloserRegistry,
     SenderRegistry, HubRegistry DEF Next, RegistryInv
<1>3. CASE UNCHANGED vars
  <2>1. UNCHANGED <<obj, hpc, register, clients, hub, crash>>
    BY <1>3 DEF vars, objVars, userVars, chanVars, hubVars
  <2>2. Registry'
    BY <2>1 DEF RegistryInv, Registry, Unregistered, WaitingOK, HubOK,
                       RegistryUsable, HubNeverPanics, BeforeRegister
  <2> QED
    BY <1>1, <2>2 DEF RegistryInv
<1> QED
  BY <1>2, <1>3

LEMMA SpecRegistry == Spec => []RegistryInv
BY InitRegistry, NextRegistry, PTL DEF Spec

\* Every client in the registry was opened under the identifier it is found by
\* and its channels can be used, however handlers, pumps, closes and broadcasts
\* interleave (hub.run, NewClient, OpenClient, close).
THEOREM RegistryCorrect == Spec => []RegistryUsable
BY SpecRegistry, PTL DEF RegistryInv, Registry

\* The hub's goroutine closes no channel twice, closes no nil channel and never
\* sends on a closed one (hub.run, client.send).
THEOREM HubSafe == Spec => []HubNeverPanics
BY SpecRegistry, PTL DEF RegistryInv, Registry

-----------------------------------------------------------------------------
(* What the hub releases.                                                  *)

ReleaseStep ==
  /\ \A c \in Clients : obj'[c].chans # obj[c].chans => obj[c].IsClose
  /\ \A id \in Ids : clients[id] # None /\ clients'[id] = None
                       => obj[clients[id]].IsClose

LEMMA HubReleaseStep ==
  ASSUME RegistryInv, HubRun
  PROVE  ReleaseStep
<1>1. CASE obj' = obj /\ clients' = clients
  BY <1>1 DEF ReleaseStep
<1>2. CASE HubClose \/ HubClear
  <2>1. hub.on \in Clients /\ obj[hub.on].IsClose /\ clients' = clients
    BY <1>2, HubFacts DEF HubOK, HubClose, HubClear
  <2>2. \A c \in Clients : c # hub.on => obj'[c] = obj[c]
    BY <1>2, HubFacts DEF HubClose, HubClear
  <2> QED
    BY <2>1, <2>2 DEF ReleaseStep
<1>3. CASE HubRemove
  <2>1. /\ obj[hub.on].IsClose /\ clients[IdOf[hub.on]] = hub.on
        /\ obj' = obj /\ clients' = [clients EXCEPT ![IdOf[hub.on]] = None]
    BY <1>3, HubFacts DEF HubOK, HubRemove
  <2>2. \A id \in Ids : id # IdOf[hub.on] => clients'[id] = clients[id]
    BY <2>1, HubFacts
  <2> QED
    BY <2>1, <2>2 DEF ReleaseStep
<1>4. CASE HubRegister
  <2>1. /\ obj' = obj /\ register # <<>>
        /\ clients' = [clients EXCEPT ![IdOf[Head(register)]] = Head(register)]
    BY <1>4 DEF HubRegister
  <2>2. Head(register) # None
    BY <2>1, HubFacts, HeadTailProperties, ClientAssumption
  <2>3. \A id \in Ids : clients'[id] = clients[id] \/ clients'[id] = Head(register)
    BY <2>1, HubFacts
  <2> QED
    BY <2>1, <2>2, <2>3 DEF ReleaseStep
<1>5. CASE HubErrorCloses
  <2>1. hub.pc \in CloseLabels /\ hub.on \in Clients /\ CloseStep(hub.on, hub.pc)
    BY <1>5, HubFacts DEF HubErrorCloses, CloseLabels
  <2>2. clients' = clients /\ \A c \in Clients : obj'[c].chans = obj[c].chans
    BY <1>5, <2>1, CloseStepHarmless DEF HubErrorCloses
  <2> QED
    BY <2>2 DEF ReleaseStep
<1> QED
  BY <1>1, <1>2, <1>3, <1>4, <1>5 DEF HubRun, HubUnregister, HubBroadcast, HubVisit,
                                     HubSend, HubScanned

LEMMA NextReleaseStep == RegistryInv /\ [Next]_vars => [ReleaseStep]_vars
<1> SUFFICES ASSUME RegistryInv, Next PROVE ReleaseStep
  OBVIOUS
<1>1. ASSUME NEW c \in Clients, Handler(c) PROVE ReleaseStep
  <2>1. clients' = clients
    BY <1>1 DEF Handler, hubVars
  <2>2. obj' = obj \/ Harmless
    BY <1>1, HandlerHarmless DEF Register, objVars
  <2> QED
    BY <2>1, <2>2 DEF Harmless, ReleaseStep
<1>2. CASE HubRun
  BY <1>2, HubReleaseStep
<1>3. CASE Harmless /\ clients' = clients
  BY <1>3 DEF Harmless, ReleaseStep
<1> QED
  BY <1>1, <1>2, <1>3, WriterRegistry, ReaderRegistry, CloserRegistry, SenderRegistry
     DEF Next, Writer, Reader, Closer, Sender, hubVars

\* A late unregister, from a close of the client that had the identifier before,
\* never costs a connection its channels or its entry: hub.run releases closed
\* clients only (hub.go:54), through all of the steps in which it does so.
THEOREM ReleaseCorrect == Spec => ReleasesOnlyClosed
BY SpecRegistry, NextReleaseStep, PTL DEF Spec, ReleasesOnlyClosed, ReleaseStep

-----------------------------------------------------------------------------
(***************************************************************************)
(* Proofs about the user's callbacks in WsPool, for programs that set them *)
(* before OpenClient: onClose has been called before close clears the      *)
(* callbacks, and a handler that returns has called onOpen unless somebody *)
(* has closed the connection.                                              *)
(*                                                                         *)
(* Close may be executed on one client by its readPump, by the handler of  *)
(* the client that replaces it, by the user, and by a sender or the hub    *)
(* whose onError closes it, all at once, and the user may do so between    *)
(* any two statements of OpenClient, or before it.  The invariants are     *)
(* about the farthest of them: whoever is past conn.Close() has closed a   *)
(* connection, so OpenClient has begun, so nobody sets callbacks any more. *)
(***************************************************************************)

Labels == CloseLabels \cup SendLabels

\* Some goroutine is at label l of the close or the send of client c.
At(c, l) ==
  \/ rpc[c] = l
  \/ \E d \in Clients : hpc[d] = l /\ old[d] = c
  \/ \E k \in Closers : kpc[k] = l /\ kon[k] = c
  \/ \E s \in Senders : spc[s] = l /\ msg[s].to = c
  \/ hub.pc = l /\ hub.on = c

-----------------------------------------------------------------------------
(* What a client is, before and after OpenClient.                          *)

\* A client has a connection once OpenClient has upgraded it.
OpenedConn ==
  \A c \in Clients : obj[c].conn # "nil" <=> hpc[c] = "upgraded" \/ Opened(c)

BaseInv == RegistryInv /\ OpenedConn

-----------------------------------------------------------------------------
(* The steps of the pool, as far as callbacks and closes are concerned.    *)

\* Somebody executes the statement at label "at" of c.close().
ClosingStep(c, at) ==
  /\ at \in CloseLabels /\ At(c, at)
  /\ CloseStep(c, at)
  /\ \A d \in Clients, l \in Labels : At(d, l)' => At(d, l) \/ (d = c /\ l = AfterClose[at])
  /\ \A d \in Clients : \/ hpc'[d] = hpc[d]
                        \/ hpc[d] \in CloseLabels /\ hpc'[d] \in CloseLabels \cup {"made"}

\* The handler sets the callbacks, upgrades the connection, marks it as open or
\* calls onOpen; nobody begins to close or to send.
HandlerStep(c) ==
  /\ SetCallbacks(c) \/ Upgrade(c) \/ MarkOpen(c) \/ CallOnOpen(c)
  /\ \A d \in Clients, l \in Labels : At(d, l)' => At(d, l)

\* Every other step leaves callbacks and connections alone, and whoever begins to
\* close or to send is at the beginning of it.
QuietStep ==
  /\ UNCHANGED called
  /\ \A d \in Clients : obj'[d].conn = obj[d].conn /\ obj'[d].bound = obj[d].bound
  /\ \A d \in Clients : \/ hpc'[d] = hpc[d]
                        \/ hpc[d] = "new" /\ hpc'[d] \in {"mark", "made"}
                        \/ hpc[d] = "opened" /\ hpc'[d] = "registered"
                        \/ hpc[d] = "registered" /\ hpc'[d] = "started"
  /\ \A d \in Clients, l \in Labels :
       At(d, l)' => At(d, l) \/ l \in {"mark"} \cup SendLabels

CallbackStep ==
  \/ \E c \in Clients : HandlerStep(c) \/ \E at \in CloseLabels : ClosingStep(c, at)
  \/ QuietStep

\* In terms of the fields of one client, CloseStep is one of these.
LEMMA CloseStepFields ==
  ASSUME TypeInv, NEW c \in Clients, NEW at \in CloseLabels, CloseStep(c, at)
  PROVE  /\ \A d \in Clients :
              /\ obj[d].conn = "nil" <=> obj'[d].conn = "nil"
              /\ obj[d].conn = "closed" => obj'[d].conn = "closed"
              /\ obj'[d].bound => obj[d].bound
              /\ obj[d].bound => obj'[d].bound \/ (d = c /\ at = "clear")
         /\ called \subseteq called'
         /\ at = "shut" => obj'[c].conn = "closed" \/ crash' # "none"
         /\ at = "callback" /\ obj[c].bound => <<c, "onClose">> \in called'
<1>0. obj \in [Clients -> Objects]
  BY DEF TypeInv, TypeOK
<1>1. CASE CloseMark(c, at)
  BY <1>0, <1>1 DEF CloseMark, Objects
<1>2. CASE CloseConn(c, at)
  <2>1. CASE obj[c].conn = "nil"
    BY <1>2, <2>1 DEF CloseConn
  <2>2. CASE obj[c].conn # "nil"
    BY <1>0, <1>2, <2>2 DEF CloseConn, Objects
  <2> QED
    BY <2>1, <2>2
<1>3. CASE CloseCallback(c, at)
  BY <1>3 DEF CloseCallback
<1>4. CASE CloseClear(c, at)
  BY <1>0, <1>4 DEF CloseClear, Objects
<1>5. CASE CloseUnregister(c, at)
  BY <1>5 DEF CloseUnregister
<1> QED
  BY <1>1, <1>2, <1>3, <1>4, <1>5 DEF CloseStep

\* The writePump marks its client when it ends.
LEMMA WriterQuiet ==
  ASSUME BaseInv, NEW c \in Clients, Writer(c)
  PROVE  QuietStep
<1>0. /\ obj \in [Clients -> Objects]
      /\ rpc \in [Clients -> {"none", "loop", "read", "ping", "pingNil", "pong",
                              "done"} \cup CloseLabels]
  BY DEF BaseInv, RegistryInv, TypeInv, TypeOK
<1>1. UNCHANGED <<called, hpc, old, kpc, kon, spc, msg, hub>>
  BY DEF Writer, userVars, hubVars
<1>2. \A d \in Clients : obj'[d].conn = obj[d].conn /\ obj'[d].bound = obj[d].bound
  BY <1>0 DEF Writer, WriterLoop, WriterEval, WriterReceive, WriterLen, WriterDrain,
              WriterChansClosed, WriterControl, WriterExit, Objects
<1>3. \A d \in Clients : rpc'[d] = rpc[d] \/ (rpc[d] # "none" /\ rpc'[d] = "read")
  BY <1>0 DEF Writer, WriterLoop, WriterEval, WriterReceive, WriterLen, WriterDrain,
              WriterChansClosed, WriterControl, WriterExit
<1>4. \A d \in Clients, l \in Labels : At(d, l)' => At(d, l)
  BY <1>1, <1>3 DEF At, Labels, CloseLabels, SendLabels
<1> QED
  BY <1>1, <1>2, <1>3, <1>4 DEF QuietStep

LEMMA ReaderKind ==
  ASSUME BaseInv, NEW c \in Clients, Reader(c)
  PROVE  CallbackStep
<1>0. /\ rpc \in [Clients -> {"none", "loop", "read", "ping", "pingNil", "pong",
                              "done"} \cup CloseLabels]
      /\ TypeInv
  BY DEF BaseInv, RegistryInv, TypeInv, TypeOK
<1>1. UNCHANGED <<hpc, old, kpc, kon, spc, msg, hub>>
  BY DEF Reader, userVars, hubVars
<1>2. CASE ReaderClose(c)
  <2>1. \A d \in Clients, l \in Labels :
          At(d, l)' => At(d, l) \/ (d = c /\ l = AfterClose[rpc[c]])
    BY <1>0, <1>1, <1>2 DEF ReaderClose, At
  <2>3. ClosingStep(c, rpc[c])
    BY <1>1, <1>2, <2>1 DEF ReaderClose, ClosingStep, At
  <2>4. PICK at \in CloseLabels : at = rpc[c]
    BY <1>2 DEF ReaderClose
  <2> QED
    BY <2>3, <2>4 DEF CallbackStep
<1>3. CASE ~ReaderClose(c)
  <2>1. UNCHANGED <<obj, called>>
    BY <1>3 DEF Reader, ReaderLoop, ReadFails, ReadFrame, PingPanics, ReaderDies, objVars
  <2>2. \A d \in Clients \ {c} : rpc'[d] = rpc[d]
    BY <1>0, <1>3 DEF Reader, ReaderLoop, ReadFails, ReadFrame, PingPanics, ReaderDies
  <2>3. rpc'[c] \in {"loop", "read", "ping", "pingNil", "pong", "done", "mark"}
    BY <1>0, <1>3, KindAssumption
       DEF Reader, ReaderLoop, ReadFails, ReadFrame, PingPanics, ReaderDies
  <2>5. \A d \in Clients, l \in Labels : At(d, l)' => At(d, l) \/ (d = c /\ l = "mark")
    BY <1>1, <2>2, <2>3 DEF At, Labels, CloseLabels, SendLabels
  <2>6. QuietStep
    BY <1>1, <2>1, <2>5 DEF QuietStep
  <2> QED
    BY <2>6 DEF CallbackStep
<1> QED
  BY <1>2, <1>3

LEMMA HandlerKind ==
  ASSUME BaseInv, NEW c \in Clients, Handler(c)
  PROVE  CallbackStep
<1>0. /\ hpc \in [Clients -> {"new", "made", "ready", "upgraded", "opened",
                              "registered", "started", "returned", "failed",
                              "done"} \cup CloseLabels]
      /\ rpc \in [Clients -> {"none", "loop", "read", "ping", "pingNil", "pong",
                              "done"} \cup CloseLabels]
      /\ old \in [Clients -> Clients \cup {None}]
      /\ TypeInv
  BY DEF BaseInv, RegistryInv, TypeInv, TypeOK
<1>1. UNCHANGED <<kpc, kon, spc, msg, hub>>
  BY DEF Handler, hubVars
<1>2. CASE CloseOld(c)
  <2>1. PICK at \in CloseLabels : at = hpc[c]
    BY <1>2 DEF CloseOld
  <2>2. PICK o \in Clients : o = old[c]
    BY <1>0, <1>2 DEF CloseOld, TypeInv, LocalsOK
  <2>3. CloseStep(o, at) /\ UNCHANGED rpc /\ At(o, at)
    BY <1>2, <2>1, <2>2 DEF CloseOld, At
  <2>4. /\ \A d \in Clients \ {c} : hpc'[d] = hpc[d] /\ old'[d] = old[d]
        /\ \/ hpc'[c] = "made" /\ at = "unregister"
           \/ hpc'[c] = AfterClose[at] /\ old'[c] = o /\ at # "unregister"
    BY <1>0, <1>2, <2>1, <2>2 DEF CloseOld
  <2>5. at # "unregister" => AfterClose[at] \in CloseLabels
    BY <2>1 DEF AfterClose, CloseLabels
  <2>6. \A d \in Clients, l \in Labels :
          At(d, l)' => At(d, l) \/ (d = o /\ l = AfterClose[at])
    BY <1>1, <2>3, <2>4 DEF At, Labels, CloseLabels, SendLabels
  <2>7. ClosingStep(o, at)
    BY <2>1, <2>3, <2>4, <2>5, <2>6 DEF ClosingStep
  <2> QED
    BY <2>7 DEF CallbackStep
<1>3. ASSUME SetCallbacks(c) \/ Upgrade(c) \/ MarkOpen(c) \/ CallOnOpen(c)
      PROVE  CallbackStep
  <2>1. /\ \A d \in Clients \ {c} : hpc'[d] = hpc[d]
        /\ hpc'[c] \in {"ready", "done", "failed", "upgraded", "opened", "returned"}
        /\ UNCHANGED <<old, rpc>>
    BY <1>0, <1>3 DEF SetCallbacks, Upgrade, MarkOpen, CallOnOpen
  <2>2. \A d \in Clients, l \in Labels : At(d, l)' => At(d, l)
    BY <1>1, <2>1 DEF At, Labels, CloseLabels, SendLabels
  <2> QED
    BY <1>3, <2>2 DEF HandlerStep, CallbackStep
<1>4. CASE NewClient(c)
  <2>1. UNCHANGED <<obj, called, rpc>>
    BY <1>4 DEF NewClient, objVars
  <2>2. \/ hpc' = [hpc EXCEPT ![c] = "made"] /\ UNCHANGED old
        \/ /\ hpc' = [hpc EXCEPT ![c] = "mark"]
           /\ old' = [old EXCEPT ![c] = clients[IdOf[c]]]
           /\ clients[IdOf[c]] # None
    BY <1>4 DEF NewClient
  <2>3. CASE hpc' = [hpc EXCEPT ![c] = "made"] /\ UNCHANGED old
    <3>1. \A d \in Clients, l \in Labels : At(d, l)' => At(d, l)
      BY <1>0, <1>1, <2>1, <2>3 DEF At, Labels, CloseLabels, SendLabels
    <3>2. QuietStep
      BY <1>0, <1>4, <2>1, <2>3, <3>1 DEF QuietStep, NewClient
    <3> QED
      BY <3>2 DEF CallbackStep
  <2>4. CASE /\ hpc' = [hpc EXCEPT ![c] = "mark"]
             /\ old' = [old EXCEPT ![c] = clients[IdOf[c]]]
             /\ clients[IdOf[c]] # None
    <3>1. PICK o \in Clients : o = clients[IdOf[c]]
      BY <1>0, <2>4, ClientAssumption DEF TypeInv, TypeOK
    <3>3. \A d \in Clients, l \in Labels : At(d, l)' => At(d, l) \/ (d = o /\ l = "mark")
      BY <1>0, <1>1, <2>1, <2>4, <3>1 DEF At
    <3>4. QuietStep
      BY <1>0, <1>4, <2>1, <2>4, <3>3 DEF QuietStep, NewClient
    <3> QED
      BY <3>4 DEF CallbackStep
  <2> QED
    BY <2>2, <2>3, <2>4
<1>5. ASSUME Register(c) \/ StartPumps(c) PROVE QuietStep
  <2>1. /\ \A d \in Clients \ {c} : hpc'[d] = hpc[d] /\ rpc'[d] = rpc[d]
        /\ \/ hpc[c] = "opened" /\ hpc'[c] = "registered" /\ rpc'[c] = rpc[c]
           \/ hpc[c] = "registered" /\ hpc'[c] = "started" /\ rpc'[c] = "loop"
        /\ UNCHANGED <<old, obj, called>>
    BY <1>0, <1>5 DEF Register, StartPumps, objVars
  <2>2. \A d \in Clients, l \in Labels : At(d, l)' => At(d, l)
    BY <1>1, <2>1 DEF At, Labels, CloseLabels, SendLabels
  <2> QED
    BY <2>1, <2>2 DEF QuietStep
<1> QED
  BY <1>2, <1>3, <1>4, <1>5 DEF Handler, CallbackStep

LEMMA CloserKind ==
  ASSUME BaseInv, NEW k \in Closers, Closer(k)
  PROVE  CallbackStep
<1>0. /\ kpc \in [Closers -> {"idle", "done"} \cup CloseLabels]
      /\ kon \in [Closers -> Clients \cup {None}]
      /\ TypeInv
  BY DEF BaseInv, RegistryInv, TypeInv, TypeOK
<1>1. UNCHANGED <<rpc, hpc, old, spc, msg, hub>>
  BY DEF Closer, pumpVars, hubVars
<1>2. CASE CloseGoesOn(k)
  <2>1. PICK at \in CloseLabels : at = kpc[k]
    BY <1>2 DEF CloseGoesOn
  <2>2. PICK c \in Clients : c = kon[k]
    BY <1>0, <1>2 DEF CloseGoesOn, TypeInv, LocalsOK
  <2>3. CloseStep(c, at) /\ At(c, at)
    BY <1>2, <2>1, <2>2 DEF CloseGoesOn, At
  <2>4. \A d \in Clients, l \in Labels :
          At(d, l)' => At(d, l) \/ (d = c /\ l = AfterClose[at])
    BY <1>0, <1>1, <1>2, <2>1, <2>2 DEF At, CloseGoesOn
  <2>5. ClosingStep(c, at)
    BY <1>1, <2>1, <2>3, <2>4 DEF ClosingStep
  <2> QED
    BY <2>5 DEF CallbackStep
<1>3. CASE Close(k)
  <2>1. PICK c \in Clients : kon' = [kon EXCEPT ![k] = c]
    BY <1>3 DEF Close
  <2>2. \A d \in Clients, l \in Labels : At(d, l)' => At(d, l) \/ (d = c /\ l = "mark")
    BY <1>0, <1>1, <1>3, <2>1 DEF At, Close
  <2>3. QuietStep
    BY <1>1, <1>3, <2>1, <2>2 DEF QuietStep, Close, objVars
  <2> QED
    BY <2>3 DEF CallbackStep
<1> QED
  BY <1>2, <1>3 DEF Closer

LEMMA SenderKind ==
  ASSUME BaseInv, NEW s \in Senders, Sender(s)
  PROVE  CallbackStep
<1>0. /\ spc \in [Senders -> {"idle", "cast"} \cup SendLabels \cup CloseLabels]
      /\ msg \in [Senders -> Messages \cup {None}]
      /\ TypeInv
  BY DEF BaseInv, RegistryInv, TypeInv, TypeOK
<1>1. UNCHANGED <<rpc, hpc, old, kpc, kon, hub>>
  BY DEF Sender, pumpVars, hubVars
<1>2. CASE SendErrorCloses(s)
  <2>1. PICK at \in CloseLabels : at = spc[s]
    BY <1>2 DEF SendErrorCloses
  <2>2. PICK c \in Clients : c = msg[s].to
    BY <1>0, <1>2 DEF SendErrorCloses, TypeInv, LocalsOK
  <2>3. CloseStep(c, at) /\ At(c, at)
    BY <1>2, <2>1, <2>2 DEF SendErrorCloses, At
  <2>4. /\ \A r \in Senders \ {s} : spc'[r] = spc[r] /\ msg'[r] = msg[r]
        /\ \/ spc'[s] = "idle"
           \/ spc'[s] = AfterClose[at] /\ msg'[s] = msg[s]
    BY <1>0, <1>2, <2>1 DEF SendErrorCloses
  <2>5. \A d \in Clients, l \in Labels :
          At(d, l)' => At(d, l) \/ (d = c /\ l = AfterClose[at])
    BY <1>1, <2>2, <2>4 DEF At, Labels, CloseLabels, SendLabels
  <2>6. ClosingStep(c, at)
    BY <1>1, <2>1, <2>3, <2>5 DEF ClosingStep
  <2> QED
    BY <2>6 DEF CallbackStep
<1>3. CASE ~SendErrorCloses(s)
  <2>1. UNCHANGED <<obj, called>>
    BY <1>3 DEF Sender, Send, SendGoesOn, Broadcast, BroadcastGoesOn, Call, objVars
  <2>2. CASE Send(s)
    <3>1. PICK c \in Clients : Call(s, "check", c)
      BY <2>2 DEF Send
    <3>3. /\ \A r \in Senders \ {s} : spc'[r] = spc[r] /\ msg'[r] = msg[r]
          /\ spc'[s] = "check" /\ msg'[s].to = c
      BY <1>0, <3>1 DEF Call
    <3>4. \A d \in Clients, l \in Labels : At(d, l)' => At(d, l) \/ (d = c /\ l = "check")
      BY <1>1, <3>3 DEF At
    <3>5. QuietStep
      BY <1>1, <2>1, <3>4 DEF QuietStep, SendLabels
    <3> QED
      BY <3>5 DEF CallbackStep
  <2>3. CASE SendGoesOn(s)
    <3>1. PICK to \in SendLabels \cup {"idle", "mark"} :
            /\ spc' = [spc EXCEPT ![s] = to]
            /\ msg' = IF to = "idle" THEN [msg EXCEPT ![s] = None] ELSE msg
      BY <2>3 DEF SendGoesOn
    <3>2. PICK c \in Clients : c = msg[s].to /\ spc[s] \in SendLabels
      BY <1>0, <2>3 DEF SendGoesOn, TypeInv, LocalsOK
    <3>4. /\ \A r \in Senders \ {s} : spc'[r] = spc[r] /\ msg'[r] = msg[r]
          /\ spc'[s] = "idle" \/ (spc'[s] = to /\ msg'[s] = msg[s])
      BY <1>0, <3>1
    <3>5. \A d \in Clients, l \in Labels : At(d, l)' => At(d, l) \/ (d = c /\ l = to)
      BY <1>1, <3>2, <3>4 DEF At, Labels, CloseLabels, SendLabels
    <3>6. \A l \in Labels : l = to => l \in {"mark"} \cup SendLabels
      BY <3>1 DEF Labels, CloseLabels, SendLabels
    <3>7. QuietStep
      BY <1>1, <2>1, <3>5, <3>6 DEF QuietStep
    <3> QED
      BY <3>7 DEF CallbackStep
  <2>4. CASE Broadcast(s) \/ BroadcastGoesOn(s)
    <3>1. /\ \A r \in Senders \ {s} : spc'[r] = spc[r] /\ msg'[r] = msg[r]
          /\ spc'[s] \in {"cast", "idle"}
      BY <1>0, <2>4 DEF Broadcast, BroadcastGoesOn, Call
    <3>2. \A d \in Clients, l \in Labels : At(d, l)' => At(d, l)
      BY <1>1, <3>1 DEF At, Labels, CloseLabels, SendLabels
    <3>3. QuietStep
      BY <1>1, <2>1, <3>2 DEF QuietStep
    <3> QED
      BY <3>3 DEF CallbackStep
  <2> QED
    BY <1>3, <2>2, <2>3, <2>4 DEF Sender
<1> QED
  BY <1>2, <1>3

LEMMA HubKind ==
  ASSUME BaseInv, HubRun
  PROVE  CallbackStep
<1>0. hub \in HubStates /\ obj \in [Clients -> Objects] /\ TypeInv
  BY DEF BaseInv, RegistryInv, TypeInv, TypeOK
<1>1. UNCHANGED <<rpc, hpc, old, kpc, kon, spc, msg>>
  BY DEF HubRun, pumpVars, userVars
<1>2. CASE HubErrorCloses
  <2>1. PICK at \in CloseLabels : at = hub.pc
    BY <1>2 DEF HubErrorCloses
  <2>2. PICK c \in Clients : c = hub.on
    BY <1>0, <1>2 DEF HubErrorCloses, TypeInv, LocalsOK, CloseLabels
  <2>3. CloseStep(c, at) /\ At(c, at)
    BY <1>2, <2>1, <2>2 DEF HubErrorCloses, At
  <2>4. hub'.pc = "scan" \/ (hub'.pc = AfterClose[at] /\ hub'.on = c)
    BY <1>0, <1>2, <2>1, <2>2 DEF HubErrorCloses, HubStates
  <2>5. \A d \in Clients, l \in Labels :
          At(d, l)' => At(d, l) \/ (d = c /\ l = AfterClose[at])
    BY <1>1, <2>4 DEF At, Labels, CloseLabels, SendLabels
  <2>6. ClosingStep(c, at)
    BY <1>1, <2>1, <2>3, <2>5 DEF ClosingStep
  <2> QED
    BY <2>6 DEF CallbackStep
<1>3. CASE ~HubErrorCloses
  <2>1. /\ UNCHANGED called
        /\ \A d \in Clients : obj'[d].conn = obj[d].conn /\ obj'[d].bound = obj[d].bound
    <3>1. UNCHANGED called
      BY <1>3 DEF HubRun
    <3>2. CASE HubClose \/ HubClear
      BY <1>0, <3>1, <3>2 DEF HubClose, HubClear, Objects
    <3>3. CASE ~HubClose /\ ~HubClear
      <4>1. UNCHANGED obj
        BY <1>3, <3>3 DEF HubRun, HubUnregister, HubRemove, HubRegister, HubBroadcast,
                          HubVisit, HubSend, HubScanned
      <4> QED
        BY <3>1, <4>1
    <3> QED
      BY <3>2, <3>3
  <2>2. CASE HubVisit
    <3>1. PICK id \in hub.todo :
            LET c == clients[id]
                receives == ~obj[c].IsClose /\ (hub.msg.to = All \/ hub.msg.to \in Subs[c])
            IN  hub' = [hub EXCEPT !.todo = @ \ {id},
                                   !.on = IF receives THEN c ELSE @,
                                   !.pc = IF receives THEN "check" ELSE @]
      BY <2>2 DEF HubVisit
    <3>2. id \in Ids /\ clients[id] # None
      BY <1>0, <3>1 DEF HubStates, TypeInv, LocalsOK
    <3>3. PICK c \in Clients : c = clients[id]
      BY <1>0, <3>2 DEF TypeInv, TypeOK
    <3>5. hub'.pc = "scan" \/ (hub'.pc = "check" /\ hub'.on = c)
      BY <1>0, <2>2, <3>1, <3>3 DEF HubVisit, HubStates
    <3>6. \A d \in Clients, l \in Labels : At(d, l)' => At(d, l) \/ (d = c /\ l = "check")
      BY <1>1, <3>5 DEF At, Labels, CloseLabels, SendLabels
    <3>7. QuietStep
      BY <1>1, <2>1, <3>6 DEF QuietStep, SendLabels
    <3> QED
      BY <3>7 DEF CallbackStep
  <2>3. CASE HubSend
    <3>1. PICK to \in SendLabels \cup {"idle", "mark"} :
            hub' = IF to = "idle" THEN [hub EXCEPT !.pc = "scan", !.on = None]
                                  ELSE [hub EXCEPT !.pc = to]
      BY <2>3 DEF HubSend
    <3>2. PICK c \in Clients : c = hub.on /\ hub.pc \in SendLabels
      BY <1>0, <2>3 DEF HubSend, TypeInv, LocalsOK, SendLabels
    <3>4. hub'.pc = "scan" \/ (hub'.pc = to /\ hub'.on = c)
      BY <1>0, <3>1, <3>2 DEF HubStates
    <3>5. \A d \in Clients, l \in Labels : At(d, l)' => At(d, l) \/ (d = c /\ l = to)
      BY <1>1, <3>4 DEF At, Labels, CloseLabels, SendLabels
    <3>6. \A l \in Labels : l = to => l \in {"mark"} \cup SendLabels
      BY <3>1 DEF Labels, CloseLabels, SendLabels
    <3>7. QuietStep
      BY <1>1, <2>1, <3>5, <3>6 DEF QuietStep
    <3> QED
      BY <3>7 DEF CallbackStep
  <2>4. CASE ~HubVisit /\ ~HubSend
    <3>1. hub' = hub \/ hub'.pc \in {"select", "close", "reset", "remove", "scan"}
      BY <1>0, <1>3, <2>4
         DEF HubRun, HubUnregister, HubClose, HubClear, HubRemove, HubRegister,
             HubBroadcast, HubScanned, HubStates
    <3>2. \A d \in Clients, l \in Labels : At(d, l)' => At(d, l)
      BY <1>1, <3>1 DEF At, Labels, CloseLabels, SendLabels
    <3>3. QuietStep
      BY <1>1, <2>1, <3>2 DEF QuietStep
    <3> QED
      BY <3>3 DEF CallbackStep
  <2> QED
    BY <2>2, <2>3, <2>4
<1> QED
  BY <1>2, <1>3

LEMMA EveryCallbackStep ==
  ASSUME BaseInv, [Next]_vars
  PROVE  CallbackStep
<1>1. ASSUME NEW c \in Clients, Writer(c) PROVE CallbackStep
  BY <1>1, WriterQuiet DEF CallbackStep
<1>2. ASSUME UNCHANGED vars PROVE QuietStep
  BY <1>2 DEF vars, objVars, pumpVars, userVars, hubVars, QuietStep, At
<1> QED
  BY <1>1, <1>2, ReaderKind, HandlerKind, CloserKind, SenderKind, HubKind
     DEF Next, CallbackStep
-----------------------------------------------------------------------------
LEMMA InitBase == Init => BaseInv
<1> SUFFICES ASSUME Init PROVE BaseInv
  OBVIOUS
<1>1. \A c \in Clients : obj[c].conn = "nil" /\ hpc[c] = "new"
  BY DEF Init
<1> QED
  BY <1>1, InitRegistry DEF BaseInv, OpenedConn, Opened

LEMMA NextBase == BaseInv /\ [Next]_vars => BaseInv'
<1> SUFFICES ASSUME BaseInv, [Next]_vars
             PROVE  OpenedConn'
  BY NextRegistry DEF BaseInv
<1>0. /\ obj \in [Clients -> Objects]
      /\ hpc \in [Clients -> {"new", "made", "ready", "upgraded", "opened",
                              "registered", "started", "returned", "failed",
                              "done"} \cup CloseLabels]
      /\ TypeInv
  BY DEF BaseInv, RegistryInv, TypeInv, TypeOK
<1>1. ASSUME NEW c \in Clients, NEW at \in CloseLabels, ClosingStep(c, at)
      PROVE  OpenedConn'
  <2>1. \A d \in Clients : obj'[d].conn = "nil" <=> obj[d].conn = "nil"
    BY <1>0, <1>1, CloseStepFields DEF ClosingStep
  <2>2. \A d \in Clients : /\ Opened(d)' <=> Opened(d)
                           /\ hpc'[d] = "upgraded" <=> hpc[d] = "upgraded"
    BY <1>1 DEF ClosingStep, Opened, CloseLabels
  <2> QED
    BY <2>1, <2>2 DEF BaseInv, OpenedConn
<1>2. ASSUME NEW c \in Clients, SetCallbacks(c) \/ MarkOpen(c) \/ CallOnOpen(c)
      PROVE  OpenedConn'
  <2>1. \A d \in Clients :
          /\ obj'[d].conn = obj[d].conn
          /\ hpc'[d] = "upgraded" \/ Opened(d)' <=> hpc[d] = "upgraded" \/ Opened(d)
    BY <1>0, <1>2 DEF SetCallbacks, MarkOpen, CallOnOpen, Opened, Objects
  <2> QED
    BY <2>1 DEF BaseInv, OpenedConn
<1>3. ASSUME NEW c \in Clients, Upgrade(c)
      PROVE  OpenedConn'
  <2>1. /\ \A d \in Clients \ {c} : obj'[d] = obj[d] /\ hpc'[d] = hpc[d]
        /\ ~Opened(c) /\ hpc[c] # "upgraded"
    BY <1>0, <1>3 DEF Upgrade, Opened
  <2>2. \/ hpc'[c] = "failed" /\ obj' = obj
        \/ hpc'[c] = "upgraded" /\ obj'[c].conn = "open"
    BY <1>0, <1>3 DEF Upgrade, Objects
  <2> QED
    BY <2>1, <2>2 DEF BaseInv, OpenedConn, Opened
<1>4. ASSUME QuietStep
      PROVE  OpenedConn'
  <2>1. \A d \in Clients : /\ Opened(d)' <=> Opened(d)
                           /\ hpc'[d] = "upgraded" <=> hpc[d] = "upgraded"
    BY <1>4 DEF QuietStep, Opened
  <2> QED
    BY <1>4, <2>1 DEF QuietStep, BaseInv, OpenedConn
<1> QED
  BY <1>1, <1>2, <1>3, <1>4, EveryCallbackStep DEF CallbackStep, HandlerStep

LEMMA SpecBase == Spec => []BaseInv
BY InitBase, NextBase, PTL DEF Spec

-----------------------------------------------------------------------------
(* onClose before the callbacks are cleared.                               *)

\* Whoever is past conn.Close() has closed a connection.
PastShut ==
  \A c \in Clients : \A l \in {"callback", "running", "clear", "unregister"} :
    At(c, l) => obj[c].conn = "closed"

\* Whoever is past the call of onClose, or in it, has called it or has found the
\* callbacks cleared by somebody else.
PastCallback ==
  \A c \in Clients : \A l \in {"running", "clear"} :
    At(c, l) /\ obj[c].bound => <<c, "onClose">> \in called

CloseInv == BaseInv /\ (crash = "none" => PastShut /\ PastCallback)

LEMMA InitClose == Init => CloseInv
<1> SUFFICES ASSUME Init PROVE PastShut /\ PastCallback
  BY InitBase DEF CloseInv
<1>1. \A c \in Clients, l \in CloseLabels : ~At(c, l)
  BY DEF Init, At, CloseLabels
<1> QED
  BY <1>1 DEF PastShut, PastCallback, CloseLabels

LEMMA NextPastShut ==
  ASSUME CloseInv, [Next]_vars, crash = "none", crash' = "none"
  PROVE  PastShut'
<1> DEFINE Past == {"callback", "running", "clear", "unregister"}
<1>0. /\ TypeInv /\ BaseInv
      /\ obj \in [Clients -> Objects]
      /\ Past \subseteq Labels
  BY DEF CloseInv, BaseInv, RegistryInv, TypeInv, TypeOK, Labels, CloseLabels
<1>1. SUFFICES ASSUME NEW d \in Clients, NEW l \in Past, At(d, l)'
               PROVE  obj'[d].conn = "closed"
  BY DEF PastShut
<1>2. At(d, l) => obj[d].conn = "closed"
  BY DEF CloseInv, PastShut
<1>3. ASSUME NEW c \in Clients, NEW at \in CloseLabels, ClosingStep(c, at)
      PROVE  obj'[d].conn = "closed"
  <2>1. At(d, l) \/ (d = c /\ l = AfterClose[at])
    BY <1>0, <1>1, <1>3 DEF ClosingStep
  <2>2. obj[d].conn = "closed" => obj'[d].conn = "closed"
    BY <1>0, <1>3, CloseStepFields DEF ClosingStep
  <2>3. ASSUME d = c, l = AfterClose[at] PROVE obj'[d].conn = "closed"
    <3>1. at \in {"shut"} \cup Past
      BY <2>3 DEF AfterClose, CloseLabels
    <3>2. CASE at = "shut"
      BY <1>0, <1>3, <2>3, <3>2, CloseStepFields DEF ClosingStep
    <3>3. CASE at \in Past
      BY <1>3, <2>2, <2>3, <3>3 DEF ClosingStep, CloseInv, PastShut
    <3> QED
      BY <3>1, <3>2, <3>3
  <2> QED
    BY <1>2, <2>1, <2>2, <2>3
<1>4. ASSUME NEW c \in Clients, HandlerStep(c) PROVE obj'[d].conn = "closed"
  <2>1. obj[d].conn = "closed"
    BY <1>0, <1>1, <1>2, <1>4 DEF HandlerStep
  <2>2. ~(Upgrade(c) /\ d = c)
    BY <2>1 DEF Upgrade, CloseInv, BaseInv, OpenedConn, Opened
  <2> QED
    BY <1>0, <1>4, <2>1, <2>2
       DEF HandlerStep, SetCallbacks, Upgrade, MarkOpen, CallOnOpen, Objects
<1>5. ASSUME QuietStep PROVE obj'[d].conn = "closed"
  <2>1. At(d, l)
    BY <1>0, <1>1, <1>5 DEF QuietStep, SendLabels
  <2> QED
    BY <1>2, <1>5, <2>1 DEF QuietStep
<1> QED
  BY <1>0, <1>3, <1>4, <1>5, EveryCallbackStep DEF CallbackStep

LEMMA NextPastCallback ==
  ASSUME BindFirst, CloseInv, [Next]_vars, crash = "none", crash' = "none"
  PROVE  PastCallback'
<1>0. /\ TypeInv /\ BaseInv
      /\ obj \in [Clients -> Objects]
      /\ {"running", "clear"} \subseteq Labels
  BY DEF CloseInv, BaseInv, RegistryInv, TypeInv, TypeOK, Labels, CloseLabels
<1>1. SUFFICES ASSUME NEW d \in Clients, NEW l \in {"running", "clear"},
                      At(d, l)', obj'[d].bound
               PROVE  <<d, "onClose">> \in called'
  BY DEF PastCallback
<1>2. At(d, l) /\ obj[d].bound => <<d, "onClose">> \in called
  BY DEF CloseInv, PastCallback
<1>3. ASSUME NEW c \in Clients, NEW at \in CloseLabels, ClosingStep(c, at)
      PROVE  <<d, "onClose">> \in called'
  <2>1. At(d, l) \/ (d = c /\ l = AfterClose[at])
    BY <1>0, <1>1, <1>3 DEF ClosingStep
  <2>2. obj[d].bound /\ called \subseteq called'
    BY <1>0, <1>1, <1>3, CloseStepFields DEF ClosingStep
  <2>3. ASSUME d = c, l = AfterClose[at] PROVE <<d, "onClose">> \in called'
    <3>1. at \in {"callback", "running"}
      BY <2>3 DEF AfterClose, CloseLabels
    <3>2. CASE at = "callback"
      BY <1>0, <1>3, <2>2, <2>3, <3>2, CloseStepFields DEF ClosingStep
    <3>3. CASE at = "running"
      BY <1>3, <2>2, <2>3, <3>3 DEF ClosingStep, CloseInv, PastCallback
    <3> QED
      BY <3>1, <3>2, <3>3
  <2> QED
    BY <1>2, <2>1, <2>2, <2>3
<1>4. ASSUME NEW c \in Clients, HandlerStep(c) PROVE <<d, "onClose">> \in called'
  <2>1. At(d, l)
    BY <1>0, <1>1, <1>4 DEF HandlerStep
  <2>2. obj[d].conn = "closed"
    BY <2>1 DEF CloseInv, PastShut
  <2>3. ~(SetCallbacks(c) /\ d = c)
    BY <2>2 DEF SetCallbacks, CloseInv, BaseInv, OpenedConn, Opened
  <2>4. obj'[d].bound => obj[d].bound
    BY <1>0, <1>4, <2>3 DEF HandlerStep, SetCallbacks, Upgrade, MarkOpen, CallOnOpen, Objects
  <2>5. called \subseteq called'
    BY <1>4 DEF HandlerStep, SetCallbacks, Upgrade, MarkOpen, CallOnOpen
  <2> QED
    BY <1>1, <1>2, <2>1, <2>4, <2>5
<1>5. ASSUME QuietStep PROVE <<d, "onClose">> \in called'
  <2>1. At(d, l)
    BY <1>0, <1>1, <1>5 DEF QuietStep, SendLabels
  <2> QED
    BY <1>1, <1>2, <1>5, <2>1 DEF QuietStep
<1> QED
  BY <1>0, <1>3, <1>4, <1>5, EveryCallbackStep DEF CallbackStep

\* A process that has crashed takes no step.
LEMMA CrashIsFinal == [Next]_vars /\ crash # "none" => UNCHANGED vars
BY DEF Next

LEMMA NextClose == ASSUME BindFirst PROVE CloseInv /\ [Next]_vars => CloseInv'
<1> SUFFICES ASSUME CloseInv, [Next]_vars, crash' = "none"
             PROVE  PastShut' /\ PastCallback'
  BY NextBase DEF CloseInv
<1>1. crash = "none"
  BY CrashIsFinal DEF vars
<1> QED
  BY <1>1, NextPastShut, NextPastCallback

\* What a step may do to the callbacks of a client.
ClearStep ==
  \A c \in Clients : obj[c].bound /\ ~obj'[c].bound => <<c, "onClose">> \in called

LEMMA NextClearStep == CloseInv /\ [Next]_vars => [ClearStep]_vars
<1> SUFFICES ASSUME CloseInv, [Next]_vars, ~UNCHANGED vars,
                    NEW d \in Clients, obj[d].bound, ~obj'[d].bound
             PROVE  <<d, "onClose">> \in called
  BY DEF ClearStep
<1>0. TypeInv /\ BaseInv /\ obj \in [Clients -> Objects] /\ crash = "none"
  BY CrashIsFinal DEF CloseInv, BaseInv, RegistryInv, TypeInv, TypeOK
<1>1. ASSUME NEW c \in Clients, NEW at \in CloseLabels, ClosingStep(c, at)
      PROVE  <<d, "onClose">> \in called
  <2>1. CloseStep(c, at) /\ At(c, at)
    BY <1>1 DEF ClosingStep
  <2>2. obj[d].bound => obj'[d].bound \/ (d = c /\ at = "clear")
    BY <1>0, <2>1, CloseStepFields
  <2> QED
    BY <1>0, <2>1, <2>2 DEF CloseInv, PastCallback
<1>2. ASSUME NEW c \in Clients, HandlerStep(c) PROVE FALSE
  BY <1>0, <1>2 DEF HandlerStep, SetCallbacks, Upgrade, MarkOpen, CallOnOpen, Objects
<1>3. ~QuietStep
  BY DEF QuietStep
<1> QED
  BY <1>0, <1>1, <1>2, <1>3, EveryCallbackStep DEF CallbackStep

\* If the callbacks are set before OpenClient, close never takes them away before
\* the user's onClose has been called, whoever closes the connection and however
\* often (Client.close, client.go:249).
THEOREM CloseCallbackCorrect ==
  ASSUME BindFirst
  PROVE  Spec => OnCloseBeforeClear
<1>1. CloseInv /\ [Next]_vars => CloseInv'
  BY NextClose
<1>2. CloseInv /\ [Next]_vars => [ClearStep]_vars
  BY NextClearStep
<1>3. OnCloseBeforeClear <=> [][ClearStep]_vars
  BY PTL DEF OnCloseBeforeClear, ClearStep
<1> QED
  BY <1>1, <1>2, <1>3, InitClose, PTL DEF Spec
-----------------------------------------------------------------------------
(* onOpen by the time the handler returns.                                 *)

\* From the callbacks being set to the call of onOpen, only a close that has
\* closed the connection can have cleared them.
OpenBound ==
  \A c \in Clients :
    /\ hpc[c] \in {"ready", "upgraded", "opened", "registered", "started"}
    /\ obj[c].conn # "closed"
    => obj[c].bound

OpenInv == CloseInv /\ OpenBound /\ OpenCallbackRuns

LEMMA InitOpen == Init => OpenInv
<1> SUFFICES ASSUME Init PROVE OpenBound /\ OpenCallbackRuns
  BY InitClose DEF OpenInv
<1>1. \A c \in Clients : hpc[c] = "new"
  BY DEF Init
<1> QED
  BY <1>1 DEF OpenBound, OpenCallbackRuns

\* A statement of close: it clears the callbacks of a closed connection only.
LEMMA ClosingOpen ==
  ASSUME OpenInv, crash = "none",
         NEW c \in Clients, NEW at \in CloseLabels, ClosingStep(c, at)
  PROVE  OpenBound' /\ OpenCallbackRuns'
<1>0. TypeInv
  BY DEF OpenInv, CloseInv, BaseInv, RegistryInv
<1>1. /\ \A d \in Clients : /\ obj[d].conn = "nil" <=> obj'[d].conn = "nil"
                            /\ obj[d].conn = "closed" => obj'[d].conn = "closed"
                            /\ obj[d].bound => obj'[d].bound \/ (d = c /\ at = "clear")
      /\ called \subseteq called'
  BY <1>0, CloseStepFields DEF ClosingStep
<1>2. at = "clear" => obj[c].conn = "closed"
  BY DEF ClosingStep, OpenInv, CloseInv, PastShut
<1>3. \A d \in Clients : hpc'[d] \notin CloseLabels \cup {"made"} => hpc'[d] = hpc[d]
  BY DEF ClosingStep
<1>4. \A d \in Clients : obj'[d].conn = "open" => obj[d].conn = "open"
  <2>1. obj \in [Clients -> Objects]
    BY <1>0 DEF TypeInv, TypeOK
  <2>2. \A d \in Clients : obj[d].conn \in {"nil", "open", "closed"}
    BY <2>1 DEF Objects
  <2> QED
    BY <1>1, <2>2
<1>5. OpenBound'
  BY <1>1, <1>2, <1>3 DEF OpenInv, OpenBound, CloseLabels
<1>6. OpenCallbackRuns'
  BY <1>1, <1>3, <1>4 DEF OpenInv, OpenCallbackRuns, CloseLabels
<1> QED
  BY <1>5, <1>6

LEMMA HandlerOpen ==
  ASSUME BindFirst, OpenInv, NEW c \in Clients, HandlerStep(c)
  PROVE  OpenBound' /\ OpenCallbackRuns'
<1>0. /\ obj \in [Clients -> Objects]
      /\ hpc \in [Clients -> {"new", "made", "ready", "upgraded", "opened",
                              "registered", "started", "returned", "failed",
                              "done"} \cup CloseLabels]
  BY DEF OpenInv, CloseInv, BaseInv, RegistryInv, TypeInv, TypeOK
<1>1. /\ \A d \in Clients \ {c} : obj'[d] = obj[d] /\ hpc'[d] = hpc[d]
      /\ called \subseteq called'
  BY <1>0 DEF HandlerStep, SetCallbacks, Upgrade, MarkOpen, CallOnOpen
<1>2. CASE SetCallbacks(c)
  <2>1. obj'[c].bound /\ hpc'[c] = "ready"
    BY <1>0, <1>2 DEF SetCallbacks, Objects
  <2> QED
    BY <1>1, <2>1 DEF OpenInv, OpenBound, OpenCallbackRuns
<1>3. CASE Upgrade(c)
  <2>1. hpc[c] = "ready" /\ obj[c].conn = "nil"
    BY <1>3 DEF Upgrade, OpenInv, CloseInv, BaseInv, OpenedConn, Opened
  <2>2. obj[c].bound
    BY <2>1 DEF OpenInv, OpenBound
  <2>3. hpc'[c] \in {"failed", "upgraded"} /\ obj'[c].bound
    BY <1>0, <1>3, <2>2 DEF Upgrade, Objects
  <2> QED
    BY <1>1, <2>3 DEF OpenInv, OpenBound, OpenCallbackRuns
<1>4. CASE MarkOpen(c)
  <2>1. /\ hpc[c] = "upgraded" /\ hpc'[c] = "opened"
        /\ obj'[c].bound = obj[c].bound /\ obj'[c].conn = obj[c].conn
    BY <1>0, <1>4 DEF MarkOpen, Objects
  <2> QED
    BY <1>1, <2>1 DEF OpenInv, OpenBound, OpenCallbackRuns
<1>5. CASE CallOnOpen(c)
  <2>1. /\ obj' = obj /\ hpc[c] = "started" /\ hpc'[c] = "done"
        /\ obj[c].bound => <<c, "onOpen">> \in called'
    BY <1>0, <1>5 DEF CallOnOpen
  <2> QED
    BY <1>1, <2>1 DEF OpenInv, OpenBound, OpenCallbackRuns
<1> QED
  BY <1>2, <1>3, <1>4, <1>5 DEF HandlerStep

LEMMA NextOpen == ASSUME BindFirst PROVE OpenInv /\ [Next]_vars => OpenInv'
<1> SUFFICES ASSUME OpenInv, [Next]_vars PROVE OpenBound' /\ OpenCallbackRuns'
  BY NextClose DEF OpenInv
<1>1. CASE crash # "none"
  <2>1. UNCHANGED <<obj, called, hpc>>
    BY <1>1, CrashIsFinal DEF vars, objVars, userVars
  <2> QED
    BY <2>1 DEF OpenInv, OpenBound, OpenCallbackRuns
<1>2. CASE crash = "none"
  <2>1. ASSUME QuietStep PROVE OpenBound' /\ OpenCallbackRuns'
    BY <2>1 DEF QuietStep, OpenInv, OpenBound, OpenCallbackRuns
  <2>2. BaseInv
    BY DEF OpenInv, CloseInv
  <2> QED
    BY <1>2, <2>1, <2>2, ClosingOpen, HandlerOpen, EveryCallbackStep DEF CallbackStep
<1> QED
  BY <1>1, <1>2

\* If the callbacks are set before OpenClient, then whenever the handler has
\* returned and the websocket has not been closed, the user's onOpen was called
\* (OpenClient, publicApi.go:56-101), whatever other goroutines close the client
\* between any two of its statements or before it: who clears the callbacks has
\* closed the connection first.
THEOREM OpenCallbackCorrect ==
  ASSUME BindFirst
  PROVE  Spec => []OpenCallbackRuns
<1>1. OpenInv /\ [Next]_vars => OpenInv'
  BY NextOpen
<1>2. OpenInv => OpenCallbackRuns
  BY DEF OpenInv
<1> QED
  BY <1>1, <1>2, InitOpen, PTL DEF Spec
=============================================================================
