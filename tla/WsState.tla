------------------------------ MODULE WsState -------------------------------
(***************************************************************************)
(* The shared state of wsPool and the two operations that several          *)
(* goroutines execute on it, Client.close and Client.send.                 *)
(*                                                                         *)
(* Fields of a Client are read and written by its pumps, by the hub and by *)
(* the user's goroutines without a lock; one read or one write of a field  *)
(* is a step.  A channel operation is a step, and an operation that reads  *)
(* a channel field first and blocks on the channel it found later is two.  *)
(* An unrecovered panic ends the process: no step follows it.              *)
(***************************************************************************)
EXTENDS Integers, Sequences

CONSTANTS
  Clients,     \* *Client objects, one per websocket handshake
  Ids,         \* connection identifiers, Config.Id
  IdOf,        \* the identifier each client object is created with
  Subs,        \* the broadcast channels each client object subscribes to
  Channels,    \* names of broadcast channels
  All,         \* the channel name "0": every connection
  Senders,     \* user goroutines that call Send and Broadcast
  Closers,     \* user goroutines that call Close
  None,        \* no client, nil
  SendCap,     \* capacity of sendCh (4096)
  HubCap,      \* capacity of the hub's channels (2048)
  MaxSends,    \* bound: calls of Send and Broadcast per sender
  Targets,     \* bound: the clients and channels that senders address
  MaxFrames,   \* bound: frames received per client
  FrameKinds,  \* the kinds of frames peers send: "data", "ping", "pong"
  BindFirst,   \* callbacks are set before OpenClient (as in publicApi_test.go)
               \* and not after it (as in README.md and example/server.go)
  CloseEarly,  \* Close is called on clients that were never opened, too
  ErrorCloses  \* the user's onError closes the client when a send to it fails

ASSUME ClientAssumption == None \notin Clients /\ IdOf \in [Clients -> Ids]
ASSUME SubsAssumption == Subs \in [Clients -> SUBSET Channels]
ASSUME NameAssumption == Clients \cap (Channels \cup {All}) = {}
ASSUME CapAssumption == SendCap \in Nat \ {0} /\ HubCap \in Nat \ {0}
ASSUME BoundAssumption == MaxSends \in Nat /\ MaxFrames \in Nat
ASSUME KindAssumption == FrameKinds \subseteq {"data", "ping", "pong"}
ASSUME OrderAssumption ==
  BindFirst \in BOOLEAN /\ CloseEarly \in BOOLEAN /\ ErrorCloses \in BOOLEAN

VARIABLES
  obj,         \* fields of each Client: IsClose, conn, chans (sendCh and ping
               \* are closed, then set to nil, together), bound (user callbacks)
  called,      \* history: the user callbacks onOpen and onClose that were called
  buf,         \* the messages in each sendCh
  accepted,    \* history: messages put into each sendCh
  delivered,   \* history: messages written to each connection
  wpc, left,   \* writePump: control point, messages still to drain
  rpc, frames, \* readPump: control point, frames received
  panicking,   \* the clients whose readPump is closing because of a panic
  hpc, old,    \* the http handler of each client: control point, NewClient's
               \* oldclient
  kpc, kon,    \* closers: control point, client
  spc, msg,    \* senders: control point, message
  calls,       \* senders: calls made
  register, unregister, broadcast,   \* the hub's channels
  clients,     \* hub.clients
  hub,         \* the hub goroutine: pc, on (client), todo (ids of the
               \* iteration), msg
  crash        \* "none" or what the process died of

objVars == <<obj, called>>
streamVars == <<buf, accepted, delivered>>
pumpVars == <<wpc, left, rpc, frames, panicking>>
userVars == <<hpc, old, kpc, kon, spc, msg, calls>>
chanVars == <<register, unregister, broadcast>>
hubVars == <<clients, hub>>

vars == <<objVars, streamVars, pumpVars, userVars, chanVars, hubVars, crash>>

\* A message says who sent it, by which of the sender's calls, and to whom: a
\* client (Send), a channel or All (Broadcast).
Messages ==
  [from : Senders, n : 1 .. MaxSends, to : Clients \cup Channels \cup {All}]

CloseLabels == {"mark", "shut", "callback", "running", "clear", "unregister"}

SendLabels == {"check", "eval", "wait", "waitNil"}

\* The fields of a Client that matter.
Objects ==
  [IsClose : BOOLEAN, conn : {"nil", "open", "closed"},
   chans : {"open", "closed", "nil"}, bound : BOOLEAN]

\* The locals of hub.run: control point, client, ids left to visit, message.
HubStates ==
  [pc : {"select", "close", "reset", "remove", "scan"} \cup SendLabels \cup CloseLabels,
   on : Clients \cup {None}, todo : SUBSET Ids, msg : Messages \cup {None}]

TypeOK ==
  /\ obj \in [Clients -> Objects]
  /\ called \subseteq Clients \X {"onOpen", "onClose"}
  /\ buf \in [Clients -> Seq(Messages)]
  /\ accepted \in [Clients -> Seq(Messages)]
  /\ delivered \in [Clients -> Seq(Messages)]
  /\ wpc \in [Clients -> {"none", "loop", "eval", "select", "selectNil", "len",
                          "drain", "exit", "done"}]
  /\ left \in [Clients -> Nat]
  /\ rpc \in [Clients -> {"none", "loop", "read", "ping", "pingNil", "pong",
                          "done"} \cup CloseLabels]
  /\ frames \in [Clients -> 0 .. MaxFrames]
  /\ panicking \subseteq Clients
  /\ hpc \in [Clients -> {"new", "made", "ready", "upgraded", "opened",
                          "registered", "started", "returned", "failed",
                          "done"} \cup CloseLabels]
  /\ old \in [Clients -> Clients \cup {None}]
  /\ kpc \in [Closers -> {"idle", "done"} \cup CloseLabels]
  /\ kon \in [Closers -> Clients \cup {None}]
  /\ spc \in [Senders -> {"idle", "cast"} \cup SendLabels \cup CloseLabels]
  /\ msg \in [Senders -> Messages \cup {None}]
  /\ calls \in [Senders -> 0 .. MaxSends]
  /\ register \in Seq(Clients)
  /\ unregister \in Seq(Ids)
  /\ broadcast \in Seq(Messages)
  /\ clients \in [Ids -> Clients \cup {None}]
  /\ hub \in HubStates
  /\ crash \in {"none", "nilConn", "readPump", "send", "hub"}

Init ==
  /\ obj = [c \in Clients |-> [IsClose |-> TRUE, conn |-> "nil",
                               chans |-> "open", bound |-> FALSE]]
  /\ called = {}
  /\ buf = [c \in Clients |-> <<>>]
  /\ accepted = [c \in Clients |-> <<>>]
  /\ delivered = [c \in Clients |-> <<>>]
  /\ wpc = [c \in Clients |-> "none"]
  /\ left = [c \in Clients |-> 0]
  /\ rpc = [c \in Clients |-> "none"]
  /\ frames = [c \in Clients |-> 0]
  /\ panicking = {}
  /\ hpc = [c \in Clients |-> "new"]
  /\ old = [c \in Clients |-> None]
  /\ kpc = [k \in Closers |-> "idle"]
  /\ kon = [k \in Closers |-> None]
  /\ spc = [s \in Senders |-> "idle"]
  /\ msg = [s \in Senders |-> None]
  /\ calls = [s \in Senders |-> 0]
  /\ register = <<>>
  /\ unregister = <<>>
  /\ broadcast = <<>>
  /\ clients = [id \in Ids |-> None]
  /\ hub = [pc |-> "select", on |-> None, todo |-> {}, msg |-> None]
  /\ crash = "none"

-----------------------------------------------------------------------------
(* Client.close, executed by readPump's deferred function, by a user's     *)
(* Close, by NewClient on the client it replaces, and by an onError that   *)
(* calls Close, in the goroutine that executes send.                       *)

\* Mutant: the callbacks are cleared before the close callback is run.
AfterCloseClearFirst ==
  [mark |-> "shut", shut |-> "clear", clear |-> "callback",
   callback |-> "running", running |-> "unregister", unregister |-> "done"]

\* Mutant: the connection is closed after the callbacks are cleared.
AfterCloseConnLate ==
  [mark |-> "callback", callback |-> "running", running |-> "clear",
   clear |-> "shut", shut |-> "unregister", unregister |-> "done"]

\* Control moves from one statement of close to the next.
AfterClose ==
  [mark |-> "shut", shut |-> "callback", callback |-> "running",
   running |-> "clear", clear |-> "unregister", unregister |-> "done"]

CloseMark(c, at) ==
  /\ at = "mark"
  /\ obj' = [obj EXCEPT ![c].IsClose = TRUE]
  /\ UNCHANGED <<called, unregister, crash>>

\* conn is nil when OpenClient was not called or its upgrade failed.
CloseConn(c, at) ==
  /\ at = "shut"
  /\ \/ /\ obj[c].conn = "nil"
        /\ crash' = "nilConn"
        /\ UNCHANGED obj
     \/ /\ obj[c].conn # "nil"
        /\ obj' = [obj EXCEPT ![c].conn = "closed"]
        /\ UNCHANGED crash
  /\ UNCHANGED <<called, unregister>>

\* c.onClose() begins; at label "running" it is on its way.
CloseCallback(c, at) ==
  /\ at \in {"callback", "running"}
  /\ called' = IF at = "callback" /\ obj[c].bound
               THEN called \cup {<<c, "onClose">>} ELSE called
  /\ UNCHANGED <<obj, unregister, crash>>

CloseClear(c, at) ==
  /\ at = "clear"
  /\ obj' = [obj EXCEPT ![c].bound = FALSE]
  /\ UNCHANGED <<called, unregister, crash>>

CloseUnregister(c, at) ==
  /\ at = "unregister"
  /\ Len(unregister) < HubCap
  /\ unregister' = Append(unregister, IdOf[c])
  /\ UNCHANGED <<obj, called, crash>>

\* The statement of c.close() that a goroutine at label "at" executes.
CloseStep(c, at) ==
  \/ CloseMark(c, at) \/ CloseConn(c, at) \/ CloseCallback(c, at)
  \/ CloseClear(c, at) \/ CloseUnregister(c, at)

-----------------------------------------------------------------------------
(* Client.send, executed by a user's Send and by the hub's broadcasts: a   *)
(* step of c.send(m) from label "at" to label "to", "idle" on return.      *)

\* c.onError(...) is the last thing send does: a no-op unless it was set, or the
\* user's, which may begin to close the client.
AfterError(c) == IF ErrorCloses /\ obj[c].bound THEN "mark" ELSE "idle"

SendCheck(c, at, to) ==
  /\ at = "check"
  /\ to = IF obj[c].IsClose THEN AfterError(c) ELSE "eval"
  /\ UNCHANGED <<buf, accepted, crash>>

\* The select reads c.sendCh once; nil is never ready.
SendEval(c, at, to) ==
  /\ at = "eval"
  /\ to = IF obj[c].chans = "nil" THEN "waitNil" ELSE "wait"
  /\ UNCHANGED <<buf, accepted, crash>>

SendPut(c, m, at, to) ==
  /\ at = "wait" /\ obj[c].chans = "open" /\ Len(buf[c]) < SendCap
  /\ to = "idle"
  /\ buf' = [buf EXCEPT ![c] = Append(@, m)]
  /\ accepted' = [accepted EXCEPT ![c] = Append(@, m)]
  /\ UNCHANGED crash

\* Sending on a closed channel panics.
SendPanics(c, at, to, cause) ==
  /\ at = "wait" /\ obj[c].chans # "open"
  /\ to = "wait"
  /\ crash' = cause
  /\ UNCHANGED <<buf, accepted>>

\* Mutant: no timer.
SendWithoutTimer(c, at, to) ==
  /\ at = "never" /\ to = "idle"
  /\ UNCHANGED <<buf, accepted, crash>>

\* The timer of 800 ms fires; the message is dropped.
SendTimeout(c, at, to) ==
  /\ at \in {"wait", "waitNil"} /\ to = AfterError(c)
  /\ UNCHANGED <<buf, accepted, crash>>

SendStep(c, m, at, to, cause) ==
  \/ SendCheck(c, at, to) \/ SendEval(c, at, to) \/ SendPut(c, m, at, to)
  \/ SendPanics(c, at, to, cause) \/ SendTimeout(c, at, to)
=============================================================================
