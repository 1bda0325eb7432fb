# A TLA+ model of wsPool

wsPool keeps websocket connections in a pool: a hub goroutine owns a registry
of connections, every connection has two goroutines (pumps), user callbacks
run in a goroutine pool per connection, and the user's goroutines open, close
and send. There are few locks. What makes the code hard is that the fields of
a `Client` are shared without one, that channels are closed while others use
them, and that goroutines wait for each other over small or unbuffered
channels. The modules here model those interleavings.

Contents: 1 inventory, 2 modules and code, 3 runs, 4 bounds, 5 fairness,
6 proofs, 7 where code and comments disagree, 8 what is left out, 9 plan.

## 1. Inventory

| Component | Code | State | Operations |
|---|---|---|---|
| Client and its pumps | `client.go` | `IsClose`, `conn`, `sendCh`, `ping`, `sendPing`, callbacks | `readPump`, `writePump`, `send`, `close` |
| Hub | `hub.go`, `private.go` | `register`, `unregister`, `broadcast`, `clients` | `run`, `brostcastMsg` |
| Public API | `publicApi.go` | (the client's, and `channel` under `mu`) | `NewClient`, `OpenClient`, `On...`, `Close`, `Send`, `Broadcast`, `AddChannel`, `RemoveChannel` |
| Initialisation | `init.go` | `wsSever` | `InitWsPool`, `ErrFun` by way of `dump` |
| Goroutine pool | `util/grpool/grpool.go` | `limit`, `count`, `list`, `closed` | `Add`, `fork`, `Close` |
| List, Int, Bool | `util/grpool/*.go` | a mutex and a linked list; atomics | `PushFront`, `PopBack`, ...; `Add`, `Cas`, `Set`, `Val` |
| StrAnyMap | `util/gmap` | `mu`, `data` | some 25 methods |
| RWMutex | `util/rwmutex` | a `sync.RWMutex` or nothing | `Lock`, `Unlock`, `RLock`, `RUnlock` |
| StrArray | `util/garray` | `mu`, `array` | used by `AddChannel`, `RemoveChannel` |
| Second goroutine pool | `gopool.go` | channels and a list | unused by the package |
| gorilla/websocket | external | the connection | upgrade, read, write, close |

**How they interact.** The http handler of a connection calls `NewClient`
(which reads the registry and may close the client it finds), `OpenClient`
(which upgrades, sends the client to `hub.register` and starts the pumps).
`readPump` runs the ping and pong handlers, which hand a token to `writePump`
over the unbuffered `ping` and `sendPing`, and gives data to the goroutine
pool. `close` may be executed by the user, by `readPump` and by the `NewClient`
of another connection; it sends the *identifier* to `hub.unregister`. The hub
looks the identifier up, and if what it finds is closed it closes that
client's channels, which is how `writePump` learns of it. A broadcast goes to
the hub, which calls `send` for each client that it is for; a `Send` calls
`send` in the user's goroutine.

**What is hard, and what makes each part correct.**

- *Hub.* `register` and `unregister` are two channels and `select` takes either;
  an identifier may stand for another client by the time it is taken. Correct:
  no channel is closed twice or while nil, nothing is sent on a closed channel
  by the hub (a panic there ends everything), only closed clients are released,
  the registry has usable clients, the hub always gets back to its `select`.
- *Pumps.* `writePump` takes messages at two places and counts between them;
  either pump may end first. Correct: the stream to the peer has no loss,
  repetition or overtaking until the pump ends; a dead connection is torn down.
- *API.* `close` is executed by several goroutines at once; `IsClose` is read and
  acted on later. Correct: `onClose` is called before the callbacks are taken
  away, calls return, a failed send is an error and not a panic.
- *Goroutine pool.* Adders race for `count` by `Cas` with workers that leave.
  Correct: `count` is exact, the limit holds, jobs start in order, every job
  starts.
- *Channels of a client.* User goroutines change `Client.channel` under `mu`, the
  hub searches it without, and the calls work on the very slice that the hub
  reads. Correct: no call is lost, and a broadcast finds the subscribers.
- *StrAnyMap.* Composite methods take the lock twice and run user functions in
  between or inside. Correct: every call takes effect at one instant and does
  what its comment says, nobody waits for ever.
- *StrArray.* Items are shifted and appended in place, in blocks that other
  slices share, and callers may pass a slice back that they were handed. Correct:
  a call does what its comment says, as on a plain sequence, and a slice handed out
  as a copy stays what it was until it is passed back.

`PROJECT.json` lists the hazards one by one, each at its line.

## 2. Modules and code

```
JobQueue <==(implements)== GrPool                       MCGrPool      GrPoolProofs

                     WsState
                   /    |    \
              Pumps    Hub    PublicApi
                   \    |    /
Delivery <==(implements)== WsPool                       MCWsPool      WsPoolProofs
                                                                      WsStreamProofs
              MapCalls   RWMutex
                 |    \    |
AtomicMap <==(implements)== StrAnyMap                   MCStrAnyMap   StrAnyMapProofs

              GoSlices -------------------.
                 |                         \
              StrArrayOps                   \
                 |                           \
StrSequence <==(implements)== StrArray        \         MCStrArray    StrArrayProofs
ChannelList <==(implements)================= Channels   MCChannels    ChannelsProofs
```

SequenceLemmas has what several proofs need of sequences, numbers and loops, and
SliceLemmas, which extends it, what ChannelsProofs and StrArrayProofs need of
GoSlices. WsStreamProofs extends WsPoolProofs.

**GrPool** (`util/grpool`). `limit` is the field that `NewPool` sets from its
argument: -1, or a positive number. Each access to shared state is a step: `AddCheck`
reads `closed`, `AddPush` is `list.PushFront`, `AddRead` reads `count`, `AddCas`
is the `Cas` and the fork. A worker loops over `WorkerCheck` (`closed`),
`WorkerPop` (`PopBack`) and `WorkerRun`, and leaves by `WorkerExit`, the deferred
decrement. `added` and `started` are history. **JobQueue** is the promise: a FIFO
queue served by at most `limit` servers.

**WsState** has all variables of the pool and the two operations that several
goroutines execute, `CloseStep` (`Client.close`, one statement a step) and
`SendStep` (`Client.send`). They take the control point of whoever executes them:
`close` runs in the handler of a reconnect (`CloseOld`), in `readPump`
(`ReaderClose`), in a user's `Close`, and, if the user's onError closes the client
(`ErrorCloses`), in the sender or the hub whose `send` has failed
(`SendErrorCloses`, `HubErrorCloses`). **Pumps** has `Writer` and `Reader`, **Hub**
has `HubRun`, **PublicApi** has `Handler` (one http handler), `Closer` and `Sender`;
**WsPool** interleaves them and states the properties. **Delivery** is the promise
per connection: what was accepted is written in order, without a gap, until the
stream ends.

How the state corresponds:

- `obj[c]` is the `Client`: `IsClose`, `conn` (`nil`, open, closed), `chans` (open,
  closed, nil) and `bound` (are the user's callbacks set). `sendCh` and `ping`
  are closed one after the other and set to nil one after the other by the hub;
  each pair is one step, the close and the nil are two.
- A `select` or send first *evaluates* the channel field and blocks on the
  channel it found: control points `eval`, then `select` or `selectNil` (`wait`
  or `waitNil` in `send`). This distinguishes a goroutine that waits on the
  channel the hub is about to close from one that found nil and waits for ever.
- `buf` is `sendCh`; `sendPing` and `ping` are unbuffered, so that a handler's
  send and the pump's receive are one step.
- `register`, `unregister`, `broadcast` and `clients` are the hub's fields.
- `hpc`, `wpc`, `rpc`, `kpc`, `spc` and `hub.pc` are control points, `crash` is what
  the process died of (an unrecovered panic): no step follows.
- `accepted`, `delivered` and `called` are history.

`OpenClient` sets `conn` and then `IsClose` in two steps, `Upgrade` and `MarkOpen`: a
`Close` may come between them.

Within a step: the callbacks are reset at once (`CloseClear`), the timer of 800 ms
may fire whenever a `send` waits, a read may fail whenever a `readPump` reads (the
peer has gone, or the read deadline), and a write may fail only on a connection that
is closed or broken.

**MapCalls** says what one critical section of each StrAnyMap method does to a
map. **RWMutex** models `sync.RWMutex`: a writer announces itself and waits for
the readers inside, later readers wait for the writer. **StrAnyMap** has the
methods: asking for a lock is a step, a critical section is a step, each call of
a function that the user passed in is a step (`Visit` for every entry that
`Iterator` hands out, `CallFunc` outside the lock for `GetOrSetFunc`, `EnterFunc` and
`StoreResult` inside it for `...FuncLock`), and `Merge` asks for the second lock
while it has the first. **AtomicMap** is the promise: each call takes effect at
one instant between start and return, and does what its comment says. Two cases
in which the code does something else (section 7) can be left open, and are for
StrAnyMap (its constant `Open`): "nil", a composite method may or may not store
nil; and "lost race", a `SetIfNotExist` that has seen its key absent (`Look`) and
finds it set later may answer true (`LoseRace`). In every other case true means
that the key was absent when it was set.

**GoSlices** is Go's memory for slices, which the two next modules need because
the code's slices share arrays: a heap of blocks, and a slice as a window into
a block, whose capacity ends with the block. `append` writes in place while the
capacity lasts and takes a block of twice the capacity after that.

**StrArrayOps** has one operator per method of StrArray, with the loops written as
recursive functions: the heap, the array and the answer that the critical section of
the method makes. **StrArray** is an array made from a caller's slice, an *editor*
that calls every method and another goroutine that appends and reads. A method is
one step, as it holds `a.mu` from begin to end; `RemoveValue` is two, `FindValue`
(`Search`) and `RemoveFound` (`Remove`). `known` is what callers have: the slices
that they passed in, and all that `Slice`, `Range`, `SubSlice`, `PopRands`, `Rands`,
`PopLefts`, `PopRights` and `Chunk` handed out. The two methods that keep a caller's
slice, `SetArray` and `PushLeft`, get a fresh one or any of those (`Passed`), so
that the array may become a slice that somebody has. (`Replace`, `PushRight` and the
rest only read their argument.) `copies` are the slices handed out as copies, with
what they held; passing one back takes it off that list (`Pass`). `Sort` is the
insertion sort that Go uses for up to twelve items, and the order in which equal
items come does not show, as they are strings. **StrSequence** is the promise,
written without slices and loops: the items, and the answer to the last call, as the
comments of the methods have it. Four cases can be left open (`Open`), and are for
StrArray (`OpenCases`), because the code does something else: `Range` with a
negative end, `SubSlice` with a negative length, `PopRand` of an empty array, and
`Unique` of a value that occurs three times. In an open case the items stay (Unique:
the first of equal ones stays) and the answer may be anything. `FollowsComments`
leaves none open, and the run `comments` has TLC find it violated.

**Channels** is `Client.channel` of one connection, at the grain of the machine,
because the hub's read races with the calls. `AddChannel` and `RemoveChannel` are
`Begin` (the lock, and a StrArray of the slice itself), `AppendNames` or
`RemoveName` and `ShiftName` (one item that moves up is one step), `CopyNames` (what
`Slice` returns), `PublishBlock` and `PublishLen` (`c.channel = ...` in two words, in
either order) and `Unlock`. The hub's search is `LoadBlock` and `LoadLen`, in either
order, and `Compare` for each item. What is assumed of the machine: amd64, so
that stores are seen in the order in which they are made; names of one length, so
that an item is never half a name; what lies outside of a block may equal the
name, or not, or end the process. **ChannelList** is the promise to the callers: a
list changed by one call after the other.

## 3. Runs

Runs that pass:

| Run | Instance | Checks | Shows |
|---|---|---|---|
| `pool` | 3 adders with 1 call each, limit 2 and no limit | TypeOK, CountIsLive, WorkersWithinLimit, StartedInOrder, EnoughWorkers, ImplementsJobQueue, EveryJobStarts, CloseStopsWorkers | count, limit and order survive every interleaving of Cas, fork, exit and Close; without a limit every job is taken up; a closed pool drains |
| `reconnect` | 2 connections, one identifier, a user who calls Close, also before `OpenClient` or inside it | RegistryUsable, HubNeverPanics, ReleasesOnlyClosed, OpenCallbackRuns, OnCloseBeforeClear | a reconnect at any moment, with failing upgrades and pumps and several goroutines in `close`, does not corrupt the registry, make the hub close a channel twice, leave an open connection without its onOpen, or skip onClose |
| `stream` | 1 connection, `sendCh` of 2, 3 sends and broadcasts, a frame of data, ping or pong, onError closes | TypeOK, StreamIntact, DeliveredAsSent, ImplementsDelivery | no loss, repetition or overtaking between select, len and drain, also when the connection dies or a failed send closes it |
| `liveness` | 1 connection, `sendCh` and hub channels of 1, 2 sends and broadcasts, a ping or a pong, onError closes | HubNeverPanics, ConnectionTornDown, CloseReturns, SendReturns, HubReturns | who waits for the hub or at a full or nil `sendCh` gets on, the hub too, unless the hub waits for itself; a closed client's connection is closed, unless readPump is in a handler that waits for the ended writePump |
| `shared` | 3 goroutines, 3 calls, 2 maps with 2 keys | TypeOK, NeededFunc, SteadyIteration, NeverStuck, ImplementsAtomicMap | every StrAnyMap call takes effect at one instant and is answered for it, the two open cases aside, and no lock blocks for ever |
| `array` | an editor and another goroutine, 3 calls, 2 strings, slices passed back | TypeOK, CopiesStay, FoundStays, ImplementsSequence | shared blocks, in-place appends and a RemoveValue in two parts do not show, the four open cases aside; a copy changes only after it was passed back |
| `channels` | 2 users with 3 calls, a search by the hub, 3 names | TypeOK, AddsNeverHide, FoundWasThere, ImplementsChannelList | the lock keeps calls whole; the hub's racy search survives every AddChannel and finds nothing that was not there |

Runs that TLC must find violated, each for something that a comment of the
code says (section 7): `stranded`, `zombie`, `pingpanic`, `missed`, `comments`.

The two exceptions of `liveness` are real behaviour of the code and named in
WsPool: `HandlerAbandoned` (readPump is in the ping or pong handler and writePump
has ended) and `HubWaitsForItself` (the hub is in a `close` that the user's onError
made, and `unregister` is full). The run reaches both. What it shows is that
nothing else keeps anybody waiting.

Every property of a passing run has a mutant in `PROJECT.json`: the definition
it breaks and the change that breaks it (a forgotten `Remove`, a decrement made
twice, a second check left out).

Deadlock is checked for GrPool, StrAnyMap, StrArray and Channels, where `Finished`
is the only way to stop. It is off for WsPool: the senders' and closers' calls
are bounded, and goroutines that the code leaves blocked for ever (section 7)
are legal ends.

## 4. Bounds

- *GrPool.* Three adders, one more than the limit: two that have read the same
  `count`, and one that comes while they fork; workers that exit while another one
  pops. `Workers` has at least as many identities as can live at once. `MaxAdds` bounds
  the calls: a second call of an adder is like the call of another one.
- *WsPool.* With one identifier and two clients each can find, replace, close or be
  confused with the other, at every control point; a third would repeat the same
  pairings, as an identifier is looked up one at a time. `SendCap` 2 (code: 4096)
  makes the drain loop run with 0, 1 and 2 messages and lets the channel fill up;
  `HubCap` 1 or 2 (2048) makes senders wait for the hub. `MaxSends`, `MaxFrames`,
  `Targets` and `FrameKinds` bound what users and peers do. `BindFirst` chooses
  whether callbacks are set before `OpenClient` (`publicApi_test.go`) or after it
  (`README.md`, `example/server.go`); every run has the first. `CloseEarly` allows
  `Close` on a client that was never opened (`publicApi_test.go:46`), in
  `reconnect`. `ErrorCloses` makes onError close the client after a failed send, in
  the sender's goroutine or the hub's, in `stream` and `liveness`. In `liveness` two
  messages for a `sendCh` of one meet a full channel, and after a release a nil one;
  with `HubCap` 1 the goroutines in `close` (sender, hub, readPump, a failing
  handler) wait for each other. A user's `Close` (the `Closers`) is in `reconnect`
  and not in `liveness`, and sends and broadcasts are in `stream` and `liveness` and
  not in `reconnect`: all in one instance are too many states. In `liveness` the
  `close` of a user's goroutine is the one in the sender's onError, which executes
  the same statements. The safety properties are proved for any mixture (section 6).
- *StrAnyMap.* An iterating reader, a writer that waits for it and a reader that
  waits for that writer are three goroutines. Two keys let a write fall between
  two visits; nil and one other value tell the stored from the ignored.
  `MaxCalls` bounds the calls in total.
- *StrArray.* Strings are 0, the empty one, and 1: what the methods tell apart is
  whether a string is empty, equal to another and smaller. The array begins with
  1 to 3 items, among them equal ones that are neighbours and that are not, and a
  spare capacity of 0 or 2, so that an append is made in place and in a new block;
  indexes and sizes reach below 0, to 0 and above the length. Three calls are
  enough to hand a slice out, to pass it back, and to write over it or behind it.
  `MaxLength` stops the calls when the array has more than six items.
- *Channels.* Two users contend for the lock. Lists of 0 to 4 names: the longest
  is one in which a removal moves two items, past a hub that has compared one.
  One search is enough, as a search keeps nothing for the next. Three calls cover
  a removal, an append in place of what it left, and a publication beside it.

Symmetry sets are used in `reconnect`, `shared`, `channels` and `missed`, which
check safety only.

## 5. Fairness

`WF` of each goroutine's next step, once it has begun: the Go scheduler runs
every goroutine that can run. Nobody has to connect, to call `Add`, `Close`,
`Send` or `Broadcast`, or to send a frame. A pending `send` ends at the latest by
its timer and a pending read by its read deadline (`SetReadDeadline` in
`OpenClient`), which is why those steps are part of the fair actions. Jobs of the
goroutine pool return. There is no strong fairness: no branch of a `select` is
promised.

Every liveness property of WsPool reads "... or the process has died", because
some panics are real (section 7), and has one of the two exceptions of section 3;
the mutants show that this is not the reason the properties hold.

## 6. Proofs

`tlapm` proves the following for all values of the constants, under the named
`ASSUME`s of the modules:

- *GrPool*: `Adders` and `Workers` are finite sets, what NewPool is called with is an
  integer, bounds are natural numbers.
- *WsState*: every client is given an identifier; capacities are positive and
  bounds natural numbers; a client is not the name of a channel (a message has
  one field for whom it is for, where the code has two functions).
- *MapCalls, RWMutex, StrAnyMap, Channels*: the marks for an absent key, for "no
  one" and for "nobody" are no values and no goroutines, and the empty string is no
  channel name; the calls offered are calls of StrAnyMap; AddChannel is not called
  with no name at all, which changes nothing.
- *StrArray*: the editor is one of the goroutines; strings are natural numbers, the
  empty one among them; indexes and sizes are integers, negative ones too, capacities
  natural numbers, the lists and the functions of callers are lists and functions of
  strings.

TLC finds no violation of these invariants on the instances of section 3 either.

**GrPoolProofs.** `TypeCorrect`, `CountCorrect`, `LimitCorrect`, `OrderCorrect`,
`EnoughCorrect`, `QueueImplemented`. CountIsLive is inductive with the types; its
lemmas count the set of live workers when one is added or removed.
WorkersWithinLimit is not: that a successful `Cas` respects the limit rests on
the `count` that was compared some steps before. `SeenWithinLimit` says that an
adder about to `Cas` has seen a count below the limit; the `Cas` succeeds only if
it is still that count, and CountIsLive turns `count` into the number of
goroutines. EnoughWorkers is inductive once the types are known: a push makes the
list and the adders on their way longer by one, a fork turns an adder into a
worker, and a worker leaves the count only when it has found the list empty.
That GrPool implements JobQueue needs, besides order and limit, that no job is
submitted twice: jobs are numbered per adder (`JobsNumbered`), so that those in
`added` are distinct (`JobsDistinct`), and what a worker runs is one of those
started, which no other worker runs (`RunningStarted`, `RunningDistinct`).

**WsPoolProofs.** `TypeCorrect`, `RegistryCorrect`, `HubSafe`, `ReleaseCorrect`.
The invariant is `RegistryInv`, the types with `LocalsOK` (what a control point
says about a goroutine's locals) and:

- `Unregistered`: a client that its handler has not yet sent to `register` is
  in no channel and not in the registry, and its channels are open;
- `WaitingOK`: a client is in `register` at most once, with open channels, and
  is not in the registry then;
- `HubOK`: the client the hub works on is the one in the registry, it is closed if
  the hub is releasing it, and its channels are as far as the hub is;
- `RegistryUsable` and `HubNeverPanics`.

RegistryUsable alone is not inductive: that a client taken from `register` is
usable depends on what was true when it was put there, and that closing a
channel is safe depends on the lookup two steps before. The proof separates the
steps that leave registry, channels and `register` alone and never reopen a
client (`HarmlessStep`, which covers the pumps, closers and senders;
`HarmlessAnyHub` covers a close in the hub) from the hub's own and from the two of
the handler that matter. ReleasesOnlyClosed is a step property that follows from
the invariant.

*Callbacks* (the last part of WsPoolProofs). `CloseCallbackCorrect`
(OnCloseBeforeClear) and `OpenCallbackCorrect` (OpenCallbackRuns). Up to five kinds
of goroutine may be in `close` of one client at once, so the invariants are about
the farthest of them (`At(c, l)`): whoever is past `conn.Close()` has found a
connection, so `OpenClient` has begun and nobody sets callbacks any more; and
whoever is past the call of onClose either made it or found that the callbacks were
cleared already. The proof sorts all steps of the pool into three kinds (closing,
handler and the rest) once, and then goes through the kinds. Both theorems have the
hypothesis `BindFirst`, and no other: whoever calls `Close`, early or between the
two writes of `OpenClient`. OpenCallbackRuns therefore speaks of the connection and
not of `IsClose`, which such a `Close` leaves FALSE (section 7). `BindFirst` is what
the code needs: `OpenClient` calls onOpen, and `close` calls onClose, only if they
are set by then, and a user who sets them afterwards, as the README's example does,
may find that neither was called (section 7).

**WsStreamProofs.** `StreamCorrect` (StreamIntact) and `DeliveryImplemented`. A
stream changes in four ways only: put, written, write failed, pump ended.
StreamIntact needs that `OpenClient` starts a pump once (`PumpNotBegun`): a second
pump would take up the stream of one that had lost a message. Every way maps to
a step of Delivery or to a stutter.

*Order* (the last part of WsStreamProofs). `OrderCorrect` (DeliveredAsSent). What is
written is a prefix of what was accepted, so the order is proved of `sendCh`. On its
way there a broadcast is in its sender's hands, in `broadcast`, in the hub's hands
and, connection by connection, in a `sendCh`. `OrderInv` says that of two messages
of one sender the one farther on is the older (`InHand`, `AllSent`, `QueueOrder`,
`HubOrder`, `AcceptedOrder`), and that a connection which the hub has yet to visit
has not had the hub's message (`Pending`), which is why none comes twice.

**StrAnyMapProofs.** `TypeCorrect`, `FuncCorrect` (NeededFunc), `IterationCorrect`
(SteadyIteration), `AtomicImplemented`. The invariant `MapInv` connects the lock with
the control points: who is in `readers`, `blocked` and `writer` of which map
(`Holders`, `Blocking`), and that a writer which has gone on into the user's function
or into the second lock of `Merge` has no readers beside it (`Alone`). So no one
writes between the second check and the end of the function, nor between two
visits of an iterator. For the refinement each call takes effect in the critical
section in which it decides its answer: for a composite call that finds the key
that is the first one, for one that does not the second; an iteration takes
effect when it ends, because the entries it has shown are still there then; a
`Merge` in the section in which it has both locks. A `SetIfNotExist` that has found
its key absent is a `Look` of AtomicMap, and the goroutines that have are `Claiming`;
if it keeps another one's value (`KeptOther`), that is `LoseRace`. The two open cases
(section 2) are part of what is proved.

**ChannelsProofs.** `TypeCorrect`, `AddsCorrect`, `FoundCorrect`, `ListImplemented`.
`ListInv` describes the list from the side of the callers: who holds `c.mu`
(`Locked`); how far the holder has come (`Progress`: while items are shifted the
list is the old one with the items before some place moved up); what of it shows
in the two words of `c.channel` (`Whole`, `Kept`: while names are added, either
word alone, old or new, still shows the whole old list); and that a block which
somebody may read holds nothing but names of the list, names that are being added,
and empty strings (`Clean`). `ScanInv` describes it from the side of the hub: a search
that no removal overlaps has the name still ahead of its index, in the block it
has read and in the length it has read (`Ahead`), and one for a name that was
never there cannot meet it (`Absent`). Each step of a call is shown to be `IsWork`,
which is all that the search needs to know of it. ListImplemented follows from
`ListInv`: the abstract list changes when the lock is given back.

**StrArrayProofs.** `TypeCorrect`, `CopiesCorrect` (CopiesStay), `FoundCorrect`
(FoundStays), `Refinement` (ImplementsSequence), all from the invariant `Inv` and one
or two lemmas per method.

- *A method.* `Follows` (SliceLemmas) says what a method may do to the memory: it leaves
  alone all blocks but the array's own, and if the array moves, it moves to a block
  that was not there. `...Gives` says what the array holds then, as a sequence, and
  the answer; `...Sound` does so for the methods with a loop.
- *Loops.* A loop of the code is a recursive function of the number of rounds, and
  induction with an operator as a parameter is out of reach. So the lemmas take
  sets: a set of numbers has a least member (`LeastNumber`), hence a set that has 0
  and with every number the next one has all of them (`CountUp`), hence the
  recursive function is there and its values stay in the sets that each round
  maps into the next (`LoopExists`, `LoopEnds`).
- *Loop invariants.* They say of the items that are left at which places of the
  first array they stood: `Kept` (FilterEmpty), `Scanned` (Unique), `Drawn` (PopRands),
  `Renumbers` (Shuffle, Sort) and `Ordered` (Sort). Unique ends by `Progress`: its two
  loops are one of n * n rounds, and that is enough for i to reach n. That no
  value is left twice holds only when none occurred three times (`AtMostTwice`),
  which is why StrSequence has the open case "Unique".
- *Invariant.* CopiesStay is not inductive: a write to the array must not show in a
  copy, so a copy that was not passed back must lie in another block (`CopiesApart`),
  and the array, like every slice that callers have (`KnownOK`), must be a slice of its
  block (`Lists`) for a write to stay in it. When one of them is passed in, the array
  may become that very slice, and the copies in its block leave `copies`
  (`PassedIs`, `PassKeeps`). FoundStays is needed for
  the refinement: `RemoveFound` removes an index, and the promise says the first item
  of a value; between the two only appends are possible, because the one editor is
  busy with them (`EditorIsAlone`, `AppendingCall`).
- *Refinement.* Each call is one step of StrSequence, with the same items and the
  same answer, the four open cases included; `FindValue` is a stutter when it finds
  the value. Where StrSequence selects items by their places (`At`: FilterEmpty,
  Unique, PopRands), the lemma `SelectsAt` turns the places of a loop invariant into
  such a selection; where it says "rearranged", `IsRearranged` counts the places of
  each value.

**Model-checked only.**

- Liveness under fairness: EveryJobStarts, CloseStopsWorkers, ConnectionTornDown,
  CloseReturns, SendReturns, HubReturns.
- NeverStuck, which is about ENABLED.

That is all: every other property of a passing run is stated by a theorem. The
theorems are about the models. What a model assumes of the code stays an
assumption, above all: `Sort` is an insertion sort at any length (from thirteen
items on Go sorts in another way), and only one goroutine moves items of a
StrArray while a RemoveValue is under way.

No run has the hub visit two connections in one broadcast; that this kills no
hub and corrupts no registry is what HubSafe and RegistryCorrect prove for any
number of connections.

## 7. Where the code and what it says disagree

Found by a run:

- `stranded`: `Add` returns without forking when `count` is at the limit, though
  the last goroutine may have found the list empty already (`grpool.go:67`,
  against `:58`). The job waits for another `Add`.
- `zombie`: a client whose `unregister` is taken before its `register` stays in
  the registry for ever (`hub.go:51`, against `:14`).
- `pingpanic`: the ping handler waits on `c.ping` when the hub closes it
  (`publicApi.go:78`); `dump` calls `recover` one call too deep to catch the
  panic (`client.go:102`), and the process ends (against `init.go:8`).
- `missed`: `RemoveChannel` changes the slice that the hub is searching for another
  channel, and the broadcast passes a subscribed connection over (`hub.go:85`,
  against `publicApi.go:282`). TLC's shortest trace has the hub read the new length
  with the old block; in another one items shift behind the hub's index
  (`[x b a x]`, `b` removed, the hub looking for `a`), which needs no torn read.
- `comments` (`garray_normal_str.go`): `SubSlice` with a negative length gives the
  items in front of the offset (`:392`), where its comment has it stop that many
  from the end (`:371`). Three more calls violate FollowsComments: `Range` takes a
  negative end as it is, so that `Range(1, -1)` gives nothing and `Range(-1, -1)`
  panics (`:344`, against `:336`); `PopRand` of an empty array panics (`:271`,
  against `:267`); `Unique` of `[1 1 1]` is `[1 1]` (`:518`, against `:513`).

Seen in the code, without a run of its own:

- *Client.* `Send` panics on a channel closed after the look at `IsClose`
  (`client.go:234`, against `publicApi.go:240`; the crash "send" of the model). A
  pong handler waits for a `writePump` that has ended, and the connection is never
  closed (`publicApi.go:72`, against `client.go:175`): the exception
  `HandlerAbandoned` of ConnectionTornDown. `close` dereferences a nil connection on
  a client that was never opened (`client.go:247`; `publicApi_test.go:46`). Two
  goroutines in `close` can clear the callbacks while one is in `onClose`
  (`client.go:249`; OnCloseBeforeClear says that it was called, not that it has
  ended). A callback `onError` that closes the client makes the hub wait for itself
  when `unregister` is full (`client.go:237`): the exception `HubWaitsForItself`.
  Only the capacity of 2048 stands between.
- *API.* A `Close` between the two writes of `OpenClient` (`publicApi.go:66` and
  `:67`) closes the connection and takes the callbacks away, and then `OpenClient`
  resets `IsClose`: a closed client that says it is open (against `client.go:75`).
  In the order of the README's example onOpen comes too late (`README.md:33-39`,
  `publicApi.go:100`); `GetLastReceiveTime` returns the time of opening
  (`publicApi.go:113`); `Broadcast` with several channels returns after the first
  (`publicApi.go:316`, against `:282`). Connections made from one `Config` share its
  `Channel` slice until their first change, under two locks (`publicApi.go:32`). A
  channel added twice and removed once is still subscribed to, as ChannelList says.
- *StrAnyMap.* `SetIfNotExist` reports true though another goroutine's value was
  kept (`gmap_hash_str_any_map.go:246`, against `:244`), and `GetOrSet` and its kind
  do not store nil (`:202`, against `:209`): the two open cases of AtomicMap.
  `Clone` of a safe map is unsafe (`:54`; StrArray's is, too,
  `garray_normal_str.go:461`). Two maps merged into each other, or a nil map into
  itself, deadlock (`:387-401`, the `shared` run offers merges in one direction).
- *StrArray* (`garray_normal_str.go`). A slice that `Slice` has returned as a copy
  is the array's own memory once it is passed to `SetArray` or to `NewStrArrayFrom`
  (`:94`, `:49`), and may be after `PushLeft` (`:225`); `RemoveChannel` does that
  with `Client.channel`, and the hub sees the items move (`missed`). `RemoveValue`
  can remove another item when a second goroutine moves items between its two locks
  (`:215`; this is why only the editor does). What `PopRights`, and `PopLefts` of
  everything, hand out is overwritten by the next append (`:328`).
- *List* (`glist.go`). Two lists pushed into each other deadlock (`:268`);
  `UnmarshalJSON` waits for the lock that it holds (`:406`).

## 8. Not modelled

- Message bytes, message types, time stamps, logging, error texts.
- Data received is handed to the goroutine pool and forgotten: GrPool is checked
  by itself and not composed with WsPool. User callbacks do nothing, except that
  onError may close the client when a send fails; what the pumps report to onError
  changes nothing here.
- The getters. In WsPool a client's channels are the constant `Subs`; how they
  change under a broadcast is Channels' subject, and there the hub does nothing
  but search.
- The second goroutine pool: nothing creates one, and as written it hands out
  no job, because `runRead` returns at the empty list that it starts with.
- The methods of List that nobody calls.
- StrAnyMap and StrArray without their lock, nil maps, `LockFunc`, `RLockFunc`,
  `Clone`, JSON; of StrArray also `SortFunc` and what only reads (`Sum`, `Join`,
  `Interfaces`, `ContainsI`, `CountValues`, the iterators).
- The inside of gorilla/websocket. It has no state here but open and closed.
- Two connections that register under one identifier while the first one's
  `unregister` is still under way leave the old client's channels open and its
  `writePump` waiting (the comment at `hub.go:54`): the model has these states, and
  a property about them is on the plan.

## 9. Plan

Modules, in order:

1. JobQueue, GrPool, GrPoolProofs (done).
2. WsState, Pumps, Hub, PublicApi, WsPool, Delivery, WsPoolProofs,
   WsStreamProofs (done).
3. MapCalls, RWMutex, AtomicMap, StrAnyMap, StrAnyMapProofs (done).
4. GoSlices, StrArrayOps, StrSequence, StrArray, SliceLemmas, StrArrayProofs (done).
5. ChannelList, Channels, ChannelsProofs (done).
6. *Callbacks*: the receive path of a connection composed with JobQueue (order of
   `OnMessage` when `Config.Goroutine` is 1, messages that arrive while `close` takes
   the callbacks away), and onMessage and onClose that call back into the pool.
7. A broadcast to several connections in a run, with the old client's channels
   when two connections share an identifier (`hub.go:54`).
8. *List*: the methods that take two lists, and iteration under the read lock.

Theorems: all safety properties and all refinements that the runs check are
proved, except for NeverStuck. What remains goes with the modules above: that the
old client's channels are closed when two connections share an identifier, once
7. has it as a property; what a broadcast in flight guarantees to a connection
that is removed meanwhile.
