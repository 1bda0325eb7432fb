------------------------------ MODULE Channels ------------------------------
(***************************************************************************)
(* Client.channel of one connection: user goroutines change it by          *)
(* AddChannel and RemoveChannel under c.mu, and the hub searches it for    *)
(* the channel of a broadcast without that lock.                           *)
(*                                                                         *)
(* Both calls make a StrArray from the slice itself, not from a copy,      *)
(* change that and publish a copy of the result.  So an append may write   *)
(* behind the list, and a removal shifts the list that is being read.      *)
(*                                                                         *)
(* The hub's read is a data race.  What an amd64 machine can make of it: a *)
(* slice is written and read as two words, its block and its length, in    *)
(* either order; items are shifted one by one, lowest first, and read one  *)
(* by one; stores are seen in the order they are made.  A length with the  *)
(* wrong block can reach outside the block: what is there may equal the    *)
(* name or not, or end the process.  Names have one length, so that a name *)
(* itself is never torn.                                                   *)
(***************************************************************************)
EXTENDS GoSlices, FiniteSets

CONSTANTS
  Users,      \* goroutines that change the list
  Names,      \* channel names
  Configs,    \* lists that Config.Channel may hold
  Spares,     \* spare capacities of that slice
  Batches,    \* the lists of names that AddChannel is called with
  MaxCalls,   \* bound on the calls
  MaxScans    \* bound on the broadcasts

ASSUME NameAssumption == Empty \notin Names
ASSUME BatchAssumption ==
  Batches \subseteq Seq(Names) \ {<<>>} /\ Configs \subseteq Seq(Names)
ASSUME BoundAssumption ==
  MaxCalls \in Nat /\ MaxScans \in Nat /\ Spares \subseteq Nat

VARIABLES
  heap,
  channel,   \* Client.channel: its block and its length
  mu,        \* who holds c.mu
  pc,        \* where each user goroutine is
  call,      \* the call it is in: the names it adds, or the one it removes
  arr,       \* the slice in its StrArray
  moved,     \* how many items its removal has shifted up
  hpc,       \* where the hub is
  name,      \* the channel of its broadcast
  view,      \* the slice header as far as the hub has read it
  index,     \* how many items it has compared
  found,     \* what searchStrArray has come to
  past,      \* history of the scan, see ScanHistory
  before,    \* history: the list when c.mu was last taken
  calls, scans

userVars == <<pc, call, arr, moved>>
hubVars == <<hpc, name, view, index, found, scans>>
vars == <<heap, channel, mu, userVars, hubVars, past, before, calls>>

Nobody == "nobody"

ASSUME UserAssumption == Nobody \notin Users

NoHistory == [always |-> FALSE, ever |-> FALSE, disturbed |-> FALSE, outside |-> FALSE]
NoCall == [adds |-> <<>>, removes |-> Empty]

Set(s) == {s[k] : k \in DOMAIN s}

Published == Items(heap, channel)

\* The list that calls have left: while one is under way, the list before it.
List == IF mu = Nobody THEN Published ELSE before

UnderWay == IF mu = Nobody THEN NoCall ELSE call[mu]

-----------------------------------------------------------------------------
(* User goroutines.                                                        *)

\* What a scan that is under way should know when the list becomes l or the
\* call c begins: whether its channel has been in the list all the time, with
\* nobody removing it; whether it was there, or being added, at any time;
\* whether a removal was under way at any time.
ScanHistory(l, c) ==
  IF hpc \in {"idle", "answer"} THEN UNCHANGED past
  ELSE past' = [past EXCEPT
                  !.always    = @ /\ name \in Set(l) /\ name # c.removes,
                  !.ever      = @ \/ name \in Set(l) \cup Set(c.adds),
                  !.disturbed = @ \/ c.removes # Empty]

\* A call that does not return at once gets c.mu and makes its StrArray.
Enter(u, c) ==
  /\ pc[u] = "idle" /\ calls < MaxCalls
  /\ mu' = u
  /\ call' = [call EXCEPT ![u] = c]
  /\ arr' = [arr EXCEPT ![u] = channel]
  /\ pc' = [pc EXCEPT ![u] = IF c.removes = Empty THEN "append" ELSE "remove"]
  /\ calls' = calls + 1
  /\ before' = Published
  /\ ScanHistory(Published, c)
  /\ UNCHANGED <<heap, channel, moved, hubVars>>

\* Mutant: a call does not wait for c.mu.
BeginUnlocked(u, c) == Enter(u, c)

\* c.mu.Lock()
Begin(u, c) == mu = Nobody /\ Enter(u, c)

AddChannel(u) == \E chs \in Batches : Begin(u, [adds |-> chs, removes |-> Empty])
RemoveChannel(u) == \E ch \in Names : Begin(u, [adds |-> <<>>, removes |-> ch])

\* The StrArray gets another slice.
Becomes(u, from, new, to) ==
  /\ pc[u] = from
  /\ heap' = new.heap
  /\ arr' = [arr EXCEPT ![u] = new.slice]
  /\ pc' = [pc EXCEPT ![u] = to]
  /\ UNCHANGED <<channel, mu, call, moved, hubVars, past, before, calls>>

\* Mutant: arr.PushLeft(chs...)
PushNamesLeft(u) ==
  LET new == call[u].adds \o Items(heap, arr[u])
  IN  Becomes(u, "append", Fresh(heap, new, Len(new)), "copy")

\* arr.Append(chs...)
AppendNames(u) ==
  Becomes(u, "append", Appended(heap, arr[u], call[u].adds), "copy")

\* arr.RemoveValue(ch): at an end of the list, or without a hit, no item moves.
RemoveName(u) ==
  /\ pc[u] = "remove"
  /\ LET a    == arr[u]
         hits == {i \in 0 .. a.len - 1 : At(heap, a, i) = call[u].removes}
         i    == CHOOSE i \in hits : \A j \in hits : i <= j
     IN  \/ /\ hits = {}
            /\ pc' = [pc EXCEPT ![u] = "copy"] /\ UNCHANGED <<arr, moved>>
         \/ /\ hits # {} /\ i \in {0, a.len - 1}
            /\ arr' = [arr EXCEPT ![u] = IF i = 0 THEN Cut(a, 1, a.len) ELSE Cut(a, 0, i)]
            /\ pc' = [pc EXCEPT ![u] = "copy"] /\ UNCHANGED moved
         \/ /\ hits # {} /\ i \notin {0, a.len - 1}
            /\ moved' = [moved EXCEPT ![u] = i]
            /\ pc' = [pc EXCEPT ![u] = "shift"] /\ UNCHANGED arr
  /\ UNCHANGED <<heap, channel, mu, call, hubVars, past, before, calls>>

\* append(a.array[:index], a.array[index+1:]...), one item.
ShiftName(u) ==
  /\ pc[u] = "shift"
  /\ LET a == arr[u]
         i == moved[u]
     IN  \/ /\ i < a.len - 1
            /\ heap' = Written(heap, a, i, <<At(heap, a, i + 1)>>)
            /\ moved' = [moved EXCEPT ![u] = i + 1]
            /\ UNCHANGED <<arr, pc>>
         \/ /\ i = a.len - 1
            /\ arr' = [arr EXCEPT ![u] = Cut(a, 0, i)]
            /\ moved' = [moved EXCEPT ![u] = 0]
            /\ pc' = [pc EXCEPT ![u] = "copy"]
            /\ UNCHANGED heap
  /\ UNCHANGED <<channel, mu, call, hubVars, past, before, calls>>

\* Mutant: make without copy.
CopyNothing(u) ==
  Becomes(u, "copy", Fresh(heap, [k \in 1 .. arr[u].len |-> Empty], arr[u].len), "publish")

\* arr.Slice(): nobody else knows the copy yet.
CopyNames(u) ==
  Becomes(u, "copy", Fresh(heap, Items(heap, arr[u]), arr[u].len), "publish")

\* c.channel = ..., two words.
PublishBlock(u) ==
  /\ pc[u] \in {"publish", "publish block"}
  /\ channel' = [channel EXCEPT !.block = arr[u].block, !.off = arr[u].off]
  /\ pc' = [pc EXCEPT ![u] = IF @ = "publish" THEN "publish len" ELSE "unlock"]
  /\ UNCHANGED <<heap, mu, call, arr, moved, hubVars, past, before, calls>>

PublishLen(u) ==
  /\ pc[u] \in {"publish", "publish len"}
  /\ channel' = [channel EXCEPT !.len = arr[u].len]
  /\ pc' = [pc EXCEPT ![u] = IF @ = "publish" THEN "publish block" ELSE "unlock"]
  /\ UNCHANGED <<heap, mu, call, arr, moved, hubVars, past, before, calls>>

\* The deferred c.mu.Unlock().
Unlock(u) ==
  /\ pc[u] = "unlock"
  /\ mu' = Nobody
  /\ pc' = [pc EXCEPT ![u] = "idle"]
  /\ call' = [call EXCEPT ![u] = NoCall]
  /\ arr' = [arr EXCEPT ![u] = NilSlice]
  /\ ScanHistory(Published, NoCall)
  /\ UNCHANGED <<heap, channel, moved, hubVars, before, calls>>

User(u) ==
  \/ AddChannel(u) \/ RemoveChannel(u)
  \/ AppendNames(u) \/ RemoveName(u) \/ ShiftName(u) \/ CopyNames(u)
  \/ PublishBlock(u) \/ PublishLen(u) \/ Unlock(u)

-----------------------------------------------------------------------------
(* The hub: searchStrArray(client.channel, message.Channel).               *)

BeginScan(ch, result) ==
  /\ hpc = "idle" /\ scans < MaxScans
  /\ hpc' = "load"
  /\ name' = ch
  /\ found' = result
  /\ scans' = scans + 1
  /\ past' = [always    |-> ch \in Set(List) /\ ch # UnderWay.removes,
              ever      |-> ch \in Set(List) \cup Set(UnderWay.adds),
              disturbed |-> UnderWay.removes # Empty,
              outside   |-> FALSE]
  /\ UNCHANGED <<heap, channel, mu, userVars, view, index, before, calls>>

\* Mutant: result := 0 in searchStrArray.
StartScanAtZero(ch) == BeginScan(ch, TRUE)

StartScan(ch) == BeginScan(ch, FALSE)

LoadBlock ==
  /\ hpc \in {"load", "load block"}
  /\ view' = [view EXCEPT !.block = channel.block, !.off = channel.off]
  /\ hpc' = IF hpc = "load" THEN "load len" ELSE "scan"
  /\ UNCHANGED <<heap, channel, mu, userVars, name, index, found, scans, past, before, calls>>

LoadLen ==
  /\ hpc \in {"load", "load len"}
  /\ view' = [view EXCEPT !.len = channel.len]
  /\ hpc' = IF hpc = "load" THEN "load block" ELSE "scan"
  /\ UNCHANGED <<heap, channel, mu, userVars, name, index, found, scans, past, before, calls>>

\* The loop of searchStrArray, one item.
Compare ==
  /\ hpc = "scan" /\ index < view.len /\ ~found
  /\ index' = index + 1
  /\ \/ /\ index < Capacity(heap, view)
        /\ found' = (At(heap, view, index) = name)
        /\ UNCHANGED <<hpc, past>>
     \/ /\ index >= Capacity(heap, view)
        /\ past' = [past EXCEPT !.outside = TRUE]
        /\ \/ found' \in BOOLEAN /\ UNCHANGED hpc
           \/ hpc' = "fault" /\ UNCHANGED found
  /\ UNCHANGED <<heap, channel, mu, userVars, name, view, scans, before, calls>>

\* return result != -1
EndScan ==
  /\ hpc = "scan"
  /\ found \/ index = view.len
  /\ hpc' = "answer"
  /\ UNCHANGED <<heap, channel, mu, userVars, name, view, index, found, scans, past,
                 before, calls>>

\* The hub sends or does not, and turns to the next message.
NextMessage ==
  /\ hpc = "answer"
  /\ hpc' = "idle"
  /\ name' = Empty /\ view' = NilSlice /\ index' = 0 /\ found' = FALSE
  /\ past' = NoHistory
  /\ UNCHANGED <<heap, channel, mu, userVars, scans, before, calls>>

Hub ==
  \/ \E ch \in Names : StartScan(ch)
  \/ LoadBlock \/ LoadLen \/ Compare \/ EndScan \/ NextMessage

-----------------------------------------------------------------------------
\* NewClient: channel: conf.Channel
Init ==
  /\ \E chs \in Configs, n \in Spares :
       LET conf == Fresh(<<>>, chs, Len(chs) + n)
       IN  heap = conf.heap /\ channel = conf.slice /\ before = chs
  /\ mu = Nobody
  /\ pc = [u \in Users |-> "idle"]
  /\ call = [u \in Users |-> NoCall]
  /\ arr = [u \in Users |-> NilSlice]
  /\ moved = [u \in Users |-> 0]
  /\ hpc = "idle" /\ name = Empty /\ view = NilSlice /\ index = 0 /\ found = FALSE
  /\ past = NoHistory
  /\ calls = 0 /\ scans = 0

\* Nothing is left to do, or the process has ended.
Finished ==
  /\ \/ hpc = "fault"
     \/ hpc = "idle" /\ scans = MaxScans /\ calls = MaxCalls /\ \A u \in Users : pc[u] = "idle"
  /\ UNCHANGED vars

Next ==
  \/ hpc # "fault" /\ \E u \in Users : User(u)
  \/ hpc # "fault" /\ Hub
  \/ Finished

Spec == Init /\ [][Next]_vars

-----------------------------------------------------------------------------
TypeOK ==
  /\ \A b \in DOMAIN heap : heap[b] \in Seq(Names \cup {Empty})
  /\ mu \in Users \cup {Nobody}
  /\ mu = Nobody => IsSlice(heap, channel) /\ Empty \notin Set(Published)
  /\ \A u \in Users : IsSlice(heap, arr[u])
  /\ moved \in [Users -> Nat]
  /\ hpc \in {"idle", "load", "load block", "load len", "scan", "answer", "fault"}
  /\ index \in 0 .. view.len
  /\ calls \in 0 .. MaxCalls /\ scans \in 0 .. MaxScans

(* AddsNeverHide: a search that no removal overlaps finds every channel    *)
(* that was there when it began, though the hub may see one word of the    *)
(* slice from before an AddChannel and the other from after it, and read   *)
(* outside of the block.                                                   *)
AddsNeverHide ==
  hpc = "answer" /\ past.always /\ ~past.disturbed => found

(* FoundWasThere: the hub sends only for a channel that was in the list,   *)
(* or was being added, at some time during the search, unless it has read  *)
(* outside of a block.                                                     *)
FoundWasThere ==
  hpc = "answer" /\ found => past.ever \/ past.outside

(* NeverMissed: a broadcast to a channel reaches a connection that is in   *)
(* that channel all the time and that nobody takes out of it ("channel     *)
(* 为指定频道进行广播", publicApi.go:282).                                 *)
NeverMissed == hpc = "answer" /\ past.always => found

(* ImplementsChannelList: with c.mu around copy, change and publication,   *)
(* the calls of all goroutines take effect one after the other, and none   *)
(* is lost.                                                                *)
Promise == INSTANCE ChannelList WITH channels <- List

ImplementsChannelList == Promise!Spec
=============================================================================
