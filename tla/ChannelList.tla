---------------------------- MODULE ChannelList -----------------------------
(***************************************************************************)
(* What AddChannel and RemoveChannel promise: a list of channel names that *)
(* calls change one after the other.                                       *)
(***************************************************************************)
EXTENDS Sequences

CONSTANTS Names, Batches

VARIABLE channels

Ext == INSTANCE SequencesExt

AddChannel(chs) == channels' = channels \o chs

\* The first of several entries goes; a channel that is not there is ignored.
RemoveChannel(ch) == channels' = Ext!RemoveFirst(channels, ch)

Init == channels \in Seq(Names)

Next ==
  \/ \E chs \in Batches : AddChannel(chs)
  \/ \E ch \in Names : RemoveChannel(ch)

Spec == Init /\ [][Next]_channels
=============================================================================
