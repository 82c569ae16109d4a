------------------------------ MODULE Channel ------------------------------
(***************************************************************************)
(* The atomic operations of a bounded FIFO channel that can be stopped:    *)
(* what one locked section of BlockingQueue does to the contents and to    *)
(* the closed flag, with the locking, the waiting and the waking left out. *)
(* BoundedChannel builds the abstract specification of the queue from      *)
(* them, and ThreadPool uses them as its queue_.                           *)
(***************************************************************************)
EXTENDS Naturals, Sequences

CONSTANT Capacity     \* how many values the channel holds: capacity_

VARIABLES
  chan,               \* the values in the channel, oldest first: items_
  shut                \* has the channel been stopped? closed_

ChannelInit == chan = <<>> /\ shut = FALSE

(* A value enters at the back, only into an open channel with room. *)
Push(v) ==
  /\ ~shut
  /\ Len(chan) < Capacity
  /\ chan' = Append(chan, v)
  /\ UNCHANGED shut

(* A stopped channel refuses a value and does not change. *)
Refuse == shut /\ UNCHANGED <<chan, shut>>

(* The oldest value leaves, whether or not the channel is stopped. *)
Pop ==
  /\ chan # <<>>
  /\ chan' = Tail(chan)
  /\ UNCHANGED shut

(* Only a channel that is both stopped and empty reports its end. *)
Finish == shut /\ chan = <<>> /\ UNCHANGED <<chan, shut>>

(* Stopping keeps the contents... *)
Close == shut' = TRUE /\ UNCHANGED chan

(* ... and stopping with a drain takes all of them out in the same step. *)
CloseAndDrain == shut' = TRUE /\ chan' = <<>>
=============================================================================
