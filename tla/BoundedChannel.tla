--------------------------- MODULE BoundedChannel ---------------------------
(***************************************************************************)
(* What BlockingQueue promises its callers.  Every call takes effect in    *)
(* one atomic step between the call and its return; a push waits until     *)
(* there is room or the channel is stopped, a pop until there is a value   *)
(* or the channel is stopped.  There is no mutex and no condition variable *)
(* here: BlockingQueue is shown to implement this specification.           *)
(***************************************************************************)
EXTENDS Channel

CONSTANTS
  Producers, Consumers, Closers,   \* the threads, by what they call
  Items,                           \* the values, each offered at most once
  NoItem                           \* an empty optional, a moved-from value

Threads == Producers \cup Consumers \cup Closers

VARIABLES
  fresh,    \* the values no producer has offered yet
  phase,    \* per thread: outside, inside one of the calls, or returning
  val,      \* per thread: a producer's argument, a consumer's result
  batch,    \* per thread: the result of the last draining stop
  threw     \* has a call run out of memory?

vars == <<chan, shut, fresh, phase, val, batch, threw>>

Step(t, from, to) == phase[t] = from /\ phase' = [phase EXCEPT ![t] = to]

Init ==
  /\ ChannelInit
  /\ fresh = Items
  /\ phase = [t \in Threads |-> "idle"]
  /\ val = [t \in Threads |-> NoItem]
  /\ batch = [t \in Threads |-> <<>>]
  /\ threw = FALSE

Call(t) ==
  /\ \/ /\ t \in Producers
        /\ Step(t, "idle", "pushing")
        /\ \E v \in fresh : fresh' = fresh \ {v} /\ val' = [val EXCEPT ![t] = v]
     \/ /\ t \in Consumers
        /\ Step(t, "idle", "popping")
        /\ val' = [val EXCEPT ![t] = NoItem]
        /\ UNCHANGED fresh
     \/ /\ t \in Closers
        /\ Step(t, "idle", "closing") \/ Step(t, "idle", "draining")
        /\ UNCHANGED <<fresh, val>>
  /\ UNCHANGED <<chan, shut, batch, threw>>

(* push returns true and the value has left the producer's hands. *)
PushAccepted(t) ==
  /\ Step(t, "pushing", "returning")
  /\ Push(val[t])
  /\ val' = [val EXCEPT ![t] = NoItem]
  /\ UNCHANGED <<fresh, batch, threw>>

(* push returns false, only because the channel is stopped... *)
PushRefused(t) ==
  /\ Step(t, "pushing", "idle")
  /\ Refuse
  /\ UNCHANGED <<fresh, val, batch, threw>>

(* ... or runs out of memory and throws: the value stays with the producer *)
(* and the channel is as it was.                                           *)
PushThrew(t) ==
  /\ Step(t, "pushing", "idle")
  /\ threw' = TRUE
  /\ UNCHANGED <<chan, shut, fresh, val, batch>>

PopTaken(t) ==
  /\ Step(t, "popping", "returning")
  /\ Pop
  /\ val' = [val EXCEPT ![t] = Head(chan)]
  /\ UNCHANGED <<fresh, batch, threw>>

PopFinished(t) ==
  /\ Step(t, "popping", "idle")
  /\ Finish
  /\ UNCHANGED <<fresh, val, batch, threw>>

CloseDone(t) ==
  /\ Step(t, "closing", "returning") \/ Step(t, "closing", "idle")
  /\ Close
  /\ UNCHANGED <<fresh, val, batch, threw>>

(* The drain hands everything over, or cannot allocate and only stops. *)
DrainDone(t) ==
  /\ \/ /\ Step(t, "draining", "returning")
        /\ CloseAndDrain
        /\ batch' = [batch EXCEPT ![t] = chan]
        /\ UNCHANGED threw
     \/ /\ Step(t, "draining", "idle")
        /\ Close
        /\ threw' = TRUE
        /\ UNCHANGED batch
  /\ UNCHANGED <<fresh, val>>

Return(t) ==
  /\ Step(t, "returning", "idle")
  /\ UNCHANGED <<chan, shut, fresh, val, batch, threw>>

Next ==
  \E t \in Threads :
    \/ Call(t) \/ Return(t)
    \/ PushAccepted(t) \/ PushRefused(t) \/ PushThrew(t)
    \/ PopTaken(t) \/ PopFinished(t)
    \/ CloseDone(t) \/ DrainDone(t)

Spec == Init /\ [][Next]_vars
=============================================================================
