----------------------------- MODULE EventStream -----------------------------
(***************************************************************************)
(* What the emitter, the replay buffer and the device link promise         *)
(* together (protocol/README.md, "Sequence, replay and resume"): the       *)
(* device's log is the server's stream up to some point, each event once   *)
(* and in order.  Stream.tla shows how the code keeps the promise.         *)
(***************************************************************************)
EXTENDS Naturals, Sequences

CONSTANT Event          \* the events a run can have

VARIABLES published,    \* the run's stream: event n of it is published[n]
          received,     \* the device's log of it
          epoch         \* how often the stream was cut

streamVars == <<published, received, epoch>>

StreamInit == published = <<>> /\ received = <<>> /\ epoch = 0

Extends(long, short) ==
  Len(long) >= Len(short) /\ SubSeq(long, 1, Len(short)) = short

\* Events are added behind the ones there are.
Publish ==
  /\ published' \in Seq(Event)
  /\ Extends(published', published)
  /\ UNCHANGED <<received, epoch>>

(* When the buffer is rebuilt from the device's log, or the run ends, the  *)
(* stream may lose events the device does not have, and never others.      *)
Cut ==
  /\ published' \in Seq(Event)
  /\ Extends(published', received)
  /\ epoch' = epoch + 1
  /\ UNCHANGED received

Receive ==
  /\ Len(received) < Len(published)
  /\ received' = Append(received, published[Len(received) + 1])
  /\ UNCHANGED <<published, epoch>>

StreamNext == Publish \/ Cut \/ Receive
StreamSpec == StreamInit /\ [][StreamNext]_streamVars
==============================================================================
