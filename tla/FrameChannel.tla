---------------------------- MODULE FrameChannel ----------------------------
(***************************************************************************)
(* What an engine of the bridge promises its agent: the frames the target  *)
(* produced, whole, in order, each once, until the relay ends.             *)
(***************************************************************************)
EXTENDS Naturals, Sequences

CONSTANT Frames   \* frames the target produces

VARIABLES produced,  \* frames the target has written to the end
          delivered, \* numbers of the frames handed to the agent, in order
          ended      \* the relay has ended

channel == <<produced, delivered, ended>>

Init == produced = 0 /\ delivered = <<>> /\ ended = FALSE

\* One write can complete several frames.
Produce == /\ \E n \in produced + 1 .. Frames : produced' = n
           /\ UNCHANGED <<delivered, ended>>

\* One message can hold several, where the engine keeps no boundaries.
Deliver == /\ ~ended
           /\ \E n \in Len(delivered) + 1 .. produced : delivered' = [i \in 1 .. n |-> i]
           /\ UNCHANGED <<produced, ended>>

End == ~ended /\ ended' = TRUE /\ UNCHANGED <<produced, delivered>>

Next == Produce \/ Deliver \/ End

Spec == Init /\ [][Next]_channel
=============================================================================
