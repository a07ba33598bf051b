------------------------- MODULE MCRingSlotChannel --------------------------
(* Instances of RingSlotChannel for TLC.                                   *)
EXTENDS RingSlotChannel, TLC

CONSTANTS c1, c2, add, unknown

MCTable == add :> "HOST_CALL"
Both == {TRUE, FALSE}

(* Two callers on a faultless network; one caller and deadlines that pass. *)
Quiet == [faulty |-> FALSE, active |-> Callers, maxCalls |-> 3]
Faulty == [faulty |-> TRUE, active |-> {c1}, maxCalls |-> 4]

LongFaulty == [Faulty EXCEPT !.maxCalls = 5]

QuietOnly == {Quiet}
LongFaultyOnly == {LongFaulty}
QuietAndFaulty == {Quiet, Faulty}

=============================================================================
