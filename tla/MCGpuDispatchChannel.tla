----------------------- MODULE MCGpuDispatchChannel -------------------------
(* Instances of GpuDispatchChannel for TLC.                                *)
EXTENDS GpuDispatchChannel, TLC

CONSTANTS c1, c2, add, absent

(* One device function; absent is not in the kernel's table.               *)
OnlyAdd == add :> "DEVICE_CALL"
Both == {TRUE, FALSE}
ReplyOnly == {FALSE}

Patient(C, n) ==
    [timeouts |-> FALSE, active |-> C, maxCalls |-> n, maxRings |-> 1]
Hasty(C, n, r) ==
    [timeouts |-> TRUE, active |-> C, maxCalls |-> n, maxRings |-> r]

(* All callers without deadlines, one caller with them, or all with them.  *)
PatientOrHasty == {Patient(Callers, 3), Hasty({c1}, 3, 2), Hasty(Callers, 2, 2)}
PatientPair == {Patient(Callers, 3)}
PatientOne == {Patient({c1}, 7)}

=============================================================================
