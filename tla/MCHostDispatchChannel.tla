----------------------- MODULE MCHostDispatchChannel ------------------------
(* Instances of HostDispatchChannel for TLC.                               *)
EXTENDS HostDispatchChannel, TLC

CONSTANTS c1, c2, add, absent

(* One host function; absent, where it is a function id, is not in it.     *)
OnlyAdd == add :> "HOST_CALL"
Both == {TRUE, FALSE}
ReplyOnly == {FALSE}

Patient(n, r) ==
    [timeouts |-> FALSE, active |-> Callers, maxCalls |-> n, maxRings |-> r]
Hasty(C, n, r) ==
    [timeouts |-> TRUE, active |-> C, maxCalls |-> n, maxRings |-> r]

(* All callers without deadlines, one caller with them, or all with them.  *)
PatientOrHasty ==
    {Patient(4, 1), Patient(3, 2), Hasty({c1}, 3, 2), Hasty(Callers, 3, 1)}
Patient2 == {Patient(2, 1)}
Patient3 == {Patient(3, 1)}
Patient7 == {Patient(7, 1)}
Hasty2 == {Hasty(Callers, 2, 1)}
Hasty3 == {Hasty(Callers, 3, 1)}

=============================================================================
