---------------------------- MODULE MCUdpService ----------------------------
(* Finite instances of UdpService.                                         *)
EXTENDS UdpService

MCFunctionIds == {"decode", "gap", "absent"}
MCTable == [f \in {"decode", "gap"} |-> "HOST_CALL"]
MCNullHandlers == {"gap"}

Call == [magic |-> TRUE, fn |-> "decode", fits |-> TRUE]
Oversize == [magic |-> TRUE, fn |-> "decode", fits |-> FALSE]
BadMagic == [magic |-> FALSE, fn |-> "decode", fits |-> TRUE]
Unknown == [magic |-> TRUE, fn |-> "absent", fits |-> TRUE]
NullCall == [magic |-> TRUE, fn |-> "gap", fits |-> TRUE]

(* Every kind of datagram, or only those the dispatcher answers.           *)
AnyDatagram == {Call, Oversize, BadMagic, Unknown, NullCall}
ServedOnly == {Call, Oversize}
OneDropped == {Call, Unknown}

=============================================================================
