------------------------ MODULE MCUdpUnifiedService -------------------------
(* Finite instance of UdpUnifiedService: two clients.                      *)
EXTENDS UdpUnifiedService

MCFunctionIds == {"decode", "gap", "absent"}
MCTable == [f \in {"decode", "gap"} |-> "HOST_CALL"]
MCNullHandlers == {"gap"}

AnyDatagram ==
    { [magic |-> TRUE, fn |-> "decode", fits |-> TRUE],
      [magic |-> TRUE, fn |-> "decode", fits |-> FALSE],
      [magic |-> FALSE, fn |-> "decode", fits |-> TRUE],
      [magic |-> TRUE, fn |-> "absent", fits |-> TRUE],
      [magic |-> TRUE, fn |-> "gap", fits |-> TRUE] }

=============================================================================
