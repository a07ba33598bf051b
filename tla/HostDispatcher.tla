--------------------------- MODULE HostDispatcher ---------------------------
(***************************************************************************)
(* The CPU dispatch loop (realtime/lib/daemon/dispatcher/                  *)
(* host_dispatcher.cpp): dispatch_core and its RingTransport policy.  The  *)
(* loop's thread polls the RX flag at its cursor, reads the request        *)
(* header, runs the handler into the TX page of the same slot, publishes   *)
(* that page and only then gives the RX slot back.                         *)
(***************************************************************************)
EXTENDS FunctionTable

VARIABLES
    shutdown,   \* *shutdown_flag # 0
    dPc,        \* program point of dispatch_core
    dCur,       \* RingTransport.current_slot
    dSlot,      \* it.slot
    dOutcome,   \* the SlotOutcome handed to retire_request
    dCount,     \* the local `count'
    stats,      \* *stats
    executed    \* history: ids of the requests a handler ran for, in order

dispVars == <<dPc, dCur, dSlot, dOutcome, dCount, stats, executed>>

DispTypeOK ==
    /\ shutdown \in BOOLEAN
    /\ dPc \in {"poll", "scan", "reload", "header", "invoke", "publish",
                "retire", "exit"}
    /\ dCur \in Slots /\ dSlot \in Slots
    /\ dOutcome \in {"Handled", "Foreign", "Drop"}
    /\ dCount \in Nat /\ stats \in Nat
    /\ executed \in Seq(Nat)

DispInit ==
    /\ shutdown = FALSE
    /\ dPc = "poll" /\ dCur = 0 /\ dSlot = 0 /\ dOutcome = "Handled"
    /\ dCount = 0 /\ stats = 0 /\ executed = << >>

-----------------------------------------------------------------------------
(* RingTransport::poll_request.                                            *)

(* Mutant of pollRequest: any pending slot is taken, out of order.         *)
pollRequestAny ==
    /\ dPc = "poll" /\ ~shutdown
    /\ \E s \in Slots : rxFlag[s] /\ dSlot' = s
    /\ dPc' = "header"
    /\ UNCHANGED <<dCur, dOutcome, dCount, stats, executed>>
    /\ UNCHANGED <<shutdown, ringVars>>

pollRequest ==
    /\ dPc = "poll" /\ ~shutdown /\ rxFlag[dCur]
    /\ dSlot' = dCur /\ dPc' = "header"
    /\ UNCHANGED <<dCur, dOutcome, dCount, stats, executed>>
    /\ UNCHANGED <<shutdown, ringVars>>

(* shared_ring_mode: the cursor's slot was empty, so the ring is scanned.  *)
(* The scan loads the other flags one by one while they change, so it may  *)
(* stop at any slot whose flag it finds set.                               *)
pollScan ==
    /\ SharedRing
    /\ dPc = "poll" /\ ~shutdown /\ ~rxFlag[dCur]
    /\ dPc' = "scan"
    /\ UNCHANGED <<dCur, dSlot, dOutcome, dCount, stats, executed>>
    /\ UNCHANGED <<shutdown, ringVars>>

(* A scan that finds none goes back to the cursor and changes nothing, so  *)
(* it does not matter when each of its loads was made.                     *)
pollProbe ==
    /\ SharedRing /\ dPc = "scan"
    /\ \/ \E probe \in Slots \ {dCur} :
             rxFlag[probe] /\ dCur' = probe /\ dPc' = "reload"
       \/ /\ \A probe \in Slots \ {dCur} : ~rxFlag[probe]
          /\ dPc' = "poll" /\ UNCHANGED dCur
    /\ UNCHANGED <<dSlot, dOutcome, dCount, stats, executed>>
    /\ UNCHANGED <<shutdown, ringVars>>

pollReload ==
    /\ dPc = "reload"
    /\ IF rxFlag[dCur] THEN dSlot' = dCur /\ dPc' = "header"
                       ELSE dPc' = "poll" /\ UNCHANGED dSlot
    /\ UNCHANGED <<dCur, dOutcome, dCount, stats, executed>>
    /\ UNCHANGED <<shutdown, ringVars>>

-----------------------------------------------------------------------------
(* dispatch_core between poll_request and retire_request.                  *)

Retire(outcome) == dPc' = "retire" /\ dOutcome' = outcome

checkHeader ==
    /\ dPc = "header"
    /\ LET r == rxData[dSlot] IN
         \/ ~r.magic /\ Retire("Drop")
         \/ r.magic /\ ~IsHostCall(r) /\ Retire("Foreign")
         \/ r.magic /\ IsHostCall(r) /\ dPc' = "invoke" /\ UNCHANGED dOutcome
    /\ UNCHANGED <<dCur, dSlot, dCount, stats, executed>>
    /\ UNCHANGED <<shutdown, ringVars>>

(* invoke_host_call: the handler runs unless it is null.                   *)
invokeHostCall ==
    /\ dPc = "invoke"
    /\ LET r == rxData[dSlot] IN
         IF r.fn \in NullHandlers
           THEN Retire("Handled") /\ UNCHANGED <<txData, executed>>
           ELSE /\ txData' = [txData EXCEPT ![dSlot] = Reply(r)]
                /\ executed' = Append(executed, r.id)
                /\ dPc' = "publish" /\ UNCHANGED dOutcome
    /\ UNCHANGED <<dCur, dSlot, dCount, stats>>
    /\ UNCHANGED <<shutdown, rxFlag, txFlag, rxData>>

(* RingTransport::send_response, then ++count.                             *)
sendResponse ==
    /\ dPc = "publish"
    /\ txFlag' = [txFlag EXCEPT ![dSlot] = TRUE]
    /\ dCount' = dCount + 1
    /\ Retire("Handled")
    /\ UNCHANGED <<dCur, dSlot, stats, executed>>
    /\ UNCHANGED <<shutdown, rxFlag, rxData, txData>>

(* Mutant of retireRequest: the RX slot is never given back.               *)
retireRequestKeep ==
    /\ dPc = "retire"
    /\ dCur' = NextSlot(dSlot) /\ dPc' = "poll"
    /\ UNCHANGED <<dSlot, dOutcome, dCount, stats, executed>>
    /\ UNCHANGED <<shutdown, ringVars>>

(* RingTransport::retire_request: a foreign slot is left to the peer of a  *)
(* shared ring, every other slot is given back.                            *)
retireRequest ==
    /\ dPc = "retire"
    /\ rxFlag' = IF dOutcome = "Foreign" /\ SharedRing
                   THEN rxFlag
                   ELSE [rxFlag EXCEPT ![dSlot] = FALSE]
    /\ dCur' = NextSlot(dSlot) /\ dPc' = "poll"
    /\ UNCHANGED <<dSlot, dOutcome, dCount, stats, executed>>
    /\ UNCHANGED <<shutdown, txFlag, rxData, txData>>

(* The loop ends between two requests and adds its count to *stats.        *)
exitLoop ==
    /\ dPc = "poll" /\ shutdown
    /\ dPc' = "exit" /\ stats' = stats + dCount
    /\ UNCHANGED <<dCur, dSlot, dOutcome, dCount, executed>>
    /\ UNCHANGED <<shutdown, ringVars>>

(* cudaq_host_ring_dispatch_loop.                                          *)
ringDispatchLoop ==
    \/ pollRequest \/ pollScan \/ pollProbe \/ pollReload
    \/ checkHeader \/ invokeHostCall \/ sendResponse \/ retireRequest
    \/ exitLoop

(* The owner of the dispatcher raises the shutdown flag.                   *)
raiseShutdown ==
    /\ ~shutdown /\ shutdown' = TRUE
    /\ UNCHANGED <<dispVars, ringVars>>

=============================================================================
