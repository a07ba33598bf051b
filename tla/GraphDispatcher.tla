-------------------------- MODULE GraphDispatcher ---------------------------
(***************************************************************************)
(* The dispatch kernel that also launches graphs                           *)
(* (dispatch_kernel_with_graph in dispatch_kernel.cu).  It is itself a     *)
(* node of a graph.  A GRAPH_LAUNCH entry is handed to a child graph that  *)
(* runs beside the kernel and publishes its own response; a DEVICE_CALL    *)
(* handler may ask for the follow-up graph, after which the kernel ends    *)
(* and launches its own graph again behind its children.  What the GPU     *)
(* does with a launch, and the child graphs, are outside the source: they  *)
(* are modelled from dispatch_kernel_launch.h and cudaq_realtime.h.        *)
(***************************************************************************)
EXTENDS DeviceDispatcher

VARIABLES
    gIo,        \* the slot that *graph_io_ctx describes
    gGraphs,    \* child graphs launched and not finished
    gFired,     \* fire-and-forget launches of this execution
    gRelaunch,  \* relaunch
    gCursor,    \* g_graph_dispatch_cursor
    gFires,     \* g_dispatch_trigger_fires
    gTails,     \* g_dispatch_tail_relaunches
    gRc         \* g_dispatch_trigger_rc

graphVars == <<gIo, gGraphs, gFired, gRelaunch, gCursor, gFires, gTails, gRc>>

(* A child: the request it was launched for, the slot it works in, and     *)
(* whether it has still to read its context, or to publish.                *)
Children == [id : Nat, slot : Slots, kind : {"call", "triggered"},
             pc : {"new", "ran"}]

GraphTypeOK ==
    /\ gIo \in Slots /\ gGraphs \subseteq Children /\ gFired \in Nat
    /\ gRelaunch \in BOOLEAN /\ gCursor \in Slots
    /\ gFires \in Nat /\ gTails \in Nat
    /\ gRc \in {"never", "success", "error"}

(* cudaq_create_dispatch_graph_regular and cudaq_launch_dispatch_graph.    *)
GraphInit ==
    /\ gIo = 0 /\ gGraphs = {} /\ gFired = 0 /\ gRelaunch = FALSE
    /\ gCursor = 0 /\ gFires = 0 /\ gTails = 0 /\ gRc = "never"

-----------------------------------------------------------------------------
(* cudaGraphLaunch with cudaStreamGraphFireAndForget: one execution of the *)
(* parent has a budget of launches; beyond it the launch fails.            *)

Launches(budget) == gFired < budget

fireAndForget(budget, child) ==
    IF Launches(budget)
      THEN gGraphs' = gGraphs \cup {child} /\ gFired' = gFired + 1
      ELSE UNCHANGED <<gGraphs, gFired>>

graphPoll ==
    /\ ~gRelaunch
    /\ kernelPoll \/ kernelScan \/ kernelProbe
    /\ UNCHANGED graphVars

graphHeader ==
    /\ kPc = "header"
    /\ ~(rxData[kCur].magic /\ IsGraphLaunch(rxData[kCur]))
    /\ kernelHeader
    /\ UNCHANGED graphVars

(* The context is filled in and the child launched; the result of the      *)
(* launch is not looked at.  The request is retired next, whatever the     *)
(* child has done by then.                                                 *)
graphLaunch(budget) ==
    /\ kPc = "header"
    /\ rxData[kCur].magic /\ IsGraphLaunch(rxData[kCur])
    /\ gIo' = kCur
    /\ fireAndForget(budget, [id |-> rxData[kCur].id, slot |-> kCur,
                              kind |-> "call", pc |-> "new"])
    /\ kPc' = "retire"
    /\ UNCHANGED <<kCur, kReqId, kCount, kStats, kExecuted, kShared, kShutdown>>
    /\ UNCHANGED <<gRelaunch, gCursor, gFires, gTails, gRc, ringVars>>

(* The handler returns CUDAQ_DISPATCH_STATUS_TRIGGER_GRAPH, or not.        *)
graphRun(budget, triggered) ==
    /\ kernelRun
    /\ \/ UNCHANGED graphVars
       \/ /\ triggered
          /\ fireAndForget(budget, [id |-> kReqId, slot |-> kCur,
                                    kind |-> "triggered", pc |-> "new"])
          /\ gRc' = IF Launches(budget) THEN "success" ELSE "error"
          /\ gFires' = gFires + 1 /\ gRelaunch' = TRUE
          /\ UNCHANGED <<gIo, gCursor, gTails>>

(* Mutant of graphTail: the cursor is not handed on.                       *)
graphTailLocal ==
    /\ kPc = "poll" /\ gRelaunch
    /\ gTails' = gTails + 1
    /\ kStats' = kStats + kCount /\ kPc' = "tail"
    /\ UNCHANGED <<kCur, kReqId, kCount, kExecuted, kShared, kShutdown>>
    /\ UNCHANGED <<gIo, gGraphs, gFired, gRelaunch, gCursor, gFires, gRc, ringVars>>

(* After a trigger the kernel leaves its loop, keeps the cursor for its    *)
(* successor and launches its graph again, as a tail launch.               *)
graphTail ==
    /\ kPc = "poll" /\ gRelaunch
    /\ gTails' = gTails + 1 /\ gCursor' = kCur
    /\ kStats' = kStats + kCount /\ kPc' = "tail"
    /\ UNCHANGED <<kCur, kReqId, kCount, kExecuted, kShared, kShutdown>>
    /\ UNCHANGED <<gIo, gGraphs, gFired, gRelaunch, gFires, gRc, ringVars>>

(* A new execution: locals anew, the cursor from the global, a new budget. *)
execution ==
    /\ kPc' = "poll" /\ kCur' = gCursor /\ kCount' = 0
    /\ gFired' = 0 /\ gRelaunch' = FALSE
    /\ UNCHANGED <<kReqId, kStats, kExecuted, kShared>>
    /\ UNCHANGED <<gIo, gGraphs, gCursor, gFires, gTails, gRc, ringVars>>

(* The tail launch starts when the children of its parent are done.        *)
tailLaunched == kPc = "tail" /\ gGraphs = {} /\ execution /\ UNCHANGED kShutdown

graphExit == ~gRelaunch /\ kernelExit /\ UNCHANGED graphVars

(* cudaq_launch_dispatch_graph on a context whose kernel has been stopped; *)
(* its owner has cleared the flag.                                         *)
launchDispatchGraph ==
    kPc = "exit" /\ gGraphs = {} /\ execution /\ kShutdown' = FALSE

graphKernelLoop(budget, triggered) ==
    \/ graphPoll \/ graphHeader \/ graphLaunch(budget)
    \/ graphRun(budget, triggered)
    \/ (kernelDrop \/ kernelPublish \/ kernelRetire) /\ UNCHANGED graphVars
    \/ graphTail \/ tailLaunched \/ graphExit

-----------------------------------------------------------------------------
(* The child graphs.                                                       *)

(* A child launched for a call reads the context, and from there the       *)
(* request, and writes the response.                                       *)
childRun ==
    /\ \E g \in gGraphs :
         /\ g.kind = "call" /\ g.pc = "new"
         /\ txData' = [txData EXCEPT ![gIo] = Reply(rxData[gIo])]
         /\ kExecuted' = Append(kExecuted, rxData[gIo].id)
         /\ gGraphs' = (gGraphs \ {g}) \cup {[g EXCEPT !.slot = gIo, !.pc = "ran"]}
    /\ UNCHANGED <<kShared, kPc, kCur, kReqId, kCount, kStats, kShutdown>>
    /\ UNCHANGED <<gIo, gFired, gRelaunch, gCursor, gFires, gTails, gRc>>
    /\ UNCHANGED <<rxFlag, txFlag, rxData>>

(* It sets *tx_flag and ends.  The follow-up graph has no slot.            *)
childEnd ==
    /\ \E g \in gGraphs :
         /\ g.kind = "call" => g.pc = "ran"
         /\ txFlag' = IF g.kind = "call" THEN [txFlag EXCEPT ![g.slot] = TRUE]
                                         ELSE txFlag
         /\ gGraphs' = gGraphs \ {g}
    /\ UNCHANGED <<kernelVars, kShutdown, rxFlag, rxData, txData>>
    /\ UNCHANGED <<gIo, gFired, gRelaunch, gCursor, gFires, gTails, gRc>>

childStep == childRun \/ childEnd

=============================================================================
