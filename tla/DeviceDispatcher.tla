-------------------------- MODULE DeviceDispatcher --------------------------
(***************************************************************************)
(* The persistent GPU dispatch kernel for DEVICE_CALL entries              *)
(* (dispatch_kernel_device_call_only in dispatch_kernel.cu).  One block;   *)
(* its leader thread polls and publishes, and the block's barriers make    *)
(* the handler call one step of the leader.                                *)
(***************************************************************************)
EXTENDS FunctionTable

VARIABLES
    kShutdown,  \* the kernel's *shutdown_flag
    kShared,    \* g_dispatch_shared_ring_mode
    kPc,        \* program point of the leader
    kCur,       \* current_slot
    kReqId,     \* s_work.request_id, captured before the handler runs
    kCount,     \* local_packet_count
    kStats,     \* *stats
    kExecuted   \* history: ids of the requests a handler ran for

kernelVars == <<kShared, kPc, kCur, kReqId, kCount, kStats, kExecuted>>

KernelTypeOK ==
    /\ kShutdown \in BOOLEAN /\ kShared \in BOOLEAN
    /\ kPc \in {"poll", "scan", "header", "drop", "run", "publish", "retire",
                "tail", "exit"}
    /\ kCur \in Slots /\ kReqId \in Nat /\ kCount \in Nat /\ kStats \in Nat
    /\ kExecuted \in Seq(Nat)

KernelInit(shared) ==
    /\ kShutdown = FALSE /\ kShared = shared
    /\ kPc = "poll" /\ kCur = 0 /\ kReqId = 0 /\ kCount = 0 /\ kStats = 0
    /\ kExecuted = << >>

kernelPoll ==
    /\ kPc = "poll" /\ ~kShutdown /\ rxFlag[kCur]
    /\ kPc' = "header"
    /\ UNCHANGED <<kCur, kReqId, kCount, kStats, kExecuted, kShared, kShutdown>>
    /\ UNCHANGED ringVars

(* Shared ring: the flag at the cursor was clear, so the others are loaded *)
(* one by one, and the scan may stop at any that it finds set.             *)
kernelScan ==
    /\ kPc = "poll" /\ ~kShutdown /\ kShared /\ ~rxFlag[kCur]
    /\ kPc' = "scan"
    /\ UNCHANGED <<kCur, kReqId, kCount, kStats, kExecuted, kShared, kShutdown>>
    /\ UNCHANGED ringVars

kernelProbe ==
    /\ kPc = "scan"
    /\ \/ \E probe \in Slots \ {kCur} :
             rxFlag[probe] /\ kCur' = probe /\ kPc' = "header"
       \/ /\ \A probe \in Slots \ {kCur} : ~rxFlag[probe]
          /\ kPc' = "poll" /\ UNCHANGED kCur
    /\ UNCHANGED <<kReqId, kCount, kStats, kExecuted, kShared, kShutdown>>
    /\ UNCHANGED ringVars

(* A request of the kernel's own is claimed.  An entry without a handler   *)
(* ends the loop, as if the kernel had been told to stop, and its request  *)
(* stays in the slot.                                                      *)
kernelClaim(r) ==
    /\ kReqId' = r.id /\ UNCHANGED kCur
    /\ IF r.fn \in NullHandlers THEN kPc' = "exit" /\ kStats' = kStats + kCount
                                ELSE kPc' = "run" /\ UNCHANGED kStats

(* Mutants of kernelHeader: a HOST_CALL entry is run as if it were the     *)
(* kernel's own; a peer's slot is dropped instead of skipped.               *)
kernelHeaderAnyMode ==
    /\ kPc = "header"
    /\ LET r == rxData[kCur] IN
         \/ r.magic /\ lookupFunction(r) /\ kernelClaim(r)
         \/ /\ ~r.magic \/ ~lookupFunction(r)
            /\ kPc' = "drop" /\ UNCHANGED <<kCur, kReqId, kStats>>
    /\ UNCHANGED <<kCount, kExecuted, kShared, kShutdown, ringVars>>
kernelHeaderDropForeign ==
    /\ kPc = "header"
    /\ LET r == rxData[kCur] IN
         \/ r.magic /\ IsDeviceCall(r) /\ kernelClaim(r)
         \/ /\ ~r.magic \/ ~IsDeviceCall(r)
            /\ kPc' = "drop" /\ UNCHANGED <<kCur, kReqId, kStats>>
    /\ UNCHANGED <<kCount, kExecuted, kShared, kShutdown, ringVars>>

kernelHeader ==
    /\ kPc = "header"
    /\ LET r == rxData[kCur] IN
         \/ r.magic /\ IsDeviceCall(r) /\ kernelClaim(r)
         \/ /\ r.magic /\ ~IsDeviceCall(r) /\ kShared
            /\ kCur' = NextSlot(kCur) /\ kPc' = "poll" /\ UNCHANGED <<kReqId, kStats>>
         \/ /\ ~r.magic \/ (~IsDeviceCall(r) /\ ~kShared)
            /\ kPc' = "drop" /\ UNCHANGED <<kCur, kReqId, kStats>>
    /\ UNCHANGED <<kCount, kExecuted, kShared, kShutdown, ringVars>>

kernelDrop ==
    /\ kPc = "drop"
    /\ rxFlag' = [rxFlag EXCEPT ![kCur] = FALSE]
    /\ kCur' = NextSlot(kCur) /\ kPc' = "poll"
    /\ UNCHANGED <<kReqId, kCount, kStats, kExecuted, kShared, kShutdown>>
    /\ UNCHANGED <<txFlag, rxData, txData>>

(* The handler works on whatever the RX page holds; the response header    *)
(* carries the request id captured earlier.                                *)
kernelRun ==
    /\ kPc = "run"
    /\ txData' = [txData EXCEPT ![kCur] = [id |-> kReqId]]
    /\ kExecuted' = Append(kExecuted, rxData[kCur].id)
    /\ kPc' = "publish"
    /\ UNCHANGED <<kCur, kReqId, kCount, kStats, kShared, kShutdown>>
    /\ UNCHANGED <<rxFlag, txFlag, rxData>>

(* The TX slot must be free, unless the kernel is told to stop.            *)
kernelPublish ==
    /\ kPc = "publish" /\ (~txFlag[kCur] \/ kShutdown)
    /\ txFlag' = [txFlag EXCEPT ![kCur] = TRUE]
    /\ kPc' = "retire"
    /\ UNCHANGED <<kCur, kReqId, kCount, kStats, kExecuted, kShared, kShutdown>>
    /\ UNCHANGED <<rxFlag, rxData, txData>>

kernelRetire ==
    /\ kPc = "retire"
    /\ rxFlag' = [rxFlag EXCEPT ![kCur] = FALSE]
    /\ kCount' = kCount + 1
    /\ kCur' = NextSlot(kCur) /\ kPc' = "poll"
    /\ UNCHANGED <<kReqId, kStats, kExecuted, kShared, kShutdown>>
    /\ UNCHANGED <<txFlag, rxData, txData>>

kernelExit ==
    /\ kPc = "poll" /\ kShutdown
    /\ kPc' = "exit" /\ kStats' = kStats + kCount
    /\ UNCHANGED <<kCur, kReqId, kCount, kExecuted, kShared, kShutdown>>
    /\ UNCHANGED ringVars

kernelLoop ==
    \/ kernelPoll \/ kernelScan \/ kernelProbe
    \/ kernelHeader \/ kernelDrop \/ kernelRun
    \/ kernelPublish \/ kernelRetire \/ kernelExit

stopKernel ==
    /\ ~kShutdown /\ kShutdown' = TRUE
    /\ UNCHANGED <<kernelVars, ringVars>>

=============================================================================
