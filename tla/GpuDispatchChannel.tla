------------------------- MODULE GpuDispatchChannel -------------------------
(***************************************************************************)
(* The GPU device_call channel (runtime/internal/device_call/              *)
(* GpuDispatchChannel.cpp): caller threads lease ring slots and signal     *)
(* them to the persistent dispatch kernel on the device.  The kernel       *)
(* publishes a response and retires its request with two plain stores; the *)
(* host sees them in that order.                                           *)
(***************************************************************************)
EXTENDS RingBufferWrapper, DeviceDispatcher

CONSTANT PromptRetire   \* no caller releases a frame between the two stores

ASSUME PromptRetireAssumption == PromptRetire \in BOOLEAN

vars == <<chanVars, ringVars, kShutdown, kernelVars>>
loopVars == <<kShutdown, kernelVars>>

(* Type correctness: the ring, the slots' leases, callers and kernel.      *)
TypeOK == WrapperTypeOK /\ KernelTypeOK

Init == WrapperInit /\ KernelInit(FALSE)

-----------------------------------------------------------------------------

(* Fresh storage and a new kernel on it, unless one runs.                  *)
ensureDispatcherStarted ==
    \/ started /\ UNCHANGED <<started, ring, tableVars, ringVars, loopVars>>
    \/ /\ ~started /\ started' = TRUE
       /\ configure
       /\ kShutdown' = FALSE /\ kPc' = "poll" /\ kCur' = 0 /\ kReqId' = 0
       /\ kCount' = 0 /\ kStats' = 0 /\ kExecuted' = << >> /\ UNCHANGED kShared

(* The first lock scope up to the scan.  The function id is not looked up: *)
(* the table is the kernel's.                                              *)
acquireFrame(c) ==
    /\ CanCall(c)
    /\ \E fn \in FunctionIds, ff \in FireAndForget, fits \in BOOLEAN :
         \/ startFails(c) /\ UNCHANGED loopVars
         \/ /\ ensureDispatcherStarted
            /\ IF fits THEN beginScan(c, fn, ff) ELSE refuse(c)
    /\ UNCHANGED <<env, undercut>>

(* Mutant of isSlotReady: a pending fire-and-forget is not waited for.     *)
isSlotReadyPending(s) == ffPending[s] \/ (~rxFlag[s] /\ ~txFlag[s])

(* A fire-and-forget is over when the kernel has cleared its RX flag, with *)
(* a response (which is discarded) or without one.                         *)
isSlotReady(s) == ~rxFlag[s] /\ (ffPending[s] \/ ~txFlag[s])

(* One candidate of tryGetReadySlot.  clearDeviceSlot clears both flags.   *)
scanSlot(c) ==
    /\ Scanning(c) /\ attempt[c] < NumSlots
    /\ LET s == candidate(c) IN
         IF isFree(s) /\ isSlotReady(s)
           THEN /\ rxFlag' = [rxFlag EXCEPT ![s] = FALSE]
                /\ txFlag' = [txFlag EXCEPT ![s] = FALSE]
                /\ ffPending' = [ffPending EXCEPT ![s] = FALSE]
                /\ claimSlot(c, s)
           ELSE passOver(c) /\ UNCHANGED <<rxFlag, txFlag, ffPending>>
    /\ UNCHANGED <<env, undercut, started, ring, status, loopVars>>

(* Mutants of timeOut: the kernel is not told to stop; the frame of the    *)
(* call that gave up stays bound.                                          *)
timeOutSilent(c) == giveUp(c) /\ UNCHANGED loopVars
timeOutBound(c) ==
    /\ env.timeouts
    /\ cPc[c] = "wait" /\ mutex = NoOne /\ mutex' = c
    /\ End(c, "joining", "timeout")
    /\ kShutdown' = started
    /\ UNCHANGED <<env, undercut, started, ring, tableVars, frame, attempt, ringVars>>
    /\ UNCHANGED kernelVars

(* stopNoLock: the shutdown flag is copied to the device, then the         *)
(* kernel's stream is waited for.                                          *)
timeOut(c) == giveUp(c) /\ kShutdown' = started /\ UNCHANGED kernelVars

stopNoLock ==
    /\ started => kPc = "exit"
    /\ tornDown /\ UNCHANGED loopVars

timedOut(c) == cPc[c] = "joining" /\ stopNoLock
               /\ Goto(c, "returned") /\ UNCHANGED status

(* Mutant of releaseFrame: the slot of a fire-and-forget is cleared as if  *)
(* it had been waited for.                                                 *)
releaseFrameAll(c) ==
    /\ Releasing(c)
    /\ LET s == frame[c].slot
           clear == frame[c].bound /\ inUse[s] IN
         /\ inUse' = IF clear THEN [inUse EXCEPT ![s] = FALSE] ELSE inUse
         /\ txFlag' = IF clear THEN [txFlag EXCEPT ![s] = FALSE] ELSE txFlag
         /\ rxFlag' = IF clear THEN [rxFlag EXCEPT ![s] = FALSE] ELSE rxFlag
    /\ frame' = [frame EXCEPT ![c].bound = FALSE]
    /\ Goto(c, "idle")
    /\ UNCHANGED <<env, undercut, started, ring, mutex, ffPending, nextSlot>>
    /\ UNCHANGED <<nextRequestId, forgotten, attempt, status, rxData, txData, loopVars>>

(* releaseFrame clears both flags, the RX flag although the kernel may     *)
(* still be about to clear it itself.                                      *)
releaseFrame(c) ==
    /\ Releasing(c)
    /\ PromptRetire => ~(kPc = "retire" /\ kCur = frame[c].slot)
    /\ LET s == frame[c].slot
           clear == frame[c].bound /\ inUse[s]
           flags == clear /\ ~ffPending[s] IN
         /\ inUse' = IF clear THEN [inUse EXCEPT ![s] = FALSE] ELSE inUse
         /\ txFlag' = IF flags THEN [txFlag EXCEPT ![s] = FALSE] ELSE txFlag
         /\ rxFlag' = IF flags THEN [rxFlag EXCEPT ![s] = FALSE] ELSE rxFlag
    /\ frame' = [frame EXCEPT ![c].bound = FALSE]
    /\ Goto(c, "idle")
    /\ UNCHANGED <<env, undercut, started, ring, mutex, ffPending, nextSlot>>
    /\ UNCHANGED <<nextRequestId, forgotten, attempt, status, rxData, txData, loopVars>>

stop == beginStop /\ kShutdown' = TRUE /\ UNCHANGED kernelVars
stopped == mutex = Owner /\ stopNoLock /\ UNCHANGED <<cPc, status>>

-----------------------------------------------------------------------------

(* What a caller does once it has begun a call.                            *)
Caller(c) ==
    \/ scanSlot(c)
    \/ /\ scanFailed(c) \/ rescan(c) \/ acquired(c)
          \/ dispatchFrame(c) \/ waitForResponse(c)
       /\ UNCHANGED loopVars
    \/ timeOut(c) \/ timedOut(c)
    \/ releaseFrame(c)

Kernel == started /\ kernelLoop /\ UNCHANGED chanVars

(* Using freed storage is undefined behaviour: nothing is said of what     *)
(* follows.                                                                *)
Next ==
    /\ ~undercut
    /\ \/ \E c \in Callers : acquireFrame(c) \/ Caller(c)
       \/ stop \/ stopped
       \/ Kernel

Spec == Init /\ [][Next]_vars

(* The kernel and a caller inside a call keep running, and a mutex freed   *)
(* again and again is obtained.                                            *)
FairSpec ==
    /\ Spec
    /\ WF_vars(~undercut /\ Kernel)
    /\ WF_vars(~undercut /\ stopped)
    /\ \A c \in Callers : SF_vars(~undercut /\ Caller(c))

-----------------------------------------------------------------------------

(* The kernel runs a handler once per dispatched call and never for a      *)
(* cancelled one.                                                          *)
RunsOnce == ~undercut => RanOnce(kExecuted)

(* A slot is claimed only when the kernel has let go of it: while a caller *)
(* fills a request the kernel neither reads that page nor is about to      *)
(* publish into it.  A clear RX flag is all isSlotReady goes by.           *)
KernelLeavesLease ==
    \A c \in Callers :
        cPc[c] \in {"claimed", "leased"} =>
            ~(kCur = frame[c].slot /\ kPc \in {"header", "drop", "run", "publish"})

(* The RX flag that the kernel clears is the one of the request it has     *)
(* just answered, not of a later request in the same slot.                 *)
RetiresOwnRequest ==
    kPc = "retire" /\ rxFlag[kCur] => rxData[kCur].id = kReqId

(* The slot table of the channel is sound at every moment: a slot has one  *)
(* leaseholder, none is lost but by a late deadline test, and no frame     *)
(* outlives its ring, until a deadline passes beside another call.         *)
LeasesSound == TypeOK /\ UndercutByDeadline /\ (~undercut => Leases)

(* What the kernel does, it does for the leaseholder of the slot: it runs  *)
(* a call once, and it is gone from the slot before the next lease.        *)
KernelKeepsToLeases == RunsOnce /\ (~undercut => KernelLeavesLease)

-----------------------------------------------------------------------------
(* The inductive invariant behind the three.                               *)

(* The kernel has taken up the request in slot s and not answered it yet.  *)
Serving(s) == kCur = s /\ kPc \in {"header", "drop", "run", "publish"}

(* Of slot s, nothing is left for the kernel but to clear the RX flag, if  *)
(* that.                                                                   *)
Answered(s) ==
    ~Serving(s) /\ (rxFlag[s] => kPc = "retire" /\ kCur = s)

(* The kernel serves signalled slots only, with the id of their request.   *)
KernelServes ==
    /\ ~kShared /\ kPc # "scan"
    /\ \A s \in Slots : Serving(s) => rxFlag[s]
    /\ \A s \in Slots : rxFlag[s] => rxData[s] # Zero
    /\ kPc \in {"run", "publish"} => kReqId = rxData[kCur].id
    /\ kPc = "publish" => txData[kCur] = [id |-> kReqId]

(* A slot that is claimed and not signalled is untouched.  What a waiting  *)
(* caller will find is the reply to its own request, and then the kernel   *)
(* is done with the slot: releasing it may clear both flags.               *)
CallersServed ==
    \A c \in Callers :
        LET s == frame[c].slot IN
        /\ cPc[c] \in {"claimed", "leased"} => ~rxFlag[s] /\ ~txFlag[s]
        /\ cPc[c] = "wait" /\ txFlag[s] => Answered(s) /\ txData[s] = [id |-> frame[c].id]
        /\ cPc[c] = "returned" /\ frame[c].bound /\ ~ffPending[s] => Answered(s)

(* The handler is still to run for the request in slot s.                  *)
ToRun(s) == rxFlag[s] /\ ~(kCur = s /\ kPc \in {"publish", "retire"})

(* What is still to run has not run.                                       *)
RunsAhead ==
    /\ \A i, j \in DOMAIN kExecuted : kExecuted[i] = kExecuted[j] => i = j
    /\ started => \A i \in DOMAIN kExecuted : kExecuted[i] < nextRequestId
    /\ started => \A s \in Slots, i \in DOMAIN kExecuted :
          ToRun(s) => kExecuted[i] # rxData[s].id
    /\ \A c \in Callers, i \in DOMAIN kExecuted :
          cPc[c] \in {"claimed", "leased"} => kExecuted[i] # frame[c].id

ChannelInv ==
    /\ LeaseInv /\ KernelTypeOK /\ KernelServes /\ CallersServed /\ RunsAhead
    /\ NoMismatch

(* What holds in every state, the last one of an undercut ring included.   *)
ChannelSound ==
    TypeOK /\ UndercutByDeadline /\ (~undercut => ChannelInv)

=============================================================================
