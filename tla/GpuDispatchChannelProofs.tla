---------------------- MODULE GpuDispatchChannelProofs -----------------------
(***************************************************************************)
(* Proofs about the GPU device_call channel, for any number of callers and *)
(* slots: ChannelInv is inductive, and from it follow that leases are      *)
(* exclusive, that the kernel runs a call once and keeps off a slot that   *)
(* is being filled, and that no caller finds another call's response.  The *)
(* delicate step is releaseFrame, which clears the RX flag that the kernel *)
(* may be about to clear: CallersServed says that the kernel has at most   *)
(* that store left to do.                                                  *)
(***************************************************************************)
EXTENDS GpuDispatchChannel, RingBufferWrapperProofs

(* What CallersServed, RunsAhead and NoMismatch say about one caller ...   *)
CallerServed(c) ==
    LET s == frame[c].slot IN
    /\ cPc[c] \in {"claimed", "leased"} =>
          /\ ~rxFlag[s] /\ ~txFlag[s]
          /\ \A i \in DOMAIN kExecuted : kExecuted[i] # frame[c].id
    /\ cPc[c] = "wait" /\ txFlag[s] => Answered(s) /\ txData[s] = [id |-> frame[c].id]
    /\ cPc[c] = "returned" /\ frame[c].bound /\ ~ffPending[s] => Answered(s)
    /\ status[c] # "mismatch"

(* ... and about the kernel.                                               *)
KernelRuns ==
    /\ \A i, j \in DOMAIN kExecuted : kExecuted[i] = kExecuted[j] => i = j
    /\ started => \A i \in DOMAIN kExecuted : kExecuted[i] < nextRequestId
    /\ started => \A s \in Slots, i \in DOMAIN kExecuted :
          ToRun(s) => kExecuted[i] # rxData[s].id

LEMMA ByCaller ==
    ChannelInv <=> /\ LeaseInv /\ KernelTypeOK /\ KernelServes /\ KernelRuns
                   /\ \A c \in Callers : CallerServed(c)
  BY DEF ChannelInv, LeaseInv, CallersServed, RunsAhead, NoMismatch, CallerServed,
     KernelRuns

LEMMA Assembled ==
    ASSUME LeaseInv', KernelTypeOK', KernelServes', KernelRuns',
           \A c \in Callers : CallerServed(c)'
    PROVE  ChannelInv'
  BY DEF ChannelInv, LeaseInv, CallersServed, RunsAhead, NoMismatch, CallerServed,
     KernelRuns

(* A step that changes nothing of the kernel and nothing under caller d.   *)
LEMMA CallerStays ==
    ASSUME LeaseInv, NEW d \in Callers, CallerServed(d),
           cPc'[d] = cPc[d], frame'[d] = frame[d], status'[d] = status[d],
           UNCHANGED <<kPc, kCur, kExecuted>>,
           Holding(d) =>
              /\ rxFlag'[frame[d].slot] = rxFlag[frame[d].slot]
              /\ txFlag'[frame[d].slot] = txFlag[frame[d].slot]
              /\ txData'[frame[d].slot] = txData[frame[d].slot]
              /\ ffPending'[frame[d].slot] = ffPending[frame[d].slot]
    PROVE  CallerServed(d)'
  BY DEF CallerServed, Holding, Answered, Serving, LeaseInv, CallersPlaced

(* Other callers hold other slots.                                         *)
LEMMA OtherSlots ==
    ASSUME LeaseInv, NEW c \in Callers, NEW d \in Callers, c # d, Holding(c), Holding(d)
    PROVE  frame[c].slot # frame[d].slot
  BY DEF LeaseInv, LeasesHeld

LEMMA ChannelStart == Init => ChannelInv
  <1> SUFFICES ASSUME Init PROVE ChannelInv
    OBVIOUS
  <1>1. 0 \in Slots /\ LeaseInv
    BY NumSlotsAssumption, LeaseStart DEF Slots, Init
  <1>2. /\ kShutdown = FALSE /\ kShared = FALSE /\ kPc = "poll" /\ kCur = 0 /\ kReqId = 0
        /\ kCount = 0 /\ kStats = 0 /\ kExecuted = << >> /\ started = FALSE
        /\ \A s \in Slots : ~rxFlag[s]
    BY DEF Init, KernelInit, WrapperInit, RingInit
  <1>3. KernelTypeOK
    <2>1. << >> \in Seq(Nat) /\ FALSE \in BOOLEAN
      OBVIOUS
    <2> QED
      BY <1>1, <1>2, <2>1 DEF KernelTypeOK
  <1>4. KernelServes /\ KernelRuns
    BY <1>2 DEF KernelServes, KernelRuns, Serving
  <1>5. \A c \in Callers : CallerServed(c)
    BY DEF Init, WrapperInit, CallerServed
  <1> QED
    BY <1>1, <1>3, <1>4, <1>5, ByCaller

-----------------------------------------------------------------------------
(* The callers.                                                            *)

(* Pages, flags and kernel stay, but for what lies under the frame of      *)
(* caller c.                                                               *)
LEMMA OthersServed ==
    ASSUME ChannelInv, NEW c \in Callers,
           \A d \in Callers : d # c =>
              cPc'[d] = cPc[d] /\ frame'[d] = frame[d] /\ status'[d] = status[d],
           UNCHANGED <<kPc, kCur, kExecuted>>,
           \/ UNCHANGED <<rxFlag, txFlag, txData, ffPending>>
           \/ /\ Holding(c) /\ UNCHANGED txData
              /\ \A s \in Slots : s # frame[c].slot =>
                    /\ rxFlag'[s] = rxFlag[s] /\ txFlag'[s] = txFlag[s]
                    /\ ffPending'[s] = ffPending[s]
    PROVE  \A d \in Callers : d # c => CallerServed(d)'
  <1>1. LeaseInv /\ \A d \in Callers : CallerServed(d) /\ frame[d].slot \in Slots
    BY ByCaller DEF LeaseInv, WrapperTypeOK, Frames
  <1> QED
    BY <1>1, CallerStays, OtherSlots

(* A step that leaves kernel, RX flags and requests alone.                 *)
LEMMA KernelStays ==
    ASSUME KernelTypeOK, KernelServes, KernelRuns, kShutdown' \in BOOLEAN,
           UNCHANGED <<kShared, kPc, kCur, kReqId, kCount, kStats, kExecuted>>,
           UNCHANGED <<rxFlag, rxData, txData>>,
           started' => started /\ UNCHANGED nextRequestId
    PROVE  KernelTypeOK' /\ KernelServes' /\ KernelRuns'
  <1>1. KernelTypeOK'
    BY DEF KernelTypeOK
  <1>2. KernelServes'
    BY DEF KernelServes, Serving
  <1>3. KernelRuns'
    BY DEF KernelRuns, ToRun
  <1> QED
    BY <1>1, <1>2, <1>3

(* The first lock scope, which may start the kernel on a fresh ring, or    *)
(* fail to.                                                                *)
LEMMA GpuAcquire ==
    ASSUME ChannelInv, NEW c \in Callers, acquireFrame(c)
    PROVE  ChannelInv'
  <1>1. /\ LeaseInv /\ KernelTypeOK /\ KernelServes /\ KernelRuns
        /\ \A d \in Callers : CallerServed(d)
    BY ByCaller
  <1>2. /\ CanCall(c) /\ UNCHANGED <<env, undercut>>
        /\ \/ UNCHANGED <<started, ring, tableVars, ringVars, loopVars>>
           \/ ~started /\ started' = TRUE /\ ensureDispatcherStarted
           \/ ~started /\ resetTable /\ UNCHANGED <<started, ring, ringVars, loopVars>>
        /\ \/ refuse(c)
           \/ /\ started'
              /\ \E fn \in FunctionIds, ff \in BOOLEAN : beginScan(c, fn, ff)
    BY CallersAssumption DEF acquireFrame, ensureDispatcherStarted, startFails
  <1>3. LeaseInv'
    BY <1>1, <1>2, AcquireKeeps DEF ensureDispatcherStarted
  <1>4. /\ cPc'[c] \in {"idle", "scan"} /\ status'[c] \in {"invalid", "none"}
        /\ \A d \in Callers : d # c => /\ cPc'[d] = cPc[d] /\ frame'[d] = frame[d]
                                       /\ status'[d] = status[d]
    BY <1>1, <1>2 DEF refuse, beginScan, End, Goto, CanCall, LeaseInv, WrapperTypeOK
  <1>5. CASE UNCHANGED <<started, ring, tableVars, ringVars, loopVars>>
    <2>1. /\ UNCHANGED <<started, ffPending, nextRequestId, rxFlag, txFlag, rxData, txData>>
          /\ UNCHANGED <<kShutdown, kShared, kPc, kCur, kReqId, kCount, kStats, kExecuted>>
      BY <1>5 DEF tableVars, ringVars, loopVars, kernelVars
    <2>2. KernelTypeOK' /\ KernelServes' /\ KernelRuns'
      BY <1>1, <2>1, KernelStays DEF KernelTypeOK
    <2>3. CallerServed(c)' /\ \A d \in Callers : d # c => CallerServed(d)'
      BY <1>4, <2>1, OthersServed DEF CallerServed
    <2> QED
      BY <1>3, <2>2, <2>3, Assembled
  <1>6. CASE ~started
    <2>2. \A d \in Callers : ~Holding(d)' /\ status'[d] # "mismatch"
      BY <1>1, <1>4, <1>6 DEF LeaseInv, CallersPlaced, CallerServed, Holding
    <2>3. \A d \in Callers : CallerServed(d)'
      BY <1>3, <2>2 DEF CallerServed, Holding, LeaseInv, CallersPlaced
    <2>4. CASE started' = TRUE /\ ensureDispatcherStarted
      <3>1. /\ kExecuted' = << >> /\ kPc' = "poll" /\ \A s \in Slots : ~rxFlag'[s]
            /\ kShutdown' = FALSE /\ kCur' = 0 /\ kReqId' = 0 /\ kCount' = 0 /\ kStats' = 0
            /\ UNCHANGED kShared
        BY <1>6, <2>4 DEF ensureDispatcherStarted, configure
      <3>2. KernelTypeOK'
        <4>1. 0 \in Slots /\ << >> \in Seq(Nat)
          BY NumSlotsAssumption DEF Slots
        <4> QED
          BY <1>1, <3>1, <4>1 DEF KernelTypeOK
      <3>3. KernelServes' /\ KernelRuns'
        BY <1>1, <3>1 DEF KernelServes, KernelRuns, Serving
      <3> QED
        BY <1>3, <2>3, <3>2, <3>3, Assembled
    <2>5. CASE UNCHANGED <<started, ring, ringVars, loopVars>>
      <3>1. /\ UNCHANGED <<started, rxFlag, rxData, txData>>
            /\ UNCHANGED <<kShutdown, kShared, kPc, kCur, kReqId, kCount, kStats, kExecuted>>
        BY <2>5 DEF ringVars, loopVars, kernelVars
      <3>2. KernelTypeOK' /\ KernelServes' /\ KernelRuns'
        BY <1>1, <1>6, <3>1, KernelStays DEF KernelTypeOK
      <3> QED
        BY <1>3, <2>3, <3>2, Assembled
    <2> QED
      BY <1>2, <1>5, <2>4, <2>5
  <1> QED
    BY <1>2, <1>5, <1>6

(* The steps of a caller that touch no flag: a scan fails or starts again, *)
(* a claim is confirmed or dropped, a response is found.                   *)
LEMMA GpuMoves ==
    ASSUME ChannelInv, NEW c \in Callers,
           scanFailed(c) \/ rescan(c) \/ acquired(c) \/ waitForResponse(c),
           UNCHANGED loopVars
    PROVE  ChannelInv'
  <1>1. /\ LeaseInv /\ KernelTypeOK /\ KernelServes /\ KernelRuns
        /\ \A d \in Callers : CallerServed(d)
    BY ByCaller
  <1>2. /\ UNCHANGED <<env, undercut, started, ring, inUse, ffPending, nextSlot>>
        /\ UNCHANGED <<nextRequestId, rxFlag, txFlag, rxData, txData, frame>>
        /\ UNCHANGED <<kShutdown, kShared, kPc, kCur, kReqId, kCount, kStats, kExecuted>>
    BY DEF scanFailed, rescan, acquired, waitForResponse, tableVars, ringVars, loopVars,
       kernelVars
  <1>3. WrapperTypeOK /\ c \in Callers
    BY <1>1 DEF LeaseInv
  <1>4. /\ attempt' \in [Callers -> 0 .. NumSlots] /\ status' \in [Callers -> Statuses]
        /\ \A d \in Callers : d # c =>
              cPc'[d] = cPc[d] /\ frame'[d] = frame[d] /\ status'[d] = status[d]
    <2>1. 0 \in 0 .. NumSlots
      BY NumSlotsAssumption
    <2> QED
      BY <1>2, <1>3, <2>1
      DEF scanFailed, rescan, acquired, waitForResponse, End, Goto, WrapperTypeOK, Statuses
  <1>5. FlagsTyped
    BY <1>2, <1>3, <1>4 DEF FlagsTyped, WrapperTypeOK, RingTypeOK
  <1>6. PICK p : /\ Goto(c, p)
                 /\ forgotten' = IF cPc[c] = "claimed" /\ p = "idle"
                                   THEN forgotten \cup {frame[c].slot} ELSE forgotten
                 /\ \/ Scanning(c) /\ p \in {"sleep", "idle"} /\ mutex' = NoOne
                    \/ cPc[c] = "sleep" /\ p = "rescan" /\ mutex = NoOne /\ mutex' = c
                    \/ cPc[c] = "claimed" /\ p = "leased" /\ UNCHANGED mutex
                    \/ /\ cPc[c] = "claimed" /\ p = "idle" /\ env.timeouts
                       /\ UNCHANGED mutex
                    \/ /\ cPc[c] = "wait" /\ txFlag[frame[c].slot] /\ p = "returned"
                       /\ UNCHANGED mutex
    BY DEF scanFailed, rescan, acquired, waitForResponse, End, Scanning, tableVars
  <1>7. LeaseInv'
    BY <1>1, <1>2, <1>4, <1>5, <1>6, CallerMoves
  <1>8. status'[c] # "mismatch"
    <2>1. CASE waitForResponse(c)
      <3>1. txData[frame[c].slot] = [id |-> frame[c].id] /\ frame[c].id \in Nat
            /\ frame[c].slot \in Slots
        BY <1>1, <1>3, <2>1 DEF waitForResponse, CallerServed, WrapperTypeOK, Frames
      <3>2. [id |-> frame[c].id] \in Replies
        BY <3>1 DEF Replies
      <3> QED
        BY <1>3, <2>1, <3>1, <3>2, ZeroAssumption DEF waitForResponse, End, WrapperTypeOK
    <2>2. CASE scanFailed(c) \/ rescan(c) \/ acquired(c)
      BY <1>1, <1>3, <2>2 DEF scanFailed, rescan, acquired, End, WrapperTypeOK, CallerServed
    <2> QED
      BY <2>1, <2>2
  <1>9. CallerServed(c)'
    <2>1. cPc'[c] = p
      BY <1>3, <1>6 DEF Goto, WrapperTypeOK
    <2> QED
      BY <1>1, <1>2, <1>6, <1>8, <2>1 DEF CallerServed, Answered, Serving
  <1>10. KernelTypeOK' /\ KernelServes' /\ KernelRuns'
    BY <1>1, <1>2, KernelStays DEF KernelTypeOK
  <1> QED
    BY <1>2, <1>4, <1>7, <1>9, <1>10, OthersServed, Assembled

(* The request is signalled.                                               *)
LEMMA GpuDispatchFrame ==
    ASSUME ChannelInv, NEW c \in Callers, dispatchFrame(c), UNCHANGED loopVars
    PROVE  ChannelInv'
  <1>1. /\ LeaseInv /\ KernelTypeOK /\ KernelServes /\ KernelRuns
        /\ \A d \in Callers : CallerServed(d)
    BY ByCaller
  <1>2. WrapperTypeOK /\ cPc[c] = "leased" /\ frame[c].slot \in Slots /\ frame[c].bound
    BY <1>1 DEF LeaseInv, dispatchFrame, WrapperTypeOK, Frames, CallersPlaced
  <1>3. /\ Holding(c) /\ inUse[frame[c].slot] /\ started
        /\ rxData[frame[c].slot] # Zero /\ rxData[frame[c].slot].id = frame[c].id
    BY <1>1, <1>2 DEF LeaseInv, LeasesHeld, CallersPlaced, Holding
  <1>4. /\ rxFlag' = [rxFlag EXCEPT ![frame[c].slot] = TRUE] /\ UNCHANGED mutex
        /\ ffPending' = IF frame[c].ff THEN [ffPending EXCEPT ![frame[c].slot] = TRUE]
                                       ELSE ffPending
        /\ Goto(c, IF frame[c].ff THEN "returned" ELSE "wait")
        /\ UNCHANGED <<env, undercut, started, ring, inUse, nextSlot, nextRequestId>>
        /\ UNCHANGED <<forgotten, status, frame, attempt, txFlag, rxData, txData>>
        /\ \A d \in Callers : d # c => cPc'[d] = cPc[d]
    BY <1>2, <1>3 DEF dispatchFrame, WrapperTypeOK, Goto
  <1>5. /\ UNCHANGED <<kShutdown, kShared, kPc, kCur, kReqId, kCount, kStats, kExecuted>>
        /\ rxFlag' \in [Slots -> BOOLEAN] /\ rxFlag'[frame[c].slot]
        /\ ffPending' \in [Slots -> BOOLEAN]
        /\ \A s \in Slots : s # frame[c].slot =>
              rxFlag'[s] = rxFlag[s] /\ ffPending'[s] = ffPending[s]
        /\ cPc'[c] = "returned" => ffPending'[frame[c].slot]
        /\ cPc'[c] \in {"wait", "returned"}
    BY <1>2, <1>4 DEF loopVars, kernelVars, WrapperTypeOK, RingTypeOK, Goto
  <1>6. LeaseInv'
    <2>1. FlagsTyped /\ attempt' \in [Callers -> 0 .. NumSlots]
      BY <1>2, <1>4, <1>5 DEF FlagsTyped, WrapperTypeOK, RingTypeOK, Statuses
    <2>2. PICK p : /\ p \in {"wait", "returned"} /\ Goto(c, p)
      BY <1>4
    <2> QED
      BY <1>1, <1>2, <1>4, <2>1, <2>2, CallerMoves
  <1>7. ~rxFlag[frame[c].slot] /\ ~txFlag[frame[c].slot]
        /\ \A i \in DOMAIN kExecuted : kExecuted[i] # frame[c].id
    BY <1>1, <1>2 DEF CallerServed
  <1>8. CallerServed(c)'
    BY <1>1, <1>4, <1>5, <1>7 DEF CallerServed
  <1>9. KernelServes'
    BY <1>1, <1>3, <1>4, <1>5 DEF KernelServes, Serving
  <1>10. KernelRuns'
    BY <1>1, <1>3, <1>4, <1>5, <1>7 DEF KernelRuns, ToRun
  <1>11. KernelTypeOK'
    BY <1>1, <1>5 DEF KernelTypeOK
  <1> QED
    BY <1>3, <1>4, <1>5, <1>6, <1>8, <1>9, <1>10, <1>11, OthersServed, Assembled

(* One candidate of a scan.                                                *)
LEMMA GpuScanSlot ==
    ASSUME ChannelInv, NEW c \in Callers, scanSlot(c)
    PROVE  ChannelInv'
  <1>1. /\ LeaseInv /\ KernelTypeOK /\ KernelServes /\ KernelRuns
        /\ \A d \in Callers : CallerServed(d)
    BY ByCaller
  <1>2. PICK s \in Slots : s = candidate(c)
    <2>1. nextSlot + attempt[c] \in Nat
      BY <1>1 DEF LeaseInv, WrapperTypeOK, Slots
    <2> QED
      BY <2>1, SlotWraps DEF candidate
  <1>3. /\ WrapperTypeOK /\ Scanning(c) /\ attempt[c] < NumSlots /\ started
        /\ UNCHANGED <<env, undercut, started, ring, status>>
        /\ UNCHANGED <<kShutdown, kShared, kPc, kCur, kReqId, kCount, kStats, kExecuted>>
    BY <1>1 DEF scanSlot, LeaseInv, CallersPlaced, Scanning, loopVars, kernelVars
  <1>4. CASE ~(isFree(s) /\ isSlotReady(s))
    <2>1. passOver(c) /\ UNCHANGED <<rxFlag, txFlag, ffPending>>
      BY <1>2, <1>4 DEF scanSlot
    <2>2. UNCHANGED <<rxData, txData, cPc, frame, nextRequestId>>
      BY <2>1 DEF passOver
    <2>3. FlagsTyped
      BY <1>3, <2>1, <2>2 DEF FlagsTyped, WrapperTypeOK, RingTypeOK, Statuses
    <2>4. LeaseInv'
      BY <1>1, <1>3, <2>1, <2>3, PassOverKeeps
    <2>5. \A d \in Callers : CallerServed(d)'
      BY <1>1, <1>3, <2>1, <2>2, CallerStays
    <2>6. KernelTypeOK' /\ KernelServes' /\ KernelRuns'
      BY <1>1, <1>3, <2>1, <2>2, KernelStays DEF KernelTypeOK
    <2> QED
      BY <2>4, <2>5, <2>6, Assembled
  <1>5. CASE isFree(s) /\ isSlotReady(s)
    <2>1. /\ claimSlot(c, s) /\ ~inUse[s] /\ ~rxFlag[s]
          /\ rxFlag' = [rxFlag EXCEPT ![s] = FALSE]
          /\ txFlag' = [txFlag EXCEPT ![s] = FALSE]
          /\ ffPending' = [ffPending EXCEPT ![s] = FALSE]
      BY <1>2, <1>5 DEF scanSlot, isFree, isSlotReady
    <2>2. /\ txData' = [txData EXCEPT ![s] = Zero]
          /\ nextRequestId' = nextRequestId + 1 /\ nextRequestId \in Nat
          /\ rxData'[s].id = nextRequestId /\ rxData'[s] # Zero
          /\ \A t \in Slots : t # s => rxData'[t] = rxData[t]
      <3>1. [id |-> nextRequestId, magic |-> TRUE, fn |-> frame[c].fn] \in Requests
        BY <1>3 DEF WrapperTypeOK, Frames, Requests
      <3> QED
        BY <1>3, <2>1, <3>1, ZeroAssumption DEF claimSlot, WrapperTypeOK, RingTypeOK
    <2>3. /\ txData' \in [Slots -> Replies \cup {Zero}]
          /\ rxFlag' \in [Slots -> BOOLEAN] /\ txFlag' \in [Slots -> BOOLEAN]
          /\ ffPending' \in [Slots -> BOOLEAN] /\ ~rxFlag'[s] /\ ~txFlag'[s]
          /\ \A t \in Slots : t # s =>
                /\ txData'[t] = txData[t] /\ rxFlag'[t] = rxFlag[t]
                /\ txFlag'[t] = txFlag[t] /\ ffPending'[t] = ffPending[t]
      BY <1>3, <2>1, <2>2 DEF WrapperTypeOK, RingTypeOK
    <2>4. FlagsTyped
      BY <1>3, <2>3 DEF FlagsTyped, WrapperTypeOK, Statuses
    <2>5. LeaseInv'
      BY <1>1, <1>3, <2>1, <2>4, ClaimKeeps
    <2>6. /\ cPc'[c] \in {"claimed", "leased"} /\ frame'[c].slot = s
          /\ frame'[c].id = nextRequestId
          /\ \A d \in Callers : d # c => cPc'[d] = cPc[d] /\ frame'[d] = frame[d]
      BY <1>3, <2>1, ClaimedFrame
    <2>7. \A d \in Callers : CallerServed(d)'
      <3>1. CallerServed(c)'
        <4>1. \A i \in DOMAIN kExecuted : kExecuted[i] # nextRequestId
          BY <1>1, <1>3, <2>2 DEF KernelRuns, KernelTypeOK
        <4> QED
          BY <1>1, <1>3, <2>3, <2>6, <4>1 DEF CallerServed
      <3>2. ASSUME NEW d \in Callers, d # c PROVE CallerServed(d)'
        <4>1. Holding(d) => frame[d].slot \in Slots /\ frame[d].slot # s
          BY <1>1, <2>1 DEF LeaseInv, LeasesHeld, WrapperTypeOK, Frames
        <4> QED
          BY <1>1, <1>3, <2>3, <2>6, <3>2, <4>1, CallerStays
      <3> QED
        BY <3>1, <3>2
    <2>8. kPc \in {"run", "publish"} => kCur # s /\ kCur \in Slots
      BY <1>1, <2>1 DEF KernelServes, Serving, KernelTypeOK
    <2>9. KernelServes'
      <3>1. \A t \in Slots : Serving(t) => t # s
        BY <1>1, <2>1 DEF KernelServes
      <3> QED
        BY <1>1, <1>3, <2>2, <2>3, <2>8, <3>1 DEF KernelServes, Serving
    <2>10. KernelRuns'
      <3>1. \A t \in Slots : ToRun(t)' => ToRun(t) /\ t # s
        BY <1>3, <2>3 DEF ToRun
      <3>2. \A i \in DOMAIN kExecuted : kExecuted[i] \in Nat
        BY <1>1 DEF KernelTypeOK
      <3>3. \A i \in DOMAIN kExecuted : kExecuted[i] < nextRequestId'
        BY <1>1, <1>3, <2>2, <3>2 DEF KernelRuns
      <3> QED
        BY <1>1, <1>3, <2>2, <3>1, <3>3 DEF KernelRuns
    <2>11. KernelTypeOK'
      BY <1>1, <1>3 DEF KernelTypeOK
    <2> QED
      BY <2>5, <2>7, <2>9, <2>10, <2>11, Assembled
  <1> QED
    BY <1>4, <1>5

(* The deadline of a waiting caller passes.                                *)
LEMMA GpuTimeOut ==
    ASSUME ChannelInv, NEW c \in Callers, timeOut(c)
    PROVE  ChannelInv'
  <1>1. /\ LeaseInv /\ KernelTypeOK /\ KernelServes /\ KernelRuns
        /\ \A d \in Callers : CallerServed(d)
    BY ByCaller
  <1>2. /\ giveUp(c) /\ WrapperTypeOK /\ kShutdown' \in BOOLEAN
        /\ UNCHANGED <<started, ffPending, nextRequestId, rxFlag, txFlag, rxData, txData>>
        /\ UNCHANGED <<kShared, kPc, kCur, kReqId, kCount, kStats, kExecuted>>
    BY <1>1 DEF timeOut, giveUp, LeaseInv, WrapperTypeOK, tableVars, ringVars, kernelVars
  <1>3. LeaseInv'
    BY <1>1, <1>2, GiveUpKeeps
  <1>4. /\ cPc'[c] = "joining" /\ status'[c] = "timeout"
        /\ \A d \in Callers : d # c =>
              cPc'[d] = cPc[d] /\ frame'[d] = frame[d] /\ status'[d] = status[d]
    BY <1>2, Unbinds DEF giveUp, End, Goto, WrapperTypeOK
  <1>5. CallerServed(c)'
    BY <1>4 DEF CallerServed
  <1>6. KernelTypeOK' /\ KernelServes' /\ KernelRuns'
    BY <1>1, <1>2, KernelStays
  <1> QED
    BY <1>2, <1>3, <1>4, <1>5, <1>6, OthersServed, Assembled

(* The kernel has ended, after a deadline or at a stop.                    *)
LEMMA GpuTornDown ==
    ASSUME ChannelInv, stopped \/ \E c \in Callers : timedOut(c)
    PROVE  ChannelSound'
  <1>1. /\ LeaseInv /\ KernelTypeOK /\ KernelServes /\ KernelRuns
        /\ \A d \in Callers : CallerServed(d)
    BY ByCaller
  <1>2. /\ tornDown /\ UNCHANGED status /\ started' = FALSE
        /\ UNCHANGED <<rxFlag, txFlag, rxData, txData>>
        /\ UNCHANGED <<kShutdown, kShared, kPc, kCur, kReqId, kCount, kStats, kExecuted>>
    BY DEF stopped, timedOut, stopNoLock, tornDown, ringVars, loopVars, kernelVars
  <1>3. WrapperTypeOK' /\ UndercutByDeadline' /\ (~undercut' => LeaseInv')
    BY <1>1, <1>2, TornDownKeeps DEF stopped, timedOut
  <1>4. KernelTypeOK' /\ KernelServes' /\ KernelRuns'
    BY <1>1, <1>2, KernelStays DEF KernelTypeOK
  <1>5. ASSUME ~undercut' PROVE ChannelInv'
    <2>1. \A d \in Callers : ~Holding(d)' /\ cPc'[d] \notin {"claimed", "leased", "wait"}
      BY <1>2, <1>3, <1>5 DEF LeaseInv, CallersPlaced, Holding
    <2>2. \A d \in Callers : CallerServed(d)'
      BY <1>1, <1>2, <2>1 DEF CallerServed, Holding
    <2> QED
      BY <1>3, <1>4, <1>5, <2>2, Assembled
  <1> QED
    BY <1>3, <1>4, <1>5 DEF ChannelSound, TypeOK

(* A frame is released: both flags are cleared unless the call was a       *)
(* fire-and-forget.                                                        *)
LEMMA GpuReleaseFrame ==
    ASSUME ChannelInv, NEW c \in Callers, releaseFrame(c)
    PROVE  ChannelInv'
  <1>1. /\ LeaseInv /\ KernelTypeOK /\ KernelServes /\ KernelRuns
        /\ \A d \in Callers : CallerServed(d)
    BY ByCaller
  <1>2. /\ WrapperTypeOK /\ frame[c].slot \in Slots /\ Releasing(c) /\ Goto(c, "idle")
        /\ inUse' = IF frame[c].bound /\ inUse[frame[c].slot]
                      THEN [inUse EXCEPT ![frame[c].slot] = FALSE] ELSE inUse
        /\ txFlag' = IF frame[c].bound /\ inUse[frame[c].slot] /\ ~ffPending[frame[c].slot]
                       THEN [txFlag EXCEPT ![frame[c].slot] = FALSE] ELSE txFlag
        /\ rxFlag' = IF frame[c].bound /\ inUse[frame[c].slot] /\ ~ffPending[frame[c].slot]
                       THEN [rxFlag EXCEPT ![frame[c].slot] = FALSE] ELSE rxFlag
        /\ frame' = [frame EXCEPT ![c].bound = FALSE]
        /\ UNCHANGED <<env, undercut, started, ring, mutex, ffPending, nextSlot>>
        /\ UNCHANGED <<nextRequestId, forgotten, attempt, status, rxData, txData>>
        /\ UNCHANGED <<kShutdown, kShared, kPc, kCur, kReqId, kCount, kStats, kExecuted>>
    BY <1>1 DEF LeaseInv, WrapperTypeOK, Frames, releaseFrame, loopVars, kernelVars
  <1>3. /\ txFlag' \in [Slots -> BOOLEAN] /\ rxFlag' \in [Slots -> BOOLEAN]
        /\ ~frame[c].bound \/ ffPending[frame[c].slot] =>
              txFlag' = txFlag /\ rxFlag' = rxFlag
        /\ \A s \in Slots : s # frame[c].slot =>
              txFlag'[s] = txFlag[s] /\ rxFlag'[s] = rxFlag[s]
        /\ \A s \in Slots : rxFlag'[s] => rxFlag[s]
    BY <1>2 DEF WrapperTypeOK, RingTypeOK
  <1>4. LeaseInv'
    <2>1. FlagsTyped
      BY <1>2, <1>3 DEF FlagsTyped, WrapperTypeOK, RingTypeOK, Statuses
    <2> QED
      BY <1>1, <1>2, <2>1, ReleaseKeeps
  <1>5. /\ cPc'[c] = "idle" /\ \A d \in Callers : d # c =>
              cPc'[d] = cPc[d] /\ frame'[d] = frame[d] /\ status'[d] = status[d]
    BY <1>2, Unbinds DEF Goto, WrapperTypeOK
  <1>6. CallerServed(c)'
    BY <1>1, <1>2, <1>5 DEF CallerServed
  <1>7. frame[c].bound => Holding(c)
    BY <1>2 DEF Releasing, Holding
  <1>8. KernelTypeOK' /\ KernelRuns'
    BY <1>1, <1>2, <1>3 DEF KernelTypeOK, KernelRuns, ToRun
  <1>9. KernelServes'
    <2>1. frame[c].bound /\ ~ffPending[frame[c].slot] => ~Serving(frame[c].slot)
      BY <1>1, <1>2 DEF Releasing, CallerServed, Answered, KernelServes
    <2>2. \A s \in Slots : Serving(s) => rxFlag'[s]
      BY <1>1, <1>3, <2>1 DEF KernelServes
    <2> QED
      BY <1>1, <1>2, <1>3, <2>2 DEF KernelServes, Serving
  <1> QED
    BY <1>2, <1>3, <1>4, <1>5, <1>6, <1>7, <1>8, <1>9, OthersServed, Assembled

(* The owner raises the shutdown flag.                                     *)
LEMMA GpuStop ==
    ASSUME ChannelInv, stop
    PROVE  ChannelInv'
  <1>1. /\ LeaseInv /\ KernelTypeOK /\ KernelServes /\ KernelRuns
        /\ \A d \in Callers : CallerServed(d)
    BY ByCaller
  <1>2. /\ beginStop /\ kShutdown' \in BOOLEAN
        /\ UNCHANGED <<started, ffPending, nextRequestId, cPc, frame, status>>
        /\ UNCHANGED <<rxFlag, txFlag, rxData, txData>>
        /\ UNCHANGED <<kShared, kPc, kCur, kReqId, kCount, kStats, kExecuted>>
    BY DEF stop, beginStop, tableVars, callerVars, ringVars, kernelVars
  <1>3. LeaseInv'
    BY <1>1, <1>2, BeginStopKeeps
  <1>4. \A d \in Callers : CallerServed(d)'
    BY <1>1, <1>2, CallerStays
  <1>5. KernelTypeOK' /\ KernelServes' /\ KernelRuns'
    BY <1>1, <1>2, KernelStays
  <1> QED
    BY <1>3, <1>4, <1>5, Assembled

-----------------------------------------------------------------------------
(* The kernel.                                                             *)

(* What no step of the kernel changes.                                     *)
LEMMA KernelFrame ==
    ASSUME ChannelInv, Kernel, rxFlag' \in [Slots -> BOOLEAN],
           txFlag' \in [Slots -> BOOLEAN], txData' \in [Slots -> Replies \cup {Zero}],
           UNCHANGED rxData
    PROVE  /\ LeaseInv'
           /\ UNCHANGED <<started, ffPending, nextRequestId, cPc, frame, status>>
  <1>1. /\ LeaseInv /\ WrapperTypeOK
        /\ UNCHANGED <<env, undercut, started, ring, mutex, inUse, ffPending, nextSlot>>
        /\ UNCHANGED <<nextRequestId, forgotten, cPc, frame, attempt, status>>
    BY ByCaller DEF LeaseInv, Kernel, chanVars, tableVars, callerVars
  <1>2. FlagsTyped
    BY <1>1 DEF FlagsTyped, WrapperTypeOK, Statuses
  <1> QED
    BY <1>1, <1>2, LeaseStays

(* What the kernel knows when it moves.                                    *)
KernelAt ==
    /\ LeaseInv /\ KernelTypeOK /\ KernelServes /\ KernelRuns /\ started
    /\ \A d \in Callers : CallerServed(d) /\ frame[d].slot \in Slots
    /\ RingTypeOK(Requests, Replies) /\ kCur \in Slots /\ NextSlot(kCur) \in Slots

LEMMA KernelKnows ==
    ASSUME ChannelInv, Kernel PROVE KernelAt
  <1>1. kCur \in Slots
    BY ByCaller DEF KernelTypeOK
  <1>2. NextSlot(kCur) \in Slots
    BY <1>1, SlotWraps DEF NextSlot, Slots
  <1> QED
    BY <1>1, <1>2, ByCaller DEF KernelAt, Kernel, LeaseInv, WrapperTypeOK, Frames

(* Polling, reading the header and leaving the loop.                       *)
LEMMA KernelMoves ==
    ASSUME ChannelInv, Kernel,
           kernelPoll \/ kernelScan \/ kernelProbe \/ kernelHeader \/ kernelExit
    PROVE  ChannelInv'
  <1>1. KernelAt
    BY KernelKnows
  <1>2. /\ kernelPoll \/ kernelHeader \/ kernelExit
        /\ UNCHANGED <<rxFlag, txFlag, rxData, txData, kExecuted, kShared, kShutdown>>
    BY <1>1 DEF KernelAt, KernelServes, kernelPoll, kernelScan, kernelProbe,
       kernelHeader, kernelExit, ringVars
  <1>3. /\ LeaseInv' /\ UNCHANGED <<started, ffPending, nextRequestId, cPc, frame, status>>
    BY <1>1, <1>2, KernelFrame DEF KernelAt, RingTypeOK
  <1>4. UNCHANGED kCur /\ ~kShared
    BY <1>1, <1>2 DEF KernelAt, KernelServes, kernelPoll, kernelHeader, kernelExit,
       kernelClaim
  <1>5. KernelTypeOK'
    <2>1. kPc = "header" => rxData[kCur] \in Requests /\ rxData[kCur].id \in Nat
      BY <1>1 DEF KernelAt, KernelServes, Serving, RingTypeOK, Requests
    <2> QED
      BY <1>1, <1>2, <1>4, <2>1
      DEF KernelAt, KernelTypeOK, kernelPoll, kernelHeader, kernelExit, kernelClaim
  <1>6. \/ kPc = "poll" /\ kPc' = "header" /\ rxFlag[kCur] /\ UNCHANGED kReqId
        \/ kPc = "header" /\ kPc' = "run" /\ kReqId' = rxData[kCur].id
        \/ kPc = "header" /\ kPc' = "exit"
        \/ kPc = "header" /\ kPc' = "drop" /\ UNCHANGED kReqId
        \/ kPc = "poll" /\ kPc' = "exit" /\ UNCHANGED kReqId
    BY <1>2, <1>4 DEF kernelPoll, kernelHeader, kernelExit, kernelClaim
  <1>7. KernelServes'
    BY <1>1, <1>2, <1>4, <1>6 DEF KernelAt, KernelServes, Serving
  <1>8. KernelRuns'
    BY <1>1, <1>2, <1>3, <1>4, <1>6 DEF KernelAt, KernelRuns, ToRun
  <1>9. \A s \in Slots : Answered(s) => Answered(s)'
    BY <1>2, <1>4, <1>6 DEF Answered, Serving
  <1>10. \A d \in Callers : CallerServed(d)'
    BY <1>1, <1>2, <1>3, <1>9 DEF KernelAt, CallerServed
  <1> QED
    BY <1>3, <1>5, <1>7, <1>8, <1>10, Assembled

(* The RX flag is cleared, after an answer or without one.                 *)
LEMMA KernelRetires ==
    ASSUME ChannelInv, Kernel, kernelDrop \/ kernelRetire
    PROVE  ChannelInv'
  <1>1. KernelAt
    BY KernelKnows
  <1>2. /\ rxFlag' = [rxFlag EXCEPT ![kCur] = FALSE] /\ kCur' = NextSlot(kCur)
        /\ kPc' = "poll" /\ kCount' \in Nat
        /\ UNCHANGED <<kReqId, kStats, kExecuted, kShared, kShutdown>>
        /\ UNCHANGED <<txFlag, rxData, txData>>
    BY <1>1 DEF KernelAt, KernelTypeOK, kernelDrop, kernelRetire
  <1>3. /\ rxFlag' \in [Slots -> BOOLEAN] /\ ~rxFlag'[kCur]
        /\ \A s \in Slots : s # kCur => rxFlag'[s] = rxFlag[s]
    BY <1>1, <1>2 DEF KernelAt, RingTypeOK
  <1>4. /\ LeaseInv' /\ UNCHANGED <<started, ffPending, nextRequestId, cPc, frame, status>>
    BY <1>1, <1>2, <1>3, KernelFrame DEF KernelAt, RingTypeOK
  <1>5. KernelTypeOK'
    BY <1>1, <1>2 DEF KernelAt, KernelTypeOK
  <1>6. KernelServes'
    BY <1>1, <1>2, <1>3 DEF KernelAt, KernelServes, Serving
  <1>7. KernelRuns'
    <2>1. \A s \in Slots : ToRun(s)' => ToRun(s)
      BY <1>1, <1>2, <1>3 DEF ToRun, KernelAt
    <2> QED
      BY <1>1, <1>2, <1>4, <2>1 DEF KernelAt, KernelRuns
  <1>8. \A s \in Slots : Answered(s) => Answered(s)'
    BY <1>2, <1>3 DEF Answered, Serving
  <1>9. \A s \in Slots : ~rxFlag[s] => ~rxFlag'[s]
    BY <1>3
  <1>10. \A d \in Callers : CallerServed(d)'
    BY <1>1, <1>2, <1>4, <1>8, <1>9 DEF KernelAt, CallerServed
  <1> QED
    BY <1>4, <1>5, <1>6, <1>7, <1>10, Assembled

(* The handler runs.                                                       *)
LEMMA KernelRunsCall ==
    ASSUME ChannelInv, Kernel, kernelRun
    PROVE  ChannelInv'
  <1>1. KernelAt
    BY KernelKnows
  <1>2. /\ kPc = "run" /\ kPc' = "publish" /\ rxFlag[kCur] /\ Serving(kCur)
        /\ txData' = [txData EXCEPT ![kCur] = [id |-> kReqId]]
        /\ kExecuted' = Append(kExecuted, kReqId)
        /\ kReqId = rxData[kCur].id /\ rxData[kCur] # Zero /\ kReqId \in Nat
        /\ UNCHANGED <<kCur, kReqId, kCount, kStats, kShared, kShutdown>>
        /\ UNCHANGED <<rxFlag, txFlag, rxData>>
    BY <1>1 DEF KernelAt, KernelServes, KernelTypeOK, Serving, kernelRun
  <1>3. /\ txData' \in [Slots -> Replies \cup {Zero}] /\ txData'[kCur] = [id |-> kReqId]
        /\ \A s \in Slots : s # kCur => txData'[s] = txData[s]
    <2>1. [id |-> kReqId] \in Replies
      BY <1>2 DEF Replies
    <2> QED
      BY <1>1, <1>2, <2>1 DEF KernelAt, RingTypeOK
  <1>4. /\ LeaseInv' /\ UNCHANGED <<started, ffPending, nextRequestId, cPc, frame, status>>
    BY <1>1, <1>2, <1>3, KernelFrame DEF KernelAt, RingTypeOK
  <1>5. PICK n \in Nat : n = Len(kExecuted)
    BY <1>1 DEF KernelAt, KernelTypeOK
  <1>6. /\ kExecuted' \in Seq(Nat) /\ DOMAIN kExecuted' = 1 .. n + 1
        /\ DOMAIN kExecuted = 1 .. n /\ kExecuted'[n + 1] = kReqId
        /\ \A i \in 1 .. n : kExecuted'[i] = kExecuted[i] /\ kExecuted[i] \in Nat
    BY <1>1, <1>2, <1>5 DEF KernelAt, KernelTypeOK
  <1>7. /\ \A i \in 1 .. n : kExecuted[i] # kReqId
        /\ \A i \in 1 .. n + 1 : i \in 1 .. n \/ i = n + 1
        /\ kReqId < nextRequestId
    <2>1. ToRun(kCur)
      BY <1>2 DEF ToRun
    <2>2. \A i \in 1 .. n : kExecuted[i] # kReqId
      BY <1>1, <1>2, <1>6, <2>1 DEF KernelAt, KernelRuns
    <2>3. kReqId < nextRequestId
      BY <1>1, <1>2 DEF KernelAt, LeaseInv, RequestsDistinct
    <2> QED
      BY <2>2, <2>3
  <1>8. KernelTypeOK'
    BY <1>1, <1>2, <1>6 DEF KernelAt, KernelTypeOK
  <1>9. KernelServes'
    BY <1>1, <1>2, <1>3 DEF KernelAt, KernelServes, Serving
  <1>10. KernelRuns'
    <2>1. \A s \in Slots : ToRun(s)' => ToRun(s) /\ s # kCur
      BY <1>2 DEF ToRun
    <2>2. \A s \in Slots : ToRun(s)' => rxData[s].id # kReqId
      BY <1>1, <1>2, <2>1 DEF KernelAt, LeaseInv, RequestsDistinct, KernelServes, ToRun
    <2>3. \A i, j \in DOMAIN kExecuted' : kExecuted'[i] = kExecuted'[j] => i = j
      BY <1>1, <1>6, <1>7 DEF KernelAt, KernelRuns
    <2>4. \A i \in DOMAIN kExecuted' : kExecuted'[i] < nextRequestId
      BY <1>1, <1>6, <1>7 DEF KernelAt, KernelRuns
    <2>5. \A s \in Slots, i \in DOMAIN kExecuted' : ToRun(s)' => kExecuted'[i] # rxData[s].id
      BY <1>1, <1>6, <1>7, <2>1, <2>2 DEF KernelAt, KernelRuns
    <2> QED
      BY <1>2, <1>4, <2>3, <2>4, <2>5 DEF KernelRuns
  <1>11. \A s \in Slots : Answered(s) => Answered(s)' /\ s # kCur
    BY <1>2 DEF Answered, Serving
  <1>12. \A d \in Callers : CallerServed(d)'
    <2> SUFFICES ASSUME NEW d \in Callers PROVE CallerServed(d)'
      OBVIOUS
    <2>1. cPc[d] \in {"claimed", "leased"} => kReqId # frame[d].id
      <3>1. cPc[d] \in {"claimed", "leased"} =>
               rxData[frame[d].slot] # Zero /\ rxData[frame[d].slot].id = frame[d].id
        BY <1>1 DEF KernelAt, LeaseInv, LeasesHeld
      <3>2. cPc[d] \in {"claimed", "leased"} => frame[d].slot # kCur
        BY <1>1, <1>2 DEF KernelAt, CallerServed
      <3> QED
        BY <1>1, <1>2, <3>1, <3>2 DEF KernelAt, LeaseInv, RequestsDistinct
    <2>2. cPc[d] \in {"claimed", "leased"} =>
             \A i \in DOMAIN kExecuted' : kExecuted'[i] # frame[d].id
      BY <1>1, <1>6, <1>7, <2>1 DEF KernelAt, CallerServed
    <2> QED
      BY <1>1, <1>2, <1>3, <1>4, <1>11, <2>2 DEF KernelAt, CallerServed
  <1> QED
    BY <1>4, <1>8, <1>9, <1>10, <1>12, Assembled

(* The response is published.                                              *)
LEMMA KernelPublishes ==
    ASSUME ChannelInv, Kernel, kernelPublish
    PROVE  ChannelInv'
  <1>1. KernelAt
    BY KernelKnows
  <1>2. /\ kPc = "publish" /\ kPc' = "retire" /\ rxFlag[kCur] /\ Serving(kCur)
        /\ txFlag' = [txFlag EXCEPT ![kCur] = TRUE]
        /\ kReqId = rxData[kCur].id /\ txData[kCur] = [id |-> kReqId]
        /\ UNCHANGED <<kCur, kReqId, kCount, kStats, kExecuted, kShared, kShutdown>>
        /\ UNCHANGED <<rxFlag, rxData, txData>>
    BY <1>1 DEF KernelAt, KernelServes, Serving, kernelPublish
  <1>3. /\ txFlag' \in [Slots -> BOOLEAN]
        /\ \A s \in Slots : s # kCur => txFlag'[s] = txFlag[s]
    BY <1>1, <1>2 DEF KernelAt, RingTypeOK
  <1>4. /\ LeaseInv' /\ UNCHANGED <<started, ffPending, nextRequestId, cPc, frame, status>>
    BY <1>1, <1>2, <1>3, KernelFrame DEF KernelAt, RingTypeOK
  <1>5. KernelTypeOK'
    BY <1>1, <1>2 DEF KernelAt, KernelTypeOK
  <1>6. KernelServes'
    BY <1>1, <1>2 DEF KernelAt, KernelServes, Serving
  <1>7. KernelRuns'
    BY <1>1, <1>2, <1>4 DEF KernelAt, KernelRuns, ToRun
  <1>8. Answered(kCur)' /\ \A s \in Slots : Answered(s) => Answered(s)' /\ s # kCur
    BY <1>2 DEF Answered, Serving
  <1>9. \A d \in Callers : CallerServed(d)'
    <2> SUFFICES ASSUME NEW d \in Callers PROVE CallerServed(d)'
      OBVIOUS
    <2>1. cPc[d] = "wait" => rxData[frame[d].slot].id = frame[d].id
      BY <1>1 DEF KernelAt, LeaseInv, LeasesHeld
    <2>2. cPc[d] \in {"claimed", "leased"} => frame[d].slot # kCur
      BY <1>1, <1>2 DEF KernelAt, CallerServed
    <2> QED
      BY <1>1, <1>2, <1>3, <1>4, <1>8, <2>1, <2>2 DEF KernelAt, CallerServed
  <1> QED
    BY <1>4, <1>5, <1>6, <1>7, <1>9, Assembled

-----------------------------------------------------------------------------
(* The theorems.                                                           *)

LEMMA InvIsSound == ChannelInv => ChannelSound
  BY DEF ChannelInv, LeaseInv, ChannelSound, TypeOK, UndercutByDeadline

LEMMA InvIsSoundNext == ChannelInv' => ChannelSound'
  BY DEF ChannelInv, LeaseInv, ChannelSound, TypeOK, UndercutByDeadline

LEMMA ChannelStep == ChannelInv /\ Next => ChannelSound'
  <1> SUFFICES ASSUME ChannelInv, Next PROVE ChannelSound'
    OBVIOUS
  <1>1. ASSUME NEW c \in Callers, acquireFrame(c) \/ Caller(c) PROVE ChannelSound'
    BY <1>1, GpuAcquire, GpuScanSlot, GpuMoves, GpuDispatchFrame, GpuTimeOut,
       GpuTornDown, GpuReleaseFrame, InvIsSoundNext DEF Caller
  <1>2. CASE stop \/ stopped
    BY <1>2, GpuStop, GpuTornDown, InvIsSoundNext
  <1>3. CASE Kernel
    BY <1>3, KernelMoves, KernelRetires, KernelRunsCall, KernelPublishes, InvIsSoundNext
    DEF Kernel, kernelLoop
  <1> QED
    BY <1>1, <1>2, <1>3 DEF Next

LEMMA ChannelStutter == ChannelSound /\ UNCHANGED vars => ChannelSound'
  <1> SUFFICES ASSUME ChannelSound, UNCHANGED vars PROVE ChannelSound'
    OBVIOUS
  <1>1. /\ UNCHANGED <<env, undercut, started, ring, mutex, inUse, ffPending, nextSlot>>
        /\ UNCHANGED <<nextRequestId, forgotten, cPc, frame, attempt, status>>
        /\ UNCHANGED <<rxFlag, txFlag, rxData, txData, kShutdown, kShared, kPc, kCur>>
        /\ UNCHANGED <<kReqId, kCount, kStats, kExecuted>>
    BY DEF vars, chanVars, tableVars, callerVars, ringVars, kernelVars
  <1>2. TypeOK' /\ UndercutByDeadline'
    BY <1>1 DEF ChannelSound, TypeOK, WrapperTypeOK, RingTypeOK, KernelTypeOK,
       UndercutByDeadline
  <1>3. ASSUME ~undercut PROVE ChannelInv'
    <2>1. /\ LeaseInv /\ KernelTypeOK /\ KernelServes /\ KernelRuns /\ WrapperTypeOK
          /\ \A d \in Callers : CallerServed(d)
      BY <1>3, ByCaller DEF ChannelSound, LeaseInv
    <2>2. FlagsTyped
      BY <1>1, <2>1 DEF FlagsTyped, WrapperTypeOK, RingTypeOK, Statuses
    <2>3. LeaseInv'
      BY <1>1, <2>1, <2>2, LeaseStays
    <2>4. /\ \A d \in Callers : CallerServed(d)'
          /\ KernelTypeOK' /\ KernelServes' /\ KernelRuns'
      BY <1>1, <2>1, CallerStays, KernelStays DEF KernelTypeOK
    <2> QED
      BY <2>3, <2>4, Assembled
  <1> QED
    BY <1>1, <1>2, <1>3 DEF ChannelSound

(* The invariant of the channel holds for any number of callers and slots, *)
(* with fire-and-forget calls, functions the kernel does not know or has   *)
(* no handler for, cancelled frames, failed starts, restarts and deadlines *)
(* in every thread, up to the teardown that frees the ring under a caller. *)
THEOREM GpuChannelInvariant == Spec => []ChannelSound
  <1>1. Init => ChannelSound
    BY ChannelStart, InvIsSound
  <1>2. ChannelSound /\ [Next]_vars => ChannelSound'
    <2> SUFFICES ASSUME ChannelSound, [Next]_vars PROVE ChannelSound'
      OBVIOUS
    <2>1. CASE Next
      <3>1. ChannelInv
        BY <2>1 DEF Next, ChannelSound
      <3> QED
        BY <2>1, <3>1, ChannelStep
    <2>2. CASE UNCHANGED vars
      BY <2>2, ChannelStutter
    <2> QED
      BY <2>1, <2>2
  <1> QED
    BY <1>1, <1>2, PTL DEF Spec

(* A slot of the channel has one leaseholder, none is lost but by the late *)
(* deadline test, and no frame that will be released points into freed     *)
(* storage, until a deadline tears the ring down beside another call.      *)
THEOREM GpuLeasesSound == Spec => []LeasesSound
  <1>1. ChannelSound => LeasesSound
    BY LeaseInvMeans DEF ChannelSound, ChannelInv, LeasesSound
  <1> QED
    BY <1>1, GpuChannelInvariant, PTL

(* The kernel runs a call once, never a cancelled one, and neither reads   *)
(* nor answers a slot that a caller has leased and not signalled, until    *)
(* then.                                                                   *)
THEOREM GpuKernelKeepsToLeases == Spec => []KernelKeepsToLeases
  <1>1. ChannelSound => KernelKeepsToLeases
    <2> SUFFICES ASSUME ChannelInv PROVE RanOnce(kExecuted) /\ KernelLeavesLease
      BY DEF KernelKeepsToLeases, RunsOnce, ChannelSound
    <2>1. RanOnce(kExecuted)
      BY DEF ChannelInv, RunsAhead, RanOnce
    <2>2. \A c \in Callers : frame[c].slot \in Slots
      BY DEF ChannelInv, LeaseInv, WrapperTypeOK, Frames
    <2>3. KernelLeavesLease
      BY <2>2 DEF ChannelInv, CallersServed, KernelServes, Serving, KernelLeavesLease
    <2> QED
      BY <2>1, <2>3
  <1> QED
    BY <1>1, GpuChannelInvariant, PTL

(* No caller ever finds another call's response, or a stale one, until     *)
(* then.                                                                   *)
THEOREM GpuNoMismatch == Spec => []NoMismatch
  <1>1. ChannelSound => NoMismatch
    BY DEF ChannelSound, ChannelInv, NoMismatch
  <1> QED
    BY <1>1, GpuChannelInvariant, PTL

==============================================================================
