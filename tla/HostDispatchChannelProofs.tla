---------------------- MODULE HostDispatchChannelProofs ----------------------
(***************************************************************************)
(* Proofs about the in-process device_call channel, for any number of      *)
(* callers and slots: ChannelInv is inductive, and from it follow that     *)
(* leases are exclusive, that a handler runs once per call and that no     *)
(* caller ever finds another call's response.                              *)
(***************************************************************************)
EXTENDS HostDispatchChannel, RingBufferWrapperProofs

(* What SlotsServed, RunsAhead and NoMismatch say about one caller ...     *)
CallerServed(c) ==
    /\ cPc[c] \in {"claimed", "leased"} =>
          /\ ~rxFlag[frame[c].slot] /\ ~txFlag[frame[c].slot]
          /\ \A i \in DOMAIN executed : executed[i] # frame[c].id
    /\ cPc[c] = "wait" /\ txFlag[frame[c].slot] =>
          txData[frame[c].slot] = [id |-> frame[c].id]
    /\ status[c] # "mismatch"

(* ... and about the loop.                                                 *)
LoopServes ==
    /\ dPc \notin {"poll", "exit"} =>
          dPc \notin {"scan", "reload"} /\ rxFlag[dSlot] /\ rxData[dSlot] # Zero
    /\ dPc = "publish" => txData[dSlot] = Reply(rxData[dSlot])
    /\ \A s \in Slots : rxFlag[s] => rxData[s] # Zero
LoopRuns ==
    /\ \A i, j \in DOMAIN executed : executed[i] = executed[j] => i = j
    /\ started => \A i \in DOMAIN executed : executed[i] < nextRequestId
    /\ started => \A s \in Slots, i \in DOMAIN executed :
          ToRun(s) => executed[i] # rxData[s].id

LEMMA ByCaller ==
    ChannelInv <=> /\ LeaseInv /\ DispTypeOK /\ LoopServes /\ LoopRuns
                   /\ \A c \in Callers : CallerServed(c)
  BY DEF ChannelInv, LeaseInv, SlotsServed, RunsAhead, NoMismatch, CallerServed,
     LoopServes, LoopRuns

LEMMA Assembled ==
    ASSUME LeaseInv', DispTypeOK', LoopServes', LoopRuns',
           \A c \in Callers : CallerServed(c)'
    PROVE  ChannelInv'
  BY DEF ChannelInv, LeaseInv, SlotsServed, RunsAhead, NoMismatch, CallerServed,
     LoopServes, LoopRuns

(* A step that changes nothing of the loop and nothing under caller d.     *)
LEMMA CallerStays ==
    ASSUME LeaseInv, NEW d \in Callers, CallerServed(d),
           cPc'[d] = cPc[d], frame'[d] = frame[d], status'[d] = status[d],
           UNCHANGED executed,
           cPc[d] \in {"claimed", "leased", "wait"} =>
              /\ rxFlag'[frame[d].slot] = rxFlag[frame[d].slot]
              /\ txFlag'[frame[d].slot] = txFlag[frame[d].slot]
              /\ txData'[frame[d].slot] = txData[frame[d].slot]
    PROVE  CallerServed(d)'
  BY DEF CallerServed

(* Other callers hold other slots.                                         *)
LEMMA OtherSlots ==
    ASSUME LeaseInv, NEW c \in Callers, NEW d \in Callers, c # d, Holding(c),
           cPc[d] \in {"claimed", "leased", "wait"}
    PROVE  frame[c].slot # frame[d].slot
  BY DEF LeaseInv, LeasesHeld, CallersPlaced, Holding

LEMMA ChannelStart == Init => ChannelInv
  <1> SUFFICES ASSUME Init PROVE ChannelInv
    OBVIOUS
  <1>1. 0 \in Slots /\ LeaseInv
    BY NumSlotsAssumption, LeaseStart DEF Slots, Init
  <1>2. DispTypeOK
    <2>1. /\ shutdown = FALSE /\ dPc = "poll" /\ dCur = 0 /\ dSlot = 0
          /\ dOutcome = "Handled" /\ dCount = 0 /\ stats = 0 /\ executed = << >>
      BY DEF Init, DispInit
    <2>2. << >> \in Seq(Nat) /\ FALSE \in BOOLEAN
      OBVIOUS
    <2> QED
      BY <1>1, <2>1, <2>2 DEF DispTypeOK
  <1>3. LoopServes /\ LoopRuns
    <2>1. /\ dPc = "poll" /\ executed = << >> /\ started = FALSE
          /\ \A s \in Slots : ~rxFlag[s]
      BY DEF Init, DispInit, WrapperInit, RingInit
    <2> QED
      BY <2>1 DEF LoopServes, LoopRuns
  <1>4. \A c \in Callers : CallerServed(c)
    BY DEF Init, WrapperInit, CallerServed
  <1> QED
    BY <1>1, <1>2, <1>3, <1>4, ByCaller

-----------------------------------------------------------------------------
(* The callers.                                                            *)

(* The first lock scope, which may start the dispatcher on a fresh ring.   *)
LEMMA HostAcquire ==
    ASSUME ChannelInv, NEW c \in Callers, acquireFrame(c)
    PROVE  ChannelInv'
  <1>1. /\ LeaseInv /\ DispTypeOK /\ LoopServes /\ LoopRuns
        /\ \A d \in Callers : CallerServed(d)
    BY ByCaller
  <1>2. /\ CanCall(c) /\ UNCHANGED <<env, undercut>>
        /\ \/ UNCHANGED <<started, ring, tableVars, ringVars, loopVars>>
           \/ ~started /\ ensureDispatcherStarted
           \/ ~started /\ resetTable /\ UNCHANGED <<started, ring, ringVars, loopVars>>
        /\ \/ refuse(c)
           \/ /\ started'
              /\ \E fn \in FunctionIds, ff \in BOOLEAN : beginScan(c, fn, ff)
    BY CallersAssumption DEF acquireFrame, ensureDispatcherStarted, startFails
  <1>3. LeaseInv'
    BY <1>1, <1>2, AcquireKeeps DEF ensureDispatcherStarted
  <1>4. /\ cPc'[c] \in {"idle", "scan"} /\ status'[c] \in {"invalid", "none"}
        /\ \A d \in Callers : d # c => /\ cPc'[d] = cPc[d] /\ frame'[d] = frame[d]
                                       /\ status'[d] = status[d]
    BY <1>1, <1>2 DEF refuse, beginScan, End, Goto, CanCall, LeaseInv, WrapperTypeOK
  <1>5. CASE UNCHANGED <<started, ring, tableVars, ringVars, loopVars>>
    <2>1. /\ UNCHANGED <<started, ring, inUse, ffPending, nextSlot, nextRequestId>>
          /\ UNCHANGED <<rxFlag, txFlag, rxData, txData, shutdown, dPc, dCur, dSlot>>
          /\ UNCHANGED <<dOutcome, dCount, stats, executed>>
      BY <1>5 DEF tableVars, ringVars, loopVars, dispVars
    <2>2. DispTypeOK' /\ LoopServes' /\ LoopRuns'
      BY <1>1, <2>1 DEF DispTypeOK, LoopServes, LoopRuns, ToRun
    <2>3. \A d \in Callers : CallerServed(d)'
      BY <1>1, <1>4, <2>1, CallerStays DEF CallerServed
    <2> QED
      BY <1>3, <2>2, <2>3, Assembled
  <1>6. CASE ~started /\ ensureDispatcherStarted
    <2>1. /\ executed' = << >> /\ dPc' = "poll" /\ rxFlag' = [s \in Slots |-> FALSE]
          /\ DispTypeOK'
      <3>1. 0 \in Slots
        BY NumSlotsAssumption DEF Slots
      <3> QED
        BY <1>6, <3>1 DEF ensureDispatcherStarted, configure, DispTypeOK
    <2>2. LoopServes' /\ LoopRuns'
      BY <2>1 DEF LoopServes, LoopRuns
    <2>3. \A d \in Callers : cPc'[d] \notin {"claimed", "leased", "wait"} /\ status'[d] # "mismatch"
      BY <1>1, <1>4, <1>6 DEF LeaseInv, CallersPlaced, CallerServed, Holding
    <2>4. \A d \in Callers : CallerServed(d)'
      BY <2>3 DEF CallerServed
    <2> QED
      BY <1>3, <2>1, <2>2, <2>4, Assembled
  <1>7. CASE ~started /\ UNCHANGED <<started, ring, ringVars, loopVars>>
    <2>1. /\ UNCHANGED <<started, rxFlag, txFlag, rxData, txData, shutdown, dPc, dCur>>
          /\ UNCHANGED <<dSlot, dOutcome, dCount, stats, executed>>
      BY <1>7 DEF ringVars, loopVars, dispVars
    <2>2. DispTypeOK' /\ LoopServes' /\ LoopRuns'
      BY <1>1, <1>7, <2>1 DEF DispTypeOK, LoopServes, LoopRuns
    <2>3. \A d \in Callers : CallerServed(d)'
      BY <1>1, <1>4, <2>1, CallerStays DEF CallerServed
    <2> QED
      BY <1>3, <2>2, <2>3, Assembled
  <1> QED
    BY <1>2, <1>5, <1>6, <1>7

(* The loop and the pages stay, and so do the flags but for the slots of   *)
(* caller c.                                                               *)
LEMMA OthersServed ==
    ASSUME ChannelInv, NEW c \in Callers,
           \A d \in Callers : d # c =>
              cPc'[d] = cPc[d] /\ frame'[d] = frame[d] /\ status'[d] = status[d],
           UNCHANGED executed,
           \/ UNCHANGED <<rxFlag, txFlag, txData>>
           \/ /\ Holding(c) /\ UNCHANGED txData
              /\ \A s \in Slots : s # frame[c].slot =>
                    rxFlag'[s] = rxFlag[s] /\ txFlag'[s] = txFlag[s]
    PROVE  \A d \in Callers : d # c => CallerServed(d)'
  <1>1. LeaseInv /\ \A d \in Callers : CallerServed(d) /\ frame[d].slot \in Slots
    BY ByCaller DEF LeaseInv, WrapperTypeOK, Frames
  <1> QED
    BY <1>1, CallerStays, OtherSlots

(* The steps of a caller that touch no flag: a scan fails or starts again, *)
(* a claim is confirmed or dropped, a response is found.                   *)
LEMMA HostMoves ==
    ASSUME ChannelInv, NEW c \in Callers,
           scanFailed(c) \/ rescan(c) \/ acquired(c) \/ waitForResponse(c),
           UNCHANGED loopVars
    PROVE  ChannelInv'
  <1>1. /\ LeaseInv /\ DispTypeOK /\ LoopServes /\ LoopRuns
        /\ \A d \in Callers : CallerServed(d)
    BY ByCaller
  <1>2. /\ UNCHANGED <<env, undercut, started, ring, inUse, ffPending, nextSlot>>
        /\ UNCHANGED <<nextRequestId, rxFlag, txFlag, rxData, txData, frame, shutdown, dPc, dCur, dSlot>>
        /\ UNCHANGED <<dOutcome, dCount, stats, executed>>
    BY DEF scanFailed, rescan, acquired, waitForResponse, tableVars, ringVars, loopVars,
       dispVars
  <1>3. WrapperTypeOK /\ c \in Callers
    BY <1>1 DEF LeaseInv
  <1>4. /\ attempt' \in [Callers -> 0 .. NumSlots] /\ status' \in [Callers -> Statuses]
        /\ \A d \in Callers : d # c =>
              cPc'[d] = cPc[d] /\ frame'[d] = frame[d] /\ status'[d] = status[d]
    <2>1. 0 \in 0 .. NumSlots
      BY NumSlotsAssumption
    <2> QED
      BY <1>2, <1>3, <2>1
      DEF scanFailed, rescan, acquired, waitForResponse, End, Goto, WrapperTypeOK, Statuses
  <1>5. FlagsTyped
    BY <1>2, <1>3, <1>4 DEF FlagsTyped, WrapperTypeOK, RingTypeOK
  <1>6. PICK p : /\ Goto(c, p)
                 /\ forgotten' = IF cPc[c] = "claimed" /\ p = "idle"
                                   THEN forgotten \cup {frame[c].slot} ELSE forgotten
                 /\ \/ Scanning(c) /\ p \in {"sleep", "idle"} /\ mutex' = NoOne
                    \/ cPc[c] = "sleep" /\ p = "rescan" /\ mutex = NoOne /\ mutex' = c
                    \/ cPc[c] = "claimed" /\ p = "leased" /\ UNCHANGED mutex
                    \/ /\ cPc[c] = "claimed" /\ p = "idle" /\ env.timeouts
                       /\ UNCHANGED mutex
                    \/ cPc[c] = "wait" /\ p = "returned" /\ UNCHANGED mutex
    BY DEF scanFailed, rescan, acquired, waitForResponse, End, Scanning, tableVars
  <1>7. LeaseInv'
    BY <1>1, <1>2, <1>4, <1>5, <1>6, CallerMoves
  <1>8. status'[c] # "mismatch"
    <2>1. CASE waitForResponse(c)
      <3>1. txData[frame[c].slot] = [id |-> frame[c].id] /\ frame[c].id \in Nat
            /\ frame[c].slot \in Slots
        BY <1>1, <1>3, <2>1 DEF waitForResponse, CallerServed, WrapperTypeOK, Frames
      <3>2. [id |-> frame[c].id] \in Replies
        BY <3>1 DEF Replies
      <3> QED
        BY <1>3, <2>1, <3>1, <3>2, ZeroAssumption DEF waitForResponse, End, WrapperTypeOK
    <2>2. CASE scanFailed(c) \/ rescan(c) \/ acquired(c)
      BY <1>1, <1>3, <2>2 DEF scanFailed, rescan, acquired, End, WrapperTypeOK, CallerServed
    <2> QED
      BY <2>1, <2>2
  <1>9. CallerServed(c)'
    <2>1. cPc'[c] = p
      BY <1>3, <1>6 DEF Goto, WrapperTypeOK
    <2> QED
      BY <1>1, <1>2, <1>6, <1>8, <2>1 DEF CallerServed
  <1>10. DispTypeOK' /\ LoopServes' /\ LoopRuns'
    BY <1>1, <1>2 DEF DispTypeOK, LoopServes, LoopRuns, ToRun
  <1> QED
    BY <1>2, <1>4, <1>7, <1>9, <1>10, OthersServed, Assembled

(* The request is signalled.                                               *)
LEMMA HostDispatchFrame ==
    ASSUME ChannelInv, NEW c \in Callers, dispatchFrame(c), UNCHANGED loopVars
    PROVE  ChannelInv'
  <1>1. /\ LeaseInv /\ DispTypeOK /\ LoopServes /\ LoopRuns
        /\ \A d \in Callers : CallerServed(d)
    BY ByCaller
  <1>2. WrapperTypeOK /\ cPc[c] = "leased" /\ frame[c].slot \in Slots /\ frame[c].bound
    BY <1>1 DEF LeaseInv, dispatchFrame, WrapperTypeOK, Frames, CallersPlaced
  <1>3. /\ Holding(c) /\ inUse[frame[c].slot] /\ started
        /\ rxData[frame[c].slot] # Zero /\ rxData[frame[c].slot].id = frame[c].id
    BY <1>1, <1>2 DEF LeaseInv, LeasesHeld, CallersPlaced, Holding
  <1>4. /\ rxFlag' = [rxFlag EXCEPT ![frame[c].slot] = TRUE]
        /\ cPc'[c] \in {"wait", "returned"} /\ UNCHANGED mutex
        /\ Goto(c, IF frame[c].ff THEN "returned" ELSE "wait")
        /\ ffPending' \in [Slots -> BOOLEAN]
        /\ UNCHANGED <<env, undercut, started, ring, inUse, nextSlot, nextRequestId>>
        /\ UNCHANGED <<forgotten, status, frame, attempt, txFlag, rxData, txData>>
        /\ \A d \in Callers : d # c => cPc'[d] = cPc[d]
    BY <1>2, <1>3 DEF dispatchFrame, WrapperTypeOK, Goto
  <1>5. /\ UNCHANGED <<shutdown, dPc, dCur, dSlot, dOutcome, dCount, stats, executed>>
        /\ rxFlag' \in [Slots -> BOOLEAN] /\ rxFlag'[frame[c].slot]
        /\ \A s \in Slots : s # frame[c].slot => rxFlag'[s] = rxFlag[s]
    BY <1>2, <1>4 DEF loopVars, dispVars, WrapperTypeOK, RingTypeOK
  <1>6. LeaseInv'
    <2>1. FlagsTyped /\ attempt' \in [Callers -> 0 .. NumSlots]
      BY <1>2, <1>4, <1>5 DEF FlagsTyped, WrapperTypeOK, RingTypeOK, Statuses
    <2>2. PICK p : /\ p \in {"wait", "returned"} /\ Goto(c, p)
      BY <1>4
    <2> QED
      BY <1>1, <1>2, <1>4, <2>1, <2>2, CallerMoves
  <1>7. ~rxFlag[frame[c].slot] /\ ~txFlag[frame[c].slot]
        /\ \A i \in DOMAIN executed : executed[i] # frame[c].id
    BY <1>1, <1>2 DEF CallerServed
  <1>8. CallerServed(c)'
    BY <1>1, <1>4, <1>7 DEF CallerServed
  <1>9. LoopServes'
    BY <1>1, <1>3, <1>4, <1>5 DEF LoopServes, DispTypeOK
  <1>10. LoopRuns'
    BY <1>1, <1>3, <1>4, <1>5, <1>7 DEF LoopRuns, ToRun
  <1>11. DispTypeOK'
    BY <1>1, <1>5 DEF DispTypeOK
  <1> QED
    BY <1>3, <1>4, <1>5, <1>6, <1>8, <1>9, <1>10, <1>11, OthersServed, Assembled

(* One candidate of a scan.                                                *)
LEMMA HostScanSlot ==
    ASSUME ChannelInv, NEW c \in Callers, scanSlot(c)
    PROVE  ChannelInv'
  <1>1. /\ LeaseInv /\ DispTypeOK /\ LoopServes /\ LoopRuns
        /\ \A d \in Callers : CallerServed(d)
    BY ByCaller
  <1>2. PICK s \in Slots : s = candidate(c)
    <2>1. nextSlot + attempt[c] \in Nat
      BY <1>1 DEF LeaseInv, WrapperTypeOK, Slots
    <2> QED
      BY <2>1, SlotWraps DEF candidate
  <1>3. /\ WrapperTypeOK /\ Scanning(c) /\ attempt[c] < NumSlots /\ started
        /\ UNCHANGED <<env, undercut, started, ring, status, rxFlag>>
        /\ UNCHANGED <<shutdown, dPc, dCur, dSlot, dOutcome, dCount, stats, executed>>
    BY <1>1 DEF scanSlot, LeaseInv, CallersPlaced, Scanning, loopVars, dispVars
  <1>4. /\ txFlag' = IF isFree(s) /\ ffPending[s] /\ txFlag[s]
                       THEN [txFlag EXCEPT ![s] = FALSE] ELSE txFlag
        /\ ffPending' = IF isFree(s) /\ ((ffPending[s] /\ txFlag[s]) \/ isReady(s))
                          THEN [ffPending EXCEPT ![s] = FALSE] ELSE ffPending
        /\ IF isFree(s) /\ isReady(s) THEN claimSlot(c, s) ELSE passOver(c)
    BY <1>2 DEF scanSlot
  <1>5. /\ txFlag' \in [Slots -> BOOLEAN] /\ ffPending' \in [Slots -> BOOLEAN]
        /\ \A t \in Slots : t # s => txFlag'[t] = txFlag[t]
        /\ inUse[s] => txFlag' = txFlag
        /\ isFree(s) /\ isReady(s) => ~txFlag'[s] /\ ~rxFlag[s]
    BY <1>3, <1>4 DEF WrapperTypeOK, RingTypeOK, isFree, isReady
  <1>6. \A d \in Callers : /\ frame[d].slot \in Slots
                           /\ cPc[d] \in {"claimed", "leased", "wait"} /\ isFree(s) =>
                                frame[d].slot # s
    BY <1>1 DEF LeaseInv, WrapperTypeOK, Frames, LeasesHeld, CallersPlaced, Holding, isFree
  <1>7. CASE ~(isFree(s) /\ isReady(s))
    <2>1. passOver(c)
      BY <1>4, <1>7
    <2>2. FlagsTyped
      BY <1>3, <1>5, <2>1 DEF FlagsTyped, WrapperTypeOK, RingTypeOK, passOver, Statuses
    <2>3. LeaseInv'
      BY <1>1, <1>3, <2>1, <2>2, PassOverKeeps
    <2>4. \A d \in Callers : CallerServed(d)'
      <3>1. \A d \in Callers : cPc[d] \in {"claimed", "leased", "wait"} =>
                txFlag'[frame[d].slot] = txFlag[frame[d].slot]
        BY <1>5, <1>6 DEF isFree
      <3> QED
        BY <1>1, <1>3, <2>1, <3>1, CallerStays DEF passOver
    <2>5. DispTypeOK' /\ LoopServes' /\ LoopRuns'
      BY <1>1, <1>3, <2>1 DEF passOver, DispTypeOK, LoopServes, LoopRuns, ToRun
    <2> QED
      BY <2>3, <2>4, <2>5, Assembled
  <1>8. CASE isFree(s) /\ isReady(s)
    <2>1. claimSlot(c, s) /\ ~inUse[s] /\ ~rxFlag[s] /\ ~txFlag'[s]
      BY <1>4, <1>5, <1>8 DEF isFree
    <2>2. /\ txData' = [txData EXCEPT ![s] = Zero]
          /\ nextRequestId' = nextRequestId + 1 /\ nextRequestId \in Nat
          /\ rxData'[s].id = nextRequestId /\ rxData'[s] # Zero
          /\ \A t \in Slots : t # s => rxData'[t] = rxData[t]
      <3>1. [id |-> nextRequestId, magic |-> TRUE, fn |-> frame[c].fn] \in Requests
        BY <1>3 DEF WrapperTypeOK, Frames, Requests
      <3> QED
        BY <1>3, <2>1, <3>1, ZeroAssumption DEF claimSlot, WrapperTypeOK, RingTypeOK
    <2>3. /\ txData' \in [Slots -> Replies \cup {Zero}]
          /\ \A t \in Slots : t # s => txData'[t] = txData[t]
      BY <1>3, <2>2 DEF WrapperTypeOK, RingTypeOK
    <2>4. FlagsTyped
      BY <1>3, <1>5, <2>3 DEF FlagsTyped, WrapperTypeOK, RingTypeOK, Statuses
    <2>5. LeaseInv'
      BY <1>1, <1>3, <2>1, <2>4, ClaimKeeps
    <2>6. /\ cPc'[c] \in {"claimed", "leased"} /\ frame'[c].slot = s
          /\ frame'[c].id = nextRequestId
          /\ \A d \in Callers : d # c => cPc'[d] = cPc[d] /\ frame'[d] = frame[d]
      BY <1>3, <2>1, ClaimedFrame
    <2>7. \A d \in Callers : CallerServed(d)'
      <3>1. CallerServed(c)'
        <4>1. \A i \in DOMAIN executed : executed[i] # nextRequestId
          BY <1>1, <1>3, <2>2 DEF LoopRuns, DispTypeOK
        <4> QED
          BY <1>1, <1>3, <2>1, <2>6, <4>1 DEF CallerServed
      <3>2. ASSUME NEW d \in Callers, d # c PROVE CallerServed(d)'
        BY <1>1, <1>3, <1>5, <1>6, <1>8, <2>3, <2>6, <3>2, CallerStays
      <3> QED
        BY <3>1, <3>2
    <2>8. dPc \notin {"poll", "exit"} => dSlot # s /\ dSlot \in Slots
      BY <1>1, <2>1 DEF LoopServes, DispTypeOK
    <2>9. LoopServes'
      BY <1>1, <1>3, <2>1, <2>2, <2>3, <2>8 DEF LoopServes
    <2>10. LoopRuns'
      BY <1>1, <1>3, <2>1, <2>2 DEF LoopRuns, ToRun, DispTypeOK
    <2>11. DispTypeOK'
      BY <1>1, <1>3 DEF DispTypeOK
    <2> QED
      BY <2>5, <2>7, <2>9, <2>10, <2>11, Assembled
  <1> QED
    BY <1>7, <1>8

(* The deadline of a waiting caller passes.                                *)
LEMMA HostTimeOut ==
    ASSUME ChannelInv, NEW c \in Callers, timeOut(c)
    PROVE  ChannelInv'
  <1>1. /\ LeaseInv /\ DispTypeOK /\ LoopServes /\ LoopRuns
        /\ \A d \in Callers : CallerServed(d)
    BY ByCaller
  <1>2. /\ giveUp(c) /\ WrapperTypeOK /\ shutdown' = started
        /\ UNCHANGED <<started, nextRequestId, rxFlag, txFlag, rxData, txData>>
        /\ UNCHANGED <<dPc, dCur, dSlot, dOutcome, dCount, stats, executed>>
    BY <1>1 DEF timeOut, giveUp, LeaseInv, tableVars, ringVars, dispVars
  <1>3. LeaseInv'
    BY <1>1, <1>2, GiveUpKeeps
  <1>4. /\ cPc'[c] = "joining" /\ status'[c] = "timeout"
        /\ \A d \in Callers : d # c =>
              cPc'[d] = cPc[d] /\ frame'[d] = frame[d] /\ status'[d] = status[d]
    BY <1>2, Unbinds DEF giveUp, End, Goto, WrapperTypeOK
  <1>5. CallerServed(c)'
    BY <1>4 DEF CallerServed
  <1>6. DispTypeOK' /\ LoopServes' /\ LoopRuns'
    BY <1>1, <1>2 DEF DispTypeOK, LoopServes, LoopRuns, ToRun, WrapperTypeOK
  <1> QED
    BY <1>2, <1>3, <1>4, <1>5, <1>6, OthersServed, Assembled

(* The dispatch thread has been joined, after a deadline or at a stop.     *)
LEMMA HostTornDown ==
    ASSUME ChannelInv, stopped \/ \E c \in Callers : timedOut(c)
    PROVE  ChannelSound'
  <1>1. /\ LeaseInv /\ DispTypeOK /\ LoopServes /\ LoopRuns
        /\ \A d \in Callers : CallerServed(d)
    BY ByCaller
  <1>2. /\ tornDown /\ UNCHANGED status /\ started' = FALSE
        /\ UNCHANGED <<rxFlag, txFlag, rxData, txData, shutdown>>
        /\ UNCHANGED <<dPc, dCur, dSlot, dOutcome, dCount, stats, executed>>
    BY DEF stopped, timedOut, stopDispatcher, tornDown, ringVars, loopVars, dispVars
  <1>3. WrapperTypeOK' /\ UndercutByDeadline' /\ (~undercut' => LeaseInv')
    BY <1>1, <1>2, TornDownKeeps DEF stopped, timedOut
  <1>4. DispTypeOK' /\ LoopServes' /\ LoopRuns'
    BY <1>1, <1>2 DEF DispTypeOK, LoopServes, LoopRuns
  <1>5. ASSUME ~undercut' PROVE ChannelInv'
    <2>1. \A d \in Callers : cPc'[d] \notin {"claimed", "leased", "wait"}
      BY <1>2, <1>3, <1>5 DEF LeaseInv, CallersPlaced, Holding
    <2>2. \A d \in Callers : CallerServed(d)'
      BY <1>1, <1>2, <2>1 DEF CallerServed
    <2> QED
      BY <1>3, <1>4, <1>5, <2>2, Assembled
  <1> QED
    BY <1>3, <1>4, <1>5 DEF ChannelSound, TypeOK

(* A frame is released, and the flag of a response that was waited for is  *)
(* cleared.                                                                *)
LEMMA HostReleaseFrame ==
    ASSUME ChannelInv, NEW c \in Callers, releaseFrame(c)
    PROVE  ChannelInv'
  <1>1. /\ LeaseInv /\ DispTypeOK /\ LoopServes /\ LoopRuns
        /\ \A d \in Callers : CallerServed(d)
    BY ByCaller
  <1>2. /\ WrapperTypeOK /\ frame[c].slot \in Slots /\ Releasing(c) /\ Goto(c, "idle")
        /\ inUse' = IF frame[c].bound /\ inUse[frame[c].slot]
                      THEN [inUse EXCEPT ![frame[c].slot] = FALSE] ELSE inUse
        /\ txFlag' = IF frame[c].bound /\ inUse[frame[c].slot] /\ ~ffPending[frame[c].slot]
                       THEN [txFlag EXCEPT ![frame[c].slot] = FALSE] ELSE txFlag
        /\ frame' = [frame EXCEPT ![c].bound = FALSE]
        /\ UNCHANGED <<env, undercut, started, ring, mutex, ffPending, nextSlot>>
        /\ UNCHANGED <<nextRequestId, forgotten, attempt, status, rxFlag, rxData>>
        /\ UNCHANGED <<txData, shutdown>>
        /\ UNCHANGED <<dPc, dCur, dSlot, dOutcome, dCount, stats, executed>>
    BY <1>1 DEF LeaseInv, WrapperTypeOK, Frames, releaseFrame, loopVars, dispVars
  <1>3. /\ txFlag' \in [Slots -> BOOLEAN] /\ (~frame[c].bound => txFlag' = txFlag)
        /\ \A s \in Slots : s # frame[c].slot => txFlag'[s] = txFlag[s]
    BY <1>2 DEF WrapperTypeOK, RingTypeOK
  <1>4. LeaseInv'
    <2>1. FlagsTyped
      BY <1>2, <1>3 DEF FlagsTyped, WrapperTypeOK, RingTypeOK, Statuses
    <2> QED
      BY <1>1, <1>2, <2>1, ReleaseKeeps
  <1>5. /\ cPc'[c] = "idle" /\ \A d \in Callers : d # c =>
              cPc'[d] = cPc[d] /\ frame'[d] = frame[d] /\ status'[d] = status[d]
    BY <1>2, Unbinds DEF Goto, WrapperTypeOK
  <1>6. CallerServed(c)'
    BY <1>1, <1>2, <1>5 DEF CallerServed
  <1>7. frame[c].bound => Holding(c)
    BY <1>2 DEF Releasing, Holding
  <1>8. DispTypeOK' /\ LoopServes' /\ LoopRuns'
    BY <1>1, <1>2 DEF DispTypeOK, LoopServes, LoopRuns, ToRun
  <1> QED
    BY <1>2, <1>3, <1>4, <1>5, <1>6, <1>7, <1>8, OthersServed, Assembled

(* The owner raises the shutdown flag.                                     *)
LEMMA HostStop ==
    ASSUME ChannelInv, stop
    PROVE  ChannelInv'
  <1>1. /\ LeaseInv /\ DispTypeOK /\ LoopServes /\ LoopRuns
        /\ \A d \in Callers : CallerServed(d)
    BY ByCaller
  <1>2. /\ beginStop /\ shutdown' = TRUE
        /\ UNCHANGED <<started, nextRequestId, cPc, frame, status>>
        /\ UNCHANGED <<rxFlag, txFlag, rxData, txData>>
        /\ UNCHANGED <<dPc, dCur, dSlot, dOutcome, dCount, stats, executed>>
    BY DEF stop, beginStop, tableVars, callerVars, ringVars, dispVars
  <1>3. LeaseInv'
    BY <1>1, <1>2, BeginStopKeeps
  <1>4. \A d \in Callers : CallerServed(d)'
    BY <1>1, <1>2 DEF CallerServed
  <1>5. DispTypeOK' /\ LoopServes' /\ LoopRuns'
    BY <1>1, <1>2 DEF DispTypeOK, LoopServes, LoopRuns, ToRun
  <1> QED
    BY <1>3, <1>4, <1>5, Assembled

-----------------------------------------------------------------------------
(* The dispatch loop.                                                      *)

(* What no step of the loop changes.                                       *)
LEMMA LoopFrame ==
    ASSUME ChannelInv, Dispatcher, rxFlag' \in [Slots -> BOOLEAN],
           txFlag' \in [Slots -> BOOLEAN], txData' \in [Slots -> Replies \cup {Zero}],
           UNCHANGED rxData
    PROVE  /\ LeaseInv'
           /\ UNCHANGED <<started, nextRequestId, cPc, frame, status>>
  <1>1. /\ LeaseInv /\ WrapperTypeOK
        /\ UNCHANGED <<env, undercut, started, ring, mutex, inUse, ffPending, nextSlot>>
        /\ UNCHANGED <<nextRequestId, forgotten, cPc, frame, attempt, status>>
    BY ByCaller DEF LeaseInv, Dispatcher, chanVars, tableVars, callerVars
  <1>2. FlagsTyped
    BY <1>1 DEF FlagsTyped, WrapperTypeOK, Statuses
  <1> QED
    BY <1>1, <1>2, LeaseStays

LEMMA HostDispatcherKeeps ==
    ASSUME ChannelInv, Dispatcher
    PROVE  ChannelInv'
  <1>1. /\ LeaseInv /\ DispTypeOK /\ LoopServes /\ LoopRuns /\ started
        /\ \A d \in Callers : CallerServed(d) /\ frame[d].slot \in Slots
        /\ RingTypeOK(Requests, Replies)
    BY ByCaller DEF Dispatcher, LeaseInv, WrapperTypeOK, Frames
  <1>2. \A d \in Callers : cPc[d] \in {"claimed", "leased"} /\ dPc \notin {"poll", "exit"} =>
            frame[d].slot # dSlot
    BY <1>1 DEF CallerServed, LoopServes
  <1>3. ~SharedRing
    BY ChannelOwnsRing
  <1>4. CASE pollRequest \/ checkHeader \/ exitLoop
    <2>1. UNCHANGED <<rxFlag, txFlag, rxData, txData, executed, shutdown, dCur, dCount>>
      BY <1>4 DEF pollRequest, checkHeader, exitLoop, ringVars
    <2>2. LeaseInv' /\ UNCHANGED <<started, nextRequestId, cPc, frame, status>>
      BY <1>1, <2>1, LoopFrame DEF RingTypeOK
    <2>3. \A d \in Callers : CallerServed(d)'
      BY <1>1, <2>1, <2>2, CallerStays
    <2>4. DispTypeOK'
      BY <1>1, <1>4, <2>1 DEF DispTypeOK, pollRequest, checkHeader, exitLoop, Retire
    <2>5. LoopServes'
      BY <1>1, <1>4, <2>1 DEF LoopServes, DispTypeOK, pollRequest, checkHeader, exitLoop, Retire
    <2>6. LoopRuns'
      BY <1>1, <1>4, <2>1, <2>2
      DEF LoopRuns, ToRun, DispTypeOK, pollRequest, checkHeader, exitLoop, Retire
    <2> QED
      BY <2>2, <2>3, <2>4, <2>5, <2>6, Assembled
  <1>5. CASE pollScan \/ pollProbe \/ pollReload
    BY <1>1, <1>3, <1>5 DEF pollScan, pollProbe, pollReload, LoopServes
  <1>6. CASE invokeHostCall
    <2>1. /\ dPc = "invoke" /\ rxFlag[dSlot] /\ rxData[dSlot] # Zero /\ dSlot \in Slots
          /\ rxData[dSlot] \in Requests /\ rxData[dSlot].id \in Nat
          /\ rxData[dSlot].id < nextRequestId
          /\ UNCHANGED <<dCur, dSlot, dCount, stats, shutdown, rxFlag, txFlag, rxData>>
      <3>1. dPc = "invoke" /\ dSlot \in Slots
        BY <1>1, <1>6 DEF invokeHostCall, DispTypeOK
      <3>2. rxFlag[dSlot] /\ rxData[dSlot] # Zero /\ rxData[dSlot] \in Requests
        BY <1>1, <3>1 DEF LoopServes, RingTypeOK
      <3> QED
        BY <1>1, <1>6, <3>1, <3>2 DEF invokeHostCall, LeaseInv, RequestsDistinct, Requests
    <2>2. CASE Retire("Handled") /\ UNCHANGED <<txData, executed>>
      <3>1. LeaseInv' /\ UNCHANGED <<started, nextRequestId, cPc, frame, status>>
        BY <1>1, <2>1, <2>2, LoopFrame DEF RingTypeOK
      <3>2. \A d \in Callers : CallerServed(d)'
        BY <1>1, <2>1, <2>2, <3>1, CallerStays
      <3>3. DispTypeOK'
        BY <1>1, <2>1, <2>2 DEF DispTypeOK, Retire
      <3>4. LoopServes'
        BY <1>1, <2>1, <2>2 DEF LoopServes, Retire
      <3>5. LoopRuns'
        BY <1>1, <2>1, <2>2, <3>1 DEF LoopRuns, ToRun, Retire
      <3> QED
        BY <3>1, <3>2, <3>3, <3>4, <3>5, Assembled
    <2>3. CASE /\ txData' = [txData EXCEPT ![dSlot] = Reply(rxData[dSlot])]
               /\ executed' = Append(executed, rxData[dSlot].id)
               /\ dPc' = "publish" /\ UNCHANGED dOutcome
      <3>1. /\ txData' \in [Slots -> Replies \cup {Zero}]
            /\ txData'[dSlot] = Reply(rxData[dSlot])
            /\ \A s \in Slots : s # dSlot => txData'[s] = txData[s]
        BY <1>1, <2>1, <2>3 DEF RingTypeOK, Replies, Reply
      <3>2. LeaseInv' /\ UNCHANGED <<started, nextRequestId, cPc, frame, status>>
        BY <1>1, <2>1, <3>1, LoopFrame DEF RingTypeOK
      <3>3. PICK n \in Nat : n = Len(executed)
        BY <1>1 DEF DispTypeOK
      <3>4. /\ executed' \in Seq(Nat) /\ DOMAIN executed' = 1 .. n + 1
            /\ DOMAIN executed = 1 .. n
            /\ executed'[n + 1] = rxData[dSlot].id
            /\ \A i \in 1 .. n : executed'[i] = executed[i] /\ executed[i] \in Nat
        BY <1>1, <2>1, <2>3, <3>3 DEF DispTypeOK
      <3>5. \A i \in 1 .. n : executed[i] # rxData[dSlot].id
        BY <1>1, <2>1, <3>4 DEF LoopRuns, ToRun
      <3>6. \A i \in 1 .. n + 1 : i \in 1 .. n \/ i = n + 1
        OBVIOUS
      <3>7. \A d \in Callers : CallerServed(d)'
        <4>1. \A d \in Callers : cPc[d] \in {"claimed", "leased"} =>
                 rxData[dSlot].id # frame[d].id
          <5>1. \A d \in Callers : cPc[d] \in {"claimed", "leased"} =>
                   rxData[frame[d].slot] # Zero /\ rxData[frame[d].slot].id = frame[d].id
            BY <1>1 DEF LeaseInv, LeasesHeld
          <5> QED
            BY <1>1, <1>2, <2>1, <5>1 DEF LeaseInv, RequestsDistinct
        <4>2. \A d \in Callers : cPc[d] \in {"claimed", "leased"} =>
                 \A i \in DOMAIN executed' : executed'[i] # frame[d].id
          BY <1>1, <3>4, <3>6, <4>1 DEF CallerServed
        <4>3. \A d \in Callers : cPc[d] = "wait" /\ txFlag[frame[d].slot] =>
                 txData'[frame[d].slot] = [id |-> frame[d].id]
          <5> SUFFICES ASSUME NEW d \in Callers, cPc[d] = "wait", txFlag[frame[d].slot]
                       PROVE  txData'[frame[d].slot] = [id |-> frame[d].id]
            OBVIOUS
          <5>1. txData[frame[d].slot] = [id |-> frame[d].id]
            BY <1>1 DEF CallerServed
          <5>2. rxData[frame[d].slot].id = frame[d].id
            BY <1>1 DEF LeaseInv, LeasesHeld
          <5> QED
            BY <1>1, <3>1, <5>1, <5>2 DEF Reply
        <4> QED
          BY <1>1, <2>1, <3>2, <4>2, <4>3 DEF CallerServed
      <3>8. LoopServes'
        BY <1>1, <2>1, <2>3, <3>1 DEF LoopServes
      <3>9. LoopRuns'
        <4>1. \A s \in Slots : ToRun(s)' => ToRun(s) /\ s # dSlot
          BY <2>1, <2>3 DEF ToRun
        <4>2. \A s \in Slots : ToRun(s)' => rxData[s].id # rxData[dSlot].id
          BY <1>1, <2>1, <4>1 DEF LeaseInv, RequestsDistinct, LoopServes, ToRun
        <4>3. \A i, j \in DOMAIN executed' : executed'[i] = executed'[j] => i = j
          BY <1>1, <3>4, <3>5, <3>6 DEF LoopRuns
        <4>4. \A i \in DOMAIN executed' : executed'[i] < nextRequestId
          BY <1>1, <2>1, <3>4, <3>6 DEF LoopRuns
        <4>5. \A s \in Slots, i \in DOMAIN executed' : ToRun(s)' => executed'[i] # rxData[s].id
          BY <1>1, <3>4, <3>6, <4>1, <4>2 DEF LoopRuns
        <4> QED
          BY <2>1, <3>2, <4>3, <4>4, <4>5 DEF LoopRuns
      <3>10. DispTypeOK'
        BY <1>1, <2>1, <2>3, <3>4 DEF DispTypeOK
      <3> QED
        BY <3>2, <3>7, <3>8, <3>9, <3>10, Assembled
    <2> QED
      BY <1>6, <2>2, <2>3 DEF invokeHostCall
  <1>7. CASE sendResponse
    <2>1. /\ dPc = "publish" /\ dSlot \in Slots /\ rxData[dSlot] # Zero /\ dPc' = "retire"
          /\ txData[dSlot] = Reply(rxData[dSlot]) /\ rxFlag[dSlot]
          /\ txFlag' = [txFlag EXCEPT ![dSlot] = TRUE] /\ dOutcome' = "Handled"
          /\ dCount' = dCount + 1
          /\ UNCHANGED <<dCur, dSlot, stats, executed, shutdown, rxFlag, rxData, txData>>
      BY <1>1, <1>7 DEF sendResponse, Retire, LoopServes, DispTypeOK
    <2>2. txFlag' \in [Slots -> BOOLEAN] /\ \A s \in Slots : s # dSlot => txFlag'[s] = txFlag[s]
      BY <1>1, <2>1 DEF RingTypeOK
    <2>3. LeaseInv' /\ UNCHANGED <<started, nextRequestId, cPc, frame, status>>
      BY <1>1, <2>1, <2>2, LoopFrame DEF RingTypeOK
    <2>4. \A d \in Callers : CallerServed(d)'
      <3> SUFFICES ASSUME NEW d \in Callers PROVE CallerServed(d)'
        OBVIOUS
      <3>1. CASE cPc[d] = "wait" /\ frame[d].slot = dSlot
        <4>1. rxData[dSlot].id = frame[d].id
          BY <1>1, <3>1 DEF LeaseInv, LeasesHeld
        <4> QED
          BY <1>1, <2>1, <2>3, <3>1, <4>1 DEF CallerServed, Reply
      <3>2. CASE ~(cPc[d] = "wait" /\ frame[d].slot = dSlot)
        BY <1>1, <1>2, <2>1, <2>2, <2>3, <3>2, CallerStays
      <3> QED
        BY <3>1, <3>2
    <2>5. DispTypeOK'
      BY <1>1, <2>1 DEF DispTypeOK
    <2>6. LoopServes'
      BY <1>1, <2>1 DEF LoopServes
    <2>7. LoopRuns'
      BY <1>1, <2>1, <2>3 DEF LoopRuns, ToRun
    <2> QED
      BY <2>3, <2>4, <2>5, <2>6, <2>7, Assembled
  <1>8. CASE retireRequest
    <2>1. /\ dPc = "retire" /\ dSlot \in Slots /\ dPc' = "poll"
          /\ rxFlag' = [rxFlag EXCEPT ![dSlot] = FALSE] /\ dCur' = NextSlot(dSlot)
          /\ UNCHANGED <<dSlot, dOutcome, dCount, stats, executed, shutdown>>
          /\ UNCHANGED <<txFlag, rxData, txData>>
      BY <1>1, <1>3, <1>8 DEF retireRequest, DispTypeOK
    <2>2. /\ rxFlag' \in [Slots -> BOOLEAN] /\ ~rxFlag'[dSlot] /\ dCur' \in Slots
          /\ \A s \in Slots : s # dSlot => rxFlag'[s] = rxFlag[s]
      <3>1. NextSlot(dSlot) \in Slots
        BY <2>1, SlotWraps DEF NextSlot, Slots
      <3> QED
        BY <1>1, <2>1, <3>1 DEF RingTypeOK
    <2>3. LeaseInv' /\ UNCHANGED <<started, nextRequestId, cPc, frame, status>>
      BY <1>1, <2>1, <2>2, LoopFrame DEF RingTypeOK
    <2>4. \A d \in Callers : CallerServed(d)'
      BY <1>1, <1>2, <2>1, <2>2, <2>3 DEF CallerServed
    <2>5. DispTypeOK'
      BY <1>1, <2>1, <2>2 DEF DispTypeOK
    <2>6. LoopServes'
      BY <1>1, <2>1, <2>2 DEF LoopServes
    <2>7. LoopRuns'
      BY <1>1, <2>1, <2>2, <2>3 DEF LoopRuns, ToRun
    <2> QED
      BY <2>3, <2>4, <2>5, <2>6, <2>7, Assembled
  <1> QED
    BY <1>4, <1>5, <1>6, <1>7, <1>8 DEF Dispatcher, ringDispatchLoop

-----------------------------------------------------------------------------
(* The theorems.                                                           *)

LEMMA InvIsSound == ChannelInv => ChannelSound
  BY DEF ChannelInv, LeaseInv, ChannelSound, TypeOK, UndercutByDeadline

LEMMA InvIsSoundNext == ChannelInv' => ChannelSound'
  BY DEF ChannelInv, LeaseInv, ChannelSound, TypeOK, UndercutByDeadline

LEMMA ChannelStep == ChannelInv /\ Next => ChannelSound'
  <1> SUFFICES ASSUME ChannelInv, Next PROVE ChannelSound'
    OBVIOUS
  <1>1. ASSUME NEW c \in Callers, acquireFrame(c) \/ Caller(c) PROVE ChannelSound'
    BY <1>1, HostAcquire, HostScanSlot, HostMoves, HostDispatchFrame, HostTimeOut,
       HostTornDown, HostReleaseFrame, InvIsSoundNext DEF Caller
  <1>2. CASE stop \/ stopped
    BY <1>2, HostStop, HostTornDown, InvIsSoundNext
  <1>3. CASE Dispatcher
    BY <1>3, HostDispatcherKeeps, InvIsSoundNext
  <1> QED
    BY <1>1, <1>2, <1>3 DEF Next

LEMMA ChannelStutter == ChannelSound /\ UNCHANGED vars => ChannelSound'
  <1> SUFFICES ASSUME ChannelSound, UNCHANGED vars PROVE ChannelSound'
    OBVIOUS
  <1>1. /\ UNCHANGED <<env, undercut, started, ring, mutex, inUse, ffPending, nextSlot>>
        /\ UNCHANGED <<nextRequestId, forgotten, cPc, frame, attempt, status>>
        /\ UNCHANGED <<rxFlag, txFlag, rxData, txData, shutdown, dPc, dCur, dSlot>>
        /\ UNCHANGED <<dOutcome, dCount, stats, executed>>
    BY DEF vars, chanVars, tableVars, callerVars, ringVars, dispVars
  <1>2. TypeOK' /\ UndercutByDeadline'
    BY <1>1 DEF ChannelSound, TypeOK, WrapperTypeOK, RingTypeOK, DispTypeOK,
       UndercutByDeadline
  <1>3. ASSUME ~undercut PROVE ChannelInv'
    <2>1. /\ LeaseInv /\ DispTypeOK /\ LoopServes /\ LoopRuns /\ WrapperTypeOK
          /\ \A d \in Callers : CallerServed(d)
      BY <1>3, ByCaller DEF ChannelSound, LeaseInv
    <2>2. FlagsTyped
      BY <1>1, <2>1 DEF FlagsTyped, WrapperTypeOK, RingTypeOK, Statuses
    <2>3. LeaseInv'
      BY <1>1, <2>1, <2>2, LeaseStays
    <2>4. /\ \A d \in Callers : CallerServed(d)'
          /\ DispTypeOK' /\ LoopServes' /\ LoopRuns'
      BY <1>1, <2>1 DEF CallerServed, DispTypeOK, LoopServes, LoopRuns, ToRun
    <2> QED
      BY <2>3, <2>4, Assembled
  <1> QED
    BY <1>1, <1>2, <1>3 DEF ChannelSound

(* The invariant of the channel holds for any number of callers and slots, *)
(* with fire-and-forget calls, cancelled frames, restarts and deadlines in *)
(* every thread, up to the teardown that frees the ring under a caller.    *)
THEOREM HostChannelInvariant == Spec => []ChannelSound
  <1>1. Init => ChannelSound
    BY ChannelStart, InvIsSound
  <1>2. ChannelSound /\ [Next]_vars => ChannelSound'
    <2> SUFFICES ASSUME ChannelSound, [Next]_vars PROVE ChannelSound'
      OBVIOUS
    <2>1. CASE Next
      <3>1. ChannelInv
        BY <2>1 DEF Next, ChannelSound
      <3> QED
        BY <2>1, <3>1, ChannelStep
    <2>2. CASE UNCHANGED vars
      BY <2>2, ChannelStutter
    <2> QED
      BY <2>1, <2>2
  <1> QED
    BY <1>1, <1>2, PTL DEF Spec

(* A slot of the channel has one leaseholder, none is lost but by the late *)
(* deadline test, and no frame that will be released points into freed     *)
(* storage, until a deadline tears the ring down beside another call.      *)
THEOREM HostLeasesSound == Spec => []LeasesSound
  <1>1. ChannelSound => LeasesSound
    BY LeaseInvMeans DEF ChannelSound, ChannelInv, LeasesSound
  <1> QED
    BY <1>1, HostChannelInvariant, PTL

(* The dispatch loop runs a handler once per dispatched call and never for *)
(* a cancelled one, until then.                                            *)
THEOREM HostRunsOnce == Spec => []RunsOnce
  <1>1. ChannelSound => RunsOnce
    BY DEF ChannelSound, ChannelInv, RunsAhead, RunsOnce, RanOnce
  <1> QED
    BY <1>1, HostChannelInvariant, PTL

(* No caller ever finds another call's response, or a stale one, until     *)
(* then.                                                                   *)
THEOREM HostNoMismatch == Spec => []NoMismatch
  <1>1. ChannelSound => NoMismatch
    BY DEF ChannelSound, ChannelInv, NoMismatch
  <1> QED
    BY <1>1, HostChannelInvariant, PTL

==============================================================================
