----------------------- MODULE RingBufferWrapperProofs -----------------------
(***************************************************************************)
(* Lemmas about the slot table of the in-process device_call channels: the *)
(* steps that HostDispatchChannel and GpuDispatchChannel are made of keep  *)
(* LeaseInv, for any number of callers and slots.                          *)
(***************************************************************************)
EXTENDS RingBufferWrapper, TLAPS

Statuses == {"none", "ok", "mismatch", "invalid", "timeout"}

(* What a step may do to the pages and flags as far as LeaseInv goes.      *)
FlagsTyped ==
    /\ rxFlag' \in [Slots -> BOOLEAN] /\ txFlag' \in [Slots -> BOOLEAN]
    /\ ffPending' \in [Slots -> BOOLEAN]
    /\ txData' \in [Slots -> Replies \cup {Zero}]
    /\ status' \in [Callers -> Statuses]

(* A slot index wraps inside the ring.                                     *)
LEMMA SlotWraps == \A n \in Nat : n % NumSlots \in Slots
  BY NumSlotsAssumption DEF Slots

LEMMA LeaseStart == WrapperInit => LeaseInv
  <1> SUFFICES ASSUME WrapperInit PROVE LeaseInv
    OBVIOUS
  <1>1. (CHOOSE fn \in FunctionIds : TRUE) \in FunctionIds
    BY TableAssumption
  <1>2. 0 \in Slots /\ 0 \in 0 .. NumSlots
    BY NumSlotsAssumption DEF Slots
  <1>3. WrapperTypeOK
    <2>1. NoFrame(CHOOSE fn \in FunctionIds : TRUE, FALSE) \in Frames
      BY <1>1, <1>2 DEF NoFrame, Frames
    <2> QED
      BY <1>2, <2>1 DEF WrapperInit, WrapperTypeOK, RingInit, RingTypeOK
  <1>4. /\ mutex = NoOne /\ started = FALSE /\ ~undercut /\ forgotten = {}
        /\ \A c \in Callers : cPc[c] = "idle"
    BY DEF WrapperInit
  <1> QED
    BY <1>3, <1>4, CallersAssumption
    DEF LeaseInv, CallersPlaced, LeasesHeld, SlotsAccounted, RequestsDistinct, Holding

(* Only flags, replies and results change.                                 *)
LEMMA LeaseStays ==
    ASSUME LeaseInv, FlagsTyped,
           UNCHANGED <<env, undercut, started, ring, mutex, inUse, nextSlot>>,
           UNCHANGED <<nextRequestId, forgotten, cPc, frame, attempt, rxData>>
    PROVE  LeaseInv'
  <1>1. WrapperTypeOK'
    BY DEF LeaseInv, FlagsTyped, WrapperTypeOK, RingTypeOK, Statuses
  <1>2. CallersPlaced'
    BY DEF LeaseInv, CallersPlaced, Holding
  <1>3. LeasesHeld'
    BY DEF LeaseInv, LeasesHeld, Holding
  <1>4. SlotsAccounted'
    BY DEF LeaseInv, SlotsAccounted, Holding
  <1>5. RequestsDistinct'
    BY DEF LeaseInv, RequestsDistinct
  <1> QED
    BY <1>1, <1>2, <1>3, <1>4, <1>5 DEF LeaseInv

(* Caller c goes from one program point to another with the frame it has.  *)
LEMMA CallerMoves ==
    ASSUME LeaseInv, NEW c \in Callers, NEW p, Goto(c, p), FlagsTyped,
           attempt' \in [Callers -> 0 .. NumSlots],
           UNCHANGED <<env, undercut, started, ring, inUse, nextSlot, nextRequestId>>,
           UNCHANGED <<frame, rxData>>,
           forgotten' = IF cPc[c] = "claimed" /\ p = "idle"
                          THEN forgotten \cup {frame[c].slot} ELSE forgotten,
           \/ Scanning(c) /\ p \in {"sleep", "idle"} /\ mutex' = NoOne
           \/ cPc[c] = "sleep" /\ p = "rescan" /\ mutex = NoOne /\ mutex' = c
           \/ cPc[c] = "claimed" /\ p = "leased" /\ UNCHANGED mutex
           \/ cPc[c] = "claimed" /\ p = "idle" /\ env.timeouts /\ UNCHANGED mutex
           \/ cPc[c] = "leased" /\ p \in {"wait", "returned"} /\ UNCHANGED mutex
           \/ cPc[c] = "wait" /\ p = "returned" /\ UNCHANGED mutex
    PROVE  LeaseInv'
  <1>1. WrapperTypeOK /\ CallersPlaced /\ LeasesHeld /\ SlotsAccounted /\ RequestsDistinct
    BY DEF LeaseInv
  <1>2. /\ cPc'[c] = p /\ \A d \in Callers : d # c => cPc'[d] = cPc[d]
        /\ NoOne \notin Callers /\ Owner \notin Callers /\ NoOne # Owner
        /\ cPc[c] # "idle"
    BY <1>1, CallersAssumption DEF Goto, WrapperTypeOK, Scanning
  <1>3. WrapperTypeOK'
    <2>1. forgotten' \subseteq Slots
      BY <1>1 DEF WrapperTypeOK, Frames
    <2> QED
      BY <1>1, <2>1 DEF Goto, FlagsTyped, WrapperTypeOK, RingTypeOK, Statuses
  <1>4. CallersPlaced'
    BY <1>1, <1>2 DEF CallersPlaced, Holding, Scanning
  <1>5. /\ \A d \in Callers : Holding(d)' => Holding(d)
        /\ \A d \in Callers : cPc'[d] \in {"claimed", "leased", "wait"} =>
              cPc[d] \in {"claimed", "leased", "wait"}
    BY <1>1, <1>2 DEF Holding, CallersPlaced
  <1>6. LeasesHeld'
    BY <1>1, <1>5 DEF LeasesHeld
  <1>7. SlotsAccounted'
    <2>1. /\ \A d \in Callers : Holding(d) /\ (d = c => p # "idle") => Holding(d)'
          /\ \A d \in Callers : cPc[d] = "joining" => cPc'[d] = "joining"
          /\ Holding(c) /\ p = "idle" => frame[c].slot \in forgotten' /\ env.timeouts
          /\ forgotten \subseteq forgotten'
          /\ forgotten' # forgotten => env.timeouts
      BY <1>1, <1>2 DEF Holding, Scanning
    <2> SUFFICES ASSUME started, NEW s \in Slots, inUse[s]
                 PROVE  \/ s \in forgotten'
                        \/ \E d \in Callers :
                              (Holding(d)' \/ cPc'[d] = "joining") /\ frame[d].slot = s
      BY <1>1, <2>1 DEF SlotsAccounted
    <2>2. CASE s \in forgotten
      BY <2>1, <2>2
    <2>3. ASSUME NEW d \in Callers, Holding(d) \/ cPc[d] = "joining", frame[d].slot = s
          PROVE  \/ s \in forgotten'
                 \/ \E e \in Callers :
                       (Holding(e)' \/ cPc'[e] = "joining") /\ frame[e].slot = s
      BY <2>1, <2>3
    <2> QED
      BY <1>1, <2>2, <2>3 DEF SlotsAccounted
  <1>8. RequestsDistinct'
    BY <1>1 DEF RequestsDistinct
  <1> QED
    BY <1>3, <1>4, <1>6, <1>7, <1>8 DEF LeaseInv

(* A caller takes the mutex to scan, on the present ring or a fresh one.   *)
LEMMA AcquireKeeps ==
    ASSUME LeaseInv, NEW c \in Callers, CanCall(c), UNCHANGED <<env, undercut>>,
           \/ UNCHANGED <<started, ring, tableVars, ringVars>>
           \/ ~started /\ started' = TRUE /\ configure
           \/ ~started /\ resetTable /\ UNCHANGED <<started, ring, ringVars>>,
           \/ refuse(c)
           \/ started' /\ \E fn \in FunctionIds, ff \in BOOLEAN : beginScan(c, fn, ff)
    PROVE  LeaseInv'
  <1>1. WrapperTypeOK /\ CallersPlaced /\ LeasesHeld /\ SlotsAccounted /\ RequestsDistinct
    BY DEF LeaseInv
  <1>2. /\ cPc[c] = "idle" /\ mutex = NoOne /\ c \in env.active
        /\ NoOne \notin Callers /\ Owner \notin Callers /\ NoOne # Owner
        /\ 0 \in Slots /\ 0 \in 0 .. NumSlots
    BY CallersAssumption, NumSlotsAssumption DEF CanCall, Slots
  <1>3. /\ \A d \in Callers : d # c => cPc'[d] = cPc[d] /\ frame'[d] = frame[d]
        /\ cPc'[c] \in {"idle", "scan"} /\ (cPc'[c] = "scan" => started')
        /\ cPc'[c] = "idle" => mutex' = NoOne
        /\ cPc'[c] = "scan" => mutex' = c
    BY <1>1, <1>2 DEF refuse, beginScan, End, Goto, WrapperTypeOK
  <1>4. WrapperTypeOK'
    <2>1. /\ frame' \in [Callers -> Frames] /\ mutex' \in Callers \cup {Owner, NoOne}
          /\ attempt' \in [Callers -> 0 .. NumSlots]
          /\ cPc' \in [Callers -> {"idle", "scan", "sleep", "rescan", "claimed",
                "leased", "wait", "joining", "returned"}]
          /\ status' \in [Callers -> Statuses]
      <3>1. CASE refuse(c)
        BY <1>1, <3>1 DEF refuse, End, Goto, WrapperTypeOK, Statuses
      <3>2. ASSUME NEW fn \in FunctionIds, NEW ff \in BOOLEAN, beginScan(c, fn, ff)
            PROVE  <2>1
        <4>1. NoFrame(fn, ff) \in Frames
          BY <1>2 DEF NoFrame, Frames
        <4> QED
          BY <1>1, <1>2, <3>2, <4>1 DEF beginScan, End, Goto, WrapperTypeOK, Statuses
      <3> QED
        BY <3>1, <3>2
    <2>2. /\ RingTypeOK(Requests, Replies)'
          /\ started' \in BOOLEAN /\ ring' \in Nat
          /\ inUse' \in [Slots -> BOOLEAN] /\ ffPending' \in [Slots -> BOOLEAN]
          /\ nextSlot' \in Slots /\ nextRequestId' \in Nat /\ forgotten' \subseteq Slots
      <3>1. CASE UNCHANGED <<started, ring, tableVars, ringVars>>
        BY <1>1, <3>1 DEF WrapperTypeOK, RingTypeOK, tableVars, ringVars
      <3>2. CASE started' = TRUE /\ configure
        BY <1>1, <1>2, <3>2 DEF WrapperTypeOK, RingTypeOK, configure, resetTable
      <3>3. CASE resetTable /\ UNCHANGED <<started, ring, ringVars>>
        BY <1>1, <1>2, <3>3 DEF WrapperTypeOK, RingTypeOK, resetTable, ringVars
      <3> QED
        BY <3>1, <3>2, <3>3
    <2> QED
      BY <1>1, <2>1, <2>2 DEF WrapperTypeOK, Statuses
  <1>5. \A d \in Callers : Holding(d)' <=> Holding(d)
    BY <1>2, <1>3 DEF Holding
  <1>6. ~started => \A d \in Callers : ~Holding(d)
    BY <1>1 DEF CallersPlaced
  <1>7. CallersPlaced'
    <2>1. started => started'
      BY DEF configure, resetTable
    <2> QED
      BY <1>1, <1>2, <1>3, <1>5, <2>1 DEF CallersPlaced, Holding
  <1>8. \A d \in Callers : Holding(d)' =>
           /\ d # c /\ Holding(d) /\ cPc'[d] = cPc[d] /\ frame'[d] = frame[d]
           /\ UNCHANGED <<started, ring, tableVars, ringVars>>
    BY <1>2, <1>3, <1>5, <1>6 DEF Holding
  <1>9. LeasesHeld'
    <2>1. \A d \in Callers : cPc'[d] \in {"claimed", "leased", "wait"} => Holding(d)'
      BY <1>7 DEF CallersPlaced, Holding
    <2>2. \A d \in Callers : Holding(d)' => inUse' = inUse /\ ring' = ring /\ rxData' = rxData
      BY <1>8 DEF tableVars, ringVars
    <2> QED
      BY <1>1, <1>8, <2>1, <2>2 DEF LeasesHeld
  <1>10. SlotsAccounted'
    <2>1. CASE UNCHANGED <<started, ring, tableVars, ringVars>>
      BY <1>1, <1>2, <1>3, <1>5, <2>1 DEF SlotsAccounted, tableVars, Holding
    <2>2. CASE resetTable
      BY <2>2 DEF SlotsAccounted, resetTable
    <2> QED
      BY <2>1, <2>2 DEF configure
  <1>11. RequestsDistinct'
    <2>1. CASE UNCHANGED <<started, ring, tableVars, ringVars>>
      BY <1>1, <2>1 DEF RequestsDistinct, tableVars, ringVars
    <2>2. CASE configure
      BY <2>2 DEF RequestsDistinct, configure
    <2>3. CASE ~started /\ UNCHANGED <<started, ring, ringVars>>
      BY <2>3 DEF RequestsDistinct
    <2> QED
      BY <2>1, <2>2, <2>3
  <1> QED
    BY <1>4, <1>7, <1>9, <1>10, <1>11 DEF LeaseInv

(* The frame that a claim binds.                                           *)
LEMMA ClaimedFrame ==
    ASSUME WrapperTypeOK, NEW c \in Callers, NEW s \in Slots, claimSlot(c, s)
    PROVE  /\ cPc'[c] \in {"leased", "claimed"} /\ frame'[c].bound
           /\ frame'[c].slot = s /\ frame'[c].id = nextRequestId /\ frame'[c].ring = ring
           /\ \A d \in Callers : d # c => cPc'[d] = cPc[d] /\ frame'[d] = frame[d]
           /\ frame' \in [Callers -> Frames]
  <1> DEFINE f == [frame[c] EXCEPT !.bound = TRUE, !.ring = ring, !.slot = s,
                                   !.id = nextRequestId]
  <1>1. frame \in [Callers -> Frames] /\ frame[c] \in Frames
    BY DEF WrapperTypeOK
  <1>2. f \in Frames /\ f.bound /\ f.slot = s /\ f.id = nextRequestId /\ f.ring = ring
    BY <1>1 DEF Frames, WrapperTypeOK
  <1>3. frame' = [frame EXCEPT ![c] = f]
    BY <1>1 DEF claimSlot
  <1> HIDE DEF f
  <1>4. frame'[c] = f /\ frame' \in [Callers -> Frames]
        /\ \A d \in Callers : d # c => frame'[d] = frame[d]
    BY <1>1, <1>2, <1>3
  <1>5. cPc'[c] \in {"leased", "claimed"} /\ \A d \in Callers : d # c => cPc'[d] = cPc[d]
    BY DEF claimSlot, Goto, WrapperTypeOK
  <1> QED
    BY <1>2, <1>4, <1>5

(* A scan claims a slot that is not in use.                                *)
LEMMA ClaimKeeps ==
    ASSUME LeaseInv, NEW c \in Callers, NEW s \in Slots, Scanning(c), ~inUse[s],
           claimSlot(c, s), FlagsTyped, UNCHANGED <<env, undercut, started, ring>>
    PROVE  LeaseInv'
  <1>1. WrapperTypeOK /\ CallersPlaced /\ LeasesHeld /\ SlotsAccounted /\ RequestsDistinct
    BY DEF LeaseInv
  <1>2. /\ cPc[c] \in {"scan", "rescan"} /\ mutex = c /\ mutex' = NoOne /\ started
        /\ NoOne \notin Callers /\ Owner \notin Callers /\ NoOne # Owner
    BY <1>1, CallersAssumption DEF Scanning, claimSlot, CallersPlaced
  <1>3. /\ cPc'[c] \in {"leased", "claimed"} /\ frame'[c].bound
        /\ frame'[c].slot = s /\ frame'[c].id = nextRequestId /\ frame'[c].ring = ring
        /\ \A d \in Callers : d # c => cPc'[d] = cPc[d] /\ frame'[d] = frame[d]
        /\ frame' \in [Callers -> Frames]
    BY <1>1, ClaimedFrame
  <1>4. /\ rxData' \in [Slots -> Requests \cup {Zero}]
        /\ rxData'[s] \in Requests /\ rxData'[s].id = nextRequestId
        /\ rxData'[s] # Zero /\ \A t \in Slots : t # s => rxData'[t] = rxData[t]
    <2>1. [id |-> nextRequestId, magic |-> TRUE, fn |-> frame[c].fn] \in Requests
      BY <1>1 DEF WrapperTypeOK, Frames, Requests
    <2> QED
      BY <1>1, <2>1, ZeroAssumption DEF claimSlot, WrapperTypeOK, RingTypeOK
  <1>5. WrapperTypeOK'
    <2>1. nextSlot' \in Slots
      BY SlotWraps DEF claimSlot, NextSlot, Slots
    <2>2. cPc' \in [Callers -> {"idle", "scan", "sleep", "rescan", "claimed",
                "leased", "wait", "joining", "returned"}]
      BY <1>1 DEF claimSlot, Goto, WrapperTypeOK
    <2> QED
      BY <1>1, <1>2, <1>3, <1>4, <2>1, <2>2
      DEF claimSlot, FlagsTyped, WrapperTypeOK, RingTypeOK, Statuses
  <1>6. /\ inUse'[s] /\ \A t \in Slots : t # s => inUse'[t] = inUse[t]
        /\ \A d \in Callers : Holding(d) => frame[d].slot # s
    BY <1>1 DEF claimSlot, WrapperTypeOK, LeasesHeld
  <1>7. \A d \in Callers : d # c => (Holding(d)' <=> Holding(d))
    BY <1>3 DEF Holding
  <1>8. CallersPlaced'
    BY <1>1, <1>2, <1>3, <1>7 DEF CallersPlaced, Holding
  <1>9. LeasesHeld'
    <2>1. \A d \in Callers : frame[d].slot \in Slots
      BY <1>1 DEF WrapperTypeOK, Frames
    <2>2. \A d \in Callers : cPc[d] \in {"claimed", "leased", "wait"} => Holding(d)
      BY <1>1 DEF CallersPlaced, Holding
    <2> QED
      BY <1>1, <1>3, <1>4, <1>6, <1>7, <2>1, <2>2 DEF LeasesHeld
  <1>10. SlotsAccounted'
    <2>1. Holding(c)'
      BY <1>3 DEF Holding
    <2>2. ~Holding(c) /\ cPc[c] # "joining" /\ forgotten' = forgotten
      BY <1>2 DEF Holding, claimSlot
    <2>3. \A d \in Callers : Holding(d) \/ cPc[d] = "joining" =>
             (Holding(d)' \/ cPc'[d] = "joining") /\ frame'[d].slot = frame[d].slot
      BY <1>3, <1>7, <2>2
    <2> SUFFICES ASSUME NEW t \in Slots, inUse'[t], t \notin forgotten
                 PROVE  \E d \in Callers :
                           (Holding(d)' \/ cPc'[d] = "joining") /\ frame'[d].slot = t
      BY <1>1, <2>2 DEF SlotsAccounted
    <2>4. CASE t = s
      BY <1>3, <2>1, <2>4
    <2>5. CASE t # s
      BY <1>1, <1>2, <1>6, <2>3, <2>5 DEF SlotsAccounted
    <2> QED
      BY <2>4, <2>5
  <1>11. RequestsDistinct'
    <2>1. nextRequestId' = nextRequestId + 1 /\ nextRequestId \in Nat
      BY <1>1 DEF claimSlot, WrapperTypeOK
    <2>2. \A t \in Slots : rxData[t] # Zero => rxData[t].id \in Nat
      BY <1>1 DEF WrapperTypeOK, RingTypeOK, Requests
    <2>3. \A t \in Slots : rxData'[t] # Zero => rxData'[t].id < nextRequestId'
      BY <1>1, <1>2, <1>4, <2>1, <2>2 DEF RequestsDistinct
    <2>4. \A t \in Slots : t # s /\ rxData'[t] # Zero => rxData'[t].id < rxData'[s].id
      BY <1>1, <1>2, <1>4 DEF RequestsDistinct
    <2>5. ASSUME NEW t \in Slots, NEW u \in Slots, rxData'[t] # Zero, rxData'[u] # Zero,
                 rxData'[t].id = rxData'[u].id
          PROVE  t = u
      <3>1. CASE t # s /\ u # s
        BY <1>1, <1>2, <1>4, <2>5, <3>1 DEF RequestsDistinct
      <3>2. CASE t = s /\ u # s
        BY <1>4, <2>1, <2>4, <2>5, <3>2
      <3>3. CASE t # s /\ u = s
        BY <1>4, <2>1, <2>4, <2>5, <3>3
      <3> QED
        BY <3>1, <3>2, <3>3
    <2> QED
      BY <2>3, <2>5 DEF RequestsDistinct
  <1> QED
    BY <1>5, <1>8, <1>9, <1>10, <1>11 DEF LeaseInv

(* A candidate is passed over.                                             *)
LEMMA PassOverKeeps ==
    ASSUME LeaseInv, NEW c \in Callers, attempt[c] < NumSlots, passOver(c), FlagsTyped,
           UNCHANGED <<env, undercut, started, ring>>
    PROVE  LeaseInv'
  <1>1. attempt' \in [Callers -> 0 .. NumSlots]
    BY NumSlotsAssumption DEF LeaseInv, WrapperTypeOK, passOver
  <1>2. WrapperTypeOK'
    BY <1>1 DEF passOver, LeaseInv, FlagsTyped, WrapperTypeOK, RingTypeOK, Statuses
  <1>3. CallersPlaced'
    BY DEF LeaseInv, CallersPlaced, Holding, passOver
  <1>4. LeasesHeld'
    BY DEF LeaseInv, LeasesHeld, Holding, passOver
  <1>5. SlotsAccounted'
    BY DEF LeaseInv, SlotsAccounted, Holding, passOver
  <1>6. RequestsDistinct'
    BY DEF LeaseInv, RequestsDistinct, passOver
  <1> QED
    BY <1>2, <1>3, <1>4, <1>5, <1>6 DEF LeaseInv

(* Unbinding a frame.                                                      *)
LEMMA Unbinds ==
    ASSUME WrapperTypeOK, NEW c \in Callers, frame' = [frame EXCEPT ![c].bound = FALSE]
    PROVE  /\ frame' \in [Callers -> Frames]
           /\ ~frame'[c].bound /\ \A d \in Callers : d # c => frame'[d] = frame[d]
           /\ frame'[c].slot = frame[c].slot
  <1> DEFINE f == [frame[c] EXCEPT !.bound = FALSE]
  <1>1. frame \in [Callers -> Frames] /\ frame[c] \in Frames
    BY DEF WrapperTypeOK
  <1>2. f \in Frames /\ ~f.bound /\ f.slot = frame[c].slot
    BY <1>1 DEF Frames
  <1>3. frame' = [frame EXCEPT ![c] = f]
    BY <1>1
  <1> HIDE DEF f
  <1> QED
    BY <1>1, <1>2, <1>3

(* The deadline of a waiting caller passes.                                *)
LEMMA GiveUpKeeps ==
    ASSUME LeaseInv, NEW c \in Callers, giveUp(c)
    PROVE  LeaseInv'
  <1>1. WrapperTypeOK /\ CallersPlaced /\ LeasesHeld /\ SlotsAccounted /\ RequestsDistinct
    BY DEF LeaseInv
  <1>2. /\ env.timeouts /\ cPc[c] = "wait" /\ mutex = NoOne /\ mutex' = c
        /\ NoOne \notin Callers /\ Owner \notin Callers /\ NoOne # Owner
        /\ UNCHANGED <<env, undercut, started, ring, inUse, ffPending, nextSlot>>
        /\ UNCHANGED <<nextRequestId, forgotten, attempt, rxFlag, txFlag, rxData, txData>>
    BY CallersAssumption DEF giveUp, tableVars, ringVars
  <1>3. /\ cPc'[c] = "joining" /\ \A d \in Callers : d # c => cPc'[d] = cPc[d]
        /\ frame'[c].slot = frame[c].slot
        /\ ~frame'[c].bound /\ \A d \in Callers : d # c => frame'[d] = frame[d]
        /\ frame' \in [Callers -> Frames]
    BY <1>1, Unbinds DEF giveUp, End, Goto, WrapperTypeOK
  <1>4. WrapperTypeOK'
    <2>1. status' \in [Callers -> {"none", "ok", "mismatch", "invalid", "timeout"}]
          /\ cPc' \in [Callers -> {"idle", "scan", "sleep", "rescan", "claimed",
                "leased", "wait", "joining", "returned"}]
      BY <1>1 DEF giveUp, End, Goto, WrapperTypeOK
    <2> QED
      BY <1>1, <1>2, <1>3, <2>1 DEF WrapperTypeOK, RingTypeOK
  <1>5. Holding(c) /\ ~Holding(c)' /\ started
        /\ \A d \in Callers : d # c => (Holding(d)' <=> Holding(d))
    BY <1>1, <1>2, <1>3 DEF Holding, CallersPlaced
  <1>6. CallersPlaced'
    BY <1>1, <1>2, <1>3, <1>5 DEF CallersPlaced
  <1>7. LeasesHeld'
    BY <1>1, <1>2, <1>3, <1>5 DEF LeasesHeld
  <1>8. SlotsAccounted'
    <2>1. \A d \in Callers : /\ frame'[d].slot = frame[d].slot
                             /\ Holding(d) \/ cPc[d] = "joining" =>
                                   Holding(d)' \/ cPc'[d] = "joining"
      BY <1>3, <1>5
    <2> QED
      BY <1>1, <1>2, <2>1 DEF SlotsAccounted
  <1> QED
    BY <1>1, <1>2, <1>4, <1>6, <1>7, <1>8 DEF LeaseInv, RequestsDistinct

(* The storage is freed, by a caller whose deadline passed or by the owner *)
(* when nobody is inside.                                                  *)
LEMMA TornDownKeeps ==
    ASSUME LeaseInv, tornDown, UNCHANGED status,
           \/ mutex = Owner /\ UNCHANGED cPc
           \/ \E c \in Callers : cPc[c] = "joining" /\ Goto(c, "returned")
    PROVE  WrapperTypeOK' /\ UndercutByDeadline' /\ (~undercut' => LeaseInv')
  <1>1. WrapperTypeOK /\ CallersPlaced /\ LeasesHeld /\ SlotsAccounted /\ RequestsDistinct
        /\ ~undercut
    BY DEF LeaseInv
  <1>2. /\ mutex' = NoOne /\ started' = FALSE /\ NoOne # Owner
        /\ NoOne \notin Callers /\ Owner \notin Callers
        /\ UNCHANGED <<env, ring, frame, attempt, ringVars>>
        /\ undercut' = \E d \in Callers \ {mutex} : Holding(d) \/ cPc[d] = "sleep"
        /\ forgotten' = {}
    BY <1>1, CallersAssumption DEF tornDown, resetTable
  <1>3. WrapperTypeOK'
    <2>1. 0 \in Slots
      BY NumSlotsAssumption DEF Slots
    <2>2. cPc' \in [Callers -> {"idle", "scan", "sleep", "rescan", "claimed",
                "leased", "wait", "joining", "returned"}]
      BY <1>1 DEF Goto, WrapperTypeOK
    <2>3. undercut' \in BOOLEAN /\ forgotten' \subseteq Slots
      BY <1>2
    <2> QED
      BY <1>1, <1>2, <2>1, <2>2, <2>3
      DEF WrapperTypeOK, RingTypeOK, tornDown, resetTable, ringVars
  <1>4. CASE mutex = Owner /\ UNCHANGED cPc
    <2>1. \A d \in Callers : cPc'[d] = "idle" /\ ~Holding(d) /\ ~Holding(d)'
      BY <1>1, <1>4 DEF CallersPlaced, Holding
    <2>2. ~undercut'
      BY <1>1, <1>2, <1>4, <2>1 DEF CallersPlaced
    <2>3. CallersPlaced' /\ LeasesHeld'
      BY <1>2, <2>1 DEF CallersPlaced, LeasesHeld
    <2> QED
      BY <1>2, <1>3, <2>2, <2>3
      DEF LeaseInv, SlotsAccounted, RequestsDistinct, UndercutByDeadline
  <1>5. ASSUME NEW c \in Callers, cPc[c] = "joining", Goto(c, "returned")
        PROVE  UndercutByDeadline' /\ (~undercut' => LeaseInv')
    <2>1. /\ c \in env.active /\ env.timeouts /\ ~frame[c].bound /\ mutex = c
          /\ cPc'[c] = "returned" /\ \A d \in Callers : d # c => cPc'[d] = cPc[d]
      BY <1>1, <1>5 DEF CallersPlaced, Goto, WrapperTypeOK
    <2>2. UndercutByDeadline'
      <3> SUFFICES ASSUME undercut' PROVE \E x, y \in env.active : x # y
        BY <1>2, <2>1 DEF UndercutByDeadline
      <3>1. PICK d \in Callers : d # c /\ (Holding(d) \/ cPc[d] = "sleep")
        BY <1>2, <2>1
      <3>2. d \in env.active
        BY <1>1, <3>1 DEF CallersPlaced, Holding
      <3> QED
        BY <2>1, <3>1, <3>2
    <2>3. ASSUME ~undercut' PROVE LeaseInv'
      <3>1. \A d \in Callers : d # c =>
               ~Holding(d) /\ cPc[d] \notin {"sleep", "scan", "rescan", "joining"}
        BY <1>1, <1>2, <2>1, <2>3 DEF CallersPlaced
      <3>2. \A d \in Callers : d # c => cPc[d] \in {"idle", "returned"}
        BY <1>1, <3>1 DEF CallersPlaced, Holding, WrapperTypeOK
      <3>3. \A d \in Callers : /\ cPc'[d] \in {"idle", "returned"} /\ ~Holding(d)'
                               /\ cPc'[d] # "idle" => d \in env.active
        BY <1>1, <1>2, <2>1, <3>1, <3>2 DEF Holding, CallersPlaced
      <3>4. CallersPlaced' /\ LeasesHeld'
        BY <1>2, <3>3 DEF CallersPlaced, LeasesHeld
      <3> QED
        BY <1>2, <1>3, <2>3, <3>4 DEF LeaseInv, SlotsAccounted, RequestsDistinct
    <2> QED
      BY <2>2, <2>3
  <1> QED
    BY <1>3, <1>4, <1>5

(* A frame is released.                                                    *)
LEMMA ReleaseKeeps ==
    ASSUME LeaseInv, NEW c \in Callers, Releasing(c),
           inUse' = IF frame[c].bound /\ inUse[frame[c].slot]
                      THEN [inUse EXCEPT ![frame[c].slot] = FALSE] ELSE inUse,
           frame' = [frame EXCEPT ![c].bound = FALSE], Goto(c, "idle"), FlagsTyped,
           UNCHANGED <<env, undercut, started, ring, mutex, nextSlot, nextRequestId>>,
           UNCHANGED <<forgotten, attempt, rxData>>
    PROVE  LeaseInv'
  <1>1. WrapperTypeOK /\ CallersPlaced /\ LeasesHeld /\ SlotsAccounted /\ RequestsDistinct
    BY DEF LeaseInv
  <1>2. /\ cPc[c] \in {"leased", "returned"} /\ mutex = NoOne
        /\ NoOne \notin Callers /\ Owner \notin Callers /\ NoOne # Owner
    BY CallersAssumption DEF Releasing
  <1>3. /\ cPc'[c] = "idle" /\ \A d \in Callers : d # c => cPc'[d] = cPc[d]
        /\ ~frame'[c].bound /\ \A d \in Callers : d # c => frame'[d] = frame[d]
        /\ frame' \in [Callers -> Frames] /\ frame[c].slot \in Slots
    <2>1. frame[c].slot \in Slots
      BY <1>1 DEF WrapperTypeOK, Frames
    <2> QED
      BY <1>1, <2>1, Unbinds DEF Goto, WrapperTypeOK
  <1>4. WrapperTypeOK'
    <2>1. cPc' \in [Callers -> {"idle", "scan", "sleep", "rescan", "claimed",
                "leased", "wait", "joining", "returned"}]
      BY <1>1 DEF Goto, WrapperTypeOK
    <2>2. inUse' \in [Slots -> BOOLEAN]
      BY <1>1 DEF WrapperTypeOK
    <2> QED
      BY <1>1, <1>3, <2>1, <2>2 DEF WrapperTypeOK, RingTypeOK, FlagsTyped, Statuses
  <1>5. /\ ~Holding(c)' /\ \A d \in Callers : d # c => (Holding(d)' <=> Holding(d))
        /\ frame[c].bound <=> Holding(c)
    BY <1>2, <1>3 DEF Holding
  <1>6. CallersPlaced'
    BY <1>1, <1>2, <1>3, <1>5 DEF CallersPlaced
  <1>7. /\ \A s \in Slots : inUse'[s] => inUse[s]
        /\ \A s \in Slots : s # frame[c].slot => inUse'[s] = inUse[s]
        /\ Holding(c) => ~inUse'[frame[c].slot]
        /\ ~Holding(c) => inUse' = inUse
        /\ \A d \in Callers : d # c /\ Holding(d) /\ Holding(c) => frame[d].slot # frame[c].slot
        /\ \A d \in Callers : frame[d].slot \in Slots
    BY <1>1, <1>3, <1>5 DEF WrapperTypeOK, LeasesHeld, Frames
  <1>8. LeasesHeld'
    <2>1. \A d \in Callers : d # c /\ Holding(d) => inUse'[frame[d].slot]
      BY <1>1, <1>7 DEF LeasesHeld
    <2> QED
      BY <1>1, <1>3, <1>5, <2>1 DEF LeasesHeld
  <1>9. SlotsAccounted'
    <2> SUFFICES ASSUME started, NEW s \in Slots, inUse'[s], s \notin forgotten
                 PROVE  \E d \in Callers :
                           (Holding(d)' \/ cPc'[d] = "joining") /\ frame'[d].slot = s
      BY <1>1 DEF SlotsAccounted
    <2>1. PICK d \in Callers : /\ Holding(d) \/ cPc[d] = "joining"
                              /\ frame[d].slot = s
      BY <1>1, <1>7 DEF SlotsAccounted
    <2>2. d # c
      BY <1>2, <1>7, <2>1
    <2> QED
      BY <1>3, <1>5, <2>1, <2>2
  <1> QED
    BY <1>1, <1>4, <1>6, <1>8, <1>9 DEF LeaseInv, RequestsDistinct

(* The owner takes the mutex to stop the channel.                          *)
LEMMA BeginStopKeeps ==
    ASSUME LeaseInv, beginStop
    PROVE  LeaseInv'
  <1>1. WrapperTypeOK /\ CallersPlaced /\ LeasesHeld /\ SlotsAccounted /\ RequestsDistinct
    BY DEF LeaseInv
  <1>2. /\ \A c \in Callers : cPc[c] = "idle"
        /\ UNCHANGED <<env, undercut, started, ring, inUse, ffPending, nextSlot>>
        /\ UNCHANGED <<nextRequestId, forgotten>>
        /\ UNCHANGED <<cPc, frame, attempt, status, rxFlag, txFlag, rxData, txData>>
        /\ Owner \notin Callers /\ mutex' = Owner
    BY CallersAssumption DEF beginStop, tableVars, callerVars, ringVars
  <1>3. WrapperTypeOK'
    BY <1>1, <1>2 DEF WrapperTypeOK, RingTypeOK
  <1>4. CallersPlaced'
    BY <1>1, <1>2 DEF CallersPlaced, Holding
  <1>5. LeasesHeld'
    BY <1>1, <1>2 DEF LeasesHeld, Holding
  <1>6. SlotsAccounted'
    BY <1>1, <1>2 DEF SlotsAccounted, Holding
  <1> QED
    BY <1>1, <1>2, <1>3, <1>4, <1>5, <1>6 DEF LeaseInv, RequestsDistinct

(* What LeaseInv says about the leases.                                    *)
LEMMA LeaseInvMeans ==
    ASSUME LeaseInv
    PROVE  WrapperTypeOK /\ Leases
  <1>1. WrapperTypeOK /\ CallersPlaced /\ LeasesHeld /\ SlotsAccounted
    BY DEF LeaseInv
  <1>2. LeaseExclusive
    BY <1>1 DEF CallersPlaced, LeasesHeld, LeaseExclusive, Holding
  <1>3. NoSlotLost
    <2>1. mutex = NoOne => \A c \in Callers : cPc[c] # "joining"
      BY <1>1, CallersAssumption DEF CallersPlaced
    <2> QED
      BY <1>1, <2>1 DEF SlotsAccounted, NoSlotLost
  <1>4. FramesPointIntoRing
    BY <1>1 DEF CallersPlaced, LeasesHeld, FramesPointIntoRing
  <1> QED
    BY <1>1, <1>2, <1>3, <1>4 DEF Leases

==============================================================================
