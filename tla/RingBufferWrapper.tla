------------------------- MODULE RingBufferWrapper --------------------------
(***************************************************************************)
(* The slot table that the in-process device_call channels share           *)
(* (runtime/internal/device_call/RingBufferWrapper.cpp) and the caller     *)
(* threads that lease its slots.  One mutex of the channel guards the      *)
(* table; the dispatcher on the other end of the ring does not take it,    *)
(* and a caller waiting for its response does not hold it.                 *)
(*                                                                         *)
(* HostDispatchChannel and GpuDispatchChannel add the dispatcher, the test *)
(* for a slot that can be reused and what releasing a frame clears.        *)
(***************************************************************************)
EXTENDS FunctionTable

CONSTANTS
    Callers,        \* threads that make device_calls
    Owner,          \* the thread that stops the channel
    NoOne,          \* the mutex is free
    MayCancel,      \* a caller may release a frame without dispatching it
    FireAndForget,  \* the choices of responseCapacity = 0
    Environments    \* the environments a behaviour may run in

ASSUME CallersAssumption ==
    /\ Owner \notin Callers /\ NoOne \notin Callers \cup {Owner}
    /\ MayCancel \in BOOLEAN
    /\ FireAndForget \subseteq BOOLEAN
    /\ Environments \subseteq
          [timeouts : BOOLEAN, active : SUBSET Callers,
           maxCalls : Nat, maxRings : Nat]

(* The channel's dispatcher has the ring to itself.                        *)
ASSUME ChannelOwnsRing == ~SharedRing

(* A zero-filled page has neither RPC magic.                               *)
ASSUME ZeroAssumption == Zero \notin Requests \cup Replies

VARIABLES
    env,            \* chosen once.  timeouts: deadlines (timeoutMs) may pass.
                    \* active: the threads that call.  maxRings and
                    \* maxCalls: bounds on the ring configurations and the
                    \* calls between two of them
    started,        \* the dispatcher runs
    ring,           \* how often the ring storage has been configured
    mutex,          \* who holds the channel's mutex
    inUse, ffPending,   \* frameStates[slot]
    nextSlot, nextRequestId,
    cPc,            \* program point of each caller
    frame,          \* the caller's DeviceCallFrame and its FrameState
    attempt,        \* progress of its scan in tryGetReadySlot
    status,         \* how its last step ended
    forgotten,      \* history: slots whose claim the late deadline test of
                    \* acquireFrame dropped
    undercut        \* history: the storage was freed under another caller

callerVars == <<cPc, frame, attempt, status>>
tableVars == <<inUse, ffPending, nextSlot, nextRequestId, forgotten>>
chanVars == <<env, undercut, started, ring, mutex, tableVars, callerVars>>

(* bound: channelPrivate is not null.  ring: the storage it points into.   *)
Frames == [bound : BOOLEAN, ring : Nat, slot : Slots, id : Nat,
           fn : FunctionIds, ff : BOOLEAN]
NoFrame(fn, ff) ==
    [bound |-> FALSE, ring |-> 0, slot |-> 0, id |-> 0, fn |-> fn, ff |-> ff]

WrapperTypeOK ==
    /\ RingTypeOK(Requests, Replies)
    /\ env \in Environments /\ started \in BOOLEAN /\ ring \in Nat
    /\ mutex \in Callers \cup {Owner, NoOne}
    /\ inUse \in [Slots -> BOOLEAN] /\ ffPending \in [Slots -> BOOLEAN]
    /\ nextSlot \in Slots /\ nextRequestId \in Nat
    /\ cPc \in [Callers -> {"idle", "scan", "sleep", "rescan", "claimed",
                "leased", "wait", "joining", "returned"}]
    /\ frame \in [Callers -> Frames]
    /\ attempt \in [Callers -> 0 .. NumSlots]
    /\ status \in [Callers -> {"none", "ok", "mismatch", "invalid", "timeout"}]
    /\ forgotten \subseteq Slots /\ undercut \in BOOLEAN

WrapperInit ==
    /\ RingInit
    /\ env \in Environments /\ started = FALSE /\ ring = 0 /\ mutex = NoOne
    /\ inUse = [s \in Slots |-> FALSE] /\ ffPending = [s \in Slots |-> FALSE]
    /\ nextSlot = 0 /\ nextRequestId = 1
    /\ cPc = [c \in Callers |-> "idle"]
    /\ frame = [c \in Callers |-> NoFrame(CHOOSE fn \in FunctionIds : TRUE, FALSE)]
    /\ attempt = [c \in Callers |-> 0]
    /\ status = [c \in Callers |-> "none"]
    /\ forgotten = {} /\ undercut = FALSE

Goto(c, pc) == cPc' = [cPc EXCEPT ![c] = pc]
End(c, pc, st) == Goto(c, pc) /\ status' = [status EXCEPT ![c] = st]

-----------------------------------------------------------------------------
(* The storage.                                                            *)

resetTable ==
    /\ inUse' = [s \in Slots |-> FALSE] /\ ffPending' = [s \in Slots |-> FALSE]
    /\ nextSlot' = 0 /\ nextRequestId' = 1 /\ forgotten' = {}

(* configure: fresh, zeroed storage.                                       *)
configure ==
    /\ ring < env.maxRings /\ ring' = ring + 1
    /\ resetTable
    /\ rxFlag' = [s \in Slots |-> FALSE] /\ txFlag' = [s \in Slots |-> FALSE]
    /\ rxData' = [s \in Slots |-> Zero] /\ txData' = [s \in Slots |-> Zero]

-----------------------------------------------------------------------------
(* A caller that looks for a slot.                                         *)

CanCall(c) ==
    /\ c \in env.active /\ nextRequestId <= env.maxCalls
    /\ cPc[c] = "idle" /\ mutex = NoOne

(* The call is refused within its first lock scope.                        *)
refuse(c) == End(c, "idle", "invalid") /\ UNCHANGED <<mutex, frame, attempt>>

(* The dispatcher cannot be started: what was set up is given back and the *)
(* call fails.                                                             *)
startFails(c) ==
    /\ ~started
    /\ refuse(c)
    /\ resetTable
    /\ UNCHANGED <<started, ring, ringVars>>

beginScan(c, fn, ff) ==
    /\ mutex' = c
    /\ frame' = [frame EXCEPT ![c] = NoFrame(fn, ff)]
    /\ attempt' = [attempt EXCEPT ![c] = 0]
    /\ End(c, "scan", "none")

candidate(c) == (nextSlot + attempt[c]) % NumSlots

(* Mutant of isFree: a leased slot is a candidate like any other.          *)
isFreeAlways(s) == TRUE

isFree(s) == ~inUse[s]

Scanning(c) == cPc[c] \in {"scan", "rescan"} /\ mutex = c

(* claimSlot, and the end of the lock scope.                               *)
claimSlot(c, s) ==
    /\ nextSlot' = NextSlot(s)
    /\ nextRequestId' = nextRequestId + 1
    /\ inUse' = [inUse EXCEPT ![s] = TRUE]
    /\ rxData' = [rxData EXCEPT ![s] =
         [id |-> nextRequestId, magic |-> TRUE, fn |-> frame[c].fn]]
    /\ txData' = [txData EXCEPT ![s] = Zero]
    /\ frame' = [frame EXCEPT ![c].bound = TRUE, ![c].ring = ring,
         ![c].slot = s, ![c].id = nextRequestId]
    /\ Goto(c, IF cPc[c] = "scan" THEN "leased" ELSE "claimed")
    /\ mutex' = NoOne
    /\ UNCHANGED <<attempt, forgotten>>

passOver(c) ==
    /\ attempt' = [attempt EXCEPT ![c] = @ + 1]
    /\ UNCHANGED <<nextSlot, nextRequestId, inUse, rxData, txData, frame, cPc,
                   mutex, forgotten>>

(* No slot is ready.  The deadline is tested after every scan but the      *)
(* first.                                                                  *)
scanFailed(c) ==
    /\ Scanning(c) /\ attempt[c] = NumSlots
    /\ mutex' = NoOne
    /\ \/ End(c, "sleep", "none")
       \/ cPc[c] = "rescan" /\ env.timeouts /\ End(c, "idle", "timeout")
    /\ UNCHANGED <<env, undercut, started, ring, tableVars, frame, attempt, ringVars>>

rescan(c) ==
    /\ cPc[c] = "sleep" /\ mutex = NoOne
    /\ mutex' = c /\ attempt' = [attempt EXCEPT ![c] = 0]
    /\ Goto(c, "rescan")
    /\ UNCHANGED <<env, undercut, started, ring, tableVars, frame, status, ringVars>>

(* A rescan claimed a slot; the deadline is tested even so, and then the   *)
(* frame is dropped with the slot still in use.                            *)
acquired(c) ==
    /\ cPc[c] = "claimed"
    /\ \/ Goto(c, "leased") /\ UNCHANGED <<status, forgotten>>
       \/ /\ env.timeouts /\ End(c, "idle", "timeout")
          /\ forgotten' = forgotten \cup {frame[c].slot}
    /\ UNCHANGED <<env, undercut, started, ring, mutex, frame, attempt, ringVars>>
    /\ UNCHANGED <<inUse, ffPending, nextSlot, nextRequestId>>

-----------------------------------------------------------------------------
(* A caller that holds a frame.                                            *)

(* The lock scope of dispatchFrame: the request is signalled.              *)
dispatchFrame(c) ==
    /\ cPc[c] = "leased" /\ mutex = NoOne
    /\ LET f == frame[c] IN
         IF ~inUse[f.slot]
           THEN End(c, "returned", "invalid") /\ UNCHANGED <<rxFlag, ffPending>>
           ELSE /\ rxFlag' = [rxFlag EXCEPT ![f.slot] = TRUE]
                /\ ffPending' = IF f.ff THEN [ffPending EXCEPT ![f.slot] = TRUE]
                                        ELSE ffPending
                /\ Goto(c, IF f.ff THEN "returned" ELSE "wait")
                /\ UNCHANGED status
    /\ UNCHANGED <<env, undercut, started, ring, mutex, inUse, nextSlot>>
    /\ UNCHANGED <<nextRequestId, forgotten, frame, attempt, txFlag, rxData, txData>>

(* waitForResponseAndValidate finds the TX flag set.                       *)
waitForResponse(c) ==
    /\ cPc[c] = "wait" /\ txFlag[frame[c].slot]
    /\ LET r == txData[frame[c].slot] IN
         End(c, "returned",
             IF r # Zero /\ r.id = frame[c].id THEN "ok" ELSE "mismatch")
    /\ UNCHANGED <<env, undercut, started, ring, mutex, tableVars, frame, attempt>>
    /\ UNCHANGED ringVars

(* The deadline passes: the frame is unbound.  The mutex is held until the *)
(* dispatcher has stopped.                                                 *)
giveUp(c) ==
    /\ env.timeouts
    /\ cPc[c] = "wait" /\ mutex = NoOne
    /\ mutex' = c
    /\ frame' = [frame EXCEPT ![c].bound = FALSE]
    /\ End(c, "joining", "timeout")
    /\ UNCHANGED <<env, undercut, started, ring, tableVars, attempt, ringVars>>

Holding(c) == cPc[c] \in {"claimed", "leased", "wait", "returned"}
              /\ frame[c].bound

(* The dispatcher is gone, the storage is freed, whoever else still has a  *)
(* frame in it or is about to scan it again.                               *)
tornDown ==
    /\ started' = FALSE /\ mutex' = NoOne
    /\ resetTable
    /\ undercut' = (undercut \/ \E d \in Callers \ {mutex} :
                                  Holding(d) \/ cPc[d] = "sleep")
    /\ UNCHANGED <<env, ring, frame, attempt, ringVars>>

(* A frame is released after dispatchFrame, or instead of it.              *)
Releasing(c) ==
    /\ \/ cPc[c] = "returned"
       \/ MayCancel /\ cPc[c] = "leased"
    /\ mutex = NoOne

(* The session stops the channel when its last owner lets go of it: no     *)
(* caller is inside the channel then.                                      *)
beginStop ==
    /\ \A c \in Callers : cPc[c] = "idle"
    /\ mutex = NoOne /\ started
    /\ mutex' = Owner
    /\ UNCHANGED <<env, undercut, started, ring, tableVars, callerVars, ringVars>>

-----------------------------------------------------------------------------

(* A caller never finds another call's response, or a stale one, in its    *)
(* slot: the check in validateResponseFrame is a backstop that slot reuse, *)
(* fire-and-forget draining and cancelled frames never trip.               *)
NoMismatch == ~undercut => \A c \in Callers : status[c] # "mismatch"

(* A slot has one leaseholder, and while a call waits its request page is  *)
(* still the one it wrote: no other claim and no teardown replaced it.     *)
LeaseExclusive ==
    /\ \A c, d \in Callers :
          Holding(c) /\ Holding(d) /\ frame[c].slot = frame[d].slot => c = d
    /\ \A c \in Callers :
          cPc[c] \in {"leased", "wait"} =>
             /\ inUse[frame[c].slot]
             /\ rxData[frame[c].slot].id = frame[c].id

(* ran: the ids a handler ran for.  A handler runs once per dispatched     *)
(* call and never for a cancelled one.                                     *)
RanOnce(ran) ==
    /\ \A i, j \in DOMAIN ran : ran[i] = ran[j] => i = j
    /\ \A c \in Callers :
          cPc[c] = "leased" => \A i \in DOMAIN ran : ran[i] # frame[c].id

(* FrameState::inUse means that a caller owns the slot (read under the     *)
(* mutex, so not in the middle of a teardown), or that the late deadline   *)
(* test of acquireFrame dropped its claim; nothing else loses a slot.      *)
NoSlotLost ==
    /\ forgotten # {} => env.timeouts
    /\ started /\ mutex = NoOne => \A s \in Slots : inUse[s] =>
          \/ s \in forgotten
          \/ \E c \in Callers : Holding(c) /\ frame[c].slot = s

(* A claim that succeeded is used: no slot is lost at all.  (Refuted, for   *)
(* the test of the deadline that comes after the claim.)                   *)
NoClaimForgotten == forgotten = {}

(* A frame that a caller will still pass to releaseFrame points into live  *)
(* ring storage, and the loop polling for its response reads live flags.   *)
FramesPointIntoRing ==
    \A c \in Callers :
        Holding(c) => started /\ frame[c].ring = ring

(* A dispatched call gets its response without help from another call:     *)
(* each slot is independent.                                               *)
EveryDispatchAnswered ==
    \A c \in Callers : cPc[c] = "wait" ~> status[c] = "ok"

(* A call returns to its caller: a wedged ring ends in a timeout and a     *)
(* teardown that outlives the dispatcher, never in a hang, for as long as  *)
(* no teardown frees the ring under a caller.                              *)
EveryCallReturns ==
    \A c \in Callers :
        env.timeouts /\ cPc[c] # "idle" ~> cPc[c] = "idle" \/ undercut

(* Only a deadline frees the ring under a caller, and only in company.     *)
UndercutByDeadline ==
    undercut => env.timeouts /\ \E c, d \in env.active : c # d

(* What the channel promises its callers for as long as that has not       *)
(* happened.                                                               *)
Leases == LeaseExclusive /\ NoSlotLost /\ FramesPointIntoRing

-----------------------------------------------------------------------------
(* The inductive invariant of the slot table.                              *)

(* Who holds the mutex, whose frame is bound and who needs the dispatcher, *)
(* by program point.                                                       *)
CallersPlaced ==
    /\ mutex = Owner => \A c \in Callers : cPc[c] = "idle"
    /\ \A c \in Callers :
          /\ cPc[c] # "idle" => c \in env.active
          /\ cPc[c] \in {"scan", "rescan", "joining"} <=> mutex = c
          /\ cPc[c] = "joining" => env.timeouts /\ ~frame[c].bound
          /\ cPc[c] \in {"claimed", "leased", "wait"} => frame[c].bound
          /\ cPc[c] \in {"scan", "rescan", "sleep", "joining"} \/ Holding(c) => started

(* A bound frame has a slot of the present ring to itself.                 *)
LeasesHeld ==
    /\ \A c, d \in Callers :
          Holding(c) /\ Holding(d) /\ frame[c].slot = frame[d].slot => c = d
    /\ \A c \in Callers :
          Holding(c) => frame[c].ring = ring /\ inUse[frame[c].slot]
    /\ \A c \in Callers :
          cPc[c] \in {"claimed", "leased", "wait"} =>
             /\ rxData[frame[c].slot] # Zero
             /\ rxData[frame[c].slot].id = frame[c].id

(* Every slot in use is held, dropped or its caller's to tear down.        *)
SlotsAccounted ==
    /\ forgotten # {} => env.timeouts
    /\ started => \A s \in Slots : inUse[s] =>
          \/ s \in forgotten
          \/ \E c \in Callers :
                (Holding(c) \/ cPc[c] = "joining") /\ frame[c].slot = s

(* Request ids are used once per ring.                                     *)
RequestsDistinct ==
    started =>
        /\ \A s \in Slots : rxData[s] # Zero => rxData[s].id < nextRequestId
        /\ \A s, t \in Slots :
              /\ rxData[s] # Zero /\ rxData[t] # Zero
              /\ rxData[s].id = rxData[t].id
              => s = t

LeaseInv ==
    /\ WrapperTypeOK /\ ~undercut
    /\ CallersPlaced /\ LeasesHeld /\ SlotsAccounted /\ RequestsDistinct

=============================================================================
