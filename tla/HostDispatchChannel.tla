------------------------ MODULE HostDispatchChannel -------------------------
(***************************************************************************)
(* The in-process device_call channel (runtime/internal/device_call/       *)
(* HostDispatchChannel.cpp): caller threads lease ring slots, signal them  *)
(* to a host dispatch loop and poll for the responses.                     *)
(***************************************************************************)
EXTENDS RingBufferWrapper, HostDispatcher

vars == <<chanVars, ringVars, shutdown, dispVars>>
loopVars == <<shutdown, dispVars>>

(* Type correctness: the ring, the slots' leases, the callers, the loop.   *)
TypeOK == WrapperTypeOK /\ DispTypeOK

Init == WrapperInit /\ DispInit

-----------------------------------------------------------------------------

(* Fresh storage and a new loop on it, unless one runs.                    *)
ensureDispatcherStarted ==
    \/ started /\ UNCHANGED <<started, ring, tableVars, ringVars, loopVars>>
    \/ /\ ~started /\ started' = TRUE
       /\ configure
       /\ shutdown' = FALSE /\ dPc' = "poll" /\ dCur' = 0 /\ dSlot' = 0
       /\ dOutcome' = "Handled" /\ dCount' = 0 /\ stats' = 0
       /\ executed' = << >>

IsSupportedEntry(fn) ==
    /\ fn \in DOMAIN Table /\ Table[fn] = "HOST_CALL"
    /\ fn \notin NullHandlers

(* The first lock scope up to the scan: an unsupported function or a frame *)
(* that does not fit the slot is refused.                                  *)
acquireFrame(c) ==
    /\ CanCall(c)
    /\ \E fn \in FunctionIds, ff \in FireAndForget, fits \in BOOLEAN :
         \/ /\ ~IsSupportedEntry(fn)
            /\ refuse(c)
            /\ UNCHANGED <<started, ring, tableVars, ringVars, loopVars>>
         \/ IsSupportedEntry(fn) /\ startFails(c) /\ UNCHANGED loopVars
         \/ /\ IsSupportedEntry(fn)
            /\ ensureDispatcherStarted
            /\ IF fits THEN beginScan(c, fn, ff) ELSE refuse(c)
    /\ UNCHANGED <<env, undercut>>

(* Mutant of isReady: a pending fire-and-forget is not waited for.         *)
isReadyPending(s) == ffPending[s] \/ (~rxFlag[s] /\ ~txFlag[s])

(* isReady: the response of a fire-and-forget is in (and is drained by the *)
(* scan); then both flags must be clear.                                   *)
isReady(s) ==
    /\ ~rxFlag[s]
    /\ IF ffPending[s] THEN txFlag[s] ELSE ~txFlag[s]

(* One candidate of tryGetReadySlot, and claimSlot if it is ready.  The    *)
(* loads that decide are one step: the dispatch loop publishes before it   *)
(* retires, so a clear RX flag means that it is done with the slot.        *)
scanSlot(c) ==
    /\ Scanning(c) /\ attempt[c] < NumSlots
    /\ LET s == candidate(c)
           drained == isFree(s) /\ ffPending[s] /\ txFlag[s]
           taken == isFree(s) /\ isReady(s) IN
         /\ txFlag' = IF drained THEN [txFlag EXCEPT ![s] = FALSE] ELSE txFlag
         /\ ffPending' = IF drained \/ taken
                           THEN [ffPending EXCEPT ![s] = FALSE] ELSE ffPending
         /\ IF taken THEN claimSlot(c, s) ELSE passOver(c)
    /\ UNCHANGED <<env, undercut, started, ring, status, rxFlag, loopVars>>

(* Mutants of timeOut: the frame keeps its pointer; the shutdown flag is   *)
(* not raised before the join.                                             *)
timeOutBound(c) ==
    /\ env.timeouts
    /\ cPc[c] = "wait" /\ mutex = NoOne
    /\ mutex' = c
    /\ End(c, "joining", "timeout")
    /\ shutdown' = started
    /\ UNCHANGED <<env, undercut, started, ring, tableVars, frame, attempt, ringVars>>
    /\ UNCHANGED dispVars
timeOutSilent(c) == giveUp(c) /\ UNCHANGED loopVars

timeOut(c) == giveUp(c) /\ shutdown' = started /\ UNCHANGED dispVars

(* stopDispatcher joins the thread.                                        *)
stopDispatcher ==
    /\ started => dPc = "exit"
    /\ tornDown /\ UNCHANGED loopVars

timedOut(c) == cPc[c] = "joining" /\ stopDispatcher
               /\ Goto(c, "returned") /\ UNCHANGED status

releaseFrame(c) ==
    /\ Releasing(c)
    /\ LET s == frame[c].slot
           clear == frame[c].bound /\ inUse[s] IN
         /\ inUse' = IF clear THEN [inUse EXCEPT ![s] = FALSE] ELSE inUse
         /\ txFlag' = IF clear /\ ~ffPending[s]
                        THEN [txFlag EXCEPT ![s] = FALSE] ELSE txFlag
    /\ frame' = [frame EXCEPT ![c].bound = FALSE]
    /\ Goto(c, "idle")
    /\ UNCHANGED <<env, undercut, started, ring, mutex, ffPending, nextSlot>>
    /\ UNCHANGED <<nextRequestId, forgotten, attempt, status, rxFlag, rxData, txData, loopVars>>

stop == beginStop /\ shutdown' = TRUE /\ UNCHANGED dispVars
stopped == mutex = Owner /\ stopDispatcher /\ UNCHANGED <<cPc, status>>

-----------------------------------------------------------------------------

(* What a caller does once it has begun a call.                            *)
Caller(c) ==
    \/ scanSlot(c)
    \/ /\ scanFailed(c) \/ rescan(c) \/ acquired(c)
          \/ dispatchFrame(c) \/ waitForResponse(c)
       /\ UNCHANGED loopVars
    \/ timeOut(c) \/ timedOut(c)
    \/ releaseFrame(c)

Dispatcher == started /\ ringDispatchLoop /\ UNCHANGED chanVars

(* Using freed storage is undefined behaviour: nothing is said of what     *)
(* follows.                                                                *)
Next ==
    /\ ~undercut
    /\ \/ \E c \in Callers : acquireFrame(c) \/ Caller(c)
       \/ stop \/ stopped
       \/ Dispatcher

Spec == Init /\ [][Next]_vars

(* The dispatch thread and a caller inside a call keep running, and a      *)
(* mutex freed again and again is obtained.  Nobody is obliged to make     *)
(* another call.                                                           *)
FairSpec ==
    /\ Spec
    /\ WF_vars(~undercut /\ Dispatcher)
    /\ WF_vars(~undercut /\ stopped)
    /\ \A c \in Callers : SF_vars(~undercut /\ Caller(c))

-----------------------------------------------------------------------------

(* The dispatch loop runs a handler once per dispatched call and never for *)
(* a cancelled one.                                                        *)
RunsOnce == ~undercut => RanOnce(executed)

(* The slot table of the channel is sound at every moment: a slot has one  *)
(* leaseholder, none is lost but by a late deadline test, and no frame     *)
(* outlives its ring, until a deadline passes beside another call.         *)
LeasesSound == TypeOK /\ UndercutByDeadline /\ (~undercut => Leases)

-----------------------------------------------------------------------------
(* The inductive invariant behind the three.                               *)

(* The loop works on a signalled slot.  A slot that is claimed and not     *)
(* signalled is untouched, and what a waiting caller will find is the      *)
(* reply to its own request.                                               *)
SlotsServed ==
    /\ dPc \notin {"poll", "exit"} =>
          dPc \notin {"scan", "reload"} /\ rxFlag[dSlot] /\ rxData[dSlot] # Zero
    /\ dPc = "publish" => txData[dSlot] = Reply(rxData[dSlot])
    /\ \A s \in Slots : rxFlag[s] => rxData[s] # Zero
    /\ \A c \in Callers :
          /\ cPc[c] \in {"claimed", "leased"} =>
                ~rxFlag[frame[c].slot] /\ ~txFlag[frame[c].slot]
          /\ cPc[c] = "wait" /\ txFlag[frame[c].slot] =>
                txData[frame[c].slot] = [id |-> frame[c].id]

(* The handler is still to run for the request in slot s.                  *)
ToRun(s) == rxFlag[s] /\ ~(dSlot = s /\ dPc \in {"publish", "retire"})

(* What is still to run has not run.                                       *)
RunsAhead ==
    /\ \A i, j \in DOMAIN executed : executed[i] = executed[j] => i = j
    /\ started => \A i \in DOMAIN executed : executed[i] < nextRequestId
    /\ started => \A s \in Slots, i \in DOMAIN executed :
          ToRun(s) => executed[i] # rxData[s].id
    /\ \A c \in Callers, i \in DOMAIN executed :
          cPc[c] \in {"claimed", "leased"} => executed[i] # frame[c].id

ChannelInv == LeaseInv /\ DispTypeOK /\ SlotsServed /\ RunsAhead /\ NoMismatch

(* What holds in every state, the last one of an undercut ring included.   *)
ChannelSound ==
    TypeOK /\ UndercutByDeadline /\ (~undercut => ChannelInv)

=============================================================================
