-------------------------- MODULE RingSlotChannel ---------------------------
(***************************************************************************)
(* The caller side of the ring-slot device_call protocol (RingSlotChannel.h *)
(* and UdpChannel.cpp) on a threaded UdpTransceiver.  Here the ring is the *)
(* caller's: TX pages carry requests and RX pages carry responses.  A call *)
(* and its response are correlated by position alone: the channel hands    *)
(* out TX slots round-robin, rxLoop fills RX slots in arrival order, and   *)
(* the two stay equal as long as every request is answered once, in order. *)
(*                                                                         *)
(* The other end is the service of RpcServer with its replies sent in      *)
(* arrival order (as UdpUnifiedService sends them), over a network that    *)
(* may lose datagrams.                                                     *)
(***************************************************************************)
EXTENDS UdpTransceiver, FunctionTable

CONSTANTS
    Callers,        \* threads that make device_calls
    NoOne,          \* dispatchMutex is free
    Service,        \* address of the service
    Environments,   \* the environments a behaviour may run in
    FireAndForget   \* the choices of responseCapacity = 0

ASSUME ChannelAssumption ==
    /\ Service \in Addresses /\ NoOne \notin Callers
    /\ Environments \subseteq
          [faulty : BOOLEAN, active : SUBSET Callers, maxCalls : Nat]
    /\ FireAndForget \subseteq BOOLEAN

VARIABLES
    env,            \* chosen once.  faulty: waits may end because timeoutMs
                    \* has passed and the network may lose datagrams.
                    \* active: the threads that call.  maxCalls: a bound
    requestIdCounter,
    mutex,          \* the holder of dispatchMutex
    rrCounter,
    ffPending,      \* per slot
    cPc,            \* program point of each caller
    request,        \* its leased request, ready to be copied to a TX page
    ff,             \* responseCapacity = 0
    slot,           \* the slot its dispatch uses
    status,         \* how its last call ended
    published,      \* history: ids in the order of their TX publication
    served          \* number of datagrams of `wire' the service has taken

callVars == <<cPc, request, ff, slot, status>>
chanVars == <<env, requestIdCounter, mutex, rrCounter, ffPending, callVars, published>>
vars == <<chanVars, served, xcvrVars, ringVars>>

(* Type correctness: both rings' flags, the cursors and the callers.       *)
TypeOK ==
    /\ RingTypeOK(Replies, Requests) /\ XcvrTypeOK(Replies, Requests)
    /\ env \in Environments
    /\ requestIdCounter \in Nat /\ mutex \in Callers \cup {NoOne}
    /\ rrCounter \in Slots /\ ffPending \in [Slots -> BOOLEAN]
    /\ cPc \in [Callers -> {"idle", "leased", "drain", "waitTx", "clearRx",
                            "write", "publish", "waitRx", "returned"}]
    /\ request \in [Callers -> Requests \cup {Zero}]
    /\ ff \in [Callers -> BOOLEAN] /\ slot \in [Callers -> Slots]
    /\ status \in [Callers -> {"none", "sent", "ok", "mismatch", "timeout",
                               "invalid"}]
    /\ published \in Seq(Nat) /\ served \in 0 .. Len(wire)

(* UdpChannel::initialize has connected the transceiver; start is next.    *)
Init ==
    /\ RingInit /\ XcvrInit(FALSE, Service)
    /\ env \in Environments
    /\ requestIdCounter = 1 /\ mutex = NoOne /\ rrCounter = 0
    /\ ffPending = [s \in Slots |-> FALSE]
    /\ cPc = [c \in Callers |-> "idle"]
    /\ request = [c \in Callers |-> Zero]
    /\ ff = [c \in Callers |-> FALSE] /\ slot = [c \in Callers |-> 0]
    /\ status = [c \in Callers |-> "none"]
    /\ published = << >> /\ served = 0

Goto(c, pc) == cPc' = [cPc EXCEPT ![c] = pc]
Return(c, st) == /\ Goto(c, "returned")
                 /\ status' = [status EXCEPT ![c] = st]
                 /\ mutex' = NoOne

(* The wait loops test the flag and then the clock, over and over.         *)
DeadlinePassed == env.faulty

-----------------------------------------------------------------------------

(* acquireFrame: no ring slot is taken yet.  A request or response that    *)
(* does not fit a slot is refused.                                         *)
acquireFrame(c) ==
    /\ c \in env.active /\ requestIdCounter <= env.maxCalls
    /\ running /\ cPc[c] = "idle"
    /\ \/ \E fn \in FunctionIds, b \in FireAndForget :
            /\ request' = [request EXCEPT ![c] =
                 [id |-> requestIdCounter, magic |-> TRUE, fn |-> fn]]
            /\ ff' = [ff EXCEPT ![c] = b]
            /\ requestIdCounter' = requestIdCounter + 1
            /\ Goto(c, "leased") /\ UNCHANGED status
       \/ /\ status' = [status EXCEPT ![c] = "invalid"]
          /\ UNCHANGED <<request, ff, requestIdCounter, cPc>>
    /\ UNCHANGED <<env, mutex, rrCounter, ffPending, slot, published, served>>
    /\ UNCHANGED <<xcvrVars, ringVars>>

(* dispatchFrame takes the lock and a slot.                                *)
dispatchFrame(c) ==
    /\ cPc[c] = "leased" /\ mutex = NoOne
    /\ mutex' = c
    /\ slot' = [slot EXCEPT ![c] = rrCounter]
    /\ rrCounter' = NextSlot(rrCounter)
    /\ Goto(c, IF ffPending[rrCounter] THEN "drain" ELSE "waitTx")
    /\ UNCHANGED <<env, requestIdCounter, ffPending, request, ff, status, published>>
    /\ UNCHANGED <<served, xcvrVars, ringVars>>

(* Mutant of drain: an unread response is not waited for.                  *)
drainSkipped(c) ==
    /\ cPc[c] = "drain"
    /\ ffPending' = [ffPending EXCEPT ![slot[c]] = FALSE]
    /\ Goto(c, "waitTx")
    /\ UNCHANGED <<env, requestIdCounter, mutex, rrCounter, request, ff, slot>>
    /\ UNCHANGED <<status, published, served, xcvrVars, ringVars>>

(* The response to the slot's last fire-and-forget is waited for, and      *)
(* given up on after the timeout.                                          *)
drain(c) ==
    /\ cPc[c] = "drain"
    /\ \/ /\ rxFlag[slot[c]]
          /\ rxFlag' = [rxFlag EXCEPT ![slot[c]] = FALSE]
       \/ /\ ~rxFlag[slot[c]] /\ DeadlinePassed
          /\ UNCHANGED rxFlag
    /\ ffPending' = [ffPending EXCEPT ![slot[c]] = FALSE]
    /\ Goto(c, "waitTx")
    /\ UNCHANGED <<env, requestIdCounter, mutex, rrCounter, request, ff, slot>>
    /\ UNCHANGED <<status, published, served, xcvrVars>>
    /\ UNCHANGED <<txFlag, rxData, txData>>

(* Mutant of waitTx: the slot is overwritten after the timeout.            *)
waitTxAnyway(c) ==
    /\ cPc[c] = "waitTx"
    /\ txFlag[slot[c]] => DeadlinePassed
    /\ Goto(c, "clearRx")
    /\ UNCHANGED <<env, requestIdCounter, mutex, rrCounter, ffPending, request, ff>>
    /\ UNCHANGED <<slot, status, published, served, xcvrVars, ringVars>>

(* waitFlagZeroOrThrow: the slot's last request must have been shipped.    *)
waitTx(c) ==
    /\ cPc[c] = "waitTx"
    /\ \/ ~txFlag[slot[c]] /\ Goto(c, "clearRx") /\ UNCHANGED <<status, mutex>>
       \/ txFlag[slot[c]] /\ DeadlinePassed /\ Return(c, "timeout")
    /\ UNCHANGED <<env, requestIdCounter, rrCounter, ffPending, request, ff, slot>>
    /\ UNCHANGED <<published, served, xcvrVars, ringVars>>

clearRx(c) ==
    /\ cPc[c] = "clearRx"
    /\ rxFlag' = [rxFlag EXCEPT ![slot[c]] = FALSE]
    /\ Goto(c, "write")
    /\ UNCHANGED <<env, requestIdCounter, mutex, rrCounter, ffPending, request, ff>>
    /\ UNCHANGED <<slot, status, published, served, xcvrVars>>
    /\ UNCHANGED <<txFlag, rxData, txData>>

writeRequest(c) ==
    /\ cPc[c] = "write"
    /\ txData' = [txData EXCEPT ![slot[c]] = request[c]]
    /\ Goto(c, "publish")
    /\ UNCHANGED <<env, requestIdCounter, mutex, rrCounter, ffPending, request, ff>>
    /\ UNCHANGED <<slot, status, published, served, xcvrVars>>
    /\ UNCHANGED <<rxFlag, txFlag, rxData>>

(* Mutant of publishRequest: a fire-and-forget is not remembered.          *)
publishRequestForget(c) ==
    /\ cPc[c] = "publish"
    /\ txFlag' = [txFlag EXCEPT ![slot[c]] = TRUE]
    /\ published' = Append(published, request[c].id)
    /\ IF ff[c] THEN Return(c, "sent")
                ELSE Goto(c, "waitRx") /\ UNCHANGED <<status, mutex>>
    /\ UNCHANGED <<env, requestIdCounter, rrCounter, ffPending, request, ff, slot>>
    /\ UNCHANGED <<served, xcvrVars, rxFlag, rxData, txData>>

(* A fire-and-forget returns at once and leaves its response to be         *)
(* drained.                                                                *)
publishRequest(c) ==
    /\ cPc[c] = "publish"
    /\ txFlag' = [txFlag EXCEPT ![slot[c]] = TRUE]
    /\ published' = Append(published, request[c].id)
    /\ IF ff[c]
         THEN /\ ffPending' = [ffPending EXCEPT ![slot[c]] = TRUE]
              /\ Return(c, "sent")
         ELSE Goto(c, "waitRx") /\ UNCHANGED <<ffPending, status, mutex>>
    /\ UNCHANGED <<env, requestIdCounter, rrCounter, request, ff, slot>>
    /\ UNCHANGED <<served, xcvrVars, rxFlag, rxData, txData>>

(* Mutant of waitRx: the wait for the response has no deadline.            *)
waitRxForever(c) ==
    /\ cPc[c] = "waitRx" /\ rxFlag[slot[c]]
    /\ Return(c, IF rxData[slot[c]].id = request[c].id THEN "ok" ELSE "mismatch")
    /\ rxFlag' = [rxFlag EXCEPT ![slot[c]] = FALSE]
    /\ UNCHANGED <<env, requestIdCounter, rrCounter, ffPending, request, ff, slot>>
    /\ UNCHANGED <<published, served, xcvrVars, txFlag, rxData, txData>>

(* The response is validated and copied out, and its slot given back; or   *)
(* the wait times out.                                                     *)
waitRx(c) ==
    /\ cPc[c] = "waitRx"
    /\ \/ /\ rxFlag[slot[c]]
          /\ Return(c, IF rxData[slot[c]].id = request[c].id THEN "ok"
                                                             ELSE "mismatch")
          /\ rxFlag' = [rxFlag EXCEPT ![slot[c]] = FALSE]
       \/ ~rxFlag[slot[c]] /\ DeadlinePassed /\ Return(c, "timeout")
          /\ UNCHANGED rxFlag
    /\ UNCHANGED <<env, requestIdCounter, rrCounter, ffPending, request, ff, slot>>
    /\ UNCHANGED <<published, served, xcvrVars, txFlag, rxData, txData>>

(* releaseFrame frees the caller's scratch, after a dispatch or instead of *)
(* one.                                                                    *)
releaseFrame(c) ==
    /\ cPc[c] \in {"leased", "returned"}
    /\ request' = [request EXCEPT ![c] = Zero]
    /\ Goto(c, "idle")
    /\ UNCHANGED <<env, requestIdCounter, mutex, rrCounter, ffPending, ff, slot>>
    /\ UNCHANGED <<status, published, served, xcvrVars, ringVars>>

-----------------------------------------------------------------------------

(* The service takes the next request that reaches it and answers it, if   *)
(* the table has a handler for it.                                         *)
serve ==
    /\ served < Len(wire)
    /\ served' = served + 1
    /\ LET r == wire[served + 1].body IN
         \/ /\ Servable(r) /\ fd # "closed"
            /\ sock' = Append(sock,
                 [from |-> Service, body |-> Reply(r), fits |-> TRUE])
         \/ (~Servable(r) \/ fd = "closed" \/ env.faulty) /\ UNCHANGED sock
    /\ UNCHANGED <<unified, fd, running, wire, peer, rxVars, txVars>>
    /\ UNCHANGED <<chanVars, ringVars>>

(* UdpChannel::initialize and stop; the session keeps the channel while a  *)
(* caller holds a frame.                                                   *)
Lifecycle ==
    /\ start \/ (close /\ running /\ \A c \in Callers : cPc[c] = "idle")
             \/ closeSocket
    /\ UNCHANGED <<chanVars, served>>

Transport == (rxLoop \/ txLoop) /\ UNCHANGED <<chanVars, served>>

(* dispatchFrame from the lock to its return, and releaseFrame after it.   *)
Dispatching(c) ==
    \/ drain(c) \/ waitTx(c) \/ clearRx(c) \/ writeRequest(c)
    \/ publishRequest(c) \/ waitRx(c)
    \/ cPc[c] = "returned" /\ releaseFrame(c)

Next ==
    \/ \E c \in Callers :
          acquireFrame(c) \/ dispatchFrame(c) \/ Dispatching(c) \/ releaseFrame(c)
    \/ Transport \/ serve \/ Lifecycle

Spec == Init /\ [][Next]_vars

(* The pump threads, the service and a caller inside dispatchFrame run.    *)
FairSpec ==
    /\ Spec
    /\ WF_vars(rxLoop /\ UNCHANGED <<chanVars, served>>)
    /\ WF_vars(txLoop /\ UNCHANGED <<chanVars, served>>)
    /\ WF_vars(serve)
    /\ \A c \in Callers : WF_vars(Dispatching(c))

-----------------------------------------------------------------------------

(* Positional correlation: a caller never finds another call's response in *)
(* its slot, whatever mix of calls with and without responses came before  *)
(* and however the pump threads lag, while every request is answered once. *)
NoMismatch == ~env.faulty => \A c \in Callers : status[c] # "mismatch"

(* The page a request is written to is not being shipped and not waiting   *)
(* to be: what goes on the wire is never a torn or overwritten request.    *)
NoOverwrite ==
    \A c \in Callers :
        cPc[c] \in {"clearRx", "write", "publish"} =>
            /\ ~txFlag[slot[c]]
            /\ ~(txPc \in {"send", "clear"} /\ txCursor = slot[c])

(* What is on the wire is a prefix of what was published: no request is    *)
(* lost, repeated or overtaken on its way out.                             *)
WireFollowsPublication ==
    \A i \in DOMAIN wire :
        i \in DOMAIN published /\ wire[i].body.id = published[i]

(* Without back-pressure timeouts the channel publishes its slots in the   *)
(* order in which txLoop's cursor visits them.                             *)
SentAsPublished == ~env.faulty => WireFollowsPublication

(* What leaves the client is what its callers wrote: no page is changed    *)
(* on its way out, and the wire has the requests in their order.           *)
WireSound == TypeOK /\ NoOverwrite /\ SentAsPublished

(* A call to a registered function that expects a response gets it.        *)
EveryDispatchAnswered ==
    \A c \in Callers :
        (~env.faulty /\ mutex = c /\ ~ff[c] /\ Servable(request[c]))
            ~> (status[c] = "ok" /\ cPc[c] = "returned")

(* A call that is dispatched returns: no wait is without end.              *)
EveryDispatchReturns ==
    \A c \in Callers : mutex = c ~> mutex # c

-----------------------------------------------------------------------------
(* The inductive invariant behind WireSound and NoMismatch.                *)

(* A caller between taking dispatchMutex and returning.                    *)
Claimed == {"drain", "waitTx", "clearRx", "write", "publish"}
Inside == Claimed \cup {"waitRx"}

(* Callers dispatch one at a time.  The one that does has taken the slot   *)
(* before the counter, and waits for the response to what was published    *)
(* last.                                                                   *)
CallersPlaced ==
    /\ \A c \in Callers :
          /\ cPc[c] \in Inside <=> mutex = c
          /\ cPc[c] \in {"leased"} \cup Inside => request[c] \in Requests
          /\ cPc[c] \in Inside => rrCounter = NextSlot(slot[c])
          /\ cPc[c] = "waitRx" =>
                published # << >> /\ published[Len(published)] = request[c].id

(* A raised TX flag guards a request, which stays until it is shipped to   *)
(* the service by the one txLoop there is.                                 *)
PagesFilled ==
    /\ \A s \in Slots : txFlag[s] => txData[s] \in Requests
    /\ \A c \in Callers : cPc[c] = "publish" => txData[slot[c]] = request[c]
    /\ \A i \in DOMAIN wire : wire[i].body \in Requests
    /\ txPc \in {"send", "clear"} => txFlag[txCursor]
    /\ peer # NoPeer
    /\ fd = "open" /\ ~running => rxPc = "off" /\ txPc = "off"

(* The slot of the next publication.                                       *)
NextUse == IF mutex # NoOne /\ cPc[mutex] # "waitRx" THEN slot[mutex] ELSE rrCounter

(* The slot txLoop ships next, and what waits to be shipped: the slots     *)
(* from there to the next publication, in the order of publication.        *)
NextToShip == IF txPc = "clear" THEN NextSlot(txCursor) ELSE txCursor
Unsent(s) == txFlag[s] /\ ~(txPc = "clear" /\ txCursor = s)
Outstanding == Len(published) - Len(wire)
SendQueue ==
    /\ Outstanding \in 0 .. NumSlots
    /\ Distance(NextToShip, NextUse) = IF Outstanding = NumSlots THEN 0 ELSE Outstanding
    /\ \A s \in Slots : Unsent(s) <=> Distance(NextToShip, s) < Outstanding
    /\ \A s \in Slots : Unsent(s) =>
          txData[s].id = published[Len(wire) + 1 + Distance(NextToShip, s)]

(* Somebody will take a response out of slot s.                            *)
Expected(s) ==
    ffPending[s] \/ (mutex # NoOne /\ cPc[mutex] = "waitRx" /\ slot[mutex] = s)

(* rxLoop has a response in its hands.                                     *)
InHand == rxPc \in {"loadRx", "loadTx", "copy", "flag"}
Held == IF InHand THEN 1 ELSE 0

(* rxLoop is m slots behind the channel.  Those m slots are empty and       *)
(* expect a response; in the others a response lies exactly where one is   *)
(* expected.                                                               *)
Window(m) ==
    /\ Distance(rxNext, NextUse) = IF m = NumSlots THEN 0 ELSE m
    /\ \A s \in Slots :
          IF Distance(rxNext, s) < m THEN ~rxFlag[s] /\ Expected(s)
                                     ELSE rxFlag[s] <=> Expected(s)

(* As many slots as were published but m have been filled.  The n-th       *)
(* response still to come answers a request published no earlier than n    *)
(* places after those, so that none can be taken for an earlier one.       *)
InFlight(m) ==
    LET filled == Len(published) - m IN
    /\ filled + Held + Len(sock) <= served
    /\ InHand => \E i \in DOMAIN published : i > filled /\ rxBuf.id = published[i]
    /\ \A j \in DOMAIN sock : \E i \in DOMAIN published :
          i >= filled + Held + j /\ sock[j].body.id = published[i]

(* What a caller finds in the slot it waits at is its own response.        *)
Landed ==
    /\ rxPc = "flag" => rxData[rxNext] = rxBuf
    /\ \A c \in Callers : cPc[c] = "waitRx" /\ rxFlag[slot[c]] =>
          rxData[slot[c]].id = request[c].id

(* A slot is cleared of what it held before it is used again.              *)
SlotCleared ==
    \A c \in Callers :
        /\ cPc[c] = "drain" => ffPending[slot[c]]
        /\ cPc[c] \in Inside \ {"drain"} => ~ffPending[slot[c]]

(* Where nothing is lost and no deadline passes, position is enough.       *)
Correlated ==
    ~env.faulty =>
        /\ SendQueue /\ SlotCleared /\ Landed
        /\ \E m \in 0 .. NumSlots : Window(m) /\ InFlight(m)

ChannelInv ==
    /\ WireSound /\ NoMismatch /\ CallersPlaced /\ PagesFilled /\ Correlated

=============================================================================
