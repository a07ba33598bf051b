------------------------- MODULE SharedRingService --------------------------
(***************************************************************************)
(* A dispatch kernel on the pinned rings of the UDP transceiver, alone or  *)
(* beside a host loop (shared_ring_mode): then the host loop serves the    *)
(* HOST_CALL entries and the kernel the others of one function table, and  *)
(* each skips the other's requests and leaves their RX flag raised.        *)
(*                                                                         *)
(* A dispatcher reads a slot's flag and then its page, and nothing stops   *)
(* its peer and the transport from recycling the slot in between.  A child *)
(* graph reads its request after the kernel has retired it, through the    *)
(* one context that all children share.  The model has both races; the     *)
(* history variable `overtaken' records that one of them has happened:     *)
(* that the transport has gone past its tests, or on to its copy, for a    *)
(* slot on which a dispatcher stands between reading the flag and leaving  *)
(* the slot, or whose child graph has not published; or that the kernel    *)
(* has launched a graph before the last one has read its context.          *)
(***************************************************************************)
EXTENDS UdpTransceiver, HostDispatcher, GraphDispatcher

CONSTANTS
    Deployments     \* deployments and traffic, of which one is met

(* host: there is a host loop; graph: the kernel is the one that launches  *)
(* graphs, with so many launches to an execution, with a follow-up graph,  *)
(* and it may be launched again after a stop; the datagrams that arrive.   *)
(* A host loop beside the kernel is in shared_ring_mode.                   *)
ASSUME SharedRingAssumption ==
    /\ \A e \in Deployments : e.host => SharedRing
    /\ Deployments \subseteq
         [host : BOOLEAN, graph : BOOLEAN, budget : Nat, triggered : BOOLEAN,
          again : BOOLEAN, maxArrivals : Nat,
          arriving : SUBSET [magic : BOOLEAN, fn : FunctionIds]]

VARIABLES
    deploy,
    arrived,    \* the requests that have reached the socket
    overtaken   \* history: a request was replaced under its reader

hostVars == <<shutdown, dispVars>>
deviceVars == <<kShutdown, kernelVars, graphVars>>
sharedVars == <<deploy, arrived, overtaken, xcvrVars, ringVars, hostVars, deviceVars>>

SharedInit ==
    /\ deploy \in Deployments
    /\ arrived = << >> /\ overtaken = FALSE
    /\ RingInit /\ XcvrInit(FALSE, NoPeer) /\ DispInit
    /\ KernelInit(deploy.host) /\ GraphInit

Arrive ==
    /\ Len(arrived) < deploy.maxArrivals /\ fd # "closed"
    /\ \E k \in deploy.arriving, a \in Addresses :
          /\ arrived' = Append(arrived, k)
          /\ sock' = Append(sock, [from |-> a, fits |-> TRUE,
                       body |-> [id |-> Len(arrived) + 1, magic |-> k.magic,
                                 fn |-> k.fn]])
    /\ UNCHANGED <<deploy, overtaken, unified, fd, running, wire, peer, rxVars, txVars>>
    /\ UNCHANGED <<ringVars, hostVars, deviceVars>>

(* A dispatcher stands on slot s, having seen its RX flag raised, or a     *)
(* child graph has still to answer the request in it.                      *)
Reading(s) ==
    \/ dPc \in {"header", "retire"} /\ dSlot = s
    \/ kPc \in {"header", "drop"} /\ kCur = s
    \/ \E g \in gGraphs : g.kind = "call" /\ g.slot = s

(* The step settles on filling the slot of a reader, or fills it.          *)
Overtakes ==
    rxPc' \in {"copy", "flag"} /\ rxPc' # rxPc /\ Reading(rxNext)

TransportThreads ==
    /\ start \/ rxLoop \/ txLoop
    /\ overtaken' = (overtaken \/ Overtakes)
    /\ UNCHANGED <<deploy, arrived, hostVars, deviceVars>>

HostLoop ==
    /\ deploy.host
    /\ ringDispatchLoop \/ raiseShutdown
    /\ UNCHANGED <<deploy, arrived, overtaken, xcvrVars, deviceVars>>

(* The step replaces a context that a child has still to read.             *)
MovesContext ==
    gIo' # gIo /\ \E g \in gGraphs : g.kind = "call" /\ g.pc = "new"

(* The kernel of the deployment takes a step.                              *)
KernelStep ==
    /\ \/ ~deploy.graph /\ kernelLoop /\ UNCHANGED graphVars
       \/ deploy.graph /\ graphKernelLoop(deploy.budget, deploy.triggered)
    /\ overtaken' = (overtaken \/ MovesContext)
    /\ UNCHANGED <<deploy, arrived, xcvrVars, hostVars>>

GraphStep ==
    childStep /\ UNCHANGED <<deploy, arrived, overtaken, xcvrVars, hostVars>>

Owner ==
    /\ \/ stopKernel /\ UNCHANGED graphVars
       \/ deploy.again /\ launchDispatchGraph
    /\ UNCHANGED <<deploy, arrived, overtaken, xcvrVars, hostVars>>

SharedNext ==
    Arrive \/ TransportThreads \/ HostLoop \/ KernelStep \/ GraphStep \/ Owner

SharedSpec == SharedInit /\ [][SharedNext]_sharedVars

(* The loops, the transport's threads and the child graphs keep running;   *)
(* stopping them is the owner's choice, so fairness is on the loops alone. *)
SharedFairSpec ==
    /\ SharedSpec
    /\ WF_sharedVars(TransportThreads /\ start)
    /\ WF_sharedVars(TransportThreads /\ rxLoop)
    /\ WF_sharedVars(TransportThreads /\ txLoop)
    /\ WF_sharedVars(HostLoop /\ ringDispatchLoop)
    /\ WF_sharedVars(KernelStep) /\ WF_sharedVars(GraphStep)

-----------------------------------------------------------------------------

(* Type correctness.                                                       *)
SharedTypeOK ==
    /\ deploy \in Deployments /\ overtaken \in BOOLEAN
    /\ arrived \in Seq([magic : BOOLEAN, fn : FunctionIds])
    /\ RingTypeOK(Requests, Replies)
    /\ XcvrTypeOK(Requests, Replies)
    /\ DispTypeOK /\ KernelTypeOK /\ GraphTypeOK

(* "Each request is answered exactly once": no request runs twice, on      *)
(* either dispatcher, in a child graph or on several of them, and no reply *)
(* goes out twice.                                                         *)
RunAndSentOnce ==
    LET ran == executed \o kExecuted IN
    /\ \A i, j \in DOMAIN ran : ran[i] = ran[j] => i = j
    /\ \A i, j \in DOMAIN wire : wire[i].body.id = wire[j].body.id => i = j

(* Each request is answered once, as long as none was replaced under its   *)
(* reader: that race is the only way in which the dispatchers of a shared  *)
(* ring serve a request twice.                                             *)
AnsweredOnce == ~overtaken => RunAndSentOnce

(* The two dispatchers never work in the same slot at once, and a child    *)
(* graph answers the request it was launched for.                          *)
NoSlotContention ==
    /\ ~(/\ dPc \in {"invoke", "publish"} /\ kPc \in {"run", "publish", "retire"}
         /\ dSlot = kCur)
    /\ \A g \in gGraphs : g.pc = "ran" => txData[g.slot] = [id |-> g.id]

(* A kernel that has the ring to itself runs its handlers in the order of  *)
(* arrival, across the executions that its self-relaunches start.          *)
ServedInOrder ==
    ~deploy.host =>
        \A i, j \in DOMAIN kExecuted :
            /\ i < j
            /\ IsDeviceCall(arrived[kExecuted[i]]) /\ IsDeviceCall(arrived[kExecuted[j]])
            => kExecuted[i] < kExecuted[j]

(* The follow-up graph can be fired any number of times, as long as no     *)
(* GRAPH_LAUNCH entry uses up the launches of an execution.                *)
NoGraphLaunch == \A k \in deploy.arriving : ~IsGraphLaunch(k)
TriggersFire == gRc = "error" => ~NoGraphLaunch

(* It takes a second dispatcher or child graphs to overtake a reader: the  *)
(* transport alone cannot, by the order in which it loads the flags.       *)
OvertakenBeside == overtaken => deploy.host \/ ~NoGraphLaunch

(* A slot belongs to one dispatcher or child at a time, and the kernel     *)
(* keeps its place and its launches across relaunches, as long as no       *)
(* request was replaced under its reader; for a kernel that has the ring   *)
(* to itself and launches no child graphs, always.                         *)
SlotsOwned ==
    /\ SharedTypeOK /\ OvertakenBeside
    /\ ~overtaken => NoSlotContention /\ ServedInOrder /\ TriggersFire

Serves(r) ==
    r.magic /\ r.fn \notin NullHandlers
            /\ \/ IsHostCall(r) /\ deploy.host
               \/ IsDeviceCall(r)
               \/ IsGraphLaunch(r) /\ deploy.graph

(* Every request that one of the dispatchers serves is eventually run,     *)
(* unless a dispatcher is stopped, an entry without a handler ends the     *)
(* kernel, or a request was replaced under its reader: skipping a peer's   *)
(* slots, waiting for the response slot and relaunching starve nobody.     *)
EveryCallServed ==
    []<>(\/ shutdown \/ kShutdown \/ kPc = "exit" \/ overtaken
         \/ \A n \in DOMAIN arrived : Serves(arrived[n]) =>
               \E i \in DOMAIN executed \cup DOMAIN kExecuted :
                   \/ i \in DOMAIN executed /\ executed[i] = n
                   \/ i \in DOMAIN kExecuted /\ kExecuted[i] = n)

(* "tails = N - 1 means the triggered graph launched but never completed": *)
(* the relaunch counter tells whether the kernel waits for a child.        *)
WaitShowsInCounters ==
    kPc = "tail" /\ gGraphs # {} => gTails = gFires - 1

-----------------------------------------------------------------------------
(* The inductive invariants behind AnsweredOnce and SlotsOwned.            *)

(* rxLoop holds a datagram that it has taken from the socket.              *)
Receiving == rxPc \in {"loadRx", "loadTx", "copy", "flag"}

(* Whatever a dispatcher or a child goes on to read is a request, though   *)
(* not always the one that it found.                                       *)
PagesWritten ==
    /\ Receiving => rxBuf \in Requests
    /\ rxPc = "flag" => rxData[rxNext] \in Requests
    /\ \A s \in Slots :
          (\/ rxFlag[s]
           \/ dPc \in {"header", "invoke"} /\ dSlot = s
           \/ kPc \in {"header", "run"} /\ kCur = s
           \/ gIo = s /\ \E g \in gGraphs : g.kind = "call" /\ g.pc = "new")
          => rxData[s] \in Requests

(* Who is at work in slot s, having taken on the request in it.            *)
HostHas(s) ==
    /\ dSlot = s
    /\ dPc \in {"invoke", "publish"} \/ (dPc = "retire" /\ dOutcome = "Handled")
KernelHas(s) == kPc \in {"run", "publish", "retire"} /\ kCur = s
ChildHas(s) == \E g \in gGraphs : g.kind = "call" /\ g.slot = s

ForKernel(r) == r.magic /\ (IsDeviceCall(r) \/ IsGraphLaunch(r))

(* What the deployment settles for good.                                   *)
Deployed ==
    /\ ~unified /\ fd = "open"
    /\ ~running => rxPc = "off" /\ txPc = "off"
    /\ kShared = deploy.host
    /\ ~deploy.host => dPc = "poll" /\ kPc # "scan"

(* The transport fills no slot that anybody still reads.                   *)
FillsFreeSlot ==
    /\ rxPc \in {"loadTx", "copy", "flag"} => ~rxFlag[rxNext]
    /\ rxPc \in {"copy", "flag"} => ~txFlag[rxNext] /\ ~Reading(rxNext)
    /\ rxPc = "flag" => rxData[rxNext] = rxBuf
    /\ txPc \in {"send", "clear"} => txFlag[txCursor]

(* The function table splits the slots between the dispatchers.            *)
OwnersAgree ==
    /\ \A s \in Slots :
          /\ HostHas(s) => rxFlag[s] /\ rxData[s].magic /\ IsHostCall(rxData[s])
          /\ KernelHas(s) => rxFlag[s] /\ ForKernel(rxData[s])
          /\ ChildHas(s) => /\ ~txFlag[s] /\ IsGraphLaunch(rxData[s])
                            /\ rxFlag[s] => kPc = "retire" /\ kCur = s
          /\ rxFlag[s] /\ txFlag[s] =>
                \/ dPc = "retire" /\ HostHas(s)
                \/ kPc = "retire" /\ kCur = s
    /\ kPc \in {"run", "publish"} => IsDeviceCall(rxData[kCur])
    /\ kPc = "run" => kReqId = rxData[kCur].id

(* What a dispatcher found in a slot is still there.                       *)
ReadersCurrent ==
    /\ \A s \in Slots : Reading(s) \/ rxFlag[s] => rxData[s] \in Requests
    /\ dPc = "header" /\ rxData[dSlot].magic /\ IsHostCall(rxData[dSlot])
          => rxFlag[dSlot]
    /\ dPc = "retire" /\ dOutcome = "Drop" => ~rxData[dSlot].magic
    /\ kPc = "header" /\ ForKernel(rxData[kCur]) => rxFlag[kCur]
    /\ kPc = "drop" /\ deploy.host => ~rxData[kCur].magic

(* One context serves one child at a time.                                 *)
ChildrenApart ==
    /\ \A g \in gGraphs :
          /\ g.kind = "triggered" => g.pc = "new"
          /\ g.kind = "call" /\ g.pc = "new" => /\ g.slot = gIo
                                                /\ rxData[gIo].id = g.id
          /\ g.pc = "ran" => txData[g.slot] = [id |-> g.id]
    /\ \A g, h \in gGraphs :
          g.kind = "call" /\ h.kind = "call" /\ g.slot = h.slot => g = h

SlotInv ==
    /\ SharedTypeOK /\ PagesWritten /\ Deployed /\ FillsFreeSlot
    /\ OwnersAgree /\ ReadersCurrent /\ ChildrenApart

(* A request in slot s that no handler or child has run for.               *)
Waits(s) ==
    \/ /\ rxFlag[s] /\ ~(HostHas(s) /\ dPc # "invoke")
       /\ ~(KernelHas(s) /\ kPc # "run")
    \/ \E g \in gGraphs : g.kind = "call" /\ g.pc = "new" /\ g.slot = s

Ran(n) == \/ \E i \in DOMAIN executed : executed[i] = n
          \/ \E i \in DOMAIN kExecuted : kExecuted[i] = n

(* A request carries its number and the function it was sent for.          *)
Recorded(r) == r.id \in DOMAIN arrived /\ arrived[r.id].fn = r.fn

(* A request is in one place on its way from the socket to its handler.    *)
RequestsApart ==
    /\ \A n \in DOMAIN arrived : arrived[n] \in deploy.arriving
    /\ \A i \in DOMAIN sock : sock[i].fits /\ Recorded(sock[i].body)
                              /\ ~Ran(sock[i].body.id)
    /\ \A i, j \in DOMAIN sock : sock[i].body.id = sock[j].body.id => i = j
    /\ Receiving => /\ Recorded(rxBuf) /\ ~Ran(rxBuf.id)
                    /\ \A i \in DOMAIN sock : sock[i].body.id # rxBuf.id
    /\ \A s \in Slots : Waits(s) =>
          /\ Recorded(rxData[s]) /\ ~Ran(rxData[s].id)
          /\ \A i \in DOMAIN sock : sock[i].body.id # rxData[s].id
          /\ Receiving => rxBuf.id # rxData[s].id
          /\ \A t \in Slots : Waits(t) /\ rxData[s].id = rxData[t].id => s = t

(* No request has run twice, and those that have did arrive.               *)
RunsApart ==
    /\ \A i, j \in DOMAIN executed : executed[i] = executed[j] => i = j
    /\ \A i, j \in DOMAIN kExecuted : kExecuted[i] = kExecuted[j] => i = j
    /\ \A i \in DOMAIN executed, j \in DOMAIN kExecuted :
          executed[i] # kExecuted[j]
    /\ \A i \in DOMAIN executed : executed[i] \in DOMAIN arrived
    /\ \A i \in DOMAIN kExecuted : kExecuted[i] \in DOMAIN arrived

(* A reply in slot s that txLoop has still to ship.                        *)
Outgoing(s) ==
    \/ txFlag[s] /\ ~(txPc = "clear" /\ txCursor = s)
    \/ dPc = "publish" /\ dSlot = s
    \/ kPc = "publish" /\ kCur = s
    \/ \E g \in gGraphs : g.pc = "ran" /\ g.slot = s

(* A reply is in one place on its way from its handler to the wire.        *)
RepliesApart ==
    /\ \A s \in Slots : Outgoing(s) =>
          /\ txData[s] \in Replies /\ Ran(txData[s].id)
          /\ \A t \in Slots : Outgoing(t) /\ txData[s].id = txData[t].id => s = t
          /\ \A i \in DOMAIN wire : wire[i].body.id # txData[s].id
    /\ \A i \in DOMAIN wire : wire[i].body \in Replies /\ Ran(wire[i].body.id)
    /\ \A i, j \in DOMAIN wire : wire[i].body.id = wire[j].body.id => i = j

SharedInv == SlotInv /\ RequestsApart /\ RunsApart /\ RepliesApart

-----------------------------------------------------------------------------
(* What ServedInOrder and TriggersFire need besides.                       *)

(* A kernel that is alone is not launched a second time: its cursor would  *)
(* be that of the last self-relaunch.  An execution has a launch to spare  *)
(* for its follow-up graph.                                                *)
KernelsPlaced ==
    \A e \in Deployments : (e.again => e.host) /\ (e.triggered => e.budget > 0)

(* The raised flags are those from the kernel's cursor up to rxLoop's: the *)
(* two meet when all of them are raised, or none.                          *)
NoGap ==
    /\ \E n \in 0 .. NumSlots :
          /\ Distance(kCur, rxNext) = IF n = NumSlots THEN 0 ELSE n
          /\ \A s \in Slots : rxFlag[s] <=> Distance(kCur, s) < n
    /\ kPc \in {"header", "drop"} => rxFlag[kCur]
    /\ kPc = "tail" => gCursor = kCur

(* Slot s holds a request that the kernel has still to run or pass on.     *)
InLine(s) == rxFlag[s] /\ ~(KernelHas(s) /\ kPc # "run")

RanDevice(n) == /\ \E i \in DOMAIN kExecuted : kExecuted[i] = n
                /\ IsDeviceCall(arrived[n])

(* Requests wait in the order of their arrival, the kernel's next in       *)
(* front; the device calls that have run came before them all.             *)
ArrivalOrder ==
    /\ \A i, j \in DOMAIN sock : i < j => sock[i].body.id < sock[j].body.id
    /\ Receiving => \A i \in DOMAIN sock : rxBuf.id < sock[i].body.id
    /\ \A s \in Slots : InLine(s) =>
          /\ \A i \in DOMAIN sock : rxData[s].id < sock[i].body.id
          /\ Receiving => rxData[s].id < rxBuf.id
          /\ \A t \in Slots :
                InLine(t) /\ Distance(kCur, s) < Distance(kCur, t)
                  => rxData[s].id < rxData[t].id
    /\ \A n \in DOMAIN arrived : RanDevice(n) =>
          /\ \A i \in DOMAIN sock : n < sock[i].body.id
          /\ Receiving => n < rxBuf.id
          /\ \A s \in Slots : InLine(s) => n < rxData[s].id

KernelOrder == ~deploy.host => NoGap /\ ArrivalOrder /\ ServedInOrder

(* Without GRAPH_LAUNCH requests an execution fires one graph at most.     *)
OneTrigger ==
    /\ gRelaunch => deploy.graph
    /\ kPc \in {"header", "drop", "run"} => ~gRelaunch
    /\ NoGraphLaunch => /\ gRc # "error" /\ (gFired > 0 => gRelaunch)
                        /\ \A g \in gGraphs : g.kind = "triggered"

PlaceInv == SharedInv /\ KernelOrder /\ OneTrigger

=============================================================================
