----------------------------- MODULE UdpService -----------------------------
(***************************************************************************)
(* A realtime service as a daemon assembles it: the UDP transceiver's RX   *)
(* and TX threads and the host dispatch loop, three threads on one ring    *)
(* (the "3-thread ring shape" of host_dispatcher.cpp).  Clients send       *)
(* datagrams; the network may lose, reorder or duplicate them, so what     *)
(* arrives is any sequence of requests, numbered here by arrival.          *)
(***************************************************************************)
EXTENDS UdpTransceiver, HostDispatcher

CONSTANTS
    MaxArrivals,    \* bound: datagrams that reach the socket
    Arriving        \* the kinds of datagram that do: [magic, fn, fits]

ASSUME ArrivingAssumption ==
    /\ MaxArrivals \in Nat
    /\ \A k \in Arriving :
          k.magic \in BOOLEAN /\ k.fn \in FunctionIds /\ k.fits \in BOOLEAN

(* One dispatcher serves the ring; SharedRingService has two.              *)
ASSUME SoleDispatcher == ~SharedRing

VARIABLE arrived    \* number of datagrams that reached the socket

vars == <<arrived, xcvrVars, ringVars, shutdown, dispVars>>

Init ==
    /\ arrived = 0
    /\ RingInit /\ XcvrInit(FALSE, NoPeer) /\ DispInit

(* A client's datagram reaches the socket.                                 *)
Arrive ==
    /\ arrived < MaxArrivals /\ fd # "closed"
    /\ arrived' = arrived + 1
    /\ \E k \in Arriving, a \in Addresses :
          sock' = Append(sock, [from |-> a, fits |-> k.fits,
                    body |-> [id |-> arrived + 1, magic |-> k.magic,
                              fn |-> k.fn]])
    /\ UNCHANGED <<unified, fd, running, wire, peer, rxVars, txVars>>
    /\ UNCHANGED <<ringVars, shutdown, dispVars>>

Owner == \/ (start \/ close \/ closeSocket) /\ UNCHANGED <<shutdown, dispVars>>
         \/ raiseShutdown /\ UNCHANGED xcvrVars
RxThread == rxLoop /\ UNCHANGED <<shutdown, dispVars>>
TxThread == txLoop /\ UNCHANGED <<shutdown, dispVars>>
Dispatcher == ringDispatchLoop /\ UNCHANGED xcvrVars

Next ==
    \/ Arrive
    \/ (Owner \/ RxThread \/ TxThread \/ Dispatcher) /\ UNCHANGED arrived

Spec == Init /\ [][Next]_vars

(* Each of the three threads runs while it has something to do: the loops  *)
(* never block on one another except through the flags.                    *)
FairSpec ==
    /\ Spec
    /\ WF_vars(RxThread /\ UNCHANGED arrived)
    /\ WF_vars(TxThread /\ UNCHANGED arrived)
    /\ WF_vars(Dispatcher /\ UNCHANGED arrived)

-----------------------------------------------------------------------------

(* Type correctness of the ring, the transceiver and the dispatcher.       *)
TypeOK ==
    /\ arrived \in Nat
    /\ RingTypeOK(Requests, Replies)
    /\ XcvrTypeOK(Requests, Replies)
    /\ DispTypeOK

(* What the threads are doing with the pages of slot s.                    *)
Filling(s) == rxPc \in {"copy", "flag"} /\ rxNext = s
Dispatching(s) == dPc \in {"header", "invoke", "publish", "retire"} /\ dSlot = s
WritingReply(s) == dPc \in {"invoke", "publish"} /\ dSlot = s
Shipping(s) == txPc \in {"send", "clear"} /\ txCursor = s

(* No page is written by one thread while another reads or writes it: rxLoop *)
(* never refills the RX page a handler is working on, and no handler writes  *)
(* a TX page that txLoop is sending or that still waits to be sent.          *)
(* This rests on the order of four flag accesses in two files: the           *)
(* dispatcher publishes before it retires, and rxLoop loads the RX flag      *)
(* before the TX flag.                                                       *)
NoPageRace ==
    \A s \in Slots :
        /\ ~(Filling(s) /\ Dispatching(s))
        /\ ~(WritingReply(s) /\ (Shipping(s) \/ txFlag[s]))

Ids(q) == {q[i].body.id : i \in DOMAIN q}
NoRepeat(q) == \A i, j \in DOMAIN q : q[i] = q[j] => i = j

(* No request runs its handler twice, however the ring wraps.              *)
AtMostOnce == NoRepeat(executed)

(* A TX page holding a reply that txLoop has yet to ship.                  *)
Unsent(s) == \/ txFlag[s] /\ ~(txPc = "clear" /\ txCursor = s)
             \/ dPc = "publish" /\ dSlot = s

(* No reply is lost or sent twice between the handler and the wire: what   *)
(* has run is, exactly once, either on the wire or in a page that is still *)
(* to be shipped, and nothing else ever reaches the wire.                  *)
RepliesAccounted ==
    /\ \A i, j \in DOMAIN wire : wire[i].body.id = wire[j].body.id => i = j
    /\ \A i \in DOMAIN wire :
          \A s \in Slots : Unsent(s) => txData[s].id # wire[i].body.id
    /\ {executed[i] : i \in DOMAIN executed}
          = Ids(wire) \cup {txData[s].id : s \in {s \in Slots : Unsent(s)}}

(* Replies leave in the order in which the dispatcher published them: what *)
(* txLoop's FIFO cursor is for.                                            *)
RepliesInPublishOrder ==
    \A i \in DOMAIN wire : i \in DOMAIN executed /\ wire[i].body.id = executed[i]

(* A request the function table has a handler for.                         *)
(* Every servable request that rxLoop takes in is answered, unless the     *)
(* service is being stopped.                                               *)
EveryCallAnswered ==
    \A n \in 1 .. MaxArrivals :
        (rxPc = "loadRx" /\ rxBuf.id = n /\ Servable(rxBuf))
            ~> (n \in Ids(wire) \/ ~running \/ shutdown)

-----------------------------------------------------------------------------
(* The inductive invariant behind NoPageRace, AtMostOnce and               *)
(* RepliesAccounted.                                                       *)

(* rxLoop holds a datagram it has taken from the socket.                   *)
InHand == rxPc \in {"loadRx", "loadTx", "copy", "flag"}
(* Slot s holds a request the dispatcher has not finished deciding on.     *)
Undecided(s) == rxFlag[s] /\ ~(dSlot = s /\ dPc \in {"publish", "retire"})

(* The flag protocol.  A slot has both flags set only while the dispatcher *)
(* is between its two stores; from the load that found the RX flag clear   *)
(* on, only rxLoop can change that.                                        *)
Handshake ==
    /\ rxPc \in {"loadTx", "copy", "flag"} => ~rxFlag[rxNext]
    /\ rxPc \in {"copy", "flag"} => ~txFlag[rxNext]
    /\ \A s \in Slots : rxFlag[s] /\ txFlag[s] => dPc = "retire" /\ dSlot = s
    /\ \A s \in Slots : Dispatching(s) => rxFlag[s]
    /\ \A s \in Slots : Shipping(s) => txFlag[s]
    /\ dPc # "reload"
    /\ fd = "open" /\ ~running => rxPc = "off" /\ txPc = "off"

(* A flag that is set guards a page that was filled.                       *)
PagesFilled ==
    /\ InHand => rxBuf \in Requests
    /\ rxPc = "flag" => rxData[rxNext] = rxBuf
    /\ \A s \in Slots : rxFlag[s] => rxData[s] \in Requests
    /\ \A s \in Slots : Unsent(s) => txData[s] \in Replies
    /\ \A i \in DOMAIN wire : wire[i].body \in Replies

(* A request is in one place on its way from the socket to its handler.    *)
OnePlace ==
    /\ \A i \in DOMAIN sock : sock[i].body.id <= arrived
    /\ \A i, j \in DOMAIN sock : sock[i].body.id = sock[j].body.id => i = j
    /\ InHand => /\ rxBuf.id <= arrived
                 /\ \A i \in DOMAIN sock : sock[i].body.id # rxBuf.id
    /\ \A s \in Slots : Undecided(s) =>
          /\ rxData[s].id <= arrived
          /\ \A i \in DOMAIN sock : sock[i].body.id # rxData[s].id
          /\ InHand => rxBuf.id # rxData[s].id
          /\ \A t \in Slots :
                Undecided(t) /\ rxData[s].id = rxData[t].id => s = t
    /\ \A k \in DOMAIN executed :
          /\ executed[k] <= arrived
          /\ \A i \in DOMAIN sock : sock[i].body.id # executed[k]
          /\ InHand => rxBuf.id # executed[k]
          /\ \A s \in Slots : Undecided(s) => rxData[s].id # executed[k]

(* A reply has someone to go to, and two pages never hold the same one.    *)
Deliverable ==
    /\ InHand \/ (\E s \in Slots : rxFlag[s] \/ txFlag[s]) => peer # NoPeer
    /\ \A s, t \in Slots :
          Unsent(s) /\ Unsent(t) /\ txData[s].id = txData[t].id => s = t

IInv ==
    /\ TypeOK /\ Handshake /\ PagesFilled
    /\ OnePlace /\ AtMostOnce
    /\ Deliverable /\ RepliesAccounted

-----------------------------------------------------------------------------
(* What the refinement needs beyond IInv: the ring is a queue.             *)

(* Steps from the dispatcher's cursor to slot s.                           *)
Ahead(s) == Distance(dCur, s)

(* The number of slots the dispatcher has before it.                       *)
Backlog == IF rxNext # dCur THEN Ahead(rxNext)
                            ELSE IF rxFlag[dCur] THEN NumSlots ELSE 0

(* The raised RX flags are those from the dispatcher's cursor up to        *)
(* rxLoop's, without a gap: the ring is full or empty when the two meet.   *)
Contiguous ==
    /\ \A s \in Slots : rxFlag[s] <=> Ahead(s) < Backlog
    /\ \A s \in Slots : Dispatching(s) => s = dCur

(* Requests stand in the order of their arrival, the next one to be served *)
(* in front: in the ring, then in rxLoop's buffer, then in the socket.     *)
InOrder ==
    /\ \A i, j \in DOMAIN sock : i < j => sock[i].body.id < sock[j].body.id
    /\ InHand => \A i \in DOMAIN sock : rxBuf.id < sock[i].body.id
    /\ \A s \in Slots : Undecided(s) =>
          /\ \A i \in DOMAIN sock : rxData[s].id < sock[i].body.id
          /\ InHand => rxData[s].id < rxBuf.id
          /\ \A t \in Slots :
                Undecided(t) /\ Ahead(s) < Ahead(t) => rxData[s].id < rxData[t].id

-----------------------------------------------------------------------------
(* What RepliesInPublishOrder needs.  It holds only of traffic in which    *)
(* every datagram that fits a slot is answered.                            *)

AllServable ==
    \A k \in Arriving : k.fits =>
        Servable([id |-> 0, magic |-> k.magic, fn |-> k.fn])

(* No request that reached the ring will be dropped.                       *)
OnlyServable ==
    /\ \A i \in DOMAIN sock : sock[i].fits => Servable(sock[i].body)
    /\ InHand => Servable(rxBuf)
    /\ \A s \in Slots : rxFlag[s] => Servable(rxData[s])

(* The slot txLoop ships next, and the one the dispatcher answers next.    *)
NextToShip == IF txPc = "clear" THEN NextSlot(txCursor) ELSE txCursor
NextToAnswer == IF dPc \in {"publish", "retire"} THEN NextSlot(dCur) ELSE dCur

(* Replies made and not yet sent; they fill the slots from the one cursor  *)
(* to the other, in the order of execution.                                *)
Outstanding == Len(executed) - Len(wire)
ReplyQueue ==
    /\ Outstanding \in 0 .. NumSlots
    /\ Distance(NextToShip, NextToAnswer)
          = IF Outstanding = NumSlots THEN 0 ELSE Outstanding
    /\ \A s \in Slots : Unsent(s) <=> Distance(NextToShip, s) < Outstanding
    /\ \A s \in Slots : Unsent(s) =>
          txData[s].id = executed[Len(wire) + 1 + Distance(NextToShip, s)]

-----------------------------------------------------------------------------
(* The three threads implement the service of RpcServer.                   *)

Pending == {sock[i].body : i \in DOMAIN sock}
             \cup (IF InHand THEN {rxBuf} ELSE {})
             \cup {rxData[s] : s \in {s \in Slots : Undecided(s)}}
Ready == {txData[s] : s \in {s \in Slots : Unsent(s)}}
SentReplies == [i \in DOMAIN wire |-> wire[i].body]

Abstract == INSTANCE RpcServer WITH
    Answer <- Reply, SendMayFail <- FALSE,
    accepted <- arrived,
    pending <- Pending,
    ready <- Ready,
    replies <- SentReplies

(* Refinement: every step of the three threads is a step of RpcServer or   *)
(* leaves it unchanged, so handlers run in arrival order, at most once per *)
(* request, and each reply is sent at most once.                           *)
ImplementsRpcServer == Abstract!Spec

=============================================================================
