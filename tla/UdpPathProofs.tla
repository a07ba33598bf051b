---------------------------- MODULE UdpPathProofs ----------------------------
(***************************************************************************)
(* Proofs about the parts of the UDP path that keep requests apart by the  *)
(* order and the slots they come in: the unified service, whose one thread *)
(* answers in arrival order; the caller's ring-slot channel, which takes   *)
(* the n-th response for the answer to its n-th request; and the shared    *)
(* ring, whose slots a host loop, a dispatch kernel and its child graphs   *)
(* divide among them.  They hold for every ring size, function table, set  *)
(* of clients and callers, and traffic.                                    *)
(***************************************************************************)
EXTENDS UdpUnifiedService, RingSlotChannel, SharedRingService, SequenceTheorems,
        TLAPS

-----------------------------------------------------------------------------
(* Sequences by position.                                                  *)

(* The positions of a sequence are numbers.                                *)
LEMMA Positions == \A S : \A q \in Seq(S) : /\ DOMAIN q \subseteq Nat
                                           /\ \A i \in DOMAIN q : q[i] \in S
  BY LenProperties, ElementOfSeq

(* The elements of a sequence after Append and after Tail, by position.    *)
LEMMA AppendElements ==
  ASSUME NEW S, NEW q \in Seq(S), NEW e \in S
  PROVE  /\ \A i \in DOMAIN q : i \in DOMAIN Append(q, e) /\ Append(q, e)[i] = q[i]
         /\ Append(q, e)[Len(q) + 1] = e
         /\ Len(q) + 1 \in DOMAIN Append(q, e)
         /\ \A i \in DOMAIN Append(q, e) : i \in DOMAIN q \/ i = Len(q) + 1
         /\ Len(q) + 1 \notin DOMAIN q
<1>1. /\ Len(Append(q, e)) = Len(q) + 1 /\ Append(q, e) \in Seq(S)
      /\ \A i \in 1 .. Len(q) : Append(q, e)[i] = q[i]
      /\ Append(q, e)[Len(q) + 1] = e
  BY AppendProperties
<1>2. DOMAIN Append(q, e) = 1 .. Len(q) + 1 /\ DOMAIN q = 1 .. Len(q) /\ Len(q) \in Nat
  BY <1>1, LenProperties
<1> QED
  BY <1>1, <1>2

LEMMA TailElements ==
  ASSUME NEW S, NEW q \in Seq(S), q # << >>
  PROVE  /\ 1 \in DOMAIN q /\ Head(q) = q[1]
         /\ \A i \in DOMAIN Tail(q) :
               i + 1 \in DOMAIN q /\ i + 1 # 1 /\ i \in Nat /\ Tail(q)[i] = q[i + 1]
<1>1. /\ Tail(q) \in Seq(S) /\ Len(Tail(q)) = Len(q) - 1
      /\ \A i \in 1 .. Len(Tail(q)) : Tail(q)[i] = q[i + 1]
  BY HeadTailProperties
<1>2. /\ DOMAIN Tail(q) = 1 .. Len(Tail(q)) /\ DOMAIN q = 1 .. Len(q)
      /\ Len(q) \in Nat \ {0}
  BY <1>1, LenProperties, EmptySeq
<1>3. Head(q) = q[1]
  OBVIOUS
<1> QED
  BY <1>1, <1>2, <1>3

(* The bodies of a sequence of datagrams, after one more is sent.          *)
LEMMA BodiesOfAppend ==
  ASSUME NEW S, NEW T, NEW q \in Seq(S), NEW e \in S, \A x \in S : x.body \in T
  PROVE  [i \in DOMAIN Append(q, e) |-> Append(q, e)[i].body]
            = Append([i \in DOMAIN q |-> q[i].body], e.body)
<1> DEFINE p == [i \in DOMAIN q |-> q[i].body]
           r == [i \in DOMAIN Append(q, e) |-> Append(q, e)[i].body]
<1>1. /\ Len(q) \in Nat /\ DOMAIN q = 1 .. Len(q)
      /\ \A i \in 1 .. Len(q) : q[i] \in S
  BY LenProperties, ElementOfSeq
<1>2. /\ Append(q, e) \in Seq(S) /\ Len(Append(q, e)) = Len(q) + 1
      /\ \A i \in 1 .. Len(q) : Append(q, e)[i] = q[i]
      /\ Append(q, e)[Len(q) + 1] = e
  BY AppendProperties
<1>3. DOMAIN Append(q, e) = 1 .. Len(q) + 1
  BY <1>2, LenProperties
<1>4. p \in Seq(T) /\ Len(p) = Len(q)
  <2>1. p \in [1 .. Len(q) -> T]
    BY <1>1
  <2>2. p \in Seq(T)
    BY <1>1, <2>1, SeqDef
  <2> QED
    BY <1>1, <2>1, <2>2, LenProperties
<1>5. r \in Seq(T) /\ Len(r) = Len(q) + 1
  <2>1. r \in [1 .. Len(q) + 1 -> T]
    BY <1>1, <1>2, <1>3
  <2>2. r \in Seq(T)
    BY <1>1, <2>1, SeqDef
  <2> QED
    BY <1>1, <2>1, <2>2, LenProperties
<1>6. e.body \in T
  OBVIOUS
<1> DEFINE a == Append(p, e.body)
<1>7. /\ a \in Seq(T) /\ Len(a) = Len(q) + 1
      /\ \A i \in 1 .. Len(q) : a[i] = p[i]
      /\ a[Len(q) + 1] = e.body
  BY <1>4, <1>6, AppendProperties
<1>8. \A i \in 1 .. Len(q) + 1 : r[i] = a[i]
  BY <1>1, <1>2, <1>3, <1>7
<1> HIDE DEF r, a
<1>9. r = a
  BY <1>5, <1>7, <1>8, SeqEqual
<1> QED
  BY <1>9 DEF r, a

(* A cursor stays inside the ring.                                         *)
LEMMA NextSlotType == \A s \in Slots : NextSlot(s) \in Slots
  BY NumSlotsAssumption DEF Slots, NextSlot

(* One step of a cursor, and what it does to distances round the ring.     *)
LEMMA NextSlotIs ==
  \A s \in Slots : NextSlot(s) = IF s = NumSlots - 1 THEN 0 ELSE s + 1
<1> SUFFICES ASSUME NEW s \in Slots
             PROVE  NextSlot(s) = IF s = NumSlots - 1 THEN 0 ELSE s + 1
  OBVIOUS
<1>1. CASE s = NumSlots - 1
  BY <1>1, NumSlotsAssumption DEF Slots, NextSlot
<1>2. CASE s # NumSlots - 1
  BY <1>2, NumSlotsAssumption DEF Slots, NextSlot
<1> QED
  BY <1>1, <1>2

LEMMA DistanceFacts ==
  ASSUME NEW c \in Slots, NEW s \in Slots
  PROVE  /\ Distance(c, s) \in 0 .. NumSlots - 1
         /\ Distance(c, s) = 0 <=> s = c
         /\ NextSlot(s) = c <=> Distance(c, s) = NumSlots - 1
         /\ NextSlot(s) # c => Distance(c, NextSlot(s)) = Distance(c, s) + 1
         /\ s # c => Distance(NextSlot(c), s) = Distance(c, s) - 1
         /\ Distance(NextSlot(c), c) = NumSlots - 1
         /\ \A t \in Slots : Distance(c, s) = Distance(c, t) => s = t
<1>1. /\ NextSlot(s) = IF s = NumSlots - 1 THEN 0 ELSE s + 1
      /\ NextSlot(c) = IF c = NumSlots - 1 THEN 0 ELSE c + 1
  BY NextSlotIs
<1> QED
  BY <1>1, NumSlotsAssumption DEF Slots, Distance

(* A stretch of o slots from n to h, its far end given modulo the ring:    *)
(* it grows by the slot h, and it shrinks by the slot n.                   *)
Stretch(n, h, o) == Distance(n, h) = IF o = NumSlots THEN 0 ELSE o

LEMMA StretchGrows ==
  ASSUME NEW n \in Slots, NEW h \in Slots, NEW o \in 0 .. NumSlots, Stretch(n, h, o),
         ~(Distance(n, h) < o)
  PROVE  /\ o + 1 \in 0 .. NumSlots /\ Distance(n, h) = o
         /\ Stretch(n, NextSlot(h), o + 1)
         /\ \A s \in Slots : Distance(n, s) < o + 1 <=> Distance(n, s) < o \/ s = h
<1>0. NumSlots \in Nat \ {0} /\ Distance(n, h) \in 0 .. NumSlots - 1
  BY NumSlotsAssumption, DistanceFacts
<1>1. o < NumSlots /\ Distance(n, h) = o
  BY <1>0 DEF Stretch
<1>2. Stretch(n, NextSlot(h), o + 1)
  <2>1. CASE NextSlot(h) = n
    BY <1>0, <1>1, <2>1, DistanceFacts, NextSlotType DEF Stretch
  <2>2. CASE NextSlot(h) # n
    BY <1>0, <1>1, <2>2, DistanceFacts, NextSlotType DEF Stretch
  <2> QED
    BY <2>1, <2>2
<1>3. \A s \in Slots : Distance(n, s) \in Nat /\ (Distance(n, s) = o <=> s = h)
  BY <1>0, <1>1, DistanceFacts
<1> QED
  BY <1>0, <1>1, <1>2, <1>3

LEMMA StretchShrinks ==
  ASSUME NEW n \in Slots, NEW h \in Slots, NEW o \in 1 .. NumSlots, Stretch(n, h, o)
  PROVE  /\ o - 1 \in 0 .. NumSlots /\ Distance(n, n) = 0
         /\ Stretch(NextSlot(n), h, o - 1)
         /\ \A s \in Slots :
               /\ Distance(NextSlot(n), s) < o - 1 <=> Distance(n, s) < o /\ s # n
               /\ s # n => Distance(NextSlot(n), s) = Distance(n, s) - 1
               /\ Distance(n, s) \in Nat
<1>0. /\ NumSlots \in Nat \ {0} /\ Distance(n, h) \in 0 .. NumSlots - 1
      /\ Distance(n, n) = 0 /\ Distance(NextSlot(n), n) = NumSlots - 1
  BY NumSlotsAssumption, DistanceFacts
<1>1. Stretch(NextSlot(n), h, o - 1)
  <2>1. CASE h = n
    BY <1>0, <2>1 DEF Stretch
  <2>2. CASE h # n
    <3>1. Distance(NextSlot(n), h) = Distance(n, h) - 1 /\ Distance(n, h) # 0
      BY <2>2, DistanceFacts
    <3> QED
      BY <1>0, <3>1 DEF Stretch
  <2> QED
    BY <2>1, <2>2
<1>2. \A s \in Slots :
        /\ Distance(n, s) \in Nat
        /\ s # n => Distance(NextSlot(n), s) = Distance(n, s) - 1
  BY <1>0, DistanceFacts
<1>3. o - 1 \in 0 .. NumSlots /\ ~(NumSlots - 1 < o - 1)
  BY <1>0
<1>4. \A s \in Slots : Distance(NextSlot(n), s) < o - 1 <=> Distance(n, s) < o /\ s # n
  BY <1>0, <1>2, <1>3
<1> QED
  BY <1>0, <1>1, <1>2, <1>3, <1>4

-----------------------------------------------------------------------------
(* UdpUnifiedService: types, one step at a time.                          *)

LEMMA TypeInit == UnifiedInit => UnifiedTypeOK
  BY NumSlotsAssumption, NoPeerAssumption
  DEF UnifiedInit, UnifiedTypeOK, RingInit, XcvrInit, DispInit, RingTypeOK, XcvrTypeOK,
      DispTypeOK, Slots, Datagrams, Sent

(* An arrival, by position in the socket's queue and in origin.            *)
LEMMA ArriveElements ==
  ASSUME UnifiedTypeOK, unifiedArrive
  PROVE  \E d \in Datagrams(Requests) :
           /\ d.body.id = Len(origin) + 1 /\ Len(origin) \in Nat
           /\ sock' = Append(sock, d) /\ origin' = Append(origin, d.from)
           /\ \A i \in DOMAIN sock : i \in DOMAIN sock' /\ sock'[i] = sock[i]
                                       /\ i < Len(sock) + 1 /\ i \in Nat
           /\ sock'[Len(sock) + 1] = d /\ Len(sock) + 1 \in DOMAIN sock'
           /\ \A i \in DOMAIN sock' : i \in DOMAIN sock \/ i = Len(sock) + 1
           /\ \A n \in DOMAIN origin : n \in DOMAIN origin' /\ origin'[n] = origin[n]
                                         /\ n < Len(origin) + 1
           /\ origin'[Len(origin) + 1] = d.from
           /\ Len(origin) + 1 \in DOMAIN origin'
           /\ Len(origin') = Len(origin) + 1
<1>1. PICK k \in Arriving, a \in Addresses :
        /\ origin' = Append(origin, a)
        /\ sock' = Append(sock, [from |-> a, fits |-> k.fits,
                   body |-> [id |-> Len(origin) + 1, magic |-> k.magic,
                             fn |-> k.fn]])
  BY DEF unifiedArrive
<1> DEFINE d == [from |-> a, fits |-> k.fits,
                 body |-> [id |-> Len(origin) + 1, magic |-> k.magic,
                           fn |-> k.fn]]
<1>2. /\ sock \in Seq(Datagrams(Requests)) /\ origin \in Seq(Addresses)
      /\ Len(origin) \in Nat
  BY LenProperties DEF UnifiedTypeOK, XcvrTypeOK
<1>3. /\ d \in Datagrams(Requests) /\ d.body.id = Len(origin) + 1 /\ d.from = a
  BY <1>2, ArrivingAssumption DEF Datagrams, Requests
<1>4. sock' = Append(sock, d)
  BY <1>1
<1> HIDE DEF d
<1>5. /\ \A i \in DOMAIN sock : i \in DOMAIN sock' /\ sock'[i] = sock[i]
                                  /\ i < Len(sock) + 1 /\ i \in Nat
      /\ sock'[Len(sock) + 1] = d /\ Len(sock) + 1 \in DOMAIN sock'
      /\ \A i \in DOMAIN sock' : i \in DOMAIN sock \/ i = Len(sock) + 1
  BY <1>2, <1>3, <1>4, AppendElements, LenProperties
<1>6. /\ \A n \in DOMAIN origin : n \in DOMAIN origin' /\ origin'[n] = origin[n]
                                    /\ n < Len(origin) + 1
      /\ origin'[Len(origin) + 1] = d.from
      /\ Len(origin) + 1 \in DOMAIN origin'
      /\ Len(origin') = Len(origin) + 1
  BY <1>1, <1>2, <1>3, AppendElements, AppendProperties, LenProperties
<1> QED
  BY <1>1, <1>2, <1>3, <1>4, <1>5, <1>6

LEMMA TypeArrive == UnifiedTypeOK /\ unifiedArrive => UnifiedTypeOK'
<1> SUFFICES ASSUME UnifiedTypeOK, unifiedArrive PROVE UnifiedTypeOK'
  OBVIOUS
<1>1. PICK d \in Datagrams(Requests) :
        sock' = Append(sock, d) /\ origin' = Append(origin, d.from)
  BY ArriveElements
<1>2. d.from \in Addresses
  BY DEF Datagrams
<1>3. origin' \in Seq(Addresses) /\ sock' \in Seq(Datagrams(Requests))
  BY <1>1, <1>2, AppendProperties DEF UnifiedTypeOK, XcvrTypeOK
<1> QED
  BY <1>3 DEF unifiedArrive, UnifiedTypeOK, RingTypeOK, XcvrTypeOK, DispTypeOK, ringVars,
      rxVars, txVars, dispVars

LEMMA TypeOwner == UnifiedTypeOK /\ unifiedOwner => UnifiedTypeOK'
<1> SUFFICES ASSUME UnifiedTypeOK, unifiedOwner PROVE UnifiedTypeOK'
  OBVIOUS
<1>1. /\ UNCHANGED <<origin, refused, unified, wire, peer, rxBuf, rxNext, txCursor>>
      /\ UNCHANGED <<ringVars, dispVars>>
  BY DEF unifiedOwner, start, close, closeSocket, raiseShutdown, xcvrVars, rxVars, txVars
<1>2. /\ fd' \in {"open", "joining", "closed"} /\ running' \in BOOLEAN
      /\ shutdown' \in BOOLEAN
      /\ rxPc' \in {rxPc, "off", "recv"} /\ txPc' \in {txPc, "off", "load"}
  BY DEF unifiedOwner, start, close, closeSocket, raiseShutdown, xcvrVars, rxVars,
      txVars, UnifiedTypeOK, XcvrTypeOK, DispTypeOK
<1>3. sock' \in Seq(Datagrams(Requests))
  BY EmptySeq DEF unifiedOwner, start, close, closeSocket, raiseShutdown, xcvrVars,
      UnifiedTypeOK, XcvrTypeOK
<1> QED
  BY <1>1, <1>2, <1>3 DEF UnifiedTypeOK, RingTypeOK, XcvrTypeOK, DispTypeOK, ringVars,
      dispVars

(* What rxPoll takes from the socket.                                      *)
LEMMA PollElements ==
  ASSUME UnifiedTypeOK, rxPollReady, sock' = Tail(sock)
  PROVE  /\ 1 \in DOMAIN sock /\ Head(sock) = sock[1]
         /\ Head(sock) \in Datagrams(Requests) /\ Head(sock).body \in Requests
         /\ sock' \in Seq(Datagrams(Requests))
         /\ \A i \in DOMAIN sock' :
               /\ i + 1 \in DOMAIN sock /\ 1 < i + 1 /\ i \in Nat
               /\ sock'[i] = sock[i + 1]
<1>1. sock \in Seq(Datagrams(Requests)) /\ sock # << >>
  BY DEF UnifiedTypeOK, XcvrTypeOK, rxPollReady
<1>2. Head(sock) \in Datagrams(Requests) /\ sock' \in Seq(Datagrams(Requests))
  BY <1>1, HeadTailProperties
<1>3. Head(sock).body \in Requests
  BY <1>2 DEF Datagrams
<1> QED
  BY <1>1, <1>2, <1>3, TailElements

LEMMA TypeLoop == UnifiedTypeOK /\ QueueInOrder /\ unifiedLoop => UnifiedTypeOK'
<1> SUFFICES ASSUME UnifiedTypeOK, QueueInOrder, unifiedLoop PROVE UnifiedTypeOK'
  OBVIOUS
<1> USE DEF UnifiedTypeOK, RingTypeOK, XcvrTypeOK, DispTypeOK, ringVars, rxVars,
      txVars, dispVars, xcvrVars
<1>1. CASE unifiedPoll
  <2>1. /\ Head(sock) \in Datagrams(Requests) /\ Head(sock).body \in Requests
        /\ sock' \in Seq(Datagrams(Requests)) /\ NextSlot(rxNext) \in Slots
    BY <1>1, PollElements, NextSlotType DEF unifiedPoll, rxPollTake
  <2> QED
    BY <1>1, <2>1 DEF unifiedPoll, rxPollTake, Datagrams
<1>2. CASE unifiedPollOversize
  <2>1. Head(sock).body \in Requests /\ sock' \in Seq(Datagrams(Requests))
    BY <1>2, PollElements DEF unifiedPollOversize, rxPollOversize
  <2> QED
    BY <1>2, <2>1 DEF unifiedPollOversize, rxPollOversize
<1>3. CASE checkHeader /\ UNCHANGED <<xcvrVars, origin, refused>>
  BY <1>3 DEF checkHeader, Retire
<1>4. CASE invokeHostCall /\ UNCHANGED <<xcvrVars, origin, refused>>
  <2>1. rxData[dSlot] \in Requests
    BY <1>4 DEF invokeHostCall, QueueInOrder, Handling
  <2>2. Reply(rxData[dSlot]) \in Replies /\ rxData[dSlot].id \in Nat
    BY <2>1 DEF Reply, Replies, Requests
  <2>3. Append(executed, rxData[dSlot].id) \in Seq(Nat)
    BY <2>2, AppendProperties
  <2>4. txData' \in [Slots -> Replies \cup {Zero}] /\ executed' \in Seq(Nat)
    BY <1>4, <2>2, <2>3 DEF invokeHostCall
  <2>5. dPc' \in {"publish", "retire"} /\ dOutcome' \in {"Handled", dOutcome}
    BY <1>4 DEF invokeHostCall, Retire
  <2>6. UNCHANGED <<dCur, dSlot, dCount, stats, shutdown, rxFlag, txFlag, rxData>>
    BY <1>4 DEF invokeHostCall
  <2> QED
    BY <1>4, <2>4, <2>5, <2>6
<1>5. CASE exitLoop /\ UNCHANGED <<xcvrVars, origin, refused>>
  BY <1>5 DEF exitLoop
<1>6. CASE unifiedSend
  <2>1. wire' \in Seq(Sent(Replies))
    <3>1. CASE wire' = wire
      BY <3>1
    <3>2. CASE wire' = Append(wire, [to |-> peer, body |-> txData[dSlot]]) /\ peer # NoPeer
      <4>1. [to |-> peer, body |-> txData[dSlot]] \in Sent(Replies)
        BY <3>2 DEF Sent
      <4> QED
        BY <3>2, <4>1, AppendProperties
    <3> QED
      BY <1>6, <3>1, <3>2 DEF unifiedSend, txPublish, Ship
  <2>2. refused' \subseteq Nat
    BY <1>6 DEF unifiedSend, QueueInOrder, Handling, Requests
  <2> QED
    BY <1>6, <2>1, <2>2 DEF unifiedSend, txPublish, Retire
<1>7. CASE unifiedRetire
  BY <1>7 DEF unifiedRetire
<1> QED
  BY <1>1, <1>2, <1>3, <1>4, <1>5, <1>6, <1>7 DEF unifiedLoop, unifiedCore

-----------------------------------------------------------------------------
(* UdpUnifiedService: order and addressees.                                *)

(* The ids that the invariant compares are numbers.                        *)
LEMMA IdsAreNumbers ==
  ASSUME UnifiedTypeOK
  PROVE  /\ \A i \in DOMAIN sock : /\ sock[i] \in Datagrams(Requests)
                                   /\ sock[i].body \in Requests
                                   /\ sock[i].body.id \in Nat
         /\ DOMAIN wire \subseteq Nat
<1>1. \A i \in DOMAIN sock : sock[i] \in Datagrams(Requests)
  BY Positions DEF UnifiedTypeOK, XcvrTypeOK
<1>2. DOMAIN wire \subseteq Nat
  BY Positions DEF UnifiedTypeOK, XcvrTypeOK
<1> QED
  BY <1>1, <1>2 DEF Datagrams, Requests

LEMMA OrderInit == UnifiedInit => UnifiedInv
<1> SUFFICES ASSUME UnifiedInit PROVE UnifiedInv
  OBVIOUS
<1>1. UnifiedTypeOK
  BY TypeInit
<1>2. /\ sock = << >> /\ wire = << >> /\ dPc = "poll" /\ unified = TRUE
      /\ fd = "open"
  BY DEF UnifiedInit, XcvrInit, DispInit
<1> QED
  BY <1>1, <1>2
  DEF UnifiedInv, RepliesRight, ReplyToRequester, RepliesInArrivalOrder, HooksOpen,
      QueueInOrder, SentBefore, Handling

(* Steps that move no request and send no reply.                           *)
LEMMA OrderFrame ==
  ASSUME UnifiedInv, UnifiedTypeOK', UNCHANGED <<origin, wire, peer, rxData, txData, dSlot>>,
         sock' = sock \/ DOMAIN sock' = {}, HooksOpen',
         Handling' => Handling, dPc' = "publish" => dPc = "publish"
  PROVE  UnifiedInv'
  BY DEF UnifiedInv, RepliesRight, ReplyToRequester, RepliesInArrivalOrder,
      QueueInOrder, SentBefore

LEMMA OrderArrive == UnifiedInv /\ unifiedArrive => UnifiedInv'
<1> SUFFICES ASSUME UnifiedInv, unifiedArrive PROVE UnifiedInv'
  OBVIOUS
<1>0. UnifiedTypeOK /\ UnifiedTypeOK'
  BY TypeArrive DEF UnifiedInv, RepliesRight
<1>1. PICK d \in Datagrams(Requests) :
           /\ d.body.id = Len(origin) + 1 /\ Len(origin) \in Nat
           /\ \A i \in DOMAIN sock : i \in DOMAIN sock' /\ sock'[i] = sock[i]
                                       /\ i < Len(sock) + 1 /\ i \in Nat
           /\ sock'[Len(sock) + 1] = d
           /\ \A i \in DOMAIN sock' : i \in DOMAIN sock \/ i = Len(sock) + 1
           /\ \A n \in DOMAIN origin : n \in DOMAIN origin' /\ origin'[n] = origin[n]
                                         /\ n < Len(origin) + 1
           /\ origin'[Len(origin) + 1] = d.from
           /\ Len(origin) + 1 \in DOMAIN origin'
  BY <1>0, ArriveElements
<1>2. /\ UNCHANGED <<wire, peer, rxData, txData, dSlot, dPc, unified, fd>>
      /\ Handling' = Handling
  BY DEF unifiedArrive, ringVars, dispVars, Handling
<1>3. HooksOpen'
  BY <1>2 DEF UnifiedInv, HooksOpen
<1>4. RepliesRight'
  <2>1. ReplyToRequester'
    BY <1>1, <1>2 DEF UnifiedInv, RepliesRight, ReplyToRequester, SentBefore
  <2> QED
    BY <1>0, <1>2, <2>1 DEF UnifiedInv, RepliesRight, RepliesInArrivalOrder
<1>5. \A i, j \in DOMAIN sock' : i < j => sock'[i].body.id < sock'[j].body.id
  <2> SUFFICES ASSUME NEW i \in DOMAIN sock', NEW j \in DOMAIN sock', i < j
               PROVE  sock'[i].body.id < sock'[j].body.id
    OBVIOUS
  <2>1. Len(sock) \in Nat
    BY <1>0, LenProperties DEF UnifiedTypeOK, XcvrTypeOK
  <2>2. i \in DOMAIN sock
    BY <1>1, <2>1
  <2>3. CASE j \in DOMAIN sock
    BY <1>1, <2>2, <2>3 DEF UnifiedInv, QueueInOrder
  <2>4. CASE j = Len(sock) + 1
    BY <1>1, <2>2, <2>4 DEF UnifiedInv, QueueInOrder
  <2> QED
    BY <1>1, <2>3, <2>4
<1>6. QueueInOrder'
  <2>1. \A i \in DOMAIN sock' : /\ sock'[i].body.id \in DOMAIN origin'
                                /\ origin'[sock'[i].body.id] = sock'[i].from
    BY <1>1 DEF UnifiedInv, QueueInOrder
  <2>2. Handling' =>
          /\ rxData'[dSlot'] \in Requests
          /\ rxData'[dSlot'].id \in DOMAIN origin'
          /\ origin'[rxData'[dSlot'].id] = peer'
          /\ \A i \in DOMAIN sock' : rxData'[dSlot'].id < sock'[i].body.id
    BY <1>1, <1>2 DEF UnifiedInv, QueueInOrder
  <2> QED
    BY <1>2, <1>5, <2>1, <2>2 DEF UnifiedInv, QueueInOrder
<1>7. SentBefore'
  BY <1>1, <1>2 DEF UnifiedInv, SentBefore
<1> QED
  BY <1>3, <1>4, <1>6, <1>7 DEF UnifiedInv

LEMMA OrderOwner == UnifiedInv /\ unifiedOwner => UnifiedInv'
<1> SUFFICES ASSUME UnifiedInv, unifiedOwner PROVE UnifiedInv'
  OBVIOUS
<1>1. UNCHANGED <<origin, wire, peer, rxData, txData, dSlot, dPc, unified>>
  BY DEF unifiedOwner, start, close, closeSocket, raiseShutdown, xcvrVars, ringVars,
      dispVars
<1>2. sock' = sock \/ DOMAIN sock' = {}
  BY DEF unifiedOwner, start, close, closeSocket, raiseShutdown, xcvrVars
<1>3. HooksOpen'
  <2>1. dPc # "exit" => fd' = fd
    BY DEF unifiedOwner, start, raiseShutdown, xcvrVars
  <2> QED
    BY <1>1, <2>1 DEF UnifiedInv, HooksOpen
<1>4. UnifiedTypeOK'
  BY TypeOwner DEF UnifiedInv, RepliesRight
<1> QED
  BY <1>1, <1>2, <1>3, <1>4, OrderFrame DEF Handling

LEMMA OrderPoll == UnifiedInv /\ unifiedPoll => UnifiedInv'
<1> SUFFICES ASSUME UnifiedInv, unifiedPoll PROVE UnifiedInv'
  OBVIOUS
<1>0. UnifiedTypeOK /\ UnifiedTypeOK'
  BY TypeLoop DEF UnifiedInv, RepliesRight, unifiedLoop
<1>1. /\ 1 \in DOMAIN sock /\ Head(sock) = sock[1] /\ Head(sock).body \in Requests
      /\ \A i \in DOMAIN sock' :
               /\ i + 1 \in DOMAIN sock /\ 1 < i + 1 /\ i \in Nat
               /\ sock'[i] = sock[i + 1]
  BY <1>0, PollElements DEF unifiedPoll, rxPollTake
<1>2. /\ UNCHANGED <<origin, wire, txData, unified, fd>>
      /\ peer' = sock[1].from /\ rxData'[dSlot'] = sock[1].body
      /\ dPc' = "header" /\ dPc = "poll" /\ Handling'
  BY <1>0, <1>1 DEF unifiedPoll, rxPollTake, UnifiedTypeOK, RingTypeOK, XcvrTypeOK,
      Handling
<1>3. RepliesRight' /\ HooksOpen'
  BY <1>0, <1>2 DEF UnifiedInv, RepliesRight, ReplyToRequester,
      RepliesInArrivalOrder, HooksOpen
<1>4. QueueInOrder'
  <2>1. \A i, j \in DOMAIN sock' : i < j => sock'[i].body.id < sock'[j].body.id
    BY <1>1 DEF UnifiedInv, QueueInOrder
  <2>2. \A i \in DOMAIN sock' : sock[1].body.id < sock'[i].body.id
    BY <1>1 DEF UnifiedInv, QueueInOrder
  <2>3. \A i \in DOMAIN sock' : /\ sock'[i].body.id \in DOMAIN origin
                                /\ origin[sock'[i].body.id] = sock'[i].from
    BY <1>1 DEF UnifiedInv, QueueInOrder
  <2>4. sock[1].body.id \in DOMAIN origin /\ origin[sock[1].body.id] = sock[1].from
    BY <1>1 DEF UnifiedInv, QueueInOrder
  <2> QED
    BY <1>1, <1>2, <2>1, <2>2, <2>3, <2>4 DEF QueueInOrder
<1>5. SentBefore'
  BY <1>1, <1>2 DEF UnifiedInv, SentBefore
<1> QED
  BY <1>3, <1>4, <1>5 DEF UnifiedInv

LEMMA OrderPollOversize == UnifiedInv /\ unifiedPollOversize => UnifiedInv'
<1> SUFFICES ASSUME UnifiedInv, unifiedPollOversize PROVE UnifiedInv'
  OBVIOUS
<1>0. UnifiedTypeOK /\ UnifiedTypeOK'
  BY TypeLoop DEF UnifiedInv, RepliesRight, unifiedLoop
<1>1. \A i \in DOMAIN sock' : /\ i + 1 \in DOMAIN sock /\ i \in Nat
                              /\ sock'[i] = sock[i + 1]
  BY <1>0, PollElements DEF unifiedPollOversize, rxPollOversize
<1>2. /\ UNCHANGED <<origin, wire, txData, unified, fd, dPc>>
      /\ dPc = "poll" /\ ~Handling'
  BY DEF unifiedPollOversize, rxPollOversize, dispVars, Handling
<1>3. RepliesRight' /\ HooksOpen'
  BY <1>0, <1>2 DEF UnifiedInv, RepliesRight, ReplyToRequester,
      RepliesInArrivalOrder, HooksOpen
<1>4. QueueInOrder'
  BY <1>1, <1>2 DEF UnifiedInv, QueueInOrder
<1>5. SentBefore'
  BY <1>1, <1>2 DEF UnifiedInv, SentBefore
<1> QED
  BY <1>3, <1>4, <1>5 DEF UnifiedInv

LEMMA OrderInvoke ==
  UnifiedInv /\ invokeHostCall /\ UNCHANGED <<xcvrVars, origin, refused>> => UnifiedInv'
<1> SUFFICES ASSUME UnifiedInv, invokeHostCall, UNCHANGED <<xcvrVars, origin, refused>>
             PROVE  UnifiedInv'
  OBVIOUS
<1>0. UnifiedTypeOK /\ UnifiedTypeOK'
  BY TypeLoop DEF UnifiedInv, RepliesRight, unifiedLoop, unifiedCore
<1>1. /\ UNCHANGED <<origin, wire, sock, peer, unified, fd, rxData, dSlot>>
      /\ dPc = "invoke" /\ Handling
  BY DEF invokeHostCall, xcvrVars, Handling
<1>2. dPc' \in {"publish", "retire"}
  BY DEF invokeHostCall, Retire
<1>3. dPc' = "publish" => txData'[dSlot] = Reply(rxData[dSlot])
  BY <1>0 DEF invokeHostCall, Retire, UnifiedTypeOK, RingTypeOK, DispTypeOK
<1>4. RepliesRight' /\ HooksOpen'
  BY <1>0, <1>1 DEF UnifiedInv, RepliesRight, ReplyToRequester,
      RepliesInArrivalOrder, HooksOpen
<1>5. QueueInOrder' /\ SentBefore'
  BY <1>1, <1>3 DEF UnifiedInv, QueueInOrder, SentBefore
<1> QED
  BY <1>4, <1>5 DEF UnifiedInv

(* A reply is sent.                                                        *)
LEMMA OrderSent ==
  ASSUME UnifiedInv, unifiedSend, txPublish(dSlot, TRUE) PROVE UnifiedInv'
<1>0. UnifiedTypeOK /\ UnifiedTypeOK'
  BY TypeLoop DEF UnifiedInv, RepliesRight, unifiedLoop
<1>1. /\ dPc = "publish" /\ Handling /\ dPc' = "retire" /\ ~Handling'
      /\ UNCHANGED <<origin, sock, peer, unified, fd, rxData, txData, dSlot>>
  BY DEF unifiedSend, txPublish, Retire, Handling, ringVars
<1> DEFINE r == rxData[dSlot]
           m == [to |-> peer, body |-> txData[dSlot]]
<1>2. /\ r \in Requests /\ r.id \in DOMAIN origin /\ origin[r.id] = peer
      /\ m.body = Reply(r) /\ m.body \in Replies /\ m.body.id = r.id /\ m.to = peer
  BY <1>1 DEF UnifiedInv, QueueInOrder, Reply, Replies, Requests
<1>3. /\ wire \in Seq(Sent(Replies)) /\ peer # NoPeer
      /\ wire' = Append(wire, m) /\ m \in Sent(Replies)
  <2>1. peer \in Addresses
    BY <1>0, <1>2, Positions DEF UnifiedTypeOK
  <2>2. peer # NoPeer
    BY <2>1, NoPeerAssumption
  <2>3. wire' = Append(wire, m)
    BY <1>1, <2>2 DEF unifiedSend, txPublish, Ship, UnifiedInv, HooksOpen
  <2> QED
    BY <1>0, <1>2, <2>1, <2>2, <2>3 DEF UnifiedTypeOK, XcvrTypeOK, Sent
<1> HIDE DEF m, r
<1>4. /\ \A i \in DOMAIN wire : wire'[i] = wire[i] /\ i \in Nat
      /\ wire'[Len(wire) + 1] = m /\ Len(wire) \in Nat
      /\ \A i \in DOMAIN wire' : i \in DOMAIN wire \/ i = Len(wire) + 1
      /\ \A i \in DOMAIN wire : i < Len(wire) + 1
  BY <1>3, AppendElements, LenProperties
<1>5. \A i \in DOMAIN wire : wire[i].body.id < r.id
  BY <1>1 DEF UnifiedInv, SentBefore, r
<1>6. ReplyToRequester'
  BY <1>1, <1>2, <1>4 DEF UnifiedInv, RepliesRight, ReplyToRequester
<1>7. RepliesInArrivalOrder'
  BY <1>2, <1>4, <1>5 DEF UnifiedInv, RepliesRight, RepliesInArrivalOrder
<1>8. SentBefore'
  <2>1. \A j \in DOMAIN sock : r.id < sock[j].body.id
    BY <1>1 DEF UnifiedInv, QueueInOrder, r
  <2> QED
    BY <1>1, <1>2, <1>4, <2>1 DEF UnifiedInv, SentBefore
<1>9. HooksOpen' /\ QueueInOrder'
  BY <1>1 DEF UnifiedInv, HooksOpen, QueueInOrder
<1> QED
  BY <1>0, <1>6, <1>7, <1>8, <1>9 DEF UnifiedInv, RepliesRight

LEMMA OrderSend == UnifiedInv /\ unifiedSend => UnifiedInv'
<1> SUFFICES ASSUME UnifiedInv, unifiedSend PROVE UnifiedInv'
  OBVIOUS
<1>1. CASE txPublish(dSlot, TRUE)
  BY <1>1, OrderSent
<1>2. CASE txPublish(dSlot, FALSE)
  <2>1. UnifiedTypeOK'
    BY TypeLoop DEF UnifiedInv, RepliesRight, unifiedLoop
  <2>2. /\ UNCHANGED <<origin, wire, peer, rxData, txData, dSlot, sock, unified, fd>>
        /\ dPc = "publish" /\ dPc' = "retire" /\ ~Handling'
    BY <1>2 DEF unifiedSend, txPublish, Retire, Handling, ringVars
  <2>3. HooksOpen'
    BY <2>2 DEF UnifiedInv, HooksOpen
  <2> QED
    BY <2>1, <2>2, <2>3, OrderFrame
<1> QED
  BY <1>1, <1>2 DEF unifiedSend

LEMMA OrderNext == UnifiedInv /\ [UnifiedNext]_unifiedVars => UnifiedInv'
<1> SUFFICES ASSUME UnifiedInv, [UnifiedNext]_unifiedVars PROVE UnifiedInv'
  OBVIOUS
<1>1. CASE unifiedArrive
  BY <1>1, OrderArrive
<1>2. CASE unifiedOwner
  BY <1>2, OrderOwner
<1>3. CASE unifiedPoll \/ unifiedPollOversize \/ unifiedSend
  BY <1>3, OrderPoll, OrderPollOversize, OrderSend
<1>4. CASE invokeHostCall /\ UNCHANGED <<xcvrVars, origin, refused>>
  BY <1>4, OrderInvoke
<1>5. CASE \/ (checkHeader \/ exitLoop) /\ UNCHANGED <<xcvrVars, origin, refused>>
           \/ unifiedRetire
  <2>1. UnifiedTypeOK'
    BY <1>5, TypeLoop DEF UnifiedInv, RepliesRight, unifiedLoop, unifiedCore
  <2>2. UNCHANGED <<origin, wire, peer, rxData, txData, dSlot, sock, unified, fd>>
    BY <1>5 DEF checkHeader, exitLoop, unifiedRetire, xcvrVars, ringVars
  <2>3. /\ Handling' => Handling /\ (dPc' = "publish" => dPc = "publish")
        /\ dPc' # "exit" => dPc # "exit"
        /\ dPc' = "publish" => dPc = "publish"
    BY <1>5 DEF checkHeader, exitLoop, unifiedRetire, Retire, Handling
  <2>4. HooksOpen'
    BY <2>2, <2>3 DEF UnifiedInv, HooksOpen
  <2> QED
    BY <2>1, <2>2, <2>3, <2>4, OrderFrame
<1>6. CASE UNCHANGED unifiedVars
  <2>1. UnifiedTypeOK'
    BY <1>6 DEF unifiedVars, xcvrVars, ringVars, rxVars, txVars, dispVars, UnifiedInv,
        RepliesRight, UnifiedTypeOK, RingTypeOK, XcvrTypeOK, DispTypeOK
  <2>2. UNCHANGED <<origin, wire, peer, rxData, txData, dSlot, dPc, sock, unified, fd>>
    BY <1>6 DEF unifiedVars, xcvrVars, ringVars, dispVars
  <2> QED
    BY <2>1, <2>2, OrderFrame DEF UnifiedInv, HooksOpen, Handling
<1> QED
  BY <1>1, <1>2, <1>3, <1>4, <1>5, <1>6 DEF UnifiedNext, unifiedLoop, unifiedCore

(* The inductive invariant of the single-threaded service.                 *)
THEOREM UnifiedInvariant == UnifiedSpec => []UnifiedInv
<1>1. UnifiedInit => UnifiedInv
  BY OrderInit
<1>2. UnifiedInv /\ [UnifiedNext]_unifiedVars => UnifiedInv'
  BY OrderNext
<1> QED
  BY <1>1, <1>2, PTL DEF UnifiedSpec

(* Every reply goes to the client that sent its request, in the order of   *)
(* arrival and once, for any number of clients: the one thread makes       *)
(* peer_addr, which only remembers the latest sender, safe.                *)
THEOREM UnifiedRepliesRight == UnifiedSpec => []RepliesRight
<1>1. UnifiedInv => RepliesRight
  BY DEF UnifiedInv
<1> QED
  BY <1>1, UnifiedInvariant, PTL

-----------------------------------------------------------------------------
(* UdpUnifiedService: the refinement of RpcServer.                         *)

LEMMA RefinesInit == UnifiedInit => Abstract!Init
<1> SUFFICES ASSUME UnifiedInit PROVE Abstract!Init
  OBVIOUS
<1>1. origin = << >> /\ sock = << >> /\ wire = << >> /\ dPc = "poll"
  BY DEF UnifiedInit, XcvrInit, DispInit
<1>2. Accepted = 0 /\ Pending = {} /\ Ready = {} /\ SentReplies = << >>
  BY <1>1 DEF Accepted, Pending, Ready, SentReplies
<1> QED
  BY <1>2 DEF Abstract!Init

(* What makes no request pending and no reply ready, and sends nothing.    *)
LEMMA RefinesDiscard ==
  ASSUME UNCHANGED <<origin, wire, Ready>>,
         \A i \in DOMAIN sock' : sock'[i].body \in Pending,
         dPc' \in {"header", "invoke"} => rxData'[dSlot'] \in Pending
  PROVE  Abstract!Next
<1>1. Pending' \subseteq Pending
  <2>1. Pending' = {sock'[i].body : i \in DOMAIN sock'}
           \cup (IF dPc' \in {"header", "invoke"} THEN {rxData'[dSlot']} ELSE {})
    BY DEF Pending
  <2> QED
    BY <2>1
<1>2. Accepted' = Accepted /\ SentReplies' = SentReplies
  BY DEF Accepted, SentReplies
<1> QED
  BY <1>1, <1>2 DEF Abstract!Next, Abstract!Discard

LEMMA RefinesArrive == UnifiedTypeOK /\ unifiedArrive => Abstract!Next
<1> SUFFICES ASSUME UnifiedTypeOK, unifiedArrive PROVE Abstract!Accept
  BY DEF Abstract!Next
<1>1. PICK d \in Datagrams(Requests) :
           /\ d.body.id = Len(origin) + 1
           /\ \A i \in DOMAIN sock : i \in DOMAIN sock' /\ sock'[i] = sock[i]
           /\ sock'[Len(sock) + 1] = d /\ Len(sock) + 1 \in DOMAIN sock'
           /\ \A i \in DOMAIN sock' : i \in DOMAIN sock \/ i = Len(sock) + 1
           /\ Len(origin') = Len(origin) + 1
  BY ArriveElements
<1>2. UNCHANGED <<wire, rxData, txData, dSlot, dPc>>
  BY DEF unifiedArrive, ringVars, dispVars
<1>3. {sock'[i].body : i \in DOMAIN sock'}
         = {sock[i].body : i \in DOMAIN sock} \cup {d.body}
  BY <1>1
<1>4. Pending' = Pending \cup {d.body}
  <2>1. Pending' = {sock'[i].body : i \in DOMAIN sock'}
           \cup (IF dPc \in {"header", "invoke"} THEN {rxData[dSlot]} ELSE {})
    BY <1>2 DEF Pending
  <2> QED
    BY <1>3, <2>1 DEF Pending
<1>5. Ready' = Ready /\ SentReplies' = SentReplies /\ Accepted' = Accepted + 1
  BY <1>1, <1>2 DEF Ready, SentReplies, Accepted
<1> QED
  BY <1>1, <1>4, <1>5 DEF Abstract!Accept, Accepted

LEMMA RefinesInvoke ==
  UnifiedInv /\ invokeHostCall /\ UNCHANGED <<xcvrVars, origin, refused>> => Abstract!Next
<1> SUFFICES ASSUME UnifiedInv, invokeHostCall, UNCHANGED <<xcvrVars, origin, refused>>
             PROVE  Abstract!Next
  OBVIOUS
<1> DEFINE r == rxData[dSlot]
<1>1. /\ UNCHANGED <<origin, wire, sock, rxData, dSlot>> /\ dPc = "invoke"
      /\ dSlot \in Slots /\ txData \in [Slots -> Replies \cup {Zero}]
  BY DEF invokeHostCall, xcvrVars, UnifiedInv, RepliesRight, UnifiedTypeOK, DispTypeOK,
      RingTypeOK
<1>2. CASE r.fn \in NullHandlers
  <2>1. dPc' = "retire"
    BY <1>2 DEF invokeHostCall, Retire
  <2>2. Ready' = Ready
    BY <1>1, <2>1 DEF Ready
  <2>3. \A i \in DOMAIN sock' : sock'[i].body \in Pending
    BY <1>1 DEF Pending
  <2> QED
    BY <1>1, <2>1, <2>2, <2>3, RefinesDiscard
<1>3. CASE r.fn \notin NullHandlers
  <2>1. dPc' = "publish" /\ txData' = [txData EXCEPT ![dSlot] = Reply(r)]
    BY <1>3 DEF invokeHostCall
  <2>2. /\ r \in Requests /\ r.id \in Nat
        /\ \A i \in DOMAIN sock : r.id < sock[i].body.id /\ sock[i].body.id \in Nat
    BY <1>1, IdsAreNumbers
    DEF UnifiedInv, RepliesRight, QueueInOrder, Handling, Requests
  <2> HIDE DEF r
  <2>3. Pending = {sock[i].body : i \in DOMAIN sock} \cup {r}
    BY <1>1 DEF Pending, r
  <2>4. Pending' = {sock[i].body : i \in DOMAIN sock}
    BY <1>1, <2>1 DEF Pending
  <2>5. \A i \in DOMAIN sock : sock[i].body # r
    BY <2>2
  <2>6. Pending' = Pending \ {r} /\ r \in Pending
    BY <2>3, <2>4, <2>5
  <2>7. \A q \in Pending : r.id <= q.id
    BY <2>2, <2>3
  <2>8. Ready = {} /\ Ready' = {Reply(r)}
    BY <1>1, <2>1 DEF Ready
  <2>9. SentReplies' = SentReplies /\ Accepted' = Accepted
    BY <1>1 DEF SentReplies, Accepted
  <2>10. Abstract!Serve
    BY <2>6, <2>7, <2>8, <2>9 DEF Abstract!Serve
  <2> QED
    BY <2>10 DEF Abstract!Next
<1> QED
  BY <1>2, <1>3

LEMMA RefinesSend == UnifiedInv /\ unifiedSend => Abstract!Next
<1> SUFFICES ASSUME UnifiedInv, unifiedSend PROVE Abstract!Next
  OBVIOUS
<1> DEFINE m == [to |-> peer, body |-> txData[dSlot]]
<1>1. /\ dPc = "publish" /\ dPc' = "retire"
      /\ UNCHANGED <<origin, sock, rxData, txData, dSlot>>
  BY DEF unifiedSend, txPublish, Retire, ringVars
<1>2. /\ UnifiedTypeOK /\ origin[rxData[dSlot].id] = peer
      /\ rxData[dSlot].id \in DOMAIN origin
      /\ txData[dSlot] = Reply(rxData[dSlot]) /\ rxData[dSlot] \in Requests
  BY <1>1 DEF UnifiedInv, RepliesRight, QueueInOrder, Handling
<1>3. peer \in Addresses /\ peer # NoPeer
  BY <1>2, Positions, NoPeerAssumption DEF UnifiedTypeOK
<1>4. txData[dSlot] \in Replies
  BY <1>2 DEF Reply, Replies, Requests
<1>5. /\ wire \in Seq(Sent(Replies)) /\ m \in Sent(Replies)
      /\ \A x \in Sent(Replies) : x.body \in Replies \cup {Zero}
      /\ m.body = txData[dSlot]
  BY <1>2, <1>3, <1>4 DEF UnifiedTypeOK, XcvrTypeOK, Sent
<1>6. wire' \in {wire, Append(wire, m)}
  BY <1>1, <1>3 DEF unifiedSend, txPublish, Ship, UnifiedInv, HooksOpen
<1> HIDE DEF m
<1>7. SentReplies' \in {SentReplies, Append(SentReplies, txData[dSlot])}
  BY <1>5, <1>6, BodiesOfAppend DEF SentReplies
<1>8. Ready = {txData[dSlot]} /\ Ready' = {}
  BY <1>1 DEF Ready
<1>9. Pending' = Pending /\ Accepted' = Accepted
  BY <1>1 DEF Pending, Accepted
<1>10. Abstract!Send \/ Abstract!Lose
  BY <1>7, <1>8, <1>9 DEF Abstract!Send, Abstract!Lose
<1> QED
  BY <1>10 DEF Abstract!Next

LEMMA RefinesNext ==
  UnifiedInv /\ [UnifiedNext]_unifiedVars => [Abstract!Next]_<<Accepted, Pending, Ready, SentReplies>>
<1> SUFFICES ASSUME UnifiedInv, [UnifiedNext]_unifiedVars
             PROVE  [Abstract!Next]_<<Accepted, Pending, Ready, SentReplies>>
  OBVIOUS
<1>0. UnifiedTypeOK
  BY DEF UnifiedInv, RepliesRight
<1>1. CASE unifiedArrive
  BY <1>0, <1>1, RefinesArrive
<1>2. CASE unifiedOwner
  <2>1. UNCHANGED <<origin, wire, rxData, txData, dSlot, dPc>>
    BY <1>2 DEF unifiedOwner, start, close, closeSocket, raiseShutdown, xcvrVars,
        ringVars, dispVars
  <2>2. sock' = sock \/ DOMAIN sock' = {}
    BY <1>2 DEF unifiedOwner, start, close, closeSocket, raiseShutdown, xcvrVars
  <2>3. /\ \A i \in DOMAIN sock' : sock'[i].body \in Pending
        /\ dPc' \in {"header", "invoke"} => rxData'[dSlot'] \in Pending
    BY <2>1, <2>2 DEF Pending
  <2>4. Ready' = Ready
    BY <2>1 DEF Ready
  <2> QED
    BY <2>1, <2>3, <2>4, RefinesDiscard
<1>3. CASE unifiedPoll
  <2>1. /\ 1 \in DOMAIN sock /\ Head(sock) = sock[1]
        /\ \A i \in DOMAIN sock' : i + 1 \in DOMAIN sock /\ sock'[i] = sock[i + 1]
    BY <1>0, <1>3, PollElements DEF unifiedPoll, rxPollTake
  <2>2. /\ UNCHANGED <<origin, wire>> /\ dPc = "poll" /\ dPc' = "header"
        /\ rxData'[dSlot'] = sock[1].body
    BY <1>0, <1>3, <2>1 DEF unifiedPoll, rxPollTake, UnifiedTypeOK, RingTypeOK, XcvrTypeOK
  <2>3. /\ \A i \in DOMAIN sock' : sock'[i].body \in Pending
        /\ rxData'[dSlot'] \in Pending
    BY <2>1, <2>2 DEF Pending
  <2>4. Ready' = Ready
    BY <2>2 DEF Ready
  <2> QED
    BY <2>2, <2>3, <2>4, RefinesDiscard
<1>4. CASE unifiedPollOversize
  <2>1. \A i \in DOMAIN sock' : i + 1 \in DOMAIN sock /\ sock'[i] = sock[i + 1]
    BY <1>0, <1>4, PollElements DEF unifiedPollOversize, rxPollOversize
  <2>2. UNCHANGED <<origin, wire, dPc>> /\ dPc = "poll"
    BY <1>4 DEF unifiedPollOversize, rxPollOversize, dispVars
  <2>3. \A i \in DOMAIN sock' : sock'[i].body \in Pending
    BY <2>1 DEF Pending
  <2>4. Ready' = Ready
    BY <2>2 DEF Ready
  <2> QED
    BY <2>2, <2>3, <2>4, RefinesDiscard
<1>5. CASE invokeHostCall /\ UNCHANGED <<xcvrVars, origin, refused>>
  BY <1>5, RefinesInvoke
<1>6. CASE unifiedSend
  BY <1>6, RefinesSend
<1>7. CASE \/ (checkHeader \/ exitLoop) /\ UNCHANGED <<xcvrVars, origin, refused>>
           \/ unifiedRetire
  <2>1. UNCHANGED <<origin, wire, sock, rxData, dSlot>>
    BY <1>7 DEF checkHeader, exitLoop, unifiedRetire, xcvrVars, ringVars
  <2>2. /\ dPc # "publish" /\ dPc' # "publish"
        /\ dPc' \in {"header", "invoke"} => dPc \in {"header", "invoke"}
    BY <1>7 DEF checkHeader, exitLoop, unifiedRetire, Retire
  <2>3. /\ \A i \in DOMAIN sock' : sock'[i].body \in Pending
        /\ dPc' \in {"header", "invoke"} => rxData'[dSlot'] \in Pending
    BY <2>1, <2>2 DEF Pending
  <2>4. Ready' = Ready
    BY <2>2 DEF Ready
  <2> QED
    BY <2>1, <2>3, <2>4, RefinesDiscard
<1>8. CASE UNCHANGED unifiedVars
  <2>1. UNCHANGED <<origin, wire, sock, rxData, txData, dSlot, dPc>>
    BY <1>8 DEF unifiedVars, xcvrVars, ringVars, dispVars
  <2> QED
    BY <2>1 DEF Accepted, Pending, Ready, SentReplies
<1> QED
  BY <1>1, <1>2, <1>3, <1>4, <1>5, <1>6, <1>7, <1>8
  DEF UnifiedNext, unifiedLoop, unifiedCore

(* The single thread implements RpcServer, as the three threads do: a      *)
(* daemon may choose either shape without its clients noticing.            *)
THEOREM UnifiedImplementsRpcServer == UnifiedSpec => ImplementsRpcServer
<1>1. UnifiedInit => Abstract!Init
  BY RefinesInit
<1>2. UnifiedInv /\ [UnifiedNext]_unifiedVars => [Abstract!Next]_<<Accepted, Pending, Ready, SentReplies>>
  BY RefinesNext
<1> QED
  BY <1>1, <1>2, UnifiedInvariant, PTL DEF UnifiedSpec, ImplementsRpcServer, Abstract!Spec

-----------------------------------------------------------------------------
(* RingSlotChannel: types, the callers' places and the pages, with faults  *)
(* or without.                                                             *)

Guarded == TypeOK /\ NoOverwrite /\ CallersPlaced /\ PagesFilled

LEMMA GuardedInit == Init => Guarded
<1> SUFFICES ASSUME Init PROVE Guarded
  OBVIOUS
<1>1. TypeOK
  <2>1. RingTypeOK(Replies, Requests)
    BY DEF Init, RingInit, RingTypeOK
  <2>2. /\ sock \in Seq(Datagrams(Replies)) /\ wire \in Seq(Sent(Requests))
        /\ published \in Seq(Nat) /\ Len(wire) = 0
    BY EmptySeq DEF Init, XcvrInit
  <2>3. 0 \in Slots /\ Service \in Addresses
    BY NumSlotsAssumption, ChannelAssumption DEF Slots
  <2>4. XcvrTypeOK(Replies, Requests)
    BY <2>2, <2>3 DEF Init, XcvrInit, XcvrTypeOK
  <2> QED
    BY <2>1, <2>2, <2>3, <2>4 DEF Init, TypeOK
<1>2. NoOverwrite /\ CallersPlaced
  BY ChannelAssumption DEF Init, RingInit, XcvrInit, NoOverwrite, CallersPlaced, Claimed,
      Inside
<1>3. PagesFilled
  BY NoPeerAssumption, ChannelAssumption DEF Init, RingInit, XcvrInit, PagesFilled
<1> QED
  BY <1>1, <1>2, <1>3 DEF Guarded

LEMMA GuardedAcquire ==
  ASSUME Guarded, NEW c \in Callers, acquireFrame(c) PROVE Guarded'
<1> USE DEF Guarded, TypeOK, CallersPlaced, PagesFilled, NoOverwrite, Claimed, Inside
<1>0. /\ requestIdCounter' \in Nat /\ request' \in [Callers -> Requests \cup {Zero}]
      /\ ff' \in [Callers -> BOOLEAN]
      /\ \A d \in Callers : d # c => request'[d] = request[d] /\ cPc'[d] = cPc[d]
      /\ \/ cPc'[c] = "leased" /\ request'[c] \in Requests
         \/ cPc'[c] = "idle"
  <2>1. CASE UNCHANGED <<request, ff, requestIdCounter, cPc>>
    BY <2>1 DEF acquireFrame
  <2>2. CASE ~UNCHANGED <<request, ff, requestIdCounter, cPc>>
    <3>1. PICK fn \in FunctionIds, b \in FireAndForget :
            /\ request' = [request EXCEPT ![c] =
                 [id |-> requestIdCounter, magic |-> TRUE, fn |-> fn]]
            /\ ff' = [ff EXCEPT ![c] = b]
            /\ requestIdCounter' = requestIdCounter + 1
            /\ Goto(c, "leased")
      BY <2>2 DEF acquireFrame
    <3>2. [id |-> requestIdCounter, magic |-> TRUE, fn |-> fn] \in Requests
      BY DEF Requests
    <3>3. b \in BOOLEAN
      BY ChannelAssumption
    <3> QED
      BY <3>1, <3>2, <3>3 DEF Goto
  <2> QED
    BY <2>1, <2>2
<1>1. TypeOK'
  <2>1. cPc' \in [Callers -> {"idle", "leased", "drain", "waitTx", "clearRx",
                            "write", "publish", "waitRx", "returned"}]
    BY DEF acquireFrame, Goto
  <2>2. status' \in [Callers -> {"none", "sent", "ok", "mismatch", "timeout",
                                "invalid"}]
    BY DEF acquireFrame, Goto
  <2> QED
    BY <1>0, <2>1, <2>2
    DEF acquireFrame, RingTypeOK, XcvrTypeOK, xcvrVars, rxVars, txVars, ringVars
<1>2. CallersPlaced'
  BY <1>0 DEF acquireFrame
<1>3. NoOverwrite' /\ PagesFilled'
  BY DEF acquireFrame, Goto, xcvrVars, rxVars, txVars, ringVars
<1> QED
  BY <1>1, <1>2, <1>3

LEMMA GuardedDispatch ==
  ASSUME Guarded, NEW c \in Callers, dispatchFrame(c) PROVE Guarded'
<1> USE DEF Guarded, TypeOK, CallersPlaced, PagesFilled, NoOverwrite, Claimed, Inside
<1>1. TypeOK'
  BY NextSlotType
  DEF dispatchFrame, RingTypeOK, XcvrTypeOK, Goto, xcvrVars, rxVars, txVars, ringVars
<1>2. CallersPlaced'
  BY ChannelAssumption DEF dispatchFrame, Goto
<1>3. NoOverwrite' /\ PagesFilled'
  BY DEF dispatchFrame, Goto, xcvrVars, rxVars, txVars, ringVars
<1> QED
  BY <1>1, <1>2, <1>3

LEMMA GuardedDrain ==
  ASSUME Guarded, NEW c \in Callers, drain(c) PROVE Guarded'
<1> USE DEF Guarded, TypeOK, CallersPlaced, PagesFilled, NoOverwrite, Claimed, Inside
<1>1. TypeOK'
  <2>1. rxFlag' \in [Slots -> BOOLEAN] /\ ffPending' \in [Slots -> BOOLEAN]
    BY DEF drain, RingTypeOK
  <2>2. cPc' \in [Callers -> {"idle", "leased", "drain", "waitTx", "clearRx",
                            "write", "publish", "waitRx", "returned"}]
    BY DEF drain, Goto
  <2> QED
    BY <2>1, <2>2 DEF drain, RingTypeOK, XcvrTypeOK, Goto, xcvrVars, rxVars, txVars, ringVars
<1>2. CallersPlaced' /\ NoOverwrite' /\ PagesFilled'
  BY DEF drain, Goto, xcvrVars, rxVars, txVars, ringVars
<1> QED
  BY <1>1, <1>2

LEMMA GuardedWaitTx ==
  ASSUME Guarded, NEW c \in Callers, waitTx(c) PROVE Guarded'
<1> USE DEF Guarded, TypeOK, CallersPlaced, PagesFilled, NoOverwrite, Claimed, Inside
<1>1. TypeOK'
  <2>1. /\ status' \in [Callers -> {"none", "sent", "ok", "mismatch", "timeout",
                                   "invalid"}]
        /\ cPc' \in [Callers -> {"idle", "leased", "drain", "waitTx", "clearRx",
                                "write", "publish", "waitRx", "returned"}]
        /\ mutex' \in Callers \cup {NoOne}
    BY DEF waitTx, Return, Goto
  <2> QED
    BY <2>1 DEF waitTx, RingTypeOK, XcvrTypeOK, xcvrVars, rxVars, txVars, ringVars
<1>2. CallersPlaced'
  BY ChannelAssumption DEF waitTx, Return, Goto
<1>3. NoOverwrite' /\ PagesFilled'
  BY DEF waitTx, Return, Goto, xcvrVars, rxVars, txVars, ringVars
<1> QED
  BY <1>1, <1>2, <1>3

LEMMA GuardedClearRx ==
  ASSUME Guarded, NEW c \in Callers, clearRx(c) PROVE Guarded'
<1> USE DEF Guarded, TypeOK, CallersPlaced, PagesFilled, NoOverwrite, Claimed, Inside
<1>1. TypeOK'
  BY DEF clearRx, RingTypeOK, XcvrTypeOK, Goto, xcvrVars, rxVars, txVars, ringVars
<1>2. CallersPlaced' /\ NoOverwrite' /\ PagesFilled'
  BY DEF clearRx, Goto, xcvrVars, rxVars, txVars, ringVars
<1> QED
  BY <1>1, <1>2

LEMMA GuardedWrite ==
  ASSUME Guarded, NEW c \in Callers, writeRequest(c) PROVE Guarded'
<1> USE DEF Guarded, TypeOK, CallersPlaced, PagesFilled, NoOverwrite, Claimed, Inside
<1>1. TypeOK'
  BY DEF writeRequest, RingTypeOK, XcvrTypeOK, Goto, xcvrVars, rxVars, txVars, ringVars
<1>2. CallersPlaced' /\ NoOverwrite'
  BY DEF writeRequest, Goto, xcvrVars, rxVars, txVars, ringVars
<1>3. PagesFilled'
  BY DEF writeRequest, Goto, RingTypeOK, xcvrVars, rxVars, txVars, ringVars
<1> QED
  BY <1>1, <1>2, <1>3

LEMMA GuardedPublish ==
  ASSUME Guarded, NEW c \in Callers, publishRequest(c) PROVE Guarded'
<1> USE DEF Guarded, TypeOK, CallersPlaced, PagesFilled, NoOverwrite, Claimed, Inside
<1>1. /\ request[c] \in Requests /\ request[c].id \in Nat
      /\ published' = Append(published, request[c].id)
  BY DEF publishRequest, Requests
<1>2. /\ published' \in Seq(Nat) /\ published' # << >>
      /\ published'[Len(published')] = request[c].id
  <2>1. /\ published' \in Seq(Nat) /\ Len(published') = Len(published) + 1
        /\ published'[Len(published) + 1] = request[c].id
    BY <1>1, AppendProperties
  <2>2. Len(published) \in Nat
    BY LenProperties
  <2> QED
    BY <2>1, <2>2, EmptySeq
<1>3. TypeOK'
  <2>1. /\ status' \in [Callers -> {"none", "sent", "ok", "mismatch", "timeout",
                                   "invalid"}]
        /\ cPc' \in [Callers -> {"idle", "leased", "drain", "waitTx", "clearRx",
                                "write", "publish", "waitRx", "returned"}]
        /\ mutex' \in Callers \cup {NoOne}
    BY DEF publishRequest, Return, Goto
  <2>2. ffPending' \in [Slots -> BOOLEAN]
    BY DEF publishRequest
  <2> QED
    BY <1>1, <1>2, <2>1, <2>2
    DEF publishRequest, RingTypeOK, XcvrTypeOK, xcvrVars, rxVars, txVars
<1>4. CallersPlaced'
  BY <1>1, <1>2, ChannelAssumption DEF publishRequest, Return, Goto
<1>5. NoOverwrite' /\ PagesFilled'
  <2>1. UNCHANGED <<txData, wire, peer, fd, running, rxPc, txPc, txCursor>>
    BY DEF publishRequest, xcvrVars, rxVars, txVars
  <2>2. /\ txFlag' = [txFlag EXCEPT ![slot[c]] = TRUE] /\ slot' = slot
        /\ request' = request /\ cPc' \in {[cPc EXCEPT ![c] = "returned"],
                                           [cPc EXCEPT ![c] = "waitRx"]}
    BY DEF publishRequest, Return, Goto
  <2>3. NoOverwrite'
    BY <2>1, <2>2 DEF publishRequest, RingTypeOK
  <2>4. PagesFilled'
    BY <2>1, <2>2 DEF publishRequest, RingTypeOK
  <2> QED
    BY <2>3, <2>4
<1> QED
  BY <1>3, <1>4, <1>5

LEMMA GuardedWaitRx ==
  ASSUME Guarded, NEW c \in Callers, waitRx(c) PROVE Guarded'
<1> USE DEF Guarded, TypeOK, CallersPlaced, PagesFilled, NoOverwrite, Claimed, Inside
<1>1. TypeOK'
  <2>1. /\ status' \in [Callers -> {"none", "sent", "ok", "mismatch", "timeout",
                                   "invalid"}]
        /\ cPc' \in [Callers -> {"idle", "leased", "drain", "waitTx", "clearRx",
                                "write", "publish", "waitRx", "returned"}]
        /\ mutex' \in Callers \cup {NoOne}
    BY DEF waitRx, Return, Goto
  <2>2. rxFlag' \in [Slots -> BOOLEAN]
    BY DEF waitRx, RingTypeOK
  <2> QED
    BY <2>1, <2>2 DEF waitRx, RingTypeOK, XcvrTypeOK, xcvrVars, rxVars, txVars
<1>2. CallersPlaced'
  BY ChannelAssumption DEF waitRx, Return, Goto
<1>3. NoOverwrite' /\ PagesFilled'
  BY DEF waitRx, Return, Goto, xcvrVars, rxVars, txVars
<1> QED
  BY <1>1, <1>2, <1>3

LEMMA GuardedRelease ==
  ASSUME Guarded, NEW c \in Callers, releaseFrame(c) PROVE Guarded'
<1> USE DEF Guarded, TypeOK, CallersPlaced, PagesFilled, NoOverwrite, Claimed, Inside
<1>1. TypeOK'
  BY DEF releaseFrame, RingTypeOK, XcvrTypeOK, Goto, xcvrVars, rxVars, txVars, ringVars
<1>2. CallersPlaced' /\ NoOverwrite' /\ PagesFilled'
  BY DEF releaseFrame, Goto, xcvrVars, rxVars, txVars, ringVars
<1> QED
  BY <1>1, <1>2

LEMMA GuardedRx ==
  ASSUME Guarded, rxLoop, UNCHANGED <<chanVars, served>> PROVE Guarded'
<1> USE DEF Guarded, chanVars, callVars, rxVars, rxVars1, txVars, ringVars
<1>1. TypeOK'
  <2> USE DEF TypeOK, RingTypeOK, XcvrTypeOK
  <2>1. CASE rxRecv
    <3>1. Head(sock) \in Datagrams(Replies) /\ Tail(sock) \in Seq(Datagrams(Replies))
      BY <2>1, HeadTailProperties DEF rxRecv
    <3> QED
      BY <2>1, <3>1 DEF rxRecv, Datagrams
  <2>2. CASE rxLoadRx \/ rxLoadTx \/ rxExit
    BY <2>2 DEF rxLoadRx, rxLoadTx, rxExit
  <2>3. CASE rxCopy
    BY <2>3 DEF rxCopy
  <2>4. CASE rxPublish
    BY <2>4, NextSlotType DEF rxPublish
  <2> QED
    BY <2>1, <2>2, <2>3, <2>4 DEF rxLoop
<1>2. UNCHANGED <<txFlag, txData, wire, txPc, txCursor>>
  BY DEF rxLoop, rxRecv, rxLoadRx, rxLoadTx, rxCopy, rxPublish, rxExit
<1>3. peer' # NoPeer
  <2>1. CASE rxRecv
    <3>1. Head(sock) \in Datagrams(Replies)
      BY <2>1, HeadTailProperties DEF rxRecv, TypeOK, XcvrTypeOK
    <3> QED
      BY <2>1, <3>1, NoPeerAssumption DEF rxRecv, Datagrams, PagesFilled
  <2>2. CASE ~rxRecv
    BY <2>2 DEF rxLoop, rxLoadRx, rxLoadTx, rxCopy, rxPublish, rxExit, PagesFilled
  <2> QED
    BY <2>1, <2>2
<1>4. (fd = "open" /\ ~running => rxPc = "off" /\ txPc = "off")'
  BY <1>2 DEF rxLoop, rxRecv, rxLoadRx, rxLoadTx, rxCopy, rxPublish, rxExit, PagesFilled
<1>5. NoOverwrite' /\ CallersPlaced' /\ PagesFilled'
  BY <1>2, <1>3, <1>4 DEF NoOverwrite, CallersPlaced, PagesFilled
<1> QED
  BY <1>1, <1>5

LEMMA GuardedTx ==
  ASSUME Guarded, txLoop, UNCHANGED <<chanVars, served>> PROVE Guarded'
<1> USE DEF Guarded, TypeOK, RingTypeOK, XcvrTypeOK, CallersPlaced, PagesFilled,
      NoOverwrite, chanVars, callVars, rxVars, txVars1, txVars, ringVars
<1>1. CASE txLoad
  BY <1>1 DEF txLoad
<1>2. CASE txSend
  <2> DEFINE m == [to |-> peer, body |-> txData[txCursor]]
  <2>1. m \in Sent(Requests) /\ m.body \in Requests /\ wire' = Append(wire, m)
    BY <1>2 DEF txSend, Ship, Sent
  <2> HIDE DEF m
  <2>2. /\ wire' \in Seq(Sent(Requests)) /\ Len(wire') = Len(wire) + 1
        /\ Len(wire) \in Nat
        /\ \A i \in DOMAIN wire' : wire'[i].body \in Requests
    BY <2>1, AppendProperties, AppendElements, LenProperties
  <2>3. served' \in 0 .. Len(wire')
    BY <2>2
  <2> QED
    BY <1>2, <2>2, <2>3 DEF txSend
<1>3. CASE txClear
  BY <1>3, NextSlotType DEF txClear
<1>4. CASE txExit
  BY <1>4 DEF txExit
<1> QED
  BY <1>1, <1>2, <1>3, <1>4 DEF txLoop

LEMMA GuardedServe == ASSUME Guarded, serve PROVE Guarded'
<1> USE DEF Guarded, chanVars, callVars, rxVars, txVars, ringVars
<1>1. served' \in 0 .. Len(wire) /\ wire' = wire
  <2>1. Len(wire) \in Nat
    BY LenProperties DEF TypeOK, XcvrTypeOK
  <2> QED
    BY <2>1 DEF serve, TypeOK
<1>2. sock' \in Seq(Datagrams(Replies))
  <2> DEFINE r == wire[served + 1].body
             d == [from |-> Service, body |-> Reply(r), fits |-> TRUE]
  <2>1. served + 1 \in DOMAIN wire
    BY LenProperties DEF serve, TypeOK, XcvrTypeOK
  <2>2. d \in Datagrams(Replies)
    BY <2>1, ChannelAssumption DEF PagesFilled, Reply, Replies, Requests, Datagrams
  <2>3. sock' = sock \/ sock' = Append(sock, d)
    BY DEF serve
  <2>4. sock \in Seq(Datagrams(Replies))
    BY DEF TypeOK, XcvrTypeOK
  <2> HIDE DEF d
  <2> QED
    BY <2>2, <2>3, <2>4, AppendProperties
<1>3. TypeOK'
  BY <1>1, <1>2 DEF serve, TypeOK, RingTypeOK, XcvrTypeOK
<1>4. NoOverwrite' /\ CallersPlaced' /\ PagesFilled'
  BY DEF serve, NoOverwrite, CallersPlaced, PagesFilled
<1> QED
  BY <1>3, <1>4

LEMMA GuardedLifecycle == ASSUME Guarded, Lifecycle PROVE Guarded'
<1> USE DEF Guarded, TypeOK, RingTypeOK, XcvrTypeOK, CallersPlaced, PagesFilled,
      NoOverwrite, Lifecycle, chanVars, callVars, rxVars, txVars, ringVars
<1>1. CASE start
  <2>1. rxPc' \in {"off", "recv"} /\ txPc' \in {"off", "load"}
    BY <1>1 DEF start
  <2> QED
    BY <1>1, <2>1 DEF start
<1>2. CASE close
  BY <1>2 DEF close
<1>3. CASE closeSocket
  <2>1. sock' \in Seq(Datagrams(Replies))
    BY <1>3, EmptySeq DEF closeSocket
  <2> QED
    BY <1>3, <2>1 DEF closeSocket
<1> QED
  BY <1>1, <1>2, <1>3

LEMMA GuardedNext == ASSUME Guarded, [Next]_vars PROVE Guarded'
<1>1. CASE UNCHANGED vars
  BY <1>1 DEF vars, chanVars, callVars, xcvrVars, rxVars, txVars, ringVars, Guarded,
      TypeOK, RingTypeOK, XcvrTypeOK, CallersPlaced, PagesFilled, NoOverwrite
<1>2. ASSUME NEW c \in Callers,
             acquireFrame(c) \/ dispatchFrame(c) \/ Dispatching(c) \/ releaseFrame(c)
      PROVE  Guarded'
  BY <1>2, GuardedAcquire, GuardedDispatch, GuardedDrain, GuardedWaitTx,
     GuardedClearRx, GuardedWrite, GuardedPublish, GuardedWaitRx, GuardedRelease
  DEF Dispatching
<1>3. CASE Transport
  BY <1>3, GuardedRx, GuardedTx DEF Transport
<1> QED
  BY <1>1, <1>2, <1>3, GuardedServe, GuardedLifecycle DEF Next

-----------------------------------------------------------------------------
(* RingSlotChannel: the requests on their way out, where no deadline       *)
(* passes.                                                                 *)

Sending == SendQueue /\ WireFollowsPublication

(* The steps of a caller that publish nothing.                             *)
Quiet(c) ==
    \/ acquireFrame(c) \/ dispatchFrame(c) \/ drain(c) \/ waitTx(c) \/ clearRx(c)
    \/ writeRequest(c) \/ waitRx(c) \/ releaseFrame(c)

LEMMA QuietKeeps ==
  ASSUME Guarded, ~env.faulty, NEW c \in Callers, Quiet(c)
  PROVE  /\ NextUse' = NextUse /\ env' = env
         /\ UNCHANGED <<published, served, wire, sock, txFlag, txPc, txCursor>>
         /\ UNCHANGED <<rxPc, rxBuf, rxNext, rxData>>
<1> USE DEF Guarded, TypeOK, CallersPlaced, NextUse, Claimed, Inside, Goto, Return,
      DeadlinePassed
<1>1. /\ env' = env
      /\ UNCHANGED <<published, served, wire, sock, txFlag, txPc, txCursor>>
      /\ UNCHANGED <<rxPc, rxBuf, rxNext, rxData>>
  BY DEF Quiet, acquireFrame, dispatchFrame, drain, waitTx, clearRx, writeRequest,
      waitRx, releaseFrame, xcvrVars, rxVars, txVars, ringVars
<1>2. NextUse' = NextUse
  <2>1. CASE acquireFrame(c)
    BY <2>1, ChannelAssumption DEF acquireFrame
  <2>2. CASE dispatchFrame(c)
    BY <2>2, ChannelAssumption DEF dispatchFrame
  <2>3. CASE drain(c)
    BY <2>3, ChannelAssumption DEF drain
  <2>4. CASE waitTx(c)
    BY <2>4, ChannelAssumption DEF waitTx
  <2>5. CASE clearRx(c)
    BY <2>5, ChannelAssumption DEF clearRx
  <2>6. CASE writeRequest(c)
    BY <2>6, ChannelAssumption DEF writeRequest
  <2>7. CASE waitRx(c)
    BY <2>7, ChannelAssumption DEF waitRx
  <2>8. CASE releaseFrame(c)
    BY <2>8, ChannelAssumption DEF releaseFrame
  <2> QED
    BY <2>1, <2>2, <2>3, <2>4, <2>5, <2>6, <2>7, <2>8 DEF Quiet
<1> QED
  BY <1>1, <1>2

(* A publication is at the slot its caller has claimed.                    *)
LEMMA PublishUses ==
  ASSUME Guarded, NEW c \in Callers, publishRequest(c)
  PROVE  /\ NextUse = slot[c] /\ NextUse' = NextSlot(slot[c]) /\ env' = env
         /\ mutex = c /\ slot[c] \in Slots
         /\ request[c] \in Requests /\ txData[slot[c]] = request[c]
         /\ UNCHANGED <<served, wire, sock, txPc, txCursor, txData>>
         /\ UNCHANGED <<rxPc, rxBuf, rxNext, rxData, rxFlag>>
         /\ published' = Append(published, request[c].id)
         /\ txFlag' = [txFlag EXCEPT ![slot[c]] = TRUE]
  BY ChannelAssumption
  DEF Guarded, TypeOK, CallersPlaced, PagesFilled, NextUse, Claimed, Inside, Goto, Return,
      publishRequest, xcvrVars, rxVars, txVars

(* Steps that neither publish nor ship.                                    *)
LEMMA SendFrame ==
  ASSUME Sending, UNCHANGED <<published, wire, NextToShip, NextUse>>,
         \A s \in Slots : Unsent(s)' = Unsent(s),
         \A s \in Slots : Unsent(s) => txData'[s] = txData[s]
  PROVE  Sending'
<1>1. Outstanding' = Outstanding
  BY DEF Outstanding
<1> QED
  BY <1>1 DEF Sending, SendQueue, WireFollowsPublication

LEMMA SendQuiet ==
  ASSUME Guarded, ~env.faulty, Sending, NEW c \in Callers, Quiet(c)
  PROVE  Sending'
<1>1. UNCHANGED <<published, wire, NextUse, txFlag, txPc, txCursor>>
  BY QuietKeeps
<1>2. NextToShip' = NextToShip /\ \A s \in Slots : Unsent(s)' = Unsent(s)
  BY <1>1 DEF NextToShip, Unsent
<1>3. \A s \in Slots : Unsent(s) => txData'[s] = txData[s]
  <2>1. CASE writeRequest(c)
    BY <2>1 DEF writeRequest, Unsent, Guarded, NoOverwrite, TypeOK, RingTypeOK
  <2>2. CASE ~writeRequest(c)
    BY <2>2 DEF Quiet, acquireFrame, dispatchFrame, drain, waitTx, clearRx, waitRx,
        releaseFrame, ringVars
  <2> QED
    BY <2>1, <2>2
<1> QED
  BY <1>1, <1>2, <1>3, SendFrame

LEMMA SendPublish ==
  ASSUME Guarded, Sending, NEW c \in Callers, publishRequest(c)
  PROVE  Sending'
<1> DEFINE h == slot[c]
           n == NextToShip
           o == Outstanding
<1>1. /\ h \in Slots /\ n \in Slots /\ txCursor \in Slots
      /\ published \in Seq(Nat) /\ Len(published) \in Nat /\ Len(wire) \in Nat
      /\ DOMAIN published = 1 .. Len(published) /\ DOMAIN wire = 1 .. Len(wire)
      /\ NumSlots \in Nat \ {0}
  <2>1. h \in Slots /\ txCursor \in Slots /\ published \in Seq(Nat)
        /\ wire \in Seq(Sent(Requests))
    BY DEF Guarded, TypeOK, XcvrTypeOK
  <2> QED
    BY <2>1, NextSlotType, LenProperties, NumSlotsAssumption DEF NextToShip
<1>2. /\ NextUse = h /\ NextUse' = NextSlot(h) /\ NextToShip' = n
      /\ UNCHANGED <<wire, txPc, txCursor, txData>>
      /\ published' = Append(published, request[c].id) /\ request[c].id \in Nat
      /\ txFlag' = [txFlag EXCEPT ![h] = TRUE] /\ txData[h].id = request[c].id
  BY PublishUses DEF NextToShip, Requests
<1>3. /\ Len(published') = Len(published) + 1 /\ DOMAIN published' = 1 .. Len(published')
      /\ \A i \in 1 .. Len(published) : published'[i] = published[i]
      /\ published'[Len(published) + 1] = request[c].id
  BY <1>1, <1>2, AppendProperties, LenProperties
<1>4. ~Unsent(h) /\ \A s \in Slots : Unsent(s)' <=> Unsent(s) \/ s = h
  BY <1>1, <1>2 DEF Unsent, publishRequest, Guarded, NoOverwrite, TypeOK, RingTypeOK
<1>5. /\ o \in 0 .. NumSlots /\ Stretch(n, h, o)
      /\ \A s \in Slots : Unsent(s) <=> Distance(n, s) < o
      /\ \A s \in Slots : Unsent(s) =>
            txData[s].id = published[Len(wire) + 1 + Distance(n, s)]
  BY <1>2 DEF Sending, SendQueue, Stretch
<1>6. o = Len(published) - Len(wire) /\ Outstanding' = o + 1
  BY <1>1, <1>2, <1>3 DEF Outstanding
<1>7. ~(Distance(n, h) < o)
  BY <1>1, <1>4, <1>5
<1>8. /\ o + 1 \in 0 .. NumSlots /\ Distance(n, h) = o
      /\ Stretch(n, NextSlot(h), o + 1)
      /\ \A s \in Slots : Distance(n, s) < o + 1 <=> Distance(n, s) < o \/ s = h
  <2> HIDE DEF h, n, o
  <2> QED
    BY <1>1, <1>5, <1>7, StretchGrows
<1>9. \A s \in Slots : Unsent(s)' =>
         txData[s].id = published'[Len(wire) + 1 + Distance(n, s)]
  <2> SUFFICES ASSUME NEW s \in Slots, Unsent(s)'
               PROVE  txData[s].id = published'[Len(wire) + 1 + Distance(n, s)]
    OBVIOUS
  <2> HIDE DEF h, n, o
  <2>1. CASE s = h
    <3>1. Len(wire) + 1 + Distance(n, s) = Len(published) + 1
      BY <1>1, <1>5, <1>6, <1>8, <2>1
    <3> QED
      BY <1>2, <1>3, <2>1, <3>1
  <2>2. CASE s # h
    <3>1. Unsent(s) /\ Distance(n, s) \in Nat /\ Distance(n, s) < o
      BY <1>1, <1>4, <1>5, <2>2, DistanceFacts
    <3>2. Len(wire) + 1 + Distance(n, s) \in 1 .. Len(published)
      BY <1>1, <1>5, <1>6, <3>1
    <3> QED
      BY <1>3, <1>5, <3>1, <3>2
  <2> QED
    BY <2>1, <2>2
<1>10. \A s \in Slots : Unsent(s)' <=> Distance(n, s) < o + 1
  BY <1>4, <1>5, <1>8
<1>11. SendQueue'
  <2>1. Distance(n, NextUse') = IF o + 1 = NumSlots THEN 0 ELSE o + 1
    BY <1>2, <1>8 DEF Stretch
  <2> QED
    BY <1>2, <1>6, <1>8, <1>9, <1>10, <2>1 DEF SendQueue
<1>12. WireFollowsPublication'
  BY <1>1, <1>2, <1>3 DEF Sending, WireFollowsPublication
<1> QED
  BY <1>11, <1>12 DEF Sending

LEMMA SendTx ==
  ASSUME Guarded, Sending, txLoop, UNCHANGED <<chanVars, served>>
  PROVE  Sending'
<1>0. /\ UNCHANGED <<published, txData, NextUse>>
      /\ txCursor \in Slots /\ NextUse \in Slots
      /\ Len(published) \in Nat /\ Len(wire) \in Nat /\ NumSlots \in Nat \ {0}
      /\ DOMAIN published = 1 .. Len(published) /\ DOMAIN wire = 1 .. Len(wire)
  <2>1. UNCHANGED <<published, txData, NextUse>>
    BY DEF txLoop, txLoad, txSend, txClear, txExit, ringVars, chanVars, callVars, NextUse
  <2>2. txCursor \in Slots /\ NextUse \in Slots
    BY DEF Guarded, TypeOK, XcvrTypeOK, NextUse
  <2>3. published \in Seq(Nat) /\ wire \in Seq(Sent(Requests))
    BY DEF Guarded, TypeOK, XcvrTypeOK
  <2> QED
    BY <2>1, <2>2, <2>3, LenProperties, NumSlotsAssumption
<1>1. CASE txSend
  <2> DEFINE h == txCursor
             m == [to |-> peer, body |-> txData[txCursor]]
             o == Outstanding
  <2>1. Unsent(h) /\ NextToShip = h /\ NextToShip' = NextSlot(h)
    BY <1>1 DEF Guarded, txSend, Unsent, PagesFilled, NextToShip
  <2>2. /\ wire \in Seq(Sent(Requests)) /\ m \in Sent(Requests)
        /\ wire' = Append(wire, m) /\ m.body = txData[h]
    BY <1>0, <1>1 DEF Guarded, TypeOK, XcvrTypeOK, RingTypeOK, PagesFilled, Sent, txSend,
        Ship
  <2> HIDE DEF m
  <2>3. /\ \A i \in DOMAIN wire : wire'[i] = wire[i]
        /\ wire'[Len(wire) + 1] = m /\ Len(wire') = Len(wire) + 1
        /\ \A i \in DOMAIN wire' : i \in DOMAIN wire \/ i = Len(wire) + 1
    BY <2>2, AppendElements, AppendProperties
  <2>4. \A s \in Slots : Unsent(s)' <=> Unsent(s) /\ s # h
    BY <1>1, <2>1 DEF txSend, Unsent, ringVars
  <2>5. /\ o \in 0 .. NumSlots /\ Stretch(h, NextUse, o)
        /\ \A s \in Slots : Unsent(s) <=> Distance(h, s) < o
        /\ \A s \in Slots : Unsent(s) =>
              txData[s].id = published[Len(wire) + 1 + Distance(h, s)]
    BY <2>1 DEF Sending, SendQueue, Stretch
  <2>6. o = Len(published) - Len(wire) /\ Outstanding' = o - 1
    BY <1>0, <2>3 DEF Outstanding
  <2>7. h \in Slots /\ Distance(h, h) = 0 /\ o \in 1 .. NumSlots
    <3>1. h \in Slots /\ Distance(h, h) = 0
      BY <1>0, DistanceFacts
    <3>2. 0 < o
      BY <2>1, <2>5, <3>1
    <3> QED
      BY <1>0, <2>5, <3>1, <3>2
  <2>8. /\ o - 1 \in 0 .. NumSlots /\ Stretch(NextSlot(h), NextUse, o - 1)
        /\ \A s \in Slots :
               /\ Distance(NextSlot(h), s) < o - 1 <=> Distance(h, s) < o /\ s # h
               /\ s # h => Distance(NextSlot(h), s) = Distance(h, s) - 1
               /\ Distance(h, s) \in Nat
    <3> HIDE DEF h, o
    <3> QED
      BY <1>0, <2>5, <2>7, StretchShrinks
  <2>9. txData[h].id = published[Len(wire) + 1] /\ Len(wire) + 1 \in DOMAIN published
    <3>1. txData[h].id = published[Len(wire) + 1 + 0]
      BY <2>1, <2>5, <2>7
    <3>2. Len(wire) + 1 \in DOMAIN published /\ Len(wire) + 1 + 0 = Len(wire) + 1
      BY <1>0, <2>6, <2>7
    <3> QED
      BY <3>1, <3>2
  <2>10. WireFollowsPublication'
    BY <1>0, <2>2, <2>3, <2>9 DEF Sending, WireFollowsPublication
  <2>11. \A s \in Slots : Unsent(s)' =>
            txData[s].id = published[Len(wire') + 1 + Distance(NextSlot(h), s)]
    <3> SUFFICES ASSUME NEW s \in Slots, Unsent(s)'
                 PROVE  txData[s].id
                          = published[Len(wire') + 1 + Distance(NextSlot(h), s)]
      OBVIOUS
    <3>1. Unsent(s) /\ s # h
      BY <2>4
    <3>2. /\ Distance(NextSlot(h), s) = Distance(h, s) - 1 /\ Distance(h, s) \in Nat
          /\ Len(wire') = Len(wire) + 1 /\ Len(wire) \in Nat
      BY <1>0, <2>3, <2>8, <3>1
    <3>3. Len(wire') + 1 + Distance(NextSlot(h), s) = Len(wire) + 1 + Distance(h, s)
      <4> HIDE DEF h
      <4> QED
        BY <3>2
    <3> QED
      BY <2>5, <3>1, <3>3
  <2>12. \A s \in Slots : Unsent(s)' <=> Distance(NextSlot(h), s) < o - 1
    BY <2>4, <2>5, <2>8
  <2>13. SendQueue'
    <3>1. Distance(NextSlot(h), NextUse) = IF o - 1 = NumSlots THEN 0 ELSE o - 1
      BY <2>8 DEF Stretch
    <3> QED
      BY <1>0, <2>1, <2>6, <2>8, <2>11, <2>12, <3>1 DEF SendQueue
  <2> QED
    BY <2>10, <2>13 DEF Sending
<1>2. CASE ~txSend
  <2>1. wire' = wire
    BY <1>2 DEF txLoop, txLoad, txClear, txExit
  <2>2. \A s \in Slots : Unsent(s)' = Unsent(s)
    BY <1>2 DEF txLoop, txLoad, txClear, txExit, Unsent, Guarded, TypeOK, RingTypeOK,
        XcvrTypeOK, PagesFilled, ringVars
  <2>3. NextToShip' = NextToShip
    BY <1>2 DEF txLoop, txLoad, txClear, txExit, NextToShip
  <2> QED
    BY <1>0, <2>1, <2>2, <2>3, SendFrame
<1> QED
  BY <1>1, <1>2

LEMMA SendOther ==
  ASSUME Guarded, Sending,
         (rxLoop /\ UNCHANGED <<chanVars, served>>) \/ serve \/ Lifecycle
  PROVE  Sending'
<1>1. /\ UNCHANGED <<published, wire, NextUse, txFlag, txCursor, txData>>
      /\ txPc = "clear" <=> txPc' = "clear"
  <2>1. CASE rxLoop /\ UNCHANGED <<chanVars, served>>
    BY <2>1 DEF rxLoop, rxRecv, rxLoadRx, rxLoadTx, rxCopy, rxPublish, rxExit, rxVars1,
        txVars, ringVars, chanVars, callVars, NextUse
  <2>2. CASE serve
    BY <2>2 DEF serve, txVars, ringVars, chanVars, callVars, NextUse
  <2>3. CASE Lifecycle
    <3>1. /\ UNCHANGED <<published, wire, NextUse, txFlag, txCursor, txData>>
      BY <2>3 DEF Lifecycle, start, close, closeSocket, txVars, ringVars, chanVars,
          callVars, NextUse
    <3>2. txPc = "clear" <=> txPc' = "clear"
      BY <2>3 DEF Lifecycle, start, close, closeSocket, txVars, Guarded, PagesFilled
    <3> QED
      BY <3>1, <3>2
  <2> QED
    BY <2>1, <2>2, <2>3
<1>2. NextToShip' = NextToShip /\ \A s \in Slots : Unsent(s)' = Unsent(s)
  BY <1>1 DEF NextToShip, Unsent
<1> QED
  BY <1>1, <1>2, SendFrame

-----------------------------------------------------------------------------
(* RingSlotChannel: the responses on their way in, where nothing is lost.  *)

Answering(m) == SlotCleared /\ Landed /\ Window(m) /\ InFlight(m)

(* What the steps below need of the types.                                 *)
LEMMA Ranges ==
  ASSUME Guarded
  PROVE  /\ NumSlots \in Nat \ {0} /\ rxNext \in Slots /\ NextUse \in Slots
         /\ rxFlag \in [Slots -> BOOLEAN] /\ slot \in [Callers -> Slots]
         /\ ffPending \in [Slots -> BOOLEAN]
         /\ published \in Seq(Nat) /\ sock \in Seq(Datagrams(Replies))
         /\ Len(published) \in Nat /\ Len(sock) \in Nat /\ Len(wire) \in Nat
         /\ DOMAIN published = 1 .. Len(published) /\ DOMAIN sock = 1 .. Len(sock)
         /\ DOMAIN wire = 1 .. Len(wire) /\ served \in 0 .. Len(wire)
         /\ Held \in {0, 1}
<1>1. /\ rxNext \in Slots /\ NextUse \in Slots
      /\ rxFlag \in [Slots -> BOOLEAN] /\ slot \in [Callers -> Slots]
      /\ ffPending \in [Slots -> BOOLEAN] /\ served \in 0 .. Len(wire)
  BY DEF Guarded, TypeOK, RingTypeOK, XcvrTypeOK, NextUse
<1>2. /\ published \in Seq(Nat) /\ sock \in Seq(Datagrams(Replies))
      /\ wire \in Seq(Sent(Requests))
  BY DEF Guarded, TypeOK, XcvrTypeOK
<1>3. Held \in {0, 1}
  BY DEF Held
<1> QED
  BY <1>1, <1>2, <1>3, LenProperties, NumSlotsAssumption

(* Steps that leave both ends of the window alone.                         *)
LEMMA WindowFrame ==
  ASSUME NEW m \in 0 .. NumSlots, Window(m), rxNext' = rxNext, NextUse' = NextUse,
         \A s \in Slots : (rxFlag'[s] <=> rxFlag[s]) /\ (Expected(s)' <=> Expected(s))
  PROVE  Window(m)'
  BY DEF Window

(* A response that was expected is taken: both ends stay.                  *)
LEMMA WindowTaken ==
  ASSUME NEW m \in 0 .. NumSlots, Window(m), rxNext' = rxNext, NextUse' = NextUse,
         NEW h \in Slots, rxFlag[h], ~rxFlag'[h], ~Expected(h)',
         \A s \in Slots \ {h} : (rxFlag'[s] <=> rxFlag[s]) /\ (Expected(s)' <=> Expected(s))
  PROVE  Window(m)'
<1>1. ~(Distance(rxNext, h) < m)
  BY DEF Window
<1> QED
  BY <1>1 DEF Window

LEMMA FlightFrame ==
  ASSUME NEW m \in 0 .. NumSlots, InFlight(m),
         UNCHANGED <<published, served, sock, rxBuf>>, InHand' = InHand
  PROVE  InFlight(m)'
  BY DEF InFlight, Held

(* A slot that nobody expects anything from is empty and outside.          *)
LEMMA UnexpectedEmpty ==
  ASSUME Guarded, NEW m \in 0 .. NumSlots, Window(m), NEW h \in Slots, ~Expected(h)
  PROVE  ~rxFlag[h] /\ ~(Distance(rxNext, h) < m)
  BY DEF Window

(* With a response in hand, rxLoop is at a slot that waits for it.         *)
LEMMA InHandWaits ==
  ASSUME Guarded, Sending, NEW m \in 0 .. NumSlots, Window(m), InFlight(m), InHand
  PROVE  m \in 1 .. NumSlots /\ ~rxFlag[rxNext] /\ Expected(rxNext)
<1>1. Len(wire) <= Len(published)
  BY Ranges DEF Sending, SendQueue, Outstanding
<1>2. m \in 1 .. NumSlots
  BY <1>1, Ranges DEF InFlight, Held
<1>3. Distance(rxNext, rxNext) = 0
  BY Ranges, DistanceFacts
<1>4. Distance(rxNext, rxNext) < m
  BY <1>2, <1>3
<1> QED
  BY <1>2, <1>4, Ranges DEF Window

(* The steps of a caller that publish nothing.                             *)
LEMMA AnswerQuiet ==
  ASSUME Guarded, ~env.faulty, NEW m \in 0 .. NumSlots, Answering(m),
         NEW c \in Callers, Quiet(c)
  PROVE  Answering(m)'
<1>0. /\ NextUse' = NextUse /\ UNCHANGED <<published, served, sock, rxPc, rxBuf, rxNext>>
      /\ rxData' = rxData
  BY QuietKeeps
<1>1. InFlight(m)'
  BY <1>0, FlightFrame DEF Answering, InHand
<1>2. SlotCleared'
  <2> USE DEF Answering, SlotCleared, Guarded, TypeOK, CallersPlaced, Claimed, Inside, Goto,
        Return
  <2>1. CASE acquireFrame(c)
    BY <2>1 DEF acquireFrame
  <2>2. CASE dispatchFrame(c)
    BY <2>2, ChannelAssumption DEF dispatchFrame
  <2>3. CASE drain(c)
    BY <2>3 DEF drain
  <2>4. CASE waitTx(c)
    BY <2>4 DEF waitTx
  <2>5. CASE clearRx(c)
    BY <2>5 DEF clearRx
  <2>6. CASE writeRequest(c)
    BY <2>6 DEF writeRequest
  <2>7. CASE waitRx(c)
    BY <2>7 DEF waitRx
  <2>8. CASE releaseFrame(c)
    BY <2>8 DEF releaseFrame
  <2> QED
    BY <2>1, <2>2, <2>3, <2>4, <2>5, <2>6, <2>7, <2>8 DEF Quiet
<1>3. Window(m)'
  <2> USE DEF Guarded, TypeOK, CallersPlaced, Claimed, Inside, Goto, Return, Expected,
        DeadlinePassed
  <2>1. CASE acquireFrame(c) \/ releaseFrame(c)
    <3>1. rxFlag' = rxFlag /\ \A s \in Slots : Expected(s)' = Expected(s)
      BY <2>1, ChannelAssumption DEF acquireFrame, releaseFrame, ringVars
    <3> QED
      BY <1>0, <3>1, WindowFrame DEF Answering
  <2>2. CASE dispatchFrame(c)
    <3>1. rxFlag' = rxFlag /\ \A s \in Slots : Expected(s)' = Expected(s)
      BY <2>2, ChannelAssumption DEF dispatchFrame, ringVars
    <3> QED
      BY <1>0, <3>1, WindowFrame DEF Answering
  <2>3. CASE waitTx(c)
    <3>1. rxFlag' = rxFlag /\ \A s \in Slots : Expected(s)' = Expected(s)
      BY <2>3, ChannelAssumption DEF waitTx, ringVars
    <3> QED
      BY <1>0, <3>1, WindowFrame DEF Answering
  <2>4. CASE writeRequest(c)
    <3>1. rxFlag' = rxFlag /\ \A s \in Slots : Expected(s)' = Expected(s)
      BY <2>4, ChannelAssumption DEF writeRequest
    <3> QED
      BY <1>0, <3>1, WindowFrame DEF Answering
  <2>5. CASE clearRx(c)
    <3>1. ~Expected(slot[c]) /\ \A s \in Slots : Expected(s)' = Expected(s)
      BY <2>5, ChannelAssumption DEF clearRx, Answering, SlotCleared
    <3>2. ~rxFlag[slot[c]] /\ slot[c] \in Slots
      BY <3>1, UnexpectedEmpty DEF Answering
    <3>3. \A s \in Slots : rxFlag'[s] <=> rxFlag[s]
      BY <2>5, <3>2 DEF clearRx, RingTypeOK
    <3> QED
      BY <1>0, <3>1, <3>3, WindowFrame DEF Answering
  <2>6. CASE drain(c)
    <3>0. PICK h \in Slots : h = slot[c]
      OBVIOUS
    <3>1. rxFlag[h] /\ ~rxFlag'[h]
      BY <2>6, <3>0 DEF drain, RingTypeOK
    <3>2. \A s \in Slots \ {h} :
            (rxFlag'[s] <=> rxFlag[s]) /\ (Expected(s)' <=> Expected(s))
      BY <2>6, <3>0, ChannelAssumption DEF drain, RingTypeOK
    <3>3. ~Expected(h)'
      BY <2>6, <3>0, ChannelAssumption DEF drain
    <3> QED
      BY <1>0, <3>1, <3>2, <3>3, WindowTaken DEF Answering
  <2>7. CASE waitRx(c)
    <3>0. PICK h \in Slots : h = slot[c]
      OBVIOUS
    <3>1. rxFlag[h] /\ ~rxFlag'[h]
      BY <2>7, <3>0 DEF waitRx, RingTypeOK
    <3>2. \A s \in Slots \ {h} :
            (rxFlag'[s] <=> rxFlag[s]) /\ (Expected(s)' <=> Expected(s))
      BY <2>7, <3>0, ChannelAssumption DEF waitRx, RingTypeOK
    <3>3. ~Expected(h)'
      BY <2>7, <3>0, ChannelAssumption DEF waitRx, Answering, SlotCleared
    <3> QED
      BY <1>0, <3>1, <3>2, <3>3, WindowTaken DEF Answering
  <2> QED
    BY <2>1, <2>2, <2>3, <2>4, <2>5, <2>6, <2>7 DEF Quiet
<1>4. Landed'
  <2>1. rxPc' # "flag" \/ rxData'[rxNext'] = rxBuf'
    BY <1>0 DEF Answering, Landed
  <2>2. /\ \A s \in Slots : rxFlag'[s] => rxFlag[s]
        /\ \A d \in Callers : cPc'[d] = "waitRx" =>
              cPc[d] = "waitRx" /\ slot'[d] = slot[d] /\ request'[d] = request[d]
    <3> USE DEF Guarded, TypeOK, RingTypeOK, Goto, Return
    <3>1. CASE acquireFrame(c)
      BY <3>1 DEF acquireFrame, ringVars
    <3>2. CASE dispatchFrame(c)
      BY <3>2 DEF dispatchFrame, ringVars
    <3>3. CASE drain(c)
      BY <3>3 DEF drain
    <3>4. CASE waitTx(c)
      BY <3>4 DEF waitTx, ringVars
    <3>5. CASE clearRx(c)
      BY <3>5 DEF clearRx
    <3>6. CASE writeRequest(c)
      BY <3>6 DEF writeRequest
    <3>7. CASE waitRx(c)
      BY <3>7 DEF waitRx
    <3>8. CASE releaseFrame(c)
      BY <3>8 DEF releaseFrame, ringVars
    <3> QED
      BY <3>1, <3>2, <3>3, <3>4, <3>5, <3>6, <3>7, <3>8 DEF Quiet
  <2> QED
    BY <1>0, <2>1, <2>2, Ranges DEF Answering, Landed
<1> QED
  BY <1>1, <1>2, <1>3, <1>4 DEF Answering

(* A publication: the window grows by the slot it used.                    *)
LEMMA AnswerPublish ==
  ASSUME Guarded, NEW m \in 0 .. NumSlots, Answering(m), NEW c \in Callers,
         publishRequest(c)
  PROVE  m + 1 \in 0 .. NumSlots /\ Answering(m + 1)'
<1>0. PICK h \in Slots : h = slot[c]
  BY Ranges
<1>1. /\ cPc[c] = "publish" /\ mutex = c /\ c # NoOne /\ slot' = slot
      /\ NextUse = h /\ NextUse' = NextSlot(h)
      /\ UNCHANGED <<served, sock, rxPc, rxBuf, rxNext, rxData, rxFlag, request>>
      /\ published' = Append(published, request[c].id) /\ request[c].id \in Nat
      /\ \A d \in Callers : d # c => cPc'[d] = cPc[d] /\ cPc[d] \notin Inside
  <2>1. cPc[c] = "publish" /\ slot' = slot /\ request' = request /\ c # NoOne
    BY ChannelAssumption DEF publishRequest
  <2>2. \A d \in Callers : d # c => cPc'[d] = cPc[d] /\ cPc[d] \notin Inside
    BY PublishUses DEF publishRequest, Goto, Return, Guarded, TypeOK, CallersPlaced
  <2> QED
    BY <1>0, <2>1, <2>2, PublishUses DEF Requests
<1>2. ~Expected(h) /\ ~ffPending[h]
  BY <1>0, <1>1 DEF Expected, Answering, SlotCleared, Inside, Claimed
<1>3. ~rxFlag[h] /\ ~(Distance(rxNext, h) < m) /\ Stretch(rxNext, h, m)
  BY <1>1, <1>2, UnexpectedEmpty DEF Answering, Window, Stretch
<1>4. /\ m + 1 \in 0 .. NumSlots /\ Stretch(rxNext, NextSlot(h), m + 1)
      /\ \A s \in Slots : Distance(rxNext, s) < m + 1 <=> Distance(rxNext, s) < m \/ s = h
  <2>1. rxNext \in Slots
    BY Ranges
  <2> QED
    BY <1>3, <2>1, StretchGrows
<1>5. \/ /\ ffPending' = [ffPending EXCEPT ![h] = TRUE] /\ mutex' = NoOne
         /\ cPc'[c] = "returned"
      \/ ffPending' = ffPending /\ mutex' = c /\ cPc'[c] = "waitRx"
  BY <1>0, <1>1 DEF publishRequest, Goto, Return, Guarded, TypeOK
<1>6. Expected(h)' /\ \A s \in Slots : s # h => (Expected(s)' <=> Expected(s))
  BY <1>0, <1>1, <1>5, Ranges DEF Expected
<1>7. Window(m + 1)'
  <2>1. Distance(rxNext', NextUse') = IF m + 1 = NumSlots THEN 0 ELSE m + 1
    BY <1>1, <1>4 DEF Stretch
  <2>2. ASSUME NEW s \in Slots
        PROVE  IF Distance(rxNext', s) < m + 1 THEN ~rxFlag'[s] /\ Expected(s)'
                                               ELSE rxFlag'[s] <=> Expected(s)'
    BY <1>1, <1>3, <1>4, <1>6 DEF Answering, Window
  <2> QED
    BY <2>1, <2>2 DEF Window
<1>8. InFlight(m + 1)'
  <2>1. /\ Len(published') = Len(published) + 1
        /\ DOMAIN published' = 1 .. Len(published')
        /\ \A i \in DOMAIN published : i \in DOMAIN published' /\ published'[i] = published[i]
    BY <1>1, Ranges, AppendElements, AppendProperties, LenProperties
  <2>2. Len(published') - (m + 1) = Len(published) - m
    BY <2>1, Ranges
  <2>3. InHand' = InHand /\ Held' = Held
    BY <1>1 DEF InHand, Held
  <2>4. Len(published') - (m + 1) + Held' + Len(sock') <= served'
    BY <1>1, <2>2, <2>3 DEF Answering, InFlight
  <2>5. InHand' => \E i \in DOMAIN published' :
                      i > Len(published') - (m + 1) /\ rxBuf'.id = published'[i]
    BY <1>1, <2>1, <2>2, <2>3 DEF Answering, InFlight
  <2>6. \A j \in DOMAIN sock' : \E i \in DOMAIN published' :
           i >= Len(published') - (m + 1) + Held' + j /\ sock'[j].body.id = published'[i]
    BY <1>1, <2>1, <2>2, <2>3 DEF Answering, InFlight
  <2> QED
    BY <2>4, <2>5, <2>6 DEF InFlight
<1>9. SlotCleared'
  <2> SUFFICES ASSUME NEW d \in Callers
               PROVE  /\ cPc'[d] = "drain" => ffPending'[slot'[d]]
                      /\ cPc'[d] \in Inside \ {"drain"} => ~ffPending'[slot'[d]]
    BY DEF SlotCleared
  <2>1. CASE d = c
    BY <1>0, <1>1, <1>2, <1>5, <2>1 DEF Inside, Claimed
  <2>2. CASE d # c
    BY <1>1, <2>2 DEF Inside, Claimed
  <2> QED
    BY <2>1, <2>2
<1>10. Landed'
  BY <1>0, <1>1, <1>3 DEF Answering, Landed, Inside
<1> QED
  BY <1>4, <1>7, <1>8, <1>9, <1>10 DEF Answering

(* The transceiver's and the service's steps keep the callers.             *)
LEMMA CallersStay ==
  ASSUME UNCHANGED chanVars
  PROVE  /\ UNCHANGED <<published, NextUse, cPc, request, slot, ffPending, mutex, env>>
         /\ \A s : Expected(s)' <=> Expected(s)
         /\ SlotCleared => SlotCleared'
  BY DEF chanVars, callVars, NextUse, Expected, SlotCleared

(* rxLoop reads a datagram: it moves from the socket's queue to its hands. *)
LEMMA AnswerRecv ==
  ASSUME Guarded, NEW m \in 0 .. NumSlots, Answering(m), rxRecv,
         UNCHANGED <<chanVars, served>>
  PROVE  Answering(m)'
<1>0. /\ rxPc = "recv" /\ sock # << >> /\ sock' = Tail(sock)
      /\ UNCHANGED <<rxNext, rxFlag, rxData, served, chanVars>>
      /\ \/ rxPc' = "loadRx" /\ rxBuf' = Head(sock).body
         \/ rxPc' = "recv"
  BY DEF rxRecv, rxVars1, ringVars
<1>1. Window(m)' /\ SlotCleared'
  BY <1>0, CallersStay, WindowFrame DEF Answering
<1>2. Landed'
  BY <1>0, CallersStay DEF Answering, Landed
<1>3. /\ Len(sock') = Len(sock) - 1 /\ Len(sock) \in Nat /\ 1 \in DOMAIN sock
      /\ Head(sock) = sock[1] /\ DOMAIN sock' = 1 .. Len(sock')
      /\ \A j \in DOMAIN sock' : j \in Nat /\ j + 1 \in DOMAIN sock /\ sock'[j] = sock[j + 1]
  <2>1. sock \in Seq(Datagrams(Replies)) /\ Len(sock) \in Nat
    BY Ranges
  <2> QED
    BY <1>0, <2>1, TailElements, HeadTailProperties, LenProperties
<1>4. /\ Held = 0 /\ published' = published /\ served' = served
      /\ InHand' => Held' = 1 /\ rxBuf' = sock[1].body
      /\ ~InHand' => Held' = 0
  BY <1>0, <1>3, CallersStay DEF Held, InHand
<1> DEFINE filled == Len(published) - m
<1>5. /\ filled \in Int /\ DOMAIN published \subseteq Nat /\ filled + Len(sock) <= served
      /\ served \in Nat
      /\ \A j \in DOMAIN sock : \E i \in DOMAIN published :
            i >= filled + j /\ sock[j].body.id = published[i]
  <2>1. filled \in Int /\ DOMAIN published \subseteq Nat /\ served \in Nat
    BY Ranges
  <2>2. filled + Held + Len(sock) <= served
    BY DEF Answering, InFlight
  <2>3. \A j \in DOMAIN sock : \E i \in DOMAIN published :
            i >= filled + Held + j /\ sock[j].body.id = published[i]
    BY DEF Answering, InFlight
  <2>4. filled + Held = filled
    BY <1>4, <2>1
  <2> HIDE DEF filled
  <2> QED
    BY <2>1, <2>2, <2>3, <2>4
<1>6. filled + Held' + Len(sock') <= served'
  <2> HIDE DEF filled
  <2> QED
    BY <1>3, <1>4, <1>5
<1>7. InHand' => \E i \in DOMAIN published' : i > filled /\ rxBuf'.id = published'[i]
  <2>1. PICK i \in DOMAIN published : i >= filled + 1 /\ sock[1].body.id = published[i]
    BY <1>3, <1>5
  <2>2. i > filled
    <3> HIDE DEF filled
    <3> QED
      BY <1>5, <2>1
  <2> QED
    BY <1>4, <2>1, <2>2
<1>8. \A j \in DOMAIN sock' : \E i \in DOMAIN published' :
         i >= filled + Held' + j /\ sock'[j].body.id = published'[i]
  <2> SUFFICES ASSUME NEW j \in DOMAIN sock'
               PROVE  \E i \in DOMAIN published' :
                         i >= filled + Held' + j /\ sock'[j].body.id = published'[i]
    OBVIOUS
  <2>1. PICK i \in DOMAIN published :
           i >= filled + (j + 1) /\ sock[j + 1].body.id = published[i]
    BY <1>3, <1>5
  <2>2. i >= filled + Held' + j
    <3> HIDE DEF filled
    <3> QED
      BY <1>3, <1>4, <1>5, <2>1
  <2> QED
    BY <1>3, <1>4, <2>1, <2>2
<1>9. InFlight(m)'
  BY <1>4, <1>6, <1>7, <1>8 DEF InFlight
<1> QED
  BY <1>1, <1>2, <1>9 DEF Answering

(* The waits, the copy and the exit of rxLoop.                             *)
LEMMA AnswerRxWait ==
  ASSUME Guarded, Sending, NEW m \in 0 .. NumSlots, Answering(m),
         rxLoadRx \/ rxLoadTx \/ rxCopy \/ rxExit, UNCHANGED <<chanVars, served>>
  PROVE  Answering(m)'
<1>0. UNCHANGED <<rxNext, rxFlag, rxBuf, sock, served, chanVars>>
  BY DEF rxLoadRx, rxLoadTx, rxCopy, rxExit, rxVars1, ringVars
<1>1. Window(m)' /\ SlotCleared'
  BY <1>0, CallersStay, WindowFrame DEF Answering
<1>2. InFlight(m)'
  <2>1. CASE rxExit
    <3>1. InHand' = FALSE /\ Held' = 0 /\ published' = published
      BY <2>1, CallersStay DEF rxExit, InHand, Held
    <3> DEFINE filled == Len(published) - m
    <3>2. filled \in Int /\ Held \in {0, 1} /\ served \in Nat /\ Len(sock) \in Nat
          /\ DOMAIN sock \subseteq Nat /\ DOMAIN published \subseteq Nat
      BY Ranges
    <3>3. /\ filled + Held + Len(sock) <= served
          /\ \A j \in DOMAIN sock : \E i \in DOMAIN published :
                i >= filled + Held + j /\ sock[j].body.id = published[i]
      BY DEF Answering, InFlight
    <3>4. /\ filled + 0 + Len(sock) <= served
          /\ \A j \in DOMAIN sock : \E i \in DOMAIN published :
                i >= filled + 0 + j /\ sock[j].body.id = published[i]
      <4> HIDE DEF filled
      <4>1. filled + 0 + Len(sock) <= served
        BY <3>2, <3>3
      <4>2. ASSUME NEW j \in DOMAIN sock
            PROVE  \E i \in DOMAIN published :
                      i >= filled + 0 + j /\ sock[j].body.id = published[i]
        <5>1. PICK i \in DOMAIN published :
                 i >= filled + Held + j /\ sock[j].body.id = published[i]
          BY <3>3
        <5>2. i >= filled + 0 + j
          BY <3>2, <5>1
        <5> QED
          BY <5>1, <5>2
      <4> QED
        BY <4>1, <4>2
    <3> QED
      BY <1>0, <3>1, <3>4 DEF InFlight
  <2>2. CASE ~rxExit
    <3>1. InHand' = InHand /\ published' = published
      BY <2>2, CallersStay DEF rxLoadRx, rxLoadTx, rxCopy, InHand
    <3> QED
      BY <1>0, <3>1, FlightFrame DEF Answering
  <2> QED
    BY <2>1, <2>2
<1>3. Landed'
  <2>1. CASE rxCopy
    <3>1. InHand
      BY <2>1 DEF rxCopy, InHand
    <3>2. ~rxFlag[rxNext]
      BY <3>1, InHandWaits DEF Answering
    <3>3. rxData' = [rxData EXCEPT ![rxNext] = rxBuf] /\ rxNext \in Slots
      BY <2>1, Ranges DEF rxCopy
    <3>4. DOMAIN rxData = Slots /\ slot \in [Callers -> Slots]
      BY DEF Guarded, TypeOK, RingTypeOK
    <3> QED
      BY <1>0, <3>2, <3>3, <3>4, CallersStay DEF Answering, Landed
  <2>2. CASE ~rxCopy
    <3>1. rxPc' # "flag" /\ rxData' = rxData
      BY <2>2 DEF rxLoadRx, rxLoadTx, rxExit, ringVars
    <3> QED
      BY <1>0, <3>1, CallersStay DEF Answering, Landed
  <2> QED
    BY <2>1, <2>2
<1> QED
  BY <1>1, <1>2, <1>3 DEF Answering

(* rxLoop raises the flag of the slot it has filled: the window shrinks by *)
(* that slot.  A caller that waits there published last, so that the       *)
(* response, which answers nothing published before, is its own.           *)
LEMMA AnswerRxPublish ==
  ASSUME Guarded, Sending, NEW m \in 0 .. NumSlots, Answering(m), rxPublish,
         UNCHANGED <<chanVars, served>>
  PROVE  m - 1 \in 0 .. NumSlots /\ Answering(m - 1)'
<1>0. PICK n \in Slots : n = rxNext
  BY Ranges
<1>1. /\ rxPc = "flag" /\ rxPc' = "recv" /\ rxNext' = NextSlot(n)
      /\ rxFlag' = [rxFlag EXCEPT ![n] = TRUE]
      /\ UNCHANGED <<sock, rxBuf, rxData, served, chanVars>>
  BY <1>0 DEF rxPublish, rxVars1
<1>2. InHand /\ Held = 1 /\ ~InHand' /\ Held' = 0
  BY <1>1 DEF InHand, Held
<1>3. m \in 1 .. NumSlots /\ ~rxFlag[n] /\ Expected(n) /\ Stretch(n, NextUse, m)
  BY <1>0, <1>2, InHandWaits DEF Answering, Window, Stretch
<1>4. /\ m - 1 \in 0 .. NumSlots /\ Distance(n, n) = 0
      /\ Stretch(NextSlot(n), NextUse, m - 1)
      /\ \A s \in Slots :
            Distance(NextSlot(n), s) < m - 1 <=> Distance(n, s) < m /\ s # n
  <2>1. NextUse \in Slots
    BY Ranges
  <2> QED
    BY <1>3, <2>1, StretchShrinks
<1>5. Window(m - 1)'
  <2>1. Distance(rxNext', NextUse') = IF m - 1 = NumSlots THEN 0 ELSE m - 1
    BY <1>1, <1>4, CallersStay DEF Stretch
  <2>2. ASSUME NEW s \in Slots
        PROVE  IF Distance(rxNext', s) < m - 1 THEN ~rxFlag'[s] /\ Expected(s)'
                                               ELSE rxFlag'[s] <=> Expected(s)'
    <3>1. Expected(s)' <=> Expected(s)
      BY <1>1, CallersStay
    <3>2. IF Distance(n, s) < m THEN ~rxFlag[s] /\ Expected(s)
                                ELSE rxFlag[s] <=> Expected(s)
      BY <1>0 DEF Answering, Window
    <3>3. rxFlag'[s] <=> (s = n \/ rxFlag[s])
      BY <1>1, Ranges
    <3> QED
      BY <1>1, <1>3, <1>4, <3>1, <3>2, <3>3
  <2> QED
    BY <2>1, <2>2 DEF Window
<1>6. InFlight(m - 1)'
  <2>1. published' = published /\ Len(published) \in Nat
    BY <1>1, CallersStay, Ranges
  <2>2. Len(published) - (m - 1) + 0 = Len(published) - m + 1
    BY <1>3, <2>1
  <2>3. /\ Len(published) - m + 1 + Len(sock) <= served
        /\ \A j \in DOMAIN sock : \E i \in DOMAIN published :
              i >= Len(published) - m + 1 + j /\ sock[j].body.id = published[i]
    BY <1>2 DEF Answering, InFlight
  <2> QED
    BY <1>1, <1>2, <2>1, <2>2, <2>3 DEF InFlight
<1>7. ASSUME NEW c \in Callers, cPc[c] = "waitRx", slot[c] = n
      PROVE  rxBuf.id = request[c].id
  <2>1. /\ NextUse = NextSlot(n) /\ published # << >>
        /\ published[Len(published)] = request[c].id
    BY <1>7, ChannelAssumption DEF Guarded, CallersPlaced, Inside, NextUse
  <2>2. Distance(NextSlot(n), NextSlot(n)) = 0
    BY <1>0, NextSlotType, DistanceFacts
  <2>3. m = 1
    BY <1>3, <1>4, <2>1, <2>2, NumSlotsAssumption DEF Stretch
  <2>4. PICK i \in DOMAIN published :
           i > Len(published) - m /\ rxBuf.id = published[i]
    BY <1>2 DEF Answering, InFlight
  <2>5. i = Len(published)
    BY <2>3, <2>4, Ranges
  <2> QED
    BY <2>1, <2>4, <2>5
<1>8. Landed'
  <2> SUFFICES ASSUME NEW c \in Callers, cPc'[c] = "waitRx", rxFlag'[slot'[c]]
               PROVE  rxData'[slot'[c]].id = request'[c].id
    BY <1>1 DEF Landed
  <2>1. cPc[c] = "waitRx" /\ slot'[c] = slot[c] /\ request'[c] = request[c]
    BY <1>1, CallersStay
  <2>2. CASE slot[c] = n
    BY <1>0, <1>1, <1>7, <2>1, <2>2 DEF Answering, Landed
  <2>3. CASE slot[c] # n
    BY <1>1, <2>1, <2>3, Ranges DEF Answering, Landed
  <2> QED
    BY <2>2, <2>3
<1>9. SlotCleared'
  BY <1>1, CallersStay DEF Answering
<1> QED
  BY <1>4, <1>5, <1>6, <1>8, <1>9 DEF Answering

LEMMA AnswerRx ==
  ASSUME Guarded, Sending, NEW m \in 0 .. NumSlots, Answering(m), rxLoop,
         UNCHANGED <<chanVars, served>>
  PROVE  \E k \in 0 .. NumSlots : Answering(k)'
  BY AnswerRecv, AnswerRxWait, AnswerRxPublish DEF rxLoop

LEMMA AnswerTx ==
  ASSUME NEW m \in 0 .. NumSlots, Answering(m), txLoop, UNCHANGED <<chanVars, served>>
  PROVE  Answering(m)'
<1>1. UNCHANGED <<sock, rxPc, rxBuf, rxNext, rxFlag, rxData>>
  BY DEF txLoop, txLoad, txSend, txClear, txExit, txVars1, rxVars, ringVars
<1>2. Window(m)' /\ SlotCleared'
  BY <1>1, CallersStay, WindowFrame DEF Answering
<1>3. InFlight(m)'
  BY <1>1, CallersStay, FlightFrame DEF Answering, InHand
<1>4. Landed'
  BY <1>1, CallersStay DEF Answering, Landed
<1> QED
  BY <1>2, <1>3, <1>4 DEF Answering

(* The service answers the request it has taken, which is the next in the  *)
(* order of publication.                                                   *)
LEMMA AnswerServe ==
  ASSUME Guarded, Sending, NEW m \in 0 .. NumSlots, Answering(m), serve
  PROVE  Answering(m)'
<1>0. UNCHANGED <<rxPc, rxBuf, rxNext, rxFlag, rxData, chanVars>>
  BY DEF serve, rxVars, ringVars
<1>1. Window(m)' /\ SlotCleared'
  BY <1>0, CallersStay, WindowFrame DEF Answering
<1>2. Landed'
  BY <1>0, CallersStay DEF Answering, Landed
<1>3. /\ served' = served + 1 /\ published' = published
      /\ InHand' = InHand /\ Held' = Held
  BY <1>0, CallersStay DEF serve, InHand, Held
<1>4. served + 1 \in DOMAIN wire
  BY Ranges DEF serve
<1> DEFINE r == wire[served + 1].body
           d == [from |-> Service, body |-> Reply(r), fits |-> TRUE]
           filled == Len(published) - m
<1>5. /\ served + 1 \in DOMAIN published /\ d.body.id = published[served + 1]
      /\ d \in Datagrams(Replies)
  <2>1. served + 1 \in DOMAIN published /\ r.id = published[served + 1] /\ r \in Requests
    BY <1>4 DEF Sending, WireFollowsPublication, Guarded, PagesFilled
  <2> HIDE DEF r
  <2> QED
    BY <2>1, ChannelAssumption DEF Reply, Replies, Requests, Datagrams
<1>6. sock' = sock \/ sock' = Append(sock, d)
  BY DEF serve
<1>7. /\ filled \in Int /\ served \in Nat /\ Held \in {0, 1} /\ Len(sock) \in Nat
      /\ DOMAIN sock = 1 .. Len(sock) /\ DOMAIN published \subseteq Nat
      /\ sock \in Seq(Datagrams(Replies))
  BY Ranges
<1>8. /\ filled + Held + Len(sock) <= served
      /\ InHand => \E i \in DOMAIN published : i > filled /\ rxBuf.id = published[i]
      /\ \A j \in DOMAIN sock : \E i \in DOMAIN published :
            i >= filled + Held + j /\ sock[j].body.id = published[i]
  BY DEF Answering, InFlight
<1> HIDE DEF d, filled
<1>9. filled + Held + Len(sock') <= served'
  <2>1. Len(sock') \in {Len(sock), Len(sock) + 1}
    BY <1>5, <1>6, <1>7, AppendProperties
  <2> QED
    BY <1>3, <1>7, <1>8, <2>1
<1>10. ASSUME NEW j \in DOMAIN sock'
       PROVE  \E i \in DOMAIN published :
                 i >= filled + Held + j /\ sock'[j].body.id = published[i]
  <2>1. \/ j \in DOMAIN sock /\ sock'[j] = sock[j]
        \/ j = Len(sock) + 1 /\ sock'[j] = d
    BY <1>5, <1>6, <1>7, AppendElements
  <2>2. CASE j \in DOMAIN sock /\ sock'[j] = sock[j]
    BY <1>8, <2>2
  <2>3. CASE j = Len(sock) + 1 /\ sock'[j] = d
    <3>1. served + 1 >= filled + Held + j
      BY <1>7, <1>8, <2>3
    <3> QED
      BY <1>5, <2>3, <3>1
  <2> QED
    BY <2>1, <2>2, <2>3
<1>11. InFlight(m)'
  BY <1>0, <1>3, <1>8, <1>9, <1>10 DEF InFlight, filled
<1> QED
  BY <1>1, <1>2, <1>11 DEF Answering

(* start finds no response in hand; closing the socket drops what it had.  *)
LEMMA AnswerLifecycle ==
  ASSUME Guarded, NEW m \in 0 .. NumSlots, Answering(m), Lifecycle
  PROVE  Answering(m)'
<1>0. /\ UNCHANGED <<rxBuf, rxNext, rxFlag, rxData, chanVars, served>>
      /\ rxPc' = rxPc \/ (rxPc = "off" /\ rxPc' \in {"off", "recv"})
      /\ sock' = sock \/ sock' = << >>
  BY DEF Lifecycle, start, close, closeSocket, rxVars, ringVars, Guarded, PagesFilled
<1>1. Window(m)' /\ SlotCleared'
  BY <1>0, CallersStay, WindowFrame DEF Answering
<1>2. Landed'
  BY <1>0, CallersStay DEF Answering, Landed
<1>3. InHand' = InHand /\ Held' = Held /\ published' = published
  BY <1>0, CallersStay DEF InHand, Held
<1>4. CASE sock' = sock
  BY <1>0, <1>1, <1>2, <1>3, <1>4, FlightFrame DEF Answering
<1>5. CASE sock' = << >>
  <2>1. Len(sock') = 0 /\ DOMAIN sock' = {}
    BY <1>5
  <2>2. Len(published) - m + Held + 0 <= served
    BY Ranges DEF Answering, InFlight
  <2>3. InFlight(m)'
    BY <1>0, <1>3, <2>1, <2>2 DEF Answering, InFlight
  <2> QED
    BY <1>1, <1>2, <2>3 DEF Answering
<1> QED
  BY <1>0, <1>4, <1>5

-----------------------------------------------------------------------------
(* RingSlotChannel: the invariant.                                         *)

LEMMA CorrelatedIs ==
  Correlated <=> (~env.faulty => SendQueue /\ \E m \in 0 .. NumSlots : Answering(m))
  BY DEF Correlated, Answering

LEMMA ChannelInit == Init => ChannelInv
<1> SUFFICES ASSUME Init PROVE ChannelInv
  OBVIOUS
<1>1. Guarded
  BY GuardedInit
<1>2. /\ NextUse = 0 /\ NextToShip = 0 /\ rxNext = 0 /\ 0 \in Slots /\ Distance(0, 0) = 0
      /\ NumSlots \in Nat \ {0}
  <2>1. 0 \in Slots /\ NumSlots \in Nat \ {0}
    BY NumSlotsAssumption DEF Slots
  <2> QED
    BY <2>1, DistanceFacts DEF Init, XcvrInit, NextUse, NextToShip
<1>3. /\ Len(published) = 0 /\ Len(wire) = 0 /\ Len(sock) = 0 /\ served = 0
      /\ DOMAIN wire = {} /\ DOMAIN sock = {} /\ Outstanding = 0
  BY DEF Init, XcvrInit, Outstanding
<1>4. SendQueue
  <2>1. \A s \in Slots : ~Unsent(s) /\ ~(Distance(0, s) < 0)
    BY <1>2, DistanceFacts DEF Unsent, Init, RingInit
  <2> QED
    BY <1>2, <1>3, <2>1 DEF SendQueue
<1>5. SlotCleared /\ Landed
  BY DEF Init, XcvrInit, SlotCleared, Landed, Inside, Claimed
<1>6. Window(0)
  <2>1. \A s \in Slots : ~rxFlag[s] /\ ~Expected(s) /\ ~(Distance(0, s) < 0)
    BY <1>2, DistanceFacts DEF Init, RingInit, Expected
  <2> QED
    BY <1>2, <2>1 DEF Window
<1>7. InFlight(0)
  BY <1>3 DEF Init, XcvrInit, InFlight, InHand, Held
<1>8. Correlated
  BY <1>2, <1>4, <1>5, <1>6, <1>7 DEF Correlated
<1>9. WireFollowsPublication /\ NoMismatch
  BY <1>3 DEF WireFollowsPublication, NoMismatch, Init
<1> QED
  BY <1>1, <1>8, <1>9 DEF ChannelInv, WireSound, SentAsPublished, Guarded

(* Positions stay right, whoever moves.                                    *)
LEMMA CorrelatedNext ==
  ASSUME Guarded, Correlated, SentAsPublished, [Next]_vars
  PROVE  Correlated' /\ SentAsPublished'
<1>0. env' = env
  BY DEF Next, vars, chanVars, Transport, serve, Lifecycle, Dispatching, acquireFrame,
      dispatchFrame, drain, waitTx, clearRx, writeRequest, publishRequest, waitRx,
      releaseFrame
<1>1. CASE env.faulty
  BY <1>0, <1>1 DEF Correlated, SentAsPublished
<1>2. CASE ~env.faulty
  <2>1. Sending
    BY <1>2 DEF Correlated, SentAsPublished, Sending
  <2>2. PICK m \in 0 .. NumSlots : Answering(m)
    BY <1>2, CorrelatedIs
  <2> SUFFICES Sending' /\ \E k \in 0 .. NumSlots : Answering(k)'
    <3>1. SentAsPublished' /\ SendQueue'
      BY DEF SentAsPublished, Sending
    <3> QED
      BY <3>1 DEF Correlated, Answering
  <2>3. CASE UNCHANGED vars
    <3>1. UNCHANGED <<published, wire, txFlag, txPc, txCursor, txData, chanVars, sock,
                      served, rxPc, rxBuf, rxNext, rxFlag, rxData>>
      BY <2>3 DEF vars, chanVars, xcvrVars, rxVars, txVars, ringVars
    <3>2. Sending'
      BY <2>1, <3>1, CallersStay, SendFrame DEF NextToShip, Unsent
    <3>3. Answering(m)'
      BY <2>2, <3>1, CallersStay, WindowFrame, FlightFrame DEF Answering, Landed, InHand
    <3> QED
      BY <3>2, <3>3
  <2>4. ASSUME NEW c \in Callers, Quiet(c)
        PROVE  Sending' /\ Answering(m)'
    BY <1>2, <2>1, <2>2, <2>4, SendQuiet, AnswerQuiet
  <2>5. ASSUME NEW c \in Callers, publishRequest(c)
        PROVE  Sending' /\ \E k \in 0 .. NumSlots : Answering(k)'
    BY <2>1, <2>2, <2>5, SendPublish, AnswerPublish
  <2>6. CASE Transport
    BY <2>1, <2>2, <2>6, SendTx, SendOther, AnswerTx, AnswerRx DEF Transport
  <2>7. CASE serve \/ Lifecycle
    BY <2>1, <2>2, <2>7, SendOther, AnswerServe, AnswerLifecycle
  <2> QED
    BY <2>3, <2>4, <2>5, <2>6, <2>7 DEF Next, Dispatching, Quiet
<1> QED
  BY <1>1, <1>2

(* A caller that finds a response finds its own.                           *)
LEMMA NoMismatchNext ==
  ASSUME Guarded, Correlated, NoMismatch, [Next]_vars
  PROVE  NoMismatch'
<1> SUFFICES ASSUME ~env'.faulty, NEW d \in Callers PROVE status'[d] # "mismatch"
  BY DEF NoMismatch
<1>0. env' = env
  BY DEF Next, vars, chanVars, Transport, serve, Lifecycle, Dispatching, acquireFrame,
      dispatchFrame, drain, waitTx, clearRx, writeRequest, publishRequest, waitRx,
      releaseFrame
<1>1. status[d] # "mismatch" /\ Landed /\ status \in [Callers ->
         {"none", "sent", "ok", "mismatch", "timeout", "invalid"}]
  BY <1>0 DEF NoMismatch, Correlated, Guarded, TypeOK
<1>2. ASSUME NEW c \in Callers, waitRx(c) PROVE status'[d] # "mismatch"
  BY <1>1, <1>2 DEF waitRx, Return, Landed
<1>3. ASSUME NEW c \in Callers,
             \/ acquireFrame(c) \/ dispatchFrame(c) \/ drain(c) \/ waitTx(c)
             \/ clearRx(c) \/ writeRequest(c) \/ publishRequest(c) \/ releaseFrame(c)
      PROVE  status'[d] # "mismatch"
  BY <1>1, <1>3 DEF acquireFrame, dispatchFrame, drain, waitTx, clearRx, writeRequest,
      publishRequest, releaseFrame, Return
<1>4. CASE Transport \/ serve \/ Lifecycle \/ UNCHANGED vars
  BY <1>1, <1>4 DEF Transport, serve, Lifecycle, vars, chanVars, callVars
<1> QED
  BY <1>2, <1>3, <1>4 DEF Next, Dispatching

(* The invariant of the channel: callers one at a time, pages intact, and, *)
(* where nothing is lost and no deadline passes, a window of slots between *)
(* rxLoop and the channel that holds no response and awaits one in each.   *)
THEOREM ChannelInvariant == Spec => []ChannelInv
<1>1. ChannelInv /\ [Next]_vars => ChannelInv'
  <2> SUFFICES ASSUME ChannelInv, [Next]_vars PROVE ChannelInv'
    OBVIOUS
  <2>1. Guarded /\ Correlated /\ SentAsPublished /\ NoMismatch
    BY DEF ChannelInv, WireSound, Guarded
  <2>2. Guarded' /\ Correlated' /\ SentAsPublished' /\ NoMismatch'
    BY <2>1, GuardedNext, CorrelatedNext, NoMismatchNext
  <2> QED
    BY <2>2 DEF ChannelInv, WireSound, Guarded
<1> QED
  BY <1>1, ChannelInit, PTL DEF Spec

(* What leaves the client is what its callers wrote: the page being        *)
(* written is never the one txLoop ships, and without back-pressure        *)
(* timeouts the wire carries the requests in the order of publication.     *)
THEOREM RingSlotWireSound == Spec => []WireSound
<1>1. ChannelInv => WireSound
  BY DEF ChannelInv
<1> QED
  BY <1>1, ChannelInvariant, PTL

(* Position is enough to correlate: where nothing is lost and no deadline  *)
(* passes, no caller of dispatchFrame finds another call's response, even  *)
(* if some requests are never answered at all.                             *)
THEOREM RingSlotNoMismatch == Spec => []NoMismatch
<1>1. ChannelInv => NoMismatch
  BY DEF ChannelInv
<1> QED
  BY <1>1, ChannelInvariant, PTL

-----------------------------------------------------------------------------
(* SharedRingService: requests and modes.                                  *)

LEMMA RequestParts ==
  \A r \in Requests : /\ r.id \in Nat /\ r.magic \in BOOLEAN /\ r.fn \in FunctionIds
                      /\ Reply(r) \in Replies /\ Reply(r).id = r.id
  BY DEF Requests, Replies, Reply

(* A function table entry has one mode, so no request is for both          *)
(* dispatchers.                                                            *)
LEMMA ModesDiffer ==
  \A r : /\ IsHostCall(r) => ~IsDeviceCall(r) /\ ~IsGraphLaunch(r)
         /\ IsDeviceCall(r) => ~IsGraphLaunch(r)
  BY DEF IsHostCall, IsDeviceCall, IsGraphLaunch

(* What the types say of the variables, in one place.                      *)
LEMMA SharedTypes ==
  ASSUME SharedTypeOK
  PROVE  /\ rxFlag \in [Slots -> BOOLEAN] /\ txFlag \in [Slots -> BOOLEAN]
         /\ rxData \in [Slots -> Requests \cup {Zero}]
         /\ txData \in [Slots -> Replies \cup {Zero}]
         /\ sock \in Seq(Datagrams(Requests)) /\ wire \in Seq(Sent(Replies))
         /\ rxBuf \in Requests \cup {Zero} /\ rxNext \in Slots /\ txCursor \in Slots
         /\ dCur \in Slots /\ dSlot \in Slots /\ executed \in Seq(Nat)
         /\ kCur \in Slots /\ kReqId \in Nat /\ kExecuted \in Seq(Nat)
         /\ gIo \in Slots /\ gCursor \in Slots /\ gGraphs \subseteq Children
         /\ gFired \in Nat
  BY DEF SharedTypeOK, RingTypeOK, XcvrTypeOK, DispTypeOK, KernelTypeOK, GraphTypeOK

(* The slot layer at the start.                                            *)
LEMMA SlotInit == SharedInit => SlotInv
<1> SUFFICES ASSUME SharedInit PROVE SlotInv
  OBVIOUS
<1>0. 0 \in Slots /\ << >> \in Seq(Nat)
  BY NumSlotsAssumption DEF Slots
<1> USE DEF SharedInit, RingInit, XcvrInit, DispInit, KernelInit, GraphInit
<1>1. SharedTypeOK /\ PagesWritten
  <2>1. /\ << >> \in Seq(Datagrams(Requests)) /\ << >> \in Seq(Sent(Replies))
        /\ << >> \in Seq([magic : BOOLEAN, fn : FunctionIds])
    OBVIOUS
  <2>2. deploy.host \in BOOLEAN
    BY SharedRingAssumption
  <2>3. RingTypeOK(Requests, Replies) /\ XcvrTypeOK(Requests, Replies)
    BY <1>0, <2>1 DEF RingTypeOK, XcvrTypeOK
  <2>4. DispTypeOK /\ KernelTypeOK /\ GraphTypeOK
    BY <1>0, <2>2 DEF DispTypeOK, KernelTypeOK, GraphTypeOK
  <2>5. PagesWritten
    BY <1>0 DEF PagesWritten, Receiving
  <2> QED
    BY <2>1, <2>3, <2>4, <2>5 DEF SharedTypeOK
<1>2. Deployed /\ FillsFreeSlot
  BY <1>0 DEF Deployed, FillsFreeSlot
<1>3. OwnersAgree /\ ReadersCurrent /\ ChildrenApart
  BY <1>0 DEF OwnersAgree, ReadersCurrent, ChildrenApart, HostHas, KernelHas,
              ChildHas, Reading
<1> QED
  BY <1>1, <1>2, <1>3 DEF SlotInv

-----------------------------------------------------------------------------
(* SharedRingService: types, one step at a time.                           *)

LEMMA SharedTypeArrive == ASSUME SharedTypeOK, Arrive PROVE SharedTypeOK'
<1>1. PICK k \in deploy.arriving, a \in Addresses :
        /\ arrived' = Append(arrived, k)
        /\ sock' = Append(sock, [from |-> a, fits |-> TRUE,
                     body |-> [id |-> Len(arrived) + 1, magic |-> k.magic,
                               fn |-> k.fn]])
  BY DEF Arrive
<1>2. k \in [magic : BOOLEAN, fn : FunctionIds]
  BY SharedRingAssumption DEF SharedTypeOK
<1>3. arrived' \in Seq([magic : BOOLEAN, fn : FunctionIds]) /\ Len(arrived) \in Nat
  BY <1>1, <1>2, AppendProperties, LenProperties DEF SharedTypeOK
<1>4. sock' \in Seq(Datagrams(Requests))
  <2>1. [from |-> a, fits |-> TRUE, body |-> [id |-> Len(arrived) + 1,
           magic |-> k.magic, fn |-> k.fn]] \in Datagrams(Requests)
    BY <1>2, <1>3 DEF Datagrams, Requests
  <2> QED
    BY <1>1, <2>1, AppendProperties DEF SharedTypeOK, XcvrTypeOK
<1> QED
  BY <1>3, <1>4 DEF Arrive, SharedTypeOK, RingTypeOK, XcvrTypeOK, DispTypeOK,
     KernelTypeOK, GraphTypeOK, rxVars, txVars, ringVars, hostVars, dispVars,
     deviceVars, kernelVars, graphVars

LEMMA SharedTypeTransport ==
  ASSUME SharedTypeOK, TransportThreads PROVE SharedTypeOK'
<1>1. /\ DispTypeOK' /\ KernelTypeOK' /\ GraphTypeOK'
      /\ deploy' = deploy /\ arrived' = arrived /\ overtaken' \in BOOLEAN
  BY DEF TransportThreads, SharedTypeOK, DispTypeOK, KernelTypeOK, GraphTypeOK,
     hostVars, dispVars, deviceVars, kernelVars, graphVars
<1>2. RingTypeOK(Requests, Replies)' /\ XcvrTypeOK(Requests, Replies)'
  <2> USE DEF SharedTypeOK, RingTypeOK, XcvrTypeOK, ringVars, rxVars, txVars,
        rxVars1, txVars1
  <2>1. CASE start
    BY <2>1 DEF start
  <2>2. CASE rxRecv
    <3>1. Head(sock) \in Datagrams(Requests) /\ Tail(sock) \in Seq(Datagrams(Requests))
      BY <2>2, HeadTailProperties DEF rxRecv
    <3>2. Head(sock).body \in Requests /\ Head(sock).from \in Addresses
      BY <3>1 DEF Datagrams
    <3> QED
      BY <2>2, <3>1, <3>2 DEF rxRecv
  <2>3. CASE rxLoadRx
    BY <2>3 DEF rxLoadRx
  <2>4. CASE rxLoadTx
    BY <2>4 DEF rxLoadTx
  <2>5. CASE rxCopy
    BY <2>5 DEF rxCopy
  <2>6. CASE rxPublish
    BY <2>6, NextSlotType DEF rxPublish
  <2>7. CASE rxExit
    BY <2>7 DEF rxExit
  <2>8. CASE txLoad
    BY <2>8 DEF txLoad
  <2>9. CASE txSend
    <3>1. txData[txCursor] \in Replies \cup {Zero}
      OBVIOUS
    <3>2. peer # NoPeer => [to |-> peer, body |-> txData[txCursor]] \in Sent(Replies)
      BY <3>1 DEF Sent
    <3>3. wire' \in Seq(Sent(Replies))
      BY <2>9, <3>2, AppendProperties DEF txSend, Ship
    <3> QED
      BY <2>9, <3>3 DEF txSend
  <2>10. CASE txClear
    BY <2>10, NextSlotType DEF txClear
  <2>11. CASE txExit
    BY <2>11 DEF txExit
  <2> QED
    BY <2>1, <2>2, <2>3, <2>4, <2>5, <2>6, <2>7, <2>8, <2>9, <2>10, <2>11
    DEF TransportThreads, rxLoop, txLoop
<1> QED
  BY <1>1, <1>2 DEF SharedTypeOK

LEMMA SharedTypeHost ==
  ASSUME SharedTypeOK, PagesWritten, HostLoop PROVE SharedTypeOK'
<1>1. /\ XcvrTypeOK(Requests, Replies)' /\ KernelTypeOK' /\ GraphTypeOK'
      /\ deploy' = deploy /\ arrived' = arrived /\ overtaken' \in BOOLEAN
  BY DEF HostLoop, SharedTypeOK, XcvrTypeOK, KernelTypeOK, GraphTypeOK, xcvrVars,
     rxVars, txVars, deviceVars, kernelVars, graphVars
<1>2. RingTypeOK(Requests, Replies)' /\ DispTypeOK'
  <2> USE DEF SharedTypeOK, RingTypeOK, DispTypeOK, ringVars, dispVars
  <2>1. CASE pollRequest
    BY <2>1 DEF pollRequest
  <2>2. CASE pollScan
    BY <2>2 DEF pollScan
  <2>3. CASE pollProbe \/ pollReload
    BY <2>3 DEF pollProbe, pollReload
  <2>4. CASE checkHeader
    BY <2>4 DEF checkHeader, Retire
  <2>5. CASE invokeHostCall
    <3>1. rxData[dSlot] \in Requests
      BY <2>5 DEF invokeHostCall, PagesWritten
    <3>2. rxData[dSlot].id \in Nat /\ Reply(rxData[dSlot]) \in Replies
      BY <3>1, RequestParts
    <3>3. Append(executed, rxData[dSlot].id) \in Seq(Nat)
      BY <3>2, AppendProperties
    <3> QED
      BY <2>5, <3>2, <3>3 DEF invokeHostCall, Retire
  <2>6. CASE sendResponse
    BY <2>6 DEF sendResponse, Retire
  <2>7. CASE retireRequest
    BY <2>7, NextSlotType DEF retireRequest
  <2>8. CASE exitLoop
    BY <2>8 DEF exitLoop
  <2>9. CASE raiseShutdown
    BY <2>9 DEF raiseShutdown
  <2> QED
    BY <2>1, <2>2, <2>3, <2>4, <2>5, <2>6, <2>7, <2>8, <2>9
    DEF HostLoop, ringDispatchLoop
<1> QED
  BY <1>1, <1>2 DEF SharedTypeOK

(* The steps of either kernel.                                             *)
KernelPlain == \/ kernelPoll \/ kernelScan \/ kernelProbe
               \/ kernelHeader \/ kernelDrop \/ kernelPublish
               \/ kernelRetire \/ kernelExit

(* A step of the kernel is a plain one, a handler call with or without a   *)
(* trigger, a graph launch, a tail launch or the start of what it launched. *)
LEMMA KernelSteps ==
  ASSUME KernelStep
  PROVE  \/ KernelPlain /\ UNCHANGED graphVars
         \/ kernelRun /\ UNCHANGED graphVars
         \/ deploy.graph /\ graphRun(deploy.budget, deploy.triggered)
         \/ deploy.graph /\ graphLaunch(deploy.budget)
         \/ graphTail
         \/ tailLaunched
  BY DEF KernelStep, KernelPlain, kernelLoop, graphKernelLoop, graphPoll,
     graphHeader, graphExit

(* What a trigger does: a follow-up graph more, if it could be launched.    *)
Triggered ==
  /\ gGraphs' = gGraphs \/ gGraphs' = gGraphs \cup {[id |-> kReqId, slot |-> kCur,
                                            kind |-> "triggered", pc |-> "new"]}
  /\ gFired' \in {gFired, gFired + 1} /\ gRc' \in {"success", "error"}
  /\ gFires' = gFires + 1 /\ gRelaunch' = TRUE
  /\ gIo' = gIo /\ gCursor' = gCursor /\ gTails' = gTails

LEMMA TriggerOrNot ==
  ASSUME NEW b, NEW t, graphRun(b, t) PROVE UNCHANGED graphVars \/ Triggered
<1>1. CASE Launches(b)
  BY <1>1 DEF graphRun, fireAndForget, Triggered
<1>2. CASE ~Launches(b)
  BY <1>2 DEF graphRun, fireAndForget, Triggered
<1> QED
  BY <1>1, <1>2

LEMMA SharedTypeKernel ==
  ASSUME SharedTypeOK, PagesWritten, KernelStep PROVE SharedTypeOK'
<1>1. /\ XcvrTypeOK(Requests, Replies)' /\ DispTypeOK'
      /\ deploy' = deploy /\ arrived' = arrived /\ overtaken' \in BOOLEAN
  BY DEF KernelStep, SharedTypeOK, XcvrTypeOK, DispTypeOK, xcvrVars, rxVars, txVars,
     hostVars, dispVars
<1>2. RingTypeOK(Requests, Replies)' /\ KernelTypeOK' /\ GraphTypeOK'
  <2> USE DEF SharedTypeOK, RingTypeOK, KernelTypeOK, ringVars
  <2>1. ASSUME KernelPlain, UNCHANGED graphVars
        PROVE  RingTypeOK(Requests, Replies)' /\ KernelTypeOK' /\ GraphTypeOK'
    <3>0. GraphTypeOK'
      BY <2>1 DEF GraphTypeOK, graphVars
    <3>1. CASE kernelPoll \/ kernelScan \/ kernelProbe
      BY <3>0, <3>1 DEF kernelPoll, kernelScan, kernelProbe
    <3>2. CASE kernelHeader
      <4>1. rxData[kCur] \in Requests
        BY <3>2 DEF kernelHeader, PagesWritten
      <4>2. rxData[kCur].id \in Nat
        BY <4>1, RequestParts
      <4> QED
        BY <3>0, <3>2, <4>2, NextSlotType DEF kernelHeader, kernelClaim
    <3>3. CASE kernelDrop
      BY <3>0, <3>3, NextSlotType DEF kernelDrop
    <3>4. CASE kernelPublish
      BY <3>0, <3>4 DEF kernelPublish
    <3>5. CASE kernelRetire
      BY <3>0, <3>5, NextSlotType DEF kernelRetire
    <3>6. CASE kernelExit
      BY <3>0, <3>6 DEF kernelExit
    <3> QED
      BY <2>1, <3>1, <3>2, <3>3, <3>4, <3>5, <3>6 DEF KernelPlain
  <2>2. ASSUME kernelRun
        PROVE  RingTypeOK(Requests, Replies)' /\ KernelTypeOK'
    <3>1. rxData[kCur] \in Requests
      BY <2>2 DEF kernelRun, PagesWritten
    <3>2. rxData[kCur].id \in Nat
      BY <3>1, RequestParts
    <3>3. Append(kExecuted, rxData[kCur].id) \in Seq(Nat)
      BY <3>2, AppendProperties
    <3>4. [id |-> kReqId] \in Replies
      BY DEF Replies
    <3> QED
      BY <2>2, <3>3, <3>4 DEF kernelRun
  <2>3. ASSUME graphRun(deploy.budget, deploy.triggered) PROVE GraphTypeOK'
    <3>1. CASE UNCHANGED graphVars
      BY <3>1 DEF GraphTypeOK, graphVars
    <3>2. CASE Triggered
      BY <3>2 DEF Triggered, GraphTypeOK, Children
    <3> QED
      BY <2>3, <3>1, <3>2, TriggerOrNot
  <2>4. ASSUME graphLaunch(deploy.budget)
        PROVE  RingTypeOK(Requests, Replies)' /\ KernelTypeOK' /\ GraphTypeOK'
    <3>1. rxData[kCur] \in Requests
      BY <2>4 DEF graphLaunch, PagesWritten
    <3>2. rxData[kCur].id \in Nat
      BY <3>1, RequestParts
    <3> QED
      BY <2>4, <3>2 DEF graphLaunch, fireAndForget, Launches, GraphTypeOK, Children
  <2>5. ASSUME graphTail
        PROVE  RingTypeOK(Requests, Replies)' /\ KernelTypeOK' /\ GraphTypeOK'
    BY <2>5 DEF graphTail, GraphTypeOK
  <2>6. ASSUME tailLaunched
        PROVE  RingTypeOK(Requests, Replies)' /\ KernelTypeOK' /\ GraphTypeOK'
    BY <2>6 DEF tailLaunched, execution, GraphTypeOK
  <2>7. ASSUME UNCHANGED graphVars PROVE GraphTypeOK'
    BY <2>7 DEF graphVars, GraphTypeOK
  <2>8. graphRun(deploy.budget, deploy.triggered) => kernelRun
    BY DEF graphRun
  <2> QED
    BY <2>1, <2>2, <2>3, <2>4, <2>5, <2>6, <2>7, <2>8, KernelSteps
<1> QED
  BY <1>1, <1>2 DEF SharedTypeOK

LEMMA SharedTypeRest ==
  ASSUME SharedTypeOK, PagesWritten, GraphStep \/ Owner
  PROVE  SharedTypeOK'
<1>1. /\ XcvrTypeOK(Requests, Replies)' /\ DispTypeOK'
      /\ deploy' = deploy /\ arrived' = arrived /\ overtaken' \in BOOLEAN
  BY DEF GraphStep, Owner, SharedTypeOK, XcvrTypeOK, DispTypeOK, xcvrVars, rxVars,
     txVars, hostVars, dispVars
<1>2. RingTypeOK(Requests, Replies)' /\ KernelTypeOK' /\ GraphTypeOK'
  <2> USE DEF SharedTypeOK, RingTypeOK, KernelTypeOK, GraphTypeOK, ringVars,
        kernelVars, graphVars
  <2>1. CASE childRun
    <3>1. PICK g \in gGraphs :
            /\ g.kind = "call" /\ g.pc = "new"
            /\ txData' = [txData EXCEPT ![gIo] = Reply(rxData[gIo])]
            /\ kExecuted' = Append(kExecuted, rxData[gIo].id)
            /\ gGraphs' = (gGraphs \ {g})
                            \cup {[g EXCEPT !.slot = gIo, !.pc = "ran"]}
      BY <2>1 DEF childRun
    <3>2. rxData[gIo] \in Requests
      BY <3>1 DEF PagesWritten
    <3>3. rxData[gIo].id \in Nat /\ Reply(rxData[gIo]) \in Replies
      BY <3>2, RequestParts
    <3>4. Append(kExecuted, rxData[gIo].id) \in Seq(Nat)
      BY <3>3, AppendProperties
    <3>5. [g EXCEPT !.slot = gIo, !.pc = "ran"] \in Children
      BY DEF Children
    <3> QED
      BY <2>1, <3>1, <3>3, <3>4, <3>5 DEF childRun
  <2>2. CASE childEnd
    BY <2>2 DEF childEnd
  <2>3. CASE stopKernel /\ UNCHANGED graphVars
    BY <2>3 DEF stopKernel
  <2>4. CASE launchDispatchGraph
    BY <2>4 DEF launchDispatchGraph, execution
  <2> QED
    BY <2>1, <2>2, <2>3, <2>4 DEF GraphStep, childStep, Owner
<1> QED
  BY <1>1, <1>2 DEF SharedTypeOK

-----------------------------------------------------------------------------
(* SharedRingService: what is read is a request, one step at a time.       *)

LEMMA PagesTransport ==
  ASSUME SharedTypeOK, PagesWritten, TransportThreads PROVE PagesWritten'
<1> USE SharedTypes DEF TransportThreads, PagesWritten, Receiving, ringVars, rxVars,
      txVars, rxVars1, txVars1, hostVars, dispVars, deviceVars, kernelVars, graphVars
<1>1. CASE start
  BY <1>1 DEF start
<1>2. CASE rxRecv
  <2>1. sock \in Seq(Datagrams(Requests)) /\ sock # << >>
    BY <1>2 DEF rxRecv
  <2>2. Head(sock) \in Datagrams(Requests)
    BY <2>1, HeadTailProperties
  <2>3. Head(sock).body \in Requests
    BY <2>2 DEF Datagrams
  <2> QED
    BY <1>2, <2>3 DEF rxRecv
<1>3. CASE rxLoadRx \/ rxLoadTx
  BY <1>3 DEF rxLoadRx, rxLoadTx
<1>4. CASE rxCopy
  BY <1>4 DEF rxCopy
<1>5. CASE rxPublish
  BY <1>5 DEF rxPublish
<1>6. CASE rxExit
  BY <1>6 DEF rxExit
<1>7. CASE txLoop
  BY <1>7 DEF txLoop, txLoad, txSend, txClear, txExit
<1> QED
  BY <1>1, <1>2, <1>3, <1>4, <1>5, <1>6, <1>7 DEF rxLoop

LEMMA PagesHost ==
  ASSUME SharedTypeOK, PagesWritten, HostLoop PROVE PagesWritten'
<1> USE SharedTypes DEF HostLoop, PagesWritten, Receiving, ringVars, dispVars,
      xcvrVars, rxVars, txVars, deviceVars, kernelVars, graphVars
<1>1. CASE pollRequest \/ pollScan \/ pollProbe \/ pollReload
  BY <1>1 DEF pollRequest, pollScan, pollProbe, pollReload
<1>2. CASE checkHeader
  BY <1>2 DEF checkHeader, Retire
<1>3. CASE invokeHostCall
  BY <1>3 DEF invokeHostCall, Retire
<1>4. CASE sendResponse
  BY <1>4 DEF sendResponse, Retire
<1>5. CASE retireRequest
  BY <1>5 DEF retireRequest
<1>6. CASE exitLoop \/ raiseShutdown
  BY <1>6 DEF exitLoop, raiseShutdown
<1> QED
  BY <1>1, <1>2, <1>3, <1>4, <1>5, <1>6 DEF ringDispatchLoop

LEMMA PagesKernel ==
  ASSUME SharedTypeOK, PagesWritten, KernelStep PROVE PagesWritten'
<1>0. UNCHANGED <<rxPc, rxBuf, rxNext, dPc, dSlot>>
  BY DEF KernelStep, xcvrVars, rxVars, hostVars, dispVars
<1> USE SharedTypes, <1>0 DEF PagesWritten, Receiving, ringVars, graphVars
<1>1. CASE KernelPlain /\ UNCHANGED graphVars
  <2>1. CASE kernelPoll \/ kernelScan \/ kernelProbe
    BY <1>1, <2>1 DEF kernelPoll, kernelScan, kernelProbe
  <2>2. CASE kernelHeader
    BY <1>1, <2>2 DEF kernelHeader, kernelClaim
  <2>3. CASE kernelDrop \/ kernelRetire
    BY <1>1, <2>3 DEF kernelDrop, kernelRetire
  <2>4. CASE kernelPublish \/ kernelExit
    BY <1>1, <2>4 DEF kernelPublish, kernelExit
  <2> QED
    BY <1>1, <2>1, <2>2, <2>3, <2>4 DEF KernelPlain
<1>2. CASE kernelRun /\ (UNCHANGED graphVars \/ Triggered)
  <2>1. \A g : g \in gGraphs' /\ g.kind = "call" => g \in gGraphs
    BY <1>2 DEF Triggered
  <2> QED
    BY <1>2, <2>1 DEF kernelRun, Triggered
<1>3. CASE graphLaunch(deploy.budget)
  BY <1>3 DEF graphLaunch
<1>4. CASE graphTail
  BY <1>4 DEF graphTail
<1>5. CASE tailLaunched
  BY <1>5 DEF tailLaunched, execution
<1> QED
  BY <1>1, <1>2, <1>3, <1>4, <1>5, KernelSteps, TriggerOrNot DEF graphRun

LEMMA PagesRest ==
  ASSUME SharedTypeOK, PagesWritten, GraphStep \/ Owner PROVE PagesWritten'
<1>0. UNCHANGED <<rxPc, rxBuf, rxNext, dPc, dSlot>>
  BY DEF GraphStep, Owner, xcvrVars, rxVars, hostVars, dispVars
<1> USE SharedTypes, <1>0 DEF PagesWritten, Receiving, ringVars, kernelVars, graphVars
<1>1. CASE childRun
  BY <1>1 DEF childRun
<1>2. CASE childEnd
  BY <1>2 DEF childEnd
<1>3. CASE stopKernel /\ UNCHANGED graphVars
  BY <1>3 DEF stopKernel
<1>4. CASE launchDispatchGraph
  BY <1>4 DEF launchDispatchGraph, execution
<1> QED
  BY <1>1, <1>2, <1>3, <1>4 DEF GraphStep, childStep, Owner

LEMMA PagesArrive ==
  ASSUME PagesWritten, Arrive PROVE PagesWritten'
  BY DEF Arrive, PagesWritten, Receiving, rxVars, ringVars, hostVars, dispVars,
     deviceVars, kernelVars, graphVars

(* The types are inductive with that, whoever overtakes whom.              *)
WellTyped == SharedTypeOK /\ PagesWritten

LEMMA WellTypedNext ==
  ASSUME WellTyped, [SharedNext]_sharedVars PROVE WellTyped'
<1> USE DEF WellTyped
<1>1. CASE Arrive
  BY <1>1, SharedTypeArrive, PagesArrive
<1>2. CASE TransportThreads
  BY <1>2, SharedTypeTransport, PagesTransport
<1>3. CASE HostLoop
  BY <1>3, SharedTypeHost, PagesHost
<1>4. CASE KernelStep
  BY <1>4, SharedTypeKernel, PagesKernel
<1>5. CASE GraphStep \/ Owner
  BY <1>5, SharedTypeRest, PagesRest
<1>6. CASE UNCHANGED sharedVars
  BY <1>6 DEF sharedVars, xcvrVars, rxVars, txVars, ringVars, hostVars, dispVars,
     deviceVars, kernelVars, graphVars, SharedTypeOK, PagesWritten, RingTypeOK,
     XcvrTypeOK, DispTypeOK, KernelTypeOK, GraphTypeOK, Receiving
<1> QED
  BY <1>1, <1>2, <1>3, <1>4, <1>5, <1>6 DEF SharedNext

(* What has been overtaken stays so.                                       *)
LEMMA StaysOvertaken ==
  ASSUME SharedTypeOK, [SharedNext]_sharedVars, overtaken PROVE overtaken'
  BY DEF SharedTypeOK, SharedNext, Arrive, TransportThreads, HostLoop, KernelStep,
     GraphStep, Owner, sharedVars

-----------------------------------------------------------------------------
(* SharedRingService: the slot layer, one step at a time.                  *)

LEMMA SlotArrive == ASSUME SlotInv, Arrive PROVE SlotInv'
<1>1. SharedTypeOK' /\ PagesWritten'
  BY SharedTypeArrive, PagesArrive DEF SlotInv
<1> QED
  BY <1>1 DEF Arrive, SlotInv, Deployed, FillsFreeSlot, Reading,
     OwnersAgree, HostHas, KernelHas, ChildHas, ForKernel, ReadersCurrent,
     ChildrenApart, rxVars, txVars, ringVars, hostVars, dispVars, deviceVars,
     kernelVars, graphVars
LEMMA SlotTransport ==
  ASSUME ~overtaken', SlotInv, TransportThreads PROVE SlotInv'
<1>0. SharedTypeOK' /\ PagesWritten'
  BY SharedTypeTransport, PagesTransport DEF SlotInv
<1> USE SharedTypes DEF SlotInv, TransportThreads, Overtakes, ringVars, rxVars, txVars,
      rxVars1, txVars1, hostVars, dispVars, deviceVars, kernelVars, graphVars
<1>1. CASE start
  <2> USE <1>1 DEF start
  <2>1. Deployed'
    BY DEF Deployed
  <2>2. FillsFreeSlot'
    BY DEF FillsFreeSlot, Reading
  <2>3. OwnersAgree'
    BY DEF OwnersAgree, HostHas, KernelHas, ChildHas, ForKernel
  <2>4. ReadersCurrent'
    BY DEF ReadersCurrent, Reading
  <2>5. ChildrenApart'
    BY DEF ChildrenApart
  <2> QED
    BY <1>0, <2>1, <2>2, <2>3, <2>4, <2>5
<1>2. CASE rxRecv
  <2> USE <1>2 DEF rxRecv
  <2>0. Head(sock).body \in Requests
    <3>1. sock \in Seq(Datagrams(Requests)) /\ sock # << >>
      OBVIOUS
    <3>2. Head(sock) \in Datagrams(Requests)
      BY <3>1, HeadTailProperties
    <3> QED
      BY <3>2 DEF Datagrams
  <2>1. Deployed'
    BY DEF Deployed
  <2>2. FillsFreeSlot'
    BY <2>0 DEF FillsFreeSlot, Reading
  <2>3. OwnersAgree'
    BY DEF OwnersAgree, HostHas, KernelHas, ChildHas, ForKernel
  <2>4. ReadersCurrent'
    BY DEF ReadersCurrent, Reading
  <2>5. ChildrenApart'
    BY DEF ChildrenApart
  <2> QED
    BY <1>0, <2>1, <2>2, <2>3, <2>4, <2>5
<1>3. CASE rxLoadRx
  <2> USE <1>3 DEF rxLoadRx
  <2>1. Deployed'
    BY DEF Deployed
  <2>2. FillsFreeSlot'
    BY DEF FillsFreeSlot, Reading
  <2>3. OwnersAgree'
    BY DEF OwnersAgree, HostHas, KernelHas, ChildHas, ForKernel
  <2>4. ReadersCurrent'
    BY DEF ReadersCurrent, Reading
  <2>5. ChildrenApart'
    BY DEF ChildrenApart
  <2> QED
    BY <1>0, <2>1, <2>2, <2>3, <2>4, <2>5
<1>4. CASE rxLoadTx
  <2> USE <1>4 DEF rxLoadTx
  <2>1. Deployed'
    BY DEF Deployed
  <2>2. FillsFreeSlot'
    BY DEF FillsFreeSlot, Reading
  <2>3. OwnersAgree'
    BY DEF OwnersAgree, HostHas, KernelHas, ChildHas, ForKernel
  <2>4. ReadersCurrent'
    BY DEF ReadersCurrent, Reading
  <2>5. ChildrenApart'
    BY DEF ChildrenApart
  <2> QED
    BY <1>0, <2>1, <2>2, <2>3, <2>4, <2>5
<1>5. CASE rxCopy
  <2> USE <1>5 DEF rxCopy
  <2>0. /\ ~rxFlag[rxNext] /\ ~Reading(rxNext) /\ ~HostHas(rxNext)
        /\ ~KernelHas(rxNext) /\ ~ChildHas(rxNext)
        /\ \A s \in Slots : s # rxNext => rxData'[s] = rxData[s]
    BY DEF FillsFreeSlot, OwnersAgree, Reading, ChildHas
  <2>1. Deployed'
    BY DEF Deployed
  <2>2. FillsFreeSlot'
    BY DEF FillsFreeSlot, Reading
  <2>3. OwnersAgree'
    BY <2>0 DEF OwnersAgree, HostHas, KernelHas, ChildHas, ForKernel
  <2>4. ReadersCurrent'
    BY <2>0 DEF ReadersCurrent, Reading, PagesWritten, Receiving
  <2>5. ChildrenApart'
    BY <2>0 DEF ChildrenApart, ChildHas
  <2> QED
    BY <1>0, <2>1, <2>2, <2>3, <2>4, <2>5
<1>6. CASE rxPublish
  <2> USE <1>6 DEF rxPublish
  <2>0. /\ ~Reading(rxNext) /\ ~ChildHas(rxNext) /\ ~txFlag[rxNext]
        /\ rxData[rxNext] \in Requests
        /\ \A s \in Slots : s # rxNext => rxFlag'[s] = rxFlag[s]
        /\ rxFlag'[rxNext]
    BY DEF FillsFreeSlot, PagesWritten, Receiving, Reading, ChildHas
  <2>1. Deployed'
    BY DEF Deployed
  <2>2. FillsFreeSlot'
    BY DEF FillsFreeSlot, Reading
  <2>3. OwnersAgree'
    BY <2>0 DEF OwnersAgree, HostHas, KernelHas, ChildHas, ForKernel
  <2>4. ReadersCurrent'
    BY <2>0 DEF ReadersCurrent, Reading
  <2>5. ChildrenApart'
    BY DEF ChildrenApart
  <2> QED
    BY <1>0, <2>1, <2>2, <2>3, <2>4, <2>5
<1>7. CASE rxExit
  <2> USE <1>7 DEF rxExit
  <2>1. Deployed'
    BY DEF Deployed
  <2>2. FillsFreeSlot'
    BY DEF FillsFreeSlot, Reading
  <2>3. OwnersAgree'
    BY DEF OwnersAgree, HostHas, KernelHas, ChildHas, ForKernel
  <2>4. ReadersCurrent'
    BY DEF ReadersCurrent, Reading
  <2>5. ChildrenApart'
    BY DEF ChildrenApart
  <2> QED
    BY <1>0, <2>1, <2>2, <2>3, <2>4, <2>5
<1>8. CASE txLoad
  <2> USE <1>8 DEF txLoad
  <2>1. Deployed'
    BY DEF Deployed
  <2>2. FillsFreeSlot'
    BY DEF FillsFreeSlot, Reading
  <2>3. OwnersAgree'
    BY DEF OwnersAgree, HostHas, KernelHas, ChildHas, ForKernel
  <2>4. ReadersCurrent'
    BY DEF ReadersCurrent, Reading
  <2>5. ChildrenApart'
    BY DEF ChildrenApart
  <2> QED
    BY <1>0, <2>1, <2>2, <2>3, <2>4, <2>5
<1>9. CASE txSend
  <2> USE <1>9 DEF txSend
  <2>1. Deployed'
    BY DEF Deployed
  <2>2. FillsFreeSlot'
    BY DEF FillsFreeSlot, Reading
  <2>3. OwnersAgree'
    BY DEF OwnersAgree, HostHas, KernelHas, ChildHas, ForKernel
  <2>4. ReadersCurrent'
    BY DEF ReadersCurrent, Reading
  <2>5. ChildrenApart'
    BY DEF ChildrenApart
  <2> QED
    BY <1>0, <2>1, <2>2, <2>3, <2>4, <2>5
<1>10. CASE txClear
  <2> USE <1>10 DEF txClear
  <2>1. Deployed'
    BY DEF Deployed
  <2>2. FillsFreeSlot'
    BY DEF FillsFreeSlot, Reading
  <2>3. OwnersAgree'
    BY DEF OwnersAgree, HostHas, KernelHas, ChildHas, ForKernel
  <2>4. ReadersCurrent'
    BY DEF ReadersCurrent, Reading
  <2>5. ChildrenApart'
    BY DEF ChildrenApart
  <2> QED
    BY <1>0, <2>1, <2>2, <2>3, <2>4, <2>5
<1>11. CASE txExit
  <2> USE <1>11 DEF txExit
  <2>1. Deployed'
    BY DEF Deployed
  <2>2. FillsFreeSlot'
    BY DEF FillsFreeSlot, Reading
  <2>3. OwnersAgree'
    BY DEF OwnersAgree, HostHas, KernelHas, ChildHas, ForKernel
  <2>4. ReadersCurrent'
    BY DEF ReadersCurrent, Reading
  <2>5. ChildrenApart'
    BY DEF ChildrenApart
  <2> QED
    BY <1>0, <2>1, <2>2, <2>3, <2>4, <2>5
<1> QED
  BY <1>1, <1>2, <1>3, <1>4, <1>5, <1>6, <1>7, <1>8, <1>9, <1>10, <1>11
  DEF rxLoop, txLoop

LEMMA SlotHost == ASSUME SlotInv, HostLoop PROVE SlotInv'
<1>0. SharedTypeOK' /\ PagesWritten'
  BY SharedTypeHost, PagesHost DEF SlotInv
<1> USE SharedTypes DEF SlotInv, HostLoop, ringVars, dispVars, xcvrVars, rxVars,
      txVars, deviceVars, kernelVars, graphVars
<1>1. CASE pollRequest
  <2> USE <1>1 DEF pollRequest
  <2>1. Deployed'
    BY DEF Deployed
  <2>2. FillsFreeSlot'
    BY DEF FillsFreeSlot, Reading
  <2>3. OwnersAgree'
    BY DEF OwnersAgree, HostHas, KernelHas, ChildHas, ForKernel
  <2>4. ReadersCurrent'
    BY DEF ReadersCurrent, Reading
  <2>5. ChildrenApart'
    BY DEF ChildrenApart
  <2> QED
    BY <1>0, <2>1, <2>2, <2>3, <2>4, <2>5
<1>2. CASE pollScan
  <2> USE <1>2 DEF pollScan
  <2>1. Deployed'
    BY DEF Deployed
  <2>2. FillsFreeSlot'
    BY DEF FillsFreeSlot, Reading
  <2>3. OwnersAgree'
    BY DEF OwnersAgree, HostHas, KernelHas, ChildHas, ForKernel
  <2>4. ReadersCurrent'
    BY DEF ReadersCurrent, Reading
  <2>5. ChildrenApart'
    BY DEF ChildrenApart
  <2> QED
    BY <1>0, <2>1, <2>2, <2>3, <2>4, <2>5
<1>3. CASE pollProbe \/ pollReload
  <2> USE <1>3 DEF pollProbe, pollReload
  <2>1. Deployed'
    BY DEF Deployed
  <2>2. FillsFreeSlot'
    BY DEF FillsFreeSlot, Reading
  <2>3. OwnersAgree'
    BY DEF OwnersAgree, HostHas, KernelHas, ChildHas, ForKernel
  <2>4. ReadersCurrent'
    BY DEF ReadersCurrent, Reading
  <2>5. ChildrenApart'
    BY DEF ChildrenApart
  <2> QED
    BY <1>0, <2>1, <2>2, <2>3, <2>4, <2>5
<1>4. CASE checkHeader
  <2> USE <1>4 DEF checkHeader, Retire
  <2>1. Deployed'
    BY DEF Deployed
  <2>2. FillsFreeSlot'
    BY DEF FillsFreeSlot, Reading
  <2>3. OwnersAgree'
    BY DEF ReadersCurrent, OwnersAgree, HostHas, KernelHas, ChildHas, ForKernel
  <2>4. ReadersCurrent'
    BY DEF ReadersCurrent, Reading
  <2>5. ChildrenApart'
    BY DEF ChildrenApart
  <2> QED
    BY <1>0, <2>1, <2>2, <2>3, <2>4, <2>5
<1>5. CASE invokeHostCall
  <2> USE <1>5 DEF invokeHostCall, Retire
  <2>0. /\ rxFlag[dSlot] /\ rxData[dSlot] \in Requests /\ IsHostCall(rxData[dSlot])
        /\ ~ChildHas(dSlot) /\ rxData' = rxData
        /\ \A s \in Slots : s # dSlot => txData'[s] = txData[s]
    BY ModesDiffer DEF OwnersAgree, ReadersCurrent, HostHas
  <2>1. Deployed'
    BY ModesDiffer DEF Deployed
  <2>2. FillsFreeSlot'
    BY <2>0 DEF FillsFreeSlot, Reading
  <2>3. OwnersAgree'
    BY ModesDiffer DEF OwnersAgree, HostHas, KernelHas, ChildHas, ForKernel
  <2>4. ReadersCurrent'
    BY <2>0 DEF ReadersCurrent, Reading
  <2>5. ChildrenApart'
    BY <2>0 DEF ChildrenApart, ChildHas, Children
  <2> QED
    BY <1>0, <2>1, <2>2, <2>3, <2>4, <2>5
<1>6. CASE sendResponse
  <2> USE <1>6 DEF sendResponse, Retire
  <2>0. /\ rxFlag[dSlot] /\ rxData[dSlot] \in Requests
        /\ ~ChildHas(dSlot)
        /\ \A s \in Slots : s # dSlot => txFlag'[s] = txFlag[s]
    BY ModesDiffer DEF OwnersAgree, ReadersCurrent, HostHas
  <2>1. Deployed'
    BY ModesDiffer DEF Deployed
  <2>2. FillsFreeSlot'
    BY <2>0 DEF FillsFreeSlot, Reading
  <2>3. OwnersAgree'
    BY ModesDiffer DEF OwnersAgree, HostHas, KernelHas, ChildHas, ForKernel
  <2>4. ReadersCurrent'
    BY <2>0 DEF ReadersCurrent, Reading
  <2>5. ChildrenApart'
    BY ModesDiffer DEF ChildrenApart
  <2> QED
    BY <1>0, <2>1, <2>2, <2>3, <2>4, <2>5
<1>7. CASE retireRequest
  <2> USE <1>7 DEF retireRequest
  <2>0. /\ SharedRing /\ \A s \in Slots : rxFlag'[s] = rxFlag[s] \/ s = dSlot
        /\ dOutcome = "Foreign" => rxFlag' = rxFlag
        /\ dOutcome = "Drop" => ~rxData[dSlot].magic
        /\ dOutcome = "Handled" => HostHas(dSlot) /\ IsHostCall(rxData[dSlot])
        /\ dOutcome \in {"Foreign", "Drop", "Handled"}
        /\ \A s \in Slots : rxFlag'[s] => rxFlag[s]
    BY SharedRingAssumption
    DEF ReadersCurrent, OwnersAgree, HostHas, SharedTypeOK, DispTypeOK
  <2>1. Deployed'
    BY ModesDiffer, SharedRingAssumption DEF Deployed
  <2>2. FillsFreeSlot'
    BY ModesDiffer, SharedRingAssumption DEF FillsFreeSlot, Reading
  <2>3. OwnersAgree'
    BY <2>0, ModesDiffer DEF OwnersAgree, HostHas, KernelHas, ChildHas, ForKernel
  <2>4. ReadersCurrent'
    BY <2>0, ModesDiffer DEF ForKernel,  ReadersCurrent, Reading
  <2>5. ChildrenApart'
    BY ModesDiffer, SharedRingAssumption DEF ChildrenApart
  <2> QED
    BY <1>0, <2>1, <2>2, <2>3, <2>4, <2>5
<1>8. CASE exitLoop
  <2> USE <1>8 DEF exitLoop
  <2>1. Deployed'
    BY DEF Deployed
  <2>2. FillsFreeSlot'
    BY DEF FillsFreeSlot, Reading
  <2>3. OwnersAgree'
    BY DEF OwnersAgree, HostHas, KernelHas, ChildHas, ForKernel
  <2>4. ReadersCurrent'
    BY DEF ReadersCurrent, Reading
  <2>5. ChildrenApart'
    BY DEF ChildrenApart
  <2> QED
    BY <1>0, <2>1, <2>2, <2>3, <2>4, <2>5
<1>9. CASE raiseShutdown
  <2> USE <1>9 DEF raiseShutdown
  <2>1. Deployed'
    BY DEF Deployed
  <2>2. FillsFreeSlot'
    BY DEF FillsFreeSlot, Reading
  <2>3. OwnersAgree'
    BY DEF OwnersAgree, HostHas, KernelHas, ChildHas, ForKernel
  <2>4. ReadersCurrent'
    BY DEF ReadersCurrent, Reading
  <2>5. ChildrenApart'
    BY DEF ChildrenApart
  <2> QED
    BY <1>0, <2>1, <2>2, <2>3, <2>4, <2>5
<1> QED
  BY <1>1, <1>2, <1>3, <1>4, <1>5, <1>6, <1>7, <1>8, <1>9 DEF ringDispatchLoop

(* What a launch for a GRAPH_LAUNCH request does: a child more, if it      *)
(* could be launched, and the context describes its slot.                  *)
Launched ==
  /\ gIo' = kCur
  /\ gGraphs' = gGraphs \/ gGraphs' = gGraphs \cup {[id |-> rxData[kCur].id,
                               slot |-> kCur, kind |-> "call", pc |-> "new"]}

LEMMA LaunchOrNot ==
  ASSUME NEW b, graphLaunch(b)
  PROVE  /\ Launched
         /\ \A g \in gGraphs' :
            g \in gGraphs \/ (g.slot = kCur /\ g.pc = "new" /\ g.id = rxData[kCur].id)
<1>1. Launched
  <2>1. CASE Launches(b)
    BY <2>1 DEF graphLaunch, fireAndForget, Launched
  <2>2. CASE ~Launches(b)
    BY <2>2 DEF graphLaunch, fireAndForget, Launched
  <2> QED
    BY <2>1, <2>2
<1>2. CASE gGraphs' = gGraphs
  BY <1>1, <1>2
<1>3. CASE gGraphs' # gGraphs
  <2> DEFINE c == [id |-> rxData[kCur].id, slot |-> kCur, kind |-> "call", pc |-> "new"]
  <2>1. c.slot = kCur /\ c.pc = "new" /\ c.id = rxData[kCur].id
    OBVIOUS
  <2>2. gGraphs' = gGraphs \cup {c}
    BY <1>1, <1>3 DEF Launched
  <2> HIDE DEF c
  <2> QED
    BY <1>1, <2>1, <2>2
<1> QED
  BY <1>1, <1>2, <1>3

LEMMA SlotKernel == ASSUME ~overtaken', SlotInv, KernelStep PROVE SlotInv'
<1>0. SharedTypeOK' /\ PagesWritten'
  BY SharedTypeKernel, PagesKernel DEF SlotInv
<1> USE SharedTypes DEF SlotInv, KernelStep, MovesContext, ringVars, xcvrVars, rxVars, txVars,
      hostVars, dispVars, graphVars
<1>1. CASE (kernelPoll \/ kernelScan \/ kernelProbe) /\ UNCHANGED graphVars
  <2> USE <1>1 DEF kernelPoll, kernelScan, kernelProbe
  <2>1. Deployed'
    BY DEF Deployed
  <2>2. FillsFreeSlot'
    BY DEF FillsFreeSlot, Reading
  <2>3. OwnersAgree'
    BY DEF OwnersAgree, HostHas, KernelHas, ChildHas, ForKernel
  <2>4. ReadersCurrent'
    BY DEF ReadersCurrent, Reading, ForKernel
  <2>5. ChildrenApart'
    BY DEF ChildrenApart
  <2> QED
    BY <1>0, <2>1, <2>2, <2>3, <2>4, <2>5
<1>2. CASE kernelHeader /\ UNCHANGED graphVars
  <2> USE <1>2 DEF kernelHeader, kernelClaim
  <2>1. Deployed'
    BY DEF Deployed
  <2>2. FillsFreeSlot'
    BY DEF FillsFreeSlot, Reading
  <2>3. OwnersAgree'
    BY DEF OwnersAgree, HostHas, KernelHas, ChildHas, ForKernel, ReadersCurrent
  <2>4. ReadersCurrent'
    BY DEF ReadersCurrent, Reading, ForKernel, Deployed
  <2>5. ChildrenApart'
    BY DEF ChildrenApart
  <2> QED
    BY <1>0, <2>1, <2>2, <2>3, <2>4, <2>5
<1>3. CASE kernelDrop /\ UNCHANGED graphVars
  <2> USE <1>3 DEF kernelDrop
  <2>0. /\ ~HostHas(kCur) /\ \A s \in Slots : s # kCur => rxFlag'[s] = rxFlag[s]
        /\ \A s \in Slots : rxFlag'[s] => rxFlag[s] /\ s # kCur
    BY DEF OwnersAgree, ReadersCurrent, HostHas, Deployed
  <2>1. Deployed'
    BY DEF Deployed
  <2>2. FillsFreeSlot'
    BY DEF FillsFreeSlot, Reading
  <2>3. OwnersAgree'
    BY <2>0 DEF OwnersAgree, HostHas, KernelHas, ChildHas, ForKernel
  <2>4. ReadersCurrent'
    BY <2>0 DEF ReadersCurrent, Reading, ForKernel, Deployed
  <2>5. ChildrenApart'
    BY DEF ChildrenApart
  <2> QED
    BY <1>0, <2>1, <2>2, <2>3, <2>4, <2>5
<1>4. CASE kernelRun /\ (UNCHANGED graphVars \/ Triggered)
  <2> USE <1>4 DEF kernelRun, Triggered
  <2>0. /\ KernelHas(kCur) /\ ~ChildHas(kCur) /\ rxFlag[kCur]
        /\ \A s \in Slots : s # kCur => txData'[s] = txData[s]
    BY DEF KernelHas, OwnersAgree
  <2>a. \A g : g \in gGraphs' /\ g.kind = "call" <=> g \in gGraphs /\ g.kind = "call"
    OBVIOUS
  <2>b. \A g \in gGraphs' : g.pc = "ran" => g \in gGraphs
    OBVIOUS
  <2>1. Deployed'
    BY DEF Deployed
  <2>2. FillsFreeSlot'
    BY <2>0, <2>a DEF FillsFreeSlot, Reading
  <2>3. OwnersAgree'
    BY <2>0, <2>a DEF OwnersAgree, HostHas, KernelHas, ChildHas, ForKernel
  <2>4. ReadersCurrent'
    BY <2>0, <2>a DEF ReadersCurrent, Reading, ForKernel
  <2>5. ChildrenApart'
    BY <2>0, <2>a, <2>b DEF ChildrenApart, ChildHas, Children
  <2> QED
    BY <1>0, <2>1, <2>2, <2>3, <2>4, <2>5
<1>5. CASE kernelPublish /\ UNCHANGED graphVars
  <2> USE <1>5 DEF kernelPublish
  <2>0. /\ KernelHas(kCur) /\ ~ChildHas(kCur) /\ rxFlag[kCur]
        /\ \A s \in Slots : s # kCur => txFlag'[s] = txFlag[s]
    BY DEF KernelHas, OwnersAgree
  <2>1. Deployed'
    BY DEF Deployed
  <2>2. FillsFreeSlot'
    BY <2>0 DEF FillsFreeSlot, Reading
  <2>3. OwnersAgree'
    BY <2>0 DEF OwnersAgree, HostHas, KernelHas, ChildHas, ForKernel
  <2>4. ReadersCurrent'
    BY DEF ReadersCurrent, Reading, ForKernel
  <2>5. ChildrenApart'
    BY DEF ChildrenApart
  <2> QED
    BY <1>0, <2>1, <2>2, <2>3, <2>4, <2>5
<1>6. CASE kernelRetire /\ UNCHANGED graphVars
  <2> USE <1>6 DEF kernelRetire
  <2>0. /\ ~HostHas(kCur) /\ ~IsHostCall(rxData[kCur])
        /\ \A s \in Slots : s # kCur => rxFlag'[s] = rxFlag[s]
        /\ \A s \in Slots : rxFlag'[s] => rxFlag[s] /\ s # kCur
    BY ModesDiffer DEF KernelHas, OwnersAgree, ForKernel
  <2>1. Deployed'
    BY DEF Deployed
  <2>2. FillsFreeSlot'
    BY DEF FillsFreeSlot, Reading
  <2>3. OwnersAgree'
    BY <2>0 DEF OwnersAgree, HostHas, KernelHas, ChildHas, ForKernel
  <2>4. ReadersCurrent'
    BY <2>0 DEF ReadersCurrent, Reading, ForKernel
  <2>5. ChildrenApart'
    BY DEF ChildrenApart
  <2> QED
    BY <1>0, <2>1, <2>2, <2>3, <2>4, <2>5
<1>7. CASE kernelExit /\ UNCHANGED graphVars
  <2> USE <1>7 DEF kernelExit
  <2>1. Deployed'
    BY DEF Deployed
  <2>2. FillsFreeSlot'
    BY DEF FillsFreeSlot, Reading
  <2>3. OwnersAgree'
    BY DEF OwnersAgree, HostHas, KernelHas, ChildHas, ForKernel
  <2>4. ReadersCurrent'
    BY DEF ReadersCurrent, Reading, ForKernel
  <2>5. ChildrenApart'
    BY DEF ChildrenApart
  <2> QED
    BY <1>0, <2>1, <2>2, <2>3, <2>4, <2>5
<1>8. CASE graphLaunch(deploy.budget)
  <2>9. Launched
    BY <1>8, LaunchOrNot
  <2>a. \A g \in gGraphs' :
            g \in gGraphs \/ (g.slot = kCur /\ g.pc = "new" /\ g.id = rxData[kCur].id)
    BY <1>8, LaunchOrNot
  <2> USE <1>8 DEF graphLaunch
  <2>0. /\ rxFlag[kCur] /\ ~txFlag[kCur] /\ ~ChildHas(kCur)
        /\ rxData[kCur] \in Requests
    BY ModesDiffer DEF OwnersAgree, ReadersCurrent, ForKernel, HostHas
  <2>1. Deployed'
    BY DEF Deployed
  <2>2. FillsFreeSlot'
    BY <2>0, <2>9, <2>a DEF Launched, FillsFreeSlot, Reading
  <2>3. OwnersAgree'
    BY <2>0, <2>9, <2>a DEF Launched, OwnersAgree, HostHas, KernelHas, ChildHas,
       ForKernel, ReadersCurrent
  <2>4. ReadersCurrent'
    BY <2>0, <2>9, <2>a DEF Launched, ReadersCurrent, Reading, ForKernel
  <2>5. ChildrenApart'
    BY <2>0, <2>9, <2>a DEF Launched, ChildrenApart, ChildHas, Children
  <2> QED
    BY <1>0, <2>1, <2>2, <2>3, <2>4, <2>5
<1>9. CASE graphTail
  <2> USE <1>9 DEF graphTail
  <2>1. Deployed'
    BY DEF Deployed
  <2>2. FillsFreeSlot'
    BY DEF FillsFreeSlot, Reading
  <2>3. OwnersAgree'
    BY DEF OwnersAgree, HostHas, KernelHas, ChildHas, ForKernel
  <2>4. ReadersCurrent'
    BY DEF ReadersCurrent, Reading, ForKernel
  <2>5. ChildrenApart'
    BY DEF ChildrenApart
  <2> QED
    BY <1>0, <2>1, <2>2, <2>3, <2>4, <2>5
<1>10. CASE tailLaunched
  <2> USE <1>10 DEF tailLaunched, execution
  <2>1. Deployed'
    BY DEF Deployed
  <2>2. FillsFreeSlot'
    BY DEF FillsFreeSlot, Reading
  <2>3. OwnersAgree'
    BY DEF OwnersAgree, HostHas, KernelHas, ChildHas, ForKernel
  <2>4. ReadersCurrent'
    BY DEF ReadersCurrent, Reading, ForKernel
  <2>5. ChildrenApart'
    BY DEF ChildrenApart
  <2> QED
    BY <1>0, <2>1, <2>2, <2>3, <2>4, <2>5
<1> QED
  BY <1>1, <1>2, <1>3, <1>4, <1>5, <1>6, <1>7, <1>8, <1>9, <1>10, KernelSteps,
     TriggerOrNot DEF KernelPlain, graphRun

LEMMA SlotRest == ASSUME SlotInv, GraphStep \/ Owner PROVE SlotInv'
<1>0. SharedTypeOK' /\ PagesWritten'
  BY SharedTypeRest, PagesRest DEF SlotInv
<1> USE SharedTypes DEF SlotInv, GraphStep, Owner, ringVars, xcvrVars, rxVars,
      txVars, hostVars, dispVars, kernelVars, graphVars
<1>1. CASE childRun
  <2> USE <1>1 DEF childRun
  <2>a. PICK g \in gGraphs :
          /\ g.kind = "call" /\ g.pc = "new"
          /\ txData' = [txData EXCEPT ![gIo] = Reply(rxData[gIo])]
          /\ gGraphs' = (gGraphs \ {g}) \cup {[g EXCEPT !.slot = gIo, !.pc = "ran"]}
    OBVIOUS
  <2>b. g.slot = gIo /\ rxData[gIo].id = g.id /\ ChildHas(gIo)
    BY <2>a DEF ChildrenApart, ChildHas
  <2> DEFINE h == [g EXCEPT !.slot = gIo, !.pc = "ran"]
  <2>c. /\ h.kind = "call" /\ h.slot = gIo /\ h.pc = "ran" /\ h.id = g.id
        /\ gGraphs' = (gGraphs \ {g}) \cup {h}
    BY <2>a, <2>b DEF Children
  <2> HIDE DEF h
  <2>d. \A s \in Slots : (ChildHas(s)' => ChildHas(s))
                        /\ (s # gIo => txData'[s] = txData[s])
    BY <2>a, <2>b, <2>c DEF ChildHas
  <2>1. Deployed'
    BY DEF Deployed
  <2>2. FillsFreeSlot'
    BY <2>a, <2>b, <2>c DEF FillsFreeSlot, Reading
  <2>3. OwnersAgree'
    <3>1. /\ rxFlag' = rxFlag /\ txFlag' = txFlag /\ rxData' = rxData
          /\ dPc' = dPc /\ dSlot' = dSlot /\ dOutcome' = dOutcome
          /\ kPc' = kPc /\ kCur' = kCur /\ kReqId' = kReqId
      OBVIOUS
    <3>2. ASSUME NEW s \in Slots, ChildHas(s)' PROVE ChildHas(s)
      BY <3>2, <2>d
    <3> HIDE <1>1 DEF childRun
    <3>3. ASSUME NEW s \in Slots, ChildHas(s)'
          PROVE  /\ ~txFlag[s] /\ IsGraphLaunch(rxData[s])
                 /\ rxFlag[s] => kPc = "retire" /\ kCur = s
      BY <3>2, <3>3 DEF OwnersAgree
    <3> QED
      BY <3>1, <3>3 DEF OwnersAgree, HostHas, KernelHas, ForKernel
  <2>4. ReadersCurrent'
    BY <2>a, <2>b, <2>c DEF ReadersCurrent, Reading, ForKernel
  <2>5. ChildrenApart'
    BY <2>a, <2>b, <2>c, <2>d DEF ChildrenApart, Children, Reply
  <2> QED
    BY <1>0, <2>1, <2>2, <2>3, <2>4, <2>5
<1>2. CASE childEnd
  <2> USE <1>2 DEF childEnd
  <2>a. PICK g \in gGraphs :
          /\ g.kind = "call" => g.pc = "ran"
          /\ txFlag' = IF g.kind = "call" THEN [txFlag EXCEPT ![g.slot] = TRUE]
                                          ELSE txFlag
          /\ gGraphs' = gGraphs \ {g}
    OBVIOUS
  <2>b. g.slot \in Slots /\ (g.kind = "call" => ChildHas(g.slot))
    BY DEF Children, ChildHas
  <2>c. \A s \in Slots : ChildHas(s)' => ChildHas(s) /\ (g.kind = "call" => s # g.slot)
    BY <2>a, <2>b DEF ChildHas, ChildrenApart
  <2>d. \A s \in Slots : txFlag'[s] # txFlag[s] => s = g.slot /\ g.kind = "call"
    BY <2>a, <2>b
  <2>1. Deployed'
    BY DEF Deployed
  <2>2. FillsFreeSlot'
    BY <2>a, <2>b, <2>d DEF FillsFreeSlot, Reading
  <2>3. OwnersAgree'
    BY <2>b, <2>c, <2>d DEF OwnersAgree, HostHas, KernelHas, ForKernel
  <2>4. ReadersCurrent'
    BY <2>a DEF ReadersCurrent, Reading, ForKernel
  <2>5. ChildrenApart'
    BY <2>a DEF ChildrenApart
  <2> QED
    BY <1>0, <2>1, <2>2, <2>3, <2>4, <2>5
<1>3. CASE stopKernel /\ UNCHANGED graphVars
  <2> USE <1>3 DEF stopKernel
  <2>1. Deployed'
    BY DEF Deployed
  <2>2. FillsFreeSlot'
    BY DEF FillsFreeSlot, Reading
  <2>3. OwnersAgree'
    BY DEF OwnersAgree, HostHas, KernelHas, ChildHas, ForKernel
  <2>4. ReadersCurrent'
    BY DEF ReadersCurrent, Reading, ForKernel
  <2>5. ChildrenApart'
    BY DEF ChildrenApart
  <2> QED
    BY <1>0, <2>1, <2>2, <2>3, <2>4, <2>5
<1>4. CASE launchDispatchGraph
  <2> USE <1>4 DEF launchDispatchGraph, execution
  <2>1. Deployed'
    BY DEF Deployed
  <2>2. FillsFreeSlot'
    BY DEF FillsFreeSlot, Reading
  <2>3. OwnersAgree'
    BY DEF OwnersAgree, HostHas, KernelHas, ChildHas, ForKernel
  <2>4. ReadersCurrent'
    BY DEF ReadersCurrent, Reading, ForKernel
  <2>5. ChildrenApart'
    BY DEF ChildrenApart
  <2> QED
    BY <1>0, <2>1, <2>2, <2>3, <2>4, <2>5
<1> QED
  BY <1>1, <1>2, <1>3, <1>4 DEF childStep

(* The slot layer is inductive.                                            *)
LEMMA SlotNext ==
  ASSUME ~overtaken', SlotInv, [SharedNext]_sharedVars PROVE SlotInv'
<1>1. CASE SharedNext
  BY <1>1, SlotArrive, SlotTransport, SlotHost, SlotKernel, SlotRest DEF SharedNext
<1>2. CASE UNCHANGED sharedVars
  BY <1>2 DEF sharedVars, xcvrVars, rxVars, txVars, ringVars, hostVars, dispVars,
     deviceVars, kernelVars, graphVars, SlotInv, SharedTypeOK, RingTypeOK,
     XcvrTypeOK, DispTypeOK, KernelTypeOK, GraphTypeOK, PagesWritten, Deployed,
     FillsFreeSlot, Receiving, Reading, OwnersAgree, HostHas, KernelHas, ChildHas, ForKernel,
     ReadersCurrent, ChildrenApart
<1> QED
  BY <1>1, <1>2

-----------------------------------------------------------------------------
(* SharedRingService: requests and replies are in one place each.          *)

(* The three invariants of this layer.                                     *)
Apart == RequestsApart /\ RunsApart /\ RepliesApart

LEMMA ApartInit == SharedInit => Apart
<1> SUFFICES ASSUME SharedInit PROVE Apart
  OBVIOUS
<1> USE DEF SharedInit, RingInit, XcvrInit, DispInit, KernelInit, GraphInit
<1>0. DOMAIN << >> = {}
  OBVIOUS
<1>1. RequestsApart
  BY <1>0 DEF RequestsApart, Receiving, Waits
<1>2. RunsApart
  BY <1>0 DEF RunsApart
<1>3. RepliesApart
  BY <1>0 DEF RepliesApart, Outgoing
<1> QED
  BY <1>1, <1>2, <1>3 DEF Apart

(* A step that runs nothing, sends nothing and takes nothing in.           *)
KeepsApart ==
  /\ UNCHANGED <<deploy, arrived, sock, executed, kExecuted, wire>>
  /\ Receiving' => Receiving /\ rxBuf' = rxBuf
  /\ \A s \in Slots : Waits(s)' => Waits(s) /\ rxData'[s] = rxData[s]
  /\ \A s \in Slots : Outgoing(s)' => Outgoing(s) /\ txData'[s] = txData[s]

LEMMA ApartKept == ASSUME Apart, KeepsApart PROVE Apart'
<1>1. /\ UNCHANGED <<deploy, arrived, sock, executed, kExecuted, wire>>
      /\ Receiving' => Receiving /\ rxBuf' = rxBuf
      /\ \A s \in Slots : Waits(s)' => Waits(s) /\ rxData'[s] = rxData[s]
      /\ \A s \in Slots : Outgoing(s)' => Outgoing(s) /\ txData'[s] = txData[s]
  BY DEF KeepsApart
<1>2. \A n : Ran(n)' <=> Ran(n)
  BY <1>1 DEF Ran
<1>3. \A r : Recorded(r) => r.id \in DOMAIN arrived' /\ arrived'[r.id].fn = r.fn
  BY <1>1 DEF Recorded
<1>4. RequestsApart'
  BY <1>1, <1>2 DEF RequestsApart, Apart, Recorded
<1>5. RunsApart'
  BY <1>1 DEF RunsApart, Apart
<1>6. RepliesApart'
  BY <1>1, <1>2 DEF RepliesApart, Apart
<1> QED
  BY <1>4, <1>5, <1>6 DEF Apart

(* One more id has run.                                                    *)
RunsOneMore(n) ==
  \/ executed' = Append(executed, n) /\ kExecuted' = kExecuted
  \/ kExecuted' = Append(kExecuted, n) /\ executed' = executed

LEMMA RanOneMore ==
  ASSUME SharedTypeOK, NEW n \in Nat, RunsOneMore(n)
  PROVE  \A m : Ran(m)' <=> Ran(m) \/ m = n
<1>1. executed \in Seq(Nat) /\ kExecuted \in Seq(Nat)
  BY SharedTypes
<1>2. CASE executed' = Append(executed, n) /\ kExecuted' = kExecuted
  BY <1>1, <1>2, AppendElements DEF Ran
<1>3. CASE kExecuted' = Append(kExecuted, n) /\ executed' = executed
  BY <1>1, <1>3, AppendElements DEF Ran
<1> QED
  BY <1>2, <1>3 DEF RunsOneMore

LEMMA RunsStayApart ==
  ASSUME SharedTypeOK, NEW n \in Nat, RunsOneMore(n), RunsApart, ~Ran(n),
         n \in DOMAIN arrived, arrived' = arrived
  PROVE  RunsApart'
<1>1. executed \in Seq(Nat) /\ kExecuted \in Seq(Nat)
  BY SharedTypes
<1>2. CASE executed' = Append(executed, n) /\ kExecuted' = kExecuted
  BY <1>1, <1>2, AppendElements DEF Ran, RunsApart
<1>3. CASE kExecuted' = Append(kExecuted, n) /\ executed' = executed
  BY <1>1, <1>3, AppendElements DEF Ran, RunsApart
<1> QED
  BY <1>2, <1>3 DEF RunsOneMore

(* A handler or a child graph runs for the request in slot w and writes    *)
(* its reply there.                                                        *)
RunsIn(w) ==
  /\ UNCHANGED <<deploy, arrived, sock, wire>> /\ rxData' = rxData
  /\ Receiving' => Receiving /\ rxBuf' = rxBuf
  /\ RunsOneMore(rxData[w].id)
  /\ rxData[w] \in Requests /\ Waits(w) /\ ~Waits(w)' /\ ~Outgoing(w)
  /\ \A s \in Slots : Waits(s)' => Waits(s)
  /\ \A s \in Slots : s # w /\ Outgoing(s)' => Outgoing(s) /\ txData'[s] = txData[s]
  /\ txData'[w] = [id |-> rxData[w].id]

LEMMA ApartRun ==
  ASSUME SharedTypeOK, Apart, NEW w \in Slots, RunsIn(w) PROVE Apart'
<1> DEFINE n == rxData[w].id
<1>1. /\ UNCHANGED <<deploy, arrived, sock, wire>> /\ rxData' = rxData
      /\ Receiving' => Receiving /\ rxBuf' = rxBuf
      /\ RunsOneMore(n) /\ n \in Nat
      /\ Waits(w) /\ ~Waits(w)' /\ ~Outgoing(w)
      /\ \A s \in Slots : Waits(s)' => Waits(s) /\ s # w
      /\ \A s \in Slots : s # w /\ Outgoing(s)' => Outgoing(s) /\ txData'[s] = txData[s]
      /\ txData'[w] = [id |-> n] /\ txData'[w] \in Replies
  BY RequestParts DEF RunsIn, Replies
<1>2. ~Ran(n) /\ n \in DOMAIN arrived
  BY <1>1 DEF Apart, RequestsApart, Recorded
<1>3. \A m : Ran(m)' <=> Ran(m) \/ m = n
  BY <1>1, RanOneMore
<1>4. RunsApart'
  BY <1>1, <1>2, RunsStayApart DEF Apart
<1>5. RequestsApart'
  BY <1>1, <1>3 DEF Apart, RequestsApart, Recorded
<1>6. RepliesApart'
  <2>1. /\ \A s \in Slots : Outgoing(s) => txData[s].id # n
        /\ \A i \in DOMAIN wire : wire[i].body.id # n
    BY <1>2 DEF Apart, RepliesApart
  <2> QED
    BY <1>1, <1>3, <2>1 DEF Apart, RepliesApart
<1> QED
  BY <1>4, <1>5, <1>6 DEF Apart

-----------------------------------------------------------------------------
(* The transport's steps that move a request or a reply.                   *)

LEMMA ApartArrive == ASSUME SlotInv, Apart, Arrive PROVE Apart'
<1>1. PICK k \in deploy.arriving, a \in Addresses :
        /\ arrived' = Append(arrived, k)
        /\ sock' = Append(sock, [from |-> a, fits |-> TRUE,
                     body |-> [id |-> Len(arrived) + 1, magic |-> k.magic,
                               fn |-> k.fn]])
  BY DEF Arrive
<1> DEFINE d == [from |-> a, fits |-> TRUE,
                 body |-> [id |-> Len(arrived) + 1, magic |-> k.magic, fn |-> k.fn]]
<1>2. k \in [magic : BOOLEAN, fn : FunctionIds]
  BY SharedRingAssumption DEF SlotInv, SharedTypeOK
<1>3. arrived \in Seq([magic : BOOLEAN, fn : FunctionIds]) /\ Len(arrived) \in Nat
  BY LenProperties DEF SlotInv, SharedTypeOK
<1>4. d \in Datagrams(Requests) /\ sock \in Seq(Datagrams(Requests))
  BY <1>2, <1>3, SharedTypes DEF SlotInv, Datagrams, Requests
<1>5. d.fits /\ d.body.id = Len(arrived) + 1 /\ d.body.fn = k.fn
  OBVIOUS
<1> HIDE DEF d
<1>6. /\ \A n \in DOMAIN arrived : n \in DOMAIN arrived' /\ arrived'[n] = arrived[n]
      /\ Len(arrived) + 1 \in DOMAIN arrived' /\ arrived'[Len(arrived) + 1] = k
      /\ \A n \in DOMAIN arrived' : n \in DOMAIN arrived \/ n = Len(arrived) + 1
      /\ Len(arrived) + 1 \notin DOMAIN arrived
  BY <1>1, <1>2, <1>3, AppendElements
<1>7. /\ \A i \in DOMAIN sock : i \in DOMAIN sock' /\ sock'[i] = sock[i]
      /\ sock'[Len(sock) + 1] = d
      /\ \A i \in DOMAIN sock' : i \in DOMAIN sock \/ i = Len(sock) + 1
  BY <1>1, <1>4, AppendElements DEF d
<1>8. /\ UNCHANGED <<deploy, rxPc, rxBuf, rxFlag, rxData, txFlag, txData, wire, txPc,
           txCursor, dPc, dSlot, dOutcome, kPc, kCur, gGraphs, executed, kExecuted>>
      /\ Receiving' = Receiving
      /\ \A s \in Slots : Waits(s)' = Waits(s) /\ Outgoing(s)' = Outgoing(s)
      /\ \A n : Ran(n)' <=> Ran(n)
  <2>1. UNCHANGED <<deploy, rxPc, rxBuf, rxFlag, rxData, txFlag, txData, wire, txPc,
           txCursor, dPc, dSlot, dOutcome, kPc, kCur, gGraphs, executed, kExecuted>>
    BY DEF Arrive, rxVars, txVars, ringVars, hostVars, dispVars, deviceVars,
       kernelVars, graphVars
  <2> QED
    BY <2>1 DEF Receiving, Waits, Outgoing, Ran, HostHas, KernelHas
<1>9. ~Ran(Len(arrived) + 1)
  BY <1>6 DEF Apart, RunsApart, Ran
<1>10. \A r : Recorded(r) => /\ r.id \in DOMAIN arrived' /\ arrived'[r.id].fn = r.fn
                             /\ r.id # Len(arrived) + 1
  BY <1>6 DEF Recorded
<1>11. RequestsApart'
  <2>1. \A n \in DOMAIN arrived' : arrived'[n] \in deploy'.arriving
    BY <1>6, <1>8 DEF Apart, RequestsApart
  <2>2. \A i \in DOMAIN sock' :
          /\ sock'[i].fits
          /\ sock'[i].body.id \in DOMAIN arrived'
          /\ arrived'[sock'[i].body.id].fn = sock'[i].body.fn
          /\ ~Ran(sock'[i].body.id)
    BY <1>5, <1>6, <1>7, <1>8, <1>9, <1>10 DEF Apart, RequestsApart
  <2>3. \A i, j \in DOMAIN sock' : sock'[i].body.id = sock'[j].body.id => i = j
    BY <1>5, <1>7, <1>10 DEF Apart, RequestsApart
  <2>4. Receiving' => /\ rxBuf'.id \in DOMAIN arrived'
                      /\ arrived'[rxBuf'.id].fn = rxBuf'.fn /\ ~Ran(rxBuf'.id)
                      /\ \A i \in DOMAIN sock' : sock'[i].body.id # rxBuf'.id
    BY <1>5, <1>7, <1>8, <1>10 DEF Apart, RequestsApart
  <2>5. \A s \in Slots : Waits(s)' =>
          /\ rxData'[s].id \in DOMAIN arrived'
          /\ arrived'[rxData'[s].id].fn = rxData'[s].fn /\ ~Ran(rxData'[s].id)
          /\ \A i \in DOMAIN sock' : sock'[i].body.id # rxData'[s].id
          /\ Receiving' => rxBuf'.id # rxData'[s].id
          /\ \A t \in Slots : Waits(t)' /\ rxData'[s].id = rxData'[t].id => s = t
    BY <1>5, <1>7, <1>8, <1>10 DEF Apart, RequestsApart
  <2> QED
    BY <1>8, <2>1, <2>2, <2>3, <2>4, <2>5 DEF RequestsApart, Recorded
<1>12. RunsApart'
  BY <1>6, <1>8 DEF Apart, RunsApart
<1>13. RepliesApart'
  BY <1>8 DEF Apart, RepliesApart
<1> QED
  BY <1>11, <1>12, <1>13 DEF Apart

(* What the waiting and the outgoing slots depend on.                      *)
LEMMA PlacesStay ==
  ASSUME UNCHANGED <<rxFlag, txFlag, txPc, txCursor, dPc, dSlot, dOutcome, kPc,
                     kCur, gGraphs, executed, kExecuted>>
  PROVE  /\ \A s \in Slots : Waits(s)' = Waits(s) /\ Outgoing(s)' = Outgoing(s)
         /\ \A n : Ran(n)' <=> Ran(n)
  BY DEF Waits, Outgoing, Ran, HostHas, KernelHas

(* A datagram leaves the socket.                                           *)
LEMMA ApartRecv ==
  ASSUME SlotInv, Apart, rxRecv, UNCHANGED <<deploy, arrived, hostVars, deviceVars>>
  PROVE  Apart'
<1>1. /\ sock \in Seq(Datagrams(Requests)) /\ sock # << >> /\ sock' = Tail(sock)
      /\ ~Receiving
  BY SharedTypes DEF SlotInv, rxRecv, Receiving
<1>2. /\ 1 \in DOMAIN sock /\ Head(sock) = sock[1]
      /\ \A i \in DOMAIN sock' : /\ i + 1 \in DOMAIN sock /\ i + 1 # 1 /\ i \in Nat
                                 /\ sock'[i] = sock[i + 1]
  BY <1>1, TailElements
<1>3. /\ \A s \in Slots : Waits(s)' = Waits(s) /\ Outgoing(s)' = Outgoing(s)
      /\ \A n : Ran(n)' <=> Ran(n)
      /\ UNCHANGED <<deploy, arrived, rxData, txData, wire, executed, kExecuted>>
  BY PlacesStay DEF rxRecv, rxVars1, txVars, ringVars, hostVars, dispVars, deviceVars,
     kernelVars, graphVars
<1>4. Receiving' => rxBuf' = sock[1].body
  BY <1>2 DEF rxRecv, Receiving
<1>5. \A i, j \in DOMAIN sock' : i + 1 = j + 1 => i = j
  BY <1>2
<1>6. RequestsApart'
  BY <1>2, <1>3, <1>4, <1>5 DEF Apart, RequestsApart, Recorded
<1>7. RunsApart' /\ RepliesApart'
  BY <1>3 DEF Apart, RunsApart, RepliesApart
<1> QED
  BY <1>6, <1>7 DEF Apart

(* The datagram in the buffer becomes the request in slot rxNext.          *)
LEMMA ApartPublish ==
  ASSUME SlotInv, Apart, rxPublish, UNCHANGED <<deploy, arrived, hostVars, deviceVars>>
  PROVE  Apart'
<1>1. /\ UNCHANGED <<deploy, arrived, sock, rxData, txData, wire, executed, kExecuted>>
      /\ Receiving /\ ~Receiving' /\ rxNext \in Slots /\ rxData[rxNext] = rxBuf
  BY SharedTypes DEF SlotInv, FillsFreeSlot, rxPublish, Receiving, rxVars1, hostVars,
     dispVars, deviceVars, kernelVars
<1>2. \A s \in Slots : /\ Waits(s)' => Waits(s) \/ s = rxNext
                       /\ Outgoing(s)' => Outgoing(s)
  BY SharedTypes DEF SlotInv, rxPublish, rxVars1, txVars, hostVars, dispVars,
     deviceVars, kernelVars, graphVars, Waits, Outgoing, HostHas, KernelHas
<1>3. \A n : Ran(n)' <=> Ran(n)
  BY <1>1 DEF Ran
<1>4. RequestsApart'
  BY <1>1, <1>2, <1>3 DEF Apart, RequestsApart, Recorded
<1>5. RunsApart' /\ RepliesApart'
  BY <1>1, <1>2, <1>3 DEF Apart, RunsApart, RepliesApart
<1> QED
  BY <1>4, <1>5 DEF Apart

(* The reply in slot txCursor goes out, if there is somebody to send it to. *)
LEMMA ApartSend ==
  ASSUME SlotInv, Apart, txSend, UNCHANGED <<deploy, arrived, hostVars, deviceVars>>
  PROVE  Apart'
<1>1. /\ UNCHANGED <<deploy, arrived, sock, rxPc, rxBuf, rxFlag, rxData, txFlag,
           txData, executed, kExecuted, dPc, dSlot, dOutcome, kPc, kCur, gGraphs>>
      /\ txCursor' = txCursor /\ txCursor \in Slots /\ txFlag[txCursor]
      /\ txPc = "send" /\ txPc' = "clear"
  BY SharedTypes DEF SlotInv, FillsFreeSlot, txSend, txVars1, rxVars, ringVars,
     hostVars, dispVars, deviceVars, kernelVars, graphVars
<1>2. /\ \A s \in Slots : Waits(s)' = Waits(s) /\ (Outgoing(s)' => Outgoing(s))
      /\ \A n : Ran(n)' <=> Ran(n)
      /\ Receiving' = Receiving
  BY <1>1 DEF Waits, Outgoing, Ran, HostHas, KernelHas, Receiving
<1>3. Outgoing(txCursor)
  BY <1>1 DEF Outgoing
<1>4. ~Outgoing(txCursor)'
  <2>1. ~(dPc = "publish" /\ dSlot = txCursor) /\ ~(kPc = "publish" /\ kCur = txCursor)
    BY <1>1, ModesDiffer DEF SlotInv, OwnersAgree, HostHas, KernelHas, ForKernel
  <2>2. ~\E g \in gGraphs : g.pc = "ran" /\ g.slot = txCursor
    BY <1>1, SharedTypes DEF SlotInv, OwnersAgree, ChildHas, ChildrenApart, Children
  <2> QED
    BY <1>1, <2>1, <2>2 DEF Outgoing
<1>5. RequestsApart' /\ RunsApart'
  BY <1>1, <1>2 DEF Apart, RequestsApart, RunsApart, Recorded
<1>6. CASE wire' = wire
  BY <1>1, <1>2, <1>5, <1>6 DEF Apart, RepliesApart
<1>7. CASE peer # NoPeer /\ wire' = Append(wire, [to |-> peer, body |-> txData[txCursor]])
  <2> DEFINE d == [to |-> peer, body |-> txData[txCursor]]
  <2>1. d \in Sent(Replies) /\ d.body = txData[txCursor] /\ wire \in Seq(Sent(Replies))
    <3>1. peer \in Addresses
      BY <1>7 DEF SlotInv, SharedTypeOK, XcvrTypeOK
    <3> QED
      BY <1>1, <3>1, SharedTypes DEF SlotInv, Sent
  <2> HIDE DEF d
  <2>2. /\ \A i \in DOMAIN wire : i \in DOMAIN wire' /\ wire'[i] = wire[i]
        /\ wire'[Len(wire) + 1] = d
        /\ \A i \in DOMAIN wire' : i \in DOMAIN wire \/ i = Len(wire) + 1
    BY <1>7, <2>1, AppendElements DEF d
  <2>3. RepliesApart'
    BY <1>1, <1>2, <1>3, <1>4, <2>1, <2>2 DEF Apart, RepliesApart
  <2> QED
    BY <1>5, <2>3 DEF Apart
<1> QED
  BY <1>6, <1>7 DEF txSend, Ship

-----------------------------------------------------------------------------
(* Every other step keeps requests and replies where they are, or runs one. *)

LEMMA ApartTransport == ASSUME SlotInv, Apart, TransportThreads PROVE Apart'
<1> USE SharedTypes DEF SlotInv, TransportThreads, ringVars, rxVars, txVars, rxVars1,
      txVars1, hostVars, dispVars, deviceVars, kernelVars, graphVars
<1>1. CASE start
  <2>1. KeepsApart
    BY <1>1 DEF start, Deployed, KeepsApart, Receiving, Waits, Outgoing, HostHas,
       KernelHas
  <2> QED
    BY <2>1, ApartKept
<1>2. CASE rxLoadRx
  <2>1. KeepsApart
    BY <1>2 DEF rxLoadRx, KeepsApart, Receiving, Waits, Outgoing, HostHas, KernelHas
  <2> QED
    BY <2>1, ApartKept
<1>3. CASE rxLoadTx
  <2>1. KeepsApart
    BY <1>3 DEF rxLoadTx, KeepsApart, Receiving, Waits, Outgoing, HostHas, KernelHas
  <2> QED
    BY <2>1, ApartKept
<1>4. CASE rxCopy
  <2>1. ~Waits(rxNext)
    BY <1>4 DEF rxCopy, FillsFreeSlot, Reading, Waits
  <2>2. KeepsApart
    BY <1>4, <2>1 DEF rxCopy, KeepsApart, Receiving, Waits, Outgoing, HostHas, KernelHas
  <2> QED
    BY <2>2, ApartKept
<1>5. CASE rxExit
  <2>1. KeepsApart
    BY <1>5 DEF rxExit, KeepsApart, Receiving, Waits, Outgoing, HostHas, KernelHas
  <2> QED
    BY <2>1, ApartKept
<1>6. CASE txLoad
  <2>1. KeepsApart
    BY <1>6 DEF txLoad, KeepsApart, Receiving, Waits, Outgoing, HostHas, KernelHas
  <2> QED
    BY <2>1, ApartKept
<1>7. CASE txClear
  <2>1. KeepsApart
    BY <1>7 DEF txClear, KeepsApart, Receiving, Waits, Outgoing, HostHas, KernelHas
  <2> QED
    BY <2>1, ApartKept
<1>8. CASE txExit
  <2>1. KeepsApart
    BY <1>8 DEF txExit, KeepsApart, Receiving, Waits, Outgoing, HostHas, KernelHas
  <2> QED
    BY <2>1, ApartKept
<1>9. CASE rxRecv
  BY <1>9, ApartRecv
<1>10. CASE rxPublish
  BY <1>10, ApartPublish
<1>11. CASE txSend
  BY <1>11, ApartSend
<1> QED
  BY <1>1, <1>2, <1>3, <1>4, <1>5, <1>6, <1>7, <1>8, <1>9, <1>10, <1>11
  DEF rxLoop, txLoop

LEMMA ApartHost == ASSUME SlotInv, Apart, HostLoop PROVE Apart'
<1> USE SharedTypes DEF SlotInv, HostLoop, ringVars, dispVars, xcvrVars, rxVars,
      txVars, deviceVars, kernelVars, graphVars
<1>1. CASE pollRequest
  <2>1. KeepsApart
    BY <1>1 DEF pollRequest, Retire, KeepsApart, Receiving, Waits, Outgoing, HostHas,
       KernelHas
  <2> QED
    BY <2>1, ApartKept
<1>2. CASE pollScan
  <2>1. KeepsApart
    BY <1>2 DEF pollScan, Retire, KeepsApart, Receiving, Waits, Outgoing, HostHas,
       KernelHas
  <2> QED
    BY <2>1, ApartKept
<1>3. CASE pollProbe \/ pollReload
  <2>1. KeepsApart
    BY <1>3 DEF pollProbe, pollReload, KeepsApart, Receiving, Waits, Outgoing, HostHas,
       KernelHas
  <2> QED
    BY <2>1, ApartKept
<1>4. CASE checkHeader
  <2>1. KeepsApart
    BY <1>4 DEF checkHeader, Retire, KeepsApart, Receiving, Waits, Outgoing, HostHas,
       KernelHas
  <2> QED
    BY <2>1, ApartKept
<1>5. CASE sendResponse
  <2>1. KeepsApart
    BY <1>5 DEF sendResponse, Retire, KeepsApart, Receiving, Waits, Outgoing, HostHas,
       KernelHas
  <2> QED
    BY <2>1, ApartKept
<1>6. CASE retireRequest
  <2>1. KeepsApart
    BY <1>6 DEF retireRequest, Retire, KeepsApart, Receiving, Waits, Outgoing, HostHas,
       KernelHas
  <2> QED
    BY <2>1, ApartKept
<1>7. CASE exitLoop
  <2>1. KeepsApart
    BY <1>7 DEF exitLoop, Retire, KeepsApart, Receiving, Waits, Outgoing, HostHas,
       KernelHas
  <2> QED
    BY <2>1, ApartKept
<1>8. CASE raiseShutdown
  <2>1. KeepsApart
    BY <1>8 DEF raiseShutdown, Retire, KeepsApart, Receiving, Waits, Outgoing, HostHas,
       KernelHas
  <2> QED
    BY <2>1, ApartKept
<1>9. CASE invokeHostCall
  <2>0. PICK w \in Slots : w = dSlot
    OBVIOUS
  <2>1. /\ rxFlag[w] /\ rxData[w] \in Requests /\ ~txFlag[w]
        /\ ~ChildHas(w) /\ ~KernelHas(w)
    BY <1>9, <2>0, ModesDiffer
    DEF invokeHostCall, OwnersAgree, ReadersCurrent, HostHas, KernelHas, ForKernel
  <2>2. CASE rxData[w].fn \in NullHandlers
    <3>1. KeepsApart
      BY <1>9, <2>0, <2>2 DEF invokeHostCall, Retire, KeepsApart, Receiving, Waits,
         Outgoing, HostHas, KernelHas
    <3> QED
      BY <3>1, ApartKept
  <2>3. CASE rxData[w].fn \notin NullHandlers
    <3>1. Waits(w) /\ ~Waits(w)' /\ ~Outgoing(w)
      BY <1>9, <2>0, <2>1, <2>3
      DEF invokeHostCall, Waits, Outgoing, HostHas, KernelHas, ChildHas,
          ChildrenApart, Children
    <3>2. \A s \in Slots : Waits(s)' => Waits(s)
      BY <1>9, <2>0, <2>3 DEF invokeHostCall, Waits, HostHas, KernelHas
    <3>3. \A s \in Slots : s # w /\ Outgoing(s)' => Outgoing(s) /\ txData'[s] = txData[s]
      BY <1>9, <2>0, <2>3 DEF invokeHostCall, Outgoing
    <3>4. /\ RunsOneMore(rxData[w].id) /\ txData'[w] = [id |-> rxData[w].id]
          /\ UNCHANGED <<deploy, arrived, sock, wire, rxData, rxPc, rxBuf>>
      BY <1>9, <2>0, <2>3 DEF invokeHostCall, RunsOneMore, Reply
    <3>5. RunsIn(w)
      BY <2>1, <3>1, <3>2, <3>3, <3>4 DEF RunsIn, Receiving
    <3> QED
      BY <3>5, ApartRun
  <2> QED
    BY <2>2, <2>3
<1> QED
  BY <1>1, <1>2, <1>3, <1>4, <1>5, <1>6, <1>7, <1>8, <1>9 DEF ringDispatchLoop

LEMMA ApartKernel == ASSUME SlotInv, Apart, KernelStep PROVE Apart'
<1> USE SharedTypes DEF SlotInv, KernelStep, ringVars, xcvrVars, rxVars, txVars,
      hostVars, dispVars, graphVars
<1>1. CASE (kernelPoll \/ kernelScan \/ kernelProbe) /\ UNCHANGED graphVars
  <2>1. KeepsApart
    BY <1>1 DEF kernelPoll, kernelScan, kernelProbe, KeepsApart, Receiving, Waits,
       Outgoing, HostHas, KernelHas
  <2> QED
    BY <2>1, ApartKept
<1>2. CASE kernelHeader /\ UNCHANGED graphVars
  <2>1. KeepsApart
    BY <1>2 DEF kernelHeader, kernelClaim, KeepsApart, Receiving, Waits, Outgoing,
       HostHas, KernelHas
  <2> QED
    BY <2>1, ApartKept
<1>3. CASE kernelDrop /\ UNCHANGED graphVars
  <2>1. KeepsApart
    BY <1>3 DEF kernelDrop, KeepsApart, Receiving, Waits, Outgoing, HostHas, KernelHas
  <2> QED
    BY <2>1, ApartKept
<1>4. CASE kernelPublish /\ UNCHANGED graphVars
  <2>1. KeepsApart
    BY <1>4 DEF kernelPublish, KeepsApart, Receiving, Waits, Outgoing, HostHas, KernelHas
  <2> QED
    BY <2>1, ApartKept
<1>5. CASE kernelRetire /\ UNCHANGED graphVars
  <2>1. KeepsApart
    BY <1>5 DEF kernelRetire, KeepsApart, Receiving, Waits, Outgoing, HostHas, KernelHas
  <2> QED
    BY <2>1, ApartKept
<1>6. CASE kernelExit /\ UNCHANGED graphVars
  <2>1. KeepsApart
    BY <1>6 DEF kernelExit, KeepsApart, Receiving, Waits, Outgoing, HostHas, KernelHas
  <2> QED
    BY <2>1, ApartKept
<1>7. CASE kernelRun /\ (UNCHANGED graphVars \/ Triggered)
  <2>0. PICK w \in Slots : w = kCur
    OBVIOUS
  <2>1. /\ rxFlag[w] /\ rxData[w] \in Requests /\ ~txFlag[w]
        /\ ~ChildHas(w) /\ ~HostHas(w) /\ kReqId = rxData[w].id
    BY <1>7, <2>0, ModesDiffer
    DEF kernelRun, OwnersAgree, ReadersCurrent, HostHas, KernelHas, ForKernel
  <2>2. \A g : g \in gGraphs' /\ g.kind = "call" <=> g \in gGraphs /\ g.kind = "call"
    BY <1>7 DEF Triggered
  <2>3. \A g : g \in gGraphs' /\ g.pc = "ran" <=> g \in gGraphs /\ g.pc = "ran"
    BY <1>7 DEF Triggered
  <2>4. Waits(w) /\ ~Outgoing(w)
    BY <1>7, <2>0, <2>1 DEF kernelRun, Waits, Outgoing, HostHas, KernelHas, ChildHas,
       ChildrenApart, Children
  <2>5. ~Waits(w)' /\ \A s \in Slots : Waits(s)' => Waits(s)
    BY <1>7, <2>0, <2>1, <2>2 DEF kernelRun, Waits, HostHas, KernelHas, ChildHas
  <2>6. \A s \in Slots : s # w /\ Outgoing(s)' => Outgoing(s) /\ txData'[s] = txData[s]
    BY <1>7, <2>0, <2>3 DEF kernelRun, Outgoing
  <2>7. /\ RunsOneMore(rxData[w].id) /\ txData'[w] = [id |-> rxData[w].id]
        /\ UNCHANGED <<deploy, arrived, sock, wire, rxData, rxPc, rxBuf>>
    BY <1>7, <2>0, <2>1 DEF kernelRun, RunsOneMore
  <2>8. RunsIn(w)
    BY <2>1, <2>4, <2>5, <2>6, <2>7 DEF RunsIn, Receiving
  <2> QED
    BY <2>8, ApartRun
<1>8. CASE graphLaunch(deploy.budget)
  <2>1. /\ Launched
        /\ \A g \in gGraphs' :
             g \in gGraphs \/ (g.slot = kCur /\ g.pc = "new" /\ g.id = rxData[kCur].id)
    BY <1>8, LaunchOrNot
  <2>2. rxFlag[kCur] /\ ~HostHas(kCur)
    BY <1>8, ModesDiffer DEF graphLaunch, OwnersAgree, ReadersCurrent, ForKernel
  <2>3. Waits(kCur)
    BY <1>8, <2>2 DEF graphLaunch, Waits, KernelHas
  <2>4. \A s \in Slots : Waits(s)' => Waits(s)
    BY <1>8, <2>1, <2>3 DEF graphLaunch, Waits, HostHas, KernelHas
  <2>5. KeepsApart
    BY <1>8, <2>1, <2>4 DEF graphLaunch, KeepsApart, Receiving, Outgoing
  <2> QED
    BY <2>5, ApartKept
<1>9. CASE graphTail
  <2>1. KeepsApart
    BY <1>9 DEF graphTail, KeepsApart, Receiving, Waits, Outgoing, HostHas, KernelHas
  <2> QED
    BY <2>1, ApartKept
<1>10. CASE tailLaunched
  <2>1. KeepsApart
    BY <1>10 DEF tailLaunched, execution, KeepsApart, Receiving, Waits, Outgoing,
       HostHas, KernelHas
  <2> QED
    BY <2>1, ApartKept
<1> QED
  BY <1>1, <1>2, <1>3, <1>4, <1>5, <1>6, <1>7, <1>8, <1>9, <1>10, KernelSteps,
     TriggerOrNot DEF KernelPlain, graphRun

LEMMA ApartRest == ASSUME SlotInv, Apart, GraphStep \/ Owner PROVE Apart'
<1> USE SharedTypes DEF SlotInv, GraphStep, Owner, ringVars, xcvrVars, rxVars, txVars,
      hostVars, dispVars, kernelVars, graphVars
<1>1. CASE childRun
  <2>1. PICK g \in gGraphs :
          /\ g.kind = "call" /\ g.pc = "new"
          /\ txData' = [txData EXCEPT ![gIo] = Reply(rxData[gIo])]
          /\ kExecuted' = Append(kExecuted, rxData[gIo].id)
          /\ gGraphs' = (gGraphs \ {g}) \cup {[g EXCEPT !.slot = gIo, !.pc = "ran"]}
    BY <1>1 DEF childRun
  <2>0. PICK w \in Slots : w = gIo
    OBVIOUS
  <2> DEFINE h == [g EXCEPT !.slot = gIo, !.pc = "ran"]
  <2>2. g.slot = w /\ ChildHas(w)
    BY <2>0, <2>1 DEF ChildrenApart, ChildHas
  <2>3. /\ h.kind = "call" /\ h.slot = w /\ h.pc = "ran"
        /\ gGraphs' = (gGraphs \ {g}) \cup {h}
    BY <2>0, <2>1 DEF Children
  <2> HIDE DEF h
  <2>4. /\ rxData[w] \in Requests /\ ~txFlag[w]
        /\ rxFlag[w] => kPc = "retire" /\ kCur = w
        /\ ~HostHas(w)
    BY <2>2, ModesDiffer DEF OwnersAgree, ReadersCurrent, Reading, ChildHas
  <2>5. /\ UNCHANGED <<deploy, arrived, sock, wire, rxData, rxPc, rxBuf, rxFlag, txFlag,
             txPc, txCursor, dPc, dSlot, dOutcome, kPc, kCur, executed>>
    BY <1>1 DEF childRun
  <2>6. \A x \in gGraphs : x.kind = "call" /\ x.slot = w => x = g
    BY <2>1, <2>2 DEF ChildrenApart
  <2>7. Waits(w) /\ ~Waits(w)'
    <3>1. ~\E x \in gGraphs' : x.kind = "call" /\ x.pc = "new" /\ x.slot = w
      BY <2>3, <2>6
    <3> QED
      BY <2>1, <2>2, <2>4, <2>5, <3>1 DEF Waits, KernelHas
  <2>8. ~Outgoing(w)
    <3>1. ~(dPc = "publish" /\ dSlot = w) /\ ~(kPc = "publish" /\ kCur = w)
      BY <2>4 DEF HostHas, OwnersAgree, KernelHas
    <3>2. ~\E x \in gGraphs : x.pc = "ran" /\ x.slot = w
      BY <2>1, <2>6 DEF ChildrenApart, Children
    <3> QED
      BY <2>4, <3>1, <3>2 DEF Outgoing
  <2>9. /\ \A s \in Slots : Waits(s)' => Waits(s)
        /\ \A s \in Slots : s # w /\ Outgoing(s)' => Outgoing(s) /\ txData'[s] = txData[s]
    <3> HIDE <1>1
    <3>1. \A s \in Slots : Waits(s)' => Waits(s)
      BY <2>3, <2>5 DEF Waits, HostHas, KernelHas
    <3>2. \A s \in Slots : s # w /\ Outgoing(s)' => Outgoing(s)
      BY <2>3, <2>5 DEF Outgoing
    <3>3. \A s \in Slots : s # w => txData'[s] = txData[s]
      BY <2>0, <2>1
    <3> QED
      BY <3>1, <3>2, <3>3
  <2>10. RunsOneMore(rxData[w].id) /\ txData'[w] = [id |-> rxData[w].id]
    BY <2>0, <2>1, <2>5 DEF RunsOneMore, Reply
  <2>11. RunsIn(w)
    BY <2>4, <2>5, <2>7, <2>8, <2>9, <2>10 DEF RunsIn, Receiving
  <2> QED
    BY <2>11, ApartRun
<1>2. CASE childEnd
  <2>1. PICK g \in gGraphs :
          /\ g.kind = "call" => g.pc = "ran"
          /\ txFlag' = IF g.kind = "call" THEN [txFlag EXCEPT ![g.slot] = TRUE]
                                          ELSE txFlag
          /\ gGraphs' = gGraphs \ {g}
    BY <1>2 DEF childEnd
  <2>2. /\ UNCHANGED <<deploy, arrived, sock, wire, rxData, txData, rxPc, rxBuf, rxFlag,
             txPc, txCursor, dPc, dSlot, dOutcome, kPc, kCur, executed, kExecuted>>
    BY <1>2 DEF childEnd
  <2>3. \A s \in Slots : txFlag'[s] => txFlag[s] \/ (g.pc = "ran" /\ g.slot = s)
    BY <2>1 DEF Children
  <2>4. /\ \A s \in Slots : Waits(s)' => Waits(s)
        /\ \A s \in Slots : Outgoing(s)' => Outgoing(s)
    <3> HIDE <1>2
    <3>1. \A s \in Slots : Waits(s)' => Waits(s)
      BY <2>1, <2>2 DEF Waits, HostHas, KernelHas
    <3>2. \A s \in Slots : Outgoing(s)' => Outgoing(s)
      BY <2>1, <2>2, <2>3 DEF Outgoing
    <3> QED
      BY <3>1, <3>2
  <2>5. KeepsApart
    BY <2>2, <2>4 DEF KeepsApart, Receiving
  <2> QED
    BY <2>5, ApartKept
<1>3. CASE stopKernel /\ UNCHANGED graphVars
  <2>1. KeepsApart
    BY <1>3 DEF stopKernel, KeepsApart, Receiving, Waits, Outgoing, HostHas, KernelHas
  <2> QED
    BY <2>1, ApartKept
<1>4. CASE launchDispatchGraph
  <2>1. KeepsApart
    BY <1>4 DEF launchDispatchGraph, execution, KeepsApart, Receiving, Waits, Outgoing,
       HostHas, KernelHas
  <2> QED
    BY <2>1, ApartKept
<1> QED
  BY <1>1, <1>2, <1>3, <1>4 DEF childStep

(* The slot layer and this one are inductive together.                     *)
LEMMA SharedStep ==
  ASSUME ~overtaken', SharedInv, [SharedNext]_sharedVars PROVE SharedInv'
<1>1. SlotInv'
  BY SlotNext DEF SharedInv
<1>2. Apart'
  <2> USE DEF SharedInv, Apart
  <2>1. CASE SharedNext
    BY <2>1, ApartArrive, ApartTransport, ApartHost, ApartKernel, ApartRest
    DEF SharedNext
  <2>2. CASE UNCHANGED sharedVars
    <3>1. KeepsApart
      BY <2>2 DEF sharedVars, xcvrVars, rxVars, txVars, ringVars, hostVars, dispVars,
         deviceVars, kernelVars, graphVars, KeepsApart, Receiving, Waits, Outgoing,
         HostHas, KernelHas
    <3> QED
      BY <3>1, ApartKept
  <2> QED
    BY <2>1, <2>2
<1> QED
  BY <1>1, <1>2 DEF SharedInv, Apart

-----------------------------------------------------------------------------
(* SharedRingService: one follow-up graph to an execution.                 *)

LEMMA TriggerInit == SharedInit => OneTrigger
  BY DEF SharedInit, KernelInit, GraphInit, OneTrigger

(* A request in line is of a kind that the deployment receives.            *)
LEMMA LaunchArrives ==
  ASSUME SharedInv, NEW s \in Slots, Waits(s), IsGraphLaunch(rxData[s])
  PROVE  ~NoGraphLaunch
<1>1. /\ rxData[s].id \in DOMAIN arrived
      /\ arrived[rxData[s].id].fn = rxData[s].fn
      /\ arrived[rxData[s].id] \in deploy.arriving
  BY DEF SharedInv, RequestsApart, Recorded
<1> QED
  BY <1>1 DEF NoGraphLaunch, IsGraphLaunch, lookupFunction

LEMMA TriggerKernel ==
  ASSUME KernelsPlaced, SharedInv, OneTrigger, KernelStep PROVE OneTrigger'
<1>0. /\ gFired \in Nat /\ kCur \in Slots /\ deploy' = deploy
      /\ deploy.budget \in Nat /\ (deploy.triggered => deploy.budget > 0)
  BY SharedTypes, SharedRingAssumption
  DEF SharedInv, SlotInv, SharedTypeOK, KernelStep, KernelsPlaced
<1>1. CASE KernelPlain /\ UNCHANGED graphVars
  <2>1. kPc' \in {"header", "drop", "run"} => ~gRelaunch
    <3>1. CASE kernelPoll \/ kernelScan \/ kernelProbe
      BY <3>1 DEF KernelStep, OneTrigger, kernelLoop, graphKernelLoop, graphPoll,
         graphHeader, graphLaunch, graphRun, kernelRun, kernelDrop, kernelPublish,
         kernelRetire, graphTail, tailLaunched, graphExit, kernelExit, kernelPoll,
         kernelScan, kernelProbe, kernelHeader
    <3>2. CASE kernelHeader
      BY <3>2 DEF kernelHeader, kernelClaim, OneTrigger
    <3>3. CASE kernelDrop \/ kernelPublish \/ kernelRetire \/ kernelExit
      BY <3>3 DEF kernelDrop, kernelPublish, kernelRetire, kernelExit
    <3> QED
      BY <1>1, <3>1, <3>2, <3>3 DEF KernelPlain
  <2> QED
    BY <1>0, <1>1, <2>1 DEF OneTrigger, NoGraphLaunch, graphVars
<1>2. CASE kernelRun /\ UNCHANGED graphVars
  BY <1>0, <1>2 DEF OneTrigger, NoGraphLaunch, graphVars, kernelRun
<1>3. CASE deploy.graph /\ graphRun(deploy.budget, deploy.triggered)
  <2>1. CASE UNCHANGED graphVars
    BY <1>0, <1>3, <2>1 DEF OneTrigger, NoGraphLaunch, graphVars, graphRun, kernelRun
  <2>2. CASE ~UNCHANGED graphVars
    <3>1. /\ deploy.triggered /\ gRelaunch' = TRUE /\ kPc' = "publish" /\ ~gRelaunch
          /\ gRc' = IF Launches(deploy.budget) THEN "success" ELSE "error"
      BY <1>3, <2>2 DEF graphRun, kernelRun, OneTrigger
    <3>2. NoGraphLaunch => Launches(deploy.budget)
      BY <1>0, <3>1 DEF Launches, OneTrigger
    <3>3. Launches(deploy.budget) => gRc' # "error"
      BY <3>1
    <3>4. \A g \in gGraphs' : g \in gGraphs \/ g.kind = "triggered"
      <4>1. Triggered
        BY <1>3, <2>2, TriggerOrNot
      <4> QED
        BY <4>1 DEF Triggered
    <3> QED
      BY <1>0, <1>3, <3>1, <3>2, <3>3, <3>4 DEF OneTrigger, NoGraphLaunch
  <2> QED
    BY <2>1, <2>2
<1>4. CASE deploy.graph /\ graphLaunch(deploy.budget)
  <2>1. /\ IsGraphLaunch(rxData[kCur]) /\ rxFlag[kCur] /\ ~HostHas(kCur)
        /\ ~KernelHas(kCur)
    BY <1>0, <1>4, ModesDiffer DEF graphLaunch, SharedInv, SlotInv, ReadersCurrent,
       OwnersAgree, ForKernel, KernelHas
  <2>2. Waits(kCur)
    BY <2>1 DEF Waits
  <2>3. ~NoGraphLaunch
    BY <1>0, <2>1, <2>2, LaunchArrives
  <2> QED
    BY <1>0, <1>4, <2>3 DEF graphLaunch, OneTrigger, NoGraphLaunch
<1>5. CASE graphTail
  BY <1>0, <1>5 DEF graphTail, OneTrigger, NoGraphLaunch
<1>6. CASE tailLaunched
  BY <1>0, <1>6 DEF tailLaunched, execution, OneTrigger, NoGraphLaunch
<1> QED
  BY <1>1, <1>2, <1>3, <1>4, <1>5, <1>6, KernelSteps

LEMMA TriggerNext ==
  ASSUME KernelsPlaced, SharedInv, OneTrigger, [SharedNext]_sharedVars
  PROVE  OneTrigger'
<1>1. CASE KernelStep
  BY <1>1, TriggerKernel
<1>2. CASE GraphStep
  <2>1. UNCHANGED <<deploy, kPc, gRelaunch, gRc, gFired>>
    BY <1>2 DEF GraphStep, childStep, childRun, childEnd, kernelVars
  <2>2. (\A g \in gGraphs : g.kind = "triggered") => gGraphs' \subseteq gGraphs
    BY <1>2 DEF GraphStep, childStep, childRun, childEnd
  <2> QED
    BY <2>1, <2>2 DEF OneTrigger, NoGraphLaunch
<1>3. CASE Owner
  BY <1>3 DEF Owner, stopKernel, launchDispatchGraph, execution, kernelVars,
     graphVars, OneTrigger, NoGraphLaunch
<1>4. CASE Arrive \/ TransportThreads \/ HostLoop \/ UNCHANGED sharedVars
  <2>1. UNCHANGED <<deploy, kPc, gRelaunch, gRc, gFired, gGraphs>>
    BY <1>4 DEF Arrive, TransportThreads, HostLoop, sharedVars, deviceVars, kernelVars,
       graphVars
  <2> QED
    BY <2>1 DEF OneTrigger, NoGraphLaunch
<1> QED
  BY <1>1, <1>2, <1>3, <1>4 DEF SharedNext

-----------------------------------------------------------------------------
(* SharedRingService: a kernel alone on the ring serves in arrival order.  *)

(* The ids of the requests on their way are numbers up to Len(arrived).    *)
LEMMA LineNumbers ==
  ASSUME SharedInv, ~deploy.host
  PROVE  /\ \A s \in Slots : InLine(s) => Waits(s)
         /\ \A s \in Slots : InLine(s) => rxData[s].id \in 1 .. Len(arrived)
         /\ Receiving => rxBuf.id \in 1 .. Len(arrived)
         /\ \A i \in DOMAIN sock : sock[i].body.id \in 1 .. Len(arrived)
         /\ \A i \in DOMAIN kExecuted : kExecuted[i] \in 1 .. Len(arrived)
         /\ DOMAIN arrived = 1 .. Len(arrived) /\ Len(arrived) \in Nat
<1>1. DOMAIN arrived = 1 .. Len(arrived) /\ Len(arrived) \in Nat
  BY LenProperties DEF SharedInv, SlotInv, SharedTypeOK
<1>2. \A s \in Slots : InLine(s) => Waits(s)
  BY DEF SharedInv, SlotInv, Deployed, InLine, Waits, HostHas
<1> QED
  BY <1>1, <1>2 DEF SharedInv, RequestsApart, RunsApart, Recorded

(* A step that leaves the line as it is, or takes requests out of it.      *)
KeepsLine ==
  /\ UNCHANGED <<deploy, arrived, sock, kExecuted>>
  /\ Receiving' => Receiving /\ rxBuf' = rxBuf
  /\ \A s \in Slots : InLine(s)' => InLine(s) /\ rxData'[s] = rxData[s]
  /\ \A s, t \in Slots :
        /\ InLine(s)' /\ InLine(t)'
        /\ Distance(kCur', s) < Distance(kCur', t)
        => Distance(kCur, s) < Distance(kCur, t)

LEMMA LineKept ==
  ASSUME ArrivalOrder, ServedInOrder, KeepsLine PROVE ArrivalOrder' /\ ServedInOrder'
<1>1. /\ UNCHANGED <<deploy, arrived, sock, kExecuted>>
      /\ Receiving' => Receiving /\ rxBuf' = rxBuf
      /\ \A s \in Slots : InLine(s)' => InLine(s) /\ rxData'[s] = rxData[s]
      /\ \A s, t \in Slots :
            /\ InLine(s)' /\ InLine(t)'
            /\ Distance(kCur', s) < Distance(kCur', t)
            => Distance(kCur, s) < Distance(kCur, t)
  BY DEF KeepsLine
<1>2. \A n : RanDevice(n)' <=> RanDevice(n)
  BY <1>1 DEF RanDevice
<1>3. ServedInOrder'
  BY <1>1 DEF ServedInOrder
<1>4. ArrivalOrder'
  BY <1>1, <1>2 DEF ArrivalOrder
<1> QED
  BY <1>3, <1>4

(* Neither cursor nor flag moves.                                          *)
LEMMA GapStays ==
  ASSUME NoGap, UNCHANGED <<rxFlag, rxNext, kCur, gCursor>>,
         kPc' \in {"header", "drop"} => kPc \in {"header", "drop"},
         kPc' = "tail" => kPc = "tail"
  PROVE  NoGap'
  BY DEF NoGap

(* The kernel is done with the request at its cursor.                      *)
LEMMA KernelAdvances ==
  ASSUME SharedInv, NoGap, rxFlag[kCur], kPc' = "poll",
         rxFlag' = [rxFlag EXCEPT ![kCur] = FALSE], kCur' = NextSlot(kCur),
         UNCHANGED <<rxNext, rxData, sock, arrived, deploy, kExecuted, rxPc, rxBuf>>,
         kPc \in {"drop", "retire"}
  PROVE  NoGap' /\ KeepsLine
<1>0. kCur \in Slots /\ rxNext \in Slots /\ rxFlag \in [Slots -> BOOLEAN]
  BY SharedTypes DEF SharedInv, SlotInv
<1>1. PICK n \in 0 .. NumSlots :
        /\ Distance(kCur, rxNext) = IF n = NumSlots THEN 0 ELSE n
        /\ \A s \in Slots : rxFlag[s] <=> Distance(kCur, s) < n
  BY DEF NoGap
<1>2. n \in 1 .. NumSlots
  BY <1>0, <1>1, DistanceFacts, NumSlotsAssumption
<1>3. /\ n - 1 \in 0 .. NumSlots
      /\ Stretch(NextSlot(kCur), rxNext, n - 1)
      /\ \A s \in Slots :
            /\ Distance(NextSlot(kCur), s) < n - 1 <=> Distance(kCur, s) < n /\ s # kCur
            /\ s # kCur => Distance(NextSlot(kCur), s) = Distance(kCur, s) - 1
            /\ Distance(kCur, s) \in Nat
  BY <1>0, <1>1, <1>2, StretchShrinks DEF Stretch
<1>4. NoGap'
  <2>1. \A s \in Slots : rxFlag'[s] <=> Distance(kCur', s) < n - 1
    BY <1>0, <1>1, <1>3
  <2>2. Distance(kCur', rxNext') = IF n - 1 = NumSlots THEN 0 ELSE n - 1
    BY <1>3 DEF Stretch
  <2> QED
    BY <1>3, <2>1, <2>2 DEF NoGap
<1>5. KeepsLine
  <2>1. \A s \in Slots : InLine(s)' => InLine(s) /\ s # kCur
    BY <1>0 DEF InLine, KernelHas
  <2>2. \A s, t \in Slots :
          /\ InLine(s)' /\ InLine(t)'
          /\ Distance(kCur', s) < Distance(kCur', t)
          => Distance(kCur, s) < Distance(kCur, t)
    BY <1>3, <2>1
  <2> QED
    BY <2>1, <2>2 DEF KeepsLine, Receiving
<1> QED
  BY <1>4, <1>5

LEMMA OrderInitially == SharedInit => KernelOrder
<1> SUFFICES ASSUME SharedInit PROVE NoGap /\ ArrivalOrder /\ ServedInOrder
  BY DEF KernelOrder
<1> USE DEF SharedInit, RingInit, XcvrInit, DispInit, KernelInit, GraphInit
<1>1. 0 \in Slots /\ 0 \in 0 .. NumSlots /\ NumSlots # 0 /\ DOMAIN << >> = {}
  BY NumSlotsAssumption DEF Slots
<1>2. Distance(0, 0) = 0 /\ \A s \in Slots : ~(Distance(0, s) < 0)
  BY <1>1, DistanceFacts
<1>3. NoGap
  BY <1>1, <1>2 DEF NoGap
<1>4. ArrivalOrder /\ ServedInOrder
  BY <1>1 DEF ArrivalOrder, ServedInOrder, InLine, RanDevice, Receiving
<1> QED
  BY <1>3, <1>4

-----------------------------------------------------------------------------
(* The steps that move requests along the line.                            *)

LEMMA OrderedArrive ==
  ASSUME SharedInv, ~deploy.host, NoGap, ArrivalOrder, ServedInOrder, Arrive
  PROVE  NoGap' /\ ArrivalOrder' /\ ServedInOrder'
<1>1. PICK k \in deploy.arriving, a \in Addresses :
        /\ arrived' = Append(arrived, k)
        /\ sock' = Append(sock, [from |-> a, fits |-> TRUE,
                     body |-> [id |-> Len(arrived) + 1, magic |-> k.magic,
                               fn |-> k.fn]])
  BY DEF Arrive
<1> DEFINE d == [from |-> a, fits |-> TRUE,
                 body |-> [id |-> Len(arrived) + 1, magic |-> k.magic, fn |-> k.fn]]
<1>2. k \in [magic : BOOLEAN, fn : FunctionIds]
  BY SharedRingAssumption DEF SharedInv, SlotInv, SharedTypeOK
<1>3. arrived \in Seq([magic : BOOLEAN, fn : FunctionIds]) /\ Len(arrived) \in Nat
  BY LenProperties DEF SharedInv, SlotInv, SharedTypeOK
<1>4. d \in Datagrams(Requests) /\ sock \in Seq(Datagrams(Requests))
  BY <1>2, <1>3, SharedTypes DEF SharedInv, SlotInv, Datagrams, Requests
<1>5. d.body.id = Len(arrived) + 1
  OBVIOUS
<1> HIDE DEF d
<1>6. /\ \A n \in DOMAIN arrived : n \in DOMAIN arrived' /\ arrived'[n] = arrived[n]
      /\ \A n \in DOMAIN arrived' : n \in DOMAIN arrived \/ n = Len(arrived) + 1
      /\ Len(arrived) + 1 \notin DOMAIN arrived
  BY <1>1, <1>2, <1>3, AppendElements
<1>7. /\ \A i \in DOMAIN sock : i \in DOMAIN sock' /\ sock'[i] = sock[i]
      /\ sock'[Len(sock) + 1] = d
      /\ \A i \in DOMAIN sock' : i \in DOMAIN sock \/ i = Len(sock) + 1
      /\ DOMAIN sock = 1 .. Len(sock) /\ Len(sock) \in Nat
  BY <1>1, <1>4, AppendElements, LenProperties DEF d
<1>8. /\ UNCHANGED <<deploy, rxPc, rxBuf, rxNext, rxFlag, rxData, kPc, kCur, gCursor,
           kExecuted>>
      /\ Receiving' = Receiving /\ \A s \in Slots : InLine(s)' = InLine(s)
  <2>1. UNCHANGED <<deploy, rxPc, rxBuf, rxNext, rxFlag, rxData, kPc, kCur, gCursor,
           kExecuted>>
    BY DEF Arrive, rxVars, ringVars, deviceVars, kernelVars, graphVars
  <2> QED
    BY <2>1 DEF Receiving, InLine, KernelHas
<1>9. /\ \A s \in Slots : InLine(s) => rxData[s].id < Len(arrived) + 1
      /\ Receiving => rxBuf.id < Len(arrived) + 1
      /\ \A i \in DOMAIN sock : sock[i].body.id < Len(arrived) + 1
      /\ \A i \in DOMAIN kExecuted : /\ kExecuted[i] \in DOMAIN arrived
                                     /\ kExecuted[i] < Len(arrived) + 1
  BY <1>3, LineNumbers
<1>10. \A n \in DOMAIN arrived' : RanDevice(n)' =>
         n \in DOMAIN arrived /\ RanDevice(n) /\ n < Len(arrived) + 1
  BY <1>6, <1>8, <1>9 DEF RanDevice
<1>11. NoGap'
  BY <1>8, GapStays
<1>12. ServedInOrder'
  BY <1>6, <1>8, <1>9 DEF ServedInOrder
<1>13. ArrivalOrder'
  <2>1. \A i, j \in DOMAIN sock' : i < j => sock'[i].body.id < sock'[j].body.id
    BY <1>5, <1>7, <1>9 DEF ArrivalOrder
  <2>2. Receiving' => \A i \in DOMAIN sock' : rxBuf'.id < sock'[i].body.id
    BY <1>5, <1>7, <1>8, <1>9 DEF ArrivalOrder
  <2>3. \A s \in Slots : InLine(s)' =>
          /\ \A i \in DOMAIN sock' : rxData'[s].id < sock'[i].body.id
          /\ Receiving' => rxData'[s].id < rxBuf'.id
          /\ \A t \in Slots : InLine(t)' /\ Distance(kCur', s) < Distance(kCur', t)
                                => rxData'[s].id < rxData'[t].id
    BY <1>5, <1>7, <1>8, <1>9 DEF ArrivalOrder
  <2>4. \A n \in DOMAIN arrived' : RanDevice(n)' =>
          /\ \A i \in DOMAIN sock' : n < sock'[i].body.id
          /\ Receiving' => n < rxBuf'.id
          /\ \A s \in Slots : InLine(s)' => n < rxData'[s].id
    BY <1>5, <1>7, <1>8, <1>9, <1>10 DEF ArrivalOrder
  <2> QED
    BY <2>1, <2>2, <2>3, <2>4 DEF ArrivalOrder
<1> QED
  BY <1>11, <1>12, <1>13

LEMMA OrderedRecv ==
  ASSUME SharedInv, ~deploy.host, NoGap, ArrivalOrder, ServedInOrder, rxRecv,
         UNCHANGED <<deploy, arrived, hostVars, deviceVars>>
  PROVE  NoGap' /\ ArrivalOrder' /\ ServedInOrder'
<1>1. /\ sock \in Seq(Datagrams(Requests)) /\ sock # << >> /\ sock' = Tail(sock)
      /\ ~Receiving
  BY SharedTypes DEF SharedInv, SlotInv, rxRecv, Receiving
<1>2. /\ 1 \in DOMAIN sock /\ Head(sock) = sock[1] /\ DOMAIN sock \subseteq Nat
      /\ \A i \in DOMAIN sock' : /\ i + 1 \in DOMAIN sock /\ i + 1 # 1 /\ i \in Nat
                                 /\ sock'[i] = sock[i + 1]
  BY <1>1, TailElements, Positions
<1>3. /\ UNCHANGED <<rxFlag, rxData, rxNext, kPc, kCur, gCursor, kExecuted>>
      /\ \A s \in Slots : InLine(s)' = InLine(s)
      /\ \A n : RanDevice(n)' <=> RanDevice(n)
  <2>1. UNCHANGED <<rxFlag, rxData, rxNext, kPc, kCur, gCursor, kExecuted>>
    BY DEF rxRecv, rxVars1, ringVars, deviceVars, kernelVars, graphVars
  <2> QED
    BY <2>1 DEF InLine, KernelHas, RanDevice
<1>4. Receiving' => rxBuf' = sock[1].body
  BY <1>2 DEF rxRecv, Receiving
<1>5. \A i \in DOMAIN sock' : 1 < i + 1
  BY <1>2
<1>6. \A i, j \in DOMAIN sock' : i < j => i + 1 < j + 1
  BY <1>2
<1>7. NoGap'
  BY <1>3, GapStays
<1>8. ServedInOrder'
  BY <1>3 DEF ServedInOrder
<1>9. ArrivalOrder'
  BY <1>2, <1>3, <1>4, <1>5, <1>6 DEF ArrivalOrder
<1> QED
  BY <1>7, <1>8, <1>9

LEMMA OrderedPublish ==
  ASSUME SharedInv, ~deploy.host, NoGap, ArrivalOrder, ServedInOrder, rxPublish,
         UNCHANGED <<deploy, arrived, hostVars, deviceVars>>
  PROVE  NoGap' /\ ArrivalOrder' /\ ServedInOrder'
<1>1. /\ UNCHANGED <<sock, rxData, kPc, kCur, gCursor, kExecuted>>
      /\ Receiving /\ ~Receiving' /\ rxNext \in Slots /\ rxData[rxNext] = rxBuf
      /\ rxFlag \in [Slots -> BOOLEAN] /\ ~rxFlag[rxNext] /\ kCur \in Slots
      /\ rxFlag' = [rxFlag EXCEPT ![rxNext] = TRUE] /\ rxNext' = NextSlot(rxNext)
  BY SharedTypes DEF SharedInv, SlotInv, FillsFreeSlot, rxPublish, Receiving,
     rxVars1, deviceVars, kernelVars, graphVars
<1>2. PICK n \in 0 .. NumSlots :
        /\ Distance(kCur, rxNext) = IF n = NumSlots THEN 0 ELSE n
        /\ \A s \in Slots : rxFlag[s] <=> Distance(kCur, s) < n
  BY DEF NoGap
<1>3. /\ n + 1 \in 0 .. NumSlots /\ Distance(kCur, rxNext) = n
      /\ Stretch(kCur, NextSlot(rxNext), n + 1)
      /\ \A s \in Slots : Distance(kCur, s) < n + 1 <=> Distance(kCur, s) < n \/ s = rxNext
  BY <1>1, <1>2, StretchGrows DEF Stretch
<1>4. NoGap'
  <2>1. \A s \in Slots : rxFlag'[s] <=> Distance(kCur', s) < n + 1
    BY <1>1, <1>2, <1>3
  <2>2. Distance(kCur', rxNext') = IF n + 1 = NumSlots THEN 0 ELSE n + 1
    BY <1>1, <1>3 DEF Stretch
  <2>3. /\ kPc' \in {"header", "drop"} => rxFlag'[kCur']
        /\ kPc' = "tail" => gCursor' = kCur'
    BY <1>1 DEF NoGap
  <2> QED
    BY <1>3, <2>1, <2>2, <2>3 DEF NoGap
<1>5. \A s \in Slots : InLine(s)' => InLine(s) \/ s = rxNext
  BY <1>1 DEF InLine, KernelHas
<1>6. \A s \in Slots : InLine(s) =>
        /\ Distance(kCur, s) \in Nat /\ Distance(kCur, s) < n
        /\ ~(Distance(kCur, rxNext) < Distance(kCur, s))
  BY <1>1, <1>2, <1>3, DistanceFacts DEF InLine
<1>7. \A m : RanDevice(m)' <=> RanDevice(m)
  BY <1>1 DEF RanDevice
<1>8. ServedInOrder'
  BY <1>1 DEF ServedInOrder
<1>9. ArrivalOrder'
  <2>1. ~(Distance(kCur, rxNext) < Distance(kCur, rxNext))
    BY <1>3
  <2> QED
    BY <1>1, <1>5, <1>6, <1>7, <2>1 DEF ArrivalOrder
<1> QED
  BY <1>4, <1>8, <1>9

(* A step that moves no flag and no cursor, and receives and runs nothing. *)
LEMMA LineStays ==
  ASSUME NoGap, ArrivalOrder, ServedInOrder,
         UNCHANGED <<deploy, arrived, sock, kExecuted, rxFlag, rxNext, kCur>>,
         Receiving' => Receiving /\ rxBuf' = rxBuf,
         \A s \in Slots : rxFlag[s] => rxData'[s] = rxData[s],
         kPc' \in {"header", "drop"} => rxFlag[kCur],
         kPc' = "tail" => gCursor' = kCur,
         kPc \in {"publish", "retire"} => kPc' \in {"publish", "retire"}
  PROVE  NoGap' /\ ArrivalOrder' /\ ServedInOrder'
<1>1. NoGap'
  BY DEF NoGap
<1>2. KeepsLine
  <2>1. \A s \in Slots : InLine(s)' => InLine(s) /\ rxData'[s] = rxData[s]
    BY DEF InLine, KernelHas
  <2> QED
    BY <2>1 DEF KeepsLine
<1> QED
  BY <1>1, <1>2, LineKept

LEMMA OrderedTransport ==
  ASSUME SharedInv, ~deploy.host, NoGap, ArrivalOrder, ServedInOrder, TransportThreads
  PROVE  NoGap' /\ ArrivalOrder' /\ ServedInOrder'
<1> DEFINE Rest == start \/ rxLoadRx \/ rxLoadTx \/ rxCopy \/ rxExit \/ txLoop
<1>0. /\ UNCHANGED <<deploy, arrived, hostVars, deviceVars>>
      /\ UNCHANGED <<kExecuted, kCur, kPc, gCursor>>
  BY DEF TransportThreads, deviceVars, kernelVars, graphVars
<1>1. CASE rxRecv
  BY <1>0, <1>1, OrderedRecv
<1>2. CASE rxPublish
  BY <1>0, <1>2, OrderedPublish
<1>3. CASE Rest
  <2>1. UNCHANGED <<sock, rxFlag, rxNext>>
    BY <1>3 DEF start, rxLoadRx, rxLoadTx, rxCopy, rxExit, txLoop, txLoad, txSend,
       txClear, txExit, rxVars, rxVars1, txVars1, ringVars
  <2>2. Receiving' => Receiving /\ rxBuf' = rxBuf
    BY <1>3 DEF start, rxLoadRx, rxLoadTx, rxCopy, rxExit, txLoop, txLoad, txSend,
       txClear, txExit, rxVars, rxVars1, txVars1, Receiving
  <2>3. \A s \in Slots : rxFlag[s] => rxData'[s] = rxData[s]
    <3>1. CASE rxCopy
      BY <3>1, SharedTypes DEF rxCopy, SharedInv, SlotInv, FillsFreeSlot
    <3>2. CASE ~rxCopy
      BY <1>3, <3>2 DEF start, rxLoadRx, rxLoadTx, rxExit, txLoop, txLoad, txSend,
         txClear, txExit, ringVars
    <3> QED
      BY <3>1, <3>2
  <2> QED
    BY <1>0, <2>1, <2>2, <2>3, LineStays DEF NoGap
<1> QED
  BY <1>1, <1>2, <1>3 DEF TransportThreads, rxLoop

(* The kernel runs the request in front of the line.                       *)
LEMMA OrderedRun ==
  ASSUME SharedInv, ~deploy.host, NoGap, ArrivalOrder, ServedInOrder, kernelRun,
         gCursor' = gCursor, UNCHANGED <<deploy, arrived, xcvrVars>>
  PROVE  NoGap' /\ ArrivalOrder' /\ ServedInOrder'
<1>0. PICK w \in Slots : w = kCur
  BY SharedTypes DEF SharedInv, SlotInv
<1> DEFINE n == rxData[w].id
<1>1. /\ UNCHANGED <<deploy, arrived, sock, rxPc, rxBuf, rxNext, rxFlag, rxData, kCur>>
      /\ kPc = "run" /\ kPc' = "publish" /\ kExecuted' = Append(kExecuted, n)
  BY <1>0 DEF kernelRun, xcvrVars, rxVars
<1>2. rxFlag[w] /\ InLine(w)
  BY <1>0, <1>1 DEF SharedInv, SlotInv, OwnersAgree, KernelHas, InLine
<1>3. /\ kExecuted \in Seq(Nat) /\ n \in Nat /\ n \in DOMAIN arrived
      /\ \A i \in DOMAIN kExecuted : kExecuted[i] \in DOMAIN arrived
  BY <1>2, LineNumbers, SharedTypes DEF SharedInv, SlotInv
<1>4. /\ \A i \in DOMAIN kExecuted : i \in DOMAIN kExecuted' /\ kExecuted'[i] = kExecuted[i]
      /\ kExecuted'[Len(kExecuted) + 1] = n
      /\ \A i \in DOMAIN kExecuted' : i \in DOMAIN kExecuted \/ i = Len(kExecuted) + 1
      /\ DOMAIN kExecuted = 1 .. Len(kExecuted) /\ Len(kExecuted) \in Nat
  BY <1>1, <1>3, AppendElements, LenProperties
<1>5. /\ \A s \in Slots : InLine(s)' => InLine(s) /\ s # w
      /\ Receiving' = Receiving
  BY <1>0, <1>1 DEF InLine, KernelHas, Receiving
<1>6. \A s \in Slots : InLine(s) /\ s # w => n < rxData[s].id
  <2>1. \A s \in Slots : s # w => Distance(kCur, w) < Distance(kCur, s)
    BY <1>0, DistanceFacts, NumSlotsAssumption
  <2> QED
    BY <1>2, <2>1 DEF ArrivalOrder
<1>7. \A m : RanDevice(m)' => RanDevice(m) \/ m = n
  BY <1>1, <1>4 DEF RanDevice
<1>8. /\ \A i \in DOMAIN sock : n < sock[i].body.id
      /\ Receiving => n < rxBuf.id
      /\ \A m \in DOMAIN arrived : RanDevice(m) => m < n
  BY <1>2 DEF ArrivalOrder
<1> HIDE DEF n
<1>9. NoGap'
  BY <1>1 DEF NoGap
<1>10. ServedInOrder'
  <2> SUFFICES ASSUME NEW i \in DOMAIN kExecuted', NEW j \in DOMAIN kExecuted', i < j,
                      IsDeviceCall(arrived[kExecuted'[i]]),
                      IsDeviceCall(arrived[kExecuted'[j]])
               PROVE  kExecuted'[i] < kExecuted'[j]
    BY <1>1 DEF ServedInOrder
  <2>1. i \in DOMAIN kExecuted
    BY <1>4
  <2>2. CASE j \in DOMAIN kExecuted
    BY <1>4, <2>1, <2>2 DEF ServedInOrder
  <2>3. CASE j = Len(kExecuted) + 1
    BY <1>3, <1>4, <1>8, <2>1, <2>3 DEF RanDevice
  <2> QED
    BY <1>4, <2>2, <2>3
<1>11. ArrivalOrder'
  BY <1>1, <1>5, <1>6, <1>7, <1>8 DEF ArrivalOrder
<1> QED
  BY <1>9, <1>10, <1>11

LEMMA OrderedKernel ==
  ASSUME SharedInv, ~deploy.host, NoGap, ArrivalOrder, ServedInOrder, KernelStep
  PROVE  NoGap' /\ ArrivalOrder' /\ ServedInOrder'
<1>0. /\ UNCHANGED <<deploy, arrived, xcvrVars>>
      /\ UNCHANGED <<sock, rxNext, rxPc, rxBuf>> /\ Receiving' = Receiving
      /\ ~kShared /\ kPc # "scan" /\ kCur \in Slots
  BY SharedTypes DEF KernelStep, xcvrVars, rxVars, Receiving, SharedInv, SlotInv, Deployed
<1>1. CASE (kernelPoll \/ kernelScan \/ kernelProbe) /\ UNCHANGED graphVars
  BY <1>0, <1>1, LineStays DEF kernelPoll, kernelScan, kernelProbe, ringVars
<1>2. CASE kernelHeader /\ UNCHANGED graphVars
  BY <1>0, <1>2, LineStays DEF kernelHeader, kernelClaim, ringVars, NoGap
<1>3. CASE kernelDrop /\ UNCHANGED graphVars
  <2>1. rxFlag[kCur]
    BY <1>3 DEF kernelDrop, NoGap
  <2>2. NoGap' /\ KeepsLine
    BY <1>0, <1>3, <2>1, KernelAdvances DEF kernelDrop
  <2> QED
    BY <2>2, LineKept
<1>4. CASE kernelRetire /\ UNCHANGED graphVars
  <2>1. rxFlag[kCur]
    BY <1>0, <1>4 DEF kernelRetire, SharedInv, SlotInv, OwnersAgree, KernelHas
  <2>2. NoGap' /\ KeepsLine
    BY <1>0, <1>4, <2>1, KernelAdvances DEF kernelRetire
  <2> QED
    BY <2>2, LineKept
<1>5. CASE kernelPublish /\ UNCHANGED graphVars
  BY <1>0, <1>5, LineStays DEF kernelPublish
<1>6. CASE kernelExit /\ UNCHANGED graphVars
  BY <1>0, <1>6, LineStays DEF kernelExit, ringVars
<1>7. CASE kernelRun /\ (UNCHANGED graphVars \/ Triggered)
  <2>1. gCursor' = gCursor
    BY <1>7 DEF graphVars, Triggered
  <2> QED
    BY <1>0, <1>7, <2>1, OrderedRun
<1>8. CASE graphLaunch(deploy.budget)
  BY <1>0, <1>8, LineStays DEF graphLaunch, ringVars
<1>9. CASE graphTail
  BY <1>0, <1>9, LineStays DEF graphTail, ringVars
<1>10. CASE tailLaunched
  <2>1. kCur' = kCur
    BY <1>10 DEF tailLaunched, execution, NoGap
  <2> QED
    BY <1>0, <1>10, <2>1, LineStays DEF tailLaunched, execution, ringVars
<1> QED
  BY <1>1, <1>2, <1>3, <1>4, <1>5, <1>6, <1>7, <1>8, <1>9, <1>10, KernelSteps,
     TriggerOrNot DEF KernelPlain, graphRun

(* A child's request is no device call, so it does not count.              *)
LEMMA OrderedChild ==
  ASSUME SharedInv, ~deploy.host, NoGap, ArrivalOrder, ServedInOrder, GraphStep
  PROVE  NoGap' /\ ArrivalOrder' /\ ServedInOrder'
<1>0. /\ UNCHANGED <<deploy, arrived, sock, rxNext, rxPc, rxBuf, rxFlag, rxData, kCur,
           kPc, gCursor>>
      /\ Receiving' = Receiving
  BY DEF GraphStep, childStep, childRun, childEnd, xcvrVars, rxVars, kernelVars, Receiving
<1>1. CASE childEnd
  BY <1>0, <1>1, LineStays DEF childEnd, kernelVars, NoGap
<1>2. CASE childRun
  <2>0. PICK w \in Slots : w = gIo
    BY SharedTypes DEF SharedInv, SlotInv
  <2>1. PICK g \in gGraphs : g.kind = "call" /\ g.pc = "new"
    BY <1>2 DEF childRun
  <2>2. ChildHas(w) /\ Waits(w)
    BY <2>0, <2>1 DEF SharedInv, SlotInv, ChildrenApart, ChildHas, Waits
  <2> DEFINE n == rxData[w].id
  <2>3. IsGraphLaunch(rxData[w]) /\ n \in DOMAIN arrived /\ arrived[n].fn = rxData[w].fn
    BY <2>2 DEF SharedInv, SlotInv, OwnersAgree, RequestsApart, Recorded
  <2>4. ~IsDeviceCall(arrived[n])
    BY <2>3 DEF IsGraphLaunch, IsDeviceCall, lookupFunction
  <2>5. kExecuted' = Append(kExecuted, n) /\ kExecuted \in Seq(Nat) /\ n \in Nat
    BY <1>2, <2>0, <2>3, SharedTypes, LenProperties
    DEF childRun, SharedInv, SlotInv, SharedTypeOK
  <2> HIDE DEF n
  <2>6. /\ \A i \in DOMAIN kExecuted :
              i \in DOMAIN kExecuted' /\ kExecuted'[i] = kExecuted[i]
        /\ kExecuted'[Len(kExecuted) + 1] = n
        /\ \A i \in DOMAIN kExecuted' : i \in DOMAIN kExecuted \/ i = Len(kExecuted) + 1
    BY <2>5, AppendElements
  <2>7. \A m : RanDevice(m)' => RanDevice(m)
    BY <1>0, <2>4, <2>6 DEF RanDevice
  <2>8. \A s \in Slots : InLine(s)' = InLine(s)
    BY <1>0 DEF InLine, KernelHas
  <2>9. NoGap'
    BY <1>0 DEF NoGap
  <2>10. ServedInOrder'
    BY <1>0, <2>4, <2>6 DEF ServedInOrder
  <2>11. ArrivalOrder'
    BY <1>0, <2>7, <2>8 DEF ArrivalOrder
  <2> QED
    BY <2>9, <2>10, <2>11
<1> QED
  BY <1>1, <1>2 DEF GraphStep, childStep

LEMMA OrderedNext ==
  ASSUME KernelsPlaced, SharedInv, KernelOrder, [SharedNext]_sharedVars
  PROVE  KernelOrder'
<1>0. deploy' = deploy /\ deploy \in Deployments
  BY DEF SharedNext, Arrive, TransportThreads, HostLoop, KernelStep, GraphStep, Owner,
     sharedVars, SharedInv, SlotInv, SharedTypeOK
<1> SUFFICES ASSUME ~deploy.host PROVE NoGap' /\ ArrivalOrder' /\ ServedInOrder'
  BY <1>0 DEF KernelOrder
<1>1. NoGap /\ ArrivalOrder /\ ServedInOrder
  BY DEF KernelOrder
<1>2. CASE (Owner /\ UNCHANGED <<kernelVars, ringVars, graphVars>>) \/ UNCHANGED sharedVars
  <2>1. /\ UNCHANGED <<deploy, arrived, sock, kExecuted, rxFlag, rxNext, kCur, rxData,
             kPc, gCursor, rxPc, rxBuf>>
    BY <1>2 DEF Owner, sharedVars, deviceVars, kernelVars, ringVars, xcvrVars, rxVars,
       graphVars
  <2>2. Receiving' = Receiving
    BY <2>1 DEF Receiving
  <2> QED
    BY <1>1, <2>1, <2>2, LineStays DEF NoGap
<1>3. Owner => UNCHANGED <<kernelVars, ringVars, graphVars>>
  BY <1>0 DEF Owner, stopKernel, KernelsPlaced
<1>4. ~HostLoop
  BY DEF HostLoop
<1> QED
  BY <1>1, <1>2, <1>3, <1>4, OrderedArrive, OrderedTransport, OrderedKernel, OrderedChild
  DEF SharedNext

-----------------------------------------------------------------------------
(* SharedRingService: the theorems.                                        *)

(* Two sequences without repetition and with nothing in common make one    *)
(* without repetition.                                                     *)
LEMMA ConcatApart ==
  ASSUME NEW S, NEW p \in Seq(S), NEW q \in Seq(S),
         \A i, j \in DOMAIN p : p[i] = p[j] => i = j,
         \A i, j \in DOMAIN q : q[i] = q[j] => i = j,
         \A i \in DOMAIN p, j \in DOMAIN q : p[i] # q[j]
  PROVE  \A i, j \in DOMAIN (p \o q) : (p \o q)[i] = (p \o q)[j] => i = j
<1>1. /\ Len(p) \in Nat /\ Len(q) \in Nat /\ DOMAIN p = 1 .. Len(p)
      /\ DOMAIN q = 1 .. Len(q)
  BY LenProperties
<1>2. /\ p \o q \in Seq(S) /\ Len(p \o q) = Len(p) + Len(q)
      /\ \A i \in 1 .. Len(p) + Len(q) :
            (p \o q)[i] = IF i <= Len(p) THEN p[i] ELSE q[i - Len(p)]
  BY ConcatProperties
<1>3. DOMAIN (p \o q) = 1 .. Len(p) + Len(q)
  BY <1>2, LenProperties
<1>4. \A i \in DOMAIN (p \o q) :
        \/ i \in DOMAIN p /\ (p \o q)[i] = p[i]
        \/ i - Len(p) \in DOMAIN q /\ (p \o q)[i] = q[i - Len(p)] /\ i \in Nat
  BY <1>1, <1>2, <1>3
<1> SUFFICES ASSUME NEW i \in DOMAIN (p \o q), NEW j \in DOMAIN (p \o q),
                    (p \o q)[i] = (p \o q)[j]
             PROVE  i = j
  OBVIOUS
<1>5. CASE i \in DOMAIN p /\ (p \o q)[i] = p[i]
  BY <1>4, <1>5
<1>6. CASE i - Len(p) \in DOMAIN q /\ (p \o q)[i] = q[i - Len(p)] /\ i \in Nat
  <2>1. j - Len(p) \in DOMAIN q /\ (p \o q)[j] = q[j - Len(p)] /\ j \in Nat
    BY <1>4, <1>6
  <2>2. i - Len(p) = j - Len(p)
    BY <1>6, <2>1
  <2> QED
    BY <1>1, <1>6, <2>1, <2>2
<1> QED
  BY <1>4, <1>5, <1>6

(* The inductive invariant of the shared ring, for the code's dispatchers  *)
(* (host_dispatcher.cpp, dispatch_kernel.cu) and transport threads in any  *)
(* interleaving: whatever is read is a request, and until one is replaced  *)
(* under its reader each slot has one owner, and each request and each     *)
(* reply is in one place.                                                  *)
THEOREM SharedInvariant == SharedSpec => [](WellTyped /\ (~overtaken => SharedInv))
<1>1. SharedInit => WellTyped /\ SharedInv
  BY SlotInit, ApartInit DEF WellTyped, SlotInv, SharedInv, Apart
<1>2. ASSUME WellTyped, ~overtaken => SharedInv, [SharedNext]_sharedVars
      PROVE  WellTyped' /\ (~overtaken' => SharedInv')
  BY <1>2, WellTypedNext, StaysOvertaken, SharedStep DEF WellTyped
<1> QED
  BY <1>1, <1>2, PTL DEF SharedSpec

(* Shared ring mode answers "each request exactly once": unless a request  *)
(* was replaced under its reader, none runs twice on the host loop, the    *)
(* kernel or a child graph, or on two of them, and no reply is sent twice. *)
THEOREM SharedAnsweredOnce == SharedSpec => []AnsweredOnce
<1>1. SharedInv => RunAndSentOnce
  <2> SUFFICES ASSUME SharedInv PROVE RunAndSentOnce
    OBVIOUS
  <2>1. executed \in Seq(Nat) /\ kExecuted \in Seq(Nat)
    BY SharedTypes DEF SharedInv, SlotInv
  <2>2. \A i, j \in DOMAIN (executed \o kExecuted) :
          (executed \o kExecuted)[i] = (executed \o kExecuted)[j] => i = j
    BY <2>1, ConcatApart DEF SharedInv, RunsApart
  <2>3. \A i, j \in DOMAIN wire : wire[i].body.id = wire[j].body.id => i = j
    BY DEF SharedInv, RepliesApart
  <2> QED
    BY <2>2, <2>3 DEF RunAndSentOnce
<1> QED
  BY <1>1, SharedInvariant, PTL DEF AnsweredOnce

(* The readers of a kernel that has the ring to itself and launches no     *)
(* child graphs: the slot it stands on has its flag raised, so the         *)
(* transport does not get past its first test.                             *)
LEMMA AloneNotOvertaken ==
  ASSUME PlaceInv, ~overtaken, ~deploy.host, NoGraphLaunch, [SharedNext]_sharedVars
  PROVE  ~overtaken'
<1> USE DEF PlaceInv, SharedInv, SlotInv
<1>1. \A g \in gGraphs : g.kind # "call"
  BY DEF OneTrigger
<1>2. CASE TransportThreads
  <2>1. ASSUME Overtakes PROVE FALSE
    <3>1. rxPc \in {"loadTx", "copy"}
      BY <1>2, <2>1 DEF Overtakes, TransportThreads, start, rxLoop, rxRecv, rxLoadRx,
         rxLoadTx, rxCopy, rxPublish, rxExit, txLoop, txLoad, txSend, txClear, txExit,
         txVars1, rxVars, Deployed
    <3>2. ~rxFlag[rxNext] /\ Reading(rxNext)
      BY <2>1, <3>1 DEF Overtakes, FillsFreeSlot
    <3>3. kPc \in {"header", "drop"} /\ kCur = rxNext
      BY <1>1, <3>2 DEF Reading, Deployed
    <3> QED
      BY <3>2, <3>3 DEF KernelOrder, NoGap
  <2> QED
    BY <1>2, <2>1 DEF TransportThreads
<1>3. CASE KernelStep
  BY <1>1, <1>3 DEF KernelStep, MovesContext
<1>4. CASE Arrive \/ HostLoop \/ GraphStep \/ Owner \/ UNCHANGED sharedVars
  BY <1>4 DEF Arrive, HostLoop, GraphStep, Owner, sharedVars
<1> QED
  BY <1>2, <1>3, <1>4 DEF SharedNext

(* The invariant with the kernel's place in the ring and its launches      *)
(* added: the graph kernel of dispatch_kernel.cu across the relaunches of  *)
(* its own graph; and that such a kernel, alone and without child graphs,  *)
(* is never overtaken, so that what holds until then holds for good.       *)
THEOREM SharedPlaces ==
  ASSUME KernelsPlaced
  PROVE  SharedSpec => []((~overtaken => PlaceInv) /\ OvertakenBeside)
<1>1. SharedInit => PlaceInv /\ ~overtaken
  BY SlotInit, ApartInit, TriggerInit, OrderInitially
  DEF SharedInit, PlaceInv, SharedInv, Apart
<1>2. ASSUME WellTyped, ~overtaken => PlaceInv, OvertakenBeside,
             [SharedNext]_sharedVars
      PROVE  (~overtaken' => PlaceInv') /\ OvertakenBeside'
  <2>1. deploy' = deploy
    BY <1>2 DEF SharedNext, Arrive, TransportThreads, HostLoop, KernelStep, GraphStep,
       Owner, sharedVars
  <2>2. ~overtaken' => ~overtaken
    BY <1>2, StaysOvertaken DEF WellTyped
  <2>3. ~overtaken' => PlaceInv'
    BY <1>2, <2>2, SharedStep, TriggerNext, OrderedNext DEF PlaceInv
  <2>4. OvertakenBeside'
    BY <1>2, <2>1, AloneNotOvertaken DEF OvertakenBeside, NoGraphLaunch
  <2> QED
    BY <2>3, <2>4
<1> QED
  BY <1>1, <1>2, SharedInvariant, PTL DEF SharedSpec, OvertakenBeside

(* A slot belongs to one dispatcher or child graph at a time, a kernel     *)
(* alone on the ring serves device calls in the order of their arrival,    *)
(* and a trigger fails only where graph launches share its budget, until a *)
(* request is replaced under its reader; that takes a second dispatcher or *)
(* child graphs.                                                           *)
THEOREM SharedSlotsOwned == ASSUME KernelsPlaced PROVE SharedSpec => []SlotsOwned
<1>1. PlaceInv => NoSlotContention /\ ServedInOrder /\ TriggersFire
  <2> SUFFICES ASSUME PlaceInv
               PROVE  NoSlotContention /\ ServedInOrder /\ TriggersFire
    OBVIOUS
  <2> USE DEF PlaceInv, SharedInv, SlotInv
  <2>1. NoSlotContention
    <3>1. ~(/\ dPc \in {"invoke", "publish"} /\ kPc \in {"run", "publish", "retire"}
            /\ dSlot = kCur)
      BY SharedTypes, ModesDiffer DEF OwnersAgree, HostHas, KernelHas, ForKernel
    <3> QED
      BY <3>1 DEF NoSlotContention, ChildrenApart
  <2>2. ServedInOrder
    BY DEF KernelOrder, ServedInOrder
  <2>3. TriggersFire
    BY DEF OneTrigger, TriggersFire
  <2> QED
    BY <2>1, <2>2, <2>3
<1>2. WellTyped /\ (~overtaken => PlaceInv) /\ OvertakenBeside => SlotsOwned
  BY <1>1 DEF WellTyped, SlotsOwned
<1> QED
  BY <1>2, SharedInvariant, SharedPlaces, PTL

=============================================================================
