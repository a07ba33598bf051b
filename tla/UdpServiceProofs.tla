-------------------------- MODULE UdpServiceProofs --------------------------
(***************************************************************************)
(* Proofs about UdpService, for every number of slots, every function      *)
(* table and every pattern of arrivals.                                    *)
(***************************************************************************)
EXTENDS UdpService, SequenceTheorems, TLAPS

-----------------------------------------------------------------------------
(* Sequences by position, and cursors round a ring of any size.            *)

(* The positions of a sequence are numbers.                                *)
LEMMA Positions == \A S : \A q \in Seq(S) : /\ DOMAIN q \subseteq Nat
                                           /\ \A i \in DOMAIN q : q[i] \in S
  BY LenProperties, ElementOfSeq

(* The elements of a sequence after Append and after Tail, by position.    *)
LEMMA AppendElements ==
  ASSUME NEW S, NEW q \in Seq(S), NEW e \in S
  PROVE  /\ \A i \in DOMAIN q : i \in DOMAIN Append(q, e) /\ Append(q, e)[i] = q[i]
         /\ Append(q, e)[Len(q) + 1] = e
         /\ Len(q) + 1 \in DOMAIN Append(q, e)
         /\ \A i \in DOMAIN Append(q, e) : i \in DOMAIN q \/ i = Len(q) + 1
         /\ Len(q) + 1 \notin DOMAIN q
<1>1. /\ Len(Append(q, e)) = Len(q) + 1 /\ Append(q, e) \in Seq(S)
      /\ \A i \in 1 .. Len(q) : Append(q, e)[i] = q[i]
      /\ Append(q, e)[Len(q) + 1] = e
  BY AppendProperties
<1>2. DOMAIN Append(q, e) = 1 .. Len(q) + 1 /\ DOMAIN q = 1 .. Len(q) /\ Len(q) \in Nat
  BY <1>1, LenProperties
<1> QED
  BY <1>1, <1>2

LEMMA TailElements ==
  ASSUME NEW S, NEW q \in Seq(S), q # << >>
  PROVE  /\ 1 \in DOMAIN q /\ Head(q) = q[1]
         /\ \A i \in DOMAIN Tail(q) :
               i + 1 \in DOMAIN q /\ i + 1 # 1 /\ i \in Nat /\ Tail(q)[i] = q[i + 1]
<1>1. /\ Tail(q) \in Seq(S) /\ Len(Tail(q)) = Len(q) - 1
      /\ \A i \in 1 .. Len(Tail(q)) : Tail(q)[i] = q[i + 1]
  BY HeadTailProperties
<1>2. /\ DOMAIN Tail(q) = 1 .. Len(Tail(q)) /\ DOMAIN q = 1 .. Len(q)
      /\ Len(q) \in Nat \ {0}
  BY <1>1, LenProperties, EmptySeq
<1>3. Head(q) = q[1]
  OBVIOUS
<1> QED
  BY <1>1, <1>2, <1>3

(* The bodies of a sequence of datagrams, after one more is sent.          *)
LEMMA BodiesOfAppend ==
  ASSUME NEW S, NEW T, NEW q \in Seq(S), NEW e \in S, \A x \in S : x.body \in T
  PROVE  [i \in DOMAIN Append(q, e) |-> Append(q, e)[i].body]
            = Append([i \in DOMAIN q |-> q[i].body], e.body)
<1> DEFINE p == [i \in DOMAIN q |-> q[i].body]
           r == [i \in DOMAIN Append(q, e) |-> Append(q, e)[i].body]
<1>1. /\ Len(q) \in Nat /\ DOMAIN q = 1 .. Len(q)
      /\ \A i \in 1 .. Len(q) : q[i] \in S
  BY LenProperties, ElementOfSeq
<1>2. /\ Append(q, e) \in Seq(S) /\ Len(Append(q, e)) = Len(q) + 1
      /\ \A i \in 1 .. Len(q) : Append(q, e)[i] = q[i]
      /\ Append(q, e)[Len(q) + 1] = e
  BY AppendProperties
<1>3. DOMAIN Append(q, e) = 1 .. Len(q) + 1
  BY <1>2, LenProperties
<1>4. p \in Seq(T) /\ Len(p) = Len(q)
  <2>1. p \in [1 .. Len(q) -> T]
    BY <1>1
  <2>2. p \in Seq(T)
    BY <1>1, <2>1, SeqDef
  <2> QED
    BY <1>1, <2>1, <2>2, LenProperties
<1>5. r \in Seq(T) /\ Len(r) = Len(q) + 1
  <2>1. r \in [1 .. Len(q) + 1 -> T]
    BY <1>1, <1>2, <1>3
  <2>2. r \in Seq(T)
    BY <1>1, <2>1, SeqDef
  <2> QED
    BY <1>1, <2>1, <2>2, LenProperties
<1>6. e.body \in T
  OBVIOUS
<1> DEFINE a == Append(p, e.body)
<1>7. /\ a \in Seq(T) /\ Len(a) = Len(q) + 1
      /\ \A i \in 1 .. Len(q) : a[i] = p[i]
      /\ a[Len(q) + 1] = e.body
  BY <1>4, <1>6, AppendProperties
<1>8. \A i \in 1 .. Len(q) + 1 : r[i] = a[i]
  BY <1>1, <1>2, <1>3, <1>7
<1> HIDE DEF r, a
<1>9. r = a
  BY <1>5, <1>7, <1>8, SeqEqual
<1> QED
  BY <1>9 DEF r, a

(* A cursor stays inside the ring.                                         *)
LEMMA NextSlotType == \A s \in Slots : NextSlot(s) \in Slots
  BY NumSlotsAssumption DEF Slots, NextSlot

(* One step of a cursor, and what it does to distances round the ring.     *)
LEMMA NextSlotIs ==
  \A s \in Slots : NextSlot(s) = IF s = NumSlots - 1 THEN 0 ELSE s + 1
<1> SUFFICES ASSUME NEW s \in Slots
             PROVE  NextSlot(s) = IF s = NumSlots - 1 THEN 0 ELSE s + 1
  OBVIOUS
<1>1. CASE s = NumSlots - 1
  BY <1>1, NumSlotsAssumption DEF Slots, NextSlot
<1>2. CASE s # NumSlots - 1
  BY <1>2, NumSlotsAssumption DEF Slots, NextSlot
<1> QED
  BY <1>1, <1>2

LEMMA DistanceFacts ==
  ASSUME NEW c \in Slots, NEW s \in Slots
  PROVE  /\ Distance(c, s) \in 0 .. NumSlots - 1
         /\ Distance(c, s) = 0 <=> s = c
         /\ NextSlot(s) = c <=> Distance(c, s) = NumSlots - 1
         /\ NextSlot(s) # c => Distance(c, NextSlot(s)) = Distance(c, s) + 1
         /\ s # c => Distance(NextSlot(c), s) = Distance(c, s) - 1
         /\ Distance(NextSlot(c), c) = NumSlots - 1
         /\ \A t \in Slots : Distance(c, s) = Distance(c, t) => s = t
<1>1. /\ NextSlot(s) = IF s = NumSlots - 1 THEN 0 ELSE s + 1
      /\ NextSlot(c) = IF c = NumSlots - 1 THEN 0 ELSE c + 1
  BY NextSlotIs
<1> QED
  BY <1>1, NumSlotsAssumption DEF Slots, Distance

-----------------------------------------------------------------------------

-----------------------------------------------------------------------------
(* Type correctness.                                                       *)

LEMMA TypeInit == Init => TypeOK
  BY NumSlotsAssumption, NoPeerAssumption
  DEF Init, TypeOK, RingInit, XcvrInit, DispInit, RingTypeOK, XcvrTypeOK,
      DispTypeOK, Slots, Datagrams, Sent

LEMMA TypeArrive == TypeOK /\ Arrive => TypeOK'
  BY ArrivingAssumption
  DEF TypeOK, Arrive, RingTypeOK, XcvrTypeOK, DispTypeOK, Datagrams, Requests,
      ringVars, rxVars, txVars, dispVars

LEMMA TypeOwner == TypeOK /\ Owner /\ UNCHANGED arrived => TypeOK'
<1> SUFFICES ASSUME TypeOK, Owner, UNCHANGED arrived PROVE TypeOK'
  OBVIOUS
<1> USE DEF TypeOK, RingTypeOK, XcvrTypeOK, DispTypeOK, ringVars, rxVars,
      txVars, dispVars, xcvrVars
<1>1. CASE start /\ UNCHANGED <<shutdown, dispVars>>
  <2>1. rxPc' \in {"off", "recv"} /\ txPc' \in {"off", "load"}
    BY <1>1 DEF start
  <2>2. /\ running' = TRUE
        /\ UNCHANGED <<unified, fd, sock, wire, peer, rxBuf, rxNext, txCursor>>
        /\ UNCHANGED ringVars
    BY <1>1 DEF start
  <2> QED
    BY <1>1, <2>1, <2>2
<1>2. CASE close /\ UNCHANGED <<shutdown, dispVars>>
  <2>1. running' \in BOOLEAN /\ fd' \in {"open", "joining", "closed"}
    BY <1>2 DEF close
  <2>2. /\ UNCHANGED <<unified, sock, wire, peer, rxVars, txVars>>
        /\ UNCHANGED ringVars
    BY <1>2 DEF close
  <2> QED
    BY <1>2, <2>1, <2>2
<1>3. CASE closeSocket /\ UNCHANGED <<shutdown, dispVars>>
  <2>1. sock' \in Seq(Datagrams(Requests))
    BY <1>3, EmptySeq DEF closeSocket
  <2> QED
    BY <1>3, <2>1 DEF closeSocket
<1>4. CASE raiseShutdown /\ UNCHANGED xcvrVars
  BY <1>4 DEF raiseShutdown
<1> QED
  BY <1>1, <1>2, <1>3, <1>4 DEF Owner

LEMMA TypeRx == TypeOK /\ RxThread /\ UNCHANGED arrived => TypeOK'
<1> SUFFICES ASSUME TypeOK, RxThread, UNCHANGED arrived PROVE TypeOK'
  OBVIOUS
<1> USE DEF TypeOK, RingTypeOK, XcvrTypeOK, DispTypeOK, RxThread, ringVars,
      rxVars, rxVars1, txVars, dispVars
<1>1. CASE rxRecv
  <2>1. /\ Head(sock) \in Datagrams(Requests)
        /\ Tail(sock) \in Seq(Datagrams(Requests))
    BY <1>1, HeadTailProperties DEF rxRecv
  <2> QED
    BY <1>1, <2>1 DEF rxRecv, Datagrams
<1>2. CASE rxLoadRx
  BY <1>2 DEF rxLoadRx
<1>3. CASE rxLoadTx
  BY <1>3 DEF rxLoadTx
<1>4. CASE rxCopy
  BY <1>4 DEF rxCopy
<1>5. CASE rxPublish
  BY <1>5, NextSlotType DEF rxPublish
<1>6. CASE rxExit
  BY <1>6 DEF rxExit
<1> QED
  BY <1>1, <1>2, <1>3, <1>4, <1>5, <1>6 DEF rxLoop

LEMMA TypeTx == TypeOK /\ TxThread /\ UNCHANGED arrived => TypeOK'
<1> SUFFICES ASSUME TypeOK, TxThread, UNCHANGED arrived PROVE TypeOK'
  OBVIOUS
<1> USE DEF TypeOK, RingTypeOK, XcvrTypeOK, DispTypeOK, TxThread, ringVars,
      rxVars, txVars1, txVars, dispVars
<1>1. CASE txLoad
  BY <1>1 DEF txLoad
<1>2. CASE txSend
  <2>1. wire' \in Seq(Sent(Replies))
    <3>1. CASE peer = NoPeer
      BY <1>2, <3>1 DEF txSend, Ship
    <3>2. CASE peer # NoPeer
      <4>1. [to |-> peer, body |-> txData[txCursor]] \in Sent(Replies)
        BY <3>2 DEF Sent
      <4> QED
        BY <1>2, <3>2, <4>1, AppendProperties DEF txSend, Ship
    <3> QED
      BY <3>1, <3>2
  <2> QED
    BY <1>2, <2>1 DEF txSend
<1>3. CASE txClear
  BY <1>3, NextSlotType DEF txClear
<1>4. CASE txExit
  BY <1>4 DEF txExit
<1> QED
  BY <1>1, <1>2, <1>3, <1>4 DEF txLoop

LEMMA TypeDispatcher ==
  TypeOK /\ Handshake /\ PagesFilled /\ Dispatcher /\ UNCHANGED arrived => TypeOK'
<1> SUFFICES ASSUME TypeOK, Handshake, PagesFilled, Dispatcher,
                    UNCHANGED arrived
             PROVE  TypeOK'
  OBVIOUS
<1> USE DEF TypeOK, RingTypeOK, XcvrTypeOK, DispTypeOK, Dispatcher, ringVars,
      rxVars, txVars, dispVars, xcvrVars
<1>1. CASE pollRequest
  BY <1>1 DEF pollRequest
<1>2. CASE pollScan \/ pollProbe
  BY <1>2, SoleDispatcher DEF pollScan, pollProbe
<1>3. CASE pollReload
  BY <1>3 DEF pollReload
<1>4. CASE checkHeader
  BY <1>4 DEF checkHeader, Retire
<1>5. CASE invokeHostCall
  <2>1. rxData[dSlot] \in Requests
    BY <1>5 DEF invokeHostCall, Handshake, PagesFilled, Dispatching
  <2>2. Reply(rxData[dSlot]) \in Replies /\ rxData[dSlot].id \in Nat
    BY <2>1 DEF Reply, Replies, Requests
  <2>3. Append(executed, rxData[dSlot].id) \in Seq(Nat)
    BY <2>2, AppendProperties
  <2>4. txData' \in [Slots -> Replies \cup {Zero}] /\ executed' \in Seq(Nat)
    BY <1>5, <2>2, <2>3 DEF invokeHostCall
  <2>5. dPc' \in {"publish", "retire"} /\ dOutcome' \in {"Handled", dOutcome}
    BY <1>5 DEF invokeHostCall, Retire
  <2>6. UNCHANGED <<dCur, dSlot, dCount, stats, shutdown, rxFlag, txFlag, rxData>>
    BY <1>5 DEF invokeHostCall
  <2> QED
    BY <2>4, <2>5, <2>6
<1>6. CASE sendResponse
  BY <1>6 DEF sendResponse, Retire
<1>7. CASE retireRequest
  BY <1>7, NextSlotType DEF retireRequest
<1>8. CASE exitLoop
  BY <1>8 DEF exitLoop
<1> QED
  BY <1>1, <1>2, <1>3, <1>4, <1>5, <1>6, <1>7, <1>8 DEF ringDispatchLoop

-----------------------------------------------------------------------------
(* The flag protocol.                                                      *)

LEMMA HandshakeInit == Init => Handshake
  BY NumSlotsAssumption
  DEF Init, Handshake, RingInit, XcvrInit, DispInit, Dispatching, Shipping,
      Slots

(* Steps that touch no flag and no program point the protocol mentions.    *)
LEMMA HandshakeOutside ==
  Handshake /\ (Arrive \/ Owner) => Handshake'
<1> SUFFICES ASSUME Handshake, Arrive \/ Owner PROVE Handshake'
  OBVIOUS
<1> USE DEF Handshake, Dispatching, Shipping, ringVars, rxVars, txVars,
      dispVars, xcvrVars
<1>1. CASE Arrive
  BY <1>1 DEF Arrive
<1>2. CASE start /\ UNCHANGED <<shutdown, dispVars>>
  <2>1. rxPc' \in {"off", "recv"} /\ txPc' \in {"off", "load"}
    BY <1>2 DEF start
  <2> QED
    BY <1>2, <2>1 DEF start
<1>3. CASE close /\ UNCHANGED <<shutdown, dispVars>>
  BY <1>3 DEF close
<1>4. CASE closeSocket /\ UNCHANGED <<shutdown, dispVars>>
  BY <1>4 DEF closeSocket
<1>5. CASE raiseShutdown /\ UNCHANGED xcvrVars
  BY <1>5 DEF raiseShutdown
<1> QED
  BY <1>1, <1>2, <1>3, <1>4, <1>5 DEF Owner

LEMMA HandshakeRx == TypeOK /\ Handshake /\ RxThread => Handshake'
<1> SUFFICES ASSUME TypeOK, Handshake, RxThread PROVE Handshake'
  OBVIOUS
<1> USE DEF TypeOK, RingTypeOK, XcvrTypeOK, DispTypeOK, Handshake, Dispatching,
      Shipping, RxThread, ringVars, rxVars, rxVars1, txVars, dispVars
<1>1. CASE rxRecv
  BY <1>1 DEF rxRecv
<1>2. CASE rxLoadRx
  BY <1>2 DEF rxLoadRx
<1>3. CASE rxLoadTx
  BY <1>3 DEF rxLoadTx
<1>4. CASE rxCopy
  BY <1>4 DEF rxCopy
<1>5. CASE rxPublish
  BY <1>5 DEF rxPublish
<1>6. CASE rxExit
  BY <1>6 DEF rxExit
<1> QED
  BY <1>1, <1>2, <1>3, <1>4, <1>5, <1>6 DEF rxLoop

LEMMA HandshakeTx == TypeOK /\ Handshake /\ TxThread => Handshake'
<1> SUFFICES ASSUME TypeOK, Handshake, TxThread PROVE Handshake'
  OBVIOUS
<1> USE DEF TypeOK, RingTypeOK, XcvrTypeOK, DispTypeOK, Handshake, Dispatching,
      Shipping, TxThread, ringVars, rxVars, txVars1, txVars, dispVars
<1>1. CASE txLoad
  BY <1>1 DEF txLoad
<1>2. CASE txSend
  BY <1>2 DEF txSend
<1>3. CASE txClear
  BY <1>3 DEF txClear
<1>4. CASE txExit
  BY <1>4 DEF txExit
<1> QED
  BY <1>1, <1>2, <1>3, <1>4 DEF txLoop

LEMMA HandshakeDispatcher == TypeOK /\ Handshake /\ Dispatcher => Handshake'
<1> SUFFICES ASSUME TypeOK, Handshake, Dispatcher PROVE Handshake'
  OBVIOUS
<1> USE DEF TypeOK, RingTypeOK, XcvrTypeOK, DispTypeOK, Handshake, Dispatching,
      Shipping, Dispatcher, ringVars, rxVars, txVars, dispVars, xcvrVars
<1>1. CASE pollRequest
  BY <1>1 DEF pollRequest
<1>2. CASE pollScan \/ pollProbe
  BY <1>2, SoleDispatcher DEF pollScan, pollProbe
<1>3. CASE pollReload
  BY <1>3 DEF pollReload
<1>4. CASE checkHeader
  BY <1>4 DEF checkHeader, Retire
<1>5. CASE invokeHostCall
  BY <1>5 DEF invokeHostCall, Retire
<1>6. CASE sendResponse
  BY <1>6 DEF sendResponse, Retire
<1>7. CASE retireRequest
  BY <1>7, SoleDispatcher DEF retireRequest
<1>8. CASE exitLoop
  BY <1>8 DEF exitLoop
<1> QED
  BY <1>1, <1>2, <1>3, <1>4, <1>5, <1>6, <1>7, <1>8 DEF ringDispatchLoop

-----------------------------------------------------------------------------
(* Pages behind raised flags are filled.                                   *)

LEMMA PagesInit == Init => PagesFilled
  BY NumSlotsAssumption
  DEF Init, PagesFilled, RingInit, XcvrInit, DispInit, InHand, Unsent, Slots

LEMMA PagesOutside ==
  Handshake /\ PagesFilled /\ (Arrive \/ Owner) => PagesFilled'
<1> SUFFICES ASSUME Handshake, PagesFilled, Arrive \/ Owner PROVE PagesFilled'
  OBVIOUS
<1> USE DEF PagesFilled, InHand, Unsent, ringVars, rxVars, txVars, dispVars,
      xcvrVars
<1>1. CASE Arrive
  BY <1>1 DEF Arrive
<1>2. CASE start /\ UNCHANGED <<shutdown, dispVars>>
  <2>1. rxPc' \in {"off", "recv"} /\ txPc' \in {"off", "load"}
    BY <1>2 DEF start
  <2> QED
    BY <1>2, <2>1 DEF start, Handshake
<1>3. CASE close /\ UNCHANGED <<shutdown, dispVars>>
  BY <1>3 DEF close
<1>4. CASE closeSocket /\ UNCHANGED <<shutdown, dispVars>>
  BY <1>4 DEF closeSocket
<1>5. CASE raiseShutdown /\ UNCHANGED xcvrVars
  BY <1>5 DEF raiseShutdown
<1> QED
  BY <1>1, <1>2, <1>3, <1>4, <1>5 DEF Owner

LEMMA PagesRx == TypeOK /\ Handshake /\ PagesFilled /\ RxThread => PagesFilled'
<1> SUFFICES ASSUME TypeOK, Handshake, PagesFilled, RxThread PROVE PagesFilled'
  OBVIOUS
<1> USE DEF TypeOK, RingTypeOK, XcvrTypeOK, DispTypeOK, Handshake, Dispatching,
      PagesFilled, InHand, Unsent, RxThread, ringVars, rxVars, rxVars1, txVars,
      dispVars
<1>1. CASE rxRecv
  <2>1. Head(sock) \in Datagrams(Requests)
    BY <1>1, HeadTailProperties DEF rxRecv
  <2>2. Head(sock).body \in Requests
    BY <2>1 DEF Datagrams
  <2> QED
    BY <1>1, <2>2 DEF rxRecv
<1>2. CASE rxLoadRx
  BY <1>2 DEF rxLoadRx
<1>3. CASE rxLoadTx
  BY <1>3 DEF rxLoadTx
<1>4. CASE rxCopy
  BY <1>4 DEF rxCopy
<1>5. CASE rxPublish
  BY <1>5 DEF rxPublish
<1>6. CASE rxExit
  BY <1>6 DEF rxExit
<1> QED
  BY <1>1, <1>2, <1>3, <1>4, <1>5, <1>6 DEF rxLoop

LEMMA PagesTx == TypeOK /\ Handshake /\ PagesFilled /\ TxThread => PagesFilled'
<1> SUFFICES ASSUME TypeOK, Handshake, PagesFilled, TxThread PROVE PagesFilled'
  OBVIOUS
<1> USE DEF TypeOK, RingTypeOK, XcvrTypeOK, DispTypeOK, Handshake, Shipping,
      PagesFilled, InHand, Unsent, TxThread, ringVars, rxVars, txVars1, txVars,
      dispVars
<1>1. CASE txLoad
  BY <1>1 DEF txLoad
<1>2. CASE txSend
  <2>1. txData[txCursor] \in Replies
    BY <1>2 DEF txSend
  <2>2. \A i \in DOMAIN wire' : wire'[i].body \in Replies
    <3>1. CASE peer = NoPeer
      BY <1>2, <3>1 DEF txSend, Ship
    <3>2. CASE peer # NoPeer
      <4>1. [to |-> peer, body |-> txData[txCursor]] \in Sent(Replies)
        BY <3>2 DEF Sent
      <4> QED
        BY <1>2, <2>1, <3>2, <4>1, AppendProperties DEF txSend, Ship
    <3> QED
      BY <3>1, <3>2
  <2> QED
    BY <1>2, <2>2 DEF txSend
<1>3. CASE txClear
  BY <1>3 DEF txClear
<1>4. CASE txExit
  BY <1>4 DEF txExit
<1> QED
  BY <1>1, <1>2, <1>3, <1>4 DEF txLoop

LEMMA PagesDispatcher ==
  TypeOK /\ Handshake /\ PagesFilled /\ Dispatcher => PagesFilled'
<1> SUFFICES ASSUME TypeOK, Handshake, PagesFilled, Dispatcher
             PROVE  PagesFilled'
  OBVIOUS
<1> USE DEF TypeOK, RingTypeOK, XcvrTypeOK, DispTypeOK, Handshake, Dispatching,
      Shipping, PagesFilled, InHand, Unsent, Dispatcher, ringVars, rxVars,
      txVars, dispVars, xcvrVars
<1>1. CASE pollRequest
  BY <1>1 DEF pollRequest
<1>2. CASE pollScan \/ pollProbe
  BY <1>2, SoleDispatcher DEF pollScan, pollProbe
<1>3. CASE pollReload
  BY <1>3 DEF pollReload
<1>4. CASE checkHeader
  BY <1>4 DEF checkHeader, Retire
<1>5. CASE invokeHostCall
  <2>1. Reply(rxData[dSlot]) \in Replies
    BY <1>5 DEF invokeHostCall, Reply, Replies, Requests
  <2> QED
    BY <1>5, <2>1 DEF invokeHostCall, Retire
<1>6. CASE sendResponse
  BY <1>6 DEF sendResponse, Retire
<1>7. CASE retireRequest
  BY <1>7, SoleDispatcher DEF retireRequest
<1>8. CASE exitLoop
  BY <1>8 DEF exitLoop
<1> QED
  BY <1>1, <1>2, <1>3, <1>4, <1>5, <1>6, <1>7, <1>8 DEF ringDispatchLoop

-----------------------------------------------------------------------------
(* A request is in one place, so its handler runs at most once.            *)

LEMMA OnePlaceInit == Init => OnePlace /\ AtMostOnce
  BY NumSlotsAssumption
  DEF Init, OnePlace, AtMostOnce, NoRepeat, RingInit, XcvrInit, DispInit,
      InHand, Undecided, Slots

(* Positions of sock after an arrival, with the id of each.                *)
LEMMA OnePlaceArrive ==
  TypeOK /\ PagesFilled /\ OnePlace /\ Arrive => OnePlace'
<1> SUFFICES ASSUME TypeOK, PagesFilled, OnePlace, Arrive PROVE OnePlace'
  OBVIOUS
<1>0. PICK k \in Arriving, a \in Addresses :
        sock' = Append(sock, [from |-> a, fits |-> k.fits,
                   body |-> [id |-> arrived + 1, magic |-> k.magic,
                             fn |-> k.fn]])
  BY DEF Arrive
<1> DEFINE d == [from |-> a, fits |-> k.fits,
                 body |-> [id |-> arrived + 1, magic |-> k.magic,
                           fn |-> k.fn]]
<1>1. sock \in Seq(Datagrams(Requests)) /\ arrived \in Nat
  BY DEF TypeOK, XcvrTypeOK
<1>2. d \in Datagrams(Requests) /\ d.body.id = arrived + 1
  BY <1>1, ArrivingAssumption DEF Datagrams, Requests
<1> HIDE DEF d
<1>3. sock' = Append(sock, d)
  BY <1>0 DEF d
<1>4. /\ \A i \in DOMAIN sock : i \in DOMAIN sock' /\ sock'[i] = sock[i]
      /\ sock'[Len(sock) + 1] = d
      /\ \A i \in DOMAIN sock' : i \in DOMAIN sock \/ i = Len(sock) + 1
  BY <1>1, <1>2, <1>3, AppendElements
<1>5. \A i \in DOMAIN sock : sock[i].body.id \in Nat
  <2>1. \A i \in DOMAIN sock : sock[i] \in Datagrams(Requests)
    BY <1>1, LenProperties, ElementOfSeq
  <2> QED
    BY <2>1 DEF Datagrams, Requests
<1>6. /\ InHand => rxBuf.id \in Nat
      /\ \A s \in Slots : Undecided(s) => rxData[s].id \in Nat
      /\ \A i \in DOMAIN executed : executed[i] \in Nat
  <2>1. \A i \in DOMAIN executed : executed[i] \in Nat
    BY LenProperties, ElementOfSeq DEF TypeOK, DispTypeOK
  <2> QED
    BY <2>1 DEF PagesFilled, Requests, Undecided
<1>7. /\ arrived' = arrived + 1
      /\ InHand' = InHand /\ rxBuf' = rxBuf /\ rxData' = rxData
      /\ executed' = executed
      /\ \A s \in Slots : Undecided(s)' = Undecided(s)
  BY DEF Arrive, InHand, Undecided, rxVars, ringVars, dispVars
<1>8. \A i \in DOMAIN sock' : sock'[i].body.id <= arrived'
  BY <1>1, <1>2, <1>4, <1>5, <1>7 DEF OnePlace
<1>9. \A i, j \in DOMAIN sock' : sock'[i].body.id = sock'[j].body.id => i = j
  BY <1>1, <1>2, <1>4, <1>5 DEF OnePlace
<1>10. /\ InHand' => /\ rxBuf'.id <= arrived'
                     /\ \A i \in DOMAIN sock' : sock'[i].body.id # rxBuf'.id
  BY <1>1, <1>2, <1>4, <1>6, <1>7 DEF OnePlace
<1>11. \A s \in Slots : Undecided(s)' =>
          /\ rxData'[s].id <= arrived'
          /\ \A i \in DOMAIN sock' : sock'[i].body.id # rxData'[s].id
  BY <1>1, <1>2, <1>4, <1>6, <1>7 DEF OnePlace
<1>12. \A n \in DOMAIN executed' :
          /\ executed'[n] <= arrived'
          /\ \A i \in DOMAIN sock' : sock'[i].body.id # executed'[n]
  BY <1>1, <1>2, <1>4, <1>6, <1>7 DEF OnePlace
<1> QED
  BY <1>7, <1>8, <1>9, <1>10, <1>11, <1>12 DEF OnePlace

LEMMA OnePlaceOwner == Handshake /\ OnePlace /\ Owner /\ UNCHANGED arrived => OnePlace'
<1> SUFFICES ASSUME Handshake, OnePlace, Owner, UNCHANGED arrived PROVE OnePlace'
  OBVIOUS
<1> USE DEF OnePlace, InHand, Undecided, ringVars, rxVars, txVars, dispVars,
      xcvrVars
<1>1. CASE start /\ UNCHANGED <<shutdown, dispVars>>
  <2>1. rxPc' \in {"off", "recv"}
    BY <1>1 DEF start
  <2> QED
    BY <1>1, <2>1 DEF start
<1>2. CASE close /\ UNCHANGED <<shutdown, dispVars>>
  BY <1>2 DEF close
<1>3. CASE closeSocket /\ UNCHANGED <<shutdown, dispVars>>
  <2>1. DOMAIN sock' = {}
    BY <1>3 DEF closeSocket
  <2> QED
    BY <1>3, <2>1 DEF closeSocket
<1>4. CASE raiseShutdown /\ UNCHANGED xcvrVars
  BY <1>4 DEF raiseShutdown
<1> QED
  BY <1>1, <1>2, <1>3, <1>4 DEF Owner

LEMMA OnePlaceRx ==
  TypeOK /\ Handshake /\ PagesFilled /\ OnePlace /\ RxThread /\ UNCHANGED arrived
     => OnePlace'
<1> SUFFICES ASSUME TypeOK, Handshake, PagesFilled, OnePlace, RxThread,
                    UNCHANGED arrived
             PROVE  OnePlace'
  OBVIOUS
<1> USE DEF TypeOK, RingTypeOK, XcvrTypeOK, DispTypeOK, RxThread, InHand,
      Undecided, ringVars, rxVars, rxVars1, txVars, dispVars
<1>1. CASE rxRecv
  <2>1. /\ sock' = Tail(sock) /\ 1 \in DOMAIN sock /\ Head(sock) = sock[1]
        /\ \A i \in DOMAIN Tail(sock) :
              /\ i + 1 \in DOMAIN sock /\ i + 1 # 1 /\ i \in Nat
              /\ Tail(sock)[i] = sock[i + 1]
    BY <1>1, TailElements DEF rxRecv
  <2>2. /\ \A s \in Slots : Undecided(s)' = Undecided(s)
        /\ rxData' = rxData /\ executed' = executed /\ ~InHand
    BY <1>1 DEF rxRecv
  <2>3. /\ \A i \in DOMAIN sock' : sock'[i].body.id <= arrived'
        /\ \A i, j \in DOMAIN sock' : sock'[i].body.id = sock'[j].body.id => i = j
    BY <2>1 DEF OnePlace
  <2>4. InHand' => rxBuf' = sock[1].body
    BY <1>1, <2>1 DEF rxRecv
  <2>5. InHand' => /\ rxBuf'.id <= arrived'
                   /\ \A i \in DOMAIN sock' : sock'[i].body.id # rxBuf'.id
    BY <2>1, <2>4 DEF OnePlace
  <2>6. \A s \in Slots : Undecided(s)' =>
          /\ rxData'[s].id <= arrived'
          /\ \A i \in DOMAIN sock' : sock'[i].body.id # rxData'[s].id
          /\ InHand' => rxBuf'.id # rxData'[s].id
          /\ \A t \in Slots :
                Undecided(t)' /\ rxData'[s].id = rxData'[t].id => s = t
    BY <2>1, <2>2, <2>4 DEF OnePlace
  <2>7. \A k \in DOMAIN executed' :
          /\ executed'[k] <= arrived'
          /\ \A i \in DOMAIN sock' : sock'[i].body.id # executed'[k]
          /\ InHand' => rxBuf'.id # executed'[k]
          /\ \A s \in Slots : Undecided(s)' => rxData'[s].id # executed'[k]
    BY <2>1, <2>2, <2>4 DEF OnePlace
  <2> QED
    BY <2>3, <2>5, <2>6, <2>7 DEF OnePlace
<1>2. CASE rxLoadRx
  BY <1>2 DEF rxLoadRx, OnePlace
<1>3. CASE rxLoadTx
  BY <1>3 DEF rxLoadTx, OnePlace
<1>4. CASE rxCopy
  <2>1. \A s \in Slots : Undecided(s)' => Undecided(s) /\ rxData'[s] = rxData[s]
    BY <1>4 DEF rxCopy, Handshake
  <2> QED
    BY <1>4, <2>1 DEF rxCopy, OnePlace
<1>5. CASE rxPublish
  <2>1. \A s \in Slots : Undecided(s)' =>
           \/ Undecided(s)
           \/ s = rxNext /\ rxData[s] = rxBuf
    BY <1>5 DEF rxPublish, PagesFilled
  <2>2. InHand /\ ~InHand' /\ ~Undecided(rxNext)
    BY <1>5 DEF rxPublish, Handshake
  <2> QED
    BY <1>5, <2>1, <2>2 DEF rxPublish, OnePlace
<1>6. CASE rxExit
  BY <1>6 DEF rxExit, OnePlace
<1> QED
  BY <1>1, <1>2, <1>3, <1>4, <1>5, <1>6 DEF rxLoop

LEMMA OnePlaceTx == OnePlace /\ TxThread /\ UNCHANGED arrived => OnePlace'
<1> SUFFICES ASSUME OnePlace, TxThread, UNCHANGED arrived PROVE OnePlace'
  OBVIOUS
<1>1. /\ sock' = sock /\ rxBuf' = rxBuf /\ rxData' = rxData
      /\ executed' = executed /\ InHand' = InHand
      /\ \A s \in Slots : Undecided(s)' = Undecided(s)
  BY DEF TxThread, txLoop, txLoad, txSend, txClear, txExit, InHand, Undecided,
      ringVars, rxVars, txVars1, txVars, dispVars
<1> QED
  BY <1>1 DEF OnePlace

LEMMA OnePlaceDispatcher ==
  TypeOK /\ Handshake /\ PagesFilled /\ OnePlace /\ AtMostOnce
    /\ Dispatcher /\ UNCHANGED arrived
     => OnePlace' /\ AtMostOnce'
<1> SUFFICES ASSUME TypeOK, Handshake, PagesFilled, OnePlace, AtMostOnce,
                    Dispatcher, UNCHANGED arrived
             PROVE  OnePlace' /\ AtMostOnce'
  OBVIOUS
<1>a. sock' = sock /\ rxBuf' = rxBuf /\ InHand' = InHand
  BY DEF Dispatcher, xcvrVars, rxVars, InHand
<1>1. CASE invokeHostCall /\ rxData[dSlot].fn \notin NullHandlers
  <2> DEFINE id == rxData[dSlot].id
  <2>1. dSlot \in Slots /\ Undecided(dSlot)
    BY <1>1 DEF invokeHostCall, TypeOK, DispTypeOK, Handshake, Dispatching,
        Undecided
  <2>2. id \in Nat
    BY <2>1 DEF PagesFilled, Requests, Undecided
  <2>3. executed' = Append(executed, id) /\ rxData' = rxData
    BY <1>1 DEF invokeHostCall
  <2>4. \A s \in Slots : Undecided(s)' => Undecided(s) /\ s # dSlot
    BY <1>1 DEF invokeHostCall, Undecided
  <2> HIDE DEF id
  <2>5. /\ \A i \in DOMAIN executed : i \in DOMAIN executed' /\ executed'[i] = executed[i]
        /\ executed'[Len(executed) + 1] = id
        /\ \A i \in DOMAIN executed' : i \in DOMAIN executed \/ i = Len(executed) + 1
    BY <2>2, <2>3, AppendElements DEF TypeOK, DispTypeOK
  <2>6. \A k \in DOMAIN executed : executed[k] # id
    BY <2>1 DEF OnePlace, id
  <2>7. AtMostOnce'
    BY <2>5, <2>6 DEF AtMostOnce, NoRepeat
  <2>8. /\ id <= arrived
        /\ \A i \in DOMAIN sock : sock[i].body.id # id
        /\ InHand => rxBuf.id # id
        /\ \A s \in Slots : Undecided(s) /\ s # dSlot => rxData[s].id # id
    BY <2>1 DEF OnePlace, id
  <2> QED
    BY <1>a, <2>3, <2>4, <2>5, <2>7, <2>8 DEF OnePlace
<1>2. ASSUME ~(invokeHostCall /\ rxData[dSlot].fn \notin NullHandlers)
      PROVE  OnePlace' /\ AtMostOnce'
  <2>1. executed' = executed /\ rxData' = rxData
    BY <1>2 DEF Dispatcher, ringDispatchLoop, pollRequest, pollScan, pollProbe, pollReload,
        checkHeader, invokeHostCall, sendResponse, retireRequest, exitLoop,
        ringVars
  <2>2. \A s \in Slots : Undecided(s)' => Undecided(s)
    <3> USE DEF Undecided, TypeOK, RingTypeOK, DispTypeOK, Handshake,
          Dispatching, ringVars
    <3>1. CASE pollRequest
      BY <3>1 DEF pollRequest
    <3>2. CASE pollScan \/ pollProbe
      BY <3>2, SoleDispatcher DEF pollScan, pollProbe
    <3>3. CASE pollReload
      BY <3>3 DEF pollReload
    <3>4. CASE checkHeader
      BY <3>4 DEF checkHeader, Retire
    <3>5. CASE invokeHostCall
      BY <3>5 DEF invokeHostCall, Retire
    <3>6. CASE sendResponse
      BY <3>6 DEF sendResponse, Retire
    <3>7. CASE retireRequest
      BY <3>7, SoleDispatcher DEF retireRequest
    <3>8. CASE exitLoop
      BY <3>8 DEF exitLoop
    <3> QED
      BY <3>1, <3>2, <3>3, <3>4, <3>5, <3>6, <3>7, <3>8
      DEF Dispatcher, ringDispatchLoop
  <2> QED
    BY <1>a, <2>1, <2>2 DEF OnePlace, AtMostOnce, NoRepeat
<1> QED
  BY <1>1, <1>2

-----------------------------------------------------------------------------
(* Replies: none lost, none sent twice.                                    *)

(* RepliesAccounted and Deliverable read the state only through these.     *)
LEMMA AccountedFrame ==
  ASSUME Deliverable, RepliesAccounted,
         UNCHANGED <<wire, executed, peer, txData>>,
         \A s \in Slots : Unsent(s)' = Unsent(s),
         InHand' \/ (\E s \in Slots : rxFlag'[s] \/ txFlag'[s])
            => InHand \/ (\E s \in Slots : rxFlag[s] \/ txFlag[s])
  PROVE  Deliverable' /\ RepliesAccounted'
  BY DEF Deliverable, RepliesAccounted, Ids

LEMMA AccountedInit == Init => Deliverable /\ RepliesAccounted
  BY NumSlotsAssumption
  DEF Init, Deliverable, RepliesAccounted, Ids, RingInit, XcvrInit, DispInit,
      InHand, Unsent, Slots

LEMMA AccountedOutside ==
  Handshake /\ Deliverable /\ RepliesAccounted /\ (Arrive \/ Owner)
     => Deliverable' /\ RepliesAccounted'
<1> SUFFICES ASSUME Handshake, Deliverable, RepliesAccounted, Arrive \/ Owner
             PROVE  Deliverable' /\ RepliesAccounted'
  OBVIOUS
<1> USE AccountedFrame DEF InHand, Unsent, ringVars, rxVars, txVars, dispVars,
      xcvrVars
<1>1. CASE Arrive
  BY <1>1 DEF Arrive
<1>2. CASE start /\ UNCHANGED <<shutdown, dispVars>>
  <2>1. rxPc' \in {"off", "recv"} /\ txPc' \in {"off", "load"}
    BY <1>2 DEF start
  <2>2. \A s \in Slots : Unsent(s)' = Unsent(s)
    BY <1>2, <2>1 DEF start, Handshake
  <2> QED
    BY <1>2, <2>1, <2>2 DEF start
<1>3. CASE close /\ UNCHANGED <<shutdown, dispVars>>
  BY <1>3 DEF close
<1>4. CASE closeSocket /\ UNCHANGED <<shutdown, dispVars>>
  BY <1>4 DEF closeSocket
<1>5. CASE raiseShutdown /\ UNCHANGED xcvrVars
  BY <1>5 DEF raiseShutdown
<1> QED
  BY <1>1, <1>2, <1>3, <1>4, <1>5 DEF Owner

LEMMA AccountedRx ==
  TypeOK /\ Handshake /\ Deliverable /\ RepliesAccounted /\ RxThread
     => Deliverable' /\ RepliesAccounted'
<1> SUFFICES ASSUME TypeOK, Handshake, Deliverable, RepliesAccounted, RxThread
             PROVE  Deliverable' /\ RepliesAccounted'
  OBVIOUS
<1> USE DEF RxThread, ringVars, rxVars, rxVars1, txVars, dispVars
<1>1. UNCHANGED <<wire, executed, txData, txFlag, txPc, txCursor, dPc, dSlot>>
  BY DEF rxLoop, rxRecv, rxLoadRx, rxLoadTx, rxCopy, rxPublish, rxExit
<1>2. \A s \in Slots : Unsent(s)' = Unsent(s)
  BY <1>1 DEF Unsent
<1>3. RepliesAccounted'
  BY <1>1, <1>2 DEF RepliesAccounted, Ids
<1>4. InHand' \/ (\E s \in Slots : rxFlag'[s] \/ txFlag'[s]) => peer' # NoPeer
  <2> USE DEF InHand, Deliverable, TypeOK, RingTypeOK, XcvrTypeOK
  <2>1. CASE rxRecv
    <3>1. Head(sock) \in Datagrams(Requests)
      BY <2>1, HeadTailProperties DEF rxRecv
    <3>2. Head(sock).from # NoPeer
      BY <3>1, NoPeerAssumption DEF Datagrams
    <3> QED
      BY <2>1, <3>2 DEF rxRecv
  <2>2. CASE rxLoadRx
    BY <2>2 DEF rxLoadRx
  <2>3. CASE rxLoadTx
    BY <2>3 DEF rxLoadTx
  <2>4. CASE rxCopy
    BY <2>4 DEF rxCopy
  <2>5. CASE rxPublish
    BY <2>5 DEF rxPublish
  <2>6. CASE rxExit
    BY <2>6 DEF rxExit
  <2> QED
    BY <2>1, <2>2, <2>3, <2>4, <2>5, <2>6 DEF rxLoop
<1> QED
  BY <1>1, <1>2, <1>3, <1>4 DEF Deliverable

LEMMA AccountedTx ==
  TypeOK /\ Handshake /\ PagesFilled /\ Deliverable /\ RepliesAccounted
    /\ TxThread
     => Deliverable' /\ RepliesAccounted'
<1> SUFFICES ASSUME TypeOK, Handshake, PagesFilled, Deliverable,
                    RepliesAccounted, TxThread
             PROVE  Deliverable' /\ RepliesAccounted'
  OBVIOUS
<1> USE DEF TxThread, ringVars, rxVars, txVars1, txVars, dispVars
<1>1. CASE txLoad
  BY <1>1, AccountedFrame DEF txLoad, Unsent, InHand
<1>2. CASE txSend
  <2> DEFINE m == [to |-> peer, body |-> txData[txCursor]]
  <2>1. /\ txCursor \in Slots /\ Unsent(txCursor) /\ txFlag[txCursor]
        /\ dPc = "publish" => dSlot # txCursor
    BY <1>2 DEF txSend, Unsent, TypeOK, XcvrTypeOK, Handshake, Shipping,
        Dispatching
  <2>2. peer # NoPeer
    BY <2>1 DEF Deliverable
  <2>3. wire \in Seq(Sent(Replies)) /\ m \in Sent(Replies)
    BY <2>1, <2>2 DEF TypeOK, XcvrTypeOK, RingTypeOK, Sent
  <2>4. wire' = Append(wire, m) /\ m.body = txData[txCursor]
    BY <1>2, <2>2 DEF txSend, Ship
  <2> HIDE DEF m
  <2>5. /\ \A i \in DOMAIN wire : i \in DOMAIN wire' /\ wire'[i] = wire[i]
        /\ wire'[Len(wire) + 1] = m /\ Len(wire) + 1 \in DOMAIN wire'
        /\ \A i \in DOMAIN wire' : i \in DOMAIN wire \/ i = Len(wire) + 1
    BY <2>3, <2>4, AppendElements
  <2>6. /\ UNCHANGED <<txData, txFlag, rxFlag, executed, peer>> /\ InHand' = InHand
        /\ \A s \in Slots : Unsent(s)' <=> Unsent(s) /\ s # txCursor
    BY <1>2, <2>1 DEF txSend, Unsent, InHand
  <2>7. /\ \A i, j \in DOMAIN wire' : wire'[i].body.id = wire'[j].body.id => i = j
        /\ \A i \in DOMAIN wire' :
              \A s \in Slots : Unsent(s)' => txData'[s].id # wire'[i].body.id
    BY <2>1, <2>4, <2>5, <2>6 DEF RepliesAccounted, Deliverable
  <2>8. Ids(wire)' = Ids(wire) \cup {txData[txCursor].id}
    BY <2>4, <2>5 DEF Ids
  <2>9. {txData[s].id : s \in {s \in Slots : Unsent(s)}}
           = {txData[s].id : s \in {s \in Slots : Unsent(s)}}'
               \cup {txData[txCursor].id}
    BY <2>1, <2>6
  <2> QED
    BY <2>6, <2>7, <2>8, <2>9 DEF RepliesAccounted, Deliverable
<1>3. CASE txClear
  <2>1. \A s \in Slots : Unsent(s)' = Unsent(s)
    BY <1>3 DEF txClear, Unsent, TypeOK, RingTypeOK, XcvrTypeOK
  <2>2. \A s \in Slots : txFlag'[s] => txFlag[s]
    BY <1>3 DEF txClear, TypeOK, RingTypeOK, XcvrTypeOK
  <2> QED
    BY <1>3, <2>1, <2>2, AccountedFrame DEF txClear, InHand
<1>4. CASE txExit
  BY <1>4, AccountedFrame DEF txExit, Unsent, InHand
<1> QED
  BY <1>1, <1>2, <1>3, <1>4 DEF txLoop

LEMMA AccountedDispatcher ==
  TypeOK /\ Handshake /\ PagesFilled /\ OnePlace /\ Deliverable
    /\ RepliesAccounted /\ Dispatcher
     => Deliverable' /\ RepliesAccounted'
<1> SUFFICES ASSUME TypeOK, Handshake, PagesFilled, OnePlace, Deliverable,
                    RepliesAccounted, Dispatcher
             PROVE  Deliverable' /\ RepliesAccounted'
  OBVIOUS
<1>a. /\ UNCHANGED <<wire, peer, txPc, txCursor>> /\ InHand' = InHand
  BY DEF Dispatcher, xcvrVars, rxVars, txVars, InHand
<1>1. CASE invokeHostCall /\ rxData[dSlot].fn \notin NullHandlers
  <2> DEFINE id == rxData[dSlot].id
  <2>1. /\ dSlot \in Slots /\ Undecided(dSlot) /\ ~Unsent(dSlot)
        /\ rxData[dSlot] \in Requests
    BY <1>1 DEF invokeHostCall, TypeOK, DispTypeOK, Handshake, Dispatching,
        Undecided, Unsent, PagesFilled
  <2>2. /\ executed' = Append(executed, id) /\ id \in Nat
        /\ txData' = [txData EXCEPT ![dSlot] = [id |-> id]]
        /\ UNCHANGED <<rxFlag, txFlag>>
    BY <1>1, <2>1 DEF invokeHostCall, Reply, Requests
  <2>3. /\ \A s \in Slots : Unsent(s)' <=> Unsent(s) \/ s = dSlot
        /\ \A s \in Slots : s # dSlot => txData'[s] = txData[s]
        /\ txData'[dSlot].id = id
    <3>1. \A s \in Slots : Unsent(s)' <=> Unsent(s) \/ s = dSlot
      BY <1>1, <1>a, <2>2 DEF invokeHostCall, Unsent
    <3> QED
      BY <2>1, <2>2, <3>1 DEF TypeOK, RingTypeOK
  <2>4. \A k \in DOMAIN executed : executed[k] # id
    BY <2>1 DEF OnePlace
  <2>5. /\ \A i \in DOMAIN wire : wire[i].body.id # id
        /\ \A s \in Slots : Unsent(s) => txData[s].id # id
    BY <2>4 DEF RepliesAccounted, Ids
  <2> HIDE DEF id
  <2>6. {executed'[k] : k \in DOMAIN executed'}
           = {executed[k] : k \in DOMAIN executed} \cup {id}
    <3>1. /\ \A i \in DOMAIN executed : i \in DOMAIN executed' /\ executed'[i] = executed[i]
          /\ executed'[Len(executed) + 1] = id
          /\ Len(executed) + 1 \in DOMAIN executed'
          /\ \A i \in DOMAIN executed' : i \in DOMAIN executed \/ i = Len(executed) + 1
      BY <2>2, AppendElements DEF TypeOK, DispTypeOK
    <3> QED
      BY <3>1
  <2>7. {txData[s].id : s \in {s \in Slots : Unsent(s)}}'
           = {txData[s].id : s \in {s \in Slots : Unsent(s)}} \cup {id}
    BY <2>1, <2>3
  <2>8. RepliesAccounted'
    BY <1>a, <2>3, <2>5, <2>6, <2>7 DEF RepliesAccounted, Ids
  <2> QED
    BY <1>a, <2>2, <2>3, <2>5, <2>8 DEF Deliverable
<1>2. ASSUME ~(invokeHostCall /\ rxData[dSlot].fn \notin NullHandlers)
      PROVE  Deliverable' /\ RepliesAccounted'
  <2>1. executed' = executed /\ txData' = txData
    BY <1>2 DEF Dispatcher, ringDispatchLoop, pollRequest, pollScan, pollProbe, pollReload,
        checkHeader, invokeHostCall, sendResponse, retireRequest, exitLoop,
        ringVars
  <2>2. /\ \A s \in Slots : Unsent(s)' = Unsent(s)
        /\ (\E s \in Slots : rxFlag'[s] \/ txFlag'[s])
              => (\E s \in Slots : rxFlag[s] \/ txFlag[s])
    <3> USE <1>a DEF Unsent, TypeOK, RingTypeOK, XcvrTypeOK, DispTypeOK,
          Handshake, Dispatching, Shipping, ringVars
    <3>1. CASE pollRequest
      BY <3>1 DEF pollRequest
    <3>2. CASE pollScan \/ pollProbe
      BY <3>2, SoleDispatcher DEF pollScan, pollProbe
    <3>3. CASE pollReload
      BY <3>3 DEF pollReload
    <3>4. CASE checkHeader
      BY <3>4 DEF checkHeader, Retire
    <3>5. CASE invokeHostCall
      BY <1>2, <3>5 DEF invokeHostCall, Retire
    <3>6. CASE sendResponse
      BY <3>6 DEF sendResponse, Retire
    <3>7. CASE retireRequest
      BY <3>7, SoleDispatcher DEF retireRequest
    <3>8. CASE exitLoop
      BY <3>8 DEF exitLoop
    <3> QED
      BY <3>1, <3>2, <3>3, <3>4, <3>5, <3>6, <3>7, <3>8
      DEF Dispatcher, ringDispatchLoop
  <2> QED
    BY <1>a, <2>1, <2>2, AccountedFrame
<1> QED
  BY <1>1, <1>2

-----------------------------------------------------------------------------
(* The theorems.                                                           *)

LEMMA InductiveInit == Init => IInv
  BY TypeInit, HandshakeInit, PagesInit, OnePlaceInit, AccountedInit DEF IInv

LEMMA InductiveNext == IInv /\ [Next]_vars => IInv'
<1> SUFFICES ASSUME IInv, [Next]_vars PROVE IInv'
  OBVIOUS
<1> USE DEF IInv
<1>1. CASE Arrive
  <2>1. AtMostOnce'
    BY <1>1 DEF Arrive, dispVars, AtMostOnce, NoRepeat
  <2> QED
    BY <1>1, <2>1, TypeArrive, HandshakeOutside, PagesOutside, OnePlaceArrive,
       AccountedOutside
<1>2. CASE Owner /\ UNCHANGED arrived
  <2>1. AtMostOnce'
    BY <1>2 DEF Owner, raiseShutdown, dispVars, AtMostOnce, NoRepeat
  <2> QED
    BY <1>2, <2>1, TypeOwner, HandshakeOutside, PagesOutside, OnePlaceOwner,
       AccountedOutside
<1>3. CASE RxThread /\ UNCHANGED arrived
  <2>1. AtMostOnce'
    BY <1>3 DEF RxThread, dispVars, AtMostOnce, NoRepeat
  <2> QED
    BY <1>3, <2>1, TypeRx, HandshakeRx, PagesRx, OnePlaceRx, AccountedRx
<1>4. CASE TxThread /\ UNCHANGED arrived
  <2>1. AtMostOnce'
    BY <1>4 DEF TxThread, dispVars, AtMostOnce, NoRepeat
  <2> QED
    BY <1>4, <2>1, TypeTx, HandshakeTx, PagesTx, OnePlaceTx, AccountedTx
<1>5. CASE Dispatcher /\ UNCHANGED arrived
  BY <1>5, TypeDispatcher, HandshakeDispatcher, PagesDispatcher,
     OnePlaceDispatcher, AccountedDispatcher
<1>6. CASE UNCHANGED vars
  <2> USE <1>6 DEF vars, xcvrVars, ringVars, rxVars, txVars, dispVars
  <2>1. TypeOK'
    BY DEF TypeOK, RingTypeOK, XcvrTypeOK, DispTypeOK
  <2>2. Handshake'
    BY DEF Handshake, Dispatching, Shipping
  <2>3. PagesFilled'
    BY DEF PagesFilled, InHand, Unsent
  <2>4. OnePlace' /\ AtMostOnce'
    BY DEF OnePlace, InHand, Undecided, AtMostOnce, NoRepeat
  <2>5. Deliverable' /\ RepliesAccounted'
    BY AccountedFrame DEF InHand, Unsent
  <2> QED
    BY <2>1, <2>2, <2>3, <2>4, <2>5
<1> QED
  BY <1>1, <1>2, <1>3, <1>4, <1>5, <1>6 DEF Next

(* The inductive invariant of the three threads holds in every reachable   *)
(* state.                                                                  *)
THEOREM ServiceInvariant == Spec => []IInv
<1>1. Init => IInv
  BY InductiveInit
<1>2. IInv /\ [Next]_vars => IInv'
  BY InductiveNext
<1> QED
  BY <1>1, <1>2, PTL DEF Spec

(* The ring, transceiver and dispatcher state is always well typed; in     *)
(* particular the dispatcher never runs a handler on an unfilled page.     *)
THEOREM ServiceTypeOK == Spec => []TypeOK
<1>1. IInv => TypeOK
  BY DEF IInv
<1> QED
  BY <1>1, ServiceInvariant, PTL

(* No ring page is ever written by one thread while another uses it, for   *)
(* any number of slots.                                                    *)
THEOREM ServiceNoPageRace == Spec => []NoPageRace
<1>1. IInv => NoPageRace
  <2> SUFFICES ASSUME IInv, NEW s \in Slots
               PROVE  /\ ~(Filling(s) /\ Dispatching(s))
                      /\ ~(WritingReply(s) /\ (Shipping(s) \/ txFlag[s]))
    BY DEF NoPageRace
  <2>1. Dispatching(s) => rxFlag[s]
    BY DEF IInv, Handshake
  <2>2. Filling(s) => ~rxFlag[s]
    BY DEF IInv, Handshake, Filling
  <2>3. WritingReply(s) => Dispatching(s) /\ dPc # "retire"
    BY DEF WritingReply, Dispatching
  <2>4. Shipping(s) => txFlag[s]
    BY DEF IInv, Handshake
  <2>5. rxFlag[s] /\ txFlag[s] => dPc = "retire"
    BY DEF IInv, Handshake
  <2> QED
    BY <2>1, <2>2, <2>3, <2>4, <2>5
<1> QED
  BY <1>1, ServiceInvariant, PTL

(* No request's handler runs twice, whatever arrives and however often the *)
(* ring wraps.                                                             *)
THEOREM ServiceAtMostOnce == Spec => []AtMostOnce
<1>1. IInv => AtMostOnce
  BY DEF IInv
<1> QED
  BY <1>1, ServiceInvariant, PTL

(* Every reply a handler wrote is on the wire or still to be shipped,      *)
(* exactly once.                                                           *)
THEOREM ServiceRepliesAccounted == Spec => []RepliesAccounted
<1>1. IInv => RepliesAccounted
  BY DEF IInv
<1> QED
  BY <1>1, ServiceInvariant, PTL

-----------------------------------------------------------------------------
(* The ring is a queue.                                                    *)

(* rxLoop and the dispatcher touch the two ends of the backlog.            *)
LEMMA ContiguousInit == Init => Contiguous
<1> SUFFICES ASSUME Init PROVE Contiguous
  OBVIOUS
<1>1. /\ rxFlag = [s \in Slots |-> FALSE] /\ rxNext = 0 /\ dCur = 0
      /\ dPc = "poll" /\ 0 \in Slots
  BY NumSlotsAssumption DEF Init, RingInit, XcvrInit, DispInit, Slots
<1>2. Backlog = 0
  BY <1>1 DEF Backlog
<1>3. \A s \in Slots : Ahead(s) \in Nat
  BY <1>1, DistanceFacts DEF Ahead
<1> QED
  BY <1>1, <1>2, <1>3 DEF Contiguous, Dispatching

LEMMA ContiguousFrame ==
  ASSUME Contiguous, UNCHANGED <<rxFlag, rxNext, dCur>>,
         \A s \in Slots : Dispatching(s)' => Dispatching(s)
  PROVE  Contiguous'
  BY DEF Contiguous, Ahead, Backlog

LEMMA ContiguousRx ==
  TypeOK /\ Handshake /\ Contiguous /\ RxThread => Contiguous'
<1> SUFFICES ASSUME TypeOK, Handshake, Contiguous, RxThread PROVE Contiguous'
  OBVIOUS
<1>0. /\ rxFlag \in [Slots -> BOOLEAN] /\ rxNext \in Slots /\ dCur \in Slots
      /\ UNCHANGED <<dCur, dPc, dSlot>>
  BY DEF TypeOK, RingTypeOK, XcvrTypeOK, DispTypeOK, RxThread, dispVars
<1>1. CASE rxPublish
  <2>1. /\ rxFlag' = [rxFlag EXCEPT ![rxNext] = TRUE]
        /\ rxNext' = NextSlot(rxNext) /\ ~rxFlag[rxNext]
    BY <1>1 DEF rxPublish, Handshake
  <2>2. /\ rxNext # dCur => Backlog = Ahead(rxNext)
        /\ rxNext = dCur => Backlog = 0
    BY <2>1 DEF Backlog
  <2>3. Backlog = Ahead(rxNext)
    BY <1>0, <2>2, DistanceFacts DEF Ahead
  <2>4. rxFlag'[dCur] /\ rxNext' \in Slots
    <3>1. CASE rxNext = dCur
      BY <1>0, <2>1, <3>1, NextSlotType
    <3>2. CASE rxNext # dCur
      <4>1. Ahead(dCur) = 0 /\ Ahead(rxNext) \in Nat /\ Ahead(rxNext) # 0
        BY <1>0, <3>2, DistanceFacts DEF Ahead
      <4>2. rxFlag[dCur]
        BY <1>0, <2>3, <4>1 DEF Contiguous
      <4> QED
        BY <1>0, <2>1, <4>2, NextSlotType
    <3> QED
      BY <3>1, <3>2
  <2>5. Backlog' = Ahead(rxNext) + 1
    <3>1. CASE NextSlot(rxNext) = dCur
      <4>1. Ahead(rxNext) = NumSlots - 1
        BY <1>0, <3>1, DistanceFacts DEF Ahead
      <4> QED
        BY <1>0, <2>1, <2>4, <3>1, <4>1, NumSlotsAssumption DEF Backlog
    <3>2. CASE NextSlot(rxNext) # dCur
      <4>1. Distance(dCur, NextSlot(rxNext)) = Ahead(rxNext) + 1
        BY <1>0, <3>2, DistanceFacts DEF Ahead
      <4>2. Backlog' = Distance(dCur, NextSlot(rxNext))
        BY <1>0, <2>1, <3>2 DEF Backlog, Ahead
      <4> QED
        BY <4>1, <4>2
    <3> QED
      BY <3>1, <3>2
  <2>6. \A s \in Slots : rxFlag'[s] <=> Ahead(s)' < Backlog'
    <3> SUFFICES ASSUME NEW s \in Slots PROVE rxFlag'[s] <=> Ahead(s)' < Backlog'
      OBVIOUS
    <3>1. /\ Ahead(s) \in Nat /\ Ahead(rxNext) \in Nat
          /\ Ahead(s) = Ahead(rxNext) => s = rxNext
      BY <1>0, DistanceFacts DEF Ahead
    <3>2. Ahead(s)' = Ahead(s)
      BY <1>0 DEF Ahead
    <3>3. rxFlag[s] <=> Ahead(s) < Ahead(rxNext)
      BY <2>3 DEF Contiguous
    <3>4. rxFlag'[s] <=> rxFlag[s] \/ s = rxNext
      BY <1>0, <2>1
    <3> QED
      BY <2>5, <3>1, <3>2, <3>3, <3>4
  <2> QED
    BY <1>0, <2>6 DEF Contiguous, Dispatching
<1>2. CASE ~rxPublish
  <2>1. UNCHANGED <<rxFlag, rxNext>>
    BY <1>2 DEF RxThread, rxLoop, rxRecv, rxLoadRx, rxLoadTx, rxCopy, rxExit,
        ringVars
  <2> QED
    BY <1>0, <2>1, ContiguousFrame DEF Dispatching
<1> QED
  BY <1>1, <1>2

LEMMA ContiguousDispatcher ==
  TypeOK /\ Handshake /\ Contiguous /\ Dispatcher => Contiguous'
<1> SUFFICES ASSUME TypeOK, Handshake, Contiguous, Dispatcher PROVE Contiguous'
  OBVIOUS
<1>0. /\ rxFlag \in [Slots -> BOOLEAN] /\ rxNext \in Slots /\ dCur \in Slots
      /\ dSlot \in Slots /\ UNCHANGED rxNext
  BY DEF TypeOK, RingTypeOK, XcvrTypeOK, DispTypeOK, Dispatcher, xcvrVars, rxVars
<1>1. CASE retireRequest
  <2>1. /\ dSlot = dCur /\ rxFlag[dCur]
    BY <1>0, <1>1 DEF retireRequest, Contiguous, Dispatching, Handshake
  <2>2. /\ rxFlag' = [rxFlag EXCEPT ![dCur] = FALSE]
        /\ dCur' = NextSlot(dCur) /\ dPc' = "poll"
    BY <1>1, <2>1, SoleDispatcher DEF retireRequest
  <2>3. Backlog' = Backlog - 1 /\ Backlog \in Nat
    <3>1. CASE rxNext = dCur
      <4>1. Backlog = NumSlots
        BY <2>1, <3>1 DEF Backlog
      <4>2. CASE NextSlot(dCur) = dCur
        <5>1. NumSlots = 1
          BY <1>0, <4>2, DistanceFacts, NumSlotsAssumption
        <5>2. Backlog' = 0
          BY <1>0, <2>2, <3>1, <4>2 DEF Backlog
        <5> QED
          BY <4>1, <5>1, <5>2
      <4>3. CASE NextSlot(dCur) # dCur
        <5>1. Distance(NextSlot(dCur), dCur) = NumSlots - 1
          BY <1>0, DistanceFacts
        <5>2. Backlog' = Distance(NextSlot(dCur), dCur)
          BY <1>0, <2>2, <3>1, <4>3 DEF Backlog, Ahead
        <5> QED
          BY <4>1, <5>1, <5>2, NumSlotsAssumption
      <4> QED
        BY <4>2, <4>3
    <3>2. CASE rxNext # dCur
      <4>1. Backlog = Distance(dCur, rxNext) /\ Backlog \in Nat
        BY <1>0, <3>2, DistanceFacts DEF Backlog, Ahead
      <4>2. Distance(NextSlot(dCur), rxNext) = Distance(dCur, rxNext) - 1
        BY <1>0, <3>2, DistanceFacts
      <4>3. CASE rxNext = NextSlot(dCur)
        <5>1. Distance(NextSlot(dCur), rxNext) = 0
          BY <1>0, <4>3, NextSlotType, DistanceFacts
        <5>2. ~rxFlag[rxNext]
          <6>1. Ahead(rxNext) = Backlog
            BY <4>1 DEF Ahead
          <6> QED
            BY <1>0, <4>1, <6>1 DEF Contiguous
        <5>3. Backlog' = 0
          BY <1>0, <2>2, <3>2, <4>3, <5>2 DEF Backlog
        <5> QED
          BY <4>1, <4>2, <5>1, <5>3
      <4>4. CASE rxNext # NextSlot(dCur)
        <5>1. Backlog' = Distance(NextSlot(dCur), rxNext)
          BY <1>0, <2>2, <4>4 DEF Backlog, Ahead
        <5> QED
          BY <4>1, <4>2, <5>1
      <4> QED
        BY <4>3, <4>4
    <3> QED
      BY <3>1, <3>2
  <2>4. \A s \in Slots : rxFlag'[s] <=> Ahead(s)' < Backlog'
    <3> SUFFICES ASSUME NEW s \in Slots PROVE rxFlag'[s] <=> Ahead(s)' < Backlog'
      OBVIOUS
    <3>1. Ahead(s)' = Distance(NextSlot(dCur), s)
      BY <2>2 DEF Ahead
    <3>2. CASE s = dCur
      <4>1. Ahead(s)' = NumSlots - 1
        BY <1>0, <3>1, <3>2, DistanceFacts
      <4>2. Backlog <= NumSlots
        BY <1>0, DistanceFacts, NumSlotsAssumption DEF Backlog, Ahead
      <4> QED
        BY <1>0, <2>2, <2>3, <3>2, <4>1, <4>2, NumSlotsAssumption
    <3>3. CASE s # dCur
      <4>1. Ahead(s)' = Ahead(s) - 1 /\ Ahead(s) \in Nat
        BY <1>0, <3>1, <3>3, DistanceFacts DEF Ahead
      <4>2. rxFlag'[s] = rxFlag[s]
        BY <1>0, <2>2, <3>3
      <4> QED
        BY <2>3, <4>1, <4>2 DEF Contiguous
    <3> QED
      BY <3>2, <3>3
  <2> QED
    BY <2>2, <2>4 DEF Contiguous, Dispatching
<1>2. CASE ~retireRequest
  <2>1. UNCHANGED <<rxFlag, dCur>>
    BY <1>2, SoleDispatcher
    DEF Dispatcher, ringDispatchLoop, pollRequest, pollScan, pollProbe, pollReload,
        checkHeader, invokeHostCall, sendResponse, exitLoop, ringVars
  <2>2. \A s \in Slots : Dispatching(s)' => s = dCur
    BY <1>2, SoleDispatcher
    DEF Dispatcher, ringDispatchLoop, pollRequest, pollScan, pollProbe, pollReload,
        checkHeader, invokeHostCall, sendResponse, exitLoop, Retire,
        Contiguous, Dispatching, Handshake
  <2> QED
    BY <1>0, <2>1, <2>2 DEF Contiguous, Ahead, Backlog
<1> QED
  BY <1>1, <1>2

LEMMA ContiguousOutside ==
  Contiguous /\ (Arrive \/ Owner \/ TxThread) => Contiguous'
<1> SUFFICES ASSUME Contiguous, Arrive \/ Owner \/ TxThread PROVE Contiguous'
  OBVIOUS
<1>1. UNCHANGED <<rxFlag, rxNext, dCur, dPc, dSlot>>
  BY DEF Arrive, Owner, start, close, closeSocket, raiseShutdown, TxThread,
      txLoop, txLoad, txSend, txClear, txExit, xcvrVars, rxVars, txVars,
      txVars1, ringVars, dispVars
<1> QED
  BY <1>1, ContiguousFrame DEF Dispatching

(* Every id that InOrder compares is a number.                             *)
LEMMA IdsAreNumbers ==
  ASSUME TypeOK, PagesFilled
  PROVE  /\ \A i \in DOMAIN sock : sock[i].body \in Requests /\ sock[i].body.id \in Nat
         /\ InHand => rxBuf.id \in Nat
         /\ \A s \in Slots : Undecided(s) => rxData[s] \in Requests /\ rxData[s].id \in Nat
<1>1. \A i \in DOMAIN sock : sock[i] \in Datagrams(Requests)
  BY Positions DEF TypeOK, XcvrTypeOK
<1> QED
  BY <1>1 DEF Datagrams, Requests, PagesFilled, Undecided

LEMMA InOrderInit == Init => InOrder
  BY NumSlotsAssumption
  DEF Init, InOrder, RingInit, XcvrInit, DispInit, InHand, Undecided, Slots

(* Steps that move no request and no cursor of the dispatcher.             *)
LEMMA InOrderFrame ==
  ASSUME InOrder, UNCHANGED <<rxBuf, rxData, dCur>>,
         sock' = sock \/ DOMAIN sock' = {}, InHand' => InHand,
         \A s \in Slots : Undecided(s)' => Undecided(s)
  PROVE  InOrder'
  BY DEF InOrder, Ahead

LEMMA InOrderArrive ==
  TypeOK /\ PagesFilled /\ OnePlace /\ InOrder /\ Arrive => InOrder'
<1> SUFFICES ASSUME TypeOK, PagesFilled, OnePlace, InOrder, Arrive PROVE InOrder'
  OBVIOUS
<1>0. PICK k \in Arriving, a \in Addresses :
        sock' = Append(sock, [from |-> a, fits |-> k.fits,
                   body |-> [id |-> arrived + 1, magic |-> k.magic,
                             fn |-> k.fn]])
  BY DEF Arrive
<1> DEFINE d == [from |-> a, fits |-> k.fits,
                 body |-> [id |-> arrived + 1, magic |-> k.magic,
                           fn |-> k.fn]]
<1>1. sock \in Seq(Datagrams(Requests)) /\ arrived \in Nat
  BY DEF TypeOK, XcvrTypeOK
<1>2. d \in Datagrams(Requests) /\ d.body.id = arrived + 1
  BY <1>1, ArrivingAssumption DEF Datagrams, Requests
<1> HIDE DEF d
<1>3. sock' = Append(sock, d)
  BY <1>0 DEF d
<1>4. /\ \A i \in DOMAIN sock : i \in DOMAIN sock' /\ sock'[i] = sock[i]
      /\ sock'[Len(sock) + 1] = d
      /\ \A i \in DOMAIN sock' : i \in DOMAIN sock \/ i = Len(sock) + 1
      /\ \A i \in DOMAIN sock : i < Len(sock) + 1 /\ i \in Nat
  BY <1>1, <1>2, <1>3, AppendElements, LenProperties
<1>5. /\ InHand' = InHand /\ rxBuf' = rxBuf /\ rxData' = rxData
      /\ \A s \in Slots : Undecided(s)' = Undecided(s) /\ Ahead(s)' = Ahead(s)
  BY DEF Arrive, InHand, Undecided, Ahead, rxVars, ringVars, dispVars
<1>6. \A i, j \in DOMAIN sock' : i < j => sock'[i].body.id < sock'[j].body.id
  <2> SUFFICES ASSUME NEW i \in DOMAIN sock', NEW j \in DOMAIN sock', i < j
               PROVE  sock'[i].body.id < sock'[j].body.id
    OBVIOUS
  <2>1. i \in DOMAIN sock
    BY <1>1, <1>4, LenProperties
  <2>2. CASE j \in DOMAIN sock
    BY <1>4, <2>1, <2>2 DEF InOrder
  <2>3. CASE j = Len(sock) + 1
    BY <1>1, <1>2, <1>4, <2>1, <2>3, IdsAreNumbers DEF OnePlace
  <2> QED
    BY <1>4, <2>2, <2>3
<1>7. InHand' => \A i \in DOMAIN sock' : rxBuf'.id < sock'[i].body.id
  BY <1>1, <1>2, <1>4, <1>5, IdsAreNumbers DEF InOrder, OnePlace
<1>8. \A s \in Slots : Undecided(s)' =>
         \A i \in DOMAIN sock' : rxData'[s].id < sock'[i].body.id
  BY <1>1, <1>2, <1>4, <1>5, IdsAreNumbers DEF InOrder, OnePlace
<1> QED
  BY <1>5, <1>6, <1>7, <1>8 DEF InOrder

(* While rxLoop's slot is free, the backlog ends there.                    *)
LEMMA BacklogEnd ==
  ASSUME TypeOK, Contiguous, ~rxFlag[rxNext]
  PROVE  \A s \in Slots : /\ Ahead(s) \in Nat
                          /\ rxFlag[s] => Ahead(s) < Ahead(rxNext)
<1>1. rxNext \in Slots /\ dCur \in Slots
  BY DEF TypeOK, XcvrTypeOK, DispTypeOK
<1>2. Backlog = Ahead(rxNext)
  BY <1>1, DistanceFacts DEF Backlog, Ahead
<1>3. \A s \in Slots : Ahead(s) \in Nat
  BY <1>1, DistanceFacts DEF Ahead
<1> QED
  BY <1>1, <1>2, <1>3 DEF Contiguous

LEMMA InOrderRx ==
  TypeOK /\ Handshake /\ PagesFilled /\ Contiguous /\ InOrder /\ RxThread
     => InOrder'
<1> SUFFICES ASSUME TypeOK, Handshake, PagesFilled, Contiguous, InOrder, RxThread
             PROVE  InOrder'
  OBVIOUS
<1>0. /\ rxNext \in Slots /\ UNCHANGED <<dCur, dPc, dSlot>>
      /\ \A s \in Slots : Ahead(s)' = Ahead(s)
      /\ rxData \in [Slots -> Requests \cup {Zero}] /\ rxFlag \in [Slots -> BOOLEAN]
  BY DEF TypeOK, XcvrTypeOK, RingTypeOK, RxThread, dispVars, Ahead
<1>1. CASE rxRecv
  <2>1. /\ sock' = Tail(sock) /\ 1 \in DOMAIN sock /\ Head(sock) = sock[1]
        /\ \A i \in DOMAIN Tail(sock) :
              /\ i + 1 \in DOMAIN sock /\ i + 1 # 1 /\ i \in Nat
              /\ Tail(sock)[i] = sock[i + 1]
    BY <1>1, TailElements DEF rxRecv, TypeOK, XcvrTypeOK
  <2>2. /\ \A s \in Slots : Undecided(s)' = Undecided(s)
        /\ rxData' = rxData /\ ~InHand
        /\ InHand' => rxBuf' = sock[1].body
    BY <1>0, <1>1, <2>1 DEF rxRecv, InHand, Undecided, ringVars
  <2>3. \A i, j \in DOMAIN sock' : i < j => sock'[i].body.id < sock'[j].body.id
    BY <2>1 DEF InOrder
  <2>4. InHand' => \A i \in DOMAIN sock' : rxBuf'.id < sock'[i].body.id
    BY <2>1, <2>2 DEF InOrder
  <2>5. \A s \in Slots : Undecided(s)' =>
          /\ \A i \in DOMAIN sock' : rxData'[s].id < sock'[i].body.id
          /\ InHand' => rxData'[s].id < rxBuf'.id
    BY <2>1, <2>2 DEF InOrder
  <2> QED
    BY <1>0, <2>2, <2>3, <2>4, <2>5 DEF InOrder
<1>2. CASE rxCopy
  <2>1. \A s \in Slots : Undecided(s)' =>
           Undecided(s) /\ rxData'[s] = rxData[s]
    BY <1>0, <1>2 DEF rxCopy, Handshake, Undecided
  <2> QED
    BY <1>0, <1>2, <2>1 DEF rxCopy, InOrder, InHand
<1>3. CASE rxPublish
  <2>1. /\ InHand /\ ~InHand' /\ ~rxFlag[rxNext] /\ ~Undecided(rxNext)
        /\ UNCHANGED <<sock, rxData>> /\ rxData[rxNext] = rxBuf
    BY <1>3 DEF rxPublish, Handshake, Undecided, InHand, PagesFilled
  <2>2. \A s \in Slots : Undecided(s)' => Undecided(s) \/ s = rxNext
    BY <1>0, <1>3 DEF rxPublish, Undecided
  <2>3. \A s \in Slots : Ahead(s) \in Nat /\ (rxFlag[s] => Ahead(s) < Ahead(rxNext))
    BY <2>1, BacklogEnd
  <2>4. \A s \in Slots : Undecided(s)' =>
          \A i \in DOMAIN sock' : rxData'[s].id < sock'[i].body.id
    BY <2>1, <2>2 DEF InOrder
  <2>5. \A s, t \in Slots :
          Undecided(s)' /\ Undecided(t)' /\ Ahead(s) < Ahead(t)
             => rxData[s].id < rxData[t].id
    <3> SUFFICES ASSUME NEW s \in Slots, NEW t \in Slots, Undecided(s)',
                        Undecided(t)', Ahead(s) < Ahead(t)
                 PROVE  rxData[s].id < rxData[t].id
      OBVIOUS
    <3>1. Undecided(s)
      <4>1. CASE s = rxNext
        <5>1. rxFlag[t] /\ t # s
          BY <1>0, <2>2, <2>3, <4>1 DEF Undecided
        <5> QED
          BY <1>0, <2>3, <4>1, <5>1
      <4> QED
        BY <2>2, <4>1
    <3>2. CASE t = rxNext
      BY <2>1, <3>1, <3>2 DEF InOrder
    <3>3. CASE Undecided(t)
      BY <3>1, <3>3 DEF InOrder
    <3> QED
      BY <2>2, <3>2, <3>3
  <2> QED
    BY <1>0, <2>1, <2>4, <2>5 DEF InOrder
<1>4. CASE rxLoadRx \/ rxLoadTx \/ rxExit
  BY <1>0, <1>4, InOrderFrame
  DEF rxLoadRx, rxLoadTx, rxExit, InHand, Undecided, ringVars
<1> QED
  BY <1>1, <1>2, <1>3, <1>4 DEF RxThread, rxLoop

(* The dispatcher only takes requests away from the ring.                  *)
LEMMA UndecidedShrinks ==
  TypeOK /\ Handshake /\ Dispatcher
     => \A s \in Slots : Undecided(s)' => Undecided(s)
<1> SUFFICES ASSUME TypeOK, Handshake, Dispatcher
             PROVE  \A s \in Slots : Undecided(s)' => Undecided(s)
  OBVIOUS
<1> USE DEF Undecided, TypeOK, RingTypeOK, DispTypeOK, Handshake,
      Dispatching, ringVars
<1>1. CASE pollRequest
  BY <1>1 DEF pollRequest
<1>2. CASE pollScan \/ pollProbe
  BY <1>2, SoleDispatcher DEF pollScan, pollProbe
<1>3. CASE pollReload
  BY <1>3 DEF pollReload
<1>4. CASE checkHeader
  BY <1>4 DEF checkHeader, Retire
<1>5. CASE invokeHostCall
  BY <1>5 DEF invokeHostCall, Retire
<1>6. CASE sendResponse
  BY <1>6 DEF sendResponse, Retire
<1>7. CASE retireRequest
  BY <1>7, SoleDispatcher DEF retireRequest
<1>8. CASE exitLoop
  BY <1>8 DEF exitLoop
<1> QED
  BY <1>1, <1>2, <1>3, <1>4, <1>5, <1>6, <1>7, <1>8
  DEF Dispatcher, ringDispatchLoop

LEMMA InOrderDispatcher ==
  TypeOK /\ Handshake /\ Contiguous /\ InOrder /\ Dispatcher => InOrder'
<1> SUFFICES ASSUME TypeOK, Handshake, Contiguous, InOrder, Dispatcher
             PROVE  InOrder'
  OBVIOUS
<1>0. /\ UNCHANGED <<sock, rxBuf>> /\ InHand' = InHand
      /\ dCur \in Slots /\ dSlot \in Slots /\ rxFlag \in [Slots -> BOOLEAN]
  BY DEF Dispatcher, xcvrVars, rxVars, InHand, TypeOK, DispTypeOK, RingTypeOK
<1>1. /\ rxData' = rxData
      /\ \A s \in Slots : Undecided(s)' => Undecided(s)
  <2>1. rxData' = rxData
    BY DEF Dispatcher, ringDispatchLoop, pollRequest, pollScan, pollProbe, pollReload,
        checkHeader, invokeHostCall, sendResponse, retireRequest, exitLoop,
        ringVars
  <2> QED
    BY <2>1, UndecidedShrinks
<1>2. CASE retireRequest
  <2>1. dSlot = dCur /\ dCur' = NextSlot(dCur)
    BY <1>0, <1>2 DEF retireRequest, Contiguous, Dispatching
  <2>2. \A s \in Slots : Undecided(s)' => s # dCur
    BY <1>0, <1>2, <2>1, SoleDispatcher DEF retireRequest, Undecided
  <2>3. \A s \in Slots : s # dCur => Ahead(s)' = Ahead(s) - 1 /\ Ahead(s) \in Nat
    BY <1>0, <2>1, DistanceFacts DEF Ahead
  <2>4. \A s, t \in Slots :
          Undecided(s)' /\ Undecided(t)' /\ Ahead(s)' < Ahead(t)'
             => Ahead(s) < Ahead(t)
    BY <2>2, <2>3
  <2> QED
    BY <1>0, <1>1, <2>4 DEF InOrder
<1>3. CASE ~retireRequest
  <2>1. UNCHANGED dCur
    BY <1>3, SoleDispatcher
    DEF Dispatcher, ringDispatchLoop, pollRequest, pollScan, pollProbe, pollReload,
        checkHeader, invokeHostCall, sendResponse, exitLoop
  <2> QED
    BY <1>0, <1>1, <2>1, InOrderFrame
<1> QED
  BY <1>2, <1>3

LEMMA InOrderOutside ==
  Handshake /\ InOrder /\ (Owner \/ TxThread) => InOrder'
<1> SUFFICES ASSUME Handshake, InOrder, Owner \/ TxThread PROVE InOrder'
  OBVIOUS
<1>1. UNCHANGED <<rxBuf, rxData, rxFlag, dCur, dPc, dSlot>>
  BY DEF Owner, start, close, closeSocket, raiseShutdown, TxThread,
      txLoop, txLoad, txSend, txClear, txExit, xcvrVars, rxVars, txVars,
      txVars1, ringVars, dispVars
<1>2. sock' = sock \/ DOMAIN sock' = {}
  BY DEF Owner, start, close, closeSocket, raiseShutdown, TxThread,
      txLoop, txLoad, txSend, txClear, txExit, xcvrVars, txVars1
<1>3. InHand' => InHand
  BY DEF Owner, start, close, closeSocket, raiseShutdown, TxThread,
      txLoop, txLoad, txSend, txClear, txExit, xcvrVars, rxVars, txVars1, InHand
<1> QED
  BY <1>1, <1>2, <1>3, InOrderFrame DEF Undecided

(* The ring is a queue, on top of the invariant of the three threads.      *)
LEMMA QueueNext ==
  IInv /\ Contiguous /\ InOrder /\ [Next]_vars => Contiguous' /\ InOrder'
<1> SUFFICES ASSUME IInv, Contiguous, InOrder, [Next]_vars
             PROVE  Contiguous' /\ InOrder'
  OBVIOUS
<1> USE DEF IInv
<1>1. CASE Arrive
  BY <1>1, ContiguousOutside, InOrderArrive
<1>2. CASE Owner \/ TxThread
  BY <1>2, ContiguousOutside, InOrderOutside
<1>3. CASE RxThread
  BY <1>3, ContiguousRx, InOrderRx
<1>4. CASE Dispatcher
  BY <1>4, ContiguousDispatcher, InOrderDispatcher
<1>5. CASE UNCHANGED vars
  <2>1. /\ UNCHANGED <<rxFlag, rxNext, dCur, dPc, dSlot, rxBuf, rxData, sock>>
        /\ InHand' = InHand
    BY <1>5 DEF vars, xcvrVars, rxVars, ringVars, dispVars, InHand
  <2> QED
    BY <2>1, ContiguousFrame, InOrderFrame DEF Dispatching, Undecided
<1> QED
  BY <1>1, <1>2, <1>3, <1>4, <1>5 DEF Next

(* From the dispatcher's cursor on, the ring holds the requests in arrival *)
(* order and without a gap, and what rxLoop holds and the socket queues    *)
(* comes after them.                                                       *)
THEOREM ServiceRingIsQueue == Spec => [](Contiguous /\ InOrder)
<1>1. Init => Contiguous /\ InOrder
  BY ContiguousInit, InOrderInit
<1>2. IInv /\ Contiguous /\ InOrder /\ [Next]_vars => Contiguous' /\ InOrder'
  BY QueueNext
<1> QED
  BY <1>1, <1>2, ServiceInvariant, PTL DEF Spec

-----------------------------------------------------------------------------
(* The refinement of RpcServer.                                            *)

(* The initial state is RpcServer's.                                       *)
LEMMA RefinesInit == Init => Abstract!Init
<1> SUFFICES ASSUME Init PROVE Abstract!Init
  OBVIOUS
<1>1. Pending = {}
  BY NumSlotsAssumption
  DEF Init, Pending, RingInit, XcvrInit, DispInit, InHand, Undecided, Slots
<1>2. Ready = {}
  BY NumSlotsAssumption
  DEF Init, Ready, RingInit, XcvrInit, DispInit, Unsent, Slots
<1>3. SentReplies = << >>
  BY DEF Init, SentReplies, XcvrInit
<1> QED
  BY <1>1, <1>2, <1>3 DEF Init, Abstract!Init

(* What leaves arrived, Ready and SentReplies alone and makes no request   *)
(* pending is a Discard, of no request at all in most steps.               *)
LEMMA RefinesDiscard ==
  ASSUME UNCHANGED <<arrived, wire, txData>>,
         \A s \in Slots : Unsent(s)' = Unsent(s),
         \A i \in DOMAIN sock' : sock'[i].body \in Pending,
         InHand' => rxBuf' \in Pending,
         \A s \in Slots : Undecided(s)' => rxData'[s] \in Pending
  PROVE  Abstract!Next
<1>1. Pending' \subseteq Pending
  <2>1. Pending' = {sock'[i].body : i \in DOMAIN sock'}
             \cup (IF InHand' THEN {rxBuf'} ELSE {})
             \cup {rxData'[s] : s \in {s \in Slots : Undecided(s)'}}
    BY DEF Pending
  <2> QED
    BY <2>1
<1>2. Ready' = Ready
  BY DEF Ready
<1>3. SentReplies' = SentReplies
  BY DEF SentReplies
<1> QED
  BY <1>1, <1>2, <1>3 DEF Abstract!Next, Abstract!Discard

LEMMA RefinesArrive == TypeOK /\ Arrive => Abstract!Next
<1> SUFFICES ASSUME TypeOK, Arrive PROVE Abstract!Accept
  BY DEF Abstract!Next
<1>0. PICK k \in Arriving, a \in Addresses :
        sock' = Append(sock, [from |-> a, fits |-> k.fits,
                   body |-> [id |-> arrived + 1, magic |-> k.magic,
                             fn |-> k.fn]])
  BY DEF Arrive
<1> DEFINE r == [id |-> arrived + 1, magic |-> k.magic, fn |-> k.fn]
           d == [from |-> a, fits |-> k.fits, body |-> r]
<1>1. sock \in Seq(Datagrams(Requests)) /\ arrived \in Nat
  BY DEF TypeOK, XcvrTypeOK
<1>2. d \in Datagrams(Requests) /\ d.body = r /\ r.id = arrived + 1
  BY <1>1, ArrivingAssumption DEF Datagrams, Requests
<1>3. sock' = Append(sock, d)
  BY <1>0
<1> HIDE DEF d, r
<1>4. /\ \A i \in DOMAIN sock : i \in DOMAIN sock' /\ sock'[i] = sock[i]
      /\ sock'[Len(sock) + 1] = d /\ Len(sock) + 1 \in DOMAIN sock'
      /\ \A i \in DOMAIN sock' : i \in DOMAIN sock \/ i = Len(sock) + 1
  BY <1>1, <1>2, <1>3, AppendElements
<1>5. /\ arrived' = arrived + 1
      /\ InHand' = InHand /\ UNCHANGED <<rxBuf, rxData, txData, wire>>
      /\ \A s \in Slots : Undecided(s)' = Undecided(s) /\ Unsent(s)' = Unsent(s)
  BY DEF Arrive, InHand, Undecided, Unsent, rxVars, txVars, ringVars, dispVars
<1>6. {sock'[i].body : i \in DOMAIN sock'}
         = {sock[i].body : i \in DOMAIN sock} \cup {r}
  BY <1>2, <1>4
<1>7. Pending' = Pending \cup {r}
  <2>1. Pending' = {sock'[i].body : i \in DOMAIN sock'}
             \cup (IF InHand THEN {rxBuf} ELSE {})
             \cup {rxData[s] : s \in {s \in Slots : Undecided(s)}}
    BY <1>5 DEF Pending
  <2> QED
    BY <1>6, <2>1 DEF Pending
<1>8. Ready' = Ready /\ SentReplies' = SentReplies
  BY <1>5 DEF Ready, SentReplies
<1> QED
  BY <1>2, <1>5, <1>7, <1>8 DEF Abstract!Accept

LEMMA RefinesOwner ==
  Handshake /\ Owner /\ UNCHANGED arrived => Abstract!Next
<1> SUFFICES ASSUME Handshake, Owner, UNCHANGED arrived PROVE Abstract!Next
  OBVIOUS
<1>1. UNCHANGED <<rxBuf, rxData, txData, wire, rxFlag, txFlag, dPc, dSlot, txCursor>>
  BY DEF Owner, start, close, closeSocket, raiseShutdown, xcvrVars, rxVars,
      txVars, ringVars, dispVars
<1>2. sock' = sock \/ DOMAIN sock' = {}
  BY DEF Owner, start, close, closeSocket, raiseShutdown, xcvrVars
<1>3. InHand' => InHand
  BY DEF Owner, start, close, closeSocket, raiseShutdown, xcvrVars, rxVars, InHand
<1>4. \A s \in Slots : Unsent(s)' = Unsent(s)
  <2>1. txPc = "clear" <=> txPc' = "clear"
    BY DEF Owner, start, close, closeSocket, raiseShutdown, xcvrVars, txVars,
        Handshake
  <2> QED
    BY <1>1, <2>1 DEF Unsent
<1>5. \A s \in Slots : Undecided(s)' = Undecided(s)
  BY <1>1 DEF Undecided
<1>6. /\ \A i \in DOMAIN sock' : sock'[i].body \in Pending
      /\ InHand' => rxBuf' \in Pending
      /\ \A s \in Slots : Undecided(s)' => rxData'[s] \in Pending
  BY <1>1, <1>2, <1>3, <1>5 DEF Pending
<1> QED
  BY <1>1, <1>4, <1>6, RefinesDiscard

LEMMA RefinesRx ==
  TypeOK /\ Handshake /\ PagesFilled /\ RxThread /\ UNCHANGED arrived
     => Abstract!Next
<1> SUFFICES ASSUME TypeOK, Handshake, PagesFilled, RxThread, UNCHANGED arrived
             PROVE  Abstract!Next
  OBVIOUS
<1>1. UNCHANGED <<wire, txData, txFlag, txPc, txCursor, dPc, dSlot>>
  BY DEF RxThread, rxLoop, rxRecv, rxLoadRx, rxLoadTx, rxCopy, rxPublish,
      rxExit, rxVars1, txVars, ringVars, dispVars
<1>2. \A s \in Slots : Unsent(s)' = Unsent(s)
  BY <1>1 DEF Unsent
<1>3. \A i \in DOMAIN sock' : sock'[i].body \in Pending
  <2>1. CASE rxRecv
    <3>1. /\ sock' = Tail(sock)
          /\ \A i \in DOMAIN Tail(sock) :
                i + 1 \in DOMAIN sock /\ Tail(sock)[i] = sock[i + 1]
      BY <2>1, TailElements DEF rxRecv, TypeOK, XcvrTypeOK
    <3> QED
      BY <3>1 DEF Pending
  <2>2. CASE ~rxRecv
    <3>1. sock' = sock
      BY <2>2 DEF RxThread, rxLoop, rxLoadRx, rxLoadTx, rxCopy, rxPublish, rxExit
    <3> QED
      BY <3>1 DEF Pending
  <2> QED
    BY <2>1, <2>2
<1>4. InHand' => rxBuf' \in Pending
  <2>1. CASE rxRecv
    <3>1. 1 \in DOMAIN sock /\ Head(sock) = sock[1]
      BY <2>1, TailElements DEF rxRecv, TypeOK, XcvrTypeOK
    <3>2. InHand' => rxBuf' = sock[1].body
      BY <2>1, <3>1 DEF rxRecv, InHand
    <3> QED
      BY <3>1, <3>2 DEF Pending
  <2>2. CASE ~rxRecv
    <3>1. rxBuf' = rxBuf /\ (InHand' => InHand)
      BY <2>2 DEF RxThread, rxLoop, rxLoadRx, rxLoadTx, rxCopy, rxPublish,
          rxExit, InHand
    <3> QED
      BY <3>1 DEF Pending
  <2> QED
    BY <2>1, <2>2
<1>5. \A s \in Slots : Undecided(s)' => rxData'[s] \in Pending
  <2> SUFFICES ASSUME NEW s \in Slots, Undecided(s)' PROVE rxData'[s] \in Pending
    OBVIOUS
  <2>1. \/ Undecided(s) /\ rxData'[s] = rxData[s]
        \/ InHand /\ rxData'[s] = rxBuf
    <3> USE <1>1 DEF Undecided, TypeOK, RingTypeOK, XcvrTypeOK, ringVars
    <3>1. CASE rxCopy
      BY <3>1 DEF rxCopy, Handshake
    <3>2. CASE rxPublish
      BY <3>2 DEF rxPublish, PagesFilled, InHand
    <3>3. CASE rxRecv \/ rxLoadRx \/ rxLoadTx \/ rxExit
      BY <3>3 DEF rxRecv, rxLoadRx, rxLoadTx, rxExit
    <3> QED
      BY <3>1, <3>2, <3>3 DEF RxThread, rxLoop
  <2> QED
    BY <2>1 DEF Pending
<1> QED
  BY <1>1, <1>2, <1>3, <1>4, <1>5, RefinesDiscard

LEMMA RefinesTx ==
  IInv /\ TxThread /\ UNCHANGED arrived => Abstract!Next
<1> SUFFICES ASSUME IInv, TxThread, UNCHANGED arrived PROVE Abstract!Next
  OBVIOUS
<1>0. /\ UNCHANGED <<sock, rxBuf, rxData, txData>> /\ InHand' = InHand
      /\ \A s \in Slots : Undecided(s)' = Undecided(s)
  BY DEF TxThread, txLoop, txLoad, txSend, txClear, txExit, InHand, Undecided,
      ringVars, rxVars, txVars1, dispVars
<1>1. CASE txSend
  <2> DEFINE m == [to |-> peer, body |-> txData[txCursor]]
  <2>1. /\ txCursor \in Slots /\ Unsent(txCursor) /\ txFlag[txCursor]
        /\ dPc = "publish" => dSlot # txCursor
    BY <1>1 DEF IInv, txSend, Unsent, TypeOK, XcvrTypeOK, Handshake, Shipping,
        Dispatching
  <2>2. peer # NoPeer
    BY <2>1 DEF IInv, Deliverable
  <2>3. /\ wire \in Seq(Sent(Replies)) /\ m \in Sent(Replies)
        /\ \A x \in Sent(Replies) : x.body \in Replies \cup {Zero}
    BY <2>1, <2>2 DEF IInv, TypeOK, XcvrTypeOK, RingTypeOK, Sent
  <2>4. wire' = Append(wire, m) /\ m.body = txData[txCursor]
    BY <1>1, <2>2 DEF txSend, Ship
  <2> HIDE DEF m
  <2>5. SentReplies' = Append(SentReplies, txData[txCursor])
    BY <2>3, <2>4, BodiesOfAppend DEF SentReplies
  <2>6. \A s \in Slots : Unsent(s)' <=> Unsent(s) /\ s # txCursor
    BY <1>1, <2>1 DEF txSend, TxThread, Unsent, ringVars, dispVars
  <2>7. \A s \in Slots : Unsent(s) /\ s # txCursor => txData[s] # txData[txCursor]
    BY <2>1 DEF IInv, Deliverable
  <2>8. txData[txCursor] \in Ready /\ Ready' = Ready \ {txData[txCursor]}
    <3>1. Ready' = {txData[s] : s \in {s \in Slots : Unsent(s) /\ s # txCursor}}
      BY <1>0, <2>6 DEF Ready
    <3> QED
      BY <2>1, <2>7, <3>1 DEF Ready
  <2>9. Pending' = Pending
    BY <1>0 DEF Pending
  <2> QED
    BY <2>5, <2>8, <2>9 DEF Abstract!Next, Abstract!Send
<1>2. CASE ~txSend
  <2>1. wire' = wire
    BY <1>2 DEF TxThread, txLoop, txLoad, txClear, txExit
  <2>2. \A s \in Slots : Unsent(s)' = Unsent(s)
    BY <1>2 DEF TxThread, txLoop, txLoad, txClear, txExit, Unsent, IInv, TypeOK,
        RingTypeOK, XcvrTypeOK, Handshake, Shipping, ringVars, dispVars
  <2>3. /\ \A i \in DOMAIN sock' : sock'[i].body \in Pending
        /\ InHand' => rxBuf' \in Pending
        /\ \A s \in Slots : Undecided(s)' => rxData'[s] \in Pending
    BY <1>0 DEF Pending
  <2> QED
    BY <1>0, <2>1, <2>2, <2>3, RefinesDiscard
<1> QED
  BY <1>1, <1>2

LEMMA RefinesDispatcher ==
  IInv /\ Contiguous /\ InOrder /\ Dispatcher /\ UNCHANGED arrived
     => Abstract!Next
<1> SUFFICES ASSUME IInv, Contiguous, InOrder, Dispatcher, UNCHANGED arrived
             PROVE  Abstract!Next
  OBVIOUS
<1>0. UNCHANGED <<sock, wire, rxBuf, txPc, txCursor>> /\ InHand' = InHand
  BY DEF Dispatcher, xcvrVars, rxVars, txVars, InHand
<1>1. CASE invokeHostCall /\ rxData[dSlot].fn \notin NullHandlers
  <2> DEFINE r == rxData[dSlot]
  <2>1. /\ dSlot \in Slots /\ dCur \in Slots /\ dSlot = dCur /\ Undecided(dSlot)
        /\ ~Unsent(dSlot) /\ r \in Requests
    BY <1>1 DEF invokeHostCall, IInv, TypeOK, DispTypeOK, Handshake, Dispatching,
        Undecided, Unsent, PagesFilled, Contiguous
  <2>2. /\ txData' = [txData EXCEPT ![dSlot] = Reply(r)]
        /\ UNCHANGED <<rxFlag, txFlag, rxData, dSlot>> /\ dPc' = "publish"
        /\ dPc = "invoke" /\ txData \in [Slots -> Replies \cup {Zero}]
    BY <1>1 DEF invokeHostCall, IInv, TypeOK, RingTypeOK
  <2>3. /\ \A s \in Slots : Undecided(s)' <=> Undecided(s) /\ s # dSlot
        /\ \A s \in Slots : Unsent(s)' <=> Unsent(s) \/ s = dSlot
    BY <1>0, <2>1, <2>2 DEF Undecided, Unsent
  <2>4. /\ \A i \in DOMAIN sock : r.id < sock[i].body.id /\ r # sock[i].body
        /\ InHand => r.id < rxBuf.id /\ r # rxBuf
        /\ \A s \in Slots : Undecided(s) /\ s # dSlot
              => r.id < rxData[s].id /\ r # rxData[s]
    <3>1. \A s \in Slots : s # dSlot => Ahead(dSlot) < Ahead(s)
      BY <2>1, DistanceFacts DEF Ahead
    <3>2. /\ \A i \in DOMAIN sock : r.id < sock[i].body.id
          /\ InHand => r.id < rxBuf.id
          /\ \A s \in Slots : Undecided(s) /\ s # dSlot => r.id < rxData[s].id
      BY <2>1, <3>1 DEF InOrder
    <3>3. r.id \in Nat
      BY <2>1 DEF Requests
    <3> QED
      BY <3>2, <3>3
  <2> HIDE DEF r
  <2>5. r \in Pending /\ \A q \in Pending : r.id <= q.id
    <3>1. r \in Pending
      BY <2>1 DEF Pending, r
    <3>2. /\ \A i \in DOMAIN sock : sock[i].body.id \in Nat
          /\ InHand => rxBuf.id \in Nat
          /\ \A s \in Slots : Undecided(s) => rxData[s].id \in Nat
      BY IdsAreNumbers DEF IInv
    <3>3. r.id \in Nat
      BY <2>1 DEF Requests
    <3>4. /\ \A i \in DOMAIN sock : r.id <= sock[i].body.id
          /\ InHand => r.id <= rxBuf.id
          /\ \A s \in Slots : Undecided(s) => r.id <= rxData[s].id
      BY <2>4, <3>2, <3>3 DEF r
    <3> QED
      BY <3>1, <3>4 DEF Pending
  <2>6. Pending' = Pending \ {r}
    <3>1. Pending' = {sock[i].body : i \in DOMAIN sock}
             \cup (IF InHand THEN {rxBuf} ELSE {})
             \cup {rxData[s] : s \in {s \in Slots : Undecided(s) /\ s # dSlot}}
      BY <1>0, <2>2, <2>3 DEF Pending
    <3>2. {rxData[s] : s \in {s \in Slots : Undecided(s)}}
            = {rxData[s] : s \in {s \in Slots : Undecided(s) /\ s # dSlot}}
                \cup {r}
      BY <2>1 DEF r
    <3> QED
      BY <2>4, <3>1, <3>2 DEF Pending
  <2>7. Reply(r) \notin Ready
    <3>1. \A s \in Slots : Unsent(s) =>
             \E k \in DOMAIN executed : txData[s].id = executed[k]
      BY DEF IInv, RepliesAccounted
    <3>2. \A k \in DOMAIN executed : executed[k] # r.id
      BY <2>1 DEF IInv, OnePlace, r
    <3>3. Reply(r).id = r.id
      BY DEF Reply
    <3> QED
      BY <3>1, <3>2, <3>3 DEF Ready
  <2>8. Ready' = Ready \cup {Reply(r)}
    <3>1. /\ txData'[dSlot] = Reply(r)
          /\ \A s \in Slots : s # dSlot => txData'[s] = txData[s]
      BY <2>1, <2>2
    <3>2. Ready' = {txData'[s] : s \in {s \in Slots : Unsent(s) \/ s = dSlot}}
      BY <2>3 DEF Ready
    <3> QED
      BY <2>1, <3>1, <3>2 DEF Ready
  <2>9. SentReplies' = SentReplies
    BY <1>0 DEF SentReplies
  <2> QED
    BY <2>5, <2>6, <2>7, <2>8, <2>9 DEF Abstract!Next, Abstract!Serve
<1>2. ASSUME ~(invokeHostCall /\ rxData[dSlot].fn \notin NullHandlers)
      PROVE  Abstract!Next
  <2>1. txData' = txData /\ rxData' = rxData
    BY <1>2 DEF Dispatcher, ringDispatchLoop, pollRequest, pollScan, pollProbe, pollReload,
        checkHeader, invokeHostCall, sendResponse, retireRequest, exitLoop,
        ringVars
  <2>2. \A s \in Slots : Unsent(s)' = Unsent(s)
    <3> USE <1>0 DEF Unsent, IInv, TypeOK, RingTypeOK, XcvrTypeOK, DispTypeOK,
          Handshake, Dispatching, Shipping, ringVars
    <3>1. CASE pollRequest \/ pollReload \/ exitLoop
      BY <3>1 DEF pollRequest, pollReload, exitLoop
    <3>2. CASE pollScan \/ pollProbe
      BY <3>2, SoleDispatcher DEF pollScan, pollProbe
    <3>4. CASE checkHeader
      BY <3>4 DEF checkHeader, Retire
    <3>5. CASE invokeHostCall
      BY <1>2, <3>5 DEF invokeHostCall, Retire
    <3>6. CASE sendResponse
      BY <3>6 DEF sendResponse, Retire
    <3>7. CASE retireRequest
      BY <3>7, SoleDispatcher DEF retireRequest
    <3> QED
      BY <3>1, <3>2, <3>4, <3>5, <3>6, <3>7 DEF Dispatcher, ringDispatchLoop
  <2>3. \A s \in Slots : Undecided(s)' => Undecided(s)
    BY UndecidedShrinks DEF IInv
  <2>4. /\ \A i \in DOMAIN sock' : sock'[i].body \in Pending
        /\ InHand' => rxBuf' \in Pending
        /\ \A s \in Slots : Undecided(s)' => rxData'[s] \in Pending
    BY <1>0, <2>1, <2>3 DEF Pending
  <2> QED
    BY <1>0, <2>1, <2>2, <2>4, RefinesDiscard
<1> QED
  BY <1>1, <1>2

LEMMA RefinesNext ==
  IInv /\ Contiguous /\ InOrder /\ [Next]_vars
     => [Abstract!Next]_<<arrived, Pending, Ready, SentReplies>>
<1> SUFFICES ASSUME IInv, Contiguous, InOrder, [Next]_vars
             PROVE  [Abstract!Next]_<<arrived, Pending, Ready, SentReplies>>
  OBVIOUS
<1>1. CASE Arrive
  BY <1>1, RefinesArrive DEF IInv
<1>2. CASE Owner /\ UNCHANGED arrived
  BY <1>2, RefinesOwner DEF IInv
<1>3. CASE RxThread /\ UNCHANGED arrived
  BY <1>3, RefinesRx DEF IInv
<1>4. CASE TxThread /\ UNCHANGED arrived
  BY <1>4, RefinesTx
<1>5. CASE Dispatcher /\ UNCHANGED arrived
  BY <1>5, RefinesDispatcher
<1>6. CASE UNCHANGED vars
  <2>1. UNCHANGED <<arrived, sock, rxPc, rxBuf, rxFlag, rxData, txFlag, txData,
                    wire, dPc, dSlot, txPc, txCursor>>
    BY <1>6 DEF vars, xcvrVars, rxVars, txVars, ringVars, dispVars
  <2>2. UNCHANGED <<Pending, Ready, SentReplies>>
    BY <2>1 DEF Pending, InHand, Undecided, Ready, Unsent, SentReplies
  <2> QED
    BY <2>1, <2>2
<1> QED
  BY <1>1, <1>2, <1>3, <1>4, <1>5, <1>6 DEF Next

(* The three threads implement RpcServer: requests are served one at a     *)
(* time in the order in which they arrived, each at most once, and every   *)
(* reply made is sent at most once, whatever the size of the ring.         *)
THEOREM ServiceImplementsRpcServer == Spec => ImplementsRpcServer
<1>1. Init => Abstract!Init
  BY RefinesInit
<1>2. IInv /\ Contiguous /\ InOrder /\ [Next]_vars
         => [Abstract!Next]_<<arrived, Pending, Ready, SentReplies>>
  BY RefinesNext
<1> QED
  BY <1>1, <1>2, ServiceInvariant, ServiceRingIsQueue, PTL
  DEF Spec, ImplementsRpcServer, Abstract!Spec

-----------------------------------------------------------------------------
(* Replies leave in the order of publication when none is dropped.         *)

(* Whether a request is servable does not depend on its id.                *)
LEMMA OnlyServableNext ==
  ASSUME AllServable, TypeOK, Handshake, PagesFilled, OnlyServable, [Next]_vars
  PROVE  OnlyServable'
<1> USE DEF OnlyServable
<1>1. CASE Arrive
  <2>0. PICK k \in Arriving, a \in Addresses :
          sock' = Append(sock, [from |-> a, fits |-> k.fits,
                     body |-> [id |-> arrived + 1, magic |-> k.magic,
                               fn |-> k.fn]])
    BY <1>1 DEF Arrive
  <2> DEFINE d == [from |-> a, fits |-> k.fits,
                   body |-> [id |-> arrived + 1, magic |-> k.magic,
                             fn |-> k.fn]]
  <2>1. sock \in Seq(Datagrams(Requests)) /\ arrived \in Nat
    BY DEF TypeOK, XcvrTypeOK
  <2>2. /\ d \in Datagrams(Requests)
        /\ d.fits => Servable(d.body)
    BY <2>1, ArrivingAssumption
    DEF Datagrams, Requests, AllServable, Servable, IsHostCall, lookupFunction
  <2>3. sock' = Append(sock, d)
    BY <2>0
  <2> HIDE DEF d
  <2>4. /\ \A i \in DOMAIN sock : sock'[i] = sock[i]
        /\ sock'[Len(sock) + 1] = d
        /\ \A i \in DOMAIN sock' : i \in DOMAIN sock \/ i = Len(sock) + 1
    BY <2>1, <2>2, <2>3, AppendElements
  <2>5. UNCHANGED <<rxBuf, rxPc, rxFlag, rxData>>
    BY <1>1 DEF Arrive, rxVars, ringVars
  <2> QED
    BY <2>2, <2>4, <2>5 DEF InHand
<1>2. CASE Owner
  <2>1. /\ UNCHANGED <<rxBuf, rxFlag, rxData>>
        /\ sock' = sock \/ DOMAIN sock' = {}
        /\ InHand' => InHand
    BY <1>2 DEF Owner, start, close, closeSocket, raiseShutdown, xcvrVars,
        rxVars, ringVars, InHand
  <2> QED
    BY <2>1
<1>3. CASE RxThread
  <2> USE DEF InHand, TypeOK, RingTypeOK, XcvrTypeOK, ringVars
  <2>1. CASE rxRecv
    <3>1. /\ sock' = Tail(sock) /\ 1 \in DOMAIN sock /\ Head(sock) = sock[1]
          /\ \A i \in DOMAIN Tail(sock) :
                i + 1 \in DOMAIN sock /\ Tail(sock)[i] = sock[i + 1]
      BY <2>1, TailElements DEF rxRecv
    <3> QED
      BY <2>1, <3>1 DEF rxRecv
  <2>2. CASE rxCopy
    BY <2>2 DEF rxCopy, Handshake
  <2>3. CASE rxPublish
    BY <2>3 DEF rxPublish, PagesFilled
  <2>4. CASE rxLoadRx \/ rxLoadTx \/ rxExit
    BY <2>4 DEF rxLoadRx, rxLoadTx, rxExit
  <2> QED
    BY <1>3, <2>1, <2>2, <2>3, <2>4 DEF RxThread, rxLoop
<1>4. CASE TxThread
  <2>1. UNCHANGED <<sock, rxBuf, rxPc, rxFlag, rxData>>
    BY <1>4 DEF TxThread, txLoop, txLoad, txSend, txClear, txExit, txVars1,
        rxVars, ringVars
  <2> QED
    BY <2>1 DEF InHand
<1>5. CASE Dispatcher
  <2>1. UNCHANGED <<sock, rxBuf, rxPc, rxData>>
    BY <1>5 DEF Dispatcher, ringDispatchLoop, pollRequest, pollScan, pollProbe, pollReload,
        checkHeader, invokeHostCall, sendResponse, retireRequest, exitLoop,
        ringVars, xcvrVars, rxVars
  <2>2. \A s \in Slots : rxFlag'[s] => rxFlag[s]
    BY <1>5 DEF Dispatcher, ringDispatchLoop, pollRequest, pollScan, pollProbe, pollReload,
        checkHeader, invokeHostCall, sendResponse, retireRequest, exitLoop,
        ringVars, TypeOK, RingTypeOK
  <2> QED
    BY <2>1, <2>2 DEF InHand
<1>6. CASE UNCHANGED vars
  <2>1. UNCHANGED <<sock, rxBuf, rxPc, rxFlag, rxData>>
    BY <1>6 DEF vars, xcvrVars, rxVars, ringVars
  <2> QED
    BY <2>1 DEF InHand
<1> QED
  BY <1>1, <1>2, <1>3, <1>4, <1>5, <1>6 DEF Next

LEMMA ReplyQueueInit == Init => OnlyServable /\ ReplyQueue /\ RepliesInPublishOrder
<1> SUFFICES ASSUME Init PROVE OnlyServable /\ ReplyQueue /\ RepliesInPublishOrder
  OBVIOUS
<1>1. /\ rxFlag = [s \in Slots |-> FALSE] /\ txFlag = [s \in Slots |-> FALSE]
      /\ sock = << >> /\ wire = << >> /\ executed = << >>
      /\ rxPc = "off" /\ txPc = "off" /\ txCursor = 0 /\ dCur = 0 /\ dPc = "poll"
      /\ 0 \in Slots
  BY NumSlotsAssumption DEF Init, RingInit, XcvrInit, DispInit, Slots
<1>2. OnlyServable /\ RepliesInPublishOrder
  BY <1>1 DEF OnlyServable, InHand, RepliesInPublishOrder
<1>3. Outstanding = 0 /\ NextToShip = 0 /\ NextToAnswer = 0
  BY <1>1 DEF Outstanding, NextToShip, NextToAnswer
<1>4. /\ Distance(0, 0) = 0
      /\ \A s \in Slots : ~Unsent(s) /\ Distance(0, s) \in Nat
  BY <1>1, DistanceFacts DEF Unsent
<1> QED
  BY <1>2, <1>3, <1>4, NumSlotsAssumption DEF ReplyQueue

(* Steps that neither make a reply nor send one.                           *)
LEMMA ReplyQueueFrame ==
  ASSUME ReplyQueue, RepliesInPublishOrder,
         UNCHANGED <<executed, wire, txData, NextToShip, NextToAnswer>>,
         \A s \in Slots : Unsent(s)' = Unsent(s)
  PROVE  ReplyQueue' /\ RepliesInPublishOrder'
<1>1. Outstanding' = Outstanding
  BY DEF Outstanding
<1> QED
  BY <1>1 DEF ReplyQueue, RepliesInPublishOrder

LEMMA ReplyQueueOutside ==
  ASSUME Handshake, ReplyQueue, RepliesInPublishOrder, Arrive \/ Owner \/ RxThread
  PROVE  ReplyQueue' /\ RepliesInPublishOrder'
<1>1. UNCHANGED <<executed, wire, txData, txFlag, txCursor, dPc, dSlot, dCur>>
  BY DEF Arrive, Owner, start, close, closeSocket, raiseShutdown, RxThread,
      rxLoop, rxRecv, rxLoadRx, rxLoadTx, rxCopy, rxPublish, rxExit, rxVars1,
      xcvrVars, txVars, ringVars, dispVars
<1>2. txPc = "clear" <=> txPc' = "clear"
  BY DEF Arrive, Owner, start, close, closeSocket, raiseShutdown, RxThread,
      rxLoop, rxRecv, rxLoadRx, rxLoadTx, rxCopy, rxPublish, rxExit, rxVars1,
      xcvrVars, txVars, Handshake
<1>3. UNCHANGED <<NextToShip, NextToAnswer>>
  BY <1>1, <1>2 DEF NextToShip, NextToAnswer
<1>4. \A s \in Slots : Unsent(s)' = Unsent(s)
  BY <1>1, <1>2 DEF Unsent
<1> QED
  BY <1>1, <1>3, <1>4, ReplyQueueFrame

LEMMA ReplyQueueTx ==
  ASSUME IInv, ReplyQueue, RepliesInPublishOrder, TxThread
  PROVE  ReplyQueue' /\ RepliesInPublishOrder'
<1>0. /\ UNCHANGED <<executed, txData, dPc, dSlot, dCur>>
      /\ NextToAnswer' = NextToAnswer
      /\ txCursor \in Slots /\ dCur \in Slots /\ NextToAnswer \in Slots
      /\ Len(executed) \in Nat /\ Len(wire) \in Nat
      /\ DOMAIN executed = 1 .. Len(executed) /\ DOMAIN wire = 1 .. Len(wire)
  <2>1. UNCHANGED <<executed, txData, dPc, dSlot, dCur>>
    BY DEF TxThread, txLoop, txLoad, txSend, txClear, txExit, ringVars, dispVars
  <2>2. txCursor \in Slots /\ dCur \in Slots /\ NextToAnswer \in Slots
    BY NextSlotType DEF IInv, TypeOK, XcvrTypeOK, DispTypeOK, NextToAnswer
  <2>3. executed \in Seq(Nat) /\ wire \in Seq(Sent(Replies))
    BY DEF IInv, TypeOK, XcvrTypeOK, DispTypeOK
  <2> QED
    BY <2>1, <2>2, <2>3, LenProperties DEF NextToAnswer
<1>1. CASE txSend
  <2> DEFINE h == txCursor
             m == [to |-> peer, body |-> txData[txCursor]]
  <2>1. /\ Unsent(h) /\ txFlag[h] /\ (dPc = "publish" => dSlot # h)
        /\ NextToShip = h /\ NextToShip' = NextSlot(h)
    BY <1>1 DEF IInv, txSend, Unsent, TypeOK, XcvrTypeOK, Handshake, Shipping,
        Dispatching, NextToShip
  <2>2. peer # NoPeer
    BY <1>0, <2>1 DEF IInv, Deliverable
  <2>3. /\ wire \in Seq(Sent(Replies)) /\ m \in Sent(Replies)
        /\ wire' = Append(wire, m) /\ m.body = txData[h]
    BY <1>0, <1>1, <2>2
    DEF IInv, TypeOK, XcvrTypeOK, RingTypeOK, Sent, txSend, Ship
  <2> HIDE DEF m
  <2>4. /\ \A i \in DOMAIN wire : wire'[i] = wire[i]
        /\ wire'[Len(wire) + 1] = m /\ Len(wire') = Len(wire) + 1
        /\ \A i \in DOMAIN wire' : i \in DOMAIN wire \/ i = Len(wire) + 1
    BY <2>3, AppendElements, AppendProperties
  <2>5. \A s \in Slots : Unsent(s)' <=> Unsent(s) /\ s # h
    BY <1>1, <2>1 DEF txSend, TxThread, Unsent, ringVars, dispVars
  <2>6. Distance(h, h) = 0 /\ Distance(NextSlot(h), h) = NumSlots - 1
    BY <1>0, DistanceFacts
  <2>7. /\ Outstanding \in 1 .. NumSlots /\ Outstanding' = Outstanding - 1
        /\ txData[h].id = executed[Len(wire) + 1]
        /\ Len(wire) + 1 \in DOMAIN executed
    <3>1. Outstanding \in 0 .. NumSlots /\ 0 < Outstanding
      BY <1>0, <2>1, <2>6 DEF ReplyQueue
    <3>2. Outstanding' = Outstanding - 1
      BY <1>0, <2>4 DEF Outstanding
    <3>3. Outstanding \in 1 .. NumSlots
      BY <3>1, NumSlotsAssumption
    <3>4. txData[h].id = executed[Len(wire) + 1 + 0]
      BY <1>0, <2>1, <2>6 DEF ReplyQueue
    <3>5. Len(wire) + 1 \in DOMAIN executed
      BY <1>0, <3>3 DEF Outstanding
    <3> QED
      BY <1>0, <3>2, <3>3, <3>4, <3>5
  <2>8. RepliesInPublishOrder'
    BY <1>0, <2>3, <2>4, <2>7 DEF RepliesInPublishOrder
  <2>9. Distance(NextSlot(h), NextToAnswer)
          = IF Outstanding - 1 = NumSlots THEN 0 ELSE Outstanding - 1
    <3>1. CASE NextToAnswer = h
      BY <1>0, <2>1, <2>6, <2>7, <3>1, NumSlotsAssumption DEF ReplyQueue
    <3>2. CASE NextToAnswer # h
      <4>1. /\ Distance(NextSlot(h), NextToAnswer) = Distance(h, NextToAnswer) - 1
            /\ Distance(h, NextToAnswer) # 0
        BY <1>0, <3>2, DistanceFacts
      <4> QED
        BY <1>0, <2>1, <2>7, <4>1, NumSlotsAssumption DEF ReplyQueue
    <3> QED
      BY <3>1, <3>2
  <2>10. \A s \in Slots : Unsent(s)' <=> Distance(NextSlot(h), s) < Outstanding - 1
    <3> SUFFICES ASSUME NEW s \in Slots
                 PROVE  Unsent(s)' <=> Distance(NextSlot(h), s) < Outstanding - 1
      OBVIOUS
    <3>1. CASE s = h
      BY <2>5, <2>6, <2>7, <3>1, NumSlotsAssumption
    <3>2. CASE s # h
      <4>1. /\ Distance(NextSlot(h), s) = Distance(h, s) - 1
            /\ Distance(h, s) \in Nat
        BY <1>0, <3>2, DistanceFacts
      <4> QED
        BY <2>1, <2>5, <2>7, <3>2, <4>1 DEF ReplyQueue
    <3> QED
      BY <3>1, <3>2
  <2>11. \A s \in Slots : Unsent(s)' =>
            txData[s].id = executed[Len(wire') + 1 + Distance(NextSlot(h), s)]
    <3> SUFFICES ASSUME NEW s \in Slots, Unsent(s)'
                 PROVE  txData[s].id
                          = executed[Len(wire') + 1 + Distance(NextSlot(h), s)]
      OBVIOUS
    <3>1. Unsent(s) /\ s # h
      BY <2>5
    <3>2. /\ Distance(NextSlot(h), s) = Distance(h, s) - 1
          /\ Distance(h, s) \in Nat
      BY <1>0, <3>1, DistanceFacts
    <3>3. Len(wire') + 1 + Distance(NextSlot(h), s) = Len(wire) + 1 + Distance(h, s)
      BY <1>0, <2>4, <3>2
    <3> QED
      BY <2>1, <3>1, <3>3 DEF ReplyQueue
  <2>12. Outstanding - 1 \in 0 .. NumSlots
    BY <2>7, NumSlotsAssumption
  <2>13. ReplyQueue'
    BY <1>0, <2>1, <2>7, <2>9, <2>10, <2>11, <2>12 DEF ReplyQueue
  <2> QED
    BY <2>8, <2>13
<1>2. CASE ~txSend
  <2>1. wire' = wire
    BY <1>2 DEF TxThread, txLoop, txLoad, txClear, txExit
  <2>2. \A s \in Slots : Unsent(s)' = Unsent(s)
    BY <1>2 DEF TxThread, txLoop, txLoad, txClear, txExit, Unsent, IInv, TypeOK,
        RingTypeOK, XcvrTypeOK, Handshake, Shipping, ringVars, dispVars
  <2>3. NextToShip' = NextToShip
    BY <1>2 DEF TxThread, txLoop, txLoad, txClear, txExit, NextToShip
  <2> QED
    BY <1>0, <2>1, <2>2, <2>3, ReplyQueueFrame
<1> QED
  BY <1>1, <1>2

LEMMA ReplyQueueDispatcher ==
  ASSUME IInv, Contiguous, OnlyServable, ReplyQueue, RepliesInPublishOrder,
         Dispatcher
  PROVE  ReplyQueue' /\ RepliesInPublishOrder'
<1>0. /\ UNCHANGED <<wire, txPc, txCursor>> /\ NextToShip' = NextToShip
      /\ NextToShip \in Slots /\ dCur \in Slots /\ dSlot \in Slots
      /\ executed \in Seq(Nat) /\ Len(executed) \in Nat /\ Len(wire) \in Nat
      /\ DOMAIN executed = 1 .. Len(executed)
  <2>1. UNCHANGED <<wire, txPc, txCursor>> /\ NextToShip' = NextToShip
    BY DEF Dispatcher, xcvrVars, txVars, NextToShip
  <2>2. NextToShip \in Slots /\ dCur \in Slots /\ dSlot \in Slots
    BY NextSlotType DEF IInv, TypeOK, XcvrTypeOK, DispTypeOK, NextToShip
  <2>3. executed \in Seq(Nat) /\ wire \in Seq(Sent(Replies))
    BY DEF IInv, TypeOK, XcvrTypeOK, DispTypeOK
  <2> QED
    BY <2>1, <2>2, <2>3, LenProperties
<1>a. /\ \A s \in Slots : Dispatching(s) => s = dCur /\ rxFlag[s] /\ Servable(rxData[s])
  BY DEF Contiguous, IInv, Handshake, OnlyServable
<1>1. CASE invokeHostCall
  <2> DEFINE h == NextToShip
             id == rxData[dSlot].id
  <2>1. /\ dPc = "invoke" /\ dSlot = dCur /\ Undecided(dSlot) /\ ~Unsent(dCur)
        /\ rxData[dSlot] \in Requests /\ rxData[dSlot].fn \notin NullHandlers
    BY <1>0, <1>1, <1>a DEF invokeHostCall, IInv, Handshake, Dispatching,
        Undecided, Unsent, PagesFilled, Servable
  <2>2. /\ executed' = Append(executed, id) /\ id \in Nat
        /\ txData' = [txData EXCEPT ![dCur] = [id |-> id]]
        /\ UNCHANGED <<txFlag, dCur, dSlot>> /\ dPc' = "publish"
        /\ txData \in [Slots -> Replies \cup {Zero}]
    BY <1>1, <2>1 DEF invokeHostCall, Reply, Requests, IInv, TypeOK, RingTypeOK
  <2> HIDE DEF id
  <2>3. /\ \A i \in DOMAIN executed : i \in DOMAIN executed' /\ executed'[i] = executed[i]
        /\ executed'[Len(executed) + 1] = id /\ Len(executed') = Len(executed) + 1
    BY <1>0, <2>2, AppendElements, AppendProperties
  <2>4. \A s \in Slots : Unsent(s)' <=> Unsent(s) \/ s = dCur
    BY <1>0, <2>1, <2>2 DEF Unsent
  <2>5. NextToAnswer = dCur /\ NextToAnswer' = NextSlot(dCur)
    BY <2>1, <2>2 DEF NextToAnswer
  <2>6. /\ Distance(h, dCur) = Outstanding /\ Outstanding \in 0 .. NumSlots - 1
        /\ Outstanding' = Outstanding + 1
        /\ Len(wire) + 1 + Outstanding = Len(executed) + 1
    <3>1. Distance(h, dCur) \in 0 .. NumSlots - 1
      BY <1>0, DistanceFacts
    <3>2. ~(Distance(h, dCur) < Outstanding)
      BY <1>0, <2>1 DEF ReplyQueue
    <3>3. /\ Outstanding \in 0 .. NumSlots
          /\ Distance(h, dCur) = IF Outstanding = NumSlots THEN 0 ELSE Outstanding
      BY <2>5 DEF ReplyQueue
    <3>4. Outstanding' = Outstanding + 1 /\ Len(wire) + 1 + Outstanding = Len(executed) + 1
      BY <1>0, <2>3 DEF Outstanding
    <3> QED
      BY <3>1, <3>2, <3>3, <3>4, NumSlotsAssumption
  <2>7. RepliesInPublishOrder'
    BY <1>0, <2>3 DEF RepliesInPublishOrder
  <2>8. Distance(h, NextSlot(dCur))
          = IF Outstanding + 1 = NumSlots THEN 0 ELSE Outstanding + 1
    <3>1. /\ NextSlot(dCur) = h <=> Distance(h, dCur) = NumSlots - 1
          /\ NextSlot(dCur) # h => Distance(h, NextSlot(dCur)) = Distance(h, dCur) + 1
          /\ Distance(h, h) = 0
      BY <1>0, DistanceFacts
    <3> QED
      BY <2>6, <3>1, NumSlotsAssumption
  <2>9. \A s \in Slots : Unsent(s)' <=> Distance(h, s) < Outstanding + 1
    <3> SUFFICES ASSUME NEW s \in Slots
                 PROVE  Unsent(s)' <=> Distance(h, s) < Outstanding + 1
      OBVIOUS
    <3>1. Distance(h, s) \in Nat /\ (Distance(h, s) = Distance(h, dCur) => s = dCur)
      BY <1>0, DistanceFacts
    <3>2. Unsent(s) <=> Distance(h, s) < Outstanding
      BY DEF ReplyQueue
    <3> QED
      BY <2>4, <2>6, <3>1, <3>2
  <2>10. \A s \in Slots : Unsent(s)' =>
            txData'[s].id = executed'[Len(wire) + 1 + Distance(h, s)]
    <3> SUFFICES ASSUME NEW s \in Slots, Unsent(s)'
                 PROVE  txData'[s].id = executed'[Len(wire) + 1 + Distance(h, s)]
      OBVIOUS
    <3>1. CASE s = dCur
      BY <1>0, <2>2, <2>3, <2>6, <3>1
    <3>2. CASE s # dCur
      <4>1. Unsent(s) /\ txData'[s] = txData[s]
        BY <2>2, <2>4, <3>2
      <4>2. Distance(h, s) \in Nat /\ Distance(h, s) < Outstanding
        BY <1>0, <4>1, DistanceFacts DEF ReplyQueue
      <4>3. Len(wire) + 1 + Distance(h, s) \in DOMAIN executed
        BY <1>0, <2>6, <4>2
      <4> QED
        BY <2>3, <4>1, <4>3 DEF ReplyQueue
    <3> QED
      BY <3>1, <3>2
  <2>11. Outstanding + 1 \in 0 .. NumSlots
    BY <2>6, NumSlotsAssumption
  <2> QED
    BY <1>0, <2>5, <2>6, <2>7, <2>8, <2>9, <2>10, <2>11 DEF ReplyQueue
<1>2. CASE ~invokeHostCall
  <2>1. UNCHANGED <<executed, txData>>
    BY <1>2 DEF Dispatcher, ringDispatchLoop, pollRequest, pollScan, pollProbe, pollReload,
        checkHeader, sendResponse, retireRequest, exitLoop, ringVars
  <2>2. \A s \in Slots : Unsent(s)' = Unsent(s)
    <3> USE <1>0 DEF Unsent, IInv, TypeOK, RingTypeOK, XcvrTypeOK, DispTypeOK,
          Handshake, Dispatching, Shipping, ringVars
    <3>1. CASE pollRequest \/ pollReload \/ exitLoop
      BY <3>1 DEF pollRequest, pollReload, exitLoop
    <3>2. CASE pollScan \/ pollProbe
      BY <3>2, SoleDispatcher DEF pollScan, pollProbe
    <3>3. CASE checkHeader
      BY <3>3 DEF checkHeader, Retire
    <3>4. CASE sendResponse
      BY <3>4 DEF sendResponse, Retire
    <3>5. CASE retireRequest
      BY <3>5, SoleDispatcher DEF retireRequest
    <3> QED
      BY <1>2, <3>1, <3>2, <3>3, <3>4, <3>5 DEF Dispatcher, ringDispatchLoop
  <2>3. NextToAnswer' = NextToAnswer
    <3> USE DEF NextToAnswer
    <3>1. CASE pollRequest \/ exitLoop
      BY <3>1 DEF pollRequest, exitLoop
    <3>2. CASE pollScan \/ pollProbe \/ pollReload
      BY <3>2, SoleDispatcher DEF pollScan, pollProbe, pollReload, IInv, Handshake
    <3>3. CASE checkHeader
      <4>1. Servable(rxData[dSlot])
        BY <1>0, <1>a, <3>3 DEF checkHeader, Dispatching
      <4> QED
        BY <3>3, <4>1 DEF checkHeader, Servable
    <3>4. CASE sendResponse
      BY <3>4 DEF sendResponse, Retire
    <3>5. CASE retireRequest
      <4>1. dSlot = dCur
        BY <1>0, <1>a, <3>5 DEF retireRequest, Dispatching
      <4> QED
        BY <3>5, <4>1 DEF retireRequest
    <3> QED
      BY <1>2, <3>1, <3>2, <3>3, <3>4, <3>5 DEF Dispatcher, ringDispatchLoop
  <2> QED
    BY <1>0, <2>1, <2>2, <2>3, ReplyQueueFrame
<1> QED
  BY <1>1, <1>2

LEMMA ReplyQueueNext ==
  ASSUME AllServable, IInv, Contiguous, OnlyServable, ReplyQueue,
         RepliesInPublishOrder, [Next]_vars
  PROVE  OnlyServable' /\ ReplyQueue' /\ RepliesInPublishOrder'
<1>1. OnlyServable'
  BY OnlyServableNext DEF IInv
<1>2. CASE Arrive \/ Owner \/ RxThread
  BY <1>1, <1>2, ReplyQueueOutside DEF IInv
<1>3. CASE TxThread
  BY <1>1, <1>3, ReplyQueueTx
<1>4. CASE Dispatcher
  BY <1>1, <1>4, ReplyQueueDispatcher
<1>5. CASE UNCHANGED vars
  <2>1. UNCHANGED <<executed, wire, txData, txFlag, txPc, txCursor, dPc, dSlot, dCur>>
    BY <1>5 DEF vars, xcvrVars, txVars, ringVars, dispVars
  <2>2. /\ UNCHANGED <<NextToShip, NextToAnswer>>
        /\ \A s \in Slots : Unsent(s)' = Unsent(s)
    BY <2>1 DEF NextToShip, NextToAnswer, Unsent
  <2> QED
    BY <1>1, <2>1, <2>2, ReplyQueueFrame
<1> QED
  BY <1>2, <1>3, <1>4, <1>5 DEF Next

(* When every datagram that fits is one the function table answers, txLoop *)
(* sends the replies in exactly the order in which the handlers ran.       *)
THEOREM ServiceRepliesInPublishOrder ==
  ASSUME AllServable PROVE Spec => []RepliesInPublishOrder
<1>1. Init => OnlyServable /\ ReplyQueue /\ RepliesInPublishOrder
  BY ReplyQueueInit
<1>2. IInv /\ (Contiguous /\ InOrder)
        /\ (OnlyServable /\ ReplyQueue /\ RepliesInPublishOrder) /\ [Next]_vars
         => (OnlyServable /\ ReplyQueue /\ RepliesInPublishOrder)'
  BY ReplyQueueNext
<1> QED
  BY <1>1, <1>2, ServiceInvariant, ServiceRingIsQueue, PTL DEF Spec

=============================================================================
