--------------------------- MODULE UdpTransceiver ---------------------------
(***************************************************************************)
(* UdpTransceiver (realtime/lib/cpu_transport/udp_transceiver.cpp): one    *)
(* socket, the four ring arrays, and the code that moves datagrams between *)
(* them.  In the threaded shape an RX thread (rxLoop) and a TX thread      *)
(* (txLoop) do so; in the unified shape the consumer's thread calls the    *)
(* hooks rxPoll and txPublish.  A flag load, a flag store, a page copy and *)
(* a socket call are one step each, so that every interleaving of the two  *)
(* threads with the ring's consumer is a behaviour.                        *)
(*                                                                         *)
(* `sock' is the receive queue of the socket and `wire' everything sent on *)
(* it: the network itself belongs to the modules that use this one.        *)
(***************************************************************************)
EXTENDS Ring

CONSTANTS
    Addresses,  \* the source addresses a datagram can come from
    NoPeer      \* have_peer = false

ASSUME NoPeerAssumption == NoPeer \notin Addresses

VARIABLES
    unified,    \* the shape, chosen before start()
    fd,         \* the socket: open, open with close() in its joins, closed
    running,
    sock,       \* datagrams received by the socket and not yet read
    wire,       \* datagrams sent, oldest first
    peer,       \* peer_addr: source of the most recent inbound datagram
    rxPc, rxBuf, rxNext,    \* rxLoop: program point, buffer, next_slot
    txPc, txCursor          \* txLoop: program point, cursor

rxVars == <<rxPc, rxBuf, rxNext>>
txVars == <<txPc, txCursor>>
xcvrVars == <<unified, fd, running, sock, wire, peer, rxVars, txVars>>

(* A datagram that arrives.  `fits' is false when it is longer than        *)
(* page_size, the slot stride of this end.                                 *)
Datagrams(frames) == [from : Addresses, body : frames, fits : BOOLEAN]
Sent(frames) == [to : Addresses, body : frames \cup {Zero}]

XcvrTypeOK(rxFrames, txFrames) ==
    /\ unified \in BOOLEAN /\ running \in BOOLEAN
    /\ fd \in {"open", "joining", "closed"}
    /\ sock \in Seq(Datagrams(rxFrames)) /\ wire \in Seq(Sent(txFrames))
    /\ peer \in Addresses \cup {NoPeer}
    /\ rxPc \in {"off", "recv", "loadRx", "loadTx", "copy", "flag", "done"}
    /\ rxBuf \in rxFrames \cup {Zero} /\ rxNext \in Slots
    /\ txPc \in {"off", "load", "send", "clear", "done"} /\ txCursor \in Slots

(* A transceiver whose socket is bound (peer unknown) or connected.  In    *)
(* the unified shape rxNext is the member next_rx_slot.                    *)
XcvrInit(isUnified, knownPeer) ==
    /\ unified = isUnified /\ fd = "open" /\ running = FALSE
    /\ sock = << >> /\ wire = << >> /\ peer = knownPeer
    /\ rxPc = "off" /\ rxBuf = Zero /\ rxNext = 0
    /\ txPc = "off" /\ txCursor = 0

-----------------------------------------------------------------------------
(* Lifecycle.                                                              *)

start ==
    /\ fd = "open" /\ ~running
    /\ running' = TRUE
    /\ rxPc' = IF unified THEN "off" ELSE "recv"
    /\ txPc' = IF unified THEN "off" ELSE "load"
    /\ UNCHANGED <<unified, fd, sock, wire, peer, rxBuf, rxNext, txCursor>>
    /\ UNCHANGED ringVars

(* close() up to the joins: the threads see `running' fall one by one.     *)
close ==
    /\ fd = "open" /\ fd' = "joining"
    /\ running' = FALSE
    /\ UNCHANGED <<unified, sock, wire, peer, rxVars, txVars>>
    /\ UNCHANGED ringVars

(* close() once both threads are joined: the socket is closed and what it  *)
(* had queued is gone.                                                     *)
closeSocket ==
    /\ fd = "joining"
    /\ rxPc \in {"off", "done"} /\ txPc \in {"off", "done"}
    /\ fd' = "closed" /\ sock' = << >>
    /\ UNCHANGED <<unified, running, wire, peer, rxVars, txVars>>
    /\ UNCHANGED ringVars

-----------------------------------------------------------------------------
(* rxLoop: one datagram to one RX slot, in ring order.                     *)

rxVars1 == <<unified, fd, running, wire, txVars>>

(* recvfrom returns a datagram; an oversize one is dropped.  Otherwise the *)
(* peer is updated before the slot is waited for.                          *)
rxRecv ==
    /\ rxPc = "recv" /\ running /\ sock # << >>
    /\ sock' = Tail(sock)
    /\ IF Head(sock).fits
          THEN /\ peer' = Head(sock).from
               /\ rxBuf' = Head(sock).body
               /\ rxPc' = "loadRx"
          ELSE UNCHANGED <<peer, rxBuf, rxPc>>
    /\ UNCHANGED <<rxNext, rxVars1>> /\ UNCHANGED ringVars

(* The wait loads the RX flag first and the TX flag only if that is clear. *)
rxLoadRx ==
    /\ rxPc = "loadRx" /\ running /\ ~rxFlag[rxNext]
    /\ rxPc' = "loadTx"
    /\ UNCHANGED <<sock, peer, rxBuf, rxNext, rxVars1>> /\ UNCHANGED ringVars

(* Mutant of rxLoadTx: the TX half of the slot is not waited for.          *)
rxLoadTxSkipped ==
    /\ rxPc = "loadTx"
    /\ rxPc' = "copy"
    /\ UNCHANGED <<sock, peer, rxBuf, rxNext, rxVars1>> /\ UNCHANGED ringVars

rxLoadTx ==
    /\ rxPc = "loadTx"
    /\ rxPc' = IF txFlag[rxNext] THEN "loadRx" ELSE "copy"
    /\ UNCHANGED <<sock, peer, rxBuf, rxNext, rxVars1>> /\ UNCHANGED ringVars

rxCopy ==
    /\ rxPc = "copy" /\ running
    /\ rxData' = [rxData EXCEPT ![rxNext] = rxBuf]
    /\ rxPc' = "flag"
    /\ UNCHANGED <<sock, peer, rxBuf, rxNext, rxVars1>>
    /\ UNCHANGED <<rxFlag, txFlag, txData>>

rxPublish ==
    /\ rxPc = "flag"
    /\ rxFlag' = [rxFlag EXCEPT ![rxNext] = TRUE]
    /\ rxNext' = NextSlot(rxNext) /\ rxPc' = "recv"
    /\ UNCHANGED <<sock, peer, rxBuf, rxVars1>>
    /\ UNCHANGED <<txFlag, rxData, txData>>

(* The three tests of `running': the datagram in the buffer is lost.       *)
rxExit ==
    /\ rxPc \in {"recv", "loadRx", "copy"} /\ ~running
    /\ rxPc' = "done"
    /\ UNCHANGED <<sock, peer, rxBuf, rxNext, rxVars1>> /\ UNCHANGED ringVars

rxLoop == rxRecv \/ rxLoadRx \/ rxLoadTx \/ rxCopy \/ rxPublish \/ rxExit

-----------------------------------------------------------------------------
(* txLoop: published TX slots to the peer, in cursor order.                *)

txVars1 == <<unified, fd, running, sock, peer, rxVars>>

(* Mutant of txLoad: the lowest published slot is taken, an index scan.    *)
txLoadScan ==
    /\ txPc = "load" /\ running
    /\ \E s \in Slots : /\ txFlag[s] /\ \A t \in Slots : txFlag[t] => s <= t
                        /\ txCursor' = s
    /\ txPc' = "send"
    /\ UNCHANGED <<wire, txVars1>> /\ UNCHANGED ringVars

txLoad ==
    /\ txPc = "load" /\ running /\ txFlag[txCursor]
    /\ txPc' = "send"
    /\ UNCHANGED <<txCursor, wire, txVars1>> /\ UNCHANGED ringVars

Ship(s) ==
    IF peer # NoPeer THEN Append(wire, [to |-> peer, body |-> txData[s]])
                     ELSE wire

txSend ==
    /\ txPc = "send"
    /\ wire' = Ship(txCursor)
    /\ txPc' = "clear"
    /\ UNCHANGED <<txCursor, txVars1>> /\ UNCHANGED ringVars

(* Mutants of txClear: the slot is not recycled; the cursor stays behind.  *)
txClearKeep ==
    /\ txPc = "clear"
    /\ txCursor' = NextSlot(txCursor) /\ txPc' = "load"
    /\ UNCHANGED <<wire, txVars1>> /\ UNCHANGED ringVars
txClearStay ==
    /\ txPc = "clear"
    /\ txFlag' = [txFlag EXCEPT ![txCursor] = FALSE]
    /\ txPc' = "load"
    /\ UNCHANGED <<txCursor, wire, txVars1>> /\ UNCHANGED <<rxFlag, rxData, txData>>

txClear ==
    /\ txPc = "clear"
    /\ txFlag' = [txFlag EXCEPT ![txCursor] = FALSE]
    /\ txCursor' = NextSlot(txCursor) /\ txPc' = "load"
    /\ UNCHANGED <<wire, txVars1>> /\ UNCHANGED <<rxFlag, rxData, txData>>

txExit ==
    /\ txPc = "load" /\ ~running
    /\ txPc' = "done"
    /\ UNCHANGED <<txCursor, wire, txVars1>> /\ UNCHANGED ringVars

txLoop == txLoad \/ txSend \/ txClear \/ txExit

-----------------------------------------------------------------------------
(* The hooks of the unified shape, called by the consumer's one thread.    *)

(* rxPoll finds slot rxNext free and a datagram queued.  An oversize one   *)
(* is consumed but not reported, its prefix left in the page.              *)
rxPollReady == unified /\ fd # "closed" /\ ~txFlag[rxNext] /\ sock # << >>

(* Mutants of rxPollTake: the first peer is kept for good; the datagram is *)
(* read without being consumed.                                            *)
rxPollTakeFirstPeer ==
    /\ rxPollReady /\ Head(sock).fits
    /\ sock' = Tail(sock)
    /\ rxData' = [rxData EXCEPT ![rxNext] = Head(sock).body]
    /\ peer' = IF peer = NoPeer THEN Head(sock).from ELSE peer
    /\ rxNext' = NextSlot(rxNext)
    /\ UNCHANGED <<unified, fd, running, wire, rxPc, rxBuf, txVars>>
    /\ UNCHANGED <<rxFlag, txFlag, txData>>
rxPollTakePeek ==
    /\ rxPollReady /\ Head(sock).fits
    /\ rxData' = [rxData EXCEPT ![rxNext] = Head(sock).body]
    /\ peer' = Head(sock).from
    /\ rxNext' = NextSlot(rxNext)
    /\ UNCHANGED <<unified, fd, running, sock, wire, rxPc, rxBuf, txVars>>
    /\ UNCHANGED <<rxFlag, txFlag, txData>>

rxPollTake ==
    /\ rxPollReady /\ Head(sock).fits
    /\ sock' = Tail(sock)
    /\ rxData' = [rxData EXCEPT ![rxNext] = Head(sock).body]
    /\ peer' = Head(sock).from
    /\ rxNext' = NextSlot(rxNext)
    /\ UNCHANGED <<unified, fd, running, wire, rxPc, rxBuf, txVars>>
    /\ UNCHANGED <<rxFlag, txFlag, txData>>

rxPollOversize ==
    /\ rxPollReady /\ ~Head(sock).fits
    /\ sock' = Tail(sock)
    /\ rxData' = [rxData EXCEPT ![rxNext] = Head(sock).body]
    /\ UNCHANGED <<unified, fd, running, wire, peer, rxVars, txVars>>
    /\ UNCHANGED <<rxFlag, txFlag, txData>>

(* Mutant of txPublish: it ships only a page whose TX flag is raised.      *)
txPublishFlagged(s, sent) ==
    /\ wire' = IF txFlag[s] /\ sent THEN Ship(s) ELSE wire
    /\ UNCHANGED <<unified, fd, running, sock, peer, rxVars, txVars>>
    /\ UNCHANGED ringVars

(* txPublish ships one TX page; it leaves tx_flags alone.  sent: sendto    *)
(* takes the datagram, which is all that its result says.                  *)
txPublish(s, sent) ==
    /\ wire' = IF unified /\ fd # "closed" /\ sent THEN Ship(s) ELSE wire
    /\ UNCHANGED <<unified, fd, running, sock, peer, rxVars, txVars>>
    /\ UNCHANGED ringVars

=============================================================================
