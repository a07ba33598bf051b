-------------------------------- MODULE Ring --------------------------------
(***************************************************************************)
(* The flag-and-page ring that the realtime components share               *)
(* (cudaq_ringbuffer_t).  A slot has an RX page and a TX page, each guarded *)
(* by one atomic word: zero means free, any other value is the address of  *)
(* the page ("address-as-flag").  Only zero and the slot's own page address *)
(* are ever stored, so a flag is a Boolean here.                           *)
(***************************************************************************)
EXTENDS Naturals, Sequences, FiniteSets

CONSTANTS
    NumSlots,   \* cudaq_dispatcher_config_t.num_slots, UdpTransceiver.num_pages
    Zero        \* a zero-filled page

ASSUME NumSlotsAssumption == NumSlots \in Nat \ {0}

VARIABLES
    rxFlag,     \* rx_flags[slot] # 0
    txFlag,     \* tx_flags[slot] # 0
    rxData,     \* the RX pages
    txData      \* the TX pages

ringVars == <<rxFlag, txFlag, rxData, txData>>

Slots == 0 .. NumSlots - 1

(* Mutant of NextSlot: the cursor does not wrap.                           *)
NextSlotNoWrap(s) == s + 1

(* Every cursor over the ring advances this way.                           *)
NextSlot(s) == (s + 1) % NumSlots

(* Steps of a cursor from slot c to slot s, round the ring.                *)
Distance(c, s) == IF s >= c THEN s - c ELSE s + NumSlots - c

(* rxFrames and txFrames: the frames the two kinds of page can hold.       *)
RingTypeOK(rxFrames, txFrames) ==
    /\ rxFlag \in [Slots -> BOOLEAN]
    /\ txFlag \in [Slots -> BOOLEAN]
    /\ rxData \in [Slots -> rxFrames \cup {Zero}]
    /\ txData \in [Slots -> txFrames \cup {Zero}]

RingInit ==
    /\ rxFlag = [s \in Slots |-> FALSE]
    /\ txFlag = [s \in Slots |-> FALSE]
    /\ rxData = [s \in Slots |-> Zero]
    /\ txData = [s \in Slots |-> Zero]

=============================================================================
