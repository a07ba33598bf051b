----------------------------- MODULE RpcServer ------------------------------
(***************************************************************************)
(* What a realtime service promises its clients, whichever transport shape *)
(* carries it: requests are served one at a time in the order in which     *)
(* they arrived; serving one removes it for good and makes one reply       *)
(* ready; a ready reply is sent once.  A request may also be discarded     *)
(* unserved (too long for a slot, not a request, not in the table, or the  *)
(* service is stopping).  Replies may leave in any order, and where a send *)
(* may fail, the reply it was for is lost and no other.                    *)
(***************************************************************************)
EXTENDS Naturals, Sequences

CONSTANTS
    Answer(_),      \* the reply to a request
    SendMayFail     \* the socket may refuse a reply

VARIABLES
    accepted,   \* number of requests that have arrived
    pending,    \* those not yet served or discarded
    ready,      \* replies made and not yet sent
    replies     \* replies sent, oldest first

Init ==
    /\ accepted = 0 /\ pending = {} /\ ready = {} /\ replies = << >>

Accept ==
    /\ accepted' = accepted + 1
    /\ \E r \in pending' :
          r.id = accepted + 1 /\ pending' = pending \cup {r}
    /\ UNCHANGED <<ready, replies>>

Serve ==
    /\ \E r \in pending :
          /\ \A q \in pending : r.id <= q.id
          /\ pending' = pending \ {r}
          /\ Answer(r) \notin ready
          /\ ready' = ready \cup {Answer(r)}
    /\ UNCHANGED <<accepted, replies>>

Discard ==
    /\ pending' \in SUBSET pending
    /\ UNCHANGED <<accepted, ready, replies>>

Send ==
    /\ \E a \in ready : /\ ready' = ready \ {a}
                        /\ replies' = Append(replies, a)
    /\ UNCHANGED <<accepted, pending>>

Lose ==
    /\ SendMayFail
    /\ \E a \in ready : ready' = ready \ {a}
    /\ UNCHANGED <<accepted, pending, replies>>

Next == Accept \/ Serve \/ Discard \/ Send \/ Lose

Spec == Init /\ [][Next]_<<accepted, pending, ready, replies>>

=============================================================================
