------------------------- MODULE UdpUnifiedService --------------------------
(***************************************************************************)
(* The same service in the unified shape (cudaq_host_unified_loop): no     *)
(* transport threads, the dispatch loop's one thread receives, runs the    *)
(* handler and sends through the transceiver's hooks (UnifiedTransport).   *)
(***************************************************************************)
EXTENDS UdpTransceiver, HostDispatcher

CONSTANTS
    MaxArrivals,    \* bound: datagrams that reach the socket
    Arriving        \* the kinds of datagram that do: [magic, fn, fits]

ASSUME ArrivingAssumption ==
    /\ MaxArrivals \in Nat
    /\ \A k \in Arriving :
          k.magic \in BOOLEAN /\ k.fn \in FunctionIds /\ k.fits \in BOOLEAN

VARIABLES
    origin,     \* history: who sent the n-th datagram that arrived
    refused     \* history: the ids of the replies that sendto refused

unifiedVars == <<origin, refused, xcvrVars, ringVars, shutdown, dispVars>>

UnifiedInit ==
    /\ origin = << >> /\ refused = {}
    /\ RingInit /\ XcvrInit(TRUE, NoPeer) /\ DispInit

unifiedArrive ==
    /\ Len(origin) < MaxArrivals /\ fd # "closed"
    /\ \E k \in Arriving, a \in Addresses :
          /\ origin' = Append(origin, a)
          /\ sock' = Append(sock, [from |-> a, fits |-> k.fits,
                       body |-> [id |-> Len(origin) + 1, magic |-> k.magic,
                                 fn |-> k.fn]])
    /\ UNCHANGED <<unified, fd, running, wire, peer, rxVars, txVars>>
    /\ UNCHANGED <<ringVars, shutdown, dispVars, refused>>

-----------------------------------------------------------------------------
(* UnifiedTransport and the loop around it.                                *)

(* poll_request: the slot rxPoll reports is the one it has just filled.    *)
unifiedPoll ==
    /\ dPc = "poll" /\ ~shutdown
    /\ rxPollTake
    /\ dSlot' = rxNext /\ dPc' = "header"
    /\ UNCHANGED <<dCur, dOutcome, dCount, stats, executed, shutdown, origin, refused>>

unifiedPollOversize ==
    /\ dPc = "poll" /\ ~shutdown
    /\ rxPollOversize
    /\ UNCHANGED <<dispVars, shutdown, origin, refused>>

(* send_response: a failed publish is ignored and counted all the same.    *)
unifiedSend ==
    /\ dPc = "publish"
    /\ \E sent \in BOOLEAN :
         /\ txPublish(dSlot, sent)
         /\ refused' = IF sent THEN refused ELSE refused \cup {rxData[dSlot].id}
    /\ dCount' = dCount + 1
    /\ Retire("Handled")
    /\ UNCHANGED <<dCur, dSlot, stats, executed, shutdown, origin>>

(* retire_request has nothing to reclaim.                                  *)
unifiedRetire ==
    /\ dPc = "retire" /\ dPc' = "poll"
    /\ UNCHANGED <<dCur, dSlot, dOutcome, dCount, stats, executed>>
    /\ UNCHANGED <<shutdown, xcvrVars, ringVars, origin, refused>>

unifiedCore ==
    /\ checkHeader \/ invokeHostCall \/ exitLoop
    /\ UNCHANGED <<xcvrVars, origin, refused>>

unifiedLoop ==
    unifiedPoll \/ unifiedPollOversize \/ unifiedCore \/ unifiedSend
      \/ unifiedRetire

(* The owner stops the loop before it closes the socket the loop drives,   *)
(* as udp_wrapper.h requires of it.                                        *)
unifiedOwner ==
    /\ \/ start /\ UNCHANGED <<shutdown, dispVars>>
       \/ dPc = "exit" /\ (close \/ closeSocket) /\ UNCHANGED <<shutdown, dispVars>>
       \/ raiseShutdown /\ UNCHANGED xcvrVars
    /\ UNCHANGED <<origin, refused>>

UnifiedNext == unifiedArrive \/ unifiedLoop \/ unifiedOwner

UnifiedSpec == UnifiedInit /\ [][UnifiedNext]_unifiedVars /\ WF_unifiedVars(unifiedLoop)

-----------------------------------------------------------------------------

(* Type correctness.                                                       *)
UnifiedTypeOK ==
    /\ origin \in Seq(Addresses) /\ refused \subseteq Nat
    /\ RingTypeOK(Requests, Replies)
    /\ XcvrTypeOK(Requests, Replies)
    /\ DispTypeOK

(* Each reply goes to the client whose request it answers, although the    *)
(* transceiver only remembers the most recent sender: one thread means no  *)
(* datagram can be received between a request and its reply.               *)
ReplyToRequester ==
    \A i \in DOMAIN wire : wire[i].to = origin[wire[i].body.id]

(* Replies leave in arrival order and at most once each, whatever is       *)
(* dropped between them.                                                   *)
RepliesInArrivalOrder ==
    \A i, j \in DOMAIN wire : i < j => wire[i].body.id < wire[j].body.id

(* What is sent is right: a reply goes to the client that asked, in the    *)
(* order of arrival and once, out of well-typed state.                     *)
RepliesRight == UnifiedTypeOK /\ ReplyToRequester /\ RepliesInArrivalOrder

(* Every servable datagram that fits is answered unless the service is     *)
(* stopped or the socket refuses this very reply: no drop and no failed    *)
(* publish in front of it can hold its reply back.                         *)
EveryCallAnswered ==
    \A n \in 1 .. MaxArrivals :
        (\E i \in DOMAIN sock : /\ sock[i].body.id = n
                                /\ sock[i].fits /\ Servable(sock[i].body))
            ~> ((\E i \in DOMAIN wire : wire[i].body.id = n)
                \/ n \in refused \/ shutdown)

-----------------------------------------------------------------------------
(* The inductive invariant behind RepliesRight.                            *)

(* The loop's thread is between poll_request and the end of send_response. *)
Handling == dPc \in {"header", "invoke", "publish"}

(* The loop stops before the socket under it is closed.                    *)
HooksOpen == unified /\ (dPc # "exit" => fd # "closed")

(* Requests wait in the order of their arrival, with their sender; the one *)
(* being handled came before them, from the peer.                          *)
QueueInOrder ==
    /\ \A i \in DOMAIN sock : /\ sock[i].body.id \in DOMAIN origin
                              /\ origin[sock[i].body.id] = sock[i].from
    /\ \A i, j \in DOMAIN sock : i < j => sock[i].body.id < sock[j].body.id
    /\ Handling =>
          /\ rxData[dSlot] \in Requests
          /\ rxData[dSlot].id \in DOMAIN origin
          /\ origin[rxData[dSlot].id] = peer
          /\ \A i \in DOMAIN sock : rxData[dSlot].id < sock[i].body.id
    /\ dPc = "publish" => txData[dSlot] = Reply(rxData[dSlot])

(* What was sent answers requests older than any that is still to come.    *)
SentBefore ==
    \A i \in DOMAIN wire :
        /\ wire[i].body \in Replies
        /\ wire[i].body.id \in DOMAIN origin
        /\ \A j \in DOMAIN sock : wire[i].body.id < sock[j].body.id
        /\ Handling => wire[i].body.id < rxData[dSlot].id

UnifiedInv == RepliesRight /\ HooksOpen /\ QueueInOrder /\ SentBefore

-----------------------------------------------------------------------------
(* The single thread implements the service of RpcServer.                  *)

Accepted == Len(origin)
Pending == {sock[i].body : i \in DOMAIN sock}
             \cup (IF dPc \in {"header", "invoke"} THEN {rxData[dSlot]} ELSE {})
Ready == IF dPc = "publish" THEN {txData[dSlot]} ELSE {}
SentReplies == [i \in DOMAIN wire |-> wire[i].body]

Abstract == INSTANCE RpcServer WITH
    Answer <- Reply, SendMayFail <- TRUE,
    accepted <- Accepted,
    pending <- Pending,
    ready <- Ready,
    replies <- SentReplies

(* Refinement: the single thread implements the same service as the three  *)
(* threads.                                                                *)
ImplementsRpcServer == Abstract!Spec

=============================================================================
