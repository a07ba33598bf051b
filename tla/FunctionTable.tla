--------------------------- MODULE FunctionTable ----------------------------
(***************************************************************************)
(* What every dispatcher of a ring reads: the function table, the requests *)
(* that name its entries and the mode the dispatchers share the ring in.   *)
(***************************************************************************)
EXTENDS Ring

CONSTANTS
    FunctionIds,    \* the function ids requests can name
    Table,          \* function table: id -> dispatch mode, on a subset
    NullHandlers,   \* entries registered without a handler
    SharedRing      \* config.shared_ring_mode

Modes == {"HOST_CALL", "DEVICE_CALL", "GRAPH_LAUNCH"}

(* Without an entry the dispatch loop returns at once.                     *)
ASSUME TableAssumption ==
    /\ \E D \in (SUBSET FunctionIds) \ {{}} : Table \in [D -> Modes]
    /\ NullHandlers \subseteq DOMAIN Table
    /\ SharedRing \in BOOLEAN

(* A request page: magic says that it starts with RPC_MAGIC_REQUEST.       *)
Requests == [id : Nat, magic : BOOLEAN, fn : FunctionIds]
Replies == [id : Nat]

(* What a handler writes for a request: RPCResponse echoes request_id.     *)
Reply(r) == [id |-> r.id]

lookupFunction(r) == r.fn \in DOMAIN Table
IsHostCall(r) == lookupFunction(r) /\ Table[r.fn] = "HOST_CALL"

IsDeviceCall(r) == lookupFunction(r) /\ Table[r.fn] = "DEVICE_CALL"

IsGraphLaunch(r) == lookupFunction(r) /\ Table[r.fn] = "GRAPH_LAUNCH"

(* A request a host loop runs a handler for.                               *)
Servable(r) == r.magic /\ IsHostCall(r) /\ r.fn \notin NullHandlers

=============================================================================
