--------------------------- MODULE BridgeRegistry ---------------------------
(***************************************************************************)
(* Transport bridges: the process-wide registry behind the cudaq_bridge_*  *)
(* calls (daemon/bridge/bridge_interface_api.cpp) and the lifecycle of the *)
(* providers it loads.  create and destroy hold the registry's lock for    *)
(* their whole duration; every other call looks its handle up under the    *)
(* shared lock, drops it, and only then enters the provider, which may     *)
(* block there.                                                            *)
(***************************************************************************)
EXTENDS Naturals, FiniteSets

CONSTANTS
    Managers,       \* threads that call cudaq_bridge_*
    Handles,        \* addresses of bridge contexts; freed ones come back
    None

(* The providers of this repository, and one from outside that replaces    *)
(* the dispatch loop.                                                      *)
Libraries == {"udp", "cpu_roce", "gpu_roce", "external"}

VARIABLES
    loaded,         \* provider_interface_map: libraries
    registry,       \* bridge_handle_interface_map: handle to library
    bridges,        \* the contexts behind the handles, None when freed
    mPc, mOp, mBridge,  \* what each manager is doing, to which handle
    aborted         \* a joinable std::thread was destroyed

registryVars == <<loaded, registry, bridges, mPc, mOp, mBridge, aborted>>

(* What a bridge is created as.  fpga: cpu_roce with --qp_config=hsb_fpga. *)
Setups == [lib : Libraries, unified : BOOLEAN, slots : Nat, fpga : BOOLEAN]

(* A provider's context.  launched: its I/O threads have been started;     *)
(* listening: the rendezvous socket is open; io: the transceiver is.       *)
Context(b) ==
    [lib |-> b.lib, unified |-> b.unified, slots |-> b.slots, fpga |-> b.fpga,
     listening |-> ~b.fpga, connected |-> FALSE, launched |-> FALSE, io |-> "open"]

Contexts == [lib : Libraries, unified : BOOLEAN, slots : Nat, fpga : BOOLEAN,
             listening : BOOLEAN, connected : BOOLEAN, launched : BOOLEAN,
             io : {"open", "closed"}]

(* A freed context and a handle nobody registered are neither.             *)
ASSUME RegistryAssumption == None \notin Handles \cup Libraries \cup Contexts

RegistryTypeOK ==
    /\ loaded \subseteq Libraries
    /\ registry \in [Handles -> Libraries \cup {None}]
    /\ bridges \in [Handles -> Contexts \cup {None}]
    /\ mPc \in [Managers -> {"idle", "lock", "found", "callback", "accept", "spawn", "join"}]
    /\ mOp \in [Managers -> {"create", "destroy", "connect", "launch", "disconnect", None}]
    /\ mBridge \in [Managers -> Handles \cup {None}] /\ aborted \in BOOLEAN

RegistryInit ==
    /\ loaded = {} /\ registry = [h \in Handles |-> None]
    /\ bridges = [h \in Handles |-> None]
    /\ mPc = [m \in Managers |-> "idle"] /\ mOp = [m \in Managers |-> None]
    /\ mBridge = [m \in Managers |-> None] /\ aborted = FALSE

Live(h) == bridges[h] # None

(* gpu_roce still owns a monitor thread that nobody has joined.            *)
Unjoined(h) == Live(h) /\ bridges[h].lib = "gpu_roce" /\ bridges[h].launched

(* Mutant of SharedHolders: the lock is kept while the provider runs.      *)
SharedHoldersLong == {m \in Managers : mPc[m] \notin {"idle", "lock"}}

(* Who holds bridge_interface_mutex shared: find_interface, until it       *)
(* returns.                                                                *)
SharedHolders == {m \in Managers : mPc[m] = "found"}

Returned(m) ==
    /\ mPc' = [mPc EXCEPT ![m] = "idle"] /\ mOp' = [mOp EXCEPT ![m] = None]
    /\ mBridge' = [mBridge EXCEPT ![m] = None]

-----------------------------------------------------------------------------
(* create and destroy wait for the lock, and hold it to their end.         *)

callExclusive(m, o, h) ==
    /\ mPc[m] = "idle" /\ mPc' = [mPc EXCEPT ![m] = "lock"]
    /\ mOp' = [mOp EXCEPT ![m] = o] /\ mBridge' = [mBridge EXCEPT ![m] = h]
    /\ UNCHANGED <<loaded, registry, bridges, aborted>>

Exclusive(m, o) == mPc[m] = "lock" /\ mOp[m] = o /\ SharedHolders = {}

(* cudaq_bridge_create_from_library.  A library that does not load, or     *)
(* whose interface has another version, changes nothing; one whose create  *)
(* fails stays loaded.                                                     *)
createFails(m, lib) ==
    /\ Exclusive(m, "create")
    /\ loaded' \in {loaded, loaded \cup {lib}}
    /\ Returned(m) /\ UNCHANGED <<registry, bridges, aborted>>

(* Mutant of create: the handle is registered by the first load only.      *)
createFirst(m, b) ==
    /\ Exclusive(m, "create")
    /\ loaded' = loaded \cup {b.lib}
    /\ \E h \in Handles :
         /\ ~Live(h)
         /\ bridges' = [bridges EXCEPT ![h] = Context(b)]
         /\ registry' = IF b.lib \in loaded THEN registry
                                            ELSE [registry EXCEPT ![h] = b.lib]
    /\ Returned(m) /\ UNCHANGED aborted

create(m, b) ==
    /\ Exclusive(m, "create")
    /\ loaded' = loaded \cup {b.lib}
    /\ \E h \in Handles :
         /\ ~Live(h)
         /\ bridges' = [bridges EXCEPT ![h] = Context(b)]
         /\ registry' = [registry EXCEPT ![h] = b.lib]
    /\ Returned(m) /\ UNCHANGED aborted

(* cudaq_bridge_destroy: the provider closes the transceiver, joins its    *)
(* threads and frees the context; gpu_roce joins nothing, and aborts if    *)
(* its monitor has not been joined by disconnect.                          *)
destroyBridge(m) ==
    /\ Exclusive(m, "destroy")
    /\ LET h == mBridge[m] IN
         /\ bridges' = [bridges EXCEPT ![h] = None]
         /\ registry' = [registry EXCEPT ![h] = None]
         /\ aborted' = (aborted \/ Unjoined(h))
    /\ Returned(m) /\ UNCHANGED loaded

-----------------------------------------------------------------------------
(* The other calls.                                                        *)

findInterface(m, h, o) ==
    /\ mPc[m] = "idle" /\ registry[h] # None
    /\ mPc' = [mPc EXCEPT ![m] = "found"]
    /\ mOp' = [mOp EXCEPT ![m] = o] /\ mBridge' = [mBridge EXCEPT ![m] = h]
    /\ UNCHANGED <<loaded, registry, bridges, aborted>>

enterProvider(m) ==
    /\ mPc[m] = "found" /\ mPc' = [mPc EXCEPT ![m] = "callback"]
    /\ UNCHANGED <<loaded, registry, bridges, mOp, mBridge, aborted>>

In(m, o) == mPc[m] = "callback" /\ mOp[m] = o /\ Live(mBridge[m])
Ctx(m) == bridges[mBridge[m]]

(* Only cpu_roce has a connection.  Its rendezvous waits for a peer and    *)
(* fails without its socket; with an FPGA there is nothing to wait for.    *)
connect(m) ==
    /\ In(m, "connect")
    /\ \/ /\ Ctx(m).lib = "cpu_roce" /\ ~Ctx(m).connected /\ Ctx(m).listening
          /\ mPc' = [mPc EXCEPT ![m] = "accept"] /\ UNCHANGED <<bridges, mOp, mBridge>>
       \/ /\ Ctx(m).lib # "cpu_roce" \/ Ctx(m).connected \/ ~Ctx(m).listening
          /\ bridges' = [bridges EXCEPT ![mBridge[m]].connected = @ \/ Ctx(m).fpga]
          /\ Returned(m)
    /\ UNCHANGED <<loaded, registry, aborted>>

(* accept() has returned; the exchange that follows may fail.              *)
accepted(m) ==
    /\ mPc[m] = "accept" /\ Live(mBridge[m])
    /\ \E ok \in BOOLEAN :
         bridges' = [bridges EXCEPT ![mBridge[m]].listening = FALSE,
                                    ![mBridge[m]].connected = ok]
    /\ Returned(m) /\ UNCHANGED <<loaded, registry, aborted>>

(* udp starts its threads unless closed or started; cpu_roce checks that   *)
(* it is connected and goes on to spawn its monitor; gpu_roce just spawns. *)
launch(m) ==
    /\ In(m, "launch")
    /\ LET c == Ctx(m)
           spawns == ~c.unified /\ \/ c.lib = "cpu_roce" /\ c.connected /\ ~c.launched
                                   \/ c.lib = "gpu_roce"
       IN \/ /\ spawns /\ mPc' = [mPc EXCEPT ![m] = "spawn"]
             /\ UNCHANGED <<bridges, mOp, mBridge>>
          \/ /\ ~spawns
             /\ bridges' = IF c.lib = "udp" /\ c.io = "open"
                             THEN [bridges EXCEPT ![mBridge[m]].launched = TRUE]
                             ELSE bridges
             /\ Returned(m)
    /\ UNCHANGED <<loaded, registry, aborted>>

(* gpu_roce replaces its thread object whether or not it is joined.        *)
spawn(m) ==
    /\ mPc[m] = "spawn" /\ Live(mBridge[m])
    /\ bridges' = [bridges EXCEPT ![mBridge[m]].launched = TRUE]
    /\ aborted' = (aborted \/ Unjoined(mBridge[m]))
    /\ Returned(m) /\ UNCHANGED <<loaded, registry>>

(* The connection is marked as gone, the transceiver closed, and then the  *)
(* I/O threads are joined.                                                 *)
disconnect(m) ==
    /\ In(m, "disconnect")
    /\ bridges' = [bridges EXCEPT ![mBridge[m]].connected = FALSE,
                                  ![mBridge[m]].io = "closed"]
    /\ mPc' = [mPc EXCEPT ![m] = "join"]
    /\ UNCHANGED <<loaded, registry, mOp, mBridge, aborted>>

joined(m) ==
    /\ mPc[m] = "join" /\ Live(mBridge[m])
    /\ bridges' = [bridges EXCEPT ![mBridge[m]].launched = FALSE]
    /\ Returned(m) /\ UNCHANGED <<loaded, registry, aborted>>

(* What a manager does once it is inside a call, but for accept().         *)
inBridgeCall(m) ==
    \/ enterProvider(m) \/ connect(m) \/ launch(m) \/ spawn(m)
    \/ disconnect(m) \/ joined(m) \/ destroyBridge(m)

-----------------------------------------------------------------------------
(* What a bridge serves (get_transport_context, get_cpu_dataplane,         *)
(* get_gpu_dataplane of the providers).  Each serves the shape it was      *)
(* created in and refuses the other; the rings of gpu_roce have no host    *)
(* views, and only it has a GPU data plane.                                *)

ServesRing(h, host) ==
    ~bridges[h].unified /\ bridges[h].lib # "external"
    /\ (host => bridges[h].lib # "gpu_roce")
ServesCpuPlane(h) == bridges[h].unified /\ bridges[h].lib \in {"udp", "cpu_roce"}
ServesGpuPlane(h) == bridges[h].unified /\ bridges[h].lib = "gpu_roce"
ServesOverride(h) == bridges[h].unified /\ bridges[h].lib = "external"

-----------------------------------------------------------------------------

(* A handle resolves exactly while its context exists, and to the provider *)
(* that made it, also when the address belonged to another bridge before.  *)
RegistryExact ==
    \A h \in Handles : registry[h] = IF Live(h) THEN bridges[h].lib ELSE None

(* Once disconnect has closed a bridge and returned, none of its I/O       *)
(* threads runs, and none is started again.                                *)
DisconnectIsFinal ==
    \A h \in Handles :
        Live(h) /\ bridges[h].io = "closed"
        /\ ~(\E m \in Managers : mBridge[m] = h /\ mPc[m] \in {"join", "spawn"})
            => ~bridges[h].launched

(* No legal call ends the process.                                         *)
NoAbort == ~aborted

(* No provider works on a context that has been freed.                     *)
NoFreedContext ==
    \A m \in Managers :
        mPc[m] \in {"callback", "accept", "spawn", "join"} => Live(mBridge[m])

(* A handle names its bridge as long as the bridge exists, and a bridge    *)
(* that has been disconnected stays so.                                    *)
BridgesSound == RegistryExact /\ DisconnectIsFinal

-----------------------------------------------------------------------------
(* Why they hold of callers that follow the documentation.                 *)

(* A bridge is in the hands of one manager at a time.                      *)
OneCaller ==
    \A m, n \in Managers : mBridge[m] = mBridge[n] /\ mBridge[m] # None => m = n

(* A manager is where its call can be, on a bridge that exists.            *)
CallPlaced(m) ==
    /\ mBridge[m] = None <=> mPc[m] = "idle" \/ mOp[m] = "create"
    /\ mPc[m] \notin {"idle", "lock"} => mOp[m] \in {"connect", "launch", "disconnect"}
    /\ mPc[m] = "accept" => mOp[m] = "connect"
    /\ mPc[m] = "spawn" => mOp[m] = "launch"

(* What was open when a manager called is open until the call is over: its *)
(* bridge exists, can still be connected, and is not spawned twice.        *)
CallOpen(m) ==
    mBridge[m] # None =>
        /\ Live(mBridge[m])
        /\ mOp[m] = "connect" \/ mPc[m] = "spawn" => Ctx(m).io = "open"
        /\ mOp[m] = "launch" /\ Ctx(m).lib = "gpu_roce" =>
              Ctx(m).io = "open" /\ ~Ctx(m).launched
        /\ mOp[m] = "destroy" => ~Unjoined(mBridge[m])

(* A closed bridge has no connection, and no threads but those that the    *)
(* disconnect is about to join.                                            *)
ClosedAtRest(h) ==
    Live(h) /\ bridges[h].io = "closed" =>
        /\ ~bridges[h].connected
        /\ bridges[h].launched => \E m \in Managers : mBridge[m] = h /\ mPc[m] = "join"

RegistryInv ==
    /\ RegistryTypeOK /\ RegistryExact /\ NoAbort /\ OneCaller
    /\ \A m \in Managers : CallPlaced(m) /\ CallOpen(m)
    /\ \A h \in Handles : ClosedAtRest(h)

=============================================================================
