------------------------ MODULE DispatcherLifecycle -------------------------
(***************************************************************************)
(* Dispatchers from create to destroy, and the bridges they are wired to   *)
(* (daemon/dispatcher/cudaq_realtime_api.cpp over BridgeRegistry).  A      *)
(* dispatcher is used by one thread, which goes by its name.  What it      *)
(* starts is a loop: the host thread, or a kernel on a stream.             *)
(***************************************************************************)
EXTENDS BridgeRegistry

CONSTANTS
    Dispatchers,
    MaxLoops,       \* bound on the loops a behaviour starts
    Environments    \* what a behaviour may contain: see env

VARIABLES
    env,        \* chosen once.  managers: those that do anything; configs: of
                \* the dispatchers; bridges: what managers create, at the
                \* addresses in handles; calls: the
                \* optional calls somebody makes; tables: whose handlers they
                \* register besides looked-up ones; flag: writing the device
                \* flag "works", "fails" or does "either"; fails: links and
                \* launches may fail; careless: what callers do against the
                \* documentation
    disp,       \* the dispatchers, None when there is none
    pc,         \* what the owner of each is doing
    wiring,     \* the bridge a set_bridge has queried
    flag,       \* the caller's shutdown flag of each dispatcher
    attached,   \* attached_bridges
    loops,      \* the loops that run
    started,    \* how many there have been
    modules     \* dispatchers whose linked module is loaded

lifeVars == <<env, disp, pc, wiring, flag, attached, loops, started, modules>>
vars == <<lifeVars, registryVars>>

Configs == [host : BOOLEAN, unified : BOOLEAN, slots : Nat]

(* cudaq_dispatcher_t.  plane: the data plane its shape polls, by where it *)
(* came from; gpu: the bridge's device code has been taken over; launcher: *)
(* unified_launch_fn; images: the application's device code in the module; *)
(* handlers: some have been handed out; table: whose handlers it names;    *)
(* stream: the loop on the current stream (0: no stream).                  *)
Fresh(cfg) ==
    [host |-> cfg.host, unified |-> cfg.unified, slots |-> cfg.slots,
     table |-> None, plane |-> None, bridge |-> None,
     launcher |-> None, gpu |-> FALSE, images |-> None, handlers |-> FALSE,
     running |-> FALSE, stream |-> 0]

DispatcherStates ==
    [host : BOOLEAN, unified : BOOLEAN, slots : Nat,
     table : Dispatchers \cup {"app", "host", None},
     plane : Handles \cup {"app", None}, bridge : Handles \cup {None},
     launcher : {"app", "bridge", None}, gpu : BOOLEAN,
     images : {"binary1", "binary2", "none", None}, handlers : BOOLEAN,
     running : BOOLEAN, stream : 0 .. MaxLoops]

ASSUME LifecycleAssumption ==
    /\ MaxLoops \in Nat
    /\ None \notin Dispatchers \cup DispatcherStates \cup {"app", "host", "bridge"}
    /\ "app" \notin Handles /\ Dispatchers \cap {"app", "host"} = {}

ASSUME EnvironmentAssumption ==
    \A e \in Environments :
        /\ e.managers \subseteq Managers /\ e.configs \subseteq Configs
        /\ e.bridges \subseteq Setups /\ e.tables \subseteq {"app", "host"}

Loops == [id : 1 .. MaxLoops, owner : Dispatchers, plane : Handles \cup {"app"},
          unified : BOOLEAN, table : Dispatchers \cup {"app", "host"},
          linked : BOOLEAN]

(* Type correctness of the dispatchers, their loops and the registry.      *)
TypeOK ==
    /\ RegistryTypeOK /\ env \in Environments
    /\ disp \in [Dispatchers -> DispatcherStates \cup {None}]
    /\ pc \in [Dispatchers -> {"idle", "wire", "stop", "destroy", "unwind"}]
    /\ wiring \in [Dispatchers -> Handles \cup {None}]
    /\ flag \in [Dispatchers -> BOOLEAN]
    /\ attached \subseteq Handles /\ loops \subseteq Loops
    /\ started \in 0 .. MaxLoops /\ modules \subseteq Dispatchers

Init ==
    /\ RegistryInit /\ env \in Environments
    /\ disp = [d \in Dispatchers |-> None]
    /\ pc = [d \in Dispatchers |-> "idle"]
    /\ wiring = [d \in Dispatchers |-> None]
    /\ flag = [d \in Dispatchers |-> FALSE]
    /\ attached = {} /\ loops = {} /\ started = 0 /\ modules = {}

Ready(d) == pc[d] = "idle" /\ disp[d] # None
Careless(what) == what \in env.careless
Goto(d, p) == pc' = [pc EXCEPT ![d] = p]
LoopsOf(d) == {l \in loops : l.owner = d}

(* A manager is in a call on the bridge; is destroying it.                 *)
Busy(h) == \E m \in Managers : mBridge[m] = h
Ending(h) == \E m \in Managers : mBridge[m] = h /\ mOp[m] = "destroy"

-----------------------------------------------------------------------------
(* Creation, with the set_control that follows it, and the setters.        *)

cudaqDispatcherCreate(d) ==
    /\ pc[d] = "idle" /\ disp[d] = None /\ LoopsOf(d) = {} /\ d \notin modules
    /\ \E cfg \in env.configs : disp' = [disp EXCEPT ![d] = Fresh(cfg)]
    /\ UNCHANGED <<env, pc, wiring, flag, attached, loops, started, modules>>
    /\ UNCHANGED registryVars

(* The setters do not look at `running'; the documentation asks for them   *)
(* before start.                                                           *)
Sets(d) ==
    /\ Ready(d) /\ (~disp[d].running \/ Careless("set"))
    /\ UNCHANGED <<env, pc, wiring, flag, attached, loops, started, modules>>
    /\ UNCHANGED registryVars

(* Handler addresses are the application's own or come from a lookup.      *)
setFunctionTable(d) ==
    /\ Sets(d)
    /\ \E t \in env.tables \cup {e \in Dispatchers : disp[e] # None /\ disp[e].handlers} :
         disp[d].table # t /\ disp' = [disp EXCEPT ![d].table = t]

(* set_ringbuffer and set_cpu_dataplane, in the shape each is for.         *)
setOwnPlane(d) ==
    /\ "set_plane" \in env.calls
    /\ Sets(d) /\ (~disp[d].unified \/ disp[d].host)
    /\ disp[d].plane # "app" /\ disp' = [disp EXCEPT ![d].plane = "app"]

(* Over a GPU data plane the application's launcher runs on the bridge's   *)
(* context and is refused once the dispatcher runs; without a bridge it    *)
(* comes with a context of its own; over any other bridge it is refused.   *)
(* Only the unified kernel uses either.                                    *)
setUnifiedLaunch(d) ==
    /\ "set_unified_launch" \in env.calls
    /\ Sets(d)
    /\ IF disp[d].gpu THEN ~disp[d].running ELSE disp[d].bridge = None
    /\ disp[d].launcher # "app"
    /\ LET context == disp[d].unified /\ ~disp[d].host /\ ~disp[d].gpu IN
         disp' = [disp EXCEPT ![d].launcher = "app",
           ![d].plane = IF context THEN "app" ELSE disp[d].plane]

-----------------------------------------------------------------------------
(* cudaq_dispatcher_set_bridge.                                            *)

Serves(h, d) ==
    IF ~d.unified THEN ServesRing(h, d.host)
    ELSE IF d.host THEN ServesCpuPlane(h)
    ELSE ServesOverride(h) \/ ServesGpuPlane(h)

(* The queries; a bridge that does not serve the shape or whose geometry   *)
(* disagrees is refused and leaves no trace.  What a bridge answers does   *)
(* not change while it lives.                                              *)
setBridgeQuery(d, h) ==
    /\ Ready(d) /\ ~disp[d].running /\ disp[d].bridge = None
    /\ ~Ending(h) \/ Careless("cancel")
    /\ registry[h] # None /\ Serves(h, disp[d])
    /\ disp[d].slots \in {0, bridges[h].slots}
    /\ wiring' = [wiring EXCEPT ![d] = h] /\ Goto(d, "wire")
    /\ UNCHANGED <<env, disp, flag, attached, loops, started, modules, registryVars>>

Wire(r, h) ==
    LET w == [r EXCEPT !.bridge = h, !.plane = h, !.slots = bridges[h].slots] IN
    IF ~r.unified \/ r.host THEN w
    ELSE IF ServesOverride(h) THEN [w EXCEPT !.launcher = "bridge"]
    ELSE [w EXCEPT !.launcher = None, !.gpu = TRUE]

(* Mutant of setBridgeAttach: a bridge in use is wired again.              *)
setBridgeAttachTwice(d) ==
    /\ pc[d] = "wire"
    /\ attached' = attached \cup {wiring[d]}
    /\ disp' = [disp EXCEPT ![d] = Wire(@, wiring[d])]
    /\ wiring' = [wiring EXCEPT ![d] = None] /\ Goto(d, "idle")
    /\ UNCHANGED <<env, flag, loops, started, modules, registryVars>>

(* The bridge is claimed under the lock, and all is committed.             *)
setBridgeAttach(d) ==
    /\ pc[d] = "wire"
    /\ \/ /\ wiring[d] \notin attached
          /\ attached' = attached \cup {wiring[d]}
          /\ disp' = [disp EXCEPT ![d] = Wire(@, wiring[d])]
       \/ wiring[d] \in attached /\ UNCHANGED <<attached, disp>>
    /\ wiring' = [wiring EXCEPT ![d] = None] /\ Goto(d, "idle")
    /\ UNCHANGED <<env, flag, loops, started, modules, registryVars>>

-----------------------------------------------------------------------------
(* Linking.  The first lookup links the module with the device code of its *)
(* binary; later ones must come from the same binary.                      *)

CanLink(d) == disp[d].gpu /\ ~disp[d].running /\ d \notin modules

(* cudaq_dispatcher_get_device_handler_in, or ..._get_device_kernel_in,    *)
(* which hands out no handler.                                             *)
lookup(d, binary, handler) ==
    /\ "lookup" \in env.calls /\ Ready(d)
    /\ CanLink(d) \/ (d \in modules /\ disp[d].images = binary)
    /\ modules' = modules \cup {d}
    /\ disp' = [disp EXCEPT ![d].images = binary, ![d].handlers = @ \/ handler]
    /\ disp' # disp
    /\ UNCHANGED <<env, pc, wiring, flag, attached, loops, started, registryVars>>

-----------------------------------------------------------------------------
(* cudaq_dispatcher_start.                                                 *)

LinkedKernel(d) == disp[d].unified /\ ~disp[d].host /\ (disp[d].gpu \/ disp[d].launcher = None)

Valid(d) ==
    /\ disp[d].table # None /\ disp[d].plane # None
    /\ IF disp[d].host THEN disp[d].table = "host" ELSE disp[d].slots # 0

(* Every DEVICE_CALL entry holds an address of the dispatcher's module.    *)
TableLinked(d) == disp[d].table = "host" \/ (disp[d].table = d /\ disp[d].handlers)

BeforeStart(d) ==
    /\ Ready(d) /\ ~disp[d].running /\ Valid(d) /\ started < MaxLoops
    /\ LinkedKernel(d) => TableLinked(d)
    /\ disp[d].bridge # None => registry[disp[d].bridge] # None
    /\ flag' = IF Careless("flag") THEN flag ELSE [flag EXCEPT ![d] = FALSE]
    /\ UNCHANGED <<env, wiring, attached, registryVars>>

(* Without a lookup the kernel and the bridge's hooks are linked alone.    *)
Linked(d) == IF LinkedKernel(d) THEN modules \cup {d} ELSE modules
LinkedImages(d) ==
    IF LinkedKernel(d) /\ d \notin modules THEN "none" ELSE disp[d].images

NewLoop(d) ==
    [id |-> started + 1, owner |-> d, plane |-> disp[d].plane,
     unified |-> disp[d].unified, table |-> disp[d].table,
     linked |-> LinkedKernel(d)]

Launched(d) == loops' = loops \cup {NewLoop(d)} /\ started' = started + 1

startHost(d) ==
    /\ BeforeStart(d) /\ disp[d].host
    /\ Launched(d)
    /\ disp' = [disp EXCEPT ![d].running = TRUE]
    /\ UNCHANGED <<pc, modules>>

startDevice(d) ==
    /\ BeforeStart(d) /\ ~disp[d].host
    /\ modules' = Linked(d)
    /\ Launched(d)
    /\ disp' = [disp EXCEPT ![d].running = TRUE, ![d].stream = started + 1,
                            ![d].images = LinkedImages(d)]
    /\ UNCHANGED pc

(* The link fails; there is no stream to be had; or the wait for the       *)
(* caller's writes or the dispatcher's own kernel does not get onto it,    *)
(* and the stream is destroyed.                                            *)
startFailsClean(d) ==
    /\ BeforeStart(d) /\ ~disp[d].host /\ env.fails
    /\ \/ LinkedKernel(d) /\ d \notin modules /\ UNCHANGED <<disp, modules>>
       \/ /\ \E s \in {0, disp[d].stream} :
               disp' = [disp EXCEPT ![d].stream = s, ![d].images = LinkedImages(d)]
          /\ modules' = Linked(d)
    /\ UNCHANGED <<pc, loops, started>>

(* Mutant of startFails: the launch is taken not to have happened.         *)
startFailsLeave(d) ==
    /\ BeforeStart(d) /\ ~disp[d].host /\ env.fails
    /\ modules' = Linked(d)
    /\ Launched(d)
    /\ disp' = [disp EXCEPT ![d].images = LinkedImages(d)]
    /\ UNCHANGED pc

(* The launcher, or cudaGetLastError after it, reports an error although   *)
(* the kernel may have been enqueued: stop_device_kernel.                  *)
startFails(d) ==
    /\ BeforeStart(d) /\ ~disp[d].host /\ env.fails
    /\ modules' = Linked(d)
    /\ Launched(d)
    /\ disp' = [disp EXCEPT ![d].stream = started + 1, ![d].images = LinkedImages(d)]
    /\ Goto(d, "unwind")

start(d) == startHost(d) \/ startDevice(d) \/ startFailsClean(d) \/ startFails(d)

-----------------------------------------------------------------------------
(* cudaq_dispatcher_stop and cudaq_dispatcher_destroy.                     *)

Raise(d) == flag' = [flag EXCEPT ![d] = TRUE]

stop(d) ==
    /\ Ready(d) /\ disp[d].running /\ disp[d].host
    /\ Raise(d) /\ Goto(d, "stop")
    /\ UNCHANGED <<env, disp, wiring, attached, loops, started, modules, registryVars>>

stopJoined(d) ==
    /\ pc[d] = "stop" /\ disp[d].host /\ LoopsOf(d) = {}
    /\ disp' = [disp EXCEPT ![d].running = FALSE] /\ Goto(d, "idle")
    /\ UNCHANGED <<env, wiring, flag, attached, loops, started, modules, registryVars>>

(* stop_device_kernel, in stop or after a failed launch.  If the flag      *)
(* cannot be written the stream is kept.                                   *)
Stopping(d) == pc[d] = "unwind" \/ (Ready(d) /\ disp[d].running /\ ~disp[d].host)

stopDeviceFails(d) ==
    /\ Stopping(d) /\ env.flag # "works"
    /\ Goto(d, "idle")
    /\ UNCHANGED <<env, disp, wiring, flag, attached, loops, started, modules>>
    /\ UNCHANGED registryVars

stopDevice(d) ==
    /\ Stopping(d) /\ env.flag # "fails"
    /\ Raise(d) /\ Goto(d, "stop")
    /\ UNCHANGED <<env, disp, wiring, attached, loops, started, modules, registryVars>>

stopDeviceSynchronized(d) ==
    /\ pc[d] = "stop" /\ ~disp[d].host
    /\ \A l \in loops : l.id # disp[d].stream
    /\ disp' = [disp EXCEPT ![d].stream = 0, ![d].running = FALSE] /\ Goto(d, "idle")
    /\ UNCHANGED <<env, wiring, flag, attached, loops, started, modules, registryVars>>

(* A host loop that still runs is stopped and joined first.                *)
destroyBegins(d) ==
    /\ Ready(d)
    /\ flag' = IF disp[d].running /\ disp[d].host THEN [flag EXCEPT ![d] = TRUE] ELSE flag
    /\ disp[d].running /\ ~disp[d].host /\ env.flag = "works" => Careless("destroy")
    /\ Goto(d, "destroy")
    /\ UNCHANGED <<env, disp, wiring, attached, loops, started, modules, registryVars>>

(* Mutant of Unloads: the module is always unloaded.                       *)
UnloadsAlways(d) == TRUE

(* A module is left loaded under a stream that was never synchronized.     *)
Unloads(d) == disp[d].stream = 0

destroyed(d) ==
    /\ pc[d] = "destroy" /\ (disp[d].host => LoopsOf(d) = {})
    /\ attached' = attached \ {disp[d].bridge}
    /\ modules' = IF Unloads(d) THEN modules \ {d} ELSE modules
    /\ disp' = [disp EXCEPT ![d] = None] /\ Goto(d, "idle")
    /\ UNCHANGED <<env, wiring, flag, loops, started, registryVars>>

(* The rest of a call its owner is inside.                                 *)
inCall(d) ==
    \/ setBridgeAttach(d) \/ stopJoined(d) \/ stopDeviceSynchronized(d) \/ destroyed(d)
    \/ pc[d] = "unwind" /\ (stopDeviceFails(d) \/ stopDevice(d))

(* A loop ends once it sees its flag.                                      *)
loopEnds(l) ==
    /\ flag[l.owner] /\ loops' = loops \ {l}
    /\ UNCHANGED <<env, disp, pc, wiring, flag, attached, started, modules>>
    /\ UNCHANGED registryVars

-----------------------------------------------------------------------------
(* What managers call.  They follow the documentation: a bridge outlives   *)
(* its dispatcher and is used by one manager at a time, is connected and   *)
(* launched while it is open, and gpu_roce launched once; a unified one is *)
(* disconnected after its dispatcher has been stopped.                     *)

Wired(h) == \E d \in Dispatchers : wiring[d] = h \/ (disp[d] # None /\ disp[d].bridge = h)
Polled(h) == \E l \in loops : l.plane = h

managerCreates(m) == env.bridges # {} /\ callExclusive(m, "create", None) /\ UNCHANGED lifeVars

managerDestroys(m, h) ==
    /\ registry[h] # None
    /\ Careless("cancel") \/ ~(Busy(h) \/ Wired(h) \/ Polled(h))
    /\ Careless("leave") \/ ~Unjoined(h)
    /\ callExclusive(m, "destroy", h) /\ UNCHANGED lifeVars

managerCalls(m, h, o) ==
    /\ o \in env.calls /\ Live(h)
    /\ Careless("race") \/ ~Busy(h)
    /\ CASE o = "disconnect" -> ~(bridges[h].unified /\ Polled(h))
         [] o = "connect" -> bridges[h].io = "open" \/ Careless("reconnect")
         [] o = "launch" -> \/ bridges[h].lib # "gpu_roce" \/ Careless("relaunch")
                            \/ bridges[h].io = "open" /\ ~bridges[h].launched
    /\ findInterface(m, h, o) /\ UNCHANGED lifeVars

creates(m) ==
    /\ \E b \in env.bridges : create(m, b) \/ createFails(m, b.lib)
    /\ \A h \in Handles \ env.handles : bridges'[h] = None
    /\ UNCHANGED lifeVars

continues(m) == inBridgeCall(m) /\ UNCHANGED lifeVars

peerDials(m) == accepted(m) /\ UNCHANGED lifeVars

-----------------------------------------------------------------------------

manager(m) ==
    \/ managerCreates(m) \/ creates(m) \/ continues(m) \/ peerDials(m)
    \/ \E h \in Handles : \/ managerDestroys(m, h)
                          \/ \E o \in {"connect", "launch", "disconnect"} : managerCalls(m, h, o)

owner(d) ==
    \/ cudaqDispatcherCreate(d) \/ setFunctionTable(d) \/ setOwnPlane(d)
    \/ setUnifiedLaunch(d) \/ start(d) \/ stop(d)
    \/ stopDeviceFails(d) \/ stopDevice(d) \/ destroyBegins(d) \/ inCall(d)
    \/ \E h \in Handles : setBridgeQuery(d, h)
    \/ \E b \in {"binary1", "binary2"}, handler \in BOOLEAN : lookup(d, b, handler)

Next ==
    \/ \E m \in env.managers : manager(m)
    \/ \E d \in Dispatchers : owner(d)
    \/ \E l \in loops : loopEnds(l)

Spec == Init /\ [][Next]_vars

loopOf(i) == \E l \in loops : l.id = i /\ loopEnds(l)

(* Threads run: a call that has begun goes on, and a loop looks at its     *)
(* flag.  Who waits for the registry's lock gets it if it is free again    *)
(* and again.  Nobody has to call anything, and no peer has to dial in.    *)
FairSpec ==
    /\ Spec
    /\ \A m \in Managers : SF_vars(creates(m)) /\ SF_vars(continues(m))
    /\ \A d \in Dispatchers : WF_vars(inCall(d))
    /\ \A i \in 1 .. MaxLoops : WF_vars(loopOf(i))

-----------------------------------------------------------------------------

(* Every loop has a bridge's data plane to itself.                         *)
OneLoopPerBridge ==
    \A l, k \in loops : l.plane = k.plane /\ l.plane \in Handles => l = k

(* set_bridge's check of attached_bridges keeps two dispatchers from       *)
(* consuming one bridge, whatever the order of their calls, through        *)
(* failed starts, restarts and re-creation, while stop can do its work.    *)
OneConsumer == env.flag = "works" => OneLoopPerBridge

(* attached_bridges holds the bridges of the dispatchers that exist and    *)
(* no other: none is lost by a refusal, none stays claimed after destroy.  *)
AttachedExactly ==
    attached = {disp[d].bridge : d \in {e \in Dispatchers : disp[e] # None}} \ {None}

(* A loop polls a bridge in the shape the bridge was created in, with its  *)
(* geometry, and the bridge is there as long as the loop is.               *)
WiredAsServed ==
    \A l \in loops : l.plane \in Handles =>
        /\ Live(l.plane) /\ bridges[l.plane].unified = l.unified
        /\ disp[l.owner] # None => disp[l.owner].slots = bridges[l.plane].slots

(* A launch override runs on the context of the bridge it came with, and   *)
(* an application's launcher never runs on that context.                   *)
LauncherOnItsContext ==
    \A d \in Dispatchers :
        disp[d] # None /\ disp[d].unified /\ ~disp[d].host /\ disp[d].bridge # None =>
            /\ disp[d].plane = disp[d].bridge
            /\ (disp[d].launcher = "bridge") <=> (bridges[disp[d].bridge].lib = "external")

(* No module is unloaded under a kernel that runs from it, also when the   *)
(* kernel could not be told to stop.                                       *)
ModuleOutlivesKernels == \A l \in loops : l.linked => l.owner \in modules

(* The kernel of a linked module calls no handler of another module.       *)
HandlersInModule == \A l \in loops : l.linked => l.table \in {"host", l.owner}

(* Between calls, a dispatcher is marked as running exactly when its loop  *)
(* runs: a start that reported failure has left nothing behind.            *)
RunningIffServing ==
    \A d \in Dispatchers : Ready(d) => (disp[d].running <=> LoopsOf(d) # {})

(* Every call returns: of dispatchers always, of bridges unless it waits   *)
(* for its peer, which holds up no call on another bridge.                 *)
EveryCallReturns ==
    /\ \A d \in Dispatchers : []<>(pc[d] = "idle")
    /\ \A m \in Managers : []<>(mPc[m] \in {"idle", "accept"})

(* The wiring of dispatchers and bridges is sound: one consumer for each   *)
(* bridge, of the bridge's shape, on the bridge's own context.             *)
WiringSound ==
    TypeOK /\ OneConsumer /\ AttachedExactly /\ WiredAsServed /\ LauncherOnItsContext

(* A kernel never runs code that is not loaded: its own module stays, and  *)
(* its handlers are of the same module.                                    *)
KernelCodeLoaded == ModuleOutlivesKernels /\ HandlersInModule

-----------------------------------------------------------------------------
(* Why they hold.  Callers follow the documentation; where the device flag *)
(* may refuse to be written, a launch that reports an error is left out:   *)
(* the kernel it may have started could not be stopped.                    *)

Documented ==
    \A e \in Environments : e.careless = {} /\ (e.flag = "works" \/ ~e.fails)

(* The bridge exists and nobody is about to destroy it.                    *)
Lasting(h) == Live(h) /\ ~Ending(h)

(* A dispatcher between two calls, or inside one.  Its loop cannot end by  *)
(* itself, and a failed launch is unwound only where that works.           *)
PhaseOK(d) ==
    /\ pc[d] # "idle" => disp[d] # None
    /\ pc[d] # "wire" => wiring[d] = None
    /\ pc[d] \in {"idle", "wire"} /\ disp[d] # None =>
          /\ disp[d].running <=> LoopsOf(d) # {}
          /\ disp[d].running => ~flag[d]
    /\ pc[d] = "wire" =>
          /\ ~disp[d].running /\ disp[d].bridge = None /\ wiring[d] # None
          /\ Lasting(wiring[d]) /\ Serves(wiring[d], disp[d])
    /\ pc[d] = "unwind" => env.flag = "works" /\ ~disp[d].host
    /\ pc[d] = "destroy" /\ ~disp[d].host /\ env.flag = "works" => LoopsOf(d) = {}

(* A wired dispatcher has its plane, its geometry and, on the device, its  *)
(* launcher from its bridge, which outlives it.                            *)
WiredOK(d) ==
    disp[d] # None =>
        /\ disp[d].plane \in Handles => disp[d].plane = disp[d].bridge
        /\ disp[d].gpu => disp[d].bridge # None /\ disp[d].unified /\ ~disp[d].host
        /\ disp[d].bridge # None =>
              /\ Lasting(disp[d].bridge)
              /\ disp[d].unified = bridges[disp[d].bridge].unified
              /\ disp[d].slots = bridges[disp[d].bridge].slots
              /\ disp[d].gpu => bridges[disp[d].bridge].lib = "gpu_roce"
              /\ disp[d].unified /\ ~disp[d].host =>
                    /\ disp[d].plane = disp[d].bridge
                    /\ (disp[d].launcher = "bridge")
                          <=> (bridges[disp[d].bridge].lib = "external")

(* A loop polls what its dispatcher is wired to, on the dispatcher's       *)
(* current stream, from code that is loaded.  It has lost its dispatcher   *)
(* only where the flag could not be written.                               *)
LoopOK(l) ==
    /\ l.plane \in Handles => Lasting(l.plane) /\ bridges[l.plane].unified = l.unified
    /\ l.linked => l.owner \in modules /\ l.table \in {"host", l.owner}
    /\ IF disp[l.owner] = None THEN env.flag # "works"
       ELSE /\ l.plane \in Handles => disp[l.owner].bridge = l.plane
            /\ ~disp[l.owner].host => l.id = disp[l.owner].stream

BridgesApart ==
    \A d, e \in Dispatchers :
        disp[d] # None /\ disp[e] # None /\ disp[d].bridge = disp[e].bridge
        /\ disp[d].bridge # None => d = e

OneLoopEach == \A l, k \in loops : l.owner = k.owner => l = k

LifecycleInv ==
    /\ TypeOK /\ RegistryInv /\ AttachedExactly /\ BridgesApart /\ OneLoopEach
    /\ \A d \in Dispatchers : PhaseOK(d) /\ WiredOK(d)
    /\ \A l \in loops : LoopOK(l)

=============================================================================
