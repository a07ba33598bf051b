# TLA+ models of CUDA-Q's concurrent runtime

This directory is a verification project for the parts of CUDA-Q whose
correctness depends on the order in which threads, GPU kernels, sockets and
timeouts act:

* the `realtime/` daemon library (ring buffers, dispatchers, transports,
  bridges, the lifecycle of dispatchers),
* the `device_call` runtime of `runtime/internal/device_call`, which moves a
  call from a quantum program to a realtime service and back,
* asynchronous execution: the execution queues of the QPUs, `sample`,
  `sample_async` and broadcasts on them, and the cache of compiled kernels that
  concurrent launches share.

It holds TLA+ modules translated from the source, TLC configurations that check
them on small instances, and TLAPS proofs that hold for every instance.  Most of
the rest of CUDA-Q is a compiler and a set of numerical simulators.

## 1. Inventory

### The whole repository

| part | where | what it keeps and does | here |
|---|---|---|---|
| ring, dispatchers | `realtime/lib/daemon/dispatcher` | ring flags and pages; a CPU loop and GPU kernels that turn requests into responses | modelled (the unified GPU kernel is not) |
| UDP transport | `realtime/lib/cpu_transport/udp_transceiver.cpp` | socket, ring, RX and TX threads, last peer | modelled |
| dispatcher lifecycle | `realtime/lib/daemon/dispatcher/cudaq_realtime_api.cpp` | dispatchers, their bridge, module, stream and loop; wire, link, start, stop, destroy | modelled |
| bridges | `realtime/lib/daemon/bridge` | provider registry, transport contexts; create, connect, launch, disconnect, destroy | modelled (transceivers of RoCE opaque) |
| RoCE transports | `realtime/lib/cpu_transport/roce_wrapper_hololink.cpp` | ibverbs and DOCA queue pairs | not modelled: hardware semantics |
| device_call runtime | `runtime/internal/device_call` | sessions, channels, frames, slots | modelled |
| QPUs and their queues | `runtime/cudaq/platform` | execution queues and workers, noise model, registry for the shutdown at exit | modelled |
| algorithms | `runtime/cudaq/algorithms` | tasks of sample, observe, run, evolve; broadcasts | sample and its broadcasts modelled |
| REST back ends, futures | `runtime/common` | job submission and polling | planned |
| simulators | `runtime/nvqir` | amplitudes, gate queues, qubit ids | numerics out of reach; id tracker planned |
| compiler | `cudaq/` | MLIR dialects, passes, code generation | not modelled: sequential tree rewriting |
| Python front end | `python/` | AST bridge, bindings, module cache | cache and launch modelled |
| previews, EDEM, GF(2) | `preview`, `edem`, `math/gf2` | numerical libraries | not modelled |
| docs, tests, examples | `docs`, `unittests`, `realtime/unittests` | -- | read as the statement of intent |

### The modelled parts in detail

| component | state | operations | what makes it correct |
|---|---|---|---|
| ring (`cudaq_ringbuffer_t`) | per slot: RX flag, TX flag, RX page, TX page | flag loads (acquire) and stores (release), page copies | a page is touched by one party at a time; the flags say whose turn it is |
| UDP transceiver | socket, `running`, last peer, RX and TX cursors | `start`, `rxLoop`, `txLoop`, `close`; unified: `rxPoll`, `txPublish` | no datagram overwrites live data; each published page is sent once |
| host dispatcher | cursor, statistics, shutdown flag | poll, header check, handler, publish, retire | a request is run at most once, and publishing comes before retiring |
| device dispatch kernel | cursor, captured request id | the same on a GPU thread | the same, also beside a host loop on a shared ring |
| graph-launching kernel | also: context of the child graphs, launch budget, persistent cursor, trigger counters | also: launch a child graph, fire the follow-up graph, relaunch itself | also: a child answers its own request; no place and no launch is lost across relaunches |
| ring-slot channel (UDP) | round-robin counter, `ffPending`, dispatch mutex | acquire, dispatch (drain, wait, write, publish, wait), release | position is enough to match response and request |
| host-dispatch channel | slot table, `nextSlot`, leases, mutex, dispatcher thread | acquire, claim, dispatch, wait, time out, release, stop | one leaseholder per slot, its own response, no leak, no dangling frame |
| GPU channel | the same slot table, a dispatch kernel and its stream | the same; the host clears the flags | also: the kernel has left a slot before it is leased again |
| driver | configuration, session table, `finalized` latch | configure, initialize, finalize, lazy creation, frame handles | a reachable session runs; finalize is final; endpoints are not mixed up |
| dispatcher lifecycle | shape, table, data plane, bridge, launcher, linked module, stream, `running`; `attached_bridges` | create, set, wire, look up, start, stop, destroy | one consumer per bridge, no module unloaded under its kernel, `running` tells the truth |
| bridge registry | loaded providers, handle map, provider contexts | create, connect, launch, disconnect, destroy | a handle resolves while its bridge exists; a blocked connect blocks nobody else |
| execution queue | `quit`, queue, worker, `shutdownFlag`; registry of queues | enqueue, handler, shutdown, destroy, exit | a shutdown that returned is complete; nobody waits for a discarded task |
| compiled-module cache | ready entries, compiling entries, promises | `getOrCompile` as ready reader, follower or producer | one compilation per key, no stale attempt, first-in first-out |
| sample and broadcast | tasks, futures, noise pointer of each QPU, seed | launch, resolve, collect, seed | the right noise, the right order, every call returns |

Interactions.  A lowered program calls the driver, which picks a session by
device id and forwards to its channel.  A host-dispatch channel owns a ring and
a dispatch thread in the same process.  A UDP channel owns a transceiver; its
datagrams reach a daemon that owns another transceiver and a dispatcher.
Nothing but ring flags synchronises a transport with a dispatcher; callers of a
channel share a mutex that they release before they wait.  A dispatcher takes
its data plane from a bridge; an application's threads create and drive both.
Client threads put tasks on the queue of a QPU and wait for futures; tasks meet
in the kernel cache, in the noise pointer of their QPU, and, through
`set_random_seed`, in each other's queues.

The hard behaviours are the flag protocol between three threads, two
dispatchers that share a ring, correlation by slot position over an unreliable
network, cursors that wait at one slot while producers skip slots, deadlines
that pass just as the awaited event happens, driver methods that are atomic
one by one and not as a sequence, starts and stops that fail half way, provider
callbacks that run outside the registry's lock, compilations that fail while
others wait for them, and queues that are shut down under their tasks.
`PROJECT.json` lists each as a hazard at its line.

## 2. Modules

| module | models | built on |
|---|---|---|
| `Ring` | flags, pages, the cursor step | -- |
| `FunctionTable` | request and response headers, the table, the lookup | `Ring` |
| `UdpTransceiver` | both shapes of `udp_transceiver.cpp` | `Ring` |
| `HostDispatcher` | `dispatch_core` with `RingTransport` | `FunctionTable` |
| `DeviceDispatcher` | `dispatch_kernel_device_call_only` | `FunctionTable` |
| `GraphDispatcher` | `dispatch_kernel_with_graph` and its launches; child graphs | `DeviceDispatcher` |
| `RpcServer` | abstract: what a service promises its clients | -- |
| `UdpService` | transceiver threads + host loop, one ring | `UdpTransceiver`, `HostDispatcher`; implements `RpcServer` |
| `UdpUnifiedService` | one thread drives the socket and the handlers | the same; implements `RpcServer` |
| `SharedRingService` | host loop + either device kernel + transport, one ring; the graph-launching kernel alone | `UdpTransceiver`, `HostDispatcher`, `GraphDispatcher` |
| `RingBufferWrapper` | `RingBufferWrapper.cpp` and the calling half of both in-process channels | `FunctionTable` |
| `HostDispatchChannel` | `HostDispatchChannel.cpp` | `RingBufferWrapper`, `HostDispatcher` |
| `GpuDispatchChannel` | `GpuDispatchChannel.cpp` | `RingBufferWrapper`, `DeviceDispatcher` |
| `RingSlotChannel` | `RingSlotChannel.h`, `UdpChannel.cpp` | `UdpTransceiver`, `FunctionTable` |
| `DeviceCallDriver` | `DeviceCallDispatch.cpp` | -- |
| `BridgeRegistry` | `bridge_interface_api.cpp` and the contexts of the providers | -- |
| `DispatcherLifecycle` | the setters, start, stop and destroy of `cudaq_realtime_api.cpp` | `BridgeRegistry` |
| `CompiledModuleCache` | `CompiledModuleCache.cpp` | -- |
| `ExecutionQueue` | `QuantumExecutionQueue.cpp` and its registry | -- |
| `AsyncLaunch` | `sample.h`, `broadcast.h`, `set_random_seed`, `pyLaunchModule` | `ExecutionQueue`, `CompiledModuleCache` |
| `UdpServiceProofs`, `RingBufferWrapperProofs`, `HostDispatchChannelProofs`, `GpuDispatchChannelProofs`, `DeviceCallDriverProofs`, `DispatcherLifecycleProofs`, `AsyncLaunchProofs` | the theorems (section 7) | the module they are named for |
| `UdpPathProofs` | the theorems about the rest of the UDP path (section 7) | `UdpUnifiedService`, `RingSlotChannel`, `SharedRingService` |

How state and actions correspond to the code:

* A program counter per thread (`rxPc`, `txPc`, `dPc`, `kPc`, `cPc[c]`,
  `tPc[t]`, `hPc[q]`, `sPc[s]`, `mPc[m]`, `pc`) names the point between two
  accesses to shared memory.  Each access to a flag that another thread can
  change is an action of its own; a run of thread-local statements belongs to
  the action before it.  The loads and stores are acquire and release operations
  on one flag each, so sequentially consistent interleaving of these steps is
  what the code has, with one exception that is harmless: the shutdown flag is
  relaxed and only ends loops.
* A page is the message it holds: request id, whether the magic is right, and
  the function id.  A response is the request id it echoes.  Payload bytes,
  lengths that fit, status words and time stamps are left out; a datagram that
  does not fit a slot is a request with `fits = FALSE`.
* `executed`, `wire`, `published`, `created` and `origin` are history: no
  action is guarded by them.  So are four variables that record a race the code
  does not exclude, so that a property can say what holds until then and what
  it takes to get there:
  `overtaken` (shared ring: a request was replaced under its reader),
  `undercut` (in-process channels: the ring was freed under another caller; what
  follows would use freed storage, so the model ends there),
  `forgotten` (in-process channels: the slots whose claim the late test of the
  deadline dropped) and `refused` (unified service: the replies the socket did
  not take).
* A mutex is a variable that names its holder where the code waits inside the
  critical section (`HostDispatchChannel`, `RingSlotChannel`).  In
  `DeviceCallDriver` each critical section is one action.
* A `shared_ptr` is modelled by its owners: `DropUnowned` stops the sessions
  that lost their last one in the step that takes it.
* A deadline may pass at any test of the clock; the models know no durations.
* `env` is chosen once, from the constant `Environments`: which callers act,
  what may fail and how much may happen.  In `SharedRingService` it is `deploy`,
  from `Deployments`: which dispatchers there are and what arrives.  One run so
  covers several instances, each small, without their product.
* A promise is the `state` of its task; a discarded task breaks it, unless the
  promise lives on the stack of the thread that waits (`onRandomSeedSet`).
* A `std::thread` that is destroyed while joinable, and an exception that leaves
  a worker, end the process: `aborted`, `terminated`.
* In `DispatcherLifecycle` a dispatcher belongs to one thread, its owner, as the
  API asks; bridges are shared by several managers.  `careless` names what
  callers may do against the documentation, and is empty in the passing run.
* Definitions whose comment begins "Mutant of" are deliberately wrong variants
  of the definition that follows them.  No specification uses them; each shows
  that a property notices the mistake.

Some steps are coarser than the code where nothing can tell the difference.
`rxRecv` and `txLoad` test `running` in the step that follows it.  A scan of a
shared ring that finds nothing leaves everything as it was, so it need not be
said which loads failed.  The handler is looked up again where the code keeps
the entry it found: the table does not change.  `claimSlot` does not throw: its
arguments were tested before.  A sample's loop over its shots is one launch.
The noise pointer is read once, in the preamble; `DefaultQPU` reads it again
(`DefaultQPU.cpp:189`), in the same task and so with the same result on a
worker, while a sample on the client's thread can see the worker's model at
either read (section 6, `Synchronous`).

`HostDispatchChannel` and `GpuDispatchChannel` treat `scanSlot` as one step
although it loads two flags: the dispatch loop publishes before it retires, so
an RX flag found clear means that the loop has left the slot.

## 3. What the runs show

| run | instance | result |
|---|---|---|
| `udp_service` | 2 slots, 4 datagrams of 5 kinds, stop at any time | no page race, handlers at most once, no reply lost or repeated, refines `RpcServer` |
| `udp_service_live` | 4 servable or oversized datagrams | replies in publish order; every call answered |
| `udp_unified` | 2 clients, 3 datagrams of 5 kinds, sends that may fail | each reply to its own requester, in order, never held back by a dropped request or a failed send; refines `RpcServer` |
| `shared_ring` | host loop + kernel, 3 datagrams; graph kernel alone, 4 triggers with a budget of 1, or 3 calls and child graphs; graph kernel beside a host loop, stopped and launched again; 2 slots | each request once, no contention, no starvation, unless a request is replaced under its reader, which takes a second dispatcher or child graphs; order and launches kept across relaunches |
| `host_channel` | 2 callers, 2 slots, 4 calls, 2 ring lifetimes, cancels, fire-and-forget, starts that fail; deadlines for none, one or both | own response only, exclusive leases, handlers once, no slot lost but by a late deadline, every call returns; a frame outlives its ring only through a deadline beside another call |
| `gpu_channel` | the same over the dispatch kernel, 3 calls | the same, and the kernel has left every slot that is leased, but for its last store |
| `ring_slot` | 2 callers, 2 slots, 3 calls; or 1 caller, 4 calls, losses and deadlines | own response only, wire order equals publish order, every call answered; no page overwritten in flight, every dispatch returns |
| `driver` | 2 devices, 2 threads, 5 configurations, 4 sessions | reachable sessions run and nobody leases from a null one, one session per device, finalize stops all, endpoints not shared |
| `lifecycle` | 2 managers, 2 bridge handles, 2 dispatchers, 2 loops; six environments | one consumer per bridge in the bridge's shape, launcher and context belong together, modules outlive kernels, `running` is true, the registry is exact, every call returns |
| `async_launch` | 2 QPUs, 1 client, 2 exits, cache of 2, 3 keys; eleven environments | one compilation per key, FIFO eviction, failures retryable, own noise, results in order and one for each argument set, every future, call and shutdown ends |
| `driver_latch` | 1 thread against finalize | **violated**: a session is created after finalize |
| `broadcast_seed` | a broadcast over 2 QPUs with a seed | **violated**: the call never returns |

Several of the properties are conjunctions of smaller ones that are checked as one:

| property | is |
|---|---|
| `RepliesRight` (unified service) | types; `ReplyToRequester`, `RepliesInArrivalOrder` |
| `SlotsOwned` (shared ring) | types; `OvertakenBeside`; until `overtaken`: `NoSlotContention`, `ServedInOrder`, `TriggersFire` |
| `LeasesSound` (both in-process channels) | types; `UndercutByDeadline`; until `undercut`: `LeaseExclusive`, `NoSlotLost`, `FramesPointIntoRing` |
| `KernelKeepsToLeases` (GPU channel) | `RunsOnce`, `KernelLeavesLease` |
| `WireSound` (ring-slot channel) | types; `NoOverwrite`, `SentAsPublished` |
| `LatchHolds`, `SessionsPerDevice` (driver) | `FinalizeStopsAll`, `LatchedServesDefaultOnly`; `LazyInitializeOnce`, `EndpointsNotShared` |
| `WiringSound`, `KernelCodeLoaded` (lifecycle) | types, `OneConsumer`, `AttachedExactly`, `WiredAsServed`, `LauncherOnItsContext`; `ModuleOutlivesKernels`, `HandlersInModule` |
| `BridgesSound` (registry) | `RegistryExact`, `DisconnectIsFinal` |
| `CacheSound`, `QueuesSound` (asynchronous launch) | types, `AttemptsHaveProducers`, `RightModule`, `ReadyAreLatest`; `ShutdownIsFinal`, `NoDestroyedQueue` |
| `BroadcastSound`, `EveryWaitEnds` | `BroadcastInOrder`, `BroadcastArgumentsLive`; `EveryFutureResolves`, `EveryCallReturns`, `EveryShutdownReturns` |

### The two disagreements

* **The finalize latch can be undone** (`driver_latch`).  A call reads the
  latch, `finalize` runs, and the call then creates a session and resets the
  latch, because the two reads are separate critical sections.
* **A seeded broadcast deadlocks** (`broadcast_seed`).  Each task of a broadcast
  calls `set_random_seed` before each argument set; on a worker this queues a
  task on every other worker and waits for it.  Two workers that do so at the
  same time wait for tasks queued behind themselves.

Section 6 lists the smaller ones.

## 4. Bounds and why they suffice

* *Slots*: two.  Cursors, wrap-around and "the other slot" all exist with two;
  the safety results of the services and of the in-process channels are proved
  for every number, one included.
* *Datagrams and calls*: more than there are slots, so that every slot is reused
  and every cursor wraps (`MaxArrivals`, `MaxCalls` of 3 or 4).  Where a run has
  two callers, three calls are enough for one caller to be a lap ahead.
* *Kinds of datagram*: one for each branch of the header check and of the
  receive path (served, too long, wrong magic, unknown function, no handler).
* *Rings* (`maxRings`): two, so that frames and flags of one ring could survive
  into the next.
* *Sessions and initializations*: enough for an initialize, a finalize and a
  second initialize, with lazy creation between them.
* *Loops* (`MaxLoops`): two, so that a dispatcher can be restarted, or a second
  one started beside what the first left behind.
* *Bridge handles*: two; an address is used again by the next bridge, of another
  provider where the environment has several.
* *Tasks* (`maxTasks`): three samples on two QPUs, so that one queue holds a task
  while its worker runs another, or as many as a broadcast needs.
* *Keys*: one more than the cache holds, so that eviction happens; the cache
  holds two entries instead of four.
* *Argument sets*: two for each QPU, one less for an uneven division, one for
  each where there is a seed or a second kind of call.
* *Deadlock checking* is off in the models whose system may come to rest: all
  datagrams handled and the owner silent.  The liveness properties say what must
  have happened by then.  The driver runs check it.

## 5. Fairness

Weak fairness is on each pump thread, each dispatch loop, the kernel, each
worker and every caller or client inside a call, because these are threads that
spin, sleep or are woken and never wait for one another except through the
flags, mutexes and promises of the model.  There is none on arrivals, on a
caller's decision to make another call, on `start` (except in the shared-ring
model, whose loops need it), `stop`, `close`, an exit or a deadline.  Where
deadlines pass (`ring_slot`, `host_channel`, `gpu_channel`) the fairness on a
caller's step includes the step "the deadline has passed", which is justified
since the clock advances: a wait loop that never sees its flag sees its deadline.
In the two in-process channels it is strong, because a caller waits for the
channel's mutex, which others take and release again and again.
`udp_service_live` and `udp_unified` excuse a service that is being stopped, and
`udp_unified` the one reply that the socket refuses.

`lifecycle` has strong fairness on the managers: a manager waits for the
registry's lock, which is free again and again, and a mutex that is free again
and again is obtained.  There is none on the peer that a connect waits for in
`accept`.  `async_launch` excuses a process that has terminated, and the
instances with seeded broadcasts, which `broadcast_seed` is about.

In `SharedRingService` nothing keeps the transport from refilling a slot while a
dispatcher stands between reading its flag and leaving it, or while the child
graph of its request has not published, nor the kernel from launching a child
before the last one has read the context they share.  The code does not prevent
it either; in practice a lap of the ring takes longer than a header check and
than a child graph.  `overtaken` records when it happens.  `AnsweredOnce` and
`SlotsOwned` say that nothing else goes wrong, and `OvertakenBeside` that the
transport alone cannot bring it about: it takes a host loop beside the kernel,
or child graphs.  `GpuDispatchChannel` has a constant
`PromptRetire`, off in `gpu_channel`: no caller releases a frame between the
kernel's store of the response and its store that retires the request.

## 6. Counterexamples kept beside the runs

Each row ends with the stated property violated.  The properties state what a
comment or a test of the repository says of the code; the rows document its
limits.  A row names the configuration to run and what to change in it: the
value of a constant (an operator of the configuration's MC module) and the
property.  Properties that are invariants are checked under `Spec`, the others
under `FairSpec` (`SharedSpec` and `SharedFairSpec` for the shared ring).

| configuration | with | property | what it shows |
|---|---|---|---|
| `MCUdpServiceDrop.cfg` | as it is | `EveryCallAnswered` | a dropped request leaves the reply to the next one behind the send cursor (`RingSlotChannel.h:21`) |
| | `MaxArrivals = 3` | `RepliesInPublishOrder` | after a dropped request replies leave out of publish order (`udp_transceiver.cpp:320`) |
| `MCSharedRingRace.cfg` | as it is | `RunAndSentOnce` | a slot is refilled under a dispatcher and its request served twice (`test_host_dispatcher.cu:603`) |
| | `GraphsOnly` | `NoSlotContention` | a child graph reads a context or a page that belongs to a later request, which is then answered twice and its own never (`dispatch_kernel.cu:347`) |
| | `Exhausted` | `EveryCallServed` | GRAPH_LAUNCH requests use up the launches of an execution, and only a trigger renews them: the request is retired without having run (`dispatch_kernel.cu:357`) |
| | `Restarted` | `EveryCallServed`, `SlotsOwned` | a stopped context that is launched again resumes at the slot of the last trigger, not where it stopped (`dispatch_kernel.cu:457`) |
| | `Waiting` | `WaitShowsInCounters` | the relaunch counter is raised before the tail launch that waits: a hanging follow-up graph shows `fires == tails`, not `tails = N-1` (`dispatch_kernel.cu:50`, `cudaq_realtime.h:349`) |
| `MCHostChannelSkip.cfg` | as it is | `EveryDispatchAnswered` | the claim scan skips a leased slot, the dispatch loop waits at it (`HostDispatchChannel.cpp:146`) |
| | one caller, `Patient2`, `MayCancel = TRUE` | `EveryDispatchAnswered` | a cancelled frame leaves the dispatch cursor behind (`DeviceCallDispatch.cpp:1019`) |
| | `Hasty2` | `FramesPointIntoRing` | a timeout frees the ring under the other callers' frames (`HostDispatchChannel.cpp:160`) |
| | `Hasty3`, `NumSlots = 1` | `NoClaimForgotten` | a claim made just after the deadline is forgotten (`HostDispatchChannel.cpp:106`) |
| `MCGpuChannelLate.cfg` | as it is | `RetiresOwnRequest` | the kernel's late store retires the next request of a slot (`GpuDispatchChannel.cpp:170`) |
| `MCRingSlotChannelUnknown.cfg` | as it is | `EveryDispatchAnswered` | a call to an unknown function shifts every later match (`UdpChannel.cpp:30`) |
| | `LongFaultyOnly`, `FunctionIds = {add}` | `WireFollowsPublication` | a back-pressure timeout skips a slot (`RingSlotChannel.h:111`) |
| `MCDeviceCallDriverOverride.cfg` | as it is | `SessionMatchesConfig` | an overridden device shares the default's channel of another kind (`DeviceCallDispatch.cpp:616`) |
| | `WithExternal` | `InitializeRearms` | an external-mode initialize leaves the latch set (`DeviceCallDispatch.cpp:761`) |
| `MCLifecycleFlaky.cfg` | as it is | `ModuleOutlivesKernels` | two failed starts whose flag cannot be written lose the first stream, and destroy unloads the module under its kernel (`cudaq_realtime_api.cpp:777`) |
| | `MCOrphan` | `OneLoopPerBridge` | destroy releases the bridge although its kernel could not be stopped (`cudaq_realtime_api.cpp:299`) |
| | `MCFlag` | `RunningIffServing` | a restart ends at once when the caller has not cleared its flag (`cudaq_realtime_api.cpp:984`) |
| | `MCRace` | `DisconnectIsFinal` | a concurrent launch starts a monitor over a closed transceiver (`cpu_roce/bridge_impl.cpp:552`) |
| | `MCReconnect` | `DisconnectIsFinal` | in hsb_fpga mode connect succeeds after disconnect (`cpu_roce/bridge_impl.cpp:553`) |
| | `MCCancel` | `NoFreedContext` | the destroy that should cancel a stuck connect frees the context under it (`bridge_interface_api.cpp:169`) |
| | `MCRelaunch` | `NoAbort` | a second launch of a gpu_roce bridge destroys a joinable thread (`gpu_roce/bridge_impl.cpp:328`) |
| | `MCLeave` | `NoAbort` | destroying a launched gpu_roce bridge does the same (`gpu_roce/bridge_impl.cpp:203`) |
| `MCAsyncLaunchSeed.cfg` | `SeedAtExit` | `EveryCallReturns` | `set_random_seed` waits for a task that the exit has discarded (`DefaultQPU.cpp:47`) |
| | `Synchronous` | `NoisePrivate` | a synchronous sample picks up the noise model of a running task (`sample.h:86`) |
| | `WithOptions` | `NoisePrivate` | the noise model of a broadcast's options reaches QPU 0 only (`sample.h:588`) |
| | `Uneven` | `OneResultPerSet` | an uneven broadcast reads beyond the argument vectors (`broadcast.h:72`) |
| | `Throwing` | `NoTerminate` | an exception in a broadcast task ends the process (`broadcast.h:106`) |

Two counterparts pass.  `MCHostChannelSkip.cfg` with one caller and `Patient7`:
a single caller that waits for each response is always answered.
`MCGpuChannelLate.cfg` with `PromptRetire = TRUE` and `EveryDispatchAnswered`:
if no release falls between the kernel's two stores, every dispatch is answered.

## 7. What is proved

Every theorem holds for every value of the constants: any number of slots,
callers, threads, devices, managers, dispatchers, tasks and messages.  Each
module's assumptions (`ASSUME`) only say that its constants are of their kind
and that the model's placeholders differ from real values.  Some
need more, stated in the theorem:

| hypothesis | of | says | why it is needed |
|---|---|---|---|
| `AllServable` | `ServiceRepliesInPublishOrder` | every datagram that fits a slot will be answered | a dropped request leaves a gap that the send cursor waits at (section 6, `MCUdpServiceDrop.cfg`) |
| `KernelsPlaced` | `SharedPlaces`, `SharedSlotsOwned` | a kernel that is alone on the ring is not launched a second time; an execution has a launch for its follow-up graph | a context that is launched again resumes at the slot of the last trigger (section 6, `Restarted`); without a launch every trigger fails |
| `Documented` | the lifecycle | callers follow the documentation, and no launch fails where the device flag cannot be written | section 6, all rows of `MCLifecycleFlaky.cfg` |

Timing, deadlines and the number of argument sets are not among them: the
theorems about the shared ring and the in-process channels say what holds until
a race has happened and what it takes to happen, with the history variables of
section 2, and the one about broadcasts covers every number of sets.

The instances of the corresponding runs satisfy these hypotheses.  TLC checked
each inductive invariant on the run's instance before it was proved.

| module | theorems about | inductive invariant |
|---|---|---|
| `UdpServiceProofs` | `TypeOK`, `NoPageRace`, `AtMostOnce`, `RepliesAccounted`, `RepliesInPublishOrder`, `ImplementsRpcServer`; the ring is a queue | `IInv`; `Contiguous`, `InOrder`; `OnlyServable`, `ReplyQueue` |
| `UdpPathProofs` | the unified service: `RepliesRight`, `ImplementsRpcServer`; the ring-slot channel: `WireSound`, `NoMismatch`; the shared ring: `AnsweredOnce`, `SlotsOwned` | `UnifiedInv`; `ChannelInv`; `SharedInv`, `PlaceInv` |
| `RingBufferWrapperProofs` | lemmas for both channels: each operation on the slot table preserves the leases | `LeaseInv` |
| `HostDispatchChannelProofs` | `LeasesSound`, `RunsOnce`, `NoMismatch` | `ChannelInv` |
| `GpuDispatchChannelProofs` | `LeasesSound`, `KernelKeepsToLeases`, `NoMismatch` | `ChannelInv` |
| `DeviceCallDriverProofs` | `TypeOK`, `ReachableSessionsLive`, `LatchHolds`, `SessionsPerDevice` | `IInv`, `LatchInv`, `TableInv` |
| `DispatcherLifecycleProofs` | `WiringSound`, `KernelCodeLoaded`, `RunningIffServing`, `BridgesSound`, `NoAbort`, `NoFreedContext` | `LifecycleInv` |
| `AsyncLaunchProofs` | `OneCompilationPerKey`, `CacheSound`, `QueuesSound`, `TasksRunUnderOwnNoise`, `BroadcastSound` | `LaunchInv`; `BroadcastInv` |

**Three-thread service.**  None of the properties is inductive.  `IInv` adds
`Handshake` (what each thread knows about the two flags of its slot: from the
load that found the RX flag clear only `rxLoop` can raise it, and both flags are
raised only between the dispatcher's two stores; here the order of the loads in
`rxLoop` and of the stores in `dispatch_core` matters), `PagesFilled` (a raised
flag guards a page of the right kind), `OnePlace` (a request id is in the
socket, in `rxLoop`'s hands, in one undecided slot or executed, and in no two of
them) and `Deliverable` (a reply has a peer, and no two pages hold the same
reply).  One dispatcher serves the ring (`SoleDispatcher`; section 6 shows what
two do).  `Contiguous` and `InOrder` make the ring a queue: from the
dispatcher's cursor on, the requests lie without a gap up to `rxNext`, in
arrival order.  With them each step of the three threads is a step of
`RpcServer` or leaves its variables alone, which proves the refinement without
an assumption on the traffic.  `ReplyQueue` says the same of the responses
between the send cursor and the dispatcher; it needs `AllServable`, and gives
the publish order.

**Unified service.**  One thread, so no handshake: `UnifiedInv` says that
requests wait in the order of their arrival, behind the one being handled,
which came from the peer (`QueueInOrder`), that the socket is open while the
loop runs (`HooksOpen`), and that what went out answers older requests
(`SentBefore`).  The address that `txPublish` uses is then the requester's.

**Ring-slot channel.**  Correlation is by position alone: a response is matched
to the request whose slot it lands in, and nothing on the wire says which that
is.  `ChannelInv` therefore counts.  `SendQueue` says that the slots from the
send cursor to the next publication hold what was published and not sent, in
that order, at most a ring of it.  `Window(m)` says that `rxLoop` is m slots
behind the channel, that exactly those slots are empty and expect a response,
and that elsewhere a response lies where one is expected.  `InFlight(m)` says
that the n-th response still to come answers a request published at least n
places after the last filled slot: the service may drop requests, so a response
may come too early, never too late.  When a caller waits for the request
published last, these leave one request a response in its slot can answer: its
own.  A position argument needs the arithmetic of `NextSlot`, which is stated
once, as lemmas about `Distance`.  The theorems hold with unknown functions and
fire-and-forget calls; what they cannot promise is that an answer comes
(section 6, `MCRingSlotChannelUnknown.cfg`).  `NoOverwrite` holds with lost
datagrams and passed deadlines too, the rest where there are none.

**Shared ring.**  `SharedInv` has two layers.  `SlotInv` is about flags and
pages: a slot that the transport fills has nobody reading it (`FillsFreeSlot`),
the mode of a request's function decides who may work in its slot
(`OwnersAgree`), what a dispatcher found in a slot is still there when it acts
on it (`ReadersCurrent`), and the one context that child graphs share belongs to
the child that has still to read it (`ChildrenApart`).  It holds until
`overtaken` is set, and only this layer depends on that; `WellTyped`, which is
about pages having been written at all, holds throughout.  Where a kernel is
alone and launches no children, `rxLoop`'s loads of both flags rule the race
out, so that nothing is left of the condition (`OvertakenBeside`).  Above it
`RequestsApart`, `RunsApart` and `RepliesApart` follow a request by its id: it
is in the socket, in `rxLoop`'s hands, in a slot where it waits for its handler
or child, or it has run, and no two of these; its reply is in a slot or on the
wire.  A step either moves nothing (`KeepsApart`), or runs the request of one
slot (`RunsIn`); one lemma for each covers all the dispatchers.  `PlaceInv` adds
what `SlotsOwned` says of a kernel that is alone: the raised flags reach without
a gap from its cursor to `rxLoop`'s (`NoGap`), in arrival order
(`ArrivalOrder`), also while its own graph is launched again; and, where no
graph is launched for a call, an execution fires its follow-up graph once at
most (`OneTrigger`).

**In-process channels.**  `LeaseInv` relates each caller's program point to the
mutex, its frame, the slot table and the flags: a bound frame's slot is in
use and nobody else's, every slot in use is held or was `forgotten` by a late
deadline, and no two pages carry the same request.  It holds until a teardown
meets another caller inside the channel; that this takes a deadline and a second
call (`UndercutByDeadline`) is proved with it.  Its lemmas are stated once, for the
operations of `RingBufferWrapper`, and both channels cite them.  `ChannelInv`
adds the dispatch loop: what it may hold at each program point, and what a
caller may find in its slot.  The difference between the channels is the last
store.  The host loop publishes before it retires and the scan looks at both
flags, so it has left every free slot.  The GPU kernel may still owe the store
that retires the request when the slot is leased again, so its `ChannelInv`
says that this store is all it owes: it reads no page and runs nothing there.

**Driver.**  `DropUnowned` keeps every session that still has an owner (one
lemma, cited by each action).  `LatchInv` adds who can own a session while the
latch is set, `TableInv` that session ids are handed out in order and which
device each session was created for.

**Lifecycle.**  `RegistryInv` is about bridges alone: a bridge is in the hands
of one manager at a time (`OneCaller`), a manager's program point fits the
state of its bridge (`CallPlaced`, `CallOpen`), a closed transceiver has no
running monitor but one that is being joined (`ClosedAtRest`).  `LifecycleInv`
adds what a dispatcher knows between and inside its calls (`PhaseOK`), what it
is wired to (`WiredOK`) and what its loop relies on (`LoopOK`): a bridge that
lasts, a linked module that stays, and an owner that still has the loop's
stream.  A step on the registry leaves the dispatchers' part alone except that
it may end a bridge, and no attached bridge is ended; a step of one dispatcher
leaves the others' parts alone.

**Asynchronous launch.**  `CacheInv` (each compiling entry has one producer, who
is at the point that settles it; ready entries are the tail of what was
published) and `QueueInv` (who may touch a queue after its shutdown) are proved
for the operations of `CompiledModuleCache` and `ExecutionQueue` alone, and then
lifted to clients and workers that call them.  `NoiseSound` says that the noise
pointer of a QPU is the one its running task set.

**Broadcasts.**  `BroadcastInv` is inductive relative to `LaunchInv`.
`TasksPlaced` says that a task is in one queue or on one worker and then
pending, and that queued tasks are distinct; so the one who resolves a future is
the worker whose share it is.  `SharesGrow` relates the results of a share to
the argument set its worker has reached, `FuturesOrdered` the k-th future to QPU
k - 1, `ResultsGrow` what the client has collected to its place in the loop:
blocks of results that join (`BlocksJoin`).  `OwnersWait` says that the owner of
an unresolved share has its future still to get, unless queues are shut down.
The blocks together are `ShareSize` for each QPU, and lemmas about that quotient
give the rest: at least the argument sets, fewer than `NumQpus` more, and
exactly as many where the division is even.

Every invariant that a passing run checks is stated by a theorem.  Only
model-checked is liveness, because the prover has no fairness and no ENABLED,
and the properties of the runs that end in a violation.

## 8. Plan

In order of weight:

1. `Future` and `Executor` of the REST back ends with their retries.
2. `QuditIdTracker` and the gate queue of `CircuitSimulator`.

Not modelled and not planned: the unified GPU kernel, RoCE and DOCA queues, the
compiler, numerical kernels, plugin loading through `dlopen`, command-line
parsing, socket errors other than a closed socket.
