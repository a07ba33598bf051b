-------------------------- MODULE DeviceCallDriver --------------------------
(***************************************************************************)
(* The process-wide device_call coordinator (DeviceCallDispatch.cpp): its  *)
(* configuration, the sessions it publishes per device id, the `finalized' *)
(* latch, and the frame handles that lowered code holds.  Every method     *)
(* takes the driver's mutex for itself, so acquireFrameForDevice, which    *)
(* calls several, is a sequence of steps.                                  *)
(*                                                                         *)
(* A session is a shared_ptr: the step that drops its last owner (a table  *)
(* entry, a local variable of an acquire, a frame handle) stops it.        *)
(***************************************************************************)
EXTENDS Naturals, FiniteSets

CONSTANTS
    Devices, DefaultDeviceId,
    Threads,        \* threads that make device_calls
    Configs,        \* the configurations initialize may be given
    None,           \* a null session
    MaxSessions,    \* bound: sessions created
    MaxInits        \* bound: calls of initializeDeviceCallRuntime

Kinds == {"builtin", "external"}

(* enabled: not "off".  chan: the channel kind of each device (the process *)
(* default or its override).  scoped: devices with endpoint arguments of   *)
(* their own.                                                              *)
ASSUME ConfigsAssumption ==
    /\ DefaultDeviceId \in Devices
    /\ \A k \in Configs :
          /\ k.enabled \in BOOLEAN /\ k.chan \in [Devices -> Kinds]
          /\ k.scoped \subseteq Devices
    /\ MaxSessions \in Nat /\ MaxInits \in Nat

Ids == 1 .. MaxSessions
ASSUME NoneAssumption == None \notin Ids

VARIABLES
    config,
    sessions,       \* device id -> session
    finalized,
    kind,           \* of the sessions created so far
    live,           \* sessions that have not been stopped
    phase,          \* initializeDeviceCallRuntime: idle, configured
    lastCall,       \* history: the last completed lifecycle call
    inits,          \* number of initialize calls
    created,        \* history: devices a session was made for since the
                    \* table was last cleared, with multiplicity
    tPc, tDev,      \* each thread's program point and device argument
    local,          \* the `session' variable of its acquire
    handle          \* the session of the frame handle it holds

threadVars == <<tPc, tDev, local, handle>>
vars == <<config, sessions, finalized, kind, live, phase, lastCall, inits,
          created, threadVars>>

(* Type correctness: the table, the owners and the program points.  A      *)
(* thread is about to lease exactly if its acquire found a session, and    *)
(* holds a frame handle exactly until it releases it, so no null session   *)
(* is ever leased from, whatever empties the table between its lookups.    *)
TypeOK ==
    /\ config \in Configs
    /\ sessions \in [Devices -> Ids \cup {None}]
    /\ finalized \in BOOLEAN
    /\ kind \in [Ids -> Kinds \cup {"unused"}] /\ live \subseteq Ids
    /\ phase \in {"idle", "configured"}
    /\ lastCall \in {"none", "initialize", "failed", "finalize"}
    /\ inits \in 0 .. MaxInits /\ created \in [Devices -> Nat]
    /\ tPc \in [Threads -> {"idle", "check", "init", "relook", "have", "leased"}]
    /\ tDev \in [Threads -> Devices]
    /\ local \in [Threads -> Ids \cup {None}]
    /\ handle \in [Threads -> Ids \cup {None}]
    /\ \A t \in Threads : /\ tPc[t] = "have" <=> local[t] # None
                          /\ tPc[t] = "leased" <=> handle[t] # None

Empty == [d \in Devices |-> None]

(* The driver before the first initialize: the default configuration.      *)
Init ==
    /\ config \in {k \in Configs : k.enabled /\ \A d \in Devices :
                                       k.chan[d] = "builtin"}
    /\ sessions = Empty /\ finalized = FALSE
    /\ kind = [s \in Ids |-> "unused"] /\ live = {}
    /\ phase = "idle" /\ lastCall = "none" /\ inits = 0
    /\ created = [d \in Devices |-> 0]
    /\ tPc = [t \in Threads |-> "idle"]
    /\ tDev = [t \in Threads |-> DefaultDeviceId]
    /\ local = [t \in Threads |-> None] /\ handle = [t \in Threads |-> None]

-----------------------------------------------------------------------------

(* Mutant of Owners: a frame handle does not own its session.              *)
OwnersNoHandle(tab, loc, hnd) ==
    {tab[d] : d \in Devices} \cup {loc[t] : t \in Threads}

Owners(tab, loc, hnd) ==
    {tab[d] : d \in Devices} \cup {loc[t] : t \in Threads}
      \cup {hnd[t] : t \in Threads}

(* ~DeviceCallSession of the sessions nobody owns any more.                *)
DropUnowned(new) ==
    live' = (live \cup new) \cap Owners(sessions', local', handle')

Fresh == Cardinality({s \in Ids : kind[s] # "unused"}) + 1

(* A channel of kind k is built and its session published for device d.    *)
publish(d, k) ==
    /\ Fresh \in Ids
    /\ kind' = [kind EXCEPT ![Fresh] = k]
    /\ sessions' = [sessions EXCEPT ![d] = Fresh]
    /\ created' = [created EXCEPT ![d] = @ + 1]
    /\ DropUnowned({Fresh})

NoPublish == /\ UNCHANGED <<sessions, kind, created>> /\ DropUnowned({})

Builtin(d) == ~config.enabled \/ config.chan[d] = "builtin"
HasService(s) == s # None /\ kind[s] = "builtin"

(* initializeServiceForDevice returns early: the session is there.         *)
initialized(d) ==
    IF Builtin(d) THEN HasService(sessions[d]) ELSE sessions[d] # None

(* Mutant of initializeOk: a device shares the default's channel although  *)
(* it has endpoint arguments of its own.                                   *)
initializeOkShare(d) ==
    \/ initialized(d) /\ NoPublish
    \/ ~initialized(d) /\ Builtin(d) /\ publish(d, "builtin")
    \/ /\ ~initialized(d) /\ ~Builtin(d) /\ d # DefaultDeviceId
       /\ sessions[DefaultDeviceId] # None
       /\ sessions' = [sessions EXCEPT ![d] = sessions[DefaultDeviceId]]
       /\ UNCHANGED <<kind, created>> /\ DropUnowned({})

(* The ways initializeServiceForDevice succeeds: nothing to do, a new      *)
(* service session, a channel of the device's own, the default's channel.  *)
initializeOk(d) ==
    \/ initialized(d) /\ NoPublish
    \/ ~initialized(d) /\ Builtin(d) /\ publish(d, "builtin")
    \/ /\ ~initialized(d) /\ ~Builtin(d)
       /\ d # DefaultDeviceId /\ d \in config.scoped
       /\ publish(d, "external")
    \/ /\ ~initialized(d) /\ ~Builtin(d)
       /\ d # DefaultDeviceId /\ d \notin config.scoped
       /\ sessions[DefaultDeviceId] # None
       /\ sessions' = [sessions EXCEPT ![d] = sessions[DefaultDeviceId]]
       /\ UNCHANGED <<kind, created>> /\ DropUnowned({})

(* It throws: no plugin, no table, no channel, no external default.        *)
initializeThrows(d) ==
    /\ ~initialized(d)
    /\ Builtin(d) \/ d = DefaultDeviceId \/ d \in config.scoped
         \/ sessions[DefaultDeviceId] = None
    /\ NoPublish

-----------------------------------------------------------------------------
(* initializeDeviceCallRuntime and finalizeDeviceCallRuntime.              *)

(* configure: the table is emptied, and an external default channel built  *)
(* at once.                                                                *)
configure ==
    /\ phase = "idle" /\ inits < MaxInits
    /\ inits' = inits + 1
    /\ config' \in Configs
    /\ UNCHANGED <<finalized, threadVars>>
    /\ \/ /\ config'.enabled /\ config'.chan[DefaultDeviceId] = "external"
          /\ Fresh \in Ids
          /\ kind' = [kind EXCEPT ![Fresh] = "external"]
          /\ sessions' = [Empty EXCEPT ![DefaultDeviceId] = Fresh]
          /\ DropUnowned({Fresh})
          /\ created' = [d \in Devices |-> IF d = DefaultDeviceId THEN 1 ELSE 0]
          /\ phase' = "configured" /\ UNCHANGED lastCall
       \/ /\ config'.enabled /\ config'.chan[DefaultDeviceId] = "external"
          /\ sessions' = Empty /\ DropUnowned({})
          /\ created' = [d \in Devices |-> 0]
          /\ phase' = "idle" /\ lastCall' = "failed"
          /\ UNCHANGED kind
       \/ /\ ~config'.enabled \/ config'.chan[DefaultDeviceId] = "builtin"
          /\ sessions' = Empty /\ DropUnowned({})
          /\ created' = [d \in Devices |-> 0]
          /\ phase' = "configured"
          /\ UNCHANGED <<kind, lastCall>>

(* The mode's initialize action: only the service-backed modes have one.   *)
(* Lifecycle calls come from one thread, so none starts inside another.    *)
initializeMode ==
    /\ phase = "configured" /\ phase' = "idle"
    /\ UNCHANGED <<config, inits, threadVars>>
    /\ \/ /\ config.enabled /\ config.chan[DefaultDeviceId] = "builtin"
          /\ finalized' = FALSE
          /\ \/ initializeOk(DefaultDeviceId) /\ lastCall' = "initialize"
             \/ initializeThrows(DefaultDeviceId) /\ lastCall' = "failed"
       \/ /\ ~config.enabled \/ config.chan[DefaultDeviceId] = "external"
          /\ lastCall' = "initialize"
          /\ UNCHANGED <<sessions, finalized, kind, live, created>>

(* Mutant of finalize: the latch is set but the table is kept.             *)
finalizeKeep ==
    /\ phase = "idle" /\ config.enabled
    /\ finalized' = TRUE /\ lastCall' = "finalize"
    /\ UNCHANGED <<config, sessions, live, kind, phase, inits, created, threadVars>>

(* shutdown(), in every mode but Off.                                      *)
finalize ==
    /\ phase = "idle"
    /\ lastCall' = "finalize"
    /\ UNCHANGED <<config, kind, phase, inits, threadVars>>
    /\ IF config.enabled
         THEN /\ finalized' = TRUE
              /\ sessions' = Empty /\ created' = [d \in Devices |-> 0]
              /\ DropUnowned({})
         ELSE UNCHANGED <<sessions, finalized, live, created>>

-----------------------------------------------------------------------------
(* acquireFrameForDevice, dispatchFrame, releaseFrame.                     *)

Goto(t, pc) == tPc' = [tPc EXCEPT ![t] = pc]
driverVars == <<config, finalized, phase, lastCall, inits>>

lookupSession(t) ==
    /\ tPc[t] = "idle"
    /\ \E d \in Devices :
          /\ tDev' = [tDev EXCEPT ![t] = d]
          /\ local' = [local EXCEPT ![t] = sessions[d]]
          /\ Goto(t, IF sessions[d] = None THEN "check" ELSE "have")
    /\ UNCHANGED <<driverVars, sessions, kind, live, created, handle>>

isFinalized(t) ==
    /\ tPc[t] = "check"
    /\ Goto(t, IF finalized THEN "idle" ELSE "init")
    /\ UNCHANGED <<driverVars, sessions, kind, live, created, tDev, local, handle>>

lazyInitialize(t) ==
    /\ tPc[t] = "init"
    /\ UNCHANGED <<config, phase, lastCall, inits, tDev, local, handle>>
    /\ finalized' = FALSE
    /\ \/ initializeOk(tDev[t]) /\ Goto(t, "relook")
       \/ initializeThrows(tDev[t]) /\ Goto(t, "idle")

(* Mutant of relookSession: the result of the second lookup is not tested. *)
relookSessionUnchecked(t) ==
    /\ tPc[t] = "relook"
    /\ local' = [local EXCEPT ![t] = sessions[tDev[t]]]
    /\ Goto(t, "have")
    /\ UNCHANGED <<driverVars, sessions, kind, live, created, tDev, handle>>

relookSession(t) ==
    /\ tPc[t] = "relook"
    /\ local' = [local EXCEPT ![t] = sessions[tDev[t]]]
    /\ Goto(t, IF sessions[tDev[t]] = None THEN "idle" ELSE "have")
    /\ UNCHANGED <<driverVars, sessions, kind, live, created, tDev, handle>>

(* The channel leases a frame, or refuses and the local owner goes.        *)
leaseFrame(t) ==
    /\ tPc[t] = "have"
    /\ local' = [local EXCEPT ![t] = None]
    /\ \/ handle' = [handle EXCEPT ![t] = local[t]] /\ Goto(t, "leased")
       \/ UNCHANGED handle /\ Goto(t, "idle")
    /\ UNCHANGED <<driverVars, sessions, kind, created, tDev>>
    /\ DropUnowned({})

releaseFrame(t) ==
    /\ tPc[t] = "leased"
    /\ handle' = [handle EXCEPT ![t] = None]
    /\ Goto(t, "idle")
    /\ UNCHANGED <<driverVars, sessions, kind, created, tDev, local>>
    /\ DropUnowned({})

Next ==
    \/ configure \/ initializeMode \/ finalize
    \/ \E t \in Threads :
          \/ lookupSession(t) \/ isFinalized(t) \/ lazyInitialize(t)
          \/ relookSession(t) \/ leaseFrame(t) \/ releaseFrame(t)

Spec == Init /\ [][Next]_vars

-----------------------------------------------------------------------------

(* Whoever can reach a session finds it running: a table entry, an acquire *)
(* in progress or a frame handle, however finalize and initialize race     *)
(* with calls.                                                             *)
ReachableSessionsLive ==
    /\ \A d \in Devices : sessions[d] # None => sessions[d] \in live
    /\ \A t \in Threads : /\ local[t] # None => local[t] \in live
                          /\ handle[t] # None => handle[t] \in live

(* Threads that race to create a device's session lazily share one: a      *)
(* device gets at most one session until the table is next emptied.        *)
LazyInitializeOnce == \A d \in Devices : created[d] <= 1

(* Once the runtime is finalized and the calls in flight are over, every   *)
(* session has been stopped.                                               *)
FinalizeStopsAll ==
    /\ lastCall = "finalize" /\ phase = "idle" /\ finalized
    /\ \A t \in Threads : tPc[t] = "idle"
    => live = {}

(* While the latch is set nothing has been created lazily: the only        *)
(* session is the external default one that configure builds, whether or   *)
(* not initialize has re-armed the latch.                                  *)
LatchedServesDefaultOnly ==
    finalized => \A d \in Devices \ {DefaultDeviceId} : sessions[d] = None

(* A device with endpoint arguments of its own is never served by another  *)
(* device's session, in whatever order the devices are first used.         *)
EndpointsNotShared ==
    config.enabled =>
        \A d \in config.scoped \ {DefaultDeviceId}, e \in Devices :
            sessions[d] # None /\ sessions[d] = sessions[e] => d = e

(* finalize is final as far as the latch reaches: sessions are stopped,    *)
(* and none but the default one exists while the latch is set.             *)
LatchHolds == FinalizeStopsAll /\ LatchedServesDefaultOnly

(* A device has one session at a time, and one that is its own if it has   *)
(* endpoint arguments of its own.                                          *)
SessionsPerDevice == LazyInitializeOnce /\ EndpointsNotShared

(* A finalized driver publishes no session until it is initialized again.  *)
NoResurrection ==
    lastCall = "finalize" /\ phase = "idle" /\ config.enabled => sessions = Empty

(* After an explicit initialize the lazy path is open again.               *)
InitializeRearms ==
    lastCall = "initialize" /\ phase = "idle" /\ config.enabled => ~finalized

(* A device is served by the kind of channel it is configured with.        *)
SessionMatchesConfig ==
    \A d \in Devices :
        sessions[d] # None /\ config.enabled => kind[sessions[d]] = config.chan[d]

-----------------------------------------------------------------------------
(* The inductive invariants behind LatchHolds and SessionsPerDevice.       *)

(* A thread owns sessions only where acquire and dispatch do, and every    *)
(* running session has an owner.                                           *)
OwnersOnly ==
    /\ \A t \in Threads : /\ local[t] # None => tPc[t] = "have"
                          /\ handle[t] # None => tPc[t] = "leased"
    /\ live \subseteq Owners(sessions, local, handle)

(* Where the latch is set, what was published since is the default session *)
(* of an external configuration.                                           *)
LatchedEmpty ==
    finalized => \/ sessions = Empty
                 \/ config.enabled /\ ~(lastCall = "finalize" /\ phase = "idle")

LatchInv == OwnersOnly /\ LatchedEmpty /\ LatchedServesDefaultOnly

(* Session ids are handed out in order, and the table holds no others.     *)
IdsInOrder ==
    \E n \in 0 .. MaxSessions : \A s \in Ids : kind[s] # "unused" <=> s <= n
TableUsed == \A d \in Devices : sessions[d] # None => kind[sessions[d]] # "unused"

(* What was created for a device still serves it.                          *)
CreatedServes == \A d \in Devices : created[d] # 0 => initialized(d)

TableInv ==
    IdsInOrder /\ TableUsed /\ CreatedServes /\ SessionsPerDevice

=============================================================================
