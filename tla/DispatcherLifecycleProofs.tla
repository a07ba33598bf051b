---------------------- MODULE DispatcherLifecycleProofs ----------------------
(***************************************************************************)
(* Proofs about DispatcherLifecycle and BridgeRegistry, for any number of  *)
(* managers, bridges, dispatchers and loops: the registry names exactly    *)
(* the bridges that exist, a disconnect is final, no bridge has two        *)
(* consumers, no module is unloaded under its kernel, and `running' tells  *)
(* the truth.                                                              *)
(***************************************************************************)
EXTENDS DispatcherLifecycle, TLAPS

-----------------------------------------------------------------------------
(* Bridges.                                                                *)

(* A step of m alone.                                                      *)
Only(m) ==
    \A n \in Managers \ {m} :
        mPc'[n] = mPc[n] /\ mOp'[n] = mOp[n] /\ mBridge'[n] = mBridge[n]

(* A bridge has the same provider, shape and geometry as before.           *)
SameBridge(h) ==
    /\ bridges'[h] \in Contexts /\ bridges'[h] # None
    /\ bridges'[h].lib = bridges[h].lib /\ bridges'[h].unified = bridges[h].unified
    /\ bridges'[h].slots = bridges[h].slots

LEMMA LiveContext ==
    ASSUME RegistryTypeOK, NEW h \in Handles, Live(h)
    PROVE  /\ bridges[h] \in Contexts
           /\ bridges[h].lib \in Libraries /\ bridges[h].io \in {"open", "closed"}
           /\ bridges[h].launched \in BOOLEAN /\ bridges[h].connected \in BOOLEAN
           /\ bridges[h].listening \in BOOLEAN /\ bridges[h].fpga \in BOOLEAN
           /\ bridges[h].unified \in BOOLEAN
  BY DEF RegistryTypeOK, Live, Contexts

(* The other managers do not notice what happens to a bridge that is not   *)
(* theirs.                                                                 *)
LEMMA OthersOpen ==
    ASSUME RegistryInv, NEW m \in Managers, Only(m),
           \A n \in Managers \ {m} :
              mBridge[n] # None => bridges'[mBridge[n]] = bridges[mBridge[n]]
    PROVE  \A n \in Managers \ {m} : CallPlaced(n)' /\ CallOpen(n)'
  <1> SUFFICES ASSUME NEW n \in Managers \ {m}
               PROVE  CallPlaced(n)' /\ CallOpen(n)'
    OBVIOUS
  <1>1. /\ mPc'[n] = mPc[n] /\ mOp'[n] = mOp[n] /\ mBridge'[n] = mBridge[n]
        /\ CallPlaced(n) /\ CallOpen(n)
    BY DEF Only, RegistryInv
  <1>2. CallPlaced(n)'
    BY <1>1 DEF CallPlaced
  <1>3. CallOpen(n)'
    <2> SUFFICES ASSUME mBridge'[n] # None PROVE CallOpen(n)'
      BY DEF CallOpen
    <2>1. bridges'[mBridge'[n]] = bridges[mBridge[n]]
      BY <1>1
    <2> QED
      BY <1>1, <2>1 DEF CallOpen, Live, Ctx, Unjoined
  <1> QED
    BY <1>2, <1>3

(* Nobody but m has hold of the bridge m has hold of.                      *)
LEMMA Alone ==
    ASSUME RegistryInv, NEW m \in Managers, mBridge[m] # None
    PROVE  /\ mBridge[m] \in Handles /\ Live(mBridge[m])
           /\ \A n \in Managers \ {m} : mBridge[n] # mBridge[m]
  BY DEF RegistryInv, RegistryTypeOK, OneCaller, CallOpen

(* Returning lets go of the bridge.                                        *)
LEMMA Return ==
    ASSUME RegistryInv, NEW m \in Managers, Returned(m)
    PROVE  /\ Only(m) /\ OneCaller' /\ CallPlaced(m)' /\ CallOpen(m)'
           /\ mPc' \in [Managers -> {"idle", "lock", "found", "callback", "accept", "spawn", "join"}]
           /\ mOp' \in [Managers -> {"create", "destroy", "connect", "launch", "disconnect", None}]
           /\ mBridge' \in [Managers -> Handles \cup {None}]
           /\ mPc'[m] = "idle" /\ mOp'[m] = None /\ mBridge'[m] = None
  <1>1. /\ mPc' \in [Managers -> {"idle", "lock", "found", "callback", "accept", "spawn", "join"}]
        /\ mOp' \in [Managers -> {"create", "destroy", "connect", "launch", "disconnect", None}]
        /\ mBridge' \in [Managers -> Handles \cup {None}]
        /\ mPc'[m] = "idle" /\ mOp'[m] = None /\ mBridge'[m] = None
    BY DEF Returned, RegistryInv, RegistryTypeOK
  <1>2. Only(m)
    BY DEF Returned, RegistryInv, RegistryTypeOK, Only
  <1>3. OneCaller'
    BY <1>1, <1>2 DEF OneCaller, RegistryInv, Only
  <1> QED
    BY <1>1, <1>2, <1>3 DEF CallPlaced, CallOpen

(* What is left to show of a provider's step: m updates its own bridge h   *)
(* and returns or goes on.                                                 *)
LEMMA ProviderStep ==
    ASSUME RegistryInv, NEW m \in Managers, NEW h \in Handles, mBridge[m] = h,
           Only(m), OneCaller', RegistryTypeOK', UNCHANGED <<registry, aborted>>,
           \A k \in Handles \ {h} : bridges'[k] = bridges[k],
           SameBridge(h), CallPlaced(m)', CallOpen(m)', ClosedAtRest(h)'
    PROVE  RegistryInv'
  <1>0. h # None
    BY RegistryAssumption
  <1>1. Live(h) /\ \A n \in Managers \ {m} : mBridge[n] # h
    BY <1>0, Alone
  <1>2. \A n \in Managers \ {m} : CallPlaced(n)' /\ CallOpen(n)'
    <2>1. \A n \in Managers \ {m} : mBridge[n] \in Handles \cup {None}
      BY DEF RegistryInv, RegistryTypeOK
    <2> QED
      BY <1>1, <2>1, OthersOpen
  <1>3. ASSUME NEW k \in Handles \ {h} PROVE ClosedAtRest(k)'
    <2>1. ClosedAtRest(k) /\ bridges'[k] = bridges[k]
      BY DEF RegistryInv
    <2>2. \A n \in Managers : mBridge[n] = k /\ mPc[n] = "join" =>
            mBridge'[n] = k /\ mPc'[n] = "join"
      BY DEF Only
    <2> QED
      BY <2>1, <2>2 DEF ClosedAtRest, Live
  <1>4. RegistryExact'
    <2> SUFFICES ASSUME NEW k \in Handles
                 PROVE  registry'[k] = IF bridges'[k] # None THEN bridges'[k].lib ELSE None
      BY DEF RegistryExact, Live
    <2>1. registry[k] = IF bridges[k] # None THEN bridges[k].lib ELSE None
      BY DEF RegistryInv, RegistryExact, Live
    <2>2. CASE k = h
      BY <1>1, <2>1, <2>2 DEF SameBridge, Live
    <2>3. CASE k # h
      BY <2>1, <2>3
    <2> QED
      BY <2>2, <2>3
  <1>5. NoAbort'
    BY DEF NoAbort, RegistryInv
  <1>6. \A n \in Managers : CallPlaced(n)' /\ CallOpen(n)'
    BY <1>2
  <1>7. \A k \in Handles : ClosedAtRest(k)'
    BY <1>1, <1>3
  <1> QED
    BY <1>4, <1>5, <1>6, <1>7 DEF RegistryInv

(* A step of m that touches no bridge.                                     *)
LEMMA CallStep ==
    ASSUME RegistryInv, NEW m \in Managers, mPc[m] # "join",
           Only(m), OneCaller', RegistryTypeOK', UNCHANGED <<registry, bridges, aborted>>,
           CallPlaced(m)', CallOpen(m)'
    PROVE  RegistryInv'
  <1>1. \A n \in Managers : CallPlaced(n)' /\ CallOpen(n)'
    BY OthersOpen
  <1>2. ASSUME NEW k \in Handles PROVE ClosedAtRest(k)'
    <2>1. ClosedAtRest(k)
      BY DEF RegistryInv
    <2>2. \A n \in Managers : mBridge[n] = k /\ mPc[n] = "join" =>
            mBridge'[n] = k /\ mPc'[n] = "join"
      BY DEF Only
    <2> QED
      BY <2>1, <2>2 DEF ClosedAtRest, Live
  <1>3. RegistryExact' /\ NoAbort'
    BY DEF RegistryInv, RegistryExact, NoAbort, Live
  <1> QED
    BY <1>1, <1>2, <1>3 DEF RegistryInv

(* No bridge that lasts changes in what dispatchers have asked it for, and *)
(* none is about to go.                                                    *)
Harmless == \A h \in Handles : Lasting(h) => SameBridge(h) /\ ~Ending(h)'

LEMMA NoDestroyBegins ==
    ASSUME NEW m \in Managers, Only(m), mOp'[m] = "destroy" => mBridge'[m] = None,
           NEW h \in Handles
    PROVE  Ending(h)' => Ending(h)
  BY RegistryAssumption DEF Ending, Only

LEMMA ProviderHarmless ==
    ASSUME RegistryInv, NEW m \in Managers, NEW h \in Handles, Only(m),
           mOp'[m] = "destroy" => mBridge'[m] = None,
           \A k \in Handles \ {h} : bridges'[k] = bridges[k], Live(h) => SameBridge(h)
    PROVE  Harmless
  <1> SUFFICES ASSUME NEW k \in Handles, Live(k), ~Ending(k)
               PROVE  SameBridge(k) /\ ~Ending(k)'
    BY DEF Harmless, Lasting
  <1>1. SameBridge(k)
    <2>1. bridges[k] \in Contexts
      BY LiveContext DEF RegistryInv
    <2>2. CASE k # h
      BY <2>1, <2>2 DEF SameBridge, Live
    <2> QED
      BY <2>2
  <1> QED
    BY <1>1, NoDestroyBegins

LEMMA CallHarmless ==
    ASSUME RegistryInv, NEW m \in Managers, Only(m),
           mOp'[m] = "destroy" => mBridge'[m] = None, UNCHANGED bridges
    PROVE  Harmless
  <1> SUFFICES ASSUME NEW k \in Handles, Live(k), ~Ending(k)
               PROVE  SameBridge(k) /\ ~Ending(k)'
    BY DEF Harmless, Lasting
  <1>1. bridges[k] \in Contexts
    BY LiveContext DEF RegistryInv
  <1> QED
    BY <1>1, NoDestroyBegins DEF SameBridge, Live

(* What m does in its call goes no further than m.                         *)
LEMMA Going ==
    ASSUME RegistryInv, NEW m \in Managers, UNCHANGED <<mOp, mBridge>>,
           NEW p \in {"found", "callback", "accept", "spawn", "join"},
           mPc' = [mPc EXCEPT ![m] = p]
    PROVE  /\ Only(m) /\ OneCaller'
           /\ mPc' \in [Managers -> {"idle", "lock", "found", "callback", "accept", "spawn", "join"}]
           /\ mPc'[m] = p
  BY DEF RegistryInv, RegistryTypeOK, Only, OneCaller

LEMMA EnterStep ==
    ASSUME RegistryInv, NEW m \in Managers, enterProvider(m)
    PROVE  RegistryInv' /\ Harmless
  <1>1. /\ mPc[m] = "found" /\ mPc' = [mPc EXCEPT ![m] = "callback"]
        /\ UNCHANGED <<loaded, registry, bridges, mOp, mBridge, aborted>>
    BY DEF enterProvider
  <1>2. Only(m) /\ OneCaller' /\ mPc'[m] = "callback"
    BY <1>1, Going
  <1>3. RegistryTypeOK'
    BY <1>1, Going DEF RegistryInv, RegistryTypeOK
  <1>4. CallPlaced(m) /\ CallOpen(m)
    BY DEF RegistryInv
  <1>5. CallPlaced(m)' /\ CallOpen(m)'
    BY <1>1, <1>2, <1>4 DEF CallPlaced, CallOpen, Live, Ctx, Unjoined
  <1>6. mOp'[m] # "destroy"
    BY <1>1, <1>4 DEF CallPlaced
  <1> QED
    BY <1>1, <1>2, <1>3, <1>5, <1>6, CallStep, CallHarmless

(* A manager inside a provider has a bridge that exists to itself.         *)
LEMMA Inside ==
    ASSUME RegistryInv, NEW m \in Managers, mPc[m] \notin {"idle", "lock"}
    PROVE  /\ mBridge[m] \in Handles /\ Live(mBridge[m]) /\ mBridge[m] # None
           /\ mOp[m] # "destroy" /\ CallPlaced(m) /\ CallOpen(m)
           /\ ClosedAtRest(mBridge[m])
  <1>1. mBridge[m] # None /\ mOp[m] # "destroy" /\ CallPlaced(m) /\ CallOpen(m)
    BY DEF RegistryInv, CallPlaced
  <1>2. mBridge[m] \in Handles /\ Live(mBridge[m])
    BY <1>1, Alone
  <1> QED
    BY <1>1, <1>2 DEF RegistryInv

(* A provider's step that ends the call.                                   *)
LEMMA ReturnStep ==
    ASSUME RegistryInv, NEW m \in Managers, NEW h \in Handles, mBridge[m] = h,
           Returned(m), bridges' \in [Handles -> Contexts \cup {None}],
           UNCHANGED <<loaded, registry, aborted>>,
           \A k \in Handles \ {h} : bridges'[k] = bridges[k],
           SameBridge(h), ClosedAtRest(h)'
    PROVE  RegistryInv' /\ Harmless
  <1>1. /\ Only(m) /\ OneCaller' /\ CallPlaced(m)' /\ CallOpen(m)'
        /\ mBridge'[m] = None
    BY Return
  <1>2. RegistryTypeOK'
    BY Return DEF RegistryInv, RegistryTypeOK
  <1> QED
    BY <1>1, <1>2, ProviderStep, ProviderHarmless

LEMMA ConnectStep ==
    ASSUME RegistryInv, NEW m \in Managers, connect(m)
    PROVE  RegistryInv' /\ Harmless
  <1>0. PICK h \in Handles : h = mBridge[m]
    BY Inside DEF connect, In
  <1>1. /\ mPc[m] = "callback" /\ mOp[m] = "connect" /\ Live(h)
        /\ h # None /\ CallPlaced(m) /\ CallOpen(m) /\ ClosedAtRest(h)
        /\ UNCHANGED <<loaded, registry, aborted>>
    BY <1>0, Inside DEF connect, In
  <1>2. bridges[h] \in Contexts /\ bridges[h].connected \in BOOLEAN /\ bridges[h].fpga \in BOOLEAN
    BY <1>1, LiveContext DEF RegistryInv
  <1>3. CASE mPc' = [mPc EXCEPT ![m] = "accept"] /\ UNCHANGED <<bridges, mOp, mBridge>>
    <2>1. Only(m) /\ OneCaller' /\ mPc'[m] = "accept"
      BY <1>3, Going
    <2>2. RegistryTypeOK'
      BY <1>1, <1>3, Going DEF RegistryInv, RegistryTypeOK
    <2>3. CallPlaced(m)' /\ CallOpen(m)'
      BY <1>1, <1>3, <2>1 DEF CallPlaced, CallOpen, Live, Ctx, Unjoined
    <2> QED
      BY <1>1, <1>3, <2>1, <2>2, <2>3, CallStep, CallHarmless
  <1>4. CASE /\ bridges' = [bridges EXCEPT ![h].connected = @ \/ bridges[h].fpga]
             /\ Returned(m)
    <2>1. /\ \A k \in Handles \ {h} : bridges'[k] = bridges[k]
          /\ bridges' \in [Handles -> Contexts \cup {None}]
          /\ bridges'[h] \in Contexts
          /\ bridges'[h].lib = bridges[h].lib /\ bridges'[h].unified = bridges[h].unified
          /\ bridges'[h].slots = bridges[h].slots /\ bridges'[h].io = bridges[h].io
      BY <1>2, <1>4 DEF RegistryInv, RegistryTypeOK, Contexts
    <2>2. SameBridge(h)
      BY <2>1, RegistryAssumption DEF SameBridge
    <2>3. ClosedAtRest(h)'
      BY <1>0, <1>1, <2>1 DEF ClosedAtRest, CallOpen, Ctx
    <2> QED
      BY <1>0, <1>1, <1>4, <2>1, <2>2, <2>3, ReturnStep
  <1> QED
    BY <1>0, <1>3, <1>4 DEF connect, Ctx

LEMMA AcceptStep ==
    ASSUME RegistryInv, NEW m \in Managers, accepted(m)
    PROVE  RegistryInv' /\ Harmless
  <1>0. PICK h \in Handles : h = mBridge[m]
    BY Inside DEF accepted
  <1>1. /\ mPc[m] = "accept" /\ Live(h) /\ Returned(m)
        /\ h # None /\ CallPlaced(m) /\ CallOpen(m)
        /\ UNCHANGED <<loaded, registry, aborted>>
    BY <1>0, Inside DEF accepted
  <1>2. bridges[h] \in Contexts
    BY <1>1, LiveContext DEF RegistryInv
  <1>3. PICK ok \in BOOLEAN :
           bridges' = [bridges EXCEPT ![h].listening = FALSE, ![h].connected = ok]
    BY <1>0 DEF accepted
  <1>4. /\ \A k \in Handles \ {h} : bridges'[k] = bridges[k]
        /\ bridges' \in [Handles -> Contexts \cup {None}]
        /\ bridges'[h] \in Contexts
        /\ bridges'[h].lib = bridges[h].lib /\ bridges'[h].unified = bridges[h].unified
        /\ bridges'[h].slots = bridges[h].slots /\ bridges'[h].io = bridges[h].io
    BY <1>2, <1>3 DEF RegistryInv, RegistryTypeOK, Contexts
  <1>5. SameBridge(h)
    BY <1>4, RegistryAssumption DEF SameBridge
  <1>6. ClosedAtRest(h)'
    BY <1>0, <1>1, <1>4 DEF ClosedAtRest, CallPlaced, CallOpen, Ctx
  <1> QED
    BY <1>0, <1>1, <1>4, <1>5, <1>6, ReturnStep

(* A call that is not a disconnect ends without a trace of who joins.      *)
LEMMA Leaves ==
    ASSUME RegistryInv, NEW m \in Managers, NEW h \in Handles, mPc[m] # "join", Only(m),
           ClosedAtRest(h), bridges'[h].io = bridges[h].io,
           bridges[h].io = "closed" => bridges'[h] = bridges[h]
    PROVE  ClosedAtRest(h)'
  <1>1. \A n \in Managers : mBridge[n] = h /\ mPc[n] = "join" =>
          mBridge'[n] = h /\ mPc'[n] = "join"
    BY DEF Only
  <1> QED
    BY <1>1 DEF ClosedAtRest, Live

LEMMA LaunchStep ==
    ASSUME RegistryInv, NEW m \in Managers, launch(m)
    PROVE  RegistryInv' /\ Harmless
  <1>0. PICK h \in Handles : h = mBridge[m]
    BY Inside DEF launch, In
  <1>1. /\ mPc[m] = "callback" /\ mOp[m] = "launch" /\ Live(h)
        /\ h # None /\ CallPlaced(m) /\ CallOpen(m) /\ ClosedAtRest(h)
        /\ UNCHANGED <<loaded, registry, aborted>>
    BY <1>0, Inside DEF launch, In
  <1>2. bridges[h] \in Contexts /\ bridges[h].io \in {"open", "closed"}
    BY <1>1, LiveContext DEF RegistryInv
  <1>3. CASE /\ (bridges[h].lib = "cpu_roce" /\ bridges[h].connected) \/ bridges[h].lib = "gpu_roce"
             /\ mPc' = [mPc EXCEPT ![m] = "spawn"] /\ UNCHANGED <<bridges, mOp, mBridge>>
    <2>1. Only(m) /\ OneCaller' /\ mPc'[m] = "spawn"
      BY <1>3, Going
    <2>2. RegistryTypeOK'
      BY <1>1, <1>3, Going DEF RegistryInv, RegistryTypeOK
    <2>3. bridges[h].io = "open"
      BY <1>0, <1>1, <1>2, <1>3 DEF ClosedAtRest, CallOpen, Ctx
    <2>4. CallPlaced(m)' /\ CallOpen(m)'
      BY <1>0, <1>1, <1>3, <2>1, <2>3 DEF CallPlaced, CallOpen, Live, Ctx, Unjoined
    <2> QED
      BY <1>1, <1>3, <2>1, <2>2, <2>4, CallStep, CallHarmless
  <1>4. CASE /\ bridges' = IF bridges[h].lib = "udp" /\ bridges[h].io = "open"
                             THEN [bridges EXCEPT ![h].launched = TRUE] ELSE bridges
             /\ Returned(m)
    <2>1. /\ \A k \in Handles \ {h} : bridges'[k] = bridges[k]
          /\ bridges' \in [Handles -> Contexts \cup {None}]
          /\ bridges'[h] \in Contexts
          /\ bridges'[h].lib = bridges[h].lib /\ bridges'[h].unified = bridges[h].unified
          /\ bridges'[h].slots = bridges[h].slots /\ bridges'[h].io = bridges[h].io
          /\ bridges[h].io = "closed" => bridges'[h] = bridges[h]
      BY <1>2, <1>4 DEF RegistryInv, RegistryTypeOK, Contexts
    <2>2. SameBridge(h)
      BY <2>1, RegistryAssumption DEF SameBridge
    <2>3. ClosedAtRest(h)'
      BY <1>1, <1>4, <2>1, Return, Leaves
    <2> QED
      BY <1>0, <1>1, <1>4, <2>1, <2>2, <2>3, ReturnStep
  <1> QED
    BY <1>0, <1>3, <1>4 DEF launch, Ctx

LEMMA SpawnStep ==
    ASSUME RegistryInv, NEW m \in Managers, spawn(m)
    PROVE  RegistryInv' /\ Harmless
  <1>0. PICK h \in Handles : h = mBridge[m]
    BY Inside DEF spawn
  <1>1. /\ mPc[m] = "spawn" /\ Live(h) /\ Returned(m)
        /\ h # None /\ CallPlaced(m) /\ CallOpen(m)
        /\ UNCHANGED <<loaded, registry>>
        /\ bridges' = [bridges EXCEPT ![h].launched = TRUE]
        /\ aborted' = (aborted \/ Unjoined(h))
    BY <1>0, Inside DEF spawn
  <1>2. bridges[h] \in Contexts
    BY <1>1, LiveContext DEF RegistryInv
  <1>3. UNCHANGED aborted
    <2>1. ~Unjoined(h)
      BY <1>0, <1>1 DEF CallPlaced, CallOpen, Unjoined, Ctx
    <2>2. aborted = FALSE
      BY DEF RegistryInv, NoAbort, RegistryTypeOK
    <2> QED
      BY <1>1, <2>1, <2>2
  <1>4. /\ \A k \in Handles \ {h} : bridges'[k] = bridges[k]
        /\ bridges' \in [Handles -> Contexts \cup {None}]
        /\ bridges'[h] \in Contexts
        /\ bridges'[h].lib = bridges[h].lib /\ bridges'[h].unified = bridges[h].unified
        /\ bridges'[h].slots = bridges[h].slots /\ bridges'[h].io = bridges[h].io
    BY <1>1, <1>2 DEF RegistryInv, RegistryTypeOK, Contexts
  <1>5. SameBridge(h)
    BY <1>4, RegistryAssumption DEF SameBridge
  <1>6. ClosedAtRest(h)'
    BY <1>0, <1>1, <1>4 DEF ClosedAtRest, CallOpen, Ctx
  <1> QED
    BY <1>0, <1>1, <1>3, <1>4, <1>5, <1>6, ReturnStep

LEMMA DisconnectStep ==
    ASSUME RegistryInv, NEW m \in Managers, disconnect(m)
    PROVE  RegistryInv' /\ Harmless
  <1>0. PICK h \in Handles : h = mBridge[m]
    BY Inside DEF disconnect, In
  <1>1. /\ mPc[m] = "callback" /\ mOp[m] = "disconnect" /\ Live(h) /\ h # None
        /\ UNCHANGED <<loaded, registry, mOp, mBridge, aborted>>
        /\ bridges' = [bridges EXCEPT ![h].connected = FALSE, ![h].io = "closed"]
        /\ mPc' = [mPc EXCEPT ![m] = "join"]
    BY <1>0, Inside DEF disconnect, In
  <1>2. bridges[h] \in Contexts
    BY <1>1, LiveContext DEF RegistryInv
  <1>3. Only(m) /\ OneCaller' /\ mPc'[m] = "join"
    BY <1>1, Going
  <1>4. /\ \A k \in Handles \ {h} : bridges'[k] = bridges[k]
        /\ bridges' \in [Handles -> Contexts \cup {None}]
        /\ bridges'[h] \in Contexts /\ bridges'[h].connected = FALSE
        /\ bridges'[h].lib = bridges[h].lib /\ bridges'[h].unified = bridges[h].unified
        /\ bridges'[h].slots = bridges[h].slots
    BY <1>1, <1>2 DEF RegistryInv, RegistryTypeOK, Contexts
  <1>5. SameBridge(h)
    BY <1>4, RegistryAssumption DEF SameBridge
  <1>6. ClosedAtRest(h)'
    BY <1>0, <1>1, <1>3, <1>4 DEF ClosedAtRest
  <1>7. RegistryTypeOK'
    BY <1>1, <1>4, Going DEF RegistryInv, RegistryTypeOK
  <1>8. CallPlaced(m)' /\ CallOpen(m)'
    BY <1>0, <1>1, <1>3, <1>5 DEF CallPlaced, CallOpen, SameBridge, Live
  <1> QED
    BY <1>0, <1>1, <1>3, <1>4, <1>5, <1>6, <1>7, <1>8, ProviderStep, ProviderHarmless

LEMMA JoinStep ==
    ASSUME RegistryInv, NEW m \in Managers, joined(m)
    PROVE  RegistryInv' /\ Harmless
  <1>0. PICK h \in Handles : h = mBridge[m]
    BY Inside DEF joined
  <1>1. /\ mPc[m] = "join" /\ Live(h) /\ Returned(m) /\ ClosedAtRest(h)
        /\ UNCHANGED <<loaded, registry, aborted>>
        /\ bridges' = [bridges EXCEPT ![h].launched = FALSE]
    BY <1>0, Inside DEF joined
  <1>2. bridges[h] \in Contexts
    BY <1>1, LiveContext DEF RegistryInv
  <1>3. /\ \A k \in Handles \ {h} : bridges'[k] = bridges[k]
        /\ bridges' \in [Handles -> Contexts \cup {None}]
        /\ bridges'[h] \in Contexts /\ bridges'[h].launched = FALSE
        /\ bridges'[h].lib = bridges[h].lib /\ bridges'[h].unified = bridges[h].unified
        /\ bridges'[h].slots = bridges[h].slots /\ bridges'[h].io = bridges[h].io
        /\ bridges'[h].connected = bridges[h].connected
    BY <1>1, <1>2 DEF RegistryInv, RegistryTypeOK, Contexts
  <1>4. SameBridge(h)
    BY <1>3, RegistryAssumption DEF SameBridge
  <1>5. ClosedAtRest(h)'
    BY <1>1, <1>3 DEF ClosedAtRest, Live
  <1> QED
    BY <1>0, <1>1, <1>3, <1>4, <1>5, ReturnStep

-----------------------------------------------------------------------------
(* create, destroy, and how the calls begin.                               *)

(* A bridge comes or goes, at an address that nobody else has hold of.     *)
LEMMA RegistryChange ==
    ASSUME RegistryInv, NEW m \in Managers, mPc[m] = "lock", Returned(m),
           NEW h \in Handles, \A n \in Managers \ {m} : mBridge[n] # h,
           NEW b \in Contexts \cup {None},
           b # None => b.launched = FALSE /\ b.io = "open",
           loaded' \subseteq Libraries, UNCHANGED aborted,
           bridges' = [bridges EXCEPT ![h] = b],
           registry' = [registry EXCEPT ![h] = IF b = None THEN None ELSE b.lib]
    PROVE  /\ RegistryInv' /\ Only(m) /\ mOp'[m] = None /\ mBridge'[m] = None
           /\ \A k \in Handles \ {h} : bridges'[k] = bridges[k]
  <1>1. /\ bridges' \in [Handles -> Contexts \cup {None}] /\ bridges'[h] = b
        /\ \A k \in Handles \ {h} : bridges'[k] = bridges[k] /\ registry'[k] = registry[k]
        /\ registry'[h] = IF b = None THEN None ELSE b.lib
    BY DEF RegistryInv, RegistryTypeOK
  <1>2. /\ Only(m) /\ OneCaller' /\ CallPlaced(m)' /\ CallOpen(m)'
        /\ mOp'[m] = None /\ mBridge'[m] = None
    BY Return
  <1>3. RegistryTypeOK'
    <2>1. registry' \in [Handles -> Libraries \cup {None}]
      BY DEF RegistryInv, RegistryTypeOK, Contexts
    <2> QED
      BY <1>1, <2>1, Return DEF RegistryInv, RegistryTypeOK
  <1>4. \A n \in Managers : CallPlaced(n)' /\ CallOpen(n)'
    <2>1. \A n \in Managers \ {m} : mBridge[n] \in Handles \cup {None}
      BY DEF RegistryInv, RegistryTypeOK
    <2> QED
      BY <1>1, <1>2, <2>1, OthersOpen
  <1>5. ASSUME NEW k \in Handles PROVE ClosedAtRest(k)'
    <2>1. CASE k = h
      BY <1>1, <2>1 DEF ClosedAtRest, Live
    <2>2. CASE k # h
      <3>1. ClosedAtRest(k) /\ bridges'[k] = bridges[k]
        BY <1>1, <2>2 DEF RegistryInv
      <3> QED
        BY <1>2, <3>1, Leaves
    <2> QED
      BY <2>1, <2>2
  <1>6. RegistryExact'
    BY <1>1 DEF RegistryInv, RegistryExact, Live
  <1>7. NoAbort'
    BY DEF RegistryInv, NoAbort
  <1> QED
    BY <1>1, <1>2, <1>3, <1>4, <1>5, <1>6, <1>7 DEF RegistryInv

LEMMA DestroyStep ==
    ASSUME RegistryInv, NEW m \in Managers, destroyBridge(m)
    PROVE  RegistryInv' /\ Harmless
  <1>1. /\ mPc[m] = "lock" /\ mOp[m] = "destroy" /\ Returned(m) /\ UNCHANGED loaded
        /\ bridges' = [bridges EXCEPT ![mBridge[m]] = None]
        /\ registry' = [registry EXCEPT ![mBridge[m]] = None]
        /\ aborted' = (aborted \/ Unjoined(mBridge[m]))
    BY DEF destroyBridge, Exclusive
  <1>2. CallPlaced(m) /\ CallOpen(m)
    BY DEF RegistryInv
  <1>3. mBridge[m] # None
    BY <1>1, <1>2 DEF CallPlaced
  <1>4. PICK h \in Handles : h = mBridge[m]
    BY <1>3, Alone
  <1>5. \A n \in Managers \ {m} : mBridge[n] # h
    BY <1>3, <1>4, Alone
  <1>6. UNCHANGED aborted
    <2>1. ~Unjoined(mBridge[m])
      BY <1>1, <1>2, <1>3 DEF CallOpen
    <2>2. aborted = FALSE
      BY DEF RegistryInv, NoAbort, RegistryTypeOK
    <2> QED
      BY <1>1, <2>1, <2>2
  <1>7. loaded' \subseteq Libraries
    BY <1>1 DEF RegistryInv, RegistryTypeOK
  <1>8. /\ RegistryInv' /\ Only(m) /\ mBridge'[m] = None
        /\ \A k \in Handles \ {h} : bridges'[k] = bridges[k]
    BY <1>1, <1>4, <1>5, <1>6, <1>7, RegistryChange
  <1>9. ~Lasting(h)
    BY <1>1, <1>4 DEF Lasting, Ending
  <1>10. ASSUME NEW k \in Handles, Lasting(k) PROVE SameBridge(k) /\ ~Ending(k)'
    <2>1. bridges'[k] = bridges[k] /\ bridges[k] \in Contexts
      BY <1>8, <1>9, <1>10, LiveContext DEF Lasting, RegistryInv
    <2> QED
      BY <1>8, <1>10, <2>1, NoDestroyBegins DEF SameBridge, Lasting, Live
  <1> QED
    BY <1>8, <1>10 DEF Harmless

LEMMA CreateStep ==
    ASSUME RegistryInv, NEW m \in Managers, NEW b \in Setups, create(m, b)
    PROVE  RegistryInv' /\ Harmless
  <1>1. PICK h \in Handles :
          /\ ~Live(h) /\ bridges' = [bridges EXCEPT ![h] = Context(b)]
          /\ registry' = [registry EXCEPT ![h] = b.lib]
    BY DEF create
  <1>2. /\ mPc[m] = "lock" /\ Returned(m) /\ UNCHANGED aborted
        /\ loaded' = loaded \cup {b.lib}
    BY DEF create, Exclusive
  <1>3. /\ Context(b) \in Contexts /\ Context(b).lib = b.lib
        /\ Context(b).launched = FALSE /\ Context(b).io = "open"
    BY DEF Context, Contexts, Setups
  <1>4. Context(b) # None
    BY <1>3, RegistryAssumption
  <1>5. loaded' \subseteq Libraries
    BY <1>2 DEF RegistryInv, RegistryTypeOK, Setups
  <1>6. \A n \in Managers \ {m} : mBridge[n] # h
    BY <1>1, RegistryAssumption DEF RegistryInv, CallOpen
  <1>7. /\ RegistryInv' /\ Only(m) /\ mBridge'[m] = None
        /\ \A k \in Handles \ {h} : bridges'[k] = bridges[k]
    BY <1>1, <1>2, <1>3, <1>4, <1>5, <1>6, RegistryChange
  <1>8. ASSUME NEW k \in Handles, Lasting(k) PROVE SameBridge(k) /\ ~Ending(k)'
    <2>1. bridges'[k] = bridges[k] /\ bridges[k] \in Contexts
      BY <1>1, <1>7, <1>8, LiveContext DEF Lasting, RegistryInv
    <2> QED
      BY <1>7, <1>8, <2>1, NoDestroyBegins DEF SameBridge, Lasting, Live
  <1> QED
    BY <1>7, <1>8 DEF Harmless

LEMMA CreateFailsStep ==
    ASSUME RegistryInv, NEW m \in Managers, NEW b \in Setups, createFails(m, b.lib)
    PROVE  RegistryInv' /\ Harmless
  <1>1. /\ mPc[m] = "lock" /\ Returned(m) /\ UNCHANGED <<registry, bridges, aborted>>
        /\ loaded' \in {loaded, loaded \cup {b.lib}}
    BY DEF createFails, Exclusive
  <1>2. loaded' \subseteq Libraries
    BY <1>1 DEF RegistryInv, RegistryTypeOK, Setups
  <1>3. /\ Only(m) /\ OneCaller' /\ CallPlaced(m)' /\ CallOpen(m)' /\ mBridge'[m] = None
    BY <1>1, Return
  <1>4. RegistryTypeOK'
    BY <1>1, <1>2, Return DEF RegistryInv, RegistryTypeOK
  <1> QED
    BY <1>1, <1>3, <1>4, CallStep, CallHarmless

LEMMA Begins ==
    ASSUME RegistryInv, NEW m \in Managers, mPc[m] = "idle",
           NEW p \in {"lock", "found"},
           NEW o \in {"create", "destroy", "connect", "launch", "disconnect"},
           NEW h \in Handles \cup {None}, h # None => ~Busy(h),
           mPc' = [mPc EXCEPT ![m] = p], mOp' = [mOp EXCEPT ![m] = o],
           mBridge' = [mBridge EXCEPT ![m] = h],
           UNCHANGED <<loaded, registry, bridges, aborted>>
    PROVE  /\ Only(m) /\ OneCaller' /\ RegistryTypeOK'
           /\ mPc'[m] = p /\ mOp'[m] = o /\ mBridge'[m] = h
  <1>1. RegistryTypeOK' /\ mPc'[m] = p /\ mOp'[m] = o /\ mBridge'[m] = h
    BY DEF RegistryInv, RegistryTypeOK
  <1>2. Only(m)
    BY DEF RegistryInv, RegistryTypeOK, Only
  <1>3. OneCaller'
    BY <1>1, <1>2 DEF RegistryInv, OneCaller, Only, Busy
  <1> QED
    BY <1>1, <1>2, <1>3

LEMMA ManagerCreatesStep ==
    ASSUME RegistryInv, NEW m \in Managers, managerCreates(m)
    PROVE  RegistryInv' /\ Harmless
  <1>1. /\ mPc[m] = "idle" /\ mPc' = [mPc EXCEPT ![m] = "lock"]
        /\ mOp' = [mOp EXCEPT ![m] = "create"] /\ mBridge' = [mBridge EXCEPT ![m] = None]
        /\ UNCHANGED <<loaded, registry, bridges, aborted>>
    BY DEF managerCreates, callExclusive
  <1>2. /\ Only(m) /\ OneCaller' /\ RegistryTypeOK'
        /\ mPc'[m] = "lock" /\ mOp'[m] = "create" /\ mBridge'[m] = None
    BY <1>1, Begins
  <1>3. CallPlaced(m)' /\ CallOpen(m)'
    BY <1>2 DEF CallPlaced, CallOpen
  <1> QED
    BY <1>1, <1>2, <1>3, CallStep, CallHarmless

(* Nobody destroys a bridge that a dispatcher is wired to or a loop polls. *)
LEMMA ManagerDestroysStep ==
    ASSUME RegistryInv, NEW m \in Managers, NEW h \in Handles, env.careless = {},
           managerDestroys(m, h)
    PROVE  /\ RegistryInv' /\ ~Wired(h) /\ ~Polled(h)
           /\ \A k \in Handles \ {h} : Lasting(k) => SameBridge(k) /\ ~Ending(k)'
  <1>1. /\ mPc[m] = "idle" /\ mPc' = [mPc EXCEPT ![m] = "lock"]
        /\ mOp' = [mOp EXCEPT ![m] = "destroy"] /\ mBridge' = [mBridge EXCEPT ![m] = h]
        /\ UNCHANGED <<loaded, registry, bridges, aborted>>
        /\ registry[h] # None /\ ~Busy(h) /\ ~Wired(h) /\ ~Polled(h) /\ ~Unjoined(h)
    BY DEF managerDestroys, callExclusive, Careless
  <1>2. /\ Only(m) /\ OneCaller' /\ RegistryTypeOK'
        /\ mPc'[m] = "lock" /\ mOp'[m] = "destroy" /\ mBridge'[m] = h
    BY <1>1, Begins
  <1>3. Live(h) /\ h # None
    BY <1>1, RegistryAssumption DEF RegistryInv, RegistryExact
  <1>4. CallPlaced(m)' /\ CallOpen(m)'
    BY <1>1, <1>2, <1>3 DEF CallPlaced, CallOpen, Live, Unjoined
  <1>5. RegistryInv'
    BY <1>1, <1>2, <1>4, CallStep
  <1>6. ASSUME NEW k \in Handles \ {h}, Lasting(k) PROVE SameBridge(k) /\ ~Ending(k)'
    <2>1. bridges[k] \in Contexts
      BY <1>6, LiveContext DEF RegistryInv, Lasting
    <2>2. ~Ending(k)'
      BY <1>2, <1>6 DEF Ending, Only, Lasting
    <2> QED
      BY <1>1, <1>6, <2>1, <2>2 DEF SameBridge, Lasting, Live
  <1> QED
    BY <1>1, <1>5, <1>6

LEMMA ManagerCallsStep ==
    ASSUME RegistryInv, NEW m \in Managers, NEW h \in Handles, env.careless = {},
           NEW o \in {"connect", "launch", "disconnect"}, managerCalls(m, h, o)
    PROVE  RegistryInv' /\ Harmless
  <1>1. /\ mPc[m] = "idle" /\ mPc' = [mPc EXCEPT ![m] = "found"]
        /\ mOp' = [mOp EXCEPT ![m] = o] /\ mBridge' = [mBridge EXCEPT ![m] = h]
        /\ UNCHANGED <<loaded, registry, bridges, aborted>>
        /\ Live(h) /\ ~Busy(h)
    BY DEF managerCalls, findInterface, Careless
  <1>2. /\ Only(m) /\ OneCaller' /\ RegistryTypeOK'
        /\ mPc'[m] = "found" /\ mOp'[m] = o /\ mBridge'[m] = h
    BY <1>1, Begins
  <1>3. h # None
    BY RegistryAssumption
  <1>4. /\ o = "connect" => bridges[h].io = "open"
        /\ o = "launch" /\ bridges[h].lib = "gpu_roce" =>
              bridges[h].io = "open" /\ ~bridges[h].launched
    BY DEF managerCalls, Careless
  <1>5. CallPlaced(m)' /\ CallOpen(m)'
    BY <1>1, <1>2, <1>3, <1>4 DEF CallPlaced, CallOpen, Live, Ctx
  <1> QED
    BY <1>1, <1>2, <1>5, CallStep, CallHarmless

-----------------------------------------------------------------------------
(* Dispatchers, while managers act: what they are wired to lasts.          *)

(* A step of a manager that spares the bridges in use spares everything    *)
(* else.                                                                   *)
LEMMA ManagersKeepWiring ==
    ASSUME LifecycleInv, UNCHANGED lifeVars, RegistryInv',
           \A h \in Handles : (Wired(h) \/ Polled(h)) /\ Lasting(h) => SameBridge(h) /\ ~Ending(h)'
    PROVE  LifecycleInv'
  <1>1. UNCHANGED <<env, disp, pc, wiring, flag, attached, loops, started, modules>>
    BY DEF lifeVars
  <1>2. \A h \in Handles : (Wired(h) \/ Polled(h)) /\ Lasting(h) => Lasting(h)' /\ SameBridge(h)
    BY DEF Lasting, SameBridge, Live
  <1>3. TypeOK' /\ AttachedExactly' /\ BridgesApart' /\ OneLoopEach'
    BY <1>1 DEF LifecycleInv, TypeOK, RegistryInv, AttachedExactly, BridgesApart, OneLoopEach
  <1>4. ASSUME NEW d \in Dispatchers PROVE PhaseOK(d)'
    <2>0. PhaseOK(d)
      BY DEF LifecycleInv
    <2>1. CASE pc[d] # "wire"
      BY <1>1, <2>0, <2>1 DEF PhaseOK, LoopsOf
    <2>2. CASE pc[d] = "wire"
      <3>1. PICK h \in Handles : h = wiring[d]
        BY <2>0, <2>2 DEF PhaseOK, LifecycleInv, TypeOK
      <3>2. Lasting(h) /\ Serves(h, disp[d])
        BY <2>0, <2>2, <3>1 DEF PhaseOK
      <3>3. Lasting(h)' /\ SameBridge(h)
        BY <1>2, <3>1, <3>2 DEF Wired
      <3>4. Serves(wiring[d], disp[d])'
        BY <1>1, <3>1, <3>2, <3>3
        DEF Serves, SameBridge, ServesRing, ServesCpuPlane, ServesGpuPlane, ServesOverride
      <3>5. Lasting(wiring[d])'
        BY <1>1, <3>1, <3>3 DEF Lasting, Live, Ending
      <3> QED
        BY <1>1, <2>0, <2>2, <3>4, <3>5 DEF PhaseOK, LoopsOf
    <2> QED
      BY <2>1, <2>2
  <1>5. ASSUME NEW d \in Dispatchers PROVE WiredOK(d)'
    <2>0. WiredOK(d)
      BY DEF LifecycleInv
    <2>1. CASE disp[d] = None \/ disp[d].bridge = None
      BY <1>1, <2>0, <2>1 DEF WiredOK
    <2>2. CASE disp[d] # None /\ disp[d].bridge # None
      <3>1. PICK h \in Handles : h = disp[d].bridge
        BY <2>2 DEF LifecycleInv, TypeOK, DispatcherStates
      <3>2. Lasting(h)' /\ SameBridge(h)
        BY <1>2, <2>0, <2>2, <3>1 DEF Wired, WiredOK
      <3>3. Lasting(disp[d].bridge)'
        BY <1>1, <3>1, <3>2 DEF Lasting, Live, Ending
      <3> QED
        BY <1>1, <2>0, <2>2, <3>1, <3>2, <3>3 DEF WiredOK, SameBridge
    <2> QED
      BY <2>1, <2>2
  <1>6. ASSUME NEW l \in loops PROVE LoopOK(l)'
    <2>0. LoopOK(l)
      BY DEF LifecycleInv
    <2>1. CASE l.plane \notin Handles
      BY <1>1, <2>0, <2>1 DEF LoopOK
    <2>2. CASE l.plane \in Handles
      <3>1. Lasting(l.plane)' /\ SameBridge(l.plane)
        BY <1>2, <2>0, <2>2 DEF Polled, LoopOK
      <3> QED
        BY <1>1, <2>0, <2>2, <3>1 DEF LoopOK, SameBridge
    <2> QED
      BY <2>1, <2>2
  <1> QED
    BY <1>1, <1>3, <1>4, <1>5, <1>6 DEF LifecycleInv

LEMMA ManagerStep ==
    ASSUME LifecycleInv, Documented, NEW m \in env.managers, manager(m)
    PROVE  LifecycleInv'
  <1>1. /\ RegistryInv /\ m \in Managers /\ env.careless = {}
        /\ env.bridges \subseteq Setups
    BY EnvironmentAssumption DEF LifecycleInv, TypeOK, Documented
  <1>2. CASE managerCreates(m)
    <2>1. RegistryInv' /\ Harmless
      BY <1>1, <1>2, ManagerCreatesStep
    <2> QED
      BY <1>2, <2>1, ManagersKeepWiring DEF managerCreates, Harmless
  <1>3. CASE creates(m)
    <2>1. PICK b \in Setups : create(m, b) \/ createFails(m, b.lib)
      BY <1>1, <1>3 DEF creates
    <2>2. RegistryInv' /\ Harmless
      BY <1>1, <2>1, CreateStep, CreateFailsStep
    <2> QED
      BY <1>3, <2>2, ManagersKeepWiring DEF creates, Harmless
  <1>4. CASE continues(m)
    <2>1. RegistryInv' /\ Harmless
      BY <1>1, <1>4, EnterStep, ConnectStep, LaunchStep, SpawnStep, DisconnectStep,
         JoinStep, DestroyStep DEF continues, inBridgeCall
    <2> QED
      BY <1>4, <2>1, ManagersKeepWiring DEF continues, Harmless
  <1>5. CASE peerDials(m)
    <2>1. RegistryInv' /\ Harmless
      BY <1>1, <1>5, AcceptStep DEF peerDials
    <2> QED
      BY <1>5, <2>1, ManagersKeepWiring DEF peerDials, Harmless
  <1>6. ASSUME NEW h \in Handles, managerDestroys(m, h) PROVE LifecycleInv'
    <2>1. /\ RegistryInv' /\ ~Wired(h) /\ ~Polled(h)
          /\ \A k \in Handles \ {h} : Lasting(k) => SameBridge(k) /\ ~Ending(k)'
      BY <1>1, <1>6, ManagerDestroysStep
    <2>2. UNCHANGED lifeVars
      BY <1>6 DEF managerDestroys
    <2> QED
      BY <2>1, <2>2, ManagersKeepWiring
  <1>7. ASSUME NEW h \in Handles, NEW o \in {"connect", "launch", "disconnect"},
               managerCalls(m, h, o)
        PROVE  LifecycleInv'
    <2>1. RegistryInv' /\ Harmless
      BY <1>1, <1>7, ManagerCallsStep
    <2> QED
      BY <1>7, <2>1, ManagersKeepWiring DEF managerCalls, Harmless
  <1> QED
    BY <1>2, <1>3, <1>4, <1>5, <1>6, <1>7 DEF manager

-----------------------------------------------------------------------------
(* Dispatchers, while one owner acts.                                      *)

(* A step that touches d, its loops and its module only.                   *)
OwnerOnly(d) ==
    /\ UNCHANGED <<env, registryVars>>
    /\ \A e \in Dispatchers \ {d} :
          /\ disp'[e] = disp[e] /\ pc'[e] = pc[e] /\ wiring'[e] = wiring[e]
          /\ flag'[e] = flag[e] /\ (e \in modules <=> e \in modules')
    /\ \A l \in loops \cup loops' : l.owner # d => (l \in loops <=> l \in loops')

(* What no call changes but create, set_bridge and destroy.                *)
Kept(d) ==
    /\ disp[d] # None /\ disp'[d] \in DispatcherStates
    /\ disp'[d].host = disp[d].host /\ disp'[d].unified = disp[d].unified
    /\ disp'[d].bridge = disp[d].bridge /\ disp'[d].slots = disp[d].slots
    /\ disp'[d].gpu = disp[d].gpu

LEMMA States ==
    ASSUME TypeOK, NEW d \in Dispatchers, disp[d] # None
    PROVE  /\ disp[d] \in DispatcherStates
           /\ disp[d].host \in BOOLEAN /\ disp[d].unified \in BOOLEAN
           /\ disp[d].gpu \in BOOLEAN /\ disp[d].running \in BOOLEAN
           /\ disp[d].bridge \in Handles \cup {None}
           /\ disp[d].plane \in Handles \cup {"app", None}
           /\ disp[d].stream \in 0 .. MaxLoops
  BY DEF TypeOK, DispatcherStates

LEMMA OthersKept ==
    ASSUME LifecycleInv, NEW d \in Dispatchers, OwnerOnly(d)
    PROVE  /\ RegistryInv'
           /\ \A e \in Dispatchers \ {d} : PhaseOK(e)' /\ WiredOK(e)'
           /\ \A l \in loops' : l.owner # d => LoopOK(l)'
  <1>1. /\ UNCHANGED <<env, loaded, registry, bridges, mPc, mOp, mBridge, aborted>>
    BY DEF OwnerOnly, registryVars
  <1>2. RegistryInv'
    BY <1>1 DEF LifecycleInv, RegistryInv, RegistryTypeOK, RegistryExact, NoAbort, OneCaller,
       CallPlaced, CallOpen, ClosedAtRest, Live, Ctx, Unjoined
  <1>3. \A h : Lasting(h)' <=> Lasting(h)
    BY <1>1 DEF Lasting, Live, Ending
  <1>4. ASSUME NEW e \in Dispatchers \ {d} PROVE PhaseOK(e)' /\ WiredOK(e)'
    <2>1. /\ disp'[e] = disp[e] /\ pc'[e] = pc[e] /\ wiring'[e] = wiring[e]
          /\ flag'[e] = flag[e] /\ PhaseOK(e) /\ WiredOK(e)
      BY DEF OwnerOnly, LifecycleInv
    <2>2. LoopsOf(e)' = LoopsOf(e)
      BY DEF OwnerOnly, LoopsOf
    <2>3. Lasting(wiring[e])' <=> Lasting(wiring[e])
      BY <1>1, <2>1 DEF Lasting, Live, Ending
    <2>4. Serves(wiring[e], disp[e])' <=> Serves(wiring[e], disp[e])
      BY <1>1, <2>1 DEF Serves, ServesRing, ServesCpuPlane, ServesGpuPlane, ServesOverride
    <2>5. Lasting(disp[e].bridge)' <=> Lasting(disp[e].bridge)
      BY <1>1, <2>1 DEF Lasting, Live, Ending
    <2>6. PhaseOK(e)'
      BY <1>1, <2>1, <2>2, <2>3, <2>4 DEF PhaseOK
    <2> QED
      BY <1>1, <2>1, <2>5, <2>6 DEF WiredOK
  <1>5. ASSUME NEW l \in loops', l.owner # d PROVE LoopOK(l)'
    <2>1. l \in loops /\ LoopOK(l) /\ l.owner \in Dispatchers \ {d}
      BY <1>5 DEF OwnerOnly, LifecycleInv, TypeOK, Loops
    <2>2. disp'[l.owner] = disp[l.owner] /\ (l.owner \in modules <=> l.owner \in modules')
      BY <2>1 DEF OwnerOnly
    <2> QED
      BY <1>1, <1>3, <2>1, <2>2 DEF LoopOK
  <1> QED
    BY <1>2, <1>4, <1>5

LEMMA OwnerStep ==
    ASSUME LifecycleInv, NEW d \in Dispatchers, OwnerOnly(d),
           TypeOK', AttachedExactly', BridgesApart', OneLoopEach',
           PhaseOK(d)', WiredOK(d)', \A l \in loops' : l.owner = d => LoopOK(l)'
    PROVE  LifecycleInv'
  <1>1. /\ RegistryInv'
        /\ \A e \in Dispatchers \ {d} : PhaseOK(e)' /\ WiredOK(e)'
        /\ \A l \in loops' : l.owner # d => LoopOK(l)'
    BY OthersKept
  <1>2. \A e \in Dispatchers : PhaseOK(e)' /\ WiredOK(e)'
    BY <1>1
  <1>3. \A l \in loops' : LoopOK(l)'
    BY <1>1
  <1> QED
    BY <1>1, <1>2, <1>3 DEF LifecycleInv

(* The bridges stay with their dispatchers.                                *)
LEMMA BridgesKept ==
    ASSUME LifecycleInv, NEW d \in Dispatchers, OwnerOnly(d), Kept(d), UNCHANGED attached
    PROVE  AttachedExactly' /\ BridgesApart'
  <1>1. disp'[d] # None
    BY LifecycleAssumption DEF Kept
  <1>2. \A e \in Dispatchers :
          (disp'[e] # None <=> disp[e] # None) /\ (disp[e] # None => disp'[e].bridge = disp[e].bridge)
    BY <1>1 DEF OwnerOnly, Kept
  <1>3. {disp'[e].bridge : e \in {x \in Dispatchers : disp'[x] # None}}
          = {disp[e].bridge : e \in {x \in Dispatchers : disp[x] # None}}
    BY <1>2
  <1>4. AttachedExactly'
    BY <1>3 DEF AttachedExactly, LifecycleInv
  <1>5. BridgesApart'
    BY <1>2 DEF BridgesApart, LifecycleInv
  <1> QED
    BY <1>4, <1>5

LEMMA WiringKept ==
    ASSUME LifecycleInv, NEW d \in Dispatchers, OwnerOnly(d), Kept(d),
           disp'[d].plane = disp[d].plane, disp'[d].launcher = disp[d].launcher
    PROVE  WiredOK(d)'
  <1>1. /\ UNCHANGED <<bridges, mOp, mBridge>> /\ WiredOK(d) /\ disp[d] # None
    BY DEF OwnerOnly, registryVars, LifecycleInv, Kept
  <1>2. Lasting(disp[d].bridge)' <=> Lasting(disp[d].bridge)
    BY <1>1 DEF Lasting, Live, Ending, Kept
  <1> QED
    BY <1>1, <1>2 DEF WiredOK, Kept

(* A step of d on its own record, after which it is between calls or in a  *)
(* call but not wiring.                                                    *)
LEMMA RecordStep ==
    ASSUME LifecycleInv, NEW d \in Dispatchers, OwnerOnly(d), Kept(d), WiredOK(d)',
           disp' \in [Dispatchers -> DispatcherStates \cup {None}],
           UNCHANGED <<wiring, attached>>, PhaseOK(d)',
           pc' \in [Dispatchers -> {"idle", "wire", "stop", "destroy", "unwind"}],
           flag' \in [Dispatchers -> BOOLEAN], loops' \subseteq Loops,
           started' \in 0 .. MaxLoops, modules' \subseteq Dispatchers, OneLoopEach',
           \A l \in loops' : l.owner = d => LoopOK(l)'
    PROVE  LifecycleInv'
  <1>1. TypeOK'
    <2>1. RegistryTypeOK' /\ env' \in Environments
      BY OthersKept DEF RegistryInv, OwnerOnly, LifecycleInv, TypeOK
    <2> QED
      BY <2>1 DEF LifecycleInv, TypeOK
  <1> QED
    BY <1>1, BridgesKept, OwnerStep

(* The loops go on as they are.                                            *)
LEMMA LoopsKept ==
    ASSUME LifecycleInv, NEW d \in Dispatchers, OwnerOnly(d), Kept(d), UNCHANGED loops,
           disp'[d].stream = disp[d].stream, modules \subseteq modules'
    PROVE  /\ OneLoopEach' /\ loops' \subseteq Loops
           /\ \A l \in loops' : l.owner = d => LoopOK(l)'
  <1>1. OneLoopEach' /\ loops' \subseteq Loops
    BY DEF LifecycleInv, OneLoopEach, TypeOK
  <1>2. UNCHANGED <<env, bridges, mOp, mBridge>> /\ disp'[d] # None
    BY LifecycleAssumption DEF OwnerOnly, registryVars, Kept
  <1>3. \A h : Lasting(h)' <=> Lasting(h)
    BY <1>2 DEF Lasting, Live, Ending
  <1>4. ASSUME NEW l \in loops', l.owner = d PROVE LoopOK(l)'
    <2>1. LoopOK(l) /\ disp[l.owner] # None
      BY <1>4 DEF LifecycleInv, Kept
    <2> QED
      BY <1>2, <1>3, <1>4, <2>1 DEF LoopOK, Kept
  <1> QED
    BY <1>1, <1>4

(* A setter, or a lookup, between two calls.                               *)
LEMMA SetterStep ==
    ASSUME LifecycleInv, NEW d \in Dispatchers, pc[d] = "idle", Kept(d), WiredOK(d)',
           disp'[d].stream = disp[d].stream, disp'[d].running = disp[d].running,
           disp' = [disp EXCEPT ![d] = disp'[d]],
           UNCHANGED <<env, pc, wiring, flag, attached, loops, started, registryVars>>,
           modules' \in {modules, modules \cup {d}}
    PROVE  LifecycleInv'
  <1>1. OwnerOnly(d)
    BY DEF OwnerOnly, LifecycleInv, TypeOK
  <1>2. /\ OneLoopEach' /\ loops' \subseteq Loops
        /\ \A l \in loops' : l.owner = d => LoopOK(l)'
    BY <1>1, LoopsKept
  <1>3. PhaseOK(d)'
    BY DEF LifecycleInv, PhaseOK, LoopsOf, Kept
  <1>4. modules' \subseteq Dispatchers
    BY DEF LifecycleInv, TypeOK
  <1>5. disp' \in [Dispatchers -> DispatcherStates \cup {None}]
    BY DEF Kept, LifecycleInv, TypeOK
  <1> QED
    BY <1>1, <1>2, <1>3, <1>4, <1>5, RecordStep DEF LifecycleInv, TypeOK

LEMMA SetFunctionTableStep ==
    ASSUME LifecycleInv, NEW d \in Dispatchers, setFunctionTable(d)
    PROVE  LifecycleInv'
  <1>1. /\ pc[d] = "idle" /\ disp[d] # None
        /\ UNCHANGED <<env, pc, wiring, flag, attached, loops, started, modules, registryVars>>
    BY DEF setFunctionTable, Sets, Ready
  <1>2. PICK t \in Dispatchers \cup {"app", "host"} : disp' = [disp EXCEPT ![d].table = t]
    BY EnvironmentAssumption DEF setFunctionTable, LifecycleInv, TypeOK
  <1>3. disp[d] \in DispatcherStates
    BY <1>1, States DEF LifecycleInv
  <1>4. /\ Kept(d) /\ disp'[d].stream = disp[d].stream /\ disp'[d].running = disp[d].running
        /\ disp'[d].plane = disp[d].plane /\ disp'[d].launcher = disp[d].launcher
    BY <1>1, <1>2, <1>3 DEF Kept, DispatcherStates, LifecycleInv, TypeOK
  <1>5. disp' = [disp EXCEPT ![d] = disp'[d]]
    BY <1>2 DEF LifecycleInv, TypeOK
  <1>6. OwnerOnly(d)
    BY <1>1, <1>5 DEF OwnerOnly, LifecycleInv, TypeOK
  <1>7. WiredOK(d)'
    BY <1>4, <1>6, WiringKept
  <1> QED
    BY <1>1, <1>4, <1>5, <1>7, SetterStep

LEMMA SetOwnPlaneStep ==
    ASSUME LifecycleInv, NEW d \in Dispatchers, setOwnPlane(d)
    PROVE  LifecycleInv'
  <1>1. /\ pc[d] = "idle" /\ disp[d] # None /\ (~disp[d].unified \/ disp[d].host)
        /\ UNCHANGED <<env, pc, wiring, flag, attached, loops, started, modules, registryVars>>
        /\ disp' = [disp EXCEPT ![d].plane = "app"]
    BY DEF setOwnPlane, Sets, Ready
  <1>2. disp[d] \in DispatcherStates
    BY <1>1, States DEF LifecycleInv
  <1>3. /\ Kept(d) /\ disp'[d].stream = disp[d].stream /\ disp'[d].running = disp[d].running
        /\ disp'[d].plane = "app"
    BY <1>1, <1>2 DEF Kept, DispatcherStates, LifecycleInv, TypeOK
  <1>4. disp' = [disp EXCEPT ![d] = disp'[d]]
    BY <1>1 DEF LifecycleInv, TypeOK
  <1>5. WiredOK(d)'
    <2>1. WiredOK(d) /\ UNCHANGED <<bridges, mOp, mBridge>>
      BY <1>1 DEF LifecycleInv, registryVars
    <2>2. Lasting(disp[d].bridge)' <=> Lasting(disp[d].bridge)
      BY <1>3, <2>1 DEF Lasting, Live, Ending, Kept
    <2> QED
      BY <1>1, <1>3, <2>1, <2>2, LifecycleAssumption DEF WiredOK, Kept
  <1> QED
    BY <1>1, <1>3, <1>4, <1>5, SetterStep

LEMMA SetUnifiedLaunchStep ==
    ASSUME LifecycleInv, NEW d \in Dispatchers, setUnifiedLaunch(d)
    PROVE  LifecycleInv'
  <1>1. /\ pc[d] = "idle" /\ disp[d] # None
        /\ disp[d].gpu \/ disp[d].bridge = None
        /\ UNCHANGED <<env, pc, wiring, flag, attached, loops, started, modules, registryVars>>
        /\ \E p \in {disp[d].plane, "app"} :
              /\ disp[d].gpu => p = disp[d].plane
              /\ disp' = [disp EXCEPT ![d].launcher = "app", ![d].plane = p]
    BY DEF setUnifiedLaunch, Sets, Ready
  <1>2. disp[d] \in DispatcherStates
    BY <1>1, States DEF LifecycleInv
  <1>3. /\ Kept(d) /\ disp'[d].stream = disp[d].stream /\ disp'[d].running = disp[d].running
        /\ disp'[d].plane \in {disp[d].plane, "app"} /\ disp'[d].launcher = "app"
        /\ disp[d].gpu => disp'[d].plane = disp[d].plane
    <2>1. PICK p \in {disp[d].plane, "app"} :
            /\ disp[d].gpu => p = disp[d].plane
            /\ disp' = [disp EXCEPT ![d].launcher = "app", ![d].plane = p]
      BY <1>1
    <2>2. disp'[d] = [disp[d] EXCEPT !.launcher = "app", !.plane = p]
      BY <1>1, <2>1 DEF LifecycleInv, TypeOK
    <2> DEFINE x == [disp[d] EXCEPT !.launcher = "app", !.plane = p]
    <2>3. /\ x \in DispatcherStates /\ x.launcher = "app" /\ x.plane = p
          /\ x.host = disp[d].host /\ x.unified = disp[d].unified
          /\ x.bridge = disp[d].bridge /\ x.slots = disp[d].slots
          /\ x.gpu = disp[d].gpu /\ x.stream = disp[d].stream
          /\ x.running = disp[d].running
      <3>1. p \in Handles \cup {"app", None}
        BY <1>2, <2>1 DEF DispatcherStates
      <3> QED
        BY <1>2, <3>1 DEF DispatcherStates
    <2> HIDE DEF x
    <2>4. disp'[d] = x
      BY <2>2 DEF x
    <2> QED
      BY <1>1, <2>1, <2>3, <2>4 DEF Kept
  <1>4. disp' = [disp EXCEPT ![d] = disp'[d]]
    BY <1>1 DEF LifecycleInv, TypeOK
  <1>5. WiredOK(d)'
    <2>1. WiredOK(d) /\ UNCHANGED <<bridges, mOp, mBridge>>
      BY <1>1 DEF LifecycleInv, registryVars
    <2>2. Lasting(disp[d].bridge)' <=> Lasting(disp[d].bridge)
      BY <1>3, <2>1 DEF Lasting, Live, Ending, Kept
    <2> QED
      BY <1>1, <1>3, <2>1, <2>2, LifecycleAssumption DEF WiredOK, Kept
  <1> QED
    BY <1>1, <1>3, <1>4, <1>5, SetterStep

LEMMA LookupStep ==
    ASSUME LifecycleInv, NEW d \in Dispatchers, NEW b \in {"binary1", "binary2"},
           NEW handler \in BOOLEAN, lookup(d, b, handler)
    PROVE  LifecycleInv'
  <1>1. /\ pc[d] = "idle" /\ disp[d] # None /\ modules' = modules \cup {d}
        /\ UNCHANGED <<env, pc, wiring, flag, attached, loops, started, registryVars>>
        /\ disp' = [disp EXCEPT ![d].images = b, ![d].handlers = @ \/ handler]
    BY DEF lookup, Ready
  <1>2. disp[d] \in DispatcherStates
    BY <1>1, States DEF LifecycleInv
  <1>3. /\ Kept(d) /\ disp'[d].stream = disp[d].stream /\ disp'[d].running = disp[d].running
        /\ disp'[d].plane = disp[d].plane /\ disp'[d].launcher = disp[d].launcher
    BY <1>1, <1>2 DEF Kept, DispatcherStates, LifecycleInv, TypeOK
  <1>4. disp' = [disp EXCEPT ![d] = disp'[d]]
    BY <1>1 DEF LifecycleInv, TypeOK
  <1>5. OwnerOnly(d)
    BY <1>1, <1>4 DEF OwnerOnly, LifecycleInv, TypeOK
  <1>6. WiredOK(d)'
    BY <1>3, <1>5, WiringKept
  <1> QED
    BY <1>1, <1>3, <1>4, <1>6, SetterStep

LEMMA CreateDispatcherStep ==
    ASSUME LifecycleInv, NEW d \in Dispatchers, cudaqDispatcherCreate(d)
    PROVE  LifecycleInv'
  <1>1. PICK cfg \in Configs : disp' = [disp EXCEPT ![d] = Fresh(cfg)]
    BY EnvironmentAssumption DEF cudaqDispatcherCreate, LifecycleInv, TypeOK
  <1>2. /\ pc[d] = "idle" /\ disp[d] = None /\ LoopsOf(d) = {}
        /\ UNCHANGED <<env, pc, wiring, flag, attached, loops, started, modules, registryVars>>
    BY DEF cudaqDispatcherCreate
  <1>3. /\ Fresh(cfg) \in DispatcherStates /\ Fresh(cfg).bridge = None
        /\ Fresh(cfg).plane = None /\ Fresh(cfg).running = FALSE /\ Fresh(cfg).gpu = FALSE
    BY LifecycleAssumption DEF Fresh, DispatcherStates, Configs
  <1>4. /\ disp' \in [Dispatchers -> DispatcherStates \cup {None}] /\ disp'[d] = Fresh(cfg)
        /\ \A e \in Dispatchers \ {d} : disp'[e] = disp[e]
    BY <1>1, <1>3 DEF LifecycleInv, TypeOK
  <1>5. OwnerOnly(d)
    BY <1>2, <1>4 DEF OwnerOnly
  <1>6. TypeOK'
    <2>1. RegistryTypeOK'
      BY <1>5, OthersKept DEF RegistryInv
    <2> QED
      BY <1>2, <1>4, <2>1 DEF LifecycleInv, TypeOK
  <1>7. AttachedExactly'
    <2>1. {disp'[e].bridge : e \in {x \in Dispatchers : disp'[x] # None}} \ {None}
            = {disp[e].bridge : e \in {x \in Dispatchers : disp[x] # None}} \ {None}
      BY <1>2, <1>3, <1>4
    <2> QED
      BY <1>2, <2>1 DEF AttachedExactly, LifecycleInv
  <1>8. BridgesApart' /\ OneLoopEach'
    BY <1>2, <1>3, <1>4 DEF BridgesApart, OneLoopEach, LifecycleInv
  <1>9. PhaseOK(d)'
    BY <1>2, <1>3, <1>4 DEF LifecycleInv, PhaseOK, LoopsOf
  <1>10. WiredOK(d)'
    BY <1>3, <1>4, RegistryAssumption DEF WiredOK
  <1>11. \A l \in loops' : l.owner # d
    BY <1>2 DEF LoopsOf
  <1> QED
    BY <1>5, <1>6, <1>7, <1>8, <1>9, <1>10, <1>11, OwnerStep

LEMMA SetBridgeQueryStep ==
    ASSUME LifecycleInv, NEW d \in Dispatchers, NEW h \in Handles, env.careless = {},
           setBridgeQuery(d, h)
    PROVE  LifecycleInv'
  <1>1. /\ pc[d] = "idle" /\ disp[d] # None /\ ~disp[d].running /\ disp[d].bridge = None
        /\ ~Ending(h) /\ registry[h] # None /\ Serves(h, disp[d])
        /\ wiring' = [wiring EXCEPT ![d] = h] /\ pc' = [pc EXCEPT ![d] = "wire"]
        /\ UNCHANGED <<env, disp, flag, attached, loops, started, modules, registryVars>>
    BY DEF setBridgeQuery, Ready, Careless, Goto
  <1>2. Live(h) /\ h # None
    BY <1>1, RegistryAssumption DEF LifecycleInv, RegistryInv, RegistryExact
  <1>3. /\ wiring'[d] = h /\ pc'[d] = "wire"
        /\ \A e \in Dispatchers \ {d} : wiring'[e] = wiring[e] /\ pc'[e] = pc[e]
    BY <1>1 DEF LifecycleInv, TypeOK
  <1>4. OwnerOnly(d)
    BY <1>1, <1>3 DEF OwnerOnly
  <1>5. UNCHANGED <<bridges, mOp, mBridge>>
    BY <1>1 DEF registryVars
  <1>6. TypeOK'
    <2>1. RegistryTypeOK'
      BY <1>4, OthersKept DEF RegistryInv
    <2> QED
      BY <1>1, <2>1 DEF LifecycleInv, TypeOK
  <1>7. Kept(d)
    BY <1>1, States DEF Kept, LifecycleInv
  <1>8. AttachedExactly' /\ BridgesApart' /\ WiredOK(d)'
    BY <1>1, <1>4, <1>7, BridgesKept, WiringKept
  <1>9. OneLoopEach' /\ \A l \in loops' : l.owner = d => LoopOK(l)'
    BY <1>1, <1>4, <1>7, LoopsKept
  <1>10. PhaseOK(d)'
    <2>1. Serves(wiring[d], disp[d])'
      BY <1>1, <1>3, <1>5 DEF Serves, ServesRing, ServesCpuPlane, ServesGpuPlane, ServesOverride
    <2>2. Lasting(wiring[d])'
      BY <1>1, <1>2, <1>3, <1>5 DEF Lasting, Live, Ending
    <2>3. PhaseOK(d)
      BY DEF LifecycleInv
    <2> QED
      BY <1>1, <1>2, <1>3, <2>1, <2>2, <2>3 DEF PhaseOK, LoopsOf
  <1> QED
    BY <1>4, <1>6, <1>8, <1>9, <1>10, OwnerStep

(* A dispatcher takes from a bridge what its shape needs.                  *)
LEMMA WireFacts ==
    ASSUME NEW r \in DispatcherStates, NEW h \in Handles, bridges[h] \in Contexts
    PROVE  /\ Wire(r, h) \in DispatcherStates
           /\ Wire(r, h).bridge = h /\ Wire(r, h).plane = h
           /\ Wire(r, h).slots = bridges[h].slots
           /\ Wire(r, h).host = r.host /\ Wire(r, h).unified = r.unified
           /\ Wire(r, h).running = r.running /\ Wire(r, h).stream = r.stream
           /\ Wire(r, h).gpu = IF ~r.unified \/ r.host \/ ServesOverride(h) THEN r.gpu ELSE TRUE
           /\ r.unified /\ ~r.host =>
                Wire(r, h).launcher = IF ServesOverride(h) THEN "bridge" ELSE None
  <1> DEFINE w == [r EXCEPT !.bridge = h, !.plane = h, !.slots = bridges[h].slots]
             v == [w EXCEPT !.launcher = "bridge"]
             u == [w EXCEPT !.launcher = None, !.gpu = TRUE]
  <1>0. bridges[h].slots \in Nat
    BY DEF Contexts
  <1>1. /\ w \in DispatcherStates
        /\ w.bridge = h /\ w.plane = h /\ w.slots = bridges[h].slots
        /\ w.host = r.host /\ w.unified = r.unified
        /\ w.running = r.running /\ w.stream = r.stream /\ w.gpu = r.gpu
    BY <1>0 DEF DispatcherStates
  <1> HIDE DEF w
  <1>2. /\ v \in DispatcherStates
        /\ v.bridge = w.bridge /\ v.plane = w.plane /\ v.slots = w.slots
        /\ v.host = w.host /\ v.unified = w.unified
        /\ v.running = w.running /\ v.stream = w.stream /\ v.gpu = w.gpu
        /\ v.launcher = "bridge"
    BY <1>1 DEF DispatcherStates
  <1>3. /\ u \in DispatcherStates
        /\ u.bridge = w.bridge /\ u.plane = w.plane /\ u.slots = w.slots
        /\ u.host = w.host /\ u.unified = w.unified
        /\ u.running = w.running /\ u.stream = w.stream /\ u.gpu = TRUE
        /\ u.launcher = None
    BY <1>1 DEF DispatcherStates
  <1>4. Wire(r, h) = IF ~r.unified \/ r.host THEN w ELSE IF ServesOverride(h) THEN v ELSE u
    BY DEF Wire, w
  <1> HIDE DEF u, v
  <1>5. CASE ~r.unified \/ r.host
    BY <1>1, <1>4, <1>5
  <1>6. CASE r.unified /\ ~r.host /\ ServesOverride(h)
    BY <1>1, <1>2, <1>4, <1>6
  <1>7. CASE r.unified /\ ~r.host /\ ~ServesOverride(h)
    BY <1>1, <1>3, <1>4, <1>7
  <1> QED
    BY <1>5, <1>6, <1>7

(* attached_bridges refuses the bridge of another dispatcher.              *)
LEMMA SetBridgeAttachStep ==
    ASSUME LifecycleInv, NEW d \in Dispatchers, setBridgeAttach(d)
    PROVE  LifecycleInv'
  <1>1. /\ pc[d] = "wire" /\ wiring' = [wiring EXCEPT ![d] = None]
        /\ pc' = [pc EXCEPT ![d] = "idle"]
        /\ UNCHANGED <<env, flag, loops, started, modules, registryVars>>
    BY DEF setBridgeAttach, Goto
  <1>2. /\ PhaseOK(d) /\ WiredOK(d) /\ disp[d] # None /\ disp[d].running = FALSE
        /\ disp[d].bridge = None /\ disp[d] \in DispatcherStates
    <2>1. PhaseOK(d) /\ WiredOK(d)
      BY DEF LifecycleInv
    <2>2. disp[d] # None /\ ~disp[d].running /\ disp[d].bridge = None
      BY <1>1, <2>1 DEF PhaseOK
    <2> QED
      BY <2>1, <2>2, States DEF LifecycleInv
  <1>3. PICK h \in Handles : h = wiring[d]
    BY <1>1, <1>2 DEF PhaseOK, LifecycleInv, TypeOK
  <1>4. Lasting(h) /\ Serves(h, disp[d]) /\ LoopsOf(d) = {}
    BY <1>1, <1>2, <1>3 DEF PhaseOK
  <1>5. bridges[h] \in Contexts /\ h # None
    BY <1>4, LiveContext, RegistryAssumption DEF Lasting, LifecycleInv, RegistryInv
  <1>6. /\ wiring'[d] = None /\ pc'[d] = "idle"
        /\ \A e \in Dispatchers \ {d} : wiring'[e] = wiring[e] /\ pc'[e] = pc[e]
        /\ wiring' \in [Dispatchers -> Handles \cup {None}]
        /\ pc' \in [Dispatchers -> {"idle", "wire", "stop", "destroy", "unwind"}]
    BY <1>1 DEF LifecycleInv, TypeOK
  <1>7. UNCHANGED <<bridges, mOp, mBridge>>
    BY <1>1 DEF registryVars
  <1>8. \A l \in loops' : l.owner # d
    BY <1>1, <1>4 DEF LoopsOf
  <1>9. OneLoopEach'
    BY <1>1 DEF OneLoopEach, LifecycleInv
  <1>10. CASE wiring[d] \in attached /\ UNCHANGED <<attached, disp>>
    <2>1. OwnerOnly(d) /\ Kept(d)
      BY <1>1, <1>2, <1>6, <1>10 DEF OwnerOnly, Kept
    <2>2. RegistryTypeOK'
      BY <2>1, OthersKept DEF RegistryInv
    <2>3. TypeOK'
      BY <1>1, <1>6, <1>10, <2>2 DEF LifecycleInv, TypeOK
    <2>4. AttachedExactly' /\ BridgesApart' /\ WiredOK(d)'
      BY <1>10, <2>1, BridgesKept, WiringKept
    <2>5. PhaseOK(d)'
      BY <1>1, <1>2, <1>4, <1>6, <1>10 DEF PhaseOK, LoopsOf
    <2> QED
      BY <1>8, <1>9, <2>1, <2>3, <2>4, <2>5, OwnerStep
  <1>11. CASE /\ h \notin attached /\ attached' = attached \cup {h}
              /\ disp' = [disp EXCEPT ![d] = Wire(disp[d], h)]
    <2> DEFINE w == Wire(disp[d], h)
    <2>1. /\ w \in DispatcherStates /\ w.bridge = h /\ w.plane = h
          /\ w.slots = bridges[h].slots /\ w.host = disp[d].host
          /\ w.unified = disp[d].unified /\ w.running = FALSE
          /\ w.gpu = IF ~disp[d].unified \/ disp[d].host \/ ServesOverride(h)
                       THEN disp[d].gpu ELSE TRUE
          /\ disp[d].unified /\ ~disp[d].host =>
               w.launcher = IF ServesOverride(h) THEN "bridge" ELSE None
      BY <1>2, <1>5, WireFacts
    <2>2. /\ disp' \in [Dispatchers -> DispatcherStates \cup {None}] /\ disp'[d] = w
          /\ \A e \in Dispatchers \ {d} : disp'[e] = disp[e]
      BY <1>11, <2>1 DEF LifecycleInv, TypeOK
    <2> HIDE DEF w
    <2>3. w # None
      BY <2>1, LifecycleAssumption
    <2>4. OwnerOnly(d)
      BY <1>1, <1>6, <2>2 DEF OwnerOnly
    <2>5. TypeOK'
      <3>1. RegistryTypeOK'
        BY <2>4, OthersKept DEF RegistryInv
      <3> QED
        BY <1>1, <1>6, <1>11, <2>2, <3>1 DEF LifecycleInv, TypeOK
    <2>6. AttachedExactly'
      <3>1. {disp'[e].bridge : e \in {x \in Dispatchers : disp'[x] # None}} \ {None}
              = ({disp[e].bridge : e \in {x \in Dispatchers : disp[x] # None}} \ {None}) \cup {h}
        BY <1>2, <1>5, <2>1, <2>2, <2>3
      <3> QED
        BY <1>11, <3>1 DEF AttachedExactly, LifecycleInv
    <2>7. BridgesApart'
      <3>1. \A e \in Dispatchers : disp[e] # None => disp[e].bridge # h
        BY <1>5, <1>11 DEF AttachedExactly, LifecycleInv
      <3> QED
        BY <1>5, <2>1, <2>2, <3>1 DEF BridgesApart, LifecycleInv
    <2>8. PhaseOK(d)'
      BY <1>1, <1>4, <1>6, <2>1, <2>2, <2>3 DEF PhaseOK, LoopsOf
    <2>9. WiredOK(d)'
      <3>1. Lasting(disp[d].bridge)'
        BY <1>4, <1>7, <2>1, <2>2 DEF Lasting, Live, Ending
      <3>2. disp[d].gpu = FALSE
        BY <1>2, States DEF WiredOK, LifecycleInv
      <3>3. /\ w.unified = bridges[h].unified
            /\ w.gpu => bridges[h].lib = "gpu_roce" /\ w.unified /\ ~w.host
            /\ w.unified /\ ~w.host =>
                 ((w.launcher = "bridge") <=> (bridges[h].lib = "external"))
        <4>1. bridges[h].unified \in BOOLEAN /\ w.unified \in BOOLEAN /\ w.host \in BOOLEAN
          BY <1>5, <2>1 DEF Contexts, DispatcherStates
        <4>2. w.unified = bridges[h].unified
          BY <1>4, <2>1, <4>1
          DEF Serves, ServesRing, ServesCpuPlane, ServesGpuPlane, ServesOverride
        <4>3. w.unified /\ ~w.host => ServesOverride(h) \/ ServesGpuPlane(h)
          BY <1>4, <2>1 DEF Serves
        <4>4. /\ ServesOverride(h) => bridges[h].lib = "external"
              /\ ServesGpuPlane(h) => bridges[h].lib = "gpu_roce"
          BY DEF ServesOverride, ServesGpuPlane
        <4>5. w.gpu => w.unified /\ ~w.host /\ ~ServesOverride(h)
          BY <2>1, <3>2
        <4>6. w.gpu => bridges[h].lib = "gpu_roce" /\ w.unified /\ ~w.host
          BY <4>3, <4>4, <4>5
        <4>7. w.unified /\ ~w.host =>
                 ((w.launcher = "bridge") <=> (bridges[h].lib = "external"))
          <5>1. CASE ServesOverride(h)
            BY <2>1, <4>4, <5>1
          <5>2. CASE ~ServesOverride(h)
            BY <2>1, <4>3, <4>4, <5>2, LifecycleAssumption
          <5> QED
            BY <5>1, <5>2
        <4> QED
          BY <4>2, <4>6, <4>7
      <3> QED
        BY <1>5, <1>7, <2>1, <2>2, <3>1, <3>3 DEF WiredOK
    <2> QED
      BY <1>8, <1>9, <2>4, <2>5, <2>6, <2>7, <2>8, <2>9, OwnerStep
  <1> QED
    BY <1>3, <1>10, <1>11 DEF setBridgeAttach

-----------------------------------------------------------------------------
(* start.                                                                  *)

LEMMA StartFacts ==
    ASSUME LifecycleInv, NEW d \in Dispatchers, env.careless = {}, BeforeStart(d)
    PROVE  /\ pc[d] = "idle" /\ disp[d] # None /\ disp[d] \in DispatcherStates
           /\ disp[d].running = FALSE /\ LoopsOf(d) = {}
           /\ wiring[d] = None /\ started < MaxLoops
           /\ flag' \in [Dispatchers -> BOOLEAN] /\ flag'[d] = FALSE
           /\ \A e \in Dispatchers \ {d} : flag'[e] = flag[e]
           /\ UNCHANGED <<env, wiring, attached, registryVars>>
  <1>1. /\ pc[d] = "idle" /\ disp[d] # None /\ ~disp[d].running /\ started < MaxLoops
        /\ flag' = [flag EXCEPT ![d] = FALSE]
        /\ UNCHANGED <<env, wiring, attached, registryVars>>
    BY DEF BeforeStart, Ready, Careless
  <1>2. PhaseOK(d)
    BY DEF LifecycleInv
  <1>3. disp[d] \in DispatcherStates /\ disp[d].running \in BOOLEAN
    BY <1>1, States DEF LifecycleInv
  <1>4. LoopsOf(d) = {} /\ wiring[d] = None
    BY <1>1, <1>2 DEF PhaseOK
  <1> QED
    BY <1>1, <1>3, <1>4 DEF LifecycleInv, TypeOK

(* The loop that start launches polls the dispatcher's bridge, from the    *)
(* module that has been linked, with handlers of that module.              *)
LEMMA NewLoopFacts ==
    ASSUME LifecycleInv, NEW d \in Dispatchers, env.careless = {}, BeforeStart(d), Kept(d),
           LinkedKernel(d) => d \in modules', ~disp[d].host => disp'[d].stream = started + 1
    PROVE  /\ NewLoop(d) \in Loops /\ NewLoop(d).owner = d
           /\ \A k : k = NewLoop(d) => LoopOK(k)'
  <1> DEFINE l == NewLoop(d)
  <1>1. /\ disp[d] # None /\ disp[d] \in DispatcherStates /\ started < MaxLoops
        /\ UNCHANGED <<env, bridges, mOp, mBridge>>
    BY StartFacts DEF registryVars
  <1>2. /\ disp[d].table # None /\ disp[d].plane # None
        /\ LinkedKernel(d) => disp[d].table \in {"host", d}
    BY DEF BeforeStart, Valid, TableLinked
  <1>3. LinkedKernel(d) \in BOOLEAN
    BY DEF LinkedKernel
  <1>4. /\ l.id = started + 1 /\ l.owner = d /\ l.plane = disp[d].plane
        /\ l.unified = disp[d].unified /\ l.table = disp[d].table
        /\ l.linked = LinkedKernel(d)
    BY DEF NewLoop
  <1>5. l \in Loops
    <2>1. started + 1 \in 1 .. MaxLoops
      BY <1>1, LifecycleAssumption DEF LifecycleInv, TypeOK
    <2>2. /\ disp[d].plane \in Handles \cup {"app"} /\ disp[d].unified \in BOOLEAN
          /\ disp[d].table \in Dispatchers \cup {"app", "host"}
      BY <1>1, <1>2 DEF DispatcherStates
    <2> QED
      BY <1>3, <2>1, <2>2 DEF NewLoop, Loops
  <1>6. SUFFICES ASSUME NEW k, k = l PROVE LoopOK(k)'
    BY <1>4, <1>5
  <1> HIDE DEF l
  <1>7. WiredOK(d)
    BY DEF LifecycleInv
  <1>8. ASSUME k.plane \in Handles
        PROVE  /\ Lasting(k.plane) /\ bridges[k.plane].unified = k.unified
               /\ disp[d].bridge = k.plane
    BY <1>1, <1>4, <1>6, <1>7, <1>8, RegistryAssumption DEF WiredOK
  <1>9. \A h : Lasting(h)' <=> Lasting(h)
    BY <1>1 DEF Lasting, Live, Ending
  <1>10. disp'[d] # None
    BY LifecycleAssumption DEF Kept
  <1> QED
    BY <1>1, <1>2, <1>4, <1>6, <1>8, <1>9, <1>10 DEF LoopOK, Kept

(* A start that has launched its loop.                                     *)
LEMMA LaunchedStep ==
    ASSUME LifecycleInv, NEW d \in Dispatchers, env.careless = {}, BeforeStart(d),
           Launched(d), Kept(d),
           disp'[d].plane = disp[d].plane, disp'[d].launcher = disp[d].launcher,
           disp' = [disp EXCEPT ![d] = disp'[d]],
           modules' \in {modules, modules \cup {d}},
           LinkedKernel(d) => d \in modules', ~disp[d].host => disp'[d].stream = started + 1,
           pc' \in [Dispatchers -> {"idle", "wire", "stop", "destroy", "unwind"}],
           \A e \in Dispatchers \ {d} : pc'[e] = pc[e],
           \/ pc'[d] = "idle" /\ disp'[d].running = TRUE
           \/ pc'[d] = "unwind" /\ env.flag = "works" /\ ~disp[d].host
    PROVE  LifecycleInv'
  <1>1. /\ LoopsOf(d) = {} /\ wiring[d] = None /\ started < MaxLoops
        /\ flag' \in [Dispatchers -> BOOLEAN] /\ flag'[d] = FALSE
        /\ \A e \in Dispatchers \ {d} : flag'[e] = flag[e]
        /\ UNCHANGED <<env, wiring, attached, registryVars>>
    BY StartFacts
  <1>2. /\ NewLoop(d) \in Loops /\ NewLoop(d).owner = d
        /\ \A k : k = NewLoop(d) => LoopOK(k)'
    BY NewLoopFacts
  <1>3. PICK l \in Loops : l = NewLoop(d)
    BY <1>2
  <1>4. /\ l.owner = d /\ LoopOK(l)' /\ loops' = loops \cup {l}
        /\ started' = started + 1
    BY <1>2, <1>3 DEF Launched
  <1>5. OwnerOnly(d)
    BY <1>1, <1>4 DEF OwnerOnly, LifecycleInv, TypeOK
  <1>6. OneLoopEach'
    BY <1>1, <1>4 DEF OneLoopEach, LoopsOf, LifecycleInv
  <1>7. \A k \in loops' : k.owner = d => LoopOK(k)'
    BY <1>1, <1>4 DEF LoopsOf
  <1>8. WiredOK(d)'
    BY <1>5, WiringKept
  <1>9. PhaseOK(d)'
    <2>1. disp'[d] # None
      BY LifecycleAssumption DEF Kept
    <2>2. LoopsOf(d)' # {}
      BY <1>4 DEF LoopsOf
    <2> QED
      BY <1>1, <2>1, <2>2 DEF PhaseOK, Kept
  <1>10. /\ loops' \subseteq Loops /\ modules' \subseteq Dispatchers
         /\ started' \in 0 .. MaxLoops
    BY <1>1, <1>4, LifecycleAssumption DEF LifecycleInv, TypeOK
  <1>11. disp' \in [Dispatchers -> DispatcherStates \cup {None}]
    BY DEF Kept, LifecycleInv, TypeOK
  <1> QED
    BY <1>1, <1>5, <1>6, <1>7, <1>8, <1>9, <1>10, <1>11, RecordStep

LEMMA StartHostStep ==
    ASSUME LifecycleInv, NEW d \in Dispatchers, env.careless = {}, startHost(d)
    PROVE  LifecycleInv'
  <1>1. /\ BeforeStart(d) /\ Launched(d) /\ disp[d].host /\ UNCHANGED <<pc, modules>>
        /\ disp' = [disp EXCEPT ![d].running = TRUE]
    BY DEF startHost
  <1>2. disp[d] # None /\ disp[d] \in DispatcherStates /\ pc[d] = "idle"
    BY <1>1, StartFacts
  <1>3. /\ Kept(d) /\ disp'[d].plane = disp[d].plane /\ disp'[d].launcher = disp[d].launcher
        /\ disp'[d].running = TRUE
    BY <1>1, <1>2 DEF Kept, DispatcherStates, LifecycleInv, TypeOK
  <1>4. disp' = [disp EXCEPT ![d] = disp'[d]]
    BY <1>1 DEF LifecycleInv, TypeOK
  <1>5. ~LinkedKernel(d)
    BY <1>1 DEF LinkedKernel
  <1>6. pc' \in [Dispatchers -> {"idle", "wire", "stop", "destroy", "unwind"}]
    BY <1>1 DEF LifecycleInv, TypeOK
  <1> QED
    BY <1>1, <1>2, <1>3, <1>4, <1>5, <1>6, LaunchedStep

LEMMA LinkedFacts ==
    ASSUME LifecycleInv, NEW d \in Dispatchers, disp[d] \in DispatcherStates
    PROVE  /\ Linked(d) \in {modules, modules \cup {d}} /\ (LinkedKernel(d) => d \in Linked(d))
           /\ LinkedImages(d) \in {"binary1", "binary2", "none", None}
  BY DEF Linked, LinkedImages, DispatcherStates

LEMMA StartDeviceStep ==
    ASSUME LifecycleInv, NEW d \in Dispatchers, env.careless = {}, startDevice(d)
    PROVE  LifecycleInv'
  <1>1. /\ BeforeStart(d) /\ Launched(d) /\ ~disp[d].host /\ UNCHANGED pc
        /\ modules' = Linked(d)
        /\ disp' = [disp EXCEPT ![d].running = TRUE, ![d].stream = started + 1,
                                ![d].images = LinkedImages(d)]
    BY DEF startDevice
  <1>2. disp[d] # None /\ disp[d] \in DispatcherStates /\ pc[d] = "idle" /\ started < MaxLoops
    BY <1>1, StartFacts
  <1>3. /\ Linked(d) \in {modules, modules \cup {d}} /\ (LinkedKernel(d) => d \in Linked(d))
        /\ LinkedImages(d) \in {"binary1", "binary2", "none", None}
        /\ started + 1 \in 0 .. MaxLoops
    BY <1>2, LinkedFacts, LifecycleAssumption DEF LifecycleInv, TypeOK
  <1>4. /\ Kept(d) /\ disp'[d].plane = disp[d].plane /\ disp'[d].launcher = disp[d].launcher
        /\ disp'[d].running = TRUE /\ disp'[d].stream = started + 1
    BY <1>1, <1>2, <1>3 DEF Kept, DispatcherStates, LifecycleInv, TypeOK
  <1>5. disp' = [disp EXCEPT ![d] = disp'[d]]
    BY <1>1 DEF LifecycleInv, TypeOK
  <1>6. pc' \in [Dispatchers -> {"idle", "wire", "stop", "destroy", "unwind"}]
    BY <1>1 DEF LifecycleInv, TypeOK
  <1> QED
    BY <1>1, <1>2, <1>3, <1>4, <1>5, <1>6, LaunchedStep

(* A launch that reports an error although the kernel may be running.      *)
LEMMA StartFailsStep ==
    ASSUME LifecycleInv, NEW d \in Dispatchers, env.careless = {},
           env.flag = "works" \/ ~env.fails, startFails(d)
    PROVE  LifecycleInv'
  <1>1. /\ BeforeStart(d) /\ Launched(d) /\ ~disp[d].host /\ pc' = [pc EXCEPT ![d] = "unwind"]
        /\ modules' = Linked(d) /\ env.flag = "works"
        /\ disp' = [disp EXCEPT ![d].stream = started + 1, ![d].images = LinkedImages(d)]
    BY DEF startFails, Goto
  <1>2. disp[d] # None /\ disp[d] \in DispatcherStates /\ pc[d] = "idle" /\ started < MaxLoops
    BY <1>1, StartFacts
  <1>3. /\ Linked(d) \in {modules, modules \cup {d}} /\ (LinkedKernel(d) => d \in Linked(d))
        /\ LinkedImages(d) \in {"binary1", "binary2", "none", None}
        /\ started + 1 \in 0 .. MaxLoops
    BY <1>2, LinkedFacts, LifecycleAssumption DEF LifecycleInv, TypeOK
  <1>4. /\ Kept(d) /\ disp'[d].plane = disp[d].plane /\ disp'[d].launcher = disp[d].launcher
        /\ disp'[d].stream = started + 1
    BY <1>1, <1>2, <1>3 DEF Kept, DispatcherStates, LifecycleInv, TypeOK
  <1>5. disp' = [disp EXCEPT ![d] = disp'[d]]
    BY <1>1 DEF LifecycleInv, TypeOK
  <1>6. /\ pc' \in [Dispatchers -> {"idle", "wire", "stop", "destroy", "unwind"}]
        /\ pc'[d] = "unwind" /\ \A e \in Dispatchers \ {d} : pc'[e] = pc[e]
    BY <1>1 DEF LifecycleInv, TypeOK
  <1> QED
    BY <1>1, <1>2, <1>3, <1>4, <1>5, <1>6, LaunchedStep

LEMMA StartFailsCleanStep ==
    ASSUME LifecycleInv, NEW d \in Dispatchers, env.careless = {}, startFailsClean(d)
    PROVE  LifecycleInv'
  <1>1. BeforeStart(d) /\ UNCHANGED <<pc, loops, started>>
    BY DEF startFailsClean
  <1>2. /\ pc[d] = "idle" /\ disp[d] # None /\ disp[d] \in DispatcherStates
        /\ disp[d].running = FALSE /\ LoopsOf(d) = {} /\ wiring[d] = None
        /\ flag' \in [Dispatchers -> BOOLEAN]
        /\ \A e \in Dispatchers \ {d} : flag'[e] = flag[e]
        /\ UNCHANGED <<env, wiring, attached, registryVars>>
    BY <1>1, StartFacts
  <1>3. /\ Kept(d) /\ disp'[d].plane = disp[d].plane /\ disp'[d].launcher = disp[d].launcher
        /\ disp'[d].running = FALSE /\ disp' \in [Dispatchers -> DispatcherStates \cup {None}]
        /\ \A e \in Dispatchers \ {d} : disp'[e] = disp[e]
        /\ modules' \in {modules, modules \cup {d}}
    <2>1. CASE UNCHANGED <<disp, modules>>
      BY <1>2, <2>1 DEF Kept, LifecycleInv, TypeOK
    <2>2. CASE /\ modules' = Linked(d)
               /\ \E s \in {0, disp[d].stream} :
                     disp' = [disp EXCEPT ![d].stream = s, ![d].images = LinkedImages(d)]
      <3>1. PICK s \in {0, disp[d].stream} :
               disp' = [disp EXCEPT ![d].stream = s, ![d].images = LinkedImages(d)]
        BY <2>2
      <3>2. /\ Linked(d) \in {modules, modules \cup {d}} /\ s \in 0 .. MaxLoops
            /\ LinkedImages(d) \in {"binary1", "binary2", "none", None}
        BY <1>2, LinkedFacts, LifecycleAssumption DEF DispatcherStates
      <3>3. /\ Kept(d) /\ disp'[d].plane = disp[d].plane /\ disp'[d].launcher = disp[d].launcher
            /\ disp'[d].running = FALSE
        <4>0. PICK t \in 0 .. MaxLoops, i \in {"binary1", "binary2", "none", None} :
                 disp' = [disp EXCEPT ![d].stream = t, ![d].images = i]
          BY <3>1, <3>2
        <4>1. /\ Kept(d) /\ disp'[d].plane = disp[d].plane
              /\ disp'[d].launcher = disp[d].launcher /\ disp'[d].running = disp[d].running
          BY <1>2, <4>0 DEF Kept, DispatcherStates, LifecycleInv, TypeOK
        <4> QED
          BY <1>2, <4>1
      <3>4. disp' = [disp EXCEPT ![d] = disp'[d]]
        BY <3>1 DEF LifecycleInv, TypeOK
      <3> QED
        BY <2>2, <3>2, <3>3, <3>4 DEF Kept, LifecycleInv, TypeOK
    <2> QED
      BY <2>1, <2>2 DEF startFailsClean
  <1>4. OwnerOnly(d)
    BY <1>1, <1>2, <1>3 DEF OwnerOnly
  <1>5. WiredOK(d)'
    BY <1>3, <1>4, WiringKept
  <1>6. PhaseOK(d)'
    BY <1>1, <1>2, <1>3 DEF PhaseOK, LoopsOf
  <1>7. \A l \in loops' : l.owner # d
    BY <1>1, <1>2 DEF LoopsOf
  <1>8. OneLoopEach' /\ loops' \subseteq Loops /\ started' \in 0 .. MaxLoops
        /\ modules' \subseteq Dispatchers
        /\ pc' \in [Dispatchers -> {"idle", "wire", "stop", "destroy", "unwind"}]
    BY <1>1, <1>3 DEF LifecycleInv, TypeOK, OneLoopEach
  <1> QED
    BY <1>2, <1>3, <1>4, <1>5, <1>6, <1>7, <1>8, RecordStep

-----------------------------------------------------------------------------
(* stop and destroy.                                                       *)

(* A step into or inside a stop or destroy that leaves d's record and its  *)
(* loops alone.                                                            *)
LEMMA HaltStep ==
    ASSUME LifecycleInv, NEW d \in Dispatchers, pc[d] # "wire", disp[d] # None,
           NEW p \in {"stop", "destroy"},
           p = "destroy" /\ ~disp[d].host /\ env.flag = "works" => LoopsOf(d) = {},
           pc' = [pc EXCEPT ![d] = p], flag' \in {flag, [flag EXCEPT ![d] = TRUE]},
           UNCHANGED <<env, disp, wiring, attached, loops, started, modules, registryVars>>
    PROVE  LifecycleInv'
  <1>1. /\ pc' \in [Dispatchers -> {"idle", "wire", "stop", "destroy", "unwind"}]
        /\ pc'[d] = p /\ \A e \in Dispatchers \ {d} : pc'[e] = pc[e]
        /\ flag' \in [Dispatchers -> BOOLEAN]
        /\ \A e \in Dispatchers \ {d} : flag'[e] = flag[e]
    BY DEF LifecycleInv, TypeOK
  <1>2. OwnerOnly(d) /\ Kept(d)
    BY <1>1, States DEF OwnerOnly, Kept, LifecycleInv
  <1>3. PhaseOK(d)'
    <2>1. PhaseOK(d) /\ LoopsOf(d)' = LoopsOf(d)
      BY DEF LifecycleInv, LoopsOf
    <2> QED
      BY <1>1, <2>1 DEF PhaseOK
  <1>4. /\ OneLoopEach' /\ loops' \subseteq Loops
        /\ \A l \in loops' : l.owner = d => LoopOK(l)'
    BY <1>2, LoopsKept
  <1> QED
    BY <1>1, <1>2, <1>3, <1>4, WiringKept, RecordStep DEF LifecycleInv, TypeOK

LEMMA StopStep ==
    ASSUME LifecycleInv, NEW d \in Dispatchers, stop(d) \/ stopDevice(d)
    PROVE  LifecycleInv'
  <1>1. /\ pc' = [pc EXCEPT ![d] = "stop"] /\ flag' = [flag EXCEPT ![d] = TRUE]
        /\ UNCHANGED <<env, disp, wiring, attached, loops, started, modules, registryVars>>
        /\ pc[d] \in {"idle", "unwind"} /\ (pc[d] = "idle" => disp[d] # None)
    BY DEF stop, stopDevice, Goto, Raise, Stopping, Ready
  <1>2. disp[d] # None
    BY <1>1 DEF LifecycleInv, PhaseOK
  <1> QED
    BY <1>1, <1>2, HaltStep

(* A flag that cannot be written: the dispatcher goes on running, and a    *)
(* failed launch has not happened where this can happen.                   *)
LEMMA StopDeviceFailsStep ==
    ASSUME LifecycleInv, NEW d \in Dispatchers, stopDeviceFails(d)
    PROVE  LifecycleInv'
  <1>1. /\ pc' = [pc EXCEPT ![d] = "idle"] /\ env.flag # "works" /\ Stopping(d)
        /\ UNCHANGED <<env, disp, wiring, flag, attached, loops, started, modules, registryVars>>
    BY DEF stopDeviceFails, Goto
  <1>2. pc[d] = "idle" /\ disp[d] # None
    BY <1>1 DEF Stopping, Ready, LifecycleInv, PhaseOK
  <1>3. pc' = pc
    BY <1>1, <1>2 DEF LifecycleInv, TypeOK
  <1>4. Kept(d)
    BY <1>1, <1>2, States DEF Kept, LifecycleInv
  <1>5. OwnerOnly(d)
    BY <1>1, <1>3 DEF OwnerOnly
  <1>6. disp' = [disp EXCEPT ![d] = disp'[d]]
    BY <1>1 DEF LifecycleInv, TypeOK
  <1> QED
    BY <1>1, <1>2, <1>3, <1>4, <1>5, <1>6, WiringKept, SetterStep

LEMMA DestroyBeginsStep ==
    ASSUME LifecycleInv, NEW d \in Dispatchers, env.careless = {}, destroyBegins(d)
    PROVE  LifecycleInv'
  <1>1. /\ pc[d] = "idle" /\ disp[d] # None /\ pc' = [pc EXCEPT ![d] = "destroy"]
        /\ flag' \in {flag, [flag EXCEPT ![d] = TRUE]}
        /\ ~disp[d].host /\ env.flag = "works" => ~disp[d].running
        /\ UNCHANGED <<env, disp, wiring, attached, loops, started, modules, registryVars>>
    BY DEF destroyBegins, Ready, Goto, Careless
  <1>2. ~disp[d].host /\ env.flag = "works" => LoopsOf(d) = {}
    BY <1>1 DEF LifecycleInv, PhaseOK
  <1> QED
    BY <1>1, <1>2, HaltStep

(* stop returns once the loop is gone.                                     *)
LEMMA StoppedStep ==
    ASSUME LifecycleInv, NEW d \in Dispatchers, stopJoined(d) \/ stopDeviceSynchronized(d)
    PROVE  LifecycleInv'
  <1>1. /\ pc[d] = "stop" /\ pc' = [pc EXCEPT ![d] = "idle"]
        /\ UNCHANGED <<env, wiring, flag, attached, loops, started, modules, registryVars>>
    BY DEF stopJoined, stopDeviceSynchronized, Goto
  <1>2. disp[d] # None /\ wiring[d] = None
    BY <1>1 DEF LifecycleInv, PhaseOK
  <1>3. disp[d] \in DispatcherStates
    BY <1>2, States DEF LifecycleInv
  <1>4. LoopsOf(d) = {}
    <2>1. CASE stopJoined(d)
      BY <2>1 DEF stopJoined
    <2>2. CASE stopDeviceSynchronized(d)
      <3>1. ~disp[d].host /\ \A l \in loops : l.id # disp[d].stream
        BY <2>2 DEF stopDeviceSynchronized
      <3>2. \A l \in loops : l.owner = d => l.id = disp[d].stream
        BY <1>2, <3>1 DEF LifecycleInv, LoopOK
      <3> QED
        BY <3>1, <3>2 DEF LoopsOf
    <2> QED
      BY <2>1, <2>2
  <1>5. /\ Kept(d) /\ disp'[d].plane = disp[d].plane /\ disp'[d].launcher = disp[d].launcher
        /\ disp'[d].running = FALSE
    <2>1. CASE disp' = [disp EXCEPT ![d].running = FALSE]
      BY <1>2, <1>3, <2>1 DEF Kept, DispatcherStates, LifecycleInv, TypeOK
    <2>2. CASE disp' = [disp EXCEPT ![d].stream = 0, ![d].running = FALSE]
      <3>1. 0 \in 0 .. MaxLoops
        BY LifecycleAssumption
      <3> QED
        BY <1>2, <1>3, <2>2, <3>1 DEF Kept, DispatcherStates, LifecycleInv, TypeOK
    <2> QED
      BY <2>1, <2>2 DEF stopJoined, stopDeviceSynchronized
  <1>6. disp' = [disp EXCEPT ![d] = disp'[d]]
    BY DEF stopJoined, stopDeviceSynchronized, LifecycleInv, TypeOK
  <1>7. disp' \in [Dispatchers -> DispatcherStates \cup {None}]
    BY <1>5, <1>6 DEF Kept, LifecycleInv, TypeOK
  <1>8. /\ pc' \in [Dispatchers -> {"idle", "wire", "stop", "destroy", "unwind"}]
        /\ pc'[d] = "idle" /\ \A e \in Dispatchers \ {d} : pc'[e] = pc[e]
    BY <1>1 DEF LifecycleInv, TypeOK
  <1>9. OwnerOnly(d)
    BY <1>1, <1>6, <1>8 DEF OwnerOnly, LifecycleInv, TypeOK
  <1>10. PhaseOK(d)'
    BY <1>1, <1>2, <1>4, <1>5, <1>8 DEF PhaseOK, LoopsOf
  <1>11. /\ OneLoopEach' /\ loops' \subseteq Loops /\ \A l \in loops' : l.owner # d
    BY <1>1, <1>4 DEF LifecycleInv, TypeOK, OneLoopEach, LoopsOf
  <1> QED
    BY <1>1, <1>5, <1>7, <1>8, <1>9, <1>10, <1>11, WiringKept, RecordStep
    DEF LifecycleInv, TypeOK

(* destroy gives the bridge back, and unloads the module unless a kernel   *)
(* may still run from it.                                                  *)
LEMMA DestroyedStep ==
    ASSUME LifecycleInv, NEW d \in Dispatchers, destroyed(d)
    PROVE  LifecycleInv'
  <1>1. /\ pc[d] = "destroy" /\ (disp[d].host => LoopsOf(d) = {})
        /\ attached' = attached \ {disp[d].bridge}
        /\ modules' = IF disp[d].stream = 0 THEN modules \ {d} ELSE modules
        /\ disp' = [disp EXCEPT ![d] = None] /\ pc' = [pc EXCEPT ![d] = "idle"]
        /\ UNCHANGED <<env, wiring, flag, loops, started, registryVars>>
    BY DEF destroyed, Goto, Unloads
  <1>2. /\ disp[d] # None /\ wiring[d] = None
        /\ ~disp[d].host /\ env.flag = "works" => LoopsOf(d) = {}
    BY <1>1 DEF LifecycleInv, PhaseOK
  <1>3. disp[d] \in DispatcherStates
    BY <1>2, States DEF LifecycleInv
  <1>4. /\ disp' \in [Dispatchers -> DispatcherStates \cup {None}] /\ disp'[d] = None
        /\ \A e \in Dispatchers \ {d} : disp'[e] = disp[e]
        /\ pc' \in [Dispatchers -> {"idle", "wire", "stop", "destroy", "unwind"}]
        /\ pc'[d] = "idle" /\ \A e \in Dispatchers \ {d} : pc'[e] = pc[e]
    BY <1>1 DEF LifecycleInv, TypeOK
  <1>5. OwnerOnly(d)
    BY <1>1, <1>4 DEF OwnerOnly
  <1>6. TypeOK'
    <2>1. RegistryTypeOK'
      BY <1>5, OthersKept DEF RegistryInv
    <2> QED
      BY <1>1, <1>4, <2>1 DEF LifecycleInv, TypeOK
  <1>7. AttachedExactly'
    <2>1. \A e \in Dispatchers \ {d} :
            disp[e] # None => disp[e].bridge # disp[d].bridge \/ disp[e].bridge = None
      BY <1>2 DEF BridgesApart, LifecycleInv
    <2>2. {disp'[e].bridge : e \in {x \in Dispatchers : disp'[x] # None}} \ {None}
            = ({disp[e].bridge : e \in {x \in Dispatchers : disp[x] # None}} \ {None})
                \ {disp[d].bridge}
      BY <1>2, <1>4, <2>1
    <2> QED
      BY <1>1, <2>2 DEF AttachedExactly, LifecycleInv
  <1>8. BridgesApart' /\ OneLoopEach'
    BY <1>1, <1>4 DEF BridgesApart, OneLoopEach, LifecycleInv
  <1>9. PhaseOK(d)' /\ WiredOK(d)'
    BY <1>1, <1>2, <1>4 DEF PhaseOK, WiredOK
  <1>10. ASSUME NEW l \in loops', l.owner = d PROVE LoopOK(l)'
    <2>1. l \in loops /\ l \in LoopsOf(d) /\ LoopOK(l) /\ l.id \in 1 .. MaxLoops
      BY <1>1, <1>10 DEF LoopsOf, LifecycleInv, TypeOK, Loops
    <2>2. ~disp[d].host /\ env.flag # "works"
      BY <1>1, <1>2, <2>1
    <2>3. l.id = disp[d].stream
      BY <1>2, <1>10, <2>1, <2>2 DEF LoopOK
    <2>4. modules' = modules
      BY <1>1, <2>1, <2>3, LifecycleAssumption
    <2>5. UNCHANGED <<env, bridges, mOp, mBridge>>
      BY <1>1 DEF registryVars
    <2>6. Lasting(l.plane)' <=> Lasting(l.plane)
      BY <2>5 DEF Lasting, Live, Ending
    <2> QED
      BY <1>4, <1>10, <2>1, <2>2, <2>4, <2>5, <2>6 DEF LoopOK
  <1> QED
    BY <1>5, <1>6, <1>7, <1>8, <1>9, <1>10, OwnerStep

(* A loop ends only when its flag is raised, which no owner does between   *)
(* calls.                                                                  *)
LEMMA LoopEndsStep ==
    ASSUME LifecycleInv, NEW l \in loops, loopEnds(l)
    PROVE  LifecycleInv'
  <1>0. PICK d \in Dispatchers : d = l.owner
    BY DEF LifecycleInv, TypeOK, Loops
  <1>1. /\ flag[d] /\ loops' = loops \ {l}
        /\ UNCHANGED <<env, disp, pc, wiring, flag, attached, started, modules, registryVars>>
    BY <1>0 DEF loopEnds
  <1>2. OwnerOnly(d)
    BY <1>0, <1>1 DEF OwnerOnly
  <1>3. UNCHANGED <<env, bridges, mOp, mBridge>>
    BY <1>1 DEF registryVars
  <1>4. TypeOK'
    <2>1. RegistryTypeOK'
      BY <1>2, OthersKept DEF RegistryInv
    <2> QED
      BY <1>1, <2>1 DEF LifecycleInv, TypeOK
  <1>5. AttachedExactly' /\ BridgesApart' /\ OneLoopEach'
    BY <1>1 DEF LifecycleInv, AttachedExactly, BridgesApart, OneLoopEach
  <1>6. WiredOK(d)'
    <2>1. WiredOK(d)
      BY DEF LifecycleInv
    <2>2. Lasting(disp[d].bridge)' <=> Lasting(disp[d].bridge)
      BY <1>1, <1>3 DEF Lasting, Live, Ending
    <2> QED
      BY <1>1, <1>3, <2>1, <2>2 DEF WiredOK
  <1>7. PhaseOK(d)'
    <2>1. PhaseOK(d) /\ LoopsOf(d)' \subseteq LoopsOf(d) /\ l \in LoopsOf(d)
      BY <1>0, <1>1 DEF LifecycleInv, LoopsOf
    <2>2. pc[d] \in {"idle", "wire"} => disp[d] = None
      BY <1>1, <2>1 DEF PhaseOK
    <2>3. pc[d] # "wire"
      BY <2>1, <2>2 DEF PhaseOK
    <2>4. pc'[d] = pc[d] /\ disp'[d] = disp[d] /\ wiring'[d] = wiring[d] /\ env' = env
      BY <1>1
    <2> QED
      BY <2>1, <2>2, <2>3, <2>4 DEF PhaseOK
  <1>8. ASSUME NEW k \in loops', k.owner = d PROVE LoopOK(k)'
    <2>1. LoopOK(k)
      BY <1>1, <1>8 DEF LifecycleInv
    <2>2. Lasting(k.plane)' <=> Lasting(k.plane)
      BY <1>3 DEF Lasting, Live, Ending
    <2> QED
      BY <1>1, <1>3, <2>1, <2>2 DEF LoopOK
  <1> QED
    BY <1>2, <1>4, <1>5, <1>6, <1>7, <1>8, OwnerStep

-----------------------------------------------------------------------------

LEMMA LifecycleStart == Init => LifecycleInv
  <1> SUFFICES ASSUME Init PROVE LifecycleInv
    OBVIOUS
  <1>1. RegistryInv
    BY DEF Init, RegistryInit, RegistryInv, RegistryTypeOK, RegistryExact, NoAbort,
       OneCaller, CallPlaced, CallOpen, ClosedAtRest, Live
  <1>2. TypeOK
    BY <1>1, LifecycleAssumption DEF RegistryInv, Init, TypeOK
  <1>3. AttachedExactly /\ BridgesApart /\ OneLoopEach
    BY DEF Init, AttachedExactly, BridgesApart, OneLoopEach
  <1>4. \A d \in Dispatchers : PhaseOK(d) /\ WiredOK(d)
    BY DEF Init, PhaseOK, WiredOK
  <1> QED
    BY <1>1, <1>2, <1>3, <1>4 DEF LifecycleInv, Init

LEMMA LifecycleStep ==
    ASSUME Documented, LifecycleInv, [Next]_vars
    PROVE  LifecycleInv'
  <1>0. env.careless = {} /\ (env.flag = "works" \/ ~env.fails)
    BY DEF Documented, LifecycleInv, TypeOK
  <1>1. ASSUME NEW m \in env.managers, manager(m) PROVE LifecycleInv'
    BY <1>1, ManagerStep
  <1>2. ASSUME NEW d \in Dispatchers, owner(d) PROVE LifecycleInv'
    <2>1. CASE cudaqDispatcherCreate(d)
      BY <2>1, CreateDispatcherStep
    <2>2. CASE setFunctionTable(d)
      BY <2>2, SetFunctionTableStep
    <2>3. CASE setOwnPlane(d)
      BY <2>3, SetOwnPlaneStep
    <2>4. CASE setUnifiedLaunch(d)
      BY <2>4, SetUnifiedLaunchStep
    <2>5. CASE start(d)
      BY <1>0, <2>5, StartHostStep, StartDeviceStep, StartFailsCleanStep, StartFailsStep DEF start
    <2>6. CASE stop(d) \/ stopDevice(d)
      BY <2>6, StopStep
    <2>7. CASE stopDeviceFails(d)
      BY <2>7, StopDeviceFailsStep
    <2>8. CASE destroyBegins(d)
      BY <1>0, <2>8, DestroyBeginsStep
    <2>9. CASE inCall(d)
      BY <2>9, SetBridgeAttachStep, StoppedStep, DestroyedStep, StopStep, StopDeviceFailsStep
      DEF inCall
    <2>10. ASSUME NEW h \in Handles, setBridgeQuery(d, h) PROVE LifecycleInv'
      BY <1>0, <2>10, SetBridgeQueryStep
    <2>11. ASSUME NEW b \in {"binary1", "binary2"}, NEW handler \in BOOLEAN,
                  lookup(d, b, handler)
           PROVE  LifecycleInv'
      BY <2>11, LookupStep
    <2> QED
      BY <1>2, <2>1, <2>2, <2>3, <2>4, <2>5, <2>6, <2>7, <2>8, <2>9, <2>10, <2>11 DEF owner
  <1>3. ASSUME NEW l \in loops, loopEnds(l) PROVE LifecycleInv'
    BY <1>3, LoopEndsStep
  <1>4. CASE UNCHANGED vars
    <2>1. UNCHANGED lifeVars /\ UNCHANGED registryVars
      BY <1>4 DEF vars
    <2>2. UNCHANGED <<loaded, registry, bridges, mPc, mOp, mBridge, aborted>>
      BY <2>1 DEF registryVars
    <2>3. RegistryInv'
      BY <2>2 DEF LifecycleInv, RegistryInv, RegistryTypeOK, RegistryExact, NoAbort, OneCaller,
         CallPlaced, CallOpen, ClosedAtRest, Live, Ctx, Unjoined
    <2>4. \A h \in Handles : Lasting(h) => SameBridge(h) /\ ~Ending(h)'
      <3> SUFFICES ASSUME NEW h \in Handles, Lasting(h) PROVE SameBridge(h) /\ ~Ending(h)'
        OBVIOUS
      <3>1. bridges[h] \in Contexts
        BY LiveContext DEF Lasting, LifecycleInv, RegistryInv
      <3> QED
        BY <2>2, <3>1 DEF SameBridge, Lasting, Live, Ending
    <2> QED
      BY <2>1, <2>3, <2>4, ManagersKeepWiring
  <1> QED
    BY <1>1, <1>2, <1>3, <1>4 DEF Next

(* The inductive invariant of bridges, dispatchers and loops, for callers  *)
(* that follow the documentation.                                          *)
THEOREM LifecycleInvariant ==
    ASSUME Documented PROVE Spec => []LifecycleInv
  <1>1. Init => LifecycleInv
    BY LifecycleStart
  <1>2. LifecycleInv /\ [Next]_vars => LifecycleInv'
    BY LifecycleStep
  <1> QED
    BY <1>1, <1>2, PTL DEF Spec

(* One consumer for each bridge, of the bridge's shape and geometry, on    *)
(* the bridge's own context; attached_bridges is exact.                    *)
THEOREM LifecycleWiringSound ==
    ASSUME Documented PROVE Spec => []WiringSound
  <1>1. LifecycleInv => WiringSound
    <2> SUFFICES ASSUME LifecycleInv PROVE WiringSound
      OBVIOUS
    <2>1. TypeOK /\ AttachedExactly
      BY DEF LifecycleInv
    <2>2. OneConsumer
      <3> SUFFICES ASSUME env.flag = "works", NEW l \in loops, NEW k \in loops,
                          l.plane = k.plane, l.plane \in Handles
                   PROVE  l = k
        BY DEF OneConsumer, OneLoopPerBridge
      <3>1. /\ l.owner \in Dispatchers /\ disp[l.owner] # None
            /\ disp[l.owner].bridge = l.plane
        BY DEF LifecycleInv, LoopOK, TypeOK, Loops
      <3>2. /\ k.owner \in Dispatchers /\ disp[k.owner] # None
            /\ disp[k.owner].bridge = k.plane
        BY DEF LifecycleInv, LoopOK, TypeOK, Loops
      <3>3. l.owner = k.owner
        BY <3>1, <3>2, RegistryAssumption DEF LifecycleInv, BridgesApart
      <3> QED
        BY <3>3 DEF LifecycleInv, OneLoopEach
    <2>3. WiredAsServed
      <3> SUFFICES ASSUME NEW l \in loops, l.plane \in Handles
                   PROVE  /\ Live(l.plane) /\ bridges[l.plane].unified = l.unified
                          /\ disp[l.owner] # None => disp[l.owner].slots = bridges[l.plane].slots
        BY DEF WiredAsServed
      <3>1. LoopOK(l) /\ l.owner \in Dispatchers /\ WiredOK(l.owner)
        BY DEF LifecycleInv, TypeOK, Loops
      <3> QED
        BY <3>1, RegistryAssumption DEF LoopOK, WiredOK, Lasting
    <2>4. LauncherOnItsContext
      BY DEF LauncherOnItsContext, LifecycleInv, WiredOK
    <2> QED
      BY <2>1, <2>2, <2>3, <2>4 DEF WiringSound
  <1> QED
    BY <1>1, LifecycleInvariant, PTL

(* A kernel's module stays loaded while it runs, and its handlers are of   *)
(* that module.                                                            *)
THEOREM LifecycleKernelCodeLoaded ==
    ASSUME Documented PROVE Spec => []KernelCodeLoaded
  <1>1. LifecycleInv => KernelCodeLoaded
    BY DEF LifecycleInv, LoopOK, KernelCodeLoaded, ModuleOutlivesKernels, HandlersInModule
  <1> QED
    BY <1>1, LifecycleInvariant, PTL

(* Between calls, `running' is set exactly when a loop runs.               *)
THEOREM LifecycleRunningIffServing ==
    ASSUME Documented PROVE Spec => []RunningIffServing
  <1>1. LifecycleInv => RunningIffServing
    BY DEF LifecycleInv, PhaseOK, RunningIffServing, Ready
  <1> QED
    BY <1>1, LifecycleInvariant, PTL

(* The registry is exact, and a disconnected bridge stays at rest.         *)
THEOREM LifecycleBridgesSound ==
    ASSUME Documented PROVE Spec => []BridgesSound
  <1>1. LifecycleInv => BridgesSound
    BY DEF LifecycleInv, RegistryInv, ClosedAtRest, BridgesSound, DisconnectIsFinal
  <1> QED
    BY <1>1, LifecycleInvariant, PTL

(* No call of such callers ends the process, and no provider works on a    *)
(* context that has been freed.                                            *)
THEOREM LifecycleNoAbort ==
    ASSUME Documented PROVE Spec => [](NoAbort /\ NoFreedContext)
  <1>1. LifecycleInv => NoAbort /\ NoFreedContext
    <2> SUFFICES ASSUME LifecycleInv PROVE NoAbort /\ NoFreedContext
      OBVIOUS
    <2>1. NoAbort
      BY DEF LifecycleInv, RegistryInv
    <2>2. NoFreedContext
      BY Inside DEF LifecycleInv, NoFreedContext
    <2> QED
      BY <2>1, <2>2
  <1> QED
    BY <1>1, LifecycleInvariant, PTL

=============================================================================
