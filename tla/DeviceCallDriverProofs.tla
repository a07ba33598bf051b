----------------------- MODULE DeviceCallDriverProofs -----------------------
(***************************************************************************)
(* Proofs about DeviceCallDriver: type correctness, that every session     *)
(* that can be reached is running, that a finalize stops them all, and     *)
(* that devices neither share an endpoint nor initialize it twice, for any *)
(* number of devices, threads, configurations and sessions.                *)
(***************************************************************************)
EXTENDS DeviceCallDriver, FiniteSetTheorems, TLAPS

(* The two conjuncts support each other: a session is stopped only when no *)
(* owner is left, and every owner obtains its session from another owner   *)
(* or creates it in the same step.                                         *)
IInv == TypeOK /\ ReachableSessionsLive

(* A step that keeps live exactly the owned sessions among the old live    *)
(* ones and `new' keeps reachable sessions live, if it takes every owner's *)
(* session from those.                                                     *)
LEMMA DropUnownedKeeps ==
    ASSUME NEW new \in SUBSET Ids, TypeOK,
           sessions' \in [Devices -> live \cup new \cup {None}],
           local' \in [Threads -> live \cup new \cup {None}],
           handle' \in [Threads -> live \cup new \cup {None}],
           DropUnowned(new)
    PROVE  /\ ReachableSessionsLive'
           /\ live' \subseteq Ids
           /\ sessions' \in [Devices -> Ids \cup {None}]
           /\ local' \in [Threads -> Ids \cup {None}]
           /\ handle' \in [Threads -> Ids \cup {None}]
  <1>1. live' = (live \cup new)
          \cap ({sessions'[d] : d \in Devices} \cup {local'[t] : t \in Threads}
                  \cup {handle'[t] : t \in Threads})
    BY DEF DropUnowned, Owners
  <1>2. live \subseteq Ids
    BY DEF TypeOK
  <1>3. ReachableSessionsLive'
    BY <1>1 DEF ReachableSessionsLive
  <1>4. live' \subseteq Ids
    BY <1>1, <1>2
  <1> QED
    BY <1>2, <1>3, <1>4

(* What the owners hold is live or None.                                   *)
LEMMA OwnersHoldLive ==
    ASSUME IInv
    PROVE  /\ sessions \in [Devices -> live \cup {None}]
           /\ local \in [Threads -> live \cup {None}]
           /\ handle \in [Threads -> live \cup {None}]
  BY DEF IInv, TypeOK, ReachableSessionsLive

LEMMA InitIInv == Init => IInv
  <1> SUFFICES ASSUME Init PROVE IInv
    OBVIOUS
  <1>1. config \in Configs /\ inits \in 0 .. MaxInits
    BY ConfigsAssumption DEF Init
  <1>2. /\ sessions \in [Devices -> Ids \cup {None}]
        /\ kind \in [Ids -> Kinds \cup {"unused"}]
        /\ created \in [Devices -> Nat]
        /\ tDev \in [Threads -> Devices]
    BY ConfigsAssumption DEF Init, Empty
  <1>3. TypeOK
    BY <1>1, <1>2 DEF Init, TypeOK
  <1>4. ReachableSessionsLive
    BY DEF Init, ReachableSessionsLive, Empty
  <1> QED
    BY <1>3, <1>4 DEF IInv

(* Publishing a fresh session for a device, and not publishing, keep the   *)
(* invariant's clauses about sessions.                                     *)
SessionClauses ==
    /\ ReachableSessionsLive
    /\ sessions \in [Devices -> Ids \cup {None}]
    /\ kind \in [Ids -> Kinds \cup {"unused"}] /\ live \subseteq Ids
    /\ created \in [Devices -> Nat]
    /\ local \in [Threads -> Ids \cup {None}]
    /\ handle \in [Threads -> Ids \cup {None}]

LEMMA PublishKeeps ==
    ASSUME IInv, NEW d \in Devices, NEW k \in Kinds, publish(d, k),
           UNCHANGED <<local, handle>>
    PROVE  SessionClauses'
  <1>1. Fresh \in Ids /\ DropUnowned({Fresh})
    BY DEF publish
  <1>2. /\ sessions' = [sessions EXCEPT ![d] = Fresh]
        /\ kind' = [kind EXCEPT ![Fresh] = k]
        /\ created' = [created EXCEPT ![d] = @ + 1]
    BY DEF publish
  <1>3. /\ sessions' \in [Devices -> live \cup {Fresh} \cup {None}]
        /\ local' \in [Threads -> live \cup {Fresh} \cup {None}]
        /\ handle' \in [Threads -> live \cup {Fresh} \cup {None}]
    BY <1>2, OwnersHoldLive
  <1>4. /\ kind' \in [Ids -> Kinds \cup {"unused"}]
        /\ created' \in [Devices -> Nat]
    BY <1>1, <1>2 DEF IInv, TypeOK
  <1> HIDE DEF Fresh
  <1>5. {Fresh} \in SUBSET Ids
    BY <1>1
  <1> QED
    BY <1>1, <1>3, <1>4, <1>5, DropUnownedKeeps DEF SessionClauses, IInv

(* Steps that only move or drop owners.                                    *)
LEMMA MoveKeeps ==
    ASSUME IInv, UNCHANGED <<kind>>,
           created' \in [Devices -> Nat],
           sessions' \in [Devices -> live \cup {None}],
           local' \in [Threads -> live \cup {None}],
           handle' \in [Threads -> live \cup {None}],
           DropUnowned({})
    PROVE  SessionClauses'
  <1>1. kind' \in [Ids -> Kinds \cup {"unused"}]
    BY DEF IInv, TypeOK
  <1>2. /\ sessions' \in [Devices -> live \cup {} \cup {None}]
        /\ local' \in [Threads -> live \cup {} \cup {None}]
        /\ handle' \in [Threads -> live \cup {} \cup {None}]
        /\ {} \in SUBSET Ids
    OBVIOUS
  <1> QED
    BY <1>1, <1>2, DropUnownedKeeps DEF SessionClauses, IInv

LEMMA NoPublishKeeps ==
    ASSUME IInv, NoPublish, UNCHANGED <<local, handle>>
    PROVE  SessionClauses'
  BY OwnersHoldLive, MoveKeeps DEF NoPublish, IInv, TypeOK

LEMMA InitializeKeeps ==
    ASSUME IInv, NEW d \in Devices, initializeOk(d) \/ initializeThrows(d),
           UNCHANGED <<local, handle>>
    PROVE  SessionClauses'
  <1>1. CASE NoPublish
    BY <1>1, NoPublishKeeps
  <1>2. CASE publish(d, "builtin") \/ publish(d, "external")
    BY <1>2, PublishKeeps DEF Kinds
  <1>3. CASE /\ sessions' = [sessions EXCEPT ![d] = sessions[DefaultDeviceId]]
             /\ UNCHANGED <<kind, created>> /\ DropUnowned({})
    <2>1. /\ sessions' \in [Devices -> live \cup {None}]
          /\ local' \in [Threads -> live \cup {None}]
          /\ handle' \in [Threads -> live \cup {None}]
      BY <1>3, OwnersHoldLive, ConfigsAssumption
    <2> QED
      BY <1>3, <2>1, MoveKeeps DEF IInv, TypeOK
  <1> QED
    BY <1>1, <1>2, <1>3 DEF initializeOk, initializeThrows

(* One case per action; the clauses about sessions come from the lemmas.   *)
LEMMA StepIInv == IInv /\ [Next]_vars => IInv'
  <1> SUFFICES ASSUME IInv, [Next]_vars PROVE IInv'
    OBVIOUS
  <1> DEFINE Rest ==
        /\ config' \in Configs /\ finalized' \in BOOLEAN
        /\ phase' \in {"idle", "configured"}
        /\ lastCall' \in {"none", "initialize", "failed", "finalize"}
        /\ inits' \in 0 .. MaxInits
        /\ tPc' \in [Threads -> {"idle", "check", "init", "relook", "have",
                                 "leased"}]
        /\ tDev' \in [Threads -> Devices]
        /\ \A t \in Threads : /\ tPc'[t] = "have" <=> local'[t] # None
                              /\ tPc'[t] = "leased" <=> handle'[t] # None
  <1>0. ASSUME SessionClauses', Rest PROVE IInv'
    BY <1>0 DEF SessionClauses, IInv, TypeOK
  <1>1. CASE configure
    <2>1. Rest
      BY <1>1, ConfigsAssumption DEF configure, IInv, TypeOK, threadVars
    <2>2. CASE sessions' = [Empty EXCEPT ![DefaultDeviceId] = Fresh]
               /\ Fresh \in Ids /\ DropUnowned({Fresh})
               /\ kind' = [kind EXCEPT ![Fresh] = "external"]
      <3>1. /\ sessions' \in [Devices -> live \cup {Fresh} \cup {None}]
            /\ local' \in [Threads -> live \cup {Fresh} \cup {None}]
            /\ handle' \in [Threads -> live \cup {Fresh} \cup {None}]
        BY <1>1, <2>2, OwnersHoldLive DEF configure, threadVars, Empty
      <3>2. kind' \in [Ids -> Kinds \cup {"unused"}]
        BY <2>2 DEF IInv, TypeOK, Kinds
      <3>3. created' \in [Devices -> Nat]
        BY <1>1 DEF configure
      <3> HIDE DEF Fresh
      <3>4. {Fresh} \in SUBSET Ids
        BY <2>2
      <3>5. SessionClauses'
        BY <2>2, <3>1, <3>2, <3>3, <3>4, DropUnownedKeeps
           DEF SessionClauses, IInv
      <3> QED
        BY <2>1, <3>5, <1>0
    <2>3. CASE sessions' = Empty /\ DropUnowned({}) /\ UNCHANGED kind
      <3>1. /\ sessions' \in [Devices -> live \cup {None}]
            /\ local' \in [Threads -> live \cup {None}]
            /\ handle' \in [Threads -> live \cup {None}]
        BY <1>1, <2>3, OwnersHoldLive DEF configure, threadVars, Empty
      <3>2. created' \in [Devices -> Nat]
        BY <1>1 DEF configure
      <3>3. SessionClauses'
        BY <2>3, <3>1, <3>2, MoveKeeps
      <3> QED
        BY <2>1, <3>3, <1>0
    <2> QED
      BY <1>1, <2>2, <2>3 DEF configure
  <1>2. CASE initializeMode
    <2>1. Rest
      BY <1>2 DEF initializeMode, IInv, TypeOK, threadVars
    <2>2. CASE initializeOk(DefaultDeviceId) \/ initializeThrows(DefaultDeviceId)
      <3>1. SessionClauses'
        BY <1>2, <2>2, InitializeKeeps, ConfigsAssumption
           DEF initializeMode, threadVars
      <3> QED
        BY <2>1, <3>1, <1>0
    <2>3. CASE UNCHANGED <<sessions, finalized, kind, live, created>>
      <3>1. SessionClauses'
        BY <1>2, <2>3 DEF initializeMode, threadVars, SessionClauses, IInv,
           TypeOK, ReachableSessionsLive
      <3> QED
        BY <2>1, <3>1, <1>0
    <2> QED
      BY <1>2, <2>2, <2>3 DEF initializeMode
  <1>3. CASE finalize
    <2>1. Rest
      BY <1>3 DEF finalize, IInv, TypeOK, threadVars
    <2>2. CASE config.enabled
      <3>1. /\ sessions' \in [Devices -> live \cup {None}]
            /\ local' \in [Threads -> live \cup {None}]
            /\ handle' \in [Threads -> live \cup {None}]
            /\ created' \in [Devices -> Nat]
            /\ DropUnowned({}) /\ UNCHANGED kind
        BY <1>3, <2>2, OwnersHoldLive DEF finalize, threadVars, Empty
      <3>2. SessionClauses'
        BY <3>1, MoveKeeps
      <3> QED
        BY <2>1, <3>2, <1>0
    <2>3. CASE ~config.enabled
      <3>1. SessionClauses'
        BY <1>3, <2>3 DEF finalize, threadVars, SessionClauses, IInv, TypeOK,
           ReachableSessionsLive
      <3> QED
        BY <2>1, <3>1, <1>0
    <2> QED
      BY <2>2, <2>3
  <1>4. ASSUME NEW t \in Threads, lookupSession(t) PROVE IInv'
    <2>1. Rest
      BY <1>4 DEF lookupSession, Goto, driverVars, IInv, TypeOK
    <2>2. SessionClauses'
      BY <1>4 DEF lookupSession, driverVars, SessionClauses, IInv, TypeOK,
         ReachableSessionsLive
    <2> QED
      BY <2>1, <2>2, <1>0
  <1>5. ASSUME NEW t \in Threads, isFinalized(t) PROVE IInv'
    <2>1. Rest
      BY <1>5 DEF isFinalized, Goto, driverVars, IInv, TypeOK
    <2>2. SessionClauses'
      BY <1>5 DEF isFinalized, driverVars, SessionClauses, IInv, TypeOK,
         ReachableSessionsLive
    <2> QED
      BY <2>1, <2>2, <1>0
  <1>6. ASSUME NEW t \in Threads, lazyInitialize(t) PROVE IInv'
    <2>1. Rest
      BY <1>6 DEF lazyInitialize, Goto, IInv, TypeOK
    <2>2. tDev[t] \in Devices
      BY <1>6 DEF IInv, TypeOK
    <2>3. SessionClauses'
      BY <1>6, <2>2, InitializeKeeps DEF lazyInitialize
    <2> QED
      BY <2>1, <2>3, <1>0
  <1>7. ASSUME NEW t \in Threads, relookSession(t) PROVE IInv'
    <2>1. Rest
      BY <1>7, NoneAssumption DEF relookSession, Goto, driverVars, IInv, TypeOK
    <2>2. SessionClauses'
      BY <1>7 DEF relookSession, driverVars, SessionClauses, IInv, TypeOK,
         ReachableSessionsLive
    <2> QED
      BY <2>1, <2>2, <1>0
  <1>8. ASSUME NEW t \in Threads, leaseFrame(t) \/ releaseFrame(t) PROVE IInv'
    <2>1. Rest
      BY <1>8 DEF leaseFrame, releaseFrame, Goto, driverVars, IInv, TypeOK
    <2>2. /\ sessions' \in [Devices -> live \cup {None}]
          /\ local' \in [Threads -> live \cup {None}]
          /\ handle' \in [Threads -> live \cup {None}]
      BY <1>8, OwnersHoldLive DEF leaseFrame, releaseFrame
    <2>3. SessionClauses'
      BY <1>8, <2>2, MoveKeeps DEF leaseFrame, releaseFrame, IInv, TypeOK
    <2> QED
      BY <2>1, <2>3, <1>0
  <1>9. CASE UNCHANGED vars
    BY <1>9 DEF vars, threadVars, IInv, TypeOK, ReachableSessionsLive
  <1> QED
    BY <1>1, <1>2, <1>3, <1>4, <1>5, <1>6, <1>7, <1>8, <1>9 DEF Next

(* The invariant of the driver.                                            *)
THEOREM DriverInvariant == Spec => []IInv
  BY InitIInv, StepIInv, PTL DEF Spec

(* Type correctness of the driver, for every set of configurations.        *)
THEOREM DriverTypeOK == Spec => []TypeOK
  <1>1. IInv => TypeOK
    BY DEF IInv
  <1> QED
    BY <1>1, DriverInvariant, PTL

(* No caller of the driver ever reaches a stopped session, whatever        *)
(* initialize, finalize and the other callers do meanwhile.                *)
THEOREM DriverReachableSessionsLive == Spec => []ReachableSessionsLive
  <1>1. IInv => ReachableSessionsLive
    BY DEF IInv
  <1> QED
    BY <1>1, DriverInvariant, PTL

-----------------------------------------------------------------------------
(* The latch.                                                              *)

LEMMA LatchInit == Init => LatchInv
  <1> SUFFICES ASSUME Init PROVE LatchInv
    OBVIOUS
  <1>1. OwnersOnly
    BY DEF Init, OwnersOnly
  <1>2. LatchedEmpty /\ LatchedServesDefaultOnly
    BY DEF Init, LatchedEmpty, LatchedServesDefaultOnly
  <1> QED
    BY <1>1, <1>2 DEF LatchInv

(* A step that stops the sessions nobody owns leaves only owned ones.      *)
LEMMA DropUnownedOwns ==
    ASSUME NEW new, DropUnowned(new)
    PROVE  live' \subseteq Owners(sessions, local, handle)'
  BY DEF DropUnowned, Owners

LEMMA InitializeOwns ==
    ASSUME NEW d, initializeOk(d) \/ initializeThrows(d)
    PROVE  live' \subseteq Owners(sessions, local, handle)'
  BY DropUnownedOwns DEF initializeOk, initializeThrows, publish, NoPublish

LEMMA OwnersStep == IInv /\ OwnersOnly /\ [Next]_vars => OwnersOnly'
  <1> SUFFICES ASSUME IInv, OwnersOnly, [Next]_vars PROVE OwnersOnly'
    OBVIOUS
  <1> USE DEF OwnersOnly
  <1>1. CASE configure
    <2>1. UNCHANGED threadVars
      BY <1>1 DEF configure
    <2>2. live' \subseteq Owners(sessions, local, handle)'
      BY <1>1, DropUnownedOwns DEF configure
    <2> QED
      BY <2>1, <2>2 DEF threadVars
  <1>2. CASE initializeMode
    <2>1. UNCHANGED threadVars
      BY <1>2 DEF initializeMode
    <2>2. live' \subseteq Owners(sessions, local, handle)'
      <3>1. CASE UNCHANGED <<sessions, live>>
        BY <2>1, <3>1 DEF threadVars, Owners
      <3> QED
        BY <1>2, <3>1, InitializeOwns DEF initializeMode
    <2> QED
      BY <2>1, <2>2 DEF threadVars
  <1>3. CASE finalize
    <2>1. UNCHANGED threadVars
      BY <1>3 DEF finalize
    <2>2. live' \subseteq Owners(sessions, local, handle)'
      BY <1>3, <2>1, DropUnownedOwns DEF finalize, threadVars, Owners
    <2> QED
      BY <2>1, <2>2 DEF threadVars
  <1>4. ASSUME NEW t \in Threads, lookupSession(t) \/ relookSession(t)
        PROVE  OwnersOnly'
    <2>1. PICK d \in Devices :
            /\ local' = [local EXCEPT ![t] = sessions[d]]
            /\ tPc' = [tPc EXCEPT ![t] = IF sessions[d] # None THEN "have"
                                          ELSE IF tPc[t] = "idle" THEN "check" ELSE "idle"]
      BY <1>4 DEF lookupSession, relookSession, Goto, IInv, TypeOK
    <2>2. /\ UNCHANGED <<sessions, live, handle>>
          /\ local[t] = None /\ handle[t] = None
      BY <1>4 DEF lookupSession, relookSession
    <2>3. live' \subseteq Owners(sessions, local, handle)'
      BY <2>1, <2>2, NoneAssumption DEF Owners, IInv, TypeOK
    <2> QED
      BY <2>1, <2>2, <2>3 DEF IInv, TypeOK
  <1>5. ASSUME NEW t \in Threads, isFinalized(t) PROVE OwnersOnly'
    <2>1. UNCHANGED <<sessions, live, local, handle>> /\ tPc[t] = "check"
      BY <1>5 DEF isFinalized
    <2>2. \A u \in Threads : u # t => tPc'[u] = tPc[u]
      BY <1>5 DEF isFinalized, Goto, IInv, TypeOK
    <2> QED
      BY <2>1, <2>2 DEF Owners
  <1>6. ASSUME NEW t \in Threads, lazyInitialize(t) PROVE OwnersOnly'
    <2>1. UNCHANGED <<local, handle>> /\ tPc[t] = "init"
      BY <1>6 DEF lazyInitialize
    <2>2. \A u \in Threads : u # t => tPc'[u] = tPc[u]
      BY <1>6 DEF lazyInitialize, Goto, IInv, TypeOK
    <2>3. live' \subseteq Owners(sessions, local, handle)'
      BY <1>6, InitializeOwns DEF lazyInitialize
    <2> QED
      BY <2>1, <2>2, <2>3
  <1>7. ASSUME NEW t \in Threads, leaseFrame(t) \/ releaseFrame(t) PROVE OwnersOnly'
    <2>1. live' \subseteq Owners(sessions, local, handle)'
      BY <1>7, DropUnownedOwns DEF leaseFrame, releaseFrame
    <2>2. \A u \in Threads : /\ local'[u] # None => tPc'[u] = "have"
                             /\ handle'[u] # None => tPc'[u] = "leased"
      BY <1>7 DEF leaseFrame, releaseFrame, Goto, IInv, TypeOK
    <2> QED
      BY <2>1, <2>2
  <1>8. CASE UNCHANGED vars
    BY <1>8 DEF vars, threadVars, Owners
  <1> QED
    BY <1>1, <1>2, <1>3, <1>4, <1>5, <1>6, <1>7, <1>8 DEF Next

LEMMA LatchStep ==
    IInv /\ LatchedEmpty /\ LatchedServesDefaultOnly /\ [Next]_vars
      => LatchedEmpty' /\ LatchedServesDefaultOnly'
  <1> SUFFICES ASSUME IInv, LatchedEmpty, LatchedServesDefaultOnly, [Next]_vars
               PROVE  LatchedEmpty' /\ LatchedServesDefaultOnly'
    OBVIOUS
  <1> USE DEF LatchedEmpty, LatchedServesDefaultOnly
  <1>1. CASE configure
    <2>1. CASE /\ config'.enabled /\ phase' = "configured"
               /\ sessions' = [Empty EXCEPT ![DefaultDeviceId] = Fresh]
      BY <2>1 DEF Empty
    <2>2. CASE sessions' = Empty
      BY <2>2 DEF Empty
    <2> QED
      BY <1>1, <2>1, <2>2 DEF configure
  <1>2. CASE initializeMode
    <2>1. CASE finalized' = FALSE
      BY <2>1
    <2>2. CASE UNCHANGED <<sessions, finalized>> /\ lastCall' = "initialize"
      BY <1>2, <2>2 DEF initializeMode
    <2> QED
      BY <1>2, <2>1, <2>2 DEF initializeMode
  <1>3. CASE finalize
    <2>1. CASE config.enabled
      BY <1>3, <2>1 DEF finalize, Empty
    <2>2. CASE ~config.enabled
      BY <1>3, <2>2 DEF finalize
    <2> QED
      BY <2>1, <2>2
  <1>4. ASSUME NEW t \in Threads, lazyInitialize(t)
        PROVE  LatchedEmpty' /\ LatchedServesDefaultOnly'
    BY <1>4 DEF lazyInitialize
  <1>5. CASE UNCHANGED <<config, finalized, phase, lastCall, sessions>>
    BY <1>5
  <1> QED
    BY <1>1, <1>2, <1>3, <1>4, <1>5
    DEF Next, vars, lookupSession, isFinalized, relookSession, leaseFrame,
        releaseFrame, driverVars

(* finalize is final as far as the latch reaches, for any number of calls  *)
(* in flight: once they are over every session has been stopped, and while *)
(* the latch is set only the default device can have a session.            *)
THEOREM DriverLatchHolds == Spec => []LatchHolds
  <1>1. Init => LatchInv
    BY LatchInit
  <1>2. IInv /\ LatchInv /\ [Next]_vars => LatchInv'
    BY OwnersStep, LatchStep DEF LatchInv
  <1>3. IInv /\ LatchInv => LatchHolds
    <2> SUFFICES ASSUME IInv, LatchInv, lastCall = "finalize", phase = "idle",
                        finalized, \A t \in Threads : tPc[t] = "idle"
                 PROVE  live = {}
      BY DEF LatchHolds, FinalizeStopsAll, LatchInv
    <2>1. sessions = Empty
      BY DEF LatchInv, LatchedEmpty
    <2>2. \A t \in Threads : local[t] = None /\ handle[t] = None
      BY DEF LatchInv, OwnersOnly
    <2>3. live \subseteq {None}
      BY <2>1, <2>2 DEF LatchInv, OwnersOnly, Owners, Empty
    <2> QED
      BY <2>3, NoneAssumption DEF IInv, TypeOK
  <1> QED
    BY <1>1, <1>2, <1>3, DriverInvariant, PTL DEF Spec

-----------------------------------------------------------------------------
(* One session per device.                                                 *)

(* The next id is one that was never used.                                 *)
LEMMA FreshIsUnused ==
    ASSUME IdsInOrder, Fresh \in Ids
    PROVE  /\ kind[Fresh] = "unused"
           /\ Fresh \in Nat
           /\ \A s \in Ids : kind[s] # "unused" <=> s <= Fresh - 1
  <1>1. PICK n \in 0 .. MaxSessions : \A s \in Ids : kind[s] # "unused" <=> s <= n
    BY DEF IdsInOrder
  <1>2. {s \in Ids : kind[s] # "unused"} = 1 .. n
    BY <1>1, ConfigsAssumption DEF Ids
  <1>3. Cardinality(1 .. n) = n
    <2>1. n \in Int /\ n >= 0
      BY ConfigsAssumption
    <2>2. Cardinality(1 .. n) = IF 1 > n THEN 0 ELSE n - 1 + 1
      BY <2>1, FS_Interval
    <2> QED
      BY <2>1, <2>2
  <1>4. Fresh = n + 1
    BY <1>2, <1>3 DEF Fresh
  <1> QED
    BY <1>1, <1>4, ConfigsAssumption DEF Ids

(* Using it up.                                                            *)
LEMMA FreshKeepsOrder ==
    ASSUME TypeOK, IdsInOrder, Fresh \in Ids, NEW k \in Kinds,
           kind' = [kind EXCEPT ![Fresh] = k]
    PROVE  IdsInOrder' /\ kind'[Fresh] = k
  <1>1. /\ kind[Fresh] = "unused" /\ Fresh \in Nat
        /\ \A s \in Ids : kind[s] # "unused" <=> s <= Fresh - 1
    BY FreshIsUnused
  <1> DEFINE f == Fresh
  <1>2. /\ f \in Ids /\ f \in Nat /\ kind' = [kind EXCEPT ![f] = k]
        /\ \A s \in Ids : kind[s] # "unused" <=> s <= f - 1
    BY <1>1
  <1> HIDE DEF f
  <1>3. kind'[f] = k
    BY <1>2 DEF TypeOK
  <1>4. \A s \in Ids : kind'[s] # "unused" <=> s <= f
    BY <1>2, <1>3, ConfigsAssumption DEF TypeOK, Kinds, Ids
  <1>5. f \in 0 .. MaxSessions
    BY <1>2, ConfigsAssumption DEF Ids
  <1> QED
    BY <1>3, <1>4, <1>5 DEF IdsInOrder, f

LEMMA TableInit == Init => TableInv
  <1> SUFFICES ASSUME Init PROVE TableInv
    OBVIOUS
  <1>1. IdsInOrder
    BY ConfigsAssumption DEF Init, IdsInOrder, Ids
  <1>2. TableUsed /\ CreatedServes /\ SessionsPerDevice
    BY DEF Init, Empty, TableUsed, CreatedServes, SessionsPerDevice,
       LazyInitializeOnce, EndpointsNotShared
  <1> QED
    BY <1>1, <1>2 DEF TableInv

(* publish is only reached where the device was not initialized.           *)
LEMMA PublishKeepsTable ==
    ASSUME IInv, TableInv, NEW d \in Devices, NEW k \in Kinds, publish(d, k),
           ~initialized(d), Builtin(d) => k = "builtin", UNCHANGED config
    PROVE  TableInv'
  <1> DEFINE f == Fresh
  <1>1. /\ f \in Ids /\ kind' = [kind EXCEPT ![f] = k]
        /\ sessions' = [sessions EXCEPT ![d] = f]
        /\ created' = [created EXCEPT ![d] = @ + 1]
        /\ IdsInOrder
    BY DEF publish, TableInv
  <1>2. kind[f] = "unused" /\ IdsInOrder' /\ kind'[f] = k
    BY <1>1, FreshIsUnused, FreshKeepsOrder DEF IInv
  <1> HIDE DEF f
  <1>3. /\ sessions \in [Devices -> Ids \cup {None}] /\ f # None
        /\ kind \in [Ids -> Kinds \cup {"unused"}] /\ created \in [Devices -> Nat]
    BY <1>1, NoneAssumption DEF IInv, TypeOK
  <1>4. \A e \in Devices : sessions[e] # None =>
           sessions[e] # f /\ kind'[sessions[e]] = kind[sessions[e]]
    BY <1>1, <1>2, <1>3 DEF TableInv, TableUsed
  <1>5. /\ sessions'[d] = f
        /\ \A e \in Devices : e # d => sessions'[e] = sessions[e]
    BY <1>1, <1>3
  <1>6. TableUsed'
    BY <1>2, <1>3, <1>4, <1>5 DEF TableInv, TableUsed, Kinds
  <1>7. /\ created[d] = 0 /\ created'[d] = 1
        /\ \A e \in Devices : e # d => created'[e] = created[e]
    BY <1>1, <1>3 DEF TableInv, CreatedServes
  <1>8. LazyInitializeOnce'
    BY <1>7 DEF TableInv, SessionsPerDevice, LazyInitializeOnce
  <1>9. EndpointsNotShared'
    <2>1. config.scoped \subseteq Devices
      BY ConfigsAssumption DEF IInv, TypeOK
    <2> QED
      BY <1>4, <1>5, <2>1 DEF TableInv, SessionsPerDevice, EndpointsNotShared
  <1>10. CreatedServes'
    <2> SUFFICES ASSUME NEW e \in Devices, created'[e] # 0 PROVE initialized(e)'
      BY DEF CreatedServes
    <2>1. CASE e = d
      BY <1>2, <1>3, <1>5, <2>1 DEF initialized, HasService, Builtin
    <2>2. CASE e # d
      <3>1. initialized(e)
        BY <1>7, <2>2 DEF TableInv, CreatedServes
      <3> QED
        BY <1>4, <1>5, <2>2, <3>1 DEF initialized, HasService, Builtin
    <2> QED
      BY <2>1, <2>2
  <1> QED
    BY <1>2, <1>6, <1>8, <1>9, <1>10 DEF TableInv, SessionsPerDevice

LEMMA TableFrame ==
    ASSUME TableInv, UNCHANGED <<config, sessions, kind, created>>
    PROVE  TableInv'
  BY DEF TableInv, IdsInOrder, TableUsed, CreatedServes, SessionsPerDevice,
     LazyInitializeOnce, EndpointsNotShared, initialized, HasService, Builtin

LEMMA InitializeKeepsTable ==
    ASSUME IInv, TableInv, NEW d \in Devices, UNCHANGED config,
           initializeOk(d) \/ initializeThrows(d)
    PROVE  TableInv'
  <1>1. CASE NoPublish
    BY <1>1, TableFrame DEF NoPublish
  <1>2. CASE ~initialized(d) /\ Builtin(d) /\ publish(d, "builtin")
    BY <1>2, PublishKeepsTable DEF Kinds
  <1>3. CASE ~initialized(d) /\ ~Builtin(d) /\ publish(d, "external")
    BY <1>3, PublishKeepsTable DEF Kinds
  <1>4. CASE /\ ~initialized(d) /\ ~Builtin(d)
             /\ d # DefaultDeviceId /\ d \notin config.scoped
             /\ sessions[DefaultDeviceId] # None
             /\ sessions' = [sessions EXCEPT ![d] = sessions[DefaultDeviceId]]
             /\ UNCHANGED <<kind, created>>
    <2>1. /\ sessions \in [Devices -> Ids \cup {None}] /\ DefaultDeviceId \in Devices
          /\ created \in [Devices -> Nat]
      BY ConfigsAssumption DEF IInv, TypeOK
    <2>2. /\ sessions'[d] = sessions[DefaultDeviceId]
          /\ \A e \in Devices : e # d => sessions'[e] = sessions[e]
      BY <1>4, <2>1
    <2>3. IdsInOrder' /\ LazyInitializeOnce'
      BY <1>4 DEF TableInv, IdsInOrder, SessionsPerDevice, LazyInitializeOnce
    <2>4. TableUsed'
      BY <1>4, <2>1, <2>2 DEF TableInv, TableUsed
    <2>5. CreatedServes'
      BY <1>4, <2>1, <2>2
      DEF TableInv, CreatedServes, initialized, HasService, Builtin
    <2>6. EndpointsNotShared'
      BY <1>4, <2>1, <2>2 DEF TableInv, SessionsPerDevice, EndpointsNotShared
    <2> QED
      BY <2>3, <2>4, <2>5, <2>6 DEF TableInv, SessionsPerDevice
  <1> QED
    BY <1>1, <1>2, <1>3, <1>4 DEF initializeOk, initializeThrows

LEMMA ConfigureKeepsTable == IInv /\ TableInv /\ configure => TableInv'
  <1> SUFFICES ASSUME IInv, TableInv, configure PROVE TableInv'
    OBVIOUS
  <1>0. DefaultDeviceId \in Devices
    BY ConfigsAssumption
  <1>1. CASE /\ config'.enabled /\ config'.chan[DefaultDeviceId] = "external"
             /\ Fresh \in Ids
             /\ kind' = [kind EXCEPT ![Fresh] = "external"]
             /\ sessions' = [Empty EXCEPT ![DefaultDeviceId] = Fresh]
             /\ created' = [d \in Devices |-> IF d = DefaultDeviceId THEN 1 ELSE 0]
    <2> DEFINE f == Fresh
    <2>1. IdsInOrder' /\ kind'[f] = "external" /\ f # None
      BY <1>1, FreshKeepsOrder, NoneAssumption DEF IInv, TableInv, Kinds
    <2>2. /\ sessions' = [Empty EXCEPT ![DefaultDeviceId] = f]
      BY <1>1
    <2> HIDE DEF f
    <2>3. \A e \in Devices : sessions'[e] = IF e = DefaultDeviceId THEN f ELSE None
      BY <1>0, <2>2 DEF Empty
    <2>4. TableUsed' /\ EndpointsNotShared'
      <3>1. config'.scoped \subseteq Devices
        BY ConfigsAssumption DEF configure
      <3>2. TableUsed'
        BY <2>1, <2>3 DEF TableUsed
      <3>3. EndpointsNotShared'
        BY <2>3, <3>1 DEF EndpointsNotShared
      <3> QED
        BY <3>2, <3>3
    <2>5. LazyInitializeOnce'
      BY <1>1 DEF LazyInitializeOnce
    <2>6. CreatedServes'
      <3> SUFFICES ASSUME NEW e \in Devices, created'[e] # 0 PROVE initialized(e)'
        BY DEF CreatedServes
      <3>1. e = DefaultDeviceId
        BY <1>1
      <3> QED
        BY <1>1, <2>1, <2>3, <3>1 DEF initialized, HasService, Builtin
    <2> QED
      BY <2>1, <2>4, <2>5, <2>6 DEF TableInv, SessionsPerDevice
  <1>2. CASE sessions' = Empty /\ created' = [d \in Devices |-> 0] /\ UNCHANGED kind
    BY <1>2 DEF TableInv, IdsInOrder, TableUsed, CreatedServes,
       SessionsPerDevice, LazyInitializeOnce, EndpointsNotShared, Empty
  <1> QED
    BY <1>1, <1>2 DEF configure

LEMMA TableStep == IInv /\ TableInv /\ [Next]_vars => TableInv'
  <1> SUFFICES ASSUME IInv, TableInv, [Next]_vars PROVE TableInv'
    OBVIOUS
  <1>1. CASE configure
    BY <1>1, ConfigureKeepsTable
  <1>2. CASE initializeMode
    <2>1. CASE UNCHANGED <<sessions, kind, created>>
      BY <1>2, <2>1, TableFrame DEF initializeMode
    <2> QED
      BY <1>2, <2>1, InitializeKeepsTable, ConfigsAssumption DEF initializeMode
  <1>3. CASE finalize
    <2>1. CASE config.enabled
      BY <1>3, <2>1 DEF finalize, TableInv, IdsInOrder, TableUsed, CreatedServes,
         SessionsPerDevice, LazyInitializeOnce, EndpointsNotShared, Empty
    <2>2. CASE ~config.enabled
      BY <1>3, <2>2, TableFrame DEF finalize
    <2> QED
      BY <2>1, <2>2
  <1>4. ASSUME NEW t \in Threads, lazyInitialize(t) PROVE TableInv'
    <2>1. tDev[t] \in Devices /\ UNCHANGED config
      BY <1>4 DEF IInv, TypeOK, lazyInitialize
    <2> QED
      BY <1>4, <2>1, InitializeKeepsTable DEF lazyInitialize
  <1>5. CASE UNCHANGED <<config, sessions, kind, created>>
    BY <1>5, TableFrame
  <1> QED
    BY <1>1, <1>2, <1>3, <1>4, <1>5
    DEF Next, vars, lookupSession, isFinalized, relookSession, leaseFrame,
        releaseFrame, driverVars

(* However many threads race to use a device first, it gets one session    *)
(* until the table is next emptied; and a device with endpoint arguments   *)
(* of its own never shares another device's session.                       *)
THEOREM DriverSessionsPerDevice == Spec => []SessionsPerDevice
  <1>1. Init => TableInv
    BY TableInit
  <1>2. IInv /\ TableInv /\ [Next]_vars => TableInv'
    BY TableStep
  <1>3. TableInv => SessionsPerDevice
    BY DEF TableInv
  <1> QED
    BY <1>1, <1>2, <1>3, DriverInvariant, PTL DEF Spec

=============================================================================
