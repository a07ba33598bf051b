------------------------ MODULE CompiledModuleCache -------------------------
(***************************************************************************)
(* The cache of compiled kernels that concurrent launches share            *)
(* (python/runtime/cudaq/platform/CompiledModuleCache.cpp).  One mutex     *)
(* guards its two lists; it is held neither while a module is compiled nor *)
(* while another caller's compilation is waited for.  An attempt is the    *)
(* identity of a CompilingEntry, and of the module it produces.            *)
(***************************************************************************)
EXTENDS Naturals, Sequences, FiniteSets

CONSTANTS
    Threads,            \* callers of getOrCompile
    Keys,               \* cache keys
    maxReadyEntries,
    NoAttempt           \* a caller that is not concerned with any attempt

ASSUME CacheAssumption ==
    /\ maxReadyEntries \in Nat \ {0} /\ Keys # {}
    /\ NoAttempt \notin [n : Nat, key : Keys]

VARIABLES
    readyEntries,       \* sequence of published modules, oldest first
    compilingEntries,   \* set of outstanding attempts
    resolved,           \* completion of the attempts whose promise is set
    attempts,           \* how many attempts there have been
    tPc,                \* program point of each caller in getOrCompile
    tKey,               \* the key it asks for
    tAttempt,           \* the attempt it works on or waits for, its result
    published           \* history: every module that became ready, in order

cacheVars == <<readyEntries, compilingEntries, resolved, attempts,
               tPc, tKey, tAttempt, published>>

Attempts == [n : Nat, key : Keys]

CacheTypeOK ==
    /\ readyEntries \in Seq(Attempts) /\ Len(readyEntries) <= maxReadyEntries
    /\ compilingEntries \subseteq Attempts
    /\ resolved \subseteq [attempt : Attempts, ok : BOOLEAN]
    /\ attempts \in Nat
    /\ tPc \in [Threads -> {"out", "follow", "compile", "publish", "fulfil",
                            "erase", "reject", "have", "threw"}]
    /\ tKey \in [Threads -> Keys]
    /\ tAttempt \in [Threads -> Attempts \cup {NoAttempt}]
    /\ published \in Seq(Attempts)

CacheInit ==
    /\ readyEntries = << >> /\ compilingEntries = {} /\ resolved = {}
    /\ attempts = 0 /\ published = << >>
    /\ tPc = [t \in Threads |-> "out"]
    /\ tKey = [t \in Threads |-> CHOOSE k \in Keys : TRUE]
    /\ tAttempt = [t \in Threads |-> NoAttempt]

CacheGoto(t, pc) == tPc' = [tPc EXCEPT ![t] = pc]

-----------------------------------------------------------------------------

IsReady(k) == \E i \in DOMAIN readyEntries : readyEntries[i].key = k
IsCompiling(k) == \E a \in compilingEntries : a.key = k

(* The first lock scope of getOrCompile finds a module (ReadyReader) or an *)
(* attempt to join (Follower), or starts one (Producer).                   *)
readyReader(t, k) ==
    /\ \E i \in DOMAIN readyEntries :
         /\ readyEntries[i].key = k
         /\ \A j \in 1 .. i - 1 : readyEntries[j].key # k
         /\ tAttempt' = [tAttempt EXCEPT ![t] = readyEntries[i]]
    /\ CacheGoto(t, "have")
    /\ UNCHANGED <<compilingEntries, attempts>>

follower(t, k) ==
    /\ ~IsReady(k)
    /\ \E a \in compilingEntries :
         a.key = k /\ tAttempt' = [tAttempt EXCEPT ![t] = a]
    /\ CacheGoto(t, "follow")
    /\ UNCHANGED <<compilingEntries, attempts>>

producer(t, k) ==
    /\ ~IsReady(k) /\ ~IsCompiling(k)
    /\ LET a == [n |-> attempts + 1, key |-> k] IN
         /\ compilingEntries' = compilingEntries \cup {a}
         /\ tAttempt' = [tAttempt EXCEPT ![t] = a]
    /\ attempts' = attempts + 1
    /\ CacheGoto(t, "compile")

getOrCompile(t, k) ==
    /\ tPc[t] = "out"
    /\ readyReader(t, k) \/ follower(t, k) \/ producer(t, k)
    /\ tKey' = [tKey EXCEPT ![t] = k]
    /\ UNCHANGED <<readyEntries, resolved, published>>

(* The callback returns a module, or null, or throws.                      *)
compile(t, mayFail) ==
    /\ tPc[t] = "compile"
    /\ CacheGoto(t, "publish") \/ (mayFail /\ CacheGoto(t, "erase"))
    /\ UNCHANGED <<readyEntries, compilingEntries, resolved, attempts>>
    /\ UNCHANGED <<tKey, tAttempt, published>>

(* Mutant of publish: the attempt is withdrawn before its module is ready, *)
(* in a lock scope of its own.                                             *)
publishGap(t, mayFail) ==
    /\ tPc[t] = "publish"
    /\ \/ /\ tAttempt[t] \in compilingEntries
          /\ compilingEntries' = compilingEntries \ {tAttempt[t]}
          /\ UNCHANGED <<readyEntries, published, tPc>>
       \/ /\ tAttempt[t] \notin compilingEntries
          /\ LET more == Append(readyEntries, tAttempt[t]) IN
               readyEntries' = IF Len(more) > maxReadyEntries THEN Tail(more)
                                                              ELSE more
          /\ published' = Append(published, tAttempt[t])
          /\ CacheGoto(t, "fulfil") /\ UNCHANGED compilingEntries
       \/ mayFail /\ CacheGoto(t, "erase")
          /\ UNCHANGED <<readyEntries, compilingEntries, published>>
    /\ UNCHANGED <<resolved, attempts, tKey, tAttempt>>

(* The second lock scope: insert, evict the oldest, withdraw the attempt.  *)
(* The insertion may fail to allocate.                                     *)
publish(t, mayFail) ==
    /\ tPc[t] = "publish"
    /\ \/ /\ LET more == Append(readyEntries, tAttempt[t]) IN
               readyEntries' = IF Len(more) > maxReadyEntries THEN Tail(more)
                                                              ELSE more
          /\ compilingEntries' = compilingEntries \ {tAttempt[t]}
          /\ published' = Append(published, tAttempt[t])
          /\ CacheGoto(t, "fulfil")
       \/ mayFail /\ CacheGoto(t, "erase")
          /\ UNCHANGED <<readyEntries, compilingEntries, published>>
    /\ UNCHANGED <<resolved, attempts, tKey, tAttempt>>

(* Mutant of eraseFailed: the failed attempt stays listed.                 *)
eraseFailedKeep(t) ==
    /\ tPc[t] = "erase" /\ CacheGoto(t, "reject")
    /\ UNCHANGED <<readyEntries, compilingEntries, resolved, attempts>>
    /\ UNCHANGED <<tKey, tAttempt, published>>

(* The catch block withdraws the attempt, so that a later call can retry.  *)
eraseFailed(t) ==
    /\ tPc[t] = "erase"
    /\ compilingEntries' = compilingEntries \ {tAttempt[t]}
    /\ CacheGoto(t, "reject")
    /\ UNCHANGED <<readyEntries, resolved, attempts, tKey, tAttempt, published>>

(* Mutant of settle: a failure is rethrown without telling the followers.  *)
settleValueOnly(t) ==
    /\ tPc[t] \in {"fulfil", "reject"}
    /\ resolved' = IF tPc[t] = "fulfil"
                     THEN resolved \cup {[attempt |-> tAttempt[t], ok |-> TRUE]}
                     ELSE resolved
    /\ CacheGoto(t, IF tPc[t] = "fulfil" THEN "have" ELSE "threw")
    /\ UNCHANGED <<readyEntries, compilingEntries, attempts>>
    /\ UNCHANGED <<tKey, tAttempt, published>>

(* promise.set_value or set_exception, after the lock scope.               *)
settle(t) ==
    /\ tPc[t] \in {"fulfil", "reject"}
    /\ LET ok == tPc[t] = "fulfil" IN
         /\ resolved' = resolved \cup {[attempt |-> tAttempt[t], ok |-> ok]}
         /\ CacheGoto(t, IF ok THEN "have" ELSE "threw")
    /\ UNCHANGED <<readyEntries, compilingEntries, attempts>>
    /\ UNCHANGED <<tKey, tAttempt, published>>

(* completion.get() of a follower.                                         *)
followerWakes(t) ==
    /\ tPc[t] = "follow"
    /\ \E r \in resolved :
         /\ r.attempt = tAttempt[t]
         /\ CacheGoto(t, IF r.ok THEN "have" ELSE "threw")
    /\ UNCHANGED <<readyEntries, compilingEntries, resolved, attempts>>
    /\ UNCHANGED <<tKey, tAttempt, published>>

(* The caller has taken over the result.                                   *)
leaveCache(t) ==
    /\ tPc[t] \in {"have", "threw"}
    /\ CacheGoto(t, "out") /\ tAttempt' = [tAttempt EXCEPT ![t] = NoAttempt]
    /\ UNCHANGED <<readyEntries, compilingEntries, resolved, attempts>>
    /\ UNCHANGED <<tKey, published>>

cacheStep(t, mayFail) ==
    \/ compile(t, mayFail) \/ publish(t, mayFail) \/ eraseFailed(t)
    \/ settle(t) \/ followerWakes(t)

-----------------------------------------------------------------------------

Producing(t) == tPc[t] \in {"compile", "publish"}

(* A key is compiled by one caller at a time, and not at all while it is   *)
(* ready: no caller sees the gap between "Compiling" and "Ready".          *)
OneCompilationPerKey ==
    \A t \in Threads : Producing(t) =>
        /\ ~IsReady(tKey[t])
        /\ \A u \in Threads : Producing(u) /\ tKey[u] = tKey[t] => u = t

(* An attempt that callers can join has a producer that will settle it: a  *)
(* failure leaves nothing behind that a retry would wait for.              *)
AttemptsHaveProducers ==
    \A a \in compilingEntries :
        \E t \in Threads : tPc[t] \in {"compile", "publish", "erase"}
                           /\ tAttempt[t] = a

(* The caller that joins an attempt finds it unfinished, and what a caller *)
(* is handed is a module for the key it asked for that has been published. *)
RightModule ==
    /\ \A r \in resolved : r.attempt \notin compilingEntries
    /\ \A t \in Threads : tPc[t] = "have" =>
          /\ tAttempt[t].key = tKey[t]
          /\ \E i \in DOMAIN published : published[i] = tAttempt[t]

(* The ready modules are the last ones published, one per key: eviction is *)
(* first-in, first-out whatever the hits in between.                       *)
ReadyAreLatest ==
    /\ readyEntries = SubSeq(published,
          Len(published) - Len(readyEntries) + 1, Len(published))
    /\ \A i, j \in DOMAIN readyEntries :
          readyEntries[i].key = readyEntries[j].key => i = j

-----------------------------------------------------------------------------
(* The inductive invariant behind these properties.                        *)

Working(t) == tPc[t] \in {"compile", "publish", "erase"}
IsPublished(a) == \E i \in DOMAIN published : published[i] = a

(* A producer's attempt is listed under its key until it is published or   *)
(* withdrawn, and no other caller produces it.                             *)
WorkersListed ==
    \A t \in Threads : Working(t) =>
        /\ tAttempt[t] \in compilingEntries
        /\ \A u \in Threads : Working(u) /\ tAttempt[u] = tAttempt[t] => u = t

(* A listed key is listed once, and is not ready.                          *)
ListedOnce ==
    \A a \in compilingEntries :
        /\ ~IsReady(a.key)
        /\ \A b \in compilingEntries : b.key = a.key => b = a

(* What a caller works on, waits for or has been handed is an attempt at   *)
(* its key, and a new attempt is none of those that are under way.         *)
AttemptsKnown ==
    /\ \A t \in Threads : tPc[t] \notin {"out", "threw"} =>
          tAttempt[t] \in Attempts /\ tAttempt[t].key = tKey[t]
    /\ \A t \in Threads : tPc[t] \in {"fulfil", "reject"} =>
          tAttempt[t].n <= attempts
    /\ \A a \in compilingEntries : a.n <= attempts
    /\ \A r \in resolved : r.attempt.n <= attempts

(* An attempt is settled after it has left the list, and with a value only *)
(* if its module was published.                                            *)
SettledAfterwards ==
    /\ \A t \in Threads : tPc[t] \in {"fulfil", "reject"} =>
          tAttempt[t] \notin compilingEntries
    /\ \A t \in Threads : tPc[t] \in {"fulfil", "have"} => IsPublished(tAttempt[t])
    /\ \A r \in resolved :
          r.attempt \notin compilingEntries /\ (r.ok => IsPublished(r.attempt))

(* ReadyAreLatest, place by place.                                         *)
ReadyIsTail ==
    /\ Len(readyEntries) <= Len(published)
    /\ \A i \in DOMAIN readyEntries :
          readyEntries[i] = published[Len(published) - Len(readyEntries) + i]
    /\ \A i, j \in DOMAIN readyEntries :
          readyEntries[i].key = readyEntries[j].key => i = j

CacheInv ==
    /\ CacheTypeOK /\ AttemptsHaveProducers /\ WorkersListed /\ ListedOnce
    /\ AttemptsKnown /\ SettledAfterwards /\ ReadyIsTail

(* What the callers of the cache do, as far as the cache is concerned.     *)
CacheNext ==
    \E t \in Threads :
        \/ \E k \in Keys : getOrCompile(t, k)
        \/ \E mayFail \in BOOLEAN : cacheStep(t, mayFail)
        \/ leaveCache(t)

=============================================================================
