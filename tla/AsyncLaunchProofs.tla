-------------------------- MODULE AsyncLaunchProofs --------------------------
(***************************************************************************)
(* Proofs about asynchronous launching, for every number of QPUs, clients, *)
(* kernels, tasks and closers: LaunchInv is inductive, and from it follow  *)
(* the soundness of the compiled-module cache and of the execution queues  *)
(* in the composed system, and that a task executes under its own noise    *)
(* model.  The cache and the queues are treated first, each by its own     *)
(* steps (CacheNext, QueueNext); the composition shows that whatever a     *)
(* worker, a client or a closer does is such a step of both.  Broadcasts   *)
(* come last: BroadcastInv is inductive relative to LaunchInv, and gives   *)
(* the order of the results and the lifetime of the arguments.             *)
(***************************************************************************)
EXTENDS AsyncLaunch, SequenceTheorems, TLAPS

-----------------------------------------------------------------------------
(* The compiled-module cache.                                              *)

LEMMA CacheStart == CacheInit => CacheInv
  <1> SUFFICES ASSUME CacheInit PROVE CacheInv
    OBVIOUS
  <1>1. (CHOOSE k \in Keys : TRUE) \in Keys
    BY CacheAssumption
  <1>2. CacheTypeOK
    BY <1>1, CacheAssumption DEF CacheInit, CacheTypeOK
  <1>3. /\ readyEntries = << >> /\ published = << >> /\ compilingEntries = {}
        /\ resolved = {}
        /\ \A t \in Threads : tPc[t] = "out" /\ tAttempt[t] = NoAttempt
    BY DEF CacheInit
  <1>4. AttemptsHaveProducers /\ WorkersListed /\ ListedOnce
    BY <1>3 DEF AttemptsHaveProducers, WorkersListed, ListedOnce, Working
  <1>5. AttemptsKnown /\ SettledAfterwards
    BY <1>3 DEF AttemptsKnown, SettledAfterwards
  <1>6. ReadyIsTail
    BY <1>3 DEF ReadyIsTail
  <1> QED
    BY <1>2, <1>4, <1>5, <1>6 DEF CacheInv

(* Caller t moves on; the others do not.                                   *)
LEMMA CallerMoves ==
    ASSUME CacheTypeOK, NEW t \in Threads, NEW p, CacheGoto(t, p)
    PROVE  /\ tPc'[t] = p
           /\ \A u \in Threads : u # t => tPc'[u] = tPc[u]
  BY DEF CacheTypeOK, CacheGoto

LEMMA ReadyReaderKeeps ==
    ASSUME CacheInv, NEW t \in Threads, NEW k \in Keys,
           getOrCompile(t, k), readyReader(t, k)
    PROVE  CacheInv'
  <1>1. PICK i \in DOMAIN readyEntries :
          /\ readyEntries[i].key = k
          /\ tAttempt' = [tAttempt EXCEPT ![t] = readyEntries[i]]
    BY DEF readyReader
  <1> DEFINE a == readyEntries[i]
  <1>2. /\ readyEntries \in Seq(Attempts) /\ published \in Seq(Attempts)
        /\ i \in 1 .. Len(readyEntries) /\ CacheTypeOK
    BY DEF CacheInv, CacheTypeOK
  <1>3. a \in Attempts /\ IsPublished(a) /\ a.key = k
    <2>1. a = published[Len(published) - Len(readyEntries) + i]
          /\ Len(readyEntries) <= Len(published)
      BY <1>2 DEF CacheInv, ReadyIsTail
    <2>2. Len(published) - Len(readyEntries) + i \in DOMAIN published
      BY <1>2, <2>1
    <2> QED
      BY <1>1, <1>2, <2>1, <2>2 DEF IsPublished
  <1> HIDE DEF a
  <1>4. /\ tPc'[t] = "have" /\ tAttempt'[t] = a /\ tKey'[t] = k
        /\ \A u \in Threads : u # t => /\ tPc'[u] = tPc[u] /\ tKey'[u] = tKey[u]
                                      /\ tAttempt'[u] = tAttempt[u]
        /\ tPc[t] = "out"
    BY <1>1, <1>2, CallerMoves
    DEF a, getOrCompile, readyReader, CacheGoto, CacheTypeOK
  <1>5. UNCHANGED <<readyEntries, compilingEntries, resolved, attempts, published>>
    BY DEF getOrCompile, readyReader
  <1>6. CacheTypeOK'
    <2>1. /\ tPc' = [tPc EXCEPT ![t] = "have"] /\ tKey' = [tKey EXCEPT ![t] = k]
          /\ tAttempt' = [tAttempt EXCEPT ![t] = a]
      BY <1>1 DEF a, getOrCompile, readyReader, CacheGoto
    <2> QED
      BY <1>2, <1>3, <1>5, <2>1 DEF CacheTypeOK
  <1>7. AttemptsHaveProducers' /\ WorkersListed' /\ ListedOnce'
    BY <1>4, <1>5 DEF CacheInv, AttemptsHaveProducers, WorkersListed, ListedOnce,
       Working, IsReady
  <1>8. AttemptsKnown'
    BY <1>3, <1>4, <1>5 DEF CacheInv, AttemptsKnown
  <1>9. SettledAfterwards'
    BY <1>3, <1>4, <1>5 DEF CacheInv, SettledAfterwards, IsPublished
  <1>10. ReadyIsTail'
    BY <1>5 DEF CacheInv, ReadyIsTail
  <1> QED
    BY <1>6, <1>7, <1>8, <1>9, <1>10 DEF CacheInv

LEMMA FollowerKeeps ==
    ASSUME CacheInv, NEW t \in Threads, NEW k \in Keys,
           getOrCompile(t, k), follower(t, k)
    PROVE  CacheInv'
  <1>1. PICK a \in compilingEntries :
          a.key = k /\ tAttempt' = [tAttempt EXCEPT ![t] = a]
    BY DEF follower
  <1>2. CacheTypeOK /\ a \in Attempts
    BY DEF CacheInv, CacheTypeOK
  <1>3. /\ tPc' = [tPc EXCEPT ![t] = "follow"] /\ tKey' = [tKey EXCEPT ![t] = k]
        /\ tPc[t] = "out"
        /\ UNCHANGED <<readyEntries, compilingEntries, resolved, attempts, published>>
    BY DEF getOrCompile, follower, CacheGoto
  <1>4. /\ tPc'[t] = "follow" /\ tAttempt'[t] = a /\ tKey'[t] = k
        /\ \A u \in Threads : u # t => /\ tPc'[u] = tPc[u] /\ tKey'[u] = tKey[u]
                                      /\ tAttempt'[u] = tAttempt[u]
    BY <1>1, <1>2, <1>3 DEF CacheTypeOK
  <1>5. CacheTypeOK'
    BY <1>1, <1>2, <1>3 DEF CacheTypeOK
  <1>6. AttemptsHaveProducers' /\ WorkersListed' /\ ListedOnce'
    BY <1>3, <1>4 DEF CacheInv, AttemptsHaveProducers, WorkersListed, ListedOnce,
       Working, IsReady
  <1>7. AttemptsKnown'
    BY <1>1, <1>2, <1>3, <1>4 DEF CacheInv, AttemptsKnown
  <1>8. SettledAfterwards' /\ ReadyIsTail'
    BY <1>3, <1>4 DEF CacheInv, SettledAfterwards, IsPublished, ReadyIsTail
  <1> QED
    BY <1>5, <1>6, <1>7, <1>8 DEF CacheInv

(* The new attempt is none that anybody knows of: its number is new.       *)
LEMMA ProducerKeeps ==
    ASSUME CacheInv, NEW t \in Threads, NEW k \in Keys,
           getOrCompile(t, k), producer(t, k)
    PROVE  CacheInv'
  <1> DEFINE a == [n |-> attempts + 1, key |-> k]
  <1>1. /\ compilingEntries' = compilingEntries \cup {a}
        /\ tAttempt' = [tAttempt EXCEPT ![t] = a]
        /\ attempts' = attempts + 1
        /\ ~IsReady(k) /\ ~IsCompiling(k)
    BY DEF producer
  <1>2. CacheTypeOK /\ a \in Attempts /\ a.n = attempts + 1 /\ a.key = k
    BY DEF CacheInv, CacheTypeOK, Attempts
  <1> HIDE DEF a
  <1>3. /\ tPc' = [tPc EXCEPT ![t] = "compile"] /\ tKey' = [tKey EXCEPT ![t] = k]
        /\ tPc[t] = "out"
        /\ UNCHANGED <<readyEntries, resolved, published>>
    BY DEF getOrCompile, producer, CacheGoto
  <1>4. /\ tPc'[t] = "compile" /\ tAttempt'[t] = a /\ tKey'[t] = k
        /\ \A u \in Threads : u # t => /\ tPc'[u] = tPc[u] /\ tKey'[u] = tKey[u]
                                      /\ tAttempt'[u] = tAttempt[u]
    BY <1>1, <1>2, <1>3 DEF CacheTypeOK
  <1>5. CacheTypeOK'
    BY <1>1, <1>2, <1>3 DEF CacheTypeOK
  <1>6. /\ a \notin compilingEntries /\ attempts \in Nat
        /\ \A r \in resolved : r.attempt # a
        /\ \A u \in Threads : tPc[u] \in {"fulfil", "reject"} => tAttempt[u] # a
    BY <1>2 DEF CacheInv, AttemptsKnown, CacheTypeOK
  <1>7. AttemptsHaveProducers'
    BY <1>1, <1>3, <1>4 DEF CacheInv, AttemptsHaveProducers
  <1>8. WorkersListed'
    BY <1>1, <1>4, <1>6 DEF CacheInv, WorkersListed, Working
  <1>9. ListedOnce'
    BY <1>1, <1>2, <1>3 DEF CacheInv, ListedOnce, IsReady, IsCompiling
  <1>10. AttemptsKnown'
    <2>1. \A b \in compilingEntries : b.n \in Nat
      BY <1>2 DEF CacheTypeOK, Attempts
    <2>2. \A r \in resolved : r.attempt.n \in Nat
      BY <1>2 DEF CacheTypeOK, Attempts
    <2>3. \A u \in Threads : tPc[u] \in {"fulfil", "reject"} => tAttempt[u].n \in Nat
      BY <1>2 DEF CacheInv, AttemptsKnown, Attempts
    <2> QED
      BY <1>1, <1>2, <1>3, <1>4, <1>6, <2>1, <2>2, <2>3 DEF CacheInv, AttemptsKnown
  <1>11. SettledAfterwards'
    BY <1>1, <1>3, <1>4, <1>6 DEF CacheInv, SettledAfterwards, IsPublished
  <1>12. ReadyIsTail'
    BY <1>3 DEF CacheInv, ReadyIsTail
  <1> QED
    BY <1>5, <1>7, <1>8, <1>9, <1>10, <1>11, <1>12 DEF CacheInv

(* Steps that only move a producer on to its next lock scope.              *)
LEMMA ProducerMoves ==
    ASSUME CacheInv, NEW t \in Threads, NEW p \in {"publish", "erase"},
           tPc[t] \in {"compile", "publish"}, CacheGoto(t, p),
           UNCHANGED <<readyEntries, compilingEntries, resolved, attempts,
                       tKey, tAttempt, published>>
    PROVE  CacheInv'
  <1>1. CacheTypeOK
    BY DEF CacheInv
  <1>2. /\ tPc'[t] = p /\ \A u \in Threads : u # t => tPc'[u] = tPc[u]
    BY <1>1, CallerMoves
  <1>3. CacheTypeOK'
    BY <1>1 DEF CacheTypeOK, CacheGoto
  <1>4. AttemptsHaveProducers' /\ WorkersListed' /\ ListedOnce'
    BY <1>2 DEF CacheInv, AttemptsHaveProducers, WorkersListed, ListedOnce,
       Working, IsReady
  <1>5. AttemptsKnown' /\ SettledAfterwards'
    BY <1>2 DEF CacheInv, AttemptsKnown, SettledAfterwards, IsPublished
  <1>6. ReadyIsTail'
    BY DEF CacheInv, ReadyIsTail
  <1> QED
    BY <1>3, <1>4, <1>5, <1>6 DEF CacheInv

(* Taking an attempt off the list, by the producer that works on it.       *)
LEMMA WithdrawKeeps ==
    ASSUME CacheInv, NEW t \in Threads, Working(t), NEW p,
           p \in {"fulfil", "reject"}, CacheGoto(t, p),
           compilingEntries' = compilingEntries \ {tAttempt[t]},
           UNCHANGED <<resolved, attempts, tKey, tAttempt>>
    PROVE  AttemptsHaveProducers' /\ WorkersListed' /\ AttemptsKnown'
  <1>1. CacheTypeOK /\ tAttempt[t] \in compilingEntries
    BY DEF CacheInv, WorkersListed
  <1>2. /\ tPc'[t] = p /\ \A u \in Threads : u # t => tPc'[u] = tPc[u]
    BY <1>1, CallerMoves
  <1>3. AttemptsHaveProducers'
    BY <1>2 DEF CacheInv, AttemptsHaveProducers
  <1>4. WorkersListed'
    BY <1>2 DEF CacheInv, WorkersListed, Working
  <1>5. AttemptsKnown'
    BY <1>1, <1>2 DEF CacheInv, AttemptsKnown, Working
  <1> QED
    BY <1>3, <1>4, <1>5

LEMMA EraseKeeps ==
    ASSUME CacheInv, NEW t \in Threads, eraseFailed(t)
    PROVE  CacheInv'
  <1>1. /\ tPc[t] = "erase" /\ CacheGoto(t, "reject")
        /\ compilingEntries' = compilingEntries \ {tAttempt[t]}
        /\ UNCHANGED <<readyEntries, resolved, attempts, tKey, tAttempt, published>>
    BY DEF eraseFailed
  <1>2. CacheTypeOK
    BY DEF CacheInv
  <1>3. /\ tPc'[t] = "reject" /\ \A u \in Threads : u # t => tPc'[u] = tPc[u]
    BY <1>1, <1>2, CallerMoves
  <1>4. CacheTypeOK'
    BY <1>1, <1>2 DEF CacheTypeOK, CacheGoto
  <1>5. AttemptsHaveProducers' /\ WorkersListed' /\ AttemptsKnown'
    BY <1>1, WithdrawKeeps DEF Working
  <1>6. ListedOnce' /\ ReadyIsTail'
    BY <1>1 DEF CacheInv, ListedOnce, IsReady, ReadyIsTail
  <1>7. SettledAfterwards'
    BY <1>1, <1>3 DEF CacheInv, SettledAfterwards, IsPublished
  <1> QED
    BY <1>4, <1>5, <1>6, <1>7 DEF CacheInv

LEMMA Shift ==
    \A p, m, i, n \in Nat : n = m - 1 => p - m + (i + 1) = p - n + i
  OBVIOUS

(* The list of ready modules, with one more and within its bound.          *)
Evicting(R, a, b) ==
    IF Len(Append(R, a)) > b THEN Tail(Append(R, a)) ELSE Append(R, a)

(* R holds the latest modules of P, one per key.                           *)
LatestOf(R, P) ==
    /\ Len(R) <= Len(P)
    /\ \A i \in 1 .. Len(R) : R[i] = P[Len(P) - Len(R) + i]
    /\ \A i, j \in 1 .. Len(R) : R[i].key = R[j].key => i = j

(* Publishing a module under a key that is not ready keeps it so.          *)
LEMMA PublishList ==
    ASSUME NEW R \in Seq(Attempts), NEW P \in Seq(Attempts), NEW a \in Attempts,
           NEW b \in Nat \ {0}, Len(R) <= b, LatestOf(R, P),
           \A i \in 1 .. Len(R) : R[i].key # a.key
    PROVE  /\ Evicting(R, a, b) \in Seq(Attempts) /\ Len(Evicting(R, a, b)) <= b
           /\ LatestOf(Evicting(R, a, b), Append(P, a))
           /\ \A i \in 1 .. Len(Evicting(R, a, b)) :
                 \/ Evicting(R, a, b)[i] = a
                 \/ \E j \in 1 .. Len(R) : Evicting(R, a, b)[i] = R[j]
  <1> DEFINE R1 == Evicting(R, a, b)
             P1 == Append(P, a)
  <1> SUFFICES /\ R1 \in Seq(Attempts) /\ Len(R1) <= b /\ LatestOf(R1, P1)
               /\ \A i \in 1 .. Len(R1) :
                     R1[i] = a \/ \E j \in 1 .. Len(R) : R1[i] = R[j]
    OBVIOUS
  <1>a. /\ Len(R) <= Len(P)
        /\ \A i \in 1 .. Len(R) : R[i] = P[Len(P) - Len(R) + i]
        /\ \A i, j \in 1 .. Len(R) : R[i].key = R[j].key => i = j
    BY DEF LatestOf
  <1> DEFINE M == Append(R, a)
  <1>1. /\ M \in Seq(Attempts) /\ Len(M) = Len(R) + 1 /\ M[Len(R) + 1] = a
        /\ \A i \in 1 .. Len(R) : M[i] = R[i]
    OBVIOUS
  <1>2. /\ P1 \in Seq(Attempts) /\ Len(P1) = Len(P) + 1 /\ P1[Len(P) + 1] = a
        /\ \A i \in 1 .. Len(P) : P1[i] = P[i]
    OBVIOUS
  <1> HIDE DEF P1
  <1>0. /\ Len(R) \in Nat /\ Len(P) \in Nat /\ Len(M) \in Nat /\ Len(P1) \in Nat
    BY <1>1, <1>2
  <1> HIDE DEF R1
  <1>3. \A i \in 1 .. Len(M) : M[i] = P1[Len(P1) - Len(M) + i]
    <2> SUFFICES ASSUME NEW i \in 1 .. Len(M) PROVE M[i] = P1[Len(P1) - Len(M) + i]
      OBVIOUS
    <2>1. CASE i = Len(R) + 1
      BY <1>0, <1>1, <1>2, <2>1
    <2>2. CASE i \in 1 .. Len(R)
      <3>1. Len(P) - Len(R) + i \in 1 .. Len(P)
        BY <1>0, <1>a, <2>2
      <3>2. Len(P1) - Len(M) + i = Len(P) - Len(R) + i
        BY <1>0, <1>1, <1>2
      <3> QED
        BY <1>a, <1>1, <1>2, <2>2, <3>1, <3>2
    <2>3. i = Len(R) + 1 \/ i \in 1 .. Len(R)
      BY <1>0, <1>1
    <2> QED
      BY <2>1, <2>2, <2>3
  <1>4. \A i, j \in 1 .. Len(M) : M[i].key = M[j].key => i = j
    <2> SUFFICES ASSUME NEW i \in 1 .. Len(M), NEW j \in 1 .. Len(M),
                        M[i].key = M[j].key
                 PROVE  i = j
      OBVIOUS
    <2>1. (i \in 1 .. Len(R) \/ i = Len(R) + 1) /\ (j \in 1 .. Len(R) \/ j = Len(R) + 1)
      BY <1>0, <1>1
    <2> QED
      BY <1>a, <1>0, <1>1, <2>1
  <1>5. CASE Len(M) > b
    <2>1. R1 = Tail(M)
      BY <1>5 DEF R1, Evicting
    <2> HIDE DEF M
    <2>2. /\ R1 \in Seq(Attempts) /\ Len(R1) = Len(M) - 1
          /\ \A i \in 1 .. Len(R1) : R1[i] = M[i + 1]
      BY <1>0, <1>1, <2>1
    <2>3. \A i \in 1 .. Len(R1) : i + 1 \in 1 .. Len(M)
      BY <1>0, <1>1, <2>2
    <2>4. \A i \in 1 .. Len(R1) : R1[i] = P1[Len(P1) - Len(R1) + i]
      <3> SUFFICES ASSUME NEW i \in 1 .. Len(R1)
                   PROVE  R1[i] = P1[Len(P1) - Len(R1) + i]
        OBVIOUS
      <3>1. R1[i] = M[i + 1] /\ M[i + 1] = P1[Len(P1) - Len(M) + (i + 1)]
        BY <1>3, <2>2, <2>3
      <3>2. Len(R1) = Len(M) - 1 /\ i \in Nat
        BY <2>2
      <3>3. Len(P1) - Len(M) + (i + 1) = Len(P1) - Len(R1) + i
        BY <1>0, <3>2, Shift
      <3> QED
        BY <3>1, <3>3
    <2>5. \A i, j \in 1 .. Len(R1) : R1[i].key = R1[j].key => i = j
      <3> SUFFICES ASSUME NEW i \in 1 .. Len(R1), NEW j \in 1 .. Len(R1),
                          R1[i].key = R1[j].key
                   PROVE  i = j
        OBVIOUS
      <3>1. M[i + 1].key = M[j + 1].key
        BY <2>2
      <3>2. i + 1 \in 1 .. Len(M) /\ j + 1 \in 1 .. Len(M)
        BY <2>3
      <3>3. i + 1 = j + 1
        BY <1>4, <3>1, <3>2
      <3> QED
        BY <3>3
    <2>6. \A i \in 1 .. Len(R1) : R1[i] = a \/ \E j \in 1 .. Len(R) : R1[i] = R[j]
      <3> SUFFICES ASSUME NEW i \in 1 .. Len(R1)
                   PROVE  R1[i] = a \/ \E j \in 1 .. Len(R) : R1[i] = R[j]
        OBVIOUS
      <3>1. i + 1 = Len(R) + 1 \/ i + 1 \in 1 .. Len(R)
        BY <1>0, <1>1, <2>2
      <3>2. R1[i] = M[i + 1]
        BY <2>2
      <3>3. CASE i + 1 = Len(R) + 1
        BY <1>1, <3>2, <3>3
      <3>4. CASE i + 1 \in 1 .. Len(R)
        BY <1>1, <3>2, <3>4
      <3> QED
        BY <3>1, <3>3, <3>4
    <2>7. Len(R1) <= b /\ Len(R1) <= Len(P1)
      BY <1>a, <1>0, <1>1, <1>2, <2>2
    <2> QED
      BY <2>2, <2>4, <2>5, <2>6, <2>7 DEF LatestOf
  <1>6. CASE ~(Len(M) > b)
    <2>1. R1 = M
      BY <1>6 DEF R1, Evicting
    <2> HIDE DEF M
    <2>2. \A i \in 1 .. Len(R1) : R1[i] = a \/ \E j \in 1 .. Len(R) : R1[i] = R[j]
      <3> SUFFICES ASSUME NEW i \in 1 .. Len(M)
                   PROVE  M[i] = a \/ \E j \in 1 .. Len(R) : M[i] = R[j]
        BY <1>0, <2>1
      <3>1. i = Len(R) + 1 \/ i \in 1 .. Len(R)
        BY <1>0, <1>1
      <3> QED
        BY <1>0, <1>1, <3>1
    <2>3. Len(R1) <= b /\ Len(R1) <= Len(P1)
      BY <1>a, <1>0, <1>1, <1>2, <1>6, <2>1
    <2> QED
      BY <1>1, <1>3, <1>4, <2>1, <2>2, <2>3 DEF LatestOf
  <1> QED
    BY <1>5, <1>6

LEMMA PublishKeeps ==
    ASSUME CacheInv, NEW t \in Threads, NEW mayFail \in BOOLEAN, publish(t, mayFail)
    PROVE  CacheInv'
  <1>1. CASE CacheGoto(t, "erase") /\ UNCHANGED <<readyEntries, compilingEntries, published>>
    BY <1>1, ProducerMoves DEF publish
  <1>2. CASE /\ LET more == Append(readyEntries, tAttempt[t]) IN
                  readyEntries' = IF Len(more) > maxReadyEntries THEN Tail(more)
                                                                 ELSE more
             /\ compilingEntries' = compilingEntries \ {tAttempt[t]}
             /\ published' = Append(published, tAttempt[t])
             /\ CacheGoto(t, "fulfil")
    <2> DEFINE a == tAttempt[t]
    <2>1. /\ tPc[t] = "publish" /\ UNCHANGED <<resolved, attempts, tKey, tAttempt>>
          /\ CacheTypeOK /\ a \in compilingEntries /\ a \in Attempts
          /\ a.key = tKey[t]
      BY DEF publish, CacheInv, WorkersListed, Working, AttemptsKnown
    <2>2. /\ tPc'[t] = "fulfil" /\ \A u \in Threads : u # t => tPc'[u] = tPc[u]
      BY <1>2, <2>1, CallerMoves
    <2>3. /\ readyEntries \in Seq(Attempts) /\ published \in Seq(Attempts)
          /\ maxReadyEntries \in Nat \ {0} /\ Len(readyEntries) <= maxReadyEntries
          /\ DOMAIN readyEntries = 1 .. Len(readyEntries)
          /\ DOMAIN published = 1 .. Len(published)
          /\ readyEntries' = Evicting(readyEntries, a, maxReadyEntries)
          /\ published' = Append(published, a)
      BY <1>2, <2>1, CacheAssumption DEF CacheTypeOK, Evicting
    <2>4. \A i \in 1 .. Len(readyEntries) : readyEntries[i].key # a.key
      BY <2>1, <2>3 DEF CacheInv, ListedOnce, IsReady
    <2> HIDE DEF a
    <2>5. /\ readyEntries' \in Seq(Attempts) /\ Len(readyEntries') <= maxReadyEntries
          /\ LatestOf(readyEntries', published')
          /\ \A i \in 1 .. Len(readyEntries') :
                 readyEntries'[i] = a
                   \/ \E j \in 1 .. Len(readyEntries) : readyEntries'[i] = readyEntries[j]
      <3>1. LatestOf(readyEntries, published)
        BY <2>3 DEF CacheInv, ReadyIsTail, LatestOf
      <3>2. a \in Attempts
        BY <2>1 DEF a
      <3> QED
        BY <2>3, <2>4, <3>1, <3>2, PublishList
    <2>6. /\ published' \in Seq(Attempts)
          /\ \A i \in 1 .. Len(published) : published'[i] = published[i]
          /\ Len(published') = Len(published) + 1 /\ published'[Len(published) + 1] = a
          /\ DOMAIN published' = 1 .. Len(published')
      <3>1. a \in Attempts
        BY <2>1 DEF a
      <3> QED
        BY <2>3, <3>1
    <2>7. ReadyIsTail'
      <3>1. DOMAIN readyEntries' = 1 .. Len(readyEntries')
        BY <2>5
      <3> QED
        BY <2>5, <3>1 DEF ReadyIsTail, LatestOf
    <2>8. CacheTypeOK'
      BY <1>2, <2>1, <2>5, <2>6 DEF CacheTypeOK, CacheGoto
    <2>9. AttemptsHaveProducers' /\ WorkersListed' /\ AttemptsKnown'
      BY <1>2, <2>1, WithdrawKeeps DEF Working, a
    <2>10. compilingEntries' = compilingEntries \ {a} /\ tAttempt'[t] = a
      BY <1>2, <2>1 DEF a
    <2>11. ListedOnce'
      <3> SUFFICES ASSUME NEW b \in compilingEntries, b # a
                   PROVE  /\ ~IsReady(b.key)'
                          /\ \A d \in compilingEntries' : d.key = b.key => d = b
        BY <2>10 DEF ListedOnce
      <3>1. b.key # a.key /\ ~IsReady(b.key)
        BY <2>1 DEF CacheInv, ListedOnce, a
      <3>2. ~IsReady(b.key)'
        <4>1. DOMAIN readyEntries' = 1 .. Len(readyEntries')
          BY <2>5
        <4>2. \A i \in 1 .. Len(readyEntries) : readyEntries[i].key # b.key
          BY <2>3, <3>1 DEF IsReady
        <4>3. \A i \in DOMAIN readyEntries' : readyEntries'[i].key # b.key
          BY <2>5, <3>1, <4>1, <4>2
        <4> QED
          BY <4>3 DEF IsReady
      <3> QED
        BY <2>10, <3>2 DEF CacheInv, ListedOnce
    <2>12. /\ \E i \in DOMAIN published' : published'[i] = a
           /\ \A b : (\E i \in DOMAIN published : published[i] = b)
                       => \E i \in DOMAIN published' : published'[i] = b
      <3>1. Len(published) + 1 \in 1 .. Len(published')
        BY <2>3, <2>6
      <3>2. \A i \in 1 .. Len(published) : i \in 1 .. Len(published')
        BY <2>3, <2>6
      <3> QED
        BY <2>3, <2>6, <3>1, <3>2
    <2>13. SettledAfterwards'
      <3>1. \A u \in Threads : tPc'[u] \in {"fulfil", "reject"} =>
               tAttempt'[u] \notin compilingEntries'
        BY <2>1, <2>2, <2>10 DEF CacheInv, SettledAfterwards
      <3>2. \A u \in Threads : tPc'[u] \in {"fulfil", "have"} =>
               \E i \in DOMAIN published' : published'[i] = tAttempt'[u]
        BY <2>1, <2>2, <2>10, <2>12 DEF CacheInv, SettledAfterwards, IsPublished
      <3>3. \A r \in resolved' :
               /\ r.attempt \notin compilingEntries'
               /\ r.ok => \E i \in DOMAIN published' : published'[i] = r.attempt
        BY <2>1, <2>10, <2>12 DEF CacheInv, SettledAfterwards, IsPublished
      <3> QED
        BY <3>1, <3>2, <3>3 DEF SettledAfterwards, IsPublished
    <2> QED
      BY <2>7, <2>8, <2>9, <2>11, <2>13 DEF CacheInv
  <1> QED
    BY <1>1, <1>2 DEF publish

LEMMA SettleKeeps ==
    ASSUME CacheInv, NEW t \in Threads, settle(t)
    PROVE  CacheInv'
  <1> DEFINE ok == tPc[t] = "fulfil"
             r0 == [attempt |-> tAttempt[t], ok |-> ok]
             p == IF ok THEN "have" ELSE "threw"
  <1>1. /\ tPc[t] \in {"fulfil", "reject"} /\ CacheGoto(t, p)
        /\ resolved' = resolved \cup {r0}
        /\ UNCHANGED <<readyEntries, compilingEntries, attempts, tKey, tAttempt, published>>
    BY DEF settle
  <1>2. CacheTypeOK /\ tAttempt[t] \in Attempts /\ tAttempt[t].n <= attempts
    BY <1>1 DEF CacheInv, AttemptsKnown
  <1>3. /\ tPc'[t] = p /\ \A u \in Threads : u # t => tPc'[u] = tPc[u]
    BY <1>1, <1>2, CallerMoves
  <1>4. /\ r0 \in [attempt : Attempts, ok : BOOLEAN]
        /\ r0.attempt = tAttempt[t] /\ r0.ok = ok
        /\ p \in {"have", "threw"} /\ (p = "have" <=> ok)
    BY <1>2
  <1> HIDE DEF r0, p
  <1>5. CacheTypeOK'
    BY <1>1, <1>2, <1>4 DEF CacheTypeOK, CacheGoto
  <1>6. AttemptsHaveProducers' /\ WorkersListed' /\ ListedOnce'
    BY <1>1, <1>3, <1>4 DEF CacheInv, AttemptsHaveProducers, WorkersListed, ListedOnce,
       Working, IsReady
  <1>7. AttemptsKnown'
    BY <1>1, <1>2, <1>3, <1>4 DEF CacheInv, AttemptsKnown
  <1>8. SettledAfterwards'
    BY <1>1, <1>3, <1>4 DEF CacheInv, SettledAfterwards, IsPublished
  <1>9. ReadyIsTail'
    BY <1>1 DEF CacheInv, ReadyIsTail
  <1> QED
    BY <1>5, <1>6, <1>7, <1>8, <1>9 DEF CacheInv

LEMMA WakesKeeps ==
    ASSUME CacheInv, NEW t \in Threads, followerWakes(t)
    PROVE  CacheInv'
  <1>1. PICK r \in resolved : /\ r.attempt = tAttempt[t]
                              /\ CacheGoto(t, IF r.ok THEN "have" ELSE "threw")
    BY DEF followerWakes
  <1> DEFINE p == IF r.ok THEN "have" ELSE "threw"
  <1>2. /\ tPc[t] = "follow" /\ CacheTypeOK /\ CacheGoto(t, p)
        /\ p \in {"have", "threw"} /\ (p = "have" => r.ok)
        /\ UNCHANGED <<readyEntries, compilingEntries, resolved, attempts, tKey,
                       tAttempt, published>>
    BY <1>1 DEF followerWakes, CacheInv
  <1> HIDE DEF p
  <1>3. /\ tPc'[t] = p /\ \A u \in Threads : u # t => tPc'[u] = tPc[u]
    BY <1>2, CallerMoves
  <1>4. CacheTypeOK'
    BY <1>2 DEF CacheTypeOK, CacheGoto
  <1>5. AttemptsHaveProducers' /\ WorkersListed' /\ ListedOnce'
    BY <1>2, <1>3 DEF CacheInv, AttemptsHaveProducers, WorkersListed, ListedOnce,
       Working, IsReady
  <1>6. AttemptsKnown'
    BY <1>2, <1>3 DEF CacheInv, AttemptsKnown
  <1>7. SettledAfterwards'
    BY <1>1, <1>2, <1>3 DEF CacheInv, SettledAfterwards, IsPublished
  <1>8. ReadyIsTail'
    BY <1>2 DEF CacheInv, ReadyIsTail
  <1> QED
    BY <1>4, <1>5, <1>6, <1>7, <1>8 DEF CacheInv

LEMMA LeaveKeeps ==
    ASSUME CacheInv, NEW t \in Threads, leaveCache(t)
    PROVE  CacheInv'
  <1>1. /\ tPc[t] \in {"have", "threw"} /\ CacheTypeOK /\ CacheGoto(t, "out")
        /\ tAttempt' = [tAttempt EXCEPT ![t] = NoAttempt]
        /\ UNCHANGED <<readyEntries, compilingEntries, resolved, attempts, tKey, published>>
    BY DEF leaveCache, CacheInv
  <1>2. /\ tPc'[t] = "out" /\ \A u \in Threads : u # t => tPc'[u] = tPc[u]
        /\ \A u \in Threads : u # t => tAttempt'[u] = tAttempt[u]
    BY <1>1, CallerMoves DEF CacheTypeOK
  <1>3. CacheTypeOK'
    BY <1>1 DEF CacheTypeOK, CacheGoto
  <1>4. AttemptsHaveProducers' /\ WorkersListed' /\ ListedOnce'
    BY <1>1, <1>2 DEF CacheInv, AttemptsHaveProducers, WorkersListed, ListedOnce,
       Working, IsReady
  <1>5. AttemptsKnown' /\ SettledAfterwards' /\ ReadyIsTail'
    BY <1>1, <1>2 DEF CacheInv, AttemptsKnown, SettledAfterwards, IsPublished, ReadyIsTail
  <1> QED
    BY <1>3, <1>4, <1>5 DEF CacheInv

(* The cache keeps its invariant, whichever callers do what in which order.*)
LEMMA CacheKeeps == CacheInv /\ [CacheNext]_cacheVars => CacheInv'
  <1> SUFFICES ASSUME CacheInv, [CacheNext]_cacheVars PROVE CacheInv'
    OBVIOUS
  <1>1. CASE UNCHANGED cacheVars
    BY <1>1 DEF cacheVars, CacheInv, CacheTypeOK, AttemptsHaveProducers,
       WorkersListed, ListedOnce, AttemptsKnown, SettledAfterwards, ReadyIsTail,
       Working, IsReady, IsPublished
  <1>2. ASSUME NEW t \in Threads, NEW k \in Keys, getOrCompile(t, k) PROVE CacheInv'
    BY <1>2, ReadyReaderKeeps, FollowerKeeps, ProducerKeeps DEF getOrCompile
  <1>3. ASSUME NEW t \in Threads, NEW mayFail \in BOOLEAN, cacheStep(t, mayFail)
        PROVE  CacheInv'
    <2>1. CASE compile(t, mayFail)
      BY <2>1, ProducerMoves DEF compile
    <2> QED
      BY <1>3, <2>1, PublishKeeps, EraseKeeps, SettleKeeps, WakesKeeps DEF cacheStep
  <1> QED
    BY <1>1, <1>2, <1>3, LeaveKeeps DEF CacheNext

(* What the invariant says about the properties the runs check.            *)
LEMMA CacheInvMeans ==
    CacheInv => OneCompilationPerKey /\ AttemptsHaveProducers /\ RightModule
                /\ ReadyAreLatest
  <1> SUFFICES ASSUME CacheInv
               PROVE  OneCompilationPerKey /\ RightModule /\ ReadyAreLatest
    BY DEF CacheInv
  <1>1. OneCompilationPerKey
    BY DEF CacheInv, OneCompilationPerKey, Producing, Working, WorkersListed,
       ListedOnce, AttemptsKnown
  <1>2. RightModule
    BY DEF CacheInv, RightModule, SettledAfterwards, AttemptsKnown, IsPublished
  <1>3. ReadyAreLatest
    <2>1. /\ readyEntries \in Seq(Attempts) /\ published \in Seq(Attempts)
          /\ Len(readyEntries) <= Len(published)
      BY DEF CacheInv, CacheTypeOK, ReadyIsTail
    <2> DEFINE m == Len(published) - Len(readyEntries) + 1
               S == SubSeq(published, m, Len(published))
    <2>2. m \in Nat /\ m >= 1 /\ 1 + Len(published) - m = Len(readyEntries)
      BY <2>1
    <2>3. S = [i \in 1 .. Len(readyEntries) |-> published[i + m - 1]]
      BY <2>1, <2>2 
    <2>4. readyEntries = [i \in 1 .. Len(readyEntries) |-> readyEntries[i]]
      BY <2>1
    <2>5. \A i \in 1 .. Len(readyEntries) : readyEntries[i] = published[i + m - 1]
      BY <2>1 DEF CacheInv, ReadyIsTail
    <2>6. S = readyEntries
      BY <2>3, <2>4, <2>5
    <2> QED
      BY <2>6 DEF CacheInv, ReadyIsTail, ReadyAreLatest
  <1> QED
    BY <1>1, <1>2, <1>3

-----------------------------------------------------------------------------
(* The execution queues.                                                   *)

(* What is queued stays typed when tasks are added.                        *)
LEMMA QueueTypeGrows ==
    ASSUME NEW S, NEW T, S \subseteq T, QueueTypeOK(S) PROVE QueueTypeOK(T)
  BY DEF QueueTypeOK

LEMMA QueueStart ==
    ASSUME NEW T, QueueInit
    PROVE  QueueTypeOK(T) /\ QueueInv
  <1>0. 0 \in Qpus /\ Nobody \notin Exits
    BY QueueAssumption DEF Qpus
  <1>1. QueueTypeOK(T)
    BY <1>0 DEF QueueInit, QueueTypeOK, Closers
  <1>2. /\ \A q \in Qpus : /\ hPc[q] = "wait" /\ once[q] = "new" /\ sPc[q] = "idle"
                           /\ q \in registered
        /\ \A s \in Closers : sPc[s] = "idle"
        /\ \A s \in Exits : sPc[s] = "idle"
    BY DEF QueueInit, Closers
  <1> QED
    BY <1>1, <1>2 DEF QueueInv, RunnersHaveTask, OnceIsOnce, DestroyersSound, ExitsSound

(* The types of the queues, when the set of tasks may grow with a step.    *)
LEMMA QueueTypeKeeps ==
    ASSUME NEW S, NEW T, S \subseteq T, QueueTypeOK(S),
           [QueueNext(T)]_queueVars
    PROVE  QueueTypeOK(T)'
  <1>1. QueueTypeOK(T)
    BY DEF QueueTypeOK
  <1> USE DEF QueueTypeOK
  <1>2. ASSUME NEW q \in Qpus, NEW i \in T, push(q, i) PROVE QueueTypeOK(T)'
    BY <1>1, <1>2 DEF push, closerVars
  <1>3. ASSUME NEW q \in Qpus, takeTask(q) PROVE QueueTypeOK(T)'
    <2>1. Head(queue[q]) \in T /\ Tail(queue[q]) \in Seq(T)
      BY <1>1, <1>3 DEF takeTask
    <2> QED
      BY <1>1, <1>3, <2>1 DEF takeTask, closerVars
  <1>4. ASSUME NEW q \in Qpus, taskDone(q) PROVE QueueTypeOK(T)'
    BY <1>1, <1>4 DEF taskDone, closerVars
  <1>5. ASSUME NEW q \in Qpus, quitWorker(q) PROVE QueueTypeOK(T)'
    BY <1>1, <1>5 DEF quitWorker, closerVars
  <1>6. ASSUME NEW q \in Qpus, beginDestroy(q) PROVE QueueTypeOK(T)'
    BY <1>1, <1>6 DEF beginDestroy, workerVars, CloserGoto, Closers
  <1>7. ASSUME NEW s \in Exits, beginExit(s) PROVE QueueTypeOK(T)'
    BY <1>1, <1>7 DEF beginExit, workerVars, CloserGoto, Closers
  <1>8. ASSUME NEW s \in Closers, closerStep(s) PROVE QueueTypeOK(T)'
    <2>1. CASE nextQueue(s)
      BY <1>1, <2>1 DEF nextQueue, workerVars, CloserGoto, Closers
    <2>2. CASE endExit(s)
      BY <1>1, <2>2 DEF endExit, workerVars, CloserGoto
    <2>3. CASE shutdown(s)
      BY <1>1, <2>3 DEF shutdown, CloserGoto, AfterShutdown
    <2>4. CASE s \in Qpus /\ unregister(s)
      BY <1>1, <2>4 DEF unregister, workerVars, CloserGoto
    <2> QED
      BY <1>8, <2>1, <2>2, <2>3, <2>4 DEF closerStep
  <1>9. ASSUME NEW s \in Closers, joinAndDiscard(s) PROVE QueueTypeOK(T)'
    BY <1>1, <1>9 DEF joinAndDiscard, CloserGoto, AfterShutdown
  <1>10. CASE UNCHANGED queueVars
    BY <1>1, <1>10 DEF queueVars, workerVars, closerVars
  <1> QED
    BY <1>2, <1>3, <1>4, <1>5, <1>6, <1>7, <1>8, <1>9, <1>10 DEF QueueNext

(* Steps of the workers and of those who enqueue: they concern a queue     *)
(* that nobody has joined.                                                 *)
LEMMA WorkersKeepQueues ==
    ASSUME NEW T, 0 \notin T, QueueTypeOK(T), QueueInv, NEW q \in Qpus,
           \/ \E i \in T : push(q, i)
           \/ takeTask(q) \/ (hPc[q] = "run" /\ taskDone(q)) \/ quitWorker(q)
    PROVE  QueueInv'
  <1>1. /\ UNCHANGED <<quit, once, registered, registryMutex, sPc, sQ, sLeft>>
        /\ \A r \in Qpus : r # q => hPc'[r] = hPc[r] /\ queue'[r] = queue[r]
                                    /\ op'[r] = op[r]
    BY DEF push, takeTask, taskDone, quitWorker, closerVars, QueueTypeOK
  <1>2. once[q] # "done"
    BY DEF QueueInv, OnceIsOnce, Stopped, push, Accepts, takeTask, taskDone, quitWorker
  <1>3. /\ hPc'[q] = "run" => op'[q] # 0
        /\ hPc'[q] = "gone" => quit[q]
    <2>1. CASE \E i \in T : push(q, i)
      BY <2>1 DEF push, QueueTypeOK, QueueInv, RunnersHaveTask, OnceIsOnce
    <2>2. CASE takeTask(q)
      <3>1. Head(queue[q]) \in T
        BY <2>2 DEF takeTask, QueueTypeOK
      <3> QED
        BY <2>2, <3>1 DEF takeTask, QueueTypeOK
    <2>3. CASE taskDone(q)
      BY <2>3 DEF taskDone, QueueTypeOK
    <2>4. CASE quitWorker(q)
      BY <2>4 DEF quitWorker, QueueTypeOK
    <2> QED
      BY <2>1, <2>2, <2>3, <2>4
  <1>4. RunnersHaveTask'
    BY <1>1, <1>3 DEF QueueInv, RunnersHaveTask
  <1>5. OnceIsOnce'
    BY <1>1, <1>2, <1>3 DEF QueueInv, OnceIsOnce, Stopped
  <1>6. DestroyersSound' /\ ExitsSound'
    BY <1>1 DEF QueueInv, DestroyersSound, ExitsSound
  <1> QED
    BY <1>4, <1>5, <1>6 DEF QueueInv

(* Closers: what they leave alone.                                         *)
LEMMA CloserMoves ==
    ASSUME NEW T, QueueTypeOK(T), NEW s \in Closers, NEW p, CloserGoto(s, p)
    PROVE  sPc'[s] = p /\ \A u \in Closers : u # s => sPc'[u] = sPc[u]
  BY DEF QueueTypeOK, CloserGoto

LEMMA WhoCloses ==
    /\ \A s : s \in Exits => s \in Closers /\ s \notin Qpus
    /\ \A q : q \in Qpus => q \in Closers /\ q \notin Exits
    /\ \A s \in Closers : s \in Exits \/ s \in Qpus
  BY QueueAssumption DEF Closers

LEMMA BeginDestroyKeeps ==
    ASSUME NEW T, QueueTypeOK(T), QueueInv, NEW q \in Qpus, beginDestroy(q)
    PROVE  QueueInv'
  <1>1. /\ UNCHANGED <<quit, queue, hPc, op, once, registered, registryMutex, sLeft>>
        /\ sPc[q] = "idle" /\ sQ' = [sQ EXCEPT ![q] = q]
    BY DEF beginDestroy, workerVars
  <1>2. sPc'[q] = "once" /\ \A u \in Closers : u # q => sPc'[u] = sPc[u]
    BY WhoCloses, CloserMoves DEF beginDestroy
  <1>3. sQ'[q] = q /\ \A u \in Closers : u # q => sQ'[u] = sQ[u]
    BY <1>1, WhoCloses DEF QueueTypeOK
  <1>4. RunnersHaveTask'
    BY <1>1 DEF QueueInv, RunnersHaveTask
  <1>5. OnceIsOnce'
    BY <1>1, <1>2, <1>3 DEF QueueInv, OnceIsOnce, Stopped
  <1>6. DestroyersSound'
    BY <1>1, <1>2, <1>3, WhoCloses DEF QueueInv, DestroyersSound
  <1>7. ExitsSound'
    BY <1>1, <1>2, <1>3, WhoCloses DEF QueueInv, ExitsSound
  <1> QED
    BY <1>4, <1>5, <1>6, <1>7 DEF QueueInv

LEMMA BeginExitKeeps ==
    ASSUME NEW T, QueueTypeOK(T), QueueInv, NEW s \in Exits, beginExit(s)
    PROVE  QueueInv'
  <1>1. /\ UNCHANGED <<quit, queue, hPc, op, once, registered, sQ>>
        /\ sPc[s] = "idle" /\ registryMutex = Nobody /\ registryMutex' = s
        /\ sLeft' = [sLeft EXCEPT ![s] = registered]
    BY DEF beginExit, workerVars
  <1>2. sPc'[s] = "loop" /\ \A u \in Closers : u # s => sPc'[u] = sPc[u]
    BY WhoCloses, CloserMoves DEF beginExit
  <1>3. sLeft'[s] = registered /\ \A u \in Exits : u # s => sLeft'[u] = sLeft[u]
    BY <1>1 DEF QueueTypeOK
  <1>4. RunnersHaveTask'
    BY <1>1 DEF QueueInv, RunnersHaveTask
  <1>5. OnceIsOnce'
    BY <1>1, <1>2, <1>3 DEF QueueInv, OnceIsOnce, Stopped
  <1>6. DestroyersSound'
    BY <1>1, <1>2, WhoCloses DEF QueueInv, DestroyersSound
  <1>7. ExitsSound'
    <2>1. \A q \in Qpus : q \in registered \/ once[q] = "done"
      BY DEF QueueInv, DestroyersSound
    <2>2. \A u \in Exits : sPc[u] \in {"loop", "once", "join"} => u = Nobody
      BY <1>1 DEF QueueInv, ExitsSound
    <2>3. \A u \in Exits : sPc[u] \notin {"loop", "once", "join"}
      BY <2>2, QueueAssumption
    <2> QED
      BY <1>1, <1>2, <1>3, <2>1, <2>3, WhoCloses DEF QueueInv, ExitsSound
  <1> QED
    BY <1>4, <1>5, <1>6, <1>7 DEF QueueInv

LEMMA NextQueueKeeps ==
    ASSUME NEW T, QueueTypeOK(T), QueueInv, NEW s \in Exits, nextQueue(s)
    PROVE  QueueInv'
  <1>1. PICK q \in sLeft[s] : /\ sQ' = [sQ EXCEPT ![s] = q]
                             /\ sLeft' = [sLeft EXCEPT ![s] = @ \ {q}]
    BY DEF nextQueue
  <1>2. /\ UNCHANGED <<quit, queue, hPc, op, once, registered, registryMutex>>
        /\ sPc[s] = "loop"
    BY DEF nextQueue, workerVars
  <1>3. sPc'[s] = "once" /\ \A u \in Closers : u # s => sPc'[u] = sPc[u]
    BY WhoCloses, CloserMoves DEF nextQueue
  <1>4. /\ sQ'[s] = q /\ \A u \in Closers : u # s => sQ'[u] = sQ[u]
        /\ sLeft'[s] = sLeft[s] \ {q}
        /\ \A u \in Exits : u # s => sLeft'[u] = sLeft[u]
    BY <1>1, WhoCloses DEF QueueTypeOK
  <1>5. RunnersHaveTask'
    BY <1>2 DEF QueueInv, RunnersHaveTask
  <1>6. OnceIsOnce'
    BY <1>2, <1>3, <1>4 DEF QueueInv, OnceIsOnce, Stopped
  <1>7. DestroyersSound'
    BY <1>2, <1>3, <1>4, WhoCloses DEF QueueInv, DestroyersSound
  <1>8. ExitsSound'
    BY <1>2, <1>3, <1>4, WhoCloses DEF QueueInv, ExitsSound
  <1> QED
    BY <1>5, <1>6, <1>7, <1>8 DEF QueueInv

(* An exit returns when no queue is left to close.                         *)
LEMMA EndExitKeeps ==
    ASSUME NEW T, QueueTypeOK(T), QueueInv, NEW s \in Exits, endExit(s)
    PROVE  QueueInv'
  <1>1. /\ UNCHANGED <<quit, queue, hPc, op, once, registered, sQ, sLeft>>
        /\ sPc[s] = "loop" /\ sLeft[s] = {}
    BY DEF endExit, workerVars
  <1>2. sPc'[s] = "returned" /\ \A u \in Closers : u # s => sPc'[u] = sPc[u]
    BY WhoCloses, CloserMoves DEF endExit
  <1>3. RunnersHaveTask'
    BY <1>1 DEF QueueInv, RunnersHaveTask
  <1>4. OnceIsOnce'
    BY <1>1, <1>2 DEF QueueInv, OnceIsOnce, Stopped
  <1>5. DestroyersSound'
    BY <1>1, <1>2, WhoCloses DEF QueueInv, DestroyersSound
  <1>6. ExitsSound'
    <2>1. registryMutex = s /\ \A q \in Qpus : once[q] = "done"
      BY <1>1 DEF QueueInv, ExitsSound
    <2>2. \A u \in Exits : u # s => sPc[u] \notin {"loop", "once", "join"}
      BY <2>1 DEF QueueInv, ExitsSound
    <2> QED
      BY <1>1, <1>2, <2>1, <2>2, WhoCloses DEF QueueInv, ExitsSound
  <1> QED
    BY <1>3, <1>4, <1>5, <1>6 DEF QueueInv

LEMMA ShutdownKeeps ==
    ASSUME NEW T, QueueTypeOK(T), QueueInv, NEW s \in Closers, shutdown(s)
    PROVE  QueueInv'
  <1> DEFINE q == sQ[s]
  <1>1. /\ UNCHANGED <<queue, hPc, op, registered, registryMutex, sQ, sLeft>>
        /\ sPc[s] = "once" /\ q \in Qpus
    BY DEF shutdown, QueueTypeOK
  <1>2. CASE /\ once[q] = "new" /\ once' = [once EXCEPT ![q] = "running"]
             /\ quit' = [quit EXCEPT ![q] = TRUE] /\ CloserGoto(s, "join")
    <2>1. sPc'[s] = "join" /\ \A u \in Closers : u # s => sPc'[u] = sPc[u]
      BY <1>2, CloserMoves
    <2>2. /\ once'[q] = "running" /\ quit'[q]
          /\ \A r \in Qpus : r # q => once'[r] = once[r] /\ quit'[r] = quit[r]
      BY <1>1, <1>2 DEF QueueTypeOK
    <2>3. RunnersHaveTask'
      BY <1>1 DEF QueueInv, RunnersHaveTask
    <2>4. OnceIsOnce'
      <3>1. \A r \in Qpus : /\ once'[r] # "new" => quit'[r]
                            /\ once'[r] = "done" => Stopped(r)'
                            /\ hPc'[r] = "gone" => quit'[r]
        BY <1>1, <2>2 DEF QueueInv, OnceIsOnce, Stopped
      <3>2. \A u \in Closers : sQ[u] \in Qpus
        BY DEF QueueTypeOK
      <3>3. \A u \in Closers : u # s /\ sPc'[u] = "join" => once[sQ[u]] = "running"
        BY <2>1 DEF QueueInv, OnceIsOnce
      <3>4. \A u \in Closers : u # s /\ sPc'[u] = "join" => sQ[u] # q
        BY <1>2, <3>3
      <3>5. \A u \in Closers : sPc'[u] = "join" => once'[sQ'[u]] = "running"
        BY <1>1, <2>2, <3>2, <3>3, <3>4
      <3>6. \A u, v \in Closers : sPc'[u] = "join" /\ sPc'[v] = "join" /\ sQ'[u] = sQ'[v]
              => u = v
        BY <1>1, <2>1, <3>4 DEF QueueInv, OnceIsOnce
      <3> QED
        BY <3>1, <3>5, <3>6 DEF OnceIsOnce
    <2>5. DestroyersSound'
      BY <1>1, <1>2, <2>1, <2>2, WhoCloses DEF QueueInv, DestroyersSound
    <2>6. ExitsSound'
      BY <1>1, <1>2, <2>1, <2>2, WhoCloses DEF QueueInv, ExitsSound
    <2> QED
      BY <2>3, <2>4, <2>5, <2>6 DEF QueueInv
  <1>3. CASE once[q] = "done" /\ CloserGoto(s, AfterShutdown(s)) /\ UNCHANGED <<once, quit>>
    <2>1. sPc'[s] = AfterShutdown(s) /\ \A u \in Closers : u # s => sPc'[u] = sPc[u]
      BY <1>3, CloserMoves
    <2>2. RunnersHaveTask'
      BY <1>1 DEF QueueInv, RunnersHaveTask
    <2>3. OnceIsOnce'
      BY <1>1, <1>3, <2>1 DEF QueueInv, OnceIsOnce, Stopped, AfterShutdown
    <2>4. DestroyersSound'
      BY <1>1, <1>3, <2>1, WhoCloses DEF QueueInv, DestroyersSound, AfterShutdown
    <2>5. ExitsSound'
      BY <1>1, <1>3, <2>1, WhoCloses DEF QueueInv, ExitsSound, AfterShutdown
    <2> QED
      BY <2>2, <2>3, <2>4, <2>5 DEF QueueInv
  <1> QED
    BY <1>2, <1>3 DEF shutdown

LEMMA JoinKeeps ==
    ASSUME NEW T, QueueTypeOK(T), QueueInv, NEW s \in Closers, joinAndDiscard(s)
    PROVE  QueueInv'
  <1> DEFINE q == sQ[s]
  <1>1. /\ UNCHANGED <<quit, hPc, op, registered, registryMutex, sQ, sLeft>>
        /\ sPc[s] = "join" /\ hPc[q] = "gone" /\ q \in Qpus
        /\ queue' = [queue EXCEPT ![q] = << >>] /\ once' = [once EXCEPT ![q] = "done"]
    BY DEF joinAndDiscard, QueueTypeOK
  <1>2. sPc'[s] = AfterShutdown(s) /\ \A u \in Closers : u # s => sPc'[u] = sPc[u]
    BY CloserMoves DEF joinAndDiscard
  <1>3. /\ once'[q] = "done" /\ queue'[q] = << >>
        /\ \A r \in Qpus : r # q => once'[r] = once[r] /\ queue'[r] = queue[r]
    BY <1>1 DEF QueueTypeOK
  <1>4. RunnersHaveTask'
    BY <1>1 DEF QueueInv, RunnersHaveTask
  <1>5. OnceIsOnce'
    <2>1. \A r \in Qpus : /\ once'[r] # "new" => quit'[r]
                          /\ once'[r] = "done" => Stopped(r)'
                          /\ hPc'[r] = "gone" => quit'[r]
      BY <1>1, <1>3 DEF QueueInv, OnceIsOnce, Stopped
    <2>2. \A u \in Closers : sQ[u] \in Qpus
      BY DEF QueueTypeOK
    <2>3. \A u \in Closers : sPc'[u] = "join" => u # s /\ sPc[u] = "join" /\ sQ[u] # q
      BY <1>1, <1>2 DEF QueueInv, OnceIsOnce, AfterShutdown
    <2>4. \A u \in Closers : sPc'[u] = "join" => once'[sQ'[u]] = "running"
      BY <1>1, <1>3, <2>2, <2>3 DEF QueueInv, OnceIsOnce
    <2>5. \A u, v \in Closers : sPc'[u] = "join" /\ sPc'[v] = "join" /\ sQ'[u] = sQ'[v]
            => u = v
      BY <1>1, <2>3 DEF QueueInv, OnceIsOnce
    <2> QED
      BY <2>1, <2>4, <2>5 DEF OnceIsOnce
  <1>6. DestroyersSound'
    BY <1>1, <1>2, <1>3, WhoCloses DEF QueueInv, DestroyersSound, AfterShutdown
  <1>7. ExitsSound'
    BY <1>1, <1>2, <1>3, WhoCloses DEF QueueInv, ExitsSound, AfterShutdown
  <1> QED
    BY <1>4, <1>5, <1>6, <1>7 DEF QueueInv

(* The registry's mutex keeps a destructor out of the loop of an exit.     *)
LEMMA UnregisterKeeps ==
    ASSUME NEW T, QueueTypeOK(T), QueueInv, NEW q \in Qpus, unregister(q)
    PROVE  QueueInv'
  <1>1. /\ UNCHANGED <<quit, queue, hPc, op, once, registryMutex, sQ, sLeft>>
        /\ sPc[q] = "unregister" /\ registryMutex = Nobody
        /\ registered' = registered \ {q}
    BY DEF unregister, workerVars
  <1>2. sPc'[q] = "returned" /\ \A u \in Closers : u # q => sPc'[u] = sPc[u]
    BY WhoCloses, CloserMoves DEF unregister
  <1>3. RunnersHaveTask'
    BY <1>1 DEF QueueInv, RunnersHaveTask
  <1>4. OnceIsOnce'
    BY <1>1, <1>2 DEF QueueInv, OnceIsOnce, Stopped
  <1>5. DestroyersSound'
    BY <1>1, <1>2, WhoCloses DEF QueueInv, DestroyersSound
  <1>6. ExitsSound'
    <2>1. \A u \in Exits : sPc[u] \in {"loop", "once", "join"} => u = Nobody
      BY <1>1 DEF QueueInv, ExitsSound
    <2>2. \A u \in Exits : sPc[u] \notin {"loop", "once", "join"}
      BY <2>1, QueueAssumption
    <2> QED
      BY <1>1, <1>2, <2>2, WhoCloses DEF QueueInv, ExitsSound
  <1> QED
    BY <1>3, <1>4, <1>5, <1>6 DEF QueueInv

(* The queues keep their invariant, whoever closes them and when.          *)
LEMMA QueuesKeep ==
    ASSUME NEW T, 0 \notin T, QueueTypeOK(T), QueueInv, [QueueNext(T)]_queueVars
    PROVE  QueueInv'
  <1>1. CASE UNCHANGED queueVars
    BY <1>1 DEF queueVars, workerVars, closerVars, QueueInv, RunnersHaveTask,
       OnceIsOnce, Stopped, DestroyersSound, ExitsSound
  <1>2. ASSUME NEW q \in Qpus,
               \/ \E i \in T : push(q, i)
               \/ takeTask(q) \/ (hPc[q] = "run" /\ taskDone(q)) \/ quitWorker(q)
               \/ beginDestroy(q)
        PROVE  QueueInv'
    BY <1>2, WorkersKeepQueues, BeginDestroyKeeps
  <1>3. ASSUME NEW s \in Exits, beginExit(s) PROVE QueueInv'
    BY <1>3, BeginExitKeeps
  <1>4. ASSUME NEW s \in Closers, closerStep(s) PROVE QueueInv'
    BY <1>4, NextQueueKeeps, EndExitKeeps, ShutdownKeeps, UnregisterKeeps
    DEF closerStep, nextQueue, endExit
  <1>5. ASSUME NEW s \in Closers, joinAndDiscard(s) PROVE QueueInv'
    BY <1>5, JoinKeeps
  <1> QED
    BY <1>1, <1>2, <1>3, <1>4, <1>5 DEF QueueNext

LEMMA QueueInvMeans ==
    ASSUME NEW T, QueueTypeOK(T), QueueInv PROVE ShutdownIsFinal /\ NoDestroyedQueue
  <1>1. ShutdownIsFinal
    BY DEF QueueInv, ShutdownIsFinal, ExitsSound, DestroyersSound, OnceIsOnce
  <1>2. NoDestroyedQueue
    <2> SUFFICES ASSUME NEW s \in Exits, sPc[s] \in {"loop", "once", "join"},
                        NEW q \in sLeft[s] \cup (IF sPc[s] = "loop" THEN {} ELSE {sQ[s]})
                 PROVE  sPc[q] # "returned"
      BY DEF NoDestroyedQueue
    <2>1. q \in registered
      BY DEF QueueInv, ExitsSound
    <2> QED
      BY <2>1 DEF QueueTypeOK, QueueInv, DestroyersSound
  <1> QED
    BY <1>1, <1>2

-----------------------------------------------------------------------------
(* The launches.                                                           *)

(* TypeOK without the queues and the cache.                                *)
LaunchTypeOK ==
    /\ env \in Environments /\ terminated \in BOOLEAN
    /\ tasks \in Seq(Tasks)
    /\ noise \in [Qpus -> (1 .. Len(tasks)) \cup Clients \cup {NoNoise}]
    /\ pc \in [Threads -> {"idle", "begin", "seeding", "seedWait", "preamble",
         "launch", "cache", "execute", "ok", "threw", "resolveOk",
         "resolveThrew", "enqueue", "collect"}]
    /\ ctx \in [Threads -> (1 .. Len(tasks)) \cup Clients \cup {NoNoise}]
    /\ at \in [Threads -> 0 .. NumQpus] /\ awaits \in [Threads -> 0 .. Len(tasks)]
    /\ arg \in [Qpus -> Nat]
    /\ mine \in [Clients -> Seq(1 .. Len(tasks))]
    /\ results \in [Clients -> Seq(Nat)]

(* What LaunchInv says about one thread.                                   *)
ThreadOK(t) ==
    /\ t \in Qpus => /\ pc[t] # "idle" => hPc[t] = "run"
                     /\ pc[t] \in {"seeding", "seedWait"} => Runs(t, "broadcast")
    /\ t \in Clients => /\ pc[t] \in Sampling => awaits[t] # 0
                        /\ pc[t] = "enqueue" => Len(mine[t]) = at[t]
                        /\ pc[t] = "collect" => Len(mine[t]) = NumQpus
    /\ pc[t] = "seedWait" => awaits[t] # 0 /\ at[t] < NumQpus
    /\ t \in Qpus /\ env.options = "none" =>
          /\ noise[t] = IF pc[t] \in Sampling /\ tasks[op[t]].noisy THEN op[t] ELSE NoNoise
          /\ pc[t] \in {"launch", "cache", "execute"} =>
                ctx[t] = IF tasks[op[t]].noisy THEN op[t] ELSE NoNoise

NoisySamples == \A i \in DOMAIN tasks : tasks[i].noisy => tasks[i].kind = "sample"

LEMMA ByThread ==
    LaunchInv <=> /\ QueueTypeOK(1 .. Len(tasks)) /\ CacheInv /\ QueueInv
                  /\ LaunchTypeOK /\ NoisySamples /\ \A t \in Threads : ThreadOK(t)
  <1>1. \A t : t \in Qpus \/ t \in Clients => t \in Threads
    BY LaunchAssumption DEF Clients
  <1>2. CacheInv => CacheTypeOK
    BY DEF CacheInv
  <1>3. ThreadsSound /\ KindsSound /\ NoiseSound
          <=> NoisySamples /\ \A t \in Threads : ThreadOK(t)
    BY <1>1 DEF ThreadsSound, KindsSound, NoiseSound, NoisySamples, ThreadOK
  <1>4. TypeOK <=> QueueTypeOK(1 .. Len(tasks)) /\ CacheTypeOK /\ LaunchTypeOK
    BY DEF TypeOK, LaunchTypeOK
  <1> QED
    BY <1>2, <1>3, <1>4 DEF LaunchInv

(* Tasks may be added and settled; what they are does not change.          *)
TasksGrow ==
    /\ tasks' \in Seq(Tasks) /\ Len(tasks) <= Len(tasks')
    /\ \A i \in 1 .. Len(tasks) :
          /\ tasks'[i].kind = tasks[i].kind /\ tasks'[i].noisy = tasks[i].noisy
    /\ NoisySamples'

(* What every action of AsyncLaunch establishes.                           *)
Kept ==
    /\ LaunchTypeOK' /\ NoisySamples' /\ \A t \in Threads : ThreadOK(t)'
    /\ [CacheNext]_cacheVars
    /\ \E n \in Nat : n = Len(tasks') /\ Len(tasks) <= n /\ [QueueNext(1 .. n)]_queueVars

LEMMA KeptMeans == LaunchInv /\ Kept => LaunchInv'
  <1> SUFFICES ASSUME LaunchInv, Kept PROVE LaunchInv'
    OBVIOUS
  <1>1. CacheInv'
    BY CacheKeeps DEF Kept, LaunchInv
  <1>2. PICK n \in Nat : n = Len(tasks') /\ Len(tasks) <= n /\ [QueueNext(1 .. n)]_queueVars
    BY DEF Kept
  <1>3. 1 .. Len(tasks) \subseteq 1 .. n /\ 0 \notin 1 .. n
    BY <1>2, ByThread DEF LaunchTypeOK
  <1>4. QueueTypeOK(1 .. n)'
    <2>1. QueueTypeOK(1 .. Len(tasks))
      BY ByThread
    <2>2. PICK m \in Nat : m = Len(tasks)
      BY ByThread DEF LaunchTypeOK
    <2>3. QueueTypeOK(1 .. m) /\ 1 .. m \subseteq 1 .. n
      BY <1>3, <2>1, <2>2
    <2> QED
      BY <1>2, <2>3, QueueTypeKeeps
  <1>5. QueueInv'
    <2>1. PICK S : S = 1 .. Len(tasks)
      OBVIOUS
    <2>2. QueueTypeOK(S) /\ S \subseteq 1 .. n
      BY <1>3, <2>1, ByThread
    <2>3. QueueTypeOK(1 .. n)
      BY <2>2, QueueTypeGrows
    <2> QED
      BY <1>2, <1>3, <2>3, QueuesKeep DEF LaunchInv
  <1>6. QueueTypeOK(1 .. Len(tasks))'
    BY <1>2, <1>4
  <1>7. TypeOK'
    BY <1>1, <1>6 DEF Kept, TypeOK, LaunchTypeOK, CacheInv
  <1>8. \A t : t \in Qpus \/ t \in Clients => t \in Threads
    BY LaunchAssumption DEF Clients
  <1>9. ThreadsSound' /\ KindsSound' /\ NoiseSound'
    BY <1>8 DEF Kept, ThreadsSound, KindsSound, NoiseSound, NoisySamples, ThreadOK
  <1> QED
    BY <1>1, <1>5, <1>7, <1>9 DEF LaunchInv

LEMMA TasksSame ==
    ASSUME LaunchInv, UNCHANGED tasks
    PROVE  TasksGrow /\ NoisySamples'
  BY ByThread DEF TasksGrow, LaunchTypeOK, NoisySamples

LEMMA TaskAdded ==
    ASSUME LaunchInv, NEW x \in Tasks, x.noisy => x.kind = "sample",
           tasks' = Append(tasks, x)
    PROVE  TasksGrow /\ Len(tasks') = Len(tasks) + 1
  <1>1. tasks \in Seq(Tasks) /\ NoisySamples
    BY ByThread DEF LaunchTypeOK
  <1>2. /\ tasks' \in Seq(Tasks) /\ Len(tasks') = Len(tasks) + 1
        /\ \A i \in 1 .. Len(tasks) : tasks'[i] = tasks[i]
        /\ tasks'[Len(tasks) + 1] = x
    BY <1>1
  <1>3. DOMAIN tasks' = 1 .. Len(tasks) + 1 /\ DOMAIN tasks = 1 .. Len(tasks)
        /\ Len(tasks) \in Nat
    BY <1>1, <1>2
  <1>4. \A i \in DOMAIN tasks' : i \in DOMAIN tasks \/ i = Len(tasks) + 1
    BY <1>3
  <1>5. NoisySamples'
    BY <1>1, <1>2, <1>3, <1>4 DEF NoisySamples
  <1> QED
    BY <1>2, <1>3, <1>5 DEF TasksGrow

LEMMA TaskSettled ==
    ASSUME LaunchInv, NEW i \in 1 .. Len(tasks),
           NEW x \in Tasks, x.kind = tasks[i].kind, x.noisy = tasks[i].noisy,
           tasks' = [tasks EXCEPT ![i] = x]
    PROVE  TasksGrow /\ Len(tasks') = Len(tasks)
  <1>1. tasks \in Seq(Tasks) /\ NoisySamples /\ DOMAIN tasks = 1 .. Len(tasks)
    BY ByThread DEF LaunchTypeOK
  <1>3. /\ DOMAIN tasks' = 1 .. Len(tasks) /\ Len(tasks) \in Nat
        /\ \A j \in 1 .. Len(tasks) : j # i => tasks'[j] = tasks[j]
    BY <1>1
  <1>4. /\ tasks'[i] \in Tasks /\ tasks'[i].kind = tasks[i].kind
        /\ tasks'[i].noisy = tasks[i].noisy
    BY <1>1
  <1>5. \A j \in 1 .. Len(tasks) : tasks'[j] \in Tasks
    BY <1>1, <1>3, <1>4
  <1>7. tasks' \in Seq(Tasks) /\ Len(tasks') = Len(tasks)
    BY <1>1, ExceptSeq
  <1>8. NoisySamples'
    BY <1>1, <1>3, <1>4 DEF NoisySamples
  <1> QED
    BY <1>3, <1>4, <1>7, <1>8 DEF TasksGrow

(* A step of thread t: the others are left as they were.                   *)
OnlyAt(t) ==
    /\ UNCHANGED env
    /\ \A u \in Threads : u # t => /\ pc'[u] = pc[u] /\ ctx'[u] = ctx[u]
                                   /\ at'[u] = at[u] /\ awaits'[u] = awaits[u]
    /\ \A q \in Qpus : q # t => /\ hPc'[q] = hPc[q] /\ op'[q] = op[q]
                                /\ env.options # "none" \/ noise'[q] = noise[q]
    /\ \A c \in Clients : c # t => mine'[c] = mine[c]

LEMMA OthersKept ==
    ASSUME LaunchInv, TasksGrow, NEW t, OnlyAt(t)
    PROVE  \A u \in Threads : u # t => ThreadOK(u)'
  <1> SUFFICES ASSUME NEW u \in Threads, u # t PROVE ThreadOK(u)'
    OBVIOUS
  <1>1. ThreadOK(u)
    BY ByThread
  <1>2. u \in Qpus => /\ op[u] \in (1 .. Len(tasks)) \cup {0}
                      /\ hPc[u] = "run" => op[u] # 0
    BY ByThread DEF QueueTypeOK, QueueInv, RunnersHaveTask
  <1>3. u \in Qpus /\ pc[u] # "idle" => op[u] \in 1 .. Len(tasks)
    BY <1>1, <1>2 DEF ThreadOK
  <1>4. CASE u \in Clients
    <2>1. u \notin Qpus
      BY <1>4 DEF Clients
    <2> QED
      BY <1>1, <1>4, <2>1 DEF ThreadOK, OnlyAt
  <1>5. CASE u \in Qpus
    <2>1. u \notin Clients
      BY <1>5 DEF Clients
    <2>2. /\ pc'[u] = pc[u] /\ hPc'[u] = hPc[u] /\ op'[u] = op[u]
          /\ ctx'[u] = ctx[u] /\ at'[u] = at[u] /\ awaits'[u] = awaits[u]
          /\ env.options # "none" \/ noise'[u] = noise[u]
          /\ UNCHANGED env
      BY <1>5 DEF OnlyAt
    <2>3. pc[u] # "idle" => /\ tasks'[op[u]].kind = tasks[op[u]].kind
                            /\ tasks'[op[u]].noisy = tasks[op[u]].noisy
      BY <1>3, <1>5 DEF TasksGrow
    <2>4. pc[u] \in Sampling => pc[u] # "idle"
      BY DEF Sampling
    <2> QED
      BY <1>1, <1>5, <2>1, <2>2, <2>3, <2>4 DEF ThreadOK, Runs
  <1> QED
    BY <1>4, <1>5 DEF Clients

LEMMA StepKept ==
    ASSUME LaunchInv, TasksGrow, NEW t \in Threads, OnlyAt(t), LaunchTypeOK',
           ThreadOK(t)', [CacheNext]_cacheVars,
           NEW n \in Nat, n = Len(tasks'), [QueueNext(1 .. n)]_queueVars
    PROVE  Kept
  <1>1. \A u \in Threads : ThreadOK(u)'
    BY OthersKept
  <1>2. NoisySamples' /\ Len(tasks) <= n
    BY DEF TasksGrow
  <1>3. \E m \in Nat : m = Len(tasks') /\ Len(tasks) <= m /\ [QueueNext(1 .. m)]_queueVars
    BY <1>2
  <1> QED
    BY <1>1, <1>2, <1>3 DEF Kept

(* A step that makes and settles no task and touches no queue.             *)
LEMMA LocalStep ==
    ASSUME LaunchInv, UNCHANGED tasks, UNCHANGED queueVars, NEW t \in Threads,
           OnlyAt(t), LaunchTypeOK', ThreadOK(t)', [CacheNext]_cacheVars
    PROVE  Kept
  <1>1. PICK n \in Nat : n = Len(tasks')
    BY DEF LaunchTypeOK
  <1> QED
    BY <1>1, StepKept, TasksSame

(* A thread that is inside a task or a call has a task.                    *)
LEMMA HasTask ==
    ASSUME LaunchInv, NEW t \in Threads,
           \/ t \in Qpus /\ (pc[t] # "idle" \/ hPc[t] = "run")
           \/ t \in Clients /\ pc[t] \in Sampling
    PROVE  /\ Current(t) \in 1 .. Len(tasks) /\ tasks[Current(t)] \in Tasks
           /\ Len(tasks) \in Nat
  <1>1. ThreadOK(t) /\ LaunchTypeOK /\ QueueTypeOK(1 .. Len(tasks)) /\ QueueInv
    BY ByThread
  <1>2. tasks \in Seq(Tasks) /\ Len(tasks) \in Nat
    BY <1>1 DEF LaunchTypeOK
  <1>3. CASE t \in Qpus
    <2>1. hPc[t] = "run" /\ op[t] \in 1 .. Len(tasks)
      BY <1>1, <1>3 DEF ThreadOK, QueueTypeOK, QueueInv, RunnersHaveTask, Clients
    <2> QED
      BY <1>2, <1>3, <2>1 DEF Current
  <1>4. CASE t \in Clients
    <2>1. t \notin Qpus /\ awaits[t] # 0 /\ awaits[t] \in 0 .. Len(tasks)
      BY <1>1, <1>4 DEF ThreadOK, LaunchTypeOK, Clients
    <2>2. awaits[t] \in 1 .. Len(tasks)
      BY <1>2, <2>1
    <2> QED
      BY <1>2, <2>1, <2>2 DEF Current
  <1> QED
    BY <1>3, <1>4

LEMMA WhoRuns ==
    /\ \A t \in Threads : t \in Qpus \/ t \in Clients
    /\ \A q \in Qpus : q \in Threads /\ q \notin Clients
    /\ \A c \in Clients : c \in Threads /\ c \notin Qpus
    /\ 0 \in Qpus /\ NumQpus \in Nat \ {0}
    /\ \A n \in 0 .. NumQpus : n < NumQpus => n \in Qpus /\ n + 1 \in 0 .. NumQpus
  BY LaunchAssumption, QueueAssumption DEF Clients, Qpus

(* A task is submitted to a queue.                                         *)
LEMMA SubmitKept ==
    ASSUME LaunchInv, NEW q \in Qpus, NEW x \in Tasks, x.noisy => x.kind = "sample",
           submit(q, x)
    PROVE  /\ TasksGrow /\ Len(tasks') = Len(tasks) + 1 /\ Len(tasks) \in Nat
           /\ [QueueNext(1 .. Len(tasks) + 1)]_queueVars
           /\ UNCHANGED <<hPc, op>>
  <1>1. tasks' = Append(tasks, x) /\ push(q, Len(tasks) + 1)
    BY DEF submit
  <1>2. TasksGrow /\ Len(tasks') = Len(tasks) + 1 /\ Len(tasks) \in Nat
    <2>1. Len(tasks) \in Nat
      BY ByThread DEF LaunchTypeOK
    <2> QED
      BY <1>1, <2>1, TaskAdded
  <1>3. Len(tasks) + 1 \in 1 .. Len(tasks) + 1
    BY <1>2
  <1>4. QueueNext(1 .. Len(tasks) + 1)
    BY <1>1, <1>3 DEF QueueNext
  <1> QED
    BY <1>1, <1>2, <1>4 DEF push

LEMMA MadeTask ==
    ASSUME NEW kind \in {"sample", "sync", "seed", "broadcast"}, NEW noisy \in BOOLEAN,
           NEW key \in Keys \cup {NoKey}, NEW t \in Threads
    PROVE  /\ MakeTask(kind, noisy, key, t) \in Tasks
           /\ MakeTask(kind, noisy, key, t).noisy = noisy
           /\ MakeTask(kind, noisy, key, t).kind = kind
  <1>1. << >> \in Seq(Nat)
    OBVIOUS
  <1> QED
    BY <1>1 DEF MakeTask, Tasks

LEMMA SeqGrows == ASSUME NEW S, NEW T, S \subseteq T PROVE Seq(S) \subseteq Seq(T)
  OBVIOUS

(* With more tasks, what pointed to a task still does.                     *)
LEMMA TypesGrow ==
    ASSUME LaunchInv, TasksGrow
    PROVE  /\ noise \in [Qpus -> (1 .. Len(tasks')) \cup Clients \cup {NoNoise}]
           /\ ctx \in [Threads -> (1 .. Len(tasks')) \cup Clients \cup {NoNoise}]
           /\ awaits \in [Threads -> 0 .. Len(tasks')]
           /\ mine \in [Clients -> Seq(1 .. Len(tasks'))]
  <1>1. LaunchTypeOK
    BY ByThread
  <1>2. 1 .. Len(tasks) \subseteq 1 .. Len(tasks') /\ 0 .. Len(tasks) \subseteq 0 .. Len(tasks')
    BY <1>1 DEF LaunchTypeOK, TasksGrow
  <1>3. Seq(1 .. Len(tasks)) \subseteq Seq(1 .. Len(tasks'))
    BY <1>2, SeqGrows
  <1> QED
    BY <1>1, <1>2, <1>3 DEF LaunchTypeOK

LEMMA SeedNextKept ==
    ASSUME LaunchInv, NEW t \in Threads, seedNext(t)
    PROVE  Kept
  <1>1. /\ LaunchTypeOK /\ ThreadOK(t) /\ pc[t] = "seeding" /\ at[t] < NumQpus
        /\ at[t] \in Qpus /\ at[t] + 1 \in 0 .. NumQpus
        /\ UNCHANGED <<env, noise, ctx, arg, mine, results, terminated, cacheVars>>
    <2>1. LaunchTypeOK /\ ThreadOK(t)
      BY ByThread
    <2>2. at[t] \in 0 .. NumQpus
      BY <2>1 DEF LaunchTypeOK
    <2> QED
      BY <2>1, <2>2, WhoRuns DEF seedNext
  <1>2. CASE at' = [at EXCEPT ![t] = @ + 1] /\ UNCHANGED <<tasks, pc, awaits, queueVars>>
    <2>1. OnlyAt(t)
      BY <1>1, <1>2 DEF OnlyAt, LaunchTypeOK, queueVars, workerVars
    <2>2. LaunchTypeOK'
      BY <1>1, <1>2 DEF LaunchTypeOK
    <2>3. ThreadOK(t)'
      BY <1>1, <1>2 DEF ThreadOK, Runs, Sampling, queueVars, workerVars
    <2> QED
      BY <1>1, <1>2, <2>1, <2>2, <2>3, LocalStep
  <1>3. CASE /\ submit(at[t], MakeTask("seed", FALSE, NoKey, t))
             /\ awaits' = [awaits EXCEPT ![t] = Len(tasks) + 1]
             /\ Goto(t, "seedWait") /\ UNCHANGED at
    <2>1. /\ TasksGrow /\ Len(tasks') = Len(tasks) + 1 /\ Len(tasks) \in Nat
          /\ [QueueNext(1 .. Len(tasks) + 1)]_queueVars /\ UNCHANGED <<hPc, op>>
      <3>1. /\ MakeTask("seed", FALSE, NoKey, t) \in Tasks
            /\ ~MakeTask("seed", FALSE, NoKey, t).noisy
        BY MadeTask
      <3> QED
        BY <1>1, <1>3, <3>1, SubmitKept
    <2>2. OnlyAt(t)
      BY <1>1, <1>3, <2>1 DEF OnlyAt, LaunchTypeOK, Goto
    <2>3. LaunchTypeOK'
      BY <1>1, <1>3, <2>1, TypesGrow DEF LaunchTypeOK, Goto, TasksGrow
    <2>4. ThreadOK(t)'
      <3>1. /\ pc'[t] = "seedWait" /\ awaits'[t] = Len(tasks) + 1 /\ at'[t] < NumQpus
            /\ noise'[t] = noise[t]
        BY <1>1, <1>3 DEF LaunchTypeOK, Goto
      <3>2. t \in Qpus => Runs(t, "broadcast")'
        <4> SUFFICES ASSUME t \in Qpus PROVE Runs(t, "broadcast")'
          OBVIOUS
        <4>1. op[t] \in 1 .. Len(tasks) /\ Runs(t, "broadcast")
          BY <1>1, HasTask DEF ThreadOK, Current
        <4> QED
          BY <2>1, <4>1 DEF Runs, TasksGrow
      <3> QED
        BY <1>1, <2>1, <3>1, <3>2, WhoRuns DEF ThreadOK, Sampling
    <2>5. PICK n \in Nat : n = Len(tasks) + 1
      BY <2>1
    <2> QED
      BY <1>1, <2>1, <2>2, <2>3, <2>4, <2>5, StepKept
  <1> QED
    BY <1>2, <1>3 DEF seedNext

(* Steps that only move a thread on, and may count its loop on.            *)
LEMMA MoveKept ==
    ASSUME LaunchInv, NEW t \in Threads, NEW p, Goto(t, p),
           p \in {"idle", "preamble", "seeding", "execute", "ok", "threw", "launch"},
           \/ p = "idle"
           \/ p = "seeding" /\ pc[t] = "seedWait"
           \/ p = "preamble" /\ t \in Qpus /\ pc[t] = "seeding"
           \/ p = "execute" /\ pc[t] \in {"launch", "cache"}
           \/ p \in {"ok", "threw"} /\ pc[t] \in {"launch", "cache", "execute"},
           p = "idle" => t \in Clients \/ pc[t] = "seeding",
           UNCHANGED <<env, tasks, noise, ctx, awaits, arg, mine, results>>,
           UNCHANGED queueVars, [CacheNext]_cacheVars, terminated' \in BOOLEAN,
           \/ UNCHANGED at
           \/ pc[t] = "seedWait" /\ at' = [at EXCEPT ![t] = @ + 1]
    PROVE  Kept
  <1>1. LaunchTypeOK /\ ThreadOK(t)
    BY ByThread
  <1>2. pc' = [pc EXCEPT ![t] = p] /\ pc'[t] = p
    BY <1>1 DEF Goto, LaunchTypeOK
  <1>3. at' \in [Threads -> 0 .. NumQpus] /\ \A u \in Threads : u # t => at'[u] = at[u]
    <2>1. at \in [Threads -> 0 .. NumQpus]
      BY <1>1 DEF LaunchTypeOK
    <2>2. pc[t] = "seedWait" => at[t] + 1 \in 0 .. NumQpus
      BY <1>1, <2>1, WhoRuns DEF ThreadOK
    <2> QED
      BY <2>1, <2>2
  <1>4. OnlyAt(t)
    BY <1>1, <1>2, <1>3 DEF OnlyAt, LaunchTypeOK, queueVars, workerVars
  <1>5. LaunchTypeOK'
    BY <1>1, <1>2, <1>3 DEF LaunchTypeOK
  <1>6. ThreadOK(t)'
    <2>1. CASE t \in Clients
      BY <1>1, <1>2, <2>1, WhoRuns DEF ThreadOK, Sampling
    <2>2. CASE t \in Qpus
      <3>1. UNCHANGED <<hPc, op>> /\ t \notin Clients
        BY <2>2, WhoRuns DEF queueVars, workerVars
      <3>2. pc[t] \in {"seeding", "seedWait"} => ~tasks[op[t]].noisy
        <4> SUFFICES ASSUME pc[t] \in {"seeding", "seedWait"} PROVE ~tasks[op[t]].noisy
          OBVIOUS
        <4>1. op[t] \in 1 .. Len(tasks) /\ tasks[op[t]].kind = "broadcast"
          BY <1>1, <2>2, HasTask DEF ThreadOK, Current, Runs
        <4>2. op[t] \in DOMAIN tasks
          BY <1>1, <4>1 DEF LaunchTypeOK
        <4> QED
          BY <4>1, <4>2, ByThread DEF NoisySamples
      <3>3. (pc[t] \in Sampling <=> p \in Sampling) \/ pc[t] \in {"seeding", "seedWait"}
        BY <2>2, <3>1 DEF Sampling
      <3> QED
        BY <1>1, <1>2, <2>2, <3>1, <3>2, <3>3 DEF ThreadOK, Runs
    <2> QED
      BY <2>1, <2>2, WhoRuns
  <1> QED
    BY <1>4, <1>5, <1>6, LocalStep

LEMMA SeedKept ==
    ASSUME LaunchInv, NEW t \in Threads, setRandomSeed(t)
    PROVE  Kept
  <1>1. CASE seedNext(t)
    BY <1>1, SeedNextKept
  <1>2. CASE seedRefused(t)
    <2>1. terminated' \in BOOLEAN
      BY <1>2 DEF seedRefused
    <2> QED
      BY <1>2, <2>1, MoveKept DEF seedRefused
  <1>3. terminated \in BOOLEAN
    BY ByThread DEF LaunchTypeOK
  <1>4. CASE seedWaited(t)
    BY <1>3, <1>4, MoveKept DEF seedWaited
  <1>5. CASE seeded(t)
    BY <1>3, <1>5, MoveKept, WhoRuns DEF seeded
  <1> QED
    BY <1>1, <1>2, <1>4, <1>5 DEF setRandomSeed

LEMMA PreambleKept ==
    ASSUME LaunchInv, NEW t \in Threads, preamble(t)
    PROVE  Kept
  <1>1. /\ LaunchTypeOK /\ ThreadOK(t) /\ pc[t] = "preamble"
        /\ ctx' = [ctx EXCEPT ![t] = noise[QpuOf(t)]] /\ pc' = [pc EXCEPT ![t] = "launch"]
        /\ UNCHANGED <<env, tasks, noise, at, awaits, arg, mine, results, terminated>>
        /\ UNCHANGED <<hPc, op, queueVars, cacheVars>>
    BY ByThread DEF preamble, Goto, queueVars, workerVars
  <1>2. QpuOf(t) \in Qpus
    BY WhoRuns DEF QpuOf
  <1>3. OnlyAt(t)
    BY <1>1 DEF OnlyAt, LaunchTypeOK
  <1>4. LaunchTypeOK'
    BY <1>1, <1>2 DEF LaunchTypeOK
  <1>5. pc'[t] = "launch" /\ (t \in Qpus => ctx'[t] = noise[t])
    BY <1>1 DEF LaunchTypeOK, QpuOf
  <1>6. ThreadOK(t)'
    BY <1>1, <1>5 DEF ThreadOK, Runs, Sampling
  <1> QED
    BY <1>1, <1>3, <1>4, <1>6, LocalStep

LEMMA LaunchKept ==
    ASSUME LaunchInv, NEW t \in Threads, launch(t)
    PROVE  Kept
  <1> DEFINE key == tasks[Current(t)].key
  <1>1. /\ LaunchTypeOK /\ ThreadOK(t) /\ pc[t] = "launch"
        /\ UNCHANGED <<env, tasks, noise, ctx, at, awaits, arg, mine, results>>
        /\ UNCHANGED <<terminated, queueVars>>
    BY ByThread DEF launch
  <1>2. key \in Keys \cup {NoKey}
    <2>1. tasks[Current(t)] \in Tasks
      BY <1>1, HasTask, WhoRuns DEF Sampling
    <2> QED
      BY <2>1 DEF Tasks
  <1>3. CASE key # NoKey /\ getOrCompile(t, key) /\ Goto(t, "cache")
    <2>1. [CacheNext]_cacheVars
      BY <1>2, <1>3 DEF CacheNext
    <2>2. pc'[t] = "cache" /\ pc' = [pc EXCEPT ![t] = "cache"] /\ UNCHANGED <<hPc, op>>
      BY <1>1, <1>3 DEF Goto, LaunchTypeOK, queueVars, workerVars
    <2>3. OnlyAt(t) /\ LaunchTypeOK'
      BY <1>1, <2>2 DEF OnlyAt, LaunchTypeOK
    <2>4. ThreadOK(t)'
      BY <1>1, <2>2 DEF ThreadOK, Runs, Sampling
    <2> QED
      BY <1>1, <2>1, <2>3, <2>4, LocalStep
  <1>4. CASE UNCHANGED cacheVars /\ (Goto(t, "execute") \/ Goto(t, "threw"))
    <2>1. terminated' \in BOOLEAN
      BY <1>1 DEF LaunchTypeOK
    <2> QED
      BY <1>1, <1>4, <2>1, MoveKept
  <1> QED
    BY <1>3, <1>4 DEF launch

LEMMA InCacheKept ==
    ASSUME LaunchInv, NEW t \in Threads, inCache(t)
    PROVE  Kept
  <1>1. /\ LaunchTypeOK /\ ThreadOK(t) /\ pc[t] = "cache" /\ env.fails \in BOOLEAN
        /\ UNCHANGED <<env, tasks, noise, ctx, at, awaits, arg, mine, results>>
        /\ UNCHANGED <<terminated, queueVars>> /\ terminated' \in BOOLEAN
    BY ByThread, LaunchAssumption DEF inCache, LaunchTypeOK
  <1>2. CASE cacheStep(t, env.fails) /\ UNCHANGED pc
    <2>1. [CacheNext]_cacheVars
      BY <1>1, <1>2 DEF CacheNext
    <2>2. OnlyAt(t) /\ LaunchTypeOK' /\ ThreadOK(t)'
      BY <1>1, <1>2 DEF OnlyAt, LaunchTypeOK, ThreadOK, Runs, queueVars, workerVars
    <2> QED
      BY <1>1, <2>1, <2>2, LocalStep
  <1>3. CASE leaveCache(t) /\ (Goto(t, "execute") \/ Goto(t, "threw"))
    <2>1. [CacheNext]_cacheVars
      BY <1>3 DEF CacheNext
    <2> QED
      BY <1>1, <1>3, <2>1, MoveKept
  <1> QED
    BY <1>2, <1>3 DEF inCache

LEMMA ExecuteKept ==
    ASSUME LaunchInv, NEW t \in Threads, execute(t)
    PROVE  Kept
  <1>1. terminated' \in BOOLEAN
    BY ByThread DEF execute, LaunchTypeOK
  <1> QED
    BY <1>1, MoveKept DEF execute

-----------------------------------------------------------------------------
(* Workers.                                                                *)

LEMMA TakeKept ==
    ASSUME LaunchInv, NEW q \in Qpus, take(q)
    PROVE  Kept
  <1>1. /\ LaunchTypeOK /\ ThreadOK(q) /\ QueueTypeOK(1 .. Len(tasks))
        /\ takeTask(q) /\ pc' = [pc EXCEPT ![q] = "begin"] /\ q \in Threads
        /\ UNCHANGED <<env, tasks, noise, ctx, at, awaits, arg, mine, results>>
        /\ UNCHANGED <<terminated, cacheVars>>
    BY ByThread, WhoRuns DEF take, Goto
  <1>2. /\ pc'[q] = "begin" /\ hPc'[q] = "run" /\ hPc[q] = "wait"
        /\ \A r \in Qpus : r # q => hPc'[r] = hPc[r] /\ op'[r] = op[r]
    BY <1>1 DEF takeTask, LaunchTypeOK, QueueTypeOK
  <1>3. OnlyAt(q) /\ LaunchTypeOK'
    BY <1>1, <1>2 DEF OnlyAt, LaunchTypeOK
  <1>4. ThreadOK(q)'
    BY <1>1, <1>2, WhoRuns DEF ThreadOK, Sampling
  <1>5. PICK n \in Nat : n = Len(tasks')
    BY <1>3 DEF LaunchTypeOK
  <1>6. QueueNext(1 .. n)
    BY <1>1 DEF QueueNext
  <1> QED
    BY <1>1, <1>3, <1>4, <1>5, <1>6, StepKept, TasksSame

LEMMA QuittedKept ==
    ASSUME LaunchInv, NEW q \in Qpus, quitted(q)
    PROVE  Kept
  <1>1. /\ LaunchTypeOK /\ ThreadOK(q) /\ QueueTypeOK(1 .. Len(tasks))
        /\ quitWorker(q) /\ q \in Threads
        /\ UNCHANGED <<env, tasks, noise, pc, ctx, at, awaits, arg, mine, results>>
        /\ UNCHANGED <<terminated, cacheVars>>
    BY ByThread, WhoRuns DEF quitted, launchVars
  <1>2. /\ hPc'[q] = "gone" /\ hPc[q] = "wait" /\ UNCHANGED op
        /\ \A r \in Qpus : r # q => hPc'[r] = hPc[r]
    BY <1>1 DEF quitWorker, QueueTypeOK
  <1>3. OnlyAt(q) /\ LaunchTypeOK'
    BY <1>1, <1>2 DEF OnlyAt, LaunchTypeOK
  <1>4. ThreadOK(q)'
    BY <1>1, <1>2, WhoRuns DEF ThreadOK, Sampling
  <1>5. PICK n \in Nat : n = Len(tasks')
    BY <1>3 DEF LaunchTypeOK
  <1>6. QueueNext(1 .. n)
    BY <1>1 DEF QueueNext
  <1> QED
    BY <1>1, <1>3, <1>4, <1>5, <1>6, StepKept, TasksSame

(* A settled task is the same task.                                        *)
LEMMA StateSet ==
    ASSUME LaunchInv, NEW i \in 1 .. Len(tasks), NEW v \in {"value", "exception"},
           tasks' = [tasks EXCEPT ![i].state = v]
    PROVE  TasksGrow /\ Len(tasks') = Len(tasks)
  <1> DEFINE x == [tasks[i] EXCEPT !.state = v]
  <1>1. tasks \in Seq(Tasks) /\ tasks[i] \in Tasks
    BY ByThread DEF LaunchTypeOK
  <1>2. x \in Tasks /\ x.kind = tasks[i].kind /\ x.noisy = tasks[i].noisy
    BY <1>1 DEF Tasks
  <1>3. tasks' = [tasks EXCEPT ![i] = x]
    BY <1>1
  <1> QED
    BY <1>2, <1>3, TaskSettled

(* The worker is done with a task, and its QPU has no noise model.         *)
LEMMA ResolveKept ==
    ASSUME LaunchInv, NEW q \in Qpus, NEW v \in {"value", "exception"},
           pc[q] \in {"begin", "resolveOk", "resolveThrew"}, resolve(q, v)
    PROVE  Kept
  <1>1. /\ LaunchTypeOK /\ ThreadOK(q) /\ QueueTypeOK(1 .. Len(tasks))
        /\ taskDone(q) /\ pc' = [pc EXCEPT ![q] = "idle"] /\ q \in Threads
        /\ tasks' = [tasks EXCEPT ![op[q]].state = v]
        /\ UNCHANGED <<env, noise, ctx, at, awaits, arg, mine, results>>
        /\ UNCHANGED <<terminated, cacheVars>>
    BY ByThread, WhoRuns DEF resolve, Goto
  <1>2. op[q] \in 1 .. Len(tasks) /\ hPc[q] = "run"
    BY <1>1, HasTask, WhoRuns DEF Current, ThreadOK
  <1>3. TasksGrow /\ Len(tasks') = Len(tasks)
    BY <1>1, <1>2, StateSet
  <1>4. /\ pc'[q] = "idle"
        /\ \A r \in Qpus : r # q => hPc'[r] = hPc[r] /\ op'[r] = op[r]
    BY <1>1 DEF taskDone, LaunchTypeOK, QueueTypeOK
  <1>5. OnlyAt(q)
    BY <1>1, <1>4 DEF OnlyAt, LaunchTypeOK
  <1>6. LaunchTypeOK'
    BY <1>1, <1>3 DEF LaunchTypeOK, TasksGrow
  <1>7. ThreadOK(q)'
    BY <1>1, <1>4, WhoRuns DEF ThreadOK, Sampling
  <1>8. PICK n \in Nat : n = Len(tasks')
    BY <1>6 DEF LaunchTypeOK
  <1>9. QueueNext(1 .. n)
    BY <1>1, <1>2 DEF QueueNext
  <1> QED
    BY <1>1, <1>3, <1>5, <1>6, <1>7, <1>8, <1>9, StepKept

LEMMA SampleBeginKept ==
    ASSUME LaunchInv, NEW q \in Qpus, sampleBegin(q)
    PROVE  Kept
  <1>1. /\ LaunchTypeOK /\ ThreadOK(q) /\ q \in Threads /\ q \notin Clients
        /\ pc[q] = "begin" /\ hPc[q] = "run" /\ pc' = [pc EXCEPT ![q] = "preamble"]
        /\ noise' = IF tasks[op[q]].noisy THEN [noise EXCEPT ![q] = op[q]] ELSE noise
        /\ UNCHANGED <<env, tasks, ctx, at, awaits, arg, mine, results, terminated>>
        /\ UNCHANGED <<hPc, op, queueVars, cacheVars>>
    BY ByThread, WhoRuns DEF sampleBegin, Goto, Runs, queueVars, workerVars
  <1>2. op[q] \in 1 .. Len(tasks)
    BY <1>1, HasTask DEF Current
  <1>3. OnlyAt(q)
    BY <1>1 DEF OnlyAt, LaunchTypeOK
  <1>4. LaunchTypeOK'
    BY <1>1, <1>2 DEF LaunchTypeOK
  <1>5. /\ pc'[q] = "preamble"
        /\ noise'[q] = IF tasks[op[q]].noisy THEN op[q] ELSE noise[q]
    BY <1>1 DEF LaunchTypeOK
  <1>6. ThreadOK(q)'
    BY <1>1, <1>5 DEF ThreadOK, Sampling
  <1> QED
    BY <1>1, <1>3, <1>4, <1>6, LocalStep

LEMMA SampleEndKept ==
    ASSUME LaunchInv, NEW q \in Qpus, sampleEnd(q)
    PROVE  Kept
  <1> DEFINE p == IF pc[q] = "ok" THEN "resolveOk" ELSE "resolveThrew"
  <1>1. /\ LaunchTypeOK /\ ThreadOK(q) /\ q \in Threads /\ q \notin Clients
        /\ pc[q] \in {"ok", "threw"} /\ hPc[q] = "run" /\ pc' = [pc EXCEPT ![q] = p]
        /\ noise' = IF tasks[op[q]].noisy THEN [noise EXCEPT ![q] = NoNoise] ELSE noise
        /\ UNCHANGED <<env, tasks, ctx, at, awaits, arg, mine, results, terminated>>
        /\ UNCHANGED <<hPc, op, queueVars, cacheVars>>
    BY ByThread, WhoRuns DEF sampleEnd, Goto, Runs, queueVars, workerVars
  <1>2. p \in {"resolveOk", "resolveThrew"}
    OBVIOUS
  <1> HIDE DEF p
  <1>3. OnlyAt(q)
    BY <1>1 DEF OnlyAt, LaunchTypeOK
  <1>4. LaunchTypeOK'
    BY <1>1, <1>2 DEF LaunchTypeOK
  <1>5. /\ pc'[q] \in {"resolveOk", "resolveThrew"}
        /\ noise'[q] = IF tasks[op[q]].noisy THEN NoNoise ELSE noise[q]
    BY <1>1, <1>2 DEF LaunchTypeOK
  <1>6. ThreadOK(q)'
    BY <1>1, <1>5 DEF ThreadOK, Sampling
  <1> QED
    BY <1>1, <1>3, <1>4, <1>6, LocalStep

(* The bounds of a worker's share are numbers.                             *)
LEMMA ShareTypes ==
    ASSUME LaunchInv
    PROVE  /\ nExecsPerQpu \in Nat /\ \A q \in Qpus : lowerBound(q) \in Nat
  <1>1. env.sets \in Nat
    BY ByThread, LaunchAssumption DEF LaunchTypeOK
  <1>2. env.sets \div NumQpus \in Nat
    BY <1>1, QueueAssumption
  <1>3. nExecsPerQpu \in Nat
    BY <1>2 DEF nExecsPerQpu
  <1>4. \A q \in Qpus : q \in Nat
    BY DEF Qpus
  <1>5. \A q, n \in Nat : q * n \in Nat
    OBVIOUS
  <1> QED
    BY <1>3, <1>4, <1>5 DEF lowerBound

(* On to the next argument set of a broadcast, whose tasks have no noise   *)
(* model.                                                                  *)
LEMMA ApplyNextKept ==
    ASSUME LaunchInv, NEW q \in Qpus, Runs(q, "broadcast"), pc[q] \in {"begin", "ok"},
           NEW i \in Nat, applyNext(q, i), TasksGrow, Len(tasks') = Len(tasks),
           UNCHANGED <<env, noise, ctx, awaits, mine, results, terminated>>,
           UNCHANGED <<queueVars, cacheVars>>
    PROVE  Kept
  <1> DEFINE p == IF env.seeded THEN "seeding" ELSE "preamble"
  <1>1. /\ LaunchTypeOK /\ ThreadOK(q) /\ q \in Threads /\ q \notin Clients
        /\ pc' = [pc EXCEPT ![q] = p] /\ at' = [at EXCEPT ![q] = 0]
        /\ arg' = [arg EXCEPT ![q] = i] /\ UNCHANGED <<hPc, op>> /\ 0 \in 0 .. NumQpus
    BY ByThread, WhoRuns DEF applyNext, Goto, queueVars, workerVars
  <1>2. p \in {"seeding", "preamble"}
    OBVIOUS
  <1> HIDE DEF p
  <1>3. OnlyAt(q)
    BY <1>1 DEF OnlyAt, LaunchTypeOK
  <1>4. LaunchTypeOK'
    BY <1>1, <1>2 DEF LaunchTypeOK, TasksGrow
  <1>5. pc'[q] = p
    BY <1>1 DEF LaunchTypeOK
  <1>6. op[q] \in 1 .. Len(tasks) /\ Runs(q, "broadcast")'
    <2>1. op[q] \in 1 .. Len(tasks)
      BY <1>1, HasTask DEF Current, Runs
    <2> QED
      BY <1>1, <2>1 DEF Runs, TasksGrow
  <1>7. ~tasks[op[q]].noisy /\ ~tasks'[op[q]].noisy
    <2>1. op[q] \in DOMAIN tasks
      BY <1>1, <1>6 DEF LaunchTypeOK
    <2>2. ~tasks[op[q]].noisy
      BY <2>1, ByThread DEF NoisySamples, Runs
    <2> QED
      BY <1>6, <2>2 DEF TasksGrow
  <1>8. ThreadOK(q)'
    BY <1>1, <1>2, <1>5, <1>6, <1>7 DEF ThreadOK, Runs, Sampling
  <1>9. PICK n \in Nat : n = Len(tasks')
    BY <1>4 DEF LaunchTypeOK
  <1> QED
    BY <1>1, <1>3, <1>4, <1>8, <1>9, StepKept

LEMMA BroadcastStepsKept ==
    ASSUME LaunchInv, NEW q \in Qpus, broadcastBegin(q) \/ broadcastApplied(q)
    PROVE  Kept
  <1>1. CASE broadcastBegin(q)
    <2>1. lowerBound(q) \in Nat /\ TasksGrow /\ Len(tasks') = Len(tasks)
      BY <1>1, ShareTypes, TasksSame DEF broadcastBegin
    <2> QED
      BY <1>1, <2>1, ApplyNextKept DEF broadcastBegin
  <1>2. CASE broadcastApplied(q)
    <2>1. /\ LaunchTypeOK /\ ThreadOK(q) /\ q \in Threads /\ q \notin Clients
          /\ Runs(q, "broadcast") /\ pc[q] = "ok" /\ arg[q] \in Nat
          /\ tasks' = [tasks EXCEPT ![op[q]].out = Append(@, arg[q])]
          /\ UNCHANGED <<env, noise, ctx, awaits, mine, results, terminated>>
          /\ UNCHANGED <<queueVars, cacheVars>>
      BY <1>2, ByThread, WhoRuns DEF broadcastApplied, LaunchTypeOK
    <2>2. op[q] \in 1 .. Len(tasks) /\ tasks[op[q]] \in Tasks
      BY <2>1, HasTask DEF Current
    <2>3. TasksGrow /\ Len(tasks') = Len(tasks)
      <3> DEFINE x == [tasks[op[q]] EXCEPT !.out = Append(@, arg[q])]
      <3>0. tasks[op[q]].out \in Seq(Nat) /\ Append(tasks[op[q]].out, arg[q]) \in Seq(Nat)
        <4>1. tasks[op[q]].out \in Seq(Nat)
          BY <2>2 DEF Tasks
        <4> QED
          BY <2>1, <4>1, AppendProperties
      <3>1. x \in Tasks /\ x.kind = tasks[op[q]].kind /\ x.noisy = tasks[op[q]].noisy
        BY <2>2, <3>0 DEF Tasks
      <3>2. tasks' = [tasks EXCEPT ![op[q]] = x]
        BY <2>1, <2>2
      <3> QED
        BY <2>2, <3>1, <3>2, TaskSettled
    <2>4. CASE applyNext(q, arg[q] + 1)
      <3>1. arg[q] + 1 \in Nat
        BY <2>1
      <3> QED
        BY <2>1, <2>3, <2>4, <3>1, ApplyNextKept
    <2>5. CASE Goto(q, "resolveOk") /\ UNCHANGED <<arg, at>>
      <3>1. pc' = [pc EXCEPT ![q] = "resolveOk"] /\ UNCHANGED <<hPc, op>>
        BY <2>1, <2>5 DEF Goto, queueVars, workerVars
      <3>2. OnlyAt(q) /\ pc'[q] = "resolveOk"
        BY <2>1, <2>5, <3>1 DEF OnlyAt, LaunchTypeOK
      <3>3. LaunchTypeOK'
        BY <2>1, <2>3, <2>5, <3>1 DEF LaunchTypeOK, TasksGrow
      <3>4. ~tasks[op[q]].noisy
        <4>1. op[q] \in DOMAIN tasks
          BY <2>1, <2>2 DEF LaunchTypeOK
        <4> QED
          BY <2>1, <4>1, ByThread DEF NoisySamples, Runs
      <3>5. ThreadOK(q)'
        BY <2>1, <3>1, <3>2, <3>4 DEF ThreadOK, Sampling
      <3>6. PICK n \in Nat : n = Len(tasks')
        BY <3>3 DEF LaunchTypeOK
      <3> QED
        BY <2>1, <2>3, <3>2, <3>3, <3>5, <3>6, StepKept
    <2> QED
      BY <1>2, <2>4, <2>5 DEF broadcastApplied
  <1> QED
    BY <1>1, <1>2

LEMMA WorkerKept ==
    ASSUME LaunchInv, NEW q \in Qpus, Worker(q)
    PROVE  Kept
  <1>1. q \in Threads
    BY WhoRuns
  <1>2. CASE seedTask(q) \/ sampleResolve(q) \/ broadcastResolve(q)
    BY <1>2, ResolveKept DEF seedTask, sampleResolve, broadcastResolve
  <1>3. CASE broadcastThrows(q)
    <2>1. /\ LaunchTypeOK /\ ThreadOK(q) /\ terminated' = TRUE
          /\ UNCHANGED <<env, tasks, noise, pc, ctx, at, awaits, arg, mine, results>>
          /\ UNCHANGED <<hPc, op, queueVars, cacheVars>>
      BY <1>1, <1>3, ByThread DEF broadcastThrows, launchVars, queueVars, workerVars
    <2>2. OnlyAt(q) /\ LaunchTypeOK' /\ ThreadOK(q)'
      BY <2>1 DEF OnlyAt, LaunchTypeOK, ThreadOK, Runs
    <2> QED
      BY <1>1, <2>1, <2>2, LocalStep
  <1>4. CASE runSampling(q)
    BY <1>1, <1>4, PreambleKept, LaunchKept, InCacheKept, ExecuteKept DEF runSampling
  <1> QED
    BY <1>1, <1>2, <1>3, <1>4, TakeKept, QuittedKept, SampleBeginKept, SampleEndKept,
       BroadcastStepsKept, SeedKept
    DEF Worker

-----------------------------------------------------------------------------
(* Clients.                                                                *)

LEMMA SampleAsyncKept ==
    ASSUME LaunchInv, NEW c \in Clients, sampleAsync(c)
    PROVE  Kept
  <1>1. /\ LaunchTypeOK /\ ThreadOK(c) /\ c \in Threads /\ c \notin Qpus
        /\ UNCHANGED <<env, noise, pc, ctx, at, awaits, arg, mine, results>>
        /\ UNCHANGED <<terminated, cacheVars>>
    BY ByThread, WhoRuns DEF sampleAsync
  <1>2. PICK q \in Qpus, l \in env.launches :
          submit(q, MakeTask("sample", l.noisy, l.key, c))
    BY DEF sampleAsync
  <1>3. l.noisy \in BOOLEAN /\ l.key \in Keys \cup {NoKey}
    BY <1>1, <1>2, LaunchAssumption DEF LaunchTypeOK
  <1>4. /\ TasksGrow /\ Len(tasks') = Len(tasks) + 1 /\ Len(tasks) \in Nat
        /\ [QueueNext(1 .. Len(tasks) + 1)]_queueVars /\ UNCHANGED <<hPc, op>>
    BY <1>1, <1>2, <1>3, MadeTask, SubmitKept
  <1>5. OnlyAt(c)
    BY <1>1, <1>4 DEF OnlyAt
  <1>6. LaunchTypeOK'
    BY <1>1, <1>4, TypesGrow DEF LaunchTypeOK, TasksGrow
  <1>7. ThreadOK(c)'
    BY <1>1 DEF ThreadOK
  <1>8. PICK n \in Nat : n = Len(tasks) + 1
    BY <1>4
  <1> QED
    BY <1>1, <1>4, <1>5, <1>6, <1>7, <1>8, StepKept

(* What a call with options does to the models of the QPUs.                *)
LEMMA NoiseOfOptions ==
    ASSUME LaunchInv, NEW c \in Clients, setNoise(c) \/ resetNoise \/ UNCHANGED noise
    PROVE  /\ env.options = "none" => UNCHANGED noise
           /\ noise' \in [Qpus -> (1 .. Len(tasks)) \cup Clients \cup {NoNoise}]
  <1>1. noise \in [Qpus -> (1 .. Len(tasks)) \cup Clients \cup {NoNoise}]
    BY ByThread DEF LaunchTypeOK
  <1> QED
    BY <1>1 DEF setNoise, resetNoise

LEMMA SampleSyncKept ==
    ASSUME LaunchInv, NEW c \in Clients, sampleSync(c)
    PROVE  Kept
  <1>1. /\ LaunchTypeOK /\ ThreadOK(c) /\ c \in Threads /\ c \notin Qpus
        /\ awaits' = [awaits EXCEPT ![c] = Len(tasks) + 1]
        /\ pc' = [pc EXCEPT ![c] = "preamble"] /\ Len(tasks) \in Nat
        /\ UNCHANGED <<env, ctx, at, arg, mine, results, terminated>>
        /\ UNCHANGED <<hPc, op, queueVars, cacheVars>> /\ setNoise(c)
    BY ByThread, WhoRuns DEF sampleSync, Goto, queueVars, workerVars, LaunchTypeOK
  <1>2. PICK key \in Keys : tasks' = Append(tasks, MakeTask("sync", FALSE, key, c))
    BY DEF sampleSync
  <1>3. TasksGrow /\ Len(tasks') = Len(tasks) + 1
    BY <1>1, <1>2, MadeTask, TaskAdded
  <1>4. OnlyAt(c)
    BY <1>1, NoiseOfOptions DEF OnlyAt, LaunchTypeOK
  <1>5. LaunchTypeOK'
    <2>1. noise' \in [Qpus -> (1 .. Len(tasks)) \cup Clients \cup {NoNoise}]
      BY <1>1, NoiseOfOptions
    <2> QED
      BY <1>1, <1>3, <2>1, TypesGrow DEF LaunchTypeOK, TasksGrow
  <1>6. ThreadOK(c)'
    <2>1. pc'[c] = "preamble" /\ awaits'[c] # 0
      BY <1>1 DEF LaunchTypeOK
    <2> QED
      BY <1>1, <2>1 DEF ThreadOK
  <1>7. PICK n \in Nat : n = Len(tasks) + 1
    BY <1>1
  <1> QED
    BY <1>1, <1>3, <1>4, <1>5, <1>6, <1>7, StepKept

LEMMA SyncReturnsKept ==
    ASSUME LaunchInv, NEW c \in Clients, sampleSyncReturns(c)
    PROVE  Kept
  <1> DEFINE v == IF pc[c] = "ok" THEN "value" ELSE "exception"
  <1>1. /\ LaunchTypeOK /\ ThreadOK(c) /\ c \in Threads /\ c \notin Qpus
        /\ pc[c] \in {"ok", "threw"} /\ tasks' = [tasks EXCEPT ![awaits[c]].state = v]
        /\ pc' = [pc EXCEPT ![c] = "idle"]
        /\ resetNoise \/ UNCHANGED noise
        /\ UNCHANGED <<env, ctx, at, awaits, arg, mine, results, terminated>>
        /\ UNCHANGED <<hPc, op, queueVars, cacheVars>>
    BY ByThread, WhoRuns DEF sampleSyncReturns, Goto, queueVars, workerVars
  <1>2. awaits[c] \in 1 .. Len(tasks)
    BY <1>1, HasTask DEF Current, Sampling
  <1>3. v \in {"value", "exception"}
    OBVIOUS
  <1> HIDE DEF v
  <1>4. TasksGrow /\ Len(tasks') = Len(tasks)
    BY <1>1, <1>2, <1>3, StateSet
  <1>5. OnlyAt(c) /\ pc'[c] = "idle"
    <2>1. pc'[c] = "idle" /\ \A u \in Threads : u # c => pc'[u] = pc[u]
      BY <1>1 DEF LaunchTypeOK
    <2>2. env.options = "none" => UNCHANGED noise
      BY <1>1, NoiseOfOptions
    <2> QED
      BY <1>1, <2>1, <2>2 DEF OnlyAt
  <1>6. LaunchTypeOK'
    <2>1. noise' \in [Qpus -> (1 .. Len(tasks)) \cup Clients \cup {NoNoise}]
      BY <1>1, NoiseOfOptions
    <2>2. pc' \in [Threads -> {"idle", "begin", "seeding", "seedWait", "preamble",
             "launch", "cache", "execute", "ok", "threw", "resolveOk",
             "resolveThrew", "enqueue", "collect"}]
      BY <1>1 DEF LaunchTypeOK
    <2>3. tasks' \in Seq(Tasks)
      BY <1>4 DEF TasksGrow
    <2> QED
      BY <1>1, <1>4, <2>1, <2>2, <2>3 DEF LaunchTypeOK
  <1>7. ThreadOK(c)'
    BY <1>1, <1>5 DEF ThreadOK, Sampling
  <1>8. PICK n \in Nat : n = Len(tasks')
    BY <1>6 DEF LaunchTypeOK
  <1> QED
    BY <1>1, <1>4, <1>5, <1>6, <1>7, <1>8, StepKept

LEMMA CallSeedKept ==
    ASSUME LaunchInv, NEW c \in Clients, callSetRandomSeed(c)
    PROVE  Kept
  <1>1. /\ LaunchTypeOK /\ ThreadOK(c) /\ c \in Threads /\ c \notin Qpus
        /\ pc' = [pc EXCEPT ![c] = "seeding"] /\ at' = [at EXCEPT ![c] = 0]
        /\ UNCHANGED <<env, tasks, noise, ctx, awaits, arg, mine, results, terminated>>
        /\ UNCHANGED <<hPc, op, queueVars, cacheVars>> /\ 0 \in 0 .. NumQpus
    BY ByThread, WhoRuns DEF callSetRandomSeed, Goto, queueVars, workerVars
  <1>2. OnlyAt(c) /\ LaunchTypeOK' /\ pc'[c] = "seeding"
    BY <1>1 DEF OnlyAt, LaunchTypeOK
  <1>3. ThreadOK(c)'
    BY <1>1, <1>2 DEF ThreadOK, Sampling
  <1> QED
    BY <1>1, <1>2, <1>3, LocalStep

LEMMA BroadcastKept ==
    ASSUME LaunchInv, NEW c \in Clients, broadcast(c)
    PROVE  Kept
  <1>1. /\ LaunchTypeOK /\ ThreadOK(c) /\ c \in Threads /\ c \notin Qpus
        /\ noise' = IF env.options = "noisy" THEN [noise EXCEPT ![0] = c] ELSE noise
        /\ pc' = [pc EXCEPT ![c] = "enqueue"] /\ at' = [at EXCEPT ![c] = 0]
        /\ mine' = [mine EXCEPT ![c] = << >>] /\ results' = [results EXCEPT ![c] = << >>]
        /\ UNCHANGED <<env, tasks, ctx, awaits, arg, terminated>>
        /\ UNCHANGED <<hPc, op, queueVars, cacheVars>> /\ 0 \in 0 .. NumQpus
    BY ByThread, WhoRuns DEF broadcast, setNoise, Goto, queueVars, workerVars
  <1>2. OnlyAt(c)
    BY <1>1 DEF OnlyAt, LaunchTypeOK
  <1>3. LaunchTypeOK'
    <2>1. noise' \in [Qpus -> (1 .. Len(tasks')) \cup Clients \cup {NoNoise}]
      BY <1>1, WhoRuns DEF LaunchTypeOK
    <2>2. mine' \in [Clients -> Seq(1 .. Len(tasks'))]
      <3>1. << >> \in Seq(1 .. Len(tasks))
        OBVIOUS
      <3> QED
        BY <1>1, <3>1 DEF LaunchTypeOK
    <2>3. results' \in [Clients -> Seq(Nat)]
      <3>1. << >> \in Seq(Nat)
        OBVIOUS
      <3> QED
        BY <1>1, <3>1 DEF LaunchTypeOK
    <2> QED
      BY <1>1, <2>1, <2>2, <2>3 DEF LaunchTypeOK
  <1>4. ThreadOK(c)'
    <2>1. pc'[c] = "enqueue" /\ at'[c] = 0 /\ mine'[c] = << >>
      BY <1>1 DEF LaunchTypeOK
    <2> QED
      BY <1>1, <2>1 DEF ThreadOK, Sampling
  <1> QED
    BY <1>1, <1>2, <1>3, <1>4, LocalStep

LEMMA BroadcastEnqueueKept ==
    ASSUME LaunchInv, NEW c \in Clients, broadcastEnqueue(c)
    PROVE  Kept
  <1>1. /\ LaunchTypeOK /\ ThreadOK(c) /\ c \in Threads /\ c \notin Qpus
        /\ pc[c] = "enqueue" /\ at[c] \in Qpus /\ at[c] + 1 \in 0 .. NumQpus
        /\ UNCHANGED <<env, noise, ctx, awaits, arg, results, terminated, cacheVars>>
    <2>1. LaunchTypeOK /\ ThreadOK(c) /\ c \in Threads /\ c \notin Qpus
      BY ByThread, WhoRuns
    <2>2. at[c] \in 0 .. NumQpus
      BY <2>1 DEF LaunchTypeOK
    <2> QED
      BY <2>1, <2>2, WhoRuns DEF broadcastEnqueue
  <1>2. CASE /\ submit(at[c], MakeTask("broadcast", FALSE, NoKey, c))
             /\ mine' = [mine EXCEPT ![c] = Append(@, Len(tasks) + 1)]
             /\ at' = [at EXCEPT ![c] = @ + 1] /\ UNCHANGED pc
    <2>1. /\ TasksGrow /\ Len(tasks') = Len(tasks) + 1 /\ Len(tasks) \in Nat
          /\ [QueueNext(1 .. Len(tasks) + 1)]_queueVars /\ UNCHANGED <<hPc, op>>
      <3>1. /\ MakeTask("broadcast", FALSE, NoKey, c) \in Tasks
            /\ ~MakeTask("broadcast", FALSE, NoKey, c).noisy
        BY <1>1, MadeTask
      <3> QED
        BY <1>1, <1>2, <3>1, SubmitKept
    <2>2. mine[c] \in Seq(1 .. Len(tasks')) /\ Len(tasks) + 1 \in 1 .. Len(tasks')
      <3>1. mine \in [Clients -> Seq(1 .. Len(tasks'))]
        BY <2>1, TypesGrow
      <3> QED
        BY <2>1, <3>1
    <2>3. /\ Append(mine[c], Len(tasks) + 1) \in Seq(1 .. Len(tasks'))
          /\ Len(Append(mine[c], Len(tasks) + 1)) = Len(mine[c]) + 1
      BY <2>2, AppendProperties
    <2>4. OnlyAt(c)
      BY <1>1, <1>2, <2>1 DEF OnlyAt, LaunchTypeOK
    <2>5. LaunchTypeOK'
      <3>1. mine' \in [Clients -> Seq(1 .. Len(tasks'))]
        BY <1>2, <2>1, <2>3, TypesGrow
      <3>2. at' \in [Threads -> 0 .. NumQpus]
        BY <1>1, <1>2 DEF LaunchTypeOK
      <3> QED
        BY <1>1, <1>2, <2>1, <3>1, <3>2, TypesGrow DEF LaunchTypeOK, TasksGrow
    <2>6. ThreadOK(c)'
      <3>1. /\ pc'[c] = "enqueue" /\ mine'[c] = Append(mine[c], Len(tasks) + 1)
            /\ at'[c] = at[c] + 1 /\ Len(mine[c]) = at[c]
        BY <1>1, <1>2 DEF LaunchTypeOK, ThreadOK
      <3> QED
        BY <1>1, <2>3, <3>1 DEF ThreadOK, Sampling
    <2>7. PICK n \in Nat : n = Len(tasks) + 1
      BY <2>1
    <2> QED
      BY <1>1, <2>1, <2>4, <2>5, <2>6, <2>7, StepKept
  <1>3. CASE Goto(c, "idle") /\ UNCHANGED <<tasks, mine, at, queueVars>>
    <2>1. terminated' \in BOOLEAN
      BY <1>1 DEF LaunchTypeOK
    <2> QED
      BY <1>1, <1>3, <2>1, MoveKept
  <1> QED
    BY <1>2, <1>3 DEF broadcastEnqueue

LEMMA BroadcastEnqueuedKept ==
    ASSUME LaunchInv, NEW c \in Clients, broadcastEnqueued(c)
    PROVE  Kept
  <1>1. /\ LaunchTypeOK /\ ThreadOK(c) /\ c \in Threads /\ c \notin Qpus
        /\ pc[c] = "enqueue" /\ at[c] = NumQpus
        /\ pc' = [pc EXCEPT ![c] = "collect"] /\ at' = [at EXCEPT ![c] = 0]
        /\ UNCHANGED <<env, tasks, noise, ctx, awaits, arg, mine, results, terminated>>
        /\ UNCHANGED <<hPc, op, queueVars, cacheVars>> /\ 0 \in 0 .. NumQpus
    BY ByThread, WhoRuns DEF broadcastEnqueued, Goto, queueVars, workerVars
  <1>2. OnlyAt(c) /\ LaunchTypeOK' /\ pc'[c] = "collect"
    BY <1>1 DEF OnlyAt, LaunchTypeOK
  <1>3. ThreadOK(c)'
    BY <1>1, <1>2 DEF ThreadOK, Sampling
  <1> QED
    BY <1>1, <1>2, <1>3, LocalStep

LEMMA BroadcastCollectKept ==
    ASSUME LaunchInv, NEW c \in Clients, broadcastCollect(c)
    PROVE  Kept
  <1> DEFINE f == tasks[mine[c][at[c] + 1]]
  <1>1. /\ LaunchTypeOK /\ ThreadOK(c) /\ c \in Threads /\ c \notin Qpus
        /\ pc[c] = "collect" /\ at[c] \in Qpus /\ at[c] + 1 \in 0 .. NumQpus
        /\ UNCHANGED <<env, tasks, noise, ctx, awaits, arg, mine, terminated>>
        /\ UNCHANGED <<hPc, op, queueVars, cacheVars>>
    <2>1. LaunchTypeOK /\ ThreadOK(c) /\ c \in Threads /\ c \notin Qpus
      BY ByThread, WhoRuns
    <2>2. at[c] \in 0 .. NumQpus
      BY <2>1 DEF LaunchTypeOK
    <2> QED
      BY <2>1, <2>2, WhoRuns DEF broadcastCollect, queueVars, workerVars
  <1>2. CASE /\ results' = [results EXCEPT ![c] = @ \o f.out]
             /\ at' = [at EXCEPT ![c] = @ + 1] /\ UNCHANGED pc
    <2>1. f.out \in Seq(Nat)
      <3>1. mine[c] \in Seq(1 .. Len(tasks)) /\ Len(mine[c]) = NumQpus
        BY <1>1 DEF LaunchTypeOK, ThreadOK
      <3>2. at[c] + 1 \in 1 .. Len(mine[c])
        BY <1>1, <3>1, WhoRuns DEF Qpus
      <3>3. mine[c][at[c] + 1] \in 1 .. Len(tasks)
        BY <3>1, <3>2, ElementOfSeq
      <3>4. f \in Tasks
        BY <1>1, <3>3 DEF LaunchTypeOK
      <3> QED
        BY <3>4 DEF Tasks
    <2> HIDE DEF f
    <2>2. results[c] \o f.out \in Seq(Nat)
      BY <1>1, <2>1 DEF LaunchTypeOK
    <2>3. OnlyAt(c)
      BY <1>1, <1>2 DEF OnlyAt, LaunchTypeOK
    <2>4. LaunchTypeOK'
      BY <1>1, <1>2, <2>2 DEF LaunchTypeOK
    <2>5. ThreadOK(c)'
      BY <1>1, <1>2 DEF ThreadOK, Sampling
    <2> QED
      BY <1>1, <2>3, <2>4, <2>5, LocalStep
  <1>3. CASE /\ results' = [results EXCEPT ![c] = << >>]
             /\ Goto(c, "idle") /\ UNCHANGED at
    <2>1. pc' = [pc EXCEPT ![c] = "idle"] /\ pc'[c] = "idle"
      BY <1>1, <1>3 DEF Goto, LaunchTypeOK
    <2>2. OnlyAt(c) /\ LaunchTypeOK'
      BY <1>1, <1>3, <2>1 DEF OnlyAt, LaunchTypeOK
    <2>3. ThreadOK(c)'
      BY <1>1, <2>1 DEF ThreadOK, Sampling
    <2> QED
      BY <1>1, <2>2, <2>3, LocalStep
  <1> QED
    BY <1>2, <1>3 DEF broadcastCollect

LEMMA BroadcastReturnsKept ==
    ASSUME LaunchInv, NEW c \in Clients, broadcastReturns(c)
    PROVE  Kept
  <1>1. /\ LaunchTypeOK /\ ThreadOK(c) /\ c \in Threads /\ c \notin Qpus
        /\ noise' = IF env.options # "none" THEN [noise EXCEPT ![0] = NoNoise] ELSE noise
        /\ pc' = [pc EXCEPT ![c] = "idle"]
        /\ UNCHANGED <<env, tasks, ctx, at, awaits, arg, mine, results, terminated>>
        /\ UNCHANGED <<hPc, op, queueVars, cacheVars>>
    BY ByThread, WhoRuns DEF broadcastReturns, resetNoise, Goto, queueVars, workerVars
  <1>2. OnlyAt(c) /\ pc'[c] = "idle"
    BY <1>1 DEF OnlyAt, LaunchTypeOK
  <1>3. LaunchTypeOK'
    BY <1>1, WhoRuns DEF LaunchTypeOK
  <1>4. ThreadOK(c)'
    BY <1>1, <1>2 DEF ThreadOK, Sampling
  <1> QED
    BY <1>1, <1>2, <1>3, <1>4, LocalStep

LEMMA ClientKept ==
    ASSUME LaunchInv, NEW c \in Clients, Calls(c) \/ Client(c)
    PROVE  Kept
  <1>1. c \in Threads
    BY WhoRuns
  <1>2. CASE Calls(c)
    BY <1>2, SampleAsyncKept, SampleSyncKept, CallSeedKept, BroadcastKept DEF Calls
  <1>3. CASE runSampling(c)
    BY <1>1, <1>3, PreambleKept, LaunchKept, InCacheKept, ExecuteKept DEF runSampling
  <1>4. CASE setRandomSeed(c)
    BY <1>1, <1>4, SeedKept
  <1> QED
    BY <1>2, <1>3, <1>4, SyncReturnsKept, BroadcastEnqueueKept, BroadcastEnqueuedKept,
       BroadcastCollectKept, BroadcastReturnsKept
    DEF Client

-----------------------------------------------------------------------------
(* Closers.                                                                *)

(* A step that no thread that launches anything takes.                     *)
LEMMA NobodyMoves ==
    ASSUME LaunchInv, TasksGrow, Len(tasks') = Len(tasks),
           UNCHANGED <<env, noise, pc, ctx, at, awaits, arg, mine, results>>,
           UNCHANGED <<terminated, cacheVars, hPc, op>>,
           \A n \in Nat : [QueueNext(1 .. n)]_queueVars
    PROVE  Kept
  <1>1. OnlyAt(0) /\ OnlyAt(Nobody) /\ 0 \in Threads
    BY WhoRuns DEF OnlyAt
  <1>2. LaunchTypeOK'
    <2>1. LaunchTypeOK
      BY ByThread
    <2> QED
      BY <2>1 DEF LaunchTypeOK, TasksGrow
  <1>3. ThreadOK(0)'
    <2>1. PICK t : t # 0
      OBVIOUS
    <2>2. OnlyAt(t)
      BY DEF OnlyAt
    <2> QED
      BY <1>1, <2>1, <2>2, OthersKept
  <1>4. PICK n \in Nat : n = Len(tasks')
    BY <1>2 DEF LaunchTypeOK
  <1> QED
    BY <1>1, <1>2, <1>3, <1>4, StepKept

LEMMA DiscardKept ==
    ASSUME LaunchInv, NEW s \in Closers, discard(s)
    PROVE  Kept
  <1>1. /\ LaunchTypeOK /\ joinAndDiscard(s) /\ UNCHANGED <<hPc, op>>
        /\ UNCHANGED <<env, noise, pc, ctx, at, awaits, arg, mine, results>>
        /\ UNCHANGED <<terminated, cacheVars>>
    BY ByThread DEF discard, joinAndDiscard
  <1>2. tasks \in Seq(Tasks) /\ DOMAIN tasks = 1 .. Len(tasks) /\ Len(tasks) \in Nat
    BY <1>1 DEF LaunchTypeOK
  <1>3. /\ tasks' = [i \in 1 .. Len(tasks) |-> tasks'[i]]
        /\ \A i \in 1 .. Len(tasks) :
              tasks'[i] = tasks[i] \/ tasks'[i] = [tasks[i] EXCEPT !.state = "broken"]
    BY <1>2 DEF discard
  <1>4. \A i \in 1 .. Len(tasks) : /\ tasks'[i] \in Tasks
                                   /\ tasks'[i].kind = tasks[i].kind
                                   /\ tasks'[i].noisy = tasks[i].noisy
    <2> SUFFICES ASSUME NEW i \in 1 .. Len(tasks)
                 PROVE  /\ tasks'[i] \in Tasks /\ tasks'[i].kind = tasks[i].kind
                        /\ tasks'[i].noisy = tasks[i].noisy
      OBVIOUS
    <2>1. tasks[i] \in Tasks
      BY <1>2
    <2> QED
      BY <1>3, <2>1 DEF Tasks
  <1>5. tasks' \in Seq(Tasks) /\ Len(tasks') = Len(tasks)
    BY <1>2, <1>3, <1>4
  <1>6. NoisySamples'
    <2>1. NoisySamples /\ DOMAIN tasks' = DOMAIN tasks
      BY <1>2, <1>3, ByThread
    <2> QED
      BY <1>2, <1>4, <2>1 DEF NoisySamples
  <1>7. TasksGrow
    BY <1>2, <1>4, <1>5, <1>6 DEF TasksGrow
  <1>8. \A n \in Nat : QueueNext(1 .. n)
    BY <1>1 DEF QueueNext
  <1> QED
    BY <1>1, <1>5, <1>7, <1>8, NobodyMoves

LEMMA CloserKept ==
    ASSUME LaunchInv, BeginClose \/ (\E s \in Closers : Closer(s))
    PROVE  Kept
  <1>1. \/ TasksGrow /\ Len(tasks') = Len(tasks)
        \/ \E s \in Closers : discard(s)
    BY TasksSame DEF BeginClose, Closer, launchVars
  <1>2. CASE BeginClose
    <2>1. /\ UNCHANGED <<env, tasks, noise, pc, ctx, at, awaits, arg, mine, results>>
          /\ UNCHANGED <<terminated, cacheVars, hPc, op>>
      BY <1>2 DEF BeginClose, launchVars, beginExit, beginDestroy, workerVars
    <2>2. env.exits \subseteq Exits /\ env.destroys \subseteq Qpus
      BY ByThread, LaunchAssumption DEF LaunchTypeOK
    <2>3. \A n \in Nat : QueueNext(1 .. n)
      BY <1>2, <2>2 DEF BeginClose, QueueNext
    <2> QED
      BY <2>1, <2>3, NobodyMoves, TasksSame
  <1>3. ASSUME NEW s \in Closers, closerStep(s),
               UNCHANGED <<env, launchVars, terminated, cacheVars>>
        PROVE  Kept
    <2>1. /\ UNCHANGED <<env, tasks, noise, pc, ctx, at, awaits, arg, mine, results>>
          /\ UNCHANGED <<terminated, cacheVars, hPc, op>>
      BY <1>3 DEF launchVars, closerStep, nextQueue, endExit, shutdown, unregister,
         workerVars
    <2>2. \A n \in Nat : QueueNext(1 .. n)
      BY <1>3 DEF QueueNext
    <2> QED
      BY <2>1, <2>2, NobodyMoves, TasksSame
  <1> QED
    BY <1>2, <1>3, DiscardKept DEF Closer

-----------------------------------------------------------------------------
(* The theorems.                                                           *)

LEMMA LaunchStart == Init => LaunchInv
  <1> SUFFICES ASSUME Init PROVE LaunchInv
    OBVIOUS
  <1>1. CacheInv /\ QueueInv /\ QueueTypeOK(1 .. Len(tasks))
    <2>1. PICK S : S = 1 .. Len(tasks)
      OBVIOUS
    <2> QED
      BY <2>1, CacheStart, QueueStart DEF Init
  <1>2. LaunchTypeOK
    <2>1. tasks = << >> /\ Len(tasks) = 0 /\ tasks \in Seq(Tasks) /\ 0 \in 0 .. NumQpus
      BY WhoRuns DEF Init
    <2>2. << >> \in Seq(1 .. Len(tasks)) /\ << >> \in Seq(Nat)
      OBVIOUS
    <2>3. /\ noise \in [Qpus -> (1 .. Len(tasks)) \cup Clients \cup {NoNoise}]
          /\ ctx \in [Threads -> (1 .. Len(tasks)) \cup Clients \cup {NoNoise}]
          /\ awaits \in [Threads -> 0 .. Len(tasks)]
      BY <2>1 DEF Init
    <2>4. mine \in [Clients -> Seq(1 .. Len(tasks))] /\ results \in [Clients -> Seq(Nat)]
      BY <2>2 DEF Init
    <2> QED
      BY <2>1, <2>3, <2>4 DEF Init, LaunchTypeOK
  <1>3. NoisySamples /\ \A t \in Threads : ThreadOK(t)
    <2>1. NoisySamples
      BY DEF Init, NoisySamples
    <2>2. \A t \in Threads : pc[t] = "idle" /\ (t \in Qpus => noise[t] = NoNoise)
      BY DEF Init
    <2> QED
      BY <2>1, <2>2 DEF ThreadOK, Sampling
  <1> QED
    BY <1>1, <1>2, <1>3, ByThread

LEMMA LaunchStep == LaunchInv /\ [Next]_vars => LaunchInv'
  <1> SUFFICES ASSUME LaunchInv, [Next]_vars PROVE LaunchInv'
    OBVIOUS
  <1>1. CASE Next
    BY <1>1, WorkerKept, ClientKept, CloserKept, KeptMeans DEF Next
  <1>2. CASE UNCHANGED vars
    <2>1. /\ UNCHANGED <<env, tasks, noise, pc, ctx, at, awaits, arg, mine, results>>
          /\ UNCHANGED <<terminated, cacheVars, hPc, op, queueVars>>
      BY <1>2 DEF vars, launchVars, queueVars, workerVars
    <2> QED
      BY <2>1, NobodyMoves, TasksSame, KeptMeans
  <1> QED
    BY <1>1, <1>2

(* The invariant of asynchronous launching holds: for any number of QPUs,  *)
(* clients, tasks, kernels and closers, whatever fails and whoever exits.  *)
THEOREM LaunchInvariant == Spec => []LaunchInv
  BY LaunchStart, LaunchStep, PTL DEF Spec

(* No key is compiled twice at a time, or while it is ready.               *)
THEOREM LaunchCompilesOnce == Spec => []OneCompilationPerKey
  <1>1. LaunchInv => OneCompilationPerKey
    BY CacheInvMeans DEF LaunchInv
  <1> QED
    BY <1>1, LaunchInvariant, PTL

(* A launch gets the module of its key, never waits for an attempt that    *)
(* nobody makes, and finds the latest modules ready.                       *)
THEOREM LaunchCacheSound == Spec => []CacheSound
  <1>1. LaunchInv => CacheSound
    BY CacheInvMeans DEF LaunchInv, CacheSound
  <1> QED
    BY <1>1, LaunchInvariant, PTL

(* When a shutdown returns the worker has ended and nothing is queued, and *)
(* no exit reaches a destroyed queue: for any number of queues, exits and  *)
(* destructors.                                                            *)
THEOREM LaunchQueuesSound == Spec => []QueuesSound
  <1>1. LaunchInv => QueuesSound
    <2> SUFFICES ASSUME LaunchInv PROVE QueuesSound
      OBVIOUS
    <2>1. PICK S : S = 1 .. Len(tasks)
      OBVIOUS
    <2>2. QueueTypeOK(S) /\ QueueInv
      BY <2>1, ByThread
    <2> QED
      BY <2>2, QueueInvMeans DEF QueuesSound
  <1> QED
    BY <1>1, LaunchInvariant, PTL

(* A worker's task executes under its own noise model and no other's,      *)
(* whatever tasks ran before it and however they ended.                    *)
THEOREM LaunchUnderOwnNoise == Spec => []TasksRunUnderOwnNoise
  <1>1. LaunchInv => TasksRunUnderOwnNoise
    BY DEF LaunchInv, NoiseSound, TasksRunUnderOwnNoise, OwnModel, Current
  <1> QED
    BY <1>1, LaunchInvariant, PTL

-----------------------------------------------------------------------------
(* Broadcasts.                                                             *)

(* What BroadcastInv says about one worker, one client and one task.       *)
ShareOK(q) ==
    Runs(q, "broadcast") =>
        /\ pc[q] = "begin" => tasks[op[q]].out = << >>
        /\ pc[q] \in Sampling \cup {"seeding", "seedWait"} =>
              /\ arg[q] \in lowerBound(q) .. upperBound(q) - 1
              /\ tasks[op[q]].out = Block(lowerBound(q), arg[q] - lowerBound(q))
        /\ pc[q] = "resolveOk" =>
              tasks[op[q]].out = Block(lowerBound(q), nExecsPerQpu)

FutureOK(c) ==
    \A k \in DOMAIN mine[c] :
        /\ tasks[mine[c][k]].kind = "broadcast"
        /\ \A q \in Qpus : Holds(q, mine[c][k]) => q = k - 1
        /\ tasks[mine[c][k]].state = "value" =>
              tasks[mine[c][k]].out = Block(lowerBound(k - 1), nExecsPerQpu)

ResultOK(c) ==
    /\ pc[c] = "enqueue" => results[c] = << >>
    /\ pc[c] = "collect" => results[c] = Block(0, at[c] * nExecsPerQpu)
    /\ pc[c] \notin {"enqueue", "collect"} =>
          results[c] \in {<< >>, Block(0, NumQpus * nExecsPerQpu)}

NoCloser == env.exits \cup env.destroys = {}

OwnerOK(i) ==
    LET c == tasks[i].owner IN
    tasks[i].kind = "broadcast" /\ tasks[i].state # "value" =>
        /\ c \in Clients /\ pc[c] \in {"enqueue", "collect"}
        /\ \E k \in DOMAIN mine[c] : mine[c][k] = i /\ (pc[c] = "collect" => k > at[c])

BroadcastParts ==
    /\ TasksPlaced
    /\ \A q \in Qpus : ShareOK(q)
    /\ \A c \in Clients : FutureOK(c) /\ ResultOK(c)
    /\ NoCloser => /\ \A s \in Closers : sPc[s] = "idle"
                   /\ \A q \in Qpus : ~quit[q]
                   /\ \A i \in DOMAIN tasks : tasks[i].state # "broken" /\ OwnerOK(i)

LEMMA ByParts == BroadcastInv <=> BroadcastParts
  <1>1. SharesGrow <=> \A q \in Qpus : ShareOK(q)
    BY DEF SharesGrow, ShareOK
  <1>2. FuturesOrdered /\ ResultsGrow <=> \A c \in Clients : FutureOK(c) /\ ResultOK(c)
    BY DEF FuturesOrdered, ResultsGrow, FutureOK, ResultOK
  <1>3. OwnersWait <=>
          (NoCloser => /\ \A s \in Closers : sPc[s] = "idle"
                       /\ \A q \in Qpus : ~quit[q]
                       /\ \A i \in DOMAIN tasks : tasks[i].state # "broken" /\ OwnerOK(i))
    BY DEF OwnersWait, NoCloser, OwnerOK
  <1> QED
    BY <1>1, <1>2, <1>3 DEF BroadcastInv, BroadcastParts

LEMMA ByBroadcast ==
    ASSUME BroadcastInv
    PROVE  /\ TasksPlaced
           /\ \A q \in Qpus : ShareOK(q)
           /\ \A c \in Clients : FutureOK(c) /\ ResultOK(c)
           /\ NoCloser => /\ \A s \in Closers : sPc[s] = "idle"
                          /\ \A q \in Qpus : ~quit[q]
                          /\ \A i \in DOMAIN tasks : tasks[i].state # "broken" /\ OwnerOK(i)
  BY ByParts DEF BroadcastParts

(* What the queues, the workers and the clients refer to are tasks.        *)
LEMMA TaskIds ==
    ASSUME LaunchInv
    PROVE  /\ tasks \in Seq(Tasks) /\ Len(tasks) \in Nat
           /\ DOMAIN tasks = 1 .. Len(tasks)
           /\ \A i \in 1 .. Len(tasks) : tasks[i] \in Tasks
           /\ \A q \in Qpus :
                 /\ queue[q] \in Seq(1 .. Len(tasks))
                 /\ op[q] \in (1 .. Len(tasks)) \cup {0}
                 /\ \A j \in DOMAIN queue[q] : queue[q][j] \in 1 .. Len(tasks)
                 /\ hPc[q] = "run" => op[q] \in 1 .. Len(tasks)
           /\ \A c \in Clients :
                 /\ mine[c] \in Seq(1 .. Len(tasks))
                 /\ \A k \in DOMAIN mine[c] : mine[c][k] \in 1 .. Len(tasks)
                 /\ pc[c] \in Sampling => awaits[c] \in 1 .. Len(tasks)
  <1>1. LaunchTypeOK /\ QueueTypeOK(1 .. Len(tasks)) /\ QueueInv
    BY ByThread
  <1>2. /\ tasks \in Seq(Tasks) /\ Len(tasks) \in Nat /\ DOMAIN tasks = 1 .. Len(tasks)
        /\ \A i \in 1 .. Len(tasks) : tasks[i] \in Tasks
    BY <1>1 DEF LaunchTypeOK
  <1>3. \A q \in Qpus : queue[q] \in Seq(1 .. Len(tasks))
                        /\ op[q] \in (1 .. Len(tasks)) \cup {0}
                        /\ (hPc[q] = "run" => op[q] \in 1 .. Len(tasks))
    BY <1>1 DEF QueueTypeOK, QueueInv, RunnersHaveTask
  <1>4. \A c \in Clients : mine[c] \in Seq(1 .. Len(tasks))
    BY <1>1 DEF LaunchTypeOK
  <1>5. \A c \in Clients : pc[c] \in Sampling => awaits[c] \in 1 .. Len(tasks)
    BY HasTask, WhoRuns DEF Current
  <1>6. \A S : \A s \in Seq(S) : \A j \in DOMAIN s : s[j] \in S
    OBVIOUS
  <1> QED
    BY <1>2, <1>3, <1>4, <1>5, <1>6

(* A task that c waits for with this step is one c waited for before it.   *)
StillWaits(c) ==
    \A k \in DOMAIN mine[c] :
        /\ pc[c] \in {"enqueue", "collect"} /\ (pc[c] = "collect" => k > at[c])
        /\ tasks[mine[c][k]].state # "value"
        => /\ pc'[c] \in {"enqueue", "collect"} /\ (pc'[c] = "collect" => k > at'[c])
           /\ k \in DOMAIN mine'[c] /\ mine'[c][k] = mine[c][k]

(* Tasks are settled and given results, and keep their kind and owner.     *)
TasksKeep ==
    \A i \in 1 .. Len(tasks) :
        /\ i \in DOMAIN tasks' /\ tasks'[i].kind = tasks[i].kind
        /\ tasks'[i].owner = tasks[i].owner
        /\ tasks[i].kind = "broadcast" /\ tasks[i].state = "value" =>
              tasks'[i].state = "value"

LEMMA OwnerKept ==
    ASSUME LaunchInv, TasksKeep, NEW i \in 1 .. Len(tasks), OwnerOK(i),
           \A c \in Clients : StillWaits(c)
    PROVE  OwnerOK(i)'
  <1> SUFFICES ASSUME tasks'[i].kind = "broadcast", tasks'[i].state # "value"
               PROVE  LET c == tasks'[i].owner IN
                      /\ c \in Clients /\ pc'[c] \in {"enqueue", "collect"}
                      /\ \E k \in DOMAIN mine'[c] :
                            mine'[c][k] = i /\ (pc'[c] = "collect" => k > at'[c])
    BY DEF OwnerOK
  <1>1. /\ tasks[i].kind = "broadcast" /\ tasks[i].state # "value"
        /\ tasks'[i].owner = tasks[i].owner
    BY DEF TasksKeep
  <1>2. PICK c \in Clients : c = tasks[i].owner
    BY <1>1 DEF OwnerOK
  <1>3. PICK k \in DOMAIN mine[c] : mine[c][k] = i /\ (pc[c] = "collect" => k > at[c])
    BY <1>1, <1>2 DEF OwnerOK
  <1>4. pc[c] \in {"enqueue", "collect"}
    BY <1>1, <1>2 DEF OwnerOK
  <1> QED
    BY <1>1, <1>2, <1>3, <1>4 DEF StillWaits

(* A worker that does not move keeps its share.                            *)
LEMMA ShareKept ==
    ASSUME LaunchInv, UNCHANGED env, NEW q \in Qpus, ShareOK(q),
           pc'[q] = pc[q], arg'[q] = arg[q], op'[q] = op[q], hPc'[q] = hPc[q],
           op[q] \in 1 .. Len(tasks) => /\ tasks'[op[q]].kind = tasks[op[q]].kind
                                        /\ tasks'[op[q]].out = tasks[op[q]].out
    PROVE  ShareOK(q)'
  <1>1. /\ lowerBound(q)' = lowerBound(q) /\ upperBound(q)' = upperBound(q)
        /\ nExecsPerQpu' = nExecsPerQpu
    BY DEF lowerBound, upperBound, nExecsPerQpu
  <1>2. hPc[q] = "run" => op[q] \in 1 .. Len(tasks)
    BY TaskIds
  <1> HIDE DEF lowerBound, upperBound, nExecsPerQpu
  <1> QED
    BY <1>1, <1>2 DEF ShareOK, Runs, Block

(* The futures that c had are as they were.                                *)
LEMMA FutureKept ==
    ASSUME LaunchInv, UNCHANGED env, TasksKeep, NEW c \in Clients, FutureOK(c),
           mine'[c] = mine[c],
           \A i \in 1 .. Len(tasks) :
              /\ \A q \in Qpus : Holds(q, i)' => Holds(q, i)
              /\ tasks[i].kind = "broadcast" /\ tasks'[i].state = "value" =>
                    tasks[i].state = "value" /\ tasks'[i].out = tasks[i].out
    PROVE  FutureOK(c)'
  <1>1. \A k : /\ lowerBound(k)' = lowerBound(k)
               /\ nExecsPerQpu' = nExecsPerQpu
    BY DEF lowerBound, nExecsPerQpu
  <1>2. \A k \in DOMAIN mine[c] : mine[c][k] \in 1 .. Len(tasks)
    BY TaskIds
  <1> SUFFICES ASSUME NEW k \in DOMAIN mine[c]
               PROVE  /\ tasks'[mine[c][k]].kind = "broadcast"
                      /\ \A q \in Qpus : Holds(q, mine[c][k])' => q = k - 1
                      /\ tasks'[mine[c][k]].state = "value" =>
                            tasks'[mine[c][k]].out = Block(lowerBound(k - 1), nExecsPerQpu)
    BY <1>1 DEF FutureOK, Block
  <1>3. PICK i \in 1 .. Len(tasks) : i = mine[c][k]
    BY <1>2
  <1>4. tasks[i].kind = "broadcast" /\ tasks'[i].kind = "broadcast"
    BY <1>3 DEF FutureOK, TasksKeep
  <1>5. \A q \in Qpus : Holds(q, i)' => q = k - 1
    BY <1>3 DEF FutureOK
  <1>6. tasks'[i].state = "value" => tasks'[i].out = Block(lowerBound(k - 1), nExecsPerQpu)
    BY <1>3, <1>4 DEF FutureOK
  <1> QED
    BY <1>3, <1>4, <1>5, <1>6 DEF Holds

LEMMA ResultKept ==
    ASSUME UNCHANGED env, NEW c \in Clients, ResultOK(c),
           pc'[c] = pc[c], results'[c] = results[c], at'[c] = at[c]
    PROVE  ResultOK(c)'
  <1>1. nExecsPerQpu' = nExecsPerQpu
    BY DEF nExecsPerQpu
  <1> QED
    BY <1>1 DEF ResultOK, Block

(* A step of thread t.                                                     *)
LEMMA StepShared ==
    ASSUME LaunchInv, BroadcastInv, UNCHANGED env, TasksKeep, TasksPlaced', NEW t,
           \A q \in Qpus : q # t =>
              /\ pc'[q] = pc[q] /\ arg'[q] = arg[q] /\ op'[q] = op[q] /\ hPc'[q] = hPc[q]
              /\ op[q] \in 1 .. Len(tasks) => tasks'[op[q]].out = tasks[op[q]].out,
           \A c \in Clients : c # t =>
              /\ pc'[c] = pc[c] /\ results'[c] = results[c] /\ at'[c] = at[c]
              /\ mine'[c] = mine[c],
           t \in Qpus => ShareOK(t)',
           t \in Clients => ResultOK(t)' /\ (NoCloser => StillWaits(t)),
           \A c \in Clients : FutureOK(c)',
           NoCloser => UNCHANGED <<sPc, quit>>,
           NoCloser => \A i \in DOMAIN tasks' :
              \/ i \in 1 .. Len(tasks) /\ (tasks[i].state # "broken" => tasks'[i].state # "broken")
              \/ tasks'[i].state # "broken" /\ OwnerOK(i)'
    PROVE  BroadcastInv'
  <1>1. \A q \in Qpus : ShareOK(q)'
    <2> SUFFICES ASSUME NEW q \in Qpus, q # t PROVE ShareOK(q)'
      OBVIOUS
    <2>1. op[q] \in 1 .. Len(tasks) => tasks'[op[q]].kind = tasks[op[q]].kind
      BY DEF TasksKeep
    <2>2. ShareOK(q)
      BY ByBroadcast
    <2> QED
      BY <2>1, <2>2, ShareKept
  <1>2. \A c \in Clients : ResultOK(c)'
    BY ByBroadcast, ResultKept
  <1>3. NoCloser' => /\ \A s \in Closers : sPc'[s] = "idle"
                     /\ \A q \in Qpus : ~quit'[q]
                     /\ \A i \in DOMAIN tasks' : tasks'[i].state # "broken" /\ OwnerOK(i)'
    <2> SUFFICES ASSUME NoCloser
                 PROVE  /\ \A s \in Closers : sPc'[s] = "idle"
                        /\ \A q \in Qpus : ~quit'[q]
                        /\ \A i \in DOMAIN tasks' :
                              tasks'[i].state # "broken" /\ OwnerOK(i)'
      BY DEF NoCloser
    <2>1. /\ \A s \in Closers : sPc[s] = "idle"
          /\ \A q \in Qpus : ~quit[q]
          /\ \A i \in DOMAIN tasks : tasks[i].state # "broken" /\ OwnerOK(i)
      BY ByBroadcast
    <2>2. \A c \in Clients : StillWaits(c)
      BY DEF StillWaits
    <2>3. \A i \in 1 .. Len(tasks) : OwnerOK(i)'
      BY <2>1, <2>2, OwnerKept, TaskIds
    <2> QED
      BY <2>1, <2>3, TaskIds
  <1>4. TasksPlaced' /\ \A c \in Clients : FutureOK(c)'
    OBVIOUS
  <1>5. BroadcastParts'
    BY <1>1, <1>2, <1>3, <1>4 DEF BroadcastParts
  <1> QED
    BY <1>5, ByParts, PTL

(* The tasks stay where they are.                                          *)
LEMMA PlacedKept ==
    ASSUME LaunchInv, TasksPlaced, UNCHANGED <<tasks, queue, op>>,
           \A c \in Clients : pc'[c] \in Sampling => pc[c] \in Sampling /\ awaits'[c] = awaits[c]
    PROVE  TasksPlaced'
  BY DEF TasksPlaced, Holds

(* A step of thread t that makes and settles no task.                      *)
LEMMA LocalShared ==
    ASSUME LaunchInv, BroadcastInv, UNCHANGED <<env, tasks, queueVars>>, NEW t,
           \A q \in Qpus : q # t => pc'[q] = pc[q] /\ arg'[q] = arg[q],
           \A c \in Clients : c # t =>
              /\ pc'[c] = pc[c] /\ results'[c] = results[c] /\ at'[c] = at[c]
              /\ mine'[c] = mine[c] /\ awaits'[c] = awaits[c],
           t \in Qpus => ShareOK(t)',
           t \in Clients => /\ ResultOK(t)' /\ FutureOK(t)'
                            /\ pc'[t] \in Sampling =>
                                  pc[t] \in Sampling /\ awaits'[t] = awaits[t]
                            /\ NoCloser => StillWaits(t)
    PROVE  BroadcastInv'
  <1>1. UNCHANGED <<quit, queue, hPc, op, sPc>>
    BY DEF queueVars, workerVars, closerVars
  <1>2. TasksPlaced'
    BY <1>1, PlacedKept, ByBroadcast
  <1>3. TasksKeep
    BY TaskIds DEF TasksKeep
  <1>4. \A c \in Clients : FutureOK(c)'
    <2> SUFFICES ASSUME NEW c \in Clients, c # t PROVE FutureOK(c)'
      OBVIOUS
    <2>1. \A i \in 1 .. Len(tasks), q \in Qpus : Holds(q, i)' => Holds(q, i)
      BY <1>1 DEF Holds
    <2>2. FutureOK(c) /\ mine'[c] = mine[c]
      BY ByBroadcast
    <2> QED
      BY <1>3, <2>1, <2>2, FutureKept
  <1> QED
    BY <1>1, <1>2, <1>3, <1>4, StepShared, TaskIds

(* Steps that only move a thread on, within a task or a call.              *)
LEMMA MoveShared ==
    ASSUME LaunchInv, BroadcastInv, NEW t \in Threads, NEW p, Goto(t, p),
           UNCHANGED <<env, tasks, awaits, arg, mine, results, queueVars>>,
           \A u \in Threads : u # t => at'[u] = at[u],
           pc[t] \notin {"enqueue", "collect"}, p \notin {"begin", "enqueue", "collect"},
           \/ t \in Clients /\ (p \in Sampling => pc[t] \in Sampling)
           \/ t \in Qpus /\ ~Runs(t, "broadcast")
           \/ t \in Qpus /\ p = "idle"
           \/ /\ t \in Qpus /\ p # "resolveOk"
              /\ pc[t] \in Sampling \cup {"seeding", "seedWait"}
    PROVE  BroadcastInv'
  <1>1. /\ pc'[t] = p /\ \A u \in Threads : u # t => pc'[u] = pc[u]
    BY ByThread DEF Goto, LaunchTypeOK
  <1>2. UNCHANGED <<op, hPc, queue>>
    BY DEF queueVars, workerVars
  <1>3. t \in Qpus => ShareOK(t)'
    <2> SUFFICES ASSUME t \in Qpus PROVE ShareOK(t)'
      OBVIOUS
    <2>1. ShareOK(t) /\ (Runs(t, "broadcast")' => Runs(t, "broadcast"))
      BY <1>2, ByBroadcast DEF Runs
    <2>2. /\ lowerBound(t)' = lowerBound(t) /\ upperBound(t)' = upperBound(t)
          /\ nExecsPerQpu' = nExecsPerQpu
      BY DEF lowerBound, upperBound, nExecsPerQpu
    <2> HIDE DEF lowerBound, upperBound, nExecsPerQpu
    <2>3. t \notin Clients
      BY WhoRuns
    <2>4. CASE ~Runs(t, "broadcast")
      BY <2>1, <2>4 DEF ShareOK
    <2>5. CASE p = "idle"
      BY <1>1, <2>5 DEF ShareOK, Sampling
    <2>6. CASE /\ p \notin {"begin", "resolveOk"}
               /\ pc[t] \in Sampling \cup {"seeding", "seedWait"}
      BY <1>1, <1>2, <2>1, <2>2, <2>6 DEF ShareOK, Block
    <2> QED
      BY <2>3, <2>4, <2>5, <2>6
  <1>4. t \in Clients => ResultOK(t)' /\ FutureOK(t)' /\ StillWaits(t)
    <2> SUFFICES ASSUME t \in Clients PROVE ResultOK(t)' /\ FutureOK(t)' /\ StillWaits(t)
      OBVIOUS
    <2>1. ResultOK(t) /\ FutureOK(t)
      BY ByBroadcast
    <2>2. ResultOK(t)'
      <3>1. nExecsPerQpu' = nExecsPerQpu
        BY DEF nExecsPerQpu
      <3> QED
        BY <1>1, <2>1, <3>1 DEF ResultOK, Block
    <2>3. StillWaits(t)
      BY DEF StillWaits
    <2>4. TasksKeep /\ \A i \in 1 .. Len(tasks), q \in Qpus : Holds(q, i)' => Holds(q, i)
      BY <1>2, TaskIds DEF TasksKeep, Holds
    <2> QED
      BY <2>1, <2>2, <2>3, <2>4, FutureKept
  <1>5. t \in Clients => (p \in Sampling => pc[t] \in Sampling)
    BY WhoRuns
  <1> QED
    BY <1>1, <1>3, <1>4, <1>5, WhoRuns, LocalShared

LEMMA NothingShared ==
    ASSUME LaunchInv, BroadcastInv, UNCHANGED <<env, launchVars, queueVars>>
    PROVE  BroadcastInv'
  <1>1. /\ UNCHANGED <<tasks, pc, at, awaits, arg, mine, results>>
        /\ UNCHANGED <<hPc, op>>
    BY DEF launchVars, queueVars, workerVars
  <1>2. ShareOK(0)' /\ 0 \in Qpus /\ 0 \notin Clients
    BY <1>1, WhoRuns, ByBroadcast, ShareKept
  <1> QED
    BY <1>1, <1>2, LocalShared

LEMMA SamplingShared ==
    ASSUME LaunchInv, BroadcastInv, NEW t \in Threads, runSampling(t)
    PROVE  BroadcastInv'
  <1>1. /\ UNCHANGED <<env, tasks, awaits, arg, mine, results, queueVars, at>>
        /\ pc[t] \in {"preamble", "launch", "cache", "execute"}
    BY DEF runSampling, preamble, launch, inCache, execute
  <1>2. PICK p \in {"launch", "cache", "execute", "ok", "threw"} : Goto(t, p)
    <2>1. CASE UNCHANGED pc /\ pc[t] = "cache"
      BY <2>1, ByThread DEF Goto, LaunchTypeOK
    <2> QED
      BY <2>1 DEF runSampling, preamble, launch, inCache, execute
  <1>3. p \in Sampling /\ pc[t] \in Sampling /\ p # "resolveOk"
    BY <1>1 DEF Sampling
  <1> QED
    BY <1>1, <1>2, <1>3, WhoRuns, MoveShared

LEMMA SampleStepsShared ==
    ASSUME LaunchInv, BroadcastInv, NEW q \in Qpus, sampleBegin(q) \/ sampleEnd(q)
    PROVE  BroadcastInv'
  <1>1. /\ UNCHANGED <<env, tasks, awaits, arg, mine, results, queueVars, at>>
        /\ pc[q] \in {"begin", "ok", "threw"} /\ ~Runs(q, "broadcast")
    BY DEF sampleBegin, sampleEnd, Runs
  <1>2. PICK p \in {"preamble", "resolveOk", "resolveThrew"} : Goto(q, p)
    BY DEF sampleBegin, sampleEnd
  <1> QED
    BY <1>1, <1>2, WhoRuns, MoveShared

LEMMA SeedMovesShared ==
    ASSUME LaunchInv, BroadcastInv, NEW t \in Threads,
           \/ seedRefused(t) \/ seedWaited(t) \/ seeded(t)
           \/ t \in Clients /\ callSetRandomSeed(t)
           \/ seedNext(t) /\ UNCHANGED <<tasks, pc, awaits, queueVars>>
    PROVE  BroadcastInv'
  <1>1. /\ UNCHANGED <<env, tasks, awaits, arg, mine, results, queueVars>>
        /\ \A u \in Threads : u # t => at'[u] = at[u]
    <2>1. /\ UNCHANGED <<env, tasks, awaits, arg, mine, results, queueVars>>
          /\ \/ UNCHANGED at \/ at' = [at EXCEPT ![t] = @ + 1]
             \/ at' = [at EXCEPT ![t] = 0] \/ queue' # queue
      BY DEF seedRefused, seedWaited, seeded, callSetRandomSeed, seedNext
    <2>2. UNCHANGED queue
      BY <2>1 DEF queueVars, workerVars
    <2> QED
      BY <2>1, <2>2, ByThread DEF LaunchTypeOK
  <1>2. pc[t] \in {"seeding", "seedWait"} \/ (pc[t] = "idle" /\ t \in Clients)
    BY DEF seedRefused, seedWaited, seeded, callSetRandomSeed, Idle, seedNext
  <1>3. PICK p \in {"idle", "seeding", "preamble"} :
          Goto(t, p) /\ (t \in Clients => p # "preamble")
    <2>1. CASE UNCHANGED pc /\ pc[t] = "seeding"
      BY <2>1, ByThread DEF Goto, LaunchTypeOK
    <2> QED
      BY <2>1, WhoRuns DEF seedRefused, seedWaited, seeded, callSetRandomSeed, seedNext
  <1>4. t \in Clients => p \notin Sampling
    BY <1>3 DEF Sampling
  <1> QED
    BY <1>1, <1>2, <1>3, <1>4, WhoRuns, MoveShared

(* A submitted task is a new one, and goes behind the others.              *)
LEMMA SubmitPlaces ==
    ASSUME LaunchInv, NEW q \in Qpus, NEW x \in Tasks, submit(q, x),
           NEW n \in Nat, n = Len(tasks) + 1
    PROVE  /\ DOMAIN tasks' = 1 .. Len(tasks) + 1 /\ tasks'[Len(tasks) + 1] = x
           /\ \A i \in 1 .. Len(tasks) : tasks'[i] = tasks[i]
           /\ UNCHANGED <<op, hPc, quit, sPc>>
           /\ \A r \in Qpus : \A j \in DOMAIN queue'[r] :
                 \/ j \in DOMAIN queue[r] /\ queue'[r][j] = queue[r][j]
                 \/ r = q /\ j = Len(queue[q]) + 1 /\ queue'[r][j] = Len(tasks) + 1
           /\ \A r \in Qpus :
                 /\ \A i \in 1 .. Len(tasks) : Holds(r, i)' => Holds(r, i)
                 /\ Holds(r, n)' => r = q
  <1>1. /\ tasks' = Append(tasks, x) /\ queue' = [queue EXCEPT ![q] = Append(@, n)]
        /\ UNCHANGED <<op, hPc, quit, sPc>>
    BY DEF submit, push, closerVars
  <1>2. /\ tasks \in Seq(Tasks) /\ Len(tasks) \in Nat /\ queue[q] \in Seq(1 .. Len(tasks))
        /\ queue \in [Qpus -> Seq(1 .. Len(tasks))]
    BY TaskIds, ByThread DEF QueueTypeOK
  <1>3. /\ DOMAIN tasks' = 1 .. Len(tasks) + 1 /\ tasks'[Len(tasks) + 1] = x
        /\ \A i \in 1 .. Len(tasks) : tasks'[i] = tasks[i]
    BY <1>1, <1>2
  <1>4. \A r \in Qpus : \A j \in DOMAIN queue'[r] :
          \/ j \in DOMAIN queue[r] /\ queue'[r][j] = queue[r][j]
          \/ r = q /\ j = Len(queue[q]) + 1 /\ queue'[r][j] = Len(tasks) + 1
    <2>1. \A r \in Qpus : r # q => queue'[r] = queue[r]
      BY <1>1, <1>2
    <2>2. queue'[q] = Append(queue[q], n)
      BY <1>1, <1>2
    <2>4. queue[q] \in Seq(Nat)
      BY <1>2, SeqGrows
    <2>5. \A j \in DOMAIN Append(queue[q], n) :
            \/ j \in DOMAIN queue[q] /\ Append(queue[q], n)[j] = queue[q][j]
            \/ j = Len(queue[q]) + 1 /\ Append(queue[q], n)[j] = n
      BY <2>4
    <2> QED
      BY <2>1, <2>2, <2>5
  <1>5. /\ \A r \in Qpus : op[r] \in (1 .. Len(tasks)) \cup {0}
        /\ \A r \in Qpus : \A j \in DOMAIN queue[r] : queue[r][j] \in 1 .. Len(tasks)
        /\ Len(tasks) + 1 \notin (1 .. Len(tasks)) \cup {0}
    BY <1>2, TaskIds
  <1>6. \A r \in Qpus :
          /\ \A i \in 1 .. Len(tasks) : Holds(r, i)' => Holds(r, i)
          /\ Holds(r, n)' => r = q
    <2>1. ASSUME NEW r \in Qpus, NEW i \in 1 .. Len(tasks), Holds(r, i)'
          PROVE  Holds(r, i)
      BY <1>1, <1>4, <1>5, <2>1 DEF Holds
    <2>2. ASSUME NEW r \in Qpus, Holds(r, n)'
          PROVE  r = q
      BY <1>1, <1>4, <1>5, <2>2 DEF Holds
    <2> QED
      BY <2>1, <2>2 DEF Holds
  <1> QED
    BY <1>1, <1>3, <1>4, <1>6

LEMMA SubmitShared ==
    ASSUME LaunchInv, BroadcastInv, NEW q \in Qpus, NEW x \in Tasks, submit(q, x),
           x.kind # "sync", x.state = "pending", x.out = << >>, NEW t \in Threads,
           NEW n \in Nat, n = Len(tasks) + 1,
           UNCHANGED <<env, arg, results>>, pc'[t] \notin Sampling,
           \A u \in Threads : u # t => /\ pc'[u] = pc[u] /\ at'[u] = at[u]
                                       /\ awaits'[u] = awaits[u],
           \A c \in Clients : c # t => mine'[c] = mine[c],
           t \in Qpus => pc[t] = "seeding" /\ pc'[t] = "seedWait",
           t \in Clients => /\ ResultOK(t)' /\ (mine'[t] = mine[t] \/ FutureOK(t)')
                            /\ NoCloser => StillWaits(t),
           NoCloser => OwnerOK(n)'
    PROVE  BroadcastInv'
  <1>1. /\ DOMAIN tasks' = 1 .. n /\ tasks'[n] = x
        /\ \A i \in 1 .. Len(tasks) : tasks'[i] = tasks[i]
        /\ UNCHANGED <<op, hPc, quit, sPc>>
        /\ \A r \in Qpus : \A j \in DOMAIN queue'[r] :
              \/ j \in DOMAIN queue[r] /\ queue'[r][j] = queue[r][j]
              \/ r = q /\ j = Len(queue[q]) + 1 /\ queue'[r][j] = n
        /\ \A r \in Qpus :
              /\ \A i \in 1 .. Len(tasks) : Holds(r, i)' => Holds(r, i)
              /\ Holds(r, n)' => r = q
    BY SubmitPlaces
  <1>2. /\ Len(tasks) \in Nat /\ DOMAIN tasks = 1 .. Len(tasks) /\ n \notin 1 .. Len(tasks)
        /\ \A i \in 1 .. n : i \in 1 .. Len(tasks) \/ i = n
        /\ 1 .. Len(tasks) \subseteq 1 .. n /\ n # 0
    BY TaskIds
  <1>3. TasksKeep
    BY <1>1, <1>2 DEF TasksKeep
  <1>4. TasksPlaced'
    <2>0. TasksPlaced
      BY ByBroadcast
    <2>1. \A r, s \in Qpus, i \in 1 .. n : Holds(r, i)' /\ Holds(s, i)' => r = s
      <3> SUFFICES ASSUME NEW r \in Qpus, NEW s \in Qpus, NEW i \in 1 .. n,
                          Holds(r, i)', Holds(s, i)'
                   PROVE  r = s
        BY DEF Holds
      <3>1. CASE i = n
        <4>1. Holds(r, n)' /\ Holds(s, n)'
          BY <3>1 DEF Holds
        <4> QED
          BY <1>1, <4>1
      <3>2. CASE i \in 1 .. Len(tasks)
        BY <1>1, <1>2, <2>0, <3>2 DEF TasksPlaced
      <3> QED
        BY <1>2, <3>1, <3>2
    <2>2. \A r \in Qpus, i \in 1 .. n :
            Holds(r, i)' => tasks'[i].state = "pending" /\ tasks'[i].kind # "sync"
      <3> SUFFICES ASSUME NEW r \in Qpus, NEW i \in 1 .. n, Holds(r, i)'
                   PROVE  tasks'[i].state = "pending" /\ tasks'[i].kind # "sync"
        BY DEF Holds
      <3>1. CASE i = n
        BY <1>1, <3>1
      <3>2. CASE i \in 1 .. Len(tasks)
        <4>1. Holds(r, i)
          BY <1>1, <3>2
        <4> QED
          BY <1>1, <1>2, <2>0, <3>2, <4>1 DEF TasksPlaced
      <3> QED
        BY <1>2, <3>1, <3>2
    <2>3. \A r \in Qpus : \A j \in DOMAIN queue'[r] :
            /\ queue'[r][j] # op'[r] /\ tasks'[queue'[r][j]].out = << >>
            /\ \A k \in DOMAIN queue'[r] : queue'[r][j] = queue'[r][k] => j = k
      <3> SUFFICES ASSUME NEW r \in Qpus, NEW j \in DOMAIN queue'[r]
                   PROVE  /\ queue'[r][j] # op'[r] /\ tasks'[queue'[r][j]].out = << >>
                          /\ \A k \in DOMAIN queue'[r] :
                                queue'[r][j] = queue'[r][k] => j = k
        OBVIOUS
      <3>1. /\ op'[r] = op[r] /\ op[r] # n
            /\ \A k \in DOMAIN queue[r] : queue[r][k] # n /\ queue[r][k] \in 1 .. Len(tasks)
        BY <1>1, <1>2, TaskIds
      <3>2. \A k \in DOMAIN queue[r] :
              /\ queue[r][k] # op[r] /\ tasks[queue[r][k]].out = << >>
              /\ \A l \in DOMAIN queue[r] : queue[r][k] = queue[r][l] => k = l
        BY <2>0 DEF TasksPlaced
      <3>3. CASE j \in DOMAIN queue[r] /\ queue'[r][j] = queue[r][j]
        BY <1>1, <3>1, <3>2, <3>3
      <3>4. CASE j = Len(queue[q]) + 1 /\ queue'[r][j] = n /\ r = q
        BY <1>1, <3>1, <3>4
      <3> QED
        BY <1>1, <3>3, <3>4
    <2>4. \A c \in Clients : pc'[c] \in Sampling => tasks'[awaits'[c]].kind = "sync"
      <3> SUFFICES ASSUME NEW c \in Clients, c # t, pc[c] \in Sampling, awaits'[c] = awaits[c]
                   PROVE  tasks'[awaits[c]].kind = "sync"
        BY WhoRuns
      <3>1. awaits[c] \in 1 .. Len(tasks)
        BY TaskIds
      <3> QED
        BY <1>1, <2>0, <3>1 DEF TasksPlaced
    <2> QED
      BY <1>1, <2>1, <2>2, <2>3, <2>4 DEF TasksPlaced
  <1>5. \A c \in Clients : FutureOK(c)'
    <2> SUFFICES ASSUME NEW c \in Clients, mine'[c] = mine[c] PROVE FutureOK(c)'
      OBVIOUS
    <2>1. FutureOK(c)
      BY ByBroadcast
    <2> QED
      BY <1>1, <1>3, <2>1, FutureKept
  <1>6. t \in Qpus => ShareOK(t)'
    <2> SUFFICES ASSUME t \in Qpus PROVE ShareOK(t)'
      OBVIOUS
    <2>1. /\ lowerBound(t)' = lowerBound(t) /\ upperBound(t)' = upperBound(t)
          /\ nExecsPerQpu' = nExecsPerQpu
      BY DEF lowerBound, upperBound, nExecsPerQpu
    <2> HIDE DEF lowerBound, upperBound, nExecsPerQpu
    <2>2. ShareOK(t) /\ (hPc[t] = "run" => op[t] \in 1 .. Len(tasks))
      BY ByBroadcast, TaskIds
    <2>3. hPc[t] = "run" => tasks'[op[t]] = tasks[op[t]]
      BY <1>1, <2>2
    <2> QED
      BY <1>1, <2>1, <2>2, <2>3 DEF ShareOK, Runs, Block
  <1>7. \A c \in Clients : c # t =>
              /\ pc'[c] = pc[c] /\ results'[c] = results[c] /\ at'[c] = at[c]
              /\ mine'[c] = mine[c]
    BY WhoRuns
  <1>8. \A r \in Qpus : r # t =>
              /\ pc'[r] = pc[r] /\ arg'[r] = arg[r] /\ op'[r] = op[r] /\ hPc'[r] = hPc[r]
              /\ op[r] \in 1 .. Len(tasks) => tasks'[op[r]].out = tasks[op[r]].out
    BY <1>1, WhoRuns
  <1>9. NoCloser => \A i \in DOMAIN tasks' :
              \/ i \in 1 .. Len(tasks) /\ (tasks[i].state # "broken" => tasks'[i].state # "broken")
              \/ tasks'[i].state # "broken" /\ OwnerOK(i)'
    <2> SUFFICES ASSUME NoCloser, NEW i \in 1 .. n, i \notin 1 .. Len(tasks)
                 PROVE  tasks'[i].state # "broken" /\ OwnerOK(i)'
      BY <1>1
    <2> QED
      BY <1>1, <1>2 DEF OwnerOK
  <1> QED
    BY <1>1, <1>3, <1>4, <1>5, <1>6, <1>7, <1>8, <1>9, StepShared

LEMMA SeedSubmitShared ==
    ASSUME LaunchInv, BroadcastInv, NEW t \in Threads, seedNext(t),
           submit(at[t], MakeTask("seed", FALSE, NoKey, t)),
           awaits' = [awaits EXCEPT ![t] = Len(tasks) + 1],
           Goto(t, "seedWait"), UNCHANGED at
    PROVE  BroadcastInv'
  <1> DEFINE x == MakeTask("seed", FALSE, NoKey, t)
  <1>1. /\ x \in Tasks /\ x.kind = "seed" /\ x.state = "pending" /\ x.out = << >>
    <2>1. x \in Tasks
      BY MadeTask
    <2> QED
      BY <2>1 DEF MakeTask
  <1>2. /\ LaunchTypeOK /\ pc[t] = "seeding" /\ UNCHANGED <<env, arg, results, mine>>
        /\ pc' = [pc EXCEPT ![t] = "seedWait"] /\ at[t] < NumQpus
    BY ByThread DEF seedNext, Goto
  <1>3. at[t] \in Qpus
    BY <1>2, WhoRuns DEF LaunchTypeOK
  <1>4. /\ pc'[t] = "seedWait"
        /\ \A u \in Threads : u # t => /\ pc'[u] = pc[u] /\ at'[u] = at[u]
                                       /\ awaits'[u] = awaits[u]
    BY <1>2 DEF LaunchTypeOK
  <1>5. t \in Clients => ResultOK(t)' /\ StillWaits(t)
    <2>1. nExecsPerQpu' = nExecsPerQpu
      BY <1>2 DEF nExecsPerQpu
    <2> QED
      BY <1>2, <1>4, <2>1, ByBroadcast DEF ResultOK, Block, StillWaits
  <1>6. PICK n \in Nat : n = Len(tasks) + 1
    BY TaskIds
  <1>7. submit(at[t], x)
    OBVIOUS
  <1> HIDE DEF x
  <1>8. OwnerOK(n)'
    <2>1. tasks'[n] = x
      BY <1>1, <1>3, <1>6, <1>7, SubmitPlaces
    <2> QED
      BY <1>1, <2>1 DEF OwnerOK
  <1>9. "seedWait" \notin Sampling
    BY DEF Sampling
  <1> QED
    BY <1>1, <1>2, <1>3, <1>4, <1>5, <1>6, <1>7, <1>8, <1>9, SubmitShared

LEMMA SeedShared ==
    ASSUME LaunchInv, BroadcastInv, NEW t \in Threads, setRandomSeed(t)
    PROVE  BroadcastInv'
  <1>1. CASE seedNext(t)
    BY <1>1, SeedSubmitShared, SeedMovesShared DEF seedNext
  <1> QED
    BY <1>1, SeedMovesShared DEF setRandomSeed

LEMMA SampleAsyncShared ==
    ASSUME LaunchInv, BroadcastInv, NEW c \in Clients, sampleAsync(c)
    PROVE  BroadcastInv'
  <1>1. PICK q \in Qpus, l \in env.launches :
          submit(q, MakeTask("sample", l.noisy, l.key, c))
    BY DEF sampleAsync
  <1> DEFINE x == MakeTask("sample", l.noisy, l.key, c)
  <1>2. /\ UNCHANGED <<env, pc, at, awaits, arg, mine, results>> /\ pc[c] = "idle"
        /\ c \in Threads /\ c \notin Qpus
    BY WhoRuns DEF sampleAsync, Idle
  <1>3. x \in Tasks /\ x.kind = "sample" /\ x.state = "pending" /\ x.out = << >>
    <2>1. l.noisy \in BOOLEAN /\ l.key \in Keys \cup {NoKey}
      BY ByThread, LaunchAssumption DEF LaunchTypeOK
    <2> QED
      BY <1>2, <2>1, MadeTask DEF MakeTask
  <1>4. ResultOK(c)' /\ StillWaits(c)
    BY <1>2, ByBroadcast, ResultKept DEF StillWaits
  <1>5. PICK n \in Nat : n = Len(tasks) + 1
    BY TaskIds
  <1>6. submit(q, x)
    BY <1>1
  <1> HIDE DEF x
  <1>7. OwnerOK(n)'
    <2>1. tasks'[n] = x
      BY <1>3, <1>5, <1>6, SubmitPlaces
    <2> QED
      BY <1>3, <2>1 DEF OwnerOK
  <1>8. "idle" \notin Sampling
    BY DEF Sampling
  <1> QED
    BY <1>2, <1>3, <1>4, <1>5, <1>6, <1>7, <1>8, SubmitShared

(* The client goes on to the next QPU with one more future, of this QPU.   *)
LEMMA EnqueueShared ==
    ASSUME LaunchInv, BroadcastInv, NEW c \in Clients, broadcastEnqueue(c)
    PROVE  BroadcastInv'
  <1>1. /\ LaunchTypeOK /\ ThreadOK(c) /\ c \in Threads /\ c \notin Qpus
        /\ pc[c] = "enqueue" /\ at[c] < NumQpus
        /\ UNCHANGED <<env, noise, ctx, awaits, arg, results, terminated, cacheVars>>
    BY ByThread, WhoRuns DEF broadcastEnqueue
  <1>2. at[c] \in Qpus /\ at[c] \in Nat /\ Len(mine[c]) = at[c]
    BY <1>1, WhoRuns DEF LaunchTypeOK, ThreadOK
  <1>3. CASE /\ submit(at[c], MakeTask("broadcast", FALSE, NoKey, c))
             /\ mine' = [mine EXCEPT ![c] = Append(@, Len(tasks) + 1)]
             /\ at' = [at EXCEPT ![c] = @ + 1] /\ UNCHANGED pc
    <2> DEFINE x == MakeTask("broadcast", FALSE, NoKey, c)
    <2>1. /\ x \in Tasks /\ x.kind = "broadcast" /\ x.state = "pending" /\ x.out = << >>
          /\ x.owner = c
      <3>1. x \in Tasks
        BY <1>1, MadeTask
      <3> QED
        BY <3>1 DEF MakeTask
    <2>2. PICK n \in Nat : n = Len(tasks) + 1
      BY TaskIds
    <2>3. submit(at[c], x)
      BY <1>3
    <2> HIDE DEF x
    <2>4. PICK q \in Qpus : q = at[c]
      BY <1>2
    <2>5. /\ tasks'[n] = x
          /\ \A i \in 1 .. Len(tasks) : tasks'[i] = tasks[i]
          /\ \A r \in Qpus :
                /\ \A i \in 1 .. Len(tasks) : Holds(r, i)' => Holds(r, i)
                /\ Holds(r, n)' => r = q
      BY <2>1, <2>2, <2>3, <2>4, SubmitPlaces
    <2>6. mine'[c] = Append(mine[c], n) /\ mine[c] \in Seq(1 .. Len(tasks))
      BY <1>1, <1>3, <2>2 DEF LaunchTypeOK
    <2>7. /\ DOMAIN mine'[c] = 1 .. q + 1 /\ DOMAIN mine[c] = 1 .. q
          /\ mine'[c][q + 1] = n /\ q \in Nat
          /\ \A k \in 1 .. q : mine'[c][k] = mine[c][k] /\ mine[c][k] \in 1 .. Len(tasks)
      <3>1. mine[c] \in Seq(Nat)
        BY <2>6, SeqGrows
      <3>2. Len(mine[c]) = q /\ q \in Nat
        BY <1>2, <2>4
      <3>3. /\ DOMAIN mine'[c] = 1 .. q + 1 /\ DOMAIN mine[c] = 1 .. q
            /\ mine'[c][q + 1] = n /\ q \in Nat
            /\ \A k \in 1 .. q : mine'[c][k] = mine[c][k]
        BY <2>6, <3>1, <3>2
      <3> QED
        BY <3>3, TaskIds
    <2>8. FutureOK(c)'
      <3>1. \A k : /\ lowerBound(k)' = lowerBound(k)
                   /\ nExecsPerQpu' = nExecsPerQpu
        BY <1>1 DEF lowerBound, nExecsPerQpu
      <3>2. FutureOK(c)
        BY ByBroadcast
      <3> SUFFICES ASSUME NEW k \in 1 .. q + 1
                   PROVE  /\ tasks'[mine'[c][k]].kind = "broadcast"
                          /\ \A r \in Qpus : Holds(r, mine[c][k])' => r = k - 1
                          /\ tasks'[mine'[c][k]].state = "value" =>
                               tasks'[mine'[c][k]].out = Block(lowerBound(k - 1), nExecsPerQpu)
        BY <2>7, <3>1 DEF FutureOK, Block
      <3>3. PICK i : i = mine'[c][k]
        OBVIOUS
      <3> SUFFICES /\ tasks'[i].kind = "broadcast"
                   /\ \A r \in Qpus : Holds(r, i)' => r = k - 1
                   /\ tasks'[i].state = "value" =>
                        tasks'[i].out = Block(lowerBound(k - 1), nExecsPerQpu)
        BY <3>3 DEF Holds
      <3>4. CASE k \in 1 .. q
        <4>1. i = mine[c][k] /\ i \in 1 .. Len(tasks) /\ k \in DOMAIN mine[c]
          BY <2>7, <3>3, <3>4
        <4>2. \A r \in Qpus : Holds(r, i) => r = k - 1
          BY <3>2, <4>1 DEF FutureOK, Holds
        <4>3. /\ tasks[i].kind = "broadcast"
              /\ tasks[i].state = "value" =>
                   tasks[i].out = Block(lowerBound(k - 1), nExecsPerQpu)
          BY <3>2, <4>1 DEF FutureOK
        <4> QED
          BY <2>5, <4>1, <4>2, <4>3
      <3>5. CASE k = q + 1
        <4>1. i = n /\ k - 1 = q
          BY <2>7, <3>3, <3>5
        <4> QED
          BY <2>1, <2>5, <4>1
      <3>6. k \in 1 .. q \/ k = q + 1
        BY <2>7
      <3> QED
        BY <3>4, <3>5, <3>6
    <2>9. pc'[c] = "enqueue" /\ ResultOK(c)' /\ StillWaits(c)
      <3>1. ResultOK(c) /\ pc'[c] = "enqueue"
        BY <1>1, <1>3, ByBroadcast
      <3>2. ResultOK(c)'
        BY <1>1, <3>1 DEF ResultOK
      <3>3. StillWaits(c)
        BY <2>7, <3>1 DEF StillWaits
      <3> QED
        BY <3>1, <3>2, <3>3
    <2>10. OwnerOK(n)'
      <3>1. q + 1 \in DOMAIN mine'[c]
        BY <2>7
      <3> QED
        BY <2>1, <2>5, <2>7, <2>9, <3>1 DEF OwnerOK
    <2>11. /\ \A u \in Threads : u # c => /\ pc'[u] = pc[u] /\ at'[u] = at[u]
                                          /\ awaits'[u] = awaits[u]
           /\ \A d \in Clients : d # c => mine'[d] = mine[d]
      BY <1>1, <1>3 DEF LaunchTypeOK
    <2>12. "enqueue" \notin Sampling /\ submit(q, x)
      BY <2>3, <2>4 DEF Sampling
    <2> QED
      BY <1>1, <2>1, <2>2, <2>8, <2>9, <2>10, <2>11, <2>12, SubmitShared
  <1>4. CASE /\ ~Accepts(at[c]) /\ Goto(c, "idle")
             /\ UNCHANGED <<tasks, mine, at, queueVars>>
    <2>1. /\ pc'[c] = "idle" /\ \A u \in Threads : u # c => pc'[u] = pc[u]
      BY <1>1, <1>4 DEF Goto, LaunchTypeOK
    <2>2. ~NoCloser
      BY <1>2, <1>4, ByBroadcast DEF Accepts
    <2>3. ResultOK(c)'
      BY <1>1, <2>1, ByBroadcast DEF ResultOK
    <2>4. FutureOK(c)'
      <3>1. TasksKeep
        BY <1>4, TaskIds DEF TasksKeep
      <3>2. \A i \in 1 .. Len(tasks), q \in Qpus : Holds(q, i)' => Holds(q, i)
        BY <1>4 DEF Holds, queueVars, workerVars
      <3> QED
        BY <1>1, <1>4, <3>1, <3>2, ByBroadcast, FutureKept
    <2>5. "idle" \notin Sampling
      BY DEF Sampling
    <2> QED
      BY <1>1, <1>4, <2>1, <2>2, <2>3, <2>4, <2>5, WhoRuns, LocalShared
  <1> QED
    BY <1>1, <1>3, <1>4 DEF broadcastEnqueue

(* Tasks leave their places, and those that keep one are still pending.    *)
LEMMA PlacesLeft ==
    ASSUME LaunchInv, TasksPlaced, TasksKeep, DOMAIN tasks' = DOMAIN tasks,
           \A r \in Qpus, i \in 1 .. Len(tasks) :
              Holds(r, i)' => Holds(r, i) /\ tasks'[i].state = tasks[i].state,
           \A r \in Qpus : \A j \in DOMAIN queue'[r] :
              /\ queue'[r][j] # op'[r] /\ tasks'[queue'[r][j]].out = << >>
              /\ \A k \in DOMAIN queue'[r] : queue'[r][j] = queue'[r][k] => j = k,
           \A c \in Clients : pc'[c] \in Sampling => pc[c] \in Sampling /\ awaits'[c] = awaits[c]
    PROVE  TasksPlaced'
  <1>1. DOMAIN tasks' = 1 .. Len(tasks) /\ DOMAIN tasks = 1 .. Len(tasks)
    BY TaskIds
  <1>2. \A r, s \in Qpus, i \in 1 .. Len(tasks) : Holds(r, i)' /\ Holds(s, i)' => r = s
    BY <1>1 DEF TasksPlaced
  <1>3. \A r \in Qpus, i \in 1 .. Len(tasks) :
          Holds(r, i)' => tasks'[i].state = "pending" /\ tasks'[i].kind # "sync"
    BY <1>1 DEF TasksPlaced, TasksKeep
  <1>4. \A c \in Clients : pc'[c] \in Sampling => tasks'[awaits'[c]].kind = "sync"
    BY TaskIds DEF TasksPlaced, TasksKeep
  <1> QED
    BY <1>1, <1>2, <1>3, <1>4 DEF TasksPlaced

LEMMA TakeShared ==
    ASSUME LaunchInv, BroadcastInv, NEW q \in Qpus, take(q)
    PROVE  BroadcastInv'
  <1>1. /\ UNCHANGED <<env, tasks, at, awaits, arg, mine, results>>
        /\ queue[q] # << >> /\ op' = [op EXCEPT ![q] = Head(queue[q])]
        /\ queue' = [queue EXCEPT ![q] = Tail(@)] /\ hPc' = [hPc EXCEPT ![q] = "run"]
        /\ UNCHANGED <<quit, sPc>> /\ pc' = [pc EXCEPT ![q] = "begin"]
        /\ q \in Threads /\ q \notin Clients
    BY WhoRuns DEF take, takeTask, closerVars, Goto
  <1>2. LaunchTypeOK /\ QueueTypeOK(1 .. Len(tasks)) /\ TasksPlaced
    BY ByThread, ByBroadcast
  <1>3. /\ pc'[q] = "begin" /\ \A u \in Threads : u # q => pc'[u] = pc[u]
        /\ op'[q] = Head(queue[q]) /\ queue'[q] = Tail(queue[q])
        /\ \A r \in Qpus : r # q => /\ op'[r] = op[r] /\ queue'[r] = queue[r]
                                    /\ hPc'[r] = hPc[r]
    BY <1>1, <1>2 DEF LaunchTypeOK, QueueTypeOK
  <1>4. /\ 1 \in DOMAIN queue[q] /\ op'[q] = queue[q][1]
        /\ \A j \in DOMAIN queue'[q] :
              /\ j + 1 \in DOMAIN queue[q] /\ queue'[q][j] = queue[q][j + 1] /\ j \in Nat
              /\ j + 1 # 1
    <2>1. queue[q] \in Seq(1 .. Len(tasks))
      BY TaskIds
    <2>2. Len(queue[q]) # 0 /\ Len(queue[q]) \in Nat
      BY <1>1, <2>1, EmptySeq
    <2>3. /\ 1 \in DOMAIN queue[q] /\ Head(queue[q]) = queue[q][1]
      BY <2>1, <2>2
    <2>4. Tail(queue[q]) = [j \in 1 .. Len(queue[q]) - 1 |-> queue[q][j + 1]]
      BY <2>1, <2>2
    <2>5. \A j \in DOMAIN Tail(queue[q]) :
              j + 1 \in DOMAIN queue[q] /\ Tail(queue[q])[j] = queue[q][j + 1]
              /\ j \in Nat /\ j + 1 # 1
      BY <2>1, <2>2, <2>4
    <2> QED
      BY <1>3, <2>3, <2>5
  <1>5. \A r \in Qpus, i \in 1 .. Len(tasks) : Holds(r, i)' => Holds(r, i)
    <2> SUFFICES ASSUME NEW r \in Qpus, NEW i \in 1 .. Len(tasks), Holds(r, i)'
                 PROVE  Holds(r, i)
      BY DEF Holds
    <2>1. CASE r # q
      BY <1>3, <2>1 DEF Holds
    <2>2. ASSUME r = q, op'[q] = i PROVE Holds(q, i)
      BY <1>4, <2>2 DEF Holds
    <2>3. ASSUME r = q, NEW j \in DOMAIN queue'[q], queue'[q][j] = i PROVE Holds(q, i)
      <3>1. j + 1 \in DOMAIN queue[q] /\ queue[q][j + 1] = i
        BY <1>4, <2>3
      <3> QED
        BY <3>1 DEF Holds
    <2> QED
      BY <2>1, <2>2, <2>3 DEF Holds
  <1>6. TasksKeep
    BY <1>1, TaskIds DEF TasksKeep
  <1>7. \A r \in Qpus : \A j \in DOMAIN queue'[r] :
          /\ queue'[r][j] # op'[r] /\ tasks'[queue'[r][j]].out = << >>
          /\ \A k \in DOMAIN queue'[r] : queue'[r][j] = queue'[r][k] => j = k
    <2> SUFFICES ASSUME NEW r \in Qpus, NEW j \in DOMAIN queue'[r]
                 PROVE  /\ queue'[r][j] # op'[r] /\ tasks'[queue'[r][j]].out = << >>
                        /\ \A k \in DOMAIN queue'[r] : queue'[r][j] = queue'[r][k] => j = k
      OBVIOUS
    <2>1. \A k \in DOMAIN queue[r] :
            /\ queue[r][k] # op[r] /\ tasks[queue[r][k]].out = << >>
            /\ \A l \in DOMAIN queue[r] : queue[r][k] = queue[r][l] => k = l
      BY <1>2 DEF TasksPlaced
    <2>2. CASE r # q
      BY <1>1, <1>3, <2>1, <2>2
    <2>3. CASE r = q
      <3>1. queue'[q][j] # op'[q] /\ tasks'[queue'[q][j]].out = << >>
        <4>1. /\ j + 1 \in DOMAIN queue[q] /\ queue'[q][j] = queue[q][j + 1]
              /\ j + 1 # 1 /\ 1 \in DOMAIN queue[q] /\ op'[q] = queue[q][1]
          BY <1>4, <2>3
        <4>2. queue[q][j + 1] # queue[q][1] /\ tasks[queue[q][j + 1]].out = << >>
          BY <2>1, <2>3, <4>1
        <4> QED
          BY <1>1, <4>1, <4>2
      <3>2. ASSUME NEW k \in DOMAIN queue'[q], queue'[q][j] = queue'[q][k] PROVE j = k
        <4>1. j + 1 = k + 1 /\ j \in Nat /\ k \in Nat
          BY <1>4, <2>1, <2>3, <3>2
        <4> QED
          BY <4>1
      <3> QED
        BY <2>3, <3>1, <3>2
    <2> QED
      BY <2>2, <2>3
  <1>8. TasksPlaced'
    BY <1>1, <1>2, <1>3, <1>5, <1>6, <1>7, WhoRuns, PlacesLeft
  <1>9. \A c \in Clients : FutureOK(c)'
    BY <1>1, <1>5, <1>6, ByBroadcast, FutureKept
  <1>10. ShareOK(q)'
    <2>1. tasks'[op'[q]].out = << >>
      BY <1>1, <1>2, <1>4 DEF TasksPlaced
    <2> QED
      BY <1>3, <2>1 DEF ShareOK, Sampling
  <1> QED
    BY <1>1, <1>3, <1>6, <1>8, <1>9, <1>10, WhoRuns, StepShared, TaskIds

(* A worker's task is held by that worker, once.                           *)
LEMMA RunsHeld ==
    ASSUME LaunchInv, BroadcastInv, NEW q \in Qpus, hPc[q] = "run", NEW i, i = op[q]
    PROVE  /\ i \in 1 .. Len(tasks) /\ tasks[i] \in Tasks
           /\ tasks[i].state = "pending" /\ tasks[i].kind # "sync"
           /\ \A r \in Qpus : r # q => op[r] # i /\ ~Holds(r, i)
           /\ \A r \in Qpus : \A j \in DOMAIN queue[r] : queue[r][j] # i
           /\ \A c \in Clients : \A k \in DOMAIN mine[c] : mine[c][k] = i => q = k - 1
  <1>1. i \in 1 .. Len(tasks) /\ i \in DOMAIN tasks /\ tasks[i] \in Tasks
    BY TaskIds
  <1>2. Holds(q, i) /\ TasksPlaced
    BY ByBroadcast DEF Holds
  <1>3. \A r \in Qpus : r # q => ~Holds(r, i)
    BY <1>1, <1>2 DEF TasksPlaced
  <1>4. \A r \in Qpus : r # q => op[r] # i
    BY <1>3 DEF Holds
  <1>5. \A r \in Qpus : \A j \in DOMAIN queue[r] : queue[r][j] # i
    BY <1>2, <1>3 DEF TasksPlaced, Holds
  <1>6. \A c \in Clients : \A k \in DOMAIN mine[c] : mine[c][k] = i => q = k - 1
    BY <1>2, ByBroadcast DEF FutureOK
  <1>7. tasks[i].state = "pending" /\ tasks[i].kind # "sync"
    BY <1>1, <1>2 DEF TasksPlaced
  <1> QED
    BY <1>1, <1>3, <1>4, <1>5, <1>6, <1>7

LEMMA QuittedShared ==
    ASSUME LaunchInv, BroadcastInv, NEW q \in Qpus, quitted(q)
    PROVE  BroadcastInv'
  <1>1. /\ UNCHANGED <<env, tasks, pc, at, awaits, arg, mine, results, queue, op>>
        /\ UNCHANGED <<quit, sPc>> /\ hPc' = [hPc EXCEPT ![q] = "gone"]
    BY DEF quitted, launchVars, quitWorker, closerVars
  <1>2. hPc'[q] = "gone" /\ \A r \in Qpus : r # q => hPc'[r] = hPc[r]
    BY <1>1, ByThread DEF QueueTypeOK
  <1>3. TasksPlaced'
    BY <1>1, ByBroadcast, PlacedKept
  <1>4. TasksKeep /\ \A r \in Qpus, i \in 1 .. Len(tasks) : Holds(r, i)' => Holds(r, i)
    BY <1>1, TaskIds DEF TasksKeep, Holds
  <1>5. \A c \in Clients : FutureOK(c)'
    BY <1>1, <1>4, ByBroadcast, FutureKept
  <1>6. ShareOK(q)'
    BY <1>2 DEF ShareOK, Runs
  <1>7. q \notin Clients
    BY WhoRuns
  <1> QED
    BY <1>1, <1>2, <1>3, <1>4, <1>5, <1>6, <1>7, StepShared, TaskIds

(* The future of a share has its value when the whole share is done.       *)
LEMMA ResolveShared ==
    ASSUME LaunchInv, BroadcastInv, NEW q \in Qpus, NEW v \in {"value", "exception"},
           hPc[q] = "run", resolve(q, v),
           Runs(q, "broadcast") => pc[q] = "resolveOk" /\ v = "value"
    PROVE  BroadcastInv'
  <1>1. PICK o : o = op[q]
    OBVIOUS
  <1>2. /\ UNCHANGED <<env, at, awaits, arg, mine, results, queue, quit, sPc>>
        /\ tasks' = [tasks EXCEPT ![o].state = v]
        /\ pc' = [pc EXCEPT ![q] = "idle"] /\ op' = [op EXCEPT ![q] = 0]
        /\ hPc' = [hPc EXCEPT ![q] = IF quit[q] THEN "gone" ELSE "wait"]
        /\ q \in Threads /\ q \notin Clients
    BY <1>1, WhoRuns DEF resolve, taskDone, closerVars, Goto
  <1>3. LaunchTypeOK /\ QueueTypeOK(1 .. Len(tasks)) /\ TasksPlaced
    BY ByThread, ByBroadcast
  <1>4. /\ o \in 1 .. Len(tasks) /\ tasks[o] \in Tasks /\ tasks[o].state = "pending"
        /\ \A r \in Qpus : r # q => op[r] # o
        /\ \A r \in Qpus : \A j \in DOMAIN queue[r] : queue[r][j] # o
        /\ \A c \in Clients : \A k \in DOMAIN mine[c] : mine[c][k] = o => q = k - 1
    BY <1>1, RunsHeld
  <1>5. /\ pc'[q] = "idle" /\ op'[q] = 0
        /\ \A u \in Threads : u # q => pc'[u] = pc[u]
        /\ \A r \in Qpus : r # q => op'[r] = op[r] /\ hPc'[r] = hPc[r]
    BY <1>2, <1>3 DEF LaunchTypeOK, QueueTypeOK
  <1>6. /\ DOMAIN tasks' = DOMAIN tasks /\ DOMAIN tasks = 1 .. Len(tasks)
        /\ \A i \in 1 .. Len(tasks) : i # o => tasks'[i] = tasks[i]
        /\ tasks'[o].kind = tasks[o].kind /\ tasks'[o].owner = tasks[o].owner
        /\ tasks'[o].out = tasks[o].out /\ tasks'[o].state = v
    BY <1>2, <1>4, TaskIds DEF Tasks
  <1>7. TasksKeep
    BY <1>4, <1>6 DEF TasksKeep
  <1>8. \A r \in Qpus, i \in 1 .. Len(tasks) : Holds(r, i)' => Holds(r, i) /\ i # o
    <2> SUFFICES ASSUME NEW r \in Qpus, NEW i \in 1 .. Len(tasks), Holds(r, i)'
                 PROVE  Holds(r, i) /\ i # o
      BY DEF Holds
    <2>1. i # 0
      BY TaskIds
    <2> QED
      BY <1>2, <1>4, <1>5, <2>1 DEF Holds
  <1>9. TasksPlaced'
    <2>1. \A r \in Qpus : \A j \in DOMAIN queue'[r] :
            /\ queue'[r][j] # op'[r] /\ tasks'[queue'[r][j]].out = << >>
            /\ \A k \in DOMAIN queue'[r] : queue'[r][j] = queue'[r][k] => j = k
      <3> SUFFICES ASSUME NEW r \in Qpus, NEW j \in DOMAIN queue[r]
                   PROVE  /\ queue[r][j] # op'[r] /\ tasks'[queue[r][j]].out = << >>
                          /\ \A k \in DOMAIN queue[r] : queue[r][j] = queue[r][k] => j = k
        BY <1>2
      <3>1. queue[r][j] # o /\ queue[r][j] \in 1 .. Len(tasks) /\ queue[r][j] # 0
        BY <1>4, TaskIds
      <3> QED
        BY <1>3, <1>5, <1>6, <3>1 DEF TasksPlaced
    <2> QED
      BY <1>2, <1>3, <1>5, <1>6, <1>7, <1>8, <2>1, WhoRuns, PlacesLeft
  <1>10. \A c \in Clients : FutureOK(c)'
    <2>0. \A k : lowerBound(k)' = lowerBound(k) /\ nExecsPerQpu' = nExecsPerQpu
      BY <1>2 DEF lowerBound, nExecsPerQpu
    <2> SUFFICES ASSUME NEW c \in Clients, NEW k \in DOMAIN mine[c]
                 PROVE  /\ tasks'[mine[c][k]].kind = "broadcast"
                        /\ \A r \in Qpus : Holds(r, mine[c][k])' => r = k - 1
                        /\ tasks'[mine[c][k]].state = "value" =>
                              tasks'[mine[c][k]].out = Block(lowerBound(k - 1), nExecsPerQpu)
      BY <1>2, <2>0 DEF FutureOK, Block
    <2>1. PICK i \in 1 .. Len(tasks) : i = mine[c][k]
      BY TaskIds
    <2>2. /\ tasks[i].kind = "broadcast"
          /\ tasks[i].state = "value" => tasks[i].out = Block(lowerBound(k - 1), nExecsPerQpu)
          /\ \A r \in Qpus : Holds(r, i) => r = k - 1
      BY <2>1, ByBroadcast DEF FutureOK
    <2>3. \A r \in Qpus : Holds(r, i)' => r = k - 1
      BY <1>8, <2>2
    <2>4. tasks'[i].kind = "broadcast"
      BY <1>7, <2>2 DEF TasksKeep
    <2>5. tasks'[i].state = "value" => tasks'[i].out = Block(lowerBound(k - 1), nExecsPerQpu)
      <3>1. CASE i # o
        BY <1>6, <2>2, <3>1
      <3>2. CASE i = o
        <4>1. Runs(q, "broadcast") /\ q = k - 1 /\ ShareOK(q)
          BY <1>1, <1>4, <2>1, <2>2, <3>2, ByBroadcast DEF Runs
        <4>2. tasks[o].out = Block(lowerBound(q), nExecsPerQpu)
          BY <1>1, <4>1 DEF ShareOK
        <4> QED
          BY <1>6, <3>2, <4>1, <4>2
      <3> QED
        BY <3>1, <3>2
    <2>6. \A r \in Qpus : Holds(r, mine[c][k])' => r = k - 1
      BY <1>2, <2>1, <2>3 DEF Holds
    <2> QED
      BY <2>1, <2>4, <2>5, <2>6
  <1>11. ShareOK(q)'
    BY <1>5 DEF ShareOK, Sampling
  <1>12. \A r \in Qpus : r # q =>
           (op[r] \in 1 .. Len(tasks) => tasks'[op[r]].out = tasks[op[r]].out)
    BY <1>6
  <1>13. \A i \in DOMAIN tasks' :
           i \in 1 .. Len(tasks) /\ (tasks[i].state # "broken" => tasks'[i].state # "broken")
    BY <1>6
  <1> QED
    BY <1>2, <1>5, <1>7, <1>9, <1>10, <1>11, <1>12, <1>13, WhoRuns, StepShared

(* Results in order, one more, and those of two shares.                    *)
LEMMA BlockEmpty == \A a : Block(a, 0) = << >>
  BY DEF Block

LEMMA BlockGrows ==
    ASSUME NEW a \in Nat, NEW m \in Nat
    PROVE  Append(Block(a, m), a + m) = Block(a, m + 1)
  <1>1. /\ Block(a, m) \in Seq(Nat) /\ Len(Block(a, m)) = m
        /\ \A j \in 1 .. m : Block(a, m)[j] = a + j - 1
    BY DEF Block
  <1>2. /\ Block(a, m + 1) \in Seq(Nat) /\ Len(Block(a, m + 1)) = m + 1
        /\ \A j \in 1 .. m + 1 : Block(a, m + 1)[j] = a + j - 1
    BY DEF Block
  <1>3. /\ Append(Block(a, m), a + m) \in Seq(Nat) /\ Len(Append(Block(a, m), a + m)) = m + 1
        /\ \A j \in 1 .. m : Append(Block(a, m), a + m)[j] = a + j - 1
        /\ Append(Block(a, m), a + m)[m + 1] = a + m
    BY <1>1
  <1>4. \A j \in 1 .. m + 1 : Append(Block(a, m), a + m)[j] = Block(a, m + 1)[j]
    BY <1>2, <1>3
  <1> QED
    BY <1>2, <1>3, <1>4, SeqEqual

LEMMA BlocksJoin ==
    ASSUME NEW m \in Nat, NEW l \in Nat
    PROVE  Block(0, m) \o Block(m, l) = Block(0, m + l)
  <1>1. /\ Block(0, m) \in Seq(Nat) /\ Len(Block(0, m)) = m
        /\ \A j \in 1 .. m : Block(0, m)[j] = j - 1
    BY DEF Block
  <1>2. /\ Block(m, l) \in Seq(Nat) /\ Len(Block(m, l)) = l
        /\ \A j \in 1 .. l : Block(m, l)[j] = m + j - 1
    BY DEF Block
  <1>3. /\ Block(0, m + l) \in Seq(Nat) /\ Len(Block(0, m + l)) = m + l
        /\ \A j \in 1 .. m + l : Block(0, m + l)[j] = j - 1
    BY DEF Block
  <1>4. PICK A \in Seq(Nat) : A = Block(0, m)
    BY <1>1
  <1>5. PICK B \in Seq(Nat) : B = Block(m, l)
    BY <1>2
  <1>6. /\ A \o B \in Seq(Nat) /\ Len(A \o B) = Len(A) + Len(B)
        /\ \A j \in 1 .. Len(A) + Len(B) :
              (A \o B)[j] = IF j <= Len(A) THEN A[j] ELSE B[j - Len(A)]
    BY ConcatProperties
  <1>7. Len(A) = m /\ Len(B) = l
    BY <1>1, <1>2, <1>4, <1>5
  <1>8. ASSUME NEW j \in 1 .. m + l PROVE (A \o B)[j] = j - 1
    <2>1. CASE j <= m
      <3>1. j \in 1 .. m /\ (A \o B)[j] = A[j]
        BY <1>6, <1>7, <2>1
      <3> QED
        BY <1>1, <1>4, <3>1
    <2>2. CASE ~(j <= m)
      <3>1. PICK k \in 1 .. l : k = j - m
        BY <2>2
      <3>2. (A \o B)[j] = B[k]
        BY <1>6, <1>7, <2>2, <3>1
      <3>3. B[k] = m + k - 1
        BY <1>2, <1>5
      <3> QED
        BY <3>1, <3>2, <3>3
    <2> QED
      BY <2>1, <2>2
  <1>9. A \o B = Block(0, m + l)
    <2>1. PICK C \in Seq(Nat) : C = A \o B
      BY <1>6
    <2>2. PICK D \in Seq(Nat) : D = Block(0, m + l)
      BY <1>3
    <2>3. Len(C) = Len(D) /\ Len(C) = m + l
      BY <1>3, <1>6, <1>7, <2>1, <2>2
    <2>4. \A j \in 1 .. Len(C) : C[j] = D[j]
      BY <1>3, <1>8, <2>1, <2>2, <2>3
    <2>5. C = D
      BY <2>3, <2>4, SeqEqual
    <2> QED
      BY <2>1, <2>2, <2>5
  <1> QED
    BY <1>4, <1>5, <1>9

(* No share is empty, and the shares cover the argument sets.              *)
LEMMA ShareSize ==
    ASSUME LaunchInv
    PROVE  /\ nExecsPerQpu \in Nat \ {0} /\ env.sets <= NumQpus * nExecsPerQpu
           /\ NumQpus * nExecsPerQpu < env.sets + NumQpus
           /\ env.sets % NumQpus = 0 => env.sets = NumQpus * nExecsPerQpu
  <1>1. env.sets \in Nat \ {0} /\ NumQpus \in Nat \ {0}
    BY ByThread, LaunchAssumption, QueueAssumption DEF LaunchTypeOK
  <1>2. \A s, n \in Nat : n # 0 => /\ s = n * (s \div n) + (s % n) /\ s \div n \in Nat
                                   /\ s % n \in 0 .. n - 1
    OBVIOUS
  <1> DEFINE d == env.sets \div NumQpus
             m == env.sets % NumQpus
  <1>3. d \in Nat /\ m \in 0 .. NumQpus - 1 /\ env.sets = NumQpus * d + m
    BY <1>1, <1>2
  <1>4. nExecsPerQpu = d + (IF m = 0 THEN 0 ELSE 1)
    BY DEF nExecsPerQpu
  <1> HIDE DEF d, m
  <1>5. CASE m = 0
    <2>1. nExecsPerQpu = d /\ env.sets = NumQpus * d
      BY <1>1, <1>3, <1>4, <1>5
    <2>2. d # 0
      BY <1>1, <2>1
    <2> QED
      BY <1>1, <1>3, <2>1, <2>2
  <1>6. CASE m # 0
    <2>1. nExecsPerQpu = d + 1
      BY <1>4, <1>6
    <2>2. NumQpus * (d + 1) = NumQpus * d + NumQpus
      BY <1>1, <1>3
    <2> QED
      BY <1>1, <1>3, <1>6, <2>1, <2>2 DEF m
  <1> QED
    BY <1>5, <1>6

(* The bounds of a share, as numbers.                                      *)
LEMMA ShareBounds ==
    ASSUME LaunchInv, NEW q \in Qpus
    PROVE  /\ lowerBound(q) \in Nat /\ nExecsPerQpu \in Nat \ {0}
           /\ upperBound(q) = lowerBound(q) + nExecsPerQpu
  BY ShareTypes, ShareSize DEF upperBound

LEMMA BeginShared ==
    ASSUME LaunchInv, BroadcastInv, NEW q \in Qpus, broadcastBegin(q)
    PROVE  BroadcastInv'
  <1>1. /\ Runs(q, "broadcast") /\ pc[q] = "begin"
        /\ UNCHANGED <<env, tasks, awaits, mine, results, queueVars>>
        /\ arg' = [arg EXCEPT ![q] = lowerBound(q)] /\ at' = [at EXCEPT ![q] = 0]
        /\ pc' = [pc EXCEPT ![q] = IF env.seeded THEN "seeding" ELSE "preamble"]
        /\ q \in Threads /\ q \notin Clients
    BY WhoRuns DEF broadcastBegin, applyNext, Goto
  <1>2. /\ pc'[q] \in {"seeding", "preamble"} /\ arg'[q] = lowerBound(q)
        /\ \A u \in Threads : u # q => pc'[u] = pc[u] /\ at'[u] = at[u]
        /\ \A r \in Qpus : r # q => arg'[r] = arg[r]
    BY <1>1, ByThread DEF LaunchTypeOK
  <1>3. ShareOK(q)'
    <2>1. /\ lowerBound(q)' = lowerBound(q) /\ upperBound(q)' = upperBound(q)
          /\ nExecsPerQpu' = nExecsPerQpu
      BY <1>1 DEF lowerBound, upperBound, nExecsPerQpu
    <2>2. tasks'[op'[q]].out = << >>
      BY <1>1, ByBroadcast DEF ShareOK, queueVars, workerVars
    <2>3. PICK l \in Nat, n \in Nat \ {0} :
            l = lowerBound(q) /\ n = nExecsPerQpu /\ upperBound(q) = l + n
      BY ShareBounds
    <2>4. l \in l .. l + n - 1 /\ l - l = 0
      BY <2>3
    <2>5. Block(l, l - l) = << >>
      BY <2>4, BlockEmpty
    <2> HIDE DEF lowerBound, upperBound, nExecsPerQpu
    <2>6. /\ arg'[q] \in lowerBound(q)' .. upperBound(q)' - 1
          /\ Block(lowerBound(q), arg[q] - lowerBound(q))' = << >>
      BY <1>2, <2>1, <2>3, <2>4, <2>5 DEF Block
    <2> QED
      BY <1>2, <2>2, <2>6 DEF ShareOK
  <1> QED
    BY <1>1, <1>2, <1>3, WhoRuns, LocalShared

LEMMA AppliedShared ==
    ASSUME LaunchInv, BroadcastInv, NEW q \in Qpus, broadcastApplied(q)
    PROVE  BroadcastInv'
  <1>1. PICK o : o = op[q]
    OBVIOUS
  <1>2. /\ Runs(q, "broadcast") /\ hPc[q] = "run" /\ pc[q] = "ok"
        /\ UNCHANGED <<env, awaits, mine, results, queue, op, hPc, quit, sPc>>
        /\ tasks' = [tasks EXCEPT ![o].out = Append(@, arg[q])]
        /\ \/ /\ arg[q] + 1 < upperBound(q) /\ arg' = [arg EXCEPT ![q] = arg[q] + 1]
              /\ at' = [at EXCEPT ![q] = 0]
              /\ pc' = [pc EXCEPT ![q] = IF env.seeded THEN "seeding" ELSE "preamble"]
           \/ /\ ~(arg[q] + 1 < upperBound(q)) /\ pc' = [pc EXCEPT ![q] = "resolveOk"]
              /\ UNCHANGED <<arg, at>>
        /\ q \in Threads /\ q \notin Clients
    BY <1>1, WhoRuns
    DEF broadcastApplied, applyNext, Goto, Runs, queueVars, workerVars, closerVars
  <1>3. LaunchTypeOK /\ TasksPlaced
    BY ByThread, ByBroadcast
  <1>4. /\ o \in 1 .. Len(tasks) /\ tasks[o] \in Tasks /\ tasks[o].state = "pending"
        /\ \A r \in Qpus : r # q => op[r] # o
        /\ \A r \in Qpus : \A j \in DOMAIN queue[r] : queue[r][j] # o
    BY <1>1, <1>2, RunsHeld
  <1>5. /\ \A u \in Threads : u # q => pc'[u] = pc[u] /\ at'[u] = at[u]
        /\ \A r \in Qpus : r # q => arg'[r] = arg[r]
        /\ \/ /\ arg[q] + 1 < upperBound(q) /\ arg'[q] = arg[q] + 1
              /\ pc'[q] \in {"seeding", "preamble"}
           \/ ~(arg[q] + 1 < upperBound(q)) /\ pc'[q] = "resolveOk"
    BY <1>2, <1>3 DEF LaunchTypeOK
  <1>6. /\ DOMAIN tasks' = DOMAIN tasks /\ DOMAIN tasks = 1 .. Len(tasks)
        /\ \A i \in 1 .. Len(tasks) : i # o => tasks'[i] = tasks[i]
        /\ tasks'[o].kind = tasks[o].kind /\ tasks'[o].owner = tasks[o].owner
        /\ tasks'[o].out = Append(tasks[o].out, arg[q]) /\ tasks'[o].state = "pending"
    BY <1>2, <1>4, TaskIds DEF Tasks
  <1>7. TasksKeep
    BY <1>4, <1>6 DEF TasksKeep
  <1>8. \A r \in Qpus, i \in 1 .. Len(tasks) :
          Holds(r, i)' => Holds(r, i) /\ tasks'[i].state = tasks[i].state
    BY <1>2, <1>4, <1>6 DEF Holds
  <1>9. TasksPlaced'
    <2>1. \A r \in Qpus : \A j \in DOMAIN queue'[r] :
            /\ queue'[r][j] # op'[r] /\ tasks'[queue'[r][j]].out = << >>
            /\ \A k \in DOMAIN queue'[r] : queue'[r][j] = queue'[r][k] => j = k
      <3> SUFFICES ASSUME NEW r \in Qpus, NEW j \in DOMAIN queue[r]
                   PROVE  /\ queue[r][j] # op[r] /\ tasks'[queue[r][j]].out = << >>
                          /\ \A k \in DOMAIN queue[r] : queue[r][j] = queue[r][k] => j = k
        BY <1>2
      <3>1. queue[r][j] # o /\ queue[r][j] \in 1 .. Len(tasks)
        BY <1>4, TaskIds
      <3> QED
        BY <1>3, <1>6, <3>1 DEF TasksPlaced
    <2>2. \A c \in Clients : pc'[c] = pc[c] /\ awaits'[c] = awaits[c]
      BY <1>2, <1>5, WhoRuns
    <2> QED
      BY <1>3, <1>6, <1>7, <1>8, <2>1, <2>2, PlacesLeft
  <1>10. \A c \in Clients : FutureOK(c)'
    <2>1. \A i \in 1 .. Len(tasks) : tasks'[i].state = "value" =>
            tasks[i].state = "value" /\ tasks'[i].out = tasks[i].out
      BY <1>6
    <2> QED
      BY <1>2, <1>7, <1>8, <2>1, ByBroadcast, FutureKept
  <1>11. ShareOK(q)'
    <2>1. /\ lowerBound(q)' = lowerBound(q) /\ upperBound(q)' = upperBound(q)
          /\ nExecsPerQpu' = nExecsPerQpu
      BY <1>2 DEF lowerBound, upperBound, nExecsPerQpu
    <2>2. PICK l \in Nat, n \in Nat \ {0} :
            l = lowerBound(q) /\ n = nExecsPerQpu /\ upperBound(q) = l + n
      BY ShareBounds
    <2> HIDE DEF lowerBound, upperBound, nExecsPerQpu
    <2>3. arg[q] \in l .. l + n - 1 /\ tasks[o].out = Block(l, arg[q] - l)
      <3>1. ShareOK(q) /\ pc[q] \in Sampling
        BY <1>2, ByBroadcast DEF Sampling
      <3> QED
        BY <1>1, <1>2, <2>2, <3>1 DEF ShareOK
    <2>4. PICK a \in Nat : a = arg[q]
      BY <1>3 DEF LaunchTypeOK
    <2>5. PICK m \in Nat : m = a - l
      BY <2>2, <2>3, <2>4
    <2>6. /\ l + m = a /\ a + 1 - l = m + 1
          /\ a + 1 < l + n => a + 1 \in l .. l + n - 1
          /\ ~(a + 1 < l + n) => m + 1 = n
      BY <2>2, <2>3, <2>4, <2>5
    <2>7. tasks'[o].out = Block(l, m + 1)
      BY <1>6, <2>3, <2>4, <2>5, <2>6, BlockGrows
    <2>8. CASE arg[q] + 1 < upperBound(q) /\ arg'[q] = arg[q] + 1 /\ pc'[q] \in {"seeding", "preamble"}
      <3>1. /\ arg'[q] \in lowerBound(q)' .. upperBound(q)' - 1
            /\ Block(lowerBound(q), arg[q] - lowerBound(q))' = Block(l, m + 1)
        <4>1. arg'[q] = a + 1 /\ lowerBound(q)' = l /\ upperBound(q)' = l + n
          BY <2>1, <2>2, <2>4, <2>8
        <4>2. arg'[q] - lowerBound(q)' = m + 1
          BY <2>6, <4>1
        <4>3. arg'[q] \in lowerBound(q)' .. upperBound(q)' - 1
          BY <2>2, <2>4, <2>6, <2>8, <4>1
        <4> QED
          BY <4>1, <4>2, <4>3 DEF Block
      <3> QED
        BY <1>1, <1>2, <2>7, <2>8, <3>1 DEF ShareOK
    <2>9. CASE ~(arg[q] + 1 < upperBound(q)) /\ pc'[q] = "resolveOk"
      <3>1. Block(lowerBound(q), nExecsPerQpu)' = Block(l, m + 1)
        BY <2>1, <2>2, <2>4, <2>6, <2>9 DEF Block
      <3> QED
        BY <1>1, <1>2, <2>7, <2>9, <3>1 DEF ShareOK, Sampling
    <2> QED
      BY <1>5, <2>8, <2>9
  <1>12. \A r \in Qpus : r # q =>
           (op[r] \in 1 .. Len(tasks) => tasks'[op[r]].out = tasks[op[r]].out)
    BY <1>4, <1>6
  <1>13. \A i \in DOMAIN tasks' :
           i \in 1 .. Len(tasks) /\ (tasks[i].state # "broken" => tasks'[i].state # "broken")
    BY <1>4, <1>6
  <1> QED
    BY <1>2, <1>5, <1>7, <1>9, <1>10, <1>11, <1>12, <1>13, WhoRuns, StepShared

LEMMA WorkerShared ==
    ASSUME LaunchInv, BroadcastInv, NEW q \in Qpus, Worker(q)
    PROVE  BroadcastInv'
  <1>1. q \in Threads
    BY WhoRuns
  <1>2. CASE seedTask(q) \/ sampleResolve(q) \/ broadcastResolve(q)
    <2>1. PICK v \in {"value", "exception"} :
            /\ hPc[q] = "run" /\ resolve(q, v)
            /\ Runs(q, "broadcast") => pc[q] = "resolveOk" /\ v = "value"
      BY <1>2 DEF seedTask, sampleResolve, broadcastResolve, Runs
    <2> QED
      BY <2>1, ResolveShared
  <1>3. CASE broadcastThrows(q)
    BY <1>3, NothingShared DEF broadcastThrows
  <1> QED
    BY <1>1, <1>2, <1>3, TakeShared, QuittedShared, SampleStepsShared, BeginShared,
       AppliedShared, SeedShared, SamplingShared
    DEF Worker

-----------------------------------------------------------------------------
(* Clients and closers.                                                    *)

(* The task a client runs itself is in no queue and no broadcast.          *)
LEMMA SampleSyncShared ==
    ASSUME LaunchInv, BroadcastInv, NEW c \in Clients, sampleSync(c)
    PROVE  BroadcastInv'
  <1>1. PICK key \in Keys : tasks' = Append(tasks, MakeTask("sync", FALSE, key, c))
    BY DEF sampleSync
  <1>2. PICK n \in Nat : n = Len(tasks) + 1
    BY TaskIds
  <1>3. /\ UNCHANGED <<env, at, arg, mine, results, queue, op, hPc, quit, sPc>>
        /\ awaits' = [awaits EXCEPT ![c] = n] /\ pc' = [pc EXCEPT ![c] = "preamble"]
        /\ pc[c] = "idle" /\ c \in Threads /\ c \notin Qpus
    BY <1>2, WhoRuns DEF sampleSync, Idle, Goto, queueVars, workerVars, closerVars
  <1>4. /\ pc'[c] = "preamble" /\ awaits'[c] = n
        /\ \A u \in Threads : u # c => pc'[u] = pc[u] /\ awaits'[u] = awaits[u]
    <2>1. LaunchTypeOK
      BY ByThread
    <2> QED
      BY <1>3, <2>1 DEF LaunchTypeOK
  <1>5. /\ DOMAIN tasks = 1 .. Len(tasks) /\ DOMAIN tasks' = 1 .. n
        /\ tasks'[n].kind = "sync" /\ tasks'[n].state = "pending"
        /\ \A i \in 1 .. Len(tasks) : i \in 1 .. n /\ tasks'[i] = tasks[i]
        /\ \A i \in 1 .. n : i \in 1 .. Len(tasks) \/ i = n
        /\ n \notin 1 .. Len(tasks) /\ n # 0
    <2>1. PICK x \in Tasks : x = MakeTask("sync", FALSE, key, c)
      BY <1>3, MadeTask
    <2>2. tasks \in Seq(Tasks) /\ tasks' = Append(tasks, x)
      BY <1>1, <2>1, TaskIds
    <2>3. /\ DOMAIN tasks' = 1 .. n /\ tasks'[n] = x
          /\ \A i \in 1 .. Len(tasks) : tasks'[i] = tasks[i]
      BY <1>2, <2>2
    <2>4. x.kind = "sync" /\ x.state = "pending"
      BY <2>1 DEF MakeTask
    <2> QED
      BY <1>2, <2>2, <2>3, <2>4
  <1>6. TasksKeep
    BY <1>5 DEF TasksKeep
  <1>7. \A r \in Qpus : /\ \A i \in 1 .. n : Holds(r, i)' <=> Holds(r, i)
                        /\ ~Holds(r, n)
    BY <1>3, <1>5, TaskIds DEF Holds
  <1>8. TasksPlaced'
    <2>0. TasksPlaced
      BY ByBroadcast
    <2>1. \A r, s \in Qpus, i \in 1 .. n : Holds(r, i)' /\ Holds(s, i)' => r = s
      BY <1>5, <1>7, <2>0 DEF TasksPlaced
    <2>2. \A r \in Qpus, i \in 1 .. n :
            Holds(r, i)' => tasks'[i].state = "pending" /\ tasks'[i].kind # "sync"
      BY <1>5, <1>7, <2>0 DEF TasksPlaced
    <2>3. \A r \in Qpus : \A j \in DOMAIN queue'[r] :
            /\ queue'[r][j] # op'[r] /\ tasks'[queue'[r][j]].out = << >>
            /\ \A k \in DOMAIN queue'[r] : queue'[r][j] = queue'[r][k] => j = k
      BY <1>3, <1>5, <2>0, TaskIds DEF TasksPlaced
    <2>4. ASSUME NEW d \in Clients, pc'[d] \in Sampling
          PROVE  tasks'[awaits'[d]].kind = "sync"
      <3>1. CASE d = c
        BY <1>4, <1>5, <3>1
      <3>2. CASE d # c
        <4>1. pc[d] \in Sampling /\ awaits'[d] = awaits[d]
          BY <1>4, <2>4, <3>2, WhoRuns
        <4>2. awaits[d] \in 1 .. Len(tasks) /\ tasks[awaits[d]].kind = "sync"
          BY <2>0, <4>1, TaskIds DEF TasksPlaced
        <4> QED
          BY <1>5, <4>1, <4>2
      <3> QED
        BY <3>1, <3>2
    <2> QED
      BY <1>5, <2>1, <2>2, <2>3, <2>4 DEF TasksPlaced
  <1>9. \A d \in Clients : FutureOK(d)'
    <2>1. \A i \in 1 .. Len(tasks) :
            /\ \A q \in Qpus : Holds(q, i)' => Holds(q, i)
            /\ tasks'[i].state = "value" =>
                  tasks[i].state = "value" /\ tasks'[i].out = tasks[i].out
      BY <1>5, <1>7
    <2> QED
      BY <1>3, <1>6, <2>1, ByBroadcast, FutureKept
  <1>10. ResultOK(c)' /\ StillWaits(c)
    <2>1. nExecsPerQpu' = nExecsPerQpu
      BY <1>3 DEF nExecsPerQpu
    <2> QED
      BY <1>3, <1>4, <2>1, ByBroadcast DEF ResultOK, Block, StillWaits
  <1>11. \A i \in DOMAIN tasks' :
           \/ i \in 1 .. Len(tasks) /\ (tasks[i].state # "broken" => tasks'[i].state # "broken")
           \/ tasks'[i].state # "broken" /\ OwnerOK(i)'
    BY <1>5 DEF OwnerOK
  <1> QED
    BY <1>3, <1>4, <1>5, <1>6, <1>8, <1>9, <1>10, <1>11, WhoRuns, StepShared

LEMMA SyncReturnsShared ==
    ASSUME LaunchInv, BroadcastInv, NEW c \in Clients, sampleSyncReturns(c)
    PROVE  BroadcastInv'
  <1>1. PICK o : o = awaits[c]
    OBVIOUS
  <1>2. PICK v \in {"value", "exception"} :
          /\ UNCHANGED <<env, at, awaits, arg, mine, results, queue, op, hPc, quit, sPc>>
          /\ tasks' = [tasks EXCEPT ![o].state = v] /\ pc' = [pc EXCEPT ![c] = "idle"]
          /\ pc[c] \in {"ok", "threw"} /\ c \in Threads /\ c \notin Qpus
    BY <1>1, WhoRuns DEF sampleSyncReturns, Goto, queueVars, workerVars, closerVars
  <1>3. /\ pc'[c] = "idle" /\ \A u \in Threads : u # c => pc'[u] = pc[u]
    BY <1>2, ByThread DEF LaunchTypeOK
  <1>4. o \in 1 .. Len(tasks) /\ tasks[o] \in Tasks /\ tasks[o].kind = "sync" /\ TasksPlaced
    <2>1. pc[c] \in Sampling
      BY <1>2 DEF Sampling
    <2> QED
      BY <1>1, <2>1, TaskIds, ByBroadcast DEF TasksPlaced
  <1>5. /\ DOMAIN tasks' = DOMAIN tasks /\ DOMAIN tasks = 1 .. Len(tasks)
        /\ \A i \in 1 .. Len(tasks) : i # o => tasks'[i] = tasks[i]
        /\ tasks'[o].kind = tasks[o].kind /\ tasks'[o].owner = tasks[o].owner
        /\ tasks'[o].out = tasks[o].out /\ tasks'[o].state = v
    BY <1>2, <1>4, TaskIds DEF Tasks
  <1>6. TasksKeep
    BY <1>4, <1>5 DEF TasksKeep
  <1>7. \A r \in Qpus, i \in 1 .. Len(tasks) :
          Holds(r, i)' => Holds(r, i) /\ tasks'[i].state = tasks[i].state
    <2>1. \A r \in Qpus, i \in 1 .. Len(tasks) : Holds(r, i)' => Holds(r, i)
      BY <1>2 DEF Holds
    <2>2. \A r \in Qpus : ~Holds(r, o)
      BY <1>4, <1>5 DEF TasksPlaced
    <2> QED
      BY <1>5, <2>1, <2>2
  <1>8. TasksPlaced'
    <2>1. \A r \in Qpus : \A j \in DOMAIN queue'[r] :
            /\ queue'[r][j] # op'[r] /\ tasks'[queue'[r][j]].out = << >>
            /\ \A k \in DOMAIN queue'[r] : queue'[r][j] = queue'[r][k] => j = k
      <3> SUFFICES ASSUME NEW r \in Qpus, NEW j \in DOMAIN queue[r]
                   PROVE  /\ queue[r][j] # op[r] /\ tasks'[queue[r][j]].out = << >>
                          /\ \A k \in DOMAIN queue[r] : queue[r][j] = queue[r][k] => j = k
        BY <1>2
      <3>1. queue[r][j] \in 1 .. Len(tasks)
        BY TaskIds
      <3>2. tasks'[queue[r][j]].out = tasks[queue[r][j]].out
        BY <1>5, <3>1
      <3> QED
        BY <1>4, <3>2 DEF TasksPlaced
    <2>2. \A d \in Clients : pc'[d] \in Sampling => pc[d] \in Sampling /\ awaits'[d] = awaits[d]
      BY <1>2, <1>3, WhoRuns DEF Sampling
    <2> QED
      BY <1>4, <1>5, <1>6, <1>7, <2>1, <2>2, PlacesLeft
  <1>9. \A d \in Clients : FutureOK(d)'
    <2>1. \A i \in 1 .. Len(tasks) :
            /\ \A q \in Qpus : Holds(q, i)' => Holds(q, i)
            /\ tasks[i].kind = "broadcast" /\ tasks'[i].state = "value" =>
                  tasks[i].state = "value" /\ tasks'[i].out = tasks[i].out
      BY <1>4, <1>5, <1>7
    <2> QED
      BY <1>2, <1>6, <2>1, ByBroadcast, FutureKept
  <1>10. ResultOK(c)' /\ StillWaits(c)
    <2>1. nExecsPerQpu' = nExecsPerQpu
      BY <1>2 DEF nExecsPerQpu
    <2> QED
      BY <1>2, <1>3, <2>1, ByBroadcast DEF ResultOK, Block, StillWaits
  <1>11. \A i \in DOMAIN tasks' :
           i \in 1 .. Len(tasks) /\ (tasks[i].state # "broken" => tasks'[i].state # "broken")
    BY <1>5
  <1>12. \A r \in Qpus : op[r] \in 1 .. Len(tasks) => tasks'[op[r]].out = tasks[op[r]].out
    BY <1>5
  <1> QED
    BY <1>2, <1>3, <1>6, <1>8, <1>9, <1>10, <1>11, <1>12, WhoRuns, StepShared

(* A new broadcast has no futures yet.  The tasks of the client's earlier  *)
(* ones have their values, unless queues are shut down.                    *)
LEMMA NewBroadcastShared ==
    ASSUME LaunchInv, BroadcastInv, NEW c \in Clients, broadcast(c)
    PROVE  BroadcastInv'
  <1>1. /\ UNCHANGED <<env, tasks, awaits, arg, queueVars>> /\ pc[c] = "idle"
        /\ pc' = [pc EXCEPT ![c] = "enqueue"] /\ at' = [at EXCEPT ![c] = 0]
        /\ mine' = [mine EXCEPT ![c] = << >>] /\ results' = [results EXCEPT ![c] = << >>]
        /\ c \in Threads /\ c \notin Qpus
    BY WhoRuns DEF broadcast, Idle, Goto
  <1>2. LaunchTypeOK
    BY ByThread
  <1>3. /\ pc'[c] = "enqueue" /\ mine'[c] = << >> /\ results'[c] = << >>
        /\ \A u \in Threads : u # c => pc'[u] = pc[u] /\ at'[u] = at[u]
        /\ \A d \in Clients : d # c => mine'[d] = mine[d] /\ results'[d] = results[d]
    BY <1>1, <1>2 DEF LaunchTypeOK
  <1>4. FutureOK(c)' /\ ResultOK(c)' /\ StillWaits(c) /\ pc'[c] \notin Sampling
    BY <1>1, <1>3 DEF FutureOK, ResultOK, StillWaits, Sampling
  <1> QED
    BY <1>1, <1>3, <1>4, WhoRuns, LocalShared

(* The futures are there; none has been collected.                         *)
LEMMA EnqueuedShared ==
    ASSUME LaunchInv, BroadcastInv, NEW c \in Clients, broadcastEnqueued(c)
    PROVE  BroadcastInv'
  <1>1. /\ UNCHANGED <<env, tasks, awaits, arg, mine, results, queueVars>>
        /\ pc[c] = "enqueue" /\ at[c] = NumQpus
        /\ pc' = [pc EXCEPT ![c] = "collect"] /\ at' = [at EXCEPT ![c] = 0]
        /\ c \in Threads /\ c \notin Qpus
    BY WhoRuns DEF broadcastEnqueued, Goto
  <1>2. LaunchTypeOK
    BY ByThread
  <1>3. /\ pc'[c] = "collect" /\ at'[c] = 0
        /\ \A u \in Threads : u # c => pc'[u] = pc[u] /\ at'[u] = at[u]
    BY <1>1, <1>2 DEF LaunchTypeOK
  <1>4. ResultOK(c)'
    <2>1. results'[c] = << >>
      BY <1>1, ByBroadcast DEF ResultOK
    <2>2. nExecsPerQpu' = nExecsPerQpu /\ nExecsPerQpu \in Nat
      BY <1>1, ShareTypes DEF nExecsPerQpu
    <2>3. at'[c] * nExecsPerQpu' = 0
      BY <1>3, <2>2
    <2>4. Block(0, at[c] * nExecsPerQpu)' = << >>
      BY <2>3 DEF Block
    <2> QED
      BY <1>3, <2>1, <2>4 DEF ResultOK
  <1>5. StillWaits(c)
    <2>1. \A k \in DOMAIN mine[c] : k > 0
      BY TaskIds
    <2> QED
      BY <1>1, <1>3, <2>1 DEF StillWaits
  <1>6. FutureOK(c)'
    <2>1. TasksKeep /\ \A i \in 1 .. Len(tasks), q \in Qpus : Holds(q, i)' => Holds(q, i)
      BY <1>1, TaskIds DEF TasksKeep, Holds, queueVars, workerVars
    <2> QED
      BY <1>1, <2>1, ByBroadcast, FutureKept
  <1>7. "collect" \notin Sampling
    BY DEF Sampling
  <1> QED
    BY <1>1, <1>3, <1>4, <1>5, <1>6, <1>7, WhoRuns, LocalShared

(* The share of the QPU the client is at follows those before it.          *)
LEMMA CollectShared ==
    ASSUME LaunchInv, BroadcastInv, NEW c \in Clients, broadcastCollect(c)
    PROVE  BroadcastInv'
  <1> DEFINE f == tasks[mine[c][at[c] + 1]]
  <1>1. /\ LaunchTypeOK /\ ThreadOK(c) /\ c \in Threads /\ c \notin Qpus
        /\ pc[c] = "collect" /\ at[c] < NumQpus
        /\ UNCHANGED <<env, tasks, awaits, arg, mine, queueVars>>
    BY ByThread, WhoRuns DEF broadcastCollect
  <1>2. PICK q \in Qpus : q = at[c]
    BY <1>1, WhoRuns DEF LaunchTypeOK
  <1>3. /\ q \in Nat /\ q + 1 \in DOMAIN mine[c] /\ q + 1 - 1 = q
        /\ \A k \in DOMAIN mine[c] : k \in Nat
    <2>1. mine[c] \in Seq(1 .. Len(tasks)) /\ Len(mine[c]) = NumQpus
      BY <1>1 DEF LaunchTypeOK, ThreadOK
    <2>2. q \in 0 .. NumQpus - 1 /\ NumQpus \in Nat
      BY <1>2, WhoRuns DEF Qpus
    <2>3. DOMAIN mine[c] = 1 .. NumQpus
      BY <2>1
    <2> QED
      BY <2>2, <2>3
  <1>4. FutureOK(c)'
    <2>1. TasksKeep /\ \A i \in 1 .. Len(tasks), r \in Qpus : Holds(r, i)' => Holds(r, i)
      BY <1>1, TaskIds DEF TasksKeep, Holds, queueVars, workerVars
    <2> QED
      BY <1>1, <2>1, ByBroadcast, FutureKept
  <1>5. "collect" \notin Sampling /\ "idle" \notin Sampling
    BY DEF Sampling
  <1>6. nExecsPerQpu' = nExecsPerQpu
    BY <1>1 DEF nExecsPerQpu
  <1>7. CASE /\ f.state = "value" /\ results' = [results EXCEPT ![c] = @ \o f.out]
             /\ at' = [at EXCEPT ![c] = @ + 1] /\ UNCHANGED pc
    <2>1. /\ results'[c] = results[c] \o f.out /\ at'[c] = q + 1 /\ pc'[c] = "collect"
          /\ \A u \in Threads : u # c => pc'[u] = pc[u] /\ at'[u] = at[u]
          /\ \A d \in Clients : d # c => results'[d] = results[d]
      BY <1>1, <1>2, <1>7 DEF LaunchTypeOK
    <2>2. /\ f.out = Block(lowerBound(q), nExecsPerQpu)
          /\ results[c] = Block(0, q * nExecsPerQpu)
      <3>1. FutureOK(c) /\ ResultOK(c)
        BY ByBroadcast
      <3>2. f.out = Block(lowerBound(q + 1 - 1), nExecsPerQpu)
        BY <1>2, <1>3, <1>7, <3>1 DEF FutureOK
      <3> QED
        BY <1>1, <1>2, <1>3, <3>1, <3>2 DEF ResultOK
    <2>3. PICK n \in Nat : n = nExecsPerQpu
      BY ShareTypes
    <2>4. PICK m \in Nat : m = q * n /\ m = lowerBound(q) /\ (q + 1) * n = m + n
      <3>1. q * n \in Nat /\ (q + 1) * n = q * n + n
        BY <1>3
      <3> QED
        BY <2>3, <3>1 DEF lowerBound
    <2>5. results'[c] = Block(0, m + n)
      BY <2>1, <2>2, <2>3, <2>4, BlocksJoin
    <2>6. ResultOK(c)'
      <3>1. at'[c] * nExecsPerQpu' = m + n
        BY <1>6, <2>1, <2>3, <2>4
      <3>2. Block(0, at[c] * nExecsPerQpu)' = Block(0, m + n)
        BY <3>1 DEF Block
      <3> QED
        BY <2>1, <2>5, <3>2 DEF ResultOK
    <2>7. StillWaits(c)
      <3> SUFFICES ASSUME NEW k \in DOMAIN mine[c], k > q, tasks[mine[c][k]].state # "value"
                   PROVE  k > q + 1
        BY <1>1, <1>2, <2>1 DEF StillWaits
      <3>1. k # q + 1
        BY <1>2, <1>7
      <3> QED
        BY <1>3, <3>1
    <2> QED
      BY <1>1, <1>4, <1>5, <2>1, <2>6, <2>7, WhoRuns, LocalShared
  <1>8. CASE /\ f.state = "broken" /\ results' = [results EXCEPT ![c] = << >>]
             /\ Goto(c, "idle") /\ UNCHANGED at
    <2>1. /\ results'[c] = << >> /\ pc'[c] = "idle"
          /\ \A u \in Threads : u # c => pc'[u] = pc[u] /\ at'[u] = at[u]
          /\ \A d \in Clients : d # c => results'[d] = results[d]
      BY <1>1, <1>8 DEF LaunchTypeOK, Goto
    <2>2. ~NoCloser
      <3>1. mine[c][at[c] + 1] \in DOMAIN tasks
        BY <1>2, <1>3, TaskIds
      <3> QED
        BY <1>8, <3>1, ByBroadcast
    <2>3. ResultOK(c)'
      BY <2>1 DEF ResultOK
    <2> QED
      BY <1>1, <1>4, <1>5, <2>1, <2>2, <2>3, WhoRuns, LocalShared
  <1> QED
    BY <1>7, <1>8 DEF broadcastCollect

(* Every share has been collected.                                         *)
LEMMA ReturnsShared ==
    ASSUME LaunchInv, BroadcastInv, NEW c \in Clients, broadcastReturns(c)
    PROVE  BroadcastInv'
  <1>1. /\ LaunchTypeOK /\ ThreadOK(c) /\ c \in Threads /\ c \notin Qpus
        /\ UNCHANGED <<env, tasks, at, awaits, arg, mine, results, queueVars>>
        /\ pc[c] = "collect" /\ at[c] = NumQpus /\ pc' = [pc EXCEPT ![c] = "idle"]
    BY ByThread, WhoRuns DEF broadcastReturns, Goto
  <1>2. /\ pc'[c] = "idle" /\ \A u \in Threads : u # c => pc'[u] = pc[u]
    BY <1>1 DEF LaunchTypeOK
  <1>3. ResultOK(c)'
    <2>1. results[c] = Block(0, NumQpus * nExecsPerQpu)
      BY <1>1, ByBroadcast DEF ResultOK
    <2>2. nExecsPerQpu' = nExecsPerQpu
      BY <1>1 DEF nExecsPerQpu
    <2> QED
      BY <1>1, <1>2, <2>1, <2>2 DEF ResultOK, Block
  <1>4. StillWaits(c)
    <2>1. mine[c] \in Seq(1 .. Len(tasks)) /\ Len(mine[c]) = NumQpus /\ NumQpus \in Nat
      BY <1>1, WhoRuns DEF LaunchTypeOK, ThreadOK
    <2>2. \A k \in DOMAIN mine[c] : ~(k > NumQpus)
      BY <2>1
    <2> QED
      BY <1>1, <2>2 DEF StillWaits
  <1>5. FutureOK(c)'
    <2>1. TasksKeep /\ \A i \in 1 .. Len(tasks), r \in Qpus : Holds(r, i)' => Holds(r, i)
      BY <1>1, TaskIds DEF TasksKeep, Holds, queueVars, workerVars
    <2> QED
      BY <1>1, <2>1, ByBroadcast, FutureKept
  <1>6. "idle" \notin Sampling
    BY DEF Sampling
  <1> QED
    BY <1>1, <1>2, <1>3, <1>4, <1>5, <1>6, WhoRuns, LocalShared

LEMMA ClientShared ==
    ASSUME LaunchInv, BroadcastInv, NEW c \in Clients, Calls(c) \/ Client(c)
    PROVE  BroadcastInv'
  <1>1. c \in Threads
    BY WhoRuns
  <1>2. CASE Calls(c)
    BY <1>1, <1>2, SampleAsyncShared, SampleSyncShared, SeedMovesShared, NewBroadcastShared
    DEF Calls
  <1> QED
    BY <1>1, <1>2, SeedShared, SamplingShared, SyncReturnsShared, EnqueueShared,
       EnqueuedShared, CollectShared, ReturnsShared
    DEF Client

LEMMA CloserShared ==
    ASSUME LaunchInv, BroadcastInv, BeginClose \/ (\E s \in Closers : Closer(s))
    PROVE  BroadcastInv'
  <1>1. UNCHANGED <<env, pc, at, awaits, arg, mine, results, hPc, op>>
    BY DEF BeginClose, Closer, launchVars, discard, joinAndDiscard, beginExit,
       beginDestroy, closerStep, nextQueue, endExit, shutdown, unregister, workerVars
  <1>2. ~NoCloser
    <2> SUFFICES ASSUME NoCloser PROVE FALSE
      OBVIOUS
    <2>1. \A s \in Closers : sPc[s] = "idle"
      BY ByBroadcast
    <2>2. ~BeginClose
      BY DEF BeginClose, NoCloser
    <2>3. \A s \in Closers : ~Closer(s)
      BY <2>1 DEF Closer, discard, joinAndDiscard, closerStep, nextQueue, endExit,
         shutdown, unregister
    <2> QED
      BY <2>2, <2>3
  <1>3. ShareOK(0)' => BroadcastInv' \/ \E s \in Closers : discard(s)
    <2> SUFFICES ASSUME UNCHANGED <<tasks, queue>>, ShareOK(0)' PROVE BroadcastInv'
      BY DEF BeginClose, Closer, launchVars, beginExit, beginDestroy, closerStep,
         nextQueue, endExit, shutdown, unregister, workerVars
    <2>1. TasksPlaced'
      BY <1>1, ByBroadcast, PlacedKept
    <2>2. TasksKeep /\ \A r \in Qpus, i \in 1 .. Len(tasks) : Holds(r, i)' => Holds(r, i)
      BY <1>1, TaskIds DEF TasksKeep, Holds
    <2>3. \A c \in Clients : FutureOK(c)'
      BY <1>1, <2>2, ByBroadcast, FutureKept
    <2>4. 0 \notin Clients
      BY WhoRuns
    <2> QED
      BY <1>1, <1>2, <2>1, <2>2, <2>3, <2>4, StepShared
  <1>4. ASSUME NEW s \in Closers, discard(s)
        PROVE  BroadcastInv'
    <2>1. PICK x \in Qpus : x = sQ[s]
      BY ByThread DEF QueueTypeOK
    <2>2. /\ queue' = [queue EXCEPT ![x] = << >>] /\ DOMAIN tasks = 1 .. Len(tasks)
          /\ DOMAIN tasks' = DOMAIN tasks
          /\ \A i \in 1 .. Len(tasks) :
                \/ tasks'[i] = tasks[i]
                \/ /\ tasks'[i] = [tasks[i] EXCEPT !.state = "broken"]
                   /\ \E j \in DOMAIN queue[x] : queue[x][j] = i
      BY <1>4, <2>1, TaskIds DEF discard, joinAndDiscard
    <2>3. /\ queue'[x] = << >> /\ \A r \in Qpus : r # x => queue'[r] = queue[r]
      BY <2>2, ByThread DEF QueueTypeOK
    <2>4. \A i \in 1 .. Len(tasks) :
            /\ tasks'[i].kind = tasks[i].kind /\ tasks'[i].out = tasks[i].out
            /\ tasks'[i].owner = tasks[i].owner
            /\ \/ tasks'[i].state = tasks[i].state
               \/ /\ tasks'[i].state = "broken"
                  /\ \E j \in DOMAIN queue[x] : queue[x][j] = i
      <3> SUFFICES ASSUME NEW i \in 1 .. Len(tasks)
                   PROVE  /\ tasks'[i].kind = tasks[i].kind /\ tasks'[i].out = tasks[i].out
                          /\ tasks'[i].owner = tasks[i].owner
                          /\ \/ tasks'[i].state = tasks[i].state
                             \/ /\ tasks'[i].state = "broken"
                                /\ \E j \in DOMAIN queue[x] : queue[x][j] = i
        OBVIOUS
      <3>1. tasks[i] \in Tasks
        BY TaskIds
      <3> QED
        BY <2>2, <3>1 DEF Tasks
    <2>5. TasksPlaced /\ \A i \in 1 .. Len(tasks) :
            (\E j \in DOMAIN queue[x] : queue[x][j] = i) =>
               /\ Holds(x, i) /\ op[x] # i /\ tasks[i].state = "pending"
               /\ \A r \in Qpus : Holds(r, i) => r = x
      <3>1. TasksPlaced
        BY ByBroadcast
      <3> QED
        BY <2>2, <3>1 DEF TasksPlaced, Holds
    <2>6. \A r \in Qpus, i \in 1 .. Len(tasks) :
            Holds(r, i)' => Holds(r, i) /\ tasks'[i].state = tasks[i].state
      <3> SUFFICES ASSUME NEW r \in Qpus, NEW i \in 1 .. Len(tasks), Holds(r, i)'
                   PROVE  Holds(r, i) /\ tasks'[i].state = tasks[i].state
        BY DEF Holds
      <3>1. Holds(r, i) /\ (r = x => op[r] = i)
        BY <1>1, <2>3 DEF Holds
      <3> QED
        BY <2>4, <2>5, <3>1
    <2>7. TasksKeep
      BY <2>2, <2>4, <2>5 DEF TasksKeep
    <2>8. TasksPlaced'
      <3>1. \A r \in Qpus : \A j \in DOMAIN queue'[r] :
              /\ queue'[r][j] # op'[r] /\ tasks'[queue'[r][j]].out = << >>
              /\ \A k \in DOMAIN queue'[r] : queue'[r][j] = queue'[r][k] => j = k
        <4> SUFFICES ASSUME NEW r \in Qpus, r # x, NEW j \in DOMAIN queue[r]
                     PROVE  /\ queue[r][j] # op[r] /\ tasks'[queue[r][j]].out = << >>
                            /\ \A k \in DOMAIN queue[r] : queue[r][j] = queue[r][k] => j = k
          BY <1>1, <2>3
        <4>1. queue[r][j] \in 1 .. Len(tasks)
          BY TaskIds
        <4> QED
          BY <2>4, <2>5, <4>1 DEF TasksPlaced
      <3> QED
        BY <1>1, <2>2, <2>5, <2>6, <2>7, <3>1, PlacesLeft
    <2>9. \A c \in Clients : FutureOK(c)'
      <3>1. \A i \in 1 .. Len(tasks) : tasks'[i].state = "value" =>
              tasks[i].state = "value" /\ tasks'[i].out = tasks[i].out
        BY <2>4
      <3> QED
        BY <1>1, <2>6, <2>7, <3>1, ByBroadcast, FutureKept
    <2>10. \A r \in Qpus : op[r] \in 1 .. Len(tasks) => tasks'[op[r]].out = tasks[op[r]].out
      BY <2>4
    <2>11. ShareOK(0)' /\ 0 \in Qpus /\ 0 \notin Clients
      BY <1>1, <2>10, <2>4, WhoRuns, ByBroadcast, ShareKept
    <2> QED
      BY <1>1, <1>2, <2>7, <2>8, <2>9, <2>10, <2>11, StepShared
  <1>5. CASE ~\E s \in Closers : discard(s)
    <2>1. UNCHANGED tasks
      BY <1>5 DEF BeginClose, Closer, launchVars
    <2>2. ShareOK(0)'
      BY <1>1, <2>1, WhoRuns, ByBroadcast, ShareKept
    <2> QED
      BY <1>3, <1>5, <2>2
  <1> QED
    BY <1>4, <1>5

LEMMA BroadcastStart == Init => BroadcastInv
  <1> SUFFICES ASSUME Init PROVE BroadcastInv
    OBVIOUS
  <1>1. /\ tasks = << >> /\ DOMAIN tasks = {}
        /\ \A q \in Qpus : hPc[q] = "wait" /\ op[q] = 0 /\ queue[q] = << >> /\ ~quit[q]
        /\ \A t \in Threads : pc[t] = "idle"
        /\ \A c \in Clients : mine[c] = << >> /\ results[c] = << >>
        /\ \A s \in Closers : sPc[s] = "idle"
    BY DEF Init, QueueInit
  <1>2. "idle" \notin Sampling /\ \A c \in Clients : pc[c] = "idle"
    BY <1>1, WhoRuns DEF Sampling
  <1>3. TasksPlaced
    BY <1>1, <1>2 DEF TasksPlaced
  <1>4. SharesGrow /\ FuturesOrdered /\ ResultsGrow /\ OwnersWait
    BY <1>1, <1>2 DEF SharesGrow, Runs, FuturesOrdered, ResultsGrow, OwnersWait
  <1> QED
    BY <1>3, <1>4 DEF BroadcastInv

(* Whoever shares the QPUs and however the argument sets divide, a task    *)
(* has one place, a worker has the results of its share in their order,    *)
(* and a client collects the shares in the order of the QPUs.              *)
THEOREM LaunchBroadcastInvariant == Spec => []BroadcastInv
  <1>1. LaunchInv /\ BroadcastInv /\ [Next]_vars => BroadcastInv'
    <2> SUFFICES ASSUME LaunchInv, BroadcastInv, [Next]_vars PROVE BroadcastInv'
      OBVIOUS
    <2>1. CASE UNCHANGED vars
      BY <2>1, NothingShared DEF vars
    <2> QED
      BY <2>1, WorkerShared, ClientShared, CloserShared DEF Next
  <1> QED
    BY <1>1, BroadcastStart, LaunchInvariant, PTL DEF Spec

(* A broadcast returns the results of its argument sets in their order, a  *)
(* result for each and fewer than NumQpus beyond them, and its tasks are   *)
(* over by then unless queues are shut down, for every number of QPUs,     *)
(* clients, tasks and argument sets.                                       *)
THEOREM LaunchBroadcastSound == Spec => []BroadcastSound
  <1>1. LaunchInv /\ BroadcastInv => BroadcastSound
    <2> SUFFICES ASSUME LaunchInv, BroadcastInv PROVE BroadcastSound
      OBVIOUS
    <2>1. BroadcastArgumentsLive
      <3> SUFFICES ASSUME NoCloser, NEW q \in Qpus, Runs(q, "broadcast")
                   PROVE  pc[tasks[op[q]].owner] \in {"enqueue", "collect"}
        BY DEF BroadcastArgumentsLive, NoCloser
      <3>1. /\ op[q] \in DOMAIN tasks /\ tasks[op[q]].kind = "broadcast"
            /\ tasks[op[q]].state # "value"
        BY RunsHeld, TaskIds DEF Runs
      <3>2. OwnerOK(op[q])
        BY <3>1, ByBroadcast
      <3> QED
        BY <3>1, <3>2 DEF OwnerOK
    <2>2. BroadcastInOrder
      <3> SUFFICES ASSUME NEW c \in Clients
                   PROVE  /\ \A i \in DOMAIN results[c] : results[c][i] = i - 1
                          /\ Len(results[c]) < env.sets + NumQpus
                          /\ env.sets % NumQpus = 0 => Len(results[c]) <= env.sets
                          /\ pc[c] = "idle" /\ results[c] # << >> =>
                                Len(results[c]) >= env.sets
        BY DEF BroadcastInOrder
      <3>1. PICK n \in Nat \ {0} : n = nExecsPerQpu
        BY ShareSize
      <3>2. PICK total \in Nat : total = NumQpus * n
        BY <3>1, WhoRuns
      <3>3. /\ env.sets <= total /\ total < env.sets + NumQpus
            /\ env.sets % NumQpus = 0 => env.sets = total
            /\ env.sets \in Nat \ {0} /\ NumQpus \in Nat \ {0}
        BY <3>1, <3>2, ShareSize, ByThread, LaunchAssumption, QueueAssumption
        DEF LaunchTypeOK
      <3>4. ResultOK(c) /\ at[c] \in 0 .. NumQpus
        BY ByBroadcast, ByThread, WhoRuns DEF LaunchTypeOK
      <3>5. PICK done \in Nat : done = at[c] * n /\ done <= total
        BY <3>1, <3>2, <3>3, <3>4
      <3>6. \A m \in Nat : /\ Len(Block(0, m)) = m
                           /\ \A i \in DOMAIN Block(0, m) : Block(0, m)[i] = i - 1
        BY DEF Block
      <3>7. CASE results[c] = << >>
        BY <3>3, <3>7
      <3>8. CASE pc[c] = "collect" /\ results[c] = Block(0, done)
        BY <3>3, <3>5, <3>6, <3>8
      <3>9. CASE results[c] = Block(0, total)
        BY <3>3, <3>6, <3>9
      <3> QED
        BY <3>1, <3>2, <3>4, <3>5, <3>7, <3>8, <3>9 DEF ResultOK
    <2> QED
      BY <2>1, <2>2 DEF BroadcastSound
  <1> QED
    BY <1>1, LaunchInvariant, LaunchBroadcastInvariant, PTL

=============================================================================
