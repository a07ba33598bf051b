---------------------------- MODULE AsyncLaunch -----------------------------
(***************************************************************************)
(* Asynchronous and broadcast execution of kernels: client threads put     *)
(* tasks on the execution queues of the QPUs, tasks launch kernels through *)
(* the compiled-module cache, and at exit the queues are shut down under   *)
(* them.  A task is                                                        *)
(*   sample     runSamplingAsync (algorithms/sample.h), with a noise model *)
(*              of its own or without one                                  *)
(*   sync       sample() on the client's own thread, on QPU 0              *)
(*   broadcast  one QPU's share of a broadcast (algorithms/broadcast.h)    *)
(*   seed       what DefaultQPU::onRandomSeedSet sends to a worker         *)
(***************************************************************************)
EXTENDS ExecutionQueue, CompiledModuleCache

CONSTANTS
    NoNoise,        \* no noise model
    NoKey,          \* a kernel that bypasses the cache
    Environments    \* what a behaviour may contain: see env

VARIABLES
    env,        \* chosen once.  kinds: what clients start.  launches: noise
                \* and kernels of their samples.  fails: compiling or running
                \* a kernel may throw.  seeded: broadcasts run with
                \* a random seed.  options: the overload that they and the
                \* samples on the client's thread use, without options, with
                \* some, or with a noise model among them.  sets: how many
                \* argument sets broadcasts have.  exits, destroys: the
                \* closers that act.  maxTasks: bound on the tasks
    tasks,      \* every task ever made; its index is its identity
    noise,      \* QPU::noiseModel, as the owner of the model it points to
    pc,         \* program point of each worker and client
    ctx,        \* ExecutionContext::noiseModel of the thread
    at,         \* index of the thread's loop over the QPUs
    awaits,     \* the task a client runs itself, or a thread waits for
    arg,        \* index of the argument set a broadcast task has reached
    mine,       \* the client's broadcast: its futures
    results,    \* the client's broadcast: allResults
    terminated  \* an exception left a worker thread

launchVars == <<tasks, noise, pc, ctx, at, awaits, arg, mine, results>>
vars == <<env, launchVars, terminated, queueVars, cacheVars>>

Clients == Threads \ Qpus

ASSUME LaunchAssumption ==
    /\ Qpus \subseteq Threads
    /\ Environments \subseteq
         [kinds : SUBSET {"sample", "sync", "seed", "broadcast"},
          launches : SUBSET [noisy : BOOLEAN, key : Keys \cup {NoKey}],
          fails : BOOLEAN, seeded : BOOLEAN, options : {"none", "plain", "noisy"},
          sets : Nat \ {0}, exits : SUBSET Exits, destroys : SUBSET Qpus,
          maxTasks : Nat]

Tasks == [kind : {"sample", "sync", "seed", "broadcast"}, noisy : BOOLEAN,
          key : Keys \cup {NoKey}, owner : Threads, out : Seq(Nat),
          state : {"pending", "value", "exception", "broken"}]

(* Type correctness of the queues, the cache, the tasks and the threads.   *)
TypeOK ==
    /\ QueueTypeOK(1 .. Len(tasks)) /\ CacheTypeOK
    /\ env \in Environments /\ terminated \in BOOLEAN
    /\ tasks \in Seq(Tasks)
    /\ noise \in [Qpus -> (1 .. Len(tasks)) \cup Clients \cup {NoNoise}]
    /\ pc \in [Threads -> {"idle", "begin", "seeding", "seedWait", "preamble",
         "launch", "cache", "execute", "ok", "threw", "resolveOk",
         "resolveThrew", "enqueue", "collect"}]
    /\ ctx \in [Threads -> (1 .. Len(tasks)) \cup Clients \cup {NoNoise}]
    /\ at \in [Threads -> 0 .. NumQpus] /\ awaits \in [Threads -> 0 .. Len(tasks)]
    /\ arg \in [Qpus -> Nat]
    /\ mine \in [Clients -> Seq(1 .. Len(tasks))]
    /\ results \in [Clients -> Seq(Nat)]

Init ==
    /\ QueueInit /\ CacheInit
    /\ env \in Environments /\ terminated = FALSE
    /\ tasks = << >> /\ noise = [q \in Qpus |-> NoNoise]
    /\ pc = [t \in Threads |-> "idle"] /\ ctx = [t \in Threads |-> NoNoise]
    /\ at = [t \in Threads |-> 0] /\ awaits = [t \in Threads |-> 0]
    /\ arg = [q \in Qpus |-> 0]
    /\ mine = [c \in Clients |-> << >>] /\ results = [c \in Clients |-> << >>]

Goto(t, p) == pc' = [pc EXCEPT ![t] = p]
MakeTask(kind, noisy, key, t) ==
    [kind |-> kind, noisy |-> noisy, key |-> key, owner |-> t,
     out |-> << >>, state |-> "pending"]

(* enqueueAsyncTask.                                                       *)
submit(q, task) == push(q, Len(tasks) + 1) /\ tasks' = Append(tasks, task)
Room(n) == Len(tasks) + n <= env.maxTasks

(* The overloads with options, on the client's thread: set_noise on QPU 0  *)
(* if the options have a model, reset_noise at the end in any case.        *)
setNoise(c) ==
    noise' = IF env.options = "noisy" THEN [noise EXCEPT ![0] = c] ELSE noise
resetNoise ==
    noise' = IF env.options # "none" THEN [noise EXCEPT ![0] = NoNoise] ELSE noise

-----------------------------------------------------------------------------
(* set_random_seed: DefaultQPU::onRandomSeedSet for each QPU in turn.  On  *)
(* the QPU's own worker the seed is set at once; anyone else sends a task  *)
(* there and waits for it.                                                 *)

seedNext(t) ==
    /\ pc[t] = "seeding" /\ at[t] < NumQpus
    /\ \/ /\ at[t] = t
          /\ at' = [at EXCEPT ![t] = @ + 1]
          /\ UNCHANGED <<tasks, pc, awaits, queueVars>>
       \/ /\ at[t] # t
          /\ submit(at[t], MakeTask("seed", FALSE, NoKey, t))
          /\ awaits' = [awaits EXCEPT ![t] = Len(tasks) + 1]
          /\ Goto(t, "seedWait") /\ UNCHANGED at
    /\ UNCHANGED <<env, noise, ctx, arg, mine, results, terminated, cacheVars>>

(* The queue refuses the task: in a client set_random_seed throws, in a    *)
(* worker nothing catches the exception.                                   *)
seedRefused(t) ==
    /\ pc[t] = "seeding" /\ at[t] < NumQpus /\ at[t] # t
    /\ ~Accepts(at[t])
    /\ Goto(t, "idle")
    /\ terminated' = (t \in Qpus)
    /\ UNCHANGED <<env, tasks, noise, ctx, at, awaits, arg, mine, results>>
    /\ UNCHANGED <<queueVars, cacheVars>>

(* completed.get().                                                        *)
seedWaited(t) ==
    /\ pc[t] = "seedWait" /\ tasks[awaits[t]].state = "value"
    /\ Goto(t, "seeding") /\ at' = [at EXCEPT ![t] = @ + 1]
    /\ UNCHANGED <<env, tasks, noise, ctx, awaits, arg, mine, results, terminated>>
    /\ UNCHANGED <<queueVars, cacheVars>>

seeded(t) ==
    /\ pc[t] = "seeding" /\ at[t] = NumQpus
    /\ Goto(t, IF t \in Qpus THEN "preamble" ELSE "idle")
    /\ UNCHANGED <<env, tasks, noise, ctx, at, awaits, arg, mine, results>>
    /\ UNCHANGED <<terminated, queueVars, cacheVars>>

setRandomSeed(t) == seedNext(t) \/ seedRefused(t) \/ seedWaited(t) \/ seeded(t)

-----------------------------------------------------------------------------
(* runSampling, on a worker or on the client's own thread.                 *)

Current(t) == IF t \in Qpus THEN op[t] ELSE awaits[t]
QpuOf(t) == IF t \in Qpus THEN t ELSE 0

(* samplePreamble: the context points to what the QPU points to now.       *)
preamble(t) ==
    /\ pc[t] = "preamble"
    /\ ctx' = [ctx EXCEPT ![t] = noise[QpuOf(t)]]
    /\ Goto(t, "launch")
    /\ UNCHANGED <<env, tasks, noise, at, awaits, arg, mine, results, terminated>>
    /\ UNCHANGED <<queueVars, cacheVars>>

(* pyLaunchModule resolves the kernel through the cache if it has a key,   *)
(* else compiles it for this call only.                                    *)
launch(t) ==
    /\ pc[t] = "launch"
    /\ LET key == tasks[Current(t)].key IN
         \/ key # NoKey /\ getOrCompile(t, key) /\ Goto(t, "cache")
         \/ /\ key = NoKey /\ UNCHANGED cacheVars
            /\ Goto(t, "execute") \/ (env.fails /\ Goto(t, "threw"))
    /\ UNCHANGED <<env, tasks, noise, ctx, at, awaits, arg, mine, results>>
    /\ UNCHANGED <<terminated, queueVars>>

inCache(t) ==
    /\ pc[t] = "cache"
    /\ \/ cacheStep(t, env.fails) /\ UNCHANGED pc
       \/ leaveCache(t) /\ Goto(t, IF tPc[t] = "have" THEN "execute" ELSE "threw")
    /\ UNCHANGED <<env, tasks, noise, ctx, at, awaits, arg, mine, results>>
    /\ UNCHANGED <<terminated, queueVars>>

(* The kernel runs under the noise model its context points to.            *)
execute(t) ==
    /\ pc[t] = "execute"
    /\ Goto(t, "ok") \/ (env.fails /\ Goto(t, "threw"))
    /\ UNCHANGED <<env, tasks, noise, ctx, at, awaits, arg, mine, results>>
    /\ UNCHANGED <<terminated, queueVars, cacheVars>>

runSampling(t) == preamble(t) \/ launch(t) \/ inCache(t) \/ execute(t)

-----------------------------------------------------------------------------
(* Tasks on a worker.                                                      *)

Runs(q, kind) == hPc[q] = "run" /\ tasks[op[q]].kind = kind

take(q) ==
    /\ takeTask(q) /\ Goto(q, "begin")
    /\ UNCHANGED <<env, tasks, noise, ctx, at, awaits, arg, mine, results>>
    /\ UNCHANGED <<terminated, cacheVars>>

quitted(q) == quitWorker(q) /\ UNCHANGED <<env, launchVars, terminated, cacheVars>>

(* The promise is set, the task is over.                                   *)
resolve(q, state) ==
    /\ tasks' = [tasks EXCEPT ![op[q]].state = state]
    /\ Goto(q, "idle") /\ taskDone(q)
    /\ UNCHANGED <<env, noise, ctx, at, awaits, arg, mine, results, terminated>>
    /\ UNCHANGED cacheVars

seedTask(q) == Runs(q, "seed") /\ pc[q] = "begin" /\ resolve(q, "value")

sampleBegin(q) ==
    /\ Runs(q, "sample") /\ pc[q] = "begin"
    /\ noise' = IF tasks[op[q]].noisy THEN [noise EXCEPT ![q] = op[q]] ELSE noise
    /\ Goto(q, "preamble")
    /\ UNCHANGED <<env, tasks, ctx, at, awaits, arg, mine, results, terminated>>
    /\ UNCHANGED <<queueVars, cacheVars>>

(* Mutant of sampleEnd: the noise model is not reset when the kernel       *)
(* throws.                                                                 *)
sampleEndOkOnly(q) ==
    /\ Runs(q, "sample") /\ pc[q] \in {"ok", "threw"}
    /\ noise' = IF tasks[op[q]].noisy /\ pc[q] = "ok"
                  THEN [noise EXCEPT ![q] = NoNoise] ELSE noise
    /\ Goto(q, IF pc[q] = "ok" THEN "resolveOk" ELSE "resolveThrew")
    /\ UNCHANGED <<env, tasks, ctx, at, awaits, arg, mine, results, terminated>>
    /\ UNCHANGED <<queueVars, cacheVars>>

(* The noise model is reset on both ways out, then the promise is set.     *)
sampleEnd(q) ==
    /\ Runs(q, "sample") /\ pc[q] \in {"ok", "threw"}
    /\ noise' = IF tasks[op[q]].noisy
                  THEN [noise EXCEPT ![q] = NoNoise] ELSE noise
    /\ Goto(q, IF pc[q] = "ok" THEN "resolveOk" ELSE "resolveThrew")
    /\ UNCHANGED <<env, tasks, ctx, at, awaits, arg, mine, results, terminated>>
    /\ UNCHANGED <<queueVars, cacheVars>>

sampleResolve(q) ==
    /\ Runs(q, "sample")
    /\ \/ pc[q] = "resolveOk" /\ resolve(q, "value")
       \/ pc[q] = "resolveThrew" /\ resolve(q, "exception")

nExecsPerQpu == env.sets \div NumQpus + (IF env.sets % NumQpus = 0 THEN 0 ELSE 1)
lowerBound(q) == q * nExecsPerQpu
upperBound(q) == lowerBound(q) + nExecsPerQpu

(* The next argument set, after another set_random_seed if there is a seed.*)
(* Every share has nExecsPerQpu sets, so that the last ones may lie beyond *)
(* the end of the argument vectors: their results are of no argument set.  *)
applyNext(q, i) ==
    /\ arg' = [arg EXCEPT ![q] = i] /\ at' = [at EXCEPT ![q] = 0]
    /\ Goto(q, IF env.seeded THEN "seeding" ELSE "preamble")

broadcastBegin(q) ==
    /\ Runs(q, "broadcast") /\ pc[q] = "begin"
    /\ applyNext(q, lowerBound(q))
    /\ UNCHANGED <<env, tasks, noise, ctx, awaits, mine, results, terminated>>
    /\ UNCHANGED <<queueVars, cacheVars>>

broadcastApplied(q) ==
    /\ Runs(q, "broadcast") /\ pc[q] = "ok"
    /\ tasks' = [tasks EXCEPT ![op[q]].out = Append(@, arg[q])]
    /\ IF arg[q] + 1 < upperBound(q) THEN applyNext(q, arg[q] + 1)
                                     ELSE Goto(q, "resolveOk") /\ UNCHANGED <<arg, at>>
    /\ UNCHANGED <<env, noise, ctx, awaits, mine, results, terminated>>
    /\ UNCHANGED <<queueVars, cacheVars>>

broadcastResolve(q) ==
    Runs(q, "broadcast") /\ pc[q] = "resolveOk" /\ resolve(q, "value")

(* The task has no handler: std::terminate.                                *)
broadcastThrows(q) ==
    /\ Runs(q, "broadcast") /\ pc[q] = "threw"
    /\ terminated' = TRUE
    /\ UNCHANGED <<env, launchVars, queueVars, cacheVars>>

Worker(q) ==
    \/ take(q) \/ quitted(q) \/ seedTask(q)
    \/ sampleBegin(q) \/ sampleEnd(q) \/ sampleResolve(q)
    \/ broadcastBegin(q) \/ broadcastApplied(q) \/ broadcastResolve(q)
    \/ broadcastThrows(q)
    \/ setRandomSeed(q) \/ runSampling(q)

-----------------------------------------------------------------------------
(* Clients.                                                                *)

Idle(c, kind, n) == pc[c] = "idle" /\ kind \in env.kinds /\ Room(n)

(* After a shutdown the call throws and changes nothing.                   *)
sampleAsync(c) ==
    /\ Idle(c, "sample", 1)
    /\ \E q \in Qpus, l \in env.launches :
         submit(q, MakeTask("sample", l.noisy, l.key, c))
    /\ UNCHANGED <<env, noise, pc, ctx, at, awaits, arg, mine, results>>
    /\ UNCHANGED <<terminated, cacheVars>>

sampleSync(c) ==
    /\ Idle(c, "sync", 1)
    /\ \E key \in Keys \cap {l.key : l \in env.launches} :
         tasks' = Append(tasks, MakeTask("sync", FALSE, key, c))
    /\ awaits' = [awaits EXCEPT ![c] = Len(tasks) + 1]
    /\ setNoise(c) /\ Goto(c, "preamble")
    /\ UNCHANGED <<env, ctx, at, arg, mine, results, terminated>>
    /\ UNCHANGED <<queueVars, cacheVars>>

(* An exception leaves the call before reset_noise.                        *)
sampleSyncReturns(c) ==
    /\ pc[c] \in {"ok", "threw"}
    /\ tasks' = [tasks EXCEPT ![awaits[c]].state =
         IF pc[c] = "ok" THEN "value" ELSE "exception"]
    /\ IF pc[c] = "ok" THEN resetNoise ELSE UNCHANGED noise
    /\ Goto(c, "idle")
    /\ UNCHANGED <<env, ctx, at, awaits, arg, mine, results, terminated>>
    /\ UNCHANGED <<queueVars, cacheVars>>

callSetRandomSeed(c) ==
    /\ Idle(c, "seed", NumQpus)
    /\ Goto(c, "seeding") /\ at' = [at EXCEPT ![c] = 0]
    /\ UNCHANGED <<env, tasks, noise, ctx, awaits, arg, mine, results, terminated>>
    /\ UNCHANGED <<queueVars, cacheVars>>

(* sample(options, kernel, argument sets) and its overload without options.*)
broadcast(c) ==
    /\ Idle(c, "broadcast",
            IF env.seeded THEN NumQpus + env.sets * (NumQpus - 1) ELSE NumQpus)
    /\ setNoise(c) /\ Goto(c, "enqueue") /\ at' = [at EXCEPT ![c] = 0]
    /\ mine' = [mine EXCEPT ![c] = << >>] /\ results' = [results EXCEPT ![c] = << >>]
    /\ UNCHANGED <<env, tasks, ctx, awaits, arg, terminated, queueVars, cacheVars>>

(* Each QPU's task captures the arguments by reference.                    *)
broadcastEnqueue(c) ==
    /\ pc[c] = "enqueue" /\ at[c] < NumQpus
    /\ \/ /\ submit(at[c], MakeTask("broadcast", FALSE, NoKey, c))
          /\ mine' = [mine EXCEPT ![c] = Append(@, Len(tasks) + 1)]
          /\ at' = [at EXCEPT ![c] = @ + 1] /\ UNCHANGED pc
       \/ /\ ~Accepts(at[c]) /\ Goto(c, "idle")
          /\ UNCHANGED <<tasks, mine, at, queueVars>>
    /\ UNCHANGED <<env, noise, ctx, awaits, arg, results, terminated, cacheVars>>

broadcastEnqueued(c) ==
    /\ pc[c] = "enqueue" /\ at[c] = NumQpus
    /\ Goto(c, "collect") /\ at' = [at EXCEPT ![c] = 0]
    /\ UNCHANGED <<env, tasks, noise, ctx, awaits, arg, mine, results, terminated>>
    /\ UNCHANGED <<queueVars, cacheVars>>

(* f.get() for the next future; a discarded task breaks its promise and    *)
(* the exception leaves the call.                                          *)
broadcastCollect(c) ==
    /\ pc[c] = "collect" /\ at[c] < NumQpus
    /\ LET f == tasks[mine[c][at[c] + 1]] IN
         \/ /\ f.state = "value"
            /\ results' = [results EXCEPT ![c] = @ \o f.out]
            /\ at' = [at EXCEPT ![c] = @ + 1] /\ UNCHANGED pc
         \/ /\ f.state = "broken"
            /\ results' = [results EXCEPT ![c] = << >>]
            /\ Goto(c, "idle") /\ UNCHANGED at
    /\ UNCHANGED <<env, tasks, noise, ctx, awaits, arg, mine, terminated>>
    /\ UNCHANGED <<queueVars, cacheVars>>

(* Mutant of broadcastReturns: the last future is not waited for.          *)
broadcastReturnsEarly(c) ==
    /\ pc[c] = "collect" /\ at[c] = NumQpus - 1
    /\ Goto(c, "idle")
    /\ UNCHANGED <<env, tasks, noise, ctx, at, awaits, arg, mine, results>>
    /\ UNCHANGED <<terminated, queueVars, cacheVars>>

broadcastReturns(c) ==
    /\ pc[c] = "collect" /\ at[c] = NumQpus
    /\ resetNoise /\ Goto(c, "idle")
    /\ UNCHANGED <<env, tasks, ctx, at, awaits, arg, mine, results, terminated>>
    /\ UNCHANGED <<queueVars, cacheVars>>

(* What a client does inside a call.                                       *)
Client(c) ==
    \/ setRandomSeed(c) \/ runSampling(c) \/ sampleSyncReturns(c)
    \/ broadcastEnqueue(c) \/ broadcastEnqueued(c)
    \/ broadcastCollect(c) \/ broadcastReturns(c)

Calls(c) ==
    sampleAsync(c) \/ sampleSync(c) \/ callSetRandomSeed(c) \/ broadcast(c)

-----------------------------------------------------------------------------
(* Shutdown.                                                               *)

(* A discarded task takes its promise with it, unless the promise is on    *)
(* the stack of the thread that waits (onRandomSeedSet).                   *)
discard(s) ==
    /\ joinAndDiscard(s)
    /\ tasks' = [i \in DOMAIN tasks |->
         IF tasks[i].kind # "seed" /\ i \in {queue[sQ[s]][j] : j \in DOMAIN queue[sQ[s]]}
           THEN [tasks[i] EXCEPT !.state = "broken"] ELSE tasks[i]]
    /\ UNCHANGED <<env, noise, pc, ctx, at, awaits, arg, mine, results>>
    /\ UNCHANGED <<terminated, cacheVars>>

BeginClose ==
    /\ \/ \E s \in env.exits : beginExit(s)
       \/ \E q \in env.destroys : beginDestroy(q)
    /\ UNCHANGED <<env, launchVars, terminated, cacheVars>>

Closer(s) ==
    \/ closerStep(s) /\ UNCHANGED <<env, launchVars, terminated, cacheVars>>
    \/ discard(s)

Next ==
    /\ ~terminated
    /\ \/ \E q \in Qpus : Worker(q)
       \/ \E c \in Clients : Calls(c) \/ Client(c)
       \/ BeginClose
       \/ \E s \in Closers : Closer(s)

Spec == Init /\ [][Next]_vars

(* Every thread that is inside a call, and every worker, keeps running.    *)
FairSpec ==
    /\ Spec
    /\ \A q \in Qpus : WF_vars(~terminated /\ Worker(q))
    /\ \A c \in Clients : WF_vars(~terminated /\ Client(c))
    /\ \A s \in Closers : WF_vars(~terminated /\ Closer(s))

-----------------------------------------------------------------------------

OwnModel(t) ==
    LET i == Current(t) IN
    IF tasks[i].noisy THEN i
    ELSE IF tasks[i].kind \in {"broadcast", "sync"} /\ env.options = "noisy"
      THEN tasks[i].owner
    ELSE NoNoise

(* A task executes under the noise model it was given, and under none if   *)
(* it was given none: what earlier tasks on the QPU set has been reset,    *)
(* also when they failed.  (Calls with options are left out: they set and  *)
(* reset the model of QPU 0 from the client's thread, beside its worker.)  *)
TasksRunUnderOwnNoise ==
    env.options = "none" =>
        \A q \in Qpus : pc[q] = "execute" => ctx[q] = OwnModel(q)

(* The same for every call, whichever thread makes it.                     *)
NoisePrivate ==
    \A t \in Threads : pc[t] = "execute" => ctx[t] = OwnModel(t)

(* Execution i of a broadcast uses argument set i and its result is the    *)
(* i-th returned.  There is one for every argument set, and behind them    *)
(* the executions beyond the argument vectors, fewer than there are QPUs   *)
(* and none if the sets can be shared evenly.                              *)
BroadcastInOrder ==
    \A c \in Clients :
        /\ \A i \in DOMAIN results[c] : results[c][i] = i - 1
        /\ Len(results[c]) < env.sets + NumQpus
        /\ env.sets % NumQpus = 0 => Len(results[c]) <= env.sets
        /\ pc[c] = "idle" /\ results[c] # << >> => Len(results[c]) >= env.sets

(* "Results are collected from the execution of every argument set": there *)
(* are no others.  (Refuted where the QPUs do not divide the sets.)        *)
OneResultPerSet == \A c \in Clients : Len(results[c]) <= env.sets

(* While a task of a broadcast runs, the call whose arguments it refers to *)
(* has not returned.  (Queues that are shut down meanwhile are left out: a *)
(* broken promise then ends the call while other QPUs run its tasks.)      *)
BroadcastArgumentsLive ==
    env.exits \cup env.destroys = {} =>
        \A q \in Qpus : Runs(q, "broadcast") =>
            pc[tasks[op[q]].owner] \in {"enqueue", "collect"}

(* Every future is resolved, with a value, an exception or a broken        *)
(* promise, also when its queue is shut down first.  (The tasks are        *)
(* bounded, so there must come a time when none is pending.  Seeded        *)
(* broadcasts are left out here and below: see EveryBroadcastReturns.)     *)
EveryFutureResolves ==
    []<>(terminated \/ env.seeded \/
         \A i \in DOMAIN tasks : tasks[i].kind # "seed" => tasks[i].state # "pending")

(* A call to sample, set_random_seed or a broadcast returns to its client. *)
EveryCallReturns ==
    \A c \in Clients : []<>(terminated \/ env.seeded \/ pc[c] = "idle")

(* Every shutdown returns, whoever else is shutting down or destroying the *)
(* same queue and whatever the workers are running.                        *)
EveryShutdownReturns ==
    []<>(terminated \/ env.seeded \/ \A s \in Closers : sPc[s] \in {"idle", "returned"})

(* A broadcast returns its results, with a random seed set as well.        *)
EveryBroadcastReturns ==
    \A c \in Clients : pc[c] = "collect" ~> (terminated \/ pc[c] = "idle")

(* No failure of a kernel ends the process.                                *)
NoTerminate == ~terminated

(* The cache never misleads a launch: what it finds is the module of its   *)
(* key, what it waits for has a producer, and what is kept is the latest.  *)
CacheSound == TypeOK /\ AttemptsHaveProducers /\ RightModule /\ ReadyAreLatest

(* A queue that has been shut down is at rest, and nobody touches one that *)
(* has been destroyed.                                                     *)
QueuesSound == ShutdownIsFinal /\ NoDestroyedQueue

(* A broadcast returns the results of its argument sets in their order,    *)
(* and its tasks are over when it returns, unless queues are shut down.    *)
BroadcastSound == BroadcastInOrder /\ BroadcastArgumentsLive

(* Nobody waits forever: futures resolve, and calls and shutdowns return.  *)
EveryWaitEnds == EveryFutureResolves /\ EveryCallReturns /\ EveryShutdownReturns

-----------------------------------------------------------------------------
(* The inductive invariant behind CacheSound and TasksRunUnderOwnNoise.    *)

Sampling == {"preamble", "launch", "cache", "execute", "ok", "threw"}

(* A worker is inside a task only while its queue is, and a client only    *)
(* where it has called something.                                          *)
ThreadsSound ==
    /\ \A q \in Qpus : pc[q] # "idle" => hPc[q] = "run"
    /\ \A c \in Clients :
          /\ pc[c] \in Sampling => awaits[c] # 0
          /\ pc[c] = "enqueue" => Len(mine[c]) = at[c]
          /\ pc[c] = "collect" => Len(mine[c]) = NumQpus
    /\ \A t \in Threads : pc[t] = "seedWait" => awaits[t] # 0 /\ at[t] < NumQpus

(* Only a sample has a noise model, and only a broadcast sets seeds.       *)
KindsSound ==
    /\ \A i \in DOMAIN tasks : tasks[i].noisy => tasks[i].kind = "sample"
    /\ \A q \in Qpus : pc[q] \in {"seeding", "seedWait"} => Runs(q, "broadcast")

(* A QPU points to the model of the noisy sample its worker is executing,  *)
(* and to none otherwise.                                                  *)
NoiseSound ==
    env.options = "none" =>
        /\ \A q \in Qpus : noise[q] =
              IF pc[q] \in Sampling /\ tasks[op[q]].noisy THEN op[q] ELSE NoNoise
        /\ \A q \in Qpus : pc[q] \in {"launch", "cache", "execute"} =>
              ctx[q] = IF tasks[op[q]].noisy THEN op[q] ELSE NoNoise

LaunchInv == TypeOK /\ CacheInv /\ QueueInv /\ ThreadsSound /\ KindsSound /\ NoiseSound

-----------------------------------------------------------------------------
(* The inductive invariant behind BroadcastSound.                          *)

(* Worker q has task i, or will take it out of its queue.                  *)
Holds(q, i) == op[q] = i \/ \E j \in DOMAIN queue[q] : queue[q][j] = i

(* A task that is held is pending, has one place, and is not one that a    *)
(* client runs itself; a queued one has not begun.                         *)
TasksPlaced ==
    /\ \A q, r \in Qpus, i \in DOMAIN tasks : Holds(q, i) /\ Holds(r, i) => q = r
    /\ \A q \in Qpus, i \in DOMAIN tasks :
          Holds(q, i) => tasks[i].state = "pending" /\ tasks[i].kind # "sync"
    /\ \A q \in Qpus : \A j \in DOMAIN queue[q] :
          /\ queue[q][j] # op[q] /\ tasks[queue[q][j]].out = << >>
          /\ \A k \in DOMAIN queue[q] : queue[q][j] = queue[q][k] => j = k
    /\ \A c \in Clients : pc[c] \in Sampling => tasks[awaits[c]].kind = "sync"

(* The results of the first m argument sets from a on.                     *)
Block(a, m) == [j \in 1 .. m |-> a + j - 1]

(* A worker in a broadcast has the results of its share up to where it is. *)
SharesGrow ==
    \A q \in Qpus : Runs(q, "broadcast") =>
        LET out == tasks[op[q]].out IN
        /\ pc[q] = "begin" => out = << >>
        /\ pc[q] \in Sampling \cup {"seeding", "seedWait"} =>
              /\ arg[q] \in lowerBound(q) .. upperBound(q) - 1
              /\ out = Block(lowerBound(q), arg[q] - lowerBound(q))
        /\ pc[q] = "resolveOk" => out = Block(lowerBound(q), nExecsPerQpu)

(* The futures of a broadcast are those of the QPUs in their order, and    *)
(* give the share of their QPU.                                            *)
FuturesOrdered ==
    \A c \in Clients : \A k \in DOMAIN mine[c] :
        /\ tasks[mine[c][k]].kind = "broadcast"
        /\ \A q \in Qpus : Holds(q, mine[c][k]) => q = k - 1
        /\ tasks[mine[c][k]].state = "value" =>
              tasks[mine[c][k]].out = Block(lowerBound(k - 1), nExecsPerQpu)

(* A client has collected the shares of the QPUs before the one it is at,  *)
(* and has all of them or none once the call is over.                      *)
ResultsGrow ==
    \A c \in Clients :
        /\ pc[c] = "enqueue" => results[c] = << >>
        /\ pc[c] = "collect" => results[c] = Block(0, at[c] * nExecsPerQpu)
        /\ pc[c] \notin {"enqueue", "collect"} =>
              results[c] \in {<< >>, Block(0, NumQpus * nExecsPerQpu)}

(* While no queue is shut down, nothing is refused or discarded, and the   *)
(* owner of a broadcast task without a value has still to get its future.  *)
OwnersWait ==
    env.exits \cup env.destroys = {} =>
        /\ \A s \in Closers : sPc[s] = "idle"
        /\ \A q \in Qpus : ~quit[q]
        /\ \A i \in DOMAIN tasks : tasks[i].state # "broken"
        /\ \A i \in DOMAIN tasks :
              tasks[i].kind = "broadcast" /\ tasks[i].state # "value" =>
                  LET c == tasks[i].owner IN
                  /\ c \in Clients /\ pc[c] \in {"enqueue", "collect"}
                  /\ \E k \in DOMAIN mine[c] :
                        mine[c][k] = i /\ (pc[c] = "collect" => k > at[c])

BroadcastInv ==
    TasksPlaced /\ SharesGrow /\ FuturesOrdered /\ ResultsGrow /\ OwnersWait

=============================================================================
