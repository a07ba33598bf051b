--------------------------- MODULE ExecutionQueue ---------------------------
(***************************************************************************)
(* The execution queues of the QPUs: one worker thread per queue           *)
(* (platform/common/QuantumExecutionQueue.cpp) and the process-wide        *)
(* registry through which all queues are shut down at exit                 *)
(* (platform/qpu_utils.cpp).  A queue's mutex is never held across         *)
(* anything else, so its lock scopes are atomic; the registry's mutex is   *)
(* held while the workers are joined.                                      *)
(***************************************************************************)
EXTENDS Naturals, Sequences, FiniteSets

CONSTANTS
    NumQpus,
    Exits,      \* threads that call shutdownExecutionQueues (atexit handlers)
    Nobody      \* the registry's mutex is free

Qpus == 0 .. NumQpus - 1

(* The thread that destroys QPU q (clearQPUs) goes by the name of q.       *)
Closers == Exits \cup Qpus

ASSUME QueueAssumption ==
    /\ NumQpus \in Nat \ {0}
    /\ Exits \cap Qpus = {} /\ Nobody \notin Exits

VARIABLES
    quit, queue,        \* of each queue
    hPc,                \* its worker: in cv.wait, running a task, gone
    op,                 \* the task it runs (0: none)
    once,               \* shutdownFlag: untouched, its function runs, it has run
    registered,         \* the registry's queues
    registryMutex,
    sPc, sQ, sLeft      \* closers: program point, queue, queues to come

workerVars == <<quit, queue, hPc, op>>
closerVars == <<once, registered, registryMutex, sPc, sQ, sLeft>>
queueVars == <<workerVars, closerVars>>

QueueTypeOK(TaskIds) ==
    /\ quit \in [Qpus -> BOOLEAN] /\ queue \in [Qpus -> Seq(TaskIds)]
    /\ hPc \in [Qpus -> {"wait", "run", "gone"}]
    /\ op \in [Qpus -> TaskIds \cup {0}]
    /\ once \in [Qpus -> {"new", "running", "done"}]
    /\ registered \subseteq Qpus /\ registryMutex \in Exits \cup {Nobody}
    /\ sPc \in [Closers ->
         {"idle", "loop", "once", "join", "unregister", "returned"}]
    /\ sQ \in [Closers -> Qpus] /\ sLeft \in [Exits -> SUBSET Qpus]

QueueInit ==
    /\ quit = [q \in Qpus |-> FALSE] /\ queue = [q \in Qpus |-> << >>]
    /\ hPc = [q \in Qpus |-> "wait"] /\ op = [q \in Qpus |-> 0]
    /\ once = [q \in Qpus |-> "new"]
    /\ registered = Qpus /\ registryMutex = Nobody
    /\ sPc = [s \in Closers |-> "idle"] /\ sQ = [s \in Closers |-> 0]
    /\ sLeft = [s \in Exits |-> {}]

-----------------------------------------------------------------------------
(* enqueue throws once the queue has been told to quit.                    *)

Accepts(q) == ~quit[q]

push(q, t) ==
    /\ Accepts(q)
    /\ queue' = [queue EXCEPT ![q] = Append(@, t)]
    /\ UNCHANGED <<quit, hPc, op, closerVars>>

takeTask(q) ==
    /\ hPc[q] = "wait" /\ ~quit[q] /\ queue[q] # << >>
    /\ op' = [op EXCEPT ![q] = Head(queue[q])]
    /\ queue' = [queue EXCEPT ![q] = Tail(@)]
    /\ hPc' = [hPc EXCEPT ![q] = "run"]
    /\ UNCHANGED <<quit, closerVars>>

(* op() has returned; the lock is taken again.                             *)
taskDone(q) ==
    /\ op' = [op EXCEPT ![q] = 0]
    /\ hPc' = [hPc EXCEPT ![q] = IF quit[q] THEN "gone" ELSE "wait"]
    /\ UNCHANGED <<quit, queue, closerVars>>

quitWorker(q) ==
    /\ hPc[q] = "wait" /\ quit[q]
    /\ hPc' = [hPc EXCEPT ![q] = "gone"]
    /\ UNCHANGED <<quit, queue, op, closerVars>>

-----------------------------------------------------------------------------
(* Shutting queues down.                                                   *)

CloserGoto(s, pc) == sPc' = [sPc EXCEPT ![s] = pc]

(* ExecutionQueueRegistry::shutdown keeps the lock over the whole loop.    *)
beginExit(s) ==
    /\ s \in Exits /\ sPc[s] = "idle" /\ registryMutex = Nobody
    /\ registryMutex' = s
    /\ sLeft' = [sLeft EXCEPT ![s] = registered]
    /\ CloserGoto(s, "loop")
    /\ UNCHANGED <<workerVars, once, registered, sQ>>

nextQueue(s) ==
    /\ s \in Exits /\ sPc[s] = "loop"
    /\ \E q \in sLeft[s] :
         /\ sQ' = [sQ EXCEPT ![s] = q]
         /\ sLeft' = [sLeft EXCEPT ![s] = @ \ {q}]
    /\ CloserGoto(s, "once")
    /\ UNCHANGED <<workerVars, once, registered, registryMutex>>

endExit(s) ==
    /\ s \in Exits /\ sPc[s] = "loop" /\ sLeft[s] = {}
    /\ registryMutex' = Nobody
    /\ CloserGoto(s, "returned")
    /\ UNCHANGED <<workerVars, once, registered, sQ, sLeft>>

(* ~QuantumExecutionQueue.                                                 *)
beginDestroy(q) ==
    /\ sPc[q] = "idle"
    /\ sQ' = [sQ EXCEPT ![q] = q]
    /\ CloserGoto(q, "once")
    /\ UNCHANGED <<workerVars, once, registered, registryMutex, sLeft>>

AfterShutdown(s) == IF s \in Exits THEN "loop" ELSE "unregister"

(* Mutant of shutdown: a quit check in the place of call_once.             *)
shutdownQuitCheck(s) ==
    /\ sPc[s] = "once"
    /\ \/ /\ ~quit[sQ[s]]
          /\ once' = [once EXCEPT ![sQ[s]] = "running"]
          /\ quit' = [quit EXCEPT ![sQ[s]] = TRUE]
          /\ CloserGoto(s, "join")
       \/ /\ quit[sQ[s]]
          /\ CloserGoto(s, AfterShutdown(s)) /\ UNCHANGED <<once, quit>>
    /\ UNCHANGED <<queue, hPc, op, registered, registryMutex, sQ, sLeft>>

(* call_once: the first caller goes on to join the worker, a later one     *)
(* waits until the first has finished.                                     *)
shutdown(s) ==
    /\ sPc[s] = "once"
    /\ \/ /\ once[sQ[s]] = "new"
          /\ once' = [once EXCEPT ![sQ[s]] = "running"]
          /\ quit' = [quit EXCEPT ![sQ[s]] = TRUE]
          /\ CloserGoto(s, "join")
       \/ /\ once[sQ[s]] = "done"
          /\ CloserGoto(s, AfterShutdown(s)) /\ UNCHANGED <<once, quit>>
    /\ UNCHANGED <<queue, hPc, op, registered, registryMutex, sQ, sLeft>>

(* The worker is joined and what is still queued is discarded.             *)
joinAndDiscard(s) ==
    /\ sPc[s] = "join" /\ hPc[sQ[s]] = "gone"
    /\ queue' = [queue EXCEPT ![sQ[s]] = << >>]
    /\ once' = [once EXCEPT ![sQ[s]] = "done"]
    /\ CloserGoto(s, AfterShutdown(s))
    /\ UNCHANGED <<quit, hPc, op, registered, registryMutex, sQ, sLeft>>

unregister(q) ==
    /\ sPc[q] = "unregister" /\ registryMutex = Nobody
    /\ registered' = registered \ {q}
    /\ CloserGoto(q, "returned")
    /\ UNCHANGED <<workerVars, once, registryMutex, sQ, sLeft>>

closerStep(s) ==
    \/ nextQueue(s) \/ endExit(s) \/ shutdown(s)
    \/ s \in Qpus /\ unregister(s)

-----------------------------------------------------------------------------

Stopped(q) == hPc[q] = "gone" /\ queue[q] = << >>

(* When a shutdown returns, to its first caller or to any other, the       *)
(* worker has ended and no task is left behind.                            *)
ShutdownIsFinal ==
    /\ \A s \in Exits : sPc[s] = "returned" => \A q \in Qpus : Stopped(q)
    /\ \A q \in Qpus : sPc[q] \in {"unregister", "returned"} => Stopped(q)

(* The loop over the registry never reaches a queue that has been          *)
(* destroyed.                                                              *)
NoDestroyedQueue ==
    \A s \in Exits :
        sPc[s] \in {"loop", "once", "join"} =>
            \A q \in sLeft[s] \cup (IF sPc[s] = "loop" THEN {} ELSE {sQ[s]}) :
                sPc[q] # "returned"

-----------------------------------------------------------------------------
(* The inductive invariant behind these properties.                        *)

(* A worker that runs a task has one.                                      *)
RunnersHaveTask == \A q \in Qpus : hPc[q] = "run" => op[q] # 0

(* shutdownFlag: its function tells the queue to quit before anything      *)
(* else, and has run when the queue is at rest.  One closer runs it.       *)
OnceIsOnce ==
    /\ \A q \in Qpus : /\ once[q] # "new" => quit[q]
                       /\ once[q] = "done" => Stopped(q)
                       /\ hPc[q] = "gone" => quit[q]
    /\ \A s \in Closers : sPc[s] = "join" => once[sQ[s]] = "running"
    /\ \A s, u \in Closers :
          sPc[s] = "join" /\ sPc[u] = "join" /\ sQ[s] = sQ[u] => s = u

(* The destructor's thread closes its own queue, and unregisters it last.  *)
DestroyersSound ==
    \A q \in Qpus :
        /\ sPc[q] # "loop"
        /\ sPc[q] # "idle" => sQ[q] = q
        /\ sPc[q] \in {"unregister", "returned"} => once[q] = "done"
        /\ sPc[q] = "returned" <=> q \notin registered

(* An exit in its loop holds the registry's mutex, and every queue is      *)
(* still to come, being closed, or closed.                                 *)
ExitsSound ==
    \A s \in Exits :
        /\ sPc[s] # "unregister"
        /\ sPc[s] \in {"loop", "once", "join"} =>
              /\ registryMutex = s /\ sLeft[s] \subseteq registered
              /\ \A q \in Qpus : q \in sLeft[s] \/ once[q] = "done"
                                 \/ (sPc[s] # "loop" /\ q = sQ[s])
              /\ sPc[s] # "loop" => sQ[s] \in registered
        /\ sPc[s] = "returned" => \A q \in Qpus : once[q] = "done"

QueueInv == RunnersHaveTask /\ OnceIsOnce /\ DestroyersSound /\ ExitsSound

(* What happens to the queues, which may be given the tasks TaskIds.       *)
QueueNext(TaskIds) ==
    \/ \E q \in Qpus :
          \/ \E i \in TaskIds : push(q, i)
          \/ takeTask(q) \/ (hPc[q] = "run" /\ taskDone(q)) \/ quitWorker(q)
          \/ beginDestroy(q)
    \/ \E s \in Exits : beginExit(s)
    \/ \E s \in Closers : closerStep(s) \/ joinAndDiscard(s)

=============================================================================
