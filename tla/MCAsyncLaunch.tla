-------------------------- MODULE MCAsyncLaunch -----------------------------
(* Instances of AsyncLaunch for TLC.                                       *)
EXTENDS AsyncLaunch

CONSTANTS c1, k1, k2, k3, e1, e2

MCThreads == Qpus \cup {c1}

Plain(k) == [noisy |-> FALSE, key |-> k]
Noisy(k) == [noisy |-> TRUE, key |-> k]

Quiet ==
    [kinds |-> {}, launches |-> {}, fails |-> FALSE, seeded |-> FALSE,
     options |-> "none", sets |-> NumQpus, exits |-> {}, destroys |-> {},
     maxTasks |-> 2]

(* Failing samples of one kernel, of which only some are noisy.            *)
Failing == [Quiet EXCEPT !.kinds = {"sample"}, !.fails = TRUE,
                         !.launches = {Plain(k1), Noisy(k1)},
                         !.maxTasks = 3]
(* Three kernels compete for a cache of two.                               *)
Evicting == [Quiet EXCEPT !.kinds = {"sample"}, !.maxTasks = 3,
                          !.launches = {Plain(k1), Plain(k2), Plain(k3),
                                        Plain(NoKey)}]
(* The queues are shut down, and one is destroyed, under three samples.    *)
Leaving == [Quiet EXCEPT !.kinds = {"sample"}, !.launches = {Noisy(k1)},
                         !.exits = Exits, !.destroys = {0}, !.maxTasks = 3]
(* Failing samples, a seed, and samples on the client's own thread.        *)
Mixed == [Quiet EXCEPT !.kinds = {"sample", "sync", "seed"}, !.fails = TRUE,
                       !.launches = {Noisy(k1)}, !.maxTasks = 3]
(* A broadcast, with argument sets that cannot be shared evenly, with a    *)
(* failing kernel, with an exit or with a seed.                            *)
Spread == [Quiet EXCEPT !.kinds = {"broadcast"}, !.sets = 2 * NumQpus]
SpreadUneven == [Spread EXCEPT !.sets = 2 * NumQpus - 1]
SpreadFails == [Spread EXCEPT !.fails = TRUE]
SpreadLeaves == [Spread EXCEPT !.exits = {e1}, !.destroys = {0}]
SpreadSeeded == [Spread EXCEPT !.seeded = TRUE, !.sets = NumQpus, !.maxTasks = 4]
(* Options without and with a noise model.                                 *)
Options == [Quiet EXCEPT !.kinds = {"broadcast", "sync"}, !.options = "plain",
                         !.launches = {Plain(k1)}, !.fails = TRUE, !.maxTasks = 3]
OptionsNoise == [Options EXCEPT !.options = "noisy"]
SeededLeaves == [SpreadSeeded EXCEPT !.kinds = {"broadcast", "seed"}, !.exits = {e1}]

Usual == {Failing, Evicting, Leaving, Mixed, Spread, SpreadUneven, SpreadFails,
          SpreadLeaves, SeededLeaves, Options, OptionsNoise}

Seeded == {SpreadSeeded}
SeedAtExit == {[Quiet EXCEPT !.kinds = {"seed"}, !.exits = {e1}]}
Synchronous == {[Quiet EXCEPT !.kinds = {"sample", "sync"},
                              !.launches = {Noisy(k1)}]}
WithOptions == {[Spread EXCEPT !.options = "noisy"]}
Uneven == {[Spread EXCEPT !.sets = 1]}
Throwing == {SpreadFails}

=============================================================================
