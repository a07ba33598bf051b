---------------------------- MODULE MCSharedRing ----------------------------
(* Finite instances of SharedRingService.                                  *)
EXTENDS SharedRingService

MCFunctionIds == {"host", "device", "graph", "null"}
MCTable == [f \in MCFunctionIds |->
              CASE f = "host" -> "HOST_CALL" [] f = "graph" -> "GRAPH_LAUNCH"
                [] f \in {"device", "null"} -> "DEVICE_CALL"]
Calls(fns) == [magic : {TRUE}, fn : fns]
Bad == [magic |-> FALSE, fn |-> "host"]

(* The plain kernel beside a host loop.                                    *)
Beside == [host |-> TRUE, graph |-> FALSE, budget |-> 0, triggered |-> FALSE,
           again |-> FALSE, maxArrivals |-> 3,
           arriving |-> Calls({"host", "device"})]

(* The graph kernel alone: more triggers than an execution has launches;   *)
(* child graphs.  And beside a host loop, stopped and launched again.      *)
Triggers == [host |-> FALSE, graph |-> TRUE, budget |-> 1, triggered |-> TRUE,
             again |-> FALSE, maxArrivals |-> 4, arriving |-> Calls({"device"})]
Graphs == [Triggers EXCEPT !.budget = 3, !.maxArrivals = 3,
                           !.arriving = Calls({"device", "graph"})]
GraphsBeside == [Graphs EXCEPT !.host = TRUE, !.again = TRUE, !.maxArrivals = 2,
                               !.arriving = Calls({"host", "graph"}) \cup {Bad}]

(* The same with bad magic, and an entry without a handler among the       *)
(* kernel's.                                                               *)
Incomplete == [Beside EXCEPT !.maxArrivals = 2,
                             !.arriving = Calls({"host", "null"}) \cup {Bad}]

MCDeployments == {Beside, Triggers, Graphs, GraphsBeside, Incomplete}

(* What the counterexamples meet.                                          *)
Served == {[Beside EXCEPT !.arriving = Calls({"host", "device"})]}
GraphsOnly == {[Graphs EXCEPT !.arriving = Calls({"graph"})]}
Exhausted == {[Graphs EXCEPT !.budget = 1, !.arriving = Calls({"graph"})]}
Restarted == {[Graphs EXCEPT !.again = TRUE]}
Waiting == {Triggers}

=============================================================================
