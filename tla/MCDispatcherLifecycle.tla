------------------------ MODULE MCDispatcherLifecycle ------------------------
(***************************************************************************)
(* Instances of DispatcherLifecycle: two dispatchers over two bridges.     *)
(***************************************************************************)
EXTENDS DispatcherLifecycle

CONSTANTS m1, m2, h1, h2, d1, d2

MCManagers == {m1, m2}
MCHandles == {h1, h2}
MCDispatchers == {d1, d2}

Bridge(l, u) == [lib |-> l, unified |-> u, slots |-> 2, fpga |-> FALSE]
Config(h, u, s) == [host |-> h, unified |-> u, slots |-> s]

Careful(ms, cfgs, brs, calls) ==
    [managers |-> ms, configs |-> cfgs, bridges |-> brs, calls |-> calls,
     handles |-> {h1}, tables |-> {"host"}, flag |-> "works", fails |-> FALSE, careless |-> {}]

(* Host dispatchers in both shapes over bridges in both shapes, or over    *)
(* the application's own memory.                                           *)
Host == Careful({m1}, {Config(TRUE, TRUE, 0), Config(TRUE, FALSE, 3)},
                {Bridge("udp", TRUE), Bridge("udp", FALSE)}, {"set_plane"})

(* Managers on the three providers, one at a time per bridge.              *)
Calls == [Careful({m1, m2}, {},
                  {Bridge("cpu_roce", FALSE), Bridge("gpu_roce", FALSE), Bridge("udp", FALSE)},
                  {"connect", "launch", "disconnect"})
            EXCEPT !.handles = Handles]

(* The dispatcher's own kernel, whose starts may fail.                     *)
Linking == [Careful({m1}, {Config(FALSE, TRUE, 0)}, {Bridge("gpu_roce", TRUE)}, {"lookup"})
              EXCEPT !.fails = TRUE, !.tables = {"host", "app"}]

(* The application's launcher, and a bridge with one of its own.           *)
Override == [Careful({m1}, {Config(FALSE, TRUE, 0)},
                     {Bridge("external", TRUE), Bridge("gpu_roce", TRUE)}, {"set_unified_launch"})
              EXCEPT !.fails = TRUE]

(* Kernels that cannot be told to stop.                                    *)
Orphan == [Careful({m1}, {Config(FALSE, TRUE, 0)}, {Bridge("gpu_roce", TRUE)}, {"lookup"})
              EXCEPT !.flag = "fails"]

(* Ring dispatchers on the device.                                         *)
Ring == [Careful({m1}, {Config(FALSE, FALSE, 0)},
                 {Bridge("gpu_roce", FALSE), Bridge("gpu_roce", TRUE)}, {})
           EXCEPT !.handles = Handles]

MCEnvironments == {Host, Calls, Linking, Override, Orphan, Ring}

-----------------------------------------------------------------------------
(* The instances of the counterexamples.                                   *)

(* Writing the flag fails now and then.                                    *)
MCFlaky == {[Linking EXCEPT !.flag = "either"]}
MCOrphan == {Orphan}
(* The owner starts again without clearing its flag.                       *)
MCFlag == {[Ring EXCEPT !.careless = {"flag"}]}

CpuRoce(fpga) == [Bridge("cpu_roce", FALSE) EXCEPT !.fpga = fpga]

(* Two managers on one bridge; one destroys what the other is connecting.  *)
MCRace == {[Calls EXCEPT !.bridges = {CpuRoce(FALSE)}, !.careless = {"race"}]}
MCCancel == {[Calls EXCEPT !.bridges = {CpuRoce(FALSE)}, !.careless = {"cancel"}]}
MCReconnect == {[Calls EXCEPT !.bridges = {CpuRoce(TRUE)}, !.careless = {"reconnect"}]}
(* gpu_roce is launched twice, or destroyed without a disconnect.          *)
MCRelaunch == {[Calls EXCEPT !.bridges = {Bridge("gpu_roce", FALSE)}, !.careless = {"relaunch"}]}
MCLeave == {[Calls EXCEPT !.bridges = {Bridge("gpu_roce", FALSE)}, !.careless = {"leave"}]}

=============================================================================
