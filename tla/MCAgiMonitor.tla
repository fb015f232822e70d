---------------------------- MODULE MCAgiMonitor ----------------------------
(* Instances of AgiMonitor for TLC.                                          *)
EXTENDS AgiMonitor

MCMakers == {"monitor", "user"}
MCInsts == 1 .. 3
MCTasks == 1 .. 2
MCSizes == {1, 2, 3}

=============================================================================
