----------------------------- MODULE MCWaitPort -----------------------------
(* Values of WaitPort's constants for TLC. *)
EXTENDS WaitPort

MCAddrs == {0, 1}
MCValues == {0, 255}
LoopTasks == {"task"}
LoopTasksAndReset == {"task", "rst"}
=============================================================================
