-------------------------------- MODULE MCOS ---------------------------------
(* The kernel on two CPUs, with every mixture of the jobs below.           *)
EXTENDS OS

Job(t, k, n) == [start |-> t, prio |-> k, size |-> n]
MCJobs == {Job(0, 0, 3), Job(0, 1, 1), Job(1, 0, 1), Job(1, 1, 3)}
=============================================================================
