-------------------------------- MODULE MCTurns --------------------------------
(* The kernel on two CPUs with the history of its processes, and every     *)
(* mixture of the jobs below, one of them as long as two quanta and more.  *)
EXTENDS Turns

Job(t, k, n) == [start |-> t, prio |-> k, size |-> n]
MCJobs == {Job(0, 0, 3), Job(0, 1, 1), Job(1, 0, 1), Job(1, 1, 5)}
=============================================================================
