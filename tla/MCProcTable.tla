---------------------------- MODULE MCProcTable ----------------------------
(* Model-checking instance of ProcTable: a four-slot table on two CPUs.    *)
(* Four slots hold initproc, a child, a grandchild and a fork in progress, *)
(* enough for reparenting to initproc and for slot reuse after wait().     *)
EXTENDS ProcTable, TLC

CONSTANTS c1, c2

MCCpus        == {c1, c2}
MCNproc       == 4
MCMaxPid      == 6
(* kill(1) makes initproc exit, which panics by design; every other pid,   *)
(* 0 (the pid of a never-used or reaped slot) included, is an argument.    *)
MCKillTargets == {0} \cup 2..MCMaxPid

CpuSymmetry == Permutations(MCCpus)
=============================================================================
