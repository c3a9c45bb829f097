--------------------------- MODULE MCPriorityLock ---------------------------
(* Model-checking instance of PriorityLock: initproc and up to four        *)
(* other processes on two CPUs, so that three waiters can queue behind an  *)
(* owner and be ordered by pid.                                            *)
EXTENDS PriorityLock, TLC

CONSTANTS c1, c2

MCCpus        == {c1, c2}
MCNproc       == 5
MCMaxPid      == 6
MCKillTargets == {0} \cup 2..MCMaxPid
NoKill        == {}

CpuSymmetry == Permutations(MCCpus)
=============================================================================
