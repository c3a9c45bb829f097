---------------------------- MODULE MCScheduler ----------------------------
(* Model-checking instance of Scheduler.  Two CPUs, or one where the      *)
(* question is about a single scheduler() loop or needs three processes;  *)
(* one exec'd name, "sh", which the force-to-RR loop matches; system calls *)
(* aimed at pid 3, the first process fork puts in LCFS.                    *)
EXTENDS Scheduler, TLC

CONSTANTS c1, c2

MCCpus      == {c1, c2}
MCOneCpu    == {c1}
MCNames     == {"sh"}
MCAllowList == {"sh", "proc_info"}
MCPidArgs   == {3}
\* Calls aimed at init as well: init, in slot 1, can then leave RR, age,
\* and be moved back by age_proc with the scan going on past it.
MCPidArgsInit == {1, 3}
MCQueueArgs == {RR, LCFS, BJF}
MCToBjf     == {BJF}
MCPrioArgs  == {1}
MCRatioArgs == {[p |-> 1, a |-> 0, e |-> 1, s |-> 0]}

CpuSymmetry == Permutations(MCCpus)
=============================================================================
