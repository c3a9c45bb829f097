------------------------------ MODULE ProcTable ------------------------------
(***************************************************************************)
(* The xv6 process table of src/xv6-public/proc.c: the array ptable.proc   *)
(* of NPROC slots, the per-CPU c->proc pointer, and the lifecycle system   *)
(* calls fork, exit, wait and kill, with sleep/wakeup on a channel and     *)
(* the timer preemption of yield.                                          *)
(*                                                                         *)
(* A slot is a struct proc; a "pointer to a proc" is its slot number and   *)
(* the null pointer is NoProc.  Every step below is one critical section   *)
(* of ptable.lock, except where a comment says otherwise.  The scheduler   *)
(* is abstract here: a CPU with no process dispatches any RUNNABLE one.    *)
(* Scheduler.tla models the three queue policies that make that choice.    *)
(*                                                                         *)
(* pc records where the kernel thread of a process stands:                *)
(*   "user"  running user code (or returning to it) - may trap into a      *)
(*           system call;                                                  *)
(*   "fork"  inside fork() between allocproc() and the RUNNABLE store;     *)
(*   "wait"  asleep (or woken) inside the for(;;) loop of wait();          *)
(*   "plock" asleep (or woken) inside acquirepriority() (PriorityLock.tla).*)
(***************************************************************************)
EXTENDS Naturals, FiniteSets, FiniteSetsExt

CONSTANTS
    NPROC,        \* size of ptable.proc
    CPUS,         \* the CPUs, each running scheduler()
    MaxPid,       \* bound on nextpid: fork stops allocating beyond it
    KillTargets   \* the pid arguments a process may pass to kill()

ASSUME NPROC \in Nat \ {0} /\ MaxPid \in Nat /\ KillTargets \subseteq Nat

Slots    == 1..NPROC
NoProc   == 0              \* the null struct proc *
InitProc == 1              \* userinit() takes ptable.proc[0] and pid 1

States == {"UNUSED", "EMBRYO", "SLEEPING", "RUNNABLE", "RUNNING", "ZOMBIE"}
Pcs    == {"user", "fork", "wait", "plock"}
Live   == {"SLEEPING", "RUNNABLE", "RUNNING"}

VARIABLES
    state,      \* p->state
    pid,        \* p->pid
    parent,     \* p->parent
    killed,     \* p->killed
    chan,       \* p->chan: the slot whose address the process sleeps on
    pc,         \* where the kernel thread of the process stands
    forkChild,  \* np, the child fork() is building, per parent
    nextpid,    \* the global nextpid
    cpu         \* c->proc for each CPU

procVars == <<state, pid, parent, killed, chan, pc, forkChild, nextpid, cpu>>

-----------------------------------------------------------------------------
(* The state after main() has run pinit() and userinit() (proc.c:138-171):  *)
(* initcode in slot 1 with pid 1, RUNNABLE, no CPU running anything yet.   *)
Init ==
    /\ state     = [s \in Slots |-> IF s = InitProc THEN "RUNNABLE" ELSE "UNUSED"]
    /\ pid       = [s \in Slots |-> IF s = InitProc THEN 1 ELSE 0]
    /\ parent    = [s \in Slots |-> NoProc]
    /\ killed    = [s \in Slots |-> FALSE]
    /\ chan      = [s \in Slots |-> NoProc]
    /\ pc        = [s \in Slots |-> "user"]
    /\ forkChild = [s \in Slots |-> NoProc]
    /\ nextpid   = 2
    /\ cpu       = [c \in CPUS |-> NoProc]

(* p is the process CPU c is running (myproc() on c). *)
OnCpu(c, p) == p # NoProc /\ cpu[c] = p

(* p runs user code on c and may trap into a system call.  trap() calls    *)
(* exit() instead of the system call once p->killed is set, so a killed    *)
(* process has no other system call than exit.                             *)
InUser(c, p) == OnCpu(c, p) /\ pc[p] = "user" /\ ~killed[p]

(* wakeup1(ch) applied to the state function st (proc.c:544-552). *)
Wakeup1(st, ch) ==
    [s \in Slots |-> IF st[s] = "SLEEPING" /\ chan[s] = ch THEN "RUNNABLE" ELSE st[s]]

Children(p) == {s \in Slots : parent[s] = p}

(* The slot a loop over ptable.proc stops at: the first one in S. *)
FirstOf(S) == Min(S)

-----------------------------------------------------------------------------
(* Fault seeds for ForkAlloc: p->pid = ++nextpid instead of nextpid++,    *)
(* and a lost increment of nextpid.                                        *)
ForkAllocPreIncrement(c) ==
    \E p \in Slots :
        /\ InUser(c, p) /\ nextpid <= MaxPid
        /\ \E s \in Slots : state[s] = "UNUSED"
        /\ LET np == FirstOf({s \in Slots : state[s] = "UNUSED"}) IN
             /\ state'     = [state EXCEPT ![np] = "EMBRYO"]
             /\ pid'       = [pid EXCEPT ![np] = nextpid + 1]
             /\ forkChild' = [forkChild EXCEPT ![p] = np]
        /\ nextpid' = nextpid + 1
        /\ pc'      = [pc EXCEPT ![p] = "fork"]
        /\ UNCHANGED <<parent, killed, chan, cpu>>

(* fork() up to the release in allocproc(): the first UNUSED slot becomes  *)
(* EMBRYO with pid nextpid++ (proc.c:84-97, 206).  A full table makes      *)
(* fork return -1 with nothing changed, a stutter step.                    *)
ForkAlloc(c) ==
    \E p \in Slots :
        /\ InUser(c, p)
        /\ nextpid <= MaxPid
        /\ \E s \in Slots : state[s] = "UNUSED"
        /\ LET np == FirstOf({s \in Slots : state[s] = "UNUSED"}) IN
             /\ state'     = [state EXCEPT ![np] = "EMBRYO"]
             /\ pid'       = [pid EXCEPT ![np] = nextpid]
             /\ forkChild' = [forkChild EXCEPT ![p] = np]
        /\ nextpid' = nextpid + 1
        /\ pc'      = [pc EXCEPT ![p] = "fork"]
        /\ UNCHANGED <<parent, killed, chan, cpu>>

(* fork() fails after allocproc(): kalloc() of the kernel stack or         *)
(* copyuvm() returns 0 and the slot is set back to UNUSED, without the     *)
(* lock and without clearing p->pid (proc.c:100-103, 212-217).             *)
ForkFail(c) ==
    \E p \in Slots :
        /\ OnCpu(c, p)
        /\ pc[p] = "fork"
        /\ state'     = [state EXCEPT ![forkChild[p]] = "UNUSED"]
        /\ pc'        = [pc EXCEPT ![p] = "user"]
        /\ forkChild' = [forkChild EXCEPT ![p] = NoProc]
        /\ UNCHANGED <<pid, parent, killed, chan, nextpid, cpu>>

(* fork() succeeds: np->parent = curproc, then np->state = RUNNABLE under  *)
(* the lock (proc.c:219-245).  allocproc() never resets p->killed or       *)
(* p->chan, so the child keeps what the slot held.  The child starts at    *)
(* forkret, which returns to user space.                                   *)
ForkDone(c) ==
    \E p \in Slots :
        /\ OnCpu(c, p)
        /\ pc[p] = "fork"
        /\ LET np == forkChild[p] IN
             /\ parent'    = [parent EXCEPT ![np] = p]
             /\ state'     = [state EXCEPT ![np] = "RUNNABLE"]
             /\ pc'        = [pc EXCEPT ![np] = "user", ![p] = "user"]
             /\ forkChild' = [forkChild EXCEPT ![p] = NoProc, ![np] = NoProc]
        /\ UNCHANGED <<pid, killed, chan, nextpid, cpu>>

(* Fault seeds for Exit: no wakeup1(curproc->parent); no reparenting of   *)
(* the children to initproc.                                               *)
ExitNoParentWakeup(c) ==
    \E p \in Slots :
        /\ OnCpu(c, p) /\ pc[p] = "user" /\ p # InitProc
        /\ LET orphan == \E k \in Children(p) : state[k] = "ZOMBIE"
               st     == IF orphan THEN Wakeup1(state, InitProc) ELSE state
           IN  state' = [st EXCEPT ![p] = "ZOMBIE"]
        /\ parent' = [s \in Slots |-> IF parent[s] = p THEN InitProc ELSE parent[s]]
        /\ cpu'    = [cpu EXCEPT ![c] = NoProc]
        /\ UNCHANGED <<pid, killed, chan, pc, forkChild, nextpid>>

ExitNoReparent(c) ==
    \E p \in Slots :
        /\ OnCpu(c, p) /\ pc[p] = "user" /\ p # InitProc
        /\ state' = [Wakeup1(state, parent[p]) EXCEPT ![p] = "ZOMBIE"]
        /\ cpu'   = [cpu EXCEPT ![c] = NoProc]
        /\ UNCHANGED <<pid, parent, killed, chan, pc, forkChild, nextpid>>

(* exit(): wake the parent, hand every child to initproc (waking initproc  *)
(* if one of them is already a ZOMBIE), become ZOMBIE and sched() back to  *)
(* the scheduler, which clears c->proc (proc.c:254-298, 441).  A killed    *)
(* process takes this step at its next trap.  initproc never exits: it     *)
(* would panic("init exiting").                                            *)
Exit(c) ==
    \E p \in Slots :
        /\ OnCpu(c, p)
        /\ pc[p] = "user"
        /\ p # InitProc
        /\ LET woken  == Wakeup1(state, parent[p])
               orphan == \E k \in Children(p) : state[k] = "ZOMBIE"
               st     == IF orphan THEN Wakeup1(woken, InitProc) ELSE woken
           IN  state' = [st EXCEPT ![p] = "ZOMBIE"]
        /\ parent' = [s \in Slots |-> IF parent[s] = p THEN InitProc ELSE parent[s]]
        /\ cpu'    = [cpu EXCEPT ![c] = NoProc]
        /\ UNCHANGED <<pid, killed, chan, pc, forkChild, nextpid>>

(* One pass of the for(;;) loop of wait() by p on CPU c (proc.c:308-344):  *)
(* reap the first ZOMBIE child (clearing pid, parent, killed), return -1   *)
(* when there is no child or p is killed, or sleep(curproc, &ptable.lock). *)
(* On return p runs on c with p->chan = 0 (sleep's tidy-up).               *)
WaitStep(c, p) ==
    LET kids    == Children(p)
        zombies == {k \in kids : state[k] = "ZOMBIE"}
    IN
    \/ /\ zombies # {}
       /\ LET z == FirstOf(zombies) IN
            /\ state'  = [state EXCEPT ![z] = "UNUSED", ![p] = "RUNNING"]
            /\ pid'    = [pid EXCEPT ![z] = 0]
            /\ parent' = [parent EXCEPT ![z] = NoProc]
            /\ killed' = [killed EXCEPT ![z] = FALSE]
       /\ chan' = [chan EXCEPT ![p] = NoProc]
       /\ pc'   = [pc EXCEPT ![p] = "user"]
       /\ cpu'  = [cpu EXCEPT ![c] = p]
    \/ /\ zombies = {}
       /\ kids = {} \/ killed[p]
       /\ state' = [state EXCEPT ![p] = "RUNNING"]
       /\ chan'  = [chan EXCEPT ![p] = NoProc]
       /\ pc'    = [pc EXCEPT ![p] = "user"]
       /\ cpu'   = [cpu EXCEPT ![c] = p]
       /\ UNCHANGED <<pid, parent, killed>>
    \/ /\ zombies = {}
       /\ kids # {} /\ ~killed[p]
       /\ state' = [state EXCEPT ![p] = "SLEEPING"]
       /\ chan'  = [chan EXCEPT ![p] = p]
       /\ pc'    = [pc EXCEPT ![p] = "wait"]
       /\ cpu'   = [cpu EXCEPT ![c] = NoProc]
       /\ UNCHANGED <<pid, parent, killed>>

(* The wait() system call. *)
Wait(c) ==
    \E p \in Slots :
        /\ InUser(c, p)
        /\ WaitStep(c, p)
        /\ UNCHANGED <<forkChild, nextpid>>

(* kill(pid): the first slot whose p->pid equals the argument, whatever    *)
(* its state, gets p->killed = 1 and leaves SLEEPING (proc.c:565-584).     *)
(* No match returns -1 with nothing changed.                               *)
Kill(c) ==
    \E p \in Slots, target \in KillTargets :
        /\ InUser(c, p)
        /\ \E s \in Slots : pid[s] = target
        /\ LET v == FirstOf({s \in Slots : pid[s] = target}) IN
             /\ killed' = [killed EXCEPT ![v] = TRUE]
             /\ state'  = [state EXCEPT ![v] = IF @ = "SLEEPING" THEN "RUNNABLE" ELSE @]
        /\ UNCHANGED <<pid, parent, chan, pc, forkChild, nextpid, cpu>>

(* Fault seed for Yield: the scheduler does not clear c->proc. *)
YieldKeepCpu(c) ==
    \E p \in Slots :
        /\ OnCpu(c, p)
        /\ InUser(c, p) \/ pc[p] = "fork"
        /\ state' = [state EXCEPT ![p] = "RUNNABLE"]
        /\ UNCHANGED <<pid, parent, killed, chan, pc, forkChild, nextpid, cpu>>

(* The timer interrupt calls yield() (proc.c:472-478): the running process *)
(* becomes RUNNABLE and its CPU returns to the scheduler.  In user mode a  *)
(* killed process exits instead; in the kernel (inside fork) it yields.    *)
Yield(c) ==
    \E p \in Slots :
        /\ OnCpu(c, p)
        /\ InUser(c, p) \/ pc[p] = "fork"
        /\ state' = [state EXCEPT ![p] = "RUNNABLE"]
        /\ cpu'   = [cpu EXCEPT ![c] = NoProc]
        /\ UNCHANGED <<pid, parent, killed, chan, pc, forkChild, nextpid>>

(* scheduler() on an idle CPU switches to a RUNNABLE process that resumes  *)
(* in user space or inside fork (proc.c:429-436; forkret and yield only    *)
(* release ptable.lock).                                                   *)
DispatchUser(c) ==
    /\ cpu[c] = NoProc
    /\ \E s \in Slots :
         /\ state[s] = "RUNNABLE"
         /\ pc[s] \in {"user", "fork"}
         /\ state' = [state EXCEPT ![s] = "RUNNING"]
         /\ cpu'   = [cpu EXCEPT ![c] = s]
    /\ UNCHANGED <<pid, parent, killed, chan, pc, forkChild, nextpid>>

(* scheduler() switches to a process woken inside wait(): it returns from  *)
(* sleep() still holding ptable.lock and runs the next pass of the loop in *)
(* the same critical section.                                              *)
DispatchWait(c) ==
    /\ cpu[c] = NoProc
    /\ \E s \in Slots :
         /\ state[s] = "RUNNABLE"
         /\ pc[s] = "wait"
         /\ WaitStep(c, s)
    /\ UNCHANGED <<forkChild, nextpid>>

ProcNext ==
    \E c \in CPUS :
        \/ ForkAlloc(c) \/ ForkFail(c) \/ ForkDone(c)
        \/ Exit(c) \/ Wait(c) \/ Kill(c) \/ Yield(c)
        \/ DispatchUser(c) \/ DispatchWait(c)

ProcSpec == Init /\ [][ProcNext]_procVars

-----------------------------------------------------------------------------
ProcTypeOK ==
    /\ state     \in [Slots -> States]
    /\ pid       \in [Slots -> 0..MaxPid]
    /\ parent    \in [Slots -> Slots \cup {NoProc}]
    /\ killed    \in [Slots -> BOOLEAN]
    /\ chan      \in [Slots -> Slots \cup {NoProc}]
    /\ pc        \in [Slots -> Pcs]
    /\ forkChild \in [Slots -> Slots \cup {NoProc}]
    /\ nextpid   \in 2..MaxPid + 1
    /\ cpu       \in [CPUS -> Slots \cup {NoProc}]

(* Exactly the RUNNING processes are on a CPU, each on one: scheduler()    *)
(* sets c->proc and RUNNING together and every path back to it (yield,     *)
(* sleep, exit) leaves RUNNING before c->proc is cleared.                  *)
RunningOnOneCpu ==
    /\ \A s \in Slots : state[s] = "RUNNING" <=> \E c \in CPUS : cpu[c] = s
    /\ \A c, d \in CPUS : c # d /\ cpu[c] # NoProc => cpu[c] # cpu[d]

(* No lost wakeup in wait/exit: a parent asleep in wait() never has a      *)
(* ZOMBIE child, since exit() wakes the parent, and wakes initproc for     *)
(* every zombie it hands over, in the critical section that makes it a     *)
(* ZOMBIE.                                                                 *)
NoLostWaitWakeup ==
    \A p \in Slots :
        state[p] = "SLEEPING" /\ pc[p] = "wait" =>
            \A k \in Children(p) : state[k] # "ZOMBIE"

(* Every process but initproc has a parent that is still alive: exit()     *)
(* reparents the children to initproc before it becomes a ZOMBIE, so no    *)
(* parent pointer reaches a ZOMBIE or a freed (possibly reused) slot.      *)
ParentAlive ==
    \A s \in Slots \ {InitProc} :
        state[s] \in Live \cup {"ZOMBIE"} =>
            parent[s] \in Slots /\ state[parent[s]] \in Live

(* kill(pid) marks only a process that exists: an UNUSED slot carries no   *)
(* kill flag, which allocproc() would pass on to the next process created  *)
(* in it (the spec: kill returns failure when the pid is not found).       *)
KilledOnlyLive ==
    \A s \in Slots : killed[s] => state[s] # "UNUSED"

=============================================================================
