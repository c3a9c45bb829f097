------------------------------ MODULE Scheduler ------------------------------
(***************************************************************************)
(* The three-queue scheduler of src/xv6-public/proc.c: the per-CPU loop    *)
(* scheduler() with its unlocked force-to-RR pass over the allow-listed    *)
(* names, the policies roundrobin(), lcfs() and bjf() tried in that order, *)
(* change_queue(), the aging pass age_proc() run from the timer, and the   *)
(* BJF parameter system calls.                                             *)
(*                                                                         *)
(* The process lifecycle is cut down to what the scheduler reads: fork     *)
(* (allocproc() and fork() up to its change_queue() call as one step,      *)
(* then that call), exec's renaming, exit, reaping by wait() and the       *)
(* timer yield, and sleep() on and wakeup() from channels that are not     *)
(* told apart.  Channels, kill and parents are in ProcTable.tla.           *)
(*                                                                         *)
(* Time.  ticks is read in three ways: uptime - last_run > threshold in    *)
(* age_proc(), the order of last_in_lcfs values in lcfs(), and             *)
(* arrival_time inside the BJF rank.  age[s] is ticks - last_run,          *)
(* saturated just above the threshold, which is exact for the comparison.  *)
(* now, lastInLcfs and arrival keep the order of the tick values (ties     *)
(* included) and not their size: after every step they are renumbered     *)
(* 0, 1, 2, ... over the live processes by Renumber.                       *)
(***************************************************************************)
EXTENDS Naturals, FiniteSets, FiniteSetsExt

CONSTANTS
    NPROC,          \* size of ptable.proc
    CPUS,           \* the CPUs, each running scheduler()
    MaxPid,         \* bound on nextpid
    AgeThreshold,   \* CHANGE_QUEUE_THRESHOLD (8000 in proc.h)
    CycleCap,       \* bound on the executed_cycle count, in tenths
    ProcSize,       \* p->sz, the same for every process (no sbrk here)
    Names,          \* the names exec may give a process
    AllowList,      \* "sh" and "proc_info", forced into RR by scheduler()
    CallBudget,     \* bound on the scheduling system calls made
    PidArgs,        \* pid arguments of those system calls
    QueueArgs,      \* queue arguments of change_queue (RR..BJF, sysproc.c)
    PrioArgs,       \* priorities passed to set_bjf_priority
    RatioArgs       \* ratio vectors passed to set_bjf_params_*

Slots  == 1..NPROC
NoProc == 0
Pick   == NPROC + 1          \* scheduler() past its force-to-RR loop

UNSET == 0                  \* enum MLFQ (proc.h:58-64)
RR    == 1
LCFS  == 2
BJF   == 3
Queues == {UNSET, RR, LCFS, BJF}

BJF_PRIORITY_DEFAULT == 3
DefaultRatios == [p |-> 1, a |-> 1, e |-> 1, s |-> 1]
NoRatios      == [p |-> 0, a |-> 0, e |-> 0, s |-> 0]

States == {"UNUSED", "SLEEPING", "RUNNABLE", "RUNNING", "ZOMBIE"}
Live   == {"SLEEPING", "RUNNABLE", "RUNNING"}

VARIABLES
    state, pid, name, queue,
    age,          \* ticks - p->last_run, saturated at AgeThreshold + 1
    lastInLcfs,   \* p->last_in_lcfs, as a position in tick order
    arrival,      \* p->bjf_info.arrival_time, as a position in tick order
    now,          \* ticks, as a position in the same order
    prio,         \* p->bjf_info.priority
    ratio,        \* the four *_ratio fields of p->bjf_info
    cycles,       \* p->bjf_info.executed_cycle in tenths, capped
    forkPid,      \* pid of the child whose change_queue() fork still owes
    nextpid,
    cpu,          \* c->proc
    lastRR,       \* last_scheduled_rr, local to each CPU's scheduler()
    lastLcfs,     \* last_scheduled_lcfs, likewise
    sched,        \* index i of the force-to-RR loop, or Pick
    agePc,        \* index i of the running age_proc() pass, 0 when idle
    ageHit,       \* age_proc() has dropped the lock to move slot agePc
    calls         \* scheduling system calls made so far

vars == <<state, pid, name, queue, age, lastInLcfs, arrival, now, prio,
          ratio, cycles, forkPid, nextpid, cpu, lastRR, lastLcfs, sched,
          agePc, ageHit, calls>>

-----------------------------------------------------------------------------
(* The tick order renumbered densely over what is read of it: now, the    *)
(* arrival_time of the live processes and the last_in_lcfs of the live     *)
(* LCFS ones.  Everything else gets 0: lcfs() reads last_in_lcfs only in   *)
(* the LCFS queue, every way into it stamps it afresh, and fork rewrites   *)
(* both fields of a dead slot.  Sets now', lastInLcfs' and arrival'.       *)
Renumber(st, q, t, lf, ar) ==
    LET L  == {s \in Slots : st[s] \in Live}
        LL == {s \in L : q[s] = LCFS}
        V  == {t} \cup {lf[s] : s \in LL} \cup {ar[s] : s \in L}
        R(v) == Cardinality({w \in V : w < v})
    IN  /\ now'        = R(t)
        /\ lastInLcfs' = [s \in Slots |-> IF s \in LL THEN R(lf[s]) ELSE 0]
        /\ arrival'    = [s \in Slots |-> IF s \in L THEN R(ar[s]) ELSE 0]

(* After userinit() (proc.c:138-171): initcode, pid 1, RUNNABLE, moved to  *)
(* RR by change_queue(1, UNSET); the other slots are zeroed memory.        *)
Init ==
    /\ state = [s \in Slots |-> IF s = 1 THEN "RUNNABLE" ELSE "UNUSED"]
    /\ pid   = [s \in Slots |-> IF s = 1 THEN 1 ELSE 0]
    /\ name  = [s \in Slots |-> IF s = 1 THEN "initcode" ELSE ""]
    /\ queue = [s \in Slots |-> IF s = 1 THEN RR ELSE UNSET]
    /\ age = [s \in Slots |-> 0]
    /\ lastInLcfs = [s \in Slots |-> 0]
    /\ arrival = [s \in Slots |-> 0]
    /\ now = 0
    /\ prio = [s \in Slots |-> IF s = 1 THEN BJF_PRIORITY_DEFAULT ELSE 0]
    /\ ratio = [s \in Slots |-> IF s = 1 THEN DefaultRatios ELSE NoRatios]
    /\ cycles = [s \in Slots |-> 0]
    /\ forkPid = [s \in Slots |-> 0]
    /\ nextpid = 2
    /\ cpu = [c \in CPUS |-> NoProc]
    /\ lastRR = [c \in CPUS |-> NPROC]         \* &ptable.proc[NPROC - 1]
    /\ lastLcfs = [c \in CPUS |-> NoProc]
    /\ sched = [c \in CPUS |-> 1]
    /\ agePc = 0
    /\ ageHit = FALSE
    /\ calls = 0

(* change_queue(id, nq) (proc.c:711-755) as the new queue and last_in_lcfs *)
(* functions: UNSET resolves to RR for pids 1 and 2 and to LCFS above;     *)
(* the first slot with that pid, whatever its state, is changed unless it  *)
(* is already in the queue; moving into LCFS stamps last_in_lcfs = ticks.  *)
ChangeQueueFaultNoResolve(id, nq) ==
    LET hit == {s \in Slots : pid[s] = id}
        s   == Min(hit)
    IN  IF hit = {} \/ queue[s] = nq
        THEN [q |-> queue, lf |-> lastInLcfs]
        ELSE [q  |-> [queue EXCEPT ![s] = nq],
              lf |-> IF nq = LCFS THEN [lastInLcfs EXCEPT ![s] = now] ELSE lastInLcfs]

ChangeQueue(id, nq) ==
    LET q   == IF nq # UNSET THEN nq
               ELSE IF id \in {1, 2} THEN RR ELSE IF id > 1 THEN LCFS ELSE UNSET
        hit == {s \in Slots : pid[s] = id}
        s   == Min(hit)
    IN  IF q = UNSET \/ hit = {} \/ queue[s] = q
        THEN [q |-> queue, lf |-> lastInLcfs]
        ELSE [q  |-> [queue EXCEPT ![s] = q],
              lf |-> IF q = LCFS THEN [lastInLcfs EXCEPT ![s] = now] ELSE lastInLcfs]

(* Apply a change_queue() result: queue' and, renumbered, last_in_lcfs'. *)
SetQueue(r) ==
    /\ queue' = r.q
    /\ Renumber(state, r.q, now, r.lf, arrival)

(* roundrobin(last) (proc.c:757-773): the first RUNNABLE RR slot after    *)
(* last in cyclic order, last itself checked at the end; NoProc if none.  *)
RoundRobin(last) ==
    LET At(k) == ((last + k - 1) % NPROC) + 1
        K == {k \in Slots : state[At(k)] = "RUNNABLE" /\ queue[At(k)] = RR}
    IN  IF K = {} THEN NoProc ELSE At(Min(K))

(* lcfs(last) (proc.c:775-797): last again whenever it is RUNNABLE, else  *)
(* the RUNNABLE LCFS slot with the greatest last_in_lcfs, where the >=    *)
(* comparison lets a later slot win a tie.                                 *)
LcfsFaultNoStateCheck(last) ==
    LET C == {s \in Slots : state[s] = "RUNNABLE" /\ queue[s] = LCFS}
    IN  IF last # NoProc THEN last
        ELSE IF C = {} THEN NoProc
        ELSE CHOOSE s \in C : \A t \in C :
                 lastInLcfs[t] < lastInLcfs[s] \/ (lastInLcfs[t] = lastInLcfs[s] /\ t <= s)

Lcfs(last) ==
    LET C == {s \in Slots : state[s] = "RUNNABLE" /\ queue[s] = LCFS}
    IN  IF last # NoProc /\ state[last] = "RUNNABLE" THEN last
        ELSE IF C = {} THEN NoProc
        ELSE CHOOSE s \in C : \A t \in C :
                 lastInLcfs[t] < lastInLcfs[s] \/ (lastInLcfs[t] = lastInLcfs[s] /\ t <= s)

(* bjfrank() (proc.c:799-803) scaled by 10 so that executed_cycle, a sum  *)
(* of 0.1 steps, is a whole number.                                        *)
BjfRank(s) ==
    10 * prio[s] * ratio[s].p + 10 * arrival[s] * ratio[s].a
      + cycles[s] * ratio[s].e + 10 * ProcSize * ratio[s].s

(* bjf() (proc.c:805-823): the RUNNABLE BJF slot of least rank, the first *)
(* one scanned on a tie since only a strictly smaller rank replaces it.    *)
Bjf ==
    LET C == {s \in Slots : state[s] = "RUNNABLE" /\ queue[s] = BJF}
    IN  IF C = {} THEN NoProc
        ELSE CHOOSE s \in C : \A t \in C :
                 BjfRank(s) < BjfRank(t) \/ (BjfRank(s) = BjfRank(t) /\ s <= t)
-----------------------------------------------------------------------------
(* One pass of the for(;;) loop of scheduler() on c (proc.c:381-444).     *)

(* The force-to-RR loop (proc.c:383-390), one slot per step and without   *)
(* ptable.lock: an allow-listed RUNNABLE process is moved by               *)
(* change_queue(pid, RR), which takes the lock itself.                     *)
ForceRR(c) ==
    /\ cpu[c] = NoProc
    /\ sched[c] \in Slots
    /\ LET i == sched[c] IN
         IF name[i] \in AllowList /\ state[i] = "RUNNABLE"
         THEN SetQueue(ChangeQueue(pid[i], RR))
         ELSE UNCHANGED <<queue, lastInLcfs, arrival, now>>
    /\ sched' = [sched EXCEPT ![c] = @ + 1]
    /\ UNCHANGED <<state, pid, name, age, prio, ratio, cycles, forkPid,
                   nextpid, cpu, lastRR, lastLcfs, agePc, ageHit, calls>>

(* The switch to the chosen p (proc.c:429-434): c->proc = p, RUNNING,     *)
(* last_run = ticks, executed_cycle += 0.1.                                *)
RunOn(c, p) ==
    /\ cpu'    = [cpu EXCEPT ![c] = p]
    /\ state'  = [state EXCEPT ![p] = "RUNNING"]
    /\ age'    = [age EXCEPT ![p] = 0]
    /\ cycles' = [cycles EXCEPT ![p] = IF @ < CycleCap THEN @ + 1 ELSE @]

SchedFrame ==
    UNCHANGED <<pid, name, queue, lastInLcfs, arrival, now, prio, ratio,
                forkPid, nextpid, sched, agePc, ageHit, calls>>

(* The policies in the order of the switch (proc.c:393-419): RR first,    *)
(* LCFS only when RR found nothing, BJF only when both found nothing.     *)
(* Each policy remembers its own last pick.                                *)
DispatchRR(c) ==
    /\ cpu[c] = NoProc /\ sched[c] = Pick
    /\ RoundRobin(lastRR[c]) # NoProc
    /\ RunOn(c, RoundRobin(lastRR[c]))
    /\ lastRR' = [lastRR EXCEPT ![c] = RoundRobin(lastRR[c])]
    /\ UNCHANGED lastLcfs
    /\ SchedFrame

DispatchLcfs(c) ==
    /\ cpu[c] = NoProc /\ sched[c] = Pick
    /\ RoundRobin(lastRR[c]) = NoProc
    /\ Lcfs(lastLcfs[c]) # NoProc
    /\ RunOn(c, Lcfs(lastLcfs[c]))
    /\ lastLcfs' = [lastLcfs EXCEPT ![c] = Lcfs(lastLcfs[c])]
    /\ UNCHANGED lastRR
    /\ SchedFrame

DispatchBjf(c) ==
    /\ cpu[c] = NoProc /\ sched[c] = Pick
    /\ RoundRobin(lastRR[c]) = NoProc
    /\ Lcfs(lastLcfs[c]) = NoProc
    /\ Bjf # NoProc
    /\ RunOn(c, Bjf)
    /\ UNCHANGED <<lastRR, lastLcfs>>
    /\ SchedFrame

(* Nothing found: release the lock and go round again (proc.c:420-424). *)
Idle(c) ==
    /\ cpu[c] = NoProc /\ sched[c] = Pick
    /\ RoundRobin(lastRR[c]) = NoProc
    /\ Lcfs(lastLcfs[c]) = NoProc
    /\ Bjf = NoProc
    /\ sched' = [sched EXCEPT ![c] = 1]
    /\ UNCHANGED <<state, pid, name, queue, age, lastInLcfs, arrival, now,
                   prio, ratio, cycles, forkPid, nextpid, cpu, lastRR,
                   lastLcfs, agePc, ageHit, calls>>

SchedStep(c) ==
    ForceRR(c) \/ DispatchRR(c) \/ DispatchLcfs(c) \/ DispatchBjf(c) \/ Idle(c)
-----------------------------------------------------------------------------
(* Fault seed for Aged: only LCFS processes are aged. *)
AgedFaultLcfsOnly(i, ag) ==
    state[i] = "RUNNABLE" /\ queue[i] = LCFS /\ ag[i] > AgeThreshold

(* The test of age_proc() (proc.c:698-700): slot i is RUNNABLE outside RR  *)
(* and has not run for more than the threshold, ag[i] being uptime minus   *)
(* its last_run.                                                           *)
Aged(i, ag) ==
    state[i] = "RUNNABLE" /\ queue[i] # RR /\ ag[i] > AgeThreshold

(* age_proc() holding ptable.lock from slot i on (proc.c:694-700): up to  *)
(* the next aged slot, where the lock is dropped (proc.c:702), or to the   *)
(* end of the table, where it is released (proc.c:708).  Sets agePc' and   *)
(* ageHit'.                                                                *)
ScanFrom(i, ag) ==
    LET H == {j \in i..NPROC : Aged(j, ag)}
    IN  IF H = {} THEN agePc' = 0 /\ ageHit' = FALSE
                  ELSE agePc' = Min(H) /\ ageHit' = TRUE

(* The timer.  trap.c (not in this snapshot) advances ticks on each timer  *)
(* interrupt and calls age_proc(ticks), whose scan starts at slot 1.  A    *)
(* new tick waits for the pass in progress.                                *)
Tick ==
    /\ agePc = 0
    /\ age' = [s \in Slots |-> IF state[s] \in Live
                               THEN IF age[s] <= AgeThreshold THEN age[s] + 1 ELSE age[s]
                               ELSE 0]
    /\ Renumber(state, queue, now + 1, lastInLcfs, arrival)
    /\ ScanFrom(1, age')
    /\ UNCHANGED <<state, pid, name, queue, prio, ratio, cycles, forkPid,
                   nextpid, cpu, lastRR, lastLcfs, sched, calls>>

(* The scan goes on after a move, from the slot after it. *)
AgeScan ==
    /\ agePc \in Slots /\ ~ageHit
    /\ ScanFrom(agePc, age)
    /\ UNCHANGED <<state, pid, name, queue, age, lastInLcfs, arrival, now, prio,
                   ratio, cycles, forkPid, nextpid, cpu, lastRR, lastLcfs,
                   sched, calls>>

(* Fault seed for AgeMove: the index runs one past the table. *)
AgeMoveFaultNoWrap ==
    /\ agePc \in Slots /\ ageHit
    /\ SetQueue(ChangeQueue(pid[agePc], RR))
    /\ ageHit' = FALSE
    /\ agePc'  = agePc + 1
    /\ UNCHANGED <<state, pid, name, age, prio, ratio, cycles, forkPid,
                   nextpid, cpu, lastRR, lastLcfs, sched, calls>>

(* change_queue(ptable.proc[i].pid, RR) with the lock released: the pid is *)
(* read now, whatever the slot has become since the check; then the lock   *)
(* is taken again and the scan goes on (proc.c:703-708).                   *)
AgeMove ==
    /\ agePc \in Slots /\ ageHit
    /\ SetQueue(ChangeQueue(pid[agePc], RR))
    /\ ageHit' = FALSE
    /\ agePc'  = (IF agePc = NPROC THEN 0 ELSE agePc + 1)
    /\ UNCHANGED <<state, pid, name, age, prio, ratio, cycles, forkPid,
                   nextpid, cpu, lastRR, lastLcfs, sched, calls>>

-----------------------------------------------------------------------------
(* Steps of the process p that CPU c runs. *)

(* The timer interrupt preempts p: yield() and back into scheduler() on c, *)
(* which clears c->proc and starts its loop again (proc.c:441-443, 472).   *)
Yield(c) ==
    LET p == cpu[c] IN
    /\ p # NoProc
    /\ state' = [state EXCEPT ![p] = "RUNNABLE"]
    /\ cpu'   = [cpu EXCEPT ![c] = NoProc]
    /\ sched' = [sched EXCEPT ![c] = 1]
    /\ UNCHANGED <<pid, name, queue, age, lastInLcfs, arrival, now, prio,
                   ratio, cycles, forkPid, nextpid, lastRR, lastLcfs, agePc,
                   ageHit, calls>>

(* exit() by p (proc.c:254-298): ZOMBIE and into the scheduler; initproc  *)
(* never exits.  No code reads the tick and bjf_info fields of a ZOMBIE or *)
(* UNUSED slot before fork rewrites them, so they are set to 0 here.       *)
Exit(c) ==
    LET p == cpu[c] IN
    /\ p # NoProc /\ pid[p] # 1 /\ forkPid[p] = 0
    /\ state'  = [state EXCEPT ![p] = "ZOMBIE"]
    /\ age'    = [age EXCEPT ![p] = 0]
    /\ prio'   = [prio EXCEPT ![p] = 0]
    /\ ratio'  = [ratio EXCEPT ![p] = NoRatios]
    /\ cycles' = [cycles EXCEPT ![p] = 0]
    /\ Renumber(state', queue, now, lastInLcfs, arrival)
    /\ cpu'    = [cpu EXCEPT ![c] = NoProc]
    /\ sched'  = [sched EXCEPT ![c] = 1]
    /\ UNCHANGED <<pid, name, queue, forkPid, nextpid, lastRR, lastLcfs,
                   agePc, ageHit, calls>>

(* p blocks in sleep() (proc.c:503-539), in wait(), read() or any other   *)
(* call: SLEEPING and into the scheduler.                                  *)
Sleep(c) ==
    LET p == cpu[c] IN
    /\ p # NoProc /\ forkPid[p] = 0
    /\ state' = [state EXCEPT ![p] = "SLEEPING"]
    /\ cpu'   = [cpu EXCEPT ![c] = NoProc]
    /\ sched' = [sched EXCEPT ![c] = 1]
    /\ UNCHANGED <<pid, name, queue, age, lastInLcfs, arrival, now, prio,
                   ratio, cycles, forkPid, nextpid, lastRR, lastLcfs, agePc,
                   ageHit, calls>>

(* wakeup1() (proc.c:544-552) makes the sleeping s RUNNABLE; the caller,   *)
(* another process or an interrupt, is left out.                           *)
Wakeup(s) ==
    /\ state[s] = "SLEEPING"
    /\ state' = [state EXCEPT ![s] = "RUNNABLE"]
    /\ UNCHANGED <<pid, name, queue, age, lastInLcfs, arrival, now, prio,
                   ratio, cycles, forkPid, nextpid, cpu, lastRR, lastLcfs,
                   sched, agePc, ageHit, calls>>

(* The parent's wait() frees a ZOMBIE (proc.c:320-335): UNUSED, pid 0,    *)
(* name cleared; queue and the bjf_info fields stay as they were.  A       *)
(* parent still inside fork() for this child is not in wait().             *)
Reap(s) ==
    /\ state[s] = "ZOMBIE"
    /\ \A q \in Slots : forkPid[q] # pid[s]
    /\ state' = [state EXCEPT ![s] = "UNUSED"]
    /\ pid'   = [pid EXCEPT ![s] = 0]
    /\ name'  = [name EXCEPT ![s] = ""]
    /\ UNCHANGED <<queue, age, lastInLcfs, arrival, now, prio, ratio, cycles,
                   forkPid, nextpid, cpu, lastRR, lastLcfs, sched, agePc,
                   ageHit, calls>>

(* allocproc() clears bjf_info and sets the default priority and ratios    *)
(* of the slot np it found (proc.c:120-126); p->queue is not touched.       *)
AllocBjfInfo(np) ==
    /\ prio'   = [prio EXCEPT ![np] = BJF_PRIORITY_DEFAULT]
    /\ ratio'  = [ratio EXCEPT ![np] = DefaultRatios]
    /\ cycles' = [cycles EXCEPT ![np] = 0]

(* fork() by p up to its change_queue() call: allocproc() takes the first  *)
(* UNUSED slot, fork copies the name and makes the child RUNNABLE with     *)
(* arrival_time = last_run = last_in_lcfs = ticks (proc.c:199-245).  The   *)
(* failure paths are in ProcTable.tla.                                     *)
ForkStart(c) ==
    LET p == cpu[c] IN
    /\ p # NoProc /\ forkPid[p] = 0
    /\ nextpid <= MaxPid
    /\ \E s \in Slots : state[s] = "UNUSED"
    /\ LET np == Min({s \in Slots : state[s] = "UNUSED"}) IN
         /\ state'   = [state EXCEPT ![np] = "RUNNABLE"]
         /\ pid'     = [pid EXCEPT ![np] = nextpid]
         /\ name'    = [name EXCEPT ![np] = name[p]]
         /\ AllocBjfInfo(np)
         /\ age'     = [age EXCEPT ![np] = 0]
         /\ Renumber(state', queue, now, [lastInLcfs EXCEPT ![np] = now],
                     [arrival EXCEPT ![np] = now])
    /\ forkPid' = [forkPid EXCEPT ![p] = nextpid]
    /\ nextpid' = nextpid + 1
    /\ UNCHANGED <<queue, cpu, lastRR, lastLcfs, sched, agePc, ageHit, calls>>

(* The last line of fork(): change_queue(pid, UNSET) (proc.c:247). *)
ForkSetQueue(c) ==
    LET p == cpu[c] IN
    /\ p # NoProc /\ forkPid[p] # 0
    /\ SetQueue(ChangeQueue(forkPid[p], UNSET))
    /\ forkPid' = [forkPid EXCEPT ![p] = 0]
    /\ UNCHANGED <<state, pid, name, age, prio, ratio, cycles, nextpid, cpu,
                   lastRR, lastLcfs, sched, agePc, ageHit, calls>>

(* exec() gives p a new name (exec.c, not in this snapshot). *)
Exec(c) ==
    LET p == cpu[c] IN
    /\ p # NoProc /\ forkPid[p] = 0
    /\ \E n \in Names : name' = [name EXCEPT ![p] = n]
    /\ UNCHANGED <<state, pid, queue, age, lastInLcfs, arrival, now, prio,
                   ratio, cycles, forkPid, nextpid, cpu, lastRR, lastLcfs,
                   sched, agePc, ageHit, calls>>
-----------------------------------------------------------------------------
(* The scheduling system calls p may make, CallBudget of them in all.     *)
SysCall(c) ==
    /\ cpu[c] # NoProc /\ forkPid[cpu[c]] = 0
    /\ calls < CallBudget
    /\ calls' = calls + 1

(* The first slot whose pid is id, as the loops of proc.c:732-751,        *)
(* 828-839 and 862-870 find it; NoProc when there is none.                 *)
SlotOf(id) ==
    IF \E s \in Slots : pid[s] = id THEN Min({s \in Slots : pid[s] = id}) ELSE NoProc

(* sys_change_queue() (sysproc.c:102-112) with a queue it accepts. *)
SysChangeQueue(c) ==
    /\ SysCall(c)
    /\ \E id \in PidArgs, q \in QueueArgs : SetQueue(ChangeQueue(id, q))
    /\ UNCHANGED <<state, pid, name, age, prio, ratio, cycles, forkPid,
                   nextpid, cpu, lastRR, lastLcfs, sched, agePc, ageHit>>

(* set_bjf_priority() (proc.c:858-873) behind the range check of          *)
(* sys_set_bjf_priority() (sysproc.c:151-161).                             *)
SysSetBjfPriority(c) ==
    /\ SysCall(c)
    /\ \E id \in PidArgs, pr \in PrioArgs :
         prio' = IF SlotOf(id) = NoProc THEN prio
                 ELSE [prio EXCEPT ![SlotOf(id)] = pr]
    /\ UNCHANGED <<state, pid, name, queue, age, lastInLcfs, arrival, now,
                   ratio, cycles, forkPid, nextpid, cpu, lastRR, lastLcfs,
                   sched, agePc, ageHit>>

(* set_bjf_params_for_process() (proc.c:825-842). *)
SysSetBjfParamsForProcess(c) ==
    /\ SysCall(c)
    /\ \E id \in PidArgs, r \in RatioArgs :
         ratio' = IF SlotOf(id) = NoProc THEN ratio
                  ELSE [ratio EXCEPT ![SlotOf(id)] = r]
    /\ UNCHANGED <<state, pid, name, queue, age, lastInLcfs, arrival, now,
                   prio, cycles, forkPid, nextpid, cpu, lastRR, lastLcfs,
                   sched, agePc, ageHit>>

(* set_bjf_params_for_system() (proc.c:844-856) writes every slot; the    *)
(* writes to dead slots are overwritten by fork before anything reads them. *)
SysSetBjfParamsForSystem(c) ==
    /\ SysCall(c)
    /\ \E r \in RatioArgs :
         ratio' = [s \in Slots |-> IF state[s] \in Live THEN r ELSE ratio[s]]
    /\ UNCHANGED <<state, pid, name, queue, age, lastInLcfs, arrival, now,
                   prio, cycles, forkPid, nextpid, cpu, lastRR, lastLcfs,
                   sched, agePc, ageHit>>

ProcStep(c) ==
    \/ Yield(c) \/ Sleep(c) \/ Exit(c) \/ ForkStart(c) \/ ForkSetQueue(c) \/ Exec(c)
    \/ SysChangeQueue(c) \/ SysSetBjfPriority(c)
    \/ SysSetBjfParamsForProcess(c) \/ SysSetBjfParamsForSystem(c)

Next ==
    \/ \E c \in CPUS : SchedStep(c) \/ ProcStep(c)
    \/ Tick \/ AgeScan \/ AgeMove
    \/ \E s \in Slots : Wakeup(s) \/ Reap(s)

Spec == Init /\ [][Next]_vars

(* Fairness.  Each CPU runs scheduler() for ever with nothing to stop it,  *)
(* the timer interrupt keeps preempting the running process and keeps      *)
(* ticking, and age_proc() runs to its end.  No process is obliged to      *)
(* fork, sleep, exit, exec or make a system call, no sleeper is owed a     *)
(* wakeup and no parent has to reap.                                       *)
FairSpec ==
    /\ Spec
    /\ \A c \in CPUS : WF_vars(SchedStep(c)) /\ WF_vars(Yield(c))
    /\ WF_vars(Tick) /\ WF_vars(AgeScan) /\ WF_vars(AgeMove)

-----------------------------------------------------------------------------
SchedTypeOK ==
    /\ state \in [Slots -> States]
    /\ pid \in [Slots -> 0..MaxPid]
    /\ name \in [Slots -> Names \cup {"", "initcode"}]
    /\ queue \in [Slots -> Queues]
    /\ age \in [Slots -> 0..AgeThreshold + 1]
    /\ lastInLcfs \in [Slots -> 0..2 * NPROC]
    /\ arrival \in [Slots -> 0..2 * NPROC]
    /\ now \in 0..2 * NPROC
    /\ cycles \in [Slots -> 0..CycleCap]
    /\ forkPid \in [Slots -> 0..MaxPid]
    /\ nextpid \in 2..MaxPid + 1
    /\ cpu \in [CPUS -> Slots \cup {NoProc}]
    /\ lastRR \in [CPUS -> Slots]
    /\ lastLcfs \in [CPUS -> Slots \cup {NoProc}]
    /\ sched \in [CPUS -> 1..Pick]
    /\ agePc \in 0..NPROC /\ ageHit \in BOOLEAN
    /\ calls \in 0..CallBudget

(* The switch in scheduler() never puts one process on two CPUs: whatever  *)
(* lcfs() continues with or roundrobin() scans to is RUNNABLE, and a       *)
(* process is RUNNING exactly while some c->proc points to it.             *)
OneCpuPerProcess ==
    /\ \A c, d \in CPUS : c # d /\ cpu[c] # NoProc => cpu[c] # cpu[d]
    /\ \A s \in Slots : state[s] = "RUNNING" <=> \E c \in CPUS : cpu[c] = s

(* No process starves: aging moves any process that RR keeps from running *)
(* into RR, where roundrobin() reaches it from each CPU's last pick.       *)
StarvationFree ==
    \A s \in Slots : state[s] = "RUNNABLE" ~> state[s] = "RUNNING"

(* The window spec.md section 3 does not allow is exactly fork's: a       *)
(* RUNNABLE or RUNNING process has no queue only while the fork() that    *)
(* created it has not yet made its change_queue(pid, UNSET) call, which    *)
(* must resolve UNSET to RR or LCFS.  Aging, the force-to-RR loop and the  *)
(* system calls must never hand a queue back to UNSET, not even through a  *)
(* reused slot or a pid read after the lock was dropped.                   *)
UnsetOnlyInFork ==
    \A s \in Slots :
        state[s] \in {"RUNNABLE", "RUNNING"} /\ queue[s] = UNSET =>
            \E q \in Slots : forkPid[q] = pid[s]

(* The dispatch loop tries RR, then LCFS, then BJF: a process is switched  *)
(* to only from a set queue, and only when no RUNNABLE process waits in a  *)
(* queue tried before its own.                                             *)
DispatchRespectsQueues ==
    [][\A c \in CPUS :
         cpu[c] = NoProc /\ cpu'[c] # NoProc =>
           LET p == cpu'[c] IN
             /\ queue[p] # UNSET
             /\ \A t \in Slots \ {p} :
                  state[t] = "RUNNABLE" /\ queue[t] # UNSET => queue[t] >= queue[p]]_vars
====
