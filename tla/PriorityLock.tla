----------------------------- MODULE PriorityLock -----------------------------
(***************************************************************************)
(* The priority lock of src/xv6-public/prioritylock.c, as the system calls *)
(* acquire_prioritylock and release_prioritylock use it on the global      *)
(* instance pl (prioritylock_test_util.c), composed with the process table *)
(* whose sleep/wakeup it blocks on.                                        *)
(*                                                                         *)
(* The wait queue is the linked list lk->queue as a sequence of nodes      *)
(* [prio |-> p->priority, proc |-> p->process].  acquirepriority() runs    *)
(* under lk->slk and, when it blocks, hands over to ptable.lock inside     *)
(* sleep() before it releases lk->slk, so enqueueing and falling asleep    *)
(* are one step.  releasepriority() checks ownership without lk->slk and   *)
(* then works under it.                                                    *)
(*                                                                         *)
(* owners is what the user programs believe: the pids that have returned   *)
(* from acquire_prioritylock and not yet called release_prioritylock.      *)
(***************************************************************************)
EXTENDS ProcTable, Sequences, Integers, SequencesExt

VARIABLES
    locked,    \* lk->locked
    lkpid,     \* lk->pid
    lkqueue,   \* lk->queue
    owners     \* pids inside their critical section

lockVars == <<locked, lkpid, lkqueue, owners>>
vars     == <<procVars, lockVars>>

Node == [prio : 0..MaxPid, proc : Slots]

(* initprioritylock() (prioritylock.c:10-17) before any process uses it. *)
LockInit ==
    /\ locked  = FALSE
    /\ lkpid   = 0
    /\ lkqueue = <<>>
    /\ owners  = {}

(* Fault seed for InsertNode: the comparison turned around. *)
RECURSIVE InsertNodeAscending(_, _)
InsertNodeAscending(q, n) ==
    IF q = <<>> \/ n.prio < Head(q).prio
    THEN <<n>> \o q
    ELSE <<Head(q)>> \o InsertNodeAscending(Tail(q), n)

(* The insertion loop of acquirepriority() (prioritylock.c:46-60): a node  *)
(* goes in front of the first node of strictly lower priority, that is     *)
(* after every node whose priority is at least its own.                    *)
RECURSIVE InsertNode(_, _)
InsertNode(q, n) ==
    IF q = <<>> \/ n.prio > Head(q).prio
    THEN <<n>> \o q
    ELSE <<Head(q)>> \o InsertNode(Tail(q), n)

-----------------------------------------------------------------------------
(* acquirepriority() by the process p running on c (prioritylock.c:35-69): *)
(* a free lock is taken at once; a held one queues a node keyed by the     *)
(* caller's pid and sleep(cur_proc, &lk->slk)s.                            *)
AcquirePriority(c, p) ==
    /\ InUser(c, p)
    /\ IF locked
       THEN /\ lkqueue' = InsertNode(lkqueue, [prio |-> pid[p], proc |-> p])
            /\ state'   = [state EXCEPT ![p] = "SLEEPING"]
            /\ chan'    = [chan EXCEPT ![p] = p]
            /\ pc'      = [pc EXCEPT ![p] = "plock"]
            /\ cpu'     = [cpu EXCEPT ![c] = NoProc]
            /\ UNCHANGED <<locked, lkpid, owners>>
       ELSE /\ locked' = TRUE
            /\ lkpid'  = pid[p]
            /\ owners' = owners \cup {pid[p]}
            /\ UNCHANGED <<lkqueue, state, chan, pc, cpu>>
    /\ UNCHANGED <<pid, parent, killed, forkChild, nextpid>>

(* Fault seeds for ReleasePriority: the hand-off keeps lk->pid; keeps the *)
(* node in the queue; clears the lock as well as waking the head; the     *)
(* empty-queue branch stores -1 in lk->pid.                               *)
ReleaseKeepPid(c, p) ==
    /\ InUser(c, p)
    /\ owners' = owners \ {pid[p]}
    /\ IF lkpid # pid[p] \/ ~locked
       THEN UNCHANGED <<locked, lkpid, lkqueue, state>>
       ELSE IF lkqueue # <<>>
       THEN LET h == Head(lkqueue).proc IN
            /\ lkqueue' = Tail(lkqueue)
            /\ state'   = Wakeup1([state EXCEPT ![h] = "RUNNABLE"], h)
            /\ UNCHANGED <<locked, lkpid>>
       ELSE /\ locked' = FALSE
            /\ lkpid'  = 0
            /\ UNCHANGED <<lkqueue, state>>
    /\ UNCHANGED <<pid, parent, killed, chan, pc, forkChild, nextpid, cpu>>

ReleaseNoPop(c, p) ==
    /\ InUser(c, p)
    /\ owners' = owners \ {pid[p]}
    /\ IF lkpid # pid[p] \/ ~locked
       THEN UNCHANGED <<locked, lkpid, lkqueue, state>>
       ELSE IF lkqueue # <<>>
       THEN LET h == Head(lkqueue).proc IN
            /\ state' = Wakeup1([state EXCEPT ![h] = "RUNNABLE"], h)
            /\ lkpid' = pid[h]
            /\ UNCHANGED <<locked, lkqueue>>
       ELSE /\ locked' = FALSE
            /\ lkpid'  = 0
            /\ UNCHANGED <<lkqueue, state>>
    /\ UNCHANGED <<pid, parent, killed, chan, pc, forkChild, nextpid, cpu>>

ReleaseThenWake(c, p) ==
    /\ InUser(c, p)
    /\ owners' = owners \ {pid[p]}
    /\ IF lkpid # pid[p] \/ ~locked
       THEN UNCHANGED <<locked, lkpid, lkqueue, state>>
       ELSE /\ locked' = FALSE
            /\ lkpid'  = 0
            /\ IF lkqueue # <<>>
               THEN LET h == Head(lkqueue).proc IN
                    /\ lkqueue' = Tail(lkqueue)
                    /\ state'   = Wakeup1([state EXCEPT ![h] = "RUNNABLE"], h)
               ELSE UNCHANGED <<lkqueue, state>>
    /\ UNCHANGED <<pid, parent, killed, chan, pc, forkChild, nextpid, cpu>>

ReleaseMinusOne(c, p) ==
    /\ InUser(c, p)
    /\ owners' = owners \ {pid[p]}
    /\ IF lkpid # pid[p] \/ ~locked
       THEN UNCHANGED <<locked, lkpid, lkqueue, state>>
       ELSE IF lkqueue # <<>>
       THEN LET h == Head(lkqueue).proc IN
            /\ lkqueue' = Tail(lkqueue)
            /\ state'   = Wakeup1([state EXCEPT ![h] = "RUNNABLE"], h)
            /\ lkpid'   = pid[h]
            /\ UNCHANGED locked
       ELSE /\ locked' = FALSE
            /\ lkpid'  = -1
            /\ UNCHANGED <<lkqueue, state>>
    /\ UNCHANGED <<pid, parent, killed, chan, pc, forkChild, nextpid, cpu>>

(* releasepriority() by p (prioritylock.c:71-98).  A caller that is not   *)
(* lk->pid gets a message and nothing changes.  The owner pops the head    *)
(* node, stores RUNNABLE into its process (without ptable.lock), makes     *)
(* that process's pid the owner and calls wakeup(p->process); with an      *)
(* empty queue it clears the lock.  The caller leaves its critical         *)
(* section in every case.                                                  *)
ReleasePriority(c, p) ==
    /\ InUser(c, p)
    /\ owners' = owners \ {pid[p]}
    /\ IF lkpid # pid[p] \/ ~locked
       THEN UNCHANGED <<locked, lkpid, lkqueue, state>>
       ELSE IF lkqueue # <<>>
       THEN LET h == Head(lkqueue).proc IN
            /\ lkqueue' = Tail(lkqueue)
            /\ state'   = Wakeup1([state EXCEPT ![h] = "RUNNABLE"], h)
            /\ lkpid'   = pid[h]
            /\ UNCHANGED locked
       ELSE /\ locked' = FALSE
            /\ lkpid'  = 0
            /\ UNCHANGED <<lkqueue, state>>
    /\ UNCHANGED <<pid, parent, killed, chan, pc, forkChild, nextpid, cpu>>

(* scheduler() switches to a process woken inside acquirepriority(): sleep *)
(* clears p->chan and returns, acquirepriority() releases lk->slk and the  *)
(* process returns to user space believing it owns the lock - unless it    *)
(* was killed, when trap() calls exit() as the system call returns.        *)
DispatchAcquired(c) ==
    /\ cpu[c] = NoProc
    /\ \E s \in Slots :
         /\ state[s] = "RUNNABLE"
         /\ pc[s] = "plock"
         /\ state'  = [state EXCEPT ![s] = "RUNNING"]
         /\ cpu'    = [cpu EXCEPT ![c] = s]
         /\ chan'   = [chan EXCEPT ![s] = NoProc]
         /\ pc'     = [pc EXCEPT ![s] = "user"]
         /\ owners' = IF killed[s] THEN owners ELSE owners \cup {pid[s]}
    /\ UNCHANGED <<pid, parent, killed, forkChild, nextpid, locked, lkpid, lkqueue>>

-----------------------------------------------------------------------------
(* Any process may make any system call, kill and exit included. *)
Next ==
    \/ ProcNext /\ UNCHANGED lockVars
    \/ \E c \in CPUS :
         \/ \E p \in Slots : AcquirePriority(c, p) \/ ReleasePriority(c, p)
         \/ DispatchAcquired(c)

Spec == Init /\ LockInit /\ [][Next]_vars

(* The processes use the lock the way prioritylock_test.c and shm_test.c   *)
(* do: no kill; a process that acquires is not initproc (which adopts      *)
(* orphans), has no child, and does not already hold the lock; inside its  *)
(* critical section it only computes, sleeps or is preempted, then         *)
(* releases; it never exits holding the lock.                              *)
UsageOK(p) == p # InitProc /\ Children(p) = {} /\ pid[p] \notin owners

OutsideCS(c) == \A p \in Slots : OnCpu(c, p) => pid[p] \notin owners

TestNext ==
    \E c \in CPUS :
        \/ /\ \/ OutsideCS(c) /\ (ForkAlloc(c) \/ Wait(c) \/ Exit(c))
              \/ ForkFail(c) \/ ForkDone(c)
              \/ Yield(c) \/ DispatchUser(c) \/ DispatchWait(c)
           /\ UNCHANGED lockVars
        \/ \E p \in Slots :
             \/ AcquirePriority(c, p) /\ UsageOK(p)
             \/ ReleasePriority(c, p) /\ pid[p] \in owners
        \/ DispatchAcquired(c)

TestSpec == Init /\ LockInit /\ [][TestNext]_vars

(* The same programs, and some process may kill() another. *)
KillNext == TestNext \/ \E c \in CPUS : Kill(c) /\ UNCHANGED lockVars

KillSpec == Init /\ LockInit /\ [][KillNext]_vars

-----------------------------------------------------------------------------
LockTypeOK ==
    /\ ProcTypeOK
    /\ locked  \in BOOLEAN
    /\ lkpid   \in 0..MaxPid
    /\ lkqueue \in Seq(Node)
    /\ owners  \subseteq 1..MaxPid

(* Mutual exclusion: every process inside its critical section is the      *)
(* owner lk->pid of the held lock.  Ownership passes by direct hand-off in *)
(* releasepriority(), so the woken waiter never re-checks lk->locked.      *)
MutualExclusion ==
    owners # {} => locked /\ owners = {lkpid}

(* At most one live process is inside its critical section (spec 4.3:    *)
(* a woken waiter holds the lock and never needs to re-contend).           *)
AtMostOneInCS ==
    \A s, t \in Slots :
        /\ state[s] \in Live /\ pid[s] \in owners
        /\ state[t] \in Live /\ pid[t] \in owners
        => s = t

(* A held lock belongs to a process that is alive: the owner lk->pid is   *)
(* running, runnable or asleep, and can still release it.                  *)
LockHeldByLive ==
    locked => \E s \in Slots : pid[s] = lkpid /\ state[s] \in Live

(* The wait queue is in strictly descending pid order, so release always   *)
(* hands the lock to the highest waiting pid.                              *)
QueueOrdered ==
    \A i, j \in 1..Len(lkqueue) : i < j => lkqueue[i].prio > lkqueue[j].prio

(* Every node of the wait queue stands for a process asleep in             *)
(* acquirepriority() with that node's pid, and the owner has no node.      *)
QueuedAreBlocked ==
    \A i \in 1..Len(lkqueue) :
        LET s == lkqueue[i].proc IN
            /\ state[s] = "SLEEPING" /\ pc[s] = "plock"
            /\ pid[s] = lkqueue[i].prio
            /\ pid[s] # lkpid

(* A process leaves acquirepriority() only as the owner: one that is woken *)
(* inside it (RUNNABLE at pc "plock") is the one release handed the lock.  *)
WokenIsOwner ==
    \A s \in Slots :
        pc[s] = "plock" /\ state[s] # "SLEEPING" => locked /\ lkpid = pid[s]

-----------------------------------------------------------------------------
(* Refinement: the lock record lk->locked, lk->pid and the pids of the     *)
(* queued nodes implement the abstract priority lock of PriorityLockAbs.   *)
(* A blocked acquire is the abstract acquire that joins the waiters; the   *)
(* hand-off in releasepriority() is the abstract release to Max(waiting);  *)
(* the woken waiter's return from sleep() is a stuttering step.            *)
AbsLock == INSTANCE PriorityLockAbs
               WITH Pids    <- 1..MaxPid,
                    holder  <- IF locked THEN lkpid ELSE 0,
                    waiting <- {n.prio : n \in ToSet(lkqueue)}

RefinesAbsLock == AbsLock!AbsSpec
=============================================================================
