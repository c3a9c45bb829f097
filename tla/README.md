# TLA+ models of the xv6 lab kernel

These modules model the kernel in `src/xv6-public`. It is xv6 with four
additions: a scheduler with three queues, a priority lock, a shared-memory
manager and some query/counter system calls. Every definition that models
code is translated from the C source. `PROJECT.json` maps each one to the
lines it stands for.

## 1. Inventory of the system

| Part | Source | State | Operations (state-changing) |
|---|---|---|---|
| Process table | `proc.c`, `proc.h` | `ptable.proc[NPROC]`: state, pid, parent, killed, chan, plus per-CPU `c->proc`, `nextpid` | `allocproc`, `userinit`, `fork`, `exit`, `wait`, `sleep`, `wakeup(1)`, `kill`, `yield`/`sched` |
| Scheduler | `proc.c` 374-444, 692-873 | per-process `queue`, `arrival_time`, `executed_cycle`, BJF ratios, `last_running_time`; global `last_scheduled_lcfs`, ticks | `scheduler` (force-RR loop, `roundrobin`, `lcfs`, `bjf`), `age_proc`, `change_queue`, `set_bjf_params_*` |
| Priority lock | `prioritylock.c/.h` | `locked`, `pid`, linked list `head` of nodes (pid, proc), spinlock `slk` | `initprioritylock`, `acquirepriority`, `releasepriority` |
| Shared memory | `proc.c` 973-1092, `shm.h` | table of 16 pages (id, frame, ref_count); per-process `shared_addresses` | `shm_init`, `shm_open`, `shm_close` |
| Queries | `proc.c` 623-690 | none (reads the table and the clock) | `count_uncles`, `calc_process_lifetime` |
| Syscall counters | `proc.c` 959-967 | per-CPU counters and a total | `reset_syscall_count` (increments are in `syscall.c`) |
| Digital root | `find_digital_root_util.c` | none | `get_digital_root` |
| Console | `console.c` 130-171, 292-527 | `input` ring (`buf[128]`, uint `r`, `w`, `e`, `pointer`), `cmd_buffer` (10 rows, `r`, `w`, `pointer`, `s`, `movement`) | `consoleintr` (editing keys, arrows, submit), `shiftRight`/`shiftLeft`, `recordCommand`, `loadCommand`, `consoleread`; CGA/serial output |

How the parts interact:
- All process state is guarded by `ptable.lock`. Sleep and wakeup go
  through a channel pointer.
- `wait()` sleeps on the caller's own `struct proc`, and `exit()` wakes the
  parent on that pointer.
- `acquirepriority()` sleeps on the **same** pointer. `releasepriority()`
  writes RUNNABLE into the waiter directly and then also calls `wakeup` on
  it.
- `kill()` makes any sleeper RUNNABLE. `trap.c` (not in the snapshot) makes
  a killed process `exit()` at its next system-call boundary.
- `exit()` neither releases a priority lock nor closes shared pages.
  `wait()` frees the child's whole address space (`freevm`).

Hard behaviours: two CPUs schedule at once; sleep/wakeup channels are
shared between unrelated waits; the lock hand-off writes a state without
`ptable.lock`; fork has failure paths that leave partial state; kill races
every blocking call; slots and pids are reused.

## 2. Modules

### `ProcTable` (process table, with abstract dispatch)

- Variables: `state`, `pid`, `parent`, `killed`, `chan` and `cpu` mirror
  the fields of the same name and `c->proc`. `nextpid` is the global.
- `pc` records where a process is in the kernel: user mode, between the
  two halves of fork, asleep in `wait`, or asleep in `acquirepriority`.
- `forkChild` remembers the child slot across fork's unlocked second half.

Each action is a whole critical section of the code:
- `ForkAlloc` is `allocproc`. `ForkFail` is fork's two failure returns.
  `ForkDone` is the rest of fork.
- `Exit` is `exit` from `acquire(&ptable.lock)` to `sched`: wake the
  parent, reparent the children to initproc, become a ZOMBIE.
- `WaitStep` is one pass of wait's loop: reap, return -1, or sleep.
  `DispatchWait` resumes that loop after a wakeup.
- `Kill` is `kill`. `Yield` is the timer yield.
- `DispatchUser` is the scheduler switching to a runnable process on an
  idle CPU. The queue policy is abstracted to "any RUNNABLE process".
- `InUser` is the only definition modelled from outside `src/`. It is the
  trap-time check that a killed process exits instead of making another
  system call.

Properties:
- `ProcTypeOK`.
- `RunningOnOneCpu`: a RUNNING process is on exactly one CPU and a CPU
  runs only RUNNING processes.
- `NoLostWaitWakeup`: a parent asleep in `wait` has no ZOMBIE child.
- `ParentAlive`: the parent of every live non-init process is live.
- `KilledOnlyLive`: the killed flag is set only on live processes. This is
  the violation run.

### `PriorityLock` (extends `ProcTable`) and `PriorityLockAbs`

- The lock's variables are `locked`, `lkpid` (`lk->pid`) and `lkqueue`.
  The linked list is a sequence of `[prio, proc]` records.
- `owners` is the set of pids that have returned from `acquirepriority`
  and not yet released. It is what a user of the lock believes.
- `InsertNode` is the ordered-insert loop, as a RECURSIVE operator.
- `AcquirePriority`, `ReleasePriority` and `DispatchAcquired` model the
  lock's actions. `DispatchAcquired` is the return from `sleep()` inside
  `acquirepriority`.
- `Next` composes every process-table action with the lock actions.
- `TestNext` restricts the processes to what `prioritylock_test.c` does.
  Children acquire and release once, and nobody forks, waits or exits
  inside the critical section.

Properties:
- `MutualExclusion`: `owners` is empty or equals `{lkpid}` with the lock
  held.
- `AtMostOneInCS`: at most one live process believes it owns the lock.
- `QueueOrdered`: the queue is strictly descending in pid.
- `QueuedAreBlocked`: every queued process is asleep in acquire and is not
  the owner.
- `WokenIsOwner`: a process made runnable inside acquire is the owner.
- `LockHeldByLive`: a held lock belongs to a live process.
- `RefinesAbsLock`: the lock implements `PriorityLockAbs`. That module is
  a holder and a set of waiting pids, where release hands the lock to the
  greatest waiting pid. The mapping takes `holder` to `lkpid` (0 when
  unlocked) and `waiting` to the pids in the queue.

### `Scheduler` (three-queue scheduler, with a cut-down lifecycle)

- Variables mirror the fields the scheduler reads and writes: `state`,
  `pid`, `name`, `queue`, `prio` and `ratio` (`bjf_info`), `cycles`
  (`executed_cycle` in tenths, capped by `CycleCap`), `nextpid`, `cpu`
  (`c->proc`). The locals of each CPU's `scheduler()` are per-CPU functions:
  `lastRR`, `lastLcfs`, and `sched`, the index of the force-to-RR loop
  (`Pick` once it is done).
- `agePc`/`ageHit` are where `age_proc()` is in its scan and whether it has
  dropped `ptable.lock` to move the slot there. `forkPid` is the pid a
  parent's `fork()` still has to pass to `change_queue()`.
- Time: `age[s]` is `ticks - last_run`, saturated just above the threshold,
  which is exact for age_proc's comparison. `now`, `lastInLcfs` and
  `arrival` keep only the order of the tick values (ties included):
  `Renumber` renumbers them densely after every step. Fields of dead slots
  are zeroed, since fork rewrites them before anything reads them.
- Actions:
  - `ForceRR` is one slot of the unlocked force-to-RR loop.
  - `DispatchRR`, `DispatchLcfs`, `DispatchBjf` and `Idle` are the policy
    switch, built from the operators `RoundRobin`, `Lcfs`, `Bjf` and
    `BjfRank`.
  - `Tick` is the timer: ticks++ and the start of `age_proc()`.
    `AgeScan` continues the scan and `AgeMove` is the `change_queue()` made
    with the lock dropped, reading the pid afresh.
  - `ForkStart` is allocproc and fork up to `change_queue()`;
    `ForkSetQueue` is that call. `Exit`, `Reap`, `Sleep`, `Wakeup`,
    `Yield` and `Exec` (renaming) complete the lifecycle.
  - `SysChangeQueue`, `SysSetBjfPriority`, `SysSetBjfParamsForProcess` and
    `SysSetBjfParamsForSystem` are the system calls, `CallBudget` in all.
- `Tick` and `Exec` are modelled from spec.md (trap.c and exec.c are not in
  the snapshot).

Properties:
- `SchedTypeOK`.
- `OneCpuPerProcess`: no process is on two CPUs, though `lcfs()` continues
  with each CPU's own last pick.
- `UnsetOnlyInFork`: a runnable process without a queue is a child whose
  `fork()` has not yet called `change_queue()`.
- `StarvationFree`: every RUNNABLE process eventually runs.
- `DispatchRespectsQueues` (action property): a process is dispatched
  only from a set queue, and only when no RUNNABLE process waits in an
  earlier queue. No run checks it: the LCFS continuation violates it
  (see Findings).

### `SharedMem` (shared pages, with the address-space side of the lifecycle)

- State: `pool` is `shm.shared_pages` (id, ref_count, frame); `shaddr[p]`
  is `p->shared_addresses`; `pt[p]` is p's page table over pages
  `0..MaxSz`, a page being unmapped, private (`Priv`, untracked) or a pool
  frame; `sz`; `pstate` (UNUSED/LIVE/ZOMBIE); `freelist`, the kalloc free
  list as a stack; `panicked`, set by `panic()` (console.c), after which
  nothing moves.
- Actions:
  - `shm_open` is three actions: `ShmOpenFail` (-1), `ShmOpenNew` (kalloc,
    map at `PGROUNDUP(sz)`, ref 1) and `ShmOpenShared` (map the existing
    frame, ref+1). `shm_close` is `ShmCloseFail` and `ShmCloseUnmap`
    (clear PTE and record, ref-1, kfree and free the entry at 0).
    `SysOpenSharedmem`/`SysCloseSharedmem` choose the id.
  - `Fork` (records reset to -1, private copies below sz), `Growproc` by
    one page either way, `Exit` (closes nothing) and `Reap` (wait's
    `freevm`, which kfree's every present page, shared ones too).
  - kalloc, kfree, mappages and freevm are in vm.c/kalloc.c, not in the
    snapshot, and are modelled from spec.md (`KInit`, `Remap`,
    `FreeVmFrames`).
- `UsageSpec` follows shm_test.c: a process opens, closes before it exits,
  and does not grow while a page is open. `Spec` allows any order.

Properties:
- `ShmTypeOK`.
- `RefCountExact` (spec.md §3): each entry's ref_count is the number of
  live-or-zombie processes with a record for it.
- `FrameOwnership`: each frame is on the free list once or held by one
  entry, never both, never lost.
- `NoUseAfterFree`: no page table maps a frame that is free.
- The "remap" panic is kept in the model (`panicked`) but no run checks
  it: under `UsageSpec` (shm_test.c's calls) no process holds two ids or
  grows over an open page, so no property there could see it.

### `ProcLifetime` (get_process_lifetime)

- State: `now` is the RTC date `cmostime()` would read, `ticks` the
  seconds since boot; per slot `state` (UNUSED/RUNNABLE/ZOMBIE), `pid`
  and `initTime` (`p->init_time`); `forking`, the slot whose `fork()` has
  not yet reached `cmostime()`; `nextpid`. `born` and `stampedAt` are
  history: when the child became RUNNABLE and when fork stamped it.
  `ret` holds the last answer and the range the true age lies in.
- `calc_diff_till_now` is the operator `CalcDiffTillNow`, in 32-bit uint
  arithmetic (`AddW`, `MulW`, `NegW`): a uint is held as the int32 with
  the same bits, which is also what the return as `int` gives.
- Actions: `Tick` (the RTC, Gregorian calendar; lapic.c is not in the
  snapshot), `ForkRun` (allocproc and fork up to the release of
  ptable.lock), `ForkStamp` (proc.c:246), `GetProcessLifetime` (a child
  asks for its own pid, as the test program does), `Exit` and `Reap`
  (wait clears pid but not init_time). initproc (slot 1) is never
  stamped: userinit does not call cmostime.
- `LifetimeExact` (spec.md §6): the answer lies between the seconds since
  fork stamped the child (0 before that) and the seconds since it became
  RUNNABLE.

### `Console` (the line editor) and `LineDiscipline`

`Console` models console.c's input side. Its variables are the `input`
ring (`buf`, `r`, `w`, `e`, `ptr`) and the `cmd_buffer` history ring (`cmd`,
`cmdR`, `cmdW`, `cmdPtr`, `cmdS`, `movement`). There is also one reader,
`rd`, which is idle, asleep on `&input.r`, or woken. The history variable
`taken` holds every byte consoleread has taken.
- Both sides run under `cons.lock`. So each keystroke of `consoleintr` is
  one action: `TypeKey` (the default case, with `recordCommand` on NL,
  CR or ^D), `Backspace`, `CursorBack`, `CursorForward`, `KillLine` (^U,
  and ^L, which changes the same state), `ArrowUp` and `ArrowDown` (with
  `loadCommand`).
- Each stretch of `consoleread` up to its return or its sleep is one
  action: `ReadCall`, and `ReadResume` after the wakeup at submit.
  `ReadLoop` is the read loop, with ^D pushed back when bytes were
  already read.
- The indices are uints modulo `UINT`. The MC module uses 2^30, which TLC
  can hold. It is a multiple of `INPUT_BUF`, as 2^32 is, so every `%`
  and every uint comparison the model reaches comes out as in the code.
- `recordCommand` reads `input.buf[i + w]` without `% INPUT_BUF`. Bytes
  past the array are a nondeterministic `JUNK` or `NUL`.
- Not modelled: what `cgaputc` draws, the serial echo, ^P (procdump only
  prints) and consoleread's `killed` return.

`LineDiscipline` is the promise, stated without any ring:
- `line` is the line being edited and `cursor` its cursor.
- `pending` is the input submitted and not yet read.
- `taken` is the input read so far.
- Typing inserts at the cursor. NL or ^D submits the whole line, and a
  line that fills the buffer is submitted as it is.
- Erase, the cursor moves and kill act on the line. A recalled command
  replaces the line with characters that fit beside the pending input.
- The reader takes a prefix of `pending`.

Properties:
- `ConsoleTypeOK`, which includes `movement <= s` (CAN_ARROW_UP).
- `RefinesLineDiscipline`: with `line` the ring from `w` to `e`, `cursor`
  = `pointer - w` and `pending` the ring from `r` to `w`, Console
  implements LineDiscipline. Indices out of order map to a byte sequence
  no abstract step produces. Since the reader may take any prefix, this
  catches a byte read twice but not a lost end of file (a ^D consumed
  together with the bytes before it).

### MC modules

`MCProcTable` and `MCPriorityLock` bind the CPUs to two model values, with
symmetry over them. `MCScheduler` also offers a single CPU (`MCOneCpu`)
and the argument sets of the scheduling system calls. `MCSharedMem` binds the ids to `{1, 2}`. `MCConsole` types two characters and reads one or two bytes at a time. `MCProcLifetime` boots the RTC two seconds before the end of January, of a non-leap February and of a year, or mid-June. They also bind `NPROC`, `MaxPid` and the set of pids
`kill` may be called with (`0` and every pid that can exist).

## 3. Runs

| Run | Config | Expect | Shows |
|---|---|---|---|
| proctable_lifecycle | `ProcTable.cfg` | pass | fork/exit/wait/kill/yield on 2 CPUs keep the table consistent; no lost wakeup in wait |
| proctable_kill_unused | `ProcTableKill.cfg` | violation | `kill(0)` or the pid of a failed fork marks an UNUSED slot; the next process there is born killed |
| plock_usage | `PriorityLock.cfg` | pass | under the test program's usage the lock is exclusive, ordered, hands off correctly, and refines "release goes to the highest waiting pid" (`RefinesAbsLock`) |
| plock_exit_wakeup | `PriorityLockExitWake.cfg` | violation | a child's `exit` wakes its parent blocked on the lock, and the parent enters the critical section beside the owner |
| plock_kill | `PriorityLockKill.cfg` | violation | a killed hand-off recipient exits owning the lock for ever |
| plock_double_run | `PriorityLockDoubleRun.cfg` | violation | release marks a running process RUNNABLE while it is on its CPU |
| sched_two_cpus | `SchedulerTwoCpus.cfg` | pass | two scheduler loops with their own LCFS/RR pointers never run one process twice; a runnable process lacks a queue only inside its own fork |
| sched_liveness | `SchedulerLive.cfg` | pass | under the fairness below, every RUNNABLE process eventually runs |
| shm_usage | `SharedMem.cfg` | pass | under shm_test.c's usage, ref counts, frame ownership and mappings stay consistent |
| shm_exit_while_shared | `SharedMemExit.cfg` | violation | a process exits with a page open; wait's freevm frees the frame another process still maps |
| lifetime_fork_window | `ProcLifetime.cfg` | violation | a child that asks for its lifetime before fork() has stamped it gets a zeroed or stale init_time's lifetime |
| console_editing | `Console.cfg` | pass | within one lap of the ring, every editing key, history recall, submit and read keeps the ring equal to the abstract line and input (`RefinesLineDiscipline`) |

Findings are recorded in `PROJECT.json`.
- The three lock runs are code bugs. They need more than the test's
  usage, where only childless children take the lock. The exit-wakeup
  bug needs a process that takes the lock while it has a child. The
  other two need a `kill` during use of the lock, or a spurious wakeup
  on the waiter's channel.
- The kill run is a divergence from spec.md §6: kill of an unknown pid
  returns 0.
- Fork diverges from spec.md §3 ("a RUNNABLE process has a queue"):
  the child is RUNNABLE before `change_queue()` sets its queue. The
  window is harmless for a fresh slot, since UNSET is never dispatched,
  but a reused slot runs under its previous occupant's queue.
  `UnsetOnlyInFork` (in sched_two_cpus) shows the unset window of a
  fresh slot is exactly fork's; the stale queue of a reused slot is a
  legal queue, and no property tells it apart.
- A gap in spec.md §4.2, with no run: the continuation bias is not
  limited to the LCFS queue, so a process that moved itself to BJF is
  still continued through LCFS. `DispatchRespectsQueues` shows it in
  MCScheduler with one CPU (`MCOneCpu`), `NPROC = 4`, `MaxPid = 4`,
  `CycleCap = 0` and `QueueArgs <- MCToBjf`.
- The console is correct within one lap of its 128-byte ring, as
  console_editing shows. Past the lap it is not: Console.cfg with
  `INPUT_BUF = 4` and `MaxKeys = 8` violates `RefinesLineDiscipline` in
  5 steps. The trace:
  - The user types NL, "a", NL, so `w` = 3.
  - ARROW_UP leaves `e = (3 + 1) % 4 = 0`, below `w`, because
    `loadCommand` reduces `e` and `pointer` modulo 128 but not `r` and
    `w`.
  - In the kernel, after 128 bytes of input, a recalled command therefore
    cannot be submitted: `e - r` wraps, and every key, Enter included, is
    refused until ^U. If the reader has taken little, Enter instead sets
    `w` back, and submitted bytes are taken again. A second trace shows
    this: after NL, NL, "a", NL (`w` = 4), ARROW_UP gives `e` = 1, and
    NL then sets `w` to 2.
- Also past the lap:
  - `recordCommand` reads past `input.buf`, so the history holds junk.
  - A recalled row crossing the end of the ring overwrites unread
    input.
  - A line that fills the buffer is submitted with the cursor left
    behind `w`. Without the arrow keys, this alone gives `pointer < w`
    in 5 steps.
- ARROW_DOWN from the first history step sets `cmd_buffer.pointer = 1`
  instead of `cmd_buffer.w`. The next ARROW_UP then recalls row 0, or
  further back an empty row, not the latest command. The invariant
  `movement = 0 => cmdPtr = cmdW` fails in 4 steps of console_editing's
  configuration. `RefinesLineDiscipline` leaves the recalled row open,
  so it does not catch this.
- shm_exit_while_shared is a code bug: exit() does not close shared
  pages, so freevm kfree's a frame that the pool and other processes
  still hold.
- shm_open diverges from spec.md §4.4: it never moves `sz` past the page
  it maps, so a second id maps at the same address and panics "remap";
  so does a growproc over an open page. The test program never does
  either, and no run checks it.
- shm_open does not check kalloc() for 0 (proc.c:1021). The model panics
  there with "kalloc"; it needs memory exhaustion and no run keeps it.
- lifetime_fork_window diverges from spec.md §6. fork() makes the child
  RUNNABLE and drops ptable.lock before `cmostime(&np->init_time)`, so a
  child asking at once gets the date since year 0 in uint (-524883842 on
  2026-02-28) or its slot's previous process's init_time. With the window
  closed (a local variant guarding the query by `forking # s`),
  `LifetimeExact` still fails at a month end: forked at 23:59:59 on
  2026-02-28, a child reads 172801 one second later; on 2026-01-31 it
  reads -86398 (30-day months).

Bounds:
- `NPROC = 4` for the process table and 5 for the lock. `MaxPid = 6`
  bounds `nextpid`; `ForkAlloc` stops once it is reached.
- Four slots allow three generations: init, a child, a grandchild, plus a
  failed fork. With these, every reparenting and reaping case happens,
  including init adopting a zombie.
- Five slots give the lock an owner and three queued waiters, so the
  insert loop hits the head, the middle and the tail positions.
- Two CPUs are enough for any pair of concurrent critical sections. Every
  action is a whole critical section of `ptable.lock` or of `lk->slk`.

Scheduler bounds:
- Two CPUs with two slots (pids up to 4, so slots are reused); one CPU
  with two slots for liveness.
- `AgeThreshold = 0`: any tick ages every process that did not just run,
  so every aging path happens. The threshold's size does not change which
  comparisons are possible.
- One scheduling system call, aimed at pid 3: enough to put a process in
  BJF or move it between queues. In the liveness run it may also be aimed
  at init (pid 1), so that age_proc moves slot 1 and scans on past it.

SharedMem bounds: three process slots (init, a child, a reused slot), two
pool entries and two ids (so the pool can be full), two frames (so a
second id can still be allocated and a freed frame reused) and pages
0..2 (so an open page can sit above a private page and be grown into).

ProcLifetime bounds: three slots and pids up to 5 (so a reaped slot is
reused with its stale init_time), four seconds (enough to cross a day,
month and year boundary from 23:59:58).

Console bounds:
- `INPUT_BUF = 16`, `CMD_BUF_SIZE = 3`, two characters, five keystrokes
  and reads of 1 or 2 bytes.
- Five keys reach:
  - insertion and deletion inside a line;
  - a submit with the cursor inside the line;
  - three history rows, recalled up and down;
  - ^D pushed back by a 2-byte read.
- Indices stay below 16, so the run checks one lap. The lap is shown
  above with `INPUT_BUF = 4`.
- The run uses `CHECK_DEADLOCK FALSE`: once the keys are spent, the
  reader sleeps for ever, as the kernel does waiting for a key.

Fairness (`FairSpec`), used only by `sched_liveness`:
- Weak fairness of each CPU's `SchedStep`: `scheduler()` loops for ever
  with interrupts enabled between passes.
- Weak fairness of each CPU's `Yield`: the timer preempts a running
  process.
- Weak fairness of `Tick`, `AgeScan` and `AgeMove`: the timer keeps
  ticking, and age_proc runs to its end.
- No process is obliged to fork, sleep, exit or make a system call, and no
  sleeper is owed a wakeup.
- The liveness run uses one CPU and no symmetry. Two CPUs exceed TLC's
  reach for temporal checking at this size, so starvation that depends on
  each CPU keeping its own round-robin pointer is not checked.

## 4. Plan (further work)

1. Scheduler: a refinement of ProcTable's abstract dispatch.
2. Pure operators, each checked against a reference over bounded inputs:
   - `get_digital_root` against `1 + (n-1) % 9`;
   - `count_uncles` over ProcTable states (its null parent reads make
     the result depend on the caller's memory; see Not modelled).
3. `SyscallCount.tla`: reset against concurrent per-CPU increments.
4. Console past one lap of the ring: a violation run of
   `RefinesLineDiscipline` at `INPUT_BUF = 4` (the traces in Findings),
   and a history property that names the recalled row.
5. Lock liveness under the test usage: every waiter eventually owns the
   lock (with strong fairness of dispatch and release per slot, and each
   child acquiring once, as prioritylock_test.c does). Without the
   acquire-once restriction it fails by design: higher pids can overtake
   a lower one for ever. With it, TLC's liveness check of the two-CPU
   model did not finish in 15 minutes even at four slots, so no run
   keeps it yet.

## 5. Not modelled

- The console's output side: `cgaputc` (what the screen shows),
  `consputc`, `cprintf`, `printint`, `consolewrite` and `panic`. They are
  layout and I/O; spec.md treats the console as an external
  collaborator.
- The file system and the fd/cwd handling of fork and exit.
- Address-space contents beyond which frame a page maps; the
  per-process page limit `MaxSz`.
- Float rounding of `executed_cycle`: the model counts it in tenths,
  capped by `CycleCap`.
- `nextpid` overflow: it is out of TLC's reach at 32 bits. The model
  bounds it instead.
- `count_uncles`: every call reads `parent->pid` through the null parent
  pointer of initproc and of unused slots. In the kernel that reads the
  caller's user memory at address 16, so the count depends on the
  program's code bytes.
- get_process_lifetime asked by initproc (never stamped) or for pid 0
  (reaped slots keep their init_time): only children asking for their
  own pid are modelled, as in the test program.
- User programs other than the two whose usage pattern the lock model
  follows.
