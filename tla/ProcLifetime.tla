---------------------------- MODULE ProcLifetime ----------------------------
(***************************************************************************)
(* get_process_lifetime (sysproc.c:94-100, proc.c:658-691): the seconds a  *)
(* process has lived, as the difference of two CMOS dates, the one fork()  *)
(* stored in p->init_time (proc.c:246) and the one read now.               *)
(*                                                                         *)
(* The processes are initproc in slot 1 and the children it forks, which   *)
(* ask for their own lifetime (get_process_lifetime(getpid()), as the      *)
(* test program does), exit, and are reaped by initproc.  Time is the RTC  *)
(* date, advanced one second per Tick with the real calendar; `born` is    *)
(* the tick at which the child became RUNNABLE, the creation the spec      *)
(* counts from.  uint arithmetic is kept at 32 bits: a uint is held as the *)
(* int with the same bits, which is also what the final return as int      *)
(* gives.                                                                  *)
(***************************************************************************)
EXTENDS Integers

CONSTANTS
    NPROC,      \* slots of ptable.proc
    MaxPid,     \* bound on nextpid
    Boot,       \* the RTC dates the machine may boot at
    MaxTicks    \* bound on the seconds that pass

Slots  == 1..NPROC
NoSlot == 0
NoRet  == [val |-> 0, lo |-> 0, hi |-> 0, none |-> TRUE]

(* A struct rtcdate; the zeroed one of a slot fork never stamped. *)
Dates == [year : Nat, month : Nat, day : Nat, hour : Nat, minute : Nat, second : Nat]
ZeroDate == [year |-> 0, month |-> 0, day |-> 0, hour |-> 0, minute |-> 0, second |-> 0]

VARIABLES
    now,        \* what cmostime() would read
    ticks,      \* seconds since boot
    state,      \* UNUSED, RUNNABLE (alive: runnable or running) or ZOMBIE
    pid,
    initTime,   \* p->init_time
    born,       \* ticks when the child became RUNNABLE (history)
    stampedAt,  \* ticks when fork() read the date for it (history)
    nextpid,
    forking,    \* the slot whose fork() has not reached cmostime() yet
    ret         \* the last answer of get_process_lifetime and the true age

vars == <<now, ticks, state, pid, initTime, born, stampedAt, nextpid, forking, ret>>

-----------------------------------------------------------------------------
(* 32-bit arithmetic.  uint addition and multiplication wrap mod 2^32; an  *)
(* int32 holds the same bits, so both are done on int32 values.           *)
MaxI == 2147483647
MinI == -MaxI - 1

AddW(a, b) ==
    IF a >= 0 /\ b > MaxI - a THEN (a - MaxI - 1) + (b - MaxI - 1)
    ELSE IF a < 0 /\ b < MinI - a THEN (a + MaxI + 1) + (b + MaxI + 1)
    ELSE a + b

NegW(a) == IF a = MinI THEN MinI ELSE -a

RECURSIVE MulW(_, _)
MulW(k, c) ==
    IF k = 0 THEN 0
    ELSE LET h == MulW(k \div 2, c)
         IN  AddW(AddW(h, h), IF k % 2 = 1 THEN c ELSE 0)

(* The timestamp calc_diff_till_now builds from a date (proc.c:662-666):   *)
(* 365-day years and 30-day months, in uint.                               *)
Stamp(t) ==
    AddW(AddW(AddW(MulW(t.year, 31536000), MulW(t.month, 2592000)),
              MulW(t.day, 86400)),
         t.hour * 3600 + t.minute * 60 + t.second)

(* calc_diff_till_now(input_time) (proc.c:658-669): end - start in uint,  *)
(* returned as int.                                                        *)
CalcDiffTillNow(t) == AddW(Stamp(now), NegW(Stamp(t)))

(* The first slot with that pid (proc.c:673-681 and 624-631). *)
SlotOfPid(q) ==
    IF \E s \in Slots : pid[s] = q
    THEN CHOOSE s \in Slots : pid[s] = q /\ \A r \in 1..s-1 : pid[r] # q
    ELSE NoSlot

(* calc_process_lifetime(pid) (proc.c:671-691): -1 if no slot has the pid. *)
CalcProcessLifetime(q) ==
    LET s == SlotOfPid(q) IN IF s = NoSlot THEN -1 ELSE CalcDiffTillNow(initTime[s])

-----------------------------------------------------------------------------
(* The calendar the RTC keeps (lapic.c's cmostime reads it; not in this    *)
(* snapshot): the Gregorian month lengths.                                 *)
Leap(y) == y % 4 = 0 /\ (y % 100 # 0 \/ y % 400 = 0)
DaysIn(m, y) ==
    IF m = 2 THEN IF Leap(y) THEN 29 ELSE 28
    ELSE IF m \in {4, 6, 9, 11} THEN 30 ELSE 31

NextSecond(t) ==
    IF t.second < 59 THEN [t EXCEPT !.second = @ + 1]
    ELSE IF t.minute < 59 THEN [t EXCEPT !.second = 0, !.minute = @ + 1]
    ELSE IF t.hour < 23 THEN [t EXCEPT !.second = 0, !.minute = 0, !.hour = @ + 1]
    ELSE IF t.day < DaysIn(t.month, t.year)
         THEN [t EXCEPT !.second = 0, !.minute = 0, !.hour = 0, !.day = @ + 1]
    ELSE IF t.month < 12
         THEN [t EXCEPT !.second = 0, !.minute = 0, !.hour = 0, !.day = 1, !.month = @ + 1]
    ELSE [year |-> t.year + 1, month |-> 1, day |-> 1, hour |-> 0, minute |-> 0, second |-> 0]

-----------------------------------------------------------------------------
(* userinit (proc.c:138-171) takes slot 1 as pid 1 and never stamps it;    *)
(* ptable is zeroed.                                                       *)
Init ==
    /\ now \in Boot
    /\ ticks = 0
    /\ state = [s \in Slots |-> IF s = 1 THEN "RUNNABLE" ELSE "UNUSED"]
    /\ pid = [s \in Slots |-> IF s = 1 THEN 1 ELSE 0]
    /\ initTime = [s \in Slots |-> ZeroDate]
    /\ born = [s \in Slots |-> 0]
    /\ stampedAt = [s \in Slots |-> 0]
    /\ nextpid = 2
    /\ forking = NoSlot
    /\ ret = NoRet

(* The RTC advances a second (spec_modelled: trap.c/lapic.c). *)
Tick ==
    /\ ticks < MaxTicks
    /\ now' = NextSecond(now)
    /\ ticks' = ticks + 1
    /\ UNCHANGED <<state, pid, initTime, born, stampedAt, nextpid, forking, ret>>

(* initproc's fork() up to release(&ptable.lock) (proc.c:199-244 with     *)
(* allocproc, 78-95): the first UNUSED slot gets the next pid and is made  *)
(* RUNNABLE; its init_time is still the old slot's.                        *)
ForkRun ==
    /\ forking = NoSlot /\ nextpid <= MaxPid
    /\ \E s \in Slots : state[s] = "UNUSED"
    /\ LET s == CHOOSE s \in Slots : state[s] = "UNUSED" /\ \A r \in 1..s-1 : state[r] # "UNUSED"
       IN  /\ state' = [state EXCEPT ![s] = "RUNNABLE"]
           /\ pid' = [pid EXCEPT ![s] = nextpid]
           /\ born' = [born EXCEPT ![s] = ticks]
           /\ forking' = s
    /\ nextpid' = nextpid + 1
    /\ UNCHANGED <<now, ticks, initTime, stampedAt, ret>>

(* The rest of fork(): cmostime(&np->init_time) (proc.c:246), outside     *)
(* ptable.lock, whatever the child has done meanwhile.                     *)
ForkStamp ==
    /\ forking # NoSlot
    /\ initTime' = [initTime EXCEPT ![forking] = now]
    /\ stampedAt' = [stampedAt EXCEPT ![forking] = ticks]
    /\ forking' = NoSlot
    /\ UNCHANGED <<now, ticks, state, pid, born, nextpid, ret>>

(* A child calls get_process_lifetime(getpid()) (sysproc.c:94-100).  Its  *)
(* true age is at most the seconds since it became RUNNABLE and at least   *)
(* those since fork() read the date for it (0 before that).                *)
GetProcessLifetime(s) ==
    /\ s # 1 /\ state[s] = "RUNNABLE"
    /\ ret' = [val |-> CalcProcessLifetime(pid[s]), none |-> FALSE,
               lo |-> IF forking = s THEN 0 ELSE ticks - stampedAt[s],
               hi |-> ticks - born[s]]
    /\ UNCHANGED <<now, ticks, state, pid, initTime, born, stampedAt, nextpid, forking>>

(* exit() of a child (proc.c:254-298). *)
Exit(s) ==
    /\ s # 1 /\ state[s] = "RUNNABLE"
    /\ state' = [state EXCEPT ![s] = "ZOMBIE"]
    /\ UNCHANGED <<now, ticks, pid, initTime, born, stampedAt, nextpid, forking, ret>>

(* initproc's wait() reaps a ZOMBIE (proc.c:313-331) once it is out of    *)
(* fork(): pid cleared, init_time left as it was.                          *)
Reap(s) ==
    /\ forking = NoSlot /\ state[s] = "ZOMBIE"
    /\ state' = [state EXCEPT ![s] = "UNUSED"]
    /\ pid' = [pid EXCEPT ![s] = 0]
    /\ UNCHANGED <<now, ticks, initTime, born, stampedAt, nextpid, forking, ret>>

Next ==
    \/ Tick \/ ForkRun \/ ForkStamp
    \/ \E s \in Slots : GetProcessLifetime(s) \/ Exit(s) \/ Reap(s)

Spec == Init /\ [][Next]_vars

-----------------------------------------------------------------------------
LifeTypeOK ==
    /\ now \in Dates /\ ticks \in 0..MaxTicks
    /\ state \in [Slots -> {"UNUSED", "RUNNABLE", "ZOMBIE"}]
    /\ initTime \in [Slots -> Dates]
    /\ forking \in Slots \cup {NoSlot}

(* spec.md section 6: get_process_lifetime returns the real-world seconds *)
(* elapsed since the process was created (fork() takes some seconds, so    *)
(* anything between its start and its end counts as creation).  Breaking it takes a child that *)
(* asks inside its parent's fork(), before cmostime() (proc.c:246), or a   *)
(* lifetime that spans a month or year end, where calc_diff_till_now's     *)
(* 30-day months and 365-day years are wrong.                              *)
LifetimeExact == ret.none \/ ret.val \in ret.lo..ret.hi
=============================================================================
