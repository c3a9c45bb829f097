--------------------------- MODULE PriorityLockAbs ---------------------------
(***************************************************************************)
(* What the priority lock promises (spec.md 4.3), with no queue, no sleep  *)
(* and no scheduler: a lock with one holder and a set of waiting pids.     *)
(* A free lock goes to the caller at once; a release hands it directly to  *)
(* the highest waiting pid, or frees it when nobody waits.                 *)
(***************************************************************************)
EXTENDS Naturals, FiniteSets, FiniteSetsExt

CONSTANT Pids            \* the pids that may use the lock, all > 0

NoPid == 0

VARIABLES holder, waiting

absVars == <<holder, waiting>>

AbsInit == holder = NoPid /\ waiting = {}

(* Pid q asks for the lock. *)
AbsAcquire(q) ==
    /\ q # holder /\ q \notin waiting
    /\ IF holder = NoPid
       THEN holder' = q /\ UNCHANGED waiting
       ELSE waiting' = waiting \cup {q} /\ UNCHANGED holder

(* The holder gives the lock up: direct hand-off to the highest waiter. *)
AbsRelease ==
    /\ holder # NoPid
    /\ IF waiting = {}
       THEN holder' = NoPid /\ UNCHANGED waiting
       ELSE /\ holder'  = Max(waiting)
            /\ waiting' = waiting \ {Max(waiting)}

AbsNext == AbsRelease \/ \E q \in Pids : AbsAcquire(q)

AbsSpec == AbsInit /\ [][AbsNext]_absVars

AbsTypeOK == holder \in Pids \cup {NoPid} /\ waiting \subseteq Pids
=============================================================================
