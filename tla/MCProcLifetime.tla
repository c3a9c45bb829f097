--------------------------- MODULE MCProcLifetime ---------------------------
EXTENDS ProcLifetime, TLC

(* Boot two seconds before a 31-day month ends, before the end of a       *)
(* non-leap February and before a year ends, and mid-month.                *)
MCBoot ==
    { [year |-> 2026, month |-> 1,  day |-> 31, hour |-> 23, minute |-> 59, second |-> 58],
      [year |-> 2026, month |-> 2,  day |-> 28, hour |-> 23, minute |-> 59, second |-> 58],
      [year |-> 2026, month |-> 12, day |-> 31, hour |-> 23, minute |-> 59, second |-> 58],
      [year |-> 2026, month |-> 6,  day |-> 15, hour |-> 12, minute |-> 0,  second |-> 0] }
=============================================================================
