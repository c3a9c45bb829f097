------------------------------ MODULE MCConsole ------------------------------
(* Model-checking instance of Console: two characters, a three-row       *)
(* history, and a reader that reads one or two bytes at a time.           *)
EXTENDS Console

MCChars     == {"a", "b"}
MCReadSizes == {1, 2}
MCUint      == 2^30
=============================================================================
