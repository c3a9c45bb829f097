--------------------------- MODULE LineDiscipline ---------------------------
(***************************************************************************)
(* What the console's line editing promises its reader (console.c's       *)
(* consoleintr and consoleread, seen from outside): the line being edited *)
(* with its cursor, the input submitted and not yet read, and the bytes   *)
(* read so far.  A submitted line is the edited line with its NL or ^D    *)
(* appended; a line that fills the buffer is handed over as it is.  A     *)
(* recalled command replaces the line with one of plain characters.  The  *)
(* buffer holds INPUT_BUF bytes of submitted and edited input together.   *)
(***************************************************************************)
EXTENDS Naturals, Sequences, SequencesExt

CONSTANTS INPUT_BUF, Chars, NL, CtrlD

VARIABLES line, cursor, pending, taken

ldVars == <<line, cursor, pending, taken>>

Room(l) == Len(pending) + Len(l) < INPUT_BUF

Init ==
    /\ line = <<>> /\ cursor = 0 /\ pending = <<>> /\ taken = <<>>

(* A character goes in at the cursor; a line that fills the buffer is     *)
(* submitted without an end of line.                                       *)
Type(c) ==
    /\ c \in Chars /\ Room(line)
    /\ LET l == InsertAt(line, cursor + 1, c)
       IN  IF Len(pending) + Len(l) = INPUT_BUF
           THEN pending' = pending \o l /\ line' = <<>> /\ cursor' = 0
           ELSE line' = l /\ cursor' = cursor + 1 /\ UNCHANGED pending
    /\ UNCHANGED taken

(* NL or ^D submits the whole line, wherever the cursor is. *)
Submit(c) ==
    /\ c \in {NL, CtrlD} /\ Room(line)
    /\ pending' = pending \o line \o <<c>>
    /\ line' = <<>> /\ cursor' = 0
    /\ UNCHANGED taken

Erase ==
    /\ cursor > 0
    /\ line' = RemoveAt(line, cursor) /\ cursor' = cursor - 1
    /\ UNCHANGED <<pending, taken>>

MoveLeft  == cursor > 0 /\ cursor' = cursor - 1 /\ UNCHANGED <<line, pending, taken>>
MoveRight == cursor < Len(line) /\ cursor' = cursor + 1 /\ UNCHANGED <<line, pending, taken>>

KillLine == line' = <<>> /\ cursor' = 0 /\ UNCHANGED <<pending, taken>>

(* A recalled command: plain characters that fit beside the pending input, *)
(* with the cursor at its end.                                             *)
Recall ==
    /\ line' \in Seq(Chars) /\ Room(line')
    /\ cursor' = Len(line')
    /\ UNCHANGED <<pending, taken>>

(* The reader takes a prefix of the submitted input. *)
Take ==
    \E k \in 1..Len(pending) :
        /\ taken' = taken \o SubSeq(pending, 1, k)
        /\ pending' = SubSeq(pending, k + 1, Len(pending))
        /\ UNCHANGED <<line, cursor>>

Next ==
    \/ \E c \in Chars : Type(c)
    \/ \E c \in {NL, CtrlD} : Submit(c)
    \/ Erase \/ MoveLeft \/ MoveRight \/ KillLine \/ Recall \/ Take

Spec == Init /\ [][Next]_ldVars
=============================================================================
