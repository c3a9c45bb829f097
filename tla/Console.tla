------------------------------ MODULE Console ------------------------------
(***************************************************************************)
(* The console line editor (console.c): consoleintr edits the line in the  *)
(* circular input.buf with four uint indices (r: read, w: submitted, e:    *)
(* end of the edited line, pointer: the cursor), keeps the last submitted  *)
(* lines in the ring cmd_buffer for the arrow keys, and wakes a reader     *)
(* asleep in consoleread, which takes the submitted bytes.  Both run under *)
(* cons.lock, so each keystroke and each stretch of consoleread between    *)
(* acquire and sleep or release is one step.  Characters are a small set; *)
(* what cgaputc draws and the serial echo are left out.                    *)
(***************************************************************************)
EXTENDS Naturals, Sequences, SequencesExt

CONSTANTS
    INPUT_BUF,      \* bytes of input.buf (128)
    CMD_BUF_SIZE,   \* rows of cmd_buffer (10; the code writes 9 and 10 for it)
    UINT,           \* modulus of a uint (2^32; a multiple of INPUT_BUF)
    Chars,          \* the printable characters typed
    ReadSizes,      \* the n of the reader's read() calls
    MaxKeys         \* bound on keystrokes

NL    == "NL"       \* '\n', END_OF_LINE
CtrlD == "CtrlD"    \* C('D'), end of file
NUL   == "NUL"      \* a zero byte, END_OF_ARRAY
JUNK  == "JUNK"     \* a non-zero byte that is none of the typed characters
N     == INPUT_BUF
Bytes == Chars \cup {NL, CtrlD, NUL, JUNK}

VARIABLES
    buf, r, w, e, ptr,                              \* struct input
    cmd, cmdR, cmdW, cmdPtr, cmdS, movement,        \* struct cmd_buffer
    rd,         \* the reader in consoleread: idle, asleep on &input.r, or woken
    taken,      \* every byte consoleread has taken from input.buf (history)
    keys        \* keystrokes so far

inputVars == <<buf, r, w, e, ptr>>
histVars  == <<cmd, cmdR, cmdW, cmdPtr, cmdS, movement>>
vars      == <<inputVars, histVars, rd, taken, keys>>

(* uint arithmetic on the indices. *)
AddU(a, b) == (a + b) % UINT
SubU(a, b) == (a - b) % UINT

-----------------------------------------------------------------------------
(* shiftRight (console.c:292-298): for i from e down to pointer+1,        *)
(* buf[i] = buf[i-1].                                                      *)
RECURSIVE ShiftRight(_, _, _)
\* Mutant: the call to shiftRight dropped, so a character typed inside the
\* line overwrites the one at the cursor.
ShiftRightFaultNone(b, i, lo) == b
ShiftRight(b, i, lo) ==
    IF i > lo THEN ShiftRight([b EXCEPT ![i % N] = b[(i - 1) % N]], i - 1, lo) ELSE b

(* shiftLeft (console.c:300-306): for i from pointer-1 up to e-1,         *)
(* buf[i] = buf[i+1].                                                      *)
RECURSIVE ShiftLeft(_, _, _)
ShiftLeft(b, i, hi) ==
    IF i < hi THEN ShiftLeft([b EXCEPT ![i % N] = b[(i + 1) % N]], i + 1, hi) ELSE b

(* recordCommand (console.c:308-336) copies the (e - w) % INPUT_BUF bytes *)
(* of the line from input.buf[i + w], without % INPUT_BUF: past the end of *)
(* the array it reads input's own indices and whatever lies beyond, given  *)
(* as `junk`; loadCommand stops at the first zero byte.  A full ring       *)
(* overwrites its oldest row (cmd_buffer.r).                               *)
RecordCommand(junk) ==
    LET len == (e - w) % N
        raw == [i \in 1..len |-> IF w + i - 1 < N THEN buf[w + i - 1] ELSE junk[i]]
        end == SelectInSeq(raw, LAMBDA x : x = NUL)
        row == IF end = 0 THEN raw ELSE SubSeq(raw, 1, end - 1)
        at  == IF cmdS # CMD_BUF_SIZE THEN cmdW ELSE cmdR
    IN  /\ cmd' = [cmd EXCEPT ![at] = row]
        /\ cmdS' = IF cmdS # CMD_BUF_SIZE THEN cmdS + 1 ELSE cmdS
        /\ cmdR' = IF cmdS # CMD_BUF_SIZE THEN cmdR ELSE (cmdR + 1) % CMD_BUF_SIZE
        /\ cmdW' = (cmdW + 1) % CMD_BUF_SIZE
        /\ cmdPtr' = (cmdW + 1) % CMD_BUF_SIZE
        /\ movement' = 0

(* The bytes recordCommand may read past input.buf. *)
JunkFor(len) ==
    IF w + len <= N THEN {[i \in 1..len |-> NUL]} ELSE [1..len -> {JUNK, NUL}]

(* loadCommand (console.c:338-352), entered with e = pointer = w: the row *)
(* is copied to buf[(w + i) % INPUT_BUF], then e and pointer, advanced    *)
(* past it, are reduced modulo INPUT_BUF while r and w are not.            *)
LoadCommand(row) ==
    /\ buf' = [j \in 0..N-1 |-> IF (j - w) % N < Len(row) THEN row[((j - w) % N) + 1] ELSE buf[j]]
    /\ e' = AddU(w, Len(row)) % N
    /\ ptr' = AddU(w, Len(row)) % N

-----------------------------------------------------------------------------
(* consoleread's loop (console.c:495-522) from index rr with n bytes left: *)
(* where it stops, and whether it went to sleep on an empty buffer.  A ^D  *)
(* ends the read; it is left in the buffer if bytes were already read.     *)
RECURSIVE ReadLoop(_, _, _)
ReadLoop(rr, n, target) ==
    IF n = 0 THEN [r |-> rr, n |-> 0, asleep |-> FALSE]
    ELSE IF rr = w THEN [r |-> rr, n |-> n, asleep |-> TRUE]
    ELSE LET c == buf[rr % N] IN
         IF c = CtrlD THEN [r |-> IF n < target THEN rr ELSE AddU(rr, 1), n |-> n, asleep |-> FALSE]
         ELSE IF c = NL THEN [r |-> AddU(rr, 1), n |-> n - 1, asleep |-> FALSE]
         ELSE ReadLoop(AddU(rr, 1), n - 1, target)

(* The bytes between two read indices. *)
Between(from, to) == [i \in 1..SubU(to, from) |-> buf[(from + i - 1) % N]]

(* One stretch of consoleread under cons.lock, up to return or sleep. *)
RunRead(n, target) ==
    LET res == ReadLoop(r, n, target)
    IN  /\ r' = res.r
        /\ taken' = taken \o Between(r, res.r)
        /\ rd' = IF res.asleep THEN [pc |-> "sleep", n |-> res.n, target |-> target]
                 ELSE [pc |-> "idle", n |-> 0, target |-> 0]

-----------------------------------------------------------------------------
Init ==
    /\ buf = [j \in 0..N-1 |-> NUL]
    /\ r = 0 /\ w = 0 /\ e = 0 /\ ptr = 0
    /\ cmd = [k \in 0..CMD_BUF_SIZE-1 |-> <<>>]
    /\ cmdR = 0 /\ cmdW = 0 /\ cmdPtr = 0 /\ cmdS = 0 /\ movement = 0
    /\ rd = [pc |-> "idle", n |-> 0, target |-> 0]
    /\ taken = <<>>
    /\ keys = 0

Key == keys < MaxKeys /\ keys' = keys + 1

(* The default case of consoleintr (console.c:454-477): a character, or   *)
(* '\r' read as NL.  NL and ^D move the cursor to the end, record the     *)
(* line, and submit it with the end-of-line byte; the line is also        *)
(* submitted once it fills the buffer.  input.e == input.r + INPUT_BUF    *)
(* at line 458 cannot hold under the guard.                                *)
TypeKey(k) ==
    LET c   == IF k = "CR" THEN NL ELSE k
        eol == c \in {NL, CtrlD}
        p1  == IF eol THEN e ELSE ptr
        b1  == IF e # p1 THEN ShiftRight(buf, e, p1) ELSE buf
        e2  == AddU(e, 1)
        sub == eol \/ e2 = AddU(r, N)
    IN  /\ Key
        /\ SubU(e, r) < N
        /\ buf' = [b1 EXCEPT ![p1 % N] = c]
        /\ ptr' = AddU(p1, 1)
        /\ e' = e2
        /\ w' = IF sub THEN e2 ELSE w
        /\ rd' = IF sub /\ rd.pc = "sleep" THEN [rd EXCEPT !.pc = "ready"] ELSE rd
        /\ IF eol THEN \E junk \in JunkFor((e - w) % N) : RecordCommand(junk)
                  ELSE UNCHANGED histVars
        /\ UNCHANGED <<r, taken>>

(* C('H') / DEL (console.c:371-387): delete before the cursor. *)
Backspace ==
    /\ Key
    /\ ptr # w
    /\ buf' = IF e # ptr THEN ShiftLeft(buf, SubU(ptr, 1), e) ELSE buf
    /\ e' = SubU(e, 1) /\ ptr' = SubU(ptr, 1)
    /\ UNCHANGED <<r, w, histVars, rd, taken>>

(* C('B') (console.c:388-394). *)
CursorBack ==
    /\ Key /\ ptr # w /\ ptr' = SubU(ptr, 1)
    /\ UNCHANGED <<buf, r, w, e, histVars, rd, taken>>

(* C('F') (console.c:402-408). *)
CursorForward ==
    /\ Key /\ ptr # e /\ ptr' = AddU(ptr, 1)
    /\ UNCHANGED <<buf, r, w, e, histVars, rd, taken>>

(* C('U') and C('L') (console.c:367-370, 395-401): the line is dropped;   *)
(* C('L') also clears the screen.                                          *)
KillLine ==
    /\ Key /\ e' = w /\ ptr' = w
    /\ UNCHANGED <<buf, r, w, histVars, rd, taken>>

(* ARROW_UP (console.c:410-428): CAN_ARROW_UP && s > 0 expands to         *)
(* movement < s; the previous row, from 0 back to CMD_BUF_SIZE - 1.        *)
\* Mutant: the CAN_ARROW_UP test dropped.
ArrowUpFaultNoLimit ==
    LET p == IF cmdPtr = 0 THEN CMD_BUF_SIZE - 1 ELSE cmdPtr - 1
    IN  /\ Key
        /\ cmdS > 0
        /\ cmdPtr' = p % CMD_BUF_SIZE
        /\ movement' = movement + 1
        /\ LoadCommand(cmd[p % CMD_BUF_SIZE])
        /\ UNCHANGED <<r, w, cmd, cmdR, cmdW, cmdS, rd, taken>>

ArrowUp ==
    LET p == IF cmdPtr = 0 THEN CMD_BUF_SIZE - 1 ELSE cmdPtr - 1
    IN  /\ Key
        /\ movement < cmdS
        /\ cmdPtr' = p % CMD_BUF_SIZE
        /\ movement' = movement + 1
        /\ LoadCommand(cmd[p % CMD_BUF_SIZE])
        /\ UNCHANGED <<r, w, cmd, cmdR, cmdW, cmdS, rd, taken>>

(* ARROW_DOWN (console.c:430-453): the next row while movement > 1;       *)
(* from movement 1 the line is emptied and cmd_buffer.pointer set to 1     *)
(* (movement - 1 >= 0 is always true of a uint).                           *)
ArrowDown ==
    LET p == (cmdPtr + 1) % CMD_BUF_SIZE
    IN  /\ Key
        /\ movement # 0
        /\ IF movement > 1 /\ cmdS > 0
           THEN /\ cmdPtr' = p /\ movement' = movement - 1
                /\ LoadCommand(cmd[p])
           ELSE /\ cmdPtr' = 1 /\ movement' = movement - 1
                /\ e' = w /\ ptr' = w /\ UNCHANGED buf
        /\ UNCHANGED <<r, w, cmd, cmdR, cmdW, cmdS, rd, taken>>

(* A reader calls read(console, dst, n) (console.c:487-527). *)
ReadCall(n) ==
    /\ rd.pc = "idle"
    /\ RunRead(n, n)
    /\ UNCHANGED <<buf, w, e, ptr, histVars, keys>>

(* The reader, woken by wakeup(&input.r), goes on with its read. *)
ReadResume ==
    /\ rd.pc = "ready"
    /\ RunRead(rd.n, rd.target)
    /\ UNCHANGED <<buf, w, e, ptr, histVars, keys>>

Next ==
    \/ \E k \in Chars \cup {"CR", NL, CtrlD} : TypeKey(k)
    \/ Backspace \/ CursorBack \/ CursorForward \/ KillLine
    \/ ArrowUp \/ ArrowDown
    \/ \E n \in ReadSizes : ReadCall(n)
    \/ ReadResume

Spec == Init /\ [][Next]_vars

-----------------------------------------------------------------------------
ConsoleTypeOK ==
    /\ buf \in [0..N-1 -> Bytes]
    /\ {r, w, e, ptr} \subseteq 0..UINT-1
    /\ cmdS \in 0..CMD_BUF_SIZE /\ movement \in 0..cmdS
    /\ {cmdR, cmdW, cmdPtr} \subseteq 0..CMD_BUF_SIZE-1
    /\ rd.pc \in {"idle", "sleep", "ready"}

(* The part of input.buf from one index to another, when they are in      *)
(* order and at most a buffer apart; otherwise no sequence of bytes.       *)
Slice(from, to) ==
    IF from <= to /\ to - from <= N THEN Between(from, to) ELSE <<NUL>>

LD == INSTANCE LineDiscipline WITH
        line <- Slice(w, e), cursor <- IF w <= ptr THEN ptr - w ELSE N,
        pending <- Slice(r, w), taken <- taken

(* consoleintr and consoleread implement the line discipline: the ring    *)
(* between w and e, with pointer, is the edited line and its cursor under  *)
(* every edit (shiftRight, shiftLeft, the history), r to w is what was     *)
(* submitted, in order, and consoleread takes it in that order, with ^D    *)
(* pushed back whole.                                                      *)
RefinesLineDiscipline == LD!Spec
=============================================================================
