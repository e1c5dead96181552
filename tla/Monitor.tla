------------------------------ MODULE Monitor ------------------------------
(***************************************************************************)
(* The kernel monitor's dialogue: readline() of project3/lib/readline.c    *)
(* edits a line in its static buffer and echoes it, cga_putc() of          *)
(* project3/kern/console.c puts the echo on a screen that wraps and        *)
(* scrolls, and runcmd() of project3/kern/monitor.c cuts the buffer into   *)
(* arguments in place.                                                     *)
(*                                                                         *)
(* One turn of readline()'s loop is a step.  A cell of the screen is its   *)
(* character, without the attribute; the prompt is one character.  What    *)
(* commands print ends with a newline and is left out.                     *)
(***************************************************************************)
EXTENDS Strings

CONSTANTS
    CRT_COLS, CRT_SIZE,     \* of the screen
    BUFLEN,                 \* of readline()'s buffer
    MAXARGS,                \* of runcmd()'s argument vector
    Commands,               \* the names in commands[]
    Keys                    \* what getchar() may return

ASSUME ScreenAssumption ==
    /\ CRT_COLS \in Nat \ {0} /\ CRT_SIZE \in Nat /\ CRT_SIZE % CRT_COLS = 0
    /\ BUFLEN \in Nat \ {0} /\ BUFLEN <= CRT_SIZE - CRT_COLS
    /\ MAXARGS \in Nat \ {0}
    /\ Keys \subseteq 1..255

BS == 8   LF == 10   CR == 13   DEL == 127
PROMPT == 62

WHITESPACE == {TAB, CR, LF, BLANK}

VARIABLES
    crt,        \* [buf, pos]: crt_buf and crt_pos
    buf,        \* readline()'s buffer, a C string
    i,          \* readline()'s index
    pc,         \* "readline", or "runcmd" once it returned
    shown       \* the line as the screen shows it while runcmd() works

vars == <<crt, buf, i, pc, shown>>

-----------------------------------------------------------------------------
(* The screen. *)

Cells == 0..(CRT_SIZE - 1)

(* Everything moves up by a row. *)
RowUp(s) ==
    [buf |-> [k \in Cells |-> IF k < CRT_SIZE - CRT_COLS
                              THEN s.buf[k + CRT_COLS] ELSE BLANK],
     pos |-> s.pos - CRT_COLS]

(* The end of cga_putc(). *)
scroll(s) ==
    IF s.pos < CRT_SIZE THEN s ELSE RowUp(s)

StartOfRow(p) == p - (p % CRT_COLS)

(* cga_putc() without the tab, which readline() does not echo. *)
cga_putc(s, c) ==
    scroll(CASE c = BS /\ s.pos > 0 ->
                  [buf |-> [s.buf EXCEPT ![s.pos - 1] = BLANK], pos |-> s.pos - 1]
             [] c = BS /\ s.pos = 0 -> s
             [] c = LF              -> [s EXCEPT !.pos = StartOfRow(@ + CRT_COLS)]
             [] c = CR              -> [s EXCEPT !.pos = StartOfRow(@)]
             [] OTHER               -> [buf |-> [s.buf EXCEPT ![s.pos] = c],
                                        pos |-> s.pos + 1])

-----------------------------------------------------------------------------
(* runcmd() on the buffer b. *)

(* The first position from p on that is not white, and the first that is   *)
(* white or the end of the string: the two inner loops.                    *)
Gobble(b, p) == Min({q \in p..(BUFLEN - 1) : b[q] \notin WHITESPACE})
PastWord(b, p) == Min({q \in p..(BUFLEN - 1) : b[q] \in WHITESPACE \cup {0}})

(* The positions that the loop puts into argv, one after the other.  The   *)
(* last place is for the NULL: an argument that would take it is in the    *)
(* sequence but not in argv, and ends the loop.                            *)
ArgsFrom(b) ==
    LET end == Min({q \in 0..(BUFLEN - 1) : b[q] = 0})
        scan[at \in (0..end) \X (0..MAXARGS)] ==
            LET q == Gobble(b, at[1])
            IN  IF b[q] = 0 \/ at[2] = MAXARGS THEN <<>>
                ELSE <<q>> \o scan[<<PastWord(b, q), at[2] + 1>>]
    IN  scan[<<0, 0>>]

(* The buffer once the loop has gone past the arguments argv. *)
Cut(b, argv) ==
    [q \in 0..(BUFLEN - 1) |->
        IF b[q] \in WHITESPACE
           /\ \A e \in 0..q : b[e] # 0
           /\ \/ Len(argv) < MAXARGS
              \/ q < argv[Len(argv)]
        THEN 0 ELSE b[q]]

(* The string that starts at p. *)
StringAt(b, p) ==
    LET e == Min({q \in p..(BUFLEN - 1) : b[q] = 0})
    IN  [k \in 1..(e - p) |-> b[p + k - 1]]

TooMany(argv) == Len(argv) > MAXARGS - 1

(* What runcmd() calls a command with; <<>> if it calls none. *)
Runs(b) ==
    LET argv == ArgsFrom(b)
        args == [k \in 1..Len(argv) |-> StringAt(Cut(b, argv), argv[k])]
    IN  IF TooMany(argv) \/ args = <<>> \/ Head(args) \notin Commands
        THEN <<>> ELSE args

-----------------------------------------------------------------------------
(* monitor() comes to readline() at the start of some row. *)
Init ==
    /\ \E r \in 0..(CRT_SIZE \div CRT_COLS - 1) :
          crt = cga_putc([buf |-> [k \in Cells |-> BLANK], pos |-> r * CRT_COLS], PROMPT)
    /\ buf = [k \in 0..(BUFLEN - 1) |-> 0]
    /\ i = 0 /\ pc = "readline" /\ shown = <<>>

(* A faulty readline() that erases what stands before the line. *)
Erase_Prompt(c) ==
    /\ pc = "readline"
    /\ c \in {BS, DEL}
    /\ crt' = cga_putc(crt, BS)
    /\ i' = IF i > 0 THEN i - 1 ELSE 0
    /\ UNCHANGED <<buf, pc, shown>>

Erase(c) ==
    /\ pc = "readline"
    /\ c \in {BS, DEL} /\ i > 0
    /\ crt' = cga_putc(crt, BS)
    /\ i' = i - 1
    /\ UNCHANGED <<buf, pc, shown>>

(* DEL on an empty line is a character like any other. *)
Insert(c) ==
    /\ pc = "readline"
    /\ ~(c \in {BS, DEL} /\ i > 0)
    /\ c >= BLANK /\ i < BUFLEN - 1
    /\ crt' = cga_putc(crt, c)
    /\ buf' = [buf EXCEPT ![i] = c]
    /\ i' = i + 1
    /\ UNCHANGED <<pc, shown>>

(* A faulty readline() that does not end the string. *)
Enter_Unterminated(c) ==
    /\ pc = "readline"
    /\ c \in {LF, CR}
    /\ shown' = [k \in 1..i |-> crt.buf[crt.pos - i + k - 1]]
    /\ crt' = cga_putc(crt, LF)
    /\ pc' = "runcmd"
    /\ UNCHANGED <<buf, i>>

Enter(c) ==
    /\ pc = "readline"
    /\ c \in {LF, CR}
    /\ shown' = [k \in 1..i |-> crt.buf[crt.pos - i + k - 1]]
    /\ crt' = cga_putc(crt, LF)
    /\ buf' = [buf EXCEPT ![i] = 0]
    /\ pc' = "runcmd"
    /\ UNCHANGED i

(* Anything else, and any character when the buffer is full. *)
Ignore(c) ==
    /\ pc = "readline"
    /\ ~(c \in {BS, DEL} /\ i > 0)
    /\ ~(c >= BLANK /\ i < BUFLEN - 1)
    /\ c \notin {LF, CR}
    /\ UNCHANGED vars

(* runcmd(), and monitor()'s next prompt. *)
RunCmd ==
    /\ pc = "runcmd"
    /\ buf' = Cut(buf, ArgsFrom(buf))
    /\ crt' = cga_putc(crt, PROMPT)
    /\ i' = 0 /\ shown' = <<>>
    /\ pc' = "readline"

Next ==
    \/ \E c \in Keys : Erase(c) \/ Insert(c) \/ Enter(c) \/ Ignore(c)
    \/ RunCmd

Spec == Init /\ [][Next]_vars

-----------------------------------------------------------------------------
(* What readline() has in its buffer is what stands between the prompt and *)
(* the cursor, wherever the line wrapped or made the screen scroll and     *)
(* whatever was erased; the prompt itself is never erased.                 *)
EchoMatchesLine ==
    pc = "readline" =>
        /\ crt.pos > i /\ crt.buf[crt.pos - i - 1] = PROMPT
        /\ \A k \in 0..(i - 1) : crt.buf[crt.pos - i + k] = buf[k]

(* The words of a line, defined without the loops: each begins where there *)
(* is no letter before and goes as far as letters go.                      *)
Words(line) ==
    LET Black(k) == k \in 1..Len(line) /\ line[k] \notin WHITESPACE
        starts == {k \in 1..Len(line) : Black(k) /\ ~Black(k - 1)}
        end(k) == Min({e \in k..Len(line) : ~Black(e + 1)})
        nth(n) == CHOOSE k \in starts : Cardinality({j \in starts : j <= k}) = n
    IN  [n \in 1..Cardinality(starts) |-> SubSeq(line, nth(n), end(nth(n)))]

(* The monitor runs exactly the command that the screen shows, with the    *)
(* words shown as its arguments: nothing of an earlier, longer line that   *)
(* is still in the buffer, no argument too many for argv, and none lost.   *)
RunsWhatIsShown ==
    pc = "runcmd" =>
        LET w == Words(shown)
        IN  Runs(buf) = IF w = <<>> \/ Len(w) >= MAXARGS THEN <<>>
                        ELSE IF w[1] \in Commands THEN w ELSE <<>>
=============================================================================
