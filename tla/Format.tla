------------------------------- MODULE Format -------------------------------
(***************************************************************************)
(* Formatted output of project3: vprintfmt() and the buffers of vsnprintf()*)
(* (lib/printfmt.c), of the user library's vcprintf() (lib/printf.c) and   *)
(* of the kernel's (kern/printf.c).                                        *)
(*                                                                         *)
(* A format is a sequence of tokens [t, n]: t is a character, or "num" for *)
(* a run of digits n that does not start with 0.  An argument is a number, *)
(* or for %s a sequence of characters.  Output is a sequence of characters *)
(* (strings of length 1); the text of an error counts as one.              *)
(***************************************************************************)
EXTENDS Integers, SequencesExt

CONSTANTS
    IntBits,    \* bits of an int and of a long
    LongBits,   \* bits of a long long
    ErrorTexts, \* error_string[1] to error_string[MAXERROR - 1]
    PrintBuf    \* sizeof(buf) in struct printbuf

ASSUME FormatAssumption ==
    /\ IntBits \in Nat \ {0} /\ LongBits \in Nat /\ IntBits <= LongBits
    /\ PrintBuf \in Nat \ {0, 1}

E_INVAL  == 3
Hex      == <<"0", "1", "2", "3", "4", "5", "6", "7", "8", "9", "a", "b", "c", "d", "e", "f">>
Digit(d) == Hex[d + 1]
NullPtr  == <<"NULL">>      \* a null argument for %s
Times(c, n) == [j \in 1 .. (IF n > 0 THEN n ELSE 0) |-> c]

(* A faulty printnum() that pads once too often. *)
printnum_PadLate(num, base, width, padc) ==
    LET print[n \in Nat, w \in Int] ==
            IF n >= base THEN print[n \div base, w - 1] \o <<Digit(n % base)>>
            ELSE Times(padc, w) \o <<Digit(n % base)>>
    IN  print[num, width]

(* printnum() *)
printnum(num, base, width, padc) ==
    LET print[n \in Nat, w \in Int] ==
            IF n >= base THEN print[n \div base, w - 1] \o <<Digit(n % base)>>
            ELSE Times(padc, w - 1) \o <<Digit(n % base)>>
    IN  print[num, width]

(* getuint() and getint() of an argument, a number of any size. *)
Bits(lflag)          == IF lflag >= 2 THEN LongBits ELSE IntBits
getuint(arg, lflag)  == arg % 2 ^ Bits(lflag)
getint(arg, lflag)   == LET u == getuint(arg, lflag)
                        IN  IF u < 2 ^ (Bits(lflag) - 1) THEN u ELSE u - 2 ^ Bits(lflag)

(* case 's': padding on the left, the characters of the string that the    *)
(* precision leaves, padding on the right.                                 *)
Shown(c, alt) == IF alt /\ c = "\n" THEN "?" ELSE c
FormatString(str, s) ==
    LET text  == IF s.precision < 0 \/ Len(str) <= s.precision
                 THEN str ELSE SubSeq(str, 1, s.precision)
        shown == [j \in 1 .. Len(text) |-> Shown(text[j], s.alt)]
        room  == s.width - Len(text)
    IN  (IF s.padc # "-" THEN Times(s.padc, room) ELSE <<>>)
        \o shown
        \o (IF s.padc = "-" THEN Times(" ", room) ELSE <<>>)

(* case 'd': the sign is not counted in the width. *)
FormatSigned(arg, s) ==
    LET n == getint(arg, s.lflag)
    IN  IF n < 0 THEN <<"-">> \o printnum(-n, 10, s.width, s.padc)
        ELSE printnum(n, 10, s.width, s.padc)

FormatError(arg) ==
    LET err == IF arg < 0 THEN -arg ELSE arg
    IN  IF err = 0 \/ err > Len(ErrorTexts)
        THEN <<"e", "r", "r", "o", "r", " ">> \o printnum(err, 10, -1, " ")
        ELSE <<ErrorTexts[err]>>

Flags == [padc |-> " ", width |-> -1, precision |-> -1, lflag |-> 0, alt |-> FALSE]

(* process_precision: the first number is the width. *)
Number(s, n) == IF s.width < 0 THEN [s EXCEPT !.width = n, !.precision = -1]
                ELSE [s EXCEPT !.precision = n]

(* The flags s after one more token that only sets flags. *)
FlagTokens == {"num", "-", "0", "*", ".", "#", "l"}
Flagged(s, token, arg) ==
    CASE token.t \in {"-", "0"} -> [s EXCEPT !.padc = token.t]
      [] token.t = "*"   -> Number(s, arg)
      [] token.t = "."   -> IF s.width < 0 THEN [s EXCEPT !.width = 0] ELSE s
      [] token.t = "#"   -> [s EXCEPT !.alt = TRUE]
      [] token.t = "l"   -> [s EXCEPT !.lflag = @ + 1]
      [] token.t = "num" -> Number(s, token.n)

(* What a conversion puts out for its argument. *)
Conversion(c, s, arg) ==
    CASE c = "c" -> <<arg>>
      [] c = "e" -> FormatError(arg)
      [] c = "s" -> FormatString(IF arg = NullPtr THEN <<"(", "n", "u", "l", "l", ")">> ELSE arg, s)
      [] c = "d" -> FormatSigned(arg, s)
      [] c = "u" -> printnum(getuint(arg, s.lflag), 10, s.width, s.padc)
      [] c = "o" -> printnum(getuint(arg, s.lflag), 8, s.width, s.padc)
      [] c = "x" -> printnum(getuint(arg, s.lflag), 16, s.width, s.padc)
      [] c = "p" -> <<"0", "x">> \o printnum(getuint(arg, 0), 16, s.width, s.padc)

Converts == {"c", "e", "s", "d", "u", "o", "x", "p"}

(* vprintfmt(): what it puts out for the format from token p on, with the  *)
(* arguments from args[a] on.  What is no conversion is put out as it is.  *)
vprintfmt(fmt, args) ==
    LET Type(q) == IF q > Len(fmt) THEN "NUL" ELSE fmt[q].t
        Literal(q) == IF fmt[q].t = "num" THEN printnum(fmt[q].n, 10, -1, " ") ELSE <<fmt[q].t>>
        EndOfFlags(p) ==
            CHOOSE q \in p + 1 .. Len(fmt) + 1 :
                /\ Type(q) \notin FlagTokens
                /\ \A r \in p + 1 .. q - 1 : Type(r) \in FlagTokens
        Read(p, q, a) ==
            FoldLeft(LAMBDA acc, token :
                         IF token.t = "*"
                         THEN [s |-> Flagged(acc.s, token, args[acc.a]), a |-> acc.a + 1]
                         ELSE [acc EXCEPT !.s = Flagged(acc.s, token, 0)],
                     [s |-> Flags, a |-> a], SubSeq(fmt, p + 1, q - 1))
        from[p \in Nat, a \in Nat] ==
            IF p > Len(fmt) THEN <<>>
            ELSE IF Type(p) # "%" THEN Literal(p) \o from[p + 1, a]
            ELSE LET q == EndOfFlags(p)
                     d == Read(p, q, a)
                 IN  IF Type(q) = "%" THEN <<"%">> \o from[q + 1, d.a]
                     ELSE IF Type(q) \in Converts
                     THEN Conversion(Type(q), d.s, args[d.a]) \o from[q + 1, d.a + 1]
                     ELSE <<"%">> \o from[p + 1, d.a]
    IN  from[1, 1]

-----------------------------------------------------------------------------
(* vsnprintf(buf, n, ...) of a text: the n bytes of buf, "?" where nothing *)
(* was stored, and what it returns.  sprintputch() has no room for the     *)
(* last byte, which is for the NUL.                                        *)
Untouched == "?"

sprintputch(b, ch) ==
    [b EXCEPT !.cnt = @ + 1,
              !.buf = IF b.at < Len(b.buf) - 1 THEN [@ EXCEPT ![b.at + 1] = ch] ELSE @,
              !.at  = IF b.at < Len(b.buf) - 1 THEN @ + 1 ELSE @]

vsnprintf(n, text) ==
    LET b == FoldLeft(sprintputch, [buf |-> Times(Untouched, n), at |-> 0, cnt |-> 0], text)
    IN  IF n < 1 THEN [buf |-> <<>>, r |-> -E_INVAL]
        ELSE [buf |-> [b.buf EXCEPT ![b.at + 1] = "NUL"], r |-> b.cnt]

(* putch() of lib/printf.c: the first idx characters of b.buf are kept as  *)
(* a sequence, and sent holds what each sys_cputs() was given.             *)
putch(b, ch) ==
    LET buf == Append(b.buf, ch)
    IN  IF Len(buf) = PrintBuf - 1
        THEN [buf |-> <<>>, cnt |-> b.cnt + 1, sent |-> Append(b.sent, buf)]
        ELSE [b EXCEPT !.buf = buf, !.cnt = @ + 1]

(* vcprintf() of a user program: the system calls, and what it returns.    *)
vcprintf(text) ==
    LET b == FoldLeft(putch, [buf |-> <<>>, cnt |-> 0, sent |-> <<>>], text)
    IN  [sent |-> Append(b.sent, b.buf), r |-> b.cnt]

(* vcprintf() of the kernel: *cnt++ in its putch() moves the pointer, so   *)
(* the count stays 0.                                                      *)
kern_vcprintf(text) == [shown |-> text, r |-> 0]
=============================================================================
