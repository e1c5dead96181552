---------------------------- MODULE MonitorProofs ----------------------------
(***************************************************************************)
(* Theorems about the monitor's line editor, the library under it and the  *)
(* boot loader: the parts that share no state with the rest of the kernel. *)
(*                                                                         *)
(* The screen and the line, for any screen of whole rows and any line that *)
(* fits on it.  The induction invariant is that the cursor is on the       *)
(* screen, the index within the buffer, and the line with the prompt       *)
(* before it directly left of the cursor.  It is kept because a line and   *)
(* its prompt are shorter than the screen without its last row: the row    *)
(* that scrolls out of sight never holds a part of them.                   *)
(*                                                                         *)
(* What runs, for any line: runcmd()'s loop finds the words one after the  *)
(* other, and the n-th it finds is the n-th there is.                      *)
(*                                                                         *)
(* The search of the debugging tables, for any part of any table, and the  *)
(* copies of memmove(), of any bytes: what the loops know at each turn.    *)
(*                                                                         *)
(* The boot loader, for any image and any size of a sector: what readseg() *)
(* has read so far.                                                        *)
(***************************************************************************)
EXTENDS Monitor, Library, BootLoader, FiniteSetTheorems, SequenceTheorems, NaturalsInduction, TLAPS

Char == 0..255
Positions == 0..(BUFLEN - 1)

TypeOK ==
    /\ crt \in [buf : [Cells -> Char], pos : Cells]
    /\ buf \in [Positions -> Char]
    /\ i \in Positions
    /\ pc \in {"readline", "runcmd"}

Inv == TypeOK /\ EchoMatchesLine

-----------------------------------------------------------------------------
(* What the assumption says of the sizes. *)
LEMMA Sizes ==
    /\ CRT_COLS \in Nat /\ CRT_SIZE \in Nat /\ BUFLEN \in Nat
    /\ 0 < CRT_COLS /\ CRT_COLS < CRT_SIZE /\ 0 < BUFLEN /\ BUFLEN + CRT_COLS <= CRT_SIZE
  BY ScreenAssumption

(* The start of a row is at most a row before any place in it. *)
LEMMA RowStarts ==
    ASSUME NEW p \in Int
    PROVE  StartOfRow(p) \in Int /\ StartOfRow(p) <= p /\ p < StartOfRow(p) + CRT_COLS
  <1>1. p % CRT_COLS \in 0..(CRT_COLS - 1)
    BY Sizes
  <1> QED
    BY <1>1, Sizes DEF StartOfRow

(* scroll() brings a cursor that is just below the screen back, and what   *)
(* stands before the cursor stays there, but for the first row.            *)
LEMMA Scrolled ==
    ASSUME NEW s \in [buf : [Cells -> Char], pos : Nat], s.pos < CRT_SIZE + CRT_COLS
    PROVE  /\ scroll(s) \in [buf : [Cells -> Char], pos : Cells]
           /\ \A n \in Nat : n < CRT_SIZE - CRT_COLS /\ n < s.pos /\ s.pos <= CRT_SIZE =>
                 /\ n < scroll(s).pos
                 /\ scroll(s).buf[scroll(s).pos - n - 1] = s.buf[s.pos - n - 1]
  <1> USE Sizes
  <1>1. CASE s.pos < CRT_SIZE
    BY <1>1 DEF scroll, Cells
  <1>2. CASE ~(s.pos < CRT_SIZE)
    <2>1. scroll(s) = RowUp(s)
      BY <1>2 DEF scroll
    <2>2. /\ RowUp(s).pos = s.pos - CRT_COLS
          /\ RowUp(s).buf = [k \in Cells |-> IF k < CRT_SIZE - CRT_COLS
                                             THEN s.buf[k + CRT_COLS] ELSE BLANK]
      BY DEF RowUp
    <2>3. RowUp(s) \in [buf : [Cells -> Char], pos : Cells]
      <3>1. s.pos - CRT_COLS \in Cells
        BY <1>2 DEF Cells
      <3>2. \A k \in Cells : k < CRT_SIZE - CRT_COLS => k + CRT_COLS \in Cells
        BY DEF Cells
      <3>3. BLANK \in Char
        BY DEF BLANK, Char
      <3> QED
        BY <3>1, <3>2, <3>3 DEF RowUp
    <2>4. ASSUME NEW n \in Nat, n < CRT_SIZE - CRT_COLS, n < s.pos, s.pos <= CRT_SIZE
          PROVE  /\ n < s.pos - CRT_COLS
                 /\ RowUp(s).buf[s.pos - CRT_COLS - n - 1] = s.buf[s.pos - n - 1]
      <3>1. s.pos = CRT_SIZE
        BY <1>2, <2>4
      <3>2. s.pos - CRT_COLS - n - 1 \in Cells /\ s.pos - CRT_COLS - n - 1 < CRT_SIZE - CRT_COLS
        BY <2>4, <3>1 DEF Cells
      <3>3. s.pos - CRT_COLS - n - 1 + CRT_COLS = s.pos - n - 1
        BY <2>4
      <3> QED
        BY <2>2, <2>4, <3>1, <3>2, <3>3
    <2> QED
      BY <2>1, <2>2, <2>3, <2>4
  <1> QED
    BY <1>1, <1>2

(* Each of the three characters that the editor prints.  A character that  *)
(* is shown stands before the cursor, and what stood there before it.      *)
LEMMA ShownChar ==
    ASSUME NEW s \in [buf : [Cells -> Char], pos : Cells], NEW c \in Char, c \notin {BS, LF, CR}
    PROVE  LET t == cga_putc(s, c) IN
           /\ t \in [buf : [Cells -> Char], pos : Cells]
           /\ t.pos > 0 /\ t.buf[t.pos - 1] = c
           /\ \A n \in Nat : n + 1 < CRT_SIZE - CRT_COLS /\ n < s.pos =>
                 n + 1 < t.pos /\ t.buf[t.pos - n - 2] = s.buf[s.pos - n - 1]
  <1> USE Sizes
  <1> DEFINE u == [buf |-> [s.buf EXCEPT ![s.pos] = c], pos |-> s.pos + 1]
  <1>1. cga_putc(s, c) = scroll(u)
    BY DEF cga_putc
  <1>2. u \in [buf : [Cells -> Char], pos : Nat] /\ u.pos <= CRT_SIZE
    BY DEF Cells
  <1>3. u.pos = s.pos + 1 /\ u.buf[u.pos - 1] = c
        /\ \A n \in Nat : n < s.pos => u.buf[u.pos - (n + 1) - 1] = s.buf[s.pos - n - 1]
    BY DEF Cells
  <1> HIDE DEF u
  <1>4. scroll(u) \in [buf : [Cells -> Char], pos : Cells]
    BY <1>2, Scrolled
  <1>5. scroll(u).pos > 0 /\ scroll(u).buf[scroll(u).pos - 1] = c
    <2>1. /\ 0 < scroll(u).pos
          /\ scroll(u).buf[scroll(u).pos - 0 - 1] = u.buf[u.pos - 0 - 1]
      BY <1>2, <1>3, Scrolled DEF Cells
    <2> QED
      BY <2>1, <1>2, <1>3, <1>4 DEF Cells
  <1>6. ASSUME NEW n \in Nat, n + 1 < CRT_SIZE - CRT_COLS, n < s.pos
        PROVE  n + 1 < scroll(u).pos /\ scroll(u).buf[scroll(u).pos - n - 2] = s.buf[s.pos - n - 1]
    <2> DEFINE m == n + 1
    <2>1. m \in Nat /\ m < CRT_SIZE - CRT_COLS /\ m < u.pos /\ u.pos < CRT_SIZE + CRT_COLS
      BY <1>2, <1>3, <1>6 DEF Cells
    <2>3. /\ m < scroll(u).pos
          /\ scroll(u).buf[scroll(u).pos - m - 1] = u.buf[u.pos - m - 1]
      <3> HIDE DEF m
      <3> QED
        BY <1>2, <2>1, Scrolled
    <2>2. scroll(u).pos - (n + 1) - 1 = scroll(u).pos - n - 2
      BY <1>4 DEF Cells
    <2> QED
      BY <2>3, <2>2, <1>3, <1>6
  <1> QED
    BY <1>1, <1>4, <1>5, <1>6

(* A backspace takes the cursor one cell back; what stands before the cell *)
(* stays.                                                                  *)
LEMMA Backspace ==
    ASSUME NEW s \in [buf : [Cells -> Char], pos : Cells], s.pos > 0
    PROVE  LET t == cga_putc(s, BS) IN
           /\ t \in [buf : [Cells -> Char], pos : Cells]
           /\ t.pos = s.pos - 1
           /\ \A k \in Cells : k # s.pos - 1 => t.buf[k] = s.buf[k]
  <1> USE Sizes
  <1> DEFINE u == [buf |-> [s.buf EXCEPT ![s.pos - 1] = BLANK], pos |-> s.pos - 1]
  <1>1. cga_putc(s, BS) = scroll(u)
    BY DEF cga_putc, BS, LF, CR
  <1>2. u \in [buf : [Cells -> Char], pos : Cells]
    BY DEF Cells, BLANK, Char
  <1>3. scroll(u) = u
    BY <1>2 DEF scroll, Cells
  <1> QED
    BY <1>1, <1>2, <1>3

(* A newline leaves the cursor on the screen. *)
LEMMA Newline ==
    ASSUME NEW s \in [buf : [Cells -> Char], pos : Cells]
    PROVE  cga_putc(s, LF) \in [buf : [Cells -> Char], pos : Cells]
  <1> USE Sizes
  <1> DEFINE u == [s EXCEPT !.pos = StartOfRow(@ + CRT_COLS)]
  <1>1. cga_putc(s, LF) = scroll(u)
    BY DEF cga_putc, BS, LF, CR
  <1>2. s.pos + CRT_COLS \in Int /\ s.pos + CRT_COLS < CRT_SIZE + CRT_COLS /\ s.pos >= 0
    BY DEF Cells
  <1>3. StartOfRow(s.pos + CRT_COLS) \in Nat /\ StartOfRow(s.pos + CRT_COLS) < CRT_SIZE + CRT_COLS
    <2> DEFINE p == s.pos + CRT_COLS
    <2>1. p \in Int /\ p >= CRT_COLS /\ p < CRT_SIZE + CRT_COLS
      BY <1>2 DEF Cells
    <2> HIDE DEF p
    <2>2. StartOfRow(p) \in Int /\ StartOfRow(p) <= p /\ p < StartOfRow(p) + CRT_COLS
      BY <2>1, RowStarts
    <2>3. StartOfRow(p) \in Nat /\ StartOfRow(p) < CRT_SIZE + CRT_COLS
      BY <2>1, <2>2
    <2> QED
      BY <2>3 DEF p
  <1>4. u \in [buf : [Cells -> Char], pos : Nat] /\ u.pos < CRT_SIZE + CRT_COLS
    BY <1>3
  <1> HIDE DEF u
  <1> QED
    BY <1>1, <1>4, Scrolled

-----------------------------------------------------------------------------
(* readline() starts with an empty line behind the prompt. *)
LEMMA InitInv == Init => Inv
  <1> SUFFICES ASSUME Init PROVE Inv
    OBVIOUS
  <1> USE Sizes
  <1>1. PICK r \in 0..(CRT_SIZE \div CRT_COLS - 1) :
           crt = cga_putc([buf |-> [k \in Cells |-> BLANK], pos |-> r * CRT_COLS], PROMPT)
    BY DEF Init
  <1>2. r * CRT_COLS \in Cells
    <2>1. CRT_SIZE \div CRT_COLS \in Nat /\ (CRT_SIZE \div CRT_COLS) * CRT_COLS <= CRT_SIZE
      OBVIOUS
    <2>2. r \in Nat /\ r + 1 <= CRT_SIZE \div CRT_COLS
      BY <2>1
    <2>3. (r + 1) * CRT_COLS <= (CRT_SIZE \div CRT_COLS) * CRT_COLS
      BY <2>1, <2>2
    <2>4. (r + 1) * CRT_COLS = r * CRT_COLS + CRT_COLS /\ r * CRT_COLS \in Nat
      BY <2>2
    <2> QED
      BY <2>1, <2>3, <2>4 DEF Cells
  <1> DEFINE s == [buf |-> [k \in Cells |-> BLANK], pos |-> r * CRT_COLS]
  <1>3. s \in [buf : [Cells -> Char], pos : Cells] /\ PROMPT \in Char /\ PROMPT \notin {BS, LF, CR}
    BY <1>2 DEF BLANK, Char, PROMPT, BS, LF, CR
  <1>4. crt = cga_putc(s, PROMPT)
    BY <1>1
  <1> HIDE DEF s
  <1>5. /\ crt \in [buf : [Cells -> Char], pos : Cells]
        /\ crt.pos > 0 /\ crt.buf[crt.pos - 1] = PROMPT
    BY <1>3, <1>4, ShownChar
  <1>6. buf \in [Positions -> Char] /\ i = 0 /\ 0 \in Positions /\ pc = "readline"
    BY DEF Init, Positions, Char
  <1>7. crt.pos - 0 - 1 = crt.pos - 1
    BY <1>5 DEF Cells
  <1> QED
    BY <1>5, <1>6, <1>7 DEF Inv, TypeOK, EchoMatchesLine

(* A backspace takes the last character off the line and off the screen. *)
LEMMA EraseInv ==
    ASSUME Inv, NEW c \in Keys, Erase(c) PROVE Inv'
  <1> USE Sizes DEF Inv, TypeOK
  <1>1. crt.pos > i /\ crt.buf[crt.pos - i - 1] = PROMPT
        /\ \A k \in 0..(i - 1) : crt.buf[crt.pos - i + k] = buf[k]
    BY DEF Erase, EchoMatchesLine
  <1>2. i > 0 /\ i' = i - 1 /\ crt' = cga_putc(crt, BS) /\ buf' = buf /\ pc' = pc
    BY DEF Erase
  <1>3. /\ crt' \in [buf : [Cells -> Char], pos : Cells]
        /\ crt'.pos = crt.pos - 1
        /\ \A k \in Cells : k # crt.pos - 1 => crt'.buf[k] = crt.buf[k]
    <2>1. crt.pos > 0
      BY <1>1, <1>2 DEF Positions, Cells
    <2> QED
      BY <1>2, <2>1, Backspace
  <1>4. crt'.pos - i' = crt.pos - i /\ crt'.pos > i' /\ i' \in Positions
    BY <1>1, <1>2, <1>3 DEF Positions, Cells
  <1>5. crt.pos - i - 1 \in Cells /\ crt.pos - i - 1 # crt.pos - 1
    BY <1>1, <1>2 DEF Positions, Cells
  <1>6. ASSUME NEW k \in 0..(i' - 1)
        PROVE  crt.pos - i + k \in Cells /\ crt.pos - i + k # crt.pos - 1 /\ k \in 0..(i - 1)
    BY <1>1, <1>2 DEF Positions, Cells
  <1> QED
    BY <1>1, <1>2, <1>3, <1>4, <1>5, <1>6 DEF EchoMatchesLine

(* A character is echoed where the cursor is and stored at the end of the  *)
(* line.                                                                   *)
LEMMA InsertInv ==
    ASSUME Inv, NEW c \in Keys, Insert(c) PROVE Inv'
  <1> USE Sizes DEF Inv, TypeOK
  <1>1. crt.pos > i /\ crt.buf[crt.pos - i - 1] = PROMPT
        /\ \A k \in 0..(i - 1) : crt.buf[crt.pos - i + k] = buf[k]
    BY DEF Insert, EchoMatchesLine
  <1>2. /\ i < BUFLEN - 1 /\ i' = i + 1 /\ crt' = cga_putc(crt, c)
        /\ buf' = [buf EXCEPT ![i] = c] /\ pc' = pc
    BY DEF Insert
  <1>3. c \in Char /\ c \notin {BS, LF, CR}
    BY ScreenAssumption DEF Insert, BLANK, Char, BS, LF, CR
  <1>4. /\ crt' \in [buf : [Cells -> Char], pos : Cells]
        /\ crt'.pos > 0 /\ crt'.buf[crt'.pos - 1] = c
        /\ \A n \in Nat : n + 1 < CRT_SIZE - CRT_COLS /\ n < crt.pos =>
              n + 1 < crt'.pos /\ crt'.buf[crt'.pos - n - 2] = crt.buf[crt.pos - n - 1]
    BY <1>2, <1>3, ShownChar
  <1>5. crt'.pos > i' /\ crt'.buf[crt'.pos - i' - 1] = PROMPT
    <2>1. i + 1 < crt'.pos /\ crt'.buf[crt'.pos - i - 2] = crt.buf[crt.pos - i - 1]
      BY <1>1, <1>2, <1>4 DEF Positions
    <2>2. crt'.pos - i' - 1 = crt'.pos - i - 2
      BY <1>2, <1>4 DEF Positions, Cells
    <2> QED
      BY <2>1, <2>2, <1>1, <1>2
  <1>6. ASSUME NEW k \in 0..(i' - 1)
        PROVE  crt'.buf[crt'.pos - i' + k] = buf'[k]
    <2>1. CASE k = i
      <3>1. crt'.pos - i' + k = crt'.pos - 1
        BY <2>1, <1>2, <1>4 DEF Positions, Cells
      <3> QED
        BY <3>1, <2>1, <1>2, <1>4
    <2>2. CASE k # i
      <3> DEFINE n == i - k - 1
      <3>1. n \in Nat /\ n + 1 < CRT_SIZE - CRT_COLS /\ n < crt.pos /\ k \in 0..(i - 1)
        BY <2>2, <1>1, <1>2 DEF Positions, Cells
      <3>2. /\ crt'.pos - n - 2 = crt'.pos - i' + k
            /\ crt.pos - n - 1 = crt.pos - i + k
        BY <1>2, <1>4 DEF Positions, Cells
      <3> HIDE DEF n
      <3>3. crt'.buf[crt'.pos - n - 2] = crt.buf[crt.pos - n - 1]
        BY <3>1, <1>4
      <3>4. buf'[k] = buf[k]
        BY <2>2, <3>1, <1>2 DEF Positions
      <3> QED
        BY <3>1, <3>2, <3>3, <3>4, <1>1
    <2> QED
      BY <2>1, <2>2
  <1>7. buf' \in [Positions -> Char] /\ i' \in Positions
    BY <1>2, <1>3 DEF Positions
  <1> QED
    BY <1>2, <1>4, <1>5, <1>6, <1>7 DEF EchoMatchesLine

(* runcmd() cuts the line up; the screen starts a new one with the prompt. *)
LEMMA RunCmdInv ==
    ASSUME Inv, RunCmd PROVE Inv'
  <1> USE Sizes DEF Inv, TypeOK
  <1>1. /\ buf' = Cut(buf, ArgsFrom(buf)) /\ crt' = cga_putc(crt, PROMPT)
        /\ i' = 0 /\ pc' = "readline"
    BY DEF RunCmd
  <1>2. PROMPT \in Char /\ PROMPT \notin {BS, LF, CR}
    BY DEF Char, PROMPT, BS, LF, CR
  <1>3. /\ crt' \in [buf : [Cells -> Char], pos : Cells]
        /\ crt'.pos > 0 /\ crt'.buf[crt'.pos - 1] = PROMPT
    BY <1>1, <1>2, ShownChar
  <1>4. buf' \in [Positions -> Char]
    BY <1>1 DEF Cut, Positions, Char
  <1>5. crt'.pos - 0 - 1 = crt'.pos - 1 /\ 0 \in Positions
    BY <1>3 DEF Cells, Positions
  <1> QED
    BY <1>1, <1>3, <1>4, <1>5 DEF EchoMatchesLine

(* Every turn of readline() and of the monitor keeps the invariant. *)
LEMMA StepInv == Inv /\ [Next]_vars => Inv'
  <1> SUFFICES ASSUME Inv, [Next]_vars PROVE Inv'
    OBVIOUS
  <1>1. ASSUME NEW c \in Keys, Enter(c) PROVE Inv'
    <2>1. crt' \in [buf : [Cells -> Char], pos : Cells]
      BY <1>1, Newline DEF Enter, Inv, TypeOK
    <2>2. buf' \in [Positions -> Char] /\ i' \in Positions /\ pc' = "runcmd"
      BY <1>1 DEF Enter, Inv, TypeOK, Char
    <2> QED
      BY <2>1, <2>2 DEF Inv, TypeOK, EchoMatchesLine
  <1>2. ASSUME NEW c \in Keys, Ignore(c) PROVE Inv'
    BY <1>2 DEF Ignore, vars, Inv, TypeOK, EchoMatchesLine
  <1>3. CASE UNCHANGED vars
    BY <1>3 DEF vars, Inv, TypeOK, EchoMatchesLine
  <1> QED
    BY <1>1, <1>2, <1>3, EraseInv, InsertInv, RunCmdInv DEF Next

(* Whatever is typed, of any length and with anything erased, on a screen  *)
(* of any size: what readline() has in its buffer stands between the       *)
(* prompt and the cursor, and the prompt is still there.                   *)
THEOREM EchoMatchesLineHolds == Spec => []EchoMatchesLine
  <1>1. Inv => EchoMatchesLine
    BY DEF Inv
  <1> QED
    BY InitInv, StepInv, <1>1, PTL DEF Spec
-----------------------------------------------------------------------------
(* The line that runcmd() gets: a string that ends at e. *)
Line(b, e) ==
    /\ b \in [Positions -> Char] /\ e \in Positions /\ b[e] = 0
    /\ \A k \in 0..(e - 1) : b[k] # 0

(* A set of natural numbers that is not empty has a least element. *)
LEMMA LeastElement ==
    ASSUME NEW T, T \subseteq Nat, T # {}
    PROVE  \E m \in T : \A k \in T : m <= k
  <1> DEFINE R == OpToRel(<, Nat)
  <1>1. \A k, m \in Nat : k < m => <<k, m>> \in R
    BY DEF OpToRel
  <1>2. IsWellFoundedOn(R, Nat)
    BY NatLessThanWellFounded
  <1> HIDE DEF R
  <1>3. \E m \in T : \A k \in T : ~(<<k, m>> \in R)
    BY <1>2, WFMin, Zenon
  <1>4. PICK m \in T : \A k \in T : ~(<<k, m>> \in R)
    BY <1>3
  <1>5. ASSUME NEW k \in T PROVE m <= k
    <2>1. ~(k < m)
      BY <1>1, <1>4
    <2> QED
      BY <2>1
  <1> QED
    BY <1>5

(* A set that holds 0 and is closed under the successor holds every number. *)
LEMMA SetInduction ==
    ASSUME NEW S, 0 \in S, \A n \in Nat : n \in S => n + 1 \in S
    PROVE  Nat \subseteq S
  <1> DEFINE T == Nat \ S
  <1> SUFFICES ASSUME T # {} PROVE FALSE
    OBVIOUS
  <1>1. PICK m \in T : \A k \in T : m <= k
    BY LeastElement
  <1>2. m # 0 /\ m - 1 \in Nat /\ m - 1 \notin T
    BY <1>1
  <1> QED
    BY <1>2

(* Min() finds it. *)
LEMMA MinFound ==
    ASSUME NEW T, T \subseteq Nat, T # {}, NEW m, m = Min(T)
    PROVE  m \in T /\ \A k \in T : m <= k
  <1>1. \E x \in T : \A y \in T : x <= y
    BY LeastElement
  <1>2. m = CHOOSE x \in T : \A y \in T : x <= y
    BY DEF Min
  <1> QED
    BY <1>1, <1>2, Zenon

(* A character of the line is not the NUL, and NUL is not white. *)
LEMMA NotWhite == 0 \notin WHITESPACE /\ WHITESPACE \subseteq Char
  BY DEF WHITESPACE, TAB, CR, LF, BLANK, Char

(* The string ends where the line does. *)
LEMMA EndFound ==
    ASSUME NEW b, NEW e, Line(b, e)
    PROVE  Min({q \in 0..(BUFLEN - 1) : b[q] = 0}) = e
  <1> DEFINE T == {q \in 0..(BUFLEN - 1) : b[q] = 0}
             m == Min(T)
  <1>1. e \in T /\ T \subseteq Nat
    BY DEF Line, Positions
  <1> HIDE DEF T
  <1>2. m \in T /\ m <= e
    BY <1>1, MinFound
  <1>3. m \in 0..(BUFLEN - 1) /\ b[m] = 0
    BY <1>2 DEF T
  <1> QED
    BY <1>2, <1>3 DEF Line, Positions, T

(* Where the loop over white space stops. *)
Gobbled(b, e, p, q) ==
    /\ q \in p..e /\ b[q] \notin WHITESPACE /\ (b[q] = 0 <=> q = e)
    /\ \A j \in p..(q - 1) : b[j] \in WHITESPACE

LEMMA Gobbles ==
    ASSUME NEW b, NEW e, Line(b, e), NEW p \in 0..e
    PROVE  Gobbled(b, e, p, Gobble(b, p))
  <1> DEFINE T == {q \in p..(BUFLEN - 1) : b[q] \notin WHITESPACE}
             m == Min(T)
  <1>1. e \in T /\ T \subseteq Nat
    BY NotWhite DEF Line, Positions
  <1>m. m = Min(T)
    OBVIOUS
  <1> HIDE DEF T, m
  <1>2. m \in T /\ \A k \in T : m <= k
    BY <1>1, <1>m, MinFound
  <1>3. m \in p..e /\ b[m] \notin WHITESPACE
    BY <1>1, <1>2 DEF T, Line, Positions
  <1>4. \A j \in p..(m - 1) : b[j] \in WHITESPACE
    <2> SUFFICES ASSUME NEW j \in p..(m - 1), b[j] \notin WHITESPACE PROVE FALSE
      OBVIOUS
    <2>1. j \in T
      BY <1>3, Sizes DEF T, Line, Positions
    <2> QED
      BY <1>2, <1>3, <2>1
  <1>5. b[m] = 0 <=> m = e
    BY <1>3 DEF Line, Positions
  <1>6. m = Gobble(b, p)
    BY <1>m DEF Gobble, T
  <1> QED
    BY <1>3, <1>4, <1>5, <1>6 DEF Gobbled

(* And the one over a word. *)
WordEnds(b, e, q, r) ==
    /\ r \in q..e /\ (b[r] \in WHITESPACE \/ r = e)
    /\ \A j \in q..(r - 1) : b[j] \notin WHITESPACE /\ j < e
    /\ b[q] \notin WHITESPACE /\ q < e => q < r

LEMMA WordPassed ==
    ASSUME NEW b, NEW e, Line(b, e), NEW q \in 0..e
    PROVE  WordEnds(b, e, q, PastWord(b, q))
  <1> DEFINE T == {r \in q..(BUFLEN - 1) : b[r] \in WHITESPACE \cup {0}}
             m == Min(T)
  <1>1. e \in T /\ T \subseteq Nat
    BY DEF Line, Positions
  <1>m. m = Min(T)
    OBVIOUS
  <1> HIDE DEF T, m
  <1>2. m \in T /\ \A k \in T : m <= k
    BY <1>1, <1>m, MinFound
  <1>3. m \in q..e /\ (b[m] \in WHITESPACE \/ b[m] = 0)
    BY <1>1, <1>2 DEF T, Line, Positions
  <1>4. b[m] = 0 => m = e
    BY <1>3 DEF Line, Positions
  <1>5. \A j \in q..(m - 1) : b[j] \notin WHITESPACE /\ j < e
    <2> SUFFICES ASSUME NEW j \in q..(m - 1) PROVE b[j] \notin WHITESPACE /\ j < e
      OBVIOUS
    <2>1. j < e /\ j \in q..(BUFLEN - 1) /\ ~(m <= j)
      BY <1>3, Sizes DEF Line, Positions
    <2>2. j \notin T
      BY <1>2, <2>1
    <2> QED
      BY <2>1, <2>2 DEF T
  <1>6. b[q] \notin WHITESPACE /\ q < e => q < m
    BY <1>3, <1>4
  <1>7. m = PastWord(b, q)
    BY <1>m DEF PastWord, T
  <1> QED
    BY <1>3, <1>4, <1>5, <1>6, <1>7 DEF WordEnds

-----------------------------------------------------------------------------
(* What the loop comes by: where it is, and how many arguments it has. *)
Places(e) == (0..e) \X (0..MAXARGS)

(* The arguments it finds from there on, when g are those it finds later. *)
Rest(b, g, at) ==
    LET q == Gobble(b, at[1])
    IN  IF b[q] = 0 \/ at[2] = MAXARGS THEN <<>>
        ELSE <<q>> \o g[<<PastWord(b, q), at[2] + 1>>]

IsScan(b, e, g) == g = [at \in Places(e) |-> Rest(b, g, at)]

(* It always finds an argument further to the right. *)
Later(b, e, at, q, c) ==
    /\ q = Gobble(b, at[1]) /\ c = <<PastWord(b, q), at[2] + 1>>
    /\ q \in 0..e /\ (b[q] # 0 /\ at[2] # MAXARGS => c \in Places(e) /\ c[2] = at[2] + 1)

LEMMA Proceeds ==
    ASSUME NEW b, NEW e, Line(b, e), NEW at \in Places(e),
           NEW q, q = Gobble(b, at[1]), NEW c, c = <<PastWord(b, q), at[2] + 1>>
    PROVE  Later(b, e, at, q, c)
  <1>1. at[1] \in 0..e /\ at[2] \in 0..MAXARGS /\ e \in Nat /\ MAXARGS \in Nat
    BY ScreenAssumption DEF Places, Line, Positions
  <1>2. Gobbled(b, e, at[1], q)
    BY <1>1, Gobbles
  <1>3. q \in 0..e
    BY <1>1, <1>2 DEF Gobbled
  <1>4. WordEnds(b, e, q, PastWord(b, q))
    BY <1>3, WordPassed
  <1>5. PastWord(b, q) \in 0..e
    BY <1>1, <1>3, <1>4 DEF WordEnds
  <1>6. ASSUME at[2] # MAXARGS PROVE c \in Places(e) /\ c[2] = at[2] + 1
    <2>1. at[2] + 1 \in 0..MAXARGS
      BY <1>1, <1>6
    <2> QED
      BY <1>5, <2>1 DEF Places
  <1> QED
    BY <1>3, <1>6 DEF Later

(* The same arguments are found later when there are n of them. *)
AgreeAfter(e, g, h, n) == \A c \in Places(e) : c[2] = n + 1 => g[c] = h[c]

LEMMA RestSame ==
    ASSUME NEW b, NEW e, Line(b, e), NEW at \in Places(e), NEW g, NEW h, AgreeAfter(e, g, h, at[2])
    PROVE  Rest(b, g, at) = Rest(b, h, at)
  <1> DEFINE q == Gobble(b, at[1])
             c == <<PastWord(b, q), at[2] + 1>>
  <1>1. Later(b, e, at, q, c)
    BY Proceeds
  <1>2. /\ Rest(b, g, at) = IF b[q] = 0 \/ at[2] = MAXARGS THEN <<>> ELSE <<q>> \o g[c]
        /\ Rest(b, h, at) = IF b[q] = 0 \/ at[2] = MAXARGS THEN <<>> ELSE <<q>> \o h[c]
    BY DEF Rest
  <1> HIDE DEF q, c
  <1>3. CASE b[q] = 0 \/ at[2] = MAXARGS
    BY <1>2, <1>3
  <1>4. CASE ~(b[q] = 0 \/ at[2] = MAXARGS)
    <2>1. g[c] = h[c]
      BY <1>1, <1>4 DEF Later, AgreeAfter
    <2> QED
      BY <1>2, <2>1
  <1> QED
    BY <1>3, <1>4

(* There is such a function, since the arguments are counted. *)
LEMMA ScanExists ==
    ASSUME NEW b, NEW e, Line(b, e)
    PROVE  \E g : IsScan(b, e, g)
  <1> DEFINE D == Places(e)
             From(g, l) == \A at \in D : at[2] >= MAXARGS - l => g[at] = Rest(b, g, at)
             S == {l \in Nat : \E g : From(g, l)}
  <1>0. MAXARGS \in Nat /\ \A at \in D : at[2] \in 0..MAXARGS
    BY ScreenAssumption DEF Places
  <1>1. 0 \in S
    <2> DEFINE g == [at \in D |-> <<>>]
    <2>1. ASSUME NEW at \in D, at[2] >= MAXARGS - 0 PROVE g[at] = Rest(b, g, at)
      <3>1. at[2] = MAXARGS
        BY <1>0, <2>1
      <3> QED
        BY <3>1 DEF Rest
    <2> HIDE DEF g
    <2> QED
      BY <2>1
  <1>2. ASSUME NEW l \in Nat, l \in S PROVE l + 1 \in S
    <2>1. PICK g : From(g, l)
      BY <1>2
    <2> DEFINE h == [at \in D |-> IF at[2] >= MAXARGS - l THEN g[at] ELSE Rest(b, g, at)]
    <2>2. ASSUME NEW at \in D, at[2] >= MAXARGS - (l + 1) PROVE h[at] = Rest(b, h, at)
      <3>1. h[at] = Rest(b, g, at)
        BY <2>1
      <3>2. ASSUME NEW c \in D, c[2] = at[2] + 1 PROVE g[c] = h[c]
        <4>1. c[2] >= MAXARGS - l
          BY <1>0, <2>2, <3>2
        <4> QED
          BY <4>1
      <3> HIDE DEF h
      <3>3. AgreeAfter(e, g, h, at[2])
        BY <3>2 DEF AgreeAfter
      <3>4. Rest(b, g, at) = Rest(b, h, at)
        BY <3>3, RestSame
      <3> QED
        BY <3>1, <3>4
    <2> HIDE DEF h
    <2> QED
      BY <2>2
  <1> HIDE DEF S
  <1>3. MAXARGS \in S
    BY <1>0, <1>1, <1>2, SetInduction
  <1>4. PICK g : From(g, MAXARGS)
    BY <1>3 DEF S
  <1> DEFINE f == [at \in D |-> g[at]]
  <1>5. ASSUME NEW at \in D PROVE f[at] = Rest(b, f, at)
    <2>1. f[at] = Rest(b, g, at)
      BY <1>0, <1>4
    <2>2. AgreeAfter(e, g, f, at[2])
      BY DEF AgreeAfter
    <2> HIDE DEF f
    <2>3. Rest(b, g, at) = Rest(b, f, at)
      BY <2>2, RestSame
    <2> QED
      BY <2>1, <2>3
  <1>6. f = [at \in D |-> f[at]]
    OBVIOUS
  <1> HIDE DEF f
  <1>7. f = [at \in D |-> Rest(b, f, at)]
    BY <1>5, <1>6
  <1> QED
    BY <1>7 DEF IsScan

(* runcmd()'s is one. *)
LEMMA ArgsScanned ==
    ASSUME NEW b, NEW e, Line(b, e)
    PROVE  \E g : IsScan(b, e, g) /\ ArgsFrom(b) = g[<<0, 0>>]
  <1> DEFINE E == Min({q \in 0..(BUFLEN - 1) : b[q] = 0})
             Is(g) == g = [at \in (0..E) \X (0..MAXARGS) |->
                              LET q == Gobble(b, at[1])
                              IN  IF b[q] = 0 \/ at[2] = MAXARGS THEN <<>>
                                  ELSE <<q>> \o g[<<PastWord(b, q), at[2] + 1>>]]
             scan == CHOOSE g : Is(g)
  <1>1. E = e
    BY EndFound
  <1>2. \A g : Is(g) <=> IsScan(b, e, g)
    BY <1>1, Zenon DEF IsScan, Places, Rest
  <1>3. Is(scan)
    <2>1. \E g : Is(g)
      BY <1>2, ScanExists
    <2> HIDE DEF Is
    <2> QED
      BY <2>1
  <1>4. ArgsFrom(b) = scan[<<0, 0>>]
    BY DEF ArgsFrom
  <1> HIDE DEF scan, Is
  <1> QED
    BY <1>2, <1>3, <1>4

-----------------------------------------------------------------------------
(* Where the words of the line start, counted from 1, and those that start *)
(* within its first p characters.                                          *)
Starts(b, e) == {k \in 1..e : b[k - 1] \notin WHITESPACE /\ (k = 1 \/ b[k - 2] \in WHITESPACE)}
Upto(b, e, p) == {k \in Starts(b, e) : k <= p}

LEMMA Counts ==
    ASSUME NEW b, NEW e \in Nat, NEW p
    PROVE  /\ IsFiniteSet(Starts(b, e)) /\ Cardinality(Starts(b, e)) \in Nat
           /\ IsFiniteSet(Upto(b, e, p)) /\ Cardinality(Upto(b, e, p)) \in Nat
           /\ Cardinality(Upto(b, e, p)) <= Cardinality(Starts(b, e))
  <1>1. IsFiniteSet(1..e)
    BY FS_Interval
  <1>2. Starts(b, e) \in SUBSET (1..e) /\ Upto(b, e, p) \in SUBSET Starts(b, e)
    BY DEF Starts, Upto
  <1>3. IsFiniteSet(Starts(b, e))
    BY <1>1, <1>2, FS_Subset
  <1>4. IsFiniteSet(Upto(b, e, p)) /\ Cardinality(Upto(b, e, p)) <= Cardinality(Starts(b, e))
    BY <1>2, <1>3, FS_Subset
  <1> QED
    BY <1>3, <1>4, FS_CardinalityType

(* Between words. *)
AtGap(b, e, p) == p \in 0..e /\ (p = 0 \/ p = e \/ b[p] \in WHITESPACE)

(* Two loops past one word, from p over white space to q and on to r. *)
OneWord(b, e, p, q, r) ==
    /\ q \in 0..e /\ (b[q] = 0 <=> q = e)
    /\ q = e => Upto(b, e, p) = Starts(b, e)
    /\ q # e => /\ q + 1 \in Starts(b, e)
                /\ Upto(b, e, q + 1) = Upto(b, e, p) \cup {q + 1} /\ q + 1 \notin Upto(b, e, p)
                /\ AtGap(b, e, r) /\ Upto(b, e, r) = Upto(b, e, q + 1)

LEMMA NextWord ==
    ASSUME NEW b, NEW e, Line(b, e), NEW p, AtGap(b, e, p),
           NEW q, q = Gobble(b, p), NEW r, r = PastWord(b, q)
    PROVE  OneWord(b, e, p, q, r)
  <1>1. e \in Nat /\ p \in 0..e
    BY Sizes DEF Line, Positions, AtGap
  <1>2. Gobbled(b, e, p, q)
    BY <1>1, Gobbles
  <1>3. /\ q \in p..e /\ b[q] \notin WHITESPACE /\ (b[q] = 0 <=> q = e)
        /\ \A j \in p..(q - 1) : b[j] \in WHITESPACE
    BY <1>2 DEF Gobbled
  <1>4. WordEnds(b, e, q, r)
    BY <1>1, <1>3, WordPassed
  <1>5. /\ r \in q..e /\ (b[r] \in WHITESPACE \/ r = e)
        /\ \A j \in q..(r - 1) : b[j] \notin WHITESPACE /\ j < e
        /\ q < e => q < r
    BY <1>3, <1>4 DEF WordEnds
  <1>6. ASSUME NEW k \in Starts(b, e), k > p, k <= q PROVE FALSE
    <2>1. k - 1 \in p..(q - 1)
      BY <1>1, <1>3, <1>6 DEF Starts
    <2> QED
      BY <1>3, <2>1 DEF Starts
  <1>7. CASE q = e
    <2>1. Upto(b, e, p) = Starts(b, e)
      <3> SUFFICES ASSUME NEW k \in Starts(b, e) PROVE k <= p
        BY DEF Upto
      <3>1. k \in Int /\ k <= q
        BY <1>1, <1>7 DEF Starts
      <3> QED
        BY <1>1, <1>6, <3>1
    <2> QED
      BY <1>1, <1>3, <1>7, <2>1 DEF OneWord
  <1>8. CASE q # e
    <2>1. q \in 0..(e - 1) /\ q < r /\ q \in Int
      BY <1>1, <1>3, <1>5, <1>8
    <2>2. q + 1 \in Starts(b, e)
      <3>1. q + 1 \in 1..e /\ (q + 1) - 1 = q /\ (q + 1) - 2 = q - 1
        BY <1>1, <2>1
      <3>2. CASE q = 0
        BY <1>3, <3>1, <3>2 DEF Starts
      <3>3. CASE q # 0
        <4>1. q # p
          BY <1>3, <1>8, <3>3 DEF AtGap
        <4>2. q - 1 \in p..(q - 1)
          BY <1>1, <1>3, <4>1
        <4>3. b[q - 1] \in WHITESPACE
          BY <1>3, <4>2
        <4> QED
          BY <1>3, <3>1, <4>3 DEF Starts
      <3> QED
        BY <3>2, <3>3
    <2>3. q + 1 \notin Upto(b, e, p)
      BY <1>1, <1>3, <2>1 DEF Upto
    <2>4. Upto(b, e, q + 1) = Upto(b, e, p) \cup {q + 1}
      <3>1. ASSUME NEW k \in Upto(b, e, q + 1), k # q + 1 PROVE k \in Upto(b, e, p)
        <4>1. k \in Starts(b, e) /\ k \in Int /\ k <= q
          BY <1>1, <2>1, <3>1 DEF Upto, Starts
        <4>2. k <= p
          BY <1>1, <1>6, <4>1
        <4> QED
          BY <4>1, <4>2 DEF Upto
      <3>2. ASSUME NEW k \in Upto(b, e, p) PROVE k \in Upto(b, e, q + 1)
        BY <1>1, <1>3, <2>1 DEF Upto, Starts
      <3>3. q + 1 \in Upto(b, e, q + 1)
        BY <2>1, <2>2 DEF Upto
      <3> QED
        BY <3>1, <3>2, <3>3
    <2>5. Upto(b, e, r) = Upto(b, e, q + 1)
      <3>1. ASSUME NEW k \in Starts(b, e), k > q + 1, k <= r PROVE FALSE
        <4>1. k - 2 \in q..(r - 1) /\ k # 1
          BY <1>1, <1>5, <2>1, <3>1 DEF Starts
        <4> QED
          BY <1>5, <4>1 DEF Starts
      <3>2. ASSUME NEW k \in Starts(b, e) PROVE k <= r <=> k <= q + 1
        <4>1. k \in Int /\ r \in Int
          BY <1>1, <1>5, <2>1 DEF Starts
        <4> QED
          BY <2>1, <3>1, <4>1
      <3> QED
        BY <3>2 DEF Upto
    <2>6. AtGap(b, e, r)
      BY <1>1, <1>5, <2>1 DEF AtGap
    <2> QED
      BY <1>1, <1>3, <1>8, <2>1, <2>2, <2>3, <2>4, <2>5, <2>6 DEF OneWord
  <1> QED
    BY <1>7, <1>8

(* The arguments t are the starts from the n+1st on, as many as there are  *)
(* and argv has places for.                                                *)
Arguments(b, e, n, t) ==
    LET all == Cardinality(Starts(b, e))
    IN  /\ t \in Seq(Nat) /\ Len(t) = (IF all < MAXARGS THEN all ELSE MAXARGS) - n
        /\ \A m \in 1..Len(t) :
              t[m] + 1 \in Starts(b, e) /\ Cardinality(Upto(b, e, t[m] + 1)) = n + m

(* The loop finds them. *)
LEMMA ScanFinds ==
    ASSUME NEW b, NEW e, Line(b, e), NEW g, IsScan(b, e, g)
    PROVE  Arguments(b, e, 0, g[<<0, 0>>])
  <1> DEFINE Good(p, n) == Arguments(b, e, n, g[<<p, n>>])
             Here(p, n) == AtGap(b, e, p) /\ Cardinality(Upto(b, e, p)) = n
             S == {l \in Nat : \A n \in 0..MAXARGS : \A p : n >= MAXARGS - l /\ Here(p, n) => Good(p, n)}
             all == Cardinality(Starts(b, e))
  <1>0. MAXARGS \in Nat /\ e \in Nat /\ all \in Nat
    <2>1. MAXARGS \in Nat /\ e \in Nat
      BY ScreenAssumption DEF Line, Positions
    <2> QED
      BY <2>1, Counts
  <1>1. ASSUME NEW n \in 0..MAXARGS, NEW p, Here(p, n),
               n < MAXARGS => \A r : Here(r, n + 1) => Good(r, n + 1)
        PROVE  Good(p, n)
    <2> DEFINE q == Gobble(b, p)
               r == PastWord(b, q)
               t == g[<<p, n>>]
    <2>1. OneWord(b, e, p, q, r)
      BY <1>1, NextWord
    <2>2. t = IF b[q] = 0 \/ n = MAXARGS THEN <<>> ELSE <<q>> \o g[<<r, n + 1>>]
      <3>1. <<p, n>> \in Places(e)
        BY <1>1 DEF AtGap, Places
      <3>2. t = Rest(b, g, <<p, n>>)
        BY <3>1 DEF IsScan
      <3> QED
        BY <3>2 DEF Rest
    <2> HIDE DEF q, r, t
    <2>3. n \in Nat /\ n <= all /\ Cardinality(Upto(b, e, p)) = n
      BY <1>0, <1>1, Counts
    <2>4. CASE b[q] = 0 \/ n = MAXARGS
      <3>1. t = <<>>
        BY <2>2, <2>4
      <3>2. n = IF all < MAXARGS THEN all ELSE MAXARGS
        <4>1. CASE n = MAXARGS
          BY <1>0, <2>3, <4>1
        <4>2. CASE b[q] = 0
          <5>1. Upto(b, e, p) = Starts(b, e)
            BY <2>1, <4>2 DEF OneWord
          <5> QED
            BY <1>0, <1>1, <2>3, <5>1
        <4> QED
          BY <2>4, <4>1, <4>2
      <3> HIDE DEF all
      <3>3. t \in Seq(Nat) /\ Len(t) = (IF all < MAXARGS THEN all ELSE MAXARGS) - n /\ Len(t) = 0
        BY <1>0, <2>3, <3>1, <3>2
      <3> QED
        BY <3>3 DEF Arguments, all, t
    <2>5. CASE ~(b[q] = 0 \/ n = MAXARGS)
      <3> DEFINE u == g[<<r, n + 1>>]
      <3>1. t = <<q>> \o u
        BY <2>2, <2>5
      <3>2. q # e /\ q \in Nat /\ n + 1 \in 1..MAXARGS
        BY <1>0, <2>1, <2>3, <2>5 DEF OneWord
      <3>3. /\ q + 1 \in Starts(b, e)
            /\ Upto(b, e, q + 1) = Upto(b, e, p) \cup {q + 1} /\ q + 1 \notin Upto(b, e, p)
            /\ AtGap(b, e, r) /\ Upto(b, e, r) = Upto(b, e, q + 1)
        BY <2>1, <3>2 DEF OneWord
      <3>4. Cardinality(Upto(b, e, q + 1)) = n + 1
        <4>1. IsFiniteSet(Upto(b, e, p))
          BY <1>0, Counts
        <4> DEFINE U == Upto(b, e, p)
                   x == q + 1
        <4>2. IsFiniteSet(U) /\ x \notin U /\ Upto(b, e, q + 1) = U \cup {x} /\ Cardinality(U) = n
          BY <2>3, <3>3, <4>1
        <4> HIDE DEF U, x
        <4>3. Cardinality(U \cup {x}) = Cardinality(U) + 1
          BY <4>2, FS_AddElement
        <4> QED
          BY <4>2, <4>3
      <3>5. Good(r, n + 1)
        BY <1>0, <1>1, <2>3, <2>5, <3>3, <3>4
      <3>6. /\ u \in Seq(Nat) /\ Len(u) = (IF all < MAXARGS THEN all ELSE MAXARGS) - (n + 1)
            /\ \A m \in 1..Len(u) :
                  u[m] + 1 \in Starts(b, e) /\ Cardinality(Upto(b, e, u[m] + 1)) = n + 1 + m
        BY <3>5 DEF Arguments
      <3> HIDE DEF u, all, Good, Here
      <3>7. /\ t \in Seq(Nat) /\ Len(t) = Len(u) + 1 /\ t[1] = q
            /\ \A m \in 2..Len(t) : t[m] = u[m - 1] /\ m - 1 \in 1..Len(u)
        BY <3>1, <3>2, <3>6
      <3>8. ASSUME NEW m \in 1..Len(t)
            PROVE  t[m] + 1 \in Starts(b, e) /\ Cardinality(Upto(b, e, t[m] + 1)) = n + m
        <4>1. CASE m = 1
          BY <3>3, <3>4, <3>7, <4>1
        <4>2. CASE m # 1
          <5>1. m \in 2..Len(t) /\ m \in Int
            BY <3>6, <3>7, <4>2
          <5>2. t[m] = u[m - 1] /\ m - 1 \in 1..Len(u) /\ n + 1 + (m - 1) = n + m
            BY <2>3, <3>7, <5>1
          <5> QED
            BY <3>6, <5>2
        <4> QED
          BY <4>1, <4>2
      <3>9. Len(t) = (IF all < MAXARGS THEN all ELSE MAXARGS) - n
        BY <1>0, <2>3, <3>6, <3>7
      <3> QED
        BY <3>7, <3>8, <3>9 DEF Arguments, Good, all, t
    <2> QED
      BY <2>4, <2>5
  <1>2. 0 \in S
    <2> SUFFICES ASSUME NEW n \in 0..MAXARGS, NEW p, n >= MAXARGS - 0, Here(p, n) PROVE Good(p, n)
      OBVIOUS
    <2>1. ~(n < MAXARGS)
      BY <1>0
    <2> QED
      BY <1>1, <2>1
  <1>3. ASSUME NEW l \in Nat, l \in S PROVE l + 1 \in S
    <2> SUFFICES ASSUME NEW n \in 0..MAXARGS, NEW p, n >= MAXARGS - (l + 1), Here(p, n)
                 PROVE  Good(p, n)
      BY <1>3
    <2>1. n < MAXARGS => n + 1 \in 0..MAXARGS /\ n + 1 >= MAXARGS - l
      BY <1>0
    <2> HIDE DEF Good, Here
    <2>2. n < MAXARGS => \A r : Here(r, n + 1) => Good(r, n + 1)
      BY <1>3, <2>1
    <2> QED
      BY <1>1, <2>2
  <1> HIDE DEF S
  <1>4. MAXARGS \in S
    BY <1>0, <1>2, <1>3, SetInduction
  <1>5. Here(0, 0)
    <2>1. AtGap(b, e, 0)
      BY <1>0 DEF AtGap
    <2>2. Upto(b, e, 0) = {}
      BY <1>0 DEF Upto, Starts
    <2> QED
      BY <2>1, <2>2, FS_EmptySet
  <1>6. 0 \in 0..MAXARGS /\ 0 >= MAXARGS - MAXARGS
    BY <1>0
  <1>7. Good(0, 0)
    BY <1>4, <1>5, <1>6 DEF S
  <1> QED
    BY <1>7

(* The nth word starts at the one place where as many start up to it. *)
Nth(b, e, n) == CHOOSE k \in Starts(b, e) : Cardinality({j \in Starts(b, e) : j <= k}) = n

LEMMA NthFound ==
    ASSUME NEW b, NEW e \in Nat, NEW k \in Starts(b, e), NEW n, n = Cardinality(Upto(b, e, k))
    PROVE  Nth(b, e, n) = k
  <1>1. ASSUME NEW x \in Starts(b, e), NEW y \in Starts(b, e), x < y
        PROVE  Cardinality(Upto(b, e, x)) # Cardinality(Upto(b, e, y))
    <2> DEFINE X == Upto(b, e, x)
               Y == Upto(b, e, y)
    <2>1. X \in SUBSET Y /\ y \in Y /\ y \notin X
      BY <1>1 DEF Upto, Starts
    <2>2. IsFiniteSet(Y)
      BY Counts
    <2> HIDE DEF X, Y
    <2>3. Cardinality(Y) = Cardinality(X) => Y = X
      BY <2>1, <2>2, FS_Subset
    <2>4. Cardinality(X) # Cardinality(Y)
      BY <2>1, <2>3
    <2> QED
      BY <2>4 DEF X, Y
  <1>2. ASSUME NEW x \in Starts(b, e), Cardinality(Upto(b, e, x)) = n PROVE x = k
    <2>1. x \in Int /\ k \in Int
      BY DEF Starts
    <2>2. ~(x < k) /\ ~(k < x)
      BY <1>1, <1>2
    <2> QED
      BY <2>1, <2>2
  <1>3. Nth(b, e, n) = CHOOSE x \in Starts(b, e) : Cardinality(Upto(b, e, x)) = n
    BY DEF Nth, Upto
  <1> QED
    BY <1>2, <1>3

-----------------------------------------------------------------------------
(* The words of the line, one by one. *)
WordEnd(line, k) ==
    Min({j \in k..Len(line) : ~(j + 1 \in 1..Len(line) /\ line[j + 1] \notin WHITESPACE)})

TheLine(b, e, line) == line = [k \in 1..e |-> b[k - 1]]

LEMMA WordsAre ==
    ASSUME NEW b, NEW e, Line(b, e), NEW line, TheLine(b, e, line)
    PROVE  Words(line) = [n \in 1..Cardinality(Starts(b, e)) |->
                             SubSeq(line, Nth(b, e, n), WordEnd(line, Nth(b, e, n)))]
  <1>1. e \in Nat
    BY DEF Line, Positions
  <1>2. Len(line) = e /\ \A k \in 1..e : line[k] = b[k - 1]
    BY <1>1 DEF TheLine
  <1> DEFINE Black(k) == k \in 1..Len(line) /\ line[k] \notin WHITESPACE
             starts == {k \in 1..Len(line) : Black(k) /\ ~Black(k - 1)}
  <1>3. starts = Starts(b, e)
    <2>1. ASSUME NEW k \in 1..e PROVE Black(k - 1) <=> ~(k = 1 \/ b[k - 2] \in WHITESPACE)
      <3>1. k - 1 \in 1..e <=> k # 1
        BY <1>1
      <3>2. k - 1 \in 1..e => line[k - 1] = b[k - 2]
        <4>1. k - 1 - 1 = k - 2
          BY <1>1
        <4> QED
          BY <1>2, <4>1
      <3> QED
        BY <1>2, <3>1, <3>2
    <2>2. ASSUME NEW k \in 1..e PROVE Black(k) <=> b[k - 1] \notin WHITESPACE
      BY <1>2
    <2> HIDE DEF Black
    <2> QED
      BY <1>2, <2>1, <2>2 DEF Starts
  <1>4. Words(line) =
          LET nth(n) == CHOOSE k \in starts : Cardinality({j \in starts : j <= k}) = n
          IN  [n \in 1..Cardinality(starts) |->
                  SubSeq(line, nth(n), Min({j \in nth(n)..Len(line) : ~Black(j + 1)}))]
    BY DEF Words
  <1> HIDE DEF starts
  <1>5. Words(line) = [n \in 1..Cardinality(starts) |->
            SubSeq(line, CHOOSE k \in starts : Cardinality({j \in starts : j <= k}) = n,
                   WordEnd(line, CHOOSE k \in starts : Cardinality({j \in starts : j <= k}) = n))]
    BY <1>4 DEF WordEnd
  <1> QED
    BY <1>3, <1>5 DEF Nth

(* A word ends before white space, or with the line. *)
LEMMA WordEndFound ==
    ASSUME NEW b, NEW e, Line(b, e), NEW line, TheLine(b, e, line),
           NEW q \in 0..(e - 1), b[q] \notin WHITESPACE, NEW r, WordEnds(b, e, q, r)
    PROVE  WordEnd(line, q + 1) = r
  <1>1. e \in Nat
    BY DEF Line, Positions
  <1>2. Len(line) = e /\ \A k \in 1..e : line[k] = b[k - 1]
    BY <1>1 DEF TheLine
  <1>3. /\ r \in (q + 1)..e /\ (b[r] \in WHITESPACE \/ r = e)
        /\ \A j \in q..(r - 1) : b[j] \notin WHITESPACE
    BY <1>1 DEF WordEnds
  <1> DEFINE T == {j \in (q + 1)..e : ~(j + 1 \in 1..e /\ line[j + 1] \notin WHITESPACE)}
             m == Min(T)
  <1>4. r \in T
    <2>1. r + 1 \in 1..e => line[r + 1] = b[r] /\ r # e
      BY <1>1, <1>2, <1>3
    <2> QED
      BY <1>3, <2>1
  <1>5. T \subseteq Nat
    BY <1>1
  <1>6. ASSUME NEW j \in T, j < r PROVE FALSE
    <2>1. j \in q..(r - 1) /\ j + 1 \in 1..e
      BY <1>1, <1>3, <1>6
    <2>2. line[j + 1] = b[j]
      BY <1>1, <1>2, <2>1
    <2> QED
      BY <1>3, <2>1, <2>2
  <1>7. m = WordEnd(line, q + 1)
    BY <1>2 DEF WordEnd
  <1>8. m = Min(T)
    OBVIOUS
  <1> HIDE DEF T, m
  <1>9. m \in T /\ m <= r
    BY <1>4, <1>5, <1>8, MinFound
  <1>10. m = r
    BY <1>3, <1>5, <1>6, <1>9
  <1> QED
    BY <1>7, <1>10

(* The NULs that cut the line up end an argument where the word ends. *)
LEMMA ArgumentFound ==
    ASSUME NEW b, NEW e, Line(b, e), NEW line, TheLine(b, e, line),
           NEW argv, Len(argv) < MAXARGS,
           NEW q \in 0..(e - 1), b[q] \notin WHITESPACE
    PROVE  StringAt(Cut(b, argv), q) = SubSeq(line, q + 1, WordEnd(line, q + 1))
  <1>1. e \in Nat /\ e \in Positions /\ BUFLEN \in Nat
    BY Sizes DEF Line, Positions
  <1> DEFINE r == PastWord(b, q)
             c == Cut(b, argv)
             T == {x \in q..(BUFLEN - 1) : c[x] = 0}
             m == Min(T)
  <1>2. WordEnds(b, e, q, r)
    BY <1>1, WordPassed
  <1> HIDE DEF r
  <1>3. /\ r \in (q + 1)..e /\ (b[r] \in WHITESPACE \/ r = e)
        /\ \A j \in q..(r - 1) : b[j] \notin WHITESPACE /\ j < e
    BY <1>1, <1>2 DEF WordEnds
  <1>4. ASSUME NEW j \in 0..e
        PROVE  c[j] = IF b[j] \in WHITESPACE THEN 0 ELSE b[j]
    <2>1. j \in 0..(BUFLEN - 1)
      BY <1>1 DEF Positions
    <2>2. b[j] \in WHITESPACE => \A x \in 0..j : b[x] # 0
      <3> SUFFICES ASSUME b[j] \in WHITESPACE, NEW x \in 0..j PROVE b[x] # 0
        OBVIOUS
      <3>1. j # e
        BY NotWhite DEF Line
      <3>2. x \in 0..(e - 1)
        BY <1>1, <3>1
      <3> QED
        BY <3>2 DEF Line
    <2> QED
      BY <2>1, <2>2 DEF Cut
  <1> HIDE DEF c
  <1>5. r \in T
    <2>1. r \in 0..e /\ r \in q..(BUFLEN - 1)
      BY <1>1, <1>3 DEF Positions
    <2>2. c[r] = 0
      BY <1>3, <1>4, <2>1 DEF Line
    <2> QED
      BY <2>1, <2>2
  <1>6. T \subseteq Nat
    BY <1>1
  <1>7. ASSUME NEW j \in q..(r - 1) PROVE c[j] = b[j] /\ b[j] # 0
    <2>1. j \in 0..e /\ j \in 0..(e - 1) /\ b[j] \notin WHITESPACE
      BY <1>1, <1>3
    <2> QED
      BY <1>4, <2>1 DEF Line
  <1>8. ASSUME NEW j \in T, j < r PROVE FALSE
    <2>1. j \in q..(r - 1)
      BY <1>1, <1>3, <1>8
    <2> QED
      BY <1>7, <2>1
  <1>9. StringAt(c, q) = [k \in 1..(m - q) |-> c[q + k - 1]]
    BY DEF StringAt
  <1>10. m = Min(T)
    OBVIOUS
  <1> HIDE DEF T, m
  <1>11. m \in T /\ m <= r
    BY <1>5, <1>6, <1>10, MinFound
  <1>12. m = r
    BY <1>3, <1>6, <1>8, <1>11
  <1> DEFINE s == [k \in 1..(r - q) |-> b[q + k - 1]]
             t == SubSeq(line, q + 1, r)
  <1>13. StringAt(c, q) = s
    <2>1. \A k \in 1..(r - q) : c[q + k - 1] = b[q + k - 1]
      <3> SUFFICES ASSUME NEW k \in 1..(r - q) PROVE c[q + k - 1] = b[q + k - 1]
        OBVIOUS
      <3>1. q + k - 1 \in q..(r - 1)
        BY <1>1, <1>3
      <3> QED
        BY <1>7, <3>1
    <2> QED
      BY <1>9, <1>12, <2>1
  <1>14. t = s
    <2>1. Len(line) = e /\ \A k \in 1..e : line[k] = b[k - 1]
      BY <1>1 DEF TheLine
    <2>2. \A k \in (q + 1)..r : line[k] \in Char
      <3> SUFFICES ASSUME NEW k \in (q + 1)..r PROVE line[k] \in Char
        OBVIOUS
      <3>1. k \in 1..e /\ k - 1 \in Positions
        BY <1>1, <1>3 DEF Positions
      <3> QED
        BY <2>1, <3>1 DEF Line
    <2>3. q + 1 \in Int /\ r \in Int
      BY <1>1, <1>3
    <2>4. /\ t \in Seq(Char)
          /\ Len(t) = IF q + 1 <= r THEN r - (q + 1) + 1 ELSE 0
          /\ \A k \in 1..(r - (q + 1) + 1) : t[k] = line[q + 1 + k - 1]
      BY <2>2, <2>3, SubSeqProperties
    <2> HIDE DEF t
    <2>5. Len(t) = r - q /\ r - (q + 1) + 1 = r - q
      BY <1>1, <1>3, <2>4
    <2>6. ASSUME NEW k \in 1..(r - q) PROVE t[k] = b[q + k - 1]
      <3>1. q + 1 + k - 1 \in 1..e /\ q + 1 + k - 1 - 1 = q + k - 1
        BY <1>1, <1>3
      <3>2. t[k] = line[q + 1 + k - 1]
        BY <2>4, <2>5
      <3>3. line[q + 1 + k - 1] = b[q + 1 + k - 1 - 1]
        BY <2>1, <3>1
      <3> QED
        BY <3>1, <3>2, <3>3
    <2>7. t = [k \in 1..(r - q) |-> t[k]]
      BY <2>4, <2>5
    <2> QED
      BY <2>6, <2>7
  <1>15. WordEnd(line, q + 1) = r
    BY <1>2, WordEndFound
  <1> QED
    BY <1>13, <1>14, <1>15 DEF c, t

(* The arguments are the words, unless there are too many. *)
LEMMA RunsWords ==
    ASSUME NEW b, NEW e, Line(b, e), NEW line, TheLine(b, e, line), NEW w, w = Words(line)
    PROVE  Runs(b) = IF w = <<>> \/ Len(w) >= MAXARGS THEN <<>>
                     ELSE IF w[1] \in Commands THEN w ELSE <<>>
  <1> DEFINE all == Cardinality(Starts(b, e))
             argv == ArgsFrom(b)
             args == [k \in 1..Len(argv) |-> StringAt(Cut(b, argv), argv[k])]
  <1>1. e \in Nat /\ MAXARGS \in Nat \ {0}
    BY ScreenAssumption DEF Line, Positions
  <1>2. all \in Nat
    BY <1>1, Counts
  <1>3. Arguments(b, e, 0, argv)
    <2> HIDE DEF argv
    <2>1. PICK g : IsScan(b, e, g) /\ argv = g[<<0, 0>>]
      BY ArgsScanned DEF argv
    <2> QED
      BY <2>1, ScanFinds
  <1>4. w = [n \in 1..all |-> SubSeq(line, Nth(b, e, n), WordEnd(line, Nth(b, e, n)))]
    BY WordsAre
  <1>5. Runs(b) = IF TooMany(argv) \/ args = <<>> \/ Head(args) \notin Commands THEN <<>> ELSE args
    BY DEF Runs
  <1> HIDE DEF argv, args
  <1>6. /\ argv \in Seq(Nat) /\ Len(argv) = (IF all < MAXARGS THEN all ELSE MAXARGS) - 0
        /\ \A m \in 1..Len(argv) :
              argv[m] + 1 \in Starts(b, e) /\ Cardinality(Upto(b, e, argv[m] + 1)) = 0 + m
    BY <1>3 DEF Arguments
  <1> HIDE DEF all
  <1>7. Len(w) = all /\ DOMAIN w = 1..all
    BY <1>2, <1>4
  <1>8. CASE all >= MAXARGS
    <2>1. Len(argv) = MAXARGS
      BY <1>1, <1>2, <1>6, <1>8
    <2>2. TooMany(argv)
      BY <1>1, <2>1 DEF TooMany
    <2> QED
      BY <1>5, <1>7, <1>8, <2>2
  <1>9. CASE all < MAXARGS
    <2>1. Len(argv) = all /\ Len(argv) < MAXARGS
      BY <1>1, <1>2, <1>6, <1>9
    <2>2. ~TooMany(argv)
      BY <1>1, <1>2, <1>9, <2>1 DEF TooMany
    <2>3. ASSUME NEW n \in 1..all
          PROVE  StringAt(Cut(b, argv), argv[n])
                    = SubSeq(line, Nth(b, e, n), WordEnd(line, Nth(b, e, n)))
      <3> DEFINE q == argv[n]
                 k == q + 1
      <3>1. q \in Nat /\ k \in Starts(b, e) /\ Cardinality(Upto(b, e, k)) = n
        BY <1>6, <2>1
      <3> HIDE DEF q
      <3>2. q \in 0..(e - 1) /\ b[q] \notin WHITESPACE
        <4>1. k \in 1..e /\ b[k - 1] \notin WHITESPACE /\ k - 1 = q
          BY <3>1 DEF Starts
        <4> QED
          BY <1>1, <3>1, <4>1
      <3>3. StringAt(Cut(b, argv), q) = SubSeq(line, k, WordEnd(line, k))
        BY <2>1, <3>2, ArgumentFound
      <3> HIDE DEF k
      <3>4. Nth(b, e, n) = k
        BY <1>1, <3>1, NthFound
      <3> QED
        BY <3>3, <3>4 DEF q
    <2>4. args = [n \in 1..all |-> StringAt(Cut(b, argv), argv[n])]
      BY <2>1 DEF args
    <2>5. args = w
      BY <1>4, <2>3, <2>4
    <2>6. ~(Len(w) >= MAXARGS)
      BY <1>1, <1>2, <1>7, <1>9
    <2>7. CASE w = <<>>
      BY <1>5, <2>5, <2>7
    <2>8. CASE w # <<>>
      <3>1. Head(w) = w[1]
        OBVIOUS
      <3> QED
        BY <1>5, <2>2, <2>5, <2>6, <2>8, <3>1
    <2> QED
      BY <2>7, <2>8
  <1> QED
    BY <1>1, <1>2, <1>8, <1>9

-----------------------------------------------------------------------------
(* What has been typed has no NUL in it; once the line is entered it ends  *)
(* there, and the screen shows it.                                         *)
LineInv ==
    /\ \A k \in 0..(i - 1) : buf[k] # 0
    /\ pc = "runcmd" => buf[i] = 0 /\ TheLine(buf, i, shown)

LEMMA LineInit == Init => LineInv
  BY DEF Init, LineInv

LEMMA LineStep == Inv /\ LineInv /\ [Next]_vars => LineInv'
  <1> SUFFICES ASSUME Inv, LineInv, [Next]_vars PROVE LineInv'
    OBVIOUS
  <1>0. /\ BUFLEN \in Nat /\ i \in 0..(BUFLEN - 1) /\ buf \in [0..(BUFLEN - 1) -> Char]
        /\ \A k \in 0..(i - 1) : buf[k] # 0
    BY Sizes DEF Inv, TypeOK, Positions, LineInv
  <1>1. ASSUME NEW c \in Keys, Erase(c) PROVE LineInv'
    BY <1>0, <1>1 DEF Erase, LineInv
  <1>2. ASSUME NEW c \in Keys, Insert(c) PROVE LineInv'
    <2>1. /\ pc' = "readline" /\ i' = i + 1 /\ buf' = [buf EXCEPT ![i] = c] /\ c # 0
      BY <1>2, ScreenAssumption DEF Insert
    <2>2. ASSUME NEW k \in 0..(i' - 1) PROVE buf'[k] # 0
      <3>1. k \in 0..(BUFLEN - 1) /\ (k = i \/ k \in 0..(i - 1))
        BY <1>0, <2>1
      <3>2. buf'[k] = IF k = i THEN c ELSE buf[k]
        BY <1>0, <2>1, <3>1
      <3> QED
        BY <1>0, <2>1, <3>1, <3>2
    <2> QED
      BY <2>1, <2>2 DEF LineInv
  <1>3. ASSUME NEW c \in Keys, Enter(c) PROVE LineInv'
    <2>1. /\ pc' = "runcmd" /\ i' = i /\ buf' = [buf EXCEPT ![i] = 0]
          /\ shown' = [k \in 1..i |-> crt.buf[crt.pos - i + k - 1]] /\ pc = "readline"
      BY <1>3 DEF Enter
    <2>2. buf'[i] = 0 /\ \A k \in 0..(i - 1) : buf'[k] = buf[k]
      BY <1>0, <2>1
    <2>3. ASSUME NEW k \in 1..i PROVE crt.buf[crt.pos - i + k - 1] = buf'[k - 1]
      <3>1. k - 1 \in 0..(i - 1) /\ crt.pos - i + (k - 1) = crt.pos - i + k - 1
        BY <1>0 DEF Inv, TypeOK, Cells
      <3>2. crt.buf[crt.pos - i + (k - 1)] = buf[k - 1]
        BY <2>1, <3>1 DEF Inv, EchoMatchesLine
      <3> QED
        BY <2>2, <3>1, <3>2
    <2>4. shown' = [k \in 1..i |-> buf'[k - 1]]
      BY <2>1, <2>3
    <2> QED
      BY <1>0, <2>1, <2>2, <2>4 DEF LineInv, TheLine
  <1>4. ASSUME NEW c \in Keys, Ignore(c) PROVE LineInv'
    BY <1>4 DEF Ignore, vars, LineInv, TheLine
  <1>5. CASE RunCmd
    BY <1>5 DEF RunCmd, LineInv
  <1>6. CASE UNCHANGED vars
    BY <1>6 DEF vars, LineInv, TheLine
  <1> QED
    BY <1>1, <1>2, <1>3, <1>4, <1>5, <1>6 DEF Next

(* Whatever was typed and erased, and whatever an earlier and longer line  *)
(* left in the buffer: runcmd()'s two loops and its argument count call    *)
(* the command that the screen shows with the words that it shows, or none *)
(* at all when they do not fit in argv, for an argv and a buffer of any    *)
(* size.                                                                   *)
THEOREM RunsShown == Spec => []RunsWhatIsShown
  <1>1. Inv /\ LineInv => RunsWhatIsShown
    <2> SUFFICES ASSUME Inv, LineInv, pc = "runcmd"
                 PROVE  LET w == Words(shown)
                        IN  Runs(buf) = IF w = <<>> \/ Len(w) >= MAXARGS THEN <<>>
                                        ELSE IF w[1] \in Commands THEN w ELSE <<>>
      BY DEF RunsWhatIsShown
    <2>1. Line(buf, i) /\ TheLine(buf, i, shown)
      BY DEF Inv, TypeOK, LineInv, Line
    <2> QED
      BY <2>1, RunsWords
  <1> QED
    BY InitInv, StepInv, LineInit, LineStep, <1>1, PTL DEF Spec

-----------------------------------------------------------------------------
(* A loop over states in D ends in the state f[s] when it starts in s. *)
IsLoop(D, stop, step, f) == f = [s \in D |-> IF s \in stop THEN s ELSE f[step[s]]]

(* f says so for the states from which at most n turns are left. *)
Loops(D, stop, step, left, f, n) ==
    \A s \in D : left[s] <= n => f[s] = IF s \in stop THEN s ELSE f[step[s]]

Decreases(D, stop, step, left) ==
    /\ left \in [D -> Nat] /\ step \in [D -> D]
    /\ \A s \in D : s \notin stop => left[step[s]] < left[s]

LEMMA LoopsAgree ==
    ASSUME NEW D, NEW stop, NEW step, NEW left, Decreases(D, stop, step, left),
           NEW n \in Nat, NEW f, NEW g,
           Loops(D, stop, step, left, f, n), Loops(D, stop, step, left, g, n)
    PROVE  \A s \in D : left[s] <= n => f[s] = g[s]
  <1> DEFINE S == {k \in Nat : \A s \in D : left[s] <= n /\ left[s] <= k => f[s] = g[s]}
  <1>1. ASSUME NEW k \in Nat, \A s \in D : left[s] <= n /\ left[s] < k => f[s] = g[s]
        PROVE  \A s \in D : left[s] <= n /\ left[s] <= k => f[s] = g[s]
    <2> SUFFICES ASSUME NEW s \in D, left[s] <= n, left[s] <= k PROVE f[s] = g[s]
      OBVIOUS
    <2>1. CASE s \in stop
      BY <2>1 DEF Loops
    <2>2. CASE s \notin stop
      <3>1. step[s] \in D /\ left[step[s]] \in Nat /\ left[s] \in Nat /\ left[step[s]] < left[s]
        BY <2>2 DEF Decreases
      <3>2. f[step[s]] = g[step[s]]
        BY <1>1, <3>1
      <3> QED
        BY <2>2, <3>2 DEF Loops
    <2> QED
      BY <2>1, <2>2
  <1>2. \A s \in D : left[s] \in Nat
    BY DEF Decreases
  <1>3. 0 \in S
    BY <1>1, <1>2
  <1>4. ASSUME NEW k \in Nat, k \in S PROVE k + 1 \in S
    <2>1. \A s \in D : left[s] <= n /\ left[s] < k + 1 => f[s] = g[s]
      BY <1>2, <1>4
    <2> QED
      BY <1>1, <2>1
  <1> HIDE DEF S
  <1>5. n \in S
    BY <1>3, <1>4, SetInduction
  <1> QED
    BY <1>5 DEF S

LEMMA LoopExists ==
    ASSUME NEW D, NEW stop, NEW step, NEW left, Decreases(D, stop, step, left)
    PROVE  \E f : IsLoop(D, stop, step, f)
  <1> DEFINE So(f, n) == Loops(D, stop, step, left, f, n)
             S == {n \in Nat : \E f : So(f, n)}
             G(n) == CHOOSE f : So(f, n)
  <1>1. \A s \in D : left[s] \in Nat /\ step[s] \in D
    BY DEF Decreases
  <1>2. ASSUME NEW n \in Nat, NEW g, \A s \in D : left[s] < n => g[s] = IF s \in stop THEN s ELSE g[step[s]]
        PROVE  \E f : So(f, n)
    <2> DEFINE f == [s \in D |-> IF left[s] < n THEN g[s] ELSE IF s \in stop THEN s ELSE g[step[s]]]
    <2>1. ASSUME NEW s \in D, left[s] <= n PROVE f[s] = IF s \in stop THEN s ELSE f[step[s]]
      <3>1. CASE s \in stop
        BY <1>2, <3>1
      <3>2. CASE s \notin stop
        <4>1. step[s] \in D /\ left[step[s]] < n
          BY <1>1, <2>1, <3>2 DEF Decreases
        <4>2. f[step[s]] = g[step[s]]
          BY <4>1
        <4>3. f[s] = g[step[s]]
          BY <1>2, <3>2
        <4> QED
          BY <3>2, <4>2, <4>3
      <3> QED
        BY <3>1, <3>2
    <2> HIDE DEF f
    <2>2. So(f, n)
      BY <2>1 DEF Loops
    <2> QED
      BY <2>2
  <1>3. 0 \in S
    <2>1. \A s \in D : ~(left[s] < 0)
      BY <1>1
    <2> QED
      BY <1>2, <2>1
  <1>4. ASSUME NEW n \in Nat, n \in S PROVE n + 1 \in S
    <2>1. PICK g : So(g, n)
      BY <1>4
    <2>2. \A s \in D : left[s] < n + 1 => g[s] = IF s \in stop THEN s ELSE g[step[s]]
      BY <1>1, <2>1 DEF Loops
    <2> HIDE DEF So
    <2>3. \E f : So(f, n + 1)
      BY <1>2, <2>2
    <2> QED
      BY <2>3
  <1> HIDE DEF S
  <1>5. Nat \subseteq S
    BY <1>3, <1>4, SetInduction
  <1>6. ASSUME NEW n \in Nat PROVE So(G(n), n)
    <2>1. \E f : So(f, n)
      BY <1>5 DEF S
    <2> HIDE DEF So
    <2> QED
      BY <2>1
  <1> HIDE DEF G
  <1> DEFINE f == [s \in D |-> G(left[s])[s]]
  <1>7. ASSUME NEW s \in D PROVE f[s] = IF s \in stop THEN s ELSE f[step[s]]
    <2>1. G(left[s])[s] = IF s \in stop THEN s ELSE G(left[s])[step[s]]
      BY <1>1, <1>6 DEF Loops
    <2>2. CASE s \in stop
      BY <2>1, <2>2
    <2>3. CASE s \notin stop
      <3> DEFINE t == step[s]
                 a == left[s]
                 b == left[t]
      <3>1. t \in D /\ a \in Nat /\ b \in Nat /\ b < a
        BY <1>1, <2>3 DEF Decreases
      <3>2. Loops(D, stop, step, left, G(b), b)
        BY <1>6, <3>1
      <3>3. Loops(D, stop, step, left, G(a), b)
        <4>1. Loops(D, stop, step, left, G(a), a)
          BY <1>6, <3>1
        <4> QED
          BY <1>1, <3>1, <4>1 DEF Loops
      <3>4. G(b)[t] = G(a)[t]
        BY <3>1, <3>2, <3>3, LoopsAgree
      <3>5. f[t] = G(b)[t] /\ f[s] = G(a)[s]
        BY <3>1
      <3> QED
        BY <2>1, <2>3, <3>4, <3>5
    <2> QED
      BY <2>2, <2>3
  <1>8. f = [s \in D |-> f[s]]
    OBVIOUS
  <1> HIDE DEF f
  <1> QED
    BY <1>7, <1>8 DEF IsLoop

-----------------------------------------------------------------------------
(* And a set of integers with an upper bound a greatest one, which Max() finds. *)
LEMMA MaxFound ==
    ASSUME NEW T, T \subseteq Int, T # {}, NEW z \in Int, \A k \in T : k <= z, NEW m, m = Max(T)
    PROVE  m \in T /\ \A k \in T : k <= m
  <1> DEFINE U == {z - k : k \in T}
  <1>1. U \subseteq Nat /\ U # {}
    <2>1. ASSUME NEW k \in T PROVE z - k \in Nat
      OBVIOUS
    <2> QED
      BY <2>1
  <1>2. PICK u \in U : \A x \in U : u <= x
    BY <1>1, LeastElement
  <1>3. PICK g \in T : u = z - g
    BY <1>2
  <1>4. \A k \in T : k <= g
    BY <1>2, <1>3
  <1>5. m = CHOOSE x \in T : \A y \in T : x >= y
    BY DEF Max
  <1>6. \A k \in T : g >= k
    BY <1>3, <1>4
  <1>7. m \in T /\ \A k \in T : m >= k
    BY <1>3, <1>5, <1>6, Zenon
  <1> QED
    BY <1>7

-----------------------------------------------------------------------------
(* What a turn of stab_binsearch() finds: m is the last entry of the type  *)
(* from l up to the middle h, or there is none.                            *)
Middle(s) == (s.l + s.r) \div 2
Candidates(stabs, type, s) == {m \in s.l..Middle(s) : stabs[m].n_type = type}
IsLast(stabs, type, s, m) ==
    /\ m \in s.l..Middle(s) /\ stabs[m].n_type = type
    /\ \A n \in s.l..Middle(s) : n > m => stabs[n].n_type # type

(* The four ways a turn ends. *)
Misses(stabs, type, s, t) ==
    /\ \A n \in s.l..Middle(s) : stabs[n].n_type # type
    /\ t.l = Middle(s) + 1 /\ t.left = s.left /\ t.any = s.any /\ t.addr = s.addr
    /\ t.right = s.right /\ t.r = s.r
Below(stabs, type, s, t, m) ==
    /\ IsLast(stabs, type, s, m) /\ stabs[m].n_value < s.addr
    /\ t.l = Middle(s) + 1 /\ t.left = m /\ t.any /\ t.addr = s.addr
    /\ t.right = s.right /\ t.r = s.r
Above(stabs, type, s, t, m) ==
    /\ IsLast(stabs, type, s, m) /\ stabs[m].n_value > s.addr
    /\ t.l = s.l /\ t.left = s.left /\ t.any /\ t.addr = s.addr
    /\ t.right = m - 1 /\ t.r = m - 1
Exactly(stabs, type, s, t, m) ==
    /\ IsLast(stabs, type, s, m) /\ stabs[m].n_value = s.addr
    /\ t.l = m /\ t.left = m /\ t.any /\ t.addr = s.addr + 1
    /\ t.right = s.right /\ t.r = s.r

(* A part of a table with addresses in it, however many entries it has. *)
HasAddresses(stabs, left, right) ==
    left \in Int /\ right \in Int /\ \A m \in left..right : stabs[m].n_value \in Nat

LEMMA MiddleIn ==
    ASSUME NEW left, NEW right, NEW stabs, HasAddresses(stabs, left, right),
           NEW s \in Loop(left, right), s.l <= s.r
    PROVE  Middle(s) \in s.l..s.r /\ s.l..s.r \subseteq left..right
  BY DEF Middle, Loop, HasAddresses

Turned(stabs, left, right, type, s, t) ==
    /\ t \in Loop(left, right)
    /\ \/ Misses(stabs, type, s, t)
       \/ \E m : \/ Below(stabs, type, s, t, m)
                 \/ Above(stabs, type, s, t, m)
                 \/ Exactly(stabs, type, s, t, m)

LEMMA TurnFound ==
    ASSUME NEW left, NEW right, NEW stabs, HasAddresses(stabs, left, right), NEW type,
           NEW s \in Loop(left, right), s.l <= s.r
    PROVE  Turned(stabs, left, right, type, s, SearchTurn(stabs, type, s))
  <1> DEFINE h == Middle(s)
             found == Candidates(stabs, type, s)
             m == Max(found)
             t == SearchTurn(stabs, type, s)
  <1>0. /\ h \in s.l..s.r /\ s.l..s.r \subseteq left..right
        /\ s.l \in left..(right + 1) /\ s.r \in (left - 1)..right /\ left \in Int /\ right \in Int
        /\ s.addr \in Nat
    BY MiddleIn DEF HasAddresses, Loop
  <1>1. t = IF found = {} THEN [s EXCEPT !.l = h + 1]
            ELSE IF stabs[m].n_value < s.addr
            THEN [s EXCEPT !.any = TRUE, !.left = m, !.l = h + 1]
            ELSE IF stabs[m].n_value > s.addr
            THEN [s EXCEPT !.any = TRUE, !.right = m - 1, !.r = m - 1]
            ELSE [s EXCEPT !.any = TRUE, !.left = m, !.l = m, !.addr = s.addr + 1]
    BY DEF SearchTurn, Middle, Candidates
  <1> HIDE DEF t, m
  <1>2. CASE found = {}
    <2>1. t = [s EXCEPT !.l = h + 1]
      BY <1>1, <1>2
    <2>2. h + 1 \in left..(right + 1)
      BY <1>0
    <2> HIDE DEF h
    <2>3. /\ t \in Loop(left, right) /\ t.l = h + 1 /\ t.left = s.left /\ t.any = s.any
          /\ t.addr = s.addr /\ t.right = s.right /\ t.r = s.r
      BY <2>1, <2>2 DEF Loop
    <2>4. \A n \in s.l..h : stabs[n].n_type # type
      BY <1>2 DEF Candidates, h
    <2> QED
      BY <2>3, <2>4 DEF Turned, Misses, h, t
  <1>3. CASE found # {}
    <2> HIDE DEF h
    <2>1. found \subseteq Int /\ (\A k \in found : k <= h) /\ h \in Int /\ m = Max(found)
      BY <1>0 DEF Candidates, h, m
    <2> HIDE DEF found
    <2>2. m \in found /\ \A k \in found : k <= m
      BY <1>3, <2>1, MaxFound
    <2>3. IsLast(stabs, type, s, m)
      BY <1>0, <2>2 DEF IsLast, Candidates, found, h
    <2>4. m \in s.l..h /\ m \in left..right /\ stabs[m].n_value \in Nat
      BY <1>0, <2>3 DEF IsLast, h, HasAddresses
    <2>9. /\ m \in Int /\ m \in left..(right + 1) /\ m - 1 \in (left - 1)..right /\ m - 1 \in Int
          /\ h + 1 \in left..(right + 1) /\ s.addr + 1 \in Nat
      BY <1>0, <2>4
    <2>5. CASE stabs[m].n_value < s.addr
      <3>1. t = [s EXCEPT !.any = TRUE, !.left = m, !.l = h + 1]
        BY <1>1, <1>3, <2>5
      <3>2. /\ t \in Loop(left, right) /\ t.l = h + 1 /\ t.left = m /\ t.any
            /\ t.addr = s.addr /\ t.right = s.right /\ t.r = s.r
        BY <2>9, <3>1 DEF Loop
      <3>3. Below(stabs, type, s, t, m)
        BY <2>3, <2>5, <3>2 DEF Below, h
      <3> QED
        BY <3>2, <3>3 DEF Turned, t
    <2>6. CASE stabs[m].n_value > s.addr
      <3>1. t = [s EXCEPT !.any = TRUE, !.right = m - 1, !.r = m - 1]
        BY <1>0, <1>1, <1>3, <2>4, <2>6
      <3>2. /\ t \in Loop(left, right) /\ t.l = s.l /\ t.left = s.left /\ t.any
            /\ t.addr = s.addr /\ t.right = m - 1 /\ t.r = m - 1
        BY <2>9, <3>1 DEF Loop
      <3>3. Above(stabs, type, s, t, m)
        BY <2>3, <2>6, <3>2 DEF Above
      <3> QED
        BY <3>2, <3>3 DEF Turned, t
    <2>7. CASE stabs[m].n_value = s.addr
      <3>1. t = [s EXCEPT !.any = TRUE, !.left = m, !.l = m, !.addr = s.addr + 1]
        BY <1>0, <1>1, <1>3, <2>7
      <3>2. /\ t \in Loop(left, right) /\ t.l = m /\ t.left = m /\ t.any
            /\ t.addr = s.addr + 1 /\ t.right = s.right /\ t.r = s.r
        BY <2>9, <3>1 DEF Loop
      <3>3. Exactly(stabs, type, s, t, m)
        BY <2>3, <2>7, <3>2 DEF Exactly
      <3> QED
        BY <3>2, <3>3 DEF Turned, t
    <2> QED
      BY <1>0, <2>4, <2>5, <2>6, <2>7
  <1> QED
    BY <1>2, <1>3

(* How many turns are left at most: each turn takes something off what is  *)
(* searched, except one that finds an entry at addr where l is, and that   *)
(* one does not find it again.                                             *)
AtAddr(stabs, type, s) == \E m : IsLast(stabs, type, s, m) /\ stabs[m].n_value = s.addr
TurnsLeft(stabs, type, s) ==
    IF s.l > s.r THEN 0
    ELSE 2 * (s.r - s.l + 1) + (IF AtAddr(stabs, type, s) THEN 1 ELSE 0)

LEMMA TurnLess ==
    ASSUME NEW left, NEW right, NEW stabs, HasAddresses(stabs, left, right), NEW type,
           NEW s \in Loop(left, right), s.l <= s.r,
           NEW t, Turned(stabs, left, right, type, s, t)
    PROVE  TurnsLeft(stabs, type, t) < TurnsLeft(stabs, type, s)
  <1>0. /\ Middle(s) \in s.l..s.r /\ s.l..s.r \subseteq left..right
        /\ s.l \in Int /\ s.r \in Int /\ left \in Int /\ right \in Int /\ s.addr \in Nat
        /\ t.l \in Int /\ t.r \in Int
    <2>1. Middle(s) \in s.l..s.r /\ s.l..s.r \subseteq left..right
      BY MiddleIn
    <2>2. t \in Loop(left, right)
      BY DEF Turned
    <2> QED
      BY <2>1, <2>2 DEF HasAddresses, Loop
  <1> DEFINE n == s.r - s.l + 1
             k == t.r - t.l + 1
  <1>1. /\ n \in Int /\ k \in Int /\ n > 0
        /\ TurnsLeft(stabs, type, s) \in {2 * n, 2 * n + 1}
        /\ AtAddr(stabs, type, s) => TurnsLeft(stabs, type, s) = 2 * n + 1
        /\ TurnsLeft(stabs, type, t) \in {0, 2 * k, 2 * k + 1}
        /\ ~AtAddr(stabs, type, t) => TurnsLeft(stabs, type, t) \in {0, 2 * k}
    BY <1>0 DEF TurnsLeft
  <1>2. CASE k < n
    <2> HIDE DEF n, k
    <2> QED
      BY <1>1, <1>2
  <1>3. CASE Misses(stabs, type, s, t)
    BY <1>0, <1>2, <1>3 DEF Misses
  <1>4. CASE \E m : Below(stabs, type, s, t, m)
    BY <1>0, <1>2, <1>4 DEF Below
  <1>5. CASE \E m : Above(stabs, type, s, t, m)
    <2>1. PICK m : Above(stabs, type, s, t, m)
      BY <1>5
    <2>2. m \in s.l..s.r /\ t.r = m - 1 /\ t.l = s.l
      BY <1>0, <2>1 DEF Above, IsLast
    <2> QED
      BY <1>0, <1>2, <2>2
  <1>6. CASE \E m : Exactly(stabs, type, s, t, m)
    <2>1. PICK m : Exactly(stabs, type, s, t, m)
      BY <1>6
    <2>2. /\ m \in s.l..s.r /\ m \in left..right /\ IsLast(stabs, type, s, m)
          /\ stabs[m].n_value = s.addr /\ stabs[m].n_value \in Nat
          /\ t.l = m /\ t.r = s.r /\ t.addr = s.addr + 1
      BY <1>0, <2>1 DEF Exactly, IsLast, HasAddresses
    <2>3. AtAddr(stabs, type, s)
      BY <2>2 DEF AtAddr
    <2>4. CASE m = s.l
      <3>1. t.l = s.l /\ t.r = s.r /\ Middle(t) = Middle(s)
        BY <2>2, <2>4 DEF Middle
      <3>2. ASSUME NEW x, IsLast(stabs, type, t, x), stabs[x].n_value = t.addr PROVE FALSE
        <4>1. IsLast(stabs, type, s, x)
          BY <3>1, <3>2 DEF IsLast
        <4>2. x = m
          BY <1>0, <2>2, <4>1 DEF IsLast
        <4> QED
          BY <1>0, <2>2, <3>2, <4>2
      <3>3. ~AtAddr(stabs, type, t)
        BY <3>2 DEF AtAddr
      <3>4. k = n
        BY <3>1
      <3> HIDE DEF k, n
      <3> QED
        BY <1>1, <2>3, <3>3, <3>4
    <2>5. CASE m # s.l
      BY <1>0, <1>2, <2>2, <2>5
    <2> QED
      BY <2>4, <2>5
  <1> QED
    BY <1>3, <1>4, <1>5, <1>6 DEF Turned
-----------------------------------------------------------------------------
(* The recursive function of stab_binsearch() says where its loop ends. *)
IsRun(stabs, left, right, type, g) ==
    g = [s \in Loop(left, right) |-> IF s.l > s.r THEN s ELSE g[SearchTurn(stabs, type, s)]]

LEMMA RunExists ==
    ASSUME NEW left, NEW right, NEW stabs, HasAddresses(stabs, left, right), NEW type
    PROVE  \E g : IsRun(stabs, left, right, type, g)
  <1> DEFINE D == Loop(left, right)
             stop == {s \in D : s.l > s.r}
             step == [s \in D |-> IF s.l > s.r THEN s ELSE SearchTurn(stabs, type, s)]
             turns == [s \in D |-> TurnsLeft(stabs, type, s)]
  <1>1. ASSUME NEW s \in D, ~(s.l > s.r)
        PROVE  /\ step[s] = SearchTurn(stabs, type, s) /\ step[s] \in D
               /\ TurnsLeft(stabs, type, step[s]) < TurnsLeft(stabs, type, s)
    <2> DEFINE t == SearchTurn(stabs, type, s)
    <2>1. s.l <= s.r
      BY <1>1 DEF Loop, HasAddresses
    <2>2. Turned(stabs, left, right, type, s, t)
      BY <2>1, TurnFound
    <2> HIDE DEF t
    <2>3. TurnsLeft(stabs, type, t) < TurnsLeft(stabs, type, s) /\ t \in D
      BY <2>1, <2>2, TurnLess DEF Turned
    <2>4. step[s] = t
      BY <1>1 DEF t
    <2> QED
      BY <2>3, <2>4 DEF t
  <1>2. ASSUME NEW s \in D PROVE TurnsLeft(stabs, type, s) \in Nat
    BY DEF TurnsLeft, Loop, HasAddresses
  <1>3. step \in [D -> D] /\ turns \in [D -> Nat]
    BY <1>1, <1>2
  <1>4. \A s \in D : s \notin stop => turns[step[s]] < turns[s]
    BY <1>1
  <1> HIDE DEF stop, step, turns, D
  <1>5. Decreases(D, stop, step, turns)
    BY <1>3, <1>4 DEF Decreases
  <1>6. PICK g : IsLoop(D, stop, step, g)
    BY <1>5, LoopExists
  <1>7. \A s \in D : (IF s \in stop THEN s ELSE g[step[s]])
                      = IF s.l > s.r THEN s ELSE g[SearchTurn(stabs, type, s)]
    BY DEF stop, step
  <1> QED
    BY <1>6, <1>7 DEF IsLoop, IsRun, D

LEMMA SearchRuns ==
    ASSUME NEW left, NEW right, NEW stabs, HasAddresses(stabs, left, right), NEW type, NEW addr,
           NEW z, z = [l |-> left, r |-> right, left |-> left, right |-> right,
                       any |-> FALSE, addr |-> addr]
    PROVE  \E g : /\ IsRun(stabs, left, right, type, g)
                  /\ SearchLoop(stabs, left, right, type, addr) = g[z]
  <1> DEFINE Is(g) == g = [s \in Loop(left, right) |->
                              IF s.l > s.r THEN s ELSE g[SearchTurn(stabs, type, s)]]
             run == CHOOSE g : Is(g)
             start == [l |-> left, r |-> right, left |-> left, right |-> right,
                       any |-> FALSE, addr |-> addr]
  <1>1. SearchLoop(stabs, left, right, type, addr) = run[start]
    BY DEF SearchLoop
  <1>2. IsRun(stabs, left, right, type, run)
    <2>1. \A g : Is(g) <=> IsRun(stabs, left, right, type, g)
      BY DEF IsRun
    <2>2. \E g : Is(g)
      BY <2>1, RunExists
    <2> HIDE DEF Is
    <2> QED
      BY <2>1, <2>2
  <1>3. start = z
    OBVIOUS
  <1> HIDE DEF run, start
  <1> QED
    BY <1>1, <1>2, <1>3

-----------------------------------------------------------------------------
(* Entries of a type in ascending order of their addresses, in a table     *)
(* with others.                                                            *)
Value(stabs, m) == stabs[m].n_value

Sorted(stabs, left, right, type) ==
    /\ left \in Nat /\ right \in Int
    /\ \A m \in left..right : Value(stabs, m) \in Nat
    /\ \A m, n \in OfType(stabs, left, right, type) : m < n => Value(stabs, m) < Value(stabs, n)

(* What the search knows.  Entries behind its bounds start after addr,     *)
(* those before them before the address it looks for by now, and from addr *)
(* to that address an entry starts at each.                                *)
KnowsOf(F, stabs, left, right, addr, s) ==
    /\ s.r = s.right /\ s.left <= s.l /\ addr <= s.addr
    /\ \A m \in F : s.right < m => addr < Value(stabs, m)
    /\ \A m \in F : m < s.l => Value(stabs, m) < s.addr
    /\ \A a \in addr..(s.addr - 1) : \E m \in F : Value(stabs, m) = a
    /\ s.right = right \/ (s.right + 1 \in F /\ s.any)
    /\ \/ s.left = left
       \/ s.left \in F /\ s.left <= s.right /\ Value(stabs, s.left) < s.addr
    /\ s.any => F # {}
    /\ ~s.any => s.left = left /\ \A m \in F : ~(m < s.l)
Knows(stabs, left, right, type, addr, s) ==
    KnowsOf(OfType(stabs, left, right, type), stabs, left, right, addr, s)

LEMMA TurnKnows ==
    ASSUME NEW left, NEW right, NEW stabs, NEW type, Sorted(stabs, left, right, type),
           NEW addr \in Nat, NEW s \in Loop(left, right), s.l <= s.r,
           Knows(stabs, left, right, type, addr, s),
           NEW t, Turned(stabs, left, right, type, s, t)
    PROVE  Knows(stabs, left, right, type, addr, t)
  <1> DEFINE F == OfType(stabs, left, right, type)
  <1>0. /\ Middle(s) \in s.l..s.r /\ s.l..s.r \subseteq left..right
        /\ s.l \in left..(right + 1) /\ s.r \in Int /\ left \in Int /\ right \in Int /\ s.addr \in Nat
    <2>1. HasAddresses(stabs, left, right)
      BY DEF Sorted, HasAddresses, Value
    <2>2. Middle(s) \in s.l..s.r /\ s.l..s.r \subseteq left..right
      BY <2>1, MiddleIn
    <2> QED
      BY <2>1, <2>2 DEF HasAddresses, Loop
  <1>1. /\ s.r = s.right /\ s.left <= s.l /\ addr <= s.addr /\ s.left \in Int
        /\ \A m \in F : s.right < m => addr < Value(stabs, m)
        /\ \A m \in F : m < s.l => Value(stabs, m) < s.addr
        /\ \A a \in addr..(s.addr - 1) : \E m \in F : Value(stabs, m) = a
        /\ s.right = right \/ (s.right + 1 \in F /\ s.any)
        /\ \/ s.left = left
           \/ s.left \in F /\ s.left <= s.right /\ Value(stabs, s.left) < s.addr
        /\ s.any => F # {}
        /\ ~s.any => s.left = left /\ \A m \in F : ~(m < s.l)
    BY DEF Knows, KnowsOf, Loop
  <1>2. /\ F \subseteq left..right /\ \A m \in F : Value(stabs, m) \in Nat
        /\ \A m, n \in F : m < n => Value(stabs, m) < Value(stabs, n)
    BY DEF Sorted, OfType
  <1>3. ASSUME NEW m, IsLast(stabs, type, s, m)
        PROVE  /\ m \in F /\ m \in s.l..Middle(s)
               /\ \A x \in F : x <= Middle(s) => x <= m \/ x < s.l
    <2>1. m \in s.l..Middle(s) /\ m \in left..right /\ stabs[m].n_type = type
      BY <1>0, <1>3 DEF IsLast
    <2>2. ASSUME NEW x \in F, x <= Middle(s), ~(x <= m), ~(x < s.l) PROVE FALSE
      <3>1. x \in s.l..Middle(s) /\ x > m
        BY <1>0, <1>2, <2>1, <2>2
      <3> QED
        BY <1>3, <3>1 DEF IsLast, OfType
    <2> QED
      BY <2>1, <2>2 DEF OfType
  <1>4. CASE Misses(stabs, type, s, t)
    <2>1. /\ t.l = Middle(s) + 1 /\ t.left = s.left /\ t.any = s.any /\ t.addr = s.addr
          /\ t.right = s.right /\ t.r = s.r
          /\ \A n \in s.l..Middle(s) : stabs[n].n_type # type
      BY <1>4 DEF Misses
    <2>2. ASSUME NEW m \in F, m < t.l PROVE m < s.l
      <3>1. m \notin s.l..Middle(s) /\ m \in Int
        BY <1>2, <2>1 DEF OfType
      <3> QED
        BY <1>0, <2>1, <2>2, <3>1
    <2>3. t.left <= t.l
      BY <1>0, <1>1, <2>1
    <2> HIDE DEF F
    <2>4. /\ t.r = t.right /\ t.left <= t.l /\ addr <= t.addr
          /\ \A m \in F : t.right < m => addr < Value(stabs, m)
          /\ \A m \in F : m < t.l => Value(stabs, m) < t.addr
          /\ \A a \in addr..(t.addr - 1) : \E m \in F : Value(stabs, m) = a
          /\ t.right = right \/ (t.right + 1 \in F /\ t.any)
          /\ \/ t.left = left
             \/ t.left \in F /\ t.left <= t.right /\ Value(stabs, t.left) < t.addr
          /\ t.any => F # {}
          /\ ~t.any => t.left = left /\ \A m \in F : ~(m < t.l)
      BY <1>1, <2>1, <2>2, <2>3
    <2> QED
      <3>1. KnowsOf(F, stabs, left, right, addr, t)
        BY <2>4 DEF KnowsOf
      <3> QED
        BY <3>1 DEF Knows, F
  <1>5. ASSUME NEW m, Below(stabs, type, s, t, m) PROVE Knows(stabs, left, right, type, addr, t)
    <2>1. /\ t.l = Middle(s) + 1 /\ t.left = m /\ t.any /\ t.addr = s.addr
          /\ t.right = s.right /\ t.r = s.r
          /\ IsLast(stabs, type, s, m) /\ Value(stabs, m) < s.addr
      BY <1>5 DEF Below, Value
    <2>2. m \in F /\ m \in s.l..Middle(s) /\ \A x \in F : x <= Middle(s) => x <= m \/ x < s.l
      BY <1>3, <2>1
    <2>3. ASSUME NEW x \in F, x < t.l PROVE Value(stabs, x) < t.addr
      <3>1. x <= Middle(s) /\ x \in Int /\ m \in Int
        BY <1>0, <1>2, <2>1, <2>2, <2>3
      <3>2. x = m \/ x < m \/ x < s.l
        BY <2>2, <3>1
      <3> QED
        BY <1>1, <1>2, <2>1, <2>2, <3>1, <3>2, <1>0
    <2>4. t.left <= t.l /\ t.left <= t.right
      BY <1>0, <1>1, <2>1, <2>2
    <2> HIDE DEF F
    <2>5. /\ t.r = t.right /\ t.left <= t.l /\ addr <= t.addr
          /\ \A x \in F : t.right < x => addr < Value(stabs, x)
          /\ \A x \in F : x < t.l => Value(stabs, x) < t.addr
          /\ \A a \in addr..(t.addr - 1) : \E x \in F : Value(stabs, x) = a
          /\ t.right = right \/ (t.right + 1 \in F /\ t.any)
          /\ t.left \in F /\ t.left <= t.right /\ Value(stabs, t.left) < t.addr
          /\ F # {} /\ t.any
      BY <1>1, <2>1, <2>2, <2>3, <2>4
    <2> QED
      <3>1. KnowsOf(F, stabs, left, right, addr, t)
        BY <2>5 DEF KnowsOf
      <3> QED
        BY <3>1 DEF Knows, F
  <1>6. ASSUME NEW m, Above(stabs, type, s, t, m) PROVE Knows(stabs, left, right, type, addr, t)
    <2>1. /\ t.l = s.l /\ t.left = s.left /\ t.any /\ t.addr = s.addr
          /\ t.right = m - 1 /\ t.r = m - 1
          /\ IsLast(stabs, type, s, m) /\ Value(stabs, m) > s.addr
      BY <1>6 DEF Above, Value
    <2>2. m \in F /\ m \in s.l..Middle(s)
      BY <1>3, <2>1
    <2>3. ASSUME NEW x \in F, t.right < x PROVE addr < Value(stabs, x)
      <3>1. x \in Int /\ m \in Int /\ Value(stabs, x) \in Nat /\ Value(stabs, m) \in Nat
        BY <1>2, <2>2
      <3>2. x = m \/ m < x
        BY <2>1, <2>3, <3>1
      <3>3. addr < Value(stabs, m)
        BY <1>0, <1>1, <2>1, <3>1
      <3>4. m < x => Value(stabs, m) < Value(stabs, x)
        BY <1>2, <2>2
      <3> QED
        BY <3>1, <3>2, <3>3, <3>4
    <2>4. s.left # left => s.left <= t.right
      <3> SUFFICES ASSUME s.left # left PROVE s.left <= m - 1
        BY <2>1
      <3>1. s.left \in F /\ Value(stabs, s.left) < s.addr
        BY <1>1
      <3>2. s.left # m
        BY <1>0, <1>2, <2>1, <2>2, <3>1
      <3> QED
        BY <1>0, <1>1, <2>2, <3>2
    <2>5. t.right + 1 = m
      BY <2>1, <2>2, <1>2
    <2> HIDE DEF F
    <2>6. /\ t.r = t.right /\ t.left <= t.l /\ addr <= t.addr
          /\ \A x \in F : t.right < x => addr < Value(stabs, x)
          /\ \A x \in F : x < t.l => Value(stabs, x) < t.addr
          /\ \A a \in addr..(t.addr - 1) : \E x \in F : Value(stabs, x) = a
          /\ t.right + 1 \in F /\ t.any
          /\ \/ t.left = left
             \/ t.left \in F /\ t.left <= t.right /\ Value(stabs, t.left) < t.addr
          /\ F # {}
      BY <1>1, <2>1, <2>2, <2>3, <2>4, <2>5
    <2> QED
      <3>1. KnowsOf(F, stabs, left, right, addr, t)
        BY <2>6 DEF KnowsOf
      <3> QED
        BY <3>1 DEF Knows, F
  <1>7. ASSUME NEW m, Exactly(stabs, type, s, t, m) PROVE Knows(stabs, left, right, type, addr, t)
    <2>1. /\ t.l = m /\ t.left = m /\ t.any /\ t.addr = s.addr + 1
          /\ t.right = s.right /\ t.r = s.r
          /\ IsLast(stabs, type, s, m) /\ Value(stabs, m) = s.addr
      BY <1>7 DEF Exactly, Value
    <2>2. m \in F /\ m \in s.l..Middle(s) /\ m \in Int
      BY <1>2, <1>3, <2>1
    <2>3. ASSUME NEW x \in F, x < t.l PROVE Value(stabs, x) < t.addr
      <3>1. Value(stabs, x) < s.addr
        BY <1>2, <2>1, <2>2, <2>3
      <3> QED
        BY <1>0, <1>2, <2>1, <3>1
    <2>4. t.left <= t.l /\ t.left <= t.right /\ Value(stabs, t.left) < t.addr /\ addr <= t.addr
      BY <1>0, <1>1, <2>1, <2>2
    <2>5. ASSUME NEW a \in addr..(t.addr - 1) PROVE \E x \in F : Value(stabs, x) = a
      <3>1. a = s.addr \/ a \in addr..(s.addr - 1)
        BY <1>0, <2>1
      <3> QED
        BY <1>1, <2>1, <2>2, <3>1
    <2> HIDE DEF F
    <2>6. /\ t.r = t.right /\ t.left <= t.l /\ addr <= t.addr
          /\ \A x \in F : t.right < x => addr < Value(stabs, x)
          /\ \A x \in F : x < t.l => Value(stabs, x) < t.addr
          /\ \A a \in addr..(t.addr - 1) : \E x \in F : Value(stabs, x) = a
          /\ t.right = right \/ (t.right + 1 \in F /\ t.any)
          /\ t.left \in F /\ t.left <= t.right /\ Value(stabs, t.left) < t.addr
          /\ F # {} /\ t.any
      BY <1>1, <2>1, <2>2, <2>3, <2>4, <2>5
    <2> QED
      <3>1. KnowsOf(F, stabs, left, right, addr, t)
        BY <2>6 DEF KnowsOf
      <3> QED
        BY <3>1 DEF Knows, F
  <1> QED
    BY <1>4, <1>5, <1>6, <1>7 DEF Turned
(* The loop ends, and knows this then. *)
Ended(stabs, left, right, type, addr, s) ==
    s \in Loop(left, right) /\ Knows(stabs, left, right, type, addr, s) /\ s.l > s.r

LEMMA SearchEnds ==
    ASSUME NEW left, NEW right, NEW stabs, NEW type, Sorted(stabs, left, right, type),
           left <= right + 1, NEW addr \in Nat
    PROVE  Ended(stabs, left, right, type, addr, SearchLoop(stabs, left, right, type, addr))
  <1> DEFINE z == [l |-> left, r |-> right, left |-> left, right |-> right,
                   any |-> FALSE, addr |-> addr]
             Know(s) == Knows(stabs, left, right, type, addr, s)
             End(s) == Ended(stabs, left, right, type, addr, s)
  <1>0. HasAddresses(stabs, left, right)
    BY DEF Sorted, HasAddresses, Value
  <1>1. left \in Nat /\ right \in Int
    BY DEF Sorted
  <1>2. PICK g : /\ IsRun(stabs, left, right, type, g)
                 /\ SearchLoop(stabs, left, right, type, addr) = g[z]
    BY <1>0, SearchRuns
  <1>3. z \in Loop(left, right)
    BY <1>1 DEF Loop
  <1>4. Know(z)
    <2> DEFINE F == OfType(stabs, left, right, type)
    <2>1. F \subseteq left..right
      BY DEF OfType
    <2>2. /\ z.l = left /\ z.r = right /\ z.left = left /\ z.right = right
          /\ z.any = FALSE /\ z.addr = addr
      OBVIOUS
    <2> HIDE DEF z, F
    <2>3. KnowsOf(F, stabs, left, right, addr, z)
      BY <1>1, <2>1, <2>2 DEF KnowsOf
    <2> QED
      BY <2>3 DEF Knows, F
  <1> DEFINE S == {n \in Nat : \A s \in Loop(left, right) :
                                  TurnsLeft(stabs, type, s) <= n /\ Know(s) => End(g[s])}
  <1>5. \A s \in Loop(left, right) : TurnsLeft(stabs, type, s) \in Nat
    BY <1>1 DEF TurnsLeft, Loop
  <1> HIDE DEF z
  <1>6. ASSUME NEW n \in Nat,
               \A t \in Loop(left, right) : TurnsLeft(stabs, type, t) < n /\ Know(t) => End(g[t]),
               NEW s \in Loop(left, right), TurnsLeft(stabs, type, s) <= n, Know(s)
        PROVE  End(g[s])
    <2>1. g[s] = IF s.l > s.r THEN s ELSE g[SearchTurn(stabs, type, s)]
      BY <1>2 DEF IsRun
    <2>2. CASE s.l > s.r
      BY <1>6, <2>1, <2>2 DEF Ended
    <2>3. CASE ~(s.l > s.r)
      <3> DEFINE t == SearchTurn(stabs, type, s)
      <3>1. s.l <= s.r
        BY <1>1, <2>3 DEF Loop
      <3>2. Turned(stabs, left, right, type, s, t)
        BY <1>0, <3>1, TurnFound
      <3> HIDE DEF t
      <3>3. TurnsLeft(stabs, type, t) < TurnsLeft(stabs, type, s) /\ t \in Loop(left, right)
        BY <1>0, <3>1, <3>2, TurnLess DEF Turned
      <3>4. Know(t)
        BY <1>6, <3>1, <3>2, TurnKnows
      <3> HIDE DEF Know, End
      <3>5. End(g[t])
        BY <1>5, <1>6, <3>3, <3>4
      <3> QED
        BY <2>1, <2>3, <3>5 DEF t
    <2> QED
      BY <2>2, <2>3
  <1> HIDE DEF Know, End
  <1>7. 0 \in S
    BY <1>5, <1>6
  <1>8. ASSUME NEW n \in Nat, n \in S PROVE n + 1 \in S
    <2>1. \A t \in Loop(left, right) : TurnsLeft(stabs, type, t) < n + 1 /\ Know(t) => End(g[t])
      BY <1>5, <1>8
    <2> QED
      BY <1>6, <2>1
  <1> HIDE DEF S
  <1>9. TurnsLeft(stabs, type, z) \in S
    BY <1>3, <1>5, <1>7, <1>8, SetInduction
  <1>10. End(g[z])
    BY <1>3, <1>4, <1>5, <1>9 DEF S
  <1> QED
    BY <1>2, <1>10 DEF End

-----------------------------------------------------------------------------
(* The stretch of the entry that contains a. *)
LEMMA Contained ==
    ASSUME NEW left, NEW right, NEW stabs, NEW type, Sorted(stabs, left, right, type),
           NEW a \in Int, NEW f \in OfType(stabs, left, right, type), NEW last \in Int, last <= right,
           Value(stabs, f) <= a, f <= last,
           \A m \in OfType(stabs, left, right, type) :
              /\ m <= last => m <= f
              /\ last < m => a < Value(stabs, m),
           last = right \/ last + 1 \in OfType(stabs, left, right, type)
    PROVE  Containing(stabs, left, right, type, a) = [left |-> f, right |-> last]
  <1> DEFINE F == OfType(stabs, left, right, type)
             before == {m \in F : stabs[m].n_value <= a}
             after == F \ before
  <1>1. /\ left \in Nat /\ right \in Int /\ F \subseteq left..right
        /\ \A m \in F : Value(stabs, m) \in Nat
        /\ \A m, n \in F : m < n => Value(stabs, m) < Value(stabs, n)
    BY DEF Sorted, OfType
  <1>2. Containing(stabs, left, right, type, a)
          = IF before = {}
            THEN [left |-> NoEntry, right |-> IF after = {} THEN left - 1 ELSE Min(after) - 1]
            ELSE [left |-> Max(before), right |-> IF after = {} THEN right ELSE Min(after) - 1]
    BY DEF Containing
  <1>3. before = {m \in F : Value(stabs, m) <= a}
    BY DEF Value
  <1> HIDE DEF before
  <1>4. f \in before /\ \A m \in F : m \in before <=> m <= f
    <2> HIDE DEF F
    <2>1. f \in F /\ f \in Int /\ Value(stabs, f) \in Int
      BY <1>1 DEF F
    <2>2. ASSUME NEW m \in F, m <= f PROVE Value(stabs, m) <= a
      <3>1. m = f \/ m < f
        BY <1>1, <2>1, <2>2
      <3> QED
        BY <1>1, <2>1, <3>1
    <2>3. ASSUME NEW m \in F, Value(stabs, m) <= a PROVE m <= f
      BY <1>1, <2>1, <2>3 DEF F
    <2> QED
      BY <1>3, <2>1, <2>2, <2>3
  <1>5. Max(before) = f
    <2> DEFINE x == Max(before)
    <2>1. before \subseteq Int /\ before # {} /\ right \in Int /\ \A k \in before : k <= right
      BY <1>1, <1>3, <1>4
    <2>2. x = Max(before)
      OBVIOUS
    <2> HIDE DEF x
    <2>3. x \in before /\ \A k \in before : k <= x
      BY <2>1, <2>2, MaxFound
    <2>4. x \in F
      BY <1>3, <2>3
    <2>5. x <= f /\ f <= x /\ x \in Int /\ f \in Int
      BY <1>1, <1>4, <2>3, <2>4
    <2> QED
      BY <2>5 DEF x
  <1>6. \A m \in after : m \in F /\ m > last /\ m \in Nat
    <2> SUFFICES ASSUME NEW m \in after PROVE m \in F /\ m > last /\ m \in Nat
      OBVIOUS
    <2>1. m \in F /\ m \in Int /\ f \in Int /\ ~(m <= f) /\ m \in Nat
      BY <1>1, <1>4
    <2> QED
      BY <2>1
  <1>7. CASE last = right
    <2>1. after = {}
      BY <1>1, <1>6, <1>7
    <2> HIDE DEF after
    <2> QED
      BY <1>2, <1>4, <1>5, <1>7, <2>1
  <1>8. CASE last + 1 \in F
    <2>1. last + 1 \in after
      BY <1>1, <1>4, <1>8
    <2> HIDE DEF after
    <2> DEFINE x == Min(after)
    <2>2. after \subseteq Nat /\ after # {} /\ x = Min(after)
      BY <1>6, <2>1
    <2> HIDE DEF x
    <2>3. x \in after /\ x <= last + 1
      BY <2>1, <2>2, MinFound
    <2>4. x > last /\ x \in Int
      BY <1>6, <2>3
    <2>5. x = last + 1
      BY <2>3, <2>4
    <2>6. Min(after) - 1 = last
      BY <2>2, <2>5
    <2> QED
      BY <1>2, <1>4, <1>5, <2>1, <2>6
  <1> QED
    BY <1>7, <1>8

(* What the search should leave. *)
Located(stabs, left, right, type, addr, res) ==
    LET all == OfType(stabs, left, right, type)
        At(a) == Containing(stabs, left, right, type, a)
    IN  IF At(addr).left # NoEntry
        THEN \E k \in RunFrom(stabs, left, right, type, addr) : res = At(addr + k)
        ELSE IF all = {}
        THEN res = [left |-> left, right |-> left - 1]
        ELSE LET before == Min(all) - 1
             IN  res = [left |-> Min({left, before}), right |-> before]

(* Whether an entry contains addr. *)
LEMMA SomeContains ==
    ASSUME NEW left, NEW right, NEW stabs, NEW type, Sorted(stabs, left, right, type), NEW addr
    PROVE  Containing(stabs, left, right, type, addr).left # NoEntry
              <=> \E m \in OfType(stabs, left, right, type) : Value(stabs, m) <= addr
  <1> DEFINE F == OfType(stabs, left, right, type)
             before == {m \in F : stabs[m].n_value <= addr}
             after == F \ before
             x == Max(before)
  <1>1. Containing(stabs, left, right, type, addr)
          = IF before = {}
            THEN [left |-> NoEntry, right |-> IF after = {} THEN left - 1 ELSE Min(after) - 1]
            ELSE [left |-> x, right |-> IF after = {} THEN right ELSE Min(after) - 1]
    BY DEF Containing
  <1>2. left \in Nat /\ right \in Int /\ before \subseteq left..right
    BY DEF Sorted, OfType
  <1>3. before # {} <=> \E m \in F : Value(stabs, m) <= addr
    BY DEF Value
  <1>4. x = Max(before)
    OBVIOUS
  <1> HIDE DEF before, after, x
  <1>5. before # {} => x # NoEntry
    <2> SUFFICES ASSUME before # {} PROVE x # NoEntry
      OBVIOUS
    <2>1. before \subseteq Int /\ \A k \in before : k <= right
      BY <1>2
    <2>2. x \in before
      BY <1>2, <1>4, <2>1, MaxFound
    <2> QED
      BY <1>2, <2>2 DEF NoEntry
  <1> QED
    BY <1>1, <1>3, <1>5

(* How far a run of addresses may go. *)
LEMMA InRun ==
    ASSUME NEW left, NEW right, NEW stabs, NEW type, Sorted(stabs, left, right, type),
           NEW addr \in Nat, NEW k \in Nat,
           k = 0 \/ \A a \in addr..(addr + k) : \E m \in OfType(stabs, left, right, type) : Value(stabs, m) = a
    PROVE  k \in RunFrom(stabs, left, right, type, addr)
  <1> DEFINE F == OfType(stabs, left, right, type)
             starts == {stabs[m].n_value : m \in F}
  <1>1. RunFrom(stabs, left, right, type, addr)
          = {j \in 0 .. Cardinality(starts) : j = 0 \/ addr .. addr + j \subseteq starts}
    BY DEF RunFrom
  <1>2. IsFiniteSet(starts)
    <2>1. left \in Int /\ right \in Int
      BY DEF Sorted
    <2>2. IsFiniteSet(left..right)
      BY <2>1, FS_Interval
    <2>3. F \in SUBSET (left..right)
      BY DEF OfType
    <2>4. IsFiniteSet(F)
      BY <2>2, <2>3, FS_Subset
    <2> DEFINE v == [m \in F |-> stabs[m].n_value]
               V == starts
    <2>5. v \in Surjection(F, V)
      BY DEF Surjection
    <2> HIDE DEF F, v, V
    <2>6. IsFiniteSet(V)
      BY <2>4, <2>5, FS_Surjection
    <2> QED
      BY <2>6 DEF V
  <1>3. Cardinality(starts) \in Nat
    BY <1>2, FS_CardinalityType
  <1>4. CASE k = 0
    BY <1>1, <1>3, <1>4
  <1>5. CASE k # 0
    <2> DEFINE I == addr..(addr + k)
    <2>1. I \in SUBSET starts
      BY <1>5 DEF Value
    <2> HIDE DEF starts
    <2>2. Cardinality(I) = (addr + k) - addr + 1
      BY FS_Interval
    <2>3. Cardinality(I) <= Cardinality(starts)
      BY <1>2, <2>1, FS_Subset
    <2>4. k \in 0..Cardinality(starts)
      BY <1>3, <2>2, <2>3
    <2> QED
      BY <1>1, <2>1, <2>4
  <1> QED
    BY <1>4, <1>5

(* A search leaves that, in a part of a table that may be empty. *)
LEMMA SearchLocated ==
    ASSUME NEW left, NEW right, NEW stabs, NEW type, Sorted(stabs, left, right, type),
           left <= right + 1, NEW addr \in Nat
    PROVE  Located(stabs, left, right, type, addr, stab_binsearch(stabs, left, right, type, addr))
  <1> DEFINE F == OfType(stabs, left, right, type)
             s == SearchLoop(stabs, left, right, type, addr)
             typed == {m \in s.left + 1 .. s.right : stabs[m].n_type = type}
             res == stab_binsearch(stabs, left, right, type, addr)
             At(a) == Containing(stabs, left, right, type, a)
  <1>0. /\ left \in Nat /\ right \in Int
        /\ \A m \in F : m \in Nat /\ m \in Int /\ left <= m /\ m <= right
    BY DEF Sorted, OfType
  <1>1. /\ left \in Nat /\ right \in Int /\ F \subseteq left..right
        /\ \A m \in F : Value(stabs, m) \in Nat
        /\ \A m, n \in F : m < n => Value(stabs, m) < Value(stabs, n)
    BY DEF Sorted, OfType
  <1>2. res = IF ~s.any THEN [left |-> s.left, right |-> s.left - 1]
              ELSE [left  |-> IF typed = {} THEN Min({s.left, s.right}) ELSE Max(typed),
                    right |-> s.right]
    BY DEF stab_binsearch
  <1>3. Ended(stabs, left, right, type, addr, s)
    BY SearchEnds
  <1> HIDE DEF s, res
  <1>4. KnowsOf(F, stabs, left, right, addr, s)
    BY <1>3 DEF Ended, Knows
  <1>5. /\ s.l \in Int /\ s.right \in Int /\ s.left \in Int /\ s.addr \in Nat /\ s.any \in BOOLEAN
        /\ s.right < s.l /\ s.right <= right /\ s.r = s.right
    <2>1. s \in Loop(left, right) /\ s.l > s.r
      BY <1>3 DEF Ended
    <2>2. s.l \in Int /\ s.left \in Int /\ s.addr \in Nat /\ s.any \in BOOLEAN /\ s.r \in Int /\ s.r <= right
      BY <1>1, <2>1 DEF Loop
    <2>3. s.r = s.right
      BY <1>4 DEF KnowsOf
    <2> QED
      BY <2>1, <2>2, <2>3
  <1>6. /\ addr <= s.addr
        /\ \A m \in F : s.right < m => addr < Value(stabs, m)
        /\ \A m \in F : m < s.l => Value(stabs, m) < s.addr
        /\ \A a \in addr..(s.addr - 1) : \E m \in F : Value(stabs, m) = a
        /\ s.right = right \/ (s.right + 1 \in F /\ s.any)
        /\ s.left = left \/ (s.left \in F /\ s.left <= s.right)
        /\ s.any => F # {}
        /\ ~s.any => s.left = left /\ \A m \in F : ~(m < s.l)
    BY <1>4 DEF KnowsOf
  <1>7. typed = {m \in F : s.left < m /\ m <= s.right}
    <2>1. s.left >= left
      BY <1>1, <1>6
    <2>2. \A m \in (s.left + 1)..s.right : m \in left..right /\ s.left < m /\ m <= s.right
      BY <1>1, <1>5, <2>1
    <2>3. \A m \in left..right : s.left < m /\ m <= s.right => m \in (s.left + 1)..s.right
      BY <1>1, <1>5
    <2> QED
      BY <2>2, <2>3 DEF OfType
  <1> HIDE DEF F, typed
  <1>8. CASE \E m \in F : m <= s.right
    <2> DEFINE T == {m \in F : m <= s.right}
               f == Max(T)
    <2>1. T \subseteq Int /\ T # {} /\ s.right \in Int /\ (\A k \in T : k <= s.right) /\ f = Max(T)
      BY <1>0, <1>5, <1>8
    <2> HIDE DEF T, f
    <2>2. f \in T /\ \A k \in T : k <= f
      BY <2>1, MaxFound
    <2>3. f \in F /\ f \in Nat /\ f <= s.right /\ Value(stabs, f) \in Nat /\ Value(stabs, f) < s.addr
      <3>1. f \in F /\ f <= s.right /\ f \in Nat
        BY <1>1, <2>2 DEF T
      <3>2. f < s.l
        BY <1>5, <3>1
      <3> QED
        BY <1>1, <1>6, <3>1, <3>2
    <2>4. \A m \in F : m <= s.right => m <= f
      BY <2>2 DEF T
    <2>5. s.any
      <3>1. f < s.l
        BY <1>5, <2>3
      <3> QED
        BY <1>6, <2>3, <3>1
    <2>6. res = [left |-> f, right |-> s.right]
      <3>1. CASE typed = {}
        <4>1. f <= s.left
          BY <1>5, <1>7, <2>3, <3>1
        <4>2. s.left <= f
          BY <1>0, <1>6, <2>3, <2>4
        <4>3. s.left = f
          BY <1>5, <2>3, <4>1, <4>2
        <4> DEFINE P == {s.left, s.right}
                   x == Min(P)
        <4>4. P \subseteq Nat /\ P # {} /\ x = Min(P)
          BY <1>5, <2>3, <4>3
        <4>5. \A y \in P : f <= y
          BY <2>3, <4>3
        <4>6. f \in P
          BY <4>3
        <4> HIDE DEF P, x
        <4>7. x \in P /\ x <= f
          BY <4>4, <4>6, MinFound
        <4>8. x = f
          BY <2>3, <4>4, <4>5, <4>7
        <4> QED
          BY <1>2, <2>5, <3>1, <4>4, <4>8 DEF P
      <3>2. CASE typed # {}
        <4> DEFINE x == Max(typed)
        <4>1. typed \subseteq Int /\ \A k \in typed : k <= s.right
          BY <1>0, <1>7
        <4>2. x = Max(typed)
          OBVIOUS
        <4> HIDE DEF x
        <4>3. x \in typed /\ \A k \in typed : k <= x
          BY <1>5, <3>2, <4>1, <4>2, MaxFound
        <4>4. x \in F /\ s.left < x /\ x <= s.right /\ x \in Int
          BY <1>1, <1>7, <4>3
        <4>5. x <= f
          BY <2>4, <4>4
        <4>6. f \in typed
          BY <1>5, <1>7, <2>3, <4>4, <4>5
        <4>7. x = f
          BY <2>3, <4>3, <4>4, <4>5, <4>6
        <4> QED
          BY <1>2, <2>5, <3>2, <4>2, <4>7
      <3> QED
        BY <3>1, <3>2
    <2> DEFINE k == IF Value(stabs, f) <= addr THEN 0 ELSE Value(stabs, f) - addr
               a1 == addr + k
    <2>7. /\ k \in Nat /\ a1 \in Int /\ Value(stabs, f) <= a1
          /\ a1 = addr \/ a1 = Value(stabs, f)
          /\ k = 0 \/ (a1 = Value(stabs, f) /\ a1 <= s.addr - 1 /\ addr < a1)
      BY <1>5, <2>3
    <2> HIDE DEF k
    <2>8. At(a1) = [left |-> f, right |-> s.right]
      <3>1. \A m \in F : s.right < m => a1 < Value(stabs, m)
        <4> SUFFICES ASSUME NEW m \in F, s.right < m PROVE a1 < Value(stabs, m)
          OBVIOUS
        <4>1. addr < Value(stabs, m)
          BY <1>6
        <4>2. f < m
          BY <1>1, <1>5, <2>3
        <4>3. Value(stabs, f) < Value(stabs, m)
          BY <1>1, <2>3, <4>2
        <4> QED
          BY <2>7, <4>1, <4>3
      <3> DEFINE last == s.right
      <3>2. /\ last \in Int /\ last <= right /\ f <= last /\ (last = right \/ last + 1 \in F)
            /\ \A m \in F : (m <= last => m <= f) /\ (last < m => a1 < Value(stabs, m))
        BY <1>5, <1>6, <2>3, <2>4, <3>1
      <3>3. last = s.right
        OBVIOUS
      <3> HIDE DEF a1, last
      <3>4. At(a1) = [left |-> f, right |-> last]
        BY <2>3, <2>7, <3>2, Contained DEF F
      <3> QED
        BY <3>3, <3>4
    <2>9. k \in RunFrom(stabs, left, right, type, addr)
      <3>1. k = 0 \/ \A a \in addr..(addr + k) : \E m \in F : Value(stabs, m) = a
        <4> SUFFICES ASSUME k # 0, NEW a \in addr..(addr + k) PROVE \E m \in F : Value(stabs, m) = a
          OBVIOUS
        <4>1. a \in addr..(s.addr - 1)
          BY <1>5, <2>7
        <4> QED
          BY <1>6, <4>1
      <3> QED
        BY <2>7, <3>1, InRun DEF F
    <2>10. At(addr).left # NoEntry
      <3>1. \E m \in F : Value(stabs, m) <= addr
        <4>1. CASE Value(stabs, f) <= addr
          BY <2>3, <4>1
        <4>2. CASE ~(Value(stabs, f) <= addr)
          <5>1. addr \in addr..(s.addr - 1)
            BY <1>5, <2>3, <4>2
          <5>2. PICK m \in F : Value(stabs, m) = addr
            BY <1>6, <5>1
          <5> QED
            BY <5>2
        <4> QED
          BY <4>1, <4>2
      <3> QED
        BY <3>1, SomeContains DEF F
    <2>11. \E j \in RunFrom(stabs, left, right, type, addr) : res = At(addr + j)
      BY <2>6, <2>8, <2>9
    <2> HIDE DEF At
    <2>12. Located(stabs, left, right, type, addr, res)
      BY <2>10, <2>11 DEF Located, At
    <2> QED
      BY <2>12 DEF res
  <1>9. CASE ~\E m \in F : m <= s.right
    <2>1. \A m \in F : s.right < m /\ m \in Nat
      BY <1>1, <1>5, <1>9
    <2>2. ~(At(addr).left # NoEntry)
      <3>1. \A m \in F : ~(Value(stabs, m) <= addr)
        BY <1>1, <1>6, <2>1
      <3> QED
        BY <3>1, SomeContains DEF F
    <2>3. s.left = left
      BY <1>6, <1>9
    <2>4. CASE F = {}
      <3>1. ~s.any
        BY <1>6, <2>4
      <3>2. res = [left |-> left, right |-> left - 1]
        BY <1>2, <2>3, <3>1
      <3> HIDE DEF At
      <3>3. Located(stabs, left, right, type, addr, res)
        BY <2>2, <2>4, <3>2 DEF Located, At, F
      <3> QED
        BY <3>3 DEF res
    <2>5. CASE F # {}
      <3>1. s.right # right
        BY <1>0, <2>1, <2>5
      <3>2. s.right + 1 \in F /\ s.any
        BY <1>6, <3>1
      <3> DEFINE x == Min(F)
      <3>3. F \subseteq Nat /\ x = Min(F)
        BY <2>1
      <3> HIDE DEF x
      <3>4. x \in F /\ x <= s.right + 1
        BY <2>5, <3>2, <3>3, MinFound
      <3>5. x - 1 = s.right
        BY <1>5, <2>1, <3>4
      <3>6. typed = {}
        BY <1>7, <1>9
      <3>7. res = [left |-> Min({left, x - 1}), right |-> x - 1]
        BY <1>2, <2>3, <3>2, <3>5, <3>6
      <3> HIDE DEF At
      <3>8. Located(stabs, left, right, type, addr, res)
        BY <2>2, <2>5, <3>3, <3>7 DEF Located, At, F
      <3> QED
        BY <3>8 DEF res
    <2> QED
      BY <2>4, <2>5
  <1> QED
    BY <1>8, <1>9

(* What a call of the library holds. *)
SearchKept ==
    job.call = "stab_binsearch" =>
        /\ job.q \in Searches
        /\ job.r = stab_binsearch(job.q.stabs, job.q.left, job.q.right, "FUN", job.q.addr)

(* The name of a call is the one it was made by. *)
LEMMA CallNamed ==
    /\ StabBinsearch => job'.call = "stab_binsearch"
    /\ DebuginfoEip => job'.call = "debuginfo_eip"
    /\ Printf => job'.call = "printf"
    /\ Memmove => job'.call = "memmove"
    /\ StringCall => job'.call = "string"
    /\ Strtol => job'.call = "strtol"
    /\ Return => job'.call = "none"
  <1>1. ASSUME NEW name, NEW q, NEW r, Calls(name, q, r) PROVE job'.call = name
    BY <1>1 DEF Calls
  <1>2. StabBinsearch => job'.call = "stab_binsearch"
    BY <1>1 DEF StabBinsearch
  <1>3. DebuginfoEip => job'.call = "debuginfo_eip"
    BY <1>1 DEF DebuginfoEip
  <1>4. Printf => job'.call = "printf"
    BY <1>1 DEF Printf
  <1>5. Memmove => job'.call = "memmove"
    BY <1>1 DEF Memmove
  <1>6. StringCall => job'.call = "string"
    BY <1>1 DEF StringCall
  <1>7. Strtol => job'.call = "strtol"
    BY <1>1 DEF Strtol
  <1>8. Return => job'.call = "none"
    BY DEF Return, Idle
  <1> QED
    BY <1>2, <1>3, <1>4, <1>5, <1>6, <1>7, <1>8

LEMMA SearchStep == SearchKept /\ [LibNext]_job => SearchKept'
  <1> SUFFICES ASSUME SearchKept, [LibNext]_job PROVE SearchKept'
    OBVIOUS
  <1>1. CASE StabBinsearch
    BY <1>1 DEF StabBinsearch, Calls, SearchKept
  <1>2. CASE DebuginfoEip \/ Printf \/ Memmove \/ StringCall \/ Strtol \/ Return
    BY <1>2, CallNamed DEF SearchKept
  <1>3. CASE UNCHANGED job
    BY <1>3 DEF SearchKept
  <1> QED
    BY <1>1, <1>2, <1>3 DEF LibNext

LEMMA SearchKeptExact == SearchKept => StabSearchExact
  <1> SUFFICES ASSUME SearchKept, job.call = "stab_binsearch" PROVE StabSearchExact
    BY DEF StabSearchExact
  <1> DEFINE q == job.q
  <1>1. /\ q \in Searches
        /\ job.r = stab_binsearch(q.stabs, q.left, q.right, "FUN", q.addr)
    BY DEF SearchKept
  <1>2. Sorted(q.stabs, q.left, q.right, "FUN") /\ q.left <= q.right + 1 /\ q.addr \in Nat
    BY <1>1, SearchAssumption DEF Sorted, Value
  <1> HIDE DEF q
  <1>3. Located(q.stabs, q.left, q.right, "FUN", q.addr, job.r)
    BY <1>1, <1>2, SearchLocated
  <1> QED
    BY <1>3 DEF Located, StabSearchExact, q

(* For a backtrace, stab_binsearch() brackets an address by the function   *)
(* that contains it, in a table of any length with any entries between its *)
(* functions, however the bounds shrink.                                   *)
THEOREM StabSearch == LibSpec => []StabSearchExact
  <1>1. LibInit => SearchKept
    BY DEF LibInit, Idle, SearchKept
  <1> QED
    BY <1>1, SearchStep, SearchKeptExact, PTL DEF LibSpec


-----------------------------------------------------------------------------
(* The memory m once one unit has been moved that is o bytes from the      *)
(* start of both.                                                          *)
UnitMoved(D, m, d, s, unit, o) ==
    [a \in D |-> IF a \in d + o .. d + o + unit - 1 THEN m[s + (a - d)] ELSE m[a]]
StartAt(unit, count, up, k) == IF up THEN unit * k ELSE unit * (count - 1 - k)

(* Memory after each unit, given memory after the one before. *)
Move(mem, d, s, unit, count, up, f, k) ==
    IF k = 0 THEN mem
    ELSE UnitMoved(DOMAIN mem, f[k - 1], d, s, unit, StartAt(unit, count, up, k - 1))
IsMoves(mem, d, s, unit, count, up, f) ==
    f = [k \in 0..count |-> Move(mem, d, s, unit, count, up, f, k)]

LEMMA MovesExist ==
    ASSUME NEW mem, NEW d, NEW s, NEW unit, NEW count \in Nat, NEW up
    PROVE  \E f : IsMoves(mem, d, s, unit, count, up, f)
  <1> DEFINE M(f, k) == Move(mem, d, s, unit, count, up, f, k)
             Along(f, n) == \A k \in 0..count : k <= n => f[k] = M(f, k)
             S == {n \in Nat : \E f : Along(f, n)}
  <1>1. ASSUME NEW n \in Nat, NEW g, \A k \in 0..count : k < n => g[k] = M(g, k)
        PROVE  \E f : Along(f, n)
    <2> DEFINE f == [k \in 0..count |-> IF k < n THEN g[k] ELSE M(g, k)]
    <2>1. ASSUME NEW k \in 0..count, k <= n PROVE f[k] = M(f, k)
      <3>1. f[k] = M(g, k)
        BY <1>1
      <3>2. CASE k = 0
        BY <3>1, <3>2 DEF Move
      <3>3. CASE k # 0
        <4>1. k - 1 \in 0..count /\ k - 1 < n
          BY <2>1, <3>3
        <4>2. f[k - 1] = g[k - 1]
          BY <4>1
        <4> HIDE DEF f
        <4> QED
          BY <3>1, <3>3, <4>2 DEF Move
      <3> QED
        BY <3>2, <3>3
    <2> HIDE DEF f, M
    <2> QED
      BY <2>1
  <1> HIDE DEF M
  <1>2. 0 \in S
    <2>1. \A k \in 0..count : ~(k < 0)
      OBVIOUS
    <2> HIDE DEF Along
    <2>2. \E f : Along(f, 0)
      BY <1>1, <2>1
    <2> QED
      BY <2>2
  <1>3. ASSUME NEW n \in Nat, n \in S PROVE n + 1 \in S
    <2>1. PICK g : Along(g, n)
      BY <1>3
    <2>2. \A k \in 0..count : k < n + 1 => g[k] = M(g, k)
      BY <2>1
    <2> HIDE DEF Along
    <2>3. \E f : Along(f, n + 1)
      BY <1>1, <2>2
    <2> QED
      BY <2>3
  <1> HIDE DEF S
  <1>4. count \in S
    BY <1>2, <1>3, SetInduction
  <1>5. PICK g : Along(g, count)
    BY <1>4 DEF S
  <1> DEFINE f == [k \in 0..count |-> g[k]]
  <1>6. ASSUME NEW k \in 0..count PROVE f[k] = M(f, k)
    <2>1. g[k] = M(g, k)
      BY <1>5
    <2>2. k # 0 => f[k - 1] = g[k - 1]
      OBVIOUS
    <2>3. f[k] = g[k]
      OBVIOUS
    <2> HIDE DEF f
    <2> QED
      BY <2>1, <2>2, <2>3 DEF M, Move
  <1>7. f = [k \in 0..count |-> f[k]]
    OBVIOUS
  <1> HIDE DEF f
  <1> QED
    BY <1>6, <1>7 DEF IsMoves, M

LEMMA MovedSo ==
    ASSUME NEW mem, NEW d, NEW s, NEW unit, NEW count \in Nat, NEW up
    PROVE  \E f : IsMoves(mem, d, s, unit, count, up, f) /\ Moved(mem, d, s, unit, count, up) = f[count]
  <1> DEFINE Start(k) == IF up THEN unit * k ELSE unit * (count - 1 - k)
             Is(f) == f = [k \in 0 .. count |->
                              IF k = 0 THEN mem
                              ELSE LET m == f[k - 1]
                                       o == Start(k - 1)
                                   IN  [a \in DOMAIN mem |-> IF a \in d + o .. d + o + unit - 1
                                                             THEN m[s + (a - d)] ELSE m[a]]]
             after == CHOOSE f : Is(f)
  <1>1. Moved(mem, d, s, unit, count, up) = after[count]
    BY DEF Moved
  <1>2. \A f : Is(f) <=> IsMoves(mem, d, s, unit, count, up, f)
    BY Zenon DEF IsMoves, Move, UnitMoved, StartAt
  <1>3. Is(after)
    <2>1. \E f : IsMoves(mem, d, s, unit, count, up, f)
      BY MovesExist
    <2> HIDE DEF Is
    <2> QED
      BY <1>2, <2>1
  <1> HIDE DEF after, Is
  <1> QED
    BY <1>1, <1>2, <1>3

-----------------------------------------------------------------------------
(* Memory m with the bytes from x on up to y moved. *)
MovedPart(mem, d, s, x, y) ==
    [a \in DOMAIN mem |-> IF a \in d + x .. d + y - 1 THEN mem[s + (a - d)] ELSE mem[a]]

(* A unit that is moved next reads what was there at first, when the       *)
(* direction is the one that the overlap calls for.                        *)
LEMMA NextUnitUp ==
    ASSUME NEW mem, NEW d \in Int, NEW s \in Int, NEW n \in Nat, NEW o \in Nat, NEW unit \in Nat,
           o + unit <= n, ~(s < d /\ s + n > d),
           \A j \in 0..(n - 1) : s + j \in DOMAIN mem
    PROVE  UnitMoved(DOMAIN mem, MovedPart(mem, d, s, 0, o), d, s, unit, o)
              = MovedPart(mem, d, s, 0, o + unit)
  <1> DEFINE m == MovedPart(mem, d, s, 0, o)
             D == DOMAIN mem
  <1>1. ASSUME NEW a \in D, a \in Int
        PROVE  (IF a \in d + o .. d + o + unit - 1 THEN m[s + (a - d)] ELSE m[a])
                 = IF a \in d + 0 .. d + (o + unit) - 1 THEN mem[s + (a - d)] ELSE mem[a]
    <2>1. CASE a \in d + o .. d + o + unit - 1
      <3> DEFINE j == a - d
      <3>1. j \in 0..(n - 1) /\ j >= o /\ a \in d + 0 .. d + (o + unit) - 1
        BY <1>1, <2>1
      <3>2. s + j \in D /\ s + j \notin d + 0 .. d + o - 1
        BY <3>1
      <3>3. m[s + j] = mem[s + j]
        BY <3>2 DEF MovedPart
      <3> QED
        BY <2>1, <3>1, <3>3
    <2>2. CASE a \notin d + o .. d + o + unit - 1
      <3>1. a \in d + 0 .. d + o - 1 <=> a \in d + 0 .. d + (o + unit) - 1
        BY <1>1, <2>2
      <3> QED
        BY <2>2, <3>1 DEF MovedPart
    <2> QED
      BY <2>1, <2>2
  <1> QED
    BY <1>1 DEF UnitMoved, MovedPart

LEMMA NextUnitDown ==
    ASSUME NEW mem, NEW d \in Int, NEW s \in Int, NEW n \in Nat, NEW o \in Nat, NEW unit \in Nat,
           o + unit <= n, s < d, \A j \in 0..(n - 1) : s + j \in DOMAIN mem
    PROVE  UnitMoved(DOMAIN mem, MovedPart(mem, d, s, o + unit, n), d, s, unit, o)
              = MovedPart(mem, d, s, o, n)
  <1> DEFINE m == MovedPart(mem, d, s, o + unit, n)
             D == DOMAIN mem
  <1>1. ASSUME NEW a \in D, a \in Int
        PROVE  (IF a \in d + o .. d + o + unit - 1 THEN m[s + (a - d)] ELSE m[a])
                 = IF a \in d + o .. d + n - 1 THEN mem[s + (a - d)] ELSE mem[a]
    <2>1. CASE a \in d + o .. d + o + unit - 1
      <3> DEFINE j == a - d
      <3>1. j \in 0..(n - 1) /\ j < o + unit /\ a \in d + o .. d + n - 1
        BY <1>1, <2>1
      <3>2. s + j \in D /\ s + j \notin d + (o + unit) .. d + n - 1
        BY <3>1
      <3>3. m[s + j] = mem[s + j]
        BY <3>2 DEF MovedPart
      <3> QED
        BY <2>1, <3>1, <3>3
    <2>2. CASE a \notin d + o .. d + o + unit - 1
      <3>1. a \in d + (o + unit) .. d + n - 1 <=> a \in d + o .. d + n - 1
        BY <1>1, <2>2
      <3> QED
        BY <2>2, <3>1 DEF MovedPart
    <2> QED
      BY <2>1, <2>2
  <1> QED
    BY <1>1 DEF UnitMoved, MovedPart

LEMMA Units ==
    ASSUME NEW unit \in {1, 4}, NEW count \in Nat, NEW k \in Nat, k < count
    PROVE  /\ unit * k \in Nat /\ unit * (k + 1) = unit * k + unit /\ unit * k + unit <= unit * count
           /\ unit * (count - 1 - k) \in Nat
           /\ unit * (count - k) = unit * (count - 1 - k) + unit
           /\ unit * (count - 1 - k) + unit <= unit * count
  <1>1. CASE unit = 1
    BY <1>1
  <1>2. CASE unit = 4
    BY <1>2
  <1> QED
    BY <1>1, <1>2

(* All units, in words or in bytes. *)
LEMMA AllMoved ==
    ASSUME NEW mem, mem = [a \in DOMAIN mem |-> mem[a]], NEW d \in Int, NEW s \in Int, NEW n \in Nat,
           \A j \in 0..(n - 1) : s + j \in DOMAIN mem,
           NEW unit \in {1, 4}, NEW count \in Nat, n = unit * count,
           NEW up, up = ~(s < d /\ s + n > d)
    PROVE  Moved(mem, d, s, unit, count, up) = MovedPart(mem, d, s, 0, n)
  <1> DEFINE P(k) == IF up THEN MovedPart(mem, d, s, 0, unit * k)
                     ELSE MovedPart(mem, d, s, unit * (count - k), n)
             D == DOMAIN mem
  <1>1. PICK f : IsMoves(mem, d, s, unit, count, up, f) /\ Moved(mem, d, s, unit, count, up) = f[count]
    BY MovedSo
  <1> DEFINE S == {k \in Nat : k <= count => f[k] = P(k)}
  <1>2. \A x, y \in Int : y <= x => MovedPart(mem, d, s, x, y) = mem
    <2> SUFFICES ASSUME NEW x \in Int, NEW y \in Int, y <= x PROVE MovedPart(mem, d, s, x, y) = mem
      OBVIOUS
    <2>1. \A a : ~(a \in d + x .. d + y - 1)
      OBVIOUS
    <2> QED
      BY <2>1 DEF MovedPart
  <1>3. 0 \in S
    <2>1. f[0] = mem
      BY <1>1 DEF IsMoves, Move
    <2>2. unit * 0 = 0 /\ unit * (count - 0) = n
      OBVIOUS
    <2>3. MovedPart(mem, d, s, 0, 0) = mem /\ MovedPart(mem, d, s, n, n) = mem
      BY <1>2
    <2>4. P(0) = mem
      <3>1. P(0) = IF up THEN MovedPart(mem, d, s, 0, unit * 0)
                   ELSE MovedPart(mem, d, s, unit * (count - 0), n)
        OBVIOUS
      <3> HIDE DEF P
      <3> QED
        BY <2>2, <2>3, <3>1
    <2> QED
      BY <2>1, <2>4
  <1>4. ASSUME NEW k \in Nat, k \in S PROVE k + 1 \in S
    <2> SUFFICES ASSUME k + 1 <= count PROVE f[k + 1] = P(k + 1)
      OBVIOUS
    <2>1. k < count /\ k + 1 \in 0..count /\ k + 1 - 1 = k /\ k + 1 # 0 /\ f[k] = P(k)
      BY <1>4
    <2>2. f[k + 1] = UnitMoved(D, P(k), d, s, unit, StartAt(unit, count, up, k))
      <3>1. f[k + 1] = Move(mem, d, s, unit, count, up, f, k + 1)
        BY <1>1, <2>1 DEF IsMoves
      <3> HIDE DEF P
      <3> QED
        BY <2>1, <3>1 DEF Move
    <2>3. CASE up
      <3> DEFINE o == unit * k
      <3>1. o \in Nat /\ unit \in Nat /\ o + unit <= n /\ unit * (k + 1) = o + unit
        BY <2>1, Units
      <3>2. P(k) = MovedPart(mem, d, s, 0, o) /\ StartAt(unit, count, up, k) = o
        BY <2>3 DEF StartAt
      <3>3. P(k + 1) = MovedPart(mem, d, s, 0, o + unit)
        BY <2>3, <3>1
      <3>4. ~(s < d /\ s + n > d)
        BY <2>3
      <3> HIDE DEF o, P
      <3>5. UnitMoved(D, MovedPart(mem, d, s, 0, o), d, s, unit, o) = MovedPart(mem, d, s, 0, o + unit)
        BY <3>1, <3>4, NextUnitUp
      <3> QED
        BY <2>2, <3>2, <3>3, <3>5
    <2>4. CASE ~up
      <3> DEFINE o == unit * (count - 1 - k)
      <3>1. o \in Nat /\ unit \in Nat /\ o + unit <= n /\ unit * (count - k) = o + unit
        BY <2>1, Units
      <3>2. P(k) = MovedPart(mem, d, s, o + unit, n) /\ StartAt(unit, count, up, k) = o
        BY <2>4, <3>1 DEF StartAt
      <3>3. P(k + 1) = MovedPart(mem, d, s, o, n)
        <4>1. count - (k + 1) = count - 1 - k
          OBVIOUS
        <4> QED
          BY <2>4, <4>1
      <3>4. s < d
        BY <2>4
      <3> HIDE DEF o, P
      <3>5. UnitMoved(D, MovedPart(mem, d, s, o + unit, n), d, s, unit, o) = MovedPart(mem, d, s, o, n)
        BY <3>1, <3>4, NextUnitDown
      <3> QED
        BY <2>2, <3>2, <3>3, <3>5
    <2> QED
      BY <2>3, <2>4
  <1> HIDE DEF S
  <1>5. count \in S
    BY <1>3, <1>4, SetInduction
  <1>6. f[count] = P(count)
    BY <1>5 DEF S
  <1>7. unit * count = n /\ unit * (count - count) = 0
    OBVIOUS
  <1> QED
    BY <1>1, <1>6, <1>7

LEMMA MemmoveMoves ==
    ASSUME NEW mem, mem = [a \in DOMAIN mem |-> mem[a]], NEW d \in Int, NEW s \in Int, NEW n \in Nat,
           \A j \in 0..(n - 1) : s + j \in DOMAIN mem
    PROVE  memmove(mem, d, s, n) = MovedPart(mem, d, s, 0, n)
  <1> DEFINE up == ~(s < d /\ s + n > d)
             whole == s % 4 = 0 /\ d % 4 = 0 /\ n % 4 = 0
  <1>1. memmove(mem, d, s, n) = IF whole THEN Moved(mem, d, s, 4, n \div 4, up)
                                ELSE Moved(mem, d, s, 1, n, up)
    BY DEF memmove
  <1>2. CASE whole
    <2> DEFINE count == n \div 4
    <2>1. count \in Nat /\ n = 4 * count
      BY <1>2
    <2> HIDE DEF count
    <2>2. Moved(mem, d, s, 4, count, up) = MovedPart(mem, d, s, 0, n)
      BY <2>1, AllMoved
    <2> QED
      BY <1>1, <1>2, <2>2 DEF count
  <1>3. CASE ~whole
    <2>1. n = 1 * n
      OBVIOUS
    <2>2. Moved(mem, d, s, 1, n, up) = MovedPart(mem, d, s, 0, n)
      BY <2>1, AllMoved
    <2> QED
      BY <1>1, <1>3, <2>2
  <1> QED
    BY <1>2, <1>3

(* What a copy of the library holds. *)
Bytes == [a \in 0 .. CopyRoom - 1 |-> a]
CopyKept ==
    job.call = "memmove" =>
        /\ job.q \in Copies
        /\ job.r = [move |-> memmove(Bytes, job.q.d, job.q.s, job.q.n),
                    set  |-> memset(Bytes, job.q.d, 256 + job.q.s, job.q.n)]

LEMMA CopyStep == CopyKept /\ [LibNext]_job => CopyKept'
  <1> SUFFICES ASSUME CopyKept, [LibNext]_job PROVE CopyKept'
    OBVIOUS
  <1>1. CASE Memmove
    BY <1>1 DEF Memmove, Calls, CopyKept, Bytes
  <1>2. CASE StabBinsearch \/ DebuginfoEip \/ Printf \/ StringCall \/ Strtol \/ Return
    BY <1>2, CallNamed DEF CopyKept
  <1>3. CASE UNCHANGED job
    BY <1>3 DEF CopyKept
  <1> QED
    BY <1>1, <1>2, <1>3 DEF LibNext

LEMMA CopyKeptExact == CopyKept => MemmoveExact
  <1> SUFFICES ASSUME CopyKept, job.call = "memmove" PROVE MemmoveExact
    BY DEF MemmoveExact
  <1> DEFINE q == job.q
             D == 0 .. CopyRoom - 1
             mem == Bytes
             move == memmove(mem, q.d, q.s, q.n)
             set == memset(mem, q.d, 256 + q.s, q.n)
  <1>1. /\ q.d \in Nat /\ q.s \in Nat /\ q.n \in Nat /\ CopyRoom \in 0 .. 256
        /\ q.d + q.n <= CopyRoom /\ q.s + q.n <= CopyRoom
    BY CopyAssumption DEF CopyKept
  <1>2. job.r.move = move /\ job.r.set = set
    BY DEF CopyKept
  <1>3. DOMAIN mem = D /\ mem = [a \in DOMAIN mem |-> mem[a]] /\ \A a \in D : mem[a] = a
    BY DEF Bytes
  <1> HIDE DEF q, mem
  <1>4. \A j \in 0 .. q.n - 1 : q.s + j \in DOMAIN mem
    <2>1. \A j \in 0 .. q.n - 1 : q.s + j \in D
      BY <1>1
    <2> QED
      BY <1>3, <2>1
  <1>5. move = MovedPart(mem, q.d, q.s, 0, q.n)
    <2>1. q.d \in Int /\ q.s \in Int /\ q.n \in Nat
      BY <1>1
    <2>2. mem = [a \in DOMAIN mem |-> mem[a]]
      BY <1>3
    <2> QED
      BY <1>4, <2>1, <2>2, MemmoveMoves
  <1>6. ASSUME NEW a \in D
        PROVE  move[a] = IF a \in q.d .. q.d + q.n - 1 THEN q.s + (a - q.d) ELSE a
    <2>1. move[a] = IF a \in q.d + 0 .. q.d + q.n - 1 THEN mem[q.s + (a - q.d)] ELSE mem[a]
      BY <1>3, <1>5 DEF MovedPart
    <2>2. CASE a \in q.d .. q.d + q.n - 1
      <3>1. q.s + (a - q.d) \in D
        BY <1>1, <2>2
      <3> QED
        BY <1>1, <1>3, <2>1, <2>2, <3>1
    <2>3. CASE a \notin q.d .. q.d + q.n - 1
      BY <1>1, <1>3, <2>1, <2>3
    <2> QED
      BY <2>2, <2>3
  <1>7. ASSUME NEW a \in D
        PROVE  set[a] = IF a \in q.d .. q.d + q.n - 1 THEN q.s ELSE a
    <2>1. set[a] = IF a \in q.d .. q.d + q.n - 1 THEN (256 + q.s) % 256 ELSE a
      BY <1>3 DEF memset
    <2>2. CASE a \in q.d .. q.d + q.n - 1
      <3>1. q.s < 256
        BY <1>1, <2>2
      <3>2. (256 + q.s) % 256 = q.s
        BY <1>1, <3>1
      <3> QED
        BY <2>1, <2>2, <3>2
    <2> QED
      BY <2>1, <2>2
  <1> QED
    BY <1>2, <1>6, <1>7 DEF MemmoveExact, q

(* memmove() leaves what was at its source, for any sizes, alignments and  *)
(* overlaps, and memset() the byte it is given.                            *)
THEOREM CopiesExact == LibSpec => []MemmoveExact
  <1>1. LibInit => CopyKept
    BY DEF LibInit, Idle, CopyKept
  <1> QED
    BY <1>1, CopyStep, CopyKeptExact, PTL DEF LibSpec

-----------------------------------------------------------------------------
(* What bootmain() reads: the header, as number 0, and the segments. *)
Segment(image, n) ==
    IF n = 0 THEN [pa |-> ELFHDR, size |-> HdrSize, offset |-> 0]
    ELSE [pa |-> image.ph[n].p_pa, size |-> image.ph[n].p_memsz, offset |-> image.ph[n].p_offset]

(* Its bytes below top are in memory. *)
ReadUpTo(image, mem, n, top) ==
    LET s == Segment(image, n)
    IN  \A j \in 0 .. s.size - 1 : s.pa + j < top => mem[s.pa + j] = s.offset + j
WasRead(image, mem, n) ==
    LET s == Segment(image, n)
    IN  \A j \in 0 .. s.size - 1 : mem[s.pa + j] = s.offset + j

(* What the linker lays out, the header included. *)
LEMMA SegmentOK ==
    ASSUME NEW image \in Kernels, NEW n \in 0 .. Len(image.ph), NEW s, s = Segment(image, n)
    PROVE  /\ s.pa \in Nat /\ s.size \in Nat /\ s.offset \in Nat
           /\ (s.pa % SECTSIZE) = 0 /\ (s.offset % SECTSIZE) = 0
           /\ s.pa + s.size <= RamSize
  <1>1. CASE n = 0
    <2>1. s = [pa |-> ELFHDR, size |-> HdrSize, offset |-> 0]
      BY <1>1 DEF Segment
    <2>2. (0 % SECTSIZE) = 0
      BY LoaderAssumption
    <2> QED
      BY <2>1, <2>2, LoaderAssumption
  <1>2. CASE n # 0
    <2>1. /\ s.pa = image.ph[n].p_pa /\ s.size = image.ph[n].p_memsz
          /\ s.offset = image.ph[n].p_offset
      BY <1>2 DEF Segment
    <2>2. n \in 1 .. Len(image.ph) /\ image.ph \in Seq(ProgramHeader) /\ WellLinked(image.ph)
      BY <1>2, LoaderAssumption
    <2>3. image.ph[n] \in ProgramHeader
      BY <2>2
    <2> QED
      BY <2>1, <2>2, <2>3, LoaderAssumption DEF ProgramHeader, WellLinked
  <1> QED
    BY <1>1, <1>2

LEMMA SegmentsApart ==
    ASSUME NEW image \in Kernels, NEW m \in 0 .. Len(image.ph), NEW n \in 0 .. Len(image.ph), m < n,
           NEW r, r = Segment(image, m), NEW s, s = Segment(image, n)
    PROVE  r.pa + r.size <= s.pa
  <1>1. image.ph \in Seq(ProgramHeader) /\ WellLinked(image.ph) /\ n \in 1 .. Len(image.ph)
    BY LoaderAssumption
  <1>2. s.pa = image.ph[n].p_pa /\ image.ph[n].p_pa >= ELFHDR + HdrSize
    BY <1>1 DEF Segment, WellLinked
  <1>3. CASE m = 0
    BY <1>2, <1>3, LoaderAssumption DEF Segment
  <1>4. CASE m # 0
    <2>1. m \in 1 .. Len(image.ph) /\ r.pa = image.ph[m].p_pa /\ r.size = image.ph[m].p_memsz
      BY <1>4 DEF Segment
    <2> QED
      BY <1>1, <1>2, <2>1 DEF WellLinked
  <1> QED
    BY <1>3, <1>4

(* readseg()'s loop is at a sector of s, and has read what is before it. *)
Reading(image, mem, n, q) ==
    LET s == Segment(image, n)
    IN  /\ q.pa \in Nat /\ s.pa <= q.pa /\ q.end_pa = s.pa + s.size
        /\ q.offset \in Nat \ {0} /\ (q.offset - 1) * SECTSIZE = s.offset + (q.pa - s.pa)
        /\ ReadUpTo(image, mem, n, q.pa)

(* The kernel is there as it was linked. *)
AsLinked(image, mem) ==
    \A n \in 1 .. Len(image.ph) :
        LET ph == image.ph[n]
        IN  \A j \in 0 .. ph.p_memsz - 1 :
                mem[ph.p_pa + j] = IF j < ph.p_filesz THEN ph.p_offset + j ELSE Zero

LoaderInv ==
    /\ kernel \in Kernels /\ seg \in 0 .. Len(kernel.ph)
    /\ stage = "bootmain" =>
          Reading(kernel, ram, seg, rd) /\ \A n \in 0 .. seg - 1 : WasRead(kernel, ram, n)
    /\ stage \in {"entry", "i386_init"} =>
          \A n \in 0 .. Len(kernel.ph) : WasRead(kernel, ram, n)
    /\ stage = "mem_init" => AsLinked(kernel, ram)

LEMMA Divides ==
    ASSUME NEW x \in Nat, NEW d \in Nat \ {0}, (x % d) = 0
    PROVE  x \div d \in Nat /\ (x \div d) * d = x
  OBVIOUS

(* readseg() starts at the first sector of what it is to read. *)
LEMMA ReadsegStarts ==
    ASSUME NEW image \in Kernels, NEW n \in 0 .. Len(image.ph), NEW mem, NEW q,
           q = readseg(Segment(image, n).pa, Segment(image, n).size, Segment(image, n).offset)
    PROVE  Reading(image, mem, n, q)
  <1> DEFINE s == Segment(image, n)
  <1>1. /\ s.pa \in Nat /\ s.size \in Nat /\ s.offset \in Nat
        /\ (s.pa % SECTSIZE) = 0 /\ (s.offset % SECTSIZE) = 0
    BY SegmentOK
  <1>2. q = [pa |-> s.pa - (s.pa % SECTSIZE), end_pa |-> s.pa + s.size,
             offset |-> s.offset \div SECTSIZE + 1]
    BY DEF readseg, RoundDown
  <1> HIDE DEF s
  <1> DEFINE o == s.offset \div SECTSIZE
  <1>3. o \in Nat /\ o * SECTSIZE = s.offset
    BY <1>1, Divides, LoaderAssumption
  <1>4. q.pa = s.pa /\ q.end_pa = s.pa + s.size /\ q.offset = o + 1
    BY <1>1, <1>2
  <1> HIDE DEF o
  <1>5. q.offset - 1 = o /\ q.offset \in Nat \ {0}
    BY <1>3, <1>4
  <1>6. (q.offset - 1) * SECTSIZE = s.offset + (q.pa - s.pa)
    BY <1>1, <1>3, <1>4, <1>5
  <1>7. ReadUpTo(image, mem, n, q.pa)
    BY <1>1, <1>4 DEF ReadUpTo, s
  <1> QED
    BY <1>1, <1>4, <1>5, <1>6, <1>7 DEF Reading, s

(* A sector more. *)
LEMMA ReadSectInv == LoaderInv /\ ReadSect => LoaderInv'
  <1> SUFFICES ASSUME LoaderInv, ReadSect PROVE LoaderInv'
    OBVIOUS
  <1> DEFINE s == Segment(kernel, seg)
             at == (rd.offset - 1) * SECTSIZE
  <1>1. /\ kernel \in Kernels /\ seg \in 0 .. Len(kernel.ph) /\ stage = "bootmain"
        /\ Reading(kernel, ram, seg, rd) /\ \A n \in 0 .. seg - 1 : WasRead(kernel, ram, n)
        /\ rd.pa < rd.end_pa /\ ram' = readsect(rd.pa, rd.offset)
        /\ rd' = [rd EXCEPT !.pa = rd.pa + SECTSIZE, !.offset = rd.offset + 1]
        /\ kernel' = kernel /\ seg' = seg /\ stage' = stage
    BY DEF LoaderInv, ReadSect
  <1>2. /\ s.pa \in Nat /\ s.size \in Nat /\ s.offset \in Nat /\ s.pa + s.size <= RamSize
        /\ SECTSIZE \in Nat \ {0} /\ RamSize \in Nat
    BY <1>1, SegmentOK, LoaderAssumption
  <1>3. /\ rd.pa \in Nat /\ s.pa <= rd.pa /\ rd.end_pa = s.pa + s.size
        /\ rd.offset \in Nat \ {0} /\ at = s.offset + (rd.pa - s.pa)
        /\ ReadUpTo(kernel, ram, seg, rd.pa)
    BY <1>1 DEF Reading
  <1>4. ASSUME NEW a \in Addr
        PROVE  ram'[a] = IF a \in rd.pa .. rd.pa + SECTSIZE - 1 THEN at + (a - rd.pa) ELSE ram[a]
    BY <1>1 DEF readsect
  <1>5. at \in Int /\ (rd.offset + 1 - 1) * SECTSIZE = at + SECTSIZE
    BY <1>2, <1>3
  <1>6. rd'.pa = rd.pa + SECTSIZE /\ rd'.offset = rd.offset + 1 /\ rd'.end_pa = rd.end_pa
    BY <1>1, <1>3
  <1> HIDE DEF at
  <1>7. ReadUpTo(kernel, ram', seg, rd.pa + SECTSIZE)
    <2> SUFFICES ASSUME NEW j \in 0 .. s.size - 1, s.pa + j < rd.pa + SECTSIZE
                 PROVE  ram'[s.pa + j] = s.offset + j
      BY DEF ReadUpTo
    <2> HIDE DEF s
    <2>1. s.pa + j \in Addr
      BY <1>2 DEF Addr
    <2>2. CASE s.pa + j < rd.pa
      <3>1. ram'[s.pa + j] = ram[s.pa + j]
        BY <1>2, <1>3, <1>4, <2>1, <2>2
      <3> QED
        BY <1>3, <2>2, <3>1 DEF ReadUpTo, s
    <2>3. CASE ~(s.pa + j < rd.pa)
      <3>1. s.pa + j \in rd.pa .. rd.pa + SECTSIZE - 1
        BY <1>2, <1>3, <2>3
      <3>2. ram'[s.pa + j] = at + ((s.pa + j) - rd.pa)
        BY <1>4, <2>1, <3>1
      <3> QED
        BY <1>2, <1>3, <3>2
    <2> QED
      BY <2>2, <2>3
  <1>8. ASSUME NEW n \in 0 .. seg - 1 PROVE WasRead(kernel, ram', n)
    <2> DEFINE r == Segment(kernel, n)
    <2>1. n \in 0 .. Len(kernel.ph) /\ n < seg
      BY <1>1
    <2>2. r.pa \in Nat /\ r.size \in Nat /\ r.pa + r.size <= RamSize /\ r.pa + r.size <= s.pa
      BY <1>1, <2>1, SegmentOK, SegmentsApart
    <2>3. WasRead(kernel, ram, n)
      BY <1>1
    <2> SUFFICES ASSUME NEW j \in 0 .. r.size - 1 PROVE ram'[r.pa + j] = r.offset + j
      BY DEF WasRead
    <2> HIDE DEF r, s
    <2>4. r.pa + j \in Addr /\ r.pa + j \notin rd.pa .. rd.pa + SECTSIZE - 1
      BY <1>2, <1>3, <2>2 DEF Addr
    <2>5. ram'[r.pa + j] = ram[r.pa + j]
      BY <1>4, <2>4
    <2> QED
      BY <2>3, <2>5 DEF WasRead, r
  <1> HIDE DEF s
  <1>9. Reading(kernel, ram', seg, rd')
    <2>1. /\ rd'.pa \in Nat /\ s.pa <= rd'.pa /\ rd'.end_pa = s.pa + s.size
          /\ rd'.offset \in Nat \ {0}
      BY <1>2, <1>3, <1>6
    <2>2. (rd'.offset - 1) * SECTSIZE = s.offset + (rd'.pa - s.pa)
      BY <1>2, <1>3, <1>5, <1>6
    <2> QED
      BY <1>6, <1>7, <2>1, <2>2 DEF Reading, s
  <1> QED
    BY <1>1, <1>8, <1>9 DEF LoaderInv

(* What the loop leaves when it ends. *)
LEMMA ReadAll ==
    ASSUME NEW image \in Kernels, NEW n \in 0 .. Len(image.ph), NEW mem, NEW q,
           Reading(image, mem, n, q), q.pa >= q.end_pa
    PROVE  WasRead(image, mem, n)
  <1> DEFINE s == Segment(image, n)
  <1>1. s.pa \in Nat /\ s.size \in Nat
    BY SegmentOK
  <1>2. q.pa \in Nat /\ q.end_pa = s.pa + s.size /\ ReadUpTo(image, mem, n, q.pa)
    BY DEF Reading
  <1> SUFFICES ASSUME NEW j \in 0 .. s.size - 1 PROVE mem[s.pa + j] = s.offset + j
    BY DEF WasRead
  <1> HIDE DEF s
  <1>3. s.pa + j < q.pa
    BY <1>1, <1>2
  <1> QED
    BY <1>2, <1>3 DEF ReadUpTo, s

LEMMA NextSegmentInv == LoaderInv /\ NextSegment => LoaderInv'
  <1> SUFFICES ASSUME LoaderInv, NextSegment PROVE LoaderInv'
    OBVIOUS
  <1> DEFINE ph == kernel.ph[seg + 1]
             n == seg + 1
  <1>1. /\ kernel \in Kernels /\ seg \in 0 .. Len(kernel.ph) /\ stage = "bootmain"
        /\ Reading(kernel, ram, seg, rd) /\ \A m \in 0 .. seg - 1 : WasRead(kernel, ram, m)
        /\ rd.pa >= rd.end_pa /\ seg < Len(kernel.ph)
        /\ rd' = readseg(ph.p_pa, ph.p_memsz, ph.p_offset) /\ seg' = seg + 1
        /\ kernel' = kernel /\ ram' = ram /\ stage' = stage
    BY DEF LoaderInv, NextSegment
  <1>2. WasRead(kernel, ram, seg)
    BY <1>1, ReadAll
  <1>3. kernel.ph \in Seq(ProgramHeader) /\ Len(kernel.ph) \in Nat
    BY <1>1, LoaderAssumption
  <1>4. n \in 0 .. Len(kernel.ph) /\ n # 0 /\ n - 1 = seg /\ n' = seg' + 1
    BY <1>1, <1>3
  <1>5. Segment(kernel, n) = [pa |-> ph.p_pa, size |-> ph.p_memsz, offset |-> ph.p_offset]
    BY <1>4 DEF Segment
  <1>6. rd' = readseg(Segment(kernel, n).pa, Segment(kernel, n).size, Segment(kernel, n).offset)
    BY <1>1, <1>5
  <1>7. Reading(kernel, ram, n, rd')
    BY <1>1, <1>4, <1>6, ReadsegStarts
  <1>8. \A m \in 0 .. n - 1 : WasRead(kernel, ram, m)
    <2>1. \A m \in 0 .. n - 1 : m \in 0 .. seg - 1 \/ m = seg
      BY <1>1, <1>4
    <2> QED
      BY <1>1, <1>2, <2>1
  <1>9. seg' = n
    BY <1>1
  <1> HIDE DEF n, ph
  <1> QED
    BY <1>1, <1>4, <1>7, <1>8, <1>9 DEF LoaderInv

LEMMA EnterKernelInv == LoaderInv /\ EnterKernel => LoaderInv'
  <1> SUFFICES ASSUME LoaderInv, EnterKernel PROVE LoaderInv'
    OBVIOUS
  <1>1. /\ kernel \in Kernels /\ seg \in 0 .. Len(kernel.ph) /\ stage = "bootmain"
        /\ Reading(kernel, ram, seg, rd) /\ \A m \in 0 .. seg - 1 : WasRead(kernel, ram, m)
        /\ rd.pa >= rd.end_pa /\ seg = Len(kernel.ph) /\ stage' = "entry"
        /\ kernel' = kernel /\ ram' = ram /\ seg' = seg
    BY DEF LoaderInv, EnterKernel
  <1>2. WasRead(kernel, ram, seg)
    BY <1>1, ReadAll
  <1>3. Len(kernel.ph) \in Nat
    BY <1>1, LoaderAssumption
  <1>4. \A m \in 0 .. Len(kernel.ph) : m \in 0 .. seg - 1 \/ m = seg
    BY <1>1, <1>3
  <1>5. \A m \in 0 .. Len(kernel.ph) : WasRead(kernel, ram, m)
    BY <1>1, <1>2, <1>4
  <1> QED
    BY <1>1, <1>5 DEF LoaderInv

(* Clearing the bss completes the last segment, which is the only one with *)
(* less in the file than in memory, and touches no other.                  *)
LEMMA ClearBssInv == LoaderInv /\ ClearBss => LoaderInv'
  <1> SUFFICES ASSUME LoaderInv, ClearBss PROVE LoaderInv'
    OBVIOUS
  <1> DEFINE last == Len(kernel.ph)
             z == kernel.ph[last]
  <1>1. /\ kernel \in Kernels /\ seg \in 0 .. Len(kernel.ph)
        /\ \A n \in 0 .. last : WasRead(kernel, ram, n)
        /\ ram' = Cleared(edata, image_end - edata) /\ stage' = "mem_init"
        /\ kernel' = kernel /\ seg' = seg
    BY DEF LoaderInv, ClearBss
  <1>2. /\ kernel.ph \in Seq(ProgramHeader) /\ kernel.ph # <<>> /\ WellLinked(kernel.ph)
        /\ RamSize \in Nat
        /\ \A n \in 1 .. last : kernel.ph[n].p_pa + kernel.ph[n].p_memsz <= RamSize
    BY <1>1, LoaderAssumption
  <1>3. last \in Nat \ {0}
    BY <1>2
  <1>4. edata = z.p_pa + z.p_filesz /\ image_end = z.p_pa + z.p_memsz
    BY DEF edata, image_end, LastPh
  <1>5. ASSUME NEW a \in Addr
        PROVE  ram'[a] = IF a \in edata .. edata + (image_end - edata) - 1 THEN Zero ELSE ram[a]
    BY <1>1 DEF Cleared
  <1>6. z \in ProgramHeader /\ z.p_filesz \in 1 .. z.p_memsz
    BY <1>2, <1>3 DEF WellLinked
  <1>7. /\ z.p_pa \in Nat /\ z.p_memsz \in Nat /\ z.p_filesz \in Nat
        /\ z.p_filesz <= z.p_memsz
    BY <1>6 DEF ProgramHeader
  <1> HIDE DEF z, last
  <1>8. ASSUME NEW n \in 1 .. last, NEW ph, ph = kernel.ph[n], NEW j \in 0 .. ph.p_memsz - 1
        PROVE  ram'[ph.p_pa + j] = IF j < ph.p_filesz THEN ph.p_offset + j ELSE Zero
    <2>1. ph \in ProgramHeader /\ ph.p_filesz \in 1 .. ph.p_memsz
      BY <1>2, <1>8 DEF WellLinked, last
    <2>2. ph.p_pa \in Nat /\ ph.p_memsz \in Nat /\ ph.p_filesz \in Nat /\ ph.p_offset \in Nat
      BY <2>1 DEF ProgramHeader
    <2>3. ram[ph.p_pa + j] = ph.p_offset + j
      <3>1. WasRead(kernel, ram, n) /\ n # 0
        BY <1>1, <1>3, <1>8
      <3>2. Segment(kernel, n) = [pa |-> ph.p_pa, size |-> ph.p_memsz, offset |-> ph.p_offset]
        BY <1>8, <3>1 DEF Segment
      <3> QED
        BY <1>8, <3>1, <3>2 DEF WasRead
    <2>4. ph.p_pa + j \in Addr
      <3>1. ph.p_pa + ph.p_memsz <= RamSize
        BY <1>2, <1>8
      <3>2. j \in Nat /\ j < ph.p_memsz /\ RamSize \in Nat
        BY <1>2, <1>8, <2>2
      <3> QED
        BY <2>2, <3>1, <3>2 DEF Addr
    <2>5. CASE n = last
      <3>1. ph = z
        BY <1>8, <2>5 DEF z
      <3>2. ph.p_pa + j \in edata .. edata + (image_end - edata) - 1 <=> ~(j < ph.p_filesz)
        BY <1>4, <1>7, <1>8, <3>1
      <3> QED
        BY <1>5, <2>3, <2>4, <3>2
    <2>6. CASE n # last
      <3>1. n < last /\ last \in 1 .. last
        BY <1>3, <1>8, <2>6
      <3>2. ph.p_filesz = ph.p_memsz /\ ph.p_pa + ph.p_memsz <= z.p_pa
        BY <1>2, <1>8, <3>1 DEF WellLinked, last, z
      <3>3. j < ph.p_filesz /\ ph.p_pa + j \notin edata .. edata + (image_end - edata) - 1
        BY <1>4, <1>7, <1>8, <2>2, <3>2
      <3> QED
        BY <1>5, <2>3, <2>4, <3>3
    <2> QED
      BY <2>5, <2>6
  <1>9. AsLinked(kernel, ram')
    BY <1>8 DEF AsLinked, last
  <1> QED
    BY <1>1, <1>9 DEF LoaderInv

LEMMA LoaderInitInv == LoaderInit => LoaderInv
  <1> SUFFICES ASSUME LoaderInit PROVE LoaderInv
    OBVIOUS
  <1>1. /\ kernel \in Kernels /\ rd = readseg(ELFHDR, HdrSize, 0) /\ seg = 0 /\ stage = "bootmain"
    BY DEF LoaderInit
  <1>2. Len(kernel.ph) \in Nat
    BY <1>1, LoaderAssumption
  <1>3. Segment(kernel, 0) = [pa |-> ELFHDR, size |-> HdrSize, offset |-> 0]
    BY DEF Segment
  <1>4. rd = readseg(Segment(kernel, 0).pa, Segment(kernel, 0).size, Segment(kernel, 0).offset)
    BY <1>1, <1>3
  <1>5. 0 \in 0 .. Len(kernel.ph) /\ \A n : ~(n \in 0 .. 0 - 1)
    BY <1>2
  <1>6. Reading(kernel, ram, 0, rd)
    BY <1>1, <1>4, <1>5, ReadsegStarts
  <1> QED
    BY <1>1, <1>5, <1>6 DEF LoaderInv

LEMMA LoaderStep ==
    LoaderInv /\ [LoaderNext \/ JumpToC \/ MemInitReturns]_loaderVars => LoaderInv'
  <1> SUFFICES ASSUME LoaderInv, [LoaderNext \/ JumpToC \/ MemInitReturns]_loaderVars
               PROVE  LoaderInv'
    OBVIOUS
  <1>1. CASE BadMagic
    BY <1>1 DEF BadMagic, LoaderInv
  <1>2. CASE JumpToC
    BY <1>2 DEF JumpToC, LoaderInv
  <1>3. CASE MemInitReturns
    BY <1>3 DEF MemInitReturns, LoaderInv
  <1>4. CASE UNCHANGED loaderVars
    BY <1>4 DEF loaderVars, LoaderInv
  <1> QED
    BY <1>1, <1>2, <1>3, <1>4, ReadSectInv, NextSegmentInv, EnterKernelInv, ClearBssInv
    DEF LoaderNext

(* Whatever memory held before, when C code runs the kernel is there as it *)
(* was linked, for any image that kernel.ld lays out and any size of a     *)
(* sector, although whole sectors were read and p_memsz bytes of each.     *)
THEOREM LoaderLoads == LoaderSpec => []LoadedExact
  <1>1. LoaderInv => LoadedExact
    <2> SUFFICES ASSUME LoaderInv PROVE LoadedExact
      OBVIOUS
    <2>1. ASSUME stage = "bootmain", seg > 0, NEW j \in 0 .. HdrSize - 1 PROVE ram[ELFHDR + j] = j
      <3>1. Segment(kernel, 0) = [pa |-> ELFHDR, size |-> HdrSize, offset |-> 0]
        BY DEF Segment
      <3>2. WasRead(kernel, ram, 0)
        <4>1. 0 \in 0 .. seg - 1
          BY <2>1, LoaderAssumption DEF LoaderInv
        <4> QED
          BY <2>1, <4>1 DEF LoaderInv
      <3>3. ram[ELFHDR + j] = 0 + j
        BY <3>1, <3>2 DEF WasRead
      <3> QED
        BY <3>3, LoaderAssumption
    <2>2. stage = "mem_init" => AsLinked(kernel, ram)
      BY DEF LoaderInv
    <2> QED
      BY <2>1, <2>2 DEF LoadedExact, AsLinked
  <1> QED
    BY <1>1, LoaderInitInv, LoaderStep, PTL DEF LoaderSpec
=============================================================================
