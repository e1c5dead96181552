------------------------------ MODULE Strings ------------------------------
(***************************************************************************)
(* lib/string.c of project3 on a byte-addressed memory mem, a function     *)
(* from addresses to bytes.  A pointer is an address.  The copies are the  *)
(* processor's string instructions, a word at a time where they can be.    *)
(***************************************************************************)
EXTENDS Integers, Sequences, FiniteSetsExt

NoPtr == -1

(* The length of the C string at p, and of its part within size bytes.     *)
strlen(mem, p) == Min({a \in DOMAIN mem : a >= p /\ mem[a] = 0}) - p
strnlen(mem, p, size) ==
    Cardinality({n \in 0 .. size - 1 : \A j \in 0 .. n : mem[p + j] # 0})

(* count units of `unit' bytes moved one after the other, up or down:      *)
(* each is read from what the ones before it left.                         *)
Moved(mem, d, s, unit, count, up) ==
    LET Start(k) == IF up THEN unit * k ELSE unit * (count - 1 - k)
        after[k \in 0 .. count] ==
            IF k = 0 THEN mem
            ELSE LET m == after[k - 1]
                     o == Start(k - 1)
                 IN  [a \in DOMAIN mem |-> IF a \in d + o .. d + o + unit - 1
                                           THEN m[s + (a - d)] ELSE m[a]]
    IN  after[count]

(* A faulty memmove() that never copies down. *)
memmove_Up(mem, d, s, n) ==
    IF s % 4 = 0 /\ d % 4 = 0 /\ n % 4 = 0
    THEN Moved(mem, d, s, 4, n \div 4, TRUE) ELSE Moved(mem, d, s, 1, n, TRUE)

memmove(mem, d, s, n) ==
    LET up    == ~(s < d /\ s + n > d)
        whole == s % 4 = 0 /\ d % 4 = 0 /\ n % 4 = 0
    IN  IF whole THEN Moved(mem, d, s, 4, n \div 4, up) ELSE Moved(mem, d, s, 1, n, up)

memset(mem, v, c, n) ==
    [a \in DOMAIN mem |-> IF a \in v .. v + n - 1 THEN c % 256 ELSE mem[a]]

(* A byte at a time, the NUL of src too; the strings do not overlap. *)
strcpy(mem, dst, src) == Moved(mem, dst, src, 1, strlen(mem, src) + 1, TRUE)
strcat(mem, dst, src) == strcpy(mem, dst + strlen(mem, dst), src)

strncpy(mem, dst, src, size) ==
    [a \in DOMAIN mem |->
        IF a \in dst .. dst + size - 1
        THEN IF a - dst < strlen(mem, src) THEN mem[src + (a - dst)] ELSE 0
        ELSE mem[a]]

(* A faulty strlcpy() that keeps no byte for the NUL. *)
strlcpy_Full(mem, dst, src, size) ==
    LET copied == strnlen(mem, src, size)
    IN  [n   |-> copied,
         mem |-> [a \in DOMAIN mem |->
                     IF a \in dst .. dst + copied - 1 THEN mem[src + (a - dst)]
                     ELSE IF a = dst + copied THEN 0 ELSE mem[a]]]

(* strlcpy(): memory, and the number of characters copied. *)
strlcpy(mem, dst, src, size) ==
    LET copied == IF size = 0 THEN 0 ELSE strnlen(mem, src, size - 1)
    IN  [n   |-> copied,
         mem |-> IF size = 0 THEN mem
                 ELSE [a \in DOMAIN mem |->
                          IF a \in dst .. dst + copied - 1 THEN mem[src + (a - dst)]
                          ELSE IF a = dst + copied THEN 0 ELSE mem[a]]]

(* The first byte that differs decides, as an unsigned number; the first   *)
(* NUL ends a string, and n bytes are compared at most.                    *)
strcmp(mem, p, q) ==
    LET stop == Min({k \in 0 .. strlen(mem, p) : mem[p + k] = 0 \/ mem[p + k] # mem[q + k]})
    IN  mem[p + stop] - mem[q + stop]

strncmp(mem, p, q, n) ==
    LET stops == {k \in 0 .. n - 1 : mem[p + k] = 0 \/ mem[p + k] # mem[q + k]}
    IN  IF stops = {} THEN 0 ELSE mem[p + Min(stops)] - mem[q + Min(stops)]

memcmp(mem, p, q, n) ==
    LET stops == {k \in 0 .. n - 1 : mem[p + k] # mem[q + k]}
    IN  IF stops = {} THEN 0 ELSE mem[p + Min(stops)] - mem[q + Min(stops)]

strfind(mem, s, c) == s + Min({k \in 0 .. strlen(mem, s) : mem[s + k] \in {c, 0}})
strchr(mem, s, c) ==
    IF mem[strfind(mem, s, c)] = 0 THEN NoPtr ELSE strfind(mem, s, c)
memfind(mem, s, c, n) == Min({s + n} \cup {a \in s .. s + n - 1 : mem[a] = c})

-----------------------------------------------------------------------------
(* strtol() *)

BLANK == 32   TAB == 9   PLUS == 43   MINUS == 45

(* The value of a digit of any base, 99 for another character. *)
dig(c) == IF c \in 48 .. 57 THEN c - 48
          ELSE IF c \in 97 .. 122 THEN c - 97 + 10
          ELSE IF c \in 65 .. 90 THEN c - 65 + 10 ELSE 99

strtol(mem, s, base) ==
    LET s1     == Min({p \in s .. s + strlen(mem, s) : mem[p] \notin {BLANK, TAB}})
        s2     == IF mem[s1] \in {PLUS, MINUS} THEN s1 + 1 ELSE s1
        hex    == base \in {0, 16} /\ mem[s2] = 48 /\ mem[s2 + 1] = 120
        octal  == base = 0 /\ mem[s2] = 48
        radix  == IF hex THEN 16 ELSE IF octal THEN 8 ELSE IF base = 0 THEN 10 ELSE base
        first  == IF hex THEN s2 + 2 ELSE IF octal THEN s2 + 1 ELSE s2
        digits[p \in DOMAIN mem, val \in Nat] ==
            IF dig(mem[p]) >= radix THEN [endptr |-> p, val |-> val]
            ELSE digits[p + 1, val * radix + dig(mem[p])]
        read   == digits[first, 0]
    IN  [endptr |-> read.endptr, val |-> IF mem[s1] = MINUS THEN -read.val ELSE read.val]
=============================================================================
