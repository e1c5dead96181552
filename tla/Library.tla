------------------------------ MODULE Library ------------------------------
(***************************************************************************)
(* The functions under the kernel's code that keep no state of their own:  *)
(* the search of the debugging tables (module Stabs), formatted output     *)
(* (module Format) and lib/string.c (module Strings).  A step calls one    *)
(* with some input and job holds what went in and what came out; what came *)
(* out is compared with definitions that do not follow the code's loops.   *)
(***************************************************************************)
EXTENDS Stabs, Format, Strings

CONSTANTS
    Searches,   \* inputs [stabs, left, right, addr] of stab_binsearch() for "FUN"
    Lookups,    \* inputs [stabs, addr] of debuginfo_eip()
    Formats,    \* inputs [items, n]: a format in parts and a size of a buffer
    Copies,     \* inputs [d, s, n] of memmove(), in a memory of CopyRoom bytes
    CopyRoom,
    Pairs,      \* inputs [p, q, n]: two strings and a count
    Numerals    \* inputs [s, base] of strtol()

(* Part of a table with `some stab types arranged in increasing order by   *)
(* instruction address', functions among them.                             *)
ASSUME SearchAssumption ==
    \A q \in Searches :
        /\ q.left \in Nat /\ q.right \in Int /\ q.left <= q.right + 1 /\ q.addr \in Nat
        /\ \A m \in q.left .. q.right : q.stabs[m].n_value \in Nat
        /\ \A m, n \in OfType(q.stabs, q.left, q.right, "FUN") :
               m < n => q.stabs[m].n_value < q.stabs[n].n_value

(* Both ends of a copy are in the memory, which a byte can count. *)
ASSUME CopyAssumption ==
    /\ CopyRoom \in 0 .. 256
    /\ \A q \in Copies : /\ q.d \in Nat /\ q.s \in Nat /\ q.n \in Nat
                         /\ q.d + q.n <= CopyRoom /\ q.s + q.n <= CopyRoom

VARIABLE job    \* the call that has just been made

Idle == [call |-> "none"]

LibInit == job = Idle

Calls(name, q, r) == job' = [call |-> name, q |-> q, r |-> r]

-----------------------------------------------------------------------------
(* Formats in parts.  A part is a character of its own, "%%", a conversion *)
(* that does not exist, or one of vprintfmt()'s with its flags.  stars     *)
(* says whether width and precision are arguments.                         *)
Part == [kind : {"char", "percent", "unknown", "convert"}, ch : STRING, pad : STRING,
         width : Int, precision : Int, stars : BOOLEAN, longs : Nat, alt : BOOLEAN]

Token(c) == [t |-> c, n |-> 0]
NumberTokens(x, stars) ==
    IF x < 0 THEN <<>> ELSE IF stars THEN <<Token("*")>> ELSE <<[t |-> "num", n |-> x]>>
TokensOf(i) ==
    CASE i.kind = "char"    -> <<Token(i.ch)>>
      [] i.kind = "percent" -> <<Token("%"), Token("%")>>
      [] i.kind = "unknown" -> <<Token("%"), [t |-> "num", n |-> i.width], Token(i.ch)>>
      [] i.kind = "convert" ->
            <<Token("%")>>
            \o (IF i.pad = " " THEN <<>> ELSE <<Token(i.pad)>>)
            \o (IF i.alt THEN <<Token("#")>> ELSE <<>>)
            \o NumberTokens(i.width, i.stars)
            \o (IF i.precision < 0 THEN <<>> ELSE <<Token(".")>>)
            \o NumberTokens(i.precision, i.stars)
            \o [k \in 1 .. i.longs |-> Token("l")]
            \o <<Token(i.ch)>>
ArgsOfPart(i) ==
    IF i.kind # "convert" THEN <<>>
    ELSE (IF i.stars /\ i.width >= 0 THEN <<i.width>> ELSE <<>>)
         \o (IF i.stars /\ i.precision >= 0 THEN <<i.precision>> ELSE <<>>)
         \o <<i.arg>>

TextOf(items) ==
    vprintfmt(FlattenSeq([k \in DOMAIN items |-> TokensOf(items[k])]),
              FlattenSeq([k \in DOMAIN items |-> ArgsOfPart(items[k])]))

(* Bytes 0 to 3 hold q, 4 to 11 hold p with room behind it, 12 and 13      *)
(* nothing that is touched.                                                *)
QAt == 0
PAt == 4
PairMemory(p, q) ==
    [a \in 0 .. 13 |->
        IF a \in QAt .. QAt + Len(q) - 1 THEN q[a - QAt + 1]
        ELSE IF a = QAt + Len(q) THEN 0
        ELSE IF a \in PAt .. PAt + Len(p) - 1 THEN p[a - PAt + 1]
        ELSE IF a = PAt + Len(p) THEN 0
        ELSE 55]

StringAt0(s) == [a \in 0 .. Len(s) |-> IF a = Len(s) THEN 0 ELSE s[a + 1]]

-----------------------------------------------------------------------------
StabBinsearch ==
    \E q \in Searches :
        Calls("stab_binsearch", q, stab_binsearch(q.stabs, q.left, q.right, "FUN", q.addr))

DebuginfoEip ==
    \E q \in Lookups : Calls("debuginfo_eip", q, debuginfo_eip(q.stabs, q.addr))

Printf ==
    \E q \in Formats :
        LET text == TextOf(q.items)
        IN  Calls("printf", q, [text     |-> text,
                                snprintf |-> vsnprintf(q.n, text),
                                user     |-> vcprintf(text),
                                kernel   |-> kern_vcprintf(text)])

(* Byte a of the memory holds a, so that each shows where it came from. *)
Memmove ==
    \E q \in Copies :
        LET mem == [a \in 0 .. CopyRoom - 1 |-> a]
        IN  Calls("memmove", q, [move |-> memmove(mem, q.d, q.s, q.n),
                                 set  |-> memset(mem, q.d, 256 + q.s, q.n)])

StringCall ==
    \E q \in Pairs :
        LET mem == PairMemory(q.p, q.q)
        IN  Calls("string", q,
                  [len  |-> strnlen(mem, PAt, q.n),
                   cpy  |-> strcpy(mem, PAt, QAt),
                   cat  |-> strcat(mem, PAt, QAt),
                   ncpy |-> strncpy(mem, PAt, QAt, q.n),
                   lcpy |-> strlcpy(mem, PAt, QAt, q.n),
                   cmp  |-> strcmp(mem, PAt, QAt),
                   ncmp |-> strncmp(mem, PAt, QAt, q.n),
                   mcmp |-> memcmp(mem, PAt, QAt, q.n),
                   chr  |-> strchr(mem, PAt, 97),
                   mem  |-> memfind(mem, PAt, 97, q.n)])

Strtol ==
    \E q \in Numerals : Calls("strtol", q, strtol(StringAt0(q.s), 0, q.base))

Return == job # Idle /\ job' = Idle

LibNext ==
    \/ /\ job = Idle
       /\ StabBinsearch \/ DebuginfoEip \/ Printf \/ Memmove \/ StringCall \/ Strtol
    \/ Return

LibSpec == LibInit /\ [][LibNext]_job

-----------------------------------------------------------------------------
(* stab_binsearch() finds, among entries of a type in the order of their   *)
(* addresses and with others in between, the last that starts at or before *)
(* addr, and where the next one begins.  In two cases the code does        *)
(* something else than its comment says (StabSearchBrackets), and this     *)
(* says what: from an entry that starts at addr the search may go on to    *)
(* entries that follow one address apart, for `addr++' makes it look for   *)
(* the next address; and when all start after addr, the result is the      *)
(* entries before the first of them, or, if there are none, not an empty   *)
(* stretch but the entry before the part that is searched.                 *)
StabSearchExact ==
    job.call = "stab_binsearch" =>
        LET q == job.q
            type == "FUN"
            all == OfType(q.stabs, q.left, q.right, type)
            At(a) == Containing(q.stabs, q.left, q.right, type, a)
        IN  IF At(q.addr).left # NoEntry
            THEN \E k \in RunFrom(q.stabs, q.left, q.right, type, q.addr) :
                     job.r = At(q.addr + k)
            ELSE IF all = {}
            THEN job.r = [left |-> q.left, right |-> q.left - 1]
            ELSE LET before == Min(all) - 1
                 IN  job.r = [left |-> Min({q.left, before}), right |-> before]

(* The comment on stab_binsearch() (kdebug.c:39-43): *region_left is the   *)
(* entry that contains addr, *region_right is just before the next, and    *)
(* *region_left > *region_right if no entry contains addr.  The code does  *)
(* not keep to it in the two cases of StabSearchExact.                     *)
StabSearchBrackets ==
    job.call = "stab_binsearch" =>
        LET q  == job.q
            at == Containing(q.stabs, q.left, q.right, "FUN", q.addr)
        IN  IF at.left # NoEntry THEN job.r = at ELSE job.r.left > job.r.right

(* The line entries of the function whose entry is fn. *)
Statements(stabs, fn) ==
    {m \in Entries(stabs) :
        /\ m > fn /\ stabs[m].n_type = "SLINE"
        /\ \A k \in fn + 1 .. m : stabs[k].n_type \notin {"FUN", "SO"}}

(* A backtrace names, for an instruction of a function, that function, as  *)
(* many arguments as it has, and the file that the instruction came from,  *)
(* however many functions, files and other entries the table holds, and    *)
(* nothing for an address outside of every file.                           *)
FunctionFound ==
    job.call = "debuginfo_eip" =>
        LET stabs == job.q.stabs
            addr  == job.q.addr
            last  == Cardinality(Entries(stabs)) - 1
            fn    == Containing(stabs, 0, last, "FUN", addr).left
            own   == Statements(stabs, fn)
            at    == Max({m \in own : stabs[m].n_value <= addr - stabs[fn].n_value})
            params == {m \in fn + 1 .. Min(own) - 1 : stabs[m].n_type = "PSYM"}
        IN  IF Containing(stabs, 0, last, "SO", addr).left \in {NoEntry, last}
            THEN job.r.r = -1
            ELSE /\ job.r.r = 0
                 /\ job.r.fn = fn
                 /\ job.r.narg = Cardinality(params)
                 /\ job.r.file = Max({m \in 0 .. at : stabs[m].n_type \in {"SO", "SOL"}})

-----------------------------------------------------------------------------
(* The digits of n by powers of the base. *)
Numeral(n, base) ==
    LET len == CHOOSE k \in 1 .. LongBits : n < base ^ k /\ (k = 1 \/ n >= base ^ (k - 1))
    IN  [j \in 1 .. len |-> Digit((n \div base ^ (len - j)) % base)]

Padded(text, c, width) == Times(c, width - Len(text)) \o text

Bases == [d |-> 10, u |-> 10, o |-> 8, x |-> 16, p |-> 16]

(* What a part should put out. *)
Expected(i) ==
    LET size == IF i.longs >= 2 THEN 2 ^ LongBits ELSE 2 ^ IntBits
        u    == i.arg % size
        n    == IF u >= size \div 2 THEN u - size ELSE u
        Digits(m) == Padded(Numeral(m, Bases[i.ch]), i.pad, i.width)
        most == IF i.precision < 0 \/ i.precision > Len(i.arg) THEN Len(i.arg) ELSE i.precision
        text == [k \in 1 .. most |-> Shown(i.arg[k], i.alt)]
        err  == IF i.arg < 0 THEN -i.arg ELSE i.arg
        gap  == Times(IF i.pad = "-" THEN " " ELSE i.pad, i.width - most)
    IN  CASE i.kind = "char"    -> <<i.ch>>
          [] i.kind = "percent" -> <<"%">>
          [] i.kind = "unknown" -> <<"%">> \o Numeral(i.width, 10) \o <<i.ch>>
          [] i.kind = "convert" /\ i.ch = "s" -> IF i.pad = "-" THEN text \o gap ELSE gap \o text
          [] i.kind = "convert" /\ i.ch = "c" -> <<i.arg>>
          [] i.kind = "convert" /\ i.ch = "e" ->
                IF err \in DOMAIN ErrorTexts THEN <<ErrorTexts[err]>>
                ELSE <<"e", "r", "r", "o", "r", " ">> \o Numeral(err, 10)
          [] i.kind = "convert" /\ i.ch = "d" -> IF n < 0 THEN <<"-">> \o Digits(-n) ELSE Digits(n)
          [] i.kind = "convert" /\ i.ch = "p" -> <<"0", "x">> \o Digits(i.arg % 2 ^ IntBits)
          [] OTHER -> Digits(u)

(* A format puts out its parts one after the other, each conversion with   *)
(* its own argument, numbers with all their digits and padded to their     *)
(* width.  (Two peculiarities are the code's: a sign is not counted, and   *)
(* the flag '-' pads a number with dashes on its left, where its comment   *)
(* says something else, DashPadsRight.)  snprintf() keeps what fits before *)
(* a NUL, touches nothing behind it and returns the whole length; a        *)
(* program's cprintf() sends all of it, once, in order, in pieces no       *)
(* longer than its buffer.                                                 *)
FormatExact ==
    job.call = "printf" =>
        LET q    == job.q
            want == FlattenSeq([k \in DOMAIN q.items |-> Expected(q.items[k])])
            fits == IF Len(want) < q.n THEN Len(want) ELSE q.n - 1
            sent == job.r.user.sent
        IN  /\ job.r.text = want
            /\ job.r.snprintf =
                   IF q.n < 1 THEN [buf |-> <<>>, r |-> -E_INVAL]
                   ELSE [buf |-> SubSeq(want, 1, fits) \o <<"NUL">>
                                     \o Times(Untouched, q.n - fits - 1),
                         r   |-> Len(want)]
            /\ FlattenSeq(sent) = want /\ job.r.user.r = Len(want)
            /\ \A k \in DOMAIN sent : Len(sent[k]) <= PrintBuf - 1

(* The comment on the flag '-' (printfmt.c:107), `flag to pad on the       *)
(* right': with it a number is what it is without padding, with blanks     *)
(* behind it up to its width.  printnum() knows no right side: it puts     *)
(* the flag itself in front of the digits.                                 *)
DashPadsRight ==
    job.call = "printf" =>
        \A part \in Range(job.q.items) :
            (/\ job.q.items = <<part>>
             /\ part.kind = "convert"
             /\ part.ch \in DOMAIN Bases
             /\ part.pad = "-")
            => LET plain == Expected([part EXCEPT !.pad = " ", !.width = -1])
               IN  job.r.text = plain \o Times(" ", part.width - Len(plain))

-----------------------------------------------------------------------------
(* The C string at p in mem. *)
CString(mem, p) ==
    LET n == Min({a \in DOMAIN mem : a >= p /\ mem[a] = 0}) - p
    IN  [k \in 1 .. n |-> mem[p + k - 1]]

Prefix(x, n) == SubSeq(x, 1, IF n < Len(x) THEN n ELSE Len(x))
Same(mem, new, but) == \A a \in DOMAIN mem \ but : new[a] = mem[a]

(* The order of a dictionary, and whether a difference has its sign. *)
Before(x, y) ==
    \E k \in 0 .. Len(x) :
        /\ k < Len(y)
        /\ SubSeq(x, 1, k) = SubSeq(y, 1, k)
        /\ k = Len(x) \/ x[k + 1] < y[k + 1]
Compares(r, x, y) ==
    /\ r < 0 <=> Before(x, y)
    /\ r > 0 <=> Before(y, x)

(* memmove() leaves at the destination what was at the source before,      *)
(* whatever overlaps and whether it moves words or bytes.                  *)
MemmoveExact ==
    job.call = "memmove" =>
        LET q == job.q
            Within(a) == a \in q.d .. q.d + q.n - 1
        IN  \A a \in 0 .. CopyRoom - 1 :
                /\ job.r.move[a] = IF Within(a) THEN q.s + (a - q.d) ELSE a
                /\ job.r.set[a] = IF Within(a) THEN q.s ELSE a

(* The string functions do to memory what they do to strings, keep to the  *)
(* size they are given and compare bytes as unsigned numbers.              *)
StringCallsExact ==
    job.call = "string" =>
        LET p == job.q.p  q == job.q.q  n == job.q.n  r == job.r
            mem == PairMemory(p, q)
            Bytes(x, at) == [k \in 1 .. n |-> mem[at + k - 1]]
        IN  /\ r.len = Len(Prefix(p, n))
            /\ CString(r.cpy, PAt) = q     /\ Same(mem, r.cpy, PAt .. PAt + Len(q))
            /\ CString(r.cat, PAt) = p \o q /\ Same(mem, r.cat, PAt .. PAt + Len(p \o q))
            /\ Same(mem, r.ncpy, PAt .. PAt + n - 1)
            /\ [k \in 1 .. n |-> r.ncpy[PAt + k - 1]]
                  = Prefix(q, n) \o [k \in 1 .. n - Len(Prefix(q, n)) |-> 0]
            /\ Same(mem, r.lcpy.mem, PAt .. PAt + n - 1)
            /\ n > 0 => /\ CString(r.lcpy.mem, PAt) = Prefix(q, n - 1)
                        /\ r.lcpy.n = Len(Prefix(q, n - 1))
            /\ Compares(r.cmp, p, q)
            /\ Compares(r.ncmp, Prefix(p, n), Prefix(q, n))
            /\ Compares(r.mcmp, Bytes(p, PAt), Bytes(q, QAt))
            /\ IF \E k \in DOMAIN p : p[k] = 97
               THEN /\ mem[r.chr] = 97 /\ r.chr \in PAt .. PAt + Len(p) - 1
                    /\ \A a \in PAt .. r.chr - 1 : mem[a] # 97
               ELSE r.chr = NoPtr
            /\ r.mem \in PAt .. PAt + n
            /\ r.mem = PAt + n \/ mem[r.mem] = 97
            /\ \A a \in PAt .. r.mem - 1 : mem[a] # 97

(* strtol() reads the longest numeral at the start of the string: blanks,  *)
(* a sign, the prefix of the base and digits.                              *)
StrtolExact ==
    job.call = "strtol" =>
        LET s == job.q.s
            Chars(from, n, set) == \A k \in from + 1 .. from + n : k <= Len(s) /\ s[k] \in set
            blanks == Max({n \in 0 .. Len(s) : Chars(0, n, {BLANK, TAB})})
            sign   == IF Chars(blanks, 1, {PLUS, MINUS}) THEN 1 ELSE 0
            start  == blanks + sign
            Zero   == Chars(start, 1, {48})
            hex    == Zero /\ Chars(start + 1, 1, {120}) /\ job.q.base \in {0, 16}
            octal  == Zero /\ ~hex /\ job.q.base = 0
            base   == IF hex THEN 16 ELSE IF octal THEN 8 ELSE IF job.q.base = 0 THEN 10 ELSE job.q.base
            prefix == start + (IF hex THEN 2 ELSE IF octal THEN 1 ELSE 0)
            count  == Max({n \in 0 .. Len(s) - prefix : Chars(prefix, n, {c \in 0 .. 255 : dig(c) < base})})
            value  == SumFunction([k \in 1 .. count |-> dig(s[prefix + k]) * base ^ (count - k)])
        IN  /\ job.r.endptr = prefix + count
            /\ job.r.val = IF sign = 1 /\ s[start] = MINUS THEN -value ELSE value

StringsExact == StringCallsExact /\ StrtolExact
=============================================================================
