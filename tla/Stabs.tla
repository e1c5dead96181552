------------------------------- MODULE Stabs -------------------------------
(***************************************************************************)
(* stab_binsearch() and debuginfo_eip() of project3/kern/kdebug.c, which   *)
(* find the function and the line of an instruction for a backtrace.       *)
(*                                                                         *)
(* A table is a function from 0 .. n-1 to entries [n_type, n_value,        *)
(* n_desc].  Names are left out: an entry stands for the name it holds.    *)
(***************************************************************************)
EXTENDS Integers, Sequences, FiniteSetsExt

Entries(stabs) == DOMAIN stabs

-----------------------------------------------------------------------------
(* stab_binsearch() *)

(* The variables of its loop: the bounds l and r, *region_left and         *)
(* *region_right, any_matches, and addr, which the loop may increase.      *)
Loop(left, right) ==
    [l : left .. right + 1, r : left - 1 .. right, left : Int, right : Int,
     any : BOOLEAN, addr : Nat]

(* A faulty turn that leaves *region_right at m. *)
SearchTurn_KeepsM(stabs, type, s) ==
    LET true_m == (s.l + s.r) \div 2
        found  == {m \in s.l .. true_m : stabs[m].n_type = type}
        m      == Max(found)
    IN  IF found = {} THEN [s EXCEPT !.l = true_m + 1]
        ELSE IF stabs[m].n_value < s.addr
        THEN [s EXCEPT !.any = TRUE, !.left = m, !.l = true_m + 1]
        ELSE IF stabs[m].n_value > s.addr
        THEN [s EXCEPT !.any = TRUE, !.right = m, !.r = m - 1]
        ELSE [s EXCEPT !.any = TRUE, !.left = m, !.l = m, !.addr = @ + 1]

(* One turn of its first loop. *)
SearchTurn(stabs, type, s) ==
    LET true_m == (s.l + s.r) \div 2
        found  == {m \in s.l .. true_m : stabs[m].n_type = type}
        m      == Max(found)
    IN  IF found = {} THEN [s EXCEPT !.l = true_m + 1]
        ELSE IF stabs[m].n_value < s.addr
        THEN [s EXCEPT !.any = TRUE, !.left = m, !.l = true_m + 1]
        ELSE IF stabs[m].n_value > s.addr
        THEN [s EXCEPT !.any = TRUE, !.right = m - 1, !.r = m - 1]
        ELSE [s EXCEPT !.any = TRUE, !.left = m, !.l = m, !.addr = @ + 1]

(* The loop. *)
SearchLoop(stabs, left, right, type, addr) ==
    LET run[s \in Loop(left, right)] == IF s.l > s.r THEN s ELSE run[SearchTurn(stabs, type, s)]
    IN  run[[l |-> left, r |-> right, left |-> left, right |-> right,
             any |-> FALSE, addr |-> addr]]

(* What it leaves in *region_left and *region_right. *)
stab_binsearch(stabs, left, right, type, addr) ==
    LET s == SearchLoop(stabs, left, right, type, addr)
        typed == {m \in s.left + 1 .. s.right : stabs[m].n_type = type}
    IN  IF ~s.any THEN [left |-> s.left, right |-> s.left - 1]
        ELSE [left  |-> IF typed = {} THEN Min({s.left, s.right}) ELSE Max(typed),
              right |-> s.right]

-----------------------------------------------------------------------------
(* debuginfo_eip() for a table that passed the checks at its start: .r is  *)
(* what it returns, .fn the entry of the function (NoEntry without one),   *)
(* .file the entry that names the source file.                             *)
NoEntry == -1

(* A faulty count that begins at the function's own entry. *)
ArgsOf_FromSelf(stabs, fun) ==
    Cardinality({j \in fun.left .. fun.right - 1 :
                     \A q \in fun.left .. j : stabs[q].n_type = "PSYM"})

(* The parameters that follow a function's entry. *)
ArgsOf(stabs, fun) ==
    Cardinality({j \in fun.left + 1 .. fun.right - 1 :
                     \A q \in fun.left + 1 .. j : stabs[q].n_type = "PSYM"})

debuginfo_eip(stabs, addr) ==
    LET last == Cardinality(Entries(stabs)) - 1
        file == stab_binsearch(stabs, 0, last, "SO", addr)
        fun  == stab_binsearch(stabs, file.left, file.right, "FUN", addr)
        hasFun == fun.left <= fun.right
        line == IF hasFun
                THEN stab_binsearch(stabs, fun.left, fun.right, "SLINE",
                                    addr - stabs[fun.left].n_value)
                ELSE stab_binsearch(stabs, file.left, file.right, "SLINE", addr)
        named == {m \in file.left .. line.left :
                     \/ stabs[m].n_type = "SOL"
                     \/ stabs[m].n_type = "SO" /\ stabs[m].n_value # 0}
        found == [r    |-> 0,
                  fn   |-> IF hasFun THEN fun.left ELSE NoEntry,
                  line |-> stabs[line.right].n_desc,
                  file |-> IF named = {} THEN NoEntry ELSE Max(named),
                  narg |-> IF fun.left < fun.right THEN ArgsOf(stabs, fun) ELSE 0]
    IN  IF file.left = 0 \/ line.left > line.right THEN [r |-> -1] ELSE found

-----------------------------------------------------------------------------
(* The entries of a type in a part of a table. *)
OfType(stabs, left, right, type) == {m \in left .. right : stabs[m].n_type = type}

(* The entry that contains addr is the last of those that start at or      *)
(* before it; the stretch it covers ends before the next of its type.      *)
Containing(stabs, left, right, type, addr) ==
    LET before == {m \in OfType(stabs, left, right, type) : stabs[m].n_value <= addr}
        after  == OfType(stabs, left, right, type) \ before
    IN  IF before = {}
        THEN [left |-> NoEntry, right |-> IF after = {} THEN left - 1 ELSE Min(after) - 1]
        ELSE [left |-> Max(before), right |-> IF after = {} THEN right ELSE Min(after) - 1]

(* How far entries follow addr one address apart, the first at addr. *)
RunFrom(stabs, left, right, type, addr) ==
    LET starts == {stabs[m].n_value : m \in OfType(stabs, left, right, type)}
    IN  {k \in 0 .. Cardinality(starts) : k = 0 \/ addr .. addr + k \subseteq starts}
=============================================================================
