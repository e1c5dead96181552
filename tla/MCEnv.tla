------------------------------- MODULE MCEnv -------------------------------
(***************************************************************************)
(* Two environments and two programs: one of a page of code, whose stack   *)
(* has a page table of its own, and one that is only a stack.  Page 0 is   *)
(* reserved, page 1 is the kernel's directory, one page becomes its page   *)
(* table, and the others are free.                                         *)
(***************************************************************************)
EXTENDS Env

MCStackVA == <<1, 1>>

Code == << <<0, 0>> >>

(* Room for two stack-only environments at a time; for one with a page of  *)
(* code; and for less and less, until no page is left.                     *)
MCMachines ==
    {[taken |-> 0, programs |-> {<<>>}, tlb |-> 0, dead |-> 1],
     [taken |-> 1, programs |-> {<<>>, <<Code>>}, tlb |-> 0, dead |-> IdMax]}
    \cup {[taken |-> n, programs |-> {<<>>, <<Code>>}, tlb |-> 1, dead |-> IdMax] : n \in 2 .. 6}
=============================================================================
