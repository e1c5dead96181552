------------------------------- MODULE MCPmap -------------------------------
(***************************************************************************)
(* The page allocator under its callers and the functions that map pages,  *)
(* in one run.  They share no state, so one works at a time while the      *)
(* other stays where it starts.                                            *)
(*                                                                         *)
(* Nine pages: 0 is reserved, 1 is base memory, 2 lies past it, 3 is the   *)
(* I/O hole, 4 the kernel, 5 its page directory, and 6 to 8 are extended   *)
(* memory.  One of the free pages becomes the kernel's page table at boot. *)
(***************************************************************************)
EXTENDS PageAlloc, Pmap

MCMapVAs == {<<0, 0>>, <<0, 1>>, <<1, 0>>}
MCMapPerms == {{"U"}, {"W", "U"}}

MCInit == PoolInit /\ Init

MCNext ==
    \/ Init /\ PoolNext /\ UNCHANGED vars
    \/ PoolInit /\ Next /\ UNCHANGED poolVars

MCSpec == MCInit /\ [][MCNext]_<<poolVars, vars>>
=============================================================================
