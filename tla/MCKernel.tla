------------------------------ MODULE MCKernel ------------------------------
(***************************************************************************)
(* Pages of two bytes and four slots a table: 32 addresses.  The programs  *)
(* have a page of code, two pages with a hole between them, two segments   *)
(* in two tables, or only a stack.                                         *)
(***************************************************************************)
EXTENDS Kernel

MCBinaries == { << << <<0, 1>> >> >>,
                << << <<0, 1>> >>, << <<0, 3>> >> >>,
                << << <<0, 3>>, <<1, 0>> >> >>,
                << >> }
MCStackVA == <<1, 1>>
=============================================================================
