----------------------------- MODULE CharQueue -----------------------------
(***************************************************************************)
(* What the console promises to its readers: characters come out in the    *)
(* order in which they went in, each once.  There is room for Capacity of  *)
(* them; one more and everything that waits is forgotten, the new one      *)
(* included.  A reader gets None only when nothing waits.                  *)
(***************************************************************************)
EXTENDS Naturals, Sequences

CONSTANTS Char, Capacity, None

VARIABLES
    queue,      \* the characters that wait, oldest first
    answer      \* what the last reader got

qvars == <<queue, answer>>

QInit == queue = <<>> /\ answer = None

Put(c) ==
    /\ queue' = IF Len(queue) = Capacity THEN <<>> ELSE Append(queue, c)
    /\ UNCHANGED answer

Get ==
    /\ queue # <<>>
    /\ answer' = Head(queue)
    /\ queue' = Tail(queue)

GetNone ==
    /\ queue = <<>>
    /\ answer' = None
    /\ UNCHANGED queue

QNext == (\E c \in Char : Put(c)) \/ Get \/ GetNone

QSpec == QInit /\ [][QNext]_qvars
=============================================================================
