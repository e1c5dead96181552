------------------------------- MODULE Mutex -------------------------------
(***************************************************************************)
(* What a spin lock promises: at most one processor owns it, and only its  *)
(* owner gives it up.                                                      *)
(***************************************************************************)
CONSTANTS CPU

VARIABLE owners     \* the processors that own the lock

Init == owners = {}

Acquire(c) == owners = {} /\ owners' = {c}

Release(c) == owners = {c} /\ owners' = {}

Next == \E c \in CPU : Acquire(c) \/ Release(c)

Spec == Init /\ [][Next]_owners
=============================================================================
