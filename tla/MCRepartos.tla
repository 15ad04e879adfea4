----------------------------- MODULE MCRepartos -----------------------------
(* Three sockets, so that one can be freed from a callback of another while *)
(* a third keeps its position; three logs, for the same, and two FILEs, for *)
(* the third log to wait until one is closed; and four items, so that there *)
(* are two holes with a pointer between and after them.  The logs and three *)
(* of the items have the names of the sockets: nothing compares them, and   *)
(* one symmetry does for all.                                               *)
EXTENDS Repartos, TLC

Simetria == Permutations(Sockets)
=============================================================================
