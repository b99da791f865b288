------------------------------ MODULE MCAgent ------------------------------
(* Two tasks and an interrupt handler post two functions to one agent. *)
EXTENDS Agent

CONSTANTS t1, t2, i1, f1, f2

Tasks == {t1, t2}
Isrs == {i1}
Funcs == {f1, f2}
=============================================================================
