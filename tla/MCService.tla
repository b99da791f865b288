----------------------------- MODULE MCService -----------------------------
(* Three sets of parameters: the defaults, and two that differ from them   *)
(* and from each other.                                                    *)
EXTENDS Service
=============================================================================
