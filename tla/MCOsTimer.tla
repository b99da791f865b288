----------------------------- MODULE MCOsTimer -----------------------------
(***************************************************************************)
(* Two registered timers and one that is not, a tick counter that wraps    *)
(* around after a few periods, and a scan that may be late.                *)
(***************************************************************************)
EXTENDS OsTimer
=============================================================================
