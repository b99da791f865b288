------------------------------- MODULE MCPara -------------------------------
(***************************************************************************)
(* Two parameter groups with three values, one of which stands for a       *)
(* device address out of range when the dev group holds it.  Power fails   *)
(* anywhere and any number of times with perfect media; up to the first    *)
(* cut write one access to the media may fail instead.                     *)
(***************************************************************************)
EXTENDS Para

CONSTANTS v0, v1, bad

TwoValues == {v0, v1}
ThreeValues == {v0, v1, bad}
OneBadAddr == {bad}
NoBadAddr == {}

(* Beyond these states every property but the type invariant is vacuous;     *)
(* with a failing access, two values are enough.                             *)
Focus ==
    \/ faults = 0 /\ ~forced
    \/ ~cut /\ \A g \in Group : bad \notin acc[g]
=============================================================================
