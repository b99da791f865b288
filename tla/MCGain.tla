------------------------------- MODULE MCGain -------------------------------
(* The wide band channel sees twice the light of the narrow one; the       *)
(* levels cover every range of both, the gaps between them, and the end    *)
(* of the scale.                                                           *)
EXTENDS Gain

MCSens == [c \in Ch |-> IF c = "WB" THEN 2 ELSE 1]
=============================================================================
