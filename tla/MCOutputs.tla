----------------------------- MODULE MCOutputs -----------------------------
(* The alarm thresholds have the values of SYS_DEF_PARA, with dead bands   *)
(* wide enough to hold a reading.                                          *)
EXTENDS Outputs

MCOn   == [a \in Alarms |-> IF a = "target" THEN 1000 ELSE IF a = "internal" THEN 65 ELSE 90]
MCDead == [a \in Alarms |-> IF a = "target" THEN 20 ELSE 5]
=============================================================================
