------------------------------ MODULE MCUpgrade ------------------------------
(* Instances of Upgrade: the image the device was built with, and new ones. *)
EXTENDS Upgrade

CONSTANTS old, new

Small == [i \in Image |-> IF i = new THEN 2 ELSE 1]
OneVersion == [i \in Image |-> 1]
=============================================================================
