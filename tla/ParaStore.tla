----------------------------- MODULE ParaStore -----------------------------
(***************************************************************************)
(* What the parameter module promises its users, without areas, images and *)
(* CRC words: a device that is running or not, the parameters it runs on   *)
(* and, for each group, the contents with which it may come up again.      *)
(* These are the content that was saved last and whatever the group was    *)
(* given since.  A completed save narrows them down to one; losing power   *)
(* changes nothing about them.                                             *)
(***************************************************************************)
CONSTANTS Group, Value

VARIABLES up,   \* the device is running
          ram,  \* the parameters it runs on
          acc   \* the contents with which it may come up again

storeVars == <<up, ram, acc>>

Init ==
    /\ up = FALSE /\ ram \in [Group -> Value]
    /\ \E f \in [Group -> Value] : acc = [g \in Group |-> {f[g]}]

(* The device starts with one of the contents of each group. *)
Start ==
    /\ ~up /\ up' = TRUE
    /\ ram' \in [Group -> Value] /\ \A g \in Group : ram'[g] \in acc[g]
    /\ UNCHANGED acc

(* Groups are given new contents, which are not yet certain to survive. *)
Assign ==
    /\ up /\ ram' \in [Group -> Value]
    /\ acc' = [g \in Group |-> acc[g] \cup {ram'[g]}]
    /\ UNCHANGED up

(* Some groups have been saved. *)
Saved ==
    /\ up
    /\ \E done \in SUBSET Group :
         acc' = [g \in Group |-> IF g \in done THEN {ram[g]} ELSE acc[g]]
    /\ UNCHANGED <<up, ram>>

Stop ==
    /\ up /\ up' = FALSE
    /\ ram' \in [Group -> Value]
    /\ UNCHANGED acc

Next == Start \/ Assign \/ Saved \/ Stop

Spec == Init /\ [][Next]_storeVars
=============================================================================
