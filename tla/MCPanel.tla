------------------------------ MODULE MCPanel ------------------------------
(* A small panel: a menu is followed by a shorter one, as in ui.c (6 pages *)
(* and 3), and every kind of page that behaves differently occurs ("wrap"  *)
(* as "mode", "clamp" as "baud").                                          *)
EXTENDS Panel

MCMenu == << <<"info">>, <<"mode", "factory">>, <<"baud">>, <<"address">> >>
=============================================================================
