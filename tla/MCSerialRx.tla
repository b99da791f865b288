----------------------------- MODULE MCSerialRx -----------------------------
(* An instance of SerialRx: the buffer has five bytes instead of 1056.  What *)
(* arrives is one byte of noise, a packet, or as much as the buffer holds.   *)
EXTENDS SerialRx

LensAll == {1, 2, 3, RxCap}
=============================================================================
