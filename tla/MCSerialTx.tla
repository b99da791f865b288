----------------------------- MODULE MCSerialTx -----------------------------
(* Instances of SerialTx: the buffer has five bytes instead of 768. *)
EXTENDS SerialTx

LensFit == 1..TxCap
=============================================================================
