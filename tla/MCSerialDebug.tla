---------------------------- MODULE MCSerialDebug -----------------------------
(***************************************************************************)
(* Small instances of SerialDebug.                                         *)
(***************************************************************************)
EXTENDS SerialDebug
===============================================================================
