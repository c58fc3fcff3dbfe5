------------------------------ MODULE MCEthOutput -----------------------------
(***************************************************************************)
(* Small instances of EthOutput.                                           *)
(***************************************************************************)
EXTENDS EthOutput
===============================================================================
