------------------------------ MODULE MCEthInput ------------------------------
(***************************************************************************)
(* Small instances of EthInput.                                            *)
(***************************************************************************)
EXTENDS EthInput
===============================================================================
