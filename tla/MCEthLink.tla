------------------------------ MODULE MCEthLink -------------------------------
(***************************************************************************)
(* Small instances of EthLink.                                             *)
(***************************************************************************)
EXTENDS EthLink
===============================================================================
