------------------------------- MODULE MCEthArp --------------------------------
(***************************************************************************)
(* A small instance of EthArp.                                             *)
(***************************************************************************)
EXTENDS EthArp
===============================================================================
