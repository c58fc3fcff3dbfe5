------------------------------ MODULE MCRs485Bus ------------------------------
(***************************************************************************)
(* Small instances of Rs485Bus.                                            *)
(***************************************************************************)
EXTENDS Rs485Bus
===============================================================================
