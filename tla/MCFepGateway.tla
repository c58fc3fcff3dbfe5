----------------------------- MODULE MCFepGateway -----------------------------
(***************************************************************************)
(* Small instances of FepGateway: the constants are set in the             *)
(* configurations.                                                         *)
(***************************************************************************)
EXTENDS FepGateway
===============================================================================
