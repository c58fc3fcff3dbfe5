------------------------------- MODULE MCFepUdp -------------------------------
(***************************************************************************)
(* A small instance of FepUdp: the constants are set in the configuration. *)
(***************************************************************************)
EXTENDS FepUdp

CONSTANT h1

MCDatagrams == {[from |-> h1, ask |-> TRUE], [from |-> Server, ask |-> FALSE]}
===============================================================================
