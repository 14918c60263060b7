------------------------------- MODULE MCSaga -------------------------------
(***************************************************************************)
(* Constants for model checking Saga.                                      *)
(***************************************************************************)
EXTENDS Saga

CONSTANT o1
=============================================================================
