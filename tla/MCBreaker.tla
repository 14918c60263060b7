----------------------------- MODULE MCBreaker ------------------------------
(***************************************************************************)
(* Constants for model checking the breaker among its callers              *)
(* (ResilientCall).                                                        *)
(***************************************************************************)
EXTENDS ResilientCall

CONSTANTS c1, c2
=============================================================================
