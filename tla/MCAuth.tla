-------------------------------- MODULE MCAuth ------------------------------
(***************************************************************************)
(* Constants for model checking AuthService: one user, whose tokens are    *)
(* the only ones that can collide.                                         *)
(***************************************************************************)
EXTENDS AuthService, TLC

CONSTANTS u1, r1, r2

InFlight == Permutations({r1, r2})
=============================================================================
