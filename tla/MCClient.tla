------------------------------ MODULE MCClient ------------------------------
(***************************************************************************)
(* The client for TLC: the configurations give the constants, the one      *)
(* character lines and an empty pseudo, so that a line is two packets long *)
(* (or, when the byte after the pseudo is 0, empty).                       *)
(***************************************************************************)
EXTENDS ClientInvariant
=============================================================================
