------------------------------ MODULE MCSecrets ------------------------------
(* Secrets for TLC: two passwords and three values, one of them inside     *)
(* another and one too short to mask.                                      *)
EXTENDS Secrets

MCValues == {<< "a", "b", "c", "d", "e" >>, << "b", "c", "d", "e" >>, << "x" >>}
=============================================================================
