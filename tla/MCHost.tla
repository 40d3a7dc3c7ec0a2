------------------------------- MODULE MCHost -------------------------------
(***************************************************************************)
(* A pipe of one chunk and children that read and write three; three       *)
(* versions of a file, the second shorter; a service, one that depends on  *)
(* it and one on that; a scenario of five calls.                           *)
(***************************************************************************)
EXTENDS Host

MCLengths == << 3, 2, 3 >>
MCChain   == << "name", "dependent", "dependent of that" >>
=============================================================================
