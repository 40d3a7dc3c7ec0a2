----------------------------- MODULE MCStepWork -----------------------------
(***************************************************************************)
(* For TLC. Wait steps whose timeouts are shorter than, equal to, and not  *)
(* a multiple of the interval; probes that may outlast the rest of the     *)
(* timeout. Two resource steps on one or two settings of three values:     *)
(* they want the same or the opposite, never the third, with a lock or     *)
(* without.                                                                *)
(***************************************************************************)
EXTENDS StepWork

CONSTANTS s1, s2

MCJobs == [mode : Modes, interval : 1 .. 3, timeout : {1, 2, 4, 5},
           fail_on_error : BOOLEAN]

MCSettings == {s1, s2}
MCPlays ==
  [mode : Modes, setting : {<<s1, s1>>, <<s1, s2>>}, wants : {<<1, 1>>, <<1, 2>>},
   locked : BOOLEAN]
=============================================================================
