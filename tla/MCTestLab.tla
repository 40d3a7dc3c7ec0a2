----------------------------- MODULE MCTestLab -----------------------------
(***************************************************************************)
(* Small selections for TLC: two grouped tests between two others, of two  *)
(* kinds and more groups than workers; every part a test can declare; two  *)
(* scenarios; with and without --keep.                                     *)
(***************************************************************************)
EXTENDS TestLab

T(kind, label, parts) == [kind |-> kind, label |-> label, parts |-> parts]

Select(tests, scenarios, keep) ==
  [tests |-> tests, scenarios |-> scenarios, cap |-> [k \in Kinds |-> 1], keep |-> keep]

MCSelections ==
  {Select(<<T("container", "g", {"gather"}), T("vm", Alone, {"verify"}),
            T("container", "g", {}), T("container", Alone, {"setup"})>>, 0, FALSE),
   Select(<<T("vm", Alone, Declared)>>, 2, FALSE),
   Select(<<T("container", Alone, {"steps"}), T("vm", Alone, {})>>, 1, TRUE),
   [Select(<<T("vm", Alone, {}), T("vm", Alone, {}), T("vm", Alone, {})>>, 1, FALSE)
      EXCEPT !.cap = [k \in Kinds |-> 2]]}
=============================================================================
