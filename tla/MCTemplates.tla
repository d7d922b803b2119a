---------------------------- MODULE MCTemplates -----------------------------
(* Rules y1 and y2, mockups that fit one of them, and one that fits both.  *)
EXTENDS Templates, TLC

CONSTANTS y1, y2, m1, m2, f1

MCPassOK == {<<y1, m1>>, <<y1, m2>>, <<y2, m2>>}
MCFailOK == {<<y1, f1>>, <<y2, f1>>}

Symm == Permutations(Procs)
=============================================================================
