----------------------------- MODULE MCRecovery -----------------------------
(***************************************************************************)
(* Instances of Recovery for TLC.                                          *)
(***************************************************************************)
EXTENDS Recovery

CONSTANTS d1, d2, d3, d4, d5, d6, s1, s2

TwoSound == {d1, d2}
TwoSlow == {d3, d4}
TwoBroken == {d5, d6}
FewAndFull == {<<d5>>, <<d5, d6>>}
TwoSweepers == {s1, s2}

=============================================================================
