---------------------------- MODULE MCV1Output ----------------------------
(* Instances of V1Output for TLC: two commands, of any panel or of the      *)
(* second one only.                                                         *)
EXTENDS V1Output, TLC

CONSTANTS c1, c2

TwoCommands == {c1, c2}
Presses == Permutations(TwoCommands)
BothPanels == {1, 2}
SecondPanel == {2}
=============================================================================
