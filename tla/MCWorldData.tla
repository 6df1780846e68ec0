---------------------------- MODULE MCWorldData -----------------------------
(* Two command slots: the command of a dead jobd, and that of the next.    *)
EXTENDS WorldData, TLC

CONSTANTS c1, c2

Symmetric == Permutations(Cmd)
=============================================================================
