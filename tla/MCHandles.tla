------------------------------ MODULE MCHandles -----------------------------
EXTENDS HandlesProperties, TLC

(* All of them; all but stdin or stdout, whose number open() then gets.    *)
MCInherited == {{0, 1, 2}, {1, 2}, {0, 2}}

MCSymmetry == Permutations(Ins) \cup Permutations(Outs) \cup Permutations(Names)
=============================================================================
