---------------------------- MODULE MCLiveTail ----------------------------
(***************************************************************************)
(* Small instances of LiveTail: two requests under way, a few lines.       *)
(***************************************************************************)
EXTENDS LiveTail, TLC

CONSTANTS p1, p2

MCSymmetry == Permutations(Polls)
===========================================================================
