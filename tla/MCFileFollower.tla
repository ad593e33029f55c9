-------------------------- MODULE MCFileFollower --------------------------
(***************************************************************************)
(* Small instances of FileFollower: two follower objects, a log that is    *)
(* rotated once.                                                           *)
(***************************************************************************)
EXTENDS FileFollower, TLC

Lines21 == <<2, 1>>
Lines31 == <<3, 1>>

MCSymmetry == Permutations(Tids)
===========================================================================
