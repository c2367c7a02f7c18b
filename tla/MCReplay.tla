----------------------------- MODULE MCReplay -----------------------------
(***************************************************************************)
(* Instances of Replay for TLC.                                            *)
(***************************************************************************)
EXTENDS Replay, TLC

CONSTANTS root, first, second, s1, s2, t1, t2

ChildSymmetry == Permutations(Children)
=============================================================================
