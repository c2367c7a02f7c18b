---------------------------- MODULE MCContentRun ----------------------------
(***************************************************************************)
(* Instances of ContentRun for TLC.                                        *)
(***************************************************************************)
EXTENDS ContentRun, TLC

CONSTANTS c1, c2, s1, s2, t1, t2, t3, p1, p2

One == t1 :> {p1}

\* Topics for no platform, for one and for two.
NoneOneTwo == (t1 :> {p1}) @@ (t2 :> {p1, p2}) @@ (t3 :> {})

CoreAndSourceSymmetry == Permutations(Cores) \cup Permutations(Sources)
=============================================================================
