----------------------------- MODULE MCHarvester -----------------------------
(***************************************************************************)
(* Instances of Harvester for TLC.                                         *)
(***************************************************************************)
EXTENDS Harvester

CONSTANTS c1, c2, s1, t1, t2, t3, p1, p2

One == t1 :> {p1}

\* Topics for two platforms, for one and for none.
TwoOneNone == (t1 :> {p1, p2}) @@ (t2 :> {p1}) @@ (t3 :> {})

CoreSymmetry == Permutations(Cores)

\* What is proposed: the topic for two platforms, by a run or by a scout of no
\* run, or the two others, by such a scout.
FewTopics ==
    LET present == {t \in Topics : topic'[t] # "absent"}
    IN  \/ present \subseteq {t1}
        \/ present \subseteq {t2, t3} /\ run'.status = "absent"

\* HFairSpec with so many topics; it leaves alone what fairness is about.
MCFairSpec == HInit /\ [][Steady /\ FewTopics]_allVars /\ HFairness
===============================================================================
