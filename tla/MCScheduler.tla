----------------------------- MODULE MCScheduler -----------------------------
(***************************************************************************)
(* Instances of Scheduler for TLC.                                         *)
(***************************************************************************)
EXTENDS Scheduler, TLC

CONSTANTS i1, i2, own, plain, t1, t2, old, young

\* One source with an interval of its own, one whose interval is out of bounds.
OwnAndPlain == [s \in Sources |-> IF s = own THEN LeastInterval ELSE MostInterval + 1]

OldAndYoung == [snap \in Snapshots |-> IF snap = old THEN 4 ELSE 5]

InstanceSymmetry == Permutations(Instances)
===============================================================================
