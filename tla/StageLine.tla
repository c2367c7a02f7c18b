------------------------------ MODULE StageLine ------------------------------
(***************************************************************************)
(* What a production run promises whoever reads its history: a line of     *)
(* stages, each with an input and an output snapshot.  Snapshots are       *)
(* written once, stages close in order, a stage works from exactly what    *)
(* the stage before it put out, and a run that has ended never changes.    *)
(* A step may close any number of stages.                                  *)
(***************************************************************************)
EXTENDS Integers

CONSTANTS
    Node,    \* the stages
    Index,   \* position of each stage in the line, from 0
    Blank    \* a snapshot not yet taken

VARIABLES phase, input, output

vars == <<phase, input, output>>

Init ==
    /\ phase = "absent"
    /\ input = [n \in Node |-> Blank]
    /\ output = [n \in Node |-> Blank]

Before(m, n) == Index[n] = Index[m] + 1

WrittenOnce ==
    \A n \in Node : /\ input[n] # Blank => input'[n] = input[n]
                    /\ output[n] # Blank => output'[n] = output[n]

\* The conditions on a line with the given snapshots.
InOrder(in, out) ==
    \A m, n \in Node : Before(m, n) =>
        /\ out[n] # Blank => out[m] # Blank
        /\ in[n] # Blank => in[n] = out[m]

Create ==
    /\ phase = "absent"
    /\ phase' \in {"active", "ended"}
    /\ UNCHANGED <<input, output>>

Work ==
    /\ phase = "active"
    /\ phase' \in {"active", "ended"}
    /\ WrittenOnce
    /\ InOrder(input', output')

Next == Create \/ Work

Spec == Init /\ [][Next]_vars
===============================================================================
