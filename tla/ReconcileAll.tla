---------------------------- MODULE ReconcileAll ----------------------------
(***************************************************************************)
(* The pass over all active runs that every Core instance makes at every   *)
(* tick (internal/workflow, ReconcileAll): it lists at most                *)
(* maxReconcileRuns active runs, the oldest first, and then reconciles     *)
(* them one after the other, each in a transaction that reads the status   *)
(* afresh.  What a reconciliation does to a run is ContentRun's matter:    *)
(* here a run has a number of stages, each of which waits for its answers. *)
(* A reconciliation may fail: it is logged, its transaction is rolled back *)
(* and the pass goes on, so that the run stays active and keeps its place. *)
(* Once it fails because of a passing trouble; or always, as that of a run *)
(* does whose end the events table refuses (ContentRun, finding 1).        *)
(* The rows of the list are read while the runs are reconciled, so a pass  *)
(* keeps one connection of its instance's pool and takes another for every *)
(* run, beside the requests that take one each.                            *)
(***************************************************************************)
EXTENDS Naturals, Sequences, FiniteSets

CONSTANTS
    Cores,              \* Core instances
    Runs,               \* runs that may be created
    maxReconcileRuns,
    Stages,             \* stages a run goes through before it ends or waits
    Conns,              \* connections in the pool of each instance
    EvaluationsFail     \* whether answers may be such that the end is refused

VARIABLES
    created,   \* runs in the order of created_at
    status,    \* status of each run
    closed,    \* number of stages each run has closed
    answered,  \* runs whose open stage has had all its answers
    refused,   \* runs whose reconciliation fails every time
    batch,     \* what each Core has listed and not yet reconciled
    busy       \* connections of each Core that its requests hold

vars == <<created, status, closed, answered, refused, batch, busy>>

Active == {"queued", "running", "waiting_human_review"}

Init ==
    /\ created = <<>>
    /\ status = [r \in Runs |-> "absent"]
    /\ closed = [r \in Runs |-> 0]
    /\ answered = {}
    /\ refused = {}
    /\ batch = [c \in Cores |-> <<>>]
    /\ busy = [c \in Cores |-> 0]

\* Connections in use: the requests' and the one the list is read from.
Taken(c) == busy[c] + (IF batch[c] = <<>> THEN 0 ELSE 1)

\* Mutant of Return: rows that are never closed.
NeverReturn(c) == busy[c] > Conns /\ UNCHANGED vars

Borrow(c) ==
    /\ Taken(c) < Conns
    /\ busy' = [busy EXCEPT ![c] = @ + 1]
    /\ UNCHANGED <<created, status, closed, answered, refused, batch>>

Return(c) ==
    /\ busy[c] > 0
    /\ busy' = [busy EXCEPT ![c] = @ - 1]
    /\ UNCHANGED <<created, status, closed, answered, refused, batch>>

CreateRun(r) ==
    /\ status[r] = "absent"
    /\ status' = [status EXCEPT ![r] = "queued"]
    /\ created' = Append(created, r)
    /\ UNCHANGED <<closed, answered, refused, batch, busy>>

\* The agents have answered every job of the run's open stage; the answers of
\* the last one may hold a failed evaluation that leads to a refused end.
AnswerStage(r) ==
    /\ status[r] \in {"queued", "running"}
    /\ r \notin answered
    /\ answered' = answered \cup {r}
    /\ \/ UNCHANGED refused
       \/ /\ EvaluationsFail /\ closed[r] + 1 = Stages
          /\ refused' = refused \cup {r}
    /\ UNCHANGED <<created, status, closed, batch, busy>>

Listed ==
    LET IsActive(r) == status[r] \in Active
        active == SelectSeq(created, IsActive)
    IN  IF Len(active) <= maxReconcileRuns THEN active
        ELSE SubSeq(active, 1, maxReconcileRuns)

List(c) ==
    /\ batch[c] = <<>>
    /\ Listed # <<>>
    /\ Taken(c) < Conns
    /\ batch' = [batch EXCEPT ![c] = Listed]
    /\ UNCHANGED <<created, status, closed, answered, refused, busy>>

\* The pass comes to its next run, the connection for it taken and given back.
Takes(c, r) ==
    /\ batch[c] # <<>> /\ Head(batch[c]) = r
    /\ Taken(c) < Conns
    /\ batch' = [batch EXCEPT ![c] = Tail(@)]
    /\ UNCHANGED <<created, refused, busy>>

\* A stage that has been answered is closed; one that has not leaves the run
\* as it is, and so does a status that has changed since the run was listed.
ReconcileRun(c, r) ==
    /\ Takes(c, r)
    /\ \/ /\ status[r] \notin {"queued", "running"}
          /\ UNCHANGED <<status, closed, answered>>
       \/ /\ status[r] \in {"queued", "running"}
          /\ r \notin answered
          /\ status' = [status EXCEPT ![r] = "running"]
          /\ UNCHANGED <<closed, answered>>
       \/ /\ status[r] \in {"queued", "running"}
          /\ r \in answered \ refused
          /\ closed' = [closed EXCEPT ![r] = @ + 1]
          /\ answered' = answered \ {r}
          /\ \E to \in {"running", "waiting_human_review", "ended"} :
                 /\ closed[r] + 1 = Stages <=> to # "running"
                 /\ status' = [status EXCEPT ![r] = to]

\* Mutant of ReconcileFails: the error is returned and ends the pass.
FailureEndsThePass(c, r) ==
    /\ batch[c] # <<>> /\ Head(batch[c]) = r
    /\ Taken(c) < Conns
    /\ batch' = [batch EXCEPT ![c] = <<>>]
    /\ UNCHANGED <<created, status, closed, answered, refused, busy>>

\* The error is logged; nothing of the reconciliation stays.
ReconcileFails(c, r) ==
    /\ Takes(c, r)
    /\ UNCHANGED <<status, closed, answered>>

Next ==
    \/ \E r \in Runs : CreateRun(r) \/ AnswerStage(r)
    \/ \E c \in Cores, r \in Runs : ReconcileRun(c, r) \/ ReconcileFails(c, r)
    \/ \E c \in Cores : List(c) \/ Borrow(c) \/ Return(c)

(***************************************************************************)
(* Every instance ticks for ever, agents answer, and a request gives its   *)
(* connection back.  The pool serves those who wait in their order: a pass *)
(* that asks again and again for a connection gets one.  Reconciliations   *)
(* of a run may fail as often as they like, but not every one of them,     *)
(* unless the run is one that is always refused.                           *)
(***************************************************************************)
Spec ==
    /\ Init
    /\ [][Next]_vars
    /\ \A r \in Runs :
        WF_vars(AnswerStage(r)) /\ SF_vars(\E c \in Cores : ReconcileRun(c, r))
    /\ \A c \in Cores :
        /\ WF_vars(Return(c)) /\ SF_vars(List(c))
        /\ SF_vars(\E r \in Runs : ReconcileRun(c, r) \/ ReconcileFails(c, r))

-----------------------------------------------------------------------------
\* ReconcileAll "advances every active content run": a stage whose answers
\* are there is closed by some later tick.
EveryRunAdvances == \A r \in Runs : r \in answered ~> r \notin answered

(***************************************************************************)
(* What the pass does give: a stage that is answered is closed by some     *)
(* later tick, whatever reconciliations fail, unless the run is refused    *)
(* every time or the list is full of runs that do not move: the ones that  *)
(* wait for a human and the ones that are refused, which keep their places *)
(* at its head.                                                            *)
(***************************************************************************)
EveryRunAdvancesWhileTheListHasRoom ==
    LET waiting == {r \in Runs : status[r] = "waiting_human_review"}
    IN  \A r \in Runs :
            r \in answered ~>
                \/ r \notin answered
                \/ r \in refused
                \/ Cardinality(waiting \cup refused) >= maxReconcileRuns

(***************************************************************************)
(* Every pass comes to its end, whatever the requests take from the pool:  *)
(* they take one connection each, so that the pass, which waits for one    *)
(* while it holds another, is never waited for.                            *)
(***************************************************************************)
EveryPassEnds == \A c \in Cores : batch[c] # <<>> ~> batch[c] = <<>>
=============================================================================
