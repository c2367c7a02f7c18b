------------------------------ MODULE EventStream ------------------------------
(***************************************************************************)
(* The history of a run and those who follow it: workflow_events, the two  *)
(* queries that page through it and the SSE stream                         *)
(* (internal/api/workflow_handlers.go).  An event takes its sequence when  *)
(* it is inserted and is seen by others when its transaction commits.  A   *)
(* reader asks for the events after the last sequence it has, in order and *)
(* a page at a time.                                                       *)
(***************************************************************************)
EXTENDS Naturals, FiniteSets, SequencesExt

CONSTANTS
    Writers,        \* transactions that insert events of the run: core, agents
    Readers,
    PageSize,       \* 500 in the code
    MaxSequence,    \* bound on events
    MaxDrops        \* bound on lost connections of a reader

VARIABLES
    last,       \* the last value of the identity column
    open,       \* what each writer has inserted and not committed
    committed,
    connected,
    after,      \* the stream's cursor
    wire,       \* written to a connection and not received
    got,        \* what a reader has received
    drops

vars == <<last, open, committed, connected, after, wire, got, drops>>

server == <<last, open, committed>>

Init ==
    /\ last = 0 /\ open = [w \in Writers |-> {}] /\ committed = {}
    /\ connected = [r \in Readers |-> FALSE]
    /\ after = [r \in Readers |-> 0]
    /\ wire = [r \in Readers |-> <<>>]
    /\ got = [r \in Readers |-> <<>>]
    /\ drops = [r \in Readers |-> 0]

------------------------------------------------------------------------------
\* Writers.

\* CreateWorkflowEvent, inside a transaction.
AppendEvent(w) ==
    /\ last < MaxSequence
    /\ last' = last + 1
    /\ open' = [open EXCEPT ![w] = @ \cup {last + 1}]
    /\ UNCHANGED <<committed, connected, after, wire, got, drops>>

Commit(w) ==
    /\ open[w] # {}
    /\ committed' = committed \cup open[w]
    /\ open' = [open EXCEPT ![w] = {}]
    /\ UNCHANGED <<last, connected, after, wire, got, drops>>

\* The sequences of a transaction that is rolled back are not used again.
Rollback(w) ==
    /\ open[w] # {}
    /\ open' = [open EXCEPT ![w] = {}]
    /\ UNCHANGED <<last, committed, connected, after, wire, got, drops>>

------------------------------------------------------------------------------
\* Readers.

\* ORDER BY sequence: the i-th row has i - 1 rows before it.
InOrder(events) ==
    [i \in 1..Cardinality(events) |->
        CHOOSE e \in events : Cardinality({d \in events : d < e}) = i - 1]

\* The first rows of a query with a limit.
FirstPage(rows) == SubSeq(rows, 1, IF Len(rows) < PageSize THEN Len(rows) ELSE PageSize)

\* Mutant: only full pages are read.
FullPageAfter(seq) ==
    LET rows == InOrder({e \in committed : e > seq})
    IN  IF Len(rows) < PageSize THEN <<>> ELSE FirstPage(rows)

\* workflowEventsAfter.
workflowEventsAfter(seq) == FirstPage(InOrder({e \in committed : e > seq}))

\* Mutant: a reader that comes back starts from the beginning.
Forgotten(events) == 0

\* lastEventSequence: no header, no event yet.
lastEventSequence(events) == IF events = <<>> THEN 0 ELSE Last(events)

\* ListWorkflowEvents, or the events of GetWorkflowRun for a reader with none.
ListWorkflowEvents(r) ==
    /\ ~connected[r]
    /\ got' = [got EXCEPT ![r] = @ \o workflowEventsAfter(lastEventSequence(@))]
    /\ UNCHANGED <<server, connected, after, wire, drops>>

\* StreamWorkflowRun, with the Last-Event-ID of a reader that comes back.
StreamWorkflowRun(r) ==
    /\ ~connected[r]
    /\ connected' = [connected EXCEPT ![r] = TRUE]
    /\ after' = [after EXCEPT ![r] = lastEventSequence(got[r])]
    /\ UNCHANGED <<server, wire, got, drops>>

\* One round of its loop.
Poll(r) ==
    /\ connected[r]
    /\ LET rows == workflowEventsAfter(after[r])
       IN  /\ rows # <<>>
           /\ wire' = [wire EXCEPT ![r] = @ \o rows]
           /\ after' = [after EXCEPT ![r] = Last(rows)]
    /\ UNCHANGED <<server, connected, got, drops>>

Receive(r) ==
    /\ wire[r] # <<>>
    /\ got' = [got EXCEPT ![r] = Append(@, Head(wire[r]))]
    /\ wire' = [wire EXCEPT ![r] = Tail(@)]
    /\ UNCHANGED <<server, connected, after, drops>>

\* What is on the way is lost.
Disconnect(r) ==
    /\ connected[r] /\ drops[r] < MaxDrops
    /\ connected' = [connected EXCEPT ![r] = FALSE]
    /\ wire' = [wire EXCEPT ![r] = <<>>]
    /\ drops' = [drops EXCEPT ![r] = @ + 1]
    /\ UNCHANGED <<server, after, got>>

Next ==
    \/ \E w \in Writers : AppendEvent(w) \/ Commit(w) \/ Rollback(w)
    \/ \E r \in Readers :
          ListWorkflowEvents(r) \/ StreamWorkflowRun(r) \/ Poll(r) \/ Receive(r) \/ Disconnect(r)

Spec == Init /\ [][Next]_vars

\* A reader reconnects, and a stream goes on polling and delivering.
FairSpec ==
    Spec /\ \A r \in Readers : WF_vars(StreamWorkflowRun(r)) /\ WF_vars(Poll(r)) /\ WF_vars(Receive(r))

------------------------------------------------------------------------------
\* Properties.

\* However often a reader is cut off, pages and comes back, it sees committed
\* events only, each once at most and never an older one after a newer one.
InOrderAndOnce ==
    \A r \in Readers :
        /\ ToSet(got[r]) \subseteq committed
        /\ \A i, j \in DOMAIN got[r] : i < j => got[r][i] < got[r][j]

\* A reader that resumes by sequence has missed nothing of what went before the
\* last event it has seen.
ReadersMissNothing ==
    \A r \in Readers : IsPrefix(got[r], InOrder(committed))

\* Every committed event comes to every reader in the end, however often it is
\* cut off, unless an event with a higher sequence has come to it before.
EventsArriveUnlessOvertaken ==
    \A r \in Readers, e \in 1..MaxSequence :
        e \in committed ~> \E seen \in ToSet(got[r]) : seen >= e
===============================================================================
