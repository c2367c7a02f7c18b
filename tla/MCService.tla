------------------------------ MODULE MCService ------------------------------
(***************************************************************************)
(* What is around the runs, for TLC: the pass that advances all of them,   *)
(* the events that tell of them, the sources they start from and the       *)
(* settings of the scheduler.  The four keep no state in common, so a      *)
(* behaviour is one of one of them, chosen at its start.                   *)
(***************************************************************************)
EXTENDS Sources

VARIABLES
    part,
    created, status, closed, answered, refused, batch, busy,
    last, open, committed, connected, after, wire, got, drops,
    stored, settingsPhase, patch, current, fresh, settingsLeft

passVars == <<created, status, closed, answered, refused, batch, busy>>
eventVars == <<last, open, committed, connected, after, wire, got, drops>>
settingsVars == <<stored, settingsPhase, patch, current, fresh, settingsLeft>>
all == <<part, vars, passVars, eventVars, settingsVars>>

-------------------------------------------------------------------------------
\* One instance: instances share the rows of the runs only, and two of them at
\* one run are ContentRun's matter.
Cores == {"c1"}
CreatedRuns == {"r1", "r2", "r3"}
Passes == INSTANCE ReconcileAll WITH
    Runs <- CreatedRuns, maxReconcileRuns <- 2, Stages <- 2, Conns <- 2,
    EvaluationsFail <- TRUE

\* Runs are alike, so the order they are created in may be fixed.
InOrder == {<<>>, <<"r1">>, <<"r1", "r2">>, <<"r1", "r2", "r3">>}

Readers == {"reader"}
Writers == {"core", "agent"}
Events == INSTANCE EventStream WITH
    PageSize <- 2, MaxSequence <- 4, MaxDrops <- 1

\* Changes of one section or two; some are out of range or no time of day.
WriteAt(h, m, length, n) ==
    [enabled |-> TRUE, timezone |-> "Asia/Shanghai", maxTopics |-> n,
     times |-> {[hour |-> h, minute |-> m, length |-> length]}]
FetchEvery(n) == [enabled |-> TRUE, defaultIntervalMinutes |-> n]
Keep(n) == [enabled |-> FALSE, retentionHours |-> 24, batchSize |-> n]
SettingsPatches ==
    { [articleWrite |-> WriteAt(8, 0, 5, 1)],
      [articleWrite |-> WriteAt(8, 0, 5, 21)],
      [articleWrite |-> WriteAt(8, 0, 4, 1)],
      [sourceFetch |-> FetchEvery(5)],
      [sourceFetch |-> FetchEvery(4)],
      [sourceFetch |-> FetchEvery(60), workflowSnapshots |-> Keep(10)] }
Zones == {"Asia/Shanghai"}
Settings == INSTANCE SchedulerSettings WITH
    Patches <- SettingsPatches, KnownZones <- Zones, MaxRequests <- 4,
    phase <- settingsPhase, left <- settingsLeft

-------------------------------------------------------------------------------
MCInit ==
    /\ part \in {"passes", "events", "sources", "settings"}
    /\ Init /\ Passes!Init /\ Events!Init /\ Settings!Init

\* What is left as it is when one of the parts makes a step.
ButPasses == UNCHANGED <<part, vars, eventVars, settingsVars>>
ButEvents == UNCHANGED <<part, vars, passVars, settingsVars>>
ButSources == UNCHANGED <<part, passVars, eventVars, settingsVars>>
ButSettings == UNCHANGED <<part, vars, passVars, eventVars>>

MCNext ==
    \/ part = "passes" /\ Passes!Next /\ created' \in InOrder /\ ButPasses
    \/ part = "events" /\ Events!Next /\ ButEvents
    \/ part = "sources" /\ Next /\ ButSources
    \/ part = "settings" /\ Settings!Next /\ ButSettings

\* The fairness of the passes and of the readers; sources and settings need none.
MCFairness ==
    /\ \A r \in CreatedRuns :
        /\ WF_all(part = "passes" /\ Passes!AnswerStage(r) /\ ButPasses)
        /\ SF_all(/\ part = "passes" /\ ButPasses
                  /\ \E c \in Cores : Passes!ReconcileRun(c, r))
    /\ \A c \in Cores :
        /\ WF_all(part = "passes" /\ Passes!Return(c) /\ ButPasses)
        /\ SF_all(part = "passes" /\ Passes!List(c) /\ ButPasses)
        /\ SF_all(/\ part = "passes" /\ ButPasses
                  /\ \E r \in CreatedRuns :
                        Passes!ReconcileRun(c, r) \/ Passes!ReconcileFails(c, r))
    /\ \A r \in Readers :
        /\ WF_all(part = "events" /\ Events!StreamWorkflowRun(r) /\ ButEvents)
        /\ WF_all(part = "events" /\ Events!Poll(r) /\ ButEvents)
        /\ WF_all(part = "events" /\ Events!Receive(r) /\ ButEvents)

MCSpec == MCInit /\ [][MCNext]_all /\ MCFairness

-------------------------------------------------------------------------------
\* EventStream: readers see committed events, each once and in order.
InOrderAndOnce == Events!InOrderAndOnce
\* EventStream: every event comes to every reader, or a later one has come.
EventsArriveUnlessOvertaken == Events!EventsArriveUnlessOvertaken
\* ReconcileAll: a stage whose answers are there is closed by some later tick,
\* unless its run is refused every time or the list is full of runs that are
\* refused or wait for a human.
EveryRunAdvancesWhileTheListHasRoom == Passes!EveryRunAdvancesWhileTheListHasRoom
\* ReconcileAll: every pass comes to its end, whatever requests take from the pool.
EveryPassEnds == Passes!EveryPassEnds
\* SchedulerSettings: an update of what is still stored changes what it names.
FreshWritesKeepTheRest == Settings!FreshWritesKeepTheRest
===============================================================================
