-------------------------------- MODULE MCDesk --------------------------------
(***************************************************************************)
(* The API's handlers for TLC: publications, imports of metrics, requests  *)
(* for replays and the comparison of texts.  The four keep no state in     *)
(* common, so a behaviour is one of one of them, chosen at its start.      *)
(***************************************************************************)
EXTENDS Publications, Integers, TLC

CONSTANTS h1, h2

VARIABLES
    part,
    now, snapshots, percentile, importPhase, began, batch, inserted, todo,
    ranking, ranked, importAnswer, late, stale, rankedAt, importsLeft,
    runs, registry, replayPhase, replayAsk, merged, child, replayAnswers,
    nextID, replaysLeft,
    before, after, long, short, line, previous, i, j, out

importVars == <<now, snapshots, percentile, importPhase, began, batch, inserted,
                todo, ranking, ranked, importAnswer, late, stale, rankedAt,
                importsLeft>>
replayVars == <<runs, registry, replayPhase, replayAsk, merged, child,
                replayAnswers, nextID, replaysLeft>>
editVars == <<before, after, long, short, line, previous, i, j, out>>
all == <<part, vars, importVars, replayVars, editVars>>

-------------------------------------------------------------------------------
MCHandlers == {h1, h2}
MCPlatformOf == [a \in {"a", "b"} |-> "zhihu"]

(***************************************************************************)
(* Two publications of each of two platforms, one more that does not       *)
(* exist, and the batches whose rows meet: two groups in both orders, the  *)
(* same window twice, the same moment twice, rows that are refused.  X and *)
(* Z are of the first day that counts at the start, and age the next day.  *)
(***************************************************************************)
Pubs == {"x", "y", "z", "w", "gone"}
Reading(p, w, t, v) == [pub |-> p, window |-> w, at |-> t, views |-> v]
X == Reading("x", "h24", -3, 5)
Y == Reading("y", "h24", -2, 7)
Z == Reading("z", "h24", -3, 5)
W == Reading("w", "h24", -2, 1)
ImportBatches ==
    { <<X>>, <<X, Z>>, <<Z, X>>, <<Y, W>>,
      <<Reading("x", "h24", -4, 9)>>,            \* aged, and X's window
      <<Reading("x", "custom", -3, 9), W>>,      \* X's moment
      <<W, Reading("y", "d7", -4, 9)>>,          \* before it was published
      <<X, Reading("z", "h24", 1, 1)>>,          \* from the future, at first
      <<Reading("gone", "h24", -2, 1)>> }

RegisteredPubs == Pubs \ {"gone"}
PubPlatform == [p \in Pubs |-> IF p \in {"z", "w"} THEN "zhihu" ELSE "wechat"]
PubTime == [p \in Pubs |-> IF p = "y" THEN -3 ELSE -4]
ViewWeight == [zhihu |-> 1, wechat |-> 3]

Imports == INSTANCE Metrics WITH
    Existing <- RegisteredPubs, PlatformOf <- PubPlatform,
    PublishedAt <- PubTime, WeightOf <- ViewWeight,
    Kept <- 3, MaxDay <- 1, Batches <- ImportBatches, MaxImports <- 3,
    phase <- importPhase, answer <- importAnswer, left <- importsLeft

(***************************************************************************)
(* Replays with no override, a model by name or by version, a threshold in *)
(* and out of its range, of a run that is there or is not there yet.       *)
(***************************************************************************)
Version(k, n, v) == [kind |-> k, name |-> n, version |-> v]
Text(n, v) == [name |-> n, version |-> v]
SeededVersions ==
    {Version("workflow", "content-production", "v1"), Version("model", "m", "v1")}
AllVersions == SeededVersions \cup {Version("model", "m", "v2")}
ReplayAsks ==
    {[from |-> "source_fetch", scope |-> "full", overrides |-> o] : o \in
        { <<>>, "model" :> Text("m", "none"), "model" :> Text("m", "v2"),
          "topicPassThreshold" :> 80, "topicPassThreshold" :> 101 } }

Replays == INSTANCE ReplayRequests WITH
    Asks <- ReplayAsks, Seeded <- SeededVersions,
    Versions <- AllVersions,
    MaxRequests <- 3,
    phase <- replayPhase, ask <- replayAsk, answers <- replayAnswers,
    left <- replaysLeft

\* All pairs of texts of up to three symbols, and two that share no place.
EditDocuments ==
    UNION {[1 .. n -> {"p", "q"}] : n \in 0 .. 3}
    \cup {<<"p", "q", "r">>, <<"r", "p", "q">>}
Edits == INSTANCE ArticleDiff WITH Documents <- EditDocuments

-------------------------------------------------------------------------------
MCInit ==
    /\ part \in {"publications", "imports", "replays", "edits"}
    /\ Init /\ Imports!Init /\ Replays!Init /\ Edits!Init
    /\ part # "edits" => before = <<>> /\ after = <<>>

\* What is left as it is when one of the parts makes a step.
ButPublications == UNCHANGED <<part, importVars, replayVars, editVars>>
ButImports == UNCHANGED <<part, vars, replayVars, editVars>>
ButReplays == UNCHANGED <<part, vars, importVars, editVars>>
ButEdits == UNCHANGED <<part, vars, importVars, replayVars>>

MCNext ==
    \/ part = "publications" /\ Next /\ ButPublications
    \/ part = "imports" /\ Imports!Next /\ ButImports
    \/ part = "replays" /\ Replays!Next /\ ButReplays
    \/ part = "edits" /\ Edits!Next /\ ButEdits

\* The fairness of each part.
MCFairness == \A h \in Handlers :
    /\ WF_all(part = "publications" /\ Handle(h) /\ ButPublications)
    /\ WF_all(part = "imports" /\ Imports!Handle(h) /\ ButImports)
    /\ WF_all(part = "replays" /\ Replays!Handle(h) /\ ButReplays)

MCSpec == MCInit /\ [][MCNext]_all /\ MCFairness

-------------------------------------------------------------------------------
\* Metrics: the percentiles of a group are the ranks of the rows that were
\* recent when it was last ranked.
RanksFollowTheRows == Imports!RanksFollowTheRows
\* ReplayRequests: whoever asks for the same is given the same run.
OneRunPerRequest == Replays!OneRunPerRequest
\* ReplayRequests: a run is configured by the nearest ancestor that was asked.
ConfigsFollowTheLine == Replays!ConfigsFollowTheLine
\* ArticleDiff: what the editor is shown is what was changed, in as few lines
\* as can be, and the edit ratio is the distance of the two texts.
EditsAreRecorded == Edits!DiffTracesTheEdit /\ Edits!RatioIsTheDistance

(***************************************************************************)
(* Every request is answered, whatever rows, keys and rankings of others   *)
(* its transaction waits for.                                              *)
(***************************************************************************)
EveryHandlerReturns ==
    EveryRequestEnds /\ Imports!EveryImportEnds /\ Replays!EveryReplayIsAnswered
===============================================================================
