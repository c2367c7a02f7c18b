---------------------------- MODULE ReplayRequests ----------------------------
(***************************************************************************)
(* Requests for replays (internal/workflow, CreateReplay) and the registry *)
(* of versions they may name.  A request is checked, merged with the       *)
(* configuration its parent ran with and hashed into a key; a transaction  *)
(* then inserts the child unless the key is there already, and answers     *)
(* with the run that has it.  The same request may be made by several      *)
(* people, through several instances, or again by whoever got no answer.   *)
(* What the child does then is Replay's matter.                            *)
(***************************************************************************)
EXTENDS Integers, FiniteSets, Sequences, TLC

CONSTANTS Handlers,
          Asks,            \* what can be asked of a parent
          Versions,        \* what may be registered: [kind, name, version]
          Seeded,          \* what the migration has registered
          MaxRequests      \* bound: requests that arrive in all

defaultTopicPass == 60
Thresholds == {"passThreshold", "topicPassThreshold", "articlePassThreshold"}
Weights == {"weightVersion", "topicWeightVersion", "articleWeightVersion"}
Models ==
    {"model", "topicScoutModel", "topicJudgeModel", "outlineModel",
     "draftModel", "criticModel", "articleJudgeModel"}
Rubrics == {"rubricVersion", "topicRubricVersion", "articleRubricVersion"}

VARIABLES runs,            \* the committed runs, in the order of their ids
          registry,        \* workflow_versions
          phase,           \* what each handler does next
          ask,             \* the request it works on
          merged,          \* the parent's configuration and the request's
          child,           \* the id it will answer with
          answers,         \* history: each answer with its request
          nextID, left     \* ids given out; requests still to come

vars == <<runs, registry, phase, ask, merged, child, answers, nextID, left>>

NoOverrides == <<>>        \* the function of no key
NoAsk == [parent |-> 0, from |-> "none", scope |-> "none",
          overrides |-> NoOverrides]

\* The root was created by a schedule, without overrides.
Root == [key |-> <<>>, parent |-> 0, from |-> "source_fetch", scope |-> "full",
         requested |-> NoOverrides, asked |-> NoOverrides]

Init ==
    /\ runs = [r \in {1} |-> Root]
    /\ registry = Seeded
    /\ phase = [h \in Handlers |-> "idle"]
    /\ ask = [h \in Handlers |-> NoAsk]
    /\ merged = [h \in Handlers |-> NoOverrides]
    /\ child = [h \in Handlers |-> 0]
    /\ answers = {}
    /\ nextID = 2
    /\ left = MaxRequests

-------------------------------------------------------------------------------
\* validateConfigOverrides: keys and ranges.
ValidOverride(key, value) ==
    \/ key \in Thresholds /\ value \in 0 .. 100
    \/ key = "maxConcurrency" /\ value \in 1 .. 32
    \/ key = "maxBatchSize" /\ value \in 1 .. 1000
    \/ key \in Weights /\ value \in Nat \ {0}
    \/ key \in Models \cup Rubrics \cup {"agentVersion", "promptVersion"}
       /\ value.name # ""

Valid(overrides) ==
    \A key \in DOMAIN overrides : ValidOverride(key, overrides[key])

\* A map with the entries of another where it has none of its own.
Over(f, g) ==
    [key \in DOMAIN f \cup DOMAIN g |-> IF key \in DOMAIN f THEN f[key] ELSE g[key]]

\* configSnapshotPayload: what the run's config snapshot calls effective.
Effective(run) ==
    Over(run.requested, [key \in {"topicPassThreshold"} |-> defaultTopicPass])

\* parentConfigOverrides: what was effective in the parent, its default too.
Inheritance(run) == Effective(run)

\* Mutant of Merge: what the parent had wins.
InheritedWins(inherited, explicit) == Over(inherited, explicit)

\* mergeConfigOverrides
Merge(inherited, explicit) == Over(explicit, inherited)

\* What the registry has: a text names a version of its kind, a weight any
\* version of that number, a model without a version is its v1.
HasVersion(kind, name, version) ==
    [kind |-> kind, name |-> name, version |-> version] \in registry
NamedVersion(kind, value) ==
    value.version # "none" /\ HasVersion(kind, value.name, value.version)
ModelVersion(value) ==
    HasVersion("model", value.name,
               IF value.version = "none" THEN "v1" ELSE value.version)
WeightVersion(value) ==
    \E v \in registry : v.kind = "weight" /\ v.version = value

\* validateRegisteredWorkflowConfig
Registered(key, value) ==
    /\ key = "agentVersion" => NamedVersion("agent", value)
    /\ key = "promptVersion" => NamedVersion("prompt", value)
    /\ key \in Rubrics => NamedVersion("rubric", value)
    /\ key \in Weights => WeightVersion(value)
    /\ key \in Models => ModelVersion(value)

-------------------------------------------------------------------------------
Idle(h) ==
    /\ phase' = [phase EXCEPT ![h] = "idle"]
    /\ ask' = [ask EXCEPT ![h] = NoAsk]
    /\ merged' = [merged EXCEPT ![h] = NoOverrides]
    /\ child' = [child EXCEPT ![h] = 0]

Refuse(h) == Idle(h) /\ UNCHANGED <<runs, registry, answers, nextID, left>>

Goes(h, next) == phase' = [phase EXCEPT ![h] = next]

Receive(h) ==
    /\ phase[h] = "idle"
    /\ left > 0
    /\ left' = left - 1
    /\ \E a \in Asks, p \in (DOMAIN runs) \cup {nextID} :
        ask' = [ask EXCEPT ![h] = [parent |-> p] @@ a]
    /\ Goes(h, "check")
    /\ UNCHANGED <<runs, registry, merged, child, answers, nextID>>

\* Before the transaction: the request, its parent, the parent's config.
Check(h) ==
    LET a == ask[h]
        all == Merge(Inheritance(runs[a.parent]), a.overrides)
    IN
    /\ phase[h] = "check"
    /\ \/ /\ a.parent \notin DOMAIN runs \/ ~Valid(a.overrides)
          /\ Refuse(h)
       \/ /\ a.parent \in DOMAIN runs /\ Valid(a.overrides)
          /\ IF Valid(all)
             THEN /\ merged' = [merged EXCEPT ![h] = all]
                  /\ Goes(h, "registry")
                  /\ UNCHANGED <<runs, registry, ask, child, answers, nextID, left>>
             ELSE Refuse(h)

CheckRegistry(h) ==
    /\ phase[h] = "registry"
    /\ IF /\ \E v \in registry : v.kind = "workflow" /\ v.version = "v1"
          /\ \A key \in DOMAIN merged[h] : Registered(key, merged[h][key])
       THEN /\ Goes(h, "insert")
            /\ UNCHANGED <<runs, registry, ask, merged, child, answers, nextID, left>>
       ELSE Refuse(h)

\* Mutant of Key: the request's own overrides are left out.
KeyWithoutOverrides(h) == <<ask[h].parent, ask[h].from, ask[h].scope>>

Key(h) == <<ask[h].parent, ask[h].from, ask[h].scope, merged[h]>>

\* Transactions that have inserted the key and have not committed.
Holders(h) ==
    {g \in Handlers \ {h} : phase[g] = "fill" /\ Key(g) = Key(h)}
Same(h) == {r \in DOMAIN runs : runs[r].key = Key(h)}

(***************************************************************************)
(* insert ... on conflict (replay_key) do nothing: it waits for a          *)
(* transaction that has inserted the same key, and the key it then finds   *)
(* is the answer.                                                          *)
(***************************************************************************)
Insert(h) ==
    /\ phase[h] = "insert"
    /\ Holders(h) = {}
    /\ IF Same(h) # {}
       THEN /\ child' = [child EXCEPT ![h] = CHOOSE r \in Same(h) : TRUE]
            /\ Goes(h, "reply")
            /\ UNCHANGED nextID
       ELSE /\ child' = [child EXCEPT ![h] = nextID]
            /\ nextID' = nextID + 1
            /\ Goes(h, "fill")
    /\ UNCHANGED <<runs, registry, ask, merged, answers, left>>

\* The rest of the transaction and its commit: config snapshot, nodes, event
\* and jobs, none of which waits for anybody.
Fill(h) ==
    LET a == ask[h]
        new == [key |-> Key(h), parent |-> a.parent, from |-> a.from,
                scope |-> a.scope, requested |-> merged[h],
                asked |-> a.overrides]
    IN
    /\ phase[h] = "fill"
    /\ runs' = Over(runs, [r \in {child[h]} |-> new])
    /\ Goes(h, "reply")
    /\ UNCHANGED <<registry, ask, merged, child, answers, nextID, left>>

Reply(h) ==
    /\ phase[h] = "reply"
    /\ answers' = answers \cup {[ask |-> ask[h], id |-> child[h]]}
    /\ Idle(h)
    /\ UNCHANGED <<runs, registry, nextID, left>>

(***************************************************************************)
(* A statement fails, the parent has no output to start from, the client   *)
(* gives up or the process ends; after the commit the run stays.           *)
(***************************************************************************)
Fail(h) == phase[h] # "idle" /\ Refuse(h)

\* RegisterWorkflowVersion; no row is ever changed or removed.
RegisterVersion(v) ==
    /\ v \notin registry
    /\ registry' = registry \cup {v}
    /\ UNCHANGED <<runs, phase, ask, merged, child, answers, nextID, left>>

Handle(h) ==
    Check(h) \/ CheckRegistry(h) \/ Insert(h) \/ Fill(h) \/ Reply(h)

Next ==
    \/ \E h \in Handlers : Receive(h) \/ Handle(h) \/ Fail(h)
    \/ \E v \in Versions : RegisterVersion(v)

Fairness == \A h \in Handlers : WF_vars(Handle(h))

Spec == Init /\ [][Next]_vars /\ Fairness

-------------------------------------------------------------------------------
(***************************************************************************)
(* "Identical requests are idempotent": whoever is answered is given the   *)
(* same run, however often and through whichever instance it was asked;    *)
(* and that is the run that was asked for, of that parent, from that node, *)
(* with every override of the request.                                     *)
(***************************************************************************)
OneRunPerRequest ==
    /\ \A x, y \in answers : x.ask = y.ask => x.id = y.id
    /\ \A x \in answers :
        /\ x.id \in DOMAIN runs
        /\ runs[x.id].parent = x.ask.parent
        /\ runs[x.id].from = x.ask.from
        /\ runs[x.id].scope = x.ask.scope
        /\ \A k \in DOMAIN x.ask.overrides :
               k \in DOMAIN runs[x.id].requested
               /\ runs[x.id].requested[k] = x.ask.overrides[k]

\* The overrides a run was asked to have, or else its parent, and so on.
Inherited(key) ==
    LET value[r \in DOMAIN runs] ==
            IF key \in DOMAIN runs[r].asked THEN {runs[r].asked[key]}
            ELSE IF r = 1
                 THEN IF key = "topicPassThreshold" THEN {defaultTopicPass} ELSE {}
            ELSE value[runs[r].parent]
    IN  value

(***************************************************************************)
(* A run has its models and thresholds from the nearest of its ancestors   *)
(* that was asked for them, across any number of generations.              *)
(***************************************************************************)
ConfigsFollowTheLine ==
    \A r \in DOMAIN runs : LET config == Effective(runs[r]) IN
        \A key \in Models \cup Thresholds :
            Inherited(key)[r] =
                IF key \in DOMAIN config THEN {config[key]} ELSE {}

(***************************************************************************)
(* Every request is answered or refused: two that ask for the same run     *)
(* wait for each other in one direction only.                              *)
(***************************************************************************)
EveryReplayIsAnswered == \A h \in Handlers : []<>(phase[h] = "idle")
===============================================================================
