--------------------------------- MODULE Replay ---------------------------------
(***************************************************************************)
(* A run and its replays (CreateReplay of internal/workflow/runtime.go).   *)
(* A person asks for a run to be repeated from one of its nodes: a child   *)
(* run starts there, with what the parent's node before put out, and works *)
(* on the same topics and articles.  A child may be replayed too.          *)
(*                                                                         *)
(* The history begins with a run that has ended or waits for a human, in   *)
(* any way ContentRun can bring about.  Here a reconciliation is one step  *)
(* and a result and its report are one; ContentRun takes both apart.  Each *)
(* topic is for one platform.                                              *)
(***************************************************************************)
EXTENDS Naturals, FiniteSets, Pipeline

CONSTANTS
    Root,         \* the first run
    Children,     \* names for replays
    Sources,
    Topics,       \* topics of the first run and, if it has them, of replays
    Nodes,        \* nodes a replay may be asked for to start at
    Modes         \* modes of replay scopes that are asked for

Runs == {Root} \cup Children

NodeIndex == [source_fetch     |-> 0, topic_scout   |-> 1, topic_evaluate |-> 2,
              article_write    |-> 3, article_evaluate |-> 4, human_review |-> 5]
NodeOrder == DOMAIN NodeIndex
PreviousNode(n) == CHOOSE m \in NodeOrder : NodeIndex[m] + 1 = NodeIndex[n]

ASSUME ReplayAssumption ==
    /\ Root \notin Children
    /\ IsFiniteSet(Sources) /\ Sources # {}
    /\ Nodes \subseteq NodeOrder
    /\ Modes \subseteq {"full", "failed_items", "selected_items", "evaluate_only"}

\* The article a run makes of a topic is a row of its own.
Articles == Topics \X Runs

Jobs == ({"source_fetch"} \X Sources) \cup {<<"topic_scout", Root>>}
        \cup ({"topic_evaluate", "article_write"} \X Topics)
        \cup ({"article_evaluate"} \X Articles)
ScoutJob == <<"topic_scout", Root>>

Item == Sources \cup Topics \cup Articles
Snapshot == [taken : BOOLEAN, items : SUBSET Item]
Taken(items) == [taken |-> TRUE, items |-> items]
NoSnapshot == [taken |-> FALSE, items |-> {}]

VARIABLES
    rows,      \* workflow_runs with their nodes, snapshots and artifacts
    sent,      \* how often each run put each job on its queue
    queued,    \* the jobs each run has a queued event of
    answer,    \* of each run's jobs: "none", "failed", "done", "pass" or "low"
    raw,       \* sources of which a run has new raw items
    owner,     \* the run whose scout proposed a topic
    topic,     \* topics.status
    article    \* articles.status

vars == <<rows, sent, queued, answer, raw, owner, topic, article>>

NoRow == [status |-> "absent", parent |-> Root, start |-> "source_fetch", mode |-> "full",
          selected |-> {}, node |-> [n \in NodeOrder |-> "queued"],
          input |-> [n \in NodeOrder |-> NoSnapshot],
          output |-> [n \in NodeOrder |-> NoSnapshot], desk |-> {}]

Active(r) == rows[r].status \in {"queued", "running"}
Exists(r) == rows[r].status # "absent"

------------------------------------------------------------------------------
(* What the first run leaves behind.  Of each of its topics: never          *)
(* proposed, its evaluation failed, rejected, accepted and not written, or  *)
(* written and scored low or passed.                                        *)

Fate == {"unproposed", "lost", "low", "unwritten", "scored", "passed"}

After(fate) ==
    LET Of(fates)  == {t \in Topics : fate[t] \in fates}
        proposed   == Topics \ Of({"unproposed"})
        accepted   == Of({"unwritten", "scored", "passed"})
        written    == Of({"scored", "passed"}) \X {Root}
        desk       == Of({"passed"}) \X {Root}
        jobs       == ({"source_fetch"} \X Sources) \cup {ScoutJob}
                      \cup ({"topic_evaluate"} \X proposed)
                      \cup ({"article_write"} \X accepted)
                      \cup ({"article_evaluate"} \X written)
        output     == [source_fetch     |-> Taken(Sources),
                       topic_scout      |-> Taken(proposed),
                       topic_evaluate   |-> IF proposed = {} THEN NoSnapshot ELSE Taken(accepted),
                       article_write    |-> IF accepted = {} THEN NoSnapshot ELSE Taken(written),
                       article_evaluate |-> IF written = {} THEN NoSnapshot ELSE Taken(desk),
                       human_review     |-> IF written = {} THEN NoSnapshot ELSE Taken(desk)]
    IN  /\ rows = [r \in Runs |-> IF r # Root THEN NoRow ELSE
               [NoRow EXCEPT !.status = IF desk = {} THEN "completed_empty" ELSE "waiting_human_review",
                             !.node = [n \in NodeOrder |->
                                 IF output[n].taken THEN "succeeded" ELSE "skipped"],
                             !.input = [n \in NodeOrder |->
                                 IF n = "source_fetch" THEN Taken(Sources)
                                 ELSE IF output[n].taken /\ n # "human_review"
                                 THEN output[PreviousNode(n)] ELSE NoSnapshot],
                             !.output = output,
                             !.desk = desk]]
        /\ sent = [r \in Runs |-> [j \in Jobs |-> IF r = Root /\ j \in jobs THEN 1 ELSE 0]]
        /\ queued = [r \in Runs |-> IF r = Root THEN jobs ELSE {}]
        /\ answer = [r \in Runs |-> [j \in Jobs |->
               IF r # Root \/ j \notin jobs THEN "none" ELSE
               CASE j[1] = "topic_evaluate" ->
                        (CASE fate[j[2]] = "lost" -> "failed"
                           [] fate[j[2]] = "low" -> "low" [] OTHER -> "pass")
                 [] j[1] = "article_write" ->
                        (IF fate[j[2]] = "unwritten" THEN "failed" ELSE "done")
                 [] j[1] = "article_evaluate" ->
                        (IF fate[j[2][1]] = "passed" THEN "pass" ELSE "low")
                 [] OTHER -> "done"]]
        /\ raw = [r \in Runs |-> IF r = Root THEN Sources ELSE {}]
        /\ owner = [t \in Topics |-> Root]
        /\ topic = [t \in Topics |->
               CASE fate[t] = "unproposed" -> "absent"
                 [] fate[t] = "lost" -> "candidate"
                 [] fate[t] = "low" -> "rejected"
                 [] fate[t] = "unwritten" -> IF written = {} THEN "in_writing" ELSE "written"
                 [] OTHER -> "written"]
        /\ article = [x \in Articles |->
               IF x \in desk THEN "pending_review" ELSE IF x \in written THEN "scored" ELSE "absent"]

Init == \E fate \in [Topics -> Fate] : After(fate)

------------------------------------------------------------------------------
\* Changes of a run's rows.

\* ensureOutputSnapshot, updateNode: a snapshot, once taken, stays.  (A node
\* that closes with failed items counts as succeeded too.)
CloseNode(row, n, items) ==
    [row EXCEPT !.node[n] = "succeeded",
                !.output[n] = IF @.taken THEN @ ELSE Taken(items)]

BindInput(row, n, next) ==
    [row EXCEPT !.input[next] = IF @.taken THEN @ ELSE row.output[n]]

\* Mutant of CompleteEmpty: a waiting run is left alone.
CompleteEmptyActive(row) ==
    [row EXCEPT !.status = IF @ \in {"queued", "running"} THEN "completed_empty" ELSE @]

CompleteEmpty(row) ==
    [row EXCEPT !.status = IF @ \in {"completed", "completed_empty", "failed", "cancelled"}
                           THEN @ ELSE "completed_empty"]

FailRun(row) ==
    [row EXCEPT !.status = IF @ \in {"completed", "completed_empty", "failed", "cancelled"}
                           THEN @ ELSE "failed"]

SkipNodesAfter(row, n) ==
    [row EXCEPT !.node = [m \in NodeOrder |->
        IF NodeIndex[m] > NodeIndex[n] THEN "skipped" ELSE @[m]]]

SkipAfter(row, n) == CompleteEmpty(SkipNodesAfter(row, n))

CompleteReplayOnly(row) ==
    [row EXCEPT !.status = IF @ \in {"queued", "running"} THEN "completed" ELSE @]

\* Mutant: the mode is not asked for.
StopsAnyMode(row, n) == row.start = n

replayStopsAfter(row, n) == row.mode = "evaluate_only" /\ row.start = n

------------------------------------------------------------------------------
\* Creation of a replay.

\* The nearest run, from r upwards, with an output of node n.
NearestOutput(r, n) ==
    LET of[k \in 0..Cardinality(Runs), run \in Runs] ==
            IF k = 0 \/ run = Root \/ rows[run].output[n].taken
            THEN rows[run].output[n] ELSE of[k - 1, rows[run].parent]
    IN  IF rows[r].output[n].taken THEN rows[r].output[n] ELSE of[Cardinality(Runs), r]

\* replaySourceSnapshot; a run always has the input it was created with.
ReplaySource(parent, from) ==
    IF from = "source_fetch" THEN rows[Root].input["source_fetch"]
    ELSE NearestOutput(parent, PreviousNode(from))

\* Mutant: whoever has the input, an ancestor perhaps.
AnyInput(parent, from) == TRUE

\* parentNodeForReplay: the parent itself must have run the node before.
HasReplayInput(parent, from) ==
    from # "source_fetch" => rows[parent].output[PreviousNode(from)].taken

\* failedDecisionItems: decisions on topics, or on articles, of any node.
FailedItems(parent, from) ==
    LET Failed(nodes, items) ==
            {i \in items : \E n \in nodes : answer[parent][<<n, i>>] = "failed"}
    IN  IF from \in {"article_evaluate", "human_review"}
        THEN Failed({"article_evaluate"}, Articles)
        ELSE Failed({"topic_evaluate", "article_write"}, Topics)

replayInputIDs(parent, from, mode, selected) ==
    LET ids    == ReplaySource(parent, from).items
        chosen == IF selected = {} THEN ids ELSE ids \cap selected
    IN  IF mode = "failed_items" THEN chosen \cap FailedItems(parent, from) ELSE chosen

StartJobs(from, ids) ==
    IF from = "topic_scout" THEN {ScoutJob} ELSE {from} \X ids

\* initializeNodes, and skipReplayDownstream for a replay of one node.
ReplayRow(parent, from, mode, selected) ==
    LET row == [NoRow EXCEPT
            !.status = "queued", !.parent = parent, !.start = from,
            !.mode = mode, !.selected = selected,
            !.node = [n \in NodeOrder |->
                IF NodeIndex[n] < NodeIndex[from] THEN "skipped" ELSE "queued"],
            !.input[from] = IF from = "source_fetch" THEN rows[parent].input[from]
                            ELSE rows[parent].output[PreviousNode(from)]]
    IN  IF mode = "evaluate_only" THEN SkipNodesAfter(row, from) ELSE row

setWaitingReview(row, ids) ==
    [CloseNode(row, "human_review", ids)
        EXCEPT !.desk = ids, !.status = "waiting_human_review"]

\* enqueueReplayStart.
StartReplay(row, ids) ==
    IF ids = {} THEN CompleteEmpty(row)
    ELSE IF row.start = "human_review" THEN setWaitingReview(row, ids) ELSE row

\* Any mode may name items, and this one must.
validateReplayScope(mode, selected) == mode = "selected_items" => selected # {}

(***************************************************************************)
(* Of a parent that exists, by an id that is new (Next).  A request that   *)
(* is refused, or that finds a run of its replay_key, changes nothing; one *)
(* that differs in its overrides only makes a run of its own.  The jobs of *)
(* the start have one event among them all, which names no item.           *)
(***************************************************************************)
CreateReplay(parent, child, from, mode, selected) ==
    LET ids  == replayInputIDs(parent, from, mode, selected)
        row  == StartReplay(ReplayRow(parent, from, mode, selected), ids)
    IN  /\ validateReplayScope(mode, selected)
        /\ HasReplayInput(parent, from)
        /\ rows' = [rows EXCEPT ![child] = row]
        /\ sent' = [sent EXCEPT ![child] = [j \in Jobs |->
               IF row.status = "queued" /\ j \in StartJobs(from, ids) THEN @[j] + 1 ELSE @[j]]]
        /\ queued' = [queued EXCEPT ![child] =
               IF row.status = "queued" THEN @ \cup (StartJobs(from, ids) \cap {ScoutJob}) ELSE @]
        /\ UNCHANGED <<answer, raw, owner, topic, article>>

------------------------------------------------------------------------------
(* The stages of a reconciliation.  A walk is what has become of the run's  *)
(* row, the jobs to send and the statuses so far; it stops where a stage    *)
(* must wait, and fails where the database refuses a row.                   *)

Walk(r) == [row |-> [rows[r] EXCEPT !.status = "running"], jobs |-> {}, topic |-> topic,
            article |-> article, walks |-> TRUE, fails |-> FALSE]

Wait(w) == [w EXCEPT !.walks = FALSE]
With(w, row) == [w EXCEPT !.row = row]
Proceed(w, row, jobs) == [w EXCEPT !.row = row, !.jobs = @ \cup jobs]

\* itemsTerminal, articleWriteTerminal: an item has no result and no failure.
Waits(r, n, items) == \E i \in items : answer[r][<<n, i>>] = "none"

\* A replay's row has no sourceCount: nothing is waited for.
sourceCount(row) == 0

SourceFetch(r, w) ==
    LET Reported(a) == {s \in Sources : answer[r][<<"source_fetch", s>>] = a}
        expected    == sourceCount(w.row)
        done        == CloseNode(w.row, "source_fetch", raw[r])
    IN  CASE Cardinality(Reported("done")) + Cardinality(Reported("failed")) < expected -> Wait(w)
          [] OTHER ->
             IF raw[r] = {}
             THEN With(w, IF expected > 0 /\ Cardinality(Reported("failed")) = expected
                          THEN FailRun(done) ELSE SkipAfter(done, "source_fetch"))
             ELSE IF replayStopsAfter(done, "source_fetch") THEN With(w, CompleteReplayOnly(done))
             ELSE Proceed(w, BindInput(done, "source_fetch", "topic_scout"), {ScoutJob})

TopicScout(r, w) ==
    LET ids  == {t \in Topics : topic[t] # "absent" /\ owner[t] = r}
        done == CloseNode(w.row, "topic_scout", ids)
    IN  CASE answer[r][ScoutJob] = "none" -> Wait(w)
          [] OTHER ->
             IF ids = {}
             THEN With(w, IF answer[r][ScoutJob] = "failed"
                          THEN FailRun(done) ELSE SkipAfter(done, "topic_scout"))
             ELSE IF replayStopsAfter(done, "topic_scout") THEN With(w, CompleteReplayOnly(done))
             ELSE Proceed(w, BindInput(done, "topic_scout", "topic_evaluate"),
                          {"topic_evaluate"} \X ids)

\* The compare-and-sets on a topic with a verdict.
GateTopic(status, verdict) ==
    IF verdict = "pass" /\ status \in {"candidate", "scored", "approved"} THEN "in_writing"
    ELSE IF verdict = "low" /\ status = "candidate" THEN "rejected" ELSE status

TopicEvaluate(r, w) ==
    LET ids      == w.row.input["topic_evaluate"].items
        accepted == {t \in ids : answer[r][<<"topic_evaluate", t>>] = "pass"}
        done     == CloseNode(w.row, "topic_evaluate", accepted)
        gated    == [w EXCEPT !.topic = [t \in Topics |->
                        IF t \in ids THEN GateTopic(@[t], answer[r][<<"topic_evaluate", t>>]) ELSE @[t]]]
    IN  CASE ids = {} -> With(w, SkipAfter(w.row, "topic_evaluate"))
          [] Waits(r, "topic_evaluate", ids) -> Wait(w)
          [] OTHER ->
             IF accepted = {} THEN With(gated, SkipAfter(done, "topic_evaluate"))
             ELSE IF replayStopsAfter(done, "topic_evaluate") THEN With(gated, CompleteReplayOnly(done))
             ELSE Proceed(gated, BindInput(done, "topic_evaluate", "article_write"),
                          {"article_write"} \X accepted)

ArticleWrite(r, w) ==
    LET ids     == w.row.input["article_write"].items
        written == {x \in ids \X {r} : article[x] # "absent"}
        done    == CloseNode(w.row, "article_write", written)
        closed  == [w EXCEPT !.topic = [t \in Topics |->
                       IF t \in ids /\ @[t] = "in_writing" THEN "written" ELSE @[t]]]
    IN  CASE ids = {} -> With(w, SkipAfter(w.row, "article_write"))
          [] Waits(r, "article_write", ids) -> Wait(w)
          [] OTHER ->
             IF written = {} THEN With(w, SkipAfter(done, "article_write"))
             ELSE IF replayStopsAfter(done, "article_write") THEN With(closed, CompleteReplayOnly(done))
             ELSE Proceed(closed, BindInput(done, "article_write", "article_evaluate"),
                          {"article_evaluate"} \X written)

\* An article is moved only from a draft; one on a desk may be scored again.
GateArticle(status, quality) ==
    IF status # "draft" THEN status
    ELSE IF quality = "pass" THEN "pending_review" ELSE IF quality = "low" THEN "scored" ELSE status

\* finishReviewStage; its event is refused when an evaluation has failed.
ArticleEvaluate(r, w) ==
    LET ids      == w.row.input["article_evaluate"].items
        Quality(x) == answer[r][<<"article_evaluate", x>>]
        accepted == {x \in ids : Quality(x) = "pass" /\ w.article[x] \in {"draft", "pending_review"}}
        done     == CloseNode(w.row, "article_evaluate", accepted)
        gated    == [w EXCEPT !.article = [x \in Articles |->
                        IF x \in ids THEN GateArticle(@[x], Quality(x)) ELSE @[x]]]
    IN  CASE ids = {} -> With(w, SkipAfter(w.row, "article_evaluate"))
          [] Waits(r, "article_evaluate", ids) -> Wait(w)
          [] OTHER ->
             IF replayStopsAfter(done, "article_evaluate") THEN With(gated, CompleteReplayOnly(done))
             ELSE IF \E x \in ids : Quality(x) = "failed" THEN [w EXCEPT !.fails = TRUE]
             ELSE With(gated, [CloseNode(done, "human_review", accepted)
                                  EXCEPT !.desk = @ \cup accepted, !.status = "waiting_human_review"])

HumanReview(r, w) ==
    With(w, IF w.row.desk = {} THEN CompleteEmpty(w.row)
            ELSE [w.row EXCEPT !.status =
                     IF @ \in {"queued", "running"} THEN "waiting_human_review" ELSE @])

\* What a stage makes of the walk, unless the run starts behind it.
At(n, w, next) ==
    IF w.walks /\ ~w.fails /\ NodeIndex[n] >= NodeIndex[w.row.start] THEN next ELSE w

Walked(r) ==
    LET w1 == At("source_fetch", Walk(r), SourceFetch(r, Walk(r)))
        w2 == At("topic_scout", w1, TopicScout(r, w1))
        w3 == At("topic_evaluate", w2, TopicEvaluate(r, w2))
        w4 == At("article_write", w3, ArticleWrite(r, w3))
        w5 == At("article_evaluate", w4, ArticleEvaluate(r, w4))
    IN  At("human_review", w5, HumanReview(r, w5))

\* Mutants: the events are not looked at; a run that has ended is walked.
NoEvent(r, j) == TRUE
Existing(r) == rows[r].status \notin {"absent", "waiting_human_review"}

\* No event of the item yet.  Of the scout's job only a queued one counts.
Unqueued(r, j) == j \notin queued[r] /\ (j # ScoutJob => answer[r][j] = "none")

Reconciled(r) == Active(r)

ReconcileRun(r) ==
    /\ Reconciled(r)
    /\ \E w \in {Walked(r)} :
           /\ ~w.fails
           /\ rows' = [rows EXCEPT ![r] = w.row]
           /\ sent' = [sent EXCEPT ![r] = [j \in Jobs |->
                  IF j \in w.jobs /\ Unqueued(r, j) THEN @[j] + 1 ELSE @[j]]]
           /\ queued' = [queued EXCEPT ![r] = @ \cup {j \in w.jobs : Unqueued(r, j)}]
           /\ topic' = w.topic /\ article' = w.article
    /\ UNCHANGED <<answer, raw, owner>>

------------------------------------------------------------------------------
\* Agents.

Open(r, j) == sent[r][j] > 0 /\ answer[r][j] = "none"
Record(r, j, a) == answer' = [answer EXCEPT ![r][j] = a]

Fail(r, j) ==
    /\ Open(r, j) /\ Record(r, j, "failed")
    /\ UNCHANGED <<rows, sent, queued, raw, owner, topic, article>>

FetchSource(r, s) ==
    /\ Open(r, <<"source_fetch", s>>) /\ Record(r, <<"source_fetch", s>>, "done")
    /\ raw' \in {raw, [raw EXCEPT ![r] = @ \cup {s}]}
    /\ UNCHANGED <<rows, sent, queued, owner, topic, article>>

ScoutTopics(r, T) ==
    /\ Open(r, ScoutJob) /\ Record(r, ScoutJob, "done")
    /\ \A t \in T : topic[t] = "absent"
    /\ topic' = [t \in Topics |-> IF t \in T THEN "candidate" ELSE topic[t]]
    /\ owner' = [t \in Topics |-> IF t \in T THEN r ELSE owner[t]]
    /\ UNCHANGED <<rows, sent, queued, raw, article>>

Evaluate(r, j, a) ==
    /\ j[1] \in {"topic_evaluate", "article_evaluate"}
    /\ Open(r, j) /\ Record(r, j, a)
    /\ UNCHANGED <<rows, sent, queued, raw, owner, topic, article>>

\* The writer takes only topics that have entered the writing state.
WriteArticle(r, t) ==
    /\ Open(r, <<"article_write", t>>) /\ Record(r, <<"article_write", t>>, "done")
    /\ topic[t] \in {"in_writing", "written"}
    /\ article' = [article EXCEPT ![<<t, r>>] = "draft"]
    /\ UNCHANGED <<rows, sent, queued, raw, owner, topic>>

Agent(r) ==
    \/ \E s \in Sources : FetchSource(r, s)
    \/ \E T \in SUBSET Topics : ScoutTopics(r, T)
    \/ \E j \in Jobs, a \in {"pass", "low"} : Evaluate(r, j, a)
    \/ \E t \in Topics : WriteArticle(r, t)
    \/ \E j \in Jobs : Fail(r, j)

\* A person's decision on an article.
ReviewArticle(x, to) ==
    /\ article[x] # "absent" /\ CanArticleTransition(article[x], to)
    /\ to \in {"approved", "rejected"}
    /\ article' = [article EXCEPT ![x] = to]
    /\ UNCHANGED <<rows, sent, queued, answer, raw, owner, topic>>

Next ==
    \/ \E parent \in {r \in Runs : Exists(r)}, child \in {r \in Children : ~Exists(r)} :
          \E from \in Nodes, mode \in Modes :
          \E selected \in SUBSET ReplaySource(parent, from).items :
              CreateReplay(parent, child, from, mode, selected)
    \/ \E r \in Children : ReconcileRun(r) \/ Agent(r)
    \/ \E x \in Articles, to \in ArticleStatus : ReviewArticle(x, to)

Spec == Init /\ [][Next]_vars

------------------------------------------------------------------------------
\* Properties.

\* The jobs a replay starts with and those its ticks send are given out once:
\* of the former no event tells, but the walk that begins behind them never
\* comes to ask for them.
FanOutOnce == \A r \in Runs, j \in Jobs : sent[r][j] <= 1

\* What a replay began with is, for good, what its parent put out, though the
\* parent may go on being reconciled.
ChildrenKeepTheirInput ==
    \A r \in Children :
        (Exists(r) /\ rows[r].start # "source_fetch") =>
            rows[r].input[rows[r].start] = rows[rows[r].parent].output[PreviousNode(rows[r].start)]

\* A replay of everything waits for nothing it has not asked for: each item of
\* an open stage's input has its job.  (One of some items waits for the rest.)
ReplaysOfAllAskForAll ==
    \A r \in Children, n \in {"topic_evaluate", "article_write", "article_evaluate"} :
        (/\ Active(r) /\ rows[r].mode \in {"full", "evaluate_only"}
         /\ rows[r].selected = {} /\ rows[r].input[n].taken /\ ~rows[r].output[n].taken) =>
            \A i \in rows[r].input[n].items : sent[r][<<n, i>>] > 0

\* A replay that has ended has had all its answers, unless it began with
\* fetches, for which it does not wait.
EndedReplaysAreDrained ==
    \A r \in Children, j \in Jobs :
        (~Active(r) /\ sent[r][j] > 0 /\ rows[r].start # "source_fetch") => answer[r][j] # "none"

\* A run waits for a human exactly if there is something on its desk, and all
\* of it has passed an evaluation in that run, or in the parent of a replay of
\* the review alone.
DesksAreEarned ==
    \A r \in Runs :
        /\ rows[r].status = "waiting_human_review" <=> rows[r].desk # {}
        /\ LET judge == IF rows[r].start = "human_review" THEN rows[r].parent ELSE r
           IN  \A x \in rows[r].desk : answer[judge][<<"article_evaluate", x>>] = "pass"

\* A replay works on what its parent put out, and has asked for all of it.
InputsAreTheParents == ChildrenKeepTheirInput /\ ReplaysOfAllAskForAll

\* A replay ends when its answers are there, or with a desk that is earned.
EndsAreEarned == EndedReplaysAreDrained /\ DesksAreEarned

\* A topic in writing has been given to a writer by some run, unless a replay
\* of its evaluation alone has moved it there.
TopicsInWritingHaveWriters ==
    \A t \in Topics : topic[t] = "in_writing" =>
        \/ \E r \in Runs : sent[r][<<"article_write", t>>] > 0
        \/ \E r \in Children : /\ rows[r].mode = "evaluate_only" /\ rows[r].start = "topic_evaluate"
                              /\ answer[r][<<"topic_evaluate", t>>] = "pass"

\* Replays change no run that has ended or waits, their parents least of all.
SettledRunsRest ==
    [][\A r \in Runs : (Exists(r) /\ ~Active(r)) =>
          rows'[r] = rows[r] /\ sent'[r] = sent[r]]_vars

=================================================================================
