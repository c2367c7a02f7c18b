-------------------------- MODULE ContentRun_proofs --------------------------
(***************************************************************************)
(* Theorems about ContentRun, for any sets of Core instances, sources,     *)
(* topics and platforms: first the run's lock, its jobs and vetoes, then   *)
(* its stages.  Their snapshots form a line, their gates let through what  *)
(* they send on, and what a closed stage says of its items stays true.     *)
(***************************************************************************)
EXTENDS ContentRun, FiniteSetTheorems, TLAPS

\* The row of a run that has been created.
CreatedRow == {r \in RunRow : r.status # "absent"}

\* What a transaction writes to the rows of topics and articles.
TopicRows == [Topics -> TopicStatus \cup {Unwritten}]
ArticleRows == [Targets -> ArticleStatus \cup {Unwritten}]

-----------------------------------------------------------------------------
(* The run's row keeps its type through every helper of a reconciliation.   *)

\* A node closes with items of its own kind in its output snapshot.
LEMMA CloseNodeType ==
    ASSUME NEW r \in CreatedRow, NEW n \in Nodes, NEW items \in SUBSET OutputItems[n],
           NEW outcome \in NodeStatus
    PROVE  CloseNode(r, n, items, outcome) \in CreatedRow
  <1> DEFINE snap == IF r.output[n].taken THEN r.output[n]
                     ELSE [taken |-> TRUE, items |-> items]
  <1>1. OutputItems[n] \subseteq Item
        BY DEF OutputItems, Item, Nodes
  <1>2. snap \in Snapshot /\ snap.items \subseteq OutputItems[n]
        BY <1>1 DEF CreatedRow, RunRow, Snapshots, Snapshot
  <1>3. CloseNode(r, n, items, outcome) =
            [r EXCEPT !.output[n] = snap, !.node[n] = outcome]
        BY DEF CloseNode, CreatedRow, RunRow
  <1> HIDE DEF snap
  <1>4. /\ [r.output EXCEPT ![n] = snap] \in Snapshots(OutputItems)
        /\ [r.node EXCEPT ![n] = outcome] \in [Nodes -> NodeStatus]
        BY <1>2 DEF CreatedRow, RunRow, Snapshots
  <1> QED BY <1>3, <1>4 DEF CreatedRow, RunRow

\* The next node takes the output of this one, when they deal in the same items.
LEMMA BindInputType ==
    ASSUME NEW r \in CreatedRow, NEW n \in Nodes, NEW next \in Nodes,
           OutputItems[n] = InputItems[next]
    PROVE  BindInput(r, n, next) \in CreatedRow
  <1> DEFINE snap == IF r.input[next].taken THEN r.input[next] ELSE r.output[n]
  <1>1. snap \in Snapshot /\ snap.items \subseteq InputItems[next]
        BY DEF CreatedRow, RunRow, Snapshots
  <1>2. BindInput(r, n, next) = [r EXCEPT !.input[next] = snap]
        BY DEF BindInput, CreatedRow, RunRow
  <1> HIDE DEF snap
  <1>3. [r.input EXCEPT ![next] = snap] \in Snapshots(InputItems)
        BY <1>1 DEF CreatedRow, RunRow, Snapshots
  <1> QED BY <1>2, <1>3 DEF CreatedRow, RunRow

\* Ending a run, empty or failed, touches its status and reason only.
LEMMA EndType ==
    ASSUME NEW r \in CreatedRow, NEW why \in Reason
    PROVE  CompleteEmpty(r, why) \in CreatedRow /\ FailRun(r, why) \in CreatedRow
  BY DEF CompleteEmpty, FailRun, CreatedRow, RunRow, RunStatus

\* Skipping the nodes after one ends the run as well.
LEMMA SkipAfterType ==
    ASSUME NEW r \in CreatedRow, NEW n \in Nodes, NEW why \in Reason
    PROVE  SkipAfter(r, n, why) \in CreatedRow
  <1> DEFINE skipped == [r EXCEPT !.node = [m \in Nodes |->
             IF NodeIndex[m] > NodeIndex[n] THEN "skipped" ELSE @[m]]]
  <1>1. skipped \in CreatedRow
        BY DEF CreatedRow, RunRow, NodeStatus
  <1> QED BY <1>1, EndType DEF SkipAfter

\* A node's outcome is a status of the node.
LEMMA OutcomeType == ASSUME NEW bad PROVE Outcome(bad) \in NodeStatus
  BY DEF Outcome, NodeStatus

\* The last stage puts articles, and nothing else, on the desk.
LEMMA FinishReviewStageType ==
    ASSUME NEW r \in CreatedRow, NEW accepted \in SUBSET Targets, NEW bad
    PROVE  FinishReviewStage(r, accepted, bad) \in CreatedRow
  <1>1. CloseNode(r, "human_review", accepted, Outcome(bad)) \in CreatedRow
        BY OutcomeType, CloseNodeType DEF Nodes, OutputItems
  <1> QED BY <1>1 DEF FinishReviewStage, CreatedRow, RunRow, RunStatus

-----------------------------------------------------------------------------
(* What a step of a reconciliation does to the state as a whole.            *)

\* Going on to another stage changes the instance's own transaction only.
LEMMA AdvanceType ==
    ASSUME TypeOK, NEW c \in Cores, NEW next \in Nodes, NEW r \in CreatedRow,
           NEW jobs \in SUBSET Jobs,
           NEW topics \in TopicRows, NEW articles \in ArticleRows,
           Advance(c, next, r, jobs, topics, articles)
    PROVE  TypeOK'
  <1> DEFINE sends == txn[c].sends \cup {j \in jobs : ~Queued(c, j)}
             t == [at |-> next, run |-> r, sends |-> sends,
                   topic |-> topics, article |-> articles]
  <1>1. txn \in [Cores -> Txn]
        BY DEF TypeOK
  <1>2. sends \in SUBSET Jobs
        BY <1>1 DEF Txn
  <1>3. t \in Txn
        BY <1>2 DEF Txn, CreatedRow, TopicRows, ArticleRows
  <1>4. txn' = [txn EXCEPT ![c] = t]
        BY <1>1 DEF Advance
  <1> HIDE DEF t
  <1>5. txn' \in [Cores -> Txn]
        BY <1>1, <1>3, <1>4
  <1>6. UNCHANGED <<run, sent, topic, vetoed, article, agentVars>>
        BY DEF Advance
  <1> QED BY <1>5, <1>6 DEF TypeOK, agentVars

\* The idle transaction is a transaction.
LEMMA IdleType == Idle \in Txn
  BY DEF Idle, Txn, NoRun, RunRow, RunStatus, Reason, NodeStatus, NoSnapshot,
         Snapshot, Snapshots, Nodes

\* A commit publishes the private copy, of the right types.
LEMMA CommitType ==
    ASSUME TypeOK, NEW c \in Cores, NEW r \in CreatedRow, Commit(c, r)
    PROVE  TypeOK'
  <1>1. txn[c] \in Txn
        BY DEF TypeOK
  <1>2. sent' \in [Jobs -> Nat]
        BY DEF TypeOK, Commit
  <1>3. topic' \in [Topics -> TopicStatus \cup {"absent"}]
        BY <1>1 DEF TypeOK, Commit, SeenTopic, Txn
  <1>4. article' \in [Targets -> ArticleStatus \cup {"absent"}]
        BY <1>1 DEF TypeOK, Commit, SeenArticle, Txn
  <1>5. txn' \in [Cores -> Txn]
        BY IdleType DEF TypeOK, Commit
  <1> QED BY <1>2, <1>3, <1>4, <1>5 DEF TypeOK, Commit, agentVars, CreatedRow

\* A rollback drops it.
LEMMA RollbackType ==
    ASSUME TypeOK, NEW c \in Cores, Rollback(c)
    PROVE  TypeOK'
  BY IdleType DEF TypeOK, Rollback, agentVars

-----------------------------------------------------------------------------
(* Every stage goes on to another with a row of the run, commits, or rolls  *)
(* back; and the topics it writes are none that were rejected.              *)

OpenRows == \A c \in Cores : txn[c].at # "idle" => txn[c].run.status # "absent"

\* Of the rows written, none was of a rejected topic.
SparesRejected(c, topics) ==
    \A t \in Topics : topics[t] # txn[c].topic[t] => SeenTopic(c, t) # "rejected"

GoesOn(c) ==
    \E next \in Nodes, r \in CreatedRow, jobs \in SUBSET Jobs,
       topics \in TopicRows, articles \in ArticleRows :
        /\ SparesRejected(c, topics)
        /\ Advance(c, next, r, jobs, topics, articles)
Publishes(c) == \E r \in CreatedRow : Commit(c, r)

StageStep(c) ==
    /\ txn[c].at # "idle"
    /\ GoesOn(c) \/ Publishes(c) \/ Rollback(c)

\* The stage of the sources: waits, fails, skips or hands on what was fetched.
LEMMA SourceFetchStep ==
    ASSUME TypeOK, OpenRows, NEW c \in Cores, ReconcileSourceFetch(c)
    PROVE  StageStep(c)
  <1> DEFINE r    == txn[c].run
             bad  == {s \in r.sources : <<"source_fetch", s>> \in failed}
             done == CloseNode(r, "source_fetch", raw, Outcome(bad))
             Proceed(row, jobs) == Advance(c, "topic_scout", row, jobs,
                                           txn[c].topic, txn[c].article)
  <1>0. txn[c].at # "idle"
        BY DEF ReconcileSourceFetch
  <1>1. txn[c] \in Txn /\ r \in CreatedRow
        BY <1>0 DEF TypeOK, OpenRows, Txn, CreatedRow
  <1>2. done \in CreatedRow
        BY <1>1, OutcomeType, CloseNodeType DEF TypeOK, Nodes, OutputItems
  <1> HIDE DEF r, bad, done
  <1>3. ASSUME NEW row \in CreatedRow, NEW jobs \in SUBSET Jobs, Proceed(row, jobs)
        PROVE  StageStep(c)
        BY <1>0, <1>1, <1>3
        DEF Nodes, Txn, StageStep, GoesOn, TopicRows, ArticleRows, SparesRejected
  <1>4. /\ FailRun(done, "all_source_fetch_failed") \in CreatedRow
        /\ SkipAfter(done, "source_fetch", "no_new_raw_items") \in CreatedRow
        /\ BindInput(done, "source_fetch", "topic_scout") \in CreatedRow
        BY <1>2, EndType, SkipAfterType, BindInputType
        DEF Reason, Nodes, OutputItems, InputItems
  <1>5. {} \in SUBSET Jobs /\ {ScoutJob} \in SUBSET Jobs
        BY DEF Jobs
  <1>6. \/ Commit(c, r)
        \/ Proceed(FailRun(done, "all_source_fetch_failed"), {})
        \/ Proceed(SkipAfter(done, "source_fetch", "no_new_raw_items"), {})
        \/ Proceed(BindInput(done, "source_fetch", "topic_scout"), {ScoutJob})
        BY DEF ReconcileSourceFetch, r, bad, done
  <1> QED BY <1>0, <1>1, <1>3, <1>4, <1>5, <1>6 DEF StageStep, Publishes

\* The stage of the scout, whose output snapshot is of topics.
LEMMA TopicScoutStep ==
    ASSUME TypeOK, OpenRows, NEW c \in Cores, ReconcileTopicScout(c)
    PROVE  StageStep(c)
  <1> DEFINE r    == txn[c].run
             ids  == {t \in Topics : topic[t] # "absent"}
             bad  == {ScoutJob} \cap failed
             done == CloseNode(r, "topic_scout", ids,
                               IF bad = {} THEN "succeeded" ELSE "failed")
             Proceed(row, jobs) == Advance(c, "topic_evaluate", row, jobs,
                                           txn[c].topic, txn[c].article)
  <1>0. txn[c].at # "idle"
        BY DEF ReconcileTopicScout
  <1>1. txn[c] \in Txn /\ r \in CreatedRow
        BY <1>0 DEF TypeOK, OpenRows, Txn, CreatedRow
  <1>2. done \in CreatedRow
        BY <1>1, CloseNodeType DEF Nodes, OutputItems, NodeStatus
  <1>3. {} \in SUBSET Jobs /\ {"topic_evaluate"} \X ids \in SUBSET Jobs
        BY DEF Jobs
  <1> HIDE DEF r, ids, bad, done
  <1>4. ASSUME NEW row \in CreatedRow, NEW jobs \in SUBSET Jobs, Proceed(row, jobs)
        PROVE  StageStep(c)
        BY <1>0, <1>1, <1>4
        DEF Nodes, Txn, StageStep, GoesOn, TopicRows, ArticleRows, SparesRejected
  <1>5. /\ FailRun(done, "topic_scout_failed") \in CreatedRow
        /\ SkipAfter(done, "topic_scout", "scout_produced_no_topics") \in CreatedRow
        /\ BindInput(done, "topic_scout", "topic_evaluate") \in CreatedRow
        BY <1>2, EndType, SkipAfterType, BindInputType
        DEF Reason, Nodes, OutputItems, InputItems
  <1>6. \/ Commit(c, r)
        \/ Proceed(FailRun(done, "topic_scout_failed"), {})
        \/ Proceed(SkipAfter(done, "topic_scout", "scout_produced_no_topics"), {})
        \/ Proceed(BindInput(done, "topic_scout", "topic_evaluate"),
                   {"topic_evaluate"} \X ids)
        BY DEF ReconcileTopicScout, r, ids, bad, done
  <1> QED BY <1>0, <1>1, <1>3, <1>4, <1>5, <1>6 DEF StageStep, Publishes

\* The quality gate writes no row of a topic that it sees rejected.
LEMMA TopicEvaluateStep ==
    ASSUME TypeOK, OpenRows, NEW c \in Cores, ReconcileTopicEvaluate(c)
    PROVE  StageStep(c)
  <1> DEFINE r        == txn[c].run
             ids      == r.input["topic_evaluate"].items
             bad      == {t \in ids : verdict[t] = "none"}
             accepted == {t \in ids : verdict[t] = "pass"}
             done     == CloseNode(r, "topic_evaluate", accepted, Outcome(bad))
             gated    == [t \in Topics |->
                IF t \in ids /\ GateTopic(SeenTopic(c, t), verdict[t]) # Unwritten
                THEN GateTopic(SeenTopic(c, t), verdict[t])
                ELSE txn[c].topic[t]]
             Proceed(row, jobs, topics) ==
                Advance(c, "article_write", row, jobs, topics, txn[c].article)
  <1>0. txn[c].at # "idle"
        BY DEF ReconcileTopicEvaluate
  <1>1. txn[c] \in Txn /\ r \in CreatedRow
        BY <1>0 DEF TypeOK, OpenRows, Txn, CreatedRow
  <1>2. accepted \in SUBSET OutputItems["topic_evaluate"]
        BY <1>1 DEF CreatedRow, RunRow, Snapshots, Nodes, OutputItems, InputItems
  <1>3. done \in CreatedRow
        BY <1>1, <1>2, OutcomeType, CloseNodeType DEF Nodes
  <1>4. gated \in TopicRows
        BY <1>1 DEF GateTopic, Txn, TopicStatus, Unwritten, TopicRows
  <1>a. SparesRejected(c, gated)
        BY DEF SparesRejected, GateTopic
  <1>5. {} \in SUBSET Jobs
        /\ {"article_write"} \X TargetsOf(accepted) \in SUBSET Jobs
        BY DEF Jobs, TargetsOf
  <1> HIDE DEF r, ids, bad, accepted, done, gated
  <1>6. ASSUME NEW row \in CreatedRow, NEW jobs \in SUBSET Jobs,
               NEW topics \in TopicRows, SparesRejected(c, topics),
               Proceed(row, jobs, topics)
        PROVE  StageStep(c)
        BY <1>0, <1>1, <1>6
        DEF Nodes, Txn, StageStep, GoesOn, TopicRows, ArticleRows, SparesRejected
  <1>7. /\ SkipAfter(r, "topic_evaluate", "no_topics_to_evaluate") \in CreatedRow
        /\ SkipAfter(done, "topic_evaluate", "all_topics_rejected") \in CreatedRow
        /\ BindInput(done, "topic_evaluate", "article_write") \in CreatedRow
        BY <1>1, <1>3, SkipAfterType, BindInputType
        DEF Reason, Nodes, OutputItems, InputItems
  <1>8. \/ Commit(c, r)
        \/ Proceed(SkipAfter(r, "topic_evaluate", "no_topics_to_evaluate"), {},
                   txn[c].topic)
        \/ Proceed(SkipAfter(done, "topic_evaluate", "all_topics_rejected"), {},
                   gated)
        \/ Proceed(BindInput(done, "topic_evaluate", "article_write"),
                   {"article_write"} \X TargetsOf(accepted), gated)
        BY DEF ReconcileTopicEvaluate, r, ids, bad, accepted, done, gated
  <1>9. txn[c].topic \in TopicRows /\ SparesRejected(c, txn[c].topic)
        BY <1>1 DEF Txn, TopicRows, SparesRejected
  <1> QED BY <1>0, <1>1, <1>4, <1>5, <1>6, <1>7, <1>8, <1>9, <1>a
         DEF StageStep, Publishes

\* The stage of the writers writes rows of topics in writing only.
LEMMA ArticleWriteStep ==
    ASSUME TypeOK, OpenRows, NEW c \in Cores, ReconcileArticleWrite(c)
    PROVE  StageStep(c)
  <1> DEFINE r       == txn[c].run
             ids     == r.input["article_write"].items
             targets == TargetsOf(ids)
             bad     == {x \in targets : article[x] = "absent"}
             written == targets \ bad
             done    == CloseNode(r, "article_write", written, Outcome(bad))
             closed  == [t \in Topics |->
                            IF t \in ids /\ SeenTopic(c, t) = "in_writing"
                            THEN "written" ELSE txn[c].topic[t]]
             Proceed(row, jobs, topics) ==
                Advance(c, "article_evaluate", row, jobs, topics, txn[c].article)
  <1>0. txn[c].at # "idle"
        BY DEF ReconcileArticleWrite
  <1>1. txn[c] \in Txn /\ r \in CreatedRow
        BY <1>0 DEF TypeOK, OpenRows, Txn, CreatedRow
  <1>2. written \in SUBSET Targets
        BY DEF TargetsOf
  <1>3. done \in CreatedRow
        BY <1>1, <1>2, OutcomeType, CloseNodeType DEF Nodes, OutputItems
  <1>4. closed \in TopicRows
        BY <1>1 DEF Txn, TopicStatus, TopicRows
  <1>a. SparesRejected(c, closed)
        BY DEF SparesRejected
  <1>5. {} \in SUBSET Jobs /\ {"article_evaluate"} \X written \in SUBSET Jobs
        BY <1>2 DEF Jobs
  <1> HIDE DEF r, ids, targets, bad, written, done, closed
  <1>6. ASSUME NEW row \in CreatedRow, NEW jobs \in SUBSET Jobs,
               NEW topics \in TopicRows, SparesRejected(c, topics),
               Proceed(row, jobs, topics)
        PROVE  StageStep(c)
        BY <1>0, <1>1, <1>6
        DEF Nodes, Txn, StageStep, GoesOn, TopicRows, ArticleRows, SparesRejected
  <1>7. /\ SkipAfter(r, "article_write", "no_accepted_topics") \in CreatedRow
        /\ SkipAfter(r, "article_write", "accepted_topics_have_no_platforms") \in CreatedRow
        /\ SkipAfter(done, "article_write", "all_writes_failed") \in CreatedRow
        /\ BindInput(done, "article_write", "article_evaluate") \in CreatedRow
        BY <1>1, <1>3, SkipAfterType, BindInputType
        DEF Reason, Nodes, OutputItems, InputItems
  <1>8. \/ Commit(c, r)
        \/ Proceed(SkipAfter(r, "article_write", "no_accepted_topics"), {},
                   txn[c].topic)
        \/ Proceed(SkipAfter(r, "article_write",
                             "accepted_topics_have_no_platforms"), {},
                   txn[c].topic)
        \/ Proceed(SkipAfter(done, "article_write", "all_writes_failed"), {},
                   txn[c].topic)
        \/ Proceed(BindInput(done, "article_write", "article_evaluate"),
                   {"article_evaluate"} \X written, closed)
        BY DEF ReconcileArticleWrite, r, ids, targets, bad, written, done, closed
  <1>9. txn[c].topic \in TopicRows /\ SparesRejected(c, txn[c].topic)
        BY <1>1 DEF Txn, TopicRows, SparesRejected
  <1> QED BY <1>0, <1>1, <1>4, <1>5, <1>6, <1>7, <1>8, <1>9, <1>a
         DEF StageStep, Publishes

\* The stage of the article evaluations writes rows of articles, not of topics.
LEMMA ArticleEvaluateStep ==
    ASSUME TypeOK, OpenRows, NEW c \in Cores, ReconcileArticleEvaluate(c)
    PROVE  StageStep(c)
  <1> DEFINE r        == txn[c].run
             ids      == r.input["article_evaluate"].items
             bad      == {x \in ids : quality[x] = "none"}
             accepted == {x \in ids : /\ quality[x] = "pass"
                                      /\ SeenArticle(c, x) \in {"draft", "pending_review"}}
             gated    == [x \in Targets |->
                IF x \in ids /\ GateArticle(SeenArticle(c, x), quality[x]) # Unwritten
                THEN GateArticle(SeenArticle(c, x), quality[x])
                ELSE txn[c].article[x]]
             done     == CloseNode(r, "article_evaluate", accepted, Outcome(bad))
             Proceed(row, articles) ==
                Advance(c, "human_review", row, {}, txn[c].topic, articles)
  <1>0. txn[c].at # "idle"
        BY DEF ReconcileArticleEvaluate
  <1>1. txn[c] \in Txn /\ r \in CreatedRow
        BY <1>0 DEF TypeOK, OpenRows, Txn, CreatedRow
  <1>2. accepted \in SUBSET Targets
        BY <1>1 DEF CreatedRow, RunRow, Snapshots, Nodes, InputItems
  <1>3. done \in CreatedRow
        BY <1>1, <1>2, OutcomeType, CloseNodeType DEF Nodes, OutputItems
  <1>4. gated \in ArticleRows
        BY <1>1 DEF GateArticle, Txn, ArticleStatus, Unwritten, ArticleRows
  <1> HIDE DEF r, ids, bad, accepted, done, gated
  <1>5. ASSUME NEW row \in CreatedRow,
               NEW articles \in ArticleRows,
               Proceed(row, articles)
        PROVE  StageStep(c)
        BY <1>0, <1>1, <1>5
        DEF Nodes, Txn, StageStep, GoesOn, TopicRows, ArticleRows, SparesRejected
  <1>6. /\ SkipAfter(r, "article_evaluate", "no_articles_to_evaluate") \in CreatedRow
        /\ FinishReviewStage(done, accepted, bad) \in CreatedRow
        BY <1>1, <1>2, <1>3, SkipAfterType, FinishReviewStageType DEF Reason, Nodes
  <1>7. \/ Commit(c, r)
        \/ Proceed(SkipAfter(r, "article_evaluate", "no_articles_to_evaluate"),
                   txn[c].article)
        \/ Proceed(FinishReviewStage(done, accepted, bad), gated)
        \/ Rollback(c)
        BY DEF ReconcileArticleEvaluate, r, ids, bad, accepted, done, gated
  <1>8. txn[c].article \in ArticleRows
        BY <1>1 DEF Txn, ArticleRows
  <1> QED BY <1>0, <1>1, <1>4, <1>5, <1>6, <1>7, <1>8 DEF StageStep, Publishes

\* The last stage always commits.
LEMMA HumanReviewStep ==
    ASSUME TypeOK, OpenRows, NEW c \in Cores, ReconcileHumanReview(c)
    PROVE  StageStep(c)
  <1> DEFINE r == txn[c].run
             last == IF r.review = {}
                     THEN CompleteEmpty(r, "no_article_passed_quality_gate")
                     ELSE [r EXCEPT !.status = IF @ \in {"queued", "running"}
                                               THEN "waiting_human_review" ELSE @]
  <1>0. txn[c].at # "idle"
        BY DEF ReconcileHumanReview
  <1>1. r \in CreatedRow
        BY <1>0 DEF TypeOK, OpenRows, Txn, CreatedRow
  <1>2. last \in CreatedRow
    <2>1. CompleteEmpty(r, "no_article_passed_quality_gate") \in CreatedRow
          BY <1>1, EndType DEF Reason
    <2> HIDE DEF r
    <2>2. [r EXCEPT !.status = IF @ \in {"queued", "running"}
                               THEN "waiting_human_review" ELSE @] \in CreatedRow
          BY <1>1 DEF CreatedRow, RunRow, RunStatus
    <2> QED BY <2>1, <2>2
  <1>3. Commit(c, last)
        BY DEF ReconcileHumanReview
  <1> QED BY <1>0, <1>2, <1>3 DEF StageStep, Publishes

-----------------------------------------------------------------------------
\* A run is created with a row of its type.
LEMMA CreateType ==
    ASSUME TypeOK, NEW S \in SUBSET Sources, CreateContentRun(S)
    PROVE  TypeOK'
  <1>1. run' \in RunRow
        BY DEF TypeOK, CreateContentRun, RunRow, RunStatus, Reason
  <1>2. sent' \in [Jobs -> Nat]
        BY DEF TypeOK, CreateContentRun
  <1> QED BY <1>1, <1>2 DEF TypeOK, CreateContentRun, agentVars

\* A reconciliation starts from the committed row.
LEMMA BeginType ==
    ASSUME TypeOK, NEW c \in Cores, BeginReconcile(c)
    PROVE  TypeOK'
  <1> DEFINE row == [run EXCEPT !.status = "running"]
  <1>1. row \in RunRow
        BY DEF TypeOK, RunRow, RunStatus
  <1> HIDE DEF row
  <1>2. ASSUME NEW t \in Txn
        PROVE  [t EXCEPT !.at = "source_fetch", !.run = row] \in Txn
        BY <1>1 DEF Txn, Nodes
  <1>3. txn' \in [Cores -> Txn]
        BY <1>2 DEF BeginReconcile, TypeOK, row
  <1> QED BY <1>3 DEF TypeOK, BeginReconcile, agentVars

\* The agents write result rows and events of their types.
LEMMA AgentType ==
    ASSUME TypeOK, AgentStep
    PROVE  TypeOK'
  <1>1. ASSUME NEW s \in Sources, FetchItems(s)
        PROVE  TypeOK'
        BY <1>1 DEF TypeOK, FetchItems
  <1>2. ASSUME NEW t \in Topics, ProposeTopic(t)
        PROVE  TypeOK'
        BY <1>2 DEF TypeOK, ProposeTopic, agentVars, TopicStatus
  <1>3. ASSUME NEW t \in Topics, NEW v \in {"pass", "low"}, EvaluateTopic(t, v)
        PROVE  TypeOK'
        BY <1>3 DEF TypeOK, EvaluateTopic, Jobs
  <1>4. ASSUME NEW x \in Targets, WriteArticle(x)
        PROVE  TypeOK'
        BY <1>4 DEF TypeOK, WriteArticle, Jobs, ArticleStatus
  <1>5. ASSUME NEW x \in Targets, NEW q \in {"pass", "low"}, EvaluateArticle(x, q)
        PROVE  TypeOK'
        BY <1>5 DEF TypeOK, EvaluateArticle, Jobs
  <1>6. ASSUME NEW j \in Jobs, ReportSuccess(j) \/ ReportFailure(j)
        PROVE  TypeOK'
        BY <1>6 DEF TypeOK, ReportSuccess, ReportFailure
  <1> QED BY <1>1, <1>2, <1>3, <1>4, <1>5, <1>6 DEF AgentStep

\* The review API and the harvester write statuses only.
LEMMA OutsideType ==
    ASSUME TypeOK, OutsideStep
    PROVE  TypeOK'
  <1>1. ASSUME NEW t \in Topics, RejectTopic(t)
        PROVE  TypeOK'
        BY <1>1 DEF TypeOK, RejectTopic, agentVars, TopicStatus
  <1>2. ASSUME NEW t \in Topics, TransitionWritten(t)
        PROVE  TypeOK'
        BY <1>2 DEF TypeOK, TransitionWritten, agentVars, TopicStatus
  <1>3. ASSUME NEW x \in Targets, NEW to \in {"approved", "rejected"},
               ReviewArticle(x, to)
        PROVE  TypeOK'
        BY <1>3 DEF TypeOK, ReviewArticle, agentVars, ArticleStatus
  <1> QED BY <1>1, <1>2, <1>3 DEF OutsideStep

-----------------------------------------------------------------------------
(* The inductive invariant.  An open transaction holds the run's lock and   *)
(* saw the run active, its sends are of jobs nobody has sent, and the rows  *)
(* of topics it wrote are none a person has rejected.                       *)

OneTransaction ==
    \A c, d \in Cores : txn[c].at # "idle" /\ txn[d].at # "idle" => c = d
OpenWhileActive ==
    \A c \in Cores : txn[c].at # "idle" => run.status \in {"queued", "running"}
BlankWhenIdle == \A c \in Cores : txn[c].at = "idle" => txn[c] = Idle
SendsAreNew == \A c \in Cores : \A j \in txn[c].sends : sent[j] = 0
NothingBeforeCreation == run.status = "absent" => \A j \in Jobs : sent[j] = 0
SparesVetoed ==
    \A c \in Cores, t \in Topics : txn[c].topic[t] # Unwritten => t \notin vetoed

LockInv == OneTransaction /\ OpenWhileActive /\ BlankWhenIdle /\ OpenRows
SendInv == SendsAreNew /\ NothingBeforeCreation /\ FanOutOnce
VetoInv == SparesVetoed /\ VetoIsFinal

Inv == TypeOK /\ LockInv /\ SendInv /\ VetoInv

\* Creation happens before any job is out and any transaction open.
LEMMA CreateInv ==
    ASSUME Inv, NEW S \in SUBSET Sources, CreateContentRun(S)
    PROVE  Inv'
  <1>1. TypeOK'
        BY CreateType DEF Inv
  <1>2. txn' = txn /\ topic' = topic /\ vetoed' = vetoed /\ run.status = "absent"
        BY DEF CreateContentRun
  <1>3. \A c \in Cores : txn[c].at = "idle" /\ txn[c].sends = {}
        BY <1>2 DEF Inv, LockInv, OpenWhileActive, BlankWhenIdle, Idle
  <1>4. LockInv'
        BY <1>2, <1>3 DEF Inv, LockInv, OneTransaction, OpenWhileActive,
           BlankWhenIdle, OpenRows
  <1>5. \A j \in Jobs : sent'[j] \in {0, 1}
        BY <1>2 DEF CreateContentRun, Inv, SendInv, NothingBeforeCreation
  <1>6. run'.status # "absent"
        BY DEF CreateContentRun, Inv, TypeOK, RunRow
  <1>7. SendInv'
        BY <1>2, <1>3, <1>5, <1>6
        DEF SendInv, SendsAreNew, NothingBeforeCreation, FanOutOnce
  <1>8. VetoInv'
        BY <1>2 DEF Inv, VetoInv, SparesVetoed, VetoIsFinal
  <1> QED BY <1>1, <1>4, <1>7, <1>8 DEF Inv

\* A new transaction has sent nothing and written nothing.
LEMMA BeginInv ==
    ASSUME Inv, NEW c \in Cores, BeginReconcile(c)
    PROVE  Inv'
  <1> DEFINE t == [txn[c] EXCEPT !.at = "source_fetch",
                                 !.run = [run EXCEPT !.status = "running"]]
  <1>1. TypeOK'
        BY BeginType DEF Inv
  <1>2. txn \in [Cores -> Txn] /\ run \in RunRow
        BY DEF Inv, TypeOK
  <1>3. /\ \A d \in Cores : txn[d].at = "idle"
        /\ run.status \in {"queued", "running"}
        /\ txn' = [txn EXCEPT ![c] = t]
        /\ UNCHANGED <<run, sent, topic, vetoed>>
        BY <1>2 DEF BeginReconcile, RunRowFree
  <1>4. /\ t.at = "source_fetch" /\ t.sends = {} /\ t.run.status = "running"
        /\ t.topic = txn[c].topic
        BY <1>2, <1>3 DEF Txn, RunRow, Inv, LockInv, BlankWhenIdle, Idle
  <1> HIDE DEF t
  <1>5. \A d \in Cores : txn'[d] = IF d = c THEN t ELSE txn[d]
        BY <1>2, <1>3
  <1>6. LockInv'
        BY <1>3, <1>4, <1>5 DEF Inv, LockInv, OneTransaction, OpenWhileActive,
           BlankWhenIdle, OpenRows
  <1>7. SendInv'
        BY <1>3, <1>4, <1>5
        DEF Inv, SendInv, SendsAreNew, NothingBeforeCreation, FanOutOnce
  <1>8. VetoInv'
        BY <1>3, <1>4, <1>5 DEF Inv, VetoInv, SparesVetoed, VetoIsFinal
  <1> QED BY <1>1, <1>6, <1>7, <1>8 DEF Inv

\* Going on to another stage: the jobs added are none that were sent, and
\* the rows added are none of a rejected topic.
LEMMA GoesOnInv ==
    ASSUME Inv, NEW c \in Cores, txn[c].at # "idle", GoesOn(c)
    PROVE  Inv'
  <1>1. PICK next \in Nodes, r \in CreatedRow, jobs \in SUBSET Jobs,
             topics \in TopicRows, articles \in ArticleRows :
                /\ SparesRejected(c, topics)
                /\ Advance(c, next, r, jobs, topics, articles)
        BY DEF GoesOn
  <1> DEFINE sends == txn[c].sends \cup {j \in jobs : ~Queued(c, j)}
             t == [at |-> next, run |-> r, sends |-> sends,
                   topic |-> topics, article |-> articles]
  <1>2. TypeOK'
        BY <1>1, AdvanceType DEF Inv
  <1>3. txn \in [Cores -> Txn] /\ sent \in [Jobs -> Nat]
        BY DEF Inv, TypeOK
  <1>4. txn' = [txn EXCEPT ![c] = t] /\ UNCHANGED <<run, sent, topic, vetoed>>
        BY <1>1, <1>3 DEF Advance
  <1>5. \A d \in Cores : txn'[d] = IF d = c THEN t ELSE txn[d]
        BY <1>3, <1>4
  <1>6. t.at # "idle" /\ t.run.status # "absent"
        BY DEF Nodes, CreatedRow
  <1>7. LockInv'
    <2> HIDE DEF t
    <2> QED BY <1>4, <1>5, <1>6 DEF Inv, LockInv, OneTransaction,
               OpenWhileActive, BlankWhenIdle, OpenRows
  <1>8. SendInv'
    <2>1. \A j \in t.sends : sent[j] = 0
          BY <1>3 DEF Queued, Inv, SendInv, SendsAreNew
    <2> HIDE DEF t
    <2> QED BY <1>4, <1>5, <2>1
            DEF Inv, SendInv, SendsAreNew, NothingBeforeCreation, FanOutOnce
  <1>9. VetoInv'
    <2>1. \A u \in Topics : t.topic[u] # Unwritten => u \notin vetoed
      <3> SUFFICES ASSUME NEW u \in Topics, topics[u] # Unwritten, u \in vetoed
                   PROVE  FALSE
          OBVIOUS
      <3>1. txn[c].topic[u] = Unwritten /\ topic[u] = "rejected"
            BY DEF Inv, VetoInv, SparesVetoed, VetoIsFinal
      <3>2. SeenTopic(c, u) = "rejected"
            BY <3>1 DEF SeenTopic
      <3> QED BY <1>1, <3>1, <3>2 DEF SparesRejected
    <2> HIDE DEF t
    <2> QED BY <1>4, <1>5, <2>1 DEF Inv, VetoInv, SparesVetoed, VetoIsFinal
  <1> QED BY <1>2, <1>7, <1>8, <1>9 DEF Inv

\* A commit sends each job of the transaction for the first time.
LEMMA CommitInv ==
    ASSUME Inv, NEW c \in Cores, txn[c].at # "idle", NEW r \in CreatedRow, Commit(c, r)
    PROVE  Inv'
  <1>1. TypeOK'
        BY CommitType DEF Inv
  <1>2. txn \in [Cores -> Txn] /\ sent \in [Jobs -> Nat]
        BY DEF Inv, TypeOK
  <1>3. \A d \in Cores : txn'[d] = Idle
        BY <1>2 DEF Commit, Inv, LockInv, OneTransaction, BlankWhenIdle
  <1>4. LockInv'
        BY <1>3 DEF LockInv, OneTransaction, OpenWhileActive, BlankWhenIdle,
           OpenRows, Idle
  <1>5. run'.status # "absent"
        BY DEF Commit, CreatedRow
  <1>6. \A j \in Jobs : sent'[j] <= 1
        BY <1>2 DEF Commit, Inv, SendInv, SendsAreNew, FanOutOnce
  <1>7. SendInv'
        BY <1>3, <1>5, <1>6
        DEF SendInv, SendsAreNew, NothingBeforeCreation, FanOutOnce, Idle
  <1>8. \A t \in vetoed : topic'[t] = "rejected"
        BY DEF Commit, SeenTopic, Inv, TypeOK, VetoInv, SparesVetoed, VetoIsFinal
  <1>9. VetoInv'
        BY <1>3, <1>8 DEF Commit, VetoInv, SparesVetoed, VetoIsFinal, Idle
  <1> QED BY <1>1, <1>4, <1>7, <1>9 DEF Inv

\* A rollback leaves everything as it was committed.
LEMMA RollbackInv ==
    ASSUME Inv, NEW c \in Cores, Rollback(c)
    PROVE  Inv'
  <1>1. TypeOK'
        BY RollbackType DEF Inv
  <1>2. \A d \in Cores : txn'[d] = IF d = c THEN Idle ELSE txn[d]
        BY DEF Rollback, Inv, TypeOK
  <1>3. UNCHANGED <<run, sent, topic, vetoed>>
        BY DEF Rollback
  <1>0. Idle.at = "idle" /\ Idle.sends = {} /\ \A t \in Topics : Idle.topic[t] = Unwritten
        BY DEF Idle
  <1>4. LockInv'
        BY <1>0, <1>2, <1>3 DEF Inv, LockInv, OneTransaction, OpenWhileActive,
           BlankWhenIdle, OpenRows
  <1>5. SendInv'
        BY <1>0, <1>2, <1>3 DEF Inv, SendInv, SendsAreNew, NothingBeforeCreation,
           FanOutOnce
  <1>6. VetoInv'
        BY <1>0, <1>2, <1>3 DEF Inv, VetoInv, SparesVetoed, VetoIsFinal
  <1> QED BY <1>1, <1>4, <1>5, <1>6 DEF Inv

\* What leaves the run, its jobs and the transactions alone keeps the
\* invariant, as long as no rejected topic stirs.
LEMMA BystanderInv ==
    ASSUME Inv, TypeOK', UNCHANGED <<run, sent, txn>>, VetoInv'
    PROVE  Inv'
  BY DEF Inv, LockInv, OneTransaction, OpenWhileActive, BlankWhenIdle, OpenRows,
         SendInv, SendsAreNew, NothingBeforeCreation, FanOutOnce

\* The agents touch neither the run nor a topic that exists.
LEMMA AgentInv ==
    ASSUME Inv, AgentStep
    PROVE  Inv'
  <1>1. TypeOK'
        BY AgentType DEF Inv
  <1>2. UNCHANGED <<run, sent, vetoed, txn>>
        BY DEF AgentStep, FetchItems, ProposeTopic, EvaluateTopic, WriteArticle,
           EvaluateArticle, ReportSuccess, ReportFailure
  <1>3. \A t \in Topics : topic'[t] # topic[t] => topic[t] = "absent"
        BY DEF AgentStep, FetchItems, ProposeTopic, EvaluateTopic, WriteArticle,
           EvaluateArticle, ReportSuccess, ReportFailure, Inv, TypeOK
  <1>4. VetoInv'
        BY <1>2, <1>3 DEF Inv, TypeOK, VetoInv, SparesVetoed, VetoIsFinal
  <1> QED BY <1>1, <1>2, <1>4, BystanderInv

\* A rejection waits for the transactions that have written the topic.
LEMMA OutsideInv ==
    ASSUME Inv, OutsideStep
    PROVE  Inv'
  <1>1. TypeOK'
        BY OutsideType DEF Inv
  <1>2. UNCHANGED <<run, sent, txn>>
        BY DEF OutsideStep, RejectTopic, TransitionWritten, ReviewArticle
  <1>3. ASSUME NEW t \in Topics, RejectTopic(t)
        PROVE  VetoInv'
        BY <1>3 DEF RejectTopic, Inv, TypeOK, VetoInv, SparesVetoed, VetoIsFinal
  <1>4. ASSUME NEW t \in Topics, TransitionWritten(t)
        PROVE  VetoInv'
        BY <1>4 DEF TransitionWritten, Inv, TypeOK, VetoInv, SparesVetoed, VetoIsFinal
  <1>5. ASSUME NEW x \in Targets, NEW to \in {"approved", "rejected"},
               ReviewArticle(x, to)
        PROVE  VetoInv'
        BY <1>5 DEF ReviewArticle, Inv, VetoInv, SparesVetoed, VetoIsFinal
  <1> QED BY <1>1, <1>2, <1>3, <1>4, <1>5, BystanderInv DEF OutsideStep

\* Each stage keeps the invariant.
LEMMA StageInv ==
    ASSUME Inv, NEW c \in Cores, ReconcileStage(c)
    PROVE  Inv'
  <1>1. StageStep(c)
        BY SourceFetchStep, TopicScoutStep, TopicEvaluateStep, ArticleWriteStep,
           ArticleEvaluateStep, HumanReviewStep
        DEF ReconcileStage, Inv, LockInv
  <1> QED BY <1>1, GoesOnInv, CommitInv, RollbackInv DEF StageStep, Publishes

\* Every step keeps the invariant.
LEMMA NextInv ==
    ASSUME Inv, [Next]_vars
    PROVE  Inv'
  <1>1. CASE UNCHANGED vars
        BY <1>1, BystanderInv DEF Inv, TypeOK, VetoInv, SparesVetoed, VetoIsFinal,
           vars, agentVars
  <1>2. ASSUME NEW c \in Cores, CrashInReconcile(c)
        PROVE  Inv'
        BY <1>2, RollbackInv DEF CrashInReconcile
  <1>3. CASE CoreStep
        BY <1>2, <1>3, CreateInv, BeginInv, StageInv DEF CoreStep
  <1> QED BY <1>1, <1>3, AgentInv, OutsideInv DEF Next

\* The invariant holds when nothing has been created.
LEMMA InitInv == Init => Inv
  <1> SUFFICES ASSUME Init PROVE Inv
      OBVIOUS
  <1>1. run \in RunRow /\ txn \in [Cores -> Txn]
        BY IdleType DEF Init, Idle, Txn
  <1>2. TypeOK
        BY <1>1 DEF Init, TypeOK
  <1>3. LockInv /\ SendInv /\ VetoInv
        BY DEF Init, LockInv, OneTransaction, OpenWhileActive, BlankWhenIdle,
           OpenRows, SendInv, SendsAreNew, NothingBeforeCreation, FanOutOnce,
           VetoInv, SparesVetoed, VetoIsFinal, Idle
  <1> QED BY <1>2, <1>3 DEF Inv

\* The invariant holds for ever.
LEMMA Invariance == Spec => []Inv
  BY InitInv, NextInv, PTL DEF Spec

-----------------------------------------------------------------------------
\* Every variable of a run keeps its type, whatever the agents report, people
\* decide and Core instances do, crashes included.
THEOREM TypeCorrect == Spec => []TypeOK
  <1>1. Inv => TypeOK
        BY DEF Inv
  <1> QED BY <1>1, Invariance, PTL

\* However many Core instances reconcile a run, and wherever they crash, no
\* agent is given the same job twice.
THEOREM NoJobTwice == Spec => []FanOutOnce
  <1>1. Inv => FanOutOnce
        BY DEF Inv, SendInv
  <1> QED BY <1>1, Invariance, PTL

\* A person's rejection of a topic is never undone by a reconciliation, one
\* that was under way at the time included.
THEOREM VetoStands == Spec => []VetoIsFinal
  <1>1. Inv => VetoIsFinal
        BY DEF Inv, VetoInv
  <1> QED BY <1>1, Invariance, PTL

\* Once a run has ended or waits for a human, no tick changes it or gives out
\* a job for it.
THEOREM SettledRunsRest == Spec => SettledRunFrozen
  <1>1. ASSUME Inv, [Next]_vars, Settled
        PROVE  UNCHANGED <<run, sent>>
    <2>1. run.status \notin {"absent", "queued", "running"}
          BY <1>1 DEF Settled
    <2>2. \A c \in Cores : txn[c].at = "idle"
          BY <1>1, <2>1 DEF Inv, LockInv, OpenWhileActive
    <2>3. CASE UNCHANGED vars
          BY <2>3 DEF vars
    <2>4. CASE CoreStep
          BY <2>1, <2>2, <2>4 DEF CoreStep, CreateContentRun, BeginReconcile,
             ReconcileStage, ReconcileSourceFetch, ReconcileTopicScout,
             ReconcileTopicEvaluate, ReconcileArticleWrite,
             ReconcileArticleEvaluate, ReconcileHumanReview, CrashInReconcile
    <2>5. CASE AgentStep
          BY <2>5 DEF AgentStep, FetchItems, ProposeTopic, EvaluateTopic,
             WriteArticle, EvaluateArticle, ReportSuccess, ReportFailure
    <2>6. CASE OutsideStep
          BY <2>6 DEF OutsideStep, RejectTopic, TransitionWritten, ReviewArticle
    <2> QED BY <1>1, <2>3, <2>4, <2>5, <2>6 DEF Next
  <1>2. Inv /\ [Next]_vars => [Settled => UNCHANGED <<run, sent>>]_vars
        BY <1>1
  <1> QED BY <1>2, Invariance, PTL DEF Spec, SettledRunFrozen

-------------------------------------------------------------------------------
\* A transaction is open on a core, or the committed state is looked at as
\* the idle transaction sees it.
Reconciling(c) == txn[c].at # "idle"

\* What a transaction sees: the rows it wrote, and jobs it sent.
TopicSeen(t, u) == IF t.topic[u] = Unwritten THEN topic[u] ELSE t.topic[u]
ArticleSeen(t, x) == IF t.article[x] = Unwritten THEN article[x] ELSE t.article[x]
SentSeen(t, j) == sent[j] > 0 \/ j \in t.sends

-----------------------------------------------------------------------------
(* The line of stages.                                                      *)

WellFormed(r) ==
    \A n \in Nodes : /\ ~r.input[n].taken => r.input[n] = NoSnapshot
                     /\ ~r.output[n].taken => r.output[n] = NoSnapshot
InLine(r) == WellFormed(r) /\ Line!InOrder(r.input, r.output)

\* q has every snapshot of r.
Extends(r, q) ==
    \A n \in Nodes : /\ r.input[n] # NoSnapshot => q.input[n] = r.input[n]
                     /\ r.output[n] # NoSnapshot => q.output[n] = r.output[n]

LineOpen(t) ==
    /\ InLine(t.run)
    /\ Extends(run, t.run)
    /\ t.at = "topic_scout" => t.run.output["source_fetch"] # NoSnapshot
LineInv == InLine(run) /\ \A c \in Cores : Reconciling(c) => LineOpen(txn[c])

-----------------------------------------------------------------------------
(* Results are of jobs that were given out.                                 *)

Answered == succeeded \cup failed

ResultsInv ==
    /\ \A j \in Answered : sent[j] > 0
    /\ \A s \in raw : sent[<<"source_fetch", s>>] > 0
    /\ \A u \in Topics : topic[u] # "absent" => sent[ScoutJob] > 0
    /\ \A u \in Topics : verdict[u] # "none" => <<"topic_evaluate", u>> \in succeeded
    /\ \A x \in Targets : article[x] # "absent" => <<"article_write", x>> \in succeeded
    /\ \A x \in Targets : quality[x] # "none" => <<"article_evaluate", x>> \in succeeded
    /\ ~RetriesAfterFailure => succeeded \cap failed = {}

-----------------------------------------------------------------------------
(* The gates.                                                               *)

InWriting == {"in_writing", "written"}
OnDesk == {"pending_review", "approved", "rejected"}

GateOpen(t) ==
    /\ \A u \in Topics :
          /\ t.topic[u] # Unwritten => topic[u] # "absent"
          /\ TopicSeen(t, u) = "rejected" => u \in vetoed \/ verdict[u] = "low"
          /\ SentSeen(t, <<"topic_evaluate", u>>) => topic[u] # "absent"
    /\ \A x \in Targets :
          /\ TopicSeen(t, x[1]) \in InWriting => SentSeen(t, <<"article_write", x>>)
          /\ SentSeen(t, <<"article_write", x>>) =>
                 TopicSeen(t, x[1]) \in InWriting \/ x[1] \in vetoed
GateInv == GateOpen(Idle) /\ \A c \in Cores : GateOpen(txn[c])

\* The desk of a row is what an observer of the articles sees there.
DeskIs(r, t) ==
    /\ r.review = {x \in Targets : ArticleSeen(t, x) \in OnDesk}
    /\ \A x \in r.review : quality[x] = "pass"

DeskClosed ==
    /\ run.status \in {"absent", "queued", "running"} =>
           \A x \in Targets : article[x] \in {"absent", "draft"}
    /\ run.status = "waiting_human_review" <=> run.review # {}
    /\ run.status = "waiting_human_review" => DeskIs(run, Idle)
DeskOpen(t) ==
    \/ /\ t.run.status # "waiting_human_review"
       /\ t.run.review = {}
       /\ \A x \in Targets : t.article[x] = Unwritten
    \/ /\ t.at = "human_review"
       /\ t.run.status = "waiting_human_review"
       /\ DeskIs(t.run, t)
       /\ \A x \in Targets : t.article[x] # Unwritten => article[x] # "absent"
DeskInv == DeskClosed /\ \A c \in Cores : Reconciling(c) => DeskOpen(txn[c])

-----------------------------------------------------------------------------
(* The barriers.                                                            *)

Stages == {"source_fetch", "topic_scout", "topic_evaluate", "article_write",
           "article_evaluate"}
Fed == Stages \ {"source_fetch"}    \* the stages that have an input

Drained(t) == \A j \in Jobs : SentSeen(t, j) => j \in Answered

\* The jobs of a stage, by the sources or the input of the run's row.
JobsOf(r, n) ==
    CASE n = "source_fetch"     -> {"source_fetch"} \X r.sources
      [] n = "topic_scout"      -> {j \in {ScoutJob} : r.input["topic_scout"].taken}
      [] n = "topic_evaluate"   -> {"topic_evaluate"} \X r.input["topic_evaluate"].items
      [] n = "article_write"    -> {"article_write"} \X
                                       TargetsOf(r.input["article_write"].items)
      [] n = "article_evaluate" -> {"article_evaluate"} \X
                                       r.input["article_evaluate"].items

\* The items the database holds of a stage.
Results(n) ==
    CASE n = "source_fetch"     -> raw
      [] n = "topic_scout"      -> {u \in Topics : topic[u] # "absent"}
      [] n = "topic_evaluate"   -> {u \in Topics : verdict[u] = "pass"}
      [] n = "article_write"    -> {x \in Targets : article[x] # "absent"}
      [] n = "article_evaluate" -> {x \in Targets : quality[x] = "pass"}

\* A row and the jobs a transaction sees sent go together: every job is of a
\* stage, a stage works from something, and one that is closed has all its
\* jobs answered and put out what they made.
Whole(r, t) ==
    /\ \A j \in Jobs : SentSeen(t, j) => \E n \in Stages : j \in JobsOf(r, n)
    /\ \A n \in Fed : /\ r.input[n].taken => r.input[n].items # {}
                      /\ r.output[n].taken => r.input[n].taken
    /\ \A n \in Stages : r.output[n].taken =>
           r.output[n].items = Results(n) /\ JobsOf(r, n) \subseteq Answered

\* Where a reconciliation can be, and what it knows there: the run goes on,
\* with something for the stage to work from; or it has ended, or come to a
\* person, with every job answered.
Walking(t) ==
    \/ /\ t.run.status = "running"
       /\ t.run.reason = ""
       /\ t.at \in Stages
       /\ t.at \in Fed => t.run.input[t.at].taken
    \/ /\ t.run.status \in {"failed", "completed_empty"}
       /\ t.at # "source_fetch"
       /\ t.at \in Fed => ~t.run.input[t.at].taken
       /\ Drained(t)
       /\ ReasonIsTrue(t.run.reason)
    \/ /\ t.run.status = "waiting_human_review"
       /\ t.run.reason = ""
       /\ t.at = "human_review"
       /\ Drained(t)
       /\ t.run.review = {x \in Targets : quality[x] = "pass"}
       /\ \E x \in Targets : article[x] # "absent"

BarrierClosed ==
    /\ Whole(run, Idle)
    /\ Settled => Drained(Idle)
    /\ ~Settled => run.reason = ""
    /\ run.status = "absent" => run = NoRun
BarrierOpen(t) ==
    /\ t.run.sources = run.sources
    /\ Whole(t.run, t)
    /\ Walking(t)
BarrierInv == BarrierClosed /\ \A c \in Cores : Reconciling(c) => BarrierOpen(txn[c])

-----------------------------------------------------------------------------
(* What the helpers do to a row, field by field.                            *)

\* Closing a node gives it an output snapshot, if it has none ...
LEMMA CloseNodeIs ==
    ASSUME NEW r \in CreatedRow, NEW n \in Nodes, NEW items, NEW outcome
    PROVE  LET q == CloseNode(r, n, items, outcome)
           IN  /\ q.input = r.input
               /\ q.output = [r.output EXCEPT ![n] =
                     IF r.output[n].taken THEN r.output[n]
                     ELSE [taken |-> TRUE, items |-> items]]
  BY DEF CloseNode, CreatedRow, RunRow

\* ... and touches nothing else that is of interest here.
LEMMA CloseNodeKeeps ==
    ASSUME NEW r \in CreatedRow, NEW n, NEW items, NEW outcome
    PROVE  LET q == CloseNode(r, n, items, outcome)
           IN  /\ q.status = r.status /\ q.reason = r.reason
               /\ q.sources = r.sources /\ q.review = r.review
               /\ q.input = r.input
  BY DEF CloseNode, CreatedRow, RunRow

\* Handing an output on gives the next node an input, if it has none ...
LEMMA BindInputIs ==
    ASSUME NEW r \in CreatedRow, NEW n \in Nodes, NEW next \in Nodes
    PROVE  LET q == BindInput(r, n, next)
           IN  /\ q.output = r.output
               /\ q.input = [r.input EXCEPT ![next] =
                     IF r.input[next].taken THEN r.input[next] ELSE r.output[n]]
  BY DEF BindInput, CreatedRow, RunRow

\* ... and touches nothing else.
LEMMA BindInputKeeps ==
    ASSUME NEW r \in CreatedRow, NEW n, NEW next
    PROVE  LET q == BindInput(r, n, next)
           IN  /\ q.status = r.status /\ q.reason = r.reason
               /\ q.sources = r.sources /\ q.review = r.review
               /\ q.output = r.output
  BY DEF BindInput, CreatedRow, RunRow

\* Ending a run touches its status and reason, and the nodes' statuses.
LEMMA EndIs ==
    ASSUME NEW r \in CreatedRow, NEW n \in Nodes, NEW why,
           NEW q \in {CompleteEmpty(r, why), FailRun(r, why), SkipAfter(r, n, why)}
    PROVE  /\ q.sources = r.sources /\ q.review = r.review
           /\ q.input = r.input /\ q.output = r.output
           /\ ~CanEnd(r) => q.status = r.status /\ q.reason = r.reason
           /\ CanEnd(r) => /\ q.status \in {"failed", "completed_empty"}
                           /\ q.reason = why
  <1>1. CASE q = CompleteEmpty(r, why)
        BY <1>1 DEF CompleteEmpty, CanEnd, CreatedRow, RunRow
  <1>2. CASE q = FailRun(r, why)
        BY <1>2 DEF FailRun, CanEnd, CreatedRow, RunRow
  <1>3. CASE q = SkipAfter(r, n, why)
        BY <1>3 DEF SkipAfter, CompleteEmpty, CanEnd, CreatedRow, RunRow
  <1> QED BY <1>1, <1>2, <1>3

\* Going on replaces the instance's transaction and nothing else.
LEMMA AdvanceIs ==
    ASSUME TypeOK, NEW c \in Cores, NEW next, NEW r, NEW jobs, NEW topics, NEW articles,
           Advance(c, next, r, jobs, topics, articles)
    PROVE  /\ txn'[c].at = next /\ txn'[c].run = r
           /\ txn'[c].sends = txn[c].sends \cup {j \in jobs : ~Queued(c, j)}
           /\ txn'[c].topic = topics /\ txn'[c].article = articles
           /\ \A d \in Cores : d # c => txn'[d] = txn[d]
           /\ UNCHANGED <<run, sent, topic, vetoed, article, agentVars>>
  <1> DEFINE t == [at |-> next, run |-> r,
                   sends |-> txn[c].sends \cup {j \in jobs : ~Queued(c, j)},
                   topic |-> topics, article |-> articles]
  <1>1. txn \in [Cores -> Txn]
        BY DEF TypeOK
  <1>2. txn' = [txn EXCEPT ![c] = t]
        BY <1>1 DEF Advance
  <1>3. txn'[c] = t /\ \A d \in Cores : d # c => txn'[d] = txn[d]
        BY <1>1, <1>2
  <1> QED BY <1>3 DEF Advance

-----------------------------------------------------------------------------
(* Helpers of a reconciliation keep a row in line.                          *)

\* Once the stage before it is closed, a node can be.
LEMMA CloseInLine ==
    ASSUME NEW r \in CreatedRow, InLine(r), NEW n \in Nodes, NEW items, NEW outcome,
           \A m \in Nodes : Line!Before(m, n) => r.output[m] # NoSnapshot
    PROVE  LET q == CloseNode(r, n, items, outcome)
           IN  InLine(q) /\ Extends(r, q) /\ q.output[n] # NoSnapshot
  <1> DEFINE q == CloseNode(r, n, items, outcome)
             snap == IF r.output[n].taken THEN r.output[n]
                     ELSE [taken |-> TRUE, items |-> items]
  <1>1. q.input = r.input /\ q.output = [r.output EXCEPT ![n] = snap]
        BY CloseNodeIs
  <1>2. snap.taken = TRUE /\ NoSnapshot.taken = FALSE
        BY DEF NoSnapshot, CreatedRow, RunRow, Snapshots, Snapshot
  <1>3. r.output[n] # NoSnapshot => snap = r.output[n]
        BY DEF InLine, WellFormed
  <1> HIDE DEF snap, q
  <1>4. \A m \in Nodes : q.output[m] = IF m = n THEN snap ELSE r.output[m]
        BY <1>1 DEF CreatedRow, RunRow, Snapshots
  <1>5. WellFormed(q)
        BY <1>1, <1>2, <1>4 DEF InLine, WellFormed
  <1>6. Extends(r, q)
        BY <1>1, <1>3, <1>4 DEF Extends
  <1>7. snap # NoSnapshot
        BY <1>2
  <1>8. Line!InOrder(q.input, q.output)
        BY <1>1, <1>3, <1>4, <1>7 DEF InLine, Line!InOrder
  <1> QED BY <1>4, <1>5, <1>6, <1>7, <1>8 DEF InLine, q

\* The node after a closed one gets its output.
LEMMA BindInLine ==
    ASSUME NEW r \in CreatedRow, InLine(r), NEW n \in Nodes, NEW next \in Nodes,
           Line!Before(n, next), r.output[n] # NoSnapshot
    PROVE  LET q == BindInput(r, n, next)
           IN  InLine(q) /\ Extends(r, q) /\ q.output = r.output
  <1> DEFINE q == BindInput(r, n, next)
             snap == IF r.input[next].taken THEN r.input[next] ELSE r.output[n]
  <1>1. q.output = r.output /\ q.input = [r.input EXCEPT ![next] = snap]
        BY BindInputIs
  <1>2. NoSnapshot.taken = FALSE
        BY DEF NoSnapshot
  <1>3. /\ r.input[next] # NoSnapshot => snap = r.input[next]
        /\ snap = r.output[n]
        BY <1>2 DEF InLine, WellFormed, Line!InOrder
  <1> HIDE DEF snap, q
  <1>4. \A m \in Nodes : q.input[m] = IF m = next THEN snap ELSE r.input[m]
        BY <1>1 DEF CreatedRow, RunRow, Snapshots
  <1>5. WellFormed(q)
        BY <1>1, <1>3, <1>4 DEF InLine, WellFormed
  <1>6. Extends(r, q)
        BY <1>1, <1>3, <1>4 DEF Extends
  <1>7. \A m \in Nodes : Line!Before(m, next) => m = n
        BY DEF Line!Before, Nodes, NodeIndex
  <1>8. Line!InOrder(q.input, q.output)
        BY <1>1, <1>3, <1>4, <1>7 DEF InLine, Line!InOrder
  <1> QED BY <1>1, <1>5, <1>6, <1>8 DEF InLine, q

\* Rows with the same snapshots are in line together.
LEMMA SameInLine ==
    ASSUME NEW r, InLine(r), NEW q, q.input = r.input, q.output = r.output
    PROVE  InLine(q) /\ Extends(r, q)
  BY DEF InLine, WellFormed, Extends

\* Every snapshot is kept, along any number of helpers.
LEMMA ExtendsTransitive ==
    ASSUME NEW r, NEW q, NEW p, Extends(r, q), Extends(q, p)
    PROVE  Extends(r, p)
  BY DEF Extends

\* A stage goes on with a row in line, commits one, or rolls back.
LineStep(c) ==
    \/ /\ LineOpen(txn'[c])
       /\ \A d \in Cores : d # c => txn'[d] = txn[d]
       /\ UNCHANGED run
    \/ \E r \in CreatedRow : Commit(c, r) /\ InLine(r) /\ Extends(run, r)
    \/ Rollback(c)

\* Going on with a row that extends the one of the transaction.
LEMMA LineGoesOn ==
    ASSUME TypeOK, NEW c \in Cores, LineOpen(txn[c]), NEW next, NEW r, NEW jobs,
           NEW topics, NEW articles, Advance(c, next, r, jobs, topics, articles),
           InLine(r), Extends(txn[c].run, r),
           next = "topic_scout" => r.output["source_fetch"] # NoSnapshot
    PROVE  LineStep(c)
  <1>1. Extends(run, r)
        BY ExtendsTransitive DEF LineOpen
  <1> QED BY <1>1, AdvanceIs DEF LineStep, LineOpen

\* Committing such a row.
LEMMA LineCommits ==
    ASSUME NEW c \in Cores, LineOpen(txn[c]), NEW r \in CreatedRow, Commit(c, r),
           InLine(r), Extends(txn[c].run, r)
    PROVE  LineStep(c)
  BY ExtendsTransitive DEF LineOpen, LineStep

\* The row of an open transaction.
LEMMA OpenRow ==
    ASSUME TypeOK, OpenRows, NEW c \in Cores, Reconciling(c)
    PROVE  txn[c].run \in CreatedRow /\ txn[c] \in Txn
  BY DEF TypeOK, OpenRows, Reconciling, Txn, CreatedRow

\* Every snapshot of a row is its own.
LEMMA ExtendsItself == ASSUME NEW r PROVE Extends(r, r)
  BY DEF Extends

\* The rows a stage goes on with once it has closed its node.
LEMMA ClosedRowsInLine ==
    ASSUME NEW r \in CreatedRow, InLine(r), NEW n \in Nodes, NEW next \in Nodes,
           Line!Before(n, next), NEW items \in SUBSET OutputItems[n],
           NEW outcome \in NodeStatus,
           \A m \in Nodes : Line!Before(m, n) => r.output[m] # NoSnapshot
    PROVE  LET done == CloseNode(r, n, items, outcome)
               Fine(q) == InLine(q) /\ Extends(r, q) /\ q.output[n] # NoSnapshot
           IN  /\ Fine(done)
               /\ \A why : Fine(FailRun(done, why)) /\ Fine(SkipAfter(done, n, why))
               /\ Fine(BindInput(done, n, next))
  <1> DEFINE done == CloseNode(r, n, items, outcome)
             Fine(q) == InLine(q) /\ Extends(r, q) /\ q.output[n] # NoSnapshot
  <1>1. done \in CreatedRow /\ Fine(done)
        BY CloseNodeType, CloseInLine
  <1> HIDE DEF done
  <1>2. ASSUME NEW q, q.input = done.input, q.output = done.output
        PROVE  Fine(q)
        BY <1>1, <1>2, SameInLine, ExtendsTransitive
  <1>3. ASSUME NEW why
        PROVE  Fine(FailRun(done, why)) /\ Fine(SkipAfter(done, n, why))
    <2>1. ASSUME NEW q \in {FailRun(done, why), SkipAfter(done, n, why)}
          PROVE  Fine(q)
          BY <1>1, <1>2, EndIs
    <2> HIDE DEF Fine
    <2> QED BY <2>1
  <1>4. Fine(BindInput(done, n, next))
        BY <1>1, BindInLine, ExtendsTransitive
  <1> QED BY <1>1, <1>3, <1>4 DEF done

\* The sources close first; the scout is asked only once they have.
LEMMA SourceFetchLine ==
    ASSUME TypeOK, OpenRows, NEW c \in Cores, LineOpen(txn[c]), ReconcileSourceFetch(c)
    PROVE  LineStep(c)
  <1> DEFINE r    == txn[c].run
             bad  == {s \in r.sources : <<"source_fetch", s>> \in failed}
             done == CloseNode(r, "source_fetch", raw, Outcome(bad))
             Fine(q) == InLine(q) /\ Extends(r, q) /\ q.output["source_fetch"] # NoSnapshot
             Proceed(row, jobs) == Advance(c, "topic_scout", row, jobs,
                                           txn[c].topic, txn[c].article)
  <1>1. r \in CreatedRow /\ InLine(r)
        BY OpenRow DEF Reconciling, ReconcileSourceFetch, LineOpen
  <1>2. /\ Line!Before("source_fetch", "topic_scout")
        /\ \A m \in Nodes : ~Line!Before(m, "source_fetch")
        BY DEF Line!Before, Nodes, NodeIndex
  <1>3. \/ Commit(c, r)
        \/ Proceed(FailRun(done, "all_source_fetch_failed"), {})
        \/ Proceed(SkipAfter(done, "source_fetch", "no_new_raw_items"), {})
        \/ Proceed(BindInput(done, "source_fetch", "topic_scout"), {ScoutJob})
        BY DEF ReconcileSourceFetch
  <1> HIDE DEF bad, r
  <1>4. /\ \A why : Fine(FailRun(done, why)) /\ Fine(SkipAfter(done, "source_fetch", why))
        /\ Fine(BindInput(done, "source_fetch", "topic_scout"))
    <2>1. /\ raw \in SUBSET OutputItems["source_fetch"] /\ Outcome(bad) \in NodeStatus
          /\ "source_fetch" \in Nodes /\ "topic_scout" \in Nodes
          BY OutcomeType DEF TypeOK, Nodes, OutputItems
    <2>2. \A m \in Nodes : Line!Before(m, "source_fetch") => r.output[m] # NoSnapshot
          BY <1>2
    <2> QED BY <1>1, <1>2, <2>1, <2>2, ClosedRowsInLine
  <1> HIDE DEF done
  <1>5. CASE Commit(c, r)
        BY <1>1, <1>5, LineCommits, ExtendsItself DEF r
  <1>6. ASSUME NEW q, NEW jobs, Fine(q), Proceed(q, jobs)
        PROVE  LineStep(c)
        BY <1>6, LineGoesOn DEF r
  <1> HIDE DEF Proceed
  <1> QED BY <1>3, <1>4, <1>5, <1>6

\* The scout's node closes behind the sources'.
LEMMA TopicScoutLine ==
    ASSUME TypeOK, OpenRows, NEW c \in Cores, LineOpen(txn[c]), ReconcileTopicScout(c)
    PROVE  LineStep(c)
  <1> DEFINE r    == txn[c].run
             ids  == {t \in Topics : topic[t] # "absent"}
             outcome == IF {ScoutJob} \cap failed = {} THEN "succeeded" ELSE "failed"
             done == CloseNode(r, "topic_scout", ids, outcome)
             Fine(q) == InLine(q) /\ Extends(r, q)
             Proceed(row, jobs) == Advance(c, "topic_evaluate", row, jobs,
                                           txn[c].topic, txn[c].article)
  <1>1. r \in CreatedRow /\ InLine(r) /\ r.output["source_fetch"] # NoSnapshot
        BY OpenRow DEF Reconciling, ReconcileTopicScout, LineOpen
  <1>2. /\ Line!Before("topic_scout", "topic_evaluate")
        /\ \A m \in Nodes : Line!Before(m, "topic_scout") => m = "source_fetch"
        BY DEF Line!Before, Nodes, NodeIndex
  <1>3. \/ Commit(c, r)
        \/ \E jobs : \/ Proceed(FailRun(done, "topic_scout_failed"), jobs)
                     \/ Proceed(SkipAfter(done, "topic_scout", "scout_produced_no_topics"),
                                jobs)
                     \/ Proceed(BindInput(done, "topic_scout", "topic_evaluate"), jobs)
        BY DEF ReconcileTopicScout
  <1>4. outcome \in NodeStatus /\ ids \in SUBSET OutputItems["topic_scout"]
        BY DEF NodeStatus, OutputItems, Nodes
  <1> HIDE DEF r, ids, outcome
  <1>5. /\ \A why : Fine(FailRun(done, why)) /\ Fine(SkipAfter(done, "topic_scout", why))
        /\ Fine(BindInput(done, "topic_scout", "topic_evaluate"))
        BY <1>1, <1>2, <1>4, ClosedRowsInLine DEF Nodes
  <1> HIDE DEF done
  <1>6. CASE Commit(c, r)
        BY <1>1, <1>6, LineCommits, ExtendsItself DEF r
  <1>7. ASSUME NEW q, NEW jobs, Fine(q), Proceed(q, jobs)
        PROVE  LineStep(c)
        BY <1>7, LineGoesOn DEF r
  <1> HIDE DEF Proceed
  <1> QED BY <1>3, <1>5, <1>6, <1>7

\* A node with items in its input comes behind one that is closed.
LEMMA InputMeansClosed ==
    ASSUME NEW r, InLine(r), NEW m \in Nodes, NEW n \in Nodes, Line!Before(m, n),
           r.input[n].items # {}
    PROVE  r.input[n] = r.output[m] /\ r.output[m] # NoSnapshot
  BY DEF InLine, Line!InOrder, NoSnapshot

\* The quality gate closes its node only with topics to evaluate.
LEMMA TopicEvaluateLine ==
    ASSUME TypeOK, OpenRows, NEW c \in Cores, LineOpen(txn[c]), ReconcileTopicEvaluate(c)
    PROVE  LineStep(c)
  <1> DEFINE r    == txn[c].run
             ids  == r.input["topic_evaluate"].items
             accepted == {t \in ids : verdict[t] = "pass"}
             bad  == {t \in ids : verdict[t] = "none"}
             done == CloseNode(r, "topic_evaluate", accepted, Outcome(bad))
             Fine(q) == InLine(q) /\ Extends(r, q)
             Proceed(row, jobs, topics) ==
                Advance(c, "article_write", row, jobs, topics, txn[c].article)
  <1>1. r \in CreatedRow /\ InLine(r)
        BY OpenRow DEF Reconciling, ReconcileTopicEvaluate, LineOpen
  <1>2. /\ Line!Before("topic_scout", "topic_evaluate")
        /\ Line!Before("topic_evaluate", "article_write")
        /\ \A m \in Nodes : Line!Before(m, "topic_evaluate") => m = "topic_scout"
        BY DEF Line!Before, Nodes, NodeIndex
  <1>3. \/ Commit(c, r)
        \/ \E jobs, topics :
              \/ Proceed(SkipAfter(r, "topic_evaluate", "no_topics_to_evaluate"),
                         jobs, topics)
              \/ /\ ids # {}
                 /\ \/ Proceed(SkipAfter(done, "topic_evaluate", "all_topics_rejected"),
                               jobs, topics)
                    \/ Proceed(BindInput(done, "topic_evaluate", "article_write"),
                               jobs, topics)
        BY DEF ReconcileTopicEvaluate
  <1>4. accepted \in SUBSET OutputItems["topic_evaluate"]
        BY <1>1 DEF CreatedRow, RunRow, Snapshots, Nodes, OutputItems, InputItems
  <1> HIDE DEF r
  <1>5. ids # {} =>
            /\ \A why : Fine(SkipAfter(done, "topic_evaluate", why))
            /\ Fine(BindInput(done, "topic_evaluate", "article_write"))
    <2>1. SUFFICES ASSUME ids # {}
                   PROVE  /\ \A why : Fine(SkipAfter(done, "topic_evaluate", why))
                          /\ Fine(BindInput(done, "topic_evaluate", "article_write"))
          OBVIOUS
    <2>2. r.output["topic_scout"] # NoSnapshot
          BY <1>1, <1>2, <2>1, InputMeansClosed DEF Nodes
    <2> HIDE DEF ids, bad, accepted
    <2> QED BY <1>1, <1>2, <1>4, <2>2, OutcomeType, ClosedRowsInLine DEF Nodes
  <1> HIDE DEF done, ids
  <1>6. Fine(SkipAfter(r, "topic_evaluate", "no_topics_to_evaluate"))
        BY <1>1, EndIs, SameInLine DEF Nodes
  <1>7. CASE Commit(c, r)
        BY <1>1, <1>7, LineCommits, ExtendsItself DEF r
  <1>8. ASSUME NEW q, NEW jobs, NEW topics, Fine(q), Proceed(q, jobs, topics)
        PROVE  LineStep(c)
        BY <1>8, LineGoesOn DEF r
  <1> HIDE DEF Proceed
  <1> QED BY <1>3, <1>5, <1>6, <1>7, <1>8

\* The writers' node closes only with articles to write.
LEMMA ArticleWriteLine ==
    ASSUME TypeOK, OpenRows, NEW c \in Cores, LineOpen(txn[c]), ReconcileArticleWrite(c)
    PROVE  LineStep(c)
  <1> DEFINE r       == txn[c].run
             ids     == r.input["article_write"].items
             targets == TargetsOf(ids)
             bad     == {x \in targets : article[x] = "absent"}
             written == targets \ bad
             done    == CloseNode(r, "article_write", written, Outcome(bad))
             Fine(q) == InLine(q) /\ Extends(r, q)
             Proceed(row, jobs, topics) ==
                Advance(c, "article_evaluate", row, jobs, topics, txn[c].article)
  <1>1. r \in CreatedRow /\ InLine(r)
        BY OpenRow DEF Reconciling, ReconcileArticleWrite, LineOpen
  <1>2. /\ Line!Before("topic_evaluate", "article_write")
        /\ Line!Before("article_write", "article_evaluate")
        /\ \A m \in Nodes : Line!Before(m, "article_write") => m = "topic_evaluate"
        BY DEF Line!Before, Nodes, NodeIndex
  <1>3. \/ Commit(c, r)
        \/ \E jobs, topics, why :
              \/ Proceed(SkipAfter(r, "article_write", why), jobs, topics)
              \/ /\ ids # {}
                 /\ \/ Proceed(SkipAfter(done, "article_write", why), jobs, topics)
                    \/ Proceed(BindInput(done, "article_write", "article_evaluate"),
                               jobs, topics)
        BY DEF ReconcileArticleWrite, TargetsOf
  <1>4. written \in SUBSET OutputItems["article_write"]
        BY DEF TargetsOf, OutputItems
  <1> HIDE DEF r
  <1>5. ids # {} =>
            /\ \A why : Fine(SkipAfter(done, "article_write", why))
            /\ Fine(BindInput(done, "article_write", "article_evaluate"))
    <2>1. SUFFICES ASSUME ids # {}
                   PROVE  /\ \A why : Fine(SkipAfter(done, "article_write", why))
                          /\ Fine(BindInput(done, "article_write", "article_evaluate"))
          OBVIOUS
    <2>2. r.output["topic_evaluate"] # NoSnapshot
          BY <1>1, <1>2, <2>1, InputMeansClosed DEF Nodes
    <2> HIDE DEF ids, bad, written
    <2> QED BY <1>1, <1>2, <1>4, <2>2, OutcomeType, ClosedRowsInLine DEF Nodes
  <1> HIDE DEF done, ids
  <1>6. \A why : Fine(SkipAfter(r, "article_write", why))
        BY <1>1, EndIs, SameInLine DEF Nodes
  <1>7. CASE Commit(c, r)
        BY <1>1, <1>7, LineCommits, ExtendsItself DEF r
  <1>8. ASSUME NEW q, NEW jobs, NEW topics, Fine(q), Proceed(q, jobs, topics)
        PROVE  LineStep(c)
        BY <1>8, LineGoesOn DEF r
  <1> HIDE DEF Proceed
  <1> QED BY <1>3, <1>5, <1>6, <1>7, <1>8

\* The last two nodes close together, with articles to evaluate.
LEMMA ArticleEvaluateLine ==
    ASSUME TypeOK, OpenRows, NEW c \in Cores, LineOpen(txn[c]), ReconcileArticleEvaluate(c)
    PROVE  LineStep(c)
  <1> DEFINE r        == txn[c].run
             ids      == r.input["article_evaluate"].items
             bad      == {x \in ids : quality[x] = "none"}
             accepted == {x \in ids : /\ quality[x] = "pass"
                                      /\ SeenArticle(c, x) \in {"draft", "pending_review"}}
             done     == CloseNode(r, "article_evaluate", accepted, Outcome(bad))
             desk     == CloseNode(done, "human_review", accepted, Outcome(bad))
             last     == FinishReviewStage(done, accepted, bad)
             Fine(q)  == InLine(q) /\ Extends(r, q)
             Proceed(row, articles) ==
                Advance(c, "human_review", row, {}, txn[c].topic, articles)
  <1>1. r \in CreatedRow /\ InLine(r)
        BY OpenRow DEF Reconciling, ReconcileArticleEvaluate, LineOpen
  <1>2. /\ Line!Before("article_write", "article_evaluate")
        /\ Line!Before("article_evaluate", "human_review")
        /\ \A m \in Nodes : Line!Before(m, "article_evaluate") => m = "article_write"
        /\ \A m \in Nodes : Line!Before(m, "human_review") => m = "article_evaluate"
        BY DEF Line!Before, Nodes, NodeIndex
  <1>3. \/ Commit(c, r)
        \/ Rollback(c)
        \/ \E articles :
              \/ Proceed(SkipAfter(r, "article_evaluate", "no_articles_to_evaluate"),
                         articles)
              \/ ids # {} /\ Proceed(last, articles)
        BY DEF ReconcileArticleEvaluate
  <1>4. /\ accepted \in SUBSET OutputItems["article_evaluate"]
        /\ accepted \in SUBSET OutputItems["human_review"]
        BY <1>1 DEF CreatedRow, RunRow, Snapshots, Nodes, OutputItems, InputItems
  <1> HIDE DEF r
  <1>5. ids # {} => Fine(last)
    <2>1. SUFFICES ASSUME ids # {} PROVE Fine(last)
          OBVIOUS
    <2>2. r.output["article_write"] # NoSnapshot
          BY <1>1, <1>2, <2>1, InputMeansClosed DEF Nodes
    <2> HIDE DEF ids, bad, accepted
    <2>3. /\ done \in CreatedRow /\ Fine(done)
          /\ done.output["article_evaluate"] # NoSnapshot
          BY <1>1, <1>2, <1>4, <2>2, OutcomeType, CloseNodeType, CloseInLine DEF Nodes
    <2> HIDE DEF done
    <2>4. desk \in CreatedRow /\ Fine(desk)
          BY <1>2, <1>4, <2>3, OutcomeType, CloseNodeType, CloseInLine,
             ExtendsTransitive DEF Nodes
    <2>5. last.input = desk.input /\ last.output = desk.output
          BY <2>4 DEF FinishReviewStage, CreatedRow, RunRow
    <2> QED BY <2>4, <2>5, SameInLine, ExtendsTransitive
  <1> HIDE DEF last, ids
  <1>6. Fine(SkipAfter(r, "article_evaluate", "no_articles_to_evaluate"))
        BY <1>1, EndIs, SameInLine DEF Nodes
  <1>7. CASE Commit(c, r)
        BY <1>1, <1>7, LineCommits, ExtendsItself DEF r
  <1>8. ASSUME NEW q, NEW articles, Fine(q), Proceed(q, articles)
        PROVE  LineStep(c)
        BY <1>8, LineGoesOn DEF r
  <1>9. CASE Rollback(c)
        BY <1>9 DEF LineStep
  <1> HIDE DEF Proceed
  <1> QED BY <1>3, <1>5, <1>6, <1>7, <1>8, <1>9

\* The last stage takes no snapshot.
LEMMA HumanReviewLine ==
    ASSUME TypeOK, OpenRows, NEW c \in Cores, LineOpen(txn[c]), ReconcileHumanReview(c)
    PROVE  LineStep(c)
  <1> DEFINE r == txn[c].run
             ended == CompleteEmpty(r, "no_article_passed_quality_gate")
             waiting == [r EXCEPT !.status = IF @ \in {"queued", "running"}
                                             THEN "waiting_human_review" ELSE @]
  <1>1. r \in CreatedRow /\ InLine(r)
        BY OpenRow DEF Reconciling, ReconcileHumanReview, LineOpen
  <1>2. Commit(c, ended) \/ Commit(c, waiting)
        BY DEF ReconcileHumanReview
  <1> HIDE DEF r
  <1>3. ended \in CreatedRow /\ ended.input = r.input /\ ended.output = r.output
    <2>1. ended \in CreatedRow
          BY <1>1, EndType DEF Reason
    <2>2. CASE CanEnd(r)
          BY <1>1, <2>1, <2>2 DEF CompleteEmpty, CreatedRow, RunRow
    <2>3. CASE ~CanEnd(r)
          BY <2>1, <2>3 DEF CompleteEmpty
    <2> QED BY <2>2, <2>3
  <1>4. waiting \in CreatedRow /\ waiting.input = r.input /\ waiting.output = r.output
        BY <1>1 DEF CreatedRow, RunRow, RunStatus
  <1> HIDE DEF ended, waiting
  <1> QED BY <1>1, <1>2, <1>3, <1>4, SameInLine, LineCommits DEF r

\* Each stage keeps the line.
LEMMA StageLineStep ==
    ASSUME TypeOK, OpenRows, NEW c \in Cores, LineOpen(txn[c]), ReconcileStage(c)
    PROVE  LineStep(c)
  BY SourceFetchLine, TopicScoutLine, TopicEvaluateLine, ArticleWriteLine,
     ArticleEvaluateLine, HumanReviewLine DEF ReconcileStage

-----------------------------------------------------------------------------
(* The line is kept by every step.                                          *)

\* What changes neither the run nor a transaction keeps the line.
LEMMA LineBystander ==
    ASSUME LineInv, UNCHANGED <<run, txn>>
    PROVE  LineInv'
  BY DEF LineInv, LineOpen, Reconciling

\* The agents, the review API and the harvester leave run and transactions alone.
LEMMA OthersLeaveTheRun ==
    ASSUME AgentStep \/ OutsideStep
    PROVE  UNCHANGED <<run, txn>>
  BY DEF AgentStep, FetchItems, ProposeTopic, EvaluateTopic, WriteArticle,
     EvaluateArticle, ReportSuccess, ReportFailure,
     OutsideStep, RejectTopic, TransitionWritten, ReviewArticle

\* A commit publishes a row in line, and no other transaction is open.
LEMMA LineCommitInv ==
    ASSUME Inv, NEW c \in Cores, Reconciling(c), NEW r, Commit(c, r), InLine(r)
    PROVE  LineInv'
  <1>1. \A d \in Cores : txn'[d] = Idle
        BY DEF Commit, Inv, TypeOK, LockInv, OneTransaction, BlankWhenIdle, Reconciling
  <1>2. run' = r /\ Idle.at = "idle"
        BY DEF Commit, Idle
  <1> QED BY <1>1, <1>2 DEF LineInv, LineOpen, Reconciling

\* A rollback leaves the committed line.
LEMMA LineRollbackInv ==
    ASSUME TypeOK, LineInv, NEW c \in Cores, Rollback(c)
    PROVE  LineInv'
  <1>1. \A d \in Cores : txn'[d] = IF d = c THEN Idle ELSE txn[d]
        BY DEF Rollback, TypeOK
  <1>2. run' = run /\ Idle.at = "idle"
        BY DEF Rollback, Idle
  <1> QED BY <1>1, <1>2 DEF LineInv, LineOpen, Reconciling

\* A reconciliation begins with the snapshots that are committed.
LEMMA LineBeginInv ==
    ASSUME TypeOK, LineInv, NEW c \in Cores, BeginReconcile(c)
    PROVE  LineInv'
  <1> DEFINE row == [run EXCEPT !.status = "running"]
  <1>1. /\ txn'[c].at = "source_fetch" /\ txn'[c].run = row
        /\ \A d \in Cores : d # c => txn'[d] = txn[d]
        /\ run' = run
        BY DEF BeginReconcile, TypeOK, Txn
  <1>2. row.input = run.input /\ row.output = run.output
        BY DEF TypeOK, RunRow
  <1> HIDE DEF row
  <1>3. InLine(row) /\ Extends(run, row)
        BY <1>2, SameInLine DEF LineInv
  <1> QED BY <1>1, <1>3 DEF LineInv, LineOpen, Reconciling

\* A run is created without snapshots.
LEMMA LineCreateInv ==
    ASSUME Inv, LineInv, NEW S \in SUBSET Sources, CreateContentRun(S)
    PROVE  LineInv'
  <1>1. run'.input = run.input /\ run'.output = run.output
        BY DEF Inv, TypeOK, RunRow, CreateContentRun
  <1>2. \A c \in Cores : ~Reconciling(c)
        BY DEF Inv, LockInv, OpenWhileActive, Reconciling, CreateContentRun
  <1>3. txn' = txn
        BY DEF CreateContentRun
  <1> QED BY <1>1, <1>2, <1>3, SameInLine DEF LineInv, Reconciling

\* What a step does to the line: it starts it, extends it, or leaves it.
LineMoves ==
    \/ run' = run
    \/ /\ run.status = "absent" /\ run'.status # "absent"
       /\ run'.input = run.input /\ run'.output = run.output
    \/ /\ run.status \in {"queued", "running"} /\ run'.status # "absent"
       /\ InLine(run') /\ Extends(run, run')

\* Every step keeps the line, and moves the committed one forward only.
LEMMA LineNext ==
    ASSUME Inv, LineInv, [Next]_vars
    PROVE  LineInv' /\ LineMoves
  <1>1. CASE UNCHANGED vars
        BY <1>1, LineBystander DEF vars, LineMoves
  <1>2. CASE AgentStep \/ OutsideStep
        BY <1>2, LineBystander, OthersLeaveTheRun DEF LineMoves
  <1>3. ASSUME NEW S \in SUBSET Sources, CreateContentRun(S)
        PROVE  LineInv' /\ LineMoves
        BY <1>3, LineCreateInv DEF CreateContentRun, LineMoves, Inv, TypeOK, RunRow
  <1>4. ASSUME NEW c \in Cores, BeginReconcile(c)
        PROVE  LineInv' /\ LineMoves
        BY <1>4, LineBeginInv DEF Inv, BeginReconcile, LineMoves
  <1>5. ASSUME NEW c \in Cores, Reconciling(c), Rollback(c)
        PROVE  LineInv' /\ LineMoves
        BY <1>5, LineRollbackInv DEF Inv, Rollback, LineMoves
  <1>6. ASSUME NEW c \in Cores, ReconcileStage(c)
        PROVE  LineInv' /\ LineMoves
    <2>1. Reconciling(c) /\ TypeOK /\ OpenRows /\ LineOpen(txn[c])
          BY <1>6 DEF ReconcileStage, ReconcileSourceFetch, ReconcileTopicScout,
             ReconcileTopicEvaluate, ReconcileArticleWrite, ReconcileArticleEvaluate,
             ReconcileHumanReview, Reconciling, Inv, LockInv, LineInv
    <2>2. LineStep(c)
          BY <1>6, <2>1, StageLineStep
    <2>3. CASE /\ LineOpen(txn'[c])
               /\ \A d \in Cores : d # c => txn'[d] = txn[d]
               /\ UNCHANGED run
      <3>1. \A d \in Cores : Reconciling(d) => d = c
            BY <2>1 DEF Inv, LockInv, OneTransaction, Reconciling
      <3> QED BY <2>3, <3>1 DEF LineInv, LineOpen, LineMoves, Reconciling
    <2>4. ASSUME NEW r \in CreatedRow, Commit(c, r), InLine(r), Extends(run, r)
          PROVE  LineInv' /\ LineMoves
      <3>1. run' = r /\ r.status # "absent"
            BY <2>4 DEF Commit, CreatedRow
      <3>2. run.status \in {"queued", "running"}
            BY <2>1 DEF Inv, LockInv, OpenWhileActive, Reconciling
      <3> QED BY <2>1, <2>4, <3>1, <3>2, LineCommitInv DEF LineMoves
    <2> QED BY <1>5, <2>1, <2>2, <2>3, <2>4 DEF LineStep
  <1> QED BY <1>1, <1>2, <1>3, <1>4, <1>5, <1>6
          DEF Next, CoreStep, CrashInReconcile, Reconciling

\* No stage has run when nothing has been created.
LEMMA LineInit == Init => LineInv
  <1> SUFFICES ASSUME Init PROVE LineInv
      OBVIOUS
  <1>1. \A n \in Nodes : run.input[n] = NoSnapshot /\ run.output[n] = NoSnapshot
        BY DEF Init, NoRun
  <1>2. \A c \in Cores : ~Reconciling(c)
        BY DEF Init, Idle, Reconciling
  <1> QED BY <1>1, <1>2 DEF LineInv, InLine, WellFormed, Line!InOrder

\* The line is kept for ever.
LEMMA LineInvariance == Spec => []LineInv
  BY LineInit, LineNext, Invariance, PTL DEF Spec

\* The snapshots of a run, as committed, form a line of stages: each is written
\* once, whoever reconciles and wherever it crashes, stages close in order,
\* each works from exactly what the one before it put out, and a run that has
\* ended never changes.
THEOREM RunIsALineOfStages == Spec => LineSpec
  <1>1. ASSUME Init
        PROVE  Line!Init
    <2>1. /\ run.status = "absent"
          /\ run.input = [n \in Nodes |-> NoSnapshot]
          /\ run.output = [n \in Nodes |-> NoSnapshot]
          BY <1>1 DEF Init, NoRun
    <2>2. ~Settled
          BY <2>1 DEF Settled
    <2> QED BY <2>1, <2>2 DEF Line!Init
  <1>2. ASSUME Inv, LineInv, [Next]_vars
        PROVE  [Line!Next]_(Line!vars)
    <2>1. LineMoves
          BY <1>2, LineNext
    <2>2. CASE run' = run
          BY <2>2 DEF Line!vars, Settled
    <2>3. CASE /\ run.status = "absent" /\ run'.status # "absent"
               /\ run'.input = run.input /\ run'.output = run.output
          BY <2>3 DEF Line!Next, Line!Create, Settled
    <2>4. CASE /\ run.status \in {"queued", "running"} /\ run'.status # "absent"
               /\ InLine(run') /\ Extends(run, run')
          BY <2>4 DEF Line!Next, Line!Work, Line!WrittenOnce, InLine, Extends, Settled
    <2> QED BY <2>1, <2>2, <2>3, <2>4 DEF LineMoves
  <1> QED BY <1>1, <1>2, Invariance, LineInvariance, PTL
          DEF Spec, LineSpec, Line!Spec

-----------------------------------------------------------------------------
(* The gates: what a step does to the rows a transaction sees.              *)

TablesInv == ResultsInv /\ GateInv /\ DeskInv

\* Jobs are seen from the commit on, and by their own transaction before.
LEMMA AdvanceSees ==
    ASSUME TypeOK, NEW c \in Cores, NEW next, NEW r, NEW jobs, NEW topics, NEW articles,
           Advance(c, next, r, jobs, topics, articles)
    PROVE  /\ \A j : SentSeen(txn'[c], j) <=> SentSeen(txn[c], j) \/ j \in jobs
           /\ \A u \in Topics : TopicSeen(txn'[c], u) =
                                  IF topics[u] = Unwritten THEN topic[u] ELSE topics[u]
           /\ \A x \in Targets : ArticleSeen(txn'[c], x) =
                                  IF articles[x] = Unwritten THEN article[x] ELSE articles[x]
  <1>1. /\ txn'[c].sends = txn[c].sends \cup {j \in jobs : ~Queued(c, j)}
        /\ txn'[c].topic = topics /\ txn'[c].article = articles
        BY AdvanceIs
  <1> QED BY <1>1 DEF SentSeen, TopicSeen, ArticleSeen, Queued

\* A commit makes everybody see what its transaction saw.
LEMMA CommitSees ==
    ASSUME Inv, NEW c \in Cores, Reconciling(c), NEW r, Commit(c, r)
    PROVE  /\ \A d \in Cores : txn'[d] = Idle
           /\ \A j \in Jobs : SentSeen(Idle, j)' <=> SentSeen(txn[c], j)
           /\ \A u \in Topics : topic'[u] = TopicSeen(txn[c], u)
           /\ \A x \in Targets : article'[x] = ArticleSeen(txn[c], x)
           /\ run' = r /\ UNCHANGED <<vetoed, agentVars>>
  <1>1. \A d \in Cores : txn'[d] = Idle
        BY DEF Commit, Inv, TypeOK, LockInv, OneTransaction, BlankWhenIdle, Reconciling
  <1>2. sent \in [Jobs -> Nat] /\ Idle.sends = {}
        BY DEF Inv, TypeOK, Idle
  <1>3. \A j \in Jobs : SentSeen(Idle, j)' <=> SentSeen(txn[c], j)
        BY <1>2 DEF Commit, SentSeen
  <1>4. /\ \A u \in Topics : topic'[u] = TopicSeen(txn[c], u)
        /\ \A x \in Targets : article'[x] = ArticleSeen(txn[c], x)
        BY DEF Commit, SeenTopic, SeenArticle, TopicSeen, ArticleSeen
  <1> QED BY <1>1, <1>3, <1>4 DEF Commit

\* An idle transaction sees what is committed.
LEMMA IdleSees ==
    /\ Idle.at = "idle" /\ Idle.sends = {}
    /\ \A u \in Topics : Idle.topic[u] = Unwritten /\ TopicSeen(Idle, u) = topic[u]
    /\ \A x \in Targets : Idle.article[x] = Unwritten /\ ArticleSeen(Idle, x) = article[x]
    /\ \A j : SentSeen(Idle, j) <=> sent[j] > 0
  BY DEF Idle, TopicSeen, ArticleSeen, SentSeen

-----------------------------------------------------------------------------
(* Results are of jobs that were given out, and of each job one.            *)

\* A topic or an article is answered for once.
LEMMA OneResult ==
    ASSUME ResultsInv
    PROVE  /\ \A u \in Topics : Deliverable(<<"topic_evaluate", u>>) => verdict[u] = "none"
           /\ \A x \in Targets : Deliverable(<<"article_write", x>>) => article[x] = "absent"
           /\ \A x \in Targets : Deliverable(<<"article_evaluate", x>>) => quality[x] = "none"
           /\ \A j : Deliverable(j) /\ ~RetriesAfterFailure => j \notin Answered
  BY DEF ResultsInv, Deliverable, Answered

\* Where no result comes in, more jobs and known rows keep them in order.
LEMMA ResultsBystander ==
    ASSUME TypeOK, ResultsInv, UNCHANGED agentVars,
           \A j \in Jobs : sent[j] > 0 => sent'[j] > 0,
           \A u \in Topics : topic'[u] # "absent" => topic[u] # "absent",
           \A x \in Targets : article'[x] # "absent" => article[x] # "absent"
    PROVE  ResultsInv'
  <1>1. /\ Answered \subseteq Jobs /\ ScoutJob \in Jobs
        /\ \A s \in raw : <<"source_fetch", s>> \in Jobs
        BY DEF TypeOK, Answered, Jobs
  <1> QED BY <1>1 DEF ResultsInv, agentVars, Answered

\* Every result and every report is of a job that was delivered.
LEMMA ResultsAgent ==
    ASSUME TypeOK, ResultsInv, AgentStep
    PROVE  ResultsInv'
  <1>1. ASSUME NEW s \in Sources, FetchItems(s)
        PROVE  ResultsInv'
        BY <1>1 DEF FetchItems, ResultsInv, Answered, Deliverable
  <1>2. ASSUME NEW t \in Topics, ProposeTopic(t)
        PROVE  ResultsInv'
        BY <1>2 DEF ProposeTopic, ResultsInv, Answered, Deliverable, agentVars
  <1>3. ASSUME NEW t \in Topics, NEW v \in {"pass", "low"}, EvaluateTopic(t, v)
        PROVE  ResultsInv'
        BY <1>3 DEF EvaluateTopic, ResultsInv, Answered, Deliverable, TypeOK
  <1>4. ASSUME NEW x \in Targets, WriteArticle(x)
        PROVE  ResultsInv'
        BY <1>4 DEF WriteArticle, ResultsInv, Answered, Deliverable, TypeOK
  <1>5. ASSUME NEW x \in Targets, NEW q \in {"pass", "low"}, EvaluateArticle(x, q)
        PROVE  ResultsInv'
        BY <1>5 DEF EvaluateArticle, ResultsInv, Answered, Deliverable, TypeOK
  <1>6. ASSUME NEW j \in Jobs, ReportSuccess(j) \/ ReportFailure(j)
        PROVE  ResultsInv'
        BY <1>6 DEF ReportSuccess, ReportFailure, ResultsInv, Answered, Deliverable
  <1> QED BY <1>1, <1>2, <1>3, <1>4, <1>5, <1>6 DEF AgentStep

\* Jobs that were given out stay given out, and only agents add rows.
LEMMA ResultsOthers ==
    ASSUME Inv, TablesInv,
           \/ OutsideStep
           \/ \E S \in SUBSET Sources : CreateContentRun(S)
           \/ \E c \in Cores : Reconciling(c) /\ \E r : Commit(c, r)
           \/ UNCHANGED <<sent, topic, article, agentVars>>
    PROVE  ResultsInv'
  <1>1. TypeOK /\ ResultsInv /\ sent \in [Jobs -> Nat]
        BY DEF Inv, TypeOK, TablesInv
  <1>2. CASE OutsideStep
        BY <1>1, <1>2, ResultsBystander DEF OutsideStep, RejectTopic, TransitionWritten,
           ReviewArticle, TypeOK
  <1>3. ASSUME NEW S \in SUBSET Sources, CreateContentRun(S)
        PROVE  ResultsInv'
    <2>1. /\ UNCHANGED <<topic, article, agentVars>>
          /\ \A j \in Jobs : sent'[j] = sent[j] \/ sent'[j] = sent[j] + 1
          BY <1>3 DEF CreateContentRun
    <2>2. \A j \in Jobs : sent[j] > 0 => sent'[j] > 0
          BY <1>1, <2>1
    <2> QED BY <1>1, <2>1, <2>2, ResultsBystander
  <1>4. ASSUME NEW c \in Cores, Reconciling(c), NEW r, Commit(c, r)
        PROVE  ResultsInv'
    <2>1. UNCHANGED agentVars /\ \A j \in Jobs : sent[j] > 0 => sent'[j] > 0
          BY <1>1, <1>4 DEF Commit
    <2>2. \A u \in Topics : topic'[u] # "absent" => topic[u] # "absent"
          BY <1>4, CommitSees DEF TopicSeen, TablesInv, GateInv, GateOpen
    <2>3. \A x \in Targets : article'[x] # "absent" => article[x] # "absent"
          BY <1>4, CommitSees DEF ArticleSeen, TablesInv, DeskInv, DeskOpen
    <2> QED BY <1>1, <2>1, <2>2, <2>3, ResultsBystander
  <1>5. CASE UNCHANGED <<sent, topic, article, agentVars>>
        BY <1>1, <1>5, ResultsBystander
  <1> QED BY <1>2, <1>3, <1>4, <1>5

-----------------------------------------------------------------------------
(* The gate of the topics.                                                  *)

\* What agents do to a topic takes it past no gate.
LEMMA GateAgent ==
    ASSUME TypeOK, ResultsInv, AgentStep, NEW t, GateOpen(t)
    PROVE  GateOpen(t)'
  <1>1. ASSUME NEW u \in Topics, ProposeTopic(u)
        PROVE  GateOpen(t)'
    <2>1. /\ topic[u] = "absent" /\ topic' = [topic EXCEPT ![u] = "candidate"]
          /\ UNCHANGED <<sent, vetoed, verdict>>
          BY <1>1 DEF ProposeTopic, agentVars
    <2>2. t.topic[u] = Unwritten
          BY <2>1 DEF GateOpen
    <2> QED BY <2>1, <2>2 DEF GateOpen, TopicSeen, SentSeen, InWriting, TypeOK, Unwritten, Targets
  <1>2. ASSUME NEW u \in Topics, NEW v \in {"pass", "low"}, EvaluateTopic(u, v)
        PROVE  GateOpen(t)'
    <2>1. verdict[u] = "none"
          BY <1>2, OneResult DEF EvaluateTopic
    <2> QED BY <1>2, <2>1 DEF EvaluateTopic, GateOpen, TopicSeen, SentSeen, TypeOK
  <1>3. CASE UNCHANGED <<sent, topic, vetoed, verdict>>
        BY <1>3 DEF GateOpen, TopicSeen, SentSeen
  <1>4. \/ UNCHANGED <<sent, topic, vetoed, verdict>>
        \/ \E u \in Topics : ProposeTopic(u)
        \/ \E u \in Topics, v \in {"pass", "low"} : EvaluateTopic(u, v)
        BY DEF AgentStep, FetchItems, WriteArticle, EvaluateArticle, ReportSuccess,
           ReportFailure
  <1> QED BY <1>1, <1>2, <1>3, <1>4

\* A person rejects no topic in writing, and none that a transaction has
\* written; the harvester only ends the writing of one.
LEMMA GateOutside ==
    ASSUME TypeOK, OutsideStep, NEW t, GateOpen(t),
           \A u \in Topics : topic'[u] # topic[u] => t.topic[u] = Unwritten
    PROVE  GateOpen(t)'
  <1>1. ASSUME NEW u \in Topics, RejectTopic(u)
        PROVE  GateOpen(t)'
    <2>1. /\ topic[u] \in {"candidate", "scored"} /\ u \in vetoed'
          /\ topic' = [topic EXCEPT ![u] = "rejected"] /\ vetoed \subseteq vetoed'
          /\ UNCHANGED <<sent, verdict>>
          BY <1>1 DEF RejectTopic, CanTopicTransition, topicTransitions, TopicStatus,
             agentVars, TypeOK
    <2>2. t.topic[u] = Unwritten
          BY <2>1 DEF TypeOK
    <2> QED BY <2>1, <2>2 DEF GateOpen, TopicSeen, SentSeen, InWriting, TypeOK, Targets
  <1>2. ASSUME NEW u \in Topics, TransitionWritten(u)
        PROVE  GateOpen(t)'
    <2>1. /\ topic[u] = "in_writing" /\ topic' = [topic EXCEPT ![u] = "written"]
          /\ UNCHANGED <<sent, vetoed, verdict>>
          BY <1>2 DEF TransitionWritten, agentVars
    <2>2. t.topic[u] = Unwritten
          BY <2>1 DEF TypeOK
    <2> QED BY <2>1, <2>2 DEF GateOpen, TopicSeen, SentSeen, InWriting, TypeOK, Targets
  <1>3. ASSUME NEW x \in Targets, NEW to \in {"approved", "rejected"},
               ReviewArticle(x, to)
        PROVE  GateOpen(t)'
        BY <1>3 DEF ReviewArticle, GateOpen, TopicSeen, SentSeen, agentVars
  <1> QED BY <1>1, <1>2, <1>3 DEF OutsideStep

\* Jobs of other stages pass no topic.
LEMMA GateMoreJobs ==
    ASSUME NEW t, GateOpen(t), UNCHANGED <<topic, vetoed, verdict>>,
           \A u \in Topics : SentSeen(t, <<"topic_evaluate", u>>)'
                                 <=> SentSeen(t, <<"topic_evaluate", u>>),
           \A x \in Targets : SentSeen(t, <<"article_write", x>>)'
                                 <=> SentSeen(t, <<"article_write", x>>)
    PROVE  GateOpen(t)'
  BY DEF GateOpen, TopicSeen

\* Transactions that see the same are at the same gate.
LEMMA GateSame ==
    ASSUME NEW t, GateOpen(t), NEW q,
           \A u \in Topics : q.topic[u] = t.topic[u],
           \A j : SentSeen(q, j) <=> SentSeen(t, j)
    PROVE  GateOpen(q)
  <1>1. \A x \in Targets : x[1] \in Topics
        BY DEF Targets
  <1>2. \A u \in Topics : TopicSeen(q, u) = TopicSeen(t, u)
        BY DEF TopicSeen
  <1> QED BY <1>1, <1>2 DEF GateOpen

\* A stage goes on through the gate, commits or rolls back.
GateStep(c) ==
    \/ /\ GateOpen(txn'[c])
       /\ \A d \in Cores : d # c => txn'[d] = txn[d]
       /\ UNCHANGED <<sent, topic, vetoed, agentVars>>
    \/ \E r : Commit(c, r)
    \/ Rollback(c)

\* A stage that writes no topic, and sends no writer and no evaluator a job.
LEMMA GateGoesOn ==
    ASSUME TypeOK, NEW c \in Cores, GateOpen(txn[c]), NEW next, NEW r, NEW jobs,
           NEW articles, Advance(c, next, r, jobs, txn[c].topic, articles),
           \A u \in Topics : <<"topic_evaluate", u>> \in jobs => topic[u] # "absent",
           \A x \in Targets : <<"article_write", x>> \notin jobs
    PROVE  GateStep(c)
  <1>1. /\ \A j : SentSeen(txn'[c], j) <=> SentSeen(txn[c], j) \/ j \in jobs
        /\ \A u \in Topics : TopicSeen(txn'[c], u) = TopicSeen(txn[c], u)
        BY AdvanceSees DEF TopicSeen
  <1>2. txn'[c].topic = txn[c].topic
        BY AdvanceIs
  <1>3. \A x \in Targets : x[1] \in Topics
        BY DEF Targets
  <1>4. GateOpen(txn'[c])
        BY <1>1, <1>2, <1>3 DEF GateOpen
  <1> QED BY <1>4, AdvanceIs DEF GateStep

\* The stage of the sources asks the scout only.
LEMMA SourceFetchGate ==
    ASSUME TypeOK, NEW c \in Cores, GateOpen(txn[c]), ReconcileSourceFetch(c)
    PROVE  GateStep(c)
  <1>1. \/ \E r : Commit(c, r)
        \/ \E r, jobs : /\ Advance(c, "topic_scout", r, jobs, txn[c].topic, txn[c].article)
                        /\ jobs \subseteq {ScoutJob}
        BY DEF ReconcileSourceFetch
  <1>2. \A x : <<"topic_evaluate", x>> # ScoutJob /\ <<"article_write", x>> # ScoutJob
        BY DEF ScoutJob
  <1> QED BY <1>1, <1>2, GateGoesOn DEF GateStep

\* The stage of the scout asks for evaluations of topics that exist.
LEMMA TopicScoutGate ==
    ASSUME TypeOK, NEW c \in Cores, GateOpen(txn[c]), ReconcileTopicScout(c)
    PROVE  GateStep(c)
  <1> DEFINE ids == {t \in Topics : topic[t] # "absent"}
  <1>1. \/ \E r : Commit(c, r)
        \/ \E r, jobs :
              /\ Advance(c, "topic_evaluate", r, jobs, txn[c].topic, txn[c].article)
              /\ jobs \subseteq {"topic_evaluate"} \X ids
        BY DEF ReconcileTopicScout
  <1>2. \A x : <<"article_write", x>> \notin {"topic_evaluate"} \X ids
        OBVIOUS
  <1>3. \A u : <<"topic_evaluate", u>> \in {"topic_evaluate"} \X ids => topic[u] # "absent"
        OBVIOUS
  <1> QED BY <1>1, <1>2, <1>3, GateGoesOn DEF GateStep

\* The gate itself: a topic that passes is in writing from then on, and its
\* writers have their jobs, unless a person has rejected it.
LEMMA TopicEvaluateGate ==
    ASSUME TypeOK, ResultsInv, NEW c \in Cores, GateOpen(txn[c]),
           ReconcileTopicEvaluate(c)
    PROVE  GateStep(c)
  <1> DEFINE t        == txn[c]
             ids      == t.run.input["topic_evaluate"].items
             accepted == {u \in ids : verdict[u] = "pass"}
             Gated(u) == IF u \in ids /\ GateTopic(SeenTopic(c, u), verdict[u]) # Unwritten
                         THEN GateTopic(SeenTopic(c, u), verdict[u])
                         ELSE t.topic[u]
             gated    == [u \in Topics |-> Gated(u)]
             Proceed(row, jobs, topics) ==
                Advance(c, "article_write", row, jobs, topics, t.article)
  <1>1. \/ \E r : Commit(c, r)
        \/ \E r, jobs, topics :
              /\ Proceed(r, jobs, topics)
              /\ \/ topics = t.topic /\ jobs = {}
                 \/ /\ topics = gated
                    /\ jobs = {"article_write"} \X TargetsOf(accepted) \/ (jobs = {} /\ accepted = {})
        BY DEF ReconcileTopicEvaluate
  <1>2. ASSUME NEW r, Proceed(r, {}, t.topic)
        PROVE  GateStep(c)
        BY <1>2, GateGoesOn
  <1>3. ASSUME NEW r, NEW jobs, Proceed(r, jobs, gated),
               jobs = {"article_write"} \X TargetsOf(accepted)
        PROVE  GateStep(c)
    <2>1. /\ \A j : SentSeen(txn'[c], j) <=> SentSeen(t, j) \/ j \in jobs
          /\ \A u \in Topics : TopicSeen(txn'[c], u) =
                                  IF gated[u] = Unwritten THEN topic[u] ELSE gated[u]
          /\ txn'[c].topic = gated
          /\ \A d \in Cores : d # c => txn'[d] = txn[d]
          /\ UNCHANGED <<sent, topic, vetoed, agentVars>>
          BY <1>3, AdvanceSees, AdvanceIs
    <2>2. /\ \A x \in Targets : <<"article_write", x>> \in jobs <=> x[1] \in accepted
          /\ \A u : <<"topic_evaluate", u>> \notin jobs
          /\ \A x \in Targets : x[1] \in Topics
          BY <1>3 DEF TargetsOf, Targets
    <2>3. ASSUME NEW u \in Topics
          PROVE  /\ gated[u] # Unwritten => topic[u] # "absent"
                 /\ TopicSeen(txn'[c], u) = "rejected" => u \in vetoed \/ verdict[u] = "low"
                 /\ TopicSeen(txn'[c], u) \in InWriting =>
                        TopicSeen(t, u) \in InWriting \/ u \in accepted
                 /\ TopicSeen(t, u) \in InWriting => TopicSeen(txn'[c], u) \in InWriting
                 /\ u \in accepted => TopicSeen(txn'[c], u) \in InWriting \/ u \in vetoed
      <3> DEFINE seen == TopicSeen(t, u)
                 gate == GateTopic(seen, verdict[u])
      <3>1. SeenTopic(c, u) = seen
            BY DEF SeenTopic, TopicSeen
      <3>2. /\ gated[u] = IF u \in ids /\ gate # Unwritten THEN gate ELSE t.topic[u]
            /\ TopicSeen(txn'[c], u) = IF u \in ids /\ gate # Unwritten THEN gate ELSE seen
            BY <2>1, <3>1 DEF TopicSeen
      <3>3. /\ seen \in TopicStatus \cup {"absent"}
            /\ seen = "absent" => topic[u] = "absent"
            /\ topic[u] = "absent" => seen = "absent" /\ t.topic[u] = Unwritten
        <4>1. t.topic[u] \in TopicStatus \cup {Unwritten} /\ topic[u] \in TopicStatus \cup {"absent"}
              BY DEF TypeOK, Txn
        <4>2. t.topic[u] # Unwritten => topic[u] # "absent"
              BY DEF GateOpen
        <4> QED BY <4>1, <4>2 DEF TopicSeen, TopicStatus, Unwritten
      <3>4. seen = "rejected" => u \in vetoed \/ verdict[u] = "low"
            BY DEF GateOpen
      <3>5. u \in accepted => topic[u] # "absent"
            BY DEF ResultsInv, Answered, SentSeen, GateOpen
      <3>6. /\ gate \in {"in_writing", "rejected", Unwritten}
            /\ gate = "in_writing" => verdict[u] = "pass" /\ seen \in {"candidate", "scored", "approved"}
            /\ gate = "rejected" => verdict[u] = "low" /\ seen = "candidate"
            /\ gate = Unwritten /\ verdict[u] = "pass" =>
                   seen \notin {"candidate", "scored", "approved"}
            BY DEF GateTopic, Unwritten
      <3>7. u \in accepted <=> u \in ids /\ verdict[u] = "pass"
            OBVIOUS
      <3> HIDE DEF gate, gated, ids, accepted, t
      <3>8. CASE u \in ids /\ gate # Unwritten
            BY <3>2, <3>3, <3>4, <3>6, <3>7, <3>8 DEF InWriting
      <3>9. CASE ~(u \in ids /\ gate # Unwritten)
            BY <3>2, <3>3, <3>4, <3>5, <3>6, <3>7, <3>9 DEF InWriting, TopicStatus
      <3> QED BY <3>8, <3>9
    <2> HIDE DEF gated, accepted
    <2>4. GateOpen(txn'[c])
      <3>1. \A u \in Topics :
               /\ txn'[c].topic[u] # Unwritten => topic[u] # "absent"
               /\ TopicSeen(txn'[c], u) = "rejected" => u \in vetoed \/ verdict[u] = "low"
               /\ SentSeen(txn'[c], <<"topic_evaluate", u>>) => topic[u] # "absent"
            BY <2>1, <2>2, <2>3 DEF GateOpen
      <3>2. \A x \in Targets :
               /\ TopicSeen(txn'[c], x[1]) \in InWriting =>
                      SentSeen(txn'[c], <<"article_write", x>>)
               /\ SentSeen(txn'[c], <<"article_write", x>>) =>
                      TopicSeen(txn'[c], x[1]) \in InWriting \/ x[1] \in vetoed
            BY <2>1, <2>2, <2>3 DEF GateOpen
      <3> QED BY <3>1, <3>2 DEF GateOpen
    <2> QED BY <2>1, <2>4 DEF GateStep
  <1>4. CASE accepted = {}
        \* nothing passes, and the jobs are those of no topic
    <2>1. {"article_write"} \X TargetsOf(accepted) = {}
          BY <1>4 DEF TargetsOf, Targets
    <2> QED BY <1>1, <1>2, <1>3, <2>1 DEF GateStep
  <1> QED BY <1>1, <1>2, <1>3, <1>4 DEF GateStep

\* The stage of the writers ends the writing of topics in writing only.
LEMMA ArticleWriteGate ==
    ASSUME TypeOK, NEW c \in Cores, GateOpen(txn[c]), ReconcileArticleWrite(c)
    PROVE  GateStep(c)
  <1> DEFINE t       == txn[c]
             ids     == t.run.input["article_write"].items
             closed  == [u \in Topics |->
                            IF u \in ids /\ SeenTopic(c, u) = "in_writing"
                            THEN "written" ELSE t.topic[u]]
             targets == TargetsOf(ids)
             written == targets \ {x \in targets : article[x] = "absent"}
             evaluations == {"article_evaluate"} \X Targets
             Proceed(row, jobs, topics) ==
                Advance(c, "article_evaluate", row, jobs, topics, t.article)
  <1>1. \/ \E r : Commit(c, r)
        \/ \E r : Proceed(r, {}, t.topic)
        \/ \E r : Proceed(r, {"article_evaluate"} \X written, closed)
        BY DEF ReconcileArticleWrite
  <1>0. {} \in SUBSET evaluations /\ {"article_evaluate"} \X written \in SUBSET evaluations
        BY DEF TargetsOf
  <1>2. \A x : <<"article_write", x>> \notin evaluations
               /\ <<"topic_evaluate", x>> \notin evaluations
        OBVIOUS
  <1>3. ASSUME NEW r, NEW jobs \in SUBSET evaluations, Proceed(r, jobs, t.topic)
        PROVE  GateStep(c)
        BY <1>2, <1>3, GateGoesOn
  <1>4. ASSUME NEW r, NEW jobs \in SUBSET evaluations, Proceed(r, jobs, closed)
        PROVE  GateStep(c)
    <2>1. /\ \A j : SentSeen(txn'[c], j) <=> SentSeen(t, j) \/ j \in jobs
          /\ \A u \in Topics : TopicSeen(txn'[c], u) =
                                  IF closed[u] = Unwritten THEN topic[u] ELSE closed[u]
          /\ txn'[c].topic = closed
          /\ \A d \in Cores : d # c => txn'[d] = txn[d]
          /\ UNCHANGED <<sent, topic, vetoed, agentVars>>
          BY <1>4, AdvanceSees, AdvanceIs
    <2>2. ASSUME NEW u \in Topics
          PROVE  /\ closed[u] # Unwritten => topic[u] # "absent"
                 /\ TopicSeen(txn'[c], u) = TopicSeen(t, u)
                    \/ {TopicSeen(txn'[c], u), TopicSeen(t, u)} \subseteq InWriting
      <3>1. SeenTopic(c, u) = TopicSeen(t, u)
            BY DEF SeenTopic, TopicSeen
      <3>2. t.topic[u] # Unwritten => topic[u] # "absent"
            BY DEF GateOpen
      <3>3. CASE u \in ids /\ TopicSeen(t, u) = "in_writing"
            BY <2>1, <3>1, <3>2, <3>3 DEF TopicSeen, InWriting, Unwritten
      <3>4. CASE ~(u \in ids /\ TopicSeen(t, u) = "in_writing")
            BY <2>1, <3>1, <3>2, <3>4 DEF TopicSeen
      <3> QED BY <3>3, <3>4
    <2>3. \A x \in Targets : x[1] \in Topics
          BY DEF Targets
    <2> HIDE DEF closed, evaluations
    <2>4. \A u \in Topics :
             /\ txn'[c].topic[u] # Unwritten => topic[u] # "absent"
             /\ TopicSeen(txn'[c], u) = "rejected" => u \in vetoed \/ verdict[u] = "low"
             /\ SentSeen(txn'[c], <<"topic_evaluate", u>>) => topic[u] # "absent"
          BY <1>2, <1>4, <2>1, <2>2 DEF GateOpen, InWriting
    <2>5. \A x \in Targets :
             /\ TopicSeen(txn'[c], x[1]) \in InWriting =>
                    SentSeen(txn'[c], <<"article_write", x>>)
             /\ SentSeen(txn'[c], <<"article_write", x>>) =>
                    TopicSeen(txn'[c], x[1]) \in InWriting \/ x[1] \in vetoed
          BY <1>2, <1>4, <2>1, <2>2, <2>3 DEF GateOpen
    <2> QED BY <2>1, <2>4, <2>5 DEF GateStep, GateOpen
  <1> HIDE DEF Proceed, closed, evaluations, written
  <1> QED BY <1>0, <1>1, <1>3, <1>4 DEF GateStep

\* The last two stages give out no jobs.
LEMMA ArticleEvaluateGate ==
    ASSUME TypeOK, NEW c \in Cores, GateOpen(txn[c]), ReconcileArticleEvaluate(c)
    PROVE  GateStep(c)
  <1>1. \/ \E r : Commit(c, r)
        \/ Rollback(c)
        \/ \E r, articles : Advance(c, "human_review", r, {}, txn[c].topic, articles)
        BY DEF ReconcileArticleEvaluate
  <1>2. ASSUME NEW r, NEW articles,
               Advance(c, "human_review", r, {}, txn[c].topic, articles)
        PROVE  GateStep(c)
        BY <1>2, GateGoesOn
  <1> QED BY <1>1, <1>2 DEF GateStep

\* Each stage passes the gate.
LEMMA StageGateStep ==
    ASSUME TypeOK, ResultsInv, NEW c \in Cores, GateOpen(txn[c]), ReconcileStage(c)
    PROVE  GateStep(c)
  <1>1. ReconcileHumanReview(c) => GateStep(c)
        BY DEF ReconcileHumanReview, GateStep
  <1> QED BY <1>1, SourceFetchGate, TopicScoutGate, TopicEvaluateGate, ArticleWriteGate,
         ArticleEvaluateGate DEF ReconcileStage

\* What changes nothing that the gate reads leaves it as it is.
LEMMA GateStill ==
    ASSUME NEW t, GateOpen(t), UNCHANGED <<sent, topic, vetoed, agentVars>>
    PROVE  GateOpen(t)'
  BY DEF GateOpen, TopicSeen, SentSeen, agentVars

\* The gate holds after every step.
LEMMA GateNext ==
    ASSUME Inv, TablesInv, [Next]_vars
    PROVE  GateInv'
  <1>1. TypeOK /\ ResultsInv /\ GateInv /\ GateOpen(Idle)
        BY DEF Inv, TablesInv, GateInv
  <1>2. ASSUME \A t : GateOpen(t) /\ (t = Idle \/ \E d \in Cores : t = txn[d])
                         => GateOpen(t)',
               UNCHANGED txn
        PROVE  GateInv'
    <2>1. GateOpen(Idle)'
      <3>1. PICK t : t = Idle
            OBVIOUS
      <3>2. GateOpen(t)'
            BY <1>1, <1>2, <3>1
      <3> QED BY <3>1, <3>2
    <2>2. ASSUME NEW d \in Cores
          PROVE  GateOpen(txn[d])'
      <3>1. PICK t : t = txn[d]
            OBVIOUS
      <3>2. GateOpen(t)' /\ t = txn'[d]
            BY <1>1, <1>2, <3>1 DEF GateInv
      <3> QED BY <3>2
    <2> QED BY <2>1, <2>2 DEF GateInv
  <1>3. CASE UNCHANGED vars
        BY <1>2, <1>3, GateStill DEF vars
  <1>4. CASE AgentStep
        BY <1>1, <1>2, <1>4, GateAgent, OthersLeaveTheRun
  <1>5. CASE OutsideStep
    <2>1. ASSUME NEW t, t = Idle \/ \E d \in Cores : t = txn[d]
          PROVE  \A u \in Topics : topic'[u] # topic[u] => t.topic[u] = Unwritten
      <3>1. Idle.topic = [u \in Topics |-> Unwritten]
            BY DEF Idle
      <3>2. ASSUME NEW v \in Topics, RejectTopic(v) \/ TransitionWritten(v)
            PROVE  \A u \in Topics : topic'[u] # topic[u] => t.topic[u] = Unwritten
            BY <1>1, <2>1, <3>1, <3>2 DEF RejectTopic, TransitionWritten, TypeOK
      <3>3. ASSUME NEW x \in Targets, NEW to, ReviewArticle(x, to)
            PROVE  \A u \in Topics : topic'[u] # topic[u] => t.topic[u] = Unwritten
            BY <3>3 DEF ReviewArticle
      <3> QED BY <1>5, <3>2, <3>3 DEF OutsideStep
    <2> QED BY <1>1, <1>2, <1>5, <2>1, GateOutside, OthersLeaveTheRun
  <1>6. ASSUME NEW S \in SUBSET Sources, CreateContentRun(S)
        PROVE  GateInv'
    <2>1. ASSUME NEW t, GateOpen(t)
          PROVE  GateOpen(t)'
      <3>1. ASSUME NEW n \in {"topic_evaluate", "article_write"}, NEW i, <<n, i>> \in Jobs
            PROVE  sent'[<<n, i>>] = sent[<<n, i>>]
            BY <1>6, <3>1 DEF CreateContentRun
      <3>2. /\ \A u \in Topics : <<"topic_evaluate", u>> \in Jobs
            /\ \A x \in Targets : <<"article_write", x>> \in Jobs
            BY DEF Jobs
      <3> QED BY <1>6, <2>1, <3>1, <3>2, GateMoreJobs DEF CreateContentRun, SentSeen, agentVars
    <2> QED BY <1>2, <1>6, <2>1 DEF CreateContentRun
  <1>7. ASSUME NEW c \in Cores,
               UNCHANGED <<sent, topic, vetoed, agentVars>>,
               \A d \in Cores : d # c => txn'[d] = txn[d],
               GateOpen(txn'[c])
        PROVE  GateInv'
    <2>1. \A d \in Cores : GateOpen(txn'[d])
          BY <1>1, <1>7 DEF GateInv
    <2>2. \A d \in Cores : GateOpen(txn[d])'
          BY <1>7, <2>1 DEF GateOpen, TopicSeen, SentSeen, agentVars
    <2>3. GateOpen(Idle)'
          BY <1>1, <1>7 DEF GateOpen, TopicSeen, SentSeen, agentVars
    <2> QED BY <2>2, <2>3 DEF GateInv
  <1>8. ASSUME NEW c \in Cores, Rollback(c)
        PROVE  GateInv'
    <2>1. /\ txn'[c] = Idle /\ \A d \in Cores : d # c => txn'[d] = txn[d]
          /\ UNCHANGED <<sent, topic, vetoed, agentVars>>
          BY <1>1, <1>8 DEF Rollback, TypeOK
    <2> QED BY <1>1, <1>7, <2>1
  <1>9. ASSUME NEW c \in Cores, BeginReconcile(c)
        PROVE  GateInv'
    <2>1. /\ txn'[c].topic = txn[c].topic /\ txn'[c].sends = txn[c].sends
          /\ \A d \in Cores : d # c => txn'[d] = txn[d]
          /\ UNCHANGED <<sent, topic, vetoed, agentVars>>
          BY <1>1, <1>9 DEF BeginReconcile, TypeOK, Txn
    <2>2. GateOpen(txn'[c])
          BY <1>1, <2>1, GateSame DEF GateInv, SentSeen
    <2> QED BY <1>7, <2>1, <2>2
  <1>10. ASSUME NEW c \in Cores, Reconciling(c), NEW r, Commit(c, r)
         PROVE  GateInv'
    <2>1. GateOpen(txn[c])
          BY <1>1 DEF GateInv
    <2>2. /\ \A u \in Topics : <<"topic_evaluate", u>> \in Jobs
          /\ \A x \in Targets : <<"article_write", x>> \in Jobs /\ x[1] \in Topics
          BY DEF Jobs, Targets
    <2>3. /\ \A j \in Jobs : SentSeen(Idle, j)' <=> SentSeen(txn[c], j)
          /\ \A u \in Topics : /\ TopicSeen(Idle, u)' = TopicSeen(txn[c], u)
                               /\ topic'[u] = TopicSeen(txn[c], u)
                               /\ Idle.topic[u] = Unwritten
          /\ UNCHANGED <<vetoed, verdict>>
          BY <1>10, CommitSees DEF TopicSeen, Idle, agentVars
    <2>4. \A u \in Topics : topic[u] # "absent" => topic'[u] # "absent"
          BY <1>1, <2>3, SMTT(40) DEF TopicSeen, TypeOK, Txn, TopicStatus, Unwritten
    <2>5. GateOpen(Idle)'
          BY <2>1, <2>2, <2>3, <2>4 DEF GateOpen
    <2>6. \A d \in Cores : txn'[d] = Idle
          BY <1>10, CommitSees
    <2> QED BY <2>5, <2>6 DEF GateInv
  <1>11. ASSUME NEW c \in Cores, ReconcileStage(c)
         PROVE  GateInv'
    <2>1. Reconciling(c)
          BY <1>11 DEF ReconcileStage, ReconcileSourceFetch, ReconcileTopicScout,
             ReconcileTopicEvaluate, ReconcileArticleWrite, ReconcileArticleEvaluate,
             ReconcileHumanReview, Reconciling
    <2>2. GateStep(c)
          BY <1>1, <1>11, StageGateStep DEF GateInv
    <2>3. CASE /\ GateOpen(txn'[c])
               /\ \A d \in Cores : d # c => txn'[d] = txn[d]
               /\ UNCHANGED <<sent, topic, vetoed, agentVars>>
          BY <1>7, <2>3
    <2> QED BY <1>8, <1>10, <2>1, <2>2, <2>3 DEF GateStep
  <1> QED BY <1>3, <1>4, <1>5, <1>6, <1>8, <1>9, <1>11
          DEF Next, CoreStep, CrashInReconcile

-----------------------------------------------------------------------------
(* The desk.                                                                *)

\* A stage goes on with the desk as it sees it, commits one, or rolls back.
DeskStep(c) ==
    \/ /\ DeskOpen(txn'[c])
       /\ \A d \in Cores : d # c => txn'[d] = txn[d]
       /\ UNCHANGED <<run, article, agentVars>>
    \/ \E r \in CreatedRow :
          /\ Commit(c, r)
          /\ r.status = "waiting_human_review" <=> r.review # {}
          /\ r.status = "waiting_human_review" => DeskIs(r, txn[c])
          /\ r.status \in {"queued", "running"} =>
                 \A x \in Targets : txn[c].article[x] = Unwritten
    \/ Rollback(c)

\* Before the last stage nothing is on the desk.
LEMMA DeskEmpty ==
    ASSUME NEW c \in Cores, DeskOpen(txn[c]), txn[c].at # "human_review"
    PROVE  /\ txn[c].run.status # "waiting_human_review"
           /\ txn[c].run.review = {}
           /\ \A x \in Targets : txn[c].article[x] = Unwritten
  BY DEF DeskOpen

\* A stage that goes on without touching the articles.
LEMMA DeskGoesOn ==
    ASSUME TypeOK, NEW c \in Cores, DeskOpen(txn[c]), txn[c].at # "human_review",
           NEW next, NEW r, NEW jobs, NEW topics,
           Advance(c, next, r, jobs, topics, txn[c].article),
           r.review = txn[c].run.review,
           r.status \in {txn[c].run.status, "failed", "completed_empty"}
    PROVE  DeskStep(c)
  BY AdvanceIs, DeskEmpty DEF DeskStep, DeskOpen

\* A stage that waits.
LEMMA DeskCommits ==
    ASSUME TypeOK, OpenRows, NEW c \in Cores, Reconciling(c), DeskOpen(txn[c]),
           txn[c].at # "human_review", Commit(c, txn[c].run)
    PROVE  DeskStep(c)
  BY DeskEmpty, OpenRow DEF DeskStep

\* Ending a row takes nothing onto the desk.
LEMMA EndAndDesk ==
    ASSUME NEW r \in CreatedRow, NEW n \in Nodes, NEW why,
           NEW q \in {FailRun(r, why), SkipAfter(r, n, why)}
    PROVE  q.review = r.review /\ q.status \in {r.status, "failed", "completed_empty"}
  <1>1. CASE CanEnd(r)
        BY <1>1, EndIs
  <1>2. CASE ~CanEnd(r)
        BY <1>2, EndIs
  <1> QED BY <1>1, <1>2

\* How closing, binding and ending change what the desk depends on.
LEMMA HelpersAndDesk ==
    ASSUME NEW r \in CreatedRow, NEW n \in Nodes, NEW next \in Nodes,
           NEW items \in SUBSET OutputItems[n], NEW outcome \in NodeStatus
    PROVE  LET done == CloseNode(r, n, items, outcome)
               Fine(q) == /\ q.review = r.review
                          /\ q.status \in {r.status, "failed", "completed_empty"}
           IN  /\ Fine(done)
               /\ \A why : /\ Fine(FailRun(done, why)) /\ Fine(SkipAfter(done, n, why))
                           /\ Fine(SkipAfter(r, n, why))
               /\ Fine(BindInput(done, n, next))
  <1> DEFINE done == CloseNode(r, n, items, outcome)
             Fine(q) == /\ q.review = r.review
                        /\ q.status \in {r.status, "failed", "completed_empty"}
  <1>1. done \in CreatedRow /\ Fine(done)
    <2>1. done.review = r.review /\ done.status = r.status
          BY CloseNodeKeeps
    <2> QED BY <2>1, CloseNodeType
  <1> HIDE DEF done
  <1>2. ASSUME NEW why, NEW p \in CreatedRow, Fine(p),
               NEW q \in {FailRun(p, why), SkipAfter(p, n, why)}
        PROVE  Fine(q)
        BY <1>2, EndAndDesk
  <1>3. Fine(BindInput(done, n, next))
    <2>1. /\ BindInput(done, n, next).review = done.review
          /\ BindInput(done, n, next).status = done.status
          BY <1>1, BindInputKeeps
    <2> QED BY <1>1, <2>1
  <1>4. Fine(r)
        OBVIOUS
  <1> HIDE DEF Fine
  <1>5. ASSUME NEW why
        PROVE  /\ Fine(FailRun(done, why)) /\ Fine(SkipAfter(done, n, why))
               /\ Fine(SkipAfter(r, n, why))
        BY <1>1, <1>2, <1>4
  <1> QED BY <1>1, <1>3, <1>5 DEF done, Fine

\* The stages before the evaluation of articles leave the desk empty.
LEMMA EarlyStagesDesk ==
    ASSUME TypeOK, OpenRows, NEW c \in Cores, DeskOpen(txn[c]),
           \/ ReconcileSourceFetch(c) \/ ReconcileTopicScout(c)
           \/ ReconcileTopicEvaluate(c) \/ ReconcileArticleWrite(c)
    PROVE  DeskStep(c)
  <1> DEFINE r == txn[c].run
             Fine(q) == /\ q.review = r.review
                        /\ q.status \in {r.status, "failed", "completed_empty"}
             Proceed(next, q, jobs, topics) == Advance(c, next, q, jobs, topics, txn[c].article)
  <1>1. Reconciling(c) /\ txn[c].at # "human_review"
        BY DEF ReconcileSourceFetch, ReconcileTopicScout, ReconcileTopicEvaluate,
           ReconcileArticleWrite, Reconciling
  <1>2. r \in CreatedRow
        BY <1>1, OpenRow
  <1>3. ASSUME NEW q, NEW next, NEW jobs, NEW topics, Proceed(next, q, jobs, topics), Fine(q)
        PROVE  DeskStep(c)
        BY <1>1, <1>3, DeskGoesOn
  <1>4. ASSUME Commit(c, r)
        PROVE  DeskStep(c)
        BY <1>1, <1>4, DeskCommits
  <1>5. ASSUME NEW n \in Nodes, NEW after \in Nodes, NEW items \in SUBSET OutputItems[n],
               NEW outcome \in NodeStatus, NEW next, NEW jobs, NEW topics,
               \/ \E why : \/ Proceed(next, FailRun(CloseNode(r, n, items, outcome), why), jobs, topics)
                           \/ Proceed(next, SkipAfter(CloseNode(r, n, items, outcome), n, why), jobs, topics)
                           \/ Proceed(next, SkipAfter(r, n, why), jobs, topics)
               \/ Proceed(next, BindInput(CloseNode(r, n, items, outcome), n, after), jobs, topics)
        PROVE  DeskStep(c)
    <2> DEFINE done == CloseNode(r, n, items, outcome)
    <2>1. /\ \A why : /\ Fine(FailRun(done, why)) /\ Fine(SkipAfter(done, n, why))
                      /\ Fine(SkipAfter(r, n, why))
          /\ Fine(BindInput(done, n, after))
      <3> HIDE DEF r
      <3> QED BY <1>2, HelpersAndDesk
    <2> HIDE DEF done, Proceed, Fine, r
    <2> QED BY <1>3, <1>5, <2>1 DEF done
  <1> HIDE DEF Fine
  <1>6. CASE ReconcileSourceFetch(c)
    <2> DEFINE bad == {s \in r.sources : <<"source_fetch", s>> \in failed}
    <2>1. raw \in SUBSET OutputItems["source_fetch"] /\ Outcome(bad) \in NodeStatus
          BY OutcomeType DEF TypeOK, OutputItems
    <2> QED BY <1>4, <1>5, <1>6, <2>1 DEF ReconcileSourceFetch, Nodes
  <1>7. CASE ReconcileTopicScout(c)
    <2> DEFINE ids == {t \in Topics : topic[t] # "absent"}
               outcome == IF {ScoutJob} \cap failed = {} THEN "succeeded" ELSE "failed"
    <2>1. ids \in SUBSET OutputItems["topic_scout"] /\ outcome \in NodeStatus
          BY DEF OutputItems, NodeStatus
    <2> QED BY <1>4, <1>5, <1>7, <2>1, ZenonT(60) DEF ReconcileTopicScout, Nodes
  <1>8. CASE ReconcileTopicEvaluate(c)
    <2> DEFINE ids == r.input["topic_evaluate"].items
               accepted == {t \in ids : verdict[t] = "pass"}
               bad == {t \in ids : verdict[t] = "none"}
    <2>1. accepted \in SUBSET OutputItems["topic_evaluate"] /\ Outcome(bad) \in NodeStatus
          BY <1>2, OutcomeType
          DEF CreatedRow, RunRow, Snapshots, Nodes, OutputItems, InputItems
    <2> QED BY <1>4, <1>5, <1>8, <2>1, ZenonT(60) DEF ReconcileTopicEvaluate, Nodes
  <1>9. CASE ReconcileArticleWrite(c)
    <2> DEFINE targets == TargetsOf(r.input["article_write"].items)
               bad == {x \in targets : article[x] = "absent"}
               written == targets \ bad
    <2>1. written \in SUBSET OutputItems["article_write"] /\ Outcome(bad) \in NodeStatus
          BY OutcomeType DEF TargetsOf, OutputItems
    <2> QED BY <1>4, <1>5, <1>9, <2>1, ZenonT(60) DEF ReconcileArticleWrite, Nodes
  <1> QED BY <1>6, <1>7, <1>8, <1>9

\* The evaluation of articles puts on the desk exactly the drafts that passed.
LEMMA ArticleEvaluateDesk ==
    ASSUME TypeOK, OpenRows, NEW c \in Cores, DeskOpen(txn[c]),
           \A x \in Targets : article[x] \in {"absent", "draft"},
           ReconcileArticleEvaluate(c)
    PROVE  DeskStep(c)
  <1> DEFINE t        == txn[c]
             r        == t.run
             ids      == r.input["article_evaluate"].items
             bad      == {x \in ids : quality[x] = "none"}
             accepted == {x \in ids : /\ quality[x] = "pass"
                                      /\ SeenArticle(c, x) \in {"draft", "pending_review"}}
             Gated(x) == IF x \in ids /\ GateArticle(SeenArticle(c, x), quality[x]) # Unwritten
                         THEN GateArticle(SeenArticle(c, x), quality[x])
                         ELSE t.article[x]
             gated    == [x \in Targets |-> Gated(x)]
             done     == CloseNode(r, "article_evaluate", accepted, Outcome(bad))
             last     == FinishReviewStage(done, accepted, bad)
             Proceed(row, articles) == Advance(c, "human_review", row, {}, t.topic, articles)
  <1>1. Reconciling(c) /\ t.at # "human_review"
        BY DEF ReconcileArticleEvaluate, Reconciling
  <1>2. r \in CreatedRow /\ ids \subseteq Targets /\ r.review = {}
        BY <1>1, OpenRow, DeskEmpty
        DEF CreatedRow, RunRow, Snapshots, Nodes, InputItems
  <1>3. \/ Commit(c, r)
        \/ Rollback(c)
        \/ Proceed(SkipAfter(r, "article_evaluate", "no_articles_to_evaluate"), t.article)
        \/ Outcome(bad) \in EventStatus /\ Proceed(last, gated)
        BY DEF ReconcileArticleEvaluate
  <1>4. CASE Commit(c, r)
        BY <1>1, <1>4, DeskCommits
  <1>5. CASE Proceed(SkipAfter(r, "article_evaluate", "no_articles_to_evaluate"), t.article)
    <2> DEFINE skipped == SkipAfter(r, "article_evaluate", "no_articles_to_evaluate")
    <2>1. skipped.review = r.review /\ skipped.status \in {r.status, "failed", "completed_empty"}
      <3> HIDE DEF r
      <3> QED BY <1>2, EndAndDesk DEF Nodes
    <2> HIDE DEF skipped
    <2> QED BY <1>1, <1>5, <2>1, DeskGoesOn DEF skipped
  <1>6. CASE Outcome(bad) \in EventStatus /\ Proceed(last, gated)
    <2>1. bad = {}
          BY <1>6 DEF Outcome, EventStatus
    <2>2. accepted \in SUBSET Targets /\ done \in CreatedRow /\ done.review = {}
      <3>1. accepted \in SUBSET Targets
            BY <1>2
      <3>2. accepted \in SUBSET OutputItems["article_evaluate"]
            BY <3>1 DEF OutputItems
      <3> HIDE DEF accepted, bad, r
      <3>3. done.review = r.review
            BY <1>2, CloseNodeKeeps DEF Nodes
      <3> QED BY <1>2, <3>1, <3>2, <3>3, OutcomeType, CloseNodeType DEF Nodes
    <2>3. last.status = "waiting_human_review" /\ last.review = accepted
      <3> HIDE DEF accepted, done
      <3>1. CloseNode(done, "human_review", accepted, Outcome(bad)) \in CreatedRow
            BY <2>2, OutcomeType, CloseNodeType DEF Nodes, OutputItems
      <3>2. CloseNode(done, "human_review", accepted, Outcome(bad)).review = {}
            BY <2>2, CloseNodeKeeps DEF Nodes
      <3> HIDE DEF bad
      <3> QED BY <2>1, <3>1, <3>2 DEF FinishReviewStage, CreatedRow, RunRow
    <2>4. ASSUME NEW x \in Targets
          PROVE  /\ x \in accepted <=> ArticleSeen(txn'[c], x) \in OnDesk
                 /\ gated[x] # Unwritten => article[x] # "absent"
      <3>1. t.article[x] = Unwritten /\ SeenArticle(c, x) = article[x]
            BY <1>1, DeskEmpty DEF SeenArticle
      <3>2. ArticleSeen(txn'[c], x) = IF gated[x] = Unwritten THEN article[x] ELSE gated[x]
        <4>1. PICK next, row, jobs, topics : Advance(c, next, row, jobs, topics, gated)
              BY <1>6
        <4> QED BY <4>1, AdvanceSees
      <3>3. article[x] \in {"absent", "draft"} /\ quality[x] \in {"none", "pass", "low"}
            BY DEF TypeOK
      <3>4. x \notin ids => gated[x] = Unwritten
            BY <3>1
      <3>5. x \in ids => gated[x] = GateArticle(article[x], quality[x])
            BY <3>1
      <3> HIDE DEF gated, ids
      <3> QED BY <2>1, <3>1, <3>2, <3>3, <3>4, <3>5 DEF GateArticle, OnDesk, Unwritten
    <2>5. \A x \in accepted : quality[x] = "pass"
          OBVIOUS
    <2> HIDE DEF accepted, gated, last
    <2>6. /\ txn'[c].at = "human_review" /\ txn'[c].run = last /\ txn'[c].article = gated
          /\ \A d \in Cores : d # c => txn'[d] = txn[d]
          /\ UNCHANGED <<run, article, agentVars>>
          BY <1>6, AdvanceIs
    <2>7. DeskIs(last, txn'[c])
          BY <2>2, <2>3, <2>4, <2>5 DEF DeskIs
    <2> QED BY <2>3, <2>4, <2>6, <2>7 DEF DeskStep, DeskOpen
  <1> QED BY <1>3, <1>4, <1>5, <1>6 DEF DeskStep

\* The last stage waits exactly if there is something on the desk.
LEMMA HumanReviewDesk ==
    ASSUME TypeOK, OpenRows, NEW c \in Cores, DeskOpen(txn[c]), ReconcileHumanReview(c)
    PROVE  DeskStep(c)
  <1> DEFINE r == txn[c].run
             ended == CompleteEmpty(r, "no_article_passed_quality_gate")
             waiting == [r EXCEPT !.status = IF @ \in {"queued", "running"}
                                             THEN "waiting_human_review" ELSE @]
  <1>1. r \in CreatedRow
        BY OpenRow DEF ReconcileHumanReview, Reconciling
  <1>2. Commit(c, IF r.review = {} THEN ended ELSE waiting)
        BY DEF ReconcileHumanReview
  <1>3. CASE r.review = {}
    <2>1. ended \in CreatedRow
          BY <1>1, EndType DEF Reason
    <2>2. ended.review = {} /\ ended.status \notin {"queued", "running", "waiting_human_review"}
      <3>1. CASE CanEnd(r)
            BY <1>1, <1>3, <3>1 DEF CompleteEmpty, CreatedRow, RunRow
      <3>2. CASE ~CanEnd(r)
            BY <1>3, <3>2 DEF CompleteEmpty, CanEnd
      <3> QED BY <3>1, <3>2
    <2> HIDE DEF ended
    <2> QED BY <1>2, <1>3, <2>1, <2>2 DEF DeskStep
  <1>4. CASE r.review # {}
    <2>1. r.status = "waiting_human_review" /\ DeskIs(r, txn[c])
          BY <1>4 DEF DeskOpen
    <2>2. /\ waiting \in CreatedRow /\ waiting.status = "waiting_human_review"
          /\ waiting.review = r.review
      <3> HIDE DEF r
      <3> QED BY <1>1, <2>1 DEF CreatedRow, RunRow
    <2>3. DeskIs(waiting, txn[c])
          BY <2>1, <2>2 DEF DeskIs
    <2> HIDE DEF waiting
    <2> QED BY <1>2, <1>4, <2>2, <2>3 DEF DeskStep
  <1> QED BY <1>3, <1>4

\* Each stage keeps the desk in order.
LEMMA StageDeskStep ==
    ASSUME TypeOK, OpenRows, NEW c \in Cores, DeskOpen(txn[c]), ReconcileStage(c),
           \A x \in Targets : article[x] \in {"absent", "draft"}
    PROVE  DeskStep(c)
  BY EarlyStagesDesk, ArticleEvaluateDesk, HumanReviewDesk DEF ReconcileStage

\* The desk is in order after every step.
LEMMA DeskNext ==
    ASSUME Inv, TablesInv, [Next]_vars
    PROVE  DeskInv'
  <1>1. TypeOK /\ OpenRows /\ ResultsInv /\ DeskClosed
        BY DEF Inv, LockInv, TablesInv, DeskInv
  <1>2. ASSUME UNCHANGED <<run, article, quality, txn>>
        PROVE  DeskInv'
        BY <1>2 DEF TablesInv, DeskInv, DeskClosed, DeskOpen, DeskIs, ArticleSeen, Reconciling
  <1>3. CASE UNCHANGED vars
        BY <1>2, <1>3 DEF vars, agentVars
  <1>4. ASSUME NEW x \in Targets, WriteArticle(x)
        PROVE  DeskInv'
    <2>1. article[x] = "absent" /\ article' = [article EXCEPT ![x] = "draft"]
          BY <1>1, <1>4, OneResult DEF WriteArticle
    <2>2. UNCHANGED <<run, quality, txn>> /\ DOMAIN article = Targets
          BY <1>1, <1>4 DEF WriteArticle, TypeOK
    <2>3. ASSUME NEW t, t.article[x] # Unwritten => article[x] # "absent"
          PROVE  \A y \in Targets : ArticleSeen(t, y)' \in OnDesk <=> ArticleSeen(t, y) \in OnDesk
          BY <2>1, <2>2, <2>3 DEF ArticleSeen, OnDesk
    <2>4. ASSUME NEW t, t.article[x] # Unwritten => article[x] # "absent", NEW r, DeskIs(r, t)
          PROVE  DeskIs(r, t)'
          BY <2>2, <2>3, <2>4 DEF DeskIs
    <2>5. DeskClosed'
      <3>1. run.status = "waiting_human_review" => DeskIs(run, Idle)'
        <4> SUFFICES ASSUME DeskIs(run, Idle)
                     PROVE  DeskIs(run, Idle)'
            BY <1>1 DEF DeskClosed
        <4>1. PICK r, t : r = run /\ t = Idle
              OBVIOUS
        <4>2. DeskIs(r, t)'
              BY <2>4, <4>1, IdleSees
        <4> QED BY <2>2, <4>1, <4>2 DEF DeskIs
      <3> QED BY <1>1, <2>1, <2>2, <3>1 DEF DeskClosed
    <2>6. ASSUME NEW c \in Cores, Reconciling(c)
          PROVE  DeskOpen(txn[c])'
      <3>1. DeskOpen(txn[c])
            BY <2>6 DEF TablesInv, DeskInv
      <3>2. PICK r, t : r = txn[c].run /\ t = txn[c]
            OBVIOUS
      <3>3. ASSUME DeskIs(r, t), t.article[x] # Unwritten => article[x] # "absent"
            PROVE  DeskIs(txn[c].run, txn[c])'
        <4>1. DeskIs(r, t)'
              BY <2>4, <3>3
        <4> QED BY <2>2, <3>2, <4>1 DEF DeskIs
      <3> QED BY <2>1, <2>2, <3>1, <3>2, <3>3 DEF DeskOpen
    <2> QED BY <2>2, <2>5, <2>6 DEF DeskInv, Reconciling
  <1>5. ASSUME NEW x \in Targets, NEW q \in {"pass", "low"}, EvaluateArticle(x, q)
        PROVE  DeskInv'
    <2>1. quality[x] = "none" /\ quality' = [quality EXCEPT ![x] = q]
          BY <1>1, <1>5, OneResult DEF EvaluateArticle
    <2>2. UNCHANGED <<run, article, txn>> /\ DOMAIN quality = Targets
          BY <1>1, <1>5 DEF EvaluateArticle, TypeOK
    <2>3. \A y \in Targets : quality[y] = "pass" => quality'[y] = "pass"
          BY <2>1, <2>2
    <2> QED BY <2>2, <2>3 DEF TablesInv, DeskInv, DeskClosed, DeskOpen, DeskIs,
               ArticleSeen, Reconciling
  <1>6. CASE AgentStep
    <2>1. \/ UNCHANGED <<run, article, quality, txn>>
          \/ \E x \in Targets : WriteArticle(x)
          \/ \E x \in Targets, q \in {"pass", "low"} : EvaluateArticle(x, q)
          BY <1>6 DEF AgentStep, FetchItems, ProposeTopic, EvaluateTopic, ReportSuccess,
             ReportFailure, agentVars
    <2> QED BY <1>2, <1>4, <1>5, <2>1
  <1>7. ASSUME NEW x \in Targets, NEW to \in {"approved", "rejected"}, ReviewArticle(x, to)
        PROVE  DeskInv'
    <2>1. article[x] = "pending_review" /\ article' = [article EXCEPT ![x] = to]
          BY <1>1, <1>7 DEF ReviewArticle, TypeOK, CanArticleTransition, articleTransitions,
             ArticleStatus
    <2>2. UNCHANGED <<run, quality, txn>> /\ DOMAIN article = Targets
          BY <1>1, <1>7 DEF ReviewArticle, TypeOK, agentVars
    <2>3. run.status \notin {"absent", "queued", "running"}
          BY <1>1, <2>1 DEF DeskClosed
    <2>4. \A c \in Cores : ~Reconciling(c)
          BY <2>3 DEF Inv, LockInv, OpenWhileActive, Reconciling
    <2>5. \A y \in Targets : article'[y] \in OnDesk <=> article[y] \in OnDesk
          BY <2>1, <2>2 DEF OnDesk
    <2>6. DeskIs(run, Idle) => DeskIs(run, Idle)'
          BY <2>2, <2>5, IdleSees DEF DeskIs, ArticleSeen, Idle
    <2> QED BY <1>1, <2>2, <2>3, <2>4, <2>6 DEF DeskInv, DeskClosed, Reconciling
  <1>8. CASE OutsideStep
    <2>1. \/ UNCHANGED <<run, article, quality, txn>>
          \/ \E x \in Targets, to \in {"approved", "rejected"} : ReviewArticle(x, to)
          BY <1>8 DEF OutsideStep, RejectTopic, TransitionWritten, agentVars
    <2> QED BY <1>2, <1>7, <2>1
  <1>9. ASSUME NEW S \in SUBSET Sources, CreateContentRun(S)
        PROVE  DeskInv'
    <2>1. /\ run.status = "absent" /\ run'.review = run.review
          /\ run'.status \in {"queued", "completed_empty"}
          /\ UNCHANGED <<article, quality, txn>>
          BY <1>1, <1>9 DEF CreateContentRun, TypeOK, RunRow, agentVars
    <2>2. \A c \in Cores : ~Reconciling(c)
          BY <2>1 DEF Inv, LockInv, OpenWhileActive, Reconciling
    <2> QED BY <1>1, <2>1, <2>2 DEF DeskInv, DeskClosed, Reconciling
  <1>10. ASSUME NEW c \in Cores, DeskOpen(txn'[c]),
                \A d \in Cores : d # c => txn'[d] = txn[d],
                UNCHANGED <<run, article, quality>>
         PROVE  DeskInv'
    <2>1. \A d \in Cores : txn'[d].at # "idle" => DeskOpen(txn'[d])
          BY <1>10 DEF TablesInv, DeskInv, Reconciling
    <2> QED BY <1>1, <1>10, <2>1 DEF DeskInv, DeskClosed, DeskOpen, DeskIs, ArticleSeen, Reconciling
  <1>11. ASSUME NEW c \in Cores, Rollback(c)
         PROVE  DeskInv'
    <2>1. /\ \A d \in Cores : txn'[d].at # "idle" => txn'[d] = txn[d]
          /\ UNCHANGED <<run, article, quality>>
          BY <1>1, <1>11 DEF Rollback, TypeOK, Idle, agentVars
    <2>2. \A d \in Cores : txn'[d].at # "idle" => DeskOpen(txn'[d])
          BY <2>1 DEF TablesInv, DeskInv, Reconciling
    <2> QED BY <1>1, <2>1, <2>2 DEF DeskInv, DeskClosed, DeskOpen, DeskIs, ArticleSeen, Reconciling
  <1>12. ASSUME NEW c \in Cores, BeginReconcile(c)
         PROVE  DeskInv'
    <2>1. /\ txn'[c].article = txn[c].article
          /\ txn'[c].run = [run EXCEPT !.status = "running"]
          /\ \A d \in Cores : d # c => txn'[d] = txn[d]
          /\ UNCHANGED <<run, article, quality>>
          /\ txn[c].at = "idle" /\ run.status \in {"queued", "running"}
          BY <1>1, <1>12 DEF BeginReconcile, RunRowFree, TypeOK, Txn, agentVars
    <2>2. txn[c] = Idle
          BY <2>1 DEF Inv, LockInv, BlankWhenIdle
    <2>3. /\ txn'[c].run.status = "running" /\ txn'[c].run.review = {}
          /\ \A x \in Targets : txn'[c].article[x] = Unwritten
          BY <1>1, <2>1, <2>2, IdleSees DEF DeskClosed, TypeOK, RunRow
    <2> QED BY <1>10, <2>1, <2>3 DEF DeskOpen
  <1>13. ASSUME NEW c \in Cores, ReconcileStage(c)
         PROVE  DeskInv'
    <2>1. Reconciling(c)
          BY <1>13 DEF ReconcileStage, ReconcileSourceFetch, ReconcileTopicScout,
             ReconcileTopicEvaluate, ReconcileArticleWrite, ReconcileArticleEvaluate,
             ReconcileHumanReview, Reconciling
    <2>2. /\ run.status \in {"queued", "running"} /\ DeskOpen(txn[c])
          /\ \A x \in Targets : article[x] \in {"absent", "draft"}
          BY <1>1, <2>1 DEF Inv, LockInv, OpenWhileActive, TablesInv, DeskInv, DeskClosed, Reconciling
    <2>3. DeskStep(c)
          BY <1>1, <1>13, <2>2, StageDeskStep
    <2>4. CASE /\ DeskOpen(txn'[c])
               /\ \A d \in Cores : d # c => txn'[d] = txn[d]
               /\ UNCHANGED <<run, article, agentVars>>
          BY <1>10, <2>4 DEF agentVars
    <2>5. ASSUME NEW r \in CreatedRow, Commit(c, r),
                 r.status = "waiting_human_review" <=> r.review # {},
                 r.status = "waiting_human_review" => DeskIs(r, txn[c]),
                 r.status \in {"queued", "running"} =>
                     \A x \in Targets : txn[c].article[x] = Unwritten
          PROVE  DeskInv'
      <3>1. /\ \A d \in Cores : txn'[d] = Idle
            /\ \A x \in Targets : article'[x] = ArticleSeen(txn[c], x)
            /\ run' = r /\ UNCHANGED quality
            BY <2>1, <2>5, CommitSees DEF agentVars
      <3>2. DeskIs(r, txn[c]) => DeskIs(run, Idle)'
            BY <3>1, IdleSees DEF DeskIs, ArticleSeen, Idle
      <3>3. r.status # "absent"
            BY DEF CreatedRow
      <3>4. r.status \in {"queued", "running"} =>
                \A x \in Targets : article'[x] \in {"absent", "draft"}
            BY <2>2, <2>5, <3>1 DEF ArticleSeen
      <3>5. DeskClosed'
            BY <2>5, <3>1, <3>2, <3>3, <3>4 DEF DeskClosed
      <3> QED BY <3>1, <3>5, IdleSees DEF DeskInv, Reconciling
    <2> QED BY <1>11, <2>3, <2>4, <2>5 DEF DeskStep
  <1> QED BY <1>3, <1>6, <1>8, <1>9, <1>11, <1>12, <1>13
          DEF Next, CoreStep, CrashInReconcile

-----------------------------------------------------------------------------
\* Results, gates and desk are in order from the start ...
LEMMA TablesInit == Init => TablesInv
  <1> SUFFICES ASSUME Init PROVE TablesInv
      OBVIOUS
  <1>1. /\ \A c \in Cores : txn[c] = Idle
        /\ run.status = "absent" /\ run.review = {}
        /\ sent = [j \in Jobs |-> 0] /\ topic = [t \in Topics |-> "absent"]
        /\ article = [x \in Targets |-> "absent"]
        BY DEF Init, NoRun
  <1>2. ResultsInv
        BY DEF Init, ResultsInv, Answered
  <1>3. GateOpen(Idle)
    <2>1. \A x \in Targets : x[1] \in Topics /\ <<"article_write", x>> \in Jobs
          BY DEF Targets, Jobs
    <2>2. \A u \in Topics : <<"topic_evaluate", u>> \in Jobs
          BY DEF Jobs
    <2> QED BY <1>1, <2>1, <2>2, IdleSees DEF GateOpen, InWriting
  <1>4. DeskClosed
        BY <1>1 DEF DeskClosed
  <1> QED BY <1>1, <1>2, <1>3, <1>4, IdleSees DEF TablesInv, GateInv, DeskInv, Reconciling

\* ... and after every step ...
LEMMA TablesNext ==
    ASSUME Inv, TablesInv, [Next]_vars
    PROVE  TablesInv'
  <1>1. ASSUME AgentStep
        PROVE  ResultsInv'
        BY <1>1, ResultsAgent DEF Inv, TablesInv
  <1>2. ASSUME UNCHANGED <<sent, topic, article, agentVars>>
        PROVE  ResultsInv'
        BY <1>2, ResultsOthers
  <1>3. ASSUME NEW c \in Cores, ReconcileStage(c)
        PROVE  ResultsInv'
    <2>1. StageStep(c)
          BY <1>3, SourceFetchStep, TopicScoutStep, TopicEvaluateStep, ArticleWriteStep,
             ArticleEvaluateStep, HumanReviewStep DEF ReconcileStage, Inv, LockInv
    <2>2. \/ Reconciling(c) /\ \E r : Commit(c, r)
          \/ UNCHANGED <<sent, topic, article, agentVars>>
          BY <2>1 DEF StageStep, GoesOn, Publishes, Advance, Rollback, Reconciling
    <2> QED BY <1>2, <2>2, ResultsOthers
  <1>4. ASSUME CoreStep
        PROVE  ResultsInv'
    <2>1. \/ \E S \in SUBSET Sources : CreateContentRun(S)
          \/ \E c \in Cores : ReconcileStage(c)
          \/ UNCHANGED <<sent, topic, article, agentVars>>
          BY <1>4 DEF CoreStep, BeginReconcile, CrashInReconcile, Rollback
    <2> QED BY <1>2, <1>3, <2>1, ResultsOthers
  <1>5. ResultsInv'
        BY <1>1, <1>2, <1>4, ResultsOthers DEF Next, vars, TablesInv
  <1> QED BY <1>5, GateNext, DeskNext DEF TablesInv

\* ... so always.
LEMMA TablesInvariance == Spec => []TablesInv
  BY TablesInit, TablesNext, Invariance, PTL DEF Spec

\* The gates hold: a topic is never seen in writing before its writers have
\* their jobs, no writer is asked for a topic that is neither in writing nor
\* rejected by a person, and the run waits with exactly the articles on its
\* desk that passed, however people, agents and instances interleave.
THEOREM GatesStand == Spec => []GatesHold
  <1>1. ASSUME Inv, TablesInv
        PROVE  GatesHold
    <2>1. GateOpen(Idle) /\ DeskClosed /\ run.status \in RunStatus
          BY <1>1 DEF TablesInv, GateInv, DeskInv, Inv, TypeOK, RunRow
    <2>2. GateImpliesFanOut /\ WritersGetTopicsInWriting
          BY <2>1, IdleSees DEF GateOpen, GateImpliesFanOut, WritersGetTopicsInWriting,
             InWriting, Targets
    <2>3. ReviewDesk
      <3>1. CASE run.status = "waiting_human_review"
            BY <2>1, <3>1, IdleSees DEF DeskClosed, DeskIs, ReviewDesk, OnDesk
      <3>2. CASE run.status # "waiting_human_review"
        <4>1. run.review = {}
              BY <2>1, <3>2 DEF DeskClosed
        <4>2. ~Over => \A x \in Targets : article[x] \notin OnDesk
              BY <2>1, <3>2 DEF DeskClosed, Over, OnDesk, RunStatus
        <4> QED BY <3>2, <4>1, <4>2 DEF ReviewDesk, OnDesk
      <3> QED BY <3>1, <3>2
    <2> QED BY <2>2, <2>3 DEF GatesHold
  <1> QED BY <1>1, Invariance, TablesInvariance, PTL

-----------------------------------------------------------------------------
(* The barriers: jobs and stages.                                           *)

\* A job is of the stage it is named for.
LEMMA JobsAreOfTheirStage ==
    ASSUME NEW r, NEW n \in Stages, NEW j \in JobsOf(r, n)
    PROVE  j[1] = n
  BY DEF JobsOf, Stages, ScoutJob

\* The jobs of a stage depend on the sources and the inputs of the row.
LEMMA SameJobs ==
    ASSUME NEW r, NEW q, q.input = r.input, q.sources = r.sources, NEW n \in Stages
    PROVE  JobsOf(q, n) = JobsOf(r, n)
  BY DEF JobsOf, Stages

\* A stage without an input has no jobs.
LEMMA NoInputNoJobs ==
    ASSUME NEW r, InLine(r), NEW n \in Fed, ~r.input[n].taken
    PROVE  JobsOf(r, n) = {}
  <1>1. r.input[n].items = {}
        BY DEF InLine, WellFormed, NoSnapshot, Fed, Stages, Nodes
  <1> QED BY <1>1 DEF JobsOf, Fed, Stages, TargetsOf, Targets

\* Behind a stage that is open, none has an input.
LEMMA NothingBehind ==
    ASSUME NEW r, InLine(r), NEW t, Whole(r, t), NEW m \in Stages, ~r.output[m].taken,
           NEW n \in Fed, NodeIndex[m] < NodeIndex[n]
    PROVE  ~r.input[n].taken
  <1>1. ASSUME NEW a \in Stages, NEW b \in Fed, NodeIndex[b] = NodeIndex[a] + 1,
               ~r.output[a].taken
        PROVE  ~r.input[b].taken /\ ~r.output[b].taken
    <2>1. ~r.input[b].taken
          BY <1>1 DEF InLine, WellFormed, Line!InOrder, Line!Before, NoSnapshot, Fed,
             Stages, Nodes
    <2> QED BY <2>1 DEF Whole
  <1>2. /\ NodeIndex["source_fetch"] = 0 /\ NodeIndex["topic_scout"] = 1
        /\ NodeIndex["topic_evaluate"] = 2 /\ NodeIndex["article_write"] = 3
        /\ NodeIndex["article_evaluate"] = 4
        BY DEF NodeIndex
  <1>3. /\ ~r.output["source_fetch"].taken =>
               ~r.input["topic_scout"].taken /\ ~r.output["topic_scout"].taken
        /\ ~r.output["topic_scout"].taken =>
               ~r.input["topic_evaluate"].taken /\ ~r.output["topic_evaluate"].taken
        /\ ~r.output["topic_evaluate"].taken =>
               ~r.input["article_write"].taken /\ ~r.output["article_write"].taken
        /\ ~r.output["article_write"].taken => ~r.input["article_evaluate"].taken
        BY <1>1, <1>2 DEF Fed, Stages
  <1> QED BY <1>2, <1>3 DEF Fed, Stages

\* When a stage's jobs are answered, and those behind it have none, all jobs are.
LEMMA AnsweredDrains ==
    ASSUME NEW r, InLine(r), NEW t, Whole(r, t), NEW n \in Stages,
           JobsOf(r, n) \subseteq Answered, n \in Fed => r.input[n].taken,
           \A m \in Fed : NodeIndex[m] > NodeIndex[n] => ~r.input[m].taken
    PROVE  Drained(t)
  <1>1. \A m \in Stages : NodeIndex[m] \in Nat
        BY DEF Stages, NodeIndex
  <1>2. ASSUME NEW m \in Stages
        PROVE  JobsOf(r, m) \subseteq Answered
    <2>1. CASE NodeIndex[m] < NodeIndex[n]
      <3>1. n \in Fed
            BY <2>1 DEF Fed, Stages, NodeIndex
      <3>2. r.output[m].taken
            BY <2>1, <3>1, NothingBehind
      <3> QED BY <3>2 DEF Whole
    <2>2. CASE NodeIndex[m] > NodeIndex[n]
      <3>1. m \in Fed
            BY <2>2 DEF Fed, Stages, NodeIndex
      <3> QED BY <2>2, <3>1, NoInputNoJobs
    <2>3. CASE NodeIndex[m] = NodeIndex[n]
      <3>1. m = n
            BY <2>3 DEF Stages, NodeIndex
      <3> QED BY <3>1
    <2> QED BY <1>1, <2>1, <2>2, <2>3
  <1> QED BY <1>2 DEF Whole, Drained

\* When a stage has put out nothing, and its jobs are answered, all jobs are,
\* and the stages behind it have nothing to work from.
LEMMA EmptyEndDrains ==
    ASSUME NEW r \in CreatedRow, InLine(r), NEW t, Whole(r, t), NEW n \in Stages,
           JobsOf(r, n) \subseteq Answered, n \in Fed => r.input[n].taken,
           r.output[n].items = {}
    PROVE  /\ Drained(t)
           /\ \A m \in Fed : NodeIndex[m] > NodeIndex[n] => ~r.input[m].taken
  <1>1. ASSUME NEW m \in Fed, NodeIndex[m] = NodeIndex[n] + 1
        PROVE  ~r.input[m].taken /\ ~r.output[m].taken
    <2>1. r.input[m].taken => r.input[m] = r.output[n]
          BY <1>1 DEF InLine, WellFormed, Line!InOrder, Line!Before, NoSnapshot, Fed,
             Stages, Nodes
    <2> QED BY <2>1 DEF Whole
  <1>2. ASSUME NEW m \in Fed, NodeIndex[m] > NodeIndex[n]
        PROVE  ~r.input[m].taken
    <2>1. CASE NodeIndex[m] = NodeIndex[n] + 1
          BY <1>1, <2>1
    <2>2. CASE NodeIndex[m] # NodeIndex[n] + 1
      <3>1. PICK k \in Fed : NodeIndex[k] = NodeIndex[n] + 1 /\ NodeIndex[k] < NodeIndex[m]
        <4>1. \A k \in {"topic_scout", "topic_evaluate", "article_write", "article_evaluate"} :
                 k \in Fed
              BY DEF Fed, Stages
        <4> QED BY <1>2, <2>2, <4>1 DEF Stages, Fed, NodeIndex
      <3> QED BY <1>1, <3>1, NothingBehind DEF Fed
    <2> QED BY <2>1, <2>2
  <1> QED BY <1>2, AnsweredDrains

\* A job that an agent can take is of a stage that is open.
LEMMA DeliverableIsOpen ==
    ASSUME ~RetriesAfterFailure, ResultsInv, NEW r, NEW t, Whole(r, t),
           NEW j \in Jobs, Deliverable(j)
    PROVE  /\ j[1] \in Stages /\ j \in JobsOf(r, j[1]) /\ ~r.output[j[1]].taken
           /\ ~Drained(t)
  <1>1. SentSeen(t, j) /\ j \notin Answered
        BY OneResult DEF Deliverable, SentSeen
  <1>2. PICK n \in Stages : j \in JobsOf(r, n)
        BY <1>1 DEF Whole
  <1>3. j[1] = n
        BY <1>2, JobsAreOfTheirStage
  <1> QED BY <1>1, <1>2, <1>3 DEF Whole, Drained

\* What a job has been answered with is of the stage's input.
LEMMA ResultsAreOfTheStage ==
    ASSUME ResultsInv, NEW r, NEW t, Whole(r, t), NEW j \in Jobs, j \in Answered
    PROVE  j[1] \in Stages /\ j \in JobsOf(r, j[1])
  <1>1. SentSeen(t, j)
        BY DEF ResultsInv, SentSeen
  <1>2. PICK n \in Stages : j \in JobsOf(r, n)
        BY <1>1 DEF Whole
  <1> QED BY <1>2, JobsAreOfTheirStage

-----------------------------------------------------------------------------
(* The barriers: what keeps a row and its jobs together.                    *)

\* Neither fewer jobs, nor more answers, nor results for open stages.
LEMMA WholeKept ==
    ASSUME NEW r, NEW t, NEW q, Whole(r, t),
           \A j \in Jobs : SentSeen(q, j)' => SentSeen(t, j),
           Answered \subseteq Answered',
           \A n \in Stages : r.output[n].taken => Results(n)' = Results(n)
    PROVE  Whole(r, q)'
  <1>1. \A j \in Jobs : SentSeen(q, j)' => \E n \in Stages : j \in JobsOf(r, n)
        BY DEF Whole
  <1>2. \A n \in Fed : /\ r.input[n].taken => r.input[n].items # {}
                       /\ r.output[n].taken => r.input[n].taken
        BY DEF Whole
  <1>3. \A n \in Stages : r.output[n].taken =>
            r.output[n].items = Results(n)' /\ JobsOf(r, n) \subseteq Answered'
        BY DEF Whole
  <1> QED BY <1>1, <1>2, <1>3 DEF Whole

\* Of a row that only ends, or skips nodes.
LEMMA WholeEnds ==
    ASSUME NEW r, NEW t, Whole(r, t), NEW q,
           q.input = r.input, q.sources = r.sources,
           \A n \in Stages : q.output[n] = r.output[n]
    PROVE  Whole(q, t)
  <1>1. \A n \in Stages : JobsOf(q, n) = JobsOf(r, n)
        BY SameJobs
  <1> QED BY <1>1 DEF Whole, Fed

\* A stage closes with what the database holds, once its jobs are answered.
LEMMA WholeCloses ==
    ASSUME NEW r \in CreatedRow, NEW t, Whole(r, t), NEW n \in Stages, NEW outcome,
           NEW items, items = Results(n), JobsOf(r, n) \subseteq Answered,
           n \in Fed => r.input[n].taken
    PROVE  LET q == CloseNode(r, n, items, outcome)
           IN  Whole(q, t) /\ q.output[n].taken /\ q.output[n].items = items
  <1> DEFINE q == CloseNode(r, n, items, outcome)
             snap == IF r.output[n].taken THEN r.output[n]
                     ELSE [taken |-> TRUE, items |-> items]
  <1>1. /\ n \in Nodes /\ q.input = r.input /\ q.sources = r.sources
        /\ q.output = [r.output EXCEPT ![n] = snap]
        BY CloseNodeIs, CloseNodeKeeps DEF Stages, Nodes
  <1>2. snap.taken = TRUE /\ snap.items = Results(n)
    <2>1. CASE r.output[n].taken
          BY <1>1, <2>1 DEF Whole, CreatedRow, RunRow, Snapshots, Snapshot
    <2>2. CASE ~r.output[n].taken
          BY <2>2
    <2> QED BY <2>1, <2>2
  <1> HIDE DEF q, snap
  <1>3. \A m \in Nodes : q.output[m] = IF m = n THEN snap ELSE r.output[m]
        BY <1>1 DEF CreatedRow, RunRow, Snapshots
  <1>4. \A m \in Stages : m \in Nodes /\ JobsOf(q, m) = JobsOf(r, m)
        BY <1>1, SameJobs DEF Stages, Nodes
  <1>5. \A m \in Fed : m \in Stages
        BY DEF Fed
  <1> QED BY <1>1, <1>2, <1>3, <1>4, <1>5 DEF Whole, q

\* The next stage gets what this one put out, if that is something, and jobs
\* for it.
LEMMA WholeGoesOn ==
    ASSUME NEW r \in CreatedRow, InLine(r), NEW t, Whole(r, t),
           NEW n \in Stages, NEW next \in Fed, Line!Before(n, next),
           r.output[n].taken, r.output[n].items # {}, NEW jobs, NEW u,
           jobs \subseteq JobsOf(BindInput(r, n, next), next),
           \A j : SentSeen(u, j) <=> SentSeen(t, j) \/ j \in jobs
    PROVE  LET q == BindInput(r, n, next)
           IN  Whole(q, u) /\ q.input[next] = r.output[n]
  <1> DEFINE q == BindInput(r, n, next)
             snap == IF r.input[next].taken THEN r.input[next] ELSE r.output[n]
  <1>a. n \in Nodes /\ next \in Nodes
        BY DEF Stages, Fed, Nodes
  <1>b. q.output = r.output /\ q.input = [r.input EXCEPT ![next] = snap]
        BY <1>a, BindInputIs
  <1>1. /\ n \in Nodes /\ next \in Nodes /\ q.output = r.output /\ q.sources = r.sources
        /\ q.input = [r.input EXCEPT ![next] = snap]
        BY <1>a, <1>b, BindInputKeeps
  <1>2. snap = r.output[n]
        BY <1>1 DEF InLine, WellFormed, Line!InOrder, NoSnapshot
  <1> HIDE DEF q, snap
  <1>3. \A m \in Nodes : q.input[m] = IF m = next THEN r.output[n] ELSE r.input[m]
        BY <1>1, <1>2 DEF CreatedRow, RunRow, Snapshots
  <1>4. ASSUME NEW m \in Stages
        PROVE  /\ m # next \/ r.input[next].taken => JobsOf(q, m) = JobsOf(r, m)
               /\ m = next /\ ~r.input[next].taken => JobsOf(r, m) = {}
    <2>1. CASE r.input[next].taken
      <3>1. r.input[next] = r.output[n]
            BY <1>2, <2>1 DEF snap
      <3>2. q.input[m] = r.input[m]
            BY <1>3, <3>1 DEF Stages, Nodes
      <3> QED BY <1>1, <2>1, <3>2 DEF JobsOf, Stages
    <2>2. CASE ~r.input[next].taken /\ m = next
          BY <2>2, NoInputNoJobs
    <2>3. CASE ~r.input[next].taken /\ m # next
      <3>1. q.input[m] = r.input[m]
            BY <1>3, <2>3 DEF Stages, Nodes
      <3> QED BY <1>1, <2>3, <3>1 DEF JobsOf, Stages
    <2> QED BY <2>1, <2>2, <2>3
  <1>5. ASSUME NEW j \in Jobs, SentSeen(u, j)
        PROVE  \E m \in Stages : j \in JobsOf(q, m)
    <2>1. CASE j \in jobs
          BY <2>1 DEF Fed, q
    <2>2. CASE j \notin jobs
      <3>1. PICK m \in Stages : j \in JobsOf(r, m)
            BY <1>5, <2>2 DEF Whole
      <3> QED BY <1>4, <3>1
    <2> QED BY <2>1, <2>2
  <1>6. \A m \in Fed : /\ q.input[m].taken => q.input[m].items # {}
                       /\ q.output[m].taken => q.input[m].taken
        BY <1>1, <1>3 DEF Whole, Fed, Stages, Nodes
  <1>7. \A m \in Stages : q.output[m].taken =>
            q.output[m].items = Results(m) /\ JobsOf(q, m) \subseteq Answered
    <2>1. r.output[next].taken => r.input[next].taken
          BY DEF Whole
    <2> QED BY <1>1, <1>4, <2>1 DEF Whole
  <1> QED BY <1>1, <1>3, <1>5, <1>6, <1>7 DEF Whole, q

\* The results an agent adds are of the stage of a job it was given.
LEMMA AgentResults ==
    ASSUME TypeOK, AgentStep, NEW n \in Stages, Results(n)' # Results(n)
    PROVE  \E j \in Jobs : j[1] = n /\ Deliverable(j)
  <1>1. ASSUME NEW s \in Sources, FetchItems(s)
        PROVE  \E j \in Jobs : j[1] = n /\ Deliverable(j)
    <2>1. n = "source_fetch"
          BY <1>1 DEF FetchItems, Results, Stages
    <2>2. <<"source_fetch", s>> \in Jobs
          BY DEF Jobs
    <2> QED BY <1>1, <2>1, <2>2 DEF FetchItems
  <1>2. ASSUME NEW u \in Topics, ProposeTopic(u)
        PROVE  \E j \in Jobs : j[1] = n /\ Deliverable(j)
    <2>1. n = "topic_scout"
          BY <1>2 DEF ProposeTopic, Results, Stages, agentVars
    <2>2. ScoutJob \in Jobs /\ ScoutJob[1] = "topic_scout"
          BY DEF Jobs, ScoutJob
    <2> QED BY <1>2, <2>1, <2>2 DEF ProposeTopic
  <1>3. ASSUME NEW u \in Topics, NEW v \in {"pass", "low"}, EvaluateTopic(u, v)
        PROVE  \E j \in Jobs : j[1] = n /\ Deliverable(j)
    <2>1. n = "topic_evaluate"
          BY <1>3 DEF EvaluateTopic, Results, Stages
    <2>2. <<"topic_evaluate", u>> \in Jobs
          BY DEF Jobs
    <2> QED BY <1>3, <2>1, <2>2 DEF EvaluateTopic
  <1>4. ASSUME NEW x \in Targets, WriteArticle(x)
        PROVE  \E j \in Jobs : j[1] = n /\ Deliverable(j)
    <2>1. n = "article_write"
          BY <1>4 DEF WriteArticle, Results, Stages
    <2>2. <<"article_write", x>> \in Jobs
          BY DEF Jobs
    <2> QED BY <1>4, <2>1, <2>2 DEF WriteArticle
  <1>5. ASSUME NEW x \in Targets, NEW q \in {"pass", "low"}, EvaluateArticle(x, q)
        PROVE  \E j \in Jobs : j[1] = n /\ Deliverable(j)
    <2>1. n = "article_evaluate"
          BY <1>5 DEF EvaluateArticle, Results, Stages
    <2>2. <<"article_evaluate", x>> \in Jobs
          BY DEF Jobs
    <2> QED BY <1>5, <2>1, <2>2 DEF EvaluateArticle
  <1>6. ASSUME NEW j \in Jobs, ReportSuccess(j) \/ ReportFailure(j)
        PROVE  FALSE
        BY <1>6 DEF ReportSuccess, ReportFailure, Results, Stages
  <1> QED BY <1>1, <1>2, <1>3, <1>4, <1>5, <1>6 DEF AgentStep

\* The agents add nothing behind a stage that is closed.
LEMMA WholeAgent ==
    ASSUME ~RetriesAfterFailure, TypeOK, ResultsInv, AgentStep, NEW r, NEW t, Whole(r, t)
    PROVE  Whole(r, t)' /\ ~Drained(t)
  <1>1. /\ sent' = sent /\ Answered \subseteq Answered'
        /\ \E j \in Jobs : Deliverable(j)
        BY DEF AgentStep, FetchItems, ProposeTopic, EvaluateTopic, WriteArticle,
           EvaluateArticle, ReportSuccess, ReportFailure, agentVars, Answered, Jobs
  <1>2. \A n \in Stages : r.output[n].taken => Results(n)' = Results(n)
        BY AgentResults, DeliverableIsOpen
  <1>3. \A j \in Jobs : SentSeen(t, j)' => SentSeen(t, j)
        BY <1>1 DEF SentSeen
  <1>4. Whole(r, t)'
        BY <1>1, <1>2, <1>3, WholeKept
  <1> QED BY <1>1, <1>4, DeliverableIsOpen

\* Rows of topics and articles that are there or not as before.
RowsStay ==
    /\ \A u \in Topics : topic'[u] = "absent" <=> topic[u] = "absent"
    /\ \A x \in Targets : article'[x] = "absent" <=> article[x] = "absent"

\* Such rows change no result.
LEMMA ResultsStay ==
    ASSUME RowsStay, UNCHANGED agentVars, NEW n \in Stages
    PROVE  Results(n)' = Results(n)
  BY DEF RowsStay, agentVars, Results, Stages

\* ... nor the truth of a reason.
LEMMA ReasonStays ==
    ASSUME RowsStay, UNCHANGED agentVars, run'.sources = run.sources, NEW why,
           ReasonIsTrue(why)
    PROVE  ReasonIsTrue(why)'
  BY DEF RowsStay, agentVars, ReasonIsTrue

-----------------------------------------------------------------------------
(* The barriers: what a stage does.                                         *)

\* A row that may be committed by a transaction.
Fit(r, t) ==
    /\ r.sources = run.sources
    /\ Whole(r, t)
    /\ r.status \in {"queued", "running"} => r.reason = ""
    /\ r.status \notin {"queued", "running"} => Drained(t)
    /\ ReasonIsTrue(r.reason)

\* A stage goes on, commits or rolls back.
BarrierStep(c) ==
    \/ /\ BarrierOpen(txn'[c])
       /\ \A d \in Cores : d # c => txn'[d] = txn[d]
       /\ UNCHANGED <<run, sent, topic, article, agentVars>>
    \/ \E r \in CreatedRow : Commit(c, r) /\ Fit(r, txn[c])
    \/ Rollback(c)

\* A reconciliation of a run whose jobs are final once they have failed.
Ready(c) ==
    /\ ~RetriesAfterFailure
    /\ TypeOK /\ OpenRows /\ ResultsInv
    /\ Reconciling(c) /\ LineOpen(txn[c]) /\ DeskOpen(txn[c]) /\ BarrierOpen(txn[c])
    /\ \A x \in Targets : article[x] \in {"absent", "draft"}

\* The row of a transaction can be committed at any stage.
LEMMA WaitingFits ==
    ASSUME NEW c \in Cores, Ready(c)
    PROVE  txn[c].run \in CreatedRow /\ Fit(txn[c].run, txn[c])
  <1>1. ReasonIsTrue("")
        BY DEF ReasonIsTrue
  <1> QED BY <1>1, OpenRow DEF Ready, BarrierOpen, Walking, Fit

\* Each source reports once, so as many reports as sources are one of each.
LEMMA AllSourcesReported ==
    ASSUME ~RetriesAfterFailure, ResultsInv, NEW r \in RunRow, SourcesReported(r)
    PROVE  JobsOf(r, "source_fetch") \subseteq Answered
  <1> DEFINE With(events) == {s \in r.sources : <<"source_fetch", s>> \in events}
             S == With(succeeded)
             F == With(failed)
  <1>1. IsFiniteSet(r.sources)
        BY ConstantsAssumption, FS_Subset DEF RunRow
  <1>2. IsFiniteSet(S) /\ IsFiniteSet(F) /\ IsFiniteSet(S \cup F)
        BY <1>1, FS_Subset
  <1>3. S \cap F = {}
        BY DEF ResultsInv
  <1>4. Cardinality(S) + Cardinality(F) >= Cardinality(r.sources)
        BY DEF SourcesReported
  <1>5. /\ Cardinality(S) \in Nat /\ Cardinality(F) \in Nat
        /\ Cardinality(r.sources) \in Nat /\ Cardinality(S \cup F) \in Nat
        BY <1>1, <1>2, FS_CardinalityType
  <1> HIDE DEF S, F
  <1>6. Cardinality(S \cup F) = Cardinality(S) + Cardinality(F)
        BY <1>2, <1>3, <1>5, FS_Union, FS_EmptySet
  <1>7. S \cup F \in SUBSET r.sources
        BY DEF S, F
  <1>8. S \cup F = r.sources
        BY <1>1, <1>4, <1>5, <1>6, <1>7, FS_Subset
  <1> QED BY <1>8 DEF S, F, JobsOf, Answered

\* Ended, a reconciliation goes through the remaining stages.
LEMMA EndedStep ==
    ASSUME NEW c \in Cores, Ready(c), NEW next \in Nodes, next # "source_fetch",
           NEW q, NEW topics, NEW articles, Advance(c, next, q, {}, topics, articles),
           q.status \in {"failed", "completed_empty"}, ReasonIsTrue(q.reason),
           q.sources = run.sources, next \in Fed => ~q.input[next].taken,
           Whole(q, txn[c]), Drained(txn[c])
    PROVE  BarrierStep(c)
  <1>1. \A j : SentSeen(txn'[c], j) <=> SentSeen(txn[c], j)
        BY AdvanceSees DEF Ready
  <1>2. Whole(q, txn'[c]) /\ Drained(txn'[c])
        BY <1>1 DEF Whole, Drained
  <1>3. /\ txn'[c].at = next /\ txn'[c].run = q
        /\ \A d \in Cores : d # c => txn'[d] = txn[d]
        /\ UNCHANGED <<run, sent, topic, article, agentVars>>
        BY AdvanceIs DEF Ready
  <1> QED BY <1>2, <1>3 DEF BarrierStep, BarrierOpen, Walking

\* It comes through a stage that has nothing to work from.
LEMMA EndedGoesOn ==
    ASSUME NEW c \in Cores, Ready(c), NEW n \in Fed, txn[c].at = n,
           ~txn[c].run.input[n].taken,
           NEW next \in Nodes, NodeIndex[next] > NodeIndex[n], NEW why,
           NEW topics, NEW articles,
           Advance(c, next, SkipAfter(txn[c].run, n, why), {}, topics, articles)
    PROVE  BarrierStep(c)
  <1> DEFINE r == txn[c].run
             q == SkipAfter(r, n, why)
  <1>1. /\ r \in CreatedRow /\ InLine(r) /\ Whole(r, txn[c]) /\ r.sources = run.sources
        /\ n \in Stages /\ n \in Nodes
        BY WaitingFits DEF Ready, LineOpen, BarrierOpen, Fed, Stages, Nodes
  <1>2. /\ r.status \in {"failed", "completed_empty"} /\ Drained(txn[c])
        /\ ReasonIsTrue(r.reason)
        BY DEF Ready, BarrierOpen, Walking, Fed, Stages
  <1>3. ~CanEnd(r)
        BY <1>2 DEF CanEnd
  <1> HIDE DEF r
  <1>4. /\ q.sources = r.sources /\ q.input = r.input /\ q.output = r.output
        /\ q.status = r.status /\ q.reason = r.reason
        BY <1>1, <1>3, EndIs
  <1>5. Whole(q, txn[c])
        BY <1>1, <1>4, WholeEnds
  <1>6. next \in Fed => ~q.input[next].taken
    <2>1. ~r.output[n].taken
          BY <1>1 DEF Whole, r
    <2> QED BY <1>1, <1>4, <2>1, NothingBehind
  <1>7. next # "source_fetch"
        BY DEF Fed, Stages, NodeIndex
  <1> HIDE DEF q
  <1> QED BY <1>1, <1>2, <1>4, <1>5, <1>6, <1>7, EndedStep DEF q, r

\* The row of a run that goes on, at a stage whose jobs are answered.
AtStage(c, n, p) ==
    /\ p \in CreatedRow /\ InLine(p) /\ Whole(p, txn[c])
    /\ p.status = "running" /\ p.reason = "" /\ p.sources = run.sources
    /\ n \in Stages /\ JobsOf(p, n) \subseteq Answered
    /\ n \in Fed => p.input[n].taken

\* No node comes before the one of the sources.
LEMMA SourceFetchIsFirst ==
    /\ NodeIndex["source_fetch"] = 0
    /\ \A n \in Nodes : NodeIndex[n] \in Nat
  BY DEF Nodes, NodeIndex

\* A stage that runs closes with what the database holds.
LEMMA StageCloses ==
    ASSUME NEW c \in Cores, Ready(c), NEW n, AtStage(c, n, txn[c].run),
           NEW next \in Nodes, Line!Before(n, next),
           NEW items \in SUBSET OutputItems[n], items = Results(n), NEW outcome \in NodeStatus
    PROVE  LET done == CloseNode(txn[c].run, n, items, outcome)
           IN  AtStage(c, n, done) /\ done.output[n].taken /\ done.output[n].items = items
  <1> DEFINE r == txn[c].run
             done == CloseNode(r, n, items, outcome)
  <1>1. r \in CreatedRow /\ InLine(r) /\ Whole(r, txn[c]) /\ n \in Stages /\ n \in Nodes
        BY DEF AtStage, Stages, Nodes
  <1>2. /\ r.status = "running" /\ r.reason = "" /\ r.sources = run.sources
        BY DEF AtStage
  <1>3. JobsOf(r, n) \subseteq Answered
        BY DEF AtStage
  <1>4. n \in Fed => r.input[n].taken
        BY DEF AtStage
  <1>5. \A m \in Nodes : Line!Before(m, n) => r.output[m] # NoSnapshot
    <2>1. ASSUME NEW m \in Nodes, Line!Before(m, n)
          PROVE  n \in Fed
      <3>1. n # "source_fetch"
            BY <2>1, SourceFetchIsFirst DEF Line!Before
      <3> QED BY <1>1, <3>1 DEF Fed
    <2>2. ASSUME NEW m \in Nodes, Line!Before(m, n)
          PROVE  r.output[m] # NoSnapshot
      <3>1. r.input[n] # NoSnapshot
            BY <1>4, <2>1, <2>2 DEF NoSnapshot
      <3> QED BY <1>1, <2>2, <3>1 DEF InLine, Line!InOrder
    <2> QED BY <2>2
  <1> HIDE DEF r
  <1>6. done \in CreatedRow
        BY <1>1, CloseNodeType
  <1>7. InLine(done)
        BY <1>1, <1>5, CloseInLine
  <1>8. Whole(done, txn[c]) /\ done.output[n].taken /\ done.output[n].items = items
        BY <1>1, <1>3, <1>4, WholeCloses
  <1>9. /\ done.status = r.status /\ done.reason = r.reason /\ done.sources = r.sources
        /\ done.input = r.input
        BY <1>1, CloseNodeKeeps
  <1>10. JobsOf(done, n) = JobsOf(r, n)
        BY <1>1, <1>9, SameJobs
  <1> QED BY <1>1, <1>6, <1>7, <1>8, <1>9, <1>10, <1>3, <1>4, <1>2 DEF AtStage, r

\* One that has put out nothing ends the run, and says why.
LEMMA StageEnds ==
    ASSUME NEW c \in Cores, Ready(c), NEW n, NEW p, AtStage(c, n, p),
           p.output[n].items = {}, NEW why, ReasonIsTrue(why),
           NEW q \in {FailRun(p, why), SkipAfter(p, n, why)},
           NEW next \in Nodes, NodeIndex[next] > NodeIndex[n],
           NEW topics, NEW articles, Advance(c, next, q, {}, topics, articles)
    PROVE  BarrierStep(c)
  <1>1. n \in Nodes /\ p \in CreatedRow /\ InLine(p) /\ Whole(p, txn[c])
        BY DEF AtStage, Stages, Nodes
  <1>2. CanEnd(p)
        BY DEF AtStage, CanEnd
  <1>3. /\ q.sources = p.sources /\ q.input = p.input /\ q.output = p.output
        /\ q.status \in {"failed", "completed_empty"} /\ q.reason = why
        BY <1>1, <1>2, EndIs
  <1>4. Whole(q, txn[c])
        BY <1>1, <1>3, WholeEnds
  <1>5. /\ Drained(txn[c])
        /\ \A m \in Fed : NodeIndex[m] > NodeIndex[n] => ~p.input[m].taken
        BY <1>1, EmptyEndDrains DEF AtStage
  <1>6. next # "source_fetch"
        BY <1>1, SourceFetchIsFirst
  <1> QED BY <1>1, <1>3, <1>4, <1>5, <1>6, EndedStep DEF AtStage

\* A node takes the output of the one before it.
LEMMA BoundInput ==
    ASSUME NEW p \in CreatedRow, InLine(p), NEW n \in Nodes, NEW next \in Nodes,
           Line!Before(n, next)
    PROVE  BindInput(p, n, next).input[next] = p.output[n]
  <1>1. BindInput(p, n, next).input =
            [p.input EXCEPT ![next] = IF p.input[next].taken THEN p.input[next]
                                      ELSE p.output[n]]
        BY BindInputIs
  <1>2. p.input[next].taken => p.input[next] = p.output[n]
        BY DEF InLine, Line!InOrder, NoSnapshot
  <1> QED BY <1>1, <1>2 DEF CreatedRow, RunRow, Snapshots

\* One that has put out something hands it on, with the jobs for it.
LEMMA StageHandsOn ==
    ASSUME NEW c \in Cores, Ready(c), NEW n, NEW p, AtStage(c, n, p),
           p.output[n].taken, p.output[n].items # {},
           NEW next \in Fed, Line!Before(n, next), NEW jobs,
           jobs \subseteq JobsOf(BindInput(p, n, next), next),
           NEW topics, NEW articles,
           Advance(c, next, BindInput(p, n, next), jobs, topics, articles)
    PROVE  BarrierStep(c)
  <1> DEFINE q == BindInput(p, n, next)
  <1>1. /\ n \in Nodes /\ n \in Stages /\ next \in Nodes /\ next \in Stages
        /\ p \in CreatedRow /\ InLine(p) /\ Whole(p, txn[c])
        BY DEF AtStage, Fed, Stages, Nodes
  <1>2. \A j : SentSeen(txn'[c], j) <=> SentSeen(txn[c], j) \/ j \in jobs
        BY AdvanceSees DEF Ready
  <1>3. Whole(q, txn'[c]) /\ q.input[next] = p.output[n]
        BY <1>1, <1>2, WholeGoesOn
  <1>4. /\ q.status = "running" /\ q.reason = "" /\ q.sources = run.sources
        BY <1>1, BindInputKeeps, ZenonT(60) DEF AtStage
  <1> HIDE DEF q
  <1>5. /\ txn'[c].at = next /\ txn'[c].run = q
        /\ \A d \in Cores : d # c => txn'[d] = txn[d]
        /\ UNCHANGED <<run, sent, topic, article, agentVars>>
        BY AdvanceIs DEF Ready, q
  <1> QED BY <1>1, <1>3, <1>4, <1>5 DEF BarrierStep, BarrierOpen, Walking

\* What is known of the row at a stage that has something to work from.
LEMMA RunningRow ==
    ASSUME NEW c \in Cores, Ready(c), NEW n \in Stages, txn[c].at = n,
           n \in Fed => txn[c].run.input[n].taken,
           JobsOf(txn[c].run, n) \subseteq Answered
    PROVE  AtStage(c, n, txn[c].run)
  BY WaitingFits DEF Ready, LineOpen, BarrierOpen, Walking, Fed, Stages, AtStage

\* The stage of the sources closes when every source has reported.
LEMMA SourceFetchBarrier ==
    ASSUME NEW c \in Cores, Ready(c), ReconcileSourceFetch(c)
    PROVE  BarrierStep(c)
  <1> DEFINE n    == "source_fetch"
             r    == txn[c].run
             bad  == {s \in r.sources : <<n, s>> \in failed}
             done == CloseNode(r, n, raw, Outcome(bad))
             Proceed(row, jobs) == Advance(c, "topic_scout", row, jobs,
                                           txn[c].topic, txn[c].article)
  <1>1. /\ txn[c].at = n /\ n \in Stages /\ n \in Nodes /\ n \notin Fed
        /\ "topic_scout" \in Nodes /\ "topic_scout" \in Fed
        /\ Line!Before(n, "topic_scout") /\ NodeIndex["topic_scout"] > NodeIndex[n]
        BY DEF ReconcileSourceFetch, Stages, Nodes, Fed, Line!Before, NodeIndex
  <1>2. /\ r \in RunRow /\ r.sources = run.sources /\ Fit(r, txn[c]) /\ r \in CreatedRow
        BY WaitingFits DEF Ready, BarrierOpen, CreatedRow
  <1>3. \/ Commit(c, r)
        \/ /\ SourcesReported(r) /\ raw = {} /\ bad = r.sources
           /\ Proceed(FailRun(done, "all_source_fetch_failed"), {})
        \/ /\ SourcesReported(r) /\ raw = {} /\ bad # r.sources
           /\ Proceed(SkipAfter(done, n, "no_new_raw_items"), {})
        \/ /\ SourcesReported(r) /\ raw # {}
           /\ Proceed(BindInput(done, n, "topic_scout"), {ScoutJob})
        BY DEF ReconcileSourceFetch
  <1>4. CASE Commit(c, r)
        BY <1>2, <1>4 DEF BarrierStep
  <1>5. ASSUME SourcesReported(r)
        PROVE  JobsOf(r, n) \subseteq Answered
        BY <1>2, <1>5, AllSourcesReported DEF Ready
  <1>6. ASSUME SourcesReported(r)
        PROVE  AtStage(c, n, done) /\ done.output[n].taken /\ done.output[n].items = raw
    <2>1. AtStage(c, n, r)
          BY <1>1, <1>5, <1>6, RunningRow
    <2>2. raw \in SUBSET OutputItems[n] /\ raw = Results(n)
          BY DEF Ready, TypeOK, OutputItems, Results
    <2>3. Outcome(bad) \in NodeStatus
          BY OutcomeType
    <2> HIDE DEF bad, n, r
    <2> QED BY <1>1, <2>1, <2>2, <2>3, StageCloses DEF r
  <1>7. CASE /\ SourcesReported(r) /\ raw = {} /\ bad = r.sources
             /\ Proceed(FailRun(done, "all_source_fetch_failed"), {})
    <2>1. ReasonIsTrue("all_source_fetch_failed")
          BY <1>2, <1>7 DEF ReasonIsTrue
    <2> HIDE DEF done, n
    <2> QED BY <1>1, <1>6, <1>7, <2>1, StageEnds
  <1>8. CASE /\ SourcesReported(r) /\ raw = {} /\ bad # r.sources
             /\ Proceed(SkipAfter(done, n, "no_new_raw_items"), {})
    <2>1. \E s \in run.sources : <<n, s>> \in succeeded
          BY <1>2, <1>5, <1>8 DEF JobsOf, Answered
    <2>2. ReasonIsTrue("no_new_raw_items")
          BY <1>8, <2>1 DEF ReasonIsTrue
    <2> HIDE DEF done, n
    <2> QED BY <1>1, <1>6, <1>8, <2>2, StageEnds
  <1>9. CASE /\ SourcesReported(r) /\ raw # {}
             /\ Proceed(BindInput(done, n, "topic_scout"), {ScoutJob})
    <2> DEFINE q == BindInput(done, n, "topic_scout")
    <2>1. AtStage(c, n, done) /\ done.output[n].taken /\ done.output[n].items # {}
          BY <1>6, <1>9
    <2> HIDE DEF done, n
    <2>2. q.input["topic_scout"].taken
          BY <1>1, <2>1, BoundInput, ZenonT(60) DEF AtStage
    <2>3. {ScoutJob} \subseteq JobsOf(q, "topic_scout")
          BY <2>2 DEF JobsOf
    <2> QED BY <1>1, <1>9, <2>1, <2>3, StageHandsOn
  <1> QED BY <1>3, <1>4, <1>7, <1>8, <1>9

\* A stage that is fed works from what the one before it put out.
LEMMA FedByResults ==
    ASSUME NEW c \in Cores, Ready(c), NEW n \in Fed, NEW m \in Stages, Line!Before(m, n),
           txn[c].run.input[n].taken
    PROVE  /\ txn[c].run.input[n].items = Results(m)
           /\ Results(m) # {}
  <1> DEFINE r == txn[c].run
  <1>1. InLine(r) /\ Whole(r, txn[c]) /\ m \in Nodes /\ n \in Nodes
        BY DEF Ready, LineOpen, BarrierOpen, Stages, Fed, Nodes
  <1> HIDE DEF r
  <1>2. r.input[n] = r.output[m]
        BY <1>1 DEF InLine, Line!InOrder, NoSnapshot, r
  <1> QED BY <1>1, <1>2 DEF Whole, r

\* The stage of the scout closes when the scout has reported.
LEMMA TopicScoutBarrier ==
    ASSUME NEW c \in Cores, Ready(c), ReconcileTopicScout(c)
    PROVE  BarrierStep(c)
  <1> DEFINE n    == "topic_scout"
             next == "topic_evaluate"
             r    == txn[c].run
             ids  == {t \in Topics : topic[t] # "absent"}
             outcome == IF {ScoutJob} \cap failed = {} THEN "succeeded" ELSE "failed"
             done == CloseNode(r, n, ids, outcome)
             Proceed(row, jobs) == Advance(c, next, row, jobs,
                                           txn[c].topic, txn[c].article)
  <1>1. /\ txn[c].at = n /\ n \in Stages /\ n \in Nodes /\ n \in Fed
        /\ next \in Nodes /\ next \in Fed
        /\ Line!Before(n, next) /\ NodeIndex[next] > NodeIndex[n]
        /\ "source_fetch" \in Stages /\ Line!Before("source_fetch", n)
        BY DEF ReconcileTopicScout, Stages, Nodes, Fed, Line!Before, NodeIndex
  <1>2. r \in CreatedRow /\ Fit(r, txn[c])
        BY WaitingFits
  <1>3. \/ Commit(c, r)
        \/ /\ ScoutJob \in Answered /\ ids = {}
           /\ Proceed(FailRun(done, "topic_scout_failed"), {})
        \/ /\ ScoutJob \in Answered /\ ids = {}
           /\ Proceed(SkipAfter(done, n, "scout_produced_no_topics"), {})
        \/ /\ ScoutJob \in Answered /\ ids # {}
           /\ Proceed(BindInput(done, n, next), {next} \X ids)
        BY DEF ReconcileTopicScout, Answered
  <1>4. CASE Commit(c, r)
        BY <1>2, <1>4 DEF BarrierStep
  <1>5. ASSUME ScoutJob \in Answered
        PROVE  /\ AtStage(c, n, done) /\ done.output[n].taken /\ done.output[n].items = ids
               /\ raw # {}
    <2>1. r.input[n].taken
      <3>1. ScoutJob \in Jobs /\ ScoutJob[1] = n
            BY DEF Jobs, ScoutJob
      <3>2. ScoutJob \in JobsOf(r, n)
            BY <1>2, <1>5, <3>1, ResultsAreOfTheStage DEF Ready, Fit
      <3> QED BY <3>2 DEF JobsOf
    <2>2. JobsOf(r, n) \subseteq Answered
          BY <1>5 DEF JobsOf
    <2>3. AtStage(c, n, r)
          BY <1>1, <2>1, <2>2, RunningRow
    <2>4. ids \in SUBSET OutputItems[n] /\ ids = Results(n) /\ outcome \in NodeStatus
          BY DEF OutputItems, Results, NodeStatus
    <2>5. raw # {}
          BY <1>1, <2>1, FedByResults DEF Results
    <2> HIDE DEF ids, outcome, n, r, next
    <2> QED BY <1>1, <2>3, <2>4, <2>5, StageCloses DEF r
  <1>6. CASE /\ ScoutJob \in Answered /\ ids = {}
             /\ \/ Proceed(FailRun(done, "topic_scout_failed"), {})
                \/ Proceed(SkipAfter(done, n, "scout_produced_no_topics"), {})
    <2>1. ReasonIsTrue("topic_scout_failed") /\ ReasonIsTrue("scout_produced_no_topics")
          BY <1>5, <1>6 DEF ReasonIsTrue
    <2> HIDE DEF done, n, next, ids
    <2> QED BY <1>1, <1>5, <1>6, <2>1, StageEnds
  <1>7. CASE /\ ScoutJob \in Answered /\ ids # {}
             /\ Proceed(BindInput(done, n, next), {next} \X ids)
    <2> DEFINE q == BindInput(done, n, next)
    <2>1. AtStage(c, n, done) /\ done.output[n].taken /\ done.output[n].items = ids
          BY <1>5, <1>7
    <2> HIDE DEF done, n, ids
    <2>2. q.input[next].items = ids
          BY <1>1, <2>1, BoundInput DEF AtStage
    <2>3. {next} \X ids \subseteq JobsOf(q, next)
          BY <2>2 DEF JobsOf
    <2> HIDE DEF q, next
    <2> QED BY <1>1, <1>7, <2>1, <2>3, StageHandsOn DEF q
  <1> QED BY <1>3, <1>4, <1>6, <1>7

\* Results are of the items a stage was fed, and each was answered.
LEMMA FedResults ==
    ASSUME NEW c \in Cores, Ready(c)
    PROVE  LET r == txn[c].run
               Fed1(n) == r.input[n].items
           IN  /\ \A u \in Topics : verdict[u] # "none" => u \in Fed1("topic_evaluate")
               /\ \A x \in Targets : article[x] # "absent" =>
                      x \in TargetsOf(Fed1("article_write"))
               /\ \A x \in Targets : quality[x] # "none" => x \in Fed1("article_evaluate")
  <1> DEFINE r == txn[c].run
  <1>1. Whole(r, txn[c]) /\ ResultsInv
        BY DEF Ready, BarrierOpen
  <1> HIDE DEF r
  <1>2. ASSUME NEW j \in Jobs, j \in succeeded
        PROVE  j \in JobsOf(r, j[1])
        BY <1>1, <1>2, ResultsAreOfTheStage DEF Answered
  <1>3. ASSUME NEW u \in Topics, verdict[u] # "none"
        PROVE  u \in r.input["topic_evaluate"].items
    <2>1. <<"topic_evaluate", u>> \in Jobs /\ <<"topic_evaluate", u>> \in succeeded
          BY <1>1, <1>3 DEF Jobs, ResultsInv
    <2>2. <<"topic_evaluate", u>> \in JobsOf(r, "topic_evaluate")
          BY <1>2, <2>1
    <2> QED BY <2>2 DEF JobsOf
  <1>4. ASSUME NEW x \in Targets, article[x] # "absent"
        PROVE  x \in TargetsOf(r.input["article_write"].items)
    <2>1. <<"article_write", x>> \in Jobs /\ <<"article_write", x>> \in succeeded
          BY <1>1, <1>4 DEF Jobs, ResultsInv
    <2>2. <<"article_write", x>> \in JobsOf(r, "article_write")
          BY <1>2, <2>1
    <2> QED BY <2>2 DEF JobsOf
  <1>5. ASSUME NEW x \in Targets, quality[x] # "none"
        PROVE  x \in r.input["article_evaluate"].items
    <2>1. <<"article_evaluate", x>> \in Jobs /\ <<"article_evaluate", x>> \in succeeded
          BY <1>1, <1>5 DEF Jobs, ResultsInv
    <2>2. <<"article_evaluate", x>> \in JobsOf(r, "article_evaluate")
          BY <1>2, <2>1
    <2> QED BY <2>2 DEF JobsOf
  <1> QED BY <1>3, <1>4, <1>5 DEF r

\* A stage that has no input ends the run at most; it has ended already.
LEMMA NothingToWorkFrom ==
    ASSUME NEW c \in Cores, Ready(c), NEW n \in Fed
    PROVE  /\ txn[c].run.input[n].taken <=> txn[c].run.input[n].items # {}
           /\ txn[c].run.input[n].items \subseteq InputItems[n]
  <1>1. /\ InLine(txn[c].run) /\ Whole(txn[c].run, txn[c]) /\ txn[c].run \in CreatedRow
        /\ n \in Nodes
        BY WaitingFits DEF Ready, LineOpen, BarrierOpen, Fed, Stages, Nodes
  <1>2. txn[c].run.input[n].items \subseteq InputItems[n]
        BY <1>1 DEF CreatedRow, RunRow, Snapshots
  <1> QED BY <1>1, <1>2 DEF Whole, InLine, WellFormed, NoSnapshot

\* The stage of the topics closes when each is evaluated or has failed to be.
LEMMA TopicEvaluateBarrier ==
    ASSUME NEW c \in Cores, Ready(c), ReconcileTopicEvaluate(c)
    PROVE  BarrierStep(c)
  <1> DEFINE n        == "topic_evaluate"
             next     == "article_write"
             r        == txn[c].run
             ids      == r.input[n].items
             bad      == {t \in ids : verdict[t] = "none"}
             accepted == {t \in ids : verdict[t] = "pass"}
             done     == CloseNode(r, n, accepted, Outcome(bad))
             writes   == {next} \X TargetsOf(accepted)
             Proceed(row, jobs, topics) ==
                Advance(c, next, row, jobs, topics, txn[c].article)
  <1>0. txn[c].at = n
        BY DEF ReconcileTopicEvaluate
  <1>1. /\ txn[c].at = n /\ n \in Stages /\ n \in Nodes /\ n \in Fed
        /\ next \in Nodes /\ next \in Fed
        /\ Line!Before(n, next) /\ NodeIndex[next] > NodeIndex[n]
        /\ "topic_scout" \in Stages /\ Line!Before("topic_scout", n)
        BY <1>0 DEF Stages, Nodes, Fed, Line!Before, NodeIndex
  <1>2. r \in CreatedRow /\ Fit(r, txn[c])
        BY WaitingFits
  <1>3. \/ Commit(c, r)
        \/ /\ ids = {}
           /\ \E topics : Proceed(SkipAfter(r, n, "no_topics_to_evaluate"), {}, topics)
        \/ /\ ids # {} /\ AllFailed(n, bad) /\ accepted = {}
           /\ \E topics : Proceed(SkipAfter(done, n, "all_topics_rejected"), {}, topics)
        \/ /\ ids # {} /\ AllFailed(n, bad) /\ accepted # {}
           /\ \E topics : Proceed(BindInput(done, n, next), writes, topics)
        BY DEF ReconcileTopicEvaluate
  <1>4. CASE Commit(c, r)
        BY <1>2, <1>4 DEF BarrierStep
  <1>5. ids \subseteq Topics /\ (r.input[n].taken <=> ids # {})
        BY <1>1, NothingToWorkFrom DEF InputItems, Nodes
  <1>6. CASE /\ ids = {}
             /\ \E topics : Proceed(SkipAfter(r, n, "no_topics_to_evaluate"), {}, topics)
    <2> HIDE DEF n, next
    <2> QED BY <1>1, <1>5, <1>6, EndedGoesOn
  <1>7. ASSUME ids # {}, AllFailed(n, bad)
        PROVE  /\ AtStage(c, n, done) /\ done.output[n].taken
               /\ done.output[n].items = accepted
               /\ accepted = Results(n) /\ \E t \in Topics : topic[t] # "absent"
    <2>1. JobsOf(r, n) \subseteq Answered
          BY <1>5, <1>7 DEF JobsOf, AllFailed, Answered, Ready, ResultsInv
    <2>2. AtStage(c, n, r)
          BY <1>1, <1>5, <1>7, <2>1, RunningRow
    <2>3. accepted = Results(n)
          BY <1>5, FedResults DEF Results
    <2>4. accepted \in SUBSET OutputItems[n] /\ Outcome(bad) \in NodeStatus
          BY <1>5, OutcomeType DEF OutputItems
    <2>5. \E t \in Topics : topic[t] # "absent"
      <3>1. Results("topic_scout") # {}
            BY <1>1, <1>5, <1>7, FedByResults
      <3> QED BY <3>1 DEF Results
    <2> HIDE DEF accepted, bad, n, r, next, ids
    <2> QED BY <1>1, <2>2, <2>3, <2>4, <2>5, StageCloses DEF r
  <1>8. CASE /\ ids # {} /\ AllFailed(n, bad) /\ accepted = {}
             /\ \E topics : Proceed(SkipAfter(done, n, "all_topics_rejected"), {}, topics)
    <2>1. ReasonIsTrue("all_topics_rejected")
          BY <1>7, <1>8 DEF ReasonIsTrue, Results
    <2> HIDE DEF done, n, next, ids, bad, accepted
    <2> QED BY <1>1, <1>7, <1>8, <2>1, StageEnds
  <1>9. CASE /\ ids # {} /\ AllFailed(n, bad) /\ accepted # {}
             /\ \E topics : Proceed(BindInput(done, n, next), writes, topics)
    <2> DEFINE q == BindInput(done, n, next)
    <2>1. AtStage(c, n, done) /\ done.output[n].taken /\ done.output[n].items = accepted
          BY <1>7, <1>9
    <2> HIDE DEF done, n, ids, accepted, bad
    <2>2. q.input[next].items = accepted
          BY <1>1, <2>1, BoundInput DEF AtStage
    <2>3. writes \subseteq JobsOf(q, next)
          BY <2>2 DEF JobsOf
    <2> HIDE DEF q, next, writes
    <2> QED BY <1>1, <1>9, <2>1, <2>3, StageHandsOn DEF q
  <1> QED BY <1>3, <1>4, <1>6, <1>8, <1>9

\* The stage of the writers closes when each article is written or has failed.
LEMMA ArticleWriteBarrier ==
    ASSUME NEW c \in Cores, Ready(c), ReconcileArticleWrite(c)
    PROVE  BarrierStep(c)
  <1> DEFINE n       == "article_write"
             next    == "article_evaluate"
             r       == txn[c].run
             ids     == r.input[n].items
             targets == TargetsOf(ids)
             bad     == {x \in targets : article[x] = "absent"}
             written == targets \ bad
             done    == CloseNode(r, n, written, Outcome(bad))
             evaluations == {next} \X written
             Proceed(row, jobs, topics) ==
                Advance(c, next, row, jobs, topics, txn[c].article)
  <1>0. txn[c].at = n
        BY DEF ReconcileArticleWrite
  <1>1. /\ txn[c].at = n /\ n \in Stages /\ n \in Nodes /\ n \in Fed
        /\ next \in Nodes /\ next \in Fed
        /\ Line!Before(n, next) /\ NodeIndex[next] > NodeIndex[n]
        /\ "topic_evaluate" \in Stages /\ Line!Before("topic_evaluate", n)
        BY <1>0 DEF Stages, Nodes, Fed, Line!Before, NodeIndex
  <1>2. r \in CreatedRow /\ Fit(r, txn[c])
        BY WaitingFits
  <1>3. \/ Commit(c, r)
        \/ /\ ids = {}
           /\ \E topics : Proceed(SkipAfter(r, n, "no_accepted_topics"), {}, topics)
        \/ /\ ids # {} /\ targets = {}
           /\ \E topics : Proceed(SkipAfter(r, n, "accepted_topics_have_no_platforms"),
                                  {}, topics)
        \/ /\ targets # {} /\ AllFailed(n, bad) /\ written = {}
           /\ \E topics : Proceed(SkipAfter(done, n, "all_writes_failed"), {}, topics)
        \/ /\ targets # {} /\ AllFailed(n, bad) /\ written # {}
           /\ \E topics : Proceed(BindInput(done, n, next), evaluations, topics)
        BY DEF ReconcileArticleWrite
  <1>4. CASE Commit(c, r)
        BY <1>2, <1>4 DEF BarrierStep
  <1>5. /\ ids \subseteq Topics /\ (r.input[n].taken <=> ids # {})
        /\ targets \subseteq Targets /\ (targets # {} => ids # {})
        BY <1>1, NothingToWorkFrom DEF InputItems, Nodes, TargetsOf
  <1>6. CASE /\ ids = {}
             /\ \E topics : Proceed(SkipAfter(r, n, "no_accepted_topics"), {}, topics)
    <2> HIDE DEF n, next
    <2> QED BY <1>1, <1>5, <1>6, EndedGoesOn
  <1>7. ASSUME ids # {}
        PROVE  ids = {t \in Topics : verdict[t] = "pass"}
        BY <1>1, <1>5, <1>7, FedByResults, ZenonT(60) DEF Results
  <1>8. CASE /\ ids # {} /\ targets = {}
             /\ \E topics : Proceed(SkipAfter(r, n, "accepted_topics_have_no_platforms"),
                                    {}, topics)
    <2>1. JobsOf(r, n) = {}
          BY <1>8 DEF JobsOf
    <2>2. AtStage(c, n, r)
          BY <1>1, <1>5, <1>8, <2>1, RunningRow
    <2>3. r.output[n].items = {}
      <3>1. CASE r.output[n].taken
        <4>1. r.output[n].items = Results(n)
              BY <1>1, <1>2, <3>1 DEF Fit, Whole
        <4>2. Results(n) = {}
              BY <1>8, FedResults DEF Results
        <4> QED BY <4>1, <4>2
      <3>2. CASE ~r.output[n].taken
        <4>1. InLine(r)
              BY <2>2 DEF AtStage
        <4> HIDE DEF r, n
        <4> QED BY <1>1, <3>2, <4>1 DEF InLine, WellFormed, NoSnapshot
      <3> QED BY <3>1, <3>2
    <2>4. ReasonIsTrue("accepted_topics_have_no_platforms")
      <3>1. \E t \in Topics : verdict[t] = "pass"
            BY <1>7, <1>8
      <3>2. \A x \in Targets : verdict[x[1]] # "pass"
            BY <1>7, <1>8 DEF TargetsOf, Targets
      <3> QED BY <3>1, <3>2 DEF ReasonIsTrue
    <2> HIDE DEF n, next, targets
    <2> QED BY <1>1, <1>8, <2>2, <2>3, <2>4, StageEnds
  <1>9. ASSUME targets # {}, AllFailed(n, bad)
        PROVE  /\ AtStage(c, n, done) /\ done.output[n].taken
               /\ done.output[n].items = written /\ written = Results(n)
    <2>1. JobsOf(r, n) \subseteq Answered
          BY <1>5, <1>9 DEF JobsOf, AllFailed, Answered, Ready, ResultsInv
    <2>2. AtStage(c, n, r)
          BY <1>1, <1>5, <1>9, <2>1, RunningRow
    <2>3. written = Results(n)
          BY <1>5, FedResults DEF Results
    <2>4. written \in SUBSET OutputItems[n] /\ Outcome(bad) \in NodeStatus
          BY <1>5, OutcomeType DEF OutputItems
    <2> HIDE DEF written, bad, n, r, next, ids, targets
    <2> QED BY <1>1, <2>2, <2>3, <2>4, StageCloses DEF r
  <1>10. CASE /\ targets # {} /\ AllFailed(n, bad) /\ written = {}
              /\ \E topics : Proceed(SkipAfter(done, n, "all_writes_failed"), {}, topics)
    <2>1. \E x \in Targets : verdict[x[1]] = "pass"
          BY <1>5, <1>7, <1>10 DEF TargetsOf
    <2>2. ReasonIsTrue("all_writes_failed")
          BY <1>9, <1>10, <2>1 DEF ReasonIsTrue, Results
    <2> HIDE DEF done, n, next, ids, bad, written, targets
    <2> QED BY <1>1, <1>9, <1>10, <2>2, StageEnds
  <1>11. CASE /\ targets # {} /\ AllFailed(n, bad) /\ written # {}
              /\ \E topics : Proceed(BindInput(done, n, next), evaluations, topics)
    <2> DEFINE q == BindInput(done, n, next)
    <2>1. AtStage(c, n, done) /\ done.output[n].taken /\ done.output[n].items = written
          BY <1>9, <1>11
    <2> HIDE DEF done, n, ids, written, bad, targets
    <2>2. q.input[next].items = written
          BY <1>1, <2>1, BoundInput DEF AtStage
    <2>3. evaluations \subseteq JobsOf(q, next)
          BY <2>2 DEF JobsOf
    <2> HIDE DEF q, next, evaluations
    <2> QED BY <1>1, <1>11, <2>1, <2>3, StageHandsOn DEF q
  <1> QED BY <1>3, <1>4, <1>6, <1>8, <1>10, <1>11

\* Finishing the review stage of a row puts what was accepted on the desk.
LEMMA FinishReviewStageIs ==
    ASSUME NEW r \in CreatedRow, NEW accepted \in SUBSET Targets
    PROVE  LET q == FinishReviewStage(r, accepted, {})
           IN  /\ q.input = r.input /\ q.sources = r.sources /\ q.reason = r.reason
               /\ q.review = r.review \cup accepted /\ q.status = "waiting_human_review"
               /\ \A m \in Stages : q.output[m] = r.output[m]
  <1> DEFINE n == "human_review"
             p == CloseNode(r, n, accepted, "succeeded")
             q == FinishReviewStage(r, accepted, {})
             snap == IF r.output[n].taken THEN r.output[n]
                     ELSE [taken |-> TRUE, items |-> accepted]
  <1>1. n \in Nodes /\ n \notin Stages /\ \A m \in Stages : m \in Nodes
        BY DEF Nodes, Stages
  <1>2. p \in CreatedRow
        BY CloseNodeType DEF Nodes, OutputItems, NodeStatus
  <1>3. /\ p.input = r.input /\ p.sources = r.sources /\ p.reason = r.reason
        /\ p.review = r.review
        BY <1>1, CloseNodeKeeps
  <1>4. p.output = [r.output EXCEPT ![n] = snap]
        BY <1>1, CloseNodeIs
  <1>5. q = [p EXCEPT !.review = @ \cup accepted, !.status = "waiting_human_review"]
        BY DEF FinishReviewStage, Outcome
  <1> HIDE DEF p, q, n, snap
  <1>6. /\ q.input = p.input /\ q.sources = p.sources /\ q.reason = p.reason
        /\ q.output = p.output
        /\ q.review = p.review \cup accepted /\ q.status = "waiting_human_review"
        BY <1>2, <1>5 DEF CreatedRow, RunRow
  <1>7. \A m \in Stages : p.output[m] = r.output[m]
        BY <1>1, <1>4 DEF CreatedRow, RunRow, Snapshots
  <1> QED BY <1>3, <1>6, <1>7 DEF q

\* The stage of the article evaluations closes when each is evaluated; one
\* that failed for good rolls the transaction back, again and again.
LEMMA ArticleEvaluateBarrier ==
    ASSUME NEW c \in Cores, Ready(c), ReconcileArticleEvaluate(c)
    PROVE  BarrierStep(c)
  <1> DEFINE n        == "article_evaluate"
             next     == "human_review"
             t        == txn[c]
             r        == t.run
             ids      == r.input[n].items
             bad      == {x \in ids : quality[x] = "none"}
             accepted == {x \in ids : /\ quality[x] = "pass"
                                      /\ SeenArticle(c, x) \in {"draft", "pending_review"}}
             done     == CloseNode(r, n, accepted, Outcome(bad))
             last     == FinishReviewStage(done, accepted, bad)
             Proceed(row, articles) == Advance(c, next, row, {}, t.topic, articles)
  <1>0. t.at = n
        BY DEF ReconcileArticleEvaluate
  <1>1. /\ n \in Stages /\ n \in Nodes /\ n \in Fed
        /\ next \in Nodes /\ next \notin Stages /\ next \notin Fed
        /\ Line!Before(n, next) /\ NodeIndex[next] > NodeIndex[n]
        /\ "article_write" \in Stages /\ Line!Before("article_write", n)
        /\ \A m \in Fed : ~(NodeIndex[m] > NodeIndex[n])
        BY DEF Stages, Nodes, Fed, Line!Before, NodeIndex
  <1>2. r \in CreatedRow /\ Fit(r, t)
        BY WaitingFits
  <1>3. \/ Commit(c, r)
        \/ Rollback(c)
        \/ /\ ids = {}
           /\ \E articles : Proceed(SkipAfter(r, n, "no_articles_to_evaluate"), articles)
        \/ /\ ids # {} /\ Outcome(bad) \in EventStatus
           /\ \E articles : Proceed(last, articles)
        BY DEF ReconcileArticleEvaluate
  <1>4. CASE Commit(c, r)
        BY <1>2, <1>4 DEF BarrierStep
  <1>5. ids \subseteq Targets /\ (r.input[n].taken <=> ids # {})
        BY <1>1, NothingToWorkFrom DEF InputItems, Nodes
  <1>6. CASE /\ ids = {}
             /\ \E articles : Proceed(SkipAfter(r, n, "no_articles_to_evaluate"), articles)
    <2> HIDE DEF n, next
    <2> QED BY <1>0, <1>1, <1>5, <1>6, EndedGoesOn
  <1>7. CASE /\ ids # {} /\ Outcome(bad) \in EventStatus
             /\ \E articles : Proceed(last, articles)
    <2>1. bad = {}
          BY <1>7 DEF Outcome, EventStatus
    <2>2. JobsOf(r, n) \subseteq Answered
      <3>1. \A x \in ids : x \in Targets /\ quality[x] # "none"
            BY <1>5, <2>1
      <3>2. \A x \in ids : <<n, x>> \in succeeded
            BY <3>1 DEF Ready, ResultsInv
      <3> QED BY <3>2 DEF JobsOf, Answered
    <2>3. AtStage(c, n, r) /\ r.input[n].taken
          BY <1>0, <1>1, <1>5, <1>7, <2>2, RunningRow
    <2>4. ids = {x \in Targets : article[x] # "absent"}
      <3>1. ids = Results("article_write")
            BY <1>1, <1>5, <1>7, FedByResults
      <3> QED BY <3>1 DEF Results
    <2>5. \A x \in ids : SeenArticle(c, x) = "draft"
      <3>1. \A x \in Targets : t.article[x] = Unwritten
            BY <1>0, <1>1, DeskEmpty DEF Ready
      <3> QED BY <2>4, <3>1 DEF SeenArticle, Ready
    <2>6. accepted = {x \in Targets : quality[x] = "pass"} /\ accepted \in SUBSET Targets
          BY <1>5, <2>5, FedResults
    <2>7. accepted = Results(n) /\ Outcome(bad) \in NodeStatus
          BY <2>6, OutcomeType DEF Results
    <2>8. /\ accepted \in SUBSET OutputItems[n] /\ accepted \in SUBSET OutputItems[next]
          BY <2>6 DEF OutputItems
    <2>9. AtStage(c, n, done)
      <3> HIDE DEF accepted, bad, r, n, next, ids
      <3> QED BY <1>1, <2>3, <2>7, <2>8, StageCloses DEF r
    <2>10. done.review = {}
      <3>1. r.review = {}
            BY <1>0, DeskEmpty DEF Ready
      <3> HIDE DEF accepted, bad, r, n
      <3> QED BY <1>2, <3>1, CloseNodeKeeps
    <2> HIDE DEF done
    <2>11. /\ last.input = done.input /\ last.sources = done.sources
           /\ last.reason = done.reason /\ last.review = done.review \cup accepted
           /\ last.status = "waiting_human_review"
           /\ \A m \in Stages : last.output[m] = done.output[m]
      <3>1. done \in CreatedRow /\ accepted \in SUBSET Targets
            BY <2>6, <2>9 DEF AtStage
      <3>2. last = FinishReviewStage(done, accepted, {})
            BY <2>1
      <3> HIDE DEF last, accepted
      <3> QED BY <3>1, <3>2, FinishReviewStageIs
    <2> HIDE DEF accepted, ids, last, bad
    <2>12. Whole(last, t)
      <3>1. Whole(done, t)
            BY <2>9 DEF AtStage
      <3> QED BY <2>11, <3>1, WholeEnds
    <2>13. Drained(t)
      <3>1. InLine(r) /\ Whole(r, t)
            BY <2>3 DEF AtStage
      <3> HIDE DEF r, n
      <3> QED BY <1>1, <2>2, <2>3, <3>1, AnsweredDrains
    <2>14. /\ last.sources = run.sources /\ last.reason = ""
           /\ last.review = {x \in Targets : quality[x] = "pass"}
           /\ \E x \in Targets : article[x] # "absent"
      <3>1. \E x \in Targets : article[x] # "absent"
            BY <1>7, <2>4
      <3> QED BY <2>6, <2>9, <2>10, <2>11, <3>1 DEF AtStage
    <2>15. PICK articles : Proceed(last, articles)
           BY <1>7
    <2>16. \A j : SentSeen(txn'[c], j) <=> SentSeen(t, j)
           BY <2>15, AdvanceSees DEF Ready
    <2>17. Whole(last, txn'[c]) /\ Drained(txn'[c])
           BY <2>12, <2>13, <2>16 DEF Whole, Drained
    <2>18. /\ txn'[c].at = next /\ txn'[c].run = last
           /\ \A d \in Cores : d # c => txn'[d] = txn[d]
           /\ UNCHANGED <<run, sent, topic, article, agentVars>>
           BY <2>15, AdvanceIs DEF Ready
    <2> QED BY <2>11, <2>14, <2>17, <2>18 DEF BarrierStep, BarrierOpen, Walking
  <1> QED BY <1>3, <1>4, <1>6, <1>7 DEF BarrierStep

\* The last stage commits what it finds: an end, articles for a person, or
\* none that passed.
LEMMA HumanReviewBarrier ==
    ASSUME NEW c \in Cores, Ready(c), ReconcileHumanReview(c)
    PROVE  BarrierStep(c)
  <1> DEFINE why == "no_article_passed_quality_gate"
             t == txn[c]
             r == t.run
             ended == CompleteEmpty(r, why)
             waiting == [r EXCEPT !.status = IF @ \in {"queued", "running"}
                                             THEN "waiting_human_review" ELSE @]
  <1>1. t.at = "human_review" /\ Commit(c, IF r.review = {} THEN ended ELSE waiting)
        BY DEF ReconcileHumanReview
  <1>2. r \in CreatedRow /\ Fit(r, t)
        BY WaitingFits
  <1>3. CASE r.status \in {"failed", "completed_empty"}
    <2>1. r.review = {}
          BY <1>3 DEF Ready, DeskOpen
    <2>2. ended = r
          BY <1>3 DEF CompleteEmpty, CanEnd
    <2> QED BY <1>1, <1>2, <2>1, <2>2 DEF BarrierStep
  <1>4. CASE r.status = "waiting_human_review"
    <2>1. /\ r.reason = "" /\ Drained(t) /\ r.sources = run.sources /\ Whole(r, t)
          /\ r.review = {x \in Targets : quality[x] = "pass"}
          /\ \E x \in Targets : article[x] # "absent"
          BY <1>4 DEF Ready, BarrierOpen, Walking
    <2>2. CASE r.review = {}
      <3>1. ReasonIsTrue(why)
            BY <2>1, <2>2 DEF ReasonIsTrue
      <3>2. /\ ended \in CreatedRow /\ ended.sources = r.sources /\ ended.input = r.input
            /\ ended.output = r.output /\ ended.status = "completed_empty"
            /\ ended.reason = why
        <4>1. CanEnd(r)
              BY <1>4 DEF CanEnd
        <4> HIDE DEF r
        <4>2. ended = [r EXCEPT !.status = "completed_empty", !.reason = why]
              BY <4>1 DEF CompleteEmpty
        <4>3. ended \in CreatedRow
              BY <1>2, EndType DEF Reason
        <4> HIDE DEF ended, why
        <4> QED BY <1>2, <4>2, <4>3 DEF CreatedRow, RunRow
      <3> HIDE DEF ended, why, r, t
      <3>3. Whole(ended, t)
            BY <2>1, <3>2, WholeEnds
      <3> QED BY <1>1, <2>1, <2>2, <3>1, <3>2, <3>3 DEF BarrierStep, Fit, t
    <2>3. CASE r.review # {}
      <3>1. waiting = r
            BY <1>2, <1>4 DEF CreatedRow, RunRow
      <3> QED BY <1>1, <1>2, <2>3, <3>1 DEF BarrierStep
    <2> QED BY <2>2, <2>3
  <1>5. r.status \in {"failed", "completed_empty", "waiting_human_review"}
        BY <1>1 DEF Ready, BarrierOpen, Walking, Stages
  <1> QED BY <1>3, <1>4, <1>5

\* Each stage keeps the barriers.
LEMMA StageBarrierStep ==
    ASSUME NEW c \in Cores, Ready(c), ReconcileStage(c)
    PROVE  BarrierStep(c)
  BY SourceFetchBarrier, TopicScoutBarrier, TopicEvaluateBarrier, ArticleWriteBarrier,
     ArticleEvaluateBarrier, HumanReviewBarrier DEF ReconcileStage

-----------------------------------------------------------------------------
(* The barriers stand after every step.                                     *)

\* What only decides on rows that are there changes nothing that a barrier,
\* open or committed, depends on.
LEMMA WholeStays ==
    ASSUME RowsStay, UNCHANGED <<sent, agentVars>>, NEW r, NEW t, Whole(r, t)
    PROVE  /\ Whole(r, t)'
           /\ Drained(t) => Drained(t)'
  <1>1. /\ \A n \in Stages : Results(n)' = Results(n)
        /\ Answered' = Answered
        /\ \A j \in Jobs : SentSeen(t, j)' <=> SentSeen(t, j)
        BY ResultsStay DEF agentVars, Answered, SentSeen
  <1>2. Whole(r, t)'
        BY <1>1, WholeKept
  <1> QED BY <1>1, <1>2 DEF Drained

\* ... an open transaction included.
LEMMA OpenStays ==
    ASSUME RowsStay, UNCHANGED <<sent, agentVars>>, run'.sources = run.sources,
           NEW t, BarrierOpen(t)
    PROVE  BarrierOpen(t)'
  <1>1. PICK r : r = t.run
        OBVIOUS
  <1>2. Whole(r, t)' /\ (Drained(t) => Drained(t)')
        BY <1>1, WholeStays DEF BarrierOpen
  <1>3. ReasonIsTrue(t.run.reason) => ReasonIsTrue(t.run.reason)'
    <2>1. PICK why : why = t.run.reason
          OBVIOUS
    <2>2. ReasonIsTrue(why) => ReasonIsTrue(why)'
          BY ReasonStays
    <2> QED BY <2>1, <2>2
  <1>4. /\ quality' = quality
        /\ (\E x \in Targets : article[x] # "absent") =>
               \E x \in Targets : article'[x] # "absent"
        BY DEF RowsStay, agentVars
  <1>5. Walking(t)'
        BY <1>2, <1>3, <1>4 DEF BarrierOpen, Walking
  <1> QED BY <1>1, <1>2, <1>5 DEF BarrierOpen

\* Where run, jobs and transactions are left alone, and the rows stay.
LEMMA BarrierStill ==
    ASSUME BarrierInv, RowsStay, UNCHANGED <<run, sent, agentVars, txn>>
    PROVE  BarrierInv'
  <1>1. BarrierClosed'
    <2>1. PICK r, t : r = run /\ t = Idle
          OBVIOUS
    <2>2. Whole(r, t)' /\ (Drained(t) => Drained(t)')
          BY <2>1, WholeStays DEF BarrierInv, BarrierClosed
    <2> QED BY <2>1, <2>2 DEF BarrierInv, BarrierClosed, Settled
  <1>2. ASSUME NEW c \in Cores, Reconciling(c)
        PROVE  BarrierOpen(txn[c])'
    <2>1. PICK t : t = txn[c]
          OBVIOUS
    <2>2. BarrierOpen(t)'
          BY <1>2, <2>1, OpenStays DEF BarrierInv
    <2> QED BY <2>1, <2>2
  <1> QED BY <1>1, <1>2 DEF BarrierInv, Reconciling

\* The agents answer jobs of stages that are open.
LEMMA BarrierAgent ==
    ASSUME ~RetriesAfterFailure, TypeOK, ResultsInv, BarrierInv, AgentStep
    PROVE  BarrierInv'
  <1>1. UNCHANGED <<run, txn>>
        BY OthersLeaveTheRun
  <1>2. BarrierClosed'
    <2>1. PICK r, t : r = run /\ t = Idle
          OBVIOUS
    <2>2. Whole(r, t)' /\ ~Drained(t)
          BY <2>1, WholeAgent DEF BarrierInv, BarrierClosed
    <2> QED BY <1>1, <2>1, <2>2 DEF BarrierInv, BarrierClosed, Settled
  <1>3. ASSUME NEW c \in Cores, Reconciling(c)
        PROVE  BarrierOpen(txn[c])'
    <2>1. PICK r, t : r = txn[c].run /\ t = txn[c]
          OBVIOUS
    <2>2. BarrierOpen(t) /\ r = t.run
          BY <1>3, <2>1 DEF BarrierInv
    <2>3. Whole(r, t)' /\ ~Drained(t)
          BY <2>2, WholeAgent DEF BarrierOpen
    <2>4. Walking(t)'
          BY <2>2, <2>3 DEF BarrierOpen, Walking
    <2>5. BarrierOpen(t)'
          BY <1>1, <2>2, <2>3, <2>4 DEF BarrierOpen
    <2> QED BY <1>1, <2>1, <2>5
  <1> QED BY <1>1, <1>2, <1>3 DEF BarrierInv, Reconciling

\* Neither the review API nor the harvester adds a row or takes one away.
LEMMA OutsideRowsStay == ASSUME TypeOK, OutsideStep PROVE RowsStay
  BY DEF OutsideStep, RejectTopic, TransitionWritten, ReviewArticle, RowsStay, TypeOK

\* Creation gives out the jobs of the sources, or ends the run at once.
LEMMA BarrierCreate ==
    ASSUME Inv, BarrierInv, NEW S \in SUBSET Sources, CreateContentRun(S)
    PROVE  BarrierInv' /\ ReasonIsTrue(run.reason)'
  <1>1. run = NoRun /\ \A j \in Jobs : sent[j] = 0
        BY DEF CreateContentRun, BarrierInv, BarrierClosed, Inv, SendInv,
           NothingBeforeCreation
  <1>2. \A c \in Cores : ~(txn'[c].at # "idle")
        BY DEF CreateContentRun, Inv, LockInv, OpenWhileActive
  <1>3. \A j \in Jobs : SentSeen(Idle, j)' <=> j \in {"source_fetch"} \X S
    <2>1. \A j : SentSeen(Idle, j)' <=> sent'[j] > 0
          BY DEF SentSeen, Idle
    <2>2. \A j \in Jobs : sent'[j] =
              IF j \in {"source_fetch"} \X S THEN 1 ELSE 0
          BY <1>1 DEF CreateContentRun
    <2> HIDE DEF CreateContentRun
    <2> QED BY <2>1, <2>2
  <1>4. /\ run'.input = [n \in Nodes |-> NoSnapshot]
        /\ run'.output = [n \in Nodes |-> NoSnapshot]
        /\ run'.sources = S
        /\ run'.status \in {"queued", "completed_empty"}
        /\ run'.status = "queued" => run'.reason = ""
        /\ run'.status = "completed_empty" => S = {} /\ run'.reason = "no_enabled_sources"
        BY <1>1 DEF CreateContentRun, NoRun
  <1>5. Whole(run, Idle)'
    <2>1. PICK r : r = run'
          OBVIOUS
    <2>2. \A n \in Stages : ~r.input[n].taken /\ ~r.output[n].taken
      <3>1. \A n \in Nodes : r.input[n] = NoSnapshot /\ r.output[n] = NoSnapshot
            BY <1>4, <2>1
      <3>2. NoSnapshot.taken = FALSE /\ Stages \subseteq Nodes
            BY DEF NoSnapshot, Stages, Nodes
      <3> QED BY <3>1, <3>2
    <2>3. JobsOf(r, "source_fetch") = {"source_fetch"} \X S /\ "source_fetch" \in Stages
          BY <1>4, <2>1 DEF JobsOf, Stages
    <2>4. \A j \in Jobs : SentSeen(Idle, j)' => \E n \in Stages : j \in JobsOf(r, n)
          BY <1>3, <2>3
    <2>5. Whole(r, Idle)'
          BY <2>2, <2>4 DEF Whole, Fed
    <2> QED BY <2>1, <2>5 DEF Whole
  <1>6. Settled' => Drained(Idle)'
    <2>1. Settled' => S = {}
          BY <1>4 DEF Settled
    <2> QED BY <1>3, <2>1 DEF Drained
  <1>7. BarrierClosed'
        BY <1>4, <1>5, <1>6 DEF BarrierClosed, Settled
  <1>8. ReasonIsTrue(run.reason)'
        BY <1>4 DEF ReasonIsTrue
  <1> QED BY <1>2, <1>7, <1>8 DEF BarrierInv, Reconciling

\* A commit publishes a row that fits, and the run says a reason that is true.
LEMMA BarrierCommits ==
    ASSUME Inv, TablesInv, BarrierInv, NEW c \in Cores, Reconciling(c),
           NEW r \in CreatedRow, Commit(c, r), Fit(r, txn[c])
    PROVE  BarrierInv' /\ ReasonIsTrue(run.reason)'
  <1>1. /\ \A d \in Cores : txn'[d] = Idle
        /\ \A j \in Jobs : SentSeen(Idle, j)' <=> SentSeen(txn[c], j)
        /\ \A u \in Topics : topic'[u] = TopicSeen(txn[c], u)
        /\ \A x \in Targets : article'[x] = ArticleSeen(txn[c], x)
        /\ run' = r /\ UNCHANGED <<vetoed, agentVars>>
        BY CommitSees
  <1>2. RowsStay
    <2>1. /\ \A u \in Topics : /\ txn[c].topic[u] \in TopicStatus \cup {Unwritten}
                               /\ txn[c].topic[u] # Unwritten => topic[u] # "absent"
          /\ \A x \in Targets : /\ txn[c].article[x] \in ArticleStatus \cup {Unwritten}
                                /\ txn[c].article[x] # Unwritten => article[x] # "absent"
          BY ZenonT(60) DEF Inv, TypeOK, Txn, TablesInv, GateInv, GateOpen, DeskInv, DeskOpen
    <2> QED BY <1>1, <2>1 DEF RowsStay, TopicSeen, ArticleSeen, TopicStatus,
               ArticleStatus, Unwritten
  <1>3. Answered' = Answered
        BY <1>1 DEF agentVars, Answered
  <1>4. Whole(r, Idle)'
    <2>1. PICK t : t = txn[c]
          OBVIOUS
    <2>2. /\ \A n \in Stages : Results(n)' = Results(n)
          /\ Whole(r, t) /\ \A j \in Jobs : SentSeen(Idle, j)' => SentSeen(t, j)
          BY <1>1, <1>2, <2>1, ResultsStay DEF Fit
    <2> QED BY <1>3, <2>2, WholeKept
  <1>5. Whole(run, Idle)'
        BY <1>1, <1>4 DEF Whole
  <1>6. r.status \notin {"queued", "running"} => Drained(Idle)'
        BY <1>1, <1>3 DEF Fit, Drained
  <1>7. BarrierClosed'
        BY <1>1, <1>5, <1>6 DEF BarrierClosed, Settled, Fit, CreatedRow
  <1>8. ReasonIsTrue(r.reason)'
    <2>1. PICK why : why = r.reason
          OBVIOUS
    <2>2. ReasonIsTrue(why)'
          BY <1>1, <1>2, <2>1, ReasonStays DEF Fit
    <2> QED BY <2>1, <2>2
  <1>9. ReasonIsTrue(run.reason)'
        BY <1>1, <1>8 DEF ReasonIsTrue
  <1> QED BY <1>1, <1>7, <1>9, IdleSees DEF BarrierInv, Reconciling

\* A reconciliation begins with the run as committed.
LEMMA BarrierBegins ==
    ASSUME Inv, BarrierInv, NEW c \in Cores, BeginReconcile(c)
    PROVE  BarrierOpen(txn'[c])
  <1>1. /\ txn'[c].at = "source_fetch"
        /\ txn'[c].run = [run EXCEPT !.status = "running"]
        /\ txn'[c].sends = txn[c].sends
        /\ txn[c].at = "idle" /\ run.status \in {"queued", "running"}
        BY DEF BeginReconcile, RunRowFree, Inv, TypeOK, Txn
  <1>2. txn[c] = Idle
        BY <1>1 DEF Inv, LockInv, BlankWhenIdle
  <1>3. \A j : SentSeen(txn'[c], j) <=> SentSeen(Idle, j)
        BY <1>1, <1>2 DEF SentSeen
  <1> DEFINE row == [run EXCEPT !.status = "running"]
  <1>4. /\ row.input = run.input /\ row.output = run.output
        /\ row.sources = run.sources /\ row.status = "running" /\ row.reason = run.reason
        BY DEF Inv, TypeOK, RunRow
  <1> HIDE DEF row
  <1>5. Whole(row, Idle)
        BY <1>4, WholeEnds DEF BarrierInv, BarrierClosed
  <1>6. Whole(row, txn'[c])
        BY <1>3, <1>5 DEF Whole
  <1>7. row.reason = ""
        BY <1>1, <1>4 DEF BarrierInv, BarrierClosed, Settled
  <1>8. "source_fetch" \in Stages /\ "source_fetch" \notin Fed
        BY DEF Stages, Fed
  <1>9. txn'[c].run = row
        BY <1>1 DEF row
  <1> QED BY <1>1, <1>4, <1>6, <1>7, <1>8, <1>9 DEF BarrierOpen, Walking

\* Every step keeps the barriers, and a reason it gives is true.
LEMMA BarrierNext ==
    ASSUME ~RetriesAfterFailure, Inv, LineInv, TablesInv, BarrierInv, [Next]_vars
    PROVE  BarrierInv' /\ (run'.reason # run.reason => ReasonHolds')
  <1>1. TypeOK /\ OpenRows /\ ResultsInv /\ DeskInv
        BY DEF Inv, LockInv, TablesInv
  <1>2. CASE UNCHANGED vars
    <2>1. RowsStay /\ UNCHANGED <<run, sent, agentVars, txn>>
          BY <1>2 DEF vars, RowsStay
    <2> QED BY <2>1, BarrierStill
  <1>3. CASE AgentStep
        BY <1>1, <1>3, BarrierAgent, OthersLeaveTheRun
  <1>4. CASE OutsideStep
    <2>1. RowsStay /\ UNCHANGED <<run, sent, agentVars, txn>>
          BY <1>1, <1>4, OutsideRowsStay
          DEF OutsideStep, RejectTopic, TransitionWritten, ReviewArticle
    <2> QED BY <2>1, BarrierStill
  <1>5. ASSUME NEW S \in SUBSET Sources, CreateContentRun(S)
        PROVE  BarrierInv' /\ ReasonHolds'
        BY <1>5, BarrierCreate DEF ReasonHolds
  <1>6. ASSUME NEW c \in Cores, BarrierOpen(txn'[c]) \/ txn'[c] = Idle,
               \A d \in Cores : d # c => txn'[d] = txn[d],
               UNCHANGED <<run, sent, topic, article, agentVars>>
        PROVE  BarrierInv' /\ run'.reason = run.reason
    <2>1. RowsStay
          BY <1>6 DEF RowsStay
    <2>2. BarrierClosed'
      <3>1. PICK r, t : r = run /\ t = Idle
            OBVIOUS
      <3>2. Whole(r, t)' /\ (Drained(t) => Drained(t)')
            BY <1>6, <2>1, <3>1, WholeStays DEF BarrierInv, BarrierClosed
      <3> QED BY <1>6, <3>1, <3>2 DEF BarrierInv, BarrierClosed, Settled
    <2>3. ASSUME NEW d \in Cores, txn'[d].at # "idle"
          PROVE  BarrierOpen(txn[d])'
      <3>1. BarrierOpen(txn'[d])
            BY <1>6, <2>3, IdleSees DEF BarrierInv, Reconciling
      <3>2. PICK t : t = txn'[d]
            OBVIOUS
      <3>3. BarrierOpen(t)'
            BY <1>6, <2>1, <3>1, <3>2, OpenStays
      <3> QED BY <3>2, <3>3 DEF BarrierOpen
    <2> QED BY <1>6, <2>2, <2>3 DEF BarrierInv, Reconciling
  <1>7. ASSUME NEW c \in Cores, Rollback(c)
        PROVE  BarrierInv' /\ run'.reason = run.reason
    <2>1. /\ txn'[c] = Idle /\ \A d \in Cores : d # c => txn'[d] = txn[d]
          /\ UNCHANGED <<run, sent, topic, article, agentVars>>
          BY <1>1, <1>7 DEF Rollback, TypeOK
    <2> QED BY <1>6, <2>1
  <1>8. ASSUME NEW c \in Cores, BeginReconcile(c)
        PROVE  BarrierInv' /\ run'.reason = run.reason
    <2>1. /\ \A d \in Cores : d # c => txn'[d] = txn[d]
          /\ UNCHANGED <<run, sent, topic, article, agentVars>>
          BY <1>1, <1>8 DEF BeginReconcile, TypeOK
    <2> QED BY <1>6, <1>8, <2>1, BarrierBegins
  <1>9. ASSUME NEW c \in Cores, ReconcileStage(c)
        PROVE  BarrierInv' /\ (run'.reason # run.reason => ReasonHolds')
    <2>1. Reconciling(c)
          BY <1>9 DEF ReconcileStage, ReconcileSourceFetch, ReconcileTopicScout,
             ReconcileTopicEvaluate, ReconcileArticleWrite, ReconcileArticleEvaluate,
             ReconcileHumanReview, Reconciling
    <2>2. run.status \in {"queued", "running"}
          BY <2>1 DEF Inv, LockInv, OpenWhileActive, Reconciling
    <2>3. Ready(c)
          BY <1>1, <2>1, <2>2 DEF Ready, LineInv, DeskInv, DeskClosed, BarrierInv
    <2>4. BarrierStep(c)
          BY <1>9, <2>3, StageBarrierStep
    <2>5. ASSUME NEW r \in CreatedRow, Commit(c, r), Fit(r, txn[c])
          PROVE  BarrierInv' /\ ReasonHolds'
          BY <2>1, <2>5, BarrierCommits DEF ReasonHolds
    <2> QED BY <1>6, <1>7, <2>4, <2>5 DEF BarrierStep
  <1> QED BY <1>2, <1>3, <1>4, <1>5, <1>7, <1>8, <1>9
          DEF Next, CoreStep, CrashInReconcile

\* They stand when nothing has been created.
LEMMA BarrierInit == Init => BarrierInv
  <1> SUFFICES ASSUME Init PROVE BarrierInv
      OBVIOUS
  <1>1. run = NoRun /\ (\A c \in Cores : txn[c] = Idle)
        /\ (\A j \in Jobs : ~SentSeen(Idle, j))
        BY IdleSees DEF Init
  <1>2. /\ \A n \in Stages : ~run.input[n].taken /\ ~run.output[n].taken
        /\ run.status = "absent" /\ run.reason = ""
        BY <1>1 DEF NoRun, Stages, Nodes, NoSnapshot
  <1>3. Whole(run, Idle)
        BY <1>1, <1>2 DEF Whole, Fed
  <1> QED BY <1>1, <1>2, <1>3, IdleSees DEF BarrierInv, BarrierClosed, Settled, Reconciling

\* The barriers stand for ever.
LEMMA BarrierInvariance == Spec => [](~RetriesAfterFailure => BarrierInv)
  <1>1. Init => (~RetriesAfterFailure => BarrierInv)
        BY BarrierInit
  <1>2. /\ Inv /\ LineInv /\ TablesInv /\ (~RetriesAfterFailure => BarrierInv)
        /\ [Next]_vars
        => (~RetriesAfterFailure => BarrierInv)'
        BY BarrierNext
  <1> QED BY <1>1, <1>2, Invariance, LineInvariance, TablesInvariance, PTL DEF Spec

\* Where a failure is final, nothing comes behind a barrier: what a closed
\* stage put in its snapshot is exactly what the database holds, and a run that
\* has ended, or waits for a person, has every job it gave out answered.
THEOREM StagesStayWhole == Spec => []StagesAreWhole
  <1>1. ASSUME Inv, ~RetriesAfterFailure => BarrierInv
        PROVE  StagesAreWhole
    <2>1. CASE RetriesAfterFailure
          BY <2>1 DEF StagesAreWhole, SnapshotsComplete, SettledMeansDrained
    <2>2. CASE ~RetriesAfterFailure
      <3>1. Whole(run, Idle) /\ (Settled => Drained(Idle))
            BY <1>1, <2>2 DEF BarrierInv, BarrierClosed
      <3>2. SettledMeansDrained
            BY <3>1, IdleSees DEF SettledMeansDrained, Drained, Answered
      <3>3. \A n \in Stages : run.output[n].taken => run.output[n].items = Results(n)
            BY <3>1 DEF Whole
      <3>4. SnapshotsComplete
            BY <3>3 DEF SnapshotsComplete, Stages, Results
      <3> QED BY <3>2, <3>4 DEF StagesAreWhole
    <2> QED BY <2>1, <2>2
  <1> QED BY <1>1, Invariance, BarrierInvariance, PTL

\* A run that ends with nothing to review says why, and it is so when it is
\* said: no stage of the reconciliation, and no report meanwhile, has made the
\* reason another.
THEOREM EmptyEndsSayWhy == Spec => EmptyEndsAreTrue
  <1>1. ASSUME Inv, LineInv, TablesInv, ~RetriesAfterFailure => BarrierInv, [Next]_vars
        PROVE  [(run'.reason # run.reason /\ ~RetriesAfterFailure) => ReasonHolds']_vars
        BY <1>1, BarrierNext
  <1> QED BY <1>1, Invariance, LineInvariance, TablesInvariance, BarrierInvariance, PTL
          DEF Spec, EmptyEndsAreTrue
=====
