----------------------------- MODULE ContentRun -----------------------------
(***************************************************************************)
(* One content-production run of scholar-core (internal/workflow/runtime): *)
(* sources are fetched, a scout proposes topics, topics are evaluated,     *)
(* accepted topics are written for each of their platforms, articles are   *)
(* evaluated, and those that pass wait for a human.  Agents do the work    *)
(* and report through the database; every tick, every Core instance        *)
(* reconciles the run: one transaction, under the lock of the run's row,   *)
(* walks the stages from the first, closes those whose items have all been *)
(* answered and enqueues the jobs of the next.                             *)
(*                                                                         *)
(* A reconciliation is one step per stage, working on a private copy that  *)
(* is published at commit: agents, the review API and the harvester write  *)
(* between its steps (READ COMMITTED), and a crash drops the copy.         *)
(*                                                                         *)
(* The harvester leaves the topics and articles of a run alone, but for    *)
(* TransitionWritten, until the run has ended with nothing to review; what *)
(* it makes of them afterwards is Harvester's matter, and no property here *)
(* is about the rows of such a run.                                        *)
(***************************************************************************)
EXTENDS Naturals, FiniteSets, Pipeline

CONSTANTS
    Cores,                \* Core instances, each running the reconciler
    Sources,              \* enabled content sources
    Topics,               \* topics the scout may propose
    Platforms,
    TargetPlatforms,      \* the target platforms of each topic
    RetriesAfterFailure   \* may a job succeed after it reported a failure?

Nodes == {"source_fetch", "topic_scout", "topic_evaluate", "article_write",
          "article_evaluate", "human_review"}

\* nodeOrder of the code, as the position of each node in it.
NodeIndex == [source_fetch   |-> 0, topic_scout      |-> 1,
              topic_evaluate |-> 2, article_write    |-> 3,
              article_evaluate |-> 4, human_review   |-> 5]

\* An article of the run is known by its topic and platform: the run asks
\* for one version of each.
Targets == {x \in Topics \X Platforms : x[2] \in TargetPlatforms[x[1]]}
TargetsOf(T) == {x \in Targets : x[1] \in T}

ScoutJob == <<"topic_scout", "run">>
Jobs == ({"source_fetch"} \X Sources) \cup {ScoutJob}
        \cup ({"topic_evaluate"} \X Topics)
        \cup ({"article_write", "article_evaluate"} \X Targets)

Item == Sources \cup Topics \cup Targets

\* The items in the snapshots of each node.
OutputItems == [source_fetch   |-> Sources, topic_scout      |-> Topics,
                topic_evaluate |-> Topics,  article_write    |-> Targets,
                article_evaluate |-> Targets, human_review   |-> Targets]
InputItems == [source_fetch   |-> {},      topic_scout      |-> Sources,
               topic_evaluate |-> Topics,  article_write    |-> Topics,
               article_evaluate |-> Targets, human_review   |-> {}]

\* A reference to a snapshot, and the items in it.
Snapshot == [taken : BOOLEAN, items : SUBSET Item]
Snapshots(nodeItems) ==
    {f \in [Nodes -> Snapshot] : \A n \in Nodes : f[n].items \subseteq nodeItems[n]}
NoSnapshot == [taken |-> FALSE, items |-> {}]

ASSUME ConstantsAssumption ==
    /\ IsFiniteSet(Sources)
    /\ TargetPlatforms \in [Topics -> SUBSET Platforms]
    /\ RetriesAfterFailure \in BOOLEAN

VARIABLES
    run,        \* the run's row, its node rows, snapshots and review artifacts
    sent,       \* how often each job was put on its queue
    topic,      \* status of each topic row, "absent" before it is inserted
    vetoed,     \* topics with an audit row of a user's rejection
    article,    \* status of each article row
    raw,        \* sources that produced new raw items for the run
    verdict,    \* the evaluation of each topic
    quality,    \* the evaluation of each article
    succeeded,  \* jobs with a "succeeded" event
    failed,     \* jobs with a "failed" event
    txn         \* the reconciliation each Core instance has open

agentVars == <<raw, verdict, quality, succeeded, failed>>
vars == <<run, sent, topic, vetoed, article, agentVars, txn>>

RunStatus == {"absent", "queued", "running", "waiting_human_review",
              "completed", "completed_empty", "partial_failed", "failed",
              "cancelled"}
NodeStatus == {"queued", "succeeded", "partial_failed", "failed", "skipped"}

\* The CHECK constraint on workflow_events.status.
EventStatus == {"queued", "running", "succeeded", "failed", "skipped"}

Reason == {"", "no_enabled_sources", "all_source_fetch_failed",
           "no_new_raw_items", "topic_scout_failed",
           "scout_produced_no_topics", "no_topics_to_evaluate",
           "all_topics_rejected", "no_accepted_topics",
           "accepted_topics_have_no_platforms", "all_writes_failed",
           "no_articles_to_evaluate", "no_article_passed_quality_gate"}

RunRow == [status  : RunStatus,
           reason  : Reason,
           sources : SUBSET Sources,
           node    : [Nodes -> NodeStatus],
           input   : Snapshots(InputItems),
           output  : Snapshots(OutputItems),
           review  : SUBSET Targets]

NoRun == [status  |-> "absent",
          reason  |-> "",
          sources |-> {},
          node    |-> [n \in Nodes |-> "queued"],
          input   |-> [n \in Nodes |-> NoSnapshot],
          output  |-> [n \in Nodes |-> NoSnapshot],
          review  |-> {}]

Unwritten == "unwritten"
Idle == [at      |-> "idle",
         run     |-> NoRun,
         sends   |-> {},
         topic   |-> [t \in Topics |-> Unwritten],
         article |-> [x \in Targets |-> Unwritten]]

Txn == [at      : Nodes \cup {"idle"},
        run     : RunRow,
        sends   : SUBSET Jobs,
        topic   : [Topics -> TopicStatus \cup {Unwritten}],
        article : [Targets -> ArticleStatus \cup {Unwritten}]]

TypeOK ==
    /\ run \in RunRow
    /\ sent \in [Jobs -> Nat]
    /\ topic \in [Topics -> TopicStatus \cup {"absent"}]
    /\ vetoed \subseteq Topics
    /\ article \in [Targets -> ArticleStatus \cup {"absent"}]
    /\ raw \subseteq Sources
    /\ verdict \in [Topics -> {"none", "pass", "low"}]
    /\ quality \in [Targets -> {"none", "pass", "low"}]
    /\ succeeded \subseteq Jobs
    /\ failed \subseteq Jobs
    /\ txn \in [Cores -> Txn]

Init ==
    /\ run = NoRun
    /\ sent = [j \in Jobs |-> 0]
    /\ topic = [t \in Topics |-> "absent"]
    /\ vetoed = {}
    /\ article = [x \in Targets |-> "absent"]
    /\ raw = {}
    /\ verdict = [t \in Topics |-> "none"]
    /\ quality = [x \in Targets |-> "none"]
    /\ succeeded = {}
    /\ failed = {}
    /\ txn = [c \in Cores |-> Idle]

-----------------------------------------------------------------------------
(* Creation.  A manual request and a claimed schedule slot take the same    *)
(* path: the run and one fetch job per source in one transaction.           *)

CreateContentRun(S) ==
    /\ run.status = "absent"
    /\ run' = IF S = {}
              THEN [run EXCEPT !.status = "completed_empty",
                               !.reason = "no_enabled_sources"]
              ELSE [run EXCEPT !.status = "queued", !.sources = S]
    /\ sent' = [j \in Jobs |->
                    IF j \in {"source_fetch"} \X S THEN sent[j] + 1 ELSE sent[j]]
    /\ UNCHANGED <<topic, vetoed, article, agentVars, txn>>

-----------------------------------------------------------------------------
(* What a reconciliation does to the run's rows.                            *)

\* Mutant of CloseNode: a snapshot is only taken of a node without failures.
CloseNodeIfClean(r, n, items, outcome) ==
    [r EXCEPT !.output[n] = IF @.taken \/ outcome # "succeeded" THEN @
                            ELSE [taken |-> TRUE, items |-> items],
              !.node[n]   = outcome]

\* ensureOutputSnapshot and updateNode: a snapshot, once taken, stays.
CloseNode(r, n, items, outcome) ==
    [r EXCEPT !.output[n] = IF @.taken THEN @ ELSE [taken |-> TRUE, items |-> items],
              !.node[n]   = outcome]

\* Output of one node becomes the input of the next, unless that has one.
BindInput(r, n, next) ==
    [r EXCEPT !.input[next] = IF @.taken THEN @ ELSE r.output[n]]

\* Mutant of CanEnd: the guard of completeEmpty and failRun is dropped.
CanEndAgain(r) == r.status # "cancelled"

CanEnd(r) ==
    r.status \notin {"completed", "completed_empty", "failed", "cancelled"}

\* Mutants of CompleteEmpty: a node's status in the run's column, and an
\* update that leaves the status as it is.
CompleteEmptySkipped(r, why) ==
    IF CanEnd(r) THEN [r EXCEPT !.status = "skipped", !.reason = why] ELSE r
CompleteEmptyStillRuns(r, why) ==
    IF CanEnd(r) THEN [r EXCEPT !.reason = why] ELSE r

CompleteEmpty(r, why) ==
    IF CanEnd(r)
    THEN [r EXCEPT !.status = "completed_empty", !.reason = why]
    ELSE r

FailRun(r, why) ==
    IF CanEnd(r) THEN [r EXCEPT !.status = "failed", !.reason = why] ELSE r

SkipAfter(r, n, why) ==
    CompleteEmpty(
        [r EXCEPT !.node = [m \in Nodes |->
             IF NodeIndex[m] > NodeIndex[n] THEN "skipped" ELSE @[m]]],
        why)

Outcome(bad) == IF bad = {} THEN "succeeded" ELSE "partial_failed"

-----------------------------------------------------------------------------
(* The transaction of a reconciliation.                                     *)

SeenTopic(c, t) ==
    IF txn[c].topic[t] = Unwritten THEN topic[t] ELSE txn[c].topic[t]
SeenArticle(c, x) ==
    IF txn[c].article[x] = Unwritten THEN article[x] ELSE txn[c].article[x]

\* Whether a job has a "queued" event the transaction can see.
Queued(c, j) == sent[j] > 0 \/ j \in txn[c].sends

\* Go on to the next stage with r for the run's rows, enqueueing the jobs
\* that have not been, and with the given rows of topics and articles.
Advance(c, next, r, jobs, topics, articles) ==
    /\ txn' = [txn EXCEPT ![c] =
           [at      |-> next,
            run     |-> r,
            sends   |-> @.sends \cup {j \in jobs : ~Queued(c, j)},
            topic   |-> topics,
            article |-> articles]]
    /\ UNCHANGED <<run, sent, topic, vetoed, article, agentVars>>

Commit(c, r) ==
    /\ run' = r
    /\ sent' = [j \in Jobs |->
                    IF j \in txn[c].sends THEN sent[j] + 1 ELSE sent[j]]
    /\ topic' = [t \in Topics |-> SeenTopic(c, t)]
    /\ article' = [x \in Targets |-> SeenArticle(c, x)]
    /\ txn' = [txn EXCEPT ![c] = Idle]
    /\ UNCHANGED <<vetoed, agentVars>>

Rollback(c) ==
    /\ txn' = [txn EXCEPT ![c] = Idle]
    /\ UNCHANGED <<run, sent, topic, vetoed, article, agentVars>>

\* Mutant of RunRowFree: the run's row is read without a lock.
SomeCoreFree == \E c \in Cores : txn[c].at = "idle"

\* select ... for update: nobody else holds the run's row.
RunRowFree == \A c \in Cores : txn[c].at = "idle"

\* Mutant of SourcesReported: one report too few.
AllButOneReported(r) ==
    LET With(events) == {s \in r.sources : <<"source_fetch", s>> \in events}
    IN  Cardinality(With(succeeded)) + Cardinality(With(failed)) + 1
            >= Cardinality(r.sources)

\* terminalEventCounts: the sources with a report of success and those with
\* one of failure, counted apart.
SourcesReported(r) ==
    LET With(events) == {s \in r.sources : <<"source_fetch", s>> \in events}
    IN  Cardinality(With(succeeded)) + Cardinality(With(failed))
            >= Cardinality(r.sources)

\* itemsTerminal and articleWriteTerminal, of the items with no result row.
AllFailed(n, items) == \A i \in items : <<n, i>> \in failed

\* Mutant of BeginReconcile: no look at the status before the walk.
BeginReconcileAnyRun(c) ==
    /\ RunRowFree
    /\ run.status # "absent"
    /\ txn' = [txn EXCEPT ![c].at  = "source_fetch",
                          ![c].run = [run EXCEPT !.status = "running"]]
    /\ UNCHANGED <<run, sent, topic, vetoed, article, agentVars>>

BeginReconcile(c) ==
    /\ RunRowFree
    /\ run.status \in {"queued", "running"}
    /\ txn' = [txn EXCEPT ![c].at  = "source_fetch",
                          ![c].run = [run EXCEPT !.status = "running"]]
    /\ UNCHANGED <<run, sent, topic, vetoed, article, agentVars>>

ReconcileSourceFetch(c) ==
    LET r    == txn[c].run
        bad  == {s \in r.sources : <<"source_fetch", s>> \in failed}
        done == CloseNode(r, "source_fetch", raw, Outcome(bad))
        Proceed(row, jobs) == Advance(c, "topic_scout", row, jobs,
                                   txn[c].topic, txn[c].article)
    IN  /\ txn[c].at = "source_fetch"
        /\ \/ /\ ~SourcesReported(r)
              /\ Commit(c, r)
           \/ /\ SourcesReported(r)
              /\ raw = {}
              /\ bad = r.sources
              /\ Proceed(FailRun(done, "all_source_fetch_failed"), {})
           \/ /\ SourcesReported(r)
              /\ raw = {}
              /\ bad # r.sources
              /\ Proceed(SkipAfter(done, "source_fetch", "no_new_raw_items"), {})
           \/ /\ SourcesReported(r)
              /\ raw # {}
              /\ Proceed(BindInput(done, "source_fetch", "topic_scout"), {ScoutJob})

ReconcileTopicScout(c) ==
    LET r    == txn[c].run
        ids  == {t \in Topics : topic[t] # "absent"}
        bad  == {ScoutJob} \cap failed
        done == CloseNode(r, "topic_scout", ids,
                          IF bad = {} THEN "succeeded" ELSE "failed")
        Proceed(row, jobs) == Advance(c, "topic_evaluate", row, jobs,
                                   txn[c].topic, txn[c].article)
    IN  /\ txn[c].at = "topic_scout"
        /\ \/ /\ ScoutJob \notin succeeded \cup failed
              /\ Commit(c, r)
           \/ /\ ScoutJob \in failed
              /\ ids = {}
              /\ Proceed(FailRun(done, "topic_scout_failed"), {})
           \/ /\ ScoutJob \in succeeded \ failed
              /\ ids = {}
              /\ Proceed(SkipAfter(done, "topic_scout", "scout_produced_no_topics"),
                      {})
           \/ /\ ScoutJob \in succeeded \cup failed
              /\ ids # {}
              /\ Proceed(BindInput(done, "topic_scout", "topic_evaluate"),
                      {"topic_evaluate"} \X ids)

\* Mutant of GateTopic: an update without the expected status.
GateTopicFromAny(status, v) ==
    CASE v = "pass" /\ status # "written" -> "in_writing"
      [] v = "low" /\ status = "candidate" -> "rejected"
      [] OTHER -> Unwritten

\* Mutant of GateTopic: the last compare-and-set of an accepted topic is lost.
GateTopicToApproved(status, v) ==
    CASE v = "pass" /\ status \in {"candidate", "scored", "approved"} -> "approved"
      [] v = "low" /\ status = "candidate" -> "rejected"
      [] OTHER -> Unwritten

\* The three compare-and-sets of an accepted topic, and the one of a rejected.
GateTopic(status, v) ==
    CASE v = "pass" /\ status \in {"candidate", "scored", "approved"} -> "in_writing"
      [] v = "low" /\ status = "candidate" -> "rejected"
      [] OTHER -> Unwritten

ReconcileTopicEvaluate(c) ==
    LET r        == txn[c].run
        ids      == r.input["topic_evaluate"].items
        bad      == {t \in ids : verdict[t] = "none"}
        accepted == {t \in ids : verdict[t] = "pass"}
        done     == CloseNode(r, "topic_evaluate", accepted, Outcome(bad))
        gated    == [t \in Topics |->
                        IF t \in ids /\ GateTopic(SeenTopic(c, t), verdict[t]) # Unwritten
                        THEN GateTopic(SeenTopic(c, t), verdict[t])
                        ELSE txn[c].topic[t]]
        terminal == AllFailed("topic_evaluate", bad)
        Proceed(row, jobs, topics) ==
            Advance(c, "article_write", row, jobs, topics, txn[c].article)
    IN  /\ txn[c].at = "topic_evaluate"
        /\ \/ /\ ids = {}
              /\ Proceed(SkipAfter(r, "topic_evaluate", "no_topics_to_evaluate"), {},
                      txn[c].topic)
           \/ /\ ~terminal
              /\ Commit(c, r)
           \/ /\ ids # {}
              /\ terminal
              /\ accepted = {}
              /\ Proceed(SkipAfter(done, "topic_evaluate", "all_topics_rejected"), {},
                      gated)
           \/ /\ terminal
              /\ accepted # {}
              /\ Proceed(BindInput(done, "topic_evaluate", "article_write"),
                      {"article_write"} \X TargetsOf(accepted), gated)

ReconcileArticleWrite(c) ==
    LET r       == txn[c].run
        ids     == r.input["article_write"].items
        targets == TargetsOf(ids)
        bad     == {x \in targets : article[x] = "absent"}
        written == targets \ bad
        done    == CloseNode(r, "article_write", written, Outcome(bad))
        closed  == [t \in Topics |->
                       IF t \in ids /\ SeenTopic(c, t) = "in_writing"
                       THEN "written" ELSE txn[c].topic[t]]
        terminal == AllFailed("article_write", bad)
        Proceed(row, jobs, topics) ==
            Advance(c, "article_evaluate", row, jobs, topics, txn[c].article)
    IN  /\ txn[c].at = "article_write"
        /\ \/ /\ ids = {}
              /\ Proceed(SkipAfter(r, "article_write", "no_accepted_topics"), {},
                      txn[c].topic)
           \/ /\ ids # {}
              /\ targets = {}
              /\ Proceed(SkipAfter(r, "article_write",
                                "accepted_topics_have_no_platforms"), {},
                      txn[c].topic)
           \/ /\ ~terminal
              /\ Commit(c, r)
           \/ /\ targets # {}
              /\ terminal
              /\ written = {}
              /\ Proceed(SkipAfter(done, "article_write", "all_writes_failed"), {},
                      txn[c].topic)
           \/ /\ terminal
              /\ written # {}
              /\ Proceed(BindInput(done, "article_write", "article_evaluate"),
                      {"article_evaluate"} \X written, closed)

\* The compare-and-sets of an evaluated article that is still a draft.
GateArticle(status, q) ==
    CASE status = "draft" /\ q = "pass" -> "pending_review"
      [] status = "draft" /\ q = "low"  -> "scored"
      [] OTHER -> Unwritten

\* finishReviewStage.  Its last statement records an event whose status is
\* the node's; when the table refuses that status the transaction fails.
FinishReviewStage(r, accepted, bad) ==
    [CloseNode(r, "human_review", accepted, Outcome(bad))
        EXCEPT !.review = @ \cup accepted,
               !.status = IF bad = {} THEN "waiting_human_review"
                                      ELSE "partial_failed"]

ReconcileArticleEvaluate(c) ==
    LET r        == txn[c].run
        ids      == r.input["article_evaluate"].items
        bad      == {x \in ids : quality[x] = "none"}
        accepted == {x \in ids : /\ quality[x] = "pass"
                                 /\ SeenArticle(c, x) \in {"draft", "pending_review"}}
        gated    == [x \in Targets |->
                        IF x \in ids /\ GateArticle(SeenArticle(c, x), quality[x]) # Unwritten
                        THEN GateArticle(SeenArticle(c, x), quality[x])
                        ELSE txn[c].article[x]]
        done     == CloseNode(r, "article_evaluate", accepted, Outcome(bad))
        terminal == AllFailed("article_evaluate", bad)
        Proceed(row, articles) ==
            Advance(c, "human_review", row, {}, txn[c].topic, articles)
    IN  /\ txn[c].at = "article_evaluate"
        /\ \/ /\ ids = {}
              /\ Proceed(SkipAfter(r, "article_evaluate", "no_articles_to_evaluate"),
                      txn[c].article)
           \/ /\ ~terminal
              /\ Commit(c, r)
           \/ /\ ids # {}
              /\ terminal
              /\ Outcome(bad) \in EventStatus
              /\ Proceed(FinishReviewStage(done, accepted, bad), gated)
           \/ /\ terminal
              /\ Outcome(bad) \notin EventStatus
              /\ Rollback(c)

ReconcileHumanReview(c) ==
    LET r == txn[c].run
    IN  /\ txn[c].at = "human_review"
        /\ Commit(c, IF r.review = {}
                     THEN CompleteEmpty(r, "no_article_passed_quality_gate")
                     ELSE [r EXCEPT !.status = IF @ \in {"queued", "running"}
                                               THEN "waiting_human_review" ELSE @])

\* The process dies, or the connection does, before the commit.
CrashInReconcile(c) ==
    /\ txn[c].at # "idle"
    /\ Rollback(c)

ReconcileStage(c) ==
    \/ ReconcileSourceFetch(c)
    \/ ReconcileTopicScout(c)
    \/ ReconcileTopicEvaluate(c)
    \/ ReconcileArticleWrite(c)
    \/ ReconcileArticleEvaluate(c)
    \/ ReconcileHumanReview(c)

-----------------------------------------------------------------------------
(* The agents.  They take jobs off the queues and write result rows and     *)
(* events; a job is delivered until it succeeds or its failure is final.    *)

Deliverable(j) ==
    /\ sent[j] > 0
    /\ j \notin succeeded
    /\ j \in failed => RetriesAfterFailure

FetchItems(s) ==
    /\ Deliverable(<<"source_fetch", s>>)
    /\ s \notin raw
    /\ raw' = raw \cup {s}
    /\ UNCHANGED <<run, sent, topic, vetoed, article, verdict, quality,
                   succeeded, failed, txn>>

ProposeTopic(t) ==
    /\ Deliverable(ScoutJob)
    /\ topic[t] = "absent"
    /\ topic' = [topic EXCEPT ![t] = "candidate"]
    /\ UNCHANGED <<run, sent, vetoed, article, agentVars, txn>>

EvaluateTopic(t, v) ==
    /\ Deliverable(<<"topic_evaluate", t>>)
    /\ verdict' = [verdict EXCEPT ![t] = v]
    /\ succeeded' = succeeded \cup {<<"topic_evaluate", t>>}
    /\ UNCHANGED <<run, sent, topic, vetoed, article, raw, quality, failed, txn>>

\* The writer takes only topics that have entered the writing state.
WriteArticle(x) ==
    /\ Deliverable(<<"article_write", x>>)
    /\ topic[x[1]] \in {"in_writing", "written"}
    /\ article' = [article EXCEPT ![x] = "draft"]
    /\ succeeded' = succeeded \cup {<<"article_write", x>>}
    /\ UNCHANGED <<run, sent, topic, vetoed, raw, verdict, quality, failed, txn>>

EvaluateArticle(x, q) ==
    /\ Deliverable(<<"article_evaluate", x>>)
    /\ quality' = [quality EXCEPT ![x] = q]
    /\ succeeded' = succeeded \cup {<<"article_evaluate", x>>}
    /\ UNCHANGED <<run, sent, topic, vetoed, article, raw, verdict, failed, txn>>

\* The fetcher and the scout report apart from the rows they insert.
ReportSuccess(j) ==
    /\ j \in ({"source_fetch"} \X Sources) \cup {ScoutJob}
    /\ Deliverable(j)
    /\ succeeded' = succeeded \cup {j}
    /\ UNCHANGED <<run, sent, topic, vetoed, article, raw, verdict, quality,
                   failed, txn>>

ReportFailure(j) ==
    /\ Deliverable(j)
    /\ j \notin failed
    /\ failed' = failed \cup {j}
    /\ UNCHANGED <<run, sent, topic, vetoed, article, raw, verdict, quality,
                   succeeded, txn>>

-----------------------------------------------------------------------------
(* The review API and the harvester change single rows.  An update waits    *)
(* for a transaction that has written the row.                              *)

RejectTopic(t) ==
    /\ topic[t] # "absent"
    /\ CanTopicTransition(topic[t], "rejected")
    /\ \A c \in Cores : txn[c].topic[t] = Unwritten
    /\ topic' = [topic EXCEPT ![t] = "rejected"]
    /\ vetoed' = vetoed \cup {t}
    /\ UNCHANGED <<run, sent, article, agentVars, txn>>

ReviewArticle(x, to) ==
    /\ article[x] # "absent"
    /\ CanArticleTransition(article[x], to)
    /\ \A c \in Cores : txn[c].article[x] = Unwritten
    /\ article' = [article EXCEPT ![x] = to]
    /\ UNCHANGED <<run, sent, topic, vetoed, agentVars, txn>>

\* The harvester does not ask whether the topic's run is still active.
TransitionWritten(t) ==
    /\ topic[t] = "in_writing"
    /\ \A x \in TargetsOf({t}) : article[x] # "absent"
    /\ \A c \in Cores : txn[c].topic[t] = Unwritten
    /\ topic' = [topic EXCEPT ![t] = "written"]
    /\ UNCHANGED <<run, sent, vetoed, article, agentVars, txn>>

-----------------------------------------------------------------------------
AgentStep ==
    \/ \E s \in Sources : FetchItems(s)
    \/ \E t \in Topics : ProposeTopic(t)
    \/ \E t \in Topics, v \in {"pass", "low"} : EvaluateTopic(t, v)
    \/ \E x \in Targets : WriteArticle(x)
    \/ \E x \in Targets, q \in {"pass", "low"} : EvaluateArticle(x, q)
    \/ \E j \in Jobs : ReportSuccess(j) \/ ReportFailure(j)

OutsideStep ==
    \/ \E t \in Topics : RejectTopic(t) \/ TransitionWritten(t)
    \/ \E x \in Targets, to \in {"approved", "rejected"} : ReviewArticle(x, to)

CoreStep ==
    \/ \E S \in SUBSET Sources : CreateContentRun(S)
    \/ \E c \in Cores : BeginReconcile(c) \/ ReconcileStage(c) \/ CrashInReconcile(c)

Next == CoreStep \/ AgentStep \/ OutsideStep

Spec == Init /\ [][Next]_vars

\* Every job that is delivered is answered in the end.
Answer(j) ==
    \/ ReportSuccess(j)
    \/ ReportFailure(j)
    \/ \E t \in Topics, v \in {"pass", "low"} :
           j = <<"topic_evaluate", t>> /\ EvaluateTopic(t, v)
    \/ \E x \in Targets : j = <<"article_write", x>> /\ WriteArticle(x)
    \/ \E x \in Targets, q \in {"pass", "low"} :
           j = <<"article_evaluate", x>> /\ EvaluateArticle(x, q)

\* The harvester ticks as long as its process lives, which the supervisor
\* restarts; a crash may hit any stage, but no stage every time.
FairSpec ==
    /\ Spec
    /\ \A j \in Jobs : WF_vars(Answer(j))
    /\ \A c \in Cores :
           /\ WF_vars(BeginReconcile(c))
           /\ SF_vars(ReconcileSourceFetch(c))
           /\ SF_vars(ReconcileTopicScout(c))
           /\ SF_vars(ReconcileTopicEvaluate(c))
           /\ SF_vars(ReconcileArticleWrite(c))
           /\ SF_vars(ReconcileArticleEvaluate(c))
           /\ SF_vars(ReconcileHumanReview(c))

-----------------------------------------------------------------------------
(* Properties.                                                              *)

Settled == run.status \notin {"absent", "queued", "running"}

\* The statuses at which the harvester takes the run's topics and articles.
Over == run.status \in {"completed", "completed_empty", "partial_failed",
                        "failed", "cancelled"}

\* However many Core instances reconcile the run, and wherever they crash, it
\* gives no agent the same job twice.
FanOutOnce == \A j \in Jobs : sent[j] <= 1

\* What a closed stage put in its output snapshot is, as long as the run goes
\* on or waits, exactly what the database holds: no item is added or answered
\* behind the barrier.
SnapshotsComplete ==
    (~RetriesAfterFailure /\ ~Over) =>
        LET Exactly(n, items) == run.output[n].taken => run.output[n].items = items
        IN  /\ Exactly("source_fetch", raw)
            /\ Exactly("topic_scout", {t \in Topics : topic[t] # "absent"})
            /\ Exactly("topic_evaluate", {t \in Topics : verdict[t] = "pass"})
            /\ Exactly("article_write", {x \in Targets : article[x] # "absent"})
            /\ Exactly("article_evaluate", {x \in Targets : quality[x] = "pass"})

\* The articles on the run's review desk are the ones the gate let through,
\* each of them also an artifact of the run, and the run waits for a human
\* exactly as long as there is one.
ReviewDesk ==
    /\ ~Over => run.review = {x \in Targets :
                   article[x] \in {"pending_review", "approved", "rejected"}}
    /\ run.status = "waiting_human_review" <=> run.review # {}
    /\ \A x \in run.review : quality[x] = "pass"

\* A topic is never seen in writing before all its writers have their jobs:
\* the quality gate and its fan-out are one transaction.
GateImpliesFanOut ==
    ~Over => \A x \in Targets :
        topic[x[1]] \in {"in_writing", "written"} => sent[<<"article_write", x>>] > 0

\* The writers' side of the same transaction: a writer is only asked to write
\* topics that have entered the writing state, or that a person has rejected,
\* which the reconciliation does not notice.
WritersGetTopicsInWriting ==
    \A x \in Targets : sent[<<"article_write", x>>] > 0 =>
        topic[x[1]] \in {"in_writing", "written"} \/ x[1] \in vetoed

\* A run ends only when every job it gave out has been answered.
SettledMeansDrained ==
    (Settled /\ ~RetriesAfterFailure) =>
        \A j \in Jobs : sent[j] > 0 => j \in succeeded \cup failed

\* The barriers: nothing comes behind a stage that is closed, or a run that
\* has ended (ReconcileRun closes a stage on reports, not on rows).
StagesAreWhole == SnapshotsComplete /\ SettledMeansDrained

\* The gates: what they let through is exactly what has been sent on, to the
\* writers or to the desk, though people decide on the same rows meanwhile.
GatesHold == GateImpliesFanOut /\ WritersGetTopicsInWriting /\ ReviewDesk

\* What a run says for a reason when it ends with nothing to review.
ReasonIsTrue(why) ==
    CASE why = "all_source_fetch_failed" ->
             raw = {} /\ \A s \in run.sources : <<"source_fetch", s>> \in failed
      [] why = "no_new_raw_items" ->
             raw = {} /\ \E s \in run.sources : <<"source_fetch", s>> \in succeeded
      [] why \in {"topic_scout_failed", "scout_produced_no_topics"} ->
             raw # {} /\ \A t \in Topics : topic[t] = "absent"
      [] why = "all_topics_rejected" ->
             /\ \E t \in Topics : topic[t] # "absent"
             /\ \A t \in Topics : verdict[t] # "pass"
      [] why = "accepted_topics_have_no_platforms" ->
             /\ \E t \in Topics : verdict[t] = "pass"
             /\ \A x \in Targets : verdict[x[1]] # "pass"
      [] why = "all_writes_failed" ->
             /\ \E x \in Targets : verdict[x[1]] = "pass"
             /\ \A x \in Targets : article[x] = "absent"
      [] why = "no_article_passed_quality_gate" ->
             /\ \E x \in Targets : article[x] # "absent"
             /\ \A x \in Targets : quality[x] # "pass"
      [] OTHER -> why \in {"", "no_enabled_sources"}

ReasonHolds == ReasonIsTrue(run.reason)

\* A run that ends with nothing to review says why, and it is so when it is
\* said, whatever was reported while the reconciliation was under way: no later
\* stage of the same reconciliation overwrites the reason.
EmptyEndsAreTrue ==
    [][(run'.reason # run.reason /\ ~RetriesAfterFailure) => ReasonHolds']_vars

\* A person's rejection of a topic stands, whatever a reconciliation that was
\* under way at the time, or its evaluation afterwards, makes of the topic.
VetoIsFinal == \A t \in vetoed : topic[t] = "rejected"

\* Once it has ended or waits for a human, no tick of any instance changes
\* the run or gives out another job for it.
SettledRunFrozen == [][Settled => UNCHANGED <<run, sent>>]_vars

\* The run's snapshots form a line of stages.
Line == INSTANCE StageLine WITH
            Node   <- Nodes,
            Index  <- NodeIndex,
            Blank  <- NoSnapshot,
            phase  <- CASE run.status = "absent" -> "absent"
                        [] Settled -> "ended"
                        [] OTHER -> "active",
            input  <- run.input,
            output <- run.output
LineSpec == Line!Spec

\* A run that was started ends or comes to a human, however often the process
\* dies in between: ReconcileAll "advances every active content run".
RunSettles == (run.status = "queued") ~> Settled

\* The same, unless an evaluation of an article fails for good.
RunSettlesIfArticlesAreEvaluated ==
    (run.status = "queued") ~>
        (Settled \/ \E x \in Targets : <<"article_evaluate", x>> \in failed)
=============================================================================
