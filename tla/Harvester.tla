------------------------------ MODULE Harvester ------------------------------
(***************************************************************************)
(* The harvester (internal/harvester) beside a content-production run.     *)
(* In every tick a Core instance makes six scans, each for rows that wait  *)
(* for one thing, and deals with each row in a transaction of its own, by  *)
(* what the scan said of it: candidates are sent for evaluation, topics    *)
(* and articles with an evaluation change status, approved topics are      *)
(* written for each of their platforms, and an article that fails its      *)
(* evaluation is rewritten as its next version until maxArticleVersion.    *)
(* The scans leave out the topics of a run that is active or waits for a   *)
(* human; topics of no run, and those a run leaves behind when it ends,    *)
(* are the harvester's.                                                    *)
(*                                                                         *)
(* ContentRun is the run.  Here the topics are all the run's, or, when no  *)
(* run is created, all of none.  Version 1 of an article is ContentRun's   *)
(* article of that target.                                                 *)
(***************************************************************************)
EXTENDS ContentRun, Sequences, SequencesExt

CONSTANTS
    maxArticleVersion,
    topicLimit,         \* most topics a scan returns
    articleLimit        \* most articles a scan returns

ASSUME HarvesterAssumption ==
    /\ maxArticleVersion \in Nat \ {0, 1}
    /\ topicLimit \in Nat \ {0}
    /\ articleLimit \in Nat \ {0}

Articles == Targets \X (1..maxArticleVersion)
Rewrites == Targets \X (2..maxArticleVersion)

\* The jobs the harvester sends, also the schedule keys it records for them.
HarvestJobs == ({"topic_evaluate"} \X Topics)
               \cup ({"article_write", "article_evaluate"} \X Articles)

VARIABLES
    proposed,   \* topics in the order of created_at
    approvals,  \* topics in the order in which they were approved by hand
    drafted,    \* articles in the order of created_at
    keys,       \* schedule keys recorded
    dispatched, \* how often the harvester sent each job
    done,       \* jobs of the harvester that have been carried out
    lost,       \* jobs of the harvester that failed for good
    rewrite,    \* status of each article row of a version above 1
    judged,     \* the evaluation of each of them
    tick        \* where each Core instance is in its tick

harvestVars == <<proposed, approvals, drafted, keys, dispatched, done, lost,
                 rewrite, judged, tick>>
allVars == <<vars, harvestVars>>

\* The scan that follows each scan of a tick.
NextScan == [idle                         |-> "enqueueEvaluations",
             enqueueEvaluations           |-> "transitionScored",
             transitionScored             |-> "enqueueWriting",
             enqueueWriting               |-> "enqueueArticleEvaluations",
             enqueueArticleEvaluations    |-> "transitionArticleEvaluations",
             transitionArticleEvaluations |-> "decideScoredArticles",
             decideScoredArticles         |-> "idle"]

\* A row with the evaluation the scan read along with it, if it did.
Row == (Topics \cup Articles) \X {"none", "pass", "low"}
NotTicking == [at |-> "idle", rows |-> {}]

HInit ==
    /\ Init
    /\ proposed = <<>>
    /\ approvals = <<>>
    /\ drafted = <<>>
    /\ keys = {}
    /\ dispatched = [j \in HarvestJobs |-> 0]
    /\ done = {}
    /\ lost = {}
    /\ rewrite = [a \in Rewrites |-> "absent"]
    /\ judged = [a \in Rewrites |-> "none"]
    /\ tick = [c \in Cores |-> NotTicking]

-----------------------------------------------------------------------------
\* The row of an article, whatever its version.
StatusOf(a) == IF a[2] = 1 THEN article[a[1]] ELSE rewrite[a]
QualityOf(a) == IF a[2] = 1 THEN quality[a[1]] ELSE judged[a]

SetStatus(a, to) ==
    /\ article' = IF a[2] = 1 THEN [article EXCEPT ![a[1]] = to] ELSE article
    /\ rewrite' = IF a[2] = 1 THEN rewrite ELSE [rewrite EXCEPT ![a] = to]

SetQuality(a, q) ==
    /\ quality' = IF a[2] = 1 THEN [quality EXCEPT ![a[1]] = q] ELSE quality
    /\ judged' = IF a[2] = 1 THEN judged ELSE [judged EXCEPT ![a] = q]

\* The clause of the scans on the run a topic belongs to.
NoActiveRun == run.status \notin {"queued", "running", "waiting_human_review"}

\* A query with an order and a limit: the rows with fewer than so many before
\* them in the order.
FirstOf(rows, order, limit) ==
    {row \in rows : \E i \in DOMAIN order :
         /\ order[i] = row
         /\ Cardinality({m \in 1..(i - 1) : order[m] \in rows}) < limit}

\* A query with a limit whose rows leave it as soon as they are dealt with:
\* whatever its order, any so many of them.
SomeOf(rows, limit) ==
    {some \in SUBSET rows :
         /\ Cardinality(some) <= limit
         /\ some = rows \/ Cardinality(some) = limit}

TopicsIn(status) == {t \in Topics : topic[t] = status}
ArticlesIn(status) == {a \in Articles : StatusOf(a) = status}

\* Mutant of PendingCandidates: one too few.
PendingCandidatesButOne ==
    FirstOf(TopicsIn("candidate"), proposed, topicLimit - 1)

\* The first candidates, those sent for evaluation among them.
PendingCandidates == FirstOf(TopicsIn("candidate"), proposed, topicLimit)

\* The rows each scan finds.
Evaluated(articles) ==
    {row \in {<<a, QualityOf(a)>> : a \in articles} : row[2] # "none"}

ScoredTopicsWithoutTransition ==
    {<<t, verdict[t]>> : t \in {u \in TopicsIn("candidate") : verdict[u] # "none"}}

\* An approved topic is not changed before it is written: its updated_at is
\* the time of its approval.  Those without a platform are among the first.
PendingApprovedTopics == FirstOf(TopicsIn("approved"), approvals, topicLimit)

\* The oldest drafts, those sent for evaluation and those evaluated among them.
DraftArticlesPendingEvaluation ==
    FirstOf(ArticlesIn("draft"), drafted, articleLimit)

ArticleEvaluationsWithoutTransition == Evaluated(ArticlesIn("draft"))

ScoredArticlesWithoutDecision == Evaluated(ArticlesIn("scored"))

\* What each scan may find, as sets of rows.
Found(scan) ==
    IF ~NoActiveRun THEN {{}} ELSE
        CASE scan = "enqueueEvaluations" -> {PendingCandidates \X {"none"}}
          [] scan = "transitionScored" ->
                 SomeOf(ScoredTopicsWithoutTransition, topicLimit)
          [] scan = "enqueueWriting" -> {PendingApprovedTopics \X {"none"}}
          [] scan = "enqueueArticleEvaluations" ->
                 {DraftArticlesPendingEvaluation \X {"none"}}
          [] scan = "transitionArticleEvaluations" ->
                 SomeOf(ArticleEvaluationsWithoutTransition, articleLimit)
          [] scan = "decideScoredArticles" ->
                 SomeOf(ScoredArticlesWithoutDecision, articleLimit)
          [] OTHER -> {{}}

Scan(c) ==
    LET scan == NextScan[tick[c].at]
    IN  /\ tick[c].rows = {}
        /\ \E rows \in Found(scan) :
               tick' = [tick EXCEPT ![c] = [at |-> scan, rows |-> rows]]
        /\ UNCHANGED <<vars, proposed, approvals, drafted, keys, dispatched,
                       done, lost, rewrite, judged>>

\* The process dies in the middle of a tick: what was found is forgotten.
Crash(c) ==
    /\ tick[c].at # "idle"
    /\ tick' = [tick EXCEPT ![c] = NotTicking]
    /\ UNCHANGED <<vars, proposed, approvals, drafted, keys, dispatched, done,
                   lost, rewrite, judged>>

-----------------------------------------------------------------------------
(* The transactions, one for each row found.                                *)

TakeUp(c, scan, row) ==
    /\ tick[c].at = scan
    /\ row \in tick[c].rows
    /\ tick' = [tick EXCEPT ![c].rows = @ \ {row}]

\* Mutant of Dispatch: the schedule key is recorded but not asked for.
DispatchAnyway(jobs) ==
    /\ keys' = keys \cup jobs
    /\ dispatched' = [j \in HarvestJobs |->
                          IF j \in jobs THEN dispatched[j] + 1 ELSE dispatched[j]]

\* RecordScheduleRun and Send: a job whose key is recorded is not sent again.
Dispatch(jobs) ==
    /\ keys' = keys \cup jobs
    /\ dispatched' = [j \in HarvestJobs |->
                          IF j \in jobs \ keys THEN dispatched[j] + 1
                                               ELSE dispatched[j]]

enqueueOne(c, t) ==
    /\ TakeUp(c, "enqueueEvaluations", <<t, "none">>)
    /\ Dispatch({<<"topic_evaluate", t>>})
    /\ UNCHANGED <<vars, proposed, approvals, drafted, done, lost, rewrite,
                   judged>>

\* A row that has left its status since it was scanned stays as it is.
TransitionTopic(t, from, to) ==
    topic' = [topic EXCEPT ![t] = IF @ = from THEN to ELSE @]

TransitionArticle(a, from, to) ==
    SetStatus(a, IF StatusOf(a) = from THEN to ELSE StatusOf(a))

transitionScored(c, t, v) ==
    /\ TakeUp(c, "transitionScored", <<t, v>>)
    /\ TransitionTopic(t, "candidate", IF v = "pass" THEN "scored" ELSE "rejected")
    /\ UNCHANGED <<run, sent, vetoed, article, agentVars, txn, proposed,
                   approvals, drafted, keys, dispatched, done, lost, rewrite,
                   judged>>

\* A topic for no platform is an error, and stays as it is.  One that is no
\* longer approved keeps its status, but the jobs are sent.
enqueueTopicWriting(c, t) ==
    /\ TakeUp(c, "enqueueWriting", <<t, "none">>)
    /\ IF TargetPlatforms[t] = {}
       THEN UNCHANGED <<topic, keys, dispatched>>
       ELSE /\ Dispatch({<<"article_write", <<x, 1>>>> : x \in TargetsOf({t})})
            /\ TransitionTopic(t, "approved", "in_writing")
    /\ UNCHANGED <<run, sent, vetoed, article, agentVars, txn, proposed,
                   approvals, drafted, done, lost, rewrite, judged>>

enqueueArticleEvaluation(c, a) ==
    /\ TakeUp(c, "enqueueArticleEvaluations", <<a, "none">>)
    /\ Dispatch({<<"article_evaluate", a>>})
    /\ UNCHANGED <<vars, proposed, approvals, drafted, done, lost, rewrite,
                   judged>>

transitionArticleEvaluations(c, a, q) ==
    /\ TakeUp(c, "transitionArticleEvaluations", <<a, q>>)
    /\ TransitionArticle(a, "draft", "scored")
    /\ UNCHANGED <<run, sent, topic, vetoed, agentVars, txn, proposed,
                   approvals, drafted, keys, dispatched, done, lost, judged>>

\* Mutant of GoesToReview: the limit is one version early.
GoesToReviewEarly(a, q) == q = "pass" \/ a[2] + 1 >= maxArticleVersion

GoesToReview(a, q) == q = "pass" \/ a[2] >= maxArticleVersion

moveArticleToPendingReview(c, a, q) ==
    /\ TakeUp(c, "decideScoredArticles", <<a, q>>)
    /\ GoesToReview(a, q)
    /\ TransitionArticle(a, "scored", "pending_review")
    /\ UNCHANGED <<run, sent, topic, vetoed, agentVars, txn, proposed,
                   approvals, drafted, keys, dispatched, done, lost, judged>>

\* Mutant of RewriteQueued: the old version keeps its status.
StaysScored == "scored"

\* The last status of a version that is rewritten.
RewriteQueued == "rewrite_queued"

\* An article that is no longer scored is left alone; one whose rewrite has
\* been dispatched before is an error, and the transaction is rolled back.
enqueueArticleRewrite(c, a, q) ==
    LET next == <<"article_write", <<a[1], a[2] + 1>>>>
    IN  /\ TakeUp(c, "decideScoredArticles", <<a, q>>)
        /\ ~GoesToReview(a, q)
        /\ IF StatusOf(a) = "scored" /\ next \notin keys
           THEN /\ SetStatus(a, RewriteQueued)
                /\ Dispatch({next})
           ELSE UNCHANGED <<drafted, article, rewrite, keys, dispatched>>
        /\ UNCHANGED <<run, sent, topic, vetoed, agentVars, txn, proposed,
                       approvals, drafted, done, lost, judged>>

-----------------------------------------------------------------------------
(* The agents, on the harvester's jobs.                                     *)

Open(j) == dispatched[j] > 0 /\ j \notin done \cup lost

EvaluateCandidate(t, v) ==
    /\ Open(<<"topic_evaluate", t>>)
    /\ done' = done \cup {<<"topic_evaluate", t>>}
    /\ verdict' = [verdict EXCEPT ![t] = v]
    /\ UNCHANGED <<run, sent, topic, vetoed, article, raw, quality, succeeded,
                   failed, txn, proposed, approvals, drafted, keys, dispatched,
                   lost, rewrite, judged, tick>>

WriteVersion(a) ==
    /\ Open(<<"article_write", a>>)
    /\ topic[a[1][1]] \in {"in_writing", "written"}
    /\ done' = done \cup {<<"article_write", a>>}
    /\ SetStatus(a, "draft")
    /\ drafted' = Append(drafted, a)
    /\ UNCHANGED <<run, sent, topic, vetoed, agentVars, txn, proposed,
                   approvals, keys, dispatched, lost, judged, tick>>

JudgeArticle(a, q) ==
    /\ Open(<<"article_evaluate", a>>)
    /\ done' = done \cup {<<"article_evaluate", a>>}
    /\ SetQuality(a, q)
    /\ UNCHANGED <<run, sent, topic, vetoed, article, raw, verdict, succeeded,
                   failed, txn, proposed, approvals, drafted, keys, dispatched,
                   lost, rewrite, tick>>

LoseJob(j) ==
    /\ Open(j)
    /\ lost' = lost \cup {j}
    /\ UNCHANGED <<vars, proposed, approvals, drafted, keys, dispatched, done,
                   rewrite, judged, tick>>

\* A scout whose job belongs to no run.
ScoutTopic(t) ==
    /\ run.status = "absent"
    /\ topic[t] = "absent"
    /\ topic' = [topic EXCEPT ![t] = "candidate"]
    /\ proposed' = Append(proposed, t)
    /\ UNCHANGED <<run, sent, vetoed, article, agentVars, txn, approvals,
                   drafted, keys, dispatched, done, lost, rewrite, judged,
                   tick>>

\* By hand, or by the scheduler's batch of the hour.
ApproveTopic(t) ==
    /\ topic[t] # "absent"
    /\ CanTopicTransition(topic[t], "approved")
    /\ topic' = [topic EXCEPT ![t] = "approved"]
    /\ approvals' = Append(approvals, t)
    /\ UNCHANGED <<run, sent, vetoed, article, agentVars, txn, proposed,
                   drafted, keys, dispatched, done, lost, rewrite, judged,
                   tick>>

ReviewRewrite(a, to) ==
    /\ rewrite[a] # "absent"
    /\ CanArticleTransition(rewrite[a], to)
    /\ rewrite' = [rewrite EXCEPT ![a] = to]
    /\ UNCHANGED <<vars, proposed, approvals, drafted, keys, dispatched, done,
                   lost, judged, tick>>

\* Whatever goes on about the run; the topics it proposes and the articles it
\* writes are noted in their order.
RunStep ==
    /\ Next
    /\ (run.status = "absent" /\ proposed # <<>>) => run' = run
    /\ proposed' = proposed \o SetToSeq({t \in Topics : /\ topic[t] = "absent"
                                                       /\ topic'[t] # "absent"})
    /\ drafted' = drafted \o SetToSeq({<<x, 1>> : x \in
           {y \in Targets : article[y] = "absent" /\ article'[y] # "absent"}})
    /\ UNCHANGED <<approvals, keys, dispatched, done, lost, rewrite, judged,
                   tick>>

Transaction(c) ==
    \/ \E t \in Topics :
           \/ enqueueOne(c, t)
           \/ \E v \in {"pass", "low"} : transitionScored(c, t, v)
           \/ enqueueTopicWriting(c, t)
    \/ \E a \in Articles :
           \/ enqueueArticleEvaluation(c, a)
           \/ \E q \in {"pass", "low"} :
                  \/ transitionArticleEvaluations(c, a, q)
                  \/ moveArticleToPendingReview(c, a, q)
                  \/ enqueueArticleRewrite(c, a, q)

Labour ==
    \/ \E t \in Topics, v \in {"pass", "low"} : EvaluateCandidate(t, v)
    \/ \E a \in Articles : WriteVersion(a)
    \/ \E a \in Articles, q \in {"pass", "low"} : JudgeArticle(a, q)
    \/ \E j \in HarvestJobs : LoseJob(j)

\* All that is done while no instance dies.
Steady ==
    \/ RunStep
    \/ \E c \in Cores : Scan(c) \/ Transaction(c)
    \/ Labour
    \/ \E t \in Topics : ScoutTopic(t) \/ ApproveTopic(t)
    \/ \E a \in Rewrites, to \in {"approved", "rejected"} : ReviewRewrite(a, to)

HNext == Steady \/ \E c \in Cores : Crash(c)

HSpec == HInit /\ [][HNext]_allVars

\* What the harvester gets done while its processes live: they tick for ever,
\* and agents answer.
HFairness ==
    /\ \A c \in Cores : WF_tick(Scan(c) \/ Transaction(c))
    /\ WF_<<done, lost>>(Labour)

HFairSpec == HInit /\ [][Steady]_allVars /\ HFairness

-----------------------------------------------------------------------------
(* Properties.                                                              *)

\* The run and the harvester between them never have two jobs out for the same
\* topic, nor, whatever its version, for the same article: whoever takes over
\* does so when nothing is under way.
OneJobAtATime ==
    ~RetriesAfterFailure =>
        LET RunOpen(j) == sent[j] > 0 /\ j \notin succeeded \cup failed
            Out(j) == (IF RunOpen(j) THEN 1 ELSE 0)
            HarvestOut(js) == Cardinality({j \in js : Open(j)})
            work == {"article_write", "article_evaluate"}
        IN  /\ \A j \in HarvestJobs : dispatched[j] <= 1
            /\ \A t \in Topics : Out(<<"topic_evaluate", t>>)
                                 + HarvestOut({<<"topic_evaluate", t>>}) <= 1
            /\ \A x \in Targets :
                   Out(<<"article_write", x>>) + Out(<<"article_evaluate", x>>)
                   + HarvestOut(work \X ({x} \X (1..maxArticleVersion))) <= 1

\* A version makes room for the next at the same time as that is asked for, so
\* no article has two versions alive and none is given up without a successor.
RewritesInLine ==
    \A a \in Rewrites :
        LET before == StatusOf(<<a[1], a[2] - 1>>)
        IN  /\ before = "rewrite_queued" <=> dispatched[<<"article_write", a>>] > 0
            /\ rewrite[a] # "absent" => before = "rewrite_queued"

\* What a human is asked to review has passed its evaluation, or has been
\* rewritten as often as it may be.  Where a failed job may still succeed, one of
\* a run that is over can evaluate an article that is on the desk already.
DeskIsEarned ==
    ~RetriesAfterFailure =>
        \A a \in Articles : StatusOf(a) \in {"pending_review", "approved"} =>
            QualityOf(a) = "pass" \/ a[2] = maxArticleVersion

\* "candidate 产生到评分入队 < 1 分钟": a candidate of no active run is sent for
\* evaluation, and an approved topic to be written, as long as fewer topics than
\* a scan returns can never leave the head of it: candidates whose evaluation
\* is lost for good, and approved topics for no platform.
TopicsAreSentWhileTheScansHaveRoom ==
    \A t \in Topics : (NoActiveRun /\ topic[t] \in {"candidate", "approved"}) ~>
        \/ topic[t] \notin {"candidate", "approved"}
        \/ /\ topic[t] = "candidate"
           /\ \/ <<"topic_evaluate", t>> \in keys
              \/ Cardinality({u \in TopicsIn("candidate") :
                                  <<"topic_evaluate", u>> \in lost}) >= topicLimit
        \/ /\ topic[t] = "approved"
           /\ Cardinality({u \in TopicsIn("approved") : TargetPlatforms[u] = {}})
                  >= topicLimit

\* No verdict on an article is left lying: with one, a draft becomes scored, and
\* a scored article comes to the desk or gives way to a next version.  A draft
\* without one is sent for evaluation, as long as fewer drafts than a scan
\* returns can never leave the head of it: those whose evaluation is lost.
VerdictsAreActedOn ==
    \A a \in Articles : (NoActiveRun /\ StatusOf(a) \in {"draft", "scored"}) ~>
        \/ StatusOf(a) \notin {"draft", "scored"}
        \/ /\ QualityOf(a) = "none"
           /\ \/ <<"article_evaluate", a>> \in keys
              \/ Cardinality({b \in ArticlesIn("draft") :
                                  /\ QualityOf(b) = "none"
                                  /\ <<"article_evaluate", b>> \in lost})
                     >= articleLimit
===============================================================================
