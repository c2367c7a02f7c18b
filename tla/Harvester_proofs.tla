-------------------------- MODULE Harvester_proofs --------------------------
(***************************************************************************)
(* Proofs about Harvester, for any numbers of Core instances, topics,      *)
(* platforms and versions.  Until something is handed over, nothing is     *)
(* the harvester's and the run is as ContentRun_proofs has it; from then   *)
(* on the run does not move, and an invariant of the harvester's own rows  *)
(* and jobs takes over from what the run left behind.                      *)
(***************************************************************************)
EXTENDS Harvester, ContentRun_proofs

-----------------------------------------------------------------------------
(* The statuses a run gives its rows.                                       *)

RunTopicStatus == {"absent", "candidate", "in_writing", "written", "rejected"}
RunArticleStatus == {"absent", "draft", "scored", "pending_review", "approved",
                     "rejected"}
TopicWrites == {Unwritten, "in_writing", "written", "rejected"}
ArticleWrites == {Unwritten, "scored", "pending_review"}

StatusInv ==
    /\ \A u \in Topics : topic[u] \in RunTopicStatus
    /\ \A x \in Targets : article[x] \in RunArticleStatus
    /\ \A c \in Cores : /\ txn[c].topic \in [Topics -> TopicWrites]
                        /\ txn[c].article \in [Targets -> ArticleWrites]

\* A stage that goes on has written only such statuses.
LEMMA AdvanceStatus ==
    ASSUME TypeOK, StatusInv, NEW c \in Cores, NEW next, NEW r, NEW jobs,
           NEW topics \in [Topics -> TopicWrites],
           NEW articles \in [Targets -> ArticleWrites],
           Advance(c, next, r, jobs, topics, articles)
    PROVE  StatusInv'
  <1>1. /\ txn'[c].topic = topics /\ txn'[c].article = articles
        /\ \A d \in Cores : d # c => txn'[d] = txn[d]
        /\ topic' = topic /\ article' = article
        BY AdvanceIs
  <1> QED BY <1>1 DEF StatusInv

\* ... nor does the commit publish any other.
LEMMA CommitStatus ==
    ASSUME TypeOK, StatusInv, NEW c \in Cores, NEW r, Commit(c, r)
    PROVE  StatusInv'
  <1>1. /\ Idle.topic \in [Topics -> TopicWrites]
        /\ Idle.article \in [Targets -> ArticleWrites]
        BY DEF Idle, TopicWrites, ArticleWrites
  <1>2. \A d \in Cores : txn'[d] = IF d = c THEN Idle ELSE txn[d]
        BY DEF Commit, TypeOK
  <1>3. \A u \in Topics : topic'[u] \in RunTopicStatus
        BY DEF Commit, SeenTopic, StatusInv, TopicWrites, RunTopicStatus
  <1>4. \A x \in Targets : article'[x] \in RunArticleStatus
        BY DEF Commit, SeenArticle, StatusInv, ArticleWrites, RunArticleStatus
  <1> HIDE DEF Idle
  <1> QED BY <1>1, <1>2, <1>3, <1>4 DEF StatusInv

LEMMA RollbackStatus ==
    ASSUME TypeOK, StatusInv, NEW c \in Cores, Rollback(c)
    PROVE  StatusInv'
  <1>1. /\ Idle.topic \in [Topics -> TopicWrites]
        /\ Idle.article \in [Targets -> ArticleWrites]
        BY DEF Idle, TopicWrites, ArticleWrites
  <1>2. \A d \in Cores : txn'[d] = IF d = c THEN Idle ELSE txn[d]
        BY DEF Rollback, TypeOK
  <1> HIDE DEF Idle
  <1> QED BY <1>1, <1>2 DEF StatusInv, Rollback

LEMMA StageStatus ==
    ASSUME TypeOK, StatusInv, NEW c \in Cores, ReconcileStage(c)
    PROVE  StatusInv'
  <1> DEFINE Goes == \E next, r, jobs :
                        \E topics \in [Topics -> TopicWrites],
                           articles \in [Targets -> ArticleWrites] :
                           Advance(c, next, r, jobs, topics, articles)
             Commits == \E r : Commit(c, r)
  <1>0. SUFFICES Goes \/ Commits \/ Rollback(c)
        BY AdvanceStatus, CommitStatus, RollbackStatus
  <1>1. /\ txn[c].topic \in [Topics -> TopicWrites]
        /\ txn[c].article \in [Targets -> ArticleWrites]
        BY DEF StatusInv
  <1>2. CASE ReconcileSourceFetch(c)
        BY <1>1, <1>2, Zenon DEF ReconcileSourceFetch
  <1>3. CASE ReconcileTopicScout(c)
        BY <1>1, <1>3, Zenon DEF ReconcileTopicScout
  <1>4. CASE ReconcileTopicEvaluate(c)
    <2>1. \A status, v : GateTopic(status, v) \in TopicWrites
          BY DEF GateTopic, TopicWrites
    <2> DEFINE ids == txn[c].run.input["topic_evaluate"].items
               gated == [t \in Topics |->
                    IF t \in ids /\ GateTopic(SeenTopic(c, t), verdict[t]) # Unwritten
                    THEN GateTopic(SeenTopic(c, t), verdict[t])
                    ELSE txn[c].topic[t]]
    <2>2. gated \in [Topics -> TopicWrites]
          BY <1>1, <2>1
    <2>3. \/ \E next, r, jobs : Advance(c, next, r, jobs, gated, txn[c].article)
          \/ \E next, r, jobs : Advance(c, next, r, jobs, txn[c].topic, txn[c].article)
          \/ Commits
          BY <1>4, Zenon DEF ReconcileTopicEvaluate
    <2> HIDE DEF gated
    <2> QED BY <1>1, <2>2, <2>3
  <1>5. CASE ReconcileArticleWrite(c)
    <2> DEFINE closed(ids) == [t \in Topics |->
                    IF t \in ids /\ SeenTopic(c, t) = "in_writing"
                    THEN "written" ELSE txn[c].topic[t]]
    <2>1. \A ids : closed(ids) \in [Topics -> TopicWrites]
          BY <1>1 DEF TopicWrites
    <2>2. \/ \E next, r, jobs, ids :
                 Advance(c, next, r, jobs, closed(ids), txn[c].article)
          \/ \E next, r, jobs : Advance(c, next, r, jobs, txn[c].topic, txn[c].article)
          \/ Commits
          BY <1>5, Zenon DEF ReconcileArticleWrite
    <2> HIDE DEF closed
    <2> QED BY <1>1, <2>1, <2>2
  <1>6. CASE ReconcileArticleEvaluate(c)
    <2>1. \A status, q : GateArticle(status, q) \in ArticleWrites
          BY DEF GateArticle, ArticleWrites
    <2> DEFINE gated(ids) == [x \in Targets |->
                    IF x \in ids /\ GateArticle(SeenArticle(c, x), quality[x]) # Unwritten
                    THEN GateArticle(SeenArticle(c, x), quality[x])
                    ELSE txn[c].article[x]]
    <2>2. \A ids : gated(ids) \in [Targets -> ArticleWrites]
          BY <1>1, <2>1
    <2>3. \/ \E next, r, jobs, ids :
                 Advance(c, next, r, jobs, txn[c].topic, gated(ids))
          \/ \E next, r, jobs : Advance(c, next, r, jobs, txn[c].topic, txn[c].article)
          \/ Commits
          \/ Rollback(c)
          BY <1>6, ZenonT(60) DEF ReconcileArticleEvaluate
    <2> HIDE DEF gated
    <2> QED BY <1>1, <2>2, <2>3
  <1>7. CASE ReconcileHumanReview(c)
        BY <1>7, Zenon DEF ReconcileHumanReview
  <1> QED BY <1>2, <1>3, <1>4, <1>5, <1>6, <1>7 DEF ReconcileStage

LEMMA StatusNext ==
    ASSUME TypeOK, StatusInv, [Next]_vars
    PROVE  StatusInv'
  <1>1. CASE UNCHANGED vars
        BY <1>1 DEF vars, StatusInv
  <1>2. ASSUME NEW c \in Cores, BeginReconcile(c) PROVE StatusInv'
    <2>1. /\ \A d \in Cores : /\ txn'[d].topic = txn[d].topic
                              /\ txn'[d].article = txn[d].article
          /\ topic' = topic /\ article' = article
          BY <1>2 DEF BeginReconcile, TypeOK, Txn
    <2> QED BY <2>1 DEF StatusInv
  <1>3. CASE CoreStep
        BY <1>2, <1>3, StageStatus, RollbackStatus
        DEF CoreStep, CreateContentRun, CrashInReconcile, StatusInv
  <1>4. CASE AgentStep
    <2>1. \/ UNCHANGED <<topic, article, txn>>
          \/ \E t \in Topics : ProposeTopic(t)
          \/ \E x \in Targets : WriteArticle(x)
          BY <1>4 DEF AgentStep, FetchItems, EvaluateTopic, EvaluateArticle,
             ReportSuccess, ReportFailure
    <2>2. CASE UNCHANGED <<topic, article, txn>>
          BY <2>2 DEF StatusInv
    <2>3. ASSUME NEW t \in Topics, ProposeTopic(t) PROVE StatusInv'
          BY <2>3 DEF ProposeTopic, StatusInv, TypeOK, RunTopicStatus
    <2>4. ASSUME NEW x \in Targets, WriteArticle(x) PROVE StatusInv'
          BY <2>4 DEF WriteArticle, StatusInv, TypeOK, RunArticleStatus
    <2> QED BY <2>1, <2>2, <2>3, <2>4
  <1>5. CASE OutsideStep
    <2>1. ASSUME NEW t \in Topics, RejectTopic(t) \/ TransitionWritten(t) PROVE StatusInv'
          BY <2>1 DEF RejectTopic, TransitionWritten, StatusInv, TypeOK, RunTopicStatus
    <2>2. ASSUME NEW x \in Targets, NEW to \in {"approved", "rejected"}, ReviewArticle(x, to)
          PROVE  StatusInv'
          BY <2>2 DEF ReviewArticle, StatusInv, TypeOK, RunArticleStatus
    <2> QED BY <1>5, <2>1, <2>2 DEF OutsideStep
  <1> QED BY <1>1, <1>3, <1>4, <1>5 DEF Next

LEMMA StatusInit == Init => StatusInv
  BY DEF Init, StatusInv, Idle, RunTopicStatus, RunArticleStatus, TopicWrites,
     ArticleWrites

-----------------------------------------------------------------------------
(* What a run that is over leaves behind, where a failure is final: every   *)
(* article that was evaluated has been through the gate, and is not on the  *)
(* desk.                                                                    *)

EndClosed ==
    Over => \A x \in Targets : /\ article[x] \in {"absent", "draft", "scored"}
                               /\ quality[x] # "none" => article[x] = "scored"

\* The last stage of a reconciliation knows whether articles were evaluated.
EndOpen(t) ==
    t.at = "human_review" =>
        /\ t.run.status # "waiting_human_review" =>
               ~t.run.input["article_evaluate"].taken
        /\ t.run.status = "waiting_human_review" =>
               \A x \in Targets : quality[x] # "none" =>
                   ArticleSeen(t, x) \notin {"absent", "draft"}

EndInv == EndClosed /\ \A c \in Cores : EndOpen(txn[c])

\* Where no article was given to be evaluated, none is evaluated.
LEMMA NoInputNoQuality ==
    ASSUME NEW c \in Cores, Ready(c), ~txn[c].run.input["article_evaluate"].taken
    PROVE  \A x \in Targets : quality[x] = "none"
  <1>1. txn[c].run.input["article_evaluate"].items = {}
        BY NothingToWorkFrom DEF Fed, Stages
  <1> QED BY <1>1, FedResults

\* A reconciliation that has ended the run has given no article to be evaluated.
LEMMA EndedBeforeArticles ==
    ASSUME NEW c \in Cores, Ready(c), EndOpen(txn[c]),
           txn[c].run.status \in {"failed", "completed_empty"}
    PROVE  ~txn[c].run.input["article_evaluate"].taken
  <1> DEFINE t == txn[c]
             r == t.run
  <1>1. /\ InLine(r) /\ Whole(r, t) /\ Walking(t) /\ t \in Txn
        BY OpenRow DEF Ready, LineOpen, BarrierOpen
  <1>2. t.at \in Nodes /\ t.at # "source_fetch" /\ (t.at \in Fed => ~r.input[t.at].taken)
        BY <1>1 DEF Walking, Txn, Ready, Reconciling
  <1>3. CASE t.at = "human_review"
        BY <1>3 DEF EndOpen
  <1>4. CASE t.at # "human_review"
    <2>1. t.at \in Fed /\ t.at \in Stages
          BY <1>2, <1>4 DEF Nodes, Fed, Stages
    <2>2. ~r.output[t.at].taken
          BY <1>1, <1>2, <2>1 DEF Whole
    <2>3. CASE t.at = "article_evaluate"
          BY <1>2, <2>1, <2>3
    <2>4. CASE t.at # "article_evaluate"
      <3>1. NodeIndex[t.at] < NodeIndex["article_evaluate"]
            BY <2>1, <2>4 DEF Fed, Stages, NodeIndex
      <3>2. "article_evaluate" \in Fed
            BY DEF Fed, Stages
      <3> HIDE DEF t, r
      <3>3. ~r.input["article_evaluate"].taken
            BY <1>1, <2>1, <2>2, <3>1, <3>2, NothingBehind
      <3> QED BY <3>3 DEF r, t
    <2> QED BY <2>3, <2>4
  <1> QED BY <1>3, <1>4

\* ... so what it commits has nothing evaluated.
LEMMA EndedCommits ==
    ASSUME Inv, NEW c \in Cores, Ready(c), EndOpen(txn[c]),
           txn[c].run.status \in {"failed", "completed_empty"}, NEW r, Commit(c, r)
    PROVE  EndInv'
  <1>1. /\ \A d \in Cores : txn'[d] = Idle
        /\ \A x \in Targets : article'[x] = ArticleSeen(txn[c], x)
        /\ UNCHANGED agentVars
        BY CommitSees DEF Ready
  <1>2. \A x \in Targets : quality[x] = "none"
        BY EndedBeforeArticles, NoInputNoQuality
  <1>3. \A x \in Targets : ArticleSeen(txn[c], x) \in {"absent", "draft"}
        BY DEF Ready, DeskOpen, ArticleSeen
  <1> QED BY <1>1, <1>2, <1>3, IdleSees DEF EndInv, EndClosed, EndOpen, agentVars

\* A run that goes on leaves nothing behind yet.
LEMMA GoingOnCommits ==
    ASSUME Inv, NEW c \in Cores, Reconciling(c), NEW r,
           r.status \in {"queued", "running", "waiting_human_review"}, Commit(c, r)
    PROVE  EndInv'
  <1>1. (\A d \in Cores : txn'[d] = Idle) /\ run' = r
        BY CommitSees
  <1> QED BY <1>1, IdleSees DEF EndInv, EndClosed, EndOpen, Over

\* A stage that leads to none but the last.
LEMMA EarlyAdvanceEnd ==
    ASSUME TypeOK, EndInv, NEW c \in Cores, NEW next, NEW r, NEW jobs, NEW topics,
           NEW articles, Advance(c, next, r, jobs, topics, articles),
           next # "human_review"
    PROVE  EndInv'
  <1>1. /\ txn'[c].at = next
        /\ \A d \in Cores : d # c => txn'[d] = txn[d]
        /\ UNCHANGED <<run, article, agentVars>>
        BY AdvanceIs
  <1> QED BY <1>1 DEF EndInv, EndClosed, EndOpen, ArticleSeen, Over, agentVars

LEMMA RollbackEnd ==
    ASSUME TypeOK, EndInv, NEW c \in Cores, Rollback(c)
    PROVE  EndInv'
  <1>1. /\ txn'[c] = Idle /\ \A d \in Cores : d # c => txn'[d] = txn[d]
        /\ UNCHANGED <<run, article, agentVars>>
        BY DEF Rollback, TypeOK
  <1> QED BY <1>1, IdleSees DEF EndInv, EndClosed, EndOpen, ArticleSeen, Over, agentVars

\* A stage commits the row it was given: the run goes on, or has ended.
LEMMA SameRowCommits ==
    ASSUME Inv, NEW c \in Cores, Ready(c), EndOpen(txn[c]), txn[c].at # "human_review",
           Commit(c, txn[c].run)
    PROVE  EndInv'
  <1>1. txn[c].run.status \in {"running", "failed", "completed_empty"}
        BY DEF Ready, BarrierOpen, Walking
  <1> QED BY <1>1, EndedCommits, GoingOnCommits DEF Ready

LEMMA EarlyStagesEnd ==
    ASSUME Inv, EndInv, NEW c \in Cores, Ready(c),
           \/ ReconcileSourceFetch(c) \/ ReconcileTopicScout(c)
           \/ ReconcileTopicEvaluate(c) \/ ReconcileArticleWrite(c)
    PROVE  EndInv'
  <1>1. \/ \E next, r, jobs, topics, articles :
               /\ next # "human_review"
               /\ Advance(c, next, r, jobs, topics, articles)
        \/ Commit(c, txn[c].run)
    <2>1. CASE ReconcileSourceFetch(c)
          BY <2>1, Zenon DEF ReconcileSourceFetch
    <2>2. CASE ReconcileTopicScout(c)
          BY <2>2, Zenon DEF ReconcileTopicScout
    <2>3. CASE ReconcileTopicEvaluate(c)
          BY <2>3, Zenon DEF ReconcileTopicEvaluate
    <2>4. CASE ReconcileArticleWrite(c)
          BY <2>4, Zenon DEF ReconcileArticleWrite
    <2> QED BY <2>1, <2>2, <2>3, <2>4
  <1>2. txn[c].at # "human_review"
        BY DEF ReconcileSourceFetch, ReconcileTopicScout, ReconcileTopicEvaluate,
           ReconcileArticleWrite
  <1>3. TypeOK /\ EndOpen(txn[c])
        BY DEF Inv, EndInv
  <1> QED BY <1>1, <1>2, <1>3, EarlyAdvanceEnd, SameRowCommits

\* The gate of the articles lets no article with an evaluation stay a draft.
LEMMA ArticleEvaluateEnd ==
    ASSUME Inv, EndInv, NEW c \in Cores, Ready(c), ReconcileArticleEvaluate(c)
    PROVE  EndInv'
  <1> DEFINE n   == "article_evaluate"
             t   == txn[c]
             r   == t.run
             ids == r.input[n].items
             bad == {x \in ids : quality[x] = "none"}
             accepted == {x \in ids : /\ quality[x] = "pass"
                                      /\ SeenArticle(c, x) \in {"draft", "pending_review"}}
             closed == CloseNode(r, n, accepted, Outcome(bad))
             last   == FinishReviewStage(closed, accepted, bad)
             gated  == [x \in Targets |->
                  IF x \in ids /\ GateArticle(SeenArticle(c, x), quality[x]) # Unwritten
                  THEN GateArticle(SeenArticle(c, x), quality[x])
                  ELSE t.article[x]]
             skipped == SkipAfter(r, n, "no_articles_to_evaluate")
             Proceed(row, articles) ==
                 Advance(c, "human_review", row, {}, t.topic, articles)
  <1>0. t.at = n /\ TypeOK /\ EndOpen(t) /\ r \in CreatedRow /\ n \in Fed /\ n \in Nodes
        BY WaitingFits DEF ReconcileArticleEvaluate, Inv, EndInv, Fed, Stages, Nodes
  <1>1. \/ Commit(c, r)
        \/ Rollback(c)
        \/ ids = {} /\ Proceed(skipped, t.article)
        \/ /\ ids # {} /\ Outcome(bad) \in EventStatus
           /\ Proceed(last, gated)
        BY Zenon DEF ReconcileArticleEvaluate
  <1>2. CASE Commit(c, r)
        BY <1>0, <1>2, SameRowCommits
  <1>3. CASE Rollback(c)
        BY <1>0, <1>3, RollbackEnd
  <1>4. ASSUME NEW row, NEW articles, Proceed(row, articles),
               EndOpen(txn[c])'
        PROVE  EndInv'
    <2>1. /\ \A d \in Cores : d # c => txn'[d] = txn[d]
          /\ UNCHANGED <<run, article, agentVars>>
          BY <1>0, <1>4, AdvanceIs
    <2> QED BY <1>4, <2>1 DEF EndInv, EndClosed, EndOpen, ArticleSeen, Over, agentVars
  <1>5. CASE ids = {} /\ Proceed(skipped, t.article)
    <2>1. ~r.input[n].taken
          BY <1>0, <1>5, NothingToWorkFrom
    <2>2. r.status \in {"failed", "completed_empty"}
          BY <1>0, <2>1 DEF Ready, BarrierOpen, Walking
    <2>3. skipped.input = r.input /\ skipped.status = r.status
          BY <1>0, <2>2, EndIs DEF CanEnd
    <2>4. txn'[c].run = skipped
          BY <1>0, <1>5, AdvanceIs
    <2>5. EndOpen(txn[c])'
          BY <2>1, <2>2, <2>3, <2>4 DEF EndOpen
    <2> QED BY <1>4, <1>5, <2>5
  <1>6. CASE ids # {} /\ Outcome(bad) \in EventStatus /\ Proceed(last, gated)
    <2>1. ids \subseteq Targets /\ bad = {}
          BY <1>0, <1>6, NothingToWorkFrom DEF InputItems, Nodes, Outcome, EventStatus
    <2>2. last.status = "waiting_human_review"
      <3>1. accepted \in SUBSET OutputItems[n] /\ accepted \in SUBSET Targets
            BY <2>1 DEF OutputItems
      <3>2. closed \in CreatedRow
        <4> HIDE DEF accepted, bad, r, n
        <4> QED BY <1>0, <3>1, CloseNodeType, OutcomeType
      <3>3. last = FinishReviewStage(closed, accepted, {})
            BY <2>1
      <3> HIDE DEF last, accepted, closed
      <3> QED BY <3>1, <3>2, <3>3, FinishReviewStageIs
    <2>3. /\ txn'[c].run = last /\ txn'[c].article = gated
          /\ UNCHANGED <<article, quality>>
      <3>1. Advance(c, "human_review", last, {}, txn[c].topic, gated)
            BY <1>6
      <3> HIDE DEF last, gated
      <3> QED BY <1>0, <3>1, AdvanceIs DEF agentVars
    <2>4. ids = {x \in Targets : article[x] # "absent"}
      <3>1. "article_write" \in Stages /\ Line!Before("article_write", n)
            BY DEF Stages, Line!Before, NodeIndex
      <3>2. ids = Results("article_write")
            BY <1>0, <1>6, <3>1, FedByResults, NothingToWorkFrom
      <3> QED BY <3>2 DEF Results
    <2>5. ASSUME NEW x \in Targets, quality[x] # "none"
          PROVE  gated[x] \in {"pending_review", "scored"}
      <3>1. x \in ids
            BY <2>5, FedResults
      <3>2. SeenArticle(c, x) = "draft"
        <4>1. t.article[x] = Unwritten
              BY <1>0, DeskEmpty DEF Ready
        <4> QED BY <2>4, <3>1, <4>1 DEF SeenArticle, Ready
      <3>3. quality[x] \in {"pass", "low"}
            BY <1>0, <2>5 DEF TypeOK
      <3> QED BY <3>1, <3>2, <3>3 DEF GateArticle, Unwritten
    <2> HIDE DEF gated, last
    <2>6. EndOpen(txn[c])'
          BY <2>2, <2>3, <2>5 DEF EndOpen, ArticleSeen, Unwritten
    <2> QED BY <1>4, <1>6, <2>6
  <1> QED BY <1>1, <1>2, <1>3, <1>5, <1>6

\* The last stage ends the run when nothing is on the desk.
LEMMA HumanReviewEnd ==
    ASSUME Inv, StatusInv, EndInv, NEW c \in Cores, Ready(c), ReconcileHumanReview(c)
    PROVE  EndInv'
  <1> DEFINE why == "no_article_passed_quality_gate"
             t == txn[c]
             r == t.run
             ended == CompleteEmpty(r, why)
             waiting == [r EXCEPT !.status = IF @ \in {"queued", "running"}
                                             THEN "waiting_human_review" ELSE @]
  <1>1. t.at = "human_review" /\ Commit(c, IF r.review = {} THEN ended ELSE waiting)
        BY DEF ReconcileHumanReview
  <1>2. r \in CreatedRow /\ EndOpen(t)
        BY WaitingFits DEF EndInv
  <1>3. CASE r.status \in {"failed", "completed_empty"}
        BY <1>1, <1>2, <1>3, EndedCommits
  <1>4. CASE r.status = "waiting_human_review" /\ r.review # {}
    <2>1. waiting.status = "waiting_human_review"
          BY <1>2, <1>4 DEF CreatedRow, RunRow
    <2> HIDE DEF waiting
    <2> QED BY <1>1, <1>4, <2>1, GoingOnCommits DEF Ready
  <1>5. CASE r.status = "waiting_human_review" /\ r.review = {}
    <2>1. /\ \A d \in Cores : txn'[d] = Idle
          /\ \A x \in Targets : article'[x] = ArticleSeen(t, x)
          /\ quality' = quality
          BY <1>1, CommitSees DEF Ready, agentVars
    <2>2. \A x \in Targets : ArticleSeen(t, x) \notin OnDesk
          BY <1>5 DEF Ready, DeskOpen, DeskIs
    <2>3. \A x \in Targets : ArticleSeen(t, x) \in RunArticleStatus
          BY DEF StatusInv, ArticleSeen, ArticleWrites, RunArticleStatus, Unwritten
    <2>4. \A x \in Targets : ArticleSeen(t, x) \in {"absent", "draft", "scored"}
          BY <2>2, <2>3 DEF OnDesk, RunArticleStatus
    <2>5. \A x \in Targets : quality[x] # "none" =>
                ArticleSeen(t, x) \notin {"absent", "draft"}
          BY <1>1, <1>2, <1>5 DEF EndOpen
    <2> QED BY <2>1, <2>4, <2>5, IdleSees DEF EndInv, EndClosed, EndOpen
  <1>6. r.status \in {"failed", "completed_empty", "waiting_human_review"}
        BY <1>1 DEF Ready, BarrierOpen, Walking, Stages
  <1> QED BY <1>3, <1>4, <1>5, <1>6

\* People decide about no article of a run that goes on, nor about one that a
\* run has left behind.
LEMMA OutsideEnd ==
    ASSUME Inv, DeskInv, StatusInv, EndInv, OutsideStep
    PROVE  EndInv'
  <1>1. CASE UNCHANGED <<run, article, quality, txn>>
        BY <1>1 DEF EndInv, EndClosed, EndOpen, ArticleSeen, Over
  <1>2. ASSUME NEW x \in Targets, NEW to \in {"approved", "rejected"},
               ReviewArticle(x, to)
        PROVE  EndInv'
    <2>1. article[x] = "pending_review"
      <3>1. /\ article[x] \in {"draft", "scored", "pending_review", "approved", "rejected"}
            /\ to \in articleTransitions[article[x]]
            BY <1>2 DEF ReviewArticle, StatusInv, RunArticleStatus, CanArticleTransition
      <3> QED BY <3>1 DEF articleTransitions
    <2>2. run.status \notin {"absent", "queued", "running"} /\ ~Over
          BY <2>1 DEF DeskInv, DeskClosed, EndInv, EndClosed
    <2>3. \A d \in Cores : txn[d] = Idle
          BY <2>2 DEF Inv, LockInv, OpenWhileActive, BlankWhenIdle
    <2> QED BY <1>2, <2>2, <2>3, IdleSees
            DEF ReviewArticle, EndInv, EndClosed, EndOpen, Over
  <1> QED BY <1>1, <1>2 DEF OutsideStep, RejectTopic, TransitionWritten, agentVars

\* Agents have nothing to do once the run has ended, nor at its last stage.
LEMMA AgentEnd ==
    ASSUME Inv, ~RetriesAfterFailure, ResultsInv, BarrierInv, EndInv, AgentStep
    PROVE  EndInv'
  <1>1. PICK j \in Jobs : Deliverable(j)
    <2>1. /\ \A s \in Sources : <<"source_fetch", s>> \in Jobs
          /\ ScoutJob \in Jobs
          /\ \A u \in Topics : <<"topic_evaluate", u>> \in Jobs
          /\ \A x \in Targets : /\ <<"article_write", x>> \in Jobs
                                /\ <<"article_evaluate", x>> \in Jobs
          BY DEF Jobs
    <2> QED BY <2>1 DEF AgentStep, FetchItems, ProposeTopic, EvaluateTopic,
               WriteArticle, EvaluateArticle, ReportSuccess, ReportFailure
  <1>2. ~Over
    <2>1. PICK r, t : r = run /\ t = Idle
          OBVIOUS
    <2>2. ~Drained(t)
          BY <1>1, <2>1, DeliverableIsOpen DEF BarrierInv, BarrierClosed
    <2> QED BY <2>1, <2>2 DEF BarrierInv, BarrierClosed, Settled, Over
  <1>3. ASSUME NEW c \in Cores PROVE txn[c].at # "human_review"
    <2>1. CASE Reconciling(c)
      <3>1. PICK r, t : t = txn[c] /\ r = t.run
            OBVIOUS
      <3>2. Whole(r, t) /\ Walking(t)
            BY <2>1, <3>1 DEF BarrierInv, BarrierOpen
      <3>3. ~Drained(t)
            BY <1>1, <3>2, DeliverableIsOpen
      <3> QED BY <3>1, <3>2, <3>3 DEF Walking, Stages
    <2> QED BY <2>1 DEF Reconciling
  <1>4. UNCHANGED <<run, txn>>
        BY DEF AgentStep, FetchItems, ProposeTopic, EvaluateTopic, WriteArticle,
           EvaluateArticle, ReportSuccess, ReportFailure
  <1> QED BY <1>2, <1>3, <1>4 DEF EndInv, EndClosed, EndOpen, Over

LEMMA EndNext ==
    ASSUME ~RetriesAfterFailure, Inv, LineInv, TablesInv, BarrierInv, StatusInv, EndInv,
           [Next]_vars
    PROVE  EndInv'
  <1>1. TypeOK /\ OpenRows /\ ResultsInv /\ DeskInv
        BY DEF Inv, LockInv, TablesInv
  <1>2. CASE UNCHANGED vars
        BY <1>2 DEF vars, agentVars, EndInv, EndClosed, EndOpen, ArticleSeen, Over
  <1>3. ASSUME NEW S \in SUBSET Sources, CreateContentRun(S)
        PROVE  EndInv'
    <2>1. \A x \in Targets : article[x] = "absent" /\ quality[x] = "none"
      <3>1. \A j \in Jobs : j \notin succeeded
            BY <1>1, <1>3 DEF CreateContentRun, Inv, SendInv, NothingBeforeCreation,
               ResultsInv, Answered, TypeOK
      <3> QED BY <1>1, <3>1 DEF ResultsInv, TypeOK
    <2>2. \A d \in Cores : txn[d] = Idle
          BY <1>3 DEF CreateContentRun, Inv, LockInv, OpenWhileActive, BlankWhenIdle
    <2> QED BY <1>3, <2>1, <2>2, IdleSees
            DEF CreateContentRun, EndInv, EndClosed, EndOpen, agentVars
  <1>4. ASSUME NEW c \in Cores, BeginReconcile(c)
        PROVE  EndInv'
    <2>1. /\ txn'[c].at = "source_fetch" /\ \A d \in Cores : d # c => txn'[d] = txn[d]
          /\ UNCHANGED <<run, article, quality>>
          BY <1>1, <1>4 DEF BeginReconcile, TypeOK, Txn, agentVars
    <2> QED BY <2>1 DEF EndInv, EndClosed, EndOpen, ArticleSeen, Over
  <1>5. ASSUME NEW c \in Cores, ReconcileStage(c)
        PROVE  EndInv'
    <2>1. Reconciling(c)
          BY <1>5 DEF ReconcileStage, ReconcileSourceFetch, ReconcileTopicScout,
             ReconcileTopicEvaluate, ReconcileArticleWrite, ReconcileArticleEvaluate,
             ReconcileHumanReview, Reconciling
    <2>2. run.status \in {"queued", "running"}
          BY <2>1 DEF Inv, LockInv, OpenWhileActive, Reconciling
    <2>3. Ready(c)
          BY <1>1, <2>1, <2>2 DEF Ready, LineInv, DeskInv, DeskClosed, BarrierInv
    <2> QED BY <1>5, <2>3, EarlyStagesEnd, ArticleEvaluateEnd, HumanReviewEnd
            DEF ReconcileStage
  <1> QED BY <1>1, <1>2, <1>3, <1>4, <1>5, AgentEnd, OutsideEnd, RollbackEnd
          DEF Next, CoreStep, CrashInReconcile

LEMMA EndInit == Init => EndInv
  BY IdleSees DEF Init, EndInv, EndClosed, EndOpen, Over, NoRun

-----------------------------------------------------------------------------
(* All that is known of the run itself.                                     *)

RunInv ==
    /\ Inv /\ LineInv /\ TablesInv /\ StatusInv
    /\ ~RetriesAfterFailure => BarrierInv /\ EndInv

LEMMA RunInit == Init => RunInv
  BY InitInv, LineInit, TablesInit, StatusInit, BarrierInit, EndInit DEF RunInv

LEMMA RunNext ==
    ASSUME RunInv, [Next]_vars
    PROVE  RunInv'
  <1>1. Inv' /\ LineInv' /\ TablesInv'
        BY NextInv, LineNext, TablesNext DEF RunInv
  <1>2. StatusInv'
        BY StatusNext DEF RunInv, Inv
  <1>3. ~RetriesAfterFailure => BarrierInv' /\ EndInv'
        BY BarrierNext, EndNext DEF RunInv
  <1> QED BY <1>1, <1>2, <1>3 DEF RunInv

-----------------------------------------------------------------------------
(* The invariant of the harvester.                                          *)

WriteJob(a) == <<"article_write", a>>
JudgeJob(a) == <<"article_evaluate", a>>

\* Whether the topics and articles are the harvester's.
HandedOver == Over \/ (run.status = "absent" /\ proposed # <<>>)

HType ==
    /\ proposed \in Seq(Topics)
    /\ approvals \in Seq(Topics)
    /\ keys \subseteq HarvestJobs
    /\ dispatched = [j \in HarvestJobs |-> IF j \in keys THEN 1 ELSE 0]
    /\ done \subseteq keys
    /\ lost \subseteq keys
    /\ rewrite \in [Rewrites -> ArticleStatus \cup {"absent"}]
    /\ judged \in [Rewrites -> {"none", "pass", "low"}]
    /\ tick \in [Cores -> [at : DOMAIN NextScan, rows : SUBSET Row]]

\* Until then it has done nothing.
Untouched ==
    /\ approvals = <<>> /\ keys = {} /\ done = {} /\ lost = {}
    /\ \A a \in Rewrites : rewrite[a] = "absent" /\ judged[a] = "none"
    /\ \A c \in Cores : tick[c].rows = {}

\* The statuses of a topic that nobody has been asked to write.
Early == {"absent", "candidate", "scored", "approved"}

\* Who writes a first version, the run or the harvester, does so once the topic
\* has left the early statuses, and never both.
FirstVersion(x) ==
    /\ topic[x[1]] \in Early =>
           /\ sent[<<"article_write", x>>] = 0
           /\ WriteJob(<<x, 1>>) \notin keys
           /\ article[x] = "absent"
    /\ sent[<<"article_write", x>>] > 0 => WriteJob(<<x, 1>>) \notin keys
    /\ article[x] # "absent" =>
           \/ <<"article_write", x>> \in succeeded
           \/ WriteJob(<<x, 1>>) \in done

\* A version whose writer has yet to answer is not there, and every version
\* above the first has been asked for.
Written(a) ==
    /\ WriteJob(a) \in keys \ done => StatusOf(a) = "absent"
    /\ a[2] > 1 /\ StatusOf(a) # "absent" => WriteJob(a) \in done

\* A version has made room for every version that was asked for after it, and
\* those that have made room have a successor.
InSequence(x) ==
    /\ \A v, w \in 1..maxArticleVersion :
           v < w /\ WriteJob(<<x, w>>) \in keys =>
               StatusOf(<<x, v>>) = "rewrite_queued"
    /\ \A v \in 1..maxArticleVersion :
           StatusOf(<<x, v>>) = "rewrite_queued" =>
               v < maxArticleVersion /\ WriteJob(<<x, v + 1>>) \in keys

\* A topic found approved is so still, or all its writers have their jobs.
Approved(c) ==
    \A t \in Topics :
        tick[c].at = "enqueueWriting" /\ <<t, "none">> \in tick[c].rows =>
            \/ topic[t] = "approved"
            \/ \A x \in TargetsOf({t}) : WriteJob(<<x, 1>>) \in keys

WorkInv ==
    /\ \A x \in Targets : FirstVersion(x) /\ InSequence(x)
    /\ \A a \in Articles : Written(a)
    /\ \A c \in Cores : Approved(c)

\* An article is a draft until its evaluation is there, is on the desk for a
\* reason, and is what a scan found of it.
Judged(a) ==
    /\ JudgeJob(a) \in keys => StatusOf(a) # "absent"
    /\ JudgeJob(a) \in keys \ (done \cup lost) => StatusOf(a) = "draft"
    /\ QualityOf(a) # "none" =>
           \/ JudgeJob(a) \in done
           \/ JudgeJob(a) \notin keys /\ StatusOf(a) \notin {"absent", "draft"}
    /\ StatusOf(a) \in {"pending_review", "approved"} =>
           QualityOf(a) = "pass" \/ a[2] = maxArticleVersion
    /\ \A c \in Cores :
           /\ tick[c].at = "enqueueArticleEvaluations" /\ <<a, "none">> \in tick[c].rows
                  => StatusOf(a) = "draft" \/ JudgeJob(a) \in keys
           /\ \A q \in {"pass", "low"} :
                  /\ tick[c].at \in {"transitionArticleEvaluations", "decideScoredArticles"}
                  /\ <<a, q>> \in tick[c].rows
                  => StatusOf(a) # "absent" /\ QualityOf(a) = q

\* Nobody answers for the run any more.
JudgeInv ==
    /\ \A j \in Jobs : sent[j] > 0 => j \in Answered
    /\ \A a \in Articles : Judged(a)

HInv ==
    /\ Inv /\ HType /\ WorkInv
    /\ ~HandedOver => RunInv /\ Untouched
    /\ HandedOver /\ ~RetriesAfterFailure => JudgeInv

-----------------------------------------------------------------------------
(* Articles of any version.                                                 *)

LEMMA ArticleIs ==
    ASSUME NEW a \in Articles
    PROVE  /\ a[1] \in Targets /\ a[2] \in 1..maxArticleVersion /\ a = <<a[1], a[2]>>
           /\ a[1][1] \in Topics
           /\ a[2] # 1 => a \in Rewrites
  BY HarvesterAssumption DEF Articles, Rewrites, Targets

LEMMA TargetIs ==
    ASSUME NEW x \in Targets
    PROVE  /\ x[1] \in Topics /\ x \in TargetsOf({x[1]})
           /\ <<"article_write", x>> \in Jobs /\ <<"article_evaluate", x>> \in Jobs
           /\ \A v \in 1..maxArticleVersion :
                  <<x, v>> \in Articles /\ (v # 1 => <<x, v>> \in Rewrites)
           /\ 1 \in 1..maxArticleVersion
  BY HarvesterAssumption DEF Articles, Rewrites, Targets, TargetsOf, Jobs

LEMMA HarvestJobsAre ==
    /\ \A t \in Topics : <<"topic_evaluate", t>> \in HarvestJobs
    /\ \A a \in Articles : WriteJob(a) \in HarvestJobs /\ JudgeJob(a) \in HarvestJobs
    /\ \A a, b : /\ WriteJob(a) = WriteJob(b) => a = b
                 /\ JudgeJob(a) = JudgeJob(b) => a = b
                 /\ WriteJob(a) # JudgeJob(b)
                 /\ WriteJob(a) # <<"topic_evaluate", b>>
                 /\ JudgeJob(a) # <<"topic_evaluate", b>>
  BY DEF HarvestJobs, WriteJob, JudgeJob

LEMMA StatusType ==
    ASSUME TypeOK, HType, NEW a \in Articles
    PROVE  /\ StatusOf(a) \in ArticleStatus \cup {"absent"}
           /\ QualityOf(a) \in {"none", "pass", "low"}
  BY ArticleIs DEF TypeOK, HType, StatusOf, QualityOf

\* The status of one article is set, and that of no other.
LEMMA SetStatusIs ==
    ASSUME TypeOK, HType, NEW a \in Articles, NEW to, SetStatus(a, to)
    PROVE  /\ StatusOf(a)' = to
           /\ \A b \in Articles : b # a => StatusOf(b)' = StatusOf(b)
           /\ to \in ArticleStatus \cup {"absent"} =>
                  /\ article' \in [Targets -> ArticleStatus \cup {"absent"}]
                  /\ rewrite' \in [Rewrites -> ArticleStatus \cup {"absent"}]
  <1>1. article \in [Targets -> ArticleStatus \cup {"absent"}]
        BY DEF TypeOK
  <1>2. rewrite \in [Rewrites -> ArticleStatus \cup {"absent"}]
        BY DEF HType
  <1>3. \A b \in Articles : /\ b[1] \in Targets /\ (b[2] # 1 => b \in Rewrites)
                            /\ b = <<b[1], b[2]>>
        BY ArticleIs
  <1>4. CASE a[2] = 1
    <2>1. article' = [article EXCEPT ![a[1]] = to] /\ rewrite' = rewrite
          BY <1>4 DEF SetStatus
    <2>2. \A b \in Articles : b # a /\ b[2] = 1 => b[1] # a[1]
          BY <1>3, <1>4
    <2> QED BY <1>1, <1>2, <1>3, <1>4, <2>1, <2>2 DEF StatusOf
  <1>5. CASE a[2] # 1
    <2>1. rewrite' = [rewrite EXCEPT ![a] = to] /\ article' = article
          BY <1>5 DEF SetStatus
    <2> QED BY <1>1, <1>2, <1>3, <1>5, <2>1 DEF StatusOf
  <1> QED BY <1>4, <1>5

\* The same for its evaluation.
LEMMA SetQualityIs ==
    ASSUME TypeOK, HType, NEW a \in Articles, NEW q, SetQuality(a, q)
    PROVE  /\ QualityOf(a)' = q
           /\ \A b \in Articles : b # a => QualityOf(b)' = QualityOf(b)
           /\ q \in {"none", "pass", "low"} =>
                  /\ quality' \in [Targets -> {"none", "pass", "low"}]
                  /\ judged' \in [Rewrites -> {"none", "pass", "low"}]
  <1>1. quality \in [Targets -> {"none", "pass", "low"}]
        BY DEF TypeOK
  <1>2. judged \in [Rewrites -> {"none", "pass", "low"}]
        BY DEF HType
  <1>3. \A b \in Articles : /\ b[1] \in Targets /\ (b[2] # 1 => b \in Rewrites)
                            /\ b = <<b[1], b[2]>>
        BY ArticleIs
  <1>4. CASE a[2] = 1
    <2>1. quality' = [quality EXCEPT ![a[1]] = q] /\ judged' = judged
          BY <1>4 DEF SetQuality
    <2>2. \A b \in Articles : b # a /\ b[2] = 1 => b[1] # a[1]
          BY <1>3, <1>4
    <2> QED BY <1>1, <1>2, <1>3, <1>4, <2>1, <2>2 DEF QualityOf
  <1>5. CASE a[2] # 1
    <2>1. judged' = [judged EXCEPT ![a] = q] /\ quality' = quality
          BY <1>5 DEF SetQuality
    <2> QED BY <1>1, <1>2, <1>3, <1>5, <2>1 DEF QualityOf
  <1> QED BY <1>4, <1>5

\* The status of an article moves from one to another, if it still is that one.
LEMMA TransitionIs ==
    ASSUME TypeOK, HType, NEW a \in Articles, NEW from \in ArticleStatus,
           NEW to \in ArticleStatus, TransitionArticle(a, from, to)
    PROVE  /\ StatusOf(a)' = IF StatusOf(a) = from THEN to ELSE StatusOf(a)
           /\ \A b \in Articles : b # a => StatusOf(b)' = StatusOf(b)
           /\ article' \in [Targets -> ArticleStatus \cup {"absent"}]
           /\ rewrite' \in [Rewrites -> ArticleStatus \cup {"absent"}]
  <1>1. PICK s : s = IF StatusOf(a) = from THEN to ELSE StatusOf(a)
        OBVIOUS
  <1>2. SetStatus(a, s) /\ s \in ArticleStatus \cup {"absent"}
        BY <1>1, StatusType DEF TransitionArticle
  <1> QED BY <1>1, <1>2, SetStatusIs

-----------------------------------------------------------------------------
(* What the scans find.                                                     *)

\* A query with a limit finds some of its rows.
LEMMA SomeOfIs ==
    ASSUME NEW all, NEW limit, NEW rows \in SomeOf(all, limit)
    PROVE  rows \subseteq all
  BY DEF SomeOf

LEMMA FoundIs ==
    ASSUME TypeOK, HType, NEW scan \in DOMAIN NextScan, NEW rows \in Found(scan)
    PROVE  /\ rows \subseteq Row
           /\ \A t \in Topics :
                  scan = "enqueueWriting" /\ <<t, "none">> \in rows =>
                      topic[t] = "approved"
           /\ \A a \in Articles : \A q \in {"none", "pass", "low"} :
                  /\ scan = "enqueueArticleEvaluations" /\ <<a, q>> \in rows =>
                         StatusOf(a) = "draft"
                  /\ /\ scan \in {"transitionArticleEvaluations", "decideScoredArticles"}
                     /\ <<a, q>> \in rows
                     => StatusOf(a) \in {"draft", "scored"} /\ QualityOf(a) = q
  <1> USE DEF Row
  <1>1. CASE ~NoActiveRun \/ scan = "idle"
        BY <1>1 DEF Found
  <1>2. CASE NoActiveRun /\ scan = "enqueueEvaluations"
        BY <1>2 DEF Found, PendingCandidates, FirstOf, TopicsIn
  <1>3. CASE NoActiveRun /\ scan = "transitionScored"
    <2>1. rows \subseteq ScoredTopicsWithoutTransition
          BY <1>3, SomeOfIs DEF Found
    <2> QED BY <1>3, <2>1 DEF ScoredTopicsWithoutTransition, TopicsIn, TypeOK
  <1>4. CASE NoActiveRun /\ scan = "enqueueWriting"
        BY <1>4 DEF Found, PendingApprovedTopics, FirstOf, TopicsIn
  <1>5. CASE NoActiveRun /\ scan = "enqueueArticleEvaluations"
        BY <1>5 DEF Found, DraftArticlesPendingEvaluation, FirstOf, ArticlesIn
  <1>6. CASE NoActiveRun /\ scan = "transitionArticleEvaluations"
    <2>1. rows \subseteq ArticleEvaluationsWithoutTransition
          BY <1>6, SomeOfIs DEF Found
    <2> QED BY <1>6, <2>1, StatusType
            DEF ArticleEvaluationsWithoutTransition, Evaluated, ArticlesIn
  <1>7. CASE NoActiveRun /\ scan = "decideScoredArticles"
    <2>1. rows \subseteq ScoredArticlesWithoutDecision
          BY <1>7, SomeOfIs DEF Found
    <2> QED BY <1>7, <2>1, StatusType
            DEF ScoredArticlesWithoutDecision, Evaluated, ArticlesIn
  <1> QED BY <1>1, <1>2, <1>3, <1>4, <1>5, <1>6, <1>7 DEF NextScan

\* A scan changes one instance's tick.
LEMMA ScanIs ==
    ASSUME TypeOK, HType, NEW c \in Cores, Scan(c)
    PROVE  \E scan \in DOMAIN NextScan, rows \in SUBSET Row :
               /\ rows \in Found(scan) /\ tick'[c].at = scan /\ tick'[c].rows = rows
               /\ \A d \in Cores : d # c => tick'[d] = tick[d]
               /\ tick' \in [Cores -> [at : DOMAIN NextScan, rows : SUBSET Row]]
  <1>1. PICK scan : scan = NextScan[tick[c].at]
        OBVIOUS
  <1>2. scan \in DOMAIN NextScan
        BY <1>1 DEF HType, NextScan
  <1>3. PICK rows \in Found(scan) :
            tick' = [tick EXCEPT ![c] = [at |-> scan, rows |-> rows]]
        BY <1>1 DEF Scan
  <1>4. rows \in SUBSET Row
        BY <1>2, FoundIs
  <1> HIDE DEF Found, Row, NextScan
  <1> QED BY <1>2, <1>3, <1>4 DEF HType

\* Rows are only taken away.
TicksKept ==
    \A c \in Cores : \A r \in tick'[c].rows :
        tick'[c].at = tick[c].at /\ r \in tick[c].rows

LEMMA TakeUpIs ==
    ASSUME HType, NEW c \in Cores, NEW scan, NEW row, TakeUp(c, scan, row)
    PROVE  /\ tick[c].at = scan /\ row \in tick[c].rows
           /\ TicksKept
           /\ tick' \in [Cores -> [at : DOMAIN NextScan, rows : SUBSET Row]]
  <1>1. tick' = [tick EXCEPT ![c].rows = tick[c].rows \ {row}]
        BY DEF TakeUp
  <1>2. tick \in [Cores -> [at : DOMAIN NextScan, rows : SUBSET Row]]
        BY DEF HType
  <1> HIDE DEF Row, NextScan
  <1> QED BY <1>1, <1>2 DEF TakeUp, TicksKept

LEMMA CrashIs ==
    ASSUME HType, NEW c \in Cores, Crash(c)
    PROVE  /\ TicksKept
           /\ \A d \in Cores : tick'[d].rows \subseteq tick[d].rows
           /\ tick' \in [Cores -> [at : DOMAIN NextScan, rows : SUBSET Row]]
  <1>1. tick' = [tick EXCEPT ![c] = NotTicking]
        BY DEF Crash
  <1>2. tick \in [Cores -> [at : DOMAIN NextScan, rows : SUBSET Row]]
        BY DEF HType
  <1>3. NotTicking \in [at : DOMAIN NextScan, rows : SUBSET Row] /\ NotTicking.rows = {}
        BY DEF NotTicking, NextScan
  <1> HIDE DEF Row, NextScan, NotTicking
  <1> QED BY <1>1, <1>2, <1>3 DEF TicksKept

\* A job is recorded and sent together, and once.
LEMMA DispatchIs ==
    ASSUME HType, NEW jobs \in SUBSET HarvestJobs, Dispatch(jobs)
    PROVE  /\ keys' = keys \cup jobs /\ keys' \subseteq HarvestJobs
           /\ dispatched' = [j \in HarvestJobs |-> IF j \in keys' THEN 1 ELSE 0]
  BY DEF HType, Dispatch

LEMMA OpenIs ==
    ASSUME HType, NEW j
    PROVE  j \in HarvestJobs => (Open(j) <=> j \in keys \ (done \cup lost))
  BY DEF HType, Open

-----------------------------------------------------------------------------
(* Writing: what a step that asks for no version, writes none and gives none *)
(* up leaves as it is, and the steps that do.                               *)

LEMMA WorkSame ==
    ASSUME WorkInv, UNCHANGED sent, succeeded \subseteq succeeded',
           \A a \in Articles : /\ WriteJob(a) \in keys' <=> WriteJob(a) \in keys
                               /\ WriteJob(a) \in done' <=> WriteJob(a) \in done
                               /\ StatusOf(a)' = "absent" <=> StatusOf(a) = "absent"
                               /\ StatusOf(a)' = "rewrite_queued" <=>
                                      StatusOf(a) = "rewrite_queued",
           \A t \in Topics : /\ topic'[t] \in Early => topic[t] \in Early
                             /\ topic[t] = "approved" => topic'[t] = "approved",
           \A c \in Cores, t \in Topics :
               tick'[c].at = "enqueueWriting" /\ <<t, "none">> \in tick'[c].rows =>
                   \/ topic[t] = "approved"
                   \/ tick[c].at = "enqueueWriting" /\ <<t, "none">> \in tick[c].rows
    PROVE  WorkInv'
  <1>1. \A x \in Targets : /\ StatusOf(<<x, 1>>) = article[x]
                           /\ StatusOf(<<x, 1>>)' = article'[x]
        BY DEF StatusOf
  <1>2. ASSUME NEW x \in Targets PROVE FirstVersion(x)'
        BY <1>1, TargetIs DEF WorkInv, FirstVersion
  <1>3. ASSUME NEW x \in Targets PROVE InSequence(x)'
    <2>1. ASSUME NEW v \in 1..maxArticleVersion, NEW w \in 1..maxArticleVersion,
                 v < w, WriteJob(<<x, w>>)' \in keys'
          PROVE  StatusOf(<<x, v>>)' = "rewrite_queued"
          BY <2>1, TargetIs DEF WorkInv, InSequence, WriteJob
    <2>2. ASSUME NEW v \in 1..maxArticleVersion, StatusOf(<<x, v>>)' = "rewrite_queued"
          PROVE  v < maxArticleVersion /\ WriteJob(<<x, v + 1>>)' \in keys'
      <3>1. v < maxArticleVersion /\ WriteJob(<<x, v + 1>>) \in keys
            BY <2>2, TargetIs DEF WorkInv, InSequence
      <3>2. <<x, v + 1>> \in Articles
            BY <3>1, HarvesterAssumption DEF Articles
      <3> QED BY <3>1, <3>2 DEF WriteJob
    <2> QED BY <2>1, <2>2 DEF InSequence
  <1>4. ASSUME NEW a \in Articles PROVE Written(a)'
        BY DEF WorkInv, Written, WriteJob
  <1>5. ASSUME NEW c \in Cores PROVE Approved(c)'
    <2>1. ASSUME NEW t \in Topics, tick'[c].at = "enqueueWriting",
                 <<t, "none">> \in tick'[c].rows
          PROVE  \/ topic'[t] = "approved"
                 \/ \A x \in TargetsOf({t}) : WriteJob(<<x, 1>>)' \in keys'
      <3>1. \A x \in TargetsOf({t}) : <<x, 1>> \in Articles
            BY TargetIs DEF TargetsOf
      <3>2. \/ topic[t] = "approved"
            \/ \A x \in TargetsOf({t}) : WriteJob(<<x, 1>>) \in keys
            BY <2>1 DEF WorkInv, Approved
      <3> QED BY <3>1, <3>2 DEF WriteJob
    <2> QED BY <2>1 DEF Approved, TargetsOf, Targets
  <1> QED BY <1>2, <1>3, <1>4, <1>5 DEF WorkInv

\* A version is written.
LEMMA WorkWrites ==
    ASSUME WorkInv, NEW a \in Articles, StatusOf(a) = "absent", StatusOf(a)' = "draft",
           \A b \in Articles : b # a => StatusOf(b)' = StatusOf(b),
           topic[a[1][1]] \notin Early,
           UNCHANGED <<sent, keys, topic, tick>>,
           done \subseteq done', succeeded \subseteq succeeded',
           WriteJob(a) \in keys \/ a[2] > 1 => WriteJob(a) \in done',
           a[2] = 1 => \/ <<"article_write", a[1]>> \in succeeded'
                       \/ WriteJob(a) \in done'
    PROVE  WorkInv'
  <1>1. \A x \in Targets : /\ StatusOf(<<x, 1>>) = article[x]
                           /\ StatusOf(<<x, 1>>)' = article'[x]
        BY DEF StatusOf
  <1>2. ASSUME NEW x \in Targets PROVE FirstVersion(x)'
    <2>1. CASE <<x, 1>> = a
          BY <1>1, <2>1 DEF WorkInv, FirstVersion, WriteJob
    <2>2. CASE <<x, 1>> # a
      <3>1. article'[x] = article[x]
            BY <1>1, <2>2, TargetIs
      <3> QED BY <3>1 DEF WorkInv, FirstVersion, WriteJob
    <2> QED BY <2>1, <2>2
  <1>3. ASSUME NEW x \in Targets PROVE InSequence(x)'
    <2>1. ASSUME NEW v \in 1..maxArticleVersion, NEW w \in 1..maxArticleVersion,
                 v < w, WriteJob(<<x, w>>)' \in keys'
          PROVE  StatusOf(<<x, v>>)' = "rewrite_queued"
      <3>1. StatusOf(<<x, v>>) = "rewrite_queued"
            BY <2>1 DEF WorkInv, InSequence, WriteJob
      <3> QED BY <3>1, TargetIs
    <2>2. ASSUME NEW v \in 1..maxArticleVersion, StatusOf(<<x, v>>)' = "rewrite_queued"
          PROVE  v < maxArticleVersion /\ WriteJob(<<x, v + 1>>)' \in keys'
      <3>1. StatusOf(<<x, v>>) = "rewrite_queued"
            BY <2>2, TargetIs
      <3> QED BY <3>1 DEF WorkInv, InSequence, WriteJob
    <2> QED BY <2>1, <2>2 DEF InSequence
  <1>4. ASSUME NEW b \in Articles PROVE Written(b)'
        BY DEF WorkInv, Written, WriteJob
  <1>5. ASSUME NEW c \in Cores PROVE Approved(c)'
        BY DEF WorkInv, Approved, WriteJob
  <1> QED BY <1>2, <1>3, <1>4, <1>5 DEF WorkInv

\* The first versions of a topic are asked for.
LEMMA WorkAsks ==
    ASSUME TypeOK, HType, WorkInv, NEW c \in Cores, NEW t \in Topics,
           enqueueTopicWriting(c, t)
    PROVE  WorkInv'
  <1> DEFINE jobs == {<<"article_write", <<x, 1>>>> : x \in TargetsOf({t})}
  <1>1. /\ tick[c].at = "enqueueWriting" /\ <<t, "none">> \in tick[c].rows /\ TicksKept
        BY TakeUpIs DEF enqueueTopicWriting
  <1>2. /\ UNCHANGED <<sent, article, rewrite, succeeded, done>>
        /\ \A a \in Articles : StatusOf(a)' = StatusOf(a)
        BY DEF enqueueTopicWriting, agentVars, StatusOf
  <1>3. \A a \in Articles : WriteJob(a) \in jobs <=> a[2] = 1 /\ a[1][1] = t
    <2>1. ASSUME NEW a \in Articles, WriteJob(a) \in jobs
          PROVE  a[2] = 1 /\ a[1][1] = t
          BY <2>1 DEF WriteJob, TargetsOf
    <2>2. ASSUME NEW a \in Articles, a[2] = 1, a[1][1] = t
          PROVE  WriteJob(a) \in jobs
      <3>1. a = <<a[1], 1>> /\ a[1] \in TargetsOf({t})
            BY <2>2, ArticleIs DEF TargetsOf
      <3> QED BY <3>1 DEF WriteJob
    <2> QED BY <2>1, <2>2
  <1>4. CASE TargetPlatforms[t] = {} \/ topic[t] # "approved"
    <2>1. ASSUME NEW a \in Articles
          PROVE  WriteJob(a) \in keys' <=> WriteJob(a) \in keys
      <3>1. CASE TargetPlatforms[t] = {}
            BY <3>1 DEF enqueueTopicWriting
      <3>2. CASE TargetPlatforms[t] # {} /\ topic[t] # "approved"
        <4>1. \A x \in TargetsOf({t}) : WriteJob(<<x, 1>>) \in keys
              BY <1>1, <3>2 DEF WorkInv, Approved
        <4>2. jobs \subseteq keys
              BY <4>1 DEF WriteJob
        <4>3. keys' = keys \cup jobs
              BY <3>2 DEF enqueueTopicWriting, Dispatch
        <4> QED BY <4>2, <4>3
      <3> QED BY <1>4, <3>1, <3>2
    <2>2. topic' = topic
          BY <1>4 DEF enqueueTopicWriting, TransitionTopic, TypeOK
    <2> HIDE DEF jobs
    <2> QED BY <1>1, <1>2, <2>1, <2>2, WorkSame DEF TicksKept
  <1>5. CASE TargetPlatforms[t] # {} /\ topic[t] = "approved"
    <2>1. /\ keys' = keys \cup jobs
          /\ topic' = [topic EXCEPT ![t] = "in_writing"]
          BY <1>5 DEF enqueueTopicWriting, Dispatch, TransitionTopic
    <2> HIDE DEF jobs
    <2>2. /\ topic'[t] = "in_writing" /\ \A u \in Topics : u # t => topic'[u] = topic[u]
          BY <2>1 DEF TypeOK
    <2>3. \A x \in Targets : x[1] = t =>
              sent[<<"article_write", x>>] = 0 /\ article[x] = "absent"
          BY <1>5 DEF WorkInv, FirstVersion, Early
    <2>4. \A x \in Targets : WriteJob(<<x, 1>>) \in keys' <=>
              WriteJob(<<x, 1>>) \in keys \/ x[1] = t
          BY <1>3, <2>1, TargetIs
    <2>5. ASSUME NEW x \in Targets PROVE FirstVersion(x)'
      <3>1. CASE x[1] = t
            BY <1>2, <2>2, <2>3, <3>1 DEF FirstVersion, Early, TypeOK, Jobs
      <3>2. CASE x[1] # t
            BY <1>2, <2>2, <2>4, <3>2, TargetIs DEF WorkInv, FirstVersion, WriteJob
      <3> QED BY <3>1, <3>2
    <2>6. \A x \in Targets : \A v \in 1..maxArticleVersion :
              v # 1 => (WriteJob(<<x, v>>) \in keys' <=> WriteJob(<<x, v>>) \in keys)
          BY <1>3, <2>1, TargetIs
    <2>7. ASSUME NEW x \in Targets PROVE InSequence(x)'
      <3>1. ASSUME NEW v \in 1..maxArticleVersion, NEW w \in 1..maxArticleVersion,
                   v < w, WriteJob(<<x, w>>) \in keys'
            PROVE  StatusOf(<<x, v>>)' = "rewrite_queued"
        <4>1. WriteJob(<<x, w>>) \in keys
              BY <2>6, <3>1
        <4>2. StatusOf(<<x, v>>) = "rewrite_queued"
              BY <3>1, <4>1 DEF WorkInv, InSequence
        <4> QED BY <1>2, <4>2, TargetIs
      <3>2. ASSUME NEW v \in 1..maxArticleVersion,
                   StatusOf(<<x, v>>)' = "rewrite_queued"
            PROVE  v < maxArticleVersion /\ WriteJob(<<x, v + 1>>) \in keys'
        <4>1. StatusOf(<<x, v>>) = "rewrite_queued"
              BY <1>2, <3>2, TargetIs
        <4> QED BY <2>1, <4>1 DEF WorkInv, InSequence
      <3> QED BY <3>1, <3>2 DEF InSequence, WriteJob
    <2>8. ASSUME NEW a \in Articles PROVE Written(a)'
      <3>1. CASE a[2] = 1 /\ a[1][1] = t
            BY <1>2, <2>3, <3>1, ArticleIs DEF WorkInv, Written, StatusOf
      <3>2. CASE ~(a[2] = 1 /\ a[1][1] = t)
            BY <1>2, <1>3, <2>1, <3>2 DEF WorkInv, Written, WriteJob
      <3> QED BY <3>1, <3>2
    <2>9. ASSUME NEW d \in Cores PROVE Approved(d)'
      <3>1. ASSUME NEW u \in Topics, tick'[d].at = "enqueueWriting",
                   <<u, "none">> \in tick'[d].rows
            PROVE  \/ topic'[u] = "approved"
                   \/ \A x \in TargetsOf({u}) : WriteJob(<<x, 1>>)' \in keys'
        <4>1. CASE u = t
              BY <2>4, <4>1 DEF TargetsOf, WriteJob
        <4>2. CASE u # t
          <5>1. \/ topic[u] = "approved"
                \/ \A x \in TargetsOf({u}) : WriteJob(<<x, 1>>) \in keys
                BY <1>1, <3>1 DEF TicksKept, WorkInv, Approved
          <5> QED BY <2>1, <2>2, <4>2, <5>1 DEF WriteJob
        <4> QED BY <4>1, <4>2
      <3> QED BY <3>1 DEF Approved, TargetsOf, Targets
    <2> QED BY <2>5, <2>7, <2>8, <2>9 DEF WorkInv
  <1> QED BY <1>4, <1>5

\* A version makes room for the next.
LEMMA WorkRewrites ==
    ASSUME TypeOK, HType, WorkInv, NEW c \in Cores, NEW a \in Articles,
           NEW q \in {"pass", "low"}, enqueueArticleRewrite(c, a, q)
    PROVE  WorkInv'
  <1> DEFINE b == <<a[1], a[2] + 1>>
             next == WriteJob(b)
  <1>1. TicksKept /\ UNCHANGED <<sent, topic, succeeded, done>>
        BY TakeUpIs DEF enqueueArticleRewrite, agentVars
  <1>2. /\ a[1] \in Targets /\ a[2] \in 1..maxArticleVersion /\ a = <<a[1], a[2]>>
        /\ a[2] + 1 \in 1..maxArticleVersion /\ b \in Articles
        BY ArticleIs, HarvesterAssumption DEF enqueueArticleRewrite, GoesToReview, Articles
  <1>3. CASE ~(StatusOf(a) = "scored" /\ next \notin keys)
    <2>1. UNCHANGED <<article, rewrite, keys>>
          BY <1>3 DEF enqueueArticleRewrite, WriteJob
    <2> QED BY <1>1, <2>1, WorkSame DEF TicksKept, StatusOf
  <1>4. CASE StatusOf(a) = "scored" /\ next \notin keys
    <2>1. SetStatus(a, "rewrite_queued") /\ keys' = keys \cup {next}
          BY <1>4 DEF enqueueArticleRewrite, RewriteQueued, Dispatch, WriteJob
    <2>2. /\ StatusOf(a)' = "rewrite_queued"
          /\ \A d \in Articles : d # a => StatusOf(d)' = StatusOf(d)
          BY <2>1, SetStatusIs
    <2>3. \A d \in Articles : WriteJob(d) \in keys' <=> WriteJob(d) \in keys \/ d = b
          BY <2>1 DEF WriteJob
    <2>4. ASSUME NEW x \in Targets PROVE FirstVersion(x)'
      <3>1. <<x, 1>> \in Articles /\ <<x, 1>> # b
        <4>1. a[2] + 1 # 1
              BY <1>2
        <4> QED BY <4>1, TargetIs
      <3>2. (article'[x] = "absent" <=> article[x] = "absent")
            BY <1>4, <2>2, <3>1 DEF StatusOf
      <3>3. WriteJob(<<x, 1>>) \in keys' <=> WriteJob(<<x, 1>>) \in keys
            BY <2>3, <3>1
      <3> HIDE DEF next
      <3> QED BY <1>1, <3>2, <3>3 DEF WorkInv, FirstVersion, WriteJob
    <2>5. ASSUME NEW x \in Targets PROVE InSequence(x)'
      <3>1. ASSUME NEW v \in 1..maxArticleVersion, NEW w \in 1..maxArticleVersion,
                   v < w, WriteJob(<<x, w>>) \in keys'
            PROVE  StatusOf(<<x, v>>)' = "rewrite_queued"
        <4>1. <<x, v>> \in Articles /\ <<x, w>> \in Articles
              BY TargetIs
        <4>2. CASE WriteJob(<<x, w>>) \in keys
          <5>1. StatusOf(<<x, v>>) = "rewrite_queued"
                BY <3>1, <4>2 DEF WorkInv, InSequence
          <5> QED BY <1>4, <2>2, <4>1, <5>1
        <4>3. CASE <<x, w>> = b
          <5>1. x = a[1] /\ w = a[2] + 1
                BY <4>3
          <5>2. CASE v = a[2]
                BY <1>2, <2>2, <5>1, <5>2
          <5>3. CASE v < a[2]
            <6>1. WriteJob(a) \in done
                  BY <1>2, <1>4, <5>3 DEF WorkInv, Written
            <6>2. WriteJob(<<x, a[2]>>) \in keys
                  BY <1>2, <5>1, <6>1 DEF HType
            <6>3. StatusOf(<<x, v>>) = "rewrite_queued"
                  BY <1>2, <5>3, <6>2 DEF WorkInv, InSequence
            <6> QED BY <1>4, <2>2, <4>1, <6>3
          <5> QED BY <1>2, <3>1, <5>1, <5>2, <5>3
        <4> QED BY <2>3, <3>1, <4>1, <4>2, <4>3
      <3>2. ASSUME NEW v \in 1..maxArticleVersion,
                   StatusOf(<<x, v>>)' = "rewrite_queued"
            PROVE  v < maxArticleVersion /\ WriteJob(<<x, v + 1>>) \in keys'
        <4>1. <<x, v>> \in Articles
              BY TargetIs
        <4>2. CASE <<x, v>> = a
          <5>1. x = a[1] /\ v = a[2]
                BY <1>2, <4>2
          <5>2. WriteJob(<<x, v + 1>>) = next
                BY <5>1
          <5>3. v < maxArticleVersion
                BY <1>2, <5>1, HarvesterAssumption
          <5> HIDE DEF next
          <5> QED BY <2>1, <5>2, <5>3
        <4>3. CASE <<x, v>> # a
          <5>1. StatusOf(<<x, v>>) = "rewrite_queued"
                BY <2>2, <3>2, <4>1, <4>3
          <5>2. v < maxArticleVersion /\ WriteJob(<<x, v + 1>>) \in keys
                BY <5>1 DEF WorkInv, InSequence
          <5> QED BY <2>1, <5>2
        <4> QED BY <4>2, <4>3
      <3> HIDE DEF next
      <3> QED BY <3>1, <3>2 DEF InSequence, WriteJob
    <2>6. ASSUME NEW d \in Articles PROVE Written(d)'
      <3>1. b # a
            BY <1>2
      <3>2. StatusOf(b) = "absent"
        <4>1. ASSUME StatusOf(b) # "absent" PROVE FALSE
          <5>1. b[2] > 1 /\ b[1] = a[1]
                BY <1>2
          <5>2. WriteJob(b) \in done
                BY <1>2, <4>1, <5>1 DEF WorkInv, Written
          <5> QED BY <1>4, <5>2 DEF HType
        <4> QED BY <4>1
      <3>3. CASE d = b
            BY <1>1, <2>2, <3>1, <3>2, <3>3 DEF WorkInv, Written, WriteJob
      <3>4. CASE d = a
            BY <1>1, <1>4, <2>2, <2>3, <3>1, <3>4 DEF WorkInv, Written, WriteJob
      <3>5. CASE d # a /\ d # b
            BY <1>1, <2>2, <2>3, <3>5 DEF WorkInv, Written, WriteJob
      <3> QED BY <3>3, <3>4, <3>5
    <2>7. ASSUME NEW d \in Cores PROVE Approved(d)'
          BY <1>1, <2>1 DEF TicksKept, WorkInv, Approved, WriteJob
    <2> QED BY <2>4, <2>5, <2>6, <2>7 DEF WorkInv
  <1> QED BY <1>3, <1>4

-----------------------------------------------------------------------------
(* Evaluations: what happens to one article is nothing to another.          *)

LEMMA JudgedSame ==
    ASSUME NEW a \in Articles, Judged(a),
           StatusOf(a)' = StatusOf(a), QualityOf(a)' = QualityOf(a),
           JudgeJob(a) \in keys' <=> JudgeJob(a) \in keys,
           JudgeJob(a) \in done' <=> JudgeJob(a) \in done,
           JudgeJob(a) \in lost => JudgeJob(a) \in lost',
           TicksKept
    PROVE  Judged(a)'
  BY DEF Judged, TicksKept, JudgeJob

\* A version is written: nobody has been asked to evaluate it.
LEMMA JudgedWritten ==
    ASSUME HType, NEW a \in Articles, Judged(a),
           StatusOf(a) = "absent", StatusOf(a)' = "draft", QualityOf(a)' = QualityOf(a),
           UNCHANGED <<keys, lost, tick>>, done \subseteq done'
    PROVE  Judged(a)'
  BY DEF Judged, JudgeJob, HType

\* An article moves on by what a scan found, when its evaluation is there.
LEMMA JudgedMoves ==
    ASSUME HType, NEW a \in Articles, Judged(a), QualityOf(a) # "none",
           StatusOf(a) \notin {"absent", "pending_review", "approved"},
           StatusOf(a)' \in {"scored", "pending_review", "rewrite_queued"},
           StatusOf(a)' = "pending_review" =>
               QualityOf(a) = "pass" \/ a[2] = maxArticleVersion,
           QualityOf(a)' = QualityOf(a),
           JudgeJob(a) \in keys' <=> JudgeJob(a) \in keys,
           UNCHANGED <<done, lost>>, TicksKept
    PROVE  Judged(a)'
  <1>1. JudgeJob(a) \in keys => JudgeJob(a) \in done \cup lost
        BY DEF Judged
  <1>2. JudgeJob(a) \in keys \/ StatusOf(a) # "draft"
        BY DEF Judged, HType
  <1> QED BY <1>1, <1>2 DEF Judged, TicksKept, JudgeJob

\* A person decides about what is on the desk.
LEMMA JudgedDecided ==
    ASSUME NEW a \in Articles, Judged(a), StatusOf(a) = "pending_review",
           StatusOf(a)' \in {"approved", "rejected"}, QualityOf(a)' = QualityOf(a),
           UNCHANGED <<keys, done, lost, tick>>
    PROVE  Judged(a)'
  BY DEF Judged, JudgeJob

-----------------------------------------------------------------------------
(* What a step has to keep of the invariant once all is handed over.        *)

Sound == Inv /\ HType /\ WorkInv

Stands ==
    /\ Inv' /\ HType' /\ WorkInv'
    /\ ~RetriesAfterFailure /\ JudgeInv => JudgeInv'

\* Nothing of the run itself changes, and no rejected topic stirs.
LEMMA RunStandsBy ==
    ASSUME Inv, UNCHANGED <<run, sent, vetoed, txn, raw, succeeded, failed>>,
           topic' \in [Topics -> TopicStatus \cup {"absent"}],
           \A t \in Topics : topic[t] = "rejected" => topic'[t] = "rejected",
           article' \in [Targets -> ArticleStatus \cup {"absent"}],
           verdict' \in [Topics -> {"none", "pass", "low"}],
           quality' \in [Targets -> {"none", "pass", "low"}]
    PROVE  Inv'
  <1>1. TypeOK'
        BY DEF Inv, TypeOK
  <1>2. VetoInv'
        BY DEF Inv, TypeOK, VetoInv, SparesVetoed, VetoIsFinal
  <1> QED BY <1>1, <1>2, BystanderInv

LEMMA RunUnchanged == ASSUME Inv, UNCHANGED vars PROVE Inv'
  BY NextInv DEF vars, agentVars

\* The rows of a scan are as the scan found them.
LEMMA ScanStands ==
    ASSUME Sound, NEW c \in Cores, Scan(c)
    PROVE  Stands
  <1>1. TypeOK
        BY DEF Sound, Inv
  <1>2. UNCHANGED <<vars, proposed, approvals, keys, dispatched, done, lost, rewrite, judged>>
        BY DEF Scan
  <1>3. UNCHANGED <<sent, topic, article, quality, succeeded, failed>>
        BY <1>2 DEF vars, agentVars
  <1>4. PICK scan \in DOMAIN NextScan, rows \in SUBSET Row :
            /\ rows \in Found(scan) /\ tick'[c].at = scan /\ tick'[c].rows = rows
            /\ \A d \in Cores : d # c => tick'[d] = tick[d]
            /\ tick' \in [Cores -> [at : DOMAIN NextScan, rows : SUBSET Row]]
        BY <1>1, ScanIs DEF Sound
  <1>5. Inv'
        BY <1>2, RunUnchanged DEF Sound
  <1>6. HType'
        BY <1>2, <1>4 DEF Sound, HType
  <1>7. \A a \in Articles : /\ StatusOf(a)' = StatusOf(a)
                            /\ QualityOf(a)' = QualityOf(a)
        BY <1>2, <1>3 DEF StatusOf, QualityOf
  <1>8. WorkInv'
    <2>1. \A t \in Topics :
              scan = "enqueueWriting" /\ <<t, "none">> \in rows =>
                  topic[t] = "approved"
          BY <1>1, <1>4, FoundIs DEF Sound
    <2>2. ASSUME NEW d \in Cores, NEW t \in Topics, tick'[d].at = "enqueueWriting",
                 <<t, "none">> \in tick'[d].rows
          PROVE  \/ topic[t] = "approved"
                 \/ tick[d].at = "enqueueWriting" /\ <<t, "none">> \in tick[d].rows
          BY <1>4, <2>1, <2>2
    <2> QED BY <1>2, <1>3, <1>7, <2>2, WorkSame DEF Sound
  <1>9. ASSUME JudgeInv, NEW a \in Articles
        PROVE  Judged(a)'
    <2>1. Judged(a)
          BY <1>9 DEF JudgeInv
    <2>2. \A q \in {"none", "pass", "low"} :
              /\ scan = "enqueueArticleEvaluations" /\ <<a, q>> \in rows =>
                     StatusOf(a) = "draft"
              /\ /\ scan \in {"transitionArticleEvaluations", "decideScoredArticles"}
                 /\ <<a, q>> \in rows
                 => StatusOf(a) \in {"draft", "scored"} /\ QualityOf(a) = q
          BY <1>1, <1>4, FoundIs DEF Sound
    <2>3. ASSUME NEW d \in Cores
          PROVE  /\ tick'[d].at = "enqueueArticleEvaluations" /\ <<a, "none">> \in tick'[d].rows
                        => StatusOf(a) = "draft" \/ JudgeJob(a) \in keys
                 /\ \A q \in {"pass", "low"} :
                        /\ tick'[d].at \in {"transitionArticleEvaluations",
                                            "decideScoredArticles"}
                        /\ <<a, q>> \in tick'[d].rows
                        => StatusOf(a) # "absent" /\ QualityOf(a) = q
          BY <1>4, <2>1, <2>2 DEF Judged
    <2> QED BY <1>2, <1>7, <2>1, <2>3 DEF Judged, JudgeJob
  <1> QED BY <1>3, <1>5, <1>6, <1>8, <1>9 DEF Stands, JudgeInv, Answered

LEMMA CrashStands ==
    ASSUME Sound, NEW c \in Cores, Crash(c)
    PROVE  Stands
  <1>1. UNCHANGED <<vars, proposed, approvals, keys, dispatched, done, lost, rewrite, judged>>
        BY DEF Crash
  <1>2. UNCHANGED <<sent, topic, article, quality, succeeded, failed>>
        BY <1>1 DEF vars, agentVars
  <1>3. TicksKept /\ tick' \in [Cores -> [at : DOMAIN NextScan, rows : SUBSET Row]]
        BY CrashIs DEF Sound
  <1>4. Inv'
        BY <1>1, RunUnchanged DEF Sound
  <1>5. HType'
        BY <1>1, <1>3 DEF Sound, HType
  <1>6. \A a \in Articles : /\ StatusOf(a)' = StatusOf(a)
                            /\ QualityOf(a)' = QualityOf(a)
        BY <1>1, <1>2 DEF StatusOf, QualityOf
  <1>7. WorkInv'
        BY <1>1, <1>2, <1>3, <1>6, WorkSame DEF Sound, TicksKept
  <1>8. ASSUME JudgeInv, NEW a \in Articles PROVE Judged(a)'
        BY <1>1, <1>3, <1>6, <1>8, JudgedSame DEF JudgeInv
  <1> QED BY <1>2, <1>4, <1>5, <1>7, <1>8 DEF Stands, JudgeInv, Answered

-----------------------------------------------------------------------------
(* The transactions, one for each row found.                                *)

LEMMA EnqueueOneStands ==
    ASSUME Sound, NEW c \in Cores, NEW t \in Topics, enqueueOne(c, t)
    PROVE  Stands
  <1> DEFINE job == <<"topic_evaluate", t>>
  <1>1. /\ UNCHANGED <<vars, proposed, approvals, done, lost, rewrite, judged>>
        /\ Dispatch({job})
        BY DEF enqueueOne
  <1>2. UNCHANGED <<sent, topic, article, quality, succeeded, failed>>
        BY <1>1 DEF vars, agentVars
  <1>3. TicksKept /\ tick' \in [Cores -> [at : DOMAIN NextScan, rows : SUBSET Row]]
        BY TakeUpIs DEF Sound, enqueueOne
  <1>4. /\ keys' = keys \cup {job} /\ keys' \subseteq HarvestJobs
        /\ dispatched' = [j \in HarvestJobs |-> IF j \in keys' THEN 1 ELSE 0]
        BY <1>1, HarvestJobsAre, DispatchIs DEF Sound
  <1>5. Inv'
        BY <1>1, RunUnchanged DEF Sound
  <1>6. HType'
        BY <1>1, <1>3, <1>4 DEF Sound, HType
  <1>7. \A a \in Articles : /\ StatusOf(a)' = StatusOf(a)
                            /\ QualityOf(a)' = QualityOf(a)
                            /\ WriteJob(a) \in keys' <=> WriteJob(a) \in keys
                            /\ JudgeJob(a) \in keys' <=> JudgeJob(a) \in keys
        BY <1>1, <1>2, <1>4, HarvestJobsAre DEF StatusOf, QualityOf
  <1>8. WorkInv'
        BY <1>1, <1>2, <1>3, <1>7, WorkSame DEF Sound, TicksKept
  <1>9. ASSUME JudgeInv, NEW a \in Articles PROVE Judged(a)'
        BY <1>1, <1>3, <1>7, <1>9, JudgedSame DEF JudgeInv
  <1> QED BY <1>2, <1>5, <1>6, <1>8, <1>9 DEF Stands, JudgeInv, Answered

LEMMA TransitionScoredStands ==
    ASSUME Sound, NEW c \in Cores, NEW t \in Topics, NEW v \in {"pass", "low"},
           transitionScored(c, t, v)
    PROVE  Stands
  <1>1. UNCHANGED <<run, sent, vetoed, article, agentVars, txn, proposed, approvals,
                    keys, dispatched, done, lost, rewrite, judged>>
        BY DEF transitionScored
  <1>2. TicksKept /\ tick' \in [Cores -> [at : DOMAIN NextScan, rows : SUBSET Row]]
        BY TakeUpIs DEF Sound, transitionScored
  <1>3. /\ topic \in [Topics -> TopicStatus \cup {"absent"}]
        /\ topic' \in [Topics -> TopicStatus \cup {"absent"}]
        /\ \A u \in Topics : \/ topic'[u] = topic[u]
                             \/ topic[u] = "candidate"
        BY DEF transitionScored, TransitionTopic, Sound, Inv, TypeOK, TopicStatus
  <1>4. Inv'
    <2>1. /\ UNCHANGED <<raw, succeeded, failed>>
          /\ article' \in [Targets -> ArticleStatus \cup {"absent"}]
          /\ verdict' \in [Topics -> {"none", "pass", "low"}]
          /\ quality' \in [Targets -> {"none", "pass", "low"}]
          BY <1>1 DEF agentVars, Sound, Inv, TypeOK
    <2> QED BY <1>1, <1>3, <2>1, RunStandsBy DEF Sound
  <1>5. HType'
        BY <1>1, <1>2 DEF Sound, HType
  <1>6. \A a \in Articles : /\ StatusOf(a)' = StatusOf(a)
                            /\ QualityOf(a)' = QualityOf(a)
        BY <1>1 DEF StatusOf, QualityOf, agentVars
  <1>7. WorkInv'
        BY <1>1, <1>2, <1>3, <1>6, WorkSame DEF Sound, TicksKept, Early, agentVars
  <1>8. ASSUME JudgeInv, NEW a \in Articles PROVE Judged(a)'
        BY <1>1, <1>2, <1>6, <1>8, JudgedSame DEF JudgeInv
  <1> QED BY <1>1, <1>4, <1>5, <1>7, <1>8 DEF Stands, JudgeInv, Answered, agentVars

LEMMA EnqueueTopicWritingStands ==
    ASSUME Sound, NEW c \in Cores, NEW t \in Topics, enqueueTopicWriting(c, t)
    PROVE  Stands
  <1> DEFINE jobs == {<<"article_write", <<x, 1>>>> : x \in TargetsOf({t})}
  <1>1. UNCHANGED <<run, sent, vetoed, article, agentVars, txn, proposed, approvals,
                    done, lost, rewrite, judged>>
        BY DEF enqueueTopicWriting
  <1>2. TicksKept /\ tick' \in [Cores -> [at : DOMAIN NextScan, rows : SUBSET Row]]
        BY TakeUpIs DEF Sound, enqueueTopicWriting
  <1>3. /\ topic' \in [Topics -> TopicStatus \cup {"absent"}]
        /\ \A u \in Topics : topic[u] = "rejected" => topic'[u] = "rejected"
        BY DEF enqueueTopicWriting, TransitionTopic, Sound, Inv, TypeOK, TopicStatus
  <1>4. Inv'
    <2>1. /\ UNCHANGED <<raw, succeeded, failed>>
          /\ article' \in [Targets -> ArticleStatus \cup {"absent"}]
          /\ verdict' \in [Topics -> {"none", "pass", "low"}]
          /\ quality' \in [Targets -> {"none", "pass", "low"}]
          BY <1>1 DEF agentVars, Sound, Inv, TypeOK
    <2> QED BY <1>1, <1>3, <2>1, RunStandsBy DEF Sound
  <1>5. /\ keys \subseteq keys' /\ keys' \subseteq keys \cup jobs
        /\ keys' \subseteq HarvestJobs
        /\ dispatched' = [j \in HarvestJobs |-> IF j \in keys' THEN 1 ELSE 0]
    <2>1. CASE TargetPlatforms[t] = {}
          BY <2>1 DEF enqueueTopicWriting, Sound, HType
    <2>2. CASE TargetPlatforms[t] # {}
      <3>1. jobs \in SUBSET HarvestJobs
            BY TargetIs, HarvestJobsAre DEF TargetsOf, WriteJob
      <3>2. Dispatch(jobs)
            BY <2>2 DEF enqueueTopicWriting
      <3> HIDE DEF jobs
      <3> QED BY <3>1, <3>2, DispatchIs DEF Sound
    <2> QED BY <2>1, <2>2
  <1>6. HType'
        BY <1>1, <1>2, <1>5 DEF Sound, HType
  <1>7. WorkInv'
        BY WorkAsks DEF Sound, Inv
  <1>8. \A a \in Articles : /\ StatusOf(a)' = StatusOf(a)
                            /\ QualityOf(a)' = QualityOf(a)
                            /\ JudgeJob(a) \in keys' <=> JudgeJob(a) \in keys
        BY <1>1, <1>5 DEF StatusOf, QualityOf, agentVars, JudgeJob
  <1>9. ASSUME JudgeInv, NEW a \in Articles PROVE Judged(a)'
        BY <1>1, <1>2, <1>8, <1>9, JudgedSame DEF JudgeInv
  <1> QED BY <1>1, <1>4, <1>6, <1>7, <1>9 DEF Stands, JudgeInv, Answered, agentVars

LEMMA EnqueueArticleEvaluationStands ==
    ASSUME Sound, NEW c \in Cores, NEW a \in Articles, enqueueArticleEvaluation(c, a)
    PROVE  Stands
  <1> DEFINE job == JudgeJob(a)
  <1>1. /\ UNCHANGED <<vars, proposed, approvals, done, lost, rewrite, judged>>
        /\ Dispatch({job})
        BY DEF enqueueArticleEvaluation, JudgeJob
  <1>2. UNCHANGED <<sent, topic, article, quality, succeeded, failed>>
        BY <1>1 DEF vars, agentVars
  <1>3. /\ TicksKept /\ tick' \in [Cores -> [at : DOMAIN NextScan, rows : SUBSET Row]]
        /\ tick[c].at = "enqueueArticleEvaluations" /\ <<a, "none">> \in tick[c].rows
        BY TakeUpIs DEF Sound, enqueueArticleEvaluation
  <1>4. /\ keys' = keys \cup {job} /\ keys' \subseteq HarvestJobs
        /\ dispatched' = [j \in HarvestJobs |-> IF j \in keys' THEN 1 ELSE 0]
        BY <1>1, HarvestJobsAre, DispatchIs DEF Sound
  <1>5. Inv'
        BY <1>1, RunUnchanged DEF Sound
  <1>6. HType'
        BY <1>1, <1>3, <1>4 DEF Sound, HType
  <1>7. \A b \in Articles : /\ StatusOf(b)' = StatusOf(b)
                            /\ QualityOf(b)' = QualityOf(b)
                            /\ WriteJob(b) \in keys' <=> WriteJob(b) \in keys
                            /\ b # a => (JudgeJob(b) \in keys' <=> JudgeJob(b) \in keys)
        BY <1>1, <1>2, <1>4, HarvestJobsAre DEF StatusOf, QualityOf
  <1>8. WorkInv'
        BY <1>1, <1>2, <1>3, <1>7, WorkSame DEF Sound, TicksKept
  <1>9. ASSUME JudgeInv, NEW b \in Articles PROVE Judged(b)'
    <2>1. CASE b # a \/ job \in keys
          BY <1>1, <1>3, <1>4, <1>7, <1>9, <2>1, JudgedSame DEF JudgeInv
    <2>2. CASE b = a /\ job \notin keys
      <3>1. Judged(a)
            BY <1>9 DEF JudgeInv
      <3>2. StatusOf(a) = "draft" /\ QualityOf(a) = "none"
            BY <1>3, <2>2, <3>1 DEF Judged, Sound, HType
      <3>3. StatusOf(a)' = "draft" /\ QualityOf(a)' = "none"
            BY <1>7, <3>2
      <3>4. \A d \in Cores : \A q \in {"pass", "low"} :
                tick'[d].at \in {"transitionArticleEvaluations", "decideScoredArticles"} =>
                    <<a, q>> \notin tick'[d].rows
            BY <1>3, <3>1, <3>2 DEF Judged, TicksKept
      <3> QED BY <2>2, <3>3, <3>4 DEF Judged
    <2> QED BY <2>1, <2>2
  <1> QED BY <1>2, <1>5, <1>6, <1>8, <1>9 DEF Stands, JudgeInv, Answered

\* The transactions on one article that change its status.
LEMMA ArticleMovesStand ==
    ASSUME Sound, NEW c \in Cores, NEW a \in Articles, NEW q \in {"pass", "low"},
           NEW from \in {"draft", "scored"}, NEW to \in {"scored", "pending_review"},
           NEW scan \in {"transitionArticleEvaluations", "decideScoredArticles"},
           TakeUp(c, scan, <<a, q>>), TransitionArticle(a, from, to),
           to = "pending_review" => q = "pass" \/ a[2] = maxArticleVersion,
           UNCHANGED <<run, sent, topic, vetoed, agentVars, txn, proposed,
                       approvals, keys, dispatched, done, lost, judged>>
    PROVE  Stands
  <1>1. /\ TicksKept /\ tick' \in [Cores -> [at : DOMAIN NextScan, rows : SUBSET Row]]
        /\ tick[c].at = scan /\ <<a, q>> \in tick[c].rows
        BY TakeUpIs DEF Sound
  <1>2. /\ StatusOf(a)' = IF StatusOf(a) = from THEN to ELSE StatusOf(a)
        /\ \A b \in Articles : b # a => StatusOf(b)' = StatusOf(b)
        /\ article' \in [Targets -> ArticleStatus \cup {"absent"}]
        /\ rewrite' \in [Rewrites -> ArticleStatus \cup {"absent"}]
        BY TransitionIs DEF Sound, Inv, ArticleStatus
  <1>3. \A b \in Articles : QualityOf(b)' = QualityOf(b)
        BY DEF QualityOf, agentVars
  <1>4. Inv'
    <2>1. /\ UNCHANGED <<raw, succeeded, failed>>
          /\ topic' \in [Topics -> TopicStatus \cup {"absent"}]
          /\ verdict' \in [Topics -> {"none", "pass", "low"}]
          /\ quality' \in [Targets -> {"none", "pass", "low"}]
          BY DEF agentVars, Sound, Inv, TypeOK
    <2> QED BY <1>2, <2>1, RunStandsBy DEF Sound
  <1>5. HType'
        BY <1>1, <1>2 DEF Sound, HType
  <1>6. WorkInv'
    <2>1. \A b \in Articles : /\ StatusOf(b)' = "absent" <=> StatusOf(b) = "absent"
                              /\ StatusOf(b)' = "rewrite_queued" <=>
                                     StatusOf(b) = "rewrite_queued"
          BY <1>2
    <2> QED BY <1>1, <2>1, WorkSame DEF Sound, TicksKept, agentVars
  <1>7. ASSUME JudgeInv, NEW b \in Articles PROVE Judged(b)'
    <2>1. CASE b # a \/ StatusOf(a) # from
          BY <1>1, <1>2, <1>3, <1>7, <2>1, JudgedSame DEF JudgeInv
    <2>2. CASE b = a /\ StatusOf(a) = from
      <3>1. Judged(a)
            BY <1>7 DEF JudgeInv
      <3>2. QualityOf(a) = q
            BY <1>1, <3>1 DEF Judged
      <3> QED BY <1>1, <1>2, <1>3, <2>2, <3>1, <3>2, JudgedMoves DEF Sound
    <2> QED BY <2>1, <2>2
  <1> QED BY <1>4, <1>5, <1>6, <1>7 DEF Stands, JudgeInv, Answered, agentVars

LEMMA EnqueueArticleRewriteStands ==
    ASSUME Sound, NEW c \in Cores, NEW a \in Articles, NEW q \in {"pass", "low"},
           enqueueArticleRewrite(c, a, q)
    PROVE  Stands
  <1> DEFINE b == <<a[1], a[2] + 1>>
             next == WriteJob(b)
  <1>1. /\ TicksKept /\ tick' \in [Cores -> [at : DOMAIN NextScan, rows : SUBSET Row]]
        /\ tick[c].at = "decideScoredArticles" /\ <<a, q>> \in tick[c].rows
        BY TakeUpIs DEF Sound, enqueueArticleRewrite
  <1>2. UNCHANGED <<run, sent, topic, vetoed, agentVars, txn, proposed, approvals, done,
                    lost, judged>>
        BY DEF enqueueArticleRewrite
  <1>3. b \in Articles
        BY ArticleIs, HarvesterAssumption DEF enqueueArticleRewrite, GoesToReview, Articles
  <1>4. \/ UNCHANGED <<article, rewrite, keys, dispatched>>
        \/ /\ StatusOf(a) = "scored"
           /\ SetStatus(a, "rewrite_queued") /\ Dispatch({next})
        BY DEF enqueueArticleRewrite, RewriteQueued, WriteJob
  <1>5. /\ article' \in [Targets -> ArticleStatus \cup {"absent"}]
        /\ rewrite' \in [Rewrites -> ArticleStatus \cup {"absent"}]
        /\ \A d \in Articles : d # a => StatusOf(d)' = StatusOf(d)
        /\ \/ StatusOf(a)' = StatusOf(a)
           \/ StatusOf(a) = "scored" /\ StatusOf(a)' = "rewrite_queued"
    <2>1. CASE UNCHANGED <<article, rewrite, keys, dispatched>>
          BY <2>1 DEF StatusOf, Sound, Inv, TypeOK, HType
    <2>2. CASE StatusOf(a) = "scored" /\ SetStatus(a, "rewrite_queued")
          BY <2>2, SetStatusIs DEF Sound, Inv, ArticleStatus
    <2> QED BY <1>4, <2>1, <2>2
  <1>6. /\ keys' \subseteq HarvestJobs /\ keys \subseteq keys' /\ keys' \subseteq keys \cup {next}
        /\ dispatched' = [j \in HarvestJobs |-> IF j \in keys' THEN 1 ELSE 0]
    <2>1. CASE UNCHANGED <<article, rewrite, keys, dispatched>>
          BY <2>1 DEF Sound, HType
    <2>2. CASE Dispatch({next})
      <3>1. {next} \in SUBSET HarvestJobs
            BY <1>3, HarvestJobsAre
      <3> HIDE DEF next
      <3> QED BY <2>2, <3>1, DispatchIs DEF Sound
    <2> QED BY <1>4, <2>1, <2>2
  <1>7. \A d \in Articles : /\ QualityOf(d)' = QualityOf(d)
                            /\ JudgeJob(d) \in keys' <=> JudgeJob(d) \in keys
    <2>1. \A d \in Articles : JudgeJob(d) # next
          BY HarvestJobsAre
    <2> HIDE DEF next
    <2> QED BY <1>2, <1>6, <2>1 DEF QualityOf, agentVars
  <1>8. Inv'
    <2>1. /\ UNCHANGED <<raw, succeeded, failed>>
          /\ topic' \in [Topics -> TopicStatus \cup {"absent"}]
          /\ verdict' \in [Topics -> {"none", "pass", "low"}]
          /\ quality' \in [Targets -> {"none", "pass", "low"}]
          BY <1>2 DEF agentVars, Sound, Inv, TypeOK
    <2> QED BY <1>2, <1>5, <2>1, RunStandsBy DEF Sound
  <1> HIDE DEF next
  <1>9. HType'
        BY <1>1, <1>2, <1>5, <1>6 DEF Sound, HType
  <1>10. WorkInv'
        BY WorkRewrites DEF Sound, Inv
  <1>11. ASSUME JudgeInv, NEW d \in Articles PROVE Judged(d)'
    <2>1. CASE d # a \/ StatusOf(a)' = StatusOf(a)
          BY <1>1, <1>2, <1>5, <1>7, <1>11, <2>1, JudgedSame DEF JudgeInv
    <2>2. CASE d = a /\ StatusOf(a) = "scored" /\ StatusOf(a)' = "rewrite_queued"
      <3>1. Judged(a)
            BY <1>11 DEF JudgeInv
      <3>2. QualityOf(a) = q
            BY <1>1, <3>1 DEF Judged
      <3> QED BY <1>1, <1>2, <1>7, <2>2, <3>1, <3>2, JudgedMoves DEF Sound
    <2> QED BY <1>5, <2>1, <2>2
  <1> QED BY <1>2, <1>8, <1>9, <1>10, <1>11 DEF Stands, JudgeInv, Answered, agentVars

LEMMA TransactionStands ==
    ASSUME Sound, NEW c \in Cores, Transaction(c)
    PROVE  Stands
  <1>1. ASSUME NEW a \in Articles, NEW q \in {"pass", "low"},
               transitionArticleEvaluations(c, a, q)
        PROVE  Stands
        BY <1>1, ArticleMovesStand DEF transitionArticleEvaluations
  <1>2. ASSUME NEW a \in Articles, NEW q \in {"pass", "low"},
               moveArticleToPendingReview(c, a, q)
        PROVE  Stands
    <2>1. q = "pass" \/ a[2] = maxArticleVersion
      <3>1. a[2] \in 1..maxArticleVersion /\ maxArticleVersion \in Nat
            BY ArticleIs, HarvesterAssumption
      <3> QED BY <1>2, <3>1 DEF moveArticleToPendingReview, GoesToReview
    <2> QED BY <1>2, <2>1, ArticleMovesStand DEF moveArticleToPendingReview
  <1> QED BY <1>1, <1>2, EnqueueOneStands, TransitionScoredStands,
             EnqueueTopicWritingStands, EnqueueArticleEvaluationStands,
             EnqueueArticleRewriteStands
          DEF Transaction


-----------------------------------------------------------------------------
(* The agents on the harvester's jobs, and people.                          *)

LEMMA TicksStay == ASSUME UNCHANGED tick PROVE TicksKept
  BY DEF TicksKept

LEMMA EvaluateCandidateStands ==
    ASSUME Sound, NEW t \in Topics, NEW v \in {"pass", "low"}, EvaluateCandidate(t, v)
    PROVE  Stands
  <1> DEFINE job == <<"topic_evaluate", t>>
  <1>1. /\ job \in keys /\ done' = done \cup {job}
        /\ verdict' = [verdict EXCEPT ![t] = v]
        /\ UNCHANGED <<run, sent, topic, vetoed, article, raw, quality, succeeded, failed,
                       txn, proposed, approvals, keys, dispatched, lost, rewrite, judged,
                       tick>>
        BY HarvestJobsAre, OpenIs DEF EvaluateCandidate, Sound
  <1>2. Inv'
        BY <1>1, RunStandsBy DEF Sound, Inv, TypeOK
  <1>3. HType'
        BY <1>1 DEF Sound, HType
  <1>4. \A a \in Articles : /\ StatusOf(a)' = StatusOf(a)
                            /\ QualityOf(a)' = QualityOf(a)
                            /\ WriteJob(a) \in done' <=> WriteJob(a) \in done
                            /\ JudgeJob(a) \in done' <=> JudgeJob(a) \in done
        BY <1>1, HarvestJobsAre DEF StatusOf, QualityOf
  <1>5. WorkInv'
        BY <1>1, <1>4, WorkSame DEF Sound
  <1>6. ASSUME JudgeInv, NEW a \in Articles PROVE Judged(a)'
        BY <1>1, <1>4, <1>6, TicksStay, JudgedSame DEF JudgeInv
  <1> QED BY <1>1, <1>2, <1>3, <1>5, <1>6 DEF Stands, JudgeInv, Answered

LEMMA WriteVersionStands ==
    ASSUME Sound, NEW a \in Articles, WriteVersion(a)
    PROVE  Stands
  <1>1. /\ WriteJob(a) \in keys \ (done \cup lost) /\ done' = done \cup {WriteJob(a)}
        /\ topic[a[1][1]] \notin Early /\ SetStatus(a, "draft")
        /\ UNCHANGED <<run, sent, topic, vetoed, agentVars, txn, proposed, approvals, keys,
                       dispatched, lost, judged, tick>>
        BY HarvestJobsAre, OpenIs DEF WriteVersion, Sound, Early, WriteJob
  <1>2. /\ StatusOf(a)' = "draft"
        /\ \A b \in Articles : b # a => StatusOf(b)' = StatusOf(b)
        /\ article' \in [Targets -> ArticleStatus \cup {"absent"}]
        /\ rewrite' \in [Rewrites -> ArticleStatus \cup {"absent"}]
        BY <1>1, SetStatusIs DEF Sound, Inv, ArticleStatus
  <1>3. StatusOf(a) = "absent"
        BY <1>1 DEF Sound, WorkInv, Written
  <1>4. UNCHANGED <<raw, verdict, quality, succeeded, failed>>
        BY <1>1 DEF agentVars
  <1>5. Inv'
        BY <1>1, <1>2, <1>4, RunStandsBy DEF Sound, Inv, TypeOK
  <1>6. HType'
        BY <1>1, <1>2 DEF Sound, HType
  <1>7. WorkInv'
        BY <1>1, <1>2, <1>3, <1>4, WorkWrites DEF Sound
  <1>8. \A b \in Articles : /\ QualityOf(b)' = QualityOf(b)
                            /\ JudgeJob(b) \in done' <=> JudgeJob(b) \in done
        BY <1>1, <1>4, HarvestJobsAre DEF QualityOf
  <1>9. ASSUME JudgeInv, NEW b \in Articles PROVE Judged(b)'
    <2>1. CASE b = a
          BY <1>1, <1>2, <1>3, <1>8, <1>9, <2>1, JudgedWritten DEF JudgeInv, Sound
    <2>2. CASE b # a
          BY <1>1, <1>2, <1>8, <1>9, <2>2, TicksStay, JudgedSame DEF JudgeInv
    <2> QED BY <2>1, <2>2
  <1> QED BY <1>1, <1>4, <1>5, <1>6, <1>7, <1>9 DEF Stands, JudgeInv, Answered

LEMMA JudgeArticleStands ==
    ASSUME Sound, NEW a \in Articles, NEW q \in {"pass", "low"}, JudgeArticle(a, q)
    PROVE  Stands
  <1>1. /\ JudgeJob(a) \in keys \ (done \cup lost) /\ done' = done \cup {JudgeJob(a)}
        /\ SetQuality(a, q)
        /\ UNCHANGED <<run, sent, topic, vetoed, article, raw, verdict, succeeded, failed,
                       txn, proposed, approvals, keys, dispatched, lost, rewrite, tick>>
        BY HarvestJobsAre, OpenIs DEF JudgeArticle, Sound, JudgeJob
  <1>2. /\ QualityOf(a)' = q
        /\ \A b \in Articles : b # a => QualityOf(b)' = QualityOf(b)
        /\ quality' \in [Targets -> {"none", "pass", "low"}]
        /\ judged' \in [Rewrites -> {"none", "pass", "low"}]
        BY <1>1, SetQualityIs DEF Sound, Inv
  <1>3. Inv'
        BY <1>1, <1>2, RunStandsBy DEF Sound, Inv, TypeOK
  <1>4. HType'
        BY <1>1, <1>2 DEF Sound, HType
  <1>5. \A b \in Articles : /\ StatusOf(b)' = StatusOf(b)
                            /\ WriteJob(b) \in done' <=> WriteJob(b) \in done
                            /\ b # a => (JudgeJob(b) \in done' <=> JudgeJob(b) \in done)
        BY <1>1, HarvestJobsAre DEF StatusOf
  <1>6. WorkInv'
        BY <1>1, <1>5, WorkSame DEF Sound
  <1>7. ASSUME JudgeInv, NEW b \in Articles PROVE Judged(b)'
    <2>1. CASE b # a
          BY <1>1, <1>2, <1>5, <1>7, <2>1, TicksStay, JudgedSame DEF JudgeInv
    <2>2. CASE b = a
      <3>1. Judged(a)
            BY <1>7 DEF JudgeInv
      <3>2. StatusOf(a) = "draft" /\ QualityOf(a) = "none"
            BY <1>1, <3>1 DEF Judged
      <3>3. StatusOf(a)' = "draft"
            BY <1>5, <3>2
      <3>4. \A d \in Cores : \A r \in {"pass", "low"} :
                tick[d].at \in {"transitionArticleEvaluations", "decideScoredArticles"} =>
                    <<a, r>> \notin tick[d].rows
            BY <3>1, <3>2 DEF Judged
      <3>5. JudgeJob(a)' \in done'
            BY <1>1 DEF JudgeJob
      <3> QED BY <1>1, <1>2, <2>2, <3>3, <3>4, <3>5 DEF Judged
    <2> QED BY <2>1, <2>2
  <1> QED BY <1>1, <1>3, <1>4, <1>6, <1>7 DEF Stands, JudgeInv, Answered

LEMMA LoseJobStands ==
    ASSUME Sound, NEW j \in HarvestJobs, LoseJob(j)
    PROVE  Stands
  <1>1. /\ j \in keys /\ lost' = lost \cup {j}
        /\ UNCHANGED <<vars, proposed, approvals, keys, dispatched, done, rewrite, judged,
                       tick>>
        BY OpenIs DEF LoseJob, Sound
  <1>2. UNCHANGED <<sent, topic, article, quality, succeeded, failed>>
        BY <1>1 DEF vars, agentVars
  <1>3. Inv'
        BY <1>1, RunUnchanged DEF Sound
  <1>4. HType'
        BY <1>1 DEF Sound, HType
  <1>5. \A a \in Articles : StatusOf(a)' = StatusOf(a) /\ QualityOf(a)' = QualityOf(a)
        BY <1>1, <1>2 DEF StatusOf, QualityOf
  <1>6. WorkInv'
        BY <1>1, <1>2, <1>5, WorkSame DEF Sound
  <1>7. ASSUME JudgeInv, NEW a \in Articles PROVE Judged(a)'
        BY <1>1, <1>5, <1>7, TicksStay, JudgedSame DEF JudgeInv
  <1> QED BY <1>2, <1>3, <1>4, <1>6, <1>7 DEF Stands, JudgeInv, Answered

LEMMA LabourStands ==
    ASSUME Sound, Labour
    PROVE  Stands
  BY EvaluateCandidateStands, WriteVersionStands, JudgeArticleStands, LoseJobStands
     DEF Labour

\* Changes of topics that keep them from the early statuses, or in them.
LEMMA TopicMovesStand ==
    ASSUME Sound, NEW t \in Topics, NEW to \in {"candidate", "approved", "rejected", "written"},
           topic[t] \notin {"approved", "rejected"},
           topic[t] \in Early \/ to \notin Early,
           topic' = [topic EXCEPT ![t] = to], vetoed' \in {vetoed, vetoed \cup {t}},
           vetoed' # vetoed => to = "rejected",
           \A c \in Cores : vetoed' # vetoed => txn[c].topic[t] = Unwritten,
           proposed' \in Seq(Topics), approvals' \in Seq(Topics),
           UNCHANGED <<run, sent, article, agentVars, txn, keys, dispatched, done, lost,
                       rewrite, judged, tick>>
    PROVE  Stands
  <1>1. /\ topic' \in [Topics -> TopicStatus \cup {"absent"}]
        /\ topic'[t] = to /\ \A u \in Topics : u # t => topic'[u] = topic[u]
        BY DEF Sound, Inv, TypeOK, TopicStatus
  <1>2. UNCHANGED <<raw, verdict, quality, succeeded, failed>>
        BY DEF agentVars
  <1>3. TypeOK'
        BY <1>1, <1>2 DEF Sound, Inv, TypeOK
  <1>4. VetoInv'
        BY <1>1 DEF Sound, Inv, TypeOK, VetoInv, SparesVetoed, VetoIsFinal
  <1>5. Inv'
        BY <1>3, <1>4, BystanderInv DEF Sound
  <1>6. HType'
        BY DEF Sound, HType
  <1>7. \A a \in Articles : StatusOf(a)' = StatusOf(a) /\ QualityOf(a)' = QualityOf(a)
        BY <1>2 DEF StatusOf, QualityOf
  <1>8. WorkInv'
        BY <1>1, <1>2, <1>7, WorkSame DEF Sound
  <1>9. ASSUME JudgeInv, NEW a \in Articles PROVE Judged(a)'
        BY <1>7, <1>9, TicksStay, JudgedSame DEF JudgeInv
  <1> QED BY <1>2, <1>5, <1>6, <1>8, <1>9 DEF Stands, JudgeInv, Answered

LEMMA TableIs ==
    ASSUME NEW from \in TopicStatus, NEW to
    PROVE  /\ CanTopicTransition(from, to) =>
                  /\ to = "approved" => from = "scored"
                  /\ to = "rejected" => from \in {"candidate", "scored"}
  BY DEF CanTopicTransition, topicTransitions, TopicStatus

LEMMA ArticleTableIs ==
    ASSUME NEW from \in ArticleStatus, NEW to \in {"approved", "rejected"},
           CanArticleTransition(from, to)
    PROVE  from = "pending_review"
  BY DEF CanArticleTransition, articleTransitions, ArticleStatus

LEMMA ApproveTopicStands ==
    ASSUME Sound, NEW t \in Topics, ApproveTopic(t)
    PROVE  Stands
  <1>1. topic[t] = "scored"
        BY TableIs DEF ApproveTopic, Sound, Inv, TypeOK
  <1>2. approvals' \in Seq(Topics) /\ proposed' \in Seq(Topics)
        BY DEF ApproveTopic, Sound, HType
  <1> QED BY <1>1, <1>2, TopicMovesStand DEF ApproveTopic, Early

LEMMA ScoutTopicStands ==
    ASSUME Sound, NEW t \in Topics, ScoutTopic(t)
    PROVE  Stands
  <1>1. approvals' \in Seq(Topics) /\ proposed' \in Seq(Topics)
        BY DEF ScoutTopic, Sound, HType
  <1> QED BY <1>1, TopicMovesStand DEF ScoutTopic, Early

\* A person decides about an article of any version.
LEMMA DecisionStands ==
    ASSUME Sound, NEW a \in Articles, NEW to \in {"approved", "rejected"},
           StatusOf(a) = "pending_review", SetStatus(a, to),
           UNCHANGED <<run, sent, topic, vetoed, agentVars, txn, approvals, proposed, keys,
                       dispatched, done, lost, judged, tick>>
    PROVE  Stands
  <1>1. /\ StatusOf(a)' = to
        /\ \A b \in Articles : b # a => StatusOf(b)' = StatusOf(b)
        /\ article' \in [Targets -> ArticleStatus \cup {"absent"}]
        /\ rewrite' \in [Rewrites -> ArticleStatus \cup {"absent"}]
        BY SetStatusIs DEF Sound, Inv, ArticleStatus
  <1>2. UNCHANGED <<raw, verdict, quality, succeeded, failed>>
        BY DEF agentVars
  <1>3. Inv'
        BY <1>1, <1>2, RunStandsBy DEF Sound, Inv, TypeOK
  <1>4. HType'
        BY <1>1 DEF Sound, HType
  <1>5. WorkInv'
        BY <1>1, <1>2, WorkSame DEF Sound
  <1>6. \A b \in Articles : QualityOf(b)' = QualityOf(b)
        BY <1>2 DEF QualityOf
  <1>7. ASSUME JudgeInv, NEW b \in Articles PROVE Judged(b)'
    <2>1. CASE b = a
          BY <1>1, <1>6, <1>7, <2>1, JudgedDecided DEF JudgeInv
    <2>2. CASE b # a
          BY <1>1, <1>6, <1>7, <2>2, TicksStay, JudgedSame DEF JudgeInv
    <2> QED BY <2>1, <2>2
  <1> QED BY <1>2, <1>3, <1>4, <1>5, <1>7 DEF Stands, JudgeInv, Answered

LEMMA ReviewRewriteStands ==
    ASSUME Sound, NEW a \in Rewrites, NEW to \in {"approved", "rejected"},
           ReviewRewrite(a, to)
    PROVE  Stands
  <1>1. a \in Articles /\ a[2] # 1
        BY HarvesterAssumption DEF Rewrites, Articles
  <1>2. StatusOf(a) = rewrite[a]
        BY <1>1 DEF StatusOf
  <1>3. StatusOf(a) = "pending_review"
        BY <1>2, ArticleTableIs DEF ReviewRewrite, Sound, HType
  <1>4. /\ UNCHANGED <<run, sent, topic, vetoed, article, agentVars, txn, proposed,
                       approvals, keys, dispatched, done, lost, judged, tick>>
        /\ rewrite' = [rewrite EXCEPT ![a] = to]
        BY DEF ReviewRewrite, vars
  <1>5. SetStatus(a, to)
        BY <1>1, <1>4 DEF SetStatus
  <1> QED BY <1>1, <1>3, <1>4, <1>5, DecisionStands

-----------------------------------------------------------------------------
(* What still goes on about a run that rests.                               *)

LEMMA SetToSeqEmpty == SetToSeq({}) = <<>>
  <1>1. \E f \in [1..0 -> {}] : IsInjective(f)
    <2>1. <<>> \in [1..0 -> {}] /\ IsInjective(<<>>)
          BY DEF IsInjective
    <2> QED BY <2>1
  <1>2. SetToSeq({}) \in [1..0 -> {}]
        BY <1>1, FS_EmptySet DEF SetToSeq
  <1> QED BY <1>2

LEMMA SetToSeqOne ==
    ASSUME NEW t
    PROVE  SetToSeq({t}) = <<t>>
  <1>1. PICK F : F = [1..1 -> {t}]
        OBVIOUS
  <1>2. \E f \in F : IsInjective(f)
    <2>1. [i \in 1..1 |-> t] \in [1..1 -> {t}] /\ IsInjective([i \in 1..1 |-> t])
          BY DEF IsInjective
    <2> QED BY <1>1, <2>1
  <1>3. SetToSeq({t}) = CHOOSE f \in F : IsInjective(f)
    <2>1. Cardinality({t}) = 1
          BY FS_Singleton
    <2>2. F = [1..Cardinality({t}) -> {t}]
          BY <1>1, <2>1
    <2> QED BY <2>2, Zenon DEF SetToSeq
  <1>4. (CHOOSE f \in F : IsInjective(f)) \in F
        BY <1>2, Zenon
  <1>5. SetToSeq({t}) \in F
        BY <1>3, <1>4
  <1> QED
    <2>1. PICK s : s = SetToSeq({t})
          OBVIOUS
    <2>2. s \in [1..1 -> {t}]
          BY <1>1, <1>5, <2>1
    <2>3. <<t>> \in [1..1 -> {t}]
          OBVIOUS
    <2> QED BY <2>1, <2>2, <2>3

\* Nobody creates or reconciles it.
LEMMA RestingRun ==
    ASSUME Sound, HandedOver, RunStep
    PROVE  AgentStep \/ OutsideStep
  <1>1. run.status \notin {"queued", "running"}
        BY DEF HandedOver, Over
  <1>2. \A c \in Cores : txn[c].at = "idle"
        BY <1>1 DEF Sound, Inv, LockInv, OpenWhileActive
  <1>3. ASSUME NEW S \in SUBSET Sources, CreateContentRun(S) PROVE FALSE
    <2>1. run' = run
          BY <1>3 DEF RunStep, CreateContentRun, HandedOver, Over
    <2>2. run'.status # "absent"
          BY <1>3 DEF CreateContentRun, Sound, Inv, TypeOK, RunRow
    <2> QED BY <1>3, <2>1, <2>2 DEF CreateContentRun
  <1>4. ~CoreStep
    <2>1. ASSUME NEW c \in Cores PROVE ~BeginReconcile(c) /\ ~CrashInReconcile(c)
          BY <1>1, <1>2 DEF BeginReconcile, CrashInReconcile
    <2>2. ASSUME NEW c \in Cores PROVE ~ReconcileStage(c)
      <3>1. txn[c].at = "idle"
            BY <1>2
      <3> QED BY <3>1 DEF ReconcileStage, ReconcileSourceFetch, ReconcileTopicScout,
                 ReconcileTopicEvaluate, ReconcileArticleWrite, ReconcileArticleEvaluate,
                 ReconcileHumanReview
    <2> QED BY <1>3, <2>1, <2>2 DEF CoreStep
  <1> QED BY <1>4 DEF RunStep, Next

\* Where a failure is final, no agent answers a job that has been answered ...
LEMMA NothingDelivered ==
    ASSUME ~RetriesAfterFailure, JudgeInv, NEW j \in Jobs
    PROVE  ~Deliverable(j)
  BY DEF JudgeInv, Answered, Deliverable

\* ... nor one of a run that is not there.
LEMMA NothingSent ==
    ASSUME Inv, run.status = "absent", NEW j \in Jobs
    PROVE  ~Deliverable(j)
  BY DEF Inv, SendInv, NothingBeforeCreation, Deliverable

LEMMA AgentsDeliver ==
    ASSUME AgentStep
    PROVE  \E j \in Jobs : Deliverable(j)
  <1>1. \A x \in Targets : <<"article_write", x>> \in Jobs /\ <<"article_evaluate", x>> \in Jobs
        BY DEF Jobs
  <1>2. /\ \A s \in Sources : <<"source_fetch", s>> \in Jobs
        /\ \A t \in Topics : <<"topic_evaluate", t>> \in Jobs
        /\ ScoutJob \in Jobs
        BY DEF Jobs
  <1> QED BY <1>1, <1>2 DEF AgentStep, FetchItems, ProposeTopic, EvaluateTopic,
             WriteArticle, EvaluateArticle, ReportSuccess, ReportFailure

LEMMA AgentStands ==
    ASSUME Sound, RunStep, AgentStep
    PROVE  Stands
  <1> DEFINE new == {t \in Topics : topic[t] = "absent" /\ topic'[t] # "absent"}
  <1>1. /\ proposed' = proposed \o SetToSeq(new)
        /\ UNCHANGED <<approvals, keys, dispatched, done, lost, rewrite, judged, tick>>
        BY DEF RunStep
  <1>2. Inv' /\ TypeOK'
        BY AgentInv DEF Sound, Inv
  <1>3. ~(~RetriesAfterFailure /\ JudgeInv)
        BY AgentsDeliver, NothingDelivered
  <1>4. ASSUME NEW t \in Topics, ProposeTopic(t) PROVE Stands
    <2>1. topic' = [topic EXCEPT ![t] = "candidate"] /\ topic[t] = "absent"
          BY <1>4 DEF ProposeTopic
    <2>2. new = {t}
          BY <2>1 DEF Sound, Inv, TypeOK
    <2> HIDE DEF new
    <2>3. proposed' \in Seq(Topics) /\ approvals' \in Seq(Topics)
      <3>1. proposed' = proposed \o <<t>>
            BY <1>1, <2>2, SetToSeqOne
      <3> QED BY <1>1, <3>1 DEF Sound, HType
    <2> QED BY <1>1, <1>4, <2>1, <2>3, TopicMovesStand DEF ProposeTopic, Early
  <1>5. ASSUME topic' = topic PROVE proposed' = proposed
    <2>1. new = {}
          BY <1>5
    <2> HIDE DEF new
    <2> QED BY <1>1, <2>1, SetToSeqEmpty DEF Sound, HType
  <1>6. ASSUME UNCHANGED <<sent, topic, article>>, succeeded \subseteq succeeded'
        PROVE  Stands
    <2>1. HType'
          BY <1>1, <1>5, <1>6 DEF Sound, HType
    <2>2. \A a \in Articles : StatusOf(a)' = StatusOf(a)
          BY <1>1, <1>6 DEF StatusOf
    <2>3. WorkInv'
          BY <1>1, <1>6, <2>2, WorkSame DEF Sound
    <2> QED BY <1>2, <1>3, <2>1, <2>3 DEF Stands
  <1>7. ASSUME NEW x \in Targets, WriteArticle(x) PROVE Stands
    <2>1. /\ Deliverable(<<"article_write", x>>)
          /\ topic[x[1]] \notin Early
          /\ article' = [article EXCEPT ![x] = "draft"]
          /\ succeeded' = succeeded \cup {<<"article_write", x>>}
          /\ UNCHANGED <<sent, topic>>
          BY <1>7 DEF WriteArticle, Early
    <2>2. <<x, 1>> \in Articles /\ WriteJob(<<x, 1>>) \notin keys /\ article[x] = "absent"
          BY <2>1, TargetIs DEF Sound, WorkInv, FirstVersion, Deliverable, HType
    <2>3. /\ StatusOf(<<x, 1>>) = "absent" /\ StatusOf(<<x, 1>>)' = "draft"
          /\ \A b \in Articles : b # <<x, 1>> => StatusOf(b)' = StatusOf(b)
      <3>1. SetStatus(<<x, 1>>, "draft")
            BY <1>1, <2>1 DEF SetStatus
      <3> QED BY <2>2, <3>1, SetStatusIs DEF Sound, Inv, StatusOf
    <2>4. WorkInv'
      <3>1. PICK a : a = <<x, 1>>
            OBVIOUS
      <3>2. a[1] = x /\ a[2] = 1
            BY <3>1
      <3>3. /\ a \in Articles /\ StatusOf(a) = "absent" /\ StatusOf(a)' = "draft"
            /\ \A b \in Articles : b # a => StatusOf(b)' = StatusOf(b)
            /\ ~(WriteJob(a) \in keys \/ a[2] > 1)
            BY <2>2, <2>3, <3>1
      <3>4. /\ topic[a[1][1]] \notin Early
            /\ <<"article_write", a[1]>> \in succeeded'
            BY <2>1, <3>2
      <3>5. /\ UNCHANGED <<sent, keys, topic, tick>>
            /\ done \subseteq done' /\ succeeded \subseteq succeeded'
            BY <1>1, <2>1
      <3> QED BY <3>3, <3>4, <3>5, WorkWrites DEF Sound
    <2>5. HType'
          BY <1>1, <1>5, <2>1 DEF Sound, HType
    <2> QED BY <1>2, <1>3, <2>4, <2>5 DEF Stands
  <1> QED BY <1>4, <1>6, <1>7 DEF AgentStep, FetchItems, EvaluateTopic, EvaluateArticle,
             ReportSuccess, ReportFailure

LEMMA OutsideStands ==
    ASSUME Sound, RunStep, OutsideStep
    PROVE  Stands /\ proposed' = proposed
  <1> DEFINE new == {t \in Topics : topic[t] = "absent" /\ topic'[t] # "absent"}
  <1>1. /\ proposed' = proposed \o SetToSeq(new)
        /\ UNCHANGED <<approvals, keys, dispatched, done, lost, rewrite, judged, tick>>
        BY DEF RunStep
  <1>2. proposed' = proposed
    <2>1. new = {}
          BY DEF OutsideStep, RejectTopic, TransitionWritten, ReviewArticle, Sound, Inv, TypeOK
    <2> HIDE DEF new
    <2> QED BY <1>1, <2>1, SetToSeqEmpty DEF Sound, HType
  <1> HIDE DEF new
  <1>3. proposed' \in Seq(Topics) /\ approvals' \in Seq(Topics)
        BY <1>1, <1>2 DEF Sound, HType
  <1>4. ASSUME NEW t \in Topics, RejectTopic(t) PROVE Stands
    <2>1. topic[t] \in {"candidate", "scored"}
          BY <1>4, TableIs DEF RejectTopic, Sound, Inv, TypeOK
    <2> QED BY <1>1, <1>3, <1>4, <2>1, TopicMovesStand DEF RejectTopic, Early
  <1>5. ASSUME NEW t \in Topics, TransitionWritten(t) PROVE Stands
        BY <1>1, <1>3, <1>5, TopicMovesStand DEF TransitionWritten, Early
  <1>6. ASSUME NEW x \in Targets, NEW to \in {"approved", "rejected"}, ReviewArticle(x, to)
        PROVE  Stands
    <2>1. article[x] = "pending_review"
          BY <1>6, ArticleTableIs DEF ReviewArticle, Sound, Inv, TypeOK
    <2>2. /\ <<x, 1>> \in Articles /\ StatusOf(<<x, 1>>) = "pending_review"
          /\ SetStatus(<<x, 1>>, to)
          BY <1>1, <1>6, <2>1, TargetIs DEF StatusOf, SetStatus, ReviewArticle
    <2> QED BY <1>1, <1>2, <1>6, <2>2, DecisionStands DEF ReviewArticle
  <1> QED BY <1>2, <1>4, <1>5, <1>6 DEF OutsideStep

\* Whatever happens once all is handed over.
LEMMA HandedOverStands ==
    ASSUME Sound, HandedOver, [HNext]_allVars
    PROVE  Stands /\ HandedOver'
  <1>1. ASSUME UNCHANGED <<run, proposed>> PROVE HandedOver'
        BY <1>1 DEF HandedOver, Over
  <1>2. CASE UNCHANGED allVars
    <2>1. UNCHANGED vars /\ UNCHANGED harvestVars
          BY <1>2 DEF allVars
    <2>2. UNCHANGED <<run, sent, topic, article, quality, succeeded, failed>>
          BY <2>1 DEF vars, agentVars
    <2>3. UNCHANGED <<proposed, approvals, keys, dispatched, done, lost, rewrite, judged, tick>>
          BY <2>1 DEF harvestVars
    <2>4. Inv'
          BY <2>1, RunUnchanged DEF Sound
    <2>5. HType'
          BY <2>3 DEF Sound, HType
    <2>6. \A a \in Articles : StatusOf(a)' = StatusOf(a) /\ QualityOf(a)' = QualityOf(a)
          BY <2>2, <2>3 DEF StatusOf, QualityOf
    <2>7. WorkInv'
          BY <2>2, <2>3, <2>6, WorkSame DEF Sound
    <2>8. ASSUME JudgeInv, NEW a \in Articles PROVE Judged(a)'
          BY <2>3, <2>6, <2>8, TicksStay, JudgedSame DEF JudgeInv
    <2>9. Stands
          BY <2>2, <2>4, <2>5, <2>7, <2>8 DEF Stands, JudgeInv, Answered
    <2> QED BY <1>1, <2>2, <2>3, <2>9
  <1>3. CASE RunStep
    <2>1. CASE AgentStep
      <3>1. Over
            BY <2>1, AgentsDeliver, NothingSent DEF HandedOver, Sound
      <3>2. run' = run
            BY <2>1 DEF AgentStep, FetchItems, ProposeTopic, EvaluateTopic,
               WriteArticle, EvaluateArticle, ReportSuccess, ReportFailure
      <3> QED BY <1>3, <2>1, <3>1, <3>2, AgentStands DEF HandedOver, Over
    <2>2. CASE OutsideStep
      <3>1. run' = run
            BY <2>2 DEF OutsideStep, RejectTopic, TransitionWritten, ReviewArticle
      <3> QED BY <1>1, <1>3, <2>2, <3>1, OutsideStands
    <2> QED BY <1>3, <2>1, <2>2, RestingRun
  <1>4. ASSUME NEW c \in Cores, Scan(c) \/ Crash(c) PROVE Stands /\ HandedOver'
    <2>1. UNCHANGED <<run, proposed>>
          BY <1>4 DEF Scan, Crash, vars
    <2> QED BY <1>1, <1>4, <2>1, ScanStands, CrashStands
  <1>5. ASSUME NEW c \in Cores, Transaction(c) PROVE Stands /\ HandedOver'
    <2>1. UNCHANGED <<run, proposed>>
          BY <1>5 DEF Transaction, enqueueOne, transitionScored, enqueueTopicWriting,
             enqueueArticleEvaluation, transitionArticleEvaluations,
             moveArticleToPendingReview, enqueueArticleRewrite, vars
    <2> QED BY <1>1, <1>5, <2>1, TransactionStands
  <1>6. CASE Labour
    <2>1. UNCHANGED <<run, proposed>>
          BY <1>6 DEF Labour, EvaluateCandidate, WriteVersion, JudgeArticle, LoseJob, vars
    <2> QED BY <1>1, <1>6, <2>1, LabourStands
  <1>7. ASSUME NEW t \in Topics, ScoutTopic(t) PROVE Stands /\ HandedOver'
    <2>1. run' = run /\ proposed' # <<>>
      <3>1. proposed \in Seq(Topics) /\ proposed' = Append(proposed, t) /\ run' = run
            BY <1>7 DEF ScoutTopic, Sound, HType
      <3> QED BY <3>1
    <2> QED BY <1>7, <2>1, ScoutTopicStands DEF HandedOver, Over, ScoutTopic
  <1>8. ASSUME NEW t \in Topics, ApproveTopic(t) PROVE Stands /\ HandedOver'
        BY <1>1, <1>8, ApproveTopicStands DEF ApproveTopic
  <1>9. ASSUME NEW a \in Rewrites, NEW to \in {"approved", "rejected"}, ReviewRewrite(a, to)
        PROVE  Stands /\ HandedOver'
    <2>1. UNCHANGED <<run, proposed>>
          BY <1>9 DEF ReviewRewrite, vars
    <2> QED BY <1>1, <1>9, <2>1, ReviewRewriteStands
  <1> QED BY <1>2, <1>3, <1>4, <1>5, <1>6, <1>7, <1>8, <1>9 DEF HNext, Steady

-----------------------------------------------------------------------------
(* Before anything is handed over.                                          *)

\* What the run alone has done is in order for the harvester ...
LEMMA UntouchedWork ==
    ASSUME RunInv, HType, Untouched
    PROVE  WorkInv
  <1>1. /\ TypeOK /\ ResultsInv /\ GateInv /\ StatusInv
        /\ VetoIsFinal
        BY DEF RunInv, Inv, VetoInv, TablesInv
  <1>2. \A x \in Targets : StatusOf(<<x, 1>>) = article[x] /\ <<"article_write", x>> \in Jobs
        BY TargetIs DEF StatusOf
  <1>3. \A a \in Articles : a[2] > 1 => StatusOf(a) = "absent"
        BY ArticleIs DEF Untouched, StatusOf
  <1>4. ASSUME NEW x \in Targets PROVE FirstVersion(x)
    <2>1. sent[<<"article_write", x>>] > 0 => topic[x[1]] \notin Early
      <3>1. sent[<<"article_write", x>>] > 0 =>
                topic[x[1]] \in InWriting \/ x[1] \in vetoed
        <4>1. x[1] \in Topics
              BY TargetIs
        <4> QED BY <1>1, <4>1, IdleSees DEF GateInv, GateOpen
      <3> QED BY <1>1, <3>1 DEF VetoIsFinal, InWriting, Early
    <2>2. article[x] # "absent" => <<"article_write", x>> \in succeeded
          BY <1>1 DEF ResultsInv
    <2>3. <<"article_write", x>> \in succeeded => sent[<<"article_write", x>>] > 0
          BY <1>1 DEF ResultsInv, Answered
    <2>4. sent[<<"article_write", x>>] \in Nat
          BY <1>1, <1>2 DEF TypeOK
    <2> QED BY <2>1, <2>2, <2>3, <2>4 DEF FirstVersion, Untouched
  <1>5. ASSUME NEW x \in Targets PROVE InSequence(x)
    <2>1. ASSUME NEW v \in 1..maxArticleVersion
          PROVE  StatusOf(<<x, v>>) # "rewrite_queued"
      <3>1. CASE v = 1
            BY <1>1, <1>2, <3>1 DEF StatusInv, RunArticleStatus
      <3>2. CASE v # 1
        <4>1. <<x, v>> \in Articles /\ <<x, v>>[2] > 1
          <5>1. v > 1
                BY <3>2, HarvesterAssumption
          <5> QED BY <5>1, TargetIs
        <4>2. StatusOf(<<x, v>>) = "absent"
              BY <1>3, <4>1
        <4> QED BY <4>2
      <3> QED BY <3>1, <3>2
    <2> QED BY <2>1 DEF InSequence, Untouched
  <1>6. ASSUME NEW a \in Articles PROVE Written(a)
        BY <1>3 DEF Written, Untouched
  <1>7. ASSUME NEW c \in Cores PROVE Approved(c)
        BY DEF Approved, Untouched
  <1> QED BY <1>4, <1>5, <1>6, <1>7 DEF WorkInv

\* ... and so is what it leaves behind when it ends, or when there is none.
LEMMA LeftBehind ==
    ASSUME ~RetriesAfterFailure, RunInv, HType, Untouched, Over \/ run.status = "absent"
    PROVE  JudgeInv
  <1>1. /\ TypeOK /\ ResultsInv /\ NothingBeforeCreation /\ BarrierClosed /\ EndClosed
        BY DEF RunInv, Inv, SendInv, TablesInv, BarrierInv, EndInv
  <1>2. \A j \in Jobs : sent[j] > 0 => j \in Answered
    <2>1. CASE Over
      <3>1. Drained(Idle)
            BY <1>1, <2>1 DEF BarrierClosed, Settled, Over
      <3> QED BY <3>1, IdleSees DEF Drained
    <2>2. CASE run.status = "absent"
          BY <1>1, <2>2 DEF NothingBeforeCreation
    <2> QED BY <2>1, <2>2
  <1>3. \A x \in Targets : /\ article[x] \in {"absent", "draft", "scored"}
                           /\ quality[x] # "none" => article[x] = "scored"
    <2>1. CASE Over
          BY <1>1, <2>1 DEF EndClosed
    <2>2. CASE run.status = "absent"
      <3>1. succeeded = {}
            BY <1>1, <2>2 DEF NothingBeforeCreation, ResultsInv, Answered, TypeOK
      <3> QED BY <1>1, <3>1 DEF ResultsInv
    <2> QED BY <2>1, <2>2
  <1>4. ASSUME NEW a \in Articles PROVE Judged(a)
    <2>1. CASE a[2] = 1
      <3>1. StatusOf(a) = article[a[1]] /\ QualityOf(a) = quality[a[1]] /\ a[1] \in Targets
            BY <2>1, ArticleIs DEF StatusOf, QualityOf
      <3> QED BY <1>3, <3>1 DEF Judged, Untouched
    <2>2. CASE a[2] # 1
      <3>1. StatusOf(a) = "absent" /\ QualityOf(a) = "none"
            BY <2>2, ArticleIs DEF StatusOf, QualityOf, Untouched
      <3> QED BY <3>1 DEF Judged, Untouched
    <2> QED BY <2>1, <2>2
  <1> QED BY <1>2, <1>4 DEF JudgeInv

\* The scans find nothing yet.
LEMMA NothingFound ==
    ASSUME RunInv, HType, Untouched, ~HandedOver, NEW scan \in DOMAIN NextScan
    PROVE  \A rows \in Found(scan) : rows = {}
  <1>1. CASE ~NoActiveRun
        BY <1>1 DEF Found
  <1>2. CASE NoActiveRun
    <2>1. run.status = "absent" /\ proposed = <<>> /\ approvals = <<>>
          BY <1>2 DEF NoActiveRun, HandedOver, Over, RunInv, Inv, TypeOK, RunRow, RunStatus,
             Untouched
    <2>2. \A j \in Jobs : ~(sent[j] > 0)
          BY <2>1 DEF RunInv, Inv, SendInv, NothingBeforeCreation
    <2>3. /\ \A t \in Topics : topic[t] = "absent"
          /\ \A x \in Targets : article[x] = "absent"
          BY <2>2 DEF RunInv, Inv, TypeOK, TablesInv, ResultsInv, Answered, Jobs
    <2>4. \A a \in Articles : StatusOf(a) = "absent"
          BY <2>3, ArticleIs DEF StatusOf, Untouched
    <2>5. /\ TopicsIn("candidate") = {} /\ TopicsIn("approved") = {}
          /\ ArticlesIn("draft") = {} /\ ArticlesIn("scored") = {}
          BY <2>3, <2>4 DEF TopicsIn, ArticlesIn
    <2>6. /\ PendingCandidates = {} /\ PendingApprovedTopics = {}
          /\ DraftArticlesPendingEvaluation = {}
          BY <2>5 DEF PendingCandidates, PendingApprovedTopics,
             DraftArticlesPendingEvaluation, FirstOf
    <2>7. /\ ScoredTopicsWithoutTransition = {}
          /\ ArticleEvaluationsWithoutTransition = {}
          /\ ScoredArticlesWithoutDecision = {}
          BY <2>5 DEF ScoredTopicsWithoutTransition, ArticleEvaluationsWithoutTransition,
             ScoredArticlesWithoutDecision, Evaluated
    <2>8. \A s \in DOMAIN NextScan : \A rows \in Found(s) : rows = {}
      <3>1. \A limit : \A rows \in SomeOf({}, limit) : rows = {}
            BY SomeOfIs
      <3> QED BY <1>2, <2>6, <2>7, <3>1 DEF Found, NextScan
    <2> QED BY <2>8
  <1> QED BY <1>1, <1>2

\* Only the scout proposes topics.
LEMMA NewTopics ==
    ASSUME RunInv, Next
    PROVE  LET new == {t \in Topics : topic[t] = "absent" /\ topic'[t] # "absent"}
           IN  new = {} \/ \E t \in Topics : new = {t}
  <1> DEFINE new == {t \in Topics : topic[t] = "absent" /\ topic'[t] # "absent"}
  <1> SUFFICES new = {} \/ \E t \in Topics : new = {t}
      OBVIOUS
  <1>1. Inv /\ TypeOK /\ OpenRows /\ GateInv
        BY DEF RunInv, Inv, LockInv, TablesInv
  <1>2. ASSUME topic' = topic PROVE new = {}
        BY <1>2
  <1>3. ASSUME NEW c \in Cores, ReconcileStage(c) PROVE new = {}
    <2>1. StageStep(c)
          BY <1>1, <1>3, SourceFetchStep, TopicScoutStep, TopicEvaluateStep,
             ArticleWriteStep, ArticleEvaluateStep, HumanReviewStep DEF ReconcileStage
    <2>2. CASE GoesOn(c) \/ Rollback(c)
          BY <1>2, <2>2 DEF GoesOn, Advance, Rollback
    <2>3. CASE Publishes(c)
      <3>1. topic' = [t \in Topics |-> SeenTopic(c, t)]
            BY <2>3 DEF Publishes, Commit
      <3>2. \A t \in Topics : txn[c].topic[t] # Unwritten => topic[t] # "absent"
            BY <1>1 DEF GateInv, GateOpen
      <3> QED BY <3>1, <3>2 DEF SeenTopic
    <2> QED BY <2>1, <2>2, <2>3 DEF StageStep
  <1>4. CASE CoreStep
        BY <1>2, <1>3, <1>4
        DEF CoreStep, CreateContentRun, BeginReconcile, CrashInReconcile, Rollback
  <1>5. CASE AgentStep
    <2>1. ASSUME NEW t \in Topics, ProposeTopic(t) PROVE new = {t}
          BY <1>1, <2>1 DEF ProposeTopic, TypeOK
    <2> HIDE DEF new
    <2> QED BY <1>2, <1>5, <2>1
            DEF AgentStep, FetchItems, EvaluateTopic, WriteArticle, EvaluateArticle,
                ReportSuccess, ReportFailure
  <1>6. CASE OutsideStep
    <2>1. ASSUME NEW t \in Topics, RejectTopic(t) PROVE new = {}
          BY <1>1, <2>1 DEF RejectTopic, TypeOK
    <2>2. ASSUME NEW t \in Topics, TransitionWritten(t) PROVE new = {}
          BY <1>1, <2>2 DEF TransitionWritten, TypeOK
    <2>3. ASSUME NEW x \in Targets, NEW to \in {"approved", "rejected"}, ReviewArticle(x, to)
          PROVE  new = {}
          BY <1>2, <2>3 DEF ReviewArticle
    <2> HIDE DEF new
    <2> QED BY <1>6, <2>1, <2>2, <2>3 DEF OutsideStep
  <1> QED BY <1>4, <1>5, <1>6 DEF Next

\* A step of the run, with its topics noted.
LEMMA RunStepUntouched ==
    ASSUME RunInv, HType, Untouched, RunStep
    PROVE  RunInv' /\ HType' /\ Untouched'
  <1> DEFINE new == {t \in Topics : topic[t] = "absent" /\ topic'[t] # "absent"}
  <1>1. /\ Next /\ proposed' = proposed \o SetToSeq(new)
        /\ UNCHANGED <<approvals, keys, dispatched, done, lost, rewrite, judged, tick>>
        BY DEF RunStep
  <1>2. RunInv'
        BY <1>1, RunNext
  <1>3. new = {} \/ \E t \in Topics : new = {t}
        BY <1>1, NewTopics
  <1> HIDE DEF new
  <1>4. proposed' \in Seq(Topics)
    <2>1. CASE new = {}
      <3>1. proposed' = proposed \o <<>>
            BY <1>1, <2>1, SetToSeqEmpty
      <3> QED BY <3>1 DEF HType
    <2>2. ASSUME NEW t \in Topics, new = {t} PROVE proposed' \in Seq(Topics)
      <3>1. proposed' = proposed \o <<t>>
            BY <1>1, <2>2, SetToSeqOne
      <3> QED BY <3>1 DEF HType
    <2> QED BY <1>3, <2>1, <2>2
  <1>5. HType'
        BY <1>1, <1>4 DEF HType
  <1>6. Untouched'
        BY <1>1 DEF Untouched
  <1> QED BY <1>2, <1>5, <1>6

\* The harvester finds nothing to do, and nobody has given it anything.
LEMMA IdleHarvester ==
    ASSUME RunInv, HType, Untouched, ~HandedOver, HNext, ~RunStep,
           \A t \in Topics : ~ScoutTopic(t)
    PROVE  RunInv' /\ HType' /\ Untouched'
  <1>1. TypeOK
        BY DEF RunInv, Inv
  <1>2. ASSUME NEW c \in Cores PROVE ~Transaction(c)
    <2>1. \A scan, row : ~TakeUp(c, scan, row)
          BY DEF TakeUp, Untouched
    <2> QED BY <2>1 DEF Transaction, enqueueOne, transitionScored, enqueueTopicWriting,
               enqueueArticleEvaluation, transitionArticleEvaluations,
               moveArticleToPendingReview, enqueueArticleRewrite
  <1>3. ~Labour
    <2>1. \A j \in HarvestJobs : ~Open(j)
          BY OpenIs DEF Untouched
    <2> QED BY <2>1, HarvestJobsAre DEF Labour, EvaluateCandidate, WriteVersion,
               JudgeArticle, LoseJob, WriteJob, JudgeJob
  <1>4. ASSUME NEW t \in Topics PROVE ~ApproveTopic(t)
        BY <1>1, TableIs DEF ApproveTopic, RunInv, StatusInv, RunTopicStatus, TypeOK
  <1>5. ASSUME NEW a \in Rewrites, NEW to PROVE ~ReviewRewrite(a, to)
        BY DEF ReviewRewrite, Untouched
  <1>6. PICK c \in Cores : Scan(c) \/ Crash(c)
        BY <1>2, <1>3, <1>4, <1>5 DEF HNext, Steady
  <1>7. UNCHANGED <<vars, proposed, approvals, keys, dispatched, done, lost, rewrite, judged>>
        BY <1>6 DEF Scan, Crash
  <1>8. /\ tick' \in [Cores -> [at : DOMAIN NextScan, rows : SUBSET Row]]
        /\ \A d \in Cores : tick'[d].rows = {}
    <2>1. CASE Scan(c)
      <3>1. PICK scan \in DOMAIN NextScan, rows \in SUBSET Row :
                /\ rows \in Found(scan) /\ tick'[c].at = scan /\ tick'[c].rows = rows
                /\ \A d \in Cores : d # c => tick'[d] = tick[d]
                /\ tick' \in [Cores -> [at : DOMAIN NextScan, rows : SUBSET Row]]
            BY <1>1, <2>1, ScanIs
      <3>2. rows = {}
            BY <1>1, <3>1, NothingFound
      <3> QED BY <3>1, <3>2 DEF Untouched
    <2>2. CASE Crash(c)
          BY <2>2, CrashIs DEF Untouched
    <2> QED BY <1>6, <2>1, <2>2
  <1>9. RunInv'
        BY <1>7, RunNext
  <1>10. HType'
        BY <1>7, <1>8 DEF HType
  <1>11. Untouched'
        BY <1>7, <1>8 DEF Untouched
  <1> QED BY <1>9, <1>10, <1>11

\* An untouched state keeps the invariant, whether the run has just ended or not.
LEMMA UntouchedHolds ==
    ASSUME RunInv, HType, Untouched
    PROVE  HInv
  <1>1. Inv /\ WorkInv
        BY UntouchedWork DEF RunInv
  <1>2. HandedOver /\ ~RetriesAfterFailure => JudgeInv
        BY LeftBehind DEF HandedOver
  <1> QED BY <1>1, <1>2 DEF HInv

LEMMA HInvNext ==
    ASSUME HInv, [HNext]_allVars
    PROVE  HInv'
  <1>1. CASE HandedOver
    <2>1. Stands /\ HandedOver'
          BY <1>1, HandedOverStands DEF HInv, Sound
    <2> QED BY <1>1, <2>1 DEF HInv, Stands
  <1>2. CASE ~HandedOver
    <2>1. RunInv /\ HType /\ Untouched
          BY <1>2 DEF HInv
    <2>2. RunInv' /\ HType' /\ Untouched' => HInv'
          BY UntouchedHolds, PTL
    <2>3. CASE UNCHANGED allVars
      <3>1. UNCHANGED vars /\ UNCHANGED harvestVars
            BY <2>3 DEF allVars
      <3>2. RunInv'
            BY <2>1, <3>1, RunNext
      <3> QED BY <2>1, <2>2, <3>1, <3>2 DEF harvestVars, HType, Untouched
    <2>4. CASE RunStep
          BY <2>1, <2>2, <2>4, RunStepUntouched
    <2>5. ASSUME NEW t \in Topics, ScoutTopic(t) PROVE HInv'
      <3>1. Stands
            BY <2>5, ScoutTopicStands DEF HInv, Sound
      <3>2. ~RetriesAfterFailure => JudgeInv
            BY <2>1, <2>5, LeftBehind DEF ScoutTopic
      <3>3. HandedOver'
        <4>1. run'.status = "absent" /\ proposed \in Seq(Topics)
              /\ proposed' = Append(proposed, t)
              BY <2>5 DEF ScoutTopic, HInv, HType
        <4>2. proposed' # <<>>
              BY <4>1
        <4> QED BY <4>1, <4>2 DEF HandedOver
      <3> QED BY <3>1, <3>2, <3>3 DEF HInv, Stands
    <2> QED BY <1>2, <2>1, <2>2, <2>3, <2>4, <2>5, IdleHarvester
  <1> QED BY <1>1, <1>2

LEMMA HInvInit == HInit => HInv
  <1> SUFFICES ASSUME HInit PROVE HInv
      OBVIOUS
  <1>1. RunInv
        BY RunInit DEF HInit
  <1>2. HType
        BY DEF HInit, HType, NotTicking, NextScan, Row
  <1>3. Untouched
        BY DEF HInit, Untouched, NotTicking
  <1> QED BY <1>1, <1>2, <1>3, UntouchedHolds

LEMMA HInvariance == HSpec => []HInv
  BY HInvInit, HInvNext, PTL DEF HSpec

-----------------------------------------------------------------------------
(* One job at a time.                                                       *)

LEMMA AtMostOne ==
    ASSUME NEW S, \A a, b \in S : a = b
    PROVE  Cardinality(S) \in {0, 1}
  <1>1. CASE S = {}
        BY <1>1, FS_EmptySet
  <1>2. CASE S # {}
    <2>1. PICK a : S = {a}
          BY <1>2
    <2> QED BY <2>1, FS_Singleton
  <1> QED BY <1>1, <1>2

\* The jobs out for an article tell its status, and that of its versions.
LEMMA OneVersionAlive ==
    ASSUME HType, WorkInv, NEW x \in Targets,
           NEW v \in 1..maxArticleVersion, NEW w \in 1..maxArticleVersion, v < w,
           WriteJob(<<x, w>>) \in keys \/ StatusOf(<<x, w>>) # "absent"
    PROVE  StatusOf(<<x, v>>) = "rewrite_queued"
  <1>1. <<x, w>> \in Articles /\ <<x, w>>[2] > 1
    <2>1. w > 1
          BY HarvesterAssumption
    <2> QED BY <2>1, TargetIs
  <1>2. WriteJob(<<x, w>>) \in keys
        BY <1>1 DEF HType, WorkInv, Written
  <1> QED BY <1>2 DEF WorkInv, InSequence

LEMMA OneOpen ==
    ASSUME HType, WorkInv, \A a \in Articles : Judged(a), NEW x \in Targets
    PROVE  \A j, k \in {"article_write", "article_evaluate"} \X ({x} \X (1..maxArticleVersion)) :
               Open(j) /\ Open(k) => j = k
  <1> DEFINE all == {"article_write", "article_evaluate"} \X ({x} \X (1..maxArticleVersion))
             Status(j) == IF j[1] = "article_write" THEN "absent" ELSE "draft"
  <1>1. ASSUME NEW j \in all, Open(j)
        PROVE  /\ j[2][2] \in 1..maxArticleVersion
               /\ j = <<j[1], <<x, j[2][2]>>>>
               /\ StatusOf(<<x, j[2][2]>>) = Status(j)
               /\ WriteJob(<<x, j[2][2]>>) \in keys \/ StatusOf(<<x, j[2][2]>>) # "absent"
    <2>1. PICK v \in 1..maxArticleVersion :
              j = WriteJob(<<x, v>>) \/ j = JudgeJob(<<x, v>>)
          BY DEF WriteJob, JudgeJob
    <2>2. <<x, v>> \in Articles
          BY TargetIs
    <2>3. CASE j = WriteJob(<<x, v>>)
      <3>1. j \in keys \ done
            BY <1>1, <2>2, <2>3, HarvestJobsAre, OpenIs
      <3>2. StatusOf(<<x, v>>) = "absent"
            BY <2>2, <2>3, <3>1 DEF WorkInv, Written
      <3> QED BY <2>3, <3>1, <3>2 DEF WriteJob
    <2>4. CASE j = JudgeJob(<<x, v>>)
      <3>1. j \in keys \ (done \cup lost)
            BY <1>1, <2>2, <2>4, HarvestJobsAre, OpenIs
      <3>2. StatusOf(<<x, v>>) = "draft"
            BY <2>2, <2>4, <3>1 DEF Judged
      <3> QED BY <2>4, <3>2 DEF JudgeJob
    <2> QED BY <2>1, <2>3, <2>4
  <1>2. ASSUME NEW j \in all, NEW k \in all, Open(j), Open(k), j[2][2] < k[2][2]
        PROVE  FALSE
    <2>1. StatusOf(<<x, j[2][2]>>) = "rewrite_queued"
          BY <1>1, <1>2, OneVersionAlive
    <2> QED BY <1>1, <1>2, <2>1
  <1>3. ASSUME NEW j \in all, NEW k \in all, Open(j), Open(k)
        PROVE  j = k
    <2>1. PICK v, w : v = j[2][2] /\ w = k[2][2]
          OBVIOUS
    <2>2. v \in Nat /\ w \in Nat /\ ~(v < w) /\ ~(w < v)
          BY <1>1, <1>2, <1>3, <2>1, HarvesterAssumption
    <2>3. v = w
          BY <2>2
    <2>4. Status(j) = Status(k)
          BY <1>1, <1>3, <2>1, <2>3
    <2>5. j[1] = k[1]
          BY <2>4
    <2> QED BY <1>1, <1>3, <2>1, <2>3, <2>5
  <1> QED BY <1>3

\* As long as the run goes on, an article is evaluated when it has been written.
LEMMA WrittenBeforeEvaluated ==
    ASSUME ~RetriesAfterFailure, RunInv, NEW x \in Targets,
           sent[<<"article_evaluate", x>>] > 0
    PROVE  <<"article_write", x>> \in succeeded
  <1>1. /\ TypeOK /\ ResultsInv /\ InLine(run) /\ Whole(run, Idle)
        BY DEF RunInv, Inv, TablesInv, LineInv, BarrierInv, BarrierClosed
  <1> DEFINE job == <<"article_evaluate", x>>
  <1>2. job \in Jobs
        BY TargetIs
  <1>3. PICK n \in Stages : job \in JobsOf(run, n)
        BY <1>1, <1>2, IdleSees DEF Whole
  <1>4. x \in run.input["article_evaluate"].items
        BY <1>3 DEF Stages, JobsOf, ScoutJob
  <1>5. run.input["article_evaluate"] # NoSnapshot
        BY <1>4 DEF NoSnapshot
  <1>6. /\ "article_write" \in Nodes /\ "article_evaluate" \in Nodes
        /\ NodeIndex["article_evaluate"] = NodeIndex["article_write"] + 1
        BY DEF Nodes, NodeIndex
  <1>7. run.input["article_evaluate"] = run.output["article_write"]
        BY <1>1, <1>5, <1>6 DEF InLine, Line!InOrder, Line!Before
  <1>8. run.output["article_write"].taken
        BY <1>1, <1>5, <1>6, <1>7 DEF InLine, WellFormed
  <1>9. run.output["article_write"].items = Results("article_write")
        BY <1>1, <1>8 DEF Whole, Stages
  <1>10. article[x] # "absent"
        BY <1>4, <1>7, <1>9 DEF Results
  <1> QED BY <1>1, <1>10 DEF ResultsInv

LEMMA OneJob == HInv => OneJobAtATime
  <1> SUFFICES ASSUME HInv, ~RetriesAfterFailure PROVE OneJobAtATime
      BY DEF OneJobAtATime
  <1> DEFINE RunOpen(j) == sent[j] > 0 /\ j \notin succeeded \cup failed
             Out(j) == IF RunOpen(j) THEN 1 ELSE 0
             HarvestOut(js) == Cardinality({j \in js : Open(j)})
             one(t) == {<<"topic_evaluate", t>>}
             all(x) == {"article_write", "article_evaluate"}
                           \X ({x} \X (1..maxArticleVersion))
  <1>1. HType /\ WorkInv
        BY DEF HInv
  <1>2. \A j \in HarvestJobs : dispatched[j] <= 1
        BY <1>1 DEF HType
  <1>3. \A j : Out(j) \in {0, 1}
        OBVIOUS
  <1>4. \A x \in Targets : all(x) \subseteq HarvestJobs
    <2>1. ASSUME NEW x \in Targets, NEW j \in all(x) PROVE j \in HarvestJobs
      <3>1. PICK v \in 1..maxArticleVersion :
                j = WriteJob(<<x, v>>) \/ j = JudgeJob(<<x, v>>)
            BY <2>1 DEF WriteJob, JudgeJob
      <3> QED BY <3>1, TargetIs, HarvestJobsAre
    <2> QED BY <2>1
  <1>5. CASE HandedOver
    <2>1. \A j \in Jobs : ~RunOpen(j)
          BY <1>5 DEF HInv, JudgeInv, Answered
    <2>2. ASSUME NEW t \in Topics
          PROVE  Out(<<"topic_evaluate", t>>) = 0 /\ HarvestOut(one(t)) \in {0, 1}
      <3>1. HarvestOut(one(t)) \in {0, 1}
            BY AtMostOne
      <3> QED BY <2>1, <3>1 DEF Jobs
    <2>3. ASSUME NEW x \in Targets
          PROVE  /\ Out(<<"article_write", x>>) = 0 /\ Out(<<"article_evaluate", x>>) = 0
                 /\ HarvestOut(all(x)) \in {0, 1}
      <3>1. \A j, k \in all(x) : Open(j) /\ Open(k) => j = k
            BY <1>1, <1>5, OneOpen DEF HInv, JudgeInv
      <3>2. HarvestOut(all(x)) \in {0, 1}
            BY <3>1, AtMostOne
      <3> QED BY <2>1, <3>2, TargetIs
    <2> HIDE DEF Out, HarvestOut
    <2>4. /\ \A t \in Topics : Out(<<"topic_evaluate", t>>) + HarvestOut(one(t)) <= 1
          /\ \A x \in Targets : Out(<<"article_write", x>>) + Out(<<"article_evaluate", x>>)
                                + HarvestOut(all(x)) <= 1
          BY <2>2, <2>3
    <2> QED BY <1>2, <2>4 DEF OneJobAtATime, Out, HarvestOut
  <1>6. CASE ~HandedOver
    <2>1. RunInv /\ keys = {}
          BY <1>6 DEF HInv, Untouched
    <2>2. \A j \in HarvestJobs : ~Open(j)
          BY <1>1, <2>1, OpenIs
    <2>3. ASSUME NEW t \in Topics
          PROVE  HarvestOut(one(t)) = 0
      <3>1. {j \in one(t) : Open(j)} = {}
            BY <2>2, HarvestJobsAre
      <3> QED BY <3>1, FS_EmptySet
    <2>4. ASSUME NEW x \in Targets
          PROVE  HarvestOut(all(x)) = 0
      <3>1. {j \in all(x) : Open(j)} = {}
            BY <1>4, <2>2
      <3> QED BY <3>1, FS_EmptySet
    <2>5. ASSUME NEW x \in Targets
          PROVE  Out(<<"article_write", x>>) = 0 \/ Out(<<"article_evaluate", x>>) = 0
          BY <2>1, WrittenBeforeEvaluated
    <2> HIDE DEF Out, HarvestOut
    <2>6. /\ \A t \in Topics : Out(<<"topic_evaluate", t>>) + HarvestOut(one(t)) <= 1
          /\ \A x \in Targets : Out(<<"article_write", x>>) + Out(<<"article_evaluate", x>>)
                                + HarvestOut(all(x)) <= 1
          BY <1>3, <2>3, <2>4, <2>5
    <2> QED BY <1>2, <2>6 DEF OneJobAtATime, Out, HarvestOut
  <1> QED BY <1>5, <1>6

-----------------------------------------------------------------------------
\* Between them the run and the harvester never have two jobs out for the same
\* topic, nor for the same article in whatever version: whoever takes over does
\* so when nothing is under way.
THEOREM OneAtATime == HSpec => []OneJobAtATime
  BY HInvariance, OneJob, PTL

\* A version makes room for the next exactly when that is asked for, and no
\* version is written before it was: whichever Core instances decide about an
\* article, wherever they crash, and whatever a failed job still does.
THEOREM VersionsInLine == HSpec => []RewritesInLine
  <1>1. ASSUME HInv PROVE RewritesInLine
    <2>1. HType /\ WorkInv
          BY <1>1 DEF HInv
    <2>2. ASSUME NEW a \in Rewrites
          PROVE  LET before == StatusOf(<<a[1], a[2] - 1>>)
                 IN  /\ before = "rewrite_queued" <=> dispatched[<<"article_write", a>>] > 0
                     /\ rewrite[a] # "absent" => before = "rewrite_queued"
      <3>1. PICK x \in Targets, w \in 2..maxArticleVersion : a = <<x, w>>
            BY DEF Rewrites
      <3>2. PICK v : v = w - 1
            OBVIOUS
      <3>3. /\ v \in 1..maxArticleVersion /\ w \in 1..maxArticleVersion
            /\ v < w /\ v + 1 = w
            BY <3>2, HarvesterAssumption
      <3>4. a \in Articles /\ a[2] > 1 /\ WriteJob(a) \in HarvestJobs
        <4>1. w > 1
              BY HarvesterAssumption
        <4> QED BY <3>1, <3>3, <4>1, TargetIs, HarvestJobsAre
      <3>5. StatusOf(<<x, v>>) = "rewrite_queued" <=> WriteJob(a) \in keys
            BY <2>1, <3>1, <3>3 DEF WorkInv, InSequence
      <3>6. dispatched[WriteJob(a)] > 0 <=> WriteJob(a) \in keys
            BY <2>1, <3>4 DEF HType
      <3>7. rewrite[a] # "absent" => WriteJob(a) \in keys
        <4>1. StatusOf(a) = rewrite[a]
              BY <3>4 DEF StatusOf
        <4> QED BY <2>1, <3>4, <4>1 DEF WorkInv, Written, HType
      <3>8. <<a[1], a[2] - 1>> = <<x, v>>
            BY <3>1, <3>2
      <3> QED BY <3>5, <3>6, <3>7, <3>8 DEF WriteJob
    <2> QED BY <2>2 DEF RewritesInLine
  <1> QED BY <1>1, HInvariance, PTL

\* What a human is asked to review has passed its evaluation, or has been
\* rewritten as often as it may be, whether the run or the harvester brought it
\* to the desk.
THEOREM DeskEarned == HSpec => []DeskIsEarned
  <1>1. ASSUME HInv, ~RetriesAfterFailure, NEW a \in Articles,
               StatusOf(a) \in {"pending_review", "approved"}
        PROVE  QualityOf(a) = "pass" \/ a[2] = maxArticleVersion
    <2>1. CASE HandedOver
          BY <1>1, <2>1 DEF HInv, JudgeInv, Judged
    <2>2. CASE ~HandedOver
      <3>1. RunInv /\ Untouched
            BY <1>1, <2>2 DEF HInv
      <3>2. a[2] = 1 /\ a[1] \in Targets
            BY <1>1, <3>1, ArticleIs DEF Untouched, StatusOf
      <3>3. article[a[1]] \in {"pending_review", "approved"}
            BY <1>1, <3>2 DEF StatusOf
      <3>4. run.status \in {"absent", "queued", "running", "waiting_human_review"}
            BY <2>2, <3>1 DEF HandedOver, Over, RunInv, Inv, TypeOK, RunRow, RunStatus
      <3>5. DeskClosed
            BY <3>1 DEF RunInv, TablesInv, DeskInv
      <3>6. quality[a[1]] = "pass"
            BY <3>2, <3>3, <3>4, <3>5, IdleSees DEF DeskClosed, DeskIs, OnDesk
      <3> QED BY <3>2, <3>6 DEF QualityOf
    <2> QED BY <2>1, <2>2
  <1>2. HInv => DeskIsEarned
        BY <1>1 DEF DeskIsEarned
  <1> QED BY <1>2, HInvariance, PTL
===============================================================================
