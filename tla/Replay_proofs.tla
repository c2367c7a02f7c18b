---------------------------- MODULE Replay_proofs ----------------------------
(***************************************************************************)
(* Theorems about Replay, for any number of replays of replays, any        *)
(* sources and topics, any nodes and modes that are asked for.             *)
(***************************************************************************)
EXTENDS Replay, FiniteSetTheorems, TLAPS

Working == {"topic_evaluate", "article_write", "article_evaluate"}
                \* the nodes that have a job for each item
Fed == {"topic_scout"} \cup Working
Answers == {"none", "failed", "done", "pass", "low"}

InputsOf == [source_fetch  |-> Sources, topic_scout   |-> Sources, topic_evaluate   |-> Topics,
             article_write |-> Topics,  article_evaluate |-> Articles, human_review |-> Articles]
OutputsOf == [source_fetch  |-> Sources,  topic_scout   |-> Topics, topic_evaluate   |-> Topics,
              article_write |-> Articles, article_evaluate |-> Articles, human_review |-> Articles]

RunStatus == {"absent", "queued", "running", "waiting_human_review", "completed",
              "completed_empty", "failed", "cancelled"}
RunRow == [status : RunStatus, parent : Runs, start : NodeOrder,
           mode : {"full", "failed_items", "selected_items", "evaluate_only"},
           selected : SUBSET Item, node : [NodeOrder -> {"queued", "succeeded", "skipped"}],
           input : [NodeOrder -> Snapshot], output : [NodeOrder -> Snapshot],
           desk : SUBSET Articles]

\* A row has the items of its nodes in its snapshots.
RowType(row) ==
    /\ row \in RunRow
    /\ \A n \in NodeOrder :
          /\ row.input[n].items \subseteq InputsOf[n]
          /\ row.output[n].items \subseteq OutputsOf[n]
          /\ ~row.input[n].taken => row.input[n].items = {}
          /\ ~row.output[n].taken => row.output[n].items = {}

TypeOK ==
    /\ DOMAIN rows = Runs /\ \A r \in Runs : RowType(rows[r])
    /\ sent \in [Runs -> [Jobs -> Nat]]
    /\ queued \in [Runs -> SUBSET Jobs]
    /\ answer \in [Runs -> [Jobs -> Answers]]
    /\ raw \in [Runs -> SUBSET Sources]
    /\ owner \in [Topics -> Runs]
    /\ topic \in [Topics -> TopicStatus \cup {"absent"}]
    /\ article \in [Articles -> ArticleStatus \cup {"absent"}]

-----------------------------------------------------------------------------
(* Jobs.                                                                    *)

\* The jobs a run has given out.
Given(r) == {j \in Jobs : sent[r][j] > 0}

\* A run that is not there gives out none, none is answered or has an event
\* that was not given out, none is given out twice, and only those a replay
\* starts with have no event.
JobsInv ==
    \A r \in Runs, j \in Jobs :
        /\ ~Exists(r) => sent[r][j] = 0
        /\ answer[r][j] # "none" => sent[r][j] > 0
        /\ j \in queued[r] => sent[r][j] > 0
        /\ (r \in Children /\ sent[r][j] > 0 /\ j \notin queued[r]) => j[1] = rows[r].start
        /\ sent[r][j] <= 1

-----------------------------------------------------------------------------
(* The row of a run and its jobs.                                           *)

\* What a node makes of its input.
Made(r, row, n) ==
    CASE n = "topic_scout" -> {t \in Topics : topic[t] # "absent" /\ owner[t] = r}
      [] n = "topic_evaluate" -> {t \in row.input[n].items : answer[r][<<n, t>>] = "pass"}
      [] n = "article_write" -> {x \in row.input[n].items \X {r} : article[x] # "absent"}

\* All that a node has asked for has been answered.
Done(r, row, n) ==
    IF n = "topic_scout" THEN answer[r][ScoutJob] # "none"
    ELSE \A i \in row.input[n].items : answer[r][<<n, i>>] # "none"

\* A node that is not the run's first works from what the node before, which is
\* not the last, put out.
Linked(row, m, n) ==
    (row.input[n].taken /\ row.start # n) =>
        /\ row.output[m].taken /\ row.output[m].items # {} /\ row.input[n] = row.output[m]
        /\ ~(row.mode = "evaluate_only" /\ row.start = m)

\* Everything is asked for of which the run knows that it must be.
AsksForAll(row, n, G) ==
    (row.start # n \/ (row.mode \in {"full", "evaluate_only"} /\ row.selected = {})) =>
        \A i \in row.input[n].items : <<n, i>> \in G

\* A row of run r that goes with the jobs G.
RowOK(r, row, G) ==
    /\ RowType(row)
    /\ \A n \in NodeOrder : NodeIndex[n] < NodeIndex[row.start] =>
           ~row.input[n].taken /\ ~row.output[n].taken
    /\ row.start # "source_fetch" => row.input[row.start].taken
    /\ \A s \in Sources : <<"source_fetch", s>> \in G => row.start = "source_fetch"
    /\ ScoutJob \in G => row.input["topic_scout"].taken
    /\ \A n \in Working, i \in Item : <<n, i>> \in G => i \in row.input[n].items
    /\ \A n \in Working : AsksForAll(row, n, G)
    /\ Linked(row, "source_fetch", "topic_scout")
    /\ Linked(row, "topic_scout", "topic_evaluate")
    /\ Linked(row, "topic_evaluate", "article_write")
    /\ Linked(row, "article_write", "article_evaluate")
    /\ row.input["human_review"].taken => row.start = "human_review"
    /\ \A n \in Fed : row.output[n].taken => row.input[n].taken
    /\ \A n \in Fed \ {"article_evaluate"} :
           row.output[n].taken => row.output[n].items = Made(r, row, n) /\ Done(r, row, n)
    /\ row.output["source_fetch"].items \subseteq raw[r]

\* While the run goes on, a node that is closed has its successor at work.
Proceeding(row) ==
    /\ row.output["source_fetch"].taken => row.input["topic_scout"].taken
    /\ row.output["topic_scout"].taken => row.input["topic_evaluate"].taken
    /\ row.output["topic_evaluate"].taken => row.input["article_write"].taken
    /\ row.output["article_write"].taken => row.input["article_evaluate"].taken
    /\ ~row.output["article_evaluate"].taken

\* All jobs but fetches are answered.
Drained(r, G) ==
    /\ ScoutJob \in G => answer[r][ScoutJob] # "none"
    /\ \A n \in Working, i \in Item : <<n, i>> \in G => answer[r][<<n, i>>] # "none"

\* Articles that have passed an evaluation of the run.
Passed(r) == {x \in Articles : answer[r][<<"article_evaluate", x>>] = "pass"}

\* The run whose evaluations fill the desk of the run r with this row.
Judge(r, row) == IF row.start = "human_review" THEN row.parent ELSE r

Waiting(row) == row.status = "waiting_human_review"

\* The rows of all runs.
RowsInv ==
    /\ \A r \in Children : Exists(r) =>
          /\ RowOK(r, rows[r], Given(r))
          /\ Active(r) => rows[r].start # "human_review" /\ Proceeding(rows[r])
          /\ ~Active(r) => Drained(r, Given(r))
    /\ \A r \in Runs :
          /\ Waiting(rows[r]) <=> rows[r].desk # {}
          /\ rows[r].desk \subseteq Passed(Judge(r, rows[r]))
          /\ rows[r].output["article_evaluate"].items \subseteq Passed(r)
    /\ Exists(Root)

\* The parent of a replay has what the replay began with.
ParentsInv ==
    \A r \in Children : Exists(r) =>
        /\ Exists(rows[r].parent)
        /\ rows[r].start # "source_fetch" =>
               /\ rows[rows[r].parent].output[PreviousNode(rows[r].start)].taken
               /\ rows[r].input[rows[r].start] =
                      rows[rows[r].parent].output[PreviousNode(rows[r].start)]

IInv == TypeOK /\ JobsInv /\ RowsInv /\ ParentsInv /\ TopicsInWritingHaveWriters

-----------------------------------------------------------------------------
(* A walk.                                                                  *)

Seen(r, w) == Given(r) \cup w.jobs
Final == {"completed", "completed_empty", "failed", "cancelled"}

WalkType(w) ==
    /\ w = [row |-> w.row, jobs |-> w.jobs, topic |-> w.topic, article |-> w.article,
            walks |-> w.walks, fails |-> w.fails]
    /\ RowType(w.row) /\ w.jobs \subseteq Jobs
    /\ w.topic \in [Topics -> TopicStatus \cup {"absent"}]
    /\ w.article \in [Articles -> ArticleStatus \cup {"absent"}]
    /\ w.walks \in BOOLEAN /\ w.fails \in BOOLEAN

\* q is row, further on.
SameRun(row, q) ==
    /\ q.parent = row.parent /\ q.start = row.start
    /\ q.mode = row.mode /\ q.selected = row.selected
Keeps(row, q) ==
    /\ SameRun(row, q)
    /\ \A n \in NodeOrder : /\ row.input[n].taken => q.input[n] = row.input[n]
                            /\ row.output[n].taken => q.output[n] = row.output[n]

\* The walk has come to the k-th node, and the run goes on there ...
Going(r, w, k) ==
    /\ w.walks /\ k <= 4
    /\ w.row.status = "running" /\ Proceeding(w.row)
    /\ (k > 1 /\ ScoutJob \in Seen(r, w)) => answer[r][ScoutJob] # "none"
    /\ \A n \in Working, i \in Item :
           NodeIndex[n] < k /\ <<n, i>> \in Seen(r, w) => answer[r][<<n, i>>] # "none"
    /\ \A n \in Fed : NodeIndex[n] = k => w.row.input[n].taken \/ k < NodeIndex[w.row.start]
\* ... or it waits for answers ...
Stopped(w) == ~w.walks /\ w.row.status = "running" /\ Proceeding(w.row)
\* ... or has ended before ...
Ended(r, w, k) ==
    /\ w.row.status \in Final
    /\ k > NodeIndex[w.row.start]
    /\ Drained(r, Seen(r, w))
    /\ \A n \in NodeOrder : NodeIndex[n] >= k => ~w.row.input[n].taken
\* ... or is on somebody's desk.
AtDesk(r, w, k) ==
    /\ w.walks /\ k >= 5
    /\ w.row.status = "waiting_human_review"
    /\ k = 6 => w.row.desk # {}
    /\ Drained(r, Seen(r, w))

\* Why a topic is in writing.
WritingIsDue(r, w) ==
    \A t \in Topics : w.topic[t] = "in_writing" =>
        \/ topic[t] = "in_writing"
        \/ <<"article_write", t>> \in w.jobs
        \/ /\ w.row.mode = "evaluate_only" /\ w.row.start = "topic_evaluate"
           /\ answer[r][<<"topic_evaluate", t>>] = "pass"

\* The walk asks for no job that the run started with: it is past that node.
Ahead(row, jobs) == \A j \in jobs : j[1] # row.start

\* A walk of run r, at the k-th node, that is as it should be.
Fine(r, w, k) ==
    /\ WalkType(w) /\ ~w.fails
    /\ RowOK(r, w.row, Seen(r, w))
    /\ Keeps(rows[r], w.row)
    /\ \A t \in Topics : w.topic[t] = "absent" <=> topic[t] = "absent"
    /\ \A x \in Articles : w.article[x] = "absent" <=> article[x] = "absent"
    /\ WritingIsDue(r, w)
    /\ Ahead(w.row, w.jobs)
    /\ w.row.desk \subseteq Passed(r) /\ w.row.output["article_evaluate"].items \subseteq Passed(r)
    /\ ~Waiting(w.row) => w.row.desk = {}
    /\ w.row.start # "human_review"
    /\ Going(r, w, k) \/ Stopped(w) \/ Ended(r, w, k) \/ AtDesk(r, w, k)

-----------------------------------------------------------------------------
(* Nodes.                                                                   *)

\* The nodes, in their order.
LEMMA NodesInOrder ==
    /\ NodeOrder = {"source_fetch", "topic_scout", "topic_evaluate", "article_write",
                    "article_evaluate", "human_review"}
    /\ NodeIndex["source_fetch"] = 0 /\ NodeIndex["topic_scout"] = 1
    /\ NodeIndex["topic_evaluate"] = 2 /\ NodeIndex["article_write"] = 3
    /\ NodeIndex["article_evaluate"] = 4 /\ NodeIndex["human_review"] = 5
BY DEF NodeOrder, NodeIndex

\* Each node but the first has one before it.
LEMMA NodesBefore ==
    /\ PreviousNode("topic_scout") = "source_fetch"
    /\ PreviousNode("topic_evaluate") = "topic_scout"
    /\ PreviousNode("article_write") = "topic_evaluate"
    /\ PreviousNode("article_evaluate") = "article_write"
    /\ PreviousNode("human_review") = "article_evaluate"
<1>1. \A n \in NodeOrder, m \in NodeOrder :
          NodeIndex[m] + 1 = NodeIndex[n] => PreviousNode(n) = m
  <2> SUFFICES ASSUME NEW n \in NodeOrder, NEW m \in NodeOrder,
                      NodeIndex[m] + 1 = NodeIndex[n]
               PROVE  PreviousNode(n) = m
    OBVIOUS
  <2>1. \A k \in NodeOrder : NodeIndex[k] + 1 = NodeIndex[n] => k = m
    BY NodesInOrder
  <2> QED BY <2>1 DEF PreviousNode
<1> QED BY <1>1, NodesInOrder

\* What goes in and comes out of the nodes.
LEMMA ItemsOfNodes ==
    /\ InputsOf["source_fetch"] = Sources /\ InputsOf["topic_scout"] = Sources
    /\ InputsOf["topic_evaluate"] = Topics /\ InputsOf["article_write"] = Topics
    /\ InputsOf["article_evaluate"] = Articles /\ InputsOf["human_review"] = Articles
    /\ OutputsOf["source_fetch"] = Sources /\ OutputsOf["topic_scout"] = Topics
    /\ OutputsOf["topic_evaluate"] = Topics /\ OutputsOf["article_write"] = Articles
    /\ OutputsOf["article_evaluate"] = Articles /\ OutputsOf["human_review"] = Articles
    /\ \A n \in NodeOrder : InputsOf[n] \subseteq Item /\ OutputsOf[n] \subseteq Item
BY NodesInOrder DEF InputsOf, OutputsOf, Item

-----------------------------------------------------------------------------
(* What the helpers do to a row.                                            *)

\* Closing a node gives it an output, if it has none.
LEMMA CloseNodeIs ==
    ASSUME NEW row, RowType(row), NEW n \in NodeOrder, NEW items \in SUBSET OutputsOf[n]
    PROVE  LET q == CloseNode(row, n, items)
           IN  /\ RowType(q) /\ SameRun(row, q)
               /\ q.input = row.input /\ q.status = row.status /\ q.desk = row.desk
               /\ \A m \in NodeOrder : q.output[m] =
                     IF m = n /\ ~row.output[n].taken THEN Taken(items) ELSE row.output[m]
<1> DEFINE out == IF row.output[n].taken THEN row.output[n] ELSE Taken(items)
           nodes == [row.node EXCEPT ![n] = "succeeded"]
           outs == [row.output EXCEPT ![n] = out]
           q == [row EXCEPT !.node = nodes, !.output = outs]
<1>1. /\ row \in RunRow /\ items \subseteq Item
      BY ItemsOfNodes DEF RowType
<1>2. CloseNode(row, n, items) = q
  BY <1>1 DEF CloseNode, RunRow
<1>3. out \in Snapshot
  BY <1>1 DEF RunRow, Snapshot, Taken
<1>4. nodes \in [NodeOrder -> {"queued", "succeeded", "skipped"}] /\ outs \in [NodeOrder -> Snapshot]
      /\ \A m \in NodeOrder : outs[m] = IF m = n THEN out ELSE row.output[m]
  BY <1>1, <1>3 DEF RunRow
<1> HIDE DEF nodes, outs
<1>5. /\ q \in RunRow /\ q.output = outs /\ q.input = row.input /\ q.status = row.status
      /\ q.desk = row.desk /\ SameRun(row, q)
  BY <1>1, <1>4 DEF RunRow, SameRun
<1> HIDE DEF q
<1>6. RowType(q)
  BY <1>4, <1>5 DEF RowType, Taken
<1>7. \A m \in NodeOrder : q.output[m] =
          IF m = n /\ ~row.output[n].taken THEN Taken(items) ELSE row.output[m]
  BY <1>4, <1>5
<1> QED BY <1>2, <1>5, <1>6, <1>7

\* Binding gives the next node the output as its input, if it has none.
LEMMA BindInputIs ==
    ASSUME NEW row, RowType(row), NEW m \in NodeOrder, NEW n \in NodeOrder,
           OutputsOf[m] = InputsOf[n]
    PROVE  LET q == BindInput(row, m, n)
           IN  /\ RowType(q) /\ SameRun(row, q)
               /\ q.output = row.output /\ q.status = row.status /\ q.desk = row.desk
               /\ \A k \in NodeOrder : q.input[k] =
                     IF k = n /\ ~row.input[n].taken THEN row.output[m] ELSE row.input[k]
<1> DEFINE in == IF row.input[n].taken THEN row.input[n] ELSE row.output[m]
           ins == [row.input EXCEPT ![n] = in]
           q == [row EXCEPT !.input = ins]
<1>1. row \in RunRow
  BY DEF RowType
<1>2. BindInput(row, m, n) = q
  BY <1>1 DEF BindInput, RunRow
<1>3. in \in Snapshot
  BY <1>1 DEF RunRow
<1>4. ins \in [NodeOrder -> Snapshot]
      /\ \A k \in NodeOrder : ins[k] = IF k = n THEN in ELSE row.input[k]
  BY <1>1, <1>3 DEF RunRow
<1> HIDE DEF ins
<1>5. /\ q \in RunRow /\ q.input = ins /\ q.output = row.output /\ q.status = row.status
      /\ q.desk = row.desk /\ SameRun(row, q)
  BY <1>1, <1>4 DEF RunRow, SameRun
<1> HIDE DEF q
<1>6. RowType(q)
  BY <1>4, <1>5 DEF RowType
<1>7. \A k \in NodeOrder : q.input[k] =
          IF k = n /\ ~row.input[n].taken THEN row.output[m] ELSE row.input[k]
  BY <1>4, <1>5
<1> QED BY <1>2, <1>5, <1>6, <1>7

\* What has the same run and snapshots, whatever its status, nodes and desk.
SameLine(row, q) ==
    /\ RowType(q) /\ SameRun(row, q)
    /\ q.input = row.input /\ q.output = row.output
SameWork(row, q) == SameLine(row, q) /\ q.desk = row.desk

\* Completing, failing or stopping a run changes its status only ...
LEMMA StatusOnly ==
    ASSUME NEW row, RowType(row), NEW status \in RunStatus
    PROVE  SameWork(row, [row EXCEPT !.status = status])
           /\ [row EXCEPT !.status = status].status = status
<1>1. row \in RunRow
  BY DEF RowType
<1>2. LET q == [row EXCEPT !.status = status]
      IN  q \in RunRow /\ q.input = row.input /\ q.output = row.output /\ q.desk = row.desk
          /\ SameRun(row, q) /\ q.status = status
  BY <1>1 DEF RunRow, SameRun
<1> QED BY <1>2 DEF SameWork, SameLine, RowType

\* A run that is completed as empty stays what it was if it had ended.
LEMMA CompleteEmptyIs ==
    ASSUME NEW row, RowType(row)
    PROVE  /\ SameWork(row, CompleteEmpty(row))
           /\ CompleteEmpty(row).status = IF row.status \in Final THEN row.status ELSE "completed_empty"
<1>1. row.status \in RunStatus /\ "completed_empty" \in RunStatus
  BY DEF RowType, RunRow, RunStatus
<1> QED BY <1>1, StatusOnly DEF CompleteEmpty, Final

\* So does one that is failed,
LEMMA FailRunIs ==
    ASSUME NEW row, RowType(row)
    PROVE  /\ SameWork(row, FailRun(row))
           /\ FailRun(row).status = IF row.status \in Final THEN row.status ELSE "failed"
<1>1. row.status \in RunStatus /\ "failed" \in RunStatus
  BY DEF RowType, RunRow, RunStatus
<1> QED BY <1>1, StatusOnly DEF FailRun, Final

\* and one that stops after its only node, unless it waits.
LEMMA CompleteReplayOnlyIs ==
    ASSUME NEW row, RowType(row)
    PROVE  /\ SameWork(row, CompleteReplayOnly(row))
           /\ CompleteReplayOnly(row).status =
                  IF row.status \in {"queued", "running"} THEN "completed" ELSE row.status
<1>1. row.status \in RunStatus /\ "completed" \in RunStatus
  BY DEF RowType, RunRow, RunStatus
<1> QED BY <1>1, StatusOnly DEF CompleteReplayOnly

\* ... and skipping nodes changes those.
LEMMA SkipNodesAfterIs ==
    ASSUME NEW row, RowType(row), NEW n
    PROVE  SameWork(row, SkipNodesAfter(row, n)) /\ SkipNodesAfter(row, n).status = row.status
<1> DEFINE nodes == [m \in NodeOrder |->
               IF NodeIndex[m] > NodeIndex[n] THEN "skipped" ELSE row.node[m]]
           q == [row EXCEPT !.node = nodes]
<1>1. row \in RunRow
  BY DEF RowType
<1>2. SkipNodesAfter(row, n) = q
  BY <1>1 DEF SkipNodesAfter, RunRow
<1>3. nodes \in [NodeOrder -> {"queued", "succeeded", "skipped"}]
  BY <1>1 DEF RunRow
<1> HIDE DEF nodes
<1>4. /\ q \in RunRow /\ q.input = row.input /\ q.output = row.output /\ q.desk = row.desk
      /\ SameRun(row, q) /\ q.status = row.status
  BY <1>1, <1>3 DEF RunRow, SameRun
<1> HIDE DEF q
<1>5. RowType(q)
  BY <1>4 DEF RowType
<1> QED BY <1>2, <1>4, <1>5 DEF SameWork, SameLine

\* A run that skips the rest of its nodes is completed as empty.
LEMMA SkipAfterIs ==
    ASSUME NEW row, RowType(row), NEW n
    PROVE  /\ SameWork(row, SkipAfter(row, n))
           /\ SkipAfter(row, n).status = IF row.status \in Final THEN row.status ELSE "completed_empty"
<1>1. PICK q : q = SkipNodesAfter(row, n)
  OBVIOUS
<1>2. SameWork(row, q) /\ q.status = row.status
  BY <1>1, SkipNodesAfterIs
<1>3. SameWork(q, CompleteEmpty(q))
      /\ CompleteEmpty(q).status = IF q.status \in Final THEN q.status ELSE "completed_empty"
  BY <1>2, CompleteEmptyIs DEF SameWork, SameLine
<1> QED BY <1>1, <1>2, <1>3 DEF SkipAfter, SameWork, SameLine, SameRun

-----------------------------------------------------------------------------
(* What they do to a row that goes with its jobs.                           *)

\* A row of the same snapshots goes with the same jobs.
LEMMA RowOKSame ==
    ASSUME NEW r, NEW row, NEW G, RowOK(r, row, G), NEW q, SameLine(row, q)
    PROVE  RowOK(r, q, G)
<1>1. /\ \A n : Made(r, q, n) = Made(r, row, n)
      /\ \A n : Done(r, q, n) <=> Done(r, row, n)
      /\ \A n : AsksForAll(q, n, G) <=> AsksForAll(row, n, G)
      /\ \A m, n : Linked(q, m, n) <=> Linked(row, m, n)
  BY DEF Made, Done, AsksForAll, Linked, SameLine, SameRun
<1> QED BY <1>1 DEF RowOK, SameLine, SameRun

\* So does one whose node has been closed with what the node has made.
LEMMA RowOKClose ==
    ASSUME NEW r, NEW row, NEW G, RowOK(r, row, G), NEW q, RowType(q), SameRun(row, q),
           q.input = row.input, NEW n \in NodeOrder, NEW items,
           \A m \in NodeOrder : q.output[m] =
               IF m = n /\ ~row.output[n].taken THEN Taken(items) ELSE row.output[m],
           NodeIndex[n] >= NodeIndex[row.start],
           n \in Fed => row.input[n].taken,
           n \in Fed \ {"article_evaluate"} => items = Made(r, row, n) /\ Done(r, row, n),
           n = "source_fetch" => items \subseteq raw[r]
    PROVE  RowOK(r, q, G)
<1>1. /\ \A m : Made(r, q, m) = Made(r, row, m)
      /\ \A m : Done(r, q, m) <=> Done(r, row, m)
      /\ \A m : AsksForAll(q, m, G) <=> AsksForAll(row, m, G)
  BY DEF Made, Done, AsksForAll, SameRun
<1>2. \A k \in NodeOrder : \A m : Linked(row, k, m) => Linked(q, k, m)
  BY DEF Linked, SameRun
<1>3. /\ Linked(q, "source_fetch", "topic_scout")
      /\ Linked(q, "topic_scout", "topic_evaluate")
      /\ Linked(q, "topic_evaluate", "article_write")
      /\ Linked(q, "article_write", "article_evaluate")
  BY <1>2, NodesInOrder DEF RowOK
<1>4. /\ \A m \in NodeOrder : NodeIndex[m] < NodeIndex[q.start] =>
             ~q.input[m].taken /\ ~q.output[m].taken
      /\ q.start # "source_fetch" => q.input[q.start].taken
  <2>1. \A m \in NodeOrder : NodeIndex[m] \in Nat
    BY NodesInOrder
  <2>2. row.start \in NodeOrder /\ q.start = row.start
    BY DEF RowOK, RowType, RunRow, SameRun
  <2> QED BY <2>1, <2>2 DEF RowOK
<1>5. \A m \in Fed : q.output[m].taken => q.input[m].taken
  BY NodesInOrder DEF RowOK, Fed, Working
<1>6. \A m \in Fed \ {"article_evaluate"} :
          q.output[m].taken => q.output[m].items = Made(r, q, m) /\ Done(r, q, m)
  BY <1>1, NodesInOrder DEF RowOK, Fed, Working, Taken
<1>7. q.output["source_fetch"].items \subseteq raw[r]
  BY NodesInOrder DEF RowOK, Taken
<1> QED BY <1>1, <1>3, <1>4, <1>5, <1>6, <1>7 DEF RowOK, SameRun

\* The jobs of a node that works from these items.
JobsFor(n, items) == IF n = "topic_scout" THEN {ScoutJob} ELSE {n} \X items

Edge(m, n) ==
    \/ m = "source_fetch" /\ n = "topic_scout"
    \/ m = "topic_scout" /\ n = "topic_evaluate"
    \/ m = "topic_evaluate" /\ n = "article_write"
    \/ m = "article_write" /\ n = "article_evaluate"

\* And one whose next node has been given its input, with the jobs that asks for.
LEMMA RowOKBind ==
    ASSUME NEW r, NEW row, NEW G, RowOK(r, row, G), NEW q, RowType(q), SameRun(row, q),
           q.output = row.output, NEW m, NEW n, Edge(m, n),
           \A k \in NodeOrder : q.input[k] =
               IF k = n /\ ~row.input[n].taken THEN row.output[m] ELSE row.input[k],
           NodeIndex[m] >= NodeIndex[row.start],
           row.output[m].taken, row.output[m].items # {},
           ~(row.mode = "evaluate_only" /\ row.start = m)
    PROVE  /\ RowOK(r, q, G \cup JobsFor(n, row.output[m].items))
           /\ q.input[n] = row.output[m]
<1> DEFINE H == G \cup JobsFor(n, row.output[m].items)
<1>0. row.start \in NodeOrder
  BY DEF RowOK, RowType, RunRow
<1>1. /\ m \in NodeOrder /\ n \in Fed /\ n \in NodeOrder /\ row.start # n
      /\ NodeIndex[n] > NodeIndex[row.start] /\ n # "human_review"
  BY <1>0, NodesInOrder DEF Edge, Fed, Working
<1>2. Linked(row, m, n)
  BY DEF Edge, RowOK
<1>3. q.input[n] = row.output[m]
  BY <1>1, <1>2 DEF Linked
<1>4. \A k \in NodeOrder : /\ k # n => q.input[k] = row.input[k]
                           /\ row.input[k].taken => q.input[k] = row.input[k]
  BY <1>1
<1>5. \A k \in Fed : q.output[k].taken =>
          /\ q.input[k] = row.input[k] /\ q.input[k].taken
          /\ k # "article_evaluate" =>
                 /\ q.output[k].items = Made(r, q, k) /\ Done(r, q, k)
  <2> SUFFICES ASSUME NEW k \in Fed, q.output[k].taken
               PROVE  /\ q.input[k] = row.input[k] /\ q.input[k].taken
                      /\ k # "article_evaluate" =>
                             /\ q.output[k].items = Made(r, q, k) /\ Done(r, q, k)
    OBVIOUS
  <2>1. k \in NodeOrder /\ row.input[k].taken
    BY NodesInOrder DEF RowOK, Fed, Working
  <2>2. q.input[k] = row.input[k]
    BY <1>4, <2>1
  <2>3. Made(r, q, k) = Made(r, row, k) /\ (Done(r, q, k) <=> Done(r, row, k))
    BY <2>2 DEF Made, Done
  <2> QED BY <2>1, <2>2, <2>3 DEF RowOK
<1>6. Linked(q, m, n)
  BY <1>3 DEF Linked, SameRun
<1>7. \A k \in NodeOrder, l \in NodeOrder : l # n /\ Linked(row, k, l) => Linked(q, k, l)
  BY <1>4 DEF Linked, SameRun
<1>8. /\ Linked(q, "source_fetch", "topic_scout")
      /\ Linked(q, "topic_scout", "topic_evaluate")
      /\ Linked(q, "topic_evaluate", "article_write")
      /\ Linked(q, "article_write", "article_evaluate")
  BY <1>6, <1>7, NodesInOrder DEF RowOK, Edge
<1>9. /\ \A k \in NodeOrder : NodeIndex[k] < NodeIndex[q.start] =>
             ~q.input[k].taken /\ ~q.output[k].taken
      /\ q.start # "source_fetch" => q.input[q.start].taken
  <2>1. \A k \in NodeOrder : NodeIndex[k] \in Nat
    BY NodesInOrder
  <2>2. row.start \in NodeOrder /\ q.start = row.start
    BY DEF RowOK, RowType, RunRow, SameRun
  <2> QED BY <1>1, <1>4, <2>1, <2>2 DEF RowOK
<1>10. /\ \A s \in Sources : <<"source_fetch", s>> \in H => q.start = "source_fetch"
       /\ ScoutJob \in H => q.input["topic_scout"].taken
       /\ \A k \in Working, i \in Item : <<k, i>> \in H => i \in q.input[k].items
  <2>1. \A k, i : <<k, i>> \in JobsFor(n, row.output[m].items) =>
            k = n /\ (n = "topic_scout" \/ i \in row.output[m].items)
    BY DEF JobsFor, ScoutJob
  <2>2. ScoutJob \in JobsFor(n, row.output[m].items) => n = "topic_scout"
    BY <2>1 DEF ScoutJob
  <2>3. "topic_scout" \in NodeOrder /\ Working \subseteq NodeOrder /\ "topic_scout" \notin Working
        /\ n # "source_fetch"
    BY <1>1, NodesInOrder DEF Working, Fed
  <2>4. ASSUME NEW k \in Working, NEW i \in Item, <<k, i>> \in H
        PROVE  i \in q.input[k].items
    <3>1. CASE <<k, i>> \in G
      <4>1. i \in row.input[k].items
        BY <3>1 DEF RowOK
      <4>2. row.input[k].taken
        BY <2>3, <4>1 DEF RowOK, RowType
      <4> QED BY <1>4, <2>3, <4>1, <4>2
    <3>2. CASE <<k, i>> \in JobsFor(n, row.output[m].items)
      BY <1>3, <2>1, <2>3, <3>2
    <3> QED BY <2>4, <3>1, <3>2
  <2>5. ASSUME ScoutJob \in H PROVE q.input["topic_scout"].taken
    <3>1. CASE ScoutJob \in G
      BY <1>4, <2>3, <3>1 DEF RowOK
    <3>2. CASE ScoutJob \in JobsFor(n, row.output[m].items)
      BY <1>3, <2>2, <3>2
    <3> QED BY <2>5, <3>1, <3>2
  <2>6. ASSUME NEW s \in Sources, <<"source_fetch", s>> \in H
        PROVE  q.start = "source_fetch"
    BY <2>1, <2>3, <2>6 DEF RowOK, SameRun
  <2> QED BY <2>4, <2>5, <2>6
<1>11. \A k \in Working : AsksForAll(q, k, H)
  <2> SUFFICES ASSUME NEW k \in Working PROVE AsksForAll(q, k, H)
    OBVIOUS
  <2>1. AsksForAll(row, k, G) /\ k \in NodeOrder /\ k # "topic_scout"
    BY NodesInOrder DEF RowOK, Working
  <2>2. CASE k = n
    <3>1. \A i \in q.input[k].items : <<k, i>> \in H
      BY <1>3, <2>1, <2>2 DEF JobsFor
    <3> QED BY <3>1 DEF AsksForAll
  <2>3. CASE k # n
    BY <1>4, <2>1, <2>3 DEF AsksForAll, SameRun
  <2> QED BY <2>2, <2>3
<1>12. q.input["human_review"].taken => q.start = "human_review"
  BY <1>1, <1>4, NodesInOrder DEF RowOK, SameRun
<1> QED BY <1>3, <1>5, <1>8, <1>9, <1>10, <1>11, <1>12 DEF RowOK

\* The nodes that come after one whose successor has no input have none either.
LEMMA NothingBehind ==
    ASSUME NEW r, NEW row, NEW G, RowOK(r, row, G), row.start # "human_review",
           NEW m \in NodeOrder, NodeIndex[m] >= NodeIndex[row.start],
           \A n : Edge(m, n) => ~row.input[n].taken
    PROVE  \A n \in NodeOrder : NodeIndex[n] > NodeIndex[m] => ~row.input[n].taken
<1>1. ~row.input["human_review"].taken
  BY DEF RowOK
<1>2. \A k, n : Edge(k, n) /\ k # "source_fetch" /\ ~row.input[k].taken /\ row.start # n
          => ~row.input[n].taken
  <2> SUFFICES ASSUME NEW k, NEW n, Edge(k, n), k # "source_fetch", ~row.input[k].taken,
                      row.start # n
               PROVE  ~row.input[n].taken
    OBVIOUS
  <2>1. k \in Fed /\ Linked(row, k, n) /\ (row.output[k].taken => row.input[k].taken)
    BY DEF Edge, RowOK, Fed, Working
  <2> QED BY <2>1 DEF Linked
<1>3. row.start \in NodeOrder
  BY DEF RowOK, RowType, RunRow
<1> QED BY <1>1, <1>2, <1>3, NodesInOrder DEF Edge

-----------------------------------------------------------------------------
(* A walk: where it begins, and what a stage may make of it.                *)

WalkOf(q, jobs, t, a, walks) ==
    [row |-> q, jobs |-> jobs, topic |-> t, article |-> a, walks |-> walks, fails |-> FALSE]

\* The statuses of topics and articles that a walk may give: nothing appears or
\* goes, and what is in writing is so for a reason.
Statuses(r, row, jobs, t, a) ==
    /\ t \in [Topics -> TopicStatus \cup {"absent"}]
    /\ a \in [Articles -> ArticleStatus \cup {"absent"}]
    /\ \A u \in Topics : t[u] = "absent" <=> topic[u] = "absent"
    /\ \A x \in Articles : a[x] = "absent" <=> article[x] = "absent"
    /\ \A u \in Topics : t[u] = "in_writing" =>
           \/ topic[u] = "in_writing"
           \/ <<"article_write", u>> \in jobs
           \/ /\ row.mode = "evaluate_only" /\ row.start = "topic_evaluate"
              /\ answer[r][<<"topic_evaluate", u>>] = "pass"

\* A fine walk is made of its parts, and has such statuses.
LEMMA FineWalk ==
    ASSUME NEW r, NEW w, NEW k, Fine(r, w, k)
    PROVE  /\ w = WalkOf(w.row, w.jobs, w.topic, w.article, w.walks)
           /\ RowType(w.row) /\ w.row \in RunRow /\ w.jobs \subseteq Jobs /\ w.walks \in BOOLEAN
           /\ Statuses(r, w.row, w.jobs, w.topic, w.article)
<1>1. WalkType(w) /\ w.fails = FALSE /\ WritingIsDue(r, w)
  BY DEF Fine, WalkType
<1>2. w = WalkOf(w.row, w.jobs, w.topic, w.article, w.walks)
  BY <1>1 DEF WalkType, WalkOf
<1> QED BY <1>1, <1>2 DEF Fine, WalkType, RowType, Statuses, WritingIsDue

\* What a walk of these parts must have to be fine.
LEMMA WalkIsFine ==
    ASSUME NEW r, NEW row, NEW q, NEW jobs \in SUBSET Jobs, NEW t, NEW a, NEW walks \in BOOLEAN,
           NEW k, RowType(q), RowOK(r, q, Given(r) \cup jobs), Keeps(rows[r], row), Keeps(row, q),
           Statuses(r, q, jobs, t, a), Ahead(q, jobs), q.desk \subseteq Passed(r),
           q.output["article_evaluate"].items \subseteq Passed(r),
           ~Waiting(q) => q.desk = {}, q.start # "human_review",
           LET v == WalkOf(q, jobs, t, a, walks)
           IN  Going(r, v, k) \/ Stopped(v) \/ Ended(r, v, k) \/ AtDesk(r, v, k)
    PROVE  Fine(r, WalkOf(q, jobs, t, a, walks), k)
<1>1. PICK v : v = WalkOf(q, jobs, t, a, walks)
  OBVIOUS
<1>2. /\ v.row = q /\ v.jobs = jobs /\ v.topic = t /\ v.article = a /\ v.walks = walks
      /\ v.fails = FALSE
      /\ v = [row |-> v.row, jobs |-> v.jobs, topic |-> v.topic, article |-> v.article,
              walks |-> v.walks, fails |-> v.fails]
  BY <1>1 DEF WalkOf
<1>3. WalkType(v)
  BY <1>2 DEF WalkType, Statuses
<1>4. Keeps(rows[r], q)
  BY DEF Keeps, SameRun
<1>5. Seen(r, v) = Given(r) \cup jobs
  BY <1>2 DEF Seen
<1>6. WritingIsDue(r, v)
  BY <1>2 DEF WritingIsDue, Statuses
<1>7. Fine(r, v, k)
  BY <1>1, <1>2, <1>3, <1>4, <1>5, <1>6 DEF Fine, Statuses
<1> QED BY <1>1, <1>7

\* The run ends, or stops, at the k-th node, all of it answered and nothing
\* behind it begun.
LEMMA StageEnds ==
    ASSUME NEW r, NEW w, NEW n \in NodeOrder, NEW k, k = NodeIndex[n], Fine(r, w, k),
           Going(r, w, k), NodeIndex[w.row.start] <= k,
           n # "source_fetch" => Done(r, w.row, n),
           \A m : Edge(n, m) => ~w.row.input[m].taken,
           NEW done, RowOK(r, done, Seen(r, w)), Keeps(w.row, done), done.input = w.row.input,
           done.output["article_evaluate"].items \subseteq Passed(r), done.desk = w.row.desk,
           NEW q, SameWork(done, q), q.status \in Final,
           NEW t, NEW a, Statuses(r, w.row, w.jobs, t, a)
    PROVE  Fine(r, WalkOf(q, w.jobs, t, a, w.walks), k + 1)
<1>1. /\ RowOK(r, w.row, Seen(r, w)) /\ w.row.start \in NodeOrder
      /\ w.row.start # "human_review" /\ w.row.desk = {}
      /\ w.jobs \in SUBSET Jobs /\ w.walks \in BOOLEAN
  <2>1. w.row \in RunRow /\ w.jobs \subseteq Jobs /\ w.walks \in BOOLEAN
    BY FineWalk
  <2>2. w.row.start \in NodeOrder
    BY <2>1 DEF RunRow
  <2>3. ~Waiting(w.row)
    BY DEF Going, Waiting
  <2> QED BY <2>1, <2>2, <2>3 DEF Fine
<1>2. /\ q.input = w.row.input /\ q.output = done.output /\ q.desk = {} /\ RowType(q)
      /\ SameRun(w.row, q) /\ Keeps(w.row, q) /\ SameLine(done, q)
  BY <1>1 DEF SameWork, SameLine, Keeps, SameRun
<1>3. RowOK(r, q, Given(r) \cup w.jobs)
  BY <1>2, RowOKSame DEF Seen
<1>4. \A m \in NodeOrder : NodeIndex[m] > k => ~w.row.input[m].taken
  BY <1>1, NothingBehind
<1>5. Drained(r, Seen(r, w))
  <2>1. ASSUME ScoutJob \in Seen(r, w) PROVE answer[r][ScoutJob] # "none"
    <3>1. w.row.input["topic_scout"].taken
      BY <1>1, <2>1 DEF RowOK
    <3>2. k >= 1
      BY <1>4, <3>1, NodesInOrder
    <3>3. CASE k = 1
      <4>1. NodeIndex[n] = 1
        BY <3>3
      <4>2. n = "topic_scout"
        BY <4>1, NodesInOrder
      <4> QED BY <4>2 DEF Done
    <3>4. CASE k > 1
      BY <2>1, <3>4 DEF Going
    <3> QED BY <3>2, <3>3, <3>4, NodesInOrder
  <2>2. ASSUME NEW m \in Working, NEW i \in Item, <<m, i>> \in Seen(r, w)
        PROVE  answer[r][<<m, i>>] # "none"
    <3>1. w.row.input[m].taken /\ m \in NodeOrder /\ i \in w.row.input[m].items
      <4>1. m \in NodeOrder
        BY NodesInOrder DEF Working
      <4>2. i \in done.input[m].items
        BY <2>2 DEF RowOK
      <4>3. done.input[m].taken
        BY <4>1, <4>2 DEF RowOK, RowType
      <4> QED BY <4>1, <4>2, <4>3
    <3>2. NodeIndex[m] <= k
      BY <1>4, <3>1, NodesInOrder
    <3>3. CASE NodeIndex[m] = k
      <4>1. m = n /\ n # "topic_scout" /\ n # "source_fetch"
        BY <2>2, <3>1, <3>3, NodesInOrder DEF Working
      <4> QED BY <3>1, <4>1 DEF Done
    <3>4. CASE NodeIndex[m] < k
      BY <2>2, <3>4 DEF Going
    <3> QED BY <3>1, <3>2, <3>3, <3>4, NodesInOrder
  <2> QED BY <2>1, <2>2 DEF Drained
<1>6. PICK v : v = WalkOf(q, w.jobs, t, a, w.walks)
  OBVIOUS
<1>7. Ended(r, v, k + 1)
  <2>1. v.row = q /\ Seen(r, v) = Seen(r, w)
    BY <1>6 DEF WalkOf, Seen
  <2>2. q.start = w.row.start
    BY <1>2 DEF SameRun
  <2>3. \A m \in NodeOrder : NodeIndex[m] >= k + 1 => ~q.input[m].taken
    BY <1>2, <1>4, NodesInOrder
  <2>4. k + 1 > NodeIndex[q.start]
    BY <1>1, <2>2, NodesInOrder
  <2> QED BY <1>5, <2>1, <2>3, <2>4 DEF Ended
<1>8. /\ Statuses(r, q, w.jobs, t, a) /\ Keeps(rows[r], w.row) /\ ~Waiting(q)
      /\ q.desk \subseteq Passed(r) /\ q.start # "human_review" /\ Ahead(q, w.jobs)
  BY <1>1, <1>2 DEF Statuses, SameRun, Fine, Waiting, Final, Ahead
<1> QED BY <1>1, <1>2, <1>3, <1>6, <1>7, <1>8, WalkIsFine

\* The run goes on to the next node, with what this one has put out.
LEMMA StageProceeds ==
    ASSUME NEW r, NEW w, NEW m, NEW n, Edge(m, n), NEW k, k = NodeIndex[m], Fine(r, w, k),
           Going(r, w, k), NodeIndex[w.row.start] <= k,
           m # "source_fetch" => Done(r, w.row, m),
           NEW done, RowOK(r, done, Seen(r, w)), RowType(done), Keeps(w.row, done),
           done.input = w.row.input, done.desk = w.row.desk, done.status = w.row.status,
           \A l \in NodeOrder : l # m => done.output[l] = w.row.output[l],
           done.output[m].taken, done.output[m].items # {}, ~replayStopsAfter(done, m),
           NEW items, items = done.output[m].items,
           NEW t, NEW a, Statuses(r, w.row, w.jobs \cup JobsFor(n, items), t, a)
    PROVE  Fine(r, WalkOf(BindInput(done, m, n), w.jobs \cup JobsFor(n, items), t, a, w.walks), k + 1)
<1> DEFINE jobs == w.jobs \cup JobsFor(n, items)
<1>1. /\ RowOK(r, w.row, Seen(r, w)) /\ w.row.start \in NodeOrder
      /\ w.row.start # "human_review" /\ w.row.desk = {}
      /\ w.jobs \in SUBSET Jobs /\ w.walks \in BOOLEAN
  <2>1. w.row \in RunRow /\ w.jobs \subseteq Jobs /\ w.walks \in BOOLEAN
    BY FineWalk
  <2>2. w.row.start \in NodeOrder
    BY <2>1 DEF RunRow
  <2>3. ~Waiting(w.row)
    BY DEF Going, Waiting
  <2> QED BY <2>1, <2>2, <2>3 DEF Fine
<1>2. /\ m \in NodeOrder /\ n \in NodeOrder /\ n \in Fed /\ OutputsOf[m] = InputsOf[n]
      /\ NodeIndex[n] = k + 1 /\ k \in 0..3 /\ n # "source_fetch" /\ "article_evaluate" # m
      /\ \A l \in NodeOrder : NodeIndex[l] \in Nat /\ (NodeIndex[l] = k => l = m)
                              /\ (NodeIndex[l] = k + 1 => l = n)
  BY NodesInOrder, ItemsOfNodes DEF Edge, Fed, Working
<1>3. PICK q : q = BindInput(done, m, n)
  OBVIOUS
<1>4. /\ RowType(q) /\ SameRun(done, q)
      /\ q.output = done.output /\ q.status = done.status /\ q.desk = done.desk
      /\ \A l \in NodeOrder : q.input[l] =
             IF l = n /\ ~done.input[n].taken THEN done.output[m] ELSE done.input[l]
  BY <1>2, <1>3, BindInputIs
<1>5. /\ RowOK(r, q, Seen(r, w) \cup JobsFor(n, items)) /\ q.input[n] = done.output[m]
  <2>1. done.start = w.row.start /\ done.mode = w.row.mode
    BY DEF Keeps, SameRun
  <2>2. NodeIndex[m] >= NodeIndex[done.start]
    BY <1>1, <1>2, <2>1
  <2>3. ~(done.mode = "evaluate_only" /\ done.start = m)
    BY DEF replayStopsAfter
  <2>4. PICK G : G = Seen(r, w)
    OBVIOUS
  <2>5. RowOK(r, done, G)
    BY <2>4
  <2>6. RowOK(r, q, G \cup JobsFor(n, done.output[m].items)) /\ q.input[n] = done.output[m]
    BY <1>4, <2>2, <2>3, <2>5, RowOKBind, SMTT(40)
  <2> QED BY <2>4, <2>6
<1>6. Keeps(w.row, q) /\ q.start = w.row.start /\ q.mode = w.row.mode
  BY <1>4 DEF Keeps, SameRun
<1>7. jobs \in SUBSET Jobs
  <2>1. items \subseteq OutputsOf[m]
    BY <1>2 DEF RowType
  <2>2. JobsFor(n, items) \subseteq Jobs
    BY <2>1, ItemsOfNodes DEF Edge, JobsFor, Jobs, ScoutJob
  <2> QED BY <1>1, <2>2
<1>8. PICK v : v = WalkOf(q, jobs, t, a, w.walks)
  OBVIOUS
<1>9. v.row = q /\ v.walks = w.walks /\ Seen(r, v) = Seen(r, w) \cup JobsFor(n, items)
  BY <1>8 DEF WalkOf, Seen
<1>10. Going(r, v, k + 1)
  <2>1. v.walks /\ k + 1 <= 4 /\ v.row.status = "running"
    BY <1>2, <1>4, <1>9 DEF Going
  <2>2. Proceeding(q)
    <3>1. Proceeding(w.row)
      BY DEF Going
    <3>2. \A l \in NodeOrder : w.row.input[l].taken => q.input[l].taken
      BY <1>6 DEF Keeps
    <3>3. q.input[n].taken
      BY <1>5
    <3>4. \A l \in NodeOrder : l # m => q.output[l] = w.row.output[l]
      BY <1>4
    <3> QED BY <3>1, <3>2, <3>3, <3>4, NodesInOrder DEF Proceeding, Edge
  <2>3. ASSUME k + 1 > 1, ScoutJob \in Seen(r, v) PROVE answer[r][ScoutJob] # "none"
    <3>1. n # "topic_scout"
      BY <1>2, <2>3, NodesInOrder
    <3>2. ScoutJob \in Seen(r, w)
      BY <1>9, <2>3, <3>1, <1>2 DEF JobsFor, ScoutJob, Edge
    <3>3. CASE k = 1
      <4>1. NodeIndex[m] = 1
        BY <3>3
      <4>2. m = "topic_scout"
        BY <1>2, <4>1, NodesInOrder
      <4> QED BY <4>2 DEF Done
    <3>4. CASE k > 1
      BY <3>2, <3>4 DEF Going
    <3> QED BY <1>2, <2>3, <3>3, <3>4
  <2>4. ASSUME NEW l \in Working, NEW i \in Item, NodeIndex[l] < k + 1, <<l, i>> \in Seen(r, v)
        PROVE  answer[r][<<l, i>>] # "none"
    <3>1. l \in NodeOrder /\ l # "topic_scout" /\ l # "source_fetch"
      BY NodesInOrder DEF Working
    <3>2. l # n
      BY <1>2, <2>4
    <3>3. <<l, i>> \in Seen(r, w)
      BY <1>9, <2>4, <3>1, <3>2 DEF JobsFor, ScoutJob
    <3>4. CASE NodeIndex[l] = k
      <4>1. l = m
        BY <1>2, <3>1, <3>4
      <4>2. i \in w.row.input[m].items
        BY <1>1, <3>3, <4>1 DEF RowOK
      <4> QED BY <3>1, <4>1, <4>2 DEF Done
    <3>5. CASE NodeIndex[l] < k
      BY <3>3, <3>5 DEF Going
    <3> QED BY <1>2, <2>4, <3>1, <3>4, <3>5
  <2>5. ASSUME NEW l \in Fed, NodeIndex[l] = k + 1
        PROVE  q.input[l].taken
    <3>1. l \in NodeOrder
      BY NodesInOrder DEF Fed, Working
    <3> QED BY <1>2, <1>5, <2>5, <3>1
  <2> QED BY <1>9, <2>1, <2>2, <2>3, <2>4, <2>5 DEF Going
<1>11. /\ Statuses(r, q, jobs, t, a) /\ Keeps(rows[r], w.row) /\ ~Waiting(q) /\ q.desk = {}
       /\ q.output["article_evaluate"].items \subseteq Passed(r) /\ q.start # "human_review"
       /\ Ahead(q, jobs)
  <2>1. Statuses(r, q, jobs, t, a)
    BY <1>6 DEF Statuses
  <2>2. q.output["article_evaluate"] = w.row.output["article_evaluate"]
    BY <1>2, <1>4, NodesInOrder
  <2>3. ~Waiting(q) /\ q.desk = {}
    BY <1>1, <1>4 DEF Going, Waiting
  <2>4. w.row.start # n
    BY <1>1, <1>2
  <2>5. \A j \in JobsFor(n, items) : j[1] = n
    BY DEF JobsFor, ScoutJob
  <2>6. Ahead(w.row, w.jobs)
    BY DEF Fine
  <2>7. Ahead(q, jobs)
    BY <1>6, <2>4, <2>5, <2>6 DEF Ahead
  <2> QED BY <1>1, <1>6, <2>1, <2>2, <2>3, <2>7 DEF Fine
<1>12. RowOK(r, q, Given(r) \cup jobs)
  BY <1>5 DEF Seen
<1>13. Fine(r, v, k + 1)
  BY <1>1, <1>4, <1>6, <1>7, <1>8, <1>10, <1>11, <1>12, WalkIsFine
<1> QED BY <1>3, <1>8, <1>13

\* A walk that waits.
LEMMA WaitIs ==
    ASSUME NEW r, NEW w, NEW k, Fine(r, w, k)
    PROVE  Wait(w) = WalkOf(w.row, w.jobs, w.topic, w.article, FALSE)
<1>1. PICK q, jobs, t, a, walks :
          q = w.row /\ jobs = w.jobs /\ t = w.topic /\ a = w.article /\ walks = w.walks
  OBVIOUS
<1>2. w = WalkOf(q, jobs, t, a, walks)
  BY <1>1, FineWalk
<1>3. w \in [row : {q}, jobs : {jobs}, topic : {t}, article : {a}, walks : {walks}, fails : {FALSE}]
  BY <1>2 DEF WalkOf
<1>4. PICK v : v = Wait(w)
  OBVIOUS
<1>5. v \in [row : {q}, jobs : {jobs}, topic : {t}, article : {a}, walks : {FALSE}, fails : {FALSE}]
  BY <1>3, <1>4 DEF Wait
<1>6. /\ v.row = q /\ v.jobs = jobs /\ v.topic = t /\ v.article = a
      /\ v.walks = FALSE /\ v.fails = FALSE
      /\ v = [row |-> v.row, jobs |-> v.jobs, topic |-> v.topic, article |-> v.article,
              walks |-> v.walks, fails |-> v.fails]
  BY <1>5
<1>7. v = WalkOf(q, jobs, t, a, FALSE)
  BY <1>6 DEF WalkOf
<1> QED BY <1>1, <1>4, <1>7

\* The run waits at the k-th node.
LEMMA StageWaits ==
    ASSUME NEW r, NEW w, NEW k, NEW l, Fine(r, w, k), Going(r, w, k)
    PROVE  Fine(r, Wait(w), l)
<1>1. /\ w = WalkOf(w.row, w.jobs, w.topic, w.article, w.walks)
      /\ RowType(w.row) /\ w.jobs \in SUBSET Jobs
      /\ Statuses(r, w.row, w.jobs, w.topic, w.article)
  BY FineWalk
<1>2. Wait(w) = WalkOf(w.row, w.jobs, w.topic, w.article, FALSE)
  BY WaitIs
<1>3. PICK v : v = WalkOf(w.row, w.jobs, w.topic, w.article, FALSE)
  OBVIOUS
<1>4. Stopped(v)
  BY <1>3 DEF WalkOf, Stopped, Going
<1>5. Keeps(w.row, w.row) /\ FALSE \in BOOLEAN
  BY DEF Keeps, SameRun
<1>6. /\ RowOK(r, w.row, Given(r) \cup w.jobs) /\ Keeps(rows[r], w.row)
      /\ Ahead(w.row, w.jobs) /\ w.row.desk \subseteq Passed(r)
      /\ w.row.output["article_evaluate"].items \subseteq Passed(r)
      /\ ~Waiting(w.row) => w.row.desk = {}
      /\ w.row.start # "human_review"
  BY DEF Fine, Seen
<1>7. Fine(r, v, l)
  BY <1>1, <1>3, <1>4, <1>5, <1>6, WalkIsFine
<1> QED BY <1>2, <1>3, <1>7

\* A run that has ended stays so.
LEMMA StageAfterTheEnd ==
    ASSUME NEW r, NEW w, NEW k \in Nat, Fine(r, w, k), Ended(r, w, k),
           NEW q, SameWork(w.row, q), q.status = w.row.status, NEW walks \in BOOLEAN
    PROVE  Fine(r, WalkOf(q, w.jobs, w.topic, w.article, walks), k + 1)
<1>1. /\ RowType(w.row) /\ w.jobs \in SUBSET Jobs /\ w.row.start \in NodeOrder
      /\ Statuses(r, w.row, w.jobs, w.topic, w.article)
  BY FineWalk DEF RunRow
<1>2. /\ q.input = w.row.input /\ q.output = w.row.output /\ q.desk = w.row.desk
      /\ q.start = w.row.start /\ q.mode = w.row.mode
      /\ RowType(q) /\ SameLine(w.row, q)
  BY DEF SameWork, SameLine, SameRun
<1>3. PICK v : v = WalkOf(q, w.jobs, w.topic, w.article, walks)
  OBVIOUS
<1>4. v.row = q /\ Seen(r, v) = Seen(r, w)
  BY <1>3 DEF WalkOf, Seen
<1>5. Ended(r, v, k + 1)
  <2>1. \A m \in NodeOrder : NodeIndex[m] \in Nat
    BY NodesInOrder
  <2>2. k + 1 > NodeIndex[q.start]
    BY <1>1, <1>2, <2>1 DEF Ended
  <2>3. \A m \in NodeOrder : NodeIndex[m] >= k + 1 => ~q.input[m].taken
    BY <1>2, <2>1 DEF Ended
  <2> QED BY <1>4, <2>2, <2>3 DEF Ended
<1>6. /\ RowOK(r, w.row, Given(r) \cup w.jobs) /\ Keeps(rows[r], w.row)
      /\ Ahead(w.row, w.jobs) /\ w.row.desk \subseteq Passed(r)
      /\ w.row.output["article_evaluate"].items \subseteq Passed(r)
      /\ ~Waiting(w.row) => w.row.desk = {}
      /\ w.row.start # "human_review"
  BY DEF Fine, Seen
<1>7. RowOK(r, q, Given(r) \cup w.jobs)
  BY <1>2, <1>6, RowOKSame
<1>8. /\ Keeps(w.row, q) /\ Statuses(r, q, w.jobs, w.topic, w.article) /\ (~Waiting(q) => q.desk = {})
      /\ Ahead(q, w.jobs)
  BY <1>1, <1>2, <1>6 DEF Keeps, SameLine, Statuses, Waiting, Ahead
<1>9. Fine(r, v, k + 1)
  BY <1>1, <1>2, <1>3, <1>5, <1>6, <1>7, <1>8, WalkIsFine
<1> QED BY <1>3, <1>9

\* A stage before the run's first, or after it has stopped, changes nothing.
LEMMA WalkPasses ==
    ASSUME NEW r, NEW w, NEW k \in 0..5, Fine(r, w, k),
           ~(w.walks /\ k >= NodeIndex[w.row.start])
    PROVE  Fine(r, w, k + 1)
<1>1. /\ RowOK(r, w.row, Seen(r, w)) /\ w.row.start \in NodeOrder /\ w.row.start # "human_review"
  BY FineWalk DEF Fine, RunRow
<1>2. /\ \A m \in NodeOrder : NodeIndex[m] \in Nat
      /\ NodeIndex[w.row.start] <= 4
  BY <1>1, NodesInOrder
<1>3. ASSUME Going(r, w, k) PROVE Going(r, w, k + 1)
  <2>1. k < NodeIndex[w.row.start]
    BY <1>1, <1>2, <1>3 DEF Going
  <2>2. \A m \in NodeOrder : w.row.input[m].taken => NodeIndex[m] > k
    BY <1>1, <1>2, <2>1 DEF RowOK
  <2>3. ASSUME k + 1 > 1 PROVE ScoutJob \notin Seen(r, w)
    BY <1>1, <2>2, <2>3, NodesInOrder DEF RowOK
  <2>4. ASSUME NEW n \in Working, NEW i \in Item, NodeIndex[n] < k + 1
        PROVE  <<n, i>> \notin Seen(r, w)
    <3>1. n \in NodeOrder
      BY NodesInOrder DEF Working
    <3>2. ~w.row.input[n].taken
      BY <1>2, <2>2, <2>4, <3>1
    <3> QED BY <1>1, <3>1, <3>2 DEF RowOK, RowType
  <2>5. ASSUME NEW n \in Fed, NodeIndex[n] = k + 1
        PROVE  w.row.input[n].taken \/ k + 1 < NodeIndex[w.row.start]
    <3>1. n \in NodeOrder /\ n # "source_fetch"
      BY NodesInOrder DEF Fed, Working
    <3>2. CASE n = w.row.start
      BY <1>1, <3>1, <3>2 DEF RowOK
    <3>3. CASE n # w.row.start
      <4>1. NodeIndex[n] # NodeIndex[w.row.start]
        BY <1>1, <3>1, <3>3, NodesInOrder
      <4> QED BY <1>1, <1>2, <2>1, <2>5, <4>1
    <3> QED BY <3>2, <3>3
  <2>6. k + 1 <= 4
    BY <1>1, <1>2, <2>1
  <2> QED BY <1>3, <2>3, <2>4, <2>5, <2>6 DEF Going
<1>4. ASSUME Ended(r, w, k) PROVE Ended(r, w, k + 1)
  <2>1. \A m \in NodeOrder : NodeIndex[m] >= k + 1 => ~w.row.input[m].taken
    BY <1>2, <1>4 DEF Ended
  <2>2. k + 1 > NodeIndex[w.row.start]
    BY <1>1, <1>2, <1>4 DEF Ended
  <2> QED BY <1>4, <2>1, <2>2 DEF Ended
<1>5. ~AtDesk(r, w, k)
  BY <1>1, <1>2 DEF AtDesk
<1> QED BY <1>3, <1>4, <1>5 DEF Fine

-----------------------------------------------------------------------------
(* The stages.                                                              *)

Parts(q, jobs, t, a, walks, fails) ==
    [row |-> q, jobs |-> jobs, topic |-> t, article |-> a, walks |-> walks, fails |-> fails]

\* The parts of a walk that is changed.
LEMMA ChangedParts ==
    ASSUME NEW q, NEW jobs, NEW t, NEW a, NEW walks, NEW f, NEW w, w = Parts(q, jobs, t, a, walks, f)
    PROVE  /\ \A p : [w EXCEPT !.row = p] = Parts(p, jobs, t, a, walks, f)
           /\ \A p, more : Proceed(w, p, more) = Parts(p, jobs \cup more, t, a, walks, f)
           /\ \A s : [w EXCEPT !.topic = s] = Parts(q, jobs, s, a, walks, f)
           /\ \A s : [w EXCEPT !.article = s] = Parts(q, jobs, t, s, walks, f)
           /\ w.row = q /\ w.jobs = jobs /\ w.topic = t /\ w.article = a /\ w.walks = walks
<1>1. \A p : [w EXCEPT !.row = p] = Parts(p, jobs, t, a, walks, f)
  BY DEF Parts
<1>2. ASSUME NEW p, NEW more
      PROVE  Proceed(w, p, more) = Parts(p, jobs \cup more, t, a, walks, f)
  <2>1. w.jobs = jobs /\ w \in [row : {q}, jobs : {jobs}, topic : {t}, article : {a},
                                walks : {walks}, fails : {f}]
    BY DEF Parts
  <2>2. PICK v : v = Proceed(w, p, more)
    OBVIOUS
  <2>3. v \in [row : {p}, jobs : {jobs \cup more}, topic : {t}, article : {a},
               walks : {walks}, fails : {f}]
    BY <2>1, <2>2 DEF Proceed
  <2>4. /\ v.row = p /\ v.jobs = jobs \cup more /\ v.topic = t /\ v.article = a
        /\ v.walks = walks /\ v.fails = f
        /\ v = [row |-> v.row, jobs |-> v.jobs, topic |-> v.topic, article |-> v.article,
                walks |-> v.walks, fails |-> v.fails]
    BY <2>3
  <2>5. v = Parts(p, jobs \cup more, t, a, walks, f)
    BY <2>4 DEF Parts
  <2> QED BY <2>2, <2>5
<1>3. \A s : [w EXCEPT !.topic = s] = Parts(q, jobs, s, a, walks, f)
  BY DEF Parts
<1>4. \A s : [w EXCEPT !.article = s] = Parts(q, jobs, t, s, walks, f)
  BY DEF Parts
<1>5. w.row = q /\ w.jobs = jobs /\ w.topic = t /\ w.article = a /\ w.walks = walks
  BY DEF Parts
<1> QED BY <1>1, <1>2, <1>3, <1>4, <1>5

\* The same of walks that have not failed.
LEMMA ChangedWalks ==
    ASSUME NEW q, NEW jobs, NEW t, NEW a, NEW walks, NEW w, w = WalkOf(q, jobs, t, a, walks)
    PROVE  /\ \A p : With(w, p) = WalkOf(p, jobs, t, a, walks)
           /\ \A p, more : Proceed(w, p, more) = WalkOf(p, jobs \cup more, t, a, walks)
           /\ \A s : [w EXCEPT !.topic = s] = WalkOf(q, jobs, s, a, walks)
           /\ \A s : [w EXCEPT !.article = s] = WalkOf(q, jobs, t, s, walks)
           /\ w.row = q /\ w.jobs = jobs /\ w.topic = t /\ w.article = a /\ w.walks = walks
<1>1. PICK f : f = FALSE
  OBVIOUS
<1>2. \A p, j, s, b, x : WalkOf(p, j, s, b, x) = Parts(p, j, s, b, x, f)
  BY <1>1 DEF WalkOf, Parts
<1>3. w = Parts(q, jobs, t, a, walks, f)
  BY <1>2
<1> QED BY <1>2, <1>3, ChangedParts DEF With

\* What comes after a node that has put out nothing, or after which the run
\* stops, has not begun.
LEMMA NothingNext ==
    ASSUME NEW r, NEW row, NEW G, RowOK(r, row, G), NEW n, NEW m, Edge(n, m),
           row.start \in NodeOrder, NodeIndex[row.start] <= NodeIndex[n],
           (row.output[n].taken => row.output[n].items = {}) \/ replayStopsAfter(row, n)
    PROVE  ~row.input[m].taken
<1>1. row.start # m
  BY NodesInOrder DEF Edge
<1>2. Linked(row, n, m)
  BY DEF Edge, RowOK
<1> QED BY <1>1, <1>2 DEF Linked, replayStopsAfter

\* Facts of a run at its k-th node.
LEMMA AtStage ==
    ASSUME NEW r, NEW w, NEW k \in 0..4, Fine(r, w, k), w.walks, k >= NodeIndex[w.row.start],
           ~Ended(r, w, k)
    PROVE  /\ Going(r, w, k) /\ w.row.start \in NodeOrder /\ w.row.start # "human_review"
           /\ RowType(w.row) /\ RowOK(r, w.row, Seen(r, w)) /\ NodeIndex[w.row.start] <= k
           /\ w.row.status = "running" /\ Proceeding(w.row)
           /\ \A n \in Fed : NodeIndex[n] = k => w.row.input[n].taken
           /\ w = WalkOf(w.row, w.jobs, w.topic, w.article, w.walks)
           /\ Statuses(r, w.row, w.jobs, w.topic, w.article)
<1>1. Going(r, w, k)
  BY DEF Fine, Stopped, AtDesk
<1>2. /\ w.row.start \in NodeOrder /\ RowType(w.row)
      /\ w = WalkOf(w.row, w.jobs, w.topic, w.article, w.walks)
      /\ Statuses(r, w.row, w.jobs, w.topic, w.article)
  BY FineWalk DEF RunRow
<1>3. NodeIndex[w.row.start] <= k /\ ~(k < NodeIndex[w.row.start])
  BY <1>2, NodesInOrder
<1>4. w.row.start # "human_review" /\ RowOK(r, w.row, Seen(r, w))
  BY DEF Fine
<1>5. \A n \in Fed : NodeIndex[n] = k => w.row.input[n].taken
  BY <1>1, <1>3 DEF Going
<1> QED BY <1>1, <1>2, <1>3, <1>4, <1>5 DEF Going

\* What a stage may close a node with.
Result(r, row, n, items) ==
    /\ items \in SUBSET OutputsOf[n]
    /\ n # "source_fetch" => Done(r, row, n)
    /\ n \in Fed \ {"article_evaluate"} => items = Made(r, row, n)
    /\ n = "source_fetch" => items = raw[r]
    /\ n = "article_evaluate" => items \subseteq Passed(r)

\* A run that goes on is at node n.
AtNode(r, w, n) ==
    /\ Fine(r, w, NodeIndex[n]) /\ w.walks /\ NodeIndex[n] >= NodeIndex[w.row.start]
    /\ ~Ended(r, w, NodeIndex[n])

\* What has become of the row when that node is closed with these items.
Closed(r, w, n, items, done) ==
    /\ RowType(done) /\ RowOK(r, done, Seen(r, w)) /\ Keeps(w.row, done)
    /\ done.input = w.row.input /\ done.desk = w.row.desk
    /\ done.status = "running" /\ w.row.status = "running"
    /\ \A l \in NodeOrder : l # n => done.output[l] = w.row.output[l]
    /\ done.output[n].taken
    /\ (\E m : Edge(n, m)) /\ items # {} => done.output[n].items # {}
    /\ n \in Fed \ {"article_evaluate"} => done.output[n].items = items
    /\ done.output["article_evaluate"].items \subseteq Passed(r)
    /\ replayStopsAfter(done, n) <=> replayStopsAfter(w.row, n)

\* The row with its k-th node closed.
LEMMA StageCloses ==
    ASSUME NEW r, NEW w, NEW n \in NodeOrder, n # "human_review", AtNode(r, w, n),
           NEW items, Result(r, w.row, n, items)
    PROVE  Closed(r, w, n, items, CloseNode(w.row, n, items))
<1>0. PICK k : k = NodeIndex[n]
  OBVIOUS
<1> DEFINE done == CloseNode(w.row, n, items)
<1>10. k \in 0..4 /\ Fine(r, w, k) /\ w.walks /\ k >= NodeIndex[w.row.start] /\ ~Ended(r, w, k)
  BY <1>0, NodesInOrder DEF AtNode
<1>1. /\ Going(r, w, k) /\ w.row.start \in NodeOrder /\ w.row.start # "human_review"
      /\ RowType(w.row) /\ RowOK(r, w.row, Seen(r, w)) /\ NodeIndex[w.row.start] <= k
      /\ w.row.status = "running" /\ Proceeding(w.row)
      /\ \A m \in Fed : NodeIndex[m] = k => w.row.input[m].taken
  BY <1>10, AtStage
<1>3. /\ RowType(done) /\ SameRun(w.row, done)
      /\ done.input = w.row.input /\ done.status = w.row.status /\ done.desk = w.row.desk
      /\ \A m \in NodeOrder : done.output[m] =
            IF m = n /\ ~w.row.output[n].taken THEN Taken(items) ELSE w.row.output[m]
  <2>1. items \in SUBSET OutputsOf[n]
    BY DEF Result
  <2> QED BY <1>1, <2>1, CloseNodeIs
<1> HIDE DEF done
<1>4. RowOK(r, done, Seen(r, w))
  <2>1. PICK G : G = Seen(r, w)
    OBVIOUS
  <2>2. NodeIndex[n] >= NodeIndex[w.row.start] /\ RowOK(r, w.row, G)
    BY <1>0, <1>1, <2>1
  <2>3. n \in Fed => w.row.input[n].taken
    BY <1>0, <1>1
  <2>4. /\ n \in Fed \ {"article_evaluate"} => items = Made(r, w.row, n) /\ Done(r, w.row, n)
        /\ n = "source_fetch" => items \subseteq raw[r]
    BY DEF Result, Fed, Working
  <2>5. RowOK(r, done, G)
    BY <1>3, <2>2, <2>3, <2>4, RowOKClose
  <2> QED BY <2>1, <2>5
<1>5. Keeps(w.row, done)
  BY <1>3 DEF Keeps
<1>6. /\ \A l \in NodeOrder : l # n => done.output[l] = w.row.output[l]
      /\ done.output[n].taken
  BY <1>3 DEF Taken
<1>7. ASSUME NEW m, Edge(n, m), items # {} PROVE done.output[n].items # {}
  <2>1. CASE ~w.row.output[n].taken
    BY <1>3, <1>7, <2>1 DEF Taken
  <2>2. CASE w.row.output[n].taken
    <3>1. w.row.input[m].taken
      BY <1>1, <1>7, <2>2 DEF Proceeding, Edge
    <3>2. Linked(w.row, n, m) /\ w.row.start # m
      BY <1>0, <1>1, <1>7, NodesInOrder DEF Edge, RowOK
    <3> QED BY <1>3, <2>2, <3>1, <3>2 DEF Linked
  <2> QED BY <2>1, <2>2
<1>8. ASSUME n \in Fed \ {"article_evaluate"} PROVE done.output[n].items = items
  <2>1. items = Made(r, w.row, n)
    BY <1>8 DEF Result
  <2>2. w.row.output[n].taken => w.row.output[n].items = Made(r, w.row, n)
    BY <1>1, <1>8 DEF RowOK
  <2> QED BY <1>3, <2>1, <2>2 DEF Taken
<1>9. done.output["article_evaluate"].items \subseteq Passed(r)
  <2>1. w.row.output["article_evaluate"].items \subseteq Passed(r)
    BY <1>10 DEF Fine
  <2>2. n = "article_evaluate" => items \subseteq Passed(r)
    BY DEF Result
  <2>3. "article_evaluate" \in NodeOrder
    BY NodesInOrder
  <2> QED BY <1>3, <2>1, <2>2, <2>3 DEF Taken
<1>11. replayStopsAfter(done, n) <=> replayStopsAfter(w.row, n)
  BY <1>3 DEF replayStopsAfter, SameRun
<1> QED BY <1>1, <1>3, <1>4, <1>5, <1>6, <1>7, <1>8, <1>9, <1>11 DEF Closed, done

\* The stage ends the run: it has made nothing, or the run was for this alone.
LEMMA ClosedStageEnds ==
    ASSUME NEW r, NEW w, NEW n \in NodeOrder, n # "human_review", AtNode(r, w, n),
           NEW items, Result(r, w.row, n, items),
           items = {} \/ replayStopsAfter(w.row, n),
           NEW t, NEW a, Statuses(r, w.row, w.jobs, t, a),
           NEW done, done = CloseNode(w.row, n, items)
    PROVE  \A q \in {SkipAfter(done, n), FailRun(done), CompleteReplayOnly(done)} :
               Fine(r, WalkOf(q, w.jobs, t, a, w.walks), NodeIndex[n] + 1)
<1> TAKE q \in {SkipAfter(done, n), FailRun(done), CompleteReplayOnly(done)}
<1>0. PICK k : k = NodeIndex[n]
  OBVIOUS
<1>10. k \in 0..4 /\ Fine(r, w, k) /\ w.walks /\ k >= NodeIndex[w.row.start] /\ ~Ended(r, w, k)
  BY <1>0, NodesInOrder DEF AtNode
<1>1. /\ Going(r, w, k) /\ w.row.start \in NodeOrder
      /\ RowOK(r, w.row, Seen(r, w)) /\ NodeIndex[w.row.start] <= k
  BY <1>10, AtStage
<1>3. /\ RowType(done) /\ RowOK(r, done, Seen(r, w)) /\ Keeps(w.row, done)
      /\ done.input = w.row.input /\ done.desk = w.row.desk /\ done.status = "running"
      /\ done.output["article_evaluate"].items \subseteq Passed(r)
  BY StageCloses DEF Closed
<1>4. SameWork(done, q) /\ q.status \in Final
  <2>1. done.status \notin Final /\ {"completed_empty", "failed", "completed"} \subseteq Final
    BY <1>3 DEF Final
  <2>2. CASE q = SkipAfter(done, n)
    BY <1>3, <2>1, <2>2, SkipAfterIs
  <2>3. CASE q = FailRun(done)
    BY <1>3, <2>1, <2>3, FailRunIs
  <2>4. CASE q = CompleteReplayOnly(done)
    BY <1>3, <2>1, <2>4, CompleteReplayOnlyIs
  <2> QED BY <2>2, <2>3, <2>4
<1>5. \A m : Edge(n, m) => ~w.row.input[m].taken
  <2> SUFFICES ASSUME NEW m, Edge(n, m) PROVE ~w.row.input[m].taken
    OBVIOUS
  <2>1. n \in {"source_fetch"} \cup (Fed \ {"article_evaluate"})
    BY DEF Edge, Fed, Working
  <2>2. items = {} => (w.row.output[n].taken => w.row.output[n].items = {})
    BY <1>1, <2>1 DEF RowOK, Result
  <2>3. (w.row.output[n].taken => w.row.output[n].items = {}) \/ replayStopsAfter(w.row, n)
    BY <2>2
  <2> QED BY <1>0, <1>1, <2>3, NothingNext
<1>6. n # "source_fetch" => Done(r, w.row, n)
  BY DEF Result
<1> QED BY <1>0, <1>10, <1>1, <1>3, <1>4, <1>5, <1>6, StageEnds

\* The stage goes on to the next node with what it has made.
LEMMA ClosedStageProceeds ==
    ASSUME NEW r, NEW w, NEW n, NEW m, Edge(n, m), AtNode(r, w, n),
           NEW items, Result(r, w.row, n, items), items # {}, ~replayStopsAfter(w.row, n),
           NEW jobs, jobs = JobsFor(m, items),
           NEW t, NEW a, Statuses(r, w.row, w.jobs \cup jobs, t, a),
           NEW done, done = CloseNode(w.row, n, items)
    PROVE  Fine(r, WalkOf(BindInput(done, n, m), w.jobs \cup jobs, t, a, w.walks), NodeIndex[n] + 1)
<1>0. PICK k : k = NodeIndex[n]
  OBVIOUS
<1>1. /\ n \in NodeOrder /\ n # "human_review"
      /\ n = "source_fetch" \/ n \in Fed \ {"article_evaluate"}
  BY NodesInOrder DEF Edge, Fed, Working
<1>2. k \in 0..4 /\ Fine(r, w, k) /\ w.walks /\ k >= NodeIndex[w.row.start] /\ ~Ended(r, w, k)
  BY <1>0, <1>1, NodesInOrder DEF AtNode
<1>3. Going(r, w, k) /\ NodeIndex[w.row.start] <= k
  BY <1>2, AtStage
<1>4. Closed(r, w, n, items, done)
  BY <1>1, StageCloses
<1>5. n # "source_fetch" => Done(r, w.row, n)
  BY DEF Result
<1>6. /\ RowOK(r, done, Seen(r, w)) /\ RowType(done) /\ Keeps(w.row, done)
      /\ done.input = w.row.input /\ done.desk = w.row.desk /\ done.status = w.row.status
      /\ \A l \in NodeOrder : l # n => done.output[l] = w.row.output[l]
      /\ done.output[n].taken /\ done.output[n].items # {} /\ ~replayStopsAfter(done, n)
      /\ n \in Fed \ {"article_evaluate"} => done.output[n].items = items
  BY <1>4 DEF Closed
<1>7. jobs = JobsFor(m, done.output[n].items)
  BY <1>1, <1>6 DEF JobsFor, Edge
<1>8. PICK more : more = done.output[n].items
  OBVIOUS
<1>9. jobs = JobsFor(m, more)
  BY <1>7, <1>8
<1>10. Statuses(r, w.row, w.jobs \cup JobsFor(m, more), t, a)
  BY <1>9
<1>11. Fine(r, WalkOf(BindInput(done, n, m), w.jobs \cup JobsFor(m, more), t, a, w.walks), k + 1)
  BY <1>0, <1>2, <1>3, <1>5, <1>6, <1>8, <1>10, StageProceeds
<1> QED BY <1>0, <1>9, <1>11

\* A node the run has not been to has no input, so its stage skips the rest.
LEMMA SkippedStage ==
    ASSUME NEW r, NEW w, NEW k \in Nat, Fine(r, w, k), Ended(r, w, k), NEW n
    PROVE  Fine(r, With(w, SkipAfter(w.row, n)), k + 1)
<1>1. /\ w = WalkOf(w.row, w.jobs, w.topic, w.article, w.walks)
      /\ RowType(w.row) /\ w.walks \in BOOLEAN
  BY FineWalk
<1>2. PICK q : q = SkipAfter(w.row, n)
  OBVIOUS
<1>3. SameWork(w.row, q) /\ q.status = w.row.status
  BY <1>1, <1>2, SkipAfterIs DEF Ended
<1>4. Fine(r, WalkOf(q, w.jobs, w.topic, w.article, w.walks), k + 1)
  BY <1>1, <1>3, StageAfterTheEnd
<1>5. With(w, q) = WalkOf(q, w.jobs, w.topic, w.article, w.walks)
  <2>1. PICK p, j, t, a, b : p = w.row /\ j = w.jobs /\ t = w.topic /\ a = w.article /\ b = w.walks
    OBVIOUS
  <2>2. w = WalkOf(p, j, t, a, b)
    BY <1>1, <2>1
  <2>3. With(w, q) = WalkOf(q, j, t, a, b)
    BY <2>2, ChangedWalks
  <2> QED BY <2>1, <2>3
<1> QED BY <1>2, <1>4, <1>5

\* The walk's changes as a stage makes them: of its row ...
LEMMA StageChanges ==
    ASSUME NEW r, NEW w, NEW k, Fine(r, w, k)
    PROVE  /\ \A p : With(w, p) = WalkOf(p, w.jobs, w.topic, w.article, w.walks)
           /\ \A p, more : Proceed(w, p, more) =
                               WalkOf(p, w.jobs \cup more, w.topic, w.article, w.walks)
<1>1. PICK q, j, s, b, x :
          q = w.row /\ j = w.jobs /\ s = w.topic /\ b = w.article /\ x = w.walks
  OBVIOUS
<1>2. w = WalkOf(q, j, s, b, x)
  BY <1>1, FineWalk
<1> QED BY <1>1, <1>2, ChangedWalks

\* ... of the topics ...
LEMMA TopicChanges ==
    ASSUME NEW r, NEW w, NEW k, Fine(r, w, k), NEW t, NEW v, v = [w EXCEPT !.topic = t]
    PROVE  /\ \A p : With(v, p) = WalkOf(p, w.jobs, t, w.article, w.walks)
           /\ \A p, more : Proceed(v, p, more) = WalkOf(p, w.jobs \cup more, t, w.article, w.walks)
<1>1. PICK q, j, s, b, x :
          q = w.row /\ j = w.jobs /\ s = w.topic /\ b = w.article /\ x = w.walks
  OBVIOUS
<1>2. w = WalkOf(q, j, s, b, x)
  BY <1>1, FineWalk
<1>3. v = WalkOf(q, j, t, b, x)
  BY <1>2, ChangedWalks
<1> QED BY <1>1, <1>3, ChangedWalks

\* ... and of the articles.
LEMMA ArticleChanges ==
    ASSUME NEW r, NEW w, NEW k, Fine(r, w, k), NEW a, NEW v, v = [w EXCEPT !.article = a]
    PROVE  \A p : With(v, p) = WalkOf(p, w.jobs, w.topic, a, w.walks)
<1>1. PICK q, j, s, b, x :
          q = w.row /\ j = w.jobs /\ s = w.topic /\ b = w.article /\ x = w.walks
  OBVIOUS
<1>2. w = WalkOf(q, j, s, b, x)
  BY <1>1, FineWalk
<1>3. v = WalkOf(q, j, s, a, x)
  BY <1>2, ChangedWalks
<1> QED BY <1>1, <1>3, ChangedWalks

-----------------------------------------------------------------------------

\* The fetches are over.
LEMMA SourceFetchIsFine ==
    ASSUME TypeOK, NEW r \in Runs, NEW w, AtNode(r, w, "source_fetch")
    PROVE  Fine(r, SourceFetch(r, w), 1)
<1>1. Fine(r, w, 0)
  BY NodesInOrder DEF AtNode
<1>2. /\ "source_fetch" \in NodeOrder
      /\ Edge("source_fetch", "topic_scout") /\ NodeIndex["source_fetch"] + 1 = 1
  BY NodesInOrder DEF Edge
<1>3. PICK items : items = raw[r]
  OBVIOUS
<1>4. PICK done : done = CloseNode(w.row, "source_fetch", items)
  OBVIOUS
<1>5. Result(r, w.row, "source_fetch", items)
  BY <1>3, ItemsOfNodes DEF TypeOK, Result, Fed, Working
<1>6. Statuses(r, w.row, w.jobs, w.topic, w.article)
  BY <1>1, FineWalk
<1>7. PICK jobs : jobs = {ScoutJob}
  OBVIOUS
<1>8. Statuses(r, w.row, w.jobs \cup jobs, w.topic, w.article)
  BY <1>6 DEF Statuses
<1>9. SourceFetch(r, w) =
          IF items = {} THEN With(w, SkipAfter(done, "source_fetch"))
          ELSE IF replayStopsAfter(done, "source_fetch") THEN With(w, CompleteReplayOnly(done))
          ELSE Proceed(w, BindInput(done, "source_fetch", "topic_scout"), jobs)
  <2>1. \A a : Cardinality({s \in Sources : answer[r][<<"source_fetch", s>>] = a}) \in Nat
    BY ReplayAssumption, FS_Subset, FS_CardinalityType
  <2>2. ~(Cardinality({s \in Sources : answer[r][<<"source_fetch", s>>] = "done"}) +
          Cardinality({s \in Sources : answer[r][<<"source_fetch", s>>] = "failed"}) < sourceCount(w.row))
    <3>1. \A c, d \in Nat : ~(c + d < 0)
      OBVIOUS
    <3> QED BY <2>1, <3>1 DEF sourceCount
  <2>3. ~(sourceCount(w.row) > 0)
    BY DEF sourceCount
  <2> QED BY <1>3, <1>4, <1>7, <2>2, <2>3 DEF SourceFetch
<1>10. replayStopsAfter(done, "source_fetch") <=> replayStopsAfter(w.row, "source_fetch")
  BY <1>2, <1>4, <1>5, StageCloses DEF Closed
<1>11. ASSUME items = {} \/ replayStopsAfter(w.row, "source_fetch")
       PROVE  \A q \in {SkipAfter(done, "source_fetch"), FailRun(done), CompleteReplayOnly(done)} :
                  Fine(r, WalkOf(q, w.jobs, w.topic, w.article, w.walks), 1)
  BY <1>2, <1>4, <1>5, <1>6, <1>11, ClosedStageEnds
<1>12. CASE items = {} \/ replayStopsAfter(w.row, "source_fetch")
  BY <1>9, <1>10, <1>11, <1>12, <1>1, StageChanges
<1>13. CASE ~(items = {} \/ replayStopsAfter(w.row, "source_fetch"))
  <2>1. jobs = JobsFor("topic_scout", items)
    BY <1>7 DEF JobsFor
  <2>2. items # {} /\ ~replayStopsAfter(w.row, "source_fetch")
    BY <1>13
  <2>3. PICK q : q = BindInput(done, "source_fetch", "topic_scout")
    OBVIOUS
  <2>4. Fine(r, WalkOf(q, w.jobs \cup jobs, w.topic, w.article, w.walks),
             NodeIndex["source_fetch"] + 1)
    BY <1>2, <1>4, <1>5, <1>8, <2>1, <2>2, <2>3, ClosedStageProceeds
  <2>5. SourceFetch(r, w) = WalkOf(q, w.jobs \cup jobs, w.topic, w.article, w.walks)
    <3>1. SourceFetch(r, w) = Proceed(w, q, jobs)
      BY <1>9, <1>10, <2>2, <2>3
    <3>2. Proceed(w, q, jobs) = WalkOf(q, w.jobs \cup jobs, w.topic, w.article, w.walks)
      BY <1>1, StageChanges
    <3> QED BY <3>1, <3>2
  <2> QED BY <1>2, <2>4, <2>5
<1> QED BY <1>12, <1>13

\* A stage whose node has nothing to work on ends the run.
LEMMA EmptyStageEnds ==
    ASSUME NEW r, NEW w, NEW n \in Working, AtNode(r, w, n), w.row.input[n].items = {}
    PROVE  Fine(r, With(w, SkipAfter(w.row, n)), NodeIndex[n] + 1)
<1>0. PICK k : k = NodeIndex[n]
  OBVIOUS
<1>1. /\ n \in NodeOrder /\ n # "human_review" /\ n \in Fed
      /\ n # "source_fetch" /\ n # "topic_scout"
  BY NodesInOrder DEF Working, Fed
<1>2. k \in 0..4 /\ Fine(r, w, k) /\ w.walks /\ k >= NodeIndex[w.row.start] /\ ~Ended(r, w, k)
  BY <1>0, <1>1, NodesInOrder DEF AtNode
<1>3. /\ Going(r, w, k) /\ w.row.start \in NodeOrder
      /\ RowOK(r, w.row, Seen(r, w)) /\ NodeIndex[w.row.start] <= k
      /\ w.row.status = "running" /\ RowType(w.row)
      /\ Statuses(r, w.row, w.jobs, w.topic, w.article)
  BY <1>2, AtStage
<1>4. PICK q : q = SkipAfter(w.row, n)
  OBVIOUS
<1>5. SameWork(w.row, q) /\ q.status \in Final
  BY <1>3, <1>4, SkipAfterIs DEF Final
<1>6. Done(r, w.row, n) /\ Keeps(w.row, w.row)
  BY <1>1 DEF Done, Keeps, SameRun
<1>7. \A m : Edge(n, m) => ~w.row.input[m].taken
  <2> SUFFICES ASSUME NEW m, Edge(n, m) PROVE ~w.row.input[m].taken
    OBVIOUS
  <2>1. n \in {"topic_evaluate", "article_write"}
    BY <1>1 DEF Edge
  <2>2. w.row.output[n].taken => w.row.output[n].items = Made(r, w.row, n)
    BY <1>1, <1>3, <2>1 DEF RowOK
  <2>3. Made(r, w.row, n) = {}
    BY <2>1 DEF Made
  <2> QED BY <1>0, <1>3, <2>2, <2>3, NothingNext
<1>8. w.row.output["article_evaluate"].items \subseteq Passed(r)
  BY <1>2 DEF Fine
<1>9. Fine(r, WalkOf(q, w.jobs, w.topic, w.article, w.walks), k + 1)
  BY <1>0, <1>1, <1>2, <1>3, <1>5, <1>6, <1>7, <1>8, StageEnds
<1>10. Fine(r, With(w, q), k + 1)
  <2>1. \A p : With(w, p) = WalkOf(p, w.jobs, w.topic, w.article, w.walks)

    <3>1. Fine(r, w, k)
      BY <1>2
    <3> QED BY <3>1, StageChanges
  <2> QED BY <1>9, <2>1
<1> QED BY <1>0, <1>4, <1>10

\* What a verdict makes of a topic, and a quality of an article.
LEMMA Gates ==
    /\ \A s \in TopicStatus \cup {"absent"} : \A v :
          /\ GateTopic(s, v) \in TopicStatus \cup {"absent"}
          /\ GateTopic(s, v) = "absent" <=> s = "absent"
          /\ GateTopic(s, v) = "in_writing" => s = "in_writing" \/ v = "pass"
    /\ \A s \in ArticleStatus \cup {"absent"} : \A v :
          /\ GateArticle(s, v) \in ArticleStatus \cup {"absent"}
          /\ GateArticle(s, v) = "absent" <=> s = "absent"
BY DEF GateTopic, GateArticle, TopicStatus, ArticleStatus

\* The scout has answered, or is waited for.
LEMMA TopicScoutIsFine ==
    ASSUME TypeOK, NEW r \in Runs, NEW w, AtNode(r, w, "topic_scout")
    PROVE  Fine(r, TopicScout(r, w), 2)
<1>1. Fine(r, w, 1)
  BY NodesInOrder DEF AtNode
<1>2. /\ "topic_scout" \in NodeOrder
      /\ Edge("topic_scout", "topic_evaluate") /\ NodeIndex["topic_scout"] + 1 = 2
  BY NodesInOrder DEF Edge
<1>3. PICK items : items = {t \in Topics : topic[t] # "absent" /\ owner[t] = r}
  OBVIOUS
<1>4. PICK done : done = CloseNode(w.row, "topic_scout", items)
  OBVIOUS
<1>5. PICK jobs : jobs = {"topic_evaluate"} \X items
  OBVIOUS
<1>6. /\ Statuses(r, w.row, w.jobs, w.topic, w.article)
      /\ Statuses(r, w.row, w.jobs \cup jobs, w.topic, w.article)
  <2>1. Statuses(r, w.row, w.jobs, w.topic, w.article)
    BY <1>1, FineWalk
  <2> QED BY <2>1 DEF Statuses
<1>7. TopicScout(r, w) =
          IF answer[r][ScoutJob] = "none" THEN Wait(w)
          ELSE IF items = {}
          THEN With(w, IF answer[r][ScoutJob] = "failed"
                       THEN FailRun(done) ELSE SkipAfter(done, "topic_scout"))
          ELSE IF replayStopsAfter(done, "topic_scout") THEN With(w, CompleteReplayOnly(done))
          ELSE Proceed(w, BindInput(done, "topic_scout", "topic_evaluate"), jobs)
  BY <1>3, <1>4, <1>5 DEF TopicScout
<1>8. CASE answer[r][ScoutJob] = "none"
  <2>1. Going(r, w, 1)
    BY <1>1, NodesInOrder, AtStage DEF AtNode
  <2> QED BY <1>1, <1>7, <1>8, <2>1, StageWaits
<1>9. CASE answer[r][ScoutJob] # "none"
  <2>1. Result(r, w.row, "topic_scout", items)
    BY <1>3, <1>9, ItemsOfNodes DEF Result, Fed, Working, Done, Made
  <2>2. replayStopsAfter(done, "topic_scout") <=> replayStopsAfter(w.row, "topic_scout")
    BY <1>2, <1>4, <2>1, StageCloses DEF Closed
  <2>3. CASE items = {} \/ replayStopsAfter(w.row, "topic_scout")
    <3>1. \A q \in {SkipAfter(done, "topic_scout"), FailRun(done), CompleteReplayOnly(done)} :
              Fine(r, WalkOf(q, w.jobs, w.topic, w.article, w.walks), 2)
      BY <1>2, <1>4, <1>6, <2>1, <2>3, ClosedStageEnds
    <3> QED BY <1>7, <1>9, <2>2, <2>3, <3>1, <1>1, StageChanges
  <2>4. CASE items # {} /\ ~replayStopsAfter(w.row, "topic_scout")
    <3>1. jobs = JobsFor("topic_evaluate", items)
      BY <1>5 DEF JobsFor
    <3>2. PICK q : q = BindInput(done, "topic_scout", "topic_evaluate")
      OBVIOUS
    <3>3. Fine(r, WalkOf(q, w.jobs \cup jobs, w.topic, w.article, w.walks),
               NodeIndex["topic_scout"] + 1)
      BY <1>2, <1>4, <1>6, <2>1, <2>4, <3>1, <3>2, ClosedStageProceeds
    <3>4. TopicScout(r, w) = Proceed(w, q, jobs)
      BY <1>7, <1>9, <2>2, <2>4, <3>2
    <3>5. Proceed(w, q, jobs) = WalkOf(q, w.jobs \cup jobs, w.topic, w.article, w.walks)
      BY <1>1, StageChanges
    <3> QED BY <1>2, <3>3, <3>4, <3>5
  <2> QED BY <2>3, <2>4
<1> QED BY <1>8, <1>9

\* All topics have been evaluated, and those that are good are to be written.
LEMMA TopicEvaluateIsFine ==
    ASSUME TypeOK, NEW r \in Runs, NEW w, AtNode(r, w, "topic_evaluate")
    PROVE  Fine(r, TopicEvaluate(r, w), 3)
<1>1. Fine(r, w, 2)
  BY NodesInOrder DEF AtNode
<1>2. /\ "topic_evaluate" \in NodeOrder
      /\ Edge("topic_evaluate", "article_write") /\ NodeIndex["topic_evaluate"] + 1 = 3
  BY NodesInOrder DEF Edge
<1>3. PICK ids : ids = w.row.input["topic_evaluate"].items
  OBVIOUS
<1>4. PICK items : items = {t \in ids : answer[r][<<"topic_evaluate", t>>] = "pass"}
  OBVIOUS
<1>5. PICK done : done = CloseNode(w.row, "topic_evaluate", items)
  OBVIOUS
<1>6. PICK jobs : jobs = {"article_write"} \X items
  OBVIOUS
<1>7. PICK s : s = [t \in Topics |-> IF t \in ids
                       THEN GateTopic(w.topic[t], answer[r][<<"topic_evaluate", t>>]) ELSE w.topic[t]]
  OBVIOUS
<1>8. PICK gated : gated = [w EXCEPT !.topic = s]
  OBVIOUS
<1>9. ids = {} => ~Waits(r, "topic_evaluate", ids)
  BY DEF Waits
<1>10. TopicEvaluate(r, w) =
           IF ids = {} THEN With(w, SkipAfter(w.row, "topic_evaluate"))
           ELSE IF Waits(r, "topic_evaluate", ids) THEN Wait(w)
           ELSE IF items = {} THEN With(gated, SkipAfter(done, "topic_evaluate"))
           ELSE IF replayStopsAfter(done, "topic_evaluate")
           THEN With(gated, CompleteReplayOnly(done))
           ELSE Proceed(gated, BindInput(done, "topic_evaluate", "article_write"), jobs)
  BY <1>3, <1>4, <1>5, <1>6, <1>7, <1>8, <1>9 DEF TopicEvaluate
<1>11. /\ Going(r, w, 2) /\ RowType(w.row) /\ w.row.start \in NodeOrder
      /\ RowOK(r, w.row, Seen(r, w)) /\ NodeIndex[w.row.start] <= 2
      /\ w.row.status = "running"
      /\ Statuses(r, w.row, w.jobs, w.topic, w.article)
  BY <1>1, NodesInOrder, AtStage DEF AtNode
<1>12. ids \subseteq Topics
  BY <1>3, <1>11, ItemsOfNodes, NodesInOrder DEF RowType
<1>13. Waits(r, "topic_evaluate", ids) \/ Done(r, w.row, "topic_evaluate")
  BY <1>3 DEF Waits, Done
<1>14. Statuses(r, w.row, w.jobs, w.topic, w.article) => 
           /\ s \in [Topics -> TopicStatus \cup {"absent"}]
           /\ \A t \in Topics : /\ s[t] = "absent" <=> w.topic[t] = "absent"
                                /\ s[t] = "in_writing" => w.topic[t] = "in_writing" \/ t \in items
  BY <1>4, <1>7, Gates DEF Statuses
<1>15. ASSUME items = {} PROVE Statuses(r, w.row, w.jobs, s, w.article)
  BY <1>11, <1>14, <1>15 DEF Statuses
<1>16. Statuses(r, w.row, w.jobs \cup jobs, s, w.article)
  <2>1. \A t \in items : <<"article_write", t>> \in jobs
    BY <1>6
  <2> QED BY <1>11, <1>14, <2>1 DEF Statuses
<1>17. ASSUME replayStopsAfter(w.row, "topic_evaluate")
       PROVE  Statuses(r, w.row, w.jobs, s, w.article)
  BY <1>4, <1>11, <1>14, <1>17 DEF Statuses, replayStopsAfter
<1>18. CASE ids = {}
  BY <1>2, <1>3, <1>10, <1>18, EmptyStageEnds DEF Working
<1>19. CASE ids # {} /\ Waits(r, "topic_evaluate", ids)
  BY <1>1, <1>10, <1>11, <1>19, StageWaits
<1>20. CASE ids # {} /\ ~Waits(r, "topic_evaluate", ids)
  <2>1. Result(r, w.row, "topic_evaluate", items)
    BY <1>3, <1>4, <1>12, <1>13, <1>20, ItemsOfNodes DEF Result, Fed, Working, Made
  <2>2. replayStopsAfter(done, "topic_evaluate") <=> replayStopsAfter(w.row, "topic_evaluate")
    BY <1>2, <1>5, <2>1, StageCloses DEF Closed
  <2>3. CASE items = {} \/ replayStopsAfter(w.row, "topic_evaluate")
    <3>1. Statuses(r, w.row, w.jobs, s, w.article)
      BY <1>15, <1>17, <2>3
    <3>2. \A q \in {SkipAfter(done, "topic_evaluate"), FailRun(done), CompleteReplayOnly(done)} :
              Fine(r, WalkOf(q, w.jobs, s, w.article, w.walks), 3)
      BY <1>2, <1>5, <2>1, <2>3, <3>1, ClosedStageEnds
    <3>3. \A p : With(gated, p) = WalkOf(p, w.jobs, s, w.article, w.walks)
      BY <1>1, <1>8, TopicChanges
    <3> QED BY <1>10, <1>20, <2>2, <2>3, <3>2, <3>3
  <2>4. CASE items # {} /\ ~replayStopsAfter(w.row, "topic_evaluate")
    <3>1. jobs = JobsFor("article_write", items)
      BY <1>6 DEF JobsFor
    <3>2. PICK q : q = BindInput(done, "topic_evaluate", "article_write")
      OBVIOUS
    <3>3. Fine(r, WalkOf(q, w.jobs \cup jobs, s, w.article, w.walks),
               NodeIndex["topic_evaluate"] + 1)
      BY <1>2, <1>5, <1>16, <2>1, <2>4, <3>1, <3>2, ClosedStageProceeds
    <3>4. TopicEvaluate(r, w) = Proceed(gated, q, jobs)
      BY <1>10, <1>20, <2>2, <2>4, <3>2
    <3>5. \A p, more : Proceed(gated, p, more) =
                             WalkOf(p, w.jobs \cup more, s, w.article, w.walks)
      BY <1>1, <1>8, TopicChanges
    <3> QED BY <1>2, <3>3, <3>4, <3>5
  <2> QED BY <2>3, <2>4
<1> QED BY <1>18, <1>19, <1>20

\* All articles have been written, or given up.
LEMMA ArticleWriteIsFine ==
    ASSUME TypeOK, NEW r \in Runs, NEW w, AtNode(r, w, "article_write")
    PROVE  Fine(r, ArticleWrite(r, w), 4)
<1>1. Fine(r, w, 3)
  BY NodesInOrder DEF AtNode
<1>2. /\ "article_write" \in NodeOrder
      /\ Edge("article_write", "article_evaluate") /\ NodeIndex["article_write"] + 1 = 4
  BY NodesInOrder DEF Edge
<1>3. PICK ids : ids = w.row.input["article_write"].items
  OBVIOUS
<1>4. PICK items : items = {x \in ids \X {r} : article[x] # "absent"}
  OBVIOUS
<1>5. PICK done : done = CloseNode(w.row, "article_write", items)
  OBVIOUS
<1>6. PICK jobs : jobs = {"article_evaluate"} \X items
  OBVIOUS
<1>7. PICK s : s = [t \in Topics |->
                       IF t \in ids /\ w.topic[t] = "in_writing" THEN "written" ELSE w.topic[t]]
  OBVIOUS
<1>8. PICK closed : closed = [w EXCEPT !.topic = s]
  OBVIOUS
<1>9. ids = {} => ~Waits(r, "article_write", ids)
  BY DEF Waits
<1>10. ArticleWrite(r, w) =
          IF ids = {} THEN With(w, SkipAfter(w.row, "article_write"))
          ELSE IF Waits(r, "article_write", ids) THEN Wait(w)
          ELSE IF items = {} THEN With(w, SkipAfter(done, "article_write"))
          ELSE IF replayStopsAfter(done, "article_write") THEN With(closed, CompleteReplayOnly(done))
          ELSE Proceed(closed, BindInput(done, "article_write", "article_evaluate"), jobs)
  BY <1>3, <1>4, <1>5, <1>6, <1>7, <1>8, <1>9 DEF ArticleWrite
<1>11. /\ Going(r, w, 3) /\ RowType(w.row) /\ w.row.start \in NodeOrder
       /\ RowOK(r, w.row, Seen(r, w)) /\ NodeIndex[w.row.start] <= 3
       /\ w.row.status = "running"
       /\ Statuses(r, w.row, w.jobs, w.topic, w.article)
  BY <1>1, NodesInOrder, AtStage DEF AtNode
<1>12. ids \subseteq Topics
  BY <1>3, <1>11, ItemsOfNodes, NodesInOrder DEF RowType
<1>13. Waits(r, "article_write", ids) \/ Done(r, w.row, "article_write")
  BY <1>3 DEF Waits, Done
<1>14. /\ Statuses(r, w.row, w.jobs, s, w.article)
       /\ Statuses(r, w.row, w.jobs \cup jobs, s, w.article)
  <2>1. /\ s \in [Topics -> TopicStatus \cup {"absent"}]
        /\ \A t \in Topics : /\ s[t] = "absent" <=> w.topic[t] = "absent"
                             /\ s[t] = "in_writing" => w.topic[t] = "in_writing"
    BY <1>7, <1>11 DEF Statuses, TopicStatus
  <2> QED BY <1>11, <2>1 DEF Statuses
<1>15. CASE ids = {}
  BY <1>2, <1>3, <1>10, <1>15, EmptyStageEnds DEF Working
<1>16. CASE ids # {} /\ Waits(r, "article_write", ids)
  BY <1>1, <1>10, <1>11, <1>16, StageWaits
<1>17. CASE ids # {} /\ ~Waits(r, "article_write", ids)
  <2>1. Result(r, w.row, "article_write", items)
    <3>1. items \subseteq Articles
      BY <1>4, <1>12 DEF Articles
    <3> QED BY <1>3, <1>4, <1>13, <1>17, <3>1, ItemsOfNodes DEF Result, Fed, Working, Made
  <2>2. replayStopsAfter(done, "article_write") <=> replayStopsAfter(w.row, "article_write")
    BY <1>2, <1>5, <2>1, StageCloses DEF Closed
  <2>3. CASE items = {} \/ replayStopsAfter(w.row, "article_write")
    <3>1. \A q \in {SkipAfter(done, "article_write"), FailRun(done), CompleteReplayOnly(done)} :
              /\ Fine(r, WalkOf(q, w.jobs, s, w.article, w.walks), 4)
              /\ Fine(r, WalkOf(q, w.jobs, w.topic, w.article, w.walks), 4)
      BY <1>2, <1>5, <1>11, <1>14, <2>1, <2>3, ClosedStageEnds
    <3>2. /\ \A p : With(closed, p) = WalkOf(p, w.jobs, s, w.article, w.walks)
          /\ \A p : With(w, p) = WalkOf(p, w.jobs, w.topic, w.article, w.walks)
      BY <1>1, <1>8, TopicChanges, StageChanges
    <3> QED BY <1>10, <1>17, <2>2, <2>3, <3>1, <3>2
  <2>4. CASE items # {} /\ ~replayStopsAfter(w.row, "article_write")
    <3>1. jobs = JobsFor("article_evaluate", items)
      BY <1>6 DEF JobsFor
    <3>2. PICK q : q = BindInput(done, "article_write", "article_evaluate")
      OBVIOUS
    <3>3. Fine(r, WalkOf(q, w.jobs \cup jobs, s, w.article, w.walks),
               NodeIndex["article_write"] + 1)
      BY <1>2, <1>5, <1>14, <2>1, <2>4, <3>1, <3>2, ClosedStageProceeds
    <3>4. ArticleWrite(r, w) = Proceed(closed, q, jobs)
      BY <1>10, <1>17, <2>2, <2>4, <3>2
    <3>5. \A p, more : Proceed(closed, p, more) =
                           WalkOf(p, w.jobs \cup more, s, w.article, w.walks)
      BY <1>1, <1>8, TopicChanges
    <3> QED BY <1>2, <3>3, <3>4, <3>5
  <2> QED BY <2>3, <2>4
<1> QED BY <1>15, <1>16, <1>17

\* The articles have been evaluated: the good ones go on the desk, if none failed.
LEMMA ArticleEvaluateIsFine ==
    ASSUME TypeOK, NEW r \in Runs, NEW w, AtNode(r, w, "article_evaluate")
    PROVE  ArticleEvaluate(r, w).fails \/ Fine(r, ArticleEvaluate(r, w), 5)
<1>1. Fine(r, w, 4)
  BY NodesInOrder DEF AtNode
<1>2. "article_evaluate" \in NodeOrder /\ NodeIndex["article_evaluate"] + 1 = 5
  BY NodesInOrder
<1>3. PICK ids : ids = w.row.input["article_evaluate"].items
  OBVIOUS
<1>4. PICK items : items = {x \in ids : /\ answer[r][<<"article_evaluate", x>>] = "pass"
                                        /\ w.article[x] \in {"draft", "pending_review"}}
  OBVIOUS
<1>5. PICK done : done = CloseNode(w.row, "article_evaluate", items)
  OBVIOUS
<1>6. PICK s : s = [x \in Articles |-> IF x \in ids
                       THEN GateArticle(w.article[x], answer[r][<<"article_evaluate", x>>])
                       ELSE w.article[x]]
  OBVIOUS
<1>7. PICK gated : gated = [w EXCEPT !.article = s]
  OBVIOUS
<1>8. PICK closed : closed = CloseNode(done, "human_review", items)
  OBVIOUS
<1>9. PICK q : q = [closed EXCEPT !.desk = closed.desk \cup items, !.status = "waiting_human_review"]
  OBVIOUS
<1>10. ids = {} => ~Waits(r, "article_evaluate", ids)
  BY DEF Waits
<1>11. ArticleEvaluate(r, w) =
          IF ids = {} THEN With(w, SkipAfter(w.row, "article_evaluate"))
          ELSE IF Waits(r, "article_evaluate", ids) THEN Wait(w)
          ELSE IF replayStopsAfter(done, "article_evaluate") THEN With(gated, CompleteReplayOnly(done))
          ELSE IF \E x \in ids : answer[r][<<"article_evaluate", x>>] = "failed"
          THEN [w EXCEPT !.fails = TRUE]
          ELSE With(gated, q)
  BY <1>3, <1>4, <1>5, <1>6, <1>7, <1>8, <1>9, <1>10 DEF ArticleEvaluate
<1>12. /\ Going(r, w, 4) /\ RowType(w.row) /\ w.row.start \in NodeOrder
       /\ RowOK(r, w.row, Seen(r, w)) /\ NodeIndex[w.row.start] <= 4
       /\ w.row.status = "running" /\ w.row.start # "human_review"
       /\ Statuses(r, w.row, w.jobs, w.topic, w.article)
  BY <1>1, NodesInOrder, AtStage DEF AtNode
<1>13. ids \subseteq Articles
  BY <1>3, <1>12, ItemsOfNodes, NodesInOrder DEF RowType
<1>14. Waits(r, "article_evaluate", ids) \/ Done(r, w.row, "article_evaluate")
  BY <1>3 DEF Waits, Done
<1>15. Statuses(r, w.row, w.jobs, w.topic, s)
  <2>1. /\ s \in [Articles -> ArticleStatus \cup {"absent"}]
        /\ \A x \in Articles : s[x] = "absent" <=> w.article[x] = "absent"
    BY <1>6, <1>12, Gates DEF Statuses
  <2> QED BY <1>12, <2>1 DEF Statuses
<1>16. CASE ids = {}
  BY <1>2, <1>3, <1>11, <1>16, EmptyStageEnds DEF Working
<1>17. CASE ids # {} /\ Waits(r, "article_evaluate", ids)
  BY <1>1, <1>11, <1>12, <1>17, StageWaits
<1>18. CASE ids # {} /\ ~Waits(r, "article_evaluate", ids)
  <2>1. items \subseteq Articles /\ items \subseteq Passed(r)
    BY <1>4, <1>13 DEF Passed
  <2>2. Result(r, w.row, "article_evaluate", items)
    BY <1>14, <1>18, <2>1, ItemsOfNodes DEF Result, Fed, Working
  <2>3. Closed(r, w, "article_evaluate", items, done)
    BY <1>2, <1>5, <2>2, StageCloses
  <2>4. replayStopsAfter(done, "article_evaluate") <=> replayStopsAfter(w.row, "article_evaluate")
    BY <2>3 DEF Closed
  <2>5. \A p : With(gated, p) = WalkOf(p, w.jobs, w.topic, s, w.walks)
    BY <1>1, <1>7, ArticleChanges
  <2>6. CASE replayStopsAfter(w.row, "article_evaluate")
    <3>1. \A p \in {SkipAfter(done, "article_evaluate"), FailRun(done), CompleteReplayOnly(done)} :
              Fine(r, WalkOf(p, w.jobs, w.topic, s, w.walks), 5)
      BY <1>2, <1>5, <1>15, <2>2, <2>6, ClosedStageEnds
    <3> QED BY <1>11, <1>18, <2>4, <2>5, <2>6, <3>1
  <2>7. CASE ~replayStopsAfter(w.row, "article_evaluate")
             /\ \E x \in ids : answer[r][<<"article_evaluate", x>>] = "failed"
    <3>1. ArticleEvaluate(r, w) = [w EXCEPT !.fails = TRUE]
      BY <1>11, <1>18, <2>4, <2>7
    <3>2. WalkType(w)
      BY <1>1 DEF Fine
    <3>3. [w EXCEPT !.fails = TRUE].fails
      BY <3>2 DEF WalkType
    <3> QED BY <3>1, <3>3
  <2>8. CASE ~replayStopsAfter(w.row, "article_evaluate")
             /\ ~\E x \in ids : answer[r][<<"article_evaluate", x>>] = "failed"
    <3>1. ArticleEvaluate(r, w) = WalkOf(q, w.jobs, w.topic, s, w.walks)
      BY <1>11, <1>18, <2>4, <2>5, <2>8
    <3>2. PICK G : G = Seen(r, w)
      OBVIOUS
    <3>3. /\ RowType(done) /\ RowOK(r, done, G) /\ Keeps(w.row, done)
          /\ done.desk = w.row.desk
          /\ done.output["article_evaluate"].items \subseteq Passed(r)
      BY <2>3, <3>2 DEF Closed
    <3>4. /\ RowType(closed) /\ SameRun(done, closed)
          /\ closed.input = done.input /\ closed.desk = done.desk
          /\ \A m \in NodeOrder : closed.output[m] =
                IF m = "human_review" /\ ~done.output["human_review"].taken
                THEN Taken(items) ELSE done.output[m]
      BY <1>8, <2>1, <3>3, NodesInOrder, ItemsOfNodes, CloseNodeIs
    <3>5. RowOK(r, closed, G)
      <4>1. NodeIndex["human_review"] >= NodeIndex[done.start]
        BY <1>12, <3>3, NodesInOrder DEF Keeps, SameRun
      <4>2. "human_review" \in NodeOrder /\ "human_review" \notin Fed
            /\ "human_review" # "source_fetch"
        BY NodesInOrder DEF Fed, Working
      <4> QED BY <3>3, <3>4, <4>1, <4>2, RowOKClose
    <3>6. w.row.desk = {}
      BY <1>1, <1>12 DEF Fine, Waiting
    <3>7. /\ RowType(q) /\ SameLine(closed, q) /\ q.desk = items
          /\ q.status = "waiting_human_review"
      <4>1. closed \in RunRow /\ closed.desk = {}
        BY <3>3, <3>4, <3>6 DEF RowType
      <4>2. "waiting_human_review" \in RunStatus
        BY DEF RunStatus
      <4>3. /\ q \in RunRow /\ q.desk = items /\ q.status = "waiting_human_review"
            /\ q.input = closed.input /\ q.output = closed.output /\ SameRun(closed, q)
        BY <1>9, <2>1, <4>1, <4>2 DEF RunRow, SameRun
      <4> QED BY <3>4, <4>3 DEF RowType, SameLine
    <3>8. RowOK(r, q, Given(r) \cup w.jobs)
      BY <3>2, <3>5, <3>7, RowOKSame DEF Seen
    <3>9. Keeps(rows[r], w.row) /\ Keeps(w.row, q)
      <4>1. Keeps(rows[r], w.row)
        BY <1>1 DEF Fine
      <4>2. Keeps(w.row, closed)
        BY <3>3, <3>4 DEF Keeps, SameRun
      <4> QED BY <3>7, <4>1, <4>2 DEF Keeps, SameLine, SameRun
    <3>10. q.output["article_evaluate"].items \subseteq Passed(r)
      BY <1>2, <3>3, <3>4, <3>7 DEF SameLine
    <3>11. /\ Statuses(r, q, w.jobs, w.topic, s) /\ q.start # "human_review" /\ Waiting(q)
           /\ Ahead(q, w.jobs)
      <4>1. Ahead(w.row, w.jobs)
        BY <1>1 DEF Fine
      <4> QED BY <1>12, <1>15, <3>7, <3>9, <4>1 DEF Statuses, Keeps, SameRun, Waiting, Ahead
    <3>12. PICK v : v = WalkOf(q, w.jobs, w.topic, s, w.walks)
      OBVIOUS
    <3>13. AtDesk(r, v, 5)
      <4>1. v.row = q /\ v.walks = w.walks /\ Seen(r, v) = Seen(r, w)
        BY <3>12 DEF WalkOf, Seen
      <4>2. ASSUME ScoutJob \in Seen(r, w) PROVE answer[r][ScoutJob] # "none"
        BY <1>12, <4>2 DEF Going
      <4>3. ASSUME NEW n \in Working, NEW i \in Item, <<n, i>> \in Seen(r, w)
            PROVE  answer[r][<<n, i>>] # "none"
        <5>1. CASE n = "article_evaluate"
          BY <1>12, <1>14, <1>18, <4>3, <5>1 DEF RowOK, Done, Working
        <5>2. CASE n # "article_evaluate"
          BY <1>12, <4>3, <5>2, NodesInOrder DEF Going, Working
        <5> QED BY <5>1, <5>2
      <4>4. w.walks
        BY <1>12 DEF Going
      <4> QED BY <3>7, <4>1, <4>2, <4>3, <4>4 DEF AtDesk, Drained
    <3>14. w.jobs \in SUBSET Jobs /\ w.walks \in BOOLEAN
      BY <1>1, FineWalk
    <3>15. q.desk \subseteq Passed(r)
      BY <2>1, <3>7
    <3>16. Fine(r, v, 5)
      BY <3>7, <3>8, <3>9, <3>10, <3>11, <3>12, <3>13, <3>14, <3>15, WalkIsFine
    <3> QED BY <3>1, <3>12, <3>16
  <2> QED BY <2>6, <2>7, <2>8
<1> QED BY <1>16, <1>17, <1>18

\* Somebody has something to review, or the run ends.
LEMMA HumanReviewIsFine ==
    ASSUME NEW r, NEW w, Fine(r, w, 5), w.walks
    PROVE  Fine(r, HumanReview(r, w), 6)
<1>1. PICK walks : walks = w.walks
  OBVIOUS
<1>2. /\ RowType(w.row) /\ w.row \in RunRow /\ w.row.start \in NodeOrder
      /\ w.jobs \in SUBSET Jobs /\ walks \in BOOLEAN
      /\ Statuses(r, w.row, w.jobs, w.topic, w.article)
  BY <1>1, FineWalk DEF RunRow
<1>3. \A p : With(w, p) = WalkOf(p, w.jobs, w.topic, w.article, walks)
  <2>1. \A p : With(w, p) = WalkOf(p, w.jobs, w.topic, w.article, w.walks)
    BY StageChanges
  <2> QED BY <1>1, <2>1
<1>4. PICK q : q = IF w.row.desk = {} THEN CompleteEmpty(w.row)
                   ELSE [w.row EXCEPT !.status =
                            IF w.row.status \in {"queued", "running"}
                            THEN "waiting_human_review" ELSE w.row.status]
  OBVIOUS
<1>5. HumanReview(r, w) = WalkOf(q, w.jobs, w.topic, w.article, walks)
  BY <1>3, <1>4 DEF HumanReview
<1>6. CASE Ended(r, w, 5)
  <2>1. w.row.desk = {} /\ w.row.status \in Final
    BY <1>6 DEF Fine, Ended, Waiting, Final
  <2>2. SameWork(w.row, q) /\ q.status = w.row.status
    BY <1>2, <1>4, <2>1, CompleteEmptyIs
  <2>3. Fine(r, WalkOf(q, w.jobs, w.topic, w.article, walks), 5 + 1)
    BY <1>2, <1>6, <2>2, StageAfterTheEnd
  <2> QED BY <1>5, <2>3
<1>7. CASE AtDesk(r, w, 5)
  <2>1. w.row.status = "waiting_human_review" /\ Drained(r, Seen(r, w))
    BY <1>7 DEF AtDesk
  <2>2. /\ SameWork(w.row, q)
        /\ w.row.desk = {} => q.status = "completed_empty"
        /\ w.row.desk # {} => q.status = "waiting_human_review"
    <3>1. CASE w.row.desk = {}
      BY <1>2, <1>4, <2>1, <3>1, CompleteEmptyIs DEF Final
    <3>2. CASE w.row.desk # {}
      <4>1. q = [w.row EXCEPT !.status = "waiting_human_review"]
        BY <1>4, <2>1, <3>2
      <4>2. "waiting_human_review" \in RunStatus
        BY DEF RunStatus
      <4> QED BY <1>2, <3>2, <4>1, <4>2, StatusOnly
    <3> QED BY <3>1, <3>2
  <2>3. /\ q.input = w.row.input /\ q.output = w.row.output /\ q.desk = w.row.desk
        /\ q.start = w.row.start /\ q.mode = w.row.mode
        /\ RowType(q) /\ SameLine(w.row, q)
    BY <2>2 DEF SameWork, SameLine, SameRun
  <2>4. /\ RowOK(r, w.row, Given(r) \cup w.jobs) /\ Keeps(rows[r], w.row)
        /\ Ahead(w.row, w.jobs) /\ w.row.desk \subseteq Passed(r)
        /\ w.row.output["article_evaluate"].items \subseteq Passed(r)
        /\ w.row.start # "human_review"
    BY DEF Fine, Seen
  <2>5. RowOK(r, q, Given(r) \cup w.jobs)
    BY <2>3, <2>4, RowOKSame
  <2>6. /\ Keeps(w.row, q) /\ Statuses(r, q, w.jobs, w.topic, w.article)
        /\ ~Waiting(q) => q.desk = {}
        /\ Ahead(q, w.jobs)
    BY <1>2, <2>2, <2>3, <2>4 DEF Keeps, SameLine, Statuses, Waiting, Ahead
  <2>7. PICK v : v = WalkOf(q, w.jobs, w.topic, w.article, walks)
    OBVIOUS
  <2>8. v.row = q /\ v.walks = walks /\ Seen(r, v) = Seen(r, w)
    BY <2>7 DEF WalkOf, Seen
  <2>9. \A n \in NodeOrder : NodeIndex[n] \in 0..5
    BY NodesInOrder
  <2>10. Ended(r, v, 6) \/ AtDesk(r, v, 6)
    <3>1. CASE w.row.desk = {}
      <4>1. q.status \in Final
        BY <2>2, <3>1 DEF Final
      <4>2. 6 > NodeIndex[q.start]
        BY <1>2, <2>3, <2>9
      <4>3. \A n \in NodeOrder : NodeIndex[n] >= 6 => ~q.input[n].taken
        BY <2>9
      <4> QED BY <2>1, <2>8, <4>1, <4>2, <4>3 DEF Ended
    <3>2. CASE w.row.desk # {}
      <4>1. v.walks
        BY <1>1, <2>8
      <4> QED BY <2>1, <2>2, <2>3, <2>8, <3>2, <4>1 DEF AtDesk
    <3> QED BY <3>1, <3>2
  <2>11. Fine(r, v, 6)
    BY <1>2, <2>3, <2>4, <2>5, <2>6, <2>7, <2>10, WalkIsFine
  <2> QED BY <1>5, <2>7, <2>11
<1>8. Ended(r, w, 5) \/ AtDesk(r, w, 5)
  BY DEF Fine, Going, Stopped
<1> QED BY <1>6, <1>7, <1>8

\* The scout is waited for by a run that has ended without asking it.
LEMMA NoScoutToAsk ==
    ASSUME JobsInv, NEW r \in Runs, NEW w, Fine(r, w, 1), Ended(r, w, 1)
    PROVE  Fine(r, TopicScout(r, w), 2)
<1>1. /\ RowType(w.row) /\ w = WalkOf(w.row, w.jobs, w.topic, w.article, w.walks)
  BY FineWalk
<1>2. ScoutJob \notin Seen(r, w)
  BY NodesInOrder DEF Fine, RowOK, Ended
<1>3. answer[r][ScoutJob] = "none"
  <2>1. ScoutJob \in Jobs
    BY DEF ScoutJob, Jobs
  <2> QED BY <1>2, <2>1 DEF JobsInv, Seen, Given
<1>4. TopicScout(r, w) = Wait(w)
  BY <1>3 DEF TopicScout
<1>5. Wait(w) = WalkOf(w.row, w.jobs, w.topic, w.article, FALSE)
  BY WaitIs
<1>6. PICK q : q = w.row
  OBVIOUS
<1>7. SameWork(w.row, q) /\ q.status = w.row.status
  BY <1>1, <1>6 DEF SameWork, SameLine, SameRun
<1>8. PICK walks \in BOOLEAN : walks = FALSE
  OBVIOUS
<1>9. Fine(r, WalkOf(q, w.jobs, w.topic, w.article, walks), 2)
  <2>1. walks \in BOOLEAN
    BY <1>8
  <2>2. PICK k \in Nat : k = 1
    OBVIOUS
  <2>3. Fine(r, w, k) /\ Ended(r, w, k)
    BY <2>2
  <2>4. Fine(r, WalkOf(q, w.jobs, w.topic, w.article, walks), k + 1)
    BY <1>7, <2>1, <2>3, StageAfterTheEnd
  <2> QED BY <2>2, <2>4
<1> QED BY <1>4, <1>5, <1>6, <1>8, <1>9

\* The other nodes have nothing to work on.
LEMMA NothingToWorkOn ==
    ASSUME NEW r, NEW w, NEW n \in Working, Fine(r, w, NodeIndex[n]), Ended(r, w, NodeIndex[n])
    PROVE  /\ w.row.input[n].items = {}
           /\ Fine(r, With(w, SkipAfter(w.row, n)), NodeIndex[n] + 1)
<1>1. n \in NodeOrder /\ NodeIndex[n] \in Nat
  BY NodesInOrder DEF Working
<1>2. RowType(w.row) /\ ~w.row.input[n].taken
  BY <1>1, FineWalk DEF Ended
<1>3. w.row.input[n].items = {}
  BY <1>1, <1>2 DEF RowType
<1> QED BY <1>1, <1>3, SkippedStage

\* A walk is fine from stage to stage.
LEMMA StagesAreFine ==
    ASSUME TypeOK, JobsInv, NEW r \in Runs, NEW w
    PROVE  LET Turn(k) == w.walks /\ k >= NodeIndex[w.row.start]
           IN  /\ Fine(r, w, 0) /\ Turn(0) => Fine(r, SourceFetch(r, w), 1)
               /\ Fine(r, w, 1) /\ Turn(1) => Fine(r, TopicScout(r, w), 2)
               /\ Fine(r, w, 2) /\ Turn(2) => Fine(r, TopicEvaluate(r, w), 3)
               /\ Fine(r, w, 3) /\ Turn(3) => Fine(r, ArticleWrite(r, w), 4)
               /\ Fine(r, w, 4) /\ Turn(4) =>
                      ArticleEvaluate(r, w).fails \/ Fine(r, ArticleEvaluate(r, w), 5)
               /\ Fine(r, w, 5) /\ Turn(5) => Fine(r, HumanReview(r, w), 6)
<1> DEFINE Turn(k) == w.walks /\ k >= NodeIndex[w.row.start]
<1>1. ASSUME Fine(r, w, 0), Turn(0) PROVE Fine(r, SourceFetch(r, w), 1)
  <2>1. ~Ended(r, w, 0)
    <3>1. w.row.start \in NodeOrder
      BY <1>1, FineWalk DEF RunRow
    <3> QED BY <3>1, NodesInOrder DEF Ended
  <2>2. AtNode(r, w, "source_fetch")
    BY <1>1, <2>1, NodesInOrder DEF AtNode
  <2> QED BY <2>2, SourceFetchIsFine
<1>2. ASSUME Fine(r, w, 1), Turn(1) PROVE Fine(r, TopicScout(r, w), 2)
  <2>1. CASE Ended(r, w, 1)
    BY <1>2, <2>1, NoScoutToAsk
  <2>2. CASE ~Ended(r, w, 1)
    <3>1. AtNode(r, w, "topic_scout")
      BY <1>2, <2>2, NodesInOrder DEF AtNode
    <3> QED BY <3>1, TopicScoutIsFine
  <2> QED BY <2>1, <2>2
<1>3. ASSUME Fine(r, w, 2), Turn(2) PROVE Fine(r, TopicEvaluate(r, w), 3)
  <2>1. CASE Ended(r, w, 2)
    <3>1. /\ w.row.input["topic_evaluate"].items = {}
          /\ Fine(r, With(w, SkipAfter(w.row, "topic_evaluate")), 3)
      BY <1>3, <2>1, NodesInOrder, NothingToWorkOn DEF Working
    <3> QED BY <3>1 DEF TopicEvaluate, Waits
  <2>2. CASE ~Ended(r, w, 2)
    <3>1. AtNode(r, w, "topic_evaluate")
      BY <1>3, <2>2, NodesInOrder DEF AtNode
    <3> QED BY <3>1, TopicEvaluateIsFine
  <2> QED BY <2>1, <2>2
<1>4. ASSUME Fine(r, w, 3), Turn(3) PROVE Fine(r, ArticleWrite(r, w), 4)
  <2>1. CASE Ended(r, w, 3)
    <3>1. /\ w.row.input["article_write"].items = {}
          /\ Fine(r, With(w, SkipAfter(w.row, "article_write")), 4)
      BY <1>4, <2>1, NodesInOrder, NothingToWorkOn DEF Working
    <3> QED BY <3>1 DEF ArticleWrite, Waits
  <2>2. CASE ~Ended(r, w, 3)
    <3>1. AtNode(r, w, "article_write")
      BY <1>4, <2>2, NodesInOrder DEF AtNode
    <3> QED BY <3>1, ArticleWriteIsFine
  <2> QED BY <2>1, <2>2
<1>5. ASSUME Fine(r, w, 4), Turn(4)
      PROVE  ArticleEvaluate(r, w).fails \/ Fine(r, ArticleEvaluate(r, w), 5)
  <2>1. CASE Ended(r, w, 4)
    <3>1. /\ w.row.input["article_evaluate"].items = {}
          /\ Fine(r, With(w, SkipAfter(w.row, "article_evaluate")), 5)
      BY <1>5, <2>1, NodesInOrder, NothingToWorkOn DEF Working
    <3> QED BY <3>1 DEF ArticleEvaluate, Waits
  <2>2. CASE ~Ended(r, w, 4)
    <3>1. AtNode(r, w, "article_evaluate")
      BY <1>5, <2>2, NodesInOrder DEF AtNode
    <3> QED BY <3>1, ArticleEvaluateIsFine
  <2> QED BY <2>1, <2>2
<1>6. ASSUME Fine(r, w, 5), Turn(5) PROVE Fine(r, HumanReview(r, w), 6)
  BY <1>6, HumanReviewIsFine
<1> QED BY <1>1, <1>2, <1>3, <1>4, <1>5, <1>6

\* The walk begins where the run has come to.
LEMMA WalkBegins ==
    ASSUME IInv, NEW r \in Children, Active(r)
    PROVE  Fine(r, Walk(r), 0)
<1>1. /\ RowType(rows[r]) /\ RowOK(r, rows[r], Given(r)) /\ Proceeding(rows[r])
      /\ rows[r].start # "human_review" /\ rows[r].desk = {}
      /\ rows[r].output["article_evaluate"].items \subseteq Passed(r)
  <2>1. r \in Runs /\ Exists(r) /\ ~Waiting(rows[r])
    BY DEF Runs, Active, Exists, Waiting
  <2> QED BY <2>1 DEF IInv, TypeOK, RowsInv
<1>2. PICK q : q = [rows[r] EXCEPT !.status = "running"]
  OBVIOUS
<1>3. SameWork(rows[r], q) /\ q.status = "running"
  <2>1. "running" \in RunStatus
    BY DEF RunStatus
  <2> QED BY <1>1, <1>2, <2>1, StatusOnly
<1>4. /\ SameLine(rows[r], q) /\ RowType(q) /\ q.desk = {} /\ q.start = rows[r].start
      /\ q.input = rows[r].input /\ q.output = rows[r].output
  BY <1>1, <1>3 DEF SameWork, SameLine, SameRun
<1>5. RowOK(r, q, Given(r) \cup {})
  BY <1>1, <1>4, RowOKSame
<1>6. Keeps(rows[r], rows[r]) /\ Keeps(rows[r], q)
  BY <1>4 DEF Keeps, SameLine, SameRun
<1>7. Statuses(r, q, {}, topic, article)
  BY DEF Statuses, IInv, TypeOK
<1>8. PICK v : v = WalkOf(q, {}, topic, article, TRUE)
  OBVIOUS
<1>9. Walk(r) = v
  BY <1>2, <1>8 DEF Walk, WalkOf
<1>10. Going(r, v, 0)
  <2>1. v.row = q /\ v.walks
    BY <1>8 DEF WalkOf
  <2>2. Proceeding(q)
    BY <1>1, <1>4 DEF Proceeding
  <2>3. \A n : n \in Fed \/ n \in Working => NodeIndex[n] \in 1..4
    BY NodesInOrder DEF Fed, Working
  <2>4. \A n : n \in Fed \/ n \in Working => ~(NodeIndex[n] < 0) /\ NodeIndex[n] # 0
    BY <2>3
  <2> QED BY <1>3, <2>1, <2>2, <2>4 DEF Going
<1>11. Fine(r, v, 0)
  <2>1. {} \in SUBSET Jobs /\ TRUE \in BOOLEAN /\ q.desk \subseteq Passed(r)
        /\ q.output["article_evaluate"].items \subseteq Passed(r) /\ q.start # "human_review"
        /\ (~Waiting(q) => q.desk = {}) /\ Ahead(q, {})
    BY <1>1, <1>4 DEF Ahead
  <2> QED BY <1>4, <1>5, <1>6, <1>7, <1>8, <1>10, <2>1, WalkIsFine
<1> QED BY <1>9, <1>11

\* A stage that the walk comes to, or that its run starts behind, keeps it fine.
LEMMA TurnIsFine ==
    ASSUME NEW r, NEW w, NEW n \in NodeOrder, Fine(r, w, NodeIndex[n]), NEW next,
           w.walks /\ NodeIndex[n] >= NodeIndex[w.row.start] => Fine(r, next, NodeIndex[n] + 1)
    PROVE  Fine(r, At(n, w, next), NodeIndex[n] + 1)
<1>1. ~w.fails /\ NodeIndex[n] \in 0..5
  BY NodesInOrder DEF Fine
<1>2. CASE w.walks /\ NodeIndex[n] >= NodeIndex[w.row.start]
  BY <1>1, <1>2 DEF At
<1>3. CASE ~(w.walks /\ NodeIndex[n] >= NodeIndex[w.row.start])
  <2>1. At(n, w, next) = w
    BY <1>3 DEF At
  <2> QED BY <1>1, <1>3, <2>1, WalkPasses
<1> QED BY <1>2, <1>3

\* And ends where the run has to wait, is reviewed or is over.
LEMMA WalkEnds ==
    ASSUME IInv, NEW r \in Children, Active(r)
    PROVE  Walked(r).fails \/ Fine(r, Walked(r), 6)
<1>0. TypeOK /\ JobsInv /\ r \in Runs
  BY DEF IInv, Runs
<1>1. PICK w0 : w0 = Walk(r)
  OBVIOUS
<1>2. PICK w1 : w1 = At("source_fetch", w0, SourceFetch(r, w0))
  OBVIOUS
<1>3. PICK w2 : w2 = At("topic_scout", w1, TopicScout(r, w1))
  OBVIOUS
<1>4. PICK w3 : w3 = At("topic_evaluate", w2, TopicEvaluate(r, w2))
  OBVIOUS
<1>5. PICK w4 : w4 = At("article_write", w3, ArticleWrite(r, w3))
  OBVIOUS
<1>6. PICK w5 : w5 = At("article_evaluate", w4, ArticleEvaluate(r, w4))
  OBVIOUS
<1>7. PICK w6 : w6 = At("human_review", w5, HumanReview(r, w5))
  OBVIOUS
<1>8. Walked(r) = w6
  BY <1>1, <1>2, <1>3, <1>4, <1>5, <1>6, <1>7 DEF Walked
<1>11. Fine(r, w0, 0)
  BY <1>1, WalkBegins
<1>12. Fine(r, w1, 1)
  BY <1>0, <1>2, <1>11, NodesInOrder, StagesAreFine, TurnIsFine
<1>13. Fine(r, w2, 2)
  BY <1>0, <1>3, <1>12, NodesInOrder, StagesAreFine, TurnIsFine
<1>14. Fine(r, w3, 3)
  BY <1>0, <1>4, <1>13, NodesInOrder, StagesAreFine, TurnIsFine
<1>15. Fine(r, w4, 4)
  BY <1>0, <1>5, <1>14, NodesInOrder, StagesAreFine, TurnIsFine
<1>16. w5.fails \/ Fine(r, w5, 5)
  BY <1>0, <1>6, <1>15, NodesInOrder, StagesAreFine, WalkPasses DEF At
<1>17. w6.fails \/ Fine(r, w6, 6)
  BY <1>0, <1>7, <1>16, NodesInOrder, StagesAreFine, WalkPasses DEF At
<1> QED BY <1>8, <1>17

-----------------------------------------------------------------------------
(* Steps of agents and persons.                                             *)

MakingNodes == {"topic_scout", "topic_evaluate", "article_write"}

\* A row goes on going with its jobs if what its closed nodes have made stays.
LEMMA RowOKLater ==
    ASSUME NEW r, NEW row, NEW G, RowOK(r, row, G),
           \A n \in MakingNodes : row.output[n].taken /\ Done(r, row, n) =>
               Made(r, row, n)' = Made(r, row, n) /\ Done(r, row, n)',
           raw[r] \subseteq raw'[r]
    PROVE  RowOK(r, row, G)'
<1>1. \A n : n \in Fed \ {"article_evaluate"} <=> n \in MakingNodes
  BY DEF Fed, Working, MakingNodes
<1>2. \A n \in MakingNodes : row.output[n].taken =>
          row.output[n].items = Made(r, row, n) /\ Done(r, row, n)
  BY <1>1 DEF RowOK
<1>3. \A n \in Fed \ {"article_evaluate"} : row.output[n].taken =>
          row.output[n].items = Made(r, row, n)' /\ Done(r, row, n)'
  BY <1>1, <1>2
<1>4. row.output["source_fetch"].items \subseteq raw'[r]
  BY DEF RowOK
<1> QED BY <1>3, <1>4 DEF RowOK

\* Answers that are there stay, and those that come are to jobs given out.
AnswersCome ==
    \A r \in Runs, j \in Jobs :
        answer'[r][j] # answer[r][j] => sent[r][j] > 0 /\ answer[r][j] = "none" /\ answer'[r][j] # "none"

\* What a node of an existing child run has made and is done with stays.
MadeStays ==
    \A r \in Children, n \in MakingNodes : \A row :
        row = rows[r] /\ Exists(r) /\ row.output[n].taken /\ Done(r, row, n) =>
            Made(r, row, n)' = Made(r, row, n)

\* A step that is not of the runs keeps the invariant.
LEMMA AgentsKeep ==
    ASSUME IInv, TypeOK', UNCHANGED <<rows, sent, queued>>, AnswersCome, MadeStays,
           \A r \in Runs : raw[r] \subseteq raw'[r],
           \A t \in Topics : topic'[t] = "in_writing" => topic[t] = "in_writing"
    PROVE  IInv'
<1>1. /\ TypeOK /\ JobsInv /\ RowsInv /\ ParentsInv /\ TopicsInWritingHaveWriters
      /\ Root \in Runs /\ Children \subseteq Runs
  BY DEF IInv, Runs
<1>2. /\ \A r : Given(r)' = Given(r) /\ (Exists(r)' <=> Exists(r)) /\ (Active(r)' <=> Active(r))
      /\ rows' = rows /\ sent' = sent /\ queued' = queued
  BY DEF Given, Exists, Active
<1>3. \A r \in Runs, j \in Jobs : answer[r][j] # "none" => answer'[r][j] = answer[r][j]
  BY DEF AnswersCome
<1>4. JobsInv'
  <2>1. ASSUME NEW r \in Runs, NEW j \in Jobs, answer'[r][j] # "none" PROVE sent[r][j] > 0
    BY <1>1, <2>1 DEF AnswersCome, JobsInv
  <2> QED BY <1>1, <1>2, <2>1 DEF JobsInv
<1>5. \A r \in Runs : Passed(r) \subseteq Passed(r)' /\ Judge(r, rows[r]) \in Runs
  <2>0. \A r \in Runs : rows[r].parent \in Runs
    BY <1>1 DEF TypeOK, RowType, RunRow
  <2>1. \A x \in Articles : <<"article_evaluate", x>> \in Jobs
    BY DEF Jobs
  <2> QED BY <1>3, <2>0, <2>1 DEF Passed, Judge
<1>6. ASSUME NEW r \in Runs, NEW n \in Fed, NEW row, RowType(row), Done(r, row, n)
      PROVE  Done(r, row, n)'
  <2>1. ScoutJob \in Jobs
    BY DEF Jobs, ScoutJob
  <2>2. \A i \in row.input[n].items : n # "topic_scout" => <<n, i>> \in Jobs
    <3>1. n \in NodeOrder /\ row.input[n].items \subseteq InputsOf[n]
      BY <1>6, NodesInOrder DEF RowType, Fed, Working
    <3>2. n # "topic_scout" =>
              \/ n \in {"topic_evaluate", "article_write"} /\ InputsOf[n] = Topics
              \/ n = "article_evaluate" /\ InputsOf[n] = Articles
      BY ItemsOfNodes DEF Fed, Working
    <3> QED BY <3>1, <3>2 DEF Jobs
  <2> QED BY <1>3, <1>6, <2>1, <2>2 DEF Done
<1>7. ASSUME NEW r \in Children, Exists(r) PROVE RowOK(r, rows[r], Given(r))'
  <2>1. PICK row, G : row = rows[r] /\ G = Given(r)
    OBVIOUS
  <2>2. RowOK(r, row, G) /\ RowType(row) /\ r \in Runs
    BY <1>1, <1>7, <2>1 DEF RowsInv, TypeOK
  <2>3. \A n \in MakingNodes : row.output[n].taken /\ Done(r, row, n) =>
            Made(r, row, n)' = Made(r, row, n) /\ Done(r, row, n)'
    BY <1>6, <1>7, <2>1, <2>2 DEF MadeStays, MakingNodes, Fed, Working
  <2>4. raw[r] \subseteq raw'[r]
    BY <2>2
  <2>5. RowOK(r, row, G)'
    BY <2>2, <2>3, <2>4, RowOKLater
  <2>6. row = rows'[r] /\ G = Given(r)'
    BY <1>2, <2>1
  <2> QED BY <2>5, <2>6, ZenonT(60) DEF RowOK, Made, Done
<1>8. RowsInv'
  <2>1. ASSUME NEW r \in Children, Exists(r), ~Active(r) PROVE Drained(r, Given(r))'
    <3>1. Drained(r, Given(r)) /\ r \in Runs
      BY <1>1, <2>1 DEF RowsInv
    <3>2. Given(r) \subseteq Jobs
      BY DEF Given
    <3> QED BY <1>2, <1>3, <3>1, <3>2 DEF Drained
  <2>2. ASSUME NEW r \in Runs
        PROVE  /\ Waiting(rows[r])' <=> rows'[r].desk # {}
               /\ rows'[r].desk \subseteq Passed(Judge(r, rows[r]))'
               /\ rows'[r].output["article_evaluate"].items \subseteq Passed(r)'
    <3>1. PICK q \in Runs : q = Judge(r, rows[r])
      BY <1>5
    <3>2. Judge(r, rows[r])' = q
      BY <1>2, <3>1 DEF Judge
    <3>3. /\ Waiting(rows[r]) <=> rows[r].desk # {}
          /\ rows[r].desk \subseteq Passed(q)
          /\ rows[r].output["article_evaluate"].items \subseteq Passed(r)
      BY <1>1, <3>1 DEF RowsInv
    <3>4. rows'[r].desk \subseteq Passed(q)'
      BY <1>2, <1>5, <3>3
    <3>5. rows'[r].desk \subseteq Passed(Judge(r, rows[r]))'
      BY <3>2, <3>4 DEF Passed
    <3>6. rows'[r].output["article_evaluate"].items \subseteq Passed(r)'
      BY <1>2, <1>5, <3>3
    <3>7. Waiting(rows[r])' <=> rows'[r].desk # {}
      BY <1>2, <3>3 DEF Waiting
    <3> QED BY <3>5, <3>6, <3>7
  <2>3. \A r \in Children : Exists(r)' => /\ Active(r)' => rows'[r].start # "human_review"
                                                          /\ Proceeding(rows'[r])
    BY <1>1, <1>2 DEF RowsInv
  <2>4. Exists(Root)'
    BY <1>1, <1>2 DEF RowsInv
  <2> QED BY <1>2, <1>7, <2>1, <2>2, <2>3, <2>4 DEF RowsInv, Proceeding
<1>9. ParentsInv'
  BY <1>1, <1>2 DEF ParentsInv, Exists
<1>10. TopicsInWritingHaveWriters'
  <2> SUFFICES ASSUME NEW t \in Topics, topic'[t] = "in_writing"
               PROVE  \/ \E r \in Runs : sent'[r][<<"article_write", t>>] > 0
                      \/ \E r \in Children :
                            /\ rows'[r].mode = "evaluate_only" /\ rows'[r].start = "topic_evaluate"
                            /\ answer'[r][<<"topic_evaluate", t>>] = "pass"
    BY DEF TopicsInWritingHaveWriters
  <2>1. <<"topic_evaluate", t>> \in Jobs
    BY DEF Jobs
  <2>2. \/ \E r \in Runs : sent[r][<<"article_write", t>>] > 0
        \/ \E r \in Children :
              /\ rows[r].mode = "evaluate_only" /\ rows[r].start = "topic_evaluate"
              /\ answer[r][<<"topic_evaluate", t>>] = "pass"
    BY <1>1 DEF TopicsInWritingHaveWriters
  <2>3. \A r \in Children : answer[r][<<"topic_evaluate", t>>] = "pass"
            => answer'[r][<<"topic_evaluate", t>>] = "pass"
    BY <1>1, <1>3, <2>1
  <2> QED BY <1>2, <2>2, <2>3
<1> QED BY <1>4, <1>8, <1>9, <1>10 DEF IInv

\* A job of a run is answered.
LEMMA RecordIs ==
    ASSUME IInv, NEW r \in Runs, NEW j \in Jobs, NEW a \in Answers \ {"none"},
           Open(r, j), Record(r, j, a)
    PROVE  /\ AnswersCome /\ answer' \in [Runs -> [Jobs -> Answers]]
           /\ \A q \in Runs, i \in Jobs : answer[q][i] # "none" => answer'[q][i] = answer[q][i]
<1>1. answer \in [Runs -> [Jobs -> Answers]]
  BY DEF IInv, TypeOK
<1>2. answer' = [answer EXCEPT ![r][j] = a]
  BY DEF Record
<1>3. answer' = [answer EXCEPT ![r] = [answer[r] EXCEPT ![j] = a]]
  BY <1>1, <1>2
<1>4. [answer[r] EXCEPT ![j] = a] \in [Jobs -> Answers]
  BY <1>1
<1>5. answer' \in [Runs -> [Jobs -> Answers]]
  BY <1>1, <1>3, <1>4
<1>6. \A q \in Runs, i \in Jobs : answer'[q][i] = IF q = r /\ i = j THEN a ELSE answer[q][i]
  BY <1>1, <1>3
<1> QED BY <1>5, <1>6 DEF AnswersCome, Open

\* Answers alone do not change what has been made: those it was made of are kept.
LEMMA AnswersKeepMade ==
    ASSUME IInv, AnswersCome, UNCHANGED <<rows, owner, topic, article>>
    PROVE  MadeStays
<1> SUFFICES ASSUME NEW r \in Children, NEW n \in MakingNodes, NEW row, row = rows[r],
                    Exists(r), row.output[n].taken, Done(r, row, n)
             PROVE  Made(r, row, n)' = Made(r, row, n)
  BY DEF MadeStays
<1>1. RowType(row) /\ r \in Runs
  BY DEF IInv, TypeOK, Runs
<1>2. CASE n = "topic_evaluate"
  <2>1. \A t \in row.input["topic_evaluate"].items : <<"topic_evaluate", t>> \in Jobs
    BY <1>1, ItemsOfNodes, NodesInOrder DEF RowType, Jobs
  <2>2. \A t \in row.input["topic_evaluate"].items :
            answer'[r][<<"topic_evaluate", t>>] = answer[r][<<"topic_evaluate", t>>]
    BY <1>1, <1>2, <2>1 DEF AnswersCome, Done
  <2> QED BY <1>2, <2>2 DEF Made
<1>3. CASE n = "topic_scout"
  BY <1>3 DEF Made
<1>4. CASE n = "article_write"
  BY <1>4 DEF Made
<1> QED BY <1>2, <1>3, <1>4 DEF MakingNodes

\* A job fails: nothing is made of it.
LEMMA FailKeeps ==
    ASSUME IInv, NEW r \in Runs, NEW j \in Jobs, Fail(r, j)
    PROVE  IInv'
<1>1. Open(r, j) /\ Record(r, j, "failed") /\ "failed" \in Answers \ {"none"}
  BY DEF Fail, Answers
<1>2. AnswersCome /\ answer' \in [Runs -> [Jobs -> Answers]]
      /\ \A q \in Runs, i \in Jobs : answer[q][i] # "none" => answer'[q][i] = answer[q][i]
  BY <1>1, RecordIs
<1>3. UNCHANGED <<rows, sent, queued, raw, owner, topic, article>>
  BY DEF Fail
<1>4. TypeOK'
  BY <1>2, <1>3 DEF IInv, TypeOK
<1>5. MadeStays
  BY <1>2, <1>3, AnswersKeepMade
<1> QED BY <1>2, <1>3, <1>4, <1>5, AgentsKeep

\* A source is fetched: there may be new raw items, and none is lost.
LEMMA FetchSourceKeeps ==
    ASSUME IInv, NEW r \in Runs, NEW s \in Sources, FetchSource(r, s)
    PROVE  IInv'
<1>0. PICK j \in Jobs : j = <<"source_fetch", s>>
  BY DEF Jobs
<1>1. Open(r, j) /\ Record(r, j, "done") /\ "done" \in Answers \ {"none"}
  BY <1>0 DEF FetchSource, Answers
<1>2. AnswersCome /\ answer' \in [Runs -> [Jobs -> Answers]]
  BY <1>1, RecordIs
<1>3. UNCHANGED <<rows, sent, queued, owner, topic, article>>
  BY DEF FetchSource
<1>4. raw' \in [Runs -> SUBSET Sources] /\ \A q \in Runs : raw[q] \subseteq raw'[q]
  <2>1. raw' = raw \/ raw' = [raw EXCEPT ![r] = raw[r] \cup {s}]
    BY DEF FetchSource
  <2>2. raw \in [Runs -> SUBSET Sources]
    BY DEF IInv, TypeOK
  <2>3. CASE raw' = raw
    BY <2>2, <2>3
  <2>4. CASE raw' = [raw EXCEPT ![r] = raw[r] \cup {s}]
    BY <2>2, <2>4
  <2> QED BY <2>1, <2>3, <2>4
<1>5. TypeOK'
  BY <1>2, <1>3, <1>4 DEF IInv, TypeOK
<1>6. MadeStays
  BY <1>2, <1>3, AnswersKeepMade
<1> QED BY <1>2, <1>3, <1>4, <1>5, <1>6, AgentsKeep

\* An evaluation ends: its verdict was still open.
LEMMA EvaluateKeeps ==
    ASSUME IInv, NEW r \in Runs, NEW j \in Jobs, NEW a \in {"pass", "low"}, Evaluate(r, j, a)
    PROVE  IInv'
<1>1. Open(r, j) /\ Record(r, j, a) /\ a \in Answers \ {"none"}
  BY DEF Evaluate, Answers
<1>2. AnswersCome /\ answer' \in [Runs -> [Jobs -> Answers]]
  BY <1>1, RecordIs
<1>3. UNCHANGED <<rows, sent, queued, raw, owner, topic, article>>
  BY DEF Evaluate
<1>4. TypeOK'
  BY <1>2, <1>3 DEF IInv, TypeOK
<1>5. MadeStays
  BY <1>2, <1>3, AnswersKeepMade
<1> QED BY <1>2, <1>3, <1>4, <1>5, AgentsKeep

\* A scout proposes new topics, when none of its run has been counted yet.
LEMMA ScoutTopicsKeeps ==
    ASSUME IInv, NEW r \in Runs, NEW T \in SUBSET Topics, ScoutTopics(r, T)
    PROVE  IInv'
<1>0. ScoutJob \in Jobs
  BY DEF Jobs, ScoutJob
<1>1. Open(r, ScoutJob) /\ Record(r, ScoutJob, "done") /\ "done" \in Answers \ {"none"}
  BY DEF ScoutTopics, Answers
<1>2. AnswersCome /\ answer' \in [Runs -> [Jobs -> Answers]]
  BY <1>0, <1>1, RecordIs
<1>3. UNCHANGED <<rows, sent, queued, raw, article>>
  BY DEF ScoutTopics
<1>4. /\ topic \in [Topics -> TopicStatus \cup {"absent"}] /\ owner \in [Topics -> Runs]
      /\ \A t \in T : topic[t] = "absent"
      /\ topic' = [t \in Topics |-> IF t \in T THEN "candidate" ELSE topic[t]]
      /\ owner' = [t \in Topics |-> IF t \in T THEN r ELSE owner[t]]
  BY DEF ScoutTopics, IInv, TypeOK
<1>5. TypeOK'
  <2>1. /\ topic' \in [Topics -> TopicStatus \cup {"absent"}] /\ owner' \in [Topics -> Runs]
    BY <1>4 DEF TopicStatus
  <2> QED BY <1>2, <1>3, <2>1 DEF IInv, TypeOK
<1>6. MadeStays
  <2> SUFFICES ASSUME NEW q \in Children, NEW n \in MakingNodes, NEW row, row = rows[q],
                      Exists(q), row.output[n].taken, Done(q, row, n)
               PROVE  Made(q, row, n)' = Made(q, row, n)
    BY DEF MadeStays
  <2>1. RowType(row) /\ q \in Runs
    BY DEF IInv, TypeOK, Runs
  <2>2. CASE n = "topic_scout"
    <3>1. q # r
      BY <1>1, <2>2 DEF Done, Open
    <3>2. \A t \in Topics : topic'[t] # "absent" /\ owner'[t] = q
                            <=> topic[t] # "absent" /\ owner[t] = q
      BY <1>4, <3>1
    <3> QED BY <2>2, <3>2 DEF Made
  <2>3. CASE n = "topic_evaluate"
    <3>1. \A t \in row.input["topic_evaluate"].items : <<"topic_evaluate", t>> \in Jobs
      BY <2>1, ItemsOfNodes, NodesInOrder DEF RowType, Jobs
    <3>2. \A t \in row.input["topic_evaluate"].items :
              answer'[q][<<"topic_evaluate", t>>] = answer[q][<<"topic_evaluate", t>>]
      BY <1>2, <2>1, <2>3, <3>1 DEF AnswersCome, Done
    <3> QED BY <2>3, <3>2 DEF Made
  <2>4. CASE n = "article_write"
    BY <1>3, <2>4 DEF Made
  <2> QED BY <2>2, <2>3, <2>4 DEF MakingNodes
<1>7. \A t \in Topics : topic'[t] = "in_writing" => topic[t] = "in_writing"
  BY <1>4
<1> QED BY <1>2, <1>3, <1>5, <1>6, <1>7, AgentsKeep

\* An article is written, when its run has not yet counted the articles.
LEMMA WriteArticleKeeps ==
    ASSUME IInv, NEW r \in Runs, NEW t \in Topics, WriteArticle(r, t)
    PROVE  IInv'
<1>0. PICK j \in Jobs : j = <<"article_write", t>>
  BY DEF Jobs
<1>1. Open(r, j) /\ Record(r, j, "done") /\ "done" \in Answers \ {"none"}
  BY <1>0 DEF WriteArticle, Answers
<1>2. AnswersCome /\ answer' \in [Runs -> [Jobs -> Answers]]
  BY <1>1, RecordIs
<1>3. UNCHANGED <<rows, sent, queued, raw, owner, topic>>
  BY DEF WriteArticle
<1>4. /\ article \in [Articles -> ArticleStatus \cup {"absent"}] /\ <<t, r>> \in Articles
      /\ article' = [article EXCEPT ![<<t, r>>] = "draft"]
  BY DEF WriteArticle, IInv, TypeOK, Articles
<1>5. TypeOK'
  <2>1. article' \in [Articles -> ArticleStatus \cup {"absent"}]
    BY <1>4 DEF ArticleStatus
  <2> QED BY <1>2, <1>3, <2>1 DEF IInv, TypeOK
<1>6. MadeStays
  <2> SUFFICES ASSUME NEW q \in Children, NEW n \in MakingNodes, NEW row, row = rows[q],
                      Exists(q), row.output[n].taken, Done(q, row, n)
               PROVE  Made(q, row, n)' = Made(q, row, n)
    BY DEF MadeStays
  <2>1. RowType(row) /\ q \in Runs
    BY DEF IInv, TypeOK, Runs
  <2>2. CASE n = "topic_scout"
    BY <1>3, <2>2 DEF Made
  <2>3. CASE n = "topic_evaluate"
    <3>1. \A i \in row.input["topic_evaluate"].items : <<"topic_evaluate", i>> \in Jobs
      BY <2>1, ItemsOfNodes, NodesInOrder DEF RowType, Jobs
    <3>2. \A i \in row.input["topic_evaluate"].items :
              answer'[q][<<"topic_evaluate", i>>] = answer[q][<<"topic_evaluate", i>>]
      BY <1>2, <2>1, <2>3, <3>1 DEF AnswersCome, Done
    <3> QED BY <2>3, <3>2 DEF Made
  <2>4. CASE n = "article_write"
    <3>1. <<t, r>> \notin row.input["article_write"].items \X {q}
      BY <1>0, <1>1, <2>4 DEF Done, Open
    <3>2. row.input["article_write"].items \X {q} \subseteq Articles
      BY <2>1, ItemsOfNodes, NodesInOrder DEF RowType, Articles
    <3>3. \A x \in row.input["article_write"].items \X {q} : article'[x] = article[x]
      BY <1>4, <3>1, <3>2
    <3> QED BY <2>4, <3>3 DEF Made
  <2> QED BY <2>2, <2>3, <2>4 DEF MakingNodes
<1> QED BY <1>2, <1>3, <1>5, <1>6, AgentsKeep

\* A person decides on an article that is there.
LEMMA ReviewArticleKeeps ==
    ASSUME IInv, NEW x \in Articles, NEW to \in ArticleStatus, ReviewArticle(x, to)
    PROVE  IInv'
<1>1. /\ article[x] # "absent" /\ article' = [article EXCEPT ![x] = to]
      /\ UNCHANGED <<rows, sent, queued, answer, raw, owner, topic>>
  BY DEF ReviewArticle
<1>2. article \in [Articles -> ArticleStatus \cup {"absent"}] /\ "absent" \notin ArticleStatus
  BY DEF IInv, TypeOK, ArticleStatus
<1>3. /\ article' \in [Articles -> ArticleStatus \cup {"absent"}]
      /\ \A y \in Articles : article'[y] = "absent" <=> article[y] = "absent"
  BY <1>1, <1>2
<1>4. TypeOK' /\ AnswersCome
  BY <1>1, <1>3 DEF IInv, TypeOK, AnswersCome
<1>5. MadeStays
  <2> SUFFICES ASSUME NEW q \in Children, NEW n \in MakingNodes, NEW row, row = rows[q]
               PROVE  Made(q, row, n)' = Made(q, row, n)
    BY DEF MadeStays
  <2>1. RowType(row) /\ q \in Runs
    BY DEF IInv, TypeOK, Runs
  <2>2. CASE n \in {"topic_scout", "topic_evaluate"}
    BY <1>1, <2>2 DEF Made
  <2>3. CASE n = "article_write"
    <3>1. row.input["article_write"].items \X {q} \subseteq Articles
      BY <2>1, ItemsOfNodes, NodesInOrder DEF RowType, Articles
    <3> QED BY <1>3, <2>3, <3>1 DEF Made
  <2> QED BY <2>2, <2>3 DEF MakingNodes
<1> QED BY <1>1, <1>4, <1>5, AgentsKeep

-----------------------------------------------------------------------------
(* A reconciliation.                                                        *)

\* What a reconciliation makes of a run.
LEMMA ReconcileRunIs ==
    ASSUME IInv, NEW r \in Children, ReconcileRun(r)
    PROVE  \E w : /\ Fine(r, w, 6)
                  /\ rows' = [rows EXCEPT ![r] = w.row]
                  /\ sent' = [sent EXCEPT ![r] = [j \in Jobs |->
                         IF j \in w.jobs /\ sent[r][j] = 0 THEN sent[r][j] + 1 ELSE sent[r][j]]]
                  /\ queued' = [queued EXCEPT ![r] =
                         queued[r] \cup {j \in w.jobs : sent[r][j] = 0}]
                  /\ topic' = w.topic /\ article' = w.article
                  /\ UNCHANGED <<answer, raw, owner>>
<1>1. Active(r) /\ ~Walked(r).fails
  BY DEF ReconcileRun, Reconciled
<1>2. PICK w : w = Walked(r)
  OBVIOUS
<1>3. Fine(r, w, 6)
  BY <1>1, <1>2, WalkEnds
<1>4. /\ sent' = [sent EXCEPT ![r] = [j \in Jobs |->
             IF j \in w.jobs /\ Unqueued(r, j) THEN sent[r][j] + 1 ELSE sent[r][j]]]
      /\ queued' = [queued EXCEPT ![r] = queued[r] \cup {j \in w.jobs : Unqueued(r, j)}]
      /\ rows' = [rows EXCEPT ![r] = w.row] /\ topic' = w.topic /\ article' = w.article
      /\ UNCHANGED <<answer, raw, owner>>
  BY <1>2 DEF ReconcileRun
<1>5. /\ w.jobs \subseteq Jobs /\ Ahead(w.row, w.jobs) /\ w.row.start = rows[r].start
      /\ r \in Runs /\ \A j \in Jobs : sent[r][j] \in Nat
  <2>1. w.jobs \subseteq Jobs
    BY <1>3, FineWalk
  <2>2. Ahead(w.row, w.jobs) /\ w.row.start = rows[r].start
    BY <1>3 DEF Fine, Keeps, SameRun
  <2> QED BY <2>1, <2>2 DEF IInv, TypeOK, Runs
<1>6. \A j \in w.jobs : Unqueued(r, j) <=> sent[r][j] = 0
  <2> SUFFICES ASSUME NEW j \in w.jobs PROVE Unqueued(r, j) <=> sent[r][j] = 0
    OBVIOUS
  <2>1. j \in Jobs /\ j[1] # rows[r].start /\ sent[r][j] \in Nat
    BY <1>5 DEF Ahead
  <2>2. /\ answer[r][j] # "none" => sent[r][j] > 0
        /\ j \in queued[r] => sent[r][j] > 0
        /\ sent[r][j] > 0 /\ j \notin queued[r] => j[1] = rows[r].start
    BY <1>5, <2>1 DEF IInv, JobsInv
  <2> QED BY <2>1, <2>2 DEF Unqueued
<1>7. [j \in Jobs |-> IF j \in w.jobs /\ Unqueued(r, j) THEN sent[r][j] + 1 ELSE sent[r][j]]
      = [j \in Jobs |-> IF j \in w.jobs /\ sent[r][j] = 0 THEN sent[r][j] + 1 ELSE sent[r][j]]
  BY <1>6
<1>8. {j \in w.jobs : Unqueued(r, j)} = {j \in w.jobs : sent[r][j] = 0}
  BY <1>6
<1> QED BY <1>3, <1>4, <1>7, <1>8

\* A reconciliation keeps the invariant.
LEMMA ReconcileRunKeeps ==
    ASSUME IInv, NEW r \in Children, ReconcileRun(r)
    PROVE  IInv'
<1>1. PICK w :
          /\ Fine(r, w, 6)
          /\ rows' = [rows EXCEPT ![r] = w.row]
          /\ sent' = [sent EXCEPT ![r] = [j \in Jobs |->
                 IF j \in w.jobs /\ sent[r][j] = 0 THEN sent[r][j] + 1 ELSE sent[r][j]]]
          /\ queued' = [queued EXCEPT ![r] = queued[r] \cup {j \in w.jobs : sent[r][j] = 0}]
          /\ topic' = w.topic /\ article' = w.article
          /\ UNCHANGED <<answer, raw, owner>>
  BY ReconcileRunIs
<1>2. /\ TypeOK /\ JobsInv /\ RowsInv /\ ParentsInv /\ TopicsInWritingHaveWriters
      /\ Children \subseteq Runs /\ r \in Runs /\ Root \in Runs /\ r # Root
  BY ReplayAssumption DEF IInv, Runs
<1>3. PICK row, jobs : row = w.row /\ jobs = w.jobs
  OBVIOUS
<1>4. /\ RowType(row) /\ jobs \in SUBSET Jobs /\ Statuses(r, row, jobs, topic', article')
  BY <1>1, <1>3, FineWalk
<1>5. /\ RowOK(r, row, Given(r) \cup jobs) /\ Keeps(rows[r], row)
      /\ row.desk \subseteq Passed(r) /\ row.output["article_evaluate"].items \subseteq Passed(r)
      /\ ~Waiting(row) => row.desk = {}
      /\ row.start # "human_review"
  BY <1>1, <1>3 DEF Fine, Seen
<1>6. /\ row.status = "running" => Proceeding(row)
      /\ row.status \in Final \cup {"running", "waiting_human_review"}
      /\ row.status = "waiting_human_review" => row.desk # {}
      /\ row.status # "running" => Drained(r, Given(r) \cup jobs)
  <2>1. ~Going(r, w, 6)
    BY DEF Going
  <2>2. Stopped(w) \/ Ended(r, w, 6) \/ AtDesk(r, w, 6)
    BY <1>1, <2>1 DEF Fine
  <2> QED BY <1>3, <2>2 DEF Stopped, Ended, AtDesk, Final, Seen
<1>7. /\ DOMAIN rows' = Runs /\ rows'[r] = row /\ \A q \in Runs : q # r => rows'[q] = rows[q]
  BY <1>1, <1>2, <1>3 DEF TypeOK
<1>8. /\ sent' \in [Runs -> [Jobs -> Nat]]
      /\ \A q \in Runs, j \in Jobs : sent'[q][j] =
            IF q = r /\ j \in jobs /\ sent[q][j] = 0 THEN sent[q][j] + 1 ELSE sent[q][j]
  <2>1. sent \in [Runs -> [Jobs -> Nat]]
    BY <1>2 DEF TypeOK
  <2>2. PICK f : f = [j \in Jobs |->
                         IF j \in jobs /\ sent[r][j] = 0 THEN sent[r][j] + 1 ELSE sent[r][j]]
    OBVIOUS
  <2>3. f \in [Jobs -> Nat] /\ sent' = [sent EXCEPT ![r] = f]
    BY <1>1, <1>2, <1>3, <2>1, <2>2
  <2> QED BY <1>2, <2>1, <2>2, <2>3
<1>19. /\ queued' \in [Runs -> SUBSET Jobs]
       /\ \A q \in Runs, j \in Jobs : j \in queued'[q] <=>
             j \in queued[q] \/ (q = r /\ j \in jobs /\ sent[q][j] = 0)
  <2>1. queued \in [Runs -> SUBSET Jobs]
    BY <1>2 DEF TypeOK
  <2>2. PICK more : more = queued[r] \cup {j \in jobs : sent[r][j] = 0}
    OBVIOUS
  <2>3. more \in SUBSET Jobs /\ queued' = [queued EXCEPT ![r] = more]
    BY <1>1, <1>2, <1>3, <1>4, <2>1, <2>2
  <2> QED BY <1>2, <2>1, <2>2, <2>3
<1>9. TypeOK'
  <2>1. \A q \in Runs : RowType(rows'[q])
    BY <1>2, <1>4, <1>7 DEF TypeOK
  <2> QED BY <1>1, <1>2, <1>4, <1>7, <1>8, <1>19, <2>1 DEF TypeOK, Statuses
<1>10. Exists(r)' /\ \A q \in Runs : Exists(q) => Exists(q)'
  BY <1>6, <1>7 DEF Exists, Final
<1>11. JobsInv'
  <2> SUFFICES ASSUME NEW q \in Runs, NEW j \in Jobs
               PROVE  /\ ~Exists(q)' => sent'[q][j] = 0
                      /\ answer'[q][j] # "none" => sent'[q][j] > 0
                      /\ j \in queued'[q] => sent'[q][j] > 0
                      /\ (q \in Children /\ sent'[q][j] > 0 /\ j \notin queued'[q])
                             => j[1] = rows'[q].start
                      /\ sent'[q][j] <= 1
    BY DEF JobsInv
  <2>1. /\ sent[q][j] \in Nat /\ answer' = answer
        /\ ~Exists(q) => sent[q][j] = 0
        /\ answer[q][j] # "none" => sent[q][j] > 0
        /\ j \in queued[q] => sent[q][j] > 0
        /\ (q \in Children /\ sent[q][j] > 0 /\ j \notin queued[q]) => j[1] = rows[q].start
        /\ sent[q][j] <= 1
    BY <1>1, <1>2 DEF JobsInv, TypeOK
  <2>2. rows'[q].start = rows[q].start
    BY <1>5, <1>7 DEF Keeps, SameRun
  <2>3. ~Exists(q)' => q # r /\ ~Exists(q)
    BY <1>10
  <2>4. sent'[q][j] = IF q = r /\ j \in jobs /\ sent[q][j] = 0 THEN sent[q][j] + 1 ELSE sent[q][j]
    BY <1>8
  <2>5. j \in queued'[q] <=> j \in queued[q] \/ (q = r /\ j \in jobs /\ sent[q][j] = 0)
    BY <1>19
  <2> QED BY <2>1, <2>2, <2>3, <2>4, <2>5
<1>12. /\ Given(r)' = Given(r) \cup jobs
       /\ \A q \in Runs : q # r => Given(q)' = Given(q)
  <2>1. \A q \in Runs, j \in Jobs : sent[q][j] \in Nat
    BY <1>2 DEF TypeOK
  <2> QED BY <1>2, <1>4, <1>8, <2>1 DEF Given
<1>13. /\ \A q : Passed(q)' = Passed(q)
       /\ Judge(r, row) = r /\ \A q \in Runs : q # r => Judge(q, rows'[q]) = Judge(q, rows[q])
  BY <1>1, <1>5, <1>7 DEF Passed, Judge
<1>14. \A q \in Runs, n \in MakingNodes : \A line :
           RowType(line) => Made(q, line, n)' = Made(q, line, n) /\ (Done(q, line, n)' <=> Done(q, line, n))
  <2> SUFFICES ASSUME NEW q \in Runs, NEW n \in MakingNodes, NEW line, RowType(line)
               PROVE  Made(q, line, n)' = Made(q, line, n) /\ (Done(q, line, n)' <=> Done(q, line, n))
    OBVIOUS
  <2>1. /\ \A t \in Topics : topic'[t] = "absent" <=> topic[t] = "absent"
        /\ \A x \in Articles : article'[x] = "absent" <=> article[x] = "absent"
    BY <1>4 DEF Statuses
  <2>2. Done(q, line, n)' <=> Done(q, line, n)
    BY <1>1 DEF Done
  <2>3. CASE n = "topic_scout"
    BY <1>1, <2>1, <2>2, <2>3 DEF Made
  <2>4. CASE n = "topic_evaluate"
    BY <1>1, <2>2, <2>4 DEF Made
  <2>5. CASE n = "article_write"
    <3>1. line.input["article_write"].items \X {q} \subseteq Articles
      BY ItemsOfNodes, NodesInOrder DEF RowType, Articles
    <3> QED BY <2>1, <2>2, <2>5, <3>1 DEF Made
  <2> QED BY <2>3, <2>4, <2>5 DEF MakingNodes
<1>15. ASSUME NEW q \in Children, Exists(q)' PROVE RowOK(q, rows[q], Given(q))'
  <2>1. PICK line, G : line = rows'[q] /\ G = Given(q)'
    OBVIOUS
  <2>2. RowOK(q, line, G) /\ RowType(line)
    <3>1. CASE q = r
      BY <1>4, <1>5, <1>7, <1>12, <2>1, <3>1
    <3>2. CASE q # r
      BY <1>2, <1>7, <1>12, <1>15, <2>1, <3>2 DEF RowsInv, TypeOK, Exists
    <3> QED BY <3>1, <3>2
  <2>3. \A n \in MakingNodes : Made(q, line, n)' = Made(q, line, n) /\ (Done(q, line, n)' <=> Done(q, line, n))
    BY <1>2, <1>14, <2>2
  <2>4. RowOK(q, line, G)'
    BY <1>1, <2>2, <2>3, RowOKLater
  <2> QED BY <2>1, <2>4 DEF RowOK, Made, Done
<1>16. RowsInv'
  <2>1. ASSUME NEW q \in Children, Exists(q)', Active(q)'
        PROVE  rows'[q].start # "human_review" /\ Proceeding(rows'[q])
    <3>1. CASE q = r
      BY <1>5, <1>6, <1>7, <2>1, <3>1 DEF Active, Final
    <3>2. CASE q # r
      BY <1>2, <1>7, <2>1, <3>2 DEF RowsInv, Active, Exists
    <3> QED BY <3>1, <3>2
  <2>2. ASSUME NEW q \in Children, Exists(q)', ~Active(q)'
        PROVE  Drained(q, Given(q))'
    <3>1. CASE q = r
      BY <1>1, <1>6, <1>7, <1>12, <2>2, <3>1 DEF Active, Drained
    <3>2. CASE q # r
      BY <1>1, <1>2, <1>7, <1>12, <2>2, <3>2 DEF RowsInv, Active, Exists, Drained
    <3> QED BY <3>1, <3>2
  <2>3. ASSUME NEW q \in Runs
        PROVE  /\ Waiting(rows'[q]) <=> rows'[q].desk # {}
               /\ rows'[q].desk \subseteq Passed(Judge(q, rows'[q]))
               /\ rows'[q].output["article_evaluate"].items \subseteq Passed(q)
    <3>1. CASE q = r
      BY <1>5, <1>6, <1>7, <1>13, <3>1 DEF Waiting
    <3>2. CASE q # r
      BY <1>2, <1>7, <1>13, <3>2 DEF RowsInv
    <3> QED BY <3>1, <3>2
  <2>4. Exists(Root)'
    BY <1>2, <1>10 DEF RowsInv
  <2>5. ASSUME NEW q \in Runs
        PROVE  /\ rows'[q].desk \subseteq Passed(Judge(q, rows[q]))'
               /\ rows'[q].output["article_evaluate"].items \subseteq Passed(q)'
    <3>1. PICK p : p = Judge(q, rows'[q])
      OBVIOUS
    <3>2. Judge(q, rows[q])' = p
      BY <3>1 DEF Judge
    <3>3. rows'[q].desk \subseteq Passed(p)'
      BY <1>13, <2>3, <3>1
    <3>4. rows'[q].output["article_evaluate"].items \subseteq Passed(q)'
      BY <1>13, <2>3
    <3> QED BY <3>2, <3>3, <3>4 DEF Passed
  <2> QED BY <1>15, <2>1, <2>2, <2>3, <2>4, <2>5 DEF RowsInv, Proceeding, Waiting
<1>17. ParentsInv'
  <2> SUFFICES ASSUME NEW q \in Children, Exists(q)'
               PROVE  /\ Exists(rows[q].parent)'
                      /\ rows'[q].start # "source_fetch" =>
                            /\ rows'[rows'[q].parent].output[PreviousNode(rows'[q].start)].taken
                            /\ rows'[q].input[rows'[q].start] =
                               rows'[rows'[q].parent].output[PreviousNode(rows'[q].start)]
    BY DEF ParentsInv
  <2>1. Exists(q)
    BY <1>2, <1>7 DEF ReconcileRun, Reconciled, Active, Exists
  <2>2. rows'[q].parent = rows[q].parent /\ rows'[q].start = rows[q].start
    BY <1>2, <1>5, <1>7 DEF Keeps, SameRun
  <2>3. /\ rows[q].parent \in Runs /\ rows[q].start \in NodeOrder
    BY <1>2 DEF TypeOK, RowType, RunRow
  <2>4. /\ Exists(rows[q].parent)
        /\ rows[q].start # "source_fetch" =>
               /\ rows[rows[q].parent].output[PreviousNode(rows[q].start)].taken
               /\ rows[q].input[rows[q].start] =
                      rows[rows[q].parent].output[PreviousNode(rows[q].start)]
    BY <1>2, <2>1 DEF ParentsInv
  <2>5. \A p \in Runs, n \in NodeOrder :
            /\ rows[p].output[n].taken => rows'[p].output[n] = rows[p].output[n]
            /\ rows[p].input[n].taken => rows'[p].input[n] = rows[p].input[n]
    BY <1>2, <1>5, <1>7 DEF Keeps
  <2>6. ASSUME rows[q].start # "source_fetch"
        PROVE  PreviousNode(rows[q].start) \in NodeOrder
    BY <2>3, <2>6, NodesInOrder, NodesBefore
  <2>7. Exists(rows[q].parent)'
    BY <1>10, <2>2, <2>3, <2>4 DEF Exists
  <2>8. ASSUME rows[q].start # "source_fetch"
        PROVE  /\ rows'[rows[q].parent].output[PreviousNode(rows[q].start)].taken
               /\ rows'[q].input[rows[q].start] =
                      rows'[rows[q].parent].output[PreviousNode(rows[q].start)]
    <3>1. PICK p, s, n : p = rows[q].parent /\ s = rows[q].start /\ n = PreviousNode(s)
      OBVIOUS
    <3>2. /\ p \in Runs /\ q \in Runs /\ s \in NodeOrder /\ n \in NodeOrder
          /\ rows[p].output[n].taken /\ rows[q].input[s] = rows[p].output[n]
      BY <1>2, <2>3, <2>4, <2>6, <2>8, <3>1
    <3>3. rows'[p].output[n] = rows[p].output[n] /\ rows'[q].input[s] = rows[q].input[s]
      BY <2>5, <3>2
    <3> QED BY <3>1, <3>2, <3>3
  <2>9. Exists(rows[q].parent)' /\ rows'[q].start = rows[q].start /\ rows'[q].parent = rows[q].parent
    BY <2>2, <2>7
  <2> QED BY <2>8, <2>9
<1>18. TopicsInWritingHaveWriters'
  <2> SUFFICES ASSUME NEW t \in Topics, topic'[t] = "in_writing"
               PROVE  \/ \E q \in Runs : sent'[q][<<"article_write", t>>] > 0
                      \/ \E q \in Children :
                            /\ rows'[q].mode = "evaluate_only" /\ rows'[q].start = "topic_evaluate"
                            /\ answer'[q][<<"topic_evaluate", t>>] = "pass"
    BY DEF TopicsInWritingHaveWriters
  <2>1. <<"article_write", t>> \in Jobs /\ \A q \in Runs, j \in Jobs : sent[q][j] \in Nat
    BY <1>2 DEF Jobs, TypeOK
  <2>2. \A q \in Children : rows'[q].mode = rows[q].mode /\ rows'[q].start = rows[q].start
    BY <1>2, <1>5, <1>7 DEF Keeps, SameRun
  <2>3. \A q \in Runs : sent[q][<<"article_write", t>>] > 0 => sent'[q][<<"article_write", t>>] > 0
    BY <1>8, <2>1
  <2>4. CASE topic[t] = "in_writing"
    <3>1. \/ \E q \in Runs : sent[q][<<"article_write", t>>] > 0
          \/ \E q \in Children :
                /\ rows[q].mode = "evaluate_only" /\ rows[q].start = "topic_evaluate"
                /\ answer[q][<<"topic_evaluate", t>>] = "pass"
      BY <1>2, <2>4 DEF TopicsInWritingHaveWriters
    <3>2. answer' = answer
      BY <1>1
    <3> QED BY <2>2, <2>3, <3>1, <3>2
  <2>5. CASE <<"article_write", t>> \in jobs
    BY <1>2, <1>8, <2>1, <2>5
  <2>6. CASE /\ row.mode = "evaluate_only" /\ row.start = "topic_evaluate"
             /\ answer[r][<<"topic_evaluate", t>>] = "pass"
    BY <1>1, <1>7, <2>6
  <2> QED BY <1>4, <2>4, <2>5, <2>6 DEF Statuses
<1> QED BY <1>9, <1>11, <1>16, <1>17, <1>18 DEF IInv

-----------------------------------------------------------------------------
(* A replay.                                                                *)

\* What a replay that is not of everything begins with is its parent's output.
LEMMA ReplaySourceIs ==
    ASSUME NEW parent \in Runs, NEW from \in NodeOrder, HasReplayInput(parent, from),
           from # "source_fetch"
    PROVE  /\ ReplaySource(parent, from) = rows[parent].output[PreviousNode(from)]
           /\ rows[parent].output[PreviousNode(from)].taken
<1>1. rows[parent].output[PreviousNode(from)].taken
  BY DEF HasReplayInput
<1>2. \A n : rows[parent].output[n].taken => NearestOutput(parent, n) = rows[parent].output[n]
  BY DEF NearestOutput
<1> QED BY <1>1, <1>2 DEF ReplaySource

\* A replay of everything that is not of some items is for all of them.
LEMMA InputIDsAre ==
    ASSUME NEW parent, NEW from, NEW mode, NEW selected
    PROVE  /\ replayInputIDs(parent, from, mode, selected) \subseteq ReplaySource(parent, from).items
           /\ mode # "failed_items" /\ selected = {} =>
                  replayInputIDs(parent, from, mode, selected) = ReplaySource(parent, from).items
BY DEF replayInputIDs

\* What it begins with, then, is of its node's kind.
LEMMA InputsOfReplays ==
    ASSUME TypeOK, NEW parent \in Runs, NEW from \in NodeOrder, HasReplayInput(parent, from)
    PROVE  /\ ReplaySource(parent, from).items \subseteq InputsOf[from]
           /\ from # "source_fetch" => rows[parent].output[PreviousNode(from)] \in Snapshot
           /\ from # "source_fetch" => PreviousNode(from) \in NodeOrder
<1>1. CASE from = "source_fetch"
  BY <1>1, NodesInOrder DEF TypeOK, Runs, RowType, ReplaySource
<1>2. CASE from # "source_fetch"
  <2>1. PreviousNode(from) \in NodeOrder /\ OutputsOf[PreviousNode(from)] = InputsOf[from]
    BY <1>2, NodesInOrder, NodesBefore, ItemsOfNodes
  <2>2. RowType(rows[parent])
    BY DEF TypeOK
  <2>3. rows[parent].output[PreviousNode(from)] \in Snapshot
    BY <2>1, <2>2 DEF RowType, RunRow
  <2> QED BY <1>2, <2>1, <2>2, <2>3, ReplaySourceIs DEF RowType
<1> QED BY <1>1, <1>2

\* The row of a new run.
LEMMA ReplayRowIs ==
    ASSUME TypeOK, NEW parent \in Runs, NEW from \in NodeOrder, HasReplayInput(parent, from),
           NEW mode \in {"full", "failed_items", "selected_items", "evaluate_only"},
           NEW selected \in SUBSET ReplaySource(parent, from).items,
           NEW row, row = ReplayRow(parent, from, mode, selected)
    PROVE  /\ RowType(row)
           /\ row.status = "queued" /\ row.parent = parent /\ row.start = from
           /\ row.mode = mode /\ row.selected = selected /\ row.desk = {}
           /\ row.input[from] = IF from = "source_fetch" THEN rows[parent].input[from]
                                ELSE rows[parent].output[PreviousNode(from)]
           /\ \A n \in NodeOrder : n # from => row.input[n] = NoSnapshot
           /\ \A n \in NodeOrder : row.output[n] = NoSnapshot
<1> DEFINE in == IF from = "source_fetch" THEN rows[parent].input[from]
                 ELSE rows[parent].output[PreviousNode(from)]
           nodes == [n \in NodeOrder |-> IF NodeIndex[n] < NodeIndex[from] THEN "skipped" ELSE "queued"]
           ins == [NoRow.input EXCEPT ![from] = in]
           p == [NoRow EXCEPT
                    !.status = "queued", !.parent = parent, !.start = from,
                    !.mode = mode, !.selected = selected, !.node = nodes,
                    !.input[from] = in]
<1>1. in \in Snapshot /\ in.items \subseteq InputsOf[from] /\ (~in.taken => in.items = {})
  <2>1. CASE from = "source_fetch"
    BY <2>1 DEF TypeOK, RowType, RunRow
  <2>2. CASE from # "source_fetch"
    BY <2>2, InputsOfReplays, ReplaySourceIs
  <2> QED BY <2>1, <2>2
<1>2. NoSnapshot \in Snapshot /\ ~NoSnapshot.taken /\ NoSnapshot.items = {}
  BY DEF NoSnapshot, Snapshot
<1>3. nodes \in [NodeOrder -> {"queued", "succeeded", "skipped"}]
  OBVIOUS
<1>4. p \in [status : {"queued"}, parent : {parent}, start : {from}, mode : {mode},
              selected : {selected}, node : {nodes}, input : {ins}, output : {NoRow.output},
              desk : {{}}]
  BY DEF NoRow
<1>5. row = IF mode = "evaluate_only" THEN SkipNodesAfter(p, from) ELSE p
  BY DEF ReplayRow
<1> HIDE DEF p, nodes, in
<1>6. /\ ins \in [NodeOrder -> Snapshot] /\ ins[from] = in
      /\ \A n \in NodeOrder : n # from => ins[n] = NoSnapshot
      /\ NoRow.output \in [NodeOrder -> Snapshot]
      /\ \A n \in NodeOrder : NoRow.output[n] = NoSnapshot
  BY <1>1, <1>2 DEF NoRow
<1> HIDE DEF ins
<1>7. /\ p.status = "queued" /\ p.parent = parent /\ p.start = from
      /\ p.mode = mode /\ p.selected = selected /\ p.desk = {}
      /\ p.input = ins /\ p.output = NoRow.output
  BY <1>4
<1>8. p \in RunRow
  <2>1. selected \in SUBSET Item
    BY InputsOfReplays, ItemsOfNodes
  <2>2. "queued" \in RunStatus
    BY DEF RunStatus
  <2> QED BY <1>3, <1>4, <1>6, <2>1, <2>2 DEF RunRow
<1>9. RowType(p)
  BY <1>1, <1>2, <1>6, <1>7, <1>8 DEF RowType
<1>10. SameWork(p, row) /\ row.status = "queued"
  <2>1. SameWork(p, p)
    BY <1>9 DEF SameWork, SameLine, SameRun
  <2> QED BY <1>5, <1>7, <1>9, <2>1, SkipNodesAfterIs
<1>11. /\ RowType(row) /\ row.input = ins /\ row.output = NoRow.output /\ row.desk = {}
       /\ row.parent = parent /\ row.start = from /\ row.mode = mode /\ row.selected = selected
  BY <1>7, <1>10 DEF SameWork, SameLine, SameRun
<1>12. row.input[from] = in
  BY <1>6, <1>11
<1> QED BY <1>6, <1>10, <1>11, <1>12 DEF in

\* The jobs a replay gives out.
FirstJobs(from, ids) ==
    IF ids = {} \/ from = "human_review" THEN {} ELSE StartJobs(from, ids) \cap Jobs

\* Its row goes with them.
LEMMA ReplayRowOK ==
    ASSUME TypeOK, NEW r, NEW parent \in Runs, NEW from \in NodeOrder,
           HasReplayInput(parent, from),
           NEW mode \in {"full", "failed_items", "selected_items", "evaluate_only"},
           NEW selected \in SUBSET ReplaySource(parent, from).items,
           NEW row, row = ReplayRow(parent, from, mode, selected),
           NEW ids, ids = replayInputIDs(parent, from, mode, selected)
    PROVE  RowOK(r, row, FirstJobs(from, ids))
<1>1. /\ RowType(row)
      /\ row.status = "queued" /\ row.parent = parent /\ row.start = from
      /\ row.mode = mode /\ row.selected = selected /\ row.desk = {}
      /\ from # "source_fetch" => row.input[from] = rows[parent].output[PreviousNode(from)]
      /\ \A n \in NodeOrder : n # from => row.input[n] = NoSnapshot
      /\ \A n \in NodeOrder : row.output[n] = NoSnapshot
  BY ReplayRowIs
<1>2. NoSnapshot.taken = FALSE /\ NoSnapshot.items = {}
  BY DEF NoSnapshot
<1>3. from # "source_fetch" =>
          row.input[from].taken /\ row.input[from] = ReplaySource(parent, from)
  BY <1>1, ReplaySourceIs
<1>4. /\ ids \subseteq ReplaySource(parent, from).items
      /\ mode # "failed_items" /\ selected = {} => ids = ReplaySource(parent, from).items
  BY InputIDsAre
<1>5. PICK G : G = FirstJobs(from, ids)
  OBVIOUS
<1>6. /\ \A s \in Sources : <<"source_fetch", s>> \in G => from = "source_fetch"
      /\ ScoutJob \in G => from = "topic_scout"
      /\ \A n \in Working : \A i : <<n, i>> \in G => n = from /\ i \in ids
  BY <1>5 DEF FirstJobs, StartJobs, ScoutJob, Working
<1>7. ASSUME NEW n \in Working PROVE AsksForAll(row, n, G)
  <2>1. n \in NodeOrder /\ n # "human_review" /\ n # "topic_scout" /\ n # "source_fetch"
    BY NodesInOrder DEF Working
  <2>2. CASE n # from
    BY <1>1, <1>2, <2>1, <2>2 DEF AsksForAll
  <2>3. CASE n = from
    <3>1. ASSUME mode \in {"full", "evaluate_only"}, selected = {}, NEW i \in row.input[n].items
          PROVE  <<n, i>> \in G
      <4>1. i \in ids
        BY <1>3, <1>4, <2>1, <2>3, <3>1
      <4>2. <<n, i>> \in Jobs
        <5>1. i \in InputsOf[n]
          BY <1>1, <2>1, <3>1 DEF RowType
        <5> QED BY <5>1, ItemsOfNodes DEF Working, Jobs
      <4> QED BY <1>5, <2>1, <2>3, <4>1, <4>2 DEF FirstJobs, StartJobs
    <3> QED BY <1>1, <2>3, <3>1 DEF AsksForAll
  <2> QED BY <2>2, <2>3
<1>8. /\ \A n \in NodeOrder : NodeIndex[n] < NodeIndex[row.start] =>
             ~row.input[n].taken /\ ~row.output[n].taken
      /\ row.start # "source_fetch" => row.input[row.start].taken
  <2>1. \A n \in NodeOrder : NodeIndex[n] < NodeIndex[row.start] => n # from
    BY <1>1, NodesInOrder
  <2> QED BY <1>1, <1>2, <1>3, <2>1
<1>9. /\ \A s \in Sources : <<"source_fetch", s>> \in G => row.start = "source_fetch"
      /\ ScoutJob \in G => row.input["topic_scout"].taken
      /\ \A n \in Working, i \in Item : <<n, i>> \in G => i \in row.input[n].items
  <2>1. "source_fetch" \notin Working
    BY DEF Working
  <2> QED BY <1>1, <1>3, <1>4, <1>6, <2>1
<1>10. /\ Linked(row, "source_fetch", "topic_scout")
       /\ Linked(row, "topic_scout", "topic_evaluate")
       /\ Linked(row, "topic_evaluate", "article_write")
       /\ Linked(row, "article_write", "article_evaluate")
       /\ row.input["human_review"].taken => row.start = "human_review"
  BY <1>1, <1>2, NodesInOrder DEF Linked
<1>11. /\ \A n \in NodeOrder : ~row.output[n].taken
       /\ row.output["source_fetch"].items = {}
       /\ Fed \subseteq NodeOrder
  BY <1>1, <1>2, NodesInOrder DEF Fed, Working
<1>12. RowOK(r, row, G)
  BY <1>1, <1>7, <1>8, <1>9, <1>10, <1>11 DEF RowOK
<1> QED BY <1>5, <1>12

\* A run that has been started: empty, on a desk, or queued.
Started(r, parent, from, ids, q) ==
    /\ RowOK(r, q, FirstJobs(from, ids))
    /\ q.parent = parent /\ q.start = from
    /\ from # "source_fetch" => q.input[from] = rows[parent].output[PreviousNode(from)]
    /\ q.status = IF ids = {} THEN "completed_empty"
                  ELSE IF from = "human_review" THEN "waiting_human_review" ELSE "queued"
    /\ Waiting(q) <=> q.desk # {}
    /\ q.desk \subseteq Passed(parent) /\ (q.desk # {} => from = "human_review")
    /\ q.output["article_evaluate"].items = {}
    /\ Proceeding(q)

\* That is what becomes of a new run's row.
LEMMA StartReplayIs ==
    ASSUME TypeOK, RowsInv, NEW r, NEW parent \in Runs, NEW from \in NodeOrder,
           HasReplayInput(parent, from),
           NEW mode \in {"full", "failed_items", "selected_items", "evaluate_only"},
           NEW selected \in SUBSET ReplaySource(parent, from).items,
           NEW ids, ids = replayInputIDs(parent, from, mode, selected),
           NEW q, q = StartReplay(ReplayRow(parent, from, mode, selected), ids)
    PROVE  Started(r, parent, from, ids, q)
<1> SUFFICES /\ RowOK(r, q, FirstJobs(from, ids))
             /\ q.parent = parent /\ q.start = from
             /\ from # "source_fetch" => q.input[from] = rows[parent].output[PreviousNode(from)]
             /\ q.status = IF ids = {} THEN "completed_empty"
                           ELSE IF from = "human_review" THEN "waiting_human_review" ELSE "queued"
             /\ Waiting(q) <=> q.desk # {}
             /\ q.desk \subseteq Passed(parent) /\ (q.desk # {} => from = "human_review")
             /\ q.output["article_evaluate"].items = {}
             /\ Proceeding(q)
  BY DEF Started
<1>1. PICK row : row = ReplayRow(parent, from, mode, selected)
  OBVIOUS
<1>2. /\ RowType(row)
      /\ row.status = "queued" /\ row.parent = parent /\ row.start = from
      /\ row.mode = mode /\ row.selected = selected /\ row.desk = {}
      /\ from # "source_fetch" => row.input[from] = rows[parent].output[PreviousNode(from)]
      /\ \A n \in NodeOrder : row.output[n] = NoSnapshot
  BY <1>1, ReplayRowIs
<1>3. RowOK(r, row, FirstJobs(from, ids))
  BY <1>1, ReplayRowOK
<1>4. NoSnapshot.taken = FALSE /\ NoSnapshot.items = {}
  BY DEF NoSnapshot
<1>5. Proceeding(row) /\ row.output["article_evaluate"].items = {}
  BY <1>2, <1>4, NodesInOrder DEF Proceeding
<1>6. CASE ids = {}
  <2>1. q = CompleteEmpty(row)
    BY <1>1, <1>6 DEF StartReplay
  <2>2. SameWork(row, q) /\ q.status = "completed_empty"
    BY <1>2, <2>1, CompleteEmptyIs DEF Final
  <2>3. RowOK(r, q, FirstJobs(from, ids))
    BY <1>3, <2>2, RowOKSame DEF SameWork
  <2>4. q.input = row.input /\ q.output = row.output /\ q.desk = {} /\ SameRun(row, q)
    BY <1>2, <2>2 DEF SameWork, SameLine
  <2>5. Proceeding(q)
    BY <1>5, <2>4 DEF Proceeding
  <2> QED BY <1>2, <1>5, <1>6, <2>2, <2>3, <2>4, <2>5 DEF Waiting, SameRun
<1>7. CASE ids # {} /\ from = "human_review"
  <2>1. ids \subseteq Articles /\ ids \subseteq Passed(parent)
    <3>1. ids \subseteq rows[parent].output["article_evaluate"].items
      BY <1>7, InputIDsAre, ReplaySourceIs, NodesBefore
    <3> QED BY <3>1 DEF RowsInv, Passed
  <2>2. PICK closed : closed = CloseNode(row, "human_review", ids)
    OBVIOUS
  <2>3. "human_review" \in NodeOrder /\ ids \in SUBSET OutputsOf["human_review"]
        /\ "human_review" \notin Fed /\ "human_review" # "source_fetch"
    BY <2>1, NodesInOrder, ItemsOfNodes DEF Fed, Working
  <2>4. /\ RowType(closed) /\ SameRun(row, closed)
        /\ closed.input = row.input /\ closed.desk = row.desk
        /\ \A m \in NodeOrder : closed.output[m] =
              IF m = "human_review" /\ ~row.output["human_review"].taken
              THEN Taken(ids) ELSE row.output[m]
    BY <1>2, <2>2, <2>3, CloseNodeIs
  <2>5. RowOK(r, closed, FirstJobs(from, ids))
    <3>1. NodeIndex["human_review"] >= NodeIndex[row.start]
      BY <1>2, <1>7, NodesInOrder
    <3> QED BY <1>3, <2>3, <2>4, <3>1, RowOKClose
  <2>6. q = [closed EXCEPT !.desk = ids, !.status = "waiting_human_review"]
    BY <1>1, <1>2, <1>7, <2>2 DEF StartReplay, setWaitingReview
  <2>7. /\ SameLine(closed, q) /\ q.desk = ids /\ q.status = "waiting_human_review"
    <3>1. closed \in RunRow
      BY <2>4 DEF RowType
    <3>2. "waiting_human_review" \in RunStatus
      BY DEF RunStatus
    <3>3. /\ q \in RunRow /\ q.desk = ids /\ q.status = "waiting_human_review"
          /\ q.input = closed.input /\ q.output = closed.output /\ SameRun(closed, q)
      BY <2>1, <2>6, <3>1, <3>2 DEF RunRow, SameRun
    <3> QED BY <2>4, <3>3 DEF RowType, SameLine
  <2>8. RowOK(r, q, FirstJobs(from, ids))
    BY <2>5, <2>7, RowOKSame
  <2>9. q.output["article_evaluate"].items = {} /\ Proceeding(q)
    <3>1. \A m \in NodeOrder : m # "human_review" => q.output[m] = NoSnapshot
      BY <1>2, <2>4, <2>7 DEF SameLine
    <3> QED BY <1>4, <3>1, NodesInOrder DEF Proceeding
  <2>10. q.input = row.input /\ SameRun(row, q)
    BY <2>4, <2>7 DEF SameLine, SameRun
  <2> QED BY <1>2, <1>7, <2>1, <2>7, <2>8, <2>9, <2>10 DEF Waiting, SameRun
<1>8. CASE ids # {} /\ from # "human_review"
  <2>1. q = row
    BY <1>1, <1>2, <1>8 DEF StartReplay
  <2> QED BY <1>2, <1>3, <1>5, <1>8, <2>1 DEF Waiting
<1> QED BY <1>6, <1>7, <1>8

\* A new run with its jobs, which has none once it has ended or waits.
NewRun(parent, child, from, q, G) ==
    /\ RowOK(child, q, G) /\ G \subseteq Jobs /\ (\A j \in G : j[1] = from)
    /\ q.parent = parent /\ q.start = from
    /\ from # "source_fetch" =>
           /\ q.input[from] = rows[parent].output[PreviousNode(from)]
           /\ rows[parent].output[PreviousNode(from)].taken
    /\ q.status \in {"queued", "waiting_human_review", "completed_empty"}
    /\ q.status = "queued" => from # "human_review"
    /\ q.status # "queued" => G = {}
    /\ Waiting(q) <=> q.desk # {}
    /\ q.desk \subseteq Passed(parent) /\ (q.desk # {} => from = "human_review")
    /\ q.output["article_evaluate"].items = {}
    /\ Proceeding(q)

\* Nothing but a new run, with its jobs, comes of a request.
LEMMA CreateReplayIs ==
    ASSUME IInv, NEW parent \in Runs, NEW child \in Children, NEW from \in NodeOrder,
           NEW mode \in {"full", "failed_items", "selected_items", "evaluate_only"},
           NEW selected \in SUBSET ReplaySource(parent, from).items,
           ~Exists(child), CreateReplay(parent, child, from, mode, selected)
    PROVE  \E q, G :
               /\ NewRun(parent, child, from, q, G)
               /\ rows' = [rows EXCEPT ![child] = q]
               /\ sent' = [sent EXCEPT ![child] = [j \in Jobs |-> IF j \in G THEN 1 ELSE 0]]
               /\ queued' = [queued EXCEPT ![child] = G \cap {ScoutJob}]
               /\ UNCHANGED <<answer, raw, owner, topic, article>>
<1>1. PICK ids : ids = replayInputIDs(parent, from, mode, selected)
  OBVIOUS
<1>2. PICK q : q = StartReplay(ReplayRow(parent, from, mode, selected), ids)
  OBVIOUS
<1>3. PICK G : G = FirstJobs(from, ids)
  OBVIOUS
<1>4. /\ HasReplayInput(parent, from)
      /\ rows' = [rows EXCEPT ![child] = q]
      /\ sent' = [sent EXCEPT ![child] = [j \in Jobs |->
             IF q.status = "queued" /\ j \in StartJobs(from, ids)
             THEN sent[child][j] + 1 ELSE sent[child][j]]]
      /\ queued' = [queued EXCEPT ![child] =
             IF q.status = "queued" THEN queued[child] \cup (StartJobs(from, ids) \cap {ScoutJob})
             ELSE queued[child]]
      /\ UNCHANGED <<answer, raw, owner, topic, article>>
  BY <1>1, <1>2 DEF CreateReplay
<1>5. /\ RowOK(child, q, G)
      /\ q.parent = parent /\ q.start = from
      /\ from # "source_fetch" => q.input[from] = rows[parent].output[PreviousNode(from)]
      /\ q.status = IF ids = {} THEN "completed_empty"
                    ELSE IF from = "human_review" THEN "waiting_human_review" ELSE "queued"
      /\ Waiting(q) <=> q.desk # {}
      /\ q.desk \subseteq Passed(parent) /\ (q.desk # {} => from = "human_review")
      /\ q.output["article_evaluate"].items = {}
      /\ Proceeding(q)
  <2>1. TypeOK /\ RowsInv
    BY DEF IInv
  <2>2. Started(child, parent, from, ids, q)
    BY <1>1, <1>2, <1>4, <2>1, StartReplayIs
  <2> QED BY <1>3, <2>2 DEF Started
<1>6. \A j \in Jobs : j \in G <=> q.status = "queued" /\ j \in StartJobs(from, ids)
  BY <1>3, <1>5 DEF FirstJobs
<1>7. (\A j \in Jobs : sent[child][j] = 0) /\ queued[child] = {} /\ ScoutJob \in Jobs
  <2>1. \A j \in Jobs : sent[child][j] = 0 /\ j \notin queued[child]
    BY DEF IInv, JobsInv, Runs
  <2>2. queued[child] \subseteq Jobs
    BY DEF IInv, TypeOK, Runs
  <2> QED BY <2>1, <2>2 DEF Jobs, ScoutJob
<1>8. [j \in Jobs |-> IF q.status = "queued" /\ j \in StartJobs(from, ids)
                      THEN sent[child][j] + 1 ELSE sent[child][j]]
      = [j \in Jobs |-> IF j \in G THEN 1 ELSE 0]
  BY <1>6, <1>7
<1>9. G \subseteq Jobs /\ (q.status # "queued" => G = {}) /\ (\A j \in G : j[1] = from)
  BY <1>3, <1>5 DEF FirstJobs, StartJobs, ScoutJob
<1>12. queued' = [queued EXCEPT ![child] = G \cap {ScoutJob}]
  BY <1>4, <1>6, <1>7, <1>9
<1>10. from # "source_fetch" => rows[parent].output[PreviousNode(from)].taken
  BY <1>4 DEF HasReplayInput
<1>11. NewRun(parent, child, from, q, G)
  BY <1>5, <1>9, <1>10 DEF NewRun
<1> QED BY <1>4, <1>8, <1>11, <1>12

\* A new run keeps the invariant.
LEMMA CreateReplayKeeps ==
    ASSUME IInv, NEW parent \in Runs, NEW child \in Children, NEW from \in NodeOrder,
           NEW mode \in {"full", "failed_items", "selected_items", "evaluate_only"},
           NEW selected \in SUBSET ReplaySource(parent, from).items,
           Exists(parent), ~Exists(child), CreateReplay(parent, child, from, mode, selected)
    PROVE  IInv'
<1>0. PICK row, G :
          /\ NewRun(parent, child, from, row, G)
          /\ rows' = [rows EXCEPT ![child] = row]
          /\ sent' = [sent EXCEPT ![child] = [j \in Jobs |-> IF j \in G THEN 1 ELSE 0]]
          /\ queued' = [queued EXCEPT ![child] = G \cap {ScoutJob}]
          /\ UNCHANGED <<answer, raw, owner, topic, article>>
  BY CreateReplayIs
<1>1. /\ RowOK(child, row, G) /\ G \subseteq Jobs /\ (\A j \in G : j[1] = from)
      /\ row.parent = parent /\ row.start = from
      /\ from # "source_fetch" =>
             /\ row.input[from] = rows[parent].output[PreviousNode(from)]
             /\ rows[parent].output[PreviousNode(from)].taken
      /\ row.status \in {"queued", "waiting_human_review", "completed_empty"}
      /\ row.status = "queued" => from # "human_review"
      /\ row.status # "queued" => G = {}
      /\ Waiting(row) <=> row.desk # {}
      /\ row.desk \subseteq Passed(parent) /\ (row.desk # {} => from = "human_review")
      /\ row.output["article_evaluate"].items = {}
      /\ Proceeding(row)
      /\ rows' = [rows EXCEPT ![child] = row]
      /\ sent' = [sent EXCEPT ![child] = [j \in Jobs |-> IF j \in G THEN 1 ELSE 0]]
      /\ queued' = [queued EXCEPT ![child] = G \cap {ScoutJob}]
      /\ UNCHANGED <<answer, raw, owner, topic, article>>
  BY <1>0 DEF NewRun
<1>2. /\ TypeOK /\ JobsInv /\ RowsInv /\ ParentsInv /\ TopicsInWritingHaveWriters
      /\ Children \subseteq Runs /\ child \in Runs /\ Root \in Runs /\ child # Root
      /\ child # parent
  BY ReplayAssumption DEF IInv, Runs
<1>3. /\ DOMAIN rows' = Runs /\ rows'[child] = row
      /\ \A q \in Runs : q # child => rows'[q] = rows[q]
  BY <1>1, <1>2 DEF TypeOK
<1>4. /\ sent' \in [Runs -> [Jobs -> Nat]]
      /\ \A q \in Runs, j \in Jobs : sent'[q][j] =
            IF q = child THEN (IF j \in G THEN 1 ELSE 0) ELSE sent[q][j]
  <2>1. sent \in [Runs -> [Jobs -> Nat]]
    BY <1>2 DEF TypeOK
  <2>2. PICK f : f = [j \in Jobs |-> IF j \in G THEN 1 ELSE 0]
    OBVIOUS
  <2>3. f \in [Jobs -> Nat] /\ sent' = [sent EXCEPT ![child] = f]
    BY <1>1, <2>2
  <2> QED BY <1>2, <2>1, <2>2, <2>3
<1>5. TypeOK'
  <2>1. \A q \in Runs : RowType(rows'[q])
    BY <1>1, <1>2, <1>3 DEF TypeOK, RowOK
  <2>2. queued' \in [Runs -> SUBSET Jobs]
    BY <1>1, <1>2 DEF TypeOK
  <2> QED BY <1>1, <1>2, <1>3, <1>4, <2>1, <2>2 DEF TypeOK
<1>6. \A q \in Runs : Exists(q)' <=> Exists(q) \/ q = child
  BY <1>1, <1>3 DEF Exists
<1>7. \A j \in Jobs : sent[child][j] = 0 /\ answer[child][j] = "none"
  <2>1. \A j \in Jobs : sent[child][j] = 0
    BY <1>2 DEF JobsInv
  <2> QED BY <1>2, <2>1 DEF JobsInv
<1>8. JobsInv'
  <2> SUFFICES ASSUME NEW q \in Runs, NEW j \in Jobs
               PROVE  /\ ~Exists(q)' => sent'[q][j] = 0
                      /\ answer'[q][j] # "none" => sent'[q][j] > 0
                      /\ j \in queued'[q] => sent'[q][j] > 0
                      /\ (q \in Children /\ sent'[q][j] > 0 /\ j \notin queued'[q])
                             => j[1] = rows'[q].start
                      /\ sent'[q][j] <= 1
    BY DEF JobsInv
  <2>0. queued'[q] = IF q = child THEN G \cap {ScoutJob} ELSE queued[q]
    BY <1>1, <1>2 DEF TypeOK
  <2>1. CASE q = child
    BY <1>1, <1>3, <1>4, <1>6, <1>7, <2>0, <2>1
  <2>2. CASE q # child
    BY <1>1, <1>2, <1>3, <1>4, <1>6, <2>0, <2>2 DEF JobsInv
  <2> QED BY <2>1, <2>2
<1>9. /\ Given(child)' = G
      /\ \A q \in Runs : q # child => Given(q)' = Given(q)
  BY <1>1, <1>2, <1>4 DEF Given
<1>10. /\ \A q : Passed(q)' = Passed(q)
       /\ row.desk # {} => Judge(child, row) = parent
  BY <1>1 DEF Passed, Judge
<1>11. ASSUME NEW q \in Children, Exists(q)' PROVE RowOK(q, rows[q], Given(q))'
  <2>1. PICK line, H : line = rows'[q] /\ H = Given(q)'
    OBVIOUS
  <2>2. RowOK(q, line, H)
    <3>1. CASE q = child
      BY <1>1, <1>3, <1>9, <2>1, <3>1
    <3>2. CASE q # child
      BY <1>2, <1>3, <1>6, <1>9, <1>11, <2>1, <3>2 DEF RowsInv
    <3> QED BY <3>1, <3>2
  <2>3. \A n : Made(q, line, n)' = Made(q, line, n) /\ (Done(q, line, n)' <=> Done(q, line, n))
    BY <1>1 DEF Made, Done
  <2>4. RowOK(q, line, H)'
    BY <1>1, <2>2, <2>3, RowOKLater
  <2> QED BY <2>1, <2>4 DEF RowOK, Made, Done
<1>12. RowsInv'
  <2>1. ASSUME NEW q \in Children, Exists(q)', Active(q)'
        PROVE  rows'[q].start # "human_review" /\ Proceeding(rows'[q])
    <3>1. CASE q = child
      BY <1>1, <1>3, <2>1, <3>1 DEF Active
    <3>2. CASE q # child
      BY <1>2, <1>3, <1>6, <2>1, <3>2 DEF RowsInv, Active
    <3> QED BY <3>1, <3>2
  <2>2. ASSUME NEW q \in Children, Exists(q)', ~Active(q)'
        PROVE  Drained(q, Given(q))'
    <3>1. CASE q = child
      BY <1>1, <1>3, <1>9, <2>2, <3>1 DEF Active, Drained
    <3>2. CASE q # child
      BY <1>1, <1>2, <1>3, <1>6, <1>9, <2>2, <3>2 DEF RowsInv, Active, Drained
    <3> QED BY <3>1, <3>2
  <2>3. ASSUME NEW q \in Runs
        PROVE  /\ Waiting(rows'[q]) <=> rows'[q].desk # {}
               /\ rows'[q].desk \subseteq Passed(Judge(q, rows'[q]))
               /\ rows'[q].output["article_evaluate"].items \subseteq Passed(q)
    <3>1. CASE q = child
      BY <1>1, <1>3, <1>10, <3>1
    <3>2. CASE q # child
      BY <1>2, <1>3, <3>2 DEF RowsInv
    <3> QED BY <3>1, <3>2
  <2>4. Exists(Root)'
    BY <1>2, <1>6 DEF RowsInv
  <2>5. ASSUME NEW q \in Runs
        PROVE  /\ rows'[q].desk \subseteq Passed(Judge(q, rows[q]))'
               /\ rows'[q].output["article_evaluate"].items \subseteq Passed(q)'
    <3>1. PICK p : p = Judge(q, rows'[q])
      OBVIOUS
    <3>2. Judge(q, rows[q])' = p
      BY <3>1 DEF Judge
    <3>3. rows'[q].desk \subseteq Passed(p)'
      BY <1>10, <2>3, <3>1
    <3>4. rows'[q].output["article_evaluate"].items \subseteq Passed(q)'
      BY <1>10, <2>3
    <3> QED BY <3>2, <3>3, <3>4 DEF Passed
  <2> QED BY <1>11, <2>1, <2>2, <2>3, <2>4, <2>5 DEF RowsInv, Proceeding, Waiting
<1>13. ParentsInv'
  <2> SUFFICES ASSUME NEW q \in Children, Exists(q)'
               PROVE  /\ Exists(rows[q].parent)'
                      /\ rows'[q].start # "source_fetch" =>
                            /\ rows'[rows'[q].parent].output[PreviousNode(rows'[q].start)].taken
                            /\ rows'[q].input[rows'[q].start] =
                               rows'[rows'[q].parent].output[PreviousNode(rows'[q].start)]
    BY DEF ParentsInv
  <2>1. CASE q = child
    <3>1. /\ rows'[q].parent = parent /\ rows'[q].start = from /\ rows'[q] = row
          /\ rows'[parent] = rows[parent]
      BY <1>1, <1>2, <1>3, <2>1
    <3>2. Exists(rows[q].parent)'
      BY <1>6, <3>1 DEF Exists
    <3> QED BY <1>1, <3>1, <3>2
  <2>2. CASE q # child
    <3>1. /\ Exists(q) /\ rows'[q] = rows[q] /\ rows[q].parent \in Runs
      BY <1>2, <1>3, <1>6, <2>2 DEF TypeOK, RowType, RunRow
    <3>2. /\ Exists(rows[q].parent)
          /\ rows[q].start # "source_fetch" =>
                 /\ rows[rows[q].parent].output[PreviousNode(rows[q].start)].taken
                 /\ rows[q].input[rows[q].start] =
                        rows[rows[q].parent].output[PreviousNode(rows[q].start)]
      BY <1>2, <3>1 DEF ParentsInv
    <3>3. rows'[rows[q].parent] = rows[rows[q].parent]
      BY <1>3, <3>1, <3>2
    <3>4. Exists(rows[q].parent)'
      BY <3>1, <3>2, <3>3 DEF Exists
    <3> QED BY <3>1, <3>2, <3>3, <3>4
  <2> QED BY <2>1, <2>2
<1>14. TopicsInWritingHaveWriters'
  <2> SUFFICES ASSUME NEW t \in Topics, topic'[t] = "in_writing"
               PROVE  \/ \E q \in Runs : sent'[q][<<"article_write", t>>] > 0
                      \/ \E q \in Children :
                            /\ rows'[q].mode = "evaluate_only" /\ rows'[q].start = "topic_evaluate"
                            /\ answer'[q][<<"topic_evaluate", t>>] = "pass"
    BY DEF TopicsInWritingHaveWriters
  <2>1. /\ <<"article_write", t>> \in Jobs /\ <<"topic_evaluate", t>> \in Jobs
        /\ answer' = answer /\ topic[t] = "in_writing"
    BY <1>1 DEF Jobs
  <2>2. CASE \E q \in Runs : sent[q][<<"article_write", t>>] > 0
    <3>1. PICK q \in Runs : sent[q][<<"article_write", t>>] > 0
      BY <2>2
    <3>2. q # child
      BY <1>7, <2>1, <3>1
    <3> QED BY <1>4, <2>1, <3>1, <3>2
  <2>3. CASE \E q \in Children :
                 /\ rows[q].mode = "evaluate_only" /\ rows[q].start = "topic_evaluate"
                 /\ answer[q][<<"topic_evaluate", t>>] = "pass"
    <3>1. PICK q \in Children :
                 /\ rows[q].mode = "evaluate_only" /\ rows[q].start = "topic_evaluate"
                 /\ answer[q][<<"topic_evaluate", t>>] = "pass"
      BY <2>3
    <3>2. q # child
      BY <1>7, <2>1, <3>1
    <3> QED BY <1>2, <1>3, <2>1, <3>1, <3>2
  <2> QED BY <1>2, <2>1, <2>2, <2>3 DEF TopicsInWritingHaveWriters
<1> QED BY <1>5, <1>8, <1>12, <1>13, <1>14 DEF IInv

-----------------------------------------------------------------------------
(* The beginning.                                                           *)

\* What the first run leaves behind is consistent, and nothing else is there.
LEMMA InitIsConsistent ==
    ASSUME NEW fate \in [Topics -> Fate], After(fate)
    PROVE  IInv
<1> DEFINE Of(fates)  == {t \in Topics : fate[t] \in fates}
           proposed   == Topics \ Of({"unproposed"})
           accepted   == Of({"unwritten", "scored", "passed"})
           written    == Of({"scored", "passed"}) \X {Root}
           desk       == Of({"passed"}) \X {Root}
           jobs       == ({"source_fetch"} \X Sources) \cup {ScoutJob}
                         \cup ({"topic_evaluate"} \X proposed)
                         \cup ({"article_write"} \X accepted)
                         \cup ({"article_evaluate"} \X written)
           output     == [source_fetch     |-> Taken(Sources),
                          topic_scout      |-> Taken(proposed),
                          topic_evaluate   |-> IF proposed = {} THEN NoSnapshot ELSE Taken(accepted),
                          article_write    |-> IF accepted = {} THEN NoSnapshot ELSE Taken(written),
                          article_evaluate |-> IF written = {} THEN NoSnapshot ELSE Taken(desk),
                          human_review     |-> IF written = {} THEN NoSnapshot ELSE Taken(desk)]
           input      == [n \in NodeOrder |->
                             IF n = "source_fetch" THEN Taken(Sources)
                             ELSE IF output[n].taken /\ n # "human_review"
                             THEN output[PreviousNode(n)] ELSE NoSnapshot]
           node       == [n \in NodeOrder |-> IF output[n].taken THEN "succeeded" ELSE "skipped"]
           status     == IF desk = {} THEN "completed_empty" ELSE "waiting_human_review"
           row        == [NoRow EXCEPT !.status = status, !.node = node, !.input = input,
                                       !.output = output, !.desk = desk]
<1>1. rows = [r \in Runs |-> IF r # Root THEN NoRow ELSE row]
  BY DEF After
<1>2. sent = [r \in Runs |-> [j \in Jobs |-> IF r = Root /\ j \in jobs THEN 1 ELSE 0]]
  BY DEF After
<1>32. queued = [r \in Runs |-> IF r = Root THEN jobs ELSE {}]
  BY DEF After
<1>3. answer = [r \in Runs |-> [j \in Jobs |->
               IF r # Root \/ j \notin jobs THEN "none" ELSE
               CASE j[1] = "topic_evaluate" ->
                        (CASE fate[j[2]] = "lost" -> "failed"
                           [] fate[j[2]] = "low" -> "low" [] OTHER -> "pass")
                 [] j[1] = "article_write" ->
                        (IF fate[j[2]] = "unwritten" THEN "failed" ELSE "done")
                 [] j[1] = "article_evaluate" ->
                        (IF fate[j[2][1]] = "passed" THEN "pass" ELSE "low")
                 [] OTHER -> "done"]]
  BY DEF After
<1>4. /\ raw = [r \in Runs |-> IF r = Root THEN Sources ELSE {}]
      /\ owner = [t \in Topics |-> Root]
  BY DEF After
<1>5. topic = [t \in Topics |->
               CASE fate[t] = "unproposed" -> "absent"
                 [] fate[t] = "lost" -> "candidate"
                 [] fate[t] = "low" -> "rejected"
                 [] fate[t] = "unwritten" -> IF written = {} THEN "in_writing" ELSE "written"
                 [] OTHER -> "written"]
  BY DEF After
<1>6. article = [x \in Articles |->
               IF x \in desk THEN "pending_review" ELSE IF x \in written THEN "scored" ELSE "absent"]
  BY DEF After
<1>7. Root \in Runs /\ Root \notin Children /\ Children \subseteq Runs
  BY ReplayAssumption DEF Runs
<1>8. /\ proposed \subseteq Topics /\ accepted \subseteq Topics
      /\ written \subseteq Articles /\ desk \subseteq written
      /\ \A t \in Topics : t \in accepted <=> fate[t] \in {"unwritten", "scored", "passed"}
      /\ \A x \in desk : \E t \in Topics : x = <<t, Root>> /\ fate[t] = "passed"
  BY <1>7 DEF Articles
<1>9. jobs \subseteq Jobs
  BY <1>8 DEF Jobs, ScoutJob
<1>10. \A t \in accepted : <<"article_write", t>> \in jobs
  OBVIOUS
<1>11. \A x \in written : <<"article_evaluate", x>> \in jobs
  OBVIOUS
<1> HIDE DEF proposed, accepted, written, desk, jobs
<1>12. /\ \A items : Taken(items).taken = TRUE /\ Taken(items).items = items
       /\ NoSnapshot.taken = FALSE /\ NoSnapshot.items = {}
       /\ NoSnapshot \in Snapshot
       /\ \A items \in SUBSET Item : Taken(items) \in Snapshot
  BY DEF NoSnapshot, Taken, Snapshot
<1>13. /\ output["source_fetch"] = Taken(Sources)
       /\ output["topic_scout"] = Taken(proposed)
       /\ output["topic_evaluate"] \in {NoSnapshot, Taken(accepted)}
       /\ output["article_write"] \in {NoSnapshot, Taken(written)}
       /\ output["article_evaluate"] \in {NoSnapshot, Taken(desk)}
       /\ output["human_review"] \in {NoSnapshot, Taken(desk)}
       /\ DOMAIN output = NodeOrder /\ output = [n \in NodeOrder |-> output[n]]
  BY NodesInOrder
<1> HIDE DEF output
<1>14. \A n \in NodeOrder : /\ output[n] \in Snapshot
                            /\ output[n].items \subseteq OutputsOf[n]
                            /\ ~output[n].taken => output[n].items = {}
  <2>1. desk \subseteq Articles
    BY <1>8
  <2>2. \A n \in NodeOrder : \E items \in SUBSET OutputsOf[n] : output[n] \in {NoSnapshot, Taken(items)}
    BY <1>8, <1>13, <2>1, NodesInOrder, ItemsOfNodes
  <2> QED BY <1>12, <2>2, ItemsOfNodes
<1>15. \A n \in NodeOrder : /\ input[n] \in Snapshot
                            /\ input[n].items \subseteq InputsOf[n]
                            /\ ~input[n].taken => input[n].items = {}
  <2> SUFFICES ASSUME NEW n \in NodeOrder
               PROVE  /\ input[n] \in Snapshot
                      /\ input[n].items \subseteq InputsOf[n]
                      /\ ~input[n].taken => input[n].items = {}
    OBVIOUS
  <2>1. CASE n = "source_fetch"
    BY <1>12, <2>1, ItemsOfNodes, NodesInOrder
  <2>2. CASE n # "source_fetch" /\ input[n] = NoSnapshot
    BY <1>12, <2>2
  <2>3. CASE n # "source_fetch" /\ input[n] # NoSnapshot
    <3>1. input[n] = output[PreviousNode(n)]
      BY <2>3
    <3>2. PreviousNode(n) \in NodeOrder /\ OutputsOf[PreviousNode(n)] = InputsOf[n]
      BY <2>3, NodesInOrder, NodesBefore, ItemsOfNodes
    <3> QED BY <1>14, <3>1, <3>2
  <2> QED BY <2>1, <2>2, <2>3
<1>16. input \in [NodeOrder -> Snapshot]
  BY <1>15
<1>17. output \in [NodeOrder -> Snapshot]
  BY <1>13, <1>14
<1>18. node \in [NodeOrder -> {"queued", "succeeded", "skipped"}]
  OBVIOUS
<1> HIDE DEF input, node
<1>19. /\ status \in RunStatus /\ (status = "waiting_human_review" <=> desk # {})
       /\ status # "absent"
  BY DEF RunStatus
<1> HIDE DEF status
<1>20. /\ row.status = status /\ row.input = input /\ row.output = output /\ row.desk = desk
       /\ row \in [status : {status}, parent : {Root}, start : {"source_fetch"}, mode : {"full"},
                   selected : {{}}, node : {node}, input : {input}, output : {output},
                   desk : {desk}]
  <2>1. row \in [status : {status}, parent : {Root}, start : {"source_fetch"}, mode : {"full"},
                 selected : {{}}, node : {node}, input : {input}, output : {output},
                 desk : {desk}]
    BY DEF NoRow
  <2> HIDE DEF row
  <2> QED BY <2>1
<1> HIDE DEF row
<1>21. RowType(row)
  <2>1. row \in RunRow
    BY <1>7, <1>8, <1>16, <1>17, <1>18, <1>19, <1>20, NodesInOrder DEF RunRow
  <2> QED BY <1>14, <1>15, <1>20, <2>1 DEF RowType
<1>22. RowType(NoRow) /\ NoRow.status = "absent" /\ NoRow.desk = {}
       /\ NoRow.output["article_evaluate"].items = {}
  <2>1. /\ [n \in NodeOrder |-> NoSnapshot] \in [NodeOrder -> Snapshot]
        /\ [n \in NodeOrder |-> "queued"] \in [NodeOrder -> {"queued", "succeeded", "skipped"}]
    BY <1>12
  <2>2. NoRow \in RunRow
    BY <1>7, <2>1, NodesInOrder DEF NoRow, RunRow, RunStatus
  <2>3. \A n \in NodeOrder : NoRow.input[n] = NoSnapshot /\ NoRow.output[n] = NoSnapshot
    BY DEF NoRow
  <2>4. NoRow.status = "absent" /\ NoRow.desk = {}
    BY DEF NoRow
  <2> QED BY <1>12, <2>2, <2>3, <2>4, NodesInOrder DEF RowType
<1>23. /\ DOMAIN rows = Runs /\ rows[Root] = row
       /\ \A r \in Children : rows[r] = NoRow
       /\ \A r \in Runs : rows[r] \in {row, NoRow} /\ (r = Root \/ r \in Children)
  BY <1>1, <1>7 DEF Runs
<1>24. \A r \in Runs, j \in Jobs :
           /\ sent[r][j] = IF r = Root /\ j \in jobs THEN 1 ELSE 0
           /\ (r # Root \/ j \notin jobs) => answer[r][j] = "none"
           /\ answer[r][j] \in Answers
           /\ j \in queued[r] <=> r = Root /\ j \in jobs
  <2>3. \A r \in Runs, j \in Jobs : j \in queued[r] <=> r = Root /\ j \in jobs
    BY <1>32
  <2>1. \A r \in Runs, j \in Jobs : sent[r][j] = IF r = Root /\ j \in jobs THEN 1 ELSE 0
    BY <1>2
  <2>2. \A r \in Runs, j \in Jobs :
           /\ (r # Root \/ j \notin jobs) => answer[r][j] = "none"
           /\ answer[r][j] \in Answers
    BY <1>3 DEF Answers
  <2> QED BY <2>1, <2>2, <2>3
<1>25. TypeOK
  <2>1. \A r \in Runs : RowType(rows[r])
    BY <1>21, <1>22, <1>23
  <2>2. sent \in [Runs -> [Jobs -> Nat]]
    BY <1>2
  <2>3. answer \in [Runs -> [Jobs -> Answers]]
    BY <1>3 DEF Answers
  <2>4. raw \in [Runs -> SUBSET Sources] /\ owner \in [Topics -> Runs]
    BY <1>4, <1>7
  <2>5. topic \in [Topics -> TopicStatus \cup {"absent"}]
    BY <1>5 DEF TopicStatus
  <2>6. article \in [Articles -> ArticleStatus \cup {"absent"}]
    BY <1>6 DEF ArticleStatus
  <2>7. queued \in [Runs -> SUBSET Jobs]
    BY <1>9, <1>32
  <2> QED BY <1>23, <2>1, <2>2, <2>3, <2>4, <2>5, <2>6, <2>7 DEF TypeOK
<1>26. Exists(Root) /\ \A r \in Children : ~Exists(r)
  BY <1>19, <1>20, <1>22, <1>23 DEF Exists
<1>27. JobsInv
  BY <1>7, <1>24, <1>26 DEF JobsInv
<1>28. desk \subseteq Passed(Root)
  <2> SUFFICES ASSUME NEW x \in desk PROVE x \in Passed(Root)
    OBVIOUS
  <2>1. x \in Articles /\ <<"article_evaluate", x>> \in jobs
    BY <1>8, <1>11
  <2>2. PICK t \in Topics : x = <<t, Root>> /\ fate[t] = "passed"
    BY <1>8
  <2>3. PICK j : j = <<"article_evaluate", x>>
    OBVIOUS
  <2>4. j \in Jobs /\ j \in jobs /\ j[1] = "article_evaluate" /\ j[2][1] = t
    BY <1>9, <2>1, <2>2, <2>3
  <2>5. answer[Root][j] = "pass"
    BY <1>3, <1>7, <2>2, <2>4
  <2> QED BY <1>7, <2>1, <2>3, <2>5 DEF Passed
<1>29. RowsInv
  <2>1. row.output["article_evaluate"].items \subseteq Passed(Root)
    BY <1>12, <1>13, <1>20, <1>28
  <2>2. Judge(Root, row) = Root
    BY <1>20 DEF Judge
  <2> QED BY <1>19, <1>20, <1>22, <1>23, <1>26, <1>28, <2>1, <2>2 DEF RowsInv, Waiting
<1>30. ParentsInv
  BY <1>26 DEF ParentsInv
<1>31. TopicsInWritingHaveWriters
  <2> SUFFICES ASSUME NEW t \in Topics, topic[t] = "in_writing"
               PROVE  sent[Root][<<"article_write", t>>] > 0
    BY <1>7 DEF TopicsInWritingHaveWriters
  <2>1. fate[t] = "unwritten"
    BY <1>5
  <2>2. <<"article_write", t>> \in jobs
    BY <1>8, <1>10, <2>1
  <2> QED BY <1>7, <1>9, <1>24, <2>2
<1> QED BY <1>25, <1>27, <1>29, <1>30, <1>31 DEF IInv

-----------------------------------------------------------------------------
(* The invariant.                                                           *)

\* It holds at the beginning.
LEMMA InitKeeps == Init => IInv
BY InitIsConsistent DEF Init

\* An agent's step keeps it.
LEMMA AgentKeeps ==
    ASSUME IInv, NEW r \in Children, Agent(r)
    PROVE  IInv'
<1>1. r \in Runs
  BY DEF Runs
<1>2. CASE \E s \in Sources : FetchSource(r, s)
  BY <1>1, <1>2, FetchSourceKeeps
<1>3. CASE \E T \in SUBSET Topics : ScoutTopics(r, T)
  BY <1>1, <1>3, ScoutTopicsKeeps
<1>4. CASE \E j \in Jobs, a \in {"pass", "low"} : Evaluate(r, j, a)
  BY <1>1, <1>4, EvaluateKeeps
<1>5. CASE \E t \in Topics : WriteArticle(r, t)
  BY <1>1, <1>5, WriteArticleKeeps
<1>6. CASE \E j \in Jobs : Fail(r, j)
  BY <1>1, <1>6, FailKeeps
<1> QED BY <1>2, <1>3, <1>4, <1>5, <1>6 DEF Agent

\* So does any step.
LEMMA NextKeeps == IInv /\ [Next]_vars => IInv'
<1> SUFFICES ASSUME IInv, [Next]_vars
             PROVE  IInv'
  OBVIOUS
<1>1. ASSUME NEW parent \in {r \in Runs : Exists(r)}, NEW child \in {r \in Children : ~Exists(r)},
             NEW from \in Nodes, NEW mode \in Modes,
             NEW selected \in SUBSET ReplaySource(parent, from).items,
             CreateReplay(parent, child, from, mode, selected)
      PROVE  IInv'
  BY <1>1, CreateReplayKeeps, ReplayAssumption
<1>2. ASSUME NEW r \in Children, ReconcileRun(r)
      PROVE  IInv'
  BY <1>2, ReconcileRunKeeps
<1>3. ASSUME NEW r \in Children, Agent(r)
      PROVE  IInv'
  BY <1>3, AgentKeeps
<1>4. ASSUME NEW x \in Articles, NEW to \in ArticleStatus, ReviewArticle(x, to)
      PROVE  IInv'
  BY <1>4, ReviewArticleKeeps
<1>5. CASE UNCHANGED vars
  <2>1. UNCHANGED <<rows, sent, queued, answer, raw, owner, topic, article>>
    BY <1>5 DEF vars
  <2>2. TypeOK'
    BY <2>1 DEF IInv, TypeOK
  <2>3. AnswersCome /\ MadeStays
    BY <2>1 DEF AnswersCome, MadeStays, Made
  <2> QED BY <2>1, <2>2, <2>3, AgentsKeep
<1> QED BY <1>1, <1>2, <1>3, <1>4, <1>5 DEF Next

\* It holds for good.
LEMMA InvariantHolds == Spec => []IInv
BY InitKeeps, NextKeeps, PTL DEF Spec

-----------------------------------------------------------------------------
(* The theorems.                                                            *)

\* However often runs are replayed and reconciled, no run gives a job out
\* twice.  What a replay starts with has no event of its own: the argument is
\* that the walk, which begins behind those jobs, asks for none of them.
THEOREM JobsGoOutOnce == Spec => []FanOutOnce
<1>1. IInv => FanOutOnce
  BY DEF IInv, JobsInv, FanOutOnce
<1> QED BY <1>1, InvariantHolds, PTL

\* A replay's input is for good what its parent put out, and a replay of all
\* of it has a job for each of its items.
THEOREM ReplaysStandOnTheirParents == Spec => []InputsAreTheParents
<1>1. IInv => ChildrenKeepTheirInput
  BY DEF IInv, ParentsInv, ChildrenKeepTheirInput
<1>2. IInv => ReplaysOfAllAskForAll
  <2> SUFFICES ASSUME IInv, NEW r \in Children, NEW n \in Working, Active(r),
                      rows[r].mode \in {"full", "evaluate_only"}, rows[r].selected = {},
                      NEW i \in rows[r].input[n].items
               PROVE  sent[r][<<n, i>>] > 0
    BY DEF ReplaysOfAllAskForAll, Working
  <2>1. AsksForAll(rows[r], n, Given(r))
    BY DEF IInv, RowsInv, RowOK, Active, Exists
  <2> QED BY <2>1 DEF AsksForAll, Given
<1>3. IInv => InputsAreTheParents
  BY <1>1, <1>2 DEF InputsAreTheParents
<1> QED BY <1>3, InvariantHolds, PTL

\* A replay ends when all it asked for has been answered, fetches apart, or
\* goes to a desk on which everything has passed an evaluation of its own, or of
\* its parent if it is for the review alone.
THEOREM ReplaysEndInOrder == Spec => []EndsAreEarned
<1>1. IInv => EndedReplaysAreDrained
  <2> SUFFICES ASSUME IInv, NEW r \in Children, NEW j \in Jobs, ~Active(r), sent[r][j] > 0,
                      rows[r].start # "source_fetch"
               PROVE  answer[r][j] # "none"
    BY DEF EndedReplaysAreDrained
  <2>1. r \in Runs /\ sent[r][j] \in Nat
    BY DEF IInv, TypeOK, Runs
  <2>2. Exists(r) /\ j \in Given(r)
    BY <2>1 DEF IInv, JobsInv, Given
  <2>3. RowOK(r, rows[r], Given(r)) /\ Drained(r, Given(r))
    BY <2>2 DEF IInv, RowsInv
  <2>4. CASE j \in {"source_fetch"} \X Sources
    BY <2>2, <2>3, <2>4 DEF RowOK
  <2>5. CASE j = ScoutJob
    BY <2>2, <2>3, <2>5 DEF Drained
  <2>6. CASE j \in Working \X Item
    BY <2>2, <2>3, <2>6 DEF Drained
  <2> QED BY <2>4, <2>5, <2>6 DEF Jobs, ScoutJob, Working, Item
<1>2. IInv => DesksAreEarned
  BY DEF IInv, RowsInv, DesksAreEarned, Waiting, Passed, Judge
<1>3. IInv => EndsAreEarned
  BY <1>1, <1>2 DEF EndsAreEarned
<1> QED BY <1>3, InvariantHolds, PTL

\* A topic is in writing only if a run has asked for its article, or a replay
\* of evaluations alone has put it there.
THEOREM WritersAreAsked == Spec => []TopicsInWritingHaveWriters
<1>1. IInv => TopicsInWritingHaveWriters
  BY DEF IInv
<1> QED BY <1>1, InvariantHolds, PTL

\* No step touches the row or the jobs of a run that has ended or waits.
THEOREM RunsRestOnceSettled == Spec => SettledRunsRest
<1> DEFINE Rest == \A r \in Runs : (Exists(r) /\ ~Active(r)) =>
                       rows'[r] = rows[r] /\ sent'[r] = sent[r]
<1>1. IInv /\ [Next]_vars => [Rest]_vars
  <2> SUFFICES ASSUME IInv, Next, NEW r \in Runs, Exists(r), ~Active(r)
               PROVE  rows'[r] = rows[r] /\ sent'[r] = sent[r]
    OBVIOUS
  <2>1. DOMAIN rows = Runs /\ sent \in [Runs -> [Jobs -> Nat]] /\ Children \subseteq Runs
    BY DEF IInv, TypeOK, Runs
  <2>2. ASSUME NEW parent \in {q \in Runs : Exists(q)}, NEW child \in {q \in Children : ~Exists(q)},
               NEW from \in Nodes, NEW mode \in Modes,
               NEW selected \in SUBSET ReplaySource(parent, from).items,
               CreateReplay(parent, child, from, mode, selected)
        PROVE  rows'[r] = rows[r] /\ sent'[r] = sent[r]
    <3>1. child # r
      OBVIOUS
    <3>2. PICK q, G :
              /\ NewRun(parent, child, from, q, G)
              /\ rows' = [rows EXCEPT ![child] = q]
              /\ sent' = [sent EXCEPT ![child] = [j \in Jobs |-> IF j \in G THEN 1 ELSE 0]]
              /\ queued' = [queued EXCEPT ![child] = G \cap {ScoutJob}]
              /\ UNCHANGED <<answer, raw, owner, topic, article>>
      BY <2>2, CreateReplayIs, ReplayAssumption
    <3> QED BY <2>1, <3>1, <3>2
  <2>3. ASSUME NEW q \in Children, ReconcileRun(q)
        PROVE  rows'[r] = rows[r] /\ sent'[r] = sent[r]
    <3>1. q # r
      BY <2>3 DEF ReconcileRun, Reconciled
    <3>2. PICK w : /\ Fine(q, w, 6)
                   /\ rows' = [rows EXCEPT ![q] = w.row]
                   /\ sent' = [sent EXCEPT ![q] = [j \in Jobs |->
                          IF j \in w.jobs /\ sent[q][j] = 0 THEN sent[q][j] + 1 ELSE sent[q][j]]]
                   /\ queued' = [queued EXCEPT ![q] =
                          queued[q] \cup {j \in w.jobs : sent[q][j] = 0}]
                   /\ topic' = w.topic /\ article' = w.article
                   /\ UNCHANGED <<answer, raw, owner>>
      BY <2>3, ReconcileRunIs
    <3> QED BY <2>1, <3>1, <3>2
  <2>4. ASSUME NEW q \in Children, Agent(q)
        PROVE  rows' = rows /\ sent' = sent
    BY <2>4 DEF Agent, FetchSource, ScoutTopics, Evaluate, WriteArticle, Fail
  <2>5. ASSUME NEW x \in Articles, NEW to \in ArticleStatus, ReviewArticle(x, to)
        PROVE  rows' = rows /\ sent' = sent
    BY <2>5 DEF ReviewArticle
  <2> QED BY <2>2, <2>3, <2>4, <2>5 DEF Next
<1>2. IInv /\ [Next]_vars => [\A r \in Runs : (Exists(r) /\ ~Active(r)) =>
                                 rows'[r] = rows[r] /\ sent'[r] = sent[r]]_vars
  BY <1>1
<1> QED BY <1>2, InvariantHolds, PTL DEF Spec, SettledRunsRest
==============================================================================
