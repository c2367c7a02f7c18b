# TLA+ specifications of scholar-core

scholar-core runs a content pipeline: it fetches sources, lets agents propose topics, has them
evaluated, written and evaluated again, and puts what passes on a person's desk. It owns every
status in that pipeline. The code is a Go process, or several of them on one Postgres database
(tables and `pgmq` queues), with three loops in each: an HTTP API, a scheduler that ticks every
minute and a harvester that ticks every fifteen seconds. The agents are other programs: they take
jobs off the queues and write result rows and events.

This directory holds the specifications of the part that decides, the TLC configurations that
check them, and proofs about them. All paths below are relative to `src/`.

## The system and its parts

| Part | State | Operations | What makes it correct |
|---|---|---|---|
| Status tables, `internal/pipeline` | two constant tables | `CanTopicTransition`, `CanArticleTransition` | no row changes status outside them |
| Run reconciler, `internal/workflow/runtime.go` | `workflow_runs`, `_node_runs`, `_snapshots`, `_events`, `_artifacts` | creation, one reconciliation per run and tick | each job is given out once; a stage closes only when all its items are answered; snapshots are written once; a run ends, truthfully and for good |
| Replay, `CreateReplay` in the same file | child runs with their `replay_scope` | start a child of a run from a node, for some of its items; reconcile it | a child has its parent's output as input; parents rest; rows shared by several runs keep to the tables |
| Pass over all runs, `ReconcileAll` | two connections of its instance's pool | list the oldest active runs, reconcile each | every active run advances, though the reconciliation of another fails; every pass ends |
| Harvester, `internal/harvester` | `schedule_runs` keys, statuses of topics and articles | seven scans, a transaction for each row found | one job at a time for a row; verdicts are acted on; at most three versions; nothing that a run works on |
| Scheduler, `internal/scheduler` | `schedule_runs`, `source_health.next_run_at` | slots of the content run, due sources, daily times, batch approval, reflection, snapshot retention | each slot once over all instances, and none forgotten; a source is left alone for its interval |
| Queues, `internal/queue` | `pgmq` | `Send` in the caller's transaction | a job exists exactly if its transaction committed |
| Review of topics and articles, `internal/api` | the same rows | approve, reject | a person's decision stands |
| Publications, `article_handlers.go` | `publications`, the article's status | register what was published | a post is registered once; an article is published exactly if one of its posts is registered |
| Article diff, `article_diff.go` | none | edit ratio, line diff | the stored diff and the original give the published text; the ratio is the distance |
| Metrics, `m3_handlers.go` | `metric_snapshots` with their percentiles | import one or many rows, rank their groups | percentiles are the ranks of the rows; concurrent imports are answered |
| Sources, `m1_handlers.go`, `workflow_handlers.go` | `sources` | create, patch, delete, revive, fetch now, feed a URL, start a run | what is fetched was wanted; a feed is never refused |
| Scheduler settings, `m1_handlers.go`, `internal/scheduler` | one row of JSON | seed, read, merge, validate, write | an update changes what it names; nothing invalid is stored |
| Replay requests and workflow versions, `CreateReplay`, `workflow_handlers.go` | `replay_key`, `config_snapshots`, `workflow_versions` | check, inherit, look up versions, hash, insert | the same request has one run; a run is configured by its line of ancestors |
| Memory, insights, dashboard, pipeline overview | single rows | lists, sums, single updates | |
| Event history and stream | `workflow_events` | append, page by sequence, SSE stream | a reader sees every event once and in order |
| Snapshot lifecycle | `workflow_snapshots.archived_at` | archive, restore, retention | what has expired is archived |

They interact through the database only. What makes that hard:

* several instances run the same loops; a lock (the run's row), unique keys (`schedule_runs`) and
  compare-and-sets (`TransitionTopic`, `TransitionArticle`) are all there is between them;
* a reconciliation is one long transaction at READ COMMITTED: other writers commit between its
  statements, and a crash drops all of it;
* the harvester acts on what a scan said earlier;
* people change the same rows at any moment, and a handler of the API is several statements, each
  a transaction of its own unless it opens one: what it read may have changed when it writes;
* locks and unique keys make handlers wait for each other, and for rows in orders nobody has chosen;
* agents fail, answer late, and write a result and its report apart.

`PROJECT.json` lists each such hazard at the line where it bites, with the properties that would
show it.

## Modules

| Module | Models | Extends or uses |
|---|---|---|
| `Pipeline` | the two tables, and what they lead to in several steps | |
| `ContentRun` | one run: creation, the reconciliations of several instances, agents, review | `Pipeline`, `StageLine` |
| `StageLine` | what a run promises a reader of its history (abstract) | |
| `ContentRun_proofs` | theorems about `ContentRun`: jobs, vetoes, stages, gates and ends, and that it is a `StageLine` | `ContentRun` |
| `ReconcileAll` | the pass over many runs, with its limit | |
| `Harvester` | the harvester of several instances beside a run | `ContentRun` |
| `Harvester_proofs` | theorems about `Harvester` | `Harvester`, `ContentRun_proofs` |
| `Replay` | a run that has ended, its replays, and theirs | `Pipeline` |
| `Replay_proofs` | theorems about `Replay` | `Replay` |
| `Scheduler` | the ticks of several schedulers, by the clock | |
| `Scheduler_proofs` | theorems about `Scheduler` | `Scheduler` |
| `EventStream` | writers of events and readers who page, stream and resume | |
| `ArticleDesk` | what the review desk promises, in steps that take no time (abstract) | `Pipeline` |
| `Publications` | the handlers of reviews and publications, statement by statement | `Pipeline`, `ArticleDesk` |
| `Publications_proofs` | theorems about `Publications` | `Publications` |
| `ReplayRequests` | requests for replays, from the check to the answer; the registry of versions | |
| `Metrics` | imports of metrics and the ranking of their groups, with the locks they wait for | |
| `Desk_proofs` | theorems about `ReplayRequests` and `Metrics` | `ReplayRequests`, `Metrics` |
| `ArticleDiff` | the loops of the edit ratio and of the line diff | |
| `Sources` | the sources and the requests that fetch from them | |
| `Sources_proofs` | theorems about `Sources` | `Sources` |
| `SchedulerSettings` | overlapping updates of the settings, and the seed | |
| `Service_proofs` | theorems about `EventStream` and `SchedulerSettings` | `EventStream`, `SchedulerSettings` |
| `MCContentRun`, `MCHarvester`, `MCReplay`, `MCScheduler`, `MCEventStream` | finite instances | |
| `MCDesk` | instances of `Publications`, `Metrics`, `ReplayRequests`, `ArticleDiff` | `Publications` |
| `MCService` | instances of `Sources`, `ReconcileAll`, `EventStream`, `SchedulerSettings` | `Sources` |

`ContentRun`, the harvester's tables and people's decisions interact, so `Harvester` extends
`ContentRun` and takes its actions for steps of its own. The four parts in `MCDesk`, and the four in
`MCService`, have no table in common: a behaviour of those modules is a behaviour of one of them
(`part`, chosen at the start), so that their state spaces add up and are not multiplied, and each
property is about the part it names.

### ContentRun

`run` is the run's row with its node rows, the snapshots they refer to and the review artifacts;
`topic`, `article` are statuses; `verdict`, `quality` are evaluation rows, reduced to passed or
not; `raw` says which sources produced items; `succeeded`, `failed` are the jobs with such an
event; `sent` counts how often each job was put on its queue. An article is known by its topic
and platform: a run asks for one version of each.

`ReconcileRun` holds its transaction open over up to six stages. The specification takes one step
for each stage. `txn[c]` is what instance `c` has written and not committed: the run's rows, jobs
to send, statuses. Between two of its steps anybody else may commit, and the later stage sees
that. `BeginReconcile` takes the row lock; a stage that must wait commits; the last stage commits;
`CrashInReconcile` drops everything. A row written in an open transaction blocks other writers of
that row, as Postgres' row locks do. Each stage action is its `reconcile...` function, early
returns and error paths included. The stages after one that has ended the run are walked too, as
in the code: `CanEnd` is the guard on which the run's status then rests.

The CHECK constraint on `workflow_events.status` is part of the model (`EventStatus`): a stage
that appends a row it refuses is rolled back.

Abstracted: titles, texts, scores (reduced to the pass decision), counts, summaries, decisions
per item, configuration snapshots, and the order of ids in a snapshot. Not in this module: runs
that start at a later node (`Replay`).

### StageLine

A line of stages with an input and an output snapshot each. Snapshots are written once, stages
close in order, a stage's input is exactly the output of the stage before it, and a run that has
ended never changes. `ContentRun` implements it under the mapping at the end of that module
(`LineSpec`): a commit of several stages is one step of the line.

### Harvester

Every tick of an instance makes six scans; `tick[c]` holds the scan it is at and the rows it
found, with the verdict the scan read. A scan with an order and a limit finds the head of what it asks
for (`FirstOf`, by `proposed`, `approvals` and `drafted`), rows that have been sent and wait among them;
the scans whose rows leave them as soon as they are dealt with find any so many (`SomeOf`). Each row
is then dealt with in a transaction of its own.
Between a scan and its transactions other instances, the reconciler, agents and people go on, and
`Crash` forgets the rest. `keys` are the `schedule_runs` rows with which a job is sent once for
all time. `ContentRun`'s actions are steps of this module too (`RunStep`): its topics are the
run's, or, when no run is created, topics of no run. The seventh scan, `transitionWritten`, asks
for no run and is an action of `ContentRun`. Version 1 of an article is the same row in both.

### ReconcileAll

Many runs, each reduced to a number of stages and whether the open one is answered: enough to see
which runs a tick lists and which it never gets to. A reconciliation may fail, by a passing trouble
or, for the runs in `refused`, every time, as a run does whose end the events table refuses
(`stuck`): it is logged, nothing of it stays, and the pass goes on (`ReconcileFails`). `batch[c]` is
what instance `c` has listed and not yet reconciled. The list is read while its runs are reconciled,
so a pass holds one connection of the instance's pool and takes another for every run (`Taken`,
`Conns`), beside the requests (`busy`), which take one each.

### Replay

`rows[r]` is a run's row with its parent, its start node, its scope and the snapshots of its
nodes; `answer[r]` is what has become of each of its jobs, a result together with its report.
The history begins with a run that has ended or waits for a person, in each way it can: `Fate`
says of every topic how far it came, `After` what rows that leaves. Then people ask for replays,
of that run or of replays, from any node and in any mode. `CreateReplay` is the whole request: the
mode and items (`validateReplayScope`), the node's input (`HasReplayInput`, `ReplayRow`), the items
(`replayInputIDs`, from the nearest ancestor with the output), the nodes that are skipped, and the
jobs or the desk a child starts with. `queued[r]` are the jobs a run has an event of: a start leaves one
event with a count and none of its items (only the scout's is found again), so what keeps a
reconciliation from sending them a second time is not the check of the events (`Unqueued`) but that
the walk never comes to ask for them. `Active` children are reconciled: `Walked` goes through the
stages as `ReconcileRun` does, in one step here, and carries the row, the jobs and the statuses
along. `ContentRun` is about what may happen within a reconciliation; here the question is what
several runs do to the same topics and articles.

Abstracted: configuration overrides, which are part of the key, and the key (`ReplayRequests` has them;
here the same request may be made again, as with other overrides in the code); reasons; that a
topic may be for several platforms; answers that come after a failure; the rejection of topics.
Runs that are neither the first one nor its replays, and the harvester, are not there.

### ReplayRequests

`CreateReplay` up to its answer. `phase[h]` is the statement a handler is at: the checks and the
merge with the configuration the parent ran with (`Check`), the look-up of versions
(`CheckRegistry`), the insertion with `on conflict (replay_key) do nothing` (`Insert`), which waits
for an open transaction with the same key (`Holders`), the rest of the transaction and its commit
(`Fill`), the answer (`Reply`). `Fail` may end a handler anywhere; after the commit the run stays.
`registry` only grows. The key is the tuple of what the code hashes. What the child then does
is `Replay`'s matter.

### Publications and ArticleDesk

`CreatePublication` locks the article's row, inserts the post and moves the article, in one
transaction; a review reads the article and then updates it from the status it read. In
`Publications` every statement is a step, `Locks` and `HoldsPost` say which rows and keys a
transaction holds, and a handler may be cut off anywhere. `ArticleDesk` has no handlers: its steps
are judgements, decisions and publications. `Publications` implements it (`ImplementsDesk`): what
the desk shows is what it would show if requests came one after another.

### Metrics

An import inserts its rows, in the order they came, then ranks each group (platform and window)
they belong to, in any order, as the code ranges over a map, and commits. A ranking computes from the rows
that are committed and its own (`Ranks`), then writes the percentiles, for which it waits for other
transactions that have written the same rows. Two imports may wait for each other in a ring;
Postgres then ends one (`40P01`) and its import is answered with an error. Days pass (`PassDay`): the
ranking takes the rows of the last 90 days (`Kept`) as of the time the transaction began (`began`), and
a row that ages out of it keeps its percentile, as the others do, until the group's next import.
Three variables are of the history only: `late[h]`, the groups import `h` had ranked when another of the
same group committed; `stale`, those whose last import was such a one; `rankedAt`, when the last
import of each group began.

### ArticleDiff

Both loops run over the same pair of documents: `FillRow` fills a row of the Levenshtein table,
the walk of the line diff keeps, removes or adds a line. The properties compare them with all
alignments of the two texts.

### Sources

`sources` is the table, `archived` is deletion; names are unique, those of deleted sources
included. `phase[h]` and `ask[h]` are a request's; `read[h]` is what it has read and still sends
fetches for. `lately[h]` records which sources were live at some moment of the request, and a job
keeps whether its source was.

### SchedulerSettings

`stored` is the one row, or none. A request reads it, puts the sections of its patch in their
places, validates the whole and writes it back. A read that fails is not told from no row, so that
the defaults take its place (`UpdateSchedulerSettings`). `fresh[h]` records whether anybody wrote since
handler `h` read.

### Scheduler

The clock counts minutes and is shared by instances and database; it may pass between any two steps
(`PassMinute`), unless `Punctual` asks every instance to end a tick in every minute. A tick goes
through the code's steps; `tick[i].at` is the one it is at. A step that reads and then opens a
transaction is two steps of the specification, with what was read in `tick[i]`: so a fetch has the
list (`ReadDueSources`), the clock (`ReadFetchClock`, `scheduler.go:404`) and the commit
(`EnqueueSourceFetch`) in steps of their own, and `asOf` may be old when `next_run_at` is set from
it. `keys` are the rows of `schedule_runs`, unique in key and planned time; `skipped` are those that
were recorded with a note and no job, `sent` counts the jobs. A step may fail and leave the tick to
go on with the next, one fetch of many may fail, and a tick may end at any point (`MaxFailures` in
all). `SettingsChange` says whether a person may change the settings during the run. Snapshot
retention is the tick's last step; `archived` and `restored` are also changed by people.

Abstracted: scores and the order by them (any topics of a batch's size may be read), payloads,
which raw items there are (only whether they suffice), weekdays (a time of `ReflectTimes`), hours
(intervals are in minutes). Sources are neither added nor archived.

### EventStream

`last` is the identity column's last value: an event has its sequence from its insertion
(`AppendEvent`) and is seen from its transaction's commit (`Commit`). A reader has `got` some
events. It asks for a page after the last of them, or streams: the server's cursor `after` moves
when it writes to the connection, `wire` is what is written and not received, and is lost with the
connection.

## Runs

| Run | Instance | Checks |
|---|---|---|
| `funnel` | `ContentRun`: 2 instances, 2 sources, 3 topics for 0, 1 and 2 platforms | types; no job twice; barriers (`StagesAreWhole`); gates (`GatesHold`); a rejection stands; a run that ends with nothing says why, truthfully; a run that has ended rests; refinement of `StageLine` |
| `settles` | `ContentRun`: 1 instance, 2 sources, 1 topic, jobs that may succeed after a failure, fairness | a run ends or comes to a person, unless an article's evaluation fails for good |
| `stuck` | `ContentRun`: 1 instance, 1 topic, fairness | violated: with a failed article evaluation the run never ends |
| `runs_starve` | `ReconcileAll`: 1 instance, 3 runs, lists of 2, fairness | violated: waiting runs fill the list |
| `takeover` | `Harvester`: 2 instances, 1 topic, 3 versions | one job at a time, versions in line, desk earned |
| `harvest_live` | `Harvester`: 1 instance, 3 topics for 0, 1 and 2 platforms, 2 versions, lists of 1 topic and 1 article, fairness | candidates and approved topics are sent while the scans have room, and so are drafts; verdicts are acted on |
| `daily` | `Scheduler`: 2 punctual instances, both modes, 3 minutes, 1 failure | slots and their jobs, schedules kept, batches, intervals, decisions |
| `fetches` | `Scheduler`: 2 instances at any pace, 1 source, an interval of 4 in 6 minutes, 2 snapshots, fairness | the fetches of a source in its interval are bounded; the expired are archived |
| `events_lost` | `EventStream`: 2 writers, 1 reader, pages of 2, no loss | violated: an event that commits late is never seen |
| `replays` | `Replay`: a run with 1 source and 1 topic in each of 6 fates, 2 replays, all nodes, with and without items named | no job twice; inputs are the parents'; ends and desks are earned; writers; ended runs rest |
| `desk` | `Publications`: 2 handlers, 2 articles, 2 posts, 4 requests. `Metrics`: 2 handlers, 3 imports of at most 2 rows, 4 publications on 2 platforms, 2 days with rows that age on the second. `ReplayRequests`: 2 handlers, 3 requests with 5 choices of overrides. `ArticleDiff`: all pairs of texts of at most 3 symbols. Fairness of the handlers | publishers wait their turn and the handlers implement `ArticleDesk`; percentiles follow the rows; one run for a request, configured by its line; diffs and ratios are right; every request is answered |
| `service` | `ReconcileAll`: 1 instance, 3 runs that may be refused, lists of 2, a pool of 2. `EventStream`: 2 writers, 1 reader, 4 events, pages of 2, 1 lost connection. `Sources`: 2 handlers, 2 names, 3 requests. `SchedulerSettings`: 2 handlers, 6 patches, 4 requests. Fairness of passes and readers | runs advance while the list has room; passes end; events come once, in order and unless overtaken; fetches were wanted; feeds are accepted; updates change what they name |

Bounds. Two instances show every race, since the row lock, a key or a compare-and-set is between
two; so it is with two handlers, and two imports are enough for a ring of waits. Two sources tell "one has
failed" from "all have". Topics for no, one and two platforms make the fan-out's three cases. Three
versions are the code's limit; two, where the run is about something else. `topicLimit`,
`maxReconcileRuns`, `BatchSize`, `MaxTopics`, `PageSize` and `Conns` stand for numbers between 2 and
500: what they cause depends on being reached, not on their size. Topics are proposed one at a time
and may go on being proposed after the scout's stage has closed only if jobs succeed after a failure
(`RetriesAfterFailure`). A day has three minutes (`Day`), so that one of its times comes round, and
an interval two; a clock of four minutes sees a slot begin, end and the next begin. `fetches` has an
interval of four, so that lists and clocks of two instances grow old within it: three fetches, the bound,
are reached. The pass of `service` is one instance's: instances have only the runs' rows in common, and
what two do to one row is `ContentRun`'s matter. The mode
`selected_items` is not asked for in `replays`: it differs from `full` with items named in nothing
but its name. Two replays make a replay of a replay and two replays of one run, both at work on the
same topic. Three requests (`MaxRequests`) are two that overlap and one that finds what they left;
four, where one must read before and write after two others. The batches of `desk` are those whose
rows meet: two groups in either order, one window twice, one moment twice, and rows that are refused. Texts
of three symbols have every case of both loops and every pair of neighbouring cases. Each entity of a
model is created at most once, requests and the clock end, so every behaviour comes to rest, and
deadlock is not checked.

Fairness. `ContentRun`'s `FairSpec` asks that every delivered job is answered, with success or
failure, and that every instance goes on ticking: the loop in `harvester.Run` ends with its process
only, and the process is restarted. Crashes may interrupt any reconciliation but not every one at
the same stage (strong fairness of the stages). `HFairSpec` is about what a living process gets
done: it has no crashes, weak fairness of each instance's tick and of the agents' work. `MCFairSpec`
is that with a bound on which topics are proposed together (`FewTopics`). `MCService` is fair to the
answers of stages and to the end of requests (a handler returns its connection), and strongly fair
to the list and the runs of a pass, which compete with requests for connections that pgxpool gives
out in turn; reconciliations of a run may fail as often as they like, but not every one, unless the
run is refused. It is fair to a reader that reconnects and to a connection that delivers;
transactions need not end. `Scheduler` is fair to the ticks of each instance (`scheduler.Run` is a
loop, too). `MCDesk` is fair to each handler: the server goes on with a request it has taken, and
Postgres gives a lock to whoever waits for it. Sources and settings need no fairness. Nothing is
assumed of people.

## Where the code does not do what it says

* `stuck`: `finishReviewStage` (`internal/workflow/runtime.go:1319`) appends an event with the
  status `partial_failed`. The events table refuses it, so every reconciliation of a run with a
  failed article evaluation is rolled back, for ever. `settles` has the condition under which runs
  do end.
* `runs_starve`: `ReconcileAll` lists the 100 oldest active runs, those that wait for a person
  included, and it leaves those as they are. `EveryRunAdvancesWhileTheListHasRoom` has the condition: the
  runs of `stuck` fill the list, too.
* `events_lost`: a reader's cursor may pass a sequence whose transaction is still open.
  `EventsArriveUnlessOvertaken` has the condition.

Others show as the conditions of properties that hold, each of which fails without it:

* `GatesHold` (`WritersGetTopicsInWriting`): `reconcileTopicEvaluate` goes by the evaluation, not by whether the
  status changed, and sends write jobs for a topic a person has rejected in the meantime.
* `TopicsAreSentWhileTheScansHaveRoom`: `PendingCandidates` returns the 50 oldest candidates,
  those already sent included; when the evaluations of 50 were lost, newer ones are never sent.
  `PendingApprovedTopics` has the same head: a topic for no platform is an error at every tick and
  stays approved. `VerdictsAreActedOn` has the same condition for the 100 oldest drafts.
* `DeskIsEarned`: where a job may succeed after it has failed (`RetriesAfterFailure`), a run ends
  without an article whose writer failed first and answers afterwards, but has its evaluation sent;
  the harvester puts the article on the desk, and the run's evaluation, when it comes, changes what
  was shown of it.
* `FetchesPerInterval`: `next_run_at` keeps a source from being fetched twice in its interval by one
  instance. Of two, the one with the older list fetches it again in another minute; and one that read
  its clock and then stalled commits an old `next_run_at`, so that both are due once more.
* `SchedulesAreKept`: a daily time is served in its minute or not at all that day.
* `InputsAreTheParents` (`ReplaysOfAllAskForAll`): a replay of selected or failed items has jobs for those, but its node's
  input is all of the parent's output, so that the barrier waits for items nobody was asked for.
* `EndsAreEarned` (`EndedReplaysAreDrained`): a replay from `source_fetch` has no `sourceCount` and waits for nothing;
  it ends empty if it is reconciled before the first items arrive.
* `TopicsInWritingHaveWriters`: a replay of topic evaluations only (`evaluate_only`) moves accepted
  topics into writing and ends before any writer is asked.
* `FreshWritesKeepTheRest`: the settings are read, merged and written without a lock, so of two
  updates at once one loses its sections, although `internal/api/api.gen.go:662` asks clients to send
  only the groups they change; and when the read fails, `m1_handlers.go:347` merges into the defaults
  and writes those over everything else.
* `RanksFollowTheRows`: of two overlapping imports neither sees the other's rows, and the ranks of
  their group are wrong until the next import; nor does a ranking follow the rows as they age.
* `FeedsAreAccepted`: a deleted RSS source that was named "Manual Feed" is brought back by the next
  feed, and the URL goes to it.

Seen while modelling, without a property of its own:

* a time like `8:00x` passes `validateSettings`, which uses `Sscanf` and the length, though the
  comment at `m1_handlers.go:403` rules invalid settings out; the model keeps what `Sscanf` reads
  and the length;
* a `PATCH` changes deleted sources as well and does not look at the URL; a name that collides is
  answered with 500 by a patch and with 409 by a creation, also when the name is a deleted source's;
* when an import is committed and its answer cannot be read back (`m3_handlers.go:217`), the client
  is told of an error, tries again and is refused by the unique moment of the row.

## Proofs

`ContentRun_proofs` proves, for any finite set of sources and any sets of instances, topics and
platforms (`ConstantsAssumption` is all that is assumed):

| Theorem | Statement |
|---|---|
| `TypeCorrect` | `Spec => []TypeOK` |
| `NoJobTwice` | `Spec => []FanOutOnce` |
| `VetoStands` | `Spec => []VetoIsFinal` |
| `SettledRunsRest` | `Spec => SettledRunFrozen` |

They follow from one inductive invariant, `Inv`, in four parts. `TypeOK`. `LockInv`: at most one
transaction is open, it is open only while the run is active, and an idle instance holds nothing.
`SendInv`: no job of an open transaction has been sent before, and nothing is sent before the run
exists. `VetoInv`: no open transaction has written a topic that a person rejected. None of the
three last properties is inductive without the others: that a commit sends a job for the first
time needs that nobody else could have sent it since the stage looked, which is the row lock's
doing. Each stage is first shown to be one of three kinds of step (`StageStep`: it goes on, with
the jobs not yet queued and rows of topics it did not see rejected; it commits; it rolls back),
and the invariant is shown for these kinds, for the agents and for the outside.

The second half of the module goes on from there, under the same assumption:

| Theorem | Statement |
|---|---|
| `RunIsALineOfStages` | `Spec => LineSpec`: a run implements `StageLine` |
| `GatesStand` | `Spec => []GatesHold` |
| `StagesStayWhole` | `Spec => []StagesAreWhole` |
| `EmptyEndsSayWhy` | `Spec => EmptyEndsAreTrue` |

Each is said of what is committed, while the work is done in a transaction that walks over up to six
stages beside agents and people, so every invariant has two halves: what holds of the committed
rows, and what holds of an open transaction at the stage it has come to, with its own rows over the
committed ones. `LineInv`: the snapshots are in line, and those of a transaction extend the committed
ones; a commit, which may carry several stages at once, is then closings of `StageLine`, and a
crash is none. `ResultsInv`: no result without its job. `GateInv`: a topic is in writing exactly if
its writers have their jobs, a veto apart, and `DeskInv`: the run waits exactly if there is
something on the desk, all of which has passed. `BarrierInv`: a stage that is closed has all its jobs
answered and has put out what they made, and a transaction goes on with something to work from, or
has ended with a reason that is true, or has come to a person. Where a failed job may be answered
again (`RetriesAfterFailure`) `BarrierInv` does not hold, and the last two properties leave those runs
out. TLC checked the invariants on `funnel`'s instance before they were proved.

`Harvester_proofs` proves, for any instances, sources, topics, platforms, number of versions and size
of the lists (`ConstantsAssumption`, `HarvesterAssumption`):

| Theorem | Statement |
|---|---|
| `OneAtATime` | `HSpec => []OneJobAtATime` |
| `VersionsInLine` | `HSpec => []RewritesInLine` |
| `DeskEarned` | `HSpec => []DeskIsEarned` |

Here two programs write the same rows, and what keeps them apart is no lock but an order in time:
the harvester finds nothing of a run's while the run is active, and the run writes nothing any more
once it has ended. The invariant, `HInv`, says so. `HandedOver` is that the run is over, or that
none is created and topics have been proposed without one. Until then the harvester is `Untouched`
and the invariants of `ContentRun_proofs` hold (`RunInv`), so that the whole first half of the proof
is those lemmas. The step at which a run ends is the hand-over: what it leaves (`LeftBehind`) has to
be what the harvester can go on from, which is where `GateInv`, `BarrierInv` and the consistency of
the tables (`TablesInv`, `StatusInv`) are needed. From then on the run rests, and each of the
harvester's steps, with agents, people and crashes beside it, is shown to preserve `WorkInv`: a
version has its job or its row in an order (`InSequence`), a first version has been asked for by the
run or by the harvester and not by both (`FirstVersion`), and a topic on a list of approved ones,
however old the list, is approved still or has all its writers asked (`Approved`). `JudgeInv` is
about evaluations, and holds after a run that has answers to all its jobs; where failed jobs may
still succeed (`RetriesAfterFailure`) there is no such moment, and `DeskIsEarned` leaves those runs
out. TLC had refuted it there before the proof was tried, and agreed with `HInv` on `takeover`'s
instance, with such answers and without.

`Scheduler_proofs` proves, for any instances, sources, times, intervals and bounds, and finite sets
of topics and snapshots (`SchedulerAssumption`):

| Theorem | Statement |
|---|---|
| `TypeCorrect` | `Spec => []TypeOK` |
| `SlotsAreKept` | `Spec => []SlotsHaveTheirJobs` |
| `BatchesKeepTheLimit` | `Spec => []BatchesAreBounded` |
| `PunctualOrLoneTicksKeepIntervals` | for one instance, or ticks that end in the minute they began in, `Spec => []FetchesKeepTheirInterval` |
| `FetchesAreBounded` | `Spec => []FetchesPerInterval` |
| `DecisionsAreKept` | `Spec => DecisionsStand` |
| `SchedulesAreMet` | if ticks are punctual, settings stay and fewer ticks fail than there are instances, `Spec => []SchedulesAreKept` |

The invariant is `IInv`: the types; `LocalInv`, that what an instance holds in the middle of a tick
fits the step it is at (an interval that is configured, a batch within the limit); the slots and
their jobs; and `BatchInv`, that a topic's batch has its slot and no minute has more than `MaxTopics`. A
second approval for the same minute is what the recorded slot rules out, so the batches need the
ledger. `FetchInv` adds that `next_run_at` is behind the window of every fetch, and that a source
on an instance's list, due when it was read, still is: of one instance because nobody else moves
`next_run_at`, of punctual ones because a source fetched in this minute has its slot. In general a
list may be old, and so may the minute an instance has read for its transaction. `WindowInv` counts, for
each stretch of an interval, the instances that hold no minute from before it (`Young`) and those of
them that may yet fetch within it before `next_run_at` is put back (`Claimants`: those with an old
list, or all, while the source is due). A fetch within the stretch moves `next_run_at` behind it and
uses up its claimant; a commit with a minute from before puts it back, makes its instance young,
and the claims begin anew. With `k` young instances at most `k + (k-1) + ... + 1` fetches have been
made or may be, hence `n(n+1)/2` for `n`. TLC reaches the bound for two.

`SchedulesAreMet` has the three hypotheses because the code needs them: a daily time is served by a
tick in that very minute or not at all. `KeptInv` counts: each instance that is past this minute's
slot without a record has cost a failure, so if fewer may fail than there are instances, the clock
does not go on before one has recorded it. `daily` is an instance of the three (two schedulers, one
failure), and TLC checked `KeptInv` and `WindowInv` on it and on `fetches` as far as they apply.

`Replay_proofs` proves, for any replays of replays, any finite set of sources, any topics, nodes and
modes that are asked for (`ReplayAssumption`):

| Theorem | Statement |
|---|---|
| `JobsGoOutOnce` | `Spec => []FanOutOnce` |
| `ReplaysStandOnTheirParents` | `Spec => []InputsAreTheParents` |
| `ReplaysEndInOrder` | `Spec => []EndsAreEarned` |
| `WritersAreAsked` | `Spec => []TopicsInWritingHaveWriters` |
| `RunsRestOnceSettled` | `Spec => SettledRunsRest` |

A replay has no barrier of its own kind: its row says what it began with, the queue what it has
asked for, the results what has come, and the three are kept together only by the walk over the
stages. The invariant, `IInv`, is that they go together. `RowOK` relates a run's row to the jobs it
has given out: a job is for an item of its node's input, a closed node is answered and has put
out what its results say, and so on. `JobsInv` says that no job is given out twice and that only those
a replay starts with may lack their event: what a reconciliation asks for is of a later node, of
which none has been given out without. `RowsInv` adds that a run which goes on has its next node at
work (`Proceeding`) and one which does not has nothing unanswered (`Drained`); `ParentsInv`, that a
parent's output is there and stays. A reconciliation is one step of up to six stages, so the proof
follows it stage by stage: `Fine(r, w, k)` says of a walk that has come to node `k` that row and jobs
still go together and that it goes on, waits, has ended or is on a desk (`Going`, `Stopped`, `Ended`,
`AtDesk`); there is a lemma for each stage, and `WalkEnds` puts them together. TLC checked `IInv`
and, for every run that can be reconciled, `Fine` at its end on `replays` and on an instance with
two topics and one replay.

`Publications_proofs` proves, for any articles, posts, platforms and handlers
(`PublicationsAssumption`):

| Theorem | Statement |
|---|---|
| `LocksAndKeys` | the inductive invariant |
| `PublishersInTurn` | `Spec => []PublishersWaitTheirTurn` |
| `HandlersImplementTheDesk` | `Spec => ImplementsDesk` |
| `PublishedIsRegistered` | an article is published exactly if a post of it is registered, no post twice |

The invariant says of each phase what the handler knows: whoever holds an article's lock has read
the status that is still there, an open insertion has a key that no committed row and no other open
insertion has. With it every statement maps to a step of the desk or to none; the last theorem is
proved of the desk, and holds of the handlers because they implement it.

`Desk_proofs` is about two of the parts of `desk`. Of `ReplayRequests`, without assumptions on the
constants, it proves `KeysAndRuns` (the invariant), `SameRequestSameRun` (`Spec =>
[]OneRunPerRequest`) and `LinesAreFollowed` (`Spec => []ConfigsFollowTheLine`). The invariant: every
run has the key of its row, and no two the same; a handler past its check has merged what its
parent's configuration makes of the request, and that cannot change, since runs are never changed;
an open transaction's key is nobody else's. That the answer fits the request needs all three.
`ConfigsFollowTheLine` goes back through any number of generations by a recursive equation, and
what such an equation defines cannot be had by induction over runs. The induction is along the
commits: `LineInv` says that every run has what its parent's and its own overrides make
(`LineHolds`), and that the equation has no other solution than that (`OneSolution`), which a new
run preserves because its parent was there before it.

Of `Metrics` it proves `RanksAreKept` (`Imports!Spec => []Imports!RanksFollowTheRows`). `ImportInv`
says of an import halfway through its groups what it has ranked: rows it sees that were recent when it
began, each with its rank among those (`RankedHolds`), and of the group it is about to write that it has
all that was ranked before (`RankingHolds`), however many imports have committed since. At the
commit a group is ranked as a whole, as of the time the import began (`rankedAt`), or is stale because
one of those has brought rows that were not seen. What is recent later on does not matter to it:
`rankedAt` is the time the ranks are of, and only an import moves it.

`Service_proofs` is about two of the parts of `service`. Of `EventStream` it proves, for pages of any
size, `ReadersSeeEventsInOrder` (`Spec => []InOrderAndOnce`): what a reader has and what is on its
wire are one line of committed events in order (`LineFits`), the cursor of its stream is at or
behind the end of that line, and a page or a stream begins after what is had. That a page can be
listed in order at all is an invariant, too (`Listable`), inductive in the sequences that are handed
out. Of `SchedulerSettings`: `SavesAreSound` (a handler about to write holds validated settings that, if
nobody wrote since its read, differ from the stored ones in its patch only), from which
`FreshWritesAreLocal` (`Spec => FreshWritesKeepTheRest`) and `NothingInvalidIsStored` (what comes
to be stored is the seed or valid) follow.

`Sources_proofs`: `FetchesWereWanted` (`Spec => []JobsWereWanted`), because what a handler has read
was live at some moment since it came; and `FeedsAreServed` (`Spec => FeedsAreAccepted`), because the
upsert of the manual source has no outcome but a source, and nothing else takes `archived` back.

The properties `desk` and `service` check are those of the component modules, for the part a
behaviour has chosen; the theorems are about the modules themselves.

Only model-checked: `EditsAreRecorded` of `ArticleDiff`, which is about what recursive definitions
compute of any two texts; `ReconcileAll`, all of whose properties are liveness; the consistency of
the status tables; and all other liveness (fairness and `ENABLED` are out of the prover's reach).

## Not modelled

* A child run beside the harvester. The scans compare a topic's correlation id, which is its first
  run's (`queries/pipeline.sql:9`), so that both may work on the same topic. The state space of
  `Replay` and `Harvester` together is past what can be explored.
* That a source which fails, is retried and succeeds is counted twice at the barrier
  (`runtime.go:1452`): `settles` has the behaviour (`RetriesAfterFailure`), but what the snapshot
  then misses is not stated.
* Replays of topics for several platforms: `replays` is near what can be checked in minutes.
* Memory, insights, dashboard, pipeline overview: lists and sums for display, and single statements
  whose result nothing else reads.
* `syncWorkflowArtifacts` (a display index), `finishWorkflowRuns` and `autoApproveCascadeTopic` (they
  act only on runs that the code around them no longer lets exist).
* The HTTP server, telemetry, configuration and pool set-up; routing and parsing in `api.gen.go`. Of
  the generated code the statements, rows and enumerations that the models use are mapped.
* `pgmq`: a job is on its queue from the commit of its transaction on; visibility timeouts are part
  of the agents, who may answer late, twice or never.
