------------------------------- MODULE Scheduler -------------------------------
(***************************************************************************)
(* The scheduler of several instances (internal/scheduler/scheduler.go).   *)
(* Every instance ticks about once a minute and decides by the clock and   *)
(* the database what is due: a content run for each slot of the configured *)
(* interval, or, when the content workflow is switched off, the fetches of *)
(* due sources, the scouting of topics and the writing of scored topics at *)
(* fixed times of the day.  The row (schedule_key, planned_at), unique in  *)
(* schedule_runs, is what instances agree by.                              *)
(*                                                                         *)
(* Time is the minute of the clock, which all instances and the database   *)
(* share.  It may pass between any two steps of a tick.                    *)
(***************************************************************************)
EXTENDS Integers, FiniteSets

CONSTANTS
    Instances,
    Sources,
    Topics,
    Snapshots,
    CreatedAt,         \* [Snapshots -> Nat]: the minute of created_at
    FetchMinutes,      \* [Sources -> Nat]: intervalMinutes of fetch_config, 0 if absent
    DefaultInterval,   \* sourceFetch.defaultIntervalMinutes
    LeastInterval,     \* 5 in the code
    MostInterval,      \* 10080 in the code
    Day,               \* minutes of a day
    ScoutTimes,        \* topicScout.times, as minutes of the day
    WriteTimes,        \* articleWrite.times
    ReflectTimes,      \* memoryReflect's weekday and time
    MaxTopics,         \* articleWrite.maxTopics
    ContentIntervals,  \* the values contentWorkflow.intervalHours is given, in minutes
    ContentModes,      \* the values contentWorkflow.enabled is given
    RetentionMinutes,  \* workflowSnapshots.retentionHours
    BatchSize,         \* workflowSnapshots.batchSize
    MaxMinute,         \* bound of the clock
    MaxFailures,       \* bound on ticks, or steps of one, that fail
    Punctual,          \* whether every instance ends a tick in every minute
    SettingsChange     \* whether the settings change while the scheduler runs

Minutes == 0..MaxMinute

ASSUME SchedulerAssumption ==
    /\ FetchMinutes \in [Sources -> Nat]
    /\ CreatedAt \in [Snapshots -> Nat]
    /\ IsFiniteSet(Instances) /\ IsFiniteSet(Topics) /\ IsFiniteSet(Snapshots)
    /\ {DefaultInterval, LeastInterval, MostInterval, Day} \subseteq Nat \ {0}
    /\ ContentIntervals \subseteq Nat \ {0} /\ ContentIntervals # {}
    /\ ContentModes \subseteq BOOLEAN /\ ContentModes # {}
    /\ {MaxTopics, RetentionMinutes, BatchSize, MaxMinute, MaxFailures} \subseteq Nat
    /\ ScoutTimes \cup WriteTimes \cup ReflectTimes \subseteq Nat
    /\ {Punctual, SettingsChange} \subseteq BOOLEAN

VARIABLES
    now,
    settings,    \* the row of scheduler_settings, as far as it changes here
    keys,        \* schedule_runs: pairs of a key and the minute planned
    skipped,     \* those of them that were recorded without a job
    sent,        \* how many jobs, or runs, were made for a pair
    nextRun,     \* source_health.next_run_at
    enough,      \* whether there are minNewItems new raw items
    topic,       \* topics.status
    batchOf,     \* the minute whose batch approved a topic, or Nobody
    archived,    \* snapshots with archived_at
    restored,    \* snapshots a person has restored
    tick,        \* where each instance is in its tick
    failures

vars == <<now, settings, keys, skipped, sent, nextRun, enough, topic, batchOf,
          archived, restored, tick, failures>>

Nobody == -1

Stages == {"idle", "slot", "claim", "due", "fetch", "send", "scout", "count",
           "write", "batch", "reflect", "remember", "retain"}

Fetch(s) == <<"source_fetch", s>>
Content == <<"content_production_workflow">>
Scout == <<"topic_scout">>
Write == <<"article_write_batch">>
Reflect == <<"memory_reflect">>

ScheduleKeys == {Fetch(s) : s \in Sources} \cup {Content, Scout, Write, Reflect}

\* done says that a tick has ended in this minute; the rest is local to a tick.
\* asOf is the minute a step has read from the clock.
Resting == [at |-> "idle", interval |-> 0, asOf |-> 0, due |-> {}, source |-> Nobody,
            skip |-> FALSE, rows |-> {}, done |-> FALSE]

Init ==
    /\ now = 0
    /\ settings \in [contentWorkflow : ContentModes, interval : ContentIntervals]
    /\ keys = {} /\ skipped = {}
    /\ sent = [k \in ScheduleKeys \X Minutes |-> 0]
    /\ nextRun = [s \in Sources |-> 0]
    /\ enough \in BOOLEAN
    /\ topic = [t \in Topics |-> "evaluating"]
    /\ batchOf = [t \in Topics |-> Nobody]
    /\ archived = {} /\ restored = {}
    /\ tick = [i \in Instances |-> Resting]
    /\ failures = 0

------------------------------------------------------------------------------
\* Recording a slot.

\* Mutant: on conflict do update.
UnclaimedAlways(key, planned) == TRUE

\* RecordScheduleRun: a conflict means that someone has been here.
Unclaimed(key, planned) == <<key, planned>> \notin keys

\* The key is recorded and its job sent in one transaction.
ClaimAndSend(key, planned) ==
    /\ keys' = keys \cup {<<key, planned>>}
    /\ sent' = [sent EXCEPT ![<<key, planned>>] = @ + 1]
    /\ UNCHANGED skipped

\* Mutant of ClaimAndSkip: a skip is not recorded.
SkipUnrecorded(key, planned) == UNCHANGED <<keys, skipped, sent>>

\* The key is recorded with a note and no job.
ClaimAndSkip(key, planned) ==
    /\ keys' = keys \cup {<<key, planned>>}
    /\ skipped' = skipped \cup {<<key, planned>>}
    /\ UNCHANGED sent

Unscheduled == UNCHANGED <<keys, skipped, sent>>

OncePerKey(key, planned) ==
    IF Unclaimed(key, planned) THEN ClaimAndSend(key, planned) ELSE Unscheduled

\* Truncate: the beginning of the slot that a minute lies in.
SlotOf(minute, interval) == minute - (minute % interval)

\* containsTime: whether a minute is one of the times of the day.
IsTime(minute, times) == minute % Day \in times

GoTo(i, stage) == tick' = [tick EXCEPT ![i].at = stage]
GoWith(i, stage, field, value) ==
    tick' = [tick EXCEPT ![i] = [@ EXCEPT !.at = stage, !.asOf = now, ![field] = value]]

------------------------------------------------------------------------------
\* A tick of instance i.

\* Tick: the settings are read once.
BeginTick(i) ==
    /\ tick[i].at = "idle"
    /\ tick' = [tick EXCEPT ![i].at = IF settings.contentWorkflow THEN "slot" ELSE "due",
                            ![i].interval = settings.interval]
    /\ UNCHANGED <<now, settings, keys, skipped, sent, nextRun, enough, topic,
                   batchOf, archived, restored, failures>>

\* tickContentWorkflow: the slot is that of the clock now ...
ReadSlot(i) ==
    /\ tick[i].at = "slot"
    /\ tick' = [tick EXCEPT ![i].at = "claim", ![i].asOf = SlotOf(now, tick[i].interval)]
    /\ UNCHANGED <<now, settings, keys, skipped, sent, nextRun, enough, topic,
                   batchOf, archived, restored, failures>>

\* ... and CreateScheduledContentRun records it and creates the run.
CreateScheduledContentRun(i) ==
    /\ tick[i].at = "claim"
    /\ OncePerKey(Content, tick[i].asOf)
    /\ GoTo(i, "reflect")
    /\ UNCHANGED <<now, settings, nextRun, enough, topic, batchOf, archived,
                   restored, failures>>

\* Mutants: the health of a source is not looked at; a minute is allowed for.
EverySource(s) == TRUE
DueSoon(s) == nextRun[s] <= now + 1

\* Never scheduled, or its time has come.
Due(s) == nextRun[s] <= now

\* DueSources, read outside of the transactions that follow.
ReadDueSources(i) ==
    /\ tick[i].at = "due"
    /\ tick' = [tick EXCEPT ![i] = [@ EXCEPT !.at = "fetch", !.due = {s \in Sources : Due(s)}]]
    /\ UNCHANGED <<now, settings, keys, skipped, sent, nextRun, enough, topic,
                   batchOf, archived, restored, failures>>

\* sourceInterval: a value out of bounds counts as none.
SourceInterval(s) ==
    IF FetchMinutes[s] \in LeastInterval..MostInterval
    THEN FetchMinutes[s] ELSE DefaultInterval

\* The loop goes on with the rest of the list.
NextSource(i) ==
    tick' = [tick EXCEPT ![i] = [@ EXCEPT !.at = "fetch", !.asOf = 0, !.source = Nobody]]

\* enqueueSourceFetch reads the clock before its transaction begins ...
ReadFetchClock(i, s) ==
    /\ tick[i].at = "fetch" /\ s \in tick[i].due
    /\ tick' = [tick EXCEPT ![i].at = "send", ![i].asOf = now,
                            ![i].source = s, ![i].due = @ \ {s}]
    /\ UNCHANGED <<now, settings, keys, skipped, sent, nextRun, enough, topic,
                   batchOf, archived, restored, failures>>

\* ... which has that minute for its key, and counts the interval from it.
EnqueueSourceFetch(i) ==
    LET s == tick[i].source
        planned == tick[i].asOf
    IN  /\ tick[i].at = "send"
        /\ OncePerKey(Fetch(s), planned)
        /\ nextRun' = IF Unclaimed(Fetch(s), planned)
                      THEN [nextRun EXCEPT ![s] = planned + SourceInterval(s)]
                      ELSE nextRun
        /\ NextSource(i)
        /\ UNCHANGED <<now, settings, enough, topic, batchOf, archived, restored,
                       failures>>

\* tickTopicScout: a tick in any other minute passes by; the new items are
\* counted outside of the transaction.
CountNewItems(i) ==
    /\ \/ tick[i].at = "fetch" /\ tick[i].due = {}
       \/ tick[i].at = "scout"
    /\ IF IsTime(now, ScoutTimes)
       THEN GoWith(i, "count", "skip", ~enough)
       ELSE GoTo(i, "write")
    /\ UNCHANGED <<now, settings, keys, skipped, sent, nextRun, enough, topic,
                   batchOf, archived, restored, failures>>

EnqueueTopicScout(i) ==
    /\ tick[i].at = "count"
    /\ IF tick[i].skip /\ Unclaimed(Scout, tick[i].asOf)
       THEN ClaimAndSkip(Scout, tick[i].asOf)
       ELSE OncePerKey(Scout, tick[i].asOf)
    /\ GoTo(i, "write")
    /\ UNCHANGED <<now, settings, nextRun, enough, topic, batchOf, archived,
                   restored, failures>>

\* Mutant: no limit.
AllRows(limit, rows) == {rows}

\* What a query with a limit may return of a set of rows.
UpTo(limit, rows) ==
    {batch \in SUBSET rows :
        /\ Cardinality(batch) <= limit
        /\ batch # rows => Cardinality(batch) = limit}

Scored == {t \in Topics : topic[t] = "scored"}

\* tickArticleWrite: in a minute it names, up to MaxTopics of the scored topics
\* are read; none, and nothing is recorded.
ReadScoredTopics(i) ==
    /\ tick[i].at = "write"
    /\ IF IsTime(now, WriteTimes) /\ MaxTopics > 0 /\ Scored # {}
       THEN \E batch \in UpTo(MaxTopics, Scored) : GoWith(i, "batch", "rows", batch)
       ELSE GoTo(i, "reflect")
    /\ UNCHANGED <<now, settings, keys, skipped, sent, nextRun, enough, topic,
                   batchOf, archived, restored, failures>>

\* Mutant: an update without a comparison.
AsRead(batch) == batch

\* The rows that TransitionTopic finds as they were read.
StillScored(batch) == {t \in batch : topic[t] = "scored"}

ApproveBatch(i) ==
    /\ tick[i].at = "batch"
    /\ OncePerKey(Write, tick[i].asOf)
    /\ LET mine == IF Unclaimed(Write, tick[i].asOf)
                   THEN StillScored(tick[i].rows) ELSE {}
       IN  /\ topic' = [t \in Topics |-> IF t \in mine THEN "approved" ELSE topic[t]]
           /\ batchOf' = [t \in Topics |-> IF t \in mine THEN tick[i].asOf ELSE batchOf[t]]
    /\ GoTo(i, "reflect")
    /\ UNCHANGED <<now, settings, nextRun, enough, archived, restored, failures>>

\* tickMemoryReflect, in either mode: the clock is read before the transaction.
ReadReflectTime(i) ==
    /\ tick[i].at = "reflect"
    /\ IF IsTime(now, ReflectTimes)
       THEN tick' = [tick EXCEPT ![i].at = "remember", ![i].asOf = now]
       ELSE GoTo(i, "retain")
    /\ UNCHANGED <<now, settings, keys, skipped, sent, nextRun, enough, topic,
                   batchOf, archived, restored, failures>>

EnqueueMemoryReflect(i) ==
    /\ tick[i].at = "remember"
    /\ OncePerKey(Reflect, tick[i].asOf)
    /\ GoTo(i, "retain")
    /\ UNCHANGED <<now, settings, nextRun, enough, topic, batchOf, archived,
                   restored, failures>>

\* Mutant: archived snapshots are taken for expired again.
AllSnapshots == Snapshots

Live == Snapshots \ archived

Expired(snap) == CreatedAt[snap] + RetentionMinutes <= now

\* ArchiveExpiredWorkflowSnapshots: the oldest first.
ArchiveExpired(i) ==
    /\ tick[i].at = "retain"
    /\ \E batch \in UpTo(BatchSize, {snap \in Live : Expired(snap)}) :
           /\ \A young \in batch, old \in Live \ batch : CreatedAt[young] <= CreatedAt[old]
           /\ archived' = archived \cup batch
    /\ tick' = [tick EXCEPT ![i] = [Resting EXCEPT !.done = TRUE]]
    /\ UNCHANGED <<now, settings, keys, skipped, sent, nextRun, enough, topic,
                   batchOf, restored, failures>>

------------------------------------------------------------------------------
\* Failures: a step that fails is logged and the tick goes on with the next.

AfterFailure == [slot |-> "reflect", claim |-> "reflect", due |-> "scout", count |-> "write",
                 write |-> "reflect", batch |-> "reflect", reflect |-> "retain",
                 remember |-> "retain"]

Fails == failures < MaxFailures /\ failures' = failures + 1

StepFails(i) ==
    /\ tick[i].at \in DOMAIN AfterFailure
    /\ Fails
    /\ GoTo(i, AfterFailure[tick[i].at])
    /\ UNCHANGED <<now, settings, keys, skipped, sent, nextRun, enough, topic,
                   batchOf, archived, restored>>

\* The fetch of one source fails; the others are not affected.
FetchFails(i) ==
    /\ tick[i].at = "send"
    /\ Fails
    /\ NextSource(i)
    /\ UNCHANGED <<now, settings, keys, skipped, sent, nextRun, enough, topic,
                   batchOf, archived, restored>>

\* The settings cannot be read, or the process dies at any point of the tick.
TickFails(i) ==
    /\ Fails
    /\ tick' = [tick EXCEPT ![i] = [Resting EXCEPT !.done = TRUE]]
    /\ UNCHANGED <<now, settings, keys, skipped, sent, nextRun, enough, topic,
                   batchOf, archived, restored>>

------------------------------------------------------------------------------
\* Everybody else.

PassMinute ==
    /\ now < MaxMinute
    /\ Punctual => \A i \in Instances : tick[i].at = "idle" /\ tick[i].done
    /\ now' = now + 1
    /\ tick' = [i \in Instances |-> [tick[i] EXCEPT !.done = FALSE]]
    /\ UNCHANGED <<settings, keys, skipped, sent, nextRun, enough, topic, batchOf,
                   archived, restored, failures>>

UpdateSettings ==
    /\ SettingsChange
    /\ settings' \in [contentWorkflow : ContentModes, interval : ContentIntervals]
    /\ UNCHANGED <<now, keys, skipped, sent, nextRun, enough, topic, batchOf, archived,
                   restored, tick, failures>>

\* Raw items arrive, are clustered or discarded.
ItemsChange ==
    /\ enough' = ~enough
    /\ UNCHANGED <<now, settings, keys, skipped, sent, nextRun, topic, batchOf, archived,
                   restored, tick, failures>>

\* A topic is evaluated, or a person approves or rejects it.
TopicChanges(t) ==
    /\ topic' \in {[topic EXCEPT ![t] = status] :
                      status \in IF topic[t] = "evaluating" THEN {"scored"}
                                 ELSE IF topic[t] = "scored" THEN {"approved", "rejected"}
                                 ELSE {}}
    /\ UNCHANGED <<now, settings, keys, skipped, sent, nextRun, enough, batchOf, archived,
                   restored, tick, failures>>

ArchiveSnapshot(snap) ==
    /\ CreatedAt[snap] <= now
    /\ archived' = archived \cup {snap}
    /\ UNCHANGED <<now, settings, keys, skipped, sent, nextRun, enough, topic, batchOf,
                   restored, tick, failures>>

\* Restored at most once: a bound.
RestoreSnapshot(snap) ==
    /\ snap \in archived /\ snap \notin restored
    /\ archived' = archived \ {snap}
    /\ restored' = restored \cup {snap}
    /\ UNCHANGED <<now, settings, keys, skipped, sent, nextRun, enough, topic, batchOf,
                   tick, failures>>

Tick(i) ==
    \/ BeginTick(i)
    \/ ReadSlot(i)
    \/ CreateScheduledContentRun(i)
    \/ ReadDueSources(i)
    \/ \E s \in Sources : ReadFetchClock(i, s)
    \/ EnqueueSourceFetch(i)
    \/ CountNewItems(i)
    \/ EnqueueTopicScout(i)
    \/ ReadScoredTopics(i)
    \/ ApproveBatch(i)
    \/ ReadReflectTime(i)
    \/ EnqueueMemoryReflect(i)
    \/ ArchiveExpired(i)

Failure(i) ==
    \/ StepFails(i)
    \/ FetchFails(i)
    \/ TickFails(i)

People ==
    \/ UpdateSettings
    \/ \E t \in Topics : TopicChanges(t)
    \/ \E snap \in Snapshots : ArchiveSnapshot(snap) \/ RestoreSnapshot(snap)

Next ==
    \/ \E i \in Instances : Tick(i) \/ Failure(i)
    \/ PassMinute
    \/ ItemsChange
    \/ People

Spec == Init /\ [][Next]_vars

\* scheduler.Run goes on ticking for as long as its process lives.
FairSpec == Spec /\ \A i \in Instances : WF_tick(Tick(i))

------------------------------------------------------------------------------
\* Properties.

\* Every variable has its type.
TypeOK ==
    /\ now \in Minutes
    /\ settings \in [contentWorkflow : ContentModes, interval : ContentIntervals]
    /\ skipped \subseteq keys /\ keys \subseteq ScheduleKeys \X Minutes
    /\ sent \in [ScheduleKeys \X Minutes -> Nat]
    /\ nextRun \in [Sources -> Nat]
    /\ enough \in BOOLEAN
    /\ topic \in [Topics -> {"evaluating", "scored", "approved", "rejected"}]
    /\ batchOf \in [Topics -> Minutes \cup {Nobody}]
    /\ archived \subseteq Snapshots /\ restored \subseteq Snapshots
    /\ tick \in [Instances -> [at : Stages, interval : ContentIntervals \cup {0},
                               asOf : Minutes, due : SUBSET Sources,
                               source : Sources \cup {Nobody}, skip : BOOLEAN,
                               rows : SUBSET Topics, done : BOOLEAN]]
    /\ failures \in 0..MaxFailures

\* A slot that is recorded has its one job, unless it was recorded as skipped,
\* and no job is without its slot, however ticks overlap, fail and repeat.
SlotsHaveTheirJobs ==
    \A slot \in ScheduleKeys \X Minutes :
        sent[slot] = IF slot \in keys \ skipped THEN 1 ELSE 0

Fetched(s) == {m \in Minutes : <<Fetch(s), m>> \in keys}

\* However ticks stall, the fetches of a source in any stretch of its interval
\* are bounded by the number of instances, n: at most n * (n + 1) / 2.  One
\* instance keeps the interval.  Of several, each may act once on a list that was
\* read before another fetched, and each may have read the clock before the
\* stretch began: its commit then puts next_run_at back, and the rest are due
\* again.
FetchesPerInterval ==
    LET n == Cardinality(Instances)
    IN  \A s \in Sources, m \in Minutes :
            2 * Cardinality(Fetched(s) \cap m..(m + SourceInterval(s) - 1)) <= n * (n + 1)

\* sources.sql:58: next_run_at is written with the job so that a source is not
\* fetched twice in the same window.
FetchesKeepTheirInterval ==
    \A s \in Sources : \A m, n \in Fetched(s) : m < n => n - m >= SourceInterval(s)

\* Under settings that do not change, the schedule is kept whichever ticks fail
\* as long as one does not: every time of the day at which topics are to be
\* scouted has been recorded, or every slot that is over has its content run.
SchedulesAreKept ==
    IF settings.contentWorkflow
    THEN \A m \in Minutes :
             m % settings.interval = 0 /\ m + settings.interval <= now => <<Content, m>> \in keys
    ELSE \A m \in Minutes : m < now /\ IsTime(m, ScoutTimes) => <<Scout, m>> \in keys

\* What the scheduler approves belongs to a recorded batch of at most MaxTopics.
BatchesAreBounded ==
    \A t \in Topics :
        batchOf[t] # Nobody =>
            /\ <<Write, batchOf[t]>> \in keys
            /\ Cardinality({u \in Topics : batchOf[u] = batchOf[t]}) <= MaxTopics

\* A topic that somebody has decided on is not approved by a batch read before.
DecisionsStand ==
    [][\A t \in Topics :
          topic[t] \in {"approved", "rejected"} =>
              topic'[t] = topic[t] /\ batchOf'[t] = batchOf[t]]_vars

\* A snapshot past its retention is archived in the end.
ExpiredAreArchived ==
    \A snap \in Snapshots : Expired(snap) ~> snap \in archived
===============================================================================
