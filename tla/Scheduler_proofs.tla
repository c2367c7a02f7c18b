--------------------------- MODULE Scheduler_proofs ---------------------------
(***************************************************************************)
(* Theorems about Scheduler, for any instances, sources, topics, times and *)
(* intervals.                                                              *)
(***************************************************************************)
EXTENDS Scheduler, FiniteSetTheorems, TLAPS

\* A tick that is to look for its slot has an interval, one that is to send a
\* fetch has taken its source off the list, and a batch that has been read keeps
\* the limit.
LocalOK(r) ==
    /\ r.at = "slot" => r.interval \in ContentIntervals
    /\ r.at = "send" => r.source \in Sources \ r.due
    /\ r.at = "batch" => Cardinality(r.rows) <= MaxTopics

LocalInv == \A i \in Instances : LocalOK(tick[i])

\* The batches of all minutes, and their slots.
BatchInv ==
    /\ \A t \in Topics : batchOf[t] # Nobody => <<Write, batchOf[t]>> \in keys
    /\ \A m \in Minutes : Cardinality({u \in Topics : batchOf[u] = m}) <= MaxTopics

\* What is said of schedule_runs and of the jobs alone.
LedgerInv ==
    /\ skipped \subseteq keys /\ keys \subseteq ScheduleKeys \X Minutes
    /\ sent \in [ScheduleKeys \X Minutes -> Nat]
    /\ SlotsHaveTheirJobs

\* No minute has been read from the clock, or recorded, that is yet to come.
TimeInv ==
    /\ \A i \in Instances : tick[i].asOf <= now
    /\ \A slot \in keys : slot[2] <= now

IInv == TypeOK /\ LocalInv /\ SlotsHaveTheirJobs /\ BatchInv /\ TimeInv

------------------------------------------------------------------------------
\* The beginning of a slot is not later than the minute, and not before time 0.
LEMMA SlotOfIsAMinute ==
    ASSUME NEW m \in Nat, NEW k \in Nat \ {0}
    PROVE  SlotOf(m, k) \in 0..m
<1>1. m % k \in 0..(k - 1) /\ m \div k \in Nat /\ m = (k * (m \div k)) + (m % k)
  OBVIOUS
<1>2. k * (m \div k) \in Nat
  BY <1>1
<1> QED
  BY <1>1, <1>2 DEF SlotOf

\* The keys of the scheduler are its keys.
LEMMA KeysAreKeys ==
    /\ \A s \in Sources : Fetch(s) \in ScheduleKeys
    /\ {Content, Scout, Write, Reflect} \subseteq ScheduleKeys
BY DEF ScheduleKeys

\* Recording a slot once, with its job, keeps the ledger.
LEMMA OncePerKeyKeepsLedger ==
    ASSUME LedgerInv, NEW key \in ScheduleKeys, NEW planned \in Minutes,
           OncePerKey(key, planned)
    PROVE  LedgerInv' /\ keys \subseteq keys'
<1>1. CASE Unclaimed(key, planned)
  <2>1. keys' = keys \cup {<<key, planned>>} /\ skipped' = skipped
        /\ sent' = [sent EXCEPT ![<<key, planned>>] = @ + 1]
    BY <1>1 DEF OncePerKey, ClaimAndSend
  <2>2. <<key, planned>> \in ScheduleKeys \X Minutes /\ <<key, planned>> \notin keys
    BY <1>1 DEF Unclaimed
  <2>3. ASSUME NEW slot \in ScheduleKeys \X Minutes
        PROVE  sent'[slot] = IF slot \in keys' \ skipped' THEN 1 ELSE 0
    BY <2>1, <2>2, <2>3 DEF LedgerInv, SlotsHaveTheirJobs
  <2> QED
    BY <2>1, <2>2, <2>3 DEF LedgerInv, SlotsHaveTheirJobs
<1>2. CASE ~Unclaimed(key, planned)
  BY <1>2 DEF OncePerKey, Unscheduled, LedgerInv, SlotsHaveTheirJobs
<1> QED
  BY <1>1, <1>2

\* Recording a skip keeps the ledger.
LEMMA SkipKeepsLedger ==
    ASSUME LedgerInv, NEW key \in ScheduleKeys, NEW planned \in Minutes,
           Unclaimed(key, planned), ClaimAndSkip(key, planned)
    PROVE  LedgerInv' /\ keys \subseteq keys'
<1>1. keys' = keys \cup {<<key, planned>>} /\ sent' = sent
      /\ skipped' = skipped \cup {<<key, planned>>}
  BY DEF ClaimAndSkip
<1>2. <<key, planned>> \in ScheduleKeys \X Minutes /\ <<key, planned>> \notin keys
  BY DEF Unclaimed
<1>3. ASSUME NEW slot \in ScheduleKeys \X Minutes
      PROVE  sent'[slot] = IF slot \in keys' \ skipped' THEN 1 ELSE 0
  BY <1>1, <1>2, <1>3 DEF LedgerInv, SlotsHaveTheirJobs
<1> QED
  BY <1>1, <1>2, <1>3 DEF LedgerInv, SlotsHaveTheirJobs

\* A step that leaves the schedule alone keeps the ledger.
LEMMA UnscheduledKeepsLedger ==
    ASSUME LedgerInv, Unscheduled
    PROVE  LedgerInv' /\ keys \subseteq keys'
BY DEF LedgerInv, Unscheduled, SlotsHaveTheirJobs

------------------------------------------------------------------------------
(* Types.                                                                   *)

TickType == [at : Stages, interval : ContentIntervals \cup {0}, asOf : Minutes,
             due : SUBSET Sources, source : Sources \cup {Nobody}, skip : BOOLEAN,
             rows : SUBSET Topics, done : BOOLEAN]

\* An instance at rest is a tick.
LEMMA RestingType == Resting \in TickType
BY SchedulerAssumption DEF TickType, Resting, Stages, Minutes

\* The tick of an instance is one.
LEMMA TickOfInstance == ASSUME TypeOK, NEW i \in Instances PROVE tick[i] \in TickType
BY DEF TypeOK, TickType

\* Moving on to another stage keeps the type.
LEMMA GoToType ==
    ASSUME TypeOK, NEW i \in Instances, NEW stage \in Stages, GoTo(i, stage)
    PROVE  tick' \in [Instances -> TickType]
<1>1. [tick[i] EXCEPT !.at = stage] \in TickType
  BY TickOfInstance DEF TickType
<1> QED BY <1>1 DEF GoTo, TypeOK, TickType

\* Going on to another stage, field by field.
LEMMA GoToIs ==
    ASSUME TypeOK, NEW i \in Instances, NEW stage
    PROVE  LET r == [tick[i] EXCEPT !.at = stage]
           IN  /\ GoTo(i, stage) => tick' = [tick EXCEPT ![i] = r]
               /\ r.at = stage /\ r.done = tick[i].done
               /\ r.interval = tick[i].interval /\ r.asOf = tick[i].asOf
BY TickOfInstance DEF TickType, GoTo, TypeOK

\* Going on with the list, field by field, keeps it.
Onward(i) == [tick[i] EXCEPT !.at = "fetch", !.asOf = 0, !.source = Nobody]

LEMMA NextSourceIs ==
    ASSUME TypeOK, NEW i \in Instances, NextSource(i)
    PROVE  /\ tick' = [tick EXCEPT ![i] = Onward(i)]
           /\ Onward(i) \in TickType /\ tick' \in [Instances -> TickType]
           /\ Onward(i).at = "fetch" /\ Onward(i).due = tick[i].due
           /\ Onward(i).asOf = 0 /\ Onward(i).done = tick[i].done
<1>0. tick[i] \in TickType /\ 0 \in Minutes
  BY TickOfInstance, SchedulerAssumption DEF Minutes
<1>1. /\ Onward(i) \in TickType
      /\ Onward(i).at = "fetch" /\ Onward(i).due = tick[i].due
      /\ Onward(i).asOf = 0 /\ Onward(i).done = tick[i].done
  BY <1>0 DEF TickType, Stages, Onward
<1>2. tick' = [tick EXCEPT ![i] = Onward(i)]
  BY DEF NextSource, Onward, TypeOK
<1> QED BY <1>1, <1>2 DEF TypeOK, TickType

\* So does reading the clock for a source.
Sending(i, s) == [tick[i] EXCEPT !.at = "send", !.asOf = now, !.source = s, !.due = @ \ {s}]

LEMMA ReadFetchClockIs ==
    ASSUME TypeOK, NEW i \in Instances, NEW s \in Sources, ReadFetchClock(i, s)
    PROVE  /\ tick' = [tick EXCEPT ![i] = Sending(i, s)]
           /\ Sending(i, s) \in TickType /\ tick' \in [Instances -> TickType]
           /\ Sending(i, s).at = "send" /\ Sending(i, s).due = tick[i].due \ {s}
           /\ Sending(i, s).source = s /\ Sending(i, s).asOf = now
           /\ Sending(i, s).done = tick[i].done
<1>1. /\ Sending(i, s) \in TickType
      /\ Sending(i, s).at = "send" /\ Sending(i, s).due = tick[i].due \ {s}
      /\ Sending(i, s).source = s /\ Sending(i, s).asOf = now
      /\ Sending(i, s).done = tick[i].done
  BY TickOfInstance DEF TickType, Stages, TypeOK, Sending
<1>2. tick' = [tick EXCEPT ![i] = Sending(i, s)]
  BY DEF ReadFetchClock, Sending, TypeOK
<1> QED BY <1>1, <1>2 DEF TypeOK, TickType

\* Ending a tick keeps it.
LEMMA EndType ==
    ASSUME TypeOK, NEW i \in Instances,
           tick' = [tick EXCEPT ![i] = [Resting EXCEPT !.done = TRUE]]
    PROVE  tick' \in [Instances -> TickType]
<1>1. [Resting EXCEPT !.done = TRUE] \in TickType
  BY RestingType DEF TickType
<1> QED BY <1>1 DEF TypeOK, TickType

\* A batch of up to so many rows is a part of them and no larger than the limit.
LEMMA UpToBounds ==
    ASSUME NEW limit \in Nat, NEW rows, NEW batch \in UpTo(limit, rows)
    PROVE  batch \subseteq rows /\ Cardinality(batch) <= limit
BY DEF UpTo

\* The first state has the types.
LEMMA InitType == Init => TypeOK
BY RestingType, SchedulerAssumption DEF Init, TypeOK, TickType, Minutes, Nobody

\* Every step of a tick keeps the types; the ledger's part is shown above.
LEMMA TickKeepsTypes ==
    ASSUME TypeOK, LocalInv, LedgerInv', NEW i \in Instances, Tick(i)
    PROVE  TypeOK'
<1>0. /\ 0 \in Minutes /\ now \in Minutes /\ Minutes \subseteq Nat
      /\ tick[i] \in TickType
  BY SchedulerAssumption DEF TypeOK, Minutes, TickType
<1>l. skipped' \subseteq keys' /\ keys' \subseteq ScheduleKeys \X Minutes
      /\ sent' \in [ScheduleKeys \X Minutes -> Nat]
  BY DEF LedgerInv
<1>1. CASE BeginTick(i)
  <2>1. tick' \in [Instances -> TickType]
    <3> DEFINE stage == IF settings.contentWorkflow THEN "slot" ELSE "due"
    <3>1. stage \in Stages /\ settings.interval \in ContentIntervals
      BY DEF Stages, TypeOK
    <3>2. tick' = [tick EXCEPT ![i] = [tick[i] EXCEPT !.at = stage,
                                                     !.interval = settings.interval]]
      BY <1>1 DEF BeginTick, TypeOK
    <3> HIDE DEF stage
    <3>3. [tick[i] EXCEPT !.at = stage, !.interval = settings.interval] \in TickType
      BY <1>0, <3>1 DEF TickType
    <3> QED BY <3>2, <3>3 DEF TypeOK, TickType
  <2> QED BY <1>1, <1>l, <2>1 DEF BeginTick, TypeOK, TickType
<1>2. CASE ReadSlot(i)
  <2>1. SlotOf(now, tick[i].interval) \in Minutes
    BY <1>2, <1>0, SlotOfIsAMinute, SchedulerAssumption DEF ReadSlot, LocalInv, LocalOK, Minutes
  <2>2. tick' \in [Instances -> TickType]
    <3> DEFINE slot == SlotOf(now, tick[i].interval)
    <3>1. tick' = [tick EXCEPT ![i] = [tick[i] EXCEPT !.at = "claim", !.asOf = slot]]
      BY <1>2 DEF ReadSlot, TypeOK
    <3>2. slot \in Minutes
      BY <2>1
    <3> HIDE DEF slot
    <3>3. [tick[i] EXCEPT !.at = "claim", !.asOf = slot] \in TickType
      BY <1>0, <3>2 DEF TickType, Stages
    <3> QED BY <3>1, <3>3 DEF TypeOK, TickType
  <2> QED BY <1>2, <1>l, <2>2 DEF ReadSlot, TypeOK, TickType
<1>3. CASE CreateScheduledContentRun(i)
  <2>1. tick' \in [Instances -> TickType]
    BY <1>3, GoToType DEF CreateScheduledContentRun, Stages
  <2> QED BY <1>3, <1>l, <2>1 DEF CreateScheduledContentRun, TypeOK, TickType
<1>4. CASE ReadDueSources(i)
  <2>1. tick' \in [Instances -> TickType]
    BY <1>4, <1>0 DEF ReadDueSources, TypeOK, TickType, Stages
  <2> QED BY <1>4, <1>l, <2>1 DEF ReadDueSources, TypeOK, TickType
<1>5. CASE EnqueueSourceFetch(i)
  <2>2. tick' \in [Instances -> TickType]
    BY <1>5, NextSourceIs DEF EnqueueSourceFetch
  <2>3. \A s : SourceInterval(s) \in Nat
    BY SchedulerAssumption DEF SourceInterval
  <2>4. nextRun' \in [Sources -> Nat]
    <3>1. tick[i].asOf + SourceInterval(tick[i].source) \in Nat
      <4>1. tick[i].asOf \in Nat
        BY <1>0 DEF TickType
      <4> QED BY <2>3, <4>1
    <3> QED BY <1>5, <3>1 DEF EnqueueSourceFetch, TypeOK
  <2> QED BY <1>5, <1>l, <2>2, <2>4 DEF EnqueueSourceFetch, TypeOK, TickType
<1>12. CASE \E s \in Sources : ReadFetchClock(i, s)
  <2>1. PICK s \in Sources : ReadFetchClock(i, s)
    BY <1>12
  <2>2. tick' \in [Instances -> TickType]
    BY <2>1, ReadFetchClockIs
  <2> QED BY <2>1, <1>l, <2>2 DEF ReadFetchClock, TypeOK, TickType
<1>6. CASE CountNewItems(i)
  <2>1. tick' \in [Instances -> TickType]
    <3>1. [tick[i] EXCEPT !.at = "count", !.asOf = now, !.skip = ~enough] \in TickType
      BY <1>0 DEF TickType, Stages
    <3>2. CASE GoWith(i, "count", "skip", ~enough)
      BY <3>1, <3>2 DEF GoWith, TypeOK, TickType
    <3>3. CASE GoTo(i, "write")
      BY <3>3, GoToType DEF Stages
    <3> QED BY <1>6, <3>2, <3>3 DEF CountNewItems
  <2> QED BY <1>6, <1>l, <2>1 DEF CountNewItems, TypeOK, TickType
<1>7. CASE EnqueueTopicScout(i)
  <2>1. tick' \in [Instances -> TickType]
    BY <1>7, GoToType DEF EnqueueTopicScout, Stages
  <2> QED BY <1>7, <1>l, <2>1 DEF EnqueueTopicScout, TypeOK, TickType
<1>8. CASE ReadScoredTopics(i)
  <2>1. Scored \subseteq Topics
    BY DEF Scored
  <2>2. tick' \in [Instances -> TickType]
    <3>1. ASSUME NEW batch \in UpTo(MaxTopics, Scored), GoWith(i, "batch", "rows", batch)
          PROVE  tick' \in [Instances -> TickType]
      <4>1. batch \in SUBSET Topics
        BY <2>1, <3>1 DEF UpTo
      <4> QED BY <3>1, <4>1, <1>0 DEF GoWith, TypeOK, TickType, Stages
    <3> QED BY <1>8, <3>1, GoToType DEF ReadScoredTopics, Stages
  <2> QED BY <1>8, <1>l, <2>2 DEF ReadScoredTopics, TypeOK, TickType
<1>9. CASE ApproveBatch(i)
  <2>1. tick' \in [Instances -> TickType]
    BY <1>9, GoToType DEF ApproveBatch, Stages
  <2>2. /\ topic' \in [Topics -> {"evaluating", "scored", "approved", "rejected"}]
        /\ batchOf' \in [Topics -> Minutes \cup {Nobody}]
    BY <1>9, <1>0 DEF ApproveBatch, TypeOK, TickType
  <2> QED BY <1>9, <1>l, <2>1, <2>2 DEF ApproveBatch, TypeOK, TickType
<1>13. CASE ReadReflectTime(i)
  <2>1. tick' \in [Instances -> TickType]
    <3>1. [tick[i] EXCEPT !.at = "remember", !.asOf = now] \in TickType
      BY <1>0 DEF TickType, Stages
    <3>2. CASE GoTo(i, "retain")
      BY <3>2, GoToType DEF Stages
    <3>3. CASE tick' = [tick EXCEPT ![i].at = "remember", ![i].asOf = now]
      <4>1. tick' = [tick EXCEPT ![i] = [tick[i] EXCEPT !.at = "remember", !.asOf = now]]
        BY <3>3 DEF TypeOK
      <4> QED BY <3>1, <4>1 DEF TypeOK, TickType
    <3> QED BY <1>13, <3>2, <3>3 DEF ReadReflectTime
  <2> QED BY <1>13, <1>l, <2>1 DEF ReadReflectTime, TypeOK, TickType
<1>10. CASE EnqueueMemoryReflect(i)
  <2>1. tick' \in [Instances -> TickType]
    BY <1>10, GoToType DEF EnqueueMemoryReflect, Stages
  <2> QED BY <1>10, <1>l, <2>1 DEF EnqueueMemoryReflect, TypeOK, TickType
<1>11. CASE ArchiveExpired(i)
  <2>1. tick' \in [Instances -> TickType]
    BY <1>11, EndType DEF ArchiveExpired
  <2>2. archived' \subseteq Snapshots
    BY <1>11 DEF ArchiveExpired, UpTo, Live, TypeOK
  <2> QED BY <1>11, <1>l, <2>1, <2>2 DEF ArchiveExpired, TypeOK, TickType
<1> QED
  BY <1>1, <1>2, <1>3, <1>4, <1>5, <1>6, <1>7, <1>8, <1>9, <1>10, <1>11, <1>12, <1>13
  DEF Tick

\* So does every failure.
LEMMA FailureType ==
    ASSUME TypeOK, NEW i \in Instances, Failure(i)
    PROVE  TypeOK'
<1>1. failures' \in 0..MaxFailures
  BY SchedulerAssumption DEF Failure, StepFails, FetchFails, TickFails, Fails, TypeOK
<1>2. tick' \in [Instances -> TickType]
  <2>1. CASE StepFails(i)
    <3>1. AfterFailure[tick[i].at] \in Stages
      BY <2>1 DEF StepFails, AfterFailure, Stages
    <3> QED BY <2>1, <3>1, GoToType DEF StepFails
  <2>2. CASE FetchFails(i)
    BY <2>2, NextSourceIs DEF FetchFails
  <2>3. CASE TickFails(i)
    BY <2>3, EndType DEF TickFails
  <2> QED BY <2>1, <2>2, <2>3 DEF Failure
<1> QED
  BY <1>1, <1>2 DEF Failure, StepFails, FetchFails, TickFails, TypeOK, TickType

\* And everybody else.
LEMMA OthersType ==
    ASSUME TypeOK, PassMinute \/ ItemsChange \/ People
    PROVE  TypeOK'
<1>1. CASE PassMinute
  <2>1. now' \in Minutes
    BY <1>1, SchedulerAssumption DEF PassMinute, TypeOK, Minutes
  <2>2. tick' \in [Instances -> TickType]
    <3>1. ASSUME NEW i \in Instances PROVE [tick[i] EXCEPT !.done = FALSE] \in TickType
      BY TickOfInstance DEF TickType
    <3> QED BY <1>1, <3>1 DEF PassMinute
  <2> QED BY <1>1, <2>1, <2>2 DEF PassMinute, TypeOK, TickType
<1>2. CASE ItemsChange
  BY <1>2 DEF ItemsChange, TypeOK
<1>3. CASE UpdateSettings
  BY <1>3 DEF UpdateSettings, TypeOK
<1>4. CASE \E t \in Topics : TopicChanges(t)
  BY <1>4 DEF TopicChanges, TypeOK
<1>5. CASE \E snap \in Snapshots : ArchiveSnapshot(snap) \/ RestoreSnapshot(snap)
  BY <1>5 DEF ArchiveSnapshot, RestoreSnapshot, TypeOK
<1> QED
  BY <1>1, <1>2, <1>3, <1>4, <1>5 DEF People

------------------------------------------------------------------------------
(* The invariant.                                                           *)

\* Whatever happens, a step leaves the ledger in order and erases nothing.
LEMMA StepKeepsLedger ==
    ASSUME TypeOK, LocalInv, LedgerInv, [Next]_vars
    PROVE  LedgerInv' /\ keys \subseteq keys'
<1>0. now \in Minutes /\ \A i \in Instances : tick[i].asOf \in Minutes
  BY TickOfInstance DEF TypeOK, TickType
<1>1. ASSUME NEW i \in Instances, CreateScheduledContentRun(i)
      PROVE  LedgerInv' /\ keys \subseteq keys'
  BY <1>0, <1>1, OncePerKeyKeepsLedger, KeysAreKeys DEF CreateScheduledContentRun
<1>2. ASSUME NEW i \in Instances, EnqueueSourceFetch(i)
      PROVE  LedgerInv' /\ keys \subseteq keys'
  <2>1. tick[i].source \in Sources
    BY <1>2 DEF EnqueueSourceFetch, LocalInv, LocalOK
  <2> QED BY <1>0, <1>2, <2>1, OncePerKeyKeepsLedger, KeysAreKeys DEF EnqueueSourceFetch
<1>3. ASSUME NEW i \in Instances, EnqueueTopicScout(i)
      PROVE  LedgerInv' /\ keys \subseteq keys'
  BY <1>0, <1>3, OncePerKeyKeepsLedger, SkipKeepsLedger, KeysAreKeys DEF EnqueueTopicScout
<1>4. ASSUME NEW i \in Instances, ApproveBatch(i)
      PROVE  LedgerInv' /\ keys \subseteq keys'
  BY <1>0, <1>4, OncePerKeyKeepsLedger, KeysAreKeys DEF ApproveBatch
<1>5. ASSUME NEW i \in Instances, EnqueueMemoryReflect(i)
      PROVE  LedgerInv' /\ keys \subseteq keys'
  BY <1>0, <1>5, OncePerKeyKeepsLedger, KeysAreKeys DEF EnqueueMemoryReflect
<1>6. ASSUME NEW i \in Instances,
             \/ BeginTick(i) \/ ReadSlot(i) \/ ReadDueSources(i) \/ CountNewItems(i)
             \/ \E s \in Sources : ReadFetchClock(i, s)
             \/ ReadScoredTopics(i) \/ ReadReflectTime(i) \/ ArchiveExpired(i) \/ Failure(i)
      PROVE  Unscheduled
  BY <1>6 DEF BeginTick, ReadSlot, ReadDueSources, ReadFetchClock, CountNewItems,
     ReadScoredTopics, ReadReflectTime, ArchiveExpired, Failure, StepFails, FetchFails,
     TickFails, Unscheduled
<1>7. ASSUME PassMinute \/ ItemsChange \/ People \/ UNCHANGED vars
      PROVE  Unscheduled
  BY <1>7 DEF PassMinute, ItemsChange, People, UpdateSettings, TopicChanges,
     ArchiveSnapshot, RestoreSnapshot, Unscheduled, vars
<1> QED
  BY <1>1, <1>2, <1>3, <1>4, <1>5, <1>6, <1>7, UnscheduledKeepsLedger DEF Next, Tick

\* The type is kept.
LEMMA StepKeepsType ==
    ASSUME TypeOK, LocalInv, LedgerInv, [Next]_vars
    PROVE  TypeOK'
<1>1. CASE UNCHANGED vars
  BY <1>1 DEF vars, TypeOK
<1>2. CASE Next
  BY <1>2, StepKeepsLedger, TickKeepsTypes, FailureType, OthersType DEF Next
<1> QED BY <1>1, <1>2

\* One instance goes on, the others stay where they are.
LEMMA OneGoesOn ==
    ASSUME TypeOK, LocalInv, NEW i \in Instances, NEW r, LocalOK(r),
           tick' = [tick EXCEPT ![i] = r]
    PROVE  LocalInv'
<1> SUFFICES ASSUME NEW j \in Instances PROVE LocalOK(tick'[j])
  BY DEF LocalInv, LocalOK
<1>1. tick'[j] = IF j = i THEN r ELSE tick[j]
  BY DEF TypeOK
<1> QED BY <1>1 DEF LocalInv

\* No stage but those three asks for anything.
LEMMA AnywhereElse ==
    ASSUME TypeOK, LocalInv, NEW i \in Instances,
           NEW stage \in Stages \ {"slot", "send", "batch"},
           GoTo(i, stage)
    PROVE  LocalInv'
<1>1. LocalOK([tick[i] EXCEPT !.at = stage])
  BY TickOfInstance DEF LocalOK, TickType
<1> QED BY <1>1, OneGoesOn DEF GoTo

\* What is local to a tick is kept: an instance gets to its slot with the
\* interval that it read, and to its batch with the limit.
LEMMA StepKeepsLocal ==
    ASSUME TypeOK, LocalInv, [Next]_vars
    PROVE  LocalInv'
<1>0. \A i \in Instances : tick[i] \in TickType
  BY TickOfInstance
<1>1. ASSUME NEW i \in Instances, BeginTick(i) PROVE LocalInv'
  <2> DEFINE stage == IF settings.contentWorkflow THEN "slot" ELSE "due"
  <2>1. LocalOK([tick[i] EXCEPT !.at = stage, !.interval = settings.interval])
    BY <1>0 DEF LocalOK, TickType, TypeOK
  <2> QED BY <1>1, <2>1, OneGoesOn DEF BeginTick
<1>2. ASSUME NEW i \in Instances, ReadSlot(i) PROVE LocalInv'
  <2>1. LocalOK([tick[i] EXCEPT !.at = "claim", !.asOf = SlotOf(now, tick[i].interval)])
    BY <1>0 DEF LocalOK, TickType
  <2> QED BY <1>2, <2>1, OneGoesOn DEF ReadSlot
<1>3. ASSUME NEW i \in Instances, ReadDueSources(i) PROVE LocalInv'
  <2>1. \A due : LocalOK([tick[i] EXCEPT !.at = "fetch", !.due = due])
    BY <1>0 DEF LocalOK, TickType
  <2> QED BY <1>3, <2>1, OneGoesOn DEF ReadDueSources
<1>4. ASSUME NEW i \in Instances, NextSource(i) PROVE LocalInv'
  <2>1. LocalOK(Onward(i)) /\ tick' = [tick EXCEPT ![i] = Onward(i)]
    BY <1>4, NextSourceIs DEF LocalOK
  <2> QED BY <2>1, OneGoesOn
<1>13. ASSUME NEW i \in Instances, NEW s \in Sources, ReadFetchClock(i, s) PROVE LocalInv'
  <2>1. LocalOK(Sending(i, s)) /\ tick' = [tick EXCEPT ![i] = Sending(i, s)]
    BY <1>13, ReadFetchClockIs DEF LocalOK
  <2> QED BY <2>1, OneGoesOn
<1>14. ASSUME NEW i \in Instances, ReadReflectTime(i) PROVE LocalInv'
  <2>1. LocalOK([tick[i] EXCEPT !.at = "remember", !.asOf = now])
    BY <1>0 DEF LocalOK, TickType
  <2>2. CASE GoTo(i, "retain")
    BY <2>2, AnywhereElse DEF Stages
  <2>3. CASE tick' = [tick EXCEPT ![i].at = "remember", ![i].asOf = now]
    <3>1. tick' = [tick EXCEPT ![i] = [tick[i] EXCEPT !.at = "remember", !.asOf = now]]
      BY <2>3 DEF TypeOK
    <3> QED BY <2>1, <3>1, OneGoesOn
  <2> QED BY <1>14, <2>2, <2>3 DEF ReadReflectTime
<1>5. ASSUME NEW i \in Instances, CountNewItems(i) PROVE LocalInv'
  <2>1. LocalOK([tick[i] EXCEPT !.at = "count", !.asOf = now, !.skip = ~enough])
    BY <1>0 DEF LocalOK, TickType
  <2>2. CASE GoTo(i, "write")
    BY <2>2, AnywhereElse DEF Stages
  <2>3. CASE GoWith(i, "count", "skip", ~enough)
    BY <2>1, <2>3, OneGoesOn DEF GoWith
  <2> QED BY <1>5, <2>2, <2>3 DEF CountNewItems
<1>6. ASSUME NEW i \in Instances, ReadScoredTopics(i) PROVE LocalInv'
  <2>1. ASSUME NEW batch \in UpTo(MaxTopics, Scored), GoWith(i, "batch", "rows", batch)
        PROVE  LocalInv'
    <3>1. LocalOK([tick[i] EXCEPT !.at = "batch", !.asOf = now, !.rows = batch])
      BY <1>0, UpToBounds, SchedulerAssumption DEF LocalOK, TickType
    <3> QED BY <2>1, <3>1, OneGoesOn DEF GoWith
  <2>2. CASE GoTo(i, "reflect")
    BY <2>2, AnywhereElse DEF Stages
  <2> QED BY <1>6, <2>1, <2>2 DEF ReadScoredTopics
<1>7. ASSUME NEW i \in Instances,
             \/ CreateScheduledContentRun(i) \/ EnqueueTopicScout(i) \/ ApproveBatch(i)
             \/ EnqueueMemoryReflect(i)
      PROVE  LocalInv'
  BY <1>7, AnywhereElse DEF CreateScheduledContentRun, EnqueueTopicScout, ApproveBatch,
     EnqueueMemoryReflect, Stages
<1>8. ASSUME NEW i \in Instances,
             tick' = [tick EXCEPT ![i] = [Resting EXCEPT !.done = TRUE]]
      PROVE  LocalInv'
  <2>1. LocalOK([Resting EXCEPT !.done = TRUE])
    BY DEF LocalOK, Resting
  <2> QED BY <1>8, <2>1, OneGoesOn
<1>9. ASSUME NEW i \in Instances, Tick(i) PROVE LocalInv'
  BY <1>9, <1>1, <1>2, <1>3, <1>4, <1>5, <1>6, <1>7, <1>8, <1>13, <1>14
  DEF Tick, EnqueueSourceFetch, ArchiveExpired
<1>10. ASSUME NEW i \in Instances, Failure(i) PROVE LocalInv'
  <2>1. CASE StepFails(i)
    <3>1. AfterFailure[tick[i].at] \in Stages \ {"slot", "send", "batch"}
      BY <2>1 DEF StepFails, AfterFailure, Stages
    <3> QED BY <2>1, <3>1, AnywhereElse DEF StepFails
  <2> QED BY <1>10, <1>4, <1>8, <2>1 DEF Failure, FetchFails, TickFails
<1>11. CASE PassMinute
  <2>1. ASSUME NEW j \in Instances PROVE LocalOK([tick[j] EXCEPT !.done = FALSE])
    BY <1>0 DEF LocalInv, LocalOK, TickType
  <2> QED BY <1>11, <2>1 DEF PassMinute, LocalInv, LocalOK
<1>12. CASE ItemsChange \/ People \/ UNCHANGED vars
  BY <1>12 DEF ItemsChange, People, UpdateSettings, TopicChanges, ArchiveSnapshot,
     RestoreSnapshot, vars, LocalInv, LocalOK
<1> QED BY <1>9, <1>10, <1>11, <1>12 DEF Next

\* Nobody was in a batch at the start.
LEMMA InitBatch == Init => BatchInv
<1> SUFFICES ASSUME Init PROVE BatchInv
  OBVIOUS
<1>1. ASSUME NEW m \in Minutes PROVE {u \in Topics : batchOf[u] = m} = {}
  BY SchedulerAssumption DEF Init, Minutes, Nobody
<1>2. ASSUME NEW m \in Minutes
      PROVE  Cardinality({u \in Topics : batchOf[u] = m}) <= MaxTopics
  <2>1. Cardinality({u \in Topics : batchOf[u] = m}) = 0
    BY <1>1, FS_EmptySet
  <2> QED BY <2>1, SchedulerAssumption
<1>3. \A t \in Topics : batchOf[t] = Nobody
  BY DEF Init
<1> QED BY <1>2, <1>3 DEF BatchInv

\* A batch is approved under a slot that nobody has had before, so it is the
\* slot's only one; it is a part of the rows read.
LEMMA StepKeepsBatches ==
    ASSUME TypeOK, LocalInv, LedgerInv, BatchInv, [Next]_vars
    PROVE  BatchInv'
<1>0. keys \subseteq keys'
  BY StepKeepsLedger
<1>1. ASSUME batchOf' = batchOf PROVE BatchInv'
  BY <1>0, <1>1 DEF BatchInv
<1>2. ASSUME NEW i \in Instances, ApproveBatch(i), Unclaimed(Write, tick[i].asOf)
      PROVE  BatchInv'
  <2> DEFINE mine == StillScored(tick[i].rows)
             InBatch(m) == {u \in Topics : batchOf[u] = m}
             InBatchNow(m) == {u \in Topics : batchOf'[u] = m}
  <2>1. /\ batchOf' = [t \in Topics |-> IF t \in mine THEN tick[i].asOf ELSE batchOf[t]]
        /\ <<Write, tick[i].asOf>> \in keys' /\ <<Write, tick[i].asOf>> \notin keys
    BY <1>2 DEF ApproveBatch, OncePerKey, ClaimAndSend, Unclaimed
  <2>2. /\ tick[i].asOf \in Minutes /\ tick[i].asOf # Nobody
        /\ mine \subseteq tick[i].rows /\ tick[i].rows \subseteq Topics
        /\ Cardinality(tick[i].rows) <= MaxTopics
    BY <1>2, TickOfInstance, SchedulerAssumption
    DEF TickType, Minutes, Nobody, StillScored, LocalInv, LocalOK, ApproveBatch
  <2> HIDE DEF mine
  <2>3. ASSUME NEW t \in Topics, batchOf'[t] # Nobody
        PROVE  <<Write, batchOf'[t]>> \in keys'
    BY <1>0, <2>1, <2>3 DEF BatchInv
  <2>4. ASSUME NEW m \in Minutes PROVE Cardinality(InBatchNow(m)) <= MaxTopics
    <3>1. IsFiniteSet(InBatch(m)) /\ IsFiniteSet(tick[i].rows)
      BY <2>2, FS_Subset, SchedulerAssumption
    <3>2. CASE m = tick[i].asOf
      <4>1. InBatch(m) = {}
        BY <2>1, <2>2, <3>2 DEF BatchInv
      <4>2. InBatchNow(m) \subseteq tick[i].rows
        BY <2>1, <2>2, <4>1
      <4>3. Cardinality(InBatchNow(m)) <= Cardinality(tick[i].rows)
            /\ IsFiniteSet(InBatchNow(m))
        BY <3>1, <4>2, FS_Subset
      <4> HIDE DEF InBatchNow
      <4> QED BY <2>2, <3>1, <4>3, FS_CardinalityType, SchedulerAssumption
    <3>3. CASE m # tick[i].asOf
      <4>1. InBatchNow(m) \subseteq InBatch(m)
        BY <2>1, <3>3
      <4>2. Cardinality(InBatchNow(m)) <= Cardinality(InBatch(m))
            /\ IsFiniteSet(InBatchNow(m))
        BY <3>1, <4>1, FS_Subset
      <4>3. Cardinality(InBatch(m)) <= MaxTopics
        BY DEF BatchInv
      <4> HIDE DEF InBatch, InBatchNow
      <4> QED BY <3>1, <4>2, <4>3, FS_CardinalityType, SchedulerAssumption
    <3> QED BY <3>2, <3>3
  <2> QED BY <2>3, <2>4 DEF BatchInv
<1>3. ASSUME NEW i \in Instances, ApproveBatch(i), ~Unclaimed(Write, tick[i].asOf)
      PROVE  batchOf' = batchOf
  BY <1>3 DEF ApproveBatch, TypeOK
<1>4. ASSUME NEW i \in Instances, Tick(i), ~ApproveBatch(i) PROVE batchOf' = batchOf
  BY <1>4 DEF Tick, BeginTick, ReadSlot, CreateScheduledContentRun, ReadDueSources,
     ReadFetchClock, EnqueueSourceFetch, CountNewItems, EnqueueTopicScout, ReadScoredTopics,
     ReadReflectTime, EnqueueMemoryReflect, ArchiveExpired
<1>5. ASSUME NEW i \in Instances, Failure(i) PROVE batchOf' = batchOf
  BY <1>5 DEF Failure, StepFails, FetchFails, TickFails
<1>6. ASSUME PassMinute \/ ItemsChange \/ People \/ UNCHANGED vars
      PROVE  batchOf' = batchOf
  BY <1>6 DEF PassMinute, ItemsChange, People, UpdateSettings, TopicChanges,
     ArchiveSnapshot, RestoreSnapshot, vars
<1> QED BY <1>1, <1>2, <1>3, <1>4, <1>5, <1>6 DEF Next

\* A slot is recorded for the minute that its step has read.
LEMMA RecordedAsOf ==
    ASSUME NEW i \in Instances, Tick(i) \/ Failure(i)
    PROVE  \A slot \in keys' : slot \in keys \/ slot[2] = tick[i].asOf
<1>1. CASE \/ CreateScheduledContentRun(i) \/ EnqueueSourceFetch(i) \/ EnqueueTopicScout(i)
           \/ ApproveBatch(i) \/ EnqueueMemoryReflect(i)
  BY <1>1 DEF CreateScheduledContentRun, EnqueueSourceFetch, EnqueueTopicScout, ApproveBatch,
     EnqueueMemoryReflect, OncePerKey, ClaimAndSend, ClaimAndSkip, Unscheduled
<1>2. CASE \/ BeginTick(i) \/ ReadSlot(i) \/ ReadDueSources(i) \/ CountNewItems(i)
           \/ \E s \in Sources : ReadFetchClock(i, s)
           \/ ReadScoredTopics(i) \/ ReadReflectTime(i) \/ ArchiveExpired(i) \/ Failure(i)
  BY <1>2 DEF BeginTick, ReadSlot, ReadDueSources, ReadFetchClock, CountNewItems,
     ReadScoredTopics, ReadReflectTime, ArchiveExpired, Failure, StepFails, FetchFails,
     TickFails
<1> QED BY <1>1, <1>2 DEF Tick

\* The minute a step has read is this one, the beginning of its slot, or the one
\* it had before.
LEMMA AsOfIsPast ==
    ASSUME TypeOK, LocalInv, TimeInv, NEW i \in Instances, Tick(i) \/ Failure(i)
    PROVE  \A j \in Instances : tick'[j].asOf <= now
<1>0. /\ now \in Nat /\ tick[i] \in TickType
      /\ \A j \in Instances : tick[j].asOf <= now
      /\ \A stage : [tick[i] EXCEPT !.at = stage].asOf = tick[i].asOf
  BY TickOfInstance, GoToIs, SchedulerAssumption DEF TypeOK, Minutes, TimeInv
<1>1. ASSUME NEW r, r.asOf <= now, tick' = [tick EXCEPT ![i] = r]
      PROVE  \A j \in Instances : tick'[j].asOf <= now
  BY <1>0, <1>1 DEF TypeOK
<1>2. ASSUME NEW stage, GoTo(i, stage) PROVE \A j \in Instances : tick'[j].asOf <= now
  <2>1. tick' = [tick EXCEPT ![i] = [tick[i] EXCEPT !.at = stage]]
    BY <1>2, GoToIs
  <2> QED BY <1>0, <1>1, <2>1
<1>3. CASE BeginTick(i)
  <2> DEFINE stage == IF settings.contentWorkflow THEN "slot" ELSE "due"
             r == [tick[i] EXCEPT !.at = stage, !.interval = settings.interval]
  <2>1. r.asOf = tick[i].asOf
    BY <1>0 DEF TickType
  <2>2. tick' = [tick EXCEPT ![i] = r]
    BY <1>3 DEF BeginTick, TypeOK
  <2> HIDE DEF r
  <2> QED BY <1>0, <1>1, <2>1, <2>2
<1>4. CASE ReadSlot(i)
  <2> DEFINE slot == SlotOf(now, tick[i].interval)
             r == [tick[i] EXCEPT !.at = "claim", !.asOf = slot]
  <2>1. slot <= now
    <3>1. tick[i].interval \in Nat \ {0}
      BY <1>4, SchedulerAssumption DEF ReadSlot, LocalInv, LocalOK
    <3> QED BY <1>0, <3>1, SlotOfIsAMinute
  <2> HIDE DEF slot
  <2>2. r.asOf = slot
    BY <1>0 DEF TickType
  <2>3. tick' = [tick EXCEPT ![i] = r]
    BY <1>4 DEF ReadSlot, TypeOK, slot
  <2> HIDE DEF r
  <2> QED BY <1>0, <1>1, <2>1, <2>2, <2>3
<1>5. CASE ReadDueSources(i)
  <2> DEFINE due == {s \in Sources : Due(s)}
             r == [tick[i] EXCEPT !.at = "fetch", !.due = due]
  <2>1. r.asOf = tick[i].asOf
    BY <1>0 DEF TickType
  <2>2. tick' = [tick EXCEPT ![i] = r]
    BY <1>5 DEF ReadDueSources, TypeOK
  <2> HIDE DEF r
  <2> QED BY <1>0, <1>1, <2>1, <2>2
<1>6. CASE \E s \in Sources : ReadFetchClock(i, s)
  <2>1. PICK s \in Sources : ReadFetchClock(i, s)
    BY <1>6
  <2>2. tick' = [tick EXCEPT ![i] = Sending(i, s)] /\ Sending(i, s).asOf <= now
    BY <1>0, <2>1, ReadFetchClockIs
  <2> QED BY <1>1, <2>2
<1>7. CASE EnqueueSourceFetch(i) \/ FetchFails(i)
  <2>1. tick' = [tick EXCEPT ![i] = Onward(i)] /\ Onward(i).asOf <= now
    BY <1>0, <1>7, NextSourceIs DEF EnqueueSourceFetch, FetchFails
  <2> QED BY <1>1, <2>1
<1>8. CASE CountNewItems(i)
  <2>1. CASE GoWith(i, "count", "skip", ~enough)
    <3> DEFINE r == [tick[i] EXCEPT !.at = "count", !.asOf = now, !.skip = ~enough]
    <3>1. r.asOf = now
      BY <1>0 DEF TickType
    <3>2. tick' = [tick EXCEPT ![i] = r]
      BY <2>1 DEF GoWith, TypeOK
    <3> HIDE DEF r
    <3> QED BY <1>0, <1>1, <3>1, <3>2
  <2> QED BY <1>2, <1>8, <2>1 DEF CountNewItems
<1>9. CASE ReadScoredTopics(i)
  <2>1. ASSUME NEW batch, GoWith(i, "batch", "rows", batch)
        PROVE  \A j \in Instances : tick'[j].asOf <= now
    <3> DEFINE r == [tick[i] EXCEPT !.at = "batch", !.asOf = now, !.rows = batch]
    <3>1. r.asOf = now
      BY <1>0 DEF TickType
    <3>2. tick' = [tick EXCEPT ![i] = r]
      BY <2>1 DEF GoWith, TypeOK
    <3> HIDE DEF r
    <3> QED BY <1>0, <1>1, <3>1, <3>2
  <2> QED BY <1>2, <1>9, <2>1 DEF ReadScoredTopics
<1>10. CASE ReadReflectTime(i)
  <2>1. CASE tick' = [tick EXCEPT ![i].at = "remember", ![i].asOf = now]
    <3> DEFINE r == [tick[i] EXCEPT !.at = "remember", !.asOf = now]
    <3>1. r.asOf = now
      BY <1>0 DEF TickType
    <3>2. tick' = [tick EXCEPT ![i] = r]
      BY <2>1 DEF TypeOK
    <3> HIDE DEF r
    <3> QED BY <1>0, <1>1, <3>1, <3>2
  <2> QED BY <1>2, <1>10, <2>1 DEF ReadReflectTime
<1>11. CASE ArchiveExpired(i) \/ TickFails(i)
  <2> DEFINE r == [Resting EXCEPT !.done = TRUE]
  <2>1. r.asOf = 0 /\ tick' = [tick EXCEPT ![i] = r]
    BY <1>11 DEF ArchiveExpired, TickFails, Resting
  <2> HIDE DEF r
  <2> QED BY <1>0, <1>1, <2>1
<1>12. CASE \/ CreateScheduledContentRun(i) \/ EnqueueTopicScout(i) \/ ApproveBatch(i)
            \/ EnqueueMemoryReflect(i) \/ StepFails(i)
  BY <1>2, <1>12 DEF CreateScheduledContentRun, EnqueueTopicScout, ApproveBatch,
     EnqueueMemoryReflect, StepFails
<1> QED
  BY <1>3, <1>4, <1>5, <1>6, <1>7, <1>8, <1>9, <1>10, <1>11, <1>12 DEF Tick, Failure

\* Every step of a tick happens within a minute.
LEMMA TicksTakeNoTime ==
    ASSUME NEW i \in Instances, Tick(i) \/ Failure(i)
    PROVE  UNCHANGED <<now, settings>>
BY DEF Tick, Failure, BeginTick, ReadSlot, CreateScheduledContentRun, ReadDueSources,
   ReadFetchClock, EnqueueSourceFetch, CountNewItems, EnqueueTopicScout, ReadScoredTopics,
   ApproveBatch, ReadReflectTime, EnqueueMemoryReflect, ArchiveExpired, StepFails,
   FetchFails, TickFails

\* Time is kept in order.
LEMMA StepKeepsTime ==
    ASSUME TypeOK, TypeOK', LocalInv, LedgerInv, TimeInv, [Next]_vars
    PROVE  TimeInv'
<1>0. now \in Nat /\ now' \in Nat
  BY SchedulerAssumption DEF TypeOK, Minutes
<1>1. ASSUME NEW i \in Instances, Tick(i) \/ Failure(i) PROVE TimeInv'
  BY <1>1, RecordedAsOf, AsOfIsPast, TicksTakeNoTime DEF TimeInv
<1>2. CASE PassMinute
  <2>1. now' = now + 1 /\ keys' = keys
        /\ \A j \in Instances : tick'[j] = [tick[j] EXCEPT !.done = FALSE]
    BY <1>2 DEF PassMinute
  <2>2. \A j \in Instances : tick'[j].asOf = tick[j].asOf /\ tick[j].asOf \in Nat
    <3>1. ASSUME NEW j \in Instances PROVE tick[j] \in TickType /\ Minutes \subseteq Nat
      BY TickOfInstance, SchedulerAssumption DEF Minutes
    <3>2. ASSUME NEW j \in Instances
          PROVE  [tick[j] EXCEPT !.done = FALSE].asOf = tick[j].asOf /\ tick[j].asOf \in Minutes
      BY <3>1 DEF TickType
    <3> QED BY <2>1, <3>1, <3>2
  <2>3. \A slot \in keys : slot[2] \in Nat
    BY SchedulerAssumption DEF LedgerInv, Minutes
  <2> QED BY <1>0, <2>1, <2>2, <2>3 DEF TimeInv
<1>3. CASE ItemsChange \/ People \/ UNCHANGED vars
  BY <1>3 DEF ItemsChange, People, UpdateSettings, TopicChanges, ArchiveSnapshot,
     RestoreSnapshot, vars, TimeInv
<1> QED BY <1>1, <1>2, <1>3 DEF Next

\* The invariant of the specification.
THEOREM Invariant == Spec => []IInv
<1>1. Init => IInv
  <2> SUFFICES ASSUME Init PROVE IInv
    OBVIOUS
  <2>1. LocalInv
    BY DEF Init, LocalInv, LocalOK, Resting
  <2>2. SlotsHaveTheirJobs
    BY DEF Init, SlotsHaveTheirJobs
  <2>3. TimeInv
    BY DEF Init, TimeInv, Resting
  <2> QED BY <2>1, <2>2, <2>3, InitType, InitBatch DEF IInv
<1>2. IInv /\ [Next]_vars => IInv'
  <2> SUFFICES ASSUME IInv, [Next]_vars PROVE IInv'
    OBVIOUS
  <2>1. LedgerInv
    BY DEF IInv, LedgerInv, TypeOK
  <2>2. TypeOK /\ LocalInv /\ BatchInv /\ TimeInv
    BY DEF IInv
  <2>3. TypeOK' /\ LocalInv' /\ LedgerInv' /\ BatchInv'
    BY <2>1, <2>2, StepKeepsType, StepKeepsLocal, StepKeepsLedger, StepKeepsBatches
  <2>4. TimeInv'
    BY <2>1, <2>2, <2>3, StepKeepsTime
  <2> QED BY <2>3, <2>4 DEF IInv, LedgerInv
<1> QED BY <1>1, <1>2, PTL DEF Spec

\* Every variable of the scheduler has its type.
THEOREM TypeCorrect == Spec => []TypeOK
<1>1. IInv => TypeOK
  BY DEF IInv
<1> QED BY <1>1, Invariant, PTL

\* A recorded slot has its one job and no job is without a slot, for any number
\* of instances whose ticks overlap, repeat and fail at any point.
THEOREM SlotsAreKept == Spec => []SlotsHaveTheirJobs
<1>1. IInv => SlotsHaveTheirJobs
  BY DEF IInv
<1> QED BY <1>1, Invariant, PTL

\* No slot's batch approves more than MaxTopics topics, whoever else approves,
\* rejects or ticks at the same time.
THEOREM BatchesKeepTheLimit == Spec => []BatchesAreBounded
<1>1. IInv => BatchesAreBounded
  BY DEF IInv, TypeOK, BatchInv, BatchesAreBounded
<1> QED BY <1>1, Invariant, PTL

------------------------------------------------------------------------------
(* One instance alone, or ticks that are over within the minute, keep every *)
(* source's interval.                                                       *)

\* next_run_at is an interval after the last fetch, and a source on the list of
\* a tick, or taken off it to be fetched, is still due, or another tick of the
\* same minute has fetched it.
StillDue(s, m) == nextRun[s] <= m \/ (Punctual /\ <<Fetch(s), m>> \in keys)

ListsAreDue(i) ==
    /\ tick[i].at \in {"fetch", "send"} => \A s \in tick[i].due : StillDue(s, now)
    /\ tick[i].at = "send" => /\ StillDue(tick[i].source, tick[i].asOf)
                              /\ Punctual => tick[i].asOf = now

FetchInv ==
    /\ FetchesKeepTheirInterval
    /\ \A s \in Sources, m \in Minutes :
           <<Fetch(s), m>> \in keys => m + SourceInterval(s) <= nextRun[s]
    /\ \A i \in Instances : ListsAreDue(i)

PunctualOrAlone == Punctual \/ \A i, j \in Instances : i = j

\* No key but a source's own is the key of its fetches.
LEMMA FetchKeysDiffer ==
    /\ \A s, r \in Sources : Fetch(s) = Fetch(r) => s = r
    /\ \A s \in Sources : Fetch(s) \notin {Content, Scout, Write, Reflect}
BY DEF Fetch, Content, Scout, Write, Reflect

\* No interval is zero.
LEMMA IntervalIsPositive == \A s \in Sources : SourceInterval(s) \in Nat \ {0}
BY SchedulerAssumption DEF SourceInterval

\* A step that records no fetch keeps what is said of them, if the lists of the
\* ticks stay due.
LEMMA NoFetchRecorded ==
    ASSUME TypeOK, TypeOK', FetchInv, nextRun' = nextRun,
           \A s \in Sources, m \in Minutes :
               <<Fetch(s), m>> \in keys' <=> <<Fetch(s), m>> \in keys,
           \A i \in Instances : ListsAreDue(i)'
    PROVE  FetchInv'
<1>1. \A s \in Sources : Fetched(s)' = Fetched(s)
  BY DEF Fetched
<1> QED BY <1>1 DEF FetchInv, FetchesKeepTheirInterval

\* Recording a slot of another key records no fetch.
LEMMA OtherKeys ==
    ASSUME NEW key \in {Content, Scout, Write, Reflect}, NEW planned,
           OncePerKey(key, planned) \/ ClaimAndSkip(key, planned)
    PROVE  \A s \in Sources, m \in Minutes :
               <<Fetch(s), m>> \in keys' <=> <<Fetch(s), m>> \in keys
<1>1. keys' \in {keys, keys \cup {<<key, planned>>}}
  BY DEF OncePerKey, ClaimAndSend, ClaimAndSkip, Unscheduled
<1> QED BY <1>1, FetchKeysDiffer

\* What a step does to the list of its tick: it has just been read, or the step
\* leaves it, or takes a source off it, or goes on with it.
JustRead(i) == tick'[i].at = "fetch" /\ tick'[i].due \subseteq {s \in Sources : Due(s)}
NoList(i) == tick'[i].at \notin {"fetch", "send"}
TakesOff(i) ==
    /\ tick[i].at = "fetch" /\ tick'[i].at = "send" /\ tick'[i].asOf = now
    /\ tick'[i].source \in tick[i].due
    /\ tick'[i].due = tick[i].due \ {tick'[i].source}
GoesOn(i) == tick[i].at = "send" /\ tick'[i].at = "fetch" /\ tick'[i].due = tick[i].due

ListStep(i) ==
    /\ \A j \in Instances \ {i} : tick'[j] = tick[j]
    /\ JustRead(i) \/ NoList(i) \/ TakesOff(i) \/ GoesOn(i)

\* A step that moves on to another stage is such a step.
LEMMA GoToLeavesList ==
    ASSUME TypeOK, NEW i \in Instances, NEW stage \in Stages \ {"fetch", "send"},
           GoTo(i, stage)
    PROVE  ListStep(i)
<1>1. tick' = [tick EXCEPT ![i] = [tick[i] EXCEPT !.at = stage]]
      /\ [tick[i] EXCEPT !.at = stage].at = stage
  BY GoToIs
<1> QED BY <1>1 DEF ListStep, NoList, TypeOK

\* Every step of a tick, or its failure, is such a step.
LEMMA TickLists ==
    ASSUME TypeOK, NEW i \in Instances, Tick(i) \/ Failure(i)
    PROVE  ListStep(i)
<1>0. tick[i] \in TickType
  BY TickOfInstance
<1>1. ASSUME NEW r, r.at \notin {"fetch", "send"}, tick' = [tick EXCEPT ![i] = r]
      PROVE  ListStep(i)
  BY <1>1 DEF ListStep, NoList, TypeOK
<1>2. CASE BeginTick(i)
  <2> DEFINE stage == IF settings.contentWorkflow THEN "slot" ELSE "due"
             r == [tick[i] EXCEPT !.at = stage, !.interval = settings.interval]
  <2>1. r.at \notin {"fetch", "send"}
    BY <1>0 DEF TickType
  <2>2. tick' = [tick EXCEPT ![i] = r]
    BY <1>2 DEF BeginTick, TypeOK
  <2> HIDE DEF r
  <2> QED BY <1>1, <2>1, <2>2
<1>3. CASE ReadSlot(i)
  <2> DEFINE slot == SlotOf(now, tick[i].interval)
             r == [tick[i] EXCEPT !.at = "claim", !.asOf = slot]
  <2>1. r.at \notin {"fetch", "send"}
    BY <1>0 DEF TickType
  <2>2. tick' = [tick EXCEPT ![i] = r]
    BY <1>3 DEF ReadSlot, TypeOK
  <2> HIDE DEF r
  <2> QED BY <1>1, <2>1, <2>2
<1>4. CASE ReadDueSources(i)
  <2> DEFINE due == {s \in Sources : Due(s)}
             r == [tick[i] EXCEPT !.at = "fetch", !.due = due]
  <2>1. r.at = "fetch" /\ r.due = due
    BY <1>0 DEF TickType
  <2>2. tick' = [tick EXCEPT ![i] = r]
    BY <1>4 DEF ReadDueSources, TypeOK
  <2> HIDE DEF r
  <2> QED BY <2>1, <2>2 DEF ListStep, JustRead, TypeOK
<1>5. CASE \E s \in Sources : ReadFetchClock(i, s)
  <2>1. PICK s \in Sources : ReadFetchClock(i, s)
    BY <1>5
  <2>2. tick[i].at = "fetch" /\ s \in tick[i].due
    BY <2>1 DEF ReadFetchClock
  <2> QED BY <2>1, <2>2, ReadFetchClockIs DEF ListStep, TakesOff, TypeOK
<1>6. CASE EnqueueSourceFetch(i) \/ FetchFails(i)
  <2>1. NextSource(i) /\ tick[i].at = "send"
    BY <1>6 DEF EnqueueSourceFetch, FetchFails
  <2> QED BY <2>1, NextSourceIs DEF ListStep, GoesOn, TypeOK
<1>7. CASE CountNewItems(i)
  <2>1. CASE GoTo(i, "write")
    BY <2>1, GoToLeavesList DEF Stages
  <2>2. CASE GoWith(i, "count", "skip", ~enough)
    <3> DEFINE r == [tick[i] EXCEPT !.at = "count", !.asOf = now, !.skip = ~enough]
    <3>1. r.at \notin {"fetch", "send"}
      BY <1>0 DEF TickType
    <3>2. tick' = [tick EXCEPT ![i] = r]
      BY <2>2 DEF GoWith, TypeOK
    <3> HIDE DEF r
    <3> QED BY <1>1, <3>1, <3>2
  <2> QED BY <1>7, <2>1, <2>2 DEF CountNewItems
<1>8. CASE ReadScoredTopics(i)
  <2>1. CASE GoTo(i, "reflect")
    BY <2>1, GoToLeavesList DEF Stages
  <2>2. ASSUME NEW batch, GoWith(i, "batch", "rows", batch) PROVE ListStep(i)
    <3> DEFINE r == [tick[i] EXCEPT !.at = "batch", !.asOf = now, !.rows = batch]
    <3>1. r.at \notin {"fetch", "send"}
      BY <1>0 DEF TickType
    <3>2. tick' = [tick EXCEPT ![i] = r]
      BY <2>2 DEF GoWith, TypeOK
    <3> HIDE DEF r
    <3> QED BY <1>1, <3>1, <3>2
  <2> QED BY <1>8, <2>1, <2>2 DEF ReadScoredTopics
<1>9. CASE ReadReflectTime(i)
  <2>1. CASE GoTo(i, "retain")
    BY <2>1, GoToLeavesList DEF Stages
  <2>2. CASE tick' = [tick EXCEPT ![i].at = "remember", ![i].asOf = now]
    <3> DEFINE r == [tick[i] EXCEPT !.at = "remember", !.asOf = now]
    <3>1. r.at \notin {"fetch", "send"}
      BY <1>0 DEF TickType
    <3>2. tick' = [tick EXCEPT ![i] = r]
      BY <2>2 DEF TypeOK
    <3> HIDE DEF r
    <3> QED BY <1>1, <3>1, <3>2
  <2> QED BY <1>9, <2>1, <2>2 DEF ReadReflectTime
<1>10. CASE \/ CreateScheduledContentRun(i) \/ EnqueueTopicScout(i) \/ ApproveBatch(i)
            \/ EnqueueMemoryReflect(i)
  BY <1>10, GoToLeavesList DEF CreateScheduledContentRun, EnqueueTopicScout,
     ApproveBatch, EnqueueMemoryReflect, Stages
<1>11. CASE ArchiveExpired(i) \/ TickFails(i)
  <2> DEFINE r == [Resting EXCEPT !.done = TRUE]
  <2>1. r.at \notin {"fetch", "send"} /\ tick' = [tick EXCEPT ![i] = r]
    BY <1>11 DEF ArchiveExpired, TickFails, Resting
  <2> HIDE DEF r
  <2> QED BY <1>1, <2>1
<1>12. CASE StepFails(i)
  <2>1. AfterFailure[tick[i].at] \in Stages \ {"fetch", "send"}
    BY <1>12 DEF StepFails, AfterFailure, Stages
  <2> QED BY <1>12, <2>1, GoToLeavesList DEF StepFails
<1> QED
  BY <1>2, <1>3, <1>4, <1>5, <1>6, <1>7, <1>8, <1>9, <1>10, <1>11, <1>12
  DEF Tick, Failure

\* A step that does so leaves every list due, if what was due stays so.
LEMMA ListsStayDue ==
    ASSUME TypeOK, LocalInv, FetchInv, NEW i \in Instances, ListStep(i), now' = now,
           \A s \in Sources, m \in Minutes : StillDue(s, m) => StillDue(s, m)'
    PROVE  \A j \in Instances : ListsAreDue(j)'
<1>0. now \in Minutes /\ \A j \in Instances : tick[j] \in TickType /\ ListsAreDue(j)
  BY TickOfInstance DEF TypeOK, FetchInv
<1>1. ASSUME NEW j \in Instances \ {i} PROVE ListsAreDue(j)'
  <2>1. tick'[j] = tick[j] /\ ListsAreDue(j)
    BY <1>0 DEF ListStep
  <2>2. /\ tick[j].due \subseteq Sources /\ tick[j].asOf \in Minutes
        /\ tick[j].at = "send" => tick[j].source \in Sources
    BY <1>0 DEF TickType, LocalInv, LocalOK
  <2> QED BY <1>0, <2>1, <2>2 DEF ListsAreDue
<1>2. tick[i].due \subseteq Sources
  BY <1>0 DEF TickType
<1>3. CASE JustRead(i)
  <2>1. \A s \in tick'[i].due : s \in Sources /\ StillDue(s, now)
    BY <1>3 DEF JustRead, StillDue, Due
  <2> QED BY <1>0, <1>1, <1>3, <2>1 DEF JustRead, ListsAreDue
<1>4. CASE NoList(i)
  BY <1>1, <1>4 DEF NoList, ListsAreDue
<1>5. CASE TakesOff(i)
  <2>1. \A s \in tick[i].due : StillDue(s, now)'
    BY <1>0, <1>2, <1>5 DEF TakesOff, ListsAreDue
  <2> QED BY <1>1, <1>5, <2>1 DEF TakesOff, ListsAreDue
<1>6. CASE GoesOn(i)
  <2>1. \A s \in tick[i].due : StillDue(s, now)'
    BY <1>0, <1>2, <1>6 DEF GoesOn, ListsAreDue
  <2> QED BY <1>1, <1>6, <2>1 DEF GoesOn, ListsAreDue
<1> QED BY <1>1, <1>3, <1>4, <1>5, <1>6 DEF ListStep

\* The fetch of a source that is due is an interval after the last one; and a
\* source is due at the minute that its fetch has read, or that minute's key is
\* taken.
LEMMA FetchKeepsInterval ==
    ASSUME TypeOK, TypeOK', LocalInv, FetchInv, PunctualOrAlone, NEW i \in Instances,
           EnqueueSourceFetch(i)
    PROVE  FetchInv'
<1>a. PICK s, m0 : s = tick[i].source /\ m0 = tick[i].asOf
  OBVIOUS
<1>0. /\ now' = now /\ s \in Sources /\ s \notin tick[i].due /\ StillDue(s, m0)
      /\ Punctual => m0 = now
      /\ m0 \in Minutes /\ m0 \in Nat /\ Minutes \subseteq Nat
      /\ SourceInterval(s) \in Nat /\ nextRun[s] \in Nat
  <2>1. tick[i].at = "send" /\ ListsAreDue(i) /\ now' = now
    BY DEF EnqueueSourceFetch, FetchInv
  <2>2. s \in Sources \ tick[i].due /\ m0 \in Minutes /\ Minutes \subseteq Nat
    BY <1>a, <2>1, TickOfInstance, SchedulerAssumption
    DEF LocalInv, LocalOK, TickType, Minutes
  <2>3. StillDue(s, m0) /\ (Punctual => m0 = now)
    BY <1>a, <2>1 DEF ListsAreDue
  <2> QED BY <2>1, <2>2, <2>3, IntervalIsPositive DEF TypeOK
<1>1. ListStep(i)
  BY TickLists DEF Tick
<1>2. CASE Unclaimed(Fetch(s), m0)
  <2>1. /\ keys' = keys \cup {<<Fetch(s), m0>>}
        /\ nextRun' = [nextRun EXCEPT ![s] = m0 + SourceInterval(s)]
    BY <1>a, <1>2 DEF EnqueueSourceFetch, OncePerKey, ClaimAndSend
  <2>2. ASSUME NEW r \in Sources, NEW m \in Minutes
        PROVE  <<Fetch(r), m>> \in keys' <=>
                   <<Fetch(r), m>> \in keys \/ (r = s /\ m = m0)
    BY <1>0, <2>1, FetchKeysDiffer
  <2>3. \A m \in Fetched(s) : m \in Nat /\ m + SourceInterval(s) <= m0
    <3>1. nextRun[s] <= m0
      BY <1>0, <1>2 DEF StillDue, Unclaimed
    <3> QED BY <1>0, <3>1 DEF Fetched, FetchInv
  <2>4. Fetched(s)' = Fetched(s) \cup {m0}
    BY <1>0, <2>2 DEF Fetched
  <2>5. \A r \in Sources \ {s} : Fetched(r)' = Fetched(r)
    BY <2>2 DEF Fetched
  <2>6. ASSUME NEW m \in Fetched(s)', NEW n \in Fetched(s)', m < n
        PROVE  n - m >= SourceInterval(s)
    <3>1. CASE m = m0 /\ n \in Fetched(s)
      BY <1>0, <2>3, <2>6, <3>1
    <3>2. CASE n = m0 /\ m \in Fetched(s)
      BY <1>0, <2>3, <3>2
    <3>3. CASE m \in Fetched(s) /\ n \in Fetched(s)
      BY <1>0, <2>6, <3>3 DEF FetchInv, FetchesKeepTheirInterval
    <3>4. CASE m = m0 /\ n = m0
      BY <1>0, <2>6, <3>4
    <3> QED BY <2>4, <3>1, <3>2, <3>3, <3>4
  <2>7. FetchesKeepTheirInterval'
    BY <2>5, <2>6 DEF FetchesKeepTheirInterval, FetchInv
  <2>8. ASSUME NEW r \in Sources, NEW m \in Minutes, <<Fetch(r), m>> \in keys'
        PROVE  m + SourceInterval(r) <= nextRun'[r]
    <3>1. CASE r = s
      <4>1. m = m0 \/ m \in Fetched(s)
        BY <2>2, <2>8, <3>1 DEF Fetched
      <4>2. nextRun'[s] = m0 + SourceInterval(s)
        BY <1>0, <2>1 DEF TypeOK
      <4> QED BY <1>0, <2>3, <3>1, <4>1, <4>2
    <3>2. CASE r # s
      BY <2>1, <2>2, <2>8, <3>2 DEF FetchInv, TypeOK
    <3> QED BY <3>1, <3>2
  <2>9. ASSUME NEW r, NEW m, r # s \/ (Punctual /\ m = now), StillDue(r, m), r \in Sources
        PROVE  StillDue(r, m)'
    <3>1. CASE r # s
      BY <2>1, <2>9, <3>1 DEF StillDue, TypeOK
    <3>2. CASE Punctual /\ m = now /\ r = s
      BY <1>0, <2>1, <3>2 DEF StillDue
    <3> QED BY <2>9, <3>1, <3>2
  <2>10. /\ tick'[i].at = "fetch" /\ tick'[i].due = tick[i].due
         /\ tick[i].at = "send" /\ tick[i].due \subseteq Sources
    BY NextSourceIs, TickOfInstance DEF EnqueueSourceFetch, TypeOK, TickType
  <2>11. ListsAreDue(i)'
    <3>1. ASSUME NEW r \in tick[i].due PROVE StillDue(r, now)'
      <4>1. ListsAreDue(i)
        BY DEF FetchInv
      <4>2. StillDue(r, now) /\ r # s /\ r \in Sources
        BY <1>0, <2>10, <4>1 DEF ListsAreDue
      <4>3. nextRun'[r] = nextRun[r]
        BY <2>1, <4>2 DEF TypeOK
      <4> QED BY <1>0, <2>1, <4>2, <4>3 DEF StillDue
    <3> QED BY <1>0, <2>10, <3>1 DEF ListsAreDue
  <2>12. ASSUME NEW j \in Instances, j # i PROVE ListsAreDue(j)'
    <3>1. Punctual /\ tick'[j] = tick[j] /\ ListsAreDue(j)
      BY <1>1, <2>12 DEF PunctualOrAlone, ListStep, FetchInv
    <3>2. /\ tick[j].due \subseteq Sources
          /\ tick[j].at = "send" => tick[j].source \in Sources
      BY TickOfInstance DEF TickType, LocalInv, LocalOK
    <3>3. \A r \in Sources : StillDue(r, now) => StillDue(r, now)'
      BY <1>0, <2>9, <3>1 DEF StillDue
    <3> QED BY <1>0, <3>1, <3>2, <3>3 DEF ListsAreDue
  <2> QED BY <2>7, <2>8, <2>11, <2>12 DEF FetchInv
<1>3. CASE ~Unclaimed(Fetch(s), m0)
  <2>1. UNCHANGED <<keys, nextRun, now>>
    BY <1>a, <1>3 DEF EnqueueSourceFetch, OncePerKey, Unscheduled
  <2>2. \A j \in Instances : ListsAreDue(j)'
    BY <1>1, <2>1, ListsStayDue DEF StillDue
  <2> QED BY <2>1, <2>2, NoFetchRecorded
<1> QED BY <1>2, <1>3

\* A step of a tick that is no fetch records none.
LEMMA FetchesRecorded ==
    ASSUME NEW i \in Instances, Tick(i) \/ Failure(i),
           EnqueueSourceFetch(i) => ~Unclaimed(Fetch(tick[i].source), tick[i].asOf)
    PROVE  /\ UNCHANGED nextRun
           /\ \A s \in Sources, m \in Minutes :
                  <<Fetch(s), m>> \in keys' <=> <<Fetch(s), m>> \in keys
<1>1. CASE \/ CreateScheduledContentRun(i) \/ EnqueueTopicScout(i) \/ ApproveBatch(i)
           \/ EnqueueMemoryReflect(i)
  BY <1>1, OtherKeys DEF CreateScheduledContentRun, EnqueueTopicScout, ApproveBatch,
     EnqueueMemoryReflect, Unscheduled
<1>2. CASE \/ BeginTick(i) \/ ReadSlot(i) \/ ReadDueSources(i) \/ CountNewItems(i)
           \/ \E s \in Sources : ReadFetchClock(i, s)
           \/ ReadScoredTopics(i) \/ ReadReflectTime(i) \/ ArchiveExpired(i) \/ Failure(i)
  BY <1>2 DEF BeginTick, ReadSlot, ReadDueSources, ReadFetchClock, CountNewItems,
     ReadScoredTopics, ReadReflectTime, ArchiveExpired, Failure, StepFails, FetchFails,
     TickFails
<1>3. CASE EnqueueSourceFetch(i)
  BY <1>3 DEF EnqueueSourceFetch, OncePerKey, Unscheduled
<1> QED BY <1>1, <1>2, <1>3 DEF Tick

\* Every step keeps what is said of the fetches.
LEMMA StepKeepsFetches ==
    ASSUME IInv, TypeOK', FetchInv, PunctualOrAlone, [Next]_vars
    PROVE  FetchInv'
<1>0. /\ TypeOK /\ LocalInv /\ LedgerInv /\ now \in Nat /\ now' \in Nat
      /\ \A s \in Sources : nextRun[s] \in Nat
  BY SchedulerAssumption DEF IInv, TypeOK, Minutes, LedgerInv
<1>1. ASSUME NEW i \in Instances, EnqueueSourceFetch(i) PROVE FetchInv'
  BY <1>0, <1>1, FetchKeepsInterval
<1>2. ASSUME NEW i \in Instances, Tick(i) \/ Failure(i), ~EnqueueSourceFetch(i)
      PROVE  FetchInv'
  <2>1. now' = now /\ nextRun' = nextRun /\ keys \subseteq keys'
    BY <1>0, <1>2, FetchesRecorded, TicksTakeNoTime, StepKeepsLedger DEF Next
  <2>2. \A j \in Instances : ListsAreDue(j)'
    BY <1>0, <1>2, <2>1, TickLists, ListsStayDue DEF StillDue
  <2> QED BY <1>0, <1>2, <2>1, <2>2, FetchesRecorded, NoFetchRecorded
<1>3. CASE PassMinute
  <2>1. /\ now < now' /\ nextRun' = nextRun /\ keys' = keys
        /\ \A j \in Instances : tick'[j] = [tick[j] EXCEPT !.done = FALSE]
    BY <1>0, <1>3 DEF PassMinute
  <2>2. ASSUME NEW j \in Instances
        PROVE  /\ tick'[j].at = tick[j].at /\ tick'[j].due = tick[j].due
               /\ tick'[j].source = tick[j].source /\ tick'[j].asOf = tick[j].asOf
               /\ tick[j].due \subseteq Sources
    BY <1>0, <2>1, TickOfInstance DEF TickType
  <2>3. ASSUME NEW j \in Instances PROVE ListsAreDue(j)'
    <3>1. CASE Punctual
      BY <1>3, <2>2, <3>1 DEF PassMinute, ListsAreDue
    <3>2. CASE ~Punctual
      <4>1. ListsAreDue(j)
        BY DEF FetchInv
      <4>2. /\ \A s, m : StillDue(s, m)' <=> nextRun[s] <= m
            /\ \A s, m : StillDue(s, m) <=> nextRun[s] <= m
        BY <2>1, <3>2 DEF StillDue
      <4>3. \A s \in Sources : nextRun[s] <= now => nextRun[s] <= now'
        BY <1>0, <2>1
      <4> QED BY <2>2, <3>2, <4>1, <4>2, <4>3 DEF ListsAreDue
    <3> QED BY <3>1, <3>2
  <2> QED BY <1>0, <2>1, <2>3, NoFetchRecorded
<1>4. CASE ItemsChange \/ People \/ UNCHANGED vars
  <2>1. /\ now' = now /\ nextRun' = nextRun /\ keys' = keys /\ tick' = tick
    BY <1>4 DEF ItemsChange, People, UpdateSettings, TopicChanges, ArchiveSnapshot,
       RestoreSnapshot, vars
  <2>2. \A j \in Instances : ListsAreDue(j)'
    BY <2>1 DEF FetchInv, ListsAreDue, StillDue
  <2> QED BY <1>0, <2>1, <2>2, NoFetchRecorded
<1> QED BY <1>1, <1>2, <1>3, <1>4 DEF Next

\* A source is not fetched again before its interval is over, although the list
\* of due sources is read outside of the transactions: with one instance, or with
\* any number of them if ticks are over within the minute they begin in.
THEOREM PunctualOrLoneTicksKeepIntervals ==
    ASSUME PunctualOrAlone
    PROVE  Spec => []FetchesKeepTheirInterval
<1>1. Init => FetchInv
  BY DEF Init, FetchInv, ListsAreDue, FetchesKeepTheirInterval, Fetched, Resting
<1>2. IInv /\ TypeOK' /\ FetchInv /\ [Next]_vars => FetchInv'
  BY StepKeepsFetches
<1>3. FetchInv => FetchesKeepTheirInterval
  BY DEF FetchInv
<1> QED BY <1>1, <1>2, <1>3, Invariant, TypeCorrect, PTL DEF Spec

------------------------------------------------------------------------------
(* Decisions on topics.                                                     *)

\* Nobody's decision on a topic, an earlier batch's included, is undone or
\* claimed by a batch that read the topic before: the update compares.
THEOREM DecisionsAreKept == Spec => DecisionsStand
<1> DEFINE Decided(t) == topic[t] \in {"approved", "rejected"}
           Stands(t) == topic'[t] = topic[t] /\ batchOf'[t] = batchOf[t]
<1>1. ASSUME TypeOK, [Next]_vars, NEW t \in Topics, Decided(t) PROVE Stands(t)
  <2>1. CASE \E i \in Instances : ApproveBatch(i)
    <3>1. PICK i \in Instances : ApproveBatch(i)
      BY <2>1
    <3>2. t \notin StillScored(tick[i].rows)
      BY <1>1 DEF StillScored
    <3> QED BY <3>1, <3>2 DEF ApproveBatch
  <2>2. CASE \E u \in Topics : TopicChanges(u)
    <3>1. PICK u \in Topics : TopicChanges(u)
      BY <2>2
    <3>2. u # t
      BY <1>1, <3>1 DEF TopicChanges
    <3> QED BY <1>1, <3>1, <3>2 DEF TopicChanges, TypeOK
  <2>3. ASSUME NEW i \in Instances, Tick(i), ~ApproveBatch(i) PROVE Stands(t)
    BY <2>3 DEF Tick, BeginTick, ReadSlot, CreateScheduledContentRun, ReadDueSources,
       ReadFetchClock, EnqueueSourceFetch, CountNewItems, EnqueueTopicScout,
       ReadScoredTopics, ReadReflectTime, EnqueueMemoryReflect, ArchiveExpired
  <2>4. ASSUME NEW i \in Instances, Failure(i) PROVE Stands(t)
    BY <2>4 DEF Failure, StepFails, FetchFails, TickFails
  <2>5. CASE \/ PassMinute \/ ItemsChange \/ UpdateSettings \/ UNCHANGED vars
             \/ \E snap \in Snapshots : ArchiveSnapshot(snap) \/ RestoreSnapshot(snap)
    BY <2>5 DEF PassMinute, ItemsChange, UpdateSettings, ArchiveSnapshot,
       RestoreSnapshot, vars
  <2> QED BY <1>1, <2>1, <2>2, <2>3, <2>4, <2>5 DEF Next, People
<1>2. TypeOK /\ [Next]_vars =>
          [\A t \in Topics : topic[t] \in {"approved", "rejected"} =>
               topic'[t] = topic[t] /\ batchOf'[t] = batchOf[t]]_vars
  BY <1>1
<1> QED BY <1>2, TypeCorrect, PTL DEF Spec, DecisionsStand

------------------------------------------------------------------------------
(* Any number of instances that tick and stall at any time: the number of   *)
(* fetches in a stretch of a source's interval is bounded by theirs.        *)

Window(s, m) == Fetched(s) \cap m..(m + SourceInterval(s) - 1)

\* The instances that hold no minute from before the stretch for the source: a
\* commit of one that does puts next_run_at back, once.
Young(s, m) ==
    {i \in Instances : ~(tick[i].at = "send" /\ tick[i].source = s /\ tick[i].asOf < m)}

\* The instances whose list, or whose clock, still lets them fetch within it.
Ready(s, m) ==
    {i \in Instances :
        \/ /\ tick[i].at \in {"fetch", "send"} /\ s \in tick[i].due
           /\ now < m + SourceInterval(s)
        \/ /\ tick[i].at = "send" /\ tick[i].source = s
           /\ tick[i].asOf \in m..(m + SourceInterval(s) - 1)}

\* The instances that may fetch within the stretch before next_run_at is put
\* back: every one that is young, if the source is due within it.
Claimants(s, m) ==
    IF nextRun[s] < m + SourceInterval(s) THEN Young(s, m)
    ELSE Ready(s, m) \cap Young(s, m)

\* With k instances that are young, at most k + (k - 1) + ... + 1 fetches have
\* been made or may be made: those already made and the claimants' are within
\* that sum, and each instance that becomes young again adds one more round.
Twice(s, m) == 2 * (Cardinality(Window(s, m)) + Cardinality(Claimants(s, m)))
Rounds(s, m) == Cardinality(Young(s, m)) * (Cardinality(Young(s, m)) + 1)

WindowInv == \A s \in Sources, m \in Minutes : m <= now => Twice(s, m) <= Rounds(s, m)

\* These sets are finite.
LEMMA WindowSizes ==
    ASSUME NEW s, NEW m
    PROVE  /\ IsFiniteSet(Window(s, m)) /\ Cardinality(Window(s, m)) \in Nat
           /\ IsFiniteSet(Young(s, m)) /\ Cardinality(Young(s, m)) \in Nat
           /\ IsFiniteSet(Claimants(s, m)) /\ Cardinality(Claimants(s, m)) \in Nat
           /\ Claimants(s, m) \subseteq Young(s, m)
           /\ Cardinality(Claimants(s, m)) <= Cardinality(Young(s, m))
           /\ Cardinality(Instances) \in Nat
           /\ Cardinality(Young(s, m)) <= Cardinality(Instances)
<1>1. IsFiniteSet(Minutes)
  BY FS_Interval, SchedulerAssumption DEF Minutes
<1>2. IsFiniteSet(Window(s, m))
  BY <1>1, FS_Subset DEF Window, Fetched
<1>3. /\ IsFiniteSet(Instances) /\ IsFiniteSet(Young(s, m))
      /\ Cardinality(Young(s, m)) <= Cardinality(Instances)
  BY FS_Subset, SchedulerAssumption DEF Young
<1>4. Claimants(s, m) \subseteq Young(s, m)
  BY DEF Claimants
<1>5. IsFiniteSet(Claimants(s, m)) /\ Cardinality(Claimants(s, m)) <= Cardinality(Young(s, m))
  BY <1>3, <1>4, FS_Subset
<1> QED BY <1>2, <1>3, <1>4, <1>5, FS_CardinalityType

\* So they are after a step.
LEMMA WindowSizesAfter ==
    ASSUME NEW s, NEW m
    PROVE  /\ IsFiniteSet(Window(s, m)') /\ Cardinality(Window(s, m)') \in Nat
           /\ IsFiniteSet(Young(s, m)') /\ Cardinality(Young(s, m)') \in Nat
           /\ IsFiniteSet(Claimants(s, m)') /\ Cardinality(Claimants(s, m)') \in Nat
           /\ Claimants(s, m)' \subseteq Young(s, m)'
           /\ Cardinality(Claimants(s, m)') <= Cardinality(Young(s, m)')
<1>1. IsFiniteSet(Minutes)
  BY FS_Interval, SchedulerAssumption DEF Minutes
<1>2. IsFiniteSet(Window(s, m)')
  <2>1. Window(s, m)' \subseteq Minutes
    BY DEF Window, Fetched
  <2> QED BY <1>1, <2>1, FS_Subset
<1>3. /\ IsFiniteSet(Instances) /\ IsFiniteSet(Young(s, m)')
  <2>1. Young(s, m)' \subseteq Instances
    BY DEF Young
  <2> QED BY <2>1, FS_Subset, SchedulerAssumption
<1>4. Claimants(s, m)' \subseteq Young(s, m)'
  BY DEF Claimants
<1>5. IsFiniteSet(Claimants(s, m)') /\ Cardinality(Claimants(s, m)') <= Cardinality(Young(s, m)')
  BY <1>3, <1>4, FS_Subset
<1> QED BY <1>2, <1>3, <1>4, <1>5, FS_CardinalityType

\* A number is within its sum.
LEMMA TwiceIsWithin == ASSUME NEW k \in Nat PROVE 2 * k <= k * (k + 1)
<1>1. CASE k = 0
  BY <1>1
<1>2. CASE k >= 1
  <2>1. k * (k - 1) \in Nat /\ k * (k + 1) = k * (k - 1) + 2 * k
    BY <1>2
  <2> QED BY <2>1
<1> QED BY <1>1, <1>2

\* The four ways in which the sum is kept.  Nothing has been fetched yet.
LEMMA NothingYet ==
    ASSUME NEW s, NEW m, Window(s, m)' = {}
    PROVE  (Twice(s, m) <= Rounds(s, m))'
<1> DEFINE c == Cardinality(Claimants(s, m)')
           k == Cardinality(Young(s, m)')
<1>1. Cardinality(Window(s, m)') = 0
  BY FS_EmptySet
<1>2. c \in Nat /\ k \in Nat /\ c <= k
  BY WindowSizesAfter
<1>3. Twice(s, m)' = 2 * c /\ Rounds(s, m)' = k * (k + 1)
  BY <1>1, <1>2 DEF Twice, Rounds
<1> HIDE DEF c, k
<1>4. 2 * k <= k * (k + 1)
  BY <1>2, TwiceIsWithin
<1>5. 2 * c <= 2 * k /\ k * (k + 1) \in Nat
  BY <1>2
<1> QED BY <1>2, <1>3, <1>4, <1>5

\* Nothing is fetched, and nobody new may fetch.
LEMMA FewerClaimants ==
    ASSUME NEW s, NEW m, Twice(s, m) <= Rounds(s, m), Window(s, m)' = Window(s, m),
           Young(s, m)' = Young(s, m), Claimants(s, m)' \subseteq Claimants(s, m)
    PROVE  (Twice(s, m) <= Rounds(s, m))'
<1>1. Cardinality(Claimants(s, m)') <= Cardinality(Claimants(s, m))
  BY WindowSizes, FS_Subset
<1>2. Twice(s, m)' <= Twice(s, m) /\ Rounds(s, m)' = Rounds(s, m)
  BY <1>1, WindowSizes, WindowSizesAfter DEF Twice, Rounds
<1>3. /\ Twice(s, m) \in Nat /\ Twice(s, m)' \in Nat /\ Rounds(s, m) \in Nat
  BY WindowSizes, WindowSizesAfter DEF Twice, Rounds
<1> QED BY <1>2, <1>3

\* One that may fetch within the stretch does.
LEMMA OneClaims ==
    ASSUME NEW s, NEW m, Twice(s, m) <= Rounds(s, m), NEW x, NEW i \in Claimants(s, m),
           Window(s, m)' \subseteq Window(s, m) \cup {x},
           Young(s, m)' = Young(s, m), Claimants(s, m)' \subseteq Claimants(s, m) \ {i}
    PROVE  (Twice(s, m) <= Rounds(s, m))'
<1>1. Cardinality(Claimants(s, m)') <= Cardinality(Claimants(s, m)) - 1
  <2>1. /\ IsFiniteSet(Claimants(s, m) \ {i})
        /\ Cardinality(Claimants(s, m) \ {i}) = Cardinality(Claimants(s, m)) - 1
    BY WindowSizes, FS_RemoveElement
  <2> QED BY <2>1, FS_Subset
<1>2. Cardinality(Window(s, m)') <= Cardinality(Window(s, m)) + 1
  <2>1. /\ IsFiniteSet(Window(s, m) \cup {x})
        /\ Cardinality(Window(s, m) \cup {x}) <= Cardinality(Window(s, m)) + 1
    <3>1. Cardinality(Window(s, m) \cup {x})
              \in {Cardinality(Window(s, m)), Cardinality(Window(s, m)) + 1}
          /\ IsFiniteSet(Window(s, m) \cup {x})
      BY WindowSizes, FS_AddElement
    <3> QED BY <3>1, WindowSizes
  <2>2. Cardinality(Window(s, m)') <= Cardinality(Window(s, m) \cup {x})
    BY <2>1, FS_Subset
  <2> QED BY <2>1, <2>2, WindowSizes, WindowSizesAfter, FS_CardinalityType
<1>3. Twice(s, m)' <= Twice(s, m) /\ Rounds(s, m)' = Rounds(s, m)
  BY <1>1, <1>2, WindowSizes, WindowSizesAfter DEF Twice, Rounds
<1>4. /\ Twice(s, m) \in Nat /\ Twice(s, m)' \in Nat /\ Rounds(s, m) \in Nat
  BY WindowSizes, WindowSizesAfter DEF Twice, Rounds
<1> QED BY <1>3, <1>4

\* One becomes young again: whatever it did, there is a round for it.
LEMMA OneReturns ==
    ASSUME NEW s, NEW m, Twice(s, m) <= Rounds(s, m), NEW i, i \notin Young(s, m),
           Window(s, m)' = Window(s, m), Young(s, m)' = Young(s, m) \cup {i}
    PROVE  (Twice(s, m) <= Rounds(s, m))'
<1> DEFINE f == Cardinality(Window(s, m))
           c == Cardinality(Claimants(s, m))
           d == Cardinality(Claimants(s, m)')
           k == Cardinality(Young(s, m))
<1>1. Cardinality(Young(s, m)') = k + 1
  BY WindowSizes, FS_AddElement
<1>2. f \in Nat /\ c \in Nat /\ d \in Nat /\ k \in Nat /\ d <= k + 1
  BY <1>1, WindowSizes, WindowSizesAfter
<1>3. /\ Twice(s, m) = 2 * (f + c) /\ Rounds(s, m) = k * (k + 1)
      /\ Twice(s, m)' = 2 * (f + d) /\ Rounds(s, m)' = (k + 1) * (k + 2)
  BY <1>1, <1>2 DEF Twice, Rounds
<1> HIDE DEF f, c, d, k
<1>4. (k + 1) * (k + 2) = k * (k + 1) + 2 * (k + 1) /\ k * (k + 1) \in Nat
  BY <1>2
<1> QED BY <1>2, <1>3, <1>4

\* Nothing has been fetched before its time.
LEMMA NothingAhead ==
    ASSUME TypeOK, TimeInv, NEW s \in Sources, NEW m \in Minutes, now < m
    PROVE  Window(s, m) = {}
<1>1. ASSUME NEW n \in Window(s, m) PROVE FALSE
  <2>1. n \in Minutes /\ <<Fetch(s), n>> \in keys /\ m <= n
    BY SchedulerAssumption, IntervalIsPositive DEF Window, Fetched, Minutes
  <2>2. n <= now
    BY <2>1 DEF TimeInv
  <2> QED BY <2>1, <2>2, SchedulerAssumption DEF TypeOK, Minutes
<1> QED BY <1>1

\* A step of a tick that records no fetch: an instance that held an old minute
\* lets go of it, or nobody new may fetch.
LEMMA NoFetchInWindow ==
    ASSUME TypeOK, TypeOK', LocalInv, LocalInv', WindowInv, TimeInv, nextRun' = nextRun, now' = now,
           NEW i \in Instances, ListStep(i), NEW s \in Sources, NEW m \in Minutes, m <= now,
           Window(s, m)' = Window(s, m)
    PROVE  (Twice(s, m) <= Rounds(s, m))'
<1>0. /\ Twice(s, m) <= Rounds(s, m)
      /\ now \in Nat /\ m \in Nat /\ nextRun[s] \in Nat /\ SourceInterval(s) \in Nat \ {0}
      /\ tick[i].asOf \in Nat /\ tick'[i].asOf \in Nat
      /\ tick[i].at = "send" => tick[i].source \notin tick[i].due
  BY IntervalIsPositive, TickOfInstance, SchedulerAssumption
  DEF WindowInv, TypeOK, Minutes, TickType, LocalInv, LocalOK
<1>1. \A j \in Instances \ {i} : tick'[j] = tick[j]
  BY DEF ListStep
<1>2. i \in Young(s, m)'
  BY <1>0 DEF Young, ListStep, JustRead, NoList, TakesOff, GoesOn
<1>3. CASE i \notin Young(s, m)
  <2>1. Young(s, m)' = Young(s, m) \cup {i}
    BY <1>1, <1>2, <1>3 DEF Young
  <2> QED BY <1>0, <1>3, <2>1, OneReturns
<1>4. CASE i \in Young(s, m)
  <2>1. Young(s, m)' = Young(s, m)
    BY <1>1, <1>2, <1>4 DEF Young
  <2>2. ASSUME nextRun[s] >= m + SourceInterval(s) PROVE Ready(s, m)' \subseteq Ready(s, m)
    <3>1. ~(s \in tick'[i].due /\ JustRead(i) /\ now < m + SourceInterval(s))
      BY <1>0, <2>2 DEF JustRead, Due
    <3>2. i \in Ready(s, m)' => i \in Ready(s, m)
      BY <1>0, <3>1 DEF Ready, ListStep, JustRead, NoList, TakesOff, GoesOn
    <3> QED BY <1>1, <3>2 DEF Ready
  <2>3. Claimants(s, m)' \subseteq Claimants(s, m)
    BY <1>0, <2>1, <2>2 DEF Claimants
  <2> QED BY <1>0, <2>1, <2>3, FewerClaimants
<1> QED BY <1>3, <1>4

\* A fetch is recorded: within the stretch by a claimant, or for a minute from
\* before it by an instance that becomes young again, or elsewhere.
LEMMA FetchInWindow ==
    ASSUME TypeOK, TypeOK', LocalInv, WindowInv, TimeInv, NEW i \in Instances, EnqueueSourceFetch(i),
           Unclaimed(Fetch(tick[i].source), tick[i].asOf),
           NEW r \in Sources, NEW m \in Minutes, m <= now
    PROVE  (Twice(r, m) <= Rounds(r, m))'
<1> DEFINE s == tick[i].source
           x == tick[i].asOf
<1>0. /\ Twice(r, m) <= Rounds(r, m) /\ now' = now
      /\ now \in Nat /\ m \in Nat /\ nextRun[r] \in Nat /\ SourceInterval(r) \in Nat \ {0}
      /\ s \in Sources /\ s \notin tick[i].due /\ x \in Minutes /\ x \in Nat
      /\ tick[i].at = "send"
  BY IntervalIsPositive, TickOfInstance, SchedulerAssumption
  DEF WindowInv, TypeOK, Minutes, TickType, LocalInv, LocalOK, EnqueueSourceFetch
<1>1. /\ keys' = keys \cup {<<Fetch(s), x>>}
      /\ nextRun'[r] = IF r = s THEN x + SourceInterval(s) ELSE nextRun[r]
  BY DEF EnqueueSourceFetch, OncePerKey, ClaimAndSend, TypeOK
<1>2. Fetched(r)' = IF r = s THEN Fetched(r) \cup {x} ELSE Fetched(r)
  BY <1>0, <1>1, FetchKeysDiffer DEF Fetched
<1>3. /\ \A j \in Instances \ {i} : tick'[j] = tick[j]
      /\ tick'[i].at = "fetch" /\ tick'[i].due = tick[i].due
  BY NextSourceIs DEF EnqueueSourceFetch, TypeOK
<1> HIDE DEF s, x
<1>4. CASE r # s
  <2>1. Window(r, m)' = Window(r, m)
    BY <1>2, <1>4 DEF Window
  <2>2. Young(r, m)' = Young(r, m)
    BY <1>0, <1>3, <1>4 DEF Young, s
  <2>3. Ready(r, m)' = Ready(r, m)
    BY <1>0, <1>3, <1>4 DEF Ready, s
  <2>4. Claimants(r, m)' = Claimants(r, m)
    BY <1>1, <1>4, <2>2, <2>3 DEF Claimants
  <2> QED BY <1>0, <2>1, <2>2, <2>4, FewerClaimants
<1>5. CASE r = s /\ x < m
  <2>1. Window(r, m)' = Window(r, m)
    BY <1>0, <1>2, <1>5 DEF Window
  <2>2. i \notin Young(r, m) /\ Young(r, m)' = Young(r, m) \cup {i}
    BY <1>0, <1>3, <1>5 DEF Young, s, x
  <2> QED BY <1>0, <2>1, <2>2, OneReturns
<1>6. CASE r = s /\ x >= m
  <2>1. i \in Young(r, m) /\ Young(r, m)' = Young(r, m)
    BY <1>0, <1>3, <1>6 DEF Young, s, x
  <2>2. nextRun'[r] >= m + SourceInterval(r)
    BY <1>0, <1>1, <1>6
  <2>3. Ready(r, m)' \subseteq Ready(r, m) \ {i}
    BY <1>0, <1>3, <1>6 DEF Ready, s
  <2>4. Claimants(r, m)' \subseteq Claimants(r, m) \ {i}
    <3>1. Claimants(r, m)' = Ready(r, m)' \cap Young(r, m)'
      BY <1>0, <1>1, <1>6, <2>2 DEF Claimants
    <3> QED BY <2>1, <2>3, <3>1 DEF Claimants
  <2>5. CASE x \in m..(m + SourceInterval(r) - 1)
    <3>1. i \in Claimants(r, m)
      BY <1>0, <1>6, <2>1, <2>5 DEF Claimants, Ready, s, x
    <3>2. Window(r, m)' \subseteq Window(r, m) \cup {x}
      BY <1>0, <1>2, <1>6 DEF Window
    <3> QED BY <1>0, <2>1, <2>4, <3>1, <3>2, OneClaims
  <2>6. CASE x \notin m..(m + SourceInterval(r) - 1)
    <3>1. Window(r, m)' = Window(r, m)
      BY <1>0, <1>2, <1>6, <2>6 DEF Window
    <3> QED BY <1>0, <2>1, <2>4, <3>1, FewerClaimants
  <2> QED BY <2>5, <2>6
<1> QED BY <1>0, <1>4, <1>5, <1>6

\* Every step keeps what is said of the stretches.
LEMMA StepKeepsWindows ==
    ASSUME IInv, IInv', WindowInv, [Next]_vars
    PROVE  WindowInv'
<1>0. /\ TypeOK /\ TypeOK' /\ LocalInv /\ LocalInv' /\ TimeInv /\ TimeInv'
      /\ now \in Nat /\ now' \in Nat /\ Minutes \subseteq Nat
      /\ \A s \in Sources : SourceInterval(s) \in Nat
  BY SchedulerAssumption, IntervalIsPositive DEF IInv, TypeOK, Minutes
<1>1. ASSUME NEW i \in Instances, EnqueueSourceFetch(i),
             Unclaimed(Fetch(tick[i].source), tick[i].asOf)
      PROVE  WindowInv'
  <2>1. now' = now
    BY <1>1 DEF EnqueueSourceFetch
  <2> QED BY <1>0, <1>1, <2>1, FetchInWindow DEF WindowInv
<1>2. ASSUME NEW i \in Instances, Tick(i) \/ Failure(i),
             EnqueueSourceFetch(i) => ~Unclaimed(Fetch(tick[i].source), tick[i].asOf)
      PROVE  WindowInv'
  <2>1. now' = now /\ nextRun' = nextRun /\ ListStep(i)
    BY <1>0, <1>2, TickLists, FetchesRecorded, TicksTakeNoTime
  <2>2. \A s \in Sources, m \in Minutes : Window(s, m)' = Window(s, m)
    BY <1>2, FetchesRecorded DEF Window, Fetched
  <2> QED BY <1>0, <2>1, <2>2, NoFetchInWindow DEF WindowInv
<1>3. CASE PassMinute
  <2>1. /\ now' = now + 1 /\ nextRun' = nextRun /\ keys' = keys
        /\ \A j \in Instances : tick'[j] = [tick[j] EXCEPT !.done = FALSE]
    BY <1>0, <1>3 DEF PassMinute
  <2>2. \A j \in Instances : /\ tick'[j].at = tick[j].at /\ tick'[j].due = tick[j].due
                             /\ tick'[j].source = tick[j].source
                             /\ tick'[j].asOf = tick[j].asOf
    BY <1>0, <2>1, TickOfInstance DEF TickType
  <2>3. ASSUME NEW s \in Sources, NEW m \in Minutes, m <= now'
        PROVE  (Twice(s, m) <= Rounds(s, m))'
    <3>1. Window(s, m)' = Window(s, m)
      BY <2>1 DEF Window, Fetched
    <3>2. CASE m <= now
      <4>1. Young(s, m)' = Young(s, m)
        BY <2>2 DEF Young
      <4>2. Ready(s, m)' \subseteq Ready(s, m)
        BY <1>0, <2>1, <2>2 DEF Ready
      <4>3. Claimants(s, m)' \subseteq Claimants(s, m)
        BY <2>1, <4>1, <4>2 DEF Claimants
      <4> QED BY <3>1, <3>2, <4>1, <4>3, FewerClaimants DEF WindowInv
    <3>3. CASE now < m
      BY <1>0, <3>1, <3>3, NothingAhead, NothingYet
    <3> QED BY <1>0, <3>2, <3>3
  <2> QED BY <2>3 DEF WindowInv
<1>4. CASE ItemsChange \/ People \/ UNCHANGED vars
  <2>1. UNCHANGED <<now, nextRun, keys, tick>>
    BY <1>4 DEF ItemsChange, People, UpdateSettings, TopicChanges, ArchiveSnapshot,
       RestoreSnapshot, vars
  <2>2. ASSUME NEW s \in Sources, NEW m \in Minutes
        PROVE  /\ Window(s, m)' = Window(s, m) /\ Young(s, m)' = Young(s, m)
               /\ Claimants(s, m)' = Claimants(s, m)
    BY <2>1 DEF Window, Fetched, Young, Ready, Claimants
  <2> QED BY <2>1, <2>2, FewerClaimants DEF WindowInv
<1> QED BY <1>1, <1>2, <1>3, <1>4 DEF Next

\* Whenever the instances tick and however long each stalls between its list, its
\* clock and its commit, the fetches of a source in any stretch of its interval
\* are bounded: one by a single instance, and never more than the instances' sum
\* n + (n - 1) + ... + 1.
THEOREM FetchesAreBounded == Spec => []FetchesPerInterval
<1>1. Init => WindowInv
  <2> SUFFICES ASSUME Init, NEW s \in Sources, NEW m \in Minutes, m <= now
               PROVE  Twice(s, m) <= Rounds(s, m)
    BY DEF WindowInv
  <2>1. Young(s, m) = Instances /\ Window(s, m) = {}
    BY DEF Init, Young, Resting, Window, Fetched
  <2>2. nextRun[s] < m + SourceInterval(s)
    BY IntervalIsPositive, SchedulerAssumption DEF Init, Minutes
  <2>3. Claimants(s, m) = Instances
    BY <2>1, <2>2 DEF Claimants
  <2> DEFINE n == Cardinality(Instances)
  <2>4. Twice(s, m) = 2 * (0 + n) /\ Rounds(s, m) = n * (n + 1) /\ n \in Nat
    BY <2>1, <2>3, FS_EmptySet, WindowSizes DEF Twice, Rounds
  <2> HIDE DEF n
  <2> QED BY <2>4, TwiceIsWithin
<1>2. IInv /\ IInv' /\ WindowInv /\ [Next]_vars => WindowInv'
  BY StepKeepsWindows
<1>3. IInv /\ WindowInv => FetchesPerInterval
  <2> SUFFICES ASSUME IInv, WindowInv, NEW s \in Sources, NEW m \in Minutes
               PROVE  2 * Cardinality(Window(s, m))
                          <= Cardinality(Instances) * (Cardinality(Instances) + 1)
    BY DEF FetchesPerInterval, Window
  <2> DEFINE f == Cardinality(Window(s, m))
             c == Cardinality(Claimants(s, m))
             k == Cardinality(Young(s, m))
             n == Cardinality(Instances)
  <2>1. f \in Nat /\ c \in Nat /\ k \in Nat /\ n \in Nat /\ k <= n
    BY WindowSizes
  <2>2. Twice(s, m) = 2 * (f + c) /\ Rounds(s, m) = k * (k + 1)
    BY DEF Twice, Rounds
  <2>3. CASE m <= now
    <3>1. 2 * (f + c) <= k * (k + 1)
      BY <2>2, <2>3 DEF WindowInv
    <3> HIDE DEF f, c, k, n
    <3>2. k * (k + 1) <= n * (n + 1)
      <4>1. (n - k) * (n + k + 1) \in Nat
        BY <2>1
      <4>2. n * (n + 1) = k * (k + 1) + (n - k) * (n + k + 1)
        BY <2>1
      <4> QED BY <2>1, <4>1, <4>2
    <3>3. k * (k + 1) \in Nat /\ n * (n + 1) \in Nat
      BY <2>1
    <3>4. 2 * f <= n * (n + 1)
      BY <2>1, <3>1, <3>2, <3>3
    <3> QED BY <3>4 DEF f, n
  <2>4. CASE now < m
    <3>1. f = 0
      BY <2>4, NothingAhead, FS_EmptySet DEF IInv
    <3> HIDE DEF f, n
    <3>2. n * (n + 1) \in Nat
      BY <2>1
    <3>3. 2 * f <= n * (n + 1)
      BY <2>1, <3>1, <3>2
    <3> QED BY <3>3 DEF f, n
  <2>5. m <= now \/ now < m
    BY SchedulerAssumption DEF IInv, TypeOK, Minutes
  <2> QED BY <2>3, <2>4, <2>5
<1> QED BY <1>1, <1>2, <1>3, Invariant, PTL DEF Spec

------------------------------------------------------------------------------
(* The schedule is kept.                                                    *)

\* An instance is past what must be recorded in this minute.
PastStages == {"write", "batch", "reflect", "remember", "retain"}
Past == {i \in Instances : tick[i].done \/ tick[i].at \in PastStages}

\* What this minute asks for has been recorded, and what those before asked for.
Recorded ==
    IF settings.contentWorkflow
    THEN <<Content, SlotOf(now, settings.interval)>> \in keys
    ELSE IsTime(now, ScoutTimes) => <<Scout, now>> \in keys
RecordedBefore ==
    IF settings.contentWorkflow
    THEN \A m \in Minutes : m < now /\ m % settings.interval = 0 => <<Content, m>> \in keys
    ELSE \A m \in Minutes : m < now /\ IsTime(m, ScoutTimes) => <<Scout, m>> \in keys

\* A tick goes by the settings as they are, and by the clock as it is.
Knows(r) ==
    /\ r.at \in {"slot", "claim"} => settings.contentWorkflow /\ r.interval = settings.interval
    /\ r.at = "claim" => r.asOf = SlotOf(now, settings.interval)
    /\ r.at \in {"due", "fetch", "send", "scout", "count", "write", "batch"} =>
           ~settings.contentWorkflow
    /\ r.at = "count" => r.asOf = now

\* Each instance that got past without a record has cost a failure.
KeptInv ==
    /\ RecordedBefore
    /\ \A i \in Instances : Knows(tick[i])
    /\ ~Recorded => Cardinality(Past) <= failures

\* What a step of a tick may do: forget nothing, and get past only with a record
\* or a failure.
TickStep(i) ==
    /\ UNCHANGED <<now, settings>> /\ keys \subseteq keys'
    /\ \A j \in Instances \ {i} : tick'[j] = tick[j]
    /\ Knows(tick'[i])
    /\ failures' = failures
    /\ Past' \subseteq Past \/ Recorded'

\* A tick that stays before, or was past already.
LEMMA TickMoves ==
    ASSUME TypeOK, LocalInv, LedgerInv, NEW i \in Instances, Tick(i), NEW r,
           tick' = [tick EXCEPT ![i] = r], Knows(r), UNCHANGED failures,
           \/ Recorded'
           \/ i \in Past
           \/ r.done = tick[i].done /\ r.at \notin PastStages
    PROVE  TickStep(i)
<1>1. /\ tick'[i] = r /\ \A j \in Instances \ {i} : tick'[j] = tick[j]
  BY DEF TypeOK
<1>2. UNCHANGED <<now, settings>>
  BY TicksTakeNoTime
<1>3. keys \subseteq keys'
  BY StepKeepsLedger DEF Next
<1>4. Past' \subseteq Past \/ Recorded'
  BY <1>1 DEF Past, PastStages
<1> QED BY <1>1, <1>2, <1>3, <1>4 DEF TickStep

\* The steps of a tick, one by one.
LEMMA TicksAreTickSteps ==
    ASSUME TypeOK, LocalInv, LedgerInv, KeptInv, NEW i \in Instances, Tick(i)
    PROVE  TickStep(i)
<1>0. /\ tick[i] \in TickType /\ Knows(tick[i])
      /\ \A stage : LET r == [tick[i] EXCEPT !.at = stage]
                    IN  r.at = stage /\ r.done = tick[i].done
                        /\ r.interval = tick[i].interval /\ r.asOf = tick[i].asOf
  BY TickOfInstance, GoToIs DEF KeptInv
<1>1. CASE BeginTick(i)
  <2> DEFINE stage == IF settings.contentWorkflow THEN "slot" ELSE "due"
             r == [tick[i] EXCEPT !.at = stage, !.interval = settings.interval]
  <2>1. r.at = stage /\ r.interval = settings.interval /\ r.done = tick[i].done
    BY <1>0 DEF TickType
  <2>2. tick' = [tick EXCEPT ![i] = r] /\ UNCHANGED failures
    BY <1>1 DEF BeginTick, TypeOK
  <2> HIDE DEF r
  <2>3. Knows(r)
    BY <2>1 DEF Knows, TypeOK
  <2> QED BY <2>1, <2>2, <2>3, TickMoves DEF PastStages
<1>2. CASE ReadSlot(i)
  <2> DEFINE slot == SlotOf(now, tick[i].interval)
             r == [tick[i] EXCEPT !.at = "claim", !.asOf = slot]
  <2>1. r.at = "claim" /\ r.asOf = slot /\ r.interval = tick[i].interval
        /\ r.done = tick[i].done
    BY <1>0 DEF TickType
  <2>2. tick' = [tick EXCEPT ![i] = r] /\ UNCHANGED failures
    BY <1>2 DEF ReadSlot, TypeOK
  <2>3. settings.contentWorkflow /\ tick[i].interval = settings.interval
    BY <1>0, <1>2 DEF ReadSlot, Knows
  <2> HIDE DEF r
  <2>4. Knows(r)
    BY <2>1, <2>3 DEF Knows
  <2> QED BY <2>1, <2>2, <2>4, TickMoves DEF PastStages
<1>3. CASE CreateScheduledContentRun(i)
  <2> DEFINE r == [tick[i] EXCEPT !.at = "reflect"]
  <2>1. r.at = "reflect" /\ tick' = [tick EXCEPT ![i] = r] /\ UNCHANGED <<failures, now, settings>>
    BY <1>3, GoToIs DEF CreateScheduledContentRun
  <2>2. settings.contentWorkflow /\ tick[i].asOf = SlotOf(now, settings.interval)
    BY <1>0, <1>3 DEF CreateScheduledContentRun, Knows
  <2>3. <<Content, tick[i].asOf>> \in keys'
    BY <1>3 DEF CreateScheduledContentRun, OncePerKey, ClaimAndSend, Unclaimed, Unscheduled
  <2>4. Recorded'
    BY <2>1, <2>2, <2>3 DEF Recorded
  <2> HIDE DEF r
  <2>5. Knows(r)
    BY <2>1 DEF Knows
  <2> QED BY <2>1, <2>4, <2>5, TickMoves DEF PastStages
<1>4. CASE ReadDueSources(i)
  <2> DEFINE due == {s \in Sources : Due(s)}
             r == [tick[i] EXCEPT !.at = "fetch", !.due = due]
  <2>1. r.at = "fetch" /\ r.done = tick[i].done
    BY <1>0 DEF TickType
  <2>2. tick' = [tick EXCEPT ![i] = r] /\ UNCHANGED failures
    BY <1>4 DEF ReadDueSources, TypeOK
  <2>3. ~settings.contentWorkflow
    BY <1>0, <1>4 DEF ReadDueSources, Knows
  <2> HIDE DEF r
  <2>4. Knows(r)
    BY <2>1, <2>3 DEF Knows
  <2> QED BY <2>1, <2>2, <2>4, TickMoves DEF PastStages
<1>5. CASE EnqueueSourceFetch(i)
  <2>1. /\ tick' = [tick EXCEPT ![i] = Onward(i)] /\ UNCHANGED failures
        /\ Onward(i).at = "fetch" /\ Onward(i).done = tick[i].done
    BY <1>5, NextSourceIs DEF EnqueueSourceFetch
  <2>2. ~settings.contentWorkflow
    BY <1>0, <1>5 DEF EnqueueSourceFetch, Knows
  <2>3. Knows(Onward(i))
    BY <2>1, <2>2 DEF Knows
  <2> QED BY <2>1, <2>3, TickMoves DEF PastStages
<1>11. CASE \E s \in Sources : ReadFetchClock(i, s)
  <2>1. PICK s \in Sources : ReadFetchClock(i, s)
    BY <1>11
  <2>2. /\ tick' = [tick EXCEPT ![i] = Sending(i, s)] /\ UNCHANGED failures
        /\ Sending(i, s).at = "send" /\ Sending(i, s).done = tick[i].done
    <3>1. UNCHANGED failures
      BY <2>1 DEF ReadFetchClock
    <3> QED BY <2>1, <3>1, ReadFetchClockIs
  <2>3. ~settings.contentWorkflow
    BY <1>0, <2>1 DEF ReadFetchClock, Knows
  <2>4. Knows(Sending(i, s))
    BY <2>2, <2>3 DEF Knows
  <2> QED BY <2>2, <2>4, TickMoves DEF PastStages
<1>6. CASE CountNewItems(i)
  <2>1. ~settings.contentWorkflow /\ UNCHANGED <<failures, now, settings>>
    BY <1>0, <1>6 DEF CountNewItems, Knows
  <2>2. CASE IsTime(now, ScoutTimes)
    <3> DEFINE r == [tick[i] EXCEPT !.at = "count", !.asOf = now, !.skip = ~enough]
    <3>1. r.at = "count" /\ r.asOf = now /\ r.done = tick[i].done
      BY <1>0 DEF TickType
    <3>2. tick' = [tick EXCEPT ![i] = r]
      BY <1>6, <2>2 DEF CountNewItems, GoWith, TypeOK
    <3> HIDE DEF r
    <3>3. Knows(r)
      BY <2>1, <3>1 DEF Knows
    <3> QED BY <2>1, <3>1, <3>2, <3>3, TickMoves DEF PastStages
  <2>3. CASE ~IsTime(now, ScoutTimes)
    <3> DEFINE r == [tick[i] EXCEPT !.at = "write"]
    <3>1. r.at = "write" /\ tick' = [tick EXCEPT ![i] = r]
      BY <1>6, <2>3, GoToIs DEF CountNewItems
    <3>2. Recorded'
      BY <2>1, <2>3 DEF Recorded
    <3> HIDE DEF r
    <3>3. Knows(r)
      BY <2>1, <3>1 DEF Knows
    <3> QED BY <2>1, <3>1, <3>2, <3>3, TickMoves DEF PastStages
  <2> QED BY <2>2, <2>3
<1>7. CASE EnqueueTopicScout(i)
  <2> DEFINE r == [tick[i] EXCEPT !.at = "write"]
  <2>1. r.at = "write" /\ tick' = [tick EXCEPT ![i] = r] /\ UNCHANGED <<failures, now, settings>>
    BY <1>7, GoToIs DEF EnqueueTopicScout
  <2>2. ~settings.contentWorkflow /\ tick[i].asOf = now
    BY <1>0, <1>7 DEF EnqueueTopicScout, Knows
  <2>3. <<Scout, tick[i].asOf>> \in keys'
    BY <1>7 DEF EnqueueTopicScout, OncePerKey, ClaimAndSend, ClaimAndSkip, Unclaimed,
       Unscheduled
  <2>4. Recorded'
    BY <2>1, <2>2, <2>3 DEF Recorded
  <2> HIDE DEF r
  <2>5. Knows(r)
    BY <2>1, <2>2 DEF Knows
  <2> QED BY <2>1, <2>4, <2>5, TickMoves DEF PastStages
<1>8. CASE ReadScoredTopics(i)
  <2>1. i \in Past /\ ~settings.contentWorkflow /\ UNCHANGED failures
    BY <1>0, <1>8 DEF ReadScoredTopics, Knows, Past, PastStages
  <2>2. ASSUME NEW batch, GoWith(i, "batch", "rows", batch) PROVE TickStep(i)
    <3> DEFINE r == [tick[i] EXCEPT !.at = "batch", !.asOf = now, !.rows = batch]
    <3>1. r.at = "batch"
      BY <1>0 DEF TickType
    <3>2. tick' = [tick EXCEPT ![i] = r]
      BY <2>2 DEF GoWith, TypeOK
    <3> HIDE DEF r
    <3>3. Knows(r)
      BY <2>1, <3>1 DEF Knows
    <3> QED BY <2>1, <3>2, <3>3, TickMoves DEF PastStages
  <2>3. ASSUME GoTo(i, "reflect") PROVE TickStep(i)
    <3> DEFINE r == [tick[i] EXCEPT !.at = "reflect"]
    <3>1. r.at = "reflect" /\ tick' = [tick EXCEPT ![i] = r]
      BY <2>3, GoToIs
    <3> HIDE DEF r
    <3>2. Knows(r)
      BY <3>1 DEF Knows
    <3> QED BY <2>1, <3>1, <3>2, TickMoves DEF PastStages
  <2> QED BY <1>8, <2>2, <2>3 DEF ReadScoredTopics
<1>9. CASE ApproveBatch(i) \/ EnqueueMemoryReflect(i)
  <2>1. PICK stage \in {"reflect", "retain"} : GoTo(i, stage)
    BY <1>9 DEF ApproveBatch, EnqueueMemoryReflect
  <2> DEFINE r == [tick[i] EXCEPT !.at = stage]
  <2>2. r.at = stage /\ tick' = [tick EXCEPT ![i] = r]
    BY <2>1, GoToIs
  <2>3. i \in Past /\ UNCHANGED failures
    BY <1>9 DEF ApproveBatch, EnqueueMemoryReflect, Past, PastStages
  <2> HIDE DEF r
  <2>4. Knows(r)
    BY <2>1, <2>2 DEF Knows
  <2> QED BY <2>2, <2>3, <2>4, TickMoves DEF PastStages
<1>12. CASE ReadReflectTime(i)
  <2>1. i \in Past /\ UNCHANGED failures
    BY <1>12 DEF ReadReflectTime, Past, PastStages
  <2>2. CASE GoTo(i, "retain")
    <3> DEFINE r == [tick[i] EXCEPT !.at = "retain"]
    <3>1. r.at = "retain" /\ tick' = [tick EXCEPT ![i] = r]
      BY <2>2, GoToIs
    <3> HIDE DEF r
    <3>2. Knows(r)
      BY <3>1 DEF Knows
    <3> QED BY <2>1, <3>1, <3>2, TickMoves DEF PastStages
  <2>3. CASE tick' = [tick EXCEPT ![i].at = "remember", ![i].asOf = now]
    <3> DEFINE r == [tick[i] EXCEPT !.at = "remember", !.asOf = now]
    <3>1. r.at = "remember"
      BY <1>0 DEF TickType
    <3>2. tick' = [tick EXCEPT ![i] = r]
      BY <2>3 DEF TypeOK
    <3> HIDE DEF r
    <3>3. Knows(r)
      BY <3>1 DEF Knows
    <3> QED BY <2>1, <3>2, <3>3, TickMoves DEF PastStages
  <2> QED BY <1>12, <2>2, <2>3 DEF ReadReflectTime
<1>10. CASE ArchiveExpired(i)
  <2> DEFINE r == [Resting EXCEPT !.done = TRUE]
  <2>1. r.at = "idle"
    BY DEF Resting
  <2>2. tick' = [tick EXCEPT ![i] = r] /\ i \in Past /\ UNCHANGED failures
    BY <1>10 DEF ArchiveExpired, Past, PastStages
  <2> HIDE DEF r
  <2>3. Knows(r)
    BY <2>1 DEF Knows
  <2> QED BY <2>2, <2>3, TickMoves DEF PastStages
<1> QED
  BY <1>1, <1>2, <1>3, <1>4, <1>5, <1>6, <1>7, <1>8, <1>9, <1>10, <1>11, <1>12 DEF Tick

\* A failure leaves the schedule alone, and is counted.
LEMMA FailuresAreCounted ==
    ASSUME TypeOK, KeptInv, NEW i \in Instances, Failure(i)
    PROVE  /\ UNCHANGED <<now, settings, keys>> /\ failures' = failures + 1
           /\ \A j \in Instances \ {i} : tick'[j] = tick[j]
           /\ Knows(tick'[i])
<1>0. /\ tick[i] \in TickType /\ Knows(tick[i])
  BY TickOfInstance DEF KeptInv
<1>1. UNCHANGED <<now, settings, keys>> /\ failures' = failures + 1
  BY DEF Failure, StepFails, FetchFails, TickFails, Fails
<1>2. CASE StepFails(i)
  <2> DEFINE stage == AfterFailure[tick[i].at]
             r == [tick[i] EXCEPT !.at = stage]
  <2>1. /\ stage \in {"reflect", "scout", "write", "retain"}
        /\ stage \in {"scout", "write"} => tick[i].at \in {"due", "count"}
    BY <1>2 DEF StepFails, AfterFailure
  <2>2. GoTo(i, stage)
    BY <1>2 DEF StepFails
  <2> HIDE DEF stage
  <2>3. r.at = stage /\ tick' = [tick EXCEPT ![i] = r]
    BY <2>2, GoToIs
  <2> HIDE DEF r
  <2>4. Knows(r)
    BY <1>0, <2>1, <2>3 DEF Knows
  <2> QED BY <1>1, <2>3, <2>4 DEF TypeOK
<1>3. CASE FetchFails(i)
  <2>1. tick' = [tick EXCEPT ![i] = Onward(i)] /\ Onward(i).at = "fetch"
    BY <1>3, NextSourceIs DEF FetchFails
  <2>2. ~settings.contentWorkflow
    BY <1>0, <1>3 DEF FetchFails, Knows
  <2>3. Knows(Onward(i))
    BY <2>1, <2>2 DEF Knows
  <2> QED BY <1>1, <2>1, <2>3 DEF TypeOK
<1>4. CASE TickFails(i)
  <2> DEFINE r == [Resting EXCEPT !.done = TRUE]
  <2>1. r.at = "idle" /\ tick' = [tick EXCEPT ![i] = r]
    BY <1>4 DEF Resting, TickFails
  <2> HIDE DEF r
  <2>2. Knows(r)
    BY <2>1 DEF Knows
  <2> QED BY <1>1, <2>1, <2>2 DEF TypeOK
<1> QED BY <1>2, <1>3, <1>4 DEF Failure

\* There are finitely many instances, so finitely many are past.
LEMMA PastSize ==
    /\ IsFiniteSet(Past) /\ Cardinality(Past) \in Nat
    /\ IsFiniteSet(Past') /\ Cardinality(Past') \in Nat
<1>1. Past \subseteq Instances /\ Past' \subseteq Instances
  BY DEF Past, PastStages
<1> QED BY <1>1, FS_Subset, FS_CardinalityType, SchedulerAssumption

\* Within a minute the records only grow, and who gets past without one has
\* cost a failure.
LEMMA KeptWithinMinute ==
    ASSUME TypeOK, KeptInv, UNCHANGED <<now, settings>>, keys \subseteq keys',
           \A i \in Instances : Knows(tick'[i]),
           \/ failures' = failures /\ (Past' \subseteq Past \/ Recorded')
           \/ failures' = failures + 1 /\ \E i \in Instances : Past' \subseteq Past \cup {i}
    PROVE  KeptInv'
<1>1. RecordedBefore'
  BY DEF KeptInv, RecordedBefore
<1>2. \A i \in Instances : Knows(tick[i])'
  BY DEF Knows
<1>3. Recorded => Recorded'
  BY DEF Recorded
<1>4. ASSUME ~Recorded' PROVE Cardinality(Past') <= failures'
  <2>1. Cardinality(Past) <= failures /\ failures \in Nat
    BY <1>3, <1>4, SchedulerAssumption DEF KeptInv, TypeOK
  <2>2. CASE failures' = failures /\ Past' \subseteq Past
    <3>1. Cardinality(Past') <= Cardinality(Past)
      BY <2>2, PastSize, FS_Subset
    <3> QED BY <2>1, <2>2, <3>1, PastSize
  <2>3. CASE failures' = failures + 1 /\ \E i \in Instances : Past' \subseteq Past \cup {i}
    <3>1. PICK i \in Instances : Past' \subseteq Past \cup {i}
      BY <2>3
    <3>2. /\ IsFiniteSet(Past \cup {i})
          /\ Cardinality(Past \cup {i}) \in {Cardinality(Past), Cardinality(Past) + 1}
      BY PastSize, FS_AddElement
    <3>3. Cardinality(Past') <= Cardinality(Past \cup {i})
      BY <3>1, <3>2, FS_Subset
    <3> QED BY <2>1, <2>3, <3>2, <3>3, PastSize
  <2> QED BY <1>4, <2>2, <2>3
<1> QED BY <1>1, <1>2, <1>4 DEF KeptInv

\* When the minute passes every instance is past it, more of them than may have
\* failed.
LEMMA KeptAsTimePasses ==
    ASSUME Punctual, MaxFailures < Cardinality(Instances), TypeOK, KeptInv, PassMinute
    PROVE  KeptInv'
<1>0. /\ now \in Nat /\ now' = now + 1 /\ Minutes \subseteq Nat /\ failures \in Nat
      /\ failures <= MaxFailures /\ Cardinality(Instances) \in Nat /\ MaxFailures \in Nat
      /\ UNCHANGED <<settings, keys, failures>>
      /\ settings.interval \in Nat \ {0}
  BY FS_CardinalityType, SchedulerAssumption DEF PassMinute, TypeOK, Minutes
<1>1. Recorded
  <2>1. Past = Instances
    BY DEF PassMinute, Past, PastStages
  <2> QED BY <1>0, <2>1 DEF KeptInv
<1>2. RecordedBefore'
  <2>1. CASE settings.contentWorkflow
    <3>1. ASSUME NEW m \in Minutes, m < now', m % settings.interval = 0
          PROVE  <<Content, m>> \in keys'
      <4>1. CASE m < now
        BY <1>0, <2>1, <3>1, <4>1 DEF KeptInv, RecordedBefore
      <4>2. CASE m = now
        <5>1. SlotOf(now, settings.interval) = now
          BY <1>0, <3>1, <4>2 DEF SlotOf
        <5> QED BY <1>0, <1>1, <2>1, <4>2, <5>1 DEF Recorded
      <4> QED BY <1>0, <3>1, <4>1, <4>2
    <3> QED BY <1>0, <2>1, <3>1 DEF RecordedBefore
  <2>2. CASE ~settings.contentWorkflow
    <3>1. ASSUME NEW m \in Minutes, m < now', IsTime(m, ScoutTimes)
          PROVE  <<Scout, m>> \in keys'
      <4>1. CASE m < now
        BY <1>0, <2>2, <3>1, <4>1 DEF KeptInv, RecordedBefore
      <4>2. CASE m = now
        BY <1>0, <1>1, <2>2, <3>1, <4>2 DEF Recorded
      <4> QED BY <1>0, <3>1, <4>1, <4>2
    <3> QED BY <1>0, <2>2, <3>1 DEF RecordedBefore
  <2> QED BY <2>1, <2>2
<1>3. \A i \in Instances : tick'[i].at = "idle" /\ ~tick'[i].done
  BY TickOfInstance DEF PassMinute, TickType
<1>4. \A i \in Instances : Knows(tick[i])'
  BY <1>3 DEF Knows
<1>5. Past' = {}
  BY <1>3 DEF Past, PastStages
<1>6. Cardinality(Past') <= failures'
  BY <1>0, <1>5, FS_EmptySet
<1> QED BY <1>2, <1>4, <1>6 DEF KeptInv

\* Every step keeps the schedule.
LEMMA StepKeepsSchedule ==
    ASSUME Punctual, ~SettingsChange, MaxFailures < Cardinality(Instances),
           IInv, KeptInv, [Next]_vars
    PROVE  KeptInv'
<1>0. TypeOK /\ LedgerInv
  BY DEF IInv, LedgerInv, TypeOK
<1>1. ASSUME NEW i \in Instances, Tick(i) PROVE KeptInv'
  <2>1. TickStep(i)
    BY <1>0, <1>1, TicksAreTickSteps DEF IInv
  <2>2. \A j \in Instances : Knows(tick'[j])
    BY <2>1 DEF TickStep, KeptInv
  <2> QED BY <1>0, <2>1, <2>2, KeptWithinMinute DEF TickStep
<1>2. ASSUME NEW i \in Instances, Failure(i) PROVE KeptInv'
  <2>1. /\ UNCHANGED <<now, settings, keys>> /\ failures' = failures + 1
        /\ \A j \in Instances \ {i} : tick'[j] = tick[j]
        /\ Knows(tick'[i])
    BY <1>0, <1>2, FailuresAreCounted
  <2>2. \A j \in Instances : Knows(tick'[j])
    BY <2>1 DEF KeptInv
  <2>3. Past' \subseteq Past \cup {i}
    BY <2>1 DEF Past, PastStages
  <2> QED BY <1>0, <2>1, <2>2, <2>3, KeptWithinMinute
<1>3. CASE PassMinute
  BY <1>0, <1>3, KeptAsTimePasses
<1>4. CASE ItemsChange \/ People \/ UNCHANGED vars
  <2>1. UNCHANGED <<now, settings, keys, tick, failures>>
    BY <1>4 DEF ItemsChange, People, UpdateSettings, TopicChanges, ArchiveSnapshot,
       RestoreSnapshot, vars
  <2>2. Past' = Past /\ \A j \in Instances : Knows(tick'[j])
    BY <2>1 DEF Past, PastStages, KeptInv
  <2> QED BY <1>0, <2>1, <2>2, KeptWithinMinute
<1> QED BY <1>1, <1>2, <1>3, <1>4 DEF Next

\* While the settings stay as they are and every instance ends a tick in every
\* minute, more instances than there are failures keep the schedule: no slot of
\* the content workflow and no time at which topics are to be scouted is missed,
\* at whichever step of their ticks the others fail.
THEOREM SchedulesAreMet ==
    ASSUME Punctual, ~SettingsChange, MaxFailures < Cardinality(Instances)
    PROVE  Spec => []SchedulesAreKept
<1>1. Init => KeptInv
  <2> SUFFICES ASSUME Init PROVE KeptInv
    OBVIOUS
  <2>1. /\ RecordedBefore
        /\ Past = {} /\ failures = 0
        /\ \A i \in Instances : tick[i].at = "idle"
    BY SchedulerAssumption DEF Init, RecordedBefore, Minutes, Past, PastStages, Resting
  <2>2. Cardinality(Past) <= failures
    BY <2>1, FS_EmptySet
  <2> QED BY <2>1, <2>2 DEF KeptInv, Knows
<1>2. IInv /\ KeptInv /\ [Next]_vars => KeptInv'
  BY StepKeepsSchedule
<1>3. IInv /\ KeptInv => SchedulesAreKept
  <2> SUFFICES ASSUME IInv, KeptInv PROVE SchedulesAreKept
    OBVIOUS
  <2>1. settings.interval \in Nat \ {0} /\ now \in Nat /\ Minutes \subseteq Nat
    <3>1. TypeOK
      BY DEF IInv
    <3>2. now \in Minutes
          /\ settings \in [contentWorkflow : ContentModes, interval : ContentIntervals]
      BY <3>1 DEF TypeOK
    <3>3. settings.interval \in ContentIntervals
      BY <3>2
    <3>4. ContentIntervals \subseteq Nat \ {0} /\ Minutes \subseteq Nat
      BY SchedulerAssumption DEF Minutes
    <3> QED BY <3>2, <3>3, <3>4
  <2> QED BY <2>1 DEF KeptInv, RecordedBefore, SchedulesAreKept
<1> QED BY <1>1, <1>2, <1>3, Invariant, PTL DEF Spec
===============================================================================
