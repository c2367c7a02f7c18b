--------------------------- MODULE SchedulerSettings ---------------------------
(***************************************************************************)
(* The settings of the scheduler: one row of JSON, seeded when Core starts *)
(* (internal/scheduler) and changed through the API by reading it, putting *)
(* the sections of the request in their places, validating the whole and   *)
(* writing it back, in statements of their own and without a lock          *)
(* (internal/api/m1_handlers.go).                                          *)
(***************************************************************************)
EXTENDS Integers, FiniteSets

CONSTANTS Handlers,
          Patches,         \* what a request may carry: some of the sections
          KnownZones,      \* what time.LoadLocation finds
          MaxRequests      \* bound: requests that arrive in all

Sections ==
    {"contentWorkflow", "sourceFetch", "topicScout", "topicEvaluate",
     "articleWrite", "memoryReflect", "workflowSnapshots"}

(***************************************************************************)
(* A text for a time of day: what Sscanf reads of it and how long it is.   *)
(***************************************************************************)
Clock(h, m) == [hour |-> h, minute |-> m, length |-> 5]

DefaultSettings ==
    [contentWorkflow |-> [enabled |-> TRUE, intervalHours |-> 12],
     sourceFetch |-> [enabled |-> TRUE, defaultIntervalMinutes |-> 120],
     topicScout |-> [enabled |-> TRUE,
                     times |-> {Clock(4 * n, 0) : n \in 0 .. 5},
                     timezone |-> "Asia/Shanghai", minNewItems |-> 5],
     topicEvaluate |-> [enabled |-> TRUE, maxConcurrency |-> 2],
     articleWrite |-> [enabled |-> TRUE,
                       times |-> {Clock(8 * n, 0) : n \in 0 .. 2},
                       timezone |-> "Asia/Shanghai", maxTopics |-> 3],
     memoryReflect |-> [enabled |-> TRUE, weekday |-> 1, time |-> Clock(9, 0),
                        timezone |-> "Asia/Shanghai", lookbackDays |-> 7],
     workflowSnapshots |-> [enabled |-> TRUE, retentionHours |-> 168,
                            batchSize |-> 100]]

VARIABLES stored,          \* scheduler_settings: no row, or the one row
          phase,           \* what each handler does next
          patch,           \* the sections it was sent
          current,         \* the settings as it has merged them
          fresh,           \* history: what it read is still what is stored
          left             \* requests still to come

vars == <<stored, phase, patch, current, fresh, left>>

NoRow == <<>>
Nothing == <<>>            \* the patch of no section

Init ==
    /\ stored = NoRow
    /\ phase = [h \in Handlers |-> "idle"]
    /\ patch = [h \in Handlers |-> Nothing]
    /\ current = [h \in Handlers |-> NoRow]
    /\ fresh = [h \in Handlers |-> FALSE]
    /\ left = MaxRequests

-------------------------------------------------------------------------------
\* Sscanf(t, "%02d:%02d") leaves what follows unread and takes a sign.
ValidTime(t) == t.hour <= 23 /\ t.minute <= 59 /\ t.length = 5

ValidTimes(ts) == Cardinality(ts) \in 1 .. 24 /\ \A t \in ts : ValidTime(t)

validateSettings(s) ==
    /\ s.contentWorkflow.intervalHours \in 1 .. 168
    /\ s.sourceFetch.defaultIntervalMinutes \in 5 .. 10080
    /\ ValidTimes(s.topicScout.times)
    /\ s.topicScout.timezone \in KnownZones
    /\ s.topicScout.minNewItems \in 0 .. 1000
    /\ s.topicEvaluate.maxConcurrency \in 1 .. 32
    /\ ValidTimes(s.articleWrite.times)
    /\ s.articleWrite.timezone \in KnownZones
    /\ s.articleWrite.maxTopics \in 1 .. 20
    /\ s.memoryReflect.weekday \in 1 .. 7
    /\ ValidTime(s.memoryReflect.time)
    /\ s.memoryReflect.timezone \in KnownZones
    /\ s.memoryReflect.lookbackDays \in 1 .. 90
    /\ s.workflowSnapshots.retentionHours \in 1 .. 8760
    /\ s.workflowSnapshots.batchSize \in 1 .. 1000

\* Mutant of Merged: sections that were not sent are reset.
MergedIntoDefaults(s, p) ==
    [c \in Sections |-> IF c \in DOMAIN p THEN p[c] ELSE DefaultSettings[c]]

Merged(s, p) == [c \in Sections |-> IF c \in DOMAIN p THEN p[c] ELSE s[c]]

-------------------------------------------------------------------------------
Idle(h) ==
    /\ phase' = [phase EXCEPT ![h] = "idle"]
    /\ patch' = [patch EXCEPT ![h] = Nothing]
    /\ current' = [current EXCEPT ![h] = NoRow]

\* Nothing that was read before this write is fresh after it.
Written(s) ==
    /\ stored' = s
    /\ fresh' = [h \in Handlers |-> FALSE]

\* A Core starts.
Seed ==
    /\ stored = NoRow
    /\ Written(DefaultSettings)
    /\ UNCHANGED <<phase, patch, current, left>>

Receive(h) ==
    /\ phase[h] = "idle"
    /\ left > 0
    /\ left' = left - 1
    /\ \E p \in Patches : patch' = [patch EXCEPT ![h] = p]
    /\ phase' = [phase EXCEPT ![h] = "read"]
    /\ UNCHANGED <<stored, current, fresh>>

MergeAndValidate(h, base) ==
    LET merged == Merged(base, patch[h]) IN
    IF validateSettings(merged)
    THEN /\ current' = [current EXCEPT ![h] = merged]
         /\ phase' = [phase EXCEPT ![h] = "save"]
         /\ UNCHANGED patch
    ELSE Idle(h)

(***************************************************************************)
(* The row is read and merged with the request.  When there is no row, and *)
(* also when it cannot be read, the request is merged into the defaults.   *)
(***************************************************************************)
Read(h) ==
    /\ phase[h] = "read"
    /\ MergeAndValidate(h, IF stored = NoRow THEN DefaultSettings ELSE stored)
    /\ fresh' = [fresh EXCEPT ![h] = TRUE]
    /\ UNCHANGED <<stored, left>>

FailToRead(h) ==
    /\ phase[h] = "read"
    /\ MergeAndValidate(h, DefaultSettings)
    /\ fresh' = [fresh EXCEPT ![h] = FALSE]
    /\ UNCHANGED <<stored, left>>

Save(h) ==
    /\ phase[h] = "save"
    /\ Written(current[h])
    /\ Idle(h)
    /\ UNCHANGED left

\* The request is cut off before it has written.
Fail(h) ==
    /\ phase[h] # "idle"
    /\ Idle(h)
    /\ UNCHANGED <<stored, fresh, left>>

Next ==
    \/ Seed
    \/ \E h \in Handlers :
        Receive(h) \/ Read(h) \/ FailToRead(h) \/ Save(h) \/ Fail(h)

Spec == Init /\ [][Next]_vars

-------------------------------------------------------------------------------
\* What a write says of the sections it was not asked to change.
KeepsTheRest(h) ==
    stored # NoRow =>
        \A c \in Sections \ DOMAIN patch[h] : stored'[c] = stored[c]

(***************************************************************************)
(* A request changes the sections it names and no other, provided nobody   *)
(* wrote between its read and its write and its read succeeded; and no     *)
(* restart brings the defaults back.                                       *)
(***************************************************************************)
FreshWritesKeepTheRest ==
    [][ /\ \A h \in Handlers :
            phase[h] = "save" /\ fresh[h] /\ stored' = current[h]
                => KeepsTheRest(h)
        /\ stored' # stored =>
            \/ stored = NoRow
            \/ \E h \in Handlers : phase[h] = "save" /\ stored' = current[h] ]_vars
===============================================================================
