SPECIFICATION Spec
CONSTANTS
    i1 = i1  i2 = i2  own = own  plain = plain  t1 = t1  t2 = t2  old = old  young = young
    Instances = {i1, i2}
    Sources = {own}
    Topics = {t1, t2}
    Snapshots = {}
    FetchMinutes <- OwnAndPlain
    CreatedAt <- OldAndYoung
    DefaultInterval = 3
    LeastInterval = 2
    MostInterval = 4
    Day = 3
    ScoutTimes = {1}
    WriteTimes = {1}
    ReflectTimes = {2}
    MaxTopics = 1
    ContentModes = {TRUE, FALSE}
    ContentIntervals = {2}
    RetentionMinutes = 1
    BatchSize = 1
    MaxMinute = 3
    MaxFailures = 1
    Punctual = TRUE
    SettingsChange = FALSE
CHECK_DEADLOCK FALSE
INVARIANTS
    SlotsHaveTheirJobs
    SchedulesAreKept
    BatchesAreBounded
    FetchesKeepTheirInterval
PROPERTY DecisionsStand
