SPECIFICATION FairSpec
CONSTANTS
    i1 = i1  i2 = i2  own = own  plain = plain  t1 = t1  t2 = t2  old = old  young = young
    Instances = {i1, i2}
    Sources = {plain}
    Topics = {}
    Snapshots = {old, young}
    FetchMinutes <- OwnAndPlain
    CreatedAt <- OldAndYoung
    DefaultInterval = 4
    LeastInterval = 2
    MostInterval = 5
    Day = 3
    ScoutTimes = {}
    WriteTimes = {}
    ReflectTimes = {}
    MaxTopics = 1
    ContentModes = {FALSE}
    ContentIntervals = {1}
    RetentionMinutes = 0
    BatchSize = 1
    MaxMinute = 5
    MaxFailures = 0
    Punctual = FALSE
    SettingsChange = TRUE
CHECK_DEADLOCK FALSE
INVARIANT FetchesPerInterval
PROPERTY ExpiredAreArchived
