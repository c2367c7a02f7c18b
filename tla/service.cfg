SPECIFICATION MCSpec
CONSTANTS
    Handlers = {1, 2}
    Names = {"Manual Feed", "n"}
    Urls = {"none", "http"}
    MaxRequests = 3
CHECK_DEADLOCK FALSE
INVARIANTS
    InOrderAndOnce
    JobsWereWanted
PROPERTIES
    EveryRunAdvancesWhileTheListHasRoom
    EveryPassEnds
    EventsArriveUnlessOvertaken
    FeedsAreAccepted
    FreshWritesKeepTheRest
