SPECIFICATION FairSpec
CONSTANTS
    c1 = c1  c2 = c2  s1 = s1  s2 = s2  t1 = t1  t2 = t2  t3 = t3  p1 = p1  p2 = p2
    Cores = {c1}
    Sources = {s1, s2}
    Topics = {t1}
    Platforms = {p1}
    TargetPlatforms <- One
    RetriesAfterFailure = TRUE
CHECK_DEADLOCK FALSE
PROPERTIES
    RunSettlesIfArticlesAreEvaluated
