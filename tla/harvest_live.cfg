SPECIFICATION MCFairSpec
CONSTANTS
    c1 = c1  c2 = c2  s1 = s1  t1 = t1  t2 = t2  t3 = t3  p1 = p1  p2 = p2
    Cores = {c1}
    Sources = {s1}
    Topics = {t1, t2, t3}
    Platforms = {p1, p2}
    TargetPlatforms <- TwoOneNone
    RetriesAfterFailure = FALSE
    maxArticleVersion = 2
    topicLimit = 1
    articleLimit = 1
CHECK_DEADLOCK FALSE
PROPERTIES
    TopicsAreSentWhileTheScansHaveRoom
    VerdictsAreActedOn
