SPECIFICATION HSpec
CONSTANTS
    c1 = c1  c2 = c2  s1 = s1  t1 = t1  t2 = t2  t3 = t3  p1 = p1  p2 = p2
    Cores = {c1, c2}
    Sources = {s1}
    Topics = {t1}
    Platforms = {p1}
    TargetPlatforms <- One
    RetriesAfterFailure = FALSE
    maxArticleVersion = 3
    topicLimit = 1
    articleLimit = 1
SYMMETRY CoreSymmetry
CHECK_DEADLOCK FALSE
INVARIANTS
    OneJobAtATime
    RewritesInLine
    DeskIsEarned
