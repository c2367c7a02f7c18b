SPECIFICATION Spec
CONSTANTS
    c1 = c1  c2 = c2  s1 = s1  s2 = s2  t1 = t1  t2 = t2  t3 = t3  p1 = p1  p2 = p2
    Cores = {c1, c2}
    Sources = {s1, s2}
    Topics = {t1, t2, t3}
    Platforms = {p1, p2}
    TargetPlatforms <- NoneOneTwo
    RetriesAfterFailure = FALSE
SYMMETRY CoreAndSourceSymmetry
CHECK_DEADLOCK FALSE
INVARIANTS
    TypeOK
    FanOutOnce
    StagesAreWhole
    GatesHold
    VetoIsFinal
PROPERTIES
    EmptyEndsAreTrue
    SettledRunFrozen
    LineSpec
