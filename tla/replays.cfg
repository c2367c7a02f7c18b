SPECIFICATION Spec
CONSTANTS
    root = root  first = first  second = second  s1 = s1  s2 = s2  t1 = t1  t2 = t2
    Root = root
    Children = {first, second}
    Sources = {s1}
    Topics = {t1}
    Nodes = {"source_fetch", "topic_scout", "topic_evaluate", "article_write", "article_evaluate", "human_review"}
    Modes = {"full", "failed_items", "evaluate_only"}
CHECK_DEADLOCK FALSE
SYMMETRY ChildSymmetry
INVARIANTS
    FanOutOnce
    InputsAreTheParents
    EndsAreEarned
    TopicsInWritingHaveWriters
PROPERTIES
    SettledRunsRest
