SPECIFICATION Spec
CONSTANTS
    Cores = {c1}
    Runs = {r1, r2, r3}
    maxReconcileRuns = 2
    Stages = 2
    Conns = 2
    EvaluationsFail = FALSE
CHECK_DEADLOCK FALSE
PROPERTIES
    EveryRunAdvances
