SPECIFICATION Spec
CONSTANTS
    core = core  agent = agent  r1 = r1
    Writers = {core, agent}
    Readers = {r1}
    PageSize = 2
    MaxSequence = 3
    MaxDrops = 0
CHECK_DEADLOCK FALSE
INVARIANT ReadersMissNothing
