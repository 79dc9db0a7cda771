CONSTANTS
    w1 = w1  w2 = w2  c1 = c1
    NBranches = 3
    Sizes = {3}
    Workers = {w1, w2}
    Closers = {c1}
SPECIFICATION Spec


PROPERTY BranchRunsWhileJoined
CHECK_DEADLOCK FALSE
