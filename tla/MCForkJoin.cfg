CONSTANTS
    w1 = w1  w2 = w2  c1 = c1
    NBranches = 5
    Sizes = {0, 1, 5}
    Workers = {w1, w2}
    Closers = {c1}
SPECIFICATION Spec
INVARIANT BranchesRunOnce
INVARIANT ResumedAfterAll FrameDestroyedOnce
PROPERTY CallerContinues
CHECK_DEADLOCK FALSE
