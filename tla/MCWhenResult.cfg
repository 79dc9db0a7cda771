CONSTANTS
    NAny = 4
    NAll = 2
SPECIFICATION Spec
INVARIANT AnyResumedOnce
INVARIANT RewoundAfterResume
INVARIANT AllAfterAll
PROPERTY AnyOfContract
PROPERTY AnyCompletes
PROPERTY AllCompletes
CHECK_DEADLOCK FALSE
