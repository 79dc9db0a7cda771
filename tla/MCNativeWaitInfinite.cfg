\* atomic_wait_for(ms) on Windows when ms reaches the all-ones DWORD.
CONSTANTS
    w1 = w1
    n1 = n1
    Threads = {w1, n1}
    Calls <- MCCalls
    Timeouts <- MCTimeoutsLong
    MaxStores = 3
    MaxCalls = 3
    Width = 4
    Platform = "windows"
SPECIFICATION Spec
PROPERTY WaitForReturns
\* Threads stop once they have made their calls.
CHECK_DEADLOCK FALSE
