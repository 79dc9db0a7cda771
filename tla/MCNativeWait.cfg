\* atomic_wait / atomic_wait_for over WaitOnAddress with 4-bit DWORDs.
CONSTANTS
    w1 = w1
    n1 = n1
    Threads = {w1, n1}
    Calls <- MCCalls
    Timeouts <- MCTimeouts
    MaxStores = 3
    MaxCalls = 3
    Width = 4
    Platform = "windows"
SPECIFICATION Spec
PROPERTY WaitForReturns ChangedWaiterReturns
\* Threads stop once they have made their calls.
CHECK_DEADLOCK FALSE
