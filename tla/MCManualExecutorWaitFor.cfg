CONSTANTS
    producer = producer
    waiter = waiter
    waiter2 = waiter2
    closer = closer
    Threads = {producer, waiter}
    Tasks = {t1, t2}
    MaxCalls = 1
    MaxCount = 2
    Calls <- MCCallsWaitFor
SPECIFICATION Spec
INVARIANT WaitForTaskForReportsTask
CHECK_DEADLOCK FALSE
