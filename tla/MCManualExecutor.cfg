CONSTANTS
    producer = producer
    waiter = waiter
    waiter2 = waiter2
    closer = closer
    Threads = {producer, waiter, waiter2, closer}
    Tasks = {t1, t2}
    MaxCalls = 1
    MaxCount = 2
    Calls <- MCCalls
SPECIFICATION Spec
INVARIANT TypeOK ExactlyOnce NoLostTask NoTaskAfterShutdown
PROPERTY ExecutorContract ShutdownWakesWaiters
PROPERTY ShutdownResolvesTasks LoopReportsShutdown
CHECK_DEADLOCK FALSE
