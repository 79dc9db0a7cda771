CONSTANTS
    w1 = w1  w2 = w2  w3 = w3  n1 = n1  n2 = n2  a = a  b = b
    Nil = Nil
    Threads = {w1, n1}
    Addrs = {a}
    MaxStores = 1
    MaxCalls = 1
    Calls <- MCCallsLone
    Addr <- MCAddrLone
SPECIFICATION Spec
PROPERTY RemoveNodeAssertHolds
CHECK_DEADLOCK FALSE
