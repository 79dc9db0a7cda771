CONSTANTS
    w1 = w1  w2 = w2  w3 = w3  n1 = n1  n2 = n2  a = a  b = b
    Nil = Nil
    Threads = {w1, w2, n1, n2}
    Addrs = {a}
    MaxStores = 2
    MaxCalls = 1
    Calls <- MCCallsOne
    Addr <- MCAddrOne
SPECIFICATION Spec
PROPERTY WaiterReturns
CHECK_DEADLOCK FALSE
