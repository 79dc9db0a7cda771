CONSTANT Bound = 300
SPECIFICATION Spec
INVARIANT IsPrimeCorrect
INVARIANT NextPrimeLeast
CHECK_DEADLOCK FALSE
