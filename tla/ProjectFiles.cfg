SPECIFICATION Spec
CONSTANTS
    p1 = p1
    p2 = p2
    t1 = t1
    t2 = t2
    t3 = t3
    s1 = s1
    Wrapper <- TwoWrappers
    Thread <- ThreeThreads
    Background <- SecondThread
    Owner <- TwoOfOne
    Operator = operator
    Secrets <- OneSecret
INVARIANTS TypeOK EntriesVerify
PROPERTIES RefusalExplained
