SPECIFICATION FairSpec
CONSTANTS
    c1 = c1
    c2 = c2
    c3 = c3
    t1 = t1
    t2 = t2
    t3 = t3
    t4 = t4
    NoOne = NoOne
    NoWindow = NoWindow
    Callers = {c1, c2, c3}
    Durable = {c3}
    Windows = {t1, t2, t3, t4}
    Threshold = 2
    Recovery = 1
    MaxProbes = 2
    MaxLag = 1
    Faults = {"uncounted", "abort"}
INVARIANTS
    ProbesAccounted
    FailuresOpenTheCircuit
PROPERTIES
    AllProbesSucceedBeforeClosing
    HalfOpenEnds
