SPECIFICATION Spec
CONSTANTS
    t1 = t1
    t2 = t2
    i1 = i1
    f1 = f1
    f2 = f2
    NoFunc = NoFunc
    Task <- Tasks
    Isr <- Isrs
    Func <- Funcs
    Size = 3
INVARIANTS
    NoLostWakeup
    GiveSucceeds
PROPERTIES
    FifoOrder
    ImplementsFifo
