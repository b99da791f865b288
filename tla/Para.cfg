SPECIFICATION Spec
CONSTANTS
    v0 = v0
    v1 = v1
    bad = bad
    Torn = Torn
    NoCrc = NoCrc
    NGroups = 2
    Value <- ThreeValues
    BadAddr <- OneBadAddr
    DefVal = v0
    MaxFaults = 1
CONSTRAINT Focus
INVARIANTS
    Durable
    RedundantWhenIdle
    SurvivesOneFault
