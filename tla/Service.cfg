SPECIFICATION Spec
CONSTANTS
    Paras = {"default", "own", "other"}
    Def = "default"
INVARIANTS InUseIsStored NoneLost
PROPERTIES AsAsked Executed
