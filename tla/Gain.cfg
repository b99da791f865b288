SPECIFICATION Spec
CONSTANTS
    Lights = {1, 3}
    Sens <- MCSens
    K = 2
    Upper = 6
    Lower = 5
    Full = 8
    Valid = 7
    CntThod = 3
    Discard = 1
    HistSize = 2
    CmdCh = {"WB"}
    MaxCmds = 1
INVARIANTS ScaledRight SlopeDefined
PROPERTIES Settles Obeys
