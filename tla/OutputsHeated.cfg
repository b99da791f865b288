SPECIFICATION Spec
CONSTANTS
    Temps = {990, 1100}
    Internals = {0, 62}
    Atts = {0, 95}
    SetTemps = {50}
    Alarms = {"target"}
    Modes = {"NC_TARGET"}
    On <- MCOn
    Dead <- MCDead
    DecayRate = 90

PROPERTIES NormalOutput
