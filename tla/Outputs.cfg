SPECIFICATION Spec
CONSTANTS
    Temps = {990, 1100}
    Internals = {0, 66}
    Atts = {0, 95}
    SetTemps = {0}
    Alarms = {"target", "internal"}
    Modes = {"NC_TARGET", "NO_TARGET_INTERNAL", "NO_INTERNAL"}
    On <- MCOn
    Dead <- MCDead
    DecayRate = 90
PROPERTIES OutputFollows RelaySettles AlarmRises
