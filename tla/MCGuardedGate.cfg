\* Two gates, started in the same second or in different ones.
CONSTANTS
    Gates <- MCGates
    Seconds = {1, 2}
    Configs <- MCConfigs

SPECIFICATION Spec

INVARIANTS
    VerdictIsLastAttempts
    GateExitHonest

PROPERTIES
    GateEnds
