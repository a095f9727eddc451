SPECIFICATION Spec
CONSTANTS
    Configs <- MCConfigs
    Ports = {"22", "80", "443"}
    MaxCommands = 4
INVARIANTS
    NeverMisled
    SetUpWorks
    NoFalseAlarm
    CleanUpRestores
\* The commands are few.
CHECK_DEADLOCK FALSE
