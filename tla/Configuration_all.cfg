CONSTANTS
    r1 = r1
    r2 = r2
    Runs <- MCRuns
    MaxSteps = 4
    MaxVersion = 2
SYMMETRY Symmetry
SPECIFICATION SettingsSpec
INVARIANTS
    SettingsTypeOK
    ChoiceKept
    DefaultsCurrent
PROPERTIES
    StartedAsShown
CHECK_DEADLOCK FALSE
