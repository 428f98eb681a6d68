SPECIFICATION Spec
CONSTANTS
    MaxOptions = 3
    MaxPaths = 3
    MaxLen = 2
    MaxRules = 3
    MaxGlob = 3
INVARIANTS
    OptionsArrive DoesWhatWasAsked ArgvArrives GlobMeansPieces RulesArrive
\* A command line that has been executed is finished.
CHECK_DEADLOCK FALSE
