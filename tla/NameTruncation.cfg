SPECIFICATION Spec
CONSTANTS
    MaxBody = 6
    MaxLength = 6
INVARIANTS NameFits NothingWasted CutEvenly
PROPERTIES EveryStepGetsCloser
