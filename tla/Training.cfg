\* Documents of three to fifteen items; data sets of no, one and three examples.
\* The program ends.
CONSTANTS
    MaxItems = 15
    Documents <- MCDocuments
    ValidationSize = 1
    Iterations = 4
    BatchSize = 2
SPECIFICATION TSpec
INVARIANTS DependencesFirst TrainingComplete  EpochsExact
PROPERTY BuildEnds
CHECK_DEADLOCK FALSE
