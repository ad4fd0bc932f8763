CONSTANTS
    MaxMutations = 3
    NoFile = NoFile
    Torn = Torn
SPECIFICATION Spec
INVARIANT HistoryIsSomewhere
PROPERTY NeverStartsOver
PROPERTY RestoreTells
