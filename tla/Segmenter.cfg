SPECIFICATION Spec
CONSTANTS
    Documents <- MCDocuments
    MinLength = 20
INVARIANTS
    TypeOK
    ClausesAreSentences
    NothingIsLost
CHECK_DEADLOCK FALSE
