SPECIFICATION Spec
CONSTANTS
    Colon <- MCColon
    Asked <- MCAsked
    Strides = {1, 2}
    Files <- MCFiles
INVARIANTS
    SearchesAreScans
    CleanMeansSound
CHECK_DEADLOCK FALSE
