SPECIFICATION Spec
CONSTANTS
    Tables <- MCTables
    Asked <- MCAsked
    Bangs <- MCBangs
    Zeds <- MCZeds
INVARIANTS
    FoundIsAsked
    MissMeansAbsent
    ListingComplete
