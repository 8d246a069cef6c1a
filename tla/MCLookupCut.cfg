SPECIFICATION Spec
CONSTANTS
    NoText = NoText
    NoSnapshot = NoSnapshot
    Characters <- MCCharacters
    KeyCharacters <- MCCharacters
    Years <- MCYears
    Texts <- MCTexts
    PlainFields <- MCPlainFields
    RawTags <- MCRawTags
    MaxKeyCall = 3
    Databases <- NeighbourDatabases
    Calls <- MCCalls
    WindowLengths <- MCShortWindows
    MaxLookups = 2
INVARIANT
    OnlyLogicalRecords
CHECK_DEADLOCK FALSE
