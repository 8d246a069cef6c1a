SPECIFICATION FairSpec
CONSTANTS
    NoText = NoText
    NoSnapshot = NoSnapshot
    Characters <- MCCharacters
    KeyCharacters <- MCCharacters
    Years <- MCYears
    Texts <- MCTexts
    PlainFields = {"city"}
    RawTags = {"tag_d3"}
    MaxKeyCall = 3
    Databases <- MCDatabases
    Calls <- MCCalls
    WindowLengths <- MCWindowLengths
    Spellings <- MCSpellings
    Refused <- MCRefused
    Normal <- MCNormal
    PlausibleYears <- MCPlausibleYears
    Sentinels <- MCSentinels
INVARIANTS
    EachOnce
    NothingLost
    RunStopsAtError
PROPERTIES
    WalkEnds
CHECK_DEADLOCK FALSE
