SPECIFICATION FairSpec
CONSTANTS
    NoText = NoText
    NoSnapshot = NoSnapshot
    Characters <- MCCharacters
    KeyCharacters <- MCCharacters
    Years <- MCYears
    Texts <- MCTexts
    PlainFields <- MCPlainFields
    RawTags <- MCRawTags
    MaxKeyCall = 3
    Databases <- MCDatabases
    Calls <- MCCalls
    WindowLengths <- MCWindowLengths
    MaxLookups = 2
INVARIANTS
    OwnCallOnly
    OneEntryPerVintage
    BackedUnlessCut
    IndexedRecordsReported
    CatalogWins
PROPERTIES
    EveryLookupReturns
    ImplementsLookupService
CHECK_DEADLOCK FALSE
