SPECIFICATION Spec
CONSTANTS
    NoText = NoText
    NoSnapshot = NoSnapshot
    Characters <- MCCharacters
    KeyCharacters <- MCKeyCharacters
    CallCharacters <- MCCallCharacters
    Years <- MCYears
    Texts <- MCTexts
    PlainFields = {"city", "interest_codes"}
    RawTags = {}
    MaxKeyCall = 2
    MaxCall = 3
    Databases <- MCDatabases
    Calls <- MCCalls
    WindowLengths <- MCWindowLengths
    InterestField = "interest_codes"
    Codes <- MCCodes
    Known <- MCKnown
    CodesOf <- MCCodesOf
    SliceOffsets <- MCSliceOffsets
    SliceLength = 205
INVARIANTS
    SearchAsParsed
    StatisticsAgreeWithSearch
    InventoryComplete
    SliceKeysAreByteKeys
CHECK_DEADLOCK FALSE
