SPECIFICATION Spec
CONSTANTS
    NoKey = "none"
    Keys <- MCKeys
    YearOf <- MCYearOf
    PlausibleYears = {10}
    CallKeys <- MCCallKeys
    Hash <- MCHash
    Files <- MCFiles
INVARIANTS
    SearchIsScan
    YearsComplete
    StatisticsComplete
