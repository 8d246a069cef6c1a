SPECIFICATION StationSpec
CONSTANTS
    Beginnings <- MCBeginnings
    OtherFiles <- MCOtherFiles
    Base <- MCBase
    Callsigns <- MCCallsigns
    Lines <- MCLines
    Centroids <- MCCentroids
    Trees <- RichTrees
    Reports <- MCReports
INVARIANTS
    OpenedAsAtOneMoment
    OneCountry
    AssetsInOneOrder
    FoundPhotosAreShown
CHECK_DEADLOCK FALSE
