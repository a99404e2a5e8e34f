CONSTANTS
    Roots = {data, files}
    data = data
    files = files
    DataRoot = data
    MaxRelease = 3
    MaxWrites = 2
    MaxFaults = 2
    MaxCrashes = 2
SPECIFICATION Spec
CHECK_DEADLOCK FALSE
INVARIANTS DataFitsRelease AcceptedWritesSurvive
PROPERTIES EveryUpdateEnds ChoiceSpec
