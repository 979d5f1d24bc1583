SPECIFICATION Spec
CONSTANTS
    LocalRoot <- MCLocalRoot
    MaxClips = 12
    MaxGraph = 4
    Precision = 20
    Durations = {0, 5, 8, 31, 40}
    Targets = {10, 15, 30}
    MaxRatio = 33
    MaxCaption = 5
    Token = "token"
    Segments = {"lib", "token", "file", "", ".", ".."}
    MaxPath = 4
INVARIANT SelectionIsRight
INVARIANT GraphLinksUp
INVARIANT ReelFitsTarget
INVARIANT TempoIsClose
INVARIANT NamesRoundTrip
INVARIANT NamesAreStable
INVARIANT KeyIgnoresOrder
INVARIANT FetchersAgree
CHECK_DEADLOCK FALSE
