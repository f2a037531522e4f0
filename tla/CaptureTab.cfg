SPECIFICATION Spec
CONSTANTS
    Nothing = Nothing
    Claims = {c1}
    MaxReads = 2
    MaxWire = 2
    Plays <- CapturePlays
INVARIANT TheTabIsTrue
PROPERTY WatchedReadsAreShown
CHECK_DEADLOCK FALSE
