SPECIFICATION Spec
CONSTANTS
    Nothing = Nothing
    Images = {"shelf", "pile"}
    Title <- OneEach
    Fix = "C"
    MaxRuns = 2
    Plays <- TuningPlays
INVARIANT RunsAreSound
PROPERTIES EveryRunEnds RejectionsStand
CHECK_DEADLOCK FALSE
