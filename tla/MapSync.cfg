SPECIFICATION Spec
CONSTANTS
    Nowhere = Nowhere
    MaxSections = 3
    MaxSlots = 8
    MaxDeep = 2
    MaxHeight = 3
    DefaultColumns = 1
    DefaultLevels = 2
    Plays <- SyncPlays
INVARIANTS SavedMeansSaved OnlyServerIdsOnTheWire NothingIsDestroyedUnasked
CHECK_DEADLOCK FALSE
