SPECIFICATION Spec
CONSTANTS
    Nothing = Nothing
    Torn = Torn
    MaxPhotos = 2
    MaxBackups = 2
    MaxRestores = 2
    Plays <- BackupPlays
INVARIANT NothingKeptIsLost
PROPERTY ARestoreIsTheBackup
CHECK_DEADLOCK FALSE
