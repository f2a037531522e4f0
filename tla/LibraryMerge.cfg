SPECIFICATION Spec
CONSTANTS
    Absent = Absent
    Idle = Idle
    Src = Src
    Dst = Dst
    Books = {1, 2, 3}
    Copies = {1, 2, 3, 4, 5}
    Photos = {1, 2, 3}
    Images = {1, 2}
    Title <- TitleOf
    WorkOf <- CopyOf
    ImageOf <- FileOf
    MaxRequests = 3
    MaxRuns = 2
    Plays <- MergePlays
INVARIANTS NamedPhotosResolve CopiesKeepTheirWork NoRowIsStranded
CHECK_DEADLOCK FALSE
