SPECIFICATION Spec
CONSTANTS
    Absent = Absent
    Nowhere = Nowhere
    NameOf <- AllAlike
    h1 = h1
    h2 = h2
    f1 = f1
    f2 = f2
    room = room
    k1 = k1
    k2 = k2
    s1 = s1
    s2 = s2
    s3 = s3
    c1 = c1
    p1 = p1
    Sites = {h1, h2}
    Floors = {f1, f2}
    Places = {room}
    Cases = {k1, k2}
    Sections = {s1, s2, s3}
    Copies = {c1}
    Photos = {p1}
    MaxShelf = 5
    Requests = {1, 2}
    Stories <- MCStories
    MaxPicked = 1
    MaxRequests = 3
    Watched <- WatchedRows
    MaxSections = 3
    MaxSlots = 4
    MaxDeep = 3
INVARIANTS MapIsSound UndoLeavesNoTrace
PROPERTIES NothingIsLost UndoSeesOthersWork
CHECK_DEADLOCK FALSE
