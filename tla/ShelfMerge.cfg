SPECIFICATION Spec
CONSTANTS
    Absent = Absent
    Nowhere = Nowhere
    a = a
    b = b
    c = c
    slot = slot
    c1 = c1
    c2 = c2
    p1 = p1
    p2 = p2
    p3 = p3
    x = x
    Shelves = {a, b, c}
    Slots = {slot}
    Copies = {c1, c2}
    Photos = {p1, p2, p3}
    Keys = {x}
    Requests = {1, 2}
    Plays <- MergePlays
    Watched <- WatchedRows
    MaxDepth = 3
INVARIANTS ShelvesAreSound MergeFinishes UndoLeavesNoTrace
CHECK_DEADLOCK FALSE
