SPECIFICATION Spec
CONSTANTS
    Nowhere = Nowhere
    k1 = k1
    k2 = k2
    front = front
    wish = wish
    gone = gone
    new = new
    c1 = c1
    c2 = c2
    Images = {k1, k2}
    Shelves = {front, wish, gone, new}
    Captures = {c1, c2}
    Requests = {1, 2}
    Plays <- PhotoPlays
    MaxRows = 3
INVARIANTS StripsAreSound NamedIsStored OrphansAreCollected
CHECK_DEADLOCK FALSE
