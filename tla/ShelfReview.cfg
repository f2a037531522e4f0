CONSTANTS
    k1 = k1
    k2 = k2
    s1 = s1
    s2 = s2
    NoKey = NoKey
    NoSite = NoSite
    NoLabel = NoLabel
    NoOne = NoOne
    l1 = l1
    p1 = p1
    p2 = p2
    Labels = {l1}
    Borrowers = {p1, p2}
    Keys = {k1, k2}
    Sites = {s1, s2}
    Reads <- TwoReads
    Claims <- TwoClaims
    SiteOf <- TwoSites
    h1 = h1
    h2 = h2
    Handlers = {h1, h2}
    Plays <- ReviewPlays
SPECIFICATION Spec
INVARIANT LibraryIsSound
PROPERTIES HumanWorkIsKept RemovalSticks SuppressedStaysOut ApplyIsIdempotent
CHECK_DEADLOCK FALSE
