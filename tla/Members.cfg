SPECIFICATION Spec
CONSTANTS
    Nobody = Nobody
    ana = ana
    ben = ben
    cyd = cyd
    m1 = m1
    m2 = m2
    m3 = m3
    sa = sa
    sb = sb
    sc = sc
    sd = sd
    se = se
    t1 = t1
    t2 = t2
    t3 = t3
    acc = acc
    own = own
    own2 = own2
    i1 = i1
    i2 = i2
    l1 = l1
    l2 = l2
    l3 = l3
    Mails = {m1, m2, m3}
    Users = {ana, ben, cyd}
    Sessions = {sa, sb, sc, sd, se}
    Tokens = {t1, t2, t3}
    Accounts = {acc, own, own2}
    Invites = {i1, i2}
    Libraries = {l1, l2, l3}
    Requests = {1, 2}
    LinkRate = 2
    LibraryCap = 2
    Plays <- MemberPlays
INVARIANTS AccountsAreSound RemovalIsFinal HalfAnAcceptanceCanBeFinished
PROPERTY SignedOutStaysOut
CHECK_DEADLOCK FALSE
