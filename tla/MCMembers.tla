----------------------------- MODULE MCMembers ------------------------------
(***************************************************************************)
(* A household of two, and a newcomer: signing in, managing members, and    *)
(* accepting invites.                                                       *)
(***************************************************************************)
EXTENDS Members, TLC

CONSTANTS ana, ben, cyd, m1, m2, m3, sa, sb, sc, sd, se, t1, t2, t3, acc, own, own2, i1, i2, l1, l2, l3

Session(u, m, age) == [user |-> u, mail |-> m, revoked |-> FALSE, age |-> age]
NewInvite(kind)    == [account |-> acc, role |-> kind, user |-> Nobody, granted |-> FALSE,
                       given |-> FALSE, late |-> FALSE, closed |-> FALSE]

Only(D, f) == [x \in D |-> IF x \in DOMAIN f THEN f[x] ELSE Absent]

Play(kinds, n, cut, mails, sessions, tokens, roles, invites) ==
    [kinds |-> kinds, overlap |-> 2, requests |-> n, crashes |-> cut,
     mail |-> [u \in Users |-> IF u \in DOMAIN mails THEN mails[u] ELSE Nobody],
     token |-> Only(Tokens, tokens), session |-> Only(Sessions, sessions), invite |-> Only(Invites, invites),
     role |-> [u \in Users |-> [a \in Accounts |-> IF a = acc /\ u \in DOMAIN roles THEN roles[u] ELSE Nobody]],
     owner |-> [l \in Libraries |-> IF l = l1 THEN acc ELSE Nobody],
     founder |-> [a \in Accounts |-> IF a = acc THEN ana ELSE Nobody]]

None == [x \in {} |-> x]
Everyone == ana :> m1 @@ ben :> m2 @@ cyd :> m3
SignedIn == sa :> Session(ana, m1, "fresh") @@ sb :> Session(ben, m2, "fresh") @@ sc :> Session(cyd, m3, "fresh")

Links  == t1 :> NewToken("link", m2) @@ t2 :> NewToken("state", Nobody)
AnaIn  == sa :> Session(ana, m1, "fresh")
AnaLow == sa :> Session(ana, m1, "low")
BenIn  == sb :> Session(ben, m2, "fresh")
Couple == ana :> m1 @@ ben :> m2
Boss   == ana :> "admin"

(* ben's first sign-ins, and a session of ana's that is rolled; two admins  *)
(* at work on each other; invites accepted, finished, revoked and replayed; *)
(* a newcomer's first libraries beside an invite.                           *)
SignInPlays ==
    {Play({"redeem", "visit", "sign_out"}, 3, 0, ana :> m1, AnaLow, Links, Boss, None),
     Play({"link", "oauth", "redeem"}, 2, 0, ana :> m1, AnaIn, Links, Boss, None)}

ManagePlays ==
    {Play({"role", "remove", "library"}, 3, 0, Everyone, SignedIn, None, Boss @@ ben :> "admin", None)}

InvitePlays ==
    {Play({"remove", "accept"}, 3, 1, Everyone, SignedIn, None, Boss, i1 :> NewInvite("admin")),
     Play({"accept", "invite", "revoke"}, 3, 0, Couple, AnaIn @@ BenIn, None, Boss, i1 :> NewInvite("editor"))}

FirstPlays ==
    {Play({"redeem", "library", "accept"}, 3, 1, Couple, AnaIn @@ BenIn,
          t1 :> NewToken("link", m3), Boss, i1 :> NewInvite("editor"))}

TwicePlays ==
    {Play({"accept", "role"}, 3, 0, Everyone, SignedIn, None, ana :> "admin",
          i1 :> NewInvite("admin") @@ i2 :> NewInvite("editor"))}

MemberPlays ==
    SignInPlays \cup ManagePlays \cup InvitePlays \cup FirstPlays \cup TwicePlays
=============================================================================
