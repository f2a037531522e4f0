--------------------------- MODULE MCShelfReview ---------------------------
(* Small libraries for TLC: which claims the reads make, and where. *)
EXTENDS ShelfReview

Claim(key, tier) == [key |-> key, tier |-> tier]

CONSTANTS k1, k2, s1, s2

CONSTANTS h1, h2, l1, p1, p2

EveryKind == {"apply", "retract", "restore", "answer", "skip", "approve", "rename",
              "delete", "create", "copy"}
Loans == {"apply", "answer", "copy", "patch", "lend", "return"}
Play(kinds, handlers, n, c) ==
    [kinds |-> kinds, handlers |-> handlers, requests |-> n, crashes |-> c]

\* One request at a time: every kind and a crash; those about books that are
\* known, deeper; what happens to copies that are described and lent.  Two at
\* a time: those that race for a key.
ReviewPlays ==
    {Play(EveryKind, {h1}, 4, 1),
     Play(EveryKind \ {"approve", "rename", "create"}, {h1}, 5, 0),
     Play(Loans, {h1}, 5, 0),
     Play({"apply", "retract", "rename", "delete", "create"}, {h1, h2}, 3, 0)}

\* Two shelves: the machine reads one book on both, and on the second shelf
\* the owner types the other book onto the photo.
TwoReads == 1 .. 2
TwoClaims == <<<<Claim(k1, "auto")>>, <<Claim(k1, "review"), Claim(k2, "manual")>>>>
TwoSites == <<s1, s2>>
=============================================================================
