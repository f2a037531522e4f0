------------------------------ MODULE MCPhotos ------------------------------
(***************************************************************************)
(* Photos on a shelf, a wishlist, a shelf that was absorbed and one to be   *)
(* made.                                                                    *)
(***************************************************************************)
EXTENDS Photos, TLC

CONSTANTS k1, k2, front, wish, gone, new, c1, c2

Strip(k, s, d, n) == [shelf |-> s, row |-> d, order |-> n, image |-> k]

(* k1 is filed on a shelf, k2 is an old file nothing names, or a crop.      *)
Play(kinds, overlap, n, cut, where, named) ==
    [kinds |-> kinds, overlap |-> overlap, requests |-> n, crashes |-> cut,
     wishlist |-> wish, alias |-> gone :> front,
     stored |-> {k1, k2}, crops |-> named,
     rows |-> [s \in Shelves |-> IF s \in {front, wish} THEN 1 ELSE 0],
     filed |-> [c \in Captures |-> IF c = c1 THEN Strip(k1, where, 1, 0) ELSE Absent]]

CollectorKinds == {"upload", "read", "file", "bind", "unfile", "delete_image", "collect"}
ShelfKinds     == {"upload", "file", "bind", "unfile", "deepen", "rename", "create", "drop"}

PhotoPlays ==
    {Play(CollectorKinds, 2, 4, 0, front, named) : named \in {{}, {k2}}}
    \cup {Play(CollectorKinds, 2, 3, 1, front, {})}
    \cup {Play({"collect", "upload", "file", "unfile"}, 2, 3, 0, wish, {})}
    \cup {Play(ShelfKinds, 2, 4, 0, front, {})}
=============================================================================
