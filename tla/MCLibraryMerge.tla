--------------------------- MODULE MCLibraryMerge ---------------------------
(***************************************************************************)
(* A household with two libraries: one work in both, one in the source      *)
(* only; a photograph filed in the source, whose file the target may hold   *)
(* already, from an earlier try long ago or cut short.                      *)
(***************************************************************************)
EXTENDS LibraryMerge, TLC

TitleOf == [b \in 1 .. 3 |-> IF b = 3 THEN "other" ELSE "shared"]
CopyOf  == [c \in 1 .. 5 |-> IF c = 4 THEN "other" ELSE "shared"]
FileOf  == [p \in 1 .. 3 |-> IF p = 3 THEN 2 ELSE 1]

File(sound, old) == [sound |-> sound, old |-> old]
World(there) ==
    [book  |-> [b \in 1 .. 3 |-> [lib |-> IF b = 2 THEN Dst ELSE Src, noted |-> FALSE]],
     copy  |-> [c \in 1 .. 5 |->
        CASE c = 1 -> [book |-> 1, position |-> 0]
          [] c = 2 -> [book |-> 1, position |-> 1]
          [] c = 3 -> [book |-> 2, position |-> 0]
          [] c = 4 -> [book |-> 3, position |-> 0]
          [] OTHER -> Absent],
     photo |-> [p \in 1 .. 3 |-> IF p = 1 THEN Src ELSE Absent],
     tree  |-> [l \in Libs |-> IF l = Src THEN 1 :> File(TRUE, TRUE) ELSE there]]

Play(there, upload, edit, answer) ==
    [world |-> World(there), uploads |-> upload, edits |-> edit, answers |-> answer,
     account |-> [l \in Libs |-> 1], hasty |-> FALSE, overtaken |-> FALSE]

(* The two libraries are of two customers.                                  *)
Apart(p)     == [p EXCEPT !.account[Dst] = 2]

(* Uploads and edits that begin before the merge commits and end after it.  *)
Overtaken(p) == [p EXCEPT !.overtaken = TRUE]
(* Books saved between the last look at them and the first write.           *)
Hasty(p)     == [p EXCEPT !.hasty = TRUE]

MergePlays ==
    {Play(<<>>, Libs, FALSE, TRUE), Play(<<>>, {}, TRUE, TRUE), Apart(Play(<<>>, {Src}, TRUE, FALSE)),
     Play(1 :> File(TRUE, TRUE), Libs, FALSE, FALSE), Play(1 :> File(FALSE, TRUE), {Src}, FALSE, FALSE),
     Overtaken(Play(<<>>, Libs, FALSE, FALSE)), Hasty(Play(<<>>, {}, TRUE, TRUE))}
=============================================================================
