----------------------------- MODULE MCMapSync ------------------------------
(***************************************************************************)
(* A house of one room with a bookcase in it, drawn on and saved.           *)
(***************************************************************************)
EXTENDS MapSync

r1 == Row(1)
k1 == Row(2)

Base == Built(Row(3), 1, 2, 1)
Hutch == Built(Row(4), 1, 1, 2)

Room == [site |-> 1, look |-> 1]
Case(sections) == [site |-> 1, room |-> r1, look |-> 1, sections |-> sections]

Empty   == [sites |-> {1}, rooms |-> <<>>, cases |-> <<>>]
House(sections) == [sites |-> {1}, rooms |-> r1 :> Room, cases |-> k1 :> Case(sections)]

Play(kinds, l, e, p, faults, f) ==
    [kinds |-> kinds, lib |-> l, minted |-> 4, edits |-> e, presses |-> p,
     faults |-> faults, faultsAtMost |-> f]

(* What is drawn, against requests that are lost or refused; the shapes one *)
(* or two gestures lead to; the undo stack; a drawing put back from a file; *)
(* re-derives in the middle of it all.                                      *)
DrawingPlays ==
    {Play({"room", "case", "name", "delete"}, Empty, 3, 0, {"lost", "refused"}, 1),
     Play({"room", "attach", "delete", "undo"}, House(<<Base>>), 3, 0, {"lost", "refused"}, 1),
     Play({"section", "undo", "delete"}, House(<<Base, Hutch>>), 3, 0, {"refused"}, 1),
     Play({"paste", "undo", "delete"}, House(<<Base, Hutch>>), 3, 0, {"lost"}, 1),
     Play({"file", "room", "delete", "name"}, House(<<Base>>), 3, 0, {"lost"}, 1),
     Play({"shape", "paste"}, House(<<Base>>), 2, 0, {}, 0),
     Play({"section", "shape", "paste"}, House(<<Base, Hutch>>), 2, 0, {}, 0)}

RederivePlays ==
    {Play({"room", "delete", "reload"}, House(<<Base>>), 3, 2, {"lost", "refused"}, 1),
     Play({"room", "delete", "move", "photo"}, House(<<Base, Hutch>>), 3, 2, {"lost", "refused"}, 1),
     Play({"room", "delete", "take back", "reload"}, House(<<Base, Hutch>>), 2, 2, {"refused"}, 1),
     Play({"room", "delete", "sites", "add site", "remove site"}, Empty, 2, 3, {"refused"}, 1)}

(* Furniture drawn this session, saved to a file, and put back later; an    *)
(* answer lost half way.                                                    *)
HardPlays ==
    {Play({"case", "file", "reload"}, Empty, 2, 1, {}, 0),
     Play({"room"}, Empty, 3, 0, {"lost", "lost half way"}, 2)}

SyncPlays == HardPlays \cup DrawingPlays \cup RederivePlays
=============================================================================
