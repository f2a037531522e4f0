----------------------------- MODULE MCMapEdit -----------------------------
(***************************************************************************)
(* MapEdit on a house of two floors, one bookcase of two sections and a     *)
(* handful of shelves.                                                      *)
(***************************************************************************)
EXTENDS MapEdit

CONSTANTS h1, h2, f1, f2, room, k1, k2, s1, s2, s3, c1, p1

Sec(n, levels, gaps, dl, dd) ==
    [case |-> k1, ordinal |-> n, levels |-> levels, gaps |-> gaps,
     defaultLevels |-> dl, defaultDepth |-> dd]
Sh(address, depth, label) == [address |-> address, depth |-> depth, label |-> label]

(* Every home and every bookcase called the same, the room not at all.      *)
AllAlike == [x \in Sites \cup Places \cup Cases |-> IF x = room THEN Nowhere ELSE "books"]

World(f) == f @@ [t \in Targets |-> Absent]

House == (<<"site", h1>> :> [kept |-> TRUE]) @@ (<<"floor", f1>> :> [site |-> h1])
    @@ (<<"case", k1>> :> [floor |-> f1, place |-> Nowhere])

(* One section, two columns; a copy behind on the first shelf; the second   *)
(* one asked about.                                                         *)
OneSection ==
    House @@ (Section(s1) :> Sec(1, <<1, 1>>, {}, 1, 1))
    @@ (Shelf(1) :> Sh(<<s1, 1, 1>>, 2, FALSE)) @@ (Shelf(2) :> Sh(<<s1, 2, 1>>, 1, FALSE))
    @@ (<<"copy", c1>> :> [at |-> 1, depth |-> 2])
    @@ (<<"question", 2>> :> [asked |-> TRUE])

(* Two sections, one switched off cell, an empty shelf on top.              *)
TwoSections ==
    House @@ (Section(s1) :> Sec(1, <<2>>, {<<1, 2>>}, 1, 1)) @@ (Section(s2) :> Sec(2, <<1>>, {}, 1, 1))
    @@ (Shelf(1) :> Sh(<<s1, 1, 1>>, 1, FALSE)) @@ (Shelf(2) :> Sh(<<s2, 1, 1>>, 1, FALSE))
    @@ (<<"copy", c1>> :> [at |-> 1, depth |-> 1])

(* A room with a case in it, on one of two floors.                          *)
Rooms ==
    (<<"site", h1>> :> [kept |-> TRUE]) @@ (<<"floor", f1>> :> [site |-> h1])
    @@ (<<"floor", f2>> :> [site |-> h1]) @@ (<<"place", room>> :> [floor |-> f1])
    @@ (<<"case", k1>> :> [floor |-> f1, place |-> room])
    @@ (Section(s1) :> Sec(1, <<1>>, {}, 1, 1))

Story(world, kinds, handlers, sizes, n) ==
    [rows |-> World(world),
     theme |-> [kinds |-> kinds, handlers |-> handlers, sizes |-> sizes, crashes |-> n]]

OneByOne(world, kinds) == Story(world, kinds, {1}, {1, 2}, 1)
AtOnce(world, kinds) == Story(world, kinds, {1, 2}, {1}, 0)

RaceWorld ==
    House @@ (Section(s1) :> Sec(1, <<1, 1>>, {}, 1, 1))
    @@ (Shelf(1) :> Sh(<<s1, 1, 1>>, 1, FALSE)) @@ (Shelf(2) :> Sh(<<s1, 2, 1>>, 1, FALSE))
    @@ (<<"question", 2>> :> [asked |-> TRUE])

(* Three requests in turn, with a crash; two that overlap: an edit, an undo *)
(* and what goes on meanwhile, the two halves of a removal and what lands   *)
(* between them, a merge beside a cell switched off.                        *)
MCStories ==
    {OneByOne(OneSection, {"resize", "gaps", "undo", "shelve"}),
     OneByOne(TwoSections, {"gaps", "patch", "undo"}),
     OneByOne(TwoSections, {"create", "move", "clear", "remove", "draw", "undo", "patch"}),
     OneByOne(OneSection, {"depth", "set_depth", "defaults", "bind", "unbind_shelf", "undo", "shelve"}),
     OneByOne(Rooms, {"plan", "remove", "undo"}),
     AtOnce(RaceWorld, {"resize", "undo", "shelve", "patch"}),
     AtOnce(RaceWorld, {"clear", "remove", "undo", "patch", "shelve"}),
     AtOnce(RaceWorld, {"gaps", "undo", "absorb", "shelve"})}
=============================================================================
