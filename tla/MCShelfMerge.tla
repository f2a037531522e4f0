---------------------------- MODULE MCShelfMerge ----------------------------
(***************************************************************************)
(* ShelfMerge on libraries of two or three shelves: what TLC starts from.   *)
(***************************************************************************)
EXTENDS ShelfMerge

CONSTANTS a, b, c, slot, c1, c2, p1, p2, p3, x

Sh(d, where) == [depth |-> d, address |-> where]
Cp(s, d)     == [at |-> s, depth |-> d]
Ph(s, d, n)  == [at |-> s, depth |-> d, order |-> n]
An(n)        == [stamp |-> n]

World(f) == f @@ [t \in Targets |-> Absent]

(* Two strips, a copy behind, both shelves answered, one asked.             *)
Full(where, mine, theirs) ==
    World((Shelf(a) :> Sh(2, where)) @@ (Shelf(b) :> Sh(1, Nowhere))
          @@ (<<"copy", c1>> :> Cp(a, 2))
          @@ (<<"photo", p1>> :> Ph(a, 1, 0)) @@ (<<"photo", p2>> :> Ph(a, 1, 1))
          @@ (<<"photo", p3>> :> Ph(b, 1, 0))
          @@ (<<"decision", <<a, x>>>> :> mine) @@ (<<"decision", <<b, x>>>> :> theirs)
          @@ (<<"question", <<a, x>>>> :> IF mine = Absent THEN An(1) ELSE Absent))

FullWorlds ==
    {Full(where, mine, theirs) : where \in {slot, Nowhere},
                                 mine \in {An(1), An(2), Absent}, theirs \in {An(1), Absent}}

(* Three shelves in a row, each with something on it, none much.            *)
ChainWorlds ==
    {World((Shelf(a) :> Sh(1, Nowhere)) @@ (Shelf(b) :> Sh(1, Nowhere)) @@ (Shelf(c) :> Sh(1, where))
          @@ (<<"copy", c1>> :> Cp(a, 1)) @@ (<<"photo", p1>> :> Ph(b, 1, 0)))
       : where \in {slot, Nowhere}}

AllKinds == {"merge", "again", "undo", "file", "deepen", "delete", "read", "answer"}
RaceKinds == {"merge", "undo", "file", "read"}

Play(world, C, P, kinds, overlap, n, cut, strips) ==
    [rows |-> world, copies |-> C, photos |-> P, kinds |-> kinds, overlap |-> overlap, requests |-> n,
     crashes |-> cut, strips |-> strips]
BothStrips == {"survivor_first", "absorbed_first"}
OneStrip   == {"survivor_first"}

(* One request at a time and a crash; two that overlap on three shelves.    *)
MergePlays ==
    {Play(w, Copies, Photos, AllKinds, 1, 3, 1, BothStrips) : w \in FullWorlds}
    \cup {Play(w, {c1}, {p1}, RaceKinds, 2, 3, 0, OneStrip) : w \in ChainWorlds}
=============================================================================
