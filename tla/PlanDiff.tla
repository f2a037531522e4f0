------------------------------ MODULE PlanDiff ------------------------------
(***************************************************************************)
(* The drawing of one site as the web editor holds it, the calls that turn  *)
(* one drawing into another, and what the server does with each call.       *)
(*                                                                         *)
(* A drawing is [rooms, cases]: functions from ids to records.  A case      *)
(* holds its sections bottom first, each                                    *)
(*   [id, levels, gaps, defaultLevels, defaultDepth, depths]                *)
(* with the depth of the shelf in every cell.  The library has the same     *)
(* shape, for all its sites, under the ids of its rows.  A call is          *)
(* [kind, id, names, body]: `id` is the object it is about, `names` the     *)
(* ids its request carries.                                                 *)
(*                                                                         *)
(* Abstracted: names, rectangles and fronts are one `look`; a site has one  *)
(* storey, so a room's site stands for it; emptying the slots is part of    *)
(* the removal it goes before; books and photographs are not counted.       *)
(***************************************************************************)
EXTENDS Furniture

CONSTANTS
    Nowhere,
    DefaultColumns, DefaultLevels     \* what a case is drawn with

(***************************************************************************)
(* Shapes.                                                                  *)
(***************************************************************************)

(* Cells that appear get the default depth; the ones that stood keep theirs. *)
Furnished(was, now) ==
    [now EXCEPT !.depths = [c \in Cells(now) |-> IF c \in Cells(was) THEN was.depths[c]
                                                                    ELSE now.defaultDepth]]

Built(id, columns, levels, depth) ==
    LET s == [id |-> id, levels |-> [c \in 1..columns |-> levels], gaps |-> {},
              defaultLevels |-> levels, defaultDepth |-> depth, depths |-> <<>>]
    IN  [s EXCEPT !.depths = [c \in Cells(s) |-> depth]]

Like(id, s) == Built(id, Len(s.levels), s.defaultLevels, s.defaultDepth)

(* One instruction to a section: the editor's gesture and the server's      *)
(* handler do the same arithmetic.                                          *)
Reshaped(s, kind, body) ==
    CASE kind = "section.defaults" -> [s EXCEPT !.defaultLevels = body[1], !.defaultDepth = body[2]]
      [] kind = "section.columns"  -> Furnished(s, WithColumnCount(s, body))
      [] kind = "section.levels"   -> Furnished(s, WithColumnLevels(s, body[1], body[2]))
      [] kind = "section.gaps"     -> Furnished(s, WithGaps(s, body[1], body[2]))
      [] kind = "shelf.depth"      -> [s EXCEPT !.depths[body[1]] = body[2]]

(***************************************************************************)
(* The difference.                                                          *)
(***************************************************************************)
Call(kind, id, names, body) == [kind |-> kind, id |-> id, names |-> names, body |-> body]
When(needed, call) == IF needed THEN <<call>> ELSE <<>>
ForEach(S, calls(_)) == FoldSet(LAMBDA x, sofar : sofar \o calls(x), <<>>, S)

(* The calls that turn a section as the server has it into `want`: heights  *)
(* after the count that resets them, cells after the grid they stand in.    *)
ShapeOps(had, want) ==
    LET To(kind, body) == Call(kind, want.id, <<want.id>>, body)
        columns == Len(want.levels)
        heights == [c \in 1..columns |-> IF c <= Len(had.levels) THEN had.levels[c]
                                                                ELSE want.defaultLevels]
        opened  == want.gaps \ had.gaps
        closed  == (had.gaps \ want.gaps) \cap Grid(want.levels)
        DepthOf(cell) == IF cell \in Cells(had) THEN had.depths[cell] ELSE want.defaultDepth
    IN  When(<<had.defaultLevels, had.defaultDepth>> # <<want.defaultLevels, want.defaultDepth>>,
             To("section.defaults", <<want.defaultLevels, want.defaultDepth>>))
        \o When(Len(had.levels) # columns, To("section.columns", columns))
        \o ForEach({c \in 1..columns : heights[c] # want.levels[c]},
                   LAMBDA c : <<To("section.levels", <<c, want.levels[c]>>)>>)
        \o When(opened # {}, To("section.gaps", <<opened, TRUE>>))
        \o When(closed # {}, To("section.gaps", <<closed, FALSE>>))
        \o ForEach({cell \in Cells(want) : DepthOf(cell) # want.depths[cell]},
                   LAMBDA cell : <<To("shelf.depth", <<cell, want.depths[cell]>>)>>)

HasSection(sections, s) == \E i \in DOMAIN sections : sections[i].id = s
PlaceOf(sections, s) == CHOOSE i \in DOMAIN sections : sections[i].id = s

(* The sections of one case, bottom first, given what the server holds for  *)
(* it; that list is advanced as each call lands.                            *)
SectionOps(live, want, case) ==
    LET Step(acc, i) ==
            LET s      == want[i]
                under  == IF i > 1 THEN want[i - 1].id ELSE Nowhere
                at     == IF i > 1 THEN PlaceOf(acc.standing, under) ELSE 0
                isNew  == ~HasSection(acc.standing, s.id)
                standing == IF isNew THEN InsertAt(acc.standing, at + 1,
                                                   Like(s.id, acc.standing[IF i > 1 THEN at ELSE 1]))
                                     ELSE acc.standing
                here   == PlaceOf(standing, s.id)
            IN  [standing |-> [standing EXCEPT ![here] = s],
                 calls    |-> acc.calls
                              \o When(isNew, Call("section.add", s.id, <<case, under>>, <<>>))
                              \o ShapeOps(standing[here], s)]
    IN  FoldLeft(Step, [standing |-> live, calls |-> <<>>], [i \in DOMAIN want |-> i]).calls

(* What the create of a case will have made: its first section, uniform.    *)
AsDrawn(c) == <<Like(c.sections[1].id, c.sections[1])>>

RoomOps(before, after) ==
    ForEach(DOMAIN after.rooms, LAMBDA r :
        IF r \notin DOMAIN before.rooms
        THEN <<Call("room.add", r, <<>>, after.rooms[r])>>
        ELSE When(before.rooms[r] # after.rooms[r], Call("room.edit", r, <<r>>, after.rooms[r])))

CaseOps(before, after) ==
    ForEach(DOMAIN after.cases, LAMBDA k :
        LET now == after.cases[k]
        IN  IF k \notin DOMAIN before.cases
            THEN <<Call("case.add", k, <<now.room>>, now)>> \o SectionOps(AsDrawn(now), now.sections, k)
            ELSE LET was == before.cases[k]
                 IN  When(<<was.look, was.room>> # <<now.look, now.room>>,
                          Call("case.edit", k, IF was.room # now.room THEN <<k, now.room>> ELSE <<k>>,
                               now.look))
                     \o SectionOps(was.sections, now.sections, k))

(* Removals last, and innermost first.                                      *)
RemoveOps(before, after) ==
    ForEach(DOMAIN before.cases, LAMBDA k :
        IF k \notin DOMAIN after.cases
        THEN <<Call("case.remove", k, <<k>>, <<>>)>>
        ELSE ForEach({s \in ToSet(before.cases[k].sections) : ~HasSection(after.cases[k].sections, s.id)},
                     LAMBDA s : <<Call("section.remove", s.id, <<s.id>>, <<>>)>>))
    \o ForEach(DOMAIN before.rooms \ DOMAIN after.rooms,
               LAMBDA r : <<Call("room.remove", r, <<r>>, <<>>)>>)

Diff(before, after) ==
    RoomOps(before, after) \o CaseOps(before, after) \o RemoveOps(before, after)

(***************************************************************************)
(* The server.                                                              *)
(***************************************************************************)
CaseOf(lib, s) == CHOOSE k \in DOMAIN lib.cases : HasSection(lib.cases[k].sections, s)

RowsOf(lib) ==
    DOMAIN lib.rooms \cup DOMAIN lib.cases
    \cup UNION {{lib.cases[k].sections[i].id : i \in DOMAIN lib.cases[k].sections} : k \in DOMAIN lib.cases}

(* `new` and the row after it are the ids of what the request makes.        *)
WithRoom(lib, id, room) == [lib EXCEPT !.rooms = (id :> room) @@ @]
WithCase(lib, id, case) == [lib EXCEPT !.cases = (id :> case) @@ @]

Landed(lib, req, site, new, newSection) ==
    LET id == req.names[1]
        section == CaseOf(lib, id)
        SectionsOf(sections) == [lib EXCEPT !.cases[section].sections = sections]
    IN
    CASE req.kind = "room.add"    -> WithRoom(lib, new, [req.body EXCEPT !.site = site])
      [] req.kind = "room.edit"   -> WithRoom(lib, id, req.body)
      [] req.kind = "room.remove" ->
            [lib EXCEPT !.rooms = Restrict(@, DOMAIN @ \ {id}),
                        !.cases = [k \in DOMAIN @ |-> IF @[k].room = id
                                                      THEN [@[k] EXCEPT !.room = Nowhere] ELSE @[k]]]
      [] req.kind = "case.add"    ->
            WithCase(lib, new, [site |-> site, room |-> id, look |-> req.body.look,
                                sections |-> <<Like(newSection, req.body.sections[1])>>])
      [] req.kind = "case.edit"   ->
            [lib EXCEPT !.cases[id].look = req.body,
                        !.cases[id].room = IF Len(req.names) = 2 THEN req.names[2] ELSE @]
      [] req.kind = "case.remove" -> [lib EXCEPT !.cases = Restrict(@, DOMAIN @ \ {id})]
      [] req.kind = "section.add" ->
            LET standing == lib.cases[id].sections
                at == IF req.names[2] = Nowhere THEN 0 ELSE PlaceOf(standing, req.names[2])
            IN  [lib EXCEPT !.cases[id].sections =
                    InsertAt(@, at + 1, Like(newSection, standing[IF at = 0 THEN 1 ELSE at]))]
      [] req.kind = "section.remove" ->
            SectionsOf(SelectSeq(lib.cases[section].sections, LAMBDA s : s.id # id))
      [] OTHER ->
            LET standing == lib.cases[section].sections
                at == PlaceOf(standing, id)
            IN  SectionsOf([standing EXCEPT ![at] = Reshaped(@, req.kind, req.body)])

(* The sections a request would leave behind, where it makes slots: an undo *)
(* of a gap makes some only if the gap stood.                               *)
LeavesBehind(lib, req, site) ==
    LET left(k) == Landed(lib, req, site, Nowhere, Nowhere).cases[k].sections
        k == CaseOf(lib, req.names[1])
        was == lib.cases[k].sections
        i == PlaceOf(was, req.names[1])
    IN  CASE req.kind = "case.add"    -> left(Nowhere)
          [] req.kind = "section.add" -> left(req.names[1])
          [] req.kind \in {"section.columns", "section.levels"} -> left(k)
          [] req.kind = "section.gaps" -> IF Added(was[i], left(k)[i]) # {} THEN left(k) ELSE <<>>
          [] OTHER -> <<>>

(* A request that names a row nobody holds is answered 404; one about a     *)
(* site that is gone likewise; a case keeps its last section, and holds no  *)
(* more sections and shelves than the server allows: in the middle of a     *)
(* push too, where the drawing it leads to may fit.                         *)
Refuses(lib, req, site) ==
    \/ ToSet(req.names) \ (RowsOf(lib) \cup {Nowhere}) # {}
    \/ req.kind \in {"room.add", "case.add"} /\ site \notin lib.sites
    \/ req.kind = "section.remove" /\ Len(lib.cases[CaseOf(lib, req.names[1])].sections) = 1
    \/ TooManySlots(LeavesBehind(lib, req, site))
=============================================================================
