------------------------------ MODULE MapEdit ------------------------------
(***************************************************************************)
(* The plan of a house and the shelves that stand in it, edited, taken back *)
(* and used meanwhile.                                                      *)
(*                                                                         *)
(* An edit is several calls of the stores, each a transaction of its own.   *)
(* A request is a record of `job`: `todo` holds the calls it has still to   *)
(* make, one is made per step, and what was read earlier is carried in the  *)
(* record, so requests interleave call by call and a crash falls between    *)
(* any two.                                                                 *)
(*                                                                         *)
(* `rows` holds a row for each target <<table, key>>.  Abstracted: renames, *)
(* orders and rectangles of the plan's records; a shelf's label is whether  *)
(* it has one; the place of a photograph in its strip; answers.  Two reads  *)
(* a handler makes one right after the other are one step where no write    *)
(* between them changes what it does.                                       *)
(***************************************************************************)
EXTENDS MapUndo, Furniture

CONSTANTS
    Sites, Floors, Places, Cases, Sections, Copies, Photos,
    MaxShelf,        \* how many shelves a behaviour may make
    Nowhere,
    NameOf,          \* what the owner calls each home, room and bookcase: any words,
                     \* none (Nowhere), the same ones twice
    Requests,
    Stories,         \* where behaviours start and what they are made of: the rows,
                     \* the kinds of request, how many overlap, the sizes people
                     \* ask for, how many crashes
    MaxPicked,       \* cells switched on or off by one request
    MaxRequests

ASSUME NameOfAssumption == DOMAIN NameOf = Sites \cup Places \cup Cases

VARIABLES
    rows, entries, job,
    made,            \* the records made so far: an id is never used again
    theme,
    begun, crashes,
    base,            \* history: the library before the newest edit, if nothing ran since
    left,            \* history: the rows as each entry's requests left them
    late             \* history: what landed on a shelf between the look and the delete

vars == <<rows, entries, job, made, theme, begun, crashes, base, left, late>>

Shelves == 1..MaxShelf
Shelf(s)   == <<"shelf", s>>
Section(s) == <<"section", s>>

Targets == ({"site"} \X Sites) \cup ({"floor"} \X Floors) \cup ({"place"} \X Places)
    \cup ({"case"} \X Cases) \cup ({"section"} \X Sections)
    \cup ({"shelf", "alias", "question"} \X Shelves)
    \cup ({"copy"} \X Copies) \cup ({"photo"} \X Photos)

There(w, t) == w[t] # Absent
Standing(w, name) == {t \in DOMAIN w : t[1] = name /\ There(w, t)}

(* The rows a row hangs on. *)
Parents(t, row) ==
    CASE t[1] = "floor"   -> {<<"site", row.site>>}
      [] t[1] = "place"   -> {<<"floor", row.floor>>}
      [] t[1] = "case"    -> {<<"floor", row.floor>>}
                             \cup IF row.place = Nowhere THEN {} ELSE {<<"place", row.place>>}
      [] t[1] = "section" -> {<<"case", row.case>>}
      [] t[1] = "shelf"   -> IF row.address = Nowhere THEN {} ELSE {Section(row.address[1])}
      [] t[1] = "photo"   -> {Shelf(row.at)}
      [] t[1] = "alias"   -> {Shelf(row.into)}
      [] OTHER            -> {}

SectionsOf(w, case) == {t \in Standing(w, "section") : w[t].case = case}
StandingIn(w, S) ==
    {t \in Standing(w, "shelf") : w[t].address # Nowhere /\ Section(w[t].address[1]) \in S}

StandingInCase(w, case) == StandingIn(w, SectionsOf(w, case))

At(w, address) == {t \in Standing(w, "shelf") : w[t].address = address}

AddressesOf(t, section) == {<<t[2], cell[1], cell[2]>> : cell \in Cells(section)}

Unbound(row) == [row EXCEPT !.address = Nowhere]

(* deepest_occupied_depths: copies and photographs count, at any depth, the *)
(* ones that still name a shelf this one absorbed too; and a shelf that     *)
(* answers for another is occupied whatever stands there.                   *)
Identities(w, t) == {t[2]} \cup {s \in Shelves : /\ There(w, <<"alias", s>>)
                                                  /\ w[<<"alias", s>>].into = t[2]}

Contents(w, t) == {u \in Standing(w, "copy") \cup Standing(w, "photo") : w[u].at \in Identities(w, t)}

OccupiedDepths(w, t) ==
    {w[u].depth : u \in Contents(w, t)} \cup IF Identities(w, t) = {t[2]} THEN {} ELSE {1}

Occupied(w, t) == OccupiedDepths(w, t) # {}
Deepest(w, t) == IF Occupied(w, t) THEN CHOOSE d \in OccupiedDepths(w, t) :
                                            \A e \in OccupiedDepths(w, t) : e <= d
                 ELSE 1
-----------------------------------------------------------------------------
(* Where a shelf stands, in the words a person would use: the live row      *)
(* first, the one that answers for it on a miss; nothing unless the address *)
(* is a cell of the drawing.                                                *)
Plan(w) ==
    [t \in UNION {Standing(w, name) : name \in {"site", "floor", "place", "case", "section"}} |-> w[t]]

Resolved(w, s) == IF ~There(w, Shelf(s)) /\ There(w, <<"alias", s>>) THEN w[<<"alias", s>>].into ELSE s

(* An address prints names, and of the numbers only what discriminates.     *)
Printed(said, value) == IF said THEN value ELSE 0

AddressParts(plan, shelf, depth) ==
    LET section == plan[Section(shelf.address[1])]
        case    == plan[<<"case", section.case>>]
    IN  [site    |-> IF Cardinality(Standing(plan, "site")) > 1
                     THEN NameOf[plan[<<"floor", case.floor>>].site] ELSE Nowhere,
         place   |-> IF case.place = Nowhere THEN Nowhere ELSE NameOf[case.place],
         case    |-> NameOf[section.case],
         section |-> Printed(Cardinality(SectionsOf(plan, section.case)) > 1, section.ordinal),
         column  |-> Printed(Len(section.levels) > 1, shelf.address[2]),
         level   |-> shelf.address[3],
         row     |-> Printed(depth \in 2..shelf.depth, depth)]

WhereIs(w, s, depth) ==
    LET t     == Shelf(Resolved(w, s))
        plan  == Plan(w)
        drawn == /\ w[t].address # Nowhere
                 /\ Section(w[t].address[1]) \in DOMAIN plan
                 /\ w[t].address \in AddressesOf(Section(w[t].address[1]), plan[Section(w[t].address[1])])
                 /\ <<"case", plan[Section(w[t].address[1])].case>> \in DOMAIN plan
    IN  IF There(w, t) /\ drawn THEN AddressParts(plan, w[t], depth) ELSE Nowhere
-----------------------------------------------------------------------------
(* What the journal watches beside its targets: who stands in the slots a   *)
(* restored shelf goes back to and whether the grid still has them, the     *)
(* rows a restored row hangs on, the numbers a restored section would take. *)

Back(restore) == {t \in DOMAIN restore : restore[t] # Absent}

Touched(restore) ==
    {t \in Back(restore) : t[1] = "section"}
    \cup UNION {Parents(t, restore[t]) : t \in {u \in Back(restore) : u[1] = "shelf"}}

WatchedRows(restore) ==
    DOMAIN restore
    \cup ({"slots", "shape"} \X {t[2] : t \in Touched(restore)})
    \cup ({"exists"} \X (UNION {Parents(t, restore[t]) : t \in Back(restore)} \ Back(restore)))
    \cup ({"ordinals"} \X {restore[t].case : t \in {u \in Back(restore) : u[1] = "section"}})

Shape(row) == IF row = Absent THEN Absent ELSE <<row.levels, row.gaps>>

Seen(w) ==
    w @@ [k \in {"slots"} \X Sections |->
            {<<w[t].address, t>> : t \in StandingIn(w, {Section(k[2])})}]
      @@ [k \in {"shape"} \X Sections |-> Shape(w[Section(k[2])])]
      @@ [k \in {"exists"} \X Targets |-> There(w, k[2])]
      @@ [k \in {"ordinals"} \X Cases |->
            {<<w[t].ordinal, t>> : t \in SectionsOf(w, k[2])}]

(* A section an edit wrote is also the shape it left. *)
WithShapes(wrote) ==
    wrote @@ [k \in {"shape"} \X {t[2] : t \in {u \in DOMAIN wrote : u[1] = "section"}} |->
                Shape(wrote[Section(k[2])])]
-----------------------------------------------------------------------------
(* The stores. *)

SlotTwice(w) ==
    \E t, u \in Standing(w, "shelf") :
        t # u /\ w[t].address = w[u].address /\ w[t].address # Nowhere

OrdinalTwice(w) ==
    \E t, u \in Standing(w, "section") :
        t # u /\ w[t].case = w[u].case /\ w[t].ordinal = w[u].ordinal

OnAnotherFloor(w, t) ==
    /\ t[1] = "case" /\ w[t].place # Nowhere
    /\ w[<<"place", w[t].place>>].floor # w[t].floor

(* save_*: the rows this one hangs on stand, its room is on its floor, its  *)
(* slot and its number are free.                                            *)
AbsorbedAlready(w, t, row) ==
    t[1] = "alias" /\ (There(w, t) \/ There(w, <<"alias", row.into>>))

ParentsMissing(w, put) ==
    \E t \in DOMAIN put : put[t] # Absent /\ \E p \in Parents(t, put[t]) : ~There(w, p)

Refuses(w, put) ==
    \/ ParentsMissing(w, put)
    \/ LET new == put @@ w
       IN  \/ SlotTwice(new) \/ OrdinalTwice(new)
           \/ \E t \in DOMAIN put : put[t] # Absent /\ (OnAnotherFloor(new, t)
                                                        \/ AbsorbedAlready(w, t, put[t]))

(* A storey with a room or a bookcase on it is not removable, nor a site    *)
(* with one on any of its storeys.                                          *)
FloorsOf(w, site) == {x \in Standing(w, "floor") : w[x].site = site}

GroupingContents(w, floors) ==
    {u \in Standing(w, "place") \cup Standing(w, "case") : <<"floor", w[u].floor>> \in floors}

(* delete_*: what a record may not be removed with, and what goes with it.  *)
HeldBy(w, t) ==
    CASE t[1] = "site"    -> \/ GroupingContents(w, FloorsOf(w, t[2])) # {}
                             \/ Standing(w, "site") = {t}
      [] t[1] = "floor"   -> \/ GroupingContents(w, {t}) # {}
                             \/ FloorsOf(w, w[t].site) = {t}
      [] t[1] = "case"    -> StandingInCase(w, t[2]) # {}
      [] t[1] = "section" -> \/ StandingIn(w, {t}) # {}
                             \/ SectionsOf(w, w[t].case) = {t}
      [] OTHER            -> FALSE

(* A case attached to a room goes to the room's storey; detached, it keeps  *)
(* the one it is on.                                                        *)
AttachBookcase(row, place, room) == [row EXCEPT !.place = place, !.floor = room.floor]
DetachBookcase(row) == [row EXCEPT !.place = Nowhere]

(* The rows a removal changes, and what it leaves of each. *)
GoneWith(w, t) ==
    [u \in {t} \cup (IF t[1] = "case" THEN SectionsOf(w, t[2]) ELSE {})
               \cup (IF t[1] = "site" THEN FloorsOf(w, t[2]) ELSE {})
        |-> Absent]
    @@ [u \in {x \in Standing(w, "case") : t = <<"place", w[x].place>>} |-> DetachBookcase(w[u])]

(* delete_shelf: three looks, then the delete.                              *)
StillHeldByPhotos(w, t) ==
    \/ Identities(w, t) # {t[2]}
    \/ \E u \in Standing(w, "photo") : w[u].at = t[2]

StillHeld(w, t) ==
    \/ Identities(w, t) # {t[2]}
    \/ \E u \in Standing(w, "copy") \cup Standing(w, "photo") : w[u].at = t[2]

(* Its questions go with it, and a photograph that landed since.            *)
Cascade(w, t) ==
    [u \in {t, <<"question", t[2]>>} \cup {x \in Standing(w, "photo") : w[x].at = t[2]} |-> Absent]
-----------------------------------------------------------------------------
(* Requests.  An element of `todo` is one call: `op` says which.            *)

Idle == [kind |-> "idle"]
Active(r) == job[r] # Idle

Call(op) == [op |-> op]
Save(put) == [op |-> "save", put |-> put]
Saves(S, row(_)) == LET order == SetToSeq(S) IN [i \in DOMAIN order |-> Save(order[i] :> row(order[i]))]

NoRows == [t \in {} |-> Absent]

(* `about` is what is edited and `now` the row it gets; `was`, `before`,    *)
(* `asked`, `gone` and `created` are what the journal will be told.         *)
(* `alone`, `met` and `trail` are history: whether nothing else ran, the    *)
(* library it met, what it wrote.                                           *)
NewJob(kind, about, todo) ==
    [kind |-> kind, about |-> about, todo |-> todo, now |-> Absent, cells |-> {},
     losing |-> NoRows, occupied |-> {}, was |-> NoRows, before |-> NoRows, asked |-> NoRows,
     gone |-> {}, created |-> NoRows, entry |-> 0,
     alone |-> \A r \in Requests : ~Active(r), met |-> rows, trail |-> NoRows]

Keeps(kind) == kind \in {"undo", "remove"}

Named(todo) == UNION {DOMAIN todo[i].put : i \in {k \in DOMAIN todo : todo[k].op = "save"}}

MayBegin(r) == ~Active(r) /\ r \in theme.handlers /\ begun < MaxRequests

Begins(r, new) ==
    /\ new.kind \in theme.kinds
    /\ begun' = begun + 1
    /\ job' = [q \in Requests |->
                 IF q = r THEN new
                 ELSE IF Active(q) THEN [job[q] EXCEPT !.alone = FALSE] ELSE Idle]
    /\ base' = IF Keeps(new.kind) THEN base ELSE Absent
    /\ made' = made \cup Named(new.todo)
    /\ UNCHANGED <<rows, entries, theme, crashes, left, late>>

(* One call: `new` without its first call, or Idle when none is left.       *)
Goes(r, new) ==
    /\ job' = [job EXCEPT ![r] = IF new.todo = <<>> THEN Idle ELSE new]
    /\ UNCHANGED <<theme, begun, crashes>>

Reads(r, new) == Goes(r, new) /\ UNCHANGED <<rows, entries, made, base, left, late>>
Ends(r) == Reads(r, [job[r] EXCEPT !.todo = <<>>])

Asks(r, op) == Active(r) /\ Head(job[r].todo).op = op
Rest(r) == [job[r] EXCEPT !.todo = Tail(@)]

(* A call that writes `put`. *)
Writes(r, put, new) ==
    /\ rows' = put @@ rows
    /\ Goes(r, [new EXCEPT !.trail = put @@ @])
    /\ UNCHANGED <<entries, made, base, left>>

(* What lands on a shelf that was already looked at to be deleted, or is    *)
(* deleted.                                                                 *)
Landing(put) ==
    {t \in DOMAIN put : /\ t[1] \in {"copy", "photo"} /\ put[t] # Absent
                        /\ \/ ~There(rows, Shelf(put[t].at))
                           \/ \E q \in Requests : Asks(q, "drop") /\ Head(job[q].todo).shelf[2] = put[t].at}

Lost(put) == late' = late \cup Landing(put)

(* save_*: refused, it ends the request where it stands.                    *)
SaveRows(r) ==
    LET put == Head(job[r].todo).put
    IN  /\ Asks(r, "save")
        /\ IF Refuses(rows, put) THEN Ends(r)
           ELSE Writes(r, put, Rest(r)) /\ Lost(put)

(* delete_*: what stood with the record was read before.                    *)
RemoveRows(r) ==
    LET t == job[r].about
    IN  /\ Asks(r, "remove")
        /\ IF ~There(rows, t) \/ HeldBy(rows, t) THEN Ends(r)
           ELSE Writes(r, GoneWith(rows, t), Rest(r)) /\ UNCHANGED late

(* move_place: the room and, in the same transaction, every case in it.     *)
Moved(w, t, floor) ==
    [u \in {t} \cup {x \in Standing(w, "case") : t = <<"place", w[x].place>>} |->
        [w[u] EXCEPT !.floor = floor]]

MovePlace(r) ==
    LET j == job[r]
    IN  /\ Asks(r, "move")
        /\ IF ~There(rows, <<"floor", j.now.floor>>) THEN Ends(r)
           ELSE IF ~There(rows, j.about) THEN Reads(r, Rest(r))
           ELSE Writes(r, Moved(rows, j.about, j.now.floor), Rest(r)) /\ UNCHANGED late
-----------------------------------------------------------------------------
(* _release: what an edit lets go of.                                       *)

(* _losing, computed now: whatever stands in the section at an address it   *)
(* will not have; to clear is to lose everything.                           *)
Keeping(t, now) == IF now = Absent THEN {} ELSE AddressesOf(t, now)

ReadLosing(r) ==
    LET j  == job[r]
        in == IF j.about[1] = "case" THEN StandingInCase(rows, j.about[2])
              ELSE StandingIn(rows, {j.about})
    IN  /\ Asks(r, "losing")
        /\ Reads(r, [Rest(r) EXCEPT
              !.was = IF j.now # Absent /\ There(rows, j.about) THEN j.about :> rows[j.about] ELSE NoRows,
              !.losing = [t \in {u \in in : rows[u].address \notin Keeping(j.about, j.now)} |-> rows[t]]])

(* A name or a row behind is work somebody declared.                        *)
Declared(row, section) == row.label \/ row.depth > section.defaultDepth

(* apply_gaps: a cell that was named must be empty and undeclared.          *)
CheckGaps(r) ==
    LET j     == job[r]
        named == {t \in DOMAIN j.losing : j.losing[t].address \in j.cells}
    IN  /\ Asks(r, "check")
        /\ IF \E t \in named : Occupied(rows, t) \/ Declared(j.losing[t], j.now)
           THEN Ends(r) ELSE Reads(r, Rest(r))

ReadOccupied(r) ==
    /\ Asks(r, "occupied")
    /\ Reads(r, [Rest(r) EXCEPT !.occupied = {t \in DOMAIN job[r].losing : Occupied(rows, t)}])

(* The rows once more, read before the first is written.                    *)
Fresh(losing) ==
    [t \in DOMAIN losing |->
        IF There(rows, t) /\ rows[t].address # Nowhere
           /\ rows[t].address[1] \in {losing[u].address[1] : u \in DOMAIN losing}
        THEN rows[t] ELSE losing[t]]

Protected(j, row) == j.kind = "gaps" /\ Declared(row, j.now)

ReadFresh(r) ==
    LET j      == job[r]
        before == Fresh(j.losing)
        plan   == SlotRemoval(DOMAIN before, j.occupied)
        keeps  == {t \in plan.deleted : Protected(j, before[t])}
        frees  == plan.deleted \ keeps
        unbind(S)   == Saves(S, LAMBDA t : Unbound(before[t]))
        questions   == {<<"question", t[2]>> : t \in DOMAIN before}
    IN  /\ Asks(r, "fresh")
        /\ Reads(r, [Rest(r) EXCEPT
              !.before = before,
              !.asked = [t \in {q \in questions : There(rows, q)} |-> rows[t]],
              !.todo = unbind(plan.detached) \o unbind(keeps)
                       \o [i \in 1..Cardinality(frees) |->
                             [op |-> "delete", shelf |-> SetToSeq(frees)[i]]]
                       \o @])

(* The looks of delete_shelf.  An edit detaches a shelf that turns out to   *)
(* hold something; an undo leaves it.                                       *)
LookBeforeDelete(r) ==
    LET j == job[r]
        t == Head(j.todo).shelf
    IN  /\ Asks(r, "delete")
        /\ Reads(r, IF ~There(rows, t) THEN [Rest(r) EXCEPT !.gone = @ \cup {t}]
                    ELSE IF ~StillHeld(rows, t)
                         THEN [j EXCEPT !.todo[1] = [op |-> "drop", shelf |-> t]]
                    ELSE IF j.kind = "undo" THEN Rest(r)
                    ELSE [j EXCEPT !.todo[1] = Save(t :> Unbound(j.before[t]))])

Drop(r) ==
    LET t == Head(job[r].todo).shelf
    IN  /\ Asks(r, "drop")
        /\ IF Identities(rows, t) # {t[2]} THEN Ends(r)
           ELSE Writes(r, Cascade(rows, t), [Rest(r) EXCEPT !.gone = @ \cup {t}])
                /\ UNCHANGED late

(* _fill: a shelf in every cell that has none, holes of an earlier edit     *)
(* included; all of them in one transaction.                                *)
Unfilled(w, t, section) ==
    AddressesOf(t, section) \ {w[u].address : u \in StandingIn(w, {t})}

ToFill(j) == Unfilled(rows, j.about, j.now)

NewShelf(address, depth) == [address |-> address, depth |-> depth, label |-> FALSE]

NewShelves(addresses, depth) ==
    LET order == SetToSeq(addresses)
        ids   == SetToSortSeq(({"shelf"} \X Shelves) \ made, LAMBDA t, u : t[2] < u[2])
    IN  [t \in {ids[i] : i \in DOMAIN order} |->
            NewShelf(order[CHOOSE i \in DOMAIN order : ids[i] = t], depth)]

Fill(r) ==
    LET j     == job[r]
        empty == ToFill(j)
    IN  /\ Asks(r, "fill")
        /\ Cardinality(empty) <= Cardinality(({"shelf"} \X Shelves) \ made)
        /\ LET put == NewShelves(empty, j.now.defaultDepth)
           IN  /\ Goes(r, [Rest(r) EXCEPT !.created = put,
                             !.todo = IF empty = {} THEN @ ELSE <<Save(put)>> \o @])
               /\ made' = made \cup DOMAIN put
        /\ UNCHANGED <<rows, entries, base, left, late>>
-----------------------------------------------------------------------------
(* The journal. *)

JournalKind(j) ==
    CASE j.kind = "resize" -> "remove_column"
      [] j.kind = "clear"  -> IF j.about[1] = "case" THEN "clear_bookcase" ELSE "clear_section"
      [] j.kind = "remove" -> IF j.about[1] = "case" THEN "delete_bookcase" ELSE "delete_" \o j.about[1]
      [] OTHER             -> j.kind

(* A section put back as it was, the shelves as they stood, the questions   *)
(* of those that were deleted, and the shelves that were made taken away.   *)
Asked(j) == [t \in {q \in DOMAIN j.asked : Shelf(q[2]) \in j.gone} |-> j.asked[t]]

RestoreOf(j) ==
    IF j.before = NoRows THEN NoRows
    ELSE j.before @@ j.was @@ Asked(j) @@ [t \in DOMAIN j.created |-> Absent]

(* _wrote: what the edit says it left.                                      *)
Says(j) ==
    [t \in DOMAIN j.before \cup DOMAIN Asked(j) |->
        IF j.kind = "remove" /\ j.about[1] = "place" /\ t[1] = "case"
        THEN DetachBookcase(j.before[t])
        ELSE IF t[1] # "shelf" \/ t \in j.gone THEN Absent
        ELSE Unbound(j.before[t])]
    @@ j.created
    @@ IF j.now = Absent THEN NoRows ELSE (j.about :> j.now)

Record(r) ==
    LET j        == job[r]
        restore  == RestoreOf(j)
        partner  == PartnerFor(entries, j.about, JournalKind(j))
        recorded == Recorded(entries, JournalKind(j), j.about, restore, Seen(rows), WithShapes(Says(j)))
        id       == Newest(recorded).id
    IN  /\ Asks(r, "record")
        /\ Goes(r, Rest(r))
        /\ entries' = recorded
        /\ IF restore = NoRows THEN UNCHANGED <<base, left>>
           ELSE /\ left' = (id :> (IF partner = 0 THEN j.trail ELSE j.trail @@ left[id])) @@ left
                /\ base' = IF ~j.alone THEN Absent ELSE IF partner = 0 THEN j.met ELSE base
        /\ UNCHANGED <<rows, made, late>>

(* _replay: the shelves the edit made are judged together and taken away,   *)
(* then the tables in the order that parents come first, all shelves at     *)
(* once, the questions last.                                                *)
RestoreOrder == <<"site", "floor", "place", "case", "section">>

Replay(restore) ==
    LET back(name) == {t \in Back(restore) : t[1] = name}
        table(name) == Saves(back(name), LAMBDA t : restore[t])
        makes == Minted(restore)
    IN  (IF makes = {} THEN <<>> ELSE <<[op |-> "judge", shelves |-> makes]>>)
        \o [i \in 1..Cardinality(makes) |-> [op |-> "delete", shelf |-> SetToSeq(makes)[i]]]
        \o FlattenSeq([i \in DOMAIN RestoreOrder |-> table(RestoreOrder[i])])
        \o (IF back("shelf") = {} THEN <<>> ELSE <<Save([t \in back("shelf") |-> restore[t]])>>)
        \o table("question")
        \o <<Call("mark")>>

Judge(r) ==
    /\ Asks(r, "judge")
    /\ IF \E t \in Head(job[r].todo).shelves : There(rows, t) /\ Occupied(rows, t)
       THEN Ends(r) ELSE Reads(r, Rest(r))

BeginUndo(r) ==
    /\ MayUndo(entries, Seen(rows))
    /\ Begins(r, [NewJob("undo", <<"journal", 0>>, Replay(Newest(entries).restore)) EXCEPT
                    !.entry = Newest(entries).id])

Mark(r) ==
    /\ Asks(r, "mark")
    /\ Goes(r, Rest(r))
    /\ entries' = MarkUndone(entries, job[r].entry)
    /\ base' = Absent
    /\ UNCHANGED <<rows, made, left, late>>
-----------------------------------------------------------------------------
(* The handlers: what each reads before it begins, and what it refuses.     *)

(* _release asks what is occupied and reads the rows afresh; what follows   *)
(* from them it does in calls that ReadFresh puts here.                     *)
Release == <<Call("occupied"), Call("fresh")>>

SlotChange == <<Call("losing")>> \o Release
Removal    == SlotChange \o <<Call("record")>>
AfterRelease(t, now) == <<Save(t :> now), Call("fill"), Call("record")>>

BeforeRelease(t, now) == <<Save(t :> now)>> \o SlotChange \o <<Call("fill"), Call("record")>>

SlotCalls(t, now) == SlotChange \o AfterRelease(t, now)
GapCalls(t, now)  == <<Call("losing"), Call("check")>> \o Release \o AfterRelease(t, now)

Family(t) == LET case == rows[t].case IN [u \in SectionsOf(rows, case) |-> rows[u]]

(* patch_section: defaults first, then one grid instruction.                *)
WithDefaults(row, dl, dd) == WithDefaultDepth(WithDefaultLevels(row, dl), dd)

Regridded(row) ==
    {WithColumnCount(row, n) : n \in theme.sizes}
    \cup {WithColumnLevels(row, c, n) : c \in DOMAIN row.levels, n \in theme.sizes}

Resizes(r, t, now) ==
    /\ ~TooManySlots([Family(t) EXCEPT ![t] = now])
    /\ Begins(r, [NewJob("resize", t, SlotCalls(t, now)) EXCEPT !.now = now])

BeginResize(r) ==
    \E t \in Standing(rows, "section"), dl \in theme.sizes, dd \in theme.sizes :
        \E now \in Regridded(WithDefaults(rows[t], dl, dd)) : Resizes(r, t, now)

BeginApplyLevels(r) ==
    \E t \in Standing(rows, "section") : Resizes(r, t, ApplyDefaultLevels(rows[t]))

BeginDefaults(r) ==
    \E t \in Standing(rows, "section"), dl \in theme.sizes, dd \in theme.sizes :
        LET row == WithDefaults(rows[t], dl, dd)
        IN  row # rows[t] /\ Begins(r, NewJob("defaults", t, <<Save(t :> row)>>))

(* set_gaps.  The size is asked only of an edit that adds cells.            *)
BeginGaps(r) ==
    \E t \in Standing(rows, "section"), gap \in BOOLEAN :
        \E cells \in UNION {kSubset(k, Grid(rows[t].levels)) : k \in 1..MaxPicked} :
            LET now == WithGaps(rows[t], cells, gap)
            IN  /\ Added(rows[t], now) # {} => ~TooManySlots([Family(t) EXCEPT ![t] = now])
                /\ Begins(r, [NewJob("gaps", t, GapCalls(t, now)) EXCEPT
                     !.now = now,
                     !.cells = {<<t[2], c[1], c[2]>> : c \in cells \cap Dropped(rows[t], now)}])

(* create_section: the siblings and the new one are numbered and written as *)
(* one set, and then the new one is filled.                                 *)
BeginCreateSection(r) ==
    \E case \in Standing(rows, "case"), t \in ({"section"} \X Sections) \ made :
        LET standing == [u \in SectionsOf(rows, case[2]) |-> rows[u]]
            order    == Stacked(standing)
        IN  /\ standing # NoRows
            /\ \E at \in 0..Len(order) :
                LET by  == standing[order[IF at = 0 THEN 1 ELSE at]]
                    all == AddSection(standing, t, NextSection(case[2], by), at)
                IN  /\ ~TooManySlots(all)
                    /\ Begins(r, [NewJob("create", t, <<Save(all)>> \o SlotCalls(t, all[t]))
                                    EXCEPT !.now = all[t]])

(* move_section: it swaps places with the one above or below it.            *)
BeginMoveSection(r) ==
    \E t \in Standing(rows, "section"), up \in BOOLEAN :
        /\ Neighbour(Family(t), t, up) \in 1..Cardinality(DOMAIN Family(t))
        /\ Begins(r, NewJob("move", t, <<Save(MoveSection(Family(t), t, up))>>))

(* Every slot of a case, or of one section, is emptied, so that it can then *)
(* be deleted.                                                              *)
BeginClearBookcase(r) ==
    \E t \in Standing(rows, "case") : Begins(r, NewJob("clear", t, Removal))

BeginClearSection(r) ==
    \E t \in Standing(rows, "section") : Begins(r, NewJob("clear", t, Removal))

(* The delete of any record of the plan.  What goes with it is read before. *)

TakenWith(t) ==
    CASE t[1] = "case"  -> SectionsOf(rows, t[2])
      [] t[1] = "site"  -> FloorsOf(rows, t[2])
      [] t[1] = "place" -> {x \in Standing(rows, "case") : rows[x].place = t[2]}
      [] OTHER          -> {}

Removing(t) ==
    [NewJob("remove", t, <<Call("remove"), Call("record")>>) EXCEPT
        !.before = [u \in {t} \cup TakenWith(t) |-> rows[u]]]

BeginDelete(r, name) == \E t \in Standing(rows, name) : Begins(r, Removing(t))

DeleteSite(r)     == BeginDelete(r, "site")
DeleteFloor(r)    == BeginDelete(r, "floor")
DeletePlace(r)    == BeginDelete(r, "place")
DeleteBookcase(r) == BeginDelete(r, "case")
DeleteSection(r)  == BeginDelete(r, "section")

(* create_bookcase, draw_bookcase.                                          *)
BeginDraw(r) ==
    \E case \in ({"case"} \X Cases) \ made, t \in ({"section"} \X Sections) \ made,
       floor \in Standing(rows, "floor"), n \in theme.sizes, levels \in theme.sizes, depth \in theme.sizes :
        LET now == NewSection(case[2], n, levels, depth)
        IN  /\ ~TooManySlots(t :> now)
            /\ Begins(r, [NewJob("draw", t,
                    <<Save(case :> [floor |-> floor[2], place |-> Nowhere]), Save(t :> now), Call("fill")>>)
                  EXCEPT !.now = now])

(* apply_depth: the section, its shelves, what stands deepest, one save     *)
(* each.                                                                    *)
BeginDepth(r) ==
    \E t \in Standing(rows, "section") :
        Begins(r, [NewJob("depth", t, <<Call("standing"), Call("deepest")>>) EXCEPT !.now = rows[t]])

ReadStanding(r) ==
    /\ Asks(r, "standing")
    /\ Reads(r, [Rest(r) EXCEPT !.losing = [t \in StandingIn(rows, {job[r].about}) |-> rows[t]]])

ReadDeepest(r) ==
    LET j == job[r]
        target(t) == [j.losing[t] EXCEPT !.depth = DepthFor(j.now, Deepest(rows, t))]
    IN  /\ Asks(r, "deepest")
        /\ Reads(r, [Rest(r) EXCEPT !.todo = Saves(DOMAIN j.losing, target)])

(* set_shelf_depth: never less than what stands deepest.                    *)
BeginSetDepth(r) ==
    \E t \in Standing(rows, "shelf"), d \in theme.sizes :
        /\ rows[t].address # Nowhere
        /\ Begins(r, [NewJob("set_depth", t, <<Call("floor")>>) EXCEPT
                        !.now = [rows[t] EXCEPT !.depth = d]])

ReadFloor(r) ==
    LET j == job[r]
    IN  /\ Asks(r, "floor")
        /\ IF j.now.depth < Deepest(rows, j.about) THEN Ends(r)
           ELSE Reads(r, [j EXCEPT !.todo = <<Save(j.about :> j.now)>>])

(* bind_shelf_to_slot: the address is read in the section the route read.   *)
BeginBind(r) ==
    \E t \in Standing(rows, "shelf"), s \in Standing(rows, "section") :
        \E address \in AddressesOf(s, rows[s]) :
            Begins(r, [NewJob("bind", t, <<Call("occupant")>>) EXCEPT
                         !.now = [rows[t] EXCEPT !.address = address],
                         !.before = t :> rows[t]])

ReadOccupant(r) ==
    LET j     == job[r]
        was   == j.before[j.about]
        taken == At(rows, j.now.address) # {}
    IN  /\ Asks(r, "occupant")
        /\ IF \/ There(rows, <<"alias", j.about[2]>>)
              \/ was # j.now /\ (was.address # Nowhere \/ taken)
           THEN Ends(r)
           ELSE Reads(r, [j EXCEPT !.todo = <<Save(j.about :> j.now), Call("again")>>])

(* The cell is asked for again once the shelf stands in it.                 *)
BindAgain(r) ==
    LET j == job[r]
        s == Section(j.now.address[1])
    IN  /\ Asks(r, "again")
        /\ IF There(rows, s) /\ j.now.address \in AddressesOf(s, rows[s]) THEN Ends(r)
           ELSE Reads(r, [j EXCEPT !.todo = <<Save(j.before)>>])

(* unbind_shelf_from_map: the address goes, and the journal is told; a      *)
(* shelf that stands nowhere is left as it is.                              *)
OffTheMap(t) ==
    [NewJob("unbind_shelf", t, <<Save(t :> Unbound(rows[t])), Call("record")>>)
        EXCEPT !.before = t :> rows[t]]

BeginUnbind(r) ==
    \E t \in Standing(rows, "shelf") :
        rows[t].address # Nowhere /\ Begins(r, OffTheMap(t))

(* The plan's own records: made, moved, attached and detached.              *)
Makes(r, t, row) == t \notin made /\ Begins(r, NewJob("plan", t, <<Save(t :> row)>>))

CreateSite(r) ==
    \E t \in {"site"} \X Sites : Makes(r, t, [kept |-> TRUE])

CreateFloor(r) ==
    \E t \in {"floor"} \X Floors, site \in Standing(rows, "site") : Makes(r, t, [site |-> site[2]])

CreatePlace(r) ==
    \E t \in {"place"} \X Places, floor \in Standing(rows, "floor") : Makes(r, t, [floor |-> floor[2]])

BeginMovePlace(r) ==
    \E t \in Standing(rows, "place"), f \in Standing(rows, "floor") :
        /\ rows[t].floor # f[2]
        /\ Begins(r, [NewJob("plan", t, <<Save(t :> rows[t]), Call("move")>>) EXCEPT
                        !.now = [floor |-> f[2]]])

(* patch_bookcase: a case is pointed at a room or at none, and one that is  *)
(* in no room moves to another floor.                                       *)
Rehoused(row) ==
    {DetachBookcase(row)}
    \cup {AttachBookcase(row, p[2], rows[p]) : p \in Standing(rows, "place")}

MovedAlone(row) ==
    IF row.place = Nowhere THEN {[row EXCEPT !.floor = f[2]] : f \in Standing(rows, "floor")} ELSE {}

BeginPatchCase(r) ==
    \E t \in Standing(rows, "case") :
        \E row \in (Rehoused(rows[t]) \cup MovedAlone(rows[t])) \ {rows[t]} :
            Begins(r, NewJob("plan", t, <<Save(t :> row)>>))

(* What goes on meanwhile: a shelf named or deepened, a photograph or a     *)
(* copy put on it, the first write of a merge.                              *)
BeginPatchShelf(r) ==
    \E t \in Standing(rows, "shelf") :
        \E row \in {[rows[t] EXCEPT !.label = TRUE], [rows[t] EXCEPT !.depth = @ + 1]} :
            /\ row # rows[t] /\ row.depth \in theme.sizes
            /\ Begins(r, NewJob("patch", t, <<Save(t :> row)>>))

BeginShelve(r) ==
    \E u \in ({"copy"} \X Copies) \cup ({"photo"} \X Photos), t \in Standing(rows, "shelf") :
        \E d \in 1..rows[t].depth :
            Begins(r, NewJob("shelve", t, <<Save(u :> [at |-> t[2], depth |-> d])>>))

BeginAbsorb(r) ==
    \E t, u \in Standing(rows, "shelf") :
        /\ t # u /\ ~There(rows, <<"alias", t[2]>>) /\ ~There(rows, <<"alias", u[2]>>)
        /\ Begins(r, NewJob("absorb", t, <<Save(<<"alias", t[2]>> :> [into |-> u[2]])>>))

Crash ==
    /\ crashes < theme.crashes
    /\ \E r \in Requests : Active(r)
    /\ crashes' = crashes + 1
    /\ job' = [r \in Requests |-> Idle]
    /\ base' = Absent
    /\ UNCHANGED <<rows, entries, made, theme, begun, left, late>>
-----------------------------------------------------------------------------
Init ==
    /\ \E story \in Stories : rows = story.rows /\ theme = story.theme
    /\ entries = <<>> /\ job = [r \in Requests |-> Idle]
    /\ made = {t \in Targets : There(rows, t)}
    /\ begun = 0 /\ crashes = 0
    /\ base = Absent /\ left = NoRows /\ late = {}

Begin(r) ==
    /\ MayBegin(r)
    /\ \/ BeginResize(r) \/ BeginApplyLevels(r) \/ BeginDefaults(r) \/ BeginGaps(r)
       \/ BeginCreateSection(r) \/ BeginMoveSection(r) \/ BeginDraw(r)
       \/ BeginClearBookcase(r) \/ BeginClearSection(r)
       \/ DeleteSite(r) \/ DeleteFloor(r) \/ DeletePlace(r) \/ DeleteBookcase(r) \/ DeleteSection(r)
       \/ BeginDepth(r) \/ BeginSetDepth(r) \/ BeginBind(r) \/ BeginUnbind(r)
       \/ CreateSite(r) \/ CreateFloor(r) \/ CreatePlace(r) \/ BeginMovePlace(r) \/ BeginPatchCase(r)
       \/ BeginPatchShelf(r) \/ BeginShelve(r) \/ BeginAbsorb(r) \/ BeginUndo(r)

Continue(r) ==
    \/ SaveRows(r) \/ RemoveRows(r) \/ MovePlace(r)
    \/ ReadLosing(r) \/ CheckGaps(r) \/ ReadOccupied(r) \/ ReadFresh(r)
    \/ LookBeforeDelete(r) \/ Drop(r) \/ Fill(r)
    \/ ReadStanding(r) \/ ReadDeepest(r) \/ ReadFloor(r)
    \/ ReadOccupant(r) \/ BindAgain(r)
    \/ Record(r) \/ Judge(r) \/ Mark(r)

Next == (\E r \in Requests : Begin(r) \/ Continue(r)) \/ Crash

Spec == Init /\ [][Next]_vars
-----------------------------------------------------------------------------
Addresses == Sections \X Nat \X Nat

RowIs(t, row) ==
    CASE t[1] = "shelf" -> /\ row.address \in Addresses \cup {Nowhere}
                           /\ row.depth \in 1..MaxDeep /\ row.label \in BOOLEAN
      [] t[1] = "section" -> WellFormed(row) /\ row.ordinal \in Nat \ {0}
      [] t[1] \in {"copy", "photo"} -> row.at \in Shelves /\ row.depth \in 1..MaxDeep
      [] OTHER -> TRUE

(* Every table holds rows of its kind; no two shelves in one slot, no two   *)
(* sections of a case with one number.                                      *)
TypeOK ==
    /\ DOMAIN rows = Targets
    /\ \A t \in Targets : There(rows, t) => RowIs(t, rows[t])
    /\ ~SlotTwice(rows) /\ ~OrdinalTwice(rows)
    /\ begun \in 0..MaxRequests /\ crashes \in 0..theme.crashes

InReach(w, t) ==
    \/ There(w, Shelf(w[t].at))
    \/ /\ There(w, <<"alias", w[t].at>>)
       /\ There(w, Shelf(w[<<"alias", w[t].at>>].into))

(* No edit of the map, no undo of one and no crash in the middle of either  *)
(* takes away a photograph or the shelf a copy or a photograph stands on,   *)
(* however requests overlap; but for what lands on a shelf that             *)
(* `delete_shelf` had already looked at (map_edit.py _release: "detach what *)
(* is occupied, delete what is not").                                       *)
NothingIsLost ==
    [][\A t \in DOMAIN rows :
          t[1] \in {"copy", "photo"} /\ There(rows, t) /\ t \notin late'
          => There(rows', t) /\ InReach(rows', t)]_vars

(* A shelf that is on the map, and not just being put there, stands in a    *)
(* cell of the drawing: of a section that is there, inside its grid and not *)
(* switched off (map_edit.py bind_shelf_to_slot, apply_gaps).               *)
DrawnShelvesStandInCells ==
    \A t \in Standing(rows, "shelf") :
        /\ rows[t].address # Nowhere
        /\ \A r \in Requests : ~(Asks(r, "again") /\ job[r].about = t)
        =>
        LET s == Section(rows[t].address[1])
        IN  There(rows, s) /\ rows[t].address \in AddressesOf(s, rows[s])

Ending(r, op) == Asks(r, op) /\ job[r].alone

(* An edit of a section that ran undisturbed leaves a shelf in every cell,  *)
(* whatever an earlier edit cut short left empty (map_edit.py _fill).       *)
EditsFillEveryCell ==
    \A r \in Requests :
        Ending(r, "record") /\ job[r].now # Absent
        => Unfilled(rows, job[r].about, rows[job[r].about]) = {}

(* No shelf is shallower than what stands on it, after a default was        *)
(* applied, a depth set, or an edit that remembers an older row taken back  *)
(* (place.py apply_default_depth, map.py set_shelf_depth).                  *)
DeepEnough ==
    \A t \in Standing(rows, "copy") \cup Standing(rows, "photo") :
        There(rows, Shelf(rows[t].at)) => rows[t].depth <= rows[Shelf(rows[t].at)].depth

(* Every record of the plan hangs on one that is there, and a case that is  *)
(* in a room is on the room's floor, through moves, removals and what takes *)
(* them back (sqlite_store.py move_place, delete_site; map_edit.py          *)
(* remove_record).                                                          *)
PlanHangsTogether ==
    \A t \in Targets :
        There(rows, t) /\ t[1] \in {"floor", "place", "case", "section", "shelf"}
        => /\ \A p \in Parents(t, rows[t]) : There(rows, p)
           /\ ~OnAnotherFloor(rows, t)

(* Whoever asks where a book is gets an answer: of a shelf on the map the   *)
(* cell, which no other shelf of the bookcase reads like however much of it *)
(* is left unsaid, and the book's own row unless it is the front one        *)
(* (map.py where_is, place.py address_parts).  Of two bookcases called the  *)
(* same in a room an address can be that of either: the names are the       *)
(* owner's to tell apart.                                                   *)
BooksCanBeFound ==
    LET settled == {t \in Standing(rows, "shelf") :
                       /\ rows[t].address # Nowhere
                       /\ \A r \in Requests : ~(Asks(r, "again") /\ job[r].about = t)}
        case(t) == rows[Section(rows[t].address[1])].case
    IN  /\ \A t \in settled : WhereIs(rows, t[2], 1) # Nowhere
        /\ \A t, u \in settled :
              t # u /\ case(t) = case(u)
              => WhereIs(rows, t[2], 1) # WhereIs(rows, u[2], 1)
        /\ \A u \in Standing(rows, "copy") :
              Shelf(Resolved(rows, rows[u].at)) \in settled
              => WhereIs(rows, rows[u].at, rows[u].depth).row = Printed(rows[u].depth > 1, rows[u].depth)

(* Requests in turn, and a crash between any two calls of one, leave a map  *)
(* that is sound in each of these ways.  Of two at once each may look       *)
(* before the other writes, and only UndoSeesOthersWork and NothingIsLost   *)
(* hold.                                                                    *)
InTurn == Cardinality(theme.handlers) = 1

MapIsSound ==
    InTurn => /\ TypeOK
              /\ DrawnShelvesStandInCells
              /\ EditsFillEveryCell
              /\ DeepEnough
              /\ PlanHangsTogether
              /\ BooksCanBeFound

(* An edit taken back, with nothing run in between, leaves every row as it  *)
(* stood before, and so do the two halves of a removal taken back as one    *)
(* (map_undo.py _replay, domain/map_undo.py merge_restores).                *)
UndoLeavesNoTrace ==
    \A r \in Requests : Ending(r, "mark") /\ base # Absent => rows = base

(* An undo is accepted only while every row it will overwrite is as the     *)
(* edit itself left it: what somebody else wrote, between the edit and its  *)
(* journal entry or between the two halves of a removal too, is a reason to *)
(* refuse (map_undo.py fingerprint, _coalesced_fingerprint).                *)
UndoSeesOthersWork ==
    [][\A r \in Requests :
          ~Active(r) /\ (job[r])'.kind = "undo"
          => LET e == Newest(entries)
             IN  \A t \in DOMAIN e.restore \cap DOMAIN left[e.id] : rows[t] = left[e.id][t]]_vars
=============================================================================
