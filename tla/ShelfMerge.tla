----------------------------- MODULE ShelfMerge -----------------------------
(***************************************************************************)
(* One shelf absorbed into another, taken back, and what goes on meanwhile. *)
(*                                                                         *)
(* A merge is a few dozen calls of the stores, each a transaction of its    *)
(* own; so is an undo.  A request here is a record of `job` that makes one  *)
(* call per step and carries what it read in earlier ones, so that requests *)
(* interleave call by call and a crash may fall between any two.            *)
(*                                                                         *)
(* `rows` holds six tables: a row for each target <<table, key>>.           *)
(* Abstracted: a shelf's label, a book's other fields (a copy is a row of   *)
(* its own: saving its book writes the one placement), the kind of an       *)
(* answer.  Depths of answers are left out: a merge never changes a depth.  *)
(***************************************************************************)
EXTENDS MapUndo, SequencesExt

CONSTANTS
    Shelves, Slots, Copies, Photos, Keys,
    Nowhere,         \* the address of a shelf that is not on the map
    Requests,        \* the requests that may be in progress at once
    Plays,           \* what behaviours start from and may spend: the library, the
                     \* kinds of request, how many begin and overlap, the crashes,
                     \* what is shelved,
                     \* the orders two strips may be asked to join in
    MaxDepth         \* how deep a shelf may be declared

VARIABLES
    rows,            \* the tables
    reading,         \* shelves with a read that is stored as running
    entries,         \* the undo journal
    job,             \* what each request is doing
    play, begun, crashes,
    base             \* history: the library before the newest merge, if nothing ran since

vars == <<rows, reading, entries, job, play, begun, crashes, base>>

KeysAt == Shelves \X Keys
Targets == ({"shelf"} \X Shelves) \cup ({"alias"} \X Shelves)
    \cup ({"copy"} \X Copies) \cup ({"photo"} \X Photos)
    \cup ({"decision"} \X KeysAt) \cup ({"question"} \X KeysAt)

Shelf(s) == <<"shelf", s>>
Alias(s) == <<"alias", s>>
There(w, t) == w[t] # Absent

Live(w, s) == There(w, Shelf(s))

(* resolve: one hop, never a walk. *)
Resolve(w, s) == IF There(w, Alias(s)) THEN w[Alias(s)].into ELSE s

AliasesOf(w, s) == {a \in Shelves : There(w, Alias(a)) /\ w[Alias(a)].into = s}

(* identities: every id a question about this shelf must look under.        *)
Identities(w, s) == {s} \cup AliasesOf(w, s)

(* shelves.py `_load`: the row itself, or the shelf that answers for it. *)
Loaded(w, s) == IF Live(w, s) THEN s ELSE Resolve(w, s)

StandingOn(w, S) ==
    [copies |-> {t \in {"copy"} \X Copies : There(w, t) /\ w[t].at \in S},
     photos |-> {t \in {"photo"} \X Photos : There(w, t) /\ w[t].at \in S}]

(* The shelf's card, counted over its identities, and its list of one row.  *)
Counted(w, s) == Cardinality(StandingOn(w, Identities(w, s)).copies)

ShelfBooks(w, s, d) ==
    IF d > w[Shelf(s)].depth THEN {}
    ELSE {t \in StandingOn(w, Identities(w, s)).copies : w[t].depth = d}

SlotTaken(w, t, row) ==
    \E u \in ({"photo"} \X Photos) \ {t} :
        There(w, u) /\ w[u] = row

RowsAt(w, name, S) ==
    [t \in {u \in Targets : u[1] = name /\ There(w, u) /\ w[u].at \in S} |-> w[t]]

AnswersAt(w, S) ==
    [t \in {u \in Targets : /\ u[1] \in {"decision", "question"}
                            /\ There(w, u) /\ u[2][1] \in S} |-> w[t]]

NextOrder(w, s, d) ==
    LET here == {w[t].order : t \in {u \in {"photo"} \X Photos :
                                       There(w, u) /\ w[u].at = s /\ w[u].depth = d}}
    IN  IF here = {} THEN 0 ELSE 1 + CHOOSE n \in here : \A k \in here : k <= n

(* What the journal watches: its own targets, and for a shelf that goes     *)
(* back to a slot, who stands in the slots now.                             *)
WatchedRows(restore) ==
    DOMAIN restore \cup
    IF \E t \in DOMAIN restore : t[1] = "shelf" /\ restore[t] # Absent
                                 /\ restore[t].address # Nowhere
    THEN {<<"slots", "all">>} ELSE {}

Seen(w) ==
    w @@ (<<"slots", "all">> :> {<<w[Shelf(s)].address, s>> : s \in
                                    {x \in Shelves : Live(w, x) /\ w[Shelf(x)].address # Nowhere}})
-----------------------------------------------------------------------------
(* The plan.  It is the pure half of a merge: from what was gathered, the   *)
(* writes in the order they must be made, and the rows as they stood.       *)

MaxOf(S) == CHOOSE n \in S : \A k \in S : k <= n

MergedDepth(got, a, b) ==
    MaxOf({got.shelves[Shelf(a)].depth, got.shelves[Shelf(b)].depth}
          \cup {got.copies[t].depth : t \in DOMAIN got.copies}
          \cup {got.photos[t].depth : t \in DOMAIN got.photos})

Write(op, put) == [op |-> op, put |-> put]

(* One write per row, in the order `before` gives. *)
InOrder(op, put, before(_, _)) ==
    LET order == SetToSortSeq(DOMAIN put, before)
    IN  [i \in DOMAIN order |-> Write(op, order[i] :> put[order[i]])]

AnyOrder(op, put) ==
    LET order == SetToSeq(DOMAIN put)
    IN  [i \in DOMAIN order |-> Write(op, order[i] :> put[order[i]])]

At(f, s) == {t \in DOMAIN f : f[t].at = s}
AtDepth(f, s, d) == {t \in At(f, s) : f[t].depth = d}

(* The absorbed strip after the survivor's, or before it.  Only what moves  *)
(* is written, and the survivor's photographs step up highest first, since  *)
(* two photographs never share a slot.                                      *)
Rank(photos, T, t) == Cardinality({u \in T : photos[u].order < photos[t].order})

SurvivorFirst(photos, a, b) ==
    [t \in At(photos, a) |->
        LET there == {photos[u].order : u \in AtDepth(photos, b, photos[t].depth)}
            start == IF there = {} THEN 0 ELSE 1 + MaxOf(there)
        IN  [at |-> b, depth |-> photos[t].depth,
             order |-> start + Rank(photos, AtDepth(photos, a, photos[t].depth), t)]]

Shifted(photos, a, b) ==
    [t \in {u \in At(photos, b) : AtDepth(photos, a, photos[u].depth) # {}} |->
        [photos[t] EXCEPT !.order = @ + Cardinality(AtDepth(photos, a, photos[t].depth))]]

AbsorbedFirst(photos, a, b) ==
    [t \in At(photos, a) |->
        [at |-> b, depth |-> photos[t].depth,
         order |-> Rank(photos, AtDepth(photos, a, photos[t].depth), t)]]

Restrip(photos, a, b, strip) ==
    IF strip = "survivor_first"
    THEN LET moves == SurvivorFirst(photos, a, b)
         IN  InOrder("photo", moves, LAMBDA t, u : moves[t].order < moves[u].order)
    ELSE LET up    == Shifted(photos, a, b)
             moves == AbsorbedFirst(photos, a, b)
         IN  InOrder("photo", up, LAMBDA t, u : up[t].order > up[u].order)
             \o InOrder("photo", moves, LAMBDA t, u : moves[t].order < moves[u].order)

PhotosAbsorbed(photos, a, b, strip) == At(photos, a)

PhotosTouched(photos, a, b, strip) ==
    At(photos, a) \cup IF strip = "survivor_first" THEN {} ELSE DOMAIN Shifted(photos, a, b)

Of(answers, table, s) == {k \in Keys : <<table, <<s, k>>>> \in DOMAIN answers}
Stamp(answers, table, s, k) == answers[<<table, <<s, k>>>>].stamp

(* An answer moves with the wood; where both shelves answered, the newer    *)
(* stands.                                                                  *)
MovedDecisionsAlways(answers, a, b) == Of(answers, "decision", a)

MovedDecisions(answers, a, b) ==
    {k \in Of(answers, "decision", a) :
        k \in Of(answers, "decision", b)
        => Stamp(answers, "decision", a, k) > Stamp(answers, "decision", b, k)}

(* A question closes where the merged shelf has an answer. *)
MovedQuestions(answers, a, b) ==
    {k \in Of(answers, "question", a) :
        /\ k \notin MovedDecisions(answers, a, b) \cup Of(answers, "decision", b)
        /\ k \in Of(answers, "question", b)
           => Stamp(answers, "question", a, k) > Stamp(answers, "question", b, k)}

ClosedQuestions(answers, a, b) ==
    Of(answers, "question", b)
    \cap (MovedDecisions(answers, a, b) \cup Of(answers, "decision", b))

AnswerPuts(answers, a, b) ==
    LET drop(table, s, S) == [t \in {table} \X ({s} \X S) |-> Absent]
        move(table, S)    == [t \in {table} \X ({b} \X S) |-> answers[<<table, <<a, t[2][2]>>>>]]
    IN  << drop("decision", a, Of(answers, "decision", a)),
           move("decision", MovedDecisions(answers, a, b)),
           drop("question", a, Of(answers, "question", a))
               @@ drop("question", b, ClosedQuestions(answers, a, b)),
           move("question", MovedQuestions(answers, a, b)) >>

AnswerWrites(answers, a, b) ==
    LET puts == AnswerPuts(answers, a, b)
    IN  FlattenSeq([i \in DOMAIN puts |-> AnyOrder("answer", puts[i])])

Plan(got, a, b, strip) ==
    AnyOrder("refile", [t \in At(got.copies, a) |-> [got.copies[t] EXCEPT !.at = b]])
    \o Restrip(got.photos, a, b, strip)
    \o AnswerWrites(got.answers, a, b)

(* preview: the same plan, of the library as it stands; preview_merge shows *)
(* how deep the survivor would be and all that would move.                  *)
BothRows(w, a, b) == (Shelf(a) :> w[Shelf(a)]) @@ (Shelf(b) :> w[Shelf(b)])

Preview(w, a, b, strip) ==
    LET got == [shelves |-> BothRows(w, a, b), copies |-> RowsAt(w, "copy", {a, b}),
                photos |-> RowsAt(w, "photo", {a, b}), answers |-> AnswersAt(w, {a, b})]
    IN  [depth |-> MergedDepth(got, a, b), writes |-> Plan(got, a, b, strip)]

(* _inverse: what stood before, and Absent for what the merge makes.  The   *)
(* survivor it remembers is the one it has already deepened.                *)
RowsBefore(got, a, b, strip, deepened, moved, kept) ==
    LET puts    == AnswerPuts(got.answers, a, b)
        touched == UNION {DOMAIN puts[i] : i \in DOMAIN puts}
    IN  (Shelf(b) :> deepened)
        @@ (IF kept THEN <<>> ELSE Shelf(a) :> got.shelves[Shelf(a)])
        @@ [t \in At(got.copies, a) |-> got.copies[t]]
        @@ [t \in PhotosTouched(got.photos, a, b, strip) |-> got.photos[t]]
        @@ [t \in touched |-> IF t \in DOMAIN got.answers THEN got.answers[t] ELSE Absent]
        @@ moved
        @@ (Alias(a) :> Absent)

(* The replay of an entry, in the order the code gives it: what the merge   *)
(* took from the absorbed shelf leaves before the survivor's photographs    *)
(* step down into their slots, lowest first.                                *)
Table(f, name) == [t \in {u \in DOMAIN f : u[1] = name} |-> f[t]]
Gone(f) == [t \in Minted(f) |-> Absent]
Kept(f) == [t \in DOMAIN f \ Minted(f) |-> f[t]]

Replay(restore) ==
    LET photos    == Table(restore, "photo")
        leaves(t) == Alias(photos[t].at) \in Minted(restore)
    IN  <<Write("shelves", Table(restore, "shelf"))>>
        \o AnyOrder("refile", Table(restore, "copy"))
        \o InOrder("photo", photos, LAMBDA t, u :
              \/ leaves(t) /\ ~leaves(u)
              \/ leaves(t) = leaves(u) /\ photos[t].order < photos[u].order)
        \o AnyOrder("answer", Gone(Table(restore, "decision")))
        \o AnyOrder("answer", Kept(Table(restore, "decision")))
        \o AnyOrder("answer", Gone(Table(restore, "question")))
        \o AnyOrder("answer", Kept(Table(restore, "question")))
        \o <<Write("aliases", Table(restore, "alias"))>>
-----------------------------------------------------------------------------
(* The stores: when a write is refused, and what it leaves.                 *)

AddressTaken(w) ==
    \E s, x \in Shelves : /\ s # x /\ Live(w, s) /\ Live(w, x)
                          /\ w[Shelf(s)].address = w[Shelf(x)].address
                          /\ w[Shelf(s)].address # Nowhere

Chained(w) ==
    \E s \in Shelves : There(w, Alias(s)) /\ There(w, Alias(w[Alias(s)].into))

Refuses(w, wr) ==
    \/ /\ wr.op = "photo"
       /\ \E t \in DOMAIN wr.put : ~Live(w, wr.put[t].at) \/ SlotTaken(w, t, wr.put[t])
    \/ wr.op = "shelves" /\ AddressTaken(wr.put @@ w)
    \/ /\ wr.op = "aliases"
       /\ \/ \E t \in DOMAIN Kept(wr.put) : ~Live(w, wr.put[t].into)
          \/ Chained(wr.put @@ w)

(* A copy whose book is gone is not refiled. *)
Written(w, wr) ==
    [t \in {u \in DOMAIN wr.put : wr.op = "refile" => There(w, u)} |-> wr.put[t]]

Effect(w, wr) == Written(w, wr) @@ w
-----------------------------------------------------------------------------
(* Requests. *)

Idle == [at |-> "idle"]
Active(r) == job[r] # Idle
Nothing == [shelves |-> <<>>, copies |-> <<>>, photos |-> <<>>, answers |-> <<>>]

(* A request as it begins.  `alone` and `before` are history: whether       *)
(* nothing else ran while it did, and the library it met.                   *)
NewJob(kind, at, from, into) ==
    [kind |-> kind, at |-> at, from |-> from, into |-> into, strip |-> "survivor_first",
     resumed |-> FALSE, got |-> Nothing, todo |-> <<>>, wrote |-> <<>>, moved |-> <<>>,
     deepened |-> Absent, kept |-> FALSE, entry |-> 0,
     alone |-> \A r \in Requests : ~Active(r), before |-> rows]

(* What a request that begins does to the others. *)
Begins(r, new) ==
    /\ ~Active(r)
    /\ r <= play.overlap /\ new.kind \in play.kinds
    /\ begun < play.requests
    /\ begun' = begun + 1
    /\ job' = [q \in Requests |->
                 IF q = r THEN new
                 ELSE IF Active(q) THEN [job[q] EXCEPT !.alone = FALSE] ELSE Idle]
    /\ base' = IF new.kind = "undo" THEN base ELSE Absent
    /\ UNCHANGED <<rows, entries, play, crashes>>

Goes(r, new) == job' = [job EXCEPT ![r] = new] /\ UNCHANGED <<play, begun, crashes>>
Reads(r, new) == Goes(r, new) /\ UNCHANGED <<rows, reading, entries, base>>

(* A merge already sent, whether or not it came to its end. *)
Sent(a) ==
    \/ There(rows, Alias(a))
    \/ \E q \in Requests : Active(q) /\ job[q].kind = "merge" /\ job[q].from = a

(* merge_shelves, merge: the rows of both shelves; an absorbed shelf whose  *)
(* row is gone, and a shelf and itself, are refused before anything is read.*)
BeginMerge(r) ==
    \E a, b \in Shelves, strip \in play.strips :
        /\ Live(rows, a) /\ Live(rows, b) /\ a # b
        /\ Sent(a) => "again" \in play.kinds
        /\ Begins(r, [NewJob("merge", "check", a, b) EXCEPT
                        !.strip = strip,
                        !.got.shelves = BothRows(rows, a, b)])
        /\ UNCHANGED reading

Resumed(j) == Resolve(rows, j.from) = j.into

(* The refusals of `plan`, in its order. *)
SurvivorAbsorbed(j) == There(rows, Alias(j.into))
ReadRunning(j) == \E x \in reading : x[2] \in {j.from, j.into}
RememberedSlot(j) ==
    LET address == j.got.shelves[Shelf(j.from)].address
    IN  /\ address # Nowhere
        /\ \E s \in Shelves : There(rows, Alias(s)) /\ rows[Alias(s)].address = address
Refused(j) == SurvivorAbsorbed(j) \/ ReadRunning(j) \/ RememberedSlot(j)

(* `already`: the row is gone and the identity answers. *)
Check(r) ==
    LET j == job[r]
    IN  /\ j.at = "check"
        /\ Reads(r, IF Refused(j) \/ (Resumed(j) /\ ~Live(rows, j.from)) THEN Idle
                    ELSE [j EXCEPT !.at = "copies", !.resumed = Resumed(j)])

GatherCopies(r) ==
    LET j == job[r]
    IN  /\ j.at = "copies"
        /\ Reads(r, [j EXCEPT !.at = "photos", !.got.copies = RowsAt(rows, "copy", {j.from, j.into})])

GatherPhotos(r) ==
    LET j == job[r]
    IN  /\ j.at = "photos"
        /\ Reads(r, [j EXCEPT !.at = "answers", !.got.photos = RowsAt(rows, "photo", {j.from, j.into})])

(* The last reads, and the plan made of all of them. *)
GatherAnswers(r) ==
    LET j   == job[r]
        got == [j.got EXCEPT !.answers = AnswersAt(rows, {j.from, j.into})]
    IN  /\ j.at = "answers"
        /\ Reads(r, [j EXCEPT !.at = IF j.resumed THEN "deepen" ELSE "absorb",
                              !.got = got, !.todo = Plan(got, j.from, j.into, j.strip)])

(* absorb_shelf: in one transaction, the survivor is live and answers for   *)
(* itself, what the absorbed shelf answered for is re-pointed, and the      *)
(* alias is inserted; an identity or an address already taken is refused.   *)
AbsorbRefused(j, alias) ==
    \/ ~Live(rows, j.into)
    \/ There(rows, Alias(j.into))
    \/ There(rows, Alias(j.from))
    \/ /\ alias.address # Nowhere
       /\ \E s \in Shelves : There(rows, Alias(s)) /\ rows[Alias(s)].address = alias.address

Repointed(moved, b) == [t \in DOMAIN moved |-> [moved[t] EXCEPT !.into = b]]

Absorb(r) ==
    LET j     == job[r]
        alias == [into |-> j.into, address |-> j.got.shelves[Shelf(j.from)].address]
        moved == [t \in {Alias(s) : s \in AliasesOf(rows, j.from)} |-> rows[t]]
        put   == Repointed(moved, j.into) @@ (Alias(j.from) :> alias)
    IN  /\ j.at = "absorb"
        /\ IF AbsorbRefused(j, alias)
           THEN Reads(r, Idle)
           ELSE /\ rows' = put @@ rows
                /\ Goes(r, [j EXCEPT !.at = "deepen", !.moved = moved, !.wrote = put])
                /\ UNCHANGED <<reading, entries, base>>

ToWrite(j) == IF j.todo = <<>> THEN "may_delete" ELSE "write"

(* The survivor is deepened on a row read now, not on the planned one. *)
DeepenedRow(j) ==
    LET depth == MergedDepth(j.got, j.from, j.into)
    IN  IF Live(rows, j.into)
        THEN [rows[Shelf(j.into)] EXCEPT !.depth = MaxOf({@, depth})]
        ELSE [j.got.shelves[Shelf(j.into)] EXCEPT !.depth = depth]

DeepenRead(r) ==
    LET j   == job[r]
        row == DeepenedRow(j)
    IN  /\ j.at = "deepen"
        /\ Reads(r, [j EXCEPT !.deepened = row, !.wrote = @ @@ (Shelf(j.into) :> row),
                              !.at = IF Live(rows, j.into) /\ row # rows[Shelf(j.into)]
                                     THEN "deepen_save" ELSE ToWrite(j)])

(* save_shelf is an upsert of the whole row. *)
DeepenSave(r) ==
    LET j == job[r]
        w == [rows EXCEPT ![Shelf(j.into)] = j.deepened]
    IN  /\ j.at = "deepen_save"
        /\ IF AddressTaken(w) THEN Reads(r, Idle)
           ELSE rows' = w /\ Goes(r, [j EXCEPT !.at = ToWrite(j)])
                /\ UNCHANGED <<reading, entries, base>>

(* What a request does once its writes are done. *)
AfterWrites(j) ==
    CASE j.kind = "merge" -> [j EXCEPT !.at = "may_delete"]
      [] j.kind = "undo"  -> [j EXCEPT !.at = "mark"]
      [] OTHER            -> Idle

(* One write of a plan, a replay or another request; refused, it ends the   *)
(* request where it stands.                                                 *)
WriteNext(r) ==
    LET j    == job[r]
        wr   == Head(j.todo)
        done == [j EXCEPT !.todo = Tail(@), !.wrote = Written(rows, wr) @@ @]
    IN  /\ j.at = "write"
        /\ IF Refuses(rows, wr) THEN Reads(r, Idle)
           ELSE /\ rows' = Effect(rows, wr)
                /\ Goes(r, IF done.todo = <<>> THEN AfterWrites(done) ELSE done)
                /\ UNCHANGED <<reading, entries, base>>

(* delete_shelf: three looks, each a statement of its own, and then the     *)
(* delete; the last step of a merge, and a request of its own.  A row that  *)
(* is gone already answers nothing, and a merge takes it for deleted.       *)
OccupiedByPhotos(w, s) ==
    \/ AliasesOf(w, s) # {}
    \/ StandingOn(w, {s}).photos # {}

Occupied(w, s) ==
    \/ AliasesOf(w, s) # {}
    \/ StandingOn(w, {s}).photos # {}
    \/ StandingOn(w, {s}).copies # {}

AfterDelete(j, kept) ==
    IF j.kind # "merge" THEN Idle
    ELSE [j EXCEPT !.at = "journal", !.kept = kept,
                   !.wrote = IF kept THEN @ ELSE (Shelf(j.from) :> Absent) @@ @]

MayDelete(r) ==
    LET j == job[r]
    IN  /\ j.at = "may_delete"
        /\ Reads(r, IF ~Live(rows, j.from) THEN AfterDelete(j, FALSE)
                    ELSE IF Occupied(rows, j.from) THEN AfterDelete(j, TRUE)
                    ELSE [j EXCEPT !.at = "drop"])

(* The open questions of the shelf go with it, and so do photographs that   *)
(* landed since the look: `captures.shelf_id` cascades.  An alias that      *)
(* points here makes the foreign key refuse.                                *)
Dropped(w, s) ==
    [t \in Targets |->
        IF \/ t = Shelf(s)
           \/ t[1] = "question" /\ t[2][1] = s
           \/ t \in StandingOn(w, {s}).photos
        THEN Absent ELSE w[t]]

Drop(r) ==
    LET j == job[r]
    IN  /\ j.at = "drop"
        /\ IF AliasesOf(rows, j.from) # {} THEN Reads(r, Idle)
           ELSE /\ rows' = Dropped(rows, j.from)
                /\ Goes(r, AfterDelete(j, FALSE))
                /\ UNCHANGED <<reading, entries, base>>

(* A resumed merge records nothing: what it would put back is not what      *)
(* stood before the merge.                                                  *)
JournalMerge(r) ==
    LET j       == job[r]
        restore == RowsBefore(j.got, j.from, j.into, j.strip, j.deepened, j.moved, j.kept)
    IN  /\ j.at = "journal"
        /\ Goes(r, Idle)
        /\ IF j.resumed THEN UNCHANGED <<entries, base>>
           ELSE /\ entries' = Recorded(entries, "merge_shelves", <<j.from, j.into>>,
                                       restore, Seen(rows), j.wrote)
                /\ base' = IF j.alone THEN j.before ELSE Absent
        /\ UNCHANGED <<rows, reading>>

(* undo: the fingerprint of the newest entry, then its replay; the entry is *)
(* marked last.  A refused undo changes nothing and is no step here.        *)
BeginUndo(r) ==
    /\ MayUndo(entries, Seen(rows))
    /\ Begins(r, [NewJob("undo", "write", Absent, Absent) EXCEPT
                    !.entry = Newest(entries).id,
                    !.todo = Replay(Newest(entries).restore)])
    /\ UNCHANGED reading

Mark(r) ==
    /\ job[r].at = "mark"
    /\ entries' = MarkUndone(entries, job[r].entry)
    /\ Goes(r, Idle)
    /\ base' = Absent
    /\ UNCHANGED <<rows, reading>>

(* create_capture, bind_capture: the shelf is loaded, the next free place   *)
(* in the strip looked up, the row saved.  Moving a photograph looks the    *)
(* place up under the id it was given, filing it uses the one that answers. *)
DeclaredDepths(s) == 1..rows[Shelf(s)].depth
NewCapture(s, d)  == [at |-> s, depth |-> d, order |-> 0]

BeginFiling(r) ==
    \E p \in {"photo"} \X play.photos, s \in Shelves :
        LET here == Loaded(rows, s)
            asks == IF There(rows, p) THEN s ELSE here
        IN  /\ Live(rows, here)
            /\ There(rows, p) => rows[p].at # s
            /\ \E d \in DeclaredDepths(here) :
                Begins(r, [NewJob("file", "order", asks, here) EXCEPT
                    !.todo = <<Write("photo", p :> NewCapture(here, d))>>])
            /\ UNCHANGED reading

Order(r) ==
    LET j   == job[r]
        put == Head(j.todo).put
    IN  /\ j.at = "order"
        /\ Reads(r, [j EXCEPT !.at = "write",
              !.todo = <<Write("photo", [t \in DOMAIN put |->
                            [put[t] EXCEPT !.order = NextOrder(rows, j.from, put[t].depth)]])>>])

(* add_a_row_behind, patch_shelf: the whole row, read and saved. *)
BeginDeepen(r) ==
    \E s \in Shelves :
        LET here == Loaded(rows, s)
        IN  /\ Live(rows, here) /\ rows[Shelf(here)].depth < MaxDepth
            /\ Begins(r, [NewJob("deepen", "write", here, here) EXCEPT
                  !.todo = <<Write("shelves", Shelf(here) :> [rows[Shelf(here)] EXCEPT !.depth = @ + 1])>>])
            /\ UNCHANGED reading

BeginDelete(r) ==
    \E s \in Shelves : /\ Live(rows, s)
                       /\ Begins(r, NewJob("delete", "may_delete", s, s))
                       /\ UNCHANGED reading

(* A read of a shelf: stored as running, settled, and then applied to the   *)
(* shelf that answers for the id by then.  The apply reads a book and saves *)
(* it whole later; a new book is filed where the read was taken.            *)
BeginRead(r) ==
    \E s \in Shelves :
        LET here == Loaded(rows, s)
        IN  /\ Live(rows, here)
            /\ Begins(r, NewJob("read", "reading", here, here))
            /\ reading' = reading \cup {<<r, here>>}

Settle(r) ==
    /\ job[r].at = "reading"
    /\ reading' = reading \ {<<r, job[r].from>>}
    /\ Goes(r, [job[r] EXCEPT !.at = "apply"])
    /\ UNCHANGED <<rows, entries, base>>

ApplyRead(r) ==
    LET j    == job[r]
        here == Resolve(rows, j.from)
    IN  /\ j.at = "apply"
        /\ IF ~Live(rows, here) THEN Reads(r, Idle)
           ELSE \E c \in {"copy"} \X play.copies :
                  /\ There(rows, c) => Resolve(rows, rows[c].at) = here
                  /\ Reads(r, [j EXCEPT !.at = "write", !.todo = <<Write("copy", c :>
                        IF There(rows, c) THEN rows[c] ELSE [at |-> here, depth |-> 1])>>])

(* answer_duplicate: the answer is saved, then its question deleted. *)
BeginAnswer(r) ==
    \E s \in Shelves, k \in Keys :
        /\ There(rows, <<"question", <<s, k>>>>)
        /\ Begins(r, [NewJob("answer", "write", s, s) EXCEPT
              !.todo = <<Write("answer", <<"decision", <<s, k>>>> :> [stamp |-> begun + 3]),
                         Write("answer", <<"question", <<s, k>>>> :> Absent)>>])
        /\ UNCHANGED reading

(* The process dies: every request stops where it is, and a read stays      *)
(* stored as running.                                                       *)
Crash ==
    /\ crashes < play.crashes
    /\ \E r \in Requests : Active(r)
    /\ crashes' = crashes + 1
    /\ job' = [r \in Requests |-> Idle]
    /\ base' = Absent
    /\ UNCHANGED <<rows, reading, entries, play, begun>>
-----------------------------------------------------------------------------
Init ==
    /\ play \in Plays
    /\ rows = play.rows
    /\ reading = {}
    /\ entries = <<>>
    /\ job = [r \in Requests |-> Idle]
    /\ begun = 0
    /\ crashes = 0
    /\ base = Absent

Next ==
    \/ \E r \in Requests :
        \/ BeginMerge(r) \/ Check(r) \/ GatherCopies(r) \/ GatherPhotos(r) \/ GatherAnswers(r)
        \/ Absorb(r) \/ DeepenRead(r) \/ DeepenSave(r) \/ WriteNext(r)
        \/ MayDelete(r) \/ Drop(r) \/ JournalMerge(r)
        \/ BeginUndo(r) \/ Mark(r)
        \/ BeginFiling(r) \/ Order(r) \/ BeginDeepen(r) \/ BeginDelete(r)
        \/ BeginRead(r) \/ Settle(r) \/ ApplyRead(r) \/ BeginAnswer(r)
    \/ Crash

Spec == Init /\ [][Next]_vars
ShelfRow  == [depth : 1..MaxDepth, address : Slots \cup {Nowhere}]
AliasRow  == [into : Shelves, address : Slots \cup {Nowhere}]
CopyRow   == [at : Shelves, depth : 1..MaxDepth]
PhotoRow  == [at : Shelves, depth : 1..MaxDepth, order : Nat]
AnswerRow == [stamp : Nat]

RowsOf(table) ==
    CASE table = "shelf" -> ShelfRow
      [] table = "alias" -> AliasRow
      [] table = "copy"  -> CopyRow
      [] table = "photo" -> PhotoRow
      [] OTHER           -> AnswerRow

(* Every table holds rows of its kind, no two shelves stand in one slot and *)
(* no two photographs share a place in a strip.                             *)
TypeOK ==
    /\ DOMAIN rows = Targets
    /\ \A t \in Targets : There(rows, t) => rows[t] \in RowsOf(t[1])
    /\ ~AddressTaken(rows)
    /\ \A t \in {"photo"} \X Photos : There(rows, t) => ~SlotTaken(rows, t, rows[t])
    /\ begun \in 0..play.requests /\ crashes \in 0..play.crashes

(* Every copy and every photograph stands under an identity of a shelf that *)
(* is there: whatever merges, undoes, uploads and reads overlap and wherever *)
(* the process dies, its survivor's screens look under the id it still      *)
(* names (map_merge.py, "the alias is written first").                      *)
NothingIsOutOfReach ==
    \A t \in Targets :
        t[1] \in {"copy", "photo"} /\ There(rows, t)
        => \E s \in Shelves : Live(rows, s) /\ rows[t].at \in Identities(rows, s)

(* While no process has died, a card counts what the lists of its rows      *)
(* show, once nothing runs (shelves.py _dto, shelf_books).                  *)
CardsAgreeWithLists ==
    crashes = 0 /\ (\A r \in Requests : ~Active(r)) =>
        \A s \in {x \in Shelves : Live(rows, x)} :
            Counted(rows, s) = Cardinality(UNION {ShelfBooks(rows, s, d) : d \in 1..MaxDepth})

(* No alias leads to a shelf that is itself an alias: `resolve` takes one   *)
(* hop, and what is two hops away is out of reach (domain/alias.py).        *)
OneHop == ~Chained(rows)

Ending(r, at) == Active(r) /\ job[r].at = at /\ job[r].alone

NewestStamp(w, a, b, k) ==
    LET both == {w[<<"decision", <<s, k>>>>].stamp :
                    s \in {x \in {a, b} : There(w, <<"decision", <<x, k>>>>)}}
    IN  IF both = {} THEN 0 ELSE MaxOf(both)

(* The strip joined in the declared order, each half in its own.            *)
JoinedStrip(j) ==
    \A t, u \in {"photo"} \X Photos :
        LET w    == j.before
            left == IF j.strip = "survivor_first" THEN j.into ELSE j.from
        IN  /\ There(w, t) /\ There(w, u) /\ w[t].depth = w[u].depth
            /\ {w[t].at, w[u].at} \subseteq {j.from, j.into}
            /\ \/ w[t].at = w[u].at /\ w[t].order < w[u].order
               \/ w[t].at = left /\ w[u].at # left
            => rows[t].order < rows[u].order

(* What its preview said of the library it met: how deep, and where each    *)
(* row would be.  A merge cut short is previewed as done already, though    *)
(* its second sending still moves what is left.                             *)
AsPreviewed(j) ==
    LET seen == Preview(j.before, j.from, j.into, j.strip)
        last(i, t) == \A k \in DOMAIN seen.writes : k > i => t \notin DOMAIN seen.writes[k].put
    IN  /\ rows[Shelf(j.into)].depth = seen.depth
        /\ \A i \in DOMAIN seen.writes : \A t \in DOMAIN seen.writes[i].put :
              last(i, t) => rows[t] = seen.writes[i].put[t]

(* A merge that ran to its journal with nothing beside it leaves nothing    *)
(* that names the absorbed shelf, a survivor deep enough for all that now   *)
(* stands on it, the newer of two answers, no question about what is        *)
(* answered, and one strip in the declared order; the second sending of a   *)
(* merge that was cut short too; the first is as its preview said           *)
(* (map_merge.py merge, domain/merge.py, routers/map.py preview_merge).     *)
MergeFinishes ==
    \A r \in Requests :
        Ending(r, "journal") =>
        LET j == job[r] IN
        /\ ~Live(rows, j.from) /\ rows[Alias(j.from)].into = j.into
        /\ \A t \in Targets : There(rows, t) =>
              /\ t[1] \in {"copy", "photo"} => rows[t].at # j.from
              /\ t[1] \in {"decision", "question"} => t[2][1] # j.from
              /\ t[1] \in {"copy", "photo"} /\ rows[t].at = j.into
                 => rows[t].depth <= rows[Shelf(j.into)].depth
        /\ \A k \in Keys :
              LET newest == NewestStamp(j.before, j.from, j.into, k)
              IN  newest # 0 => /\ rows[<<"decision", <<j.into, k>>>>] = [stamp |-> newest]
                                /\ ~There(rows, <<"question", <<j.into, k>>>>)
        /\ JoinedStrip(j)
        /\ ~j.resumed => AsPreviewed(j)

(* A merge taken back, with nothing run in between, leaves every row of     *)
(* every table as it was before the merge, but for how deep the survivor is *)
(* declared, which the undo keeps (map_undo.py _replay, map_merge.py        *)
(* _inverse).                                                               *)
UndoLeavesNoTrace ==
    \A r \in Requests :
        Ending(r, "mark") /\ base # Absent =>
        LET survivor == Shelf(Newest(entries).tag[2]) IN
        /\ \A t \in Targets \ {survivor} : rows[t] = base[t]
        /\ rows[survivor].address = base[survivor].address

(* A merge or an undo that started to write is not refused half way by what *)
(* it plans itself: its photographs never meet in one slot, its shelves and *)
(* aliases are accepted (domain/merge.py _restrip, "both tuples are         *)
(* ordered").  An undo of a merge that had company may well be refused: a   *)
(* photograph filed meanwhile on the absorbed shelf holds the old place.    *)
LoneWritesSucceed ==
    \A r \in Requests :
        /\ Ending(r, "write")
        /\ \/ job[r].kind = "merge"
           \/ job[r].kind = "undo" /\ base # Absent
        => ~Refuses(rows, Head(job[r].todo))

(* Between any two calls the shelves are sound: rows have their shapes, no  *)
(* two stand in one slot, and what is shelved is found, over one alias.     *)
ShelvesAreSound ==
    TypeOK /\ OneHop /\ NothingIsOutOfReach /\ CardsAgreeWithLists /\ LoneWritesSucceed
=============================================================================
