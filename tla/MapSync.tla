------------------------------ MODULE MapSync -------------------------------
(***************************************************************************)
(* One browser tab editing the plan of a site: the drawing and its undo     *)
(* stack, the writes queued behind one another, the re-derives, and the     *)
(* gestures that go to the server beside the drawing.                       *)
(*                                                                         *)
(* Every commit of the editor is a task of `queue`; the head of it, once    *)
(* begun, is `push`, one request in flight at a time.  `era` counts the     *)
(* re-derives.  Ids of rows are <<"row", n>>; whatever the session drew     *)
(* carries an id of its own until the next re-derive, and `ids` says which  *)
(* row it became.                                                           *)
(*                                                                         *)
(* Abstracted: storeys; the words of a notice; the flash line; the two      *)
(* reads of a load are one.  While the document is re-derived nothing can   *)
(* be edited, whether the screen is blank or inert.                         *)
(***************************************************************************)
EXTENDS PlanDiff

CONSTANTS
    Plays,           \* where behaviours start, and what is done in them
    MaxHeight        \* columns and levels are kept within 1..MaxHeight

VARIABLES
    play,
    lib, minted,     \* the library and how many row ids it has given out
    trash,           \* what the undo journal would bring back: a case, or Nowhere
    editor,          \* the drawing and its undo stack; Nowhere while re-deriving
    confirmed,       \* the drawing the server last confirmed
    ids,             \* what each drawn id became, with the load it belongs to
    site, chosen,    \* the site on screen, and the one the owner picked (0: none)
    queue, push,
    era, load,
    gesture,         \* a gesture that drains the queue before it ends
    notice, saved,
    file,            \* a drawing saved to a file
    edits, pressed,  \* commits of the editor, gestures beside it
    asked,           \* history: what the owner took out of the drawing, load by load
    spoiled          \* faults so far

vars == <<play, lib, minted, trash, editor, confirmed, ids, site, chosen, queue, push,
          era, load, gesture, notice, saved, file, edits, pressed, asked, spoiled>>

document == <<editor, edits, pressed, asked, queue, saved, notice>>
server   == <<lib, minted, trash>>
derived  == <<confirmed, ids, site>>

Can(kind) == kind \in play.kinds
Row(n)  == <<"row", n>>
Flip(look) == 3 - look

(***************************************************************************)
(* Server to document, and back.                                            *)
(***************************************************************************)
At(f, s) == Restrict(f, {x \in DOMAIN f : f[x].site = s})
ToPlan(l, s) == [rooms |-> At(l.rooms, s), cases |-> At(l.cases, s)]

Of(table, id) == IF id \in DOMAIN table THEN table[id] ELSE id

(* A drawing with every id turned into the row's.                           *)
Renamed(f, table) ==
    [x \in {Of(table, id) : id \in DOMAIN f} |-> f[CHOOSE id \in DOMAIN f : Of(table, id) = x]]
OnServer(plan, table) ==
    [rooms |-> Renamed(plan.rooms, table),
     cases |-> LET cases == Renamed(plan.cases, table)
               IN  [k \in DOMAIN cases |->
                       [cases[k] EXCEPT !.room = Of(table, @),
                            !.sections = [i \in DOMAIN @ |-> [@[i] EXCEPT !.id = Of(table, @)]]]]]

Request(op, table) == [op EXCEPT !.names = [i \in DOMAIN @ |-> Of(table, @[i])]]

(***************************************************************************)
(* The editor's document.                                                   *)
(***************************************************************************)
NoPlan == [rooms |-> <<>>, cases |-> <<>>]
Drawing(doc) == [rooms |-> doc.rooms, cases |-> doc.cases]
Doc(plan, seq) == [rooms |-> plan.rooms, cases |-> plan.cases, seq |-> seq]
Mounted(plan) == [past |-> <<>>, now |-> Doc(plan, 0), future |-> <<>>, tag |-> Nowhere]

Objects(plan) == RowsOf(plan)

Task(plan) == [era |-> era, plan |-> plan]

Recorded(stack) ==
    /\ editor' = stack
    /\ queue' = Append(queue, Task(Drawing(stack.now)))
    /\ saved' = "saving"
    /\ edits' = edits + 1
    /\ asked' = asked \cup ({ids.load} \X (Objects(editor.now) \ Objects(stack.now)))
    /\ UNCHANGED <<play, server, derived, chosen, push, era, load, gesture, notice, file, pressed, spoiled>>

Editing == editor # Nowhere /\ edits < play.edits

(* Two commits in a row with the same tag are one entry of the undo stack.  *)
Commit(doc, tag) ==
    /\ doc # editor.now
    /\ Recorded(IF tag # Nowhere /\ tag = editor.tag
                THEN [editor EXCEPT !.now = doc, !.future = <<>>]
                ELSE [past |-> Append(editor.past, editor.now), now |-> doc, future |-> <<>>,
                      tag |-> tag])

Undo ==
    /\ Editing /\ Can("undo") /\ editor.past # <<>>
    /\ Recorded([past |-> Front(editor.past), now |-> Last(editor.past),
                 future |-> <<editor.now>> \o editor.future, tag |-> Nowhere])

Redo ==
    /\ Editing /\ Can("undo") /\ editor.future # <<>>
    /\ Recorded([past |-> Append(editor.past, editor.now), now |-> Head(editor.future),
                 future |-> Tail(editor.future), tag |-> Nowhere])

Doing(kind) == Editing /\ Can(kind)

Drawn(name) == <<name, editor.now.seq + 1>>
Numbered(doc, by) == [doc EXCEPT !.seq = @ + by]

CreateRoom ==
    /\ Doing("room")
    /\ Commit(Numbered(WithRoom(editor.now, Drawn("room"), [site |-> site, look |-> 1]), 1), Nowhere)

CreateCase ==
    /\ Doing("case")
    /\ \E room \in DOMAIN editor.now.rooms \cup {Nowhere} :
          LET id == Drawn("case")
              case == [site |-> site, room |-> room, look |-> 1,
                       sections |-> <<Built(<<"section", id, 1>>, DefaultColumns, DefaultLevels, 1)>>]
          IN  Commit(Numbered(WithCase(editor.now, id, case), 1), Nowhere)

(* Typing a name: every letter is a commit, and all of them one undo step.  *)
EditRoom(r) ==
    Doing("name") /\ Commit([editor.now EXCEPT !.rooms[r].look = Flip(@)], <<"name", r>>)

EditCase(k) ==
    \/ Doing("name") /\ Commit([editor.now EXCEPT !.cases[k].look = Flip(@)], <<"name", k>>)
    \/ /\ Doing("attach")
       /\ \E room \in DOMAIN editor.now.rooms \cup {Nowhere} :
             Commit([editor.now EXCEPT !.cases[k].room = room], Nowhere)

(* A room that goes does not take its furniture with it.                    *)
DeleteSelection(rooms, cases) ==
    /\ Doing("delete")
    /\ Commit([editor.now EXCEPT
                  !.rooms = Restrict(@, DOMAIN @ \ rooms),
                  !.cases = [k \in DOMAIN @ \ cases |->
                                IF @[k].room \in rooms THEN [@[k] EXCEPT !.room = Nowhere] ELSE @[k]]],
              Nowhere)

NextSectionId(k, sections) ==
    LET used == {s[3] : s \in {sections[i].id : i \in DOMAIN sections} \cap ({"section"} \X {k} \X Nat)}
    IN  <<"section", k, Max(used \cup {0}) + 1>>

Slots(sections) == UNION {{i} \X Cells(sections[i]) : i \in DOMAIN sections}
OverCeiling(was, now) ==
    \/ Cardinality(Slots(now)) > MaxSlots /\ Cardinality(Slots(now)) > Cardinality(Slots(was))
    \/ Len(now) > MaxSections /\ Len(now) > Len(was)

GrowCase(k, sections, tag) ==
    /\ ~OverCeiling(editor.now.cases[k].sections, sections)
    /\ Commit([editor.now EXCEPT !.cases[k].sections = sections], tag)

AddSectionTo(k) ==
    LET sections == editor.now.cases[k].sections
        id == NextSectionId(k, sections)
    IN  /\ Doing("section")
        /\ \/ GrowCase(k, Append(sections, Like(id, Last(sections))), Nowhere)
           \/ GrowCase(k, <<Like(id, sections[1])>> \o sections, Nowhere)

RemoveSection(k) ==
    LET sections == editor.now.cases[k].sections
    IN  /\ Doing("section") /\ Len(sections) > 1
        /\ \E i \in DOMAIN sections :
              GrowCase(k, RemoveAt(sections, i), Nowhere)

(* What the panel offers on one section, each with the tag that makes a run  *)
(* of it one undo step.                                                     *)
Gesturable(s) ==
    ({"section.defaults"} \X ((1..MaxHeight) \X {s.defaultDepth}) \X {<<"levels", s.id>>})
    \cup ({"section.defaults"} \X ({s.defaultLevels} \X (1..MaxDeep)) \X {<<"depth", s.id>>})
    \cup ({"section.columns"} \X (1..MaxHeight) \X {Nowhere})
    \cup ({"section.levels"} \X ((DOMAIN s.levels) \X (1..MaxHeight)) \X {Nowhere})
    \cup ({"section.gaps"} \X ({{c} : c \in Grid(s.levels)} \X BOOLEAN) \X {Nowhere})
    \cup UNION {{"shelf.depth"} \X ({c} \X (1..MaxDeep)) \X {<<"shelf", s.id, c>>} : c \in Cells(s)}

(* Applying the defaults to what already stands is a gesture of its own.    *)
AppliedLevels(s) == Furnished(s, ApplyDefaultLevels(s))
AppliedDepth(s)  == [s EXCEPT !.depths = [c \in DOMAIN @ |-> s.defaultDepth]]

ReshapeSection(k) ==
    LET sections == editor.now.cases[k].sections
    IN  /\ Doing("shape")
        /\ \E i \in DOMAIN sections :
              \/ \E change \in Gesturable(sections[i]) :
                    GrowCase(k, [sections EXCEPT ![i] = Reshaped(@, change[1], change[2])], change[3])
              \/ \E s \in {AppliedLevels(sections[i]), AppliedDepth(sections[i])} :
                    GrowCase(k, [sections EXCEPT ![i] = s], Nowhere)

(* A copy gets ids of its own, its sections numbered in the order they      *)
(* stand; a case copied with its room stays with that copy.                 *)
Paste(rooms, cases) ==
    LET doc    == editor.now
        roomAt == SetToSeq(rooms)
        caseAt == SetToSeq(cases)
        RoomId(r) == <<"room", doc.seq + CHOOSE i \in DOMAIN roomAt : roomAt[i] = r>>
        Id(i)     == <<"case", doc.seq + Len(roomAt) + i>>
        Copy(i) == LET k == doc.cases[caseAt[i]]
                   IN  [k EXCEPT !.room = IF @ \in rooms THEN RoomId(@) ELSE @,
                                 !.sections = [j \in DOMAIN @ |-> [@[j] EXCEPT !.id = <<"section", Id(i), j>>]]]
    IN  /\ Doing("paste")
        /\ Commit([rooms |-> [x \in {RoomId(r) : r \in rooms} |->
                                 doc.rooms[CHOOSE r \in rooms : RoomId(r) = x]] @@ doc.rooms,
                   cases |-> [x \in {Id(i) : i \in DOMAIN caseAt} |->
                                 Copy(CHOOSE i \in DOMAIN caseAt : Id(i) = x)] @@ doc.cases,
                   seq   |-> doc.seq + Len(roomAt) + Len(caseAt)], Nowhere)

(* The ids go into the file as the drawing has them.                        *)
Export ==
    /\ editor # Nowhere /\ Can("file") /\ file = Nowhere
    /\ file' = [site |-> site, plan |-> Drawing(editor.now),
                rows |-> {Of(ids.table, id) : id \in Objects(editor.now)} \cap RowsOf(lib)]
    /\ UNCHANGED <<play, server, derived, chosen, document, push, era, load, gesture, spoiled>>

Import ==
    /\ Doing("file") /\ file # Nowhere /\ file.site = site
    /\ file.plan # NoPlan
    /\ Commit(Doc(file.plan, editor.now.seq), Nowhere)

Edit ==
    \/ CreateRoom \/ CreateCase
    \/ Undo \/ Redo
    \/ Import
    \/ /\ Editing
       /\ \/ \E r \in DOMAIN editor.now.rooms :
                \/ EditRoom(r)
                \/ DeleteSelection({r}, {})
                \/ Paste({r}, {k \in DOMAIN editor.now.cases : editor.now.cases[k].room = r})
          \/ \E k \in DOMAIN editor.now.cases :
                \/ EditCase(k)
                \/ DeleteSelection({}, {k})
                \/ Paste({}, {k})
                \/ AddSectionTo(k)
                \/ RemoveSection(k)
                \/ ReshapeSection(k)

(***************************************************************************)
(* Writing.                                                                 *)
(***************************************************************************)
Idle == Nowhere

StartOver ==
    /\ era' = era + 1
    /\ editor' = Nowhere
    /\ load' = [asked |-> TRUE, lib |-> Nowhere]

KeepOn == UNCHANGED <<era, editor, load>>

(* The head task is over: whoever waits for the queue waits for one less.   *)
TaskDone ==
    /\ queue' = Tail(queue)
    /\ push' = Idle
    /\ gesture' = IF gesture # Nowhere /\ gesture.waits > 0
                  THEN [gesture EXCEPT !.waits = @ - 1] ELSE gesture

Sending(p) ==
    push' = [p EXCEPT !.out = Request(p.ops[p.at], p.ids.table), !.answer = Nowhere]

(* A task recorded before a re-derive describes a drawing that is gone.     *)
NeverStale(task) == FALSE
Stale(task) == task.era # era

(* The difference is worked out when the task runs, not when it was made.   *)
Begin ==
    /\ push = Idle /\ queue # <<>>
    /\ LET task == Head(queue)
           ops  == Diff(confirmed, task.plan)
       IN  IF Stale(task) THEN TaskDone /\ UNCHANGED <<saved, notice>>
           ELSE IF ops = <<>> THEN TaskDone /\ saved' = "saved" /\ UNCHANGED notice
           ELSE /\ Sending([ops |-> ops, at |-> 1, era |-> era, plan |-> task.plan, ids |-> ids,
                            site |-> site, out |-> Nowhere, answer |-> Nowhere])
                /\ notice' = Nowhere
                /\ UNCHANGED <<queue, gesture, saved>>
    /\ KeepOn
    /\ UNCHANGED <<play, server, derived, chosen, file, edits, pressed, asked, spoiled>>

(* What the server makes of the request in flight.                          *)
Handle(new, newSection) ==
    IF Refuses(lib, push.out, push.site)
    THEN /\ push' = [push EXCEPT !.answer = [kind |-> "refused"]]
         /\ UNCHANGED server
    ELSE /\ lib' = Landed(lib, push.out, push.site, new, newSection)
         /\ minted' = minted + (CASE push.out.kind = "case.add" -> 2
                                  [] push.out.kind \in {"room.add", "section.add"} -> 1
                                  [] OTHER -> 0)
         /\ trash' = IF push.out.kind = "case.remove"
                     THEN push.out.names[1] :> lib.cases[push.out.names[1]]
                     ELSE IF push.out.kind \in {"room.remove", "section.remove", "section.columns",
                                                "section.levels", "section.gaps"}
                     THEN Nowhere ELSE trash
         /\ push' = [push EXCEPT !.answer = [kind |-> "landed", new |-> new, section |-> newSection]]

Land ==
    /\ push # Idle /\ push.answer = Nowhere
    /\ Handle(Row(minted + 1), IF push.out.kind = "case.add" THEN Row(minted + 2) ELSE Row(minted + 1))
    /\ UNCHANGED <<play, derived, chosen, document, era, load, gesture, file, spoiled>>

(* The request never arrives, its answer never does, or the server refuses  *)
(* it for a reason the drawing does not hold.                               *)
Fault(kind) == kind \in play.faults /\ spoiled < play.faultsAtMost /\ spoiled' = spoiled + 1

LossOf(p) ==
    IF p.answer # Nowhere THEN "unanswered" ELSE IF p.at = 1 THEN "lost" ELSE "lost half way"

Spoil ==
    /\ push # Idle
    /\ \/ /\ push.answer # Nowhere => push.answer.kind = "landed"
          /\ Fault(LossOf(push))
          /\ push' = [push EXCEPT !.answer = [kind |-> "lost"]]
       \/ /\ push.answer = Nowhere
          /\ Fault("refused")
          /\ push' = [push EXCEPT !.answer = [kind |-> "refused"]]
    /\ UNCHANGED <<play, server, derived, chosen, document, era, load, gesture, file>>

Learnt(table, op, answer) ==
    CASE op.kind \in {"room.add", "section.add"} -> (op.id :> answer.new) @@ table
      [] op.kind = "case.add" ->
            (op.id :> answer.new) @@ (op.body.sections[1].id :> answer.section) @@ table
      [] OTHER -> table

(* A push whose document was re-derived meanwhile changes nothing here, but *)
(* what it landed is not in the document just derived.                      *)
LeftAsItIs(done) == KeepOn
Superseded(done) ==
    IF done > 0 THEN StartOver ELSE KeepOn

NeverLate == FALSE
Late == push.era # era

Finish(done, refused) ==
    /\ TaskDone
    /\ IF Late THEN Superseded(done) /\ UNCHANGED <<confirmed, saved, notice>>
       ELSE IF refused
       THEN StartOver /\ notice' = "refused" /\ saved' = "failed" /\ UNCHANGED confirmed
       ELSE KeepOn /\ confirmed' = push.plan /\ saved' = "saved" /\ UNCHANGED notice

Answer ==
    /\ push # Idle /\ push.answer # Nowhere
    /\ LET op    == push.ops[push.at]
           table == IF push.answer.kind = "landed"
                    THEN [push.ids EXCEPT !.table = Learnt(@, op, push.answer)] ELSE push.ids
       IN  /\ ids' = IF ids.load = push.ids.load THEN table ELSE ids
           /\ CASE push.answer.kind = "landed" /\ push.at < Len(push.ops) ->
                     /\ Sending([push EXCEPT !.at = @ + 1, !.ids = table])
                     /\ KeepOn
                     /\ UNCHANGED <<queue, gesture, confirmed, saved, notice>>
                [] push.answer.kind = "landed" /\ push.at = Len(push.ops) ->
                     Finish(push.at, FALSE)
                [] push.answer.kind = "refused" -> Finish(push.at - 1, TRUE)
                [] push.answer.kind = "lost" ->
                     /\ TaskDone /\ KeepOn
                     /\ notice' = "undelivered" /\ saved' = "failed"
                     /\ UNCHANGED confirmed
    /\ UNCHANGED <<play, server, site, chosen, file, edits, pressed, asked, spoiled>>

(***************************************************************************)
(* Re-deriving.                                                             *)
(***************************************************************************)
Fetch ==
    /\ load # Nowhere /\ load.asked
    /\ load' = [asked |-> FALSE, lib |-> lib]
    /\ UNCHANGED <<play, server, derived, chosen, document, push, era, gesture, file, spoiled>>

(* The editor mounts on what was read, and hands it straight to the queue.  *)
Adopt ==
    /\ load # Nowhere /\ ~load.asked
    /\ LET home == IF chosen \in load.lib.sites THEN chosen ELSE Min(load.lib.sites)
           plan == ToPlan(load.lib, home)
       IN  /\ site' = home /\ chosen' = home
           /\ confirmed' = plan
           /\ editor' = Mounted(plan)
           /\ queue' = Append(queue, Task(plan))
    /\ ids' = [load |-> ids.load + 1, table |-> <<>>]
    /\ load' = Nowhere
    /\ saved' = "saving"
    /\ UNCHANGED <<play, server, push, era, gesture, notice, file, edits, pressed, asked, spoiled>>

Pressing == pressed < play.presses /\ pressed' = pressed + 1

Reload ==
    /\ Can("reload") /\ Pressing
    /\ StartOver
    /\ UNCHANGED <<play, server, derived, chosen, queue, push, gesture, notice, saved, file,
                   edits, asked, spoiled>>

ChooseSite ==
    /\ Can("sites") /\ editor # Nowhere /\ Pressing
    /\ chosen' \in lib.sites \ {site}
    /\ StartOver
    /\ UNCHANGED <<play, server, derived, queue, push, gesture, notice, saved, file,
                   edits, asked, spoiled>>

(***************************************************************************)
(* Gestures beside the drawing.  A site gesture's request leaves at once;   *)
(* the others' only once the queue has drained.                             *)
(***************************************************************************)
AtOnce == {"add site", "remove site"}

Press(kind) ==
    /\ Can(kind) /\ editor # Nowhere /\ gesture = Nowhere /\ Pressing
    /\ kind = "remove site" => editor.now.rooms = <<>> /\ editor.now.cases = <<>>
    /\ gesture' = [kind |-> kind, waits |-> Len(queue), answer |-> Nowhere, site |-> site]
    /\ era' = IF kind = "remove site" THEN era + 1 ELSE era
    /\ notice' = IF kind = "photo" THEN notice ELSE Nowhere
    /\ saved' = "saving"
    /\ UNCHANGED <<play, server, derived, chosen, editor, queue, push, load, file, edits, asked, spoiled>>

(* Whether the library lets the gesture through, and what it then holds.    *)
Possible(kind) ==
    CASE kind = "remove site" ->
            /\ lib.sites # {gesture.site}
            /\ \A x \in DOMAIN lib.rooms : lib.rooms[x].site # gesture.site
            /\ \A x \in DOMAIN lib.cases : lib.cases[x].site # gesture.site
      [] kind = "move"      -> \E k \in DOMAIN lib.cases : Len(lib.cases[k].sections) > 1
      [] kind = "take back" ->
            /\ trash # Nowhere
            /\ \A k \in DOMAIN trash : trash[k].room \in DOMAIN lib.rooms \cup {Nowhere}
      [] OTHER -> TRUE

Swapped(s, i) == [s EXCEPT ![i] = s[i + 1], ![i + 1] = s[i]]

Work(kind) ==
    CASE kind = "add site" ->
            /\ lib' = [lib EXCEPT !.sites = @ \cup {Max(lib.sites) + 1}]
            /\ chosen' = Max(lib.sites) + 1
            /\ UNCHANGED trash
      [] kind = "remove site" ->
            /\ lib' = [lib EXCEPT !.sites = @ \ {gesture.site}]
            /\ chosen' = 0
            /\ trash' = Nowhere
      [] kind = "move" ->
            /\ \E k \in DOMAIN lib.cases : \E i \in 1..(Len(lib.cases[k].sections) - 1) :
                  lib' = [lib EXCEPT !.cases[k].sections = Swapped(@, i)]
            /\ UNCHANGED <<chosen, trash>>
      [] kind = "take back" ->
            /\ lib' = [lib EXCEPT !.cases = trash @@ @]
            /\ trash' = Nowhere
            /\ UNCHANGED chosen
      [] OTHER -> UNCHANGED <<lib, chosen, trash>>

GestureLands ==
    /\ gesture # Nowhere /\ gesture.answer = Nowhere
    /\ gesture.waits = 0 \/ gesture.kind \in AtOnce
    /\ \/ /\ Possible(gesture.kind)
          /\ Work(gesture.kind)
          /\ gesture' = [gesture EXCEPT !.answer = "done"]
          /\ UNCHANGED spoiled
       \/ /\ IF Possible(gesture.kind) THEN Fault("refused") ELSE UNCHANGED spoiled
          /\ gesture' = [gesture EXCEPT !.answer = "failed"]
          /\ UNCHANGED <<lib, chosen, trash>>
    /\ UNCHANGED <<play, minted, derived, document, push, era, load, file>>

(* A site gesture re-derives whatever became of it, and so does one whose   *)
(* refusal means that the drawing has moved on; a journal with nothing to   *)
(* give back and a photograph that was not taken leave the drawing alone.   *)
AfterSite(failed) ==
    /\ StartOver
    /\ IF failed THEN notice' = "refused" /\ saved' = "failed" ELSE UNCHANGED <<notice, saved>>
SlotWritten(failed) ==
    /\ StartOver
    /\ IF failed THEN notice' = "refused" /\ saved' = "saved" ELSE UNCHANGED <<notice, saved>>
TakenBack(failed) ==
    IF failed THEN KeepOn /\ saved' = "saved" /\ UNCHANGED notice
              ELSE StartOver /\ UNCHANGED <<notice, saved>>
PhotoAttached(failed) ==
    /\ IF failed THEN KeepOn /\ saved' = "failed" ELSE StartOver /\ saved' = "saved"
    /\ UNCHANGED notice

GestureEnds ==
    /\ gesture # Nowhere /\ gesture.answer # Nowhere /\ gesture.waits = 0
    /\ gesture' = Nowhere
    /\ LET failed == gesture.answer = "failed"
       IN  CASE gesture.kind \in AtOnce    -> AfterSite(failed)
             [] gesture.kind = "move"      -> SlotWritten(failed)
             [] gesture.kind = "take back" -> TakenBack(failed)
             [] gesture.kind = "photo"     -> PhotoAttached(failed)
    /\ UNCHANGED <<play, server, derived, chosen, queue, push, file, edits, pressed, asked, spoiled>>

(***************************************************************************)
(* The specification.                                                       *)
(***************************************************************************)
Init ==
    /\ play \in Plays
    /\ lib = play.lib /\ minted = play.minted /\ trash = Nowhere
    /\ site = 1 /\ chosen = 1
    /\ confirmed = ToPlan(play.lib, 1)
    /\ editor = Mounted(confirmed)
    /\ ids = [load |-> 0, table |-> <<>>]
    /\ queue = <<>> /\ push = Idle /\ era = 0
    /\ load = Nowhere /\ gesture = Nowhere /\ notice = Nowhere /\ saved = "saved"
    /\ file = Nowhere /\ edits = 0 /\ pressed = 0 /\ asked = {} /\ spoiled = 0

Gestures == {"add site", "remove site", "move", "take back", "photo"}

Next ==
    \/ Edit \/ Export
    \/ Begin \/ Land \/ Spoil \/ Answer
    \/ Fetch \/ Adopt
    \/ GestureLands \/ GestureEnds
    \/ Reload \/ ChooseSite
    \/ \E kind \in Gestures : Press(kind)

Spec == Init /\ [][Next]_vars

(***************************************************************************)
(* Properties.                                                              *)
(***************************************************************************)
Quiet == queue = <<>> /\ load = Nowhere /\ gesture = Nowhere /\ editor # Nowhere

(* When everything has come to rest and the indicator reads "saved", the    *)
(* library holds what is drawn: nothing missing, nothing twice, every       *)
(* section where it stands and of the shape it has.                         *)
SavedMeansSaved ==
    Quiet /\ saved = "saved" /\ "lost half way" \notin play.faults
        => OnServer(Drawing(editor.now), ids.table) = ToPlan(lib, site)

(* A request never carries an id the session made up: whatever it names has *)
(* been learned from the server by then, also across a re-derive.           *)
OnlyServerIdsOnTheWire ==
    push # Idle => \A id \in ToSet(push.out.names) \ {Nowhere} : id[1] = "row"

Removals == {"room.remove", "case.remove", "section.remove"}

(* Nothing is deleted but what the owner took out of the drawing the push   *)
(* is about: no re-derive, refusal or lost request turns into a delete.     *)
NothingIsDestroyedUnasked ==
    push # Idle /\ push.out.kind \in Removals => <<push.ids.load, push.out.id>> \in asked
=============================================================================
