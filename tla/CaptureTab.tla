----------------------------- MODULE CaptureTab -----------------------------
(***************************************************************************)
(* One browser tab that photographs shelves and reads them: the intake      *)
(* rows, one panel for each row of books being read, and the workspace of   *)
(* an opened photograph, all kept by requests that answer later.            *)
(*                                                                         *)
(* A request on the `wire` holds what was known when it was sent and the    *)
(* continuation (`then`) its answer is for.  `play.fifo` says whether       *)
(* requests are served and answered in the order they were sent, or in any  *)
(* order; `play.hasty`, whether the owner presses on before an answer:      *)
(* starts a read while another start or an answer is out, opens another     *)
(* photograph while a finding of this one is being decided, or another read *)
(* while the reads or the diff of the last are out.  The n-th photograph    *)
(* filed is capture n, the n-th read is read n.                             *)
(*                                                                         *)
(* Abstracted: a diff is the facts decided about a read so far; progress,   *)
(* spinners, the words of an error and the mode of a read are left out, and *)
(* a read that stopped or failed is done like any other.                    *)
(* Listing the shelves one by one is one request.  The server stands for    *)
(* the routers it calls.                                                    *)
(***************************************************************************)
EXTENDS Integers, SequencesExt, FiniteSetsExt, Functions, TLC

CONSTANTS
    Nothing,
    Claims,          \* what a read finds
    MaxReads,        \* reads of the library; the rate refuses more
    MaxWire,         \* requests out before the owner presses on
    Plays            \* what is there, what the owner does, and what may fail

VARIABLES
    play,
    captures, deep, reads,                    \* the server: photographs, rows of each shelf, reads
    items, selected, shelves, panels, desk,   \* the tab
    wire,
    presses, faults, reloads,
    hand             \* history: the screen whose request last changed each read

server == <<captures, deep, reads, hand>>
tab    == <<items, selected, shelves, panels, desk>>
budget == <<play, presses, faults, reloads>>
vars   == <<server, tab, wire, budget>>

Can(kind) == kind \in play.kinds

Fresh(key, read, status) ==
    [shelf |-> key[1], read |-> read, status |-> status, diff |-> Nothing,
     busy |-> {}, failed |-> FALSE, refused |-> FALSE]

Put(f, key, value) == [x \in DOMAIN f \cup {key} |-> IF x = key THEN value ELSE f[x]]

(* The workspace, just opened for photograph c.                             *)
Opened(c, busy) == [want |-> c, rows |-> <<>>, open |-> 0, diff |-> Nothing,
                    failed |-> FALSE, busy |-> busy]

(***************************************************************************)
(* The wire.                                                                *)
(***************************************************************************)
Request(then, call) == [then |-> then, call |-> call, rest |-> <<>>, answer |-> Nothing]
Script(then, calls) == [Request(then, Head(calls)) EXCEPT !.rest = Tail(calls)]

Call(do, shelf, read, what) == [do |-> do, shelf |-> shelf, read |-> read, what |-> what]
Decide(shelf, read, facts) == Call("decide", shelf, read, facts)
Look(shelf, read)          == Call("diff", shelf, read, {})

Arrived(then, i) ==
    /\ wire[i].then[1] = then
    /\ wire[i].answer # Nothing
    /\ play.fifo => i = 1

Landed(i) == wire[i].answer.ok
After(i, requests) == wire' = RemoveAt(wire, i) \o requests

Press(kind) ==
    /\ Can(kind) /\ presses < play.presses /\ Len(wire) < MaxWire
    /\ presses' = presses + 1
    /\ UNCHANGED <<server, play, faults, reloads>>
Send(requests) == wire' = wire \o requests

(***************************************************************************)
(* The server: each action serves one request that is still unanswered.     *)
(***************************************************************************)
Ok(value) == [ok |-> TRUE, capped |-> FALSE, value |-> value]
Refused   == [ok |-> FALSE, capped |-> FALSE, value |-> Nothing]
Capped    == [ok |-> FALSE, capped |-> TRUE, value |-> Nothing]

Row(r) == [read |-> r, shelf |-> reads[r].shelf, depth |-> reads[r].depth, status |-> reads[r].status]
(* The newest first.                                                        *)
Rows(some) ==
    LET order == SetToSortSeq(some, >)
    IN  [n \in DOMAIN order |-> Row(order[n])]

Known(call) ==
    /\ call.read \in DOMAIN reads
    /\ reads[call.read].shelf = call.shelf
IsSettled(call) == Known(call) /\ reads[call.read].status # "running"

Asked(i, does) ==
    /\ wire[i].answer = Nothing
    /\ play.fifo => \A j \in 1 .. i - 1 : wire[j].answer # Nothing
    /\ wire[i].call.do = does
Reply(i, answer) ==
    /\ wire' = [wire EXCEPT ![i].answer = answer]
    /\ UNCHANGED <<tab, budget>>

ServeShelves == \E i \in DOMAIN wire :
    /\ Asked(i, "shelves")
    /\ Reply(i, Ok(DOMAIN deep))
    /\ UNCHANGED server

ServeListing == \E i \in DOMAIN wire :
    /\ Asked(i, "listing")
    /\ LET asked == wire[i].call.what
       IN  Reply(i, Ok([captures |-> Restrict(captures, {c \in DOMAIN captures :
                                                 captures[c].shelf \in asked}),
                        rows |-> Rows({r \in DOMAIN reads : reads[r].shelf \in asked})]))
    /\ UNCHANGED server

(* A photograph filed without a shelf gets a fresh one, of one row.         *)
ServeFile == \E i \in DOMAIN wire :
    /\ Asked(i, "file")
    /\ deep' = Append(deep, 1)
    /\ captures' = Append(captures, [shelf |-> Len(deep) + 1, depth |-> 1])
    /\ Reply(i, Ok([capture |-> Len(captures) + 1, shelf |-> Len(deep) + 1, depth |-> 1]))
    /\ UNCHANGED <<reads, hand>>

(* An undeclared row is refused, never clamped.                             *)
ServePatch == \E i \in DOMAIN wire :
    LET to == wire[i].call.what
        shelf == IF to.shelf = 0 THEN captures[to.capture].shelf ELSE to.shelf
    IN  /\ Asked(i, "patch")
        /\ IF to.depth <= deep[shelf]
           THEN /\ captures' = [captures EXCEPT ![to.capture] = [shelf |-> shelf, depth |-> to.depth]]
                /\ Reply(i, Ok([to EXCEPT !.shelf = shelf]))
           ELSE Reply(i, Refused) /\ UNCHANGED captures
        /\ UNCHANGED <<deep, reads, hand>>

(* A read takes the photographs that stand at its row as it starts; a small *)
(* engine may be done before the answer.                                    *)
ServeStart == \E i \in DOMAIN wire :
    LET call == wire[i].call
        of == {c \in DOMAIN captures : captures[c] = [shelf |-> call.shelf, depth |-> call.what]}
    IN  /\ Asked(i, "start")
        /\ \/ /\ of = {}
              /\ Reply(i, Refused) /\ UNCHANGED <<reads, hand>>
           \/ /\ of # {} /\ Len(reads) = MaxReads
              /\ Reply(i, Capped) /\ UNCHANGED <<reads, hand>>
           \/ /\ of # {} /\ Len(reads) < MaxReads
              /\ \E status \in {"running", "done"} :
                    /\ reads' = Append(reads, [shelf |-> call.shelf, depth |-> call.what, of |-> of,
                                               status |-> status, facts |-> {}])
                    /\ Reply(i, Ok([read |-> Len(reads) + 1, status |-> status]))
              /\ hand' = Append(hand, Nothing)
        /\ UNCHANGED <<captures, deep>>

ServeRead == \E i \in DOMAIN wire :
    /\ Asked(i, "read")
    /\ Reply(i, IF Known(wire[i].call) THEN Ok(reads[wire[i].call.read].status) ELSE Refused)
    /\ UNCHANGED server

(* Stopping is accepted now and honoured whenever the read comes to it.     *)
ServeStop == \E i \in DOMAIN wire :
    /\ Asked(i, "stop")
    /\ Reply(i, IF Known(wire[i].call) THEN Ok(Nothing) ELSE Refused)
    /\ UNCHANGED server

Settle == \E r \in DOMAIN reads :
    /\ reads[r].status = "running"
    /\ reads' = [reads EXCEPT ![r].status = "done"]
    /\ UNCHANGED <<captures, deep, hand, tab, wire, budget>>

ServeHistory == \E i \in DOMAIN wire :
    /\ Asked(i, "history")
    /\ Reply(i, Ok(Rows({r \in DOMAIN reads : wire[i].call.what \in reads[r].of})))
    /\ UNCHANGED server

(* What changes the facts of a read, and every answer with a diff.          *)
ServeDiff == \E i \in DOMAIN wire : \E does \in {"diff", "decide", "take back", "book"} :
    LET call == wire[i].call
        was  == reads[call.read].facts
        facts == IF does = "take back" THEN was \ call.what ELSE was \cup call.what
    IN  /\ Asked(i, does)
        /\ IF IsSettled(call)
           THEN /\ reads' = [reads EXCEPT ![call.read].facts = facts]
                /\ hand' = [hand EXCEPT ![call.read] = IF facts = was THEN @ ELSE wire[i].then[1]]
                /\ Reply(i, Ok([read |-> call.read, facts |-> facts]))
           ELSE Reply(i, Refused) /\ UNCHANGED <<reads, hand>>
        /\ UNCHANGED <<captures, deep>>

(* A request that never arrives, an answer that never returns.              *)
Lose == \E i \in DOMAIN wire :
    /\ faults < play.faults
    /\ wire[i].answer # Nothing => Landed(i)
    /\ wire' = [wire EXCEPT ![i].answer = Refused]
    /\ faults' = faults + 1
    /\ UNCHANGED <<server, tab, play, presses, reloads>>

(***************************************************************************)
(* Opening the tab: the rows of photographs and the running reads are       *)
(* rebuilt from the server, once.                                           *)
(***************************************************************************)
Unopened ==
    /\ items' = <<>> /\ selected' = {} /\ shelves' = {} /\ panels' = <<>>
    /\ desk' = Opened(Nothing, {})
Ask == Request(<<"shelves">>, Call("shelves", 0, 0, {}))

(* The browser forgets the tab and opens it again; what was sent still      *)
(* arrives.                                                                 *)
Reload ==
    /\ reloads < play.reloads
    /\ reloads' = reloads + 1
    /\ Unopened
    /\ wire' = [i \in DOMAIN wire |-> [wire[i] EXCEPT !.then = <<"nobody">>]] \o <<Ask>>
    /\ UNCHANGED <<server, play, presses, faults>>

Forgotten == \E i \in DOMAIN wire :
    /\ Arrived("nobody", i)
    /\ After(i, <<>>)
    /\ UNCHANGED <<server, tab, budget>>

RefreshShelves == \E i \in DOMAIN wire :
    /\ Arrived("shelves", i)
    /\ shelves' = IF Landed(i) THEN wire[i].answer.value ELSE shelves
    /\ After(i, IF Landed(i) /\ wire[i].answer.value # {}
                THEN <<Request(<<"listed">>, Call("listing", 0, 0, wire[i].answer.value))>>
                ELSE <<>>)
    /\ UNCHANGED <<server, items, selected, panels, desk, budget>>

Tracked == {items[n].capture : n \in DOMAIN items}
Rebuilt(c, at, rows) ==
    LET of == SelectSeq(rows, LAMBDA row : row.shelf = at.shelf /\ row.depth = at.depth)
    IN  [file |-> FALSE, status |-> "ready", capture |-> c, shelf |-> at.shelf, depth |-> at.depth,
         stage |-> IF of = <<>> THEN "unread" ELSE IF of[1].status = "running" THEN "queued" ELSE "done"]

(* The latest reads of their rows that still run, by row.                   *)
Reattached(rows) ==
    LET latest == {n \in DOMAIN rows : \A m \in 1 .. n - 1 :
                      <<rows[m].shelf, rows[m].depth>> # <<rows[n].shelf, rows[n].depth>>}
        running == {n \in latest : rows[n].status = "running"}
    IN  [key \in {<<rows[n].shelf, rows[n].depth>> : n \in running} |->
            Fresh(key, rows[CHOOSE n \in running : <<rows[n].shelf, rows[n].depth>> = key].read, "running")]

Hydrate == \E i \in DOMAIN wire :
    /\ Arrived("listed", i)
    /\ LET found == IF Landed(i) THEN wire[i].answer.value ELSE [captures |-> <<>>, rows |-> <<>>]
           new == SetToSortSeq(DOMAIN found.captures \ Tracked, <)
       IN  /\ items' = items \o [n \in DOMAIN new |-> Rebuilt(new[n], found.captures[new[n]], found.rows)]
           /\ panels' = panels @@ Reattached(found.rows)
    /\ After(i, <<>>)
    /\ UNCHANGED <<server, selected, shelves, desk, budget>>

(***************************************************************************)
(* The rows of photographs.                                                 *)
(***************************************************************************)
Changed(n, item) == items' = [items EXCEPT ![n] = item]
Upload(n) == Request(<<"uploaded", n>>, Call("file", 0, 0, {}))

AddFiles ==
    /\ Press("upload")
    /\ items' = Append(items, [file |-> TRUE, status |-> "uploading", capture |-> Nothing,
                               shelf |-> 0, depth |-> 1, stage |-> "unread"])
    /\ Send(<<Upload(Len(items) + 1)>>)
    /\ UNCHANGED <<selected, shelves, panels, desk>>

RetryItem == \E n \in DOMAIN items :
    /\ Press("upload")
    /\ items[n].status = "error" /\ items[n].file
    /\ Changed(n, [items[n] EXCEPT !.status = "uploading"])
    /\ Send(<<Upload(n)>>)
    /\ UNCHANGED <<selected, shelves, panels, desk>>

(* A photograph just filed starts selected.                                 *)
Uploaded == \E i \in DOMAIN wire :
    LET n == wire[i].then[2]
        bound == wire[i].answer.value
    IN  /\ Arrived("uploaded", i)
        /\ IF Landed(i)
           THEN /\ Changed(n, [items[n] EXCEPT !.status = "ready", !.capture = bound.capture,
                                               !.shelf = bound.shelf, !.depth = bound.depth])
                /\ shelves' = shelves \cup {bound.shelf}
                /\ selected' = selected \cup {n}
           ELSE Changed(n, [items[n] EXCEPT !.status = "error"]) /\ UNCHANGED <<shelves, selected>>
        /\ After(i, <<>>)
        /\ UNCHANGED <<server, panels, desk, budget>>

Patch(n, shelf, depth) ==
    /\ items[n].capture # Nothing
    /\ Send(<<Request(<<"moved", n>>,
              Call("patch", 0, 0, [capture |-> items[n].capture, shelf |-> shelf, depth |-> depth]))>>)
    /\ UNCHANGED tab

(* To another shelf, always at its front row; 0 is the shelf it is on.      *)
AssignShelf == \E n \in DOMAIN items, shelf \in shelves :
    Press("move") /\ Patch(n, shelf, 1)
AssignDepth == \E n \in DOMAIN items, depth \in 1 .. 2 :
    Press("row") /\ Patch(n, 0, depth)

Moved == \E i \in DOMAIN wire :
    /\ Arrived("moved", i)
    /\ items' = IF Landed(i)
                THEN [items EXCEPT ![wire[i].then[2]].shelf = wire[i].answer.value.shelf,
                                   ![wire[i].then[2]].depth = wire[i].answer.value.depth]
                ELSE items
    /\ After(i, <<>>)
    /\ UNCHANGED <<server, selected, shelves, panels, desk, budget>>

Ready == {n \in DOMAIN items : items[n].status = "ready"}

Select ==
    /\ Press("select")
    /\ \/ \E n \in Ready : selected' = SymDiff(selected, {n})          \* toggleSelect
       \/ selected' = Ready                                             \* selectAll
       \/ selected' = {}                                                \* selectNone
       \/ selected' = {n \in Ready : items[n].stage = "unread"}         \* selectUnread
    /\ UNCHANGED <<items, shelves, panels, desk, wire>>

(***************************************************************************)
(* The reads and their panels.                                              *)
(***************************************************************************)
Commit(key, shelf, read) == Request(<<"committed", key>>, Decide(shelf, read, {<<"committed", Nothing>>}))

(* The rows the selection touches that nothing reads yet, in order.         *)
Wanted ==
    {n \in Ready \cap selected :
        LET key == <<items[n].shelf, items[n].depth>>
        IN  /\ key \in DOMAIN panels => panels[key].status # "running"
            /\ \A m \in (1 .. n - 1) \cap Ready \cap selected :
                  <<items[m].shelf, items[m].depth>> # key}
PendingGroups == [g \in 1 .. Cardinality(Wanted) |->
                     LET n == SetToSortSeq(Wanted, <)[g] IN <<items[n].shelf, items[n].depth>>]

StartGroup(groups) ==
    IF groups = <<>> THEN <<>>
    ELSE <<[Request(<<"started", groups[1]>>, Call("start", groups[1][1], 0, groups[1][2]))
              EXCEPT !.rest = Tail(groups)]>>

Start ==
    /\ Press("read")
    /\ play.hasty \/ \A i \in DOMAIN wire : wire[i].then[1] \notin {"started", "panel"}
    /\ PendingGroups # <<>>
    /\ desk' = Opened(Nothing, desk.busy)
    /\ Send(StartGroup(PendingGroups))
    /\ UNCHANGED <<items, selected, shelves, panels>>

Staged(key, stage) ==
    [n \in DOMAIN items |-> IF items[n].shelf = key[1] /\ items[n].depth = key[2]
                            THEN [items[n] EXCEPT !.stage = stage] ELSE items[n]]

(* One group after another; the first refusal for the rate ends the loop.   *)
Started == \E i \in DOMAIN wire :
    LET key == wire[i].then[2]
        read == wire[i].answer.value
        more == StartGroup(wire[i].rest)
    IN  /\ Arrived("started", i)
        /\ IF Landed(i)
           THEN /\ panels' = Put(panels, key, Fresh(key, read.read, read.status))
                /\ items' = Staged(key, IF read.status = "running" THEN "queued" ELSE "done")
                /\ After(i, (IF read.status = "running" THEN <<>> ELSE <<Commit(key, key[1], read.read)>>)
                            \o more)
           ELSE /\ panels' = Put(panels, key, Fresh(key, 0, "failed"))
                /\ After(i, IF wire[i].answer.capped THEN <<>> ELSE more)
                /\ UNCHANGED items
        /\ UNCHANGED <<server, selected, shelves, desk, budget>>

StopRun == \E key \in DOMAIN panels :
    /\ Press("stop")
    /\ panels[key].status = "running"
    /\ Send(<<Request(<<"nobody">>, Call("stop", key[1], panels[key].read, {}))>>)
    /\ UNCHANGED tab

Watched == {key \in DOMAIN panels : panels[key].status = "running"}

(* Every running read is asked about, however many polls are out already.   *)
PollRunning ==
    LET keys == SetToSeq(Watched)
    IN  /\ Watched # {} /\ Len(wire) < MaxWire
        /\ Send([n \in DOMAIN keys |->
                    Request(<<"polled", keys[n], panels[keys[n]].read>>,
                            Call("read", keys[n][1], panels[keys[n]].read, {}))])
        /\ UNCHANGED <<server, tab, budget>>

PolledForStatus == \E i \in DOMAIN wire :
    /\ Arrived("polled", i)
    /\ panels' = IF Landed(i) THEN [panels EXCEPT ![wire[i].then[2]].status = wire[i].answer.value]
                 ELSE panels
    /\ After(i, <<>>)
    /\ UNCHANGED <<server, items, selected, shelves, desk, budget>>
Polled == \E i \in DOMAIN wire :
    LET key == wire[i].then[2]
        status == wire[i].answer.value
        settled == Landed(i) /\ status # "running"
    IN  /\ Arrived("polled", i)
        /\ panels' = IF Landed(i)
                     THEN [panels EXCEPT ![key].status = status, ![key].failed = @ /\ ~settled]
                     ELSE panels
        /\ items' = IF settled THEN Staged(key, "done") ELSE items
        /\ After(i, IF settled THEN <<Commit(key, key[1], wire[i].then[3])>> ELSE <<>>)
        /\ UNCHANGED <<server, selected, shelves, desk, budget>>

Committed == \E i \in DOMAIN wire :
    LET key == wire[i].then[2]
    IN  /\ Arrived("committed", i)
        /\ panels' = [panels EXCEPT ![key].diff = IF Landed(i) THEN wire[i].answer.value ELSE @,
                                    ![key].failed = ~Landed(i)]
        /\ After(i, <<>>)
        /\ UNCHANGED <<server, items, selected, shelves, desk, budget>>

(***************************************************************************)
(* What is done with a finding: requests sent one after another, the last   *)
(* of which answers with the diff that is shown.                            *)
(***************************************************************************)
Confirm(shelf, read, c) == <<Decide(shelf, read, {<<"found", c>>})>>
Edit(shelf, read, c)    == <<Call("book", shelf, read, {<<"edited", c>>}), Look(shelf, read)>>
Approve(shelf, read, c) == <<Call("book", shelf, read, {<<"vouched", c>>}), Look(shelf, read)>>
Retract(shelf, read, c) == <<Decide(shelf, read, {<<"wrong", c>>})>>
Restore(shelf, read, c) == <<Call("take back", shelf, read, {<<"wrong", c>>})>>
ByHand(shelf, read, c)  == <<Decide(shelf, read, {<<"by hand", c>>})>>

Found(diff, c) == <<"found", c>> \in diff.facts
Wrong(diff, c) == <<"wrong", c>> \in diff.facts

FindingOps(diff, shelf, read, c) ==
    {ops \in {Confirm(shelf, read, c), Retract(shelf, read, c)} : ~Found(diff, c)}
    \cup {ops \in {Edit(shelf, read, c), Approve(shelf, read, c)} : Found(diff, c)}
    \cup {ops \in {Restore(shelf, read, c)} : Wrong(diff, c)}

(* The button counts what nobody vouched for: books first, then claims.     *)
Approvable(diff) ==
    [books  |-> {<<"vouched", c>> : c \in {d \in Claims : Found(diff, d)}} \ diff.facts,
     claims |-> {<<"found", d>> : d \in {e \in Claims : ~Found(diff, e) /\ ~Wrong(diff, e)}}]
ApproveAll(what, shelf, read) ==
    (IF what.books = {} THEN <<>> ELSE <<Call("book", shelf, read, what.books)>>)
    \o <<IF what.claims = {} THEN Look(shelf, read) ELSE Decide(shelf, read, what.claims)>>

Split(diff, shelf, read, c) ==
    (IF Found(diff, c) THEN Edit(shelf, read, c) ELSE Confirm(shelf, read, c))
    \o ByHand(shelf, read, c)

(* A panel is told by its key; the request names the read it showed then.   *)
OnPanel(key, busy, calls) ==
    /\ play.hasty \/ \A i \in DOMAIN wire : wire[i].then[1] # "started"
    /\ busy \notin panels[key].busy
    /\ panels' = [panels EXCEPT ![key].refused = FALSE, ![key].busy = @ \cup {busy}]
    /\ Send(<<Script(<<"panel", key, busy>>, calls)>>)
    /\ UNCHANGED <<items, selected, shelves, desk>>

AnswerClaim == \E key \in DOMAIN panels, c \in Claims :
    LET run == panels[key]
    IN  /\ Press("answer")
        /\ run.diff # Nothing /\ ~Found(run.diff, c)
        /\ OnPanel(key, c, Confirm(run.shelf, run.read, c))

FindingOnRun == \E key \in DOMAIN panels, c \in Claims :
    LET run == panels[key]
    IN  /\ Press("finding")
        /\ run.diff # Nothing
        /\ \E ops \in FindingOps(run.diff, run.shelf, run.read, c) : OnPanel(key, c, ops)

ApproveAllOnRun == \E key \in DOMAIN panels :
    LET run == panels[key]
    IN  /\ Press("all")
        /\ run.diff # Nothing
        /\ Approvable(run.diff) # [books |-> {}, claims |-> {}]
        /\ OnPanel(key, "all", ApproveAll(Approvable(run.diff), run.shelf, run.read))

PanelAnswered == \E i \in DOMAIN wire :
    LET key == wire[i].then[2]
        run == [panels[key] EXCEPT !.busy = @ \ {wire[i].then[3]}]
    IN  /\ Arrived("panel", i)
        /\ wire[i].rest = <<>> \/ ~Landed(i)
        /\ panels' = [panels EXCEPT ![key] = IF Landed(i) THEN [run EXCEPT !.diff = wire[i].answer.value]
                                             ELSE [run EXCEPT !.refused = TRUE]]
        /\ After(i, <<>>)
        /\ UNCHANGED <<server, items, selected, shelves, desk, budget>>

(***************************************************************************)
(* The workspace of one photograph.                                         *)
(***************************************************************************)
OpenImage == \E n \in Ready :
    /\ Press("open")
    /\ play.hasty \/ desk.busy = {}
    /\ \/ /\ desk.want # items[n].capture
          /\ desk' = Opened(items[n].capture, desk.busy)
          /\ Send(<<Request(<<"history", items[n].capture>>,
                            Call("history", 0, 0, items[n].capture))>>)
       \/ /\ desk.want = items[n].capture
          /\ desk' = Opened(Nothing, desk.busy)
          /\ UNCHANGED wire
    /\ UNCHANGED <<items, selected, shelves, panels>>

ShowingOver(d, row) == [d EXCEPT !.open = row.read, !.failed = FALSE]
(* Opening a read forgets the diff shown; one still running has none yet.   *)
Showing(d, row) == [d EXCEPT !.open = row.read, !.diff = Nothing, !.failed = FALSE]
ReadingOf(d, row) ==
    IF row.status = "running" THEN <<>>
    ELSE <<Request(<<"opened", d.want>>, Look(row.shelf, row.read))>>

ShowRuns == \E i \in DOMAIN wire :
    LET rows == wire[i].answer.value
        mine == desk.want = wire[i].then[2] /\ Landed(i)
        listed == [desk EXCEPT !.rows = rows]
    IN  /\ Arrived("history", i)
        /\ desk' = IF ~mine THEN desk ELSE IF rows = <<>> THEN listed ELSE Showing(listed, rows[1])
        /\ After(i, IF mine /\ rows # <<>> THEN ReadingOf(desk, rows[1]) ELSE <<>>)
        /\ UNCHANGED <<server, items, selected, shelves, panels, budget>>

OpenRun == \E n \in DOMAIN desk.rows :
    /\ Press("open")
    /\ play.hasty \/ (desk.busy = {} /\ \A i \in DOMAIN wire : wire[i].then[1] \notin {"history", "opened"})
    /\ desk' = Showing(desk, desk.rows[n])
    /\ Send(ReadingOf(desk, desk.rows[n]))
    /\ UNCHANGED <<items, selected, shelves, panels>>

(* An answer for a photograph the owner has moved on from is dropped.       *)
RunOpened == \E i \in DOMAIN wire :
    /\ Arrived("opened", i)
    /\ desk' = IF desk.want # wire[i].then[2] THEN desk
               ELSE IF Landed(i) THEN [desk EXCEPT !.diff = wire[i].answer.value]
               ELSE [desk EXCEPT !.failed = TRUE]
    /\ After(i, <<>>)
    /\ UNCHANGED <<server, items, selected, shelves, panels, budget>>

(* The read that is open, at the shelf it read.                             *)
RunOf(d) == CHOOSE row \in Range(d.rows) : row.read = d.open

OnDesk(busy, calls) ==
    /\ busy \notin desk.busy
    /\ desk' = [desk EXCEPT !.busy = @ \cup {busy}, !.failed = FALSE]
    /\ Send(<<Script(<<"desk", busy>>, calls)>>)
    /\ UNCHANGED <<items, selected, shelves, panels>>

Finding == \E c \in Claims :
    /\ Press("finding")
    /\ desk.open # 0 /\ desk.diff # Nothing
    /\ \E ops \in FindingOps(desk.diff, RunOf(desk).shelf, desk.open, c) : OnDesk(c, ops)

ApproveAllFindings ==
    /\ Press("all")
    /\ desk.open # 0 /\ desk.diff # Nothing
    /\ Approvable(desk.diff) # [books |-> {}, claims |-> {}]
    /\ OnDesk("all", ApproveAll(Approvable(desk.diff), RunOf(desk).shelf, desk.open))

AddByHand ==
    /\ Press("by hand")
    /\ desk.open # 0 /\ desk.diff # Nothing
    /\ OnDesk("add", ByHand(RunOf(desk).shelf, desk.open, Nothing))

SplitFinding == \E c \in Claims :
    /\ Press("split")
    /\ desk.open # 0 /\ desk.diff # Nothing
    /\ OnDesk(c, Split(desk.diff, RunOf(desk).shelf, desk.open, c))

DeskAnswered == \E i \in DOMAIN wire :
    LET free == [desk EXCEPT !.busy = @ \ {wire[i].then[2]}]
    IN  /\ Arrived("desk", i)
        /\ wire[i].rest = <<>> \/ ~Landed(i)
        /\ desk' = IF Landed(i) THEN [free EXCEPT !.diff = wire[i].answer.value]
                   ELSE [free EXCEPT !.failed = TRUE]
        /\ After(i, <<>>)
        /\ UNCHANGED <<server, items, selected, shelves, panels, budget>>

(* The next request of several.                                             *)
NextCall == \E i \in DOMAIN wire :
    /\ Arrived("panel", i) \/ Arrived("desk", i)
    /\ Landed(i) /\ wire[i].rest # <<>>
    /\ After(i, <<Script(wire[i].then, wire[i].rest)>>)
    /\ UNCHANGED <<server, tab, budget>>

-----------------------------------------------------------------------------
Init ==
    /\ play \in Plays
    /\ captures = play.captures /\ deep = play.deep /\ reads = play.done
    /\ hand = [r \in DOMAIN reads |-> Nothing]
    /\ items = <<>> /\ selected = {} /\ shelves = {} /\ panels = <<>>
    /\ desk = Opened(Nothing, {})
    /\ wire = <<Ask>>
    /\ presses = 0 /\ faults = 0 /\ reloads = 0

Serve ==
    \/ ServeShelves \/ ServeListing \/ ServeFile \/ ServePatch \/ ServeStart
    \/ ServeRead \/ ServeStop \/ ServeHistory \/ ServeDiff

Receive ==
    \/ Forgotten \/ RefreshShelves \/ Hydrate \/ Uploaded \/ Moved \/ Started
    \/ Polled \/ Committed \/ PanelAnswered \/ ShowRuns \/ RunOpened
    \/ DeskAnswered \/ NextCall

Owner ==
    \/ AddFiles \/ RetryItem \/ AssignShelf \/ AssignDepth \/ Select \/ Start \/ StopRun
    \/ AnswerClaim \/ FindingOnRun \/ ApproveAllOnRun
    \/ OpenImage \/ OpenRun \/ Finding \/ ApproveAllFindings \/ AddByHand \/ SplitFinding

Next == Serve \/ Receive \/ Settle \/ Lose \/ Reload \/ Owner \/ PollRunning

(* Requests are answered, answers arrive, reads settle, and the timer of a  *)
(* tab that watches a running read keeps ticking.  The owner need not act.  *)
Fairness == WF_vars(Serve) /\ WF_vars(Receive) /\ WF_vars(Settle) /\ WF_vars(PollRunning)

Spec == Init /\ [][Next]_vars /\ Fairness

-----------------------------------------------------------------------------
(* A request about a read names the shelf that read read, wherever its      *)
(* photographs stand by now; named by another it would be refused, or be    *)
(* about findings of another shelf.                                         *)
RequestsNameTheReadsShelf ==
    \A i \in DOMAIN wire :
        wire[i].call.read # 0 => Known(wire[i].call)

(* Once nothing is out, a screen that shows no error shows its own read,    *)
(* with everything that was decided about it there: the panel or the        *)
(* workspace that worked on a read last has all of it, whatever else was    *)
(* answered, approved or split in between.                                  *)
Shows(diff, read, screen) ==
    diff # Nothing => /\ diff.read = read
                      /\ hand[read] = screen => diff.facts = reads[read].facts
ScreensShowWhatWasDecided ==
    play.fifo /\ wire = <<>> =>
        /\ \A key \in DOMAIN panels :
              ~panels[key].failed /\ ~panels[key].refused
                => Shows(panels[key].diff, panels[key].read, "panel")
        /\ ~desk.failed /\ desk.open # 0 => Shows(desk.diff, desk.open, "desk")

(* A read watched by a panel comes to its diff or to an error in it, unless *)
(* another read takes the panel or the tab is opened anew.                  *)
WatchedReadsAreShown ==
    \A r \in 1 .. MaxReads :
        LET on == {key \in DOMAIN panels : panels[key].read = r}
        IN  (play.fifo /\ on \cap Watched # {})
              ~> \A key \in on : panels[key].failed \/ panels[key].diff # Nothing

(* What is asked names the right shelf, and what is answered is shown.      *)
TheTabIsTrue == RequestsNameTheReadsShelf /\ ScreensShowWhatWasDecided
=============================================================================
