---------------------------- MODULE LibraryMerge ----------------------------
(***************************************************************************)
(* Merging one library into another and retiring it, beside the server.     *)
(*                                                                         *)
(* The tool looks, copies the photographs into the target's tree, checks    *)
(* them, looks again, moves every row in one transaction and only then      *)
(* purges the source's tree.  Its looks are queries of their own: the       *)
(* transaction begins at its first write.  It may die at any step and be    *)
(* run again.                                                              *)
(*                                                                         *)
(* Books of one title collide.  A filed photograph stands for the shelf it  *)
(* is on too; an answer is a decision or an open question, and stays with   *)
(* its library.  Left out: the map's tables, reads and their crops, which   *)
(* move as the rest do; the journal, which is dropped; books removed.       *)
(***************************************************************************)
EXTENDS Naturals, FiniteSetsExt

CONSTANTS
    Absent, Idle, Src, Dst,
    Books, Copies, Photos, Images,
    Title, WorkOf,         \* what a book is a record of, what a copy is a copy of
    ImageOf,               \* a filed photograph's file
    MaxRequests, MaxRuns,
    Plays                  \* the worlds to begin with, and what goes on beside the merge

Libs == {Src, Dst}

Files    == [sound : BOOLEAN, old : BOOLEAN]
BookRows == [lib : Libs, noted : BOOLEAN]
CopyRows == [book : Books, position : Nat]

(* A library is sound before the merge: a title once, copies of their       *)
(* book's work in one order, the file of every row there and whole.         *)
SoundWorld(w, uploads) ==
    /\ w.book \in [Books -> BookRows \cup {Absent}]
    /\ w.copy \in [Copies -> CopyRows \cup {Absent}]
    /\ w.photo \in [Photos -> Libs \cup {Absent}]
    /\ w.tree \in [Libs -> UNION {[S -> Files] : S \in SUBSET Images}]
    /\ \A b, d \in Books :
          b # d /\ w.book[b] # Absent /\ w.book[d] # Absent /\ w.book[b].lib = w.book[d].lib
            => Title[b] # Title[d]
    /\ \A c \in Copies : w.copy[c] # Absent =>
          w.book[w.copy[c].book] # Absent /\ Title[w.copy[c].book] = WorkOf[c]
    /\ \A c, d \in Copies :
          c # d /\ w.copy[c] # Absent /\ w.copy[d] # Absent /\ w.copy[c].book = w.copy[d].book
            => w.copy[c].position # w.copy[d].position
    /\ \A p \in Photos : w.photo[p] # Absent =>
          ImageOf[p] \in DOMAIN w.tree[w.photo[p]] /\ w.tree[w.photo[p]][ImageOf[p]].sound
    /\ \A l \in uploads \cup {Src} : \A i \in DOMAIN w.tree[l] : w.tree[l][i].sound

ASSUME LibraryMergeAssumption ==
    /\ Src # Dst /\ Absent \notin Libs \cup BookRows \cup CopyRows
    /\ Copies \subseteq Nat /\ IsFiniteSet(Copies)
    /\ ImageOf \in [Photos -> Images]
    /\ \A p \in Plays : p.uploads \subseteq Libs /\ SoundWorld(p.world, p.uploads)

VARIABLES
    play,
    libraries,
    book,       \* [lib, noted]: its library, and whether it carries a note or a rating
    copy,       \* [book, position]
    photo,      \* the library whose row names it
    answers,    \* the libraries with a recorded answer
    tree,       \* per library, its files: [sound, old]
    tool, request, collector,
    begun, runs,
    late, saved \* history: files put into the source's tree after the tool listed it;
                \* the copies that were ever saved

rows   == <<libraries, book, copy, photo, answers>>
vars   == <<play, rows, tree, tool, request, collector, begun, runs, late, saved>>

Kept(b)     == book[b] # Absent
BooksOf(l)  == {b \in Books : Kept(b) /\ book[b].lib = l}
CopiesOf(b) == {c \in Copies : copy[c] # Absent /\ copy[c].book = b}
Named(l)    == {ImageOf[p] : p \in {q \in Photos : photo[q] = l}}

(***************************************************************************)
(* Files.  Content addressed: a file that exists is believed and its age    *)
(* refreshed, a new one is whole.                                          *)
(***************************************************************************)
WithoutTouch(files, i) ==
    [k \in DOMAIN files \cup {i} |->
        IF k \in DOMAIN files THEN files[k] ELSE [sound |-> TRUE, old |-> FALSE]]
WithPut(files, i) ==
    [k \in DOMAIN files \cup {i} |->
        IF k # i THEN files[k]
        ELSE [sound |-> i \in DOMAIN files => files[i].sound, old |-> FALSE]]

Without(files, I) == [i \in DOMAIN files \ I |-> files[i]]

(* A day goes by, and nothing else.                                         *)
Age ==
    /\ tool = Idle /\ request = Idle /\ collector = Idle
    /\ tree' = [l \in Libs |-> [i \in DOMAIN tree[l] |-> [tree[l][i] EXCEPT !.old = TRUE]]]
    /\ tree' # tree
    /\ UNCHANGED <<play, rows, tool, request, collector, begun, runs, late, saved>>

BeginCollect == \E l \in libraries :
    /\ collector = Idle
    /\ collector' = [lib |-> l, named |-> Named(l)]
    /\ UNCHANGED <<play, rows, tree, tool, request, begun, runs, late, saved>>

Orphans == {i \in DOMAIN tree[collector.lib] \ collector.named : tree[collector.lib][i].old}
Collect ==
    /\ collector # Idle
    /\ tree' = [tree EXCEPT ![collector.lib] = Without(@, Orphans)]
    /\ collector' = Idle
    /\ UNCHANGED <<play, rows, tool, request, begun, runs, late, saved>>

(* The merge has listed the photographs; it is between its last look at the *)
(* books and its first write.                                               *)
Listed  == tool # Idle /\ tool.at \notin {"answers", "fields", "list"}
Looking == tool # Idle /\ tool.at \in {"pair", "first", "commit"}

(***************************************************************************)
(* The server: a request finds its library, then writes to it.              *)
(***************************************************************************)
Asks(new) ==
    /\ request = Idle /\ begun < MaxRequests
    /\ begun' = begun + 1
    /\ request' = new
    /\ UNCHANGED <<play, rows, tree, tool, collector, runs, late, saved>>

(* The photograph's bytes, then its row.                                    *)
BeginFile == \E l \in play.uploads \cap libraries, p \in Photos :
    /\ photo[p] = Absent
    /\ Asks([kind |-> "file", lib |-> l, photo |-> p, stored |-> FALSE])

StorePhoto ==
    /\ request # Idle /\ request.kind = "file" /\ ~request.stored
    /\ tree' = [tree EXCEPT ![request.lib] = WithPut(@, ImageOf[request.photo])]
    /\ late' = IF request.lib = Src /\ Listed THEN late \cup ({ImageOf[request.photo]} \ DOMAIN tree[Src])
               ELSE late
    /\ request' = [request EXCEPT !.stored = TRUE]
    /\ UNCHANGED <<play, rows, tool, collector, begun, runs, saved>>

Answered == request' = Idle /\ UNCHANGED <<play, libraries, tree, tool, collector, begun, runs, late>>

(* Refused where the shelf has left the library.                            *)
FilePhoto ==
    /\ request # Idle /\ request.kind = "file" /\ request.stored
    /\ photo' = IF request.lib \in libraries THEN [photo EXCEPT ![request.photo] = request.lib] ELSE photo
    /\ Answered /\ UNCHANGED <<book, copy, answers, saved>>

(* A book's aggregate, read, changed and written whole: a note on it, or a  *)
(* copy after its last.                                                     *)
Before(c, d) == \/ copy[c].position < copy[d].position
                \/ copy[c].position = copy[d].position /\ c < d
InOrder(b)   == [c \in CopiesOf(b) |-> Cardinality({d \in CopiesOf(b) : Before(d, c)})]
WithLast(b, c) ==
    [d \in CopiesOf(b) \cup {c} |->
        IF d \in CopiesOf(b) THEN InOrder(b)[d] ELSE Cardinality(CopiesOf(b))]

BeginEdit == \E b \in Books :
    /\ play.edits /\ Kept(b) /\ book[b].lib \in libraries
    /\ \/ Asks([kind |-> "edit", lib |-> book[b].lib, book |-> b, noted |-> TRUE,
                copies |-> InOrder(b)])
       \/ \E c \in {d \in Copies \ saved : WorkOf[d] = Title[b]} :
            Asks([kind |-> "edit", lib |-> book[b].lib, book |-> b, noted |-> book[b].noted,
                  copies |-> WithLast(b, c)])

(* It replaces the row of its own library; the key of another row, or a     *)
(* copy of another book's, refuses it.                                      *)
SaveBook ==
    /\ request # Idle /\ request.kind = "edit"
    /\ play.hasty \/ ~Looking
    /\ LET b       == request.book
           mine    == Kept(b) /\ book[b].lib = request.lib
           elsewhere(c) == copy[c] # Absent /\ ~(mine /\ copy[c].book = b)
           refused ==
             \/ Kept(b) /\ ~mine
             \/ \E c \in DOMAIN request.copies : elsewhere(c)
             \/ \E d \in BooksOf(request.lib) \ {b} : Title[d] = Title[b]
       IN  IF refused THEN UNCHANGED <<book, copy, saved>>
           ELSE /\ book' = [book EXCEPT ![b] = [lib |-> request.lib, noted |-> request.noted]]
                /\ copy' = [c \in Copies |->
                     IF c \in DOMAIN request.copies
                     THEN [book |-> b, position |-> request.copies[c]]
                     ELSE IF c \in CopiesOf(b) THEN Absent ELSE copy[c]]
                /\ saved' = saved \cup DOMAIN request.copies
    /\ Answered /\ UNCHANGED <<photo, answers>>

BeginAnswer == \E l \in libraries :
    /\ play.answers
    /\ Asks([kind |-> "answer", lib |-> l])

SaveAnswer ==
    /\ request # Idle /\ request.kind = "answer"
    /\ answers' = answers \cup {request.lib}
    /\ Answered /\ UNCHANGED <<book, copy, photo, saved>>

ClearAnswer == \E l \in answers :
    /\ play.answers /\ answers' = answers \ {l}
    /\ UNCHANGED <<play, libraries, book, copy, photo, tree, tool, request, collector, begun, runs, late, saved>>

(***************************************************************************)
(* The tool.                                                                *)
(***************************************************************************)
Tool(at)   == tool # Idle /\ tool.at = at
Goes(new)  == tool' = new /\ UNCHANGED <<play, request, collector, begun>>
To(at)     == [tool EXCEPT !.at = at]
Looks(new) == Goes(new) /\ UNCHANGED <<rows, tree, runs, late, saved>>

Collisions == {pair \in BooksOf(Src) \X BooksOf(Dst) : Title[pair[1]] = Title[pair[2]]}

(* It refuses a library that is not there, and one of another account.      *)
BeginMerge ==
    /\ tool = Idle /\ runs < MaxRuns
    /\ libraries = Libs /\ play.account[Src] = play.account[Dst]
    /\ runs' = runs + 1
    /\ Goes([at |-> "answers", todo |-> {}, copied |-> {}, pairs |-> {}, first |-> <<>>, base |-> 0, list |-> <<>>])
    /\ UNCHANGED <<rows, tree, late, saved>>

CheckAnswers ==
    /\ Tool("answers")
    /\ Looks(IF Src \in answers THEN Idle ELSE To("fields"))

CheckFields ==
    /\ Tool("fields")
    /\ Looks(IF \E pair \in Collisions : book[pair[1]].noted THEN Idle ELSE To("list"))

ListPhotos ==
    /\ Tool("list")
    /\ Goes([To("copy") EXCEPT !.todo = DOMAIN tree[Src]])
    /\ late' = {}
    /\ UNCHANGED <<rows, tree, runs, saved>>

CopyPhoto ==
    /\ Tool("copy")
    /\ \E i \in tool.todo :
        LET there == i \in DOMAIN tree[Src]
        IN  /\ Goes([tool EXCEPT !.todo = @ \ {i}, !.copied = IF there THEN @ \cup {i} ELSE @])
            /\ tree' = IF there THEN [tree EXCEPT ![Dst] = WithPut(@, i)] ELSE tree
    /\ UNCHANGED <<rows, runs, late, saved>>

Sound(i) == i \in DOMAIN tree[Dst] /\ tree[Dst][i].sound
VerifyPhotos ==
    /\ Tool("copy") /\ tool.todo = {}
    /\ Looks(IF \A i \in tool.copied : Sound(i) THEN To("recheck") ELSE Idle)

Recheck ==
    /\ Tool("recheck")
    /\ Looks(IF Src \in answers THEN Idle ELSE To("pair"))

(* Books of one title, one pair after the other; the first is looked at     *)
(* before anything is written.                                              *)
Pair ==
    /\ Tool("pair")
    /\ \/ Collisions = {} /\ Looks([To("commit") EXCEPT !.pairs = {}])
       \/ \E pair \in Collisions :
            Looks([tool EXCEPT !.at = "first", !.pairs = Collisions, !.first = pair])

(* A source book's copies in their order, after the target's own.           *)
AsTheyWere(b) == 0
Base(b) == IF CopiesOf(b) = {} THEN 0 ELSE Max({copy[c].position : c \in CopiesOf(b)}) + 1

FirstCopies ==
    /\ Tool("first")
    /\ Looks([tool EXCEPT !.at = "commit", !.base = Base(tool.first[2]),
                          !.list = InOrder(tool.first[1])])

(* What the copies of colliding books become: the first book's as they were *)
(* listed before the transaction, the others' as they are in it.            *)
Placed(pair) ==
    LET list == IF pair = tool.first THEN tool.list ELSE InOrder(pair[1])
        base == IF pair = tool.first THEN tool.base ELSE Base(pair[2])
    IN  [c \in DOMAIN list |-> [book |-> pair[2], position |-> base + list[c]]]

Collided == {pair[1] : pair \in tool.pairs}
Reparented(c) ==
    LET moves == {pair \in tool.pairs : c \in DOMAIN Placed(pair)}
    IN  IF copy[c] = Absent THEN Absent
        ELSE IF moves # {} THEN Placed(CHOOSE pair \in moves : TRUE)[c]
        ELSE IF copy[c].book \in Collided THEN Absent ELSE copy[c]

(* One title twice in the target, met only now; an answer left behind.      *)
TitleTwice == \E pair \in Collisions : pair[1] \notin Collided
MovedAll   == FALSE
LeftBehind == Src \in answers

Commit ==
    /\ Tool("commit")
    /\ play.overtaken \/ request = Idle
    /\ IF TitleTwice \/ LeftBehind THEN tool' = Idle /\ UNCHANGED rows
       ELSE /\ tool' = To("purge")
            /\ libraries' = libraries \ {Src}
            /\ copy' = [c \in Copies |-> Reparented(c)]
            /\ book' = [b \in Books |->
                 IF b \in Collided THEN Absent
                 ELSE IF b \in BooksOf(Src) THEN [book[b] EXCEPT !.lib = Dst] ELSE book[b]]
            /\ photo' = [p \in Photos |-> IF photo[p] = Src THEN Dst ELSE photo[p]]
            /\ UNCHANGED answers
    /\ UNCHANGED <<play, tree, request, collector, begun, runs, late, saved>>

Purge ==
    /\ Tool("purge")
    /\ \/ \E i \in DOMAIN tree[Src] :
            tree' = [tree EXCEPT ![Src] = Without(@, {i})] /\ tool' = tool
       \/ DOMAIN tree[Src] = {} /\ tool' = Idle /\ UNCHANGED tree
    /\ UNCHANGED <<play, rows, request, collector, begun, runs, late, saved>>

Die ==
    /\ tool # Idle
    /\ tool' = Idle
    /\ UNCHANGED <<play, rows, tree, request, collector, begun, runs, late, saved>>

-----------------------------------------------------------------------------
Init ==
    /\ play \in Plays
    /\ libraries = Libs
    /\ book = play.world.book /\ copy = play.world.copy /\ photo = play.world.photo
    /\ answers = {} /\ tree = play.world.tree
    /\ tool = Idle /\ request = Idle /\ collector = Idle
    /\ begun = 0 /\ runs = 0 /\ late = {} /\ saved = {c \in Copies : copy[c] # Absent}

Server == BeginFile \/ StorePhoto \/ FilePhoto \/ BeginEdit \/ SaveBook \/ BeginAnswer \/ SaveAnswer \/ ClearAnswer
Gc     == Age \/ BeginCollect \/ Collect
Merge  ==
    \/ BeginMerge \/ CheckAnswers \/ CheckFields \/ ListPhotos \/ CopyPhoto \/ VerifyPhotos
    \/ Recheck \/ Pair \/ FirstCopies \/ Commit \/ Purge \/ Die

Next == Server \/ Gc \/ Merge
Spec == Init /\ [][Next]_vars
-----------------------------------------------------------------------------
(* A photograph a row names is in its library's tree, whole: wherever the   *)
(* merge stops or dies, beside collections of either tree and old leftovers *)
(* of an earlier try.  Not so for one stored after the source was listed:   *)
(* its row moves, its file is purged.                                       *)
NamedPhotosResolve ==
    \A p \in Photos : photo[p] # Absent =>
        LET files == tree[photo[p]]
        IN  ImageOf[p] \notin late => ImageOf[p] \in DOMAIN files /\ files[ImageOf[p]].sound

(* No copy once saved is lost or leaves the work it is a copy of, and the   *)
(* copies of a book stand in one order: whatever is edited while the merge  *)
(* copies photographs, but for the instant between its last look at the     *)
(* books and its first write.                                               *)
CopiesKeepTheirWork ==
    ~play.hasty /\ ~play.overtaken =>
        /\ \A c \in saved : copy[c] # Absent /\ Title[copy[c].book] = WorkOf[c]
        /\ \A c, d \in saved :
             c # d /\ copy[c].book = copy[d].book => copy[c].position # copy[d].position

(* Every row, an answer among them, names a library that exists: one given  *)
(* while the photographs are copied stops the merge, even between its last  *)
(* look and its first write.                                                *)
NoRowIsStranded ==
    ~play.overtaken =>
        /\ answers \subseteq libraries
        /\ \A b \in Books : Kept(b) => book[b].lib \in libraries
        /\ \A p \in Photos : photo[p] \in libraries \cup {Absent}
=============================================================================
