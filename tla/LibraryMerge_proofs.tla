------------------------- MODULE LibraryMerge_proofs -------------------------
(***************************************************************************)
(* What the merge of two libraries promises, for any sound libraries, any   *)
(* requests beside it and any number of tries: named photographs resolve,   *)
(* copies keep their work and their order, and no row is stranded.          *)
(***************************************************************************)
EXTENDS LibraryMerge, FiniteSetTheorems, WellFoundedInduction, TLAPS
-----------------------------------------------------------------------------
(* Finite maps. *)
Maps(D, V) == UNION {[S -> V] : S \in SUBSET D}

Filings   == [kind : {"file"}, lib : Libs, photo : Photos, stored : BOOLEAN]
Edits     == [kind : {"edit"}, lib : Libs, book : Books, noted : BOOLEAN, copies : Maps(Copies, Nat)]
Answering == [kind : {"answer"}, lib : Libs]
Requests  == Filings \cup Edits \cup Answering

Early     == {"answers", "fields", "list"}
Copied    == {"recheck", "pair", "first", "commit"}
ToolSteps ==
    [at : Early \cup {"copy", "purge"} \cup Copied, todo : SUBSET Images, copied : SUBSET Images,
     pairs : SUBSET (Books \X Books), first : (Books \X Books) \cup {<<>>},
     base : Nat, list : Maps(Copies, Nat) \cup {<<>>}]

Types ==
    /\ book \in [Books -> BookRows \cup {Absent}]
    /\ copy \in [Copies -> CopyRows \cup {Absent}]
    /\ photo \in [Photos -> Libs \cup {Absent}]
    /\ tree \in [Libs -> Maps(Images, Files)]
    /\ libraries \subseteq Libs /\ answers \subseteq Libs
    /\ tool # Idle => tool \in ToolSteps
    /\ request # Idle => request \in Requests
    /\ collector # Idle => collector.lib \in Libs
    /\ play \in Plays

(* Where the tool stands: the source is there until the commit.             *)
Standing ==
    /\ Dst \in libraries
    /\ tool # Idle => (tool.at # "purge" <=> Src \in libraries)
    /\ \A p \in Photos : photo[p] # Absent => photo[p] \in libraries
    /\ \A c \in Copies : copy[c] # Absent => c \in saved

(* Nothing old is taken that is named; what the tool has copied is fresh.   *)
Fresh(l, i) == i \in DOMAIN tree[l] /\ ~tree[l][i].old
Whole(l, i) == i \in DOMAIN tree[l] /\ tree[l][i].sound
Sure(p)     == photo[p] # Absent /\ (Src \in libraries \/ ImageOf[p] \notin late)
NamedWhole == \A p \in Photos : Sure(p) => Whole(photo[p], ImageOf[p])
TreesWhole == \A l \in play.uploads \cup {Src} : \A i \in DOMAIN tree[l] : tree[l][i].sound
FilingStands ==
    request # Idle /\ request.kind = "file" =>
        /\ request.lib \in play.uploads
        /\ request.stored /\ request.lib \in libraries => Fresh(request.lib, ImageOf[request.photo])
CollectorKnows ==
    collector # Idle => \A p \in Photos :
        Sure(p) /\ photo[p] = collector.lib
          => ImageOf[p] \in collector.named \/ Fresh(photo[p], ImageOf[p])
CopyingStands ==
    tool # Idle =>
        /\ tool.at \in Early => tool.copied = {}
        /\ tool.at \in {"copy"} \cup Copied =>
             /\ DOMAIN tree[Src] \subseteq tool.todo \cup tool.copied \cup late
             /\ \A i \in tool.copied : Fresh(Dst, i)
        /\ tool.at \in Copied => tool.todo = {} /\ \A i \in tool.copied : Whole(Dst, i)
FilesInv == NamedWhole /\ TreesWhole /\ FilingStands /\ CollectorKnows /\ CopyingStands

(* While people do not overtake the tool: a title stands once in a library, *)
(* a copy in one place; a request and the tool have them as they are.       *)
Unhurried == ~play.hasty /\ ~play.overtaken
TitlesOnce ==
    \A b, d \in Books : b # d /\ Kept(b) /\ Kept(d) /\ book[b].lib = book[d].lib
                          => Title[b] # Title[d]
CopiesStand ==
    /\ saved = {c \in Copies : copy[c] # Absent}
    /\ \A c \in saved : Kept(copy[c].book) /\ Title[copy[c].book] = WorkOf[c]
    /\ \A c, d \in saved :
          c # d /\ copy[c].book = copy[d].book => copy[c].position # copy[d].position
EditStands ==
    request # Idle /\ request.kind = "edit" =>
        /\ Kept(request.book) /\ book[request.book].lib = request.lib
        /\ CopiesOf(request.book) \subseteq DOMAIN request.copies
        /\ \A c \in DOMAIN request.copies :
              WorkOf[c] = Title[request.book] /\ (c \in CopiesOf(request.book) \/ c \notin saved)
        /\ \A c, d \in DOMAIN request.copies : c # d => request.copies[c] # request.copies[d]
ToolStands ==
    tool # Idle =>
        /\ tool.at \in {"first", "commit"} => tool.pairs = Collisions
        /\ tool.at = "first" => tool.first \in tool.pairs
        /\ tool.at = "commit" /\ tool.pairs # {} =>
             /\ tool.first \in tool.pairs
             /\ tool.base = Base(tool.first[2]) /\ tool.list = InOrder(tool.first[1])
BooksInv == Unhurried => TitlesOnce /\ CopiesStand /\ EditStands /\ ToolStands

Rehomed == ~play.overtaken => (request # Idle => request.lib \in libraries)

IInv == Types /\ Standing /\ FilesInv /\ BooksInv /\ Rehomed /\ NoRowIsStranded
-----------------------------------------------------------------------------
(* Maps, and the files of a tree *)

LEMMA MapFacts ==
  ASSUME NEW D, NEW V, NEW f \in Maps(D, V)
  PROVE  /\ DOMAIN f \subseteq D
         /\ \A x \in DOMAIN f : f[x] \in V
         /\ \A S \in SUBSET D : \A g \in [S -> V] : g \in Maps(D, V)
  BY DEF Maps

LEMMA EmptyMap ==
  ASSUME NEW D, NEW V
  PROVE  <<>> \in Maps(D, V)
<1>1. <<>> = [x \in {} |-> x]
  OBVIOUS
<1>2. [x \in {} |-> x] \in [{} -> V]
  OBVIOUS
<1>. QED
  BY <1>1, <1>2 DEF Maps

LEMMA TreeFacts ==
  ASSUME Types, NEW l \in Libs
  PROVE  /\ tree[l] \in Maps(Images, Files) /\ DOMAIN tree[l] \subseteq Images
         /\ \A i \in DOMAIN tree[l] : tree[l][i] \in Files
  BY MapFacts DEF Types

LEMMA PutIntoTree ==
  ASSUME NEW files \in Maps(Images, Files), NEW i \in Images
  PROVE  WithPut(files, i) \in Maps(Images, Files)
<1>1. \A k \in DOMAIN files : files[k] \in Files
  BY MapFacts
<1>2. [sound |-> i \in DOMAIN files => files[i].sound, old |-> FALSE] \in Files
  BY <1>1 DEF Files
<1>3. WithPut(files, i) \in [DOMAIN files \cup {i} -> Files]
  BY <1>1, <1>2 DEF WithPut
<1>4. DOMAIN files \cup {i} \in SUBSET Images
  BY MapFacts
<1>. QED
  BY <1>3, <1>4 DEF Maps

LEMMA TakenFromTree ==
  ASSUME NEW files \in Maps(Images, Files), NEW I
  PROVE  Without(files, I) \in Maps(Images, Files)
<1>1. Without(files, I) \in [DOMAIN files \ I -> Files]
  BY MapFacts DEF Without
<1>2. DOMAIN files \ I \in SUBSET Images
  BY MapFacts
<1>. QED
  BY <1>1, <1>2 DEF Maps
-----------------------------------------------------------------------------
(* Parts of the invariant that a step leaves as they were *)

\* Books, copies and whoever holds something of them.
LEMMA BooksQuiet ==
  ASSUME IInv, UNCHANGED <<play, book, copy, saved>>,
         request' \in {request, Idle} \/ request'.kind # "edit",
         tool' \in {tool, Idle} \/ tool'.at \notin {"first", "commit"}
  PROVE  BooksInv'
<1>1. SUFFICES ASSUME Unhurried PROVE (TitlesOnce /\ CopiesStand /\ EditStands /\ ToolStands)'
  BY DEF BooksInv, Unhurried
<1>2. TitlesOnce /\ CopiesStand /\ EditStands /\ ToolStands
  BY <1>1 DEF IInv, BooksInv
<1>3. TitlesOnce'
  BY <1>2 DEF TitlesOnce, Kept
<1>4. CopiesStand'
  BY <1>2 DEF CopiesStand, Kept
<1>5. EditStands'
  BY <1>2 DEF EditStands, Kept, CopiesOf
<1>6. ToolStands'
  <2>1. Collisions' = Collisions
    BY DEF Collisions, BooksOf, Kept
  <2>2. \A b : Base(b)' = Base(b) /\ InOrder(b)' = InOrder(b)
    BY DEF Base, InOrder, Before, CopiesOf
  <2>. QED
    BY <1>2, <2>1, <2>2 DEF ToolStands
<1>. QED
  BY <1>3, <1>4, <1>5, <1>6

\* Rows and what names a library.
LEMMA RowsQuiet ==
  ASSUME IInv, UNCHANGED <<play, libraries, book, photo, answers>>
  PROVE  /\ NoRowIsStranded'
         /\ request' \in {request, Idle} \/ request'.lib \in libraries => Rehomed'
  BY DEF IInv, NoRowIsStranded, Rehomed, Kept

\* The tool looks at something else than photographs.
ToolReads(s, t) ==
    \/ t \in {s, Idle}
    \/ t.at = "purge"
    \/ t.at \in Early /\ t.copied = {}
    \/ s # Idle /\ s.at \in Copied /\ t.at \in Copied /\ t.todo = s.todo /\ t.copied = s.copied

\* Photographs, trees, and whoever relies on them.
LEMMA FilesQuiet ==
  ASSUME IInv, UNCHANGED <<play, libraries, photo, tree, late>>
  PROVE  /\ NamedWhole' /\ TreesWhole'
         /\ request' \in {request, Idle} \/ request'.kind # "file" => FilingStands'
         /\ collector' \in {collector, Idle} => CollectorKnows'
         /\ ToolReads(tool, tool') => CopyingStands'
<1>. USE DEF IInv, FilesInv, Sure, Whole, Fresh
<1>1. NamedWhole' /\ TreesWhole'
  BY DEF NamedWhole, TreesWhole
<1>2. request' \in {request, Idle} \/ request'.kind # "file" => FilingStands'
  BY DEF FilingStands
<1>3. collector' \in {collector, Idle} => CollectorKnows'
  BY DEF CollectorKnows
<1>4. ToolReads(tool, tool') => CopyingStands'
  BY DEF CopyingStands, ToolReads, Early, Copied
<1>. QED
  BY <1>1, <1>2, <1>3, <1>4
-----------------------------------------------------------------------------
(* The tree and its collector *)

LEMMA AgeStep ==
  ASSUME IInv, Age
  PROVE  IInv'
<1>1. /\ tool = Idle /\ request = Idle /\ collector = Idle
      /\ tree' = [l \in Libs |-> [i \in DOMAIN tree[l] |-> [tree[l][i] EXCEPT !.old = TRUE]]]
      /\ UNCHANGED <<play, libraries, book, copy, photo, answers, tool, request, collector, late, saved>>
  BY DEF Age, rows
<1>2. ASSUME NEW l \in Libs
      PROVE  /\ tree'[l] \in Maps(Images, Files)
             /\ DOMAIN tree'[l] = DOMAIN tree[l]
             /\ \A i \in DOMAIN tree[l] : tree'[l][i].sound = tree[l][i].sound
  <2>1. tree'[l] = [i \in DOMAIN tree[l] |-> [tree[l][i] EXCEPT !.old = TRUE]]
    BY <1>1
  <2>2. DOMAIN tree[l] \in SUBSET Images /\ \A i \in DOMAIN tree[l] : tree[l][i] \in Files
    BY TreeFacts DEF IInv
  <2>3. \A i \in DOMAIN tree[l] : /\ [tree[l][i] EXCEPT !.old = TRUE] \in Files
                                  /\ [tree[l][i] EXCEPT !.old = TRUE].sound = tree[l][i].sound
    BY <2>2 DEF Files
  <2>4. tree'[l] \in [DOMAIN tree[l] -> Files]
    BY <2>1, <2>3
  <2>. QED
    BY <2>1, <2>2, <2>3, <2>4 DEF Maps
<1>3. tree' \in [Libs -> Maps(Images, Files)]
  BY <1>1, <1>2
<1>4. Types'
  BY <1>1, <1>3 DEF IInv, Types
<1>5. Standing'
  BY <1>1 DEF IInv, Standing
<1>6. FilesInv'
  <2>1. NamedWhole'
    BY <1>1, <1>2 DEF IInv, Types, FilesInv, NamedWhole, Sure, Whole
  <2>2. TreesWhole'
    <3>1. play.uploads \cup {Src} \subseteq Libs
      BY LibraryMergeAssumption DEF IInv, Types, Libs
    <3>. QED
      BY <1>1, <1>2, <3>1 DEF IInv, FilesInv, TreesWhole
  <2>3. FilingStands' /\ CollectorKnows' /\ CopyingStands'
    BY <1>1 DEF FilingStands, CollectorKnows, CopyingStands
  <2>. QED
    BY <2>1, <2>2, <2>3 DEF FilesInv
<1>7. BooksInv' /\ NoRowIsStranded' /\ Rehomed'
  BY <1>1, BooksQuiet, RowsQuiet
<1>. QED
  BY <1>4, <1>5, <1>6, <1>7 DEF IInv

LEMMA BeginCollectStep ==
  ASSUME IInv, BeginCollect
  PROVE  IInv'
<1>1. PICK l \in libraries :
        /\ collector' = [lib |-> l, named |-> Named(l)]
        /\ UNCHANGED <<play, libraries, book, copy, photo, answers, tree, tool, request, late, saved>>
  BY DEF BeginCollect, rows
<1>2. Types' /\ Standing'
  BY <1>1 DEF IInv, Types, Standing
<1>3. CollectorKnows'
  BY <1>1 DEF CollectorKnows, Named
<1>4. NamedWhole' /\ TreesWhole' /\ FilingStands' /\ CopyingStands'
  BY <1>1, FilesQuiet DEF ToolReads
<1>5. BooksInv' /\ NoRowIsStranded' /\ Rehomed'
  BY <1>1, BooksQuiet, RowsQuiet
<1>. QED
  BY <1>2, <1>3, <1>4, <1>5 DEF IInv, FilesInv

\* A collection, or a purge, takes files from one tree.
LEMMA FilesTaken ==
  ASSUME IInv, NEW l \in Libs, NEW I,
         tree' = [tree EXCEPT ![l] = Without(@, I)]
  PROVE  /\ tree' \in [Libs -> Maps(Images, Files)]
         /\ \A k \in Libs \ {l} : tree'[k] = tree[k]
         /\ DOMAIN tree'[l] = DOMAIN tree[l] \ I
         /\ \A i \in DOMAIN tree[l] \ I : tree'[l][i] = tree[l][i]
<1>1. tree \in [Libs -> Maps(Images, Files)] /\ Without(tree[l], I) \in Maps(Images, Files)
  BY TreeFacts, TakenFromTree DEF IInv, Types
<1>2. tree' \in [Libs -> Maps(Images, Files)] /\ tree'[l] = Without(tree[l], I)
  BY <1>1
<1>3. \A k \in Libs \ {l} : tree'[k] = tree[k]
  BY <1>1
<1>. QED
  BY <1>2, <1>3 DEF Without

LEMMA CollectStep ==
  ASSUME IInv, Collect
  PROVE  IInv'
<1>1. /\ collector # Idle /\ collector' = Idle
      /\ tree' = [tree EXCEPT ![collector.lib] = Without(@, Orphans)]
      /\ UNCHANGED <<play, libraries, book, copy, photo, answers, tool, request, late, saved>>
  BY DEF Collect, rows
<1>. DEFINE l == collector.lib
<1>2. l \in Libs
  BY <1>1 DEF IInv, Types
<1>3. /\ tree' \in [Libs -> Maps(Images, Files)]
      /\ \A k \in Libs \ {l} : tree'[k] = tree[k]
      /\ DOMAIN tree'[l] = DOMAIN tree[l] \ Orphans
      /\ \A i \in DOMAIN tree[l] \ Orphans : tree'[l][i] = tree[l][i]
  BY <1>1, <1>2, FilesTaken
<1>4. \A i \in Orphans : i \notin collector.named /\ tree[l][i].old
  BY DEF Orphans
<1>5. \A k \in Libs : \A i : Fresh(k, i) => i \in DOMAIN tree'[k] /\ tree'[k][i] = tree[k][i]
  BY <1>3, <1>4 DEF Fresh
<1>6. \A k \in Libs : DOMAIN tree'[k] \subseteq DOMAIN tree[k]
                      /\ \A i \in DOMAIN tree'[k] : tree'[k][i] = tree[k][i]
  BY <1>3
<1>. HIDE DEF l
<1>7. Types' /\ Standing'
  BY <1>1, <1>3 DEF IInv, Types, Standing
<1>8. NamedWhole'
  <2>1. SUFFICES ASSUME NEW p \in Photos, Sure(p) PROVE Whole(photo[p], ImageOf[p])'
    BY <1>1 DEF NamedWhole, Sure
  <2>2. photo[p] \in Libs /\ Whole(photo[p], ImageOf[p])
    BY <2>1 DEF IInv, Types, FilesInv, NamedWhole, Sure
  <2>3. CASE photo[p] = l
    <3>1. ImageOf[p] \in collector.named \/ Fresh(photo[p], ImageOf[p])
      BY <1>1, <2>1, <2>3 DEF l, IInv, FilesInv, CollectorKnows
    <3>2. ImageOf[p] \notin Orphans
      BY <1>4, <2>3, <3>1 DEF Fresh
    <3>. QED
      BY <1>1, <1>3, <2>2, <2>3, <3>2 DEF Whole
  <2>4. CASE photo[p] # l
    BY <1>1, <1>3, <2>2, <2>4 DEF Whole
  <2>. QED
    BY <2>3, <2>4
<1>9. TreesWhole'
  <2>1. play.uploads \cup {Src} \subseteq Libs
    BY LibraryMergeAssumption DEF IInv, Types, Libs
  <2>. QED
    BY <1>1, <1>6, <2>1 DEF IInv, FilesInv, TreesWhole
<1>10. FilingStands'
  <2>1. request # Idle => request.lib \in Libs
    BY DEF IInv, Types, Requests, Filings, Edits, Answering
  <2>. QED
    BY <1>1, <1>5, <2>1 DEF IInv, FilesInv, FilingStands, Fresh
<1>11. CopyingStands'
  <2>1. Src \in Libs /\ Dst \in Libs
    BY DEF Libs
  <2>2. \A i : /\ Fresh(Dst, i) => Fresh(Dst, i)'
               /\ Fresh(Dst, i) /\ Whole(Dst, i) => Whole(Dst, i)'
    BY <1>5, <2>1 DEF Fresh, Whole
  <2>3. DOMAIN tree'[Src] \subseteq DOMAIN tree[Src]
    BY <1>6, <2>1
  <2>4. CopyingStands
    BY DEF IInv, FilesInv
  <2>. QED
    BY <1>1, <2>2, <2>3, <2>4 DEF CopyingStands, Copied
<1>12. CollectorKnows'
  BY <1>1 DEF CollectorKnows
<1>13. BooksInv' /\ NoRowIsStranded' /\ Rehomed'
  BY <1>1, BooksQuiet, RowsQuiet
<1>. QED
  BY <1>7, <1>8, <1>9, <1>10, <1>11, <1>12, <1>13 DEF IInv, FilesInv
-----------------------------------------------------------------------------
(* The server *)

\* A request that is taken, and does nothing yet.
LEMMA Asked ==
  ASSUME IInv, NEW new \in Requests, Asks(new), new.lib \in libraries
  PROVE  /\ Types' /\ Standing' /\ NoRowIsStranded' /\ Rehomed'
         /\ new.kind # "edit" => BooksInv'
         /\ new.kind # "file" => FilesInv'
         /\ request' = new
         /\ UNCHANGED <<play, libraries, book, copy, photo, answers, tree, tool, collector, late, saved>>
<1>1. /\ request' = new
      /\ UNCHANGED <<play, libraries, book, copy, photo, answers, tree, tool, collector, late, saved>>
  BY DEF Asks, rows
<1>2. Types' /\ Standing'
  BY <1>1 DEF IInv, Types, Standing
<1>3. NoRowIsStranded' /\ Rehomed'
  BY <1>1, RowsQuiet
<1>4. new.kind # "edit" => BooksInv'
  BY <1>1, BooksQuiet
<1>5. new.kind # "file" => FilesInv'
  BY <1>1, FilesQuiet DEF ToolReads, FilesInv
<1>. QED
  BY <1>1, <1>2, <1>3, <1>4, <1>5

LEMMA BeginFileStep ==
  ASSUME IInv, BeginFile
  PROVE  IInv'
<1>1. PICK l \in play.uploads \cap libraries, p \in Photos :
        Asks([kind |-> "file", lib |-> l, photo |-> p, stored |-> FALSE])
  BY DEF BeginFile
<1>2. PICK new \in Filings :
        /\ Asks(new) /\ new.lib = l /\ new.kind = "file" /\ ~new.stored
  <2>1. [kind |-> "file", lib |-> l, photo |-> p, stored |-> FALSE] \in Filings
    BY DEF Filings, IInv, Types
  <2>. QED
    BY <1>1, <2>1
<1>3. new \in Requests /\ new.lib \in libraries
  BY <1>2 DEF Requests
<1>4. /\ Types' /\ Standing' /\ NoRowIsStranded' /\ Rehomed' /\ BooksInv'
      /\ request' = new
      /\ UNCHANGED <<play, libraries, photo, tree, tool, collector, late>>
  BY <1>2, <1>3, Asked
<1>5. FilingStands'
  BY <1>2, <1>4 DEF FilingStands
<1>6. NamedWhole' /\ TreesWhole' /\ CollectorKnows' /\ CopyingStands'
  BY <1>4, FilesQuiet DEF ToolReads
<1>. QED
  BY <1>4, <1>5, <1>6 DEF IInv, FilesInv

LEMMA BeginAnswerStep ==
  ASSUME IInv, BeginAnswer
  PROVE  IInv'
<1>1. PICK l \in libraries : Asks([kind |-> "answer", lib |-> l])
  BY DEF BeginAnswer
<1>2. PICK new \in Answering : Asks(new) /\ new.lib = l /\ new.kind = "answer"
  BY <1>1 DEF Answering, IInv, Types
<1>. QED
  BY <1>2, Asked DEF IInv, Requests

\* A photograph's bytes come into a tree.
LEMMA FilePut ==
  ASSUME IInv, NEW l \in Libs, NEW i \in Images,
         tree' = [tree EXCEPT ![l] = WithPut(@, i)]
  PROVE  /\ tree' \in [Libs -> Maps(Images, Files)]
         /\ \A k \in Libs \ {l} : tree'[k] = tree[k]
         /\ DOMAIN tree'[l] = DOMAIN tree[l] \cup {i}
         /\ \A k \in DOMAIN tree[l] \ {i} : tree'[l][k] = tree[l][k]
         /\ ~tree'[l][i].old
         /\ i \notin DOMAIN tree[l] \/ tree[l][i].sound => tree'[l][i].sound
<1>1. tree \in [Libs -> Maps(Images, Files)] /\ WithPut(tree[l], i) \in Maps(Images, Files)
  BY TreeFacts, PutIntoTree DEF IInv, Types
<1>2. tree' \in [Libs -> Maps(Images, Files)] /\ tree'[l] = WithPut(tree[l], i)
  BY <1>1
<1>3. \A k \in Libs \ {l} : tree'[k] = tree[k]
  BY <1>1
<1>. QED
  BY <1>2, <1>3 DEF WithPut

LEMMA StorePhotoStep ==
  ASSUME IInv, StorePhoto
  PROVE  IInv'
<1>. DEFINE l == request.lib
            i == ImageOf[request.photo]
<1>1. /\ request # Idle /\ request.kind = "file"
      /\ tree' = [tree EXCEPT ![l] = WithPut(@, i)]
      /\ late' = IF l = Src /\ Listed THEN late \cup ({i} \ DOMAIN tree[Src]) ELSE late
      /\ request' = [request EXCEPT !.stored = TRUE]
      /\ UNCHANGED <<play, libraries, book, copy, photo, answers, tool, collector, saved>>
  BY DEF StorePhoto, rows
<1>2. request \in Filings /\ l \in play.uploads /\ l \in Libs /\ i \in Images
  <2>1. request \in Filings
    BY <1>1 DEF IInv, Types, Requests, Filings, Edits, Answering
  <2>. QED
    BY <1>1, <2>1, LibraryMergeAssumption DEF Filings, IInv, FilesInv, FilingStands
<1>3. /\ request' \in Filings /\ request'.kind = "file" /\ request'.lib = l
      /\ request'.photo = request.photo
  BY <1>1, <1>2 DEF Filings
<1>. HIDE DEF l, i
<1>4. /\ tree' \in [Libs -> Maps(Images, Files)]
      /\ \A k \in Libs \ {l} : tree'[k] = tree[k]
      /\ DOMAIN tree'[l] = DOMAIN tree[l] \cup {i}
      /\ \A k \in DOMAIN tree[l] \ {i} : tree'[l][k] = tree[l][k]
      /\ ~tree'[l][i].old
      /\ i \notin DOMAIN tree[l] \/ tree[l][i].sound => tree'[l][i].sound
  BY <1>1, <1>2, FilePut
<1>5. Types' /\ Standing'
  BY <1>1, <1>3, <1>4 DEF IInv, Types, Standing, Requests
<1>6. \A k \in Libs : \A j : /\ Whole(k, j) => Whole(k, j)'
                             /\ Fresh(k, j) => Fresh(k, j)'
  BY <1>4 DEF Whole, Fresh
<1>7. Src \in Libs /\ Dst \in Libs /\ \A p \in Photos : Sure(p)' => Sure(p) /\ photo[p] \in Libs
  BY <1>1 DEF Libs, Sure, IInv, Types
<1>8. NamedWhole'
  BY <1>1, <1>6, <1>7 DEF IInv, FilesInv, NamedWhole
<1>9. TreesWhole'
  <2>1. play.uploads \cup {Src} \subseteq Libs
    BY LibraryMergeAssumption DEF IInv, Types, Libs
  <2>. QED
    BY <1>1, <1>2, <1>4, <2>1 DEF IInv, FilesInv, TreesWhole
<1>10. FilingStands'
  BY <1>1, <1>2, <1>3, <1>4 DEF FilingStands, Fresh, i
<1>11. CollectorKnows'
  BY <1>1, <1>6, <1>7 DEF IInv, FilesInv, CollectorKnows
<1>12. CopyingStands'
  <2>1. CopyingStands
    BY DEF IInv, FilesInv
  <2>2. tool # Idle /\ tool.at \in {"copy"} \cup Copied
          => DOMAIN tree'[Src] \subseteq DOMAIN tree[Src] \cup late' /\ late \subseteq late'
    BY <1>1, <1>4, <1>7 DEF Listed, Copied
  <2>. QED
    BY <1>1, <1>6, <1>7, <2>1, <2>2 DEF CopyingStands, Copied
<1>13. BooksInv'
  BY <1>1, <1>3, BooksQuiet
<1>14. NoRowIsStranded' /\ Rehomed'
  <2>1. NoRowIsStranded'
    BY <1>1, RowsQuiet
  <2>2. Rehomed'
    BY <1>1, <1>3 DEF IInv, Rehomed, l
  <2>. QED
    BY <2>1, <2>2
<1>. QED
  BY <1>5, <1>8, <1>9, <1>10, <1>11, <1>12, <1>13, <1>14 DEF IInv, FilesInv

LEMMA FilePhotoStep ==
  ASSUME IInv, FilePhoto
  PROVE  IInv'
<1>1. /\ request # Idle /\ request.kind = "file" /\ request.stored /\ request' = Idle
      /\ photo' = IF request.lib \in libraries THEN [photo EXCEPT ![request.photo] = request.lib] ELSE photo
      /\ UNCHANGED <<play, libraries, book, copy, answers, tree, tool, collector, late, saved>>
  BY DEF FilePhoto, Answered
<1>2. request \in Filings
  BY <1>1 DEF IInv, Types, Requests, Filings, Edits, Answering
<1>3. \A p \in Photos :
        \/ photo'[p] = photo[p]
        \/ /\ photo'[p] = request.lib /\ request.lib \in libraries /\ request.lib \in Libs
           /\ request.lib \in play.uploads /\ Fresh(request.lib, ImageOf[p])
  BY <1>1, <1>2 DEF IInv, Types, Filings, FilesInv, FilingStands
<1>4. photo' \in [Photos -> Libs \cup {Absent}]
  BY <1>1, <1>2 DEF IInv, Types, Filings
<1>5. Types'
  BY <1>1, <1>4 DEF IInv, Types
<1>6. Standing'
  BY <1>1, <1>3 DEF IInv, Standing
<1>7. NamedWhole'
  BY <1>1, <1>3 DEF IInv, FilesInv, NamedWhole, TreesWhole, Sure, Whole, Fresh
<1>8. CollectorKnows'
  BY <1>1, <1>3 DEF IInv, FilesInv, CollectorKnows, Sure, Fresh
<1>9. TreesWhole' /\ FilingStands' /\ CopyingStands'
  BY <1>1 DEF IInv, FilesInv, TreesWhole, FilingStands, CopyingStands, Fresh, Whole
<1>10. BooksInv'
  BY <1>1, BooksQuiet
<1>11. NoRowIsStranded' /\ Rehomed'
  BY <1>1, <1>3 DEF IInv, NoRowIsStranded, Rehomed, Kept
<1>. QED
  BY <1>5, <1>6, <1>7, <1>8, <1>9, <1>10, <1>11 DEF IInv, FilesInv

LEMMA SaveAnswerStep ==
  ASSUME IInv, SaveAnswer \/ ClearAnswer
  PROVE  IInv'
<1>1. /\ request' \in {request, Idle} /\ answers' \subseteq Libs
      /\ ~play.overtaken => answers' \subseteq libraries
      /\ UNCHANGED <<play, libraries, book, copy, photo, tree, tool, collector, late, saved>>
  <2>1. request # Idle /\ request.kind = "answer" => request.lib \in Libs
    BY DEF IInv, Types, Requests, Filings, Edits, Answering
  <2>. QED
    BY <2>1 DEF SaveAnswer, ClearAnswer, Answered, IInv, Types, NoRowIsStranded, Rehomed
<1>2. Types' /\ Standing'
  BY <1>1 DEF IInv, Types, Standing
<1>3. FilesInv'
  BY <1>1, FilesQuiet DEF ToolReads, FilesInv
<1>4. BooksInv'
  BY <1>1, BooksQuiet
<1>5. NoRowIsStranded' /\ Rehomed'
  BY <1>1 DEF IInv, NoRowIsStranded, Rehomed, Kept
<1>. QED
  BY <1>2, <1>3, <1>4, <1>5 DEF IInv
-----------------------------------------------------------------------------
(* Copies in their order *)

LEMMA BeforeIsAnOrder ==
  ASSUME Types, NEW S \in SUBSET {c \in Copies : copy[c] # Absent}
  PROVE  /\ \A c, d \in S : c # d => Before(c, d) \/ Before(d, c)
         /\ \A c, d \in S : Before(c, d) => ~Before(d, c)
         /\ \A c, d, e \in S : Before(c, d) /\ Before(d, e) => Before(c, e)
         /\ \A c \in S : ~Before(c, c)
<1>1. \A c \in S : c \in Nat /\ copy[c].position \in Nat
  BY LibraryMergeAssumption DEF Types, CopyRows
<1>. QED
  BY <1>1 DEF Before

\* The places of a book's copies are numbers below how many there are, and
\* no two copies have one place.
LEMMA OrderFacts ==
  ASSUME Types, NEW b
  PROVE  /\ IsFiniteSet(CopiesOf(b)) /\ Cardinality(CopiesOf(b)) \in Nat
         /\ CopiesOf(b) \subseteq Copies
         /\ DOMAIN InOrder(b) = CopiesOf(b) /\ InOrder(b) \in Maps(Copies, Nat)
         /\ \A c \in CopiesOf(b) : InOrder(b)[c] \in Nat /\ InOrder(b)[c] < Cardinality(CopiesOf(b))
         /\ \A c, d \in CopiesOf(b) : c # d => InOrder(b)[c] # InOrder(b)[d]
<1>. DEFINE S == CopiesOf(b)
            Below(c) == {d \in S : Before(d, c)}
<1>1. IsFiniteSet(S) /\ Cardinality(S) \in Nat /\ S \subseteq Copies
  BY FS_Subset, FS_CardinalityType, LibraryMergeAssumption DEF CopiesOf
<1>2. \A c : IsFiniteSet(Below(c)) /\ Cardinality(Below(c)) \in Nat
  BY <1>1, FS_Subset, FS_CardinalityType
<1>3. /\ \A c, d \in S : c # d => Before(c, d) \/ Before(d, c)
      /\ \A c, d, e \in S : Before(c, d) /\ Before(d, e) => Before(c, e)
      /\ \A c \in S : ~Before(c, c)
  <2>1. S \in SUBSET {c \in Copies : copy[c] # Absent}
    BY DEF CopiesOf
  <2>. HIDE DEF S
  <2>. QED
    BY <2>1, BeforeIsAnOrder
<1>4. ASSUME NEW c \in S, NEW d \in S, Before(c, d)
      PROVE  Cardinality(Below(c)) < Cardinality(Below(d))
  <2>1. Below(c) \subseteq Below(d) /\ c \in Below(d) /\ c \notin Below(c)
    BY <1>3, <1>4
  <2>. HIDE DEF S, Below
  <2>2. Cardinality(Below(c)) <= Cardinality(Below(d))
        /\ (Cardinality(Below(d)) = Cardinality(Below(c)) => Below(d) = Below(c))
    BY <1>2, <2>1, FS_Subset
  <2>. QED
    BY <1>2, <2>1, <2>2
<1>5. ASSUME NEW c \in S
      PROVE  Cardinality(Below(c)) < Cardinality(S)
  <2>1. Below(c) \subseteq S /\ c \notin Below(c)
    BY <1>3, <1>5
  <2>. HIDE DEF S, Below
  <2>2. Cardinality(Below(c)) <= Cardinality(S)
        /\ (Cardinality(S) = Cardinality(Below(c)) => S = Below(c))
    BY <1>1, <2>1, FS_Subset
  <2>. QED
    BY <1>1, <1>2, <1>5, <2>1, <2>2
<1>6. DOMAIN InOrder(b) = S /\ \A c \in S : InOrder(b)[c] = Cardinality(Below(c))
  BY DEF InOrder
<1>7. InOrder(b) \in [S -> Nat]
  <2>1. InOrder(b) = [c \in S |-> Cardinality(Below(c))]
    BY DEF InOrder
  <2>. HIDE DEF S, Below
  <2>. QED
    BY <1>2, <2>1
<1>8. InOrder(b) \in Maps(Copies, Nat)
  <2>. HIDE DEF S
  <2>. QED
    BY <1>1, <1>7 DEF Maps
<1>9. ASSUME NEW c \in S, NEW d \in S, c # d
      PROVE  Cardinality(Below(c)) # Cardinality(Below(d))
  <2>1. Before(c, d) \/ Before(d, c)
    BY <1>3, <1>9
  <2>. HIDE DEF S, Below
  <2>. QED
    BY <1>2, <1>4, <2>1
<1>. HIDE DEF Below
<1>. QED
  BY <1>1, <1>2, <1>5, <1>6, <1>8, <1>9

Distinct(list) == \A d, e \in DOMAIN list : d # e => list[d] # list[e]

LEMMA WithLastFacts ==
  ASSUME Types, NEW b, NEW c \in Copies \ CopiesOf(b)
  PROVE  /\ WithLast(b, c) \in Maps(Copies, Nat) /\ DOMAIN WithLast(b, c) = CopiesOf(b) \cup {c}
         /\ Distinct(WithLast(b, c))
<1>. DEFINE S == CopiesOf(b)
            n == Cardinality(CopiesOf(b))
            list == InOrder(b)
<1>1. /\ S \subseteq Copies /\ n \in Nat
      /\ \A d \in S : list[d] \in Nat /\ list[d] < n
      /\ \A d, e \in S : d # e => list[d] # list[e]
  BY OrderFacts
<1>2. WithLast(b, c) = [d \in S \cup {c} |-> IF d \in S THEN list[d] ELSE n]
  BY DEF WithLast
<1>. HIDE DEF S, n, list
<1>3. WithLast(b, c) \in [S \cup {c} -> Nat]
  BY <1>1, <1>2
<1>4. S \cup {c} \in SUBSET Copies
  BY <1>1
<1>5. WithLast(b, c) \in Maps(Copies, Nat)
  BY <1>3, <1>4 DEF Maps
<1>6. Distinct(WithLast(b, c))
  BY <1>1, <1>2 DEF Distinct
<1>. QED
  BY <1>2, <1>5, <1>6 DEF S
-----------------------------------------------------------------------------
(* Edits *)

LEMMA BeginEditStep ==
  ASSUME IInv, BeginEdit
  PROVE  IInv'
<1>1. PICK b \in Books :
        /\ Kept(b) /\ book[b].lib \in libraries
        /\ \/ Asks([kind |-> "edit", lib |-> book[b].lib, book |-> b, noted |-> TRUE,
                    copies |-> InOrder(b)])
           \/ \E c \in {d \in Copies \ saved : WorkOf[d] = Title[b]} :
                Asks([kind |-> "edit", lib |-> book[b].lib, book |-> b, noted |-> book[b].noted,
                      copies |-> WithLast(b, c)])
  BY DEF BeginEdit
<1>2. book[b] \in BookRows
  BY <1>1 DEF Kept, IInv, Types
<1>3. PICK copies, noted :
        /\ noted \in BOOLEAN
        /\ Asks([kind |-> "edit", lib |-> book[b].lib, book |-> b, noted |-> noted, copies |-> copies])
        /\ \/ copies = InOrder(b)
           \/ \E c \in {d \in Copies \ saved : WorkOf[d] = Title[b]} : copies = WithLast(b, c)
  BY <1>1, <1>2 DEF BookRows
<1>4. \A c \in Copies \ saved : c \in Copies \ CopiesOf(b)
  BY DEF IInv, Standing, CopiesOf
<1>5. /\ copies \in Maps(Copies, Nat) /\ CopiesOf(b) \subseteq DOMAIN copies
      /\ \A c \in DOMAIN copies :
            c \in CopiesOf(b) \/ (c \notin saved /\ WorkOf[c] = Title[b])
      /\ \A c, d \in DOMAIN copies : c # d => copies[c] # copies[d]
  <2>1. CASE copies = InOrder(b)
    BY <2>1, OrderFacts DEF IInv
  <2>2. ASSUME NEW c \in {d \in Copies \ saved : WorkOf[d] = Title[b]}, copies = WithLast(b, c)
        PROVE  /\ copies \in Maps(Copies, Nat) /\ CopiesOf(b) \subseteq DOMAIN copies
               /\ \A d \in DOMAIN copies :
                     d \in CopiesOf(b) \/ (d \notin saved /\ WorkOf[d] = Title[b])
               /\ \A d, e \in DOMAIN copies : d # e => copies[d] # copies[e]
    <3>1. c \in Copies \ CopiesOf(b)
      BY <1>4
    <3>2. /\ copies \in Maps(Copies, Nat) /\ DOMAIN copies = CopiesOf(b) \cup {c}
          /\ Distinct(copies)
      BY <2>2, <3>1, WithLastFacts DEF IInv
    <3>. QED
      BY <3>2 DEF Distinct
  <2>. QED
    BY <1>3, <2>1, <2>2
<1>6. PICK new \in Edits :
        /\ Asks(new) /\ new.kind = "edit" /\ new.lib = book[b].lib /\ new.book = b
        /\ new.copies = copies
  <2>1. [kind |-> "edit", lib |-> book[b].lib, book |-> b, noted |-> noted, copies |-> copies] \in Edits
    BY <1>2, <1>3, <1>5 DEF Edits, BookRows
  <2>. QED
    BY <1>3, <2>1
<1>7. new \in Requests /\ new.lib \in libraries
  BY <1>1, <1>6 DEF Requests
<1>8. /\ Types' /\ Standing' /\ NoRowIsStranded' /\ Rehomed' /\ FilesInv'
      /\ request' = new
      /\ UNCHANGED <<play, book, copy, tool, saved>>
  BY <1>6, <1>7, Asked
<1>9. BooksInv'
  <2>1. SUFFICES ASSUME Unhurried PROVE (TitlesOnce /\ CopiesStand /\ EditStands /\ ToolStands)'
    BY <1>8 DEF BooksInv, Unhurried
  <2>2. TitlesOnce /\ CopiesStand /\ ToolStands
    BY <2>1 DEF IInv, BooksInv
  <2>3. \A c \in CopiesOf(b) : WorkOf[c] = Title[b]
    BY <2>2 DEF CopiesStand, CopiesOf
  <2>4. EditStands'
    BY <1>1, <1>5, <1>6, <1>8, <2>3 DEF EditStands, Kept, CopiesOf
  <2>5. TitlesOnce' /\ CopiesStand'
    BY <1>8, <2>2 DEF TitlesOnce, CopiesStand, Kept
  <2>6. ToolStands'
    <3>1. Collisions' = Collisions
      BY <1>8 DEF Collisions, BooksOf, Kept
    <3>2. \A d : Base(d)' = Base(d) /\ InOrder(d)' = InOrder(d)
      BY <1>8 DEF Base, InOrder, Before, CopiesOf
    <3>. QED
      BY <1>8, <2>2, <3>1, <3>2 DEF ToolStands
  <2>. QED
    BY <2>4, <2>5, <2>6
<1>. QED
  BY <1>8, <1>9 DEF IInv

\* A save writes its book and the copies it lists, or is refused.
LEMMA SaveBookStep ==
  ASSUME IInv, SaveBook
  PROVE  IInv'
<1>. DEFINE b == request.book
            list == request.copies
            refused ==
              \/ Kept(b) /\ ~(Kept(b) /\ book[b].lib = request.lib)
              \/ \E c \in DOMAIN list :
                    copy[c] # Absent /\ ~((Kept(b) /\ book[b].lib = request.lib) /\ copy[c].book = b)
              \/ \E d \in BooksOf(request.lib) \ {b} : Title[d] = Title[b]
<1>1. /\ request # Idle /\ request.kind = "edit" /\ request' = Idle
      /\ play.hasty \/ ~Looking
      /\ UNCHANGED <<play, libraries, photo, answers, tree, tool, collector, late>>
      /\ \/ UNCHANGED <<book, copy, saved>>
         \/ /\ ~refused
            /\ book' = [book EXCEPT ![b] = [lib |-> request.lib, noted |-> request.noted]]
            /\ copy' = [c \in Copies |->
                          IF c \in DOMAIN list THEN [book |-> b, position |-> list[c]]
                          ELSE IF c \in CopiesOf(b) THEN Absent ELSE copy[c]]
            /\ saved' = saved \cup DOMAIN list
  BY DEF SaveBook, Answered
<1>2. request \in Edits
  BY <1>1 DEF IInv, Types, Requests, Filings, Edits, Answering
<1>3. /\ b \in Books /\ request.lib \in Libs /\ request.noted \in BOOLEAN
      /\ DOMAIN list \subseteq Copies /\ \A c \in DOMAIN list : list[c] \in Nat
  BY <1>2, MapFacts DEF Edits
<1>4. FilesInv'
  BY <1>1, FilesQuiet DEF ToolReads, FilesInv
<1>5. CASE UNCHANGED <<book, copy, saved>>
  <2>1. Types' /\ Standing'
    BY <1>1, <1>5 DEF IInv, Types, Standing
  <2>2. BooksInv' /\ NoRowIsStranded' /\ Rehomed'
    BY <1>1, <1>5, BooksQuiet, RowsQuiet
  <2>. QED
    BY <1>4, <2>1, <2>2 DEF IInv
<1>6. CASE ~UNCHANGED <<book, copy, saved>>
  <2>. DEFINE row == [lib |-> request.lib, noted |-> request.noted]
              here(c) == [book |-> b, position |-> list[c]]
  <2>1. /\ row \in BookRows /\ row # Absent /\ row.lib = request.lib
        /\ \A c \in DOMAIN list : here(c) \in CopyRows /\ here(c) # Absent
                                  /\ here(c).book = b /\ here(c).position = list[c]
    BY <1>3, LibraryMergeAssumption DEF BookRows, CopyRows
  <2>. HIDE DEF row, here
  <2>2. /\ ~refused
        /\ book' = [book EXCEPT ![b] = row]
        /\ copy' = [c \in Copies |-> IF c \in DOMAIN list THEN here(c)
                                     ELSE IF c \in CopiesOf(b) THEN Absent ELSE copy[c]]
        /\ saved' = saved \cup DOMAIN list
    BY <1>1, <1>6 DEF row, here
  <2>3. book \in [Books -> BookRows \cup {Absent}] /\ copy \in [Copies -> CopyRows \cup {Absent}]
    BY DEF IInv, Types
  <2>4. /\ book' \in [Books -> BookRows \cup {Absent}] /\ book'[b] = row
        /\ \A d \in Books \ {b} : book'[d] = book[d]
    BY <1>3, <2>1, <2>2, <2>3
  <2>5. /\ copy' \in [Copies -> CopyRows \cup {Absent}]
        /\ \A c \in DOMAIN list : copy'[c] = here(c)
        /\ \A c \in Copies \ DOMAIN list :
              copy'[c] = IF c \in CopiesOf(b) THEN Absent ELSE copy[c]
    BY <1>3, <2>1, <2>2, <2>3
  <2>6. Types'
    BY <1>1, <2>4, <2>5 DEF IInv, Types
  <2>7. Standing'
    BY <1>1, <2>2, <2>5 DEF IInv, Standing
  <2>8. Rehomed' /\ NoRowIsStranded'
    <3>1. ~play.overtaken => request.lib \in libraries
      BY <1>1 DEF IInv, Rehomed
    <3>. QED
      BY <1>1, <2>1, <2>4, <3>1 DEF IInv, NoRowIsStranded, Rehomed, Kept
  <2>9. BooksInv'
    <3>1. SUFFICES ASSUME Unhurried PROVE (TitlesOnce /\ CopiesStand /\ EditStands /\ ToolStands)'
      BY <1>1 DEF BooksInv, Unhurried
    <3>2. TitlesOnce /\ CopiesStand /\ EditStands /\ ToolStands
      BY <3>1 DEF IInv, BooksInv
    <3>3. Kept(b) /\ book[b].lib = request.lib /\ CopiesOf(b) \subseteq DOMAIN list
      BY <1>1, <3>2 DEF EditStands
    <3>4. TitlesOnce'
      BY <1>3, <2>1, <2>4, <3>2, <3>3 DEF TitlesOnce, Kept
    <3>5. \A c \in Copies \ DOMAIN list : copy'[c] = copy[c] /\ (copy[c] # Absent => copy[c].book # b)
      BY <2>5, <3>3 DEF CopiesOf
    <3>6. \A c \in DOMAIN list : WorkOf[c] = Title[b]
      BY <1>1, <3>2 DEF EditStands
    <3>7. \A c, d \in DOMAIN list : c # d => list[c] # list[d]
      BY <1>1, <3>2 DEF EditStands
    <3>8. saved' = {c \in Copies : copy'[c] # Absent}
      BY <1>3, <2>1, <2>2, <2>5, <3>2, <3>5 DEF CopiesStand
    <3>9. \A c \in saved' : Kept(copy[c].book)' /\ Title[copy'[c].book] = WorkOf[c]
      <4>1. \A c \in saved' \ DOMAIN list : c \in saved /\ c \in Copies /\ copy'[c] = copy[c]
        BY <2>2, <3>2, <3>5 DEF CopiesStand
      <4>2. \A d : Kept(d) => Kept(d)'
        BY <2>1, <2>2, <2>3, <2>4 DEF Kept
      <4>3. \A c \in DOMAIN list : Kept(copy[c].book)' /\ Title[copy'[c].book] = WorkOf[c]
        BY <2>1, <2>5, <3>3, <3>6, <4>2
      <4>. QED
        BY <3>2, <4>1, <4>2, <4>3 DEF CopiesStand
    <3>10. \A c, d \in saved' :
             c # d /\ copy'[c].book = copy'[d].book => copy'[c].position # copy'[d].position
      <4>1. \A c \in saved' \ DOMAIN list :
              c \in saved /\ copy'[c] = copy[c] /\ copy'[c].book # b
        BY <2>2, <3>2, <3>5 DEF CopiesStand
      <4>2. \A c \in DOMAIN list : copy'[c].book = b /\ copy'[c].position = list[c]
        BY <2>1, <2>5
      <4>. QED
        BY <3>2, <3>7, <4>1, <4>2 DEF CopiesStand
    <3>11. CopiesStand'
      BY <3>8, <3>9, <3>10 DEF CopiesStand
    <3>12. EditStands'
      BY <1>1 DEF EditStands
    <3>13. ToolStands'
      BY <1>1, <3>1 DEF ToolStands, Unhurried, Looking
    <3>. QED
      BY <3>4, <3>11, <3>12, <3>13
  <2>. QED
    BY <1>4, <2>6, <2>7, <2>8, <2>9 DEF IInv
<1>. QED
  BY <1>5, <1>6
-----------------------------------------------------------------------------
(* The tool looks, and copies *)

\* A step of the tool that changes nothing but its own mind.
LEMMA Looked ==
  ASSUME IInv, tool # Idle, tool.at # "purge", NEW new, Looks(new),
         new = Idle \/ (new \in ToolSteps /\ new.at # "purge")
  PROVE  /\ Types' /\ Standing' /\ NoRowIsStranded' /\ Rehomed'
         /\ NamedWhole' /\ TreesWhole' /\ FilingStands' /\ CollectorKnows'
         /\ ToolReads(tool, new) => FilesInv'
         /\ new = Idle \/ new.at \notin {"first", "commit"} => BooksInv'
         /\ tool' = new
         /\ UNCHANGED <<play, rows, tree, request, collector, late, saved>>
<1>1. tool' = new /\ UNCHANGED <<play, rows, tree, request, collector, late, saved>>
  BY DEF Looks, Goes
<1>. USE DEF rows
<1>2. Types' /\ Standing'
  BY <1>1 DEF IInv, Types, Standing
<1>3. NoRowIsStranded' /\ Rehomed'
  BY <1>1, RowsQuiet
<1>4. /\ NamedWhole' /\ TreesWhole' /\ FilingStands' /\ CollectorKnows'
      /\ ToolReads(tool, new) => CopyingStands'
  BY <1>1, FilesQuiet
<1>5. new = Idle \/ new.at \notin {"first", "commit"} => BooksInv'
  BY <1>1, BooksQuiet
<1>. QED
  BY <1>1, <1>2, <1>3, <1>4, <1>5 DEF FilesInv

\* The tool goes on to another step.
LEMMA ToFacts ==
  ASSUME IInv, tool # Idle, NEW at \in Early \cup {"copy", "purge"} \cup Copied
  PROVE  /\ tool \in ToolSteps /\ To(at) \in ToolSteps /\ To(at).at = at
         /\ To(at).todo = tool.todo /\ To(at).copied = tool.copied
         /\ To(at).pairs = tool.pairs /\ To(at).first = tool.first
         /\ To(at).base = tool.base /\ To(at).list = tool.list
<1>1. tool \in ToolSteps
  BY DEF IInv, Types
<1>. QED
  BY <1>1 DEF To, ToolSteps

LEMMA BeginMergeStep ==
  ASSUME IInv, BeginMerge
  PROVE  IInv'
<1>1. /\ tool = Idle /\ libraries = Libs
      /\ tool' = [at |-> "answers", todo |-> {}, copied |-> {}, pairs |-> {},
                  first |-> <<>>, base |-> 0, list |-> <<>>]
      /\ UNCHANGED <<play, rows, tree, request, collector, late, saved>>
  BY DEF BeginMerge, Goes
<1>2. tool' \in ToolSteps /\ tool'.at = "answers"
  BY <1>1 DEF ToolSteps, Early
<1>. USE DEF rows
<1>3. Types' /\ Standing'
  BY <1>1, <1>2 DEF IInv, Types, Standing, Libs
<1>4. FilesInv'
  BY <1>1, <1>2, FilesQuiet DEF ToolReads, FilesInv, Early
<1>5. BooksInv' /\ NoRowIsStranded' /\ Rehomed'
  BY <1>1, <1>2, BooksQuiet, RowsQuiet
<1>. QED
  BY <1>3, <1>4, <1>5 DEF IInv

\* A look that ends the try or lets it go on.
LEMMA LookStep ==
  ASSUME IInv, CheckAnswers \/ CheckFields \/ Recheck
  PROVE  IInv'
<1>1. PICK at \in {"fields", "list", "pair"} :
        /\ tool # Idle /\ tool.at # "purge"
        /\ Looks(Idle) \/ Looks(To(at))
        /\ IF at = "pair" THEN tool.at \in Copied ELSE tool.at \in Early
  BY DEF CheckAnswers, CheckFields, Recheck, Tool, Early, Copied
<1>2. PICK new : /\ Looks(new)
                 /\ new = Idle \/ (new = To(at) /\ new \in ToolSteps /\ new.at = at)
                 /\ ToolReads(tool, new)
  <2>1. /\ To(at) \in ToolSteps /\ To(at).at = at
        /\ To(at).todo = tool.todo /\ To(at).copied = tool.copied
    BY <1>1, ToFacts DEF Early, Copied
  <2>2. tool.at \in Early => tool.copied = {}
    BY <1>1 DEF IInv, FilesInv, CopyingStands
  <2>3. ToolReads(tool, Idle) /\ ToolReads(tool, To(at))
    BY <1>1, <2>1, <2>2 DEF ToolReads, Early, Copied
  <2>. QED
    BY <1>1, <2>1, <2>3
<1>3. /\ Types' /\ Standing' /\ NoRowIsStranded' /\ Rehomed' /\ FilesInv' /\ BooksInv'
  BY <1>1, <1>2, Looked
<1>. QED
  BY <1>3 DEF IInv

LEMMA ListPhotosStep ==
  ASSUME IInv, ListPhotos
  PROVE  IInv'
<1>1. /\ tool # Idle /\ tool.at = "list" /\ late' = {}
      /\ tool' = [To("copy") EXCEPT !.todo = DOMAIN tree[Src]]
      /\ UNCHANGED <<play, rows, tree, request, collector, saved>>
  BY DEF ListPhotos, Tool, Goes
<1>2. DOMAIN tree[Src] \subseteq Images
  BY TreeFacts DEF IInv, Libs
<1>3. /\ tool' \in ToolSteps /\ tool'.at = "copy" /\ tool'.todo = DOMAIN tree[Src]
      /\ tool'.copied = {}
  <2>1. PICK next \in ToolSteps : next = To("copy") /\ next.at = "copy" /\ next.copied = tool.copied
    BY <1>1, ToFacts
  <2>2. tool.copied = {}
    BY <1>1 DEF IInv, FilesInv, CopyingStands, Early
  <2>3. tool' = [next EXCEPT !.todo = DOMAIN tree[Src]]
    BY <1>1, <2>1
  <2>. QED
    BY <1>2, <2>1, <2>2, <2>3 DEF ToolSteps
<1>4. Src \in libraries
  BY <1>1 DEF IInv, Standing
<1>. USE DEF rows
<1>5. Types' /\ Standing'
  BY <1>1, <1>3 DEF IInv, Types, Standing
<1>6. NamedWhole' /\ TreesWhole' /\ FilingStands' /\ CollectorKnows'
  BY <1>1, <1>4 DEF IInv, FilesInv, NamedWhole, TreesWhole, FilingStands, CollectorKnows, Sure, Whole, Fresh
<1>7. CopyingStands'
  BY <1>1, <1>3 DEF CopyingStands, Early, Copied
<1>8. BooksInv' /\ NoRowIsStranded' /\ Rehomed'
  BY <1>1, <1>3, BooksQuiet, RowsQuiet
<1>. QED
  BY <1>5, <1>6, <1>7, <1>8 DEF IInv, FilesInv

LEMMA CopyPhotoStep ==
  ASSUME IInv, CopyPhoto
  PROVE  IInv'
<1>1. PICK i \in tool.todo :
        /\ tool # Idle /\ tool.at = "copy"
        /\ tool' = [tool EXCEPT !.todo = @ \ {i},
                               !.copied = IF i \in DOMAIN tree[Src] THEN @ \cup {i} ELSE @]
        /\ tree' = IF i \in DOMAIN tree[Src] THEN [tree EXCEPT ![Dst] = WithPut(@, i)] ELSE tree
        /\ UNCHANGED <<play, rows, request, collector, late, saved>>
  BY DEF CopyPhoto, Tool, Goes
<1>2. tool \in ToolSteps /\ i \in Images /\ Src \in Libs /\ Dst \in Libs /\ Src # Dst
  BY <1>1, LibraryMergeAssumption DEF IInv, Types, ToolSteps, Libs
<1>3. /\ tool' \in ToolSteps /\ tool'.at = "copy" /\ tool'.todo = tool.todo \ {i}
      /\ tool'.copied = IF i \in DOMAIN tree[Src] THEN tool.copied \cup {i} ELSE tool.copied
  BY <1>1, <1>2 DEF ToolSteps
<1>4. ASSUME i \in DOMAIN tree[Src]
      PROVE  /\ tree' \in [Libs -> Maps(Images, Files)]
             /\ \A k \in Libs \ {Dst} : tree'[k] = tree[k]
             /\ DOMAIN tree'[Dst] = DOMAIN tree[Dst] \cup {i}
             /\ \A k \in DOMAIN tree[Dst] \ {i} : tree'[Dst][k] = tree[Dst][k]
             /\ ~tree'[Dst][i].old
             /\ i \notin DOMAIN tree[Dst] \/ tree[Dst][i].sound => tree'[Dst][i].sound
  BY <1>1, <1>2, <1>4, FilePut
<1>typed. tree' \in [Libs -> Maps(Images, Files)] /\ tree'[Src] = tree[Src]
  BY <1>1, <1>2, <1>4 DEF IInv, Types
<1>whole. \A l \in Libs : \A j : Whole(l, j) => Whole(l, j)'
  BY <1>1, <1>4 DEF Whole
<1>fresh. \A l \in Libs : \A j : Fresh(l, j) => Fresh(l, j)'
  BY <1>1, <1>4 DEF Fresh
<1>sound. ASSUME NEW l \in Libs, \A j \in DOMAIN tree[l] : tree[l][j].sound
      PROVE  \A j \in DOMAIN tree'[l] : tree'[l][j].sound
  BY <1>1, <1>4, <1>sound
<1>there. i \in DOMAIN tree[Src] => Fresh(Dst, i)'
  BY <1>4 DEF Fresh
<1>. USE DEF rows
<1>5. Types' /\ Standing'
  BY <1>1, <1>3, <1>typed DEF IInv, Types, Standing
<1>6. \A p \in Photos : Sure(p)' => Sure(p) /\ photo'[p] = photo[p] /\ photo[p] \in Libs
  BY <1>1 DEF Sure, IInv, Types
<1>7. NamedWhole'
  BY <1>1, <1>whole, <1>6 DEF IInv, FilesInv, NamedWhole
<1>8. TreesWhole'
  <2>1. play.uploads \cup {Src} \subseteq Libs
    BY LibraryMergeAssumption DEF IInv, Types, Libs
  <2>. QED
    BY <1>1, <1>sound, <2>1 DEF IInv, FilesInv, TreesWhole
<1>9. FilingStands'
  <2>1. request # Idle => request.lib \in Libs
    BY DEF IInv, Types, Requests, Filings, Edits, Answering
  <2>. QED
    BY <1>1, <1>fresh, <2>1 DEF IInv, FilesInv, FilingStands
<1>10. CollectorKnows'
  BY <1>1, <1>fresh, <1>6 DEF IInv, FilesInv, CollectorKnows
<1>11. CopyingStands'
  <2>1. /\ DOMAIN tree[Src] \subseteq tool.todo \cup tool.copied \cup late
        /\ \A j \in tool.copied : Fresh(Dst, j)
    BY <1>1 DEF IInv, FilesInv, CopyingStands
  <2>2. DOMAIN tree'[Src] \subseteq tool'.todo \cup tool'.copied \cup late'
    BY <1>1, <1>3, <1>typed, <2>1
  <2>3. \A j \in tool'.copied : Fresh(Dst, j)'
    BY <1>2, <1>3, <1>fresh, <1>there, <2>1
  <2>. QED
    BY <1>3, <2>2, <2>3 DEF CopyingStands, Early, Copied
<1>12. BooksInv' /\ NoRowIsStranded' /\ Rehomed'
  BY <1>1, <1>3, BooksQuiet, RowsQuiet
<1>. QED
  BY <1>5, <1>7, <1>8, <1>9, <1>10, <1>11, <1>12 DEF IInv, FilesInv

LEMMA VerifyPhotosStep ==
  ASSUME IInv, VerifyPhotos
  PROVE  IInv'
<1>1. /\ tool # Idle /\ tool.at = "copy" /\ tool.todo = {}
      /\ Looks(Idle) \/ (Looks(To("recheck")) /\ \A i \in tool.copied : Sound(i))
  BY DEF VerifyPhotos, Tool
<1>2. CASE Looks(Idle)
  BY <1>1, <1>2, Looked DEF ToolReads, IInv
<1>3. CASE Looks(To("recheck")) /\ \A i \in tool.copied : Sound(i)
  <2>1. /\ To("recheck") \in ToolSteps /\ To("recheck").at = "recheck"
        /\ To("recheck").todo = tool.todo /\ To("recheck").copied = tool.copied
    BY <1>1, ToFacts DEF Copied
  <2>2. /\ Types' /\ Standing' /\ NoRowIsStranded' /\ Rehomed' /\ BooksInv'
        /\ NamedWhole' /\ TreesWhole' /\ FilingStands' /\ CollectorKnows'
        /\ tool' = To("recheck") /\ UNCHANGED <<rows, tree, late>>
    BY <1>1, <1>3, <2>1, Looked
  <2>3. CopyingStands'
    BY <1>1, <1>3, <2>1, <2>2 DEF IInv, FilesInv, CopyingStands, Sound, Whole, Fresh, Early, Copied
  <2>. QED
    BY <2>2, <2>3 DEF IInv, FilesInv
<1>. QED
  BY <1>1, <1>2, <1>3
-----------------------------------------------------------------------------
(* The tool looks at the books *)

\* The highest of the values a function takes on a finite set.
LEMMA HighestExists ==
  ASSUME NEW T, IsFiniteSet(T), T # {}, NEW f \in [T -> Nat]
  PROVE  \E c \in T : \A e \in T : f[e] <= f[c]
<1>. DEFINE Highest(B, c) == c \in B /\ \A e \in B : f[e] <= f[c]
            Bad == {B \in SUBSET T : B # {} /\ ~ \E c \in B : Highest(B, c)}
<1>1. SUFFICES ASSUME Bad # {} PROVE FALSE
  <2>1. T \notin Bad
    BY <1>1
  <2>. QED
    BY <2>1
<1>2. PICK B \in Bad : \A A \in Bad : <<A, B>> \notin StrictSubsetOrdering(T)
  <2>1. IsWellFoundedOn(StrictSubsetOrdering(T), SUBSET T) /\ Bad \subseteq SUBSET T
    BY FS_StrictSubsetOrderingWellFounded, FS_FiniteSubsetsOfFinite
  <2>. HIDE DEF Bad
  <2>. QED
    BY <1>1, <2>1, WFMin
<1>3. PICK c \in B : TRUE
  BY <1>2
<1>4. B \ {c} \notin Bad /\ f[c] \in Nat
  BY <1>2, <1>3 DEF StrictSubsetOrdering
<1>5. CASE B \ {c} = {}
  <2>1. Highest(B, c)
    BY <1>3, <1>4, <1>5
  <2>. QED
    BY <1>2, <2>1
<1>6. CASE B \ {c} # {}
  <2>1. PICK d \in B \ {c} : Highest(B \ {c}, d)
    BY <1>2, <1>4, <1>6
  <2>2. \A e \in B : f[e] \in Nat
    BY <1>2
  <2>3. Highest(B, c) \/ Highest(B, d)
    BY <1>3, <2>1, <2>2
  <2>. QED
    BY <1>2, <1>3, <2>1, <2>3
<1>. QED
  BY <1>5, <1>6

\* A source book's copies come after the target's own.
LEMMA BaseFacts ==
  ASSUME Types, NEW b
  PROVE  Base(b) \in Nat /\ \A c \in CopiesOf(b) : copy[c].position < Base(b)
<1>. DEFINE S == CopiesOf(b)
            places == {copy[c].position : c \in S}
<1>1. IsFiniteSet(S) /\ \A c \in S : copy[c].position \in Nat
  BY OrderFacts DEF CopiesOf, Types, CopyRows
<1>2. CASE S = {}
  BY <1>2 DEF Base
<1>3. CASE S # {}
  <2>1. PICK f : f = [c \in S |-> copy[c].position]
    OBVIOUS
  <2>2. f \in [S -> Nat] /\ \A c \in S : f[c] = copy[c].position
    BY <1>1, <2>1
  <2>3. PICK c \in S : \A e \in S : f[e] <= f[c]
    <3>. HIDE DEF S
    <3>. QED
      BY <1>1, <1>3, <2>2, HighestExists
  <2>4. f[c] \in places /\ \A n \in places : n \in Nat /\ f[c] >= n
    BY <1>1, <2>2, <2>3
  <2>5. Max(places) \in places /\ \A n \in places : Max(places) >= n
    <3>. HIDE DEF places
    <3>. QED
      BY <2>4 DEF Max
  <2>6. Base(b) = Max(places) + 1
    BY <1>3 DEF Base
  <2>7. \A e \in S : copy[e].position \in places
    OBVIOUS
  <2>. HIDE DEF places
  <2>. QED
    BY <2>4, <2>5, <2>6, <2>7
<1>. QED
  BY <1>2, <1>3

LEMMA PairStep ==
  ASSUME IInv, Pair
  PROVE  IInv'
<1>1. tool # Idle /\ tool.at = "pair" /\ tool \in ToolSteps
  BY DEF Pair, Tool, IInv, Types
<1>2. Collisions \subseteq Books \X Books
  BY DEF Collisions, BooksOf
<1>3. PICK new \in ToolSteps :
        /\ Looks(new) /\ new.at \in {"first", "commit"} /\ new.pairs = Collisions
        /\ new.at = "commit" => Collisions = {}
        /\ new.at = "first" => new.first \in Collisions
        /\ new.todo = tool.todo /\ new.copied = tool.copied
  <2>1. CASE Collisions = {} /\ Looks([To("commit") EXCEPT !.pairs = {}])
    <3>1. PICK next \in ToolSteps : /\ next = To("commit") /\ next.at = "commit"
                                    /\ next.todo = tool.todo /\ next.copied = tool.copied
      BY <1>1, ToFacts DEF Copied
    <3>2. PICK new : new = [next EXCEPT !.pairs = {}]
      OBVIOUS
    <3>3. /\ new \in ToolSteps /\ new.at = "commit" /\ new.pairs = {}
          /\ new.todo = tool.todo /\ new.copied = tool.copied
      BY <3>1, <3>2 DEF ToolSteps
    <3>. QED
      BY <2>1, <3>1, <3>2, <3>3
  <2>2. ASSUME NEW pair \in Collisions,
               Looks([tool EXCEPT !.at = "first", !.pairs = Collisions, !.first = pair])
        PROVE  \E new \in ToolSteps :
                 /\ Looks(new) /\ new.at = "first" /\ new.pairs = Collisions
                 /\ new.first \in Collisions
                 /\ new.todo = tool.todo /\ new.copied = tool.copied
    <3>1. PICK new : new = [tool EXCEPT !.at = "first", !.pairs = Collisions, !.first = pair]
      OBVIOUS
    <3>2. /\ new \in ToolSteps /\ new.at = "first" /\ new.pairs = Collisions /\ new.first = pair
          /\ new.todo = tool.todo /\ new.copied = tool.copied
      <4>. HIDE DEF Collisions
      <4>. QED
        BY <1>1, <1>2, <2>2, <3>1 DEF ToolSteps, Copied
    <3>. QED
      BY <2>2, <3>1, <3>2
  <2>. QED
    BY <2>1, <2>2 DEF Pair
<1>4. ToolReads(tool, new)
  BY <1>1, <1>3 DEF ToolReads, Copied
<1>5. /\ Types' /\ Standing' /\ NoRowIsStranded' /\ Rehomed' /\ FilesInv'
      /\ tool' = new /\ UNCHANGED <<play, rows, request, saved>>
  BY <1>1, <1>3, <1>4, Looked
<1>6. BooksInv'
  <2>. USE DEF rows
  <2>1. SUFFICES ASSUME Unhurried PROVE (TitlesOnce /\ CopiesStand /\ EditStands /\ ToolStands)'
    BY <1>5 DEF BooksInv, Unhurried
  <2>2. TitlesOnce /\ CopiesStand /\ EditStands
    BY <2>1 DEF IInv, BooksInv
  <2>3. TitlesOnce' /\ CopiesStand' /\ EditStands'
    BY <1>5, <2>2 DEF TitlesOnce, CopiesStand, EditStands, Kept, CopiesOf
  <2>4. Collisions' = Collisions
    BY <1>5 DEF Collisions, BooksOf, Kept
  <2>5. ToolStands'
    BY <1>3, <1>5, <2>4 DEF ToolStands
  <2>. QED
    BY <2>3, <2>5
<1>. QED
  BY <1>5, <1>6 DEF IInv

LEMMA FirstCopiesStep ==
  ASSUME IInv, FirstCopies
  PROVE  IInv'
<1>1. /\ tool # Idle /\ tool.at = "first" /\ tool \in ToolSteps
      /\ Looks([tool EXCEPT !.at = "commit", !.base = Base(tool.first[2]),
                            !.list = InOrder(tool.first[1])])
  BY DEF FirstCopies, Tool, IInv, Types
<1>2. Base(tool.first[2]) \in Nat /\ InOrder(tool.first[1]) \in Maps(Copies, Nat)
  BY BaseFacts, OrderFacts DEF IInv
<1>3. PICK new : new = [tool EXCEPT !.at = "commit", !.base = Base(tool.first[2]),
                                    !.list = InOrder(tool.first[1])]
  OBVIOUS
<1>4. /\ new \in ToolSteps /\ new.at = "commit" /\ new.pairs = tool.pairs /\ new.first = tool.first
      /\ new.todo = tool.todo /\ new.copied = tool.copied
      /\ new.base = Base(tool.first[2]) /\ new.list = InOrder(tool.first[1])
  BY <1>1, <1>2, <1>3 DEF ToolSteps, Copied
<1>5. ToolReads(tool, new)
  BY <1>1, <1>4 DEF ToolReads, Copied
<1>6. /\ Types' /\ Standing' /\ NoRowIsStranded' /\ Rehomed' /\ FilesInv'
      /\ tool' = new /\ UNCHANGED <<play, rows, request, saved>>
  BY <1>1, <1>3, <1>4, <1>5, Looked
<1>7. BooksInv'
  <2>. USE DEF rows
  <2>1. SUFFICES ASSUME Unhurried PROVE (TitlesOnce /\ CopiesStand /\ EditStands /\ ToolStands)'
    BY <1>6 DEF BooksInv, Unhurried
  <2>2. TitlesOnce /\ CopiesStand /\ EditStands /\ ToolStands
    BY <2>1 DEF IInv, BooksInv
  <2>3. TitlesOnce' /\ CopiesStand' /\ EditStands'
    BY <1>6, <2>2 DEF TitlesOnce, CopiesStand, EditStands, Kept, CopiesOf
  <2>4. Collisions' = Collisions
    BY <1>6 DEF Collisions, BooksOf, Kept
  <2>5. \A b : Base(b)' = Base(b) /\ InOrder(b)' = InOrder(b)
    BY <1>6 DEF Base, InOrder, Before, CopiesOf
  <2>6. tool.pairs = Collisions /\ tool.first \in tool.pairs
    BY <1>1, <2>2 DEF ToolStands
  <2>7. ToolStands'
    BY <1>4, <1>6, <2>4, <2>5, <2>6 DEF ToolStands
  <2>. QED
    BY <2>3, <2>7
<1>. QED
  BY <1>6, <1>7 DEF IInv

LEMMA DieStep ==
  ASSUME IInv, Die
  PROVE  IInv'
<1>1. tool' = Idle /\ UNCHANGED <<play, rows, tree, request, collector, late, saved>>
  BY DEF Die
<1>. USE DEF rows
<1>2. Types' /\ Standing'
  BY <1>1 DEF IInv, Types, Standing
<1>3. FilesInv'
  BY <1>1, FilesQuiet DEF ToolReads, FilesInv
<1>4. BooksInv' /\ NoRowIsStranded' /\ Rehomed'
  BY <1>1, BooksQuiet, RowsQuiet
<1>. QED
  BY <1>2, <1>3, <1>4 DEF IInv

\* What is purged belongs to a library that is gone.
LEMMA PurgeStep ==
  ASSUME IInv, Purge
  PROVE  IInv'
<1>1. /\ tool # Idle /\ tool.at = "purge" /\ tool' \in {tool, Idle}
      /\ UNCHANGED <<play, libraries, book, copy, photo, answers, request, collector, late, saved>>
  BY DEF Purge, Tool, rows
<1>2. Src \in Libs /\ Dst \in Libs /\ Src # Dst /\ Src \notin libraries /\ libraries \subseteq Libs
  BY <1>1, LibraryMergeAssumption DEF Libs, IInv, Standing, Types
<1>3. /\ tree' \in [Libs -> Maps(Images, Files)] /\ tree'[Dst] = tree[Dst]
      /\ DOMAIN tree'[Src] \subseteq DOMAIN tree[Src]
      /\ \A i \in DOMAIN tree'[Src] : tree'[Src][i] = tree[Src][i]
  <2>1. CASE UNCHANGED tree
    BY <2>1 DEF IInv, Types
  <2>2. ASSUME NEW i, tree' = [tree EXCEPT ![Src] = Without(@, {i})]
        PROVE  /\ tree' \in [Libs -> Maps(Images, Files)] /\ tree'[Dst] = tree[Dst]
               /\ DOMAIN tree'[Src] \subseteq DOMAIN tree[Src]
               /\ \A j \in DOMAIN tree'[Src] : tree'[Src][j] = tree[Src][j]
    BY <1>2, <2>2, FilesTaken
  <2>. QED
    BY <2>1, <2>2 DEF Purge
<1>4. Types' /\ Standing'
  BY <1>1, <1>3 DEF IInv, Types, Standing
<1>5. \A p \in Photos : Sure(p)' => Sure(p) /\ photo[p] = Dst
  BY <1>1, <1>2 DEF Sure, IInv, Types, Standing, Libs
<1>6. NamedWhole' /\ CollectorKnows'
  BY <1>1, <1>3, <1>5 DEF IInv, FilesInv, NamedWhole, CollectorKnows, Whole, Fresh
<1>7. TreesWhole'
  <2>1. play.uploads \cup {Src} \subseteq Libs
    BY LibraryMergeAssumption DEF IInv, Types, Libs
  <2>. QED
    BY <1>1, <1>3, <2>1 DEF IInv, FilesInv, TreesWhole, Libs
<1>8. FilingStands'
  BY <1>1, <1>2, <1>3 DEF IInv, FilesInv, FilingStands, Fresh, Libs
<1>9. CopyingStands'
  BY <1>1 DEF CopyingStands, Early, Copied
<1>10. BooksInv' /\ NoRowIsStranded' /\ Rehomed'
  BY <1>1, BooksQuiet, RowsQuiet
<1>. QED
  BY <1>4, <1>6, <1>7, <1>8, <1>9, <1>10 DEF IInv, FilesInv
-----------------------------------------------------------------------------
(* The commit *)

LEMMA PlacedFacts ==
  ASSUME Types, tool # Idle, NEW pair \in tool.pairs, NEW c \in DOMAIN Placed(pair)
  PROVE  /\ Placed(pair)[c] \in CopyRows /\ Placed(pair)[c] # Absent
         /\ Placed(pair)[c].book = pair[2]
<1>1. tool \in ToolSteps /\ pair \in Books \X Books
  BY DEF Types, ToolSteps
<1>2. tool.base \in Nat /\ \A d \in DOMAIN tool.list : tool.list[d] \in Nat
  BY <1>1, MapFacts DEF ToolSteps
<1>3. Base(pair[2]) \in Nat /\ \A d \in DOMAIN InOrder(pair[1]) : InOrder(pair[1])[d] \in Nat
  BY BaseFacts, OrderFacts
<1>. DEFINE list == IF pair = tool.first THEN tool.list ELSE InOrder(pair[1])
            base == IF pair = tool.first THEN tool.base ELSE Base(pair[2])
<1>4. base \in Nat /\ \A d \in DOMAIN list : list[d] \in Nat
  BY <1>2, <1>3
<1>5. Placed(pair) = [d \in DOMAIN list |-> [book |-> pair[2], position |-> base + list[d]]]
  BY DEF Placed
<1>. HIDE DEF list, base
<1>6. Placed(pair)[c] = [book |-> pair[2], position |-> base + list[c]] /\ list[c] \in Nat
  BY <1>4, <1>5
<1>7. Placed(pair)[c] \in CopyRows /\ Placed(pair)[c].book = pair[2]
  BY <1>1, <1>4, <1>6 DEF CopyRows
<1>. QED
  BY <1>7, LibraryMergeAssumption

LEMMA ReparentedFacts ==
  ASSUME Types, tool # Idle, NEW c \in Copies
  PROVE  /\ Reparented(c) \in CopyRows \cup {Absent}
         /\ copy[c] = Absent => Reparented(c) = Absent
<1>. DEFINE moves == {pair \in tool.pairs : c \in DOMAIN Placed(pair)}
<1>1. CASE moves = {} \/ copy[c] = Absent
  BY <1>1 DEF Reparented, Types
<1>2. CASE moves # {} /\ copy[c] # Absent
  <2>1. PICK pair \in moves : Reparented(c) = Placed(pair)[c]
    BY <1>2 DEF Reparented
  <2>. QED
    BY <1>2, <2>1, PlacedFacts
<1>. QED
  BY <1>1, <1>2

\* Where nobody overtook the tool, a copy goes with its book's pair, or stays.
LEMMA CopyFate ==
  ASSUME IInv, Unhurried, Tool("commit"), NEW c \in saved
  PROVE  \/ \E pair \in Collisions :
              /\ c \in CopiesOf(pair[1]) /\ Reparented(c) \in CopyRows
              /\ Reparented(c).book = pair[2]
              /\ Reparented(c).position = Base(pair[2]) + InOrder(pair[1])[c]
         \/ copy[c].book \notin Collided /\ Reparented(c) = copy[c]
<1>1. /\ tool # Idle /\ tool.pairs = Collisions /\ Types
      /\ tool.pairs # {} => tool.base = Base(tool.first[2]) /\ tool.list = InOrder(tool.first[1])
  BY DEF Tool, IInv, BooksInv, ToolStands
<1>2. \A pair \in tool.pairs :
        Placed(pair) = [d \in CopiesOf(pair[1]) |->
                          [book |-> pair[2], position |-> Base(pair[2]) + InOrder(pair[1])[d]]]
  <2>1. \A pair : DOMAIN InOrder(pair[1]) = CopiesOf(pair[1])
    BY DEF InOrder
  <2>2. SUFFICES ASSUME NEW pair \in tool.pairs
                 PROVE  Placed(pair) = [d \in CopiesOf(pair[1]) |->
                          [book |-> pair[2], position |-> Base(pair[2]) + InOrder(pair[1])[d]]]
    OBVIOUS
  <2>3. CASE pair = tool.first
    BY <1>1, <2>1, <2>3 DEF Placed
  <2>4. CASE pair # tool.first
    BY <1>1, <2>1, <2>4 DEF Placed
  <2>. QED
    BY <2>3, <2>4
<1>3. copy[c] # Absent /\ c \in Copies
  BY DEF IInv, BooksInv, CopiesStand
<1>. DEFINE moves == {pair \in tool.pairs : c \in DOMAIN Placed(pair)}
<1>4. CASE moves # {}
  <2>1. PICK pair \in moves : Reparented(c) = Placed(pair)[c]
    BY <1>3, <1>4 DEF Reparented
  <2>2. c \in CopiesOf(pair[1]) /\ pair \in Collisions
    BY <1>1, <1>2, <2>1
  <2>3. Placed(pair)[c] = [book |-> pair[2], position |-> Base(pair[2]) + InOrder(pair[1])[c]]
    BY <1>2, <2>1, <2>2
  <2>4. Reparented(c) \in CopyRows
    BY <1>1, <2>1, PlacedFacts
  <2>. QED
    BY <2>1, <2>2, <2>3, <2>4
<1>5. CASE moves = {}
  <2>1. \A pair \in tool.pairs : c \notin CopiesOf(pair[1])
    BY <1>2, <1>5
  <2>2. copy[c].book \notin Collided
    BY <1>3, <2>1 DEF Collided, CopiesOf
  <2>3. Reparented(c) = copy[c]
    BY <1>3, <1>5, <2>2 DEF Reparented
  <2>. QED
    BY <2>2, <2>3
<1>. QED
  BY <1>4, <1>5

\* Two books of one title never meet in the target, and copies stay apart.
LEMMA BooksMoved ==
  ASSUME IInv, Unhurried, Tool("commit"), ~TitleTwice,
         UNCHANGED saved,
         copy' = [c \in Copies |-> Reparented(c)],
         book' = [b \in Books |->
                    IF b \in Collided THEN Absent
                    ELSE IF b \in BooksOf(Src) THEN [book[b] EXCEPT !.lib = Dst] ELSE book[b]]
  PROVE  TitlesOnce' /\ CopiesStand'
<1>1. /\ TitlesOnce /\ CopiesStand /\ tool.pairs = Collisions /\ Types
      /\ book \in [Books -> BookRows \cup {Absent}] /\ Src # Dst
  BY LibraryMergeAssumption DEF Tool, IInv, BooksInv, ToolStands, Types
<1>2. \A b \in Books :
        /\ Kept(b)' <=> Kept(b) /\ b \notin Collided
        /\ Kept(b)' => book[b].lib \in Libs
  <2>1. SUFFICES ASSUME NEW b \in Books
                 PROVE  /\ Kept(b)' <=> Kept(b) /\ b \notin Collided
                        /\ Kept(b)' => book[b].lib \in Libs
    OBVIOUS
  <2>2. Kept(b) => book[b] \in BookRows /\ book[b].lib \in Libs
                   /\ [book[b] EXCEPT !.lib = Dst] \in BookRows
    BY <1>1 DEF Kept, BookRows, Libs
  <2>. QED
    BY <2>2, LibraryMergeAssumption DEF Kept, BooksOf
<1>3. \A b \in Collided : b \in BooksOf(Src)
  BY <1>1 DEF Collided, Collisions
<1>4. TitlesOnce'
  <2>1. SUFFICES ASSUME NEW b \in Books, NEW d \in Books, b # d, Kept(b)', Kept(d)', Title[b] = Title[d]
                 PROVE  FALSE
    BY DEF TitlesOnce
  <2>2. b \notin Collided /\ d \notin Collided /\ Kept(b) /\ Kept(d) /\ book[b].lib \in Libs /\ book[d].lib \in Libs
    BY <1>2, <2>1
  <2>3. CASE book[b].lib = book[d].lib
    BY <1>1, <2>1, <2>2, <2>3 DEF TitlesOnce
  <2>4. ASSUME NEW x \in {b, d}, NEW y \in {b, d}, x \in BooksOf(Src), y \in BooksOf(Dst)
        PROVE  FALSE
    <3>1. <<x, y>> \in Collisions
      BY <2>1, <2>4 DEF Collisions
    <3>. QED
      BY <2>2, <3>1 DEF TitleTwice
  <2>. QED
    BY <2>2, <2>3, <2>4 DEF Libs, BooksOf
<1>5. \A pair \in Collisions :
        /\ pair[1] \in BooksOf(Src) /\ pair[2] \in BooksOf(Dst) /\ Title[pair[1]] = Title[pair[2]]
        /\ pair[2] \notin Collided
  BY <1>1, <1>3 DEF Collisions, BooksOf
<1>6. ASSUME NEW c \in saved
      PROVE  /\ copy'[c] # Absent /\ Kept(copy[c].book)'
             /\ Title[copy'[c].book] = WorkOf[c]
  <2>1. c \in Copies /\ copy'[c] = Reparented(c) /\ copy[c] \in CopyRows
        /\ Kept(copy[c].book) /\ Title[copy[c].book] = WorkOf[c]
    BY <1>1, <1>6 DEF CopiesStand, Types
  <2>2. CASE \E pair \in Collisions :
              /\ c \in CopiesOf(pair[1]) /\ Reparented(c) \in CopyRows
              /\ Reparented(c).book = pair[2]
    <3>1. PICK pair \in Collisions :
              /\ c \in CopiesOf(pair[1]) /\ Reparented(c) \in CopyRows
              /\ Reparented(c).book = pair[2]
      BY <2>2
    <3>2. pair[1] = copy[c].book /\ pair[2] \in Books /\ Kept(pair[2])
      BY <1>5, <3>1 DEF CopiesOf, BooksOf
    <3>3. Kept(pair[2])'
      BY <1>2, <1>5, <3>2
    <3>4. copy'[c].book = pair[2] /\ copy'[c] # Absent
      BY <2>1, <3>1, LibraryMergeAssumption
    <3>. QED
      BY <1>5, <2>1, <3>2, <3>3, <3>4 DEF Kept
  <2>3. CASE copy[c].book \notin Collided /\ Reparented(c) = copy[c]
    <3>1. copy[c].book \in Books
      BY <2>1 DEF CopyRows
    <3>2. Kept(copy[c].book)'
      BY <1>2, <2>1, <2>3, <3>1 DEF Kept
    <3>. QED
      BY <2>1, <2>3, <3>2, LibraryMergeAssumption
  <2>. QED
    BY <2>2, <2>3, CopyFate
<1>7. ASSUME NEW c \in saved, NEW d \in saved, c # d, copy'[c].book = copy'[d].book
      PROVE  copy'[c].position # copy'[d].position
  <2>1. /\ c \in Copies /\ copy'[c] = Reparented(c) /\ copy[c] \in CopyRows
        /\ d \in Copies /\ copy'[d] = Reparented(d) /\ copy[d] \in CopyRows
        /\ copy[c].book = copy[d].book => copy[c].position # copy[d].position
    BY <1>1, <1>7 DEF CopiesStand, Types
  <2>. DEFINE Moves(x, pair) == /\ x \in CopiesOf(pair[1]) /\ copy'[x].book = pair[2]
                                /\ copy'[x].position = Base(pair[2]) + InOrder(pair[1])[x]
              Stays(x)       == copy[x].book \notin Collided /\ copy'[x] = copy[x]
  <2>2. \A x \in {c, d} : (\E pair \in Collisions : Moves(x, pair)) \/ Stays(x)
    BY <2>1, CopyFate
  <2>3. ASSUME NEW x \in {c, d}, NEW y \in {c, d}, x # y,
               NEW pair \in Collisions, Moves(x, pair), Stays(y)
        PROVE  copy'[x].position # copy'[y].position
    <3>1. y \in CopiesOf(pair[2])
      BY <1>7, <2>1, <2>3, LibraryMergeAssumption DEF CopiesOf
    <3>2. copy[y].position < Base(pair[2]) /\ Base(pair[2]) \in Nat
          /\ InOrder(pair[1])[x] \in Nat /\ copy[y].position \in Nat
      BY <1>1, <2>1, <2>3, <3>1, BaseFacts, OrderFacts DEF CopyRows
    <3>. QED
      BY <2>3, <3>2
  <2>4. ASSUME NEW p \in Collisions, NEW q \in Collisions, Moves(c, p), Moves(d, q)
        PROVE  copy'[c].position # copy'[d].position
    <3>1. p[2] = q[2] /\ Title[p[1]] = Title[q[1]]
      BY <1>5, <1>7, <2>4
    <3>2. p[1] = q[1]
      BY <1>1, <1>5, <3>1 DEF TitlesOnce, BooksOf
    <3>3. /\ Base(p[2]) \in Nat /\ InOrder(p[1])[c] \in Nat /\ InOrder(p[1])[d] \in Nat
          /\ InOrder(p[1])[c] # InOrder(p[1])[d]
      BY <1>1, <1>7, <2>4, <3>2, BaseFacts, OrderFacts
    <3>. QED
      BY <2>4, <3>1, <3>2, <3>3
  <2>. QED
    BY <1>7, <2>1, <2>2, <2>3, <2>4
<1>8. saved' = {c \in Copies : copy'[c] # Absent}
  <2>1. \A c \in Copies : copy'[c] # Absent => copy[c] # Absent
    BY <1>1, ReparentedFacts DEF Tool
  <2>. QED
    BY <1>1, <1>6, <2>1 DEF CopiesStand
<1>9. CopiesStand'
  BY <1>6, <1>7, <1>8 DEF CopiesStand, Kept
<1>. QED
  BY <1>4, <1>9

LEMMA CommitStep ==
  ASSUME IInv, Commit
  PROVE  IInv'
<1>1. /\ Tool("commit") /\ tool # Idle /\ tool.at = "commit"
      /\ play.overtaken \/ request = Idle
      /\ UNCHANGED <<play, tree, request, collector, late, saved>>
  BY DEF Commit, Tool
<1>2. CASE TitleTwice \/ LeftBehind
  <2>1. tool' = Idle /\ UNCHANGED <<libraries, book, copy, photo, answers>>
    BY <1>2 DEF Commit, rows
  <2>2. Types' /\ Standing'
    BY <1>1, <2>1 DEF IInv, Types, Standing
  <2>3. FilesInv'
    BY <1>1, <2>1, FilesQuiet DEF ToolReads, FilesInv
  <2>4. BooksInv' /\ NoRowIsStranded' /\ Rehomed'
    BY <1>1, <2>1, BooksQuiet, RowsQuiet
  <2>. QED
    BY <2>2, <2>3, <2>4 DEF IInv
<1>3. CASE ~TitleTwice /\ ~LeftBehind
  <2>1. /\ tool' = To("purge") /\ libraries' = libraries \ {Src} /\ UNCHANGED answers
        /\ copy' = [c \in Copies |-> Reparented(c)]
        /\ book' = [b \in Books |->
                      IF b \in Collided THEN Absent
                      ELSE IF b \in BooksOf(Src) THEN [book[b] EXCEPT !.lib = Dst] ELSE book[b]]
        /\ photo' = [p \in Photos |-> IF photo[p] = Src THEN Dst ELSE photo[p]]
    BY <1>3 DEF Commit
  <2>2. Src \in Libs /\ Dst \in Libs /\ Src # Dst /\ Libs = {Src, Dst} /\ Absent \notin Libs
    BY LibraryMergeAssumption DEF Libs
  <2>3. tool' \in ToolSteps /\ tool'.at = "purge"
    BY <1>1, <2>1, ToFacts
  <2>4. Dst \in libraries' /\ Src \notin libraries' /\ libraries \subseteq Libs
    BY <2>1, <2>2 DEF IInv, Standing, Types
  <2>5. \A p \in Photos : /\ photo'[p] \in {Dst, Absent}
                          /\ photo'[p] = Dst <=> photo[p] \in {Src, Dst}
    BY <2>1, <2>2 DEF IInv, Types
  <2>6. ASSUME NEW b \in Books
        PROVE  /\ book'[b] \in BookRows \cup {Absent}
               /\ book'[b] # Absent => book'[b].lib = Dst \/ (book'[b] = book[b] /\ b \notin BooksOf(Src))
    <3>1. book'[b] = IF b \in Collided THEN Absent
                     ELSE IF b \in BooksOf(Src) THEN [book[b] EXCEPT !.lib = Dst] ELSE book[b]
      BY <2>1
    <3>2. book[b] \in BookRows => [book[b] EXCEPT !.lib = Dst] \in BookRows
                                  /\ [book[b] EXCEPT !.lib = Dst].lib = Dst
      BY <2>2 DEF BookRows
    <3>3. book[b] \in BookRows \cup {Absent} /\ (b \in BooksOf(Src) => book[b] \in BookRows)
      BY DEF BooksOf, Kept, IInv, Types
    <3>. QED
      BY <3>1, <3>2, <3>3
  <2>7. Types'
    <3>1. copy' \in [Copies -> CopyRows \cup {Absent}]
      BY <1>1, <2>1, ReparentedFacts DEF IInv
    <3>2. book' \in [Books -> BookRows \cup {Absent}]
      BY <2>1, <2>6
    <3>3. photo' \in [Photos -> Libs \cup {Absent}]
      BY <2>1, <2>2, <2>5
    <3>. QED
      BY <1>1, <2>1, <2>3, <3>1, <3>2, <3>3 DEF IInv, Types
  <2>8. Standing'
    <3>1. \A c \in Copies : copy'[c] # Absent => c \in saved'
      BY <1>1, <2>1, ReparentedFacts DEF IInv, Standing
    <3>. QED
      BY <2>3, <2>4, <2>5, <3>1 DEF Standing
  <2>9. /\ DOMAIN tree[Src] \subseteq tool.copied \cup late
        /\ \A i \in tool.copied : Fresh(Dst, i) /\ Whole(Dst, i)
        /\ Src \in libraries
    BY <1>1 DEF IInv, FilesInv, CopyingStands, Copied, Standing
  <2>10. ASSUME NEW p \in Photos, Sure(p)'
         PROVE  /\ photo'[p] = Dst /\ Whole(Dst, ImageOf[p])
                /\ (photo[p] = Dst /\ Sure(p)) \/ Fresh(Dst, ImageOf[p])
    <3>1. photo'[p] = Dst /\ photo[p] \in {Src, Dst} /\ ImageOf[p] \notin late
      BY <1>1, <2>4, <2>5, <2>10 DEF Sure
    <3>2. Sure(p)
      BY <2>2, <2>9, <3>1 DEF Sure
    <3>3. Whole(photo[p], ImageOf[p])
      BY <3>2 DEF IInv, FilesInv, NamedWhole
    <3>4. photo[p] = Src => ImageOf[p] \in tool.copied
      BY <2>9, <3>1, <3>3 DEF Whole
    <3>. QED
      BY <2>9, <3>1, <3>2, <3>3, <3>4
  <2>11. NamedWhole' /\ CollectorKnows'
    <3>1. NamedWhole'
      BY <1>1, <2>10 DEF NamedWhole, Whole
    <3>2. CollectorKnows'
      BY <1>1, <2>10 DEF IInv, FilesInv, CollectorKnows, Fresh
    <3>. QED
      BY <3>1, <3>2
  <2>12. TreesWhole' /\ FilingStands'
    BY <1>1, <2>1 DEF IInv, FilesInv, TreesWhole, FilingStands, Fresh
  <2>13. CopyingStands'
    BY <2>3 DEF CopyingStands, Early, Copied
  <2>14. BooksInv'
    <3>1. SUFFICES ASSUME Unhurried PROVE (TitlesOnce /\ CopiesStand /\ EditStands /\ ToolStands)'
      BY <1>1 DEF BooksInv, Unhurried
    <3>2. TitlesOnce' /\ CopiesStand'
      BY <1>1, <1>3, <2>1, <3>1, BooksMoved
    <3>3. EditStands'
      BY <1>1, <3>1 DEF EditStands, Unhurried
    <3>4. ToolStands'
      BY <2>3 DEF ToolStands
    <3>. QED
      BY <3>2, <3>3, <3>4
  <2>15. Rehomed'
    BY <1>1 DEF Rehomed
  <2>16. NoRowIsStranded'
    <3>1. SUFFICES ASSUME ~play.overtaken
                   PROVE  /\ answers' \subseteq libraries'
                          /\ \A b \in Books : Kept(b)' => book'[b].lib \in libraries'
                          /\ \A p \in Photos : photo'[p] \in libraries' \cup {Absent}
      BY <1>1 DEF NoRowIsStranded
    <3>2. answers' \subseteq libraries'
      BY <1>3, <2>1, <3>1 DEF IInv, NoRowIsStranded, LeftBehind
    <3>3. ASSUME NEW b \in Books, Kept(b)'
          PROVE  book'[b].lib \in libraries'
      <4>1. book[b] # Absent => book[b].lib \in libraries
        BY <3>1 DEF IInv, NoRowIsStranded, Kept
      <4>. QED
        BY <2>1, <2>4, <2>6, <3>3, <4>1 DEF BooksOf, Kept
    <3>. QED
      BY <2>4, <2>5, <3>2, <3>3
  <2>. QED
    BY <2>7, <2>8, <2>11, <2>12, <2>13, <2>14, <2>15, <2>16 DEF IInv, FilesInv
<1>. QED
  BY <1>2, <1>3
-----------------------------------------------------------------------------
(* Every behaviour *)

\* Sound libraries are where the merge starts from.
LEMMA Start ==
  ASSUME Init
  PROVE  IInv
<1>. DEFINE w == play.world
<1>1. /\ play \in Plays /\ libraries = Libs /\ answers = {}
      /\ book = w.book /\ copy = w.copy /\ photo = w.photo /\ tree = w.tree
      /\ tool = Idle /\ request = Idle /\ collector = Idle
      /\ saved = {c \in Copies : copy[c] # Absent}
  BY DEF Init
<1>2. SoundWorld(w, play.uploads) /\ Dst \in Libs
  BY <1>1, LibraryMergeAssumption DEF Libs
<1>. HIDE DEF w
<1>3. Types
  BY <1>1, <1>2 DEF SoundWorld, Types, Maps
<1>4. Standing
  BY <1>1, <1>2, <1>3 DEF Standing, Types
<1>5. FilesInv
  <2>1. NamedWhole
    BY <1>1, <1>2 DEF SoundWorld, NamedWhole, Sure, Whole
  <2>2. TreesWhole
    BY <1>1, <1>2 DEF SoundWorld, TreesWhole
  <2>. QED
    BY <1>1, <2>1, <2>2 DEF FilesInv, FilingStands, CollectorKnows, CopyingStands
<1>6. BooksInv
  <2>1. TitlesOnce
    BY <1>1, <1>2 DEF SoundWorld, TitlesOnce, Kept
  <2>2. CopiesStand
    BY <1>1, <1>2 DEF SoundWorld, CopiesStand, Kept
  <2>. QED
    BY <1>1, <2>1, <2>2 DEF BooksInv, EditStands, ToolStands
<1>7. Rehomed /\ NoRowIsStranded
  BY <1>1, <1>3 DEF Rehomed, NoRowIsStranded, Types, Kept, BookRows
<1>. QED
  BY <1>3, <1>4, <1>5, <1>6, <1>7 DEF IInv

\* Nothing happens.
LEMMA Rests ==
  ASSUME IInv, UNCHANGED vars
  PROVE  IInv'
<1>1. UNCHANGED <<play, libraries, book, copy, photo, answers, tree, tool, request, collector, late, saved>>
  BY DEF vars, rows
<1>2. Types' /\ Standing'
  BY <1>1 DEF IInv, Types, Standing
<1>3. FilesInv'
  BY <1>1, FilesQuiet DEF ToolReads, FilesInv
<1>4. BooksInv' /\ NoRowIsStranded' /\ Rehomed'
  BY <1>1, BooksQuiet, RowsQuiet
<1>. QED
  BY <1>2, <1>3, <1>4 DEF IInv

LEMMA StepKeepsIInv == IInv /\ [Next]_vars => IInv'
<1>1. SUFFICES ASSUME IInv, [Next]_vars PROVE IInv'
  OBVIOUS
<1>2. CASE Server
  BY <1>1, <1>2, BeginFileStep, StorePhotoStep, FilePhotoStep, BeginEditStep, SaveBookStep,
     BeginAnswerStep, SaveAnswerStep DEF Server
<1>3. CASE Gc
  BY <1>1, <1>3, AgeStep, BeginCollectStep, CollectStep DEF Gc
<1>4. CASE Merge
  BY <1>1, <1>4, BeginMergeStep, LookStep, ListPhotosStep, CopyPhotoStep, VerifyPhotosStep,
     PairStep, FirstCopiesStep, CommitStep, PurgeStep, DieStep DEF Merge
<1>5. CASE UNCHANGED vars
  BY <1>1, <1>5, Rests
<1>. QED
  BY <1>1, <1>2, <1>3, <1>4, <1>5 DEF Next

LEMMA Invariant == Spec => []IInv
<1>1. Init => IInv
  BY Start
<1>. QED
  BY <1>1, StepKeepsIInv, PTL DEF Spec

(* A photograph a row names is in its library's tree, whole, at every       *)
(* moment: the copier refreshes the age of what it copies, the collector    *)
(* takes only what is old and was not named when it looked, the commit      *)
(* moves rows only behind files that were verified, and the purge begins    *)
(* once the source library is gone.                                         *)
THEOREM PhotosResolve == Spec => []NamedPhotosResolve
<1>1. IInv => NamedPhotosResolve
  BY DEF IInv, FilesInv, NamedWhole, Sure, Whole, NamedPhotosResolve
<1>. QED
  BY <1>1, Invariant, PTL

(* No saved copy is lost, leaves its work or shares its place, however many *)
(* books collide and however many copies they have: the first pair is       *)
(* placed by what was listed before the transaction, which nobody edits in  *)
(* between, the others by what stands in it.                                *)
THEOREM CopiesStay == Spec => []CopiesKeepTheirWork
<1>1. IInv => CopiesKeepTheirWork
  BY DEF IInv, BooksInv, Unhurried, CopiesStand, CopiesKeepTheirWork
<1>. QED
  BY <1>1, Invariant, PTL

(* No book, photograph or answer names a library that was retired: the      *)
(* commit moves every row of the source, and is refused where an answer     *)
(* would be left behind.                                                    *)
THEOREM RowsAreRehomed == Spec => []NoRowIsStranded
<1>1. IInv => NoRowIsStranded
  BY DEF IInv
<1>. QED
  BY <1>1, Invariant, PTL
=============================================================================
