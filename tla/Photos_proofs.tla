---------------------------- MODULE Photos_proofs ----------------------------
(***************************************************************************)
(* What Photos promises, for any photographs, shelves, requests and plays:  *)
(* strips are sound, no named photograph is collected, no orphan is kept.   *)
(***************************************************************************)
EXTENDS Photos, FiniteSetTheorems, WellFoundedInduction, TLAPS

-----------------------------------------------------------------------------
(* What a request in flight is made of. *)
Uploads == [kind : {"upload", "read"}, at : {"put", "settle"}, alone : BOOLEAN, image : Images]
NewFilings ==
    [kind : {"file"}, at : {"shelf"}, alone : BOOLEAN, capture : Captures,
     asks : {Nowhere}, place : {0},
     row : [shelf : {Nowhere}, row : {1}, order : {0}, image : Images]]
Orders ==
    [kind : {"file", "bind"}, at : {"order"}, alone : BOOLEAN, capture : Captures,
     asks : Shelves, place : {Nowhere},
     row : [shelf : Shelves, row : 1..MaxRows, order : {Nowhere}, image : Images]]
Saves ==
    [kind : {"file", "bind"}, at : {"save"}, alone : BOOLEAN, capture : Captures,
     asks : Shelves \cup {Nowhere}, place : Nat \cup {Nowhere}, row : CaptureRow]
Filings == NewFilings \cup Orders \cup Saves
ShelfSaves ==
    [kind : {"deepen", "rename"}, at : {"save_shelf"}, alone : BOOLEAN,
     shelf : Shelves, rows : 1..MaxRows]
Drops == [kind : {"drop"}, at : {"look", "drop"}, alone : BOOLEAN, shelf : Shelves]
Collections ==
    [kind : {"collect"}, at : {"walk", "list", "delete"}, alone : BOOLEAN,
     left : SUBSET Shelves, named : SUBSET Images, doomed : SUBSET Images]
Jobs == Uploads \cup Filings \cup ShelfSaves \cup Drops \cup Collections

Types ==
    /\ old \subseteq stored /\ stored \subseteq Images
    /\ crops \subseteq Images /\ held \subseteq Images
    /\ rows \in [Shelves -> 0..MaxRows]
    /\ filed \in [Captures -> CaptureRow \cup {Absent}]
    /\ job \in [Requests -> Jobs \cup {Idle}]
    /\ play \in Plays

(* The photograph a request carries to a place where it will be named. *)
Carries(j, k) ==
    \/ j \in Uploads /\ j.at = "settle" /\ j.image = k
    \/ j \in Filings /\ j.kind = "file" /\ j.row.image = k

(* A shelf that is there was made, and is not made again. *)
ShelfKnown(j, mm) ==
    /\ j \in Orders \cup Saves => j.row.shelf \in mm
    /\ j \in ShelfSaves => j.shelf \in mm
RowKnown(j, rr, oo) ==
    j \in Orders \cup Saves =>
       \/ j.row.shelf \in oo \/ rr[j.row.shelf] = 0
       \/ j.row.row <= rr[j.row.shelf]
Shelving ==
    /\ \A s \in Shelves : There(s) => s \in made
    /\ \A c \in Captures : Filed(c) => There(filed[c].shelf)
    /\ \A c, e \in Captures : c # e /\ Filed(c) /\ Filed(e) => Place(c) # Place(e)
    /\ \A r \in Requests : ShelfKnown(job[r], made) /\ RowKnown(job[r], rows, overruled)
    /\ PhotosStandInDeclaredRows

(* A photograph being filed is not filed yet, nor by another request; one   *)
(* being moved is the same for all who move it.                             *)
Filing ==
    /\ \A r \in Requests : job[r] \in Filings =>
          \/ filed[job[r].capture] = Absent
          \/ job[r].kind = "bind" /\ filed[job[r].capture].image = job[r].row.image
    /\ \A q, r \in Requests :
          q # r /\ job[q] \in Filings /\ job[r] \in Filings /\ job[q].capture = job[r].capture
            => job[r].kind = "bind" /\ job[q].row.image = job[r].row.image

(* What is in hand, or carried to where it will be named, is young: no      *)
(* collection plans to delete it.  What a collection has not found yet, it  *)
(* will, or it need not: it is young, or excused.                           *)
Excused == removed \cup overtaken
Carried == {k \in Images : \E r \in Requests : Carries(job[r], k)}
Wanted  == held \cup Carried \cup Named
CollectionSound(j, wanted, excused, ff, oo, cc) ==
    /\ j.at = "delete" => j.doomed \cap wanted \subseteq excused
    /\ j.at \in {"walk", "list"} => \A c \in Captures : ff[c] # Absent =>
          \/ ff[c].image \in j.named \cup excused \/ ff[c].image \notin oo
          \/ j.at = "walk" /\ ff[c].shelf \in j.left
    /\ j.at = "list" => cc \cap oo \subseteq j.named \cup excused
Naming ==
    /\ held \cup Carried \subseteq (stored \ old) \cup Excused
    /\ NamedIsStored
    /\ \A r \in Requests : job[r] \in Collections =>
          CollectionSound(job[r], Wanted, Excused, filed, old, crops)

(* What ought to be deleted is named by nobody, old, and among what the     *)
(* collection plans to delete.                                              *)
Duty ==
    /\ stale \cap Named = {} /\ stale \cap stored \subseteq old
    /\ \A r \in Requests : job[r] \in Collections =>
          /\ job[r].at \in {"walk", "list"} => job[r].named \cap stale = {}
          /\ job[r].at = "delete" => stale \cap stored \subseteq job[r].doomed

Lone ==
    \A r \in Requests : job[r] # Idle /\ job[r].alone =>
        /\ \A q \in Requests \ {r} : job[q] = Idle
        /\ job[r].at = "order" => There(job[r].row.shelf)

IInv == Types /\ Shelving /\ Filing /\ Naming /\ Duty /\ Lone /\ LoneFilingSucceeds
-----------------------------------------------------------------------------
(* Shapes of requests *)

LEMMA ShapeByKind ==
  /\ \A j \in Uploads : j.kind \in {"upload", "read"} /\ j.at \in {"put", "settle"}
  /\ \A j \in NewFilings : j.kind = "file" /\ j.at = "shelf"
  /\ \A j \in Orders : j.kind \in {"file", "bind"} /\ j.at = "order"
  /\ \A j \in Saves : j.kind \in {"file", "bind"} /\ j.at = "save"
  /\ \A j \in ShelfSaves : j.kind \in {"deepen", "rename"} /\ j.at = "save_shelf"
  /\ \A j \in Drops : j.kind = "drop" /\ j.at \in {"look", "drop"}
  /\ \A j \in Collections : j.kind = "collect" /\ j.at \in {"walk", "list", "delete"}
  /\ Idle.at = "idle"
<1>1. \A j \in Uploads : j.kind \in {"upload", "read"} /\ j.at \in {"put", "settle"}
  BY DEF Uploads
<1>2. \A j \in NewFilings : j.kind = "file" /\ j.at = "shelf"
  BY DEF NewFilings
<1>3. \A j \in Orders : j.kind \in {"file", "bind"} /\ j.at = "order"
  BY DEF Orders
<1>4. \A j \in Saves : j.kind \in {"file", "bind"} /\ j.at = "save"
  BY DEF Saves
<1>5. \A j \in ShelfSaves : j.kind \in {"deepen", "rename"} /\ j.at = "save_shelf"
  BY DEF ShelfSaves
<1>6. \A j \in Drops : j.kind = "drop" /\ j.at \in {"look", "drop"}
  BY DEF Drops
<1>7. \A j \in Collections : j.kind = "collect" /\ j.at \in {"walk", "list", "delete"}
  BY DEF Collections
<1>. QED
  BY <1>1, <1>2, <1>3, <1>4, <1>5, <1>6, <1>7 DEF Idle

\* A request's place in its program tells what it is.
LEMMA ShapeByPlace ==
  ASSUME NEW j \in Jobs \cup {Idle}
  PROVE  /\ j.at \in {"put", "settle"} => j \in Uploads
         /\ j.at = "shelf" => j \in NewFilings
         /\ j.at = "order" => j \in Orders
         /\ j.at = "save" => j \in Saves
         /\ j.at = "save_shelf" => j \in ShelfSaves
         /\ j.at \in {"look", "drop"} => j \in Drops
         /\ j.at \in {"walk", "list", "delete"} => j \in Collections
         /\ j \in Jobs /\ j.kind \in {"file", "bind"} => j \in Filings
         /\ j \in Jobs /\ j.kind = "collect" => j \in Collections
         /\ j \in Jobs /\ j.kind \in {"upload", "read"} => j \in Uploads
  BY ShapeByKind DEF Jobs, Filings

LEMMA ShapesApart ==
  /\ Idle \notin Jobs
  /\ Uploads \cap Filings = {} /\ Uploads \cap Collections = {} /\ Filings \cap Collections = {}
  /\ ShelfSaves \cap Filings = {} /\ ShelfSaves \cap Collections = {} /\ ShelfSaves \cap Uploads = {}
  /\ Drops \cap Filings = {} /\ Drops \cap Collections = {} /\ Drops \cap Uploads = {}
  /\ Drops \cap ShelfSaves = {}
  BY ShapeByKind DEF Jobs, Filings

\* What j keeps of i, a request that only lost its claim to be alone.
SameUpload(i, j) ==
    i \in Uploads /\ j \in Uploads /\ j.kind = i.kind /\ j.at = i.at /\ j.image = i.image
SameFiling(i, j) ==
    /\ i \in Filings /\ j \in Filings
    /\ i \in Orders <=> j \in Orders
    /\ i \in Saves <=> j \in Saves
    /\ j.kind = i.kind /\ j.at = i.at /\ j.capture = i.capture
    /\ j.asks = i.asks /\ j.place = i.place /\ j.row = i.row
SameShelfSave(i, j) ==
    i \in ShelfSaves /\ j \in ShelfSaves /\ j.shelf = i.shelf /\ j.rows = i.rows
SameDrop(i, j) == i \in Drops /\ j \in Drops /\ j.at = i.at /\ j.shelf = i.shelf
SameCollection(i, j) ==
    /\ i \in Collections /\ j \in Collections
    /\ j.at = i.at /\ j.left = i.left /\ j.named = i.named /\ j.doomed = i.doomed
Same(i, j) ==
    \/ SameUpload(i, j) \/ SameFiling(i, j) \/ SameShelfSave(i, j)
    \/ SameDrop(i, j) \/ SameCollection(i, j)
Follows(i, j) == j = Idle \/ (Same(i, j) /\ (j.alone => i.alone))

Hushed(i) == [i EXCEPT !.alone = FALSE]

LEMMA HushedFollows ==
  ASSUME NEW i \in Jobs
  PROVE  Follows(i, Hushed(i)) /\ ~Hushed(i).alone
<1>1. CASE i \in Uploads
  BY <1>1 DEF Uploads, Hushed, Follows, Same, SameUpload
<1>2. CASE i \in NewFilings
  <2>1. Hushed(i) \in NewFilings
    BY <1>2 DEF NewFilings, Hushed
  <2>2. i \notin Orders \cup Saves /\ Hushed(i) \notin Orders \cup Saves
    BY <1>2, <2>1, ShapeByKind
  <2>3. /\ Hushed(i).kind = i.kind /\ Hushed(i).at = i.at /\ Hushed(i).capture = i.capture
        /\ Hushed(i).asks = i.asks /\ Hushed(i).place = i.place /\ Hushed(i).row = i.row
        /\ Hushed(i).alone = FALSE
    BY <1>2 DEF NewFilings, Hushed
  <2>. QED
    BY <1>2, <2>1, <2>2, <2>3 DEF Follows, Same, SameFiling, Filings
<1>3. CASE i \in Orders
  <2>1. Hushed(i) \in Orders
    BY <1>3 DEF Orders, Hushed
  <2>2. i \notin Saves /\ Hushed(i) \notin Saves
    BY <1>3, <2>1, ShapeByKind
  <2>3. /\ Hushed(i).kind = i.kind /\ Hushed(i).at = i.at /\ Hushed(i).capture = i.capture
        /\ Hushed(i).asks = i.asks /\ Hushed(i).place = i.place /\ Hushed(i).row = i.row
        /\ Hushed(i).alone = FALSE
    BY <1>3 DEF Orders, Hushed
  <2>. QED
    BY <1>3, <2>1, <2>2, <2>3 DEF Follows, Same, SameFiling, Filings
<1>4. CASE i \in Saves
  <2>1. Hushed(i) \in Saves
    BY <1>4 DEF Saves, Hushed
  <2>2. i \notin Orders /\ Hushed(i) \notin Orders
    BY <1>4, <2>1, ShapeByKind
  <2>3. /\ Hushed(i).kind = i.kind /\ Hushed(i).at = i.at /\ Hushed(i).capture = i.capture
        /\ Hushed(i).asks = i.asks /\ Hushed(i).place = i.place /\ Hushed(i).row = i.row
        /\ Hushed(i).alone = FALSE
    BY <1>4 DEF Saves, Hushed
  <2>. QED
    BY <1>4, <2>1, <2>2, <2>3 DEF Follows, Same, SameFiling, Filings
<1>5. CASE i \in ShelfSaves
  BY <1>5 DEF ShelfSaves, Hushed, Follows, Same, SameShelfSave
<1>6. CASE i \in Drops
  BY <1>6 DEF Drops, Hushed, Follows, Same, SameDrop
<1>7. CASE i \in Collections
  BY <1>7 DEF Collections, Hushed, Follows, Same, SameCollection
<1>. QED
  BY <1>1, <1>2, <1>3, <1>4, <1>5, <1>6, <1>7 DEF Jobs, Filings

LEMMA FollowsItself ==
  ASSUME NEW i \in Jobs \cup {Idle}
  PROVE  Follows(i, i)
  BY DEF Jobs, Filings, Follows, Same, SameUpload, SameFiling, SameShelfSave, SameDrop, SameCollection

LEMMA FollowsTypes ==
  ASSUME NEW i, NEW j, Follows(i, j)
  PROVE  j \in Jobs \cup {Idle}
  BY DEF Jobs, Filings, Follows, Same, SameUpload, SameFiling, SameShelfSave, SameDrop, SameCollection

-----------------------------------------------------------------------------
(* The end of a row *)

\* Among finitely many numbered things one has the highest number.
LEMMA HighestExists ==
  ASSUME NEW T, IsFiniteSet(T), T # {}, NEW f \in [T -> Nat]
  PROVE  \E c \in T : \A e \in T : f[e] <= f[c]
<1>. DEFINE Highest(B, c) == c \in B /\ \A e \in B : f[e] <= f[c]
            Bad == {B \in SUBSET T : B # {} /\ ~ \E c \in B : Highest(B, c)}
<1>1. SUFFICES ASSUME Bad # {} PROVE FALSE
  <2>1. T \notin Bad
    BY <1>1
  <2>. QED
    BY <2>1
<1>2. IsWellFoundedOn(StrictSubsetOrdering(T), SUBSET T)
  BY FS_StrictSubsetOrderingWellFounded, FS_FiniteSubsetsOfFinite
<1>3. PICK B \in Bad : \A A \in Bad : <<A, B>> \notin StrictSubsetOrdering(T)
  <2>. HIDE DEF Bad
  <2>1. Bad \subseteq SUBSET T
    BY DEF Bad
  <2>. QED
    BY <1>1, <1>2, <2>1, WFMin
<1>4. PICK c \in B : TRUE
  BY <1>3
<1>5. B \ {c} \notin Bad
  BY <1>3, <1>4 DEF StrictSubsetOrdering
<1>6. CASE B \ {c} = {}
  <2>1. Highest(B, c)
    BY <1>3, <1>4, <1>6
  <2>. QED
    BY <1>3, <2>1
<1>7. CASE B \ {c} # {}
  <2>1. PICK d \in B \ {c} : Highest(B \ {c}, d)
    BY <1>3, <1>5, <1>7
  <2>2. Highest(B, c) \/ Highest(B, d)
    <3>1. f[c] \in Nat /\ f[d] \in Nat /\ \A e \in B : f[e] \in Nat
      BY <1>3, <1>4, <2>1
    <3>2. CASE f[c] <= f[d]
      BY <1>3, <1>4, <2>1, <3>1, <3>2
    <3>3. CASE ~(f[c] <= f[d])
      BY <1>3, <1>4, <2>1, <3>1, <3>3
    <3>. QED
      BY <3>2, <3>3
  <2>. QED
    BY <1>3, <1>4, <2>1, <2>2
<1>. QED
  BY <1>6, <1>7

\* What is filed at the end of a row stands behind all of it.
LEMMA NextOrderIsFree ==
  ASSUME Types, NEW s, NEW d
  PROVE  /\ NextOrder(s, d) \in Nat
         /\ \A c \in On(s) : filed[c].row = d => filed[c].order # NextOrder(s, d)
<1>. DEFINE T == {c \in On(s) : filed[c].row = d}
            here == {filed[c].order : c \in T}
<1>1. IsFiniteSet(T)
  BY FS_Subset, PhotosAssumption DEF On
<1>2. \A c \in T : filed[c].order \in Nat
  BY DEF On, Filed, Types, CaptureRow
<1>3. NextOrder(s, d) = IF here = {} THEN 0 ELSE 1 + CHOOSE n \in here : \A k \in here : k <= n
  BY DEF NextOrder
<1>4. CASE T = {}
  BY <1>3, <1>4
<1>5. CASE T # {}
  <2>. DEFINE orders == [c \in T |-> filed[c].order]
  <2>1. orders \in [T -> Nat]
    BY <1>2
  <2>2. PICK c \in T : \A e \in T : filed[e].order <= filed[c].order
    <3>1. \E c \in T : \A e \in T : orders[e] <= orders[c]
      <4>. HIDE DEF T, orders
      <4>. QED
        BY <1>1, <1>5, <2>1, HighestExists
    <3>. QED
      BY <3>1
  <2>3. \A k \in here : k <= filed[c].order
    BY <2>2
  <2>. DEFINE top == CHOOSE n \in here : \A k \in here : k <= n
  <2>4. top \in here /\ \A k \in here : k <= top
    BY <2>2, <2>3
  <2>5. top \in Nat /\ NextOrder(s, d) = 1 + top
    BY <1>2, <1>3, <1>5, <2>4
  <2>6. ASSUME NEW e \in T PROVE filed[e].order # 1 + top
    <3>1. filed[e].order \in here /\ filed[e].order \in Nat
      BY <1>2, <2>6
    <3>2. filed[e].order <= top
      BY <2>4, <3>1
    <3>. HIDE DEF top
    <3>. QED
      BY <2>5, <3>1, <3>2
  <2>. QED
    BY <2>5, <2>6
<1>. QED
  BY <1>4, <1>5

-----------------------------------------------------------------------------
(* What a step does to the requests *)

OthersFollow(r) == \A q \in Requests \ {r} : Follows(job[q], job'[q])
AllFollow == \A q \in Requests : Follows(job[q], job'[q])

LEMMA Begun ==
  ASSUME Types, NEW r \in Requests, NEW new \in Jobs, Begins(r, new)
  PROVE  /\ job[r] = Idle /\ job'[r] = new /\ OthersFollow(r)
         /\ \A q \in Requests \ {r} : job'[q] # Idle => ~job'[q].alone
         /\ job' \in [Requests -> Jobs \cup {Idle}]
         /\ play' = play
<1>1. job[r] = Idle /\ play' = play
  BY DEF Begins, Active
<1>2. job' = [q \in Requests |->
                 IF q = r THEN new
                 ELSE IF job[q] # Idle THEN Hushed(job[q]) ELSE Idle]
  BY DEF Begins, Active, Hushed
<1>3. job'[r] = new
  BY <1>2
<1>4. ASSUME NEW q \in Requests \ {r}
      PROVE  Follows(job[q], job'[q]) /\ (job'[q] # Idle => ~job'[q].alone)
  <2>1. CASE job[q] = Idle
    <3>1. job'[q] = Idle
      BY <1>2, <1>4, <2>1
    <3>. QED
      BY <3>1 DEF Follows
  <2>2. CASE job[q] # Idle
    <3>1. job'[q] = Hushed(job[q]) /\ job[q] \in Jobs
      BY <1>2, <1>4, <2>2 DEF Types
    <3>. QED
      BY <3>1, HushedFollows
  <2>. QED
    BY <2>1, <2>2
<1>5. \A q \in Requests : job'[q] \in Jobs \cup {Idle}
  <2>1. \A q \in Requests \ {r} : job'[q] \in Jobs \cup {Idle}
    BY <1>4, FollowsTypes
  <2>. QED
    BY <1>3, <2>1
<1>6. job' \in [Requests -> Jobs \cup {Idle}]
  BY <1>2, <1>5
<1>. QED
  BY <1>1, <1>3, <1>4, <1>6 DEF OthersFollow

LEMMA OnceDone ==
  ASSUME Types, NEW kind, Once(kind)
  PROVE  /\ AllFollow
         /\ \A q \in Requests : job'[q] # Idle => ~job'[q].alone
         /\ job' \in [Requests -> Jobs \cup {Idle}]
         /\ play' = play
<1>1. job' = [q \in Requests |-> IF job[q] # Idle THEN Hushed(job[q]) ELSE Idle] /\ play' = play
  BY DEF Once, Active, Hushed
<1>2. ASSUME NEW q \in Requests
      PROVE  Follows(job[q], job'[q]) /\ (job'[q] # Idle => ~job'[q].alone)
  <2>1. CASE job[q] = Idle
    <3>1. job'[q] = Idle
      BY <1>1, <1>2, <2>1
    <3>. QED
      BY <3>1 DEF Follows
  <2>2. CASE job[q] # Idle
    <3>1. job'[q] = Hushed(job[q]) /\ job[q] \in Jobs
      BY <1>1, <1>2, <2>2 DEF Types
    <3>. QED
      BY <3>1, HushedFollows
  <2>. QED
    BY <2>1, <2>2
<1>3. \A q \in Requests : job'[q] \in Jobs \cup {Idle}
  BY <1>2, FollowsTypes
<1>4. job' \in [Requests -> Jobs \cup {Idle}]
  BY <1>1, <1>3
<1>. QED
  BY <1>1, <1>2, <1>4 DEF AllFollow

LEMMA Gone ==
  ASSUME Types, NEW r \in Requests, NEW new \in Jobs \cup {Idle}, Goes(r, new)
  PROVE  /\ job'[r] = new /\ OthersFollow(r)
         /\ \A q \in Requests \ {r} : job'[q] = job[q]
         /\ job' \in [Requests -> Jobs \cup {Idle}]
         /\ play' = play
<1>1. job' = [job EXCEPT ![r] = new] /\ job \in [Requests -> Jobs \cup {Idle}] /\ play' = play
  BY DEF Goes, Types
<1>2. \A q \in Requests \ {r} : job'[q] = job[q] /\ job[q] \in Jobs \cup {Idle}
  BY <1>1
<1>3. OthersFollow(r)
  BY <1>2, FollowsItself DEF OthersFollow
<1>. QED
  BY <1>1, <1>2, <1>3

LEMMA EndedFollows ==
  ASSUME Types, NEW r \in Requests, Ends(r)
  PROVE  /\ AllFollow /\ job'[r] = Idle
         /\ \A q \in Requests \ {r} : job'[q] = job[q]
         /\ job' \in [Requests -> Jobs \cup {Idle}]
         /\ play' = play
<1>1. /\ job'[r] = Idle /\ OthersFollow(r)
      /\ \A q \in Requests \ {r} : job'[q] = job[q]
      /\ job' \in [Requests -> Jobs \cup {Idle}]
      /\ play' = play
  BY Gone DEF Ends
<1>2. AllFollow
  BY <1>1 DEF AllFollow, OthersFollow, Follows
<1>. QED
  BY <1>1, <1>2

LEMMA Still ==
  ASSUME Types, UNCHANGED job
  PROVE  AllFollow
  BY FollowsItself DEF Types, AllFollow

\* What a request is about to do depends on where it stands.
LEMMA ShapeOfJob ==
  ASSUME Types, NEW r \in Requests
  PROVE  /\ job[r].at \in {"put", "settle"} => job[r] \in Uploads
         /\ job[r].at = "shelf" => job[r] \in NewFilings
         /\ job[r].at = "order" => job[r] \in Orders
         /\ job[r].at = "save" => job[r] \in Saves
         /\ job[r].at = "save_shelf" => job[r] \in ShelfSaves
         /\ job[r].at \in {"look", "drop"} => job[r] \in Drops
         /\ job[r].at \in {"walk", "list", "delete"} => job[r] \in Collections
         /\ job[r] # Idle /\ job[r].kind \in {"file", "bind"} => job[r] \in Filings
         /\ job[r] # Idle /\ job[r].kind = "collect" => job[r] \in Collections
<1>1. job[r] \in Jobs \cup {Idle} /\ (job[r] # Idle => job[r] \in Jobs)
  BY DEF Types
<1>. QED
  BY <1>1, ShapeByPlace

-----------------------------------------------------------------------------
(* What a request begins as *)

Rest == UNCHANGED <<blobs, records, held, history>>

LEMMA LoadedIsShelf ==
  ASSUME Types, NEW s \in Shelves
  PROVE  Loaded(s) \in Shelves
  BY PhotosAssumption DEF Types, SoundStart, Loaded

LEMMA BeginUploadDoes ==
  ASSUME NEW r \in Requests, BeginUpload(r)
  PROVE  \E new \in Uploads : Begins(r, new) /\ new.at = "put" /\ new.alone = Alone /\ Rest
<1>1. PICK k \in Images, kind \in {"upload", "read"} :
         /\ Begins(r, [kind |-> kind, at |-> "put", alone |-> Alone, image |-> k])
         /\ Rest
  BY DEF BeginUpload, Rest
<1>. DEFINE new == [kind |-> kind, at |-> "put", alone |-> Alone, image |-> k]
<1>2. new \in Uploads /\ new.at = "put" /\ new.alone = Alone
  BY DEF Uploads, Alone
<1>. QED
  BY <1>1, <1>2

LEMMA FileOnDoes ==
  ASSUME Types, NEW r \in Requests, NEW kind \in {"file", "bind"}, NEW c \in Captures,
         NEW k \in Images, NEW s \in Shelves, NEW d \in 1..MaxRows,
         NEW place \in Nat \cup {Nowhere}, NEW asks \in Shelves,
         FileOn(r, kind, c, k, s, d, place, asks)
  PROVE  \E new \in Orders \cup Saves :
            /\ Begins(r, new) /\ Rest
            /\ new.kind = kind /\ new.alone = Alone /\ new.capture = c
            /\ new.asks = asks /\ new.place = place
            /\ new.row = [shelf |-> Loaded(s), row |-> d, order |-> place, image |-> k]
            /\ new \in Saves <=> place # Nowhere
            /\ There(Loaded(s)) /\ d <= rows[Loaded(s)]
<1>. DEFINE row == [shelf |-> Loaded(s), row |-> d, order |-> place, image |-> k]
            at  == IF place = Nowhere THEN "order" ELSE "save"
            new == [kind |-> kind, at |-> at, alone |-> Alone,
                    capture |-> c, asks |-> asks, place |-> place, row |-> row]
<1>1. Begins(r, new) /\ Rest /\ There(Loaded(s)) /\ d <= rows[Loaded(s)]
  BY DEF FileOn, Declared, Rest
<1>2. Alone \in BOOLEAN
  BY DEF Alone
<1>3. /\ new.kind = kind /\ new.alone = Alone /\ new.capture = c /\ new.at = at
      /\ new.asks = asks /\ new.place = place /\ new.row = row
  OBVIOUS
<1>4. CASE place = Nowhere
  <2>1. row \in [shelf : Shelves, row : 1..MaxRows, order : {Nowhere}, image : Images]
    BY <1>4, LoadedIsShelf
  <2>2. new \in Orders
    BY <1>2, <1>4, <2>1 DEF Orders
  <2>3. new \notin Saves
    BY <2>2, ShapeByKind
  <2>. QED
    BY <1>1, <1>3, <1>4, <2>2, <2>3
<1>5. CASE place # Nowhere
  <2>1. row \in CaptureRow
    BY <1>5, LoadedIsShelf DEF CaptureRow
  <2>2. new \in Saves
    BY <1>2, <1>5, <2>1 DEF Saves
  <2>. QED
    BY <1>1, <1>3, <1>5, <2>2
<1>. QED
  BY <1>4, <1>5

LEMMA BeginFileDoes ==
  ASSUME Types, NEW r \in Requests, BeginFile(r)
  PROVE  \E new \in Orders \cup Saves :
            /\ Begins(r, new) /\ Rest
            /\ new.kind = "file" /\ new.alone = Alone
            /\ Fresh(new.capture) /\ new.row.image \in held
            /\ There(new.row.shelf) /\ new.row.row <= rows[new.row.shelf]
            /\ new \in Saves => new.place # Nowhere
<1>1. PICK c \in Captures, k \in held, s \in Shelves, d \in 1..MaxRows, place \in {Nowhere, 0} :
         Fresh(c) /\ FileOn(r, "file", c, k, s, d, place, Loaded(s))
  BY DEF BeginFile
<1>2. k \in Images /\ Loaded(s) \in Shelves /\ place \in Nat \cup {Nowhere}
  BY LoadedIsShelf DEF Types
<1>3. PICK new \in Orders \cup Saves :
         /\ Begins(r, new) /\ Rest
         /\ new.kind = "file" /\ new.alone = Alone /\ new.capture = c
         /\ new.place = place
         /\ new.row = [shelf |-> Loaded(s), row |-> d, order |-> place, image |-> k]
         /\ new \in Saves <=> place # Nowhere
         /\ There(Loaded(s)) /\ d <= rows[Loaded(s)]
  BY <1>1, <1>2, FileOnDoes
<1>. QED
  BY <1>1, <1>3

LEMMA BeginBindDoes ==
  ASSUME Types, Shelving, NEW r \in Requests, BeginBind(r)
  PROVE  \E new \in Orders \cup Saves :
            /\ Begins(r, new) /\ Rest
            /\ new.kind = "bind" /\ new.alone = Alone
            /\ Filed(new.capture) /\ new.row.image = filed[new.capture].image
            /\ There(new.row.shelf) /\ new.row.row <= rows[new.row.shelf]
            /\ new \in Saves => PlaceOf(new.row) = Place(new.capture)
<1>1. PICK c \in Captures, s \in Shelves, d \in 1..MaxRows :
         /\ Filed(c)
         /\ LET stays == s = filed[c].shelf /\ d = filed[c].row
            IN  FileOn(r, "bind", c, filed[c].image, s, d, IF stays THEN filed[c].order ELSE Nowhere, s)
  BY DEF BeginBind
<1>. DEFINE stays == s = filed[c].shelf /\ d = filed[c].row
            place == IF stays THEN filed[c].order ELSE Nowhere
<1>2. filed[c] \in CaptureRow
  BY <1>1 DEF Types, Filed
<1>3. filed[c].image \in Images /\ filed[c].order \in Nat
  BY <1>2 DEF CaptureRow
<1>4. place \in Nat \cup {Nowhere}
  BY <1>3
<1>5. FileOn(r, "bind", c, filed[c].image, s, d, place, s)
  BY <1>1
<1>6. PICK new \in Orders \cup Saves :
         /\ Begins(r, new) /\ Rest
         /\ new.kind = "bind" /\ new.alone = Alone /\ new.capture = c
         /\ new.row = [shelf |-> Loaded(s), row |-> d, order |-> place, image |-> filed[c].image]
         /\ new \in Saves <=> place # Nowhere
         /\ There(Loaded(s)) /\ d <= rows[Loaded(s)]
  <2>. HIDE DEF place
  <2>. QED
    BY <1>3, <1>4, <1>5, FileOnDoes
<1>7. ASSUME new \in Saves PROVE PlaceOf(new.row) = Place(c)
  <2>1. stays /\ place = filed[c].order
    BY <1>6, <1>7
  <2>2. There(filed[c].shelf)
    BY <1>1 DEF Shelving
  <2>3. Loaded(s) = filed[c].shelf
    BY <2>1, <2>2 DEF Loaded
  <2>. QED
    BY <1>6, <2>1, <2>3 DEF PlaceOf, Place
<1>. QED
  BY <1>1, <1>6, <1>7

LEMMA BeginFileOnNewDoes ==
  ASSUME Types, NEW r \in Requests, BeginFileOnNew(r)
  PROVE  \E new \in NewFilings :
            /\ Begins(r, new) /\ Rest /\ new.alone = Alone
            /\ Fresh(new.capture) /\ new.row.image \in held
<1>1. PICK c \in Captures, k \in held :
         /\ Fresh(c)
         /\ Begins(r, [kind |-> "file", at |-> "shelf", alone |-> Alone,
                       capture |-> c, asks |-> Nowhere, place |-> 0,
                       row |-> [shelf |-> Nowhere, row |-> 1, order |-> 0, image |-> k]])
         /\ Rest
  BY DEF BeginFileOnNew, Rest
<1>. DEFINE row == [shelf |-> Nowhere, row |-> 1, order |-> 0, image |-> k]
            new == [kind |-> "file", at |-> "shelf", alone |-> Alone,
                    capture |-> c, asks |-> Nowhere, place |-> 0, row |-> row]
<1>2. k \in Images
  BY DEF Types
<1>3. row \in [shelf : {Nowhere}, row : {1}, order : {0}, image : Images]
  BY <1>2
<1>4. new \in NewFilings
  BY <1>3 DEF NewFilings, Alone
<1>5. new.capture = c /\ new.row.image = k /\ new.alone = Alone
  OBVIOUS
<1>. QED
  BY <1>1, <1>4, <1>5

LEMMA BeginShelfSaveDoes ==
  ASSUME Types, Shelving, NEW r \in Requests, BeginRowBehind(r) \/ BeginRename(r)
  PROVE  \E new \in ShelfSaves :
            /\ Begins(r, new) /\ Rest /\ new.alone = Alone
            /\ There(new.shelf)
<1>1. CASE BeginRowBehind(r)
  <2>1. PICK s \in Shelves :
           /\ There(Loaded(s)) /\ rows[Loaded(s)] < MaxRows
           /\ Begins(r, [kind |-> "deepen", at |-> "save_shelf", alone |-> Alone,
                         shelf |-> Loaded(s), rows |-> rows[Loaded(s)] + 1])
           /\ Rest
    BY <1>1 DEF BeginRowBehind, Rest
  <2>. DEFINE new == [kind |-> "deepen", at |-> "save_shelf", alone |-> Alone,
                      shelf |-> Loaded(s), rows |-> rows[Loaded(s)] + 1]
  <2>2. Loaded(s) \in Shelves /\ rows[Loaded(s)] + 1 \in 1..MaxRows
    BY <2>1, LoadedIsShelf, PhotosAssumption DEF Types, There
  <2>3. new \in ShelfSaves /\ new.shelf = Loaded(s) /\ new.alone = Alone
    BY <2>2 DEF ShelfSaves, Alone
  <2>. QED
    BY <2>1, <2>3
<1>2. CASE BeginRename(r)
  <2>1. PICK s \in Shelves :
           /\ There(Loaded(s))
           /\ Begins(r, [kind |-> "rename", at |-> "save_shelf", alone |-> Alone,
                         shelf |-> Loaded(s), rows |-> rows[Loaded(s)]])
           /\ Rest
    BY <1>2 DEF BeginRename, Rest
  <2>. DEFINE new == [kind |-> "rename", at |-> "save_shelf", alone |-> Alone,
                      shelf |-> Loaded(s), rows |-> rows[Loaded(s)]]
  <2>2. Loaded(s) \in Shelves /\ rows[Loaded(s)] \in 1..MaxRows
    BY <2>1, LoadedIsShelf, PhotosAssumption DEF Types, There
  <2>3. new \in ShelfSaves /\ new.shelf = Loaded(s) /\ new.alone = Alone
    BY <2>2 DEF ShelfSaves, Alone
  <2>. QED
    BY <2>1, <2>3
<1>. QED
  BY <1>1, <1>2

LEMMA BeginDropDoes ==
  ASSUME NEW r \in Requests, BeginDrop(r)
  PROVE  \E new \in Drops : Begins(r, new) /\ Rest /\ new.alone = Alone
<1>1. PICK s \in Shelves :
         /\ Begins(r, [kind |-> "drop", at |-> "look", alone |-> Alone, shelf |-> s])
         /\ Rest
  BY DEF BeginDrop, Rest
<1>. DEFINE new == [kind |-> "drop", at |-> "look", alone |-> Alone, shelf |-> s]
<1>2. new \in Drops /\ new.alone = Alone
  BY DEF Drops, Alone
<1>. QED
  BY <1>1, <1>2

LEMMA BeginCollectDoes ==
  ASSUME NEW r \in Requests, BeginCollect(r)
  PROVE  \E new \in Collections :
            /\ Begins(r, new) /\ ~Collecting /\ new.alone = Alone
            /\ new.at = "walk" /\ new.left = ListShelves /\ new.named = {}
            /\ stale' = (stored \cap old) \ Named
            /\ UNCHANGED <<blobs, records, held, removed, overtaken, overruled>>
<1>. DEFINE new == [kind |-> "collect", at |-> "walk", alone |-> Alone,
                    left |-> ListShelves, named |-> {}, doomed |-> {}]
<1>1. new \in Collections
  BY DEF Collections, Alone, ListShelves
<1>2. new.at = "walk" /\ new.left = ListShelves /\ new.named = {} /\ new.alone = Alone
  OBVIOUS
<1>. QED
  BY <1>1, <1>2 DEF BeginCollect

-----------------------------------------------------------------------------
(* What a request goes on as *)

LEMMA PutDoes ==
  ASSUME Types, NEW r \in Requests, Put(r)
  PROVE  /\ job[r] \in Uploads
         /\ \/ Ends(r) /\ held' = held \cup {job[r].image}
            \/ /\ held' = held
               /\ \E new \in Uploads : /\ Goes(r, new) /\ new.image = job[r].image
                                       /\ new.at = "settle" /\ new.alone = job[r].alone
<1>1. job[r] \in Uploads
  BY ShapeOfJob DEF Put
<1>2. CASE job[r].kind = "upload"
  BY <1>1, <1>2 DEF Put
<1>3. CASE job[r].kind # "upload"
  <2>. DEFINE new == [job[r] EXCEPT !.at = "settle"]
  <2>1. Goes(r, new) /\ held' = held
    BY <1>3 DEF Put
  <2>2. new \in Uploads /\ new.image = job[r].image /\ new.at = "settle" /\ new.alone = job[r].alone
    BY <1>1 DEF Uploads
  <2>. QED
    BY <1>1, <2>1, <2>2
<1>. QED
  BY <1>2, <1>3

LEMMA LookUpOrderDoes ==
  ASSUME Types, NEW r \in Requests, LookUpOrder(r)
  PROVE  /\ job[r] \in Orders /\ Rest
         /\ \E new \in Saves :
              /\ Goes(r, new)
              /\ new.kind = job[r].kind /\ new.alone = job[r].alone
              /\ new.capture = job[r].capture /\ new.asks = job[r].asks
              /\ new.row.shelf = job[r].row.shelf /\ new.row.row = job[r].row.row
              /\ new.row.image = job[r].row.image
              /\ new.row.order = NextOrder(job[r].asks, job[r].row.row)
<1>1. job[r] \in Orders
  BY ShapeOfJob DEF LookUpOrder
<1>. DEFINE n == NextOrder(job[r].asks, job[r].row.row)
            new == [job[r] EXCEPT !.at = "save", !.row.order = n]
<1>2. Goes(r, new) /\ Rest
  BY DEF LookUpOrder, Rest
<1>3. n \in Nat
  BY NextOrderIsFree
<1>4. /\ new.kind = job[r].kind /\ new.alone = job[r].alone /\ new.at = "save"
      /\ new.capture = job[r].capture /\ new.asks = job[r].asks /\ new.place = job[r].place
      /\ new.row = [job[r].row EXCEPT !.order = n]
      /\ new = [kind |-> new.kind, at |-> "save", alone |-> new.alone, capture |-> new.capture,
                asks |-> new.asks, place |-> new.place, row |-> new.row]
  <2>. HIDE DEF n
  <2>1. PICK kind \in {"file", "bind"}, alone \in BOOLEAN, c \in Captures, asks \in Shelves,
             row \in [shelf : Shelves, row : 1..MaxRows, order : {Nowhere}, image : Images] :
          job[r] = [kind |-> kind, at |-> "order", alone |-> alone, capture |-> c,
                    asks |-> asks, place |-> Nowhere, row |-> row]
    BY <1>1 DEF Orders
  <2>2. new = [kind |-> kind, at |-> "save", alone |-> alone, capture |-> c,
               asks |-> asks, place |-> Nowhere, row |-> [row EXCEPT !.order = n]]
    <3>1. new = [[job[r] EXCEPT !.at = "save"] EXCEPT !.row.order = n]
      OBVIOUS
    <3>2. [job[r] EXCEPT !.at = "save"] =
            [kind |-> kind, at |-> "save", alone |-> alone, capture |-> c,
             asks |-> asks, place |-> Nowhere, row |-> row]
      BY <2>1
    <3>. HIDE DEF new
    <3>. QED
      BY <3>1, <3>2
  <2>. QED
    BY <2>1, <2>2
<1>5. /\ new.row \in CaptureRow
      /\ new.row.shelf = job[r].row.shelf /\ new.row.row = job[r].row.row
      /\ new.row.image = job[r].row.image /\ new.row.order = n
  <2>1. job[r].row \in [shelf : Shelves, row : 1..MaxRows, order : {Nowhere}, image : Images]
    BY <1>1 DEF Orders
  <2>. HIDE DEF n, new
  <2>. QED
    BY <1>3, <1>4, <2>1 DEF CaptureRow
<1>6. new \in Saves
  <2>1. /\ job[r].kind \in {"file", "bind"} /\ job[r].alone \in BOOLEAN /\ job[r].capture \in Captures
        /\ job[r].asks \in Shelves /\ job[r].place = Nowhere
    BY <1>1 DEF Orders
  <2>. HIDE DEF n, new
  <2>. QED
    BY <1>4, <1>5, <2>1 DEF Saves
<1>. QED
  BY <1>1, <1>2, <1>4, <1>5, <1>6

LEMMA SaveNewShelfDoes ==
  ASSUME Types, NEW r \in Requests, SaveNewShelf(r)
  PROVE  /\ job[r] \in NewFilings
         /\ \E s \in Shelves \ made, new \in Saves :
              /\ rows' = [rows EXCEPT ![s] = 1] /\ made' = made \cup {s}
              /\ UNCHANGED <<blobs, filed, crops, held, history>>
              /\ Goes(r, new)
              /\ new.kind = "file" /\ new.alone = job[r].alone /\ new.capture = job[r].capture
              /\ new.place = 0 /\ new.row.shelf = s /\ new.row.row = 1
              /\ new.row.image = job[r].row.image
<1>1. job[r] \in NewFilings
  BY ShapeOfJob DEF SaveNewShelf
<1>2. PICK s \in Shelves \ made :
         /\ rows' = [rows EXCEPT ![s] = 1] /\ made' = made \cup {s}
         /\ UNCHANGED <<blobs, filed, crops, held, history>>
         /\ Goes(r, [job[r] EXCEPT !.at = "save", !.row.shelf = s])
  BY DEF SaveNewShelf
<1>. DEFINE new == [job[r] EXCEPT !.at = "save", !.row.shelf = s]
<1>3. /\ new.kind = "file" /\ new.alone = job[r].alone /\ new.at = "save"
      /\ new.capture = job[r].capture /\ new.asks = Nowhere /\ new.place = 0
      /\ new.row = [job[r].row EXCEPT !.shelf = s]
      /\ new = [kind |-> new.kind, at |-> "save", alone |-> new.alone, capture |-> new.capture,
                asks |-> new.asks, place |-> new.place, row |-> new.row]
  <2>1. PICK alone \in BOOLEAN, c \in Captures,
             row \in [shelf : {Nowhere}, row : {1}, order : {0}, image : Images] :
          job[r] = [kind |-> "file", at |-> "shelf", alone |-> alone, capture |-> c,
                    asks |-> Nowhere, place |-> 0, row |-> row]
    BY <1>1 DEF NewFilings
  <2>2. new = [kind |-> "file", at |-> "save", alone |-> alone, capture |-> c,
               asks |-> Nowhere, place |-> 0, row |-> [row EXCEPT !.shelf = s]]
    <3>1. new = [[job[r] EXCEPT !.at = "save"] EXCEPT !.row.shelf = s]
      OBVIOUS
    <3>2. [job[r] EXCEPT !.at = "save"] =
            [kind |-> "file", at |-> "save", alone |-> alone, capture |-> c,
             asks |-> Nowhere, place |-> 0, row |-> row]
      BY <2>1
    <3>. HIDE DEF new
    <3>. QED
      BY <3>1, <3>2
  <2>. QED
    BY <2>1, <2>2
<1>4. /\ new.row \in CaptureRow
      /\ new.row.shelf = s /\ new.row.row = 1 /\ new.row.image = job[r].row.image
  <2>1. job[r].row \in [shelf : {Nowhere}, row : {1}, order : {0}, image : Images]
    BY <1>1 DEF NewFilings
  <2>. HIDE DEF new
  <2>. QED
    BY <1>2, <1>3, <2>1, PhotosAssumption DEF CaptureRow
<1>5. new \in Saves
  <2>1. job[r].alone \in BOOLEAN /\ job[r].capture \in Captures
    BY <1>1 DEF NewFilings
  <2>. HIDE DEF new
  <2>. QED
    BY <1>3, <1>4, <2>1 DEF Saves
<1>. QED
  BY <1>1, <1>2, <1>3, <1>4, <1>5

LEMMA LookBeforeDropDoes ==
  ASSUME Types, NEW r \in Requests, LookBeforeDrop(r)
  PROVE  /\ job[r] \in Drops /\ Rest
         /\ \E new \in Drops \cup {Idle} : Goes(r, new) /\ (new # Idle => new.alone = job[r].alone)
<1>1. job[r] \in Drops
  BY ShapeOfJob DEF LookBeforeDrop
<1>. DEFINE new == [job[r] EXCEPT !.at = "drop"]
<1>2. new \in Drops /\ new.alone = job[r].alone
  BY <1>1 DEF Drops
<1>3. Goes(r, new) \/ Goes(r, Idle)
  BY DEF LookBeforeDrop, Ends
<1>. QED
  BY <1>1, <1>2, <1>3 DEF LookBeforeDrop, Rest

LEMMA WalkShelfDoes ==
  ASSUME Types, NEW r \in Requests, WalkShelf(r)
  PROVE  /\ job[r] \in Collections /\ job[r].at = "walk" /\ Rest
         /\ \E s \in Shelves, new \in Collections :
              /\ Goes(r, new) /\ new.alone = job[r].alone
              /\ new.at = "walk" /\ new.left = job[r].left \ {s}
              /\ new.named = job[r].named \cup {filed[c].image : c \in On(s)}
<1>1. job[r] \in Collections
  BY ShapeOfJob DEF WalkShelf
<1>2. PICK s \in job[r].left :
         Goes(r, [job[r] EXCEPT !.left = @ \ {s}, !.named = @ \cup {filed[c].image : c \in On(s)}])
  BY DEF WalkShelf
<1>. DEFINE found == {filed[c].image : c \in On(s)}
            new == [job[r] EXCEPT !.left = @ \ {s}, !.named = @ \cup found]
<1>3. found \subseteq Images /\ s \in Shelves
  BY <1>1 DEF On, Filed, Types, CaptureRow, Collections
<1>4. /\ new \in Collections /\ new.alone = job[r].alone /\ new.at = job[r].at
      /\ new.left = job[r].left \ {s} /\ new.named = job[r].named \cup found
  <2>. HIDE DEF found
  <2>. QED
    BY <1>1, <1>3 DEF Collections
<1>. QED
  BY <1>1, <1>2, <1>3, <1>4 DEF WalkShelf, Rest

LEMMA ListReadsDoes ==
  ASSUME Types, NEW r \in Requests, ListReads(r)
  PROVE  /\ job[r] \in Collections /\ job[r].at = "walk" /\ job[r].left = {} /\ Rest
         /\ \E new \in Collections :
              /\ Goes(r, new) /\ new.alone = job[r].alone
              /\ new.at = "list" /\ new.named = job[r].named \cup crops
<1>1. job[r] \in Collections
  BY ShapeOfJob DEF ListReads
<1>. DEFINE new == [job[r] EXCEPT !.at = "list", !.named = @ \cup crops]
<1>2. /\ new \in Collections /\ new.alone = job[r].alone
      /\ new.at = "list" /\ new.named = job[r].named \cup crops
  BY <1>1 DEF Collections, Types
<1>3. Goes(r, new)
  BY DEF ListReads
<1>. QED
  BY <1>1, <1>2, <1>3 DEF ListReads, Rest

LEMMA PlanCollectionDoes ==
  ASSUME Types, NEW r \in Requests, PlanCollection(r)
  PROVE  /\ job[r] \in Collections /\ job[r].at = "list" /\ Rest
         /\ \E new \in Collections :
              /\ Goes(r, new) /\ new.alone = job[r].alone
              /\ new.at = "delete" /\ new.doomed = (stored \cap old) \ job[r].named
<1>1. job[r] \in Collections
  BY ShapeOfJob DEF PlanCollection
<1>. DEFINE new == [job[r] EXCEPT !.at = "delete", !.doomed = (stored \cap old) \ job[r].named]
<1>2. /\ new \in Collections /\ new.alone = job[r].alone
      /\ new.at = "delete" /\ new.doomed = (stored \cap old) \ job[r].named
  BY <1>1 DEF Collections, Types
<1>3. Goes(r, new)
  BY DEF PlanCollection, Orphans
<1>. QED
  BY <1>1, <1>2, <1>3 DEF PlanCollection, Rest

LEMMA CollectNextDoes ==
  ASSUME Types, NEW r \in Requests, CollectNext(r)
  PROVE  /\ job[r] \in Collections /\ job[r].at = "delete"
         /\ \E k \in job[r].doomed, new \in Collections :
              /\ stored' = stored \ {k} /\ old' = old \ {k}
              /\ UNCHANGED <<records, held, history>>
              /\ Goes(r, new) /\ new.alone = job[r].alone
              /\ new.at = "delete" /\ new.doomed = job[r].doomed \ {k}
<1>1. job[r] \in Collections
  BY ShapeOfJob DEF CollectNext
<1>2. PICK k \in job[r].doomed :
         /\ stored' = stored \ {k} /\ old' = old \ {k}
         /\ Goes(r, [job[r] EXCEPT !.doomed = @ \ {k}])
  BY DEF CollectNext
<1>. DEFINE new == [job[r] EXCEPT !.doomed = @ \ {k}]
<1>3. /\ new \in Collections /\ new.alone = job[r].alone
      /\ new.at = job[r].at /\ new.doomed = job[r].doomed \ {k}
  BY <1>1 DEF Collections
<1>. QED
  BY <1>1, <1>2, <1>3 DEF CollectNext

\* Whoever dies is gone, the others go on.
LEMMA CrashDoes ==
  ASSUME Types, Crash
  PROVE  /\ AllFollow
         /\ job' \in [Requests -> Jobs \cup {Idle}] /\ play' = play
         /\ \E collector \in BOOLEAN :
              /\ stale' = IF collector THEN {} ELSE stale
              /\ \A r \in Requests : job[r] \in Collections =>
                    IF collector THEN job'[r] = Idle ELSE job'[r] = job[r]
              /\ \A r \in Requests : job[r] \notin Collections /\ collector => job'[r] = job[r]
<1>1. PICK collector \in BOOLEAN :
         /\ job' = [r \in Requests |->
                     IF job[r] # Idle /\ ((job[r].kind = "collect") <=> collector)
                     THEN Idle ELSE job[r]]
         /\ stale' = IF collector THEN {} ELSE stale
         /\ play' = play
  BY DEF Crash, Active
<1>2. ASSUME NEW r \in Requests
      PROVE  Follows(job[r], job'[r]) /\ job'[r] \in Jobs \cup {Idle}
  BY <1>1, FollowsItself DEF Types, Follows
<1>3. job' \in [Requests -> Jobs \cup {Idle}]
  BY <1>1, <1>2
<1>4. \A r \in Requests : job[r] \in Collections =>
         IF collector THEN job'[r] = Idle ELSE job'[r] = job[r]
  BY <1>1, ShapeByKind, ShapesApart DEF Jobs
<1>5. ASSUME NEW r \in Requests, job[r] \notin Collections, collector PROVE job'[r] = job[r]
  BY <1>1, <1>5, ShapeOfJob
<1>. QED
  BY <1>1, <1>2, <1>3, <1>4, <1>5 DEF AllFollow

-----------------------------------------------------------------------------
(* Types *)

LEMMA ShapesAreJobs ==
  /\ Uploads \subseteq Jobs /\ NewFilings \subseteq Jobs /\ Orders \subseteq Jobs /\ Saves \subseteq Jobs
  /\ ShelfSaves \subseteq Jobs /\ Drops \subseteq Jobs /\ Collections \subseteq Jobs
  BY DEF Jobs, Filings

LEMMA TypesStay ==
  ASSUME Types, job' \in [Requests -> Jobs \cup {Idle}], play' = play,
         UNCHANGED <<stored, old, crops, held, rows, filed>>
  PROVE  Types'
  BY DEF Types

LEMMA BegunTypes ==
  ASSUME Types, NEW r \in Requests, NEW new \in Jobs, Begins(r, new),
         UNCHANGED <<stored, old, crops, held, rows, filed>>
  PROVE  Types'
  BY Begun, TypesStay

LEMMA GoneTypes ==
  ASSUME Types, NEW r \in Requests, NEW new \in Jobs \cup {Idle}, Goes(r, new),
         UNCHANGED <<stored, old, crops, held, rows, filed>>
  PROVE  Types'
  BY Gone, TypesStay

LEMMA TypesStep ==
  ASSUME Types, Shelving, Next
  PROVE  Types'
<1>. USE DEF Rest, blobs, records
<1>1. ASSUME NEW r \in Requests, BeginUpload(r) PROVE Types'
  BY <1>1, BeginUploadDoes, BegunTypes, ShapesAreJobs
<1>2. ASSUME NEW r \in Requests, Put(r) PROVE Types'
  <2>1. job[r] \in Uploads /\ job[r].image \in Images
    BY <1>2, PutDoes DEF Uploads
  <2>2. job' \in [Requests -> Jobs \cup {Idle}] /\ play' = play /\ held' \subseteq Images
    BY <1>2, <2>1, PutDoes, Gone, ShapesAreJobs DEF Ends, Types
  <2>3. old' \subseteq stored' /\ stored' \subseteq Images /\ UNCHANGED <<crops, rows, filed>>
    BY <1>2, <2>1 DEF Put, YoungAfterPut, Types
  <2>. QED
    BY <2>2, <2>3 DEF Types
<1>3. ASSUME NEW r \in Requests, SettleRead(r) PROVE Types'
  <2>1. job[r] \in Uploads /\ job[r].image \in Images
    BY <1>3, ShapeOfJob DEF SettleRead, Uploads
  <2>2. job' \in [Requests -> Jobs \cup {Idle}] /\ play' = play
    BY <1>3, EndedFollows DEF SettleRead
  <2>3. crops' \subseteq Images /\ UNCHANGED <<stored, old, held, rows, filed>>
    BY <1>3, <2>1 DEF SettleRead, Types
  <2>. QED
    BY <2>2, <2>3 DEF Types
<1>4. ASSUME NEW r \in Requests, BeginFile(r) PROVE Types'
  BY <1>4, BeginFileDoes, BegunTypes, ShapesAreJobs
<1>5. ASSUME NEW r \in Requests, BeginBind(r) PROVE Types'
  BY <1>5, BeginBindDoes, BegunTypes, ShapesAreJobs
<1>6. ASSUME NEW r \in Requests, LookUpOrder(r) PROVE Types'
  BY <1>6, LookUpOrderDoes, GoneTypes, ShapesAreJobs
<1>7. ASSUME NEW r \in Requests, SaveCapture(r) PROVE Types'
  <2>1. job[r] \in Saves /\ job[r].row \in CaptureRow
    BY <1>7, ShapeOfJob DEF SaveCapture, Saves
  <2>2. job' \in [Requests -> Jobs \cup {Idle}] /\ play' = play
    BY <1>7, EndedFollows DEF SaveCapture
  <2>3. filed' \in [Captures -> CaptureRow \cup {Absent}] /\ held' \subseteq Images
    BY <1>7, <2>1 DEF SaveCapture, Types
  <2>4. UNCHANGED <<stored, old, crops, rows>>
    BY <1>7 DEF SaveCapture
  <2>. QED
    BY <2>2, <2>3, <2>4 DEF Types
<1>8. ASSUME NEW r \in Requests, BeginFileOnNew(r) PROVE Types'
  BY <1>8, BeginFileOnNewDoes, BegunTypes, ShapesAreJobs
<1>9. ASSUME NEW r \in Requests, SaveNewShelf(r) PROVE Types'
  <2>1. job' \in [Requests -> Jobs \cup {Idle}] /\ play' = play
    BY <1>9, SaveNewShelfDoes, Gone, ShapesAreJobs
  <2>2. rows' \in [Shelves -> 0..MaxRows] /\ UNCHANGED <<stored, old, crops, held, filed>>
    BY <1>9, PhotosAssumption DEF SaveNewShelf, Types
  <2>. QED
    BY <2>1, <2>2 DEF Types
<1>10. ASSUME NEW r \in Requests, BeginRowBehind(r) \/ BeginRename(r) PROVE Types'
  BY <1>10, BeginShelfSaveDoes, BegunTypes, ShapesAreJobs
<1>11. ASSUME NEW r \in Requests, SaveShelf(r) PROVE Types'
  <2>1. job[r] \in ShelfSaves /\ job[r].shelf \in Shelves /\ job[r].rows \in 1..MaxRows
    BY <1>11, ShapeOfJob DEF SaveShelf, ShelfSaves
  <2>2. job' \in [Requests -> Jobs \cup {Idle}] /\ play' = play
    BY <1>11, EndedFollows DEF SaveShelf
  <2>3. rows' = [rows EXCEPT ![job[r].shelf] = job[r].rows] /\ UNCHANGED <<stored, old, crops, held, filed>>
    BY <1>11 DEF SaveShelf
  <2>4. rows' \in [Shelves -> 0..MaxRows]
    BY <2>1, <2>3, PhotosAssumption DEF Types
  <2>. QED
    BY <2>2, <2>3, <2>4 DEF Types
<1>12. ASSUME NEW r \in Requests, BeginDrop(r) PROVE Types'
  BY <1>12, BeginDropDoes, BegunTypes, ShapesAreJobs
<1>13. ASSUME NEW r \in Requests, LookBeforeDrop(r) PROVE Types'
  BY <1>13, LookBeforeDropDoes, GoneTypes, ShapesAreJobs
<1>14. ASSUME NEW r \in Requests, DropShelf(r) PROVE Types'
  <2>1. job' \in [Requests -> Jobs \cup {Idle}] /\ play' = play
    BY <1>14, EndedFollows DEF DropShelf
  <2>2. rows' = [rows EXCEPT ![job[r].shelf] = 0] /\ UNCHANGED <<stored, old, crops, held>>
    BY <1>14 DEF DropShelf
  <2>4. rows' \in [Shelves -> 0..MaxRows]
    <3>1. job[r].shelf \in Shelves
      BY <1>14, ShapeOfJob DEF DropShelf, Drops
    <3>. QED
      BY <2>2, <3>1, PhotosAssumption DEF Types
  <2>3. filed' \in [Captures -> CaptureRow \cup {Absent}]
    BY <1>14 DEF DropShelf, Types
  <2>. QED
    BY <2>1, <2>2, <2>3, <2>4 DEF Types
<1>15. ASSUME NEW r \in Requests, BeginCollect(r) PROVE Types'
  BY <1>15, BeginCollectDoes, BegunTypes, ShapesAreJobs
<1>16. ASSUME NEW r \in Requests, WalkShelf(r) PROVE Types'
  BY <1>16, WalkShelfDoes, GoneTypes, ShapesAreJobs
<1>17. ASSUME NEW r \in Requests, ListReads(r) PROVE Types'
  BY <1>17, ListReadsDoes, GoneTypes, ShapesAreJobs
<1>18. ASSUME NEW r \in Requests, PlanCollection(r) PROVE Types'
  BY <1>18, PlanCollectionDoes, GoneTypes, ShapesAreJobs
<1>19. ASSUME NEW r \in Requests, CollectNext(r) PROVE Types'
  <2>1. job' \in [Requests -> Jobs \cup {Idle}] /\ play' = play
    BY <1>19, CollectNextDoes, Gone, ShapesAreJobs
  <2>2. old' \subseteq stored' /\ stored' \subseteq Images /\ UNCHANGED <<crops, held, rows, filed>>
    BY <1>19 DEF CollectNext, Types
  <2>. QED
    BY <2>1, <2>2 DEF Types
<1>20. ASSUME NEW r \in Requests, EndCollection(r) PROVE Types'
  BY <1>20, EndedFollows, TypesStay DEF EndCollection
<1>21. ASSUME CreateShelf PROVE Types'
  <2>1. job' \in [Requests -> Jobs \cup {Idle}] /\ play' = play
    BY <1>21, OnceDone DEF CreateShelf
  <2>2. rows' \in [Shelves -> 0..MaxRows] /\ UNCHANGED <<stored, old, crops, held, filed>>
    BY <1>21, PhotosAssumption DEF CreateShelf, Types
  <2>. QED
    BY <2>1, <2>2 DEF Types
<1>22. ASSUME DeleteCapture PROVE Types'
  <2>1. job' \in [Requests -> Jobs \cup {Idle}] /\ play' = play
    BY <1>22, OnceDone DEF DeleteCapture
  <2>2. filed' \in [Captures -> CaptureRow \cup {Absent}] /\ UNCHANGED <<stored, old, crops, held, rows>>
    BY <1>22 DEF DeleteCapture, Types
  <2>. QED
    BY <2>1, <2>2 DEF Types
<1>23. ASSUME DeleteImage PROVE Types'
  <2>1. job' \in [Requests -> Jobs \cup {Idle}] /\ play' = play
    BY <1>23, OnceDone DEF DeleteImage
  <2>2. old' \subseteq stored' /\ stored' \subseteq Images /\ UNCHANGED <<crops, held, rows, filed>>
    BY <1>23 DEF DeleteImage, Types
  <2>. QED
    BY <2>1, <2>2 DEF Types
<1>24. ASSUME NEW k \in Images, Forget(k) \/ Age(k) PROVE Types'
  BY <1>24 DEF Forget, Age, Types
<1>25. ASSUME Crash PROVE Types'
  <2>1. UNCHANGED <<stored, old, crops, held, rows, filed>>
    BY <1>25 DEF Crash
  <2>. QED
    BY <1>25, <2>1, CrashDoes, TypesStay
<1>. QED
  BY <1>1, <1>2, <1>3, <1>4, <1>5, <1>6, <1>7, <1>8, <1>9, <1>10, <1>11, <1>12, <1>13,
     <1>14, <1>15, <1>16, <1>17, <1>18, <1>19, <1>20, <1>21, <1>22, <1>23, <1>24, <1>25 DEF Next

-----------------------------------------------------------------------------
(* Shelves and strips *)

LEMMA ShelvedFollows ==
  ASSUME NEW i, NEW j, Follows(i, j),
         NEW mm, NEW nn, mm \subseteq nn, NEW oo, NEW pp, oo \subseteq pp,
         NEW rr \in [Shelves -> 0..MaxRows], NEW tt \in [Shelves -> 0..MaxRows],
         \A s \in Shelves \cap mm :
            s \in pp \/ tt[s] = 0 \/ tt[s] = rr[s] \/ (0 < rr[s] /\ rr[s] <= tt[s]),
         ShelfKnown(i, mm), RowKnown(i, rr, oo)
  PROVE  ShelfKnown(j, nn) /\ RowKnown(j, tt, pp)
<1>1. CASE j \in Orders \cup Saves
  <2>1. i \in Orders \cup Saves /\ j.row = i.row
    BY <1>1, ShapeByKind, ShapesApart DEF Follows, Same, SameUpload, SameFiling, SameShelfSave,
       SameDrop, SameCollection, Filings, Idle
  <2>2. i.row.shelf \in Shelves \cap mm /\ i.row.row \in 1..MaxRows
    BY <2>1 DEF Orders, Saves, CaptureRow, ShelfKnown
  <2>3. j \notin ShelfSaves
    BY <1>1, ShapeByKind
  <2>4. i.row.shelf \in oo \/ rr[i.row.shelf] = 0 \/ i.row.row <= rr[i.row.shelf]
    BY <2>1 DEF RowKnown
  <2>5. i.row.shelf \in pp \/ tt[i.row.shelf] = 0 \/ i.row.row <= tt[i.row.shelf]
    BY <2>2, <2>4, PhotosAssumption
  <2>. QED
    BY <1>1, <2>1, <2>2, <2>3, <2>5 DEF ShelfKnown, RowKnown
<1>2. CASE j \in ShelfSaves
  <2>1. i \in ShelfSaves /\ j.shelf = i.shelf
    BY <1>2, ShapeByKind, ShapesApart DEF Follows, Same, SameUpload, SameFiling, SameShelfSave,
       SameDrop, SameCollection, Idle
  <2>2. j \notin Orders \cup Saves
    BY <1>2, ShapeByKind
  <2>. QED
    BY <1>2, <2>1, <2>2 DEF ShelfKnown, RowKnown
<1>3. CASE j \notin Orders \cup Saves \cup ShelfSaves
  BY <1>3 DEF ShelfKnown, RowKnown
<1>. QED
  BY <1>1, <1>2, <1>3

Standing ==
    /\ \A s \in Shelves : There(s) => s \in made
    /\ \A c \in Captures : Filed(c) => There(filed[c].shelf)
    /\ \A c, e \in Captures : c # e /\ Filed(c) /\ Filed(e) => Place(c) # Place(e)
    /\ PhotosStandInDeclaredRows
JobShelved(r) == ShelfKnown(job[r], made) /\ RowKnown(job[r], rows, overruled)

LEMMA ShelvingParts == Shelving <=> Standing /\ \A r \in Requests : JobShelved(r)
  BY DEF Shelving, Standing, JobShelved

LEMMA ShelvingKept ==
  ASSUME Types, Types', Shelving, Standing', made \subseteq made', overruled \subseteq overruled',
         \A s \in Shelves \cap made :
            s \in overruled' \/ rows'[s] = 0 \/ rows'[s] = rows[s] \/ (0 < rows[s] /\ rows[s] <= rows'[s]),
         \A q \in Requests :
            Follows(job[q], job'[q])
              \/ (ShelfKnown(job'[q], made') /\ RowKnown(job'[q], rows', overruled'))
  PROVE  Shelving'
<1>1. rows \in [Shelves -> 0..MaxRows] /\ rows' \in [Shelves -> 0..MaxRows]
  BY DEF Types
<1>2. ASSUME NEW q \in Requests, Follows(job[q], job'[q])
      PROVE  ShelfKnown(job'[q], made') /\ RowKnown(job'[q], rows', overruled')
  BY <1>1, <1>2, ShelvedFollows DEF Shelving
<1>3. \A q \in Requests : ShelfKnown(job'[q], made') /\ RowKnown(job'[q], rows', overruled')
  BY <1>2
<1>4. (\A q \in Requests : JobShelved(q))'
  BY <1>3 DEF JobShelved
<1>5. Shelving' <=> Standing' /\ (\A q \in Requests : JobShelved(q))'
  BY DEF Shelving, Standing, JobShelved
<1>. QED
  BY <1>4, <1>5

\* Nothing on the shelves has changed.
LEMMA ShelvesStand ==
  ASSUME Types, Types', Shelving, UNCHANGED <<rows, filed, made, overruled>>,
         \A q \in Requests :
            Follows(job[q], job'[q])
              \/ (ShelfKnown(job'[q], made) /\ RowKnown(job'[q], rows, overruled))
  PROVE  Shelving'
<1>1. Standing'
  BY DEF Shelving, Standing, There, Filed, Place, PhotosStandInDeclaredRows
<1>2. \A q \in Requests :
            Follows(job[q], job'[q])
              \/ (ShelfKnown(job'[q], made') /\ RowKnown(job'[q], rows', overruled'))
  OBVIOUS
<1>. QED
  BY <1>1, <1>2, ShelvingKept

\* A request that has nothing to do with shelves.
LEMMA NotShelving ==
  ASSUME NEW j, j \notin Orders \cup Saves \cup ShelfSaves, NEW mm, NEW rr, NEW oo
  PROVE  ShelfKnown(j, mm) /\ RowKnown(j, rr, oo)
  BY DEF ShelfKnown, RowKnown

LEMMA OffShelves ==
  /\ \A j \in Uploads \cup NewFilings \cup Drops \cup Collections \cup {Idle} :
        j \notin Orders \cup Saves \cup ShelfSaves
  BY ShapeByKind

LEMMA BegunOnShelves ==
  ASSUME Types, Types', Shelving, UNCHANGED <<rows, filed, made, overruled>>,
         NEW r \in Requests, NEW new \in Jobs, Begins(r, new),
         ShelfKnown(new, made), RowKnown(new, rows, overruled)
  PROVE  Shelving'
<1>1. job'[r] = new /\ OthersFollow(r)
  BY Begun
<1>. QED
  BY <1>1, ShelvesStand DEF OthersFollow

LEMMA GoneOnShelves ==
  ASSUME Types, Types', Shelving, UNCHANGED <<rows, filed, made, overruled>>,
         NEW r \in Requests, NEW new \in Jobs \cup {Idle}, Goes(r, new),
         ShelfKnown(new, made), RowKnown(new, rows, overruled)
  PROVE  Shelving'
<1>1. job'[r] = new /\ OthersFollow(r)
  BY Gone
<1>. QED
  BY <1>1, ShelvesStand DEF OthersFollow

LEMMA AllFollowOnShelves ==
  ASSUME Types, Types', Shelving, UNCHANGED <<rows, filed, made, overruled>>, AllFollow
  PROVE  Shelving'
  BY ShelvesStand DEF AllFollow

LEMMA SaveCaptureOnShelves ==
  ASSUME Types, Types', Shelving, NEW r \in Requests, SaveCapture(r)
  PROVE  Shelving'
<1>. DEFINE c == job[r].capture
            row == job[r].row
<1>1. job[r] \in Saves /\ c \in Captures /\ row \in CaptureRow
  BY ShapeOfJob DEF SaveCapture, Saves
<1>2. AllFollow /\ UNCHANGED <<rows, made, overruled>>
  BY EndedFollows DEF SaveCapture
<1>3. CASE Refused(c, row)
  <2>1. UNCHANGED filed
    BY <1>3 DEF SaveCapture
  <2>. QED
    BY <1>2, <2>1, AllFollowOnShelves
<1>4. CASE ~Refused(c, row)
  <2>1. filed' = [filed EXCEPT ![c] = row]
    BY <1>4 DEF SaveCapture
  <2>2. /\ rows[row.shelf] > 0 /\ row.shelf \in Shelves
        /\ \A e \in Captures \ {c} : filed[e] # Absent => PlaceOf(filed[e]) # PlaceOf(row)
    BY <1>1, <1>4 DEF Refused, There, Filed, Place, CaptureRow
  <2>3. row.shelf \in overruled \/ row.row <= rows[row.shelf]
    <3>1. rows[row.shelf] # 0
      BY <2>2
    <3>. QED
      BY <1>1, <3>1 DEF Shelving, RowKnown
  <2>4. filed'[c] = row /\ \A e \in Captures \ {c} : filed'[e] = filed[e]
    BY <1>1, <2>1 DEF Types
  <2>. HIDE DEF c, row
  <2>5. \A s \in Shelves : (There(s) => s \in made)'
    BY <1>2 DEF Shelving, There
  <2>6. \A e \in Captures : filed'[e] # Absent => rows'[filed'[e].shelf] > 0
    BY <1>1, <1>2, <2>2, <2>4 DEF Shelving, There, Filed
  <2>7. \A d, e \in Captures : d # e /\ filed'[d] # Absent /\ filed'[e] # Absent
            => PlaceOf(filed'[d]) # PlaceOf(filed'[e])
    BY <1>1, <2>2, <2>4 DEF Shelving, Filed, Place
  <2>8. \A e \in Captures :
            filed'[e] # Absent /\ filed'[e].shelf \notin overruled => filed'[e].row <= rows'[filed'[e].shelf]
    BY <1>1, <1>2, <2>3, <2>4 DEF Shelving, PhotosStandInDeclaredRows, Filed
  <2>9. Standing'
    BY <1>2, <2>5, <2>6, <2>7, <2>8 DEF Standing, There, Filed, Place, PhotosStandInDeclaredRows
  <2>. QED
    BY <1>2, <2>9, ShelvingKept DEF AllFollow
<1>. QED
  BY <1>3, <1>4

\* A shelf made now has one row, and nothing on it yet.
LEMMA NewShelfStands ==
  ASSUME Types, Types', Shelving, NEW s \in Shelves \ made,
         rows' = [rows EXCEPT ![s] = 1], made' = made \cup {s}, UNCHANGED <<filed, overruled>>
  PROVE  /\ Standing'
         /\ rows'[s] = 1
         /\ \A t \in Shelves \cap made : rows'[t] = rows[t]
<1>1. rows'[s] = 1 /\ \A t \in Shelves \ {s} : rows'[t] = rows[t]
  BY DEF Types
<1>2. \A c \in Captures : filed[c] # Absent => filed[c].shelf \in Shelves \ {s}
  BY DEF Types, CaptureRow, Shelving, Filed, There
<1>3. \A t \in Shelves : rows'[t] > 0 => t \in made'
  BY <1>1 DEF Shelving, There
<1>4. \A c \in Captures : filed[c] # Absent => rows'[filed[c].shelf] > 0
  BY <1>1, <1>2 DEF Shelving, Filed, There
<1>5. \A c \in Captures : filed[c] # Absent /\ filed[c].shelf \notin overruled
          => filed[c].row <= rows'[filed[c].shelf]
  BY <1>1, <1>2 DEF Shelving, Filed, PhotosStandInDeclaredRows
<1>6. \A c, e \in Captures : c # e /\ filed[c] # Absent /\ filed[e] # Absent
          => PlaceOf(filed[c]) # PlaceOf(filed[e])
  BY DEF Shelving, Filed, Place
<1>7. Standing'
  BY <1>3, <1>4, <1>5, <1>6 DEF Standing, There, Filed, Place, PhotosStandInDeclaredRows
<1>. QED
  BY <1>1, <1>7

LEMMA SaveNewShelfOnShelves ==
  ASSUME Types, Types', Shelving, NEW r \in Requests, SaveNewShelf(r)
  PROVE  Shelving'
<1>1. PICK s \in Shelves \ made, new \in Saves :
        /\ rows' = [rows EXCEPT ![s] = 1] /\ made' = made \cup {s}
        /\ UNCHANGED <<filed, overruled>>
        /\ Goes(r, new)
        /\ new.row.shelf = s /\ new.row.row = 1
  BY SaveNewShelfDoes DEF history
<1>2. /\ Standing' /\ rows'[s] = 1
      /\ \A t \in Shelves \cap made : rows'[t] = rows[t]
  BY <1>1, NewShelfStands
<1>3. job'[r] = new /\ OthersFollow(r)
  BY <1>1, Gone, ShapesAreJobs
<1>4. new \notin ShelfSaves
  BY ShapeByKind
<1>5. ShelfKnown(new, made') /\ RowKnown(new, rows', overruled')
  BY <1>1, <1>2, <1>4 DEF ShelfKnown, RowKnown
<1>6. \A q \in Requests :
         Follows(job[q], job'[q])
           \/ (ShelfKnown(job'[q], made') /\ RowKnown(job'[q], rows', overruled'))
  BY <1>3, <1>5 DEF OthersFollow
<1>. QED
  BY <1>1, <1>2, <1>6, ShelvingKept

LEMMA CreateShelfOnShelves ==
  ASSUME Types, Types', Shelving, CreateShelf
  PROVE  Shelving'
<1>1. PICK s \in Shelves \ made :
        /\ rows' = [rows EXCEPT ![s] = 1] /\ made' = made \cup {s}
        /\ UNCHANGED <<filed, overruled>>
  BY DEF CreateShelf, history
<1>2. AllFollow
  BY OnceDone DEF CreateShelf
<1>3. Standing' /\ \A t \in Shelves \cap made : rows'[t] = rows[t]
  BY <1>1, NewShelfStands
<1>. QED
  BY <1>1, <1>2, <1>3, ShelvingKept DEF AllFollow

LEMMA SaveShelfOnShelves ==
  ASSUME Types, Types', Shelving, NEW r \in Requests, SaveShelf(r)
  PROVE  Shelving'
<1>. DEFINE s == job[r].shelf
            n == job[r].rows
<1>1. job[r] \in ShelfSaves /\ s \in Shelves /\ n \in 1..MaxRows
  BY ShapeOfJob DEF SaveShelf, ShelfSaves
<1>2. AllFollow /\ UNCHANGED <<filed, made>>
  BY EndedFollows DEF SaveShelf
<1>3. rows'[s] = n /\ \A t \in Shelves \ {s} : rows'[t] = rows[t]
  BY <1>1 DEF SaveShelf, Types
<1>4. overruled' = IF rows[s] > 0 /\ rows[s] <= n THEN overruled ELSE overruled \cup {s}
  BY DEF SaveShelf, There
<1>5. s \in made
  BY <1>1 DEF Shelving, ShelfKnown
<1>6. n \in Nat /\ n > 0 /\ \A t \in Shelves : rows[t] \in Nat
  BY <1>1, PhotosAssumption DEF Types
<1>. HIDE DEF s, n
<1>7. \A t \in Shelves : rows'[t] > 0 => t \in made
  BY <1>1, <1>3, <1>5 DEF Shelving, There
<1>8. \A c \in Captures : filed[c] # Absent =>
         filed[c].shelf \in Shelves /\ filed[c].row \in Nat /\ rows[filed[c].shelf] > 0
  BY PhotosAssumption DEF Types, CaptureRow, Shelving, Filed, There
<1>9. \A c \in Captures : filed[c] # Absent => rows'[filed[c].shelf] > 0
  BY <1>3, <1>6, <1>8
<1>10. \A c \in Captures : filed[c] # Absent /\ filed[c].shelf \notin overruled
          => filed[c].row <= rows[filed[c].shelf]
  BY DEF Shelving, Filed, PhotosStandInDeclaredRows
<1>11. ASSUME NEW c \in Captures, filed[c] # Absent, filed[c].shelf \notin overruled'
       PROVE  filed[c].row <= rows'[filed[c].shelf]
  <2>1. filed[c].row <= rows[filed[c].shelf]
    BY <1>4, <1>10, <1>11
  <2>2. CASE filed[c].shelf = s
    BY <1>3, <1>4, <1>6, <1>8, <1>11, <2>1, <2>2
  <2>3. CASE filed[c].shelf # s
    BY <1>3, <1>8, <1>11, <2>1, <2>3
  <2>. QED
    BY <2>2, <2>3
<1>12. \A c, e \in Captures : c # e /\ filed[c] # Absent /\ filed[e] # Absent
          => PlaceOf(filed[c]) # PlaceOf(filed[e])
  BY DEF Shelving, Filed, Place
<1>13. Standing'
  BY <1>2, <1>7, <1>9, <1>11, <1>12 DEF Standing, There, Filed, Place, PhotosStandInDeclaredRows
<1>14. \A t \in Shelves \cap made :
          t \in overruled' \/ rows'[t] = 0 \/ rows'[t] = rows[t] \/ (0 < rows[t] /\ rows[t] <= rows'[t])
  BY <1>3, <1>4, <1>6
<1>15. overruled \subseteq overruled'
  BY <1>4
<1>. QED
  BY <1>2, <1>13, <1>14, <1>15, ShelvingKept DEF AllFollow

LEMMA DropShelfOnShelves ==
  ASSUME Types, Types', Shelving, NEW r \in Requests, DropShelf(r)
  PROVE  Shelving'
<1>. DEFINE s == job[r].shelf
<1>1. s \in Shelves
  BY ShapeOfJob DEF DropShelf, Drops
<1>2. AllFollow /\ UNCHANGED <<made, overruled>>
  BY EndedFollows DEF DropShelf, history
<1>3. rows'[s] = 0 /\ \A t \in Shelves \ {s} : rows'[t] = rows[t]
  BY <1>1 DEF DropShelf, Types
<1>4. \A c \in Captures :
         filed'[c] # Absent => filed'[c] = filed[c] /\ filed[c].shelf # s /\ filed[c].shelf \in Shelves
  BY DEF DropShelf, On, Filed, Types, CaptureRow
<1>. HIDE DEF s
<1>5. \A t \in Shelves : rows'[t] > 0 => t \in made'
  BY <1>1, <1>2, <1>3 DEF Shelving, There
<1>6. \A c \in Captures : filed'[c] # Absent => rows'[filed'[c].shelf] > 0
  BY <1>3, <1>4 DEF Shelving, There, Filed
<1>7. \A c \in Captures : filed'[c] # Absent /\ filed'[c].shelf \notin overruled'
          => filed'[c].row <= rows'[filed'[c].shelf]
  BY <1>2, <1>3, <1>4 DEF Shelving, PhotosStandInDeclaredRows, Filed
<1>8. \A c, e \in Captures : c # e /\ filed'[c] # Absent /\ filed'[e] # Absent
          => PlaceOf(filed'[c]) # PlaceOf(filed'[e])
  BY <1>4 DEF Shelving, Filed, Place
<1>9. Standing'
  BY <1>5, <1>6, <1>7, <1>8 DEF Standing, There, Filed, Place, PhotosStandInDeclaredRows
<1>. QED
  BY <1>2, <1>3, <1>9, ShelvingKept DEF AllFollow

LEMMA DeleteCaptureOnShelves ==
  ASSUME Types, Types', Shelving, DeleteCapture
  PROVE  Shelving'
<1>1. AllFollow /\ UNCHANGED <<rows, made, overruled>>
  BY OnceDone DEF DeleteCapture, history
<1>2. \A c \in Captures : filed'[c] # Absent => filed'[c] = filed[c]
  BY DEF DeleteCapture, Types
<1>3. Standing'
  BY <1>1, <1>2 DEF Shelving, Standing, There, Filed, Place, PhotosStandInDeclaredRows
<1>. QED
  BY <1>1, <1>3, ShelvingKept DEF AllFollow

LEMMA ShelvingStep ==
  ASSUME Types, Types', Shelving, Next
  PROVE  Shelving'
<1>. USE DEF Rest, blobs, records, history
<1>1. ASSUME NEW r \in Requests, BeginUpload(r) PROVE Shelving'
  BY <1>1, BeginUploadDoes, BegunOnShelves, ShapesAreJobs, OffShelves, NotShelving
<1>2. ASSUME NEW r \in Requests, Put(r) PROVE Shelving'
  <2>1. PICK new \in Uploads \cup {Idle} : Goes(r, new)
    BY <1>2, PutDoes DEF Ends
  <2>2. UNCHANGED <<rows, filed, made, overruled>>
    BY <1>2 DEF Put
  <2>. QED
    BY <2>1, <2>2, GoneOnShelves, ShapesAreJobs, OffShelves, NotShelving
<1>3. ASSUME NEW r \in Requests, SettleRead(r) PROVE Shelving'
  BY <1>3, EndedFollows, AllFollowOnShelves DEF SettleRead
<1>4. ASSUME NEW r \in Requests, BeginFile(r) \/ BeginBind(r) PROVE Shelving'
  <2>1. PICK new \in Orders \cup Saves :
           /\ Begins(r, new) /\ Rest
           /\ There(new.row.shelf) /\ new.row.row <= rows[new.row.shelf]
    BY <1>4, BeginFileDoes, BeginBindDoes
  <2>2. new \notin ShelfSaves /\ new.row.shelf \in Shelves
    BY ShapeByKind DEF Orders, Saves, CaptureRow
  <2>3. ShelfKnown(new, made) /\ RowKnown(new, rows, overruled)
    BY <2>1, <2>2 DEF Shelving, ShelfKnown, RowKnown
  <2>. QED
    BY <2>1, <2>3, BegunOnShelves, ShapesAreJobs
<1>5. ASSUME NEW r \in Requests, LookUpOrder(r) PROVE Shelving'
  <2>1. PICK new \in Saves :
           /\ Goes(r, new) /\ Rest
           /\ new.row.shelf = job[r].row.shelf /\ new.row.row = job[r].row.row
    BY <1>5, LookUpOrderDoes
  <2>2. new \notin ShelfSaves /\ job[r] \in Orders
    BY <1>5, LookUpOrderDoes, ShapeByKind
  <2>3. ShelfKnown(new, made) /\ RowKnown(new, rows, overruled)
    BY <2>1, <2>2 DEF Shelving, ShelfKnown, RowKnown
  <2>. QED
    BY <2>1, <2>3, GoneOnShelves, ShapesAreJobs
<1>6. ASSUME NEW r \in Requests, SaveCapture(r) PROVE Shelving'
  BY <1>6, SaveCaptureOnShelves
<1>7. ASSUME NEW r \in Requests, BeginFileOnNew(r) PROVE Shelving'
  BY <1>7, BeginFileOnNewDoes, BegunOnShelves, ShapesAreJobs, OffShelves, NotShelving
<1>8. ASSUME NEW r \in Requests, SaveNewShelf(r) PROVE Shelving'
  BY <1>8, SaveNewShelfOnShelves
<1>9. ASSUME NEW r \in Requests, BeginRowBehind(r) \/ BeginRename(r) PROVE Shelving'
  <2>1. PICK new \in ShelfSaves : Begins(r, new) /\ Rest /\ There(new.shelf)
    BY <1>9, BeginShelfSaveDoes
  <2>2. new \notin Orders \cup Saves /\ new.shelf \in Shelves
    BY ShapeByKind DEF ShelfSaves
  <2>3. ShelfKnown(new, made) /\ RowKnown(new, rows, overruled)
    BY <2>1, <2>2 DEF Shelving, ShelfKnown, RowKnown
  <2>. QED
    BY <2>1, <2>3, BegunOnShelves, ShapesAreJobs
<1>10. ASSUME NEW r \in Requests, SaveShelf(r) PROVE Shelving'
  BY <1>10, SaveShelfOnShelves
<1>11. ASSUME NEW r \in Requests, BeginDrop(r) PROVE Shelving'
  BY <1>11, BeginDropDoes, BegunOnShelves, ShapesAreJobs, OffShelves, NotShelving
<1>12. ASSUME NEW r \in Requests, LookBeforeDrop(r) PROVE Shelving'
  BY <1>12, LookBeforeDropDoes, GoneOnShelves, ShapesAreJobs, OffShelves, NotShelving
<1>13. ASSUME NEW r \in Requests, DropShelf(r) PROVE Shelving'
  BY <1>13, DropShelfOnShelves
<1>14. ASSUME NEW r \in Requests, BeginCollect(r) PROVE Shelving'
  BY <1>14, BeginCollectDoes, BegunOnShelves, ShapesAreJobs, OffShelves, NotShelving
<1>15. ASSUME NEW r \in Requests, WalkShelf(r) \/ ListReads(r) \/ PlanCollection(r) \/ CollectNext(r)
       PROVE Shelving'
  <2>1. PICK new \in Collections : Goes(r, new) /\ UNCHANGED <<rows, filed, made, overruled>>
    BY <1>15, WalkShelfDoes, ListReadsDoes, PlanCollectionDoes, CollectNextDoes
  <2>. QED
    BY <2>1, GoneOnShelves, ShapesAreJobs, OffShelves, NotShelving
<1>16. ASSUME NEW r \in Requests, EndCollection(r) PROVE Shelving'
  BY <1>16, EndedFollows, AllFollowOnShelves DEF EndCollection
<1>17. ASSUME CreateShelf PROVE Shelving'
  BY <1>17, CreateShelfOnShelves
<1>18. ASSUME DeleteCapture PROVE Shelving'
  BY <1>18, DeleteCaptureOnShelves
<1>19. ASSUME DeleteImage PROVE Shelving'
  BY <1>19, OnceDone, AllFollowOnShelves DEF DeleteImage
<1>20. ASSUME NEW k \in Images, Forget(k) \/ Age(k) PROVE Shelving'
  <2>1. UNCHANGED <<job, rows, filed, made, overruled>>
    BY <1>20 DEF Forget, Age
  <2>. QED
    BY <2>1, Still, AllFollowOnShelves
<1>21. ASSUME Crash PROVE Shelving'
  <2>1. UNCHANGED <<rows, filed, made, overruled>>
    BY <1>21 DEF Crash
  <2>. QED
    BY <1>21, <2>1, CrashDoes, AllFollowOnShelves
<1>. QED
  BY <1>1, <1>2, <1>3, <1>4, <1>5, <1>6, <1>7, <1>8, <1>9, <1>10, <1>11, <1>12, <1>13,
     <1>14, <1>15, <1>16, <1>17, <1>18, <1>19, <1>20, <1>21 DEF Next

-----------------------------------------------------------------------------
(* Filing and moving *)

LEMMA FilingFollows ==
  ASSUME NEW i, NEW j, Follows(i, j), j \in Filings
  PROVE  i \in Filings /\ j.kind = i.kind /\ j.capture = i.capture /\ j.row = i.row
  BY ShapesApart DEF Follows, Same, SameUpload, SameFiling, SameShelfSave, SameDrop,
     SameCollection, Jobs

LEMMA FilingKept ==
  ASSUME Filing, AllFollow, \A c \in Captures : filed'[c] \in {Absent, filed[c]}
  PROVE  Filing'
<1>1. \A r \in Requests : job'[r] \in Filings =>
         /\ job[r] \in Filings /\ job'[r].kind = job[r].kind
         /\ job'[r].capture = job[r].capture /\ job'[r].row = job[r].row
  BY FilingFollows DEF AllFollow
<1>2. \A r \in Requests : job[r] \in Filings => job[r].capture \in Captures
  BY DEF Filings, NewFilings, Orders, Saves
<1>3. ASSUME NEW r \in Requests, job'[r] \in Filings
      PROVE  \/ filed'[job'[r].capture] = Absent
             \/ job'[r].kind = "bind" /\ filed'[job'[r].capture].image = job'[r].row.image
  BY <1>1, <1>2, <1>3 DEF Filing
<1>4. ASSUME NEW q \in Requests, NEW r \in Requests, q # r, job'[q] \in Filings, job'[r] \in Filings,
             job'[q].capture = job'[r].capture
      PROVE  job'[r].kind = "bind" /\ job'[q].row.image = job'[r].row.image
  BY <1>1, <1>4 DEF Filing
<1>. QED
  BY <1>3, <1>4 DEF Filing

LEMMA FilingBegun ==
  ASSUME Types, Filing, UNCHANGED filed,
         NEW r \in Requests, NEW new \in Jobs, Begins(r, new),
         new \in Filings =>
           \/ Fresh(new.capture)
           \/ /\ new.kind = "bind" /\ Filed(new.capture)
              /\ new.row.image = filed[new.capture].image
  PROVE  Filing'
<1>1. job'[r] = new /\ job[r] = Idle /\ OthersFollow(r)
  BY Begun
<1>2. \A q \in Requests \ {r} : job'[q] \in Filings =>
         /\ job[q] \in Filings /\ job'[q].kind = job[q].kind
         /\ job'[q].capture = job[q].capture /\ job'[q].row = job[q].row
  BY <1>1, FilingFollows DEF OthersFollow
<1>3. \A q \in Requests : job[q] \in Filings =>
         /\ job[q].capture \in Captures /\ job[q] # Idle /\ job[q].kind \in {"file", "bind"}
  <2>1. \A j \in Filings : j.capture \in Captures
    BY DEF Filings, NewFilings, Orders, Saves
  <2>2. \A j \in Filings : j.kind \in {"file", "bind"} /\ j # Idle
    BY ShapeByKind, ShapesApart DEF Filings, Jobs
  <2>. QED
    BY <2>1, <2>2
<1>4. ASSUME NEW q \in Requests, job'[q] \in Filings
      PROVE  \/ filed'[job'[q].capture] = Absent
             \/ job'[q].kind = "bind" /\ filed'[job'[q].capture].image = job'[q].row.image
  BY <1>1, <1>2, <1>4 DEF Filing, Fresh, Filed
<1>5. ASSUME NEW q \in Requests \ {r}, job'[q] \in Filings, new \in Filings, job'[q].capture = new.capture
      PROVE  /\ new.kind = "bind" /\ job'[q].kind = "bind"
             /\ job'[q].row.image = new.row.image
  <2>1. job[q] \in Filings /\ job[q].capture = new.capture
    BY <1>2, <1>5
  <2>2. ~Fresh(new.capture)
    BY <1>3, <2>1 DEF Fresh, Active
  <2>. QED
    BY <1>2, <1>5, <2>1, <2>2 DEF Filing, Filed
<1>6. ASSUME NEW q \in Requests, NEW p \in Requests, q # p, job'[q] \in Filings, job'[p] \in Filings,
             job'[q].capture = job'[p].capture
      PROVE  job'[p].kind = "bind" /\ job'[q].row.image = job'[p].row.image
  <2>1. CASE q = r
    BY <1>1, <1>5, <1>6, <2>1
  <2>2. CASE p = r
    BY <1>1, <1>5, <1>6, <2>2
  <2>3. CASE q # r /\ p # r
    BY <1>2, <1>6, <2>3 DEF Filing
  <2>. QED
    BY <2>1, <2>2, <2>3
<1>. QED
  BY <1>4, <1>6 DEF Filing

\* A filing that goes on is the same filing.
LEMMA FilingGone ==
  ASSUME Types, Filing, UNCHANGED filed,
         NEW r \in Requests, NEW new \in Jobs \cup {Idle}, Goes(r, new),
         new \in Filings => /\ job[r] \in Filings /\ new.kind = job[r].kind
                            /\ new.capture = job[r].capture
                            /\ new.row.image = job[r].row.image
  PROVE  Filing'
<1>1. job'[r] = new /\ \A q \in Requests \ {r} : job'[q] = job[q]
  BY Gone
<1>2. \A q \in Requests : job'[q] \in Filings =>
         /\ job[q] \in Filings /\ job'[q].kind = job[q].kind
         /\ job'[q].capture = job[q].capture /\ job'[q].row.image = job[q].row.image
  BY <1>1
<1>3. ASSUME NEW q \in Requests, job'[q] \in Filings
      PROVE  \/ filed'[job'[q].capture] = Absent
             \/ job'[q].kind = "bind" /\ filed'[job'[q].capture].image = job'[q].row.image
  BY <1>2, <1>3 DEF Filing
<1>4. ASSUME NEW q \in Requests, NEW p \in Requests, q # p, job'[q] \in Filings, job'[p] \in Filings,
             job'[q].capture = job'[p].capture
      PROVE  job'[p].kind = "bind" /\ job'[q].row.image = job'[p].row.image
  BY <1>2, <1>4 DEF Filing
<1>. QED
  BY <1>3, <1>4 DEF Filing

LEMMA NotFiling ==
  ASSUME NEW j \in Uploads \cup ShelfSaves \cup Drops \cup Collections \cup {Idle}
  PROVE  j \notin Filings
  BY ShapesApart DEF Jobs

LEMMA SaveCaptureFiling ==
  ASSUME Types, Filing, NEW r \in Requests, SaveCapture(r)
  PROVE  Filing'
<1>. DEFINE c == job[r].capture
            row == job[r].row
<1>1. job[r] \in Saves /\ job[r] \in Filings /\ c \in Captures
  BY ShapeOfJob DEF SaveCapture, Saves, Filings
<1>2. AllFollow /\ job'[r] = Idle /\ \A q \in Requests \ {r} : job'[q] = job[q]
  BY EndedFollows DEF SaveCapture
<1>3. CASE Refused(c, row)
  <2>1. UNCHANGED filed
    BY <1>3 DEF SaveCapture
  <2>. QED
    BY <1>2, <2>1, FilingKept
<1>4. CASE ~Refused(c, row)
  <2>1. filed' = [filed EXCEPT ![c] = row]
    BY <1>4 DEF SaveCapture
  <2>2. filed'[c] = row /\ \A e \in Captures \ {c} : filed'[e] = filed[e]
    BY <1>1, <2>1 DEF Types
  <2>3. \A q \in Requests : job'[q] \in Filings => q # r /\ job'[q] = job[q] /\ job[q].capture \in Captures
    <3>1. \A j \in Filings : j.capture \in Captures
      BY DEF Filings, NewFilings, Orders, Saves
    <3>. QED
      BY <1>2, <3>1, NotFiling
  <2>4. ASSUME NEW q \in Requests, job'[q] \in Filings
        PROVE  \/ filed'[job'[q].capture] = Absent
               \/ job'[q].kind = "bind" /\ filed'[job'[q].capture].image = job'[q].row.image
    <3>1. CASE job[q].capture = c
      BY <1>1, <2>2, <2>3, <2>4, <3>1 DEF Filing
    <3>2. CASE job[q].capture # c
      BY <2>2, <2>3, <2>4, <3>2 DEF Filing
    <3>. QED
      BY <3>1, <3>2
  <2>5. ASSUME NEW q \in Requests, NEW p \in Requests, q # p, job'[q] \in Filings, job'[p] \in Filings,
               job'[q].capture = job'[p].capture
        PROVE  job'[p].kind = "bind" /\ job'[q].row.image = job'[p].row.image
    BY <2>3, <2>5 DEF Filing
  <2>. QED
    BY <2>4, <2>5 DEF Filing
<1>. QED
  BY <1>3, <1>4

LEMMA FilingStep ==
  ASSUME Types, Shelving, Filing, Next
  PROVE  Filing'
<1>. USE DEF Rest, blobs, records, history
<1>1. ASSUME NEW r \in Requests, BeginUpload(r) PROVE Filing'
  BY <1>1, BeginUploadDoes, FilingBegun, ShapesAreJobs, NotFiling
<1>2. ASSUME NEW r \in Requests, Put(r) PROVE Filing'
  <2>1. PICK new \in Uploads \cup {Idle} : Goes(r, new)
    BY <1>2, PutDoes DEF Ends
  <2>2. UNCHANGED filed
    BY <1>2 DEF Put
  <2>. QED
    BY <2>1, <2>2, FilingGone, ShapesAreJobs, NotFiling
<1>3. ASSUME NEW r \in Requests, SettleRead(r) PROVE Filing'
  BY <1>3, EndedFollows, FilingKept DEF SettleRead
<1>4. ASSUME NEW r \in Requests, BeginFile(r) \/ BeginBind(r) PROVE Filing'
  <2>1. PICK new \in Orders \cup Saves :
           /\ Begins(r, new) /\ Rest
           /\ \/ Fresh(new.capture)
              \/ /\ new.kind = "bind" /\ Filed(new.capture)
                 /\ new.row.image = filed[new.capture].image
    BY <1>4, BeginFileDoes, BeginBindDoes
  <2>. QED
    BY <2>1, FilingBegun, ShapesAreJobs
<1>5. ASSUME NEW r \in Requests, LookUpOrder(r) PROVE Filing'
  BY <1>5, LookUpOrderDoes, FilingGone, ShapesAreJobs DEF Filings
<1>6. ASSUME NEW r \in Requests, SaveCapture(r) PROVE Filing'
  BY <1>6, SaveCaptureFiling
<1>7. ASSUME NEW r \in Requests, BeginFileOnNew(r) PROVE Filing'
  BY <1>7, BeginFileOnNewDoes, FilingBegun, ShapesAreJobs
<1>8. ASSUME NEW r \in Requests, SaveNewShelf(r) PROVE Filing'
  <2>1. job[r].kind = "file" /\ job[r] \in Filings
    BY <1>8, SaveNewShelfDoes, ShapeByKind DEF Filings
  <2>2. PICK new \in Saves :
           /\ Goes(r, new) /\ UNCHANGED filed
           /\ new.kind = "file" /\ new.capture = job[r].capture /\ new.row.image = job[r].row.image
    BY <1>8, SaveNewShelfDoes
  <2>. QED
    BY <2>1, <2>2, FilingGone, ShapesAreJobs
<1>9. ASSUME NEW r \in Requests, BeginRowBehind(r) \/ BeginRename(r) PROVE Filing'
  BY <1>9, BeginShelfSaveDoes, FilingBegun, ShapesAreJobs, NotFiling
<1>10. ASSUME NEW r \in Requests, SaveShelf(r) PROVE Filing'
  BY <1>10, EndedFollows, FilingKept DEF SaveShelf
<1>11. ASSUME NEW r \in Requests, BeginDrop(r) PROVE Filing'
  BY <1>11, BeginDropDoes, FilingBegun, ShapesAreJobs, NotFiling
<1>12. ASSUME NEW r \in Requests, LookBeforeDrop(r) PROVE Filing'
  BY <1>12, LookBeforeDropDoes, FilingGone, ShapesAreJobs, NotFiling
<1>13. ASSUME NEW r \in Requests, DropShelf(r) PROVE Filing'
  <2>1. \A c \in Captures : filed'[c] \in {Absent, filed[c]}
    BY <1>13 DEF DropShelf
  <2>. QED
    BY <1>13, <2>1, EndedFollows, FilingKept DEF DropShelf
<1>14. ASSUME NEW r \in Requests, BeginCollect(r) PROVE Filing'
  BY <1>14, BeginCollectDoes, FilingBegun, ShapesAreJobs, NotFiling
<1>15. ASSUME NEW r \in Requests, WalkShelf(r) \/ ListReads(r) \/ PlanCollection(r) \/ CollectNext(r)
       PROVE Filing'
  <2>1. PICK new \in Collections : Goes(r, new) /\ UNCHANGED filed
    BY <1>15, WalkShelfDoes, ListReadsDoes, PlanCollectionDoes, CollectNextDoes
  <2>. QED
    BY <2>1, FilingGone, ShapesAreJobs, NotFiling
<1>16. ASSUME NEW r \in Requests, EndCollection(r) PROVE Filing'
  BY <1>16, EndedFollows, FilingKept DEF EndCollection
<1>17. ASSUME CreateShelf PROVE Filing'
  BY <1>17, OnceDone, FilingKept DEF CreateShelf
<1>18. ASSUME DeleteCapture PROVE Filing'
  <2>1. \A c \in Captures : filed'[c] \in {Absent, filed[c]}
    BY <1>18 DEF DeleteCapture, Types
  <2>. QED
    BY <1>18, <2>1, OnceDone, FilingKept DEF DeleteCapture
<1>19. ASSUME DeleteImage PROVE Filing'
  BY <1>19, OnceDone, FilingKept DEF DeleteImage
<1>20. ASSUME NEW k \in Images, Forget(k) \/ Age(k) PROVE Filing'
  BY <1>20, Still, FilingKept DEF Forget, Age
<1>21. ASSUME Crash PROVE Filing'
  BY <1>21, CrashDoes, FilingKept DEF Crash
<1>. QED
  BY <1>1, <1>2, <1>3, <1>4, <1>5, <1>6, <1>7, <1>8, <1>9, <1>10, <1>11, <1>12, <1>13,
     <1>14, <1>15, <1>16, <1>17, <1>18, <1>19, <1>20, <1>21 DEF Next

-----------------------------------------------------------------------------
(* What is named is stored *)

LEMMA CarriesFollows ==
  ASSUME NEW i, NEW j, Follows(i, j), NEW k, Carries(j, k)
  PROVE  Carries(i, k)
<1>1. j \in Uploads \/ j \in Filings
  BY DEF Carries
<1>2. CASE j \in Uploads
  <2>1. SameUpload(i, j) /\ j \notin Filings
    BY <1>2, ShapesApart DEF Follows, Same, SameFiling, SameShelfSave, SameDrop, SameCollection, Jobs
  <2>. QED
    BY <1>2, <2>1 DEF SameUpload, Carries
<1>3. CASE j \in Filings
  <2>1. SameFiling(i, j) /\ j \notin Uploads
    BY <1>3, ShapesApart DEF Follows, Same, SameUpload, SameShelfSave, SameDrop, SameCollection, Jobs
  <2>. QED
    BY <1>3, <2>1 DEF SameFiling, Carries
<1>. QED
  BY <1>1, <1>2, <1>3

LEMMA CollectionFollows ==
  ASSUME NEW i, NEW j, Follows(i, j), j \in Collections
  PROVE  /\ i \in Collections /\ j.at = i.at
         /\ j.left = i.left /\ j.named = i.named /\ j.doomed = i.doomed
  BY ShapesApart DEF Follows, Same, SameUpload, SameFiling, SameShelfSave, SameDrop,
     SameCollection, Jobs

LEMMA CarriedFollows ==
  ASSUME NEW r \in Requests, OthersFollow(r)
  PROVE  Carried' \subseteq Carried \cup {k \in Images : Carries(job'[r], k)}
<1>. SUFFICES ASSUME NEW k \in Carried', ~Carries(job'[r], k) PROVE k \in Carried
  BY DEF Carried
<1>1. PICK q \in Requests : Carries(job'[q], k) /\ k \in Images
  BY DEF Carried
<1>2. Carries(job[q], k)
  BY <1>1, CarriesFollows DEF OthersFollow
<1>. QED
  BY <1>1, <1>2 DEF Carried

LEMMA CarriedShrinks ==
  ASSUME AllFollow
  PROVE  Carried' \subseteq Carried
<1>. SUFFICES ASSUME NEW k \in Carried' PROVE k \in Carried
  OBVIOUS
<1>1. PICK q \in Requests : Carries(job'[q], k) /\ k \in Images
  BY DEF Carried
<1>2. Carries(job[q], k)
  BY <1>1, CarriesFollows DEF AllFollow
<1>. QED
  BY <1>1, <1>2 DEF Carried

LEMMA SoundFollows ==
  ASSUME NEW j, NEW w, NEW x, NEW f, NEW o, NEW cc, CollectionSound(j, w, x, f, o, cc),
         NEW w2, NEW x2, NEW f2, NEW o2, NEW cc2,
         j.at = "delete" => \A k \in j.doomed \cap w2 : k \in x2 \/ (k \in w /\ (k \in x => k \in x2)),
         j.at # "delete" => /\ o2 \subseteq o
                            /\ \A k \in x : k \in x2 \/ k \notin o2
                            /\ \A c \in Captures : f2[c] # Absent =>
                                  f2[c] = f[c] \/ f2[c].image \in x2 \/ f2[c].image \notin o2
                            /\ \A k \in cc2 : k \in cc \/ k \in x2 \/ k \notin o2
  PROVE  CollectionSound(j, w2, x2, f2, o2, cc2)
<1>1. CASE j.at = "delete"
  BY <1>1 DEF CollectionSound
<1>2. CASE j.at # "delete"
  <2>1. ASSUME j.at \in {"walk", "list"}, NEW c \in Captures, f2[c] # Absent
        PROVE  \/ f2[c].image \in j.named \cup x2 \/ f2[c].image \notin o2
               \/ j.at = "walk" /\ f2[c].shelf \in j.left
    BY <1>2, <2>1 DEF CollectionSound
  <2>2. ASSUME j.at = "list" PROVE cc2 \cap o2 \subseteq j.named \cup x2
    BY <1>2, <2>2 DEF CollectionSound
  <2>. QED
    BY <1>2, <2>1, <2>2 DEF CollectionSound
<1>. QED
  BY <1>1, <1>2

LEMMA SameSound ==
  ASSUME NEW i, NEW j, j.at = i.at, j.left = i.left, j.named = i.named, j.doomed = i.doomed,
         NEW w, NEW x, NEW f, NEW o, NEW cc, CollectionSound(i, w, x, f, o, cc)
  PROVE  CollectionSound(j, w, x, f, o, cc)
  BY DEF CollectionSound

\* What the files and names of a step must do for collections to stay sound:
\* while any plans, and while any deletes.
PlansHold ==
    /\ old' \subseteq old
    /\ \A k \in Excused : k \in Excused' \/ k \notin old'
    /\ \A c \in Captures : filed'[c] # Absent =>
          filed'[c] = filed[c] \/ filed'[c].image \in Excused' \/ filed'[c].image \notin old'
    /\ \A k \in crops' : k \in crops \/ k \in Excused' \/ k \notin old'
DeletesHold(q) ==
    job[q].at = "delete" =>
       \A k \in job[q].doomed \cap Wanted' :
          k \in Excused' \/ (k \in Wanted /\ (k \in Excused => k \in Excused'))

LEMMA CollectionKept ==
  ASSUME Naming, NEW q \in Requests, Follows(job[q], job'[q]), job'[q] \in Collections,
         PlansHold, DeletesHold(q)
  PROVE  CollectionSound(job'[q], Wanted', Excused', filed', old', crops')
<1>1. /\ job[q] \in Collections /\ job'[q].at = job[q].at /\ job'[q].left = job[q].left
      /\ job'[q].named = job[q].named /\ job'[q].doomed = job[q].doomed
  BY CollectionFollows
<1>2. CollectionSound(job[q], Wanted, Excused, filed, old, crops)
  BY <1>1 DEF Naming
<1>3. CollectionSound(job[q], Wanted', Excused', filed', old', crops')
  <2>. DEFINE i == job[q]
  <2>1. i.at = "delete" =>
            \A k \in i.doomed \cap Wanted' : k \in Excused' \/ (k \in Wanted /\ (k \in Excused => k \in Excused'))
    BY DEF DeletesHold
  <2>. QED
    BY <1>2, <2>1, SoundFollows DEF PlansHold
<1>. QED
  BY <1>1, <1>3, SameSound

LEMMA NamingKept ==
  ASSUME Naming,
         (held \cup Carried \subseteq (stored \ old) \cup Excused)', NamedIsStored',
         PlansHold,
         \A q \in Requests : job'[q] \in Collections =>
            \/ Follows(job[q], job'[q]) /\ DeletesHold(q)
            \/ CollectionSound(job'[q], Wanted', Excused', filed', old', crops')
  PROVE  Naming'
<1>1. \A q \in Requests : job'[q] \in Collections =>
         CollectionSound(job'[q], Wanted', Excused', filed', old', crops')
  BY CollectionKept
<1>. QED
  BY <1>1 DEF Naming

\* Nothing is named, stored, forgotten or excused that was not before.
LEMMA NothingNew ==
  ASSUME Naming, UNCHANGED <<stored, old, crops, removed, overtaken>>,
         \A c \in Captures : filed'[c] \in {Absent, filed[c]},
         held' \cup Carried' \subseteq held \cup Carried
  PROVE  /\ (held \cup Carried \subseteq (stored \ old) \cup Excused)' /\ NamedIsStored'
         /\ PlansHold /\ \A q \in Requests : DeletesHold(q)
         /\ Wanted' \subseteq Wanted /\ Excused' = Excused /\ Named' \subseteq Named
<1>1. Excused' = Excused
  BY DEF Excused
<1>2. Named' \subseteq Named
  BY DEF Named, Filed
<1>3. Wanted' \subseteq Wanted
  BY <1>2 DEF Wanted
<1>. QED
  BY <1>1, <1>2, <1>3 DEF Naming, NamedIsStored, Excused, PlansHold, DeletesHold

LEMMA QuietNaming ==
  ASSUME Naming, UNCHANGED <<stored, old, crops, removed, overtaken>>,
         \A c \in Captures : filed'[c] \in {Absent, filed[c]},
         held' \cup Carried' \subseteq held \cup Carried,
         \A q \in Requests : job'[q] \in Collections =>
            \/ Follows(job[q], job'[q])
            \/ CollectionSound(job'[q], Wanted', Excused', filed', old', crops')
  PROVE  Naming'
  BY NothingNew, NamingKept

LEMMA AllFollowNaming ==
  ASSUME Naming, AllFollow, UNCHANGED <<stored, old, crops, removed, overtaken>>, held' \subseteq held,
         \A c \in Captures : filed'[c] \in {Absent, filed[c]}
  PROVE  Naming'
<1>1. held' \cup Carried' \subseteq held \cup Carried
  BY CarriedShrinks
<1>. QED
  BY <1>1, QuietNaming DEF AllFollow

\* Who carries a photograph, by the shape of the request.
LEMMA CarriesByShape ==
  ASSUME NEW k
  PROVE  /\ \A j \in ShelfSaves \cup Drops \cup Collections \cup {Idle} : ~Carries(j, k)
         /\ \A j \in Uploads : Carries(j, k) <=> j.at = "settle" /\ j.image = k
         /\ \A j \in Filings : Carries(j, k) <=> j.kind = "file" /\ j.row.image = k
         /\ \A j : Carries(j, k) => j \in Uploads \cup Filings
<1>1. \A j \in ShelfSaves \cup Drops \cup Collections \cup {Idle} : j \notin Uploads \cup Filings
  BY ShapesApart DEF Jobs
<1>2. Uploads \cap Filings = {}
  BY ShapesApart
<1>. QED
  BY <1>1, <1>2 DEF Carries

LEMMA NotCollecting ==
  ASSUME NEW j \in Uploads \cup Filings \cup ShelfSaves \cup Drops \cup {Idle}
  PROVE  j \notin Collections
  BY ShapesApart DEF Jobs

LEMMA BegunNaming ==
  ASSUME Types, Naming, UNCHANGED <<stored, old, crops, removed, overtaken, filed, held>>,
         NEW r \in Requests, NEW new \in Jobs, Begins(r, new),
         \A k : Carries(new, k) => k \in held \cup Carried,
         new \in Collections => CollectionSound(new, Wanted', Excused', filed', old', crops')
  PROVE  Naming'
<1>1. job'[r] = new /\ OthersFollow(r)
  BY Begun
<1>2. held' \cup Carried' \subseteq held \cup Carried
  BY <1>1, CarriedFollows
<1>3. \A q \in Requests : job'[q] \in Collections =>
         \/ Follows(job[q], job'[q])
         \/ CollectionSound(job'[q], Wanted', Excused', filed', old', crops')
  BY <1>1 DEF OthersFollow
<1>. QED
  BY <1>2, <1>3, QuietNaming

LEMMA GoneNaming ==
  ASSUME Types, Naming, UNCHANGED <<stored, old, crops, removed, overtaken, filed, held>>,
         NEW r \in Requests, NEW new \in Jobs \cup {Idle}, Goes(r, new),
         \A k : Carries(new, k) => k \in held \cup Carried,
         new \in Collections => CollectionSound(new, Wanted', Excused', filed', old', crops')
  PROVE  Naming'
<1>1. job'[r] = new /\ OthersFollow(r)
  BY Gone
<1>2. held' \cup Carried' \subseteq held \cup Carried
  BY <1>1, CarriedFollows
<1>3. \A q \in Requests : job'[q] \in Collections =>
         \/ Follows(job[q], job'[q])
         \/ CollectionSound(job'[q], Wanted', Excused', filed', old', crops')
  BY <1>1 DEF OthersFollow
<1>. QED
  BY <1>2, <1>3, QuietNaming

\* A file that is put, or put again, is young; if a collection had planned to
\* delete it, that is excused.
LEMMA PutNaming ==
  ASSUME Types, Naming, NEW r \in Requests, Put(r)
  PROVE  Naming'
<1>. DEFINE k == job[r].image
<1>1. /\ stored' = stored \cup {k} /\ old' = old \ {k} /\ removed' = removed \ {k}
      /\ overtaken' = IF \E q \in Requests : job[q].at = "delete" /\ k \in job[q].doomed
                      THEN overtaken \cup {k} ELSE overtaken
      /\ UNCHANGED <<filed, crops>>
  BY DEF Put, YoungAfterPut, records
<1>2. PICK new \in Uploads \cup {Idle} :
         /\ Goes(r, new)
         /\ held' \subseteq held \cup {k}
         /\ \A x : Carries(new, x) => x = k
  <2>1. \A x : ~Carries(Idle, x)
    BY CarriesByShape
  <2>2. \A j \in Uploads : \A x : Carries(j, x) => x = j.image
    BY CarriesByShape
  <2>. QED
    BY <2>1, <2>2, PutDoes DEF Ends
<1>3. job'[r] = new /\ OthersFollow(r)
  BY <1>2, Gone, ShapesAreJobs
<1>4. held' \cup Carried' \subseteq held \cup Carried \cup {k}
  BY <1>2, <1>3, CarriedFollows
<1>. HIDE DEF k
<1>5. Named' = Named
  BY <1>1 DEF Named, Filed
<1>6. Wanted' \subseteq Wanted \cup {k}
  BY <1>4, <1>5 DEF Wanted
<1>7. \A x \in Excused : x \in Excused' \/ x = k
  BY <1>1 DEF Excused
<1>8. (held \cup Carried \subseteq (stored \ old) \cup Excused)'
  BY <1>1, <1>4, <1>7 DEF Naming
<1>9. NamedIsStored'
  BY <1>1, <1>5, <1>7 DEF Naming, NamedIsStored, Excused
<1>10. PlansHold
  BY <1>1, <1>7 DEF PlansHold
<1>11. ASSUME NEW q \in Requests PROVE DeletesHold(q)
  BY <1>1, <1>6, <1>7 DEF DeletesHold, Excused
<1>12. \A q \in Requests : job'[q] \in Collections => Follows(job[q], job'[q]) /\ DeletesHold(q)
  BY <1>3, <1>11, NotCollecting DEF OthersFollow
<1>. QED
  BY <1>8, <1>9, <1>10, <1>12, NamingKept

\* A photograph that was carried comes to be named.
LEMMA NamedAfterCarried ==
  ASSUME Naming, AllFollow, NEW k \in Carried \cup {x \in Images : x \in Named},
         UNCHANGED <<stored, old, removed, overtaken>>, held' \subseteq held,
         crops' \subseteq crops \cup {k},
         \A c \in Captures : filed'[c] = filed[c] \/ (filed'[c] # Absent /\ filed'[c].image = k),
         k \notin Carried => \A q \in Requests : job'[q] \notin Collections
  PROVE  Naming'
<1>1. Excused' = Excused
  BY DEF Excused
<1>2. Named' \subseteq Named \cup {k}
  BY DEF Named, Filed
<1>3. held' \cup Carried' \subseteq held \cup Carried
  BY CarriedShrinks
<1>4. Wanted' \subseteq Wanted
  BY <1>2, <1>3 DEF Wanted
<1>5. (held \cup Carried \subseteq (stored \ old) \cup Excused)'
  BY <1>1, <1>3 DEF Naming
<1>6. NamedIsStored'
  BY <1>1, <1>2 DEF Naming, NamedIsStored, Excused
<1>7. CASE k \in Carried
  <2>1. k \notin old \/ k \in Excused
    BY <1>7 DEF Naming
  <2>2. PlansHold
    BY <1>1, <2>1 DEF PlansHold
  <2>3. \A q \in Requests : DeletesHold(q)
    BY <1>1, <1>4 DEF DeletesHold
  <2>. QED
    BY <1>5, <1>6, <2>2, <2>3, NamingKept DEF AllFollow
<1>8. CASE k \notin Carried
  BY <1>5, <1>6, <1>8 DEF Naming
<1>. QED
  BY <1>7, <1>8

LEMMA SettleReadNaming ==
  ASSUME Types, Naming, NEW r \in Requests, SettleRead(r)
  PROVE  Naming'
<1>1. job[r] \in Uploads /\ job[r].at = "settle" /\ AllFollow
  BY ShapeOfJob, EndedFollows DEF SettleRead
<1>2. job[r].image \in Images
  BY <1>1 DEF Uploads
<1>3. job[r].image \in Carried
  BY <1>1, <1>2, CarriesByShape DEF Carried
<1>. QED
  BY <1>1, <1>3, NamedAfterCarried DEF SettleRead, blobs

\* A collection in flight is one of the requests.
LEMMA CollectingIsSeen ==
  ASSUME Types, ~Collecting
  PROVE  \A q \in Requests : job[q] \notin Collections
<1>1. \A j \in Collections : j.kind = "collect" /\ j # Idle
  BY ShapeByKind, ShapesApart DEF Jobs
<1>. QED
  BY <1>1 DEF Collecting, Active

LEMMA SaveCaptureNaming ==
  ASSUME Types, Filing, Naming, NEW r \in Requests, SaveCapture(r)
  PROVE  Naming'
<1>. DEFINE c == job[r].capture
            k == job[r].row.image
<1>1. job[r] \in Saves /\ job[r] \in Filings /\ c \in Captures /\ k \in Images
  BY ShapeOfJob DEF SaveCapture, Saves, Filings, CaptureRow
<1>2. AllFollow /\ UNCHANGED <<stored, old, crops, removed>>
  BY EndedFollows DEF SaveCapture, blobs
<1>3. CASE Refused(c, job[r].row)
  BY <1>2, <1>3, AllFollowNaming DEF SaveCapture
<1>4. CASE ~Refused(c, job[r].row)
  <2>1. /\ filed' = [filed EXCEPT ![c] = job[r].row]
        /\ held' \subseteq held
        /\ overtaken' = IF job[r].kind = "bind" /\ (Collecting \/ ~Filed(c)) THEN overtaken \cup {k} ELSE overtaken
    BY <1>4 DEF SaveCapture
  <2>2. \A e \in Captures : filed'[e] = filed[e] \/ (filed'[e] # Absent /\ filed'[e].image = k)
    <3>1. job[r].row # Absent
      BY <1>1 DEF Saves, CaptureRow, Absent
    <3>. QED
      BY <1>1, <2>1, <3>1 DEF Types
  <2>3. CASE job[r].kind = "file"
    <3>1. k \in Carried
      BY <1>1, <2>3, CarriesByShape DEF Carried
    <3>2. overtaken' = overtaken
      BY <2>1, <2>3
    <3>. QED
      BY <1>2, <2>1, <2>2, <3>1, <3>2, NamedAfterCarried
  <2>4. CASE job[r].kind = "bind" /\ (Collecting \/ ~Filed(c))
    <3>1. Excused' = Excused \cup {k}
      BY <1>2, <2>1, <2>4 DEF Excused
    <3>. HIDE DEF k
    <3>2. Named' \subseteq Named \cup {k}
      BY <1>2, <2>2 DEF Named, Filed
    <3>3. held' \cup Carried' \subseteq held \cup Carried
      BY <1>2, <2>1, CarriedShrinks
    <3>4. Wanted' \subseteq Wanted \cup {k}
      BY <3>2, <3>3 DEF Wanted
    <3>5. (held \cup Carried \subseteq (stored \ old) \cup Excused)'
      BY <1>2, <3>1, <3>3 DEF Naming
    <3>6. NamedIsStored'
      BY <1>2, <3>1, <3>2 DEF Naming, NamedIsStored, Excused
    <3>7. PlansHold
      BY <1>2, <2>2, <3>1 DEF PlansHold
    <3>8. \A q \in Requests : DeletesHold(q)
      BY <3>1, <3>4 DEF DeletesHold
    <3>. QED
      BY <1>2, <3>5, <3>6, <3>7, <3>8, NamingKept DEF AllFollow
  <2>5. CASE job[r].kind = "bind" /\ ~Collecting /\ Filed(c)
    <3>1. k \in Named
      BY <1>1, <2>5 DEF Filing, Filed, Named
    <3>2. \A q \in Requests : job'[q] \notin Collections
      BY <1>2, <2>5, CollectingIsSeen, CollectionFollows DEF AllFollow
    <3>3. overtaken' = overtaken
      BY <2>1, <2>5
    <3>. QED
      BY <1>1, <1>2, <2>1, <2>2, <3>1, <3>2, <3>3, NamedAfterCarried
  <2>6. job[r].kind \in {"file", "bind"}
    BY <1>1, ShapeByKind
  <2>. QED
    BY <2>3, <2>4, <2>5, <2>6
<1>. QED
  BY <1>3, <1>4

LEMMA DeleteImageNaming ==
  ASSUME Types, Naming, DeleteImage
  PROVE  Naming'
<1>1. PICK k \in stored :
         /\ stored' = stored \ {k} /\ old' = old \ {k} /\ removed' = removed \cup {k}
         /\ UNCHANGED <<filed, crops, held, overtaken>>
         /\ AllFollow
  BY OnceDone DEF DeleteImage, records
<1>2. Excused' = Excused \cup {k}
  BY <1>1 DEF Excused
<1>3. Named' = Named
  BY <1>1 DEF Named, Filed
<1>4. held' \cup Carried' \subseteq held \cup Carried
  BY <1>1, CarriedShrinks
<1>5. Wanted' \subseteq Wanted
  BY <1>3, <1>4 DEF Wanted
<1>6. (held \cup Carried \subseteq (stored \ old) \cup Excused)'
  BY <1>1, <1>2, <1>4 DEF Naming
<1>7. NamedIsStored'
  BY <1>1, <1>2, <1>3 DEF Naming, NamedIsStored, Excused
<1>8. PlansHold
  BY <1>1, <1>2 DEF PlansHold
<1>9. \A q \in Requests : DeletesHold(q)
  BY <1>2, <1>5 DEF DeletesHold
<1>. QED
  BY <1>1, <1>6, <1>7, <1>8, <1>9, NamingKept DEF AllFollow

LEMMA AgeNaming ==
  ASSUME Types, Naming, NEW k \in Images, Age(k)
  PROVE  Naming'
<1>1. /\ old' = old \cup {k} /\ ~InHand(k) /\ ~Collecting
      /\ UNCHANGED <<stored, filed, crops, held, job, removed, overtaken>>
  BY DEF Age, records, history
<1>2. \A r \in Requests : ~Carries(job[r], k)
  <2>1. ASSUME NEW r \in Requests, Carries(job[r], k) PROVE FALSE
    <3>1. job[r] \in Uploads \cup Filings /\ job[r] # Idle
      BY <2>1, CarriesByShape
    <3>2. CASE job[r] \in Uploads
      BY <1>1, <2>1, <3>1, <3>2, CarriesByShape, ShapeByKind DEF InHand, Active
    <3>3. CASE job[r] \in Filings
      BY <1>1, <2>1, <3>1, <3>3, CarriesByShape DEF InHand, Active
    <3>. QED
      BY <3>1, <3>2, <3>3
  <2>. QED
    BY <2>1
<1>3. k \notin held \cup Carried
  BY <1>1, <1>2 DEF InHand, Carried
<1>4. Carried' = Carried /\ Excused' = Excused /\ Named' = Named
  BY <1>1 DEF Carried, Excused, Named, Filed
<1>5. \A q \in Requests : job'[q] \notin Collections
  BY <1>1, CollectingIsSeen
<1>6. (held \cup Carried \subseteq (stored \ old) \cup Excused)'
  BY <1>1, <1>3, <1>4 DEF Naming
<1>7. NamedIsStored'
  BY <1>1, <1>4 DEF Naming, NamedIsStored
<1>. QED
  BY <1>5, <1>6, <1>7 DEF Naming

\* A collection begins with every shelf before it, and a photograph stands on one.
LEMMA BeginCollectNaming ==
  ASSUME Types, Shelving, Naming, NEW r \in Requests, BeginCollect(r)
  PROVE  Naming'
<1>1. PICK new \in Collections :
         /\ Begins(r, new)
         /\ new.at = "walk" /\ new.left = ListShelves
         /\ UNCHANGED <<stored, old, crops, removed, overtaken, filed, held>>
  BY BeginCollectDoes DEF blobs, records
<1>2. \A c \in Captures : Filed(c) => filed[c].shelf \in ListShelves
  BY DEF Shelving, Types, CaptureRow, Filed, ListShelves
<1>3. CollectionSound(new, Wanted', Excused', filed', old', crops')
  BY <1>1, <1>2 DEF CollectionSound, Filed
<1>4. new \in Jobs /\ \A k : ~Carries(new, k)
  BY CarriesByShape, ShapesAreJobs
<1>. QED
  BY <1>1, <1>3, <1>4, BegunNaming

LEMMA WalkShelfNaming ==
  ASSUME Types, Naming, NEW r \in Requests, WalkShelf(r)
  PROVE  Naming'
<1>1. job[r] \in Collections /\ job[r].at = "walk"
      /\ UNCHANGED <<stored, old, crops, removed, overtaken, filed, held>>
  BY WalkShelfDoes DEF Rest, blobs, records, history
<1>2. PICK s \in Shelves, new \in Collections :
         /\ Goes(r, new)
         /\ new.at = "walk" /\ new.left = job[r].left \ {s}
         /\ new.named = job[r].named \cup {filed[c].image : c \in On(s)}
  BY WalkShelfDoes
<1>3. CollectionSound(job[r], Wanted, Excused, filed, old, crops)
  BY <1>1 DEF Naming
<1>4. ASSUME NEW c \in Captures, filed[c] # Absent
      PROVE  \/ filed[c].image \in new.named \cup Excused \/ filed[c].image \notin old
             \/ filed[c].shelf \in new.left
  <2>1. \/ filed[c].image \in job[r].named \cup Excused \/ filed[c].image \notin old
        \/ filed[c].shelf \in job[r].left
    BY <1>1, <1>3, <1>4 DEF CollectionSound
  <2>2. CASE filed[c].shelf = s
    BY <1>2, <1>4, <2>2 DEF On, Filed
  <2>3. CASE filed[c].shelf # s
    BY <1>2, <2>1, <2>3
  <2>. QED
    BY <2>2, <2>3
<1>5. Excused' = Excused
  BY <1>1 DEF Excused
<1>6. CollectionSound(new, Wanted', Excused', filed', old', crops')
  BY <1>1, <1>2, <1>4, <1>5 DEF CollectionSound
<1>7. new \in Jobs /\ \A k : ~Carries(new, k)
  BY CarriesByShape, ShapesAreJobs
<1>. QED
  BY <1>1, <1>2, <1>6, <1>7, GoneNaming

LEMMA ListReadsNaming ==
  ASSUME Types, Naming, NEW r \in Requests, ListReads(r)
  PROVE  Naming'
<1>1. job[r] \in Collections /\ job[r].at = "walk" /\ job[r].left = {}
      /\ UNCHANGED <<stored, old, crops, removed, overtaken, filed, held>>
  BY ListReadsDoes DEF Rest, blobs, records, history
<1>2. PICK new \in Collections :
         Goes(r, new) /\ new.at = "list" /\ new.named = job[r].named \cup crops
  BY ListReadsDoes
<1>3. CollectionSound(job[r], Wanted, Excused, filed, old, crops)
  BY <1>1 DEF Naming
<1>4. Excused' = Excused
  BY <1>1 DEF Excused
<1>5. CollectionSound(new, Wanted', Excused', filed', old', crops')
  BY <1>1, <1>2, <1>3, <1>4 DEF CollectionSound
<1>6. new \in Jobs /\ \A k : ~Carries(new, k)
  BY CarriesByShape, ShapesAreJobs
<1>. QED
  BY <1>1, <1>2, <1>5, <1>6, GoneNaming

\* What is old and was not found is not wanted by anybody, or excused.
LEMMA PlanCollectionNaming ==
  ASSUME Types, Naming, NEW r \in Requests, PlanCollection(r)
  PROVE  Naming'
<1>1. job[r] \in Collections /\ job[r].at = "list"
      /\ UNCHANGED <<stored, old, crops, removed, overtaken, filed, held>>
  BY PlanCollectionDoes DEF Rest, blobs, records, history
<1>2. PICK new \in Collections :
         /\ Goes(r, new)
         /\ new.at = "delete" /\ new.doomed = (stored \cap old) \ job[r].named
  BY PlanCollectionDoes
<1>3. CollectionSound(job[r], Wanted, Excused, filed, old, crops)
  BY <1>1 DEF Naming
<1>4. new \in Jobs /\ \A k : ~Carries(new, k)
  BY CarriesByShape, ShapesAreJobs
<1>5. held' \cup Carried' \subseteq held \cup Carried
  BY <1>1, <1>2, <1>4, Gone, CarriedFollows
<1>6. Wanted' \subseteq Wanted /\ Excused' = Excused
  BY <1>1, <1>5 DEF Wanted, Named, Filed, Excused
<1>7. ASSUME NEW k \in new.doomed \cap Wanted PROVE k \in Excused
  <2>1. k \in old /\ k \notin job[r].named
    BY <1>2, <1>7
  <2>2. CASE k \in held \cup Carried
    BY <2>1, <2>2 DEF Naming
  <2>3. CASE k \in crops
    BY <1>1, <1>3, <2>1, <2>3 DEF CollectionSound
  <2>4. ASSUME NEW c \in Captures, Filed(c), k = filed[c].image PROVE k \in Excused
    BY <1>1, <1>3, <2>1, <2>4 DEF CollectionSound, Filed
  <2>. QED
    BY <1>7, <2>2, <2>3, <2>4 DEF Wanted, Named
<1>8. CollectionSound(new, Wanted', Excused', filed', old', crops')
  BY <1>2, <1>6, <1>7 DEF CollectionSound
<1>. QED
  BY <1>1, <1>2, <1>4, <1>8, GoneNaming

LEMMA CollectNextNaming ==
  ASSUME Types, Naming, NEW r \in Requests, CollectNext(r)
  PROVE  Naming'
<1>1. job[r] \in Collections /\ job[r].at = "delete"
  BY CollectNextDoes
<1>2. PICK k \in job[r].doomed, new \in Collections :
         /\ stored' = stored \ {k} /\ old' = old \ {k}
         /\ UNCHANGED <<filed, crops, held, removed, overtaken>>
         /\ Goes(r, new) /\ new.at = "delete" /\ new.doomed = job[r].doomed \ {k}
  BY CollectNextDoes DEF records, history
<1>3. CollectionSound(job[r], Wanted, Excused, filed, old, crops)
  BY <1>1 DEF Naming
<1>4. k \in Wanted => k \in Excused
  BY <1>1, <1>3 DEF CollectionSound
<1>5. job'[r] = new /\ OthersFollow(r) /\ \A x : ~Carries(new, x)
  BY <1>2, Gone, ShapesAreJobs, CarriesByShape
<1>6. held' \cup Carried' \subseteq held \cup Carried
  BY <1>2, <1>5, CarriedFollows
<1>7. Excused' = Excused /\ Named' = Named
  BY <1>2 DEF Excused, Named, Filed
<1>8. Wanted' \subseteq Wanted
  BY <1>6, <1>7 DEF Wanted
<1>9. (held \cup Carried \subseteq (stored \ old) \cup Excused)'
  BY <1>2, <1>4, <1>6, <1>7 DEF Naming, Wanted
<1>10. NamedIsStored'
  BY <1>2, <1>4, <1>7 DEF Naming, NamedIsStored, Excused, Wanted
<1>11. PlansHold
  BY <1>2, <1>7 DEF PlansHold
<1>12. \A q \in Requests : DeletesHold(q)
  BY <1>7, <1>8 DEF DeletesHold
<1>13. CollectionSound(new, Wanted', Excused', filed', old', crops')
  BY <1>1, <1>2, <1>3, <1>7, <1>8 DEF CollectionSound
<1>. QED
  BY <1>5, <1>9, <1>10, <1>11, <1>12, <1>13, NamingKept DEF OthersFollow

LEMMA NamingStep ==
  ASSUME Types, Shelving, Filing, Naming, Next
  PROVE  Naming'
<1>. USE DEF Rest, blobs, records, history
<1>1. ASSUME NEW r \in Requests, BeginUpload(r) PROVE Naming'
  <2>1. PICK new \in Uploads : Begins(r, new) /\ new.at = "put" /\ Rest
    BY <1>1, BeginUploadDoes
  <2>2. new \in Jobs /\ new \notin Collections /\ \A k : ~Carries(new, k)
    BY <2>1, CarriesByShape, ShapesAreJobs, NotCollecting
  <2>. QED
    BY <2>1, <2>2, BegunNaming
<1>2. ASSUME NEW r \in Requests, Put(r) PROVE Naming'
  BY <1>2, PutNaming
<1>3. ASSUME NEW r \in Requests, SettleRead(r) PROVE Naming'
  BY <1>3, SettleReadNaming
<1>4. ASSUME NEW r \in Requests, BeginFile(r) \/ BeginBind(r) PROVE Naming'
  <2>1. PICK new \in Orders \cup Saves :
           /\ Begins(r, new) /\ Rest
           /\ new.kind = "bind" \/ new.row.image \in held
    BY <1>4, BeginFileDoes, BeginBindDoes
  <2>2. new \in Filings /\ new \in Jobs
    BY ShapesAreJobs DEF Filings
  <2>3. new \notin Collections /\ \A k : Carries(new, k) => k \in held
    BY <2>1, <2>2, CarriesByShape, NotCollecting
  <2>. QED
    BY <2>1, <2>2, <2>3, BegunNaming
<1>5. ASSUME NEW r \in Requests, LookUpOrder(r) \/ SaveNewShelf(r) PROVE Naming'
  <2>1. job[r] \in Filings
    BY <1>5, LookUpOrderDoes, SaveNewShelfDoes DEF Filings
  <2>2. job[r] \in NewFilings => job[r].kind = "file"
    BY ShapeByKind
  <2>3. PICK new \in Saves :
           /\ Goes(r, new) /\ UNCHANGED <<stored, old, crops, removed, overtaken, filed, held>>
           /\ new.kind = job[r].kind /\ new.row.image = job[r].row.image
    <3>1. CASE LookUpOrder(r)
      BY <3>1, LookUpOrderDoes
    <3>2. CASE SaveNewShelf(r)
      BY <2>2, <3>2, SaveNewShelfDoes
    <3>. QED
      BY <1>5, <3>1, <3>2
  <2>4. new \in Filings /\ new \in Jobs /\ new \notin Collections
    BY ShapesAreJobs, NotCollecting DEF Filings
  <2>5. \A j \in Filings : j.row.image \in Images
    BY DEF Filings, NewFilings, Orders, Saves, CaptureRow
  <2>6. \A k : Carries(new, k) => k \in Carried
    BY <2>1, <2>3, <2>4, <2>5, CarriesByShape DEF Carried
  <2>. QED
    BY <2>3, <2>4, <2>6, GoneNaming
<1>6. ASSUME NEW r \in Requests, SaveCapture(r) PROVE Naming'
  BY <1>6, SaveCaptureNaming
<1>7. ASSUME NEW r \in Requests, BeginFileOnNew(r) PROVE Naming'
  <2>1. PICK new \in NewFilings : Begins(r, new) /\ Rest /\ new.row.image \in held
    BY <1>7, BeginFileOnNewDoes
  <2>2. new \in Filings /\ new \in Jobs
    BY ShapesAreJobs DEF Filings
  <2>3. new \notin Collections /\ \A k : Carries(new, k) => k \in held
    BY <2>1, <2>2, CarriesByShape, NotCollecting
  <2>. QED
    BY <2>1, <2>2, <2>3, BegunNaming
<1>9. ASSUME NEW r \in Requests, BeginRowBehind(r) \/ BeginRename(r) \/ BeginDrop(r) PROVE Naming'
  <2>1. PICK new \in ShelfSaves \cup Drops : Begins(r, new) /\ Rest
    BY <1>9, BeginShelfSaveDoes, BeginDropDoes
  <2>2. new \in Jobs /\ new \notin Collections /\ \A k : ~Carries(new, k)
    BY CarriesByShape, ShapesAreJobs, NotCollecting
  <2>. QED
    BY <2>1, <2>2, BegunNaming
<1>10. ASSUME NEW r \in Requests, SaveShelf(r) PROVE Naming'
  BY <1>10, EndedFollows, AllFollowNaming DEF SaveShelf
<1>12. ASSUME NEW r \in Requests, LookBeforeDrop(r) PROVE Naming'
  <2>1. PICK new \in Drops \cup {Idle} : Goes(r, new) /\ Rest
    BY <1>12, LookBeforeDropDoes
  <2>2. new \in Jobs \cup {Idle} /\ new \notin Collections /\ \A k : ~Carries(new, k)
    BY CarriesByShape, ShapesAreJobs, NotCollecting
  <2>. QED
    BY <2>1, <2>2, GoneNaming
<1>13. ASSUME NEW r \in Requests, DropShelf(r) PROVE Naming'
  <2>1. \A c \in Captures : filed'[c] \in {Absent, filed[c]}
    BY <1>13 DEF DropShelf
  <2>. QED
    BY <1>13, <2>1, EndedFollows, AllFollowNaming DEF DropShelf
<1>14. ASSUME NEW r \in Requests, BeginCollect(r) PROVE Naming'
  BY <1>14, BeginCollectNaming
<1>15. ASSUME NEW r \in Requests, WalkShelf(r) \/ ListReads(r) \/ PlanCollection(r) \/ CollectNext(r)
       PROVE Naming'
  BY <1>15, WalkShelfNaming, ListReadsNaming, PlanCollectionNaming, CollectNextNaming
<1>16. ASSUME NEW r \in Requests, EndCollection(r) PROVE Naming'
  BY <1>16, EndedFollows, AllFollowNaming DEF EndCollection
<1>17. ASSUME CreateShelf PROVE Naming'
  BY <1>17, OnceDone, AllFollowNaming DEF CreateShelf
<1>18. ASSUME DeleteCapture PROVE Naming'
  <2>1. \A c \in Captures : filed'[c] \in {Absent, filed[c]}
    BY <1>18 DEF DeleteCapture, Types
  <2>. QED
    BY <1>18, <2>1, OnceDone, AllFollowNaming DEF DeleteCapture
<1>19. ASSUME DeleteImage PROVE Naming'
  BY <1>19, DeleteImageNaming
<1>20. ASSUME NEW k \in Images, Forget(k) \/ Age(k) PROVE Naming'
  <2>1. CASE Forget(k)
    BY <2>1, Still, AllFollowNaming DEF Forget
  <2>2. CASE Age(k)
    BY <2>2, AgeNaming
  <2>. QED
    BY <1>20, <2>1, <2>2
<1>21. ASSUME Crash PROVE Naming'
  BY <1>21, CrashDoes, AllFollowNaming DEF Crash
<1>. QED
  BY <1>1, <1>2, <1>3, <1>4, <1>5, <1>6, <1>7, <1>9, <1>10, <1>12, <1>13,
     <1>14, <1>15, <1>16, <1>17, <1>18, <1>19, <1>20, <1>21 DEF Next

-----------------------------------------------------------------------------
(* What ought to be deleted is deleted *)

DutyOf(j, ought, ss) ==
    /\ j.at \in {"walk", "list"} => j.named \cap ought = {}
    /\ j.at = "delete" => ought \cap ss \subseteq j.doomed

LEMMA DutyKept ==
  ASSUME Duty, (stale \cap Named = {})', (stale \cap stored \subseteq old)',
         stale' \subseteq stale, stale' \cap stored' \subseteq stored,
         \A q \in Requests : job'[q] \in Collections =>
            Follows(job[q], job'[q]) \/ DutyOf(job'[q], stale', stored')
  PROVE  Duty'
<1>1. ASSUME NEW q \in Requests, job'[q] \in Collections PROVE DutyOf(job'[q], stale', stored')
  <2>1. CASE Follows(job[q], job'[q])
    <3>1. /\ job[q] \in Collections /\ job'[q].at = job[q].at
          /\ job'[q].named = job[q].named /\ job'[q].doomed = job[q].doomed
      BY <1>1, <2>1, CollectionFollows
    <3>. QED
      BY <3>1 DEF Duty, DutyOf
  <2>. QED
    BY <1>1, <2>1
<1>. QED
  BY <1>1 DEF Duty, DutyOf

LEMMA QuietDuty ==
  ASSUME Duty, UNCHANGED <<stored, old, crops, stale>>,
         \A c \in Captures : filed'[c] \in {Absent, filed[c]},
         \A q \in Requests : job'[q] \in Collections =>
            Follows(job[q], job'[q]) \/ DutyOf(job'[q], stale, stored)
  PROVE  Duty'
<1>1. Named' \subseteq Named
  BY DEF Named, Filed
<1>2. (stale \cap Named = {})' /\ (stale \cap stored \subseteq old)'
  BY <1>1 DEF Duty
<1>. QED
  BY <1>2, DutyKept

LEMMA BegunDuty ==
  ASSUME Types, Duty, UNCHANGED <<stored, old, crops, stale, filed>>,
         NEW r \in Requests, NEW new \in Jobs, Begins(r, new), new \notin Collections
  PROVE  Duty'
  BY Begun, QuietDuty DEF OthersFollow

LEMMA GoneDuty ==
  ASSUME Types, Duty, UNCHANGED <<stored, old, crops, stale, filed>>,
         NEW r \in Requests, NEW new \in Jobs \cup {Idle}, Goes(r, new),
         new \in Collections => DutyOf(new, stale, stored)
  PROVE  Duty'
  BY Gone, QuietDuty DEF OthersFollow

LEMMA AllFollowDuty ==
  ASSUME Duty, AllFollow, UNCHANGED <<stored, old, crops, stale>>,
         \A c \in Captures : filed'[c] \in {Absent, filed[c]}
  PROVE  Duty'
  BY QuietDuty DEF AllFollow

LEMMA DutyStep ==
  ASSUME Types, Shelving, Duty, Next
  PROVE  Duty'
<1>. USE DEF Rest, blobs, records, history
<1>1. ASSUME NEW r \in Requests, BeginUpload(r) PROVE Duty'
  BY <1>1, BeginUploadDoes, BegunDuty, ShapesAreJobs, NotCollecting
<1>2. ASSUME NEW r \in Requests, Put(r) PROVE Duty'
  <2>. DEFINE k == job[r].image
  <2>1. /\ stored' = stored \cup {k} /\ old' = old \ {k} /\ stale' = stale \ {k}
        /\ UNCHANGED <<filed, crops>>
    BY <1>2 DEF Put, YoungAfterPut
  <2>2. PICK new \in Uploads \cup {Idle} : Goes(r, new)
    BY <1>2, PutDoes DEF Ends
  <2>3. \A q \in Requests : job'[q] \in Collections => Follows(job[q], job'[q])
    BY <2>2, Gone, ShapesAreJobs, NotCollecting DEF OthersFollow
  <2>4. Named' = Named
    BY <2>1 DEF Named, Filed
  <2>5. (stale \cap Named = {})' /\ (stale \cap stored \subseteq old)'
    BY <2>1, <2>4 DEF Duty
  <2>. QED
    BY <2>1, <2>3, <2>5, DutyKept
<1>3. ASSUME NEW r \in Requests, SettleRead(r) PROVE Duty'
  <2>1. stale' = stale \ crops' /\ UNCHANGED <<stored, old, filed>> /\ AllFollow
    BY <1>3, EndedFollows DEF SettleRead
  <2>2. (stale \cap Named = {})' /\ (stale \cap stored \subseteq old)'
    BY <2>1 DEF Duty, Named, Filed
  <2>. QED
    BY <2>1, <2>2, DutyKept DEF AllFollow
<1>4. ASSUME NEW r \in Requests, BeginFile(r) \/ BeginBind(r) \/ BeginFileOnNew(r) PROVE Duty'
  <2>1. PICK new \in NewFilings \cup Orders \cup Saves : Begins(r, new) /\ Rest
    BY <1>4, BeginFileDoes, BeginBindDoes, BeginFileOnNewDoes
  <2>. QED
    BY <2>1, BegunDuty, ShapesAreJobs, NotCollecting DEF Filings
<1>5. ASSUME NEW r \in Requests, LookUpOrder(r) \/ SaveNewShelf(r) PROVE Duty'
  <2>1. PICK new \in Saves : Goes(r, new) /\ UNCHANGED <<stored, old, crops, stale, filed>>
    BY <1>5, LookUpOrderDoes, SaveNewShelfDoes
  <2>. QED
    BY <2>1, GoneDuty, ShapesAreJobs, NotCollecting DEF Filings
<1>6. ASSUME NEW r \in Requests, SaveCapture(r) PROVE Duty'
  <2>. DEFINE c == job[r].capture
              k == job[r].row.image
  <2>1. AllFollow /\ UNCHANGED <<stored, old, crops>>
    BY <1>6, EndedFollows DEF SaveCapture
  <2>2. CASE Refused(c, job[r].row)
    BY <1>6, <2>1, <2>2, AllFollowDuty DEF SaveCapture
  <2>3. CASE ~Refused(c, job[r].row)
    <3>1. filed' = [filed EXCEPT ![c] = job[r].row] /\ stale' = stale \ {k}
      BY <1>6, <2>3 DEF SaveCapture
    <3>2. \A e \in Captures : filed'[e] = filed[e] \/ filed'[e].image = k
      BY <3>1 DEF Types
    <3>. HIDE DEF k
    <3>3. Named' \subseteq Named \cup {k}
      BY <2>1, <3>2 DEF Named, Filed
    <3>4. (stale \cap Named = {})' /\ (stale \cap stored \subseteq old)'
      BY <2>1, <3>1, <3>3 DEF Duty
    <3>. QED
      BY <2>1, <3>1, <3>4, DutyKept DEF AllFollow
  <2>. QED
    BY <2>2, <2>3
<1>9. ASSUME NEW r \in Requests, BeginRowBehind(r) \/ BeginRename(r) \/ BeginDrop(r) PROVE Duty'
  <2>1. PICK new \in ShelfSaves \cup Drops : Begins(r, new) /\ Rest
    BY <1>9, BeginShelfSaveDoes, BeginDropDoes
  <2>. QED
    BY <2>1, BegunDuty, ShapesAreJobs, NotCollecting
<1>10. ASSUME NEW r \in Requests, SaveShelf(r) PROVE Duty'
  BY <1>10, EndedFollows, AllFollowDuty DEF SaveShelf
<1>12. ASSUME NEW r \in Requests, LookBeforeDrop(r) PROVE Duty'
  BY <1>12, LookBeforeDropDoes, GoneDuty, ShapesAreJobs, NotCollecting
<1>13. ASSUME NEW r \in Requests, DropShelf(r) PROVE Duty'
  <2>1. \A c \in Captures : filed'[c] \in {Absent, filed[c]}
    BY <1>13 DEF DropShelf
  <2>. QED
    BY <1>13, <2>1, EndedFollows, AllFollowDuty DEF DropShelf
<1>14. ASSUME NEW r \in Requests, BeginCollect(r) PROVE Duty'
  <2>1. PICK new \in Collections :
           /\ Begins(r, new) /\ ~Collecting
           /\ new.at = "walk" /\ new.named = {}
           /\ stale' = (stored \cap old) \ Named
           /\ UNCHANGED <<stored, old, crops, filed>>
    BY <1>14, BeginCollectDoes
  <2>2. job'[r] = new /\ \A q \in Requests \ {r} : job'[q] \notin Collections
    BY <2>1, Begun, ShapesAreJobs, CollectingIsSeen, CollectionFollows DEF OthersFollow
  <2>3. Named' = Named
    BY <2>1 DEF Named, Filed
  <2>. QED
    BY <2>1, <2>2, <2>3 DEF Duty
<1>15. ASSUME NEW r \in Requests, WalkShelf(r) PROVE Duty'
  <2>1. PICK s \in Shelves, new \in Collections :
           /\ Goes(r, new) /\ Rest /\ job[r] \in Collections /\ job[r].at = "walk"
           /\ new.at = "walk" /\ new.named = job[r].named \cup {filed[c].image : c \in On(s)}
    BY <1>15, WalkShelfDoes
  <2>2. {filed[c].image : c \in On(s)} \subseteq Named
    BY DEF On, Named
  <2>3. DutyOf(new, stale, stored)
    BY <2>1, <2>2 DEF Duty, DutyOf
  <2>. QED
    BY <2>1, <2>3, GoneDuty, ShapesAreJobs
<1>16. ASSUME NEW r \in Requests, ListReads(r) PROVE Duty'
  <2>1. PICK new \in Collections :
           /\ Goes(r, new) /\ Rest /\ job[r] \in Collections /\ job[r].at = "walk"
           /\ new.at = "list" /\ new.named = job[r].named \cup crops
    BY <1>16, ListReadsDoes
  <2>2. DutyOf(new, stale, stored)
    BY <2>1 DEF Duty, DutyOf, Named
  <2>. QED
    BY <2>1, <2>2, GoneDuty, ShapesAreJobs
<1>17. ASSUME NEW r \in Requests, PlanCollection(r) PROVE Duty'
  <2>1. PICK new \in Collections :
           /\ Goes(r, new) /\ Rest /\ job[r] \in Collections /\ job[r].at = "list"
           /\ new.at = "delete" /\ new.doomed = (stored \cap old) \ job[r].named
    BY <1>17, PlanCollectionDoes
  <2>2. DutyOf(new, stale, stored)
    BY <2>1 DEF Duty, DutyOf
  <2>. QED
    BY <2>1, <2>2, GoneDuty, ShapesAreJobs
<1>18. ASSUME NEW r \in Requests, CollectNext(r) PROVE Duty'
  <2>1. PICK k \in job[r].doomed, new \in Collections :
           /\ stored' = stored \ {k} /\ old' = old \ {k} /\ UNCHANGED <<crops, filed, stale>>
           /\ Goes(r, new) /\ job[r] \in Collections /\ job[r].at = "delete"
           /\ new.at = "delete" /\ new.doomed = job[r].doomed \ {k}
    BY <1>18, CollectNextDoes
  <2>2. DutyOf(new, stale', stored')
    BY <2>1 DEF Duty, DutyOf
  <2>3. \A q \in Requests : job'[q] \in Collections =>
           Follows(job[q], job'[q]) \/ DutyOf(job'[q], stale', stored')
    BY <2>1, <2>2, Gone, ShapesAreJobs DEF OthersFollow
  <2>4. (stale \cap Named = {})' /\ (stale \cap stored \subseteq old)'
    BY <2>1 DEF Duty, Named, Filed
  <2>. QED
    BY <2>1, <2>3, <2>4, DutyKept
<1>19. ASSUME NEW r \in Requests, EndCollection(r) PROVE Duty'
  BY <1>19, EndedFollows, DutyKept DEF EndCollection, AllFollow
<1>20. ASSUME CreateShelf PROVE Duty'
  BY <1>20, OnceDone, AllFollowDuty DEF CreateShelf
<1>21. ASSUME DeleteCapture PROVE Duty'
  <2>1. \A c \in Captures : filed'[c] \in {Absent, filed[c]}
    BY <1>21 DEF DeleteCapture, Types
  <2>. QED
    BY <1>21, <2>1, OnceDone, AllFollowDuty DEF DeleteCapture
<1>22. ASSUME DeleteImage PROVE Duty'
  <2>1. PICK k \in stored :
           stored' = stored \ {k} /\ old' = old \ {k} /\ UNCHANGED <<filed, crops, stale>> /\ AllFollow
    BY <1>22, OnceDone DEF DeleteImage
  <2>2. (stale \cap Named = {})' /\ (stale \cap stored \subseteq old)'
    BY <2>1 DEF Duty, Named, Filed
  <2>. QED
    BY <2>1, <2>2, DutyKept DEF AllFollow
<1>23. ASSUME NEW k \in Images, Forget(k) \/ Age(k) PROVE Duty'
  <2>1. UNCHANGED <<stored, filed, crops, stale>> /\ old \subseteq old' /\ AllFollow
    BY <1>23, Still DEF Forget, Age
  <2>2. (stale \cap Named = {})' /\ (stale \cap stored \subseteq old)'
    BY <2>1 DEF Duty, Named, Filed
  <2>. QED
    BY <2>1, <2>2, DutyKept DEF AllFollow
<1>24. ASSUME Crash PROVE Duty'
  <2>1. UNCHANGED <<stored, old, filed, crops>> /\ stale' \subseteq stale /\ AllFollow
    BY <1>24, CrashDoes DEF Crash
  <2>2. (stale \cap Named = {})' /\ (stale \cap stored \subseteq old)'
    BY <2>1 DEF Duty, Named, Filed
  <2>. QED
    BY <2>1, <2>2, DutyKept DEF AllFollow
<1>. QED
  BY <1>1, <1>2, <1>3, <1>4, <1>5, <1>6, <1>9, <1>10, <1>12, <1>13, <1>14, <1>15, <1>16,
     <1>17, <1>18, <1>19, <1>20, <1>21, <1>22, <1>23, <1>24 DEF Next

-----------------------------------------------------------------------------
(* Filing with nothing else going on *)

LoneFiling(r) ==
    /\ job[r].at = "save" /\ job[r].alone
    /\ job[r].kind = "bind" \/ job[r].place = Nowhere
    /\ job[r].asks = job[r].row.shelf
    => ~Refused(job[r].capture, job[r].row)
LoneOf(r) ==
    job[r] # Idle /\ job[r].alone =>
        /\ \A q \in Requests \ {r} : job[q] = Idle
        /\ job[r].at = "order" => There(job[r].row.shelf)
LoneIs(r) == LoneOf(r) /\ LoneFiling(r)

LEMMA LoneParts == Lone /\ LoneFilingSucceeds <=> \A r \in Requests : LoneIs(r)
  BY DEF Lone, LoneFilingSucceeds, LoneIs, LoneOf, LoneFiling

LEMMA LonePartsNext == (\A r \in Requests : LoneIs(r))' => (Lone /\ LoneFilingSucceeds)'
  BY DEF Lone, LoneFilingSucceeds, LoneIs, LoneOf, LoneFiling

LEMMA NotAlone ==
  ASSUME \A q \in Requests : job'[q] # Idle => ~job'[q].alone
  PROVE  (Lone /\ LoneFilingSucceeds)'
<1>1. \A q \in Requests : job'[q].at = "save" => job'[q] # Idle
  BY DEF Idle
<1>. QED
  BY <1>1 DEF Lone, LoneFilingSucceeds

LEMMA OnceLone ==
  ASSUME Types, NEW kind, Once(kind)
  PROVE  (Lone /\ LoneFilingSucceeds)'
  BY OnceDone, NotAlone

\* Nobody moved, or somebody died.
LEMMA QuietLone ==
  ASSUME Types, Lone, LoneFilingSucceeds, AllFollow, UNCHANGED <<rows, filed>>
  PROVE  (Lone /\ LoneFilingSucceeds)'
<1>1. ASSUME NEW r \in Requests, job'[r] # Idle, job'[r].alone
      PROVE  LoneIs(r)'
  <2>1. Same(job[r], job'[r]) /\ job[r].alone
    BY <1>1 DEF AllFollow, Follows
  <2>2. job[r] # Idle
    BY <2>1, ShapesApart DEF Same, SameUpload, SameFiling, SameShelfSave, SameDrop,
       SameCollection, Jobs
  <2>3. \A q \in Requests \ {r} : job[q] = Idle
    BY <2>1, <2>2 DEF Lone
  <2>4. \A q \in Requests \ {r} : job'[q] = Idle
    BY <2>3, ShapesApart DEF AllFollow, Follows, Same, SameUpload, SameFiling, SameShelfSave,
       SameDrop, SameCollection, Jobs
  <2>5. ASSUME job'[r].at \in {"order", "save"}
        PROVE  /\ job[r].at = job'[r].at /\ job[r].kind = job'[r].kind
               /\ job[r].capture = job'[r].capture /\ job[r].asks = job'[r].asks
               /\ job[r].place = job'[r].place /\ job[r].row = job'[r].row
    BY <2>1, <2>5, ShapeByKind DEF Same, SameUpload, SameFiling, SameShelfSave, SameDrop, SameCollection
  <2>6. job'[r].at = "order" => rows'[job'[r].row.shelf] > 0
    BY <2>1, <2>2, <2>5 DEF Lone, There
  <2>7. LoneFiling(r)'
    BY <1>1, <2>1, <2>5 DEF LoneFilingSucceeds, LoneFiling, Refused, There, Filed, Place
  <2>. QED
    BY <2>4, <2>6, <2>7 DEF LoneIs, LoneOf, There
<1>2. ASSUME NEW r \in Requests, job'[r] = Idle \/ ~job'[r].alone
      PROVE  LoneIs(r)'
  BY <1>2 DEF LoneIs, LoneOf, LoneFiling, Idle
<1>. QED
  BY <1>1, <1>2, LonePartsNext

LEMMA BegunLone ==
  ASSUME Types, NEW r \in Requests, NEW new \in Jobs, Begins(r, new), UNCHANGED <<rows, filed>>,
         new.alone => Alone,
         new.at = "order" => There(new.row.shelf),
         new.at = "save" /\ (new.kind = "bind" \/ new.place = Nowhere) => ~Refused(new.capture, new.row)
  PROVE  (Lone /\ LoneFilingSucceeds)'
<1>1. job'[r] = new /\ OthersFollow(r) /\ \A q \in Requests \ {r} : job'[q] # Idle => ~job'[q].alone
  BY Begun
<1>2. ASSUME new.alone PROVE \A q \in Requests \ {r} : job'[q] = Idle
  <2>1. \A q \in Requests \ {r} : job[q] = Idle
    BY <1>2 DEF Alone, Active
  <2>. QED
    BY <1>1, <2>1, ShapesApart DEF OthersFollow, Follows, Same, SameUpload, SameFiling, SameShelfSave,
       SameDrop, SameCollection, Jobs
<1>3. LoneIs(r)'
  BY <1>1, <1>2 DEF LoneIs, LoneOf, LoneFiling, Refused, There, Filed, Place
<1>4. ASSUME NEW q \in Requests \ {r} PROVE LoneIs(q)'
  BY <1>1, <1>4 DEF LoneIs, LoneOf, LoneFiling, Idle
<1>. QED
  BY <1>3, <1>4, LonePartsNext

\* Whoever goes on while another is alone is that one.
LEMMA GoneLone ==
  ASSUME Types, Lone, NEW r \in Requests, job[r] # Idle,
         NEW new \in Jobs \cup {Idle}, Goes(r, new),
         new # Idle => new.alone = job[r].alone,
         new.at # "order",
         new.at = "save" /\ new.alone /\ (new.kind = "bind" \/ new.place = Nowhere)
           /\ new.asks = new.row.shelf => ~Refused(new.capture, new.row)',
         new.at = "save" => new # Idle
  PROVE  (Lone /\ LoneFilingSucceeds)'
<1>1. job'[r] = new /\ \A q \in Requests \ {r} : job'[q] = job[q]
  BY Gone
<1>2. LoneIs(r)'
  BY <1>1 DEF Lone, LoneIs, LoneOf, LoneFiling
<1>3. ASSUME NEW q \in Requests \ {r} PROVE LoneIs(q)'
  <2>1. job'[q] = Idle \/ ~job'[q].alone
    BY <1>1, <1>3 DEF Lone
  <2>. QED
    BY <2>1 DEF LoneIs, LoneOf, LoneFiling, Idle
<1>. QED
  BY <1>2, <1>3, LonePartsNext

LEMMA EndedLone ==
  ASSUME Types, Lone, NEW r \in Requests, job[r] # Idle, Ends(r)
  PROVE  (Lone /\ LoneFilingSucceeds)'
  BY GoneLone DEF Ends, Idle

\* One that moves a photograph within its row, or finds the end of a row, alone,
\* finds the place free.
LEMMA BeginBindLone ==
  ASSUME Types, Shelving, NEW r \in Requests, BeginBind(r)
  PROVE  (Lone /\ LoneFilingSucceeds)'
<1>1. PICK new \in Orders \cup Saves :
         /\ Begins(r, new) /\ Rest /\ new.alone = Alone
         /\ There(new.row.shelf)
         /\ new \in Saves => PlaceOf(new.row) = Place(new.capture)
         /\ Filed(new.capture)
  BY BeginBindDoes
<1>2. new.at = "save" => new \in Saves
  BY ShapeByKind
<1>3. new.capture \in Captures
  BY DEF Orders, Saves
<1>4. ASSUME new.at = "save" PROVE ~Refused(new.capture, new.row)
  BY <1>1, <1>2, <1>3, <1>4 DEF Refused, Shelving
<1>. QED
  BY <1>1, <1>4, BegunLone, ShapesAreJobs DEF Rest, records

LEMMA BeginFileLone ==
  ASSUME Types, Shelving, NEW r \in Requests, BeginFile(r)
  PROVE  (Lone /\ LoneFilingSucceeds)'
<1>1. PICK new \in Orders \cup Saves :
         /\ Begins(r, new) /\ Rest /\ new.alone = Alone
         /\ There(new.row.shelf) /\ new.kind = "file"
         /\ new \in Saves => new.place # Nowhere
  BY BeginFileDoes
<1>2. new.at = "save" => new \in Saves
  BY ShapeByKind
<1>. QED
  BY <1>1, <1>2, BegunLone, ShapesAreJobs DEF Rest, records

LEMMA LookUpOrderLone ==
  ASSUME Types, Lone, NEW r \in Requests, LookUpOrder(r)
  PROVE  (Lone /\ LoneFilingSucceeds)'
<1>1. job[r] \in Orders /\ UNCHANGED <<rows, filed>> /\ job[r].at = "order"
  BY LookUpOrderDoes DEF LookUpOrder, Rest, records
<1>2. PICK new \in Saves :
         /\ Goes(r, new) /\ new.alone = job[r].alone /\ new.capture = job[r].capture
         /\ new.row.shelf = job[r].row.shelf /\ new.row.row = job[r].row.row
         /\ new.row.order = NextOrder(job[r].asks, job[r].row.row)
         /\ new.asks = job[r].asks
  BY LookUpOrderDoes
<1>3. job[r] # Idle /\ new # Idle /\ new.at = "save" /\ new \in Jobs
  BY <1>1, ShapeByKind, ShapesAreJobs, ShapesApart
<1>4. ASSUME new.alone, new.asks = new.row.shelf PROVE ~Refused(new.capture, new.row)'
  <2>. DEFINE s == new.row.shelf
              d == new.row.row
  <2>1. There(s)
    BY <1>1, <1>2, <1>3, <1>4 DEF Lone
  <2>2. new.row.order = NextOrder(s, d)
    BY <1>2, <1>4
  <2>3. ASSUME NEW e \in Captures, Filed(e), Place(e) = PlaceOf(new.row) PROVE FALSE
    <3>1. e \in On(s) /\ filed[e].row = d /\ filed[e].order = NextOrder(s, d)
      BY <2>2, <2>3 DEF Place, PlaceOf, On
    <3>. QED
      BY <3>1, NextOrderIsFree
  <2>4. ~Refused(new.capture, new.row)
    BY <2>1, <2>3 DEF Refused
  <2>. QED
    BY <1>1, <2>4 DEF Refused, There, Filed, Place
<1>. QED
  BY <1>2, <1>3, <1>4, GoneLone

LEMMA SaveNewShelfLone ==
  ASSUME Types, Lone, NEW r \in Requests, SaveNewShelf(r)
  PROVE  (Lone /\ LoneFilingSucceeds)'
<1>1. PICK new \in Saves :
         /\ Goes(r, new) /\ new.alone = job[r].alone
         /\ new.kind = "file" /\ new.place = 0
  BY SaveNewShelfDoes
<1>2. job[r] \in NewFilings
  BY SaveNewShelfDoes
<1>3. job[r] # Idle /\ new # Idle /\ new.at = "save" /\ new \in Jobs /\ new.place # Nowhere
  BY <1>1, <1>2, ShapeByKind, ShapesAreJobs, ShapesApart, PhotosAssumption
<1>. QED
  BY <1>1, <1>3, GoneLone

LEMMA LoneStep ==
  ASSUME Types, Shelving, Lone, LoneFilingSucceeds, Next
  PROVE  (Lone /\ LoneFilingSucceeds)'
<1>. USE DEF Rest, records
<1>. DEFINE Goal == (Lone /\ LoneFilingSucceeds)'
<1>1. ASSUME NEW r \in Requests, BeginUpload(r) PROVE Goal
  <2>1. PICK new \in Uploads : Begins(r, new) /\ new.alone = Alone /\ Rest
    BY <1>1, BeginUploadDoes
  <2>2. new \in Jobs /\ new.at \notin {"order", "save"}
    BY ShapesAreJobs, ShapeByKind
  <2>. QED
    BY <2>1, <2>2, BegunLone
<1>2. ASSUME NEW r \in Requests, BeginFileOnNew(r) PROVE Goal
  <2>1. PICK new \in NewFilings : Begins(r, new) /\ new.alone = Alone /\ Rest
    BY <1>2, BeginFileOnNewDoes
  <2>2. new \in Jobs /\ new.at \notin {"order", "save"}
    BY ShapesAreJobs, ShapeByKind
  <2>. QED
    BY <2>1, <2>2, BegunLone
<1>3. ASSUME NEW r \in Requests, BeginRowBehind(r) \/ BeginRename(r) \/ BeginDrop(r) PROVE Goal
  <2>1. PICK new \in ShelfSaves \cup Drops : Begins(r, new) /\ new.alone = Alone /\ Rest
    BY <1>3, BeginShelfSaveDoes, BeginDropDoes
  <2>2. new \in Jobs /\ new.at \notin {"order", "save"}
    BY ShapesAreJobs, ShapeByKind
  <2>. QED
    BY <2>1, <2>2, BegunLone
<1>4. ASSUME NEW r \in Requests, BeginCollect(r) PROVE Goal
  <2>1. PICK new \in Collections : Begins(r, new) /\ new.alone = Alone /\ UNCHANGED <<rows, filed>>
    BY <1>4, BeginCollectDoes
  <2>2. new \in Jobs /\ new.at \notin {"order", "save"}
    BY ShapesAreJobs, ShapeByKind
  <2>. QED
    BY <2>1, <2>2, BegunLone
<1>5. ASSUME NEW r \in Requests, BeginFile(r) PROVE Goal
  BY <1>5, BeginFileLone
<1>6. ASSUME NEW r \in Requests, BeginBind(r) PROVE Goal
  BY <1>6, BeginBindLone
<1>7. ASSUME NEW r \in Requests, LookUpOrder(r) PROVE Goal
  BY <1>7, LookUpOrderLone
<1>8. ASSUME NEW r \in Requests, SaveNewShelf(r) PROVE Goal
  BY <1>8, SaveNewShelfLone
<1>9. ASSUME NEW r \in Requests,
             SettleRead(r) \/ SaveCapture(r) \/ SaveShelf(r) \/ DropShelf(r) \/ EndCollection(r)
      PROVE Goal
  <2>1. job[r] # Idle /\ Ends(r)
    BY <1>9 DEF SettleRead, SaveCapture, SaveShelf, DropShelf, EndCollection, Idle
  <2>. QED
    BY <2>1, EndedLone
<1>10. ASSUME NEW r \in Requests, Put(r) PROVE Goal
  <2>1. PICK new \in Uploads \cup {Idle} : Goes(r, new) /\ (new # Idle => new.alone = job[r].alone)
    BY <1>10, PutDoes DEF Ends
  <2>2. new \in Jobs \cup {Idle} /\ new.at \notin {"order", "save"} /\ job[r] # Idle
    BY <1>10, ShapesAreJobs, ShapeByKind DEF Put
  <2>. QED
    BY <2>1, <2>2, GoneLone
<1>11. ASSUME NEW r \in Requests, LookBeforeDrop(r) PROVE Goal
  <2>1. PICK new \in Drops \cup {Idle} : Goes(r, new) /\ (new # Idle => new.alone = job[r].alone)
    BY <1>11, LookBeforeDropDoes
  <2>2. new \in Jobs \cup {Idle} /\ new.at \notin {"order", "save"} /\ job[r] # Idle
    BY <1>11, ShapesAreJobs, ShapeByKind DEF LookBeforeDrop
  <2>. QED
    BY <2>1, <2>2, GoneLone
<1>12. ASSUME NEW r \in Requests, WalkShelf(r) \/ ListReads(r) \/ PlanCollection(r) \/ CollectNext(r)
       PROVE Goal
  <2>1. PICK new \in Collections : Goes(r, new) /\ new.alone = job[r].alone
    BY <1>12, WalkShelfDoes, ListReadsDoes, PlanCollectionDoes, CollectNextDoes
  <2>2. new \in Jobs /\ new.at \notin {"order", "save"} /\ job[r] # Idle
    BY <1>12, ShapesAreJobs, ShapeByKind DEF WalkShelf, ListReads, PlanCollection, CollectNext
  <2>. QED
    BY <2>1, <2>2, GoneLone
<1>13. ASSUME CreateShelf \/ DeleteCapture \/ DeleteImage PROVE Goal
  BY <1>13, OnceLone DEF CreateShelf, DeleteCapture, DeleteImage
<1>14. ASSUME NEW k \in Images, Forget(k) \/ Age(k) PROVE Goal
  BY <1>14, Still, QuietLone DEF Forget, Age
<1>15. ASSUME Crash PROVE Goal
  BY <1>15, CrashDoes, QuietLone DEF Crash
<1>. QED
  BY <1>1, <1>2, <1>3, <1>4, <1>5, <1>6, <1>7, <1>8, <1>9, <1>10, <1>11, <1>12, <1>13,
     <1>14, <1>15 DEF Next

-----------------------------------------------------------------------------
(* The theorems *)

\* Every part of the invariant holds where a play starts.
LEMMA StartIsSound ==
  ASSUME Init
  PROVE  IInv
<1>1. SoundStart(play) /\ play \in Plays
  BY PhotosAssumption DEF Init
<1>2. \A r \in Requests : job[r] = Idle
  BY DEF Init
<1>3. \A r \in Requests : job[r] \notin Jobs /\ job[r].at = "idle"
  BY <1>2, ShapesApart DEF Idle
<1>4. Types
  BY <1>1 DEF Init, Types, SoundStart
<1>5. Shelving
  <2>1. Standing
    <3>1. \A c \in Captures : Filed(c) => filed[c].row \in 1..MaxRows /\ filed[c].shelf \in Shelves
      BY <1>4 DEF Types, Filed, CaptureRow
    <3>2. \A c \in Captures : Filed(c) => filed[c].row <= rows[filed[c].shelf]
      BY <1>1 DEF Init, SoundStart, Filed
    <3>3. \A c \in Captures : Filed(c) => There(filed[c].shelf)
      BY <1>4, <3>1, <3>2, PhotosAssumption DEF There, Types
    <3>4. \A s \in Shelves : There(s) => s \in made
      BY DEF Init, There
    <3>5. \A c, e \in Captures : c # e /\ Filed(c) /\ Filed(e) => Place(c) # Place(e)
      BY <1>1 DEF Init, SoundStart, Filed, Place
    <3>. QED
      BY <3>2, <3>3, <3>4, <3>5 DEF Standing, PhotosStandInDeclaredRows
  <2>2. \A r \in Requests : JobShelved(r)
    BY <1>3 DEF JobShelved, ShelfKnown, RowKnown, Jobs, Filings
  <2>. QED
    BY <2>1, <2>2, ShelvingParts
<1>6. Filing
  BY <1>3 DEF Filing, Jobs
<1>7. Naming
  <2>1. Carried = {}
    BY <1>2, CarriesByShape DEF Carried
  <2>2. NamedIsStored
    BY <1>1 DEF Init, SoundStart, NamedIsStored, Named, Filed
  <2>. QED
    BY <1>3, <2>1, <2>2 DEF Init, Naming, Jobs
<1>8. Duty
  BY <1>3 DEF Init, Duty, Jobs
<1>9. Lone /\ LoneFilingSucceeds
  BY <1>2, <1>3 DEF Lone, LoneFilingSucceeds
<1>. QED
  BY <1>4, <1>5, <1>6, <1>7, <1>8, <1>9 DEF IInv

\* And no step breaks one.
LEMMA StepIsSound ==
  ASSUME IInv, [Next]_vars
  PROVE  IInv'
<1>1. CASE Next
  <2>1. Types'
    BY <1>1, TypesStep DEF IInv
  <2>2. Shelving'
    BY <1>1, <2>1, ShelvingStep DEF IInv
  <2>3. Filing' /\ Naming' /\ Duty' /\ (Lone /\ LoneFilingSucceeds)'
    BY <1>1, FilingStep, NamingStep, DutyStep, LoneStep DEF IInv
  <2>. QED
    BY <2>1, <2>2, <2>3 DEF IInv
<1>2. CASE UNCHANGED vars
  BY <1>2 DEF vars, blobs, records, history, IInv, Types, Shelving, ShelfKnown, RowKnown, Filing, Naming,
     NamedIsStored, CollectionSound, Duty, Lone, LoneFilingSucceeds, Refused, There, Filed, Place, Named,
     PhotosStandInDeclaredRows, Excused, Carried, Wanted
<1>. QED
  BY <1>1, <1>2

THEOREM PhotosInvariant == Spec => []IInv
  BY StartIsSound, StepIsSound, PTL DEF Spec

(* No two photographs stand in one place, each stands on a shelf that is    *)
(* there in a row it has (but where a stale copy of the shelf was saved),   *)
(* and who files or moves with nothing else going on is not refused.        *)
THEOREM StripsStaySound == Spec => []StripsAreSound
<1>1. IInv => StripsAreSound
  <2>1. ASSUME IInv, NEW c \in Captures, Filed(c) PROVE filed[c] \in CaptureRow
    BY <2>1 DEF IInv, Types, Filed
  <2>. QED
    BY <2>1 DEF IInv, Types, Shelving, StripsAreSound, TypeOK
<1>. QED
  BY <1>1, PhotosInvariant, PTL

(* The collector under-deletes: what a capture or a stored read names has   *)
(* its file, but for the histories the property itself names.               *)
THEOREM NamedStaysStored == Spec => []NamedIsStored
<1>1. IInv => NamedIsStored
  BY DEF IInv, Naming
<1>. QED
  BY <1>1, PhotosInvariant, PTL

(* And it collects: when it ends, what it ought to have deleted is gone.    *)
THEOREM OrphansGetCollected == Spec => []OrphansAreCollected
<1>1. IInv => OrphansAreCollected
  <2>1. ASSUME IInv, NEW r \in Requests, job[r].at = "delete", job[r].doomed = {}
        PROVE  stale \cap stored = {}
    <3>1. job[r] \in Collections
      BY <2>1, ShapeOfJob DEF IInv
    <3>. QED
      BY <2>1, <3>1 DEF IInv, Duty
  <2>. QED
    BY <2>1 DEF OrphansAreCollected
<1>. QED
  BY <1>1, PhotosInvariant, PTL
=============================================================================
