------------------------------- MODULE Photos -------------------------------
(***************************************************************************)
(* Photographs: uploaded, filed on shelves, moved, named by reads, deleted  *)
(* and collected.                                                           *)
(*                                                                         *)
(* Bytes live in a store of files, the rows that name them in a database,   *)
(* and neither sees the other: between an upload and its filing nothing     *)
(* names a photograph, and a collector run beside the server deletes what   *)
(* nothing names.  A request is a record of `job` and makes one call of a   *)
(* store per step.                                                          *)
(*                                                                         *)
(* A photograph is its content, so the same one uploaded twice is one file. *)
(* Abstracted: the sidecar and the thumbnail beside a file, refused         *)
(* uploads, labels, and time but for whether a file is older than the       *)
(* collector's floor.  Absorbed shelves stay as they are (ShelfMerge).      *)
(***************************************************************************)
EXTENDS Naturals, FiniteSets

CONSTANTS
    Images, Shelves, Captures,
    Nowhere,
    Requests,
    Plays,           \* what behaviours start from and may spend
    MaxRows

Absent == [at |-> "absent"]

VARIABLES
    stored,          \* the photographs with a file
    old,             \* those whose file is older than the floor
    rows,            \* how many rows a shelf is declared to have; 0: no such shelf
    filed,           \* the captures: shelf, row, place in the strip, photograph
    made,            \* shelf ids used so far
    crops,           \* the photographs the claims of stored reads name
    held,            \* photographs a client uploaded and means to file
    job,
    play, begun, crashes,
    removed,         \* history: photographs a person deleted
    overtaken,       \* history: photographs named again behind a collection's back
    stale,           \* history: photographs a collection in progress ought to delete
    overruled        \* history: shelves a save of an older copy took a row from

blobs   == <<stored, old>>
records == <<rows, filed, made, crops>>
history == <<removed, overtaken, stale, overruled>>
vars == <<blobs, records, held, job, play, begun, crashes, history>>

PlaceOf(row) == <<row.shelf, row.row, row.order>>
CaptureRow == [shelf : Shelves, row : 1..MaxRows, order : Nat, image : Images]

(* What a play starts from: captures in declared rows, one to a place, and  *)
(* no photograph named that has no file.                                    *)
SoundStart(p) ==
    /\ p.stored \subseteq Images /\ p.crops \subseteq p.stored
    /\ p.rows \in [Shelves -> 0..MaxRows]
    /\ DOMAIN p.alias \subseteq Shelves /\ \A a \in DOMAIN p.alias : p.alias[a] \in Shelves
    /\ p.filed \in [Captures -> CaptureRow \cup {Absent}]
    /\ \A c \in Captures : p.filed[c] # Absent =>
          /\ p.filed[c].image \in p.stored
          /\ p.filed[c].row <= p.rows[p.filed[c].shelf]
          /\ \A e \in Captures \ {c} :
                p.filed[e] # Absent => PlaceOf(p.filed[e]) # PlaceOf(p.filed[c])

ASSUME PhotosAssumption ==
    /\ MaxRows \in Nat \ {0} /\ IsFiniteSet(Captures)
    /\ Nowhere \notin Nat
    /\ \A p \in Plays : SoundStart(p)

Idle == [at |-> "idle"]
Active(r) == job[r] # Idle
Collecting == \E r \in Requests : Active(r) /\ job[r].kind = "collect"

There(s) == rows[s] > 0
Filed(c) == filed[c] # Absent
Place(c) == PlaceOf(filed[c])
On(s)    == {c \in Captures : Filed(c) /\ filed[c].shelf = s}

(* resolve, one hop: the shelf that answers for an absorbed one. *)
Loaded(s) == IF There(s) THEN s
             ELSE IF s \in DOMAIN play.alias THEN play.alias[s] ELSE s

(* The photographs some row names. *)
Named == {filed[c].image : c \in {d \in Captures : Filed(d)}} \cup crops

NextOrder(s, d) ==
    LET here == {filed[c].order : c \in {e \in On(s) : filed[e].row = d}}
    IN  IF here = {} THEN 0 ELSE 1 + CHOOSE n \in here : \A k \in here : k <= n

(* Someone has a photograph in hand: it is being uploaded, or it was and is *)
(* not filed yet, or a read is going to name it.                            *)
InHand(k) ==
    \/ k \in held
    \/ \E r \in Requests :
          \/ Active(r) /\ job[r].kind \in {"upload", "read"} /\ job[r].image = k
          \/ Active(r) /\ job[r].kind = "file" /\ job[r].row.image = k
-----------------------------------------------------------------------------
(* Requests.  `alone` is history: nothing else ran while the request did.   *)
Alone == \A r \in Requests : ~Active(r)

Begins(r, new) ==
    /\ ~Active(r)
    /\ r <= play.overlap /\ new.kind \in play.kinds
    /\ begun < play.requests
    /\ begun' = begun + 1
    /\ job' = [q \in Requests |->
                 IF q = r THEN new
                 ELSE IF Active(q) THEN [job[q] EXCEPT !.alone = FALSE] ELSE Idle]
    /\ UNCHANGED <<play, crashes>>

(* A request that is one call of a store. *)
Once(kind) ==
    /\ kind \in play.kinds
    /\ begun < play.requests
    /\ begun' = begun + 1
    /\ job' = [q \in Requests |-> IF Active(q) THEN [job[q] EXCEPT !.alone = FALSE] ELSE Idle]
    /\ UNCHANGED <<play, crashes>>

Goes(r, new) == job' = [job EXCEPT ![r] = new] /\ UNCHANGED <<play, begun, crashes>>
Ends(r) == Goes(r, Idle)

(* upload_image, and a read that stores the crop of a spine: put. *)
BeginUpload(r) ==
    \E k \in Images, kind \in {"upload", "read"} :
        /\ Begins(r, [kind |-> kind, at |-> "put", alone |-> Alone, image |-> k])
        /\ UNCHANGED <<blobs, records, held, history>>

YoungAfterWrite(k) == IF k \in stored THEN old ELSE old \ {k}

(* A file that is already there is touched: it is young again. *)
YoungAfterPut(k) == old \ {k}

Put(r) ==
    LET k == job[r].image
    IN  /\ job[r].at = "put"
        /\ stored' = stored \cup {k}
        /\ old' = YoungAfterPut(k)
        /\ removed' = removed \ {k}
        /\ overtaken' = IF \E q \in Requests : job[q].at = "delete" /\ k \in job[q].doomed
                        THEN overtaken \cup {k} ELSE overtaken
        /\ stale' = stale \ {k}
        /\ IF job[r].kind = "upload" THEN held' = held \cup {k} /\ Ends(r)
           ELSE UNCHANGED held /\ Goes(r, [job[r] EXCEPT !.at = "settle"])
        /\ UNCHANGED <<records, overruled>>

(* The read is stored with its claims, or it failed and they are dropped.   *)
SettleRead(r) ==
    /\ job[r].at = "settle"
    /\ crops' \in {crops, crops \cup {job[r].image}}
    /\ stale' = stale \ crops'
    /\ Ends(r)
    /\ UNCHANGED <<blobs, rows, filed, made, held, removed, overtaken, overruled>>

(* A client that will not file what it uploaded. *)
Forget(k) ==
    /\ k \in held
    /\ held' = held \ {k}
    /\ UNCHANGED <<blobs, records, job, play, begun, crashes, history>>

(* A day passes over a photograph: not while someone has it in hand, nor    *)
(* while a collection runs.                                                 *)
Age(k) ==
    /\ k \in stored \ old /\ ~InHand(k) /\ ~Collecting
    /\ old' = old \cup {k}
    /\ UNCHANGED <<stored, records, held, job, play, begun, crashes, history>>
-----------------------------------------------------------------------------
(* Shelves and captures. *)

DeclaredOneBehind(s, d) == d <= rows[s] + 1
Declared(s, d) == d <= rows[s]

(* create_capture onto a shelf, at the end of a row or at a place asked for; *)
(* bind_capture.  The shelf is loaded, perhaps through its alias; a row it   *)
(* has not got is refused; then the place is looked up and the row saved.    *)
FileOn(r, kind, c, k, s, d, place, asks) ==
    /\ There(Loaded(s)) /\ Declared(Loaded(s), d)
    /\ Begins(r, [kind |-> kind, at |-> IF place = Nowhere THEN "order" ELSE "save", alone |-> Alone,
                   capture |-> c, asks |-> asks, place |-> place,
                   row |-> [shelf |-> Loaded(s), row |-> d, order |-> place, image |-> k]])
    /\ UNCHANGED <<blobs, records, held, history>>

Fresh(c) == ~Filed(c) /\ \A q \in Requests : Active(q) /\ job[q].kind \in {"file", "bind"} => job[q].capture # c

BeginFile(r) ==
    \E c \in Captures, k \in held, s \in Shelves, d \in 1..MaxRows, place \in {Nowhere, 0} :
        Fresh(c) /\ FileOn(r, "file", c, k, s, d, place, Loaded(s))

(* A photograph that stays in its row keeps its place; one that is moved    *)
(* asks for the next, under the id the caller gave.                         *)
BeginBind(r) ==
    \E c \in Captures, s \in Shelves, d \in 1..MaxRows :
        /\ Filed(c)
        /\ LET stays == s = filed[c].shelf /\ d = filed[c].row
           IN  FileOn(r, "bind", c, filed[c].image, s, d,
                      IF stays THEN filed[c].order ELSE Nowhere, s)

LookUpOrder(r) ==
    /\ job[r].at = "order"
    /\ Goes(r, [job[r] EXCEPT !.at = "save",
                              !.row.order = NextOrder(job[r].asks, job[r].row.row)])
    /\ UNCHANGED <<blobs, records, held, history>>

(* save_capture: the shelf must be there and the slot free. *)
Refused(c, row) ==
    \/ ~There(row.shelf)
    \/ \E e \in Captures \ {c} : Filed(e) /\ Place(e) = PlaceOf(row)

SaveCapture(r) ==
    LET c == job[r].capture
        k == job[r].row.image
    IN  /\ job[r].at = "save"
        /\ IF Refused(c, job[r].row) THEN UNCHANGED <<filed, held, stale, overtaken>>
           ELSE /\ filed' = [filed EXCEPT ![c] = job[r].row]
                /\ held' = IF job[r].kind = "file" THEN held \ {k} ELSE held
                /\ stale' = stale \ {k}
                /\ overtaken' = IF job[r].kind = "bind" /\ (Collecting \/ ~Filed(c)) THEN overtaken \cup {k} ELSE overtaken
        /\ Ends(r)
        /\ UNCHANGED <<blobs, rows, made, crops, removed, overruled>>

(* create_capture with no shelf named: a fresh shelf is saved, then the     *)
(* photograph at the head of its strip.                                     *)
BeginFileOnNew(r) ==
    \E c \in Captures, k \in held :
        /\ Fresh(c)
        /\ Begins(r, [kind |-> "file", at |-> "shelf", alone |-> Alone,
                       capture |-> c, asks |-> Nowhere, place |-> 0,
                       row |-> [shelf |-> Nowhere, row |-> 1, order |-> 0, image |-> k]])
        /\ UNCHANGED <<blobs, records, held, history>>

SaveNewShelf(r) ==
    \E s \in Shelves \ made :
        /\ job[r].at = "shelf"
        /\ rows' = [rows EXCEPT ![s] = 1]
        /\ made' = made \cup {s}
        /\ Goes(r, [job[r] EXCEPT !.at = "save", !.row.shelf = s])
        /\ UNCHANGED <<blobs, filed, crops, held, history>>

CreateShelf ==
    \E s \in Shelves \ made :
        /\ Once("create")
        /\ rows' = [rows EXCEPT ![s] = 1]
        /\ made' = made \cup {s}
        /\ UNCHANGED <<blobs, filed, crops, held, history>>

DeleteCapture ==
    \E c \in Captures :
        /\ Filed(c)
        /\ Once("unfile")
        /\ filed' = [filed EXCEPT ![c] = Absent]
        /\ UNCHANGED <<blobs, rows, made, crops, held, history>>

(* add_a_row_behind, patch_shelf: the shelf is loaded, changed and saved as *)
(* a whole.  The wishlist has no row behind.                                *)
BeginRowBehind(r) ==
    \E s \in Shelves :
        LET here == Loaded(s)
        IN  /\ There(here) /\ here # play.wishlist /\ rows[here] < MaxRows
            /\ Begins(r, [kind |-> "deepen", at |-> "save_shelf", alone |-> Alone,
                           shelf |-> here, rows |-> rows[here] + 1])
            /\ UNCHANGED <<blobs, records, held, history>>

BeginRename(r) ==
    \E s \in Shelves :
        /\ There(Loaded(s))
        /\ Begins(r, [kind |-> "rename", at |-> "save_shelf", alone |-> Alone,
                       shelf |-> Loaded(s), rows |-> rows[Loaded(s)]])
        /\ UNCHANGED <<blobs, records, held, history>>

SaveShelf(r) ==
    LET s == job[r].shelf
    IN  /\ job[r].at = "save_shelf"
        /\ rows' = [rows EXCEPT ![s] = job[r].rows]
        /\ overruled' = IF There(s) /\ rows[s] <= job[r].rows THEN overruled ELSE overruled \cup {s}
        /\ Ends(r)
        /\ UNCHANGED <<blobs, filed, made, crops, held, removed, overtaken, stale>>

(* delete_shelf: that nothing is on it is looked up outside the transaction *)
(* that deletes it, and its captures go with the row.                       *)
BeginDrop(r) ==
    \E s \in Shelves :
        /\ There(s)
        /\ Begins(r, [kind |-> "drop", at |-> "look", alone |-> Alone, shelf |-> s])
        /\ UNCHANGED <<blobs, records, held, history>>

MayDrop(s) == On(s) = {} /\ ~\E a \in DOMAIN play.alias : play.alias[a] = s

LookBeforeDrop(r) ==
    /\ job[r].at = "look"
    /\ IF There(job[r].shelf) /\ MayDrop(job[r].shelf)
       THEN Goes(r, [job[r] EXCEPT !.at = "drop"]) ELSE Ends(r)
    /\ UNCHANGED <<blobs, records, held, history>>

DropShelf(r) ==
    LET s == job[r].shelf
    IN  /\ job[r].at = "drop"
        /\ rows' = [rows EXCEPT ![s] = 0]
        /\ filed' = [c \in Captures |-> IF c \in On(s) THEN Absent ELSE filed[c]]
        /\ Ends(r)
        /\ UNCHANGED <<blobs, made, crops, held, history>>
-----------------------------------------------------------------------------
(* Deleting files. *)

(* delete_image: a person's wish; nothing is asked about who names it. *)
DeleteImage ==
    \E k \in stored :
        /\ Once("delete_image")
        /\ stored' = stored \ {k}
        /\ old' = old \ {k}
        /\ removed' = removed \cup {k}
        /\ UNCHANGED <<records, held, overtaken, stale, overruled>>

(* collect_orphans.  list_shelves, then the captures shelf by shelf, then   *)
(* the reads, then the files; what is old and not among the named is        *)
(* deleted, one file after the other.                                       *)
ListShelves == {s \in Shelves : There(s)}

BeginCollect(r) ==
    /\ ~Collecting
    /\ Begins(r, [kind |-> "collect", at |-> "walk", alone |-> Alone,
                   left |-> ListShelves, named |-> {}, doomed |-> {}])
    /\ stale' = (stored \cap old) \ Named
    /\ UNCHANGED <<blobs, records, held, removed, overtaken, overruled>>

WalkShelf(r) ==
    /\ job[r].at = "walk"
    /\ \E s \in job[r].left :
          Goes(r, [job[r] EXCEPT !.left = @ \ {s},
                                 !.named = @ \cup {filed[c].image : c \in On(s)}])
    /\ UNCHANGED <<blobs, records, held, history>>

ListReads(r) ==
    /\ job[r].at = "walk" /\ job[r].left = {}
    /\ Goes(r, [job[r] EXCEPT !.at = "list", !.named = @ \cup crops])
    /\ UNCHANGED <<blobs, records, held, history>>

TheYoungOnes(named) == (stored \ old) \ named
Orphans(named) == (stored \cap old) \ named

PlanCollection(r) ==
    /\ job[r].at = "list"
    /\ Goes(r, [job[r] EXCEPT !.at = "delete", !.doomed = Orphans(job[r].named)])
    /\ UNCHANGED <<blobs, records, held, history>>

CollectNext(r) ==
    /\ job[r].at = "delete"
    /\ \E k \in job[r].doomed :
          /\ stored' = stored \ {k}
          /\ old' = old \ {k}
          /\ Goes(r, [job[r] EXCEPT !.doomed = @ \ {k}])
    /\ UNCHANGED <<records, held, history>>

EndCollection(r) ==
    /\ job[r].at = "delete" /\ job[r].doomed = {}
    /\ stale' = {}
    /\ Ends(r)
    /\ UNCHANGED <<blobs, records, held, removed, overtaken, overruled>>

(* The server dies with all its requests, or the collector, a process of    *)
(* its own.                                                                 *)
Crash ==
    /\ crashes < play.crashes
    /\ crashes' = crashes + 1
    /\ \E collector \in BOOLEAN :
          LET dies(r) == Active(r) /\ ((job[r].kind = "collect") <=> collector)
          IN  /\ \E r \in Requests : dies(r)
              /\ job' = [r \in Requests |-> IF dies(r) THEN Idle ELSE job[r]]
              /\ stale' = IF collector THEN {} ELSE stale
    /\ UNCHANGED <<blobs, records, held, play, begun, removed, overtaken, overruled>>
-----------------------------------------------------------------------------
Init ==
    /\ play \in Plays
    /\ stored = play.stored /\ old = play.stored
    /\ rows = play.rows
    /\ made = {s \in Shelves : play.rows[s] > 0} \cup DOMAIN play.alias
    /\ filed = play.filed
    /\ crops = play.crops
    /\ held = {}
    /\ job = [r \in Requests |-> Idle]
    /\ begun = 0 /\ crashes = 0
    /\ removed = {} /\ overtaken = {} /\ stale = {} /\ overruled = {}

Next ==
    \/ \E r \in Requests :
        \/ BeginUpload(r) \/ Put(r) \/ SettleRead(r)
        \/ BeginFile(r) \/ BeginBind(r) \/ LookUpOrder(r) \/ SaveCapture(r)
        \/ BeginFileOnNew(r) \/ SaveNewShelf(r)
        \/ BeginRowBehind(r) \/ BeginRename(r) \/ SaveShelf(r)
        \/ BeginDrop(r) \/ LookBeforeDrop(r) \/ DropShelf(r)
        \/ BeginCollect(r) \/ WalkShelf(r) \/ ListReads(r) \/ PlanCollection(r)
        \/ CollectNext(r) \/ EndCollection(r)
    \/ CreateShelf \/ DeleteCapture \/ DeleteImage
    \/ \E k \in Images : Forget(k) \/ Age(k)
    \/ Crash

Spec == Init /\ [][Next]_vars
-----------------------------------------------------------------------------
(* Files, shelves, captures and reads are what their names say, a capture   *)
(* stands on a shelf that is there, and no two share a place.               *)
TypeOK ==
    /\ old \subseteq stored /\ stored \subseteq Images
    /\ crops \subseteq Images /\ held \subseteq Images
    /\ rows \in [Shelves -> 0..MaxRows]
    /\ \A c \in Captures : Filed(c) => filed[c] \in CaptureRow /\ There(filed[c].shelf)
    /\ \A c, e \in Captures : c # e /\ Filed(c) /\ Filed(e) => Place(c) # Place(e)

(* "Photos are the evidence the whole product runs on, so the collector is  *)
(* built to under-delete" (blob_lifecycle.py): what a capture or a stored   *)
(* read names has its file, unless a person deleted it or it came to be     *)
(* named behind the collection's back: a filed photograph moved while the   *)
(* shelves were walked, a capture put back by a move that had read it       *)
(* before it was deleted, bytes uploaded again after the files were listed. *)
NamedIsStored == Named \subseteq stored \cup removed \cup overtaken

(* A collection that comes to its end has deleted every file that was old   *)
(* when it began and that nobody named, or put again, while it ran.         *)
OrphansAreCollected ==
    \A r \in Requests :
        job[r].at = "delete" /\ job[r].doomed = {} => stale \cap stored = {}

(* No photograph stands in a row its shelf is not declared to have: "filing *)
(* a photo at a row that does not exist would give reconciliation a         *)
(* location with no counterpart in the room" (shelves.py bind_capture); but *)
(* for shelves of which a request saved a copy it had read before another   *)
(* added a row, or deleted them.                                            *)
PhotosStandInDeclaredRows ==
    \A c \in Captures :
        Filed(c) /\ filed[c].shelf \notin overruled => filed[c].row <= rows[filed[c].shelf]

(* A photograph filed at the end of a row with nothing else going on is     *)
(* never refused its place (shelves.py _next_order), whatever was deleted   *)
(* and moved before; nor is one moved by the id of the shelf that answers.  *)
LoneFilingSucceeds ==
    \A r \in Requests :
        /\ job[r].at = "save" /\ job[r].alone
        /\ job[r].kind = "bind" \/ job[r].place = Nowhere
        /\ job[r].asks = job[r].row.shelf
        => ~Refused(job[r].capture, job[r].row)

(* The strips are sound between any two calls: no two photographs in one    *)
(* place, each in a row its shelf has, and room at the end.                 *)
StripsAreSound == TypeOK /\ PhotosStandInDeclaredRows /\ LoneFilingSucceeds
=============================================================================
