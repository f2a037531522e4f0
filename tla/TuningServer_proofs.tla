------------------------- MODULE TuningServer_proofs -------------------------
(***************************************************************************)
(* What the tuning server promises, for any photographs and any plays: what *)
(* is on file of the runs can be relied on, and rejections stand.           *)
(***************************************************************************)
EXTENDS TuningServer, TLAPS

-----------------------------------------------------------------------------
(* Finite maps, as the store holds them. *)
Maps(D, V) == UNION {[S -> V] : S \in SUBSET D}

Titles == {Title[i] : i \in Images} \cup {Fix, Nothing}
Decisions == [action : {"approve", "reject", "replace"}, title : Titles, rejected : Titles]
ImageStates == [status : {"new", "running", "done", "stopped", "error"}, summary : BOOLEAN, latest : Nat]
RunStates ==
    [status : {"running", "completed", "stopped", "error", "interrupted"},
     images : Maps(Images, {"done", "stopped", "error"})]
JobStates == [state : {"idle", "running"}, run : Nat, image : Images \cup {Nothing}]

Reading == {"mark", "read", "look", "absorb", "settle"}
Going   == {"setup", "take"} \cup Reading
Ending  == {"clear", "idle"}
Workers ==
    [run : Nat, todo : Seq(Images), at : Going \cup {"last"} \cup Ending,
     image : Images \cup {Nothing}, cut : BOOLEAN]

RunRequests  == [do : {"run"}, at : {"file", "launch"}, wanted : Seq(Images), run : Nat]
ImageDeletes == [do : {"delete image"}, at : {"drop", "unlink"}, image : Images]
RunDeletes   == [do : {"delete run"}, at : {"drop", "unlink"}, run : Nat]
Reviews ==
    [do : {"review"}, at : {"remove", "add", "record"}, file : Nat \X Images, decision : Decisions]

Requests == RunRequests \cup ImageDeletes \cup RunDeletes \cup Reviews

Types ==
    /\ images \in Maps(Images, ImageStates) /\ runs \in Maps(Nat, RunStates)
    /\ records \subseteq Nat \X Images /\ decisions \in Maps(Nat \X Images, Decisions)
    /\ nextNo \in Nat /\ owed \subseteq Nat
    /\ job \in JobStates /\ stop \in BOOLEAN
    /\ worker # Nothing => worker \in Workers
    /\ req # Nothing => req \in Requests

(* Ids are used once. *)
Numbered ==
    /\ DOMAIN images \subseteq issued
    /\ \A r \in DOMAIN runs \cup owed : r < nextNo

(* The worker's run is the one the job shows, on file, and not ended before *)
(* its last step; what it has read is on disk, or the image is gone; a stop *)
(* it was told of holds until it looks.                                     *)
AtWork ==
    worker # Nothing =>
        /\ job.state = "running" /\ job.run = worker.run
        /\ worker.run \in DOMAIN runs
        /\ worker.at \in Reading => worker.image \in Images \cap issued
        /\ worker.at \in {"look", "absorb", "settle"} /\ worker.image \in DOMAIN images
             => <<worker.run, worker.image>> \in records
        /\ runs[worker.run].status = "completed" => worker.at \in Ending /\ worker.todo = <<>>
        /\ worker.at \in Going /\ worker.run \in owed => stop /\ worker.todo # <<>>
        /\ worker.at = "last" /\ (worker.todo # <<>> \/ worker.run \in owed) => worker.cut
        /\ worker.at = "absorb" /\ play.careful => Rejected \subseteq seen

(* What a request in flight relies on at its next step. *)
InFlight ==
    req # Nothing =>
        /\ req.do = "run" =>
             /\ worker = Nothing
             /\ req.at = "file" => req.run = nextNo
             /\ req.at = "launch" =>
                  req.run \in DOMAIN runs /\ runs[req.run].status = "running" /\ req.run \notin owed
        /\ req.do = "delete image" /\ req.at = "unlink" =>
             /\ req.image \notin DOMAIN images
             /\ \A r \in DOMAIN runs : req.image \notin DOMAIN runs[r].images
        /\ req.do = "delete run" =>
             /\ worker # Nothing => worker.run # req.run
             /\ req.at = "unlink" => req.run \notin DOMAIN runs
        /\ req.do = "review" /\ play.careful => worker = Nothing

IInv == Types /\ Numbered /\ AtWork /\ InFlight /\ RunsAreSound
-----------------------------------------------------------------------------
(* Maps *)

LEMMA MapFacts ==
  ASSUME NEW D, NEW V, NEW f \in Maps(D, V)
  PROVE  /\ DOMAIN f \subseteq D
         /\ f \in [DOMAIN f -> V]
         /\ \A g \in [DOMAIN f -> V] : g \in Maps(D, V)
  BY DEF Maps

LEMMA EmptyMap ==
  ASSUME NEW D, NEW V
  PROVE  <<>> \in Maps(D, V) /\ DOMAIN <<>> = {}
<1>1. DOMAIN <<>> = {} /\ <<>> = [x \in {} |-> x]
  OBVIOUS
<1>2. [x \in {} |-> x] \in [{} -> V]
  OBVIOUS
<1>. QED
  BY <1>1, <1>2 DEF Maps

LEMMA PutMap ==
  ASSUME NEW D, NEW V, NEW f \in Maps(D, V), NEW k \in D, NEW v \in V
  PROVE  Put(f, k, v) \in Maps(D, V)
<1>1. Put(f, k, v) \in [DOMAIN f \cup {k} -> V]
  BY MapFacts DEF Put
<1>2. DOMAIN f \cup {k} \in SUBSET D
  BY MapFacts
<1>. QED
  BY <1>1, <1>2 DEF Maps

LEMMA WithoutMap ==
  ASSUME NEW D, NEW V, NEW f \in Maps(D, V), NEW keys
  PROVE  Without(f, keys) \in Maps(D, V)
<1>1. Without(f, keys) \in [DOMAIN f \ keys -> V]
  BY MapFacts DEF Without, Restrict
<1>2. DOMAIN f \ keys \in SUBSET D
  BY MapFacts
<1>. QED
  BY <1>1, <1>2 DEF Maps

-----------------------------------------------------------------------------
(* Requests *)

\* What a request does tells its shape.
LEMMA Shapes ==
  ASSUME Types, req # Nothing
  PROVE  /\ req.do = "run" => req \in RunRequests
         /\ req.do = "delete image" => req \in ImageDeletes
         /\ req.do = "delete run" => req \in RunDeletes
         /\ req.do = "review" => req \in Reviews
  BY DEF Types, Requests, RunRequests, ImageDeletes, RunDeletes, Reviews

\* A request that is taken, and does nothing yet.
LEMMA Asked ==
  ASSUME IInv, UNCHANGED <<play, disk, job, stop, worker, seen, owed>>,
         req' # Nothing => req' \in Requests
  PROVE  Types' /\ Numbered' /\ AtWork' /\ RunsAreSound'
<1>. USE DEF disk, store
<1>1. Types'
  BY DEF IInv, Types, Maps, Titles, Decisions, ImageStates, RunStates, JobStates, Workers,
         Requests, RunRequests, ImageDeletes, RunDeletes, Reviews
<1>2. Numbered'
  BY DEF IInv, Numbered
<1>3. AtWork'
  BY DEF IInv, AtWork, Rejected
<1>4. RunsAreSound'
  BY DEF IInv, RunsAreSound, RecordsBackEveryEntry, StopsAreHonoured
<1>. QED
  BY <1>1, <1>2, <1>3, <1>4

LEMMA StartRunStep ==
  ASSUME IInv, StartRun
  PROVE  IInv'
<1>1. PICK wanted \in SeqOf(DOMAIN images, 2) :
        /\ job.state # "running"
        /\ req' = [do |-> "run", at |-> "file", wanted |-> wanted, run |-> nextNo]
  BY DEF StartRun, Ask
<1>2. wanted \in Seq(Images)
  <2>1. PICK n \in 0..2 : wanted \in [1..n -> DOMAIN images]
    BY <1>1 DEF SeqOf
  <2>. QED
    BY <2>1, MapFacts DEF IInv, Types
<1>3. req' \in RunRequests
  BY <1>1, <1>2 DEF RunRequests, IInv, Types
<1>4. UNCHANGED <<play, disk, job, stop, worker, seen, owed>>
  BY DEF StartRun, Ask
<1>5. worker = Nothing
  BY <1>1 DEF IInv, AtWork
<1>6. InFlight'
  BY <1>1, <1>4, <1>5 DEF InFlight, disk, store
<1>. QED
  BY <1>3, <1>4, <1>6, Asked DEF IInv, Requests

LEMMA DeleteImageStep ==
  ASSUME IInv, DeleteImage
  PROVE  IInv'
<1>1. PICK i \in DOMAIN images : req' = [do |-> "delete image", at |-> "drop", image |-> i]
  BY DEF DeleteImage, Ask
<1>2. req' \in ImageDeletes
  BY <1>1, MapFacts DEF ImageDeletes, IInv, Types
<1>3. UNCHANGED <<play, disk, job, stop, worker, seen, owed>>
  BY DEF DeleteImage, Ask
<1>4. InFlight'
  BY <1>1 DEF InFlight
<1>. QED
  BY <1>2, <1>3, <1>4, Asked DEF IInv, Requests

LEMMA DeleteRunStep ==
  ASSUME IInv, DeleteRun
  PROVE  IInv'
<1>1. PICK r \in DOMAIN runs :
        /\ req' = [do |-> "delete run", at |-> "drop", run |-> r]
        /\ ~(job.run = r /\ job.state = "running")
  BY DEF DeleteRun, Ask
<1>2. req' \in RunDeletes
  BY <1>1, MapFacts DEF RunDeletes, IInv, Types
<1>3. UNCHANGED <<play, disk, job, stop, worker, seen, owed>>
  BY DEF DeleteRun, Ask
<1>4. InFlight'
  BY <1>1, <1>3 DEF InFlight, IInv, AtWork
<1>. QED
  BY <1>2, <1>3, <1>4, Asked DEF IInv, Requests

LEMMA ReviewStep ==
  ASSUME IInv, Review
  PROVE  IInv'
<1>1. PICK f \in records :
        /\ play.careful => worker = Nothing
        /\ \E decision \in Offered(f) :
              req' = [do |-> "review", at |-> "remove", file |-> f, decision |-> decision]
  BY DEF Review, Ask
<1>2. PICK decision \in Offered(f) :
        req' = [do |-> "review", at |-> "remove", file |-> f, decision |-> decision]
  BY <1>1
<1>3. f \in Nat \X Images /\ Title[f[2]] \in Titles /\ Shown(f) \in Titles
  <2>1. f \in Nat \X Images
    BY DEF IInv, Types
  <2>2. Title[f[2]] \in Titles
    BY <2>1 DEF Titles
  <2>3. f \in DOMAIN decisions => decisions[f] \in Decisions
    BY MapFacts DEF IInv, Types
  <2>. QED
    BY <2>1, <2>2, <2>3 DEF Shown, Decisions
<1>4. decision \in Decisions
  BY <1>3 DEF Offered, Decisions, Titles
<1>5. req' \in Reviews
  BY <1>2, <1>3, <1>4 DEF Reviews
<1>6. UNCHANGED <<play, disk, job, stop, worker, seen, owed>>
  BY DEF Review, Ask
<1>7. InFlight'
  BY <1>1, <1>2, <1>6 DEF InFlight
<1>. QED
  BY <1>5, <1>6, <1>7, Asked DEF IInv, Requests

\* A request that is answered at once.
LEMMA StopRunStep ==
  ASSUME IInv, StopRun
  PROVE  IInv'
<1>1. /\ req' = Nothing /\ job.state = "running" /\ stop' = TRUE
      /\ owed' = IF worker # Nothing /\ worker.todo # <<>> THEN owed \cup {worker.run} ELSE owed
      /\ UNCHANGED <<play, disk, job, worker, seen>>
  BY DEF StopRun, Ask
<1>. USE DEF disk, store
<1>2. Types'
  <2>1. worker # Nothing => worker.run \in Nat
    BY DEF IInv, Types, Workers
  <2>. QED
    BY <1>1, <2>1 DEF IInv, Types
<1>3. Numbered'
  BY <1>1 DEF IInv, Numbered, AtWork
<1>4. AtWork'
  BY <1>1 DEF IInv, AtWork, Rejected
<1>5. InFlight'
  BY <1>1 DEF InFlight
<1>6. RunsAreSound'
  BY <1>1 DEF IInv, AtWork, RunsAreSound, RecordsBackEveryEntry, StopsAreHonoured, Ending
<1>. QED
  BY <1>2, <1>3, <1>4, <1>5, <1>6 DEF IInv

LEMMA UploadStep ==
  ASSUME IInv, Upload
  PROVE  IInv'
<1>1. PICK i \in Images \ issued :
        /\ issued' = issued \cup {i}
        /\ images' = Put(images, i, [status |-> "new", summary |-> FALSE, latest |-> 0])
        /\ req' = Nothing
        /\ UNCHANGED <<play, runs, nextNo, records, library, decisions, job, stop, worker, seen, owed>>
  BY DEF Upload, Ask
<1>2. images' \in Maps(Images, ImageStates) /\ DOMAIN images' = DOMAIN images \cup {i}
  <2>1. PICK fresh \in ImageStates : images' = Put(images, i, fresh)
    BY <1>1 DEF ImageStates
  <2>2. images \in Maps(Images, ImageStates)
    BY DEF IInv, Types
  <2>. QED
    BY <2>1, <2>2, PutMap DEF Put
<1>3. Types'
  BY <1>1, <1>2 DEF IInv, Types
<1>4. Numbered'
  BY <1>1, <1>2 DEF IInv, Numbered
<1>5. AtWork'
  BY <1>1, <1>2 DEF IInv, AtWork, Rejected, Reading
<1>6. InFlight'
  BY <1>1 DEF InFlight
<1>7. RunsAreSound'
  BY <1>1 DEF IInv, RunsAreSound, RecordsBackEveryEntry, StopsAreHonoured
<1>. QED
  BY <1>3, <1>4, <1>5, <1>6, <1>7 DEF IInv

LEMMA ClearDecisionStep ==
  ASSUME IInv, ClearDecision
  PROVE  IInv'
<1>1. PICK f \in DOMAIN decisions :
        /\ decisions' = Without(decisions, {f}) /\ req' = Nothing
        /\ UNCHANGED <<play, store, records, library, job, stop, worker, seen, owed>>
  BY DEF ClearDecision, Ask
<1>2. /\ decisions' \in Maps(Nat \X Images, Decisions)
      /\ Rejected' \subseteq Rejected
  <2>1. decisions \in Maps(Nat \X Images, Decisions)
    BY DEF IInv, Types
  <2>2. /\ decisions' \in Maps(Nat \X Images, Decisions)
        /\ DOMAIN decisions' = DOMAIN decisions \ {f}
        /\ \A g \in DOMAIN decisions \ {f} : decisions'[g] = decisions[g]
    BY <1>1, <2>1, WithoutMap DEF Without, Restrict
  <2>. QED
    BY <2>2 DEF Rejected
<1>. USE DEF store
<1>3. Types'
  BY <1>1, <1>2 DEF IInv, Types
<1>4. Numbered'
  BY <1>1 DEF IInv, Numbered
<1>5. AtWork'
  BY <1>1, <1>2 DEF IInv, AtWork
<1>6. InFlight'
  BY <1>1 DEF InFlight
<1>7. RunsAreSound'
  BY <1>1 DEF IInv, RunsAreSound, RecordsBackEveryEntry, StopsAreHonoured
<1>. QED
  BY <1>3, <1>4, <1>5, <1>6, <1>7 DEF IInv

LEMMA FileRunStep ==
  ASSUME IInv, FileRun
  PROVE  IInv'
<1>1. /\ req # Nothing /\ req.do = "run" /\ req.at = "file"
      /\ runs' = Put(runs, nextNo, [status |-> "running", images |-> <<>>])
      /\ nextNo' = nextNo + 1
      /\ req' = [req EXCEPT !.at = "launch"]
      /\ UNCHANGED <<play, images, issued, records, library, decisions, job, stop, worker, seen, owed>>
  BY DEF FileRun, At, GoTo
<1>2. req \in RunRequests /\ worker = Nothing /\ req.run = nextNo
  BY <1>1, Shapes DEF IInv, InFlight
<1>3. req' \in RunRequests /\ req'.do = "run" /\ req'.at = "launch" /\ req'.run = nextNo
  BY <1>1, <1>2 DEF RunRequests
<1>4. [status |-> "running", images |-> <<>>] \in RunStates
  BY EmptyMap DEF RunStates
<1>5. /\ runs' \in Maps(Nat, RunStates) /\ DOMAIN runs' = DOMAIN runs \cup {nextNo}
      /\ runs'[nextNo] = [status |-> "running", images |-> <<>>]
      /\ \A r \in DOMAIN runs : runs'[r] = runs[r]
  <2>1. nextNo \in Nat /\ runs \in Maps(Nat, RunStates) /\ nextNo \notin DOMAIN runs
    BY DEF IInv, Types, Numbered
  <2>2. PICK fresh \in RunStates :
          fresh = [status |-> "running", images |-> <<>>] /\ runs' = Put(runs, nextNo, fresh)
    BY <1>1, <1>4
  <2>3. runs' \in Maps(Nat, RunStates)
    BY <2>1, <2>2, PutMap
  <2>. QED
    BY <1>1, <2>1, <2>3 DEF Put
<1>6. Types'
  BY <1>1, <1>3, <1>5 DEF IInv, Types, Requests
<1>7. Numbered'
  <2>1. DOMAIN runs \subseteq Nat /\ owed \subseteq Nat
    BY MapFacts DEF IInv, Types
  <2>. QED
    BY <1>1, <1>5, <2>1 DEF IInv, Types, Numbered
<1>8. AtWork'
  BY <1>1, <1>2 DEF AtWork
<1>9. InFlight'
  <2>1. nextNo \notin owed
    BY DEF IInv, Types, Numbered
  <2>. QED
    BY <1>1, <1>2, <1>3, <1>5, <2>1 DEF InFlight
<1>10. RunsAreSound'
  <2>1. DOMAIN runs'[nextNo].images = {} /\ runs'[nextNo].status = "running"
    BY <1>5, EmptyMap
  <2>. QED
    BY <1>1, <1>5, <2>1 DEF IInv, RunsAreSound, RecordsBackEveryEntry, StopsAreHonoured
<1>. QED
  BY <1>6, <1>7, <1>8, <1>9, <1>10 DEF IInv

LEMMA LaunchRunStep ==
  ASSUME IInv, LaunchRun
  PROVE  IInv'
<1>1. /\ req # Nothing /\ req.do = "run" /\ req.at = "launch" /\ req' = Nothing
      /\ stop' = FALSE
      /\ job' = [state |-> "running", run |-> req.run, image |-> Nothing]
      /\ worker' = [run |-> req.run, todo |-> req.wanted, at |-> "setup",
                    image |-> Nothing, cut |-> FALSE]
      /\ UNCHANGED <<play, disk, seen, owed>>
  BY DEF LaunchRun, At, Answered
<1>2. /\ req \in RunRequests
      /\ req.run \in DOMAIN runs /\ runs[req.run].status = "running" /\ req.run \notin owed
  BY <1>1, Shapes DEF IInv, InFlight
<1>3. worker' \in Workers /\ job' \in JobStates
  BY <1>1, <1>2 DEF Workers, Going, Ending, RunRequests, JobStates
<1>. USE DEF disk, store
<1>4. Types'
  BY <1>1, <1>3 DEF IInv, Types
<1>5. Numbered'
  BY <1>1 DEF IInv, Numbered
<1>6. AtWork'
  BY <1>1, <1>2 DEF AtWork, Going, Reading, Ending
<1>7. InFlight'
  BY <1>1 DEF InFlight
<1>8. RunsAreSound'
  BY <1>1 DEF IInv, RunsAreSound, RecordsBackEveryEntry, StopsAreHonoured
<1>. QED
  BY <1>4, <1>5, <1>6, <1>7, <1>8 DEF IInv

LEMMA DropImageStep ==
  ASSUME IInv, DropImage
  PROVE  IInv'
<1>1. /\ req # Nothing /\ req.do = "delete image" /\ req.at = "drop"
      /\ images' = Without(images, {req.image})
      /\ runs' = [r \in DOMAIN runs |-> [runs[r] EXCEPT !.images = Without(@, {req.image})]]
      /\ req' = [req EXCEPT !.at = "unlink"]
      /\ UNCHANGED <<play, issued, nextNo, records, library, decisions, job, stop, worker, seen, owed>>
  BY DEF DropImage, At, GoTo
<1>2. req \in ImageDeletes
  BY <1>1, Shapes DEF IInv
<1>3. /\ req' \in ImageDeletes
      /\ req'.do = "delete image" /\ req'.at = "unlink" /\ req'.image = req.image
  BY <1>1, <1>2 DEF ImageDeletes
<1>4. /\ images' \in Maps(Images, ImageStates)
      /\ DOMAIN images' = DOMAIN images \ {req.image}
  BY <1>1, WithoutMap DEF IInv, Types, Without, Restrict
<1>5. /\ runs' \in Maps(Nat, RunStates) /\ DOMAIN runs' = DOMAIN runs
      /\ \A r \in DOMAIN runs :
            /\ runs'[r].status = runs[r].status
            /\ DOMAIN runs'[r].images = DOMAIN runs[r].images \ {req.image}
            /\ \A i \in DOMAIN runs'[r].images : runs'[r].images[i] = runs[r].images[i]
  <2>1. runs \in Maps(Nat, RunStates) /\ \A r \in DOMAIN runs : runs[r] \in RunStates
    BY MapFacts DEF IInv, Types
  <2>2. ASSUME NEW r \in DOMAIN runs
        PROVE  /\ runs'[r] \in RunStates /\ runs'[r].status = runs[r].status
               /\ DOMAIN runs'[r].images = DOMAIN runs[r].images \ {req.image}
               /\ \A i \in DOMAIN runs'[r].images : runs'[r].images[i] = runs[r].images[i]
    <3>1. runs[r] \in RunStates /\ runs'[r] = [runs[r] EXCEPT !.images = Without(@, {req.image})]
      BY <1>1, <2>1
    <3>2. Without(runs[r].images, {req.image}) \in Maps(Images, {"done", "stopped", "error"})
      BY <3>1, WithoutMap DEF RunStates
    <3>3. runs'[r].images = Without(runs[r].images, {req.image}) /\ runs'[r].status = runs[r].status
      BY <3>1 DEF RunStates
    <3>4. runs'[r] \in RunStates
      BY <3>1, <3>2 DEF RunStates
    <3>. QED
      BY <3>3, <3>4 DEF Without, Restrict
  <2>3. DOMAIN runs' = DOMAIN runs /\ runs' \in [DOMAIN runs -> RunStates]
    BY <1>1, <2>2
  <2>. QED
    BY <2>1, <2>2, <2>3, MapFacts
<1>6. Types'
  BY <1>1, <1>3, <1>4, <1>5 DEF IInv, Types, Requests
<1>7. Numbered'
  BY <1>1, <1>4, <1>5 DEF IInv, Numbered
<1>8. AtWork'
  <2>1. Rejected' = Rejected
    BY <1>1 DEF Rejected
  <2>2. worker # Nothing => worker.run \in DOMAIN runs
    BY DEF IInv, AtWork
  <2>3. worker # Nothing => runs'[worker.run].status = runs[worker.run].status
    BY <1>5, <2>2
  <2>4. DOMAIN images' \subseteq DOMAIN images /\ DOMAIN runs' = DOMAIN runs
    BY <1>4, <1>5
  <2>. QED
    BY <1>1, <2>1, <2>3, <2>4 DEF IInv, AtWork
<1>9. InFlight'
  BY <1>1, <1>3, <1>4, <1>5 DEF InFlight
<1>10. RunsAreSound'
  <2>1. RecordsBackEveryEntry'
    <3>1. ASSUME NEW r \in DOMAIN runs', NEW i \in DOMAIN runs'[r].images,
                 runs'[r].images[i] # "error"
          PROVE  <<r, i>> \in records'
      BY <1>1, <1>5, <3>1 DEF IInv, RunsAreSound, RecordsBackEveryEntry
    <3>. QED
      BY <3>1 DEF RecordsBackEveryEntry
  <2>2. StopsAreHonoured'
    BY <1>1, <1>5 DEF IInv, RunsAreSound, StopsAreHonoured
  <2>. QED
    BY <2>1, <2>2 DEF RunsAreSound
<1>. QED
  BY <1>6, <1>7, <1>8, <1>9, <1>10 DEF IInv

LEMMA UnlinkImageStep ==
  ASSUME IInv, UnlinkImage
  PROVE  IInv'
<1>1. /\ req # Nothing /\ req.do = "delete image" /\ req.at = "unlink" /\ req' = Nothing
      /\ records' = {f \in records : f[2] # req.image}
      /\ UNCHANGED <<play, store, library, decisions, job, stop, worker, seen, owed>>
  BY DEF UnlinkImage, At, Answered
<1>2. /\ req.image \notin DOMAIN images
      /\ \A r \in DOMAIN runs : req.image \notin DOMAIN runs[r].images
  BY <1>1 DEF IInv, InFlight
<1>. USE DEF store
<1>3. Types'
  BY <1>1 DEF IInv, Types
<1>4. Numbered'
  BY <1>1 DEF IInv, Numbered
<1>5. AtWork'
  BY <1>1, <1>2 DEF IInv, AtWork, Rejected
<1>6. InFlight'
  BY <1>1 DEF InFlight
<1>7. RunsAreSound'
  BY <1>1, <1>2 DEF IInv, RunsAreSound, RecordsBackEveryEntry, StopsAreHonoured
<1>. QED
  BY <1>3, <1>4, <1>5, <1>6, <1>7 DEF IInv

LEMMA DropRunStep ==
  ASSUME IInv, DropRun
  PROVE  IInv'
<1>1. /\ req # Nothing /\ req.do = "delete run" /\ req.at = "drop"
      /\ runs' = Without(runs, {req.run})
      /\ images' = [i \in DOMAIN images |->
                       [images[i] EXCEPT !.latest = IF @ = req.run THEN 0 ELSE @]]
      /\ req' = [req EXCEPT !.at = "unlink"]
      /\ UNCHANGED <<play, issued, nextNo, records, library, decisions, job, stop, worker, seen, owed>>
  BY DEF DropRun, At, GoTo
<1>2. req \in RunDeletes /\ (worker # Nothing => worker.run # req.run)
  BY <1>1, Shapes DEF IInv, InFlight
<1>3. /\ req' \in RunDeletes
      /\ req'.do = "delete run" /\ req'.at = "unlink" /\ req'.run = req.run
  BY <1>1, <1>2 DEF RunDeletes
<1>4. images' \in Maps(Images, ImageStates) /\ DOMAIN images' = DOMAIN images
  <2>1. images \in Maps(Images, ImageStates) /\ \A i \in DOMAIN images : images[i] \in ImageStates
    BY MapFacts DEF IInv, Types
  <2>2. \A i \in DOMAIN images : images'[i] \in ImageStates
    BY <1>1, <2>1 DEF ImageStates
  <2>3. DOMAIN images' = DOMAIN images /\ images' \in [DOMAIN images -> ImageStates]
    BY <1>1, <2>2
  <2>. QED
    BY <2>1, <2>3, MapFacts
<1>5. /\ runs' \in Maps(Nat, RunStates) /\ DOMAIN runs' = DOMAIN runs \ {req.run}
      /\ \A r \in DOMAIN runs' : runs'[r] = runs[r]
  BY <1>1, WithoutMap DEF IInv, Types, Without, Restrict
<1>6. Types'
  BY <1>1, <1>3, <1>4, <1>5 DEF IInv, Types, Requests
<1>7. Numbered'
  BY <1>1, <1>4, <1>5 DEF IInv, Numbered
<1>8. AtWork'
  BY <1>1, <1>2, <1>4, <1>5 DEF IInv, AtWork, Rejected
<1>9. InFlight'
  BY <1>1, <1>2, <1>3, <1>4, <1>5 DEF InFlight
<1>10. RunsAreSound'
  BY <1>1, <1>5 DEF IInv, RunsAreSound, RecordsBackEveryEntry, StopsAreHonoured
<1>. QED
  BY <1>6, <1>7, <1>8, <1>9, <1>10 DEF IInv

LEMMA UnlinkRunStep ==
  ASSUME IInv, UnlinkRun
  PROVE  IInv'
<1>1. /\ req # Nothing /\ req.do = "delete run" /\ req.at = "unlink" /\ req' = Nothing
      /\ records' = {f \in records : f[1] # req.run}
      /\ UNCHANGED <<play, store, library, decisions, job, stop, worker, seen, owed>>
  BY DEF UnlinkRun, At, Answered
<1>2. req.run \notin DOMAIN runs
  BY <1>1 DEF IInv, InFlight
<1>. USE DEF store
<1>3. Types'
  BY <1>1 DEF IInv, Types
<1>4. Numbered'
  BY <1>1 DEF IInv, Numbered
<1>5. AtWork'
  BY <1>1, <1>2 DEF IInv, AtWork, Rejected
<1>6. InFlight'
  BY <1>1 DEF InFlight
<1>7. RunsAreSound'
  BY <1>1, <1>2 DEF IInv, RunsAreSound, RecordsBackEveryEntry, StopsAreHonoured
<1>. QED
  BY <1>3, <1>4, <1>5, <1>6, <1>7 DEF IInv

\* A review turns to the library, step by step.
LEMMA LibraryStep ==
  ASSUME IInv, RemoveBook \/ AddBook
  PROVE  IInv'
<1>1. /\ req # Nothing /\ req.do = "review"
      /\ req' = [req EXCEPT !.at = "add"] \/ req' = [req EXCEPT !.at = "record"]
      /\ UNCHANGED <<play, store, records, decisions, job, stop, worker, seen, owed>>
  BY DEF RemoveBook, AddBook, At, GoTo
<1>2. req \in Reviews /\ req' \in Reviews /\ req'.do = "review"
  BY <1>1, Shapes DEF IInv, Reviews
<1>. USE DEF store
<1>3. Types'
  BY <1>1, <1>2 DEF IInv, Types, Requests
<1>4. Numbered'
  BY <1>1 DEF IInv, Numbered
<1>5. AtWork'
  BY <1>1 DEF IInv, AtWork, Rejected
<1>6. InFlight'
  BY <1>1, <1>2 DEF IInv, InFlight
<1>7. RunsAreSound'
  BY <1>1 DEF IInv, RunsAreSound, RecordsBackEveryEntry, StopsAreHonoured
<1>. QED
  BY <1>3, <1>4, <1>5, <1>6, <1>7 DEF IInv

LEMMA RecordDecisionStep ==
  ASSUME IInv, RecordDecision
  PROVE  IInv'
<1>1. /\ req # Nothing /\ req.do = "review" /\ req' = Nothing
      /\ decisions' = Put(decisions, req.file, req.decision)
      /\ UNCHANGED <<play, store, records, library, job, stop, worker, seen, owed>>
  BY DEF RecordDecision, At, Answered
<1>2. decisions' \in Maps(Nat \X Images, Decisions)
  <2>1. req.file \in Nat \X Images /\ req.decision \in Decisions
    BY <1>1, Shapes DEF IInv, Reviews
  <2>. QED
    BY <1>1, <2>1, PutMap DEF IInv, Types
<1>3. play.careful => worker = Nothing
  BY <1>1 DEF IInv, InFlight
<1>. USE DEF store
<1>4. Types'
  BY <1>1, <1>2 DEF IInv, Types
<1>5. Numbered'
  BY <1>1 DEF IInv, Numbered
<1>6. AtWork'
  BY <1>1, <1>3 DEF IInv, AtWork
<1>7. InFlight'
  BY <1>1 DEF InFlight
<1>8. RunsAreSound'
  BY <1>1 DEF IInv, RunsAreSound, RecordsBackEveryEntry, StopsAreHonoured
<1>. QED
  BY <1>4, <1>5, <1>6, <1>7, <1>8 DEF IInv

-----------------------------------------------------------------------------
(* The worker *)

LEMMA WorkerFacts ==
  ASSUME IInv, worker # Nothing
  PROVE  /\ worker \in Workers
         /\ worker.run \in DOMAIN runs /\ runs[worker.run] \in RunStates
         /\ job \in JobStates /\ job.state = "running" /\ job.run = worker.run
         /\ req # Nothing => req.do # "run"
         /\ req # Nothing /\ req.do = "review" => ~play.careful
<1>1. worker \in Workers /\ worker.run \in DOMAIN runs
  BY DEF IInv, Types, AtWork
<1>2. runs[worker.run] \in RunStates
  BY <1>1, MapFacts DEF IInv, Types
<1>. QED
  BY <1>1, <1>2 DEF IInv, Types, AtWork, InFlight

\* A step of the worker that leaves the store alone: what it may add to the
\* results harms nobody.
LEMMA StoreKept ==
  ASSUME IInv, worker # Nothing, UNCHANGED <<play, req, owed, store, decisions>>,
         worker' = Nothing \/ (worker' \in Workers /\ worker'.run = worker.run),
         job' \in JobStates, stop' \in BOOLEAN,
         records \subseteq records', records' \subseteq Nat \X Images
  PROVE  Types' /\ Numbered' /\ InFlight' /\ RunsAreSound' /\ Rejected' = Rejected
<1>. USE DEF store
<1>1. Types'
  BY DEF IInv, Types
<1>2. Numbered'
  BY DEF IInv, Numbered
<1>3. InFlight'
  BY DEF IInv, InFlight
<1>4. RunsAreSound'
  BY DEF IInv, RunsAreSound, RecordsBackEveryEntry, StopsAreHonoured
<1>5. Rejected' = Rejected
  BY DEF Rejected
<1>. QED
  BY <1>1, <1>2, <1>3, <1>4, <1>5

\* A step of the worker that says how its run stands.
LEMMA RunEntered ==
  ASSUME IInv, worker # Nothing,
         NEW status \in {"completed", "stopped", "error"},
         runs' = [runs EXCEPT ![worker.run].status = status],
         status = "completed" => worker.run \notin owed,
         UNCHANGED <<play, req, owed, images, issued, nextNo, records, decisions, stop>>,
         worker' \in Workers, worker'.run = worker.run, job' \in JobStates
  PROVE  /\ Types' /\ Numbered' /\ InFlight' /\ RunsAreSound' /\ Rejected' = Rejected
         /\ DOMAIN runs' = DOMAIN runs /\ runs'[worker.run].status = status
<1>1. worker.run \in DOMAIN runs /\ runs[worker.run] \in RunStates
  BY WorkerFacts
<1>2. /\ runs' \in Maps(Nat, RunStates) /\ DOMAIN runs' = DOMAIN runs
      /\ \A r \in DOMAIN runs : runs'[r].images = runs[r].images
      /\ runs'[worker.run].status = status
      /\ \A r \in DOMAIN runs \ {worker.run} : runs'[r].status = runs[r].status
  <2>1. [runs[worker.run] EXCEPT !.status = status] \in RunStates
    BY <1>1 DEF RunStates
  <2>2. runs \in Maps(Nat, RunStates) /\ runs \in [DOMAIN runs -> RunStates]
    BY MapFacts DEF IInv, Types
  <2>3. runs' \in [DOMAIN runs -> RunStates]
    BY <2>1, <2>2
  <2>4. runs' \in Maps(Nat, RunStates)
    <3>1. \A g \in [DOMAIN runs -> RunStates] : g \in Maps(Nat, RunStates)
      BY <2>2, MapFacts
    <3>. QED
      BY <2>3, <3>1
  <2>5. /\ runs'[worker.run] = [runs[worker.run] EXCEPT !.status = status]
        /\ \A r \in DOMAIN runs \ {worker.run} : runs'[r] = runs[r]
    BY <1>1, <2>2
  <2>6. runs'[worker.run].status = status /\ runs'[worker.run].images = runs[worker.run].images
    BY <1>1, <2>5 DEF RunStates
  <2>. QED
    BY <2>3, <2>4, <2>5, <2>6
<1>3. Types'
  BY <1>2 DEF IInv, Types
<1>4. Numbered'
  BY <1>2 DEF IInv, Numbered
<1>5. InFlight'
  BY <1>2, WorkerFacts DEF IInv, InFlight
<1>6. RunsAreSound'
  BY <1>2 DEF IInv, RunsAreSound, RecordsBackEveryEntry, StopsAreHonoured
<1>7. Rejected' = Rejected
  BY DEF Rejected
<1>. QED
  BY <1>2, <1>3, <1>4, <1>5, <1>6, <1>7

LEMMA SetUpStep ==
  ASSUME IInv, SetUp
  PROVE  IInv'
<1>1. worker # Nothing /\ worker.at = "setup" /\ UNCHANGED <<play, req, owed>>
  BY DEF SetUp, Working, Alone
<1>2. CASE worker' = [worker EXCEPT !.at = "take"] /\ UNCHANGED <<disk, job, stop, seen>>
  <2>1. /\ worker' \in Workers /\ worker'.at = "take"
        /\ worker'.run = worker.run /\ worker'.todo = worker.todo
    BY <1>1, <1>2, WorkerFacts DEF Workers, Going
  <2>2. AtWork'
    BY <1>1, <1>2, <2>1 DEF IInv, AtWork, Going, Ending, Reading, disk, store
  <2>. QED
    BY <1>1, <1>2, <2>1, <2>2, WorkerFacts, StoreKept DEF IInv, Types, disk, store
<1>3. CASE /\ runs' = [runs EXCEPT ![worker.run].status = "error"]
           /\ worker' = [worker EXCEPT !.at = "idle"]
           /\ UNCHANGED <<images, issued, nextNo, records, library, decisions, job, stop, seen>>
  <2>1. worker' \in Workers /\ worker'.at = "idle" /\ worker'.run = worker.run
    BY <1>1, <1>3, WorkerFacts DEF Workers, Ending
  <2>2. /\ Types' /\ Numbered' /\ InFlight' /\ RunsAreSound'
        /\ DOMAIN runs' = DOMAIN runs /\ runs'[worker.run].status = "error"
    BY <1>1, <1>3, <2>1, WorkerFacts, RunEntered
  <2>3. AtWork'
    BY <1>1, <1>3, <2>1, <2>2 DEF IInv, AtWork, Going, Ending, Reading
  <2>. QED
    BY <2>2, <2>3 DEF IInv
<1>. QED
  BY <1>1, <1>2, <1>3 DEF SetUp, Step

LEMMA TakeStep ==
  ASSUME IInv, Take
  PROVE  IInv'
<1>1. /\ worker # Nothing /\ worker.at = "take"
      /\ UNCHANGED <<play, req, owed, disk, stop, seen>>
  BY DEF Take, Working, Alone
<1>. USE DEF disk, store
<1>2. CASE /\ worker.todo = <<>> \/ stop
           /\ worker' = [worker EXCEPT !.at = "last", !.cut = worker.todo # <<>>]
           /\ UNCHANGED job
  <2>1. /\ worker' \in Workers /\ worker'.at = "last"
        /\ worker.todo # <<>> => worker'.cut
        /\ worker'.run = worker.run /\ worker'.todo = worker.todo
    BY <1>1, <1>2, WorkerFacts DEF Workers
  <2>2. /\ runs[worker.run].status # "completed"
        /\ worker.run \in owed => worker.todo # <<>>
    BY <1>1 DEF IInv, AtWork, Going, Ending, Reading
  <2>3. worker'.at \notin Going \cup Ending /\ worker'.at \notin Reading
    BY <2>1 DEF Going, Ending, Reading
  <2>4. job'.state = "running" /\ job'.run = worker'.run /\ worker'.run \in DOMAIN runs'
    BY <1>1, <1>2, <2>1, WorkerFacts
  <2>5. AtWork'
    BY <1>1, <2>1, <2>2, <2>3, <2>4 DEF AtWork, Reading, Going
  <2>6. job' \in JobStates /\ stop' \in BOOLEAN /\ records' \subseteq Nat \X Images
    BY <1>1, <1>2 DEF IInv, Types
  <2>7. /\ Types' /\ Numbered' /\ InFlight' /\ RunsAreSound'
    BY <1>1, <2>1, <2>6, StoreKept
  <2>. QED
    BY <2>5, <2>7 DEF IInv
<1>3. CASE /\ worker.todo # <<>> /\ ~stop
           /\ worker' = [worker EXCEPT !.todo = Tail(@)] /\ UNCHANGED job
  <2>1. /\ worker' \in Workers /\ worker'.at = "take" /\ worker'.run = worker.run
    <3>1. Tail(worker.todo) \in Seq(Images)
      BY <1>1, <1>3, WorkerFacts DEF Workers
    <3>. QED
      BY <1>1, <1>3, <3>1, WorkerFacts DEF Workers
  <2>2. AtWork'
    BY <1>1, <1>3, <2>1 DEF IInv, AtWork, Going, Ending, Reading
  <2>. QED
    BY <1>1, <1>3, <2>1, <2>2, WorkerFacts, StoreKept DEF IInv, Types
<1>4. CASE /\ worker.todo # <<>> /\ ~stop /\ Head(worker.todo) \in DOMAIN images
           /\ worker' = [[worker EXCEPT !.todo = Tail(@)]
                            EXCEPT !.image = Head(worker.todo), !.at = "mark"]
           /\ job' = [job EXCEPT !.image = Head(worker.todo)]
  <2>1. Head(worker.todo) \in Images \cap issued
    BY <1>1, <1>4, WorkerFacts DEF Workers, IInv, Numbered
  <2>2. /\ worker' \in Workers /\ worker'.at = "mark" /\ worker'.run = worker.run
        /\ worker'.image = Head(worker.todo)
    <3>1. PICK next \in Images : next = Head(worker.todo)
      BY <2>1
    <3>2. PICK left \in Workers : left = [worker EXCEPT !.todo = Tail(@)] /\ left.run = worker.run
      <4>1. Tail(worker.todo) \in Seq(Images)
        BY <1>1, <1>4, WorkerFacts DEF Workers
      <4>2. /\ [worker EXCEPT !.todo = Tail(@)] \in Workers
            /\ [worker EXCEPT !.todo = Tail(@)].run = worker.run
        BY <1>1, <4>1, WorkerFacts DEF Workers
      <4>. QED
        BY <4>2
    <3>3. worker' = [left EXCEPT !.image = next, !.at = "mark"]
      BY <1>4, <3>1, <3>2
    <3>. QED
      BY <3>1, <3>2, <3>3 DEF Workers, Going, Reading
  <2>3. job' \in JobStates /\ job'.state = job.state /\ job'.run = job.run
    BY <1>1, <1>4, <2>1, WorkerFacts DEF JobStates
  <2>4. AtWork'
    BY <1>1, <1>4, <2>1, <2>2, <2>3 DEF IInv, AtWork, Going, Ending, Reading
  <2>. QED
    BY <1>1, <2>2, <2>3, <2>4, StoreKept DEF IInv, Types
<1>. QED
  BY <1>1, <1>2, <1>3, <1>4 DEF Take

LEMMA MarkStep ==
  ASSUME IInv, Mark
  PROVE  IInv'
<1>1. /\ worker # Nothing /\ worker.at = "mark" /\ worker.image \in Images \cap issued
      /\ UNCHANGED <<play, req, owed, issued, runs, nextNo, records, library, decisions, job, stop, seen>>
  BY DEF Mark, Working, Alone, IInv, AtWork, Reading
<1>2. CASE worker.image \notin DOMAIN images /\ worker' = Nothing /\ UNCHANGED images
  <2>1. AtWork'
    BY <1>2 DEF AtWork
  <2>. QED
    BY <1>1, <1>2, <2>1, WorkerFacts, StoreKept DEF IInv, Types, store
<1>3. CASE /\ worker.image \in DOMAIN images
           /\ worker' = [worker EXCEPT !.at = "read"]
           /\ images' = [images EXCEPT ![worker.image].status = "running"]
  <2>1. /\ worker' \in Workers /\ worker'.at = "read" /\ worker'.run = worker.run
        /\ worker'.image = worker.image /\ worker'.todo = worker.todo
    BY <1>1, <1>3, WorkerFacts DEF Workers, Going, Reading
  <2>2. images' \in Maps(Images, ImageStates) /\ DOMAIN images' = DOMAIN images
    <3>1. images \in [DOMAIN images -> ImageStates]
      BY MapFacts DEF IInv, Types
    <3>2. [images[worker.image] EXCEPT !.status = "running"] \in ImageStates
      BY <1>3, <3>1 DEF ImageStates
    <3>3. images' \in [DOMAIN images -> ImageStates]
      BY <1>3, <3>1, <3>2
    <3>4. \A g \in [DOMAIN images -> ImageStates] : g \in Maps(Images, ImageStates)
      BY MapFacts DEF IInv, Types
    <3>. QED
      BY <3>3, <3>4
  <2>3. Types'
    BY <1>1, <2>1, <2>2 DEF IInv, Types
  <2>4. Numbered'
    BY <1>1, <2>2 DEF IInv, Numbered
  <2>5. AtWork'
    BY <1>1, <2>1, <2>2 DEF IInv, AtWork, Going, Reading, Ending
  <2>6. InFlight'
    BY <1>1, <2>1, <2>2, WorkerFacts DEF IInv, InFlight
  <2>7. RunsAreSound'
    BY <1>1 DEF IInv, RunsAreSound, RecordsBackEveryEntry, StopsAreHonoured
  <2>. QED
    BY <2>3, <2>4, <2>5, <2>6, <2>7 DEF IInv
<1>. QED
  BY <1>2, <1>3 DEF Mark, Step, Dies

\* How an image went is entered in both, or the worker dies.
LEMMA EntryKeeps ==
  ASSUME IInv, worker # Nothing, worker.at \in Reading,
         NEW status \in {"done", "stopped", "error"},
         status # "error" => (worker.image \in DOMAIN images => <<worker.run, worker.image>> \in records),
         NEW image, worker.image \in DOMAIN images => image \in ImageStates,
         NEW then \in Workers, then.run = worker.run,
         Entry(status, image, then),
         UNCHANGED <<play, req, owed, issued, nextNo, records, decisions, job, stop>>
  PROVE  /\ Types' /\ Numbered' /\ InFlight' /\ RunsAreSound' /\ Rejected' = Rejected
         /\ worker' = Nothing \/ worker' = then
         /\ DOMAIN runs' = DOMAIN runs
         /\ \A r \in DOMAIN runs : runs'[r].status = runs[r].status
<1>1. /\ worker.run \in DOMAIN runs /\ runs[worker.run] \in RunStates /\ worker \in Workers
      /\ worker.image \in Images
  BY WorkerFacts DEF IInv, AtWork
<1>2. CASE ~(worker.image \in DOMAIN images /\ worker.run \in DOMAIN runs)
  <2>1. worker' = Nothing /\ UNCHANGED <<images, runs>>
    BY <1>2 DEF Entry, Dies
  <2>2. job' \in JobStates /\ stop' \in BOOLEAN /\ records' \subseteq Nat \X Images
    BY DEF IInv, Types
  <2>3. UNCHANGED <<play, req, owed, store, decisions>>
    BY <2>1 DEF store
  <2>4. Types' /\ Numbered' /\ InFlight' /\ RunsAreSound' /\ Rejected' = Rejected
    BY <2>1, <2>2, <2>3, StoreKept
  <2>. QED
    BY <2>1, <2>4
<1>3. CASE worker.image \in DOMAIN images /\ worker.run \in DOMAIN runs
  <2>1. /\ runs' = [runs EXCEPT ![worker.run].images = Put(@, worker.image, status)]
        /\ images' = [images EXCEPT ![worker.image] = image]
        /\ worker' = then
    BY <1>3 DEF Entry
  <2>2. images' \in Maps(Images, ImageStates) /\ DOMAIN images' = DOMAIN images
    <3>1. images \in [DOMAIN images -> ImageStates]
      BY MapFacts DEF IInv, Types
    <3>2. images' \in [DOMAIN images -> ImageStates]
      BY <1>3, <2>1, <3>1
    <3>3. \A g \in [DOMAIN images -> ImageStates] : g \in Maps(Images, ImageStates)
      BY MapFacts DEF IInv, Types
    <3>. QED
      BY <3>2, <3>3
  <2>3. PICK entries \in Maps(Images, {"done", "stopped", "error"}) :
          entries = Put(runs[worker.run].images, worker.image, status)
    BY <1>1, PutMap DEF RunStates
  <2>4. /\ DOMAIN entries = DOMAIN runs[worker.run].images \cup {worker.image}
        /\ entries[worker.image] = status
        /\ \A i \in DOMAIN entries \ {worker.image} : entries[i] = runs[worker.run].images[i]
    BY <2>3 DEF Put
  <2>5. /\ runs' \in Maps(Nat, RunStates) /\ DOMAIN runs' = DOMAIN runs
        /\ runs'[worker.run].images = entries
        /\ \A r \in DOMAIN runs : runs'[r].status = runs[r].status
        /\ \A r \in DOMAIN runs \ {worker.run} : runs'[r].images = runs[r].images
    <3>1. runs \in [DOMAIN runs -> RunStates]
      BY MapFacts DEF IInv, Types
    <3>2. [runs[worker.run] EXCEPT !.images = entries] \in RunStates
      BY <1>1, <2>3 DEF RunStates
    <3>3. runs' = [runs EXCEPT ![worker.run] = [runs[worker.run] EXCEPT !.images = entries]]
      BY <2>1, <2>3
    <3>4. runs' \in [DOMAIN runs -> RunStates]
      BY <3>1, <3>2, <3>3
    <3>5. \A g \in [DOMAIN runs -> RunStates] : g \in Maps(Nat, RunStates)
      BY MapFacts DEF IInv, Types
    <3>6. /\ runs'[worker.run] = [runs[worker.run] EXCEPT !.images = entries]
          /\ \A r \in DOMAIN runs \ {worker.run} : runs'[r] = runs[r]
      BY <1>1, <3>1, <3>3
    <3>7. runs'[worker.run].images = entries /\ runs'[worker.run].status = runs[worker.run].status
      BY <1>1, <3>6 DEF RunStates
    <3>. QED
      BY <3>4, <3>5, <3>6, <3>7
  <2>6. Types'
    BY <2>1, <2>2, <2>5 DEF IInv, Types
  <2>7. Numbered'
    BY <2>2, <2>5 DEF IInv, Numbered
  <2>8. InFlight'
    <3>1. req # Nothing => req.do # "run" /\ (req.do = "review" => ~play.careful)
      BY WorkerFacts
    <3>2. ASSUME req # Nothing, req.do = "delete image", req.at = "unlink", NEW r \in DOMAIN runs
          PROVE  req.image \notin DOMAIN runs'[r].images
      BY <1>3, <2>4, <2>5, <3>2 DEF IInv, InFlight
    <3>. QED
      BY <2>1, <2>2, <2>5, <3>1, <3>2 DEF IInv, InFlight
  <2>9. RecordsBackEveryEntry'
    <3>1. ASSUME NEW r \in DOMAIN runs', NEW i \in DOMAIN runs'[r].images,
                 runs'[r].images[i] # "error"
          PROVE  <<r, i>> \in records'
      BY <1>3, <2>4, <2>5, <3>1 DEF IInv, RunsAreSound, RecordsBackEveryEntry
    <3>. QED
      BY <3>1 DEF RecordsBackEveryEntry
  <2>10. StopsAreHonoured'
    BY <2>5 DEF IInv, RunsAreSound, StopsAreHonoured
  <2>11. Rejected' = Rejected
    BY DEF Rejected
  <2>. QED
    BY <2>1, <2>5, <2>6, <2>7, <2>8, <2>9, <2>10, <2>11 DEF RunsAreSound
<1>. QED
  BY <1>2, <1>3

LEMMA ReadImageStep ==
  ASSUME IInv, ReadImage
  PROVE  IInv'
<1>1. /\ worker # Nothing /\ worker.at = "read" /\ worker.image \in Images \cap issued
      /\ UNCHANGED <<play, req, owed, library, decisions, job, stop, seen>>
  BY DEF ReadImage, Working, Alone, IInv, AtWork, Reading
<1>2. CASE /\ records' = records \cup {<<worker.run, worker.image>>}
           /\ worker' = [worker EXCEPT !.at = "look"]
           /\ UNCHANGED store
  <2>1. /\ worker' \in Workers /\ worker'.at = "look" /\ worker'.run = worker.run
        /\ worker'.image = worker.image /\ worker'.todo = worker.todo
    BY <1>1, <1>2, WorkerFacts DEF Workers, Going, Reading
  <2>2. records \subseteq records' /\ records' \subseteq Nat \X Images
    BY <1>1, <1>2, WorkerFacts DEF IInv, Types, Workers
  <2>3. AtWork'
    BY <1>1, <1>2, <2>1 DEF IInv, AtWork, Going, Reading, Ending, store
  <2>. QED
    BY <1>1, <1>2, <2>1, <2>2, <2>3, WorkerFacts, StoreKept DEF IInv, Types
<1>3. CASE /\ Entry("error", [images[worker.image] EXCEPT !.status = "error"],
                    [worker EXCEPT !.at = "take"])
           /\ UNCHANGED <<issued, records, nextNo>>
  <2>1. PICK then \in Workers : then = [worker EXCEPT !.at = "take"]
    BY <1>1, WorkerFacts DEF Workers, Going
  <2>2. then.at = "take" /\ then.run = worker.run /\ then.todo = worker.todo
    BY <2>1, WorkerFacts, <1>1 DEF Workers
  <2>3. worker.image \in DOMAIN images
          => [images[worker.image] EXCEPT !.status = "error"] \in ImageStates
    <3>1. images \in [DOMAIN images -> ImageStates]
      BY MapFacts DEF IInv, Types
    <3>. QED
      BY <3>1 DEF ImageStates
  <2>4. worker.at \in Reading
    BY <1>1 DEF Reading
  <2>5. /\ Types' /\ Numbered' /\ InFlight' /\ RunsAreSound' /\ Rejected' = Rejected
        /\ worker' = Nothing \/ worker' = then
        /\ DOMAIN runs' = DOMAIN runs
        /\ \A r \in DOMAIN runs : runs'[r].status = runs[r].status
    BY <1>1, <1>3, <2>1, <2>2, <2>3, <2>4, EntryKeeps
  <2>6. AtWork'
    BY <1>1, <2>2, <2>5, WorkerFacts DEF IInv, AtWork, Going, Reading, Ending
  <2>. QED
    BY <2>5, <2>6 DEF IInv
<1>. QED
  BY <1>1, <1>2, <1>3 DEF ReadImage, Step

LEMMA LookUpStep ==
  ASSUME IInv, LookUp
  PROVE  IInv'
<1>1. /\ worker # Nothing /\ worker.at = "look"
      /\ seen' = Rejected /\ worker' = [worker EXCEPT !.at = "absorb"]
      /\ UNCHANGED <<play, req, owed, disk, job, stop>>
  BY DEF LookUp, Working, Alone, Step
<1>2. /\ worker' \in Workers /\ worker'.at = "absorb" /\ worker'.run = worker.run
      /\ worker'.image = worker.image /\ worker'.todo = worker.todo
  BY <1>1, WorkerFacts DEF Workers, Going, Reading
<1>3. /\ Types' /\ Numbered' /\ InFlight' /\ RunsAreSound' /\ Rejected' = Rejected
  BY <1>1, <1>2, WorkerFacts, StoreKept DEF IInv, Types, disk, store
<1>4. AtWork'
  BY <1>1, <1>2, <1>3 DEF IInv, AtWork, Going, Reading, Ending, disk, store
<1>. QED
  BY <1>3, <1>4 DEF IInv

LEMMA AbsorbStep ==
  ASSUME IInv, Absorb
  PROVE  IInv'
<1>1. /\ worker # Nothing /\ worker.at = "absorb"
      /\ worker' = [worker EXCEPT !.at = "settle"]
      /\ UNCHANGED <<play, req, owed, store, records, decisions, job, stop, seen>>
  BY DEF Absorb, Working, Alone, Step
<1>2. /\ worker' \in Workers /\ worker'.at = "settle" /\ worker'.run = worker.run
      /\ worker'.image = worker.image /\ worker'.todo = worker.todo
  BY <1>1, WorkerFacts DEF Workers, Going, Reading
<1>3. /\ Types' /\ Numbered' /\ InFlight' /\ RunsAreSound' /\ Rejected' = Rejected
  BY <1>1, <1>2, WorkerFacts, StoreKept DEF IInv, Types
<1>4. AtWork'
  BY <1>1, <1>2 DEF IInv, AtWork, Going, Reading, Ending, store
<1>. QED
  BY <1>3, <1>4 DEF IInv

LEMMA SettleImageStep ==
  ASSUME IInv, SettleImage
  PROVE  IInv'
<1>. DEFINE status == IF stop THEN "stopped" ELSE "done"
            image  == [status |-> status, summary |-> TRUE, latest |-> worker.run]
            then   == [worker EXCEPT !.at = IF stop THEN "last" ELSE "take", !.cut = stop]
<1>1. /\ worker # Nothing /\ worker.at = "settle" /\ Entry(status, image, then)
      /\ UNCHANGED <<play, req, owed, issued, nextNo, records, library, decisions, job, stop, seen>>
  BY DEF SettleImage, Working, Alone
<1>2. status \in {"done", "stopped", "error"} /\ image \in ImageStates
  BY <1>1, WorkerFacts DEF ImageStates, Workers
<1>3. /\ then \in Workers /\ then.run = worker.run /\ then.todo = worker.todo
      /\ IF stop THEN then.at = "last" /\ then.cut ELSE then.at = "take"
  <2>1. CASE stop = TRUE
    BY <1>1, <2>1, WorkerFacts DEF Workers, Going
  <2>2. CASE stop = FALSE
    BY <1>1, <2>2, WorkerFacts DEF Workers, Going
  <2>. QED
    BY <2>1, <2>2 DEF IInv, Types
<1>4. /\ worker.at \in Reading
      /\ worker.image \in DOMAIN images => <<worker.run, worker.image>> \in records
  BY <1>1 DEF IInv, AtWork, Reading
<1>5. /\ Types' /\ Numbered' /\ InFlight' /\ RunsAreSound' /\ Rejected' = Rejected
      /\ worker' = Nothing \/ worker' = then
      /\ DOMAIN runs' = DOMAIN runs
      /\ \A r \in DOMAIN runs : runs'[r].status = runs[r].status
  <2>. HIDE DEF status, image, then
  <2>. QED
    BY <1>1, <1>2, <1>3, <1>4, EntryKeeps
<1>6. AtWork'
  <2>1. /\ runs[worker.run].status # "completed" /\ worker.run \in DOMAIN runs
        /\ worker.run \in owed => stop /\ worker.todo # <<>>
    BY <1>1 DEF IInv, AtWork, Going, Ending, Reading
  <2>. HIDE DEF status, image, then
  <2>. QED
    BY <1>1, <1>3, <1>5, <2>1, WorkerFacts DEF AtWork, Going, Reading, Ending
<1>. QED
  BY <1>5, <1>6 DEF IInv

LEMMA SettleRunStep ==
  ASSUME IInv, SettleRun
  PROVE  IInv'
<1>1. /\ worker # Nothing /\ worker.at = "last" /\ worker.run \in DOMAIN runs
      /\ (worker.todo # <<>> \/ worker.run \in owed) => worker.cut
      /\ UNCHANGED <<play, req, owed, images, issued, nextNo, records, library, decisions, job, stop, seen>>
  BY DEF SettleRun, Working, Alone, IInv, AtWork
<1>2. PICK status \in {"completed", "stopped", "error"} :
        /\ runs' = [runs EXCEPT ![worker.run].status = status]
        /\ status = "completed" => ~worker.cut
  BY <1>1 DEF SettleRun
<1>3. worker' = [worker EXCEPT !.at = "clear"]
  BY <1>1 DEF SettleRun, Step
<1>4. /\ worker' \in Workers /\ worker'.at = "clear" /\ worker'.run = worker.run
      /\ worker'.todo = worker.todo
  BY <1>1, <1>3, WorkerFacts DEF Workers, Ending
<1>5. /\ Types' /\ Numbered' /\ InFlight' /\ RunsAreSound'
      /\ DOMAIN runs' = DOMAIN runs /\ runs'[worker.run].status = status
  BY <1>1, <1>2, <1>4, WorkerFacts, RunEntered
<1>6. AtWork'
  BY <1>1, <1>2, <1>4, <1>5, WorkerFacts DEF AtWork, Going, Ending, Reading
<1>. QED
  BY <1>5, <1>6 DEF IInv

LEMMA ClearStopStep ==
  ASSUME IInv, ClearStop
  PROVE  IInv'
<1>1. /\ worker # Nothing /\ worker.at = "clear" /\ stop' = FALSE
      /\ worker' = [worker EXCEPT !.at = "idle"]
      /\ UNCHANGED <<play, req, owed, disk, job, seen>>
  BY DEF ClearStop, Working, Alone, Step
<1>2. /\ worker' \in Workers /\ worker'.at = "idle" /\ worker'.run = worker.run
      /\ worker'.todo = worker.todo
  BY <1>1, WorkerFacts DEF Workers, Ending
<1>3. /\ Types' /\ Numbered' /\ InFlight' /\ RunsAreSound'
  BY <1>1, <1>2, WorkerFacts, StoreKept DEF IInv, Types, disk, store
<1>4. AtWork'
  BY <1>1, <1>2 DEF IInv, AtWork, Going, Reading, Ending, disk, store
<1>. QED
  BY <1>3, <1>4 DEF IInv

LEMMA GoIdleStep ==
  ASSUME IInv, GoIdle
  PROVE  IInv'
<1>1. /\ worker # Nothing /\ worker' = Nothing
      /\ job' = [Idle EXCEPT !.run = worker.run]
      /\ UNCHANGED <<play, req, owed, disk, stop>>
  BY DEF GoIdle, Working, Alone, Dies
<1>2. job' \in JobStates
  BY <1>1, WorkerFacts DEF Idle, JobStates, Workers
<1>3. /\ Types' /\ Numbered' /\ InFlight' /\ RunsAreSound'
  BY <1>1, <1>2, StoreKept DEF IInv, Types, disk, store
<1>4. AtWork'
  BY <1>1 DEF AtWork
<1>. QED
  BY <1>3, <1>4 DEF IInv

LEMMA RestartStep ==
  ASSUME IInv, Restart
  PROVE  IInv'
<1>1. /\ worker' = Nothing /\ req' = Nothing /\ job' = Idle /\ stop' = FALSE
      /\ runs' = [r \in DOMAIN runs |-> [runs[r] EXCEPT !.status = Repaired(@)]]
      /\ images' = [i \in DOMAIN images |->
                       [images[i] EXCEPT !.status = IF @ # "running" THEN @
                                                   ELSE IF images[i].summary THEN "stopped" ELSE "new"]]
      /\ UNCHANGED <<play, issued, nextNo, records, library, decisions, owed, seen>>
  BY DEF Restart
<1>2. images' \in Maps(Images, ImageStates) /\ DOMAIN images' = DOMAIN images
  <2>1. /\ \A i \in DOMAIN images : images[i] \in ImageStates
        /\ \A g \in [DOMAIN images -> ImageStates] : g \in Maps(Images, ImageStates)
    BY MapFacts DEF IInv, Types
  <2>2. \A i \in DOMAIN images : images'[i] \in ImageStates
    BY <1>1, <2>1 DEF ImageStates
  <2>3. DOMAIN images' = DOMAIN images /\ images' \in [DOMAIN images -> ImageStates]
    BY <1>1, <2>2
  <2>. QED
    BY <2>1, <2>3
<1>3. /\ runs' \in Maps(Nat, RunStates) /\ DOMAIN runs' = DOMAIN runs
      /\ \A r \in DOMAIN runs : runs'[r].images = runs[r].images
      /\ \A r \in DOMAIN runs : runs'[r].status = "completed" => runs[r].status = "completed"
  <2>1. /\ \A r \in DOMAIN runs : runs[r] \in RunStates
        /\ \A g \in [DOMAIN runs -> RunStates] : g \in Maps(Nat, RunStates)
    BY MapFacts DEF IInv, Types
  <2>2. ASSUME NEW r \in DOMAIN runs
        PROVE  /\ runs'[r] \in RunStates /\ runs'[r].images = runs[r].images
               /\ runs'[r].status = "completed" => runs[r].status = "completed"
    BY <1>1, <2>1 DEF RunStates, Repaired
  <2>3. DOMAIN runs' = DOMAIN runs /\ runs' \in [DOMAIN runs -> RunStates]
    BY <1>1, <2>2
  <2>. QED
    BY <2>1, <2>2, <2>3
<1>4. Types'
  BY <1>1, <1>2, <1>3 DEF IInv, Types, Idle, JobStates
<1>5. Numbered'
  BY <1>1, <1>2, <1>3 DEF IInv, Numbered
<1>6. AtWork' /\ InFlight'
  BY <1>1 DEF AtWork, InFlight
<1>7. RunsAreSound'
  BY <1>1, <1>3 DEF IInv, RunsAreSound, RecordsBackEveryEntry, StopsAreHonoured
<1>. QED
  BY <1>4, <1>5, <1>6, <1>7 DEF IInv

-----------------------------------------------------------------------------
(* The invariant *)

LEMMA Start ==
  ASSUME Init
  PROVE  IInv
<1>1. play.images \subseteq Images
  BY TuningAssumption DEF Init
<1>2. images \in Maps(Images, ImageStates) /\ DOMAIN images = issued
  <2>1. images \in [play.images -> ImageStates] /\ issued = play.images
    BY DEF Init, ImageStates
  <2>. QED
    BY <1>1, <2>1 DEF Maps
<1>3. /\ runs \in Maps(Nat, RunStates) /\ DOMAIN runs = {}
      /\ decisions \in Maps(Nat \X Images, Decisions)
  BY EmptyMap DEF Init
<1>4. Types
  BY <1>2, <1>3 DEF Init, Types, Idle, JobStates
<1>5. Numbered /\ AtWork /\ InFlight
  BY <1>2, <1>3 DEF Init, Numbered, AtWork, InFlight
<1>6. RunsAreSound
  BY <1>3 DEF Init, RunsAreSound, RecordsBackEveryEntry, StopsAreHonoured
<1>. QED
  BY <1>4, <1>5, <1>6 DEF IInv

LEMMA StepKeepsIInv ==
  ASSUME IInv, [Next]_vars
  PROVE  IInv'
<1>1. CASE Handle
  BY <1>1, FileRunStep, LaunchRunStep, DropImageStep, UnlinkImageStep, DropRunStep,
     UnlinkRunStep, LibraryStep, RecordDecisionStep DEF Handle
<1>2. CASE Owner
  BY <1>2, UploadStep, StartRunStep, StopRunStep, DeleteImageStep, DeleteRunStep,
     ReviewStep, ClearDecisionStep DEF Owner
<1>3. CASE Work
  BY <1>3, SetUpStep, TakeStep, MarkStep, ReadImageStep, LookUpStep, AbsorbStep,
     SettleImageStep, SettleRunStep, ClearStopStep, GoIdleStep DEF Work
<1>4. CASE Restart
  BY <1>4, RestartStep
<1>5. CASE UNCHANGED vars
  <2>. USE <1>5 DEF vars, disk, store, memory
  <2>1. Types'
    BY DEF IInv, Types
  <2>2. Numbered'
    BY DEF IInv, Numbered
  <2>3. AtWork'
    BY DEF IInv, AtWork, Rejected
  <2>4. InFlight'
    BY DEF IInv, InFlight
  <2>5. RunsAreSound'
    BY DEF IInv, RunsAreSound, RecordsBackEveryEntry, StopsAreHonoured
  <2>. QED
    BY <2>1, <2>2, <2>3, <2>4, <2>5 DEF IInv
<1>. QED
  BY <1>1, <1>2, <1>3, <1>4, <1>5 DEF Next

LEMMA Invariant == Spec => []IInv
<1>. QED
  BY Start, StepKeepsIInv, PTL DEF Spec

\* What is on file of the runs can be relied on, wherever the worker is and
\* whatever the owner asks meanwhile: results stand behind every entry, and
\* a stop accepted in time stays a stop (_run_job, the deletes, stop_run).
THEOREM RunsStaySound == Spec => []RunsAreSound
<1>1. IInv => RunsAreSound
  BY DEF IInv
<1>. QED
  BY <1>1, Invariant, PTL

\* What is added to the library is the owner's word, or what the worker reads.
LEMMA BookAdded ==
  ASSUME NEW l, NEW book, NEW status
  PROVE  \A title \in DOMAIN WithBook(l, book, status) \ DOMAIN l :
            title = book /\ WithBook(l, book, status)[title] = status
  BY DEF WithBook, Put

\* One step puts back no title a decision on file rejects.
LEMMA StepKeepsRejections ==
  ASSUME IInv, [Next]_vars, play.careful,
         NEW title \in DOMAIN library' \ DOMAIN library, library'[title] = "auto",
         NEW f \in DOMAIN decisions
  PROVE  decisions[f].rejected # title
<1>1. library' # library
  OBVIOUS
<1>2. ~RemoveBook
  BY DEF RemoveBook, Without, Restrict
<1>3. ~AddBook
  BY BookAdded DEF AddBook
<1>4. CASE Absorb
  <2>1. Rejected \subseteq seen
    BY <1>4 DEF Absorb, Working, IInv, AtWork
  <2>2. title = Title[worker.image] /\ Title[worker.image] \notin seen
    BY <1>1, <1>4, BookAdded DEF Absorb
  <2>. QED
    BY <2>1, <2>2 DEF Rejected
<1>. QED
  BY <1>1, <1>2, <1>3, <1>4 DEF Next, Handle, Owner, Work, vars, disk, store, memory, Alone,
     FileRun, LaunchRun, DropImage, UnlinkImage, DropRun, UnlinkRun, RecordDecision,
     Upload, StartRun, StopRun, DeleteImage, DeleteRun, Review, ClearDecision,
     SetUp, Take, Mark, ReadImage, LookUp, SettleImage, SettleRun, ClearStop, GoIdle, Restart

\* A title that a decision on file rejects is not put in the library again by
\* any run, for an owner who decides between runs (absorb_auto_claims).
THEOREM RejectedTitlesStayOut == Spec => RejectionsStand
<1>1. IInv /\ [Next]_vars =>
        [\A title \in DOMAIN library' \ DOMAIN library :
            play.careful /\ library'[title] = "auto"
              => \A f \in DOMAIN decisions : decisions[f].rejected # title]_vars
  BY StepKeepsRejections
<1>. QED
  BY <1>1, Invariant, PTL DEF Spec, RejectionsStand
=============================================================================
