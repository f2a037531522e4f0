---------------------------- MODULE TuningServer ----------------------------
(***************************************************************************)
(* The laboratory server of the reading engine: photographs, archived runs  *)
(* over them by one worker thread at a time, the owner's decisions about    *)
(* what a run found, and the library those decisions and the runs fill.     *)
(*                                                                         *)
(* `images` and `runs` are the store file, written whole under a lock and   *)
(* swapped in at once; `job`, the stop flag and the worker die with the     *)
(* process.  The owner sends one request at a time, and each of its steps   *)
(* may fall between two steps of the worker.  An image has one spine, and   *)
(* what the engine reads off it is Title[image]; a spine's id is its        *)
(* image's.  An exception in the worker ends the thread and nothing else.   *)
(*                                                                         *)
(* Abstracted: thumbnails and crops, the catalogs, configuration snapshots, *)
(* labels and notes, progress; the scores and lookups, which only read.     *)
(***************************************************************************)
EXTENDS Integers, SequencesExt, Functions, TLC

CONSTANTS
    Nothing,
    Images,
    Title,           \* what the engine reads off each image, surely
    Fix,             \* what the owner corrects a title to
    MaxRuns,
    Plays            \* what there is, what the owner does, and what may fail

ASSUME TuningAssumption ==
    /\ Images \subseteq DOMAIN Title
    /\ \A p \in Plays : p.images \subseteq Images

VARIABLES
    play,
    images,          \* the store: image -> how it stands
    issued,          \* image ids given out: uuid4 gives none twice
    runs,            \* the store: run number -> the run
    nextNo,
    records,         \* files of results, by run and image
    library,         \* title -> "auto" or "approved"
    decisions,       \* run and spine -> the decision on file
    job, stop,       \* what the pages poll, and the event the worker looks at
    worker, req,
    done, crashes,
    owed,            \* history: runs told to stop with an image still to begin
    seen             \* what was rejected as the worker looked it up

store  == <<images, issued, runs, nextNo>>
disk   == <<store, records, library, decisions>>
memory == <<job, stop, worker, req, seen>>
vars   == <<play, disk, memory, done, crashes, owed>>

Can(kind) == kind \in play.kinds
Without(f, keys) == Restrict(f, DOMAIN f \ keys)
Put(f, key, value) == [x \in DOMAIN f \cup {key} |-> IF x = key THEN value ELSE f[x]]

Idle == [state |-> "idle", run |-> 0, image |-> Nothing]

(***************************************************************************)
(* Requests: one at a time, step by step.                                   *)
(***************************************************************************)
Ask(kind, request) ==
    /\ Can(kind) /\ req = Nothing /\ done < play.requests
    /\ req' = request
    /\ done' = done + 1
    /\ UNCHANGED <<play, crashes>>
At(do, step) == req # Nothing /\ req.do = do /\ req.at = step
GoTo(step)   == req' = [req EXCEPT !.at = step]
Answered     == req' = Nothing

Upload == \E i \in Images \ issued :
    /\ Ask("upload", Nothing)
    /\ issued' = issued \cup {i}
    /\ images' = Put(images, i, [status |-> "new", summary |-> FALSE, latest |-> 0])
    /\ UNCHANGED <<runs, nextNo, records, library, decisions, job, stop, worker, seen, owed>>

(* A run is asked for while none is running; then it is filed, the flag is  *)
(* cleared, the job is shown and the worker started.                        *)
StartRun == \E wanted \in {s \in SeqOf(DOMAIN images, 2) : s # <<>> /\ IsInjective(s)} :
    /\ nextNo <= MaxRuns
    /\ job.state # "running"
    /\ Ask("run", [do |-> "run", at |-> "file", wanted |-> wanted, run |-> nextNo])
    /\ UNCHANGED <<disk, job, stop, worker, seen, owed>>

FileRun ==
    /\ At("run", "file")
    /\ runs' = Put(runs, nextNo, [status |-> "running", images |-> <<>>])
    /\ nextNo' = nextNo + 1
    /\ GoTo("launch")
    /\ UNCHANGED <<play, images, issued, records, library, decisions, job, stop, worker, done, crashes, seen, owed>>

LaunchRun ==
    /\ At("run", "launch")
    /\ stop' = FALSE
    /\ job' = [state |-> "running", run |-> req.run, image |-> Nothing]
    /\ worker' = [run |-> req.run, todo |-> req.wanted, at |-> "setup", image |-> Nothing, cut |-> FALSE]
    /\ Answered
    /\ UNCHANGED <<play, disk, done, crashes, seen, owed>>

(* A stop is owed to a run that has an image still to begin.                *)
StopRun ==
    /\ Ask("stop", Nothing)
    /\ job.state = "running"
    /\ stop' = TRUE
    /\ owed' = IF worker # Nothing /\ worker.todo # <<>> THEN owed \cup {worker.run} ELSE owed
    /\ UNCHANGED <<disk, job, worker, seen>>

(* A careful owner leaves alone what a running run is still to read.        *)
Needed == IF worker = Nothing THEN {} ELSE Range(worker.todo) \cup {worker.image}

DeleteImage == \E i \in DOMAIN images :
    /\ Ask("delete", [do |-> "delete image", at |-> "drop", image |-> i])
    /\ job.image # i
    /\ play.careful => i \notin Needed
    /\ UNCHANGED <<disk, job, stop, worker, seen, owed>>

DropImage ==
    /\ At("delete image", "drop")
    /\ images' = Without(images, {req.image})
    /\ runs' = [r \in DOMAIN runs |-> [runs[r] EXCEPT !.images = Without(@, {req.image})]]
    /\ GoTo("unlink")
    /\ UNCHANGED <<play, issued, nextNo, records, library, decisions, job, stop, worker, done, crashes, seen, owed>>

UnlinkImage ==
    /\ At("delete image", "unlink")
    /\ records' = {f \in records : f[2] # req.image}
    /\ Answered
    /\ UNCHANGED <<play, store, library, decisions, job, stop, worker, done, crashes, seen, owed>>

DeleteRun == \E r \in DOMAIN runs :
    /\ Ask("delete", [do |-> "delete run", at |-> "drop", run |-> r])
    /\ ~(job.run = r /\ job.state = "running")
    /\ UNCHANGED <<disk, job, stop, worker, seen, owed>>

DropRun ==
    /\ At("delete run", "drop")
    /\ runs' = Without(runs, {req.run})
    /\ images' = [i \in DOMAIN images |->
                     [images[i] EXCEPT !.latest = IF @ = req.run THEN 0 ELSE @]]
    /\ GoTo("unlink")
    /\ UNCHANGED <<play, issued, nextNo, records, library, decisions, job, stop, worker, done, crashes, seen, owed>>

UnlinkRun ==
    /\ At("delete run", "unlink")
    /\ records' = {f \in records : f[1] # req.run}
    /\ Answered
    /\ UNCHANGED <<play, store, library, decisions, job, stop, worker, done, crashes, seen, owed>>

(***************************************************************************)
(* The owner's decisions, and the library.                                  *)
(***************************************************************************)
(* A human decision outranks an automatic one.                              *)
WithBook(l, title, status) ==
    IF title \notin DOMAIN l \/ (l[title] = "auto" /\ status = "approved")
    THEN Put(l, title, status) ELSE l

(* What the page offers of a row: the claim is approved; or the book the    *)
(* row shows by now is wrong, or corrected.                                 *)
Shown(f) == IF f \in DOMAIN decisions /\ decisions[f].title # Nothing
            THEN decisions[f].title ELSE Title[f[2]]
Offered(f) ==
    {[action |-> "approve", title |-> Title[f[2]], rejected |-> Nothing],
     [action |-> "reject", title |-> Nothing, rejected |-> Shown(f)],
     [action |-> "replace", title |-> Fix, rejected |-> Shown(f)]}

Review == \E f \in records :
    /\ f[1] \in DOMAIN runs
    /\ play.careful => worker = Nothing
    /\ f \in DOMAIN decisions => play.rethink
    /\ \E decision \in Offered(f) :
          Ask("review", [do |-> "review", at |-> "remove", file |-> f, decision |-> decision])
    /\ UNCHANGED <<disk, job, stop, worker, seen, owed>>

RemoveBook ==
    /\ At("review", "remove")
    /\ library' = Without(library, {req.decision.rejected})
    /\ GoTo("add")
    /\ UNCHANGED <<play, store, records, decisions, job, stop, worker, done, crashes, seen, owed>>

AddBook ==
    /\ At("review", "add")
    /\ library' = IF req.decision.title = Nothing THEN library
                  ELSE WithBook(library, req.decision.title, "approved")
    /\ GoTo("record")
    /\ UNCHANGED <<play, store, records, decisions, job, stop, worker, done, crashes, seen, owed>>

RecordDecision ==
    /\ At("review", "record")
    /\ decisions' = Put(decisions, req.file, req.decision)
    /\ Answered
    /\ UNCHANGED <<play, store, records, library, job, stop, worker, done, crashes, seen, owed>>

(* The row is undecided again; the library keeps what it has.               *)
ClearDecision == \E f \in DOMAIN decisions :
    /\ Ask("clear", Nothing)
    /\ decisions' = Without(decisions, {f})
    /\ UNCHANGED <<store, records, library, job, stop, worker, seen, owed>>

(***************************************************************************)
(* The worker.                                                              *)
(***************************************************************************)
Working(step) == worker # Nothing /\ worker.at = step
Step(step)    == worker' = [worker EXCEPT !.at = step]
Dies          == worker' = Nothing
Alone         == UNCHANGED <<play, req, done, crashes, owed>>

SetUpAfresh ==
    /\ Working("setup") /\ Alone
    /\ stop' = FALSE /\ Step("take")
    /\ UNCHANGED <<disk, job, seen>>
(* A bad catalog or a missing key ends the run before its first image.      *)
SetUp ==
    /\ Working("setup") /\ Alone
    /\ \/ Step("take") /\ UNCHANGED <<disk, job, stop, seen>>
       \/ /\ play.failures
          /\ worker.run \in DOMAIN runs
          /\ runs' = [runs EXCEPT ![worker.run].status = "error"]
          /\ Step("idle")
          /\ UNCHANGED <<images, issued, nextNo, records, library, decisions, job, stop, seen>>

Take ==
    /\ Working("take") /\ Alone
    /\ IF worker.todo = <<>> \/ stop
       THEN /\ worker' = [worker EXCEPT !.at = "last", !.cut = worker.todo # <<>>]
            /\ UNCHANGED job
       ELSE LET i == Head(worker.todo)
                left == [worker EXCEPT !.todo = Tail(@)]
            IN  IF i \in DOMAIN images
                THEN /\ worker' = [left EXCEPT !.image = i, !.at = "mark"]
                     /\ job' = [job EXCEPT !.image = i]
                ELSE worker' = left /\ UNCHANGED job
    /\ UNCHANGED <<disk, stop, seen>>

(* The image may be gone since it was looked up.                            *)
Mark ==
    /\ Working("mark") /\ Alone
    /\ IF worker.image \in DOMAIN images
       THEN Step("read") /\ images' = [images EXCEPT ![worker.image].status = "running"]
       ELSE Dies /\ UNCHANGED images
    /\ UNCHANGED <<issued, runs, nextNo, records, library, decisions, job, stop, seen>>

(* How the image went is entered in both, or in neither: the worker dies on *)
(* whichever is gone.                                                       *)
Entry(status, image, then) ==
    IF worker.image \in DOMAIN images /\ worker.run \in DOMAIN runs
    THEN /\ runs' = [runs EXCEPT ![worker.run].images = Put(@, worker.image, status)]
         /\ images' = [images EXCEPT ![worker.image] = image]
         /\ worker' = then
    ELSE Dies /\ UNCHANGED <<images, runs>>

ReadImage ==
    /\ Working("read") /\ Alone
    /\ \/ /\ records' = records \cup {<<worker.run, worker.image>>}
          /\ Step("look")
          /\ UNCHANGED store
       \/ /\ play.failures
          /\ Entry("error", [images[worker.image] EXCEPT !.status = "error"], [worker EXCEPT !.at = "take"])
          /\ UNCHANGED <<issued, records, nextNo>>
    /\ UNCHANGED <<library, decisions, job, stop, seen>>

(* What was ever rejected, in any run, is looked up once for the image.     *)
RejectedHere == {decisions[f].rejected : f \in {g \in DOMAIN decisions : g[1] = worker.run}}
Rejected == {decisions[f].rejected : f \in DOMAIN decisions}

LookUp ==
    /\ Working("look") /\ Alone
    /\ seen' = Rejected
    /\ Step("absorb")
    /\ UNCHANGED <<disk, job, stop>>

Absorb ==
    /\ Working("absorb") /\ Alone
    /\ library' = IF Title[worker.image] \in seen THEN library
                  ELSE WithBook(library, Title[worker.image], "auto")
    /\ Step("settle")
    /\ UNCHANGED <<store, records, decisions, job, stop, seen>>

SettleImage ==
    LET status == IF stop THEN "stopped" ELSE "done"
    IN  /\ Working("settle") /\ Alone
        /\ Entry(status, [status |-> status, summary |-> TRUE, latest |-> worker.run],
                 [worker EXCEPT !.at = IF stop THEN "last" ELSE "take", !.cut = stop])
        /\ UNCHANGED <<issued, nextNo, records, library, decisions, job, stop, seen>>

SettleRun ==
    /\ Working("last") /\ Alone
    /\ IF worker.run \in DOMAIN runs
       THEN /\ runs' = [runs EXCEPT ![worker.run].status = IF worker.cut THEN "stopped" ELSE "completed"]
            /\ Step("clear")
       ELSE Dies /\ UNCHANGED runs
    /\ UNCHANGED <<images, issued, nextNo, records, library, decisions, job, stop, seen>>

ClearStop ==
    /\ Working("clear") /\ Alone
    /\ stop' = FALSE /\ Step("idle")
    /\ UNCHANGED <<disk, job, seen>>

GoIdle ==
    /\ Working("idle") /\ Alone
    /\ job' = [Idle EXCEPT !.run = worker.run]
    /\ Dies
    /\ UNCHANGED <<disk, stop, seen>>

(***************************************************************************)
(* The process dies; what it had in memory is gone, and the next one marks  *)
(* what it finds running before it serves.                                  *)
(***************************************************************************)
LeftAsItWas(status) == status
Repaired(status) == IF status = "running" THEN "interrupted" ELSE status
Restart ==
    /\ crashes < play.crashes
    /\ crashes' = crashes + 1
    /\ runs' = [r \in DOMAIN runs |-> [runs[r] EXCEPT !.status = Repaired(@)]]
    /\ images' = [i \in DOMAIN images |->
                     [images[i] EXCEPT !.status = IF @ # "running" THEN @
                                                 ELSE IF images[i].summary THEN "stopped" ELSE "new"]]
    /\ job' = Idle /\ stop' = FALSE /\ worker' = Nothing /\ req' = Nothing
    /\ UNCHANGED <<play, issued, nextNo, records, library, decisions, done, owed, seen>>

-----------------------------------------------------------------------------
Init ==
    /\ play \in Plays
    /\ images = [i \in play.images |-> [status |-> "new", summary |-> FALSE, latest |-> 0]]
    /\ issued = play.images
    /\ runs = <<>> /\ nextNo = 1
    /\ records = {} /\ library = <<>> /\ decisions = <<>>
    /\ job = Idle /\ stop = FALSE /\ worker = Nothing /\ req = Nothing
    /\ done = 0 /\ crashes = 0 /\ owed = {} /\ seen = {}

Handle ==
    \/ FileRun \/ LaunchRun \/ DropImage \/ UnlinkImage \/ DropRun \/ UnlinkRun
    \/ RemoveBook \/ AddBook \/ RecordDecision
Owner ==
    \/ Upload \/ StartRun \/ StopRun \/ DeleteImage \/ DeleteRun \/ Review \/ ClearDecision
Work ==
    \/ SetUp \/ Take \/ Mark \/ ReadImage \/ LookUp \/ Absorb \/ SettleImage
    \/ SettleRun \/ ClearStop \/ GoIdle

Next == Handle \/ Owner \/ Work \/ Restart

(* The worker thread runs and a request that was taken is answered.         *)
Spec == Init /\ [][Next]_vars /\ WF_vars(Work) /\ WF_vars(Handle)

-----------------------------------------------------------------------------
(* A run once filed comes to an end, whatever is stopped, deleted, refused  *)
(* or restarted on the way: no run is left to block the next one.           *)
EveryRunEnds ==
    \A r \in 1 .. MaxRuns :
        (play.careful /\ r \in DOMAIN runs /\ runs[r].status = "running")
          ~> (job.state = "idle" /\ (r \in DOMAIN runs => runs[r].status # "running"))

(* A run that lists an image as read has its results on disk: across a      *)
(* crash at any step, and for a reader that looks while either is deleted.  *)
RecordsBackEveryEntry ==
    \A r \in DOMAIN runs : \A i \in DOMAIN runs[r].images :
        runs[r].images[i] # "error" => <<r, i>> \in records

(* A stop accepted with an image still to begin leaves that run stopped:    *)
(* neither the end of the run before it nor its own start takes it back.    *)
StopsAreHonoured ==
    \A r \in owed \cap DOMAIN runs : runs[r].status # "completed"

(* What some decision on file rejects is not put in the library again by a  *)
(* run, of this image or of another, this run or a later one; but for an    *)
(* owner who decides while a run is under way.                              *)
RejectionsStand ==
    [][\A title \in DOMAIN library' \ DOMAIN library :
          play.careful /\ library'[title] = "auto"
            => \A f \in DOMAIN decisions : decisions[f].rejected # title]_vars

(* What is on file of the runs can be relied on.                            *)
RunsAreSound == RecordsBackEveryEntry /\ StopsAreHonoured
=============================================================================
