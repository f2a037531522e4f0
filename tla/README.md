# Verification of booksnap

booksnap catalogues the books of a home library from photographs of its shelves.
A person draws the house and its bookcases, files a photograph on a shelf and
starts a *read*; an engine finds the spines in the picture and claims a book for
each; the library is reconciled with those claims, and what the machine cannot
decide is left to a person. This directory holds TLA+ models of the product
(`src/app/`), of the laboratory server of its engine (`src/booksnap/`) and of its
tools (`src/tools/`), the TLC runs that check them on small instances, and the
theorems TLAPS proves about them. `PROJECT.json` lists the components, runs,
mutants, source lines of every definition, hazards and theorems; this file says
how to read them.

Running: `tlc -workers 2 -config X.cfg MCX` for the run of module `X`,
`tlapm X_proofs.tla` for the proofs.

## 1. The system

### Parts, their state, and how they interact

| Part | Code | State it keeps | Operations | Talks to |
|---|---|---|---|---|
| Job queue | `app/adapters/queued_jobs.py` (port `app/ports/jobs.py`) | in memory: jobs, a FIFO per customer, a round-robin ring, stop flags | submit, progress, stop; the worker's loop | runs the read's closure; polled by the reads router |
| Reads | `app/api/routers/reads.py`, `app/domain/read.py` | the `reads` table: status, claims, archived summary | start, stop, list, diff, apply, add/retract/restore a finding | job queue, reader, reconciliation, stores |
| Books and reconciliation | `app/domain/{book,reconcile,retract,copy_resolution}.py` | values only | status ladder, copies, sightings, classification of a claim, retraction plan | used by the review handlers |
| Review | `app/reconcile_apply.py`, `routers/{reads,duplicates,books}.py` | `books`/`copies`/`provenance`, `decisions`, `duplicate_questions` | apply a diff, answer, skip, retract, restore, approve, rename, delete, create | stores, one call at a time |
| Shelf merge | `app/map_merge.py`, `app/domain/{merge,alias}.py` | `shelf_aliases`, and the shelf named by copies, captures, decisions, questions | merge, sent again after it was cut short | six stores, the undo journal |
| Map undo | `app/map_undo.py`, `app/domain/map_undo.py` | `map_undo`: one journal per library, fingerprints | record, coalesce, offer, undo | everything the map writes |
| Map editing | `app/map_edit.py`, `app/domain/place.py`, `routers/map.py` | sites, floors, rooms, bookcases, sections, gaps, slots | draw, resize, switch cells off, set in depth, clear, remove, bind, unbind | shelves, journal |
| Shelves and captures | `routers/shelves.py`, `app/domain/shelf.py` | `shelves`, `captures` | create, rename, deepen, delete; file, move, delete a photograph | photograph store, reads |
| Photographs | `app/adapters/disk_blobs.py`, `app/blob_lifecycle.py`, `routers/images.py` | files keyed by content | put, get, delete, list; find and collect orphans | captures and reads name the keys |
| Accounts and invites | `app/domain/{tenancy,invites}.py`, `routers/{members,libraries}.py` | `accounts`, `memberships`, `invites`, `libraries` | invite, accept, revoke, change role, remove, mint the first account | every request's capability check |
| Sign-in | `routers/auth.py`, `app/domain/{auth,oauth}.py`, `adapters/oidc.py` | users, sessions, login tokens, OAuth states | request link, redeem, OAuth round trip, roll, sign out | accounts; mail and identity providers |
| Stores | `app/adapters/{sqlite_store,memory_store,migrations}.py` | the database | one transaction per call | everything |
| Web client, map | `app/web/src/map/*` | the drawn plan and its undo stack, what the server confirmed, a queue of pushes | push the difference of two drawings, re-derive, gestures beside the drawing | the HTTP API of the map |
| Web client, capture | `app/web/src/capture/*` | intake rows, panels, the workspace of a photograph | upload, file, read, poll, answer, decide | the HTTP API of shelves and reads |
| Reader adapter, engine | `app/adapters/booksnap_reader.py`, `booksnap/` | none between calls | read photographs, report progress, honour a stop | called by the read's job |
| Tuning server | `booksnap/server.py`, `booksnap/library.py` | a JSON state file, one job record, a confirmed library | start, stop, delete runs and images, review what was found | engine |
| Tools | `tools/{backup,restore,merge_library,blob_gc}.py` | directories of backups; a library being merged | back up, prune, drill, restore; merge a library into another; collect | database and photograph files, beside the server |
| Staff console, interfaces, importers | `app/staff_api/`, `app/web`, `tools/` | none of their own | read-only queries, rendering, one-shot import | – |

### What is hard

* **Nothing spans two store calls.** The SQLite adapter opens a connection per
  call; a handler that reads, decides and writes five rows is six transactions,
  and FastAPI serves handlers on a thread pool. So every handler can interleave
  with every other between any two calls, and the process can die there too.
* **Whole-row saves.** `save_read`, `books.save`, `save_section`, `save_shelf`
  replace the row from a snapshot the handler took earlier, with no version check.
* **A read's job keeps its own copy of the read** and stores it once, at the end,
  while the stored row says `running`. Three parties then apply the same diff: the
  job when it settles, the client after it polls a settled read, and a person
  adding a finding by hand.
* **The job queue** is a monitor with `notify()` (one sleeper), a ring kept in
  step with per-customer queues by hand, retries that re-enter the queue while
  their worker still holds the job, and stops that can land anywhere.
* **Standing answers.** A person's "no" must survive every later order of reads,
  deletions, restorations and answers about the same book.
* **Undo by rows.** The journal remembers rows, not inverses; a fingerprint decides
  whether they may be put back, and two requests of one removal become one entry.
* **Bytes and rows are in two stores.** Between an upload and its filing nothing
  names a photograph, and collectors, backups, restores and library merges walk
  both stores while people file and delete.
* **A browser tab** queues writes behind one another, re-derives its document from
  the server, and gets answers late, twice removed from the screen that asked, or
  never.

What makes each part correct: a queue that loses and doubles nothing and starves
nobody; a read that settles once and whose archived evidence never changes; a
library in which nothing a person did is undone by a machine and one key names one
book; a merge after which every row names a shelf that answers, and that can be
finished when cut short; an edit of the map that loses nothing shelved, and an undo
that restores or refuses; a collector that never deletes a photograph some row
names; an account that always has an admin and an invite that works once; a tab that
says "saved" only of what the server holds; a backup that passes its drill only if
it can be restored.

## 2. Plan, and how far it came

In order of how much of the product rests on the part; all of it is built.

1. `JobPool`, `JobQueue`: the promise of the port, the threaded queue, and the
   refinement. Model-checked; its safety and the refinement are proved.
2. `ReadRuns`: the life of a read, over `JobPool`. Model-checked; its safety is proved.
3. `BookRecords`, `Reconcile`, `ShelfReview`: values, classification, handlers.
   Model-checked; the stored library's soundness and its four promises are proved.
4. `MapUndo` with `ShelfMerge`; `Furniture` with `MapEdit`.
5. `Photos`: uploads, filing, reads naming crops, the collector. Model-checked; its three
   invariants are proved.
6. `SignIn`, `Members`: sign-in, invites, first account, last admin. Model-checked; all four
   of its properties are proved.
7. `PlanDiff` with `MapSync`, `CaptureTab`: the two stateful halves of the web client.
8. `TuningServer`, `Backup`, `LibraryMerge`: the laboratory server and the tools. Their
   safety is proved.

What is left: theorems about the merge of shelves, about the journal (an undo with nothing
run in between restores every row) and about the two halves of the web client; liveness of
`MapSync` (a push once begun ends); the version step of the migrations; deeper instances
of `MapEdit` with two requests beside a third.

## 3. Modules

| Module | Models | State and actions |
|---|---|---|
| `JobPool` | what `app/ports/jobs.py` promises | per customer a queue, the running jobs, outcomes, stop requests; submit, start, retry, settle |
| `JobQueue` | `QueuedJobRunner` | the dictionaries and deques under the lock, what each worker does, who sleeps. One action per critical section: `Submit`, `Stop`, `Look`, `PickUp`, `Report`, `FnReturns`, `FnRaises`, `Requeue`/`Fail`/`Settle` |
| `ReadRuns` | `routers/reads.py` over `domain/read.py` | the stored row and, apart from it, the job's own copy; requests in flight; how far the apply got. `StartRead` is three steps, the job's `Run` seven kinds of step that may raise, `AddFinding` three; `Crash` |
| `BookRecords`, `Reconcile` | `domain/{book,reconcile,retract,copy_resolution}.py` | values only: how a claim classifies against the library and the standing decisions, and what a diff, a retraction or a deletion would write, as a sequence of store calls |
| `ShelfReview` | `reconcile_apply.py`, `routers/{reads,duplicates,books}.py` | books with their copies (where seen, label, loan), decisions, open questions; for each handler its request, the library it read, the calls left. One `Write` per store call, `Crash` between any two; `PatchCopy`, `LendCopy`, `TakeCopyBack` rewrite one copy of a whole book |
| `MapUndo` | `domain/map_undo.py` | values only: a journal entry, its fingerprint, coalescing, which entry may be undone |
| `ShelfMerge` | `map_merge.py`, `domain/{merge,alias}.py`, the undo of a merge | six tables as one function from <<table, key>> to rows, the journal. `BeginMerge`, `Check`, `GatherCopies`/`Photos`/`Answers`, `Absorb`, `DeepenRead`/`DeepenSave`, `WriteNext`, `MayDelete`, `Drop`, `JournalMerge`; `BeginUndo`, `Mark`; filing, deepening, deleting, reads and answers beside it; `Crash` |
| `Furniture` | the pure half of `domain/place.py` | values only: the grid of a section, its cells, resizing, stacking |
| `MapEdit` | `map_edit.py`, `routers/map.py`, the undo of an edit | rows of sites, floors, rooms, bookcases, sections and shelves, the journal. `Begin` per kind of request lists the calls it will make (`todo`), `Continue` makes the next one; `Crash` |
| `Photos` | `routers/{shelves,images}.py`, `blob_lifecycle.py`, `disk_blobs.py` | files and their age, captures, shelves. Uploads, filing, binding, rows behind, deletion; the collector as `WalkShelf`, `ListReads`, `PlanCollection`, `CollectNext`, `EndCollection`; `Age`, `Forget`, `Crash` |
| `SignIn` | `routers/auth.py`, `domain/{auth,oauth}.py` | users, sessions, tokens; asking for a link or a provider, redeeming, rolling, signing out |
| `Members` | `routers/{members,libraries}.py`, `domain/{tenancy,invites}.py`, extending `SignIn` | roles, accounts, invites, libraries; one action per transaction of every request; `InviteAges`, `TimePasses`, `Crash` |
| `PlanDiff` | `app/web/src/map/{sync,push}.ts`, and what `routers/map.py` makes of each call | values only: a drawing, the calls that turn one into another (`Diff`), which of them the server refuses (`Refuses`: rows that are gone, a last section, a bookcase over its ceiling) and what the others leave |
| `MapSync` | `app/web/src/map/{useMapSync,limits,paste}.ts`, `core/persist.ts` | the drawing, its undo stack, the queue of pushes, what the server confirmed, the server's rows. `Edit`, `Export`; `Begin`, `Land`, `Spoil`, `Answer`; `Fetch`, `Adopt`; `Press`, `GestureLands`, `GestureEnds`; `Reload`, `ChooseSite` |
| `CaptureTab` | `app/web/src/capture/*` | intake rows, panels, the workspace, requests on the wire with the continuation their answer is for, the server. `Serve`, `Receive`, `Settle`, `Lose`, `Reload`, `Owner`, `PollRunning` |
| `TuningServer` | `booksnap/{server,library}.py` | images and runs on file, the one job, the stop flag, the confirmed library. `Owner`, `Handle`, `Work`, `Restart` |
| `Backup` | `tools/{backup,restore}.py` | the database, its log, the tree, backups and piles moved aside. `Server`, `Save`, `Restore`, `Crash` |
| `LibraryMerge` | `tools/merge_library.py`, `adapters/merge_library.py` | books, copies, photographs of two libraries, their trees, answers. `Server`, `Gc`, `Merge` (ending with `Die`) |
| `MC*` | – | values of the constants for TLC |
| `*_proofs` | – | the theorems of section 6 |

Choices that matter:

* *Atomicity.* A step is one critical section of the queue's lock, one store call, or
  one request of the browser landing on the server. A store call is one SQLite
  transaction, so it is atomic; nothing larger is. Two reads a handler makes one right
  after the other are one step only where no write between them changes what it does.
* *Plays.* A constant (`Plays`, `Stories`) holds the situations behaviours start from:
  the stored rows, the kinds of request that arrive, how many and how many at once,
  which faults and crashes. A behaviour chooses one as it starts, so one run asks its
  question of several small worlds instead of one that is too large. What a play leaves
  out is only what happens, never what a handler does.
* *`ReadRuns` uses the promise, not the queue.* `JobQueue` implements `JobPool`
  (proved), so what holds of reads over the pool holds over the threaded queue, for one
  process life. `Crash` empties the pool, as a restart empties the queue.
* *Claims.* `ReadRuns` counts claims, since nothing there depends on which book a claim
  names; `ShelfReview` tells them apart by key and tier and starts at a settled read.
* *Text.* A book's normalised title and author is one model value, its key.
* *History.* Some variables exist only for a property to speak of earlier states or to
  leave out a flaw of section 7 by name: in `ShelfMerge` and `MapEdit` whether a request
  ran alone, what stood before it and what arrived too `late`; in `Photos` what was
  `overtaken` behind the walk, and the shelves whose rows a save from an older copy
  `overruled`; in `Members` who founded what, and which invites are
  `barred`; in `TuningServer` which stop is `owed`. No guard of a handler reads them.
* *Variants.* An operator whose comment calls it a mutant or a defect is no part of the
  model: it is the form of a definition below it that a plausible mistake in the code
  would give, and `PROJECT.json` pairs it with the property that must then fail.

## 4. Runs

Each takes at most three minutes on two workers.

| Run | Instance | Shows |
|---|---|---|
| `queue` | 3 jobs (two of one customer, one of them with a retry), 2 workers, stops at any time | a job is in one place; a wake-up is not lost; while a customer waits nobody is served twice past them; every job settles; the threads implement `JobPool` |
| `reads` | one read of two spines with two findings by hand, every stage may raise, a crash; a burst of 3 reads with cap 1, two request threads, one worker | who may apply a read and that its summary tells all it found (`ReadsAreSound`, which also bounds the overshoot of the cap); evidence is never rewritten; a read stored as running settles while only what the code claims to survive goes wrong |
| `review` | 2 reads on 2 shelves, 2 keys, 3 claims; every kind ×4 with a crash, ×5 about known books, ×3 by two racing handlers; copies labelled, lent and taken back between reads | one key names one book and answered questions are closed; what a person did is kept, a copy's label and an open loan included; what was removed or refused does not come back; a second apply adds and moves nothing, and saves nothing new but for a book two claims share |
| `merge` | two full shelves (strips, a copy behind, answers on one or both, on the map or not), any 3 requests in turn and a crash, both strip orders; three shelves with two requests at once | every copy, photograph and answer is on a shelf reachable over one alias, and a card of a shelf counts the books its list shows (`CardsAgreeWithLists`); a merge, cut short and resent too, leaves nothing behind, and one sent once does what its preview said (`AsPreviewed`); an undone one leaves no trace |
| `map_edit` | five houses with 3 requests in turn and a crash; three stories of two at once | no cell without its shelf, no shelf outside the drawing, where a book is said to stand is a place that is drawn, another one for each shelf of a bookcase, with every home and bookcase called the same and the room not at all (`BooksCanBeFound`); nothing shelved is lost however requests overlap; an undo restores all or refuses if anybody wrote there |
| `photos` | 2 images, a shelf, a wishlist, an absorbed shelf and a new one, 2 captures, 3–4 requests two at a time beside a collection, a crash; a shelf of up to 3 rows deepened, renamed, dropped and filed on by two at once | strips have no two photographs in one place, each in a row of its shelf; what is named is stored; what nobody names is collected |
| `members` | 3 users, 2 admins, up to 3 libraries, 2 invites, requests overlapping by two, a crash | an account keeps an admin and a person founds one; a removed member cannot replay a link; a half-done acceptance can be finished; signed out is signed out |
| `sync` | seven drawing plays, four with re-derives, two hard ones: 2–3 edits, up to 3 gestures, 1–2 faults | "saved" means the library holds the drawing; no id of the session's own reaches the server; nothing is deleted unasked |
| `capture` | a shelf of two rows, 7 plays with answers in order (3–5 presses, a fault, a reload), one hasty with answers in any order | requests name the shelf of the read, screens show what was decided, a watched read is shown |
| `tuning` | 2 images, 2 runs, 4 requests with failures, a crash and the start-up repair | a run that was filed ends; an accepted stop is honoured; a title rejected between runs does not come back |
| `backup` | 2 photographs, 2 backups, 2 restores; overlapping, pruned, by name, beside an open reader, beside a restore, with a crash | what passes a drill can be restored; nothing live is lost half way; a finished restore is its backup |
| `library_merge` | 3 books, 5 copies, 3 photographs, an empty target tree or one with leftovers whole or torn, 2 runs of the tool, 3 requests of the server; two libraries of different accounts, which the tool refuses | named photographs resolve, copies keep their work and order, no row names a library that is gone |

Bounds, and why they are enough. The queue's branches need a ring of two entries, a
customer who re-enters it, a sleeper woken for another's job, and a retry beside a
waiting job: three jobs and two workers have all four. Reads interact pairwise through
the cap and the pool; two hand-made findings are what it takes to race. In the review a
book on two shelves is the least that gives an ambiguous location and two keys the
least that lets a rename collide; a removal, a later read, an answer and a restore are
four requests. A merge needs a full shelf on each side, and three shelves for a
chain of aliases. An edit, its undo and somebody else's write between them are three
requests; a removal is two of them. A collection races with one upload, one filing and
one move. Two libraries of one account and two admins are the least for the rules about
the last one. In the client two pushes and a re-derive between them need three edits.
`MaxCrashes` is one throughout: a crash leaves only stored rows, so two crashes with
requests in between are two single ones. Counters that the code does not bound (ids,
eras, backups, runs) are bounded by the plays' numbers of requests or by `MaxShelf`,
`MaxRuns`, `MaxBackups`, `MaxRestores`, `MaxPhotos`, `MaxReads`, `MaxWire`,
`MaxHeight`, and what one request may pick by `MaxPicked`. `MaxDepth`, `MaxDeep`,
`MaxRows`, `MaxSections`, `MaxSlots`, `Cap`, `LinkRate` and `LibraryCap` stand for limits
the code has too, with smaller values.

Deadlock checking is off everywhere because the systems rightly stop: every job
settled, every request served, the play spent. That a worker waiting for work is no
deadlock is `NoWakeUpIsLost`'s and `EveryJobSettles`'s business.

## 5. Fairness

* `JobQueue`: weak fairness of each worker's own steps (`Look`, `PickUp`, the callable's
  return or raise, the settling): the operating system schedules threads, a notified
  thread gets the lock, and the engine's calls have time-outs. None for submissions,
  stops or reports.
* `ReadRuns`: weak fairness of submitting what was stored, of starting what waits (what
  `EveryJobSettles` of the queue justifies) and of a job's next step. People promise
  nothing. `EveryReadSettles` is asked of plays without a crash in which only the engine
  or the apply raises: after anything else the code leaves the row `running` for good,
  and no fairness would change it.
* `CaptureTab`: weak fairness of the server's answer, of its receipt, of a read's
  settling (`ReadRuns`) and of the timer that polls. None of the owner's presses; a
  request may be lost instead of answered, and the tab is told so.
* `TuningServer`: weak fairness of the worker thread and of a request that was taken.
* The others have none: nothing in the code promises that a person, a crashed merge or a
  tool goes on, and their properties are about safety.

## 6. What is proved

For every value of the constants: any number of jobs, reads, people, requests, retries.

| Theorem | States | Argument |
|---|---|---|
| `TypeCorrect` (`JobQueue_proofs`) | `Spec => []TypeOK` | `TypeOK` is inductive, one step per action |
| `RingCorrect` (`JobQueue_proofs`) | `Spec => []RingMatchesQueues` | `RingInv` = types, the ring has no duplicates, a customer is listed iff their queue is not empty. Lemmas say what appending to, taking the head of, and re-appending to a duplicate-free sequence does |
| `RoundRobinIsFair` (`JobQueue_proofs`) | `Spec => []PassedOverAtMostOnce` | `PassInv` adds `RingOrder`: whoever stands ahead of a waiting customer in the ring has not been served past them yet. The property alone is not inductive: it says nothing of who is next |
| `JobsKeepTheirPlace` (`JobQueue_proofs`) | `Spec => [](EachJobInOnePlace /\ HeldJobsAreLive)` | `PlacesInv` = `RingInv`, distinct jobs of their own customer in the queues, live means queued or held, never both, never held twice |
| `NoWakeUpGoesMissing` (`JobQueue_proofs`) | `Spec => []NoWakeUpIsLost` | `WakeInv` = `PlacesInv`, finitely many jobs are queued, and while a thread sleeps there are no more jobs queued than threads looking. Lemmas count: the threads looking never shrink but by the one that took a job, and a job queued wakes one |
| `QueueImplementsPool` (`JobQueue_proofs`) | `Spec => ImplementsPool` | the refinement mapping takes the queues, the held jobs, the outcome and stop flags, and as attempts the retries used plus one if started; each action maps to an action of `JobPool` or a stutter |
| `ReadsStaySound` (`ReadRuns_proofs`) | `Spec => []ReadsAreSound` | below |
| `EvidenceStaysFrozen` (`ReadRuns_proofs`) | `Spec => EvidenceIsFrozen` | from the same invariant, one step per action that saves a row |
| `StoredLibraryIsSound` (`ShelfReview_proofs`) | `Spec => []LibraryIsSound` | below |
| `NoHumanWorkIsLost`, `WhatIsRefusedStaysOut`, `NothingRemovedReturns` (`ShelfReview_proofs`) | `Spec => HumanWorkIsKept`, `Spec => SuppressedStaysOut`, `Spec => RemovalSticks` | action properties, from the same invariant: only a store call changes what is stored, and lemmas say what each kind of call leaves of the book it saves and which decision stands behind it |
| `AppliedOnce` (`ShelfReview_proofs`) | `Spec => ApplyIsIdempotent` | an action property; a second invariant, below |
| `AccountsStaySound` (`Members_proofs`) | `Spec => []AccountsAreSound` | below |
| `RemovalsAreFinal`, `AcceptancesCanBeFinished` (`Members_proofs`) | `Spec => []RemovalIsFinal`, `Spec => []HalfAnAcceptanceCanBeFinished` | below |
| `SignedOutForGood` (`Members_proofs`) | `Spec => SignedOutStaysOut` | an action property: of all that saves a session, only signing out touches its mark |
| `StripsStaySound`, `NamedStaysStored`, `OrphansGetCollected` (`Photos_proofs`) | `Spec => []StripsAreSound`, `Spec => []NamedIsStored`, `Spec => []OrphansAreCollected` | below |
| `RunsStaySound` (`TuningServer_proofs`) | `Spec => []RunsAreSound` | below |
| `RejectedTitlesStayOut` (`TuningServer_proofs`) | `Spec => RejectionsStand` | an action property: of all that writes the library, only `Absorb` adds a title as "auto", and what it looked up still covers what is on file |
| `PhotosResolve`, `CopiesStay`, `RowsAreRehomed` (`LibraryMerge_proofs`) | `Spec => []NamedPhotosResolve`, `Spec => []CopiesKeepTheirWork`, `Spec => []NoRowIsStranded` | below |
| `BackupsKeep` (`Backup_proofs`) | `Spec => []NothingKeptIsLost` | below |
| `RestoresAreWhole` (`Backup_proofs`) | `Spec => ARestoreIsTheBackup` | an action property: the step that ends a restore finds the backup's rows in the live file, no log beside it, and of its photographs none left to copy; the backup still passes its drill |

Assumptions, each named in the module that declares the constants and evaluated by TLC
in the run of that module (those of modules without a proof, as `NameOfAssumption`, only that).
`JobsAssumption`: a job has a customer and a number of
retries, `NoJob` is not a job, the workers are finite and not none. `ReadRunsAssumption`:
finitely many reads, each with an account and a number of spines, a cap and at least one
request thread, and the shape of a play. `ReadsAreNumbered`, `ClaimsAreTyped`, `SitesAreTyped`,
`HandlersAreFinite`: finitely many reads, numbered in the order they were made; each a
sequence of claims with a key or none; a shelf to each; finitely many handlers to a play. `MembersAssumption`: `Nobody` is none of the
values, and every play starts from a sound library, of which the empty one is an example.
`PhotosAssumption`: finitely many captures, at least one row to a shelf, and every play
starts with captures in rows their shelves have, one to a place, their files stored.
`TuningAssumption`: a title is read off every image, and a play starts with images there are.
`LibraryMergeAssumption`: two libraries, finitely many copies, which are numbered, and every
play starts from sound rows: a title once in a library, the copies of a book of its work
and in one order, the file of every row in its tree and whole. `BackupAssumption`: the
values differ, and every play is `Careful`, which names the ways of using the tools that
break the promise (they are in section 7): collecting while a backup copies; a restore that can
be cut short where a collection or a reader of the database can follow it; where old backups
are pruned, restoring beside a backup, or by name one that a crash left half removed.

*Why `ReadsAreSound` holds.* The invariant says who may touch what when. Until its job
saves it, a read's row is as `start_read` made it, and nobody but the job has anything to
do with it: a client applies only what the row shows settled. A job runs once, as reads
have no retries, so one copy is enough to speak of. A terminal row agrees with every copy
of it that anybody holds in its outcome, the engine's claims and the summary, hence a
whole-row save from an old copy cannot rewrite them; hand-made claims it can, and that is
a flaw of section 7. The cap counts the rows stored plus the requests that have passed the
check, which exceeds it by at most one round of request threads. None of these is visible
in the property itself.

*Why the review keeps its promises.* `IInv` of `ShelfReview_proofs` has two halves. `Sound`
holds however requests interleave: rows have their shapes, a copy id belongs to one book
for ever (`OneOwner`, which speaks of the stored rows and of every copy of the library a
handler has in hand, so that a save from an old one brings back no stranger), and a key
names one book, as a store call that would give it to a second is refused. The other half,
`Reviewing`, is asked of one request at a time, as the properties are. What a handler has
still to write is a sound plan (`SoundPlan`): each call fits the library that was read, and of
two calls about one book the earlier changes only its evidence (`InOrder`), which is why a
later save, made from the same snapshot, takes back nothing a person did. Each call still
fits the stores as they are (`Fresh`), an answered question still asked is about to be closed
(`SettledClosed`), and a retraction or a deletion has recorded its "no", or will before its
request ends (`Withdraws`, `Heard`). That a plan made from a diff is sound is most of the
work: it rests on lemmas about the parts of a plan and the claims they carry out.
For `AppliedOnce` the invariant is `RepeatInv`: what the diff owes each claim was vouched
for already, is written (`Reached`), or is in the rest of the plan (`Reaches`); books no claim of
the read vouches for are as they were read; and a decision that changed is a "no", or its
book is reached. When the plan is empty, nothing is owed. The attempt refuted a first draft
of the property: two claims of one read that name one book overwrite each other's sighting,
a later call of the same apply may move a copy back, and a second apply has one save left
without a second claim naming that book by its key. The property now excuses a book that
another claim of the read has vouched for, and no other.

*Why `AccountsAreSound` and its neighbours hold.* `IInv` has eight parts. `Rows`: shapes.
`IssuedInv`: whatever is stored somewhere was issued, so an id freshly minted names
nothing yet. `JobsInv`: what each request in flight relies on at its next call. This is
where interleaving is dealt with: nothing in it speaks of a row that another request may
have changed since, unless that change cannot hurt. `NewUsersInv`,
`SessionsNameTheirUser`: a sign-in that has found no user keeps its mail to itself.
`AccountsInv`: an account has an admin and a library, and its founder stays its member
while nobody removed them. `InvitesInv`: an invite that was barred to its user is granted
or gone, and one granted was given, which is what makes a replay harmless.
`RemovalIsFinal` itself. The invariant was checked by TLC before it was proved.

*Why nothing named is collected, and no orphan is kept.* `IInv` of `Photos_proofs` says
when a photograph is out of the collector's reach. One that somebody has in hand, or that a
request carries to where it will be named, is younger than the floor, since `put` touches
what it finds; so no plan made from the old files holds it (`Naming`). Of one that stands on
a shelf, a collection under way has either seen the name already or has the shelf still to
visit. What a move behind its back spoils is what `overtaken` records, and nothing else. The
other half is `Duty`: what was old and unnamed at the start, and stayed so, is in no list of
names, hence in the plan, until it is deleted. For the strips (`Shelving`, `Filing`, `Lone`): a
shelf that is there was made and is not made again; a request that files has a capture to
itself, and those that move one agree which photograph it is; who is alone when it looks up
the end of a row is alone when it saves, and the end of a finite row is free, by
well-founded induction on its captures. Two drafts of the property were found false by the
attempt: a stale copy of a shelf takes a row from under a photograph, and a move can put back
a capture that was deleted; both are real, in section 7, and are now what the properties name.

*Why `RunsAreSound` holds.* `IInv` of `TuningServer_proofs` says what the worker and the
request in flight may rely on while each goes its way (`AtWork`, `InFlight`). The worker's
run is the one the job shows and is on file, as no delete of it is taken while it is shown
running, and one taken before is of another run; hence "completed" is written once, at the
last step. What the worker has read is on disk, or its image is gone from the store: the
delete drops the image before it unlinks the results, so a later entry for that image kills
the worker rather than list what is not there. That rests on image ids being issued once
(`Numbered`): with an id that could come back the attempt failed, which is why the model now
keeps `issued`. A stop owed holds until the worker looks, since the flag is cleared before
the worker starts and after its last look, and a run asked for while a worker lives is
refused. For `RejectionsStand`: what the worker looked up covers every decision on file
until it uses it, if the owner does not decide while it reads; the property says so.

*Why the library merge keeps its promises.* `IInv` of `LibraryMerge_proofs` follows three
threads. Files (`FilesInv`): what the tool has copied is fresh, as copying touches what is
already there, and a collector takes only the old it has not seen named; so between the
listing and the commit every file of the source is still to be copied, fresh in the target,
or late. After the check the copies are whole, and the commit may move the rows. `Standing`
keeps the purge behind it: the source library is gone exactly while the tool purges. Books
(`BooksInv`): a title stands once in a library, so the collisions match books one to one,
and what a pair's copies become can be told apart: the target's own stand below `Base`, the
moved ones above it by their rank, which is a number below how many they are (counted, by
the cardinality of finite sets). The first pair's list and base were read before the
transaction; they hold at the commit as no edit comes between. Rows (`Rehomed`,
`NoRowIsStranded`): nobody writes to a library it did not find. The attempt showed that the
choice between the fates of a copy must be an ordered one.

*Why backups keep, and restores are whole.* `IInv` of `Backup_proofs`. A backup in the making
(`CopyRuns`): its rows are a subset of photographs that are stored or copied, from the moment
it reads the database to its manifest, as long as no restore moves the tree from under it,
which is what `whole` records. After the manifest a directory only empties (`Manifested`):
its files never exceed the number stated, and at that number they are the ones listed; so the
drill, which counts, is enough. `PruneRuns`: the newest complete backup is on no list of what
to remove, since whoever is on one has somebody newer, and removing him makes nobody newest
who was not. A live photograph (`Safe`) is followed through each move of a restore; at the
step between moving the database and its log, its row is in the two together, in neither
alone, and the tree moved into is empty where the next thing goes (`RestoreRuns`). `LogRuns`
says when no log can be left over. That the plays have to be `Careful` is what the attempt
showed: TLC refutes the property in the smallest play outside each of its clauses.

Only model-checked: everything of `ShelfMerge`, `MapEdit`, `MapSync` and `CaptureTab`.
Liveness under fairness and `ENABLED` (`EveryJobSettles`, `EveryReadSettles`,
`WatchedReadsAreShown`, `EveryRunEnds`) are out of the prover's reach, as is what a
recursive definition computes for every input.

## 7. Flaws met while modelling

The models do what the code does, flaws included; a property that would fail because of
one is stated so that it leaves it out by name (a history variable, or "in turn"), and
what is left out is listed here. None of it was searched for: each is a case the model
checker, or the reading of the code a definition needed, brought up.

**Queue and reads**

* A stop of a job that waits for its retry shows `queued`, not `stopping`
  (`queued_jobs.py:142`); reads have no retries, so the product cannot reach it.
* A store call that raises between `finish_read` and the inner handler leaves the row
  `running` for ever (`reads.py:838-844`): the outcome the comment at `reads.py:889` calls
  worse than the bug its handler fixes. So does a crash; nothing at start-up looks for
  such rows.
* Two findings added by hand at once are numbered from one snapshot: both become `~m1`
  and the later save drops the earlier claim (`reads.py:646`), though both books were applied.

**Review**

* An apply that read a book before it was approved, or given a copy, saves it back
  without (`reconcile_apply.py:224`).
* Two claims of one diff that name one book are both observed on the book as the diff
  holds it; the second save drops the first sighting, and applying again saves once more.
* A stored "another copy" answer replayed after its copy moved on mints another one
  (`reconcile_apply.py:425`).
* Retract and delete record their decision under the book's present key and site
  (`reconcile_apply.py:319`), so a book renamed or moved since is refused under a name its
  claim does not have.
* Rejecting a claim whose book was deleted leaves the queued question open
  (`reconcile_apply.py:378`); retracting deletes a machine-made record even after a human
  approved it (`retract.py:187`), and with it a copy that is lent out.

**Merging shelves**

* A merge sent again while the undo of the first one runs deletes the row just put back
  (`map_merge.py:267`). A merge cut short whose absorbed shelf was on the map cannot be sent
  again (`map_merge.py:202`), against the comment at `map_merge.py:253`. Its preview says
  "already" while rows are still to move, so `AsPreviewed` speaks of merges sent once.
* After a crash in a merge a shelf's card and the list of its books may
  disagree until it is finished; `CardsAgreeWithLists` is asked while nothing crashed.
* The undo leaves the survivor as deep as the merge made it (`map_merge.py:361`).
* The undo of a merge that had company may be refused half way. A merge in the order
  "absorbed first", cut short among its photographs and resumed, scrambles the strip.
* `bind_capture` looks for the next place in the strip of the shelf as named, not as
  resolved, so filing by an absorbed name is refused (`shelves.py:577`).

**Map**

* A shelf bound to a cell, or an undo, beside an edit that switches the cell off leaves the
  shelf outside the drawing (`map_edit.py:833`).
* `delete_shelf` looks and deletes in two transactions (`sqlite_store.py:781-837`), so what is
  shelved in between goes too; `MapEdit` sets that aside as `late`.
* Saves of a section write a whole row read earlier: one of two patches is lost, and a
  deleted section may come back; detaching may bring back a deleted shelf. `save_bookcase` checks
  the room's floor outside its write.
* An address prints names, which nothing keeps apart: two bookcases called the same in one
  room, or in two rooms called the same, have shelves that read alike (`place.py:1285`).

**Photographs**

* A photograph moved from a shelf not yet visited by the collector's walk to one already
  visited is deleted though it was named all along (`blob_lifecycle.py:69`); so is one uploaded
  again after the files were listed.
* Binding puts back a capture deleted after it was loaded. A shelf is saved as a whole
  (`shelves.py:283`): renaming it beside adding a row behind, or adding two rows behind at
  once, loses a row that photographs may stand in by then, and either brings back a shelf
  deleted in between. `PhotosStandInDeclaredRows` leaves these shelves out (`overruled`).
* `Photos` assumes that a photograph in hand is filed before it is as old as the
  collector's floor, that none reaches the floor during a collection, and that one
  collection runs at a time.

**Accounts**

* Two invites of one account accepted at once: the later grant overwrites the role of the
  earlier (`sqlite_store.py:1359`), and may leave an account without an admin
  (`overwritten` in `Members`).
* After a crash between the grant and its mark, a member removed within the window can
  come in again by the same link. An open invite outlives the admin who sent it. The cap
  on libraries is advisory under concurrency.

**The browser tab**

* A drawing put back from a file keeps ids that are no rows any more: the next push may
  add furniture twice, in another order, or delete what it restores (`core/persist.ts:112`).
* A new section is made in the shape of the one it stands on and cut to its own by later
  calls (`routers/map.py:757`), so a bookcase near the ceiling on shelves, pasted or drawn, may be
  refused in the middle of its push although the drawing fits.
* An answer lost after some calls of a gesture landed leaves rows the tab does not know.
  An edit queued during a gesture's own request is skipped (`useMapSync.ts:429`), as are those
  made after a site was asked to be removed (`:516`); a refused undo reads "saved" (`:618`).
* Panels and the workspace tell answers apart by their row of books, not by their read:
  two starts, a late poll or a late decision mix up. `hydrate` doubles a row when answers come
  out of order and gives up when its first list fails; a lost answer to a filing, tried
  again, files twice; a read that runs is shown but not polled when it is opened in the workspace.

**The laboratory and the tools**

* `start_run` checks and registers in two steps (`booksnap/server.py:504`); deleting an image or a
  run under the worker ends its thread, and only the next start-up repairs the record; an
  error in the setup leaves the stop flag set for nobody.
* A second decision about a spine overwrites what the first one rejected
  (`library.py:98`), and a review during a run may let a rejected title back in.
* A nightly backup beside a restore passes its drill without its photographs
  (`backup.py:145`). A restore cut short after the database was moved, followed by a server
  start, begins an empty one, and a collection then deletes every photograph. Pruning before the drill
  may evict the good backups; two that overlap may leave the older database under the newer name.
  A backup whose removal a crash cut short may have lost photographs only: restored by name, it
  is taken, as `verify` looks at the manifest and the database (`restore.py:81`). With a reader
  open the log is not folded in, and a crash between moving the database and its log leaves the
  log to the next database.
* A restore cut short while it copies the database leaves a part of the file, and the next
  restore ends on it with an uncaught `DatabaseError` before moving anything, until the file is
  removed by hand (`restore.py:352`); a server does not start on it either. The question
  whether the database is in use is answered by SQLite, which sees a call in progress and not a
  server between two calls (`:346-356`), so that the servers are stopped rests on the operator;
  `Backup` assumes it.
* Merging libraries: a photograph uploaded and filed after the tool listed the tree is
  moved by row, but its file is purged (`merge_library.py:215`); the recheck said to be inside
  the transaction precedes it (`:242-256`), so a copy saved at that instant is lost; a note or a rating
  put on a colliding book of the source after the tool looked at them (`:209`) goes with its row
  at the commit, and no property speaks of it; a request
  that resolved the retired library before the commit strands what it saves after; a crash
  between commit and purge leaves a tree nobody visits (`:364`).

## 8. Not modelled

`PROJECT.json` lists every component with its status.

* *SQLite and in-memory stores*: not modules of their own. Each call is one transaction and
  one step of the handlers; keys, refusals and whole-row saves are modelled where used.
* *Schema migrations*, *legacy import*: rewriting of rows, once, under one lock, before
  anybody is served. Their correctness is about data, not about order.
* *Search, text, history*: functions over Hebrew strings and settled reads that TLC cannot
  enumerate; the models take a book's key as a value.
* *Capability policy, HTTP shell, staff console, interfaces*: a table of roles, shapes of
  requests, read-only queries, rendering. No state of their own.
* *Reader adapter and engine*: segmentation, recognition, language models, fuzzy scores.
  `ReadRuns` and `TuningServer` model what a job sees of them: progress, claims, a stop
  that is honoured, an exception.

Abstracted inside modelled parts: error texts and progress shapes; modes and depths of a
read; tags, reading states and catalogue fields of a book, due dates of a loan; orders and rectangles of
the map, changes of its names, and with them the requests that only rename or redraw; the wishlist in merges;
thumbnails and sidecars; cookies, digests and the provider's own exchange; storeys and
fronts of the drawing. `MapSync` folds binding, unbinding and merging into the one gesture they share
with moving a section, and its liveness is not checked.
