------------------------------ MODULE ReadRuns ------------------------------
(***************************************************************************)
(* The life of a read: app/api/routers/reads.py over app/domain/read.py.   *)
(*                                                                         *)
(* start_read stores a row saying "running" and hands the job runner a     *)
(* closure; the closure keeps its own copy of the read, and stores it only *)
(* at its very end.  Between the two, the row is all that anybody else     *)
(* sees: the client's apply, and a person adding by hand a book the engine *)
(* missed (each loads the row, and save_read replaces it whole).  Each     *)
(* call of a store is one transaction, so each is a step; any of them may  *)
(* raise, and the process may die between any two.                         *)
(*                                                                         *)
(* The job runner is JobPool, the promise JobQueue is shown to keep.       *)
(* Claims are counted, not told apart, except those made by hand.  The     *)
(* claims of a read are those reconcile() settles without a question: the  *)
(* others write nothing when a diff is applied unanswered.                 *)
(***************************************************************************)
EXTENDS Naturals, Sequences, FiniteSets

CONSTANTS
  Reads,           \* the reads people ask for, each start_read request its own
  Accounts,        \* the customers
  AccountOf,       \* [Reads -> Accounts]: owning_account of the read's library
  Spines,          \* [Reads -> Nat]: the claims the engine would make
  Findings,        \* the books people add by hand, each request its own
  Cap,             \* RUN_RATE_CAP_PER_HOUR
  RequestThreads,  \* how many start_read requests are served at once
  PoolSize,        \* the workers of the job runner
  Plays            \* what a behaviour is made of, chosen as it starts: the
                   \* reads and findings asked for, the stages of the job whose
                   \* calls may raise, how often the process dies

Stages == {"reader", "snapshot", "apply", "save"}

ASSUME ReadRunsAssumption ==
  /\ IsFiniteSet(Reads)
  /\ AccountOf \in [Reads -> Accounts]
  /\ Spines \in [Reads -> Nat]
  /\ Cap \in Nat /\ RequestThreads \in Nat \ {0}
  /\ Plays \subseteq [reads : SUBSET Reads, findings : SUBSET Findings,
                      fails : SUBSET Stages, crashes : Nat]

VARIABLES
  row,       \* [Reads -> Row]: the reads table
  request,   \* [Reads -> RequestStates]: where start_read is
  phase,     \* [Reads -> Phases]: where the job's run() is
  current,   \* [Reads -> Row]: run()'s local `current`
  booked,    \* [Reads -> Nat]: the claims whose book has been saved
  clients,   \* SUBSET Reads: those whose diff a client's request is applying
  hand,      \* [Findings -> Hand]: where add_a_finding_by_hand is
  sightings, \* <<read, claim>>: the hand-made claims written to a book
  play, crashes,
  waiting, active, status, stopAsked, attempts   \* the runner (JobPool)

\* retries stays 0 on purpose: see start_read's comment.
Retries == [r \in Reads |-> 0]

Runner == INSTANCE JobPool WITH Jobs <- Reads, Tenants <- Accounts,
                                TenantOf <- AccountOf

storeVars  == <<row, booked, sightings>>
runnerVars == <<waiting, active, status, stopAsked, attempts>>
jobVars    == <<phase, current>>
clientVars == <<request, clients, hand>>
bounds     == <<play, crashes>>
vars       == <<storeVars, runnerVars, jobVars, clientVars, bounds>>

Terminal == {"done", "stopped", "failed"}
ByHand   == [by : Findings, n : Nat]     \* a claim made by hand; n is its spine's ~m<n>
Row      == [status : {"absent", "running"} \cup Terminal,
             spines : Nat,               \* the engine's claims
             byHand : SUBSET ByHand,
             summed : BOOLEAN,           \* diff_summary is not None ...
             added  : Nat]               \* ... and what it says the read changed
NoRow    == [status |-> "absent", spines |-> 0, byHand |-> {},
             summed |-> FALSE, added |-> 0]
NewRow   == [NoRow EXCEPT !.status = "running"]

RequestStates == {"new", "checked", "stored", "over"}
Phases        == {"idle", "reading", "ended", "applying", "saving", "saved", "raised"}
Hand          == [pc : {"new", "loaded", "saved", "over"}, read : Reads \cup {"none"},
                  seen : Row]
NoHand        == [pc |-> "new", read |-> "none", seen |-> NoRow]

TypeOK ==
  /\ row \in [Reads -> Row] /\ current \in [Reads -> Row]
  /\ request \in [Reads -> RequestStates]
  /\ phase \in [Reads -> Phases]
  /\ booked \in [Reads -> Nat]
  /\ clients \subseteq Reads
  /\ hand \in [Findings -> Hand]
  /\ sightings \subseteq Reads \X ByHand
  /\ play \in Plays /\ crashes \in 0 .. play.crashes
  /\ waiting \in [Accounts -> Seq(Reads)]
  /\ active \subseteq Reads /\ stopAsked \subseteq Reads
  /\ status \in [Reads -> {"none", "running"} \cup Terminal]
  /\ attempts \in [Reads -> Nat]

Init ==
  /\ row = [r \in Reads |-> NoRow]
  /\ current = [r \in Reads |-> NoRow]
  /\ request = [r \in Reads |-> "new"]
  /\ phase = [r \in Reads |-> "idle"]
  /\ booked = [r \in Reads |-> 0]
  /\ clients = {}
  /\ hand = [f \in Findings |-> NoHand]
  /\ sightings = {}
  /\ play \in Plays
  /\ crashes = 0
  /\ Runner!Init

-----------------------------------------------------------------------------
(* start_read: check the rate, store the row, submit the job *)

RowsOf(a) == {r \in Reads : AccountOf[r] = a /\ row[r].status # "absent"}
InFlight  == {r \in Reads : request[r] \in {"checked", "stored"}}

\* _check_run_rate passes: every read of the last hour counts, whatever its
\* status.  (Everything here happens within the hour.)
CheckRate(r) ==
  /\ r \in play.reads /\ request[r] = "new"
  /\ Cardinality(InFlight) < RequestThreads
  /\ Cardinality(RowsOf(AccountOf[r])) < Cap
  /\ request' = [request EXCEPT ![r] = "checked"]
  /\ UNCHANGED <<storeVars, runnerVars, jobVars, clients, hand, bounds>>

StoreRunning(r) ==
  /\ request[r] = "checked"
  /\ row' = [row EXCEPT ![r] = NewRow]
  /\ request' = [request EXCEPT ![r] = "stored"]
  /\ UNCHANGED <<booked, sightings, runnerVars, jobVars, clients, hand, bounds>>

SubmitJob(r) ==
  /\ request[r] = "stored"
  /\ Runner!Submit(r)
  /\ request' = [request EXCEPT ![r] = "over"]
  /\ UNCHANGED <<storeVars, jobVars, clients, hand, bounds>>

StartRead(r) == CheckRate(r) \/ StoreRunning(r) \/ SubmitJob(r)

\* The stop route: accepted, honoured when the job next looks.
StopRead(r) ==
  /\ Runner!AskStop(r)
  /\ UNCHANGED <<storeVars, jobVars, clientVars, bounds>>

-----------------------------------------------------------------------------
(* The job's run(), on a worker thread *)

JobStep(r, from, to) ==
  /\ phase[r] = from
  /\ phase' = [phase EXCEPT ![r] = to]
  /\ UNCHANGED <<clientVars, bounds>>

\* The runner takes the account's next job: run() begins with the
\* read its closure caught, as start_read made it.
Begin(a) ==
  /\ Runner!Start(a)
  /\ LET r == Head(waiting[a])
     IN  /\ JobStep(r, "idle", "reading")
         /\ current' = [current EXCEPT ![r] = NewRow]
  /\ UNCHANGED storeVars

\* The engine gives up a read only when asked to stop: the rest is cut off.
\* A stop that comes after its last look finds every claim made already.
\* A stopped read that looked at nothing gets no snapshot and no apply.
EndReading(r) ==
  \E n \in 0 .. Spines[r] :
    LET ending == IF r \in stopAsked THEN "stopped" ELSE "done"
        looked == ending = "done" \/ n > 0
    IN  /\ r \notin stopAsked => n = Spines[r]
        /\ JobStep(r, "reading", IF looked THEN "ended" ELSE "saving")
        /\ current' = [current EXCEPT ![r].spines = n, ![r].status = ending]
        /\ UNCHANGED <<storeVars, runnerVars>>

\* reader.read or blobs.put raises, some claims in: fail_read.
ReadingRaises(r) ==
  \E n \in 0 .. Spines[r] :
    /\ "reader" \in play.fails
    /\ JobStep(r, "reading", "saving")
    /\ current' = [current EXCEPT ![r].spines = n, ![r].status = "failed"]
    /\ UNCHANGED <<storeVars, runnerVars>>

\* books.list, list_decisions, reconcile, summarize: what this read changes,
\* a claim whose book already has this very sighting changing nothing.
Summarize(r) ==
  /\ JobStep(r, "ended", "applying")
  /\ current' = [current EXCEPT ![r].summed = TRUE,
                                ![r].added = current[r].spines - booked[r]]
  /\ UNCHANGED <<storeVars, runnerVars>>

\* One of those four raises.  `current` is terminal by now, so fail_read
\* raises ReadAlreadyFinished out of run(), past the save.
SummarizeRaises(r) ==
  /\ "snapshot" \in play.fails
  /\ JobStep(r, "ended", "raised")
  /\ UNCHANGED <<current, storeVars, runnerVars>>

\* apply_diff: one books.save after another ...
ApplyOne(r) ==
  /\ booked[r] < current[r].spines
  /\ JobStep(r, "applying", "applying")
  /\ booked' = [booked EXCEPT ![r] = @ + 1]
  /\ UNCHANGED <<current, row, sightings, runnerVars>>

ApplyEnds(r) ==
  /\ booked[r] = current[r].spines
  /\ JobStep(r, "applying", "saving")
  /\ UNCHANGED <<current, storeVars, runnerVars>>

\* Defect for mutation: the inner handler is gone.
ApplyRaisesOut(r) ==
  /\ "apply" \in play.fails
  /\ JobStep(r, "applying", "raised")
  /\ UNCHANGED <<current, storeVars, runnerVars>>

\* ... any of which may raise; the inner handler logs it and goes on.
ApplyRaises(r) ==
  /\ "apply" \in play.fails
  /\ JobStep(r, "applying", "saving")
  /\ UNCHANGED <<current, storeVars, runnerVars>>

\* reads.save_read(library, current): the whole row is replaced.
Save(r) ==
  /\ JobStep(r, "saving", "saved")
  /\ row' = [row EXCEPT ![r] = current[r]]
  /\ UNCHANGED <<current, booked, sightings, runnerVars>>

SaveRaises(r) ==
  /\ "save" \in play.fails
  /\ JobStep(r, "saving", "raised")
  /\ UNCHANGED <<current, storeVars, runnerVars>>

\* run() is over; the runner settles the job ...
Return(r) ==
  /\ JobStep(r, "saved", "idle")
  /\ Runner!Settle(r) /\ status'[r] # "failed"
  /\ UNCHANGED <<current, storeVars>>

\* ... as failed when it raised, unless it has a retry left.
Raise(r) ==
  /\ JobStep(r, "raised", "idle")
  /\ \/ Runner!Retry(r)
     \/ ~Runner!RetryAllowed(r) /\ Runner!Settle(r) /\ status'[r] = "failed"
  /\ UNCHANGED <<current, storeVars>>

Run(r) ==
  \/ EndReading(r) \/ ReadingRaises(r) \/ Summarize(r) \/ SummarizeRaises(r)
  \/ ApplyOne(r) \/ ApplyEnds(r) \/ ApplyRaises(r) \/ Save(r) \/ SaveRaises(r)
  \/ Return(r) \/ Raise(r)

-----------------------------------------------------------------------------
(* The settled read: the client's apply, and books added by hand *)

IsRunning(r) == row[r].status = "running"

\* Defect for mutation: a running read has a diff too.
DiffOfAny(r) == row[r].status # "absent"

\* diff_for answers 404 without a row and 409 while the read is running.
HasDiff(r) == row[r].status # "absent" /\ ~IsRunning(r)

\* The client's apply-on-settle.  It writes what the job's apply left unwritten.
ClientApply(r) ==
  /\ HasDiff(r) /\ r \notin clients
  /\ clients' = clients \cup {r}
  /\ UNCHANGED <<storeVars, runnerVars, jobVars, request, hand, bounds>>

ClientApplied(r) ==
  /\ r \in clients
  /\ clients' = clients \ {r}
  /\ booked' = [booked EXCEPT ![r] = row[r].spines]
  /\ UNCHANGED <<row, sightings, runnerVars, jobVars, request, hand, bounds>>

\* Defect for mutation: a book may be added to a read still running.
LoadForFindingAnytime(f, r) ==
  /\ f \in play.findings /\ hand[f].pc = "new"
  /\ row[r].status # "absent"
  /\ hand' = [hand EXCEPT ![f] = [pc |-> "loaded", read |-> r, seen |-> row[r]]]
  /\ UNCHANGED <<storeVars, runnerVars, jobVars, request, clients, bounds>>

\* add_a_finding_by_hand loads the read; add_manual_claim refuses one that
\* is running.
LoadForFinding(f, r) ==
  /\ f \in play.findings /\ hand[f].pc = "new"
  /\ row[r].status # "absent" /\ ~IsRunning(r)
  /\ hand' = [hand EXCEPT ![f] = [pc |-> "loaded", read |-> r, seen |-> row[r]]]
  /\ UNCHANGED <<storeVars, runnerVars, jobVars, request, clients, bounds>>

\* _mint_spine_id numbers the claim over those the loaded read carries that
\* were split off the same spine; the model's are all split off one.
MintedBy(f) == [by |-> f, n |-> Cardinality(hand[f].seen.byHand) + 1]

\* save_read replaces the row with the loaded one plus the claim.
SaveFinding(f) ==
  /\ hand[f].pc = "loaded"
  /\ row' = [row EXCEPT ![hand[f].read] =
               [hand[f].seen EXCEPT !.byHand = @ \cup {MintedBy(f)}]]
  /\ hand' = [hand EXCEPT ![f].pc = "saved"]
  /\ UNCHANGED <<booked, sightings, runnerVars, jobVars, request, clients, bounds>>

\* diff_for again, over the row as it now is, and apply_diff.
ApplyFinding(f) ==
  LET r == hand[f].read IN
  /\ hand[f].pc = "saved"
  /\ hand' = [hand EXCEPT ![f].pc = "over"]
  /\ sightings' = sightings \cup {<<r, c>> : c \in row[r].byHand}
  /\ booked' = [booked EXCEPT ![r] = row[r].spines]
  /\ UNCHANGED <<row, runnerVars, jobVars, request, clients, bounds>>

AddFinding(f) ==
  \/ \E r \in Reads : LoadForFinding(f, r)
  \/ SaveFinding(f) \/ ApplyFinding(f)

-----------------------------------------------------------------------------
\* The process dies: the runner's jobs and the requests in flight are gone,
\* the tables stay.  Nothing at start-up looks for reads left running.
Crash ==
  /\ crashes < play.crashes
  /\ crashes' = crashes + 1
  /\ phase' = [r \in Reads |-> "idle"]
  /\ current' = [r \in Reads |-> NoRow]
  /\ request' = [r \in Reads |-> IF request[r] = "new" THEN "new" ELSE "over"]
  /\ clients' = {}
  /\ hand' = [f \in Findings |-> IF hand[f].pc = "new" THEN NoHand
                                 ELSE [hand[f] EXCEPT !.pc = "over"]]
  /\ waiting' = [a \in Accounts |-> <<>>]
  /\ active' = {} /\ stopAsked' = {}
  /\ status' = [r \in Reads |-> "none"]
  /\ attempts' = [r \in Reads |-> 0]
  /\ UNCHANGED <<storeVars, play>>

Next ==
  \/ \E r \in Reads : StartRead(r) \/ StopRead(r) \/ Run(r)
                        \/ ClientApply(r) \/ ClientApplied(r)
  \/ \E a \in Accounts : Begin(a)
  \/ \E f \in Findings : AddFinding(f)
  \/ Crash

\* A request that stored its row goes on to submit; the runner starts what
\* waits (JobQueue's EveryJobSettles); run() does not block for ever.
Fairness ==
  /\ \A r \in Reads : WF_vars(SubmitJob(r)) /\ WF_vars(Run(r))
  /\ \A a \in Accounts : WF_vars(Begin(a))

Spec     == Init /\ [][Next]_vars
FairSpec == Spec /\ Fairness

-----------------------------------------------------------------------------
(* Properties *)

\* domain/read.py: a read settles once.  Whoever saves the row later -- a job
\* with its own old copy, a person with a copy loaded before -- leaves its
\* outcome, the engine's claims and the archived summary as they were.
EvidenceIsFrozen ==
  [][\A r \in Reads : row[r].status \in Terminal =>
        /\ row'[r].status = row[r].status
        /\ row'[r].spines = row[r].spines
        /\ row'[r].summed = row[r].summed /\ row'[r].added = row[r].added]_vars

\* "intentional and safe, not a race" (reads.py, on applying from the job and
\* from the client): nobody else applies a read while its job is applying it.
OneApplierAtATime ==
  \A r \in Reads : phase[r] = "applying" =>
    /\ r \notin clients
    /\ \A f \in Findings : ~(hand[f].pc = "saved" /\ hand[f].read = r)

\* The archived summary is taken before the read's own apply, from wherever
\* that apply comes: it reports all that the read found.
SummaryIsOfTheRead ==
  \A r \in Reads : row[r].summed => row[r].added = row[r].spines

\* The rate cap is read and acted on in two steps, so a burst of requests may
\* pass it together, but by no more than the requests served at once.
CapOvershootIsBounded ==
  \A a \in Accounts : Cardinality(RowsOf(a)) <= Cap + (RequestThreads - 1)

\* The reads are sound between any two calls: rows and jobs have their shapes,
\* a read has one applier, a summary tells of all that was found, and the cap
\* is not passed by more than one burst.
ReadsAreSound ==
  /\ TypeOK
  /\ OneApplierAtATime
  /\ SummaryIsOfTheRead
  /\ CapOvershootIsBounded

\* A read that was stored as running settles, while no process dies and every
\* store call outside run()'s two handlers succeeds: there is nothing else to
\* find a row left running.
Handled == play.crashes = 0 /\ play.fails \subseteq {"reader", "apply"}
EveryReadSettles ==
  \A r \in Reads : Handled /\ row[r].status = "running" ~> row[r].status \in Terminal

=============================================================================
