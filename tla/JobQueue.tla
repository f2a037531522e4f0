------------------------------ MODULE JobQueue ------------------------------
(***************************************************************************)
(* The background-job runner of the product:                               *)
(* QueuedJobRunner in app/adapters/queued_jobs.py.                         *)
(*                                                                         *)
(* A bounded pool of worker threads drains one FIFO queue per tenant,      *)
(* round-robin over a ring of the tenants that have something waiting.     *)
(* Every access to the queues and the ring is made under the condition     *)
(* variable _wake, every access to one job's fields under that job's own   *)
(* lock: an action below is one critical section, so a stop may fall       *)
(* between any two of a worker's.                                          *)
(*                                                                         *)
(* Left out: the text of an error, the shape of a progress report, and     *)
(* resubmission under an id already used (callers mint ids).               *)
(***************************************************************************)
EXTENDS Naturals, Sequences, FiniteSets

CONSTANTS
  Jobs,        \* job ids
  Tenants,     \* fairness keys
  Workers,     \* worker threads, QueuedJobRunner(workers=...)
  TenantOf,    \* [Jobs -> Tenants], the tenant each job is submitted for
  Retries,     \* [Jobs -> Nat], the retries each job is submitted with
  NoJob        \* what a worker with no job holds

ASSUME JobsAssumption ==
  /\ NoJob \notin Jobs
  /\ TenantOf \in [Jobs -> Tenants]
  /\ Retries \in [Jobs -> Nat]
  /\ IsFiniteSet(Workers) /\ Workers # {}

VARIABLES
  queues,      \* [Tenants -> Seq(Jobs)]: _queues, no entry being <<>>
  ring,        \* Seq(Tenants): _ring
  state,       \* [Jobs -> States]: _Job.state, "none" before submit
  progress,    \* [Jobs -> Progress]: _Job.progress
  pickedUp,    \* [Jobs -> BOOLEAN]: _Job.picked_up
  stopSet,     \* SUBSET Jobs: those whose stop_event is set
  retriesLeft, \* [Jobs -> Nat]: _Job.retries_left
  pc,          \* [Workers -> WorkerStates]: where each thread is in _worker
  job,         \* [Workers -> Jobs \cup {NoJob}]: the job it holds
  passed       \* history: passed[<<t, u>>] counts the jobs of u taken since
               \* t began to wait or was last served

jobVars    == <<state, progress, pickedUp, stopSet, retriesLeft>>
queueVars  == <<queues, ring, passed>>
workerVars == <<pc, job>>
vars       == <<queueVars, jobVars, workerVars>>

Settled  == {"done", "stopped", "failed"}
States   == {"none", "running"} \cup Settled
Progress == {"none", "queued", "stopped", "working"}

\* unborn: not started yet.   looking: about to call _next_locked.
\* asleep: in _wake.wait().   took: has a job, picked_up not yet set.
\* running: inside fn.        returned / raised: fn is over, not recorded.
Holding      == {"took", "running", "returned", "raised"}
WorkerStates == {"unborn", "looking", "asleep"} \cup Holding

TypeOK ==
  /\ queues \in [Tenants -> Seq(Jobs)]
  /\ ring \in Seq(Tenants)
  /\ state \in [Jobs -> States]
  /\ progress \in [Jobs -> Progress]
  /\ pickedUp \in [Jobs -> BOOLEAN]
  /\ stopSet \in SUBSET Jobs
  /\ retriesLeft \in [Jobs -> Nat]
  /\ pc \in [Workers -> WorkerStates]
  /\ job \in [Workers -> Jobs \cup {NoJob}]
  /\ passed \in [Tenants \X Tenants -> Nat]

Init ==
  /\ queues = [t \in Tenants |-> <<>>]
  /\ ring = <<>>
  /\ state = [j \in Jobs |-> "none"]
  /\ progress = [j \in Jobs |-> "none"]
  /\ pickedUp = [j \in Jobs |-> FALSE]
  /\ stopSet = {}
  /\ retriesLeft = Retries
  /\ pc = [w \in Workers |-> "unborn"]
  /\ job = [w \in Workers |-> NoJob]
  /\ passed = [p \in Tenants \X Tenants |-> 0]

-----------------------------------------------------------------------------
(* Helpers that run under _wake *)

InRing(t) == \E i \in DOMAIN ring : ring[i] = t

EnqueueLocked(j) ==
  /\ queues' = [queues EXCEPT ![TenantOf[j]] = Append(@, j)]
  /\ ring' = IF InRing(TenantOf[j]) THEN ring ELSE Append(ring, TenantOf[j])
  /\ UNCHANGED passed

\* _spawn_workers_locked: every thread missing from the pool is started.
Spawned == [w \in Workers |-> IF pc[w] = "unborn" THEN "looking" ELSE pc[w]]

\* Defect for mutation: nobody is told of the new job.
NotifyForgotten(threads) == {threads}

\* The states _wake.notify() can leave the threads in: one sleeper, if there
\* is any, goes back to looking.
Notify(threads) ==
  LET asleep == {w \in Workers : threads[w] = "asleep"}
  IN  IF asleep = {} THEN {threads}
      ELSE {[threads EXCEPT ![w] = "looking"] : w \in asleep}

\* The position of the ring at which _next_locked finds a job: tenants with
\* nothing queued, which it drops on the way, are skipped.
LiveAt == {i \in DOMAIN ring : queues[ring[i]] # <<>>}
FirstLive == CHOOSE i \in LiveAt : \A k \in LiveAt : i <= k

\* Serving t: every other tenant that waits has been passed over once more.
Served(t) ==
  [p \in Tenants \X Tenants |->
     IF p[1] = t THEN 0
     ELSE IF p[2] = t /\ queues[p[1]] # <<>> THEN passed[p] + 1
     ELSE passed[p]]

-----------------------------------------------------------------------------
(* The port: submit and stop.  status() only reads. *)

Submit(j) ==
  /\ state[j] = "none"
  /\ state' = [state EXCEPT ![j] = "running"]
  /\ progress' = [progress EXCEPT ![j] = "queued"]
  /\ EnqueueLocked(j)
  /\ pc' \in Notify(Spawned)
  /\ UNCHANGED <<pickedUp, stopSet, retriesLeft, job>>

\* Defect for mutation: a settled job accepts the request too.
StopSettledToo(j) ==
  /\ state[j] # "none"
  /\ stopSet' = stopSet \cup {j}
  /\ progress' = [progress EXCEPT ![j] = IF pickedUp[j] THEN @ ELSE "stopped"]
  /\ UNCHANGED <<queueVars, state, pickedUp, retriesLeft, workerVars>>

\* Returns False, and changes nothing, for a job unknown or settled.
Stop(j) ==
  /\ state[j] = "running"
  /\ stopSet' = stopSet \cup {j}
  /\ progress' = [progress EXCEPT ![j] = IF pickedUp[j] THEN @ ELSE "stopped"]
  /\ UNCHANGED <<queueVars, state, pickedUp, retriesLeft, workerVars>>

-----------------------------------------------------------------------------
(* The worker loop *)

\* Defect for mutation: the served tenant goes back to the FRONT of the ring.
TakeAndStayInFront(w) ==
  /\ LiveAt # {}
  /\ LET t == ring[FirstLive]
         rest == SubSeq(ring, FirstLive + 1, Len(ring))
     IN  /\ ring' = IF Len(queues[t]) > 1 THEN <<t>> \o rest ELSE rest
         /\ queues' = [queues EXCEPT ![t] = Tail(@)]
         /\ job' = [job EXCEPT ![w] = Head(queues[t])]
         /\ passed' = Served(t)
  /\ pc' = [pc EXCEPT ![w] = "took"]
  /\ UNCHANGED jobVars

\* _next_locked finds a job: the head of the first tenant with one; that
\* tenant goes to the back of the ring, or leaves it with its last job.
Take(w) ==
  /\ LiveAt # {}
  /\ LET t == ring[FirstLive]
         rest == SubSeq(ring, FirstLive + 1, Len(ring))
     IN  /\ ring' = IF Len(queues[t]) > 1 THEN Append(rest, t) ELSE rest
         /\ queues' = [queues EXCEPT ![t] = Tail(@)]
         /\ job' = [job EXCEPT ![w] = Head(queues[t])]
         /\ passed' = Served(t)
  /\ pc' = [pc EXCEPT ![w] = "took"]
  /\ UNCHANGED jobVars

\* _next_locked finds none: the whole ring was dropped, and the thread waits.
Sleep(w) ==
  /\ LiveAt = {}
  /\ ring' = <<>>
  /\ pc' = [pc EXCEPT ![w] = "asleep"]
  /\ UNCHANGED <<queues, passed, jobVars, job>>

Look(w) == pc[w] = "looking" /\ (Take(w) \/ Sleep(w))

\* Under job.lock.  (`if fn is None` never holds: see HeldJobsAreLive.)
PickUp(w) ==
  /\ pc[w] = "took"
  /\ pc' = [pc EXCEPT ![w] = "running"]
  /\ pickedUp' = [pickedUp EXCEPT ![job[w]] = TRUE]
  /\ progress' = [progress EXCEPT ![job[w]] = IF @ = "queued" THEN "none" ELSE @]
  /\ UNCHANGED <<queueVars, state, stopSet, retriesLeft, job>>

\* fn's half: it reports as often as it likes, and ends one way or the other.
Report(w) ==
  /\ pc[w] = "running"
  /\ progress' = [progress EXCEPT ![job[w]] = "working"]
  /\ UNCHANGED <<queueVars, state, pickedUp, stopSet, retriesLeft, workerVars>>

FnReturns(w) ==
  /\ pc[w] = "running"
  /\ pc' = [pc EXCEPT ![w] = "returned"]
  /\ UNCHANGED <<queueVars, jobVars, job>>

FnRaises(w) ==
  /\ pc[w] = "running"
  /\ pc' = [pc EXCEPT ![w] = "raised"]
  /\ UNCHANGED <<queueVars, jobVars, job>>

MayRetry(j) == retriesLeft[j] > 0 /\ j \notin stopSet

\* Defect for mutation: the retry is counted but not queued.
RequeueForgotten(w) ==
  /\ pc[w] = "raised"
  /\ MayRetry(job[w])
  /\ retriesLeft' = [retriesLeft EXCEPT ![job[w]] = @ - 1]
  /\ progress' = [progress EXCEPT ![job[w]] = "queued"]
  /\ pc' = [pc EXCEPT ![w] = "looking"]
  /\ job' = [job EXCEPT ![w] = NoJob]
  /\ UNCHANGED <<queueVars, state, pickedUp, stopSet>>

\* The except block, under _wake and job.lock: back into the queue ...
Requeue(w) ==
  LET j == job[w] IN
  /\ pc[w] = "raised"
  /\ MayRetry(j)
  /\ retriesLeft' = [retriesLeft EXCEPT ![j] = @ - 1]
  /\ progress' = [progress EXCEPT ![j] = "queued"]
  /\ EnqueueLocked(j)
  /\ pc' \in Notify([pc EXCEPT ![w] = "looking"])
  /\ job' = [job EXCEPT ![w] = NoJob]
  /\ UNCHANGED <<state, pickedUp, stopSet>>

\* ... or settled as failed.
Fail(w) ==
  LET j == job[w] IN
  /\ pc[w] = "raised"
  /\ ~MayRetry(j)
  /\ state' = [state EXCEPT ![j] = "failed"]
  /\ pc' = [pc EXCEPT ![w] = "looking"]
  /\ job' = [job EXCEPT ![w] = NoJob]
  /\ UNCHANGED <<queueVars, progress, pickedUp, stopSet, retriesLeft>>

\* The normal ending, under job.lock: whatever fn itself concluded, the
\* outcome says whether a stop had been requested by now.
Settle(w) ==
  LET j == job[w] IN
  /\ pc[w] = "returned"
  /\ state' = [state EXCEPT ![j] = IF @ # "running" THEN @
                                   ELSE IF j \in stopSet THEN "stopped" ELSE "done"]
  /\ pc' = [pc EXCEPT ![w] = "looking"]
  /\ job' = [job EXCEPT ![w] = NoJob]
  /\ UNCHANGED <<queueVars, progress, pickedUp, stopSet, retriesLeft>>

Work(w) ==
  \/ Look(w) \/ PickUp(w) \/ Report(w) \/ FnReturns(w) \/ FnRaises(w)
  \/ Requeue(w) \/ Fail(w) \/ Settle(w)

Next ==
  \/ \E j \in Jobs : Submit(j) \/ Stop(j)
  \/ \E w \in Workers : Work(w)

\* Threads are scheduled, a notified thread gets the lock, and fn ends: the
\* engine polls should_stop and works through a finite list of photographs.
Fairness ==
  \A w \in Workers :
    /\ WF_vars(Look(w))
    /\ WF_vars(PickUp(w))
    /\ WF_vars(FnReturns(w) \/ FnRaises(w))
    /\ WF_vars(Requeue(w) \/ Fail(w) \/ Settle(w))

Spec     == Init /\ [][Next]_vars
FairSpec == Spec /\ Fairness

-----------------------------------------------------------------------------
(* Properties *)

Queued(j) == \E t \in Tenants : \E i \in DOMAIN queues[t] : queues[t][i] = j
Held(j)   == \E w \in Workers : job[w] = j

\* "tenant in ring <=> non-empty queue" (queued_jobs.py, _next_locked), and
\* no tenant twice: the branch that drops a stale tenant is never needed.
RingMatchesQueues ==
  /\ \A t \in Tenants : InRing(t) <=> queues[t] # <<>>
  /\ \A i, k \in DOMAIN ring : ring[i] = ring[k] => i = k

\* A submitted, unsettled job is in exactly one place: one position of its own
\* tenant's queue or one worker's hands.  Lost, it would show "running" for
\* ever; in two, the engine would be paid for the same photographs twice.
EachJobInOnePlace ==
  /\ \A j \in Jobs : state[j] = "running" <=> Queued(j) \/ Held(j)
  /\ \A j \in Jobs : ~(Queued(j) /\ Held(j))
  /\ \A v, w \in Workers : job[v] = job[w] /\ job[v] # NoJob => v = w
  /\ \A t \in Tenants : \A i \in DOMAIN queues[t] : TenantOf[queues[t][i]] = t
  /\ \A t \in Tenants : \A i, k \in DOMAIN queues[t] :
        queues[t][i] = queues[t][k] => i = k

\* A held job still has its callable (fn is released only on settling), so
\* the worker's `if fn is None` is unreachable.
HeldJobsAreLive ==
  \A w \in Workers :
    /\ job[w] # NoJob <=> pc[w] \in Holding
    /\ job[w] # NoJob => state[job[w]] = "running"

\* One customer's burst does not starve another: while t has work waiting, no
\* other tenant is served twice before t is.
PassedOverAtMostOnce == \A p \in Tenants \X Tenants : passed[p] <= 1

\* No wake-up is lost: a thread sleeps only while every queued job has a
\* thread of its own on the way to the queue.
Looking == {w \in Workers : pc[w] = "looking"}
QueuedJobs == {j \in Jobs : Queued(j)}
NoWakeUpIsLost ==
  (\E w \in Workers : pc[w] = "asleep")
    => Cardinality(QueuedJobs) <= Cardinality(Looking)

\* Every job submitted is eventually settled, stopped and failing ones too.
EveryJobSettles ==
  \A j \in Jobs : state[j] = "running" ~> state[j] \in Settled

-----------------------------------------------------------------------------
(* The promise of the port, and how the queue keeps it *)

Started(j) == Held(j) \/ state[j] \in Settled

Pool == INSTANCE JobPool WITH
          PoolSize  <- Cardinality(Workers),
          waiting   <- queues,
          active    <- {j \in Jobs : Held(j)},
          status    <- state,
          stopAsked <- stopSet,
          attempts  <- [j \in Jobs |-> Retries[j] - retriesLeft[j]
                                         + IF Started(j) THEN 1 ELSE 0]

\* The queue implements the port's promise (JobPool).
ImplementsPool == Pool!Spec

=============================================================================
