------------------------------- MODULE JobPool -------------------------------
(***************************************************************************)
(* What app/ports/jobs.py promises of a JobRunner, with no queue policy    *)
(* and no threads: jobs wait FIFO behind their own tenant, a bounded       *)
(* number run at once, an escaping exception spends one of the job's       *)
(* retries, a stop request forbids any further retry, and a settled job    *)
(* stays settled.  JobQueue (app/adapters/queued_jobs.py) implements it.   *)
(***************************************************************************)
EXTENDS Naturals, Sequences, FiniteSets

CONSTANTS
  Jobs,        \* the job ids callers submit
  Tenants,     \* the fairness keys (one per owning account)
  TenantOf,    \* [Jobs -> Tenants]
  Retries,     \* [Jobs -> Nat], the retry budget each job is submitted with
  PoolSize     \* how many jobs may run at once

VARIABLES
  waiting,     \* [Tenants -> Seq(Jobs)], submitted and not running
  active,      \* the jobs whose callable is running
  status,      \* [Jobs -> Statuses], the port's four states, or "none"
  stopAsked,   \* the jobs whose stop was requested
  attempts     \* [Jobs -> Nat], how often the callable was started

vars == <<waiting, active, status, stopAsked, attempts>>

Settled  == {"done", "stopped", "failed"}
Init ==
  /\ waiting = [t \in Tenants |-> <<>>]
  /\ active = {}
  /\ status = [j \in Jobs |-> "none"]
  /\ stopAsked = {}
  /\ attempts = [j \in Jobs |-> 0]

Submit(j) ==
  /\ status[j] = "none"
  /\ status' = [status EXCEPT ![j] = "running"]
  /\ waiting' = [waiting EXCEPT ![TenantOf[j]] = Append(@, j)]
  /\ UNCHANGED <<active, stopAsked, attempts>>

Start(t) ==
  /\ waiting[t] # <<>>
  /\ Cardinality(active) < PoolSize
  /\ active' = active \cup {Head(waiting[t])}
  /\ attempts' = [attempts EXCEPT ![Head(waiting[t])] = @ + 1]
  /\ waiting' = [waiting EXCEPT ![t] = Tail(@)]
  /\ UNCHANGED <<status, stopAsked>>

RetryAllowed(j) == j \notin stopAsked /\ attempts[j] <= Retries[j]

Retry(j) ==
  /\ j \in active
  /\ RetryAllowed(j)
  /\ active' = active \ {j}
  /\ waiting' = [waiting EXCEPT ![TenantOf[j]] = Append(@, j)]
  /\ UNCHANGED <<status, stopAsked, attempts>>

\* A job ends "done" only unstopped and "stopped" only stopped; it ends
\* "failed" only once stopped or out of retries.
Settle(j) ==
  /\ j \in active
  /\ \/ /\ status' = [status EXCEPT ![j] = "done"]
        /\ j \notin stopAsked
     \/ /\ status' = [status EXCEPT ![j] = "stopped"]
        /\ j \in stopAsked
     \/ /\ status' = [status EXCEPT ![j] = "failed"]
        /\ ~RetryAllowed(j)
  /\ active' = active \ {j}
  /\ UNCHANGED <<waiting, stopAsked, attempts>>

AskStop(j) ==
  /\ status[j] = "running"
  /\ stopAsked' = stopAsked \cup {j}
  /\ UNCHANGED <<waiting, active, status, attempts>>

Next ==
  \/ \E j \in Jobs : Submit(j) \/ Retry(j) \/ Settle(j) \/ AskStop(j)
  \/ \E t \in Tenants : Start(t)

Spec == Init /\ [][Next]_vars

=============================================================================
