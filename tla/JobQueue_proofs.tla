--------------------------- MODULE JobQueue_proofs ---------------------------
(***************************************************************************)
(* Proofs about JobQueue, for every set of jobs, tenants and workers.      *)
(***************************************************************************)
EXTENDS JobQueue, SequenceTheorems, FiniteSetTheorems, TLAPS

\* A worker has a job in hand exactly while it is busy with it.
HandsMatch == \A w \in Workers : job[w] # NoJob <=> pc[w] \in Holding

RingInv == TypeOK /\ RingMatchesQueues /\ HandsMatch

-----------------------------------------------------------------------------
(* Sequences and the ring *)

LEMMA AppendFacts ==
  ASSUME NEW S, NEW s \in Seq(S), NEW e \in S
  PROVE  /\ Append(s, e) \in Seq(S)
         /\ Append(s, e) # <<>>
         /\ Len(s) \in Nat
         /\ Len(Append(s, e)) = Len(s) + 1
         /\ DOMAIN s = 1 .. Len(s)
         /\ DOMAIN Append(s, e) = 1 .. Len(s) + 1
         /\ \A i \in 1 .. Len(s) : Append(s, e)[i] = s[i]
         /\ Append(s, e)[Len(s) + 1] = e
BY AppendProperties, LenProperties

LEMMA TailFacts ==
  ASSUME NEW S, NEW s \in Seq(S), s # <<>>
  PROVE  /\ Tail(s) \in Seq(S)
         /\ Head(s) \in S
         /\ Head(s) = s[1]
         /\ Len(s) \in Nat \ {0}
         /\ Len(Tail(s)) = Len(s) - 1
         /\ DOMAIN s = 1 .. Len(s)
         /\ DOMAIN Tail(s) = 1 .. Len(s) - 1
         /\ \A i \in 1 .. Len(s) - 1 : Tail(s)[i] = s[i + 1]
         /\ Tail(s) # <<>> <=> Len(s) > 1
<1>1. Len(s) \in Nat \ {0} /\ DOMAIN s = 1 .. Len(s)
  BY EmptySeq, LenProperties
<1>2. /\ Tail(s) \in Seq(S)
      /\ Head(s) \in S
      /\ Len(Tail(s)) = Len(s) - 1
      /\ \A i \in 1 .. Len(s) - 1 : Tail(s)[i] = s[i + 1]
  BY HeadTailProperties
<1>3. DOMAIN Tail(s) = 1 .. Len(s) - 1
  BY <1>2, LenProperties
<1>4. Head(s) = s[1]
  OBVIOUS
<1>5. Tail(s) # <<>> <=> Len(s) > 1
  <2>1. Len(<<>>) = 0 /\ (Tail(s) # <<>> => Len(Tail(s)) \in Nat \ {0})
    BY <1>2, EmptySeq
  <2>2. CASE Tail(s) = <<>>
    <3>1. Len(Tail(s)) = 0
      BY <2>1, <2>2, Zenon
    <3>2. Len(s) - 1 = 0
      BY <1>2, <3>1, Zenon
    <3>3. \A n \in Nat : n - 1 = 0 => ~(n > 1)
      OBVIOUS
    <3>4. ~(Len(s) > 1)
      BY <1>1, <3>2, <3>3, Zenon
    <3>. QED
      BY <2>2, <3>4, Zenon
  <2>3. CASE Tail(s) # <<>>
    BY <1>1, <1>2, <2>1, <2>3
  <2>. QED
    BY <2>2, <2>3
<1>. QED
  BY <1>1, <1>2, <1>3, <1>4, <1>5

LEMMA RestFacts ==
  ASSUME NEW S, NEW s \in Seq(S), s # <<>>
  PROVE  SubSeq(s, 1 + 1, Len(s)) = Tail(s)
BY TailIsSubSeq

\* What appending a new element does to the elements and to their order.
LEMMA AppendNew ==
  ASSUME NEW S, NEW s \in Seq(S), NEW e \in S,
         \A i, k \in 1 .. Len(s) : s[i] = s[k] => i = k,
         \A i \in 1 .. Len(s) : s[i] # e
  PROVE  /\ \A u : (\E i \in DOMAIN Append(s, e) : Append(s, e)[i] = u)
                     <=> (u = e \/ \E i \in 1 .. Len(s) : s[i] = u)
         /\ \A i, k \in DOMAIN Append(s, e) :
               Append(s, e)[i] = Append(s, e)[k] => i = k
<1>. DEFINE n == Len(s)
            a == Append(s, e)
<1>1. /\ n \in Nat
      /\ DOMAIN a = 1 .. n + 1
      /\ \A i \in 1 .. n : a[i] = s[i]
      /\ a[n + 1] = e
  BY AppendFacts
<1>2. \A i, k \in 1 .. n : s[i] = s[k] => i = k
  OBVIOUS
<1>3. \A i \in 1 .. n : s[i] # e
  OBVIOUS
<1>. HIDE DEF n, a
<1>4. \A u : (\E i \in DOMAIN a : a[i] = u) <=> (u = e \/ \E i \in 1 .. n : s[i] = u)
  BY <1>1
<1>5. \A i, k \in DOMAIN a : a[i] = a[k] => i = k
  BY <1>1, <1>2, <1>3
<1>. QED
  BY <1>4, <1>5 DEF n, a

\* In a ring that matches the queues nothing is stale: the search of
\* _next_locked ends at its first step.
LEMMA FirstOfRing ==
  ASSUME RingInv
  PROVE  /\ LiveAt = DOMAIN ring
         /\ LiveAt # {} => /\ FirstLive = 1
                           /\ ring # <<>>
                           /\ ring[1] \in Tenants
                           /\ queues[ring[1]] # <<>>
                           /\ queues[ring[1]] \in Seq(Jobs)
<1>. USE DEF RingInv, TypeOK
<1>0. DOMAIN ring = 1 .. Len(ring) /\ Len(ring) \in Nat
  BY LenProperties
<1>1. \A i \in DOMAIN ring : ring[i] \in Tenants
  BY <1>0, ElementOfSeq
<1>2. LiveAt = DOMAIN ring
  BY <1>1 DEF RingMatchesQueues, LiveAt, InRing
<1>3. ASSUME LiveAt # {} PROVE 1 \in LiveAt /\ ring # <<>>
  BY <1>0, <1>2, <1>3, EmptySeq
<1>4. ASSUME LiveAt # {} PROVE FirstLive = 1
  <2>1. \A k \in LiveAt : 1 <= k
    BY <1>0, <1>2
  <2>2. ASSUME NEW i \in LiveAt, \A k \in LiveAt : i <= k PROVE i = 1
    <3>1. i \in Nat /\ 1 <= i
      BY <1>0, <1>2
    <3>2. i <= 1
      BY <1>3, <1>4, <2>2
    <3>. QED
      BY <3>1, <3>2
  <2>. QED
    BY <1>3, <1>4, <2>1, <2>2 DEF FirstLive
<1>. QED
  BY <1>1, <1>2, <1>3, <1>4 DEF LiveAt

-----------------------------------------------------------------------------
(* What a step of the queue does, in terms of the sequences *)

LEMMA EnqueueFacts ==
  ASSUME RingInv, NEW j \in Jobs, EnqueueLocked(j)
  PROVE  /\ TenantOf[j] \in Tenants
         /\ queues[TenantOf[j]] \in Seq(Jobs)
         /\ queues' = [queues EXCEPT ![TenantOf[j]] = Append(queues[TenantOf[j]], j)]
         /\ Append(queues[TenantOf[j]], j) \in Seq(Jobs)
         /\ Append(queues[TenantOf[j]], j) # <<>>
         /\ ring' \in Seq(Tenants) /\ queues' \in [Tenants -> Seq(Jobs)]
         /\ InRing(TenantOf[j]) => ring' = ring
         /\ ~InRing(TenantOf[j]) => ring' = Append(ring, TenantOf[j])
<1>1. TenantOf[j] \in Tenants
  BY JobsAssumption
<1>2. queues[TenantOf[j]] \in Seq(Jobs) /\ ring \in Seq(Tenants)
  BY <1>1 DEF RingInv, TypeOK
<1>3. /\ Append(queues[TenantOf[j]], j) \in Seq(Jobs)
      /\ Append(queues[TenantOf[j]], j) # <<>>
      /\ Append(ring, TenantOf[j]) \in Seq(Tenants)
  BY <1>1, <1>2, AppendProperties
<1>4. queues' \in [Tenants -> Seq(Jobs)]
  BY <1>3 DEF EnqueueLocked, RingInv, TypeOK
<1>. QED
  BY <1>1, <1>2, <1>3, <1>4 DEF EnqueueLocked

LEMMA TakeFacts ==
  ASSUME RingInv, NEW w \in Workers, Take(w)
  PROVE  /\ ring # <<>>
         /\ ring[1] \in Tenants
         /\ queues[ring[1]] \in Seq(Jobs)
         /\ queues[ring[1]] # <<>>
         /\ Head(queues[ring[1]]) \in Jobs
         /\ ring' = IF Len(queues[ring[1]]) > 1
                    THEN Append(Tail(ring), ring[1]) ELSE Tail(ring)
         /\ ring' \in Seq(Tenants)
         /\ queues' = [queues EXCEPT ![ring[1]] = Tail(queues[ring[1]])]
         /\ Tail(queues[ring[1]]) \in Seq(Jobs)
         /\ job' = [job EXCEPT ![w] = Head(queues[ring[1]])]
         /\ pc' = [pc EXCEPT ![w] = "took"]
         /\ passed' = Served(ring[1])
         /\ UNCHANGED jobVars
<1>1. /\ LiveAt # {}
      /\ FirstLive = 1
      /\ ring # <<>>
      /\ ring[1] \in Tenants
      /\ queues[ring[1]] # <<>>
      /\ queues[ring[1]] \in Seq(Jobs)
  BY FirstOfRing DEF Take
<1>2. SubSeq(ring, FirstLive + 1, Len(ring)) = Tail(ring)
  BY <1>1, RestFacts DEF RingInv, TypeOK
<1>3. Tail(ring) \in Seq(Tenants) /\ Head(queues[ring[1]]) \in Jobs
      /\ Tail(queues[ring[1]]) \in Seq(Jobs)
  BY <1>1, HeadTailProperties DEF RingInv, TypeOK
<1>4. Append(Tail(ring), ring[1]) \in Seq(Tenants)
  BY <1>1, <1>3, AppendProperties
<1>. QED
  BY <1>1, <1>2, <1>3, <1>4 DEF Take

\* Notify leaves every thread where it was, except that a sleeper may wake.
LEMMA NotifyFacts ==
  ASSUME NEW threads \in [Workers -> WorkerStates], NEW p \in Notify(threads)
  PROVE  /\ p \in [Workers -> WorkerStates]
         /\ \A w \in Workers :
              p[w] = threads[w] \/ (threads[w] = "asleep" /\ p[w] = "looking")
BY DEF Notify, WorkerStates, Holding

LEMMA SpawnedFacts ==
  ASSUME TypeOK
  PROVE  /\ Spawned \in [Workers -> WorkerStates]
         /\ \A w \in Workers :
              Spawned[w] = pc[w] \/ (pc[w] = "unborn" /\ Spawned[w] = "looking")
BY DEF TypeOK, Spawned, WorkerStates, Holding

\* A worker in a holding state has a job in hand.
LEMMA HeldJob ==
  ASSUME RingInv, NEW w \in Workers, pc[w] \in Holding
  PROVE  job[w] \in Jobs
BY DEF RingInv, TypeOK, HandsMatch

-----------------------------------------------------------------------------
(* Types and the ring *)

LEMMA InitRing == Init => RingInv
<1>. SUFFICES ASSUME Init PROVE RingInv
  OBVIOUS
<1>1. <<>> \in Seq(Jobs) /\ <<>> \in Seq(Tenants) /\ DOMAIN <<>> = {}
  BY EmptySeq
<1>2. TypeOK
  BY <1>1, JobsAssumption
     DEF Init, TypeOK, States, Progress, WorkerStates
<1>3. RingMatchesQueues
  BY <1>1 DEF Init, RingMatchesQueues, InRing
<1>4. HandsMatch
  BY DEF Init, HandsMatch, Holding
<1>. QED
  BY <1>2, <1>3, <1>4 DEF RingInv

LEMMA EnqueueKeepsRing ==
  ASSUME RingInv, NEW j \in Jobs, EnqueueLocked(j)
  PROVE  RingMatchesQueues'
<1>. DEFINE t == TenantOf[j]
<1>1. /\ t \in Tenants
      /\ queues' = [queues EXCEPT ![t] = Append(queues[t], j)]
      /\ Append(queues[t], j) # <<>>
      /\ InRing(t) => ring' = ring
      /\ ~InRing(t) => ring' = Append(ring, t)
  BY EnqueueFacts
<1>2. /\ ring \in Seq(Tenants)
      /\ queues \in [Tenants -> Seq(Jobs)]
      /\ DOMAIN ring = 1 .. Len(ring)
      /\ \A u \in Tenants : InRing(u) <=> queues[u] # <<>>
      /\ \A i, k \in 1 .. Len(ring) : ring[i] = ring[k] => i = k
  BY LenProperties DEF RingInv, TypeOK, RingMatchesQueues
<1>. HIDE DEF t
<1>3. \A u \in Tenants : queues'[u] # <<>> <=> (u = t \/ queues[u] # <<>>)
  BY <1>1, <1>2
<1>4. CASE InRing(t)
  BY <1>1, <1>2, <1>3, <1>4 DEF RingMatchesQueues, InRing
<1>5. CASE ~InRing(t)
  <2>1. \A i \in 1 .. Len(ring) : ring[i] # t
    BY <1>2, <1>5 DEF InRing
  <2>2. ring \in Seq(Tenants) /\ t \in Tenants /\ ring' = Append(ring, t)
        /\ \A i, k \in 1 .. Len(ring) : ring[i] = ring[k] => i = k
    BY <1>1, <1>2, <1>5, Zenon
  <2>3. /\ \A u : (\E i \in DOMAIN Append(ring, t) : Append(ring, t)[i] = u)
                    <=> (u = t \/ \E i \in 1 .. Len(ring) : ring[i] = u)
        /\ \A i, k \in DOMAIN Append(ring, t) :
               Append(ring, t)[i] = Append(ring, t)[k] => i = k
    BY <2>1, <2>2, AppendNew, ZenonT(30)
  <2>4. \A u \in Tenants : InRing(u)' <=> (u = t \/ InRing(u))
    BY <1>2, <2>2, <2>3 DEF InRing
  <2>. QED
    BY <1>2, <1>3, <2>2, <2>3, <2>4 DEF RingMatchesQueues
<1>. QED
  BY <1>4, <1>5

LEMMA TakeKeepsRing ==
  ASSUME RingInv, NEW w \in Workers, Take(w)
  PROVE  RingMatchesQueues'
<1>. DEFINE t == ring[1]
            q == queues[t]
            rest == Tail(ring)
<1>1. /\ ring \in Seq(Tenants) /\ ring # <<>> /\ t \in Tenants
      /\ q \in Seq(Jobs) /\ q # <<>>
      /\ queues \in [Tenants -> Seq(Jobs)]
      /\ queues' = [queues EXCEPT ![t] = Tail(q)]
      /\ ring' = IF Len(q) > 1 THEN Append(rest, t) ELSE rest
  BY TakeFacts DEF RingInv, TypeOK
<1>2. Tail(q) # <<>> <=> Len(q) > 1
  BY <1>1, TailFacts
<1>3. /\ Len(ring) \in Nat \ {0}
      /\ DOMAIN ring = 1 .. Len(ring)
      /\ rest \in Seq(Tenants)
      /\ Len(rest) = Len(ring) - 1
      /\ DOMAIN rest = 1 .. Len(ring) - 1
      /\ \A i \in 1 .. Len(ring) - 1 : rest[i] = ring[i + 1]
  BY <1>1, TailFacts
<1>4. \A u \in Tenants : InRing(u) <=> queues[u] # <<>>
  BY DEF RingInv, RingMatchesQueues
<1>5. \A i, k \in 1 .. Len(ring) : ring[i] = ring[k] => i = k
  BY <1>3 DEF RingInv, RingMatchesQueues
<1>6. \A u \in Tenants : (\E i \in 1 .. Len(ring) - 1 : rest[i] = u)
                           <=> (InRing(u) /\ u # t)
  <2>. SUFFICES ASSUME NEW u \in Tenants
                PROVE (\E i \in 1 .. Len(ring) - 1 : rest[i] = u)
                           <=> (InRing(u) /\ u # t)
    OBVIOUS
  <2>1. ASSUME NEW i \in 1 .. Len(ring) - 1, rest[i] = u
        PROVE InRing(u) /\ u # t
    <3>1. i + 1 \in 1 .. Len(ring) /\ i + 1 # 1 /\ 1 \in 1 .. Len(ring)
      BY <1>3
    <3>2. ring[i + 1] = u
      BY <1>3, <2>1
    <3>. QED
      BY <1>3, <1>5, <3>1, <3>2 DEF InRing
  <2>2. ASSUME NEW i \in DOMAIN ring, ring[i] = u, u # t
        PROVE \E k \in 1 .. Len(ring) - 1 : rest[k] = u
    <3>1. i # 1 /\ i \in 1 .. Len(ring)
      BY <1>3, <2>2
    <3>2. i - 1 \in 1 .. Len(ring) - 1 /\ (i - 1) + 1 = i
      BY <1>3, <3>1
    <3>. QED
      BY <1>3, <2>2, <3>2
  <2>. QED
    BY <2>1, <2>2 DEF InRing
<1>7. \A i, k \in 1 .. Len(ring) - 1 : rest[i] = rest[k] => i = k
  <2>. SUFFICES ASSUME NEW i \in 1 .. Len(ring) - 1, NEW k \in 1 .. Len(ring) - 1,
                       rest[i] = rest[k]
                PROVE i = k
    OBVIOUS
  <2>1. i + 1 \in 1 .. Len(ring) /\ k + 1 \in 1 .. Len(ring)
    BY <1>3
  <2>2. i + 1 = k + 1
    BY <1>3, <1>5, <2>1
  <2>. QED
    BY <2>2, <1>3
<1>. HIDE DEF t, q, rest
<1>8. CASE Len(q) > 1
  <2>1. /\ \A i, k \in 1 .. Len(rest) : rest[i] = rest[k] => i = k
        /\ \A i \in 1 .. Len(rest) : rest[i] # t
    BY <1>1, <1>3, <1>6, <1>7, ElementOfSeq
  <2>2. ring' = Append(rest, t)
    BY <1>1, <1>8
  <2>3. /\ \A u : (\E i \in DOMAIN Append(rest, t) : Append(rest, t)[i] = u)
                    <=> (u = t \/ \E i \in 1 .. Len(rest) : rest[i] = u)
        /\ \A i, k \in DOMAIN Append(rest, t) :
               Append(rest, t)[i] = Append(rest, t)[k] => i = k
    <3>1. rest \in Seq(Tenants) /\ t \in Tenants
      BY <1>1, <1>3, Zenon
    <3>. QED
      BY <2>1, <3>1, AppendNew, ZenonT(30)
  <2>4. \A u \in Tenants : InRing(u)' <=> (u = t \/ InRing(u))
    BY <1>3, <1>6, <2>2, <2>3 DEF InRing
  <2>5. \A u \in Tenants : queues'[u] # <<>> <=> (u = t \/ queues[u] # <<>>)
    BY <1>1, <1>2, <1>8
  <2>. QED
    BY <1>4, <2>2, <2>3, <2>4, <2>5 DEF RingMatchesQueues
<1>9. CASE ~(Len(q) > 1)
  <2>1. ring' = rest
    BY <1>1, <1>9
  <2>2. \A u \in Tenants : InRing(u)' <=> (InRing(u) /\ u # t)
    BY <1>3, <1>6, <2>1 DEF InRing
  <2>3. \A u \in Tenants : queues'[u] # <<>> <=> (u # t /\ queues[u] # <<>>)
    BY <1>1, <1>2, <1>9
  <2>. QED
    BY <1>3, <1>4, <1>7, <2>1, <2>2, <2>3 DEF RingMatchesQueues
<1>. QED
  BY <1>8, <1>9

\* Sleeping drops a ring that is empty already.
LEMMA SleepFacts ==
  ASSUME RingInv, NEW w \in Workers, Sleep(w)
  PROVE  UNCHANGED queueVars
<1>1. DOMAIN ring = {}
  BY FirstOfRing DEF Sleep
<1>2. ring = <<>>
  BY <1>1, LenProperties, EmptySeq DEF RingInv, TypeOK
<1>. QED
  BY <1>2 DEF Sleep, queueVars

LEMMA NextKeepsTypes == RingInv /\ [Next]_vars => TypeOK'
<1>. SUFFICES ASSUME RingInv, [Next]_vars PROVE TypeOK'
  OBVIOUS
<1>0. TypeOK
  BY DEF RingInv
<1>1. ASSUME NEW j \in Jobs, Submit(j) PROVE TypeOK'
  <2>1. EnqueueLocked(j) /\ UNCHANGED <<pickedUp, stopSet, retriesLeft, job, passed>>
    BY <1>1 DEF Submit, EnqueueLocked
  <2>2. ring' \in Seq(Tenants) /\ queues' \in [Tenants -> Seq(Jobs)]
    BY <2>1, EnqueueFacts
  <2>3. pc' \in [Workers -> WorkerStates]
    BY <1>0, <1>1, SpawnedFacts, NotifyFacts DEF Submit
  <2>4. state' \in [Jobs -> States] /\ progress' \in [Jobs -> Progress]
    BY <1>0, <1>1 DEF Submit, TypeOK, States, Progress
  <2>. QED
    BY <1>0, <2>1, <2>2, <2>3, <2>4 DEF TypeOK
<1>2. ASSUME NEW j \in Jobs, Stop(j) PROVE TypeOK'
  BY <1>0, <1>2 DEF Stop, queueVars, workerVars, TypeOK, Progress
<1>3. ASSUME NEW w \in Workers, Take(w) PROVE TypeOK'
  <2>1. /\ ring' \in Seq(Tenants) /\ queues' \in [Tenants -> Seq(Jobs)]
        /\ job' \in [Workers -> Jobs \cup {NoJob}]
        /\ pc' \in [Workers -> WorkerStates]
        /\ passed' = Served(ring[1]) /\ UNCHANGED jobVars
    BY <1>0, <1>3, TakeFacts DEF TypeOK, WorkerStates, Holding
  <2>2. passed' \in [Tenants \X Tenants -> Nat]
    BY <1>0, <2>1 DEF Served, TypeOK
  <2>. QED
    BY <1>0, <2>1, <2>2 DEF jobVars, TypeOK
<1>4. ASSUME NEW w \in Workers, Sleep(w) PROVE TypeOK'
  <2>1. UNCHANGED queueVars
    BY <1>4, SleepFacts
  <2>. QED
    BY <1>0, <1>4, <2>1 DEF Sleep, queueVars, jobVars, TypeOK, WorkerStates
<1>5. ASSUME NEW w \in Workers, PickUp(w) PROVE TypeOK'
  BY <1>0, <1>5 DEF PickUp, queueVars, TypeOK, WorkerStates, Holding, Progress
<1>6. ASSUME NEW w \in Workers, Report(w) PROVE TypeOK'
  BY <1>0, <1>6 DEF Report, queueVars, workerVars, TypeOK, Progress
<1>7. ASSUME NEW w \in Workers, FnReturns(w) \/ FnRaises(w) PROVE TypeOK'
  BY <1>0, <1>7
     DEF FnReturns, FnRaises, queueVars, jobVars, TypeOK, WorkerStates, Holding
<1>8. ASSUME NEW w \in Workers, Requeue(w) PROVE TypeOK'
  <2>1. job[w] \in Jobs
    BY <1>8, HeldJob DEF Requeue, Holding
  <2>2. /\ EnqueueLocked(job[w])
        /\ UNCHANGED <<state, pickedUp, stopSet, passed>>
    BY <1>8 DEF Requeue, EnqueueLocked
  <2>3. ring' \in Seq(Tenants) /\ queues' \in [Tenants -> Seq(Jobs)]
    BY <2>1, <2>2, EnqueueFacts
  <2>4. pc' \in [Workers -> WorkerStates]
    <3>1. [pc EXCEPT ![w] = "looking"] \in [Workers -> WorkerStates]
      BY <1>0 DEF TypeOK, WorkerStates
    <3>. QED
      BY <1>8, <3>1, NotifyFacts DEF Requeue
  <2>5. retriesLeft' \in [Jobs -> Nat]
    BY <1>0, <1>8, <2>1 DEF Requeue, MayRetry, TypeOK
  <2>6. /\ progress' \in [Jobs -> Progress]
        /\ job' \in [Workers -> Jobs \cup {NoJob}]
    BY <1>0, <1>8 DEF Requeue, TypeOK, Progress
  <2>. QED
    BY <1>0, <2>2, <2>3, <2>4, <2>5, <2>6 DEF TypeOK
<1>9. ASSUME NEW w \in Workers, Fail(w) \/ Settle(w) PROVE TypeOK'
  BY <1>0, <1>9
     DEF Fail, Settle, queueVars, TypeOK, States, Settled, WorkerStates
<1>10. CASE UNCHANGED vars
  BY <1>0, <1>10 DEF vars, queueVars, jobVars, workerVars, TypeOK
<1>. QED
  BY <1>1, <1>2, <1>3, <1>4, <1>5, <1>6, <1>7, <1>8, <1>9, <1>10
     DEF Next, Work, Look

LEMMA NextKeepsRing == RingInv /\ [Next]_vars => RingMatchesQueues'
<1>. SUFFICES ASSUME RingInv, [Next]_vars PROVE RingMatchesQueues'
  OBVIOUS
<1>1. ASSUME NEW j \in Jobs, Submit(j) PROVE RingMatchesQueues'
  BY <1>1, EnqueueKeepsRing DEF Submit
<1>2. ASSUME NEW w \in Workers, Take(w) PROVE RingMatchesQueues'
  BY <1>2, TakeKeepsRing
<1>3. ASSUME NEW w \in Workers, Requeue(w) PROVE RingMatchesQueues'
  BY <1>3, HeldJob, EnqueueKeepsRing DEF Requeue, Holding
<1>4. CASE UNCHANGED queueVars
  BY <1>4 DEF queueVars, RingInv, RingMatchesQueues, InRing
<1>. QED
  BY <1>1, <1>2, <1>3, <1>4, SleepFacts
     DEF Next, Work, Look, Stop, PickUp, Report, FnReturns, FnRaises, Fail, Settle,
         vars

LEMMA NextKeepsHands == RingInv /\ [Next]_vars => HandsMatch'
<1>. SUFFICES ASSUME RingInv, [Next]_vars PROVE HandsMatch'
  OBVIOUS
<1>. USE DEF HandsMatch
<1>0. TypeOK /\ HandsMatch
  BY DEF RingInv
<1>1. ASSUME NEW j \in Jobs, Submit(j) PROVE HandsMatch'
  <2>1. pc' \in Notify(Spawned) /\ job' = job
    BY <1>1 DEF Submit
  <2>2. \A w \in Workers : pc'[w] \in Holding <=> pc[w] \in Holding
    BY <1>0, <2>1, SpawnedFacts, NotifyFacts DEF Holding
  <2>. QED
    BY <1>0, <2>1, <2>2
<1>2. ASSUME NEW w \in Workers, Take(w) PROVE HandsMatch'
  <2>1. /\ Head(queues[ring[1]]) \in Jobs
        /\ job' = [job EXCEPT ![w] = Head(queues[ring[1]])]
        /\ pc' = [pc EXCEPT ![w] = "took"]
    BY <1>2, TakeFacts
  <2>2. Head(queues[ring[1]]) # NoJob
    BY <2>1, JobsAssumption
  <2>. QED
    BY <1>0, <2>1, <2>2 DEF TypeOK, Holding
<1>3. ASSUME NEW w \in Workers, pc[w] = "looking", Sleep(w) PROVE HandsMatch'
  BY <1>0, <1>3 DEF Sleep, TypeOK, Holding
<1>4. ASSUME NEW w \in Workers, PickUp(w) \/ FnReturns(w) \/ FnRaises(w)
      PROVE HandsMatch'
  BY <1>0, <1>4 DEF PickUp, FnReturns, FnRaises, TypeOK, Holding
<1>5. ASSUME NEW w \in Workers, Requeue(w) PROVE HandsMatch'
  <2>1. [pc EXCEPT ![w] = "looking"] \in [Workers -> WorkerStates]
    BY <1>0 DEF TypeOK, WorkerStates
  <2>2. /\ pc' \in Notify([pc EXCEPT ![w] = "looking"])
        /\ job' = [job EXCEPT ![w] = NoJob]
    BY <1>5 DEF Requeue
  <2>3. \A v \in Workers :
          \/ pc'[v] = [pc EXCEPT ![w] = "looking"][v]
          \/ [pc EXCEPT ![w] = "looking"][v] = "asleep" /\ pc'[v] = "looking"
    BY <2>1, <2>2, NotifyFacts
  <2>4. \A v \in Workers : pc'[v] \in Holding <=> (v # w /\ pc[v] \in Holding)
    BY <1>0, <2>3 DEF Holding, TypeOK
  <2>. QED
    BY <1>0, <2>2, <2>4 DEF TypeOK
<1>6. ASSUME NEW w \in Workers, Fail(w) \/ Settle(w) PROVE HandsMatch'
  BY <1>0, <1>6 DEF Fail, Settle, TypeOK, Holding
<1>7. CASE UNCHANGED workerVars
  BY <1>0, <1>7 DEF workerVars
<1>. QED
  BY <1>1, <1>2, <1>3, <1>4, <1>5, <1>6, <1>7
     DEF Next, Work, Look, Stop, Report, vars

LEMMA RingInvInductive == RingInv /\ [Next]_vars => RingInv'
BY NextKeepsTypes, NextKeepsRing, NextKeepsHands DEF RingInv

\* Every reachable state is well-typed, whatever the jobs, tenants and workers.
THEOREM TypeCorrect == Spec => []TypeOK
<1>1. RingInv => TypeOK
  BY DEF RingInv
<1>. QED
  BY InitRing, RingInvInductive, <1>1, PTL DEF Spec

\* The invariant _next_locked's comment claims: a tenant is in the ring
\* exactly while it has something queued, and once.
THEOREM RingCorrect == Spec => []RingMatchesQueues
<1>1. RingInv => RingMatchesQueues
  BY DEF RingInv
<1>. QED
  BY InitRing, RingInvInductive, <1>1, PTL DEF Spec

-----------------------------------------------------------------------------
(* The round robin is fair, for every number of customers: the counting      *)
(* argument _next_locked relies on.                                          *)

\* What makes PassedOverAtMostOnce inductive: whoever stands ahead of a tenant
\* in the ring has not been served while that tenant waits, and a tenant that
\* waits for nothing has not been passed over.
RingOrder ==
  /\ \A i, k \in DOMAIN ring : k < i => passed[<<ring[i], ring[k]>>] = 0
  /\ \A t, u \in Tenants : ~InRing(t) => passed[<<t, u>>] = 0

PassInv == RingInv /\ RingOrder /\ PassedOverAtMostOnce

\* PassedOverAtMostOnce, one pair of tenants at a time.
LEMMA PassedPairs ==
  ASSUME PassInv
  PROVE  \A t, u \in Tenants : passed[<<t, u>>] \in Nat /\ passed[<<t, u>>] <= 1
BY DEF PassInv, RingInv, TypeOK, PassedOverAtMostOnce

\* The history variable after t was served.
LEMMA ServedFacts ==
  ASSUME PassInv, NEW t \in Tenants
  PROVE  /\ \A u \in Tenants : Served(t)[<<t, u>>] = 0
         /\ \A u, v \in Tenants : u # t /\ v # t =>
               Served(t)[<<u, v>>] = passed[<<u, v>>]
         /\ \A u \in Tenants : u # t =>
               Served(t)[<<u, t>>] = IF InRing(u) THEN passed[<<u, t>>] + 1
                                     ELSE passed[<<u, t>>]
         /\ \A p \in Tenants \X Tenants : \E u, v \in Tenants : p = <<u, v>>
<1>1. \A u \in Tenants : InRing(u) <=> queues[u] # <<>>
  BY DEF PassInv, RingInv, RingMatchesQueues
<1>2. \A u, v \in Tenants :
        Served(t)[<<u, v>>] = IF u = t THEN 0
                              ELSE IF v = t /\ queues[u] # <<>> THEN passed[<<u, v>>] + 1
                              ELSE passed[<<u, v>>]
  BY DEF Served
<1>. QED
  BY <1>1, <1>2

\* Whoever is served was first in the ring: nobody who waits was passed over
\* by it before.
LEMMA FirstIsFresh ==
  ASSUME PassInv, ring # <<>>, NEW u \in Tenants, u # ring[1]
  PROVE  passed[<<u, ring[1]>>] = 0
<1>1. DOMAIN ring = 1 .. Len(ring) /\ Len(ring) \in Nat \ {0} /\ ring[1] \in Tenants
  BY LenProperties, EmptySeq, ElementOfSeq DEF PassInv, RingInv, TypeOK
<1>2. CASE InRing(u)
  <2>1. PICK i \in DOMAIN ring : ring[i] = u
    BY <1>2 DEF InRing
  <2>2. i \in Nat /\ 1 < i /\ 1 \in DOMAIN ring
    BY <1>1, <2>1
  <2>. QED
    BY <2>1, <2>2 DEF PassInv, RingOrder
<1>3. CASE ~InRing(u)
  BY <1>1, <1>3 DEF PassInv, RingOrder
<1>. QED
  BY <1>2, <1>3

LEMMA TakeKeepsPass ==
  ASSUME PassInv, NEW w \in Workers, Take(w)
  PROVE  RingOrder' /\ PassedOverAtMostOnce'
<1>. DEFINE t == ring[1]
            q == queues[t]
            rest == Tail(ring)
            r == ring'
            n == Len(ring)
<1>1. RingInv
  BY DEF PassInv
<1>2. /\ ring \in Seq(Tenants) /\ ring # <<>> /\ t \in Tenants
      /\ ring' = IF Len(q) > 1 THEN Append(rest, t) ELSE rest
      /\ passed' = Served(t)
  BY <1>1, TakeFacts DEF RingInv, TypeOK
<1>3. /\ Len(ring) \in Nat \ {0}
      /\ DOMAIN ring = 1 .. Len(ring)
      /\ rest \in Seq(Tenants)
      /\ Len(rest) = Len(ring) - 1
      /\ DOMAIN rest = 1 .. Len(ring) - 1
      /\ \A i \in 1 .. Len(ring) - 1 : rest[i] = ring[i + 1]
      /\ \A i \in 1 .. Len(ring) : ring[i] \in Tenants
  BY <1>2, TailFacts, ElementOfSeq
<1>4. \A i, k \in 1 .. Len(ring) : ring[i] = ring[k] => i = k
  BY <1>1, <1>3 DEF RingInv, RingMatchesQueues
<1>5. \A i, k \in 1 .. Len(ring) : k < i => passed[<<ring[i], ring[k]>>] = 0
  BY <1>3 DEF PassInv, RingOrder
<1>6. /\ \A u \in Tenants : passed'[<<t, u>>] = 0
      /\ \A u, v \in Tenants : u # t /\ v # t => passed'[<<u, v>>] = passed[<<u, v>>]
      /\ \A u \in Tenants : u # t =>
            passed'[<<u, t>>] = IF InRing(u) THEN 1 ELSE 0
      /\ \A p \in Tenants \X Tenants : \E u, v \in Tenants : p = <<u, v>>
  BY <1>2, ServedFacts, FirstIsFresh
<1>7. \A u \in Tenants : u # t /\ InRing(u) => \E i \in 1 .. Len(ring) - 1 : rest[i] = u
  <2>. SUFFICES ASSUME NEW u \in Tenants, u # t, NEW i \in DOMAIN ring, ring[i] = u
                PROVE \E k \in 1 .. Len(ring) - 1 : rest[k] = u
    BY DEF InRing
  <2>1. i \in 1 .. Len(ring) /\ i # 1
    BY <1>3
  <2>2. i - 1 \in 1 .. Len(ring) - 1 /\ (i - 1) + 1 = i
    BY <1>3, <2>1
  <2>. QED
    BY <1>3, <2>2
<1>8. \A i \in 1 .. Len(ring) - 1 : rest[i] \in Tenants /\ rest[i] # t
  <2>. SUFFICES ASSUME NEW i \in 1 .. Len(ring) - 1
                PROVE rest[i] \in Tenants /\ rest[i] # t
    OBVIOUS
  <2>1. i + 1 \in 1 .. Len(ring) /\ i + 1 # 1 /\ 1 \in 1 .. Len(ring)
    BY <1>3
  <2>. QED
    BY <1>3, <1>4, <2>1
<1>9. \A i, k \in 1 .. Len(ring) - 1 : k < i => passed'[<<rest[i], rest[k]>>] = 0
  <2>. SUFFICES ASSUME NEW i \in 1 .. Len(ring) - 1, NEW k \in 1 .. Len(ring) - 1, k < i
                PROVE passed'[<<rest[i], rest[k]>>] = 0
    OBVIOUS
  <2>1. i + 1 \in 1 .. Len(ring) /\ k + 1 \in 1 .. Len(ring) /\ k + 1 < i + 1
    BY <1>3
  <2>2. passed[<<ring[i + 1], ring[k + 1]>>] = 0
    BY <1>5, <2>1
  <2>. QED
    BY <1>3, <1>6, <1>8, <2>2
<1>. HIDE DEF t, q, rest, r, n
<1>10. PassedOverAtMostOnce'
  <2>1. ASSUME NEW u \in Tenants, NEW v \in Tenants PROVE passed'[<<u, v>>] <= 1
    <3>1. CASE u = t
      BY <1>6, <3>1
    <3>2. CASE u # t /\ v = t
      BY <1>6, <3>2
    <3>3. CASE u # t /\ v # t
      BY <1>6, <3>3, PassedPairs
    <3>. QED
      BY <3>1, <3>2, <3>3
  <2>. QED
    BY <1>6, <2>1 DEF PassedOverAtMostOnce
<1>11. \A u \in Tenants : u # t /\ ~InRing(u) => \A v \in Tenants : passed'[<<u, v>>] = 0
  BY <1>6 DEF PassInv, RingOrder
<1>12. CASE Len(q) > 1
  <2>1. /\ n \in Nat
        /\ DOMAIN r = 1 .. n
        /\ \A i \in 1 .. n - 1 : r[i] = rest[i]
        /\ r[n] = t
    <3>1. r = Append(rest, t)
      BY <1>2, <1>12 DEF r
    <3>2. n \in Nat /\ Len(rest) = n - 1 /\ (n - 1) + 1 = n
      BY <1>3 DEF n
    <3>. QED
      BY <1>2, <1>3, <3>1, <3>2, AppendFacts
  <2>2. ASSUME NEW i \in DOMAIN r, NEW k \in DOMAIN r, k < i
        PROVE passed'[<<r[i], r[k]>>] = 0
    <3>1. k \in 1 .. n - 1
      BY <2>1, <2>2
    <3>2. CASE i = n
      BY <1>6, <1>8, <2>1, <3>1, <3>2 DEF n
    <3>3. CASE i # n
      <4>1. i \in 1 .. n - 1
        BY <2>1, <3>3
      <4>. QED
        BY <1>9, <2>1, <2>2, <3>1, <4>1 DEF n
    <3>. QED
      BY <3>2, <3>3
  <2>3. ASSUME NEW u \in Tenants, NEW v \in Tenants, ~\E i \in DOMAIN r : r[i] = u
        PROVE passed'[<<u, v>>] = 0
    <3>1. \A i \in 1 .. n - 1 : i \in DOMAIN r /\ r[i] = rest[i]
      BY <2>1
    <3>2. u = t \/ ~InRing(u)
      BY <1>7, <2>3, <3>1 DEF n
    <3>. QED
      BY <1>6, <1>11, <3>2
  <2>. QED
    BY <1>10, <2>2, <2>3 DEF RingOrder, InRing, r
<1>13. CASE ~(Len(q) > 1)
  <2>1. r = rest
    BY <1>2, <1>13 DEF r
  <2>2. DOMAIN r = 1 .. n - 1
    BY <1>3, <2>1 DEF n
  <2>3. \A i, k \in DOMAIN r : k < i => passed'[<<r[i], r[k]>>] = 0
    BY <1>9, <2>1, <2>2 DEF n
  <2>4. ASSUME NEW u \in Tenants, NEW v \in Tenants, ~\E i \in DOMAIN r : r[i] = u
        PROVE passed'[<<u, v>>] = 0
    <3>1. u = t \/ ~InRing(u)
      BY <1>7, <2>1, <2>2, <2>4 DEF n
    <3>. QED
      BY <1>6, <1>11, <3>1
  <2>. QED
    BY <1>10, <2>3, <2>4 DEF RingOrder, InRing, r
<1>. QED
  BY <1>12, <1>13

LEMMA EnqueueKeepsPass ==
  ASSUME PassInv, NEW j \in Jobs, EnqueueLocked(j)
  PROVE  RingOrder' /\ PassedOverAtMostOnce'
<1>. DEFINE t == TenantOf[j]
<1>1. RingInv
  BY DEF PassInv
<1>2. /\ t \in Tenants
      /\ InRing(t) => ring' = ring
      /\ ~InRing(t) => ring' = Append(ring, t)
      /\ passed' = passed
      /\ ring \in Seq(Tenants)
  BY <1>1, EnqueueFacts DEF EnqueueLocked, RingInv, TypeOK
<1>3. /\ Len(ring) \in Nat
      /\ DOMAIN ring = 1 .. Len(ring)
      /\ \A i \in 1 .. Len(ring) : ring[i] \in Tenants
  BY <1>2, LenProperties, ElementOfSeq
<1>4. PassedOverAtMostOnce'
  BY <1>2 DEF PassInv, PassedOverAtMostOnce
<1>. HIDE DEF t
<1>5. CASE InRing(t)
  BY <1>2, <1>4, <1>5 DEF PassInv, RingOrder, InRing
<1>6. CASE ~InRing(t)
  <2>1. /\ DOMAIN ring' = 1 .. Len(ring) + 1
        /\ \A i \in 1 .. Len(ring) : ring'[i] = ring[i]
        /\ ring'[Len(ring) + 1] = t
    BY <1>2, <1>6, AppendFacts
  <2>2. ASSUME NEW i \in DOMAIN ring', NEW k \in DOMAIN ring', k < i
        PROVE passed'[<<ring'[i], ring'[k]>>] = 0
    <3>1. k \in 1 .. Len(ring)
      BY <1>3, <2>1, <2>2
    <3>2. CASE i = Len(ring) + 1
      BY <1>2, <1>3, <1>6, <2>1, <3>1, <3>2 DEF PassInv, RingOrder
    <3>3. CASE i # Len(ring) + 1
      <4>1. i \in 1 .. Len(ring)
        BY <1>3, <2>1, <3>3
      <4>. QED
        BY <1>2, <1>3, <2>1, <2>2, <3>1, <4>1 DEF PassInv, RingOrder
    <3>. QED
      BY <3>2, <3>3
  <2>3. ASSUME NEW u \in Tenants, NEW v \in Tenants, ~InRing(u)'
        PROVE passed'[<<u, v>>] = 0
    <3>1. \A i \in 1 .. Len(ring) : i \in DOMAIN ring' /\ ring'[i] = ring[i]
      BY <1>3, <2>1
    <3>2. ~InRing(u)
      BY <1>3, <2>3, <3>1 DEF InRing
    <3>. QED
      BY <1>2, <3>2 DEF PassInv, RingOrder
  <2>. QED
    BY <1>4, <2>2, <2>3 DEF RingOrder
<1>. QED
  BY <1>5, <1>6

LEMMA InitPass == Init => PassInv
<1>. SUFFICES ASSUME Init PROVE PassInv
  OBVIOUS
<1>1. RingInv
  BY InitRing
<1>2. DOMAIN ring = {}
  BY EmptySeq DEF Init
<1>3. RingOrder /\ PassedOverAtMostOnce
  BY <1>2 DEF Init, RingOrder, InRing, PassedOverAtMostOnce
<1>. QED
  BY <1>1, <1>3 DEF PassInv

LEMMA PassInvInductive == PassInv /\ [Next]_vars => PassInv'
<1>. SUFFICES ASSUME PassInv, [Next]_vars PROVE PassInv'
  OBVIOUS
<1>1. RingInv /\ RingInv'
  BY RingInvInductive DEF PassInv
<1>2. ASSUME NEW j \in Jobs, Submit(j) PROVE RingOrder' /\ PassedOverAtMostOnce'
  BY <1>2, EnqueueKeepsPass DEF Submit
<1>3. ASSUME NEW w \in Workers, Take(w) PROVE RingOrder' /\ PassedOverAtMostOnce'
  BY <1>3, TakeKeepsPass
<1>4. ASSUME NEW w \in Workers, Requeue(w) PROVE RingOrder' /\ PassedOverAtMostOnce'
  BY <1>1, <1>4, HeldJob, EnqueueKeepsPass DEF Requeue, Holding
<1>5. ASSUME UNCHANGED queueVars PROVE RingOrder' /\ PassedOverAtMostOnce'
  BY <1>5 DEF queueVars, PassInv, RingOrder, InRing, PassedOverAtMostOnce
<1>6. ASSUME NEW w \in Workers, Sleep(w) PROVE UNCHANGED queueVars
  BY <1>1, <1>6, SleepFacts
<1>7. RingOrder' /\ PassedOverAtMostOnce'
  BY <1>2, <1>3, <1>4, <1>5, <1>6
     DEF Next, Work, Look, Stop, PickUp, Report, FnReturns, FnRaises, Fail, Settle,
         vars
<1>. QED
  BY <1>1, <1>7 DEF PassInv

\* One customer's burst never starves another (_next_locked): while a tenant
\* waits, no other tenant is served twice, however many there are.
THEOREM RoundRobinIsFair == Spec => []PassedOverAtMostOnce
<1>1. PassInv => PassedOverAtMostOnce
  BY DEF PassInv
<1>. QED
  BY InitPass, PassInvInductive, <1>1, PTL DEF Spec

-----------------------------------------------------------------------------
(***************************************************************************)
(* No job is lost and none is worked on twice: every job submitted and not *)
(* settled is in exactly one place, whatever the retry budget.             *)
(***************************************************************************)
\* The half of EachJobInOnePlace that is about the queues alone.
QueuesDistinct ==
  /\ \A t \in Tenants : \A i \in DOMAIN queues[t] : TenantOf[queues[t][i]] = t
  /\ \A t \in Tenants : \A i, k \in DOMAIN queues[t] :
        queues[t][i] = queues[t][k] => i = k

\* The half that is about the workers: what a thread holds is live, held by
\* nobody else and queued nowhere; and nothing else is live but what is queued.
HandsDistinct ==
  /\ \A j \in Jobs : state[j] = "running" <=> Queued(j) \/ Held(j)
  /\ \A j \in Jobs : ~(Queued(j) /\ Held(j))
  /\ \A v, w \in Workers : job[v] = job[w] /\ job[v] # NoJob => v = w

PlacesInv == RingInv /\ QueuesDistinct /\ HandsDistinct

\* Together the halves are the invariants the runs check.
LEMMA PlacesGive == PlacesInv => EachJobInOnePlace /\ HeldJobsAreLive
<1>. SUFFICES ASSUME PlacesInv PROVE EachJobInOnePlace /\ HeldJobsAreLive
  OBVIOUS
<1>1. EachJobInOnePlace
  BY DEF PlacesInv, QueuesDistinct, HandsDistinct, EachJobInOnePlace
<1>2. \A w \in Workers : job[w] # NoJob => job[w] \in Jobs /\ Held(job[w])
  BY DEF PlacesInv, RingInv, TypeOK, Held
<1>3. \A w \in Workers : job[w] # NoJob => state[job[w]] = "running"
  BY <1>2 DEF PlacesInv, HandsDistinct
<1>. QED
  BY <1>1, <1>3 DEF PlacesInv, RingInv, HandsMatch, HeldJobsAreLive

\* A job stands in its own tenant's queue or in none.
LEMMA QueuedAt ==
  ASSUME RingInv, QueuesDistinct, NEW j \in Jobs
  PROVE  Queued(j) <=> \E i \in DOMAIN queues[TenantOf[j]] : queues[TenantOf[j]][i] = j
BY JobsAssumption DEF Queued, QueuesDistinct

-----------------------------------------------------------------------------
(* The two steps that change the queues *)

LEMMA EnqueuePlaces ==
  ASSUME RingInv, QueuesDistinct, NEW j \in Jobs, ~Queued(j), EnqueueLocked(j)
  PROVE  /\ QueuesDistinct'
         /\ \A i \in Jobs : Queued(i)' <=> Queued(i) \/ i = j
<1>. DEFINE t == TenantOf[j]
            q == queues[t]
            a == Append(q, j)
<1>1. /\ t \in Tenants /\ q \in Seq(Jobs)
      /\ queues' = [queues EXCEPT ![t] = a]
      /\ queues \in [Tenants -> Seq(Jobs)]
  BY EnqueueFacts DEF RingInv, TypeOK
<1>2. DOMAIN q = 1 .. Len(q)
  BY <1>1, LenProperties
<1>3. \A i \in 1 .. Len(q) : q[i] # j
  BY <1>1, <1>2 DEF Queued
<1>4. \A i, k \in 1 .. Len(q) : q[i] = q[k] => i = k
  BY <1>1, <1>2 DEF QueuesDistinct
<1>5. /\ \A u : (\E i \in DOMAIN a : a[i] = u) <=> (u = j \/ \E i \in DOMAIN q : q[i] = u)
      /\ \A i, k \in DOMAIN a : a[i] = a[k] => i = k
  <2>1. q \in Seq(Jobs) /\ j \in Jobs
    BY <1>1
  <2>2. /\ \A u : (\E i \in DOMAIN a : a[i] = u)
                    <=> (u = j \/ \E i \in 1 .. Len(q) : q[i] = u)
        /\ \A i, k \in DOMAIN a : a[i] = a[k] => i = k
    <3>. HIDE DEF q
    <3>. QED
      BY <1>3, <1>4, <2>1, AppendNew, ZenonT(30)
  <2>. QED
    BY <1>2, <2>2
<1>6. \A u \in Tenants : queues'[u] = IF u = t THEN a ELSE queues[u]
  BY <1>1
<1>7. TenantOf[j] = t /\ \A i \in DOMAIN q : TenantOf[q[i]] = t
  BY <1>1 DEF QueuesDistinct
<1>. HIDE DEF t, a
<1>8. \A i \in DOMAIN a : TenantOf[a[i]] = t
  BY <1>5, <1>7
<1>. HIDE DEF q
<1>9. QueuesDistinct'
  BY <1>5, <1>6, <1>8 DEF QueuesDistinct
<1>10. ASSUME NEW i \in Jobs PROVE Queued(i)' <=> Queued(i) \/ i = j
  <2>1. Queued(i)' <=> \/ \E k \in DOMAIN a : a[k] = i
                       \/ \E u \in Tenants \ {t} : \E k \in DOMAIN queues[u] : queues[u][k] = i
    BY <1>1, <1>6 DEF Queued
  <2>2. Queued(i) <=> \/ \E k \in DOMAIN q : q[k] = i
                      \/ \E u \in Tenants \ {t} : \E k \in DOMAIN queues[u] : queues[u][k] = i
    BY <1>1 DEF Queued, q
  <2>. QED
    BY <1>5, <2>1, <2>2
<1>. QED
  BY <1>9, <1>10

LEMMA TakePlaces ==
  ASSUME RingInv, QueuesDistinct, NEW w \in Workers, Take(w)
  PROVE  /\ QueuesDistinct'
         /\ job'[w] \in Jobs
         /\ Queued(job'[w])
         /\ \A i \in Jobs : Queued(i)' <=> Queued(i) /\ i # job'[w]
<1>. DEFINE t == ring[1]
            q == queues[t]
            j == Head(q)
            rest == Tail(q)
<1>1. /\ t \in Tenants /\ q \in Seq(Jobs) /\ q # <<>> /\ j \in Jobs
      /\ queues' = [queues EXCEPT ![t] = rest]
      /\ queues \in [Tenants -> Seq(Jobs)]
      /\ job \in [Workers -> Jobs \cup {NoJob}]
      /\ job' = [job EXCEPT ![w] = j]
  BY TakeFacts DEF RingInv, TypeOK
<1>2. job'[w] = j
  BY <1>1
<1>3. /\ j = q[1]
      /\ Len(q) \in Nat \ {0}
      /\ DOMAIN q = 1 .. Len(q)
      /\ DOMAIN rest = 1 .. Len(q) - 1
      /\ \A i \in 1 .. Len(q) - 1 : rest[i] = q[i + 1]
  BY <1>1, TailFacts
<1>4. \A i, k \in 1 .. Len(q) : q[i] = q[k] => i = k
  BY <1>1, <1>3 DEF QueuesDistinct
<1>5. \A i \in 1 .. Len(q) : TenantOf[q[i]] = t
  BY <1>1, <1>3 DEF QueuesDistinct
<1>6. \A u \in Tenants : queues'[u] = IF u = t THEN rest ELSE queues[u]
  BY <1>1
<1>7. \A u : (\E i \in DOMAIN rest : rest[i] = u) <=> ((\E i \in DOMAIN q : q[i] = u) /\ u # j)
  <2>. SUFFICES ASSUME NEW u
                PROVE (\E i \in DOMAIN rest : rest[i] = u)
                        <=> ((\E i \in DOMAIN q : q[i] = u) /\ u # j)
    OBVIOUS
  <2>1. ASSUME NEW i \in DOMAIN rest, rest[i] = u
        PROVE (\E k \in DOMAIN q : q[k] = u) /\ u # j
    <3>1. i + 1 \in 1 .. Len(q) /\ i + 1 # 1 /\ 1 \in 1 .. Len(q)
      BY <1>3
    <3>2. q[i + 1] = u
      BY <1>3, <2>1
    <3>. QED
      BY <1>3, <1>4, <3>1, <3>2
  <2>2. ASSUME NEW i \in DOMAIN q, q[i] = u, u # j
        PROVE \E k \in DOMAIN rest : rest[k] = u
    <3>1. i \in 1 .. Len(q) /\ i # 1
      BY <1>3, <2>2
    <3>2. i - 1 \in 1 .. Len(q) - 1 /\ (i - 1) + 1 = i
      BY <1>3, <3>1
    <3>. QED
      BY <1>3, <2>2, <3>2
  <2>. QED
    BY <2>1, <2>2
<1>8. \A i, k \in DOMAIN rest : rest[i] = rest[k] => i = k
  <2>. SUFFICES ASSUME NEW i \in 1 .. Len(q) - 1, NEW k \in 1 .. Len(q) - 1,
                       rest[i] = rest[k]
                PROVE i = k
    BY <1>3
  <2>1. i + 1 \in 1 .. Len(q) /\ k + 1 \in 1 .. Len(q)
    BY <1>3
  <2>2. i + 1 = k + 1
    BY <1>3, <1>4, <2>1
  <2>. QED
    BY <2>2, <1>3
<1>9. \A i \in DOMAIN rest : TenantOf[rest[i]] = t
  BY <1>3, <1>5, <1>7
<1>10. q[1] = j /\ 1 \in DOMAIN q /\ TenantOf[j] = t
  BY <1>3, <1>5
<1>11. Queued(j)
  BY <1>1, <1>10 DEF Queued
<1>. HIDE DEF t, j, rest
<1>12. QueuesDistinct'
  BY <1>6, <1>8, <1>9 DEF QueuesDistinct
<1>13. ASSUME NEW i \in Jobs PROVE Queued(i)' <=> Queued(i) /\ i # j
  <2>1. Queued(i)' <=> \/ \E k \in DOMAIN rest : rest[k] = i
                       \/ \E u \in Tenants \ {t} : \E k \in DOMAIN queues[u] : queues[u][k] = i
    BY <1>1, <1>6 DEF Queued
  <2>2. Queued(i) <=> \/ \E k \in DOMAIN q : q[k] = i
                      \/ \E u \in Tenants \ {t} : \E k \in DOMAIN queues[u] : queues[u][k] = i
    BY <1>1 DEF Queued
  <2>3. ASSUME NEW u \in Tenants \ {t}, NEW k \in DOMAIN queues[u]
        PROVE queues[u][k] # j
    BY <1>10, <2>3 DEF QueuesDistinct
  <2>. QED
    BY <1>7, <2>1, <2>2, <2>3
<1>. QED
  BY <1>1, <1>2, <1>11, <1>12, <1>13

-----------------------------------------------------------------------------
(* Every step keeps every job in its place *)

LEMMA InitPlaces == Init => PlacesInv
<1>. SUFFICES ASSUME Init PROVE PlacesInv
  OBVIOUS
<1>1. RingInv
  BY InitRing
<1>2. \A t \in Tenants : DOMAIN queues[t] = {}
  BY EmptySeq DEF Init
<1>3. QueuesDistinct
  BY <1>2 DEF QueuesDistinct
<1>4. HandsDistinct
  BY <1>2, JobsAssumption DEF Init, HandsDistinct, Queued, Held
<1>. QED
  BY <1>1, <1>3, <1>4 DEF PlacesInv

\* A step that leaves the queues, the hands and what is running as they were.
LEMMA PlacesUnmoved ==
  ASSUME PlacesInv, queues' = queues, job' = job,
         \A j \in Jobs : state'[j] = "running" <=> state[j] = "running"
  PROVE  QueuesDistinct' /\ HandsDistinct'
BY DEF PlacesInv, QueuesDistinct, HandsDistinct, Queued, Held

\* A step that ends the job a worker holds, and its hold on it.
LEMMA PlacesSettled ==
  ASSUME PlacesInv, NEW w \in Workers, job[w] \in Jobs,
         queues' = queues, job' = [job EXCEPT ![w] = NoJob],
         \A j \in Jobs : state'[j] = "running" <=> state[j] = "running" /\ j # job[w]
  PROVE  QueuesDistinct' /\ HandsDistinct'
<1>1. QueuesDistinct' /\ \A j \in Jobs : Queued(j)' <=> Queued(j)
  BY DEF PlacesInv, QueuesDistinct, Queued
<1>2. \A v \in Workers : job'[v] = IF v = w THEN NoJob ELSE job[v]
  BY DEF PlacesInv, RingInv, TypeOK
<1>3. \A j \in Jobs : Held(j)' <=> Held(j) /\ j # job[w]
  BY <1>2, JobsAssumption DEF PlacesInv, HandsDistinct, Held
<1>4. Held(job[w])
  BY DEF Held
<1>5. HandsDistinct'
  BY <1>1, <1>2, <1>3, <1>4 DEF PlacesInv, HandsDistinct
<1>. QED
  BY <1>1, <1>5

LEMMA PlacesInductive == PlacesInv /\ [Next]_vars => PlacesInv'
<1>. SUFFICES ASSUME PlacesInv, [Next]_vars PROVE PlacesInv'
  OBVIOUS
<1>0. RingInv /\ RingInv' /\ TypeOK /\ QueuesDistinct /\ HandsDistinct
  BY RingInvInductive DEF PlacesInv, RingInv
<1>. DEFINE Goal == QueuesDistinct' /\ HandsDistinct'
<1>1. ASSUME NEW j \in Jobs, Submit(j) PROVE Goal
  <2>1. /\ ~Queued(j) /\ ~Held(j)
        /\ EnqueueLocked(j)
        /\ job' = job
        /\ \A i \in Jobs : state'[i] = "running" <=> state[i] = "running" \/ i = j
    BY <1>0, <1>1 DEF Submit, HandsDistinct, TypeOK
  <2>2. QueuesDistinct' /\ \A i \in Jobs : Queued(i)' <=> Queued(i) \/ i = j
    BY <1>0, <2>1, EnqueuePlaces
  <2>3. \A i \in Jobs : Held(i)' <=> Held(i)
    BY <2>1 DEF Held
  <2>4. HandsDistinct'
    BY <1>0, <2>1, <2>2, <2>3 DEF HandsDistinct
  <2>. QED
    BY <2>2, <2>4
<1>2. ASSUME NEW j \in Jobs, Stop(j) PROVE Goal
  BY <1>2, PlacesUnmoved DEF Stop, queueVars, workerVars
<1>3. ASSUME NEW w \in Workers, pc[w] = "looking", Take(w) PROVE Goal
  <2>. DEFINE j == job'[w]
  <2>1. /\ QueuesDistinct' /\ j \in Jobs /\ Queued(j)
        /\ \A i \in Jobs : Queued(i)' <=> Queued(i) /\ i # j
    BY <1>0, <1>3, TakePlaces
  <2>2. /\ state' = state
        /\ \A v \in Workers : v # w => job'[v] = job[v]
    BY <1>0, <1>3 DEF Take, jobVars, TypeOK
  <2>3. job[w] = NoJob
    BY <1>0, <1>3 DEF RingInv, HandsMatch, Holding
  <2>. HIDE DEF j
  <2>4. \A v \in Workers : job'[v] = IF v = w THEN j ELSE job[v]
    BY <2>2 DEF j
  <2>5. \A i \in Jobs : Held(i)' <=> Held(i) \/ i = j
    BY <2>3, <2>4, JobsAssumption DEF Held
  <2>6. ~Held(j)
    BY <1>0, <2>1 DEF HandsDistinct
  <2>7. \A v \in Workers : job[v] # j
    BY <2>6 DEF Held
  <2>8. \A u, v \in Workers : job'[u] = job'[v] /\ job'[u] # NoJob => u = v
    BY <1>0, <2>4, <2>7 DEF HandsDistinct
  <2>9. HandsDistinct'
    BY <1>0, <2>1, <2>2, <2>5, <2>6, <2>8 DEF HandsDistinct
  <2>. QED
    BY <2>1, <2>9
<1>4. ASSUME NEW w \in Workers, Sleep(w) PROVE Goal
  BY <1>4, PlacesUnmoved DEF Sleep, jobVars
<1>5. ASSUME NEW w \in Workers,
             PickUp(w) \/ Report(w) \/ FnReturns(w) \/ FnRaises(w)
      PROVE Goal
  BY <1>5, PlacesUnmoved
     DEF PickUp, Report, FnReturns, FnRaises, queueVars, jobVars, workerVars
<1>6. ASSUME NEW w \in Workers, Requeue(w) PROVE Goal
  <2>. DEFINE j == job[w]
  <2>1. /\ j \in Jobs /\ Held(j) /\ ~Queued(j)
        /\ EnqueueLocked(j)
        /\ state' = state
        /\ job' = [job EXCEPT ![w] = NoJob]
    <3>1. j \in Jobs
      BY <1>0, <1>6, HeldJob DEF Requeue, Holding
    <3>2. Held(j)
      BY DEF Held
    <3>. QED
      BY <1>0, <1>6, <3>1, <3>2 DEF Requeue, HandsDistinct
  <2>2. QueuesDistinct' /\ \A i \in Jobs : Queued(i)' <=> Queued(i) \/ i = j
    BY <1>0, <2>1, EnqueuePlaces
  <2>3. \A v \in Workers : job'[v] = IF v = w THEN NoJob ELSE job[v]
    BY <1>0, <2>1 DEF TypeOK
  <2>4. \A i \in Jobs : Held(i)' <=> Held(i) /\ i # j
    BY <1>0, <2>1, <2>3, JobsAssumption DEF HandsDistinct, Held
  <2>5. HandsDistinct'
    BY <1>0, <2>1, <2>2, <2>3, <2>4 DEF HandsDistinct
  <2>. QED
    BY <2>2, <2>5
<1>7. ASSUME NEW w \in Workers, Fail(w) \/ Settle(w) PROVE Goal
  <2>1. job[w] \in Jobs
    BY <1>0, <1>7, HeldJob DEF Fail, Settle, Holding
  <2>2. state[job[w]] = "running"
    <3>1. Held(job[w])
      BY DEF Held
    <3>. QED
      BY <1>0, <2>1, <3>1 DEF HandsDistinct
  <2>3. /\ queues' = queues
        /\ job' = [job EXCEPT ![w] = NoJob]
        /\ \A j \in Jobs : state'[j] = "running" <=> state[j] = "running" /\ j # job[w]
    BY <1>0, <1>7, <2>1, <2>2 DEF Fail, Settle, queueVars, TypeOK
  <2>. QED
    BY <2>1, <2>3, PlacesSettled
<1>8. ASSUME UNCHANGED vars PROVE Goal
  BY <1>8, PlacesUnmoved DEF vars, queueVars, jobVars, workerVars
<1>9. Goal
  <2>. HIDE DEF Goal
  <2>. QED
    BY <1>1, <1>2, <1>3, <1>4, <1>5, <1>6, <1>7, <1>8 DEF Next, Work, Look
<1>. QED
  BY <1>0, <1>9 DEF PlacesInv

\* No job is lost, none is in two places, and a held job still has its
\* callable: _worker's `if fn is None` is unreachable.
THEOREM JobsKeepTheirPlace == Spec => [](EachJobInOnePlace /\ HeldJobsAreLive)
BY InitPlaces, PlacesInductive, PlacesGive, PTL DEF Spec

-----------------------------------------------------------------------------
(* No wake-up is lost: while a thread sleeps, each job in the queues has a   *)
(* thread of its own that will look there before it may sleep.               *)

\* Jobs may be infinitely many; those queued at a time are not.
WakeInv == PlacesInv /\ IsFiniteSet(QueuedJobs) /\ NoWakeUpIsLost

-----------------------------------------------------------------------------
(* Threads *)

LEMMA LookingFinite ==
  /\ IsFiniteSet(Looking) /\ Cardinality(Looking) \in Nat
  /\ IsFiniteSet(Looking') /\ Cardinality(Looking)' \in Nat
<1>1. IsFiniteSet(Looking)
  BY FS_Subset, JobsAssumption DEF Looking
<1>2. IsFiniteSet(Looking')
  BY FS_Subset, JobsAssumption DEF Looking
<1>. QED
  BY <1>1, <1>2, FS_CardinalityType

\* Nobody who was looking stops, so there are at least as many; and one more
\* if a thread has begun to look.
LEMMA LookingGrows ==
  ASSUME \A w \in Workers : pc[w] = "looking" => pc'[w] = "looking"
  PROVE  /\ Cardinality(Looking) <= Cardinality(Looking)'
         /\ \A v \in Workers : pc[v] # "looking" /\ pc'[v] = "looking"
              => Cardinality(Looking) + 1 <= Cardinality(Looking)'
<1>1. Looking \subseteq Looking'
  BY DEF Looking
<1>2. Cardinality(Looking) <= Cardinality(Looking')
  BY <1>1, LookingFinite, FS_Subset
<1>3. ASSUME NEW v \in Workers, pc[v] # "looking", pc'[v] = "looking"
      PROVE  Cardinality(Looking) + 1 <= Cardinality(Looking')
  <2>1. Looking \cup {v} \subseteq Looking'
    BY <1>1, <1>3 DEF Looking
  <2>2. Cardinality(Looking \cup {v}) = Cardinality(Looking) + 1
    BY <1>3, LookingFinite, FS_AddElement DEF Looking
  <2>. QED
    BY <2>1, <2>2, LookingFinite, FS_Subset
<1>. QED
  BY <1>2, <1>3

\* notify() wakes a sleeper, if there is one, and disturbs nobody else.
LEMMA NotifyWakes ==
  ASSUME NEW threads \in [Workers -> WorkerStates], NEW told \in Notify(threads)
  PROVE  /\ \A w \in Workers : threads[w] = "looking" => told[w] = "looking"
         /\ \A w \in Workers : told[w] = "asleep" => threads[w] = "asleep"
         /\ (\E w \in Workers : told[w] = "asleep")
              => \E v \in Workers : threads[v] = "asleep" /\ told[v] = "looking"
<1>. DEFINE asleep == {w \in Workers : threads[w] = "asleep"}
<1>1. CASE asleep = {}
  BY <1>1 DEF Notify
<1>2. CASE asleep # {}
  <2>1. PICK v \in asleep : told = [threads EXCEPT ![v] = "looking"]
    BY <1>2 DEF Notify
  <2>. QED
    BY <2>1
<1>. QED
  BY <1>1, <1>2

-----------------------------------------------------------------------------
(* The kinds of step *)

\* A step that queues nothing, stops nobody from looking and puts nobody to
\* sleep.
LEMMA NothingQueued ==
  ASSUME WakeInv, queues' = queues,
         \A w \in Workers : pc[w] = "looking" => pc'[w] = "looking",
         \A w \in Workers : pc'[w] = "asleep" => pc[w] = "asleep"
  PROVE  IsFiniteSet(QueuedJobs)' /\ NoWakeUpIsLost'
<1>1. QueuedJobs' = QueuedJobs
  BY DEF QueuedJobs, Queued
<1>2. Cardinality(QueuedJobs) \in Nat
  BY FS_CardinalityType DEF WakeInv
<1>. QED
  BY <1>1, <1>2, LookingGrows, LookingFinite DEF WakeInv, NoWakeUpIsLost

\* A step that queues one job and, if anybody goes on sleeping, sets one more
\* thread looking.
LEMMA OneMoreQueued ==
  ASSUME WakeInv, NEW j \in Jobs, ~Queued(j),
         \A i \in Jobs : Queued(i)' <=> Queued(i) \/ i = j,
         \A w \in Workers : pc[w] = "looking" => pc'[w] = "looking",
         \A w \in Workers : pc'[w] = "asleep" => pc[w] = "asleep",
         (\E w \in Workers : pc'[w] = "asleep")
           => \E v \in Workers : pc[v] # "looking" /\ pc'[v] = "looking"
  PROVE  IsFiniteSet(QueuedJobs)' /\ NoWakeUpIsLost'
<1>1. QueuedJobs' = QueuedJobs \cup {j} /\ j \notin QueuedJobs
  BY DEF QueuedJobs
<1>2. /\ IsFiniteSet(QueuedJobs')
      /\ Cardinality(QueuedJobs') = Cardinality(QueuedJobs) + 1
      /\ Cardinality(QueuedJobs) \in Nat
  BY <1>1, FS_AddElement, FS_CardinalityType DEF WakeInv
<1>3. ASSUME NEW w \in Workers, pc'[w] = "asleep"
      PROVE  Cardinality(QueuedJobs') <= Cardinality(Looking')
  <2>1. Cardinality(QueuedJobs) <= Cardinality(Looking)
    BY <1>3 DEF WakeInv, NoWakeUpIsLost
  <2>2. Cardinality(Looking) + 1 <= Cardinality(Looking')
    BY <1>3, LookingGrows
  <2>. QED
    BY <1>2, <2>1, <2>2, LookingFinite
<1>. QED
  BY <1>2, <1>3 DEF NoWakeUpIsLost

-----------------------------------------------------------------------------
(* Every step keeps the promise *)

LEMMA InitWakes == Init => WakeInv
<1>. SUFFICES ASSUME Init PROVE WakeInv
  OBVIOUS
<1>1. PlacesInv
  BY InitPlaces
<1>2. \A t \in Tenants : DOMAIN queues[t] = {}
  BY EmptySeq DEF Init
<1>3. QueuedJobs = {}
  BY <1>2 DEF QueuedJobs, Queued
<1>4. IsFiniteSet(QueuedJobs)
  BY <1>3, FS_EmptySet
<1>5. NoWakeUpIsLost
  BY DEF Init, NoWakeUpIsLost
<1>. QED
  BY <1>1, <1>4, <1>5 DEF WakeInv

LEMMA WakeInductive == WakeInv /\ [Next]_vars => WakeInv'
<1>. SUFFICES ASSUME WakeInv, [Next]_vars PROVE WakeInv'
  OBVIOUS
<1>0. /\ PlacesInv /\ PlacesInv' /\ RingInv /\ QueuesDistinct /\ HandsDistinct
      /\ TypeOK /\ TypeOK'
  BY PlacesInductive DEF WakeInv, PlacesInv, RingInv
<1>. DEFINE Goal == IsFiniteSet(QueuedJobs)' /\ NoWakeUpIsLost'
<1>1. ASSUME NEW j \in Jobs, Submit(j) PROVE Goal
  <2>1. ~Queued(j) /\ EnqueueLocked(j) /\ pc' \in Notify(Spawned)
    BY <1>0, <1>1 DEF Submit, HandsDistinct
  <2>2. \A i \in Jobs : Queued(i)' <=> Queued(i) \/ i = j
    BY <1>0, <2>1, EnqueuePlaces
  <2>3. /\ Spawned \in [Workers -> WorkerStates]
        /\ \A w \in Workers : pc[w] = "looking" => Spawned[w] = "looking"
        /\ \A w \in Workers : Spawned[w] = "asleep" => pc[w] = "asleep"
    BY <1>0 DEF Spawned, TypeOK, WorkerStates
  <2>4. /\ \A w \in Workers : pc[w] = "looking" => pc'[w] = "looking"
        /\ \A w \in Workers : pc'[w] = "asleep" => pc[w] = "asleep"
        /\ (\E w \in Workers : pc'[w] = "asleep")
             => \E v \in Workers : pc[v] # "looking" /\ pc'[v] = "looking"
    BY <2>1, <2>3, NotifyWakes
  <2>. QED
    BY <2>1, <2>2, <2>4, OneMoreQueued
<1>2. ASSUME NEW j \in Jobs, Stop(j) PROVE Goal
  BY <1>2, NothingQueued DEF Stop, queueVars, workerVars
<1>3. ASSUME NEW w \in Workers, pc[w] = "looking", Take(w) PROVE Goal
  <2>. DEFINE j == job'[w]
  <2>1. j \in Jobs /\ Queued(j) /\ \A i \in Jobs : Queued(i)' <=> Queued(i) /\ i # j
    BY <1>0, <1>3, TakePlaces
  <2>2. \A v \in Workers : pc'[v] = IF v = w THEN "took" ELSE pc[v]
    BY <1>0, <1>3 DEF Take, TypeOK
  <2>. HIDE DEF j
  <2>3. QueuedJobs' = QueuedJobs \ {j} /\ j \in QueuedJobs
    BY <2>1 DEF QueuedJobs
  <2>4. Looking' = Looking \ {w} /\ w \in Looking
    BY <1>3, <2>2 DEF Looking
  <2>5. /\ IsFiniteSet(QueuedJobs')
        /\ Cardinality(QueuedJobs') = Cardinality(QueuedJobs) - 1
        /\ Cardinality(QueuedJobs) \in Nat
    BY <2>3, FS_RemoveElement, FS_CardinalityType DEF WakeInv
  <2>6. Cardinality(Looking') = Cardinality(Looking) - 1
    BY <2>4, LookingFinite, FS_RemoveElement
  <2>7. ASSUME NEW v \in Workers, pc'[v] = "asleep"
        PROVE  Cardinality(QueuedJobs') <= Cardinality(Looking')
    <3>1. Cardinality(QueuedJobs) <= Cardinality(Looking)
      BY <2>2, <2>7 DEF WakeInv, NoWakeUpIsLost
    <3>. QED
      BY <2>5, <2>6, <3>1, LookingFinite
  <2>. QED
    BY <2>5, <2>7 DEF NoWakeUpIsLost
<1>4. ASSUME NEW w \in Workers, Sleep(w) PROVE Goal
  <2>1. \A t \in Tenants : queues'[t] = <<>>
    <3>1. LiveAt = {} /\ LiveAt = DOMAIN ring /\ queues' = queues
      BY <1>0, <1>4, FirstOfRing DEF Sleep
    <3>. QED
      BY <1>0, <3>1 DEF RingInv, RingMatchesQueues, InRing
  <2>2. QueuedJobs' = {}
    BY <2>1, EmptySeq DEF QueuedJobs, Queued
  <2>3. IsFiniteSet(QueuedJobs') /\ Cardinality(QueuedJobs') = 0
    BY <2>2, FS_EmptySet
  <2>. QED
    BY <2>3, LookingFinite DEF NoWakeUpIsLost
<1>5. ASSUME NEW w \in Workers,
             PickUp(w) \/ Report(w) \/ FnReturns(w) \/ FnRaises(w)
      PROVE Goal
  <2>1. /\ queues' = queues
        /\ \A v \in Workers : pc[v] = "looking" => pc'[v] = "looking"
        /\ \A v \in Workers : pc'[v] = "asleep" => pc[v] = "asleep"
    BY <1>0, <1>5
       DEF PickUp, Report, FnReturns, FnRaises, queueVars, workerVars, TypeOK
  <2>. QED
    BY <2>1, NothingQueued
<1>6. ASSUME NEW w \in Workers, Requeue(w) PROVE Goal
  <2>. DEFINE j == job[w]
              threads == [pc EXCEPT ![w] = "looking"]
  <2>1. j \in Jobs
    BY <1>0, <1>6, HeldJob DEF Requeue, Holding
  <2>2. Held(j)
    BY DEF Held
  <2>3. ~Queued(j) /\ EnqueueLocked(j) /\ pc' \in Notify(threads) /\ pc[w] = "raised"
    BY <1>0, <1>6, <2>1, <2>2 DEF Requeue, HandsDistinct
  <2>4. \A i \in Jobs : Queued(i)' <=> Queued(i) \/ i = j
    BY <1>0, <2>1, <2>3, EnqueuePlaces
  <2>5. /\ threads \in [Workers -> WorkerStates]
        /\ \A v \in Workers : threads[v] = IF v = w THEN "looking" ELSE pc[v]
    BY <1>0 DEF TypeOK, WorkerStates
  <2>. HIDE DEF threads
  <2>6. /\ \A v \in Workers : threads[v] = "looking" => pc'[v] = "looking"
        /\ \A v \in Workers : pc'[v] = "asleep" => threads[v] = "asleep"
    BY <2>3, <2>5, NotifyWakes
  <2>7. /\ \A v \in Workers : pc[v] = "looking" => pc'[v] = "looking"
        /\ \A v \in Workers : pc'[v] = "asleep" => pc[v] = "asleep"
        /\ pc[w] # "looking" /\ pc'[w] = "looking"
    BY <2>3, <2>5, <2>6
  <2>. HIDE DEF j
  <2>. QED
    BY <2>1, <2>3, <2>4, <2>7, OneMoreQueued
<1>7. ASSUME NEW w \in Workers, Fail(w) \/ Settle(w) PROVE Goal
  <2>1. /\ queues' = queues
        /\ \A v \in Workers : pc[v] = "looking" => pc'[v] = "looking"
        /\ \A v \in Workers : pc'[v] = "asleep" => pc[v] = "asleep"
    BY <1>0, <1>7 DEF Fail, Settle, queueVars, TypeOK
  <2>. QED
    BY <2>1, NothingQueued
<1>8. ASSUME UNCHANGED vars PROVE Goal
  BY <1>8, NothingQueued DEF vars, queueVars, workerVars
<1>9. Goal
  <2>. HIDE DEF Goal
  <2>. QED
    BY <1>1, <1>2, <1>3, <1>4, <1>5, <1>6, <1>7, <1>8 DEF Next, Work, Look
<1>. QED
  BY <1>0, <1>9 DEF WakeInv

\* notify() wakes one thread at a time, and that is enough (queued_jobs.py
\* submit, _worker): nobody sleeps through a job that has no thread of its own.
THEOREM NoWakeUpGoesMissing == Spec => []NoWakeUpIsLost
BY InitWakes, WakeInductive, PTL DEF Spec, WakeInv
-----------------------------------------------------------------------------
(* The threaded queue of app/adapters/queued_jobs.py keeps the promise of   *)
(* app/ports/jobs.py: every behaviour of JobQueue is one of JobPool.        *)

\* The jobs a refined state shows as active are those in somebody's hands.
Active == {j \in Jobs : Held(j)}

\* The attempts a refined state shows.
AttemptsOf(j) == Retries[j] - retriesLeft[j] + IF Started(j) THEN 1 ELSE 0

LEMMA ConstantTypes ==
  ASSUME TypeOK
  PROVE  \A j \in Jobs : Retries[j] \in Nat /\ retriesLeft[j] \in Nat
BY JobsAssumption DEF TypeOK

\* A worker with free hands means a free place in the pool.
LEMMA FreeHands ==
  ASSUME RingInv, NEW w \in Workers, job[w] = NoJob
  PROVE  Cardinality(Active) < Cardinality(Workers)
<1>. DEFINE S == {v \in Workers : job[v] # NoJob}
            f == [v \in S |-> job[v]]
<1>1. \A v \in S : job[v] \in Jobs
  BY DEF RingInv, TypeOK
<1>2. f \in Surjection(S, Active)
  <2>1. f \in [S -> Active]
    BY <1>1 DEF Active, Held
  <2>2. \A j \in Active : \E v \in S : f[v] = j
    BY JobsAssumption DEF Active, Held
  <2>. QED
    BY <2>1, <2>2 DEF Surjection
<1>3. IsFiniteSet(Workers) /\ IsFiniteSet(Workers \ {w})
      /\ Cardinality(Workers \ {w}) = Cardinality(Workers) - 1
  BY JobsAssumption, FS_RemoveElement
<1>4. S \in SUBSET (Workers \ {w})
  OBVIOUS
<1>5. IsFiniteSet(S) /\ Cardinality(S) <= Cardinality(Workers \ {w})
  BY <1>3, <1>4, FS_Subset
<1>. HIDE DEF S, f
<1>6. IsFiniteSet(Active) /\ Cardinality(Active) <= Cardinality(S)
  BY <1>2, <1>5, FS_Surjection
<1>7. /\ Cardinality(Active) \in Nat
      /\ Cardinality(S) \in Nat
      /\ Cardinality(Workers) \in Nat
  BY <1>3, <1>5, <1>6, FS_CardinalityType
<1>. QED
  BY <1>3, <1>5, <1>6, <1>7

\* JobPool's own copy of FiniteSets counts as ours does.
LEMMA SameCardinality == \A S : Pool!Cardinality(S) = Cardinality(S)
BY DEF Pool!Cardinality, Cardinality, Pool!IsFiniteSet, IsFiniteSet

LEMMA InitImplements == Init => Pool!Init
<1>. SUFFICES ASSUME Init PROVE Pool!Init
  OBVIOUS
<1>1. \A j \in Jobs : ~Held(j) /\ ~Started(j)
  BY JobsAssumption DEF Init, Held, Started, Settled
<1>2. \A j \in Jobs : Retries[j] - retriesLeft[j] + 0 = 0
  BY JobsAssumption DEF Init
<1>. QED
  BY <1>1, <1>2 DEF Init, Pool!Init

\* What a step must leave alone for the pool not to see it.
LEMMA Unseen ==
  ASSUME UNCHANGED <<queues, job, state, stopSet, retriesLeft>>
  PROVE  UNCHANGED Pool!vars
BY DEF Pool!vars, Held, Started

LEMMA SubmitImplements ==
  ASSUME PlacesInv, NEW j \in Jobs, Submit(j)
  PROVE  Pool!Submit(j)
<1>1. /\ state[j] = "none"
      /\ state' = [state EXCEPT ![j] = "running"]
      /\ EnqueueLocked(j)
      /\ UNCHANGED <<stopSet, retriesLeft, job>>
  BY DEF Submit
<1>2. queues' = [queues EXCEPT ![TenantOf[j]] = Append(@, j)]
  BY <1>1 DEF EnqueueLocked
<1>3. \A i \in Jobs : Held(i)' <=> Held(i)
  BY <1>1 DEF Held
<1>4. \A i \in Jobs : Started(i)' <=> Started(i)
  BY <1>1, <1>3 DEF Started, Settled, PlacesInv, RingInv, TypeOK
<1>. QED
  BY <1>1, <1>2, <1>3, <1>4 DEF Pool!Submit

LEMMA StopImplements ==
  ASSUME NEW j \in Jobs, Stop(j)
  PROVE  Pool!AskStop(j)
BY DEF Stop, Pool!AskStop, queueVars, workerVars, Held, Started

LEMMA TakeImplements ==
  ASSUME PlacesInv, NEW w \in Workers, pc[w] = "looking", Take(w)
  PROVE  \E t \in Tenants : Pool!Start(t)
<1>0. RingInv /\ QueuesDistinct /\ HandsDistinct
  BY DEF PlacesInv
<1>1. PICK t \in Tenants, j \in Jobs :
      /\ queues[t] # <<>> /\ Head(queues[t]) = j
      /\ queues' = [queues EXCEPT ![t] = Tail(@)]
      /\ job' = [job EXCEPT ![w] = j]
      /\ UNCHANGED <<state, stopSet, retriesLeft>>
  BY <1>0, TakeFacts DEF jobVars
<1>2. job[w] = NoJob
  BY <1>0 DEF RingInv, HandsMatch, Holding
<1>3. job'[w] = j /\ \A v \in Workers : job'[v] = IF v = w THEN j ELSE job[v]
  BY <1>0, <1>1 DEF RingInv, TypeOK
<1>4. Queued(j)
  BY <1>0, <1>3, TakePlaces
<1>5. ~Held(j) /\ state[j] = "running"
  BY <1>0, <1>1, <1>4 DEF HandsDistinct
<1>6. \A i \in Jobs : Held(i)' <=> Held(i) \/ i = j
  BY <1>1, <1>2, <1>3, JobsAssumption DEF Held
<1>7. ~Started(j) /\ \A i \in Jobs : Started(i)' <=> Started(i) \/ i = j
  BY <1>1, <1>5, <1>6 DEF Started, Settled
<1>8. Cardinality(Active) < Cardinality(Workers)
  BY <1>0, <1>2, FreeHands
<1>9. {i \in Jobs : Held(i)}' = Active \cup {j}
  BY <1>1, <1>6 DEF Active
<1>10. \A i \in Jobs : AttemptsOf(i)' = IF i = j THEN AttemptsOf(i) + 1 ELSE AttemptsOf(i)
  <2>1. \A i \in Jobs : Retries[i] \in Nat /\ retriesLeft[i] \in Nat
    BY <1>0, ConstantTypes DEF RingInv
  <2>. QED
    BY <1>1, <1>7, <2>1 DEF AttemptsOf
<1>11. [i \in Jobs |-> AttemptsOf(i)]'
         = [[i \in Jobs |-> AttemptsOf(i)] EXCEPT ![j] = @ + 1]
  BY <1>1, <1>10
<1>12. Pool!Start(t)
  BY <1>1, <1>8, <1>9, <1>11, SameCardinality DEF Pool!Start, Active, AttemptsOf
<1>. QED
  BY <1>1, <1>12

\* What letting go of a job does to the active jobs.
LEMMA LetGo ==
  ASSUME PlacesInv, NEW w \in Workers, job[w] \in Jobs,
         job' = [job EXCEPT ![w] = NoJob]
  PROVE  /\ Held(job[w])
         /\ state[job[w]] = "running"
         /\ {i \in Jobs : Held(i)}' = Active \ {job[w]}
         /\ \A i \in Jobs : Held(i)' <=> Held(i) /\ i # job[w]
<1>1. Held(job[w])
  BY DEF Held
<1>2. \A v \in Workers : job'[v] = IF v = w THEN NoJob ELSE job[v]
  BY DEF PlacesInv, RingInv, TypeOK
<1>3. \A i \in Jobs : Held(i)' <=> Held(i) /\ i # job[w]
  BY <1>2, JobsAssumption DEF PlacesInv, HandsDistinct, Held
<1>. QED
  BY <1>1, <1>3 DEF PlacesInv, HandsDistinct, Active

LEMMA AttemptsOfHeld ==
  ASSUME TypeOK, NEW j \in Jobs, Held(j)
  PROVE  /\ AttemptsOf(j) = Retries[j] - retriesLeft[j] + 1
         /\ AttemptsOf(j) <= Retries[j] <=> retriesLeft[j] > 0
<1>1. Retries[j] \in Nat /\ retriesLeft[j] \in Nat
  BY ConstantTypes
<1>. QED
  BY <1>1 DEF AttemptsOf, Started

LEMMA RequeueImplements ==
  ASSUME PlacesInv, NEW w \in Workers, Requeue(w)
  PROVE  Pool!Retry(job[w])
<1>. DEFINE j == job[w]
<1>0. RingInv /\ TypeOK /\ j \in Jobs
  BY HeldJob DEF PlacesInv, RingInv, Requeue, Holding
<1>1. /\ MayRetry(j)
      /\ retriesLeft' = [retriesLeft EXCEPT ![j] = @ - 1]
      /\ queues' = [queues EXCEPT ![TenantOf[j]] = Append(@, j)]
      /\ job' = [job EXCEPT ![w] = NoJob]
      /\ UNCHANGED <<state, stopSet>>
  BY DEF Requeue, EnqueueLocked
<1>2. /\ Held(j) /\ state[j] = "running"
      /\ {i \in Jobs : Held(i)}' = Active \ {j}
      /\ \A i \in Jobs : Held(i)' <=> Held(i) /\ i # j
  BY <1>0, <1>1, LetGo
<1>. HIDE DEF j
<1>3. Started(j) /\ \A i \in Jobs : Started(i)' <=> Started(i) /\ i # j
  BY <1>0, <1>1, <1>2 DEF Started, Settled
<1>4. \A i \in Jobs : Retries[i] \in Nat /\ retriesLeft[i] \in Nat
  BY <1>0, ConstantTypes
<1>5. \A i \in Jobs : retriesLeft'[i] = IF i = j THEN retriesLeft[i] - 1 ELSE retriesLeft[i]
  BY <1>0, <1>1 DEF TypeOK
<1>6. \A i \in Jobs : AttemptsOf(i)' = AttemptsOf(i)
  BY <1>3, <1>4, <1>5 DEF AttemptsOf
<1>7. [i \in Jobs |-> AttemptsOf(i)]' = [i \in Jobs |-> AttemptsOf(i)]
  BY <1>6
<1>8. j \notin stopSet /\ AttemptsOf(j) <= Retries[j]
  BY <1>0, <1>1, <1>2, AttemptsOfHeld DEF MayRetry
<1>9. Pool!RetryAllowed(j)
  BY <1>0, <1>8 DEF Pool!RetryAllowed, AttemptsOf
<1>10. j \in Active
  BY <1>0, <1>2 DEF Active
<1>11. Pool!Retry(j)
  BY <1>1, <1>2, <1>7, <1>9, <1>10 DEF Pool!Retry, Active, AttemptsOf
<1>. QED
  BY <1>11 DEF j

LEMMA SettleImplements ==
  ASSUME PlacesInv, NEW w \in Workers, Fail(w) \/ Settle(w)
  PROVE  Pool!Settle(job[w])
<1>. DEFINE j == job[w]
<1>0. RingInv /\ TypeOK /\ j \in Jobs
  BY HeldJob DEF PlacesInv, RingInv, Fail, Settle, Holding
<1>1. /\ job' = [job EXCEPT ![w] = NoJob]
      /\ UNCHANGED <<queues, stopSet, retriesLeft>>
  BY DEF Fail, Settle, queueVars
<1>2. /\ Held(j) /\ state[j] = "running"
      /\ {i \in Jobs : Held(i)}' = Active \ {j}
      /\ \A i \in Jobs : Held(i)' <=> Held(i) /\ i # j
  BY <1>0, <1>1, LetGo
<1>3. \/ Fail(w) /\ ~MayRetry(j) /\ state' = [state EXCEPT ![j] = "failed"]
      \/ j \in stopSet /\ state' = [state EXCEPT ![j] = "stopped"]
      \/ j \notin stopSet /\ state' = [state EXCEPT ![j] = "done"]
  BY <1>0, <1>2 DEF Fail, Settle
<1>. HIDE DEF j
<1>4. \A i \in Jobs : Started(i)' <=> Started(i)
  BY <1>0, <1>2, <1>3 DEF Started, Settled, TypeOK
<1>5. \A i \in Jobs : AttemptsOf(i)' = AttemptsOf(i)
  BY <1>1, <1>4 DEF AttemptsOf
<1>6. [i \in Jobs |-> AttemptsOf(i)]' = [i \in Jobs |-> AttemptsOf(i)]
  BY <1>5
<1>7. ~MayRetry(j) => ~Pool!RetryAllowed(j)
  <2>1. AttemptsOf(j) <= Retries[j] <=> retriesLeft[j] > 0
    BY <1>0, <1>2, AttemptsOfHeld
  <2>2. [i \in Jobs |-> AttemptsOf(i)][j] = AttemptsOf(j)
    BY <1>0
  <2>. QED
    BY <2>1, <2>2 DEF MayRetry, Pool!RetryAllowed, AttemptsOf
<1>8. j \in Active
  BY <1>0, <1>2 DEF Active
<1>9. Pool!Settle(j)
  BY <1>1, <1>2, <1>3, <1>6, <1>7, <1>8 DEF Pool!Settle, Active, AttemptsOf
<1>. QED
  BY <1>9 DEF j

LEMMA StepImplements == PlacesInv /\ [Next]_vars => [Pool!Next]_(Pool!vars)
<1>. SUFFICES ASSUME PlacesInv, [Next]_vars PROVE Pool!Next \/ UNCHANGED Pool!vars
  OBVIOUS
<1>1. ASSUME NEW j \in Jobs, Submit(j) \/ Stop(j) PROVE Pool!Next
  BY <1>1, SubmitImplements, StopImplements DEF Pool!Next
<1>2. ASSUME NEW w \in Workers, pc[w] = "looking", Take(w) PROVE Pool!Next
  BY <1>2, TakeImplements DEF Pool!Next
<1>3. ASSUME NEW w \in Workers,
             Sleep(w) \/ PickUp(w) \/ Report(w) \/ FnReturns(w) \/ FnRaises(w)
      PROVE UNCHANGED Pool!vars
  BY <1>3, Unseen
     DEF Sleep, PickUp, Report, FnReturns, FnRaises, queueVars, jobVars, workerVars
<1>4. ASSUME NEW w \in Workers, Requeue(w) PROVE Pool!Next
  <2>1. job[w] \in Jobs
    BY <1>4, HeldJob DEF PlacesInv, Requeue, Holding
  <2>. QED
    BY <1>4, <2>1, RequeueImplements DEF Pool!Next
<1>5. ASSUME NEW w \in Workers, Fail(w) \/ Settle(w) PROVE Pool!Next
  <2>1. job[w] \in Jobs
    BY <1>5, HeldJob DEF PlacesInv, Fail, Settle, Holding
  <2>. QED
    BY <1>5, <2>1, SettleImplements DEF Pool!Next
<1>6. ASSUME UNCHANGED vars PROVE UNCHANGED Pool!vars
  BY <1>6, Unseen DEF vars, queueVars, jobVars, workerVars
<1>. QED
  BY <1>1, <1>2, <1>3, <1>4, <1>5, <1>6 DEF Next, Work, Look

\* The queue keeps the port's promise: what a job goes through under threads,
\* wake-ups and retries is what JobPool allows.
THEOREM QueueImplementsPool == Spec => ImplementsPool
<1>1. Init => Pool!Init
  BY InitImplements
<1>2. PlacesInv /\ [Next]_vars => [Pool!Next]_(Pool!vars)
  BY StepImplements
<1>. QED
  BY InitPlaces, PlacesInductive, <1>1, <1>2, PTL DEF Spec, ImplementsPool, Pool!Spec

=============================================================================
