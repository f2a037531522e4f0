--------------------------- MODULE ReadRuns_proofs ---------------------------
(***************************************************************************)
(* Reads stay sound for every finite set of reads, every set of customers, *)
(* findings, pools, caps and request threads, whatever raises and however  *)
(* often the process dies: a read has one applier at a time, its archived  *)
(* evidence never changes, its summary tells of all it found, and the rate *)
(* cap is passed by no more than one burst of requests.                    *)
(***************************************************************************)
EXTENDS ReadRuns, FiniteSetTheorems, SequenceTheorems, TLAPS

USE ReadRunsAssumption

-----------------------------------------------------------------------------
(* The inductive invariant.  One thing holds it together: until its job      *)
(* saves it, a read's row is as start_read made it, and while it is, nobody  *)
(* but the job has anything to do with the read.                             *)

InLine(r) == \E a \in Accounts : \E i \in DOMAIN waiting[a] : waiting[a][i] = r

\* A job waits in its customer's line, once.
LinesInv ==
  /\ \A a \in Accounts : \A i \in DOMAIN waiting[a] : AccountOf[waiting[a][i]] = a
  /\ \A a \in Accounts : \A i, k \in DOMAIN waiting[a] :
        waiting[a][i] = waiting[a][k] => i = k

\* Nothing has been done for the read yet.
Untouched(r) == /\ phase[r] = "idle" /\ r \notin active
                /\ booked[r] = 0

\* Where start_read is says what the row is.
RequestInv ==
  \A r \in Reads :
    /\ request[r] \in {"new", "checked"} => Untouched(r) /\ ~InLine(r) /\ row[r] = NoRow
    /\ request[r] = "stored" => Untouched(r) /\ ~InLine(r) /\ row[r] = NewRow
    /\ InLine(r) => Untouched(r) /\ row[r] = NewRow

\* Where the job is says what the row and its own copy are; it ran once, so
\* it is not run again.
JobInv ==
  \A r \in Reads :
    /\ phase[r] # "idle" <=> r \in active
    /\ phase[r] # "idle" => attempts[r] > 0
    /\ phase[r] \in {"reading", "ended", "applying", "saving", "raised"} => row[r] = NewRow
    /\ phase[r] \in {"reading", "ended"} => booked[r] = 0 /\ ~current[r].summed
    /\ phase[r] \in {"applying", "saving"} /\ current[r].summed
         => current[r].added = current[r].spines

SameEvidence(s, t) == /\ s.status = t.status /\ s.spines = t.spines
                      /\ s.summed = t.summed /\ s.added = t.added

\* Clients and people are about settled reads only.
ReadersInv ==
  /\ \A r \in clients : row[r].status \in Terminal
  /\ \A f \in Findings : hand[f].pc \in {"loaded", "saved"} =>
        /\ hand[f].read \in Reads
        /\ row[hand[f].read].status \in Terminal
        /\ hand[f].pc = "loaded" => SameEvidence(hand[f].seen, row[hand[f].read])

\* A row carries finitely many claims made by hand.
FewByHand ==
  /\ \A r \in Reads : IsFiniteSet(row[r].byHand) /\ IsFiniteSet(current[r].byHand)
  /\ \A f \in Findings : IsFiniteSet(hand[f].seen.byHand)

\* What counts against the cap, or soon will.
Counted(a) == RowsOf(a) \cup {r \in Reads : AccountOf[r] = a /\ request[r] = "checked"}
CapInv == \A a \in Accounts : Cardinality(Counted(a)) <= Cap + (RequestThreads - 1)

IInv == /\ TypeOK /\ LinesInv /\ RequestInv /\ JobInv /\ ReadersInv
        /\ FewByHand /\ SummaryIsOfTheRead /\ CapInv

-----------------------------------------------------------------------------
(* Sets of reads *)

LEMMA CountedIsFinite ==
  ASSUME NEW S, S \subseteq Reads
  PROVE  IsFiniteSet(S) /\ Cardinality(S) \in Nat
BY FS_Subset, FS_CardinalityType

LEMMA FewerAreFewer ==
  ASSUME NEW S, NEW T, S \subseteq T, T \subseteq Reads
  PROVE  Cardinality(S) <= Cardinality(T)
BY CountedIsFinite, FS_Subset

\* The cap survives whatever counts no read that did not count before.
LEMMA CapStays ==
  ASSUME CapInv, \A a \in Accounts : Counted(a)' \subseteq Counted(a)
  PROVE  CapInv'
<1>. SUFFICES ASSUME NEW a \in Accounts
              PROVE  Cardinality(Counted(a)') <= Cap + (RequestThreads - 1)
  BY DEF CapInv
<1>1. Counted(a) \subseteq Reads
  BY DEF Counted, RowsOf
<1>2. Cardinality(Counted(a)') <= Cardinality(Counted(a))
  BY <1>1, FewerAreFewer
<1>3. /\ Cardinality(Counted(a)') \in Nat /\ Cardinality(Counted(a)) \in Nat
      /\ Cardinality(Counted(a)) <= Cap + (RequestThreads - 1)
  BY <1>1, CountedIsFinite DEF CapInv
<1>. QED
  BY <1>2, <1>3

-----------------------------------------------------------------------------
(* The lines of waiting jobs *)

LEMMA Joins ==
  ASSUME TypeOK, LinesInv, NEW r \in Reads, ~InLine(r),
         waiting' = [waiting EXCEPT ![AccountOf[r]] = Append(@, r)]
  PROVE  /\ waiting' \in [Accounts -> Seq(Reads)] /\ LinesInv'
         /\ \A s \in Reads : InLine(s)' <=> InLine(s) \/ s = r
<1>. DEFINE b == AccountOf[r]
            q == waiting[b]
<1>1. b \in Accounts /\ q \in Seq(Reads) /\ waiting \in [Accounts -> Seq(Reads)]
  BY DEF TypeOK
<1>2. /\ Append(q, r) \in Seq(Reads)
      /\ DOMAIN q = 1 .. Len(q) /\ Len(q) \in Nat
      /\ DOMAIN Append(q, r) = 1 .. (Len(q) + 1)
      /\ \A i \in 1 .. Len(q) : Append(q, r)[i] = q[i]
      /\ Append(q, r)[Len(q) + 1] = r
  BY <1>1, AppendProperties, LenProperties
<1>3. /\ waiting' \in [Accounts -> Seq(Reads)]
      /\ waiting'[b] = Append(q, r)
      /\ \A a \in Accounts : a # b => waiting'[a] = waiting[a]
  BY <1>1, <1>2
<1>4. \A i \in DOMAIN q : q[i] # r
  BY <1>1 DEF InLine
<1>. HIDE DEF b, q
<1>5. \A a \in Accounts : \A i \in DOMAIN waiting'[a] : AccountOf[waiting'[a][i]] = a
  <2>. SUFFICES ASSUME NEW a \in Accounts, NEW i \in DOMAIN waiting'[a]
                PROVE  AccountOf[waiting'[a][i]] = a
    OBVIOUS
  <2>1. CASE a # b
    BY <2>1, <1>3 DEF LinesInv
  <2>2. CASE a = b /\ i = Len(q) + 1
    BY <2>2, <1>2, <1>3 DEF b
  <2>3. CASE a = b /\ i \in 1 .. Len(q)
    BY <2>3, <1>1, <1>2, <1>3 DEF LinesInv, q
  <2>. QED
    BY <2>1, <2>2, <2>3, <1>2, <1>3
<1>6. \A a \in Accounts : \A i, k \in DOMAIN waiting'[a] :
         waiting'[a][i] = waiting'[a][k] => i = k
  <2>. SUFFICES ASSUME NEW a \in Accounts, NEW i \in DOMAIN waiting'[a],
                       NEW k \in DOMAIN waiting'[a], waiting'[a][i] = waiting'[a][k]
                PROVE  i = k
    OBVIOUS
  <2>1. CASE a # b
    BY <2>1, <1>3 DEF LinesInv
  <2>2. CASE a = b
    <3>1. \A m, n \in DOMAIN q : q[m] = q[n] => m = n
      BY <1>1 DEF LinesInv, q
    <3>. QED
      BY <2>2, <3>1, <1>2, <1>3, <1>4
  <2>. QED
    BY <2>1, <2>2
<1>7. ASSUME NEW s \in Reads
      PROVE  InLine(s)' <=> InLine(s) \/ s = r
  <2>1. ASSUME NEW a \in Accounts, NEW i \in DOMAIN waiting'[a], waiting'[a][i] = s
        PROVE  InLine(s) \/ s = r
    <3>1. CASE a # b
      BY <2>1, <3>1, <1>3 DEF InLine
    <3>2. CASE a = b
      BY <2>1, <3>2, <1>1, <1>2, <1>3 DEF InLine, q
    <3>. QED
      BY <3>1, <3>2
  <2>2. ASSUME NEW a \in Accounts, NEW i \in DOMAIN waiting[a], waiting[a][i] = s
        PROVE  \E k \in DOMAIN waiting'[a] : waiting'[a][k] = s
    <3>1. CASE a # b
      BY <2>2, <3>1, <1>3
    <3>2. CASE a = b
      <4>1. i \in 1 .. Len(q) /\ q[i] = s
        BY <2>2, <3>2, <1>2 DEF q
      <4>2. i \in DOMAIN waiting'[a] /\ waiting'[a][i] = s
        BY <4>1, <3>2, <1>2, <1>3
      <4>. QED
        BY <4>2
    <3>. QED
      BY <3>1, <3>2
  <2>3. s = r => \E k \in DOMAIN waiting'[b] : waiting'[b][k] = s
    BY <1>2, <1>3
  <2>. QED
    BY <2>1, <2>2, <2>3, <1>1 DEF InLine
<1>. QED
  BY <1>3, <1>5, <1>6, <1>7 DEF LinesInv

LEMMA Leaves ==
  ASSUME TypeOK, LinesInv, NEW a \in Accounts, waiting[a] # <<>>,
         waiting' = [waiting EXCEPT ![a] = Tail(@)]
  PROVE  /\ waiting' \in [Accounts -> Seq(Reads)] /\ LinesInv'
         /\ Head(waiting[a]) \in Reads /\ InLine(Head(waiting[a]))
         /\ \A s \in Reads : InLine(s)' <=> InLine(s) /\ s # Head(waiting[a])
<1>. DEFINE q == waiting[a]
<1>1. q \in Seq(Reads) /\ waiting \in [Accounts -> Seq(Reads)]
  BY DEF TypeOK
<1>2. /\ Tail(q) \in Seq(Reads) /\ Len(q) \in Nat \ {0}
      /\ DOMAIN q = 1 .. Len(q)
      /\ DOMAIN Tail(q) = 1 .. (Len(q) - 1)
      /\ \A i \in 1 .. (Len(q) - 1) : Tail(q)[i] = q[i + 1]
      /\ Head(q) = q[1] /\ q[1] \in Reads
  BY <1>1, HeadTailProperties, LenProperties, EmptySeq
<1>3. /\ waiting' \in [Accounts -> Seq(Reads)]
      /\ waiting'[a] = Tail(q)
      /\ \A b \in Accounts : b # a => waiting'[b] = waiting[b]
  BY <1>1, <1>2
<1>4. /\ \A i \in DOMAIN q : AccountOf[q[i]] = a
      /\ \A i, k \in DOMAIN q : q[i] = q[k] => i = k
  BY DEF LinesInv
<1>5. InLine(Head(q))
  BY <1>2 DEF InLine
<1>6. LinesInv'
  <2>1. \A b \in Accounts : \A i \in DOMAIN waiting'[b] : AccountOf[waiting'[b][i]] = b
    <3>. SUFFICES ASSUME NEW b \in Accounts, NEW i \in DOMAIN waiting'[b]
                  PROVE  AccountOf[waiting'[b][i]] = b
      OBVIOUS
    <3>1. CASE b # a
      BY <3>1, <1>3 DEF LinesInv
    <3>2. CASE b = a
      <4>1. i + 1 \in DOMAIN q /\ waiting'[b][i] = q[i + 1]
        BY <3>2, <1>2, <1>3
      <4>. QED
        BY <4>1, <3>2, <1>4
    <3>. QED
      BY <3>1, <3>2
  <2>2. \A b \in Accounts : \A i, k \in DOMAIN waiting'[b] :
           waiting'[b][i] = waiting'[b][k] => i = k
    <3>. SUFFICES ASSUME NEW b \in Accounts, NEW i \in DOMAIN waiting'[b],
                         NEW k \in DOMAIN waiting'[b], waiting'[b][i] = waiting'[b][k]
                  PROVE  i = k
      OBVIOUS
    <3>1. CASE b # a
      BY <3>1, <1>3 DEF LinesInv
    <3>2. CASE b = a
      <4>1. /\ i \in Nat /\ k \in Nat
            /\ i + 1 \in DOMAIN q /\ k + 1 \in DOMAIN q /\ q[i + 1] = q[k + 1]
        BY <3>2, <1>2, <1>3
      <4>2. i + 1 = k + 1
        BY <4>1, <1>4
      <4>. QED
        BY <4>1, <4>2
    <3>. QED
      BY <3>1, <3>2
  <2>. QED
    BY <2>1, <2>2 DEF LinesInv
<1>7. ASSUME NEW s \in Reads
      PROVE  InLine(s)' <=> InLine(s) /\ s # Head(q)
  <2>1. ASSUME NEW b \in Accounts, NEW i \in DOMAIN waiting'[b], waiting'[b][i] = s
        PROVE  InLine(s) /\ s # Head(q)
    <3>1. CASE b # a
      <4>1. InLine(s)
        BY <2>1, <3>1, <1>3 DEF InLine
      <4>2. AccountOf[s] = b /\ AccountOf[Head(q)] = a
        BY <2>1, <3>1, <1>2, <1>3, <1>4 DEF LinesInv
      <4>. QED
        BY <4>1, <4>2, <3>1
    <3>2. CASE b = a
      <4>1. i \in Nat \ {0} /\ i + 1 \in DOMAIN q /\ q[i + 1] = s
        BY <2>1, <3>2, <1>2, <1>3
      <4>2. 1 \in DOMAIN q /\ i + 1 # 1
        BY <4>1, <1>2
      <4>3. s # Head(q)
        BY <4>1, <4>2, <1>2, <1>4
      <4>. QED
        BY <4>1, <4>3 DEF InLine
    <3>. QED
      BY <3>1, <3>2
  <2>2. ASSUME NEW b \in Accounts, NEW i \in DOMAIN waiting[b], waiting[b][i] = s, s # Head(q)
        PROVE  \E k \in DOMAIN waiting'[b] : waiting'[b][k] = s
    <3>1. CASE b # a
      BY <2>2, <3>1, <1>3
    <3>2. CASE b = a
      <4>1. i \in 1 .. Len(q) /\ i # 1 /\ q[i] = s
        BY <2>2, <3>2, <1>2
      <4>2. i - 1 \in 1 .. (Len(q) - 1) /\ (i - 1) + 1 = i
        BY <4>1, <1>2
      <4>3. i - 1 \in DOMAIN waiting'[b] /\ waiting'[b][i - 1] = s
        BY <4>1, <4>2, <3>2, <1>2, <1>3
      <4>. QED
        BY <4>3
    <3>. QED
      BY <3>1, <3>2
  <2>. QED
    BY <2>1, <2>2 DEF InLine
<1>. QED
  BY <1>2, <1>3, <1>5, <1>6, <1>7

\* What leaves the lines alone leaves what is said of them alone.
LEMMA LinesStay ==
  ASSUME LinesInv, UNCHANGED waiting
  PROVE  LinesInv' /\ \A s \in Reads : InLine(s)' <=> InLine(s)
BY DEF LinesInv, InLine

-----------------------------------------------------------------------------
(* The job's own steps *)

\* A step of run() that stores no row: it is in no line, no request or person
\* has to do with it, and the row stays as start_read made it.
LEMMA RunKeeps ==
  ASSUME IInv, NEW r \in Reads, phase[r] \notin {"idle", "saved"},
         phase' = [phase EXCEPT ![r] = phase'[r]],
         phase'[r] \in Phases \ {"idle", "saved"},
         current' = [current EXCEPT ![r] = current'[r]],
         current'[r] \in Row, IsFiniteSet(current'[r].byHand),
         booked' = [booked EXCEPT ![r] = booked'[r]], booked'[r] \in Nat,
         UNCHANGED <<row, sightings, runnerVars, clientVars, bounds>>,
         phase'[r] \in {"reading", "ended"} => booked'[r] = 0 /\ ~current'[r].summed,
         phase'[r] \in {"applying", "saving"} /\ current'[r].summed
           => current'[r].added = current'[r].spines
  PROVE  IInv'
<1>. USE DEF runnerVars, clientVars, bounds
<1>1. TypeOK'
  BY DEF IInv, TypeOK
<1>2. LinesInv' /\ \A s \in Reads : InLine(s)' <=> InLine(s)
  BY LinesStay DEF IInv
<1>3. RequestInv'
  <2>. SUFFICES ASSUME NEW s \in Reads
                PROVE  /\ request'[s] \in {"new", "checked"} =>
                             Untouched(s)' /\ ~InLine(s)' /\ row'[s] = NoRow
                       /\ request'[s] = "stored" =>
                             Untouched(s)' /\ ~InLine(s)' /\ row'[s] = NewRow
                       /\ InLine(s)' => Untouched(s)' /\ row'[s] = NewRow
    BY DEF RequestInv
  <2>1. CASE s = r
    BY <2>1, <1>2 DEF IInv, RequestInv, Untouched
  <2>2. CASE s # r
    BY <2>2, <1>2 DEF IInv, TypeOK, RequestInv, Untouched
  <2>. QED
    BY <2>1, <2>2
<1>4. JobInv'
  <2>1. \A s \in Reads \ {r} : phase'[s] = phase[s] /\ current'[s] = current[s] /\ booked'[s] = booked[s]
    BY DEF IInv, TypeOK
  <2>2. r \in active /\ attempts[r] > 0 /\ row[r] = NewRow
    BY DEF IInv, TypeOK, JobInv, Phases
  <2>. QED
    BY <2>1, <2>2 DEF IInv, JobInv
<1>5. ReadersInv' /\ SummaryIsOfTheRead'
  BY DEF IInv, ReadersInv, SummaryIsOfTheRead, SameEvidence
<1>6. FewByHand'
  BY DEF IInv, TypeOK, FewByHand
<1>7. CapInv'
  BY CapStays DEF IInv, Counted, RowsOf
<1>. QED
  BY <1>1, <1>2, <1>3, <1>4, <1>5, <1>6, <1>7 DEF IInv

\* What the job's copy of a read is in each of those steps.
Ending(c, n, e) == [c EXCEPT !.spines = n, !.status = e]
Summing(c)      == [c EXCEPT !.summed = TRUE, !.added = c.spines]

LEMMA CopyEnds ==
  ASSUME NEW c \in Row, NEW n \in Nat, NEW e \in Terminal
  PROVE  /\ Ending(c, n, e) \in Row
         /\ Ending(c, n, e).byHand = c.byHand
         /\ Ending(c, n, e).summed = c.summed
BY DEF Row, Ending

LEMMA CopySummed ==
  ASSUME NEW c \in Row
  PROVE  /\ Summing(c) \in Row
         /\ Summing(c).byHand = c.byHand
         /\ Summing(c).added = Summing(c).spines
BY DEF Row, Summing

LEMMA RunStays ==
  ASSUME IInv, NEW r \in Reads, Run(r), ~Save(r), ~Return(r), ~Raise(r)
  PROVE  IInv'
<1>. USE DEF JobStep, storeVars
<1>1. /\ phase \in [Reads -> Phases] /\ current \in [Reads -> Row] /\ booked \in [Reads -> Nat]
      /\ current[r] \in Row /\ booked[r] \in Nat /\ current[r].spines \in Nat
      /\ IsFiniteSet(current[r].byHand) /\ Spines[r] \in Nat
  BY DEF IInv, TypeOK, FewByHand, Row
<1>2. ASSUME UNCHANGED current
      PROVE  current' = [current EXCEPT ![r] = current'[r]] /\ current'[r] = current[r]
  BY <1>1, <1>2
<1>3. ASSUME UNCHANGED booked
      PROVE  booked' = [booked EXCEPT ![r] = booked'[r]] /\ booked'[r] = booked[r]
  BY <1>1, <1>3
<1>4. ASSUME NEW p \in Phases, phase' = [phase EXCEPT ![r] = p]
      PROVE  phase' = [phase EXCEPT ![r] = phase'[r]] /\ phase'[r] = p
  BY <1>1, <1>4
<1>5. ASSUME NEW c \in Row, current' = [current EXCEPT ![r] = c]
      PROVE  current' = [current EXCEPT ![r] = current'[r]] /\ current'[r] = c
  BY <1>1, <1>5
<1>6. CASE \/ EndReading(r) \/ ReadingRaises(r)
  <2>1. PICK n \in Nat, e \in Terminal, p \in {"ended", "saving"} :
          /\ JobStep(r, "reading", p)
          /\ current' = [current EXCEPT ![r].spines = n, ![r].status = e]
          /\ UNCHANGED <<storeVars, runnerVars>>
    <3>1. CASE EndReading(r)
      <4>1. PICK n \in 0 .. Spines[r] :
              LET ending == IF r \in stopAsked THEN "stopped" ELSE "done"
                  looked == ending = "done" \/ n > 0
              IN  /\ JobStep(r, "reading", IF looked THEN "ended" ELSE "saving")
                  /\ current' = [current EXCEPT ![r].spines = n, ![r].status = ending]
                  /\ UNCHANGED <<storeVars, runnerVars>>
        BY <3>1 DEF EndReading
      <4>. DEFINE ending == IF r \in stopAsked THEN "stopped" ELSE "done"
                  q == IF ending = "done" \/ n > 0 THEN "ended" ELSE "saving"
      <4>2. ending \in Terminal /\ q \in {"ended", "saving"} /\ n \in Nat
        BY <1>1 DEF Terminal
      <4>3. /\ JobStep(r, "reading", q)
            /\ current' = [current EXCEPT ![r].spines = n, ![r].status = ending]
            /\ UNCHANGED <<storeVars, runnerVars>>
        BY <4>1
      <4>. HIDE DEF ending, q, JobStep
      <4>. QED
        BY <4>2, <4>3
    <3>2. CASE ReadingRaises(r)
      <4>1. PICK n \in 0 .. Spines[r] :
              /\ JobStep(r, "reading", "saving")
              /\ current' = [current EXCEPT ![r].spines = n, ![r].status = "failed"]
              /\ UNCHANGED <<storeVars, runnerVars>>
        BY <3>2 DEF ReadingRaises
      <4>2. n \in Nat /\ "failed" \in Terminal
        BY <1>1 DEF Terminal
      <4>. QED
        BY <4>1, <4>2
    <3>. QED
      BY <1>6, <3>1, <3>2
  <2>. DEFINE c == Ending(current[r], n, e)
  <2>2. c \in Row /\ c.byHand = current[r].byHand /\ c.summed = current[r].summed
    BY <1>1, CopyEnds
  <2>3. current' = [current EXCEPT ![r] = c]
    BY <1>1, <2>1 DEF Ending
  <2>4. booked[r] = 0 /\ ~current[r].summed
    BY <2>1 DEF IInv, JobInv
  <2>. HIDE DEF c
  <2>5. /\ current' = [current EXCEPT ![r] = current'[r]] /\ current'[r] = c
        /\ phase' = [phase EXCEPT ![r] = phase'[r]] /\ phase'[r] = p /\ p \in Phases
    BY <1>4, <1>5, <2>1, <2>2, <2>3 DEF Phases
  <2>. QED
    BY <1>1, <1>3, <2>1, <2>2, <2>3, <2>4, <2>5, RunKeeps
<1>7. CASE Summarize(r)
  <2>1. booked[r] = 0
    BY <1>7 DEF IInv, JobInv, Summarize
  <2>. DEFINE c == Summing(current[r])
  <2>2. c \in Row /\ c.byHand = current[r].byHand /\ c.added = c.spines
    BY <1>1, CopySummed
  <2>3. current[r].spines - booked[r] = current[r].spines
    BY <1>1, <2>1
  <2>4. current' = [current EXCEPT ![r] = c]
    BY <1>1, <1>7, <2>3 DEF Summarize, Summing
  <2>. HIDE DEF c
  <2>5. /\ current' = [current EXCEPT ![r] = current'[r]] /\ current'[r] = c
        /\ phase' = [phase EXCEPT ![r] = phase'[r]] /\ phase'[r] = "applying"
        /\ phase[r] = "ended"
    BY <1>4, <1>5, <1>7, <2>2, <2>4 DEF Phases, Summarize
  <2>. QED
    BY <1>1, <1>3, <1>7, <2>2, <2>4, <2>5, RunKeeps DEF Phases, Summarize
<1>8. CASE SummarizeRaises(r) \/ SaveRaises(r)
  <2>1. /\ phase[r] \in {"ended", "saving"}
        /\ phase' = [phase EXCEPT ![r] = phase'[r]] /\ phase'[r] = "raised"
        /\ UNCHANGED <<current, storeVars, runnerVars, clientVars, bounds>>
    BY <1>4, <1>8 DEF Phases, SummarizeRaises, SaveRaises
  <2>. QED
    BY <1>1, <1>2, <1>3, <2>1, RunKeeps DEF Phases
<1>9. CASE ApplyOne(r) \/ ApplyEnds(r) \/ ApplyRaises(r)
  <2>1. PICK p \in {"applying", "saving"} :
          /\ JobStep(r, "applying", p)
          /\ booked' \in {booked, [booked EXCEPT ![r] = booked[r] + 1]}
          /\ UNCHANGED <<current, row, sightings, runnerVars>>
    BY <1>1, <1>9 DEF ApplyOne, ApplyEnds, ApplyRaises
  <2>2. booked' = [booked EXCEPT ![r] = booked'[r]] /\ booked'[r] \in Nat
    BY <1>1, <2>1
  <2>3. current[r].summed => current[r].added = current[r].spines
    BY <2>1 DEF IInv, JobInv
  <2>4. /\ phase' = [phase EXCEPT ![r] = phase'[r]] /\ phase'[r] = p
        /\ phase[r] = "applying" /\ UNCHANGED <<clientVars, bounds>>
    BY <1>4, <2>1 DEF Phases
  <2>. QED
    BY <1>1, <1>2, <2>1, <2>2, <2>3, <2>4, RunKeeps DEF Phases
<1>. QED
  BY <1>6, <1>7, <1>8, <1>9 DEF Run

-----------------------------------------------------------------------------
(* The steps that touch the tables or the runner *)

LEMMA FreshRows ==
  /\ NoRow \in Row /\ NewRow \in Row
  /\ NoRow.status = "absent" /\ NewRow.status = "running"
  /\ NoRow.status \notin Terminal /\ NewRow.status \notin Terminal
  /\ ~NoRow.summed /\ ~NewRow.summed
  /\ IsFiniteSet(NoRow.byHand) /\ IsFiniteSet(NewRow.byHand)
<1>1. NoRow.byHand = {} /\ NewRow.byHand = {}
  BY DEF NoRow, NewRow
<1>2. IsFiniteSet({})
  BY FS_EmptySet
<1>3. IsFiniteSet(NoRow.byHand) /\ IsFiniteSet(NewRow.byHand)
  BY <1>1, <1>2
<1>. QED
  BY <1>3 DEF NoRow, NewRow, Row, Terminal

LEMMA SaveStays ==
  ASSUME IInv, NEW r \in Reads, Save(r)
  PROVE  IInv'
<1>. USE DEF Save, JobStep, runnerVars, clientVars, bounds
<1>1. TypeOK'
  BY DEF IInv, TypeOK, Phases
<1>2. LinesInv' /\ \A s \in Reads : InLine(s)' <=> InLine(s)
  BY LinesStay DEF IInv
<1>3. /\ phase'[r] = "saved" /\ row'[r] = current[r] /\ row[r] = NewRow
      /\ \A s \in Reads \ {r} : phase'[s] = phase[s] /\ row'[s] = row[s]
      /\ r \in active /\ attempts[r] > 0
  BY DEF IInv, TypeOK, JobInv, Phases
<1>4. RequestInv'
  <2>. SUFFICES ASSUME NEW s \in Reads
                PROVE  /\ request'[s] \in {"new", "checked"} =>
                             Untouched(s)' /\ ~InLine(s)' /\ row'[s] = NoRow
                       /\ request'[s] = "stored" =>
                             Untouched(s)' /\ ~InLine(s)' /\ row'[s] = NewRow
                       /\ InLine(s)' => Untouched(s)' /\ row'[s] = NewRow
    BY DEF RequestInv
  <2>1. CASE s = r
    BY <2>1, <1>2 DEF IInv, RequestInv, Untouched
  <2>2. CASE s # r
    BY <2>2, <1>2, <1>3 DEF IInv, RequestInv, Untouched
  <2>. QED
    BY <2>1, <2>2
<1>5. JobInv'
  BY <1>3 DEF IInv, JobInv
<1>6. ReadersInv'
  BY <1>3, FreshRows DEF IInv, ReadersInv, SameEvidence
<1>7. SummaryIsOfTheRead'
  BY <1>3 DEF IInv, JobInv, SummaryIsOfTheRead
<1>8. FewByHand'
  BY <1>3 DEF IInv, FewByHand
<1>9. CapInv'
  <2>1. \A a \in Accounts : Counted(a)' \subseteq Counted(a)
    BY <1>3, FreshRows DEF Counted, RowsOf
  <2>. QED
    BY <2>1, CapStays DEF IInv
<1>. QED
  BY <1>1, <1>2, <1>4, <1>5, <1>6, <1>7, <1>8, <1>9 DEF IInv

\* The job is over: it ran once, so there is no retry.
LEMMA SettleStays ==
  ASSUME IInv, NEW r \in Reads, Return(r) \/ Raise(r)
  PROVE  IInv'
<1>. USE DEF JobStep, storeVars, clientVars, bounds
<1>1. /\ phase[r] \in {"saved", "raised"} /\ phase' = [phase EXCEPT ![r] = "idle"]
      /\ active' = active \ {r}
      /\ status' \in [Reads -> {"none", "running"} \cup Terminal]
      /\ UNCHANGED <<current, row, booked, sightings, waiting, stopAsked, attempts>>
      /\ UNCHANGED <<request, clients, hand, play, crashes>>
  <2>1. attempts[r] \in Nat \ {0} \/ phase[r] \notin {"saved", "raised"}
    <3>1. attempts[r] \in Nat
      BY DEF IInv, TypeOK
    <3>2. phase[r] # "idle" => attempts[r] > 0
      BY DEF IInv, JobInv
    <3>. QED
      BY <3>1, <3>2
  <2>2. phase[r] \in {"saved", "raised"} => ~Runner!Retry(r)
    <3>1. Runner!Retry(r) => attempts[r] <= 0
      BY DEF Runner!Retry, Runner!RetryAllowed, Retries
    <3>. QED
      BY <2>1, <3>1
  <2>3. Runner!Settle(r) => status' \in [Reads -> {"none", "running"} \cup Terminal]
    BY DEF Runner!Settle, IInv, TypeOK, Terminal
  <2>4. Runner!Settle(r) /\ phase[r] \in {"saved", "raised"} /\ phase' = [phase EXCEPT ![r] = "idle"]
    BY <2>2 DEF Return, Raise
  <2>5. UNCHANGED <<clientVars, bounds, current, storeVars>>
    BY DEF Return, Raise
  <2>. QED
    BY <2>3, <2>4, <2>5 DEF Runner!Settle
<1>2. TypeOK'
  BY <1>1 DEF IInv, TypeOK, Phases
<1>3. LinesInv' /\ \A s \in Reads : InLine(s)' <=> InLine(s)
  BY <1>1, LinesStay DEF IInv
<1>4. RequestInv'
  <2>. SUFFICES ASSUME NEW s \in Reads
                PROVE  /\ request'[s] \in {"new", "checked"} =>
                             Untouched(s)' /\ ~InLine(s)' /\ row'[s] = NoRow
                       /\ request'[s] = "stored" =>
                             Untouched(s)' /\ ~InLine(s)' /\ row'[s] = NewRow
                       /\ InLine(s)' => Untouched(s)' /\ row'[s] = NewRow
    BY DEF RequestInv
  <2>1. CASE s = r
    BY <2>1, <1>1, <1>3 DEF IInv, RequestInv, Untouched
  <2>2. CASE s # r
    BY <2>2, <1>1, <1>3 DEF IInv, TypeOK, RequestInv, Untouched
  <2>. QED
    BY <2>1, <2>2
<1>5. JobInv'
  BY <1>1 DEF IInv, TypeOK, JobInv
<1>6. ReadersInv' /\ SummaryIsOfTheRead' /\ FewByHand'
  BY <1>1 DEF IInv, ReadersInv, SummaryIsOfTheRead, SameEvidence, FewByHand
<1>7. CapInv'
  BY <1>1, CapStays DEF IInv, Counted, RowsOf
<1>. QED
  BY <1>2, <1>3, <1>4, <1>5, <1>6, <1>7 DEF IInv

LEMMA BeginStays ==
  ASSUME IInv, NEW a \in Accounts, Begin(a)
  PROVE  IInv'
<1>. DEFINE r == Head(waiting[a])
<1>. USE DEF JobStep, storeVars, clientVars, bounds
<1>1. /\ waiting[a] # <<>> /\ waiting' = [waiting EXCEPT ![a] = Tail(@)]
      /\ active' = active \cup {r}
      /\ attempts' = [attempts EXCEPT ![r] = @ + 1]
      /\ phase' = [phase EXCEPT ![r] = "reading"]
      /\ current' = [current EXCEPT ![r] = NewRow]
      /\ UNCHANGED <<row, booked, sightings, status, stopAsked>>
      /\ UNCHANGED <<request, clients, hand, play, crashes>>
  BY DEF Begin, Runner!Start
<1>2. /\ waiting' \in [Accounts -> Seq(Reads)] /\ LinesInv'
      /\ r \in Reads /\ InLine(r)
      /\ \A s \in Reads : InLine(s)' <=> InLine(s) /\ s # r
  BY <1>1, Leaves DEF IInv
<1>. HIDE DEF r
<1>3. /\ phase[r] = "idle" /\ booked[r] = 0 /\ row[r] = NewRow
      /\ request[r] \notin {"new", "checked", "stored"}
  BY <1>2 DEF IInv, RequestInv, Untouched
<1>4. TypeOK'
  <2>1. attempts' \in [Reads -> Nat] /\ phase' \in [Reads -> Phases] /\ current' \in [Reads -> Row]
    <3>1. attempts \in [Reads -> Nat] /\ attempts[r] + 1 \in Nat
      BY <1>2 DEF IInv, TypeOK
    <3>2. attempts' \in [Reads -> Nat]
      BY <1>1, <1>2, <3>1
    <3>3. phase' \in [Reads -> Phases]
      BY <1>1, <1>2 DEF IInv, TypeOK, Phases
    <3>4. current' \in [Reads -> Row]
      BY <1>1, <1>2, FreshRows DEF IInv, TypeOK
    <3>. QED
      BY <3>2, <3>3, <3>4
  <2>2. active' \subseteq Reads
    BY <1>1, <1>2 DEF IInv, TypeOK
  <2>. QED
    BY <1>1, <1>2, <2>1, <2>2 DEF IInv, TypeOK
<1>5. RequestInv'
  <2>. SUFFICES ASSUME NEW s \in Reads
                PROVE  /\ request'[s] \in {"new", "checked"} =>
                             Untouched(s)' /\ ~InLine(s)' /\ row'[s] = NoRow
                       /\ request'[s] = "stored" =>
                             Untouched(s)' /\ ~InLine(s)' /\ row'[s] = NewRow
                       /\ InLine(s)' => Untouched(s)' /\ row'[s] = NewRow
    BY DEF RequestInv
  <2>1. CASE s = r
    BY <2>1, <1>1, <1>2, <1>3
  <2>2. CASE s # r
    BY <2>2, <1>1, <1>2 DEF IInv, TypeOK, RequestInv, Untouched
  <2>. QED
    BY <2>1, <2>2
<1>6. JobInv'
  <2>1. /\ phase'[r] = "reading" /\ current'[r] = NewRow /\ attempts'[r] > 0
        /\ \A s \in Reads \ {r} : /\ phase'[s] = phase[s] /\ current'[s] = current[s]
                                  /\ attempts'[s] = attempts[s]
    BY <1>1, <1>2 DEF IInv, TypeOK
  <2>. QED
    BY <2>1, <1>1, <1>2, <1>3, FreshRows DEF IInv, JobInv
<1>7. ReadersInv' /\ SummaryIsOfTheRead'
  BY <1>1 DEF IInv, ReadersInv, SummaryIsOfTheRead, SameEvidence
<1>8. FewByHand'
  BY <1>1, <1>2, FreshRows DEF IInv, TypeOK, FewByHand
<1>9. CapInv'
  BY <1>1, CapStays DEF IInv, Counted, RowsOf
<1>. QED
  BY <1>2, <1>4, <1>5, <1>6, <1>7, <1>8, <1>9 DEF IInv

-----------------------------------------------------------------------------
(* The requests *)

\* A burst may pass the cap together: those already counted leave room for
\* one at least, and no more than RequestThreads are in flight.
LEMMA CheckRateStays ==
  ASSUME IInv, NEW r \in Reads, CheckRate(r)
  PROVE  IInv'
<1>. USE DEF CheckRate, storeVars, runnerVars, jobVars, bounds
<1>1. TypeOK'
  BY DEF IInv, TypeOK, RequestStates
<1>2. LinesInv' /\ \A s \in Reads : InLine(s)' <=> InLine(s)
  BY LinesStay DEF IInv
<1>3. /\ request'[r] = "checked" /\ request[r] = "new"
      /\ \A s \in Reads \ {r} : request'[s] = request[s]
  BY DEF IInv, TypeOK
<1>4. RequestInv' /\ JobInv'
  BY <1>2, <1>3 DEF IInv, RequestInv, JobInv, Untouched
<1>5. ReadersInv' /\ SummaryIsOfTheRead' /\ FewByHand'
  BY DEF IInv, ReadersInv, SummaryIsOfTheRead, SameEvidence, FewByHand
<1>6. CapInv'
  <2>. SUFFICES ASSUME NEW a \in Accounts
                PROVE  Cardinality(Counted(a)') <= Cap + (RequestThreads - 1)
    BY DEF CapInv
  <2>1. CASE AccountOf[r] # a
    <3>1. Counted(a)' = Counted(a)
      BY <2>1, <1>3 DEF Counted, RowsOf
    <3>. QED
      BY <3>1 DEF IInv, CapInv
  <2>2. CASE AccountOf[r] = a
    <3>. DEFINE F == InFlight \cup {r}
    <3>1. RowsOf(a) \subseteq Reads /\ InFlight \subseteq Reads /\ F \subseteq Reads
      BY DEF RowsOf, InFlight
    <3>2. Counted(a)' \subseteq RowsOf(a) \cup F
      BY <1>3 DEF Counted, RowsOf, InFlight
    <3>3. /\ IsFiniteSet(RowsOf(a)) /\ IsFiniteSet(InFlight) /\ IsFiniteSet(F)
          /\ Cardinality(RowsOf(a)) \in Nat /\ Cardinality(InFlight) \in Nat
          /\ Cardinality(F) \in Nat
      BY <3>1, CountedIsFinite
    <3>4. Cardinality(F) <= Cardinality(InFlight) + 1
      BY <3>3, FS_AddElement
    <3>5. Cardinality(RowsOf(a)) <= Cap - 1 /\ Cardinality(InFlight) <= RequestThreads - 1
      BY <2>2, <3>3
    <3>6. /\ Cardinality(RowsOf(a) \cup F) <= Cardinality(RowsOf(a)) + Cardinality(F)
          /\ Cardinality(RowsOf(a) \cup F) \in Nat
      <4>1. /\ Cardinality(RowsOf(a) \cup F) =
                 Cardinality(RowsOf(a)) + Cardinality(F) - Cardinality(RowsOf(a) \cap F)
        BY <3>3, FS_Union
      <4>2. Cardinality(RowsOf(a) \cap F) \in Nat /\ Cardinality(RowsOf(a) \cup F) \in Nat
        BY <3>1, CountedIsFinite
      <4>. HIDE DEF F
      <4>. QED
        BY <3>3, <4>1, <4>2
    <3>7. /\ Cardinality(Counted(a)') <= Cardinality(RowsOf(a) \cup F)
          /\ Cardinality(Counted(a)') \in Nat
      <4>1. RowsOf(a) \cup F \subseteq Reads /\ Counted(a)' \subseteq Reads
        BY <3>1, <3>2
      <4>. QED
        BY <4>1, <3>2, FewerAreFewer, CountedIsFinite
    <3>. HIDE DEF F
    <3>. QED
      BY <3>3, <3>4, <3>5, <3>6, <3>7
  <2>. QED
    BY <2>1, <2>2
<1>. QED
  BY <1>1, <1>2, <1>4, <1>5, <1>6 DEF IInv

LEMMA StoreRunningStays ==
  ASSUME IInv, NEW r \in Reads, StoreRunning(r)
  PROVE  IInv'
<1>. USE DEF StoreRunning, runnerVars, jobVars, bounds
<1>1. TypeOK'
  BY FreshRows DEF IInv, TypeOK, RequestStates
<1>2. LinesInv' /\ \A s \in Reads : InLine(s)' <=> InLine(s)
  BY LinesStay DEF IInv
<1>3. /\ request'[r] = "stored" /\ request[r] = "checked"
      /\ row'[r] = NewRow /\ row[r] = NoRow
      /\ Untouched(r) /\ ~InLine(r) /\ r \notin active
      /\ \A s \in Reads \ {r} : request'[s] = request[s] /\ row'[s] = row[s]
  BY DEF IInv, TypeOK, RequestInv, Untouched
<1>4. RequestInv'
  BY <1>2, <1>3 DEF IInv, RequestInv, Untouched
<1>5. JobInv'
  BY <1>3 DEF IInv, JobInv, Untouched
<1>6. ReadersInv' /\ SummaryIsOfTheRead'
  BY <1>3, FreshRows DEF IInv, ReadersInv, SummaryIsOfTheRead, SameEvidence
<1>7. FewByHand'
  BY <1>3, FreshRows DEF IInv, FewByHand
<1>8. CapInv'
  <2>1. \A a \in Accounts : Counted(a)' \subseteq Counted(a)
    BY <1>3 DEF Counted, RowsOf
  <2>. QED
    BY <2>1, CapStays DEF IInv
<1>. QED
  BY <1>1, <1>2, <1>4, <1>5, <1>6, <1>7, <1>8 DEF IInv

LEMMA SubmitJobStays ==
  ASSUME IInv, NEW r \in Reads, SubmitJob(r)
  PROVE  IInv'
<1>. USE DEF storeVars, jobVars, bounds
<1>1. /\ request[r] = "stored" /\ request' = [request EXCEPT ![r] = "over"]
      /\ status' = [status EXCEPT ![r] = "running"]
      /\ waiting' = [waiting EXCEPT ![AccountOf[r]] = Append(@, r)]
      /\ UNCHANGED <<row, booked, sightings, phase, current, clients, hand, play, crashes>>
      /\ UNCHANGED <<active, stopAsked, attempts>>
  BY DEF SubmitJob, Runner!Submit
<1>2. Untouched(r) /\ ~InLine(r) /\ row[r] = NewRow
  BY <1>1 DEF IInv, RequestInv
<1>3. /\ waiting' \in [Accounts -> Seq(Reads)] /\ LinesInv'
      /\ \A s \in Reads : InLine(s)' <=> InLine(s) \/ s = r
  BY <1>1, <1>2, Joins DEF IInv
<1>4. TypeOK'
  BY <1>1, <1>3 DEF IInv, TypeOK, RequestStates
<1>5. /\ request'[r] = "over"
      /\ \A s \in Reads \ {r} : request'[s] = request[s]
  BY <1>1 DEF IInv, TypeOK
<1>6. RequestInv'
  <2>. SUFFICES ASSUME NEW s \in Reads
                PROVE  /\ request'[s] \in {"new", "checked"} =>
                             Untouched(s)' /\ ~InLine(s)' /\ row'[s] = NoRow
                       /\ request'[s] = "stored" =>
                             Untouched(s)' /\ ~InLine(s)' /\ row'[s] = NewRow
                       /\ InLine(s)' => Untouched(s)' /\ row'[s] = NewRow
    BY DEF RequestInv
  <2>1. CASE s = r
    BY <2>1, <1>1, <1>2, <1>5 DEF Untouched
  <2>2. CASE s # r
    BY <2>2, <1>1, <1>3, <1>5 DEF IInv, RequestInv, Untouched
  <2>. QED
    BY <2>1, <2>2
<1>7. JobInv' /\ ReadersInv' /\ SummaryIsOfTheRead' /\ FewByHand'
  BY <1>1 DEF IInv, JobInv, ReadersInv, SummaryIsOfTheRead, SameEvidence, FewByHand
<1>8. CapInv'
  <2>1. \A a \in Accounts : Counted(a)' \subseteq Counted(a)
    BY <1>1, <1>5 DEF Counted, RowsOf
  <2>. QED
    BY <2>1, CapStays DEF IInv
<1>. QED
  BY <1>3, <1>4, <1>6, <1>7, <1>8 DEF IInv

\* A stop, a client's request or a person's load: the rows, the jobs and the
\* lines stay as they are.
LEMMA LooksStay ==
  ASSUME IInv,
         \/ \E r \in Reads : StopRead(r) \/ ClientApply(r)
         \/ \E f \in Findings, r \in Reads : LoadForFinding(f, r)
         \/ UNCHANGED vars
  PROVE  IInv'
<1>. USE DEF storeVars, runnerVars, jobVars, clientVars, bounds, vars
<1>1. UNCHANGED <<row, booked, sightings, phase, current, request, play, crashes,
                  waiting, active, status, attempts>>
  BY DEF StopRead, ClientApply, LoadForFinding, Runner!AskStop
<1>2. LinesInv' /\ \A s \in Reads : InLine(s)' <=> InLine(s)
  BY <1>1, LinesStay DEF IInv
<1>3. RequestInv' /\ JobInv' /\ SummaryIsOfTheRead'
  BY <1>1, <1>2 DEF IInv, RequestInv, JobInv, SummaryIsOfTheRead, Untouched
<1>4. CapInv'
  BY <1>1, CapStays DEF IInv, Counted, RowsOf
<1>5. TypeOK' /\ ReadersInv' /\ FewByHand'
  <2>1. CASE \E r \in Reads : StopRead(r) \/ ClientApply(r)
    <3>1. PICK r \in Reads : /\ stopAsked' \in {stopAsked, stopAsked \cup {r}}
                             /\ clients' \in {clients, clients \cup {r}}
                             /\ clients' # clients => HasDiff(r)
                             /\ UNCHANGED hand
      BY <2>1 DEF StopRead, ClientApply, Runner!AskStop
    <3>2. TypeOK'
      BY <1>1, <3>1 DEF IInv, TypeOK
    <3>3. HasDiff(r) => row[r].status \in Terminal
      BY DEF HasDiff, IsRunning, IInv, TypeOK, Row
    <3>. QED
      BY <1>1, <3>1, <3>2, <3>3 DEF IInv, ReadersInv, FewByHand, SameEvidence
  <2>2. CASE \E f \in Findings, r \in Reads : LoadForFinding(f, r)
    <3>1. PICK f \in Findings, r \in Reads : LoadForFinding(f, r)
      BY <2>2
    <3>. DEFINE h == [pc |-> "loaded", read |-> r, seen |-> row[r]]
    <3>2. h \in Hand /\ row[r].status \in Terminal /\ IsFiniteSet(row[r].byHand)
      BY <3>1 DEF LoadForFinding, IsRunning, IInv, TypeOK, FewByHand, Row, Hand
    <3>3. /\ hand' \in [Findings -> Hand] /\ hand'[f] = h
          /\ \A g \in Findings \ {f} : hand'[g] = hand[g]
          /\ UNCHANGED <<clients, stopAsked>>
      BY <3>1, <3>2 DEF LoadForFinding, IInv, TypeOK
    <3>4. TypeOK'
      BY <1>1, <3>3 DEF IInv, TypeOK
    <3>. QED
      BY <1>1, <3>2, <3>3, <3>4 DEF IInv, ReadersInv, FewByHand, SameEvidence
  <2>3. CASE UNCHANGED vars
    BY <2>3 DEF IInv, TypeOK, ReadersInv, FewByHand, SameEvidence
  <2>. QED
    BY <2>1, <2>2, <2>3
<1>. QED
  BY <1>2, <1>3, <1>4, <1>5 DEF IInv

-----------------------------------------------------------------------------
(* Settled reads, and the death of the process *)

\* A settled read's claims are written: no job has to do with it any more,
\* nor any line.
LEMMA BookedStays ==
  ASSUME IInv, NEW r \in Reads, row[r].status \in Terminal,
         booked' = [booked EXCEPT ![r] = row[r].spines],
         UNCHANGED <<row, runnerVars, jobVars, request, bounds>>
  PROVE  RequestInv' /\ JobInv' /\ booked' \in [Reads -> Nat]
<1>. USE DEF runnerVars, jobVars, bounds
<1>1. row[r] # NoRow /\ row[r] # NewRow /\ row[r].spines \in Nat
  BY FreshRows DEF IInv, TypeOK, Row
<1>2. \A s \in Reads \ {r} : booked'[s] = booked[s]
  BY DEF IInv, TypeOK
<1>3. \A s \in Reads : InLine(s)' <=> InLine(s)
  BY LinesStay DEF IInv
<1>4. RequestInv'
  <2>. SUFFICES ASSUME NEW s \in Reads
                PROVE  /\ request'[s] \in {"new", "checked"} =>
                             Untouched(s)' /\ ~InLine(s)' /\ row'[s] = NoRow
                       /\ request'[s] = "stored" =>
                             Untouched(s)' /\ ~InLine(s)' /\ row'[s] = NewRow
                       /\ InLine(s)' => Untouched(s)' /\ row'[s] = NewRow
    BY DEF RequestInv
  <2>1. CASE s = r
    BY <2>1, <1>1, <1>3 DEF IInv, RequestInv
  <2>2. CASE s # r
    BY <2>2, <1>2, <1>3 DEF IInv, RequestInv, Untouched
  <2>. QED
    BY <2>1, <2>2
<1>5. JobInv'
  BY <1>1, <1>2 DEF IInv, JobInv
<1>6. booked' \in [Reads -> Nat]
  BY <1>1 DEF IInv, TypeOK
<1>. QED
  BY <1>4, <1>5, <1>6

LEMMA AppliesStay ==
  ASSUME IInv, \/ \E r \in Reads : ClientApplied(r)
               \/ \E f \in Findings : ApplyFinding(f)
  PROVE  IInv'
<1>. USE DEF runnerVars, jobVars, bounds
<1>1. PICK r \in Reads :
        /\ row[r].status \in Terminal
        /\ booked' = [booked EXCEPT ![r] = row[r].spines]
        /\ UNCHANGED <<row, runnerVars, jobVars, request, bounds>>
        /\ clients' \subseteq clients
        /\ hand' \in [Findings -> Hand]
        /\ \A f \in Findings : \/ hand'[f] = hand[f]
                               \/ hand'[f].pc = "over" /\ hand'[f].seen = hand[f].seen
        /\ sightings' \subseteq Reads \X ByHand
  <2>1. CASE \E r \in Reads : ClientApplied(r)
    <3>1. PICK r \in Reads : ClientApplied(r)
      BY <2>1
    <3>2. row[r].status \in Terminal
      BY <3>1 DEF ClientApplied, IInv, ReadersInv
    <3>3. hand \in [Findings -> Hand] /\ sightings \subseteq Reads \X ByHand
      BY DEF IInv, TypeOK
    <3>. QED
      BY <3>1, <3>2, <3>3 DEF ClientApplied
  <2>2. CASE \E f \in Findings : ApplyFinding(f)
    <3>1. PICK f \in Findings : ApplyFinding(f)
      BY <2>2
    <3>2. /\ hand[f].read \in Reads /\ row[hand[f].read].status \in Terminal
          /\ hand[f] \in Hand /\ row[hand[f].read].byHand \subseteq ByHand
      BY <3>1 DEF ApplyFinding, IInv, TypeOK, ReadersInv, Row
    <3>3. /\ hand' \in [Findings -> Hand]
          /\ hand'[f].pc = "over" /\ hand'[f].seen = hand[f].seen
          /\ \A g \in Findings \ {f} : hand'[g] = hand[g]
      BY <3>1, <3>2 DEF ApplyFinding, IInv, TypeOK, Hand
    <3>4. sightings' \subseteq Reads \X ByHand
      BY <3>1, <3>2 DEF ApplyFinding, IInv, TypeOK
    <3>. QED
      BY <3>1, <3>2, <3>3, <3>4 DEF ApplyFinding
  <2>. QED
    BY <2>1, <2>2
<1>2. RequestInv' /\ JobInv' /\ booked' \in [Reads -> Nat]
  BY <1>1, BookedStays
<1>3. TypeOK'
  BY <1>1, <1>2 DEF IInv, TypeOK
<1>4. LinesInv'
  BY <1>1, LinesStay DEF IInv
<1>5. ReadersInv' /\ SummaryIsOfTheRead' /\ FewByHand'
  BY <1>1 DEF IInv, ReadersInv, SummaryIsOfTheRead, SameEvidence, FewByHand
<1>6. CapInv'
  BY <1>1, CapStays DEF IInv, Counted, RowsOf
<1>. QED
  BY <1>2, <1>3, <1>4, <1>5, <1>6 DEF IInv

\* The row a person's save puts back differs by one claim made by hand.
Signed(f) == [hand[f].seen EXCEPT !.byHand = @ \cup {MintedBy(f)}]

LEMMA SignedIsARow ==
  ASSUME IInv, NEW f \in Findings
  PROVE  /\ Signed(f) \in Row /\ SameEvidence(Signed(f), hand[f].seen)
         /\ IsFiniteSet(Signed(f).byHand)
<1>1. hand[f].seen \in Row /\ IsFiniteSet(hand[f].seen.byHand)
  BY DEF IInv, TypeOK, FewByHand, Hand
<1>2. MintedBy(f) \in ByHand
  <2>1. Cardinality(hand[f].seen.byHand) \in Nat
    BY <1>1, FS_CardinalityType
  <2>. QED
    BY <2>1 DEF MintedBy, ByHand
<1>3. Signed(f).byHand = hand[f].seen.byHand \cup {MintedBy(f)}
  BY <1>1 DEF Signed, Row
<1>4. IsFiniteSet(Signed(f).byHand)
  <2>1. IsFiniteSet(hand[f].seen.byHand \cup {MintedBy(f)})
    BY <1>1, FS_AddElement
  <2>. QED
    BY <1>3, <2>1
<1>. QED
  BY <1>1, <1>2, <1>4 DEF Signed, Row, SameEvidence

LEMMA SaveFindingStays ==
  ASSUME IInv, NEW f \in Findings, SaveFinding(f)
  PROVE  IInv'
<1>. USE DEF runnerVars, jobVars, bounds
<1>. DEFINE r == hand[f].read
<1>1. /\ r \in Reads /\ row[r].status \in Terminal
      /\ SameEvidence(hand[f].seen, row[r]) /\ hand[f] \in Hand
  BY DEF SaveFinding, IInv, TypeOK, ReadersInv
<1>2. Signed(f) \in Row /\ SameEvidence(Signed(f), hand[f].seen) /\ IsFiniteSet(Signed(f).byHand)
  BY SignedIsARow
<1>3. /\ row' \in [Reads -> Row] /\ row'[r] = Signed(f)
      /\ \A s \in Reads \ {r} : row'[s] = row[s]
  BY <1>1, <1>2 DEF SaveFinding, Signed, IInv, TypeOK
<1>4. SameEvidence(row'[r], row[r])
  BY <1>1, <1>2, <1>3 DEF SameEvidence
<1>5. /\ hand' \in [Findings -> Hand]
      /\ \A g \in Findings : /\ hand'[g].read = hand[g].read /\ hand'[g].seen = hand[g].seen
                             /\ hand'[g].pc = "loaded" => hand[g].pc = "loaded"
                             /\ hand'[g].pc = "saved" => hand[g].pc \in {"loaded", "saved"}
      /\ UNCHANGED <<booked, sightings, clients, request>>
  BY <1>1 DEF SaveFinding, IInv, TypeOK, Hand
<1>6. row[r] # NoRow /\ row[r] # NewRow
  BY <1>1, FreshRows
<1>. HIDE DEF r
<1>7. TypeOK'
  BY <1>3, <1>5 DEF SaveFinding, IInv, TypeOK
<1>8. LinesInv' /\ \A s \in Reads : InLine(s)' <=> InLine(s)
  BY LinesStay DEF SaveFinding, IInv
<1>9. RequestInv' /\ JobInv'
  BY <1>3, <1>5, <1>6, <1>8 DEF SaveFinding, IInv, RequestInv, JobInv, Untouched
<1>10. ReadersInv'
  <2>1. \A s \in Reads : SameEvidence(row'[s], row[s])
    BY <1>3, <1>4 DEF SameEvidence
  <2>2. \A s \in clients' : row'[s].status \in Terminal
    BY <1>5, <2>1 DEF IInv, TypeOK, ReadersInv, SameEvidence
  <2>3. ASSUME NEW g \in Findings, hand'[g].pc \in {"loaded", "saved"}
        PROVE  /\ hand'[g].read \in Reads
               /\ row'[hand'[g].read].status \in Terminal
               /\ hand'[g].pc = "loaded" =>
                    SameEvidence(hand'[g].seen, row'[hand'[g].read])
    <3>1. /\ hand[g].read \in Reads /\ row[hand[g].read].status \in Terminal
          /\ hand'[g].pc = "loaded" => SameEvidence(hand[g].seen, row[hand[g].read])
      <4>1. /\ hand[g].pc \in {"loaded", "saved"}
            /\ hand'[g].pc = "loaded" => hand[g].pc = "loaded"
        BY <1>5, <2>3
      <4>. QED
        BY <4>1 DEF IInv, ReadersInv
    <3>2. hand'[g].read = hand[g].read /\ hand'[g].seen = hand[g].seen
      BY <1>5
    <3>3. SameEvidence(row'[hand[g].read], row[hand[g].read])
      BY <2>1, <3>1
    <3>. QED
      BY <3>1, <3>2, <3>3 DEF SameEvidence
  <2>. QED
    BY <2>2, <2>3 DEF ReadersInv, SameEvidence
<1>11. SummaryIsOfTheRead' /\ FewByHand'
  <2>1. SummaryIsOfTheRead'
    BY <1>3, <1>4 DEF IInv, SummaryIsOfTheRead, SameEvidence
  <2>2. \A s \in Reads : IsFiniteSet(row'[s].byHand)
    BY <1>2, <1>3 DEF IInv, FewByHand
  <2>3. UNCHANGED current /\ \A g \in Findings : IsFiniteSet(hand'[g].seen.byHand)
    BY <1>5 DEF SaveFinding, IInv, FewByHand
  <2>. QED
    BY <2>1, <2>2, <2>3 DEF IInv, FewByHand
<1>12. CapInv'
  <2>1. \A a \in Accounts : Counted(a)' \subseteq Counted(a)
    BY <1>1, <1>3, <1>5, FreshRows DEF Counted, RowsOf, Terminal
  <2>. QED
    BY <2>1, CapStays DEF IInv
<1>. QED
  BY <1>7, <1>8, <1>9, <1>10, <1>11, <1>12 DEF IInv

LEMMA CrashStays ==
  ASSUME IInv, Crash
  PROVE  IInv'
<1>. USE DEF Crash, storeVars
<1>1. /\ \A f \in Findings : /\ hand'[f] \in Hand /\ hand'[f].pc \notin {"loaded", "saved"}
                             /\ IsFiniteSet(hand'[f].seen.byHand)
      /\ hand' = [f \in Findings |-> hand'[f]]
  <2>1. NoHand \in Hand /\ NoHand.pc = "new" /\ NoHand.seen = NoRow
    BY FreshRows DEF NoHand, Hand
  <2>2. \A f \in Findings : hand[f] \in Hand /\ IsFiniteSet(hand[f].seen.byHand)
    BY DEF IInv, TypeOK, FewByHand
  <2>. DEFINE Over(h) == [h EXCEPT !.pc = "over"]
  <2>3. \A h \in Hand : Over(h) \in Hand /\ Over(h).pc = "over" /\ Over(h).seen = h.seen
    BY DEF Hand
  <2>4. \A f \in Findings :
          hand'[f] = IF hand[f].pc = "new" THEN NoHand ELSE Over(hand[f])
    OBVIOUS
  <2>. HIDE DEF Over, Crash
  <2>5. ASSUME NEW f \in Findings
        PROVE  /\ hand'[f] \in Hand /\ hand'[f].pc \notin {"loaded", "saved"}
               /\ IsFiniteSet(hand'[f].seen.byHand)
    <3>1. CASE hand[f].pc = "new"
      BY <2>1, <2>4, <3>1, FreshRows
    <3>2. CASE hand[f].pc # "new"
      <4>1. hand'[f] = Over(hand[f]) /\ hand[f] \in Hand
        BY <2>2, <2>4, <3>2
      <4>. QED
        BY <2>2, <2>3, <4>1
    <3>. QED
      BY <3>1, <3>2
  <2>. QED
    BY <2>5 DEF Crash
<1>2. TypeOK'
  <2>1. crashes' \in 0 .. play'.crashes
    BY ReadRunsAssumption DEF IInv, TypeOK
  <2>2. waiting' \in [Accounts -> Seq(Reads)]
    BY EmptySeq
  <2>3. hand' \in [Findings -> Hand]
    BY <1>1
  <2>4. current' \in [Reads -> Row]
    BY FreshRows
  <2>. QED
    BY <2>1, <2>2, <2>3, <2>4 DEF IInv, TypeOK, RequestStates, Phases
<1>3. LinesInv' /\ \A s \in Reads : ~InLine(s)'
  BY EmptySeq DEF LinesInv, InLine
<1>4. RequestInv'
  BY <1>3 DEF IInv, RequestInv, Untouched
<1>5. JobInv' /\ SummaryIsOfTheRead'
  BY DEF IInv, JobInv, SummaryIsOfTheRead
<1>6. ReadersInv'
  BY <1>1 DEF ReadersInv
<1>7. FewByHand'
  BY <1>1, FreshRows DEF IInv, FewByHand
<1>8. CapInv'
  <2>1. \A a \in Accounts : Counted(a)' \subseteq Counted(a)
    BY DEF Counted, RowsOf
  <2>. QED
    BY <2>1, CapStays DEF IInv
<1>. QED
  BY <1>2, <1>3, <1>4, <1>5, <1>6, <1>7, <1>8 DEF IInv

-----------------------------------------------------------------------------
(* Every behaviour *)

LEMMA StartsSound == Init => IInv
<1>. SUFFICES ASSUME Init
              PROVE  IInv
  OBVIOUS
<1>. USE DEF Init
<1>1. /\ waiting = [a \in Accounts |-> <<>>] /\ active = {} /\ stopAsked = {}
      /\ status = [r \in Reads |-> "none"] /\ attempts = [r \in Reads |-> 0]
  BY DEF Runner!Init
<1>2. NoHand \in Hand /\ NoHand.pc = "new" /\ NoHand.seen = NoRow
  BY FreshRows DEF NoHand, Hand
<1>3. TypeOK
  <2>1. waiting \in [Accounts -> Seq(Reads)]
    BY <1>1, EmptySeq
  <2>2. 0 \in 0 .. play.crashes
    BY ReadRunsAssumption
  <2>. QED
    BY <1>1, <1>2, <2>1, <2>2, FreshRows DEF TypeOK, RequestStates, Phases
<1>4. LinesInv /\ \A r \in Reads : ~InLine(r)
  BY <1>1, EmptySeq DEF LinesInv, InLine
<1>5. RequestInv /\ JobInv /\ SummaryIsOfTheRead
  BY <1>1, <1>4, FreshRows DEF RequestInv, JobInv, SummaryIsOfTheRead, Untouched
<1>6. ReadersInv /\ FewByHand
  BY <1>2, FreshRows DEF ReadersInv, FewByHand
<1>7. CapInv
  <2>1. \A a \in Accounts : Counted(a) = {}
    BY FreshRows DEF Counted, RowsOf
  <2>2. Cardinality({}) <= Cap + (RequestThreads - 1)
    BY FS_EmptySet
  <2>. QED
    BY <2>1, <2>2 DEF CapInv
<1>. QED
  BY <1>3, <1>4, <1>5, <1>6, <1>7 DEF IInv

LEMMA StepsStaySound == IInv /\ [Next]_vars => IInv'
<1>. SUFFICES ASSUME IInv, [Next]_vars
              PROVE  IInv'
  OBVIOUS
<1>1. CASE UNCHANGED vars
  BY <1>1, LooksStay
<1>2. ASSUME NEW r \in Reads, StartRead(r)
      PROVE  IInv'
  BY <1>2, CheckRateStays, StoreRunningStays, SubmitJobStays DEF StartRead
<1>3. ASSUME NEW r \in Reads, StopRead(r) \/ ClientApply(r) \/ ClientApplied(r)
      PROVE  IInv'
  BY <1>3, LooksStay, AppliesStay
<1>4. ASSUME NEW r \in Reads, Run(r)
      PROVE  IInv'
  BY <1>4, RunStays, SaveStays, SettleStays
<1>5. ASSUME NEW a \in Accounts, Begin(a)
      PROVE  IInv'
  BY <1>5, BeginStays
<1>6. ASSUME NEW f \in Findings, AddFinding(f)
      PROVE  IInv'
  BY <1>6, LooksStay, SaveFindingStays, AppliesStay DEF AddFinding
<1>7. CASE Crash
  BY <1>7, CrashStays
<1>. QED
  BY <1>1, <1>2, <1>3, <1>4, <1>5, <1>6, <1>7 DEF Next

LEMMA SoundIsSound == IInv => ReadsAreSound
<1>. SUFFICES ASSUME IInv
              PROVE  ReadsAreSound
  OBVIOUS
<1>1. OneApplierAtATime
  BY FreshRows DEF IInv, JobInv, ReadersInv, OneApplierAtATime
<1>2. CapOvershootIsBounded
  <2>. SUFFICES ASSUME NEW a \in Accounts
                PROVE  Cardinality(RowsOf(a)) <= Cap + (RequestThreads - 1)
    BY DEF CapOvershootIsBounded
  <2>1. RowsOf(a) \subseteq Counted(a) /\ Counted(a) \subseteq Reads
    BY DEF Counted, RowsOf
  <2>2. /\ Cardinality(RowsOf(a)) <= Cardinality(Counted(a))
        /\ Cardinality(RowsOf(a)) \in Nat /\ Cardinality(Counted(a)) \in Nat
    BY <2>1, FewerAreFewer, CountedIsFinite
  <2>3. Cardinality(Counted(a)) <= Cap + (RequestThreads - 1)
    BY DEF IInv, CapInv
  <2>. QED
    BY <2>2, <2>3
<1>. QED
  BY <1>1, <1>2 DEF IInv, ReadsAreSound

\* The reads are sound between any two calls, whatever raises and whenever
\* the process dies: one applier, a summary of all that was found, and no
\* more than one burst of requests past the cap.
THEOREM ReadsStaySound == Spec => []ReadsAreSound
<1>1. Init => IInv
  BY StartsSound
<1>2. IInv /\ [Next]_vars => IInv'
  BY StepsStaySound
<1>3. IInv => ReadsAreSound
  BY SoundIsSound
<1>. QED
  BY <1>1, <1>2, <1>3, PTL DEF Spec

\* A settled read's row is replaced only by a row with the same outcome.
LEMMA StepsKeepEvidence ==
  ASSUME IInv, [Next]_vars, NEW r \in Reads, row[r].status \in Terminal
  PROVE  /\ row'[r].status = row[r].status /\ row'[r].spines = row[r].spines
         /\ row'[r].summed = row[r].summed /\ row'[r].added = row[r].added
<1>1. CASE UNCHANGED row
  BY <1>1
<1>2. ASSUME NEW s \in Reads, Save(s)
      PROVE  row'[r] = row[r]
  <2>1. row[s] = NewRow
    BY <1>2 DEF Save, JobStep, IInv, JobInv
  <2>. QED
    BY <1>2, <2>1, FreshRows DEF Save, IInv, TypeOK
<1>3. ASSUME NEW s \in Reads, StoreRunning(s)
      PROVE  row'[r] = row[r]
  <2>1. row[s] = NoRow
    BY <1>3 DEF StoreRunning, IInv, RequestInv
  <2>. QED
    BY <1>3, <2>1, FreshRows DEF StoreRunning, IInv, TypeOK
<1>4. ASSUME NEW f \in Findings, SaveFinding(f)
      PROVE  SameEvidence(row'[r], row[r])
  <2>1. /\ hand[f].read \in Reads /\ SameEvidence(hand[f].seen, row[hand[f].read])
        /\ row' = [row EXCEPT ![hand[f].read] = Signed(f)]
    BY <1>4 DEF SaveFinding, Signed, IInv, ReadersInv
  <2>2. SameEvidence(Signed(f), hand[f].seen)
    BY SignedIsARow
  <2>3. CASE r = hand[f].read
    <3>1. row'[r] = Signed(f)
      BY <2>1, <2>3 DEF IInv, TypeOK
    <3>. QED
      BY <2>1, <2>2, <2>3, <3>1 DEF SameEvidence
  <2>4. CASE r # hand[f].read
    <3>1. row'[r] = row[r]
      BY <2>1, <2>4 DEF IInv, TypeOK
    <3>. QED
      BY <3>1 DEF SameEvidence
  <2>. QED
    BY <2>3, <2>4
<1>5. \/ UNCHANGED row
      \/ \E s \in Reads : Save(s) \/ StoreRunning(s)
      \/ \E f \in Findings : SaveFinding(f)
  <2>. USE DEF storeVars
  <2>1. ASSUME NEW s \in Reads, Run(s) PROVE UNCHANGED row \/ Save(s)
    BY <2>1 DEF Run, EndReading, ReadingRaises, Summarize, SummarizeRaises, ApplyOne, ApplyEnds,
                ApplyRaises, SaveRaises, Return, Raise
  <2>2. ASSUME NEW s \in Reads,
               StartRead(s) \/ StopRead(s) \/ ClientApply(s) \/ ClientApplied(s)
        PROVE  UNCHANGED row \/ StoreRunning(s)
    BY <2>2 DEF StartRead, CheckRate, SubmitJob, StopRead, ClientApply, ClientApplied
  <2>3. ASSUME NEW f \in Findings, AddFinding(f) PROVE UNCHANGED row \/ SaveFinding(f)
    BY <2>3 DEF AddFinding, LoadForFinding, ApplyFinding
  <2>4. \A a \in Accounts : Begin(a) => UNCHANGED row
    BY DEF Begin
  <2>5. Crash \/ UNCHANGED vars => UNCHANGED row
    BY DEF Crash, vars
  <2>. QED
    BY <2>1, <2>2, <2>3, <2>4, <2>5 DEF Next
<1>. QED
  BY <1>1, <1>2, <1>3, <1>4, <1>5 DEF SameEvidence

\* Evidence is frozen: once a read has settled, whoever saves its row later
\* leaves its outcome, the engine's claims and the summary as they were.
THEOREM EvidenceStaysFrozen == Spec => EvidenceIsFrozen
<1>1. Init => IInv
  BY StartsSound
<1>2. IInv /\ [Next]_vars => IInv'
  BY StepsStaySound
<1>3. IInv /\ [Next]_vars =>
        [\A r \in Reads : row[r].status \in Terminal =>
            /\ row'[r].status = row[r].status
            /\ row'[r].spines = row[r].spines
            /\ row'[r].summed = row[r].summed /\ row'[r].added = row[r].added]_vars
  BY StepsKeepEvidence
<1>. QED
  BY <1>1, <1>2, <1>3, PTL DEF Spec, EvidenceIsFrozen
=============================================================================
