-------------------------- MODULE ShelfReview_proofs --------------------------
(***************************************************************************)
(* What the review of a settled read promises, for any reads and claims,   *)
(* any keys and sites, and any requests and crashes between store calls:   *)
(* the stored library is sound, nothing a person did is lost, what was     *)
(* answered no stays out, a removal sticks, and a read applied again adds  *)
(* and moves nothing.                                                      *)
(***************************************************************************)
EXTENDS ShelfReview, FiniteSetTheorems, WellFoundedInduction, SequenceTheorems, TLAPS
-----------------------------------------------------------------------------
(* Numbers and sequences *)

\* The least of some numbers is one of them.
LEMMA MinOf ==
  ASSUME NEW S \in SUBSET Nat, S # {}
  PROVE  Min(S) \in S /\ \A y \in S : Min(S) <= y
<1>1. PICK x \in S : \A y \in S : <<y, x>> \notin OpToRel(<, Nat)
  BY NatLessThanWellFounded, WFMin
<1>2. ASSUME NEW y \in S
      PROVE  x <= y
  <2>1. x \in Nat /\ y \in Nat
    BY <1>1
  <2>2. ~(y < x)
    BY <1>1, <2>1 DEF OpToRel
  <2>. QED
    BY <2>1, <2>2
<1>. QED
  BY <1>2 DEF Min

\* The n-th of a finite set of numbers: each of them is the n-th for one n.
LEMMA PlacesInOrder ==
  ASSUME NEW I \in SUBSET Nat, IsFiniteSet(I)
  PROVE  /\ Cardinality(I) \in Nat
         /\ \A n \in 1 .. Cardinality(I) : PlaceOf(I, n) \in I
         /\ \A n, m \in 1 .. Cardinality(I) : n # m => PlaceOf(I, n) # PlaceOf(I, m)
         /\ \A i \in I : \E n \in 1 .. Cardinality(I) : PlaceOf(I, n) = i
<1>. DEFINE Upto(i) == {k \in I : k <= i}
            f == [i \in I |-> Cardinality(Upto(i))]
            N == Cardinality(I)
<1>1. N \in Nat /\ \A i : IsFiniteSet(Upto(i)) /\ Cardinality(Upto(i)) \in Nat
  BY FS_Subset, FS_CardinalityType
<1>2. ASSUME NEW i \in I
      PROVE  f[i] \in 1 .. N
  <2>1. i \in Upto(i) /\ Upto(i) \subseteq I
    BY <1>2
  <2>2. Cardinality(Upto(i)) <= N /\ Cardinality(Upto(i)) # 0
    BY <1>1, <2>1, FS_Subset, FS_EmptySet
  <2>. QED
    BY <1>1, <2>2
<1>3. ASSUME NEW i \in I, NEW j \in I, i < j
      PROVE  f[i] < f[j]
  <2>1. Upto(i) \subseteq Upto(j) /\ j \in Upto(j) /\ j \notin Upto(i)
    <3>1. i \in Nat /\ j \in Nat /\ i < j
      BY <1>3
    <3>2. ASSUME NEW k \in I, k <= i
          PROVE  k <= j
      BY <3>1, <3>2
    <3>3. j \in Upto(j) /\ j \notin Upto(i)
      BY <3>1
    <3>. QED
      BY <3>2, <3>3
  <2>. HIDE DEF Upto
  <2>2. Cardinality(Upto(i)) <= Cardinality(Upto(j))
        /\ (Cardinality(Upto(j)) = Cardinality(Upto(i)) => Upto(j) = Upto(i))
    BY <1>1, <2>1, FS_Subset
  <2>. QED
    BY <1>1, <2>1, <2>2
<1>4. f \in [I -> 1 .. N] /\ \A i, j \in I : f[i] = f[j] => i = j
  <2>1. f \in [I -> 1 .. N]
    BY <1>2
  <2>2. ASSUME NEW i \in I, NEW j \in I, f[i] = f[j]
        PROVE  i = j
    <3>1. i < j \/ j < i \/ i = j
      BY DEF f
    <3>2. f[i] \in Nat /\ f[j] \in Nat
      BY <2>1, <1>1
    <3>. HIDE DEF f
    <3>. QED
      BY <1>3, <2>2, <3>1, <3>2
  <2>. QED
    BY <2>1, <2>2
<1>5. \A n \in 1 .. N : \E i \in I : f[i] = n
  <2>. HIDE DEF f
  <2>1. f \in Injection(I, 1 .. N)
    BY <1>4 DEF Injection, IsInjective
  <2>2. IsFiniteSet(1 .. N) /\ Cardinality(1 .. N) = N
    BY <1>1, FS_Interval
  <2>3. f \in Surjection(I, 1 .. N)
    BY <2>1, <2>2, FS_Injection
  <2>. QED
    BY <2>3 DEF Surjection
<1>6. \A n \in 1 .. N : PlaceOf(I, n) \in I /\ f[PlaceOf(I, n)] = n
  BY <1>5 DEF PlaceOf
<1>. HIDE DEF f
<1>. QED
  BY <1>1, <1>4, <1>6

\* k says where in s each element of p stood: p is what s holds of T, each
\* element once for each of its places.
Picks(k, p, s, T) ==
    /\ k \in [DOMAIN p -> DOMAIN s]
    /\ \A n \in DOMAIN p : p[n] = s[k[n]] /\ s[k[n]] \in T
    /\ \A n, m \in DOMAIN p : n # m => k[n] # k[m]
    /\ \A i \in DOMAIN s : s[i] \in T => \E n \in DOMAIN p : k[n] = i

LEMMA KeptFacts ==
  ASSUME NEW S, NEW s \in Seq(S), NEW T
  PROVE  /\ Kept(s, T) \in Seq(S)
         /\ \A n \in DOMAIN Kept(s, T) : Kept(s, T)[n] \in T
         /\ \E k : Picks(k, Kept(s, T), s, T)
<1>. DEFINE I == Places(s, T)
            N == Cardinality(I)
            k == [n \in 1 .. N |-> PlaceOf(I, n)]
<1>1. DOMAIN s = 1 .. Len(s) /\ Len(s) \in Nat
  BY LenProperties
<1>2. I \subseteq DOMAIN s /\ I \subseteq Nat /\ IsFiniteSet(I)
  <2>1. I \in SUBSET (1 .. Len(s)) /\ IsFiniteSet(1 .. Len(s))
    BY <1>1, FS_Interval DEF Places
  <2>2. I \subseteq DOMAIN s
    BY DEF Places
  <2>3. I \subseteq Nat
    BY <1>1, <2>2
  <2>. HIDE DEF I
  <2>4. IsFiniteSet(I)
    BY <2>1, FS_Subset
  <2>. QED
    BY <2>2, <2>3, <2>4
<1>3. \A i \in I : s[i] \in T /\ s[i] \in S
  BY <1>1, ElementOfSeq DEF Places
<1>4. /\ N \in Nat
      /\ \A n \in 1 .. N : PlaceOf(I, n) \in I
      /\ \A n, m \in 1 .. N : n # m => PlaceOf(I, n) # PlaceOf(I, m)
      /\ \A i \in I : \E n \in 1 .. N : PlaceOf(I, n) = i
  <2>. HIDE DEF I
  <2>. QED
    BY <1>2, PlacesInOrder
<1>5. Kept(s, T) = [n \in 1 .. N |-> s[PlaceOf(I, n)]] /\ DOMAIN Kept(s, T) = 1 .. N
  BY DEF Kept
<1>6. \A i \in DOMAIN s : s[i] \in T => i \in I
  BY DEF Places
<1>. HIDE DEF I, N
<1>7. Kept(s, T) \in Seq(S)
  BY <1>3, <1>4, <1>5, IsASeq
<1>8. k \in [1 .. N -> DOMAIN s] /\ \A n \in 1 .. N : k[n] = PlaceOf(I, n)
  BY <1>2, <1>4
<1>. HIDE DEF k
<1>9. /\ \A n \in 1 .. N : Kept(s, T)[n] = s[k[n]] /\ s[k[n]] \in T
      /\ \A n, m \in 1 .. N : n # m => k[n] # k[m]
      /\ \A i \in DOMAIN s : s[i] \in T => \E n \in 1 .. N : k[n] = i
  BY <1>3, <1>4, <1>5, <1>6, <1>8
<1>10. k \in [DOMAIN Kept(s, T) -> DOMAIN s]
  BY <1>5, <1>8
<1>11. /\ \A n \in DOMAIN Kept(s, T) : Kept(s, T)[n] = s[k[n]] /\ s[k[n]] \in T
       /\ \A n, m \in DOMAIN Kept(s, T) : n # m => k[n] # k[m]
       /\ \A i \in DOMAIN s : s[i] \in T => \E n \in DOMAIN Kept(s, T) : k[n] = i
  BY <1>5, <1>9
<1>12. Picks(k, Kept(s, T), s, T)
  BY <1>10, <1>11 DEF Picks
<1>13. \A n \in DOMAIN Kept(s, T) : Kept(s, T)[n] \in T
  BY <1>11
<1>. QED
  BY <1>7, <1>12, <1>13

\* What is concatenated stays, each part in its place.
LEMMA Joined ==
  ASSUME NEW S, NEW s \in Seq(S), NEW t \in Seq(S)
  PROVE  /\ s \o t \in Seq(S)
         /\ DOMAIN s = 1 .. Len(s) /\ DOMAIN t = 1 .. Len(t)
         /\ Len(s) \in Nat /\ Len(t) \in Nat /\ Len(s \o t) = Len(s) + Len(t)
         /\ \A i \in DOMAIN s : i \in DOMAIN (s \o t) /\ (s \o t)[i] = s[i]
         /\ \A i \in DOMAIN t : Len(s) + i \in DOMAIN (s \o t) /\ (s \o t)[Len(s) + i] = t[i]
         /\ \A i \in DOMAIN (s \o t) :
               \/ i \in DOMAIN s /\ (s \o t)[i] = s[i]
               \/ /\ i > Len(s) /\ i - Len(s) \in DOMAIN t
                  /\ (s \o t)[i] = t[i - Len(s)]
<1>1. DOMAIN s = 1 .. Len(s) /\ DOMAIN t = 1 .. Len(t) /\ Len(s) \in Nat /\ Len(t) \in Nat
  BY LenProperties
<1>2. s \o t \in Seq(S) /\ Len(s \o t) = Len(s) + Len(t)
      /\ \A i \in 1 .. Len(s) + Len(t) : (s \o t)[i] = IF i <= Len(s) THEN s[i] ELSE t[i - Len(s)]
  BY ConcatProperties
<1>3. DOMAIN (s \o t) = 1 .. Len(s) + Len(t)
  BY <1>2, LenProperties
<1>. QED
  BY <1>1, <1>2, <1>3

\* The tail of a sequence holds what it held from its second place on.
LEMMA TailOf ==
  ASSUME NEW S, NEW s \in Seq(S), s # <<>>
  PROVE  /\ Head(s) = s[1] /\ Head(s) \in S /\ Tail(s) \in Seq(S)
         /\ 1 \in DOMAIN s /\ DOMAIN s = 1 .. Len(s) /\ Len(s) \in Nat
         /\ DOMAIN Tail(s) = 1 .. Len(s) - 1
         /\ \A i \in DOMAIN Tail(s) : i + 1 \in DOMAIN s /\ Tail(s)[i] = s[i + 1]
         /\ \A i \in DOMAIN s : i = 1 \/ (i - 1 \in DOMAIN Tail(s) /\ Tail(s)[i - 1] = s[i])
<1>1. Head(s) \in S /\ Tail(s) \in Seq(S) /\ Len(Tail(s)) = Len(s) - 1
      /\ \A i \in 1 .. Len(Tail(s)) : Tail(s)[i] = s[i + 1]
  BY HeadTailProperties
<1>2. DOMAIN s = 1 .. Len(s) /\ Len(s) \in Nat /\ DOMAIN Tail(s) = 1 .. Len(Tail(s)) /\ Len(s) # 0
  BY <1>1, LenProperties, EmptySeq
<1>. QED
  BY <1>1, <1>2

-----------------------------------------------------------------------------
(* Maps, and the rows of the stores *)

Maps(D, V) == UNION {[S -> V] : S \in SUBSET D}

BookShape(m) == [key : Keys, added : 1 .. Cardinality(Reads) + 1, copies : Maps(1 .. m, CopyType)]
BookRows(m)  == {b \in BookShape(m) : CopyIds(b) # {}}
Libraries(m) == Maps(1 .. m, BookRows(m))
Decisions(m) == [kind : DecisionKinds, copy : 0 .. m]

\* A map: where it is defined, and what its values are.
LEMMA MapFacts ==
  ASSUME NEW D, NEW V, NEW f \in Maps(D, V)
  PROVE  /\ DOMAIN f \subseteq D
         /\ \A x \in DOMAIN f : f[x] \in V
         /\ f = [x \in DOMAIN f |-> f[x]]
<1>1. PICK S \in SUBSET D : f \in [S -> V]
  BY DEF Maps
<1>. QED
  BY <1>1

LEMMA MapIntro ==
  ASSUME NEW D, NEW V, NEW f, f = [x \in DOMAIN f |-> f[x]],
         DOMAIN f \subseteq D, \A x \in DOMAIN f : f[x] \in V
  PROVE  f \in Maps(D, V)
<1>1. f \in [DOMAIN f -> V] /\ DOMAIN f \in SUBSET D
  OBVIOUS
<1>. QED
  BY <1>1 DEF Maps

LEMMA MapsGrow ==
  ASSUME NEW D, NEW V, NEW E, NEW W, D \subseteq E, V \subseteq W
  PROVE  Maps(D, V) \subseteq Maps(E, W)
<1>1. ASSUME NEW f \in Maps(D, V)
      PROVE  f \in Maps(E, W)
  <2>1. DOMAIN f \subseteq D /\ (\A x \in DOMAIN f : f[x] \in V) /\ f = [x \in DOMAIN f |-> f[x]]
    BY <1>1, MapFacts
  <2>2. DOMAIN f \subseteq E /\ (\A x \in DOMAIN f : f[x] \in W)
    BY <2>1
  <2>. QED
    BY <2>1, <2>2, MapIntro
<1>. QED
  BY <1>1

LEMMA PutType ==
  ASSUME NEW D, NEW V, NEW f \in Maps(D, V), NEW k \in D, NEW v \in V
  PROVE  Put(f, k, v) \in Maps(D, V)
<1>. DEFINE g == Put(f, k, v)
<1>1. DOMAIN f \subseteq D /\ \A x \in DOMAIN f : f[x] \in V
  BY MapFacts
<1>2. /\ DOMAIN g = DOMAIN f \cup {k}
      /\ g = [x \in DOMAIN g |-> g[x]]
      /\ \A x \in DOMAIN g : g[x] \in V
  BY <1>1 DEF Put
<1>3. DOMAIN g \subseteq D
  BY <1>1, <1>2
<1>. HIDE DEF g
<1>4. g \in Maps(D, V)
  BY <1>2, <1>3, MapIntro
<1>. QED
  BY <1>4 DEF g

LEMMA EmptyMap == \A D, V : <<>> \in Maps(D, V)
<1>1. ASSUME NEW D, NEW V
      PROVE  <<>> \in Maps(D, V)
  <2>1. <<>> \in [{} -> V]
    OBVIOUS
  <2>. QED
    BY <2>1 DEF Maps
<1>. QED
  BY <1>1

LEMMA RowsGrow ==
  ASSUME NEW m \in Nat, NEW n \in Nat, m <= n
  PROVE  /\ BookRows(m) \subseteq BookRows(n) /\ Libraries(m) \subseteq Libraries(n)
         /\ Decisions(m) \subseteq Decisions(n)
<1>1. 1 .. m \subseteq 1 .. n /\ 0 .. m \subseteq 0 .. n
  OBVIOUS
<1>2. Maps(1 .. m, CopyType) \subseteq Maps(1 .. n, CopyType)
  BY <1>1, MapsGrow
<1>3. BookRows(m) \subseteq BookRows(n)
  BY <1>2 DEF BookRows, BookShape
<1>4. Libraries(m) \subseteq Libraries(n)
  BY <1>1, <1>3, MapsGrow DEF Libraries
<1>. QED
  BY <1>1, <1>3, <1>4 DEF Decisions

\* A stored book: its fields and its copies.
LEMMA BookFields ==
  ASSUME NEW m \in Nat, NEW b \in BookRows(m)
  PROVE  /\ b.key \in Keys /\ b.added \in 1 .. Cardinality(Reads) + 1
         /\ b = [key |-> b.key, added |-> b.added, copies |-> b.copies]
         /\ b.copies \in Maps(1 .. m, CopyType)
         /\ b.copies = [c \in CopyIds(b) |-> b.copies[c]]
         /\ CopyIds(b) # {} /\ CopyIds(b) \subseteq 1 .. m
         /\ \A c \in CopyIds(b) : b.copies[c] \in CopyType
<1>1. b \in BookShape(m) /\ CopyIds(b) # {}
  BY DEF BookRows
<1>2. b.key \in Keys /\ b.added \in 1 .. Cardinality(Reads) + 1 /\ b.copies \in Maps(1 .. m, CopyType)
      /\ b = [key |-> b.key, added |-> b.added, copies |-> b.copies]
  BY <1>1 DEF BookShape
<1>. QED
  BY <1>1, <1>2, MapFacts DEF CopyIds

LEMMA BookIntro ==
  ASSUME NEW m \in Nat, NEW k \in Keys, NEW a \in 1 .. Cardinality(Reads) + 1,
         NEW f \in Maps(1 .. m, CopyType), DOMAIN f # {}
  PROVE  [key |-> k, added |-> a, copies |-> f] \in BookRows(m)
BY DEF BookRows, BookShape, CopyIds

LEMMA LibraryFields ==
  ASSUME NEW m \in Nat, NEW L \in Libraries(m)
  PROVE  /\ DOMAIN L \subseteq 1 .. m
         /\ \A b \in DOMAIN L : b \in 1 .. m /\ b # None /\ L[b] \in BookRows(m)
<1>1. DOMAIN L \subseteq 1 .. m /\ \A b \in DOMAIN L : L[b] \in BookRows(m)
  BY MapFacts DEF Libraries
<1>. QED
  BY <1>1 DEF None

LEMMA CopyFields ==
  ASSUME NEW x \in CopyType
  PROVE  /\ x.site \in Sites \cup {NoSite} /\ x.status \in AutoStatus .. ManualStatus
         /\ x.seen \in Seq(Reads \X Nat) /\ x.label \in Labels \cup {NoLabel}
         /\ x.lent \in [to : Borrowers \cup {NoOne}, out : BOOLEAN]
         /\ x.status \in Nat
         /\ x = [site |-> x.site, status |-> x.status, seen |-> x.seen,
                 label |-> x.label, lent |-> x.lent]
BY DEF CopyType, AutoStatus, ManualStatus

\* The rungs of the ladder, and a read's evidence as a copy.
LEMMA EvidenceType ==
  ASSUME NEW r \in Reads, NEW spine \in Nat, NEW status \in AutoStatus .. ManualStatus
  PROVE  /\ Evidence(r, spine, status) \in CopyType
         /\ Evidence(r, spine, status).site = SiteOf[r]
         /\ Evidence(r, spine, status).seen = <<<<r, spine>>>>
<1>1. SiteOf[r] \in Sites
  BY SitesAreTyped
<1>2. <<<<r, spine>>>> \in Seq(Reads \X Nat)
  OBVIOUS
<1>. QED
  BY <1>1, <1>2 DEF Evidence, Copy, CopyType, Lending

\* One copy of a book is replaced: the book's identity and its other copies stay.
LEMMA WithCopyFacts ==
  ASSUME NEW m \in Nat, NEW b \in BookRows(m), NEW c \in CopyIds(b), NEW x \in CopyType
  PROVE  LET w == WithCopy(b, c, x)
         IN  /\ w \in BookRows(m) /\ CopyIds(w) = CopyIds(b)
             /\ w.key = b.key /\ w.added = b.added
             /\ w.copies[c] = x
             /\ \A d \in CopyIds(b) : d # c => w.copies[d] = b.copies[d]
<1>. DEFINE w == WithCopy(b, c, x)
            f == [b.copies EXCEPT ![c] = x]
<1>1. /\ b = [key |-> b.key, added |-> b.added, copies |-> b.copies]
      /\ b.copies \in Maps(1 .. m, CopyType) /\ b.key \in Keys
      /\ b.added \in 1 .. Cardinality(Reads) + 1
      /\ b.copies = [d \in CopyIds(b) |-> b.copies[d]]
      /\ \A d \in CopyIds(b) : b.copies[d] \in CopyType
      /\ CopyIds(b) \subseteq 1 .. m /\ CopyIds(b) = DOMAIN b.copies
  BY BookFields DEF CopyIds
<1>2. w = [key |-> b.key, added |-> b.added, copies |-> f]
  <2>1. b = [key |-> b.key, added |-> b.added, copies |-> b.copies]
    BY <1>1
  <2>. QED
    BY <2>1 DEF WithCopy
<1>3. /\ DOMAIN f = CopyIds(b) /\ f[c] = x
      /\ \A d \in CopyIds(b) : d # c => f[d] = b.copies[d]
      /\ f = [d \in DOMAIN f |-> f[d]]
  BY <1>1
<1>4. \A d \in DOMAIN f : f[d] \in CopyType
  BY <1>1, <1>3
<1>. HIDE DEF f
<1>5. f \in Maps(1 .. m, CopyType) /\ DOMAIN f # {}
  BY <1>1, <1>3, <1>4, MapIntro
<1>6. w \in BookRows(m)
  BY <1>1, <1>2, <1>5, BookIntro
<1>. HIDE DEF w
<1>7. w.key = b.key /\ w.added = b.added /\ w.copies = f /\ CopyIds(w) = DOMAIN f
  BY <1>2 DEF CopyIds
<1>. QED
  BY <1>3, <1>6, <1>7 DEF w

\* A copy's evidence, appended once.
LEMMA WitnessedFacts ==
  ASSUME NEW seen \in Seq(Reads \X Nat), NEW sighting \in Reads \X Nat
  PROVE  /\ Witnessed(seen, sighting) \in Seq(Reads \X Nat)
         /\ Contains(Witnessed(seen, sighting), sighting)
         /\ \A e : Contains(seen, e) => Contains(Witnessed(seen, sighting), e)
         /\ \A e : Contains(Witnessed(seen, sighting), e) => Contains(seen, e) \/ e = sighting
<1>1. CASE Contains(seen, sighting)
  BY <1>1 DEF Witnessed
<1>2. CASE ~Contains(seen, sighting)
  <2>. DEFINE t == Append(seen, sighting)
  <2>1. /\ t \in Seq(Reads \X Nat) /\ Len(t) = Len(seen) + 1 /\ Len(seen) \in Nat
        /\ \A i \in 1 .. Len(seen) : t[i] = seen[i]
        /\ t[Len(seen) + 1] = sighting
    OBVIOUS
  <2>2. Witnessed(seen, sighting) = t
    BY <1>2 DEF Witnessed
  <2>. HIDE DEF t
  <2>3. Contains(t, sighting)
    BY <2>1 DEF Contains
  <2>4. ASSUME NEW e, Contains(seen, e)
        PROVE  Contains(t, e)
    BY <2>1, <2>4 DEF Contains
  <2>5. ASSUME NEW e, Contains(t, e)
        PROVE  Contains(seen, e) \/ e = sighting
    <3>1. PICK i \in 1 .. Len(t) : t[i] = e
      BY <2>5 DEF Contains
    <3>2. i \in 1 .. Len(seen) \/ i = Len(seen) + 1
      BY <2>1, <3>1
    <3>. QED
      BY <2>1, <3>1, <3>2 DEF Contains
  <2>. QED
    BY <2>1, <2>2, <2>3, <2>4, <2>5
<1>. QED
  BY <1>1, <1>2

\* A copy of a book is seen: it stands at p, the sighting vouches for it.
Seen(b, c, p, sighting, w, m) ==
    /\ w \in BookRows(m) /\ CopyIds(w) = CopyIds(b)
    /\ w.key = b.key /\ w.added = b.added
    /\ \A d \in CopyIds(b) : d # c => w.copies[d] = b.copies[d]
    /\ w.copies[c].site = p
    /\ w.copies[c].status = b.copies[c].status
    /\ w.copies[c].label = b.copies[c].label
    /\ w.copies[c].lent = b.copies[c].lent
    /\ w.copies[c].seen = Witnessed(b.copies[c].seen, sighting)

\* Observing a copy and relinking it: the relinked copy stands at the site now,
\* the observed one only if it stood nowhere; all else that a person did stays.
LEMMA ObserveFacts ==
  ASSUME NEW m \in Nat, NEW b \in BookRows(m), NEW c \in CopyIds(b),
         NEW site \in Sites, NEW sighting \in Reads \X Nat
  PROVE  /\ Seen(b, c, site, sighting, RelinkCopy(b, c, site, sighting), m)
         /\ Seen(b, c, IF b.copies[c].site = NoSite THEN site ELSE b.copies[c].site,
                 sighting, Observe(b, c, site, sighting), m)
<1>. DEFINE x == b.copies[c]
            seen == Witnessed(x.seen, sighting)
            y(p) == [site |-> p, status |-> x.status, seen |-> seen,
                     label |-> x.label, lent |-> x.lent]
            at == IF x.site = NoSite THEN site ELSE x.site
<1>1. x \in CopyType
  BY BookFields
<1>2. /\ x.site \in Sites \cup {NoSite} /\ x.status \in AutoStatus .. ManualStatus /\ x.status \in Nat
      /\ x.seen \in Seq(Reads \X Nat) /\ x.label \in Labels \cup {NoLabel}
      /\ x.lent \in [to : Borrowers \cup {NoOne}, out : BOOLEAN]
      /\ x = [site |-> x.site, status |-> x.status, seen |-> x.seen,
              label |-> x.label, lent |-> x.lent]
  BY <1>1, CopyFields
<1>3. seen \in Seq(Reads \X Nat)
  BY <1>2, WitnessedFacts
<1>. HIDE DEF x
<1>4. MergeStatus(x.status, AutoStatus) = x.status
  BY <1>2 DEF MergeStatus, AutoStatus
<1>5. \A p \in Sites : y(p) \in CopyType
  <2>. HIDE DEF seen
  <2>. QED
    BY <1>2, <1>3 DEF CopyType
<1>6. ASSUME NEW p
      PROVE  [x EXCEPT !.site = p, !.status = MergeStatus(@, AutoStatus),
                       !.seen = Witnessed(@, sighting)] = y(p)
  <2>. DEFINE q == MergeStatus(x.status, AutoStatus)
  <2>1. x = [site |-> x.site, status |-> x.status, seen |-> x.seen,
             label |-> x.label, lent |-> x.lent]
    BY <1>2
  <2>2. q = x.status
    BY <1>4
  <2>. HIDE DEF q, seen
  <2>. DEFINE a1 == [x EXCEPT !.site = p]
              a2 == [a1 EXCEPT !.status = q]
              a3 == [a2 EXCEPT !.seen = seen]
  <2>3. [x EXCEPT !.site = p, !.status = q, !.seen = seen] = a3
    OBVIOUS
  <2>5. a1 = [site |-> p, status |-> x.status, seen |-> x.seen, label |-> x.label, lent |-> x.lent]
    BY <2>1
  <2>. HIDE DEF a1
  <2>6. a2 = [site |-> p, status |-> q, seen |-> x.seen, label |-> x.label, lent |-> x.lent]
    BY <2>5
  <2>. HIDE DEF a2
  <2>7. a3 = [site |-> p, status |-> q, seen |-> seen, label |-> x.label, lent |-> x.lent]
    BY <2>6
  <2>. HIDE DEF a3
  <2>4. [x EXCEPT !.site = p, !.status = q, !.seen = seen] = y(p)
    BY <2>2, <2>3, <2>7
  <2>. QED
    BY <2>4 DEF q, seen
<1>7. Observe(b, c, site, sighting) = WithCopy(b, c, y(at))
  BY <1>6 DEF Observe, x
<1>8. RelinkCopy(b, c, site, sighting) = WithCopy(b, c, y(site))
  BY <1>6 DEF RelinkCopy, x
<1>9. at \in Sites
  BY <1>2
<1>10. ASSUME NEW p \in Sites
       PROVE  Seen(b, c, p, sighting, WithCopy(b, c, y(p)), m)
  <2>1. y(p) \in CopyType
    BY <1>5
  <2>2. /\ y(p).site = p /\ y(p).status = x.status /\ y(p).label = x.label
        /\ y(p).lent = x.lent /\ y(p).seen = seen
    OBVIOUS
  <2>. HIDE DEF y
  <2>. QED
    BY <2>1, <2>2, WithCopyFacts DEF Seen, x
<1>. HIDE DEF y
<1>. QED
  BY <1>7, <1>8, <1>9, <1>10 DEF x

\* What a save may not cost a copy: its place among the copies, its status,
\* what a person wrote on it, and who has it.
Keeps(was, now, kind) ==
    \A c \in CopyIds(was) :
        /\ c \in CopyIds(now)
        /\ now.copies[c].status >= was.copies[c].status
        /\ was.copies[c].label # now.copies[c].label => kind = "patch"
        /\ was.copies[c].lent.out => /\ now.copies[c].lent.to = was.copies[c].lent.to
                                     /\ now.copies[c].lent.out \/ kind = "return"

\* A save that only edits: the same copies, none of them the worse for it.
Edits(b, w, m, kind) == w \in BookRows(m) /\ CopyIds(w) = CopyIds(b) /\ Keeps(b, w, kind)

\* One copy replaced, by one that a person would not miss.
LEMMA EditsByCopy ==
  ASSUME NEW m \in Nat, NEW b \in BookRows(m), NEW c \in CopyIds(b), NEW x \in CopyType,
         NEW kind, x.status = b.copies[c].status,
         x.label # b.copies[c].label => kind = "patch",
         b.copies[c].lent.out => /\ x.lent.to = b.copies[c].lent.to
                                 /\ x.lent.out \/ kind = "return"
  PROVE  Edits(b, WithCopy(b, c, x), m, kind)
<1>. DEFINE w == WithCopy(b, c, x)
<1>1. /\ w \in BookRows(m) /\ CopyIds(w) = CopyIds(b) /\ w.copies[c] = x
      /\ \A d \in CopyIds(b) : d # c => w.copies[d] = b.copies[d]
  BY WithCopyFacts
<1>2. \A d \in CopyIds(b) : b.copies[d].status \in Nat
  BY BookFields, CopyFields
<1>. HIDE DEF w
<1>3. Keeps(b, w, kind)
  BY <1>1, <1>2 DEF Keeps
<1>. QED
  BY <1>1, <1>3 DEF Edits, w

LEMMA RaiseAllFacts ==
  ASSUME NEW m \in Nat, NEW b \in BookRows(m), NEW status \in AutoStatus .. ManualStatus,
         NEW kind
  PROVE  /\ Edits(b, RaiseAll(b, status), m, kind)
         /\ RaiseAll(b, status) = [key |-> b.key, added |-> b.added,
                                   copies |-> RaiseAll(b, status).copies]
<1>. DEFINE y(c) == Raised(b.copies[c], status)
            f == [c \in CopyIds(b) |-> y(c)]
            w == RaiseAll(b, status)
<1>1. /\ b = [key |-> b.key, added |-> b.added, copies |-> b.copies]
      /\ b.key \in Keys /\ b.added \in 1 .. Cardinality(Reads) + 1
      /\ CopyIds(b) # {} /\ CopyIds(b) \subseteq 1 .. m
      /\ \A c \in CopyIds(b) : b.copies[c] \in CopyType
  BY BookFields
<1>2. w = [key |-> b.key, added |-> b.added, copies |-> f]
  <2>1. b = [key |-> b.key, added |-> b.added, copies |-> b.copies]
    BY <1>1
  <2>2. w = [b EXCEPT !.copies = f]
    BY DEF RaiseAll
  <2>. HIDE DEF f, w
  <2>. QED
    BY <2>1, <2>2
<1>3. ASSUME NEW c \in CopyIds(b)
      PROVE  /\ y(c) \in CopyType /\ y(c).status >= b.copies[c].status
             /\ y(c).label = b.copies[c].label /\ y(c).lent = b.copies[c].lent
  <2>. DEFINE x == b.copies[c]
              q == MergeStatus(x.status, status)
  <2>1. x \in CopyType
    BY <1>1
  <2>2. /\ x.site \in Sites \cup {NoSite} /\ x.status \in AutoStatus .. ManualStatus
        /\ x.seen \in Seq(Reads \X Nat) /\ x.label \in Labels \cup {NoLabel}
        /\ x.lent \in [to : Borrowers \cup {NoOne}, out : BOOLEAN]
        /\ x = [site |-> x.site, status |-> x.status, seen |-> x.seen,
                label |-> x.label, lent |-> x.lent]
    BY <2>1, CopyFields
  <2>3. q \in AutoStatus .. ManualStatus /\ q >= x.status
    BY <2>2 DEF MergeStatus, AutoStatus, ManualStatus
  <2>4. y(c) = [x EXCEPT !.status = q]
    BY DEF Raised
  <2>. HIDE DEF q, y, x
  <2>5. y(c) = [site |-> x.site, status |-> q, seen |-> x.seen, label |-> x.label, lent |-> x.lent]
    BY <2>2, <2>4
  <2>6. y(c) \in CopyType /\ y(c).status = q /\ y(c).label = x.label /\ y(c).lent = x.lent
    BY <2>2, <2>3, <2>5 DEF CopyType
  <2>. QED
    BY <2>3, <2>6 DEF x
<1>10. DOMAIN f = CopyIds(b) /\ \A c \in CopyIds(b) : f[c] = y(c)
  OBVIOUS
<1>11. f = [c \in DOMAIN f |-> f[c]]
  OBVIOUS
<1>. HIDE DEF y, f
<1>4. f \in Maps(1 .. m, CopyType)
  BY <1>1, <1>3, <1>10, <1>11, MapIntro
<1>5. w \in BookRows(m)
  <2>1. DOMAIN f # {}
    BY <1>1, <1>10
  <2>. HIDE DEF w
  <2>. QED
    BY <1>1, <1>2, <1>4, <2>1, BookIntro
<1>6. CopyIds(w) = CopyIds(b) /\ \A c \in CopyIds(b) : w.copies[c] = y(c)
  <2>1. w.copies = f
    BY <1>2
  <2>. HIDE DEF w
  <2>. QED
    BY <1>10, <2>1 DEF CopyIds
<1>7. w.copies = f
  BY <1>2
<1>. HIDE DEF w
<1>8. Keeps(b, w, kind)
  BY <1>3, <1>6 DEF Keeps
<1>9. Edits(b, w, m, kind) /\ w = [key |-> b.key, added |-> b.added, copies |-> w.copies]
  BY <1>2, <1>5, <1>6, <1>7, <1>8 DEF Edits
<1>. QED
  BY <1>9 DEF w

LEMMA ApproveFacts ==
  ASSUME NEW m \in Nat, NEW b \in BookRows(m), NEW kind
  PROVE  Edits(b, Approve(b), m, kind)
BY RaiseAllFacts DEF Approve, Approved, AutoStatus, ManualStatus

LEMMA EditFacts ==
  ASSUME NEW m \in Nat, NEW b \in BookRows(m), NEW key \in Keys, NEW kind
  PROVE  Edits(b, Edit(b, key), m, kind)
<1>. DEFINE v == RaiseAll(b, ManualStatus)
            w == Edit(b, key)
<1>1. Edits(b, v, m, kind) /\ v = [key |-> b.key, added |-> b.added, copies |-> v.copies]
  BY RaiseAllFacts DEF AutoStatus, ManualStatus
<1>2. w = [v EXCEPT !.key = key]
  BY DEF Edit
<1>. HIDE DEF v, w
<1>3. w = [key |-> key, added |-> b.added, copies |-> v.copies]
  BY <1>1, <1>2
<1>4. v \in BookRows(m)
  BY <1>1 DEF Edits
<1>5. v.copies \in Maps(1 .. m, CopyType) /\ DOMAIN v.copies # {} /\ b.added \in 1 .. Cardinality(Reads) + 1
  BY <1>4, BookFields DEF CopyIds
<1>6. w \in BookRows(m)
  BY <1>3, <1>5, BookIntro
<1>7. w.copies = v.copies
  BY <1>3
<1>8. Edits(b, w, m, kind)
  BY <1>1, <1>6, <1>7 DEF Edits, Keeps, CopyIds
<1>. QED
  BY <1>8 DEF w

\* A copy described, lent, taken back, or taken off its shelf.
LEMMA CopyEdits ==
  ASSUME NEW m \in Nat, NEW b \in BookRows(m), NEW c \in CopyIds(b), NEW kind
  PROVE  /\ Edits(b, RemoveFromShelf(b, c), m, kind)
         /\ \A label \in Labels : Edits(b, EditCopy(b, c, label), m, "patch")
         /\ \A to \in Borrowers : MayLend(b, c) => Edits(b, Lend(b, c, to), m, kind)
         /\ MayReturn(b, c) => Edits(b, ReturnCopy(b, c), m, "return")
<1>. DEFINE x == b.copies[c]
<1>1. x \in CopyType
  BY BookFields
<1>2. /\ x.site \in Sites \cup {NoSite} /\ x.status \in AutoStatus .. ManualStatus
      /\ x.seen \in Seq(Reads \X Nat) /\ x.label \in Labels \cup {NoLabel}
      /\ x.lent \in [to : Borrowers \cup {NoOne}, out : BOOLEAN]
      /\ x = [site |-> x.site, status |-> x.status, seen |-> x.seen,
              label |-> x.label, lent |-> x.lent]
  BY <1>1, CopyFields
<1>. HIDE DEF x
<1>3. Edits(b, RemoveFromShelf(b, c), m, kind)
  <2>. DEFINE y == [x EXCEPT !.site = NoSite]
  <2>1. y = [site |-> NoSite, status |-> x.status, seen |-> x.seen, label |-> x.label, lent |-> x.lent]
    BY <1>2, SMTT(20)
  <2>. HIDE DEF y
  <2>2. y \in CopyType /\ y.status = x.status /\ y.label = x.label /\ y.lent = x.lent
    BY <1>2, <2>1 DEF CopyType
  <2>3. RemoveFromShelf(b, c) = WithCopy(b, c, y)
    BY DEF RemoveFromShelf, x, y
  <2>. QED
    BY <2>2, <2>3, EditsByCopy DEF x
<1>4. ASSUME NEW label \in Labels
      PROVE  Edits(b, EditCopy(b, c, label), m, "patch")
  <2>. DEFINE y == [x EXCEPT !.label = label]
  <2>1. y = [site |-> x.site, status |-> x.status, seen |-> x.seen, label |-> label, lent |-> x.lent]
    BY <1>2, SMTT(20)
  <2>. HIDE DEF y
  <2>2. y \in CopyType /\ y.status = x.status /\ y.lent = x.lent
    BY <1>2, <2>1 DEF CopyType
  <2>3. EditCopy(b, c, label) = WithCopy(b, c, y)
    BY DEF EditCopy, x, y
  <2>. QED
    BY <2>2, <2>3, EditsByCopy DEF x
<1>5. ASSUME NEW to \in Borrowers, MayLend(b, c)
      PROVE  Edits(b, Lend(b, c, to), m, kind)
  <2>. DEFINE l == Lending(to, TRUE)
              y == [x EXCEPT !.lent = l]
  <2>2. l \in [to : Borrowers \cup {NoOne}, out : BOOLEAN]
    BY DEF Lending
  <2>. HIDE DEF l
  <2>1. y = [site |-> x.site, status |-> x.status, seen |-> x.seen, label |-> x.label, lent |-> l]
    BY <1>2
  <2>. HIDE DEF y
  <2>3. y \in CopyType /\ y.status = x.status /\ y.label = x.label
    BY <1>2, <2>1, <2>2 DEF CopyType
  <2>4. Lend(b, c, to) = WithCopy(b, c, y)
    BY DEF Lend, x, y, l
  <2>5. ~x.lent.out
    BY <1>5 DEF MayLend, x
  <2>. QED
    BY <2>3, <2>4, <2>5, EditsByCopy DEF x
<1>6. ASSUME MayReturn(b, c)
      PROVE  Edits(b, ReturnCopy(b, c), m, "return")
  <2>. DEFINE l == [x.lent EXCEPT !.out = FALSE]
              y == [x EXCEPT !.lent = l]
  <2>2. l \in [to : Borrowers \cup {NoOne}, out : BOOLEAN] /\ l.to = x.lent.to
    BY <1>2
  <2>3. ReturnCopy(b, c) = WithCopy(b, c, y)
    BY DEF ReturnCopy, x
  <2>. HIDE DEF l
  <2>1. y = [site |-> x.site, status |-> x.status, seen |-> x.seen, label |-> x.label, lent |-> l]
    BY <1>2
  <2>. HIDE DEF y
  <2>4. y \in CopyType /\ y.status = x.status /\ y.label = x.label /\ y.lent = l
    BY <1>2, <2>1, <2>2 DEF CopyType
  <2>. QED
    BY <2>2, <2>3, <2>4, EditsByCopy DEF x
<1>. QED
  BY <1>3, <1>4, <1>5, <1>6

LEMMA AddCopyFacts ==
  ASSUME NEW m \in Nat, NEW b \in BookRows(m), NEW x \in CopyType
  PROVE  LET w == AddCopy(b, m + 1, x)
         IN  /\ w \in BookRows(m + 1) /\ CopyIds(w) = CopyIds(b) \cup {m + 1}
             /\ w.key = b.key /\ w.added = b.added
             /\ w.copies[m + 1] = x
             /\ \A d \in CopyIds(b) : w.copies[d] = b.copies[d]
<1>. DEFINE w == AddCopy(b, m + 1, x)
            f == Put(b.copies, m + 1, x)
<1>1. /\ b = [key |-> b.key, added |-> b.added, copies |-> b.copies]
      /\ b.key \in Keys /\ b.added \in 1 .. Cardinality(Reads) + 1
      /\ CopyIds(b) \subseteq 1 .. m
  BY BookFields
<1>2. w = [key |-> b.key, added |-> b.added, copies |-> f]
  <2>1. w = [b EXCEPT !.copies = f]
    BY DEF AddCopy
  <2>. HIDE DEF f, w
  <2>. QED
    BY <1>1, <2>1
<1>3. /\ DOMAIN f = CopyIds(b) \cup {m + 1} /\ f[m + 1] = x
      /\ \A d \in CopyIds(b) : d # m + 1 => f[d] = b.copies[d]
  <2>1. /\ DOMAIN f = DOMAIN b.copies \cup {m + 1} /\ f[m + 1] = x
        /\ \A d \in DOMAIN b.copies : d # m + 1 => f[d] = b.copies[d]
    BY DEF Put
  <2>. HIDE DEF f
  <2>. QED
    BY <2>1 DEF CopyIds
<1>4. f \in Maps(1 .. m + 1, CopyType)
  <2>1. b \in BookRows(m + 1) /\ m + 1 \in Nat
    BY RowsGrow
  <2>2. b.copies \in Maps(1 .. m + 1, CopyType)
    BY <2>1, BookFields
  <2>3. m + 1 \in 1 .. m + 1
    OBVIOUS
  <2>. QED
    BY <2>2, <2>3, PutType
<1>. HIDE DEF f
<1>5. w \in BookRows(m + 1)
  <2>1. DOMAIN f # {} /\ m + 1 \in Nat
    BY <1>3
  <2>. HIDE DEF w
  <2>. QED
    BY <1>1, <1>2, <1>4, <2>1, BookIntro
<1>6. w.copies = f /\ w.key = b.key /\ w.added = b.added
  BY <1>2
<1>7. \A d \in CopyIds(b) : d # m + 1
  BY <1>1
<1>. HIDE DEF w
<1>8. CopyIds(w) = DOMAIN f
  BY <1>6 DEF CopyIds
<1>. QED
  BY <1>3, <1>5, <1>6, <1>7, <1>8 DEF w

LEMMA NewBookFacts ==
  ASSUME NEW m \in Nat, NEW key \in Keys, NEW x \in CopyType,
         NEW added \in 1 .. Cardinality(Reads) + 1
  PROVE  LET w == NewBook(key, m + 1, x, added)
         IN  /\ w \in BookRows(m + 1) /\ CopyIds(w) = {m + 1}
             /\ w.key = key /\ w.added = added /\ w.copies[m + 1] = x
<1>. DEFINE f == [c \in {m + 1} |-> x]
            w == NewBook(key, m + 1, x, added)
<1>1. f \in Maps(1 .. m + 1, CopyType) /\ DOMAIN f = {m + 1} /\ f[m + 1] = x /\ m + 1 \in Nat
  BY MapIntro
<1>2. w = [key |-> key, added |-> added, copies |-> f]
  BY DEF NewBook
<1>. HIDE DEF f
<1>3. w \in BookRows(m + 1)
  <2>. HIDE DEF w
  <2>. QED
    BY <1>1, <1>2, BookIntro
<1>4. w.key = key /\ w.added = added /\ w.copies = f
  BY <1>2
<1>. HIDE DEF w
<1>5. CopyIds(w) = {m + 1}
  BY <1>1, <1>4 DEF CopyIds
<1>. QED
  BY <1>1, <1>3, <1>4, <1>5 DEF w

-----------------------------------------------------------------------------
(* What a claim means for the library *)

\* A claim of a read, and the place the read is of.
LEMMA ClaimFacts ==
  ASSUME NEW r \in Reads
  PROVE  /\ Spines(r) = 1 .. Len(Claims[r]) /\ Len(Claims[r]) \in Nat
         /\ SiteOf[r] \in Sites
         /\ \A s \in Spines(r) : /\ s \in Nat /\ s # None
                                 /\ Claims[r][s].key \in Keys \cup {NoKey}
                                 /\ Claims[r][s].tier \in Tiers
<1>1. Claims[r] \in Seq([key : Keys \cup {NoKey}, tier : Tiers])
  BY ClaimsAreTyped
<1>2. DOMAIN Claims[r] = 1 .. Len(Claims[r]) /\ Len(Claims[r]) \in Nat
      /\ \A s \in 1 .. Len(Claims[r]) : Claims[r][s] \in [key : Keys \cup {NoKey}, tier : Tiers]
  BY <1>1, LenProperties, ElementOfSeq
<1>3. SiteOf[r] \in Sites
  BY SitesAreTyped
<1>. QED
  BY <1>2, <1>3 DEF Spines, None

\* Of the claims that name one book, one is the best: the least spine of the
\* highest rank that any of them has.
LEMMA PrimaryFacts ==
  ASSUME NEW r \in Reads, NEW key, Group(r, key) # {}
  PROVE  Primary(r, key) \in Group(r, key)
<1>. DEFINE G == Group(r, key)
            rank(s) == Rank(Claims[r][s].tier)
            Of(n) == {s \in G : rank(s) = n}
            Best(s) == \A t \in G \ {s} : rank(s) > rank(t) \/ (rank(s) = rank(t) /\ s < t)
<1>1. G \subseteq Nat /\ \A s \in G : rank(s) \in 1 .. 3
  BY ClaimFacts DEF Group, Rank, Tiers
<1>2. PICK n \in 1 .. 3 : Of(n) # {} /\ \A s \in G : rank(s) <= n
  <2>. HIDE DEF G, rank
  <2>1. CASE Of(3) # {}
    BY <1>1, <2>1
  <2>2. CASE Of(3) = {} /\ Of(2) # {}
    BY <1>1, <2>2
  <2>3. CASE Of(3) = {} /\ Of(2) = {}
    <3>1. PICK s \in G : TRUE
      BY DEF G
    <3>2. \A t \in G : rank(t) = 1
      BY <1>1, <2>3
    <3>. QED
      BY <3>1, <3>2
  <2>. QED
    BY <2>1, <2>2, <2>3
<1>. DEFINE s == Min(Of(n))
<1>3. s \in Of(n) /\ \A t \in Of(n) : s <= t
  <2>1. Of(n) \in SUBSET Nat
    BY <1>1
  <2>. HIDE DEF Of
  <2>. QED
    BY <1>2, <2>1, MinOf
<1>. HIDE DEF s
<1>4. Best(s)
  <2>1. ASSUME NEW t \in G \ {s}
        PROVE  rank(s) > rank(t) \/ (rank(s) = rank(t) /\ s < t)
    <3>1. rank(s) = n /\ rank(t) <= n /\ rank(t) \in 1 .. 3 /\ s \in Nat /\ t \in Nat /\ s # t
      BY <1>1, <1>2, <1>3
    <3>2. rank(t) = n => s <= t
      BY <1>3
    <3>. HIDE DEF rank
    <3>. QED
      BY <3>1, <3>2
  <2>. QED
    BY <2>1
<1>5. s \in G
  BY <1>3
<1>6. \E u \in G : Best(u)
  BY <1>4, <1>5
<1>. QED
  BY <1>6 DEF Primary

\* The primaries of a read: one claim for each book it names.
LEMMA PrimariesFacts ==
  ASSUME NEW r \in Reads
  PROVE  /\ Primaries[r] \in Seq(Spines(r))
         /\ DOMAIN Primaries[r] = 1 .. Len(Primaries[r]) /\ Len(Primaries[r]) \in Nat
         /\ \A i \in DOMAIN Primaries[r] :
               /\ Primaries[r][i] \in Spines(r)
               /\ Claims[r][Primaries[r][i]].key \in Keys
         /\ \A i, j \in DOMAIN Primaries[r] :
               i # j => Claims[r][Primaries[r][i]].key # Claims[r][Primaries[r][j]].key
<1>. DEFINE S == Spines(r)
            F == FirstOfKey(r)
            all == [s \in S |-> s]
            first == Kept(all, F)
            key(s) == Claims[r][s].key
            p == [i \in DOMAIN first |-> Primary(r, key(first[i]))]
<1>1. /\ S = 1 .. Len(Claims[r]) /\ Len(Claims[r]) \in Nat
      /\ \A s \in S : key(s) \in Keys \cup {NoKey}
  BY ClaimFacts
<1>2. all \in Seq(S) /\ DOMAIN all = S /\ \A s \in S : all[s] = s
  BY <1>1, IsASeq
<1>3. /\ first \in Seq(S)
      /\ \E k \in [DOMAIN first -> DOMAIN all] :
            /\ \A n \in DOMAIN first : first[n] = all[k[n]] /\ all[k[n]] \in F
            /\ \A n, m \in DOMAIN first : n # m => k[n] # k[m]
  <2>1. all \in Seq(S)
    BY <1>2
  <2>. HIDE DEF all, S, F
  <2>2. /\ Kept(all, F) \in Seq(S)
        /\ \E k \in [DOMAIN Kept(all, F) -> DOMAIN all] :
              /\ \A n \in DOMAIN Kept(all, F) : Kept(all, F)[n] = all[k[n]] /\ all[k[n]] \in F
              /\ \A n, m \in DOMAIN Kept(all, F) : n # m => k[n] # k[m]
              /\ \A i \in DOMAIN all : all[i] \in F => \E n \in DOMAIN Kept(all, F) : k[n] = i
    <3>1. Kept(all, F) \in Seq(S) /\ \E k : Picks(k, Kept(all, F), all, F)
      BY <2>1, KeptFacts
    <3>2. PICK k : Picks(k, Kept(all, F), all, F)
      BY <3>1
    <3>. QED
      BY <3>1, <3>2 DEF Picks
  <2>. QED
    BY <2>2
<1>4. /\ \A n \in DOMAIN first : first[n] \in S /\ first[n] \in F
      /\ \A n, m \in DOMAIN first : n # m => first[n] # first[m]
  <2>. HIDE DEF all, S, F, first
  <2>. QED
    BY <1>2, <1>3
<1>5. DOMAIN first = 1 .. Len(first) /\ Len(first) \in Nat
  <2>. HIDE DEF first
  <2>. QED
    BY <1>3, LenProperties
<1>6. Primaries[r] = p
  BY Zenon DEF Primaries
<1>. HIDE DEF first
<1>7. ASSUME NEW i \in DOMAIN first
      PROVE  /\ p[i] \in S /\ key(p[i]) = key(first[i]) /\ key(first[i]) \in Keys
             /\ first[i] = Min(Group(r, key(first[i])))
  <2>1. first[i] \in S /\ first[i] \in F
    BY <1>4
  <2>2. key(first[i]) # NoKey /\ first[i] = Min(Group(r, key(first[i])))
    BY <2>1 DEF FirstOfKey
  <2>3. first[i] \in Group(r, key(first[i]))
    BY <2>1 DEF Group
  <2>4. p[i] \in Group(r, key(first[i]))
    BY <2>3, PrimaryFacts
  <2>. QED
    BY <1>1, <2>1, <2>2, <2>4, Zenon DEF Group
<1>8. ASSUME NEW i \in DOMAIN first, NEW j \in DOMAIN first, i # j
      PROVE  key(p[i]) # key(p[j])
  <2>1. key(p[i]) = key(first[i]) /\ key(p[j]) = key(first[j])
    BY <1>7
  <2>2. first[i] = Min(Group(r, key(first[i]))) /\ first[j] = Min(Group(r, key(first[j])))
    BY <1>7
  <2>3. first[i] # first[j]
    BY <1>4, <1>8
  <2>. HIDE DEF key, p
  <2>. QED
    BY <2>1, <2>2, <2>3
<1>9. DOMAIN p = 1 .. Len(first)
  BY <1>5
<1>10. p \in Seq(S)
  <2>1. \A i \in 1 .. Len(first) : Primary(r, key(first[i])) \in S
    BY <1>5, <1>7
  <2>2. [i \in 1 .. Len(first) |-> Primary(r, key(first[i]))] \in Seq(S)
    <3>. HIDE DEF key, S
    <3>. QED
      BY <1>5, <2>1, IsASeq
  <2>. QED
    BY <1>5, <2>2
<1>11. /\ \A i \in DOMAIN p : p[i] \in S /\ key(p[i]) \in Keys
       /\ \A i, j \in DOMAIN p : i # j => key(p[i]) # key(p[j])
  BY <1>7, <1>8
<1>. HIDE DEF p
<1>12. DOMAIN p = 1 .. Len(p) /\ Len(p) \in Nat
  BY <1>10, LenProperties
<1>. QED
  BY <1>6, <1>10, <1>11, <1>12

\* The sightings of a claim: which copies here it vouches for.
LEMMA SightedFacts ==
  ASSUME NEW r, NEW spine, NEW L
  PROVE  /\ \A bc \in SightedHere(r, spine, L) :
               /\ bc = <<bc[1], bc[2]>>
               /\ bc[1] \in DOMAIN L /\ bc[2] \in CopyIds(L[bc[1]])
               /\ L[bc[1]].copies[bc[2]].site = SiteOf[r]
               /\ Contains(L[bc[1]].copies[bc[2]].seen, <<r, spine>>)
         /\ \A b \in DOMAIN L : \A c \in CopyIds(L[b]) :
               /\ L[b].copies[c].site = SiteOf[r]
               /\ Contains(L[b].copies[c].seen, <<r, spine>>)
               => <<b, c>> \in SightedHere(r, spine, L)
<1>1. ASSUME NEW bc \in SightedHere(r, spine, L)
      PROVE  /\ bc = <<bc[1], bc[2]>>
             /\ bc[1] \in DOMAIN L /\ bc[2] \in CopyIds(L[bc[1]])
             /\ L[bc[1]].copies[bc[2]].site = SiteOf[r]
             /\ Contains(L[bc[1]].copies[bc[2]].seen, <<r, spine>>)
  <2>1. /\ L[bc[1]].copies[bc[2]].site = SiteOf[r]
        /\ Contains(L[bc[1]].copies[bc[2]].seen, <<r, spine>>)
        /\ bc \in UNION {{b} \X CopyIds(L[b]) : b \in DOMAIN L}
    BY DEF SightedHere
  <2>2. PICK b \in DOMAIN L : bc \in {b} \X CopyIds(L[b])
    BY <2>1
  <2>. QED
    BY <2>1, <2>2
<1>2. ASSUME NEW b \in DOMAIN L, NEW c \in CopyIds(L[b]),
             L[b].copies[c].site = SiteOf[r], Contains(L[b].copies[c].seen, <<r, spine>>)
      PROVE  <<b, c>> \in SightedHere(r, spine, L)
  <2>1. <<b, c>> \in {b} \X CopyIds(L[b])
    OBVIOUS
  <2>2. <<b, c>> \in UNION {{d} \X CopyIds(L[d]) : d \in DOMAIN L}
    BY <2>1
  <2>. QED
    BY <1>2, <2>2 DEF SightedHere
<1>. QED
  BY <1>1, <1>2

\* The greatest of some numbers below a bound.
LEMMA MaxOf ==
  ASSUME NEW m \in Nat, NEW S \in SUBSET (1 .. m), S # {}
  PROVE  \E x \in S : \A y \in S : y <= x
<1>. DEFINE T == {n \in Nat : m - n \in S}
            t == Min(T)
<1>1. T # {}
  <2>1. PICK x \in S : TRUE
    OBVIOUS
  <2>2. x \in 1 .. m
    BY <2>1
  <2>3. m - x \in Nat /\ m - (m - x) = x
    BY <2>2
  <2>4. m - x \in T
    BY <2>1, <2>3
  <2>. QED
    BY <2>4
<1>2. t \in T /\ \A n \in T : t <= n
  <2>1. T \in SUBSET Nat
    OBVIOUS
  <2>. HIDE DEF T
  <2>. QED
    BY <1>1, <2>1, MinOf
<1>3. m - t \in S /\ t \in Nat
  BY <1>2
<1>. HIDE DEF t
<1>4. ASSUME NEW y \in S
      PROVE  y <= m - t
  <2>1. y \in 1 .. m
    OBVIOUS
  <2>2. m - y \in Nat /\ m - (m - y) = y
    BY <2>1
  <2>3. m - y \in T
    BY <2>2
  <2>4. t <= m - y
    BY <1>2, <2>3
  <2>. QED
    BY <1>3, <2>1, <2>4
<1>. QED
  BY <1>3, <1>4

LEMMA LastListedFacts ==
  ASSUME NEW m \in Nat, NEW P, P # {},
         \A p \in P : p = <<p[1], p[2]>> /\ p[1] \in 1 .. m /\ p[2] \in 1 .. m
  PROVE  LastListed(P) \in P
<1>. DEFINE S == {p[1] : p \in P}
            T(x) == {p[2] : p \in {q \in P : q[1] = x}}
<1>1. PICK x \in S : \A y \in S : y <= x
  <2>1. S \in SUBSET (1 .. m) /\ S # {}
    OBVIOUS
  <2>. HIDE DEF S
  <2>. QED
    BY <2>1, MaxOf
<1>2. PICK y \in T(x) : \A z \in T(x) : z <= y
  <2>1. T(x) \in SUBSET (1 .. m) /\ T(x) # {}
    OBVIOUS
  <2>. HIDE DEF T
  <2>. QED
    BY <2>1, MaxOf
<1>3. PICK p \in P : p[1] = x /\ p[2] = y
  BY <1>2
<1>4. \A q \in P : p[1] > q[1] \/ (p[1] = q[1] /\ p[2] >= q[2])
  <2>1. ASSUME NEW q \in P
        PROVE  p[1] > q[1] \/ (p[1] = q[1] /\ p[2] >= q[2])
    <3>1. q[1] <= x /\ q[1] \in 1 .. m /\ x \in 1 .. m /\ q[2] \in 1 .. m /\ y \in 1 .. m
      BY <1>1, <1>3
    <3>2. q[1] = x => q[2] <= y
      BY <1>2
    <3>. QED
      BY <1>3, <3>1, <3>2
  <2>. QED
    BY <2>1
<1>. QED
  BY <1>3, <1>4 DEF LastListed

\* The book a key names, when one does.
LEMMA NamedFacts ==
  ASSUME NEW m \in Nat, NEW L \in Libraries(m), NEW key
  PROVE  /\ BookNamed(key, L) # None <=> BooksNamed(key, L) # {}
         /\ BookNamed(key, L) # None =>
               BookNamed(key, L) \in DOMAIN L /\ L[BookNamed(key, L)].key = key
<1>1. \A b \in BooksNamed(key, L) : b \in DOMAIN L /\ L[b].key = key /\ b # None
  BY LibraryFields DEF BooksNamed
<1>2. CASE BooksNamed(key, L) = {}
  BY <1>2 DEF BookNamed
<1>3. CASE BooksNamed(key, L) # {}
  <2>1. BookNamed(key, L) \in BooksNamed(key, L)
    BY <1>3 DEF BookNamed
  <2>. QED
    BY <1>1, <1>3, <2>1
<1>. QED
  BY <1>2, <1>3

LEMMA ResolvedFacts ==
  ASSUME NEW m \in Nat, NEW b \in BookRows(m), NEW given
  PROVE  /\ ResolveCopy(b, given) \in CopyIds(b) \cup {None}
         /\ ResolveCopy(b, given) \in 0 .. m
<1>1. CopyIds(b) \subseteq 1 .. m /\ CopyIds(b) # {}
  BY BookFields
<1>2. Min(CopyIds(b)) \in CopyIds(b)
  <2>1. CopyIds(b) \in SUBSET Nat
    BY <1>1
  <2>. QED
    BY <1>1, <2>1, MinOf
<1>3. ResolveCopy(b, given) \in CopyIds(b) \cup {None}
  BY <1>2 DEF ResolveCopy
<1>. QED
  BY <1>1, <1>3 DEF None

LEMMA CopyAtFacts ==
  ASSUME NEW m \in Nat, NEW b \in BookRows(m), NEW site, CopiesAt(b, site) # {}
  PROVE  /\ Min(CopiesAt(b, site)) \in CopiesAt(b, site)
         /\ Min(CopiesAt(b, site)) \in CopyIds(b)
         /\ b.copies[Min(CopiesAt(b, site))].site = site
<1>1. CopyIds(b) \subseteq 1 .. m
  BY BookFields
<1>2. CopiesAt(b, site) \in SUBSET Nat
  BY <1>1 DEF CopiesAt
<1>3. Min(CopiesAt(b, site)) \in CopiesAt(b, site)
  BY <1>2, MinOf
<1>. QED
  BY <1>3 DEF CopiesAt

\* What an outcome says of the library it was made from.
StandsHere(o, r, L) ==
    /\ o.reason = "same_location"
    /\ o.book \in DOMAIN L /\ o.copy \in CopyIds(L[o.book])
    /\ L[o.book].copies[o.copy].site = SiteOf[r]
    /\ o.key = L[o.book].key

Names(o, r, spine, L) ==
    /\ o.key = Claims[r][spine].key
    /\ o.book = BookNamed(o.key, L) /\ o.book \in DOMAIN L /\ L[o.book].key = o.key

Unnamed(o, r, spine, L) ==
    /\ o.key = Claims[r][spine].key
    /\ o.book = None /\ BookNamed(o.key, L) = None

Unseen(r, spine, L) ==
    LET b == BookNamed(Claims[r][spine].key, L)
    IN  SightedHere(r, spine, L) = {} /\ (b = None \/ CopiesAt(L[b], SiteOf[r]) = {})

OutcomeKinds == {"unchanged", "rejected", "added", "corrected", "needs_decision"}

Classified(o, r, spine, L, D) ==
    /\ o.spine = spine /\ o.kind \in OutcomeKinds
    /\ o.kind = "unchanged" => StandsHere(o, r, L)
    /\ o.kind # "unchanged" => Unseen(r, spine, L)
    /\ o.kind = "rejected" => /\ Suppresses(D[Claims[r][spine].key])
                              /\ o.key = Claims[r][spine].key
                              /\ o.reason = D[o.key].kind
    /\ o.kind \in {"added", "corrected", "needs_decision"} =>
          ~Suppresses(D[Claims[r][spine].key])
    /\ o.kind = "added" => o.reason = "manual_add" /\ Unnamed(o, r, spine, L)
    /\ o.kind = "corrected" =>
          /\ Names(o, r, spine, L)
          /\ \/ /\ o.reason = "relinked_by_decision" /\ D[o.key].kind = "already_listed"
                /\ o.copy \in CopyIds(L[o.book])
             \/ o.reason = "new_copy_by_decision" /\ D[o.key].kind = "another_copy"
    /\ o.kind = "needs_decision" =>
          \/ o.reason = "new_book_unconfirmed" /\ Unnamed(o, r, spine, L)
          \/ /\ o.reason = "ambiguous_location" /\ Names(o, r, spine, L)
             /\ D[o.key].kind \notin {"another_copy", "rejected", "wrong_book"}

LEMMA ByKeyFacts ==
  ASSUME NEW m \in Nat, NEW L \in Libraries(m), NEW D, NEW r \in Reads, NEW spine,
         SightedHere(r, spine, L) = {}
  PROVE  Classified(ClassifyByKey(r, spine, L, D), r, spine, L, D)
<1>. DEFINE key == Claims[r][spine].key
            b == BookNamed(key, L)
            here == IF b = None THEN {} ELSE CopiesAt(L[b], SiteOf[r])
            d == D[key]
            o == ClassifyByKey(r, spine, L, D)
<1>1. b # None => b \in DOMAIN L /\ L[b].key = key /\ L[b] \in BookRows(m)
  BY NamedFacts, LibraryFields
<1>2. CASE here # {}
  <2>1. o = Outcome("unchanged", "same_location", spine, key, b, Min(here))
    BY <1>2 DEF ClassifyByKey
  <2>2. b # None /\ here = CopiesAt(L[b], SiteOf[r])
    BY <1>2
  <2>3. Min(here) \in CopyIds(L[b]) /\ L[b].copies[Min(here)].site = SiteOf[r]
    BY <1>1, <1>2, <2>2, CopyAtFacts
  <2>. HIDE DEF b, here, o
  <2>4. /\ o.kind = "unchanged" /\ o.reason = "same_location" /\ o.spine = spine
        /\ o.key = key /\ o.book = b /\ o.copy = Min(here)
    BY <2>1 DEF Outcome
  <2>. QED
    BY <1>1, <2>2, <2>3, <2>4 DEF Classified, StandsHere, OutcomeKinds, o
<1>3. CASE here = {}
  <2>1. Unseen(r, spine, L)
    BY <1>3 DEF Unseen
  <2>2. CASE Suppresses(d)
    <3>1. o = Outcome("rejected", d.kind, spine, key, None, None)
      BY <1>3, <2>2 DEF ClassifyByKey
    <3>. HIDE DEF o
    <3>2. o.kind = "rejected" /\ o.reason = d.kind /\ o.spine = spine /\ o.key = key
      BY <3>1 DEF Outcome
    <3>. QED
      BY <2>1, <2>2, <3>2 DEF Classified, OutcomeKinds, o
  <2>3. CASE ~Suppresses(d) /\ b = None
    <3>1. \/ o = Outcome("added", "manual_add", spine, key, None, None)
          \/ o = Outcome("needs_decision", "new_book_unconfirmed", spine, key, None, None)
      BY <1>3, <2>3 DEF ClassifyByKey
    <3>. HIDE DEF o
    <3>2. /\ \/ o.kind = "added" /\ o.reason = "manual_add"
             \/ o.kind = "needs_decision" /\ o.reason = "new_book_unconfirmed"
          /\ o.spine = spine /\ o.key = key /\ o.book = None
      BY <3>1 DEF Outcome
    <3>. QED
      BY <2>1, <2>3, <3>2 DEF Classified, OutcomeKinds, Unnamed, o
  <2>4. CASE ~Suppresses(d) /\ b # None
    <3>. DEFINE copyId == ResolveCopy(L[b], d.copy)
    <3>1. o = ClassifyElsewhere(spine, key, b, L, d)
      BY <1>3, <2>4 DEF ClassifyByKey
    <3>2. copyId \in CopyIds(L[b]) \cup {None}
      BY <1>1, <2>4, ResolvedFacts
    <3>3. \/ /\ d.kind = "already_listed" /\ copyId # None
             /\ o = Outcome("corrected", "relinked_by_decision", spine, key, b, copyId)
          \/ /\ d.kind = "another_copy"
             /\ o = Outcome("corrected", "new_copy_by_decision", spine, key, b, None)
          \/ /\ d.kind # "another_copy"
             /\ o = Outcome("needs_decision", "ambiguous_location", spine, key, b, None)
      BY <3>1 DEF ClassifyElsewhere
    <3>. HIDE DEF o, copyId
    <3>4. /\ \/ /\ o.kind = "corrected" /\ o.reason = "relinked_by_decision"
                /\ d.kind = "already_listed" /\ o.copy \in CopyIds(L[b])
             \/ /\ o.kind = "corrected" /\ o.reason = "new_copy_by_decision"
                /\ d.kind = "another_copy"
             \/ /\ o.kind = "needs_decision" /\ o.reason = "ambiguous_location"
                /\ d.kind # "another_copy"
          /\ o.spine = spine /\ o.key = key /\ o.book = b
      BY <3>2, <3>3 DEF Outcome
    <3>5. Names(o, r, spine, L)
      BY <1>1, <2>4, <3>4 DEF Names
    <3>6. d.kind \notin {"rejected", "wrong_book"}
      BY <2>4 DEF Suppresses
    <3>. QED
      BY <2>1, <2>4, <3>4, <3>5, <3>6 DEF Classified, OutcomeKinds, o
  <2>. QED
    BY <2>2, <2>3, <2>4
<1>. QED
  BY <1>2, <1>3

\* Every rule of the classification, by what it says.
LEMMA ClassifyFacts ==
  ASSUME NEW m \in Nat, NEW L \in Libraries(m), NEW D, NEW r \in Reads, NEW spine
  PROVE  Classified(Classify(r, spine, L, D), r, spine, L, D)
<1>. DEFINE P == SightedHere(r, spine, L)
            last == LastListed(P)
            o == Classify(r, spine, L, D)
<1>1. CASE P = {}
  <2>1. o = ClassifyByKey(r, spine, L, D)
    BY <1>1 DEF Classify
  <2>. QED
    BY <1>1, <2>1, ByKeyFacts
<1>2. CASE P # {}
  <2>1. /\ o = Outcome("unchanged", "same_location", spine, L[last[1]].key, last[1], last[2])
    BY <1>2 DEF Classify
  <2>2. \A p \in P : /\ p = <<p[1], p[2]>> /\ p[1] \in 1 .. m /\ p[2] \in 1 .. m
                     /\ p[1] \in DOMAIN L /\ p[2] \in CopyIds(L[p[1]])
                     /\ L[p[1]].copies[p[2]].site = SiteOf[r]
    <3>1. ASSUME NEW p \in P
          PROVE  /\ p = <<p[1], p[2]>> /\ p[1] \in 1 .. m /\ p[2] \in 1 .. m
                 /\ p[1] \in DOMAIN L /\ p[2] \in CopyIds(L[p[1]])
                 /\ L[p[1]].copies[p[2]].site = SiteOf[r]
      <4>0. \A bc \in SightedHere(r, spine, L) :
               /\ bc = <<bc[1], bc[2]>>
               /\ bc[1] \in DOMAIN L /\ bc[2] \in CopyIds(L[bc[1]])
               /\ L[bc[1]].copies[bc[2]].site = SiteOf[r]
               /\ Contains(L[bc[1]].copies[bc[2]].seen, <<r, spine>>)
        BY SightedFacts
      <4>1. /\ p = <<p[1], p[2]>> /\ p[1] \in DOMAIN L /\ p[2] \in CopyIds(L[p[1]])
            /\ L[p[1]].copies[p[2]].site = SiteOf[r]
        BY <4>0, Zenon
      <4>2. p[1] \in 1 .. m /\ L[p[1]] \in BookRows(m)
        BY <4>1, LibraryFields
      <4>3. p[2] \in 1 .. m
        BY <4>1, <4>2, BookFields
      <4>. QED
        BY <4>1, <4>2, <4>3
    <3>. QED
      BY <3>1
  <2>3. last \in P
    <3>. HIDE DEF P
    <3>. QED
      BY <1>2, <2>2, LastListedFacts
  <2>. HIDE DEF P, last, o
  <2>4. /\ last[1] \in DOMAIN L /\ last[2] \in CopyIds(L[last[1]])
        /\ L[last[1]].copies[last[2]].site = SiteOf[r]
    BY <2>2, <2>3
  <2>5. /\ o.kind = "unchanged" /\ o.reason = "same_location" /\ o.spine = spine
        /\ o.key = L[last[1]].key /\ o.book = last[1] /\ o.copy = last[2]
    BY <2>1 DEF Outcome
  <2>. QED
    BY <2>4, <2>5 DEF Classified, StandsHere, OutcomeKinds, o
<1>. QED
  BY <1>1, <1>2

\* The diff of a read: one outcome for each of its primaries.
LEMMA DiffFacts ==
  ASSUME NEW m \in Nat, NEW L \in Libraries(m), NEW D, NEW r \in Reads
  PROVE  LET diff == Diff(r, L, D)
         IN  /\ diff \in Seq(ToSet(diff)) /\ ToSet(diff) = {diff[i] : i \in DOMAIN diff}
             /\ \A i \in DOMAIN diff :
                   /\ Classified(diff[i], r, diff[i].spine, L, D)
                   /\ diff[i].spine \in Spines(r) /\ diff[i].spine \in Nat /\ diff[i].spine # None
                   /\ Claims[r][diff[i].spine].key \in Keys
             /\ \A i, j \in DOMAIN diff : i # j =>
                   /\ Claims[r][diff[i].spine].key # Claims[r][diff[j].spine].key
                   /\ diff[i].spine # diff[j].spine
<1>. DEFINE diff == Diff(r, L, D)
            P == Primaries[r]
<1>1. /\ DOMAIN P = 1 .. Len(P) /\ Len(P) \in Nat
      /\ \A i \in DOMAIN P : P[i] \in Spines(r) /\ Claims[r][P[i]].key \in Keys
      /\ \A i, j \in DOMAIN P : i # j => Claims[r][P[i]].key # Claims[r][P[j]].key
  BY PrimariesFacts
<1>2. DOMAIN diff = DOMAIN P /\ \A i \in DOMAIN P : diff[i] = Classify(r, P[i], L, D)
  BY DEF Diff
<1>3. diff = [i \in 1 .. Len(P) |-> diff[i]]
  BY <1>1, <1>2 DEF Diff
<1>. HIDE DEF P, diff
<1>4. \A i \in DOMAIN P : Classified(diff[i], r, P[i], L, D) /\ diff[i].spine = P[i]
  <2>1. ASSUME NEW i \in DOMAIN P
        PROVE  Classified(diff[i], r, P[i], L, D)
    BY <1>2, ClassifyFacts
  <2>2. \A i \in DOMAIN P : Classified(diff[i], r, P[i], L, D) => diff[i].spine = P[i]
    BY DEF Classified
  <2>. QED
    BY <2>1, <2>2
<1>5. \A s \in Spines(r) : s \in Nat /\ s # None
  BY ClaimFacts
<1>6. diff \in Seq({diff[i] : i \in DOMAIN diff})
  <2>. DEFINE S == {diff[i] : i \in DOMAIN diff}
  <2>1. \A i \in 1 .. Len(P) : diff[i] \in S
    BY <1>1, <1>2
  <2>. HIDE DEF S
  <2>2. [i \in 1 .. Len(P) |-> diff[i]] \in Seq(S)
    BY <1>1, <2>1, IsASeq
  <2>. QED
    BY <1>3, <2>2 DEF S
<1>7. ToSet(diff) = {diff[i] : i \in DOMAIN diff}
  BY DEF ToSet
<1>8. \A i, j \in DOMAIN P : i # j => P[i] # P[j]
  BY <1>1
<1>9. /\ \A i \in DOMAIN diff :
            /\ Classified(diff[i], r, diff[i].spine, L, D)
            /\ diff[i].spine \in Spines(r) /\ diff[i].spine \in Nat /\ diff[i].spine # None
            /\ Claims[r][diff[i].spine].key \in Keys
      /\ \A i, j \in DOMAIN diff : i # j =>
            /\ Claims[r][diff[i].spine].key # Claims[r][diff[j].spine].key
            /\ diff[i].spine # diff[j].spine
  BY <1>1, <1>2, <1>4, <1>5, <1>8
<1>10. diff \in Seq(ToSet(diff))
  BY <1>6, <1>7
<1>. QED
  BY <1>7, <1>9, <1>10 DEF diff

-----------------------------------------------------------------------------
(* The store calls an applied read makes *)

SaveCalls(m)     == [op : {"save"}, book : 1 .. m, aggregate : BookRows(m)]
SaveNewCalls     == [op : {"save_new"}, key : Keys, copy : CopyType,
                     added : 1 .. Cardinality(Reads) + 1]
SaveCopyCalls(m) == [op : {"save_copy"}, book : 1 .. m, aggregate : BookRows(m), copy : CopyType]
DeleteCalls(m)   == [op : {"delete"}, book : 1 .. m, orElse : {"stop", "continue"}]
DecideCalls(m)   == [op : {"decide"}, site : Sites, key : Keys, decision : Decisions(m)]
AskCalls         == [op : {"ask"}, site : Sites, key : Keys, read : Reads]
CloseCalls       == [op : {"close"}, site : Sites, key : Keys]
StoreCalls(m) == SaveCalls(m) \cup SaveNewCalls \cup SaveCopyCalls(m) \cup DeleteCalls(m)
                   \cup DecideCalls(m) \cup AskCalls \cup CloseCalls

Ops == {"save", "save_new", "save_copy", "delete", "decide", "ask", "close"}

\* What a store call carries.
LEMMA CallFields ==
  ASSUME NEW m \in Nat, NEW w \in StoreCalls(m)
  PROVE  /\ w.op \in Ops
         /\ w.op = "save" => w.book \in 1 .. m /\ w.aggregate \in BookRows(m)
         /\ w.op = "save_new" => /\ w.key \in Keys /\ w.copy \in CopyType
                                 /\ w.added \in 1 .. Cardinality(Reads) + 1
         /\ w.op = "save_copy" => /\ w.book \in 1 .. m /\ w.aggregate \in BookRows(m)
                                  /\ w.copy \in CopyType
         /\ w.op = "delete" => w.book \in 1 .. m
         /\ w.op = "decide" => w.site \in Sites /\ w.key \in Keys /\ w.decision \in Decisions(m)
         /\ w.op = "ask" => w.site \in Sites /\ w.key \in Keys /\ w.read \in Reads
         /\ w.op = "close" => w.site \in Sites /\ w.key \in Keys
BY DEF StoreCalls, SaveCalls, SaveNewCalls, SaveCopyCalls, DeleteCalls, DecideCalls, AskCalls,
       CloseCalls, Ops

\* The store calls there are.
LEMMA CallIntro ==
  ASSUME NEW m \in Nat
  PROVE  /\ \A b \in 1 .. m, a \in BookRows(m) :
               Save(b, a) \in StoreCalls(m) /\ Save(b, a).op = "save"
         /\ \A k \in Keys, x \in CopyType, n \in 1 .. Cardinality(Reads) + 1 :
               SaveNew(k, x, n) \in StoreCalls(m) /\ SaveNew(k, x, n).op = "save_new"
         /\ \A b \in 1 .. m, a \in BookRows(m), x \in CopyType :
               SaveCopy(b, a, x) \in StoreCalls(m) /\ SaveCopy(b, a, x).op = "save_copy"
         /\ \A b \in 1 .. m, e \in {"stop", "continue"} :
               DeleteBook(b, e) \in StoreCalls(m) /\ DeleteBook(b, e).op = "delete"
         /\ \A s \in Sites, k \in Keys, d \in Decisions(m) :
               Decide(s, k, d) \in StoreCalls(m) /\ Decide(s, k, d).op = "decide"
         /\ \A s \in Sites, k \in Keys, r \in Reads :
               Ask(s, k, r) \in StoreCalls(m) /\ Ask(s, k, r).op = "ask"
         /\ \A s \in Sites, k \in Keys :
               CloseQuestion(s, k) \in StoreCalls(m) /\ CloseQuestion(s, k).op = "close"
<1>1. \A b \in 1 .. m, a \in BookRows(m) :
         Save(b, a) \in StoreCalls(m) /\ Save(b, a).op = "save"
  BY DEF StoreCalls, SaveCalls, Save
<1>2. \A k \in Keys, x \in CopyType, n \in 1 .. Cardinality(Reads) + 1 :
         SaveNew(k, x, n) \in StoreCalls(m) /\ SaveNew(k, x, n).op = "save_new"
  BY DEF StoreCalls, SaveNewCalls, SaveNew
<1>3. \A b \in 1 .. m, a \in BookRows(m), x \in CopyType :
         SaveCopy(b, a, x) \in StoreCalls(m) /\ SaveCopy(b, a, x).op = "save_copy"
  BY DEF StoreCalls, SaveCopyCalls, SaveCopy
<1>4. \A b \in 1 .. m, e \in {"stop", "continue"} :
         DeleteBook(b, e) \in StoreCalls(m) /\ DeleteBook(b, e).op = "delete"
  BY DEF StoreCalls, DeleteCalls, DeleteBook
<1>5. \A s \in Sites, k \in Keys, d \in Decisions(m) :
         Decide(s, k, d) \in StoreCalls(m) /\ Decide(s, k, d).op = "decide"
  BY DEF StoreCalls, DecideCalls, Decide
<1>6. \A s \in Sites, k \in Keys, r \in Reads :
         Ask(s, k, r) \in StoreCalls(m) /\ Ask(s, k, r).op = "ask"
  BY DEF StoreCalls, AskCalls, Ask
<1>7. \A s \in Sites, k \in Keys :
         CloseQuestion(s, k) \in StoreCalls(m) /\ CloseQuestion(s, k).op = "close"
  BY DEF StoreCalls, CloseCalls, CloseQuestion
<1>. QED
  BY <1>1, <1>2, <1>3, <1>4, <1>5, <1>6, <1>7

\* A call is marked with the part of the plan it stands in, in their order, and
\* with the outcome it carries out.
Parts == 1 .. 7
Marks == Parts \X Nat
Precedes(x, y) == x[1] < y[1] \/ (x[1] = y[1] /\ x[2] # y[2])

AnswerSave(w, r, o, answer, L) ==
    LET given == ResolveCopy(L[o.book], answer.copy)
    IN  \/ /\ answer.kind = "confirm"
           /\ w = SaveNew(answer.key, Evidence(r, o.spine, Approved), r)
        \/ /\ answer.kind = "already_listed"
           /\ w = Save(o.book, RelinkCopy(L[o.book], given, SiteOf[r], <<r, o.spine>>))
        \/ /\ answer.kind = "another_copy"
           /\ w = SaveCopy(o.book, L[o.book], Evidence(r, o.spine, ManualStatus))

AnswerDecision(w, r, o, answer, L) ==
    LET given == ResolveCopy(L[o.book], answer.copy)
    IN  \/ answer.kind = "reject" /\ w = Decide(SiteOf[r], o.key, Decision("rejected", None))
        \/ /\ answer.kind = "already_listed"
           /\ w = Decide(SiteOf[r], o.key, Decision("already_listed", given))
        \/ /\ answer.kind = "another_copy"
           /\ w = Decide(SiteOf[r], o.key, Decision("another_copy", None))
        \/ answer.kind = "wrong_book" /\ w = Decide(SiteOf[r], o.key, Decision("wrong_book", None))

SweptReasons == {"relinked_by_decision", "new_copy_by_decision", "wrong_book"}

CarriesOut(w, part, r, o, answer, L) ==
    \/ /\ part = 1 /\ o.kind = "added"
       /\ w = SaveNew(o.key, Evidence(r, o.spine, ManualStatus), r)
    \/ /\ part = 2 /\ o.kind = "unchanged"
       /\ w = Save(o.book, Observe(L[o.book], o.copy, SiteOf[r], <<r, o.spine>>))
    \/ part = 3 /\ o.kind = "corrected" /\ w = CorrectedWrite(r, o, L)
    \/ part = 4 /\ Fits(o, answer, L) /\ AnswerSave(w, r, o, answer, L)
    \/ part = 5 /\ Fits(o, answer, L) /\ AnswerDecision(w, r, o, answer, L)
    \/ /\ part = 6 /\ o.reason = "ambiguous_location"
       /\ w = IF o.spine = answer.spine THEN CloseQuestion(SiteOf[r], o.key)
              ELSE Ask(SiteOf[r], o.key, r)
    \/ part = 7 /\ o.reason \in SweptReasons /\ w = CloseQuestion(SiteOf[r], o.key)

\* A sequence of calls that carries out the outcomes marked X.
Marked(s, X, diff, r, answer, L, m) ==
    /\ s \in Seq(StoreCalls(m)) /\ X \subseteq Marks
    /\ \E f \in [DOMAIN s -> X] :
          /\ \A i \in DOMAIN s : /\ f[i][2] \in DOMAIN diff
                                 /\ CarriesOut(s[i], f[i][1], r, diff[f[i][2]], answer, L)
          /\ \A i, j \in DOMAIN s : i < j => Precedes(f[i], f[j])
          /\ \A x \in X : \E i \in DOMAIN s : f[i] = x

\* Two parts of a plan, one after the other.
LEMMA MarkedJoin ==
  ASSUME NEW m, NEW s, NEW t, NEW X, NEW Y, NEW diff, NEW r, NEW answer, NEW L,
         Marked(s, X, diff, r, answer, L, m), Marked(t, Y, diff, r, answer, L, m),
         \A x \in X, y \in Y : x[1] < y[1]
  PROVE  Marked(s \o t, X \cup Y, diff, r, answer, L, m)
<1>1. PICK f \in [DOMAIN s -> X] :
          /\ \A i \in DOMAIN s : /\ f[i][2] \in DOMAIN diff
                                 /\ CarriesOut(s[i], f[i][1], r, diff[f[i][2]], answer, L)
          /\ \A i, j \in DOMAIN s : i < j => Precedes(f[i], f[j])
          /\ \A x \in X : \E i \in DOMAIN s : f[i] = x
  BY DEF Marked
<1>2. PICK g \in [DOMAIN t -> Y] :
          /\ \A i \in DOMAIN t : /\ g[i][2] \in DOMAIN diff
                                 /\ CarriesOut(t[i], g[i][1], r, diff[g[i][2]], answer, L)
          /\ \A i, j \in DOMAIN t : i < j => Precedes(g[i], g[j])
          /\ \A x \in Y : \E i \in DOMAIN t : g[i] = x
  BY DEF Marked
<1>3. s \in Seq(StoreCalls(m)) /\ t \in Seq(StoreCalls(m)) /\ X \subseteq Marks /\ Y \subseteq Marks
  BY DEF Marked
<1>. DEFINE u == s \o t
            n == Len(s)
            h == [i \in DOMAIN u |-> IF i <= n THEN f[i] ELSE g[i - n]]
<1>4. /\ u \in Seq(StoreCalls(m)) /\ n \in Nat
      /\ DOMAIN s = 1 .. n /\ DOMAIN t = 1 .. Len(t) /\ Len(t) \in Nat
      /\ \A i \in DOMAIN s : i \in DOMAIN u /\ u[i] = s[i]
      /\ \A i \in DOMAIN t : n + i \in DOMAIN u /\ u[n + i] = t[i]
      /\ \A i \in DOMAIN u : \/ i \in DOMAIN s /\ u[i] = s[i]
                             \/ i > n /\ i - n \in DOMAIN t /\ u[i] = t[i - n]
  BY <1>3, Joined
<1>5. DOMAIN u = 1 .. Len(u) /\ Len(u) \in Nat
  <2>. HIDE DEF u
  <2>. QED
    BY <1>4, LenProperties
<1>. HIDE DEF u, n
<1>6. \A i \in DOMAIN u : \/ i \in DOMAIN s /\ u[i] = s[i] /\ h[i] = f[i]
                          \/ i > n /\ i - n \in DOMAIN t /\ u[i] = t[i - n] /\ h[i] = g[i - n]
  BY <1>4, <1>5
<1>7. /\ \A i \in DOMAIN s : h[i] = f[i]
      /\ \A i \in DOMAIN t : h[n + i] = g[i]
  <2>1. \A i \in DOMAIN s : h[i] = f[i]
    BY <1>4
  <2>2. ASSUME NEW i \in DOMAIN t
        PROVE  h[n + i] = g[i]
    <3>1. n + i \in DOMAIN u /\ ~(n + i <= n) /\ (n + i) - n = i
      BY <1>4
    <3>. QED
      BY <3>1
  <2>. QED
    BY <2>1, <2>2
<1>8. h \in [DOMAIN u -> X \cup Y]
  BY <1>1, <1>2, <1>6
<1>. HIDE DEF h
<1>9. \A i \in DOMAIN u : /\ h[i][2] \in DOMAIN diff
                          /\ CarriesOut(u[i], h[i][1], r, diff[h[i][2]], answer, L)
  BY <1>1, <1>2, <1>6
<1>10. ASSUME NEW i \in DOMAIN u, NEW j \in DOMAIN u, i < j
       PROVE  Precedes(h[i], h[j])
  <2>1. CASE i \in DOMAIN s /\ j \in DOMAIN s
    <3>1. h[i] = f[i] /\ h[j] = f[j]
      BY <2>1, <1>7
    <3>. QED
      BY <1>1, <1>10, <2>1, <3>1
  <2>2. CASE i > n /\ j > n
    <3>1. i - n \in DOMAIN t /\ j - n \in DOMAIN t /\ h[i] = g[i - n] /\ h[j] = g[j - n]
      BY <1>4, <1>6, <2>2
    <3>2. i - n < j - n
      BY <1>4, <1>5, <1>10
    <3>. QED
      BY <1>2, <3>1, <3>2
  <2>3. CASE i \in DOMAIN s /\ j > n
    <3>1. h[i] = f[i] /\ h[j] = g[j - n] /\ j - n \in DOMAIN t
      BY <1>4, <1>6, <1>7, <2>3
    <3>2. f[i] \in X /\ g[j - n] \in Y
      BY <1>1, <1>2, <2>3, <3>1
    <3>. QED
      BY <3>1, <3>2 DEF Precedes
  <2>4. i \in DOMAIN s \/ i > n
    BY <1>6
  <2>5. j \in DOMAIN s \/ j > n
    BY <1>6
  <2>6. ~(i > n /\ j \in DOMAIN s)
    BY <1>4, <1>5, <1>10
  <2>. QED
    BY <2>1, <2>2, <2>3, <2>4, <2>5, <2>6
<1>11. \A x \in X \cup Y : \E i \in DOMAIN u : h[i] = x
  <2>1. ASSUME NEW x \in X
        PROVE  \E i \in DOMAIN u : h[i] = x
    BY <1>1, <1>4, <1>7
  <2>2. ASSUME NEW x \in Y
        PROVE  \E i \in DOMAIN u : h[i] = x
    <3>1. PICK i \in DOMAIN t : g[i] = x
      BY <1>2
    <3>2. n + i \in DOMAIN u /\ h[n + i] = x
      BY <1>4, <1>7, <3>1
    <3>. QED
      BY <3>2
  <2>. QED
    BY <2>1, <2>2
<1>12. X \cup Y \subseteq Marks
  BY <1>3
<1>. QED
  BY <1>4, <1>8, <1>9, <1>10, <1>11, <1>12 DEF Marked, u

\* A part of a plan that has a call for each outcome of a kind.
LEMMA MarkedKept ==
  ASSUME NEW m, NEW S, NEW diff \in Seq(S), NEW T, NEW part \in Parts, NEW s \in Seq(StoreCalls(m)),
         NEW r, NEW answer, NEW L, DOMAIN s = DOMAIN Kept(diff, T),
         \A i \in DOMAIN s : CarriesOut(s[i], part, r, Kept(diff, T)[i], answer, L)
  PROVE  Marked(s, {<<part, j>> : j \in {i \in DOMAIN diff : diff[i] \in T}}, diff, r, answer, L, m)
<1>. DEFINE J == {i \in DOMAIN diff : diff[i] \in T}
            X == {<<part, j>> : j \in J}
            p == Kept(diff, T)
<1>0. \E k : Picks(k, p, diff, T)
  BY KeptFacts
<1>. HIDE DEF p
<1>1. PICK k \in [DOMAIN p -> DOMAIN diff] :
          /\ \A n \in DOMAIN p : p[n] = diff[k[n]] /\ diff[k[n]] \in T
          /\ \A n, l \in DOMAIN p : n # l => k[n] # k[l]
          /\ \A i \in DOMAIN diff : diff[i] \in T => \E n \in DOMAIN p : k[n] = i
  BY <1>0 DEF Picks
<1>2. DOMAIN diff = 1 .. Len(diff) /\ Len(diff) \in Nat
  BY LenProperties
<1>3. DOMAIN s = 1 .. Len(s) /\ Len(s) \in Nat
  BY LenProperties
<1>4. DOMAIN s = DOMAIN p /\ \A i \in DOMAIN s : CarriesOut(s[i], part, r, p[i], answer, L)
  BY DEF p
<1>. DEFINE f == [i \in DOMAIN s |-> <<part, k[i]>>]
<1>5. \A i \in DOMAIN s : k[i] \in J /\ f[i] = <<part, k[i]>> /\ f[i][1] = part /\ f[i][2] = k[i]
  BY <1>1, <1>4
<1>6. X \subseteq Marks
  BY <1>2 DEF Marks
<1>7. f \in [DOMAIN s -> X]
  BY <1>5
<1>8. \A i \in DOMAIN s : /\ f[i][2] \in DOMAIN diff
                          /\ CarriesOut(s[i], f[i][1], r, diff[f[i][2]], answer, L)
  <2>1. ASSUME NEW i \in DOMAIN s
        PROVE  f[i][2] \in DOMAIN diff /\ CarriesOut(s[i], f[i][1], r, diff[f[i][2]], answer, L)
    <3>1. f[i][1] = part /\ f[i][2] = k[i] /\ k[i] \in DOMAIN diff /\ p[i] = diff[k[i]]
      BY <1>1, <1>4, <1>5
    <3>. HIDE DEF f
    <3>. QED
      BY <1>4, <3>1
  <2>. QED
    BY <2>1
<1>9. ASSUME NEW i \in DOMAIN s, NEW j \in DOMAIN s, i < j
      PROVE  Precedes(f[i], f[j])
  <2>1. k[i] # k[j]
    BY <1>1, <1>3, <1>4, <1>9
  <2>. HIDE DEF f
  <2>. QED
    BY <1>5, <2>1 DEF Precedes
<1>10. ASSUME NEW x \in X
       PROVE  \E i \in DOMAIN s : f[i] = x
  <2>1. PICK j \in J : x = <<part, j>>
    OBVIOUS
  <2>2. PICK n \in DOMAIN p : k[n] = j
    BY <1>1, <2>1
  <2>3. f[n] = x
    BY <1>4, <2>1, <2>2
  <2>. QED
    BY <1>4, <2>2, <2>3
<1>. HIDE DEF f, X
<1>11. Marked(s, X, diff, r, answer, L, m)
  BY <1>6, <1>7, <1>8, <1>9, <1>10 DEF Marked
<1>. QED
  BY <1>11 DEF X

\* What the reason of an outcome tells.
LEMMA ReasonFacts ==
  ASSUME NEW o, NEW r, NEW spine, NEW L, NEW D, Classified(o, r, spine, L, D)
  PROVE  /\ o.reason = "ambiguous_location" =>
               /\ o.kind = "needs_decision" /\ Names(o, r, spine, L)
               /\ D[o.key].kind \notin {"another_copy", "rejected", "wrong_book"}
         /\ o.reason = "new_book_unconfirmed" => o.kind = "needs_decision" /\ Unnamed(o, r, spine, L)
         /\ o.reason \in {"relinked_by_decision", "new_copy_by_decision"} => o.kind = "corrected"
         /\ o.reason = "wrong_book" => o.kind = "rejected"
         /\ o.kind = "rejected" => o.reason \in {"rejected", "wrong_book"}
         /\ o.kind # "unchanged" => o.key = Claims[r][spine].key
<1>1. o.kind = "rejected" => o.reason \in {"rejected", "wrong_book"}
  BY DEF Classified, Suppresses
<1>. QED
  BY <1>1 DEF Classified, OutcomeKinds, StandsHere, Names, Unnamed

\* What an answer needs to be: a book is confirmed under a key.
Answers(answer) == answer.kind = "confirm" => answer.key \in Keys

\* Each call of a plan has the shape its store gives it.
LEMMA CarriedTyped ==
  ASSUME NEW m \in Nat, NEW L \in Libraries(m), NEW D, NEW r \in Reads, NEW answer,
         Answers(answer), NEW o, NEW spine \in Spines(r), Claims[r][spine].key \in Keys,
         Classified(o, r, spine, L, D), NEW part, NEW w, CarriesOut(w, part, r, o, answer, L)
  PROVE  w \in StoreCalls(m)
<1>. DEFINE key == Claims[r][spine].key
            site == SiteOf[r]
            sighting == <<r, o.spine>>
<1>1. /\ site \in Sites /\ spine \in Nat /\ o.spine = spine
      /\ r \in 1 .. Cardinality(Reads) + 1 /\ sighting \in Reads \X Nat
  <2>1. o.spine = spine
    BY DEF Classified
  <2>2. Cardinality(Reads) \in Nat /\ r \in 1 .. Cardinality(Reads)
    BY ReadsAreNumbered, FS_CardinalityType
  <2>3. site \in Sites /\ spine \in Nat
    BY ClaimFacts
  <2>. QED
    BY <2>1, <2>2, <2>3
<1>2. /\ Evidence(r, o.spine, ManualStatus) \in CopyType /\ Evidence(r, o.spine, Approved) \in CopyType
  BY <1>1, EvidenceType DEF ManualStatus, Approved, AutoStatus
<1>3. \A b \in DOMAIN L : b \in 1 .. m /\ L[b] \in BookRows(m)
  BY LibraryFields
<1>4. ASSUME o.kind = "added", w = SaveNew(o.key, Evidence(r, o.spine, ManualStatus), r)
      PROVE  w \in StoreCalls(m)
  <2>1. o.key \in Keys
    BY <1>4 DEF Classified, Unnamed
  <2>. QED
    BY <1>1, <1>2, <1>4, <2>1, CallIntro
<1>5. ASSUME o.kind = "unchanged",
             w = Save(o.book, Observe(L[o.book], o.copy, SiteOf[r], <<r, o.spine>>))
      PROVE  w \in StoreCalls(m)
  <2>1. o.book \in DOMAIN L /\ o.copy \in CopyIds(L[o.book])
    BY <1>5 DEF Classified, StandsHere
  <2>2. Observe(L[o.book], o.copy, SiteOf[r], <<r, o.spine>>) \in BookRows(m)
    BY <1>1, <1>3, <2>1, ObserveFacts DEF Seen
  <2>. QED
    BY <1>3, <1>5, <2>1, <2>2, CallIntro
<1>6. ASSUME NEW c, c \in CopyIds(L[o.book]), o.book \in DOMAIN L
      PROVE  Save(o.book, RelinkCopy(L[o.book], c, SiteOf[r], <<r, o.spine>>)) \in StoreCalls(m)
  <2>1. RelinkCopy(L[o.book], c, SiteOf[r], <<r, o.spine>>) \in BookRows(m)
    BY <1>1, <1>3, <1>6, ObserveFacts DEF Seen
  <2>. QED
    BY <1>3, <1>6, <2>1, CallIntro
<1>7. ASSUME o.book \in DOMAIN L
      PROVE  SaveCopy(o.book, L[o.book], Evidence(r, o.spine, ManualStatus)) \in StoreCalls(m)
  BY <1>2, <1>3, <1>7, CallIntro
<1>8. ASSUME o.kind = "corrected", w = CorrectedWrite(r, o, L)
      PROVE  w \in StoreCalls(m)
  <2>1. /\ o.book \in DOMAIN L
        /\ o.reason = "relinked_by_decision" => o.copy \in CopyIds(L[o.book])
    BY <1>8 DEF Classified, Names
  <2>. QED
    BY <1>6, <1>7, <1>8, <2>1 DEF CorrectedWrite
<1>9. ASSUME Fits(o, answer, L)
      PROVE  /\ o.key \in Keys
             /\ answer.kind \in {"already_listed", "another_copy"} => o.book \in DOMAIN L
             /\ answer.kind = "already_listed" =>
                  ResolveCopy(L[o.book], answer.copy) \in CopyIds(L[o.book])
  <2>1. /\ answer.kind \in {"already_listed", "another_copy", "wrong_book"}
              => o.reason = "ambiguous_location"
        /\ answer.kind = "already_listed" => ResolveCopy(L[o.book], answer.copy) # None
        /\ o.reason \in {"ambiguous_location", "new_book_unconfirmed"}
    BY <1>9 DEF Fits
  <2>2. o.reason = "ambiguous_location" => o.book \in DOMAIN L /\ o.key = key
    BY ReasonFacts DEF Names
  <2>3. o.reason = "new_book_unconfirmed" => o.key = key
    BY ReasonFacts DEF Unnamed
  <2>4. o.book \in DOMAIN L =>
          ResolveCopy(L[o.book], answer.copy) \in CopyIds(L[o.book]) \cup {None}
    BY <1>3, ResolvedFacts
  <2>. QED
    BY <2>1, <2>2, <2>3, <2>4
<1>10. ASSUME Fits(o, answer, L), AnswerSave(w, r, o, answer, L)
       PROVE  w \in StoreCalls(m)
  <2>1. CASE answer.kind = "confirm" /\ w = SaveNew(answer.key, Evidence(r, o.spine, Approved), r)
    BY <1>1, <1>2, <2>1, CallIntro DEF Answers
  <2>2. CASE answer.kind = "already_listed" /\ w = Save(o.book, RelinkCopy(L[o.book],
                  ResolveCopy(L[o.book], answer.copy), SiteOf[r], <<r, o.spine>>))
    BY <1>6, <1>9, <1>10, <2>2
  <2>3. CASE answer.kind = "another_copy"
             /\ w = SaveCopy(o.book, L[o.book], Evidence(r, o.spine, ManualStatus))
    BY <1>7, <1>9, <1>10, <2>3
  <2>. QED
    BY <1>10, <2>1, <2>2, <2>3 DEF AnswerSave
<1>11. ASSUME Fits(o, answer, L), AnswerDecision(w, r, o, answer, L)
       PROVE  w \in StoreCalls(m)
  <2>1. \A d \in Decisions(m) : Decide(SiteOf[r], o.key, d) \in StoreCalls(m)
    BY <1>1, <1>9, <1>11, CallIntro
  <2>2. \A k \in DecisionKinds, c \in 0 .. m : Decision(k, c) \in Decisions(m)
    BY DEF Decision, Decisions
  <2>3. answer.kind = "already_listed" => ResolveCopy(L[o.book], answer.copy) \in 0 .. m
    BY <1>3, <1>9, <1>11, ResolvedFacts
  <2>4. None \in 0 .. m
    BY DEF None
  <2>. QED
    BY <1>11, <2>1, <2>2, <2>3, <2>4 DEF AnswerDecision, DecisionKinds
<1>12. ASSUME o.reason \in SweptReasons \cup {"ambiguous_location"},
              w \in {CloseQuestion(SiteOf[r], o.key), Ask(SiteOf[r], o.key, r)}
       PROVE  w \in StoreCalls(m)
  <2>1. o.kind # "unchanged"
    BY <1>12 DEF Classified, StandsHere, SweptReasons
  <2>2. o.key \in Keys
    BY <2>1, ReasonFacts
  <2>. QED
    BY <1>1, <1>12, <2>2, CallIntro
<1>. QED
  BY <1>4, <1>5, <1>8, <1>10, <1>11, <1>12 DEF CarriesOut

\* The calls of one part of a plan, when each carries out its outcome.
LEMMA PartMarks ==
  ASSUME NEW m \in Nat, NEW L \in Libraries(m), NEW D, NEW r \in Reads, NEW answer,
         Answers(answer), NEW T, NEW part \in Parts, NEW s,
         DOMAIN s = DOMAIN Kept(Diff(r, L, D), T), s = [i \in DOMAIN s |-> s[i]],
         \A i \in DOMAIN s : CarriesOut(s[i], part, r, Kept(Diff(r, L, D), T)[i], answer, L)
  PROVE  Marked(s, {<<part, j>> : j \in {i \in DOMAIN Diff(r, L, D) : Diff(r, L, D)[i] \in T}},
                Diff(r, L, D), r, answer, L, m)
<1>. DEFINE diff == Diff(r, L, D)
            S == ToSet(diff)
            p == Kept(diff, T)
<1>1. /\ diff \in Seq(S)
      /\ \A i \in DOMAIN diff : /\ Classified(diff[i], r, diff[i].spine, L, D)
                                /\ diff[i].spine \in Spines(r)
                                /\ Claims[r][diff[i].spine].key \in Keys
  <2>1. diff \in Seq(S)
    BY DiffFacts, Zenon
  <2>2. \A i \in DOMAIN diff : /\ Classified(diff[i], r, diff[i].spine, L, D)
                               /\ diff[i].spine \in Spines(r)
                               /\ Claims[r][diff[i].spine].key \in Keys
    BY DiffFacts, Zenon
  <2>. QED
    BY <2>1, <2>2
<1>. HIDE DEF diff
<1>2. p \in Seq(S) /\ \A n \in DOMAIN p : \E i \in DOMAIN diff : p[n] = diff[i]
  <2>. HIDE DEF S
  <2>2. diff \in Seq(S)
    BY <1>1
  <2>. HIDE DEF p
  <2>1. /\ Kept(diff, T) \in Seq(S)
        /\ \E k \in [DOMAIN Kept(diff, T) -> DOMAIN diff] :
              /\ \A n \in DOMAIN Kept(diff, T) : Kept(diff, T)[n] = diff[k[n]] /\ diff[k[n]] \in T
              /\ \A n, l \in DOMAIN Kept(diff, T) : n # l => k[n] # k[l]
              /\ \A i \in DOMAIN diff : diff[i] \in T => \E n \in DOMAIN Kept(diff, T) : k[n] = i
    <3>1. Kept(diff, T) \in Seq(S) /\ \E k : Picks(k, Kept(diff, T), diff, T)
      BY <2>2, KeptFacts
    <3>2. PICK k : Picks(k, Kept(diff, T), diff, T)
      BY <3>1
    <3>. QED
      BY <3>1, <3>2 DEF Picks
  <2>. QED
    BY <2>1 DEF p
<1>3. DOMAIN p = 1 .. Len(p) /\ Len(p) \in Nat
  BY <1>2, LenProperties
<1>. HIDE DEF p, S
<1>4. DOMAIN s = DOMAIN p /\ \A i \in DOMAIN s : CarriesOut(s[i], part, r, p[i], answer, L)
  BY DEF p, diff
<1>5. ASSUME NEW i \in DOMAIN s
      PROVE  s[i] \in StoreCalls(m)
  <2>1. PICK j \in DOMAIN diff : p[i] = diff[j]
    BY <1>2, <1>4
  <2>. DEFINE o == diff[j]
              spine == o.spine
  <2>2. /\ spine \in Spines(r) /\ Claims[r][spine].key \in Keys
        /\ Classified(o, r, spine, L, D) /\ CarriesOut(s[i], part, r, o, answer, L)
    BY <1>1, <1>4, <2>1
  <2>. HIDE DEF o, spine
  <2>. QED
    BY <2>2, CarriedTyped
<1>6. s \in Seq(StoreCalls(m))
  <2>1. \A i \in 1 .. Len(p) : s[i] \in StoreCalls(m)
    BY <1>3, <1>4, <1>5
  <2>2. [i \in 1 .. Len(p) |-> s[i]] \in Seq(StoreCalls(m))
    BY <1>3, <2>1, IsASeq
  <2>. QED
    BY <1>3, <1>4, <2>2
<1>7. Marked(s, {<<part, j>> : j \in {i \in DOMAIN diff : diff[i] \in T}}, diff, r, answer, L, m)
  BY <1>1, <1>4, <1>6, MarkedKept DEF p
<1>. QED
  BY <1>7 DEF diff

\* One call.
LEMMA OneMarked ==
  ASSUME NEW m \in Nat, NEW diff, NEW w \in StoreCalls(m), NEW part \in Parts, NEW r, NEW answer, NEW L,
         NEW j \in DOMAIN diff, j \in Nat, CarriesOut(w, part, r, diff[j], answer, L)
  PROVE  Marked(<<w>>, {<<part, j>>}, diff, r, answer, L, m)
<1>. DEFINE X == {<<part, j>>}
            s == <<w>>
            f == [i \in DOMAIN s |-> <<part, j>>]
<1>1. s \in Seq(StoreCalls(m)) /\ DOMAIN s = {1} /\ s[1] = w /\ X \subseteq Marks
  BY DEF Marks
<1>2. f \in [DOMAIN s -> X] /\ f[1] = <<part, j>>
  BY <1>1
<1>. HIDE DEF s, f
<1>3. /\ \A i \in DOMAIN s : /\ f[i][2] \in DOMAIN diff
                             /\ CarriesOut(s[i], f[i][1], r, diff[f[i][2]], answer, L)
      /\ \A i, k \in DOMAIN s : i < k => Precedes(f[i], f[k])
      /\ \A x \in X : \E i \in DOMAIN s : f[i] = x
  BY <1>1, <1>2
<1>4. Marked(s, X, diff, r, answer, L, m)
  <2>. HIDE DEF X
  <2>. QED
    BY <1>1, <1>2, <1>3 DEF Marked
<1>. QED
  BY <1>4 DEF s

LEMMA NoneMarked ==
  ASSUME NEW m, NEW diff, NEW r, NEW answer, NEW L
  PROVE  Marked(<<>>, {}, diff, r, answer, L, m)
<1>. DEFINE f == [i \in DOMAIN <<>> |-> 0]
            s == <<>>
<1>1. DOMAIN s = {} /\ s \in Seq(StoreCalls(m)) /\ {} \subseteq Marks
  OBVIOUS
<1>2. f \in [DOMAIN s -> {}]
  BY <1>1
<1>. HIDE DEF s, f
<1>3. Marked(s, {}, diff, r, answer, L, m)
  BY <1>1, <1>2 DEF Marked
<1>. QED
  BY <1>3 DEF s

\* The marks of a part: one for each outcome it is about.
OfPart(part, J) == {<<part, j>> : j \in J}

\* What is applied in any case, and what is asked and closed at the end.
LEMMA SettledMarks ==
  ASSUME NEW m \in Nat, NEW L \in Libraries(m), NEW D, NEW r \in Reads, NEW answer,
         Answers(answer)
  PROVE  LET diff == Diff(r, L, D)
             Of(kind) == {j \in DOMAIN diff : diff[j].kind = kind}
         IN  Marked(SettledWrites(r, L, D),
                    (OfPart(1, Of("added")) \cup OfPart(2, Of("unchanged")))
                        \cup OfPart(3, Of("corrected")),
                    diff, r, answer, L, m)
<1>. DEFINE diff == Diff(r, L, D)
            Of(kind) == {j \in DOMAIN diff : diff[j].kind = kind}
            T(kind) == {o \in ToSet(diff) : o.kind = kind}
            added == Picked(diff, "added")
            unchanged == Picked(diff, "unchanged")
            corrected == Picked(diff, "corrected")
            s1 == [i \in DOMAIN added |->
                     SaveNew(added[i].key, Evidence(r, added[i].spine, ManualStatus), r)]
            s2 == [i \in DOMAIN unchanged |->
                     LET o == unchanged[i]
                     IN  Save(o.book, Observe(L[o.book], o.copy, SiteOf[r], <<r, o.spine>>))]
            s3 == [i \in DOMAIN corrected |-> CorrectedWrite(r, corrected[i], L)]
<1>1. ToSet(diff) = {diff[i] : i \in DOMAIN diff}
  BY DEF ToSet
<1>2. \A kind : {i \in DOMAIN diff : diff[i] \in T(kind)} = Of(kind)
  <2>. HIDE DEF diff
  <2>. QED
    BY <1>1
<1>3. ASSUME NEW kind, NEW i \in DOMAIN Kept(diff, T(kind))
      PROVE  Kept(diff, T(kind))[i].kind = kind
  <2>1. diff \in Seq(ToSet(diff))
    BY DiffFacts, Zenon
  <2>. DEFINE U == T(kind)
  <2>2. \A o \in U : o.kind = kind
    OBVIOUS
  <2>. HIDE DEF diff, U
  <2>3. \A n \in DOMAIN Kept(diff, U) : Kept(diff, U)[n] \in U
    BY <2>1, KeptFacts
  <2>4. \A n \in DOMAIN Kept(diff, U) : Kept(diff, U)[n].kind = kind
    BY <2>2, <2>3
  <2>. QED
    BY <1>3, <2>4 DEF U
<1>4. Marked(s1, OfPart(1, Of("added")), diff, r, answer, L, m)
  <2>. DEFINE U == T("added")
  <2>1. DOMAIN s1 = DOMAIN Kept(diff, U) /\ s1 = [i \in DOMAIN s1 |-> s1[i]] /\ 1 \in Parts
    BY DEF Picked, Parts
  <2>2. \A i \in DOMAIN s1 : CarriesOut(s1[i], 1, r, Kept(diff, U)[i], answer, L)
    BY <1>3 DEF CarriesOut, Picked
  <2>. HIDE DEF s1, U
  <2>3. Marked(s1, {<<1, j>> : j \in {i \in DOMAIN diff : diff[i] \in U}}, diff, r, answer, L, m)
    BY <2>1, <2>2, PartMarks
  <2>. QED
    BY <1>2, <2>3 DEF OfPart, U
<1>5. Marked(s2, OfPart(2, Of("unchanged")), diff, r, answer, L, m)
  <2>. DEFINE U == T("unchanged")
  <2>1. DOMAIN s2 = DOMAIN Kept(diff, U) /\ s2 = [i \in DOMAIN s2 |-> s2[i]] /\ 2 \in Parts
    BY DEF Picked, Parts
  <2>2. \A i \in DOMAIN s2 : CarriesOut(s2[i], 2, r, Kept(diff, U)[i], answer, L)
    BY <1>3 DEF CarriesOut, Picked
  <2>. HIDE DEF s2, U
  <2>3. Marked(s2, {<<2, j>> : j \in {i \in DOMAIN diff : diff[i] \in U}}, diff, r, answer, L, m)
    BY <2>1, <2>2, PartMarks
  <2>. QED
    BY <1>2, <2>3 DEF OfPart, U
<1>6. Marked(s3, OfPart(3, Of("corrected")), diff, r, answer, L, m)
  <2>. DEFINE U == T("corrected")
  <2>1. DOMAIN s3 = DOMAIN Kept(diff, U) /\ s3 = [i \in DOMAIN s3 |-> s3[i]] /\ 3 \in Parts
    BY DEF Picked, Parts
  <2>2. \A i \in DOMAIN s3 : CarriesOut(s3[i], 3, r, Kept(diff, U)[i], answer, L)
    BY <1>3 DEF CarriesOut, Picked
  <2>. HIDE DEF s3, U
  <2>3. Marked(s3, {<<3, j>> : j \in {i \in DOMAIN diff : diff[i] \in U}}, diff, r, answer, L, m)
    BY <2>1, <2>2, PartMarks
  <2>. QED
    BY <1>2, <2>3 DEF OfPart, U
<1>7. SettledWrites(r, L, D) = (s1 \o s2) \o s3
  BY DEF SettledWrites
<1>. HIDE DEF s1, s2, s3, diff, Of
<1>8. Marked(s1 \o s2, OfPart(1, Of("added")) \cup OfPart(2, Of("unchanged")), diff, r, answer, L, m)
  BY <1>4, <1>5, MarkedJoin DEF OfPart
<1>9. Marked((s1 \o s2) \o s3, (OfPart(1, Of("added")) \cup OfPart(2, Of("unchanged")))
             \cup OfPart(3, Of("corrected")), diff, r, answer, L, m)
  BY <1>6, <1>8, MarkedJoin DEF OfPart
<1>. QED
  BY <1>7, <1>9 DEF diff, Of

LEMMA QueueMarks ==
  ASSUME NEW m \in Nat, NEW L \in Libraries(m), NEW D, NEW r \in Reads, NEW answer,
         Answers(answer)
  PROVE  LET diff == Diff(r, L, D)
             Open == {j \in DOMAIN diff : diff[j].reason = "ambiguous_location"}
             Swept == {j \in DOMAIN diff : diff[j].reason \in SweptReasons}
         IN  Marked(QueueWrites(r, answer, L, D), OfPart(6, Open) \cup OfPart(7, Swept),
                    diff, r, answer, L, m)
<1>. DEFINE diff == Diff(r, L, D)
            Open == {j \in DOMAIN diff : diff[j].reason = "ambiguous_location"}
            Swept == {j \in DOMAIN diff : diff[j].reason \in SweptReasons}
            T(R) == {o \in ToSet(diff) : o.reason \in R}
            open == Reasoned(diff, {"ambiguous_location"})
            swept == Reasoned(diff, SweptReasons)
            s6 == [i \in DOMAIN open |->
                     IF open[i].spine = answer.spine
                     THEN CloseQuestion(SiteOf[r], open[i].key)
                     ELSE Ask(SiteOf[r], open[i].key, r)]
            s7 == [i \in DOMAIN swept |-> CloseQuestion(SiteOf[r], swept[i].key)]
<1>1. ToSet(diff) = {diff[i] : i \in DOMAIN diff}
  BY DEF ToSet
<1>2. \A R : {i \in DOMAIN diff : diff[i] \in T(R)} = {j \in DOMAIN diff : diff[j].reason \in R}
  <2>. HIDE DEF diff
  <2>. QED
    BY <1>1
<1>3. ASSUME NEW R, NEW i \in DOMAIN Kept(diff, T(R))
      PROVE  Kept(diff, T(R))[i].reason \in R
  <2>1. diff \in Seq(ToSet(diff))
    BY DiffFacts, Zenon
  <2>. DEFINE U == T(R)
  <2>2. \A o \in U : o.reason \in R
    OBVIOUS
  <2>. HIDE DEF diff, U
  <2>3. \A n \in DOMAIN Kept(diff, U) : Kept(diff, U)[n] \in U
    BY <2>1, KeptFacts
  <2>4. \A n \in DOMAIN Kept(diff, U) : Kept(diff, U)[n].reason \in R
    BY <2>2, <2>3
  <2>. QED
    BY <1>3, <2>4 DEF U
<1>4. Marked(s6, OfPart(6, Open), diff, r, answer, L, m)
  <2>. DEFINE U == T({"ambiguous_location"})
  <2>1. DOMAIN s6 = DOMAIN Kept(diff, U) /\ s6 = [i \in DOMAIN s6 |-> s6[i]] /\ 6 \in Parts
    BY DEF Reasoned, Parts
  <2>2. \A i \in DOMAIN s6 : CarriesOut(s6[i], 6, r, Kept(diff, U)[i], answer, L)
    BY <1>3 DEF CarriesOut, Reasoned
  <2>4. {i \in DOMAIN diff : diff[i] \in U} = Open
    BY <1>2
  <2>. HIDE DEF s6, U, Open
  <2>3. Marked(s6, {<<6, j>> : j \in {i \in DOMAIN diff : diff[i] \in U}}, diff, r, answer, L, m)
    BY <2>1, <2>2, PartMarks
  <2>. QED
    BY <2>3, <2>4 DEF OfPart
<1>5. Marked(s7, OfPart(7, Swept), diff, r, answer, L, m)
  <2>. DEFINE U == T(SweptReasons)
  <2>1. DOMAIN s7 = DOMAIN Kept(diff, U) /\ s7 = [i \in DOMAIN s7 |-> s7[i]] /\ 7 \in Parts
    BY DEF Reasoned, Parts
  <2>2. \A i \in DOMAIN s7 : CarriesOut(s7[i], 7, r, Kept(diff, U)[i], answer, L)
    BY <1>3 DEF CarriesOut, Reasoned
  <2>4. {i \in DOMAIN diff : diff[i] \in U} = Swept
    BY <1>2
  <2>. HIDE DEF s7, U, Swept
  <2>3. Marked(s7, {<<7, j>> : j \in {i \in DOMAIN diff : diff[i] \in U}}, diff, r, answer, L, m)
    BY <2>1, <2>2, PartMarks
  <2>. QED
    BY <2>3, <2>4 DEF OfPart
<1>6. QueueWrites(r, answer, L, D) = s6 \o s7
  BY DEF QueueWrites, SweptReasons
<1>. HIDE DEF s6, s7, diff, Open, Swept
<1>7. Marked(s6 \o s7, OfPart(6, Open) \cup OfPart(7, Swept), diff, r, answer, L, m)
  BY <1>4, <1>5, MarkedJoin DEF OfPart
<1>. QED
  BY <1>6, <1>7 DEF diff, Open, Swept

LEMMA Paired == \A v, w : <<v, w>> = <<v>> \o <<w>>
<1>1. ASSUME NEW v, NEW w
      PROVE  <<v, w>> = <<v>> \o <<w>>
  <2>. DEFINE S == {v, w}
              a == <<v>>
              b == <<w>>
              c == <<v, w>>
  <2>1. /\ a \in Seq(S) /\ b \in Seq(S) /\ c \in Seq(S)
        /\ Len(a) = 1 /\ Len(b) = 1 /\ Len(c) = 2
        /\ a[1] = v /\ b[1] = w /\ c[1] = v /\ c[2] = w
    OBVIOUS
  <2>. HIDE DEF a, b, c, S
  <2>2. /\ a \o b \in Seq(S) /\ Len(a \o b) = 2
        /\ \A i \in 1 .. 2 : (a \o b)[i] = IF i <= 1 THEN a[i] ELSE b[i - 1]
    BY <2>1, ConcatProperties
  <2>3. \A i \in 1 .. 2 : (a \o b)[i] = c[i]
    <3>1. 1 - 0 = 1 /\ 2 - 1 = 1 /\ 1 .. 2 = {1, 2} /\ ~(2 <= 1) /\ 1 <= 1
      OBVIOUS
    <3>. QED
      BY <2>1, <2>2, <3>1
  <2>4. a \o b = c
    BY <2>1, <2>2, <2>3, SeqEqual
  <2>. QED
    BY <2>4 DEF a, b, c
<1>. QED
  BY <1>1

SaveKinds == {"confirm", "already_listed", "another_copy"}
AnswerPart(j, answer) ==
    (IF answer.kind \in SaveKinds THEN {<<4, j>>} ELSE {})
      \cup (IF answer.kind # "confirm" THEN {<<5, j>>} ELSE {})

LEMMA AnswerMarks ==
  ASSUME NEW m \in Nat, NEW L \in Libraries(m), NEW D, NEW r \in Reads, NEW answer,
         Answers(answer), NEW j \in DOMAIN Diff(r, L, D), Fits(Diff(r, L, D)[j], answer, L)
  PROVE  Marked(AnswerWrites(r, Diff(r, L, D)[j], answer, L), AnswerPart(j, answer),
                Diff(r, L, D), r, answer, L, m)
<1>. DEFINE diff == Diff(r, L, D)
            o == diff[j]
            given == ResolveCopy(L[o.book], answer.copy)
            save(w) == AnswerSave(w, r, o, answer, L)
            decide(w) == AnswerDecision(w, r, o, answer, L)
            s == AnswerWrites(r, o, answer, L)
<1>1. /\ j \in Nat
      /\ Classified(o, r, o.spine, L, D) /\ o.spine \in Spines(r)
      /\ Claims[r][o.spine].key \in Keys
  <2>1. /\ diff \in Seq(ToSet(diff))
        /\ \A i \in DOMAIN diff : /\ Classified(diff[i], r, diff[i].spine, L, D)
                                  /\ diff[i].spine \in Spines(r)
                                  /\ Claims[r][diff[i].spine].key \in Keys
    BY DiffFacts
  <2>. HIDE DEF diff
  <2>2. j \in 1 .. Len(diff) /\ Len(diff) \in Nat
    BY <2>1, LenProperties DEF diff
  <2>. QED
    BY <2>1, <2>2 DEF diff
<1>2. ASSUME NEW w, save(w)
      PROVE  Marked(<<w>>, {<<4, j>>}, diff, r, answer, L, m)
  <2>1. CarriesOut(w, 4, r, o, answer, L)
    BY <1>2 DEF CarriesOut
  <2>. DEFINE spine == o.spine
  <2>2. spine \in Spines(r) /\ Claims[r][spine].key \in Keys /\ Classified(o, r, spine, L, D)
    BY <1>1
  <2>3. 4 \in Parts /\ j \in DOMAIN diff
    BY DEF Parts
  <2>. HIDE DEF diff, spine, save, decide
  <2>4. w \in StoreCalls(m)
    BY <2>1, <2>2, CarriedTyped
  <2>. QED
    BY <1>1, <2>1, <2>3, <2>4, OneMarked
<1>3. ASSUME NEW w, decide(w)
      PROVE  Marked(<<w>>, {<<5, j>>}, diff, r, answer, L, m)
  <2>1. CarriesOut(w, 5, r, o, answer, L)
    BY <1>3 DEF CarriesOut
  <2>. DEFINE spine == o.spine
  <2>2. spine \in Spines(r) /\ Claims[r][spine].key \in Keys /\ Classified(o, r, spine, L, D)
    BY <1>1
  <2>3. 5 \in Parts /\ j \in DOMAIN diff
    BY DEF Parts
  <2>. HIDE DEF diff, spine, save, decide
  <2>4. w \in StoreCalls(m)
    BY <2>1, <2>2, CarriedTyped
  <2>. QED
    BY <1>1, <2>1, <2>3, <2>4, OneMarked
<1>4. ASSUME NEW v, NEW w, save(v), decide(w)
      PROVE  Marked(<<v, w>>, {<<4, j>>} \cup {<<5, j>>}, diff, r, answer, L, m)
  <2>1. Marked(<<v>>, {<<4, j>>}, diff, r, answer, L, m) /\ Marked(<<w>>, {<<5, j>>}, diff, r, answer, L, m)
    BY <1>2, <1>3, <1>4
  <2>2. <<v, w>> = <<v>> \o <<w>>
    BY Paired
  <2>. HIDE DEF diff
  <2>3. \A x \in {<<4, j>>}, y \in {<<5, j>>} : x[1] < y[1]
    OBVIOUS
  <2>4. Marked(<<v>> \o <<w>>, {<<4, j>>} \cup {<<5, j>>}, diff, r, answer, L, m)
    BY <2>1, <2>3, MarkedJoin
  <2>. QED
    BY <2>2, <2>4
<1>5. answer.kind \in {"confirm", "reject", "already_listed", "another_copy", "wrong_book"}
  BY DEF Fits
<1>6. CASE answer.kind = "confirm"
  <2>. DEFINE w == SaveNew(answer.key, Evidence(r, o.spine, Approved), r)
  <2>1. s = <<w>> /\ AnswerPart(j, answer) = {<<4, j>>}
    BY <1>6 DEF AnswerWrites, AnswerPart, SaveKinds
  <2>2. save(w)
    BY <1>6 DEF AnswerSave
  <2>. HIDE DEF w, save
  <2>. QED
    BY <1>2, <2>1, <2>2
<1>7. CASE answer.kind = "reject"
  <2>. DEFINE w == Decide(SiteOf[r], o.key, Decision("rejected", None))
  <2>1. s = <<w>> /\ AnswerPart(j, answer) = {<<5, j>>}
    BY <1>7 DEF AnswerWrites, AnswerPart, SaveKinds
  <2>2. decide(w)
    BY <1>7 DEF AnswerDecision
  <2>. HIDE DEF w, decide
  <2>. QED
    BY <1>3, <2>1, <2>2
<1>8. CASE answer.kind = "wrong_book"
  <2>. DEFINE w == Decide(SiteOf[r], o.key, Decision("wrong_book", None))
  <2>1. s = <<w>> /\ AnswerPart(j, answer) = {<<5, j>>}
    BY <1>8 DEF AnswerWrites, AnswerPart, SaveKinds
  <2>2. decide(w)
    BY <1>8 DEF AnswerDecision
  <2>. HIDE DEF w, decide
  <2>. QED
    BY <1>3, <2>1, <2>2
<1>9. CASE answer.kind = "already_listed"
  <2>. DEFINE v == Save(o.book, RelinkCopy(L[o.book], given, SiteOf[r], <<r, o.spine>>))
              w == Decide(SiteOf[r], o.key, Decision("already_listed", given))
  <2>1. s = <<v, w>> /\ AnswerPart(j, answer) = {<<4, j>>} \cup {<<5, j>>}
    BY <1>9 DEF AnswerWrites, AnswerPart, SaveKinds
  <2>2. save(v)
    BY <1>9 DEF AnswerSave
  <2>3. decide(w)
    BY <1>9 DEF AnswerDecision
  <2>. HIDE DEF v, w, save, decide
  <2>. QED
    BY <1>4, <2>1, <2>2, <2>3
<1>10. CASE answer.kind = "another_copy"
  <2>. DEFINE v == SaveCopy(o.book, L[o.book], Evidence(r, o.spine, ManualStatus))
              w == Decide(SiteOf[r], o.key, Decision("another_copy", None))
  <2>1. s = <<v, w>> /\ AnswerPart(j, answer) = {<<4, j>>} \cup {<<5, j>>}
    BY <1>10 DEF AnswerWrites, AnswerPart, SaveKinds
  <2>2. save(v)
    BY <1>10 DEF AnswerSave
  <2>3. decide(w)
    BY <1>10 DEF AnswerDecision
  <2>. HIDE DEF v, w, save, decide
  <2>. QED
    BY <1>4, <2>1, <2>2, <2>3
<1>. QED
  BY <1>5, <1>6, <1>7, <1>8, <1>9, <1>10

\* The plan of an apply is complete: each outcome has all its calls.
Complete(X, diff, answer, L) ==
    \A j \in DOMAIN diff :
        /\ diff[j].kind = "added" => <<1, j>> \in X
        /\ diff[j].kind = "unchanged" => <<2, j>> \in X
        /\ diff[j].kind = "corrected" => <<3, j>> \in X
        /\ <<5, j>> \in X /\ diff[j].reason = "ambiguous_location" => <<6, j>> \in X
        /\ answer # NoAnswer /\ Fits(diff[j], answer, L) => AnswerPart(j, answer) \subseteq X

\* The whole plan of an apply, and that none of its calls is missing.
LEMMA ApplyMarks ==
  ASSUME NEW m \in Nat, NEW L \in Libraries(m), NEW D, NEW r \in Reads, NEW answer,
         Answers(answer)
  PROVE  \E X : /\ Marked(ApplyWrites(r, answer, L, D), X, Diff(r, L, D), r, answer, L, m)
                /\ Complete(X, Diff(r, L, D), answer, L)
<1>. DEFINE diff == Diff(r, L, D)
            Of(kind) == {j \in DOMAIN diff : diff[j].kind = kind}
            Open == {j \in DOMAIN diff : diff[j].reason = "ambiguous_location"}
            Swept == {j \in DOMAIN diff : diff[j].reason \in SweptReasons}
            S == (OfPart(1, Of("added")) \cup OfPart(2, Of("unchanged")))
                   \cup OfPart(3, Of("corrected"))
            Q == OfPart(6, Open) \cup OfPart(7, Swept)
            settled == SettledWrites(r, L, D)
            queue == QueueWrites(r, answer, L, D)
            answered == {o \in ToSet(diff) : Fits(o, answer, L)}
            all == ApplyWrites(r, answer, L, D)
<1>1. Marked(settled, S, diff, r, answer, L, m)
  BY SettledMarks
<1>2. Marked(queue, Q, diff, r, answer, L, m)
  BY QueueMarks
<1>3. /\ ToSet(diff) = {diff[i] : i \in DOMAIN diff}
      /\ \A i, j \in DOMAIN diff : i # j => diff[i].spine # diff[j].spine
  BY DiffFacts
<1>4. all = settled \o (IF answer = NoAnswer THEN queue
                        ELSE IF answered = {} THEN <<>>
                        ELSE AnswerWrites(r, CHOOSE o \in answered : TRUE, answer, L) \o queue)
  BY DEF ApplyWrites
<1>5. \A j : diff[j].spine = diff[j].spine
  OBVIOUS
<1>6. ASSUME NEW j \in DOMAIN diff, Fits(diff[j], answer, L)
      PROVE  Marked(AnswerWrites(r, diff[j], answer, L), AnswerPart(j, answer), diff, r, answer, L, m)
  BY <1>6, AnswerMarks
<1>. HIDE DEF diff, settled, queue, all
<1>7. /\ \A x \in S : x[1] \in {1, 2, 3}
      /\ \A x \in Q : x[1] \in {6, 7}
  BY DEF OfPart
<1>8. /\ \A j \in DOMAIN diff : diff[j].kind = "added" => <<1, j>> \in S
      /\ \A j \in DOMAIN diff : diff[j].kind = "unchanged" => <<2, j>> \in S
      /\ \A j \in DOMAIN diff : diff[j].kind = "corrected" => <<3, j>> \in S
      /\ \A j \in DOMAIN diff : diff[j].reason = "ambiguous_location" => <<6, j>> \in Q
  BY DEF OfPart
<1>. HIDE DEF S, Q
<1>9. \A j : <<5, j>> \notin S /\ <<5, j>> \notin Q
  <2>1. \A j : <<5, j>>[1] = 5
    OBVIOUS
  <2>. QED
    BY <1>7, <2>1
<1>10. CASE answer = NoAnswer
  <2>1. all = settled \o queue
    BY <1>4, <1>10
  <2>2. Marked(all, S \cup Q, diff, r, answer, L, m)
    <3>1. \A x \in S, y \in Q : x[1] < y[1]
      BY <1>7
    <3>. QED
      BY <1>1, <1>2, <2>1, <3>1, MarkedJoin
  <2>3. Complete(S \cup Q, diff, answer, L)
    BY <1>8, <1>9, <1>10 DEF Complete
  <2>. QED
    BY <2>2, <2>3 DEF diff, all
<1>11. CASE answer # NoAnswer /\ answered = {}
  <2>1. all = settled \o <<>>
    BY <1>4, <1>11
  <2>2. Marked(all, S \cup {}, diff, r, answer, L, m)
    <3>1. Marked(<<>>, {}, diff, r, answer, L, m)
      BY NoneMarked
    <3>2. \A x \in S, y \in {} : x[1] < y[1]
      OBVIOUS
    <3>. QED
      BY <1>1, <2>1, <3>1, <3>2, MarkedJoin
  <2>3. \A j \in DOMAIN diff : ~Fits(diff[j], answer, L)
    BY <1>3, <1>11
  <2>4. Complete(S \cup {}, diff, answer, L)
    BY <1>8, <1>9, <2>3 DEF Complete
  <2>. QED
    BY <2>2, <2>4 DEF diff, all
<1>12. CASE answer # NoAnswer /\ answered # {}
  <2>1. PICK j \in DOMAIN diff : diff[j] = (CHOOSE o \in answered : TRUE) /\ Fits(diff[j], answer, L)
    <3>1. (CHOOSE o \in answered : TRUE) \in answered
      BY <1>12
    <3>. QED
      BY <1>3, <3>1
  <2>. DEFINE a == AnswerWrites(r, diff[j], answer, L)
              P == AnswerPart(j, answer)
  <2>2. all = settled \o (a \o queue)
    BY <1>4, <1>12, <2>1
  <2>3. Marked(a, P, diff, r, answer, L, m)
    BY <1>6, <2>1
  <2>4. \A x \in P : x[1] \in {4, 5} /\ x[2] = j
    BY DEF AnswerPart
  <2>. HIDE DEF a, P
  <2>5. Marked(a \o queue, P \cup Q, diff, r, answer, L, m)
    <3>1. \A x \in P, y \in Q : x[1] < y[1]
      BY <1>7, <2>4
    <3>. QED
      BY <1>2, <2>3, <3>1, MarkedJoin
  <2>6. Marked(all, S \cup (P \cup Q), diff, r, answer, L, m)
    <3>1. \A x \in S, y \in P \cup Q : x[1] < y[1]
      BY <1>7, <2>4
    <3>. QED
      BY <1>1, <2>2, <2>5, <3>1, MarkedJoin
  <2>7. \A i \in DOMAIN diff : Fits(diff[i], answer, L) => i = j
    <3>1. \A o : Fits(o, answer, L) => o.spine = answer.spine
      BY DEF Fits
    <3>. QED
      BY <1>3, <2>1, <3>1
  <2>8. Complete(S \cup (P \cup Q), diff, answer, L)
    BY <1>8, <1>9, <2>7 DEF Complete, P
  <2>. QED
    BY <2>6, <2>8 DEF diff, all
<1>. QED
  BY <1>10, <1>11, <1>12

-----------------------------------------------------------------------------
(* What a plan promises, whatever is carried out of it *)

\* Books that differ in their evidence only.
Like(x, y) ==
    /\ CopyIds(x) = CopyIds(y) /\ x.key = y.key
    /\ \A c \in CopyIds(y) : /\ x.copies[c].site = y.copies[c].site
                             /\ x.copies[c].status = y.copies[c].status
                             /\ x.copies[c].label = y.copies[c].label
                             /\ x.copies[c].lent = y.copies[c].lent

Touches(w) == w.op \in {"save", "save_copy"}
Queues(w)  == w.op \in {"ask", "close"}

\* "Another copy" and "wrong book": the answers that close a question.
ClosingKinds == {"another_copy", "wrong_book"}
Settles(w) == w.op = "decide" /\ w.decision.kind \in ClosingKinds

\* A call that saves a book of the library takes nothing away from it.
CallSound(w, L, kind) ==
    /\ Touches(w) => w.book \in DOMAIN L /\ CopyIds(w.aggregate) = CopyIds(L[w.book])
    /\ w.op = "save" => Keeps(L[w.book], w.aggregate, kind)
    /\ w.op = "save_copy" => w.aggregate = L[w.book]

\* What an earlier call leaves for a later one.
InOrder(v, w, L) ==
    /\ Touches(v) /\ Touches(w) /\ v.book = w.book =>
          v.op = "save" /\ Like(v.aggregate, L[w.book])
    /\ v.op = "delete" => ~Touches(w)
    /\ Queues(v) \/ Settles(v) => Queues(w)
    /\ Settles(v) /\ w.op = "ask" => ~(w.site = v.site /\ w.key = v.key)

SoundPlan(todo, L, kind) ==
    /\ \A i \in DOMAIN todo : CallSound(todo[i], L, kind)
    /\ \A i, j \in DOMAIN todo : i < j => InOrder(todo[i], todo[j], L)
    /\ \A i \in DOMAIN todo : Settles(todo[i]) =>
          \E j \in DOMAIN todo : j > i /\ todo[j] = CloseQuestion(todo[i].site, todo[i].key)

\* What puts a copy at a place does not go against a standing "no".
Unsuppressed(w, L, dec) ==
    /\ w.op = "save" =>
          \A c \in CopyIds(w.aggregate) :
              w.aggregate.copies[c].site # L[w.book].copies[c].site =>
                ~Suppresses(dec[w.aggregate.copies[c].site][w.aggregate.key])
    /\ w.op = "save_new" => ~Suppresses(dec[w.copy.site][w.key])
    /\ w.op = "save_copy" => ~Suppresses(dec[w.copy.site][w.aggregate.key])
    /\ w.op # "decide"

LEMMA SeenKeeps ==
  ASSUME NEW m \in Nat, NEW b \in BookRows(m), NEW c \in CopyIds(b), NEW p, NEW sighting,
         NEW w, Seen(b, c, p, sighting, w, m), NEW kind
  PROVE  /\ w \in BookRows(m) /\ CopyIds(w) = CopyIds(b) /\ w.key = b.key /\ Keeps(b, w, kind)
         /\ p = b.copies[c].site => Like(w, b)
         /\ \A d \in CopyIds(b) : w.copies[d].site \in {b.copies[d].site, p}
<1>1. \A d \in CopyIds(b) : b.copies[d].status \in Nat
  BY BookFields, CopyFields
<1>2. \A d \in CopyIds(b) : /\ w.copies[d].status = b.copies[d].status
                            /\ w.copies[d].label = b.copies[d].label
                            /\ w.copies[d].lent = b.copies[d].lent
                            /\ w.copies[d].site \in {b.copies[d].site, p}
                            /\ p = b.copies[c].site => w.copies[d].site = b.copies[d].site
  BY DEF Seen
<1>3. w \in BookRows(m) /\ CopyIds(w) = CopyIds(b) /\ w.key = b.key
  BY DEF Seen
<1>4. Keeps(b, w, kind)
  BY <1>1, <1>2, <1>3 DEF Keeps
<1>5. p = b.copies[c].site => Like(w, b)
  BY <1>2, <1>3 DEF Like
<1>. QED
  BY <1>2, <1>3, <1>4, <1>5

\* What each call of an applied read's plan is, by the part it belongs to.
Carries(w, part, r, o, answer, L) ==
    /\ part = 1 => w.op = "save_new"
    /\ part = 2 => w.op = "save" /\ Like(w.aggregate, L[w.book])
    /\ part \in {3, 4} /\ Touches(w) => w.book = o.book /\ Names(o, r, o.spine, L)
    /\ part = 3 => Touches(w) /\ o.kind = "corrected"
    /\ part = 4 => w.op \in {"save", "save_new", "save_copy"} /\ o.kind = "needs_decision"
    /\ part = 5 => /\ w.op = "decide" /\ w.site = SiteOf[r] /\ w.key = o.key
                   /\ o.spine = answer.spine
                   /\ Settles(w) => o.reason = "ambiguous_location"
    /\ part = 6 => /\ Queues(w) /\ w.site = SiteOf[r] /\ w.key = o.key
                   /\ o.reason = "ambiguous_location"
                   /\ o.spine = answer.spine => w = CloseQuestion(SiteOf[r], o.key)
    /\ part = 7 => w.op = "close"

\* Whatever its part, a call takes nothing from the book it saves.
LEMMA CarriedSound ==
  ASSUME NEW m \in Nat, NEW L \in Libraries(m), NEW D, NEW r \in Reads, NEW answer, NEW o, NEW kind,
         o.spine \in Nat, Classified(o, r, o.spine, L, D),
         NEW part \in Parts, NEW w, CarriesOut(w, part, r, o, answer, L)
  PROVE  Carries(w, part, r, o, answer, L) /\ CallSound(w, L, kind)
<1>. DEFINE sighting == <<r, o.spine>>
            site == SiteOf[r]
<1>1. site \in Sites /\ sighting \in Reads \X Nat /\ NoSite \notin Sites
  BY ClaimFacts, SitesAreTyped
<1>2. \A b \in DOMAIN L : L[b] \in BookRows(m)
  BY LibraryFields
<1>3. ASSUME NEW c, o.book \in DOMAIN L, c \in CopyIds(L[o.book])
      PROVE  LET w1 == RelinkCopy(L[o.book], c, site, sighting)
                 w2 == Observe(L[o.book], c, site, sighting)
             IN  /\ CopyIds(w1) = CopyIds(L[o.book]) /\ Keeps(L[o.book], w1, kind)
                 /\ CopyIds(w2) = CopyIds(L[o.book]) /\ Keeps(L[o.book], w2, kind)
                 /\ L[o.book].copies[c].site = site => Like(w2, L[o.book])
  <2>. DEFINE b == L[o.book]
              w1 == RelinkCopy(b, c, site, sighting)
              w2 == Observe(b, c, site, sighting)
              p == IF b.copies[c].site = NoSite THEN site ELSE b.copies[c].site
  <2>1. b \in BookRows(m) /\ c \in CopyIds(b)
    BY <1>2, <1>3
  <2>2. Seen(b, c, site, sighting, w1, m) /\ Seen(b, c, p, sighting, w2, m)
    BY <1>1, <2>1, ObserveFacts
  <2>3. b.copies[c].site = site => p = b.copies[c].site
    BY <1>1
  <2>. HIDE DEF b, w1, w2, p
  <2>4. CopyIds(w1) = CopyIds(b) /\ Keeps(b, w1, kind)
    BY <2>1, <2>2, SeenKeeps
  <2>5. CopyIds(w2) = CopyIds(b) /\ Keeps(b, w2, kind)
        /\ (p = b.copies[c].site => Like(w2, b))
    BY <2>1, <2>2, SeenKeeps
  <2>. QED
    BY <2>3, <2>4, <2>5 DEF b, w1, w2
<1>. HIDE DEF site, sighting
<1>4. ASSUME NEW c, o.book \in DOMAIN L, c \in CopyIds(L[o.book]),
             w = Save(o.book, RelinkCopy(L[o.book], c, site, sighting))
      PROVE  /\ w.op = "save" /\ Touches(w) /\ w.book = o.book /\ CallSound(w, L, kind)
  <2>1. w.op = "save" /\ w.book = o.book /\ w.aggregate = RelinkCopy(L[o.book], c, site, sighting)
    BY <1>4 DEF Save
  <2>. QED
    BY <1>3, <1>4, <2>1 DEF CallSound, Touches
<1>5. ASSUME o.book \in DOMAIN L, w = SaveCopy(o.book, L[o.book], Evidence(r, o.spine, ManualStatus))
      PROVE  w.op = "save_copy" /\ Touches(w) /\ w.book = o.book /\ CallSound(w, L, kind)
  <2>1. w.op = "save_copy" /\ w.book = o.book /\ w.aggregate = L[o.book]
    BY <1>5 DEF SaveCopy
  <2>. QED
    BY <1>5, <2>1 DEF CallSound, Touches
<1>6. ASSUME w.op \notin {"save", "save_copy"}
      PROVE  ~Touches(w) /\ CallSound(w, L, kind)
  BY <1>6 DEF Touches, CallSound
<1>7. ASSUME Fits(o, answer, L)
      PROVE  /\ o.spine = answer.spine /\ o.kind = "needs_decision"
             /\ answer.kind \in {"already_listed", "another_copy", "wrong_book"} =>
                   o.reason = "ambiguous_location" /\ Names(o, r, o.spine, L)
             /\ answer.kind = "already_listed" =>
                   ResolveCopy(L[o.book], answer.copy) \in CopyIds(L[o.book])
  <2>1. /\ o.spine = answer.spine
        /\ o.reason \in {"ambiguous_location", "new_book_unconfirmed"}
        /\ answer.kind \in {"already_listed", "another_copy", "wrong_book"}
              => o.reason = "ambiguous_location"
        /\ answer.kind = "already_listed" => ResolveCopy(L[o.book], answer.copy) # None
    BY <1>7 DEF Fits
  <2>2. /\ o.reason = "ambiguous_location" => o.kind = "needs_decision" /\ Names(o, r, o.spine, L)
        /\ o.reason = "new_book_unconfirmed" => o.kind = "needs_decision"
    BY ReasonFacts
  <2>3. o.book \in DOMAIN L =>
          ResolveCopy(L[o.book], answer.copy) \in CopyIds(L[o.book]) \cup {None}
    BY <1>2, ResolvedFacts
  <2>. QED
    BY <2>1, <2>2, <2>3 DEF Names
<1>8. CASE part = 1
  <2>1. w.op = "save_new"
    BY <1>8 DEF CarriesOut, SaveNew
  <2>. QED
    BY <1>6, <1>8, <2>1 DEF Carries
<1>9. CASE part = 2
  <2>1. o.kind = "unchanged" /\ w = Save(o.book, Observe(L[o.book], o.copy, site, sighting))
    BY <1>9 DEF CarriesOut, site, sighting
  <2>2. o.book \in DOMAIN L /\ o.copy \in CopyIds(L[o.book]) /\ L[o.book].copies[o.copy].site = site
    BY <2>1 DEF Classified, StandsHere, site
  <2>3. w.op = "save" /\ w.book = o.book /\ w.aggregate = Observe(L[o.book], o.copy, site, sighting)
    BY <2>1 DEF Save
  <2>4. CallSound(w, L, kind) /\ Like(w.aggregate, L[w.book])
    BY <1>3, <2>2, <2>3 DEF CallSound
  <2>. QED
    BY <1>9, <2>3, <2>4 DEF Carries
<1>10. CASE part = 3
  <2>1. o.kind = "corrected" /\ w = CorrectedWrite(r, o, L)
    BY <1>10 DEF CarriesOut
  <2>2. /\ Names(o, r, o.spine, L) /\ o.book \in DOMAIN L
        /\ o.reason = "relinked_by_decision" => o.copy \in CopyIds(L[o.book])
    BY <2>1 DEF Classified, Names
  <2>3. Touches(w) /\ w.book = o.book /\ CallSound(w, L, kind)
    <3>1. CASE o.reason = "relinked_by_decision"
      BY <1>4, <2>1, <2>2, <3>1 DEF CorrectedWrite, site, sighting
    <3>2. CASE o.reason # "relinked_by_decision"
      BY <1>5, <2>1, <2>2, <3>2 DEF CorrectedWrite
    <3>. QED
      BY <3>1, <3>2
  <2>. QED
    BY <1>10, <2>1, <2>2, <2>3 DEF Carries
<1>11. CASE part = 4
  <2>1. Fits(o, answer, L) /\ AnswerSave(w, r, o, answer, L)
    BY <1>11 DEF CarriesOut
  <2>2. /\ o.kind = "needs_decision"
        /\ answer.kind \in {"already_listed", "another_copy", "wrong_book"} =>
                   o.reason = "ambiguous_location" /\ Names(o, r, o.spine, L)
        /\ answer.kind = "already_listed" =>
                   ResolveCopy(L[o.book], answer.copy) \in CopyIds(L[o.book])
    BY <1>7, <2>1
  <2>3. CASE answer.kind = "confirm"
    <3>1. w.op = "save_new"
      BY <2>1, <2>3 DEF AnswerSave, SaveNew
    <3>. QED
      BY <1>6, <1>11, <2>2, <3>1 DEF Carries
  <2>4. CASE answer.kind = "already_listed"
    <3>1. w = Save(o.book, RelinkCopy(L[o.book], ResolveCopy(L[o.book], answer.copy), site, sighting))
      BY <2>1, <2>4 DEF AnswerSave, site, sighting
    <3>2. w.op = "save" /\ Touches(w) /\ w.book = o.book /\ CallSound(w, L, kind)
      BY <1>4, <2>2, <2>4, <3>1 DEF Names
    <3>. QED
      BY <1>11, <2>2, <2>4, <3>2 DEF Carries
  <2>5. CASE answer.kind = "another_copy"
    <3>1. w = SaveCopy(o.book, L[o.book], Evidence(r, o.spine, ManualStatus))
      BY <2>1, <2>5 DEF AnswerSave
    <3>2. w.op = "save_copy" /\ Touches(w) /\ w.book = o.book /\ CallSound(w, L, kind)
      BY <1>5, <2>2, <2>5, <3>1 DEF Names
    <3>. QED
      BY <1>11, <2>2, <2>5, <3>2 DEF Carries
  <2>. QED
    BY <2>1, <2>3, <2>4, <2>5 DEF AnswerSave
<1>12. CASE part = 5
  <2>1. Fits(o, answer, L) /\ AnswerDecision(w, r, o, answer, L)
    BY <1>12 DEF CarriesOut
  <2>2. /\ o.spine = answer.spine
        /\ answer.kind \in {"already_listed", "another_copy", "wrong_book"} =>
              o.reason = "ambiguous_location"
    BY <1>7, <2>1
  <2>3. /\ w.op = "decide" /\ w.site = SiteOf[r] /\ w.key = o.key
        /\ w.decision.kind = IF answer.kind = "reject" THEN "rejected" ELSE answer.kind
    BY <2>1 DEF AnswerDecision, Decide, Decision
  <2>4. Settles(w) => o.reason = "ambiguous_location"
    BY <2>2, <2>3 DEF Settles, ClosingKinds
  <2>. QED
    BY <1>6, <1>12, <2>2, <2>3, <2>4 DEF Carries
<1>13. CASE part = 6
  <2>1. /\ o.reason = "ambiguous_location"
        /\ w = IF o.spine = answer.spine THEN CloseQuestion(SiteOf[r], o.key)
               ELSE Ask(SiteOf[r], o.key, r)
    BY <1>13 DEF CarriesOut
  <2>2. w.op \in {"ask", "close"} /\ w.site = SiteOf[r] /\ w.key = o.key
    BY <2>1 DEF CloseQuestion, Ask
  <2>. QED
    BY <1>6, <1>13, <2>1, <2>2 DEF Carries, Queues
<1>14. CASE part = 7
  <2>1. w.op = "close"
    BY <1>14 DEF CarriesOut, CloseQuestion
  <2>. QED
    BY <1>6, <1>14, <2>1 DEF Carries
<1>. QED
  BY <1>8, <1>9, <1>10, <1>11, <1>12, <1>13, <1>14 DEF Parts

\* The plan of an apply is sound.
LEMMA ApplySound ==
  ASSUME NEW m \in Nat, NEW L \in Libraries(m), NEW D, NEW r \in Reads, NEW answer,
         Answers(answer), NEW kind
  PROVE  LET todo == ApplyWrites(r, answer, L, D)
         IN  /\ todo \in Seq(StoreCalls(m)) /\ SoundPlan(todo, L, kind)
             /\ \A i \in DOMAIN todo : todo[i].op = "ask" =>
                   todo[i].site = SiteOf[r] /\ D[todo[i].key].kind \notin ClosingKinds
<1>. DEFINE diff == Diff(r, L, D)
            todo == ApplyWrites(r, answer, L, D)
            key(j) == Claims[r][diff[j].spine].key
<1>1. PICK X : Marked(todo, X, diff, r, answer, L, m) /\ Complete(X, diff, answer, L)
  BY ApplyMarks
<1>2. /\ \A j \in DOMAIN diff : /\ Classified(diff[j], r, diff[j].spine, L, D)
                                /\ diff[j].spine \in Nat
      /\ \A i, j \in DOMAIN diff : i # j => key(i) # key(j)
  BY DiffFacts
<1>. HIDE DEF diff, todo
<1>3. PICK f \in [DOMAIN todo -> X] :
          /\ \A i \in DOMAIN todo : /\ f[i][2] \in DOMAIN diff
                                    /\ CarriesOut(todo[i], f[i][1], r, diff[f[i][2]], answer, L)
          /\ \A i, j \in DOMAIN todo : i < j => Precedes(f[i], f[j])
          /\ \A x \in X : \E i \in DOMAIN todo : f[i] = x
  BY <1>1 DEF Marked
<1>4. todo \in Seq(StoreCalls(m)) /\ X \subseteq Marks
  BY <1>1 DEF Marked
<1>5. DOMAIN todo = 1 .. Len(todo) /\ Len(todo) \in Nat
  BY <1>4, LenProperties
<1>. DEFINE part(i) == f[i][1]
            n(i) == f[i][2]
            o(i) == diff[n(i)]
<1>6. \A i \in DOMAIN todo : /\ part(i) \in Parts /\ n(i) \in DOMAIN diff /\ f[i] = <<part(i), n(i)>>
                             /\ f[i] \in X
  BY <1>3, <1>4 DEF Marks
<1>7. ASSUME NEW i \in DOMAIN todo
      PROVE  /\ Carries(todo[i], part(i), r, o(i), answer, L) /\ CallSound(todo[i], L, kind)
             /\ Classified(o(i), r, o(i).spine, L, D)
  <2>. DEFINE p == part(i)
              q == o(i)
              w == todo[i]
  <2>1. p \in Parts /\ CarriesOut(w, p, r, q, answer, L) /\ q.spine \in Nat
        /\ Classified(q, r, q.spine, L, D)
    BY <1>2, <1>3, <1>6
  <2>. HIDE DEF p, q, w
  <2>2. Carries(w, p, r, q, answer, L) /\ CallSound(w, L, kind)
    BY <2>1, CarriedSound
  <2>. QED
    BY <2>1, <2>2 DEF p, q, w
<1>8. \A i \in DOMAIN todo : o(i).reason = "ambiguous_location" =>
          /\ o(i).key = key(n(i)) /\ D[o(i).key].kind \notin ClosingKinds
  <2>1. ASSUME NEW i \in DOMAIN todo, o(i).reason = "ambiguous_location"
        PROVE  o(i).key = key(n(i)) /\ D[o(i).key].kind \notin ClosingKinds
    <3>. DEFINE q == o(i)
    <3>1. Classified(q, r, q.spine, L, D)
      BY <1>7
    <3>. HIDE DEF q
    <3>2. q.reason = "ambiguous_location" =>
            /\ q.kind = "needs_decision" /\ Names(q, r, q.spine, L)
            /\ D[q.key].kind \notin {"another_copy", "rejected", "wrong_book"}
      BY <3>1, ReasonFacts
    <3>. QED
      BY <2>1, <3>2 DEF q, Names, ClosingKinds
  <2>. QED
    BY <2>1
<1>9. ASSUME NEW i \in DOMAIN todo, NEW j \in DOMAIN todo, i < j
      PROVE  /\ part(i) < part(j) \/ (part(i) = part(j) /\ n(i) # n(j))
             /\ part(i) \in 1 .. 7 /\ part(j) \in 1 .. 7
  BY <1>3, <1>6, <1>9 DEF Precedes, Parts
<1>. HIDE DEF part, n
<1>10. ASSUME NEW i \in DOMAIN todo
       PROVE  /\ Touches(todo[i]) => part(i) \in {2, 3, 4}
              /\ part(i) = 2 => todo[i].op = "save" /\ Like(todo[i].aggregate, L[todo[i].book])
              /\ part(i) \in {3, 4} /\ Touches(todo[i]) =>
                    todo[i].book = o(i).book /\ Names(o(i), r, o(i).spine, L)
              /\ todo[i].op # "delete"
              /\ Queues(todo[i]) <=> part(i) \in {6, 7}
              /\ todo[i].op = "ask" => part(i) = 6
              /\ Settles(todo[i]) => /\ part(i) = 5 /\ o(i).spine = answer.spine
                                     /\ o(i).reason = "ambiguous_location"
                                     /\ todo[i].site = SiteOf[r] /\ todo[i].key = o(i).key
              /\ part(i) = 5 => o(i).spine = answer.spine
              /\ part(i) = 6 => /\ todo[i].site = SiteOf[r] /\ todo[i].key = o(i).key
                                /\ o(i).reason = "ambiguous_location"
                                /\ o(i).spine = answer.spine =>
                                      todo[i] = CloseQuestion(SiteOf[r], o(i).key)
              /\ part(i) = 3 => o(i).kind = "corrected"
              /\ part(i) = 4 => o(i).kind = "needs_decision"
  <2>1. Carries(todo[i], part(i), r, o(i), answer, L)
    BY <1>7
  <2>2. part(i) \in Parts
    BY <1>6
  <2>. HIDE DEF o
  <2>3. /\ part(i) = 1 => todo[i].op = "save_new"
        /\ part(i) = 2 => todo[i].op = "save"
        /\ part(i) = 3 => Touches(todo[i])
        /\ part(i) = 4 => todo[i].op \in {"save", "save_new", "save_copy"}
        /\ part(i) = 5 => todo[i].op = "decide"
        /\ part(i) = 6 => Queues(todo[i])
        /\ part(i) = 7 => todo[i].op = "close"
    BY <2>1, <2>2 DEF Carries
  <2>4. /\ Touches(todo[i]) => part(i) \in {2, 3, 4}
        /\ todo[i].op # "delete"
        /\ Queues(todo[i]) <=> part(i) \in {6, 7}
        /\ todo[i].op = "ask" => part(i) = 6
        /\ Settles(todo[i]) => part(i) = 5
    BY <2>2, <2>3 DEF Parts, Touches, Queues, Settles
  <2>5. /\ part(i) = 2 => todo[i].op = "save" /\ Like(todo[i].aggregate, L[todo[i].book])
        /\ part(i) \in {3, 4} /\ Touches(todo[i]) =>
              todo[i].book = o(i).book /\ Names(o(i), r, o(i).spine, L)
        /\ part(i) = 5 => /\ todo[i].site = SiteOf[r] /\ todo[i].key = o(i).key
                          /\ o(i).spine = answer.spine
                          /\ Settles(todo[i]) => o(i).reason = "ambiguous_location"
        /\ part(i) = 6 => /\ todo[i].site = SiteOf[r] /\ todo[i].key = o(i).key
                          /\ o(i).reason = "ambiguous_location"
                          /\ o(i).spine = answer.spine =>
                                todo[i] = CloseQuestion(SiteOf[r], o(i).key)
        /\ part(i) = 3 => o(i).kind = "corrected"
        /\ part(i) = 4 => o(i).kind = "needs_decision"
    BY <2>1 DEF Carries
  <2>. QED
    BY <2>4, <2>5
<1>11. ASSUME NEW i \in DOMAIN todo, NEW j \in DOMAIN todo, i < j
       PROVE  InOrder(todo[i], todo[j], L)
  <2>1. ASSUME Touches(todo[i]), Touches(todo[j]), todo[i].book = todo[j].book
        PROVE  todo[i].op = "save" /\ Like(todo[i].aggregate, L[todo[j].book])
    <3>1. CASE part(i) = 2
      BY <1>10, <2>1, <3>1
    <3>2. CASE part(i) # 2
      <4>1. part(i) \in {3, 4} /\ part(j) \in {3, 4} /\ part(i) <= part(j)
        BY <1>9, <1>10, <1>11, <2>1, <3>2
      <4>2. o(i).book = o(j).book /\ Names(o(i), r, o(i).spine, L) /\ Names(o(j), r, o(j).spine, L)
        BY <1>10, <2>1, <4>1
      <4>3. key(n(i)) = key(n(j))
        BY <4>2 DEF Names
      <4>4. n(i) = n(j)
        BY <1>2, <1>6, <4>3
      <4>5. part(i) = 3 /\ part(j) = 4
        BY <1>9, <1>11, <4>1, <4>4
      <4>6. o(i).kind = "corrected" /\ o(j).kind = "needs_decision"
        BY <1>10, <4>5
      <4>. QED
        BY <4>4, <4>6
    <3>. QED
      BY <3>1, <3>2
  <2>2. Queues(todo[i]) => Queues(todo[j])
    <3>1. part(i) \in {6, 7} => part(j) \in {6, 7}
      BY <1>9, <1>11
    <3>. QED
      BY <1>10, <3>1
  <2>3. ASSUME Settles(todo[i])
        PROVE  Queues(todo[j])
               /\ (todo[j].op = "ask" => ~(todo[j].site = todo[i].site /\ todo[j].key = todo[i].key))
    <3>1. /\ part(i) = 5 /\ o(i).spine = answer.spine /\ o(i).reason = "ambiguous_location"
          /\ todo[i].key = o(i).key
      BY <1>10, <2>3
    <3>2. part(j) # 5
      <4>1. SUFFICES ASSUME part(j) = 5
                     PROVE  FALSE
        OBVIOUS
      <4>2. o(j).spine = answer.spine
        BY <1>10, <4>1
      <4>3. key(n(i)) = key(n(j))
        BY <3>1, <4>2
      <4>4. n(i) = n(j)
        BY <1>2, <1>6, <4>3
      <4>. QED
        BY <1>9, <1>11, <3>1, <4>1, <4>4
    <3>3. part(j) \in {6, 7}
      BY <1>9, <1>11, <3>1, <3>2
    <3>4. ASSUME todo[j].op = "ask", todo[j].key = todo[i].key
          PROVE  FALSE
      <4>1. /\ part(j) = 6 /\ o(j).reason = "ambiguous_location" /\ todo[j].key = o(j).key
            /\ o(j).spine = answer.spine => todo[j] = CloseQuestion(SiteOf[r], o(j).key)
        BY <1>10, <3>4
      <4>2. key(n(i)) = key(n(j))
        BY <1>8, <3>1, <3>4, <4>1
      <4>3. n(i) = n(j)
        BY <1>2, <1>6, <4>2
      <4>4. todo[j] = CloseQuestion(SiteOf[r], o(j).key)
        BY <3>1, <4>1, <4>3
      <4>. QED
        BY <3>4, <4>4 DEF CloseQuestion
    <3>. QED
      BY <1>10, <3>3, <3>4
  <2>. QED
    BY <1>10, <2>1, <2>2, <2>3 DEF InOrder
<1>12. ASSUME NEW i \in DOMAIN todo, Settles(todo[i])
       PROVE  \E j \in DOMAIN todo : j > i /\ todo[j] = CloseQuestion(todo[i].site, todo[i].key)
  <2>1. /\ part(i) = 5 /\ o(i).spine = answer.spine /\ o(i).reason = "ambiguous_location"
        /\ todo[i].site = SiteOf[r] /\ todo[i].key = o(i).key
    BY <1>10, <1>12
  <2>2. <<6, n(i)>> \in X
    <3>1. <<5, n(i)>> \in X /\ n(i) \in DOMAIN diff
      BY <1>6, <2>1
    <3>. QED
      BY <1>1, <2>1, <3>1 DEF Complete
  <2>3. PICK j \in DOMAIN todo : f[j] = <<6, n(i)>>
    BY <1>3, <2>2
  <2>4. part(j) = 6 /\ n(j) = n(i)
    BY <2>3 DEF part, n
  <2>5. todo[j] = CloseQuestion(SiteOf[r], o(i).key)
    BY <1>10, <2>1, <2>4
  <2>6. j > i
    <3>1. i # j
      BY <2>1, <2>4
    <3>2. ~(j < i)
      BY <1>9, <2>1, <2>4
    <3>. QED
      BY <1>5, <3>1, <3>2
  <2>. QED
    BY <2>1, <2>5, <2>6
<1>13. SoundPlan(todo, L, kind)
  BY <1>7, <1>11, <1>12 DEF SoundPlan
<1>14. \A i \in DOMAIN todo : todo[i].op = "ask" =>
          todo[i].site = SiteOf[r] /\ D[todo[i].key].kind \notin ClosingKinds
  BY <1>8, <1>10
<1>. QED
  BY <1>4, <1>13, <1>14 DEF todo

\* Applied without an answer, a read puts nothing where a decision says "no".
LEMMA ApplyUnsuppressed ==
  ASSUME NEW m \in Nat, NEW L \in Libraries(m), NEW dec, NEW r \in Reads
  PROVE  LET todo == ApplyWrites(r, NoAnswer, L, dec[SiteOf[r]])
         IN  \A i \in DOMAIN todo : Unsuppressed(todo[i], L, dec)
<1>. DEFINE D == dec[SiteOf[r]]
            diff == Diff(r, L, D)
            todo == ApplyWrites(r, NoAnswer, L, D)
<1>0. Answers(NoAnswer) /\ NoAnswer.kind = "none"
  BY DEF Answers, NoAnswer
<1>1. PICK X : Marked(todo, X, diff, r, NoAnswer, L, m)
  BY <1>0, ApplyMarks
<1>2. \A j \in DOMAIN diff : /\ Classified(diff[j], r, diff[j].spine, L, D)
                             /\ diff[j].spine \in Nat
  BY DiffFacts
<1>. HIDE DEF diff, todo
<1>3. ASSUME NEW i \in DOMAIN todo
      PROVE  Unsuppressed(todo[i], L, dec)
  <2>1. PICK j \in DOMAIN diff, part \in Parts : CarriesOut(todo[i], part, r, diff[j], NoAnswer, L)
    <3>1. PICK f \in [DOMAIN todo -> X] :
              \A k \in DOMAIN todo : /\ f[k][2] \in DOMAIN diff
                                     /\ CarriesOut(todo[k], f[k][1], r, diff[f[k][2]], NoAnswer, L)
      BY <1>1 DEF Marked
    <3>2. X \subseteq Marks
      BY <1>1 DEF Marked
    <3>3. f[i][1] \in Parts
      BY <3>1, <3>2 DEF Marks
    <3>. QED
      BY <3>1, <3>3
  <2>. DEFINE o == diff[j]
              w == todo[i]
              site == SiteOf[r]
              sighting == <<r, o.spine>>
  <2>2. /\ CarriesOut(w, part, r, o, NoAnswer, L) /\ Classified(o, r, o.spine, L, D) /\ o.spine \in Nat
        /\ site \in Sites /\ sighting \in Reads \X Nat /\ NoSite \notin Sites
    BY <1>2, <2>1, ClaimFacts, SitesAreTyped
  <2>. HIDE DEF o, w
  <2>3. \A b \in DOMAIN L : L[b] \in BookRows(m)
    BY LibraryFields
  <2>4. ~Fits(o, NoAnswer, L)
    BY <1>0 DEF Fits
  <2>5. ASSUME o.kind = "added", w = SaveNew(o.key, Evidence(r, o.spine, ManualStatus), r)
        PROVE  Unsuppressed(w, L, dec)
    <3>1. ~Suppresses(D[o.key])
      BY <2>2, <2>5 DEF Classified, Unnamed
    <3>2. w.op = "save_new" /\ w.key = o.key /\ w.copy = Evidence(r, o.spine, ManualStatus)
      BY <2>5 DEF SaveNew
    <3>3. w.copy.site = site
      BY <3>2 DEF Evidence, Copy
    <3>. QED
      BY <3>1, <3>2, <3>3 DEF Unsuppressed
  <2>6. ASSUME o.kind = "unchanged",
               w = Save(o.book, Observe(L[o.book], o.copy, SiteOf[r], <<r, o.spine>>))
        PROVE  Unsuppressed(w, L, dec)
    <3>. DEFINE b == L[o.book]
                v == Observe(b, o.copy, site, sighting)
                p == IF b.copies[o.copy].site = NoSite THEN site ELSE b.copies[o.copy].site
    <3>1. /\ b \in BookRows(m) /\ o.copy \in CopyIds(b) /\ b.copies[o.copy].site = site
      BY <2>2, <2>3, <2>6 DEF Classified, StandsHere
    <3>2. Seen(b, o.copy, p, sighting, v, m)
      BY <2>2, <3>1, ObserveFacts
    <3>3. p = b.copies[o.copy].site
      BY <2>2, <3>1
    <3>4. w.op = "save" /\ w.book = o.book /\ w.aggregate = v
      BY <2>6 DEF Save
    <3>. HIDE DEF b, p, v, sighting
    <3>5. CopyIds(v) = CopyIds(b) /\ Keeps(b, v, "apply") /\ Like(v, b)
      BY <3>1, <3>2, <3>3, SeenKeeps
    <3>6. \A c \in CopyIds(v) : v.copies[c].site = b.copies[c].site
      BY <3>5 DEF Like
    <3>. QED
      BY <3>4, <3>6 DEF Unsuppressed, b
  <2>7. ASSUME o.kind = "corrected", w = CorrectedWrite(r, o, L)
        PROVE  Unsuppressed(w, L, dec)
    <3>1. /\ o.book \in DOMAIN L /\ L[o.book].key = o.key
          /\ o.reason = "relinked_by_decision" => o.copy \in CopyIds(L[o.book])
          /\ ~Suppresses(D[o.key])
      BY <2>2, <2>7 DEF Classified, Names
    <3>2. CASE o.reason = "relinked_by_decision"
      <4>. DEFINE b == L[o.book]
                  v == RelinkCopy(b, o.copy, site, sighting)
      <4>1. b \in BookRows(m) /\ o.copy \in CopyIds(b) /\ b.key = o.key
        BY <2>3, <3>1, <3>2
      <4>2. Seen(b, o.copy, site, sighting, v, m)
        BY <2>2, <4>1, ObserveFacts
      <4>3. w.op = "save" /\ w.book = o.book /\ w.aggregate = v
        BY <2>7, <3>2 DEF CorrectedWrite, Save
      <4>. HIDE DEF b, v, sighting
      <4>4. /\ CopyIds(v) = CopyIds(b) /\ v.key = b.key /\ Keeps(b, v, "apply")
            /\ \A d \in CopyIds(b) : v.copies[d].site \in {b.copies[d].site, site}
        BY <4>1, <4>2, SeenKeeps
      <4>. QED
        BY <3>1, <4>1, <4>3, <4>4 DEF Unsuppressed, b
    <3>3. CASE o.reason # "relinked_by_decision"
      <4>1. w.op = "save_copy" /\ w.aggregate = L[o.book] /\ w.copy = Evidence(r, o.spine, ManualStatus)
        BY <2>7, <3>3 DEF CorrectedWrite, SaveCopy
      <4>2. w.copy.site = site
        BY <4>1 DEF Evidence, Copy
      <4>. QED
        BY <3>1, <4>1, <4>2 DEF Unsuppressed
    <3>. QED
      BY <3>2, <3>3
  <2>8. w.op \in {"ask", "close"} => Unsuppressed(w, L, dec)
    BY DEF Unsuppressed
  <2>9. w = CloseQuestion(SiteOf[r], o.key) \/ w = Ask(SiteOf[r], o.key, r)
          => Unsuppressed(w, L, dec)
    BY <2>8 DEF CloseQuestion, Ask
  <2>10. Unsuppressed(w, L, dec)
    BY <2>2, <2>4, <2>5, <2>6, <2>7, <2>9 DEF CarriesOut
  <2>. QED
    BY <2>10 DEF w
<1>. QED
  BY <1>3 DEF todo, D

\* What remains of a sound plan is one.
LEMMA SoundTail ==
  ASSUME NEW S, NEW todo \in Seq(S), todo # <<>>, NEW L, NEW kind, SoundPlan(todo, L, kind)
  PROVE  SoundPlan(Tail(todo), L, kind)
<1>. DEFINE rest == Tail(todo)
<1>1. /\ DOMAIN todo = 1 .. Len(todo) /\ Len(todo) \in Nat /\ DOMAIN rest = 1 .. Len(todo) - 1
      /\ \A i \in DOMAIN rest : i + 1 \in DOMAIN todo /\ rest[i] = todo[i + 1]
      /\ \A i \in DOMAIN todo : i = 1 \/ (i - 1 \in DOMAIN rest /\ rest[i - 1] = todo[i])
  BY TailOf
<1>. HIDE DEF rest
<1>2. \A i \in DOMAIN rest : CallSound(rest[i], L, kind)
  BY <1>1 DEF SoundPlan
<1>3. ASSUME NEW i \in DOMAIN rest, NEW j \in DOMAIN rest, i < j
      PROVE  InOrder(rest[i], rest[j], L)
  <2>1. i + 1 \in DOMAIN todo /\ j + 1 \in DOMAIN todo /\ rest[i] = todo[i + 1] /\ rest[j] = todo[j + 1]
    BY <1>1
  <2>2. i + 1 < j + 1
    BY <1>1, <1>3
  <2>. QED
    BY <2>1, <2>2 DEF SoundPlan
<1>4. ASSUME NEW i \in DOMAIN rest, Settles(rest[i])
      PROVE  \E j \in DOMAIN rest : j > i /\ rest[j] = CloseQuestion(rest[i].site, rest[i].key)
  <2>1. i + 1 \in DOMAIN todo /\ rest[i] = todo[i + 1]
    BY <1>1
  <2>2. PICK j \in DOMAIN todo : j > i + 1 /\ todo[j] = CloseQuestion(rest[i].site, rest[i].key)
    BY <1>4, <2>1 DEF SoundPlan
  <2>3. j # 1 /\ j - 1 > i
    BY <1>1, <2>2
  <2>4. j - 1 \in DOMAIN rest /\ rest[j - 1] = todo[j]
    BY <1>1, <2>3
  <2>. QED
    BY <2>2, <2>3, <2>4
<1>5. SoundPlan(rest, L, kind)
  BY <1>2, <1>3, <1>4 DEF SoundPlan
<1>. QED
  BY <1>5 DEF rest

\* One call alone is a plan.
LEMMA OneCall ==
  ASSUME NEW m, NEW w \in StoreCalls(m), NEW L, NEW kind, CallSound(w, L, kind), ~Settles(w)
  PROVE  <<w>> \in Seq(StoreCalls(m)) /\ SoundPlan(<<w>>, L, kind)
<1>. DEFINE s == <<w>>
<1>1. s \in Seq(StoreCalls(m)) /\ DOMAIN s = {1} /\ s[1] = w
  OBVIOUS
<1>. HIDE DEF s
<1>2. SoundPlan(s, L, kind)
  BY <1>1 DEF SoundPlan
<1>. QED
  BY <1>1, <1>2 DEF s

\* The hand edits of one book.
LEMMA EditPlan ==
  ASSUME NEW m \in Nat, NEW L \in Libraries(m), NEW b \in DOMAIN L, NEW kind
  PROVE  /\ \A w : Edits(L[b], w, m, kind) =>
               <<Save(b, w)>> \in Seq(StoreCalls(m)) /\ SoundPlan(<<Save(b, w)>>, L, kind)
         /\ \A x \in CopyType :
               /\ <<SaveCopy(b, L[b], x)>> \in Seq(StoreCalls(m))
               /\ SoundPlan(<<SaveCopy(b, L[b], x)>>, L, kind)
<1>1. b \in 1 .. m /\ L[b] \in BookRows(m)
  BY LibraryFields
<1>2. ASSUME NEW w, Edits(L[b], w, m, kind)
      PROVE  <<Save(b, w)>> \in Seq(StoreCalls(m)) /\ SoundPlan(<<Save(b, w)>>, L, kind)
  <2>. DEFINE c == Save(b, w)
  <2>1. w \in BookRows(m) /\ CopyIds(w) = CopyIds(L[b]) /\ Keeps(L[b], w, kind)
    BY <1>2 DEF Edits
  <2>2. c \in StoreCalls(m)
    BY <1>1, <2>1, CallIntro
  <2>3. c.op = "save" /\ c.book = b /\ c.aggregate = w
    BY DEF Save
  <2>. HIDE DEF c
  <2>4. CallSound(c, L, kind) /\ ~Settles(c)
    BY <2>1, <2>3 DEF CallSound, Settles, Touches
  <2>5. <<c>> \in Seq(StoreCalls(m)) /\ SoundPlan(<<c>>, L, kind)
    BY <2>2, <2>4, OneCall
  <2>. QED
    BY <2>5 DEF c
<1>3. ASSUME NEW x \in CopyType
      PROVE  /\ <<SaveCopy(b, L[b], x)>> \in Seq(StoreCalls(m))
             /\ SoundPlan(<<SaveCopy(b, L[b], x)>>, L, kind)
  <2>. DEFINE c == SaveCopy(b, L[b], x)
  <2>2. c \in StoreCalls(m)
    BY <1>1, CallIntro
  <2>3. c.op = "save_copy" /\ c.book = b /\ c.aggregate = L[b]
    BY DEF SaveCopy
  <2>. HIDE DEF c
  <2>4. CallSound(c, L, kind) /\ ~Settles(c)
    BY <2>3 DEF CallSound, Settles, Touches
  <2>5. <<c>> \in Seq(StoreCalls(m)) /\ SoundPlan(<<c>>, L, kind)
    BY <2>2, <2>4, OneCall
  <2>. QED
    BY <2>5 DEF c
<1>. QED
  BY <1>2, <1>3

-----------------------------------------------------------------------------
(* Taking a finding back, and deleting a book *)

LEMMA ClassifyBook ==
  ASSUME NEW m \in Nat, NEW L \in Libraries(m), NEW D, NEW r \in Reads, NEW spine
  PROVE  Classify(r, spine, L, D).book \in DOMAIN L \cup {None}
<1>. DEFINE key == Claims[r][spine].key
            b == BookNamed(key, L)
            o == ClassifyByKey(r, spine, L, D)
            P == SightedHere(r, spine, L)
<1>1. b \in DOMAIN L \cup {None}
  BY NamedFacts
<1>2. o.book \in {b, None}
  BY DEF ClassifyByKey, ClassifyElsewhere, Outcome
<1>3. CASE P = {}
  <2>1. Classify(r, spine, L, D) = o
    BY <1>3 DEF Classify
  <2>. QED
    BY <1>1, <1>2, <2>1
<1>4. CASE P # {}
  <2>1. Classify(r, spine, L, D).kind = "unchanged"
    BY <1>4 DEF Classify, Outcome
  <2>. QED
    BY <2>1, ClassifyFacts DEF Classified, StandsHere
<1>. QED
  BY <1>3, <1>4

\* The outcome of a claim, ignored or not: the book it names, if it does.
LEMMA OutcomeFacts ==
  ASSUME NEW m \in Nat, NEW L \in Libraries(m), NEW D, NEW r \in Reads, NEW spine,
         Claims[r][spine].key \in Keys, Claims[r][spine].key # NoKey
  PROVE  LET o == OutcomeOf(r, spine, L, D)
         IN  /\ o.key \in Keys /\ o.book \in DOMAIN L \cup {None}
             /\ o.reason = "ambiguous_location" =>
                   o.book \in DOMAIN L /\ CopiesAt(L[o.book], SiteOf[r]) = {}
<1>. DEFINE key == Claims[r][spine].key
            c == Classify(r, spine, L, D)
            o == OutcomeOf(r, spine, L, D)
<1>1. CASE spine # Primary(r, key)
  <2>1. o = Outcome("ignored", "duplicate_within_depth", spine, key, None, None)
    BY <1>1 DEF OutcomeOf
  <2>. QED
    BY <2>1 DEF Outcome
<1>2. CASE spine = Primary(r, key)
  <2>1. o = c
    BY <1>2 DEF OutcomeOf
  <2>2. Classified(c, r, spine, L, D) /\ c.book \in DOMAIN L \cup {None}
    BY ClassifyFacts, ClassifyBook
  <2>. HIDE DEF c
  <2>3. c.key \in Keys
    <3>1. CASE c.kind = "unchanged"
      <4>1. c.book \in DOMAIN L /\ c.key = L[c.book].key
        BY <2>2, <3>1 DEF Classified, StandsHere
      <4>. QED
        BY <4>1, LibraryFields, BookFields
    <3>2. CASE c.kind # "unchanged"
      BY <2>2, <3>2, ReasonFacts
    <3>. QED
      BY <3>1, <3>2
  <2>4. ASSUME c.reason = "ambiguous_location"
        PROVE  c.book \in DOMAIN L /\ CopiesAt(L[c.book], SiteOf[r]) = {}
    <3>1. c.kind = "needs_decision" /\ Names(c, r, spine, L)
      BY <2>2, <2>4, ReasonFacts
    <3>2. c.book \in DOMAIN L /\ c.book = BookNamed(key, L) /\ c.book # None
      BY <3>1, LibraryFields DEF Names
    <3>3. Unseen(r, spine, L)
      BY <2>2, <3>1 DEF Classified
    <3>. QED
      BY <3>2, <3>3 DEF Unseen
  <2>. QED
    BY <2>1, <2>2, <2>3, <2>4
<1>. QED
  BY <1>1, <1>2

LEMMA Tripled == \A u, v, w : <<u, v, w>> = <<u, v>> \o <<w>>
<1>1. ASSUME NEW u, NEW v, NEW w
      PROVE  <<u, v, w>> = <<u, v>> \o <<w>>
  <2>. DEFINE S == {u, v, w}
              a == <<u, v>>
              b == <<w>>
              c == <<u, v, w>>
  <2>1. /\ a \in Seq(S) /\ b \in Seq(S) /\ c \in Seq(S)
        /\ Len(a) = 2 /\ Len(b) = 1 /\ Len(c) = 3
        /\ a[1] = u /\ a[2] = v /\ b[1] = w /\ c[1] = u /\ c[2] = v /\ c[3] = w
    OBVIOUS
  <2>. HIDE DEF a, b, c, S
  <2>2. /\ a \o b \in Seq(S) /\ Len(a \o b) = 3
        /\ \A i \in 1 .. 3 : (a \o b)[i] = IF i <= 2 THEN a[i] ELSE b[i - 2]
    <3>1. /\ a \o b \in Seq(S) /\ Len(a \o b) = Len(a) + Len(b)
          /\ \A i \in 1 .. Len(a) + Len(b) :
                (a \o b)[i] = IF i <= Len(a) THEN a[i] ELSE b[i - Len(a)]
      BY <2>1, ConcatProperties
    <3>2. Len(a) + Len(b) = 3
      BY <2>1
    <3>. QED
      BY <2>1, <3>1, <3>2
  <2>3. \A i \in 1 .. 3 : (a \o b)[i] = c[i]
    <3>1. 3 - 2 = 1 /\ 1 .. 3 = {1, 2, 3} /\ ~(3 <= 2) /\ 1 <= 2 /\ 2 <= 2
      OBVIOUS
    <3>. QED
      BY <2>1, <2>2, <3>1
  <2>4. a \o b = c
    BY <2>1, <2>2, <2>3, SeqEqual
  <2>. QED
    BY <2>4 DEF a, b, c
<1>. QED
  BY <1>1

\* The calls that take a finding back: the decision, first; then what undoes
\* the record; the question closed, last.
LEMMA RetractSound ==
  ASSUME NEW m \in Nat, NEW L \in Libraries(m), NEW D, NEW r \in Reads, NEW spine, NEW kind,
         Claims[r][spine].key \in Keys, Claims[r][spine].key # NoKey
  PROVE  LET o == OutcomeOf(r, spine, L, D)
             todo == RetractWrites(r, o, L)
         IN  /\ todo \in Seq(StoreCalls(m)) /\ SoundPlan(todo, L, kind)
             /\ Len(todo) >= 2
             /\ \E k \in {"rejected", "wrong_book"} :
                   todo[1] = Decide(SiteOf[r], o.key, Decision(k, None))
             /\ \A i \in DOMAIN todo : todo[i].op # "ask" /\ (i # 1 => todo[i].op # "decide")
<1>. DEFINE o == OutcomeOf(r, spine, L, D)
            todo == RetractWrites(r, o, L)
            plan == PlanRetraction(r, o, L)
            first == Decide(SiteOf[r], o.key, Decision(plan.kind, None))
            last == CloseQuestion(SiteOf[r], o.key)
            here == IF o.book = None THEN {} ELSE CopiesAt(L[o.book], SiteOf[r])
            dropped == DeleteBook(o.book, "continue")
            moved == Save(o.book, RemoveFromShelf(L[o.book], plan.copy))
<1>1. /\ o.key \in Keys /\ o.book \in DOMAIN L \cup {None}
      /\ o.reason = "ambiguous_location" =>
            o.book \in DOMAIN L /\ CopiesAt(L[o.book], SiteOf[r]) = {}
  BY OutcomeFacts
<1>2. \A b \in DOMAIN L : b \in 1 .. m /\ b # None /\ L[b] \in BookRows(m)
  BY LibraryFields
<1>3. SiteOf[r] \in Sites
  BY ClaimFacts
<1>4. todo = (<<first>> \o (CASE plan.action = "nothing" -> <<>>
                              [] plan.action = "delete_book" -> <<dropped>>
                              [] plan.action = "remove_from_shelf" -> <<moved>>)) \o <<last>>
  BY DEF RetractWrites
<1>. HIDE DEF todo, o
<1>5. /\ plan.kind \in {"rejected", "wrong_book"}
      /\ plan.action \in {"nothing", "delete_book", "remove_from_shelf"}
      /\ plan.action # "nothing" => /\ here # {} /\ plan.copy = Min(here)
                                    /\ plan.kind = "wrong_book" => o.reason = "ambiguous_location"
  BY DEF PlanRetraction, Retraction
<1>6. plan.action # "nothing" =>
         /\ o.book \in DOMAIN L /\ plan.copy \in CopyIds(L[o.book])
         /\ plan.kind = "rejected"
  <2>1. ASSUME plan.action # "nothing"
        PROVE  /\ o.book \in DOMAIN L /\ plan.copy \in CopyIds(L[o.book])
               /\ plan.kind = "rejected"
    <3>1. o.book # None /\ here = CopiesAt(L[o.book], SiteOf[r]) /\ here # {}
      BY <1>5, <2>1
    <3>2. o.book \in DOMAIN L
      BY <1>1, <3>1
    <3>3. Min(CopiesAt(L[o.book], SiteOf[r])) \in CopyIds(L[o.book])
      BY <1>2, <3>1, <3>2, CopyAtFacts
    <3>4. o.reason # "ambiguous_location"
      BY <1>1, <3>1
    <3>. QED
      BY <1>5, <2>1, <3>1, <3>2, <3>3, <3>4
  <2>. QED
    BY <2>1
<1>. DEFINE k == plan.kind
<1>7. /\ first \in StoreCalls(m) /\ first.op = "decide" /\ first.site = SiteOf[r]
      /\ first.key = o.key /\ first.decision.kind = k
  <2>1. Decision(k, None) \in Decisions(m) /\ Decision(k, None).kind = k
    <3>. HIDE DEF k
    <3>1. None \in 0 .. m /\ k \in DecisionKinds
      BY <1>5 DEF None, DecisionKinds, k
    <3>. QED
      BY <3>1 DEF Decision, Decisions
  <2>2. first = Decide(SiteOf[r], o.key, Decision(k, None))
    OBVIOUS
  <2>. HIDE DEF k, first
  <2>3. first \in StoreCalls(m)
    BY <1>1, <1>3, <2>1, <2>2, CallIntro
  <2>. QED
    BY <2>1, <2>2, <2>3 DEF Decide
<1>8. last \in StoreCalls(m) /\ last.op = "close" /\ last.site = SiteOf[r] /\ last.key = o.key
  BY <1>1, <1>3, CallIntro DEF CloseQuestion
<1>9. ASSUME plan.action = "delete_book"
      PROVE  dropped \in StoreCalls(m) /\ dropped.op = "delete" /\ CallSound(dropped, L, kind)
  <2>1. dropped \in StoreCalls(m) /\ dropped.op = "delete"
    BY <1>2, <1>6, <1>9, CallIntro
  <2>. HIDE DEF dropped
  <2>. QED
    BY <2>1 DEF CallSound, Touches
<1>10. ASSUME plan.action = "remove_from_shelf"
       PROVE  moved \in StoreCalls(m) /\ moved.op = "save" /\ CallSound(moved, L, kind)
  <2>. DEFINE v == RemoveFromShelf(L[o.book], plan.copy)
  <2>1. o.book \in DOMAIN L /\ L[o.book] \in BookRows(m) /\ Edits(L[o.book], v, m, kind)
    BY <1>2, <1>6, <1>10, CopyEdits
  <2>2. v \in BookRows(m) /\ CopyIds(v) = CopyIds(L[o.book]) /\ Keeps(L[o.book], v, kind)
    BY <2>1 DEF Edits
  <2>. HIDE DEF v
  <2>3. moved = Save(o.book, v)
    BY DEF v
  <2>4. moved \in StoreCalls(m) /\ moved.op = "save" /\ moved.book = o.book /\ moved.aggregate = v
    BY <1>2, <2>1, <2>2, <2>3, CallIntro DEF Save
  <2>. HIDE DEF moved
  <2>. QED
    BY <2>1, <2>2, <2>4 DEF CallSound, Touches
<1>11. first = Decide(SiteOf[r], o.key, Decision(k, None)) /\ k \in {"rejected", "wrong_book"}
  BY <1>5
<1>12. /\ last = CloseQuestion(first.site, first.key)
       /\ (Settles(first) <=> k = "wrong_book") /\ ~Touches(first) /\ ~Queues(first)
       /\ ~Settles(last) /\ Queues(last) /\ ~Touches(last)
       /\ CallSound(first, L, kind) /\ CallSound(last, L, kind)
  <2>1. last = CloseQuestion(first.site, first.key)
    BY <1>7
  <2>. HIDE DEF first, last, k
  <2>. QED
    BY <1>7, <1>8, <1>11, <2>1 DEF Settles, Touches, Queues, CallSound, ClosingKinds
<1>13. CASE plan.action = "nothing"
  <2>1. todo = (<<first>> \o <<>>) \o <<last>>
    BY <1>4, <1>13
  <2>2. todo = <<first, last>>
    <3>. HIDE DEF first, last
    <3>1. <<first>> \in Seq({first})
      OBVIOUS
    <3>2. <<first>> \o <<>> = <<first>>
      BY <3>1, ConcatEmptySeq
    <3>. QED
      BY <2>1, <3>2, Paired
  <2>. HIDE DEF first, last, k
  <2>3. /\ todo \in Seq(StoreCalls(m)) /\ Len(todo) = 2 /\ DOMAIN todo = {1, 2}
        /\ todo[1] = first /\ todo[2] = last
    BY <1>7, <1>8, <2>2
  <2>4. InOrder(first, last, L)
    BY <1>7, <1>8, <1>12 DEF InOrder
  <2>5. SoundPlan(todo, L, kind)
    BY <1>12, <2>3, <2>4 DEF SoundPlan
  <2>. QED
    BY <1>7, <1>8, <1>11, <2>3, <2>5 DEF todo, o
<1>14. ASSUME NEW x \in StoreCalls(m), x.op \in {"delete", "save"}, CallSound(x, L, kind),
              todo = (<<first>> \o <<x>>) \o <<last>>, k = "rejected"
       PROVE  /\ todo \in Seq(StoreCalls(m)) /\ SoundPlan(todo, L, kind) /\ Len(todo) >= 2
              /\ \E j \in {"rejected", "wrong_book"} :
                    todo[1] = Decide(SiteOf[r], o.key, Decision(j, None))
              /\ \A i \in DOMAIN todo : todo[i].op # "ask" /\ (i # 1 => todo[i].op # "decide")
  <2>2. todo = <<first, x, last>>
    <3>. HIDE DEF first, last, k
    <3>1. <<first, x, last>> = <<first, x>> \o <<last>>
      BY Tripled
    <3>2. <<first, x>> = <<first>> \o <<x>>
      BY Paired
    <3>3. todo = (<<first>> \o <<x>>) \o <<last>>
      BY <1>14
    <3>. QED
      BY <3>1, <3>2, <3>3
  <2>. HIDE DEF first, last, k
  <2>3. /\ todo \in Seq(StoreCalls(m)) /\ Len(todo) = 3 /\ DOMAIN todo = {1, 2, 3}
        /\ todo[1] = first /\ todo[2] = x /\ todo[3] = last
    BY <1>7, <1>8, <2>2
  <2>4. InOrder(first, last, L) /\ InOrder(first, x, L) /\ InOrder(x, last, L)
    BY <1>7, <1>8, <1>12, <1>14 DEF InOrder, Queues, Settles
  <2>5. SoundPlan(todo, L, kind)
    <3>1. ~Settles(first) /\ ~Settles(x) /\ ~Settles(last)
      BY <1>12, <1>14 DEF Settles
    <3>. QED
      BY <1>12, <1>14, <2>3, <2>4, <3>1 DEF SoundPlan
  <2>. QED
    BY <1>7, <1>8, <1>11, <1>14, <2>3, <2>5
<1>15. CASE plan.action = "delete_book"
  <2>1. todo = (<<first>> \o <<dropped>>) \o <<last>>
    BY <1>4, <1>15
  <2>. HIDE DEF first, last, dropped, plan
  <2>. QED
    BY <1>6, <1>9, <1>14, <1>15, <2>1 DEF todo, o
<1>16. CASE plan.action = "remove_from_shelf"
  <2>1. todo = (<<first>> \o <<moved>>) \o <<last>>
    BY <1>4, <1>16
  <2>. HIDE DEF first, last, moved, plan
  <2>. QED
    BY <1>6, <1>10, <1>14, <1>16, <2>1 DEF todo, o
<1>. QED
  BY <1>5, <1>13, <1>15, <1>16

\* A finite set as a sequence: each element has a place in it.
LEMMA ListedSet ==
  ASSUME NEW S, IsFiniteSet(S)
  PROVE  /\ SetToSeq(S) \in Seq(S)
         /\ \A x \in S : \E i \in DOMAIN SetToSeq(S) : SetToSeq(S)[i] = x
<1>. DEFINE n == Cardinality(S)
            t == SetToSeq(S)
<1>1. n \in Nat
  BY FS_CardinalityType
<1>2. \E f \in [1 .. n -> S] : IsInjective(f)
  <2>1. ExistsBijection(1 .. n, S)
    BY FS_NatBijection, FS_CountingElements, FS_CardinalityType
  <2>2. PICK f : f \in Bijection(1 .. n, S)
    BY <2>1 DEF ExistsBijection
  <2>. QED
    BY <2>2 DEF Bijection, Injection, IsInjective
<1>3. t \in [1 .. n -> S] /\ IsInjective(t)
  BY <1>2 DEF SetToSeq
<1>. HIDE DEF t
<1>4. t \in Injection(1 .. n, S)
  BY <1>3 DEF Injection
<1>5. IsFiniteSet(1 .. n) /\ Cardinality(1 .. n) = n
  BY <1>1, FS_Interval
<1>6. t \in Surjection(1 .. n, S)
  BY <1>4, <1>5, FS_Injection
<1>7. \A x \in S : \E i \in 1 .. n : t[i] = x
  BY <1>6 DEF Surjection
<1>8. t \in Seq(S)
  BY <1>1, <1>3
<1>. QED
  BY <1>3, <1>7, <1>8 DEF t

\* Deleting a book: the book goes, then each of its places hears the "no".
LEMMA DeleteSound ==
  ASSUME NEW m \in Nat, NEW L \in Libraries(m), NEW b \in DOMAIN L, NEW kind
  PROVE  LET todo == DeleteWrites(b, L)
         IN  /\ todo \in Seq(StoreCalls(m)) /\ SoundPlan(todo, L, kind) /\ todo # <<>>
             /\ \A i \in DOMAIN todo :
                   \/ todo[i] = DeleteBook(b, "stop")
                   \/ /\ todo[i].op = "decide" /\ todo[i].key = L[b].key
                      /\ todo[i].decision = Decision("rejected", None)
             /\ \A s \in DeletionSites(L[b]) :
                   \E i \in DOMAIN todo :
                       todo[i] = Decide(s, L[b].key, Decision("rejected", None))
<1>. DEFINE book == L[b]
            S == DeletionSites(book)
            sites == SetToSeq(S)
            no == Decision("rejected", None)
            drop == DeleteBook(b, "stop")
            t == [i \in DOMAIN sites |-> Decide(sites[i], book.key, no)]
            todo == DeleteWrites(b, L)
<1>1. /\ b \in 1 .. m /\ book \in BookRows(m) /\ book.key \in Keys
      /\ CopyIds(book) \subseteq 1 .. m
      /\ \A c \in CopyIds(book) : book.copies[c].site \in Sites \cup {NoSite}
  BY LibraryFields, BookFields, CopyFields
<1>. HIDE DEF book
<1>2. S \subseteq Sites /\ IsFiniteSet(S)
  <2>. DEFINE C == CopyIds(book)
              I == {book.copies[c].site : c \in C}
  <2>1. IsFiniteSet(C)
    BY <1>1, FS_Interval, FS_Subset
  <2>. HIDE DEF C
  <2>2. IsFiniteSet(I)
    <3>. DEFINE f == [c \in C |-> book.copies[c].site]
    <3>1. f \in Surjection(C, I)
      BY DEF Surjection
    <3>. HIDE DEF f, I
    <3>. QED
      BY <2>1, <3>1, FS_Surjection
  <2>3. S \subseteq I
    BY DEF DeletionSites, C
  <2>4. S \subseteq Sites
    BY <1>1 DEF DeletionSites
  <2>. HIDE DEF I, S
  <2>. QED
    BY <2>2, <2>3, <2>4, FS_Subset
<1>. HIDE DEF S
<1>3. /\ sites \in Seq(S)
      /\ \A x \in S : \E i \in DOMAIN sites : sites[i] = x
  BY <1>2, ListedSet
<1>. HIDE DEF sites
<1>4. DOMAIN sites = 1 .. Len(sites) /\ Len(sites) \in Nat /\ \A i \in DOMAIN sites : sites[i] \in Sites
  <2>1. DOMAIN sites = 1 .. Len(sites) /\ Len(sites) \in Nat
    BY <1>3, LenProperties
  <2>2. \A i \in 1 .. Len(sites) : sites[i] \in S
    BY <1>3, ElementOfSeq
  <2>. QED
    BY <1>2, <2>1, <2>2
<1>5. no \in Decisions(m) /\ no.kind = "rejected"
  BY <1>1 DEF Decision, Decisions, DecisionKinds, None
<1>. HIDE DEF no
<1>6. drop \in StoreCalls(m) /\ drop.op = "delete"
  BY <1>1, CallIntro
<1>7. \A s \in Sites : LET w == Decide(s, book.key, no)
                       IN  /\ w \in StoreCalls(m) /\ w.op = "decide" /\ w.key = book.key
                           /\ w.decision = no
  BY <1>1, <1>5, CallIntro DEF Decide
<1>. HIDE DEF drop
<1>8. t \in Seq(StoreCalls(m)) /\ DOMAIN t = DOMAIN sites
  <2>1. \A i \in 1 .. Len(sites) : Decide(sites[i], book.key, no) \in StoreCalls(m)
    BY <1>4, <1>7
  <2>2. [i \in 1 .. Len(sites) |-> Decide(sites[i], book.key, no)] \in Seq(StoreCalls(m))
    BY <1>4, <2>1, IsASeq
  <2>. QED
    BY <1>4, <2>2
<1>9. \A i \in DOMAIN t : t[i] = Decide(sites[i], book.key, no) /\ sites[i] \in Sites
  BY <1>4
<1>. HIDE DEF t
<1>10. todo = <<drop>> \o t
  BY DEF DeleteWrites, drop, t, sites, S, book, no
<1>. DEFINE a == <<drop>>
<1>11. a \in Seq(StoreCalls(m)) /\ Len(a) = 1 /\ DOMAIN a = {1} /\ a[1] = drop
  BY <1>6
<1>. HIDE DEF a, todo
<1>12. /\ todo \in Seq(StoreCalls(m)) /\ Len(todo) = 1 + Len(t) /\ Len(t) \in Nat
       /\ \A i \in DOMAIN t : Len(a) + i \in DOMAIN todo /\ todo[Len(a) + i] = t[i]
       /\ \A i \in DOMAIN todo :
             \/ i \in DOMAIN a /\ todo[i] = a[i]
             \/ i - Len(a) \in DOMAIN t /\ todo[i] = t[i - Len(a)]
  <2>1. todo = a \o t
    BY <1>10 DEF a
  <2>2. /\ a \o t \in Seq(StoreCalls(m))
        /\ DOMAIN a = 1 .. Len(a) /\ DOMAIN t = 1 .. Len(t)
        /\ Len(a) \in Nat /\ Len(t) \in Nat /\ Len(a \o t) = Len(a) + Len(t)
        /\ \A i \in DOMAIN a : i \in DOMAIN (a \o t) /\ (a \o t)[i] = a[i]
        /\ \A i \in DOMAIN t : Len(a) + i \in DOMAIN (a \o t) /\ (a \o t)[Len(a) + i] = t[i]
        /\ \A i \in DOMAIN (a \o t) :
              \/ i \in DOMAIN a /\ (a \o t)[i] = a[i]
              \/ i > Len(a) /\ i - Len(a) \in DOMAIN t /\ (a \o t)[i] = t[i - Len(a)]
    BY <1>8, <1>11, Joined
  <2>. QED
    BY <1>11, <2>1, <2>2
<1>13. \A i \in DOMAIN todo : \/ todo[i] = drop
                              \/ todo[i].op = "decide" /\ todo[i].key = book.key /\ todo[i].decision = no
  <2>1. ASSUME NEW i \in DOMAIN todo, i - Len(a) \in DOMAIN t, todo[i] = t[i - Len(a)]
        PROVE  todo[i].op = "decide" /\ todo[i].key = book.key /\ todo[i].decision = no
    <3>1. PICK j \in DOMAIN t : todo[i] = t[j]
      BY <2>1
    <3>. QED
      BY <1>7, <1>9, <3>1
  <2>2. \A i \in DOMAIN a : a[i] = drop
    BY <1>11
  <2>. QED
    BY <1>12, <2>1, <2>2
<1>14. \A s \in S : \E i \in DOMAIN todo : todo[i] = Decide(s, book.key, no)
  <2>1. ASSUME NEW s \in S
        PROVE  \E i \in DOMAIN todo : todo[i] = Decide(s, book.key, no)
    <3>1. PICK i \in DOMAIN t : t[i] = Decide(s, book.key, no)
      BY <1>3, <1>8, <1>9
    <3>. QED
      BY <1>12, <3>1
  <2>. QED
    BY <2>1
<1>15. \A i \in DOMAIN todo : ~Touches(todo[i]) /\ ~Queues(todo[i]) /\ ~Settles(todo[i])
  BY <1>5, <1>6, <1>13 DEF Touches, Queues, Settles, ClosingKinds
<1>16. SoundPlan(todo, L, kind)
  <2>1. \A i \in DOMAIN todo : CallSound(todo[i], L, kind)
    BY <1>15 DEF CallSound, Touches
  <2>2. \A i, j \in DOMAIN todo : InOrder(todo[i], todo[j], L)
    BY <1>15 DEF InOrder
  <2>. QED
    BY <1>15, <2>1, <2>2 DEF SoundPlan
<1>17. todo # <<>>
  BY <1>12, EmptySeq
<1>. QED
  BY <1>12, <1>13, <1>14, <1>16, <1>17 DEF todo, book, S, no, drop

-----------------------------------------------------------------------------
(* The shapes of the state *)

AnswerKinds == {"none", "confirm", "reject", "already_listed", "another_copy", "wrong_book"}
AnswerSet == [spine : Nat, kind : AnswerKinds, copy : Nat, key : Keys \cup {NoKey}]
ReadKinds == {"apply", "retract", "restore", "answer", "skip"}

\* A request, and what it carries.
Asked(q) ==
    /\ Answers(q.answer)
    /\ q.kind \in ReadKinds => q.read \in Reads
    /\ q.kind \in {"retract", "restore"} => q.spine \in Spines(q.read)
    /\ q.kind = "retract" => Claims[q.read][q.spine].key # NoKey
    /\ q.kind \in {"answer", "skip"} => q.key \in Keys
RequestShape == [kind : RequestKinds \cup {"none"}, read : Reads \cup {None}, spine : Nat,
                 key : Keys \cup {NoKey}, answer : AnswerSet]
RequestSet == {q \in RequestShape : Asked(q)}

Jobs(m) == [at : {"idle", "deciding", "undoing", "undone", "writing"}, req : RequestSet,
            library : Libraries(m), todo : Seq(StoreCalls(m))]

\* A handler has writes to make just when it is writing, and they are sound.
GoodJob(j, m) ==
    /\ j \in Jobs(m)
    /\ (j.todo # <<>>) = (j.at = "writing")
    /\ j.at \in {"deciding", "undoing", "undone"} => j.req.kind \in ReadKinds
    /\ j.at = "writing" => SoundPlan(j.todo, j.library, j.req.kind)

Typed ==
    /\ minted \in Nat /\ books \in Libraries(minted)
    /\ decisions \in [Sites -> [Keys -> Decisions(minted)]]
    /\ questions \in [Sites -> [Keys -> Reads \cup {None}]]
    /\ job \in [Handlers -> Jobs(minted)]
    /\ \A h \in Handlers : GoodJob(job[h], minted)
    /\ play \in Plays /\ \A h \in Handlers : job[h] # Idle => h \in play.handlers

\* Every copy id belongs to one book, wherever it is written.
Owns(owner, L) == \A b \in DOMAIN L : \A c \in CopyIds(L[b]) : owner[c] = b
OneOwner ==
    \E owner \in [1 .. minted -> 1 .. minted] :
        Owns(owner, books) /\ \A h \in Handlers : Owns(owner, job[h].library)

Sound == Typed /\ OneOwner /\ KeysNameOneBook

LEMMA NoRequestShape == NoRequest \in RequestSet
<1>1. NoAnswer \in AnswerSet /\ Answers(NoAnswer)
  BY DEF NoAnswer, AnswerSet, AnswerKinds, None, Answers
<1>2. NoRequest = [kind |-> "none", read |-> None, spine |-> None, key |-> NoKey, answer |-> NoAnswer]
  BY DEF NoRequest, Request
<1>3. NoRequest \in RequestShape
  BY <1>1, <1>2 DEF RequestShape, None
<1>. QED
  BY <1>1, <1>2, <1>3 DEF RequestSet, Asked, ReadKinds

LEMMA IdleGood ==
  ASSUME NEW m \in Nat
  PROVE  GoodJob(Idle, m) /\ Idle.at = "idle" /\ Idle.library = <<>> /\ Idle.todo = <<>>
<1>1. /\ Idle = [at |-> "idle", req |-> NoRequest, library |-> <<>>, todo |-> <<>>]
      /\ <<>> \in Libraries(m) /\ <<>> \in Seq(StoreCalls(m)) /\ NoRequest \in RequestSet
  BY NoRequestShape, EmptyMap DEF Libraries, Idle
<1>2. Idle \in Jobs(m)
  BY <1>1 DEF Jobs
<1>3. Idle.at = "idle" /\ Idle.library = <<>> /\ Idle.todo = <<>>
  BY <1>1
<1>. QED
  BY <1>2, <1>3 DEF GoodJob

\* A handler that goes on.
LEMMA WorkingGood ==
  ASSUME NEW m \in Nat, NEW q \in RequestSet, NEW L \in Libraries(m)
  PROVE  /\ \A at \in {"deciding", "undoing", "undone"} : q.kind \in ReadKinds =>
              LET j == Working(at, q, L, <<>>)
              IN  /\ j = [at |-> at, req |-> q, library |-> L, todo |-> <<>>]
                  /\ GoodJob(j, m)
         /\ \A todo \in Seq(StoreCalls(m)) : SoundPlan(todo, L, q.kind) =>
              LET j == Working("writing", q, L, todo)
              IN  /\ GoodJob(j, m)
                  /\ j = Idle \/ j = [at |-> "writing", req |-> q, library |-> L, todo |-> todo]
                  /\ j = Idle <=> todo = <<>>
<1>1. ASSUME NEW at \in {"deciding", "undoing", "undone"}, q.kind \in ReadKinds
      PROVE  LET j == Working(at, q, L, <<>>)
             IN  /\ j = [at |-> at, req |-> q, library |-> L, todo |-> <<>>]
                 /\ GoodJob(j, m)
  <2>. DEFINE j == Working(at, q, L, <<>>)
  <2>1. j = [at |-> at, req |-> q, library |-> L, todo |-> <<>>]
    BY <1>1 DEF Working
  <2>. HIDE DEF j
  <2>2. j \in Jobs(m)
    BY <2>1 DEF Jobs
  <2>3. GoodJob(j, m)
    BY <1>1, <2>1, <2>2 DEF GoodJob
  <2>. QED
    BY <2>1, <2>3 DEF j
<1>2. ASSUME NEW todo \in Seq(StoreCalls(m)), SoundPlan(todo, L, q.kind)
      PROVE  LET j == Working("writing", q, L, todo)
             IN  /\ GoodJob(j, m)
                 /\ j = Idle \/ j = [at |-> "writing", req |-> q, library |-> L, todo |-> todo]
                 /\ j = Idle <=> todo = <<>>
  <2>. DEFINE j == Working("writing", q, L, todo)
              k == [at |-> "writing", req |-> q, library |-> L, todo |-> todo]
  <2>1. CASE todo = <<>>
    BY <2>1, IdleGood DEF Working
  <2>2. CASE todo # <<>>
    <3>1. j = k
      BY <2>2 DEF Working
    <3>2. k \in Jobs(m) /\ k.at = "writing" /\ k.req = q /\ k.library = L /\ k.todo = todo
      BY DEF Jobs
    <3>. HIDE DEF k, j
    <3>3. GoodJob(k, m)
      BY <1>2, <2>2, <3>2 DEF GoodJob
    <3>4. k # Idle
      BY <3>2, IdleGood
    <3>. QED
      BY <2>2, <3>1, <3>3, <3>4 DEF j, k
  <2>. QED
    BY <2>1, <2>2
<1>. QED
  BY <1>1, <1>2

LEMMA JobFields ==
  ASSUME NEW m \in Nat, NEW j, GoodJob(j, m)
  PROVE  /\ j.req \in RequestSet /\ j.library \in Libraries(m) /\ j.todo \in Seq(StoreCalls(m))
         /\ j.at \in {"idle", "deciding", "undoing", "undone", "writing"}
         /\ j = [at |-> j.at, req |-> j.req, library |-> j.library, todo |-> j.todo]
         /\ Asked(j.req)
         /\ j.req \in RequestShape
BY DEF GoodJob, Jobs, RequestSet

LEMMA JobsGrow ==
  ASSUME NEW m \in Nat, NEW n \in Nat, m <= n, NEW j, GoodJob(j, m)
  PROVE  GoodJob(j, n)
<1>1. StoreCalls(m) \subseteq StoreCalls(n) /\ Libraries(m) \subseteq Libraries(n)
  <2>1. 1 .. m \subseteq 1 .. n
    OBVIOUS
  <2>2. BookRows(m) \subseteq BookRows(n) /\ Libraries(m) \subseteq Libraries(n)
        /\ Decisions(m) \subseteq Decisions(n)
    BY RowsGrow
  <2>3. /\ SaveCalls(m) \subseteq SaveCalls(n) /\ SaveCopyCalls(m) \subseteq SaveCopyCalls(n)
        /\ DeleteCalls(m) \subseteq DeleteCalls(n) /\ DecideCalls(m) \subseteq DecideCalls(n)
    BY <2>1, <2>2 DEF SaveCalls, SaveCopyCalls, DeleteCalls, DecideCalls
  <2>. QED
    BY <2>2, <2>3 DEF StoreCalls
<1>2. j.todo \in Seq(StoreCalls(n))
  <2>. DEFINE s == j.todo
              S == StoreCalls(m)
              T == StoreCalls(n)
  <2>1. s \in Seq(S) /\ S \subseteq T
    BY <1>1, JobFields
  <2>. HIDE DEF s, S, T
  <2>2. s \in Seq(T)
    BY <2>1, SeqMonotonic
  <2>. QED
    BY <2>2 DEF s, T
<1>3. j \in Jobs(n)
  BY <1>1, <1>2, JobFields DEF Jobs
<1>. QED
  BY <1>3 DEF GoodJob

-----------------------------------------------------------------------------
(* The library stays sound: what a step may change *)

\* A step that leaves the books alone.
LEMMA JobOnly ==
  ASSUME Sound, NEW h \in Handlers, h \in play.handlers, NEW j, GoodJob(j, minted),
         j.library \in {books, job[h].library, <<>>}, job' = [job EXCEPT ![h] = j],
         UNCHANGED <<books, minted, play>>,
         decisions' \in [Sites -> [Keys -> Decisions(minted)]],
         questions' \in [Sites -> [Keys -> Reads \cup {None}]]
  PROVE  Sound'
<1>1. /\ job \in [Handlers -> Jobs(minted)] /\ minted \in Nat /\ books \in Libraries(minted)
      /\ \A g \in Handlers : GoodJob(job[g], minted)
      /\ play \in Plays /\ \A g \in Handlers : job[g] # Idle => g \in play.handlers
  BY DEF Sound, Typed
<1>2. j \in Jobs(minted)
  BY DEF GoodJob
<1>3. job'[h] = j /\ \A g \in Handlers : g # h => job'[g] = job[g]
  BY <1>1
<1>4. Typed'
  BY <1>1, <1>2, <1>3 DEF Typed
<1>5. OneOwner'
  <2>1. PICK owner \in [1 .. minted -> 1 .. minted] :
            Owns(owner, books) /\ \A g \in Handlers : Owns(owner, job[g].library)
    BY DEF Sound, OneOwner
  <2>2. Owns(owner, <<>>)
    BY DEF Owns
  <2>3. \A g \in Handlers : Owns(owner, job'[g].library)
    BY <1>3, <2>1, <2>2
  <2>4. books' = books /\ minted' = minted
    OBVIOUS
  <2>5. \E o \in [1 .. minted' -> 1 .. minted'] :
            Owns(o, books') /\ \A g \in Handlers : Owns(o, job'[g].library)
    BY <2>1, <2>3, <2>4
  <2>. QED
    BY <2>5 DEF OneOwner, Owns
<1>6. KeysNameOneBook'
  BY DEF Sound, KeysNameOneBook
<1>. QED
  BY <1>4, <1>5, <1>6 DEF Sound

\* A step that saves a book, one that is known or a new one.
LEMMA SaveStep ==
  ASSUME Sound, NEW h \in Handlers, h \in play.handlers, NEW n \in Nat, n \in {minted, minted + 1},
         NEW j, GoodJob(j, n), j.library \in {job[h].library, <<>>},
         NEW b \in 1 .. n, NEW w \in BookRows(n), Holders(w.key, b) = {},
         \A c \in CopyIds(w) :
            \/ c \in 1 .. minted /\ b \in DOMAIN job[h].library /\ c \in CopyIds(job[h].library[b])
            \/ c = minted + 1,
         job' = [job EXCEPT ![h] = j], books' = Put(books, b, w), minted' = n,
         UNCHANGED <<decisions, questions, play>>
  PROVE  Sound'
<1>1. /\ job \in [Handlers -> Jobs(minted)] /\ minted \in Nat /\ books \in Libraries(minted)
      /\ decisions \in [Sites -> [Keys -> Decisions(minted)]]
      /\ questions \in [Sites -> [Keys -> Reads \cup {None}]]
      /\ \A g \in Handlers : GoodJob(job[g], minted)
      /\ play \in Plays /\ \A g \in Handlers : job[g] # Idle => g \in play.handlers
  BY DEF Sound, Typed
<1>2. minted <= n /\ Decisions(minted) \subseteq Decisions(n) /\ Libraries(minted) \subseteq Libraries(n)
  <2>1. minted <= n
    BY <1>1
  <2>. QED
    BY <1>1, <2>1, RowsGrow
<1>3. job'[h] = j /\ \A g \in Handlers : g # h => job'[g] = job[g]
  BY <1>1
<1>4. \A g \in Handlers : GoodJob(job'[g], n)
  BY <1>1, <1>2, <1>3, JobsGrow
<1>5. job' \in [Handlers -> Jobs(n)]
  <2>1. DOMAIN job' = Handlers /\ job' = [g \in Handlers |-> job'[g]]
    BY <1>1
  <2>2. \A g \in Handlers : job'[g] \in Jobs(n)
    BY <1>4 DEF GoodJob
  <2>. QED
    BY <2>1, <2>2
<1>6. Put(books, b, w) \in Libraries(n)
  <2>1. books \in Libraries(n)
    BY <1>1, <1>2
  <2>. QED
    BY <2>1, PutType DEF Libraries
<1>7. Typed'
  <2>1. decisions' \in [Sites -> [Keys -> Decisions(n)]]
    BY <1>1, <1>2
  <2>2. /\ minted' = n /\ books' = Put(books, b, w) /\ questions' = questions /\ play' = play
    OBVIOUS
  <2>3. \A g \in Handlers : job'[g] # Idle => g \in play.handlers
    BY <1>1, <1>3
  <2>. QED
    BY <1>1, <1>4, <1>5, <1>6, <2>1, <2>2, <2>3 DEF Typed
<1>8. /\ DOMAIN books' = DOMAIN books \cup {b} /\ books'[b] = w
      /\ \A o \in DOMAIN books : o # b => books'[o] = books[o]
  <2>1. /\ DOMAIN Put(books, b, w) = DOMAIN books \cup {b}
        /\ Put(books, b, w)[b] = w
        /\ \A o \in DOMAIN books : o # b => Put(books, b, w)[o] = books[o]
    BY DEF Put
  <2>2. books' = Put(books, b, w)
    OBVIOUS
  <2>. QED
    BY <2>1, <2>2
<1>9. OneOwner'
  <2>1. PICK owner \in [1 .. minted -> 1 .. minted] :
            Owns(owner, books) /\ \A g \in Handlers : Owns(owner, job[g].library)
    BY DEF Sound, OneOwner
  <2>. DEFINE now == [c \in 1 .. n |-> IF c = minted + 1 THEN b ELSE owner[c]]
  <2>2. now \in [1 .. n -> 1 .. n]
    <3>1. \A c \in 1 .. n : c # minted + 1 => c \in 1 .. minted
      BY <1>1
    <3>2. \A c \in 1 .. minted : owner[c] \in 1 .. n
      BY <1>1, <1>2, <2>1
    <3>. QED
      BY <3>1, <3>2
  <2>3. \A c \in 1 .. minted : now[c] = owner[c] /\ c # minted + 1
    BY <1>1, <1>2
  <2>4. minted + 1 \in 1 .. n => now[minted + 1] = b
    OBVIOUS
  <2>. HIDE DEF now
  <2>5. ASSUME NEW L \in Libraries(minted), Owns(owner, L)
        PROVE  Owns(now, L)
    <3>1. \A o \in DOMAIN L : CopyIds(L[o]) \subseteq 1 .. minted
      BY <1>1, LibraryFields, BookFields
    <3>. QED
      BY <2>3, <2>5, <3>1 DEF Owns
  <2>6. Owns(now, books) /\ \A g \in Handlers : Owns(now, job[g].library)
    <3>1. \A g \in Handlers : job[g].library \in Libraries(minted)
      BY <1>1, JobFields
    <3>. QED
      BY <1>1, <2>1, <2>5, <3>1
  <2>7. \A c \in CopyIds(w) : now[c] = b
    <3>1. CopyIds(w) \subseteq 1 .. n
      BY BookFields
    <3>2. ASSUME NEW c \in CopyIds(w)
          PROVE  now[c] = b
      <4>1. CASE c \in 1 .. minted /\ b \in DOMAIN job[h].library /\ c \in CopyIds(job[h].library[b])
        BY <2>6, <4>1 DEF Owns
      <4>2. CASE c = minted + 1
        BY <2>4, <3>1, <4>2
      <4>. QED
        BY <4>1, <4>2
    <3>. QED
      BY <3>2
  <2>8. Owns(now, books')
    <3>1. ASSUME NEW o \in DOMAIN books', NEW c \in CopyIds(books'[o])
          PROVE  now[c] = o
      <4>1. CASE o = b
        BY <1>8, <2>7, <3>1, <4>1
      <4>2. CASE o # b
        BY <1>8, <2>6, <3>1, <4>2 DEF Owns
      <4>. QED
        BY <4>1, <4>2
    <3>. QED
      BY <3>1 DEF Owns
  <2>9. Owns(now, <<>>)
    BY DEF Owns
  <2>10. \A g \in Handlers : Owns(now, job'[g].library)
    BY <1>3, <2>6, <2>9
  <2>11. minted' = n
    OBVIOUS
  <2>12. \E o \in [1 .. minted' -> 1 .. minted'] :
            Owns(o, books') /\ \A g \in Handlers : Owns(o, job'[g].library)
    BY <2>2, <2>8, <2>10, <2>11
  <2>. QED
    BY <2>12 DEF OneOwner, Owns
<1>10. KeysNameOneBook'
  <2>1. \A o \in DOMAIN books : o # b => books[o].key # w.key
    BY DEF Holders, BooksNamed
  <2>2. KeysNameOneBook
    BY DEF Sound
  <2>. QED
    BY <1>8, <2>1, <2>2 DEF KeysNameOneBook
<1>. QED
  BY <1>7, <1>9, <1>10 DEF Sound

\* A step that deletes a book.
LEMMA DropStep ==
  ASSUME Sound, NEW h \in Handlers, h \in play.handlers, NEW b,
         NEW j, GoodJob(j, minted), j.library \in {job[h].library, <<>>},
         job' = [job EXCEPT ![h] = j], books' = [o \in DOMAIN books \ {b} |-> books[o]],
         UNCHANGED <<decisions, questions, minted, play>>
  PROVE  Sound'
<1>1. /\ job \in [Handlers -> Jobs(minted)] /\ minted \in Nat /\ books \in Libraries(minted)
      /\ decisions \in [Sites -> [Keys -> Decisions(minted)]]
      /\ questions \in [Sites -> [Keys -> Reads \cup {None}]]
      /\ \A g \in Handlers : GoodJob(job[g], minted)
      /\ play \in Plays /\ \A g \in Handlers : job[g] # Idle => g \in play.handlers
  BY DEF Sound, Typed
<1>2. job'[h] = j /\ \A g \in Handlers : g # h => job'[g] = job[g]
  BY <1>1
<1>3. DOMAIN books' = DOMAIN books \ {b} /\ \A o \in DOMAIN books' : books'[o] = books[o]
  OBVIOUS
<1>4. books' \in Libraries(minted)
  <2>1. DOMAIN books \subseteq 1 .. minted /\ \A o \in DOMAIN books : books[o] \in BookRows(minted)
    BY <1>1, LibraryFields
  <2>2. books' = [o \in DOMAIN books' |-> books'[o]]
    OBVIOUS
  <2>. QED
    BY <1>3, <2>1, <2>2, MapIntro DEF Libraries
<1>5. Typed'
  <2>1. j \in Jobs(minted)
    BY DEF GoodJob
  <2>. QED
    BY <1>1, <1>2, <1>4, <2>1 DEF Typed
<1>6. OneOwner'
  <2>1. PICK owner \in [1 .. minted -> 1 .. minted] :
            Owns(owner, books) /\ \A g \in Handlers : Owns(owner, job[g].library)
    BY DEF Sound, OneOwner
  <2>2. Owns(owner, <<>>)
    BY DEF Owns
  <2>3. \A g \in Handlers : Owns(owner, job'[g].library)
    BY <1>2, <2>1, <2>2
  <2>4. Owns(owner, books')
    BY <1>3, <2>1 DEF Owns
  <2>5. minted' = minted
    OBVIOUS
  <2>6. \E o \in [1 .. minted' -> 1 .. minted'] :
            Owns(o, books') /\ \A g \in Handlers : Owns(o, job'[g].library)
    BY <2>1, <2>3, <2>4, <2>5
  <2>. QED
    BY <2>6 DEF OneOwner, Owns
<1>7. KeysNameOneBook'
  <2>1. KeysNameOneBook
    BY DEF Sound
  <2>. QED
    BY <1>3, <2>1 DEF KeysNameOneBook
<1>. QED
  BY <1>5, <1>6, <1>7 DEF Sound

-----------------------------------------------------------------------------
(* The requests, and the plans made for them *)

LEMMA RequestIn ==
  ASSUME NEW kind \in RequestKinds, NEW r \in Reads \cup {None}, NEW spine \in Nat,
         NEW key \in Keys \cup {NoKey}, NEW answer \in AnswerSet, Answers(answer),
         kind \in ReadKinds => r \in Reads,
         kind \in {"retract", "restore"} => spine \in Spines(r),
         kind = "retract" => Claims[r][spine].key # NoKey,
         kind \in {"answer", "skip"} => key \in Keys
  PROVE  LET q == Request(kind, r, spine, key, answer)
         IN  /\ q \in RequestSet /\ q.kind = kind /\ q.read = r /\ q.spine = spine
             /\ q.key = key /\ q.answer = answer
<1>. DEFINE q == Request(kind, r, spine, key, answer)
<1>1. q = [kind |-> kind, read |-> r, spine |-> spine, key |-> key, answer |-> answer]
  BY DEF Request
<1>. HIDE DEF q
<1>2. q.kind = kind /\ q.read = r /\ q.spine = spine /\ q.key = key /\ q.answer = answer
  BY <1>1
<1>3. q \in RequestShape
  BY <1>1 DEF RequestShape
<1>4. Asked(q)
  BY <1>2 DEF Asked
<1>. QED
  BY <1>2, <1>3, <1>4 DEF RequestSet, q

LEMMA NoAnswerIn == NoAnswer \in AnswerSet /\ Answers(NoAnswer)
BY DEF NoAnswer, AnswerSet, AnswerKinds, None, Answers

\* What a client may answer has the shape of an answer.
LEMMA AnswersToFacts ==
  ASSUME NEW m \in Nat, books \in Libraries(m), NEW r \in Reads, NEW spine \in Spines(r)
  PROVE  \A answer \in AnswersTo(r, spine) : answer \in AnswerSet /\ Answers(answer)
<1>. DEFINE key == Claims[r][spine].key
            b == BookNamed(key, books)
            some(kind) == [spine |-> spine, kind |-> kind, copy |-> None, key |-> key]
<1>1. spine \in Nat /\ key \in Keys \cup {NoKey}
  BY ClaimFacts
<1>2. (IF b = None THEN {} ELSE CopyIds(books[b])) \subseteq Nat
  <2>1. b # None => b \in DOMAIN books
    BY NamedFacts
  <2>2. \A x \in DOMAIN books : books[x] \in BookRows(m)
    BY LibraryFields
  <2>3. \A x \in DOMAIN books : CopyIds(books[x]) \subseteq 1 .. m
    BY <2>2, BookFields
  <2>. QED
    BY <2>1, <2>3
<1>. HIDE DEF key, b
<1>3. ASSUME NEW answer \in AnswersTo(r, spine)
      PROVE  \/ \E k \in Keys : answer = [some("confirm") EXCEPT !.key = k]
             \/ \E kind \in {"reject", "another_copy", "wrong_book"} : answer = some(kind)
             \/ \E c \in {None} \cup (IF b = None THEN {} ELSE CopyIds(books[b])) :
                    answer = [some("already_listed") EXCEPT !.copy = c]
  BY <1>3 DEF AnswersTo, key, b
<1>4. ASSUME NEW answer, NEW k \in Keys, answer = [some("confirm") EXCEPT !.key = k]
      PROVE  answer \in AnswerSet /\ Answers(answer)
  BY <1>1, <1>4 DEF AnswerSet, AnswerKinds, Answers, None
<1>5. ASSUME NEW answer, NEW kind \in {"reject", "another_copy", "wrong_book"}, answer = some(kind)
      PROVE  answer \in AnswerSet /\ Answers(answer)
  BY <1>1, <1>5 DEF AnswerSet, AnswerKinds, Answers, None
<1>6. ASSUME NEW answer, NEW c \in Nat, answer = [some("already_listed") EXCEPT !.copy = c]
      PROVE  answer \in AnswerSet /\ Answers(answer)
  BY <1>1, <1>6 DEF AnswerSet, AnswerKinds, Answers
<1>7. None \in Nat
  BY DEF None
<1>. QED
  BY <1>2, <1>3, <1>4, <1>5, <1>6, <1>7

\* A request about a read, as it is taken.
LEMMA AskedForm ==
  ASSUME Typed, NEW h \in Handlers, AskedOfARead(h)
  PROVE  \E q \in RequestSet : q.kind \in ReadKinds /\ Accept(h, q, "deciding", <<>>)
<1>1. minted \in Nat /\ books \in Libraries(minted)
      /\ questions \in [Sites -> [Keys -> Reads \cup {None}]]
  BY DEF Typed
<1>2. NoAnswer \in AnswerSet /\ Answers(NoAnswer) /\ None \in Nat /\ NoKey \in Keys \cup {NoKey}
  BY NoAnswerIn DEF None
<1>3. CASE Apply(h)
  <2>1. PICK r \in Reads : \E answer \in {NoAnswer} \cup UNION {AnswersTo(r, s) : s \in OpenClaims(r)} :
            Accept(h, Request("apply", r, None, NoKey, answer), "deciding", <<>>)
    BY <1>3 DEF Apply
  <2>2. OpenClaims(r) \subseteq Spines(r)
    <3>. DEFINE diff == Diff(r, books, decisions[SiteOf[r]])
    <3>1. /\ ToSet(diff) = {diff[i] : i \in DOMAIN diff}
          /\ \A i \in DOMAIN diff : diff[i].spine \in Spines(r)
      BY <1>1, DiffFacts
    <3>2. OpenClaims(r) = {o.spine : o \in {o \in ToSet(diff) : o.kind = "needs_decision"}}
      BY DEF OpenClaims
    <3>. HIDE DEF diff
    <3>. QED
      BY <3>1, <3>2
  <2>3. PICK answer \in {NoAnswer} \cup UNION {AnswersTo(r, s) : s \in OpenClaims(r)} :
            Accept(h, Request("apply", r, None, NoKey, answer), "deciding", <<>>)
    BY <2>1
  <2>4. answer \in AnswerSet /\ Answers(answer)
    <3>1. ASSUME NEW s \in Spines(r), answer \in AnswersTo(r, s)
          PROVE  answer \in AnswerSet /\ Answers(answer)
      BY <1>1, <3>1, AnswersToFacts
    <3>. QED
      BY <1>2, <2>2, <2>3, <3>1
  <2>. DEFINE q == Request("apply", r, None, NoKey, answer)
  <2>5. q \in RequestSet /\ q.kind = "apply"
    BY <1>2, <2>4, RequestIn DEF RequestKinds, ReadKinds
  <2>6. Accept(h, q, "deciding", <<>>)
    BY <2>3
  <2>. QED
    BY <2>5, <2>6 DEF ReadKinds
<1>4. CASE Retract(h)
  <2>1. PICK r \in Reads : \E spine \in {s \in Spines(r) : Claims[r][s].key # NoKey} :
            Accept(h, Request("retract", r, spine, NoKey, NoAnswer), "deciding", <<>>)
    BY <1>4 DEF Retract
  <2>2. PICK spine \in {s \in Spines(r) : Claims[r][s].key # NoKey} :
            Accept(h, Request("retract", r, spine, NoKey, NoAnswer), "deciding", <<>>)
    BY <2>1
  <2>3. spine \in Nat
    BY ClaimFacts
  <2>. DEFINE q == Request("retract", r, spine, NoKey, NoAnswer)
  <2>5. q \in RequestSet /\ q.kind = "retract"
    BY <1>2, <2>3, RequestIn DEF RequestKinds, ReadKinds
  <2>6. Accept(h, q, "deciding", <<>>)
    BY <2>2
  <2>. QED
    BY <2>5, <2>6 DEF ReadKinds
<1>5. CASE Restore(h)
  <2>1. PICK r \in Reads : \E spine \in Spines(r) :
            Accept(h, Request("restore", r, spine, NoKey, NoAnswer), "deciding", <<>>)
    BY <1>5 DEF Restore
  <2>2. PICK spine \in Spines(r) :
            Accept(h, Request("restore", r, spine, NoKey, NoAnswer), "deciding", <<>>)
    BY <2>1
  <2>3. spine \in Nat
    BY ClaimFacts
  <2>. DEFINE q == Request("restore", r, spine, NoKey, NoAnswer)
  <2>5. q \in RequestSet /\ q.kind = "restore"
    BY <1>2, <2>3, RequestIn DEF RequestKinds, ReadKinds
  <2>6. Accept(h, q, "deciding", <<>>)
    BY <2>2
  <2>. QED
    BY <2>5, <2>6 DEF ReadKinds
<1>6. ASSUME NEW site \in Sites, NEW key \in Keys, questions[site][key] # None
      PROVE  questions[site][key] \in Reads
  BY <1>1, <1>6
<1>7. CASE AnswerQuestion(h)
  <2>1. PICK site \in Sites, key \in Keys :
            /\ questions[site][key] # None
            /\ \E answer \in UNION {AnswersTo(questions[site][key], s) :
                                        s \in Group(questions[site][key], key)} :
                 Accept(h, Request("answer", questions[site][key], None, key, answer),
                        "deciding", <<>>)
    BY <1>7 DEF AnswerQuestion
  <2>. DEFINE r == questions[site][key]
  <2>2. r \in Reads
    BY <1>6, <2>1
  <2>. HIDE DEF r
  <2>3. PICK answer \in UNION {AnswersTo(r, s) : s \in Group(r, key)} :
            Accept(h, Request("answer", r, None, key, answer), "deciding", <<>>)
    BY <2>1 DEF r
  <2>4. answer \in AnswerSet /\ Answers(answer)
    <3>1. ASSUME NEW s \in Spines(r), answer \in AnswersTo(r, s)
          PROVE  answer \in AnswerSet /\ Answers(answer)
      BY <1>1, <2>2, <3>1, AnswersToFacts
    <3>. QED
      BY <2>3, <3>1 DEF Group
  <2>. DEFINE q == Request("answer", r, None, key, answer)
  <2>5. q \in RequestSet /\ q.kind = "answer"
    BY <1>2, <2>2, <2>4, RequestIn DEF RequestKinds, ReadKinds
  <2>6. Accept(h, q, "deciding", <<>>)
    BY <2>3
  <2>. QED
    BY <2>5, <2>6 DEF ReadKinds
<1>8. CASE SkipQuestion(h)
  <2>1. PICK site \in Sites, key \in Keys :
            /\ questions[site][key] # None
            /\ Accept(h, Request("skip", questions[site][key], None, key, NoAnswer),
                      "deciding", <<>>)
    BY <1>8 DEF SkipQuestion
  <2>. DEFINE r == questions[site][key]
  <2>2. r \in Reads
    BY <1>6, <2>1
  <2>. HIDE DEF r
  <2>. DEFINE q == Request("skip", r, None, key, NoAnswer)
  <2>5. q \in RequestSet /\ q.kind = "skip"
    BY <1>2, <2>2, RequestIn DEF RequestKinds, ReadKinds
  <2>6. Accept(h, q, "deciding", <<>>)
    BY <2>1 DEF r
  <2>. QED
    BY <2>5, <2>6 DEF ReadKinds
<1>. QED
  BY <1>3, <1>4, <1>5, <1>7, <1>8 DEF AskedOfARead

HandKinds == RequestKinds \ ReadKinds

LEMMA EditRequestIn ==
  ASSUME NEW kind \in HandKinds, NEW key \in Keys \cup {NoKey}
  PROVE  LET q == EditRequest(kind, key)
         IN  q \in RequestSet /\ q.kind = kind /\ q.key = key
<1>1. /\ NoAnswer \in AnswerSet /\ Answers(NoAnswer) /\ None \in Nat /\ kind \in RequestKinds
      /\ None \in Reads \cup {None}
      /\ kind \notin ReadKinds
  BY NoAnswerIn DEF None, HandKinds
<1>2. kind \notin {"retract", "restore"} /\ kind \notin {"answer", "skip"} /\ kind # "retract"
  BY <1>1 DEF ReadKinds
<1>. DEFINE q == Request(kind, None, None, key, NoAnswer)
<1>3. q \in RequestSet /\ q.kind = kind /\ q.key = key
  BY <1>1, <1>2, RequestIn
<1>. QED
  BY <1>3 DEF EditRequest

\* A request of the Books tab, as it is taken: its plan is made at once.
Handled(h, q, todo) ==
    /\ q \in RequestSet /\ q.kind \in HandKinds /\ todo \in Seq(StoreCalls(minted))
    /\ Accept(h, q, "writing", todo) /\ SoundPlan(todo, books, q.kind)
    /\ q.kind = "delete" =>
          \E b \in DOMAIN books : q.key = books[b].key /\ todo = DeleteWrites(b, books)
    /\ \A i \in DOMAIN todo : todo[i].op # "ask"

LEMMA HandledOne ==
  ASSUME NEW h, NEW kind \in HandKinds \ {"delete"}, NEW key \in Keys \cup {NoKey}, NEW w,
         Accept(h, EditRequest(kind, key), "writing", <<w>>),
         <<w>> \in Seq(StoreCalls(minted)), SoundPlan(<<w>>, books, kind), w.op # "ask"
  PROVE  \E q, todo : Handled(h, q, todo)
<1>1. /\ EditRequest(kind, key) \in RequestSet /\ EditRequest(kind, key).kind = kind
  BY EditRequestIn
<1>. DEFINE q == EditRequest(kind, key)
            todo == <<w>>
<1>2. \A i \in DOMAIN todo : todo[i] = w
  OBVIOUS
<1>3. q \in RequestSet /\ q.kind = kind /\ kind \in HandKinds /\ kind # "delete"
  BY <1>1
<1>4. Accept(h, q, "writing", todo) /\ todo \in Seq(StoreCalls(minted)) /\ SoundPlan(todo, books, kind)
  OBVIOUS
<1>. HIDE DEF q, todo
<1>5. Handled(h, q, todo)
  BY <1>2, <1>3, <1>4 DEF Handled
<1>. QED
  BY <1>5

\* Every request of the Books tab is one book or copy edited, added or deleted.
LEMMA HandForm ==
  ASSUME Typed, NEW h \in Handlers, ByHand(h)
  PROVE  \E q, todo : Handled(h, q, todo)
<1>1. minted \in Nat /\ books \in Libraries(minted)
  BY DEF Typed
<1>2. \A b \in DOMAIN books : books[b] \in BookRows(minted) /\ b \in 1 .. minted
  BY <1>1, LibraryFields
<1>3. \A b \in DOMAIN books : books[b].key \in Keys
  BY <1>1, <1>2, BookFields
<1>4. {"approve", "rename", "delete", "create", "copy", "patch", "lend", "return"} \subseteq HandKinds
  BY DEF HandKinds, RequestKinds, ReadKinds
<1>5. NoKey \in Keys \cup {NoKey} /\ Keys \subseteq Keys \cup {NoKey}
  OBVIOUS
<1>6. ASSUME NEW kind \in HandKinds \ {"delete"}, NEW key \in Keys \cup {NoKey},
             NEW b \in DOMAIN books, NEW w, Edits(books[b], w, minted, kind),
             Accept(h, EditRequest(kind, key), "writing", <<Save(b, w)>>)
      PROVE  \E q, todo : Handled(h, q, todo)
  <2>1. <<Save(b, w)>> \in Seq(StoreCalls(minted)) /\ SoundPlan(<<Save(b, w)>>, books, kind)
    BY <1>1, <1>6, EditPlan
  <2>2. Save(b, w).op # "ask"
    BY DEF Save
  <2>. QED
    BY <1>6, <2>1, <2>2, HandledOne
<1>7. LET x == Copy(NoSite, ManualStatus, <<>>)
      IN  x \in CopyType
  <2>1. <<>> \in Seq(Reads \X Nat)
    OBVIOUS
  <2>. QED
    BY <2>1 DEF Copy, CopyType, Lending, AutoStatus, ManualStatus
<1>8. CASE ApproveBook(h)
  <2>1. PICK b \in DOMAIN books :
            Accept(h, EditRequest("approve", NoKey), "writing", <<Save(b, Approve(books[b]))>>)
    BY <1>8 DEF ApproveBook
  <2>2. Edits(books[b], Approve(books[b]), minted, "approve")
    BY <1>1, <1>2, ApproveFacts
  <2>. QED
    BY <1>4, <1>5, <1>6, <2>1, <2>2
<1>9. CASE RenameBook(h)
  <2>1. PICK b \in DOMAIN books, key \in Keys :
            Accept(h, EditRequest("rename", key), "writing", <<Save(b, Edit(books[b], key))>>)
    BY <1>9 DEF RenameBook
  <2>2. Edits(books[b], Edit(books[b], key), minted, "rename")
    BY <1>1, <1>2, EditFacts
  <2>. QED
    BY <1>4, <1>5, <1>6, <2>1, <2>2
<1>10. CASE RemoveBook(h)
  <2>1. PICK b \in DOMAIN books :
            Accept(h, EditRequest("delete", books[b].key), "writing", DeleteWrites(b, books))
    BY <1>10 DEF RemoveBook
  <2>. DEFINE q == EditRequest("delete", books[b].key)
              todo == DeleteWrites(b, books)
  <2>2. q \in RequestSet /\ q.kind = "delete" /\ q.key = books[b].key
    BY <1>3, <1>4, <1>5, EditRequestIn
  <2>3. /\ todo \in Seq(StoreCalls(minted)) /\ SoundPlan(todo, books, "delete")
        /\ \A i \in DOMAIN todo : todo[i] = DeleteBook(b, "stop") \/ todo[i].op = "decide"
    BY <1>1, DeleteSound
  <2>4. DeleteBook(b, "stop").op # "ask"
    BY DEF DeleteBook
  <2>5. Accept(h, q, "writing", todo) /\ todo = DeleteWrites(b, books)
    BY <2>1
  <2>. HIDE DEF q, todo
  <2>6. Handled(h, q, todo)
    BY <1>4, <2>2, <2>3, <2>4, <2>5 DEF Handled
  <2>. QED
    BY <2>6
<1>11. CASE CreateBook(h)
  <2>. DEFINE x == Copy(NoSite, ManualStatus, <<>>)
              n == Cardinality(Reads) + 1
  <2>1. PICK key \in Keys : Accept(h, EditRequest("create", key), "writing", <<SaveNew(key, x, n)>>)
    BY <1>11 DEF CreateBook
  <2>2. n \in 1 .. Cardinality(Reads) + 1 /\ x \in CopyType
    BY <1>7, ReadsAreNumbered, FS_CardinalityType
  <2>. HIDE DEF x, n
  <2>. DEFINE w == SaveNew(key, x, n)
  <2>3. w \in StoreCalls(minted) /\ w.op = "save_new"
    BY <1>1, <2>2, CallIntro
  <2>. HIDE DEF w
  <2>4. CallSound(w, books, "create") /\ ~Settles(w)
    BY <2>3 DEF CallSound, Touches, Settles
  <2>5. <<w>> \in Seq(StoreCalls(minted)) /\ SoundPlan(<<w>>, books, "create")
    BY <2>3, <2>4, OneCall
  <2>6. Accept(h, EditRequest("create", key), "writing", <<w>>)
    BY <2>1 DEF w
  <2>. QED
    BY <1>4, <1>5, <2>3, <2>5, <2>6, HandledOne
<1>12. CASE CreateCopy(h)
  <2>. DEFINE x == Copy(NoSite, ManualStatus, <<>>)
  <2>1. PICK b \in DOMAIN books :
            Accept(h, EditRequest("copy", NoKey), "writing", <<SaveCopy(b, books[b], x)>>)
    BY <1>12 DEF CreateCopy
  <2>2. x \in CopyType
    BY <1>7
  <2>. HIDE DEF x
  <2>3. /\ <<SaveCopy(b, books[b], x)>> \in Seq(StoreCalls(minted))
        /\ SoundPlan(<<SaveCopy(b, books[b], x)>>, books, "copy")
    BY <1>1, <2>2, EditPlan
  <2>4. SaveCopy(b, books[b], x).op # "ask"
    BY DEF SaveCopy
  <2>. QED
    BY <1>4, <1>5, <2>1, <2>3, <2>4, HandledOne
<1>13. CASE PatchCopy(h)
  <2>1. PICK b \in DOMAIN books, label \in Labels :
            \E c \in CopyIds(books[b]) : OnCopy(h, "patch", b, EditCopy(books[b], c, label))
    BY <1>13 DEF PatchCopy
  <2>2. PICK c \in CopyIds(books[b]) : OnCopy(h, "patch", b, EditCopy(books[b], c, label))
    BY <2>1
  <2>3. Edits(books[b], EditCopy(books[b], c, label), minted, "patch")
    BY <1>1, <1>2, CopyEdits
  <2>. QED
    BY <1>4, <1>5, <1>6, <2>2, <2>3 DEF OnCopy
<1>14. CASE LendCopy(h)
  <2>1. PICK b \in DOMAIN books, to \in Borrowers :
            \E c \in CopyIds(books[b]) :
               MayLend(books[b], c) /\ OnCopy(h, "lend", b, Lend(books[b], c, to))
    BY <1>14 DEF LendCopy
  <2>2. PICK c \in CopyIds(books[b]) :
            MayLend(books[b], c) /\ OnCopy(h, "lend", b, Lend(books[b], c, to))
    BY <2>1
  <2>3. Edits(books[b], Lend(books[b], c, to), minted, "lend")
    BY <1>1, <1>2, <2>2, CopyEdits
  <2>. QED
    BY <1>4, <1>5, <1>6, <2>2, <2>3 DEF OnCopy
<1>15. CASE TakeCopyBack(h)
  <2>1. PICK b \in DOMAIN books :
            \E c \in CopyIds(books[b]) :
               MayReturn(books[b], c) /\ OnCopy(h, "return", b, ReturnCopy(books[b], c))
    BY <1>15 DEF TakeCopyBack
  <2>2. PICK c \in CopyIds(books[b]) :
            MayReturn(books[b], c) /\ OnCopy(h, "return", b, ReturnCopy(books[b], c))
    BY <2>1
  <2>3. Edits(books[b], ReturnCopy(books[b], c), minted, "return")
    BY <1>1, <1>2, <2>2, CopyEdits
  <2>. QED
    BY <1>4, <1>5, <1>6, <2>2, <2>3 DEF OnCopy
<1>. QED
  BY <1>8, <1>9, <1>10, <1>11, <1>12, <1>13, <1>14, <1>15 DEF ByHand

\* A decided request goes on to write: its plan, and what the plan was made from.
Removes(todo, r, spine, L) ==
    \E D : LET o == OutcomeOf(r, spine, L, D)
           IN  /\ Len(todo) >= 2
               /\ \E k \in {"rejected", "wrong_book"} :
                     todo[1] = Decide(SiteOf[r], o.key, Decision(k, None))
               /\ \A i \in DOMAIN todo : i # 1 => todo[i].op # "decide"

Begun(h, todo) ==
    LET q == job[h].req
        L == job[h].library
    IN  /\ job[h].at = "deciding" /\ Begin(h, todo)
        /\ todo \in Seq(StoreCalls(minted)) /\ SoundPlan(todo, L, q.kind)
        /\ \A i \in DOMAIN todo : todo[i].op = "ask" =>
              decisions[todo[i].site][todo[i].key].kind \notin ClosingKinds
        /\ q.kind = "apply" /\ q.answer = NoAnswer =>
              \A i \in DOMAIN todo : Unsuppressed(todo[i], L, decisions)
        /\ q.kind = "retract" => Removes(todo, q.read, q.spine, L)
        /\ q.kind # "delete"

RetractPlan(m, L, D, r, spine, kind) ==
    LET o == OutcomeOf(r, spine, L, D)
        todo == RetractWrites(r, o, L)
    IN  /\ todo \in Seq(StoreCalls(m)) /\ SoundPlan(todo, L, kind)
        /\ Len(todo) >= 2
        /\ \E k \in {"rejected", "wrong_book"} :
              todo[1] = Decide(SiteOf[r], o.key, Decision(k, None))
        /\ \A i \in DOMAIN todo : todo[i].op # "ask" /\ (i # 1 => todo[i].op # "decide")

LEMMA RetractPlanSound ==
  ASSUME NEW m \in Nat, NEW L \in Libraries(m), NEW D, NEW r \in Reads, NEW spine, NEW kind,
         Claims[r][spine].key \in Keys, Claims[r][spine].key # NoKey
  PROVE  RetractPlan(m, L, D, r, spine, kind)
BY RetractSound DEF RetractPlan

\* Every plan made from a diff is a sound one.
LEMMA PlanForm ==
  ASSUME Typed, NEW h \in Handlers, PlanApply(h) \/ PlanRetract(h) \/ PlanAnswer(h)
  PROVE  \E todo : Begun(h, todo)
<1>. DEFINE q == job[h].req
            L == job[h].library
            r == q.read
            D == decisions[SiteOf[r]]
            dec == decisions
<1>1. minted \in Nat /\ q \in RequestSet /\ L \in Libraries(minted) /\ Asked(q) /\ q \in RequestShape
  <2>1. minted \in Nat /\ GoodJob(job[h], minted)
    BY DEF Typed
  <2>. QED
    BY <2>1, JobFields
<1>2. /\ Answers(q.answer) /\ q.answer \in AnswerSet
      /\ q.kind \in ReadKinds => r \in Reads
      /\ q.kind = "retract" => q.spine \in Spines(r) /\ Claims[r][q.spine].key # NoKey
      /\ q.kind \in {"answer", "skip"} => q.key \in Keys
  BY <1>1 DEF Asked, RequestShape
<1>3. /\ DecidedAt(h) = D /\ D = dec[SiteOf[r]] /\ dec = decisions
      /\ q = job[h].req /\ L = job[h].library /\ r = q.read
  BY DEF DecidedAt
<1>. HIDE DEF q, L, r, D, dec
<1>a. ASSUME NEW todo, job[h].at = "deciding", Begin(h, todo), q.kind # "delete",
             todo \in Seq(StoreCalls(minted)), SoundPlan(todo, L, q.kind),
             \A i \in DOMAIN todo : todo[i].op = "ask" =>
                 todo[i].site = SiteOf[r] /\ D[todo[i].key].kind \notin ClosingKinds,
             q.kind = "apply" /\ q.answer = NoAnswer =>
                 \A i \in DOMAIN todo : Unsuppressed(todo[i], L, dec),
             q.kind = "retract" => Removes(todo, r, q.spine, L)
      PROVE  Begun(h, todo)
  <2>1. \A i \in DOMAIN todo : todo[i].op = "ask" =>
              dec[todo[i].site][todo[i].key].kind \notin ClosingKinds
    BY <1>3, <1>a
  <2>. QED
    BY <1>3, <1>a, <2>1 DEF Begun
<1>4. CASE PlanApply(h)
  <2>. DEFINE todo == ApplyWrites(r, q.answer, L, D)
  <2>1. job[h].at = "deciding" /\ q.kind = "apply" /\ Begin(h, todo) /\ r \in Reads
    BY <1>2, <1>3, <1>4 DEF PlanApply, Deciding, ReadKinds
  <2>2. /\ todo \in Seq(StoreCalls(minted)) /\ SoundPlan(todo, L, q.kind)
        /\ \A i \in DOMAIN todo : todo[i].op = "ask" =>
              todo[i].site = SiteOf[r] /\ D[todo[i].key].kind \notin ClosingKinds
    BY <1>1, <1>2, <2>1, ApplySound
  <2>3. q.answer = NoAnswer => \A i \in DOMAIN todo : Unsuppressed(todo[i], L, dec)
    <3>1. LET t == ApplyWrites(r, NoAnswer, L, dec[SiteOf[r]])
          IN  \A i \in DOMAIN t : Unsuppressed(t[i], L, dec)
      BY <1>1, <2>1, ApplyUnsuppressed
    <3>. QED
      BY <1>3, <3>1
  <2>. HIDE DEF todo
  <2>. QED
    BY <1>a, <2>1, <2>2, <2>3
<1>5. CASE PlanRetract(h)
  <2>. DEFINE o == OutcomeOf(r, q.spine, L, D)
              todo == RetractWrites(r, o, L)
  <2>1. job[h].at = "deciding" /\ q.kind = "retract" /\ Begin(h, todo) /\ r \in Reads
    BY <1>2, <1>3, <1>5 DEF PlanRetract, Deciding, ReadKinds
  <2>2. Claims[r][q.spine].key \in Keys /\ Claims[r][q.spine].key # NoKey
    BY <1>2, <2>1, ClaimFacts
  <2>3. /\ todo \in Seq(StoreCalls(minted)) /\ SoundPlan(todo, L, q.kind)
        /\ Len(todo) >= 2
        /\ \E k \in {"rejected", "wrong_book"} :
              todo[1] = Decide(SiteOf[r], o.key, Decision(k, None))
        /\ \A i \in DOMAIN todo : todo[i].op # "ask" /\ (i # 1 => todo[i].op # "decide")
    <3>1. RetractPlan(minted, L, D, r, q.spine, q.kind)
      BY <1>1, <2>1, <2>2, RetractPlanSound
    <3>. QED
      BY <3>1 DEF RetractPlan
  <2>. HIDE DEF todo
  <2>4. Removes(todo, r, q.spine, L)
    BY <2>3 DEF Removes
  <2>. QED
    BY <1>a, <2>1, <2>3, <2>4
<1>6. CASE PlanAnswer(h)
  <2>. DEFINE asked == {o \in ToSet(Diff(r, L, D)) : o.reason = "ambiguous_location" /\ o.key = q.key}
              o == CHOOSE o \in asked : TRUE
              answer == IF q.kind = "answer" THEN [q.answer EXCEPT !.spine = o.spine]
                        ELSE [spine |-> o.spine, kind |-> "already_listed", key |-> o.key,
                              copy |-> PickDefaultCopy(L[o.book])]
              one == <<CloseQuestion(SiteOf[r], q.key)>>
              all == ApplyWrites(r, answer, L, D)
  <2>1. /\ job[h].at = "deciding" /\ q.kind \in {"answer", "skip"} /\ r \in Reads /\ q.key \in Keys
        /\ Begin(h, IF asked = {} THEN one ELSE all)
    <3>1. job[h].at = "deciding" /\ q.kind \in {"answer", "skip"}
      <4>1. Deciding(h, "answer") \/ Deciding(h, "skip")
        BY <1>6, Zenon DEF PlanAnswer
      <4>. QED
        BY <1>3, <4>1 DEF Deciding
    <3>2. Begin(h, IF asked = {} THEN one ELSE all)
      BY <1>6, Zenon DEF PlanAnswer, DecidedAt, q, L, r, D, dec
    <3>. QED
      BY <1>2, <3>1, <3>2 DEF ReadKinds
  <2>2. CASE asked = {}
    <3>1. Begin(h, one)
      BY <2>1, <2>2
    <3>. DEFINE w == CloseQuestion(SiteOf[r], q.key)
    <3>2. w \in StoreCalls(minted) /\ w.op = "close"
      <4>1. SiteOf[r] \in Sites
        BY <2>1, ClaimFacts
      <4>. QED
        BY <1>1, <2>1, <4>1, CallIntro
    <3>. HIDE DEF w
    <3>3. CallSound(w, L, q.kind) /\ ~Settles(w)
      BY <3>2 DEF CallSound, Touches, Settles
    <3>4. <<w>> \in Seq(StoreCalls(minted)) /\ SoundPlan(<<w>>, L, q.kind)
      BY <3>2, <3>3, OneCall
    <3>5. one = <<w>> /\ \A i \in DOMAIN one : one[i].op # "ask"
      BY <3>2 DEF w
    <3>. HIDE DEF one
    <3>. QED
      BY <1>a, <2>1, <3>1, <3>4, <3>5
  <2>3. CASE asked # {}
    <3>1. Begin(h, all)
      BY <2>1, <2>3
    <3>2. Answers(answer)
      <4>1. q.kind = "answer" => answer.kind = q.answer.kind /\ answer.key = q.answer.key
        BY <1>2 DEF AnswerSet
      <4>2. q.kind # "answer" => answer.kind = "already_listed"
        OBVIOUS
      <4>. HIDE DEF answer
      <4>. QED
        BY <1>2, <4>1, <4>2 DEF Answers
    <3>. HIDE DEF answer
    <3>3. /\ all \in Seq(StoreCalls(minted)) /\ SoundPlan(all, L, q.kind)
          /\ \A i \in DOMAIN all : all[i].op = "ask" =>
                all[i].site = SiteOf[r] /\ D[all[i].key].kind \notin ClosingKinds
      BY <1>1, <2>1, <3>2, ApplySound
    <3>. HIDE DEF all
    <3>. QED
      BY <1>a, <2>1, <3>1, <3>3
  <2>. QED
    BY <2>2, <2>3
<1>. QED
  BY <1>4, <1>5, <1>6

-----------------------------------------------------------------------------
(* Every step keeps the library sound *)

LEMMA AcceptStep ==
  ASSUME Sound, NEW h \in Handlers, NEW q \in RequestSet, NEW at, NEW todo, Accept(h, q, at, todo),
         GoodJob(Working(at, q, books, todo), minted),
         Working(at, q, books, todo).library \in {books, <<>>}
  PROVE  Sound'
<1>. DEFINE j == Working(at, q, books, todo)
<1>1. h \in play.handlers /\ job' = [job EXCEPT ![h] = j]
      /\ UNCHANGED <<books, decisions, questions, minted, play>>
  BY DEF Accept
<1>2. GoodJob(j, minted) /\ j.library \in {books, job[h].library, <<>>}
  OBVIOUS
<1>. HIDE DEF j
<1>3. /\ decisions' \in [Sites -> [Keys -> Decisions(minted)]]
      /\ questions' \in [Sites -> [Keys -> Reads \cup {None}]]
  BY <1>1 DEF Sound, Typed
<1>. QED
  BY <1>1, <1>2, <1>3, JobOnly

\* A request that is taken: its handler reads the books, or writes at once.
LEMMA AskedStep ==
  ASSUME Sound, NEW h \in Handlers, AskedOfARead(h)
  PROVE  Sound'
<1>1. Typed /\ minted \in Nat /\ books \in Libraries(minted)
  BY DEF Sound, Typed
<1>2. PICK q \in RequestSet : q.kind \in ReadKinds /\ Accept(h, q, "deciding", <<>>)
  BY <1>1, AskedForm
<1>. DEFINE j == Working("deciding", q, books, <<>>)
<1>3. j = [at |-> "deciding", req |-> q, library |-> books, todo |-> <<>>] /\ GoodJob(j, minted)
  BY <1>1, <1>2, WorkingGood
<1>4. j.library = books
  BY <1>3
<1>. QED
  BY <1>2, <1>3, <1>4, AcceptStep

LEMMA HandStep ==
  ASSUME Sound, NEW h \in Handlers, ByHand(h)
  PROVE  Sound'
<1>1. Typed /\ minted \in Nat /\ books \in Libraries(minted)
  BY DEF Sound, Typed
<1>2. PICK q, todo : Handled(h, q, todo)
  BY <1>1, HandForm
<1>3. /\ q \in RequestSet /\ todo \in Seq(StoreCalls(minted)) /\ SoundPlan(todo, books, q.kind)
      /\ Accept(h, q, "writing", todo)
  BY <1>2 DEF Handled
<1>. DEFINE j == Working("writing", q, books, todo)
<1>4. /\ GoodJob(j, minted)
      /\ j = Idle \/ j = [at |-> "writing", req |-> q, library |-> books, todo |-> todo]
  BY <1>1, <1>3, WorkingGood
<1>5. Idle.library = <<>>
  BY DEF Idle
<1>. HIDE DEF j
<1>6. j.library \in {books, <<>>}
  BY <1>4, <1>5
<1>. QED
  BY <1>3, <1>4, <1>6, AcceptStep DEF j

\* A request goes on: its own books, or none, and what it does next.
LEMMA GoesOn ==
  ASSUME Sound, NEW h \in Handlers, job[h] # Idle, NEW j, GoodJob(j, minted),
         j.library \in {books, job[h].library, <<>>}, job' = [job EXCEPT ![h] = j],
         UNCHANGED <<books, decisions, questions, minted, play>>
  PROVE  Sound'
<1>1. h \in play.handlers
  BY DEF Sound, Typed
<1>2. /\ decisions' \in [Sites -> [Keys -> Decisions(minted)]]
      /\ questions' \in [Sites -> [Keys -> Reads \cup {None}]]
  BY DEF Sound, Typed
<1>. QED
  BY <1>1, <1>2, JobOnly

LEMMA PlanStep ==
  ASSUME Sound, NEW h \in Handlers, NEW todo, Begun(h, todo)
  PROVE  Sound'
<1>1. minted \in Nat /\ GoodJob(job[h], minted)
  BY DEF Sound, Typed
<1>. DEFINE q == job[h].req
            L == job[h].library
            j == Working("writing", q, L, todo)
<1>2. q \in RequestSet /\ L \in Libraries(minted)
  BY <1>1, JobFields
<1>3. /\ todo \in Seq(StoreCalls(minted)) /\ SoundPlan(todo, L, q.kind)
      /\ job[h].at = "deciding" /\ Begin(h, todo)
  BY DEF Begun
<1>. HIDE DEF q, L
<1>4. /\ GoodJob(j, minted)
      /\ j = Idle \/ j = [at |-> "writing", req |-> q, library |-> L, todo |-> todo]
  BY <1>1, <1>2, <1>3, WorkingGood
<1>5. Idle.library = <<>> /\ job[h] # Idle
  BY <1>3 DEF Idle
<1>6. job' = [job EXCEPT ![h] = j] /\ UNCHANGED <<books, decisions, questions, minted, play>>
  BY <1>3 DEF Begin, q, L
<1>. HIDE DEF j
<1>7. j.library \in {books, L, <<>>}
  BY <1>4, <1>5
<1>. QED
  BY <1>4, <1>5, <1>6, <1>7, GoesOn DEF L

LEMMA RestoreForm ==
  ASSUME Typed, NEW h \in Handlers, PlanRestore(h)
  PROVE  \E q \in RequestSet :
            /\ q.kind \in ReadKinds /\ job[h].at = "deciding"
            /\ job' = [job EXCEPT ![h] = Working("undoing", q, <<>>, <<>>)]
            /\ UNCHANGED <<books, decisions, questions, minted, play, requests, crashes>>
<1>. DEFINE q == job[h].req
            o == OutcomeOf(q.read, q.spine, job[h].library, DecidedAt(h))
            p == [q EXCEPT !.key = o.key]
<1>1. job[h].at = "deciding" /\ q.kind = "restore"
  BY DEF PlanRestore, Deciding
<1>2. /\ minted \in Nat /\ q \in RequestSet /\ Asked(q) /\ q \in RequestShape
      /\ job[h].library \in Libraries(minted)
  <2>1. minted \in Nat /\ GoodJob(job[h], minted)
    BY DEF Typed
  <2>. QED
    BY <2>1, JobFields
<1>3. o.key \in Keys \cup {NoKey}
  <2>. DEFINE r == q.read
              spine == q.spine
              L == job[h].library
              D == DecidedAt(h)
  <2>1. r \in Reads /\ spine \in Spines(r) /\ L \in Libraries(minted)
    BY <1>1, <1>2 DEF Asked, ReadKinds
  <2>2. Claims[r][spine].key \in Keys \cup {NoKey}
    BY <2>1, ClaimFacts
  <2>3. Claims[r][spine].key \in Keys /\ Claims[r][spine].key # NoKey => o.key \in Keys
    <3>. HIDE DEF r, spine, L, D
    <3>1. Claims[r][spine].key \in Keys /\ Claims[r][spine].key # NoKey =>
            LET x == OutcomeOf(r, spine, L, D)
            IN  /\ x.key \in Keys /\ x.book \in DOMAIN L \cup {None}
                /\ x.reason = "ambiguous_location" =>
                     x.book \in DOMAIN L /\ CopiesAt(L[x.book], SiteOf[r]) = {}
      BY <1>2, <2>1, OutcomeFacts
    <3>. QED
      BY <3>1 DEF r, spine, L, D
  <2>4. Claims[r][spine].key = NoKey => o.key = NoKey
    BY DEF OutcomeOf, Outcome
  <2>. QED
    BY <2>2, <2>3, <2>4
<1>. HIDE DEF o
<1>4. p \in RequestShape /\ p.kind = q.kind /\ p.read = q.read /\ p.spine = q.spine /\ p.answer = q.answer
  BY <1>2, <1>3 DEF RequestShape
<1>5. p \in RequestSet
  BY <1>1, <1>2, <1>4 DEF RequestSet, Asked
<1>6. /\ job' = [job EXCEPT ![h] = Working("undoing", p, <<>>, <<>>)]
      /\ UNCHANGED <<books, decisions, questions, minted, play, requests, crashes>>
  BY DEF PlanRestore, o
<1>7. p.kind \in ReadKinds
  BY <1>1, <1>4 DEF ReadKinds
<1>. QED
  BY <1>1, <1>5, <1>6, <1>7

LEMMA RestoreStep ==
  ASSUME Sound, NEW h \in Handlers, PlanRestore(h)
  PROVE  Sound'
<1>1. minted \in Nat /\ Typed /\ <<>> \in Libraries(minted)
  BY EmptyMap DEF Sound, Typed, Libraries
<1>2. PICK q \in RequestSet :
            /\ q.kind \in ReadKinds /\ job[h].at = "deciding"
            /\ job' = [job EXCEPT ![h] = Working("undoing", q, <<>>, <<>>)]
            /\ UNCHANGED <<books, decisions, questions, minted, play, requests, crashes>>
  BY <1>1, RestoreForm
<1>. DEFINE j == Working("undoing", q, <<>>, <<>>)
<1>3. GoodJob(j, minted) /\ j = [at |-> "undoing", req |-> q, library |-> <<>>, todo |-> <<>>]
  BY <1>1, <1>2, WorkingGood
<1>4. j.library = <<>> /\ job[h] # Idle
  BY <1>2, <1>3 DEF Idle
<1>. HIDE DEF j
<1>5. job' = [job EXCEPT ![h] = j] /\ UNCHANGED <<books, decisions, questions, minted, play>>
  BY <1>2 DEF j
<1>. QED
  BY <1>3, <1>4, <1>5, GoesOn

\* A decision deleted, the read applied afresh, and a crash.
LEMMA UndoStep ==
  ASSUME Sound, NEW h \in Handlers, Undo(h)
  PROVE  Sound'
<1>. DEFINE q == job[h].req
            site == SiteOf[q.read]
            key == q.key
            j == IF Stands(site, key) THEN [job[h] EXCEPT !.at = "undone"] ELSE Idle
<1>1. /\ minted \in Nat /\ GoodJob(job[h], minted)
      /\ decisions \in [Sites -> [Keys -> Decisions(minted)]]
      /\ questions \in [Sites -> [Keys -> Reads \cup {None}]]
      /\ job \in [Handlers -> Jobs(minted)]
      /\ h \in Handlers
  BY DEF Sound, Typed
<1>2. job[h].at = "undoing" /\ job[h] # Idle /\ q.kind \in ReadKinds
  <2>1. job[h].at = "undoing"
    BY DEF Undo
  <2>. QED
    BY <1>1, <2>1 DEF Idle, GoodJob
<1>3. q \in RequestShape /\ Asked(q) /\ job[h].library \in Libraries(minted)
  BY <1>1, JobFields
<1>4. site \in Sites /\ key \in Keys \cup {NoKey}
  <2>1. q.read \in Reads
    BY <1>2, <1>3 DEF Asked
  <2>. QED
    BY <1>3, <2>1, ClaimFacts DEF RequestShape
<1>5. GoodJob(j, minted) /\ j.library \in {job[h].library, <<>>}
  <2>1. CASE Stands(site, key)
    <3>. DEFINE k == [job[h] EXCEPT !.at = "undone"]
    <3>1. job[h] \in Jobs(minted) /\ job[h].todo = <<>>
      BY <1>1, <1>2 DEF GoodJob
    <3>2. /\ k \in Jobs(minted) /\ k.at = "undone" /\ k.req = q /\ k.todo = job[h].todo
          /\ k.library = job[h].library
      BY <3>1 DEF Jobs
    <3>. HIDE DEF k
    <3>3. GoodJob(k, minted)
      BY <1>2, <3>1, <3>2 DEF GoodJob
    <3>. QED
      BY <2>1, <3>2, <3>3 DEF k
  <2>2. CASE ~Stands(site, key)
    <3>1. j = Idle
      BY <2>2
    <3>. QED
      BY <1>1, <3>1, IdleGood
  <2>. QED
    BY <2>1, <2>2
<1>6. /\ job' = [job EXCEPT ![h] = j] /\ decisions' = Cleared(site, key)
      /\ UNCHANGED <<books, questions, minted, play>>
  BY <1>1 DEF Undo
<1>. HIDE DEF j
<1>7. decisions' \in [Sites -> [Keys -> Decisions(minted)]]
  <2>. HIDE DEF site, key
  <2>1. NoDecision \in Decisions(minted)
    BY <1>1 DEF NoDecision, Decision, Decisions, None, DecisionKinds
  <2>2. CASE Stands(site, key)
    <3>1. key \in Keys
      BY <1>4, <2>2 DEF Stands
    <3>2. decisions' = [decisions EXCEPT ![site][key] = NoDecision]
      BY <1>6, <2>2 DEF Cleared
    <3>. QED
      BY <1>1, <1>4, <2>1, <3>1, <3>2
  <2>3. CASE ~Stands(site, key)
    BY <1>1, <1>6, <2>3 DEF Cleared
  <2>. QED
    BY <2>2, <2>3
<1>8. h \in play.handlers
  BY <1>2 DEF Sound, Typed
<1>9. questions' \in [Sites -> [Keys -> Reads \cup {None}]]
  BY <1>1, <1>6
<1>10. UNCHANGED <<books, minted, play>> /\ j.library \in {books, job[h].library, <<>>}
  BY <1>5, <1>6
<1>. QED
  BY <1>5, <1>6, <1>7, <1>8, <1>9, <1>10, JobOnly

LEMMA ReapplyForm ==
  ASSUME Typed, NEW h \in Handlers, Reapply(h)
  PROVE  \E q \in RequestSet :
            /\ q.kind \in ReadKinds /\ job[h].at = "undone"
            /\ job' = [job EXCEPT ![h] = Working("deciding", q, books, <<>>)]
            /\ UNCHANGED <<books, decisions, questions, minted, play, requests, crashes>>
<1>. DEFINE r == job[h].req.read
            q == Request("apply", r, None, NoKey, NoAnswer)
<1>1. job[h].at = "undone" /\ minted \in Nat /\ GoodJob(job[h], minted)
  BY DEF Typed, Reapply
<1>2. r \in Reads
  <2>1. Asked(job[h].req) /\ job[h].req.kind \in ReadKinds
    BY <1>1, JobFields DEF GoodJob
  <2>. QED
    BY <2>1 DEF Asked
<1>3. NoAnswer \in AnswerSet /\ Answers(NoAnswer) /\ None \in Nat
  BY NoAnswerIn DEF None
<1>5. /\ job' = [job EXCEPT ![h] = Working("deciding", q, books, <<>>)]
      /\ UNCHANGED <<books, decisions, questions, minted, play, requests, crashes>>
  BY DEF Reapply
<1>. HIDE DEF r
<1>4. q \in RequestSet /\ q.kind = "apply"
  BY <1>2, <1>3, RequestIn DEF RequestKinds, ReadKinds
<1>. QED
  BY <1>1, <1>4, <1>5 DEF ReadKinds

LEMMA ReapplyStep ==
  ASSUME Sound, NEW h \in Handlers, Reapply(h)
  PROVE  Sound'
<1>1. minted \in Nat /\ Typed /\ books \in Libraries(minted)
  BY DEF Sound, Typed
<1>2. PICK q \in RequestSet :
            /\ q.kind \in ReadKinds /\ job[h].at = "undone"
            /\ job' = [job EXCEPT ![h] = Working("deciding", q, books, <<>>)]
            /\ UNCHANGED <<books, decisions, questions, minted, play, requests, crashes>>
  BY <1>1, ReapplyForm
<1>. DEFINE j == Working("deciding", q, books, <<>>)
<1>3. GoodJob(j, minted) /\ j = [at |-> "deciding", req |-> q, library |-> books, todo |-> <<>>]
  BY <1>1, <1>2, WorkingGood
<1>4. j.library = books /\ job[h] # Idle
  BY <1>2, <1>3 DEF Idle
<1>. HIDE DEF j
<1>5. job' = [job EXCEPT ![h] = j] /\ UNCHANGED <<books, decisions, questions, minted, play>>
  BY <1>2 DEF j
<1>. QED
  BY <1>3, <1>4, <1>5, GoesOn

LEMMA CrashStep ==
  ASSUME Sound, Crash
  PROVE  Sound'
<1>1. /\ job' = [h \in Handlers |-> Idle]
      /\ UNCHANGED <<books, decisions, questions, minted, play>>
  BY DEF Crash
<1>2. GoodJob(Idle, minted) /\ Idle.library = <<>>
  <2>1. minted \in Nat
    BY DEF Sound, Typed
  <2>. QED
    BY <2>1, IdleGood
<1>3. \A h \in Handlers : job'[h] = Idle
  BY <1>1
<1>4. Idle \in Jobs(minted)
  BY <1>2 DEF GoodJob
<1>5. job' \in [Handlers -> Jobs(minted)]
  BY <1>1, <1>4
<1>6. Typed'
  BY <1>1, <1>2, <1>3, <1>5 DEF Sound, Typed
<1>7. OneOwner'
  <2>1. PICK owner \in [1 .. minted -> 1 .. minted] : Owns(owner, books)
    BY DEF Sound, OneOwner
  <2>2. Owns(owner, <<>>)
    BY DEF Owns
  <2>3. \A g \in Handlers : Owns(owner, job'[g].library)
    BY <1>2, <1>3, <2>2
  <2>4. books' = books /\ minted' = minted
    BY <1>1
  <2>5. \E o \in [1 .. minted' -> 1 .. minted'] :
            Owns(o, books') /\ \A g \in Handlers : Owns(o, job'[g].library)
    BY <2>1, <2>3, <2>4
  <2>. QED
    BY <2>5 DEF OneOwner, Owns
<1>8. KeysNameOneBook'
  BY <1>1 DEF Sound, KeysNameOneBook
<1>. QED
  BY <1>6, <1>7, <1>8 DEF Sound

\* A write: the call that is made, and what is left to do.
LEMMA Rest ==
  ASSUME Typed, NEW h \in Handlers, job[h].at = "writing"
  PROVE  LET todo == job[h].todo
             L == job[h].library
             q == job[h].req
             w == Head(todo)
             rest == Working("writing", q, L, Tail(todo))
         IN  /\ minted \in Nat /\ L \in Libraries(minted) /\ h \in play.handlers
             /\ todo \in Seq(StoreCalls(minted)) /\ todo # <<>> /\ SoundPlan(todo, L, q.kind)
             /\ w = todo[1] /\ w \in StoreCalls(minted) /\ CallSound(w, L, q.kind)
             /\ GoodJob(rest, minted) /\ rest.library \in {L, <<>>} /\ rest # job[h]
             /\ \/ rest = Idle /\ Tail(todo) = <<>>
                \/ /\ rest = [at |-> "writing", req |-> q, library |-> L, todo |-> Tail(todo)]
                   /\ Tail(todo) # <<>>
<1>. DEFINE todo == job[h].todo
            L == job[h].library
            q == job[h].req
            w == Head(todo)
            rest == Working("writing", q, L, Tail(todo))
            S == StoreCalls(minted)
<1>1. minted \in Nat /\ GoodJob(job[h], minted) /\ job[h] # Idle
  BY DEF Typed, Idle
<1>2. /\ h \in play.handlers /\ L \in Libraries(minted) /\ todo \in Seq(S) /\ q \in RequestSet
      /\ todo # <<>> /\ SoundPlan(todo, L, q.kind)
      /\ job[h] = [at |-> job[h].at, req |-> q, library |-> L, todo |-> todo]
  <2>1. h \in play.handlers
    BY <1>1 DEF Typed
  <2>. QED
    BY <1>1, <2>1, JobFields DEF GoodJob
<1>. HIDE DEF todo, L, q, S
<1>3. /\ w = todo[1] /\ w \in S /\ Tail(todo) \in Seq(S) /\ 1 \in DOMAIN todo
      /\ DOMAIN todo = 1 .. Len(todo) /\ Len(todo) \in Nat
      /\ DOMAIN Tail(todo) = 1 .. Len(todo) - 1
  BY <1>2, TailOf
<1>4. CallSound(w, L, q.kind)
  BY <1>2, <1>3 DEF SoundPlan
<1>5. SoundPlan(Tail(todo), L, q.kind)
  BY <1>2, SoundTail
<1>6. /\ GoodJob(rest, minted)
      /\ rest = Idle \/ rest = [at |-> "writing", req |-> q, library |-> L, todo |-> Tail(todo)]
      /\ rest = Idle <=> Tail(todo) = <<>>
  <2>. DEFINE t == Tail(todo)
              j == Working("writing", q, L, t)
  <2>1. t \in Seq(StoreCalls(minted)) /\ SoundPlan(t, L, q.kind)
    BY <1>3, <1>5 DEF S
  <2>. HIDE DEF t
  <2>2. /\ GoodJob(j, minted)
        /\ j = Idle \/ j = [at |-> "writing", req |-> q, library |-> L, todo |-> t]
        /\ j = Idle <=> t = <<>>
    BY <1>1, <1>2, <2>1, WorkingGood
  <2>. QED
    BY <2>2 DEF t
<1>7. Tail(todo) # todo
  <2>. DEFINE n == Len(todo)
              t == Tail(todo)
  <2>1. n \in Nat /\ 1 \in 1 .. n /\ DOMAIN todo = 1 .. n /\ DOMAIN t = 1 .. n - 1
    BY <1>3
  <2>. HIDE DEF n, t
  <2>2. n \in DOMAIN todo /\ n \notin DOMAIN t
    BY <2>1
  <2>3. t # todo
    BY <2>2
  <2>. QED
    BY <2>3 DEF t
<1>8. Idle.library = <<>> /\ Idle.at = "idle"
  BY DEF Idle
<1>. HIDE DEF rest
<1>9. rest # job[h]
  <2>1. CASE rest = Idle
    BY <1>1, <2>1
  <2>2. CASE rest = [at |-> "writing", req |-> q, library |-> L, todo |-> Tail(todo)]
    <3>1. rest.todo = Tail(todo) /\ job[h].todo = todo
      BY <1>2, <2>2
    <3>. QED
      BY <1>7, <3>1
  <2>. QED
    BY <1>6, <2>1, <2>2
<1>10. rest.library \in {L, <<>>}
  BY <1>6, <1>8
<1>. QED
  BY <1>1, <1>2, <1>3, <1>4, <1>6, <1>9, <1>10 DEF rest, todo, L, q, S

\* A store call: which rows it writes, and where its handler goes on.
Rested(h) == Working("writing", job[h].req, job[h].library, Tail(job[h].todo))

Saved(h, n, b, x) ==
    /\ Holders(x.key, b) = {}
    /\ books' = Put(books, b, x) /\ minted' = n
    /\ job' = [job EXCEPT ![h] = Rested(h)]
    /\ UNCHANGED <<decisions, questions, play, requests, crashes>>

SavesAs(w, n, b, x) ==
    \/ w.op = "save" /\ n = minted /\ b = w.book /\ x = w.aggregate
    \/ /\ w.op = "save_new" /\ n = minted + 1 /\ b = minted + 1
       /\ x = NewBook(w.key, minted + 1, w.copy, w.added)
    \/ /\ w.op = "save_copy" /\ n = minted + 1 /\ b = w.book
       /\ x = AddCopy(w.aggregate, minted + 1, w.copy)

\* A write is one of five things.
LEMMA WriteForm ==
  ASSUME NEW h \in Handlers, Write(h)
  PROVE  LET w == Head(job[h].todo)
         IN  /\ job[h].at = "writing"
             /\ \/ Raise(h) /\ w.op \in {"save", "save_new", "save_copy"}
                \/ \E n, b, x : SavesAs(w, n, b, x) /\ Saved(h, n, b, x)
                \/ DropBook(h, w, Rested(h))
                \/ WriteDecision(h, w, Rested(h))
                \/ WriteQuestion(h, w, Rested(h))
<1>. DEFINE w == Head(job[h].todo)
            rest == Rested(h)
<1>1. /\ job[h].at = "writing"
      /\ \/ WriteBook(h, w, rest) \/ DropBook(h, w, rest)
         \/ WriteDecision(h, w, rest) \/ WriteQuestion(h, w, rest)
  BY DEF Write, Rested
<1>. HIDE DEF w
<1>2. ASSUME WriteBook(h, w, rest)
      PROVE  \/ Raise(h) /\ w.op \in {"save", "save_new", "save_copy"}
             \/ \E n, b, x : SavesAs(w, n, b, x) /\ Saved(h, n, b, x)
  <2>1. ASSUME NEW n, NEW b, NEW x, SaveBook(h, b, x, n, rest)
        PROVE  Raise(h) \/ Saved(h, n, b, x)
    BY <2>1 DEF SaveBook, Saved
  <2>2. \E n, b, x : SavesAs(w, n, b, x) /\ SaveBook(h, b, x, n, rest)
    <3>. HIDE DEF rest
    <3>1. CASE w.op = "save" /\ SaveBook(h, w.book, w.aggregate, minted, rest)
      BY <3>1 DEF SavesAs
    <3>2. CASE /\ w.op = "save_new"
               /\ SaveBook(h, minted + 1, NewBook(w.key, minted + 1, w.copy, w.added), minted + 1, rest)
      BY <3>2 DEF SavesAs
    <3>3. CASE /\ w.op = "save_copy"
               /\ SaveBook(h, w.book, AddCopy(w.aggregate, minted + 1, w.copy), minted + 1, rest)
      BY <3>3 DEF SavesAs
    <3>. QED
      BY <1>2, <3>1, <3>2, <3>3 DEF WriteBook
  <2>3. w.op \in {"save", "save_new", "save_copy"}
    BY <1>2 DEF WriteBook
  <2>. QED
    BY <2>1, <2>2, <2>3
<1>. QED
  BY <1>1, <1>2 DEF w

\* What a saved book is: the aggregate of the call, or a new book or copy of it.
LEMMA SavedFacts ==
  ASSUME NEW m \in Nat, m = minted, NEW L \in Libraries(m), NEW kind, NEW w \in StoreCalls(m),
         CallSound(w, L, kind), NEW n, NEW b, NEW x, SavesAs(w, n, b, x)
  PROVE  /\ n \in Nat /\ n \in {m, m + 1} /\ b \in 1 .. n /\ x \in BookRows(n)
         /\ \A c \in CopyIds(x) :
               \/ c \in 1 .. m /\ b \in DOMAIN L /\ c \in CopyIds(L[b])
               \/ c = m + 1
<1>1. CASE w.op = "save"
  <2>1. n = m /\ b = w.book /\ x = w.aggregate
    BY <1>1 DEF SavesAs
  <2>2. b \in 1 .. m /\ x \in BookRows(m)
    BY <1>1, <2>1, CallFields
  <2>3. CopyIds(x) \subseteq 1 .. m
    BY <2>2, BookFields
  <2>4. b \in DOMAIN L /\ CopyIds(x) = CopyIds(L[b])
    BY <1>1, <2>1 DEF CallSound, Touches
  <2>. QED
    BY <2>1, <2>2, <2>3, <2>4
<1>2. CASE w.op = "save_new"
  <2>1. n = m + 1 /\ b = m + 1 /\ x = NewBook(w.key, m + 1, w.copy, w.added)
    BY <1>2 DEF SavesAs
  <2>2. w.key \in Keys /\ w.copy \in CopyType /\ w.added \in 1 .. Cardinality(Reads) + 1
    BY <1>2, CallFields
  <2>3. x \in BookRows(m + 1) /\ CopyIds(x) = {m + 1}
    BY <2>1, <2>2, NewBookFacts
  <2>. QED
    BY <2>1, <2>3
<1>3. CASE w.op = "save_copy"
  <2>1. n = m + 1 /\ b = w.book /\ x = AddCopy(w.aggregate, m + 1, w.copy)
    BY <1>3 DEF SavesAs
  <2>2. b \in 1 .. m /\ w.aggregate \in BookRows(m) /\ w.copy \in CopyType
    BY <1>3, <2>1, CallFields
  <2>3. x \in BookRows(m + 1) /\ CopyIds(x) = CopyIds(w.aggregate) \cup {m + 1}
    BY <2>1, <2>2, AddCopyFacts
  <2>4. CopyIds(w.aggregate) \subseteq 1 .. m
    BY <2>2, BookFields
  <2>5. b \in DOMAIN L /\ CopyIds(w.aggregate) = CopyIds(L[b])
    BY <1>3, <2>1 DEF CallSound, Touches
  <2>. QED
    BY <2>1, <2>2, <2>3, <2>4, <2>5
<1>. QED
  BY <1>1, <1>2, <1>3 DEF SavesAs

\* No store call costs the library its soundness.
LEMMA WriteStep ==
  ASSUME Sound, NEW h \in Handlers, Write(h)
  PROVE  Sound'
<1>. DEFINE todo == job[h].todo
            L == job[h].library
            q == job[h].req
            w == Head(todo)
            rest == Rested(h)
<1>1. /\ job[h].at = "writing"
      /\ \/ Raise(h) /\ w.op \in {"save", "save_new", "save_copy"}
         \/ \E n, b, x : SavesAs(w, n, b, x) /\ Saved(h, n, b, x)
         \/ DropBook(h, w, rest) \/ WriteDecision(h, w, rest) \/ WriteQuestion(h, w, rest)
  BY WriteForm
<1>2. Typed /\ job[h] # Idle /\ Idle.library = <<>>
  BY <1>1 DEF Sound, Idle
<1>3. /\ minted \in Nat /\ L \in Libraries(minted) /\ h \in play.handlers
      /\ w \in StoreCalls(minted) /\ CallSound(w, L, q.kind)
      /\ GoodJob(rest, minted) /\ rest.library \in {L, <<>>}
  BY <1>1, <1>2, Rest DEF Rested
<1>4. GoodJob(Idle, minted) /\ Idle.library = <<>>
  BY <1>3, IdleGood
<1>5. /\ decisions \in [Sites -> [Keys -> Decisions(minted)]]
      /\ questions \in [Sites -> [Keys -> Reads \cup {None}]]
  BY <1>2 DEF Typed
<1>. HIDE DEF todo, q, w, rest
<1>6. CASE Raise(h)
  <2>1. job' = [job EXCEPT ![h] = Idle] /\ UNCHANGED <<books, decisions, questions, minted, play>>
    BY <1>6 DEF Raise
  <2>. QED
    BY <1>2, <1>4, <2>1, GoesOn
<1>7. ASSUME NEW n, NEW b, NEW x, SavesAs(w, n, b, x), Saved(h, n, b, x)
      PROVE  Sound'
  <2>1. /\ n \in Nat /\ n \in {minted, minted + 1} /\ b \in 1 .. n /\ x \in BookRows(n)
        /\ \A c \in CopyIds(x) :
              \/ c \in 1 .. minted /\ b \in DOMAIN L /\ c \in CopyIds(L[b])
              \/ c = minted + 1
    BY <1>3, <1>7, SavedFacts
  <2>2. /\ Holders(x.key, b) = {}
        /\ job' = [job EXCEPT ![h] = rest] /\ books' = Put(books, b, x) /\ minted' = n
        /\ UNCHANGED <<decisions, questions, play>>
    BY <1>7 DEF Saved, rest
  <2>3. GoodJob(rest, n)
    <3>1. minted <= n
      BY <1>3, <2>1
    <3>. QED
      BY <1>3, <2>1, <3>1, JobsGrow
  <2>. QED
    BY <1>3, <2>1, <2>2, <2>3, SaveStep
<1>8. CASE DropBook(h, w, rest)
  <2>. DEFINE j == IF w.book \notin DOMAIN books /\ w.orElse = "stop" THEN Idle ELSE rest
  <2>1. /\ job' = [job EXCEPT ![h] = j]
        /\ books' = [o \in DOMAIN books \ {w.book} |-> books[o]]
        /\ UNCHANGED <<decisions, questions, minted, play>>
    BY <1>8 DEF DropBook
  <2>2. GoodJob(j, minted) /\ j.library \in {L, <<>>}
    BY <1>3, <1>4
  <2>. HIDE DEF j
  <2>. QED
    BY <1>3, <2>1, <2>2, DropStep
<1>9. CASE WriteDecision(h, w, rest)
  <2>1. /\ w.op = "decide" /\ job' = [job EXCEPT ![h] = rest]
        /\ decisions' = [decisions EXCEPT ![w.site][w.key] = w.decision]
        /\ UNCHANGED <<books, questions, minted, play>>
    BY <1>9 DEF WriteDecision
  <2>2. w.site \in Sites /\ w.key \in Keys /\ w.decision \in Decisions(minted)
    BY <1>3, <2>1, CallFields
  <2>3. decisions' \in [Sites -> [Keys -> Decisions(minted)]]
    BY <1>5, <2>1, <2>2
  <2>4. questions' \in [Sites -> [Keys -> Reads \cup {None}]] /\ rest.library \in {books, L, <<>>}
        /\ UNCHANGED <<books, minted, play>>
    BY <1>3, <1>5, <2>1
  <2>. QED
    BY <1>3, <2>1, <2>3, <2>4, JobOnly
<1>10. CASE WriteQuestion(h, w, rest)
  <2>. DEFINE v == IF w.op = "ask" THEN w.read ELSE None
  <2>1. /\ w.op \in {"ask", "close"} /\ job' = [job EXCEPT ![h] = rest]
        /\ questions' = [questions EXCEPT ![w.site][w.key] = v]
        /\ UNCHANGED <<books, decisions, minted, play>>
    BY <1>10 DEF WriteQuestion
  <2>2. w.site \in Sites /\ w.key \in Keys /\ v \in Reads \cup {None}
    BY <1>3, <2>1, CallFields
  <2>. HIDE DEF v
  <2>3. questions' \in [Sites -> [Keys -> Reads \cup {None}]]
    BY <1>5, <2>1, <2>2
  <2>4. decisions' \in [Sites -> [Keys -> Decisions(minted)]] /\ rest.library \in {books, L, <<>>}
        /\ UNCHANGED <<books, minted, play>>
    BY <1>3, <1>5, <2>1
  <2>. QED
    BY <1>3, <2>1, <2>3, <2>4, JobOnly
<1>. QED
  BY <1>1, <1>6, <1>7, <1>8, <1>9, <1>10

\* An empty library is sound.
LEMMA SoundInit == Init => Sound
<1>. SUFFICES ASSUME Init
              PROVE  Sound
  OBVIOUS
<1>1. /\ books = <<>> /\ minted = 0 /\ job = [h \in Handlers |-> Idle] /\ play \in Plays
      /\ decisions = [s \in Sites |-> [k \in Keys |-> NoDecision]]
      /\ questions = [s \in Sites |-> [k \in Keys |-> None]]
  BY DEF Init
<1>2. minted \in Nat /\ books \in Libraries(minted)
  BY <1>1, EmptyMap DEF Libraries
<1>3. GoodJob(Idle, minted) /\ Idle.library = <<>>
  BY <1>2, IdleGood
<1>4. NoDecision \in Decisions(minted)
  BY <1>1 DEF NoDecision, Decision, Decisions, None, DecisionKinds
<1>5. decisions \in [Sites -> [Keys -> Decisions(minted)]]
  BY <1>1, <1>4
<1>6. questions \in [Sites -> [Keys -> Reads \cup {None}]]
  BY <1>1
<1>7. \A h \in Handlers : job[h] = Idle
  BY <1>1
<1>8. job \in [Handlers -> Jobs(minted)]
  BY <1>1, <1>3 DEF GoodJob
<1>9. Typed
  BY <1>1, <1>2, <1>3, <1>5, <1>6, <1>7, <1>8 DEF Typed
<1>10. OneOwner
  <2>. DEFINE owner == [c \in 1 .. minted |-> c]
  <2>1. owner \in [1 .. minted -> 1 .. minted]
    OBVIOUS
  <2>. HIDE DEF owner
  <2>2. Owns(owner, <<>>)
    BY DEF Owns
  <2>3. Owns(owner, books) /\ \A h \in Handlers : Owns(owner, job[h].library)
    BY <1>1, <1>3, <1>7, <2>2
  <2>. QED
    BY <2>1, <2>3 DEF OneOwner
<1>11. KeysNameOneBook
  BY <1>1 DEF KeysNameOneBook
<1>. QED
  BY <1>9, <1>10, <1>11 DEF Sound

LEMMA SoundStays ==
  ASSUME Sound, UNCHANGED vars
  PROVE  Sound'
<1>. USE DEF vars
<1>1. Typed'
  BY DEF Sound, Typed
<1>2. OneOwner'
  <2>1. PICK owner \in [1 .. minted -> 1 .. minted] :
            Owns(owner, books) /\ \A g \in Handlers : Owns(owner, job[g].library)
    BY DEF Sound, OneOwner
  <2>2. \E o \in [1 .. minted' -> 1 .. minted'] :
            Owns(o, books') /\ \A g \in Handlers : Owns(o, job'[g].library)
    BY <2>1
  <2>. QED
    BY <2>2 DEF OneOwner, Owns
<1>3. KeysNameOneBook'
  BY DEF Sound, KeysNameOneBook
<1>. QED
  BY <1>1, <1>2, <1>3 DEF Sound

\* One step of one handler, or a crash.
Steps(h) == AskedOfARead(h) \/ Planned(h) \/ ByHand(h) \/ Undo(h) \/ Reapply(h) \/ Write(h)

\* Whatever step is taken, by whatever handler.
LEMMA SoundNext ==
  ASSUME Sound, Next
  PROVE  Sound'
<1>1. Typed
  BY DEF Sound
<1>2. ASSUME NEW h \in Handlers, Steps(h)
      PROVE  Sound'
  <2>1. CASE Planned(h)
    <3>1. CASE PlanRestore(h)
      BY <3>1, RestoreStep
    <3>2. CASE PlanApply(h) \/ PlanRetract(h) \/ PlanAnswer(h)
      <4>1. PICK todo : Begun(h, todo)
        BY <1>1, <3>2, PlanForm
      <4>. QED
        BY <4>1, PlanStep
    <3>. QED
      BY <2>1, <3>1, <3>2 DEF Planned
  <2>. QED
    BY <1>2, <2>1, AskedStep, HandStep, UndoStep, ReapplyStep, WriteStep DEF Steps
<1>3. CASE Crash
  BY <1>3, CrashStep
<1>4. (\E h \in Handlers : Steps(h)) \/ Crash
  BY DEF Next, Steps
<1>. QED
  BY <1>2, <1>3, <1>4

-----------------------------------------------------------------------------
(* One request at a time: what a handler read is still what is stored *)

\* What the lone handler's plan was made from, as far as what is left of it
\* needs: j is its job, B the books and dec the decisions as they are stored.
Withdraws(todo, r, o, dec) ==
    \/ /\ Suppresses(dec[SiteOf[r]][o.key])
       /\ \A i \in DOMAIN todo : todo[i].op # "decide"
    \/ /\ Len(todo) >= 2
       /\ \E k \in {"rejected", "wrong_book"} :
             todo[1] = Decide(SiteOf[r], o.key, Decision(k, None))
       /\ \A i \in DOMAIN todo : i # 1 => todo[i].op # "decide"
Retracting(j, dec) ==
    \E D : Withdraws(j.todo, j.req.read, OutcomeOf(j.req.read, j.req.spine, j.library, D), dec)

\* The books but b are as they were read, and none of them has its key.
Apart(b, L, B) ==
    \A o \in DOMAIN L \ {b} : L[o].key # L[b].key /\ o \in DOMAIN B /\ B[o] = L[o]

Deletes(w, b, key) ==
    \/ w = DeleteBook(b, "stop")
    \/ w.op = "decide" /\ w.key = key /\ w.decision = Decision("rejected", None)

\* The place has heard the "no", or is about to.
Heard(s, key, todo, dec) ==
    \/ dec[s][key].kind = "rejected"
    \/ \E i \in DOMAIN todo : todo[i] = Decide(s, key, Decision("rejected", None))

Deleting(j, B, dec) ==
    \E b \in DOMAIN j.library :
        /\ j.library[b].key = j.req.key
        /\ Apart(b, j.library, B)
        /\ \A i \in DOMAIN j.todo : Deletes(j.todo[i], b, j.req.key)
        /\ \A s \in DeletionSites(j.library[b]) : Heard(s, j.req.key, j.todo, dec)

\* A call that is still to be made fits the stores as they are.
Fresh(w, L, q, B, dec) ==
    /\ Touches(w) => w.book \in DOMAIN B /\ Like(B[w.book], L[w.book])
    /\ w.op = "ask" => dec[w.site][w.key].kind \notin ClosingKinds
    /\ q.kind = "apply" /\ q.answer = NoAnswer => Unsuppressed(w, L, dec)

Current(j, B, dec) ==
    /\ j.at = "deciding" => j.library = B
    /\ j.at = "writing" =>
          /\ \A i \in DOMAIN j.todo : Fresh(j.todo[i], j.library, j.req, B, dec)
          /\ j.req.kind = "retract" => Retracting(j, dec)
          /\ j.req.kind = "delete" => Deleting(j, B, dec)

\* An answered question that is still asked is about to be closed.
Closing(j, site, key) ==
    /\ j.at = "writing" /\ \A i \in DOMAIN j.todo : Queues(j.todo[i])
    /\ \E i \in DOMAIN j.todo : j.todo[i] = CloseQuestion(site, key)

SettledClosed ==
    crashes = 0 =>
        \A site \in Sites, key \in Keys :
            decisions[site][key].kind \in ClosingKinds /\ questions[site][key] # None =>
                \E h \in Handlers : Closing(job[h], site, key)

Reviewing == (\A h \in Handlers : Current(job[h], books, decisions)) /\ SettledClosed

IInv == Sound /\ crashes \in Nat /\ (Alone => Reviewing)

\* An idle handler has read nothing and is about to close nothing.
LEMMA IdleCurrent ==
  /\ \A B, dec : Current(Idle, B, dec)
  /\ \A site, key : ~Closing(Idle, site, key)
<1>1. Idle.at = "idle"
  BY DEF Idle
<1>. QED
  BY <1>1 DEF Current, Closing

\* Of several handlers only one is in play: the others are idle.
LEMMA LoneHandler ==
  ASSUME Typed, Alone, NEW h \in play.handlers
  PROVE  \A g \in Handlers : g # h => job[g] = Idle
<1>1. play \in Plays /\ IsFiniteSet(play.handlers) /\ Cardinality(play.handlers) = 1
  BY HandlersAreFinite DEF Typed, Alone
<1>2. \A g \in play.handlers : g = h
  <2>1. PICK x : play.handlers = {x}
    BY <1>1, FS_Singleton
  <2>. QED
    BY <2>1
<1>. QED
  BY <1>2 DEF Typed

\* A question answered and still asked: the lone handler is about to close it.
LEMMA Pending ==
  ASSUME Typed, Alone, Reviewing, NEW h \in Handlers, h \in play.handlers, crashes = 0,
         NEW site \in Sites, NEW key \in Keys,
         decisions[site][key].kind \in ClosingKinds, questions[site][key] # None
  PROVE  Closing(job[h], site, key)
<1>1. PICK g \in Handlers : Closing(job[g], site, key)
  BY DEF Reviewing, SettledClosed
<1>2. g # h => job[g] = Idle
  BY LoneHandler
<1>. QED
  BY <1>1, <1>2, IdleCurrent

\* What a step of the lone handler has to leave.
LEMMA LoneStep ==
  ASSUME Typed, Alone, NEW h \in Handlers, h \in play.handlers, NEW j,
         job' = [job EXCEPT ![h] = j], play' = play, Current(j, books', decisions'),
         crashes' = 0 =>
             \A site \in Sites, key \in Keys :
                 decisions'[site][key].kind \in ClosingKinds /\ questions'[site][key] # None =>
                     Closing(j, site, key)
  PROVE  Reviewing'
<1>1. job \in [Handlers -> Jobs(minted)]
  BY DEF Typed
<1>2. job'[h] = j /\ \A g \in Handlers : g # h => job'[g] = Idle
  BY <1>1, LoneHandler
<1>3. \A g \in Handlers : Current(job'[g], books', decisions')
  BY <1>2, IdleCurrent
<1>4. crashes' = 0 =>
        \A site \in Sites, key \in Keys :
            decisions'[site][key].kind \in ClosingKinds /\ questions'[site][key] # None =>
                \E g \in Handlers : Closing(job'[g], site, key)
  BY <1>2
<1>. QED
  BY <1>3, <1>4 DEF Reviewing, SettledClosed

\* A step of the lone handler that writes nothing yet.
LEMMA QuietStep ==
  ASSUME Typed, Alone, Reviewing, NEW h \in Handlers, h \in play.handlers, NEW j,
         job[h].at # "writing", job' = [job EXCEPT ![h] = j], Current(j, books, decisions),
         UNCHANGED <<books, decisions, questions, play, crashes>>
  PROVE  Reviewing'
<1>1. crashes = 0 => \A site \in Sites, key \in Keys :
        ~(decisions[site][key].kind \in ClosingKinds /\ questions[site][key] # None)
  BY Pending DEF Closing
<1>2. Current(j, books', decisions')
  OBVIOUS
<1>3. crashes' = 0 =>
        \A site \in Sites, key \in Keys :
            decisions'[site][key].kind \in ClosingKinds /\ questions'[site][key] # None =>
                Closing(j, site, key)
  BY <1>1
<1>. QED
  BY <1>2, <1>3, LoneStep

\* A plan just made from what is stored fits it.
LEMMA FreshPlan ==
  ASSUME NEW todo, NEW L, NEW q, SoundPlan(todo, L, q.kind), NEW dec,
         \A i \in DOMAIN todo : todo[i].op = "ask" =>
             dec[todo[i].site][todo[i].key].kind \notin ClosingKinds,
         q.kind = "apply" /\ q.answer = NoAnswer =>
             \A i \in DOMAIN todo : Unsuppressed(todo[i], L, dec)
  PROVE  \A i \in DOMAIN todo : Fresh(todo[i], L, q, L, dec)
<1>1. \A b \in DOMAIN L : Like(L[b], L[b])
  BY DEF Like
<1>2. \A i \in DOMAIN todo : CallSound(todo[i], L, q.kind)
  BY DEF SoundPlan
<1>3. \A i \in DOMAIN todo : Touches(todo[i]) => todo[i].book \in DOMAIN L
  BY <1>2 DEF CallSound
<1>. QED
  BY <1>1, <1>3 DEF Fresh

\* A request is taken: what its handler has read is what is stored.
LEMMA AskedReview ==
  ASSUME Sound, Alone, Reviewing, NEW h \in Handlers, AskedOfARead(h)
  PROVE  Reviewing'
<1>1. Typed /\ minted \in Nat /\ books \in Libraries(minted)
  BY DEF Sound, Typed
<1>2. PICK q \in RequestSet : q.kind \in ReadKinds /\ Accept(h, q, "deciding", <<>>)
  BY <1>1, AskedForm
<1>. DEFINE j == Working("deciding", q, books, <<>>)
<1>3. j = [at |-> "deciding", req |-> q, library |-> books, todo |-> <<>>]
  BY <1>1, <1>2, WorkingGood
<1>4. Current(j, books, decisions)
  BY <1>3 DEF Current
<1>5. /\ h \in play.handlers /\ job[h] = Idle /\ job' = [job EXCEPT ![h] = j]
      /\ UNCHANGED <<books, decisions, questions, play, crashes>>
  BY <1>2 DEF Accept
<1>6. job[h].at # "writing"
  BY <1>5 DEF Idle
<1>. HIDE DEF j
<1>. QED
  BY <1>1, <1>4, <1>5, <1>6, QuietStep

LEMMA HandReview ==
  ASSUME Sound, Alone, Reviewing, NEW h \in Handlers, ByHand(h)
  PROVE  Reviewing'
<1>1. Typed /\ minted \in Nat /\ books \in Libraries(minted) /\ KeysNameOneBook
  BY DEF Sound, Typed
<1>2. PICK q, todo : Handled(h, q, todo)
  BY <1>1, HandForm
<1>3. /\ q \in RequestSet /\ todo \in Seq(StoreCalls(minted)) /\ SoundPlan(todo, books, q.kind)
      /\ Accept(h, q, "writing", todo)
      /\ q.kind = "delete" =>
            \E b \in DOMAIN books : q.key = books[b].key /\ todo = DeleteWrites(b, books)
      /\ \A i \in DOMAIN todo : todo[i].op # "ask"
      /\ q.kind \in HandKinds
  BY <1>2 DEF Handled
<1>4. q.kind # "apply" /\ q.kind # "retract"
  BY <1>3 DEF HandKinds, ReadKinds
<1>5. \A i \in DOMAIN todo : Fresh(todo[i], books, q, books, decisions)
  BY <1>3, <1>4, FreshPlan
<1>. DEFINE j == Working("writing", q, books, todo)
            k == [at |-> "writing", req |-> q, library |-> books, todo |-> todo]
<1>6. j = Idle \/ j = k
  BY <1>1, <1>3, WorkingGood
<1>7. Current(k, books, decisions)
  <2>1. k.at = "writing" /\ k.req = q /\ k.library = books /\ k.todo = todo
    OBVIOUS
  <2>. HIDE DEF k
  <2>2. ASSUME q.kind = "delete"
        PROVE  Deleting(k, books, decisions)
    <3>1. PICK b \in DOMAIN books : q.key = books[b].key /\ todo = DeleteWrites(b, books)
      BY <1>3, <2>2
    <3>2. Apart(b, books, books)
      BY <1>1 DEF Apart, KeysNameOneBook
    <3>3. LET t == DeleteWrites(b, books)
          IN  /\ t \in Seq(StoreCalls(minted)) /\ SoundPlan(t, books, q.kind) /\ t # <<>>
              /\ \A i \in DOMAIN t :
                    \/ t[i] = DeleteBook(b, "stop")
                    \/ /\ t[i].op = "decide" /\ t[i].key = books[b].key
                       /\ t[i].decision = Decision("rejected", None)
              /\ \A s \in DeletionSites(books[b]) :
                    \E i \in DOMAIN t :
                        t[i] = Decide(s, books[b].key, Decision("rejected", None))
      BY <1>1, DeleteSound
    <3>4. \A i \in DOMAIN todo : Deletes(todo[i], b, q.key)
      BY <3>1, <3>3 DEF Deletes
    <3>5. \A s \in DeletionSites(books[b]) : Heard(s, q.key, todo, decisions)
      BY <3>1, <3>3 DEF Heard
    <3>. QED
      BY <2>1, <3>1, <3>2, <3>4, <3>5 DEF Deleting
  <2>. QED
    BY <1>4, <1>5, <2>1, <2>2 DEF Current
<1>8. /\ h \in play.handlers /\ job[h] = Idle /\ job' = [job EXCEPT ![h] = j]
      /\ UNCHANGED <<books, decisions, questions, play, crashes>>
  BY <1>3 DEF Accept
<1>9. job[h].at # "writing"
  BY <1>8 DEF Idle
<1>. HIDE DEF j, k
<1>10. Current(j, books, decisions)
  BY <1>6, <1>7, IdleCurrent
<1>. QED
  BY <1>1, <1>8, <1>9, <1>10, QuietStep

\* A plan is made of what is stored.
LEMMA PlanReview ==
  ASSUME Sound, Alone, Reviewing, NEW h \in Handlers, NEW todo, Begun(h, todo)
  PROVE  Reviewing'
<1>. DEFINE q == job[h].req
            L == job[h].library
            j == Working("writing", q, L, todo)
            k == [at |-> "writing", req |-> q, library |-> L, todo |-> todo]
<1>1. /\ job[h].at = "deciding" /\ Begin(h, todo)
      /\ todo \in Seq(StoreCalls(minted)) /\ SoundPlan(todo, L, q.kind)
      /\ \A i \in DOMAIN todo : todo[i].op = "ask" =>
            decisions[todo[i].site][todo[i].key].kind \notin ClosingKinds
      /\ q.kind = "apply" /\ q.answer = NoAnswer =>
            \A i \in DOMAIN todo : Unsuppressed(todo[i], L, decisions)
      /\ q.kind = "retract" => Removes(todo, q.read, q.spine, L)
      /\ q.kind # "delete"
  BY DEF Begun
<1>2. Typed /\ minted \in Nat /\ GoodJob(job[h], minted)
  BY DEF Sound, Typed
<1>3. q \in RequestSet /\ L \in Libraries(minted)
  BY <1>2, JobFields
<1>4. h \in play.handlers
  <2>1. job[h] # Idle
    BY <1>1 DEF Idle
  <2>. QED
    BY <1>2, <2>1 DEF Typed
<1>5. L = books
  BY <1>1 DEF Reviewing, Current
<1>6. job' = [job EXCEPT ![h] = j] /\ UNCHANGED <<books, decisions, questions, play, crashes>>
  BY <1>1 DEF Begin
<1>. HIDE DEF q, L
<1>7. \A i \in DOMAIN todo : Fresh(todo[i], L, q, L, decisions)
  BY <1>1, FreshPlan
<1>8. j = Idle \/ j = k
  BY <1>2, <1>1, <1>3, WorkingGood
<1>9. Current(k, books, decisions)
  <2>1. k.at = "writing" /\ k.req = q /\ k.library = L /\ k.todo = todo
    OBVIOUS
  <2>. HIDE DEF k
  <2>2. q.kind = "retract" => Retracting(k, decisions)
    BY <1>1, <2>1 DEF Removes, Retracting, Withdraws
  <2>. QED
    BY <1>1, <1>5, <1>7, <2>1, <2>2 DEF Current
<1>. HIDE DEF j, k
<1>10. Current(j, books, decisions)
  BY <1>8, <1>9, IdleCurrent
<1>11. job[h].at # "writing"
  BY <1>1
<1>. QED
  BY <1>2, <1>4, <1>6, <1>10, <1>11, QuietStep

LEMMA RestoreReview ==
  ASSUME Sound, Alone, Reviewing, NEW h \in Handlers, PlanRestore(h) \/ Reapply(h)
  PROVE  Reviewing'
<1>1. Typed /\ minted \in Nat /\ <<>> \in Libraries(minted) /\ books \in Libraries(minted)
  BY EmptyMap DEF Sound, Typed, Libraries
<1>2. \E j : /\ job' = [job EXCEPT ![h] = j] /\ Current(j, books, decisions)
             /\ job[h].at \in {"deciding", "undone"}
             /\ UNCHANGED <<books, decisions, questions, play, crashes>>
  <2>1. CASE PlanRestore(h)
    <3>1. PICK q \in RequestSet :
            /\ q.kind \in ReadKinds /\ job[h].at = "deciding"
            /\ job' = [job EXCEPT ![h] = Working("undoing", q, <<>>, <<>>)]
            /\ UNCHANGED <<books, decisions, questions, minted, play, requests, crashes>>
      BY <1>1, <2>1, RestoreForm
    <3>. DEFINE j == Working("undoing", q, <<>>, <<>>)
    <3>2. j = [at |-> "undoing", req |-> q, library |-> <<>>, todo |-> <<>>]
      BY <1>1, <3>1, WorkingGood
    <3>3. Current(j, books, decisions)
      BY <3>2 DEF Current
    <3>. HIDE DEF j
    <3>. QED
      BY <3>1, <3>3 DEF j
  <2>2. CASE Reapply(h)
    <3>1. PICK q \in RequestSet :
            /\ q.kind \in ReadKinds /\ job[h].at = "undone"
            /\ job' = [job EXCEPT ![h] = Working("deciding", q, books, <<>>)]
            /\ UNCHANGED <<books, decisions, questions, minted, play, requests, crashes>>
      BY <1>1, <2>2, ReapplyForm
    <3>. DEFINE j == Working("deciding", q, books, <<>>)
    <3>2. j = [at |-> "deciding", req |-> q, library |-> books, todo |-> <<>>]
      BY <1>1, <3>1, WorkingGood
    <3>3. Current(j, books, decisions)
      BY <3>2 DEF Current
    <3>. HIDE DEF j
    <3>. QED
      BY <3>1, <3>3 DEF j
  <2>. QED
    BY <2>1, <2>2
<1>3. h \in play.handlers /\ job[h].at # "writing"
  <2>1. job[h] # Idle
    BY <1>2 DEF Idle
  <2>. QED
    BY <1>1, <1>2, <2>1 DEF Typed
<1>4. PICK j : /\ job' = [job EXCEPT ![h] = j] /\ Current(j, books, decisions)
               /\ job[h].at \in {"deciding", "undone"}
               /\ UNCHANGED <<books, decisions, questions, play, crashes>>
  BY <1>2, Zenon
<1>. QED
  BY <1>1, <1>3, <1>4, QuietStep

LEMMA UndoReview ==
  ASSUME Sound, Alone, Reviewing, NEW h \in Handlers, Undo(h)
  PROVE  Reviewing'
<1>. DEFINE site0 == SiteOf[job[h].req.read]
            key0 == job[h].req.key
            j == IF Stands(site0, key0) THEN [job[h] EXCEPT !.at = "undone"] ELSE Idle
<1>1. /\ Typed /\ minted \in Nat /\ GoodJob(job[h], minted)
      /\ decisions \in [Sites -> [Keys -> Decisions(minted)]]
      /\ job \in [Handlers -> Jobs(minted)]
  BY DEF Sound, Typed
<1>2. /\ job[h].at = "undoing" /\ job' = [job EXCEPT ![h] = j] /\ decisions' = Cleared(site0, key0)
      /\ UNCHANGED <<books, questions, play, crashes>>
  BY <1>1 DEF Undo
<1>3. job[h] # Idle /\ h \in play.handlers /\ job[h].at # "writing"
  <2>1. job[h] # Idle
    BY <1>2 DEF Idle
  <2>. QED
    BY <1>1, <1>2, <2>1 DEF Typed
<1>4. Current(j, books', decisions')
  <2>1. CASE Stands(site0, key0)
    <3>1. j.at = "undone"
      <4>1. job[h] = [at |-> job[h].at, req |-> job[h].req, library |-> job[h].library,
                      todo |-> job[h].todo]
        BY <1>1, JobFields
      <4>. QED
        BY <2>1, <4>1
    <3>. HIDE DEF j
    <3>. QED
      BY <3>1 DEF Current
  <2>2. CASE ~Stands(site0, key0)
    BY <2>2, IdleCurrent
  <2>. QED
    BY <2>1, <2>2
<1>5. crashes = 0 => \A site \in Sites, key \in Keys :
        ~(decisions[site][key].kind \in ClosingKinds /\ questions[site][key] # None)
  BY <1>1, <1>3, Pending DEF Closing
<1>6. \A site \in Sites, key \in Keys : decisions'[site][key].kind \in ClosingKinds =>
        decisions[site][key].kind \in ClosingKinds
  <2>. HIDE DEF site0, key0
  <2>1. NoDecision.kind \notin ClosingKinds
    BY DEF NoDecision, Decision, ClosingKinds
  <2>2. decisions' = decisions \/ decisions' = [decisions EXCEPT ![site0][key0] = NoDecision]
    BY <1>2, SMTT(20) DEF Cleared
  <2>. QED
    BY <1>1, <2>1, <2>2
<1>7. crashes' = 0 =>
        \A site \in Sites, key \in Keys :
            decisions'[site][key].kind \in ClosingKinds /\ questions'[site][key] # None =>
                Closing(j, site, key)
  BY <1>2, <1>5, <1>6
<1>8. job' = [job EXCEPT ![h] = j] /\ play' = play
  BY <1>2
<1>. HIDE DEF j
<1>. QED
  BY <1>1, <1>3, <1>4, <1>7, <1>8, LoneStep

\* What a store call leaves of the books and of the decisions.
Wrote(w, m, B, dec, B1, dec1) ==
    /\ w.op = "decide" => dec1 = [dec EXCEPT ![w.site][w.key] = w.decision] /\ B1 = B
    /\ w.op # "decide" => dec1 = dec
    /\ w.op = "delete" => B1 = [o \in DOMAIN B \ {w.book} |-> B[o]]
    /\ Queues(w) => B1 = B
    /\ w.op = "save" => B1 = Put(B, w.book, w.aggregate)
    /\ w.op = "save_new" => \E x : B1 = Put(B, m + 1, x)
    /\ w.op = "save_copy" => \E x : B1 = Put(B, w.book, x)

\* A call that was to be made next still is, when another has been made.
LEMMA FreshKept ==
  ASSUME NEW m \in Nat, NEW L \in Libraries(m), NEW w \in StoreCalls(m), NEW v \in StoreCalls(m),
         NEW kind, CallSound(v, L, kind), InOrder(w, v, L), NEW q, NEW B, NEW dec, NEW B1, NEW dec1,
         dec \in [Sites -> [Keys -> Decisions(m)]],
         Fresh(v, L, q, B, dec), Fresh(w, L, q, B, dec), Wrote(w, m, B, dec, B1, dec1)
  PROVE  Fresh(v, L, q, B1, dec1)
<1>1. /\ w.op \in Ops
      /\ w.op = "decide" => w.site \in Sites /\ w.key \in Keys /\ w.decision \in Decisions(m)
      /\ v.op = "ask" => v.site \in Sites /\ v.key \in Keys
  BY CallFields
<1>2. ASSUME Touches(v)
      PROVE  v.book \in DOMAIN B1 /\ Like(B1[v.book], L[v.book])
  <2>1. v.book \in DOMAIN B /\ Like(B[v.book], L[v.book]) /\ v.book \in DOMAIN L
    BY <1>2 DEF Fresh, CallSound
  <2>2. v.book \in 1 .. m
    BY <2>1, LibraryFields
  <2>3. \A b, x : B1 = Put(B, b, x) =>
          /\ b # v.book => v.book \in DOMAIN B1 /\ B1[v.book] = B[v.book]
          /\ b = v.book => v.book \in DOMAIN B1 /\ B1[v.book] = x
    BY <2>1 DEF Put
  <2>4. CASE w.op = "save"
    <3>1. B1 = Put(B, w.book, w.aggregate)
      BY <2>4 DEF Wrote
    <3>2. CASE w.book = v.book
      <4>1. Like(w.aggregate, L[v.book])
        BY <1>2, <2>4, <3>2 DEF InOrder, Touches
      <4>. QED
        BY <2>3, <3>1, <3>2, <4>1
    <3>3. CASE w.book # v.book
      BY <2>1, <2>3, <3>1, <3>3
    <3>. QED
      BY <3>2, <3>3
  <2>5. CASE w.op = "save_new"
    <3>1. PICK x : B1 = Put(B, m + 1, x)
      BY <2>5 DEF Wrote
    <3>2. m + 1 # v.book
      BY <2>2
    <3>. QED
      BY <2>1, <2>3, <3>1, <3>2
  <2>6. CASE w.op = "save_copy"
    <3>1. PICK x : B1 = Put(B, w.book, x)
      BY <2>6 DEF Wrote
    <3>2. w.book # v.book
      BY <1>2, <2>6 DEF InOrder, Touches
    <3>. QED
      BY <2>1, <2>3, <3>1, <3>2
  <2>7. w.op # "delete"
    BY <1>2 DEF InOrder
  <2>8. CASE w.op \in {"decide", "ask", "close"}
    <3>1. B1 = B
      BY <2>8 DEF Wrote, Queues
    <3>. QED
      BY <2>1, <3>1
  <2>. QED
    BY <1>1, <2>4, <2>5, <2>6, <2>7, <2>8 DEF Ops
<1>3. ASSUME v.op = "ask"
      PROVE  dec1[v.site][v.key].kind \notin ClosingKinds
  <2>1. dec[v.site][v.key].kind \notin ClosingKinds
    BY <1>3 DEF Fresh
  <2>2. CASE w.op = "decide"
    <3>1. dec1 = [dec EXCEPT ![w.site][w.key] = w.decision]
      BY <2>2 DEF Wrote
    <3>2. CASE v.site = w.site /\ v.key = w.key
      <4>1. ~Settles(w)
        BY <1>3, <3>2 DEF InOrder
      <4>2. w.decision.kind \notin ClosingKinds
        BY <2>2, <4>1 DEF Settles
      <4>3. dec1[v.site][v.key] = w.decision
        BY <1>1, <2>2, <3>1, <3>2
      <4>. QED
        BY <4>2, <4>3
    <3>3. CASE ~(v.site = w.site /\ v.key = w.key)
      <4>1. dec1[v.site][v.key] = dec[v.site][v.key]
        BY <1>1, <1>3, <2>2, <3>1, <3>3
      <4>. QED
        BY <2>1, <4>1
    <3>. QED
      BY <3>2, <3>3
  <2>3. CASE w.op # "decide"
    BY <2>1, <2>3 DEF Wrote
  <2>. QED
    BY <2>2, <2>3
<1>4. ASSUME q.kind = "apply", q.answer = NoAnswer
      PROVE  Unsuppressed(v, L, dec1)
  <2>1. Unsuppressed(v, L, dec) /\ Unsuppressed(w, L, dec)
    BY <1>4 DEF Fresh
  <2>2. w.op # "decide"
    BY <2>1 DEF Unsuppressed
  <2>3. dec1 = dec
    BY <2>2 DEF Wrote
  <2>. QED
    BY <2>1, <2>3
<1>. QED
  BY <1>2, <1>3, <1>4 DEF Fresh

\* What is left of a finding that is taken back.
LEMMA RetractKept ==
  ASSUME NEW m \in Nat, NEW j, j.todo \in Seq(StoreCalls(m)), j.todo # <<>>, NEW B, NEW B1, NEW dec, NEW dec1,
         dec \in [Sites -> [Keys -> Decisions(m)]],
         Retracting(j, dec), Wrote(j.todo[1], m, B, dec, B1, dec1),
         NEW k, k.req = j.req, k.library = j.library, k.todo = Tail(j.todo)
  PROVE  Retracting(k, dec1)
<1>. DEFINE todo == j.todo
            t == Tail(todo)
            w == todo[1]
            r == j.req.read
<1>1. /\ w \in StoreCalls(m) /\ t \in Seq(StoreCalls(m)) /\ 1 \in DOMAIN todo
      /\ DOMAIN todo = 1 .. Len(todo) /\ Len(todo) \in Nat
      /\ \A i \in DOMAIN t : i + 1 \in DOMAIN todo /\ t[i] = todo[i + 1] /\ i + 1 # 1
  <2>1. /\ Head(todo) = w /\ Head(todo) \in StoreCalls(m) /\ t \in Seq(StoreCalls(m)) /\ 1 \in DOMAIN todo
        /\ DOMAIN todo = 1 .. Len(todo) /\ Len(todo) \in Nat
        /\ DOMAIN t = 1 .. Len(todo) - 1
        /\ \A i \in DOMAIN t : i + 1 \in DOMAIN todo /\ t[i] = todo[i + 1]
    BY TailOf
  <2>2. \A i \in DOMAIN t : i + 1 # 1
    BY <2>1
  <2>. QED
    BY <2>1, <2>2
<1>2. PICK D : Withdraws(j.todo, j.req.read, OutcomeOf(j.req.read, j.req.spine, j.library, D), dec)
  BY DEF Retracting
<1>. DEFINE o == OutcomeOf(j.req.read, j.req.spine, j.library, D)
<1>. HIDE DEF todo, t, w, r, o
<1>3. Suppresses(dec1[SiteOf[r]][o.key]) /\ \A i \in DOMAIN t : t[i].op # "decide"
  <2>1. CASE /\ Suppresses(dec[SiteOf[r]][o.key])
             /\ \A i \in DOMAIN todo : todo[i].op # "decide"
    <3>1. w.op # "decide" /\ \A i \in DOMAIN t : t[i].op # "decide"
      BY <1>1, <2>1 DEF w
    <3>2. dec1 = dec
      BY <3>1 DEF Wrote, w, todo
    <3>. QED
      BY <2>1, <3>1, <3>2
  <2>2. CASE /\ \E n \in {"rejected", "wrong_book"} :
                   todo[1] = Decide(SiteOf[r], o.key, Decision(n, None))
             /\ \A i \in DOMAIN todo : i # 1 => todo[i].op # "decide"
    <3>1. PICK n \in {"rejected", "wrong_book"} : w = Decide(SiteOf[r], o.key, Decision(n, None))
      BY <2>2 DEF w
    <3>2. w.op = "decide" /\ w.site = SiteOf[r] /\ w.key = o.key /\ w.decision.kind = n
      BY <3>1 DEF Decide, Decision
    <3>3. w.site \in Sites /\ w.key \in Keys
      BY <1>1, <3>2, CallFields
    <3>4. dec1 = [dec EXCEPT ![w.site][w.key] = w.decision]
      BY <3>2 DEF Wrote, w, todo
    <3>5. dec1[w.site][w.key] = w.decision
      BY <3>3, <3>4
    <3>6. Suppresses(dec1[SiteOf[r]][o.key])
      BY <3>2, <3>5 DEF Suppresses
    <3>7. \A i \in DOMAIN t : t[i].op # "decide"
      BY <1>1, <2>2
    <3>. QED
      BY <3>6, <3>7
  <2>. QED
    BY <1>2, <2>1, <2>2 DEF Withdraws, o, todo, r
<1>4. Withdraws(t, r, o, dec1)
  BY <1>3 DEF Withdraws
<1>5. k.req.read = r /\ k.todo = t
      /\ OutcomeOf(k.req.read, k.req.spine, k.library, D) = o
  BY DEF r, t, todo, o
<1>. QED
  BY <1>4, <1>5 DEF Retracting

\* What is left of a deletion.
LEMMA DeleteKept ==
  ASSUME NEW m \in Nat, NEW j, j.todo \in Seq(StoreCalls(m)), j.todo # <<>>, NEW B, NEW B1, NEW dec, NEW dec1,
         dec \in [Sites -> [Keys -> Decisions(m)]],
         Deleting(j, B, dec), Wrote(j.todo[1], m, B, dec, B1, dec1),
         NEW k, k.req = j.req, k.library = j.library, k.todo = Tail(j.todo)
  PROVE  Deleting(k, B1, dec1)
<1>. DEFINE todo == j.todo
            t == Tail(todo)
            w == todo[1]
            L == j.library
            key == j.req.key
<1>1. /\ w \in StoreCalls(m) /\ 1 \in DOMAIN todo
      /\ \A i \in DOMAIN t : i + 1 \in DOMAIN todo /\ t[i] = todo[i + 1]
      /\ \A i \in DOMAIN todo : i = 1 \/ (i - 1 \in DOMAIN t /\ t[i - 1] = todo[i])
  BY TailOf
<1>2. PICK b \in DOMAIN L :
        /\ L[b].key = key /\ Apart(b, L, B)
        /\ \A i \in DOMAIN todo : Deletes(todo[i], b, key)
        /\ \A s \in DeletionSites(L[b]) : Heard(s, key, todo, dec)
  BY DEF Deleting
<1>3. Wrote(w, m, B, dec, B1, dec1)
  OBVIOUS
<1>. HIDE DEF todo, t, w, L, key
<1>4. Deletes(w, b, key)
  BY <1>1, <1>2 DEF w
<1>5. w.op = "decide" \/ w = DeleteBook(b, "stop")
  BY <1>4 DEF Deletes
<1>6. Apart(b, L, B1)
  <2>1. CASE w = DeleteBook(b, "stop")
    <3>1. w.op = "delete" /\ w.book = b
      BY <2>1 DEF DeleteBook
    <3>2. B1 = [o \in DOMAIN B \ {b} |-> B[o]]
      BY <1>3, <3>1 DEF Wrote
    <3>. QED
      BY <1>2, <3>2 DEF Apart
  <2>2. CASE w.op = "decide"
    <3>1. B1 = B
      BY <1>3, <2>2 DEF Wrote
    <3>. QED
      BY <1>2, <3>1
  <2>. QED
    BY <1>5, <2>1, <2>2
<1>7. \A i \in DOMAIN t : Deletes(t[i], b, key)
  BY <1>1, <1>2
<1>8. ASSUME NEW s \in DeletionSites(L[b])
      PROVE  Heard(s, key, t, dec1)
  <2>1. ASSUME dec[s][key].kind = "rejected"
        PROVE  dec1[s][key].kind = "rejected"
    <3>1. CASE w = DeleteBook(b, "stop")
      <4>1. w.op # "decide"
        BY <3>1 DEF DeleteBook
      <4>. QED
        BY <1>3, <2>1, <4>1 DEF Wrote
    <3>2. CASE w.op = "decide"
      <4>1. dec1 = [dec EXCEPT ![w.site][w.key] = w.decision]
        BY <1>3, <3>2 DEF Wrote
      <4>2. w.site \in Sites /\ w.key \in Keys
        BY <1>1, <3>2, CallFields
      <4>3. w.decision.kind = "rejected"
        <5>1. w.decision = Decision("rejected", None)
          <6>1. DeleteBook(b, "stop").op = "delete"
            BY DEF DeleteBook
          <6>. QED
            BY <1>4, <3>2, <6>1 DEF Deletes
        <5>. QED
          BY <5>1 DEF Decision
      <4>4. dec1[s][key] = w.decision \/ dec1[s][key] = dec[s][key]
        <5>1. CASE s = w.site /\ key = w.key
          BY <4>1, <4>2, <5>1
        <5>2. CASE ~(s = w.site /\ key = w.key)
          BY <4>1, <4>2, <5>2
        <5>. QED
          BY <5>1, <5>2
      <4>. QED
        BY <2>1, <4>3, <4>4
    <3>. QED
      BY <1>5, <3>1, <3>2
  <2>2. ASSUME NEW i \in DOMAIN todo, todo[i] = Decide(s, key, Decision("rejected", None))
        PROVE  Heard(s, key, t, dec1)
    <3>1. CASE i = 1
      <4>1. w.op = "decide" /\ w.site = s /\ w.key = key /\ w.decision.kind = "rejected"
        BY <2>2, <3>1 DEF w, Decide, Decision
      <4>2. w.site \in Sites /\ w.key \in Keys
        BY <1>1, <4>1, CallFields
      <4>3. dec1 = [dec EXCEPT ![w.site][w.key] = w.decision]
        BY <1>3, <4>1 DEF Wrote
      <4>4. dec1[s][key] = w.decision
        BY <4>1, <4>2, <4>3
      <4>. QED
        BY <4>1, <4>4 DEF Heard
    <3>2. CASE i # 1
      <4>1. i - 1 \in DOMAIN t /\ t[i - 1] = todo[i]
        BY <1>1, <3>2
      <4>. QED
        BY <2>2, <4>1 DEF Heard
    <3>. QED
      BY <3>1, <3>2
  <2>. QED
    BY <1>2, <2>1, <2>2 DEF Heard
<1>9. k.library = L /\ k.req.key = key /\ k.todo = t
  BY DEF L, key, t, todo
<1>. QED
  BY <1>2, <1>6, <1>7, <1>8, <1>9 DEF Deleting

\* A save, as what it leaves of the stores.
LEMMA SavedWrote ==
  ASSUME NEW h, NEW w, NEW n, NEW b, NEW x, SavesAs(w, n, b, x), Saved(h, n, b, x)
  PROVE  /\ Wrote(w, minted, books, decisions, books', decisions')
         /\ ~Queues(w) /\ w.op # "decide"
         /\ job' = [job EXCEPT ![h] = Rested(h)]
         /\ UNCHANGED <<decisions, questions, play, crashes>>
<1>1. /\ books' = Put(books, b, x) /\ decisions' = decisions
      /\ job' = [job EXCEPT ![h] = Rested(h)]
      /\ UNCHANGED <<decisions, questions, play, crashes>>
  BY DEF Saved
<1>2. CASE w.op = "save"
  BY <1>1, <1>2 DEF SavesAs, Wrote, Queues
<1>3. CASE w.op = "save_new"
  <2>1. books' = Put(books, minted + 1, x)
    BY <1>1, <1>3 DEF SavesAs
  <2>. QED
    BY <1>1, <1>3, <2>1 DEF Wrote, Queues
<1>4. CASE w.op = "save_copy"
  <2>1. books' = Put(books, w.book, x)
    BY <1>1, <1>4 DEF SavesAs
  <2>. QED
    BY <1>1, <1>4, <2>1 DEF Wrote, Queues
<1>. QED
  BY <1>2, <1>3, <1>4 DEF SavesAs

\* What remains to be written fits the stores after the call that was made.
LEMMA RestCurrent ==
  ASSUME Typed, NEW h \in Handlers, job[h].at = "writing", Current(job[h], books, decisions),
         NEW B1, NEW dec1, Wrote(Head(job[h].todo), minted, books, decisions, B1, dec1)
  PROVE  Current(Rested(h), B1, dec1)
<1>. DEFINE todo == job[h].todo
            L == job[h].library
            q == job[h].req
            w == Head(todo)
            t == Tail(todo)
            rest == Rested(h)
            k == [at |-> "writing", req |-> q, library |-> L, todo |-> t]
            kind == q.kind
            B == books
            dec == decisions
            m == minted
            j == job[h]
<1>1. /\ m \in Nat /\ L \in Libraries(m) /\ todo \in Seq(StoreCalls(m)) /\ todo # <<>>
      /\ SoundPlan(todo, L, kind) /\ w = todo[1] /\ w \in StoreCalls(m)
      /\ \/ rest = Idle /\ t = <<>>
         \/ rest = k /\ t # <<>>
  BY Rest DEF Rested
<1>2. /\ 1 \in DOMAIN todo /\ t \in Seq(StoreCalls(m))
      /\ \A i \in DOMAIN t : i + 1 \in DOMAIN todo /\ t[i] = todo[i + 1] /\ t[i] \in StoreCalls(m)
                             /\ 1 < i + 1
  <2>1. /\ 1 \in DOMAIN todo /\ t \in Seq(StoreCalls(m)) /\ DOMAIN t = 1 .. Len(todo) - 1
        /\ Len(todo) \in Nat
        /\ \A i \in DOMAIN t : i + 1 \in DOMAIN todo /\ t[i] = todo[i + 1]
    BY <1>1, TailOf
  <2>2. \A i \in DOMAIN t : t[i] \in StoreCalls(m)
    BY <2>1, ElementOfSeq
  <2>3. \A i \in DOMAIN t : 1 < i + 1
    BY <2>1
  <2>. QED
    BY <2>1, <2>2, <2>3
<1>3. /\ \A i \in DOMAIN todo : Fresh(todo[i], L, q, B, dec)
      /\ kind = "retract" => Retracting(j, dec)
      /\ kind = "delete" => Deleting(j, B, dec)
  BY DEF Current
<1>4. dec \in [Sites -> [Keys -> Decisions(m)]]
  BY DEF Typed
<1>5. Wrote(w, m, B, dec, B1, dec1) /\ j.todo = todo /\ j.library = L /\ j.req = q
  OBVIOUS
<1>6. k.at = "writing" /\ k.req = q /\ k.library = L /\ k.todo = t
  OBVIOUS
<1>. HIDE DEF todo, L, q, w, t, rest, k, kind, B, dec, m, j
<1>7. ASSUME NEW i \in DOMAIN t
      PROVE  Fresh(t[i], L, q, B1, dec1)
  <2>. DEFINE v == t[i]
  <2>1. v \in StoreCalls(m) /\ v = todo[i + 1] /\ i + 1 \in DOMAIN todo /\ 1 < i + 1
    BY <1>2
  <2>2. InOrder(w, v, L) /\ CallSound(v, L, kind)
    BY <1>1, <1>2, <2>1 DEF SoundPlan
  <2>3. Fresh(v, L, q, B, dec) /\ Fresh(w, L, q, B, dec)
    BY <1>1, <1>2, <1>3, <2>1
  <2>. HIDE DEF v
  <2>4. Fresh(v, L, q, B1, dec1)
    BY <1>1, <1>4, <1>5, <2>1, <2>2, <2>3, FreshKept
  <2>. QED
    BY <2>4 DEF v
<1>8. j.todo \in Seq(StoreCalls(m)) /\ j.todo # <<>> /\ Wrote(j.todo[1], m, B, dec, B1, dec1)
      /\ k.req = j.req /\ k.library = j.library /\ k.todo = Tail(j.todo)
  BY <1>1, <1>5, <1>6 DEF t
<1>9. kind = "retract" => Retracting(k, dec1)
  BY <1>1, <1>3, <1>4, <1>8, RetractKept
<1>10. kind = "delete" => Deleting(k, B1, dec1)
  BY <1>1, <1>3, <1>4, <1>8, DeleteKept
<1>11. Current(k, B1, dec1)
  BY <1>6, <1>7, <1>9, <1>10 DEF Current, kind
<1>12. Current(rest, B1, dec1)
  BY <1>1, <1>11, IdleCurrent
<1>. QED
  BY <1>12 DEF rest

\* A question still to be closed, later in the plan.
LEMMA ClosingLater ==
  ASSUME Typed, NEW h \in Handlers, job[h].at = "writing", NEW site, NEW key,
         NEW i \in DOMAIN job[h].todo, i # 1, job[h].todo[i] = CloseQuestion(site, key),
         \A n \in DOMAIN job[h].todo : n # 1 => Queues(job[h].todo[n])
  PROVE  Closing(Rested(h), site, key)
<1>. DEFINE todo == job[h].todo
            t == Tail(todo)
            rest == Rested(h)
            k == [at |-> "writing", req |-> job[h].req, library |-> job[h].library, todo |-> t]
<1>1. /\ minted \in Nat /\ todo \in Seq(StoreCalls(minted)) /\ todo # <<>>
      /\ \/ rest = Idle /\ t = <<>>
         \/ rest = k /\ t # <<>>
  BY Rest DEF Rested
<1>2. /\ \A n \in DOMAIN t : n + 1 \in DOMAIN todo /\ t[n] = todo[n + 1] /\ n + 1 # 1
      /\ \A n \in DOMAIN todo : n = 1 \/ (n - 1 \in DOMAIN t /\ t[n - 1] = todo[n])
  <2>1. /\ \A n \in DOMAIN t : n + 1 \in DOMAIN todo /\ t[n] = todo[n + 1]
        /\ \A n \in DOMAIN todo : n = 1 \/ (n - 1 \in DOMAIN t /\ t[n - 1] = todo[n])
        /\ DOMAIN t = 1 .. Len(todo) - 1 /\ Len(todo) \in Nat
    BY <1>1, TailOf
  <2>2. \A n \in DOMAIN t : n + 1 # 1
    BY <2>1
  <2>. QED
    BY <2>1, <2>2
<1>3. k.at = "writing" /\ k.todo = t
  OBVIOUS
<1>. HIDE DEF k, t, todo, rest
<1>4. i - 1 \in DOMAIN t /\ t[i - 1] = CloseQuestion(site, key)
  BY <1>2 DEF todo
<1>5. \A n \in DOMAIN t : Queues(t[n])
  BY <1>2 DEF todo
<1>6. Closing(k, site, key)
  BY <1>3, <1>4, <1>5 DEF Closing
<1>7. t # <<>>
  BY <1>4
<1>. QED
  BY <1>1, <1>6, <1>7 DEF rest

\* The questions a store call leaves open have no closing answer, but those
\* the rest of the plan closes.
LEMMA WriteReview ==
  ASSUME Sound, Alone, Reviewing, NEW h \in Handlers, Write(h)
  PROVE  Reviewing'
<1>. DEFINE todo == job[h].todo
            L == job[h].library
            q == job[h].req
            w == Head(todo)
            rest == Rested(h)
            dec == decisions
            quest == questions
            Open(s, k) == dec[s][k].kind \in ClosingKinds /\ quest[s][k] # None
<1>1. /\ job[h].at = "writing"
      /\ \/ Raise(h) /\ w.op \in {"save", "save_new", "save_copy"}
         \/ \E n, b, x : SavesAs(w, n, b, x) /\ Saved(h, n, b, x)
         \/ DropBook(h, w, rest) \/ WriteDecision(h, w, rest) \/ WriteQuestion(h, w, rest)
  BY WriteForm
<1>2. /\ Typed /\ dec \in [Sites -> [Keys -> Decisions(minted)]]
      /\ quest \in [Sites -> [Keys -> Reads \cup {None}]]
      /\ job \in [Handlers -> Jobs(minted)]
  BY DEF Sound, Typed
<1>3. /\ minted \in Nat /\ h \in play.handlers
      /\ todo \in Seq(StoreCalls(minted)) /\ todo # <<>> /\ SoundPlan(todo, L, q.kind)
      /\ w = todo[1] /\ w \in StoreCalls(minted)
  BY <1>1, <1>2, Rest
<1>4. 1 \in DOMAIN todo /\ DOMAIN todo = 1 .. Len(todo) /\ Len(todo) \in Nat
  BY <1>3, TailOf
<1>5. Current(job[h], books, dec)
  BY DEF Reviewing
<1>6. ASSUME crashes = 0, NEW s \in Sites, NEW k \in Keys, Open(s, k)
      PROVE  /\ \A i \in DOMAIN todo : Queues(todo[i])
             /\ \E i \in DOMAIN todo : todo[i] = CloseQuestion(s, k)
  <2>1. Closing(job[h], s, k)
    BY <1>2, <1>3, <1>6, Pending
  <2>. QED
    BY <2>1 DEF Closing
<1>7. ~Queues(w) => (crashes = 0 => \A s \in Sites, k \in Keys : ~Open(s, k))
  BY <1>3, <1>4, <1>6
<1>8. ASSUME NEW B1, NEW dec1, Wrote(w, minted, books, dec, B1, dec1)
      PROVE  Current(rest, B1, dec1)
  BY <1>1, <1>2, <1>5, <1>8, RestCurrent
<1>. HIDE DEF todo, L, q, w, rest, dec, quest
<1>9. ASSUME Current(rest, books', decisions') \/ rest = Idle,
             NEW j \in {rest, Idle}, job' = [job EXCEPT ![h] = j], ~Queues(w), w.op # "decide",
             Current(rest, books', decisions'),
             UNCHANGED <<decisions, questions, play, crashes>>
      PROVE  Reviewing'
  <2>1. Current(j, books', decisions')
    BY <1>9, IdleCurrent
  <2>2. crashes' = 0 =>
          \A s \in Sites, k \in Keys :
              decisions'[s][k].kind \in ClosingKinds /\ questions'[s][k] # None => Closing(j, s, k)
    BY <1>7, <1>9 DEF dec, quest
  <2>3. play' = play
    BY <1>9
  <2>. QED
    BY <1>2, <1>3, <1>9, <2>1, <2>2, <2>3, LoneStep
<1>10. CASE Raise(h) /\ w.op \in {"save", "save_new", "save_copy"}
  <2>1. ~Queues(w) /\ job' = [job EXCEPT ![h] = Idle]
        /\ UNCHANGED <<books, decisions, questions, play, crashes>>
    BY <1>10 DEF Raise, Queues
  <2>2. Current(Idle, books', decisions')
    BY IdleCurrent
  <2>3. crashes' = 0 =>
          \A s \in Sites, k \in Keys :
              decisions'[s][k].kind \in ClosingKinds /\ questions'[s][k] # None => Closing(Idle, s, k)
    BY <1>7, <2>1 DEF dec, quest
  <2>4. play' = play
    BY <2>1
  <2>. QED
    BY <1>2, <1>3, <2>1, <2>2, <2>3, <2>4, LoneStep
<1>11. ASSUME NEW n, NEW b, NEW x, SavesAs(w, n, b, x), Saved(h, n, b, x)
       PROVE  Reviewing'
  <2>1. /\ Wrote(w, minted, books, decisions, books', decisions')
        /\ ~Queues(w) /\ w.op # "decide"
        /\ job' = [job EXCEPT ![h] = Rested(h)]
        /\ UNCHANGED <<decisions, questions, play, crashes>>
    BY <1>11, SavedWrote
  <2>2. Current(rest, books', decisions')
    BY <1>8, <2>1 DEF dec
  <2>3. job' = [job EXCEPT ![h] = rest]
    BY <2>1 DEF rest
  <2>. QED
    BY <1>9, <2>1, <2>2, <2>3
<1>12. CASE DropBook(h, w, rest)
  <2>. DEFINE j == IF w.book \notin DOMAIN books /\ w.orElse = "stop" THEN Idle ELSE rest
  <2>1. /\ w.op = "delete" /\ job' = [job EXCEPT ![h] = j]
        /\ books' = [o \in DOMAIN books \ {w.book} |-> books[o]]
        /\ UNCHANGED <<decisions, questions, play, crashes>>
    BY <1>12 DEF DropBook
  <2>2. ~Queues(w) /\ w.op # "decide" /\ j \in {rest, Idle}
    BY <2>1 DEF Queues
  <2>3. Wrote(w, minted, books, dec, books', decisions')
    BY <2>1, <2>2 DEF Wrote, dec
  <2>4. Current(rest, books', decisions')
    BY <1>8, <2>3
  <2>. HIDE DEF j
  <2>. QED
    BY <1>9, <2>1, <2>2, <2>4
<1>13. CASE WriteDecision(h, w, rest)
  <2>1. /\ w.op = "decide" /\ job' = [job EXCEPT ![h] = rest]
        /\ decisions' = [dec EXCEPT ![w.site][w.key] = w.decision]
        /\ questions' = quest
        /\ UNCHANGED <<books, questions, play, crashes>>
    BY <1>13 DEF WriteDecision, dec, quest
  <2>2. w.site \in Sites /\ w.key \in Keys /\ w.decision \in Decisions(minted)
    BY <1>3, <2>1, CallFields
  <2>3. Wrote(w, minted, books, dec, books', decisions')
    BY <2>1 DEF Wrote, Queues
  <2>4. Current(rest, books', decisions')
    BY <1>8, <2>3
  <2>5. ASSUME crashes' = 0, NEW s \in Sites, NEW k \in Keys,
               decisions'[s][k].kind \in ClosingKinds, questions'[s][k] # None
        PROVE  Closing(rest, s, k)
    <3>1. ~Open(s, k)
      BY <1>7, <2>1, <2>5 DEF Queues
    <3>2. s = w.site /\ k = w.key
      <4>1. ~(s = w.site /\ k = w.key) => decisions'[s][k] = dec[s][k]
        BY <1>2, <2>1, <2>2
      <4>. QED
        BY <2>1, <2>5, <3>1, <4>1
    <3>3. decisions'[s][k] = w.decision
      BY <1>2, <2>1, <2>2, <3>2
    <3>4. Settles(w)
      BY <2>1, <2>5, <3>3 DEF Settles
    <3>5. PICK i \in DOMAIN todo : i > 1 /\ todo[i] = CloseQuestion(s, k)
      BY <1>3, <1>4, <3>2, <3>4 DEF SoundPlan
    <3>6. ASSUME NEW n \in DOMAIN todo, n # 1
          PROVE  Queues(todo[n])
      <4>1. 1 < n
        BY <1>4, <3>6
      <4>2. InOrder(w, todo[n], L)
        BY <1>3, <1>4, <4>1 DEF SoundPlan
      <4>. QED
        BY <3>4, <4>2 DEF InOrder
    <3>7. i # 1
      BY <1>4, <3>5
    <3>8. Closing(Rested(h), s, k)
      BY <1>1, <1>2, <3>5, <3>6, <3>7, ClosingLater DEF todo
    <3>. QED
      BY <3>8 DEF rest
  <2>6. play' = play
    BY <2>1
  <2>. QED
    BY <1>2, <1>3, <2>1, <2>4, <2>5, <2>6, LoneStep
<1>14. CASE WriteQuestion(h, w, rest)
  <2>. DEFINE v == IF w.op = "ask" THEN w.read ELSE None
  <2>1. /\ w.op \in {"ask", "close"} /\ job' = [job EXCEPT ![h] = rest]
        /\ questions' = [quest EXCEPT ![w.site][w.key] = v]
        /\ decisions' = dec
        /\ UNCHANGED <<books, decisions, play, crashes>>
    BY <1>14 DEF WriteQuestion, dec, quest
  <2>2. w.site \in Sites /\ w.key \in Keys
    BY <1>3, <2>1, CallFields
  <2>3. Wrote(w, minted, books, dec, books', decisions')
    BY <2>1 DEF Wrote, Queues
  <2>4. Current(rest, books', decisions')
    BY <1>8, <2>3
  <2>5. ASSUME crashes' = 0, NEW s \in Sites, NEW k \in Keys,
               decisions'[s][k].kind \in ClosingKinds, questions'[s][k] # None
        PROVE  Closing(rest, s, k)
    <3>1. ~(s = w.site /\ k = w.key)
      <4>1. SUFFICES ASSUME s = w.site, k = w.key
                     PROVE  FALSE
        OBVIOUS
      <4>2. questions'[s][k] = v
        BY <1>2, <2>1, <2>2, <4>1
      <4>3. w.op = "ask"
        BY <2>1, <2>5, <4>2
      <4>4. Fresh(w, L, q, books, dec)
        BY <1>1, <1>3, <1>4, <1>5 DEF Current, todo, L, q
      <4>5. dec[w.site][w.key].kind \notin ClosingKinds
        BY <4>3, <4>4 DEF Fresh
      <4>. QED
        BY <2>1, <2>5, <4>1, <4>5
    <3>2. quest[s][k] # None
      <4>1. questions'[s][k] = quest[s][k]
        BY <1>2, <2>1, <2>2, <3>1
      <4>. QED
        BY <2>5, <4>1
    <3>3. Open(s, k) /\ crashes = 0
      BY <2>1, <2>5, <3>2
    <3>4. \A i \in DOMAIN todo : Queues(todo[i])
      BY <1>6, <3>3
    <3>5. PICK i \in DOMAIN todo : todo[i] = CloseQuestion(s, k)
      BY <1>6, <3>3
    <3>6. i # 1
      <4>1. w # CloseQuestion(s, k)
        BY <3>1 DEF CloseQuestion
      <4>. QED
        BY <1>3, <3>5, <4>1
    <3>7. Closing(Rested(h), s, k)
      BY <1>1, <1>2, <3>4, <3>5, <3>6, ClosingLater DEF todo
    <3>. QED
      BY <3>7 DEF rest
  <2>6. play' = play
    BY <2>1
  <2>. QED
    BY <1>2, <1>3, <2>1, <2>4, <2>5, <2>6, LoneStep
<1>. QED
  BY <1>1, <1>10, <1>11, <1>12, <1>13, <1>14

-----------------------------------------------------------------------------
(* The stored library is sound *)

LEMMA IInvInit == Init => IInv
<1>. SUFFICES ASSUME Init
              PROVE  IInv
  OBVIOUS
<1>1. Sound
  BY SoundInit
<1>2. /\ crashes = 0 /\ \A h \in Handlers : job[h] = Idle
      /\ \A s \in Sites, k \in Keys : questions[s][k] = None
  BY DEF Init
<1>3. \A h \in Handlers : Current(job[h], books, decisions)
  BY <1>2, IdleCurrent
<1>4. SettledClosed
  BY <1>2 DEF SettledClosed
<1>. QED
  BY <1>1, <1>2, <1>3, <1>4 DEF IInv, Reviewing

\* After a crash every handler is idle, and the questions are no matter.
LEMMA CrashReview ==
  ASSUME Crash, crashes \in Nat
  PROVE  crashes' \in Nat /\ Reviewing' /\ play' = play
<1>1. crashes' = crashes + 1 /\ play' = play /\ job' = [h \in Handlers |-> Idle]
  BY DEF Crash
<1>2. crashes' \in Nat /\ crashes' # 0
  BY <1>1
<1>3. \A h \in Handlers : Current(job'[h], books', decisions')
  BY <1>1, IdleCurrent
<1>. QED
  BY <1>1, <1>2, <1>3 DEF Reviewing, SettledClosed

\* The lone handler knows what is stored, whatever it does.
LEMMA StepReview ==
  ASSUME Sound, Alone, Reviewing, NEW h \in Handlers, Steps(h)
  PROVE  Reviewing'
<1>1. Typed
  BY DEF Sound
<1>2. CASE Planned(h)
  <2>1. CASE PlanRestore(h)
    BY <2>1, RestoreReview
  <2>2. CASE PlanApply(h) \/ PlanRetract(h) \/ PlanAnswer(h)
    <3>1. PICK todo : Begun(h, todo)
      BY <1>1, <2>2, PlanForm
    <3>. QED
      BY <3>1, PlanReview
  <2>. QED
    BY <1>2, <2>1, <2>2 DEF Planned
<1>. QED
  BY <1>2, AskedReview, HandReview, UndoReview, RestoreReview, WriteReview DEF Steps

\* A handler's step counts no crash and leaves the play as it is.
LEMMA StepQuiet ==
  ASSUME Sound, NEW h \in Handlers, Steps(h)
  PROVE  crashes' = crashes /\ play' = play
<1>1. Typed
  BY DEF Sound
<1>2. CASE AskedOfARead(h)
  <2>1. PICK q \in RequestSet : q.kind \in ReadKinds /\ Accept(h, q, "deciding", <<>>)
    BY <1>1, <1>2, AskedForm
  <2>. QED
    BY <2>1 DEF Accept
<1>3. CASE ByHand(h)
  <2>1. PICK q, todo : Handled(h, q, todo)
    BY <1>1, <1>3, HandForm
  <2>. QED
    BY <2>1 DEF Handled, Accept
<1>4. CASE Planned(h)
  <2>1. CASE PlanRestore(h)
    BY <2>1 DEF PlanRestore
  <2>2. CASE PlanApply(h) \/ PlanRetract(h) \/ PlanAnswer(h)
    <3>1. PICK todo : Begun(h, todo)
      BY <1>1, <2>2, PlanForm
    <3>. QED
      BY <3>1 DEF Begun, Begin
  <2>. QED
    BY <1>4, <2>1, <2>2 DEF Planned
<1>5. CASE Undo(h) \/ Reapply(h)
  BY <1>5 DEF Undo, Reapply
<1>6. CASE Write(h)
  BY <1>6, WriteForm DEF Raise, Saved, DropBook, WriteDecision, WriteQuestion
<1>. QED
  BY <1>2, <1>3, <1>4, <1>5, <1>6 DEF Steps

LEMMA IInvNext ==
  ASSUME IInv, [Next]_vars
  PROVE  IInv'
<1>1. Sound /\ crashes \in Nat /\ (Alone => Reviewing)
  BY DEF IInv
<1>2. CASE UNCHANGED vars
  <2>1. Sound'
    BY <1>1, <1>2, SoundStays
  <2>2. crashes' \in Nat
    BY <1>1, <1>2 DEF vars
  <2>3. Alone' => Reviewing'
    BY <1>1, <1>2 DEF vars, Alone, Reviewing, SettledClosed
  <2>. QED
    BY <2>1, <2>2, <2>3 DEF IInv
<1>3. CASE Next
  <2>1. Sound'
    BY <1>1, <1>3, SoundNext
  <2>2. crashes' \in Nat /\ (Alone' => Reviewing')
    <3>1. ASSUME NEW h \in Handlers, Steps(h)
          PROVE  crashes' \in Nat /\ (Alone' => Reviewing')
      <4>1. crashes' = crashes /\ play' = play
        BY <1>1, <3>1, StepQuiet
      <4>2. Alone' => Alone
        BY <4>1 DEF Alone
      <4>3. Alone => Reviewing'
        BY <1>1, <3>1, StepReview
      <4>. QED
        BY <1>1, <4>1, <4>2, <4>3
    <3>2. CASE Crash
      BY <1>1, <3>2, CrashReview
    <3>3. (\E h \in Handlers : Steps(h)) \/ Crash
      BY <1>3 DEF Next, Steps
    <3>. QED
      BY <3>1, <3>2, <3>3
  <2>. QED
    BY <2>1, <2>2 DEF IInv
<1>. QED
  BY <1>2, <1>3

\* The inductive invariant: the stores and the jobs are typed and sound, and
\* with one request at a time what its handler is about to write still fits.
THEOREM Invariant == Spec => []IInv
<1>. QED
  BY IInvInit, IInvNext, PTL DEF Spec

\* The invariant gives the three parts of a sound library.
LEMMA SoundLibrary == IInv => LibraryIsSound
<1>. SUFFICES ASSUME IInv
              PROVE  LibraryIsSound
  OBVIOUS
<1>1. /\ minted \in Nat /\ books \in Libraries(minted)
      /\ decisions \in [Sites -> [Keys -> Decisions(minted)]]
      /\ questions \in [Sites -> [Keys -> Reads \cup {None}]]
      /\ \A h \in Handlers : GoodJob(job[h], minted)
      /\ KeysNameOneBook
  BY DEF IInv, Sound, Typed
<1>2. DOMAIN books \subseteq 1 .. minted /\ \A b \in DOMAIN books : books[b] \in BookRows(minted)
  BY <1>1, LibraryFields
<1>3. \A b \in DOMAIN books : BookType(books[b])
  BY <1>1, <1>2, BookFields DEF BookType
<1>4. ASSUME NEW b \in DOMAIN books, NEW o \in DOMAIN books, b # o
      PROVE  CopyIds(books[b]) \cap CopyIds(books[o]) = {}
  <2>1. PICK owner \in [1 .. minted -> 1 .. minted] : Owns(owner, books)
    BY DEF IInv, Sound, OneOwner
  <2>2. \A c \in CopyIds(books[b]) : owner[c] = b
    BY <2>1 DEF Owns
  <2>3. \A c \in CopyIds(books[o]) : owner[c] = o
    BY <2>1 DEF Owns
  <2>. QED
    BY <1>4, <2>2, <2>3
<1>5. ASSUME NEW h \in Handlers
      PROVE  /\ job[h].at \in {"idle", "deciding", "undoing", "undone", "writing"}
             /\ job[h].req.kind \in RequestKinds \cup {"none"}
             /\ (job[h].todo # <<>>) = (job[h].at = "writing")
  <2>1. GoodJob(job[h], minted)
    BY <1>1
  <2>2. job[h].at \in {"idle", "deciding", "undoing", "undone", "writing"}
        /\ job[h].req \in RequestShape
    BY <1>1, <2>1, JobFields
  <2>3. job[h].req.kind \in RequestKinds \cup {"none"}
    BY <2>2 DEF RequestShape
  <2>. QED
    BY <2>1, <2>2, <2>3 DEF GoodJob
<1>6. TypeOK
  BY <1>1, <1>2, <1>3, <1>4, <1>5 DEF TypeOK, Decisions
<1>7. AnsweredQuestionsAreClosed
  <2>1. SUFFICES ASSUME Quiet, Alone, NEW site \in Sites, NEW key \in Keys,
                        decisions[site][key].kind \in ClosingKinds, questions[site][key] # None
                 PROVE  FALSE
    BY DEF AnsweredQuestionsAreClosed, ClosingKinds
  <2>2. crashes = 0 /\ \A h \in Handlers : job[h] = Idle
    BY <2>1 DEF Quiet
  <2>3. SettledClosed
    BY <2>1 DEF IInv, Reviewing
  <2>4. PICK h \in Handlers : Closing(job[h], site, key)
    BY <2>1, <2>2, <2>3 DEF SettledClosed
  <2>. QED
    BY <2>2, <2>4, IdleCurrent
<1>. QED
  BY <1>1, <1>6, <1>7 DEF LibraryIsSound

\* The stored library is sound between any two store calls: its rows have
\* their shapes, a copy belongs to one book, a key names one book however
\* requests interleave, and, with one request at a time and no crash, nothing
\* that was answered "another copy" or "wrong book" is still asked.
THEOREM StoredLibraryIsSound == Spec => []LibraryIsSound
<1>. QED
  BY Invariant, SoundLibrary, PTL

-----------------------------------------------------------------------------
(* What a person did is kept *)

LEMMA KeepsItself ==
  ASSUME NEW m \in Nat, NEW b \in BookRows(m), NEW kind
  PROVE  Keeps(b, b, kind)
<1>1. \A c \in CopyIds(b) : b.copies[c].status \in Nat
  BY BookFields, CopyFields
<1>2. \A c \in CopyIds(b) : b.copies[c].status >= b.copies[c].status
  BY <1>1
<1>. QED
  BY <1>2 DEF Keeps

\* What is kept of a book is kept of one that differs in its evidence only.
LEMMA KeepsAlike ==
  ASSUME NEW x, NEW y, Like(x, y), NEW w, NEW kind, Keeps(y, w, kind)
  PROVE  Keeps(x, w, kind)
BY DEF Like, Keeps

\* Keeping every book is keeping its copies, when only a patch may change what
\* is written on a copy and only a return may end a loan.
LEMMA KeepsEach ==
  ASSUME \A b \in DOMAIN books \cap DOMAIN books' :
            \E kind : /\ Keeps(books[b], books'[b], kind)
                      /\ kind = "patch" => Saves("patch")
                      /\ kind = "return" => Saves("return")
  PROVE  KeepsCopies
<1>. SUFFICES ASSUME NEW b \in DOMAIN books \cap DOMAIN books', NEW c \in CopyIds(books[b])
              PROVE  LET was == books[b].copies[c]
                         now == books'[b].copies[c]
                     IN  /\ c \in CopyIds(books'[b])
                         /\ now.status >= was.status
                         /\ was.label # now.label => Saves("patch")
                         /\ was.lent.out => /\ now.lent.to = was.lent.to
                                            /\ now.lent.out \/ Saves("return")
  BY DEF KeepsCopies
<1>1. PICK kind : /\ Keeps(books[b], books'[b], kind)
                  /\ kind = "patch" => Saves("patch")
                  /\ kind = "return" => Saves("return")
  OBVIOUS
<1>. QED
  BY <1>1 DEF Keeps

HumanWork == OnlyDeletedBooksLeave /\ (Alone => KeepsCopies /\ NothingComesBack)

\* A step that leaves the books as they are, or takes some away.
LEMMA FewerBooks ==
  ASSUME Sound, DOMAIN books' \subseteq DOMAIN books,
         \A b \in DOMAIN books' : books'[b] = books[b]
  PROVE  KeepsCopies /\ NothingComesBack
<1>1. minted \in Nat /\ \A b \in DOMAIN books : books[b] \in BookRows(minted)
  BY LibraryFields DEF Sound, Typed
<1>2. \A b \in DOMAIN books \cap DOMAIN books' : Keeps(books[b], books'[b], "none")
  BY <1>1, KeepsItself
<1>3. KeepsCopies
  <2>1. "none" # "patch" /\ "none" # "return"
    OBVIOUS
  <2>. QED
    BY <1>2, <2>1, KeepsEach
<1>. QED
  BY <1>3 DEF NothingComesBack

LEMMA SameBooks ==
  ASSUME Sound, books' = books
  PROVE  HumanWork
BY FewerBooks DEF HumanWork, OnlyDeletedBooksLeave

\* The call a handler makes is seen in its job.
LEMMA CallSeen ==
  ASSUME Typed, NEW h \in Handlers, job[h].at = "writing", NEW j \in {Rested(h), Idle},
         job' = [job EXCEPT ![h] = j], crashes' = crashes, NEW ops,
         Head(job[h].todo).op \in ops
  PROVE  Calls(h, ops)
<1>1. job \in [Handlers -> Jobs(minted)]
  BY DEF Typed
<1>2. job'[h] = j
  BY <1>1
<1>3. Rested(h) # job[h]
  BY Rest DEF Rested
<1>4. Idle # job[h]
  BY DEF Idle
<1>. QED
  BY <1>2, <1>3, <1>4 DEF Calls

\* A save by the lone handler costs no copy anything.
LEMMA SaveKeeps ==
  ASSUME Sound, Alone, Reviewing, NEW h \in Handlers, job[h].at = "writing",
         NEW n, NEW b, NEW x, SavesAs(Head(job[h].todo), n, b, x), Saved(h, n, b, x)
  PROVE  KeepsCopies /\ NothingComesBack
<1>. DEFINE w == Head(job[h].todo)
            L == job[h].library
            kind == job[h].req.kind
            m == minted
<1>1. /\ Typed /\ m \in Nat /\ books \in Libraries(m)
      /\ \A o \in DOMAIN books : books[o] \in BookRows(m) /\ o \in 1 .. m
  BY LibraryFields DEF Sound, Typed
<1>2. /\ L \in Libraries(m) /\ w = job[h].todo[1] /\ w \in StoreCalls(m)
      /\ CallSound(w, L, kind) /\ job[h].todo \in Seq(StoreCalls(m)) /\ job[h].todo # <<>>
  BY <1>1, Rest
<1>3. 1 \in DOMAIN job[h].todo
  BY <1>2, TailOf
<1>4. Fresh(w, L, job[h].req, books, decisions)
  BY <1>2, <1>3 DEF Reviewing, Current
<1>5. /\ DOMAIN books' = DOMAIN books \cup {b} /\ books'[b] = x
      /\ \A o \in DOMAIN books : o # b => books'[o] = books[o]
  <2>1. books' = Put(books, b, x)
    BY DEF Saved
  <2>. QED
    BY <2>1 DEF Put
<1>6. w.op = "save" => Calls(h, {"save"})
  <2>1. job' = [job EXCEPT ![h] = Rested(h)] /\ crashes' = crashes
    BY DEF Saved
  <2>. QED
    BY <1>1, <2>1, CallSeen
<1>7. SavesAs(w, n, b, x)
  OBVIOUS
<1>8. Saves(kind) <=> \E g \in Handlers : Calls(g, {"save"}) /\ job[g].req.kind = kind
  BY DEF Saves
<1>9. w.op = "save" => Saves(kind)
  BY <1>6, <1>8
<1>. HIDE DEF w, L, kind, m
<1>10. ASSUME Touches(w)
       PROVE  b = w.book /\ b \in DOMAIN books /\ Like(books[b], L[b]) /\ b \in DOMAIN L
  BY <1>2, <1>4, <1>7, <1>10 DEF Fresh, CallSound, SavesAs, Touches
<1>11. ASSUME w.op = "save"
       PROVE  Keeps(books[b], x, kind)
  <2>1. Keeps(L[b], x, kind) /\ Like(books[b], L[b])
    BY <1>2, <1>7, <1>10, <1>11 DEF SavesAs, CallSound, Touches
  <2>. QED
    BY <2>1, KeepsAlike
<1>12. ASSUME w.op = "save_copy"
       PROVE  Keeps(books[b], x, "none")
  <2>1. /\ b = w.book /\ b \in DOMAIN L /\ Like(books[b], L[b]) /\ w.aggregate = L[b]
        /\ x = AddCopy(w.aggregate, m + 1, w.copy) /\ w.copy \in CopyType
    BY <1>1, <1>2, <1>7, <1>10, <1>12, CallFields DEF SavesAs, CallSound, Touches, m
  <2>2. L[b] \in BookRows(m)
    BY <1>1, <1>2, <2>1, LibraryFields
  <2>. DEFINE y == L[b]
              z == w.copy
  <2>3. y \in BookRows(m) /\ z \in CopyType /\ x = AddCopy(y, m + 1, z)
    BY <2>1, <2>2
  <2>. HIDE DEF y, z
  <2>4. CopyIds(x) = CopyIds(y) \cup {m + 1} /\ \A d \in CopyIds(y) : x.copies[d] = y.copies[d]
    BY <1>1, <2>3, AddCopyFacts
  <2>5. Keeps(y, y, "none")
    BY <1>1, <2>3, KeepsItself
  <2>6. Keeps(y, x, "none")
    BY <2>4, <2>5 DEF Keeps
  <2>. QED
    BY <2>1, <2>6, KeepsAlike DEF y
<1>13. w.op = "save_new" => b = m + 1 /\ b \notin DOMAIN books
  <2>1. w.op = "save_new" => b = m + 1
    BY <1>7 DEF SavesAs, m
  <2>2. m + 1 \notin DOMAIN books
    BY <1>1
  <2>. QED
    BY <2>1, <2>2
<1>14. w.op \in {"save", "save_new", "save_copy"}
  BY <1>7 DEF SavesAs
<1>15. KeepsCopies
  <2>1. ASSUME NEW o \in DOMAIN books \cap DOMAIN books'
        PROVE  \E k : /\ Keeps(books[o], books'[o], k)
                      /\ k = "patch" => Saves("patch")
                      /\ k = "return" => Saves("return")
    <3>1. CASE o # b \/ w.op = "save_copy"
      <4>1. Keeps(books[o], books'[o], "none")
        <5>1. CASE o # b
          BY <1>1, <1>5, <5>1, KeepsItself
        <5>2. CASE o = b /\ w.op = "save_copy"
          BY <1>5, <1>12, <5>2
        <5>. QED
          BY <3>1, <5>1, <5>2
      <4>2. "none" # "patch" /\ "none" # "return"
        OBVIOUS
      <4>. QED
        BY <4>1, <4>2
    <3>2. CASE o = b /\ w.op = "save"
      <4>1. Keeps(books[o], books'[o], kind)
        BY <1>5, <1>11, <3>2
      <4>. QED
        BY <1>9, <3>2, <4>1
    <3>. QED
      BY <1>13, <1>14, <3>1, <3>2
  <2>. QED
    BY <2>1, KeepsEach
<1>16. NothingComesBack
  <2>1. \A o \in DOMAIN books' \ DOMAIN books : o = m + 1
    BY <1>5, <1>10, <1>13, <1>14 DEF Touches
  <2>2. m + 1 > minted
    BY <1>1 DEF m
  <2>. QED
    BY <2>1, <2>2 DEF NothingComesBack
<1>. QED
  BY <1>15, <1>16

\* What a person did outlives every store call.
LEMMA WriteKeeps ==
  ASSUME Sound, Alone => Reviewing, NEW h \in Handlers, Write(h)
  PROVE  HumanWork
<1>. DEFINE w == Head(job[h].todo)
<1>1. /\ job[h].at = "writing"
      /\ \/ Raise(h) /\ w.op \in {"save", "save_new", "save_copy"}
         \/ \E n, b, x : SavesAs(w, n, b, x) /\ Saved(h, n, b, x)
         \/ DropBook(h, w, Rested(h))
         \/ WriteDecision(h, w, Rested(h))
         \/ WriteQuestion(h, w, Rested(h))
  BY WriteForm
<1>2. Typed
  BY DEF Sound
<1>3. CASE Raise(h) \/ WriteDecision(h, w, Rested(h)) \/ WriteQuestion(h, w, Rested(h))
  <2>1. books' = books
    BY <1>3 DEF Raise, WriteDecision, WriteQuestion
  <2>. QED
    BY <2>1, SameBooks
<1>4. ASSUME NEW n, NEW b, NEW x, SavesAs(w, n, b, x), Saved(h, n, b, x)
      PROVE  HumanWork
  <2>1. OnlyDeletedBooksLeave
    <3>1. DOMAIN books \subseteq DOMAIN books'
      BY <1>4 DEF Saved, Put
    <3>. QED
      BY <3>1 DEF OnlyDeletedBooksLeave
  <2>. QED
    BY <1>1, <1>4, <2>1, SaveKeeps DEF HumanWork
<1>5. CASE DropBook(h, w, Rested(h))
  <2>. DEFINE j == IF w.book \notin DOMAIN books /\ w.orElse = "stop" THEN Idle ELSE Rested(h)
  <2>1. /\ w.op = "delete" /\ job' = [job EXCEPT ![h] = j] /\ crashes' = crashes
        /\ books' = [o \in DOMAIN books \ {w.book} |-> books[o]]
    BY <1>5 DEF DropBook
  <2>2. j \in {Rested(h), Idle}
    OBVIOUS
  <2>. HIDE DEF j
  <2>3. Calls(h, {"delete"})
    BY <1>1, <1>2, <2>1, <2>2, CallSeen
  <2>4. \A b \in DOMAIN books \ DOMAIN books' : b = w.book
    BY <2>1
  <2>5. OnlyDeletedBooksLeave
    BY <2>3, <2>4 DEF OnlyDeletedBooksLeave
  <2>6. KeepsCopies /\ NothingComesBack
    BY <2>1, FewerBooks
  <2>. QED
    BY <2>5, <2>6 DEF HumanWork
<1>. QED
  BY <1>1, <1>3, <1>4, <1>5

\* Only a store call touches the books.
LEMMA OnlyWritesTouchBooks ==
  ASSUME Sound, NEW h \in Handlers, Steps(h), ~Write(h)
  PROVE  books' = books /\ (decisions' = decisions \/ Undo(h))
<1>1. Typed
  BY DEF Sound
<1>2. CASE AskedOfARead(h)
  <2>1. PICK q \in RequestSet : q.kind \in ReadKinds /\ Accept(h, q, "deciding", <<>>)
    BY <1>1, <1>2, AskedForm
  <2>. QED
    BY <2>1 DEF Accept
<1>3. CASE ByHand(h)
  <2>1. PICK q, todo : Handled(h, q, todo)
    BY <1>1, <1>3, HandForm
  <2>. QED
    BY <2>1 DEF Handled, Accept
<1>4. CASE Planned(h)
  <2>1. CASE PlanRestore(h)
    BY <2>1 DEF PlanRestore
  <2>2. CASE PlanApply(h) \/ PlanRetract(h) \/ PlanAnswer(h)
    <3>1. PICK todo : Begun(h, todo)
      BY <1>1, <2>2, PlanForm
    <3>. QED
      BY <3>1 DEF Begun, Begin
  <2>. QED
    BY <1>4, <2>1, <2>2 DEF Planned
<1>5. CASE Undo(h) \/ Reapply(h)
  BY <1>5 DEF Undo, Reapply
<1>. QED
  BY <1>2, <1>3, <1>4, <1>5 DEF Steps

LEMMA NextKeeps ==
  ASSUME IInv, [Next]_vars
  PROVE  HumanWork
<1>1. Sound /\ (Alone => Reviewing)
  BY DEF IInv
<1>2. CASE UNCHANGED vars
  BY <1>1, <1>2, SameBooks DEF vars
<1>3. ASSUME NEW h \in Handlers, Steps(h)
      PROVE  HumanWork
  <2>1. CASE Write(h)
    BY <1>1, <2>1, WriteKeeps
  <2>2. CASE ~Write(h)
    BY <1>1, <1>3, <2>2, OnlyWritesTouchBooks, SameBooks
  <2>. QED
    BY <2>1, <2>2
<1>4. CASE Crash
  BY <1>1, <1>4, SameBooks DEF Crash
<1>. QED
  BY <1>2, <1>3, <1>4 DEF Next, Steps

\* However requests interleave, books.save costs the library no other book: one
\* leaves by its own deletion only.  One request at a time, no step takes a
\* copy away, lowers its status, rewrites what a person wrote on it but by a
\* patch, or ends a loan but by its return, and no deleted book comes back.
THEOREM NoHumanWorkIsLost == Spec => HumanWorkIsKept
<1>1. IInv /\ [Next]_vars => [HumanWork]_vars
  BY NextKeeps
<1>. QED
  BY <1>1, Invariant, PTL DEF Spec, HumanWorkIsKept, HumanWork

-----------------------------------------------------------------------------
(* What was answered "no" stays out *)

\* A step is one handler's: the others' jobs stay, and a handler that writes
\* does nothing else before it is done.
LEMMA StepOfOne ==
  ASSUME Sound, NEW h \in Handlers, Steps(h)
  PROVE  /\ \A g \in Handlers : g # h => job'[g] = job[g]
         /\ job[h].at = "writing" => Write(h)
<1>1. Typed /\ job \in [Handlers -> Jobs(minted)]
  BY DEF Sound, Typed
<1>2. Idle.at # "writing"
  BY DEF Idle
<1>3. \A j : job' = [job EXCEPT ![h] = j] => \A g \in Handlers : g # h => job'[g] = job[g]
  BY <1>1
<1>4. CASE AskedOfARead(h)
  <2>1. PICK q \in RequestSet : q.kind \in ReadKinds /\ Accept(h, q, "deciding", <<>>)
    BY <1>1, <1>4, AskedForm
  <2>2. job[h] = Idle /\ job' = [job EXCEPT ![h] = Working("deciding", q, books, <<>>)]
    BY <2>1 DEF Accept
  <2>. QED
    BY <1>2, <1>3, <2>2
<1>5. CASE ByHand(h)
  <2>1. PICK q, todo : Handled(h, q, todo)
    BY <1>1, <1>5, HandForm
  <2>2. job[h] = Idle /\ job' = [job EXCEPT ![h] = Working("writing", q, books, todo)]
    BY <2>1 DEF Handled, Accept
  <2>. QED
    BY <1>2, <1>3, <2>2
<1>6. CASE Planned(h)
  <2>1. CASE PlanRestore(h)
    <3>1. PICK q \in RequestSet :
            /\ q.kind \in ReadKinds /\ job[h].at = "deciding"
            /\ job' = [job EXCEPT ![h] = Working("undoing", q, <<>>, <<>>)]
            /\ UNCHANGED <<books, decisions, questions, minted, play, requests, crashes>>
      BY <1>1, <2>1, RestoreForm
    <3>. QED
      BY <1>3, <3>1
  <2>2. CASE PlanApply(h) \/ PlanRetract(h) \/ PlanAnswer(h)
    <3>1. PICK todo : Begun(h, todo)
      BY <1>1, <2>2, PlanForm
    <3>2. /\ job[h].at = "deciding"
          /\ job' = [job EXCEPT ![h] = Working("writing", job[h].req, job[h].library, todo)]
      BY <1>1, <3>1 DEF Begun, Begin
    <3>. QED
      BY <1>3, <3>2
  <2>. QED
    BY <1>6, <2>1, <2>2 DEF Planned
<1>7. CASE Undo(h)
  <2>1. job[h].at = "undoing" /\ \A g \in Handlers : g # h => job'[g] = job[g]
    BY <1>1, <1>7 DEF Undo
  <2>. QED
    BY <2>1
<1>8. CASE Reapply(h)
  <2>1. PICK q \in RequestSet :
          /\ q.kind \in ReadKinds /\ job[h].at = "undone"
          /\ job' = [job EXCEPT ![h] = Working("deciding", q, books, <<>>)]
          /\ UNCHANGED <<books, decisions, questions, minted, play, requests, crashes>>
    BY <1>1, <1>8, ReapplyForm
  <2>. QED
    BY <1>3, <2>1
<1>9. CASE Write(h)
  <2>1. PICK j : job' = [job EXCEPT ![h] = j]
    BY <1>9, WriteForm DEF Raise, Saved, DropBook, WriteDecision, WriteQuestion
  <2>. QED
    BY <1>3, <1>9, <2>1
<1>. QED
  BY <1>4, <1>5, <1>6, <1>7, <1>8, <1>9 DEF Steps

\* The store call that is seen is a write of its handler.
LEMMA CallIsWrite ==
  ASSUME Sound, crashes \in Nat, [Next]_vars, NEW h \in Handlers, NEW ops, Calls(h, ops)
  PROVE  Write(h)
<1>1. job[h].at = "writing" /\ job'[h] # job[h] /\ crashes' = crashes
  BY DEF Calls
<1>2. ~UNCHANGED vars
  BY <1>1 DEF vars
<1>3. ~Crash
  <2>1. Crash => crashes' = crashes + 1
    BY DEF Crash
  <2>2. crashes + 1 # crashes
    OBVIOUS
  <2>. QED
    BY <1>1, <2>1, <2>2
<1>4. PICK g \in Handlers : Steps(g)
  BY <1>2, <1>3 DEF Next, Steps
<1>5. g = h
  BY <1>1, <1>4, StepOfOne
<1>. QED
  BY <1>1, <1>4, <1>5, StepOfOne

Refuses(d) == d.kind \in {"rejected", "wrong_book"}

\* The save of an apply without an answer puts nothing where a "no" stands.
LEMMA StaysOut ==
  ASSUME IInv, [Next]_vars, NEW h \in Handlers, Alone,
         Calls(h, {"save", "save_new", "save_copy"}),
         job[h].req.kind = "apply", job[h].req.answer = NoAnswer,
         NEW o \in DOMAIN books', NEW c \in CopyIds(books'[o]), Placed(o, c)
  PROVE  ~Refuses(decisions[books'[o].copies[c].site][books'[o].key])
<1>. DEFINE w == Head(job[h].todo)
            L == job[h].library
            q == job[h].req
            m == minted
            dec == decisions
<1>1. /\ Sound /\ Typed /\ m \in Nat /\ Reviewing /\ crashes \in Nat
      /\ books \in Libraries(m)
  BY DEF IInv, Sound, Typed
<1>2. Write(h)
  BY <1>1, CallIsWrite
<1>3. /\ job[h].at = "writing"
      /\ \/ Raise(h) /\ w.op \in {"save", "save_new", "save_copy"}
         \/ \E n, b, x : SavesAs(w, n, b, x) /\ Saved(h, n, b, x)
         \/ DropBook(h, w, Rested(h))
         \/ WriteDecision(h, w, Rested(h))
         \/ WriteQuestion(h, w, Rested(h))
  BY <1>2, WriteForm
<1>4. w.op \in {"save", "save_new", "save_copy"}
  BY DEF Calls
<1>5. /\ L \in Libraries(m) /\ w = job[h].todo[1] /\ w \in StoreCalls(m)
      /\ CallSound(w, L, q.kind) /\ job[h].todo \in Seq(StoreCalls(m)) /\ job[h].todo # <<>>
  BY <1>1, <1>3, Rest
<1>6. Fresh(w, L, q, books, dec)
  <2>1. 1 \in DOMAIN job[h].todo
    BY <1>5, TailOf
  <2>. QED
    BY <1>1, <1>3, <1>5, <2>1 DEF Reviewing, Current
<1>7. Unsuppressed(w, L, dec)
  BY <1>6 DEF Fresh
<1>8. books' # books
  <2>1. books' = books => ~Placed(o, c)
    BY DEF Placed
  <2>. QED
    BY <2>1
<1>9. PICK n, b, x : SavesAs(w, n, b, x) /\ Saved(h, n, b, x)
  <2>1. ~Raise(h) /\ ~DropBook(h, w, Rested(h)) /\ ~WriteDecision(h, w, Rested(h))
        /\ ~WriteQuestion(h, w, Rested(h))
    BY <1>4, <1>8 DEF Raise, DropBook, WriteDecision, WriteQuestion
  <2>. QED
    BY <1>3, <2>1
<1>10. /\ books'[b] = x
       /\ \A k \in DOMAIN books' : k # b => k \in DOMAIN books /\ books'[k] = books[k]
  <2>1. books' = Put(books, b, x)
    BY <1>9 DEF Saved
  <2>. QED
    BY <2>1 DEF Put
<1>11. o = b /\ books'[o] = x /\ c \in CopyIds(x)
  <2>1. o # b => ~Placed(o, c)
    BY <1>10 DEF Placed
  <2>. QED
    BY <1>10, <2>1
<1>12. b \in DOMAIN books /\ c \in CopyIds(books[b]) =>
          books[b].copies[c].site # x.copies[c].site
  BY <1>11 DEF Placed
<1>. HIDE DEF w, L, q, m, dec
<1>13. ~Suppresses(dec[x.copies[c].site][x.key])
  <2>1. CASE w.op = "save"
    <3>1. /\ b = w.book /\ x = w.aggregate /\ b \in DOMAIN L /\ CopyIds(x) = CopyIds(L[b])
          /\ b \in DOMAIN books /\ Like(books[b], L[b])
      BY <1>5, <1>6, <1>9, <2>1 DEF SavesAs, CallSound, Fresh, Touches
    <3>2. c \in CopyIds(books[b]) /\ books[b].copies[c].site = L[b].copies[c].site
      BY <1>11, <3>1 DEF Like
    <3>3. x.copies[c].site # L[b].copies[c].site
      BY <1>12, <3>1, <3>2
    <3>. QED
      BY <1>7, <1>11, <2>1, <3>1, <3>3 DEF Unsuppressed
  <2>2. CASE w.op = "save_new"
    <3>1. /\ x = NewBook(w.key, m + 1, w.copy, w.added) /\ w.key \in Keys /\ w.copy \in CopyType
          /\ w.added \in 1 .. Cardinality(Reads) + 1
      BY <1>1, <1>5, <1>9, <2>2, CallFields DEF SavesAs, m
    <3>. DEFINE k == w.key
                y == w.copy
                a == w.added
    <3>2. x = NewBook(k, m + 1, y, a) /\ k \in Keys /\ y \in CopyType
          /\ a \in 1 .. Cardinality(Reads) + 1
      BY <3>1
    <3>. HIDE DEF k, y, a
    <3>3. CopyIds(x) = {m + 1} /\ x.key = k /\ x.copies[m + 1] = y
      BY <1>1, <3>2, NewBookFacts
    <3>4. c = m + 1
      BY <1>11, <3>3
    <3>. QED
      BY <1>7, <2>2, <3>3, <3>4 DEF Unsuppressed, k, y
  <2>3. CASE w.op = "save_copy"
    <3>1. /\ b = w.book /\ b \in DOMAIN L /\ w.aggregate = L[b] /\ w.copy \in CopyType
          /\ x = AddCopy(w.aggregate, m + 1, w.copy)
          /\ b \in DOMAIN books /\ Like(books[b], L[b])
      BY <1>1, <1>5, <1>6, <1>9, <2>3, CallFields DEF SavesAs, CallSound, Fresh, Touches, m
    <3>2. L[b] \in BookRows(m)
      BY <1>1, <1>5, <3>1, LibraryFields
    <3>. DEFINE y == L[b]
                z == w.copy
    <3>3. y \in BookRows(m) /\ z \in CopyType /\ x = AddCopy(y, m + 1, z) /\ w.aggregate = y
      BY <3>1, <3>2
    <3>4. Like(books[b], y)
      BY <3>1
    <3>. HIDE DEF y, z
    <3>5. /\ CopyIds(x) = CopyIds(y) \cup {m + 1} /\ x.key = y.key /\ x.copies[m + 1] = z
          /\ \A d \in CopyIds(y) : x.copies[d] = y.copies[d]
      BY <1>1, <3>3, AddCopyFacts
    <3>6. c = m + 1
      <4>1. \A d \in CopyIds(y) : d \in CopyIds(books[b])
                                  /\ books[b].copies[d].site = x.copies[d].site
        BY <3>4, <3>5 DEF Like
      <4>. QED
        BY <1>11, <1>12, <3>1, <3>5, <4>1
    <3>. QED
      BY <1>7, <2>3, <3>3, <3>5, <3>6 DEF Unsuppressed, z
  <2>. QED
    BY <1>4, <2>1, <2>2, <2>3 DEF w
<1>. QED
  BY <1>11, <1>13 DEF Suppresses, Refuses, dec

StaysOutStep ==
    \A h \in Handlers :
        /\ Alone
        /\ Calls(h, {"save", "save_new", "save_copy"})
        /\ job[h].req.kind = "apply" /\ job[h].req.answer = NoAnswer
        => \A b \in DOMAIN books' : \A c \in CopyIds(books'[b]) :
              Placed(b, c) =>
                decisions[books'[b].copies[c].site][books'[b].key].kind
                    \notin {"rejected", "wrong_book"}

\* With one request at a time, applying a read without new answers puts no copy
\* of a book at a place where a standing decision says that it is not there.
THEOREM WhatIsRefusedStaysOut == Spec => SuppressedStaysOut
<1>1. IInv /\ [Next]_vars => [StaysOutStep]_vars
  <2>1. ASSUME IInv, [Next]_vars
        PROVE  StaysOutStep
    BY <2>1, StaysOut DEF StaysOutStep, Refuses
  <2>. QED
    BY <2>1
<1>. QED
  BY <1>1, Invariant, PTL DEF Spec, SuppressedStaysOut, StaysOutStep

-----------------------------------------------------------------------------
(* A removal sticks *)

\* A claim whose book stands here is read so whatever was decided.
LEMMA StandingOutcome ==
  ASSUME NEW m \in Nat, NEW L \in Libraries(m), NEW D, NEW r \in Reads, NEW spine,
         OutcomeOf(r, spine, L, D).kind = "unchanged"
  PROVE  /\ \A M, E : OutcomeOf(r, spine, M, E) = Classify(r, spine, M, E)
         /\ \A E : OutcomeOf(r, spine, L, E) = OutcomeOf(r, spine, L, D)
         /\ StandsHere(OutcomeOf(r, spine, L, D), r, L)
<1>. DEFINE key == Claims[r][spine].key
<1>1. \A k, c, e, f, g, n : Outcome(k, c, e, f, g, n).kind = k
  BY DEF Outcome
<1>2. key # NoKey /\ spine = Primary(r, key)
  BY <1>1 DEF OutcomeOf
<1>3. \A M, E : OutcomeOf(r, spine, M, E) = Classify(r, spine, M, E)
  BY <1>2 DEF OutcomeOf
<1>4. Classify(r, spine, L, D).kind = "unchanged"
  BY <1>3
<1>5. Classified(Classify(r, spine, L, D), r, spine, L, D)
  BY ClassifyFacts
<1>6. StandsHere(OutcomeOf(r, spine, L, D), r, L)
  BY <1>3, <1>4, <1>5 DEF Classified
<1>7. ASSUME NEW E
      PROVE  Classify(r, spine, L, E) = Classify(r, spine, L, D)
  <2>1. CASE SightedHere(r, spine, L) # {}
    BY <2>1 DEF Classify
  <2>2. CASE SightedHere(r, spine, L) = {}
    <3>. DEFINE b == BookNamed(key, L)
                here == IF b = None THEN {} ELSE CopiesAt(L[b], SiteOf[r])
    <3>1. Classify(r, spine, L, E) = ClassifyByKey(r, spine, L, E)
          /\ Classify(r, spine, L, D) = ClassifyByKey(r, spine, L, D)
      BY <2>2 DEF Classify
    <3>2. here # {}
      <4>1. SUFFICES ASSUME here = {}
                     PROVE  FALSE
        OBVIOUS
      <4>2. ClassifyByKey(r, spine, L, D).kind # "unchanged"
        BY <1>1, <4>1 DEF ClassifyByKey, ClassifyElsewhere
      <4>. QED
        BY <1>4, <3>1, <4>2
    <3>. QED
      BY <3>1, <3>2 DEF ClassifyByKey
  <2>. QED
    BY <2>1, <2>2
<1>. QED
  BY <1>3, <1>6, <1>7

\* Where a "no" stands, and where the book still stands, nothing is asked or
\* added again.
LEMMA NothingNew ==
  ASSUME NEW m \in Nat, NEW L \in Libraries(m), NEW D, NEW r \in Reads, NEW spine,
         Suppresses(D[Claims[r][spine].key]) \/ ~Unseen(r, spine, L)
  PROVE  Classify(r, spine, L, D).kind \in {"rejected", "unchanged"}
<1>1. Classified(Classify(r, spine, L, D), r, spine, L, D)
  BY ClassifyFacts
<1>. QED
  BY <1>1 DEF Classified, OutcomeKinds

\* The last call of a removal, and what it leaves.
LEMMA LastCall ==
  ASSUME Sound, NEW h \in Handlers, Write(h), Len(job[h].todo) = 1
  PROVE  /\ job[h].at = "writing" /\ minted \in Nat
         /\ job[h].todo \in Seq(StoreCalls(minted)) /\ job[h].todo # <<>>
         /\ Head(job[h].todo) = job[h].todo[1] /\ DOMAIN job[h].todo = {1}
         /\ Tail(job[h].todo) = <<>>
         /\ Head(job[h].todo).op # "decide" => decisions' = decisions
         /\ Head(job[h].todo).op \in {"delete", "decide"} =>
              Wrote(Head(job[h].todo), minted, books, decisions, books', decisions')
<1>. DEFINE todo == job[h].todo
            w == Head(todo)
<1>1. /\ job[h].at = "writing"
      /\ \/ Raise(h) /\ w.op \in {"save", "save_new", "save_copy"}
         \/ \E n, b, x : SavesAs(w, n, b, x) /\ Saved(h, n, b, x)
         \/ DropBook(h, w, Rested(h))
         \/ WriteDecision(h, w, Rested(h))
         \/ WriteQuestion(h, w, Rested(h))
  BY WriteForm
<1>2. /\ minted \in Nat /\ todo \in Seq(StoreCalls(minted)) /\ todo # <<>> /\ w = todo[1]
  BY <1>1, Rest DEF Sound
<1>3. DOMAIN todo = {1} /\ Tail(todo) = <<>>
  <2>1. DOMAIN todo = 1 .. Len(todo)
    BY <1>2, TailOf
  <2>2. Tail(todo) \in Seq(StoreCalls(minted)) /\ DOMAIN Tail(todo) = 1 .. Len(todo) - 1
    BY <1>2, TailOf
  <2>. DEFINE t == Tail(todo)
  <2>3. t \in Seq(StoreCalls(minted)) /\ DOMAIN t = {}
    BY <2>2
  <2>. HIDE DEF t
  <2>4. t = <<>>
    BY <2>3
  <2>. QED
    BY <2>1, <2>4 DEF t
<1>4. w.op # "decide" => decisions' = decisions
  <2>1. \A n, b, x : Saved(h, n, b, x) => decisions' = decisions
    BY DEF Saved
  <2>2. Raise(h) \/ DropBook(h, w, Rested(h)) \/ WriteQuestion(h, w, Rested(h)) => decisions' = decisions
    BY DEF Raise, DropBook, WriteQuestion
  <2>3. WriteDecision(h, w, Rested(h)) => w.op = "decide"
    BY DEF WriteDecision
  <2>. HIDE DEF w
  <2>. QED
    BY <1>1, <2>1, <2>2, <2>3
<1>5. ASSUME w.op \in {"delete", "decide"}
      PROVE  Wrote(w, minted, books, decisions, books', decisions')
  <2>1. CASE DropBook(h, w, Rested(h))
    <3>1. /\ w.op = "delete" /\ decisions' = decisions
          /\ books' = [o \in DOMAIN books \ {w.book} |-> books[o]]
      BY <2>1 DEF DropBook
    <3>. QED
      BY <3>1 DEF Wrote, Queues
  <2>2. CASE WriteDecision(h, w, Rested(h))
    <3>1. /\ w.op = "decide" /\ books' = books
          /\ decisions' = [decisions EXCEPT ![w.site][w.key] = w.decision]
      BY <2>2 DEF WriteDecision
    <3>. QED
      BY <3>1 DEF Wrote, Queues
  <2>3. CASE WriteQuestion(h, w, Rested(h))
    BY <1>5, <2>3 DEF WriteQuestion
  <2>4. ASSUME NEW n, NEW b, NEW x, SavesAs(w, n, b, x)
        PROVE  FALSE
    BY <1>5, <2>4 DEF SavesAs
  <2>. QED
    BY <1>1, <1>5, <2>1, <2>2, <2>3, <2>4
<1>. QED
  BY <1>1, <1>2, <1>3, <1>4, <1>5

\* What a removed claim reads when the removal is done.
Gone(h, claim) ==
    LET before == OutcomeOf(claim[1], claim[2], job[h].library, decisions[SiteOf[claim[1]]])
    IN  /\ before.kind = "unchanged"
        /\ before.key = Claims[claim[1]][claim[2]].key
        => NowReads(claim) \in {"rejected", "unchanged"}

\* A finding taken back: its own claim.
LEMMA RetractionSticks ==
  ASSUME IInv, Sound', NEW h \in Handlers, Alone, Write(h), Len(job[h].todo) = 1,
         job[h].req.kind = "retract"
  PROVE  Gone(h, <<job[h].req.read, job[h].req.spine>>)
<1>. DEFINE r == job[h].req.read
            spine == job[h].req.spine
            todo == job[h].todo
            L == job[h].library
            D0 == decisions[SiteOf[r]]
            before == OutcomeOf(r, spine, L, D0)
            claim == <<r, spine>>
            B1 == books'
            D1 == decisions'[SiteOf[r]]
<1>1. Sound /\ Typed /\ Reviewing /\ minted \in Nat
  BY DEF IInv, Sound, Typed
<1>2. /\ job[h].at = "writing" /\ DOMAIN todo = {1} /\ Head(todo) = todo[1]
      /\ Head(todo).op # "decide" => decisions' = decisions
  BY <1>1, LastCall
<1>3. L \in Libraries(minted) /\ r \in Reads
  <2>1. GoodJob(job[h], minted)
    BY <1>1 DEF Typed
  <2>2. L \in Libraries(minted) /\ Asked(job[h].req)
    BY <1>1, <2>1, JobFields
  <2>. QED
    BY <2>2 DEF Asked, ReadKinds
<1>4. minted' \in Nat /\ books' \in Libraries(minted')
  BY DEF Sound, Typed
<1>5. PICK D : Withdraws(todo, r, OutcomeOf(r, spine, L, D), decisions)
  <2>1. Retracting(job[h], decisions)
    BY <1>1, <1>2, SMTT(20) DEF Reviewing, Current
  <2>. QED
    BY <2>1 DEF Retracting
<1>6. SUFFICES ASSUME before.kind = "unchanged", before.key = Claims[r][spine].key
               PROVE  OutcomeOf(r, spine, B1, D1).kind \in {"rejected", "unchanged"}
  <2>1. claim[1] = r /\ claim[2] = spine
    OBVIOUS
  <2>. QED
    BY <2>1 DEF Gone, NowReads
<1>7. /\ OutcomeOf(r, spine, L, D) = before
      /\ OutcomeOf(r, spine, B1, D1) = Classify(r, spine, B1, D1)
  <2>. HIDE DEF L, D0, B1, D1, r, spine
  <2>. QED
    BY <1>1, <1>3, <1>6, StandingOutcome
<1>8. Suppresses(decisions[SiteOf[r]][before.key]) /\ todo[1].op # "decide"
  <2>1. Withdraws(todo, r, before, decisions)
    BY <1>5, <1>7
  <2>2. ~(Len(todo) >= 2)
    OBVIOUS
  <2>. HIDE DEF todo, r, before
  <2>. QED
    BY <1>2, <2>1, <2>2 DEF Withdraws
<1>9. Suppresses(D1[Claims[r][spine].key])
  <2>1. decisions' = decisions
    BY <1>2, <1>8
  <2>2. D1 = decisions[SiteOf[r]]
    BY <2>1
  <2>. HIDE DEF D1, r, spine, before
  <2>. QED
    BY <1>6, <1>8, <2>2, SMTT(20)
<1>. HIDE DEF L, D0, B1, D1, r, spine
<1>. DEFINE n == minted'
<1>10. n \in Nat /\ B1 \in Libraries(n)
  BY <1>4 DEF B1
<1>. HIDE DEF n
<1>11. Classify(r, spine, B1, D1).kind \in {"rejected", "unchanged"}
  BY <1>3, <1>9, <1>10, NothingNew
<1>. QED
  BY <1>7, <1>11

\* A book deleted: every claim that vouched for a copy of it.
LEMMA DeletionSticks ==
  ASSUME IInv, Sound', NEW h \in Handlers, Alone, Write(h), Len(job[h].todo) = 1,
         job[h].req.kind = "delete",
         NEW claim \in Sightings(job[h].library[BookNamed(job[h].req.key, job[h].library)])
  PROVE  Gone(h, claim)
<1>. DEFINE j == job[h]
            todo == j.todo
            w == Head(todo)
            L == j.library
            key == j.req.key
            m == minted
            k == [at |-> "writing", req |-> j.req, library |-> L, todo |-> Tail(todo)]
            r == claim[1]
            spine == claim[2]
            D0 == decisions[SiteOf[r]]
            before == OutcomeOf(r, spine, L, D0)
            B1 == books'
            dec1 == decisions'
            D1 == dec1[SiteOf[r]]
            n == minted'
<1>1. /\ Sound /\ Typed /\ Reviewing /\ m \in Nat
      /\ decisions \in [Sites -> [Keys -> Decisions(m)]]
  BY DEF IInv, Sound, Typed
<1>2. /\ j.at = "writing" /\ todo \in Seq(StoreCalls(m)) /\ todo # <<>>
      /\ w = todo[1] /\ DOMAIN todo = {1} /\ Tail(todo) = <<>>
      /\ w.op \in {"delete", "decide"} => Wrote(w, m, books, decisions, B1, dec1)
  BY <1>1, LastCall
<1>3. L \in Libraries(m)
  <2>1. GoodJob(j, m)
    BY <1>1 DEF Typed
  <2>. QED
    BY <1>1, <2>1, JobFields
<1>4. n \in Nat /\ B1 \in Libraries(n) /\ KeysNameOneBook'
  BY DEF Sound, Typed
<1>5. Deleting(j, books, decisions)
  BY <1>1, <1>2 DEF Reviewing, Current
<1>6. k.req = j.req /\ k.library = j.library /\ k.todo = Tail(j.todo) /\ k.todo = <<>>
  BY <1>2
<1>7. SUFFICES ASSUME before.kind = "unchanged", before.key = Claims[r][spine].key
               PROVE  OutcomeOf(r, spine, B1, D1).kind \in {"rejected", "unchanged"}
  BY DEF Gone, NowReads
<1>8. claim \in Sightings(L[BookNamed(key, L)])
  OBVIOUS
<1>9. j.library = L /\ j.req.key = key /\ j.todo = todo
  OBVIOUS
<1>. HIDE DEF j, todo, w, L, key, m, k, B1, dec1, n
<1>10. PICK b \in DOMAIN L :
        /\ L[b].key = key /\ Apart(b, L, books)
        /\ \A i \in DOMAIN todo : Deletes(todo[i], b, key)
  BY <1>5, <1>9 DEF Deleting
<1>11. Deletes(w, b, key) /\ w.op \in {"delete", "decide"}
  <2>1. Deletes(w, b, key)
    BY <1>2, <1>10
  <2>. QED
    BY <2>1 DEF Deletes, DeleteBook
<1>12. Wrote(w, m, books, decisions, B1, dec1)
  BY <1>2, <1>11
<1>13. Deleting(k, B1, dec1)
  <2>1. /\ j.todo \in Seq(StoreCalls(m)) /\ j.todo # <<>>
        /\ Wrote(j.todo[1], m, books, decisions, B1, dec1)
    BY <1>2, <1>9, <1>12
  <2>. QED
    BY <1>1, <1>5, <1>6, <2>1, DeleteKept
<1>14. \A o \in DOMAIN L : L[o].key = key => o = b
  BY <1>10 DEF Apart
<1>15. PICK d \in DOMAIN L :
         L[d].key = key /\ \A s \in DeletionSites(L[d]) : Heard(s, key, <<>>, dec1)
  BY <1>6, <1>9, <1>13 DEF Deleting
<1>16. \A s \in DeletionSites(L[b]) : dec1[s][key].kind = "rejected"
  BY <1>14, <1>15 DEF Heard
<1>17. BookNamed(key, L) = b
  <2>1. b \in BooksNamed(key, L)
    BY <1>10 DEF BooksNamed
  <2>2. BookNamed(key, L) \in DOMAIN L /\ L[BookNamed(key, L)].key = key
    BY <1>1, <1>3, <2>1, NamedFacts
  <2>. QED
    BY <1>14, <2>2
<1>18. r \in Reads
  <2>1. PICK c \in CopyIds(L[b]) : claim \in ToSet(L[b].copies[c].seen)
    BY <1>8, <1>17 DEF Sightings
  <2>2. L[b] \in BookRows(m)
    BY <1>1, <1>3, LibraryFields
  <2>3. L[b].copies[c] \in CopyType
    BY <1>1, <2>2, BookFields
  <2>4. L[b].copies[c].seen \in Seq(Reads \X Nat)
    BY <2>3, CopyFields
  <2>5. claim \in Reads \X Nat
    <3>. DEFINE s == L[b].copies[c].seen
    <3>1. s \in Seq(Reads \X Nat) /\ claim \in ToSet(s)
      BY <2>1, <2>4
    <3>. HIDE DEF s
    <3>2. PICK i \in DOMAIN s : claim = s[i]
      BY <3>1 DEF ToSet
    <3>. QED
      BY <3>1, <3>2, ElementOfSeq
  <2>. QED
    BY <2>5
<1>. HIDE DEF r, spine, D0, D1
<1>19. /\ OutcomeOf(r, spine, B1, D1) = Classify(r, spine, B1, D1)
       /\ StandsHere(before, r, L)
  BY <1>1, <1>3, <1>7, <1>18, StandingOutcome
<1>. DEFINE X == before.book
            c == before.copy
<1>20. /\ X \in DOMAIN L /\ c \in CopyIds(L[X]) /\ L[X].copies[c].site = SiteOf[r]
       /\ L[X].key = Claims[r][spine].key
  BY <1>7, <1>19 DEF StandsHere
<1>21. SiteOf[r] \in Sites /\ SiteOf[r] # NoSite
  BY <1>18, SitesAreTyped
<1>. HIDE DEF before, X, c
<1>22. Suppresses(D1[Claims[r][spine].key]) \/ ~Unseen(r, spine, B1)
  <2>1. CASE X = b
    <3>1. SiteOf[r] \in DeletionSites(L[b])
      BY <1>20, <1>21, <2>1 DEF DeletionSites
    <3>2. Claims[r][spine].key = key
      BY <1>10, <1>20, <2>1
    <3>. QED
      BY <1>16, <3>1, <3>2 DEF Suppresses, D1
  <2>2. CASE X # b
    <3>1. X \in DOMAIN books /\ books[X] = L[X]
      BY <1>10, <1>20, <2>2 DEF Apart
    <3>2. X \in DOMAIN B1 /\ B1[X] = L[X]
      <4>1. CASE w.op = "decide"
        BY <1>12, <3>1, <4>1 DEF Wrote
      <4>2. CASE w.op = "delete"
        <5>1. w.book = b
          BY <1>11, <4>2 DEF Deletes, DeleteBook
        <5>2. B1 = [o \in DOMAIN books \ {w.book} |-> books[o]]
          BY <1>12, <4>2 DEF Wrote
        <5>. QED
          BY <2>2, <3>1, <5>1, <5>2
      <4>. QED
        BY <1>11, <4>1, <4>2
    <3>3. \A o \in DOMAIN B1 : B1[o].key = Claims[r][spine].key => o = X
      BY <1>4, <1>20, <3>2 DEF KeysNameOneBook, B1
    <3>4. X \in BooksNamed(Claims[r][spine].key, B1)
      BY <1>20, <3>2 DEF BooksNamed
    <3>5. BookNamed(Claims[r][spine].key, B1) = X /\ X # None
      <4>1. /\ BookNamed(Claims[r][spine].key, B1) # None
            /\ BookNamed(Claims[r][spine].key, B1) \in DOMAIN B1
            /\ B1[BookNamed(Claims[r][spine].key, B1)].key = Claims[r][spine].key
        BY <1>4, <3>4, NamedFacts
      <4>. QED
        BY <3>3, <4>1
    <3>6. c \in CopiesAt(B1[X], SiteOf[r])
      BY <1>20, <3>2 DEF CopiesAt
    <3>. QED
      BY <3>5, <3>6 DEF Unseen
  <2>. QED
    BY <2>1, <2>2
<1>23. Classify(r, spine, B1, D1).kind \in {"rejected", "unchanged"}
  BY <1>4, <1>18, <1>22, NothingNew
<1>. QED
  BY <1>19, <1>23

SticksStep ==
    \A h \in Handlers : Alone /\ Completes(h, {"retract", "delete"}) =>
        \A claim \in RemovedClaims(h) :
            LET before == OutcomeOf(claim[1], claim[2], job[h].library,
                                    decisions[SiteOf[claim[1]]])
            IN  /\ before.kind = "unchanged"
                /\ before.key = Claims[claim[1]][claim[2]].key
                => NowReads(claim) \in {"rejected", "unchanged"}

\* With one request at a time, when a finding is taken back or its book deleted,
\* while the book stands there under the claim's own key, no claim that vouched
\* for it adds or asks for the book when its read is applied again.
THEOREM NothingRemovedReturns == Spec => RemovalSticks
<1>1. IInv /\ IInv' /\ [Next]_vars => [SticksStep]_vars
  <2>1. ASSUME IInv, IInv', [Next]_vars
        PROVE  SticksStep
    <3>1. SUFFICES ASSUME NEW h \in Handlers, Alone, Completes(h, {"retract", "delete"}),
                          NEW claim \in RemovedClaims(h)
                   PROVE  Gone(h, claim)
      BY DEF SticksStep, Gone
    <3>2. /\ Calls(h, {"save", "save_new", "save_copy", "delete", "decide", "ask", "close"})
          /\ job[h].req.kind \in {"retract", "delete"} /\ Len(job[h].todo) = 1
      BY <3>1 DEF Completes
    <3>3. Sound /\ crashes \in Nat /\ Sound'
      BY <2>1 DEF IInv
    <3>4. Write(h)
      BY <2>1, <3>2, <3>3, CallIsWrite
    <3>5. CASE job[h].req.kind = "retract"
      BY <2>1, <3>1, <3>2, <3>3, <3>4, <3>5, RetractionSticks DEF RemovedClaims
    <3>6. CASE job[h].req.kind = "delete"
      BY <2>1, <3>1, <3>2, <3>3, <3>4, <3>6, DeletionSticks DEF RemovedClaims
    <3>. QED
      BY <3>2, <3>5, <3>6
  <2>. QED
    BY <2>1
<1>. QED
  BY <1>1, Invariant, PTL DEF Spec, RemovalSticks, SticksStep

-----------------------------------------------------------------------------
(* Applying a read again *)

\* A copy of the book stands where the read is of, and claim s vouches for it.
Vouched(r, s, book) ==
    \E c \in CopyIds(book) : /\ book.copies[c].site = SiteOf[r]
                             /\ Contains(book.copies[c].seen, <<r, s>>)

\* A claim of the read vouches for the book that a key names.
Reached(r, key, B) ==
    \E b \in DOMAIN B : B[b].key = key /\ \E s \in Spines(r) : Vouched(r, s, B[b])

\* The call saves the book that a key names.
Reaches(w, key, L) ==
    \/ w.op = "save_new" /\ w.key = key
    \/ Touches(w) /\ L[w.book].key = key

\* A call of an applied read leaves a claim that vouches for the book it saves.
Applies(w, r, L) ==
    /\ w.op # "delete"
    /\ Touches(w) => w.book \in DOMAIN L
    /\ w.op = "save" => /\ w.aggregate.key = L[w.book].key
                        /\ \E s \in Spines(r) : Vouched(r, s, w.aggregate)
                        /\ \A s : Vouched(r, s, L[w.book]) => Vouched(r, s, w.aggregate)
    /\ w.op = "save_copy" => w.aggregate = L[w.book]
    /\ w.op \in {"save_new", "save_copy"} =>
          \E s \in Spines(r) : w.copy.site = SiteOf[r] /\ w.copy.seen = <<<<r, s>>>>
    /\ w.op = "decide" => w.site = SiteOf[r] /\ w.key \in Keys

\* A decision is a "no", or is made after the book it is about was saved.
Follows(todo, i, r, L, B) ==
    todo[i].op = "decide" =>
        \/ Suppresses(todo[i].decision)
        \/ Reached(r, todo[i].key, B)
        \/ \E j \in DOMAIN todo : j < i /\ Reaches(todo[j], todo[i].key, L)

\* What the outcome of a claim calls for has been written, or is about to be.
Owed(r, s, L, D) == Classify(r, s, L, D).kind \in {"added", "unchanged", "corrected"}
Paid(todo, r, s, L, B) ==
    LET key == Claims[r][s].key
    IN  \/ \E b \in DOMAIN L : Vouched(r, s, L[b])
        \/ Reached(r, key, B)
        \/ \E i \in DOMAIN todo : Reaches(todo[i], key, L)

\* Of a read applied to the library L under the decisions D: what the store has
\* of it, B and row, and what is still to be written.
Grown(r, L, B) ==
    \A b \in DOMAIN L : /\ b \in DOMAIN B /\ B[b].key = L[b].key
                        /\ \A s : Vouched(r, s, L[b]) => Vouched(r, s, B[b])
Untouched(r, L, B) ==
    \A b \in DOMAIN B : \/ b \in DOMAIN L /\ B[b] = L[b]
                        \/ \E s \in Spines(r) : Vouched(r, s, B[b])
Again(todo, r, L, D, B, row) ==
    /\ Grown(r, L, B) /\ Untouched(r, L, B)
    /\ \A i \in DOMAIN todo : Applies(todo[i], r, L) /\ Follows(todo, i, r, L, B)
    /\ \A i \in DOMAIN Primaries[r] :
          Owed(r, Primaries[r][i], L, D) => Paid(todo, r, Primaries[r][i], L, B)
    /\ \A key \in Keys : row[key] = D[key] \/ Suppresses(row[key]) \/ Reached(r, key, B)

\* The copies a claim vouches for here.
LEMMA VouchedSighted ==
  ASSUME NEW r, NEW s, NEW L
  PROVE  /\ \A b \in DOMAIN L : Vouched(r, s, L[b]) <=>
                \E c \in CopyIds(L[b]) : <<b, c>> \in SightedHere(r, s, L)
         /\ SightedHere(r, s, L) = {} <=> \A b \in DOMAIN L : ~Vouched(r, s, L[b])
<1>1. /\ \A bc \in SightedHere(r, s, L) :
            /\ bc = <<bc[1], bc[2]>>
            /\ bc[1] \in DOMAIN L /\ bc[2] \in CopyIds(L[bc[1]])
            /\ L[bc[1]].copies[bc[2]].site = SiteOf[r]
            /\ Contains(L[bc[1]].copies[bc[2]].seen, <<r, s>>)
      /\ \A b \in DOMAIN L : \A c \in CopyIds(L[b]) :
            /\ L[b].copies[c].site = SiteOf[r]
            /\ Contains(L[b].copies[c].seen, <<r, s>>)
            => <<b, c>> \in SightedHere(r, s, L)
  BY SightedFacts
<1>2. ASSUME NEW b \in DOMAIN L, NEW c \in CopyIds(L[b]), <<b, c>> \in SightedHere(r, s, L)
      PROVE  L[b].copies[c].site = SiteOf[r] /\ Contains(L[b].copies[c].seen, <<r, s>>)
  <2>. DEFINE bc == <<b, c>>
  <2>1. bc[1] = b /\ bc[2] = c
    OBVIOUS
  <2>. QED
    BY <1>1, <1>2, <2>1
<1>3. \A b \in DOMAIN L : Vouched(r, s, L[b]) <=>
          \E c \in CopyIds(L[b]) : <<b, c>> \in SightedHere(r, s, L)
  BY <1>1, <1>2 DEF Vouched
<1>4. ASSUME NEW bc \in SightedHere(r, s, L)
      PROVE  \E b \in DOMAIN L : Vouched(r, s, L[b])
  BY <1>1, <1>4 DEF Vouched
<1>. QED
  BY <1>3, <1>4

\* A copy the claim vouches for where it stands is saved as it is.
LEMMA ObserveStill ==
  ASSUME NEW m \in Nat, NEW b \in BookRows(m), NEW c \in CopyIds(b), NEW site, NEW sighting,
         b.copies[c].site = site, site # NoSite, Contains(b.copies[c].seen, sighting)
  PROVE  Observe(b, c, site, sighting) = b
<1>. DEFINE x == b.copies[c]
            y == [x EXCEPT !.site   = IF @ = NoSite THEN site ELSE @,
                           !.status = MergeStatus(@, AutoStatus),
                           !.seen   = Witnessed(@, sighting)]
<1>1. /\ x \in CopyType
      /\ b = [key |-> b.key, added |-> b.added, copies |-> b.copies]
      /\ b.copies = [d \in CopyIds(b) |-> b.copies[d]]
  BY BookFields
<1>2. /\ x.status \in Nat
      /\ x = [site |-> x.site, status |-> x.status, seen |-> x.seen,
              label |-> x.label, lent |-> x.lent]
  BY <1>1, CopyFields
<1>. HIDE DEF x
<1>3. MergeStatus(x.status, AutoStatus) = x.status
  BY <1>2 DEF MergeStatus, AutoStatus
<1>4. Witnessed(x.seen, sighting) = x.seen /\ x.site = site
  BY DEF Witnessed, x
<1>5. y = x
  BY <1>2, <1>3, <1>4
<1>6. Observe(b, c, site, sighting) = WithCopy(b, c, y)
  BY DEF Observe, x
<1>. HIDE DEF y
<1>7. WithCopy(b, c, y) = [b EXCEPT !.copies[c] = x]
  BY <1>5 DEF WithCopy
<1>8. [b.copies EXCEPT ![c] = x] = b.copies
  BY <1>1 DEF x, CopyIds
<1>9. [b EXCEPT !.copies[c] = x] = [b EXCEPT !.copies = [b.copies EXCEPT ![c] = x]]
  BY <1>1
<1>. QED
  BY <1>1, <1>6, <1>7, <1>8, <1>9

\* When nothing is left to write, applying the read again adds and corrects
\* nothing, and saves a book as it is or one that another claim vouches for.
Stays(o, r, B) ==
    /\ o.kind \notin {"added", "corrected"}
    /\ o.kind = "unchanged" =>
          \/ Observe(B[o.book], o.copy, SiteOf[r], <<r, o.spine>>) = B[o.book]
          \/ \E s \in Spines(r) \ {o.spine} : \E c \in CopyIds(B[o.book]) :
                <<o.book, c>> \in SightedHere(r, s, B)

LEMMA SightedStays ==
  ASSUME NEW m \in Nat, NEW B \in Libraries(m), NEW row, NEW r \in Reads, NEW s \in Spines(r),
         SightedHere(r, s, B) # {}
  PROVE  Stays(Classify(r, s, B, row), r, B)
<1>. DEFINE P == SightedHere(r, s, B)
            last == LastListed(P)
            o == Classify(r, s, B, row)
<1>1. \A p \in P : /\ p = <<p[1], p[2]>> /\ p[1] \in DOMAIN B /\ p[2] \in CopyIds(B[p[1]])
                   /\ B[p[1]].copies[p[2]].site = SiteOf[r]
                   /\ Contains(B[p[1]].copies[p[2]].seen, <<r, s>>)
  BY SightedFacts
<1>2. \A b \in DOMAIN B : b \in 1 .. m /\ B[b] \in BookRows(m)
  BY LibraryFields
<1>3. \A b \in DOMAIN B : CopyIds(B[b]) \subseteq 1 .. m
  BY <1>2, BookFields
<1>. HIDE DEF P
<1>4. \A p \in P : p = <<p[1], p[2]>> /\ p[1] \in 1 .. m /\ p[2] \in 1 .. m
  BY <1>1, <1>2, <1>3
<1>5. P # {}
  BY DEF P
<1>6. last \in P
  BY <1>4, <1>5, LastListedFacts
<1>. HIDE DEF last
<1>7. o = Outcome("unchanged", "same_location", s, B[last[1]].key, last[1], last[2])
  BY <1>5 DEF Classify, P, last
<1>8. o.kind = "unchanged" /\ o.spine = s /\ o.book = last[1] /\ o.copy = last[2]
  BY <1>7 DEF Outcome
<1>. HIDE DEF o
<1>9. /\ B[o.book] \in BookRows(m) /\ o.copy \in CopyIds(B[o.book])
      /\ B[o.book].copies[o.copy].site = SiteOf[r]
      /\ Contains(B[o.book].copies[o.copy].seen, <<r, o.spine>>)
  BY <1>1, <1>2, <1>6, <1>8
<1>10. SiteOf[r] # NoSite
  BY ClaimFacts, SitesAreTyped
<1>11. Observe(B[o.book], o.copy, SiteOf[r], <<r, o.spine>>) = B[o.book]
  BY <1>9, <1>10, ObserveStill
<1>. QED
  BY <1>8, <1>11 DEF Stays, o

LEMMA ReachedStays ==
  ASSUME NEW m \in Nat, NEW B \in Libraries(m), \A b, o \in DOMAIN B : B[b].key = B[o].key => b = o,
         NEW row, NEW r \in Reads, NEW s \in Spines(r), SightedHere(r, s, B) = {},
         Reached(r, Claims[r][s].key, B)
  PROVE  Stays(Classify(r, s, B, row), r, B)
<1>. DEFINE key == Claims[r][s].key
            o == Classify(r, s, B, row)
<1>1. PICK b \in DOMAIN B : B[b].key = key /\ \E t \in Spines(r) : Vouched(r, t, B[b])
  BY DEF Reached
<1>2. PICK t \in Spines(r) : Vouched(r, t, B[b])
  BY <1>1
<1>3. BookNamed(key, B) = b
  <2>1. b \in BooksNamed(key, B)
    BY <1>1 DEF BooksNamed
  <2>2. BookNamed(key, B) \in DOMAIN B /\ B[BookNamed(key, B)].key = key
    BY <2>1, NamedFacts
  <2>. QED
    BY <1>1, <2>2
<1>4. b # None
  BY LibraryFields
<1>5. CopiesAt(B[b], SiteOf[r]) # {}
  BY <1>2 DEF Vouched, CopiesAt
<1>6. o = Outcome("unchanged", "same_location", s, key, b, Min(CopiesAt(B[b], SiteOf[r])))
  BY <1>3, <1>4, <1>5 DEF Classify, ClassifyByKey
<1>7. o.kind = "unchanged" /\ o.spine = s /\ o.book = b
  BY <1>6 DEF Outcome
<1>8. ~Vouched(r, s, B[b])
  BY VouchedSighted
<1>9. t # s
  BY <1>2, <1>8
<1>10. PICK c \in CopyIds(B[b]) : <<b, c>> \in SightedHere(r, t, B)
  BY <1>2, VouchedSighted
<1>. HIDE DEF o
<1>. QED
  BY <1>7, <1>9, <1>10 DEF Stays, o

\* The claim stands as it stood, its book untouched: had it called for a write,
\* the write would have been made.
LEMMA UnreachedStays ==
  ASSUME NEW m \in Nat, NEW B \in Libraries(m), \A b, o \in DOMAIN B : B[b].key = B[o].key => b = o,
         NEW n \in Nat, NEW L \in Libraries(n),
         NEW row, NEW D, NEW r \in Reads, Again(<<>>, r, L, D, B, row),
         NEW i \in DOMAIN Primaries[r], SightedHere(r, Primaries[r][i], B) = {},
         ~Reached(r, Claims[r][Primaries[r][i]].key, B)
  PROVE  Stays(Classify(r, Primaries[r][i], B, row), r, B)
<1>. DEFINE s == Primaries[r][i]
            key == Claims[r][s].key
            b == BookNamed(key, B)
            o == Classify(r, s, B, row)
            was == Classify(r, s, L, D)
<1>1. s \in Spines(r) /\ key \in Keys
  BY PrimariesFacts
<1>2. Grown(r, L, B) /\ Untouched(r, L, B)
  BY DEF Again
<1>3. SightedHere(r, s, L) = {}
  BY <1>2, VouchedSighted DEF Grown
<1>4. BookNamed(key, L) = b /\ (b # None => b \in DOMAIN B /\ b \in DOMAIN L /\ B[b] = L[b])
  <2>1. b # None => b \in DOMAIN B /\ B[b].key = key
    BY NamedFacts
  <2>2. b # None => b \in DOMAIN L /\ B[b] = L[b]
    BY <1>2, <2>1 DEF Untouched, Reached
  <2>3. BookNamed(key, L) # None =>
          BookNamed(key, L) \in DOMAIN B /\ B[BookNamed(key, L)].key = key
    BY <1>2, NamedFacts DEF Grown
  <2>4. BookNamed(key, L) # None => b # None
    BY <2>3, NamedFacts DEF BooksNamed
  <2>5. b # None => BookNamed(key, L) # None
    BY <2>1, <2>2, NamedFacts DEF BooksNamed
  <2>. QED
    BY <2>1, <2>2, <2>3, <2>4, <2>5
<1>5. was.kind \notin {"added", "unchanged", "corrected"}
  <2>1. ~Paid(<<>>, r, s, L, B)
    <3>1. \A c \in DOMAIN L : ~Vouched(r, s, L[c])
      BY <1>3, VouchedSighted
    <3>. QED
      BY <3>1 DEF Paid
  <2>. QED
    BY <2>1 DEF Again, Owed
<1>6. /\ o = ClassifyByKey(r, s, B, row) /\ was = ClassifyByKey(r, s, L, D)
      /\ key = Claims[r][s].key /\ b = BookNamed(key, B)
  BY <1>3 DEF Classify
<1>a. o = Classify(r, s, B, row) /\ s = Primaries[r][i]
  OBVIOUS
<1>. HIDE DEF s, key, b, o, was
<1>7. b # None => CopiesAt(B[b], SiteOf[r]) = {}
  <2>1. SUFFICES ASSUME b # None, CopiesAt(B[b], SiteOf[r]) # {}
                 PROVE  FALSE
    OBVIOUS
  <2>2. was = Outcome("unchanged", "same_location", s, key, b, Min(CopiesAt(L[b], SiteOf[r])))
    BY <1>4, <1>6, <2>1 DEF ClassifyByKey
  <2>3. was.kind = "unchanged"
    BY <2>2 DEF Outcome
  <2>. QED
    BY <1>5, <2>3
<1>8. CASE Suppresses(row[key])
  <2>1. o = Outcome("rejected", row[key].kind, s, key, None, None)
    BY <1>6, <1>7, <1>8 DEF ClassifyByKey
  <2>2. o.kind = "rejected"
    BY <2>1 DEF Outcome
  <2>. QED
    BY <1>a, <2>2 DEF Stays
<1>9. CASE ~Suppresses(row[key])
  <2>1. row[key] = D[key]
    <3>1. \A k \in Keys : row[k] = D[k] \/ Suppresses(row[k]) \/ Reached(r, k, B)
      BY DEF Again
    <3>2. ~Reached(r, key, B)
      BY <1>6, <1>a
    <3>. QED
      BY <1>1, <1>9, <3>1, <3>2
  <2>2. o = was
    <3>1. CASE b = None
      BY <1>4, <1>6, <2>1, <3>1, SMTT(20) DEF ClassifyByKey
    <3>2. CASE b # None
      BY <1>4, <1>6, <2>1, <3>2 DEF ClassifyByKey, ClassifyElsewhere
    <3>. QED
      BY <3>1, <3>2
  <2>. QED
    BY <1>5, <1>a, <2>2 DEF Stays
<1>. QED
  BY <1>8, <1>9

LEMMA AgainStays ==
  ASSUME NEW m \in Nat, NEW B \in Libraries(m), \A b, o \in DOMAIN B : B[b].key = B[o].key => b = o,
         NEW n \in Nat, NEW L \in Libraries(n),
         NEW row, NEW D, NEW r \in Reads, Again(<<>>, r, L, D, B, row)
  PROVE  \A o \in ToSet(Diff(r, B, row)) : Stays(o, r, B)
<1>1. ASSUME NEW o \in ToSet(Diff(r, B, row))
      PROVE  Stays(o, r, B)
  <2>1. PICK i \in DOMAIN Primaries[r] : o = Classify(r, Primaries[r][i], B, row)
    BY <1>1 DEF Diff, ToSet
  <2>. DEFINE s == Primaries[r][i]
  <2>2. s \in Spines(r)
    BY PrimariesFacts
  <2>3. CASE SightedHere(r, s, B) # {}
    BY <2>1, <2>2, <2>3, SightedStays
  <2>4. CASE SightedHere(r, s, B) = {} /\ Reached(r, Claims[r][s].key, B)
    BY <2>1, <2>2, <2>4, ReachedStays
  <2>5. CASE SightedHere(r, s, B) = {} /\ ~Reached(r, Claims[r][s].key, B)
    BY <2>1, <2>5, UnreachedStays
  <2>. QED
    BY <2>3, <2>4, <2>5
<1>. QED
  BY <1>1

\* A copy is seen by a claim: the claim vouches for the book from now on, and
\* so does whoever did before.
LEMMA SeenVouched ==
  ASSUME NEW m \in Nat, NEW b \in BookRows(m), NEW c \in CopyIds(b), NEW r \in Reads, NEW s \in Nat,
         NEW w, Seen(b, c, SiteOf[r], <<r, s>>, w, m)
  PROVE  w.key = b.key /\ Vouched(r, s, w) /\ \A t : Vouched(r, t, b) => Vouched(r, t, w)
<1>1. /\ CopyIds(w) = CopyIds(b) /\ w.key = b.key
      /\ \A d \in CopyIds(b) : d # c => w.copies[d] = b.copies[d]
      /\ w.copies[c].site = SiteOf[r]
      /\ w.copies[c].seen = Witnessed(b.copies[c].seen, <<r, s>>)
  BY DEF Seen
<1>2. b.copies[c].seen \in Seq(Reads \X Nat)
  <2>1. b.copies[c] \in CopyType
    BY BookFields
  <2>. QED
    BY <2>1, CopyFields
<1>. DEFINE sighting == <<r, s>>
            seen == b.copies[c].seen
<1>a. sighting \in Reads \X Nat
  OBVIOUS
<1>b. w.copies[c].seen = Witnessed(seen, sighting)
  BY <1>1
<1>. HIDE DEF sighting, seen
<1>c. /\ Contains(Witnessed(seen, sighting), sighting)
      /\ \A e : Contains(seen, e) => Contains(Witnessed(seen, sighting), e)
  <2>1. seen \in Seq(Reads \X Nat)
    BY <1>2 DEF seen
  <2>. QED
    BY <1>a, <2>1, WitnessedFacts
<1>3. /\ Contains(w.copies[c].seen, <<r, s>>)
      /\ \A e : Contains(b.copies[c].seen, e) => Contains(w.copies[c].seen, e)
  BY <1>b, <1>c DEF sighting, seen
<1>4. ASSUME NEW t, Vouched(r, t, b)
      PROVE  Vouched(r, t, w)
  <2>1. PICK d \in CopyIds(b) : b.copies[d].site = SiteOf[r] /\ Contains(b.copies[d].seen, <<r, t>>)
    BY <1>4 DEF Vouched
  <2>2. w.copies[d].site = SiteOf[r] /\ Contains(w.copies[d].seen, <<r, t>>)
    BY <1>1, <1>3, <2>1
  <2>. QED
    BY <1>1, <2>1, <2>2 DEF Vouched
<1>. QED
  BY <1>1, <1>3, <1>4 DEF Vouched

\* Each call of an applied read's plan leaves a claim that vouches.
LEMMA CarriedApplies ==
  ASSUME NEW m \in Nat, NEW L \in Libraries(m), NEW D, NEW r \in Reads, NEW answer, NEW o,
         o.spine \in Spines(r), Claims[r][o.spine].key \in Keys, Classified(o, r, o.spine, L, D),
         NEW part \in Parts, NEW w, CarriesOut(w, part, r, o, answer, L)
  PROVE  Applies(w, r, L)
<1>. DEFINE site == SiteOf[r]
            s == o.spine
<1>1. /\ site \in Sites /\ s \in Nat /\ site # NoSite
      /\ \A b \in DOMAIN L : L[b] \in BookRows(m)
  BY ClaimFacts, LibraryFields, SitesAreTyped
<1>2. ASSUME NEW c, NEW v, o.book \in DOMAIN L, c \in CopyIds(L[o.book]),
             \/ v = RelinkCopy(L[o.book], c, site, <<r, s>>)
             \/ /\ L[o.book].copies[c].site = site
                /\ v = Observe(L[o.book], c, site, <<r, s>>),
             w = Save(o.book, v)
      PROVE  Applies(w, r, L)
  <2>. DEFINE b == L[o.book]
              sighting == <<r, s>>
  <2>1. b \in BookRows(m) /\ c \in CopyIds(b) /\ sighting \in Reads \X Nat
    BY <1>1, <1>2
  <2>2. Seen(b, c, site, sighting, v, m)
    <3>1. /\ Seen(b, c, site, sighting, RelinkCopy(b, c, site, sighting), m)
          /\ Seen(b, c, IF b.copies[c].site = NoSite THEN site ELSE b.copies[c].site,
                  sighting, Observe(b, c, site, sighting), m)
      BY <1>1, <2>1, ObserveFacts
    <3>2. b.copies[c].site = site =>
             (IF b.copies[c].site = NoSite THEN site ELSE b.copies[c].site) = site
      OBVIOUS
    <3>. QED
      BY <1>2, <3>1, <3>2
  <2>3. v.key = b.key /\ Vouched(r, s, v) /\ \A t : Vouched(r, t, b) => Vouched(r, t, v)
    BY <1>1, <2>1, <2>2, SeenVouched
  <2>4. w.op = "save" /\ w.book = o.book /\ w.aggregate = v
    BY <1>2 DEF Save
  <2>. HIDE DEF s
  <2>. QED
    BY <1>2, <2>3, <2>4 DEF Applies, s
<1>3. ASSUME NEW status \in AutoStatus .. ManualStatus, NEW added, NEW k,
             w = SaveNew(k, Evidence(r, s, status), added)
      PROVE  Applies(w, r, L)
  <2>1. w.op = "save_new" /\ w.copy.site = site /\ w.copy.seen = <<<<r, s>>>>
    BY <1>3 DEF SaveNew, Evidence, Copy
  <2>. QED
    BY <2>1 DEF Applies, Touches
<1>4. ASSUME o.book \in DOMAIN L, w = SaveCopy(o.book, L[o.book], Evidence(r, s, ManualStatus))
      PROVE  Applies(w, r, L)
  <2>1. /\ w.op = "save_copy" /\ w.book = o.book /\ w.aggregate = L[o.book]
        /\ w.copy.site = site /\ w.copy.seen = <<<<r, s>>>>
    BY <1>4 DEF SaveCopy, Evidence, Copy
  <2>. QED
    BY <1>4, <2>1 DEF Applies, Touches
<1>5. ASSUME w.op \in {"ask", "close"}
      PROVE  Applies(w, r, L)
  BY <1>5 DEF Applies, Touches
<1>6. ASSUME NEW d, w = Decide(site, o.key, d), o.kind = "needs_decision"
      PROVE  Applies(w, r, L)
  <2>1. o.key \in Keys
    BY <1>6 DEF Classified, Unnamed, Names
  <2>2. w.op = "decide" /\ w.site = site /\ w.key = o.key
    BY <1>6 DEF Decide
  <2>. QED
    BY <2>1, <2>2 DEF Applies, Touches
<1>7. /\ AutoStatus \in AutoStatus .. ManualStatus /\ Approved \in AutoStatus .. ManualStatus
      /\ ManualStatus \in AutoStatus .. ManualStatus
  BY DEF AutoStatus, Approved, ManualStatus
<1>8. CASE part = 1
  BY <1>3, <1>7, <1>8 DEF CarriesOut
<1>9. CASE part = 2
  <2>1. /\ o.kind = "unchanged"
        /\ w = Save(o.book, Observe(L[o.book], o.copy, SiteOf[r], <<r, o.spine>>))
    BY <1>9 DEF CarriesOut
  <2>2. /\ o.book \in DOMAIN L /\ o.copy \in CopyIds(L[o.book])
        /\ L[o.book].copies[o.copy].site = site
    BY <2>1 DEF Classified, StandsHere
  <2>. QED
    BY <1>2, <2>1, <2>2
<1>10. CASE part = 3
  <2>1. o.kind = "corrected" /\ w = CorrectedWrite(r, o, L)
    BY <1>10 DEF CarriesOut
  <2>2. /\ o.book \in DOMAIN L
        /\ o.reason = "relinked_by_decision" => o.copy \in CopyIds(L[o.book])
    BY <2>1 DEF Classified, Names
  <2>3. CASE o.reason = "relinked_by_decision"
    <3>1. w = Save(o.book, RelinkCopy(L[o.book], o.copy, site, <<r, s>>))
      BY <2>1, <2>3 DEF CorrectedWrite
    <3>. QED
      BY <1>2, <2>2, <2>3, <3>1
  <2>4. CASE o.reason # "relinked_by_decision"
    <3>1. w = SaveCopy(o.book, L[o.book], Evidence(r, s, ManualStatus))
      BY <2>1, <2>4 DEF CorrectedWrite
    <3>. QED
      BY <1>4, <2>2, <3>1
  <2>. QED
    BY <2>3, <2>4
<1>11. CASE part \in {4, 5}
  <2>1. Fits(o, answer, L) /\ (AnswerSave(w, r, o, answer, L) \/ AnswerDecision(w, r, o, answer, L))
    BY <1>11 DEF CarriesOut
  <2>2. o.kind = "needs_decision" /\ (o.reason = "ambiguous_location" => Names(o, r, s, L))
    BY <2>1, ReasonFacts DEF Fits
  <2>3. CASE AnswerDecision(w, r, o, answer, L)
    BY <1>6, <2>2, <2>3 DEF AnswerDecision
  <2>4. CASE AnswerSave(w, r, o, answer, L)
    <3>1. CASE answer.kind = "confirm"
      BY <1>3, <1>7, <2>4, <3>1 DEF AnswerSave
    <3>2. CASE answer.kind # "confirm"
      <4>1. /\ o.reason = "ambiguous_location"
            /\ answer.kind = "already_listed" => ResolveCopy(L[o.book], answer.copy) # None
        BY <2>1, <2>4, <3>2 DEF Fits, AnswerSave
      <4>2. o.book \in DOMAIN L /\ L[o.book] \in BookRows(m)
        BY <1>1, <2>2, <4>1 DEF Names
      <4>. DEFINE given == ResolveCopy(L[o.book], answer.copy)
      <4>3. given \in CopyIds(L[o.book]) \cup {None}
        BY <4>2, ResolvedFacts
      <4>4. CASE answer.kind = "already_listed"
        <5>1. w = Save(o.book, RelinkCopy(L[o.book], given, site, <<r, s>>))
          BY <2>4, <4>4 DEF AnswerSave
        <5>2. given \in CopyIds(L[o.book])
          BY <4>1, <4>3, <4>4
        <5>. QED
          BY <1>2, <4>2, <5>1, <5>2
      <4>5. CASE answer.kind = "another_copy"
        <5>1. w = SaveCopy(o.book, L[o.book], Evidence(r, s, ManualStatus))
          BY <2>4, <4>5 DEF AnswerSave
        <5>. QED
          BY <1>4, <4>2, <5>1
      <4>. QED
        BY <2>4, <3>2, <4>4, <4>5 DEF AnswerSave
    <3>. QED
      BY <3>1, <3>2
  <2>. QED
    BY <2>1, <2>3, <2>4
<1>12. CASE part \in {6, 7}
  BY <1>5, <1>12 DEF CarriesOut, Ask, CloseQuestion
<1>. QED
  BY <1>8, <1>9, <1>10, <1>11, <1>12 DEF Parts

\* A plan just made: nothing of it is written, and all that is owed is in it.
LEMMA AgainPlan ==
  ASSUME NEW m \in Nat, NEW L \in Libraries(m), NEW D, NEW r \in Reads, NEW answer, Answers(answer)
  PROVE  Again(ApplyWrites(r, answer, L, D), r, L, D, L, D)
<1>. DEFINE diff == Diff(r, L, D)
            todo == ApplyWrites(r, answer, L, D)
<1>1. PICK X : Marked(todo, X, diff, r, answer, L, m) /\ Complete(X, diff, answer, L)
  BY ApplyMarks
<1>2. \A j \in DOMAIN diff : /\ Classified(diff[j], r, diff[j].spine, L, D)
                             /\ diff[j].spine \in Spines(r)
                             /\ Claims[r][diff[j].spine].key \in Keys
  BY DiffFacts
<1>3. /\ DOMAIN diff = DOMAIN Primaries[r]
      /\ \A i \in DOMAIN Primaries[r] :
            diff[i] = Classify(r, Primaries[r][i], L, D) /\ Primaries[r][i] \in Spines(r)
  BY PrimariesFacts DEF Diff
<1>. HIDE DEF diff, todo
<1>4. PICK f \in [DOMAIN todo -> X] :
          /\ \A i \in DOMAIN todo : /\ f[i][2] \in DOMAIN diff
                                    /\ CarriesOut(todo[i], f[i][1], r, diff[f[i][2]], answer, L)
          /\ \A i, j \in DOMAIN todo : i < j => Precedes(f[i], f[j])
          /\ \A x \in X : \E i \in DOMAIN todo : f[i] = x
  BY <1>1 DEF Marked
<1>5. X \subseteq Marks /\ DOMAIN todo \subseteq Nat
  <2>1. todo \in Seq(StoreCalls(m)) /\ X \subseteq Marks
    BY <1>1 DEF Marked
  <2>2. DOMAIN todo = 1 .. Len(todo) /\ Len(todo) \in Nat
    BY <2>1, LenProperties
  <2>. QED
    BY <2>1, <2>2
<1>6. \A i \in DOMAIN todo : f[i] \in X /\ f[i][1] \in Parts /\ f[i] = <<f[i][1], f[i][2]>>
  BY <1>5 DEF Marks
<1>7. ASSUME NEW i \in DOMAIN todo
      PROVE  Applies(todo[i], r, L)
  <2>. DEFINE o == diff[f[i][2]]
              part == f[i][1]
  <2>1. /\ CarriesOut(todo[i], part, r, o, answer, L) /\ part \in Parts
        /\ Classified(o, r, o.spine, L, D) /\ o.spine \in Spines(r)
        /\ Claims[r][o.spine].key \in Keys
    BY <1>2, <1>4, <1>6
  <2>. HIDE DEF o, part
  <2>. QED
    BY <2>1, CarriedApplies
<1>8. ASSUME NEW i \in DOMAIN todo, todo[i].op = "decide", ~Suppresses(todo[i].decision)
      PROVE  \E j \in DOMAIN todo : j < i /\ Reaches(todo[j], todo[i].key, L)
  <2>. DEFINE n == f[i][2]
              part == f[i][1]
              o == diff[n]
              w == todo[i]
  <2>1. /\ n \in DOMAIN diff /\ part \in Parts /\ CarriesOut(w, part, r, o, answer, L)
        /\ f[i] = <<part, n>>
        /\ Classified(o, r, o.spine, L, D) /\ o.spine \in Nat
    BY <1>2, <1>4, <1>6, ClaimFacts
  <2>. HIDE DEF n, part, o, w
  <2>2. part = 5 /\ w.op = "decide" /\ ~Suppresses(w.decision)
    <3>1. w.op = "decide"
      BY <1>8 DEF w
    <3>2. Carries(w, part, r, o, answer, L)
      BY <2>1, CarriedSound
    <3>3. part = 5
      BY <2>1, <3>1, <3>2 DEF Carries, Parts, Touches, Queues
    <3>. QED
      BY <1>8, <3>1, <3>3 DEF w
  <2>3. Fits(o, answer, L) /\ AnswerDecision(w, r, o, answer, L)
    BY <2>1, <2>2 DEF CarriesOut
  <2>4. answer.kind \in {"already_listed", "another_copy"} /\ w.key = o.key
    <3>1. \A k : w = Decide(SiteOf[r], o.key, Decision(k, None)) /\ k \in {"rejected", "wrong_book"}
             => Suppresses(w.decision)
      BY DEF Decide, Decision, Suppresses
    <3>2. \A d : w = Decide(SiteOf[r], o.key, d) => w.key = o.key
      BY DEF Decide
    <3>. QED
      BY <2>2, <2>3, <3>1, <3>2 DEF AnswerDecision
  <2>5. answer # NoAnswer
    BY <2>4 DEF NoAnswer
  <2>6. <<4, n>> \in X
    <3>1. AnswerPart(n, answer) \subseteq X
      BY <1>1, <2>1, <2>3, <2>5 DEF Complete, o
    <3>. QED
      BY <2>4, <3>1 DEF AnswerPart, SaveKinds
  <2>7. PICK j \in DOMAIN todo : f[j] = <<4, n>>
    BY <1>4, <2>6
  <2>8. CarriesOut(todo[j], 4, r, o, answer, L)
    BY <1>4, <2>7 DEF o
  <2>9. AnswerSave(todo[j], r, o, answer, L)
    BY <2>8 DEF CarriesOut
  <2>10. o.reason = "ambiguous_location" /\ L[o.book].key = o.key
    <3>1. o.reason = "ambiguous_location"
      BY <2>3, <2>4 DEF Fits
    <3>. QED
      BY <2>1, <3>1, ReasonFacts DEF Names
  <2>11. Touches(todo[j]) /\ todo[j].book = o.book
    BY <2>4, <2>9 DEF AnswerSave, Save, SaveCopy, Touches
  <2>12. j < i
    <3>1. ~(i < j)
      <4>1. ~Precedes(<<part, n>>, <<4, n>>)
        BY <2>2 DEF Precedes
      <4>. QED
        BY <1>4, <2>1, <2>7, <4>1
    <3>2. i # j
      <4>1. <<part, n>> # <<4, n>>
        BY <2>2
      <4>. QED
        BY <2>1, <2>7, <4>1
    <3>. QED
      BY <1>5, <3>1, <3>2
  <2>13. Reaches(todo[j], w.key, L)
    BY <2>4, <2>10, <2>11 DEF Reaches
  <2>. QED
    BY <2>12, <2>13 DEF w
<1>9. ASSUME NEW i \in DOMAIN Primaries[r], Owed(r, Primaries[r][i], L, D)
      PROVE  Paid(todo, r, Primaries[r][i], L, L)
  <2>. DEFINE s == Primaries[r][i]
              key == Claims[r][s].key
              o == Classify(r, s, L, D)
  <2>1. /\ o.kind \in {"added", "unchanged", "corrected"} /\ Classified(o, r, s, L, D)
        /\ i \in DOMAIN diff /\ diff[i] = o
    BY <1>3, <1>9, ClassifyFacts DEF Owed
  <2>2. SightedHere(r, s, L) = {} /\ o.kind = "unchanged" => o.key = key
    <3>1. SightedHere(r, s, L) = {} => o = ClassifyByKey(r, s, L, D)
      BY DEF Classify
    <3>2. ClassifyByKey(r, s, L, D).key = Claims[r][s].key
      BY DEF ClassifyByKey, ClassifyElsewhere, Outcome
    <3>. QED
      BY <3>1, <3>2
  <2>. DEFINE part == IF o.kind = "added" THEN 1 ELSE IF o.kind = "unchanged" THEN 2 ELSE 3
  <2>3. part \in 1 .. 3 /\ <<part, i>> \in X
    <3>1. /\ diff[i].kind = "added" => <<1, i>> \in X
          /\ diff[i].kind = "unchanged" => <<2, i>> \in X
          /\ diff[i].kind = "corrected" => <<3, i>> \in X
      BY <1>1, <2>1 DEF Complete
    <3>. QED
      BY <2>1, <3>1
  <2>4. PICK k \in DOMAIN todo : f[k] = <<part, i>>
    BY <1>4, <2>3
  <2>5. CarriesOut(todo[k], part, r, o, answer, L)
    BY <1>4, <2>1, <2>4
  <2>6. s = Primaries[r][i] /\ key = Claims[r][s].key
    OBVIOUS
  <2>. DEFINE w == todo[k]
  <2>. HIDE DEF s, key, o, w
  <2>7. CASE o.kind = "added"
    <3>1. w = SaveNew(o.key, Evidence(r, o.spine, ManualStatus), r)
      BY <2>5, <2>7 DEF CarriesOut, w
    <3>2. w.op = "save_new" /\ w.key = o.key
      BY <3>1 DEF SaveNew
    <3>3. o.key = key
      BY <2>1, <2>6, <2>7 DEF Classified, Unnamed
    <3>4. Reaches(w, key, L)
      BY <3>2, <3>3 DEF Reaches
    <3>. QED
      BY <2>6, <3>4 DEF Paid, w
  <2>8. CASE o.kind = "unchanged"
    <3>1. CASE SightedHere(r, s, L) # {}
      <4>1. \E b \in DOMAIN L : Vouched(r, s, L[b])
        BY <3>1, VouchedSighted
      <4>. QED
        BY <2>6, <4>1 DEF Paid
    <3>2. CASE SightedHere(r, s, L) = {}
      <4>1. w = Save(o.book, Observe(L[o.book], o.copy, SiteOf[r], <<r, o.spine>>))
        BY <2>5, <2>8 DEF CarriesOut, w
      <4>2. w.op = "save" /\ w.book = o.book
        BY <4>1 DEF Save
      <4>3. L[o.book].key = key
        BY <2>1, <2>2, <2>8, <3>2 DEF Classified, StandsHere
      <4>4. Reaches(w, key, L)
        BY <4>2, <4>3 DEF Reaches, Touches
      <4>. QED
        BY <2>6, <4>4 DEF Paid, w
    <3>. QED
      BY <3>1, <3>2
  <2>9. CASE o.kind = "corrected"
    <3>1. w = CorrectedWrite(r, o, L)
      BY <2>5, <2>9 DEF CarriesOut, w
    <3>2. w.op \in {"save", "save_copy"} /\ w.book = o.book
      BY <3>1 DEF CorrectedWrite, Save, SaveCopy
    <3>3. L[o.book].key = key
      BY <2>1, <2>6, <2>9 DEF Classified, Names
    <3>4. Reaches(w, key, L)
      BY <3>2, <3>3 DEF Reaches, Touches
    <3>. QED
      BY <2>6, <3>4 DEF Paid, w
  <2>. QED
    BY <2>1, <2>7, <2>8, <2>9
<1>10. Grown(r, L, L) /\ Untouched(r, L, L)
  BY DEF Grown, Untouched
<1>. QED
  BY <1>7, <1>8, <1>9, <1>10 DEF Again, Follows, todo

\* One call less to make, when it has left what it was to leave.
LEMMA AgainTail ==
  ASSUME NEW S, NEW todo \in Seq(S), todo # <<>>, NEW L, NEW D, NEW r \in Reads,
         NEW B, NEW row, NEW B1, NEW row1, Again(todo, r, L, D, B, row),
         Grown(r, L, B1), Untouched(r, L, B1),
         \A key : Reached(r, key, B) => Reached(r, key, B1),
         \A key : Reaches(todo[1], key, L) => Reached(r, key, B1),
         \A key \in Keys : row1[key] = row[key] \/ Suppresses(row1[key]) \/ Reached(r, key, B1)
  PROVE  Again(Tail(todo), r, L, D, B1, row1)
<1>. DEFINE t == Tail(todo)
<1>1. /\ 1 \in DOMAIN todo /\ DOMAIN todo \subseteq Nat
      /\ DOMAIN t \subseteq Nat
      /\ \A i \in DOMAIN t : i + 1 \in DOMAIN todo /\ t[i] = todo[i + 1]
      /\ \A i \in DOMAIN todo : i = 1 \/ (i - 1 \in DOMAIN t /\ t[i - 1] = todo[i])
  BY TailOf
<1>. HIDE DEF t
<1>2. /\ \A i \in DOMAIN todo : Applies(todo[i], r, L) /\ Follows(todo, i, r, L, B)
      /\ \A i \in DOMAIN Primaries[r] :
            Owed(r, Primaries[r][i], L, D) => Paid(todo, r, Primaries[r][i], L, B)
      /\ \A key \in Keys : row[key] = D[key] \/ Suppresses(row[key]) \/ Reached(r, key, B)
  BY DEF Again
<1>3. \A i \in DOMAIN t : Applies(t[i], r, L)
  BY <1>1, <1>2
<1>4. ASSUME NEW i \in DOMAIN t, t[i].op = "decide", ~Suppresses(t[i].decision),
             ~Reached(r, t[i].key, B1)
      PROVE  \E j \in DOMAIN t : j < i /\ Reaches(t[j], t[i].key, L)
  <2>1. i + 1 \in DOMAIN todo /\ t[i] = todo[i + 1] /\ Follows(todo, i + 1, r, L, B)
    BY <1>1, <1>2
  <2>2. PICK j \in DOMAIN todo : j < i + 1 /\ Reaches(todo[j], t[i].key, L)
    BY <1>4, <2>1 DEF Follows
  <2>3. j # 1
    BY <1>4, <2>2
  <2>4. j - 1 \in DOMAIN t /\ t[j - 1] = todo[j] /\ j - 1 < i
    BY <1>1, <2>2, <2>3, SMTT(20)
  <2>. QED
    BY <2>2, <2>4
<1>5. ASSUME NEW s, Paid(todo, r, s, L, B)
      PROVE  Paid(t, r, s, L, B1)
  <2>. DEFINE key == Claims[r][s].key
  <2>1. ASSUME NEW i \in DOMAIN todo, Reaches(todo[i], key, L)
        PROVE  Reached(r, key, B1) \/ \E j \in DOMAIN t : Reaches(t[j], key, L)
    <3>1. CASE i = 1
      BY <2>1, <3>1
    <3>2. CASE i # 1
      BY <1>1, <2>1, <3>2
    <3>. QED
      BY <3>1, <3>2
  <2>2. Reached(r, key, B) => Reached(r, key, B1)
    OBVIOUS
  <2>. QED
    BY <1>5, <2>1, <2>2 DEF Paid
<1>6. \A key \in Keys : row1[key] = D[key] \/ Suppresses(row1[key]) \/ Reached(r, key, B1)
  <2>1. ASSUME NEW key \in Keys, row1[key] = row[key]
        PROVE  row1[key] = D[key] \/ Suppresses(row1[key]) \/ Reached(r, key, B1)
    BY <1>2, <2>1
  <2>. QED
    BY <2>1
<1>7. \A i \in DOMAIN t : Follows(t, i, r, L, B1)
  BY <1>4 DEF Follows
<1>. QED
  BY <1>2, <1>3, <1>5, <1>6, <1>7 DEF Again, t

\* A save of an applied read: the book that is stored has its old key, and a
\* claim that vouches for it.
LEMMA SavedReaches ==
  ASSUME NEW m \in Nat, m = minted, NEW L \in Libraries(m), NEW r \in Reads, NEW w \in StoreCalls(m),
         Applies(w, r, L), NEW n, NEW b, NEW x, SavesAs(w, n, b, x)
  PROVE  /\ \E s \in Spines(r) : Vouched(r, s, x)
         /\ b \in DOMAIN L => /\ x.key = L[b].key
                              /\ \A s : Vouched(r, s, L[b]) => Vouched(r, s, x)
         /\ b \notin DOMAIN L => b = m + 1
         /\ \A key : Reaches(w, key, L) => x.key = key
<1>1. ASSUME NEW s, NEW y, y.site = SiteOf[r], y.seen = <<<<r, s>>>>, m + 1 \in CopyIds(x),
             x.copies[m + 1] = y
      PROVE  Vouched(r, s, x)
  <2>1. Contains(y.seen, <<r, s>>)
    BY <1>1 DEF Contains
  <2>. QED
    BY <1>1, <2>1 DEF Vouched
<1>2. CASE w.op = "save"
  <2>1. b = w.book /\ x = w.aggregate
    BY <1>2 DEF SavesAs
  <2>2. b \in DOMAIN L
    BY <1>2, <2>1 DEF Applies, Touches
  <2>. QED
    BY <1>2, <2>1, <2>2 DEF Applies, Reaches, Touches
<1>3. CASE w.op = "save_new"
  <2>1. b = m + 1 /\ x = NewBook(w.key, m + 1, w.copy, w.added)
    BY <1>3 DEF SavesAs
  <2>2. w.key \in Keys /\ w.copy \in CopyType /\ w.added \in 1 .. Cardinality(Reads) + 1
    BY <1>3, CallFields
  <2>3. CopyIds(x) = {m + 1} /\ x.key = w.key /\ x.copies[m + 1] = w.copy
    <3>. DEFINE k == w.key
                y == w.copy
                a == w.added
                z == NewBook(k, m + 1, y, a)
    <3>1. k \in Keys /\ y \in CopyType /\ a \in 1 .. Cardinality(Reads) + 1 /\ x = z
      BY <2>1, <2>2
    <3>. HIDE DEF k, y, a
    <3>2. CopyIds(z) = {m + 1} /\ z.key = k /\ z.copies[m + 1] = y
      BY <3>1, NewBookFacts
    <3>. HIDE DEF z
    <3>. QED
      BY <3>1, <3>2 DEF k, y
  <2>4. PICK s \in Spines(r) : w.copy.site = SiteOf[r] /\ w.copy.seen = <<<<r, s>>>>
    BY <1>3 DEF Applies
  <2>5. Vouched(r, s, x)
    BY <1>1, <2>3, <2>4
  <2>6. b \notin DOMAIN L
    BY <2>1, LibraryFields
  <2>. QED
    BY <1>3, <2>1, <2>3, <2>5, <2>6 DEF Reaches, Touches
<1>4. CASE w.op = "save_copy"
  <2>1. b = w.book /\ x = AddCopy(w.aggregate, m + 1, w.copy)
    BY <1>4 DEF SavesAs
  <2>2. b \in DOMAIN L /\ w.aggregate = L[b]
    BY <1>4, <2>1 DEF Applies, Touches
  <2>3. w.aggregate \in BookRows(m) /\ w.copy \in CopyType
    BY <1>4, CallFields
  <2>4. /\ CopyIds(x) = CopyIds(L[b]) \cup {m + 1} /\ x.key = L[b].key
        /\ x.copies[m + 1] = w.copy
        /\ \A d \in CopyIds(L[b]) : x.copies[d] = L[b].copies[d]
    BY <2>1, <2>2, <2>3, AddCopyFacts
  <2>5. PICK s \in Spines(r) : w.copy.site = SiteOf[r] /\ w.copy.seen = <<<<r, s>>>>
    BY <1>4 DEF Applies
  <2>6. Vouched(r, s, x)
    BY <1>1, <2>4, <2>5
  <2>7. \A t : Vouched(r, t, L[b]) => Vouched(r, t, x)
    BY <2>4 DEF Vouched
  <2>. QED
    BY <1>4, <2>1, <2>2, <2>4, <2>6, <2>7 DEF Reaches, Touches
<1>. QED
  BY <1>2, <1>3, <1>4 DEF SavesAs

LEMMA AgainSaved ==
  ASSUME NEW m \in Nat, m = minted, NEW L \in Libraries(m), NEW B \in Libraries(m), NEW r \in Reads,
         NEW todo \in Seq(StoreCalls(m)), todo # <<>>, NEW D, NEW row, Again(todo, r, L, D, B, row),
         NEW n, NEW b, NEW x, SavesAs(todo[1], n, b, x)
  PROVE  Again(Tail(todo), r, L, D, Put(B, b, x), row)
<1>. DEFINE w == todo[1]
            B1 == Put(B, b, x)
<1>1. 1 \in DOMAIN todo /\ w \in StoreCalls(m)
  BY TailOf
<1>2. /\ Grown(r, L, B) /\ Untouched(r, L, B) /\ Applies(w, r, L)
      /\ \A key \in Keys : row[key] = D[key] \/ Suppresses(row[key]) \/ Reached(r, key, B)
  BY <1>1 DEF Again
<1>. HIDE DEF w
<1>3. /\ \E s \in Spines(r) : Vouched(r, s, x)
      /\ b \in DOMAIN L => /\ x.key = L[b].key
                           /\ \A s : Vouched(r, s, L[b]) => Vouched(r, s, x)
      /\ b \notin DOMAIN L => b = m + 1
      /\ \A key : Reaches(w, key, L) => x.key = key
  <2>1. SavesAs(w, n, b, x)
    BY DEF w
  <2>. QED
    BY <1>1, <1>2, <2>1, SavedReaches
<1>4. /\ DOMAIN B1 = DOMAIN B \cup {b} /\ B1[b] = x
      /\ \A o \in DOMAIN B : o # b => B1[o] = B[o]
  BY DEF Put
<1>. HIDE DEF B1
<1>5. b \in DOMAIN B => b \in DOMAIN L /\ x.key = B[b].key
  <2>1. b \in DOMAIN B => b # m + 1
    BY LibraryFields
  <2>. QED
    BY <1>2, <1>3, <2>1 DEF Grown
<1>6. Grown(r, L, B1)
  <2>1. ASSUME NEW o \in DOMAIN L
        PROVE  /\ o \in DOMAIN B1 /\ B1[o].key = L[o].key
               /\ \A s : Vouched(r, s, L[o]) => Vouched(r, s, B1[o])
    <3>1. CASE o = b
      BY <1>3, <1>4, <2>1, <3>1
    <3>2. CASE o # b
      BY <1>2, <1>4, <2>1, <3>2 DEF Grown
    <3>. QED
      BY <3>1, <3>2
  <2>. QED
    BY <2>1 DEF Grown
<1>7. Untouched(r, L, B1)
  <2>1. ASSUME NEW o \in DOMAIN B1
        PROVE  \/ o \in DOMAIN L /\ B1[o] = L[o]
               \/ \E s \in Spines(r) : Vouched(r, s, B1[o])
    <3>1. CASE o = b
      BY <1>3, <1>4, <3>1
    <3>2. CASE o # b
      BY <1>2, <1>4, <2>1, <3>2 DEF Untouched
    <3>. QED
      BY <3>1, <3>2
  <2>. QED
    BY <2>1 DEF Untouched
<1>8. ASSUME NEW key, Reached(r, key, B)
      PROVE  Reached(r, key, B1)
  <2>1. PICK o \in DOMAIN B : B[o].key = key /\ \E s \in Spines(r) : Vouched(r, s, B[o])
    BY <1>8 DEF Reached
  <2>2. o \in DOMAIN B1 /\ B1[o].key = key /\ \E s \in Spines(r) : Vouched(r, s, B1[o])
    BY <1>3, <1>4, <1>5, <2>1
  <2>. QED
    BY <2>2 DEF Reached
<1>9. \A key : Reaches(w, key, L) => Reached(r, key, B1)
  BY <1>3, <1>4 DEF Reached
<1>10. \A key \in Keys : row[key] = row[key] \/ Suppresses(row[key]) \/ Reached(r, key, B1)
  OBVIOUS
<1>. QED
  BY <1>6, <1>7, <1>8, <1>9, <1>10, AgainTail DEF w, B1

\* A call that saves no book: a decision, which follows its book, or a question.
LEMMA AgainNoted ==
  ASSUME NEW m \in Nat, NEW L \in Libraries(m), NEW B, NEW r \in Reads,
         NEW todo \in Seq(StoreCalls(m)), todo # <<>>, NEW D, NEW row, Again(todo, r, L, D, B, row),
         NEW row1,
         \/ todo[1].op = "decide" /\ row \in [Keys -> Decisions(m)]
            /\ row1 = [row EXCEPT ![todo[1].key] = todo[1].decision]
         \/ Queues(todo[1]) /\ row1 = row
  PROVE  Again(Tail(todo), r, L, D, B, row1)
<1>. DEFINE w == todo[1]
<1>1. 1 \in DOMAIN todo /\ DOMAIN todo \subseteq Nat
  BY TailOf
<1>2. /\ Grown(r, L, B) /\ Untouched(r, L, B) /\ Applies(w, r, L)
      /\ Follows(todo, 1, r, L, B)
  BY <1>1 DEF Again
<1>3. \A key : Reaches(w, key, L) => Reached(r, key, B)
  <2>1. w.op \in {"decide", "ask", "close"}
    BY DEF Queues
  <2>. QED
    BY <2>1 DEF Reaches, Touches
<1>4. w.op = "decide" => Suppresses(w.decision) \/ Reached(r, w.key, B)
  BY <1>1, <1>2 DEF Follows
<1>5. \A key \in Keys : row1[key] = row[key] \/ Suppresses(row1[key]) \/ Reached(r, key, B)
  <2>1. ASSUME NEW key \in Keys
        PROVE  row1[key] = row[key] \/ Suppresses(row1[key]) \/ Reached(r, key, B)
    <3>1. CASE w.op = "decide"
      <4>1. row \in [Keys -> Decisions(m)] /\ row1 = [row EXCEPT ![w.key] = w.decision]
        BY <3>1 DEF Queues
      <4>2. row1[key] = IF key = w.key THEN w.decision ELSE row[key]
        BY <2>1, <4>1
      <4>. QED
        BY <1>4, <3>1, <4>2
    <3>2. CASE w.op # "decide"
      BY <3>2
    <3>. QED
      BY <3>1, <3>2
  <2>. QED
    BY <2>1
<1>. QED
  BY <1>2, <1>3, <1>5, AgainTail

\* A read being applied, one request at a time.
Repeats(j, B, dec) ==
    j.at = "writing" /\ j.req.kind = "apply" =>
        \E D : Again(j.todo, j.req.read, j.library, D, B, dec[SiteOf[j.req.read]])
Repeating == \A h \in Handlers : Repeats(job[h], books, decisions)
RepeatInv == Alone => Repeating

\* The call is refused and ends the request, or it leaves the read to be
\* applied as it was.
LEMMA WriteRepeats ==
  ASSUME Sound, NEW h \in Handlers, Write(h), Repeats(job[h], books, decisions),
         job[h].req.kind = "apply"
  PROVE  LET r == job[h].req.read
         IN  \/ Refused(Head(job[h].todo)) /\ Raise(h)
             \/ /\ job' = [job EXCEPT ![h] = Rested(h)]
                /\ \E D : Again(Tail(job[h].todo), r, job[h].library, D, books', decisions'[SiteOf[r]])
<1>. DEFINE todo == job[h].todo
            L == job[h].library
            q == job[h].req
            r == q.read
            w == Head(todo)
            rest == Rested(h)
            dec == decisions
            row == dec[SiteOf[r]]
            m == minted
            B == books
            kind == q.kind
<1>1. Typed /\ job[h].at = "writing"
  BY DEF Sound, Write
<1>2. /\ m \in Nat /\ L \in Libraries(m) /\ todo \in Seq(StoreCalls(m)) /\ todo # <<>>
      /\ w = todo[1] /\ w \in StoreCalls(m) /\ CallSound(w, L, kind)
  BY <1>1, Rest
<1>3. r \in Reads
  <2>1. minted \in Nat /\ GoodJob(job[h], minted)
    BY <1>1 DEF Typed
  <2>2. Asked(job[h].req)
    BY <2>1, JobFields
  <2>. QED
    BY <2>2 DEF Asked, ReadKinds
<1>4. /\ B \in Libraries(m) /\ dec \in [Sites -> [Keys -> Decisions(m)]] /\ SiteOf[r] \in Sites
      /\ row \in [Keys -> Decisions(m)]
  BY <1>1, <1>3, ClaimFacts DEF Typed
<1>5. PICK D : Again(todo, r, L, D, B, row)
  BY <1>1 DEF Repeats
<1>6. Applies(w, r, L) /\ Grown(r, L, B)
  <2>1. 1 \in DOMAIN todo
    BY <1>2, TailOf
  <2>. QED
    BY <1>2, <1>5, <2>1 DEF Again
<1>7. \/ WriteBook(h, w, rest)
      \/ DropBook(h, w, rest)
      \/ WriteDecision(h, w, rest)
      \/ WriteQuestion(h, w, rest)
  BY DEF Write, Rested
<1>8. /\ m = minted /\ B = books /\ dec = decisions /\ row = dec[SiteOf[r]] /\ r = job[h].req.read
      /\ todo = job[h].todo /\ L = job[h].library /\ w = Head(job[h].todo) /\ rest = Rested(h)
  OBVIOUS
<1>9. KeysNameOneBook
  BY DEF Sound
<1>. HIDE DEF todo, L, q, r, w, rest, dec, row, m, B, kind
<1>10. ASSUME NEW n, NEW b, NEW x, SavesAs(w, n, b, x), SaveBook(h, b, x, n, rest),
              Holders(x.key, b) # {} => Refused(w)
       PROVE  \/ Refused(w) /\ Raise(h)
              \/ /\ job' = [job EXCEPT ![h] = rest]
                 /\ Again(Tail(todo), r, L, D, books', decisions'[SiteOf[r]])
  <2>1. CASE Holders(x.key, b) # {} /\ Raise(h)
    BY <1>10, <2>1
  <2>2. CASE /\ books' = Put(books, b, x) /\ job' = [job EXCEPT ![h] = rest]
             /\ decisions' = decisions
    <3>1. SavesAs(todo[1], n, b, x)
      BY <1>2, <1>10
    <3>2. Again(Tail(todo), r, L, D, Put(B, b, x), row)
      BY <1>2, <1>3, <1>4, <1>5, <1>8, <3>1, AgainSaved
    <3>. QED
      BY <1>8, <2>2, <3>2
  <2>. QED
    BY <1>10, <2>1, <2>2 DEF SaveBook
<1>11. CASE WriteBook(h, w, rest)
  <2>1. CASE w.op = "save" /\ SaveBook(h, w.book, w.aggregate, minted, rest)
    <3>1. SavesAs(w, minted, w.book, w.aggregate)
      BY <2>1 DEF SavesAs
    <3>2. Holders(w.aggregate.key, w.book) # {} => Refused(w)
      BY <2>1 DEF Refused
    <3>. QED
      BY <1>8, <1>10, <2>1, <3>1, <3>2
  <2>2. CASE /\ w.op = "save_new"
             /\ SaveBook(h, minted + 1, NewBook(w.key, minted + 1, w.copy, w.added), minted + 1, rest)
    <3>. DEFINE x == NewBook(w.key, minted + 1, w.copy, w.added)
    <3>1. SavesAs(w, minted + 1, minted + 1, x)
      BY <2>2 DEF SavesAs
    <3>2. x.key = w.key
      BY DEF NewBook
    <3>3. Holders(x.key, minted + 1) # {} => Refused(w)
      <4>1. \A o \in DOMAIN books : o # None
        BY <1>2, <1>4, <1>8, LibraryFields
      <4>. HIDE DEF x
      <4>2. Holders(w.key, minted + 1) \subseteq Holders(w.key, None)
        BY <4>1 DEF Holders, BooksNamed
      <4>. QED
        BY <2>2, <3>2, <4>2 DEF Refused
    <3>. HIDE DEF x
    <3>4. SaveBook(h, minted + 1, x, minted + 1, rest)
      BY <2>2 DEF x
    <3>. QED
      BY <1>8, <1>10, <3>1, <3>3, <3>4
  <2>3. CASE /\ w.op = "save_copy"
             /\ SaveBook(h, w.book, AddCopy(w.aggregate, minted + 1, w.copy), minted + 1, rest)
    <3>. DEFINE x == AddCopy(w.aggregate, minted + 1, w.copy)
                b == w.book
    <3>1. SavesAs(w, minted + 1, b, x)
      BY <2>3 DEF SavesAs
    <3>2. b \in DOMAIN L /\ w.aggregate = L[b] /\ b \in DOMAIN B /\ B[b].key = L[b].key
      BY <1>6, <2>3 DEF Applies, Touches, Grown
    <3>3. x.key = L[b].key
      <4>1. w.aggregate \in BookRows(m) /\ w.copy \in CopyType
        BY <1>2, <2>3, CallFields
      <4>2. x.key = w.aggregate.key
        BY <1>2, <1>8, <4>1, AddCopyFacts
      <4>. QED
        BY <3>2, <4>2
    <3>. HIDE DEF x, b
    <3>4. Holders(x.key, b) = {}
      BY <1>8, <1>9, <3>2, <3>3 DEF Holders, BooksNamed, KeysNameOneBook
    <3>5. SaveBook(h, b, x, minted + 1, rest)
      BY <2>3 DEF x, b
    <3>. QED
      BY <1>8, <1>10, <3>1, <3>4, <3>5
  <2>. QED
    BY <1>11, <2>1, <2>2, <2>3 DEF WriteBook
<1>12. CASE DropBook(h, w, rest)
  BY <1>6, <1>12, SMTT(20) DEF DropBook, Applies
<1>13. CASE WriteDecision(h, w, rest)
  <2>1. /\ w.op = "decide" /\ books' = books /\ job' = [job EXCEPT ![h] = rest]
        /\ decisions' = [decisions EXCEPT ![w.site][w.key] = w.decision]
    BY <1>13 DEF WriteDecision
  <2>. DEFINE row1 == [row EXCEPT ![w.key] = w.decision]
  <2>2. w.site = SiteOf[r] /\ w.key \in Keys
    BY <1>6, <2>1, SMTT(20) DEF Applies
  <2>3. decisions'[SiteOf[r]] = row1
    BY <1>4, <1>8, <2>1, <2>2
  <2>4. /\ todo[1].op = "decide" /\ row \in [Keys -> Decisions(m)]
        /\ row1 = [row EXCEPT ![todo[1].key] = todo[1].decision]
    BY <1>2, <1>4, <2>1
  <2>. HIDE DEF row1
  <2>5. Again(Tail(todo), r, L, D, B, row1)
    BY <1>2, <1>3, <1>5, <2>4, AgainNoted
  <2>. QED
    BY <1>8, <2>1, <2>3, <2>5
<1>14. CASE WriteQuestion(h, w, rest)
  <2>1. /\ w.op \in {"ask", "close"} /\ books' = books /\ decisions' = decisions
        /\ job' = [job EXCEPT ![h] = rest]
    BY <1>14 DEF WriteQuestion
  <2>2. Queues(todo[1])
    BY <1>2, <2>1 DEF Queues
  <2>3. Again(Tail(todo), r, L, D, B, row)
    BY <1>2, <1>3, <1>5, <2>2, AgainNoted
  <2>. QED
    BY <1>8, <2>1, <2>3
<1>. QED
  BY <1>7, <1>8, <1>11, <1>12, <1>13, <1>14

\* Whatever a handler does, it is not applying a read, has just planned it, or
\* goes on with it.
LEMMA StepRepeats ==
  ASSUME Sound, Alone => Reviewing, Alone, NEW h \in Handlers, Steps(h),
         Repeats(job[h], books, decisions)
  PROVE  Repeats(job'[h], books', decisions')
<1>1. Typed /\ minted \in Nat /\ job \in [Handlers -> Jobs(minted)] /\ books \in Libraries(minted)
      /\ GoodJob(job[h], minted)
  BY DEF Sound, Typed
<1>2. \A j : job' = [job EXCEPT ![h] = j] => job'[h] = j
  BY <1>1
<1>3. ASSUME NEW at, NEW q, NEW L, NEW todo
      PROVE  LET j == Working(at, q, L, todo)
             IN  /\ j.at = "writing" => at = "writing"
                 /\ j.at = "writing" => j.req = q /\ j.library = L /\ j.todo = todo
  BY DEF Working, Idle
<1>4. Idle.at # "writing"
  BY DEF Idle
<1>5. \A j, B, dec : j.at # "writing" \/ j.req.kind # "apply" => Repeats(j, B, dec)
  BY DEF Repeats
<1>6. CASE AskedOfARead(h)
  <2>1. PICK q \in RequestSet : q.kind \in ReadKinds /\ Accept(h, q, "deciding", <<>>)
    BY <1>1, <1>6, AskedForm
  <2>2. job' = [job EXCEPT ![h] = Working("deciding", q, books, <<>>)]
    BY <2>1 DEF Accept
  <2>. DEFINE j == Working("deciding", q, books, <<>>)
  <2>3. j.at # "writing"
    BY DEF Working
  <2>4. job' = [job EXCEPT ![h] = j]
    BY <2>2
  <2>. HIDE DEF j
  <2>5. job'[h] = j
    BY <1>2, <2>4
  <2>. QED
    BY <1>5, <2>3, <2>5
<1>7. CASE ByHand(h)
  <2>1. PICK q, todo : Handled(h, q, todo)
    BY <1>1, <1>7, HandForm
  <2>2. q.kind \in HandKinds /\ job' = [job EXCEPT ![h] = Working("writing", q, books, todo)]
    BY <2>1 DEF Handled, Accept
  <2>3. q.kind # "apply"
    BY <2>2 DEF HandKinds, ReadKinds
  <2>. DEFINE j == Working("writing", q, books, todo)
  <2>4. j.at = "writing" => j.req = q
    BY DEF Working, Idle
  <2>5. job' = [job EXCEPT ![h] = j]
    BY <2>2
  <2>. HIDE DEF j
  <2>6. job'[h] = j
    BY <1>2, <2>5
  <2>. QED
    BY <1>5, <2>3, <2>4, <2>6
<1>8. CASE PlanRestore(h)
  <2>1. PICK q \in RequestSet :
          /\ q.kind \in ReadKinds /\ job[h].at = "deciding"
          /\ job' = [job EXCEPT ![h] = Working("undoing", q, <<>>, <<>>)]
          /\ UNCHANGED <<books, decisions, questions, minted, play, requests, crashes>>
    BY <1>1, <1>8, RestoreForm
  <2>2. job'[h].at # "writing"
    BY <1>2, <1>3, <2>1
  <2>. QED
    BY <1>5, <2>2
<1>9. CASE PlanRetract(h) \/ PlanAnswer(h)
  <2>1. \E todo : Begin(h, todo)
    <3>1. CASE PlanRetract(h)
      BY <3>1 DEF PlanRetract
    <3>2. CASE PlanAnswer(h)
      BY <3>2, Zenon DEF PlanAnswer
    <3>. QED
      BY <1>9, <3>1, <3>2
  <2>2. PICK todo : Begin(h, todo)
    BY <2>1
  <2>3. job[h].req.kind # "apply"
    <3>1. CASE PlanRetract(h)
      BY <3>1 DEF PlanRetract, Deciding
    <3>2. CASE PlanAnswer(h)
      <4>1. Deciding(h, "answer") \/ Deciding(h, "skip")
        BY <3>2, Zenon DEF PlanAnswer
      <4>. QED
        BY <4>1 DEF Deciding
    <3>. QED
      BY <1>9, <3>1, <3>2
  <2>. DEFINE j == Working("writing", job[h].req, job[h].library, todo)
  <2>4. j.at = "writing" => j.req = job[h].req
    BY DEF Working, Idle
  <2>5. job' = [job EXCEPT ![h] = j]
    BY <1>1, <2>2 DEF Begin
  <2>. HIDE DEF j
  <2>6. job'[h] = j
    BY <1>2, <2>5
  <2>. QED
    BY <1>5, <2>3, <2>4, <2>6
<1>10. CASE PlanApply(h)
  <2>. DEFINE q == job[h].req
              r == q.read
              L == job[h].library
              D == decisions[SiteOf[r]]
              todo == ApplyWrites(r, q.answer, L, D)
              j == job'[h]
  <2>1. /\ job[h].at = "deciding" /\ q.kind = "apply" /\ Begin(h, todo)
    BY <1>10 DEF PlanApply, Deciding, DecidedAt
  <2>2. /\ j = Working("writing", q, L, todo)
        /\ books' = books /\ decisions' = decisions
    <3>1. job' = [job EXCEPT ![h] = Working("writing", q, L, todo)]
      BY <1>1, <2>1 DEF Begin
    <3>. QED
      BY <1>2, <2>1, <3>1 DEF Begin
  <2>3. L = books
    <3>1. Current(job[h], books, decisions)
      BY DEF Reviewing
    <3>. QED
      BY <2>1, <3>1 DEF Current
  <2>4. r \in Reads /\ Answers(q.answer)
    <3>1. Asked(job[h].req)
      BY <1>1, JobFields
    <3>. QED
      BY <2>1, <3>1 DEF Asked, ReadKinds
  <2>5. decisions'[SiteOf[r]] = D
    BY <2>2
  <2>. HIDE DEF q, r, L, D
  <2>6. Again(todo, r, L, D, L, D)
    <3>1. L \in Libraries(minted)
      BY <1>1, <2>3
    <3>. QED
      BY <1>1, <2>4, <3>1, AgainPlan
  <2>. HIDE DEF todo
  <2>7. CASE j.at # "writing"
    BY <1>5, <2>7
  <2>8. CASE j.at = "writing"
    <3>1. j.req = q /\ j.library = L /\ j.todo = todo
      BY <1>3, <2>2, <2>8
    <3>2. j.req.read = r
      BY <3>1 DEF r
    <3>. HIDE DEF j
    <3>3. Again(j.todo, j.req.read, j.library, D, books', decisions'[SiteOf[j.req.read]])
      BY <2>2, <2>3, <2>5, <2>6, <3>1, <3>2
    <3>4. Repeats(j, books', decisions')
      BY <3>3 DEF Repeats
    <3>. QED
      BY <3>4 DEF j
  <2>. QED
    BY <2>7, <2>8
<1>11. CASE Undo(h)
  <2>1. PICK j : /\ job' = [job EXCEPT ![h] = j] /\ j.at # "writing"
    <3>1. job[h] = [at |-> job[h].at, req |-> job[h].req, library |-> job[h].library,
                    todo |-> job[h].todo]
      BY <1>1, JobFields
    <3>2. [job[h] EXCEPT !.at = "undone"].at = "undone"
      BY <3>1
    <3>3. job' = [job EXCEPT ![h] = [job[h] EXCEPT !.at = "undone"]]
          \/ job' = [job EXCEPT ![h] = Idle]
      BY <1>1, <1>11 DEF Undo
    <3>. QED
      BY <1>4, <3>2, <3>3
  <2>. QED
    BY <1>2, <1>5, <2>1
<1>12. CASE Reapply(h)
  <2>1. PICK q \in RequestSet :
          /\ q.kind \in ReadKinds /\ job[h].at = "undone"
          /\ job' = [job EXCEPT ![h] = Working("deciding", q, books, <<>>)]
          /\ UNCHANGED <<books, decisions, questions, minted, play, requests, crashes>>
    BY <1>1, <1>12, ReapplyForm
  <2>2. job'[h].at # "writing"
    BY <1>2, <1>3, <2>1
  <2>. QED
    BY <1>5, <2>2
<1>13. CASE Write(h)
  <2>1. CASE job' = [job EXCEPT ![h] = Idle]
    BY <1>2, <1>4, <1>5, <2>1
  <2>2. CASE job' = [job EXCEPT ![h] = Rested(h)]
    <3>. DEFINE j == Rested(h)
    <3>1. job'[h] = j
      BY <1>2, <2>2
    <3>2. j.at = "writing" => /\ j.req = job[h].req /\ j.library = job[h].library
                              /\ j.todo = Tail(job[h].todo)
      BY <1>3 DEF Rested
    <3>. HIDE DEF j
    <3>3. CASE j.at # "writing" \/ j.req.kind # "apply"
      BY <1>5, <3>1, <3>3
    <3>4. CASE j.at = "writing" /\ j.req.kind = "apply"
      <4>1. /\ j.req = job[h].req /\ j.library = job[h].library /\ j.todo = Tail(job[h].todo)
            /\ job[h].req.kind = "apply"
        BY <3>2, <3>4
      <4>2. ~Raise(h)
        <5>1. Raise(h) => job'[h] = Idle
          BY <1>2 DEF Raise
        <5>. QED
          BY <1>4, <3>1, <3>4, <5>1
      <4>3. \E D : Again(Tail(job[h].todo), job[h].req.read, job[h].library, D, books',
                         decisions'[SiteOf[job[h].req.read]])
        BY <1>13, <4>1, <4>2, WriteRepeats
      <4>4. Repeats(j, books', decisions')
        BY <4>1, <4>3 DEF Repeats
      <4>. QED
        BY <3>1, <4>4
    <3>. QED
      BY <3>3, <3>4
  <2>. QED
    BY <1>13, <2>1, <2>2, WriteForm DEF Raise, Saved, DropBook, WriteDecision, WriteQuestion
<1>. QED
  BY <1>6, <1>7, <1>8, <1>9, <1>10, <1>11, <1>12, <1>13 DEF Steps, Planned

LEMMA RepeatNext ==
  ASSUME IInv, RepeatInv, [Next]_vars
  PROVE  RepeatInv'
<1>1. Sound /\ Typed /\ (Alone => Reviewing)
  BY DEF IInv, Sound
<1>2. \A B, dec : Repeats(Idle, B, dec)
  BY DEF Repeats, Idle
<1>3. CASE UNCHANGED vars
  BY <1>3 DEF vars, RepeatInv, Repeating, Alone
<1>4. CASE Crash
  BY <1>2, <1>4 DEF Crash, RepeatInv, Repeating
<1>5. ASSUME NEW h \in Handlers, Steps(h)
      PROVE  RepeatInv'
  <2>1. play' = play
    BY <1>1, <1>5, StepQuiet
  <2>2. SUFFICES ASSUME Alone, NEW g \in Handlers
                 PROVE  Repeats(job'[g], books', decisions')
    BY <2>1 DEF RepeatInv, Repeating, Alone
  <2>3. \A k \in Handlers : Repeats(job[k], books, decisions)
    BY <2>2 DEF RepeatInv, Repeating
  <2>4. CASE g = h
    BY <1>1, <1>5, <2>2, <2>3, <2>4, StepRepeats
  <2>5. CASE g # h
    <3>1. job'[g] = job[g]
      BY <1>1, <1>5, <2>5, StepOfOne
    <3>2. CASE job[g] = Idle
      BY <1>2, <3>1, <3>2
    <3>3. CASE job[g] # Idle
      <4>1. g \in play.handlers
        BY <1>1, <3>3 DEF Typed
      <4>2. job[h] = Idle
        BY <1>1, <2>2, <2>5, <4>1, LoneHandler
      <4>3. ~Write(h) /\ ~Undo(h)
        BY <4>2 DEF Write, Undo, Idle
      <4>4. books' = books /\ decisions' = decisions
        BY <1>1, <1>5, <4>3, OnlyWritesTouchBooks
      <4>. QED
        BY <2>3, <3>1, <4>4
    <3>. QED
      BY <3>2, <3>3
  <2>. QED
    BY <2>4, <2>5
<1>. QED
  BY <1>3, <1>4, <1>5 DEF Next, Steps

RepeatStep ==
    \A h \in Handlers : Alone /\ Completes(h, {"apply"}) =>
        LET r == job[h].req.read
        IN  \A o \in ToSet(Diff(r, books', decisions'[SiteOf[r]])) :
                /\ o.kind \notin {"added", "corrected"}
                /\ o.kind = "unchanged" =>
                      \/ Observe(books'[o.book], o.copy, SiteOf[r], <<r, o.spine>>)
                           = books'[o.book]
                      \/ \E s \in Spines(r) \ {o.spine} :
                            \E c \in CopyIds(books'[o.book]) :
                                <<o.book, c>> \in SightedHere(r, s, books')

\* The last call of an apply leaves nothing owed.
LEMMA NothingOwed ==
  ASSUME IInv, IInv', RepeatInv, NEW h \in Handlers, Alone, Write(h), Len(job[h].todo) = 1,
         ~Refused(Head(job[h].todo)), job[h].req.kind = "apply"
  PROVE  LET r == job[h].req.read
         IN  \A o \in ToSet(Diff(r, books', decisions'[SiteOf[r]])) : Stays(o, r, books')
<1>. DEFINE r == job[h].req.read
            L == job[h].library
            todo == job[h].todo
            B == books'
            row == decisions'[SiteOf[r]]
            n == minted'
<1>1. Sound /\ Typed /\ minted \in Nat /\ GoodJob(job[h], minted)
  BY DEF IInv, Sound, Typed
<1>2. Tail(todo) = <<>>
  BY <1>1, LastCall
<1>3. L \in Libraries(minted) /\ r \in Reads
  <2>1. L \in Libraries(minted) /\ Asked(job[h].req)
    BY <1>1, JobFields
  <2>. QED
    BY <2>1 DEF Asked, ReadKinds
<1>4. n \in Nat /\ B \in Libraries(n) /\ \A b, o \in DOMAIN B : B[b].key = B[o].key => b = o
  BY DEF IInv, Sound, Typed, KeysNameOneBook
<1>5. Repeats(job[h], books, decisions)
  BY DEF RepeatInv, Repeating
<1>6. PICK D : Again(Tail(todo), r, L, D, B, row)
  BY <1>1, <1>5, WriteRepeats
<1>7. Again(<<>>, r, L, D, B, row)
  BY <1>2, <1>6
<1>. HIDE DEF r, L, B, row, n, todo
<1>8. \A o \in ToSet(Diff(r, B, row)) : Stays(o, r, B)
  BY <1>1, <1>3, <1>4, <1>7, AgainStays
<1>. QED
  BY <1>8 DEF r, B, row

\* With one request at a time, when a read has been applied, applying it again
\* would add no book and no copy, would move none, and would save only what is
\* stored already, but for a book that another of its claims vouches for.
THEOREM AppliedOnce == Spec => ApplyIsIdempotent
<1>1. Init => RepeatInv
  BY DEF Init, RepeatInv, Repeating, Repeats, Idle
<1>2. IInv /\ RepeatInv /\ [Next]_vars => RepeatInv'
  BY RepeatNext
<1>3. IInv /\ IInv' /\ RepeatInv /\ [Next]_vars => [RepeatStep]_vars
  <2>1. ASSUME IInv, IInv', RepeatInv, [Next]_vars
        PROVE  RepeatStep
    <3>1. ASSUME NEW h \in Handlers, Alone, Completes(h, {"apply"})
          PROVE  LET r == job[h].req.read
                 IN  \A o \in ToSet(Diff(r, books', decisions'[SiteOf[r]])) : Stays(o, r, books')
      <4>1. /\ Calls(h, {"save", "save_new", "save_copy", "delete", "decide", "ask", "close"})
            /\ job[h].req.kind = "apply" /\ Len(job[h].todo) = 1
            /\ ~Refused(Head(job[h].todo))
        BY <3>1 DEF Completes
      <4>2. Sound /\ crashes \in Nat
        BY <2>1 DEF IInv
      <4>3. Write(h)
        BY <2>1, <4>1, <4>2, CallIsWrite
      <4>. QED
        BY <2>1, <3>1, <4>1, <4>3, NothingOwed
    <3>. QED
      BY <3>1 DEF RepeatStep, Stays
  <2>. QED
    BY <2>1
<1>. QED
  BY <1>1, <1>2, <1>3, Invariant, PTL DEF Spec, ApplyIsIdempotent, RepeatStep
=============================================================================
