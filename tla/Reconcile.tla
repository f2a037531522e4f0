------------------------------ MODULE Reconcile ------------------------------
(***************************************************************************)
(* What a read's claims mean for the library: the pure rules of            *)
(* app/domain/reconcile.py and app/domain/retract.py, and the list of      *)
(* store calls app/reconcile_apply.py makes of them.                       *)
(*                                                                         *)
(* A read is a number, in the order the reads were started and finished.   *)
(* Claims[r] is the sequence of its claims; a claim's position is its      *)
(* spine id and its claim id.  A claim has the key its text gives (NoKey   *)
(* for a blank title) and its tier.  The score that orders two claims of   *)
(* one tier is left out: the lower spine wins.                             *)
(*                                                                         *)
(* The library is a function from book ids to books; decided is the row of *)
(* standing decisions at the read's site, a function from keys.            *)
(***************************************************************************)
EXTENDS BookRecords

CONSTANTS Keys,      \* book identities, book_key(title, author)
          NoKey,     \* the identity of a blank title
          Sites,     \* places (shelf, depth)
          Reads,     \* 1 .. n
          Claims,    \* [Reads -> Seq([key : Keys \cup {NoKey}, tier : Tiers])]
          SiteOf     \* [Reads -> Sites]

Tiers == {"review", "auto", "manual"}

ASSUME ReadsAreNumbered == IsFiniteSet(Reads) /\ Reads = 1 .. Cardinality(Reads)
ASSUME ClaimsAreTyped ==
    \A r \in Reads : Claims[r] \in Seq([key : Keys \cup {NoKey}, tier : Tiers])
ASSUME SitesAreTyped == SiteOf \in [Reads -> Sites] /\ NoSite \notin Sites

None == 0            \* no book, no copy

DecisionKinds == {"none", "rejected", "wrong_book", "already_listed", "another_copy"}
Decision(kind, copyId) == [kind |-> kind, copy |-> copyId]
NoDecision == Decision("none", None)

\* A mutant: only one of the two ways to say no suppresses.
SuppressesRejected(decision) == decision.kind = "rejected"

Suppresses(decision) == decision.kind \in {"rejected", "wrong_book"}

Rank(tier) == CASE tier = "manual" -> 3 [] tier = "auto" -> 2 [] tier = "review" -> 1

Spines(r) == DOMAIN Claims[r]
Group(r, key) == {s \in Spines(r) : Claims[r][s].key = key}

\* _pick_primary: among the claims that name one book, the best evidence.
Primary(r, key) ==
    CHOOSE s \in Group(r, key) : \A t \in Group(r, key) \ {s} :
        LET a == Rank(Claims[r][s].tier)
            b == Rank(Claims[r][t].tier)
        IN  a > b \/ (a = b /\ s < t)

\* The elements of a sequence that are in T, in the order they have there.
Places(s, T)    == {i \in DOMAIN s : s[i] \in T}
PlaceOf(I, n)   == CHOOSE i \in I : Cardinality({k \in I : k <= i}) = n
Kept(s, T)      == LET I == Places(s, T)
                   IN  [n \in 1 .. Cardinality(I) |-> s[PlaceOf(I, n)]]

\* Where a key first appears in the read.
FirstOfKey(r) == {s \in Spines(r) : /\ Claims[r][s].key # NoKey
                                    /\ s = Min(Group(r, Claims[r][s].key))}

\* The primaries in the order their keys first appear in the read.
Primaries ==
    [r \in Reads |->
        LET first == Kept([s \in Spines(r) |-> s], FirstOfKey(r))
        IN  [i \in DOMAIN first |-> Primary(r, Claims[r][first[i]].key)]]

Outcome(kind, reason, spine, key, book, copyId) ==
    [kind |-> kind, reason |-> reason, spine |-> spine, key |-> key,
     book |-> book, copy |-> copyId]

\* _sightings_here: the copies standing here that this spine of this read
\* already vouches for; of several the one listed last counts.
SightedHere(r, spine, library) ==
    {bc \in UNION {{b} \X CopyIds(library[b]) : b \in DOMAIN library} :
        LET copy == library[bc[1]].copies[bc[2]]
        IN  copy.site = SiteOf[r] /\ Contains(copy.seen, <<r, spine>>)}

LastListed(pairs) ==
    CHOOSE p \in pairs : \A q \in pairs :
        p[1] > q[1] \/ (p[1] = q[1] /\ p[2] >= q[2])

\* The book a key names; the store holds at most one.
BooksNamed(key, library) == {b \in DOMAIN library : library[b].key = key}
BookNamed(key, library) ==
    IF BooksNamed(key, library) = {} THEN None
    ELSE CHOOSE b \in BooksNamed(key, library) : TRUE

\* _resolve_already_listed, and _resolve_copy_id for a fresh answer.
ResolveCopy(book, given) ==
    IF given # None
    THEN IF given \in CopyIds(book) THEN given ELSE None
    ELSE IF Cardinality(CopyIds(book)) = 1 THEN Min(CopyIds(book)) ELSE None

\* The last two rules, for a book that is real and stands elsewhere.
ClassifyElsewhere(spine, key, b, library, decision) ==
    LET copyId == ResolveCopy(library[b], decision.copy)
    IN  IF decision.kind = "already_listed" /\ copyId # None
        THEN Outcome("corrected", "relinked_by_decision", spine, key, b, copyId)
        ELSE IF decision.kind = "another_copy"
        THEN Outcome("corrected", "new_copy_by_decision", spine, key, b, None)
        ELSE Outcome("needs_decision", "ambiguous_location", spine, key, b, None)

\* The rules that look at the claim's own text, in their order.
ClassifyByKey(r, spine, library, decided) ==
    LET key  == Claims[r][spine].key
        b    == BookNamed(key, library)
        here == IF b = None THEN {} ELSE CopiesAt(library[b], SiteOf[r])
    IN  IF here # {}
        THEN Outcome("unchanged", "same_location", spine, key, b, Min(here))
        ELSE IF Suppresses(decided[key])
        THEN Outcome("rejected", decided[key].kind, spine, key, None, None)
        ELSE IF b = None /\ Claims[r][spine].tier = "manual"
        THEN Outcome("added", "manual_add", spine, key, None, None)
        ELSE IF b = None
        THEN Outcome("needs_decision", "new_book_unconfirmed", spine, key, None, None)
        ELSE ClassifyElsewhere(spine, key, b, library, decided[key])

\* _classify_one: first what this very spine already produced here, under
\* whatever key that book goes by now.
Classify(r, spine, library, decided) ==
    LET sighted == SightedHere(r, spine, library)
        last    == LastListed(sighted)
    IN  IF sighted # {}
        THEN Outcome("unchanged", "same_location", spine, library[last[1]].key,
                     last[1], last[2])
        ELSE ClassifyByKey(r, spine, library, decided)

\* reconcile(): the outcomes that matter, one for each book the read names.
Diff(r, library, decided) ==
    [i \in DOMAIN Primaries[r] |-> Classify(r, Primaries[r][i], library, decided)]

\* _outcome_for: the current outcome of any claim, the ignored ones included.
OutcomeOf(r, spine, library, decided) ==
    IF Claims[r][spine].key = NoKey
    THEN Outcome("ignored", "no_identity", spine, NoKey, None, None)
    ELSE IF spine # Primary(r, Claims[r][spine].key)
    THEN Outcome("ignored", "duplicate_within_depth", spine, Claims[r][spine].key,
                 None, None)
    ELSE Classify(r, spine, library, decided)

-----------------------------------------------------------------------------
(* The store calls.  A save carries the whole aggregate; a book or a copy    *)
(* that has no id yet is minted when the call is made.                       *)

Save(book, aggregate)   == [op |-> "save", book |-> book, aggregate |-> aggregate]
SaveNew(key, copy, added) ==
    [op |-> "save_new", key |-> key, copy |-> copy, added |-> added]
SaveCopy(book, aggregate, copy) ==
    [op |-> "save_copy", book |-> book, aggregate |-> aggregate, copy |-> copy]
DeleteBook(book, orElse) == [op |-> "delete", book |-> book, orElse |-> orElse]
Decide(site, key, decision) ==
    [op |-> "decide", site |-> site, key |-> key, decision |-> decision]
Ask(site, key, r)       == [op |-> "ask", site |-> site, key |-> key, read |-> r]
CloseQuestion(site, key) == [op |-> "close", site |-> site, key |-> key]

(***************************************************************************)
(* apply_diff: an answer is [spine, kind, copy, key]; NoAnswer has spine   *)
(* None.  An answer that does not fit raises after the writes above it and *)
(* before the queue is touched.                                            *)
(***************************************************************************)
NoAnswer == [spine |-> None, kind |-> "none", copy |-> None, key |-> NoKey]

Picked(outcomes, kind) == Kept(outcomes, {o \in ToSet(outcomes) : o.kind = kind})

\* The outcomes of one of these reasons, in their order.
Reasoned(outcomes, reasons) == Kept(outcomes, {o \in ToSet(outcomes) : o.reason \in reasons})

Evidence(r, spine, status) == Copy(SiteOf[r], status, <<<<r, spine>>>>)

\* _apply_corrected: the standing answer, carried out again.
CorrectedWrite(r, o, library) ==
    IF o.reason = "relinked_by_decision"
    THEN Save(o.book, RelinkCopy(library[o.book], o.copy, SiteOf[r], <<r, o.spine>>))
    ELSE SaveCopy(o.book, library[o.book], Evidence(r, o.spine, ManualStatus))

SettledWrites(r, library, decided) ==
    LET diff      == Diff(r, library, decided)
        added     == Picked(diff, "added")
        unchanged == Picked(diff, "unchanged")
        corrected == Picked(diff, "corrected")
    IN  [i \in DOMAIN added |->
            SaveNew(added[i].key, Evidence(r, added[i].spine, ManualStatus), r)]
     \o [i \in DOMAIN unchanged |->
            LET o == unchanged[i]
            IN  Save(o.book, Observe(library[o.book], o.copy, SiteOf[r],
                                     <<r, o.spine>>))]
     \o [i \in DOMAIN corrected |-> CorrectedWrite(r, corrected[i], library)]

\* The answer is to this outcome, the outcome is open, and the kinds agree.
Fits(o, answer, library) ==
    /\ o.spine = answer.spine
    /\ \/ /\ o.reason = "new_book_unconfirmed"
          /\ answer.kind \in {"confirm", "reject"}
       \/ /\ o.reason = "ambiguous_location"
          /\ \/ answer.kind \in {"another_copy", "wrong_book"}
             \/ /\ answer.kind = "already_listed"
                /\ ResolveCopy(library[o.book], answer.copy) # None

\* _apply_answer: the book first, then the decision.
AnswerWrites(r, o, answer, library) ==
    LET site  == SiteOf[r]
        given == ResolveCopy(library[o.book], answer.copy)
    IN  CASE answer.kind = "confirm" ->
                <<SaveNew(answer.key, Evidence(r, o.spine, Approved), r)>>
          [] answer.kind = "reject" ->
                <<Decide(site, o.key, Decision("rejected", None))>>
          [] answer.kind = "already_listed" ->
                <<Save(o.book, RelinkCopy(library[o.book], given, site, <<r, o.spine>>)),
                  Decide(site, o.key, Decision("already_listed", given))>>
          [] answer.kind = "another_copy" ->
                <<SaveCopy(o.book, library[o.book], Evidence(r, o.spine, ManualStatus)),
                  Decide(site, o.key, Decision("another_copy", None))>>
          [] answer.kind = "wrong_book" ->
                <<Decide(site, o.key, Decision("wrong_book", None))>>

\* A mutant: what is answered in this call is asked again.
QueueWritesBlind(r, answer, library, decided) ==
    LET open == Reasoned(Diff(r, library, decided), {"ambiguous_location"})
    IN  [i \in DOMAIN open |-> Ask(SiteOf[r], open[i].key, r)]

\* _sync_duplicate_queue: an open question is asked or, answered now, closed;
\* then every outcome a decision settled closes its question.
QueueWrites(r, answer, library, decided) ==
    LET diff  == Diff(r, library, decided)
        open  == Reasoned(diff, {"ambiguous_location"})
        swept == Reasoned(diff, {"relinked_by_decision", "new_copy_by_decision", "wrong_book"})
    IN  [i \in DOMAIN open |->
            IF open[i].spine = answer.spine
            THEN CloseQuestion(SiteOf[r], open[i].key)
            ELSE Ask(SiteOf[r], open[i].key, r)]
     \o [i \in DOMAIN swept |-> CloseQuestion(SiteOf[r], swept[i].key)]

ApplyWrites(r, answer, library, decided) ==
    LET answered == {o \in ToSet(Diff(r, library, decided)) : Fits(o, answer, library)}
        queue    == QueueWrites(r, answer, library, decided)
    IN  SettledWrites(r, library, decided)
     \o IF answer = NoAnswer THEN queue
        ELSE IF answered = {} THEN <<>>
        ELSE AnswerWrites(r, CHOOSE o \in answered : TRUE, answer, library) \o queue

-----------------------------------------------------------------------------
(* retract_finding and delete_book.                                          *)

\* A mutant: only where the first copy stands.
FirstSite(book) == {book.copies[Min(CopyIds(book))].site} \ {NoSite}

\* deletion_sites: where a deletion records its "no".
DeletionSites(book) == {book.copies[c].site : c \in CopyIds(book)} \ {NoSite}

\* plan_retraction's made_here: one copy, here, vouched for by this read only,
\* of a book that joined the library no earlier than the read began.
MadeHere(book, copyId, r) ==
    LET seen == book.copies[copyId].seen
    IN  /\ CopyIds(book) = {copyId}
        /\ seen # <<>>
        /\ \A i \in DOMAIN seen : seen[i][1] = r
        /\ book.added >= r

\* RetractAction, and the answer that is recorded with it.
Retraction(action, kind, copyId) == [action |-> action, kind |-> kind, copy |-> copyId]

\* plan_retraction: the "no" is recorded whatever it costs the library.
PlanRetraction(r, o, library) ==
    LET here == IF o.book = None THEN {} ELSE CopiesAt(library[o.book], SiteOf[r])
        kind == IF o.reason = "ambiguous_location" THEN "wrong_book" ELSE "rejected"
    IN  IF here = {} THEN Retraction("nothing", kind, None)
        ELSE Retraction(IF MadeHere(library[o.book], Min(here), r)
                        THEN "delete_book" ELSE "remove_from_shelf", kind, Min(here))

\* retract_finding: the decision, then the record, then the open question.
RetractWrites(r, o, library) ==
    LET plan == PlanRetraction(r, o, library)
    IN  <<Decide(SiteOf[r], o.key, Decision(plan.kind, None))>>
     \o (CASE plan.action = "nothing" -> <<>>
           [] plan.action = "delete_book" -> <<DeleteBook(o.book, "continue")>>
           [] plan.action = "remove_from_shelf" ->
                 <<Save(o.book, RemoveFromShelf(library[o.book], plan.copy))>>)
     \o <<CloseQuestion(SiteOf[r], o.key)>>

DeleteWrites(b, library) ==
    LET book  == library[b]
        sites == SetToSeq(DeletionSites(book))
    IN  <<DeleteBook(b, "stop")>>
     \o [i \in DOMAIN sites |->
            Decide(sites[i], book.key, Decision("rejected", None))]
=============================================================================
