----------------------------- MODULE BookRecords -----------------------------
(***************************************************************************)
(* One book of a library and the copies that stand for it: the pure        *)
(* operations of app/domain/book.py.  A copy's location (shelf, depth) is  *)
(* one Site or NoSite; its provenance is the sequence of the sightings     *)
(* <<read, spine>> that vouch for it, in the order they were appended.     *)
(* Copies are a function from copy ids, which are minted in increasing     *)
(* order, so "the first copy" is the one with the least id.  Of titles and  *)
(* authors only the book's key, which derives from them, is told apart; a  *)
(* copy's label, tags and condition are one value.                         *)
(***************************************************************************)
EXTENDS Integers, Sequences, FiniteSetsExt, SequencesExt

CONSTANTS NoSite,    \* a copy that stands nowhere
          NoLabel,   \* a copy nobody described
          NoOne      \* the borrower of a copy that was never lent

(* The status ladder. *)
AutoStatus == 0
Approved == 1
ManualStatus == 2

\* A mutant: the last word wins.
IncomingStatus(current, incoming) == incoming

\* Status.merge: the higher rung, never the incoming one.
MergeStatus(current, incoming) ==
    IF current >= incoming THEN current ELSE incoming

\* Lending: who has the copy; the record outlives the loan.
Lending(to, out) == [to |-> to, out |-> out]

Copy(site, status, seen) ==
    [site |-> site, status |-> status, seen |-> seen,
     label |-> NoLabel, lent |-> Lending(NoOne, FALSE)]

CopyIds(book) == DOMAIN book.copies

\* A map with one entry put in, the others as they are.
Put(f, key, value) == [x \in DOMAIN f \cup {key} |-> IF x = key THEN value ELSE f[x]]

\* A book entering the library with its first and only copy.
NewBook(key, copyId, copy, added) ==
    [key |-> key, added |-> added, copies |-> [c \in {copyId} |-> copy]]

\* "I have another copy": the only operation that adds one.
AddCopy(book, copyId, copy) ==
    [book EXCEPT !.copies = Put(@, copyId, copy)]

\* _with_copy: one copy replaced, the others as they are.
WithCopy(book, copyId, copy) == [book EXCEPT !.copies[copyId] = copy]

\* A mutant: a replayed sighting is appended again.
WitnessedAgain(seen, sighting) == Append(seen, sighting)

\* A sighting is appended once.
Witnessed(seen, sighting) ==
    IF Contains(seen, sighting) THEN seen ELSE Append(seen, sighting)

\* A read saw the copy standing at site again: evidence is appended once, an
\* unplaced copy is placed, a placed one never moves.
Observe(book, copyId, site, sighting) ==
    WithCopy(book, copyId,
             [book.copies[copyId] EXCEPT !.site   = IF @ = NoSite THEN site ELSE @,
                                         !.status = MergeStatus(@, AutoStatus),
                                         !.seen   = Witnessed(@, sighting)])

\* A human said this copy is the one at site: the copy moves there.
RelinkCopy(book, copyId, site, sighting) ==
    WithCopy(book, copyId,
             [book.copies[copyId] EXCEPT !.site   = site,
                                         !.status = MergeStatus(@, AutoStatus),
                                         !.seen   = Witnessed(@, sighting)])

Raised(copy, status) == [copy EXCEPT !.status = MergeStatus(@, status)]
RaiseAll(book, status) ==
    [book EXCEPT !.copies = [c \in CopyIds(book) |-> Raised(book.copies[c], status)]]

Approve(book) == RaiseAll(book, Approved)

\* Fixing the title re-keys the book and raises every copy to manual.
Edit(book, key) == [RaiseAll(book, ManualStatus) EXCEPT !.key = key]

RemoveFromShelf(book, copyId) ==
    WithCopy(book, copyId, [book.copies[copyId] EXCEPT !.site = NoSite])

\* Describing the object confirms nothing about the book: the status stays.
EditCopy(book, copyId, label) ==
    WithCopy(book, copyId, [book.copies[copyId] EXCEPT !.label = label])

\* One borrower at a time: a copy that is out is not lent again, and only a
\* copy that is out comes back.
MayLend(book, copyId) == ~book.copies[copyId].lent.out
Lend(book, copyId, to) ==
    WithCopy(book, copyId, [book.copies[copyId] EXCEPT !.lent = Lending(to, TRUE)])

MayReturn(book, copyId) == book.copies[copyId].lent.out
ReturnCopy(book, copyId) ==
    WithCopy(book, copyId, [book.copies[copyId] EXCEPT !.lent.out = FALSE])

CopiesAt(book, site) == {c \in CopyIds(book) : book.copies[c].site = site}

Sightings(book) == UNION {ToSet(book.copies[c].seen) : c \in CopyIds(book)}

(***************************************************************************)
(* pick_default_copy (app/domain/copy_resolution.py): the first copy with  *)
(* no shelf, else the least recently seen.  A read's number stands for the *)
(* time its sightings carry; a copy nobody ever read was seen at time 0.   *)
(***************************************************************************)
LastSeen(copy) == IF copy.seen = <<>> THEN 0 ELSE Last(copy.seen)[1]

PickDefaultCopy(book) ==
    LET unplaced == CopiesAt(book, NoSite)
        oldest   == Min({LastSeen(book.copies[c]) : c \in CopyIds(book)})
    IN  Min(IF unplaced # {} THEN unplaced
            ELSE {c \in CopyIds(book) : LastSeen(book.copies[c]) = oldest})
=============================================================================
