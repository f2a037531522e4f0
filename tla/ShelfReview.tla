----------------------------- MODULE ShelfReview -----------------------------
(***************************************************************************)
(* How the library changes once a read has settled: applying its diff,     *)
(* answering what it left open, taking a finding back and restoring it,    *)
(* answering or skipping a queued question, and the hand edits of the      *)
(* Books tab.  Every request first reads the store, then makes its writes  *)
(* one store call at a time; nothing locks the library in between, and a   *)
(* crash can come between any two calls.                                   *)
(*                                                                         *)
(* diff_for lists the books in one call and the decisions in the next.     *)
(* GET requests and the fresh diff every handler returns change nothing    *)
(* and are left out; so are rows of two shelves merged into one.           *)
(***************************************************************************)
EXTENDS Reconcile

CONSTANTS Handlers,     \* threads that serve requests, the read's own job too
          Borrowers,    \* people a copy is lent to
          Labels,       \* what a person may write on a copy
          Plays         \* what a behaviour is made of, chosen as it starts:
                        \* the kinds of request, the handlers that serve them,
                        \* how many requests (hence minted ids) and crashes

VARIABLES books,        \* the stored books, a function from their ids
          decisions,    \* [Sites -> [Keys -> Decision]]
          questions,    \* [Sites -> [Keys -> read that asked, or None]]
          minted,       \* the last id minted
          job,          \* what each handler is doing
          play, requests, crashes

vars == <<books, decisions, questions, minted, job, play, requests, crashes>>

ASSUME HandlersAreFinite == \A p \in Plays : IsFiniteSet(p.handlers)

RequestKinds == {"apply", "retract", "restore", "answer", "skip",
                 "approve", "rename", "delete", "create", "copy",
                 "patch", "lend", "return"}

\* A request: its kind, the read, the claim or question, the answer.
Request(kind, r, spine, key, answer) ==
    [kind |-> kind, read |-> r, spine |-> spine, key |-> key, answer |-> answer]

NoRequest == Request("none", None, None, NoKey, NoAnswer)

\* at: idle, deciding (books are read, decisions are not), undoing, writing.
Idle == [at |-> "idle", req |-> NoRequest, library |-> <<>>, todo |-> <<>>]

Working(at, req, library, todo) ==
    IF at = "writing" /\ todo = <<>> THEN Idle
    ELSE [at |-> at, req |-> req, library |-> library, todo |-> todo]

Init == /\ books = <<>>
        /\ decisions = [s \in Sites |-> [k \in Keys |-> NoDecision]]
        /\ questions = [s \in Sites |-> [k \in Keys |-> None]]
        /\ minted = 0
        /\ job = [h \in Handlers |-> Idle]
        /\ play \in Plays
        /\ requests = 0
        /\ crashes = 0

Accept(h, req, at, todo) ==
    /\ h \in play.handlers /\ req.kind \in play.kinds
    /\ job[h] = Idle
    /\ requests < play.requests
    /\ requests' = requests + 1
    /\ job' = [job EXCEPT ![h] = Working(at, req, books, todo)]
    /\ UNCHANGED <<books, decisions, questions, minted, play, crashes>>

-----------------------------------------------------------------------------
(* Requests about a read.  diff_for's first call lists the books.            *)

\* A client answers a claim it saw open; a stale answer may fit nothing now.
AnswersTo(r, spine) ==
    LET key == Claims[r][spine].key
        b   == BookNamed(key, books)
        some(kind) == [spine |-> spine, kind |-> kind, copy |-> None, key |-> key]
    IN  {[some("confirm") EXCEPT !.key = k] : k \in Keys}
          \cup {some(kind) : kind \in {"reject", "another_copy", "wrong_book"}}
          \cup {[some("already_listed") EXCEPT !.copy = c] :
                    c \in {None} \cup (IF b = None THEN {} ELSE CopyIds(books[b]))}

OpenClaims(r) ==
    {o.spine : o \in {o \in ToSet(Diff(r, books, decisions[SiteOf[r]])) :
                        o.kind = "needs_decision"}}

\* The job's apply when its read settles, and the client's: answers are the
\* client's, at most one to a request here.
Apply(h) ==
    \E r \in Reads :
        \E answer \in {NoAnswer} \cup UNION {AnswersTo(r, s) : s \in OpenClaims(r)} :
            Accept(h, Request("apply", r, None, NoKey, answer), "deciding", <<>>)

Retract(h) ==
    \E r \in Reads : \E spine \in {s \in Spines(r) : Claims[r][s].key # NoKey} :
        Accept(h, Request("retract", r, spine, NoKey, NoAnswer), "deciding", <<>>)

Restore(h) ==
    \E r \in Reads : \E spine \in Spines(r) :
        Accept(h, Request("restore", r, spine, NoKey, NoAnswer), "deciding", <<>>)

\* One queued question, by the read that asked it last.
AnswerQuestion(h) ==
    \E site \in Sites, key \in Keys :
        /\ questions[site][key] # None
        /\ \E answer \in UNION {AnswersTo(questions[site][key], s) :
                                    s \in Group(questions[site][key], key)} :
            /\ answer.kind \in {"already_listed", "another_copy", "wrong_book"}
            /\ Accept(h, Request("answer", questions[site][key], None, key, answer),
                      "deciding", <<>>)

SkipQuestion(h) ==
    \E site \in Sites, key \in Keys :
        /\ questions[site][key] # None
        /\ Accept(h, Request("skip", questions[site][key], None, key, NoAnswer),
                  "deciding", <<>>)

-----------------------------------------------------------------------------
(* Their second store call lists the decisions; the diff follows from both.  *)

Deciding(h, kind) == job[h].at = "deciding" /\ job[h].req.kind = kind

Begin(h, todo) ==
    /\ job' = [job EXCEPT ![h] = Working("writing", @.req, @.library, todo)]
    /\ UNCHANGED <<books, decisions, questions, minted, play, requests, crashes>>

DecidedAt(h) == decisions[SiteOf[job[h].req.read]]

PlanApply(h) ==
    /\ Deciding(h, "apply")
    /\ Begin(h, ApplyWrites(job[h].req.read, job[h].req.answer, job[h].library,
                            DecidedAt(h)))

PlanRetract(h) ==
    /\ Deciding(h, "retract")
    /\ LET r == job[h].req.read
       IN  Begin(h, RetractWrites(r, OutcomeOf(r, job[h].req.spine, job[h].library,
                                               DecidedAt(h)), job[h].library))

\* restore_a_finding knows the key of the outcome; delete_decision is next.
PlanRestore(h) ==
    /\ Deciding(h, "restore")
    /\ LET o == OutcomeOf(job[h].req.read, job[h].req.spine, job[h].library,
                          DecidedAt(h))
       IN  job' = [job EXCEPT ![h] =
                     Working("undoing", [@.req EXCEPT !.key = o.key], <<>>, <<>>)]
    /\ UNCHANGED <<books, decisions, questions, minted, play, requests, crashes>>

\* delete_decision: whether one stood there, and what is left.
Stands(site, key) == key # NoKey /\ decisions[site][key] # NoDecision
Cleared(site, key) ==
    IF Stands(site, key) THEN [decisions EXCEPT ![site][key] = NoDecision] ELSE decisions

\* Nothing to undo is a 409; otherwise the read is applied afresh.
Undo(h) ==
    LET site == SiteOf[job[h].req.read]
        key  == job[h].req.key
    IN  /\ job[h].at = "undoing"
        /\ job' = [job EXCEPT ![h] = IF Stands(site, key) THEN [@ EXCEPT !.at = "undone"] ELSE Idle]
        /\ decisions' = Cleared(site, key)
        /\ UNCHANGED <<books, questions, minted, play, requests, crashes>>

Reapply(h) ==
    /\ job[h].at = "undone"
    /\ job' = [job EXCEPT ![h] =
                 Working("deciding", Request("apply", @.req.read, None, NoKey, NoAnswer),
                         books, <<>>)]
    /\ UNCHANGED <<books, decisions, questions, minted, play, requests, crashes>>

\* _resolve_outcome: a question its read no longer asks is dropped (409).
PlanAnswer(h) ==
    LET req  == job[h].req
        asked == {o \in ToSet(Diff(req.read, job[h].library, DecidedAt(h))) :
                    o.reason = "ambiguous_location" /\ o.key = req.key}
        o    == CHOOSE o \in asked : TRUE
        answer == IF req.kind = "answer" THEN [req.answer EXCEPT !.spine = o.spine]
                  ELSE [spine |-> o.spine, kind |-> "already_listed", key |-> o.key,
                        copy |-> PickDefaultCopy(job[h].library[o.book])]
    IN  /\ Deciding(h, "answer") \/ Deciding(h, "skip")
        /\ Begin(h, IF asked = {} THEN <<CloseQuestion(SiteOf[req.read], req.key)>>
                    ELSE ApplyWrites(req.read, answer, job[h].library, DecidedAt(h)))

-----------------------------------------------------------------------------
(* Requests of the Books tab: one store.get, then the writes.                *)

EditRequest(kind, key) == Request(kind, None, None, key, NoAnswer)

ApproveBook(h) ==
    \E b \in DOMAIN books :
        Accept(h, EditRequest("approve", NoKey), "writing", <<Save(b, Approve(books[b]))>>)

RenameBook(h) ==
    \E b \in DOMAIN books, key \in Keys :
        Accept(h, EditRequest("rename", key), "writing", <<Save(b, Edit(books[b], key))>>)

RemoveBook(h) ==
    \E b \in DOMAIN books :
        Accept(h, EditRequest("delete", books[b].key), "writing", DeleteWrites(b, books))

\* A book typed by hand stands nowhere, was never seen, and is newer than
\* every read here.
CreateBook(h) ==
    \E key \in Keys :
        Accept(h, EditRequest("create", key), "writing",
               <<SaveNew(key, Copy(NoSite, ManualStatus, <<>>), Cardinality(Reads) + 1)>>)

CreateCopy(h) ==
    \E b \in DOMAIN books :
        Accept(h, EditRequest("copy", NoKey), "writing",
               <<SaveCopy(b, books[b], Copy(NoSite, ManualStatus, <<>>))>>)

\* patch_copy, lend_copy, return_copy_route: one copy of the book, or a 404; a
\* loan its copy refuses is a 409.
OnCopy(h, kind, b, aggregate) ==
    Accept(h, EditRequest(kind, NoKey), "writing", <<Save(b, aggregate)>>)

PatchCopy(h) ==
    \E b \in DOMAIN books, label \in Labels : \E c \in CopyIds(books[b]) :
        OnCopy(h, "patch", b, EditCopy(books[b], c, label))

LendCopy(h) ==
    \E b \in DOMAIN books, to \in Borrowers : \E c \in CopyIds(books[b]) :
        /\ MayLend(books[b], c)
        /\ OnCopy(h, "lend", b, Lend(books[b], c, to))

TakeCopyBack(h) ==
    \E b \in DOMAIN books : \E c \in CopyIds(books[b]) :
        /\ MayReturn(books[b], c)
        /\ OnCopy(h, "return", b, ReturnCopy(books[b], c))

-----------------------------------------------------------------------------
(* One store call.  books.save replaces the whole aggregate and raises when  *)
(* another book holds its key, which drops the writes that were to follow.   *)

Holders(key, b) == BooksNamed(key, books) \ {b}

Raise(h) ==
    /\ job' = [job EXCEPT ![h] = Idle]
    /\ UNCHANGED <<books, decisions, questions, minted, play, requests, crashes>>

SaveBook(h, b, aggregate, id, rest) ==
    \/ Holders(aggregate.key, b) # {} /\ Raise(h)
    \/ /\ Holders(aggregate.key, b) = {}
       /\ books' = Put(books, b, aggregate)
       /\ minted' = id
       /\ job' = [job EXCEPT ![h] = rest]
       /\ UNCHANGED <<decisions, questions, play, requests, crashes>>

WriteBook(h, w, rest) ==
    \/ /\ w.op = "save"
       /\ SaveBook(h, w.book, w.aggregate, minted, rest)
    \/ /\ w.op = "save_new"
       /\ SaveBook(h, minted + 1, NewBook(w.key, minted + 1, w.copy, w.added),
                   minted + 1, rest)
    \/ /\ w.op = "save_copy"
       /\ SaveBook(h, w.book, AddCopy(w.aggregate, minted + 1, w.copy), minted + 1, rest)

DropBook(h, w, rest) ==
    /\ w.op = "delete"
    /\ books' = [b \in DOMAIN books \ {w.book} |-> books[b]]
    /\ job' = [job EXCEPT ![h] =
                 IF w.book \notin DOMAIN books /\ w.orElse = "stop" THEN Idle ELSE rest]
    /\ UNCHANGED <<decisions, questions, minted, play, requests, crashes>>

WriteDecision(h, w, rest) ==
    /\ w.op = "decide"
    /\ decisions' = [decisions EXCEPT ![w.site][w.key] = w.decision]
    /\ job' = [job EXCEPT ![h] = rest]
    /\ UNCHANGED <<books, questions, minted, play, requests, crashes>>

WriteQuestion(h, w, rest) ==
    /\ w.op \in {"ask", "close"}
    /\ questions' = [questions EXCEPT ![w.site][w.key] =
                        IF w.op = "ask" THEN w.read ELSE None]
    /\ job' = [job EXCEPT ![h] = rest]
    /\ UNCHANGED <<books, decisions, minted, play, requests, crashes>>

Write(h) ==
    /\ job[h].at = "writing"
    /\ LET w    == Head(job[h].todo)
           rest == Working("writing", job[h].req, job[h].library, Tail(job[h].todo))
       IN  \/ WriteBook(h, w, rest)
           \/ DropBook(h, w, rest)
           \/ WriteDecision(h, w, rest)
           \/ WriteQuestion(h, w, rest)

Crash ==
    /\ crashes < play.crashes
    /\ \E h \in Handlers : job[h] # Idle
    /\ crashes' = crashes + 1
    /\ job' = [h \in Handlers |-> Idle]
    /\ UNCHANGED <<books, decisions, questions, minted, play, requests>>

AskedOfARead(h) ==
    Apply(h) \/ Retract(h) \/ Restore(h) \/ AnswerQuestion(h) \/ SkipQuestion(h)

Planned(h) == PlanApply(h) \/ PlanRetract(h) \/ PlanRestore(h) \/ PlanAnswer(h)

ByHand(h) ==
    \/ ApproveBook(h) \/ RenameBook(h) \/ RemoveBook(h) \/ CreateBook(h) \/ CreateCopy(h)
    \/ PatchCopy(h) \/ LendCopy(h) \/ TakeCopyBack(h)

Next == \/ \E h \in Handlers : \/ AskedOfARead(h) \/ Planned(h) \/ ByHand(h)
                               \/ Undo(h) \/ Reapply(h) \/ Write(h)
        \/ Crash

Spec == Init /\ [][Next]_vars

-----------------------------------------------------------------------------
CopyType == [site : Sites \cup {NoSite}, status : AutoStatus .. ManualStatus,
             seen : Seq(Reads \X Nat), label : Labels \cup {NoLabel},
             lent : [to : Borrowers \cup {NoOne}, out : BOOLEAN]]

BookType(book) == /\ book.key \in Keys
                  /\ book.added \in 1 .. Cardinality(Reads) + 1
                  /\ CopyIds(book) # {} /\ CopyIds(book) \subseteq 1 .. minted
                  /\ \A c \in CopyIds(book) : book.copies[c] \in CopyType

\* The stored rows and the handlers have the shapes the stores give them, and
\* no copy belongs to two books.
TypeOK ==
    /\ DOMAIN books \subseteq 1 .. minted
    /\ \A b \in DOMAIN books : BookType(books[b])
    /\ \A b, o \in DOMAIN books : b # o => CopyIds(books[b]) \cap CopyIds(books[o]) = {}
    /\ decisions \in [Sites -> [Keys -> [kind : DecisionKinds, copy : 0 .. minted]]]
    /\ questions \in [Sites -> [Keys -> Reads \cup {None}]]
    /\ \A h \in Handlers :
          /\ job[h].at \in {"idle", "deciding", "undoing", "undone", "writing"}
          /\ job[h].req.kind \in RequestKinds \cup {"none"}
          /\ (job[h].todo # <<>>) = (job[h].at = "writing")

\* What the handler's step is: the store call it makes, and its last one.
Calls(h, ops) == /\ job[h].at = "writing"
                 /\ job'[h] # job[h]
                 /\ crashes' = crashes
                 /\ Head(job[h].todo).op \in ops

Refused(w) == \/ w.op = "save" /\ Holders(w.aggregate.key, w.book) # {}
              \/ w.op = "save_new" /\ Holders(w.key, None) # {}

Completes(h, kinds) ==
    /\ Calls(h, {"save", "save_new", "save_copy", "delete", "decide", "ask", "close"})
    /\ job[h].req.kind \in kinds
    /\ Len(job[h].todo) = 1
    /\ ~Refused(Head(job[h].todo))

Quiet == crashes = 0 /\ \A h \in Handlers : job[h] = Idle

\* One request at a time.  Two at once may each save a book as it was before
\* the other changed it, as the code has no version of a book to compare.
Alone == Cardinality(play.handlers) = 1

\* Status.merge and the copy operations: while a book is in the library no
\* step takes one of its copies away, lowers its status, rewrites what a person
\* wrote on it or forgets who has it, a loan ending by its return only, and a
\* deleted book does not come back under its id; however requests interleave, books.save
\* never costs the library another book, which leaves by its own deletion only.
Saves(kind) == \E h \in Handlers : Calls(h, {"save"}) /\ job[h].req.kind = kind
KeepsCopies ==
    \A b \in DOMAIN books \cap DOMAIN books' : \A c \in CopyIds(books[b]) :
        LET was == books[b].copies[c]
            now == books'[b].copies[c]
        IN  /\ c \in CopyIds(books'[b])
            /\ now.status >= was.status
            /\ was.label # now.label => Saves("patch")
            /\ was.lent.out => /\ now.lent.to = was.lent.to
                               /\ now.lent.out \/ Saves("return")
NothingComesBack == \A b \in DOMAIN books' \ DOMAIN books : b > minted
OnlyDeletedBooksLeave ==
    \A b \in DOMAIN books \ DOMAIN books' :
        \E h \in Handlers : Calls(h, {"delete"}) /\ Head(job[h].todo).book = b
HumanWorkIsKept ==
    [][OnlyDeletedBooksLeave /\ (Alone => KeepsCopies /\ NothingComesBack)]_vars

\* Section 5.6 of the product's rules: applying a read without new answers
\* puts no copy of a book at a place where a standing decision says it is not.
Placed(b, c) == /\ books'[b].copies[c].site # NoSite
                /\ b \in DOMAIN books /\ c \in CopyIds(books[b])
                      => books[b].copies[c].site # books'[b].copies[c].site
SuppressedStaysOut ==
    [][\A h \in Handlers :
          /\ Alone
          /\ Calls(h, {"save", "save_new", "save_copy"})
          /\ job[h].req.kind = "apply" /\ job[h].req.answer = NoAnswer
          => \A b \in DOMAIN books' : \A c \in CopyIds(books'[b]) :
                Placed(b, c) =>
                  decisions[books'[b].copies[c].site][books'[b].key].kind
                      \notin {"rejected", "wrong_book"}]_vars

\* The job and the client both apply a settled read: when one apply is done,
\* another would add and correct nothing, and would save only what is stored
\* already; but for a book another claim of the read has vouched for there, as
\* the saves of two claims that name one book overwrite each other.
ApplyIsIdempotent ==
    [][\A h \in Handlers : Alone /\ Completes(h, {"apply"}) =>
          LET r == job[h].req.read
          IN  \A o \in ToSet(Diff(r, books', decisions'[SiteOf[r]])) :
                  /\ o.kind \notin {"added", "corrected"}
                  /\ o.kind = "unchanged" =>
                        \/ Observe(books'[o.book], o.copy, SiteOf[r], <<r, o.spine>>)
                             = books'[o.book]
                        \/ \E s \in Spines(r) \ {o.spine} :
                              \E c \in CopyIds(books'[o.book]) :
                                  <<o.book, c>> \in SightedHere(r, s, books')]_vars

\* A question and its answer are two states of one fact: when nothing runs, no
\* question is open where "another copy" or "wrong book" was the answer.
AnsweredQuestionsAreClosed ==
    Quiet /\ Alone => \A site \in Sites, key \in Keys :
        decisions[site][key].kind \in {"another_copy", "wrong_book"}
            => questions[site][key] = None

\* What a removal leaves of a claim: retract_finding's own, and for a deletion
\* every claim that vouched for a copy of the book.
RemovedClaims(h) ==
    IF job[h].req.kind = "retract" THEN {<<job[h].req.read, job[h].req.spine>>}
    ELSE Sightings(job[h].library[BookNamed(job[h].req.key, job[h].library)])

NowReads(claim) == OutcomeOf(claim[1], claim[2], books', decisions'[SiteOf[claim[1]]]).kind

\* Taking a finding back, or deleting the book it stands for, while the book
\* stands there under the claim's own key: no apply brings it back.
RemovalSticks ==
    [][\A h \in Handlers : Alone /\ Completes(h, {"retract", "delete"}) =>
          \A claim \in RemovedClaims(h) :
              LET before == OutcomeOf(claim[1], claim[2], job[h].library,
                                      decisions[SiteOf[claim[1]]])
              IN  /\ before.kind = "unchanged"
                  /\ before.key = Claims[claim[1]][claim[2]].key
                  => NowReads(claim) \in {"rejected", "unchanged"}]_vars

\* However requests interleave, one key names one book.
KeysNameOneBook ==
    \A b, o \in DOMAIN books : books[b].key = books[o].key => b = o

\* The stored library is sound between any two store calls: its rows have
\* their shapes, a copy belongs to one book, a key names one book, and no
\* answered question is still asked.
LibraryIsSound == TypeOK /\ KeysNameOneBook /\ AnsweredQuestionsAreClosed
=============================================================================
