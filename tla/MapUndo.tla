------------------------------ MODULE MapUndo ------------------------------
(***************************************************************************)
(* The journal of destructive map edits: what an entry remembers, when it   *)
(* may still be taken back, and how the two requests of one removal become  *)
(* one entry.  An edit remembers the rows as they stood, so that taking it  *)
(* back needs no inverse of its own: `restore` maps each target (a table's  *)
(* name and a key) to the row to put back, or to Absent when the edit made  *)
(* the row and undoing it deletes it.                                       *)
(*                                                                         *)
(* The module is only operators: what the journal's store holds is the      *)
(* sequence `entries`, newest last, of the module that extends this one.    *)
(***************************************************************************)
EXTENDS Integers, Sequences, FiniteSets, TLC

CONSTANTS
    Absent,          \* the row that is not there
    Watched(_)       \* what a restore depends on: its targets, and more

(* How far back a continuation is looked for. *)
RecentLimit == 8

(* A row that was made by the edit, or put back by its undo. *)
Minted(restore) == {t \in DOMAIN restore : restore[t] = Absent}

FingerprintReadBack(seen, wrote, restore) ==
    [k \in Watched(restore) |-> seen[k]]

(* digest_row, _digest_for: a digest is its row.  What the edit itself      *)
(* wrote wins over what is read back, so that somebody else's write in      *)
(* between counts as a change.                                              *)
Fingerprint(seen, wrote, restore) ==
    [k \in Watched(restore) |-> IF k \in DOMAIN wrote THEN wrote[k] ELSE seen[k]]

ChangedTargets(entry, seen) ==
    {k \in DOMAIN entry.prints : entry.prints[k] # seen[k]}

(* The second request of a removal, and the first one it continues. *)
Continues == [delete_bookcase |-> "clear_bookcase",
              delete_section  |-> "clear_section"]

CoalescesWith(entry, tag, kind) ==
    /\ entry.live
    /\ entry.tag = tag
    /\ kind \in DOMAIN Continues
    /\ entry.kind = Continues[kind]

(* The newest of the last RecentLimit entries this one continues, or 0. *)
PartnerFor(entries, tag, kind) ==
    LET near == {i \in 1..Len(entries) : /\ i > Len(entries) - RecentLimit
                                         /\ CoalescesWith(entries[i], tag, kind)}
    IN  IF near = {} THEN 0 ELSE CHOOSE i \in near : \A j \in near : j <= i

MergeRestoresSecond(older, newer) == newer

(* The older half is the row as it stood before either; a row that one half *)
(* made and the other would put back was never there, and drops out.        *)
MergeRestores(older, newer) ==
    LET both  == DOMAIN older \cap DOMAIN newer
        never == {t \in both : (older[t] = Absent) # (newer[t] = Absent)}
        all   == older @@ newer
    IN  [t \in DOMAIN all \ never |-> all[t]]

(* What the second request did not touch keeps the first one's fingerprint. *)
CoalescedFingerprint(previous, restore, seen, wrote) ==
    LET union == MergeRestores(previous.restore, restore)
        fresh == Fingerprint(seen, wrote, union)
        owned == Watched(restore)
    IN  [k \in DOMAIN fresh |->
            IF k \in owned \/ k \notin DOMAIN previous.prints
            THEN fresh[k] ELSE previous.prints[k]]

Entry(id, kind, tag, restore, prints) ==
    [id |-> id, kind |-> kind, tag |-> tag, restore |-> restore, prints |-> prints, live |-> TRUE]

Absorbed(previous, kind, restore, prints) ==
    [previous EXCEPT !.kind = kind, !.prints = prints,
                     !.restore = MergeRestores(previous.restore, restore)]

(* The store: one row per id, and a row that is rewritten becomes the       *)
(* newest.                                                                  *)
Stored(entries, entry) ==
    LET other(e) == e.id # entry.id
    IN  Append(SelectSeq(entries, other), entry)

(* record: an edit that lost nothing records nothing; a continuation takes  *)
(* its partner's place.                                                     *)
Recorded(entries, kind, tag, restore, seen, wrote) ==
    LET at == PartnerFor(entries, tag, kind)
    IN  IF DOMAIN restore = {} THEN entries
        ELSE Stored(entries,
                IF at = 0
                THEN Entry(Len(entries) + 1, kind, tag, restore, Fingerprint(seen, wrote, restore))
                ELSE Absorbed(entries[at], kind, restore,
                              CoalescedFingerprint(entries[at], restore, seen, wrote)))

(* offer, undo: only the newest entry, only while it is live, and only when *)
(* the world is as that edit left it.                                       *)
Newest(entries) == entries[Len(entries)]

MayUndo(entries, seen) ==
    /\ entries # <<>>
    /\ Newest(entries).live
    /\ ChangedTargets(Newest(entries), seen) = {}

MarkUndone(entries, id) ==
    [i \in DOMAIN entries |->
        IF entries[i].id = id THEN [entries[i] EXCEPT !.live = FALSE] ELSE entries[i]]
=============================================================================
