------------------------------- MODULE Backup -------------------------------
(***************************************************************************)
(* Backing up the product beside its server, and restoring it.              *)
(*                                                                         *)
(* The live state is a database file, its write-ahead log and a tree of     *)
(* photographs.  A backup is a directory written by a process that may die  *)
(* at any step; a restore is a process that moves the live files aside and  *)
(* copies a backup into their place.  That the server is stopped first is   *)
(* the operator's doing: the restore asks SQLite whether the database is in *)
(* use, and SQLite knows of a call in progress, not of an idle server.      *)
(*                                                                         *)
(* The n-th photograph filed is n, and its row stands for every row the     *)
(* product keeps: a database is the set of photographs it names.  The log   *)
(* holds what its file will be once it is folded in.  Abstracted: the other *)
(* tables, sizes and migrations; a checksum is whether a file is what was   *)
(* written, and a file copied in part is `torn', or empty.                  *)
(***************************************************************************)
EXTENDS Naturals, FiniteSetsExt, SequencesExt, TLC

CONSTANTS
    Nothing, Torn,
    MaxPhotos, MaxBackups, MaxRestores,
    Plays            \* which parts run, the complete backups kept, the crashes

Pictures  == SUBSET (1 .. MaxPhotos)
Manifests == [taken : Nat, rows : Pictures, files : Nat]
Restores  == [from : Nat, at : {"db", "log", "blobs", "copy", "close", "tree"}, todo : Pictures]

(* The tools keep their promise if photographs are not collected while they *)
(* are copied; a restore that may be cut short has no reader beside it and  *)
(* no collection after it; and, where old backups go, none is restored by   *)
(* name that was left half removed, nor any while a backup runs.            *)
Careful(p) ==
    /\ "collect" \notin p.parts
    /\ "restore" \in p.parts /\ p.crashes > 0 => "delete" \notin p.parts /\ "reader" \notin p.parts
    /\ p.keep > 0 => "at once" \notin p.parts /\ ("by name" \in p.parts => p.crashes = 0)

ASSUME BackupAssumption ==
    /\ MaxPhotos \in Nat
    /\ \A s \in Pictures : s # Nothing /\ s # Torn
    /\ Nothing # Torn /\ Nothing \notin Manifests /\ Nothing \notin Restores
    /\ \A p \in Plays : p.keep \in Nat /\ p.crashes \in Nat /\ Careful(p)

VARIABLES
    play,
    db, log, blobs,  \* the live files, or Nothing
    up,              \* the server
    inhand, filed,   \* photographs stored and not yet named; how many there have been
    backups,         \* the directories, in the order they were begun
    clock,
    restoring,
    aside,           \* what each restore moved out of its way
    crashes,
    kept             \* history: what was saved and not deleted since; a backup's `began'
                     \* and `whole': what stood when it began, and whether with its photographs
                     \* and no restore beside it

live   == <<db, log, blobs>>
server == <<up, inhand, filed, kept>>
vault  == <<backups, clock>>
vars   == <<play, live, server, vault, restoring, aside, crashes>>

Can(part) == part \in play.parts

Opens(file) == file \notin {Nothing, Torn}
Content(file, wal) == IF ~Opens(file) THEN {} ELSE IF wal = Nothing THEN file ELSE wal
Rows   == Content(db, log)
Stored == IF blobs = Nothing THEN {} ELSE blobs

(***************************************************************************)
(* The server: bytes first, then the row that names them.                   *)
(***************************************************************************)
Serving == up /\ UNCHANGED <<play, db, up, vault, restoring, aside, crashes>>

PutBlob ==
    /\ Serving /\ filed < MaxPhotos
    /\ filed' = filed + 1
    /\ blobs' = Stored \cup {filed + 1}
    /\ inhand' = inhand \cup {filed + 1}
    /\ UNCHANGED <<log, kept>>

SaveRow == \E k \in inhand :
    /\ Serving
    /\ log' = Rows \cup {k}
    /\ inhand' = inhand \ {k}
    /\ kept' = kept \cup {k}
    /\ UNCHANGED <<blobs, filed>>

Delete == \E k \in Rows :
    /\ Can("delete") /\ Serving
    /\ log' = Rows \ {k}
    /\ kept' = kept \ {k}
    /\ UNCHANGED <<blobs, inhand, filed>>

(* Photographs nobody names, and that are not about to be named.            *)
Copying(n) == backups[n].at \in {"list", "copy"}
Collect == \E k \in (Stored \ Rows) \ inhand :
    /\ Can("delete") /\ Serving
    /\ \A n \in DOMAIN backups : ~Copying(n) \/ Can("collect")
    /\ blobs' = blobs \ {k}
    /\ UNCHANGED <<log, inhand, filed, kept>>

Checkpoint ==
    /\ up /\ log # Nothing
    /\ db' = log /\ log' = Nothing
    /\ UNCHANGED <<play, blobs, server, vault, restoring, aside, crashes>>

Stop ==
    /\ Can("restore") /\ up
    /\ up' = FALSE /\ inhand' = {}
    /\ UNCHANGED <<play, live, filed, kept, vault, restoring, aside, crashes>>

(* A server that finds no database makes an empty one.                      *)
Start ==
    /\ ~up /\ restoring = Nothing /\ db # Torn
    /\ up' = TRUE
    /\ db' = IF db = Nothing THEN {} ELSE db
    /\ UNCHANGED <<play, log, blobs, inhand, filed, kept, vault, restoring, aside, crashes>>

(***************************************************************************)
(* A backup: the database in one instant, the photographs as they were      *)
(* listed, then the manifest; then the oldest are pruned.                   *)
(***************************************************************************)
Untouched     == UNCHANGED <<play, live, server, restoring, aside, crashes>>
At(n, step)   == backups[n].at = step
To(n, step)   == [backups[n] EXCEPT !.at = step]
Becomes(n, b) == backups' = [backups EXCEPT ![n] = b]

BeginBackup ==
    /\ Can("backup") /\ Len(backups) < MaxBackups
    /\ \A n \in DOMAIN backups : backups[n].at = "ended" \/ Can("overlap")
    /\ db # Nothing
    /\ restoring = Nothing \/ Can("at once")
    /\ backups' = Append(backups, [at |-> "db", db |-> Nothing, blobs |-> {}, todo |-> {},
                                   manifest |-> Nothing, doomed |-> {}, began |-> kept \cap Rows,
                                   whole |-> Rows \subseteq Stored /\ restoring = Nothing])
    /\ Untouched /\ UNCHANGED clock

CopyMainFile == \E n \in DOMAIN backups :
    /\ At(n, "db")
    /\ Becomes(n, IF Opens(db) THEN [To(n, "list") EXCEPT !.db = db, !.began = @ \cap kept]
                  ELSE To(n, "ended"))
    /\ Untouched /\ UNCHANGED clock
(* SQLite's own backup: all that is committed, what is in the log with it.  *)
CopyDatabase == \E n \in DOMAIN backups :
    /\ At(n, "db")
    /\ Becomes(n, IF Opens(db) THEN [To(n, "list") EXCEPT !.db = Rows, !.began = @ \cap kept]
                  ELSE To(n, "ended"))
    /\ Untouched /\ UNCHANGED clock

ListBlobs == \E n \in DOMAIN backups :
    /\ At(n, "list")
    /\ Becomes(n, [To(n, "copy") EXCEPT !.todo = Stored])
    /\ Untouched /\ UNCHANGED clock

(* A file that is gone since it was listed fails the copy.                  *)
CopyBlob == \E n \in DOMAIN backups : \E k \in backups[n].todo :
    /\ At(n, "copy")
    /\ Becomes(n, IF k \in Stored
                  THEN [backups[n] EXCEPT !.todo = @ \ {k}, !.blobs = @ \cup {k}]
                  ELSE To(n, "ended"))
    /\ Untouched /\ UNCHANGED clock

(* Nothing before it is missing: it is the last file written.               *)
WriteManifest == \E n \in DOMAIN backups :
    /\ At(n, "copy") /\ backups[n].todo = {}
    /\ Becomes(n, [To(n, "prune") EXCEPT !.manifest =
           [taken |-> clock, rows |-> backups[n].db, files |-> Cardinality(backups[n].blobs)]])
    /\ clock' = clock + 1
    /\ Untouched

(* complete_backups, and their order.                                       *)
Complete == {n \in DOMAIN backups : backups[n].manifest # Nothing}
Newer(n) == {m \in Complete : backups[m].manifest.taken > backups[n].manifest.taken}
IsNewest(n) == n \in Complete /\ Newer(n) = {}

Doomed(keep) == {n \in Complete : Cardinality(Newer(n)) >= keep}
Prune == \E n \in DOMAIN backups :
    /\ At(n, "prune")
    /\ Becomes(n, [To(n, "remove") EXCEPT !.doomed = IF play.keep = 0 THEN {} ELSE Doomed(play.keep)])
    /\ Untouched /\ UNCHANGED clock

(* A directory goes file by file, in any order.                             *)
Emptier(b) ==
    {c \in {[b EXCEPT !.db = Nothing], [b EXCEPT !.manifest = Nothing]} : c # b}
    \cup {[b EXCEPT !.blobs = @ \ {k}] : k \in b.blobs}
RemoveDoomed == \E n \in DOMAIN backups :
    /\ At(n, "remove")
    /\ \/ \E d \in backups[n].doomed : \E b \in Emptier(backups[d]) : Becomes(d, b)
       \/ /\ \A d \in backups[n].doomed : Emptier(backups[d]) = {}
          /\ Becomes(n, To(n, "ended"))
    /\ Untouched /\ UNCHANGED clock

(***************************************************************************)
(* The drill and the restore.                                               *)
(***************************************************************************)
(* verify: a manifest, and the database it vouches for.                     *)
DatabaseOnly(b) == b.db # Nothing
Verified(b) == b.manifest # Nothing /\ b.db = b.manifest.rows

(* drill: as many rows and files, restored, as the manifest says.           *)
DrillPasses(b) == Verified(b) /\ Cardinality(b.blobs) = b.manifest.files

Restoring(step) == restoring # Nothing /\ restoring.at = step
GoOn(step)      == restoring' = [restoring EXCEPT !.at = step]
Alone           == UNCHANGED <<play, server, vault, crashes>>
Aside(kind, what) == aside' = [aside EXCEPT ![Len(aside)][kind] = what]

(* With the server stopped.  A torn database is more than it can ask about  *)
(* (DatabaseError, which nothing catches): it ends before moving anything,  *)
(* every time.  Else the log is folded in, unless a reader stands in the    *)
(* way.                                                                     *)
BeginRestore == \E n \in DOMAIN backups :
    /\ Can("restore") /\ ~up /\ db # Torn /\ restoring = Nothing /\ Len(aside) < MaxRestores
    /\ IsNewest(n) \/ Can("by name")
    /\ (\A m \in DOMAIN backups : backups[m].at = "ended") \/ Can("at once")
    /\ Verified(backups[n])
    /\ restoring' = [from |-> n, at |-> "db", todo |-> {}]
    /\ aside' = Append(aside, [db |-> Nothing, log |-> Nothing, blobs |-> Nothing])
    /\ \/ Opens(db) /\ db' = Rows /\ log' = Nothing
       \/ (Opens(db) => Can("reader")) /\ UNCHANGED <<db, log>>
    /\ backups' = [m \in DOMAIN backups |->
                      [backups[m] EXCEPT !.whole = @ /\ backups[m].at = "ended"]]
    /\ UNCHANGED <<play, server, clock, crashes, blobs>>

MoveDatabase ==
    /\ Restoring("db")
    /\ GoOn(IF db = Nothing THEN "blobs" ELSE "log")
    /\ Aside("db", db) /\ db' = Nothing
    /\ Alone /\ UNCHANGED <<log, blobs>>

(* The sidecar goes where its file went.                                    *)
MoveLog ==
    /\ Restoring("log")
    /\ GoOn("blobs")
    /\ Aside("log", log) /\ log' = Nothing
    /\ Alone /\ UNCHANGED <<db, blobs>>

MoveBlobs ==
    /\ Restoring("blobs")
    /\ GoOn("copy")
    /\ Aside("blobs", blobs) /\ blobs' = Nothing
    /\ Alone /\ UNCHANGED <<db, log>>

(* The copy of the file may be cut short by a crash, as that of the tree: a *)
(* file of no bytes is to SQLite an empty database.                         *)
CopyBack ==
    /\ Restoring("copy")
    /\ GoOn("close")
    /\ db' \in {{}, Torn}
    /\ Alone /\ UNCHANGED <<log, blobs, aside>>

CopiedBack ==
    /\ Restoring("close")
    /\ restoring' = [restoring EXCEPT !.at = "tree", !.todo = backups[restoring.from].blobs]
    /\ db' = backups[restoring.from].db
    /\ blobs' = {}
    /\ Alone /\ UNCHANGED <<log, aside>>

CopyTree ==
    /\ Restoring("tree")
    /\ \/ \E k \in restoring.todo :
             /\ blobs' = blobs \cup {k}
             /\ restoring' = [restoring EXCEPT !.todo = @ \ {k}]
       \/ /\ restoring.todo = {}
          /\ restoring' = Nothing /\ UNCHANGED blobs
    /\ Alone /\ UNCHANGED <<db, log, aside>>

(***************************************************************************)
(* The machine goes down: what ran is gone, the files stay as they are.     *)
(***************************************************************************)
Crash ==
    /\ crashes < play.crashes
    /\ crashes' = crashes + 1
    /\ up' = FALSE /\ inhand' = {} /\ restoring' = Nothing
    /\ backups' = [n \in DOMAIN backups |-> To(n, "ended")]
    /\ UNCHANGED <<play, live, filed, kept, clock, aside>>

-----------------------------------------------------------------------------
Init ==
    /\ play \in Plays
    /\ db = {} /\ log = Nothing /\ blobs = {}
    /\ up = TRUE /\ inhand = {} /\ filed = 0 /\ kept = {}
    /\ backups = <<>> /\ clock = 1
    /\ restoring = Nothing /\ aside = <<>> /\ crashes = 0

Server == PutBlob \/ SaveRow \/ Delete \/ Collect \/ Checkpoint \/ Stop \/ Start
Save   == BeginBackup \/ CopyDatabase \/ ListBlobs \/ CopyBlob \/ WriteManifest \/ Prune \/ RemoveDoomed
Restore ==
    \/ BeginRestore \/ MoveDatabase \/ MoveLog \/ MoveBlobs \/ CopyBack \/ CopiedBack \/ CopyTree

Next == Server \/ Save \/ Restore \/ Crash
Spec == Init /\ [][Next]_vars

-----------------------------------------------------------------------------
(* A backup begun on a whole product, that passes its drill, holds every    *)
(* photograph its rows name, and every row that stood in the product when   *)
(* it began and was not deleted when it was copied: whatever was filed      *)
(* beside it, wherever it or the pruning of it was cut short, and however   *)
(* many are taken at once.                                                  *)
ADrillProvesTheBackup ==
    \A n \in DOMAIN backups :
        DrillPasses(backups[n]) /\ backups[n].whole
          => /\ backups[n].db \subseteq backups[n].blobs
             /\ backups[n].began \subseteq backups[n].db

(* With backups kept, the newest complete one is never on its way out: what *)
(* a restore takes by itself passes its drill.                              *)
TheNewestCanBeRestored ==
    \A n \in DOMAIN backups : IsNewest(n) => DrillPasses(backups[n])

(* What was saved and never deleted is in the live files or in those moved  *)
(* aside, the photograph with its row, through restores of the wrong backup *)
(* and crashes in the middle of them.                                       *)
NothingLiveIsLost ==
    \A k \in kept :
        /\ \/ k \in Rows \/ Restoring("log")
           \/ \E n \in DOMAIN aside : k \in Content(aside[n].db, aside[n].log)
        /\ \/ k \in Stored
           \/ \E n \in DOMAIN aside : aside[n].blobs # Nothing /\ k \in aside[n].blobs

(* A restore that finishes leaves the rows of its backup, no leftover of an *)
(* earlier log among them, and each photograph they name if it was taken of *)
(* a whole product: a backup cut short is never what comes back.            *)
ARestoreIsTheBackup ==
    [][restoring # Nothing /\ restoring' = Nothing /\ crashes' = crashes
          => /\ Rows' = backups[restoring.from].db
             /\ backups[restoring.from].whole => Rows' \subseteq blobs']_vars

(* At any moment, in the middle of a backup or a restore too: what passes a *)
(* drill is a backup, the newest one is, and what is live is somewhere.     *)
NothingKeptIsLost == ADrillProvesTheBackup /\ TheNewestCanBeRestored /\ NothingLiveIsLost
=============================================================================
