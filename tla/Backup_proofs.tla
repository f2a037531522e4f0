--------------------------- MODULE Backup_proofs ---------------------------
(***************************************************************************)
(* What Backup promises, for any numbers of photographs, backups, restores, *)
(* prunings and crashes, in every play that is Careful.                     *)
(***************************************************************************)
EXTENDS Backup, SequenceTheorems, FiniteSetTheorems, TLAPS

-----------------------------------------------------------------------------
(* What a backup's directory, and what a restore moved aside, is made of. *)
Directories ==
    [at : {"db", "list", "copy", "prune", "remove", "ended"},
     db : Pictures \cup {Nothing}, blobs : Pictures, todo : Pictures,
     manifest : Manifests \cup {Nothing}, doomed : SUBSET Nat,
     began : Pictures, whole : BOOLEAN]
Trees ==
    [db : Pictures \cup {Nothing, Torn}, log : Pictures \cup {Nothing},
     blobs : Pictures \cup {Nothing}]

TypeOK ==
    /\ play \in Plays
    /\ db \in Pictures \cup {Nothing, Torn}
    /\ log \in Pictures \cup {Nothing} /\ blobs \in Pictures \cup {Nothing}
    /\ up \in BOOLEAN
    /\ inhand \in Pictures /\ filed \in 0 .. MaxPhotos /\ kept \in Pictures
    /\ backups \in Seq(Directories) /\ clock \in Nat
    /\ restoring \in Restores \cup {Nothing}
    /\ aside \in Seq(Trees)
    /\ crashes \in Nat

(* The server runs on a database it can open, alone; a photograph about to  *)
(* be named is stored.                                                      *)
ServerRuns ==
    /\ up => Opens(db) /\ restoring = Nothing
    /\ inhand # {} => up
    /\ inhand \subseteq Stored

(* No log outlives its database: where neither a reader nor a crash can be, *)
(* it was folded in before the files are moved.                             *)
LogRuns ==
    /\ ~Opens(db) => log = Nothing \/ Restoring("log")
    /\ restoring # Nothing =>
          /\ "reader" \notin play.parts => log = Nothing
          /\ restoring.at \notin {"db", "log"} => log = Nothing

(* What each step of a restore finds done: the tree it moves things into is *)
(* empty where the next thing goes, so nothing is ever moved over another.  *)
RestoreRuns ==
    restoring # Nothing =>
       /\ Can("restore")
       /\ Len(aside) > 0
       /\ restoring.at \in {"log", "blobs", "copy"} => db = Nothing
       /\ restoring.at = "close" => db \in {{}, Torn}
       /\ restoring.at \in {"copy", "close"} => blobs = Nothing
       /\ restoring.at = "tree" => blobs # Nothing
       /\ restoring.at = "db" => Last(aside).db = Nothing
       /\ restoring.at \in {"db", "log"} => Last(aside).log = Nothing
       /\ restoring.at \in {"db", "log", "blobs"} => Last(aside).blobs = Nothing

(* What is being restored passes a drill to the end of the restore: nobody  *)
(* prunes it meanwhile.                                                     *)
RestoreSource ==
    restoring # Nothing =>
       /\ restoring.from \in DOMAIN backups
       /\ DrillPasses(backups[restoring.from])
       /\ restoring.at = "tree" =>
             /\ db = backups[restoring.from].db
             /\ backups[restoring.from].blobs \subseteq blobs \cup restoring.todo
       /\ Can("at once") \/ \A n \in DOMAIN backups : backups[n].at = "ended"

(* A backup in the making: what it still has to copy is still there, as long *)
(* as no restore moves the product from under it.                           *)
CopyRuns ==
    \A n \in DOMAIN backups :
       /\ backups[n].at # "ended" /\ backups[n].whole => restoring = Nothing
       /\ At(n, "db") /\ backups[n].whole =>
             Rows \subseteq Stored /\ backups[n].began \cap kept \subseteq Rows
       /\ At(n, "list") /\ backups[n].whole => backups[n].db \subseteq Stored
       /\ At(n, "copy") /\ backups[n].whole =>
             backups[n].db \subseteq backups[n].blobs \cup backups[n].todo
       /\ Copying(n) => backups[n].db # Nothing
       /\ Copying(n) /\ backups[n].whole => backups[n].began \subseteq backups[n].db
       /\ At(n, "db") \/ Copying(n) => backups[n].manifest = Nothing

(* A manifest stays true as its directory empties: the files can only grow  *)
(* fewer, and at the number it states they are all there.                   *)
Manifested ==
    \A n \in Complete : LET b == backups[n] IN
       /\ b.manifest.taken < clock
       /\ Cardinality(b.blobs) <= b.manifest.files
       /\ b.whole /\ Cardinality(b.blobs) = b.manifest.files => b.manifest.rows \subseteq b.blobs
       /\ b.whole => b.began \subseteq b.manifest.rows

(* The newest complete backup is on nobody's list and good; one that is not *)
(* good is on a list that somebody works off, or did before a crash.        *)
PruneRuns ==
    /\ \A n \in DOMAIN backups : \A d \in backups[n].doomed :
          /\ d \in DOMAIN backups
          /\ backups[d].at \in {"prune", "remove", "ended"}
          /\ ~IsNewest(d)
          /\ play.keep > 0
    /\ \A n \in DOMAIN backups : IsNewest(n) => DrillPasses(backups[n])
    /\ \A n \in Complete : DrillPasses(backups[n]) \/
          /\ play.keep > 0
          /\ \/ play.crashes > 0
             \/ \E m \in DOMAIN backups : At(m, "remove") /\ n \in backups[m].doomed

RowAside(k)  == \E n \in DOMAIN aside : k \in Content(aside[n].db, aside[n].log)
RowBefore(k) == \E n \in DOMAIN aside : n # Len(aside) /\ k \in Content(aside[n].db, aside[n].log)
BlobAside(k) == \E n \in DOMAIN aside : aside[n].blobs # Nothing /\ k \in aside[n].blobs
(* Where what was saved is: at the one step at which database and log are   *)
(* apart, in the two of them together.                                      *)
Safe ==
    \A k \in kept :
       /\ ~Restoring("log") => k \in Rows \/ RowAside(k)
       /\ Restoring("log") => k \in Content(Last(aside).db, log) \/ RowBefore(k)
       /\ k \in Stored \/ BlobAside(k)
       /\ Can("delete") /\ restoring = Nothing => k \in Rows \/ BlobAside(k)
       /\ restoring # Nothing /\ restoring.at \in {"copy", "close", "tree"} => BlobAside(k)

IInv ==
    /\ TypeOK
    /\ ServerRuns
    /\ LogRuns
    /\ RestoreRuns
    /\ RestoreSource
    /\ CopyRuns
    /\ Manifested
    /\ PruneRuns
    /\ Safe

-----------------------------------------------------------------------------
LEMMA NothingIsNoSet ==
    /\ Nothing # Torn
    /\ \A s \in Pictures : Opens(s) /\ s # Nothing /\ s # Torn
    /\ ~Opens(Nothing) /\ ~Opens(Torn)
  BY BackupAssumption DEF Opens

LEMMA ContentOfFiles ==
    ASSUME NEW f \in Pictures \cup {Nothing, Torn}, NEW w \in Pictures \cup {Nothing}
    PROVE  Content(f, w) \in Pictures
  BY BackupAssumption DEF Content, Opens, Pictures

LEMMA LiveSets ==
    ASSUME TypeOK
    PROVE  Rows \in Pictures /\ Stored \in Pictures
  BY ContentOfFiles DEF TypeOK, Rows, Stored, Pictures

LEMMA DirectoryAt ==
    ASSUME backups \in Seq(Directories), NEW n \in DOMAIN backups
    PROVE  backups[n] \in Directories
  OBVIOUS

LEMMA SameLength ==
    ASSUME backups \in Seq(Directories), DOMAIN backups' = DOMAIN backups,
           backups' = [n \in DOMAIN backups |-> backups'[n]],
           \A n \in DOMAIN backups : backups'[n] \in Directories
    PROVE  backups' \in Seq(Directories)
  <1>1. DOMAIN backups = 1 .. Len(backups) /\ Len(backups) \in Nat
    OBVIOUS
  <1>2. backups' \in [1 .. Len(backups) -> Directories]
    BY <1>1
  <1> QED  BY <1>1, <1>2, SeqDef

LEMMA Becoming ==
    ASSUME backups \in Seq(Directories), NEW n \in DOMAIN backups,
           NEW b \in Directories, Becomes(n, b)
    PROVE  /\ backups' \in Seq(Directories)
           /\ DOMAIN backups' = DOMAIN backups
           /\ backups'[n] = b
           /\ \A m \in DOMAIN backups : m # n => backups'[m] = backups[m]
  BY DEF Becomes

LEMMA OneStepOn ==
    ASSUME backups \in Seq(Directories), NEW n \in DOMAIN backups,
           NEW s \in {"list", "copy", "prune", "remove", "ended"}
    PROVE  To(n, s) \in Directories
  BY DirectoryAt DEF To, Directories

LEMMA MarkedWhole ==
    ASSUME NEW c \in Directories, NEW w \in BOOLEAN
    PROVE  [c EXCEPT !.whole = w] \in Directories
  BY DEF Directories

LEMMA WholeEnded ==
    ASSUME backups \in Seq(Directories),
           backups' = [m \in DOMAIN backups |->
                          [backups[m] EXCEPT !.whole = @ /\ backups[m].at = "ended"]]
    PROVE  /\ backups' \in Seq(Directories) /\ DOMAIN backups' = DOMAIN backups
           /\ \A n \in DOMAIN backups :
                 /\ backups'[n] = [backups[n] EXCEPT !.whole = backups'[n].whole]
                 /\ backups'[n].whole => backups[n].whole /\ backups[n].at = "ended"
  <1> DEFINE E(n) == [backups[n] EXCEPT !.whole = @ /\ backups[n].at = "ended"]
  <1>1. ASSUME NEW n \in DOMAIN backups
        PROVE  E(n) \in Directories /\ E(n) = [backups[n] EXCEPT !.whole = E(n).whole]
               /\ (E(n).whole => backups[n].whole /\ backups[n].at = "ended")
    <2>1. PICK w \in BOOLEAN : w = (backups[n].whole /\ backups[n].at = "ended")
      OBVIOUS
    <2>2. E(n) = [backups[n] EXCEPT !.whole = w]
      BY <2>1
    <2> HIDE DEF E
    <2>3. [backups[n] EXCEPT !.whole = w].whole = w
      BY DEF Directories
    <2>4. [backups[n] EXCEPT !.whole = w] \in Directories
      BY MarkedWhole
    <2> QED  BY <2>1, <2>2, <2>3, <2>4
  <1>2. backups' = [n \in DOMAIN backups |-> E(n)]
    OBVIOUS
  <1> HIDE DEF E
  <1> QED  BY <1>1, <1>2, SameLength

LEMMA CrashEnds ==
    ASSUME backups \in Seq(Directories),
           backups' = [n \in DOMAIN backups |-> To(n, "ended")]
    PROVE  /\ backups' \in Seq(Directories) /\ DOMAIN backups' = DOMAIN backups
           /\ \A n \in DOMAIN backups : backups'[n] = [backups[n] EXCEPT !.at = "ended"]
  <1>1. \A n \in DOMAIN backups : backups'[n] = To(n, "ended") /\ backups'[n] \in Directories
    BY OneStepOn
  <1>2. DOMAIN backups' = DOMAIN backups /\ backups' = [n \in DOMAIN backups |-> backups'[n]]
    OBVIOUS
  <1> QED  BY <1>1, <1>2, SameLength DEF To

LEMMA EmptierKeeps ==
    ASSUME NEW c \in Directories, NEW b \in Emptier(c)
    PROVE  /\ b \in Directories
           /\ b.at = c.at /\ b.todo = c.todo /\ b.doomed = c.doomed
           /\ b.began = c.began /\ b.whole = c.whole
           /\ \/ b.db = Nothing /\ b.blobs = c.blobs /\ b.manifest = c.manifest
              \/ b.db = c.db /\ b.blobs = c.blobs /\ b.manifest = Nothing
              \/ /\ b.db = c.db /\ b.manifest = c.manifest
                 /\ \E k \in c.blobs : b.blobs = c.blobs \ {k}
  <1>1. CASE b = [c EXCEPT !.db = Nothing]
    BY <1>1 DEF Directories
  <1>2. CASE b = [c EXCEPT !.manifest = Nothing]
    BY <1>2 DEF Directories
  <1>3. ASSUME NEW k \in c.blobs, b = [c EXCEPT !.blobs = @ \ {k}]
        PROVE  b \in Directories /\ b = [c EXCEPT !.blobs = c.blobs \ {k}]
    BY <1>3 DEF Directories, Pictures
  <1> QED  BY <1>1, <1>2, <1>3 DEF Emptier, Directories

LEMMA PicturesAreFinite ==
    ASSUME NEW s \in Pictures
    PROVE  IsFiniteSet(s)
  <1>1. 1 \in Int /\ MaxPhotos \in Int
    BY BackupAssumption
  <1>2. IsFiniteSet(1 .. MaxPhotos)
    BY <1>1, FS_Interval
  <1> QED  BY <1>2, FS_Subset DEF Pictures

-----------------------------------------------------------------------------
(* Types. *)
LEMMA TypeInit == Init => TypeOK
  BY BackupAssumption, EmptySeq DEF Init, TypeOK, Pictures

LEMMA TypeServer ==
    ASSUME TypeOK, Server
    PROVE  TypeOK'
  <1> USE LiveSets, BackupAssumption DEF live, server, vault, Serving
  <1>1. CASE PutBlob
    BY <1>1 DEF PutBlob, TypeOK, Pictures
  <1>2. CASE SaveRow
    BY <1>2 DEF SaveRow, TypeOK, Pictures
  <1>3. CASE Delete
    BY <1>3 DEF Delete, TypeOK, Pictures
  <1>4. CASE Collect
    <2>1. Stored \in Pictures /\ blobs # Nothing => Stored = blobs
      BY LiveSets DEF Stored
    <2>2. blobs' \in Pictures
      BY <1>4, <2>1 DEF Collect, Pictures, TypeOK, Stored
    <2> QED  BY <1>4, <2>2 DEF Collect, TypeOK
  <1>5. CASE Checkpoint
    BY <1>5 DEF Checkpoint, TypeOK
  <1>6. CASE Stop
    BY <1>6 DEF Stop, TypeOK, Pictures
  <1>7. CASE Start
    BY <1>7 DEF Start, TypeOK, Pictures
  <1> QED  BY <1>1, <1>2, <1>3, <1>4, <1>5, <1>6, <1>7 DEF Server

LEMMA TypeSave ==
    ASSUME TypeOK, CopyRuns, PruneRuns, Save
    PROVE  TypeOK'
  <1> SUFFICES backups' \in Seq(Directories) /\ clock' \in Nat
    <2>1. Untouched
      BY DEF Save, BeginBackup, CopyDatabase, ListBlobs, CopyBlob, WriteManifest, Prune, RemoveDoomed
    <2> QED  BY <2>1 DEF Untouched, live, server, TypeOK
  <1> USE DirectoryAt, LiveSets DEF TypeOK
  <1>1. CASE BeginBackup
    <2>1. PICK w \in BOOLEAN : backups' =
             Append(backups, [at |-> "db", db |-> Nothing, blobs |-> {}, todo |-> {},
                              manifest |-> Nothing, doomed |-> {}, began |-> kept \cap Rows,
                              whole |-> w])
      BY <1>1 DEF BeginBackup
    <2>2. kept \cap Rows \in Pictures /\ {} \in Pictures
      BY DEF Pictures
    <2>3. [at |-> "db", db |-> Nothing, blobs |-> {}, todo |-> {}, manifest |-> Nothing,
           doomed |-> {}, began |-> kept \cap Rows, whole |-> w] \in Directories
      BY <2>2 DEF Directories
    <2>4. clock' = clock
      BY <1>1 DEF BeginBackup
    <2>5. PICK b \in Directories : backups' = Append(backups, b)
      BY <2>1, <2>3
    <2> QED  BY <2>4, <2>5
  <1>2. CASE CopyDatabase
    <2>1. PICK n \in DOMAIN backups :
             \/ Opens(db) /\ Becomes(n, [To(n, "list") EXCEPT !.db = Rows, !.began = @ \cap kept])
             \/ Becomes(n, To(n, "ended"))
      BY <1>2 DEF CopyDatabase
    <2>2. /\ [To(n, "list") EXCEPT !.db = Rows, !.began = @ \cap kept] \in Directories
          /\ To(n, "ended") \in Directories
      BY DEF To, Directories, Pictures
    <2>3. clock' = clock
      BY <1>2 DEF CopyDatabase
    <2> QED  BY <2>1, <2>2, <2>3, Becoming
  <1>3. CASE ListBlobs
    <2>1. PICK n \in DOMAIN backups : Becomes(n, [To(n, "copy") EXCEPT !.todo = Stored])
      BY <1>3 DEF ListBlobs
    <2>2. [To(n, "copy") EXCEPT !.todo = Stored] \in Directories
      BY DEF To, Directories
    <2> QED  BY <1>3, <2>1, <2>2, Becoming DEF ListBlobs
  <1>4. CASE CopyBlob
    <2> PICK n \in DOMAIN backups : \E k \in backups[n].todo :
              \/ Becomes(n, [backups[n] EXCEPT !.todo = @ \ {k}, !.blobs = @ \cup {k}])
              \/ Becomes(n, To(n, "ended"))
      BY <1>4 DEF CopyBlob
    <2>1. PICK k \in backups[n].todo :
              \/ Becomes(n, [backups[n] EXCEPT !.todo = @ \ {k}, !.blobs = @ \cup {k}])
              \/ Becomes(n, To(n, "ended"))
      OBVIOUS
    <2>2. backups[n].todo \ {k} \in Pictures /\ backups[n].blobs \cup {k} \in Pictures
      BY <2>1 DEF Directories, Pictures
    <2>3. [backups[n] EXCEPT !.todo = @ \ {k}, !.blobs = @ \cup {k}] \in Directories
      BY <2>2 DEF Directories
    <2>4. To(n, "ended") \in Directories /\ clock' = clock
      BY <1>4, OneStepOn DEF CopyBlob
    <2> QED  BY <2>1, <2>3, <2>4, Becoming
  <1>5. CASE WriteManifest
    <2>1. PICK n \in DOMAIN backups :
             /\ At(n, "copy")
             /\ Becomes(n, [To(n, "prune") EXCEPT !.manifest =
                   [taken |-> clock, rows |-> backups[n].db,
                    files |-> Cardinality(backups[n].blobs)]])
      BY <1>5 DEF WriteManifest
    <2>2. backups[n].db \in Pictures /\ Cardinality(backups[n].blobs) \in Nat
      BY <2>1, PicturesAreFinite, FS_CardinalityType DEF Directories, CopyRuns, Copying, At
    <2>3. PICK v \in Manifests : v = [taken |-> clock, rows |-> backups[n].db,
                                     files |-> Cardinality(backups[n].blobs)]
      BY <2>2 DEF Manifests
    <2>4. [To(n, "prune") EXCEPT !.manifest = v] \in Directories
      BY DEF To, Directories
    <2>5. clock' = clock + 1
      BY <1>5 DEF WriteManifest
    <2> QED  BY <2>1, <2>3, <2>4, <2>5, Becoming
  <1>6. CASE Prune
    <2> DEFINE s == IF play.keep = 0 THEN {} ELSE Doomed(play.keep)
    <2>1. PICK n \in DOMAIN backups : Becomes(n, [To(n, "remove") EXCEPT !.doomed = s])
      BY <1>6 DEF Prune
    <2>2. s \in SUBSET Nat
      BY <2>1 DEF Doomed, Complete
    <2>3. [To(n, "remove") EXCEPT !.doomed = s] \in Directories
      <3> HIDE DEF s
      <3> QED  BY <2>2 DEF To, Directories
    <2>4. clock' = clock
      BY <1>6 DEF Prune
    <2> HIDE DEF s
    <2> QED  BY <2>1, <2>3, <2>4, Becoming
  <1>7. CASE RemoveDoomed
    <2>1. PICK n \in DOMAIN backups :
             \/ \E d \in backups[n].doomed : \E b \in Emptier(backups[d]) : Becomes(d, b)
             \/ Becomes(n, To(n, "ended"))
      BY <1>7 DEF RemoveDoomed
    <2>2. clock' = clock
      BY <1>7 DEF RemoveDoomed
    <2>3. CASE Becomes(n, To(n, "ended"))
      BY <2>2, <2>3, OneStepOn, Becoming
    <2>4. ASSUME NEW d \in backups[n].doomed, NEW b \in Emptier(backups[d]), Becomes(d, b)
          PROVE  backups' \in Seq(Directories)
      <3>1. d \in DOMAIN backups
        BY DEF PruneRuns
      <3>2. b \in Directories
        BY <3>1, EmptierKeeps
      <3> QED  BY <2>4, <3>1, <3>2, Becoming
    <2> QED  BY <2>1, <2>2, <2>3, <2>4
  <1> QED  BY <1>1, <1>2, <1>3, <1>4, <1>5, <1>6, <1>7 DEF Save

LEMMA LastTree ==
    ASSUME aside \in Seq(Trees), Len(aside) > 0
    PROVE  Last(aside) \in Trees /\ Len(aside) \in DOMAIN aside
  BY DEF Last

LEMMA SettingAside ==
    ASSUME aside \in Seq(Trees), Len(aside) > 0,
           NEW t \in Trees, aside' = [aside EXCEPT ![Len(aside)] = t]
    PROVE  /\ aside' \in Seq(Trees) /\ Len(aside') = Len(aside) /\ DOMAIN aside' = DOMAIN aside
           /\ Last(aside') = t
           /\ \A n \in DOMAIN aside : n # Len(aside) => aside'[n] = aside[n]
  BY DEF Last

LEMMA TypeRestore ==
    ASSUME TypeOK, RestoreRuns, RestoreSource, Restore
    PROVE  TypeOK'
  <1> USE LiveSets, BackupAssumption DEF TypeOK, Alone, server, vault
  <1>0. ASSUME NEW s \in {"db", "log", "blobs", "copy", "close", "tree"}, GoOn(s), restoring # Nothing
        PROVE  restoring' \in Restores
    BY <1>0 DEF GoOn, Restores
  <1>1. CASE BeginRestore
    <2>1. PICK n \in DOMAIN backups : restoring' = [from |-> n, at |-> "db", todo |-> {}]
      BY <1>1 DEF BeginRestore
    <2>2. restoring' \in Restores
      BY <2>1 DEF Restores, Pictures
    <2>3. [db |-> Nothing, log |-> Nothing, blobs |-> Nothing] \in Trees
      BY DEF Trees
    <2>4. aside' \in Seq(Trees)
      <3>1. PICK t \in Trees : aside' = Append(aside, t)
        BY <1>1, <2>3 DEF BeginRestore
      <3> QED  BY <3>1
    <2>5. backups' \in Seq(Directories)
      BY <1>1, WholeEnded DEF BeginRestore
    <2>6. db' \in Pictures \cup {Nothing, Torn} /\ log' \in Pictures \cup {Nothing}
      BY <1>1 DEF BeginRestore
    <2> QED  BY <1>1, <2>2, <2>4, <2>5, <2>6 DEF BeginRestore
  <1>2. CASE MoveDatabase
    <2>1. restoring # Nothing /\ Len(aside) > 0
      BY <1>2 DEF MoveDatabase, Restoring, RestoreRuns
    <2>2. [Last(aside) EXCEPT !.db = db] \in Trees
      BY <2>1, LastTree DEF Trees
    <2>3. aside' \in Seq(Trees)
      BY <1>2, <2>1, <2>2, SettingAside DEF MoveDatabase, Aside, Last
    <2>4. restoring' \in Restores
      BY <1>2, <2>1, <1>0 DEF MoveDatabase
    <2> QED  BY <1>2, <2>3, <2>4 DEF MoveDatabase
  <1>3. CASE MoveLog
    <2>1. restoring # Nothing /\ Len(aside) > 0
      BY <1>3 DEF MoveLog, Restoring, RestoreRuns
    <2>2. [Last(aside) EXCEPT !.log = log] \in Trees
      BY <2>1, LastTree DEF Trees
    <2>3. aside' \in Seq(Trees)
      BY <1>3, <2>1, <2>2, SettingAside DEF MoveLog, Aside, Last
    <2>4. restoring' \in Restores
      BY <1>3, <2>1, <1>0 DEF MoveLog
    <2> QED  BY <1>3, <2>3, <2>4 DEF MoveLog
  <1>4. CASE MoveBlobs
    <2>1. restoring # Nothing /\ Len(aside) > 0
      BY <1>4 DEF MoveBlobs, Restoring, RestoreRuns
    <2>2. [Last(aside) EXCEPT !.blobs = blobs] \in Trees
      BY <2>1, LastTree DEF Trees
    <2>3. aside' \in Seq(Trees)
      BY <1>4, <2>1, <2>2, SettingAside DEF MoveBlobs, Aside, Last
    <2>4. restoring' \in Restores
      BY <1>4, <2>1, <1>0 DEF MoveBlobs
    <2> QED  BY <1>4, <2>3, <2>4 DEF MoveBlobs
  <1>5. CASE CopyBack
    <2>1. restoring' \in Restores
      BY <1>5, <1>0 DEF CopyBack, Restoring
    <2>2. db' \in Pictures \cup {Nothing, Torn}
      BY <1>5 DEF CopyBack, Pictures
    <2> QED  BY <1>5, <2>1, <2>2 DEF CopyBack
  <1>6. CASE CopiedBack
    <2>1. restoring # Nothing /\ restoring.from \in DOMAIN backups
      BY <1>6 DEF CopiedBack, Restoring, RestoreSource
    <2>2. backups[restoring.from] \in Directories
      BY <2>1, DirectoryAt
    <2>3. restoring' \in Restores
      BY <1>6, <2>1, <2>2 DEF CopiedBack, Restores, Directories
    <2>4. db' \in Pictures \cup {Nothing, Torn} /\ blobs' \in Pictures \cup {Nothing}
      BY <1>6, <2>2 DEF CopiedBack, Directories, Pictures
    <2> QED  BY <1>6, <2>3, <2>4 DEF CopiedBack
  <1>7. CASE CopyTree
    <2>1. restoring \in Restores /\ blobs \in Pictures
      BY <1>7 DEF CopyTree, Restoring, RestoreRuns
    <2>2. restoring' \in Restores \cup {Nothing} /\ blobs' \in Pictures \cup {Nothing}
      BY <1>7, <2>1 DEF CopyTree, Restores, Pictures
    <2> QED  BY <1>7, <2>2 DEF CopyTree
  <1> QED  BY <1>1, <1>2, <1>3, <1>4, <1>5, <1>6, <1>7 DEF Restore

LEMMA TypeCrash ==
    ASSUME TypeOK, Crash
    PROVE  TypeOK'
  <1>1. backups' \in Seq(Directories)
    BY CrashEnds DEF Crash, TypeOK
  <1>2. crashes' \in Nat /\ inhand' \in Pictures
    BY DEF Crash, TypeOK, Pictures
  <1> QED  BY <1>1, <1>2 DEF Crash, TypeOK, live

-----------------------------------------------------------------------------
(* The server's steps. *)
LEMMA ServerLeaves ==
    ASSUME Server
    PROVE  UNCHANGED <<play, backups, clock, restoring, aside, crashes>>
  BY DEF Server, PutBlob, SaveRow, Delete, Collect, Checkpoint, Stop, Start, Serving, vault, server, live

LEMMA ServerLive ==
    ASSUME TypeOK, TypeOK', ServerRuns, LogRuns, Server
    PROVE  /\ restoring = Nothing
           /\ \/ Rows' = Rows /\ Stored \subseteq Stored' /\ kept' = kept
              \/ \E k \in Stored : Rows' = Rows \cup {k} /\ kept' = kept \cup {k} /\ Stored' = Stored
              \/ \E k \in Rows : Rows' = Rows \ {k} /\ kept' = kept \ {k} /\ Stored' = Stored
              \/ \E k \in Stored \ Rows :
                    /\ Rows' = Rows /\ kept' = kept /\ Stored' = Stored \ {k} /\ Can("delete")
                    /\ \A n \in DOMAIN backups : ~Copying(n)
  <1> USE NothingIsNoSet, LiveSets DEF live, server, vault, Serving
  <1>1. CASE PutBlob
    <2>1. restoring = Nothing /\ Rows' = Rows /\ kept' = kept
      BY <1>1 DEF PutBlob, ServerRuns, Rows
    <2>2. blobs' # Nothing
      BY <1>1 DEF PutBlob, TypeOK, Pictures
    <2> QED  BY <1>1, <2>1, <2>2 DEF PutBlob, Stored
  <1>2. CASE SaveRow
    <2>1. PICK k \in inhand : log' = Rows \cup {k} /\ kept' = kept \cup {k}
      BY <1>2 DEF SaveRow
    <2>2. Opens(db) /\ db' = db /\ restoring = Nothing /\ Stored' = Stored /\ k \in Stored
      BY <1>2 DEF SaveRow, ServerRuns, Stored
    <2>3. log' # Nothing
      BY <1>2, <2>1 DEF TypeOK, Pictures
    <2> QED  BY <2>1, <2>2, <2>3 DEF Rows, Content
  <1>3. CASE Delete
    <2>1. PICK k \in Rows : log' = Rows \ {k} /\ kept' = kept \ {k}
      BY <1>3 DEF Delete
    <2>2. Opens(db) /\ db' = db /\ restoring = Nothing /\ Stored' = Stored
      BY <1>3 DEF Delete, ServerRuns, Stored
    <2>3. log' # Nothing
      BY <1>3, <2>1 DEF TypeOK, Pictures
    <2> QED  BY <2>1, <2>2, <2>3 DEF Rows, Content
  <1>4. CASE Collect
    <2>1. PICK k \in (Stored \ Rows) \ inhand : blobs' = blobs \ {k}
      BY <1>4 DEF Collect
    <2>2. restoring = Nothing /\ Rows' = Rows /\ kept' = kept /\ Can("delete")
      BY <1>4 DEF Collect, ServerRuns, Rows
    <2>3. ~Can("collect")
      BY BackupAssumption DEF TypeOK, Careful, Can
    <2>4. Stored = blobs /\ blobs \in Pictures
      BY <2>1 DEF Stored, TypeOK
    <2>5. blobs' # Nothing
      BY <2>1, <2>4 DEF Pictures
    <2> QED  BY <1>4, <2>1, <2>2, <2>3, <2>4, <2>5 DEF Collect, Stored
  <1>5. CASE Checkpoint
    <2>1. Opens(db) /\ restoring = Nothing /\ log \in Pictures
      BY <1>5 DEF Checkpoint, ServerRuns, TypeOK
    <2>2. Rows' = Rows
      BY <1>5, <2>1 DEF Checkpoint, Rows, Content
    <2> QED  BY <1>5, <2>1, <2>2 DEF Checkpoint, Stored
  <1>6. CASE Stop
    BY <1>6 DEF Stop, ServerRuns, Rows, Stored
  <1>7. CASE Start
    <2>1. Rows' = Rows
      <3>1. CASE db = Nothing
        <4>1. log = Nothing /\ db' = {} /\ log' = log
          BY <1>7, <3>1 DEF Start, LogRuns, Restoring
        <4> QED  BY <3>1, <4>1 DEF Rows, Content
      <3>2. CASE db # Nothing
        BY <1>7, <3>2 DEF Start, Rows
      <3> QED  BY <3>1, <3>2
    <2> QED  BY <1>7, <2>1 DEF Start, Stored
  <1> QED  BY <1>1, <1>2, <1>3, <1>4, <1>5, <1>6, <1>7 DEF Server

LEMMA ServerServerRuns ==
    ASSUME TypeOK, TypeOK', ServerRuns, LogRuns, Server
    PROVE  ServerRuns' /\ LogRuns'
  <1> USE NothingIsNoSet, LiveSets DEF live, server, vault, Serving
  <1>0. restoring' = Nothing /\ restoring = Nothing
    BY ServerLeaves, ServerLive
  <1>1. CASE PutBlob
    <2>1. Stored' = Stored \cup {filed + 1}
      BY <1>1 DEF PutBlob, TypeOK, Pictures, Stored
    <2> QED  BY <1>1, <2>1, <1>0 DEF PutBlob, ServerRuns, LogRuns, Restoring
  <1>2. CASE SaveRow
    BY <1>2, <1>0 DEF SaveRow, ServerRuns, LogRuns, Restoring, Stored
  <1>3. CASE Delete
    BY <1>3, <1>0 DEF Delete, ServerRuns, LogRuns, Restoring, Stored
  <1>4. CASE Collect
    <2>1. inhand \subseteq Stored'
      BY <1>4 DEF Collect, ServerRuns, Stored, TypeOK, Pictures
    <2> QED  BY <1>4, <2>1, <1>0 DEF Collect, ServerRuns, LogRuns, Restoring
  <1>5. CASE Checkpoint
    <2>1. Opens(db')
      BY <1>5 DEF Checkpoint, TypeOK
    <2> QED  BY <1>5, <2>1, <1>0 DEF Checkpoint, ServerRuns, LogRuns, Restoring, Stored
  <1>6. CASE Stop
    BY <1>6, <1>0 DEF Stop, ServerRuns, LogRuns, Restoring
  <1>7. CASE Start
    <2>1. Opens(db') /\ (db # Nothing => db' = db)
      BY <1>7 DEF Start, TypeOK, Pictures
    <2> QED  BY <1>7, <2>1, <1>0 DEF Start, ServerRuns, LogRuns, Restoring, Stored
  <1> QED  BY <1>1, <1>2, <1>3, <1>4, <1>5, <1>6, <1>7 DEF Server

LEMMA ServerKeepsAll ==
    ASSUME IInv, TypeOK', Server
    PROVE  IInv'
  <1> USE DEF IInv
  <1>1. ServerRuns' /\ LogRuns'
    BY ServerServerRuns
  <1>2. /\ UNCHANGED <<play, backups, clock, restoring, aside, crashes>>
        /\ restoring' = Nothing
    BY ServerLeaves, ServerLive
  <1>3. RestoreRuns' /\ RestoreSource'
    BY <1>2 DEF RestoreRuns, RestoreSource
  <1>4. Manifested' /\ PruneRuns'
    BY <1>2 DEF Manifested, PruneRuns, Complete, IsNewest, Newer, DrillPasses, Verified, At
  <1>5. CopyRuns'
    <2> SUFFICES ASSUME NEW n \in DOMAIN backups
                 PROVE  /\ At(n, "db") /\ backups[n].whole =>
                             Rows' \subseteq Stored' /\ backups[n].began \cap kept' \subseteq Rows'
                        /\ At(n, "list") /\ backups[n].whole => backups[n].db \subseteq Stored'
      BY <1>2 DEF CopyRuns, At, Copying
    <2> QED  BY ServerLive DEF CopyRuns, At, Copying
  <1>6. Safe'
    <2>1. \A k : RowAside(k)' = RowAside(k) /\ BlobAside(k)' = BlobAside(k)
      BY <1>2 DEF RowAside, BlobAside
    <2>2. restoring = Nothing /\ play' = play
      BY <1>2
    <2>3. ASSUME NEW k \in kept'
          PROVE  /\ k \in Rows' \/ RowAside(k)
                 /\ k \in Stored' \/ BlobAside(k)
                 /\ Can("delete") => k \in Rows' \/ BlobAside(k)
      BY <2>2, ServerLive DEF Safe, Restoring
    <2> QED  BY <1>2, <2>1, <2>3 DEF Safe, Can, Restoring
  <1> QED  BY <1>1, <1>3, <1>4, <1>5, <1>6

-----------------------------------------------------------------------------
(* Which backups are complete, newest and good hangs on their manifests     *)
(* and, for the complete ones, on what they hold.                           *)
LEMMA SameVault ==
    ASSUME DOMAIN backups' = DOMAIN backups,
           \A n \in DOMAIN backups :
              /\ backups'[n].manifest = backups[n].manifest
              /\ n \in Complete => backups'[n].db = backups[n].db /\ backups'[n].blobs = backups[n].blobs
    PROVE  /\ Complete' = Complete
           /\ \A n \in DOMAIN backups :
                 /\ IsNewest(n)' = IsNewest(n)
                 /\ DrillPasses(backups[n])' = DrillPasses(backups[n])
  <1>1. Complete' = Complete
    BY DEF Complete
  <1>2. ASSUME NEW n \in DOMAIN backups
        PROVE  IsNewest(n)' = IsNewest(n)
    <2>1. n \in Complete => Newer(n)' = Newer(n)
      BY <1>1 DEF Newer, Complete
    <2> QED  BY <1>1, <2>1 DEF IsNewest
  <1>3. ASSUME NEW n \in DOMAIN backups
        PROVE  DrillPasses(backups[n])' = DrillPasses(backups[n])
    BY DEF DrillPasses, Verified, Complete
  <1> QED  BY <1>1, <1>2, <1>3

LEMMA PruneRunsQuiet ==
    ASSUME PruneRuns, play' = play,
           DOMAIN backups' = DOMAIN backups,
           \A n \in DOMAIN backups :
              /\ backups'[n].manifest = backups[n].manifest
              /\ n \in Complete => backups'[n].db = backups[n].db /\ backups'[n].blobs = backups[n].blobs
              /\ backups'[n].doomed = backups[n].doomed
              /\ backups[n].at \in {"prune", "remove", "ended"}
                    => backups'[n].at \in {"prune", "remove", "ended"}
              /\ play.crashes > 0 \/ (At(n, "remove") => backups'[n].at = "remove")
    PROVE  PruneRuns'
  <1>1. /\ Complete' = Complete
        /\ \A n \in DOMAIN backups :
              IsNewest(n)' = IsNewest(n) /\ DrillPasses(backups[n])' = DrillPasses(backups[n])
    BY SameVault
  <1>2. ASSUME NEW n \in DOMAIN backups, NEW d \in backups[n].doomed
        PROVE  /\ d \in DOMAIN backups /\ backups'[d].at \in {"prune", "remove", "ended"}
               /\ ~IsNewest(d)' /\ play.keep > 0
    BY <1>1 DEF PruneRuns
  <1>3. ASSUME NEW n \in DOMAIN backups, IsNewest(n)'
        PROVE  DrillPasses(backups[n])'
    BY <1>1, <1>3 DEF PruneRuns
  <1>4. ASSUME NEW n \in Complete, ~DrillPasses(backups[n])'
        PROVE  /\ play.keep > 0
               /\ \/ play.crashes > 0
                  \/ \E m \in DOMAIN backups : At(m, "remove")' /\ n \in backups'[m].doomed
    <2>1. n \in DOMAIN backups
      BY DEF Complete
    <2>2. /\ play.keep > 0
          /\ \/ play.crashes > 0
             \/ \E m \in DOMAIN backups : At(m, "remove") /\ n \in backups[m].doomed
      BY <1>1, <1>4, <2>1 DEF PruneRuns
    <2> QED  BY <2>2 DEF At
  <1> QED  BY <1>1, <1>2, <1>3, <1>4 DEF PruneRuns

LEMMA ManifestedQuiet ==
    ASSUME Manifested, clock' = clock,
           DOMAIN backups' = DOMAIN backups,
           \A n \in DOMAIN backups :
              /\ backups'[n].manifest = backups[n].manifest
              /\ n \in Complete => /\ backups'[n].db = backups[n].db /\ backups'[n].blobs = backups[n].blobs
                                   /\ backups'[n].began = backups[n].began
                                   /\ backups'[n].whole => backups[n].whole
    PROVE  Manifested'
  <1>1. Complete' = Complete
    BY SameVault
  <1> QED  BY <1>1 DEF Manifested, Complete

-----------------------------------------------------------------------------
(* The steps of a restore. *)
LEMMA RestoreIsAlone ==
    ASSUME TypeOK, ServerRuns, Restore
    PROVE  /\ ~up /\ UNCHANGED <<play, up, inhand, filed, kept, clock, crashes>>
           /\ ServerRuns'
  <1>1. ~up /\ UNCHANGED <<play, up, inhand, filed, kept, clock, crashes>>
    BY DEF Restore, BeginRestore, MoveDatabase, MoveLog, MoveBlobs, CopyBack, CopiedBack, CopyTree,
           Restoring, ServerRuns, Alone, server, vault
  <1> QED  BY <1>1 DEF ServerRuns

LEMMA BeginRestoreKeepsAll ==
    ASSUME IInv, TypeOK', BeginRestore
    PROVE  IInv'
  <1> USE NothingIsNoSet, LiveSets DEF IInv
  <1>1. PICK n \in DOMAIN backups :
          /\ IsNewest(n) \/ Can("by name")
          /\ Verified(backups[n])
          /\ restoring' = [from |-> n, at |-> "db", todo |-> {}]
    BY DEF BeginRestore
  <1>2. /\ restoring = Nothing /\ restoring' # Nothing /\ restoring'.from = n /\ restoring'.at = "db"
        /\ Can("restore") /\ ~up /\ UNCHANGED <<play, up, inhand, filed, kept, clock, crashes, blobs>>
        /\ (\A m \in DOMAIN backups : backups[m].at = "ended") \/ Can("at once")
    <2>1. [from |-> n, at |-> "db", todo |-> {}] \in Restores
      BY DEF Restores, Pictures, TypeOK
    <2>2. restoring' # Nothing
      BY <1>1, <2>1, BackupAssumption
    <2>3. restoring'.from = n /\ restoring'.at = "db"
      BY <1>1
    <2> QED  BY <2>2, <2>3 DEF BeginRestore, server
  <1>3. /\ DOMAIN backups' = DOMAIN backups
        /\ \A m \in DOMAIN backups :
              /\ backups'[m] = [backups[m] EXCEPT !.whole = backups'[m].whole]
              /\ backups'[m].whole => backups[m].whole /\ backups[m].at = "ended"
    BY WholeEnded DEF BeginRestore, TypeOK
  <1>4. \A m \in DOMAIN backups :
              /\ backups'[m].at = backups[m].at /\ backups'[m].db = backups[m].db
              /\ backups'[m].blobs = backups[m].blobs /\ backups'[m].todo = backups[m].todo
              /\ backups'[m].manifest = backups[m].manifest /\ backups'[m].doomed = backups[m].doomed
              /\ backups'[m].began = backups[m].began
    BY <1>3, DirectoryAt DEF Directories, TypeOK
  <1>5. /\ Len(aside') > 0 /\ Last(aside') = [db |-> Nothing, log |-> Nothing, blobs |-> Nothing]
        /\ \A m \in DOMAIN aside : m \in DOMAIN aside' /\ aside'[m] = aside[m]
    <2>1. aside' = Append(aside, [db |-> Nothing, log |-> Nothing, blobs |-> Nothing])
          /\ aside \in Seq(Trees)
      BY DEF BeginRestore, TypeOK
    <2> QED  BY <2>1 DEF Last
  <1>6. Rows' = Rows /\ Stored' = Stored
    <2>1. CASE Opens(db) /\ db' = Rows /\ log' = Nothing
      BY <2>1, <1>2 DEF Rows, Content, Stored
    <2>2. CASE UNCHANGED <<db, log>>
      BY <2>2, <1>2 DEF Rows, Content, Stored
    <2> QED  BY <2>1, <2>2 DEF BeginRestore
  <1>7. (~Opens(db') => log' = Nothing) /\ (~Can("reader") => log' = Nothing)
    <2>1. CASE Opens(db) /\ db' = Rows /\ log' = Nothing
      BY <2>1
    <2>2. CASE (Opens(db) => Can("reader")) /\ UNCHANGED <<db, log>>
      BY <2>2, <1>2 DEF LogRuns, Restoring
    <2> QED  BY <2>1, <2>2 DEF BeginRestore
  <1>8. DrillPasses(backups[n])
    <2>1. CASE IsNewest(n)
      BY <2>1 DEF PruneRuns
    <2>2. CASE Can("by name") /\ ~DrillPasses(backups[n])
      <3>1. n \in Complete
        BY <1>1 DEF Complete, Verified
      <3>2. play.keep > 0 /\ (play.crashes > 0 \/ \E m \in DOMAIN backups : At(m, "remove"))
        BY <2>2, <3>1 DEF PruneRuns
      <3>3. Careful(play) /\ play.crashes \in Nat
        BY BackupAssumption DEF TypeOK
      <3>4. "at once" \notin play.parts /\ play.crashes = 0
        BY <2>2, <3>2, <3>3 DEF Careful, Can
      <3>5. ~(play.crashes > 0)
        <4>1. PICK c \in Nat : c = play.crashes
          BY <3>3
        <4>2. c = 0 => ~(c > 0)
          OBVIOUS
        <4> QED  BY <3>4, <4>1, <4>2
      <3>6. PICK m \in DOMAIN backups : At(m, "remove")
        BY <3>2, <3>5
      <3> QED  BY <1>2, <3>4, <3>6 DEF Can, At
    <2> QED  BY <1>1, <2>1, <2>2
  <1>9. ServerRuns' /\ LogRuns'
    BY <1>2, <1>6, <1>7 DEF ServerRuns, LogRuns, Can
  <1>10. RestoreRuns'
    <2>1. Last(aside').db = Nothing /\ Last(aside').log = Nothing /\ Last(aside').blobs = Nothing
      BY <1>5
    <2>2. Can("restore")'
      BY <1>2 DEF Can
    <2> QED  BY <1>2, <1>5, <2>1, <2>2 DEF RestoreRuns
  <1>11. PruneRuns' /\ Manifested'
    BY <1>2, <1>3, <1>4, PruneRunsQuiet, ManifestedQuiet DEF At
  <1>12. DrillPasses(backups[n])'
    BY <1>3, <1>4, <1>8, SameVault
  <1>13. RestoreSource'
    BY <1>2, <1>3, <1>4, <1>12 DEF RestoreSource, Can
  <1>14. CopyRuns'
    <2> SUFFICES ASSUME NEW m \in DOMAIN backups
                 PROVE  /\ backups'[m].at # "ended" => ~backups'[m].whole
                        /\ Copying(m)' => backups'[m].db # Nothing
                        /\ At(m, "db")' \/ Copying(m)' => backups'[m].manifest = Nothing
      BY <1>3 DEF CopyRuns, At, Copying
    <2> QED  BY <1>3, <1>4 DEF CopyRuns, At, Copying
  <1>15. Safe'
    <2>1. \A k : (RowAside(k) => RowAside(k)') /\ (BlobAside(k) => BlobAside(k)')
      BY <1>5 DEF RowAside, BlobAside
    <2> QED  BY <2>1, <1>2, <1>6 DEF Safe, Restoring
  <1> QED  BY <1>9, <1>10, <1>11, <1>13, <1>14, <1>15

-----------------------------------------------------------------------------
LEMMA GoingOn ==
    ASSUME TypeOK, restoring # Nothing,
           NEW s \in {"db", "log", "blobs", "copy", "close", "tree"}, GoOn(s)
    PROVE  /\ restoring' \in Restores /\ restoring' # Nothing /\ restoring'.at = s
           /\ restoring'.from = restoring.from /\ restoring'.todo = restoring.todo
  BY BackupAssumption DEF GoOn, Restores, TypeOK

LEMMA CopiedBackGoesOn ==
    ASSUME TypeOK, RestoreSource, CopiedBack
    PROVE  restoring' \in Restores /\ restoring' # Nothing
  <1>1. restoring # Nothing /\ restoring.from \in DOMAIN backups
    BY DEF CopiedBack, Restoring, RestoreSource
  <1>2. restoring \in Restores /\ backups[restoring.from].blobs \in Pictures
    BY <1>1, DirectoryAt DEF TypeOK, Directories
  <1>3. restoring' \in Restores
    BY <1>2 DEF CopiedBack, Restores
  <1> QED  BY <1>3, BackupAssumption

LEMMA TreeGoesOn ==
    ASSUME TypeOK, restoring # Nothing,
           NEW k, restoring' = [restoring EXCEPT !.todo = @ \ {k}]
    PROVE  restoring' \in Restores /\ restoring' # Nothing
  BY BackupAssumption DEF TypeOK, Restores, Pictures

LEMMA RestoreLeavesVault ==
    ASSUME IInv, restoring # Nothing, UNCHANGED <<play, backups, clock>>
    PROVE  CopyRuns' /\ Manifested' /\ PruneRuns'
  <1>1. Manifested' /\ PruneRuns'
    BY DEF IInv, Manifested, PruneRuns, Complete, IsNewest, Newer, DrillPasses, Verified, At
  <1>2. \A n \in DOMAIN backups : backups[n].at # "ended" => ~backups[n].whole
    BY DEF IInv, CopyRuns
  <1>3. CopyRuns'
    <2> SUFFICES ASSUME NEW n \in DOMAIN backups
                 PROVE  /\ backups[n].at # "ended" => ~backups[n].whole
                        /\ Copying(n) => backups[n].db # Nothing
                        /\ At(n, "db") \/ Copying(n) => backups[n].manifest = Nothing
      BY DEF CopyRuns, At, Copying
    <2> QED  BY <1>2 DEF IInv, CopyRuns
  <1> QED  BY <1>1, <1>3

LEMMA MoveDatabaseKeepsAll ==
    ASSUME IInv, TypeOK', MoveDatabase
    PROVE  IInv'
  <1> USE NothingIsNoSet DEF IInv
  <1>1. /\ restoring # Nothing /\ restoring.at = "db" /\ UNCHANGED <<play, backups, clock, kept, log, blobs>>
        /\ db' = Nothing
    BY DEF MoveDatabase, Restoring, Alone, server, vault
  <1>2. /\ restoring' # Nothing /\ restoring'.from = restoring.from
        /\ restoring'.at = IF db = Nothing THEN "blobs" ELSE "log"
    BY <1>1, GoingOn DEF MoveDatabase
  <1>3. /\ Len(aside) > 0 /\ Last(aside) \in Trees
        /\ Last(aside).db = Nothing /\ Last(aside).log = Nothing /\ Last(aside).blobs = Nothing
    BY <1>1, LastTree DEF RestoreRuns, TypeOK
  <1>4. aside' = [aside EXCEPT ![Len(aside)] = [Last(aside) EXCEPT !.db = db]]
    BY <1>1, <1>3, LastTree DEF MoveDatabase, Aside, Last, TypeOK
  <1>5. /\ [Last(aside) EXCEPT !.db = db] \in Trees
        /\ [Last(aside) EXCEPT !.db = db].db = db
        /\ [Last(aside) EXCEPT !.db = db].log = Nothing
        /\ [Last(aside) EXCEPT !.db = db].blobs = Nothing
    BY <1>3 DEF Trees, TypeOK
  <1>6. /\ Len(aside') = Len(aside) /\ DOMAIN aside' = DOMAIN aside
        /\ Last(aside').db = db /\ Last(aside').log = Nothing /\ Last(aside').blobs = Nothing
        /\ \A n \in DOMAIN aside : n # Len(aside) => aside'[n] = aside[n]
    BY <1>3, <1>4, <1>5, SettingAside DEF TypeOK
  <1>7. ServerRuns'
    BY <1>1, RestoreIsAlone DEF Restore
  <1>8. CopyRuns' /\ Manifested' /\ PruneRuns'
    BY <1>1, RestoreLeavesVault
  <1>9. LogRuns'
    BY <1>1, <1>2 DEF LogRuns, Restoring
  <1>10. RestoreRuns'
    BY <1>1, <1>2, <1>3, <1>6 DEF RestoreRuns, Can
  <1>11. RestoreSource'
    BY <1>1, <1>2 DEF RestoreSource, Can, DrillPasses, Verified
  <1>12. Safe'
    <2>1. \A k : RowAside(k) => RowBefore(k)' /\ RowAside(k)'
      BY <1>3, <1>6 DEF RowAside, RowBefore, Last, Content
    <2>2. \A k : BlobAside(k) => BlobAside(k)'
      BY <1>3, <1>6 DEF BlobAside, Last
    <2>3. Stored' = Stored /\ Rows' = {} /\ (db = Nothing => Rows = {})
      BY <1>1 DEF Stored, Rows, Content
    <2> SUFFICES ASSUME NEW k \in kept
                 PROVE  /\ db = Nothing => RowAside(k)'
                        /\ db # Nothing => k \in Content(db, log) \/ RowBefore(k)'
                        /\ k \in Stored \/ BlobAside(k)'
      BY <1>1, <1>2, <1>6, <2>3 DEF Safe, Restoring
    <2> QED  BY <1>1, <2>1, <2>2, <2>3 DEF Safe, Restoring, Rows
  <1> QED  BY <1>7, <1>8, <1>9, <1>10, <1>11, <1>12

LEMMA MoveLogKeepsAll ==
    ASSUME IInv, TypeOK', MoveLog
    PROVE  IInv'
  <1> USE NothingIsNoSet DEF IInv
  <1>1. /\ restoring # Nothing /\ restoring.at = "log" /\ UNCHANGED <<play, backups, clock, kept, db, blobs>>
        /\ db = Nothing /\ log' = Nothing
    BY DEF MoveLog, Restoring, Alone, server, vault, RestoreRuns
  <1>2. restoring' # Nothing /\ restoring'.from = restoring.from /\ restoring'.at = "blobs"
    BY <1>1, GoingOn DEF MoveLog
  <1>3. /\ Len(aside) > 0 /\ Last(aside) \in Trees
        /\ Last(aside).log = Nothing /\ Last(aside).blobs = Nothing
    BY <1>1, LastTree DEF RestoreRuns, TypeOK
  <1>4. aside' = [aside EXCEPT ![Len(aside)] = [Last(aside) EXCEPT !.log = log]]
    BY <1>1, <1>3, LastTree DEF MoveLog, Aside, Last, TypeOK
  <1>5. /\ [Last(aside) EXCEPT !.log = log] \in Trees
        /\ [Last(aside) EXCEPT !.log = log].db = Last(aside).db
        /\ [Last(aside) EXCEPT !.log = log].log = log
        /\ [Last(aside) EXCEPT !.log = log].blobs = Nothing
    BY <1>3 DEF Trees, TypeOK
  <1>6. /\ Len(aside') = Len(aside) /\ DOMAIN aside' = DOMAIN aside
        /\ Last(aside').db = Last(aside).db /\ Last(aside').log = log /\ Last(aside').blobs = Nothing
        /\ \A n \in DOMAIN aside : n # Len(aside) => aside'[n] = aside[n]
    BY <1>3, <1>4, <1>5, SettingAside DEF TypeOK
  <1>7. ServerRuns'
    BY <1>1, RestoreIsAlone DEF Restore
  <1>8. CopyRuns' /\ Manifested' /\ PruneRuns'
    BY <1>1, RestoreLeavesVault
  <1>9. LogRuns'
    BY <1>1, <1>2 DEF LogRuns, Restoring
  <1>10. RestoreRuns'
    BY <1>1, <1>2, <1>3, <1>6 DEF RestoreRuns, Can
  <1>11. RestoreSource'
    BY <1>1, <1>2 DEF RestoreSource, Can, DrillPasses, Verified
  <1>12. Safe'
    <2>1. ASSUME NEW k, k \in Content(Last(aside).db, log) \/ RowBefore(k)
          PROVE  RowAside(k)'
      <3>1. CASE RowBefore(k)
        BY <1>6, <3>1 DEF RowAside, RowBefore
      <3>2. CASE k \in Content(Last(aside).db, log)
        <4>1. Len(aside) \in DOMAIN aside' /\ aside'[Len(aside)] = Last(aside')
          BY <1>3, <1>6, LastTree DEF Last, TypeOK
        <4> QED  BY <1>6, <3>2, <4>1 DEF RowAside
      <3> QED  BY <2>1, <3>1, <3>2
    <2>2. \A k : BlobAside(k) => BlobAside(k)'
      BY <1>3, <1>6 DEF BlobAside, Last
    <2>3. Stored' = Stored
      BY <1>1 DEF Stored
    <2> SUFFICES ASSUME NEW k \in kept
                 PROVE  RowAside(k)' /\ (k \in Stored \/ BlobAside(k)')
      BY <1>1, <1>2, <2>3 DEF Safe, Restoring
    <2> QED  BY <1>1, <2>1, <2>2 DEF Safe, Restoring
  <1> QED  BY <1>7, <1>8, <1>9, <1>10, <1>11, <1>12

LEMMA MoveBlobsKeepsAll ==
    ASSUME IInv, TypeOK', MoveBlobs
    PROVE  IInv'
  <1> USE NothingIsNoSet DEF IInv
  <1>1. /\ restoring # Nothing /\ restoring.at = "blobs" /\ UNCHANGED <<play, backups, clock, kept, db, log>>
        /\ db = Nothing /\ log = Nothing /\ blobs' = Nothing
    BY DEF MoveBlobs, Restoring, Alone, server, vault, RestoreRuns, LogRuns
  <1>2. restoring' # Nothing /\ restoring'.from = restoring.from /\ restoring'.at = "copy"
    BY <1>1, GoingOn DEF MoveBlobs
  <1>3. Len(aside) > 0 /\ Last(aside) \in Trees /\ Last(aside).blobs = Nothing
    BY <1>1, LastTree DEF RestoreRuns, TypeOK
  <1>4. aside' = [aside EXCEPT ![Len(aside)] = [Last(aside) EXCEPT !.blobs = blobs]]
    BY <1>1, <1>3, LastTree DEF MoveBlobs, Aside, Last, TypeOK
  <1>5. /\ [Last(aside) EXCEPT !.blobs = blobs] \in Trees
        /\ [Last(aside) EXCEPT !.blobs = blobs].db = Last(aside).db
        /\ [Last(aside) EXCEPT !.blobs = blobs].log = Last(aside).log
        /\ [Last(aside) EXCEPT !.blobs = blobs].blobs = blobs
    BY <1>3 DEF Trees, TypeOK
  <1>6. /\ Len(aside') = Len(aside) /\ DOMAIN aside' = DOMAIN aside
        /\ Last(aside').db = Last(aside).db /\ Last(aside').log = Last(aside).log
        /\ Last(aside').blobs = blobs
        /\ \A n \in DOMAIN aside : n # Len(aside) => aside'[n] = aside[n]
    BY <1>3, <1>4, <1>5, SettingAside DEF TypeOK
  <1>7. ServerRuns'
    BY <1>1, RestoreIsAlone DEF Restore
  <1>8. CopyRuns' /\ Manifested' /\ PruneRuns'
    BY <1>1, RestoreLeavesVault
  <1>9. LogRuns'
    BY <1>1, <1>2 DEF LogRuns, Restoring
  <1>10. RestoreRuns'
    BY <1>1, <1>2, <1>3, <1>6 DEF RestoreRuns, Can
  <1>11. RestoreSource'
    BY <1>1, <1>2 DEF RestoreSource, Can, DrillPasses, Verified
  <1>12. Safe'
    <2>0. Len(aside) \in DOMAIN aside /\ aside[Len(aside)] = Last(aside) /\ aside'[Len(aside)] = Last(aside')
      BY <1>3, <1>6, LastTree DEF Last, TypeOK
    <2>1. \A k : RowAside(k) => RowAside(k)'
      <3>1. \A n \in DOMAIN aside : aside'[n].db = aside[n].db /\ aside'[n].log = aside[n].log
        BY <1>6, <2>0
      <3> QED  BY <1>6, <3>1 DEF RowAside
    <2>2. \A k : BlobAside(k) => BlobAside(k)'
      BY <1>3, <1>6, <2>0 DEF BlobAside
    <2>3. \A k : k \in Stored => BlobAside(k)'
      BY <1>6, <2>0 DEF BlobAside, Stored
    <2>4. Rows = {}
      BY <1>1 DEF Rows, Content
    <2> SUFFICES ASSUME NEW k \in kept
                 PROVE  RowAside(k)' /\ BlobAside(k)'
      BY <1>1, <1>2 DEF Safe, Restoring
    <2> QED  BY <1>1, <2>1, <2>2, <2>3, <2>4 DEF Safe, Restoring
  <1> QED  BY <1>7, <1>8, <1>9, <1>10, <1>11, <1>12

LEMMA SafeAside ==
    ASSUME Safe, aside' = aside, kept' = kept, play' = play, ~Restoring("log"), ~Restoring("log")',
           restoring # Nothing, restoring.at \in {"copy", "close", "tree"}, Rows \subseteq Rows'
    PROVE  Safe'
  <1>1. \A k : RowAside(k)' = RowAside(k) /\ BlobAside(k)' = BlobAside(k)
    BY DEF RowAside, BlobAside
  <1> QED  BY <1>1 DEF Safe

LEMMA CopyBackKeepsAll ==
    ASSUME IInv, TypeOK', CopyBack
    PROVE  IInv'
  <1> USE NothingIsNoSet DEF IInv
  <1>1. /\ restoring # Nothing /\ restoring.at = "copy"
        /\ UNCHANGED <<play, backups, clock, kept, log, blobs, aside>>
        /\ db = Nothing /\ log = Nothing /\ blobs = Nothing /\ db' \in {{}, Torn}
    BY DEF CopyBack, Restoring, Alone, server, vault, RestoreRuns, LogRuns
  <1>2. restoring' # Nothing /\ restoring'.from = restoring.from /\ restoring'.at = "close"
    BY <1>1, GoingOn DEF CopyBack
  <1>3. ServerRuns'
    BY <1>1, RestoreIsAlone DEF Restore
  <1>4. CopyRuns' /\ Manifested' /\ PruneRuns'
    BY <1>1, RestoreLeavesVault
  <1>5. LogRuns' /\ RestoreRuns' /\ RestoreSource'
    BY <1>1, <1>2 DEF LogRuns, RestoreRuns, RestoreSource, Can, DrillPasses, Verified
  <1>6. Safe'
    BY <1>1, <1>2, SafeAside DEF Restoring, Rows, Content
  <1> QED  BY <1>3, <1>4, <1>5, <1>6

LEMMA RestoredIsPictures ==
    ASSUME TypeOK, RestoreSource, restoring # Nothing
    PROVE  /\ backups[restoring.from] \in Directories
           /\ backups[restoring.from].db \in Pictures
  <1>1. backups[restoring.from] \in Directories /\ DrillPasses(backups[restoring.from])
    BY DirectoryAt DEF RestoreSource, TypeOK
  <1> QED  BY <1>1 DEF DrillPasses, Verified, Directories, Manifests

LEMMA CopiedBackKeepsAll ==
    ASSUME IInv, TypeOK', CopiedBack
    PROVE  IInv'
  <1> USE NothingIsNoSet DEF IInv
  <1>1. /\ restoring # Nothing /\ restoring.at = "close"
        /\ UNCHANGED <<play, backups, clock, kept, log, aside>>
        /\ db \in {{}, Torn} /\ log = Nothing /\ blobs' = {} /\ db' = backups[restoring.from].db
    BY DEF CopiedBack, Restoring, Alone, server, vault, RestoreRuns, LogRuns
  <1>2. backups[restoring.from] \in Directories /\ db' \in Pictures
    BY <1>1, RestoredIsPictures
  <1>3. /\ restoring' # Nothing /\ restoring'.from = restoring.from /\ restoring'.at = "tree"
        /\ restoring'.todo = backups[restoring.from].blobs
    <2>1. restoring \in Restores /\ backups[restoring.from].blobs \in Pictures
      BY <1>1, <1>2 DEF TypeOK, Directories
    <2>2. restoring' = [restoring EXCEPT !.at = "tree", !.todo = backups[restoring.from].blobs]
      BY DEF CopiedBack
    <2>3. restoring' \in Restores
      BY <2>1, <2>2 DEF Restores
    <2> QED  BY <2>1, <2>2, <2>3, BackupAssumption DEF Restores
  <1>4. ServerRuns'
    BY <1>1, RestoreIsAlone DEF Restore
  <1>5. CopyRuns' /\ Manifested' /\ PruneRuns'
    BY <1>1, RestoreLeavesVault
  <1>6. LogRuns' /\ RestoreRuns'
    <2>1. blobs' # Nothing
      BY <1>1 DEF Pictures
    <2> QED  BY <1>1, <1>2, <1>3, <2>1 DEF LogRuns, RestoreRuns, Can
  <1>7. RestoreSource'
    BY <1>1, <1>3 DEF RestoreSource, Can, DrillPasses, Verified
  <1>8. Safe'
    BY <1>1, <1>3, SafeAside DEF Restoring, Rows, Content
  <1> QED  BY <1>4, <1>5, <1>6, <1>7, <1>8

LEMMA CopyTreeKeepsAll ==
    ASSUME IInv, TypeOK', CopyTree
    PROVE  IInv'
  <1> USE NothingIsNoSet DEF IInv
  <1>1. /\ restoring # Nothing /\ restoring.at = "tree"
        /\ UNCHANGED <<play, backups, clock, kept, db, log, aside>>
        /\ log = Nothing /\ db = backups[restoring.from].db
    BY DEF CopyTree, Restoring, Alone, server, vault, RestoreSource, LogRuns
  <1>2. backups[restoring.from] \in Directories /\ Opens(db) /\ restoring \in Restores /\ blobs \in Pictures
    BY <1>1, RestoredIsPictures DEF TypeOK, RestoreRuns
  <1>3. \/ restoring' = Nothing /\ blobs' = blobs
        \/ /\ restoring' # Nothing /\ restoring'.from = restoring.from /\ restoring'.at = "tree"
           /\ blobs \cup restoring.todo \subseteq blobs' \cup restoring'.todo
           /\ blobs' # Nothing
    <2>1. ASSUME NEW k \in restoring.todo,
                 blobs' = blobs \cup {k}, restoring' = [restoring EXCEPT !.todo = @ \ {k}]
          PROVE  /\ restoring' # Nothing /\ restoring'.from = restoring.from /\ restoring'.at = "tree"
                 /\ blobs \cup restoring.todo \subseteq blobs' \cup restoring'.todo
                 /\ blobs' # Nothing
      <3>1. restoring' \in Restores
        BY <1>2, <2>1 DEF Restores, Pictures
      <3>2. blobs' \in Pictures
        BY <1>2, <2>1 DEF Restores, Pictures
      <3> QED  BY <1>1, <1>2, <2>1, <3>1, <3>2, BackupAssumption DEF Restores
    <2> QED  BY <2>1 DEF CopyTree
  <1>4. ServerRuns'
    BY <1>1, RestoreIsAlone DEF Restore
  <1>5. CopyRuns' /\ Manifested' /\ PruneRuns'
    BY <1>1, RestoreLeavesVault
  <1>6. LogRuns' /\ RestoreRuns'
    BY <1>1, <1>2, <1>3 DEF LogRuns, RestoreRuns, Can
  <1>7. RestoreSource'
    BY <1>1, <1>3 DEF RestoreSource, Can, DrillPasses, Verified
  <1>8. Safe'
    BY <1>1, <1>3, SafeAside DEF Restoring, Rows, Content
  <1> QED  BY <1>4, <1>5, <1>6, <1>7, <1>8

LEMMA RestoreKeepsAll ==
    ASSUME IInv, TypeOK', Restore
    PROVE  IInv'
  BY BeginRestoreKeepsAll, MoveDatabaseKeepsAll, MoveLogKeepsAll, MoveBlobsKeepsAll,
     CopyBackKeepsAll, CopiedBackKeepsAll, CopyTreeKeepsAll DEF Restore

LEMMA CrashKeepsAll ==
    ASSUME IInv, TypeOK', Crash
    PROVE  IInv'
  <1> USE NothingIsNoSet DEF IInv
  <1>1. /\ ~up' /\ inhand' = {} /\ restoring' = Nothing
        /\ UNCHANGED <<play, db, log, blobs, filed, kept, clock, aside>>
    BY DEF Crash, live
  <1>2. /\ DOMAIN backups' = DOMAIN backups
        /\ \A n \in DOMAIN backups : backups'[n] = [backups[n] EXCEPT !.at = "ended"]
    BY CrashEnds DEF Crash, TypeOK
  <1>3. \A n \in DOMAIN backups :
              /\ backups'[n].at = "ended" /\ backups'[n].db = backups[n].db
              /\ backups'[n].blobs = backups[n].blobs /\ backups'[n].manifest = backups[n].manifest
              /\ backups'[n].doomed = backups[n].doomed /\ backups'[n].began = backups[n].began
              /\ backups'[n].whole = backups[n].whole
    BY <1>2, DirectoryAt DEF Directories, TypeOK
  <1>4. play.crashes > 0 /\ Careful(play)
    BY BackupAssumption DEF Crash, TypeOK
  <1>5. ServerRuns'
    BY <1>1 DEF ServerRuns
  <1>6. restoring # Nothing => ~Can("delete") /\ ~Can("reader") /\ log = Nothing
    BY <1>4 DEF RestoreRuns, LogRuns, Careful, Can
  <1>7. LogRuns' /\ RestoreRuns' /\ RestoreSource'
    BY <1>1, <1>6 DEF LogRuns, RestoreRuns, RestoreSource, Restoring
  <1>8. CopyRuns'
    BY <1>2, <1>3 DEF CopyRuns, At, Copying
  <1>9. Manifested' /\ PruneRuns'
    BY <1>1, <1>2, <1>3, <1>4, ManifestedQuiet, PruneRunsQuiet
  <1>10. Safe'
    <2>1. \A k : RowAside(k)' = RowAside(k) /\ BlobAside(k)' = BlobAside(k)
      BY <1>1 DEF RowAside, BlobAside
    <2>2. Rows' = Rows /\ Stored' = Stored /\ ~Restoring("log")'
      BY <1>1 DEF Rows, Stored, Restoring
    <2>3. ASSUME NEW k \in kept, Restoring("log")
          PROVE  RowAside(k)
      <3>1. log = Nothing /\ Last(aside).log = Nothing /\ Len(aside) \in DOMAIN aside
        BY <1>6, <2>3, LastTree DEF Restoring, RestoreRuns, TypeOK
      <3>2. k \in Content(Last(aside).db, Last(aside).log) \/ RowBefore(k)
        BY <2>3, <3>1 DEF Safe
      <3> QED  BY <3>1, <3>2 DEF RowBefore, RowAside, Last
    <2> SUFFICES ASSUME NEW k \in kept
                 PROVE  /\ k \in Rows \/ RowAside(k)
                        /\ k \in Stored \/ BlobAside(k)
                        /\ Can("delete") => k \in Rows \/ BlobAside(k)
      BY <1>1, <2>1, <2>2 DEF Safe, Can
    <2> QED  BY <1>6, <2>3 DEF Safe
  <1> QED  BY <1>5, <1>7, <1>8, <1>9, <1>10

-----------------------------------------------------------------------------
(* The steps of a backup. *)
LEMMA SaveLeaves ==
    ASSUME Save
    PROVE  UNCHANGED <<play, db, log, blobs, up, inhand, filed, kept, restoring, aside, crashes>>
  BY DEF Save, BeginBackup, CopyDatabase, ListBlobs, CopyBlob, WriteManifest, Prune, RemoveDoomed,
         Untouched, live, server

LEMMA SaveLeavesLive ==
    ASSUME IInv, Save
    PROVE  ServerRuns' /\ LogRuns' /\ RestoreRuns' /\ Safe'
  <1>1. UNCHANGED <<play, db, log, blobs, up, inhand, kept, restoring, aside>>
    BY SaveLeaves
  <1>2. ServerRuns' /\ LogRuns' /\ RestoreRuns'
    BY <1>1 DEF IInv, ServerRuns, LogRuns, RestoreRuns, Stored, Restoring, Can
  <1>3. Safe'
    BY <1>1 DEF IInv, Safe, Rows, Stored, Restoring, Can, RowAside, RowBefore, BlobAside
  <1> QED  BY <1>2, <1>3

(* A backup that runs leaves what is being restored alone: where the two    *)
(* may run at once, nothing is pruned.                                      *)
LEMMA SourceIsLeft ==
    ASSUME RestoreSource, UNCHANGED <<play, db, blobs, restoring>>,
           DOMAIN backups' = DOMAIN backups,
           NEW n \in DOMAIN backups, backups[n].at # "ended",
           \A m \in DOMAIN backups :
              /\ m # n => backups'[m] = backups[m]
              /\ m \in Complete => /\ backups'[m].db = backups[m].db
                                   /\ backups'[m].blobs = backups[m].blobs
                                   /\ backups'[m].manifest = backups[m].manifest
    PROVE  RestoreSource'
  <1> SUFFICES ASSUME restoring # Nothing
               PROVE  RestoreSource'
    BY DEF RestoreSource
  <1>1. restoring.from \in Complete /\ restoring.from \in DOMAIN backups
    BY DEF RestoreSource, Complete, DrillPasses, Verified
  <1>2. Can("at once")'
    BY DEF RestoreSource, Can
  <1>3. /\ backups'[restoring.from].db = backups[restoring.from].db
        /\ backups'[restoring.from].blobs = backups[restoring.from].blobs
        /\ backups'[restoring.from].manifest = backups[restoring.from].manifest
    BY <1>1
  <1> QED  BY <1>1, <1>2, <1>3 DEF RestoreSource, DrillPasses, Verified

LEMMA OneCopyRuns ==
    ASSUME CopyRuns, UNCHANGED <<db, log, blobs, kept, restoring>>,
           DOMAIN backups' = DOMAIN backups, NEW n \in DOMAIN backups,
           \A m \in DOMAIN backups : m # n => backups'[m] = backups[m],
           backups'[n].at # "ended" /\ backups'[n].whole => restoring = Nothing,
           ~At(n, "db")',
           At(n, "list")' /\ backups'[n].whole => backups'[n].db \subseteq Stored,
           At(n, "copy")' /\ backups'[n].whole =>
              backups'[n].db \subseteq backups'[n].blobs \cup backups'[n].todo,
           Copying(n)' => backups'[n].db # Nothing /\ backups'[n].manifest = Nothing,
           Copying(n)' /\ backups'[n].whole => backups'[n].began \subseteq backups'[n].db
    PROVE  CopyRuns'
  <1>1. Rows' = Rows /\ Stored' = Stored
    BY DEF Rows, Stored
  <1> SUFFICES ASSUME NEW m \in DOMAIN backups, m # n
               PROVE  /\ backups[m].at # "ended" /\ backups[m].whole => restoring = Nothing
                      /\ At(m, "db") /\ backups[m].whole =>
                            Rows \subseteq Stored /\ backups[m].began \cap kept \subseteq Rows
                      /\ At(m, "list") /\ backups[m].whole => backups[m].db \subseteq Stored
                      /\ At(m, "copy") /\ backups[m].whole =>
                            backups[m].db \subseteq backups[m].blobs \cup backups[m].todo
                      /\ Copying(m) => backups[m].db # Nothing
                      /\ Copying(m) /\ backups[m].whole => backups[m].began \subseteq backups[m].db
                      /\ At(m, "db") \/ Copying(m) => backups[m].manifest = Nothing
    BY <1>1 DEF CopyRuns, At, Copying
  <1> QED  BY DEF CopyRuns

(* What one backup that is not complete does touches nobody else's.         *)
LEMMA OneStepKeepsAll ==
    ASSUME IInv, Save, CopyRuns', clock' = clock,
           NEW n \in DOMAIN backups, NEW b \in Directories, Becomes(n, b),
           backups[n].at # "ended",
           backups[n].at = "remove" => b.at = "remove",
           backups[n].at = "prune" => b.at = "prune",
           b.manifest = backups[n].manifest, b.doomed = backups[n].doomed,
           n \in Complete => /\ b.db = backups[n].db /\ b.blobs = backups[n].blobs
                             /\ b.began = backups[n].began /\ b.whole = backups[n].whole
    PROVE  RestoreSource' /\ Manifested' /\ PruneRuns'
  <1> USE DEF IInv
  <1>1. /\ DOMAIN backups' = DOMAIN backups /\ backups'[n] = b
        /\ \A m \in DOMAIN backups : m # n => backups'[m] = backups[m]
    BY Becoming DEF TypeOK
  <1>2. UNCHANGED <<play, db, blobs, restoring>>
    BY SaveLeaves
  <1>3. RestoreSource'
    BY <1>1, <1>2, SourceIsLeft
  <1>4. Manifested'
    BY <1>1, ManifestedQuiet
  <1>5. PruneRuns'
    BY <1>1, <1>2, PruneRunsQuiet DEF At
  <1> QED  BY <1>3, <1>4, <1>5

LEMMA BeginBackupKeepsAll ==
    ASSUME IInv, TypeOK', BeginBackup
    PROVE  IInv'
  <1> USE NothingIsNoSet DEF IInv
  <1> DEFINE N == Len(backups) + 1
  <1>1. UNCHANGED <<play, db, log, blobs, kept, restoring, clock>>
        /\ (restoring = Nothing \/ Can("at once"))
    BY DEF BeginBackup, Untouched, live, server
  <1>2. PICK w \in BOOLEAN :
          /\ w = (Rows \subseteq Stored /\ restoring = Nothing)
          /\ backups' = Append(backups,
                [at |-> "db", db |-> Nothing, blobs |-> {}, todo |-> {}, manifest |-> Nothing,
                 doomed |-> {}, began |-> kept \cap Rows, whole |-> w])
    BY DEF BeginBackup
  <1>3. PICK b : b = [at |-> "db", db |-> Nothing, blobs |-> {}, todo |-> {},
                      manifest |-> Nothing, doomed |-> {}, began |-> kept \cap Rows, whole |-> w]
    OBVIOUS
  <1>4. b.at = "db" /\ b.manifest = Nothing /\ b.doomed = {} /\ b.began = kept \cap Rows /\ b.whole = w
    BY <1>3
  <1>5. /\ DOMAIN backups' = DOMAIN backups \cup {N} /\ N \notin DOMAIN backups
        /\ backups'[N] = b /\ \A n \in DOMAIN backups : backups'[n] = backups[n]
    <2>1. backups' = Append(backups, b) /\ backups \in Seq(Directories)
      BY <1>2, <1>3 DEF TypeOK
    <2> QED  BY <2>1
  <1> HIDE DEF N
  <1>6. Complete' = Complete /\ Complete \subseteq DOMAIN backups
    BY <1>4, <1>5 DEF Complete
  <1>7. \A n \in Complete : Newer(n)' = Newer(n)
    BY <1>5, <1>6 DEF Newer
  <1>8. \A n : IsNewest(n)' = IsNewest(n)
    BY <1>6, <1>7 DEF IsNewest
  <1>9. Manifested'
    BY <1>1, <1>5, <1>6 DEF Manifested
  <1>10. PruneRuns'
    <2>1. \A n \in DOMAIN backups : DrillPasses(backups[n])' = DrillPasses(backups[n])
      BY <1>5 DEF DrillPasses, Verified
    <2>2. ASSUME NEW n \in DOMAIN backups', NEW d \in backups'[n].doomed
          PROVE  /\ d \in DOMAIN backups' /\ backups'[d].at \in {"prune", "remove", "ended"}
                 /\ ~IsNewest(d)' /\ play'.keep > 0
      BY <1>1, <1>4, <1>5, <1>8 DEF PruneRuns
    <2>3. ASSUME NEW n \in DOMAIN backups', IsNewest(n)'
          PROVE  DrillPasses(backups[n])'
      BY <1>5, <1>6, <1>8, <2>1, <2>3 DEF PruneRuns, IsNewest
    <2>4. ASSUME NEW n \in Complete, ~DrillPasses(backups[n])'
          PROVE  /\ play'.keep > 0
                 /\ \/ play'.crashes > 0
                    \/ \E m \in DOMAIN backups' : At(m, "remove")' /\ n \in backups'[m].doomed
      <3>1. /\ play.keep > 0
            /\ play.crashes > 0 \/ \E m \in DOMAIN backups : At(m, "remove") /\ n \in backups[m].doomed
        BY <1>6, <2>1, <2>4 DEF PruneRuns
      <3> QED  BY <1>1, <1>5, <3>1 DEF At
    <2> QED  BY <1>6, <2>2, <2>3, <2>4 DEF PruneRuns
  <1>11. RestoreSource'
    BY <1>1, <1>5 DEF RestoreSource, Can, DrillPasses, Verified
  <1>12. CopyRuns'
    <2>1. Rows' = Rows /\ Stored' = Stored
      BY <1>1 DEF Rows, Stored
    <2>2. /\ backups'[N].at = "db" /\ backups'[N].manifest = Nothing
          /\ backups'[N].whole => Rows \subseteq Stored /\ restoring = Nothing
          /\ backups'[N].began \cap kept \subseteq Rows
      BY <1>2, <1>4, <1>5
    <2>3. \A m \in DOMAIN backups' : m = N \/ (m \in DOMAIN backups /\ backups'[m] = backups[m])
      BY <1>5
    <2> SUFFICES ASSUME NEW m \in DOMAIN backups'
                 PROVE  /\ backups'[m].at # "ended" /\ backups'[m].whole => restoring = Nothing
                        /\ backups'[m].at = "db" /\ backups'[m].whole =>
                              Rows \subseteq Stored /\ backups'[m].began \cap kept \subseteq Rows
                        /\ backups'[m].at = "list" /\ backups'[m].whole =>
                              backups'[m].db \subseteq Stored
                        /\ backups'[m].at = "copy" /\ backups'[m].whole =>
                              backups'[m].db \subseteq backups'[m].blobs \cup backups'[m].todo
                        /\ backups'[m].at \in {"list", "copy"} =>
                              /\ backups'[m].db # Nothing
                              /\ backups'[m].whole => backups'[m].began \subseteq backups'[m].db
                        /\ backups'[m].at \in {"db", "list", "copy"} => backups'[m].manifest = Nothing
      BY <1>1, <2>1 DEF CopyRuns, At, Copying
    <2>4. CASE m = N
      BY <2>2, <2>4
    <2>5. CASE m \in DOMAIN backups /\ backups'[m] = backups[m]
      BY <2>5 DEF CopyRuns, At, Copying
    <2> QED  BY <2>3, <2>4, <2>5
  <1>13. ServerRuns' /\ LogRuns' /\ RestoreRuns' /\ Safe'
    BY SaveLeavesLive DEF Save
  <1> QED  BY <1>9, <1>10, <1>11, <1>12, <1>13

LEMMA CopyDatabaseKeepsAll ==
    ASSUME IInv, TypeOK', CopyDatabase
    PROVE  IInv'
  <1> USE NothingIsNoSet, LiveSets DEF IInv
  <1>0. Save
    BY DEF Save
  <1>1. PICK n \in DOMAIN backups :
          /\ At(n, "db")
          /\ Becomes(n, IF Opens(db) THEN [To(n, "list") EXCEPT !.db = Rows, !.began = @ \cap kept]
                        ELSE To(n, "ended"))
    BY DEF CopyDatabase
  <1>2. UNCHANGED <<play, db, log, blobs, kept, restoring, clock>>
    BY <1>0, SaveLeaves DEF CopyDatabase
  <1>3. PICK b : b = IF Opens(db) THEN [To(n, "list") EXCEPT !.db = Rows, !.began = @ \cap kept]
                     ELSE To(n, "ended")
    OBVIOUS
  <1>4. /\ b \in Directories /\ b.manifest = backups[n].manifest /\ b.doomed = backups[n].doomed
        /\ b.whole = backups[n].whole
        /\ \/ b.at = "ended"
           \/ b.at = "list" /\ b.db = Rows /\ b.began = backups[n].began \cap kept
    <2>1. backups[n] \in Directories /\ backups[n].began \cap kept \in Pictures
      BY DirectoryAt DEF TypeOK, Directories, Pictures
    <2>2. CASE Opens(db)
      BY <1>3, <2>1, <2>2 DEF To, Directories
    <2>3. CASE ~Opens(db)
      BY <1>3, <2>1, <2>3 DEF To, Directories
    <2> QED  BY <2>2, <2>3
  <1>5. Becomes(n, b)
    BY <1>1, <1>3
  <1>6. /\ DOMAIN backups' = DOMAIN backups /\ backups'[n] = b
        /\ \A m \in DOMAIN backups : m # n => backups'[m] = backups[m]
    BY <1>4, <1>5, Becoming DEF TypeOK
  <1>7. /\ backups[n].manifest = Nothing
        /\ backups[n].whole => /\ restoring = Nothing /\ Rows \subseteq Stored
                               /\ backups[n].began \cap kept \subseteq Rows
    BY <1>1 DEF CopyRuns, At
  <1>8. CopyRuns'
    BY <1>2, <1>4, <1>6, <1>7, OneCopyRuns DEF At, Copying
  <1>9. RestoreSource' /\ Manifested' /\ PruneRuns'
    BY <1>0, <1>1, <1>2, <1>4, <1>5, <1>7, <1>8, OneStepKeepsAll DEF At, Complete
  <1> QED  BY <1>0, <1>8, <1>9, SaveLeavesLive

LEMMA ListBlobsKeepsAll ==
    ASSUME IInv, TypeOK', ListBlobs
    PROVE  IInv'
  <1> USE NothingIsNoSet, LiveSets DEF IInv
  <1>0. Save
    BY DEF Save
  <1>1. PICK n \in DOMAIN backups : At(n, "list") /\ Becomes(n, [To(n, "copy") EXCEPT !.todo = Stored])
    BY DEF ListBlobs
  <1>2. UNCHANGED <<play, db, log, blobs, kept, restoring, clock>>
    BY <1>0, SaveLeaves DEF ListBlobs
  <1>3. PICK b : b = [To(n, "copy") EXCEPT !.todo = Stored]
    OBVIOUS
  <1>4. /\ b \in Directories /\ b.manifest = backups[n].manifest /\ b.doomed = backups[n].doomed
        /\ b.whole = backups[n].whole /\ b.began = backups[n].began /\ b.db = backups[n].db
        /\ b.at = "copy" /\ b.todo = Stored
    BY <1>3, DirectoryAt DEF To, Directories, TypeOK
  <1>5. Becomes(n, b)
    BY <1>1, <1>3
  <1>6. /\ DOMAIN backups' = DOMAIN backups /\ backups'[n] = b
        /\ \A m \in DOMAIN backups : m # n => backups'[m] = backups[m]
    BY <1>4, <1>5, Becoming DEF TypeOK
  <1>7. /\ backups[n].manifest = Nothing /\ backups[n].db # Nothing
        /\ backups[n].whole => /\ restoring = Nothing /\ backups[n].db \subseteq Stored
                               /\ backups[n].began \subseteq backups[n].db
    BY <1>1 DEF CopyRuns, At, Copying
  <1>8. CopyRuns'
    BY <1>2, <1>4, <1>6, <1>7, OneCopyRuns DEF At, Copying
  <1>9. RestoreSource' /\ Manifested' /\ PruneRuns'
    BY <1>0, <1>1, <1>2, <1>4, <1>5, <1>7, <1>8, OneStepKeepsAll DEF At, Complete
  <1> QED  BY <1>0, <1>8, <1>9, SaveLeavesLive

LEMMA CopyBlobKeepsAll ==
    ASSUME IInv, TypeOK', CopyBlob
    PROVE  IInv'
  <1> USE NothingIsNoSet, LiveSets DEF IInv
  <1>0. Save
    BY DEF Save
  <1> PICK n \in DOMAIN backups : \E k \in backups[n].todo :
         /\ At(n, "copy")
         /\ Becomes(n, IF k \in Stored
                       THEN [backups[n] EXCEPT !.todo = @ \ {k}, !.blobs = @ \cup {k}]
                       ELSE To(n, "ended"))
    BY DEF CopyBlob
  <1>1. PICK k \in backups[n].todo :
         /\ At(n, "copy")
         /\ Becomes(n, IF k \in Stored
                       THEN [backups[n] EXCEPT !.todo = @ \ {k}, !.blobs = @ \cup {k}]
                       ELSE To(n, "ended"))
    OBVIOUS
  <1>2. UNCHANGED <<play, db, log, blobs, kept, restoring, clock>>
    BY <1>0, SaveLeaves DEF CopyBlob
  <1>3. PICK b : b = IF k \in Stored
                     THEN [backups[n] EXCEPT !.todo = @ \ {k}, !.blobs = @ \cup {k}]
                     ELSE To(n, "ended")
    OBVIOUS
  <1>4. /\ b \in Directories /\ b.manifest = backups[n].manifest /\ b.doomed = backups[n].doomed
        /\ b.whole = backups[n].whole /\ b.began = backups[n].began /\ b.db = backups[n].db
        /\ \/ b.at = "ended"
           \/ b.at = "copy" /\ backups[n].blobs \cup backups[n].todo \subseteq b.blobs \cup b.todo
    <2>1. backups[n] \in Directories
      BY DirectoryAt DEF TypeOK
    <2>2. backups[n].todo \ {k} \in Pictures /\ backups[n].blobs \cup {k} \in Pictures
      BY <2>1 DEF Directories, Pictures
    <2>3. CASE k \in Stored
      <3>1. b = [backups[n] EXCEPT !.todo = backups[n].todo \ {k}, !.blobs = backups[n].blobs \cup {k}]
        BY <1>3, <2>3
      <3>2. b \in Directories /\ b.todo = backups[n].todo \ {k} /\ b.blobs = backups[n].blobs \cup {k}
        BY <2>1, <2>2, <3>1 DEF Directories
      <3> QED  BY <1>1, <2>1, <3>1, <3>2 DEF Directories, At
    <2>4. CASE k \notin Stored
      BY <1>3, <2>1, <2>4 DEF To, Directories
    <2> QED  BY <2>3, <2>4
  <1>5. Becomes(n, b)
    BY <1>1, <1>3
  <1>6. /\ DOMAIN backups' = DOMAIN backups /\ backups'[n] = b
        /\ \A m \in DOMAIN backups : m # n => backups'[m] = backups[m]
    BY <1>4, <1>5, Becoming DEF TypeOK
  <1>7. /\ backups[n].manifest = Nothing /\ backups[n].db # Nothing
        /\ backups[n].whole => /\ restoring = Nothing
                               /\ backups[n].db \subseteq backups[n].blobs \cup backups[n].todo
                               /\ backups[n].began \subseteq backups[n].db
    BY <1>1 DEF CopyRuns, At, Copying
  <1>8. CopyRuns'
    BY <1>2, <1>4, <1>6, <1>7, OneCopyRuns DEF At, Copying
  <1>9. RestoreSource' /\ Manifested' /\ PruneRuns'
    BY <1>0, <1>1, <1>2, <1>4, <1>5, <1>7, <1>8, OneStepKeepsAll DEF At, Complete
  <1> QED  BY <1>0, <1>8, <1>9, SaveLeavesLive

LEMMA WriteManifestKeepsAll ==
    ASSUME IInv, TypeOK', WriteManifest
    PROVE  IInv'
  <1> USE NothingIsNoSet, LiveSets DEF IInv
  <1>0. Save
    BY DEF Save
  <1> DEFINE V(n) == [taken |-> clock, rows |-> backups[n].db, files |-> Cardinality(backups[n].blobs)]
  <1>1. PICK n \in DOMAIN backups :
          /\ At(n, "copy") /\ backups[n].todo = {}
          /\ Becomes(n, [To(n, "prune") EXCEPT !.manifest = V(n)])
    BY DEF WriteManifest
  <1>2. UNCHANGED <<play, db, log, blobs, kept, restoring>> /\ clock' = clock + 1
    BY <1>0, SaveLeaves DEF WriteManifest
  <1>3. /\ backups[n] \in Directories /\ backups[n].manifest = Nothing /\ backups[n].db \in Pictures
        /\ backups[n].whole => /\ restoring = Nothing
                               /\ backups[n].db \subseteq backups[n].blobs
                               /\ backups[n].began \subseteq backups[n].db
    <2>1. backups[n] \in Directories /\ backups[n].manifest = Nothing /\ backups[n].db # Nothing
      BY <1>1, DirectoryAt DEF CopyRuns, At, Copying, TypeOK
    <2> QED  BY <1>1, <2>1 DEF CopyRuns, At, Copying, Directories
  <1>4. PICK v \in Manifests : v = V(n)
    BY <1>3, PicturesAreFinite, FS_CardinalityType DEF Manifests, Directories, TypeOK
  <1>5. v.taken = clock /\ v.rows = backups[n].db /\ v.files = Cardinality(backups[n].blobs) /\ v # Nothing
    BY <1>4, BackupAssumption
  <1> HIDE DEF V
  <1>6. PICK b : b = [To(n, "prune") EXCEPT !.manifest = v]
    OBVIOUS
  <1>7. /\ b \in Directories /\ b.at = "prune" /\ b.manifest = v /\ b.doomed = backups[n].doomed
        /\ b.whole = backups[n].whole /\ b.began = backups[n].began /\ b.db = backups[n].db
        /\ b.blobs = backups[n].blobs
    BY <1>3, <1>6 DEF To, Directories
  <1>8. /\ DOMAIN backups' = DOMAIN backups /\ backups'[n] = b
        /\ \A m \in DOMAIN backups : m # n => backups'[m] = backups[m]
    BY <1>1, <1>4, <1>6, <1>7, Becoming DEF TypeOK
  <1>9. Complete' = Complete \cup {n} /\ n \notin Complete
    BY <1>3, <1>5, <1>7, <1>8 DEF Complete
  <1>10. Cardinality(backups[n].blobs) \in Nat /\ clock \in Nat
    BY <1>3, PicturesAreFinite, FS_CardinalityType DEF Directories, TypeOK
  <1>11. Manifested'
    <2> SUFFICES ASSUME NEW m \in Complete'
                 PROVE  /\ backups'[m].manifest.taken < clock + 1
                        /\ Cardinality(backups'[m].blobs) <= backups'[m].manifest.files
                        /\ backups'[m].whole /\ Cardinality(backups'[m].blobs) = backups'[m].manifest.files
                              => backups'[m].manifest.rows \subseteq backups'[m].blobs
                        /\ backups'[m].whole => backups'[m].began \subseteq backups'[m].manifest.rows
      BY <1>2 DEF Manifested
    <2>1. CASE m = n
      BY <1>3, <1>5, <1>7, <1>8, <1>10, <2>1
    <2>2. CASE m \in Complete
      <3>1. m # n /\ m \in DOMAIN backups /\ backups'[m] = backups[m]
        BY <1>8, <1>9, <2>2 DEF Complete
      <3>2. backups[m].manifest.taken \in Nat
        BY <2>2, <3>1, DirectoryAt DEF Complete, Directories, Manifests, TypeOK
      <3> QED  BY <1>10, <2>2, <3>1, <3>2 DEF Manifested
    <2> QED  BY <1>9, <2>1, <2>2
  <1>12. \A m \in Complete : ~IsNewest(m)'
    <2> SUFFICES ASSUME NEW m \in Complete
                 PROVE  n \in Newer(m)'
      BY DEF IsNewest
    <2>1. m # n /\ m \in DOMAIN backups /\ backups'[m] = backups[m] /\ backups[m].manifest.taken \in Nat
      BY <1>8, <1>9, DirectoryAt DEF Complete, Directories, Manifests, TypeOK
    <2>2. backups[m].manifest.taken < clock
      BY DEF Manifested
    <2> QED  BY <1>5, <1>7, <1>8, <1>9, <1>10, <2>1, <2>2 DEF Newer
  <1>13. DrillPasses(backups[n])'
    BY <1>5, <1>7, <1>8 DEF DrillPasses, Verified
  <1>14. PruneRuns'
    <2>1. \A m : IsNewest(m)' => m = n
      BY <1>9, <1>12 DEF IsNewest
    <2>2. \A m \in DOMAIN backups : m # n => DrillPasses(backups[m])' = DrillPasses(backups[m])
      BY <1>8 DEF DrillPasses, Verified
    <2>3. \A m \in DOMAIN backups : backups'[m].doomed = backups[m].doomed
      BY <1>7, <1>8
    <2>4. ASSUME NEW m \in DOMAIN backups, NEW d \in backups[m].doomed
          PROVE  /\ d \in DOMAIN backups /\ backups'[d].at \in {"prune", "remove", "ended"}
                 /\ ~IsNewest(d)' /\ play.keep > 0
      <3>1. d \in DOMAIN backups /\ backups[d].at \in {"prune", "remove", "ended"} /\ play.keep > 0
        BY DEF PruneRuns
      <3>2. d # n
        BY <1>1, <3>1 DEF At
      <3> QED  BY <1>8, <2>1, <3>1, <3>2
    <2>5. ASSUME NEW m \in Complete', ~DrillPasses(backups[m])'
          PROVE  /\ play.keep > 0
                 /\ \/ play.crashes > 0
                    \/ \E x \in DOMAIN backups : At(x, "remove")' /\ m \in backups'[x].doomed
      <3>1. m # n /\ m \in Complete /\ m \in DOMAIN backups
        BY <1>9, <1>13, <2>5 DEF Complete
      <3>2. /\ play.keep > 0
            /\ \/ play.crashes > 0
               \/ \E x \in DOMAIN backups : At(x, "remove") /\ m \in backups[x].doomed
        BY <2>2, <2>5, <3>1 DEF PruneRuns
      <3> QED  BY <1>1, <1>8, <3>2 DEF At
    <2> QED  BY <1>2, <1>8, <1>13, <2>1, <2>3, <2>4, <2>5 DEF PruneRuns
  <1>15. CopyRuns'
    BY <1>2, <1>3, <1>7, <1>8, OneCopyRuns DEF At, Copying
  <1>16. RestoreSource'
    <2>1. backups[n].at # "ended"
      BY <1>1 DEF At
    <2> QED  BY <1>2, <1>8, <1>9, <2>1, SourceIsLeft
  <1> QED  BY <1>0, <1>11, <1>14, <1>15, <1>16, SaveLeavesLive

LEMMA PruneKeepsAll ==
    ASSUME IInv, TypeOK', Prune
    PROVE  IInv'
  <1> USE NothingIsNoSet DEF IInv
  <1>0. Save
    BY DEF Save
  <1> DEFINE s == IF play.keep = 0 THEN {} ELSE Doomed(play.keep)
  <1>1. PICK n \in DOMAIN backups : At(n, "prune") /\ Becomes(n, [To(n, "remove") EXCEPT !.doomed = s])
    BY DEF Prune
  <1>2. UNCHANGED <<play, db, log, blobs, kept, restoring, clock>>
    BY <1>0, SaveLeaves DEF Prune
  <1>3. \A d \in s : d \in Complete /\ ~IsNewest(d) /\ play.keep > 0
    <2> SUFFICES ASSUME NEW d \in s
                 PROVE  d \in Complete /\ ~IsNewest(d) /\ play.keep > 0
      OBVIOUS
    <2>1. d \in Complete /\ Cardinality(Newer(d)) >= play.keep /\ play.keep # 0
      BY DEF Doomed
    <2>2. play.keep \in Nat
      BY BackupAssumption DEF TypeOK
    <2>3. PICK keep \in Nat : keep = play.keep /\ keep > 0
      BY <2>1, <2>2
    <2>4. Newer(d) # {}
      BY <2>1, <2>3, FS_EmptySet
    <2> QED  BY <2>1, <2>3, <2>4 DEF IsNewest
  <1>4. s \in SUBSET Nat
    BY <1>3 DEF Complete, TypeOK
  <1> HIDE DEF s
  <1>5. PICK b : b = [To(n, "remove") EXCEPT !.doomed = s]
    OBVIOUS
  <1>6. /\ b \in Directories /\ b.at = "remove" /\ b.manifest = backups[n].manifest /\ b.doomed = s
        /\ b.whole = backups[n].whole /\ b.began = backups[n].began /\ b.db = backups[n].db
        /\ b.blobs = backups[n].blobs
    BY <1>4, <1>5, DirectoryAt DEF To, Directories, TypeOK
  <1>7. /\ DOMAIN backups' = DOMAIN backups /\ backups'[n] = b
        /\ \A m \in DOMAIN backups : m # n => backups'[m] = backups[m]
    BY <1>1, <1>5, <1>6, Becoming DEF TypeOK
  <1>8. CopyRuns'
    <2>1. backups[n].whole => restoring = Nothing
      BY <1>1 DEF CopyRuns, At
    <2> QED  BY <1>2, <1>6, <1>7, <2>1, OneCopyRuns DEF At, Copying
  <1>9. Manifested'
    BY <1>2, <1>6, <1>7, ManifestedQuiet
  <1>10. RestoreSource'
    <2>1. backups[n].at # "ended"
      BY <1>1 DEF At
    <2> QED  BY <1>2, <1>6, <1>7, <2>1, SourceIsLeft
  <1>11. PruneRuns'
    <2>1. /\ Complete' = Complete
          /\ \A m \in DOMAIN backups :
                IsNewest(m)' = IsNewest(m) /\ DrillPasses(backups[m])' = DrillPasses(backups[m])
      BY <1>6, <1>7, SameVault
    <2>2. \A d \in Complete : d \in DOMAIN backups /\ backups[d].at \in {"prune", "remove", "ended"}
      BY DirectoryAt DEF Complete, CopyRuns, At, Copying, Directories, TypeOK
    <2>3. ASSUME NEW m \in DOMAIN backups, NEW d \in backups'[m].doomed
          PROVE  /\ d \in DOMAIN backups /\ backups'[d].at \in {"prune", "remove", "ended"}
                 /\ ~IsNewest(d)' /\ play.keep > 0
      <3>1. /\ d \in DOMAIN backups /\ backups[d].at \in {"prune", "remove", "ended"}
            /\ ~IsNewest(d) /\ play.keep > 0
        BY <1>3, <1>6, <1>7, <2>2 DEF PruneRuns
      <3> QED  BY <1>6, <1>7, <2>1, <3>1
    <2>4. ASSUME NEW m \in DOMAIN backups, IsNewest(m)'
          PROVE  DrillPasses(backups[m])'
      BY <2>1, <2>4 DEF PruneRuns
    <2>5. ASSUME NEW m \in Complete, ~DrillPasses(backups[m])'
          PROVE  /\ play.keep > 0
                 /\ \/ play.crashes > 0
                    \/ \E x \in DOMAIN backups : At(x, "remove")' /\ m \in backups'[x].doomed
      <3>1. /\ play.keep > 0
            /\ \/ play.crashes > 0
               \/ \E x \in DOMAIN backups : At(x, "remove") /\ m \in backups[x].doomed
        BY <2>1, <2>2, <2>5 DEF PruneRuns
      <3> QED  BY <1>1, <1>7, <3>1 DEF At
    <2> QED  BY <1>2, <1>7, <2>1, <2>3, <2>4, <2>5 DEF PruneRuns
  <1> QED  BY <1>0, <1>8, <1>9, <1>10, <1>11, SaveLeavesLive

(* What is taken from a directory on its way out: the newest stays the      *)
(* newest, since it is not that one.                                        *)
LEMMA RemovalKeepsAll ==
    ASSUME IInv, TypeOK', RemoveDoomed,
           NEW n \in DOMAIN backups, At(n, "remove"), NEW d \in backups[n].doomed,
           NEW b \in Emptier(backups[d]), Becomes(d, b)
    PROVE  IInv'
  <1> USE NothingIsNoSet DEF IInv
  <1>0. Save
    BY DEF Save
  <1>1. /\ d \in DOMAIN backups /\ backups[d].at \in {"prune", "remove", "ended"}
        /\ ~IsNewest(d) /\ play.keep > 0 /\ backups[d] \in Directories
    BY DirectoryAt DEF PruneRuns, TypeOK
  <1>2. UNCHANGED <<play, db, log, blobs, kept, restoring, clock>>
    BY <1>0, SaveLeaves DEF RemoveDoomed
  <1>3. /\ b \in Directories
        /\ b.at = backups[d].at /\ b.todo = backups[d].todo /\ b.doomed = backups[d].doomed
        /\ b.began = backups[d].began /\ b.whole = backups[d].whole
        /\ b.manifest = backups[d].manifest \/ b.manifest = Nothing
        /\ b.blobs = backups[d].blobs \/ \E k \in backups[d].blobs : b.blobs = backups[d].blobs \ {k}
    BY <1>1, EmptierKeeps
  <1>4. /\ DOMAIN backups' = DOMAIN backups /\ backups'[d] = b
        /\ \A m \in DOMAIN backups : m # d => backups'[m] = backups[m]
    BY <1>1, <1>3, Becoming DEF TypeOK
  <1>5. /\ Complete' \subseteq Complete /\ Complete \ {d} \subseteq Complete'
        /\ \A m \in Complete' : backups'[m].manifest = backups[m].manifest
    BY <1>3, <1>4 DEF Complete
  <1>6. \A m \in DOMAIN backups : IsNewest(m)' => IsNewest(m) /\ m # d
    <2> SUFFICES ASSUME NEW m \in DOMAIN backups, IsNewest(m)'
                 PROVE  Newer(m) = {}
      BY <1>1, <1>5 DEF IsNewest
    <2>1. m \in Complete /\ m \in Complete' /\ Newer(m)' = {}
      BY <1>5 DEF IsNewest
    <2>2. Newer(m) \subseteq {d}
      BY <1>5, <2>1 DEF Newer
    <2>3. ASSUME d \in Newer(m)
          PROVE  FALSE
      <3>1. d \in Complete /\ backups[d].manifest.taken > backups[m].manifest.taken
        BY <2>3 DEF Newer
      <3>2. PICK e \in Newer(d) : TRUE
        BY <1>1, <3>1 DEF IsNewest
      <3>3. e \in Complete /\ backups[e].manifest.taken > backups[d].manifest.taken
        BY <3>2 DEF Newer
      <3>4. /\ backups[d].manifest.taken \in Nat /\ backups[m].manifest.taken \in Nat
            /\ backups[e].manifest.taken \in Nat
        BY <2>1, <3>1, <3>3, DirectoryAt DEF Complete, Directories, Manifests, TypeOK
      <3>5. e \in Newer(m) /\ e # d
        BY <3>1, <3>3, <3>4 DEF Newer
      <3> QED  BY <2>2, <3>5
    <2> QED  BY <2>2, <2>3
  <1>7. \A m \in DOMAIN backups : m # d => DrillPasses(backups[m])' = DrillPasses(backups[m])
    BY <1>4 DEF DrillPasses, Verified
  <1>8. \A m \in DOMAIN backups : backups'[m].doomed = backups[m].doomed /\ backups'[m].at = backups[m].at
    BY <1>3, <1>4
  <1>9. PruneRuns'
    <2>1. ASSUME NEW m \in DOMAIN backups, NEW x \in backups[m].doomed
          PROVE  /\ x \in DOMAIN backups /\ backups'[x].at \in {"prune", "remove", "ended"}
                 /\ ~IsNewest(x)' /\ play.keep > 0
      BY <1>6, <1>8 DEF PruneRuns
    <2>2. ASSUME NEW m \in DOMAIN backups, IsNewest(m)'
          PROVE  DrillPasses(backups[m])'
      BY <1>6, <1>7, <2>2 DEF PruneRuns
    <2>3. ASSUME NEW m \in Complete', ~DrillPasses(backups[m])'
          PROVE  /\ play.keep > 0
                 /\ \/ play.crashes > 0
                    \/ \E x \in DOMAIN backups : At(x, "remove")' /\ m \in backups'[x].doomed
      <3>1. CASE m = d
        BY <1>1, <1>8, <3>1 DEF At
      <3>2. CASE m # d
        <4>1. m \in Complete /\ m \in DOMAIN backups
          BY <1>5 DEF Complete
        <4>2. /\ play.keep > 0
              /\ \/ play.crashes > 0
                 \/ \E x \in DOMAIN backups : At(x, "remove") /\ m \in backups[x].doomed
          BY <1>7, <2>3, <3>2, <4>1 DEF PruneRuns
        <4> QED  BY <1>8, <4>2 DEF At
      <3> QED  BY <3>1, <3>2
    <2> QED  BY <1>2, <1>4, <1>8, <2>1, <2>2, <2>3 DEF PruneRuns
  <1>10. Manifested'
    <2> SUFFICES ASSUME NEW m \in Complete'
                 PROVE  /\ backups'[m].manifest.taken < clock
                        /\ Cardinality(backups'[m].blobs) <= backups'[m].manifest.files
                        /\ backups'[m].whole /\ Cardinality(backups'[m].blobs) = backups'[m].manifest.files
                              => backups'[m].manifest.rows \subseteq backups'[m].blobs
                        /\ backups'[m].whole => backups'[m].began \subseteq backups'[m].manifest.rows
      BY <1>2 DEF Manifested
    <2>0. m \in Complete /\ m \in DOMAIN backups /\ backups'[m].manifest = backups[m].manifest
      BY <1>5 DEF Complete
    <2>1. CASE m # d
      BY <1>4, <2>0, <2>1 DEF Manifested
    <2>2. CASE m = d /\ b.blobs = backups[d].blobs
      BY <1>3, <1>4, <2>0, <2>2 DEF Manifested
    <2>3. ASSUME m = d, NEW k \in backups[d].blobs, b.blobs = backups[d].blobs \ {k}
          PROVE  Cardinality(b.blobs) < backups[d].manifest.files
      <3>1. IsFiniteSet(backups[d].blobs)
        BY <1>1, PicturesAreFinite DEF Directories
      <3>2. Cardinality(backups[d].blobs \ {k}) = Cardinality(backups[d].blobs) - 1
        BY <3>1, FS_RemoveElement
      <3>3. /\ Cardinality(backups[d].blobs) \in Nat /\ backups[d].manifest.files \in Nat
            /\ Cardinality(backups[d].blobs) <= backups[d].manifest.files
        BY <1>1, <2>0, <2>3, <3>1, FS_CardinalityType DEF Manifested, Complete, Directories, Manifests
      <3> QED  BY <2>3, <3>2, <3>3
    <2>4. backups[m].manifest.files \in Nat /\ Cardinality(b.blobs) \in Nat
      BY <1>3, <2>0, DirectoryAt, PicturesAreFinite, FS_CardinalityType
      DEF Complete, Directories, Manifests, TypeOK
    <2>5. CASE m = d /\ \E k \in backups[d].blobs : b.blobs = backups[d].blobs \ {k}
      <3>1. Cardinality(b.blobs) < backups[d].manifest.files
        BY <2>3, <2>5
      <3>2. /\ backups[d].manifest.taken < clock
            /\ backups[d].whole => backups[d].began \subseteq backups[d].manifest.rows
        BY <2>0, <2>5 DEF Manifested
      <3>3. /\ backups'[m].manifest = backups[d].manifest /\ backups'[m].blobs = b.blobs
            /\ backups'[m].whole = backups[d].whole /\ backups'[m].began = backups[d].began
            /\ backups[d].manifest.files \in Nat
        BY <1>3, <1>4, <2>0, <2>4, <2>5
      <3>4. Cardinality(b.blobs) <= backups[d].manifest.files
            /\ Cardinality(b.blobs) # backups[d].manifest.files
        BY <2>4, <3>1, <3>3
      <3> QED  BY <3>2, <3>3, <3>4
    <2> QED  BY <1>3, <2>1, <2>2, <2>5
  <1>11. CopyRuns'
    <2>1. backups[d].at # "ended" /\ backups[d].whole => restoring = Nothing
      BY <1>1 DEF CopyRuns
    <2> QED  BY <1>1, <1>2, <1>3, <1>4, <2>1, OneCopyRuns DEF At, Copying
  <1>12. RestoreSource'
    <2>1. Careful(play)
      BY BackupAssumption DEF TypeOK
    <2>2. ~Can("at once") /\ backups[n].at # "ended"
      BY <1>1, <2>1 DEF Careful, Can, At
    <2>3. restoring' = Nothing
      BY <1>2, <2>2 DEF RestoreSource
    <2> QED  BY <2>3 DEF RestoreSource
  <1> QED  BY <1>0, <1>9, <1>10, <1>11, <1>12, SaveLeavesLive

LEMMA PrunedKeepsAll ==
    ASSUME IInv, TypeOK', RemoveDoomed,
           NEW n \in DOMAIN backups, At(n, "remove"),
           \A d \in backups[n].doomed : Emptier(backups[d]) = {}, Becomes(n, To(n, "ended"))
    PROVE  IInv'
  <1> USE NothingIsNoSet DEF IInv
  <1>0. Save
    BY DEF Save
  <1>1. UNCHANGED <<play, db, log, blobs, kept, restoring, clock>>
    BY <1>0, SaveLeaves DEF RemoveDoomed
  <1>2. PICK b : b = To(n, "ended")
    OBVIOUS
  <1>3. /\ b \in Directories /\ b.at = "ended" /\ b.manifest = backups[n].manifest
        /\ b.doomed = backups[n].doomed
        /\ b.whole = backups[n].whole /\ b.began = backups[n].began /\ b.db = backups[n].db
        /\ b.blobs = backups[n].blobs
    BY <1>2, DirectoryAt DEF To, Directories, TypeOK
  <1>4. /\ DOMAIN backups' = DOMAIN backups /\ backups'[n] = b
        /\ \A m \in DOMAIN backups : m # n => backups'[m] = backups[m]
    BY <1>2, <1>3, Becoming DEF TypeOK
  <1>5. CopyRuns'
    BY <1>1, <1>3, <1>4, OneCopyRuns DEF At, Copying
  <1>6. Manifested'
    BY <1>1, <1>3, <1>4, ManifestedQuiet
  <1>7. RestoreSource'
    <2>1. backups[n].at # "ended"
      BY DEF At
    <2> QED  BY <1>1, <1>3, <1>4, <2>1, SourceIsLeft
  <1>8. \A m \in Complete : m \notin backups[n].doomed
    <2> SUFFICES ASSUME NEW m \in Complete, m \in backups[n].doomed
                 PROVE  FALSE
      OBVIOUS
    <2>1. backups[m] \in Directories /\ backups[m].manifest # Nothing
      BY DirectoryAt DEF Complete, TypeOK
    <2>2. [backups[m] EXCEPT !.manifest = Nothing] # backups[m]
      BY <2>1 DEF Directories
    <2> QED  BY <2>2 DEF Emptier
  <1>9. PruneRuns'
    <2>1. /\ Complete' = Complete
          /\ \A m \in DOMAIN backups :
                IsNewest(m)' = IsNewest(m) /\ DrillPasses(backups[m])' = DrillPasses(backups[m])
      BY <1>3, <1>4, SameVault
    <2>2. ASSUME NEW m \in DOMAIN backups, NEW d \in backups'[m].doomed
          PROVE  /\ d \in DOMAIN backups /\ backups'[d].at \in {"prune", "remove", "ended"}
                 /\ ~IsNewest(d)' /\ play.keep > 0
      <3>1. /\ d \in DOMAIN backups /\ backups[d].at \in {"prune", "remove", "ended"}
            /\ ~IsNewest(d) /\ play.keep > 0
        BY <1>3, <1>4 DEF PruneRuns
      <3> QED  BY <1>3, <1>4, <2>1, <3>1
    <2>3. ASSUME NEW m \in DOMAIN backups, IsNewest(m)'
          PROVE  DrillPasses(backups[m])'
      BY <2>1, <2>3 DEF PruneRuns
    <2>4. ASSUME NEW m \in Complete, ~DrillPasses(backups[m])'
          PROVE  /\ play.keep > 0
                 /\ \/ play.crashes > 0
                    \/ \E x \in DOMAIN backups : At(x, "remove")' /\ m \in backups'[x].doomed
      <3>1. m \in DOMAIN backups
        BY DEF Complete
      <3>2. /\ play.keep > 0
            /\ \/ play.crashes > 0
               \/ \E x \in DOMAIN backups : At(x, "remove") /\ m \in backups[x].doomed
        BY <2>1, <2>4, <3>1 DEF PruneRuns
      <3> QED  BY <1>4, <1>8, <3>2 DEF At
    <2> QED  BY <1>1, <1>4, <2>1, <2>2, <2>3, <2>4 DEF PruneRuns
  <1> QED  BY <1>0, <1>5, <1>6, <1>7, <1>9, SaveLeavesLive

LEMMA SaveKeepsAll ==
    ASSUME IInv, TypeOK', Save
    PROVE  IInv'
  <1>1. CASE RemoveDoomed
    <2>1. PICK n \in DOMAIN backups :
            /\ At(n, "remove")
            /\ \/ \E d \in backups[n].doomed : \E b \in Emptier(backups[d]) : Becomes(d, b)
               \/ /\ \A d \in backups[n].doomed : Emptier(backups[d]) = {}
                  /\ Becomes(n, To(n, "ended"))
      BY <1>1 DEF RemoveDoomed
    <2> QED  BY <1>1, <2>1, RemovalKeepsAll, PrunedKeepsAll
  <1> QED  BY <1>1, BeginBackupKeepsAll, CopyDatabaseKeepsAll, ListBlobsKeepsAll, CopyBlobKeepsAll,
              WriteManifestKeepsAll, PruneKeepsAll DEF Save

LEMMA InitIsSound == Init => IInv
  <1> SUFFICES ASSUME Init
               PROVE  IInv
    OBVIOUS
  <1>1. TypeOK
    BY TypeInit
  <1>2. /\ db = {} /\ log = Nothing /\ blobs = {} /\ inhand = {} /\ kept = {}
        /\ restoring = Nothing /\ DOMAIN backups = {} /\ Opens(db)
    BY NothingIsNoSet DEF Init, Pictures
  <1>3. ServerRuns /\ LogRuns /\ RestoreRuns /\ RestoreSource /\ Safe
    BY <1>2 DEF ServerRuns, LogRuns, RestoreRuns, RestoreSource, Safe
  <1>4. CopyRuns /\ Manifested /\ PruneRuns
    BY <1>2 DEF CopyRuns, Manifested, PruneRuns, Complete
  <1> QED  BY <1>1, <1>3, <1>4 DEF IInv

LEMMA StepIsSound == IInv /\ [Next]_vars => IInv'
  <1> SUFFICES ASSUME IInv, [Next]_vars
               PROVE  IInv'
    OBVIOUS
  <1>1. CASE Server
    BY <1>1, TypeServer, ServerKeepsAll DEF IInv
  <1>2. CASE Save
    BY <1>2, TypeSave, SaveKeepsAll DEF IInv
  <1>3. CASE Restore
    BY <1>3, TypeRestore, RestoreKeepsAll DEF IInv
  <1>4. CASE Crash
    BY <1>4, TypeCrash, CrashKeepsAll DEF IInv
  <1>5. CASE UNCHANGED vars
    <2>1. UNCHANGED <<play, db, log, blobs, up, inhand, filed, kept, backups, clock, restoring, aside,
                      crashes>>
      BY <1>5 DEF vars, live, server, vault
    <2>2. TypeOK' /\ ServerRuns' /\ LogRuns' /\ RestoreRuns'
      BY <2>1 DEF IInv, TypeOK, ServerRuns, LogRuns, RestoreRuns, Stored, Restoring, Can
    <2>3. RestoreSource' /\ CopyRuns'
      BY <2>1 DEF IInv, RestoreSource, CopyRuns, DrillPasses, Verified, At, Copying, Rows, Stored, Can
    <2>4. Manifested' /\ PruneRuns'
      BY <2>1 DEF IInv, Manifested, PruneRuns, Complete, IsNewest, Newer, DrillPasses, Verified, At
    <2>5. Safe'
      BY <2>1 DEF IInv, Safe, Rows, Stored, Restoring, Can, RowAside, RowBefore, BlobAside
    <2> QED  BY <2>2, <2>3, <2>4, <2>5 DEF IInv
  <1> QED  BY <1>1, <1>2, <1>3, <1>4, <1>5 DEF Next

LEMMA SoundAlways == Spec => []IInv
  BY InitIsSound, StepIsSound, PTL DEF Spec

LEMMA SoundMeansKept ==
    ASSUME IInv
    PROVE  NothingKeptIsLost
  <1>1. ADrillProvesTheBackup
    <2> SUFFICES ASSUME NEW n \in DOMAIN backups, DrillPasses(backups[n]), backups[n].whole
                 PROVE  /\ backups[n].db \subseteq backups[n].blobs
                        /\ backups[n].began \subseteq backups[n].db
      BY DEF ADrillProvesTheBackup
    <2>1. n \in Complete
      BY DEF DrillPasses, Verified, Complete
    <2> QED  BY <2>1 DEF DrillPasses, Verified, IInv, Manifested
  <1>2. TheNewestCanBeRestored
    BY DEF IInv, PruneRuns, TheNewestCanBeRestored
  <1>3. NothingLiveIsLost
    BY DEF IInv, Safe, NothingLiveIsLost, RowAside, BlobAside
  <1> QED  BY <1>1, <1>2, <1>3 DEF NothingKeptIsLost

(* In every play in which the tools are used as they should be, whatever    *)
(* the numbers of photographs, backups and restores: what passes a drill    *)
(* holds its rows with their photographs, the newest backup passes one, and *)
(* what was saved and not deleted is live or aside.                         *)
THEOREM BackupsKeep == Spec => []NothingKeptIsLost
  BY SoundAlways, SoundMeansKept, PTL

(* A restore that comes to its end leaves its backup's rows, and with them  *)
(* each photograph they name if the backup was taken of a whole product.    *)
THEOREM RestoresAreWhole == Spec => ARestoreIsTheBackup
  <1>1. ASSUME IInv, [Next]_vars,
               restoring # Nothing, restoring' = Nothing, crashes' = crashes
        PROVE  /\ Rows' = backups[restoring.from].db
               /\ backups[restoring.from].whole => Rows' \subseteq blobs'
    <2>0. ADrillProvesTheBackup
      BY <1>1, SoundMeansKept DEF NothingKeptIsLost
    <2> USE DEF IInv
    <2>1. CopyTree
      <3>1. ~Server /\ ~Save /\ ~UNCHANGED vars
        BY <1>1, ServerLeaves, SaveLeaves DEF vars
      <3>2. ~Crash
        BY <1>1 DEF Crash, TypeOK
      <3>3. ~BeginRestore
        BY <1>1 DEF BeginRestore
      <3>4. ~MoveDatabase /\ ~MoveLog /\ ~MoveBlobs /\ ~CopyBack
        BY <1>1, GoingOn DEF MoveDatabase, MoveLog, MoveBlobs, CopyBack
      <3>5. ~CopiedBack
        BY <1>1, CopiedBackGoesOn
      <3> QED  BY <1>1, <3>1, <3>2, <3>3, <3>4, <3>5 DEF Next, Restore
    <2>2. /\ restoring.at = "tree" /\ log = Nothing /\ db = backups[restoring.from].db
          /\ backups[restoring.from].blobs \subseteq blobs \cup restoring.todo
      BY <1>1, <2>1 DEF CopyTree, Restoring, RestoreSource, LogRuns
    <2>3. restoring.todo = {} /\ UNCHANGED <<db, log, blobs>>
      BY <1>1, <2>1, TreeGoesOn DEF CopyTree
    <2>4. Rows' = backups[restoring.from].db
      BY <1>1, <2>2, <2>3, RestoredIsPictures, NothingIsNoSet DEF Rows, Content
    <2>5. ASSUME backups[restoring.from].whole
          PROVE  backups[restoring.from].db \subseteq backups[restoring.from].blobs
      BY <1>1, <2>0, <2>5 DEF ADrillProvesTheBackup, RestoreSource
    <2> QED  BY <2>2, <2>3, <2>4, <2>5
  <1> QED  BY <1>1, SoundAlways, PTL DEF ARestoreIsTheBackup, Spec
=============================================================================
