------------------------------ MODULE MCBackup ------------------------------
(***************************************************************************)
(* Backups beside a busy server, two at once, pruned; and restores, of an   *)
(* older backup too, cut short and begun again.                             *)
(***************************************************************************)
EXTENDS Backup

Play(parts, keep, crash) == [parts |-> parts, keep |-> keep, crashes |-> crash]

BackupPlays ==
    {Play({"backup", "overlap"}, 1, 1),
     Play({"backup", "delete"}, 1, 1),
     Play({"backup", "restore", "delete"}, 0, 0),
     Play({"backup", "restore", "by name"}, 0, 1),
     Play({"backup", "restore", "reader"}, 0, 0),
     Play({"backup", "restore", "at once"}, 0, 0)}
=============================================================================
