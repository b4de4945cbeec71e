----------------------------- MODULE TaskRestore -----------------------------
(***************************************************************************)
(* TaskScheduler composed with the backup commands of src-tauri/src/db.rs: *)
(* create_backup_archive copies the rows, restore_backup_archive waits for *)
(* the scheduler thread to stop, replaces the database file by the copy    *)
(* and starts a new scheduler on it (the Start action).  Worker threads    *)
(* are not joined, and each of their writes opens the database by its path.*)
(***************************************************************************)
EXTENDS TaskScheduler

VARIABLE backup   \* the rows in the archive, or NoBackup

NoBackup == <<>>

create_backup_archive ==
  /\ cmd = NoCmd
  /\ backup' = rowVars
  /\ UNCHANGED vars

restore_backup_archive ==
  /\ pc \in {"stopped", "off"}
  /\ cmd = NoCmd
  /\ backup # NoBackup
  /\ state' = backup[1]
  /\ attempt' = backup[2]
  /\ cancel_requested' = backup[3]
  /\ next_run_at' = backup[4]
  /\ pc' = "off"
  /\ wanted' = [t \in Tasks |-> FALSE]
  /\ UNCHANGED <<shutdown, active, fenced, worker, finished, todo, plan, slots,
                 nested, cmd, faults, backup>>

RestoreInit == Init /\ backup = NoBackup

RestoreNext ==
  \/ Next /\ UNCHANGED backup
  \/ create_backup_archive
  \/ restore_backup_archive

RestoreSpec == RestoreInit /\ [][RestoreNext]_<<vars, backup>>

\* A worker thread that outlives an orderly shutdown is fenced for good: once
\* it has lost its row it never regains it.
ShutdownFencesStaleHandler == LostClaimStaysLost
=============================================================================
