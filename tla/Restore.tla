------------------------------- MODULE Restore -------------------------------
(***************************************************************************)
(* Backup and restore of the database file: sqlite_backup,                 *)
(* restore_sqlite_backup and the command line around them, next to         *)
(* processes that write, checkpoint, stop or are lost.                     *)
(*                                                                         *)
(* The database is in WAL mode: a commit goes to the -wal file beside the  *)
(* main file, a checkpoint moves it over, and the last process that closes *)
(* the database removes -wal and -shm; a process that is lost does not.    *)
(* An opener sees main and -wal together.  The model keeps the operator's  *)
(* rule (OPERATIONS.md: "Stop the web and worker first") as far as no      *)
(* process starts while a restore runs; one may be running when it begins, *)
(* and any may have been lost before.                                      *)
(*                                                                         *)
(* A content is the set of writes it holds.  A file that _validate_backup_ *)
(* file refuses (corrupt, no application schema, newer, a gap) is Damaged. *)
(***************************************************************************)
EXTENDS Naturals

CONSTANTS
  Names,         \* paths of backup files
  MaxWrites,     \* bound: transactions committed by the application
  MaxSeconds,    \* bound: the clock that names rollback copies
  Absent, Damaged, NoFile

Writes  == 0 .. MaxWrites       \* 0 was written to another database
Seconds == 0 .. MaxSeconds
Files   == Names \cup Seconds   \* backups, and rollback copies by their second
Foreign == {0}

ASSUME RestoreAssumption ==
  /\ MaxWrites \in Nat /\ MaxSeconds \in Nat
  /\ Names \cap Nat = {} /\ NoFile \notin Files
  /\ Absent # Damaged /\ \A c \in SUBSET Writes : c # Absent /\ c # Damaged

VARIABLES
  main,       \* content of the destination's main file
  wal,        \* commits in its -wal file that main lacks
  sidecars,   \* whether -wal and -shm exist
  running,    \* whether a process has the database open
  written,    \* transactions committed so far
  files,      \* content of each other file
  second,     \* the current time in seconds
  step,       \* what the restore command does next
  source,     \* the backup it restores
  temporary,  \* the temporary file
  had         \* history: every content this or a backed-up database has had

database    == <<main, wal, sidecars, running, written>>
command     == <<step, source, temporary>>
restoreVars == <<database, files, second, command, had>>

IsDatabase(c) == c \notin {Absent, Damaged}

\* What whoever opens the destination finds.
Content == IF IsDatabase(main) THEN main \cup wal ELSE main

-----------------------------------------------------------------------------
(* The application.                                                        *)

\* Create an empty database, or open the one that is there.
OpenDatabase ==
  /\ ~ running /\ step = "idle"
  /\ main' = IF main = Absent THEN {} ELSE main
  /\ running' = TRUE /\ sidecars' = TRUE
  /\ had' = had \cup {main' \cup wal}
  /\ UNCHANGED <<wal, written, files, second, command>>

Write ==
  /\ running /\ written < MaxWrites
  /\ written' = written + 1
  /\ wal' = wal \cup {written'}
  /\ had' = had \cup {main \cup wal'}
  /\ UNCHANGED <<main, sidecars, running, files, second, command>>

Checkpoint ==
  /\ running
  /\ main' = main \cup wal /\ wal' = {}
  /\ UNCHANGED <<sidecars, running, written, files, second, command, had>>

CloseDatabase ==
  /\ running
  /\ main' = main \cup wal /\ wal' = {}
  /\ running' = FALSE /\ sidecars' = FALSE
  /\ UNCHANGED <<written, files, second, command, had>>

\* The processes are lost: their sidecars, and the commits in them, stay.
Lose ==
  /\ running
  /\ running' = FALSE
  /\ UNCHANGED <<main, wal, sidecars, written, files, second, command, had>>

\* SQLite's backup API copies what an opener sees, in one transaction of the
\* target; a backup that is lost leaves a file it has just created empty.
Backup(f) ==
  /\ running
  /\ \E c \in {Content, IF files[f] = Absent THEN Damaged ELSE files[f]} :
       files' = [files EXCEPT ![f] = c]
  /\ UNCHANGED <<database, second, command, had>>

\* A backup is moved, or copied over, by hand, at any time.
PutBackup(f) ==
  /\ \E c \in {Absent, Damaged, Foreign} :
       /\ files' = [files EXCEPT ![f] = c]
       /\ had' = IF IsDatabase(c) THEN had \cup {c} ELSE had
  /\ UNCHANGED <<database, second, command>>

-----------------------------------------------------------------------------
(* restore_sqlite_backup with force, step by step.                         *)

End == step' = "idle" /\ source' = NoFile /\ temporary' = Absent

\* The backup is a file and passes the checks; a destination that exists is
\* tried and saved first.
ValidateSource(f) ==
  /\ step = "idle" /\ IsDatabase(files[f])
  /\ source' = f
  /\ step' = IF main = Absent THEN "copy" ELSE "stopped"
  /\ UNCHANGED <<database, files, second, temporary, had>>

\* Mutant: a checkpoint that succeeds is taken for a stopped application.
RequireCheckpointOnly ==
  /\ step = "stopped"
  /\ main' = main \cup wal /\ wal' = {}
  /\ sidecars' = running
  /\ step' = "save"
  /\ UNCHANGED <<running, written, files, second, source, temporary, had>>

\* Opening the database recovers a lost process's WAL; the checkpoint empties
\* it, unless it is busy, and closing removes the sidecars, unless another
\* process has the database open.
RequireStoppedDatabase ==
  /\ step = "stopped"
  /\ \/ main' = main \cup wal /\ wal' = {}
     \/ running /\ UNCHANGED <<main, wal>>
  /\ sidecars' = running
  /\ IF running THEN End ELSE step' = "save" /\ UNCHANGED <<source, temporary>>
  /\ UNCHANGED <<running, written, files, second, had>>

\* The rollback copy is named by the second.
SaveRollback ==
  /\ step = "save"
  /\ files' = [files EXCEPT ![second] = Content]
  /\ step' = "copy"
  /\ UNCHANGED <<database, second, source, temporary, had>>

\* SQLite would create a source that has disappeared, as an empty database.
CopySource ==
  /\ step = "copy"
  /\ temporary' = IF files[source] = Absent THEN Damaged ELSE files[source]
  /\ step' = "validate"
  /\ UNCHANGED <<database, files, second, source, had>>

\* Mutant: the copy of a valid file is taken for valid.
ValidateTemporaryNever ==
  /\ step = "validate"
  /\ step' = "replace"
  /\ UNCHANGED <<database, files, second, source, temporary, had>>

ValidateTemporary ==
  /\ step = "validate"
  /\ IF IsDatabase(temporary)
       THEN step' = "replace" /\ UNCHANGED <<source, temporary>>
       ELSE End
  /\ UNCHANGED <<database, files, second, had>>

\* os.replace exchanges the main file only.
ReplaceDestination ==
  /\ step = "replace"
  /\ main' = temporary
  /\ End
  /\ UNCHANGED <<wal, sidecars, running, written, files, second, had>>

\* The command is lost at any step: it may have had the destination open, and
\* may have created the rollback copy without filling it.  The temporary file
\* is left under a name that is never used again.
LoseRestore ==
  /\ step # "idle"
  /\ sidecars' \in {sidecars, sidecars \/ step \in {"stopped", "save"}}
  /\ files' \in {files} \cup
       (IF step = "save" /\ files[second] = Absent
          THEN {[files EXCEPT ![second] = Damaged]} ELSE {})
  /\ End
  /\ UNCHANGED <<main, wal, running, written, second, had>>

RestoreTick ==
  /\ second < MaxSeconds
  /\ second' = second + 1
  /\ UNCHANGED <<database, files, command, had>>

-----------------------------------------------------------------------------
RestoreInit ==
  /\ main = Absent /\ wal = {} /\ sidecars = FALSE
  /\ running = FALSE /\ written = 0
  /\ files = [f \in Files |-> Absent]
  /\ second = 0
  /\ step = "idle" /\ source = NoFile /\ temporary = Absent
  /\ had = {}

RestoreDatabase ==
  \/ \E f \in Files : ValidateSource(f)
  \/ RequireStoppedDatabase \/ SaveRollback \/ CopySource
  \/ ValidateTemporary \/ ReplaceDestination \/ LoseRestore

Application == OpenDatabase \/ Write \/ Checkpoint \/ CloseDatabase \/ Lose

RestoreNext ==
  \/ Application \/ RestoreDatabase \/ RestoreTick
  \/ \E f \in Names : Backup(f) \/ PutBackup(f)

RestoreSpec == RestoreInit /\ [][RestoreNext]_restoreVars

-----------------------------------------------------------------------------
(* Properties.                                                             *)

RestoreTypeOK ==
  /\ main \in {Absent} \cup SUBSET Writes
  /\ wal \subseteq Writes
  /\ sidecars \in BOOLEAN /\ running \in BOOLEAN
  /\ written \in Writes
  /\ files \in [Files -> {Absent, Damaged} \cup SUBSET Writes]
  /\ second \in Seconds
  /\ step \in {"idle", "stopped", "save", "copy", "validate", "replace"}
  /\ source \in Files \cup {NoFile} /\ (step # "idle" => source \in Files)
  /\ temporary \in {Absent, Damaged} \cup SUBSET Writes
  /\ had \subseteq SUBSET Writes

\* Why: commits live in sidecars only, a running process has them, and once
\* the command found the destination closed it stays so, with an empty WAL.
RestoreInv ==
  /\ wal # {} => sidecars /\ main # Absent
  /\ running => sidecars /\ main # Absent
  /\ step \in {"save", "copy", "validate", "replace"} => ~ running /\ wal = {}
  /\ step \in {"stopped", "save"} => main # Absent
  /\ step = "replace" => IsDatabase(temporary)

\* Every whole content, of the database or of a file, is one that some database
\* has had.
HadBefore ==
  /\ IsDatabase(main) => Content \in had
  /\ \A f \in Files : IsDatabase(files[f]) => files[f] \in had
  /\ IsDatabase(temporary) => temporary \in had

\* Past the rollback copy, what an opener would find is in one.
RollbackSaved ==
  step \in {"copy", "validate", "replace"} /\ main # Absent
    => \E t \in Seconds : files[t] = Content

RestoreSafe == RestoreTypeOK /\ RestoreInv /\ HadBefore

\* Whatever is lost, busy, damaged or replaced meanwhile, an opener finds the
\* old content or a whole one that some database has had, never a mixture with
\* a WAL that is not its own.
Contents == INSTANCE DatabaseContents
              WITH content <- Content, NoDatabase <- Absent

ContentsAreWhole == Contents!Spec

\* A restore never loses a commit: what it takes from the database, including
\* what a lost process left in the WAL, is in a rollback copy.
NothingIsLost ==
  [][Content # Content' /\ Content # Absent /\ ~ Content \subseteq Content'
       => \E t \in Seconds : files'[t] = Content]_restoreVars

=============================================================================
