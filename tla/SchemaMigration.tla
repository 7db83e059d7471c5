--------------------------- MODULE SchemaMigration ---------------------------
(***************************************************************************)
(* Start-up of the processes that share one database file: the migration   *)
(* ledger, the creation or adoption of the version-1 tables, the append-   *)
(* only triggers and the provider rows.                                    *)
(*                                                                         *)
(* migrate runs in engine.begin(), but pysqlite opens a transaction at the *)
(* first INSERT, UPDATE or DELETE only: every CREATE before the ledger's   *)
(* INSERT commits on its own, and every SELECT sees the latest commit.  So *)
(* each CREATE and each read that decides something is an action here, and *)
(* the ledger's INSERT, the checks after it and its COMMIT are one.        *)
(*                                                                         *)
(* A table and its indexes are created by one action: the last table of    *)
(* the dependency order has no index, so a table without its indexes is    *)
(* never the last one missing.                                             *)
(***************************************************************************)
EXTENDS Naturals, FiniteSets

CONSTANTS
  Processes,     \* web, worker and command-line processes on one file
  TableCount,    \* REQUIRED_V1_TABLES, numbered in the order create_all uses
  MaxCrashes     \* bound: processes lost inside their start-up

Tables         == 1 .. TableCount
CurrentVersion == 1
Newer          == CurrentVersion + 1

ASSUME CountsAssumption == TableCount \in Nat \ {0} /\ MaxCrashes \in Nat

VARIABLES
  tables,     \* the required tables that exist
  triggers,   \* whether the append-only triggers exist
  history,    \* versions in schema_migrations; the ledger itself is CREATE IF NOT EXISTS
  seeded,     \* whether the provider rows exist
  pc,         \* what each process does next
  todo,       \* the tables create_all has found missing, for each process
  crashes     \* processes lost so far

schema == <<tables, triggers, history, seeded>>
vars   == <<schema, pc, todo, crashes>>

Starting == {"ledger", "inspect", "adopt", "plan", "create", "triggers",
             "record", "verify", "seed", "insert"}
Phase    == Starting \cup {"running", "exited"}

Goto(p, phase) == pc' = [pc EXCEPT ![p] = phase]
At(p, phase)   == pc[p] = phase

\* An exception leaves create_app or the command line: the process exits.
Refuse(p) == Goto(p, "exited")

-----------------------------------------------------------------------------
(* migrate.                                                                *)

\* Mutant: the newest version this build knows counts as a newer one.
KnownHistoryBelow == history = {}

\* A history this build does not know, or one with a gap, is refused.
KnownHistory == history \in {{}, {CurrentVersion}}

\* Mutant: the history is not validated.
ReadLedgerOfAnyVersion(p) ==
  /\ At(p, "ledger")
  /\ Goto(p, IF history = {} THEN "inspect" ELSE "verify")
  /\ UNCHANGED <<schema, todo, crashes>>

ReadLedger(p) ==
  /\ At(p, "ledger")
  /\ IF ~ KnownHistory THEN Refuse(p)
     ELSE Goto(p, IF history = {} THEN "inspect" ELSE "verify")
  /\ UNCHANGED <<schema, todo, crashes>>

HasLegacyTables(p) ==
  /\ At(p, "inspect")
  /\ Goto(p, IF tables # {} THEN "adopt" ELSE "plan")
  /\ UNCHANGED <<schema, todo, crashes>>

\* Tables without a ledger row are taken for a 0.1.0 database if they are all
\* there, and refused otherwise.
AdoptLegacy(p) ==
  /\ At(p, "adopt")
  /\ IF tables = Tables THEN Goto(p, "triggers") ELSE Refuse(p)
  /\ UNCHANGED <<schema, todo, crashes>>

\* create_all first asks which tables exist ...
PlanTables(p) ==
  /\ At(p, "plan")
  /\ todo' = [todo EXCEPT ![p] = Tables \ tables]
  /\ Goto(p, "create")
  /\ UNCHANGED <<schema, crashes>>

\* Mutant: each process creates the tables in an order of its own.
IsNextInAnyOrder(t, set) == t \in set

\* create_all goes through the tables in the order of their foreign keys.
IsNext(t, set) == t \in set /\ \A u \in set : t <= u

\* ... and then creates the missing ones in order.  CREATE TABLE fails for a
\* table that another process has created since.
CreateTable(p, t) ==
  /\ At(p, "create") /\ IsNext(t, todo[p])
  /\ IF t \in tables
       THEN Refuse(p) /\ UNCHANGED <<tables, todo>>
       ELSE /\ tables' = tables \cup {t}
            /\ todo' = [todo EXCEPT ![p] = @ \ {t}]
            /\ UNCHANGED pc
  /\ UNCHANGED <<triggers, history, seeded, crashes>>

TablesCreated(p) ==
  /\ At(p, "create") /\ todo[p] = {}
  /\ Goto(p, "triggers")
  /\ UNCHANGED <<schema, todo, crashes>>

InstallTriggers(p) ==
  /\ At(p, "triggers")
  /\ triggers' = TRUE
  /\ Goto(p, "record")
  /\ UNCHANGED <<tables, history, seeded, todo, crashes>>

\* The primary key of the ledger refuses a version recorded since; a missing
\* table rolls the insert back.
RecordMigration(p) ==
  /\ At(p, "record")
  /\ IF CurrentVersion \in history \/ tables # Tables
       THEN Refuse(p) /\ UNCHANGED history
       ELSE Goto(p, "seed") /\ history' = history \cup {CurrentVersion}
  /\ UNCHANGED <<tables, triggers, seeded, todo, crashes>>

\* Mutant: the triggers of a recorded database are not repaired.
VerifyTablesOnly(p) ==
  /\ At(p, "verify")
  /\ IF tables # Tables THEN Refuse(p) ELSE Goto(p, "seed")
  /\ UNCHANGED <<schema, todo, crashes>>

\* A recorded database is checked and its triggers are repaired.
VerifyTables(p) ==
  /\ At(p, "verify")
  /\ IF tables # Tables
       THEN Refuse(p) /\ UNCHANGED triggers
       ELSE Goto(p, "seed") /\ triggers' = TRUE
  /\ UNCHANGED <<tables, history, seeded, todo, crashes>>

-----------------------------------------------------------------------------
(* _seed_providers: one read, then one transaction.                        *)

ReadProviders(p) ==
  /\ At(p, "seed")
  /\ Goto(p, IF seeded THEN "running" ELSE "insert")
  /\ UNCHANGED <<schema, todo, crashes>>

\* Provider.kind is unique: rows inserted since fail the whole transaction.
InsertProviders(p) ==
  /\ At(p, "insert")
  /\ IF seeded THEN Refuse(p) ELSE Goto(p, "running")
  /\ seeded' = TRUE
  /\ UNCHANGED <<tables, triggers, history, todo, crashes>>

-----------------------------------------------------------------------------
(* The process is lost inside its start-up, stopped, or started again.     *)

Crash(p) ==
  /\ pc[p] \in Starting
  /\ crashes < MaxCrashes
  /\ crashes' = crashes + 1
  /\ Goto(p, "exited")
  /\ UNCHANGED <<schema, todo>>

\* A running process is stopped, for an upgrade or by the operator.
Stop(p) ==
  /\ At(p, "running")
  /\ Goto(p, "exited")
  /\ UNCHANGED <<schema, todo, crashes>>

Restart(p) ==
  /\ At(p, "exited")
  /\ Goto(p, "ledger")
  /\ todo' = [todo EXCEPT ![p] = {}]
  /\ UNCHANGED <<schema, crashes>>

-----------------------------------------------------------------------------
(* The database found at first start: none, one of release 0.1.0 (no       *)
(* ledger; its triggers may have been dropped), a current one, or one of a *)
(* newer release.                                                          *)

Init ==
  /\ \/ tables = {} /\ triggers = FALSE /\ history = {} /\ seeded = FALSE
     \/ tables = Tables /\ triggers \in BOOLEAN /\ seeded = TRUE
        /\ history \in {{}, {CurrentVersion}, {CurrentVersion, Newer}}
  /\ pc = [p \in Processes |-> "exited"]
  /\ todo = [p \in Processes |-> {}]
  /\ crashes = 0

Initialize(p) ==
  \/ ReadLedger(p) \/ HasLegacyTables(p) \/ AdoptLegacy(p)
  \/ PlanTables(p) \/ TablesCreated(p) \/ \E t \in Tables : CreateTable(p, t)
  \/ InstallTriggers(p) \/ RecordMigration(p) \/ VerifyTables(p)
  \/ ReadProviders(p) \/ InsertProviders(p)

Next == \E p \in Processes : Initialize(p) \/ Crash(p) \/ Stop(p) \/ Restart(p)

Spec == Init /\ [][Next]_vars

\* Start-up never blocks for ever (busy_timeout), and the container runtime
\* starts an exited process again.
Fairness == \A p \in Processes : WF_vars(Initialize(p)) /\ WF_vars(Restart(p))

FairSpec == Spec /\ Fairness

-----------------------------------------------------------------------------
(* Properties.                                                             *)

TypeOK ==
  /\ tables \subseteq Tables
  /\ triggers \in BOOLEAN /\ seeded \in BOOLEAN
  /\ history \subseteq {CurrentVersion, Newer}
  /\ pc \in [Processes -> Phase]
  /\ todo \in [Processes -> SUBSET Tables]
  /\ crashes \in 0 .. MaxCrashes

\* A process serves only a database of its own version with every table, the
\* append-only triggers and the provider rows, whichever process made them.
RunningIsReady ==
  \A p \in Processes : pc[p] = "running" =>
    tables = Tables /\ triggers /\ seeded /\ history = {CurrentVersion}

\* A database of a newer release is left as it was found.
NewerUntouched == [][(Newer \in history) => UNCHANGED schema]_vars

\* Why: what each point of the start-up may rely on from there on, since
\* nothing is ever dropped and a newer history is refused at the first read.
StartupInv ==
  /\ Newer \in history => CurrentVersion \in history
  /\ \A p \in Processes :
       /\ pc[p] \in Starting \cup {"running"} /\ pc[p] # "ledger" => Newer \notin history
       /\ pc[p] = "create" => Tables \ todo[p] \subseteq tables
       /\ pc[p] \in {"triggers", "record", "seed", "insert", "running"} => tables = Tables
       /\ pc[p] \in {"record", "seed", "insert", "running"} => triggers
       /\ pc[p] \in {"verify", "seed", "insert", "running"} => history = {CurrentVersion}
       /\ pc[p] = "running" => seeded

\* Why concurrent first starts cannot wedge each other: while tables are
\* missing and no process was lost, some process is creating exactly the
\* missing ones, so that the others may fail and start again.
SomeoneCreates ==
  crashes = 0 /\ tables # {} /\ tables # Tables =>
    \E p \in Processes : pc[p] = "create" /\ todo[p] = Tables \ tables

\* ARCHITECTURE.md: "Startup applies missing migrations in ascending order
\* inside transactions": with no process inside it, a migration has happened
\* entirely or not at all.
AllOrNothing ==
  (\A p \in Processes : pc[p] \notin Starting) => tables \in {{}, Tables}

\* However first starts interleave, every process ends up serving, unless the
\* database is of a newer release or a process is lost inside its start-up.
EveryoneStarts ==
  \A p \in Processes :
    pc[p] # "running" ~> pc[p] = "running" \/ Newer \in history \/ crashes > 0

=============================================================================
