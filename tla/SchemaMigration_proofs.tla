----------------------- MODULE SchemaMigration_proofs -----------------------
(* Proofs about SchemaMigration, for any number of processes and tables.   *)
EXTENDS SchemaMigration, TLAPS

-----------------------------------------------------------------------------
(* Types.                                                                  *)

\* The variables keep their types.
THEOREM StartupTypes == Spec => []TypeOK
<1>1. Init => TypeOK
  <2> SUFFICES ASSUME Init PROVE TypeOK
    OBVIOUS
  <2>1. history \subseteq {CurrentVersion, Newer}
    BY DEF Init
  <2>2. tables \subseteq Tables /\ triggers \in BOOLEAN /\ seeded \in BOOLEAN
    BY DEF Init
  <2>3. pc \in [Processes -> Phase] /\ todo \in [Processes -> SUBSET Tables]
    BY DEF Init, Phase
  <2>4. crashes \in 0 .. MaxCrashes
    BY CountsAssumption DEF Init
  <2>5. QED
    BY <2>1, <2>2, <2>3, <2>4 DEF TypeOK
<1>2. TypeOK /\ [Next]_vars => TypeOK'
  <2> SUFFICES ASSUME TypeOK, [Next]_vars
               PROVE  TypeOK'
    OBVIOUS
  <2> USE DEF TypeOK, Phase, Starting, Goto, At, Refuse
  <2>1. ASSUME NEW p \in Processes, Initialize(p)
        PROVE  TypeOK'
    <3>1. CASE ReadLedger(p)
      BY <3>1 DEF ReadLedger, schema
    <3>2. CASE HasLegacyTables(p)
      BY <3>2 DEF HasLegacyTables, schema
    <3>3. CASE AdoptLegacy(p)
      BY <3>3 DEF AdoptLegacy, schema
    <3>4. CASE PlanTables(p)
      BY <3>4 DEF PlanTables, schema
    <3>5. CASE TablesCreated(p)
      BY <3>5 DEF TablesCreated, schema
    <3>6. ASSUME NEW t \in Tables, CreateTable(p, t)
          PROVE  TypeOK'
      BY <3>6 DEF CreateTable
    <3>7. CASE InstallTriggers(p)
      BY <3>7 DEF InstallTriggers
    <3>8. CASE RecordMigration(p)
      BY <3>8 DEF RecordMigration
    <3>9. CASE VerifyTables(p)
      BY <3>9 DEF VerifyTables
    <3>10. CASE ReadProviders(p)
      BY <3>10 DEF ReadProviders, schema
    <3>11. CASE InsertProviders(p)
      BY <3>11 DEF InsertProviders
    <3>12. QED
      BY <2>1, <3>1, <3>2, <3>3, <3>4, <3>5, <3>6, <3>7, <3>8, <3>9, <3>10, <3>11
      DEF Initialize
  <2>2. ASSUME NEW p \in Processes, Crash(p)
        PROVE  TypeOK'
    BY <2>2, CountsAssumption DEF Crash, schema
  <2>3. ASSUME NEW p \in Processes, Stop(p)
        PROVE  TypeOK'
    BY <2>3 DEF Stop, schema
  <2>4. ASSUME NEW p \in Processes, Restart(p)
        PROVE  TypeOK'
    BY <2>4 DEF Restart, schema
  <2>5. CASE UNCHANGED vars
    BY <2>5 DEF vars, schema
  <2>6. QED
    BY <2>1, <2>2, <2>3, <2>4, <2>5 DEF Next
<1>3. QED
  BY <1>1, <1>2, PTL DEF Spec

-----------------------------------------------------------------------------
(* What each point of the start-up may rely on.                            *)

\* No step disturbs what another process relies on: tables, triggers,
\* provider rows and recorded versions only grow.
LEMMA StartupStep ==
  TypeOK /\ StartupInv /\ [Next]_vars => StartupInv'
<1> SUFFICES ASSUME TypeOK, StartupInv, [Next]_vars
             PROVE  StartupInv'
  OBVIOUS
<1> USE DEF TypeOK, StartupInv, Phase, Starting, Goto, At, Refuse
<1>0. CurrentVersion # Newer
  BY DEF CurrentVersion, Newer
<1>1. ASSUME NEW p \in Processes, Initialize(p)
      PROVE  StartupInv'
  <2>1. CASE ReadLedger(p)
    BY <1>0, <2>1 DEF ReadLedger, KnownHistory, schema
  <2>2. CASE HasLegacyTables(p)
    BY <2>2 DEF HasLegacyTables, schema
  <2>3. CASE AdoptLegacy(p)
    BY <2>3 DEF AdoptLegacy, schema
  <2>4. CASE PlanTables(p)
    BY <2>4 DEF PlanTables, schema
  <2>5. CASE TablesCreated(p)
    BY <2>5 DEF TablesCreated, schema
  <2>6. ASSUME NEW t \in Tables, CreateTable(p, t)
        PROVE  StartupInv'
    BY <2>6 DEF CreateTable
  <2>7. CASE InstallTriggers(p)
    BY <2>7 DEF InstallTriggers
  <2>8. CASE RecordMigration(p)
    BY <1>0, <2>8 DEF RecordMigration
  <2>9. CASE VerifyTables(p)
    BY <2>9 DEF VerifyTables
  <2>10. CASE ReadProviders(p)
    BY <2>10 DEF ReadProviders, schema
  <2>11. CASE InsertProviders(p)
    BY <2>11 DEF InsertProviders
  <2>12. QED
    BY <1>1, <2>1, <2>2, <2>3, <2>4, <2>5, <2>6, <2>7, <2>8, <2>9, <2>10, <2>11
    DEF Initialize
<1>2. ASSUME NEW p \in Processes, Crash(p) \/ Stop(p)
      PROVE  StartupInv'
  BY <1>2 DEF Crash, Stop, schema
<1>3. ASSUME NEW p \in Processes, Restart(p)
      PROVE  StartupInv'
  BY <1>3 DEF Restart, schema
<1>4. CASE UNCHANGED vars
  BY <1>4 DEF vars, schema
<1>5. QED
  BY <1>1, <1>2, <1>3, <1>4 DEF Next

\* The inductive invariant of the start-up.
THEOREM StartupSafety == Spec => []StartupInv
<1>1. Init => StartupInv
  BY DEF Init, StartupInv, Starting, CurrentVersion, Newer
<1>2. QED
  BY <1>1, StartupStep, StartupTypes, PTL DEF Spec

\* However many processes start, stop and crash on one file, one that serves
\* has a complete database of its own version.
THEOREM ServingIsSafe == Spec => []RunningIsReady
<1>1. StartupInv => RunningIsReady
  BY DEF StartupInv, RunningIsReady, Starting
<1>2. QED
  BY <1>1, StartupSafety, PTL

\* A database of a newer release is never written.
THEOREM NewerReleasesAreSafe == Spec => NewerUntouched
<1>1. TypeOK /\ StartupInv /\ [Next]_vars => [(Newer \in history) => UNCHANGED schema]_vars
  <2> SUFFICES ASSUME TypeOK, StartupInv, Next, Newer \in history
               PROVE  UNCHANGED schema
    BY DEF vars
  <2> USE DEF schema, At, StartupInv, Starting
  <2>1. ASSUME NEW p \in Processes, Initialize(p)
        PROVE  UNCHANGED schema
    <3>1. ReadLedger(p)
      BY <2>1 DEF Initialize, HasLegacyTables, AdoptLegacy, PlanTables, TablesCreated,
                  CreateTable, InstallTriggers, RecordMigration, VerifyTables,
                  ReadProviders, InsertProviders
    <3>2. QED
      BY <3>1 DEF ReadLedger
  <2>2. ASSUME NEW p \in Processes, Crash(p) \/ Stop(p) \/ Restart(p)
        PROVE  UNCHANGED schema
    BY <2>2 DEF Crash, Stop, Restart
  <2>3. QED
    BY <2>1, <2>2 DEF Next
<1>2. QED
  BY <1>1, StartupTypes, StartupSafety, PTL DEF Spec, NewerUntouched

-----------------------------------------------------------------------------
(* Concurrent first starts.                                                *)

\* Tables appear in order, and a process that creates has a final stretch of
\* them left.
CreatedInOrder ==
  /\ \A t \in tables, u \in Tables : u < t => u \in tables
  /\ \A p \in Processes :
       pc[p] = "create" => \A t \in todo[p], u \in Tables : t < u => u \in todo[p]

CreationInv == CreatedInOrder /\ SomeoneCreates

\* Whoever creates a table is then left with exactly the missing ones.
LEMMA CreateTableStep ==
  ASSUME TypeOK, StartupInv, CreationInv,
         NEW p \in Processes, NEW t \in Tables, CreateTable(p, t)
  PROVE  CreationInv'
<1> USE DEF TypeOK, At, Refuse, Goto
<1>0. Tables \subseteq Nat
  BY CountsAssumption DEF Tables
<1>1. /\ pc[p] = "create" /\ t \in todo[p] /\ \A u \in todo[p] : t <= u
      /\ crashes' = crashes
  BY DEF CreateTable, IsNext
<1>2. CASE t \in tables
  <2>1. /\ tables' = tables /\ todo' = todo
        /\ pc' = [pc EXCEPT ![p] = "exited"]
    BY <1>2 DEF CreateTable
  <2>2. CreatedInOrder'
    BY <2>1 DEF CreationInv, CreatedInOrder
  <2>3. ASSUME crashes = 0, tables # {}, tables # Tables
        PROVE  \E q \in Processes : pc'[q] = "create" /\ todo'[q] = Tables \ tables
    <3>1. PICK q \in Processes : pc[q] = "create" /\ todo[q] = Tables \ tables
      BY <2>3 DEF CreationInv, SomeoneCreates
    <3>2. q # p
      BY <1>1, <1>2, <3>1
    <3>3. QED
      BY <2>1, <3>1, <3>2
  <2>4. SomeoneCreates'
    BY <1>1, <2>1, <2>3 DEF SomeoneCreates
  <2>5. QED
    BY <2>2, <2>4 DEF CreationInv
<1>3. CASE t \notin tables
  <2>1. /\ tables' = tables \cup {t} /\ pc' = pc
        /\ todo' = [todo EXCEPT ![p] = @ \ {t}]
    BY <1>3 DEF CreateTable
  <2>2. \A u \in Tables : (u \in tables => u < t) /\ (u < t => u \in tables)
    <3>1. ASSUME NEW u \in Tables, u \in tables
          PROVE  u < t
      BY <1>0, <1>3, <3>1 DEF CreationInv, CreatedInOrder
    <3>2. ASSUME NEW u \in Tables, u < t
          PROVE  u \in tables
      BY <1>0, <1>1, <3>2 DEF StartupInv
    <3>3. QED
      BY <3>1, <3>2
  <2>3. \A u \in Tables : (u \in todo[p] => t <= u) /\ (t <= u => u \in todo[p])
    BY <1>0, <1>1 DEF CreationInv, CreatedInOrder
  <2>4. todo'[p] = Tables \ tables'
    <3>1. todo'[p] = todo[p] \ {t} /\ todo[p] \subseteq Tables
      BY <2>1
    <3>2. ASSUME NEW u \in Tables
          PROVE  /\ u \in todo[p] \ {t} => u \notin tables \cup {t}
                 /\ u \notin tables \cup {t} => u \in todo[p] \ {t}
      BY <1>0, <2>2, <2>3
    <3>3. QED
      BY <2>1, <3>1, <3>2
  <2>5. SomeoneCreates'
    BY <1>1, <2>1, <2>4 DEF SomeoneCreates
  <2>6. \A v \in tables', u \in Tables : u < v => u \in tables'
    BY <1>0, <2>1, <2>2 DEF CreationInv, CreatedInOrder
  <2>7. ASSUME NEW q \in Processes, pc[q] = "create",
               NEW v \in todo'[q], NEW u \in Tables, v < u
        PROVE  u \in todo'[q]
    <3>1. v \in todo[q] /\ u \in todo[q]
      BY <2>1, <2>7 DEF CreationInv, CreatedInOrder
    <3>2. CASE q = p
      <4>1. t <= v /\ v \in Nat /\ u \in Nat /\ t \in Nat
        BY <1>0, <1>1, <3>1, <3>2
      <4>2. u # t
        BY <4>1, <2>7
      <4>3. QED
        BY <2>1, <3>1, <3>2, <4>2
    <3>3. CASE q # p
      BY <2>1, <3>1, <3>3
    <3>4. QED
      BY <3>2, <3>3
  <2>8. QED
    BY <2>1, <2>5, <2>6, <2>7 DEF CreationInv, CreatedInOrder
<1>4. QED
  BY <1>2, <1>3

\* A step that leaves the tables alone, and that no process takes that is
\* creating missing ones, disturbs neither half.
LEMMA QuietStep ==
  ASSUME TypeOK, StartupInv, CreationInv, NEW p \in Processes,
         tables' = tables, crashes' = crashes,
         \A q \in Processes \ {p} : pc'[q] = pc[q] /\ todo'[q] = todo[q],
         pc[p] = "create" => todo[p] = {},
         pc'[p] = "create" => todo'[p] = Tables \ tables
  PROVE  CreationInv'
<1>1. ASSUME NEW q \in Processes, pc'[q] = "create",
             NEW t \in todo'[q], NEW u \in Tables, t < u
      PROVE  u \in todo'[q]
  <2>1. CASE q = p
    <3>1. t \in Tables \ tables
      BY <1>1, <2>1
    <3>2. u \notin tables
      BY <1>1, <3>1 DEF CreationInv, CreatedInOrder
    <3>3. QED
      BY <1>1, <2>1, <3>2
  <2>2. CASE q # p
    BY <1>1, <2>2 DEF CreationInv, CreatedInOrder
  <2>3. QED
    BY <2>1, <2>2
<1>2. CreatedInOrder'
  BY <1>1 DEF CreationInv, CreatedInOrder
<1>3. ASSUME crashes = 0, tables # {}, tables # Tables
      PROVE  \E q \in Processes : pc'[q] = "create" /\ todo'[q] = Tables \ tables
  <2>1. PICK q \in Processes : pc[q] = "create" /\ todo[q] = Tables \ tables
    BY <1>3 DEF CreationInv, SomeoneCreates
  <2>2. q # p
    BY <1>3, <2>1 DEF TypeOK
  <2>3. QED
    BY <2>1, <2>2
<1>4. SomeoneCreates'
  BY <1>3 DEF SomeoneCreates
<1>5. QED
  BY <1>2, <1>4 DEF CreationInv

\* First starts that no one interrupts never leave the tables half made with
\* nobody to make the rest, however many processes race.
THEOREM FirstStartsAreSafe == Spec => []SomeoneCreates
<1>1. Init => CreationInv
  BY DEF Init, CreationInv, CreatedInOrder, SomeoneCreates
<1>2. TypeOK /\ StartupInv /\ CreationInv /\ [Next]_vars => CreationInv'
  <2> SUFFICES ASSUME TypeOK, StartupInv, CreationInv, [Next]_vars
               PROVE  CreationInv'
    OBVIOUS
  <2>1. ASSUME NEW p \in Processes, NEW t \in Tables, CreateTable(p, t)
        PROVE  CreationInv'
    BY <2>1, CreateTableStep
  <2>2. ASSUME NEW p \in Processes,
               \/ ReadLedger(p) \/ HasLegacyTables(p) \/ AdoptLegacy(p) \/ PlanTables(p)
               \/ TablesCreated(p) \/ InstallTriggers(p) \/ RecordMigration(p)
               \/ VerifyTables(p) \/ ReadProviders(p) \/ InsertProviders(p)
               \/ Stop(p) \/ Restart(p)
        PROVE  CreationInv'
    <3> USE DEF TypeOK, At, Goto, Refuse, schema
    <3>1. tables' = tables /\ crashes' = crashes
      BY <2>2 DEF ReadLedger, HasLegacyTables, AdoptLegacy, PlanTables, TablesCreated,
        InstallTriggers, RecordMigration, VerifyTables, ReadProviders, InsertProviders,
        Stop, Restart
    <3>2. \A q \in Processes \ {p} : pc'[q] = pc[q] /\ todo'[q] = todo[q]
      BY <2>2 DEF ReadLedger, HasLegacyTables, AdoptLegacy, PlanTables, TablesCreated,
        InstallTriggers, RecordMigration, VerifyTables, ReadProviders, InsertProviders,
        Stop, Restart
    <3>3. pc[p] = "create" => todo[p] = {}
      BY <2>2 DEF ReadLedger, HasLegacyTables, AdoptLegacy, PlanTables, TablesCreated,
        InstallTriggers, RecordMigration, VerifyTables, ReadProviders, InsertProviders,
        Stop, Restart
    <3>4. pc'[p] = "create" => todo'[p] = Tables \ tables
      BY <2>2 DEF ReadLedger, HasLegacyTables, AdoptLegacy, PlanTables, TablesCreated,
        InstallTriggers, RecordMigration, VerifyTables, ReadProviders, InsertProviders,
        Stop, Restart
    <3> HIDE DEF TypeOK, At, Goto, Refuse, schema
    <3>5. QED
      BY <3>1, <3>2, <3>3, <3>4, QuietStep
  <2>3. ASSUME NEW p \in Processes, Crash(p)
        PROVE  CreationInv'
    <3>1. crashes' # 0
      BY <2>3, CountsAssumption DEF Crash, TypeOK
    <3>2. tables' = tables /\ todo' = todo /\ pc' = [pc EXCEPT ![p] = "exited"]
      BY <2>3 DEF Crash, schema, Goto
    <3>3. QED
      BY <3>1, <3>2 DEF CreationInv, CreatedInOrder, SomeoneCreates, TypeOK
  <2>4. CASE UNCHANGED vars
    BY <2>4 DEF vars, schema, CreationInv, CreatedInOrder, SomeoneCreates
  <2>5. QED
    BY <2>1, <2>2, <2>3, <2>4 DEF Next, Initialize
<1>3. QED
  BY <1>1, <1>2, StartupTypes, StartupSafety, PTL DEF Spec, CreationInv

=============================================================================
