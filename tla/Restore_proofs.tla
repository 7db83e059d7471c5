--------------------------- MODULE Restore_proofs ---------------------------
(* Proofs about Restore, for any files, writes and seconds.                *)
EXTENDS Restore, TLAPS

-----------------------------------------------------------------------------
(* The contents there are.                                                 *)

LEMMA WholeContents ==
  /\ {} \in SUBSET Writes /\ Foreign \in SUBSET Writes
  /\ IsDatabase({}) /\ ~ IsDatabase(Absent) /\ ~ IsDatabase(Damaged)
  /\ \A c \in SUBSET Writes : IsDatabase(c)
  /\ \A w \in Writes : w < MaxWrites => w + 1 \in Writes
<1>1. 0 \in Writes /\ \A w \in Writes : w < MaxWrites => w + 1 \in Writes
  BY RestoreAssumption DEF Writes
<1>2. {} \in SUBSET Writes /\ Foreign \in SUBSET Writes
  BY <1>1 DEF Foreign
<1>3. \A c \in SUBSET Writes : IsDatabase(c)
  BY RestoreAssumption DEF IsDatabase
<1>4. ~ IsDatabase(Absent) /\ ~ IsDatabase(Damaged)
  BY DEF IsDatabase
<1>5. QED
  BY <1>1, <1>2, <1>3, <1>4

LEMMA AddingAMember == \A S, x : x \in S => S \cup {x} = S
OBVIOUS

\* A file that gets a content of the kinds there are keeps the other files.
LEMMA FilesStayTyped ==
  ASSUME files \in [Files -> {Absent, Damaged} \cup SUBSET Writes],
         \A g \in Files : IsDatabase(files[g]) => files[g] \in had,
         NEW f \in Files, NEW c \in {Absent, Damaged} \cup SUBSET Writes,
         IsDatabase(c) => c \in had',
         had \subseteq had',
         files' = [files EXCEPT ![f] = c]
  PROVE  /\ files' \in [Files -> {Absent, Damaged} \cup SUBSET Writes]
         /\ \A g \in Files : IsDatabase(files'[g]) => files'[g] \in had'
<1>1. files' \in [Files -> {Absent, Damaged} \cup SUBSET Writes]
  OBVIOUS
<1>2. ASSUME NEW g \in Files, IsDatabase(files'[g])
      PROVE  files'[g] \in had'
  <2>1. CASE g = f
    BY <1>2, <2>1
  <2>2. CASE g # f
    BY <1>2, <2>2
  <2>3. QED
    BY <2>1, <2>2
<1>3. QED
  BY <1>1, <1>2

-----------------------------------------------------------------------------
(* The inductive invariant.                                                *)

LEMMA InitIsSafe == RestoreInit => RestoreSafe
<1> SUFFICES ASSUME RestoreInit
             PROVE  RestoreSafe
  OBVIOUS
<1> USE DEF RestoreInit
<1>1. RestoreTypeOK
  <2>1. 0 \in Writes /\ 0 \in Seconds
    BY RestoreAssumption DEF Writes, Seconds
  <2>2. files \in [Files -> {Absent, Damaged} \cup SUBSET Writes]
    OBVIOUS
  <2>3. QED
    BY <2>1, <2>2 DEF RestoreTypeOK
<1>2. RestoreInv
  BY DEF RestoreInv
<1>3. HadBefore
  BY WholeContents DEF HadBefore
<1>4. QED
  BY <1>1, <1>2, <1>3 DEF RestoreSafe

\* The application keeps it.
LEMMA ApplicationIsSafe ==
  ASSUME RestoreSafe, Application
  PROVE  RestoreSafe'
<1> USE WholeContents DEF RestoreSafe, RestoreTypeOK, RestoreInv, HadBefore, Content,
                          command, database
<1>1. CASE OpenDatabase
  <2>1. main' \in SUBSET Writes /\ wal' = wal /\ main' \cup wal' \in SUBSET Writes
    BY <1>1 DEF OpenDatabase
  <2>2. QED
    BY <1>1, <2>1 DEF OpenDatabase
<1>2. CASE Write
  <2>1. main \in SUBSET Writes /\ wal' \in SUBSET Writes /\ main \cup wal' \in SUBSET Writes
    BY <1>2 DEF Write
  <2>2. RestoreTypeOK'
    BY <1>2, <2>1 DEF Write
  <2>3. RestoreInv'
    BY <1>2, <2>1 DEF Write
  <2>4. HadBefore'
    BY <1>2, <2>1 DEF Write
  <2>5. QED
    BY <2>2, <2>3, <2>4
<1>3. CASE Checkpoint
  BY <1>3 DEF Checkpoint
<1>4. CASE CloseDatabase
  BY <1>4 DEF CloseDatabase
<1>5. CASE Lose
  BY <1>5 DEF Lose
<1>6. QED
  BY <1>1, <1>2, <1>3, <1>4, <1>5 DEF Application

\* So does each step of a restore.
LEMMA RestoreStepIsSafe ==
  ASSUME RestoreSafe, RestoreDatabase
  PROVE  RestoreSafe'
<1> USE WholeContents DEF RestoreSafe, RestoreTypeOK, RestoreInv, HadBefore, Content,
                          command, database, End
<1>0. second \in Files
  BY DEF Files
<1>1. ASSUME NEW f \in Files, ValidateSource(f)
      PROVE  RestoreSafe'
  BY <1>1 DEF ValidateSource
<1>2. CASE RequireStoppedDatabase
  BY <1>2 DEF RequireStoppedDatabase
<1>3. CASE SaveRollback
  <2>1. Content \in SUBSET Writes /\ Content \in had /\ had' = had
    BY <1>3 DEF SaveRollback
  <2>2. /\ files' \in [Files -> {Absent, Damaged} \cup SUBSET Writes]
        /\ \A g \in Files : IsDatabase(files'[g]) => files'[g] \in had'
    BY <1>0, <1>3, <2>1, FilesStayTyped DEF SaveRollback
  <2>3. QED
    BY <1>3, <2>2 DEF SaveRollback
<1>4. CASE CopySource
  BY <1>4 DEF CopySource
<1>5. CASE ValidateTemporary
  BY <1>5 DEF ValidateTemporary
<1>6. CASE ReplaceDestination
  <2>1. temporary \in SUBSET Writes /\ temporary \in had
    BY <1>6 DEF ReplaceDestination
  <2>2. main' = temporary /\ wal' = {} /\ main' \cup wal' = temporary
    BY <1>6 DEF ReplaceDestination
  <2>3. RestoreTypeOK' /\ RestoreInv'
    BY <1>6, <2>1, <2>2 DEF ReplaceDestination
  <2>4. HadBefore'
    BY <1>6, <2>1, <2>2 DEF ReplaceDestination
  <2>5. QED
    BY <2>3, <2>4
<1>7. CASE LoseRestore
  <2>1. /\ files' \in [Files -> {Absent, Damaged} \cup SUBSET Writes]
        /\ \A g \in Files : IsDatabase(files'[g]) => files'[g] \in had'
    <3>1. had' = had
      BY <1>7 DEF LoseRestore
    <3>2. files' = files \/ files' = [files EXCEPT ![second] = Damaged]
      BY <1>7 DEF LoseRestore
    <3>3. CASE files' = files
      BY <3>1, <3>3
    <3>4. CASE files' = [files EXCEPT ![second] = Damaged]
      BY <1>0, <3>1, <3>4, FilesStayTyped
    <3>5. QED
      BY <3>2, <3>3, <3>4
  <2>2. RestoreTypeOK'
    BY <1>7, <2>1 DEF LoseRestore
  <2>3. RestoreInv'
    BY <1>7 DEF LoseRestore
  <2>4. HadBefore'
    BY <1>7, <2>1 DEF LoseRestore
  <2>5. QED
    BY <2>2, <2>3, <2>4
<1>8. QED
  BY <1>1, <1>2, <1>3, <1>4, <1>5, <1>6, <1>7 DEF RestoreDatabase

LEMMA NextIsSafe == RestoreSafe /\ [RestoreNext]_restoreVars => RestoreSafe'
<1> SUFFICES ASSUME RestoreSafe, [RestoreNext]_restoreVars
             PROVE  RestoreSafe'
  OBVIOUS
<1>1. CASE Application
  BY <1>1, ApplicationIsSafe
<1>2. CASE RestoreDatabase
  BY <1>2, RestoreStepIsSafe
<1> USE WholeContents DEF RestoreSafe, RestoreTypeOK, RestoreInv, HadBefore, Content,
                          command, database
<1>3. CASE RestoreTick
  BY <1>3, RestoreAssumption DEF RestoreTick, Seconds
<1>4. ASSUME NEW f \in Names, Backup(f)
      PROVE  RestoreSafe'
  <2>1. f \in Files /\ had' = had /\ Content \in SUBSET Writes /\ Content \in had
    BY <1>4 DEF Backup, Files
  <2>2. PICK c \in {Content, IF files[f] = Absent THEN Damaged ELSE files[f]} :
               files' = [files EXCEPT ![f] = c]
    BY <1>4 DEF Backup
  <2>3. c \in {Absent, Damaged} \cup SUBSET Writes /\ (IsDatabase(c) => c \in had)
    <3>1. c = Content \/ c = Damaged \/ c = files[f]
      BY <2>2
    <3>2. files[f] \in {Absent, Damaged} \cup SUBSET Writes
      BY <2>1
    <3>3. CASE c = Content
      BY <2>1, <3>3
    <3>4. CASE c = Damaged
      BY <3>4
    <3>5. CASE c = files[f]
      <4>1. IsDatabase(files[f]) => files[f] \in had
        BY <2>1
      <4>2. QED
        BY <3>2, <3>5, <4>1
    <3>6. QED
      BY <3>1, <3>3, <3>4, <3>5
  <2>4. /\ files' \in [Files -> {Absent, Damaged} \cup SUBSET Writes]
        /\ \A g \in Files : IsDatabase(files'[g]) => files'[g] \in had'
    BY <2>1, <2>2, <2>3, FilesStayTyped
  <2>5. UNCHANGED <<database, second, command, had>>
    BY <1>4 DEF Backup
  <2>6. RestoreTypeOK' /\ RestoreInv'
    BY <2>4, <2>5
  <2>7. HadBefore'
    <3>1. UNCHANGED <<main, wal, temporary, had>>
      BY <2>5
    <3>2. IsDatabase(main') => main' \cup wal' \in had'
      BY <3>1
    <3>3. IsDatabase(temporary') => temporary' \in had'
      BY <3>1
    <3>4. QED
      BY <2>4, <3>2, <3>3
  <2>8. QED
    BY <2>6, <2>7
<1>5. ASSUME NEW f \in Names, PutBackup(f)
      PROVE  RestoreSafe'
  <2>1. PICK c \in {Absent, Damaged, Foreign} :
               /\ files' = [files EXCEPT ![f] = c]
               /\ had' = IF IsDatabase(c) THEN had \cup {c} ELSE had
    BY <1>5 DEF PutBackup
  <2>2. /\ f \in Files /\ c \in {Absent, Damaged} \cup SUBSET Writes
        /\ (IsDatabase(c) => c \in had') /\ had \subseteq had'
        /\ had' \subseteq SUBSET Writes
    BY <2>1 DEF Files
  <2>3. /\ files' \in [Files -> {Absent, Damaged} \cup SUBSET Writes]
        /\ \A g \in Files : IsDatabase(files'[g]) => files'[g] \in had'
    BY <2>1, <2>2, FilesStayTyped
  <2>4. QED
    BY <1>5, <2>2, <2>3 DEF PutBackup
<1>6. CASE UNCHANGED restoreVars
  BY <1>6 DEF restoreVars
<1>7. QED
  BY <1>1, <1>2, <1>3, <1>4, <1>5, <1>6 DEF RestoreNext

\* Types, what each step of a restore may rely on, and that nothing whole is
\* made up, for any files, writes and seconds.
THEOREM RestoreSafety == RestoreSpec => []RestoreSafe
BY InitIsSafe, NextIsSafe, PTL DEF RestoreSpec

-----------------------------------------------------------------------------
(* Commits.                                                                *)

\* Only replacing the main file takes writes away from what an opener finds.
LEMMA OthersKeepContent ==
  ASSUME RestoreSafe, [RestoreNext]_restoreVars, ~ ReplaceDestination, Content # Absent
  PROVE  Content \subseteq Content'
<1> USE WholeContents DEF RestoreSafe, RestoreTypeOK, RestoreInv, Content, command, database
<1>0. main \in SUBSET Writes
  OBVIOUS
<1>1. CASE Application
  BY <1>0, <1>1 DEF Application, OpenDatabase, Write, Checkpoint, CloseDatabase, Lose
<1>2. CASE RequireStoppedDatabase
  BY <1>0, <1>2 DEF RequireStoppedDatabase
<1>3. CASE UNCHANGED <<main, wal>>
  BY <1>3
<1>4. RestoreDatabase => RequireStoppedDatabase \/ UNCHANGED <<main, wal>>
  BY DEF RestoreDatabase, ValidateSource, SaveRollback, CopySource, ValidateTemporary, LoseRestore
<1>5. \A f \in Names : Backup(f) \/ PutBackup(f) => UNCHANGED <<main, wal>>
  BY DEF Backup, PutBackup
<1>6. RestoreTick \/ UNCHANGED restoreVars => UNCHANGED <<main, wal>>
  BY DEF RestoreTick, restoreVars
<1>7. QED
  BY <1>1, <1>2, <1>3, <1>4, <1>5, <1>6 DEF RestoreNext

\* While a restore is past the rollback copy, the copy is there.
LEMMA RollbackStays ==
  ASSUME RestoreSafe, [RestoreNext]_restoreVars, RollbackSaved
  PROVE  RollbackSaved'
<1> USE DEF RestoreSafe, RestoreTypeOK, RestoreInv, RollbackSaved, Content, command, database
<1>1. \A f \in Names : f \notin Seconds
  BY RestoreAssumption DEF Seconds
<1>2. CASE Application
  BY <1>2 DEF Application, OpenDatabase, Write, Checkpoint, CloseDatabase, Lose, IsDatabase
<1>3. CASE RestoreDatabase
  <2>1. ASSUME NEW f \in Files, ValidateSource(f)
        PROVE  RollbackSaved'
    BY <2>1 DEF ValidateSource
  <2>2. CASE SaveRollback
    <3>1. files'[second] = Content
      BY <2>2 DEF SaveRollback, Files
    <3>2. Content' = Content /\ second \in Seconds
      BY <2>2 DEF SaveRollback
    <3>3. QED
      BY <3>1, <3>2
  <2>3. CASE step' = "idle"
    BY <2>3
  <2>4. CASE CopySource
    BY <2>4 DEF CopySource
  <2>5. CASE ValidateTemporary
    BY <2>5 DEF ValidateTemporary, End
  <2>6. RequireStoppedDatabase => step' \in {"idle", "save"}
    BY DEF RequireStoppedDatabase, End
  <2>7. ReplaceDestination \/ LoseRestore => step' = "idle"
    BY DEF ReplaceDestination, LoseRestore, End
  <2>8. QED
    BY <1>3, <2>1, <2>2, <2>3, <2>4, <2>5, <2>6, <2>7 DEF RestoreDatabase
<1>4. ASSUME NEW f \in Names, Backup(f) \/ PutBackup(f)
      PROVE  RollbackSaved'
  <2>1. UNCHANGED <<main, wal, step>>
    BY <1>4 DEF Backup, PutBackup
  <2>2. \A t \in Seconds : files'[t] = files[t]
    BY <1>1, <1>4 DEF Backup, PutBackup, Files
  <2>3. QED
    BY <2>1, <2>2
<1>5. CASE RestoreTick \/ UNCHANGED restoreVars
  BY <1>5 DEF RestoreTick, restoreVars
<1>6. QED
  BY <1>2, <1>3, <1>4, <1>5 DEF RestoreNext

LEMMA RollbackIsSaved == RestoreSpec => []RollbackSaved
<1>1. RestoreInit => RollbackSaved
  BY DEF RestoreInit, RollbackSaved
<1>2. RestoreSafe /\ [RestoreNext]_restoreVars /\ RollbackSaved => RollbackSaved'
  BY RollbackStays
<1>3. QED
  BY <1>1, <1>2, RestoreSafety, PTL DEF RestoreSpec

\* A restore never loses a commit, not even one that a lost process left in
\* the WAL, for any number of files, commits and restores.
THEOREM RestoreLosesNothing == RestoreSpec => NothingIsLost
<1>1. ASSUME RestoreSafe, RollbackSaved, [RestoreNext]_restoreVars,
             Content # Absent, ~ Content \subseteq Content'
      PROVE  \E t \in Seconds : files'[t] = Content
  <2>1. ReplaceDestination
    BY <1>1, OthersKeepContent
  <2>2. main # Absent
    BY <1>1, WholeContents DEF Content
  <2>3. PICK t \in Seconds : files[t] = Content
    BY <1>1, <2>1, <2>2 DEF RollbackSaved, ReplaceDestination
  <2>4. files' = files
    BY <2>1 DEF ReplaceDestination
  <2>5. QED
    BY <2>3, <2>4
<1>2. RestoreSafe /\ RollbackSaved /\ [RestoreNext]_restoreVars
        => [Content # Content' /\ Content # Absent /\ ~ Content \subseteq Content'
              => \E t \in Seconds : files'[t] = Content]_restoreVars
  BY <1>1
<1>3. QED
  BY <1>2, RestoreSafety, RollbackIsSaved, PTL DEF RestoreSpec, NothingIsLost

-----------------------------------------------------------------------------
(* Restore implements DatabaseContents.                                    *)

\* Each step commits, replaces the whole content, or leaves it.
LEMMA StepsMap ==
  ASSUME RestoreSafe, RestoreSafe', [RestoreNext]_restoreVars
  PROVE  [Contents!Next]_<<Content, had>>
<1> USE WholeContents DEF RestoreSafe, RestoreTypeOK, RestoreInv, HadBefore, command, database
<1>1. CASE OpenDatabase
  <2>1. CASE main = Absent
    <3>1. wal = {} /\ main' = {} /\ wal' = wal /\ had' = had \cup {main' \cup wal'}
      BY <1>1, <2>1 DEF OpenDatabase
    <3>2. Content = Absent /\ Content' = {} /\ had' = had \cup {Content'}
      <4>1. Content = Absent
        BY <2>1 DEF Content
      <4>2. main' \cup wal' = {} /\ IsDatabase(main')
        BY <3>1
      <4>3. Content' = main' \cup wal'
        BY <4>2 DEF Content
      <4>4. had' = had \cup {Content'}
        BY <3>1, <4>3, Zenon
      <4>5. QED
        BY <4>1, <4>2, <4>3, <4>4, Zenon
    <3>3. Contents!Create
      BY <3>2 DEF Contents!Create
    <3>4. QED
      BY <3>3 DEF Contents!Next
  <2>2. CASE main # Absent
    <3>1. main' = main /\ wal' = wal /\ had' = had \cup {main \cup wal} /\ IsDatabase(main)
      BY <1>1, <2>2 DEF OpenDatabase
    <3>2. Content' = Content /\ Content = main \cup wal
      BY <3>1 DEF Content
    <3>3. main \cup wal \in had
      BY <3>1, <3>2, Zenon
    <3>4. had' = had
      BY <3>1, <3>3, AddingAMember, Zenon
    <3>5. QED
      BY <3>2, <3>4
  <2>3. QED
    BY <2>1, <2>2
<1>2. CASE Write
  <2>1. /\ IsDatabase(main) /\ main' = main /\ wal' = wal \cup {written'}
        /\ had' = had \cup {main \cup wal'} /\ written' \in Writes
    BY <1>2 DEF Write
  <2>2. /\ Content = main \cup wal /\ Content' = Content \cup {written'}
        /\ had' = had \cup {Content'}
    BY <2>1 DEF Content
  <2>3. Content # Absent
    BY <2>2, RestoreAssumption DEF IsDatabase, Content
  <2>4. Contents!Commit(written')
    BY <2>2, <2>3 DEF Contents!Commit
  <2>5. QED
    BY <2>1, <2>4 DEF Contents!Next
<1>3. CASE Checkpoint \/ CloseDatabase \/ RequireStoppedDatabase
  <2>1. had' = had /\ main # Absent
    BY <1>3 DEF Checkpoint, CloseDatabase, RequireStoppedDatabase
  <2>2. main' \cup wal' = main \cup wal /\ IsDatabase(main) /\ IsDatabase(main')
    BY <1>3, <2>1 DEF Checkpoint, CloseDatabase, RequireStoppedDatabase
  <2>3. QED
    BY <2>1, <2>2 DEF Content
<1>4. CASE ReplaceDestination
  <2>1. /\ main' = temporary /\ wal' = {} /\ had' = had /\ temporary \in had
        /\ IsDatabase(temporary)
    BY <1>4 DEF ReplaceDestination
  <2>2. Content' = temporary
    BY <2>1 DEF Content
  <2>3. Contents!Replace
    BY <2>1, <2>2 DEF Contents!Replace
  <2>4. QED
    BY <2>3 DEF Contents!Next
<1>5. ASSUME NEW f \in Names, PutBackup(f)
      PROVE  [Contents!Next]_<<Content, had>>
  <2>1. main' = main /\ wal' = wal
    BY <1>5 DEF PutBackup
  <2>2. Content' = Content
    BY <2>1 DEF Content
  <2>3. had' = had \/ \E c \in SUBSET Writes : had' = had \cup {c}
    BY <1>5 DEF PutBackup
  <2>4. had' = had \/ Contents!Import
    BY <2>2, <2>3 DEF Contents!Import
  <2>5. QED
    BY <2>2, <2>4 DEF Contents!Next
<1>6. CASE UNCHANGED <<main, wal, had>>
  BY <1>6 DEF Content
<1>7. Application \/ RestoreDatabase
        => \/ OpenDatabase \/ Write \/ Checkpoint \/ CloseDatabase
           \/ RequireStoppedDatabase \/ ReplaceDestination \/ UNCHANGED <<main, wal, had>>
  BY DEF Application, Lose, RestoreDatabase, ValidateSource, SaveRollback, CopySource,
         ValidateTemporary, LoseRestore
<1>8. RestoreTick \/ (\E f \in Names : Backup(f)) \/ UNCHANGED restoreVars
        => UNCHANGED <<main, wal, had>>
  BY DEF RestoreTick, Backup, restoreVars
<1>9. QED
  BY <1>1, <1>2, <1>3, <1>4, <1>5, <1>6, <1>7, <1>8 DEF RestoreNext

\* What an opener finds is never a mixture, for any files, writes and seconds.
THEOREM RestoreImplementsContents == RestoreSpec => ContentsAreWhole
<1>1. RestoreInit => Contents!Init
  BY WholeContents DEF RestoreInit, Contents!Init, Content
<1>2. RestoreSafe /\ RestoreSafe' /\ [RestoreNext]_restoreVars => [Contents!Next]_<<Content, had>>
  BY StepsMap
<1>3. QED
  BY <1>1, <1>2, RestoreSafety, PTL DEF RestoreSpec, ContentsAreWhole, Contents!Spec

=============================================================================
