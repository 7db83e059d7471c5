-------------------------- MODULE Collector_proofs ---------------------------
(***************************************************************************)
(* Theorems about Collector, for every commit interval and any number of   *)
(* refused writes and lost processes.                                      *)
(***************************************************************************)
EXTENDS Collector, TLAPS

-----------------------------------------------------------------------------
(* The inductive invariant.                                                *)

\* The phases in which the run that was opened last can still be closed.
InWindow == {"load", "connect", "listen", "finish", "cancelled"}

\* The latest run will stay in state running, or already has: the process is
\* gone or leaves with the run undecided, or its session refuses the commit.
Doomed ==
  IF stage \in InWindow THEN broken \/ stage = "cancelled" ELSE latest.state = "running"

\* Why stuck runs are faults: every run left behind, and the latest one if it is
\* doomed, has a fault of its own; and a window that closes has an outcome.
StuckInv ==
  /\ stuck <= refusals + losses
  /\ Doomed => stuck + 1 <= refusals + losses
  /\ stage = "finish" => outcome # "running"
  /\ stage \in {"connect", "listen", "load"} => ~ broken

\* Why the status is the latest: a run stays unseen beyond its own window only
\* if a fault kept it from being mirrored, and no run is closed after it was.
StatusInv ==
  /\ unseen <= refusals + losses
       + (IF stage \in {"load", "connect", "listen", "finish", "mirror"} THEN 1 ELSE 0)
  /\ stage \in InWindow => unseen > 0
  /\ unseen = 0 /\ latest # Never => shown \in {latest.state, "ready"}

\* CollectorTypeOK without the bounds on stuck and unseen, which are consequences of
\* StuckInv and StatusInv.
TypeInv ==
  /\ stage \in Stage
  /\ outcome \in RunState
  /\ latest \in [state : RunState \cup {"none"}, finished : BOOLEAN]
  /\ stuck \in Nat
  /\ messages \in Nat
  /\ matched \in BOOLEAN /\ holding \in BOOLEAN /\ listened \in BOOLEAN /\ broken \in BOOLEAN
  /\ enabled \in BOOLEAN
  /\ shown \in RunState \cup {"none", "ready"}
  /\ refusals \in 0 .. MaxRefusals /\ losses \in 0 .. MaxLosses
  /\ unseen \in Nat

-----------------------------------------------------------------------------
(* Each part is kept by every step.                                        *)

LEMMA TypeStep == TypeInv /\ [CollectorNext]_collectorVars => TypeInv'
<1> SUFFICES ASSUME TypeInv, [CollectorNext]_collectorVars PROVE TypeInv'
  OBVIOUS
<1> DEFINE Rows == [state : RunState \cup {"none"}, finished : BOOLEAN]
<1>1. /\ {"running", "success", "healthy_empty", "skipped", "failed"} \subseteq RunState
      /\ {"begin", "open", "load", "connect", "listen", "finish", "mirror", "pause",
          "cancelled", "leave", "down"} \subseteq Stage
      /\ latest \in Rows /\ latest.state \in RunState \cup {"none"}
      /\ \A state \in RunState, finished \in BOOLEAN :
           [state |-> state, finished |-> finished] \in Rows
  BY DEF TypeInv, Stage, RunState, Ended
<1> USE DEF run, stored, provider, faults, End
<1> HIDE DEF Rows
<1>2. (stage \in Stage)'
  <2>1. CASE Round \/ Stream
    BY <1>1, <2>1 DEF TypeInv, Round, Stream, ReadProvider, OpenRun, LoadPolicy, Connect,
                      WindowEnds, Finish, UpdateStatus, NextRound, RestartCollector,
                      Disconnect, Receive
  <2>2. QED
    BY <1>1, <2>1 DEF TypeInv, CollectorNext, OpenRefused, StoreRefused, FinishRefused,
                      StatusRefused,
                      Cancel, LoseCollector,
                      ConfigureProvider, TestProvider, collectorVars
<1>3. (outcome \in RunState)'
  <2>1. CASE Round \/ Stream
    BY <1>1, <2>1 DEF TypeInv, Round, Stream, ReadProvider, OpenRun, LoadPolicy, Connect,
                      WindowEnds, Finish, UpdateStatus, NextRound, RestartCollector,
                      Disconnect, Receive
  <2>2. QED
    BY <1>1, <2>1 DEF TypeInv, CollectorNext, OpenRefused, StoreRefused, FinishRefused,
                      StatusRefused,
                      Cancel, LoseCollector,
                      ConfigureProvider, TestProvider, collectorVars
<1>4. UNCHANGED <<latest, stuck>> \/ OpenRun \/ Finish
  BY DEF CollectorNext, Round, Stream, ReadProvider, LoadPolicy, Connect, WindowEnds,
         UpdateStatus,
         NextRound, RestartCollector, Disconnect, Receive, OpenRefused, StoreRefused,
         FinishRefused,
         StatusRefused, Cancel, LoseCollector,
         ConfigureProvider, TestProvider, collectorVars
<1>5. latest' \in Rows /\ stuck' \in Nat
  <2>1. CASE OpenRun
    <3>1. stuck' \in Nat
      BY <2>1 DEF TypeInv, OpenRun
    <3>2. "running" \in RunState /\ latest' = [state |-> "running", finished |-> FALSE]
      BY <1>1, <2>1 DEF OpenRun
    <3>3. QED
      BY <1>1, <3>1, <3>2
  <2>2. CASE Finish
    <3>1. outcome \in RunState /\ UNCHANGED stuck
      BY <2>2 DEF TypeInv, Finish
    <3>2. latest' = latest \/ latest' = [state |-> outcome, finished |-> TRUE]
      BY <2>2 DEF Finish
    <3>3. QED
      BY <1>1, <3>1, <3>2 DEF TypeInv
  <2>3. QED
    BY <1>1, <1>4, <2>1, <2>2 DEF TypeInv
<1>6. (messages \in Nat)'
  <2>1. CASE Round \/ Stream
    BY <2>1, CollectorAssumption
    DEF TypeInv, Round, Stream, ReadProvider, OpenRun, LoadPolicy, Connect, WindowEnds, Finish,
        UpdateStatus, NextRound, RestartCollector, Disconnect, Receive, CountMessage
  <2>2. QED
    BY <2>1 DEF TypeInv, CollectorNext, OpenRefused, StoreRefused, FinishRefused, StatusRefused,
                Cancel, LoseCollector, ConfigureProvider, TestProvider, collectorVars
<1>7. (matched \in BOOLEAN /\ holding \in BOOLEAN /\ listened \in BOOLEAN /\ broken \in BOOLEAN)'
  <2>1. ASSUME NEW match \in BOOLEAN, Receive(match)
        PROVE  matched' \in BOOLEAN /\ holding' \in BOOLEAN
    BY <2>1 DEF Receive, CountMessage
  <2>2. ASSUME NEW match \in BOOLEAN, Receive(match)
        PROVE  UNCHANGED <<listened, broken>>
    BY <2>2 DEF Receive
  <2>3. CASE Stream
    BY <2>1, <2>2, <2>3 DEF TypeInv, Stream, Disconnect
  <2>4. CASE ~ Stream
    BY <2>4 DEF TypeInv, CollectorNext, Round, ReadProvider, OpenRun, LoadPolicy, Connect,
                WindowEnds,
                Finish, UpdateStatus, NextRound, RestartCollector, OpenRefused, StoreRefused,
                FinishRefused, StatusRefused, Cancel,
                LoseCollector, ConfigureProvider, TestProvider, collectorVars
  <2>5. QED
    BY <2>3, <2>4
<1>8. (enabled \in BOOLEAN)'
  BY DEF TypeInv, CollectorNext, Round, Stream, ReadProvider, OpenRun, LoadPolicy, Connect,
         WindowEnds, Finish, UpdateStatus, NextRound, RestartCollector, Disconnect, Receive,
         OpenRefused, StoreRefused, FinishRefused, StatusRefused, Cancel, LoseCollector,
         ConfigureProvider, TestProvider, collectorVars
<1>9. shown' \in RunState \cup {"none", "ready"}
  <2>1. CASE UpdateStatus
    BY <1>1, <2>1 DEF TypeInv, UpdateStatus
  <2>2. CASE TestProvider
    BY <2>2 DEF TestProvider
  <2>3. UNCHANGED shown \/ UpdateStatus \/ TestProvider
    BY DEF CollectorNext, Round, Stream, ReadProvider, OpenRun, LoadPolicy, Connect, WindowEnds,
           Finish, NextRound, RestartCollector, Disconnect, Receive, OpenRefused, StoreRefused,
           FinishRefused, StatusRefused, Cancel, LoseCollector, ConfigureProvider, collectorVars
  <2>4. QED
    BY <2>1, <2>2, <2>3 DEF TypeInv
<1>10. (refusals \in 0 .. MaxRefusals /\ losses \in 0 .. MaxLosses)'
  <2>1. CASE WriteRefused \/ Lose
    BY <2>1, CollectorAssumption DEF TypeInv, WriteRefused, Lose
  <2>2. UNCHANGED faults \/ WriteRefused \/ Lose
    BY DEF CollectorNext, Round, Stream, ReadProvider, OpenRun, LoadPolicy, Connect, WindowEnds,
           Finish, UpdateStatus, NextRound, RestartCollector, Disconnect, Receive, OpenRefused,
           StoreRefused, FinishRefused, StatusRefused, Cancel, LoseCollector, ConfigureProvider,
           TestProvider, collectorVars
  <2>3. QED
    BY <2>1, <2>2 DEF TypeInv
<1>11. (unseen \in Nat)'
  <2>1. CASE Round \/ Stream
    BY <2>1 DEF TypeInv, Round, Stream, ReadProvider, OpenRun, LoadPolicy, Connect,
                WindowEnds, Finish, UpdateStatus, NextRound, RestartCollector, Disconnect, Receive
  <2>2. QED
    BY <2>1 DEF TypeInv, CollectorNext, OpenRefused, StoreRefused, FinishRefused, StatusRefused,
                Cancel, LoseCollector, ConfigureProvider, TestProvider, collectorVars
<1>12. QED
  BY <1>2, <1>3, <1>5, <1>6, <1>7, <1>8, <1>9, <1>10, <1>11 DEF TypeInv, Rows

\* Only the receipt of a message fills the transaction, and the message that
\* reaches the interval empties it.
LEMMA BoundStep == TypeInv /\ LossIsBounded /\ [CollectorNext]_collectorVars => LossIsBounded'
<1> SUFFICES ASSUME TypeInv, LossIsBounded, [CollectorNext]_collectorVars PROVE LossIsBounded'
  OBVIOUS
<1> USE CollectorAssumption DEF run, stored, provider, faults, LossIsBounded, TypeInv
<1>1. ASSUME NEW match \in BOOLEAN, Receive(match) PROVE LossIsBounded'
  <2>1. CASE messages + 1 = CommitEvery
    <3>1. messages' = 0 /\ holding' = FALSE
      BY <1>1, <2>1 DEF Receive, CountMessage
    <3>2. QED
      BY <3>1
  <2>2. CASE messages + 1 # CommitEvery
    <3>1. messages' = messages + 1
      BY <1>1, <2>2 DEF Receive, CountMessage
    <3>2. QED
      BY <2>2, <3>1
  <2>3. QED
    BY <2>1, <2>2
<1>2. ASSUME UNCHANGED <<messages, holding>> \/ (messages' = 0 /\ holding' = FALSE)
      PROVE  LossIsBounded'
  BY <1>2
<1>3. CASE Round
  BY <1>2, <1>3 DEF Round, ReadProvider, OpenRun, LoadPolicy, Connect, WindowEnds, Finish,
                    UpdateStatus, NextRound, RestartCollector
<1>4. CASE \/ Disconnect \/ OpenRefused \/ StoreRefused \/ FinishRefused \/ StatusRefused
           \/ Cancel \/ LoseCollector
           \/ ConfigureProvider \/ TestProvider \/ UNCHANGED collectorVars
  BY <1>2, <1>4 DEF Disconnect, OpenRefused, StoreRefused, FinishRefused, StatusRefused,
                    Cancel, LoseCollector,
                    ConfigureProvider, TestProvider, collectorVars
<1>5. QED
  BY <1>1, <1>3, <1>4 DEF CollectorNext, Stream

LEMMA StuckStep == TypeInv /\ StuckInv /\ [CollectorNext]_collectorVars => StuckInv'
<1> SUFFICES ASSUME TypeInv, StuckInv, [CollectorNext]_collectorVars PROVE StuckInv'
  OBVIOUS
<1>0. /\ stuck \in Nat /\ refusals \in Nat /\ losses \in Nat
      /\ latest.state = "running" \/ latest.state # "running"
  BY CollectorAssumption DEF TypeInv
<1> USE <1>0 DEF run, stored, provider, faults, StuckInv, Doomed, InWindow, End, WriteRefused,
                 Lose
<1>1. ASSUME Round PROVE StuckInv'
  <2>1. CASE ReadProvider
    BY <2>1 DEF ReadProvider
  <2>2. CASE OpenRun
    BY <2>2 DEF OpenRun
  <2>3. CASE LoadPolicy
    BY <2>3 DEF LoadPolicy
  <2>4. CASE Connect
    BY <2>4 DEF Connect
  <2>5. CASE WindowEnds
    BY <2>5 DEF WindowEnds
  <2>6. CASE Finish
    <3>1. stage' \notin InWindow /\ UNCHANGED <<stuck, refusals, losses>>
      BY <2>6 DEF Finish
    <3>2. latest'.state = "running" => Doomed
      BY <2>6 DEF Finish, TypeInv
    <3>3. QED
      BY <2>6, <3>1, <3>2 DEF Finish
  <2>7. CASE UpdateStatus
    BY <2>7 DEF UpdateStatus
  <2>8. CASE NextRound \/ RestartCollector
    BY <2>8 DEF NextRound, RestartCollector
  <2>9. QED
    BY <1>1, <2>1, <2>2, <2>3, <2>4, <2>5, <2>6, <2>7, <2>8 DEF Round
<1>2. ASSUME Stream PROVE StuckInv'
  BY <1>2 DEF Stream, Disconnect, Receive
<1>3. CASE OpenRefused
  BY <1>3 DEF OpenRefused
<1>4. CASE StoreRefused
  BY <1>4 DEF StoreRefused
<1>5. CASE FinishRefused \/ StatusRefused
  BY <1>5 DEF FinishRefused, StatusRefused
<1>6. CASE Cancel \/ LoseCollector
  BY <1>6 DEF Cancel, LoseCollector
<1>7. CASE ConfigureProvider \/ TestProvider
  BY <1>7 DEF ConfigureProvider, TestProvider
<1>8. CASE UNCHANGED collectorVars
  BY <1>8 DEF collectorVars
<1>9. QED
  BY <1>1, <1>2, <1>3, <1>4, <1>5, <1>6, <1>7, <1>8 DEF CollectorNext

LEMMA StatusStep == TypeInv /\ StatusInv /\ [CollectorNext]_collectorVars => StatusInv'
<1> SUFFICES ASSUME TypeInv, StatusInv, [CollectorNext]_collectorVars PROVE StatusInv'
  OBVIOUS
<1>0. refusals \in Nat /\ losses \in Nat /\ unseen \in Nat
  BY CollectorAssumption DEF TypeInv
<1> USE <1>0 DEF run, stored, provider, faults, StatusInv, InWindow, End, WriteRefused, Lose
<1>1. ASSUME Round PROVE StatusInv'
  <2>1. CASE ReadProvider \/ NextRound \/ RestartCollector
    BY <2>1 DEF ReadProvider, NextRound, RestartCollector
  <2>2. CASE OpenRun \/ LoadPolicy \/ Connect \/ WindowEnds
    BY <2>2 DEF OpenRun, LoadPolicy, Connect, WindowEnds
  <2>3. CASE Finish
    BY <2>3 DEF Finish
  <2>4. CASE UpdateStatus
    BY <2>4 DEF UpdateStatus
  <2>5. QED
    BY <1>1, <2>1, <2>2, <2>3, <2>4 DEF Round
<1>2. CASE Stream
  BY <1>2 DEF Stream, Disconnect, Receive
<1>3. CASE OpenRefused \/ StoreRefused \/ FinishRefused \/ StatusRefused
         \/ Cancel \/ LoseCollector
  <2>1. CASE OpenRefused \/ StoreRefused
    BY <2>1 DEF OpenRefused, StoreRefused
  <2>2. CASE FinishRefused
    BY <2>2 DEF FinishRefused
  <2>3. CASE StatusRefused
    BY <2>3 DEF StatusRefused
  <2>4. CASE Cancel
    BY <2>4 DEF Cancel
  <2>5. CASE LoseCollector
    BY <2>5 DEF LoseCollector
  <2>6. QED
    BY <1>3, <2>1, <2>2, <2>3, <2>4, <2>5
<1>4. CASE ConfigureProvider \/ TestProvider
  BY <1>4 DEF ConfigureProvider, TestProvider
<1>5. CASE UNCHANGED collectorVars
  BY <1>5 DEF collectorVars
<1>6. QED
  BY <1>1, <1>2, <1>3, <1>4, <1>5 DEF CollectorNext

CollectorInv == TypeInv /\ LossIsBounded /\ StuckInv /\ StatusInv

LEMMA CollectorSafety == CollectorSpec => []CollectorInv
<1>1. ASSUME CollectorInit PROVE CollectorInv
  <2>1. TypeInv
    <3>1. stage \in Stage /\ outcome \in RunState
      BY <1>1 DEF CollectorInit, Stage, RunState
    <3>2. latest \in [state : RunState \cup {"none"}, finished : BOOLEAN]
      BY <1>1 DEF CollectorInit, Never
    <3>3. refusals \in 0 .. MaxRefusals /\ losses \in 0 .. MaxLosses
      BY <1>1, CollectorAssumption DEF CollectorInit
    <3>4. QED
      BY <1>1, <3>1, <3>2, <3>3 DEF CollectorInit, TypeInv
  <2>2. LossIsBounded /\ StatusInv
    BY <1>1, CollectorAssumption DEF CollectorInit, LossIsBounded, StatusInv, InWindow, Never
  <2>3. StuckInv
    BY <1>1 DEF CollectorInit, StuckInv, Doomed, InWindow, Never
  <2>4. QED
    BY <2>1, <2>2, <2>3 DEF CollectorInv
<1>2. CollectorInv /\ [CollectorNext]_collectorVars => CollectorInv'
  BY TypeStep, BoundStep, StuckStep, StatusStep DEF CollectorInv
<1>3. QED
  BY <1>1, <1>2, PTL DEF CollectorSpec

-----------------------------------------------------------------------------
(* What the runs check on small instances.                                 *)

\* Fewer than CommitEvery messages are ever in the open transaction, and a
\* writer lock is never held by an empty one.
THEOREM WorkLostIsBounded == CollectorSpec => []LossIsBounded
BY CollectorSafety, PTL DEF CollectorInv

\* However many writes are refused and processes lost, no more runs stay in
\* state running than there were faults.
THEOREM OnlyFaultsLeaveRuns == CollectorSpec => []StuckRunsAreFaults
<1>1. CollectorInv => StuckRunsAreFaults
  BY CollectorAssumption
  DEF CollectorInv, StuckInv, Doomed, InWindow, TypeInv, StuckRunsAreFaults
<1>2. QED
  BY <1>1, CollectorSafety, PTL

\* Between two windows the provider is behind its runs by at most one for each
\* fault, whatever write was refused; not behind, it shows its latest run, or
\* that it was tested since.
THEOREM StatusFollowsRuns == CollectorSpec => []StatusIsLatest
<1>1. CollectorInv => StatusIsLatest
  BY CollectorAssumption DEF CollectorInv, TypeInv, StatusInv, StatusIsLatest
<1>2. QED
  BY <1>1, CollectorSafety, PTL

\* The types, with the bounds on the numbers of stuck and of unseen runs.
THEOREM CollectorTypes == CollectorSpec => []CollectorTypeOK
<1>1. CollectorInv => CollectorTypeOK
  BY CollectorAssumption DEF CollectorInv, TypeInv, LossIsBounded, StuckInv, StatusInv,
                             CollectorTypeOK
<1>2. QED
  BY <1>1, CollectorSafety, PTL

=============================================================================
