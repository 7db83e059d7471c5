------------------------- MODULE PivotQueue_proofs --------------------------
(***************************************************************************)
(* Theorems about PivotQueue for every value of its constants.             *)
(***************************************************************************)
EXTENDS PivotQueue, TLAPS

-----------------------------------------------------------------------------
(* Type correctness.                                                       *)

LEMMA NoJobIsNoId == NoJob \notin JobIds
BY BoundsAssumption DEF NoJob, JobIds

\* Sleeping workers are well typed, whatever batch they go on with.
LEMMA GoOnType ==
  ASSUME TypeOK, NEW w \in Workers, NEW batch \in SUBSET JobIds, GoOn(w, batch)
  PROVE  WorkerOK'
BY DEF TypeOK, WorkerOK, GoOn, Step, Asleep, Local, Phase, Holding, Outcome

\* A worker's step is well typed when the locals it leaves are.
LEMMA StepType ==
  ASSUME TypeOK, NEW w \in Workers, NEW change \in Local, Step(w, change),
         change.pc \in Holding => change.job # NoJob,
         change.pc \in {"store", "write"} => change.outcome # "none"
  PROVE  WorkerOK'
BY DEF TypeOK, WorkerOK, Step

\* Moving the program counter of a worker that holds a claim is well typed.
LEMMA MoveType ==
  ASSUME TypeOK, NEW w \in Workers, NEW phase \in Phase \ {"store"},
         worker[w].pc \in Holding,
         phase = "write" => worker[w].outcome # "none",
         Step(w, [worker[w] EXCEPT !.pc = phase])
  PROVE  WorkerOK'
<1> DEFINE moved == [worker[w] EXCEPT !.pc = phase]
<1>1. worker[w] \in Local
  BY DEF TypeOK, WorkerOK
<1>2. moved \in Local /\ moved.pc = phase
       /\ moved.job = worker[w].job /\ moved.outcome = worker[w].outcome
  BY <1>1 DEF Local
<1>3. worker[w].job # NoJob
  BY DEF TypeOK, WorkerOK
<1> HIDE DEF moved
<1>4. Step(w, moved)
  BY DEF moved
<1>5. QED
  BY <1>2, <1>3, <1>4, StepType

\* So is moving it with an outcome.
LEMMA OutcomeType ==
  ASSUME TypeOK, NEW w \in Workers, NEW result \in {"success", "skipped"},
         worker[w].pc \in Holding,
         Step(w, [worker[w] EXCEPT !.pc = "store", !.outcome = result])
  PROVE  WorkerOK'
<1> DEFINE decided == [worker[w] EXCEPT !.pc = "store", !.outcome = result]
<1>1. worker[w] \in Local
  BY DEF TypeOK, WorkerOK
<1>2. "store" \in Phase /\ result \in Outcome
  BY DEF Phase, Holding, Outcome
<1>3. decided \in Local /\ decided.job = worker[w].job /\ decided.outcome = result
  BY <1>1, <1>2 DEF Local
<1>4. worker[w].job # NoJob
  BY DEF TypeOK, WorkerOK
<1> HIDE DEF decided
<1>5. Step(w, decided)
  BY DEF decided
<1>6. QED
  BY <1>3, <1>4, <1>5, StepType

\* The rest of a batch is a set of rows.
LEMMA BatchType ==
  ASSUME TypeOK, NEW w \in Workers
  PROVE  /\ worker[w] \in Local
         /\ worker[w].batch \in SUBSET JobIds
         /\ \A j : After(w, j) \in SUBSET JobIds
BY DEF TypeOK, WorkerOK, Local, After

\* Inserting a row keeps the columns well typed.
LEMMA InsertType ==
  ASSUME TypeOK, NEW p \in Pair, NEW trigger \in {"manual", "certstream_match"},
         Insert(p, trigger)
  PROVE  /\ last' \in 0 .. MaxJobs
         /\ state' \in [JobIds -> JobState]
         /\ about' \in [JobIds -> About]
         /\ \A j \in JobIds : state'[j] = "queued" => about'[j].pair \in Pair
         /\ UNCHANGED <<attempts, waited, ran>>
BY BoundsAssumption DEF TypeOK, Insert, JobIds, JobState, Active, About

\* A claim keeps the columns well typed.
LEMMA ClaimType ==
  ASSUME TypeOK, NEW j \in JobIds, NEW next \in JobState, ClaimUpdate(j, next)
  PROVE  /\ state' \in [JobIds -> JobState]
         /\ attempts' \in [JobIds -> Nat]
         /\ ran' \in [JobIds -> 0 .. Overdue]
         /\ next # "queued" => \A i \in JobIds : state'[i] = "queued" => about'[i].pair \in Pair
         /\ UNCHANGED <<last, about, waited>>
BY BoundsAssumption DEF TypeOK, ClaimUpdate, Overdue

\* Every variable keeps its type: states, ages and the locals of workers stay
\* within the values the code gives them.
THEOREM TypeCorrect == Spec => []TypeOK
<1>1. Init => TypeOK
  <2> SUFFICES ASSUME Init PROVE TypeOK
    OBVIOUS
  <2>1. WorkerOK
    BY DEF Init, WorkerOK, Asleep, Local, Phase, Holding, Outcome
  <2>2. about \in [JobIds -> About]
    BY DEF Init, About
  <2>3. waited \in [JobIds -> 0 .. Oldest] /\ ran \in [JobIds -> 0 .. Overdue]
    BY BoundsAssumption DEF Init, Oldest, Overdue
  <2>4. QED
    BY <2>1, <2>2, <2>3, BoundsAssumption DEF Init, TypeOK, JobState
<1>2. TypeOK /\ [Next]_vars => TypeOK'
  <2> SUFFICES ASSUME TypeOK, [Next]_vars
               PROVE  TypeOK'
    OBVIOUS
  <2> USE DEF rows, history, config
  <2>1. ASSUME Queueing PROVE TypeOK'
    <3>1. ASSUME NEW p \in Pair, QueueConfiguredPivot(p) PROVE TypeOK'
      BY <3>1, InsertType DEF QueueConfiguredPivot, TypeOK, WorkerOK
    <3>2. ASSUME NEW p \in Pair, QueueByDomain(p) PROVE TypeOK'
      BY <3>2, InsertType DEF QueueByDomain, TypeOK, WorkerOK
    <3>3. ASSUME NEW r \in Requests, InsertByCandidate(r) PROVE TypeOK'
      <4>1. request[r] \in Pair
        BY <3>3 DEF InsertByCandidate, TypeOK
      <4>2. request' \in [Requests -> Pair \cup {NoPair}]
        BY <3>3 DEF InsertByCandidate, TypeOK
      <4>3. QED
        BY <3>3, <4>1, <4>2, InsertType DEF InsertByCandidate, TypeOK, WorkerOK
    <3>4. ASSUME NEW r \in Requests, NEW p \in Pair, CheckByCandidate(r, p)
          PROVE  TypeOK'
      BY <3>4 DEF CheckByCandidate, TypeOK, WorkerOK
    <3>5. QED
      BY <2>1, <3>1, <3>2, <3>3, <3>4 DEF Queueing
  <2>2. ASSUME NEW k \in Kinds, ConfigureProvider(k) PROVE TypeOK'
    BY <2>2 DEF ConfigureProvider, TypeOK, WorkerOK
  <2>3. ASSUME NEW w \in Workers, RunOnce(w) PROVE TypeOK'
    <3> USE BatchType
    <3>1. CASE FindStale(w)
      <4>1. WorkerOK'
        BY <3>1 DEF FindStale, Step, TypeOK, WorkerOK, Asleep, Local, Phase, Holding, Outcome
      <4>2. QED
        BY <3>1, <4>1 DEF FindStale, TypeOK
    <3>2. CASE FailStale(w)
      <4>1. WorkerOK'
        BY <3>2 DEF FailStale, Step, TypeOK, WorkerOK, Asleep, Local, Phase, Holding, Outcome
      <4>2. state' \in [JobIds -> JobState]
        BY <3>2 DEF FailStale, TypeOK, JobState, Terminal
      <4>3. QED
        BY <3>2, <4>1, <4>2 DEF FailStale, TypeOK
    <3>3. CASE SelectDue(w)
      <4>1. WorkerOK'
        <5> DEFINE oldest == {j \in Due : Cardinality({i \in Due : i < j}) < BatchSize}
        <5>1. oldest \in SUBSET JobIds
          BY DEF Due
        <5>2. GoOn(w, oldest)
          BY <3>3 DEF SelectDue
        <5> HIDE DEF oldest
        <5>3. QED
          BY <5>1, <5>2, GoOnType
      <4>2. QED
        BY <3>3, <4>1 DEF SelectDue, TypeOK
    <3>4. ASSUME NEW j \in JobIds, ClaimLost(w, j) PROVE TypeOK'
      <4>1. WorkerOK'
        BY <3>4, GoOnType DEF ClaimLost
      <4>2. QED
        BY <3>4, <4>1 DEF ClaimLost, TypeOK
    <3>5. ASSUME NEW j \in JobIds, ClaimUnavailable(w, j) PROVE TypeOK'
      <4>1. WorkerOK'
        BY <3>5, GoOnType DEF ClaimUnavailable
      <4>2. "skipped" \in JobState
        BY DEF JobState, Terminal
      <4>3. QED
        BY <3>5, <4>1, <4>2, ClaimType DEF ClaimUnavailable, TypeOK
    <3>6. ASSUME NEW j \in JobIds, Claim(w, j) PROVE TypeOK'
      <4>1. keyed[about[j].pair.kind] \in BOOLEAN
        BY <3>6 DEF Claim, ClaimUpdate, TypeOK, Pair
      <4>2. WorkerOK'
        <5> DEFINE change == [Asleep EXCEPT !.pc = "pivot", !.batch = After(w, j),
                                           !.job = j, !.secret = keyed[about[j].pair.kind]]
        <5>1. /\ change \in Local /\ change.pc = "pivot" /\ change.job = j
          BY <4>1 DEF Asleep, Local, Phase, Holding, Outcome
        <5>2. j # NoJob
          BY NoJobIsNoId
        <5> HIDE DEF change
        <5>3. Step(w, change)
          BY <3>6 DEF Claim, change
        <5>4. QED
          BY <5>1, <5>2, <5>3, StepType
      <4>3. "running" \in JobState
        BY DEF JobState, Active
      <4>4. QED
        BY <3>6, <4>2, <4>3, ClaimType DEF Claim, TypeOK
    <3>7. CASE BeforeCall(w)
      <4>1. WorkerOK'
        BY <3>7, MoveType, OutcomeType DEF BeforeCall, At, Phase, Holding
      <4>2. QED
        BY <3>7, <4>1 DEF BeforeCall, TypeOK
    <3>8. CASE CallProvider(w)
      <4>1. WorkerOK'
        BY <3>8, MoveType DEF CallProvider, At, Phase, Holding
      <4>2. called' \in [JobIds -> Nat]
        <5> DEFINE job == worker[w].job
        <5>1. called' = [called EXCEPT ![job] = called[job] + 1]
          BY <3>8 DEF CallProvider
        <5>2. called \in [JobIds -> Nat] /\ job \in JobIds
          BY <3>8 DEF CallProvider, At, TypeOK, WorkerOK, Local, Holding
        <5> HIDE DEF job
        <5>3. QED
          BY <5>1, <5>2
      <4>3. QED
        BY <3>8, <4>1, <4>2 DEF CallProvider, TypeOK
    <3>9. CASE CallReturns(w)
      <4>1. WorkerOK'
        BY <3>9, MoveType, OutcomeType DEF CallReturns, At, Phase, Holding
      <4>2. QED
        BY <3>9, <4>1 DEF CallReturns, TypeOK
    <3>10. CASE RecordJobFailure(w)
      <4>1. WorkerOK'
        BY <3>10, GoOnType DEF RecordJobFailure
      <4>2. state' \in [JobIds -> JobState]
        BY <3>10 DEF RecordJobFailure, TypeOK, JobState, Terminal
      <4>3. QED
        BY <3>10, <4>1, <4>2 DEF RecordJobFailure, TypeOK, Local
    <3>11. CASE StoreRead(w)
      <4>1. CASE Step(w, [worker[w] EXCEPT !.pc = "write"])
        <5>1. WorkerOK'
          BY <3>11, <4>1, MoveType DEF StoreRead, At, TypeOK, WorkerOK, Phase, Holding
        <5>2. QED
          BY <3>11, <5>1 DEF StoreRead, TypeOK
      <4>2. CASE GoOn(w, worker[w].batch)
        <5>1. WorkerOK'
          BY <4>2, GoOnType
        <5>2. QED
          BY <3>11, <5>1 DEF StoreRead, TypeOK
      <4>3. QED
        BY <3>11, <4>1, <4>2 DEF StoreRead
    <3>12. CASE StoreWrite(w)
      <4>1. WorkerOK'
        BY <3>12, GoOnType DEF StoreWrite
      <4>2. worker[w].outcome \in {"success", "skipped"}
        BY <3>12 DEF StoreWrite, At, TypeOK, WorkerOK, Local, Outcome
      <4>3. worker[w].job \in JobIds
        BY <3>12 DEF StoreWrite, At, TypeOK, WorkerOK, Local, Holding
      <4>4. QED
        BY <3>12, <4>1, <4>2, <4>3 DEF StoreWrite, TypeOK, JobState, Terminal
    <3>13. QED
      BY <2>3, <3>1, <3>2, <3>3, <3>4, <3>5, <3>6, <3>7, <3>8, <3>9, <3>10,
         <3>11, <3>12 DEF RunOnce
  <2>4. ASSUME NEW w \in Workers, Crash(w) \/ Restart(w) PROVE TypeOK'
    <3>1. WorkerOK'
      <4>1. /\ Asleep \in Local /\ Asleep.pc \notin Holding
            /\ [Asleep EXCEPT !.pc = "down"] \in Local
            /\ [Asleep EXCEPT !.pc = "down"].pc \notin Holding
        BY DEF Asleep, Local, Phase, Holding, Outcome
      <4>2. {"store", "write"} \subseteq Holding
        BY DEF Holding
      <4>3. QED
        BY <2>4, <4>1, <4>2, StepType DEF Crash, Restart
    <3>2. QED
      BY <2>4, <3>1, BoundsAssumption DEF Crash, Restart, TypeOK
  <2>5. ASSUME Tick PROVE TypeOK'
    BY <2>5, BoundsAssumption DEF Tick, Older, TypeOK, Oldest, Overdue, WorkerOK
  <2>6. CASE UNCHANGED vars
    BY <2>6 DEF vars, TypeOK, WorkerOK
  <2>7. QED
    BY <2>1, <2>2, <2>3, <2>4, <2>5, <2>6 DEF Next
<1>3. QED
  BY <1>1, <1>2, PTL DEF Spec

-----------------------------------------------------------------------------
(* One execution per row, for any number of workers, requests and crashes. *)

\* An inserted row is one no worker has heard of.
LEMMA InsertKeepsQueueInv ==
  ASSUME TypeOK, QueueInv, NEW p, NEW trigger, Insert(p, trigger),
         UNCHANGED <<history, worker>>
  PROVE  QueueInv'
<1>1. last + 1 \in JobIds /\ state[last + 1] = "absent"
  BY BoundsAssumption DEF TypeOK, QueueInv, ClaimsOK, Insert, JobIds
<1>2. \A j \in JobIds : (Unclaimed(j)' => Unclaimed(j)) /\ (Unclaimed(j) => Unclaimed(j)')
  BY <1>1 DEF TypeOK, Insert, Unclaimed
<1>3. \A j \in JobIds : j > last' => state'[j] = "absent"
  BY <1>1 DEF TypeOK, QueueInv, ClaimsOK, Insert, JobIds
<1>4. ClaimsOK'
  BY <1>2, <1>3 DEF QueueInv, ClaimsOK, Insert, history, TypeOK, WorkerOK, Local
<1>5. QED
  BY <1>4 DEF QueueInv, ExclusiveClaim, SingleExecution, Owns, Insert, history

\* A worker lets go: it ends the step holding nothing, and what it is about to
\* recover has been claimed.
LetsGo(w) ==
  /\ worker'[w].pc \notin Holding
  /\ \A j \in worker'[w].stale : j \in JobIds /\ state'[j] # "absent" /\ state'[j] # "queued"
  /\ \A v \in Workers : v # w => worker'[v] = worker[v]

\* The rows move on: none goes back to where no one has claimed it, and an
\* attempt is counted only for a row that was not claimed.
RowsMoveOn ==
  /\ \A j \in JobIds :
       \/ state'[j] = state[j] /\ attempts'[j] = attempts[j]
       \/ /\ state'[j] # "absent" /\ state'[j] # "queued" /\ state[j] # "absent"
          /\ \/ attempts'[j] = attempts[j]
             \/ state[j] = "queued" /\ attempts'[j] = attempts[j] + 1
  /\ UNCHANGED <<last, called>>

\* A step that lets go while the rows move on keeps the invariant.
LEMMA LettingGoKeepsQueueInv ==
  ASSUME TypeOK, QueueInv, NEW w \in Workers, LetsGo(w), RowsMoveOn
  PROVE  QueueInv'
<1> USE DEF Unclaimed
<1>1. \A v \in Workers : worker'[v].pc \in Holding => v # w /\ worker'[v] = worker[v]
  BY DEF LetsGo
<1>2. \A v \in Workers : worker[v].pc \in Holding => worker[v].job \in JobIds
  BY DEF TypeOK, WorkerOK, Local
<1>3. \A j \in JobIds : ~ Unclaimed(j) =>
        state'[j] \notin {"absent", "queued"} /\ attempts'[j] = attempts[j]
  BY DEF RowsMoveOn
<1>4. \A v \in Workers : \A j \in worker'[v].stale : state'[j] \notin {"absent", "queued"}
  <2> SUFFICES ASSUME NEW v \in Workers, NEW j \in worker'[v].stale
               PROVE  state'[j] \notin {"absent", "queued"}
    OBVIOUS
  <2>1. CASE v = w
    BY <2>1 DEF LetsGo
  <2>2. CASE v # w
    <3>1. j \in worker[v].stale /\ j \in JobIds
      BY <2>2 DEF LetsGo, TypeOK, WorkerOK, Local
    <3>2. QED
      BY <1>3, <3>1 DEF QueueInv, ClaimsOK
  <2>3. QED
    BY <2>1, <2>2
<1>5. \A v \in Workers : worker'[v].pc \in Holding =>
        state'[worker'[v].job] \notin {"absent", "queued"}
  BY <1>1, <1>2, <1>3 DEF QueueInv, ClaimsOK
<1>6. \A v \in Workers : worker'[v].pc = "pivot" =>
        attempts'[worker'[v].job] = 1 /\ called'[worker'[v].job] = 0
  BY <1>1, <1>2, <1>3 DEF QueueInv, ClaimsOK, RowsMoveOn, Holding
<1>7. \A j \in JobIds : j > last' => state'[j] = "absent"
  BY DEF QueueInv, ClaimsOK, RowsMoveOn
<1>8. \A j \in JobIds : state'[j] \in {"absent", "queued"} => attempts'[j] = 0
  BY DEF QueueInv, ClaimsOK, RowsMoveOn
<1>9. ClaimsOK'
  BY <1>4, <1>5, <1>6, <1>7, <1>8 DEF ClaimsOK
<1>10. ExclusiveClaim'
  BY <1>1 DEF QueueInv, ExclusiveClaim, Owns
<1>11. SingleExecution'
  <2> SUFFICES ASSUME NEW j \in JobIds
               PROVE  called'[j] <= attempts'[j] /\ attempts'[j] <= 1
    BY DEF SingleExecution
  <2>1. CASE attempts'[j] = attempts[j]
    BY <2>1 DEF QueueInv, SingleExecution, RowsMoveOn
  <2>2. CASE state[j] = "queued" /\ attempts'[j] = attempts[j] + 1
    BY <2>2 DEF QueueInv, ClaimsOK, SingleExecution, RowsMoveOn, TypeOK
  <2>3. QED
    BY <2>1, <2>2 DEF RowsMoveOn
<1>12. QED
  BY <1>9, <1>10, <1>11 DEF QueueInv

\* A sleeping, selecting or restarted worker lets go.
LEMMA GoOnLetsGo ==
  ASSUME TypeOK, NEW w \in Workers, NEW batch, GoOn(w, batch)
  PROVE  LetsGo(w)
BY DEF TypeOK, WorkerOK, GoOn, Step, Asleep, Holding, LetsGo

LEMMA UnchangedRowsMoveOn ==
  ASSUME UNCHANGED <<last, state, attempts, called>>
  PROVE  RowsMoveOn
BY DEF RowsMoveOn

\* A step that only moves on with the claim it has keeps the invariant.
LEMMA HoldingOnKeepsQueueInv ==
  ASSUME TypeOK, QueueInv, NEW w \in Workers,
         worker[w].pc \in Holding,
         worker'[w].job = worker[w].job, worker'[w].stale = worker[w].stale,
         worker'[w].pc # "pivot",
         \A v \in Workers : v # w => worker'[v] = worker[v],
         UNCHANGED <<last, state, attempts>>,
         \/ UNCHANGED called
         \/ /\ worker[w].pc = "pivot"
            /\ called' = [called EXCEPT ![worker[w].job] = @ + 1]
  PROVE  QueueInv'
<1>1. \A v \in Workers : worker[v].pc \in Holding => worker[v].job \in JobIds
  BY DEF TypeOK, WorkerOK, Local
<1>2. \A v \in Workers : worker'[v].pc \in Holding =>
        worker[v].pc \in Holding /\ worker'[v].job = worker[v].job
  OBVIOUS
<1>3. \A j \in JobIds : j # worker[w].job => called'[j] = called[j]
  BY DEF TypeOK
<1>4. ExclusiveClaim'
  BY <1>2 DEF QueueInv, ExclusiveClaim, Owns
<1>5. SingleExecution'
  BY <1>1, <1>3 DEF QueueInv, ClaimsOK, SingleExecution, TypeOK
<1>6. (\A v \in Workers : worker[v].pc = "pivot" =>
         attempts[worker[v].job] = 1 /\ called[worker[v].job] = 0)'
  <2> SUFFICES ASSUME NEW v \in Workers, worker'[v].pc = "pivot"
               PROVE  (attempts[worker[v].job] = 1 /\ called[worker[v].job] = 0)'
    OBVIOUS
  <2>1. v # w /\ worker'[v] = worker[v]
    OBVIOUS
  <2>2. worker[v].job \in JobIds /\ worker[v].job # worker[w].job
    BY <1>1, <2>1 DEF QueueInv, ExclusiveClaim, Owns, Holding
  <2>3. QED
    BY <1>3, <2>1, <2>2 DEF QueueInv, ClaimsOK
<1>7. ClaimsOK'
  BY <1>2, <1>6 DEF QueueInv, ClaimsOK, Unclaimed
<1>8. QED
  BY <1>4, <1>5, <1>7 DEF QueueInv

\* Claiming a queued row is the one step that takes hold of a row; the row had
\* no attempt, and no worker held it.
LEMMA ClaimKeepsQueueInv ==
  ASSUME TypeOK, QueueInv, NEW w \in Workers, NEW j \in JobIds, Claim(w, j)
  PROVE  QueueInv'
<1>1. /\ state[j] = "queued" /\ attempts[j] = 0 /\ attempts'[j] = 1
      /\ called[j] = 0 /\ state'[j] = "running"
  BY DEF Claim, ClaimUpdate, QueueInv, ClaimsOK, SingleExecution, Unclaimed, TypeOK
<1>2. \A i \in JobIds : i # j => state'[i] = state[i] /\ attempts'[i] = attempts[i]
  BY DEF Claim, ClaimUpdate, TypeOK
<1>3. /\ worker'[w].pc = "pivot" /\ worker'[w].job = j /\ worker'[w].stale = {}
      /\ \A v \in Workers : v # w => worker'[v] = worker[v]
  BY DEF Claim, Step, Asleep, TypeOK, WorkerOK
<1>4. \A v \in Workers : worker[v].pc \in Holding => worker[v].job \in JobIds \ {j}
  BY <1>1 DEF TypeOK, WorkerOK, Local, QueueInv, ClaimsOK, Unclaimed
<1>5. UNCHANGED <<last, called>>
  BY DEF Claim, ClaimUpdate, history
<1>6. ExclusiveClaim'
  BY <1>3, <1>4 DEF QueueInv, ExclusiveClaim, Owns
<1>7. SingleExecution'
  BY <1>1, <1>2, <1>5 DEF QueueInv, SingleExecution
<1>8. (\A v \in Workers :
         /\ \A i \in worker[v].stale : ~ Unclaimed(i)
         /\ worker[v].pc \in Holding => ~ Unclaimed(worker[v].job)
         /\ worker[v].pc = "pivot" => attempts[worker[v].job] = 1 /\ called[worker[v].job] = 0)'
  <2> SUFFICES ASSUME NEW v \in Workers
               PROVE (/\ \A i \in worker[v].stale : ~ Unclaimed(i)
                      /\ worker[v].pc \in Holding => ~ Unclaimed(worker[v].job)
                      /\ worker[v].pc = "pivot" =>
                           attempts[worker[v].job] = 1 /\ called[worker[v].job] = 0)'
    OBVIOUS
  <2>1. CASE v = w
    BY <1>1, <1>3, <1>5, <2>1 DEF Unclaimed
  <2>2. CASE v # w
    BY <1>1, <1>2, <1>3, <1>4, <1>5, <2>2
    DEF QueueInv, ClaimsOK, Unclaimed, Holding, TypeOK, WorkerOK, Local
  <2>3. QED
    BY <2>1, <2>2
<1>9. ClaimsOK'
  BY <1>1, <1>2, <1>5, <1>8 DEF QueueInv, ClaimsOK, Unclaimed, TypeOK
<1>10. QED
  BY <1>6, <1>7, <1>9 DEF QueueInv

\* Whatever the number of workers, no two hold one row, no row is claimed
\* twice, and no row's provider is called twice.
THEOREM ClaimSafety == Spec => []QueueInv
<1>1. Init => QueueInv
  BY DEF Init, QueueInv, ClaimsOK, ExclusiveClaim, SingleExecution, Owns, Asleep,
         Holding
<1>2. TypeOK /\ QueueInv /\ [Next]_vars => QueueInv'
  <2> SUFFICES ASSUME TypeOK, QueueInv, [Next]_vars
               PROVE  QueueInv'
    OBVIOUS
  <2> USE DEF rows, history, config
  <2>1. ASSUME Queueing PROVE QueueInv'
    <3>1. ASSUME NEW p, QueueConfiguredPivot(p) \/ QueueByDomain(p) PROVE QueueInv'
      BY <3>1, InsertKeepsQueueInv DEF QueueConfiguredPivot, QueueByDomain
    <3>2. ASSUME NEW r, InsertByCandidate(r) PROVE QueueInv'
      BY <3>2, InsertKeepsQueueInv DEF InsertByCandidate
    <3>3. ASSUME NEW r, NEW p, CheckByCandidate(r, p) PROVE QueueInv'
      BY <3>3 DEF CheckByCandidate, QueueInv, ClaimsOK, ExclusiveClaim, SingleExecution,
                  Unclaimed, Owns
    <3>4. QED
      BY <2>1, <3>1, <3>2, <3>3 DEF Queueing
  <2>2. ASSUME NEW k, ConfigureProvider(k) PROVE QueueInv'
    BY <2>2 DEF ConfigureProvider, QueueInv, ClaimsOK, ExclusiveClaim, SingleExecution,
                Unclaimed, Owns
  <2>3. ASSUME NEW w \in Workers, RunOnce(w) PROVE QueueInv'
    <3>1. CASE FindStale(w)
      <4>1. LetsGo(w)
        BY <3>1 DEF FindStale, Step, Asleep, Holding, TypeOK, WorkerOK, LetsGo
      <4>2. RowsMoveOn
        BY <3>1, UnchangedRowsMoveOn DEF FindStale
      <4>3. QED
        BY <4>1, <4>2, LettingGoKeepsQueueInv
    <3>2. CASE FailStale(w)
      <4>1. LetsGo(w)
        BY <3>2 DEF FailStale, Step, Asleep, Holding, TypeOK, WorkerOK, LetsGo
      <4>2. \A j \in worker[w].stale : state[j] # "absent" /\ state[j] # "queued"
        BY DEF QueueInv, ClaimsOK, Unclaimed
      <4>3. RowsMoveOn
        BY <3>2, <4>2 DEF FailStale, RowsMoveOn
      <4>4. QED
        BY <4>1, <4>3, LettingGoKeepsQueueInv
    <3>3. CASE SelectDue(w)
      <4>1. LetsGo(w)
        BY <3>3, GoOnLetsGo DEF SelectDue
      <4>2. RowsMoveOn
        BY <3>3, UnchangedRowsMoveOn DEF SelectDue
      <4>3. QED
        BY <4>1, <4>2, LettingGoKeepsQueueInv
    <3>4. ASSUME NEW j \in JobIds, ClaimLost(w, j) PROVE QueueInv'
      <4>1. LetsGo(w)
        BY <3>4, GoOnLetsGo DEF ClaimLost
      <4>2. RowsMoveOn
        BY <3>4, UnchangedRowsMoveOn DEF ClaimLost
      <4>3. QED
        BY <4>1, <4>2, LettingGoKeepsQueueInv
    <3>5. ASSUME NEW j \in JobIds, ClaimUnavailable(w, j) PROVE QueueInv'
      <4>1. LetsGo(w)
        BY <3>5, GoOnLetsGo DEF ClaimUnavailable
      <4>2. RowsMoveOn
        BY <3>5 DEF ClaimUnavailable, ClaimUpdate, RowsMoveOn, TypeOK
      <4>3. QED
        BY <4>1, <4>2, LettingGoKeepsQueueInv
    <3>6. ASSUME NEW j \in JobIds, Claim(w, j) PROVE QueueInv'
      BY <3>6, ClaimKeepsQueueInv
    <3>7. CASE BeforeCall(w)
      <4>1. worker[w].pc \in Holding /\ UNCHANGED <<last, state, attempts, called>>
        BY <3>7 DEF BeforeCall, At, Holding
      <4>2. PICK change \in {[worker[w] EXCEPT !.pc = "fail"],
                             [worker[w] EXCEPT !.pc = "store", !.outcome = "skipped"]} :
              Step(w, change)
        BY <3>7 DEF BeforeCall
      <4>3. /\ change.pc # "pivot"
            /\ change.job = worker[w].job /\ change.stale = worker[w].stale
        BY DEF TypeOK, WorkerOK, Local
      <4>4. worker'[w] = change /\ \A v \in Workers : v # w => worker'[v] = worker[v]
        BY <4>2 DEF Step, TypeOK, WorkerOK
      <4>5. QED
        BY <4>1, <4>3, <4>4, HoldingOnKeepsQueueInv
    <3>8. CASE CallProvider(w)
      BY <3>8, HoldingOnKeepsQueueInv
      DEF CallProvider, At, Step, Holding, TypeOK, WorkerOK, Local
    <3>9. CASE CallReturns(w)
      <4>1. worker[w].pc \in Holding /\ UNCHANGED <<last, state, attempts, called>>
        BY <3>9 DEF CallReturns, At, Holding
      <4>2. PICK change \in {[worker[w] EXCEPT !.pc = "fail"],
                             [worker[w] EXCEPT !.pc = "store", !.outcome = "success"]} :
              Step(w, change)
        BY <3>9 DEF CallReturns
      <4>3. /\ change.pc # "pivot"
            /\ change.job = worker[w].job /\ change.stale = worker[w].stale
        BY DEF TypeOK, WorkerOK, Local
      <4>4. worker'[w] = change /\ \A v \in Workers : v # w => worker'[v] = worker[v]
        BY <4>2 DEF Step, TypeOK, WorkerOK
      <4>5. QED
        BY <4>1, <4>3, <4>4, HoldingOnKeepsQueueInv
    <3>10. CASE RecordJobFailure(w) \/ StoreWrite(w)
      <4>1. worker[w].pc \in Holding /\ worker[w].job \in JobIds
        BY <3>10 DEF RecordJobFailure, StoreWrite, At, Holding, TypeOK, WorkerOK, Local
      <4>2. PICK ended \in Terminal : state' = [state EXCEPT ![worker[w].job] = ended]
        BY <3>10 DEF RecordJobFailure, StoreWrite, At, Terminal, Outcome, TypeOK,
                     WorkerOK, Local
      <4>3. state[worker[w].job] # "absent" /\ state[worker[w].job] # "queued"
        BY <4>1 DEF QueueInv, ClaimsOK, Unclaimed
      <4>4. GoOn(w, worker[w].batch) /\ UNCHANGED <<last, attempts, called>>
        BY <3>10 DEF RecordJobFailure, StoreWrite
      <4>5. RowsMoveOn
        BY <4>1, <4>2, <4>3, <4>4 DEF RowsMoveOn, Terminal, TypeOK
      <4>6. QED
        BY <4>4, <4>5, GoOnLetsGo, LettingGoKeepsQueueInv
    <3>11. CASE StoreRead(w)
      <4>1. CASE GoOn(w, worker[w].batch)
        <5>1. RowsMoveOn
          BY <3>11, UnchangedRowsMoveOn DEF StoreRead
        <5>2. QED
          BY <4>1, <5>1, GoOnLetsGo, LettingGoKeepsQueueInv
      <4>2. CASE Step(w, [worker[w] EXCEPT !.pc = "write"])
        BY <3>11, <4>2, HoldingOnKeepsQueueInv
        DEF StoreRead, At, Step, Holding, TypeOK, WorkerOK, Local
      <4>3. QED
        BY <3>11, <4>1, <4>2 DEF StoreRead
    <3>12. QED
      BY <2>3, <3>1, <3>2, <3>3, <3>4, <3>5, <3>6, <3>7, <3>8, <3>9, <3>10, <3>11
      DEF RunOnce
  <2>4. ASSUME NEW w \in Workers, Crash(w) \/ Restart(w) PROVE QueueInv'
    <3>1. LetsGo(w)
      BY <2>4 DEF Crash, Restart, Step, Asleep, Holding, TypeOK, WorkerOK, LetsGo
    <3>2. RowsMoveOn
      BY <2>4, UnchangedRowsMoveOn DEF Crash, Restart
    <3>3. QED
      BY <3>1, <3>2, LettingGoKeepsQueueInv
  <2>5. ASSUME Tick PROVE QueueInv'
    BY <2>5 DEF Tick, QueueInv, ClaimsOK, ExclusiveClaim, SingleExecution, Unclaimed, Owns
  <2>6. CASE UNCHANGED vars
    BY <2>6 DEF vars, QueueInv, ClaimsOK, ExclusiveClaim, SingleExecution, Unclaimed, Owns
  <2>7. QED
    BY <2>1, <2>2, <2>3, <2>4, <2>5, <2>6 DEF Next
<1>3. QED
  BY <1>1, <1>2, TypeCorrect, PTL DEF Spec

\* No two workers hold one row at a time, whatever their number: the update of
\* a claim finds the row queued only once.
THEOREM OneHolderPerRow == Spec => []ExclusiveClaim
BY ClaimSafety, PTL DEF QueueInv

\* Nor is a row's provider ever called twice, one worker after the other.
THEOREM ExecutionIsExclusive == Spec => [](ExclusiveClaim /\ SingleExecution)
BY ClaimSafety, PTL DEF QueueInv

\* An insert takes a free id and leaves every other row in its state.
LEMMA InsertEndsNothing ==
  ASSUME TypeOK, QueueInv, NEW p, NEW trigger, Insert(p, trigger)
  PROVE  /\ last + 1 \in JobIds /\ state[last + 1] = "absent"
         /\ state' = [state EXCEPT ![last + 1] = "queued"]
         /\ \A j \in JobIds : j # last + 1 => state'[j] = state[j]
BY BoundsAssumption DEF TypeOK, QueueInv, ClaimsOK, Insert, JobIds

-----------------------------------------------------------------------------
(* One worker: rows end for good, and the queue implements JobLifecycle.   *)

\* SoleOwner for one worker.
SoleOwnerAt(w) ==
  /\ \A j \in worker[w].stale : state[j] = "running"
  /\ worker[w].pc \in Holding => state[worker[w].job] = "running"
  /\ worker[w].pc = "calling" => called[worker[w].job] = 1
  /\ worker[w].pc \in {"store", "write"} =>
       (worker[w].outcome = "success") = (called[worker[w].job] = 1)

LEMMA SoleOwnerIsLocal ==
  ASSUME OneWorker, NEW w \in Workers, SoleOwnerAt(w)'
  PROVE  SoleOwner'
<1>1. \A v \in Workers : v = w
  BY DEF OneWorker
<1>2. QED
  BY <1>1 DEF SoleOwner, SoleOwnerAt

\* What a worker leaves behind when it fails or has an outcome to store.
LEMMA AfterAnswer ==
  ASSUME TypeOK, NEW w \in Workers, NEW result \in {"success", "skipped"},
         \/ Step(w, [worker[w] EXCEPT !.pc = "store", !.outcome = result])
         \/ Step(w, [worker[w] EXCEPT !.pc = "fail"])
  PROVE  /\ worker'[w].stale = worker[w].stale /\ worker'[w].job = worker[w].job
         /\ worker'[w].pc \in {"fail", "store"}
         /\ worker'[w].pc = "store" => worker'[w].outcome = result
<1>1. worker[w] \in Local /\ \A change : Step(w, change) => worker'[w] = change
  BY DEF TypeOK, WorkerOK, Step
<1>2. CASE Step(w, [worker[w] EXCEPT !.pc = "store", !.outcome = result])
  BY <1>1, <1>2 DEF Local
<1>3. CASE Step(w, [worker[w] EXCEPT !.pc = "fail"])
  BY <1>1, <1>3 DEF Local
<1>4. QED
  BY <1>2, <1>3

\* A worker that lets go relies on nothing.
LEMMA SleepingOwnsNothing ==
  ASSUME TypeOK, NEW w \in Workers, NEW batch, GoOn(w, batch)
  PROVE  SoleOwnerAt(w)'
BY DEF TypeOK, WorkerOK, GoOn, Step, Asleep, Holding, SoleOwnerAt

\* Inserts and configuration changes leave the rows a worker relies on alone.
LEMMA OthersKeepSoleOwner ==
  ASSUME TypeOK, SoleOwner, NEW w \in Workers, UNCHANGED <<worker, called>>,
         \A j \in JobIds : state[j] = "running" => state'[j] = "running"
  PROVE  SoleOwnerAt(w)'
<1>1. worker[w].stale \subseteq JobIds
      /\ (worker[w].pc \in Holding => worker[w].job \in JobIds)
  BY DEF TypeOK, WorkerOK, Local
<1>2. QED
  BY <1>1 DEF SoleOwner, SoleOwnerAt

\* With one worker, a row that it holds, or is about to recover, is still
\* running: nobody else ends it in between.
THEOREM SoleOwnership ==
  ASSUME OneWorker
  PROVE  Spec => []SoleOwner
<1>1. Init => SoleOwner
  BY DEF Init, SoleOwner, Asleep, Holding
<1>2. TypeOK /\ QueueInv /\ SoleOwner /\ [Next]_vars => SoleOwner'
  <2> SUFFICES ASSUME TypeOK, QueueInv, SoleOwner, [Next]_vars
               PROVE  SoleOwner'
    OBVIOUS
  <2> SUFFICES ASSUME NEW u \in Workers
               PROVE  SoleOwner'
    BY DEF SoleOwner
  <2> USE DEF rows, history, config
  <2>1. ASSUME Queueing PROVE SoleOwner'
    <3>1. UNCHANGED <<worker, called>>
      BY <2>1 DEF Queueing, QueueConfiguredPivot, QueueByDomain, InsertByCandidate,
                  CheckByCandidate
    <3>2. UNCHANGED state \/ \E p, trigger : Insert(p, trigger)
      BY <2>1 DEF Queueing, QueueConfiguredPivot, QueueByDomain, InsertByCandidate,
                  CheckByCandidate
    <3>3. \A j \in JobIds : state[j] = "running" => state'[j] = "running"
      BY <3>2, InsertEndsNothing
    <3>4. QED
      BY <3>1, <3>3, OthersKeepSoleOwner, SoleOwnerIsLocal
  <2>2. ASSUME NEW k, ConfigureProvider(k) PROVE SoleOwner'
    BY <2>2, OthersKeepSoleOwner, SoleOwnerIsLocal DEF ConfigureProvider
  <2>3. ASSUME NEW w \in Workers, RunOnce(w) PROVE SoleOwner'
    <3> SUFFICES SoleOwnerAt(w)'
      BY SoleOwnerIsLocal
    <3>1. CASE FindStale(w)
      BY <3>1 DEF FindStale, Step, Asleep, Holding, TypeOK, WorkerOK, SoleOwnerAt
    <3>2. CASE FailStale(w)
      BY <3>2 DEF FailStale, Step, Asleep, Holding, TypeOK, WorkerOK, SoleOwnerAt
    <3>3. CASE SelectDue(w)
      BY <3>3, SleepingOwnsNothing DEF SelectDue
    <3>4. ASSUME NEW j \in JobIds, ClaimLost(w, j) PROVE SoleOwnerAt(w)'
      BY <3>4, SleepingOwnsNothing DEF ClaimLost
    <3>5. ASSUME NEW j \in JobIds, ClaimUnavailable(w, j) PROVE SoleOwnerAt(w)'
      BY <3>5, SleepingOwnsNothing DEF ClaimUnavailable
    <3>6. ASSUME NEW j \in JobIds, Claim(w, j) PROVE SoleOwnerAt(w)'
      BY <3>6 DEF Claim, ClaimUpdate, Step, Asleep, TypeOK, WorkerOK, SoleOwnerAt
    <3>7. CASE BeforeCall(w)
      <4>1. /\ worker[w].pc = "pivot" /\ called[worker[w].job] = 0
            /\ state[worker[w].job] = "running" /\ UNCHANGED <<state, called>>
        BY <3>7 DEF BeforeCall, At, Holding, SoleOwner, QueueInv, ClaimsOK
      <4>2. /\ worker'[w].stale = worker[w].stale /\ worker'[w].job = worker[w].job
            /\ worker'[w].pc \in {"fail", "store"}
            /\ worker'[w].pc = "store" => worker'[w].outcome = "skipped"
        BY <3>7, AfterAnswer DEF BeforeCall
      <4>3. QED
        BY <4>1, <4>2 DEF SoleOwner, SoleOwnerAt
    <3>8. CASE CallProvider(w)
      <4>1. /\ worker[w].pc = "pivot" /\ called[worker[w].job] = 0
            /\ state[worker[w].job] = "running" /\ worker[w].stale = worker'[w].stale
            /\ worker'[w].job = worker[w].job /\ worker'[w].pc = "calling"
            /\ UNCHANGED state /\ worker[w].job \in JobIds
        BY <3>8 DEF CallProvider, At, Step, Holding, TypeOK, WorkerOK, Local, SoleOwner,
                    QueueInv, ClaimsOK
      <4>2. called'[worker[w].job] = 1
        BY <3>8, <4>1 DEF CallProvider, TypeOK
      <4>3. QED
        BY <4>1, <4>2 DEF SoleOwner, SoleOwnerAt
    <3>9. CASE CallReturns(w)
      <4>1. /\ worker[w].pc = "calling" /\ called[worker[w].job] = 1
            /\ state[worker[w].job] = "running" /\ UNCHANGED <<state, called>>
        BY <3>9 DEF CallReturns, At, Holding, SoleOwner
      <4>2. /\ worker'[w].stale = worker[w].stale /\ worker'[w].job = worker[w].job
            /\ worker'[w].pc \in {"fail", "store"}
            /\ worker'[w].pc = "store" => worker'[w].outcome = "success"
        BY <3>9, AfterAnswer DEF CallReturns
      <4>3. QED
        BY <4>1, <4>2 DEF SoleOwner, SoleOwnerAt
    <3>10. CASE RecordJobFailure(w) \/ StoreWrite(w)
      BY <3>10, SleepingOwnsNothing DEF RecordJobFailure, StoreWrite
    <3>11. CASE StoreRead(w)
      <4>1. CASE GoOn(w, worker[w].batch)
        BY <4>1, SleepingOwnsNothing
      <4>2. CASE Step(w, [worker[w] EXCEPT !.pc = "write"])
        BY <3>11, <4>2 DEF StoreRead, At, Step, Holding, TypeOK, WorkerOK, Local, SoleOwner,
                           SoleOwnerAt
      <4>3. QED
        BY <3>11, <4>1, <4>2 DEF StoreRead
    <3>12. QED
      BY <2>3, <3>1, <3>2, <3>3, <3>4, <3>5, <3>6, <3>7, <3>8, <3>9, <3>10, <3>11
      DEF RunOnce
  <2>4. ASSUME NEW w \in Workers, Crash(w) \/ Restart(w) PROVE SoleOwner'
    <3>1. SoleOwnerAt(w)'
      BY <2>4 DEF Crash, Restart, Step, Asleep, Holding, TypeOK, WorkerOK, SoleOwnerAt
    <3>2. QED
      BY <3>1, SoleOwnerIsLocal
  <2>5. ASSUME Tick PROVE SoleOwner'
    BY <2>5, OthersKeepSoleOwner, SoleOwnerIsLocal DEF Tick
  <2>6. CASE UNCHANGED vars
    BY <2>6, OthersKeepSoleOwner, SoleOwnerIsLocal DEF vars
  <2>7. QED
    BY <2>1, <2>2, <2>3, <2>4, <2>5, <2>6 DEF Next
<1>3. QED
  BY <1>1, <1>2, TypeCorrect, ClaimSafety, PTL DEF Spec

\* Every step of the queue is a step of the lifecycle of its rows, or none.
LEMMA LifecycleStep ==
  ASSUME TypeOK, QueueInv, SoleOwner, [Next]_vars
  PROVE  Lifecycle!Next \/ UNCHANGED <<state, Executed>>
<1> USE DEF rows, history, config
<1>0. UNCHANGED called => UNCHANGED Executed
  BY DEF Executed
<1>1. ASSUME Queueing PROVE Lifecycle!Next \/ UNCHANGED <<state, Executed>>
  <2>1. UNCHANGED called
    BY <1>1 DEF Queueing, QueueConfiguredPivot, QueueByDomain, InsertByCandidate,
                CheckByCandidate
  <2>2. UNCHANGED state \/ \E p, trigger : Insert(p, trigger)
    BY <1>1 DEF Queueing, QueueConfiguredPivot, QueueByDomain, InsertByCandidate,
                CheckByCandidate
  <2>3. ASSUME NEW p, NEW trigger, Insert(p, trigger) PROVE Lifecycle!Queue(last + 1)
    BY <1>0, <2>1, <2>3, InsertEndsNothing DEF Lifecycle!Queue, Lifecycle!Move
  <2>4. last + 1 \in JobIds \/ UNCHANGED state
    BY <2>2, InsertEndsNothing
  <2>5. QED
    BY <1>0, <2>1, <2>2, <2>3, <2>4 DEF Lifecycle!Next
<1>2. ASSUME NEW w \in Workers, RunOnce(w)
      PROVE  Lifecycle!Next \/ UNCHANGED <<state, Executed>>
  <2>1. CASE FailStale(w)
    <3>1. /\ worker[w].stale \in SUBSET JobIds
          /\ \A j \in worker[w].stale : state[j] = "running"
      BY DEF TypeOK, WorkerOK, Local, SoleOwner
    <3>2. Lifecycle!Interrupt(worker[w].stale)
      BY <1>0, <2>1, <3>1 DEF FailStale, Lifecycle!Interrupt
    <3>3. QED
      BY <3>1, <3>2 DEF Lifecycle!Next
  <2>2. ASSUME NEW j \in JobIds, ClaimUnavailable(w, j) PROVE Lifecycle!Decline(j)
    BY <1>0, <2>2 DEF ClaimUnavailable, ClaimUpdate, Lifecycle!Decline, Lifecycle!Move
  <2>3. ASSUME NEW j \in JobIds, Claim(w, j) PROVE Lifecycle!Claim(j)
    BY <1>0, <2>3 DEF Claim, ClaimUpdate, Lifecycle!Claim, Lifecycle!Move
  <2>4. CASE CallProvider(w)
    <3>1. /\ worker[w].job \in JobIds /\ state[worker[w].job] = "running"
          /\ called[worker[w].job] = 0 /\ UNCHANGED state
      BY <2>4 DEF CallProvider, At, Holding, TypeOK, WorkerOK, Local, SoleOwner,
                  QueueInv, ClaimsOK
    <3>2. \A j \in JobIds : called'[j] = IF j = worker[w].job THEN 1 ELSE called[j]
      BY <2>4, <3>1 DEF CallProvider, TypeOK
    <3>3. Executed' = Executed \cup {worker[w].job} /\ worker[w].job \notin Executed
      BY <3>1, <3>2 DEF Executed
    <3>4. Lifecycle!Execute(worker[w].job)
      BY <3>1, <3>3 DEF Lifecycle!Execute
    <3>5. QED
      BY <3>1, <3>4 DEF Lifecycle!Next
  <2>5. CASE RecordJobFailure(w) \/ StoreWrite(w)
    <3>1. /\ worker[w].job \in JobIds /\ state[worker[w].job] = "running"
          /\ UNCHANGED called
      BY <2>5 DEF RecordJobFailure, StoreWrite, At, Holding, TypeOK, WorkerOK, Local,
                  SoleOwner
    <3>2. called[worker[w].job] \in {0, 1}
      BY <3>1 DEF QueueInv, SingleExecution, TypeOK
    <3>3. CASE RecordJobFailure(w)
      <4>1. Lifecycle!Finish(worker[w].job, "failed")
        BY <1>0, <3>1, <3>3 DEF RecordJobFailure, Lifecycle!Finish, Lifecycle!Move
      <4>2. QED
        BY <3>1, <4>1 DEF Lifecycle!Next, Lifecycle!Ended
    <3>4. CASE StoreWrite(w)
      <4>1. worker[w].outcome \in {"success", "skipped"}
        BY <3>4 DEF StoreWrite, At, TypeOK, WorkerOK, Local, Outcome
      <4>2. (worker[w].outcome = "success") = (called[worker[w].job] = 1)
        BY <3>4 DEF StoreWrite, At, SoleOwner
      <4>3. /\ worker[w].outcome = "success" => worker[w].job \in Executed
            /\ worker[w].outcome = "skipped" => worker[w].job \notin Executed
        BY <3>1, <3>2, <4>2 DEF Executed
      <4>4. state' = [state EXCEPT ![worker[w].job] = worker[w].outcome]
        BY <3>4 DEF StoreWrite
      <4>5. Lifecycle!Finish(worker[w].job, worker[w].outcome)
        BY <1>0, <3>1, <4>3, <4>4 DEF Lifecycle!Finish, Lifecycle!Move
      <4>6. QED
        BY <3>1, <4>1, <4>5 DEF Lifecycle!Next, Lifecycle!Ended
    <3>5. QED
      BY <2>5, <3>3, <3>4
  <2>6. ASSUME \/ FindStale(w) \/ SelectDue(w) \/ BeforeCall(w) \/ CallReturns(w)
               \/ StoreRead(w) \/ \E j \in JobIds : ClaimLost(w, j)
        PROVE  UNCHANGED <<state, Executed>>
    BY <1>0, <2>6 DEF FindStale, SelectDue, BeforeCall, CallReturns, StoreRead, ClaimLost
  <2>7. QED
    BY <1>2, <2>1, <2>2, <2>3, <2>4, <2>5, <2>6 DEF RunOnce, Lifecycle!Next
<1>3. ASSUME \/ \E k \in Kinds : ConfigureProvider(k)
             \/ \E w \in Workers : Crash(w) \/ Restart(w)
             \/ Tick \/ UNCHANGED vars
      PROVE  UNCHANGED <<state, Executed>>
  BY <1>0, <1>3 DEF ConfigureProvider, Crash, Restart, Tick, vars
<1>4. QED
  BY <1>1, <1>2, <1>3 DEF Next

\* With one worker, a row is created, claimed, executed and ended once each.
THEOREM QueueImplementsLifecycle ==
  ASSUME OneWorker
  PROVE  Spec => ImplementsLifecycle
<1>1. Init => Lifecycle!Init
  BY DEF Init, Lifecycle!Init, Executed
<1>2. TypeOK /\ QueueInv /\ SoleOwner /\ [Next]_vars => [Lifecycle!Next]_(Lifecycle!lifecycleVars)
  BY LifecycleStep DEF Lifecycle!lifecycleVars
<1>3. QED
  BY <1>1, <1>2, TypeCorrect, ClaimSafety, SoleOwnership, PTL
  DEF Spec, ImplementsLifecycle, Lifecycle!Spec

\* With one worker, a row that has ended never changes its state again.
THEOREM RowsEndForGood ==
  ASSUME OneWorker
  PROVE  Spec => EndedForGood
<1>1. ASSUME TypeOK, QueueInv, SoleOwner, [Next]_vars
      PROVE  \A j \in JobIds : state[j] \in Terminal => state'[j] = state[j]
  <2> SUFFICES ASSUME NEW j \in JobIds, state[j] \in Terminal, Lifecycle!Next
               PROVE  state'[j] = state[j]
    BY <1>1, LifecycleStep
  <2>1. state[j] \notin {"absent", "queued", "running"} /\ state \in [JobIds -> JobState]
    BY <1>1 DEF Terminal, TypeOK
  <2>2. ASSUME NEW i \in JobIds, NEW from \in {"absent", "queued", "running"}, NEW to,
               Lifecycle!Move(i, from, to)
        PROVE  state'[j] = state[j]
    BY <2>1, <2>2 DEF Lifecycle!Move
  <2>3. ASSUME NEW jobs \in SUBSET JobIds, Lifecycle!Interrupt(jobs)
        PROVE  state'[j] = state[j]
    BY <2>1, <2>3 DEF Lifecycle!Interrupt
  <2>4. QED
    BY <2>2, <2>3 DEF Lifecycle!Next, Lifecycle!Queue, Lifecycle!Claim, Lifecycle!Decline,
                      Lifecycle!Execute, Lifecycle!Finish
<1>2. QED
  BY <1>1, TypeCorrect, ClaimSafety, SoleOwnership, PTL DEF Spec, EndedForGood

-----------------------------------------------------------------------------
(* One worker: what a row says of its answer, and the cooldown.            *)

\* A step of the worker moves only active rows, a row becomes a success only
\* together with the commit of its answer, and ids, pairs and ages stay.
LEMMA RoundMoves ==
  ASSUME TypeOK, QueueInv, SoleOwner, NEW w \in Workers, RunOnce(w)
  PROVE  /\ \A j \in JobIds :
              \/ state'[j] = state[j] /\ (j \in stored' => j \in stored)
              \/ /\ state[j] \in Active /\ state'[j] # "success"
                 /\ (j \in stored' => j \in stored)
              \/ state[j] \in Active /\ state'[j] = "success" /\ j \in stored'
         /\ stored \subseteq stored'
         /\ UNCHANGED <<last, about, waited>>
<1> USE DEF rows, history, config, Active
<1>1. CASE FailStale(w)
  <2>1. \A j \in worker[w].stale : state[j] = "running"
    BY DEF SoleOwner
  <2>2. QED
    BY <1>1, <2>1 DEF FailStale
<1>2. ASSUME NEW i \in JobIds, ClaimUnavailable(w, i) \/ Claim(w, i)
      PROVE  /\ state[i] \in Active /\ state'[i] # "success"
             /\ \A j \in JobIds : j # i => state'[j] = state[j]
             /\ UNCHANGED <<stored, last, about, waited>>
  BY <1>2 DEF ClaimUnavailable, Claim, ClaimUpdate, TypeOK
<1>3. CASE RecordJobFailure(w)
  <2>1. state[worker[w].job] = "running"
    BY <1>3 DEF RecordJobFailure, At, Holding, SoleOwner
  <2>2. QED
    BY <1>3, <2>1 DEF RecordJobFailure, TypeOK
<1>4. CASE StoreWrite(w)
  <2>1. /\ state[worker[w].job] = "running" /\ worker[w].job \in JobIds
        /\ worker[w].outcome \in {"success", "skipped"}
    BY <1>4 DEF StoreWrite, At, Holding, SoleOwner, TypeOK, WorkerOK, Local, Outcome
  <2>2. /\ state' = [state EXCEPT ![worker[w].job] = worker[w].outcome]
        /\ stored' = IF worker[w].outcome = "success" THEN stored \cup {worker[w].job}
                                                      ELSE stored
        /\ UNCHANGED <<last, about, waited>>
    BY <1>4 DEF StoreWrite
  <2>3. QED
    BY <2>1, <2>2 DEF TypeOK
<1>5. ASSUME \/ FindStale(w) \/ SelectDue(w) \/ BeforeCall(w) \/ CallProvider(w)
             \/ CallReturns(w) \/ StoreRead(w) \/ \E i \in JobIds : ClaimLost(w, i)
      PROVE  UNCHANGED <<state, stored, last, about, waited>>
  BY <1>5 DEF FindStale, SelectDue, BeforeCall, CallProvider, CallReturns, StoreRead,
              ClaimLost
<1>6. QED
  BY <1>1, <1>2, <1>3, <1>4, <1>5 DEF RunOnce

\* Steps outside the round store nothing and end nothing: an insert, or rows
\* that keep their states.
LEMMA OutsideTheRound ==
  ASSUME TypeOK, QueueInv, [Next]_vars, ~ \E w \in Workers : RunOnce(w)
  PROVE  /\ UNCHANGED stored
         /\ \/ UNCHANGED <<last, state, about>>
            \/ \E p, trigger : Insert(p, trigger)
<1> USE DEF rows, history, config
<1>1. ASSUME Queueing
      PROVE  /\ UNCHANGED stored
             /\ UNCHANGED <<last, state, about>> \/ \E p, trigger : Insert(p, trigger)
  BY <1>1 DEF Queueing, QueueConfiguredPivot, QueueByDomain, InsertByCandidate,
              CheckByCandidate
<1>2. ASSUME \/ \E k \in Kinds : ConfigureProvider(k)
             \/ \E w \in Workers : Crash(w) \/ Restart(w)
             \/ Tick \/ UNCHANGED vars
      PROVE  UNCHANGED <<stored, last, state, about>>
  BY <1>2 DEF ConfigureProvider, Crash, Restart, Tick, vars
<1>3. QED
  BY <1>1, <1>2 DEF Next

\* With one worker, a row says success exactly when its provider's answer is in
\* the database: no recovery, failure or claim falls between the two.
THEOREM ResultsAreKept ==
  ASSUME OneWorker
  PROVE  Spec => []ResultIsKept
<1>1. Init => ResultIsKept
  BY DEF Init, ResultIsKept
<1>2. TypeOK /\ QueueInv /\ SoleOwner /\ ResultIsKept /\ [Next]_vars => ResultIsKept'
  <2> SUFFICES ASSUME TypeOK, QueueInv, SoleOwner, ResultIsKept, [Next]_vars
               PROVE  ResultIsKept'
    OBVIOUS
  <2>1. ASSUME NEW w \in Workers, RunOnce(w) PROVE ResultIsKept'
    <3> SUFFICES ASSUME NEW j \in JobIds
                 PROVE  /\ state'[j] = "success" => j \in stored'
                        /\ j \in stored' => state'[j] = "success"
      BY DEF ResultIsKept
    <3>1. /\ state[j] = "success" => j \in stored
          /\ j \in stored => state[j] = "success"
      BY DEF ResultIsKept
    <3>2. "success" \notin Active
      BY DEF Active
    <3>3. QED
      BY <2>1, <3>1, <3>2, RoundMoves
  <2>2. CASE ~ \E w \in Workers : RunOnce(w)
    <3>1. UNCHANGED stored
      BY <2>2, OutsideTheRound
    <3>2. CASE UNCHANGED state
      BY <3>1, <3>2 DEF ResultIsKept
    <3>3. ASSUME NEW p, NEW trigger, Insert(p, trigger) PROVE ResultIsKept'
      BY <3>1, <3>3, InsertEndsNothing DEF ResultIsKept, TypeOK
    <3>4. QED
      BY <2>2, <3>2, <3>3, OutsideTheRound
  <2>3. QED
    BY <2>1, <2>2
<1>3. QED
  BY <1>1, <1>2, TypeCorrect, ClaimSafety, SoleOwnership, PTL DEF Spec

\* An automatic row that is pending or has succeeded, created within the
\* cooldown: what the collector looks for before it queues another.
Blocking(j) ==
  Recent(j) /\ Automatic(j) /\ state[j] \in Active \cup {"success"}

\* The inductive form of OneRecentSuccess: a pair has one blocking row, which
\* may still be queued or running.
OneBlocking ==
  \A i, j \in JobIds :
    Blocking(i) /\ Blocking(j) /\ about[i].pair = about[j].pair => i = j

\* Rows that only age or end keep the invariant.
LEMMA AgeingKeepsOneBlocking ==
  ASSUME TypeOK, OneBlocking, UNCHANGED about,
         \A j \in JobIds : /\ waited'[j] \in Nat /\ waited[j] <= waited'[j]
                           /\ \/ state'[j] = state[j]
                              \/ state[j] \in Active
  PROVE  OneBlocking'
<1>1. \A j \in JobIds : Blocking(j)' => Blocking(j)
  <2> SUFFICES ASSUME NEW j \in JobIds, Blocking(j)'
               PROVE  Blocking(j)
    OBVIOUS
  <2>1. state[j] \in Active \cup {"success"} /\ state[j] # "absent"
    BY DEF Blocking, Active
  <2>2. waited[j] <= Cooldown
    BY BoundsAssumption DEF Blocking, Recent, TypeOK, Oldest
  <2>3. QED
    BY <2>1, <2>2 DEF Blocking, Recent, Exists, Automatic
<1>2. QED
  BY <1>1 DEF OneBlocking

\* A new row keeps it when it is not automatic, or its pair has no blocking row.
LEMMA InsertKeepsOneBlocking ==
  ASSUME TypeOK, QueueInv, OneBlocking, NEW p, NEW trigger, Insert(p, trigger),
         trigger = "certstream_match" =>
           \A j \in Matching(p, Active \cup {"success"}) : waited[j] > Cooldown
  PROVE  OneBlocking'
<1>0. PICK new \in JobIds : new = last + 1
  BY InsertEndsNothing
<1>1. /\ about'[new] = [pair |-> p, trigger |-> trigger]
      /\ \A j \in JobIds : j # new =>
           state'[j] = state[j] /\ about'[j] = about[j] /\ waited'[j] = waited[j]
  BY <1>0, InsertEndsNothing DEF Insert, TypeOK
<1>2. \A j \in JobIds : j # new /\ Blocking(j)' => Blocking(j)
  BY <1>1 DEF Blocking, Recent, Exists, Automatic
<1>3. \A j \in JobIds : Blocking(j) /\ about[j].pair = p => trigger # "certstream_match"
  <2> SUFFICES ASSUME NEW j \in JobIds, Blocking(j), about[j].pair = p,
                      waited[j] > Cooldown
               PROVE  FALSE
    BY DEF Blocking, Matching
  <2>1. QED
    BY BoundsAssumption DEF Blocking, Recent, TypeOK, Oldest
<1>4. Blocking(new)' => trigger = "certstream_match"
  BY <1>1 DEF Blocking, Automatic
<1>5. ASSUME NEW i \in JobIds, NEW j \in JobIds, Blocking(i)', Blocking(j)',
             about'[i].pair = about'[j].pair
      PROVE  i = j
  <2>1. CASE i = new /\ j # new
    BY <1>1, <1>2, <1>3, <1>4, <1>5, <2>1
  <2>2. CASE j = new /\ i # new
    BY <1>1, <1>2, <1>3, <1>4, <1>5, <2>2
  <2>3. CASE i # new /\ j # new
    BY <1>1, <1>2, <1>5, <2>3 DEF OneBlocking
  <2>4. QED
    BY <2>1, <2>2, <2>3
<1>6. QED
  BY <1>5 DEF OneBlocking

\* With one worker, at most one automatic enrichment of a pair per cooldown
\* succeeds, for every cooldown and whoever else queues the pair.
THEOREM CooldownHolds ==
  ASSUME OneWorker
  PROVE  Spec => []OneRecentSuccess
<1>1. Init => OneBlocking
  BY DEF Init, OneBlocking, Blocking, Recent, Exists
<1>2. TypeOK /\ QueueInv /\ SoleOwner /\ OneBlocking /\ [Next]_vars => OneBlocking'
  <2> SUFFICES ASSUME TypeOK, QueueInv, SoleOwner, OneBlocking, [Next]_vars
               PROVE  OneBlocking'
    OBVIOUS
  <2> USE DEF rows, history, config
  <2>1. \A j \in JobIds : waited[j] \in Nat
    BY BoundsAssumption DEF TypeOK, Oldest
  <2>2. ASSUME NEW w \in Workers, RunOnce(w) PROVE OneBlocking'
    BY <2>1, <2>2, RoundMoves, AgeingKeepsOneBlocking
  <2>3. ASSUME Queueing PROVE OneBlocking'
    <3>1. ASSUME NEW p \in Pair, QueueConfiguredPivot(p) PROVE OneBlocking'
      BY <3>1, InsertKeepsOneBlocking DEF QueueConfiguredPivot
    <3>2. ASSUME NEW p \in Pair, QueueByDomain(p) PROVE OneBlocking'
      BY <3>2, InsertKeepsOneBlocking DEF QueueByDomain
    <3>3. ASSUME NEW r \in Requests, InsertByCandidate(r) PROVE OneBlocking'
      BY <3>3, InsertKeepsOneBlocking DEF InsertByCandidate
    <3>4. ASSUME NEW r \in Requests, NEW p \in Pair, CheckByCandidate(r, p)
          PROVE  OneBlocking'
      BY <2>1, <3>4, AgeingKeepsOneBlocking DEF CheckByCandidate
    <3>5. QED
      BY <2>3, <3>1, <3>2, <3>3, <3>4 DEF Queueing
  <2>4. CASE Tick
    <3>1. \A j \in JobIds : waited'[j] \in Nat /\ waited[j] <= waited'[j]
      BY <2>1, <2>4, BoundsAssumption DEF Tick, Older, Oldest
    <3>2. QED
      BY <2>4, <3>1, AgeingKeepsOneBlocking DEF Tick
  <2>5. ASSUME \/ \E k \in Kinds : ConfigureProvider(k)
               \/ \E w \in Workers : Crash(w) \/ Restart(w)
               \/ UNCHANGED vars
        PROVE  OneBlocking'
    <3>1. UNCHANGED <<state, about, waited>>
      BY <2>5 DEF ConfigureProvider, Crash, Restart, vars
    <3>2. QED
      BY <2>1, <3>1, AgeingKeepsOneBlocking
  <2>6. QED
    BY <2>2, <2>3, <2>4, <2>5 DEF Next
<1>3. OneBlocking => OneRecentSuccess
  BY DEF OneBlocking, Blocking, OneRecentSuccess
<1>4. QED
  BY <1>1, <1>2, <1>3, TypeCorrect, ClaimSafety, SoleOwnership, PTL DEF Spec

=============================================================================
