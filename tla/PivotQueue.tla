----------------------------- MODULE PivotQueue -----------------------------
(***************************************************************************)
(* The passive-pivot queue: rows of pivot_jobs, the three ways a row is    *)
(* inserted, and the workers that claim, execute and close rows.           *)
(*                                                                         *)
(* Transactions.  pysqlite opens a transaction at the first INSERT, UPDATE *)
(* or DELETE of a session, which takes SQLite's single writer lock; every  *)
(* SELECT before that sees the latest commit and holds nothing.  So a      *)
(* handler whose first statement writes is one action here, and a handler  *)
(* that reads before it writes is two: what it read may be out of date     *)
(* when it writes.  The ORM writes rows by primary key and never repeats a *)
(* condition it has read, so the second action does not either.            *)
(*                                                                         *)
(* Time is the age of each row, counted in ticks and capped at the first   *)
(* value where no comparison of the code can tell it from a larger one.    *)
(***************************************************************************)
EXTENDS Naturals, FiniteSets

CONSTANTS
  Candidates,   \* rows of candidates that pivots are queued for
  Kinds,        \* PIVOT_PROVIDERS
  Workers,      \* worker processes (the supported topology has one)
  Requests,     \* console requests that queue a pivot by candidate_id
  MaxJobs,      \* bound: rows ever inserted
  MaxCrashes,   \* bound: worker processes lost
  BatchSize,    \* run_once(limit)
  StaleAfter,   \* 15 minutes, in ticks
  Cooldown,     \* 24 hours, in ticks
  NoPair        \* the absence of a candidate and provider

JobIds == 1 .. MaxJobs
NoJob  == 0
Pair   == [candidate : Candidates, kind : Kinds]

ASSUME BoundsAssumption ==
  /\ MaxJobs \in Nat /\ MaxCrashes \in Nat
  /\ BatchSize \in Nat \ {0}
  /\ StaleAfter \in Nat /\ Cooldown \in Nat

ASSUME NoPairAssumption == NoPair \notin Pair

VARIABLES
  last,      \* highest id handed out: rows 1 .. last exist
  state,     \* pivot_jobs.state, "absent" for an id not handed out
  about,     \* candidate, provider and trigger of the row
  attempts,  \* pivot_jobs.attempts
  waited,    \* age of created_at
  ran,       \* age of started_at
  enabled,   \* Provider.enabled
  keyed,     \* a usable credential exists for the provider
  called,    \* history: times the provider was called for the row
  stored,    \* history: rows whose provider result was committed
  worker,    \* program counter and locals of each worker
  request,   \* what a candidate_id request has read and not yet written
  crashes    \* worker processes lost so far

rows    == <<last, state, about, attempts, waited, ran>>
history == <<called, stored>>
config  == <<enabled, keyed>>
vars    == <<rows, history, config, worker, request, crashes>>

Active   == {"queued", "running"}
Terminal == {"success", "failed", "skipped"}
JobState == {"absent"} \cup Active \cup Terminal

About    == [pair : Pair \cup {NoPair}, trigger : {"none", "manual", "certstream_match"}]
Oldest   == Cooldown + 1
Overdue  == StaleAfter + 1

\* Program counters: what a worker does next.
Holding  == {"pivot", "calling", "store", "write", "fail"}
Phase    == {"sleep", "recover", "select", "claim", "down"} \cup Holding
Outcome  == {"none", "success", "skipped"}
Local    == [pc : Phase, stale : SUBSET JobIds, batch : SUBSET JobIds,
             job : JobIds \cup {NoJob}, secret : BOOLEAN, outcome : Outcome]
Asleep   == [pc |-> "sleep", stale |-> {}, batch |-> {}, job |-> NoJob,
             secret |-> FALSE, outcome |-> "none"]

Exists(j)    == state[j] # "absent"
Matching(p, states) == {j \in JobIds : about[j].pair = p /\ state[j] \in states}

-----------------------------------------------------------------------------
(* Queueing.                                                               *)

Configured(p) == enabled[p.kind] /\ keyed[p.kind]

Insert(p, trigger) ==
  /\ last < MaxJobs
  /\ last'  = last + 1
  /\ state' = [state EXCEPT ![last + 1] = "queued"]
  /\ about' = [about EXCEPT ![last + 1] = [pair |-> p, trigger |-> trigger]]
  /\ UNCHANGED <<attempts, waited, ran>>

\* Mutant: a recent success does not stop the next automatic job.
QueueConfiguredPivotAfterSuccess(p) ==
  /\ Configured(p)
  /\ \A j \in Matching(p, Active) : waited[j] > Cooldown
  /\ Insert(p, "certstream_match")
  /\ UNCHANGED <<history, config, worker, request, crashes>>

\* The collector stores a sighting, which takes the writer lock, and then
\* asks for one automatic job unless a recent one is pending or succeeded.
QueueConfiguredPivot(p) ==
  /\ Configured(p)
  /\ \A j \in Matching(p, Active \cup {"success"}) : waited[j] > Cooldown
  /\ Insert(p, "certstream_match")
  /\ UNCHANGED <<history, config, worker, request, crashes>>

\* A console request that names a domain ingests it first, so its test for
\* an active job and its insert are under the writer lock.
QueueByDomain(p) ==
  /\ Configured(p)
  /\ Matching(p, Active) = {}
  /\ Insert(p, "manual")
  /\ UNCHANGED <<history, config, worker, request, crashes>>

\* A console request that names a candidate only reads before the insert.
CheckByCandidate(r, p) ==
  /\ request[r] = NoPair
  /\ Configured(p)
  /\ Matching(p, Active) = {}
  /\ request' = [request EXCEPT ![r] = p]
  /\ UNCHANGED <<rows, history, config, worker, crashes>>

InsertByCandidate(r) ==
  /\ request[r] # NoPair
  /\ Insert(request[r], "manual")
  /\ request' = [request EXCEPT ![r] = NoPair]
  /\ UNCHANGED <<history, config, worker, crashes>>

\* The analyst enables or disables a provider, or sets or deletes its key.
ConfigureProvider(k) ==
  /\ \/ enabled' = [enabled EXCEPT ![k] = ~@] /\ UNCHANGED keyed
     \/ keyed' = [keyed EXCEPT ![k] = ~@] /\ UNCHANGED enabled
  /\ UNCHANGED <<rows, history, worker, request, crashes>>

-----------------------------------------------------------------------------
(* run_once: recover, select, then one job after another.                  *)

Step(w, change) == worker' = [worker EXCEPT ![w] = change]
At(w, phase)    == worker[w].pc = phase

\* The round goes on with what is left of the batch, or ends.
GoOn(w, batch) ==
  Step(w, [Asleep EXCEPT !.pc    = IF batch = {} THEN "sleep" ELSE "claim",
                         !.batch = batch])

\* Mutant: overdue rows are selected by started_at alone, in any state.
FindStaleInAnyState(w) ==
  /\ At(w, "sleep")
  /\ LET overdue == {j \in JobIds : ran[j] > StaleAfter}
     IN  Step(w, [Asleep EXCEPT !.pc = IF overdue = {} THEN "select" ELSE "recover",
                                !.stale = overdue])
  /\ UNCHANGED <<rows, history, config, request, crashes>>

\* _recover_stale_jobs reads the overdue rows ...
FindStale(w) ==
  /\ At(w, "sleep")
  /\ LET overdue == {j \in JobIds : state[j] = "running" /\ ran[j] > StaleAfter}
     IN  Step(w, [Asleep EXCEPT !.pc = IF overdue = {} THEN "select" ELSE "recover",
                                !.stale = overdue])
  /\ UNCHANGED <<rows, history, config, request, crashes>>

\* Mutant: recovery queues interrupted rows again.
FailStaleRequeues(w) ==
  /\ At(w, "recover")
  /\ state' = [j \in JobIds |-> IF j \in worker[w].stale THEN "queued" ELSE state[j]]
  /\ Step(w, [Asleep EXCEPT !.pc = "select"])
  /\ UNCHANGED <<last, about, attempts, waited, ran, history, config, request, crashes>>

\* ... and its commit fails them all, whatever has become of them since.
FailStale(w) ==
  /\ At(w, "recover")
  /\ state' = [j \in JobIds |-> IF j \in worker[w].stale THEN "failed" ELSE state[j]]
  /\ Step(w, [Asleep EXCEPT !.pc = "select"])
  /\ UNCHANGED <<last, about, attempts, waited, ran, history, config, request, crashes>>

\* ids follow created_at, so the oldest queued rows have the lowest ids.
Due == {j \in JobIds : state[j] = "queued"}

SelectDue(w) ==
  /\ At(w, "select")
  /\ LET batch == {j \in Due : Cardinality({i \in Due : i < j}) < BatchSize}
     IN  GoOn(w, batch)
  /\ UNCHANGED <<rows, history, config, request, crashes>>

NextInBatch(w, j) == j \in worker[w].batch /\ \A i \in worker[w].batch : j <= i

After(w, j) == worker[w].batch \ {j}

\* The conditional UPDATE changed no row: another worker was first.
ClaimLost(w, j) ==
  /\ At(w, "claim") /\ NextInBatch(w, j)
  /\ state[j] # "queued"
  /\ GoOn(w, After(w, j))
  /\ UNCHANGED <<rows, history, config, request, crashes>>

\* Mutant: the UPDATE is by primary key only.
ClaimUpdateUnconditional(j, next) ==
  /\ state'    = [state EXCEPT ![j] = next]
  /\ attempts' = [attempts EXCEPT ![j] = @ + 1]
  /\ ran'      = [ran EXCEPT ![j] = 0]
  /\ UNCHANGED <<last, about, waited>>

ClaimUpdate(j, next) ==
  /\ state[j] = "queued"
  /\ state'    = [state EXCEPT ![j] = next]
  /\ attempts' = [attempts EXCEPT ![j] = @ + 1]
  /\ ran'      = [ran EXCEPT ![j] = 0]
  /\ UNCHANGED <<last, about, waited>>

\* Mutant: the job of a disabled provider is left for later.
ClaimUnavailableWaits(w, j) ==
  /\ At(w, "claim") /\ NextInBatch(w, j)
  /\ ~ enabled[about[j].pair.kind]
  /\ GoOn(w, After(w, j))
  /\ UNCHANGED <<rows, history, config, request, crashes>>

\* The row is claimed and, in the same transaction, skipped when its
\* provider has been disabled since it was queued.
ClaimUnavailable(w, j) ==
  /\ At(w, "claim") /\ NextInBatch(w, j)
  /\ ~ enabled[about[j].pair.kind]
  /\ ClaimUpdate(j, "skipped")
  /\ GoOn(w, After(w, j))
  /\ UNCHANGED <<history, config, request, crashes>>

Claim(w, j) ==
  /\ At(w, "claim") /\ NextInBatch(w, j)
  /\ enabled[about[j].pair.kind]
  /\ ClaimUpdate(j, "running")
  /\ Step(w, [Asleep EXCEPT !.pc = "pivot", !.batch = After(w, j), !.job = j,
                            !.secret = keyed[about[j].pair.kind]])
  /\ UNCHANGED <<history, config, request, crashes>>

\* Mutant: without a key there is nothing to store, not even that it was skipped.
BeforeCallWithoutOutcome(w) ==
  /\ At(w, "pivot")
  /\ \/ /\ worker[w].secret
        /\ Step(w, [worker[w] EXCEPT !.pc = "fail"])
     \/ /\ ~ worker[w].secret
        /\ Step(w, [worker[w] EXCEPT !.pc = "store"])
  /\ UNCHANGED <<rows, history, config, request, crashes>>

\* _provider_secret and the adapter: a key that cannot be decrypted or an
\* invalid query raises, no key is a skip, and neither reaches the provider.
BeforeCall(w) ==
  /\ At(w, "pivot")
  /\ \/ /\ worker[w].secret
        /\ Step(w, [worker[w] EXCEPT !.pc = "fail"])
     \/ /\ ~ worker[w].secret
        /\ Step(w, [worker[w] EXCEPT !.pc = "store", !.outcome = "skipped"])
  /\ UNCHANGED <<rows, history, config, request, crashes>>

CallProvider(w) ==
  /\ At(w, "pivot") /\ worker[w].secret
  /\ called' = [called EXCEPT ![worker[w].job] = @ + 1]
  /\ Step(w, [worker[w] EXCEPT !.pc = "calling"])
  /\ UNCHANGED <<rows, stored, config, request, crashes>>

\* The provider answers, or its bounded retries end in an exception.
CallReturns(w) ==
  /\ At(w, "calling")
  /\ \/ Step(w, [worker[w] EXCEPT !.pc = "store", !.outcome = "success"])
     \/ Step(w, [worker[w] EXCEPT !.pc = "fail"])
  /\ UNCHANGED <<rows, history, config, request, crashes>>

\* _record_job_failure does not look at the state the row is in.
RecordJobFailure(w) ==
  /\ At(w, "fail")
  /\ state' = [state EXCEPT ![worker[w].job] = "failed"]
  /\ GoOn(w, worker[w].batch)
  /\ UNCHANGED <<last, about, attempts, waited, ran, history, config, request, crashes>>

\* _store_pivot_outcome reads the row first: a row that is no longer
\* running is left alone.
StoreRead(w) ==
  /\ At(w, "store")
  /\ IF state[worker[w].job] = "running"
       THEN Step(w, [worker[w] EXCEPT !.pc = "write"])
       ELSE GoOn(w, worker[w].batch)
  /\ UNCHANGED <<rows, history, config, request, crashes>>

StoreWrite(w) ==
  /\ At(w, "write")
  /\ state'  = [state EXCEPT ![worker[w].job] = worker[w].outcome]
  /\ stored' = IF worker[w].outcome = "success" THEN stored \cup {worker[w].job} ELSE stored
  /\ GoOn(w, worker[w].batch)
  /\ UNCHANGED <<last, about, attempts, waited, ran, called, config, request, crashes>>

-----------------------------------------------------------------------------
(* The process is killed, or run_once raises (loop does not catch it): an  *)
(* open transaction is rolled back and the locals are gone.                *)

Crash(w) ==
  /\ ~ At(w, "down")
  /\ crashes < MaxCrashes
  /\ crashes' = crashes + 1
  /\ Step(w, [Asleep EXCEPT !.pc = "down"])
  /\ UNCHANGED <<rows, history, config, request>>

Restart(w) ==
  /\ At(w, "down")
  /\ Step(w, Asleep)
  /\ UNCHANGED <<rows, history, config, request, crashes>>

Older(age, cap) == IF age < cap THEN age + 1 ELSE age

Tick ==
  /\ waited' = [j \in JobIds |-> IF Exists(j) THEN Older(waited[j], Oldest) ELSE waited[j]]
  /\ ran'    = [j \in JobIds |-> IF state[j] = "running" THEN Older(ran[j], Overdue) ELSE ran[j]]
  /\ UNCHANGED <<last, state, about, attempts, history, config, worker, request, crashes>>

-----------------------------------------------------------------------------

Init ==
  /\ last = 0
  /\ state    = [j \in JobIds |-> "absent"]
  /\ about    = [j \in JobIds |-> [pair |-> NoPair, trigger |-> "none"]]
  /\ attempts = [j \in JobIds |-> 0]
  /\ waited   = [j \in JobIds |-> 0]
  /\ ran      = [j \in JobIds |-> 0]
  /\ enabled  = [k \in Kinds |-> TRUE]
  /\ keyed    = [k \in Kinds |-> TRUE]
  /\ called   = [j \in JobIds |-> 0]
  /\ stored   = {}
  /\ worker   = [w \in Workers |-> Asleep]
  /\ request  = [r \in Requests |-> NoPair]
  /\ crashes  = 0

Queueing ==
  \/ \E p \in Pair : QueueConfiguredPivot(p) \/ QueueByDomain(p)
  \/ \E r \in Requests : InsertByCandidate(r) \/ \E p \in Pair : CheckByCandidate(r, p)

RunOnce(w) ==
  \/ FindStale(w) \/ FailStale(w) \/ SelectDue(w)
  \/ \E j \in JobIds : ClaimLost(w, j) \/ ClaimUnavailable(w, j) \/ Claim(w, j)
  \/ BeforeCall(w) \/ CallProvider(w) \/ CallReturns(w)
  \/ RecordJobFailure(w) \/ StoreRead(w) \/ StoreWrite(w)

Next ==
  \/ Queueing
  \/ \E k \in Kinds : ConfigureProvider(k)
  \/ \E w \in Workers : RunOnce(w) \/ Crash(w) \/ Restart(w)
  \/ Tick

Spec == Init /\ [][Next]_vars

\* The loop runs for ever, every await of a round has a timeout, the process
\* is restarted (compose.yaml: restart: unless-stopped), and time passes.
Fairness ==
  /\ \A w \in Workers : WF_vars(RunOnce(w)) /\ WF_vars(Restart(w))
  /\ WF_vars(Tick)

FairSpec == Spec /\ Fairness

-----------------------------------------------------------------------------
(* Properties.                                                             *)

\* A worker that holds a claim has a job, and one that stores a result has one.
WorkerOK ==
  /\ worker \in [Workers -> Local]
  /\ \A w \in Workers :
       /\ worker[w].pc \in Holding => worker[w].job # NoJob
       /\ worker[w].pc \in {"store", "write"} => worker[w].outcome # "none"

\* Columns, ages and locals stay within the values the code gives them, and
\* a queued row names the candidate and provider it is for.
TypeOK ==
  /\ last \in 0 .. MaxJobs
  /\ state \in [JobIds -> JobState]
  /\ about \in [JobIds -> About]
  /\ \A j \in JobIds : state[j] = "queued" => about[j].pair \in Pair
  /\ attempts \in [JobIds -> Nat]
  /\ waited \in [JobIds -> 0 .. Oldest]
  /\ ran \in [JobIds -> 0 .. Overdue]
  /\ enabled \in [Kinds -> BOOLEAN]
  /\ keyed \in [Kinds -> BOOLEAN]
  /\ called \in [JobIds -> Nat]
  /\ stored \subseteq JobIds
  /\ WorkerOK
  /\ request \in [Requests -> Pair \cup {NoPair}]
  /\ crashes \in 0 .. MaxCrashes

Owns(w, j) == worker[w].pc \in Holding /\ worker[w].job = j

\* Two workers never process the same row, even two that read it as due in
\* the same instant (worker.py: "exactly one can change it to running").
ExclusiveClaim ==
  \A v, w \in Workers, j \in JobIds : Owns(v, j) /\ Owns(w, j) => v = w

\* A row is claimed at most once and its provider is called at most once,
\* across crashes, restarts, recovery and any number of workers.
SingleExecution ==
  \A j \in JobIds : called[j] <= attempts[j] /\ attempts[j] <= 1

\* Why: a row no one has claimed has no attempt, every row a worker holds or
\* is about to recover has been claimed, and a worker about to call a provider
\* holds the only attempt there will be.
Unclaimed(j) == state[j] \in {"absent", "queued"}

ClaimsOK ==
  /\ \A j \in JobIds : j > last => state[j] = "absent"
  /\ \A j \in JobIds : Unclaimed(j) => attempts[j] = 0
  /\ \A w \in Workers :
       /\ \A j \in worker[w].stale : ~ Unclaimed(j)
       /\ worker[w].pc \in Holding => ~ Unclaimed(worker[w].job)
       /\ worker[w].pc = "pivot" => attempts[worker[w].job] = 1 /\ called[worker[w].job] = 0

QueueInv == ClaimsOK /\ ExclusiveClaim /\ SingleExecution

\* The supported topology (DEPLOYMENT.md: "one web process and one worker").
OneWorker == \A v, w \in Workers : v = w

\* What one worker may rely on between its reads and its writes: the row it
\* holds and the rows it recovers are still running, and the answer it stores
\* is the answer to a call it has made.
SoleOwner ==
  \A w \in Workers :
    /\ \A j \in worker[w].stale : state[j] = "running"
    /\ worker[w].pc \in Holding => state[worker[w].job] = "running"
    /\ worker[w].pc = "calling" => called[worker[w].job] = 1
    /\ worker[w].pc \in {"store", "write"} =>
         (worker[w].outcome = "success") = (called[worker[w].job] = 1)

\* A row that has ended keeps the state it ended in, so that the audit trail
\* of a pivot is never rewritten by recovery or by a late answer.
EndedForGood ==
  [][\A j \in JobIds : state[j] \in Terminal => state'[j] = state[j]]_vars

\* A row is marked success exactly when its provider's answer was committed.
ResultIsKept ==
  \A j \in JobIds : state[j] = "success" <=> j \in stored

\* PROVIDERS.md: "active manual jobs are deduplicated": a pair never has two
\* manual jobs that are queued or running.
ManualDeduplicated ==
  \A i, j \in JobIds :
    /\ state[i] \in Active /\ state[j] \in Active
    /\ about[i] = about[j] /\ about[i].trigger = "manual"
    => i = j

Recent(j) == Exists(j) /\ waited[j] <= Cooldown
Automatic(j) == about[j].trigger = "certstream_match"

\* At most one automatic enrichment of a pair per cooldown succeeds, however
\* its earlier attempts ended and whoever else queues the pair.
OneRecentSuccess ==
  \A i, j \in JobIds :
    /\ Recent(i) /\ Recent(j) /\ Automatic(i) /\ Automatic(j)
    /\ state[i] = "success" /\ state[j] = "success"
    /\ about[i].pair = about[j].pair
    => i = j

\* Every queued row ends, although workers crash and providers are disabled
\* or fail while it waits.
QueuedJobsEnd ==
  \A j \in JobIds : state[j] = "queued" ~> state[j] \in Terminal

\* One worker's queue implements the lifecycle every row promises.
Executed == {j \in JobIds : called[j] > 0}

Lifecycle == INSTANCE JobLifecycle WITH phase <- state, executed <- Executed

ImplementsLifecycle == Lifecycle!Spec

=============================================================================
