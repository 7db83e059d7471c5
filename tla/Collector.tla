------------------------------ MODULE Collector ------------------------------
(***************************************************************************)
(* One collector at work, window after window: the row of collection_runs  *)
(* it opens and closes, the matches it has flushed and not committed, the  *)
(* writer lock they hold, the status it mirrors into its provider row, and *)
(* what the database, the network, the operator and the process do to it.  *)
(*                                                                         *)
(* The rows before the latest matter only if they were left running: those *)
(* are counted.  What a window stores is the number of its messages that   *)
(* are in the open transaction; ReviewDesk says which candidates they are. *)
(***************************************************************************)
EXTENDS Naturals

CONSTANTS
  CommitEvery,   \* messages between two commits (100)
  MaxRefusals,   \* bound: writes the database refuses
  MaxLosses      \* bound: processes interrupted or lost

ASSUME CollectorAssumption ==
  CommitEvery \in Nat \ {0} /\ MaxRefusals \in Nat /\ MaxLosses \in Nat

VARIABLES
  stage,       \* what the collector does next
  outcome,     \* run.state in memory
  latest,      \* committed: the latest run's state, and whether it has finished_at
  stuck,       \* committed: earlier runs left in state running
  messages,    \* messages since the last commit
  matched,     \* whether the window has stored a match
  holding,     \* whether the open transaction has written: the writer lock is held
  listened,    \* history: whether the window was connected
  broken,      \* whether the session refuses to go on until it is rolled back
  enabled,     \* Provider.enabled
  shown,       \* Provider.last_status
  refusals,    \* writes refused so far
  losses,      \* processes interrupted or lost so far
  unseen       \* history: runs opened since a status was last mirrored

run    == <<outcome, messages, matched, holding, listened, broken>>
stored == <<latest, stuck>>
faults == <<refusals, losses>>
provider == <<enabled, shown>>

collectorVars == <<stage, run, stored, provider, faults, unseen>>

Ended    == {"success", "healthy_empty", "skipped", "failed"}
RunState == {"running"} \cup Ended
Stage    == {"begin", "open", "load", "connect", "listen", "finish", "mirror",
             "pause", "cancelled", "leave", "down"}

Never == [state |-> "none", finished |-> FALSE]

-----------------------------------------------------------------------------
(* Opening a window.                                                       *)

\* A disabled provider is passed over: no run, and no status.
ReadProvider ==
  /\ stage = "begin"
  /\ stage' = IF enabled THEN "open" ELSE "pause"
  /\ UNCHANGED <<run, stored, provider, faults, unseen>>

\* The run is inserted and committed before anything else.
OpenRun ==
  /\ stage = "open"
  /\ latest' = [state |-> "running", finished |-> FALSE]
  /\ stuck' = IF latest.state = "running" THEN stuck + 1 ELSE stuck
  /\ outcome' = "running" /\ messages' = 0
  /\ matched' = FALSE /\ holding' = FALSE /\ listened' = FALSE /\ broken' = FALSE
  /\ unseen' = unseen + 1
  /\ stage' = "load"
  /\ UNCHANGED <<provider, faults>>

End(state) ==
  /\ outcome' = state
  /\ stage' = "finish"

\* Without an enabled target there is nothing to listen for.
LoadPolicy ==
  /\ stage = "load"
  /\ \/ End("skipped")
     \/ stage' = "connect" /\ UNCHANGED outcome
  /\ UNCHANGED <<messages, matched, holding, listened, broken, stored, provider, faults, unseen>>

\* The handshake succeeds, fails, or runs into open_timeout, whose exception
\* is a TimeoutError like the one of the window itself.
Connect ==
  /\ stage = "connect"
  /\ \/ stage' = "listen" /\ listened' = TRUE /\ UNCHANGED outcome
     \/ End("failed") /\ UNCHANGED listened
     \/ End("healthy_empty") /\ UNCHANGED listened
  /\ UNCHANGED <<messages, matched, holding, broken, stored, provider, faults, unseen>>

-----------------------------------------------------------------------------
(* Listening.                                                              *)

\* Mutant: the commit comes one message late.
CountMessageLate(match) ==
  LET commit == messages = CommitEvery IN
  /\ messages' = IF commit THEN 0 ELSE messages + 1
  /\ holding'  = (~ commit /\ (holding \/ match))

\* Every CommitEvery messages the transaction is committed.
CountMessage(match) ==
  LET commit == messages + 1 = CommitEvery IN
  /\ messages' = IF commit THEN 0 ELSE messages + 1
  /\ holding'  = (~ commit /\ (holding \/ match))

\* The first match after a commit takes the writer lock and keeps it.
Receive(match) ==
  /\ stage = "listen"
  /\ CountMessage(match)
  /\ matched' = (matched \/ match)
  /\ UNCHANGED <<stage, outcome, listened, broken, stored, provider, faults, unseen>>

\* Mutant: the end of the window does not decide the run's state.
WindowEndsUndecided ==
  /\ stage = "listen"
  /\ End(outcome)
  /\ UNCHANGED <<messages, matched, holding, listened, broken, stored, provider, faults, unseen>>

\* Mutant: the clock is read only after a commit.
WindowEndsAtCommit ==
  /\ stage = "listen" /\ messages = 0
  /\ End(IF matched THEN "success" ELSE "healthy_empty")
  /\ UNCHANGED <<messages, matched, holding, listened, broken, stored, provider, faults, unseen>>

\* The window's time is over or the stream is closed in order ...
WindowEnds ==
  /\ stage = "listen"
  /\ End(IF matched THEN "success" ELSE "healthy_empty")
  /\ UNCHANGED <<messages, matched, holding, listened, broken, stored, provider, faults, unseen>>

\* ... or the connection is lost.
Disconnect ==
  /\ stage = "listen"
  /\ End("failed")
  /\ UNCHANGED <<messages, matched, holding, listened, broken, stored, provider, faults, unseen>>

-----------------------------------------------------------------------------
(* Closing a window.                                                       *)

\* The last commit writes the run and whatever is still in the transaction.
\* A session that a failed flush has broken refuses it and raises.
Finish ==
  /\ stage \in {"finish", "cancelled"}
  /\ latest' = IF broken THEN latest ELSE [state |-> outcome, finished |-> TRUE]
  /\ holding' = FALSE /\ messages' = 0
  /\ stage' = IF stage = "finish" THEN "mirror" ELSE "leave"
  /\ UNCHANGED <<outcome, matched, listened, broken, stuck, provider, faults, unseen>>

\* Mutant: the oldest run is read instead of the latest.
UpdateStatusFromFirst ==
  /\ stage \in {"mirror", "leave"}
  /\ shown' = IF shown # "none" THEN shown ELSE latest.state
  /\ unseen' = 0
  /\ stage' = IF stage = "mirror" THEN "pause" ELSE "down"
  /\ UNCHANGED <<run, stored, enabled, faults>>

\* Whether collect returned or raised, the latest run's state becomes the
\* provider's, if there has been a run.
UpdateStatus ==
  /\ stage \in {"mirror", "leave"}
  /\ shown' = IF latest = Never THEN shown ELSE latest.state
  /\ unseen' = 0
  /\ stage' = IF stage = "mirror" THEN "pause" ELSE "down"
  /\ UNCHANGED <<run, stored, enabled, faults>>

\* run_once and the sleeps of the loop.
NextRound ==
  /\ stage = "pause"
  /\ stage' = "begin"
  /\ UNCHANGED <<run, stored, provider, faults, unseen>>

-----------------------------------------------------------------------------
(* Faults.                                                                 *)

WriteRefused == refusals < MaxRefusals /\ refusals' = refusals + 1 /\ UNCHANGED losses
Lose   == losses < MaxLosses /\ losses' = losses + 1 /\ UNCHANGED refusals

\* The insert of the run is refused: there is no run to close.
OpenRefused ==
  /\ stage = "open" /\ WriteRefused
  /\ stage' = "mirror"
  /\ UNCHANGED <<run, stored, provider, unseen>>

\* A flush or a periodic commit is refused (the lock is not had in time, or the
\* disk is full): the transaction is rolled back and its work is lost. A flush
\* leaves the session unusable; a commit may or may not.
StoreRefused ==
  /\ stage = "listen" /\ WriteRefused
  /\ End("failed")
  /\ \/ broken' = TRUE
     \/ broken' = FALSE /\ messages + 1 = CommitEvery
  /\ holding' = FALSE /\ messages' = 0
  /\ UNCHANGED <<matched, listened, stored, provider, unseen>>

\* The last flush or commit is refused: the run stays as it was opened and the
\* matches are lost. What it raises takes the place of an interruption, and
\* the loop takes it for a failed window.
FinishRefused ==
  /\ stage \in {"finish", "cancelled"} /\ ~ broken /\ WriteRefused
  /\ holding' = FALSE /\ messages' = 0
  /\ stage' = "mirror"
  /\ UNCHANGED <<outcome, matched, listened, broken, stored, provider, unseen>>

\* The write of the status is refused: the earlier one stays, and here too the
\* loop goes on, interrupted or not.
StatusRefused ==
  /\ stage \in {"mirror", "leave"} /\ latest # Never /\ WriteRefused
  /\ stage' = "pause"
  /\ UNCHANGED <<run, stored, provider, unseen>>

\* The operator interrupts the process: the cancelled task still commits.
Cancel ==
  /\ stage \in {"connect", "listen"} /\ Lose
  /\ stage' = "cancelled"
  /\ UNCHANGED <<run, stored, provider, unseen>>

\* The process is lost, and SQLite rolls its transaction back.
LoseCollector ==
  /\ stage # "down" /\ Lose
  /\ stage' = "down"
  /\ holding' = FALSE /\ messages' = 0
  /\ UNCHANGED <<outcome, matched, listened, broken, stored, provider, unseen>>

RestartCollector ==
  /\ stage = "down"
  /\ stage' = "begin"
  /\ UNCHANGED <<run, stored, provider, faults, unseen>>

-----------------------------------------------------------------------------
(* The console writes the provider row when it gets the writer lock.       *)

ConfigureProvider ==
  /\ ~ holding
  /\ enabled' = ~ enabled
  /\ UNCHANGED <<stage, run, stored, shown, faults, unseen>>

TestProvider ==
  /\ ~ holding
  /\ shown' = "ready"
  /\ UNCHANGED <<stage, run, stored, enabled, faults, unseen>>

-----------------------------------------------------------------------------

CollectorInit ==
  /\ stage = "begin"
  /\ outcome = "running" /\ messages = 0
  /\ matched = FALSE /\ holding = FALSE /\ listened = FALSE /\ broken = FALSE
  /\ latest = Never /\ stuck = 0
  /\ enabled \in BOOLEAN /\ shown = "none"
  /\ refusals = 0 /\ losses = 0 /\ unseen = 0

Round ==
  \/ ReadProvider \/ OpenRun \/ LoadPolicy \/ Connect
  \/ WindowEnds \/ Finish \/ UpdateStatus \/ NextRound \/ RestartCollector

Stream == Disconnect \/ \E match \in BOOLEAN : Receive(match)

CollectorNext ==
  \/ Round \/ Stream
  \/ OpenRefused \/ StoreRefused \/ FinishRefused \/ StatusRefused \/ Cancel \/ LoseCollector
  \/ ConfigureProvider \/ TestProvider

CollectorSpec == CollectorInit /\ [][CollectorNext]_collectorVars

\* The loop goes on for ever, a window is cut off by its timeout however busy
\* the stream is, and the process is restarted.
CollectorFairness == WF_collectorVars(Round)

CollectorFairSpec == CollectorSpec /\ CollectorFairness

-----------------------------------------------------------------------------
(* Properties.                                                             *)

CollectorTypeOK ==
  /\ stage \in Stage
  /\ outcome \in RunState
  /\ latest \in [state : RunState \cup {"none"}, finished : BOOLEAN]
  /\ stuck \in 0 .. MaxRefusals + MaxLosses
  /\ messages \in 0 .. CommitEvery
  /\ matched \in BOOLEAN /\ holding \in BOOLEAN /\ listened \in BOOLEAN /\ broken \in BOOLEAN
  /\ enabled \in BOOLEAN
  /\ shown \in RunState \cup {"none", "ready"}
  /\ refusals \in 0 .. MaxRefusals /\ losses \in 0 .. MaxLosses
  /\ unseen \in 0 .. 1 + MaxRefusals + MaxLosses

\* certstream.py: "Periodic commits bound the amount of work lost": whatever
\* happens, fewer than CommitEvery messages are in the open transaction.
LossIsBounded == messages < CommitEvery /\ (holding => messages > 0)

\* Only a fault leaves a run in state running for good, and it leaves one.
StuckRunsAreFaults ==
  stuck + (IF latest.state = "running" /\ stage \in {"mirror", "pause", "begin", "open", "down"}
             THEN 1 ELSE 0) <= refusals + losses

\* Between two windows the provider is behind its runs by no more of them than
\* there were faults, each of which can keep one status from it; and if it is
\* not behind, it shows its latest run, or that it was tested since.
StatusIsLatest ==
  stage \in {"pause", "begin"} =>
    /\ unseen <= refusals + losses
    /\ unseen = 0 /\ latest # Never => shown \in {latest.state, "ready"}

\* OPERATIONS.md: "healthy_empty means a bounded window produced no match":
\* no run is healthy that was never connected.
HealthyMeansListened ==
  latest.state = "healthy_empty" /\ stage = "mirror" => listened

\* Whatever a window has flushed is committed or lost, but never keeps the
\* lock for ever: not even if the stream goes silent after the match.
LockIsLetGo == holding ~> ~ holding

\* A failed or interrupted window is not the last one: while the provider
\* stays enabled, the latest run is closed again and again.
WindowsGoOn == <>[]enabled => []<>(latest.finished /\ latest.state \in Ended)

\* A status that a refused write or a lost process kept from the provider is
\* made good: while it stays enabled, the end of its latest run is shown to the
\* operator again and again.
StatusCatchesUp ==
  <>[]enabled => []<>(stage = "pause" /\ latest.finished /\ shown = latest.state)

=============================================================================
