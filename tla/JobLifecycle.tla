---------------------------- MODULE JobLifecycle ----------------------------
(***************************************************************************)
(* What a row of pivot_jobs promises, whoever processes it: it is created  *)
(* once, claimed at most once, its provider is executed at most once and   *)
(* only while it is running, and once it has ended it never changes again. *)
(* PivotQueue is shown to implement this for the supported topology of one *)
(* worker.                                                                 *)
(***************************************************************************)
CONSTANT JobIds

VARIABLES
  phase,      \* the state column of each job; "absent" before the insert
  executed    \* the jobs whose provider has been called

lifecycleVars == <<phase, executed>>

Ended == {"success", "failed", "skipped"}

Init ==
  /\ phase = [j \in JobIds |-> "absent"]
  /\ executed = {}

Move(j, from, to) ==
  /\ phase[j] = from
  /\ phase' = [phase EXCEPT ![j] = to]
  /\ UNCHANGED executed

Queue(j) == Move(j, "absent", "queued")

Claim(j) == Move(j, "queued", "running")

\* A claimed job whose provider is unavailable ends without being executed.
Decline(j) == Move(j, "queued", "skipped")

Execute(j) ==
  /\ phase[j] = "running"
  /\ j \notin executed
  /\ executed' = executed \cup {j}
  /\ UNCHANGED phase

\* Only an executed job succeeds; a job may be skipped only if it was not.
Finish(j, result) ==
  /\ result = "success" => j \in executed
  /\ result = "skipped" => j \notin executed
  /\ Move(j, "running", result)

\* Recovery ends any set of interrupted jobs in one transaction.
Interrupt(jobs) ==
  /\ \A j \in jobs : phase[j] = "running"
  /\ phase' = [j \in JobIds |-> IF j \in jobs THEN "failed" ELSE phase[j]]
  /\ UNCHANGED executed

Next ==
  \/ \E j \in JobIds :
       \/ Queue(j) \/ Claim(j) \/ Decline(j) \/ Execute(j)
       \/ \E result \in Ended : Finish(j, result)
  \/ \E jobs \in SUBSET JobIds : Interrupt(jobs)

Spec == Init /\ [][Next]_lifecycleVars

=============================================================================
