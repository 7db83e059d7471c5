---------------------------- MODULE ProviderStatus ----------------------------
(***************************************************************************)
(* Calls of one passive provider, with the request loop and its budget,    *)
(* and the status of the provider's row, which the worker's jobs and the   *)
(* console's tests both write.                                             *)
(*                                                                         *)
(* A test loads the row before its call and writes it after; the worker    *)
(* loads and writes it after its own.  Both write the columns that differ  *)
(* from what they loaded, and the time, which always differs.              *)
(***************************************************************************)
EXTENDS Naturals, Sequences

CONSTANTS
  Callers,   \* "test", and the worker's jobs
  Budget,    \* MAX_PROVIDER_REQUESTS
  MaxCalls   \* bound: calls

Codes == {"provider_timeout", "provider_rate_limited", "provider_auth_failed"}

\* Answers of one request: timeouts and network errors, 429 and 5xx, any other
\* refusal or an unreadable body, and a good one.
Answers == {"timeout", "limited", "refused", "good"}

Outcomes == {<<"success", "none">>, <<"skipped", "missing_api_key">>}
              \cup {<<"failed", code>> : code \in Codes}

ASSUME CallsAssumption == Budget \in Nat \ {0} /\ MaxCalls \in Nat

VARIABLES
  shown,     \* last_status and last_message of the row
  call,      \* each caller: what it does next, the row it loaded, its requests
  calls      \* calls so far

callVars == <<shown, call, calls>>

NoCall == [at |-> "idle", loaded |-> <<>>, answers |-> <<>>, outcome |-> <<>>]
CallAt(c, point) == call[c].at = point

-----------------------------------------------------------------------------
(* _bounded_json, and what its callers make of it.                         *)

Transient(answer) == answer \in {"timeout", "limited"}

\* Mutant: every failure is tried again.
RetriesAnyFailure(answer, n) == answer # "good" /\ n < Budget

Retries(answer, n) == Transient(answer) /\ n < Budget

\* provider_error_code of what the last answer raises.
OutcomeOf(answer) ==
  CASE answer = "good"    -> <<"success", "none">>
    [] answer = "timeout" -> <<"failed", "provider_timeout">>
    [] answer = "limited" -> <<"failed", "provider_rate_limited">>
    [] OTHER              -> <<"failed", "provider_auth_failed">>

Request(c, answer) ==
  LET n == Len(call[c].answers) + 1 IN
  /\ CallAt(c, "calling")
  /\ call' = [call EXCEPT ![c].answers = Append(@, answer),
                          ![c].outcome = IF Retries(answer, n) THEN <<>> ELSE OutcomeOf(answer),
                          ![c].at = IF Retries(answer, n) THEN "calling" ELSE "called"]
  /\ UNCHANGED <<shown, calls>>

-----------------------------------------------------------------------------
\* A call begins, or has no key to begin with; a test has loaded the row.
Begin(c) ==
  /\ CallAt(c, "idle") /\ calls < MaxCalls
  /\ calls' = calls + 1
  /\ \E key \in BOOLEAN :
       call' = [call EXCEPT ![c] =
         [NoCall EXCEPT !.at = IF key THEN "calling" ELSE "called",
                        !.loaded = IF c = "test" THEN shown ELSE <<>>,
                        !.outcome = IF key THEN <<>> ELSE <<"skipped", "missing_api_key">>]]
  /\ UNCHANGED shown

\* The worker loads the row when the outcome is there.
LoadProvider(c) ==
  /\ CallAt(c, "called") /\ call[c].loaded = <<>>
  /\ call' = [call EXCEPT ![c].loaded = shown]
  /\ UNCHANGED <<shown, calls>>

\* A column keeps what another writer has put there if the outcome's value is the
\* one that was loaded: status and message may come from two outcomes.
Written(loaded, outcome) ==
  [i \in 1 .. 2 |-> IF outcome[i] = loaded[i] THEN shown[i] ELSE outcome[i]]

\* test_provider's tail, _store_pivot_outcome and _record_job_failure.
WriteStatus(c) ==
  /\ CallAt(c, "called") /\ call[c].loaded # <<>>
  /\ shown' = Written(call[c].loaded, call[c].outcome)
  /\ call' = [call EXCEPT ![c] = NoCall]
  /\ UNCHANGED calls

\* The process is lost, the job's row was failed meanwhile, or the lock is
\* not to be had.
GiveUp(c) ==
  /\ ~ CallAt(c, "idle")
  /\ call' = [call EXCEPT ![c] = NoCall]
  /\ UNCHANGED <<shown, calls>>

CallsInit ==
  /\ shown = <<"none", "none">>
  /\ call = [c \in Callers |-> NoCall]
  /\ calls = 0

CallsNext ==
  \E c \in Callers :
    \/ Begin(c) \/ LoadProvider(c) \/ WriteStatus(c) \/ GiveUp(c)
    \/ \E answer \in Answers : Request(c, answer)

CallsSpec == CallsInit /\ [][CallsNext]_callVars

-----------------------------------------------------------------------------
(* Properties.                                                             *)

\* PROVIDERS.md:27: a call makes at most three requests and repeats one only
\* after a timeout, a network error, a rate limit or a server error; once it
\* has no request left it has an outcome, so that "provider retry budget
\* exhausted" is never raised.
BudgetIsKept ==
  \A c \in Callers :
    LET answers == call[c].answers IN
    /\ Len(answers) <= Budget
    /\ \A i \in 1 .. Len(answers) - 1 : Transient(answers[i])
    /\ Len(answers) = Budget => ~ CallAt(c, "calling")

=============================================================================
