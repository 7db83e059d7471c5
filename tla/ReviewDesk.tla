----------------------------- MODULE ReviewDesk -----------------------------
(***************************************************************************)
(* The analyst's desk: candidates for one domain, the dispositions given   *)
(* to them, the append-only review events, and the policy (watched targets *)
(* and suppressions) that every disposition and every sighting re-reads.   *)
(*                                                                         *)
(* All candidates here share one canonical domain, so that every rule that *)
(* matches it is told apart by its scope alone, and what a target's row    *)
(* (its enabled flag, its name, aliases, keywords and threshold, and the   *)
(* official domains of all targets) makes of the domain is one set: the    *)
(* targets that would score it.                                            *)
(*                                                                         *)
(* A console request is one session: what it reads before its first write  *)
(* is not protected, its writes and what follows them are one transaction. *)
(* The ORM writes the columns whose value differs from the one it loaded.  *)
(***************************************************************************)
EXTENDS Naturals, Sequences, FiniteSets

CONSTANTS
  Candidates,   \* rows of candidates for the domain
  Targets,      \* rows of watch_targets
  Requests,     \* console requests in flight at once
  MaxRules,     \* bound: rows of suppressions
  MaxEvents,    \* bound: review events per candidate
  Global,       \* the scope of a rule without target_id
  NoTarget, NoCandidate

ASSUME ScopesAssumption ==
  /\ Global \notin Targets /\ NoTarget \notin Targets /\ Global # NoTarget
  /\ NoCandidate \notin Candidates
  /\ MaxRules \in Nat /\ MaxEvents \in Nat

VARIABLES
  status,    \* candidates.status, "absent" before the first sighting
  target,    \* candidates.target_id
  events,    \* review_events of each candidate, in order
  rules,     \* suppressions, in order of id
  watched,   \* the targets that would score the domain over their threshold
  window,    \* the policy the collector loaded when its window opened
  request    \* what each request has read

vars == <<status, target, events, rules, watched, window, request>>

Away    == {"false_positive", "closed"}
Visible == {"potential", "published"}
Status  == {"absent"} \cup Visible \cup Away
Action  == {"publish", "false_positive", "close", "restore"}
Scope   == Targets \cup {Global}

Rule  == [scope : Scope, candidate : Candidates \cup {NoCandidate}, enabled : BOOLEAN]
Event == [action : Action, previous : Status, new : Status]

\* REVIEW_STATUS_BY_ACTION; confirm and dismiss are publish and close.
StatusBy == [publish |-> "published", false_positive |-> "false_positive",
             close |-> "closed", restore |-> "potential"]

RuleIds == 1 .. Len(rules)
Linked(c) == {i \in RuleIds : rules[i].candidate = c /\ rules[i].enabled}

-----------------------------------------------------------------------------
(* The matching policy: exactly one target, not suppressed, scores it.     *)

Policy == [watched |-> watched,
           blocked |-> {rules[i].scope : i \in {i \in RuleIds : rules[i].enabled}}]

Ranked(policy) == policy.watched \ policy.blocked

Accepts(policy, t) == Global \notin policy.blocked /\ Ranked(policy) = {t}

\* The policy once the rules in the given set have been disabled.
PolicyWithout(ids) ==
  [Policy EXCEPT !.blocked =
     {rules[i].scope : i \in {i \in RuleIds : rules[i].enabled /\ i \notin ids}}]

Taken(t, c) == \E d \in Candidates : d # c /\ status[d] # "absent" /\ target[d] = t

-----------------------------------------------------------------------------
(* Sightings.                                                              *)

\* The collector loads targets and suppressions once per window.
OpenWindow ==
  /\ window' = Policy
  /\ UNCHANGED <<status, target, events, rules, watched, request>>

\* Mutant: the new candidate is not given the target that matched.
SightUnattributed(c, t, policy) ==
  /\ status[c] = "absent"
  /\ Accepts(policy, t)
  /\ ~ Taken(t, c)
  /\ status' = [status EXCEPT ![c] = "potential"]
  /\ UNCHANGED <<target, events, rules, watched, window, request>>

\* A sighting accepted under the window's policy, or a pivot item accepted
\* under the current one, creates the candidate of its target if there is
\* none; a candidate that exists keeps its status.
Sight(c, t, policy) ==
  /\ status[c] = "absent"
  /\ Accepts(policy, t)
  /\ ~ Taken(t, c)
  /\ status' = [status EXCEPT ![c] = "potential"]
  /\ target' = [target EXCEPT ![c] = t]
  /\ UNCHANGED <<events, rules, watched, window, request>>

CollectorSights(c, t) == Sight(c, t, window)
PivotFinds(c, t)      == Sight(c, t, Policy)

-----------------------------------------------------------------------------
(* Settings.                                                               *)

AddSuppression(scope) ==
  /\ Len(rules) < MaxRules
  /\ rules' = Append(rules, [scope |-> scope, candidate |-> NoCandidate, enabled |-> TRUE])
  /\ UNCHANGED <<status, target, events, watched, window, request>>

DisableSuppression(i) ==
  /\ i \in RuleIds /\ rules[i].enabled
  /\ rules' = [rules EXCEPT ![i].enabled = FALSE]
  /\ UNCHANGED <<status, target, events, watched, window, request>>

\* Adding, editing or disabling one target changes whether that target scores
\* the domain; its official domains decide for every target at once.
PatchTarget(scoring) ==
  /\ scoring # watched
  /\ \/ scoring = {} \/ watched = {}
     \/ \E t \in Targets : scoring \ {t} = watched \ {t}
  /\ watched' = scoring
  /\ UNCHANGED <<status, target, events, rules, window, request>>

-----------------------------------------------------------------------------
(* Reviews.                                                                *)

Idle == [phase |-> "idle"]

Respond(r) == request' = [request EXCEPT ![r] = Idle]

Record(c, action, previous) ==
  events' = [events EXCEPT ![c] =
               Append(@, [action |-> action, previous |-> previous, new |-> StatusBy[action]])]

\* Mutant: a reviewed-away candidate may be given another disposition.
LoadForAnyReview(r, c, action, scope) ==
  /\ request[r] = Idle
  /\ status[c] # "absent"
  /\ action # "restore"
  /\ scope # NoTarget => action = "false_positive" /\ scope \in {target[c], Global}
  /\ request' = [request EXCEPT ![r] =
       [phase |-> IF action = "publish" THEN "check" ELSE "write", candidate |-> c,
        action |-> action, status |-> status[c], target |-> target[c],
        scope |-> scope, linked |-> {}]]
  /\ UNCHANGED <<status, target, events, rules, watched, window>>

\* The handler loads the candidate; scope is the one of the suppression asked
\* for, or NoTarget.  Reviewed-away candidates and other scopes are refused.
LoadForReview(r, c, action, scope) ==
  /\ request[r] = Idle
  /\ status[c] \in Visible
  /\ action # "restore"
  /\ scope # NoTarget => action = "false_positive" /\ scope \in {target[c], Global}
  /\ request' = [request EXCEPT ![r] =
       [phase |-> IF action = "publish" THEN "check" ELSE "write", candidate |-> c,
        action |-> action, status |-> status[c], target |-> target[c],
        scope |-> scope, linked |-> {}]]
  /\ UNCHANGED <<status, target, events, rules, watched, window>>

\* Publishing re-checks the policy, and is refused if the domain fails it.
CheckPolicy(r) ==
  /\ request[r].phase = "check" /\ request[r].action = "publish"
  /\ IF Accepts(Policy, request[r].target)
       THEN request' = [request EXCEPT ![r].phase = "write"]
       ELSE Respond(r)
  /\ UNCHANGED <<status, target, events, rules, watched, window>>

\* Mutant: the event's previous status is read again at the commit, while the
\* ORM still compares the new one with what it loaded.
CommitReviewRereads(r) ==
  /\ request[r].phase = "write" /\ request[r].action # "restore"
  /\ LET q == request[r]  c == q.candidate  new == StatusBy[q.action] IN
     /\ Len(events[c]) < MaxEvents
     /\ q.scope # NoTarget => Len(rules) < MaxRules
     /\ status' = IF new = q.status THEN status ELSE [status EXCEPT ![c] = new]
     /\ Record(c, q.action, status[c])
     /\ rules' = IF q.scope = NoTarget THEN rules
                 ELSE Append(rules, [scope |-> q.scope, candidate |-> c, enabled |-> TRUE])
  /\ Respond(r)
  /\ UNCHANGED <<target, watched, window>>

\* The disposition, its event and its suppression, as the request decided
\* them from what it had read: nothing is compared with the row as it is now.
CommitReview(r) ==
  /\ request[r].phase = "write" /\ request[r].action # "restore"
  /\ LET q == request[r]  c == q.candidate  new == StatusBy[q.action] IN
     /\ Len(events[c]) < MaxEvents
     /\ q.scope # NoTarget => Len(rules) < MaxRules
     /\ status' = IF new = q.status THEN status ELSE [status EXCEPT ![c] = new]
     /\ Record(c, q.action, q.status)
     /\ rules' = IF q.scope = NoTarget THEN rules
                 ELSE Append(rules, [scope |-> q.scope, candidate |-> c, enabled |-> TRUE])
  /\ Respond(r)
  /\ UNCHANGED <<target, watched, window>>

-----------------------------------------------------------------------------
(* Restores.                                                               *)

LoadForRestore(r, c) ==
  /\ request[r] = Idle
  /\ status[c] \in Away
  /\ request' = [request EXCEPT ![r] =
       [phase |-> IF Linked(c) = {} THEN "check" ELSE "disable", candidate |-> c,
        action |-> "restore", status |-> status[c], target |-> target[c],
        scope |-> NoTarget, linked |-> Linked(c)]]
  /\ UNCHANGED <<status, target, events, rules, watched, window>>

\* The candidate moves to the target that accepts it now.  If another row
\* already has that target, the unique constraint rolls everything back.
MoveTo(c, loaded, t) ==
  IF t = loaded THEN UNCHANGED target
  ELSE ~ Taken(t, c) /\ target' = [target EXCEPT ![c] = t]

Restored(r, t) ==
  LET q == request[r]  c == q.candidate IN
  /\ Len(events[c]) < MaxEvents
  /\ status' = [status EXCEPT ![c] = "potential"]
  /\ MoveTo(c, q.target, t)
  /\ Record(c, "restore", q.status)
  /\ Respond(r)

\* Mutant: the linked rules are ignored by the check but stay in force.
RestoreLinkedKeepsRules(r, t) ==
  /\ request[r].phase = "disable"
  /\ Accepts(PolicyWithout(request[r].linked), t)
  /\ Restored(r, t)
  /\ UNCHANGED <<rules, watched, window>>

\* Disabling the linked rules takes the writer lock before the policy is read.
RestoreLinked(r, t) ==
  /\ request[r].phase = "disable"
  /\ Accepts(PolicyWithout(request[r].linked), t)
  /\ rules' = [i \in RuleIds |->
                 IF i \in request[r].linked THEN [rules[i] EXCEPT !.enabled = FALSE] ELSE rules[i]]
  /\ Restored(r, t)
  /\ UNCHANGED <<watched, window>>

\* With no linked rule the policy is read before the lock is taken.
CheckRestore(r, t) ==
  /\ request[r].phase = "check" /\ request[r].action = "restore"
  /\ Accepts(Policy, t)
  /\ request' = [request EXCEPT ![r].phase = "write", ![r].scope = t]
  /\ UNCHANGED <<status, target, events, rules, watched, window>>

CommitRestore(r) ==
  /\ request[r].phase = "write" /\ request[r].action = "restore"
  /\ Restored(r, request[r].scope)
  /\ UNCHANGED <<rules, watched, window>>

\* The policy refuses the domain, the unique constraint fails, or the client
\* goes away: the transaction is rolled back and only the answer is left.
Abandon(r) ==
  /\ request[r] # Idle
  /\ Respond(r)
  /\ UNCHANGED <<status, target, events, rules, watched, window>>

-----------------------------------------------------------------------------

Init ==
  /\ status  = [c \in Candidates |-> "absent"]
  /\ target  = [c \in Candidates |-> NoTarget]
  /\ events  = [c \in Candidates |-> <<>>]
  /\ rules   = <<>>
  /\ watched = Targets
  /\ window  = [watched |-> Targets, blocked |-> {}]
  /\ request = [r \in Requests |-> Idle]

Sightings ==
  \/ OpenWindow
  \/ \E c \in Candidates, t \in Targets : CollectorSights(c, t) \/ PivotFinds(c, t)

Settings ==
  \/ \E scope \in Scope : AddSuppression(scope)
  \/ \E i \in 1 .. MaxRules : DisableSuppression(i)
  \/ \E scoring \in SUBSET Targets : PatchTarget(scoring)

Reviews(r) ==
  \/ \E c \in Candidates, action \in Action, scope \in Scope \cup {NoTarget} :
       LoadForReview(r, c, action, scope)
  \/ \E c \in Candidates : LoadForRestore(r, c)
  \/ request[r] # Idle /\
       \/ CheckPolicy(r) \/ CommitReview(r)
       \/ \E t \in Targets : RestoreLinked(r, t) \/ CheckRestore(r, t)
       \/ CommitRestore(r)
  \/ Abandon(r)

Next == Sightings \/ Settings \/ \E r \in Requests : Reviews(r)

Spec == Init /\ [][Next]_vars

-----------------------------------------------------------------------------
(* Properties.                                                             *)

Request ==
  [phase : {"check", "write", "disable"}, candidate : Candidates, action : Action,
   status : Status, target : Targets, scope : Scope \cup {NoTarget}, linked : SUBSET (1 .. MaxRules)]

\* Rows and requests keep their types, and a candidate that exists has a target.
TypeOK ==
  /\ status \in [Candidates -> Status]
  /\ target \in [Candidates -> Targets \cup {NoTarget}]
  /\ \A c \in Candidates : status[c] # "absent" => target[c] \in Targets
  /\ events \in [Candidates -> Seq(Event)]
  /\ \A c \in Candidates : Len(events[c]) <= MaxEvents
  /\ rules \in Seq(Rule) /\ Len(rules) <= MaxRules
  /\ watched \subseteq Targets
  /\ window.watched \subseteq Targets /\ window.blocked \subseteq Scope
  /\ \A r \in Requests : request[r] = Idle \/ request[r] \in Request

\* Each review event starts where the one before it ended, from potential on.
Gapless(c) ==
  \A i \in 1 .. Len(events[c]) :
    events[c][i].previous = IF i = 1 THEN "potential" ELSE events[c][i - 1].new

\* A suppression created by a false-positive review is in force although its
\* candidate is no false positive any more.
Misapplied(c) == Linked(c) # {} /\ status[c] # "false_positive"

\* What the request has read of its candidate is not what it finds when it
\* writes: another status, or linked rules that it does not know.
Overtaken(r) ==
  LET q == request[r]  c == q.candidate IN
  \/ status[c] # q.status
  \/ q.action = "restore" /\ ~ Linked(c) \subseteq (IF q.phase = "disable" THEN q.linked ELSE {})

\* The append-only events account for a candidate's status, unless they show
\* themselves, by a gap, that two reviews overlapped: whatever requests are in
\* flight, a trail without a gap never misstates the status.
AuditTrailTells ==
  \A c \in Candidates : Gapless(c) =>
    LET n == Len(events[c]) IN
    IF n = 0 THEN status[c] \in {"absent", "potential"} ELSE status[c] = events[c][n].new

\* A trail gets a gap, or a suppression from a false-positive review outlives
\* that disposition, only by the commit of a request that was overtaken by
\* another one: a restore takes its rules back and a publication finds none,
\* whatever sightings, settings and requests for other candidates interleave.
OnlyOvertakenMislead ==
  [][\A c \in Candidates :
       Gapless(c) /\ ~ Misapplied(c) /\ ~ (Gapless(c)' /\ ~ Misapplied(c)') =>
         \E r \in Requests : /\ request[r] # Idle /\ request'[r] = Idle
                            /\ request[r].candidate = c /\ Overtaken(r)]_vars

\* What the analyst has reviewed away comes back only on record: by a restore,
\* or by a disposition whose event says that it was still in view.  No
\* sighting, pivot or setting brings it back, and no request unrecorded.
OnlyRecordedReturns ==
  [][\A c \in Candidates :
       status[c] \in Away /\ status'[c] # status[c] =>
         /\ Len(events'[c]) = Len(events[c]) + 1
         /\ LET event == events'[c][Len(events'[c])] IN
            /\ event.new = status'[c]
            /\ event.action = "restore" \/ event.previous \in Visible]_vars

\* services.py: "Re-checking here keeps stale or newly suppressed candidates
\* out of the public view": nothing is published against its own suppression.
PublishedNotSuppressed ==
  \A c \in Candidates : status[c] = "published" => Linked(c) = {}

=============================================================================
