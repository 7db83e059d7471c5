-------------------------- MODULE ReviewDesk_proofs --------------------------
(***************************************************************************)
(* Theorems about ReviewDesk, for any candidates, targets, rules and       *)
(* events, and for any number of requests in flight.                       *)
(***************************************************************************)
EXTENDS ReviewDesk, SequenceTheorems, TLAPS

-----------------------------------------------------------------------------
(* What the operators on rules do.                                         *)

\* The given rules are disabled and the others stay.
Disabled(ids) ==
  /\ rules' \in Seq(Rule) /\ Len(rules') = Len(rules)
  /\ \A i \in RuleIds :
       /\ rules'[i].candidate = rules[i].candidate
       /\ rules'[i].enabled => rules[i].enabled /\ i \notin ids

LEMMA DisableOne ==
  ASSUME rules \in Seq(Rule), NEW i \in RuleIds,
         rules' = [rules EXCEPT ![i].enabled = FALSE]
  PROVE  Disabled({i})
<1> DEFINE off == [rules[i] EXCEPT !.enabled = FALSE]
<1>1. rules[i] \in Rule /\ \A j \in RuleIds : rules[j] \in Rule
  BY DEF RuleIds
<1>2. off \in Rule /\ off.candidate = rules[i].candidate /\ off.enabled = FALSE
  BY <1>1 DEF Rule
<1>3. rules' = [rules EXCEPT ![i] = off]
  OBVIOUS
<1> HIDE DEF off
<1>4. /\ rules' \in Seq(Rule) /\ Len(rules') = Len(rules)
      /\ \A j \in RuleIds : rules'[j] = IF j = i THEN off ELSE rules[j]
  <2>1. i \in 1 .. Len(rules) /\ off \in Rule
    BY <1>2 DEF RuleIds
  <2>2. /\ [rules EXCEPT ![i] = off] \in Seq(Rule)
        /\ Len([rules EXCEPT ![i] = off]) = Len(rules)
        /\ \A j \in 1 .. Len(rules) :
             [rules EXCEPT ![i] = off][j] = IF j = i THEN off ELSE rules[j]
    BY <2>1, ExceptSeq
  <2>3. QED
    BY <1>3, <2>2 DEF RuleIds
<1>5. ASSUME NEW j \in RuleIds
      PROVE  /\ rules'[j].candidate = rules[j].candidate
             /\ rules'[j].enabled => rules[j].enabled /\ j \notin {i}
  BY <1>2, <1>4
<1>6. QED
  BY <1>4, <1>5 DEF Disabled

LEMMA DisableLinked ==
  ASSUME rules \in Seq(Rule), NEW ids,
         rules' = [i \in RuleIds |->
                     IF i \in ids THEN [rules[i] EXCEPT !.enabled = FALSE] ELSE rules[i]]
  PROVE  Disabled(ids)
<1>1. \A i \in RuleIds : rules[i] \in Rule
  BY DEF RuleIds
<1>2. \A i \in RuleIds :
        /\ rules'[i] \in Rule
        /\ rules'[i].candidate = rules[i].candidate
        /\ rules'[i].enabled => rules[i].enabled /\ i \notin ids
  <2> SUFFICES ASSUME NEW i \in RuleIds
               PROVE  /\ rules'[i] \in Rule
                      /\ rules'[i].candidate = rules[i].candidate
                      /\ rules'[i].enabled => rules[i].enabled /\ i \notin ids
    OBVIOUS
  <2>1. CASE i \in ids
    BY <1>1, <2>1 DEF Rule
  <2>2. CASE i \notin ids
    BY <1>1, <2>2 DEF Rule
  <2>3. QED
    BY <2>1, <2>2
<1>3. Len(rules) \in Nat
  OBVIOUS
<1>4. rules' \in [1 .. Len(rules) -> Rule]
  BY <1>2 DEF RuleIds
<1>5. rules' \in Seq(Rule) /\ Len(rules') = Len(rules)
  BY <1>3, <1>4, SeqDef, LenProperties
<1>6. QED
  BY <1>2, <1>5 DEF Disabled

\* Disabling rules takes them out of every candidate's linked rules.
LEMMA DisabledLinks ==
  ASSUME rules \in Seq(Rule), NEW ids, Disabled(ids), NEW c
  PROVE  Linked(c)' \subseteq Linked(c) \ ids
BY DEF Disabled, Linked, RuleIds

\* A new rule is linked to its own candidate alone.
LEMMA AppendedLinks ==
  ASSUME rules \in Seq(Rule), NEW rule \in Rule, rules' = Append(rules, rule),
         NEW c, rule.candidate # c
  PROVE  /\ rules' \in Seq(Rule) /\ Len(rules') = Len(rules) + 1
         /\ Linked(c)' \subseteq Linked(c)
<1>1. /\ rules' \in Seq(Rule) /\ Len(rules') = Len(rules) + 1
      /\ \A i \in RuleIds : rules'[i] = rules[i]
      /\ rules'[Len(rules) + 1] = rule
  BY AppendProperties DEF RuleIds
<1>2. \A i \in 1 .. Len(rules') : i \in RuleIds \/ i = Len(rules) + 1
  BY <1>1 DEF RuleIds
<1>3. QED
  BY <1>1, <1>2 DEF Linked, RuleIds

\* The scopes of the enabled rules are scopes.
LEMMA PolicyType ==
  ASSUME TypeOK
  PROVE  Policy.watched \subseteq Targets /\ Policy.blocked \subseteq Scope
<1>1. \A i \in RuleIds : rules[i].scope \in Scope
  <2>1. rules \in Seq(Rule)
    BY DEF TypeOK
  <2>2. \A i \in RuleIds : rules[i] \in Rule
    BY <2>1 DEF RuleIds
  <2>3. QED
    BY <2>2 DEF Rule
<1>2. ASSUME NEW scope \in Policy.blocked PROVE scope \in Scope
  BY <1>1, <1>2 DEF Policy
<1>3. QED
  BY <1>2 DEF Policy, TypeOK

-----------------------------------------------------------------------------
(* Type correctness, for any number of requests.                           *)

\* Why a candidate that exists keeps a target: a request in flight is about an
\* existing candidate, and a restore writes a target that accepted the domain.
RequestInv ==
  /\ request \in [Requests -> Request \cup {Idle}]
  /\ \A r \in Requests : request[r] # Idle =>
       /\ status[request[r].candidate] # "absent"
       /\ request[r].phase = "write" /\ request[r].action = "restore" =>
            request[r].scope \in Targets

TypeInv == TypeOK /\ RequestInv

\* A request that answers, and requests when no candidate disappears.
LEMMA RespondType ==
  ASSUME RequestInv, NEW r \in Requests, Respond(r),
         \A c \in Candidates : status[c] # "absent" => status'[c] # "absent"
  PROVE  RequestInv'
<1>1. \A s \in Requests : request'[s] = IF s = r THEN Idle ELSE request[s]
  BY DEF RequestInv, Respond
<1>2. \A s \in Requests : request[s] # Idle => request[s].candidate \in Candidates
  BY DEF RequestInv, Request
<1>3. request' \in [Requests -> Request \cup {Idle}]
  BY DEF RequestInv, Respond
<1>4. QED
  BY <1>1, <1>2, <1>3 DEF RequestInv

LEMMA RequestsStay ==
  ASSUME RequestInv, UNCHANGED request,
         \A c \in Candidates : status[c] # "absent" => status'[c] # "absent"
  PROVE  RequestInv'
<1>1. \A s \in Requests : request[s] # Idle => request[s].candidate \in Candidates
  BY DEF RequestInv, Request
<1>2. QED
  BY <1>1 DEF RequestInv

\* A request that loads a candidate or moves on.
LEMMA LoadType ==
  ASSUME RequestInv, NEW r \in Requests, NEW q \in Request,
         request' = [request EXCEPT ![r] = q], UNCHANGED status,
         status[q.candidate] # "absent",
         q.phase = "write" /\ q.action = "restore" => q.scope \in Targets
  PROVE  RequestInv'
BY DEF RequestInv

\* Each phase of a request is one of the code's, with its own fields.
LEMMA LoadedRequest ==
  ASSUME RequestInv, NEW r \in Requests, request[r] # Idle
  PROVE  /\ request[r] \in Request
         /\ request[r].candidate \in Candidates /\ request[r].action \in Action
         /\ request[r].scope \in Scope \cup {NoTarget} /\ request[r].status \in Status
         /\ status[request[r].candidate] # "absent"
BY DEF RequestInv, Request

\* The statuses that the actions give.
LEMMA StatusByType ==
  /\ \A action \in Action : StatusBy[action] \in Status \ {"absent"}
  /\ StatusBy["restore"] = "potential" /\ StatusBy["false_positive"] = "false_positive"
  /\ StatusBy["publish"] = "published" /\ StatusBy["close"] = "closed"
BY DEF StatusBy, Status, Action, Visible, Away

\* A recorded event is appended to its candidate's events and to no other's.
LEMMA RecordEvents ==
  ASSUME events \in [Candidates -> Seq(Event)], NEW c \in Candidates,
         NEW action \in Action, NEW previous \in Status, Record(c, action, previous)
  PROVE  /\ events' \in [Candidates -> Seq(Event)]
         /\ \A d \in Candidates : d # c => events'[d] = events[d]
         /\ Len(events'[c]) = Len(events[c]) + 1
         /\ \A i \in 1 .. Len(events[c]) : events'[c][i] = events[c][i]
         /\ events'[c][Len(events[c]) + 1] =
              [action |-> action, previous |-> previous, new |-> StatusBy[action]]
<1> DEFINE event == [action |-> action, previous |-> previous, new |-> StatusBy[action]]
<1>1. event \in Event
  BY StatusByType DEF Event
<1> HIDE DEF event
<1>2. events[c] \in Seq(Event)
  OBVIOUS
<1>3. /\ Append(events[c], event) \in Seq(Event)
      /\ Len(Append(events[c], event)) = Len(events[c]) + 1
      /\ \A i \in 1 .. Len(events[c]) : Append(events[c], event)[i] = events[c][i]
      /\ Append(events[c], event)[Len(events[c]) + 1] = event
  BY <1>1, <1>2, AppendProperties
<1>4. events' = [events EXCEPT ![c] = Append(events[c], event)]
  BY DEF Record, event
<1>5. /\ events' \in [Candidates -> Seq(Event)]
      /\ \A d \in Candidates : d # c => events'[d] = events[d]
      /\ events'[c] = Append(events[c], event)
  BY <1>3, <1>4
<1>6. QED
  BY <1>3, <1>5 DEF event

\* Recording keeps the types of the events and their bound.
LEMMA RecordType ==
  ASSUME TypeOK, NEW c \in Candidates, NEW action \in Action, NEW previous \in Status,
         Len(events[c]) < MaxEvents, Record(c, action, previous)
  PROVE  /\ events' \in [Candidates -> Seq(Event)]
         /\ \A d \in Candidates : Len(events'[d]) <= MaxEvents
<1>1. Len(events[c]) \in Nat /\ MaxEvents \in Nat
  BY ScopesAssumption DEF TypeOK
<1>2. /\ events' \in [Candidates -> Seq(Event)]
      /\ \A d \in Candidates : d # c => events'[d] = events[d]
      /\ Len(events'[c]) = Len(events[c]) + 1
  BY RecordEvents DEF TypeOK
<1>3. ASSUME NEW d \in Candidates PROVE Len(events'[d]) <= MaxEvents
  <2>1. CASE d = c
    BY <1>1, <1>2, <2>1
  <2>2. CASE d # c
    BY <1>2, <2>2 DEF TypeOK
  <2>3. QED
    BY <2>1, <2>2
<1>4. QED
  BY <1>2, <1>3

\* The columns keep their types when a review or a restore is committed.
LEMMA StatusType ==
  ASSUME TypeOK, NEW c \in Candidates, NEW new \in Status \ {"absent"},
         status' = status \/ status' = [status EXCEPT ![c] = new],
         \/ UNCHANGED target
         \/ \E t \in Targets : target' = [target EXCEPT ![c] = t],
         status[c] # "absent"
  PROVE  /\ status' \in [Candidates -> Status]
         /\ target' \in [Candidates -> Targets \cup {NoTarget}]
         /\ \A d \in Candidates : status[d] # "absent" => status'[d] # "absent"
         /\ \A d \in Candidates : status'[d] # "absent" => target'[d] \in Targets
BY DEF TypeOK

\* What the columns of TypeOK need besides requests and events.
LEMMA SightType ==
  ASSUME TypeInv, NEW c \in Candidates, NEW t \in Targets, NEW policy, Sight(c, t, policy)
  PROVE  TypeInv'
<1>1. /\ status' \in [Candidates -> Status]
      /\ target' \in [Candidates -> Targets \cup {NoTarget}]
      /\ \A d \in Candidates : status[d] # "absent" => status'[d] # "absent"
      /\ \A d \in Candidates : status'[d] # "absent" => target'[d] \in Targets
  BY DEF TypeInv, TypeOK, Sight, Status, Visible
<1>2. RequestInv'
  BY <1>1, RequestsStay DEF TypeInv, Sight
<1>3. QED
  BY <1>1, <1>2 DEF TypeInv, TypeOK, Sight, RuleIds

\* Changing a setting keeps the rows of the desk as they are.
LEMMA SettingsType ==
  ASSUME TypeInv, Settings
  PROVE  TypeInv'
<1>1. UNCHANGED <<status, target, events, window, request>>
  BY DEF Settings, AddSuppression, DisableSuppression, PatchTarget
<1>2. RequestInv'
  BY <1>1, RequestsStay DEF TypeInv
<1>3. rules' \in Seq(Rule) /\ Len(rules') <= MaxRules /\ watched' \subseteq Targets
  <2>1. ASSUME NEW scope \in Scope, AddSuppression(scope)
        PROVE  rules' \in Seq(Rule) /\ Len(rules') <= MaxRules /\ UNCHANGED watched
    <3> DEFINE rule == [scope |-> scope, candidate |-> NoCandidate, enabled |-> TRUE]
    <3>1. rule \in Rule
      BY DEF Rule
    <3>2. rules' = Append(rules, rule) /\ Len(rules) < MaxRules /\ rules \in Seq(Rule)
      BY <2>1 DEF AddSuppression, TypeInv, TypeOK
    <3> HIDE DEF rule
    <3>3. QED
      BY <2>1, <3>1, <3>2, ScopesAssumption, AppendProperties DEF AddSuppression
  <2>2. ASSUME NEW i, DisableSuppression(i)
        PROVE  rules' \in Seq(Rule) /\ Len(rules') <= MaxRules /\ UNCHANGED watched
    <3>1. rules \in Seq(Rule) /\ Len(rules) <= MaxRules /\ i \in RuleIds
      BY <2>2 DEF DisableSuppression, TypeInv, TypeOK
    <3>2. Disabled({i})
      BY <2>2, <3>1, DisableOne DEF DisableSuppression
    <3>3. QED
      BY <2>2, <3>1, <3>2 DEF DisableSuppression, Disabled
  <2>3. ASSUME NEW scoring \in SUBSET Targets, PatchTarget(scoring)
        PROVE  UNCHANGED rules /\ watched' \subseteq Targets
    BY <2>3 DEF PatchTarget
  <2>4. QED
    BY <2>1, <2>2, <2>3 DEF Settings, TypeInv, TypeOK
<1>4. QED
  BY <1>1, <1>2, <1>3 DEF TypeInv, TypeOK

\* A committed disposition.
LEMMA CommitReviewType ==
  ASSUME TypeInv, NEW r \in Requests, CommitReview(r)
  PROVE  TypeInv'
<1> DEFINE q == request[r]
           rule == [scope |-> q.scope, candidate |-> q.candidate, enabled |-> TRUE]
<1>1. /\ q.candidate \in Candidates /\ q.action \in Action
      /\ q.scope \in Scope \cup {NoTarget} /\ q.status \in Status
      /\ status[q.candidate] # "absent" /\ StatusBy[q.action] \in Status \ {"absent"}
  <2>1. request[r] # Idle
    BY DEF CommitReview, Idle
  <2>2. QED
    BY <2>1, LoadedRequest, StatusByType DEF TypeInv
<1>2. /\ Len(events[q.candidate]) < MaxEvents
      /\ q.scope # NoTarget => Len(rules) < MaxRules
      /\ status' = IF StatusBy[q.action] = q.status THEN status
                   ELSE [status EXCEPT ![q.candidate] = StatusBy[q.action]]
      /\ Record(q.candidate, q.action, q.status)
      /\ rules' = IF q.scope = NoTarget THEN rules ELSE Append(rules, rule)
      /\ Respond(r) /\ UNCHANGED <<target, watched, window>>
  BY DEF CommitReview
<1>3. q.scope # NoTarget => rule \in Rule
  BY <1>1 DEF Rule
<1> HIDE DEF q, rule
<1>4. /\ status' \in [Candidates -> Status]
      /\ target' \in [Candidates -> Targets \cup {NoTarget}]
      /\ \A d \in Candidates : status[d] # "absent" => status'[d] # "absent"
      /\ \A d \in Candidates : status'[d] # "absent" => target'[d] \in Targets
  BY <1>1, <1>2, StatusType DEF TypeInv
<1>5. RequestInv'
  BY <1>2, <1>4, RespondType DEF TypeInv
<1>6. /\ events' \in [Candidates -> Seq(Event)]
      /\ \A d \in Candidates : Len(events'[d]) <= MaxEvents
  BY <1>1, <1>2, RecordType DEF TypeInv
<1>7. rules' \in Seq(Rule) /\ Len(rules') <= MaxRules
  <2>1. rules \in Seq(Rule) /\ Len(rules) <= MaxRules
    BY DEF TypeInv, TypeOK
  <2>2. CASE q.scope = NoTarget
    BY <1>2, <2>1, <2>2
  <2>3. CASE q.scope # NoTarget
    BY <1>2, <1>3, <2>1, <2>3, ScopesAssumption, AppendProperties
  <2>4. QED
    BY <2>2, <2>3
<1>8. (\A s \in Requests : request[s] = Idle \/ request[s] \in Request)'
  BY <1>5 DEF RequestInv
<1>9. QED
  BY <1>2, <1>4, <1>5, <1>6, <1>7, <1>8 DEF TypeInv, TypeOK

\* A committed restore, with or without rules to disable.
LEMMA RestoredType ==
  ASSUME TypeInv, NEW r \in Requests, request[r] # Idle, NEW t \in Targets,
         Restored(r, t), UNCHANGED <<watched, window>>,
         rules' \in Seq(Rule), Len(rules') = Len(rules)
  PROVE  TypeInv'
<1> DEFINE c == request[r].candidate
<1>1. /\ c \in Candidates /\ request[r].status \in Status /\ status[c] # "absent"
  BY LoadedRequest DEF TypeInv
<1>2. /\ Len(events[c]) < MaxEvents
      /\ status' = [status EXCEPT ![c] = "potential"]
      /\ UNCHANGED target \/ target' = [target EXCEPT ![c] = t]
      /\ Record(c, "restore", request[r].status)
      /\ Respond(r)
  BY DEF Restored, MoveTo
<1>3. "potential" \in Status \ {"absent"} /\ "restore" \in Action
  BY DEF Status, Visible, Action
<1> HIDE DEF c
<1>4. /\ status' \in [Candidates -> Status]
      /\ target' \in [Candidates -> Targets \cup {NoTarget}]
      /\ \A d \in Candidates : status[d] # "absent" => status'[d] # "absent"
      /\ \A d \in Candidates : status'[d] # "absent" => target'[d] \in Targets
  BY <1>1, <1>2, <1>3, StatusType DEF TypeInv
<1>5. RequestInv'
  BY <1>2, <1>4, RespondType DEF TypeInv
<1>6. /\ events' \in [Candidates -> Seq(Event)]
      /\ \A d \in Candidates : Len(events'[d]) <= MaxEvents
  BY <1>1, <1>2, <1>3, RecordType DEF TypeInv
<1>7. (\A s \in Requests : request[s] = Idle \/ request[s] \in Request)'
  BY <1>5 DEF RequestInv
<1>8. QED
  BY <1>4, <1>5, <1>6, <1>7 DEF TypeInv, TypeOK

\* A request that loads a candidate, for a review or for a restore.
LEMMA LoadingType ==
  ASSUME TypeInv, NEW r \in Requests, NEW q \in Request, status[q.candidate] # "absent",
         request' = [request EXCEPT ![r] = q],
         q.phase = "write" /\ q.action = "restore" => q.scope \in Targets,
         UNCHANGED <<status, target, events, rules, watched, window>>
  PROVE  TypeInv'
<1>1. RequestInv'
  BY LoadType DEF TypeInv
<1>2. (\A s \in Requests : request[s] = Idle \/ request[s] \in Request)'
  BY <1>1 DEF RequestInv
<1>3. QED
  BY <1>1, <1>2 DEF TypeInv, TypeOK

\* A request that only answers.
LEMMA AnswerType ==
  ASSUME TypeInv, NEW r \in Requests, Respond(r),
         UNCHANGED <<status, target, events, rules, watched, window>>
  PROVE  TypeInv'
<1>1. RequestInv'
  BY RespondType DEF TypeInv
<1>2. (\A s \in Requests : request[s] = Idle \/ request[s] \in Request)'
  BY <1>1 DEF RequestInv
<1>3. QED
  BY <1>1, <1>2 DEF TypeInv, TypeOK

\* The rules linked to a candidate are among the rules there may be.
LEMMA LinkedType ==
  ASSUME TypeOK, NEW c
  PROVE  Linked(c) \in SUBSET (1 .. MaxRules)
<1>1. Len(rules) \in Nat /\ Len(rules) <= MaxRules /\ MaxRules \in Nat
  BY ScopesAssumption DEF TypeOK
<1>2. QED
  BY <1>1 DEF Linked, RuleIds

\* A request that is loaded for a review is one of the requests there are.
LEMMA LoadForReviewLoads ==
  ASSUME TypeInv, NEW r \in Requests, NEW c \in Candidates, NEW action \in Action,
         NEW scope \in Scope \cup {NoTarget}, LoadForReview(r, c, action, scope)
  PROVE  \E q \in Request :
           /\ request' = [request EXCEPT ![r] = q]
           /\ q.candidate = c /\ q.action = action /\ q.status = status[c]
           /\ q.scope = scope /\ q.linked = {} /\ q.phase \in {"check", "write"}
<1> DEFINE q == [phase |-> IF action = "publish" THEN "check" ELSE "write", candidate |-> c,
                 action |-> action, status |-> status[c], target |-> target[c],
                 scope |-> scope, linked |-> {}]
<1>1. status[c] \in Status /\ target[c] \in Targets
  BY DEF LoadForReview, Visible, TypeInv, TypeOK
<1>2. {} \in SUBSET (1 .. MaxRules)
  OBVIOUS
<1>3. q \in Request
  BY <1>1, <1>2 DEF Request
<1>4. request' = [request EXCEPT ![r] = q]
  BY DEF LoadForReview
<1>5. /\ q.candidate = c /\ q.action = action /\ q.status = status[c]
      /\ q.scope = scope /\ q.linked = {} /\ q.phase \in {"check", "write"}
  OBVIOUS
<1> HIDE DEF q
<1>6. QED
  BY <1>3, <1>4, <1>5

\* So is one that is loaded for a restore.
LEMMA LoadForRestoreLoads ==
  ASSUME TypeInv, NEW r \in Requests, NEW c \in Candidates, LoadForRestore(r, c)
  PROVE  \E q \in Request :
           /\ request' = [request EXCEPT ![r] = q]
           /\ q.candidate = c /\ q.action = "restore" /\ q.status = status[c]
           /\ q.linked = Linked(c)
           /\ q.phase = (IF Linked(c) = {} THEN "check" ELSE "disable")
<1> DEFINE q == [phase |-> IF Linked(c) = {} THEN "check" ELSE "disable", candidate |-> c,
                 action |-> "restore", status |-> status[c], target |-> target[c],
                 scope |-> NoTarget, linked |-> Linked(c)]
<1>1. status[c] \in Status /\ target[c] \in Targets
  BY DEF LoadForRestore, Away, TypeInv, TypeOK
<1>2. Linked(c) \in SUBSET (1 .. MaxRules) /\ "restore" \in Action
  BY LinkedType DEF TypeInv, Action
<1>3. q \in Request
  BY <1>1, <1>2 DEF Request
<1>4. request' = [request EXCEPT ![r] = q]
  BY DEF LoadForRestore
<1>5. /\ q.candidate = c /\ q.action = "restore" /\ q.status = status[c]
      /\ q.linked = Linked(c) /\ q.phase = (IF Linked(c) = {} THEN "check" ELSE "disable")
  OBVIOUS
<1> HIDE DEF q
<1>6. QED
  BY <1>3, <1>4, <1>5

\* The policy has accepted the domain, for a review or for a restore to scope.
MovesToWrite(r, scope) ==
  \/ request' = [request EXCEPT ![r].phase = "write", ![r].scope = scope]
  \/ /\ request' = [request EXCEPT ![r].phase = "write"]
     /\ scope = request[r].scope

\* A request that goes on to write keeps what it has loaded.
LEMMA GoesOnToWrite ==
  ASSUME RequestInv, NEW r \in Requests, request[r] # Idle,
         NEW scope \in Scope \cup {NoTarget}, MovesToWrite(r, scope)
  PROVE  \E q \in Request :
           /\ request' = [request EXCEPT ![r] = q]
           /\ q.phase = "write" /\ q.candidate = request[r].candidate
           /\ q.action = request[r].action /\ q.status = request[r].status
           /\ q.scope = scope /\ q.linked = request[r].linked
<1> DEFINE q == [request[r] EXCEPT !.phase = "write", !.scope = scope]
<1>1. request[r] \in Request
  BY LoadedRequest
<1>2. /\ q \in Request
      /\ q.phase = "write" /\ q.candidate = request[r].candidate
      /\ q.action = request[r].action /\ q.status = request[r].status
      /\ q.scope = scope /\ q.linked = request[r].linked
  BY <1>1 DEF Request
<1>3. request' = [request EXCEPT ![r] = q]
  <2>1. CASE request' = [request EXCEPT ![r].phase = "write", ![r].scope = scope]
    BY <1>1, <2>1 DEF RequestInv
  <2>2. CASE request' = [request EXCEPT ![r].phase = "write"] /\ scope = request[r].scope
    <3>1. [request[r] EXCEPT !.phase = "write"] = q
      BY <1>1, <2>2 DEF Request
    <3>2. QED
      BY <2>2, <3>1
  <2>3. QED
    BY <2>1, <2>2 DEF MovesToWrite
<1> HIDE DEF q
<1>4. QED
  BY <1>2, <1>3

\* Rows, rules, events and requests keep their types however many requests are
\* in flight, and every candidate that exists has a target.
LEMMA TypeSafety == Spec => []TypeInv
<1>1. ASSUME Init PROVE TypeInv
  <2>1. rules \in Seq(Rule) /\ Len(rules) <= MaxRules
    BY <1>1, ScopesAssumption DEF Init
  <2>2. events \in [Candidates -> Seq(Event)] /\ \A c \in Candidates : Len(events[c]) <= MaxEvents
    BY <1>1, ScopesAssumption DEF Init
  <2>3. status \in [Candidates -> Status] /\ target \in [Candidates -> Targets \cup {NoTarget}]
    BY <1>1 DEF Init, Status
  <2>4. RequestInv
    BY <1>1 DEF Init, RequestInv
  <2>5. QED
    BY <1>1, <2>1, <2>2, <2>3, <2>4 DEF Init, TypeInv, TypeOK, RuleIds
<1>2. TypeInv /\ [Next]_vars => TypeInv'
  <2> SUFFICES ASSUME TypeInv, [Next]_vars PROVE TypeInv'
    OBVIOUS
  <2>1. ASSUME Sightings PROVE TypeInv'
    <3>1. CASE OpenWindow
      <4>1. RequestInv'
        BY <3>1, RequestsStay DEF OpenWindow, TypeInv
      <4>2. window'.watched \subseteq Targets /\ window'.blocked \subseteq Scope
        BY <3>1, PolicyType DEF OpenWindow, TypeInv
      <4>3. QED
        BY <3>1, <4>1, <4>2 DEF OpenWindow, TypeInv, TypeOK, RuleIds
    <3>2. ASSUME NEW c \in Candidates, NEW t \in Targets,
                 CollectorSights(c, t) \/ PivotFinds(c, t)
          PROVE  TypeInv'
      BY <3>2, SightType DEF CollectorSights, PivotFinds
    <3>3. QED
      BY <2>1, <3>1, <3>2 DEF Sightings
  <2>2. CASE Settings
    BY <2>2, SettingsType
  <2>3. ASSUME NEW r \in Requests, Reviews(r) PROVE TypeInv'
    <3>1. ASSUME NEW c \in Candidates, NEW action \in Action,
                 NEW scope \in Scope \cup {NoTarget}, LoadForReview(r, c, action, scope)
          PROVE  TypeInv'
      <4>1. /\ status[c] # "absent" /\ action # "restore"
            /\ UNCHANGED <<status, target, events, rules, watched, window>>
        BY <3>1 DEF LoadForReview, Visible
      <4>2. QED
        BY <3>1, <4>1, LoadForReviewLoads, LoadingType
    <3>2. ASSUME NEW c \in Candidates, LoadForRestore(r, c) PROVE TypeInv'
      <4>1. /\ status[c] # "absent"
            /\ UNCHANGED <<status, target, events, rules, watched, window>>
        BY <3>2 DEF LoadForRestore, Away
      <4>2. PICK q \in Request : /\ request' = [request EXCEPT ![r] = q]
                                 /\ q.candidate = c /\ q.phase # "write"
        BY <3>2, LoadForRestoreLoads
      <4>3. QED
        BY <4>1, <4>2, LoadingType
    <3>3. ASSUME request[r] # Idle, CheckPolicy(r) PROVE TypeInv'
      <4>1. /\ request[r].action = "publish"
            /\ UNCHANGED <<status, target, events, rules, watched, window>>
        BY <3>3 DEF CheckPolicy
      <4>2. CASE Respond(r)
        BY <4>1, <4>2, AnswerType
      <4>3. CASE request' = [request EXCEPT ![r].phase = "write"]
        <5>1. request[r].scope \in Scope \cup {NoTarget} /\ status[request[r].candidate] # "absent"
          BY <3>3, LoadedRequest DEF TypeInv
        <5>0. MovesToWrite(r, request[r].scope)
          BY <4>3 DEF MovesToWrite
        <5>2. PICK q \in Request : /\ request' = [request EXCEPT ![r] = q]
                                   /\ q.candidate = request[r].candidate
                                   /\ q.action = request[r].action
          BY <3>3, <5>0, <5>1, GoesOnToWrite DEF TypeInv
        <5>3. status[q.candidate] # "absent" /\ q.action # "restore"
          BY <4>1, <5>1, <5>2
        <5>4. QED
          BY <4>1, <5>2, <5>3, LoadingType
      <4>4. QED
        BY <3>3, <4>2, <4>3 DEF CheckPolicy
    <3>4. ASSUME CommitReview(r) PROVE TypeInv'
      BY <3>4, CommitReviewType
    <3>5. ASSUME NEW t \in Targets, request[r] # Idle, RestoreLinked(r, t) PROVE TypeInv'
      <4>1. rules \in Seq(Rule)
        BY DEF TypeInv, TypeOK
      <4>2. Disabled(request[r].linked)
        BY <3>5, <4>1, DisableLinked DEF RestoreLinked
      <4>3. QED
        BY <3>5, <4>2, RestoredType DEF RestoreLinked, Disabled
    <3>6. ASSUME NEW t \in Targets, request[r] # Idle, CheckRestore(r, t) PROVE TypeInv'
      <4>1. /\ MovesToWrite(r, t)
            /\ t \in Scope \cup {NoTarget} /\ status[request[r].candidate] # "absent"
            /\ UNCHANGED <<status, target, events, rules, watched, window>>
        BY <3>6, LoadedRequest DEF CheckRestore, MovesToWrite, TypeInv, Scope
      <4>2. PICK q \in Request : /\ request' = [request EXCEPT ![r] = q]
                                 /\ q.candidate = request[r].candidate /\ q.scope = t
        BY <3>6, <4>1, GoesOnToWrite DEF TypeInv
      <4>3. status[q.candidate] # "absent" /\ q.scope \in Targets
        BY <4>1, <4>2
      <4>4. UNCHANGED <<status, target, events, rules, watched, window>>
        BY <4>1
      <4>5. QED
        BY <4>2, <4>3, <4>4, LoadingType
    <3>7. ASSUME request[r] # Idle, CommitRestore(r) PROVE TypeInv'
      <4>1. request[r].scope \in Targets
        BY <3>7 DEF CommitRestore, TypeInv, RequestInv
      <4>2. rules' \in Seq(Rule) /\ Len(rules') = Len(rules)
        BY <3>7 DEF CommitRestore, TypeInv, TypeOK
      <4>3. QED
        BY <3>7, <4>1, <4>2, RestoredType DEF CommitRestore
    <3>8. CASE Abandon(r)
      BY <3>8, AnswerType DEF Abandon
    <3>9. QED
      BY <2>3, <3>1, <3>2, <3>3, <3>4, <3>5, <3>6, <3>7, <3>8 DEF Reviews
  <2>4. CASE UNCHANGED vars
    <3>1. RequestInv'
      BY <2>4, RequestsStay DEF vars, TypeInv
    <3>2. QED
      BY <2>4, <3>1 DEF vars, TypeInv, TypeOK, RuleIds
  <2>5. QED
    BY <2>1, <2>2, <2>3, <2>4 DEF Next
<1>3. QED
  BY <1>1, <1>2, PTL DEF Spec

\* The same without its strengthening.
THEOREM DeskTypes == Spec => []TypeOK
BY TypeSafety, PTL DEF TypeInv

-----------------------------------------------------------------------------
(* The audit trail and the suppressions, for any number of requests.       *)

\* What a request keeps of the candidate it has loaded, whatever others do
\* meanwhile: a disposition is about one that was in view, a restore about one
\* that was not.
LoadedAsAllowed(r) ==
  LET q == request[r] IN
  /\ q.action # "restore" =>
       /\ q.status \in Visible /\ q.phase # "disable"
       /\ q.scope # NoTarget => q.action = "false_positive"
  /\ q.action = "restore" => q.status \in Away

RequestsAllowed == \A r \in Requests : request[r] # Idle => LoadedAsAllowed(r)

\* A candidate that was never seen was never reviewed.
UnseenUnreviewed ==
  \A c \in Candidates : status[c] = "absent" => Len(events[c]) = 0 /\ Linked(c) = {}

DeskInv == RequestsAllowed /\ UnseenUnreviewed /\ AuditTrailTells

\* The steps that the two action properties allow.
Misleads(c) == Gapless(c) /\ ~ Misapplied(c) /\ ~ (Gapless(c)' /\ ~ Misapplied(c)')

MisledByOvertaken ==
  \A c \in Candidates : Misleads(c) =>
    \E r \in Requests : /\ request[r] # Idle /\ request'[r] = Idle
                        /\ request[r].candidate = c /\ Overtaken(r)

ReturnedOnRecord ==
  \A c \in Candidates :
    status[c] \in Away /\ status'[c] # status[c] =>
      /\ Len(events'[c]) = Len(events[c]) + 1
      /\ LET event == events'[c][Len(events'[c])] IN
         /\ event.new = status'[c]
         /\ event.action = "restore" \/ event.previous \in Visible

DeskStepOK == DeskInv' /\ MisledByOvertaken /\ ReturnedOnRecord

\* What a step leaves alone of one candidate's trail and rules.
LEMMA OthersUntouched ==
  ASSUME NEW c, events'[c] = events[c], status'[c] = status[c], Linked(c)' \subseteq Linked(c)
  PROVE  (Gapless(c)' <=> Gapless(c)) /\ ~ Misleads(c)
BY DEF Gapless, Misapplied, Misleads

\* The step concerns no review: a candidate that exists keeps its status, a new
\* one is potential, and no rule is linked to a candidate.
NoReview ==
  /\ \A c \in Candidates :
       /\ status[c] # "absent" => status'[c] = status[c]
       /\ status[c] = "absent" => status'[c] \in {"absent", "potential"}
       /\ Linked(c)' \subseteq Linked(c)
  /\ UNCHANGED events

LEMMA NoReviewStep ==
  ASSUME TypeInv, DeskInv, NoReview, RequestsAllowed'
  PROVE  DeskStepOK
<1>1. \A c \in Candidates : Len(events[c]) \in Nat
  BY DEF TypeInv, TypeOK
<1>2. UnseenUnreviewed'
  BY DEF NoReview, DeskInv, UnseenUnreviewed
<1>3. AuditTrailTells'
  <2> SUFFICES ASSUME NEW c \in Candidates, Gapless(c)
               PROVE  LET n == Len(events[c]) IN
                      IF n = 0 THEN status'[c] \in {"absent", "potential"}
                      ELSE status'[c] = events[c][n].new
    BY DEF AuditTrailTells, NoReview, Gapless
  <2>1. CASE status[c] = "absent"
    BY <2>1 DEF NoReview, DeskInv, UnseenUnreviewed
  <2>2. CASE status[c] # "absent"
    BY <2>2 DEF NoReview, DeskInv, AuditTrailTells
  <2>3. QED
    BY <2>1, <2>2
<1>4. MisledByOvertaken
  <2> SUFFICES ASSUME NEW c \in Candidates PROVE ~ Misleads(c)
    BY DEF MisledByOvertaken
  <2>1. CASE status[c] = "absent"
    <3>1. Linked(c)' = {} /\ events'[c] = events[c]
      BY <2>1 DEF NoReview, DeskInv, UnseenUnreviewed
    <3>2. QED
      BY <3>1 DEF Misleads, Misapplied, Gapless
  <2>2. CASE status[c] # "absent"
    BY <2>2, OthersUntouched DEF NoReview
  <2>3. QED
    BY <2>1, <2>2
<1>5. ReturnedOnRecord
  BY DEF NoReview, ReturnedOnRecord, Away
<1>6. QED
  BY <1>2, <1>3, <1>4, <1>5 DEF DeskInv, DeskStepOK

LEMMA QuietStep ==
  ASSUME TypeInv, DeskInv, NoReview, UNCHANGED request
  PROVE  DeskStepOK
<1>1. RequestsAllowed'
  BY DEF DeskInv, RequestsAllowed, LoadedAsAllowed
<1>2. QED
  BY <1>1, NoReviewStep

\* What one request does to itself leaves the others as they loaded.
LEMMA OwnRequest ==
  ASSUME TypeInv, DeskInv, NEW r \in Requests, NEW q,
         request' = [request EXCEPT ![r] = q],
         q # Idle =>
           /\ q.action # "restore" =>
                /\ q.status \in Visible /\ q.phase # "disable"
                /\ q.scope # NoTarget => q.action = "false_positive"
           /\ q.action = "restore" => q.status \in Away
  PROVE  RequestsAllowed'
<1> SUFFICES ASSUME NEW s \in Requests, request'[s] # Idle
             PROVE  LoadedAsAllowed(s)'
  BY DEF RequestsAllowed
<1>1. CASE s = r
  <2>1. request'[s] = q
    BY <1>1 DEF TypeInv, RequestInv
  <2>2. QED
    BY <2>1 DEF LoadedAsAllowed
<1>2. CASE s # r
  <2>1. request'[s] = request[s]
    BY <1>2 DEF TypeInv, RequestInv
  <2>2. LoadedAsAllowed(s)
    BY <2>1 DEF DeskInv, RequestsAllowed
  <2>3. QED
    BY <2>1, <2>2 DEF LoadedAsAllowed
<1>3. QED
  BY <1>1, <1>2

LEMMA Answered ==
  ASSUME TypeInv, DeskInv, NEW r \in Requests, Respond(r)
  PROVE  RequestsAllowed' /\ request'[r] = Idle
<1>1. request' = [request EXCEPT ![r] = Idle]
  BY DEF Respond
<1>2. QED
  BY <1>1, OwnRequest DEF TypeInv, RequestInv

\* A request that only reads or answers.
LEMMA ReadStep ==
  ASSUME TypeInv, DeskInv, RequestsAllowed', UNCHANGED <<status, events, rules>>
  PROVE  DeskStepOK
<1>1. \A c : Linked(c)' = Linked(c)
  BY DEF Linked, RuleIds
<1>2. NoReview
  BY <1>1 DEF NoReview
<1>3. QED
  BY <1>2, NoReviewStep

\* What holds up to n + 1 holds up to n and for n + 1.
LEMMA LastOfMany ==
  ASSUME NEW n \in Nat, NEW e
  PROVE  (\A i \in 1 .. n + 1 : e[i].previous = IF i = 1 THEN "potential" ELSE e[i - 1].new)
           <=> /\ \A i \in 1 .. n : e[i].previous = IF i = 1 THEN "potential" ELSE e[i - 1].new
               /\ e[n + 1].previous = IF n + 1 = 1 THEN "potential" ELSE e[n + 1 - 1].new
<1> DEFINE Follows(i) == e[i].previous = IF i = 1 THEN "potential" ELSE e[i - 1].new
<1>1. \A i : i \in 1 .. n + 1 <=> i \in 1 .. n \/ i = n + 1
  OBVIOUS
<1> HIDE DEF Follows
<1>2. (\A i \in 1 .. n + 1 : Follows(i)) <=> (\A i \in 1 .. n : Follows(i)) /\ Follows(n + 1)
  BY <1>1
<1>3. QED
  BY <1>2 DEF Follows

\* An event that is recorded with the status it brings keeps the trail telling:
\* without a gap it says what the status is now.
LEMMA RecordTells ==
  ASSUME TypeInv, DeskInv, NEW c \in Candidates, NEW action \in Action,
         NEW previous \in Status, status[c] # "absent", Record(c, action, previous),
         \/ status' = [status EXCEPT ![c] = StatusBy[action]]
         \/ status' = status /\ StatusBy[action] = previous
  PROVE  /\ AuditTrailTells'
         /\ Gapless(c) /\ status[c] = previous => Gapless(c)'
         /\ \A d \in Candidates : d # c => events'[d] = events[d] /\ status'[d] = status[d]
         /\ status'[c] # "absent"
<1> DEFINE n == Len(events[c])
<1>1. /\ n \in Nat /\ status[c] \in Status /\ StatusBy[action] \in Status \ {"absent"}
      /\ events \in [Candidates -> Seq(Event)]
  BY StatusByType DEF TypeInv, TypeOK
<1>2. /\ \A d \in Candidates : d # c => events'[d] = events[d] /\ status'[d] = status[d]
      /\ Len(events'[c]) = n + 1
      /\ \A i \in 1 .. n : events'[c][i] = events[c][i]
      /\ events'[c][n + 1].previous = previous /\ events'[c][n + 1].new = StatusBy[action]
  <2>1. \A d \in Candidates : d # c => status'[d] = status[d]
    BY DEF TypeInv, TypeOK
  <2>2. /\ \A d \in Candidates : d # c => events'[d] = events[d]
        /\ Len(events'[c]) = Len(events[c]) + 1
        /\ \A i \in 1 .. Len(events[c]) : events'[c][i] = events[c][i]
        /\ events'[c][Len(events[c]) + 1] =
             [action |-> action, previous |-> previous, new |-> StatusBy[action]]
    BY <1>1, RecordEvents
  <2>3. QED
    BY <2>1, <2>2
<1>3. /\ \/ status'[c] = StatusBy[action]
         \/ status'[c] = status[c] /\ StatusBy[action] = previous
      /\ status'[c] # "absent"
  <2>1. status \in [Candidates -> Status]
    BY DEF TypeInv, TypeOK
  <2>2. CASE status' = [status EXCEPT ![c] = StatusBy[action]]
    BY <1>1, <2>1, <2>2
  <2>3. CASE status' = status /\ StatusBy[action] = previous
    BY <2>3
  <2>4. QED
    BY <2>2, <2>3
<1> DEFINE reached == IF n = 0 THEN "potential" ELSE events[c][n].new
<1>4. Gapless(c) => status[c] = reached
  BY DEF DeskInv, AuditTrailTells
<1>5. Gapless(c)' <=> Gapless(c) /\ previous = reached
  <2>1. \A i \in 1 .. n : i # 1 => i - 1 \in 1 .. n
    BY <1>1
  <2>2. Gapless(c)' <=>
          /\ \A i \in 1 .. n : events'[c][i].previous =
                                IF i = 1 THEN "potential" ELSE events'[c][i - 1].new
          /\ events'[c][n + 1].previous =
                IF n + 1 = 1 THEN "potential" ELSE events'[c][n + 1 - 1].new
    <3>1. Gapless(c)' <=>
            \A i \in 1 .. n + 1 : events'[c][i].previous =
                                 IF i = 1 THEN "potential" ELSE events'[c][i - 1].new
      BY <1>2 DEF Gapless
    <3>2. QED
      BY <1>1, <3>1, LastOfMany
  <2>3. (\A i \in 1 .. n : events'[c][i].previous =
                           IF i = 1 THEN "potential" ELSE events'[c][i - 1].new)
          <=> Gapless(c)
    BY <1>2, <2>1 DEF Gapless
  <2>4. (IF n + 1 = 1 THEN "potential" ELSE events'[c][n + 1 - 1].new) = reached
    <3>1. CASE n = 0
      BY <3>1
    <3>2. CASE n # 0
      <4>1. n + 1 # 1 /\ n + 1 - 1 = n /\ n \in 1 .. n
        BY <1>1, <3>2
      <4>2. QED
        BY <1>2, <3>2, <4>1
    <3>3. QED
      BY <3>1, <3>2
  <2>5. QED
    BY <1>2, <2>2, <2>3, <2>4
<1> HIDE DEF reached
<1>6. AuditTrailTells'
  <2> SUFFICES ASSUME NEW d \in Candidates, Gapless(d)'
               PROVE  IF Len(events'[d]) = 0 THEN status'[d] \in {"absent", "potential"}
                      ELSE status'[d] = events'[d][Len(events'[d])].new
    BY DEF AuditTrailTells
  <2>1. CASE d = c
    <3>1. status'[c] = StatusBy[action]
      BY <1>3, <1>4, <1>5, <2>1
    <3>2. QED
      BY <1>1, <1>2, <2>1, <3>1
  <2>2. CASE d # c
    <3>1. events'[d] = events[d] /\ status'[d] = status[d]
      BY <1>2, <2>2
    <3>2. Gapless(d)
      BY <3>1 DEF Gapless
    <3>3. QED
      BY <3>1, <3>2 DEF DeskInv, AuditTrailTells
  <2>3. QED
    BY <2>1, <2>2
<1>7. QED
  BY <1>2, <1>3, <1>4, <1>5, <1>6

\* The commit of a request is the only step that can mislead about its candidate.
LEMMA CommitStep ==
  ASSUME TypeInv, DeskInv, NEW r \in Requests, request[r] # Idle, Respond(r),
         NEW c \in Candidates, request[r].candidate = c,
         NEW action \in Action, request[r].action = action,
         Record(c, action, request[r].status),
         \/ status' = [status EXCEPT ![c] = StatusBy[action]]
         \/ status' = status /\ StatusBy[action] = request[r].status,
         action # "restore" => request[r].status \in Visible,
         \A d \in Candidates : d # c => Linked(d)' \subseteq Linked(d),
         ~ Overtaken(r) /\ ~ Misapplied(c) => ~ Misapplied(c)'
  PROVE  DeskStepOK
<1>1. /\ status[c] # "absent" /\ request[r].status \in Status
      /\ events \in [Candidates -> Seq(Event)]
  BY LoadedRequest DEF TypeInv, TypeOK
<1>2. /\ AuditTrailTells'
      /\ Gapless(c) /\ status[c] = request[r].status => Gapless(c)'
      /\ \A d \in Candidates : d # c => events'[d] = events[d] /\ status'[d] = status[d]
      /\ status'[c] # "absent"
  BY <1>1, RecordTells
<1>3. UnseenUnreviewed'
  BY <1>2 DEF DeskInv, UnseenUnreviewed
<1>4. RequestsAllowed' /\ request'[r] = Idle
  BY Answered
<1>5. MisledByOvertaken
  <2> SUFFICES ASSUME NEW d \in Candidates, Misleads(d)
               PROVE  /\ request[r] # Idle /\ request'[r] = Idle
                      /\ request[r].candidate = d /\ Overtaken(r)
    BY DEF MisledByOvertaken
  <2>1. d = c
    BY <1>2, OthersUntouched
  <2>2. Overtaken(r)
    <3>1. ~ Overtaken(r) => status[c] = request[r].status
      BY DEF Overtaken
    <3>2. QED
      BY <1>2, <2>1, <3>1 DEF Misleads
  <2>3. QED
    BY <1>4, <2>1, <2>2
<1>6. ReturnedOnRecord
  <2> SUFFICES ASSUME NEW d \in Candidates, status[d] \in Away, status'[d] # status[d]
               PROVE  /\ Len(events'[d]) = Len(events[d]) + 1
                      /\ LET event == events'[d][Len(events'[d])] IN
                         /\ event.new = status'[d]
                         /\ event.action = "restore" \/ event.previous \in Visible
    BY DEF ReturnedOnRecord
  <2>1. d = c
    BY <1>2
  <2>2. /\ Len(events'[c]) = Len(events[c]) + 1
        /\ events'[c][Len(events[c]) + 1] =
             [action |-> action, previous |-> request[r].status, new |-> StatusBy[action]]
    BY <1>1, RecordEvents
  <2>3. status'[c] = StatusBy[action]
    BY <2>1 DEF TypeInv, TypeOK
  <2>4. QED
    BY <2>1, <2>2, <2>3
<1>7. QED
  BY <1>2, <1>3, <1>4, <1>5, <1>6 DEF DeskInv, DeskStepOK

LEMMA CommitReviewStep ==
  ASSUME TypeInv, DeskInv, NEW r \in Requests, CommitReview(r)
  PROVE  DeskStepOK
<1> DEFINE q == request[r]
<1>1. request[r] # Idle
  BY DEF CommitReview, Idle
<1>2. PICK c \in Candidates : q.candidate = c
  BY <1>1, LoadedRequest DEF TypeInv
<1>3. PICK action \in Action : q.action = action
  BY <1>1, LoadedRequest DEF TypeInv
<1> DEFINE rule == [scope |-> q.scope, candidate |-> c, enabled |-> TRUE]
<1>4. /\ action # "restore" /\ q.scope \in Scope \cup {NoTarget}
      /\ q.status \in Visible /\ (q.scope # NoTarget => action = "false_positive")
  BY <1>1, <1>3, LoadedRequest
     DEF CommitReview, TypeInv, DeskInv, RequestsAllowed, LoadedAsAllowed
<1>5. /\ status' = IF StatusBy[action] = q.status THEN status
                   ELSE [status EXCEPT ![c] = StatusBy[action]]
      /\ Record(c, action, q.status)
      /\ rules' = IF q.scope = NoTarget THEN rules ELSE Append(rules, rule)
      /\ Respond(r)
  BY <1>2, <1>3 DEF CommitReview
<1>6. rules \in Seq(Rule) /\ (q.scope # NoTarget => rule \in Rule) /\ rule.candidate = c
  BY <1>4 DEF TypeInv, TypeOK, Rule
<1> HIDE DEF rule
<1>7. ASSUME NEW d \in Candidates, d # c PROVE Linked(d)' \subseteq Linked(d)
  <2>1. CASE q.scope = NoTarget
    BY <1>5, <2>1 DEF Linked, RuleIds
  <2>2. CASE q.scope # NoTarget
    BY <1>5, <1>6, <1>7, <2>2, AppendedLinks
  <2>3. QED
    BY <2>1, <2>2
<1>8. ASSUME ~ Overtaken(r), ~ Misapplied(c) PROVE ~ Misapplied(c)'
  <2>1. status[c] = q.status
    BY <1>2, <1>8 DEF Overtaken
  <2>2. CASE q.scope = NoTarget
    <3>1. Linked(c) = {}
      BY <1>4, <1>8, <2>1 DEF Misapplied, Visible
    <3>2. Linked(c)' = Linked(c)
      BY <1>5, <2>2 DEF Linked, RuleIds
    <3>3. QED
      BY <3>1, <3>2 DEF Misapplied
  <2>3. CASE q.scope # NoTarget
    <3>1. StatusBy[action] = "false_positive" /\ StatusBy[action] # q.status
      BY <1>4, <2>3, StatusByType DEF Visible
    <3>2. status'[c] = "false_positive"
      BY <1>5, <3>1 DEF TypeInv, TypeOK
    <3>3. QED
      BY <3>2 DEF Misapplied
  <2>4. QED
    BY <2>2, <2>3
<1>9. \/ status' = [status EXCEPT ![c] = StatusBy[action]]
      \/ status' = status /\ StatusBy[action] = q.status
  BY <1>5
<1>10. QED
  BY <1>1, <1>2, <1>3, <1>4, <1>5, <1>7, <1>8, <1>9, CommitStep

LEMMA RestoredStep ==
  ASSUME TypeInv, DeskInv, NEW r \in Requests, request[r] # Idle,
         request[r].action = "restore", NEW t, Restored(r, t),
         NEW c \in Candidates, request[r].candidate = c,
         \A d \in Candidates : Linked(d)' \subseteq Linked(d),
         ~ Overtaken(r) => Linked(c)' = {}
  PROVE  DeskStepOK
<1>1. /\ status' = [status EXCEPT ![c] = "potential"]
      /\ Record(c, "restore", request[r].status) /\ Respond(r)
  BY DEF Restored
<1>2. "restore" \in Action /\ StatusBy["restore"] = "potential"
  BY StatusByType DEF Action
<1>3. ~ Overtaken(r) /\ ~ Misapplied(c) => ~ Misapplied(c)'
  BY DEF Misapplied
<1>4. QED
  BY <1>1, <1>2, <1>3, CommitStep

\* Every step keeps the invariant and is one of those that the properties allow.
LEMMA DeskStep ==
  ASSUME TypeInv, DeskInv, [Next]_vars
  PROVE  DeskStepOK
<1>1. ASSUME Sightings PROVE DeskStepOK
  <2>1. UNCHANGED <<events, rules, request>>
    BY <1>1 DEF Sightings, OpenWindow, CollectorSights, PivotFinds, Sight
  <2>2. \A c \in Candidates :
          /\ status[c] # "absent" => status'[c] = status[c]
          /\ status[c] = "absent" => status'[c] \in {"absent", "potential"}
    BY <1>1 DEF Sightings, OpenWindow, CollectorSights, PivotFinds, Sight, TypeInv, TypeOK
  <2>3. \A c : Linked(c)' = Linked(c)
    BY <2>1 DEF Linked, RuleIds
  <2>4. NoReview
    BY <2>1, <2>2, <2>3 DEF NoReview
  <2>5. QED
    BY <2>1, <2>4, QuietStep
<1>2. ASSUME Settings PROVE DeskStepOK
  <2>1. UNCHANGED <<status, events, request>>
    BY <1>2 DEF Settings, AddSuppression, DisableSuppression, PatchTarget
  <2>2. ASSUME NEW c \in Candidates PROVE Linked(c)' \subseteq Linked(c)
    <3>1. rules \in Seq(Rule)
      BY DEF TypeInv, TypeOK
    <3>2. ASSUME NEW scope \in Scope, AddSuppression(scope)
          PROVE  Linked(c)' \subseteq Linked(c)
      <4> DEFINE rule == [scope |-> scope, candidate |-> NoCandidate, enabled |-> TRUE]
      <4>1. rule \in Rule /\ rule.candidate # c
        BY ScopesAssumption DEF Rule
      <4>2. rules' = Append(rules, rule)
        BY <3>2 DEF AddSuppression
      <4> HIDE DEF rule
      <4>3. QED
        BY <3>1, <4>1, <4>2, AppendedLinks
    <3>3. ASSUME NEW i, DisableSuppression(i) PROVE Linked(c)' \subseteq Linked(c)
      <4>1. Disabled({i})
        BY <3>1, <3>3, DisableOne DEF DisableSuppression
      <4>2. QED
        BY <3>1, <4>1, DisabledLinks
    <3>4. ASSUME NEW scoring, PatchTarget(scoring) PROVE Linked(c)' \subseteq Linked(c)
      BY <3>4 DEF PatchTarget, Linked, RuleIds
    <3>5. QED
      BY <1>2, <3>2, <3>3, <3>4 DEF Settings
  <2>3. NoReview
    BY <2>1, <2>2 DEF NoReview
  <2>4. QED
    BY <2>1, <2>3, QuietStep
<1>3. ASSUME NEW r \in Requests, Reviews(r) PROVE DeskStepOK
  <2>1. ASSUME NEW c \in Candidates, NEW action \in Action,
               NEW scope \in Scope \cup {NoTarget}, LoadForReview(r, c, action, scope)
        PROVE  DeskStepOK
    <3>1. /\ status[c] \in Visible /\ action # "restore"
          /\ scope # NoTarget => action = "false_positive"
          /\ UNCHANGED <<status, events, rules>>
      BY <2>1 DEF LoadForReview
    <3>2. PICK q \in Request :
            /\ request' = [request EXCEPT ![r] = q]
            /\ q.candidate = c /\ q.action = action /\ q.status = status[c]
            /\ q.scope = scope /\ q.linked = {} /\ q.phase \in {"check", "write"}
      BY <2>1, LoadForReviewLoads
    <3>3. RequestsAllowed'
      BY <3>1, <3>2, OwnRequest
    <3>4. QED
      BY <3>1, <3>3, ReadStep
  <2>2. ASSUME NEW c \in Candidates, LoadForRestore(r, c)
        PROVE  DeskStepOK
    <3>1. status[c] \in Away /\ UNCHANGED <<status, events, rules>>
      BY <2>2 DEF LoadForRestore
    <3>2. PICK q \in Request :
            /\ request' = [request EXCEPT ![r] = q]
            /\ q.action = "restore" /\ q.status = status[c]
      BY <2>2, LoadForRestoreLoads
    <3>3. RequestsAllowed'
      BY <3>1, <3>2, OwnRequest
    <3>4. QED
      BY <3>1, <3>3, ReadStep
  <2>3. ASSUME request[r] # Idle, NEW scope \in Scope \cup {NoTarget},
               MovesToWrite(r, scope), request[r].phase = "check",
               request[r].action = "publish" => scope = request[r].scope,
               request[r].action \in {"publish", "restore"},
               UNCHANGED <<status, events, rules>>
        PROVE  DeskStepOK
    <3>1. LoadedAsAllowed(r)
      BY <2>3 DEF DeskInv, RequestsAllowed
    <3>2. PICK q \in Request :
            /\ request' = [request EXCEPT ![r] = q]
            /\ q.phase = "write" /\ q.candidate = request[r].candidate
            /\ q.action = request[r].action /\ q.status = request[r].status
            /\ q.scope = scope /\ q.linked = request[r].linked
      BY <2>3, GoesOnToWrite DEF TypeInv
    <3>3. /\ q.action # "restore" =>
               /\ q.status \in Visible /\ q.phase # "disable"
               /\ q.scope # NoTarget => q.action = "false_positive"
          /\ q.action = "restore" => q.status \in Away
      BY <2>3, <3>1, <3>2 DEF LoadedAsAllowed
    <3>4. RequestsAllowed'
      BY <3>2, <3>3, OwnRequest
    <3>5. QED
      BY <2>3, <3>4, ReadStep
  <2>4. ASSUME request[r] # Idle, CheckPolicy(r) PROVE DeskStepOK
    <3>1. /\ request[r].phase = "check" /\ request[r].action = "publish"
          /\ UNCHANGED <<status, events, rules>>
      BY <2>4 DEF CheckPolicy
    <3>2. CASE Respond(r)
      BY <3>1, <3>2, Answered, ReadStep
    <3>3. CASE request' = [request EXCEPT ![r].phase = "write"]
      <4>1. MovesToWrite(r, request[r].scope)
        BY <3>3 DEF MovesToWrite
      <4>2. request[r].scope \in Scope \cup {NoTarget}
        BY <2>4, LoadedRequest DEF TypeInv
      <4>3. QED
        BY <2>3, <2>4, <3>1, <4>1, <4>2
    <3>4. QED
      BY <2>4, <3>2, <3>3 DEF CheckPolicy
  <2>5. CASE CommitReview(r)
    BY <2>5, CommitReviewStep
  <2>6. ASSUME request[r] # Idle, NEW t \in Targets, RestoreLinked(r, t)
        PROVE  DeskStepOK
    <3>1. rules \in Seq(Rule) /\ request[r].phase = "disable"
      BY <2>6 DEF RestoreLinked, TypeInv, TypeOK
    <3>2. Disabled(request[r].linked)
      BY <2>6, <3>1, DisableLinked DEF RestoreLinked
    <3>3. PICK c \in Candidates : request[r].candidate = c
      BY <2>6, LoadedRequest DEF TypeInv
    <3>4. request[r].action = "restore"
      <4>1. LoadedAsAllowed(r)
        BY <2>6 DEF DeskInv, RequestsAllowed
      <4>2. QED
        BY <3>1, <4>1 DEF LoadedAsAllowed
    <3>5. \A d \in Candidates : Linked(d)' \subseteq Linked(d) \ request[r].linked
      BY <3>1, <3>2, DisabledLinks
    <3>6. ~ Overtaken(r) => Linked(c)' = {}
      BY <3>1, <3>3, <3>4, <3>5 DEF Overtaken
    <3>7. QED
      BY <2>6, <3>3, <3>4, <3>5, <3>6, RestoredStep DEF RestoreLinked
  <2>7. ASSUME request[r] # Idle, NEW t \in Targets, CheckRestore(r, t)
        PROVE  DeskStepOK
    <3>1. /\ request[r].phase = "check" /\ request[r].action = "restore"
          /\ MovesToWrite(r, t) /\ t \in Scope \cup {NoTarget}
          /\ UNCHANGED <<status, events, rules>>
      BY <2>7 DEF CheckRestore, MovesToWrite, Scope
    <3>2. QED
      BY <2>3, <2>7, <3>1
  <2>8. ASSUME request[r] # Idle, CommitRestore(r) PROVE DeskStepOK
    <3>1. /\ request[r].phase = "write" /\ request[r].action = "restore"
          /\ Restored(r, request[r].scope) /\ UNCHANGED rules
      BY <2>8 DEF CommitRestore
    <3>2. PICK c \in Candidates : request[r].candidate = c
      BY <2>8, LoadedRequest DEF TypeInv
    <3>3. \A d : Linked(d)' = Linked(d)
      BY <3>1 DEF Linked, RuleIds
    <3>4. ~ Overtaken(r) => Linked(c)' = {}
      BY <3>1, <3>2, <3>3 DEF Overtaken
    <3>5. QED
      BY <2>8, <3>1, <3>2, <3>3, <3>4, RestoredStep
  <2>9. CASE Abandon(r)
    BY <2>9, Answered, ReadStep DEF Abandon
  <2>10. QED
    BY <1>3, <2>1, <2>2, <2>4, <2>5, <2>6, <2>7, <2>8, <2>9 DEF Reviews
<1>4. CASE UNCHANGED vars
  <2>1. UNCHANGED <<status, events, rules, request>>
    BY <1>4 DEF vars
  <2>2. \A c : Linked(c)' = Linked(c)
    BY <2>1 DEF Linked, RuleIds
  <2>3. NoReview
    BY <2>1, <2>2 DEF NoReview
  <2>4. QED
    BY <2>1, <2>3, QuietStep
<1>5. QED
  BY <1>1, <1>2, <1>3, <1>4 DEF Next

LEMMA DeskSafety == Spec => []DeskInv
<1>1. Init => DeskInv
  BY DEF Init, DeskInv, RequestsAllowed, UnseenUnreviewed, AuditTrailTells, Linked, RuleIds
<1>2. TypeInv /\ DeskInv /\ [Next]_vars => DeskInv'
  BY DeskStep DEF DeskStepOK
<1>3. QED
  BY <1>1, <1>2, TypeSafety, PTL DEF Spec

\* However many reviews overlap, the append-only events of a candidate account
\* for its status unless they show a gap.
THEOREM TrailTellsOverlaps == Spec => []AuditTrailTells
BY DeskSafety, PTL DEF DeskInv

\* A gap in the trail, or a suppression that outlives its disposition, comes of
\* a request that another one has overtaken, and of no other interleaving.
THEOREM OnlyOverlapsMislead == Spec => OnlyOvertakenMislead
<1>1. TypeInv /\ DeskInv /\ [Next]_vars => MisledByOvertaken
  BY DeskStep DEF DeskStepOK
<1>2. MisledByOvertaken <=>
        \A c \in Candidates :
          Gapless(c) /\ ~ Misapplied(c) /\ ~ (Gapless(c)' /\ ~ Misapplied(c)') =>
            \E r \in Requests : /\ request[r] # Idle /\ request'[r] = Idle
                               /\ request[r].candidate = c /\ Overtaken(r)
  BY DEF MisledByOvertaken, Misleads
<1>3. QED
  BY <1>1, <1>2, TypeSafety, DeskSafety, PTL DEF Spec, OnlyOvertakenMislead

\* What was reviewed away comes back on record alone.
THEOREM ReturnsAreRecorded == Spec => OnlyRecordedReturns
<1>1. TypeInv /\ DeskInv /\ [Next]_vars => ReturnedOnRecord
  BY DeskStep DEF DeskStepOK
<1>2. QED
  BY <1>1, TypeSafety, DeskSafety, PTL DEF Spec, OnlyRecordedReturns, ReturnedOnRecord

==============================================================================
