-------------------------- MODULE CandidateEvidence --------------------------
(***************************************************************************)
(* One candidate (a domain and the target it matches) and its evidence:    *)
(* sightings of the collector, of pivots and of analysts merge into the    *)
(* row, and append an observation, in one transaction; restores reset what *)
(* the rules say of it.                                                    *)
(*                                                                         *)
(* Every writer reads the row first, without a lock, and SQLAlchemy then   *)
(* writes the columns whose new value differs from the one it loaded, and  *)
(* no other.  A pivot takes the lock before it looks for the candidate     *)
(* (its provider's status is flushed by the first query), but the seed of  *)
(* its job was loaded before and stays in the session's identity map.  The *)
(* collector keeps its transaction open from its first write to its next   *)
(* commit.  The supported topology has one worker, which either collects   *)
(* or pivots, beside the requests of the console.                          *)
(*                                                                         *)
(* A sighting's score and reasons are what the rules of its moment give;   *)
(* one number stands for both.  All timestamps are the writer's clock.     *)
(***************************************************************************)
EXTENDS Naturals, Sequences, FiniteSetsExt

CONSTANTS
  Handlers,      \* requests of the console in flight at once
  MaxScore,      \* scores a match may have
  MaxSightings,  \* bound: sightings
  MaxReviews     \* bound: dispositions and restores

Scores  == 1 .. MaxScore
Sources == {"certstream", "urlscan", "manual"}
Writers == {"worker"} \cup Handlers

ASSUME EvidenceAssumption ==
  MaxScore \in Nat \ {0} /\ MaxSightings \in Nat /\ MaxReviews \in Nat

VARIABLES
  row,         \* the committed candidate, or NoRow
  evidence,    \* observations, and restores, in the order of their commits
  reading,     \* what each writer has loaded: purpose, row and time
  draft,       \* the row inside the collector's open transaction; NoRow without one
  pending,     \* the observations inside it
  clock,       \* sightings so far, as the time
  reviews,     \* dispositions and restores so far
  overlapped,  \* history: a writer has merged into a row that had changed since
  decided      \* history: the status the last review left

\* No candidate is found, and nothing is loaded.
NoRow  == [status |-> "none"]
Unread == [for |-> "none"]

store        == <<row, evidence, overlapped, decided>>
session      == <<draft, pending>>
counts       == <<clock, reviews>>
evidenceVars == <<store, session, counts, reading>>

\* The collector's transaction has written, and holds the writer lock.
Locked == pending # <<>>

\* What the statements of the collector's transaction see.
Visible == IF Locked THEN draft ELSE row

-----------------------------------------------------------------------------
(* ingest_observable.                                                      *)

Observation(p, t, score) == [kind |-> "sighting", source |-> p, time |-> t, score |-> score]

NewCandidate(p, t, score) ==
  [status |-> "potential", confidence |-> score, reasons |-> {score},
   sources |-> {p}, first |-> t, last |-> t]

MergeCandidate(c, p, t, score) ==
  [c EXCEPT !.first = Min({@, t}), !.last = Max({@, t}),
            !.confidence = Max({@, score}),
            !.reasons = @ \cup {score}, !.sources = @ \cup {p}]

\* Mutant: every column of the loaded row is written back.
FlushedWhole(current, loaded, changed) == changed

\* The unit of work writes the columns that differ from what it loaded.
Flushed(current, loaded, changed) ==
  [c \in DOMAIN changed |-> IF changed[c] = loaded[c] THEN current[c] ELSE changed[c]]

\* The unique constraint refuses a row inserted since it was not found.
Collides(current, loaded) == loaded = NoRow /\ current # NoRow

\* A merge always writes both times: those that SQLite returned are naive, and
\* never equal to the aware ones that _merge_candidate assigns.
Ingested(current, loaded, p, t, score) ==
  LET merged == MergeCandidate(loaded, p, t, score) IN
  IF loaded = NoRow THEN NewCandidate(p, t, score)
  ELSE [Flushed(current, loaded, merged) EXCEPT !.first = merged.first, !.last = merged.last]

\* A writer loads the row; ingest_observable has taken its timestamp just before.
Reads(w, purpose, current, t) ==
  /\ reading[w] = Unread
  /\ reading' = [reading EXCEPT ![w] = [for |-> purpose, row |-> current, time |-> t]]

Ready(w, purpose) == reading[w] # Unread /\ reading[w].for = purpose
Done(w) == reading' = [reading EXCEPT ![w] = Unread]
Loaded(w) == reading[w].row

\* What a writer loaded is still there; it merges nothing into the status.
Current(current, loaded) ==
  \/ loaded = current
  \/ NoRow \notin {loaded, current} /\ [loaded EXCEPT !.status = current.status] = current

NextTime == clock < MaxSightings /\ clock' = clock + 1

\* A sighting by a writer other than the collector, and its COMMIT.
IngestAndCommit(p, loaded, t, score) ==
  IF Collides(row, loaded)
    THEN UNCHANGED store
    ELSE /\ row' = Ingested(row, loaded, p, t, score)
         /\ evidence' = Append(evidence, Observation(p, t, score))
         /\ overlapped' = (overlapped \/ ~ Current(row, loaded))
         /\ UNCHANGED decided

-----------------------------------------------------------------------------
(* The collector.                                                          *)

CollectorReads ==
  /\ NextTime
  /\ Reads("worker", "collect", Visible, clock')
  /\ UNCHANGED <<store, session, reviews>>

\* The first write of a transaction takes the lock; a collision rolls it back.
CollectorWrites(score) ==
  /\ Ready("worker", "collect")
  /\ IF Collides(Visible, Loaded("worker"))
       THEN UNCHANGED <<session, overlapped>>
       ELSE /\ draft' = Ingested(Visible, Loaded("worker"), "certstream",
                                 reading["worker"].time, score)
            /\ pending' = Append(pending,
                            Observation("certstream", reading["worker"].time, score))
            /\ overlapped' = (overlapped \/ ~ Current(Visible, Loaded("worker")))
  /\ Done("worker")
  /\ UNCHANGED <<row, evidence, decided, counts>>

CollectorCommits ==
  /\ Locked /\ reading["worker"] = Unread
  /\ row' = draft /\ evidence' = evidence \o pending
  /\ draft' = NoRow /\ pending' = <<>>
  /\ UNCHANGED <<overlapped, decided, counts, reading>>

\* Mutant: the row is committed before its observations.
CollectorFailsHalf ==
  /\ Locked
  /\ row' = draft /\ draft' = NoRow /\ pending' = <<>>
  /\ Done("worker")
  /\ UNCHANGED <<evidence, overlapped, decided, counts>>

\* A refused write, or the loss of the process, takes the transaction with it.
CollectorFails ==
  /\ Locked
  /\ draft' = NoRow /\ pending' = <<>>
  /\ Done("worker")
  /\ UNCHANGED <<store, counts>>

-----------------------------------------------------------------------------
(* Pivots: _store_pivot_outcome and _ingest_pivot_items, between two       *)
(* windows of the one worker.                                              *)

LoadSeed ==
  /\ ~ Locked /\ row # NoRow
  /\ Reads("worker", "seed", row, 0)
  /\ UNCHANGED <<store, session, counts>>

\* The answer names the seed's own domain again ...
StoreForSeed(score) ==
  /\ Ready("worker", "seed")
  /\ NextTime
  /\ IngestAndCommit("urlscan", Loaded("worker"), clock', score)
  /\ Done("worker")
  /\ UNCHANGED <<session, reviews>>

\* ... or a candidate that is found, or not, under the lock.
StoreDiscovery(score) ==
  /\ ~ Locked /\ reading["worker"] = Unread
  /\ NextTime
  /\ IngestAndCommit("urlscan", row, clock', score)
  /\ UNCHANGED <<session, reviews, reading>>

-----------------------------------------------------------------------------
(* Handlers of the console: a manual sighting (queue_pivot with a domain), *)
(* a disposition, a restore.  A write waits for the lock; a request, or a  *)
(* store, that waits too long fails.                                       *)

Sees(r) ==
  /\ NextTime
  /\ Reads(r, "manual", row, clock')
  /\ UNCHANGED <<store, session, reviews>>

QueuePivot(r, score) ==
  /\ ~ Locked /\ Ready(r, "manual")
  /\ IngestAndCommit("manual", Loaded(r), reading[r].time, score)
  /\ Done(r)
  /\ UNCHANGED <<session, counts>>

LoadForReview(r) ==
  /\ row # NoRow /\ reviews < MaxReviews
  /\ Reads(r, "review", row, 0)
  /\ reviews' = reviews + 1
  /\ UNCHANGED <<store, session, clock>>

Dispose(r) ==
  /\ ~ Locked /\ Ready(r, "review") /\ Loaded(r).status = "potential"
  /\ row' = Flushed(row, Loaded(r), [Loaded(r) EXCEPT !.status = "closed"])
  /\ decided' = "closed"
  /\ Done(r)
  /\ UNCHANGED <<evidence, overlapped, session, counts>>

\* Mutant: a restore keeps what the rules said before.
RestoreCandidateOnly(r, score) ==
  /\ ~ Locked /\ Ready(r, "review") /\ Loaded(r).status = "closed"
  /\ row' = Flushed(row, Loaded(r), [Loaded(r) EXCEPT !.status = "potential"])
  /\ evidence' = Append(evidence, [kind |-> "restore", score |-> score])
  /\ overlapped' = (overlapped \/ ~ Current(row, Loaded(r)))
  /\ decided' = "potential"
  /\ Done(r)
  /\ UNCHANGED <<session, counts>>

\* The rules of now replace what earlier rules have said.
RestoreCandidate(r, score) ==
  /\ ~ Locked /\ Ready(r, "review") /\ Loaded(r).status = "closed"
  /\ row' = Flushed(row, Loaded(r),
              [Loaded(r) EXCEPT !.status = "potential", !.confidence = score,
                                !.reasons = {score}])
  /\ evidence' = Append(evidence, [kind |-> "restore", score |-> score])
  /\ overlapped' = (overlapped \/ ~ Current(row, Loaded(r)))
  /\ decided' = "potential"
  /\ Done(r)
  /\ UNCHANGED <<session, counts>>

Abandon(w) ==
  /\ reading[w] # Unread /\ (w = "worker" => ~ Locked)
  /\ Done(w)
  /\ UNCHANGED <<store, session, counts>>

-----------------------------------------------------------------------------
EvidenceInit ==
  /\ row = NoRow /\ evidence = <<>> /\ overlapped = FALSE /\ decided = "potential"
  /\ draft = NoRow /\ pending = <<>>
  /\ clock = 0 /\ reviews = 0
  /\ reading = [w \in Writers |-> Unread]

Collector == CollectorReads \/ CollectorCommits \/ CollectorFails
               \/ \E score \in Scores : CollectorWrites(score)

Pivots == LoadSeed \/ \E score \in Scores : StoreForSeed(score) \/ StoreDiscovery(score)

Console(r) ==
  \/ Sees(r) \/ LoadForReview(r) \/ Dispose(r)
  \/ \E score \in Scores : QueuePivot(r, score) \/ RestoreCandidate(r, score)

EvidenceNext ==
  Collector \/ Pivots \/ (\E r \in Handlers : Console(r)) \/ \E w \in Writers : Abandon(w)

EvidenceSpec == EvidenceInit /\ [][EvidenceNext]_evidenceVars

-----------------------------------------------------------------------------
(* Properties.                                                             *)

Sightings == {i \in DOMAIN evidence : evidence[i].kind = "sighting"}
Restores  == {i \in DOMAIN evidence : evidence[i].kind = "restore"}
Times     == {evidence[i].time : i \in Sightings}
Seen      == {evidence[i].source : i \in Sightings}

\* The scores given since the rules were last applied as a whole.
Judged == {evidence[i].score : i \in {j \in DOMAIN evidence : \A k \in Restores : k <= j}}

Given == {evidence[i].score : i \in DOMAIN evidence}

\* ARCHITECTURE.md: "the candidate is a derived current projection": as long
\* as no writer has merged into a row that changed after it was read, the row
\* is what its observations and restores say, in whatever order they commit.
ProjectionIsDerived ==
  row # NoRow /\ ~ overlapped =>
    /\ row.sources = Seen /\ row.first = Min(Times) /\ row.last = Max(Times)
    /\ row.reasons = Judged /\ row.confidence = Max(Judged)

\* Even when they have, nothing in the row is without evidence, the first
\* sighting is not after the last, and there is a row exactly if there is
\* evidence: what an overlap can do is leave something out, such as the reasons
\* of a confidence that another writer has raised.
ProjectionIsBacked ==
  /\ (row = NoRow) <=> (evidence = <<>>)
  /\ row # NoRow =>
       /\ row.sources # {} /\ row.sources \subseteq Seen
       /\ {row.first, row.last} \subseteq Times /\ row.first <= row.last
       /\ row.reasons # {} /\ row.reasons \cup {row.confidence} \subseteq Given

\* A merge never undoes a disposition it has not seen.
DispositionSurvives == row # NoRow => row.status = decided

=============================================================================
