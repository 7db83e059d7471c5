---------------------------- MODULE LoginThrottle ----------------------------
(***************************************************************************)
(* The login endpoint of the one web process: the in-memory throttle that  *)
(* counts failures and locks peers out, the slots that bound concurrent    *)
(* password verifications, and the login requests that use both from       *)
(* threads of their own.                                                   *)
(*                                                                         *)
(* The throttle's methods run under its own lock, and none of them waits,  *)
(* so each is one action, together with the clock it reads just before.    *)
(* Between a request's check, its verification and its charge, other       *)
(* requests of the same peer may do anything.                              *)
(*                                                                         *)
(* Time is kept as ages and countdowns: a failure's age is capped where it *)
(* leaves the window, a lock counts down to the expired entry that the     *)
(* next eviction removes.                                                  *)
(***************************************************************************)
EXTENDS Naturals, Sequences, FiniteSets, SequencesExt

CONSTANTS
  Peers,         \* throttle keys, one for each TCP peer
  Logins,        \* login requests in flight at once
  Attempts,      \* failures that lock a peer out (5)
  Window,        \* time in which they count, in ticks (300 s)
  LockTime,      \* length of a lock, in ticks (900 s)
  MaxEntries,    \* peers tracked at most (4096)
  Slots,         \* PASSWORD_CHECK_SLOTS
  NoPeer

ASSUME LimitsAssumption ==
  {Attempts, Window, LockTime, MaxEntries, Slots} \subseteq Nat \ {0}

ASSUME NoPeerAssumption == NoPeer \notin Peers

ASSUME LoginsAssumption == IsFiniteSet(Logins)

VARIABLES
  failures,  \* _failures: the ages of each key's failures; none without an entry
  left,      \* _locked_until: 0 without an entry, else one more than the time left
  seen,      \* _last_seen: keys, the least recently used first
  free,      \* value of the password_checks semaphore
  login,     \* each login request: what it does next, and for which peer
  late       \* history: verifications begun for a peer during its lock

table        == <<failures, left, seen>>
throttleVars == <<table, free, login, late>>

LoginPhase == {"idle", "passed", "verifying", "rejected", "accepted"}
Idle       == [pc |-> "idle", peer |-> NoPeer]

-----------------------------------------------------------------------------
(* The throttle's dictionaries.  A failure counts up to the end of its     *)
(* window, a lock ends when no time is left of it.                         *)

\* What a loop over s leaves of it that drops every element outside of S.
Keep(s, S) ==
  LET kept[i \in 0 .. Len(s)] ==
        IF i = 0 THEN <<>>
        ELSE IF s[i] \in S THEN Append(kept[i - 1], s[i]) ELSE kept[i - 1]
  IN  kept[Len(s)]

Recent(k) == Keep(failures[k], 0 .. Window)
Locked(k) == left[k] > 1
Expired   == 1

\* Mutant: a key is forgotten once it has no failures.
StaleIfNoFailures(k) == Recent(k) = <<>>

\* Nothing is left of a key once it has neither a recent failure nor a lock.
Stale(k) == Recent(k) = <<>> /\ ~ Locked(k)

\* What _evict_stale makes of the table: it goes through every key in it.
Lasting    == {k \in Peers : ~ Stale(k)}
Remaining  == Keep(seen, Lasting)
LeftOf(k)  == IF Locked(k) /\ ~ Stale(k) THEN left[k] ELSE 0

\* The keys after _evict_stale and a _touch of k.
Touched(k) == Append(Keep(seen, Lasting \ {k}), k)

\* Mutant: the table is never over its bound.
ExcessNever(keys) == 0

\* _enforce_bound pops the least recently used keys, locked or not.
Excess(keys) == IF Len(keys) > MaxEntries THEN Len(keys) - MaxEntries ELSE 0

-----------------------------------------------------------------------------
(* One login request.                                                      *)

LoginAt(l, pc)   == login[l].pc = pc
LoginGoes(l, pc) == login' = [login EXCEPT ![l].pc = pc]
Answer(l)        == login' = [login EXCEPT ![l] = Idle]

\* Mutant: a peer that asks while it is locked is locked for longer.
RetryAfterExtends(l, k) ==
  /\ LoginAt(l, "idle")
  /\ failures' = [j \in Peers |-> Recent(j)]
  /\ left' = [j \in Peers |-> IF j = k /\ Locked(k) THEN LockTime + 1 ELSE LeftOf(j)]
  /\ IF Locked(k)
       THEN seen' = Touched(k) /\ UNCHANGED login
       ELSE seen' = Remaining /\ login' = [login EXCEPT ![l] = [pc |-> "passed", peer |-> k]]
  /\ UNCHANGED <<free, late>>

\* Mutant: the last tick of a lock does not count.
RetryAfterEarly(l, k) ==
  /\ LoginAt(l, "idle")
  /\ failures' = [j \in Peers |-> Recent(j)]
  /\ left' = [j \in Peers |-> LeftOf(j)]
  /\ IF left[k] > 2
       THEN seen' = Touched(k) /\ UNCHANGED login
       ELSE seen' = Remaining /\ login' = [login EXCEPT ![l] = [pc |-> "passed", peer |-> k]]
  /\ UNCHANGED <<free, late>>

\* retry_after: a locked peer is answered 429 and becomes recently used.
RetryAfter(l, k) ==
  /\ LoginAt(l, "idle")
  /\ failures' = [j \in Peers |-> Recent(j)]
  /\ left' = [j \in Peers |-> LeftOf(j)]
  /\ IF Locked(k)
       THEN seen' = Touched(k) /\ UNCHANGED login
       ELSE seen' = Remaining /\ login' = [login EXCEPT ![l] = [pc |-> "passed", peer |-> k]]
  /\ UNCHANGED <<free, late>>

\* Without a free slot the answer is 429 as well, and nothing is charged.
AcquireSlot(l) ==
  /\ LoginAt(l, "passed")
  /\ IF free = 0
       THEN Answer(l) /\ UNCHANGED <<free, late>>
       ELSE /\ free' = free - 1
            /\ LoginGoes(l, "verifying")
            /\ late' = IF Locked(login[l].peer)
                         THEN [late EXCEPT ![login[l].peer] = @ + 1] ELSE late
  /\ UNCHANGED table

\* The slot is given back whatever the verification says ...
Verify(l) ==
  /\ LoginAt(l, "verifying")
  /\ free' = free + 1
  /\ LoginGoes(l, "accepted") \/ LoginGoes(l, "rejected")
  /\ UNCHANGED <<table, late>>

\* Mutant: an exception keeps the slot.
VerifyRaisesHolding(l) ==
  /\ LoginAt(l, "verifying")
  /\ Answer(l)
  /\ UNCHANGED <<table, free, late>>

\* ... and when the database or the hasher raises; no failure is charged.
VerifyRaises(l) ==
  /\ LoginAt(l, "verifying")
  /\ free' = free + 1
  /\ Answer(l)
  /\ UNCHANGED <<table, late>>

\* record_failure: expired state goes, the failure is charged even if the
\* peer has been locked since its check, the failure that reaches the limit
\* locks the peer and clears its list, and the table is kept bounded.
RecordFailure(l) ==
  LET k       == login[l].peer
      ages    == Append(Recent(k), 0)
      locking == Len(ages) >= Attempts
      keys    == Touched(k)
      evicted == {keys[i] : i \in 1 .. Excess(keys)}
  IN  /\ LoginAt(l, "rejected")
      /\ failures' = [j \in Peers |-> IF j \in evicted THEN <<>>
                                      ELSE IF j # k THEN Recent(j)
                                      ELSE IF locking THEN <<>> ELSE ages]
      /\ left' = [j \in Peers |-> IF j \in evicted THEN 0
                                  ELSE IF j = k /\ locking THEN LockTime + 1 ELSE LeftOf(j)]
      /\ seen' = SubSeq(keys, Excess(keys) + 1, Len(keys))
      /\ late' = [j \in Peers |-> IF left'[j] > 1 THEN late[j] ELSE 0]
      /\ Answer(l)
      /\ UNCHANGED free

\* The peer of a successful login starts afresh, locked or not.
Reset(l) ==
  LET k == login[l].peer
  IN  /\ LoginAt(l, "accepted")
      /\ failures' = [failures EXCEPT ![k] = <<>>]
      /\ left' = [left EXCEPT ![k] = 0]
      /\ seen' = Keep(seen, Peers \ {k})
      /\ late' = [late EXCEPT ![k] = 0]
      /\ Answer(l)
      /\ UNCHANGED free

-----------------------------------------------------------------------------

Older(age) == IF age <= Window THEN age + 1 ELSE age

Tick ==
  /\ failures' = [k \in Peers |-> [i \in DOMAIN failures[k] |-> Older(failures[k][i])]]
  /\ left' = [k \in Peers |-> IF Locked(k) THEN left[k] - 1 ELSE left[k]]
  /\ late' = [k \in Peers |-> IF left'[k] > 1 THEN late[k] ELSE 0]
  /\ UNCHANGED <<seen, free, login>>

ThrottleInit ==
  /\ failures = [k \in Peers |-> <<>>] /\ left = [k \in Peers |-> 0] /\ seen = <<>>
  /\ free = Slots
  /\ login = [l \in Logins |-> Idle]
  /\ late = [k \in Peers |-> 0]

Proceed(l) ==
  AcquireSlot(l) \/ Verify(l) \/ VerifyRaises(l) \/ RecordFailure(l) \/ Reset(l)

ThrottleNext ==
  \/ \E l \in Logins : Proceed(l) \/ \E k \in Peers : RetryAfter(l, k)
  \/ Tick

ThrottleSpec == ThrottleInit /\ [][ThrottleNext]_throttleVars

\* Threads run on, a verification ends, and time passes; no peer owes a login.
ThrottleFairness == WF_throttleVars(Tick) /\ \A l \in Logins : WF_throttleVars(Proceed(l))

ThrottleFairSpec == ThrottleSpec /\ ThrottleFairness

-----------------------------------------------------------------------------
(* Properties.                                                             *)

\* What is kept for a peer: fewer failures than lock it out, none older than
\* one tick past the window, and at most one lock's time.
ThrottleTypeOK ==
  /\ \A k \in Peers :
       failures[k] \in Seq(0 .. Window + 1) /\ Len(failures[k]) < Attempts
  /\ left \in [Peers -> 0 .. LockTime + 1]
  /\ seen \in Seq(Peers)
  /\ free \in 0 .. Slots
  /\ login \in [Logins -> [pc : LoginPhase, peer : Peers \cup {NoPeer}]]
  /\ \A k \in Peers : late[k] \in 0 .. Cardinality(Logins)

\* The three dictionaries hold the same keys, at most MaxEntries of them, so
\* that no key escapes eviction and memory stays bounded (security.py: "The
\* LRU bound prevents random peer identifiers from growing memory").
TrackedExactly ==
  /\ ToSet(seen) = {k \in Peers : failures[k] # <<>> \/ left[k] # 0}
  /\ IsInjective(seen) /\ Len(seen) <= MaxEntries

\* The check and the verification are two steps, so a lock does not stop the
\* requests that have passed the check; it stops every other one.
LateChecksBounded ==
  \A k \in Peers : Locked(k) =>
    late[k] + Cardinality({l \in Logins : LoginAt(l, "passed") /\ login[l].peer = k})
      < Cardinality(Logins)

\* No outcome of a verification loses or invents a slot.
SlotsBalanced ==
  free + Cardinality({l \in Logins : LoginAt(l, "verifying")}) = Slots

\* A lock ends when its time is over, by a success of the same peer, or
\* because the table is full of peers seen after this one: never by what
\* other peers do short of that.
LockEndsOnlySo ==
  [][\A k \in Peers : Locked(k) /\ ~ Locked(k)' =>
       \/ left[k] = 2 /\ left'[k] = Expired
       \/ \E l \in Logins : LoginAt(l, "accepted") /\ login[l].peer = k /\ ~ LoginAt(l, "accepted")'
       \/ Head(seen) = k /\ Len(seen) = MaxEntries /\ Len(seen') = MaxEntries]_throttleVars

\* A locked peer is let in again, however often it asks meanwhile.
LockoutEnds == \A k \in Peers : Locked(k) ~> ~ Locked(k)

=============================================================================
