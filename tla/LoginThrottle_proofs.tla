------------------------- MODULE LoginThrottle_proofs -------------------------
(***************************************************************************)
(* Proofs about LoginThrottle, for any number of peers and requests and    *)
(* any limits: no slot is lost, a lock leaves a bounded number of late     *)
(* verifications, the dictionaries hold the same keys and stay bounded,    *)
(* and a lock ends in three ways only.                                     *)
(*                                                                         *)
(* The eviction is a loop, so what it leaves is proved by induction over   *)
(* its rounds.                                                             *)
(***************************************************************************)
EXTENDS LoginThrottle, SequenceTheorems, FiniteSetTheorems,
        WellFoundedInduction, NaturalsInduction, TLAPS

(***************************************************************************)
(* Part 1.  Keep, which filters a sequence.                                *)
(***************************************************************************)

\* Induction on Nat for a set: what holds of 0 and of the next holds of all.
LEMMA SetInduction ==
  ASSUME NEW S, 0 \in S, \A n \in Nat : n \in S => n + 1 \in S
  PROVE  Nat \subseteq S
<1> DEFINE Missing == Nat \ S
<1> SUFFICES ASSUME Missing # {} PROVE FALSE
  OBVIOUS
<1> DEFINE R == {p \in Nat \X Nat : p[1] < p[2]}
<1>1. IsWellFoundedOn(R, Nat)
  BY NatLessThanWellFounded DEF OpToRel
<1>2. Missing \subseteq Nat
  OBVIOUS
<1> HIDE DEF R, Missing
<1>3. PICK n \in Missing : \A m \in Missing : ~ (<<m, n>> \in R)
  BY <1>1, <1>2, WFMin
<1>4. n \in Nat /\ n \notin S /\ \A m \in Nat : m < n => m \in S
  BY <1>3 DEF R, Missing
<1>5. n # 0
  BY <1>4
<1>6. n - 1 \in Nat /\ n - 1 \in S
  BY <1>4, <1>5
<1>7. QED
  BY <1>4, <1>6

\* The rounds of the loop: what has been kept after each of them.
Rounds(f, s, S, T, n) ==
  /\ f \in [0 .. n -> Seq(T)]
  /\ f[0] = <<>>
  /\ \A i \in 1 .. n : f[i] = IF s[i] \in S THEN Append(f[i - 1], s[i]) ELSE f[i - 1]

\* The loop can go on to the end of the sequence.
LEMMA RoundsExist ==
  ASSUME NEW T, NEW s \in Seq(T), NEW S
  PROVE  \E f : Rounds(f, s, S, T, Len(s))
<1> DEFINE Reached == {n \in Nat : n <= Len(s) => \E f : Rounds(f, s, S, T, n)}
<1>1. 0 \in Reached
  <2>1. Rounds([i \in 0 .. 0 |-> <<>>], s, S, T, 0)
    BY DEF Rounds
  <2>2. QED
    BY <2>1
<1>2. ASSUME NEW n \in Nat, n \in Reached PROVE n + 1 \in Reached
  <2> SUFFICES ASSUME n + 1 <= Len(s) PROVE \E f : Rounds(f, s, S, T, n + 1)
    OBVIOUS
  <2>1. n \in Nat /\ n + 1 \in 1 .. Len(s) /\ Len(s) \in Nat
    BY LenProperties
  <2>2. PICK f : Rounds(f, s, S, T, n)
    BY <1>2, <2>1
  <2> DEFINE next == IF s[n + 1] \in S THEN Append(f[n], s[n + 1]) ELSE f[n]
             g    == [i \in 0 .. n + 1 |-> IF i = n + 1 THEN next ELSE f[i]]
  <2>3. f[n] \in Seq(T) /\ s[n + 1] \in T
    BY <2>1, <2>2, ElementOfSeq DEF Rounds
  <2>4. next \in Seq(T)
    BY <2>3, AppendProperties
  <2>5. next = IF s[n + 1] \in S THEN Append(f[n], s[n + 1]) ELSE f[n]
    OBVIOUS
  <2> HIDE DEF next
  <2>6. g \in [0 .. n + 1 -> Seq(T)]
    BY <2>1, <2>2, <2>4 DEF Rounds
  <2>7. g[0] = <<>>
    BY <2>1, <2>2 DEF Rounds
  <2>8. ASSUME NEW i \in 1 .. n + 1
        PROVE  g[i] = IF s[i] \in S THEN Append(g[i - 1], s[i]) ELSE g[i - 1]
    <3>1. CASE i = n + 1
      <4>1. i - 1 = n /\ g[n] = f[n] /\ g[i] = next
        BY <2>1, <3>1
      <4>2. QED
        BY <3>1, <4>1, <2>5
    <3>2. CASE i # n + 1
      <4>1. i \in 1 .. n /\ i - 1 \in 0 .. n /\ i - 1 # n + 1
        BY <2>1, <3>2
      <4>2. g[i] = f[i] /\ g[i - 1] = f[i - 1]
        BY <2>1, <4>1, <3>2
      <4>3. QED
        BY <4>1, <4>2, <2>2 DEF Rounds
    <3>3. QED
      BY <3>1, <3>2
  <2>9. Rounds(g, s, S, T, n + 1)
    BY <2>6, <2>7, <2>8 DEF Rounds
  <2>10. QED
    BY <2>9
<1>3. Len(s) \in Reached
  <2>1. Len(s) \in Nat
    BY LenProperties
  <2> HIDE DEF Reached
  <2>2. QED
    BY <1>1, <1>2, <2>1, SetInduction
<1>4. QED
  BY <1>3, LenProperties

\* Keep is what is left after the last round.
LEMMA KeepRounds ==
  ASSUME NEW T, NEW s \in Seq(T), NEW S
  PROVE  \E f : Rounds(f, s, S, T, Len(s)) /\ Keep(s, S) = f[Len(s)]
<1>1. Len(s) \in Nat
  BY LenProperties
<1> DEFINE Step(f) == [i \in 0 .. Len(s) |->
                         IF i = 0 THEN <<>>
                         ELSE IF s[i] \in S THEN Append(f[i - 1], s[i]) ELSE f[i - 1]]
           kept == CHOOSE f : f = Step(f)
<1>2. PICK f : Rounds(f, s, S, T, Len(s))
  BY RoundsExist
<1>3. f = Step(f)
  <2>1. f \in [0 .. Len(s) -> Seq(T)]
    BY <1>2 DEF Rounds
  <2>2. \A i \in 0 .. Len(s) : f[i] = Step(f)[i]
    <3> SUFFICES ASSUME NEW i \in 0 .. Len(s) PROVE f[i] = Step(f)[i]
      OBVIOUS
    <3>1. CASE i = 0
      BY <3>1, <1>1, <1>2 DEF Rounds
    <3>2. CASE i # 0
      <4>1. i \in 1 .. Len(s)
        BY <3>2, <1>1
      <4>2. QED
        BY <4>1, <3>2, <1>2 DEF Rounds
    <3>3. QED
      BY <3>1, <3>2
  <2>3. QED
    BY <2>1, <2>2
<1>4. kept = Step(kept)
  BY <1>3
<1>5. Keep(s, S) = kept[Len(s)]
  BY DEF Keep
<1> DEFINE Same == {n \in Nat : n <= Len(s) => kept[n] = f[n]}
<1>6. 0 \in Same
  <2>1. kept[0] = Step(kept)[0]
    BY <1>4
  <2>2. Step(kept)[0] = <<>>
    BY <1>1
  <2>3. QED
    BY <2>1, <2>2, <1>2 DEF Rounds
<1>7. ASSUME NEW n \in Nat, n \in Same PROVE n + 1 \in Same
  <2> SUFFICES ASSUME n + 1 <= Len(s) PROVE kept[n + 1] = f[n + 1]
    OBVIOUS
  <2>1. kept[n] = f[n] /\ n + 1 \in 0 .. Len(s) /\ n + 1 \in 1 .. Len(s) /\ n + 1 - 1 = n
    BY <1>1, <1>7
  <2>2. kept[n + 1] = Step(kept)[n + 1]
    BY <1>4
  <2>3. Step(kept)[n + 1] = IF s[n + 1] \in S THEN Append(kept[n], s[n + 1]) ELSE kept[n]
    BY <2>1
  <2>4. f[n + 1] = IF s[n + 1] \in S THEN Append(f[n], s[n + 1]) ELSE f[n]
    BY <2>1, <1>2 DEF Rounds
  <2>5. QED
    BY <2>1, <2>2, <2>3, <2>4
<1>8. Len(s) \in Same
  <2> HIDE DEF Same
  <2>1. QED
    BY <1>1, <1>6, <1>7, SetInduction
<1>9. kept[Len(s)] = f[Len(s)]
  BY <1>8, <1>1
<1>10. QED
  BY <1>2, <1>5, <1>9

\* What is left of the first n elements of s: those in S, each from its place,
\* and all of them only if none was dropped.
Left(t, s, S, n) ==
  /\ Len(t) <= n
  /\ \A j \in 1 .. Len(t) : t[j] \in S /\ \E i \in 1 .. n : s[i] = t[j]
  /\ \A i \in 1 .. n : s[i] \in S => \E j \in 1 .. Len(t) : t[j] = s[i]
  /\ Len(t) = n => \A i \in 1 .. n : t[i] = s[i]

Distinct(s) == \A i, j \in 1 .. Len(s) : s[i] = s[j] => i = j

\* One round: an element outside of S is dropped ...
LEMMA RoundDrops ==
  ASSUME NEW T, NEW s \in Seq(T), NEW S, NEW n \in Nat, n + 1 <= Len(s),
         NEW t \in Seq(T), Left(t, s, S, n), s[n + 1] \notin S
  PROVE  Left(t, s, S, n + 1)
<1>1. Len(t) \in Nat /\ Len(t) <= n
  BY LenProperties DEF Left
<1>2. 1 .. n \subseteq 1 .. n + 1 /\ \A i \in 1 .. n + 1 : i \in 1 .. n \/ i = n + 1
  OBVIOUS
<1>3. \A j \in 1 .. Len(t) : t[j] \in S /\ \E i \in 1 .. n + 1 : s[i] = t[j]
  BY <1>2 DEF Left
<1>4. \A i \in 1 .. n + 1 : s[i] \in S => \E j \in 1 .. Len(t) : t[j] = s[i]
  BY <1>2 DEF Left
<1>5. QED
  BY <1>1, <1>3, <1>4 DEF Left

\* ... and one in S is appended.
LEMMA RoundKeeps ==
  ASSUME NEW T, NEW s \in Seq(T), NEW S, NEW n \in Nat, n + 1 <= Len(s),
         NEW t \in Seq(T), Left(t, s, S, n), s[n + 1] \in S
  PROVE  Left(Append(t, s[n + 1]), s, S, n + 1)
<1> DEFINE u == Append(t, s[n + 1])
<1>1. Len(t) \in Nat /\ Len(t) <= n /\ Len(s) \in Nat /\ n + 1 \in 1 .. Len(s)
  BY LenProperties DEF Left
<1>2. s[n + 1] \in T
  BY <1>1, ElementOfSeq
<1>3. /\ u \in Seq(T) /\ Len(u) = Len(t) + 1
      /\ \A i \in 1 .. Len(t) : u[i] = t[i]
      /\ u[Len(t) + 1] = s[n + 1]
  BY <1>2, AppendProperties
<1> HIDE DEF u
<1>4. \A i \in 1 .. n + 1 : i \in 1 .. n \/ i = n + 1
  OBVIOUS
<1>5. \A j \in 1 .. Len(u) : j \in 1 .. Len(t) \/ j = Len(t) + 1
  BY <1>1, <1>3
<1>6. \A j \in 1 .. Len(u) : u[j] \in S /\ \E i \in 1 .. n + 1 : s[i] = u[j]
  <2> SUFFICES ASSUME NEW j \in 1 .. Len(u)
               PROVE  u[j] \in S /\ \E i \in 1 .. n + 1 : s[i] = u[j]
    OBVIOUS
  <2>1. CASE j = Len(t) + 1
    BY <2>1, <1>3
  <2>2. CASE j \in 1 .. Len(t)
    <3>1. u[j] \in S /\ \E i \in 1 .. n : s[i] = u[j]
      BY <2>2, <1>3 DEF Left
    <3>2. QED
      BY <3>1
  <2>3. QED
    BY <2>1, <2>2, <1>5
<1>7. \A i \in 1 .. n + 1 : s[i] \in S => \E j \in 1 .. Len(u) : u[j] = s[i]
  <2> SUFFICES ASSUME NEW i \in 1 .. n + 1, s[i] \in S
               PROVE  \E j \in 1 .. Len(u) : u[j] = s[i]
    OBVIOUS
  <2>1. CASE i = n + 1
    <3>1. Len(t) + 1 \in 1 .. Len(u)
      BY <1>1, <1>3
    <3>2. QED
      BY <2>1, <3>1, <1>3
  <2>2. CASE i \in 1 .. n
    <3>1. PICK j \in 1 .. Len(t) : t[j] = s[i]
      BY <2>2 DEF Left
    <3>2. j \in 1 .. Len(u) /\ u[j] = s[i]
      BY <3>1, <1>1, <1>3
    <3>3. QED
      BY <3>2
  <2>3. QED
    BY <2>1, <2>2, <1>4
<1>8. ASSUME Len(u) = n + 1, NEW i \in 1 .. n + 1 PROVE u[i] = s[i]
  <2>1. Len(t) = n
    BY <1>1, <1>3, <1>8
  <2>2. CASE i = n + 1
    BY <2>1, <2>2, <1>3
  <2>3. CASE i \in 1 .. n
    BY <2>1, <2>3, <1>3 DEF Left
  <2>4. QED
    BY <2>2, <2>3, <1>4
<1>9. Len(u) <= n + 1
  BY <1>1, <1>3
<1>10. Left(u, s, S, n + 1)
  BY <1>6, <1>7, <1>8, <1>9 DEF Left
<1>11. QED
  BY <1>10 DEF u

\* The appended element is a new one if the sequence repeats none.
LEMMA RoundKeepsDistinct ==
  ASSUME NEW T, NEW s \in Seq(T), NEW S, NEW n \in Nat, n + 1 <= Len(s),
         NEW t \in Seq(T), Left(t, s, S, n), Distinct(t), Distinct(s)
  PROVE  Distinct(Append(t, s[n + 1]))
<1> DEFINE u == Append(t, s[n + 1])
<1>1. Len(t) \in Nat /\ Len(s) \in Nat /\ n + 1 \in 1 .. Len(s)
  BY LenProperties
<1>2. s[n + 1] \in T
  BY <1>1, ElementOfSeq
<1>3. /\ Len(u) = Len(t) + 1
      /\ \A i \in 1 .. Len(t) : u[i] = t[i]
      /\ u[Len(t) + 1] = s[n + 1]
  BY <1>2, AppendProperties
<1> HIDE DEF u
<1>4. \A j \in 1 .. Len(u) : j \in 1 .. Len(t) \/ j = Len(t) + 1
  BY <1>1, <1>3
<1>5. ASSUME NEW j \in 1 .. Len(t) PROVE u[j] # u[Len(t) + 1]
  <2>1. PICK i \in 1 .. n : s[i] = u[j]
    BY <1>3 DEF Left
  <2>2. i \in 1 .. Len(s) /\ i # n + 1
    BY <1>1
  <2>3. s[i] # s[n + 1]
    BY <2>2, <1>1 DEF Distinct
  <2>4. QED
    BY <2>1, <2>3, <1>3
<1>6. ASSUME NEW i \in 1 .. Len(u), NEW j \in 1 .. Len(u), u[i] = u[j] PROVE i = j
  <2>1. CASE i \in 1 .. Len(t) /\ j \in 1 .. Len(t)
    <3>1. t[i] = t[j]
      BY <2>1, <1>3, <1>6
    <3>2. QED
      BY <2>1, <3>1 DEF Distinct
  <2>2. CASE i = Len(t) + 1 \/ j = Len(t) + 1
    BY <2>2, <1>4, <1>5, <1>6
  <2>3. QED
    BY <2>1, <2>2, <1>4
<1>7. Distinct(u)
  BY <1>6 DEF Distinct
<1>8. QED
  BY <1>7 DEF u

\* What Keep returns.
LEMMA KeepLeft ==
  ASSUME NEW T, NEW s \in Seq(T), NEW S
  PROVE  /\ Keep(s, S) \in Seq(T)
         /\ Left(Keep(s, S), s, S, Len(s))
         /\ Distinct(s) => Distinct(Keep(s, S))
<1>1. PICK f : Rounds(f, s, S, T, Len(s)) /\ Keep(s, S) = f[Len(s)]
  BY KeepRounds
<1>2. Len(s) \in Nat
  BY LenProperties
<1> DEFINE Fine == {n \in Nat : n <= Len(s) =>
                      Left(f[n], s, S, n) /\ (Distinct(s) => Distinct(f[n]))}
<1>3. 0 \in Fine
  <2>1. f[0] = <<>> /\ Len(<<>>) = 0
    BY <1>1 DEF Rounds
  <2>2. Left(<<>>, s, S, 0) /\ Distinct(<<>>)
    BY <2>1 DEF Left, Distinct
  <2>3. QED
    BY <2>1, <2>2
<1>4. ASSUME NEW n \in Nat, n \in Fine PROVE n + 1 \in Fine
  <2> SUFFICES ASSUME n + 1 <= Len(s)
               PROVE  /\ Left(f[n + 1], s, S, n + 1)
                      /\ Distinct(s) => Distinct(f[n + 1])
    OBVIOUS
  <2>1. n \in 0 .. Len(s) /\ n + 1 \in 1 .. Len(s) /\ n + 1 - 1 = n
    BY <1>2
  <2>2. f[n] \in Seq(T)
    BY <2>1, <1>1 DEF Rounds
  <2>3. Left(f[n], s, S, n) /\ (Distinct(s) => Distinct(f[n]))
    BY <2>1, <1>2, <1>4
  <2>4. f[n + 1] = IF s[n + 1] \in S THEN Append(f[n], s[n + 1]) ELSE f[n]
    BY <2>1, <1>1 DEF Rounds
  <2>5. CASE s[n + 1] \in S
    BY <2>2, <2>3, <2>4, <2>5, RoundKeeps, RoundKeepsDistinct
  <2>6. CASE s[n + 1] \notin S
    BY <2>2, <2>3, <2>4, <2>6, RoundDrops
  <2>7. QED
    BY <2>5, <2>6
<1>5. Len(s) \in Fine
  <2> HIDE DEF Fine
  <2>1. QED
    BY <1>2, <1>3, <1>4, SetInduction
<1>6. f[Len(s)] \in Seq(T)
  BY <1>1, <1>2 DEF Rounds
<1>7. QED
  BY <1>1, <1>2, <1>5, <1>6

\* The same in the words of the model: the elements in S, none of them twice,
\* no more than before, and the sequence itself if there are as many.
LEMMA KeepFacts ==
  ASSUME NEW T, NEW s \in Seq(T), NEW S
  PROVE  /\ Keep(s, S) \in Seq(T)
         /\ ToSet(Keep(s, S)) = ToSet(s) \cap S
         /\ Distinct(s) => Distinct(Keep(s, S))
         /\ Len(Keep(s, S)) <= Len(s)
         /\ Len(Keep(s, S)) = Len(s) => Keep(s, S) = s
<1> DEFINE t == Keep(s, S)
<1>1. t \in Seq(T) /\ Left(t, s, S, Len(s)) /\ (Distinct(s) => Distinct(t))
  BY KeepLeft
<1> HIDE DEF t
<1>2. DOMAIN s = 1 .. Len(s) /\ DOMAIN t = 1 .. Len(t)
  BY <1>1, LenProperties
<1>3. ToSet(t) = ToSet(s) \cap S
  <2>1. ToSet(t) = {t[j] : j \in 1 .. Len(t)} /\ ToSet(s) = {s[i] : i \in 1 .. Len(s)}
    BY <1>2 DEF ToSet
  <2>2. \A j \in 1 .. Len(t) : t[j] \in S /\ \E i \in 1 .. Len(s) : s[i] = t[j]
    BY <1>1 DEF Left
  <2>3. \A i \in 1 .. Len(s) : s[i] \in S => \E j \in 1 .. Len(t) : t[j] = s[i]
    BY <1>1 DEF Left
  <2>4. QED
    BY <2>1, <2>2, <2>3
<1>4. Len(t) <= Len(s)
  BY <1>1 DEF Left
<1>5. ASSUME Len(t) = Len(s) PROVE t = s
  BY <1>1, <1>5, SeqEqual DEF Left
<1>6. QED
  BY <1>1, <1>3, <1>4, <1>5 DEF t

(***************************************************************************)
(* Part 2.  The types, and what each operator of the model returns.        *)
(***************************************************************************)

Ages == 0 .. Window + 1

TypeInv ==
  /\ failures \in [Peers -> Seq(Ages)] /\ \A k \in Peers : Len(failures[k]) < Attempts
  /\ left \in [Peers -> 0 .. LockTime + 1]
  /\ seen \in Seq(Peers)
  /\ free \in Nat
  /\ login \in [Logins -> [pc : LoginPhase, peer : Peers \cup {NoPeer}]]
  /\ \A l \in Logins : ~ LoginAt(l, "idle") => login[l].peer \in Peers
  /\ late \in [Peers -> Nat]

LEMMA Limits ==
  /\ Attempts \in Nat \ {0} /\ Window \in Nat \ {0} /\ LockTime \in Nat \ {0}
  /\ MaxEntries \in Nat \ {0} /\ Slots \in Nat \ {0}
BY LimitsAssumption

\* The failures that count are some of those kept.
LEMMA RecentFacts ==
  ASSUME TypeInv, NEW k \in Peers
  PROVE  /\ Recent(k) \in Seq(Ages) /\ Len(Recent(k)) < Attempts
         /\ failures[k] = <<>> => Recent(k) = <<>>
<1>1. failures[k] \in Seq(Ages) /\ Len(failures[k]) < Attempts
  BY DEF TypeInv
<1>2. Recent(k) \in Seq(Ages) /\ Len(Recent(k)) <= Len(failures[k])
  BY <1>1, KeepFacts DEF Recent
<1>3. Len(Recent(k)) \in Nat /\ Len(failures[k]) \in Nat /\ Attempts \in Nat
  BY <1>1, <1>2, LenProperties, Limits
<1>4. failures[k] = <<>> => Recent(k) = <<>>
  BY <1>2, <1>3, EmptySeq
<1>5. QED
  BY <1>1, <1>2, <1>3, <1>4

\* A key that is locked, or has a recent failure, outlives the eviction.
LEMMA LeftOfFacts ==
  ASSUME TypeInv, NEW k \in Peers
  PROVE  /\ LeftOf(k) \in 0 .. LockTime + 1
         /\ LeftOf(k) = IF Locked(k) THEN left[k] ELSE 0
         /\ Locked(k) => k \in Lasting
BY Limits DEF TypeInv, LeftOf, Locked, Stale, Lasting

LEMMA SeenFacts ==
  ASSUME TypeInv, NEW k \in Peers
  PROVE  Remaining \in Seq(Peers) /\ Touched(k) \in Seq(Peers)
<1>1. seen \in Seq(Peers)
  BY DEF TypeInv
<1>2. Remaining \in Seq(Peers)
  BY <1>1, KeepFacts DEF Remaining
<1>3. Keep(seen, Lasting \ {k}) \in Seq(Peers)
  BY <1>1, KeepFacts
<1>4. QED
  BY <1>2, <1>3, AppendProperties DEF Touched

\* A request that goes on keeps its peer, one that is answered has none.
LEMMA LoginMoves ==
  ASSUME TypeInv, NEW l \in Logins
  PROVE  /\ Idle \in [pc : LoginPhase, peer : Peers \cup {NoPeer}]
         /\ \A k \in Peers : [pc |-> "passed", peer |-> k] \in [pc : LoginPhase, peer : Peers \cup {NoPeer}]
         /\ \A pc \in LoginPhase \ {"idle"} : LoginGoes(l, pc) /\ ~ LoginAt(l, "idle") =>
              /\ login' \in [Logins -> [pc : LoginPhase, peer : Peers \cup {NoPeer}]]
              /\ \A m \in Logins : ~ LoginAt(m, "idle")' => login'[m].peer \in Peers
         /\ Answer(l) =>
              /\ login' \in [Logins -> [pc : LoginPhase, peer : Peers \cup {NoPeer}]]
              /\ \A m \in Logins : ~ LoginAt(m, "idle")' => login'[m].peer \in Peers
<1> DEFINE Request == [pc : LoginPhase, peer : Peers \cup {NoPeer}]
<1>1. Idle \in Request /\ \A k \in Peers : [pc |-> "passed", peer |-> k] \in Request
  BY DEF Idle, LoginPhase
<1>2. /\ login \in [Logins -> Request]
      /\ \A m \in Logins : login[m].pc # "idle" => login[m].peer \in Peers
  BY DEF TypeInv, LoginAt
<1>3. ASSUME NEW pc \in LoginPhase \ {"idle"}, LoginGoes(l, pc), ~ LoginAt(l, "idle")
      PROVE  /\ login' \in [Logins -> Request]
             /\ \A m \in Logins : login'[m].pc # "idle" => login'[m].peer \in Peers
  <2>1. login' = [login EXCEPT ![l] = [login[l] EXCEPT !.pc = pc]]
    BY <1>3 DEF LoginGoes
  <2>2. [login[l] EXCEPT !.pc = pc] \in Request /\ [login[l] EXCEPT !.pc = pc].peer = login[l].peer
    BY <1>2
  <2>3. login[l].peer \in Peers
    BY <1>2, <1>3 DEF LoginAt
  <2>4. login' \in [Logins -> Request]
    BY <1>2, <2>1, <2>2
  <2>5. \A m \in Logins : login'[m].pc # "idle" => login'[m].peer \in Peers
    BY <1>2, <2>1, <2>2, <2>3
  <2>6. QED
    BY <2>4, <2>5
<1>4. ASSUME Answer(l)
      PROVE  /\ login' \in [Logins -> Request]
             /\ \A m \in Logins : login'[m].pc # "idle" => login'[m].peer \in Peers
  BY <1>1, <1>2, <1>4 DEF Answer, Idle
<1>5. QED
  BY <1>1, <1>3, <1>4 DEF LoginAt

LEMMA TypeRetryAfter ==
  ASSUME TypeInv, NEW l \in Logins, NEW k \in Peers, RetryAfter(l, k)
  PROVE  TypeInv'
<1>1. failures' \in [Peers -> Seq(Ages)] /\ \A j \in Peers : Len(failures'[j]) < Attempts
  BY RecentFacts DEF RetryAfter
<1>2. left' \in [Peers -> 0 .. LockTime + 1]
  BY LeftOfFacts DEF RetryAfter
<1>3. seen' \in Seq(Peers)
  BY SeenFacts DEF RetryAfter
<1>4. free' = free /\ late' = late
  BY DEF RetryAfter
<1>5. /\ login' \in [Logins -> [pc : LoginPhase, peer : Peers \cup {NoPeer}]]
      /\ \A m \in Logins : ~ LoginAt(m, "idle")' => login'[m].peer \in Peers
  <2>1. login' = login \/ login' = [login EXCEPT ![l] = [pc |-> "passed", peer |-> k]]
    BY DEF RetryAfter
  <2>2. QED
    BY <2>1, LoginMoves DEF TypeInv, LoginAt
<1>6. QED
  BY <1>1, <1>2, <1>3, <1>4, <1>5 DEF TypeInv

LEMMA TypeRecordFailure ==
  ASSUME TypeInv, NEW l \in Logins, RecordFailure(l)
  PROVE  TypeInv'
<1> DEFINE k       == login[l].peer
           ages    == Append(Recent(k), 0)
           locking == Len(ages) >= Attempts
           keys    == Touched(k)
           evicted == {keys[i] : i \in 1 .. Excess(keys)}
<1>1. k \in Peers /\ ~ LoginAt(l, "idle")
  BY DEF TypeInv, RecordFailure, LoginAt
<1>2. 0 \in Ages /\ <<>> \in Seq(Ages) /\ Len(<<>>) = 0 /\ 0 < Attempts
  BY Limits, EmptySeq DEF Ages
<1>3. Recent(k) \in Seq(Ages)
  BY <1>1, RecentFacts
<1>4. ages \in Seq(Ages) /\ Len(ages) \in Nat
  BY <1>2, <1>3, AppendProperties, LenProperties
<1>5. ~ locking => Len(ages) < Attempts
  BY <1>4, Limits
<1>6. /\ failures' = [j \in Peers |-> IF j \in evicted THEN <<>>
                                      ELSE IF j # k THEN Recent(j)
                                      ELSE IF locking THEN <<>> ELSE ages]
      /\ left' = [j \in Peers |-> IF j \in evicted THEN 0
                                  ELSE IF j = k /\ locking THEN LockTime + 1 ELSE LeftOf(j)]
      /\ seen' = SubSeq(keys, Excess(keys) + 1, Len(keys))
      /\ late' = [j \in Peers |-> IF left'[j] > 1 THEN late[j] ELSE 0]
      /\ Answer(l) /\ free' = free
  BY DEF RecordFailure
<1>7. keys \in Seq(Peers)
  BY <1>1, SeenFacts
<1> HIDE DEF k, ages, locking, keys, evicted
<1>8. failures' \in [Peers -> Seq(Ages)] /\ \A j \in Peers : Len(failures'[j]) < Attempts
  BY <1>2, <1>4, <1>5, <1>6, RecentFacts
<1>9. left' \in [Peers -> 0 .. LockTime + 1]
  <2>1. 0 \in 0 .. LockTime + 1 /\ LockTime + 1 \in 0 .. LockTime + 1
    BY Limits
  <2>2. QED
    BY <1>6, <2>1, LeftOfFacts
<1>10. seen' \in Seq(Peers)
  <2>1. Len(keys) \in Nat /\ Excess(keys) \in Nat
    BY <1>7, LenProperties, Limits DEF Excess
  <2>2. \A i \in Excess(keys) + 1 .. Len(keys) : keys[i] \in Peers
    BY <1>7, <2>1, ElementOfSeq
  <2>3. QED
    BY <1>6, <2>1, <2>2, SubSeqProperties
<1>11. late' \in [Peers -> Nat]
  BY <1>6 DEF TypeInv
<1>12. QED
  BY <1>6, <1>8, <1>9, <1>10, <1>11, LoginMoves DEF TypeInv

\* Failures grow older, and none is lost.
LEMMA TickFailures ==
  ASSUME TypeInv, Tick, NEW k \in Peers
  PROVE  failures'[k] \in Seq(Ages) /\ Len(failures'[k]) = Len(failures[k])
<1> DEFINE s == failures[k]
<1>1. s \in Seq(Ages) /\ Len(s) \in Nat /\ DOMAIN s = 1 .. Len(s)
  BY LenProperties DEF TypeInv
<1>2. failures'[k] = [i \in 1 .. Len(s) |-> Older(s[i])]
  BY <1>1 DEF Tick
<1>3. \A i \in 1 .. Len(s) : Older(s[i]) \in Ages
  <2> SUFFICES ASSUME NEW i \in 1 .. Len(s) PROVE Older(s[i]) \in Ages
    OBVIOUS
  <2>1. s[i] \in Ages
    BY <1>1, ElementOfSeq
  <2>2. QED
    BY <2>1, Limits DEF Ages, Older
<1> HIDE DEF s
<1>4. [i \in 1 .. Len(s) |-> Older(s[i])] \in [1 .. Len(s) -> Ages]
  BY <1>3
<1>5. QED
  BY <1>1, <1>2, <1>4 DEF s

LEMMA TypeTick ==
  ASSUME TypeInv, Tick
  PROVE  TypeInv'
<1>1. failures' \in [Peers -> Seq(Ages)] /\ \A k \in Peers : Len(failures'[k]) < Attempts
  <2>1. failures' = [k \in Peers |-> failures'[k]]
    BY DEF Tick
  <2>2. QED
    BY TickFailures, <2>1 DEF TypeInv
<1>2. left' \in [Peers -> 0 .. LockTime + 1]
  BY Limits DEF Tick, TypeInv, Locked
<1>3. late' \in [Peers -> Nat]
  BY DEF Tick, TypeInv
<1>4. QED
  BY <1>1, <1>2, <1>3 DEF Tick, TypeInv, LoginAt

LEMMA TypeReset ==
  ASSUME TypeInv, NEW l \in Logins, Reset(l)
  PROVE  TypeInv'
<1>1. <<>> \in Seq(Ages) /\ Len(<<>>) = 0 /\ 0 < Attempts
  BY Limits, EmptySeq
<1>2. failures' \in [Peers -> Seq(Ages)] /\ \A k \in Peers : Len(failures'[k]) < Attempts
  <2>1. failures' \in [Peers -> Seq(Ages)]
    BY <1>1 DEF Reset, TypeInv
  <2>2. \A j \in Peers : failures'[j] = failures[j] \/ failures'[j] = <<>>
    BY DEF Reset, TypeInv
  <2>3. QED
    BY <1>1, <2>1, <2>2 DEF TypeInv
<1>3. left' \in [Peers -> 0 .. LockTime + 1]
  <2>1. 0 \in 0 .. LockTime + 1
    BY Limits
  <2>2. left \in [Peers -> 0 .. LockTime + 1] /\ left' = [left EXCEPT ![login[l].peer] = 0]
    BY DEF Reset, TypeInv
  <2>3. QED
    BY <2>1, <2>2
<1>4. seen' \in Seq(Peers)
  BY KeepFacts DEF Reset, TypeInv
<1>5. late' \in [Peers -> Nat] /\ free' = free /\ Answer(l)
  BY DEF Reset, TypeInv
<1>6. QED
  BY <1>2, <1>3, <1>4, <1>5, LoginMoves DEF TypeInv

LEMMA TypeSlots ==
  ASSUME TypeInv, NEW l \in Logins, AcquireSlot(l) \/ Verify(l) \/ VerifyRaises(l)
  PROVE  TypeInv'
<1>1. UNCHANGED table /\ free' \in Nat /\ late' \in [Peers -> Nat]
  <2>1. login[l].peer \in Peers
    BY DEF TypeInv, LoginAt, AcquireSlot, Verify, VerifyRaises
  <2>2. late' \in [Peers -> Nat]
    <3>1. late \in [Peers -> Nat]
      BY DEF TypeInv
    <3>2. late' = late \/ late' = [late EXCEPT ![login[l].peer] = late[login[l].peer] + 1]
      BY DEF AcquireSlot, Verify, VerifyRaises
    <3>3. QED
      BY <2>1, <3>1, <3>2
  <2>3. free' \in Nat
    BY DEF TypeInv, AcquireSlot, Verify, VerifyRaises
  <2>4. QED
    BY <2>2, <2>3 DEF AcquireSlot, Verify, VerifyRaises
<1>2. /\ login' \in [Logins -> [pc : LoginPhase, peer : Peers \cup {NoPeer}]]
      /\ \A m \in Logins : ~ LoginAt(m, "idle")' => login'[m].peer \in Peers
  <2>1. {"verifying", "accepted", "rejected"} \subseteq LoginPhase \ {"idle"}
    BY DEF LoginPhase
  <2>2. ~ LoginAt(l, "idle")
    BY DEF AcquireSlot, Verify, VerifyRaises, LoginAt
  <2>3. Answer(l) \/ LoginGoes(l, "verifying") \/ LoginGoes(l, "accepted") \/ LoginGoes(l, "rejected")
    BY DEF AcquireSlot, Verify, VerifyRaises
  <2>4. QED
    BY <2>1, <2>2, <2>3, LoginMoves
<1>3. QED
  BY <1>1, <1>2 DEF TypeInv, table

LEMMA TypeStep == TypeInv /\ [ThrottleNext]_throttleVars => TypeInv'
<1> SUFFICES ASSUME TypeInv, [ThrottleNext]_throttleVars PROVE TypeInv'
  OBVIOUS
<1>1. CASE UNCHANGED throttleVars
  BY <1>1 DEF TypeInv, throttleVars, table, LoginAt
<1>2. CASE Tick
  BY <1>2, TypeTick
<1>3. ASSUME NEW l \in Logins, Proceed(l) PROVE TypeInv'
  BY <1>3, TypeSlots, TypeRecordFailure, TypeReset DEF Proceed
<1>4. ASSUME NEW l \in Logins, NEW k \in Peers, RetryAfter(l, k) PROVE TypeInv'
  BY <1>4, TypeRetryAfter
<1>5. QED
  BY <1>1, <1>2, <1>3, <1>4 DEF ThrottleNext

(***************************************************************************)
(* Part 3.  Slots and late verifications.                                  *)
(***************************************************************************)

Verifying == {l \in Logins : LoginAt(l, "verifying")}
Passed(k) == {l \in Logins : LoginAt(l, "passed") /\ login[l].peer = k}

\* How a step changes the requests that hold a slot: it is l alone that moves.
LEMMA VerifyingMoves ==
  ASSUME TypeInv, NEW l \in Logins
  PROVE  /\ \A pc \in LoginPhase : LoginGoes(l, pc) =>
              Verifying' = IF pc = "verifying" THEN Verifying \cup {l} ELSE Verifying \ {l}
         /\ Answer(l) => Verifying' = Verifying \ {l}
<1>1. login \in [Logins -> [pc : LoginPhase, peer : Peers \cup {NoPeer}]]
  BY DEF TypeInv
<1>2. ASSUME NEW pc \in LoginPhase, LoginGoes(l, pc)
      PROVE  Verifying' = IF pc = "verifying" THEN Verifying \cup {l} ELSE Verifying \ {l}
  <2>1. login'[l].pc = pc /\ \A m \in Logins \ {l} : login'[m] = login[m]
    BY <1>1, <1>2 DEF LoginGoes
  <2>2. QED
    BY <2>1 DEF Verifying, LoginAt
<1>3. ASSUME Answer(l) PROVE Verifying' = Verifying \ {l}
  <2>1. login'[l].pc = "idle" /\ \A m \in Logins \ {l} : login'[m] = login[m]
    BY <1>1, <1>3 DEF Answer, Idle
  <2>2. QED
    BY <2>1 DEF Verifying, LoginAt
<1>4. QED
  BY <1>2, <1>3

\* No step loses or invents a slot.
LEMMA SlotsStep == TypeInv /\ SlotsBalanced /\ [ThrottleNext]_throttleVars => SlotsBalanced'
<1> SUFFICES ASSUME TypeInv, SlotsBalanced, [ThrottleNext]_throttleVars PROVE SlotsBalanced'
  OBVIOUS
<1>1. IsFiniteSet(Verifying) /\ Cardinality(Verifying) \in Nat
  BY LoginsAssumption, FS_Subset, FS_CardinalityType DEF Verifying
<1>2. free + Cardinality(Verifying) = Slots /\ free \in Nat /\ Slots \in Nat
  BY Limits DEF SlotsBalanced, Verifying, TypeInv
<1>3. (free' + Cardinality(Verifying') = Slots) => SlotsBalanced'
  BY DEF SlotsBalanced, Verifying
<1>4. ASSUME free' = free, Verifying' = Verifying PROVE SlotsBalanced'
  BY <1>2, <1>3, <1>4
<1>5. CASE UNCHANGED throttleVars
  BY <1>4, <1>5 DEF throttleVars, Verifying, LoginAt
<1>6. CASE Tick
  BY <1>4, <1>6 DEF Tick, Verifying, LoginAt
<1>7. ASSUME NEW l \in Logins, NEW k \in Peers, RetryAfter(l, k) PROVE SlotsBalanced'
  <2>1. login' = login \/ login' = [login EXCEPT ![l] = [pc |-> "passed", peer |-> k]]
    BY <1>7 DEF RetryAfter
  <2>2. login'[l].pc # "verifying" /\ login[l].pc # "verifying"
        /\ \A m \in Logins \ {l} : login'[m] = login[m]
    BY <2>1, <1>7 DEF RetryAfter, LoginAt, TypeInv
  <2>3. Verifying' = Verifying
    BY <2>2 DEF Verifying, LoginAt
  <2>4. QED
    BY <2>3, <1>4, <1>7 DEF RetryAfter
<1>8. ASSUME NEW l \in Logins, Proceed(l) PROVE SlotsBalanced'
  <2>1. CASE AcquireSlot(l)
    <3>1. l \notin Verifying
      BY <2>1 DEF AcquireSlot, Verifying, LoginAt
    <3>2. CASE free = 0
      <4>1. Verifying' = Verifying \ {l} /\ free' = free
        BY <2>1, <3>2, VerifyingMoves DEF AcquireSlot
      <4>2. QED
        BY <3>1, <4>1, <1>4
    <3>3. CASE free # 0
      <4>1. Verifying' = Verifying \cup {l} /\ free' = free - 1
        BY <2>1, <3>3, VerifyingMoves DEF AcquireSlot, LoginPhase
      <4>2. Cardinality(Verifying \cup {l}) = Cardinality(Verifying) + 1
        BY <1>1, <3>1, FS_AddElement
      <4>3. QED
        BY <4>1, <4>2, <1>1, <1>2, <1>3
    <3>4. QED
      BY <3>2, <3>3
  <2>2. CASE Verify(l) \/ VerifyRaises(l)
    <3>1. l \in Verifying /\ free' = free + 1
      BY <2>2 DEF Verify, VerifyRaises, Verifying
    <3>2. Verifying' = Verifying \ {l}
      BY <2>2, VerifyingMoves DEF Verify, VerifyRaises, LoginPhase
    <3>3. Cardinality(Verifying \ {l}) = Cardinality(Verifying) - 1
      BY <1>1, <3>1, FS_RemoveElement
    <3>4. QED
      BY <3>1, <3>2, <3>3, <1>1, <1>2, <1>3
  <2>3. CASE RecordFailure(l) \/ Reset(l)
    <3>1. l \notin Verifying /\ free' = free /\ Answer(l)
      BY <2>3 DEF RecordFailure, Reset, Verifying, LoginAt
    <3>2. QED
      BY <3>1, <1>4, VerifyingMoves
  <2>4. QED
    BY <2>1, <2>2, <2>3, <1>8 DEF Proceed
<1>9. QED
  BY <1>5, <1>6, <1>7, <1>8 DEF ThrottleNext

\* A lock begins with a request that has left the check behind, and from then
\* on requests pass it no more; without a lock no verification is late.
LateInv ==
  \A k \in Peers :
    IF Locked(k) THEN late[k] + Cardinality(Passed(k)) < Cardinality(Logins)
                 ELSE late[k] = 0

LEMMA PassedFinite ==
  ASSUME NEW k
  PROVE  /\ IsFiniteSet(Passed(k)) /\ Cardinality(Passed(k)) \in Nat
         /\ Cardinality(Passed(k)) <= Cardinality(Logins)
         /\ Cardinality(Logins) \in Nat
BY LoginsAssumption, FS_Subset, FS_CardinalityType DEF Passed

\* A request that has passed and moves on leaves the others of its peer.
LEMMA PassedMoves ==
  ASSUME TypeInv, NEW l \in Logins, NEW pc \in LoginPhase \ {"passed"}, NEW k,
         LoginGoes(l, pc) \/ Answer(l)
  PROVE  Passed(k)' = Passed(k) \ {l}
<1>1. login'[l].pc # "passed" /\ \A m \in Logins \ {l} : login'[m] = login[m]
  BY DEF TypeInv, LoginGoes, Answer, Idle
<1>2. QED
  BY <1>1 DEF Passed, LoginAt

LEMMA LateStep == TypeInv /\ LateInv /\ [ThrottleNext]_throttleVars => LateInv'
<1> SUFFICES ASSUME TypeInv, LateInv, [ThrottleNext]_throttleVars, NEW k \in Peers
             PROVE  IF Locked(k)' THEN late'[k] + Cardinality(Passed(k)') < Cardinality(Logins)
                                  ELSE late'[k] = 0
  BY DEF LateInv
<1> DEFINE Kept == IF Locked(k)' THEN late'[k] + Cardinality(Passed(k)') < Cardinality(Logins)
                                 ELSE late'[k] = 0
<1>1. IF Locked(k) THEN late[k] + Cardinality(Passed(k)) < Cardinality(Logins) ELSE late[k] = 0
  BY DEF LateInv
<1>2. /\ IsFiniteSet(Passed(k)) /\ Cardinality(Passed(k)) \in Nat
      /\ Cardinality(Logins) \in Nat /\ late[k] \in Nat
  BY PassedFinite DEF TypeInv
<1>3. ASSUME Locked(k)' => Locked(k), Passed(k)' = Passed(k),
             late'[k] = IF Locked(k)' THEN late[k] ELSE 0
      PROVE  Kept
  BY <1>1, <1>3
<1>4. CASE UNCHANGED throttleVars
  BY <1>1, <1>4 DEF throttleVars, table, Locked, Passed, LoginAt
<1>5. CASE Tick
  <2>1. Passed(k)' = Passed(k)
    BY <1>5 DEF Tick, Passed, LoginAt
  <2>2. late'[k] = (IF Locked(k)' THEN late[k] ELSE 0) /\ (Locked(k)' => Locked(k))
    BY <1>5 DEF Tick, Locked, TypeInv
  <2>3. QED
    BY <2>1, <2>2, <1>3
<1>6. ASSUME NEW l \in Logins, NEW j \in Peers, RetryAfter(l, j) PROVE Kept
  <2>1. (Locked(k)' <=> Locked(k)) /\ late' = late
    <3>1. left'[k] = LeftOf(k) /\ late' = late
      BY <1>6 DEF RetryAfter
    <3>2. QED
      BY <3>1, LeftOfFacts DEF Locked
  <2>2. CASE ~ Locked(k)
    BY <2>1, <2>2, <1>1
  <2>3. CASE Locked(k)
    <3>1. login' = login \/ (login' = [login EXCEPT ![l] = [pc |-> "passed", peer |-> j]] /\ j # k)
      BY <1>6, <2>3 DEF RetryAfter
    <3>2. Passed(k)' = Passed(k)
      <4>1. CASE login' = login
        BY <4>1 DEF Passed, LoginAt
      <4>2. CASE login' = [login EXCEPT ![l] = [pc |-> "passed", peer |-> j]] /\ j # k
        <5>1. login'[l].peer # k /\ login[l].pc # "passed"
              /\ \A m \in Logins \ {l} : login'[m] = login[m]
          BY <4>2, <1>6 DEF RetryAfter, LoginAt, TypeInv
        <5>2. QED
          BY <5>1 DEF Passed, LoginAt
      <4>3. QED
        BY <3>1, <4>1, <4>2
    <3>3. QED
      BY <3>2, <2>1, <2>3, <1>1
  <2>4. QED
    BY <2>2, <2>3
<1>7. ASSUME NEW l \in Logins, AcquireSlot(l) PROVE Kept
  <2>1. left' = left /\ (Locked(k)' <=> Locked(k))
    BY <1>7 DEF AcquireSlot, table, Locked
  <2>2. login[l].peer \in Peers /\ LoginAt(l, "passed")
    BY <1>7 DEF AcquireSlot, LoginAt, TypeInv
  <2>3. Passed(k)' = Passed(k) \ {l}
    <3>1. "verifying" \in LoginPhase \ {"passed"} /\ (LoginGoes(l, "verifying") \/ Answer(l))
      BY <1>7 DEF AcquireSlot, LoginPhase
    <3>2. QED
      BY <3>1, PassedMoves
  <2>4. CASE login[l].peer = k
    <3>1. Cardinality(Passed(k) \ {l}) = Cardinality(Passed(k)) - 1
      BY <2>2, <2>4, <1>2, FS_RemoveElement DEF Passed
    <3>2. late'[k] = late[k] \/ (Locked(k) /\ late'[k] = late[k] + 1)
      BY <1>7, <2>4 DEF AcquireSlot, TypeInv
    <3>3. ~ Locked(k) => late'[k] = late[k]
      BY <1>7, <2>4 DEF AcquireSlot, TypeInv
    <3>4. QED
      BY <3>1, <3>2, <3>3, <2>1, <2>3, <1>1, <1>2
  <2>5. CASE login[l].peer # k
    <3>1. Passed(k) \ {l} = Passed(k)
      BY <2>5 DEF Passed
    <3>2. late'[k] = late[k]
      BY <1>7, <2>5 DEF AcquireSlot, TypeInv
    <3>3. QED
      BY <3>1, <3>2, <2>1, <2>3, <1>1
  <2>6. QED
    BY <2>4, <2>5
<1>8. ASSUME NEW l \in Logins, Verify(l) \/ VerifyRaises(l) PROVE Kept
  <2>1. UNCHANGED <<table, late>> /\ l \notin Passed(k)
    BY <1>8 DEF Verify, VerifyRaises, Passed, LoginAt
  <2>2. Passed(k)' = Passed(k) \ {l}
    <3>1. /\ {"accepted", "rejected"} \subseteq LoginPhase \ {"passed"}
          /\ LoginGoes(l, "accepted") \/ LoginGoes(l, "rejected") \/ Answer(l)
      BY <1>8 DEF Verify, VerifyRaises, LoginPhase
    <3>2. QED
      BY <3>1, PassedMoves
  <2>3. QED
    BY <2>1, <2>2, <1>1 DEF table, Locked
<1>9. ASSUME NEW l \in Logins, RecordFailure(l) PROVE Kept
  <2>1. /\ late'[k] = IF Locked(k)' THEN late[k] ELSE 0
        /\ left'[k] = 0 \/ left'[k] = LeftOf(k) \/ k = login[l].peer
    BY <1>9 DEF RecordFailure, Locked
  <2>2. LoginAt(l, "rejected") /\ l \notin Passed(k)
    BY <1>9 DEF RecordFailure, Passed, LoginAt
  <2>3. Passed(k)' = Passed(k)
    <3>1. "idle" \in LoginPhase \ {"passed"} /\ Answer(l)
      BY <1>9 DEF RecordFailure, LoginPhase
    <3>2. Passed(k)' = Passed(k) \ {l}
      BY <3>1, PassedMoves
    <3>3. QED
      BY <2>2, <3>2
  <2>4. CASE Locked(k)' /\ ~ Locked(k)
    <3>1. Passed(k) \subseteq Logins \ {l}
      BY <2>2 DEF Passed
    <3>2. /\ IsFiniteSet(Logins \ {l})
          /\ Cardinality(Logins \ {l}) = Cardinality(Logins) - 1
      BY LoginsAssumption, FS_RemoveElement
    <3>3. Cardinality(Passed(k)) <= Cardinality(Logins \ {l})
      BY <3>1, <3>2, FS_Subset
    <3>4. late'[k] = 0
      BY <2>1, <2>4, <1>1
    <3>5. QED
      BY <3>2, <3>3, <3>4, <2>3, <2>4, <1>2
  <2>5. CASE Locked(k)' => Locked(k)
    BY <2>1, <2>3, <2>5, <1>3
  <2>6. QED
    BY <2>4, <2>5
<1>10. ASSUME NEW l \in Logins, Reset(l) PROVE Kept
  <2>1. l \notin Passed(k)
    BY <1>10 DEF Reset, Passed, LoginAt
  <2>2. Passed(k)' = Passed(k)
    <3>1. "idle" \in LoginPhase \ {"passed"} /\ Answer(l)
      BY <1>10 DEF Reset, LoginPhase
    <3>2. Passed(k)' = Passed(k) \ {l}
      BY <3>1, PassedMoves
    <3>3. QED
      BY <2>1, <3>2
  <2>3. CASE login[l].peer = k
    BY <1>10, <2>3 DEF Reset, Locked, TypeInv
  <2>4. CASE login[l].peer # k
    <3>1. left'[k] = left[k] /\ late'[k] = late[k]
      BY <1>10, <2>4 DEF Reset, TypeInv
    <3>2. QED
      BY <3>1, <2>2, <1>1 DEF Locked
  <2>5. QED
    BY <2>3, <2>4
<1>11. QED
  BY <1>4, <1>5, <1>6, <1>7, <1>8, <1>9, <1>10 DEF ThrottleNext, Proceed

(***************************************************************************)
(* Part 4.  The table of keys.                                             *)
(***************************************************************************)

\* SubSeq pops the first n elements.
LEMMA PopIs ==
  ASSUME NEW T, NEW s \in Seq(T), NEW n \in Nat, n <= Len(s)
  PROVE  /\ SubSeq(s, n + 1, Len(s)) \in Seq(T)
         /\ Len(SubSeq(s, n + 1, Len(s))) = Len(s) - n
         /\ \A i \in 1 .. Len(s) - n : SubSeq(s, n + 1, Len(s))[i] = s[n + i]
<1>1. Len(s) \in Nat
  BY LenProperties
<1>2. \A i \in n + 1 .. Len(s) : s[i] \in T
  BY <1>1, ElementOfSeq
<1> DEFINE t == SubSeq(s, n + 1, Len(s))
<1>3. /\ t \in Seq(T)
      /\ Len(t) = IF n + 1 <= Len(s) THEN Len(s) - (n + 1) + 1 ELSE 0
      /\ \A i \in 1 .. Len(s) - (n + 1) + 1 : t[i] = s[n + 1 + i - 1]
  BY <1>1, <1>2, SubSeqProperties
<1> HIDE DEF t
<1>4. Len(t) = Len(s) - n
  BY <1>1, <1>3
<1>5. ASSUME NEW i \in 1 .. Len(s) - n PROVE t[i] = s[n + i]
  <2>1. i \in 1 .. Len(s) - (n + 1) + 1 /\ n + 1 + i - 1 = n + i
    BY <1>1
  <2>2. t[i] = s[n + 1 + i - 1]
    BY <1>3, <2>1
  <2>3. QED
    BY <2>1, <2>2
<1>6. QED
  BY <1>3, <1>4, <1>5 DEF t

\* What is left when the first n keys of a list without repetition are popped.
LEMMA PopFacts ==
  ASSUME NEW T, NEW s \in Seq(T), NEW t \in Seq(T), NEW m \in Nat, NEW n \in Nat,
         n <= m, Len(s) = m, Distinct(s),
         Len(t) = m - n, \A i \in 1 .. m - n : t[i] = s[n + i]
  PROVE  Distinct(t) /\ ToSet(t) = ToSet(s) \ {s[i] : i \in 1 .. n}
<1>1. Distinct(t)
  <2> SUFFICES ASSUME NEW i \in 1 .. m - n, NEW j \in 1 .. m - n, t[i] = t[j] PROVE i = j
    BY DEF Distinct
  <2>1. n + i \in 1 .. m /\ n + j \in 1 .. m /\ s[n + i] = s[n + j]
    OBVIOUS
  <2>2. n + i = n + j
    BY <2>1 DEF Distinct
  <2>3. QED
    BY <2>2
<1>2. ToSet(t) = {t[i] : i \in 1 .. m - n} /\ ToSet(s) = {s[i] : i \in 1 .. m}
  <2>1. DOMAIN t = 1 .. m - n /\ DOMAIN s = 1 .. m
    BY LenProperties
  <2>2. QED
    BY <2>1 DEF ToSet
<1>3. ASSUME NEW i \in 1 .. m - n
      PROVE  t[i] \in {s[j] : j \in 1 .. m} /\ t[i] \notin {s[j] : j \in 1 .. n}
  <2>1. n + i \in 1 .. m /\ t[i] = s[n + i]
    OBVIOUS
  <2>2. ASSUME NEW j \in 1 .. n PROVE s[j] # s[n + i]
    <3>1. j \in 1 .. m /\ j # n + i
      OBVIOUS
    <3>2. QED
      BY <2>1, <3>1 DEF Distinct
  <2>3. QED
    BY <2>1, <2>2
<1>4. ASSUME NEW j \in 1 .. m, s[j] \notin {s[i] : i \in 1 .. n}
      PROVE  \E i \in 1 .. m - n : t[i] = s[j]
  <2>1. j > n
    BY <1>4
  <2>2. j - n \in 1 .. m - n /\ n + (j - n) = j
    BY <2>1
  <2>3. QED
    BY <2>2
<1>5. QED
  BY <1>1, <1>2, <1>3, <1>4

LEMMA SeenDistinct ==
  ASSUME TypeInv, TrackedExactly
  PROVE  seen \in Seq(Peers) /\ Len(seen) \in Nat /\ Distinct(seen) /\ Len(seen) <= MaxEntries
<1>1. seen \in Seq(Peers) /\ Len(seen) \in Nat /\ DOMAIN seen = 1 .. Len(seen)
  BY LenProperties DEF TypeInv
<1>2. QED
  BY <1>1 DEF TrackedExactly, IsInjective, Distinct

\* A list of distinct peers is tracked exactly when it lists the keys that
\* have an entry.
LEMMA TrackedIs ==
  ASSUME NEW s \in Seq(Peers), seen = s, Distinct(s), Len(s) <= MaxEntries,
         ToSet(s) = {k \in Peers : failures[k] # <<>> \/ left[k] # 0}
  PROVE  TrackedExactly
<1>1. DOMAIN s = 1 .. Len(s)
  BY LenProperties
<1>2. QED
  BY <1>1 DEF TrackedExactly, IsInjective, Distinct

\* The keys that outlive the eviction are the ones that keep an entry.
LEMMA LastingFacts ==
  ASSUME TypeInv, TrackedExactly
  PROVE  /\ Lasting = {k \in Peers : Recent(k) # <<>> \/ LeftOf(k) # 0}
         /\ Lasting \subseteq ToSet(seen)
<1>1. ASSUME NEW k \in Peers
      PROVE  (k \in Lasting <=> Recent(k) # <<>> \/ LeftOf(k) # 0) /\ (k \in Lasting => k \in ToSet(seen))
  <2>1. left[k] \in Nat /\ LeftOf(k) = (IF Locked(k) THEN left[k] ELSE 0)
    BY LeftOfFacts DEF TypeInv
  <2>2. k \in Lasting <=> Recent(k) # <<>> \/ Locked(k)
    BY DEF Lasting, Stale
  <2>3. Locked(k) <=> LeftOf(k) # 0
    BY <2>1 DEF Locked
  <2>4. Recent(k) # <<>> => failures[k] # <<>>
    BY RecentFacts
  <2>5. Locked(k) => left[k] # 0
    BY <2>1 DEF Locked
  <2>6. QED
    BY <2>2, <2>3, <2>4, <2>5 DEF TrackedExactly
<1>2. Lasting \subseteq Peers
  BY DEF Lasting
<1>3. QED
  BY <1>1, <1>2

\* The keys after an eviction and a touch: the list grows by a new key only,
\* and then the others are all there, in their order.
LEMMA TouchedFacts ==
  ASSUME TypeInv, TrackedExactly, NEW k \in Peers
  PROVE  /\ Touched(k) \in Seq(Peers) /\ Len(Touched(k)) \in Nat \ {0}
         /\ ToSet(Touched(k)) = Lasting \cup {k}
         /\ Distinct(Touched(k))
         /\ Len(Touched(k)) <= Len(seen) + 1
         /\ k \in ToSet(seen) => Len(Touched(k)) <= Len(seen)
         /\ Len(Touched(k)) = Len(seen) + 1 => \A i \in 1 .. Len(seen) : Touched(k)[i] = seen[i]
<1> DEFINE t == Keep(seen, Lasting \ {k})
<1>1. seen \in Seq(Peers) /\ Len(seen) \in Nat /\ Distinct(seen)
  BY SeenDistinct
<1>2. /\ t \in Seq(Peers)
      /\ ToSet(t) = ToSet(seen) \cap (Lasting \ {k})
      /\ Distinct(t) /\ Len(t) <= Len(seen)
      /\ Len(t) = Len(seen) => t = seen
  BY <1>1, KeepFacts
<1>3. Touched(k) = Append(t, k)
  BY DEF Touched
<1> HIDE DEF t
<1>4. Len(t) \in Nat /\ DOMAIN t = 1 .. Len(t) /\ ToSet(t) = {t[i] : i \in 1 .. Len(t)}
  BY <1>2, LenProperties DEF ToSet
<1>5. /\ Touched(k) \in Seq(Peers) /\ Len(Touched(k)) = Len(t) + 1
      /\ \A i \in 1 .. Len(t) : Touched(k)[i] = t[i]
      /\ Touched(k)[Len(t) + 1] = k
  BY <1>2, <1>3, AppendProperties
<1>6. DOMAIN Touched(k) = 1 .. Len(t) + 1
  BY <1>5, LenProperties
<1>7. \A i \in 1 .. Len(t) + 1 : i \in 1 .. Len(t) \/ i = Len(t) + 1
  BY <1>4
<1>8. ToSet(Touched(k)) = ToSet(t) \cup {k}
  <2>1. ToSet(Touched(k)) = {Touched(k)[i] : i \in 1 .. Len(t) + 1}
    BY <1>6 DEF ToSet
  <2>2. \A i \in 1 .. Len(t) : i \in 1 .. Len(t) + 1
    BY <1>4
  <2>3. Len(t) + 1 \in 1 .. Len(t) + 1
    BY <1>4
  <2>4. QED
    BY <2>1, <2>2, <2>3, <1>4, <1>5, <1>7
<1>9. ToSet(Touched(k)) = Lasting \cup {k}
  BY <1>2, <1>8, LastingFacts
<1>10. Distinct(Touched(k))
  <2>1. k \notin ToSet(t)
    BY <1>2
  <2>2. \A i \in 1 .. Len(t) : t[i] # k
    BY <2>1, <1>4
  <2>3. QED
    BY <2>2, <1>2, <1>5, <1>7 DEF Distinct
<1>11. k \in ToSet(seen) => Len(t) < Len(seen)
  BY <1>1, <1>2, <1>4
<1>12. QED
  BY <1>1, <1>2, <1>4, <1>5, <1>9, <1>10, <1>11

\* The table exceeds its bound by one key at most, the least recently used.
LEMMA ExcessFacts ==
  ASSUME TypeInv, TrackedExactly, NEW k \in Peers, NEW keys, keys = Touched(k)
  PROVE  /\ Excess(keys) \in 0 .. Len(keys) /\ Len(keys) - Excess(keys) <= MaxEntries
         /\ Excess(keys) # 0 =>
              /\ Excess(keys) = 1 /\ Len(seen) = MaxEntries /\ keys[1] = Head(seen)
              /\ Len(keys) - Excess(keys) = MaxEntries
<1>1. seen \in Seq(Peers) /\ Len(seen) \in Nat /\ Len(seen) <= MaxEntries /\ MaxEntries \in Nat \ {0}
  BY SeenDistinct, Limits
<1>2. /\ Len(keys) \in Nat /\ Len(keys) <= Len(seen) + 1
      /\ Len(keys) = Len(seen) + 1 => \A i \in 1 .. Len(seen) : keys[i] = seen[i]
  BY TouchedFacts
<1>3. Excess(keys) \in 0 .. Len(keys) /\ Len(keys) - Excess(keys) <= MaxEntries
  BY <1>1, <1>2 DEF Excess
<1>4. ASSUME Excess(keys) # 0
      PROVE  /\ Excess(keys) = 1 /\ Len(seen) = MaxEntries /\ keys[1] = Head(seen)
             /\ Len(keys) - Excess(keys) = MaxEntries
  <2>1. Len(seen) = MaxEntries /\ Len(keys) = Len(seen) + 1 /\ Excess(keys) = 1
    BY <1>1, <1>2, <1>4 DEF Excess
  <2>2. keys[1] = seen[1]
    BY <1>1, <1>2, <2>1
  <2>3. QED
    BY <1>1, <2>1, <2>2
<1>5. QED
  BY <1>3, <1>4

\* retry_after: what the eviction leaves, and a locked peer moves to the end.
LEMMA TrackedRetryAfter ==
  ASSUME TypeInv, TrackedExactly, NEW l \in Logins, NEW k \in Peers, RetryAfter(l, k)
  PROVE  TrackedExactly'
<1>1. /\ failures' = [j \in Peers |-> Recent(j)] /\ left' = [j \in Peers |-> LeftOf(j)]
      /\ seen' = IF Locked(k) THEN Touched(k) ELSE Remaining
  BY DEF RetryAfter
<1>2. {j \in Peers : failures'[j] # <<>> \/ left'[j] # 0} = Lasting
  BY <1>1, LastingFacts
<1>3. seen \in Seq(Peers) /\ Len(seen) \in Nat /\ Distinct(seen) /\ Len(seen) <= MaxEntries
  BY SeenDistinct
<1>4. /\ seen' \in Seq(Peers) /\ Distinct(seen') /\ Len(seen') \in Nat
      /\ Len(seen') <= Len(seen) /\ ToSet(seen') = Lasting
  <2>1. CASE Locked(k)
    <3>1. k \in Lasting
      BY <2>1, LeftOfFacts
    <3>2. k \in ToSet(seen)
      BY <3>1, LastingFacts
    <3>3. /\ Touched(k) \in Seq(Peers) /\ Len(Touched(k)) \in Nat /\ Distinct(Touched(k))
          /\ Len(Touched(k)) <= Len(seen) /\ ToSet(Touched(k)) = Lasting \cup {k}
      BY <3>2, TouchedFacts
    <3>4. Lasting \cup {k} = Lasting
      BY <3>1
    <3>5. seen' = Touched(k)
      BY <1>1, <2>1
    <3>6. QED
      BY <3>3, <3>4, <3>5
  <2>2. CASE ~ Locked(k)
    <3>1. /\ Remaining \in Seq(Peers) /\ ToSet(Remaining) = ToSet(seen) \cap Lasting
          /\ Distinct(Remaining) /\ Len(Remaining) <= Len(seen)
      BY <1>3, KeepFacts DEF Remaining
    <3>2. Len(Remaining) \in Nat
      BY <3>1, LenProperties
    <3>3. QED
      BY <2>2, <3>1, <3>2, <1>1, LastingFacts
  <2>3. QED
    BY <2>1, <2>2
<1>5. Len(seen') <= MaxEntries
  BY <1>3, <1>4, Limits
<1>6. PICK s : s = seen'
  OBVIOUS
<1>7. s \in Seq(Peers) /\ Distinct(s) /\ Len(s) <= MaxEntries /\ DOMAIN s = 1 .. Len(s)
      /\ ToSet(s) = {j \in Peers : failures'[j] # <<>> \/ left'[j] # 0}
  BY <1>2, <1>4, <1>5, <1>6, LenProperties
<1>8. QED
  BY <1>6, <1>7 DEF TrackedExactly, IsInjective, Distinct, ToSet

\* record_failure: the new key may push out the least recently used one.
LEMMA TrackedRecordFailure ==
  ASSUME TypeInv, TrackedExactly, NEW l \in Logins, RecordFailure(l)
  PROVE  TrackedExactly'
<1> DEFINE k       == login[l].peer
           ages    == Append(Recent(k), 0)
           locking == Len(ages) >= Attempts
           keys    == Touched(k)
           evicted == {keys[i] : i \in 1 .. Excess(keys)}
<1>1. k \in Peers
  BY DEF TypeInv, RecordFailure, LoginAt
<1>2. /\ failures' = [j \in Peers |-> IF j \in evicted THEN <<>>
                                      ELSE IF j # k THEN Recent(j)
                                      ELSE IF locking THEN <<>> ELSE ages]
      /\ left' = [j \in Peers |-> IF j \in evicted THEN 0
                                  ELSE IF j = k /\ locking THEN LockTime + 1 ELSE LeftOf(j)]
      /\ seen' = SubSeq(keys, Excess(keys) + 1, Len(keys))
  BY DEF RecordFailure
<1>3. ages # <<>> /\ LockTime + 1 # 0
  <2>1. Recent(k) \in Seq(Ages) /\ 0 \in Ages
    BY <1>1, RecentFacts, Limits DEF Ages
  <2>2. QED
    BY <2>1, AppendProperties, Limits
<1>4. /\ keys \in Seq(Peers) /\ Len(keys) \in Nat /\ Distinct(keys)
      /\ ToSet(keys) = Lasting \cup {k}
  BY <1>1, TouchedFacts
<1>5. Excess(keys) \in 0 .. Len(keys) /\ Len(keys) - Excess(keys) <= MaxEntries
  BY <1>1, ExcessFacts
<1> HIDE DEF k, ages, locking, keys
<1>6. PICK n \in Nat : n = Excess(keys) /\ n <= Len(keys)
  BY <1>4, <1>5
<1>7. PICK s : s = SubSeq(keys, n + 1, Len(keys))
  OBVIOUS
<1>8. s \in Seq(Peers) /\ Len(s) = Len(keys) - n /\ \A i \in 1 .. Len(keys) - n : s[i] = keys[n + i]
  BY <1>4, <1>6, <1>7, PopIs
<1>9. Distinct(s) /\ ToSet(s) = ToSet(keys) \ {keys[i] : i \in 1 .. n}
  <2>1. PICK m \in Nat : m = Len(keys)
    BY <1>4
  <2>2. /\ Len(keys) = m /\ n <= m /\ Len(s) = m - n
        /\ \A i \in 1 .. m - n : s[i] = keys[n + i]
    BY <1>6, <1>8, <2>1
  <2>3. keys \in Seq(Peers) /\ s \in Seq(Peers) /\ Distinct(keys)
    BY <1>4, <1>8
  <2>4. QED
    BY <2>2, <2>3, PopFacts
<1>10. ToSet(s) = (Lasting \cup {k}) \ evicted
  BY <1>4, <1>6, <1>9
<1> HIDE DEF evicted
<1>11. ASSUME NEW j \in Peers
       PROVE  (failures'[j] # <<>> \/ left'[j] # 0) <=> j \in (Lasting \cup {k}) \ evicted
  <2>1. j \in Lasting <=> Recent(j) # <<>> \/ LeftOf(j) # 0
    BY LastingFacts
  <2>2. CASE j \in evicted
    BY <2>2, <1>2
  <2>3. CASE j \notin evicted /\ j = k
    BY <2>3, <1>2, <1>3
  <2>4. CASE j \notin evicted /\ j # k
    BY <2>1, <2>4, <1>2
  <2>5. QED
    BY <2>2, <2>3, <2>4
<1>12. ToSet(s) = {j \in Peers : failures'[j] # <<>> \/ left'[j] # 0}
  <2>1. (Lasting \cup {k}) \ evicted \subseteq Peers
    BY <1>1 DEF Lasting
  <2>2. QED
    BY <2>1, <1>10, <1>11
<1>13. Len(s) <= MaxEntries /\ DOMAIN s = 1 .. Len(s)
  BY <1>5, <1>6, <1>8, LenProperties
<1>14. seen' = s
  BY <1>2, <1>6, <1>7
<1>15. QED
  BY <1>9, <1>12, <1>13, <1>14 DEF TrackedExactly, IsInjective, Distinct, ToSet

LEMMA TrackedReset ==
  ASSUME TypeInv, TrackedExactly, NEW l \in Logins, Reset(l)
  PROVE  TrackedExactly'
<1> DEFINE k == login[l].peer
<1>1. /\ failures' = [failures EXCEPT ![k] = <<>>] /\ left' = [left EXCEPT ![k] = 0]
      /\ seen' = Keep(seen, Peers \ {k})
  BY DEF Reset
<1> HIDE DEF k
<1>2. seen \in Seq(Peers) /\ Len(seen) \in Nat /\ Distinct(seen) /\ Len(seen) <= MaxEntries
  BY SeenDistinct
<1>3. PICK s : s = Keep(seen, Peers \ {k})
  OBVIOUS
<1>4. s \in Seq(Peers) /\ ToSet(s) = ToSet(seen) \cap (Peers \ {k}) /\ Distinct(s) /\ Len(s) <= Len(seen)
  BY <1>2, <1>3, KeepFacts
<1>5. Len(s) \in Nat /\ DOMAIN s = 1 .. Len(s)
  BY <1>4, LenProperties
<1>6. Len(s) <= MaxEntries
  BY <1>2, <1>4, <1>5, Limits
<1>7. ASSUME NEW j \in Peers
      PROVE  (failures'[j] # <<>> \/ left'[j] # 0) <=> j # k /\ (failures[j] # <<>> \/ left[j] # 0)
  BY <1>1 DEF TypeInv
<1>8. ToSet(s) = {j \in Peers : failures'[j] # <<>> \/ left'[j] # 0}
  BY <1>4, <1>7 DEF TrackedExactly
<1>9. seen' = s
  BY <1>1, <1>3
<1>10. QED
  BY <1>4, <1>5, <1>6, <1>8, <1>9 DEF TrackedExactly, IsInjective, Distinct, ToSet

LEMMA TrackedTick ==
  ASSUME TypeInv, TrackedExactly, Tick
  PROVE  TrackedExactly'
<1>1. ASSUME NEW k \in Peers
      PROVE  (failures'[k] # <<>> \/ left'[k] # 0) <=> (failures[k] # <<>> \/ left[k] # 0)
  <2>1. failures[k] \in Seq(Ages) /\ failures'[k] \in Seq(Ages) /\ Len(failures'[k]) = Len(failures[k])
    BY TickFailures DEF TypeInv
  <2>2. failures'[k] = <<>> <=> failures[k] = <<>>
    BY <2>1, EmptySeq
  <2>3. left[k] \in Nat /\ left'[k] = IF left[k] > 1 THEN left[k] - 1 ELSE left[k]
    BY DEF Tick, Locked, TypeInv
  <2>4. QED
    BY <2>2, <2>3
<1>2. {k \in Peers : failures'[k] # <<>> \/ left'[k] # 0}
        = {k \in Peers : failures[k] # <<>> \/ left[k] # 0}
  BY <1>1
<1>3. seen' = seen
  BY DEF Tick
<1>4. QED
  BY <1>2, <1>3 DEF TrackedExactly, IsInjective, ToSet

LEMMA TrackedStep == TypeInv /\ TrackedExactly /\ [ThrottleNext]_throttleVars => TrackedExactly'
<1> SUFFICES ASSUME TypeInv, TrackedExactly, [ThrottleNext]_throttleVars PROVE TrackedExactly'
  OBVIOUS
<1>1. ASSUME UNCHANGED table PROVE TrackedExactly'
  BY <1>1 DEF table, TrackedExactly, IsInjective, ToSet
<1>2. CASE UNCHANGED throttleVars
  BY <1>1, <1>2 DEF throttleVars
<1>3. CASE Tick
  BY <1>3, TrackedTick
<1>4. ASSUME NEW l \in Logins, Proceed(l) PROVE TrackedExactly'
  <2>1. CASE AcquireSlot(l) \/ Verify(l) \/ VerifyRaises(l)
    BY <2>1, <1>1 DEF AcquireSlot, Verify, VerifyRaises
  <2>2. CASE RecordFailure(l)
    BY <2>2, TrackedRecordFailure
  <2>3. CASE Reset(l)
    BY <2>3, TrackedReset
  <2>4. QED
    BY <1>4, <2>1, <2>2, <2>3 DEF Proceed
<1>5. ASSUME NEW l \in Logins, NEW k \in Peers, RetryAfter(l, k) PROVE TrackedExactly'
  BY <1>5, TrackedRetryAfter
<1>6. QED
  BY <1>2, <1>3, <1>4, <1>5 DEF ThrottleNext

(***************************************************************************)
(* Part 5.  The theorems.                                                  *)
(***************************************************************************)

ThrottleInv == TypeInv /\ SlotsBalanced /\ LateInv /\ TrackedExactly

LEMMA ThrottleStart == ThrottleInit => ThrottleInv
<1> SUFFICES ASSUME ThrottleInit PROVE ThrottleInv
  OBVIOUS
<1>1. \A l \in Logins : login[l].pc = "idle" /\ login[l] = Idle
  BY DEF ThrottleInit, Idle
<1>2. TypeInv
  <2>1. <<>> \in Seq(Ages) /\ <<>> \in Seq(Peers) /\ Len(<<>>) = 0
    BY EmptySeq
  <2>2. login \in [Logins -> [pc : LoginPhase, peer : Peers \cup {NoPeer}]]
    BY DEF ThrottleInit, Idle, LoginPhase
  <2>3. 0 < Attempts /\ 0 \in 0 .. LockTime + 1
    BY Limits
  <2>4. QED
    BY <1>1, <2>1, <2>2, <2>3, Limits DEF ThrottleInit, TypeInv, LoginAt
<1>3. SlotsBalanced
  <2>1. {l \in Logins : LoginAt(l, "verifying")} = {}
    BY <1>1 DEF LoginAt
  <2>2. Cardinality({l \in Logins : LoginAt(l, "verifying")}) = 0
    BY <2>1, FS_EmptySet
  <2>3. free = Slots /\ Slots \in Nat
    BY Limits DEF ThrottleInit
  <2>4. QED
    BY <2>2, <2>3 DEF SlotsBalanced
<1>4. LateInv
  BY DEF LateInv, Locked, ThrottleInit
<1>5. TrackedExactly
  <2>1. DOMAIN seen = {} /\ Len(seen) = 0 /\ seen = <<>>
    BY DEF ThrottleInit
  <2>2. {k \in Peers : failures[k] # <<>> \/ left[k] # 0} = {}
    BY DEF ThrottleInit
  <2>3. QED
    BY <2>1, <2>2, Limits DEF TrackedExactly, IsInjective, ToSet
<1>6. QED
  BY <1>2, <1>3, <1>4, <1>5 DEF ThrottleInv

LEMMA ThrottleSafety == ThrottleSpec => []ThrottleInv
<1>1. ThrottleInv /\ [ThrottleNext]_throttleVars => ThrottleInv'
  BY TypeStep, SlotsStep, LateStep, TrackedStep DEF ThrottleInv
<1>2. QED
  BY ThrottleStart, <1>1, PTL DEF ThrottleSpec

\* Whatever a verification does, accept, reject or raise, and however many run
\* at once, PASSWORD_CHECK_SLOTS stays the number of slots free and in use.
THEOREM NoSlotIsLost == ThrottleSpec => []SlotsBalanced
<1>1. ThrottleInv => SlotsBalanced
  BY DEF ThrottleInv
<1>2. QED
  BY <1>1, ThrottleSafety, PTL

\* A lock is passed only by requests that had passed the check before it: a
\* peer gets fewer late verifications out of a lock than requests in flight.
THEOREM LocksLetFewPass == ThrottleSpec => []LateChecksBounded
<1>1. ThrottleInv => LateChecksBounded
  BY DEF ThrottleInv, LateInv, LateChecksBounded, Passed
<1>2. QED
  BY <1>1, ThrottleSafety, PTL

\* The three dictionaries of the throttle hold the same keys, and never more
\* of them than the bound: no key escapes the eviction.
THEOREM TableIsBounded == ThrottleSpec => []TrackedExactly
<1>1. ThrottleInv => TrackedExactly
  BY DEF ThrottleInv
<1>2. QED
  BY <1>1, ThrottleSafety, PTL

\* The types: fewer failures are kept than lock a peer out, no lock is longer
\* than the lock time, and there are never more slots than configured.
THEOREM ThrottleTypes == ThrottleSpec => []ThrottleTypeOK
<1>1. ThrottleInv => ThrottleTypeOK
  <2> SUFFICES ASSUME ThrottleInv PROVE ThrottleTypeOK
    OBVIOUS
  <2>1. TypeInv /\ SlotsBalanced /\ LateInv
    BY DEF ThrottleInv
  <2>2. free \in 0 .. Slots
    <3>1. IsFiniteSet(Verifying) /\ Cardinality(Verifying) \in Nat
      BY LoginsAssumption, FS_Subset, FS_CardinalityType DEF Verifying
    <3>2. free + Cardinality(Verifying) = Slots /\ free \in Nat /\ Slots \in Nat
      BY <2>1, Limits DEF SlotsBalanced, Verifying, TypeInv
    <3>3. QED
      BY <3>1, <3>2
  <2>3. ASSUME NEW k \in Peers PROVE late[k] \in 0 .. Cardinality(Logins)
    <3>1. late[k] \in Nat /\ Cardinality(Passed(k)) \in Nat /\ Cardinality(Logins) \in Nat
      BY <2>1, PassedFinite DEF TypeInv
    <3>2. late[k] + Cardinality(Passed(k)) < Cardinality(Logins) \/ late[k] = 0
      BY <2>1 DEF LateInv
    <3>3. QED
      BY <3>1, <3>2
  <2>4. QED
    BY <2>1, <2>2, <2>3 DEF TypeInv, ThrottleTypeOK, Ages
<1>2. QED
  BY <1>1, ThrottleSafety, PTL

\* A lock ends in three ways only, and the one that other peers can bring
\* about takes a table full of peers seen after the locked one.
LEMMA LockEndsStep ==
  ASSUME TypeInv, TrackedExactly, ThrottleNext, NEW k \in Peers, Locked(k), ~ Locked(k)'
  PROVE  \/ left[k] = 2 /\ left'[k] = Expired
         \/ \E l \in Logins : LoginAt(l, "accepted") /\ login[l].peer = k /\ ~ LoginAt(l, "accepted")'
         \/ Head(seen) = k /\ Len(seen) = MaxEntries /\ Len(seen') = MaxEntries
<1>1. left[k] \in Nat /\ left[k] > 1
  BY DEF TypeInv, Locked
<1>2. left'[k] # left[k] /\ left'[k] # LeftOf(k)
  BY LeftOfFacts, <1>1 DEF Locked
<1>3. CASE Tick
  BY <1>1, <1>3 DEF Tick, Locked, TypeInv, Expired
<1>4. ASSUME NEW l \in Logins, NEW j \in Peers, RetryAfter(l, j) PROVE FALSE
  BY <1>2, <1>4 DEF RetryAfter
<1>5. ASSUME NEW l \in Logins, AcquireSlot(l) \/ Verify(l) \/ VerifyRaises(l) PROVE FALSE
  BY <1>2, <1>5 DEF AcquireSlot, Verify, VerifyRaises, table
<1>6. ASSUME NEW l \in Logins, Reset(l)
      PROVE  LoginAt(l, "accepted") /\ login[l].peer = k /\ ~ LoginAt(l, "accepted")'
  <2>1. login[l].peer = k
    BY <1>2, <1>6 DEF Reset, TypeInv
  <2>2. login'[l].pc = "idle"
    BY <1>6 DEF Reset, Answer, Idle, TypeInv
  <2>3. QED
    BY <2>1, <2>2, <1>6 DEF Reset, LoginAt
<1>7. ASSUME NEW l \in Logins, RecordFailure(l)
      PROVE  Head(seen) = k /\ Len(seen) = MaxEntries /\ Len(seen') = MaxEntries
  <2>1. login[l].peer \in Peers
    BY <1>7 DEF TypeInv, RecordFailure, LoginAt
  <2>2. PICK keys : keys = Touched(login[l].peer)
    OBVIOUS
  <2>3. /\ left'[k] = IF k \in {keys[i] : i \in 1 .. Excess(keys)} THEN 0
                      ELSE IF k = login[l].peer /\ Len(Append(Recent(k), 0)) >= Attempts
                        THEN LockTime + 1 ELSE LeftOf(k)
        /\ seen' = SubSeq(keys, Excess(keys) + 1, Len(keys))
    BY <1>7, <2>2 DEF RecordFailure
  <2>4. PICK i \in 1 .. Excess(keys) : k = keys[i]
    <3>1. ~ (LockTime + 1 <= 1)
      BY Limits
    <3>2. left'[k] # LockTime + 1
      BY <3>1, Limits DEF Locked
    <3>3. QED
      BY <2>3, <3>2, <1>2
  <2>5. /\ Excess(keys) \in 0 .. Len(keys)
        /\ Excess(keys) # 0 =>
             /\ Excess(keys) = 1 /\ Len(seen) = MaxEntries /\ keys[1] = Head(seen)
             /\ Len(keys) - Excess(keys) = MaxEntries
    BY <2>1, <2>2, ExcessFacts
  <2>6. keys \in Seq(Peers) /\ Len(keys) \in Nat
    BY <2>1, <2>2, TouchedFacts
  <2>7. Excess(keys) = 1 /\ i = 1
    BY <2>4, <2>5, <2>6
  <2>8. Len(seen) = MaxEntries /\ keys[1] = Head(seen) /\ Len(keys) - 1 = MaxEntries
    BY <2>5, <2>7
  <2>9. Len(SubSeq(keys, 1 + 1, Len(keys))) = Len(keys) - 1
    <3>1. 1 \in Nat /\ 1 <= Len(keys)
      BY <2>5, <2>6, <2>7
    <3>2. PICK n \in Nat : n = 1 /\ n <= Len(keys)
      BY <3>1
    <3>3. Len(SubSeq(keys, n + 1, Len(keys))) = Len(keys) - n
      BY <2>6, <3>2, PopIs
    <3>4. QED
      BY <3>2, <3>3
  <2>10. QED
    BY <2>3, <2>4, <2>7, <2>8, <2>9
<1>8. QED
  BY <1>3, <1>4, <1>5, <1>6, <1>7 DEF ThrottleNext, Proceed

\* A lock ends because its time is over, by a success of the same peer, or
\* because the table is full and the locked peer is the one seen longest ago.
THEOREM LocksHold == ThrottleSpec => LockEndsOnlySo
<1>1. ThrottleInv /\ [ThrottleNext]_throttleVars =>
        [\A k \in Peers : Locked(k) /\ ~ Locked(k)' =>
           \/ left[k] = 2 /\ left'[k] = Expired
           \/ \E l \in Logins : LoginAt(l, "accepted") /\ login[l].peer = k /\ ~ LoginAt(l, "accepted")'
           \/ Head(seen) = k /\ Len(seen) = MaxEntries /\ Len(seen') = MaxEntries]_throttleVars
  BY LockEndsStep DEF ThrottleInv
<1>2. QED
  BY <1>1, ThrottleSafety, PTL DEF ThrottleSpec, LockEndsOnlySo

=============================================================================
