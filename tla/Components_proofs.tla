-------------------------- MODULE Components_proofs --------------------------
(***************************************************************************)
(* Proofs about the components that share no variable: the calls of a      *)
(* provider, the public page, one candidate's evidence, the edit distance  *)
(* and the scoring of a target.  Each part has its inductive invariant,    *)
(* the proof that every action preserves it, and the theorems that follow. *)
(***************************************************************************)
EXTENDS PublicPage, CandidateEvidence, ProviderStatus, DomainMatching,
        SequenceTheorems, FiniteSetTheorems, TLAPS

-----------------------------------------------------------------------------
(* ProviderStatus.                                                         *)

Statuses == {"none", "success", "skipped", "failed"}
Messages == {"none", "missing_api_key"} \cup Codes
Pairs    == Statuses \X Messages

CallShape ==
  [at : {"idle", "calling", "called"}, loaded : Pairs \cup {<<>>},
   answers : Seq(Answers), outcome : Pairs \cup {<<>>}]

\* A call that may still ask has had only transient answers, and fewer than it
\* may have; one that is over has an outcome.
CallIsSound(r) ==
  /\ r \in CallShape
  /\ Len(r.answers) <= Budget
  /\ \A i \in 1 .. Len(r.answers) - 1 : Transient(r.answers[i])
  /\ r.at = "calling" => /\ Len(r.answers) < Budget
                         /\ \A i \in 1 .. Len(r.answers) : Transient(r.answers[i])
  /\ r.at = "called" => r.outcome \in Pairs

CallsInv ==
  /\ shown \in Pairs
  /\ call \in [Callers -> CallShape]
  /\ \A c \in Callers : CallIsSound(call[c])

LEMMA NoCallIsSound == CallIsSound(NoCall)
<1>1. /\ <<>> \in Seq(Answers) /\ Len(<<>>) = 0
  BY EmptySeq
<1>2. NoCall \in CallShape
  BY <1>1 DEF NoCall, CallShape
<1> QED
  BY <1>1, <1>2, CallsAssumption DEF CallIsSound, NoCall

LEMMA OutcomeOfIsPair ==
  ASSUME NEW answer \in Answers
  PROVE  OutcomeOf(answer) \in Pairs
BY DEF OutcomeOf, Answers, Pairs, Statuses, Messages, Codes

\* What a writer writes is a status and a message.
LEMMA WrittenIsPair ==
  ASSUME shown \in Pairs, NEW loaded \in Pairs, NEW outcome \in Pairs
  PROVE  Written(loaded, outcome) \in Pairs
<1>1. Written(loaded, outcome)
        = <<IF outcome[1] = loaded[1] THEN shown[1] ELSE outcome[1],
            IF outcome[2] = loaded[2] THEN shown[2] ELSE outcome[2]>>
  BY DEF Written
<1>2. /\ outcome = <<outcome[1], outcome[2]>>
      /\ outcome[1] \in Statuses /\ outcome[2] \in Messages
      /\ shown[1] \in Statuses /\ shown[2] \in Messages
  BY DEF Pairs
<1> QED
  BY <1>1, <1>2 DEF Pairs

\* One step of one caller that leaves a sound call keeps the calls sound.
LEMMA CallsMove ==
  ASSUME CallsInv, NEW c \in Callers, NEW r,
         call' = [call EXCEPT ![c] = r], CallIsSound(r)
  PROVE  /\ call' \in [Callers -> CallShape]
         /\ \A d \in Callers : CallIsSound(call'[d])
BY DEF CallsInv, CallIsSound

LEMMA RequestKeeps ==
  ASSUME CallsInv, NEW c \in Callers, NEW answer \in Answers, Request(c, answer)
  PROVE  CallsInv'
<1> DEFINE old == call[c]
           n   == Len(old.answers) + 1
           new == [old EXCEPT !.answers = Append(old.answers, answer),
                              !.outcome = IF Retries(answer, n) THEN <<>> ELSE OutcomeOf(answer),
                              !.at = IF Retries(answer, n) THEN "calling" ELSE "called"]
<1>1. /\ CallIsSound(old) /\ old \in CallShape /\ old.at = "calling"
      /\ old.answers \in Seq(Answers)
      /\ Len(old.answers) \in Nat /\ Budget \in Nat
      /\ Len(old.answers) < Budget
      /\ \A i \in 1 .. Len(old.answers) : Transient(old.answers[i])
  BY CallsAssumption, LenProperties DEF CallsInv, CallIsSound, CallShape, Request, CallAt
<1>2. call' = [call EXCEPT ![c] = new]
  BY DEF Request, CallsInv
<1>3. /\ new.answers = Append(old.answers, answer)
      /\ new.outcome = (IF Retries(answer, n) THEN <<>> ELSE OutcomeOf(answer))
      /\ new.at = (IF Retries(answer, n) THEN "calling" ELSE "called")
      /\ new.loaded = old.loaded
  BY <1>1 DEF CallShape
<1>4. /\ new.answers \in Seq(Answers) /\ Len(new.answers) = n
      /\ \A i \in 1 .. n : new.answers[i] = IF i = n THEN answer ELSE old.answers[i]
  BY <1>1, <1>3, AppendProperties
<1>5. OutcomeOf(answer) \in Pairs
  BY OutcomeOfIsPair
<1>6. new \in CallShape
  BY <1>1, <1>3, <1>4, <1>5 DEF CallShape
<1>7. CallIsSound(new)
  <2> HIDE DEF new
  <2>1. n \in Nat /\ n <= Budget /\ n - 1 = Len(old.answers)
    BY <1>1
  <2>2. \A i \in 1 .. n - 1 : Transient(new.answers[i])
    BY <1>1, <1>4, <2>1
  <2>3. new.at = "calling" => n < Budget /\ \A i \in 1 .. n : Transient(new.answers[i])
    BY <1>1, <1>3, <1>4, <2>1 DEF Retries
  <2>4. new.at = "called" => new.outcome \in Pairs
    BY <1>3, <1>5
  <2> QED
    BY <1>4, <1>6, <2>1, <2>2, <2>3, <2>4 DEF CallIsSound
<1> QED
  BY <1>2, <1>7, CallsMove DEF CallsInv, Request

LEMMA BeginKeeps ==
  ASSUME CallsInv, NEW c \in Callers, Begin(c)
  PROVE  CallsInv'
<1>1. PICK key \in BOOLEAN :
        call' = [call EXCEPT ![c] =
          [NoCall EXCEPT !.at = IF key THEN "calling" ELSE "called",
                         !.loaded = IF c = "test" THEN shown ELSE <<>>,
                         !.outcome = IF key THEN <<>> ELSE <<"skipped", "missing_api_key">>]]
  BY DEF Begin
<1> DEFINE new == [NoCall EXCEPT !.at = IF key THEN "calling" ELSE "called",
                         !.loaded = IF c = "test" THEN shown ELSE <<>>,
                         !.outcome = IF key THEN <<>> ELSE <<"skipped", "missing_api_key">>]
<1>2. <<"skipped", "missing_api_key">> \in Pairs
  BY DEF Pairs, Statuses, Messages
<1>3. /\ <<>> \in Seq(Answers) /\ Len(<<>>) = 0
  BY EmptySeq
<1>4. NoCall \in CallShape /\ NoCall.answers = <<>>
  BY NoCallIsSound DEF CallIsSound, NoCall
<1>5. PICK loaded \in Pairs \cup {<<>>} : loaded = IF c = "test" THEN shown ELSE <<>>
  BY DEF CallsInv
<1>6. /\ new.at = (IF key THEN "calling" ELSE "called")
      /\ new.loaded = loaded
      /\ new.answers = <<>>
      /\ new.outcome = (IF key THEN <<>> ELSE <<"skipped", "missing_api_key">>)
  BY <1>4, <1>5 DEF CallShape
<1>7. new \in CallShape
  BY <1>2, <1>4, <1>5 DEF CallShape
<1>8. CallIsSound(new)
  <2> HIDE DEF new
  <2> QED
    BY <1>2, <1>3, <1>6, <1>7, CallsAssumption DEF CallIsSound
<1> QED
  BY <1>1, <1>8, CallsMove DEF CallsInv, Begin

LEMMA LoadProviderKeeps ==
  ASSUME CallsInv, NEW c \in Callers, LoadProvider(c)
  PROVE  CallsInv'
<1> DEFINE new == [call[c] EXCEPT !.loaded = shown]
<1>1. call' = [call EXCEPT ![c] = new]
  BY DEF LoadProvider, CallsInv
<1>2. call[c] \in CallShape /\ CallIsSound(call[c]) /\ shown \in Pairs
  BY DEF CallsInv
<1>3. /\ new \in CallShape /\ new.at = call[c].at
      /\ new.answers = call[c].answers /\ new.outcome = call[c].outcome
  BY <1>2 DEF CallShape
<1>4. CallIsSound(new)
  BY <1>2, <1>3 DEF CallIsSound
<1> QED
  BY <1>1, <1>4, CallsMove DEF CallsInv, LoadProvider

LEMMA WriteStatusKeeps ==
  ASSUME CallsInv, NEW c \in Callers, WriteStatus(c)
  PROVE  CallsInv'
<1>1. /\ call[c].loaded \in Pairs /\ call[c].outcome \in Pairs /\ shown \in Pairs
  BY DEF CallsInv, CallIsSound, CallShape, WriteStatus, CallAt
<1>2. shown' \in Pairs
  BY <1>1, WrittenIsPair DEF WriteStatus
<1>3. call' = [call EXCEPT ![c] = NoCall]
  BY DEF WriteStatus
<1> QED
  BY <1>1, <1>2, <1>3, NoCallIsSound, CallsMove DEF CallsInv

LEMMA CallsSafety == CallsSpec => []CallsInv
<1>1. CallsInit => CallsInv
  <2>1. <<"none", "none">> \in Pairs
    BY DEF Pairs, Statuses, Messages
  <2>2. NoCall \in CallShape
    BY NoCallIsSound DEF CallIsSound
  <2> QED
    BY <2>1, <2>2, NoCallIsSound DEF CallsInit, CallsInv
<1>2. CallsInv /\ [CallsNext]_callVars => CallsInv'
  <2> SUFFICES ASSUME CallsInv, [CallsNext]_callVars
               PROVE  CallsInv'
    OBVIOUS
  <2>1. ASSUME NEW c \in Callers, GiveUp(c)
        PROVE  CallsInv'
    BY <2>1, NoCallIsSound, CallsMove DEF GiveUp, CallsInv
  <2>2. CASE UNCHANGED callVars
    BY <2>2 DEF callVars, CallsInv
  <2> QED
    BY <2>1, <2>2, RequestKeeps, BeginKeeps, LoadProviderKeeps, WriteStatusKeeps
    DEF CallsNext
<1> QED
  BY <1>1, <1>2, PTL DEF CallsSpec

\* No call of a provider makes more requests than its budget, repeats one after
\* anything but a transient answer, or is left without an outcome.
THEOREM BudgetHolds == CallsSpec => []BudgetIsKept
<1>1. CallsInv => BudgetIsKept
  <2> SUFFICES ASSUME CallsInv, NEW c \in Callers
               PROVE  /\ Len(call[c].answers) <= Budget
                      /\ \A i \in 1 .. Len(call[c].answers) - 1 : Transient(call[c].answers[i])
                      /\ Len(call[c].answers) = Budget => ~ CallAt(c, "calling")
    BY DEF BudgetIsKept
  <2> QED
    BY CallsAssumption, LenProperties DEF CallsInv, CallIsSound, CallShape, CallAt
<1> QED
  BY <1>1, CallsSafety, PTL

-----------------------------------------------------------------------------
(* DomainMatching: the score of one target.                                *)

\* The best match so far is that of an alias seen so far, and none of those
\* scores more.
BestOfSeen ==
  LET seen == scoring.aliases \ scoring.left IN
  /\ scoring.best = NoMatch
       \/ \E a \in seen : scoring.best = Match(a, scoring.context, scoring.compound)
  /\ \A a \in seen : Match(a, scoring.context, scoring.compound).score <= scoring.best.score

ScoringInv ==
  /\ scoring \in [context : BOOLEAN, compound : BOOLEAN, aliases : SUBSET Aliases,
                  left : SUBSET Aliases, best : {scoring.best}]
  /\ scoring.left \subseteq scoring.aliases
  /\ BestOfSeen

\* The five bases: their numbers tell them apart.
LEMMA BaseIsOneOfFive ==
  ASSUME NEW a \in Aliases, NEW context \in BOOLEAN
  PROVE  Base(a, context) \in {<<72, "exact">>, <<66, "embedded">>, <<60, "exact">>,
                              <<58, "one_edit">>, <<0, "none">>}
BY DEF Base

\* Two aliases that score the same match alike, and one that scores nothing is
\* no match.
LEMMA TiesAgree ==
  ASSUME NEW a \in Aliases, NEW b \in Aliases, NEW context \in BOOLEAN, NEW compound \in BOOLEAN
  PROVE  /\ Match(a, context, compound).score \in Nat
         /\ Match(a, context, compound).score = 0 => Match(a, context, compound) = NoMatch
         /\ Match(a, context, compound).score = Match(b, context, compound).score
              => Match(a, context, compound) = Match(b, context, compound)
<1> DEFINE more == (IF context THEN 14 ELSE 0) + (IF compound THEN 4 ELSE 0)
<1>1. more \in Nat /\ more <= 18
  OBVIOUS
<1>2. ASSUME NEW c \in Aliases
      PROVE  /\ Base(c, context)[1] \in {0, 58, 60, 66, 72}
             /\ Base(c, context)[2] = CASE Base(c, context)[1] \in {60, 72} -> "exact"
                                        [] Base(c, context)[1] = 66 -> "embedded"
                                        [] Base(c, context)[1] = 58 -> "one_edit"
                                        [] OTHER -> "none"
             /\ Match(c, context, compound).score =
                  IF Base(c, context)[1] = 0 THEN 0 ELSE Base(c, context)[1] + more
             /\ Base(c, context)[1] = 0 => Match(c, context, compound) = NoMatch
  <2>1. /\ Base(c, context)[1] \in {0, 58, 60, 66, 72}
        /\ Base(c, context)[2] = CASE Base(c, context)[1] \in {60, 72} -> "exact"
                                   [] Base(c, context)[1] = 66 -> "embedded"
                                   [] Base(c, context)[1] = 58 -> "one_edit"
                                   [] OTHER -> "none"
    BY BaseIsOneOfFive
  <2>2. CASE Base(c, context)[1] = 0
    BY <2>1, <2>2 DEF Match, NoMatch
  <2>3. CASE Base(c, context)[1] # 0
    <3>1. Match(c, context, compound).score
            = Base(c, context)[1] + (IF context THEN 14 ELSE 0) + (IF compound THEN 4 ELSE 0)
      BY <2>3 DEF Match
    <3> QED
      BY <2>1, <2>3, <3>1
  <2> QED
    BY <2>2, <2>3
<1> HIDE DEF more
<1>3. /\ Match(a, context, compound).score \in Nat
      /\ Match(a, context, compound).score = 0 => Match(a, context, compound) = NoMatch
  BY <1>1, <1>2
<1>4. ASSUME Match(a, context, compound).score = Match(b, context, compound).score
      PROVE  Match(a, context, compound) = Match(b, context, compound)
  <2>1. Base(a, context)[1] = Base(b, context)[1]
    BY <1>1, <1>2, <1>4
  <2>2. Base(a, context)[2] = Base(b, context)[2]
    BY <1>2, <2>1
  <2> QED
    BY <2>1, <2>2 DEF Match
<1> QED
  BY <1>3, <1>4

LEMMA ScoreAliasKeeps ==
  ASSUME ScoringInv, NEW a, ScoreAlias(a)
  PROVE  ScoringInv'
<1> DEFINE context  == scoring.context
           compound == scoring.compound
           seen     == scoring.aliases \ scoring.left
           best     == IF Match(a, context, compound).score > scoring.best.score
                         THEN Match(a, context, compound) ELSE scoring.best
<1>1. /\ a \in scoring.left /\ a \in scoring.aliases /\ a \in Aliases
      /\ context \in BOOLEAN /\ compound \in BOOLEAN
      /\ scoring.aliases \subseteq Aliases /\ scoring.left \subseteq scoring.aliases
  BY DEF ScoringInv, ScoreAlias
<1>2. /\ scoring'.context = context /\ scoring'.compound = compound
      /\ scoring'.aliases = scoring.aliases /\ scoring'.left = scoring.left \ {a}
      /\ scoring'.best = best
      /\ scoring' = [context |-> context, compound |-> compound, aliases |-> scoring.aliases,
                     left |-> scoring.left \ {a}, best |-> best]
  BY DEF ScoringInv, ScoreAlias
<1>3. scoring'.aliases \ scoring'.left = seen \cup {a}
  BY <1>1, <1>2
<1>4. /\ \A b \in Aliases : Match(b, context, compound).score \in Nat
      /\ scoring.best.score \in Nat
  <2>1. \A b \in Aliases : Match(b, context, compound).score \in Nat
    BY <1>1, TiesAgree
  <2>2. scoring.best = NoMatch \/ \E b \in seen : scoring.best = Match(b, context, compound)
    BY DEF ScoringInv, BestOfSeen
  <2> QED
    BY <1>1, <2>1, <2>2 DEF NoMatch
<1>5. /\ best = NoMatch \/ \E b \in seen \cup {a} : best = Match(b, context, compound)
      /\ \A b \in seen \cup {a} : Match(b, context, compound).score <= best.score
  <2>1. /\ scoring.best = NoMatch \/ \E b \in seen : scoring.best = Match(b, context, compound)
        /\ \A b \in seen : Match(b, context, compound).score <= scoring.best.score
    BY DEF ScoringInv, BestOfSeen
  <2>2. CASE Match(a, context, compound).score > scoring.best.score
    <3>1. best = Match(a, context, compound)
      BY <2>2
    <3> QED
      BY <1>1, <1>4, <2>1, <2>2, <3>1
  <2>3. CASE ~ Match(a, context, compound).score > scoring.best.score
    <3>1. best = scoring.best
      BY <2>3
    <3> QED
      BY <1>1, <1>4, <2>1, <2>3, <3>1
  <2> QED
    BY <2>2, <2>3
<1>6. BestOfSeen'
  BY <1>2, <1>3, <1>5 DEF BestOfSeen
<1>7. scoring' \in [context : BOOLEAN, compound : BOOLEAN, aliases : SUBSET Aliases,
                    left : SUBSET Aliases, best : {scoring'.best}]
  <2> HIDE DEF best
  <2> QED
    BY <1>1, <1>2
<1> QED
  BY <1>1, <1>2, <1>6, <1>7 DEF ScoringInv

LEMMA ScoringSafety == MatchingSpec => []ScoringInv
<1>1. MatchingInit => ScoringInv
  BY DEF MatchingInit, NoScoring, ScoringInv, BestOfSeen
<1>2. ScoringInv /\ [MatchingNext]_matchingVars => ScoringInv'
  <2> SUFFICES ASSUME ScoringInv, [MatchingNext]_matchingVars
               PROVE  ScoringInv'
    OBVIOUS
  <2>1. ASSUME NEW aliases \in [1 .. MaxAliases -> Aliases],
               NEW context \in BOOLEAN, NEW compound \in BOOLEAN,
               ScoreTarget(ToSet(aliases), context, compound)
        PROVE  ScoringInv'
    <3>1. ToSet(aliases) \subseteq Aliases
      BY DEF ToSet
    <3> QED
      BY <2>1, <3>1 DEF ScoreTarget, ScoringInv, BestOfSeen
  <2>2. CASE UNCHANGED scoring
    BY <2>2 DEF ScoringInv, BestOfSeen
  <2>3. Comparing => UNCHANGED scoring
    BY DEF Comparing, Compare, FillCell, EndRow, ReturnDistance
  <2> QED
    BY <2>1, <2>2, <2>3, ScoreAliasKeeps DEF MatchingNext, Scoring, matchingVars
<1> QED
  BY <1>1, <1>2, PTL DEF MatchingSpec

\* For any aliases in any order, the match that is kept is an alias's, the best
\* of all, and the only one with its score.
THEOREM OrderIsIgnored == MatchingSpec => []ScoreIgnoresOrder
<1>1. ScoringInv => ScoreIgnoresOrder
  <2> SUFFICES ASSUME ScoringInv, scoring.left = {}, scoring.aliases # {}
               PROVE  /\ \E a \in scoring.aliases :
                           scoring.best = Match(a, scoring.context, scoring.compound)
                      /\ \A a \in scoring.aliases :
                           LET match == Match(a, scoring.context, scoring.compound) IN
                           /\ match.score <= scoring.best.score
                           /\ match.score = scoring.best.score => match = scoring.best
    BY DEF ScoreIgnoresOrder
  <2> DEFINE match == [a \in Aliases |-> Match(a, scoring.context, scoring.compound)]
  <2>1. /\ scoring.aliases \subseteq Aliases
        /\ scoring.context \in BOOLEAN /\ scoring.compound \in BOOLEAN
        /\ scoring.aliases \ scoring.left = scoring.aliases
    BY DEF ScoringInv
  <2>2. \A a \in scoring.aliases : match[a] = Match(a, scoring.context, scoring.compound)
    BY <2>1
  <2>3. /\ scoring.best = NoMatch \/ \E a \in scoring.aliases : scoring.best = match[a]
        /\ \A a \in scoring.aliases : match[a].score <= scoring.best.score
    BY <2>1, <2>2 DEF ScoringInv, BestOfSeen
  <2>4. \A a, b \in scoring.aliases :
          /\ match[a].score \in Nat
          /\ match[a].score = 0 => match[a] = NoMatch
          /\ match[a].score = match[b].score => match[a] = match[b]
    BY <2>1, <2>2, TiesAgree
  <2> HIDE DEF match
  <2>5. \E a \in scoring.aliases : scoring.best = match[a]
    <3>1. CASE scoring.best = NoMatch
      <4>1. PICK a \in scoring.aliases : TRUE
        OBVIOUS
      <4>2. scoring.best.score = 0
        BY <3>1 DEF NoMatch
      <4>3. match[a].score = 0
        BY <2>3, <2>4, <4>1, <4>2
      <4> QED
        BY <2>4, <3>1, <4>1, <4>3
    <3> QED
      BY <2>3, <3>1
  <2>6. \A a \in scoring.aliases : match[a].score = scoring.best.score => match[a] = scoring.best
    BY <2>4, <2>5
  <2> QED
    BY <2>2, <2>3, <2>5, <2>6
<1> QED
  BY <1>1, ScoringSafety, PTL

-----------------------------------------------------------------------------
(* DomainMatching: prefixes that are equal or one edit apart.              *)

\* The first i characters of l are the first c of r ...
Same(l, r, i, c) == i = c /\ \A k \in 1 .. i : l[k] = r[k]

\* ... without one of the i, ...
Deleted(l, r, i, c) ==
  /\ i = c + 1
  /\ \E k \in 1 .. i : /\ \A j \in 1 .. k - 1 : l[j] = r[j]
                      /\ \A j \in k .. c : l[j + 1] = r[j]

\* ... but for one at most, ...
Replaced(l, r, i, c) ==
  i = c /\ \E k \in 1 .. i : \A j \in 1 .. i : j # k => l[j] = r[j]

\* ... or with two neighbours in the other order.
Swapped(l, r, i, c) ==
  /\ i = c
  /\ \E k \in 1 .. i - 1 : /\ l[k] = r[k + 1] /\ l[k + 1] = r[k]
                          /\ \A j \in 1 .. i : j \notin {k, k + 1} => l[j] = r[j]

Within(l, r, i, c) ==
  \/ Same(l, r, i, c) \/ Replaced(l, r, i, c) \/ Swapped(l, r, i, c)
  \/ Deleted(l, r, i, c) \/ Deleted(r, l, c, i)

LEMMA SameIsSymmetric ==
  ASSUME NEW l, NEW r, NEW i, NEW c, Same(l, r, i, c)
  PROVE  Same(r, l, c, i)
BY DEF Same

LEMMA DeletedStep ==
  ASSUME NEW l, NEW r, NEW i \in Nat \ {0}, NEW c \in Nat \ {0}
  PROVE  Deleted(l, r, i, c) <=> \/ Same(l, r, i - 1, c)
                                 \/ l[i] = r[c] /\ Deleted(l, r, i - 1, c - 1)
<1>1. ASSUME Deleted(l, r, i, c)
      PROVE  Same(l, r, i - 1, c) \/ (l[i] = r[c] /\ Deleted(l, r, i - 1, c - 1))
  <2>1. PICK k \in 1 .. i : /\ \A j \in 1 .. k - 1 : l[j] = r[j]
                           /\ \A j \in k .. c : l[j + 1] = r[j]
    BY <1>1 DEF Deleted
  <2>2. i = c + 1
    BY <1>1 DEF Deleted
  <2>3. CASE k = i
    <3>1. i - 1 = c /\ \A j \in 1 .. i - 1 : l[j] = r[j]
      BY <2>1, <2>2, <2>3
    <3> QED
      BY <3>1 DEF Same
  <2>4. CASE k # i
    <3>1. k \in 1 .. i - 1 /\ c \in k .. c /\ l[i] = r[c]
      BY <2>1, <2>2, <2>4
    <3>2. \A j \in k .. c - 1 : l[j + 1] = r[j]
      BY <2>1
    <3> QED
      BY <2>1, <2>2, <3>1, <3>2 DEF Deleted
  <2> QED
    BY <2>3, <2>4
<1>2. ASSUME Same(l, r, i - 1, c)
      PROVE  Deleted(l, r, i, c)
  <2>1. i = c + 1 /\ i \in 1 .. i
    BY <1>2 DEF Same
  <2>2. (\A j \in 1 .. i - 1 : l[j] = r[j]) /\ (\A j \in i .. c : l[j + 1] = r[j])
    BY <1>2, <2>1 DEF Same
  <2> QED
    BY <2>1, <2>2 DEF Deleted
<1>3. ASSUME l[i] = r[c], Deleted(l, r, i - 1, c - 1)
      PROVE  Deleted(l, r, i, c)
  <2>1. PICK k \in 1 .. i - 1 : /\ \A j \in 1 .. k - 1 : l[j] = r[j]
                               /\ \A j \in k .. c - 1 : l[j + 1] = r[j]
    BY <1>3 DEF Deleted
  <2>2. i = c + 1 /\ k \in 1 .. i
    BY <1>3 DEF Deleted
  <2>3. \A j \in k .. c : j \in k .. c - 1 \/ j = c
    OBVIOUS
  <2>4. \A j \in k .. c : l[j + 1] = r[j]
    BY <1>3, <2>1, <2>2, <2>3
  <2> QED
    BY <2>1, <2>2, <2>4 DEF Deleted
<1> QED
  BY <1>1, <1>2, <1>3

LEMMA ReplacedStep ==
  ASSUME NEW l, NEW r, NEW i \in Nat \ {0}, NEW c \in Nat \ {0}
  PROVE  Replaced(l, r, i, c) <=> \/ Same(l, r, i - 1, c - 1)
                                  \/ l[i] = r[c] /\ Replaced(l, r, i - 1, c - 1)
<1>1. ASSUME Replaced(l, r, i, c)
      PROVE  Same(l, r, i - 1, c - 1) \/ (l[i] = r[c] /\ Replaced(l, r, i - 1, c - 1))
  <2>1. PICK k \in 1 .. i : \A j \in 1 .. i : j # k => l[j] = r[j]
    BY <1>1 DEF Replaced
  <2>2. i = c
    BY <1>1 DEF Replaced
  <2>3. CASE k = i
    <3>1. i - 1 = c - 1 /\ \A j \in 1 .. i - 1 : l[j] = r[j]
      BY <2>1, <2>2, <2>3
    <3> QED
      BY <3>1 DEF Same
  <2>4. CASE k # i
    <3>1. i - 1 = c - 1 /\ k \in 1 .. i - 1 /\ l[i] = r[c]
      BY <2>1, <2>2, <2>4
    <3>2. \A j \in 1 .. i - 1 : j # k => l[j] = r[j]
      BY <2>1
    <3> QED
      BY <3>1, <3>2 DEF Replaced
  <2> QED
    BY <2>3, <2>4
<1>2. ASSUME Same(l, r, i - 1, c - 1)
      PROVE  Replaced(l, r, i, c)
  <2>1. i = c /\ i \in 1 .. i /\ \A j \in 1 .. i : j # i => l[j] = r[j]
    BY <1>2 DEF Same
  <2> QED
    BY <2>1 DEF Replaced
<1>3. ASSUME l[i] = r[c], Replaced(l, r, i - 1, c - 1)
      PROVE  Replaced(l, r, i, c)
  <2>1. PICK k \in 1 .. i - 1 : \A j \in 1 .. i - 1 : j # k => l[j] = r[j]
    BY <1>3 DEF Replaced
  <2>2. i = c /\ k \in 1 .. i
    BY <1>3 DEF Replaced
  <2>3. \A j \in 1 .. i : j \in 1 .. i - 1 \/ j = i
    OBVIOUS
  <2>4. \A j \in 1 .. i : j # k => l[j] = r[j]
    BY <1>3, <2>1, <2>2, <2>3
  <2> QED
    BY <2>2, <2>4 DEF Replaced
<1> QED
  BY <1>1, <1>2, <1>3

LEMMA SwappedStep ==
  ASSUME NEW l, NEW r, NEW i \in Nat \ {0}, NEW c \in Nat \ {0}
  PROVE  Swapped(l, r, i, c) <=>
           \/ /\ i > 1 /\ c > 1 /\ l[i] = r[c - 1] /\ l[i - 1] = r[c]
              /\ Same(l, r, i - 2, c - 2)
           \/ l[i] = r[c] /\ Swapped(l, r, i - 1, c - 1)
<1>1. ASSUME Swapped(l, r, i, c)
      PROVE  \/ /\ i > 1 /\ c > 1 /\ l[i] = r[c - 1] /\ l[i - 1] = r[c]
                /\ Same(l, r, i - 2, c - 2)
             \/ l[i] = r[c] /\ Swapped(l, r, i - 1, c - 1)
  <2>1. PICK k \in 1 .. i - 1 : /\ l[k] = r[k + 1] /\ l[k + 1] = r[k]
                               /\ \A j \in 1 .. i : j \notin {k, k + 1} => l[j] = r[j]
    BY <1>1 DEF Swapped
  <2>2. i = c
    BY <1>1 DEF Swapped
  <2>3. CASE k = i - 1
    <3>1. i > 1 /\ k + 1 = i /\ l[i] = r[c - 1] /\ l[i - 1] = r[c]
      BY <2>1, <2>2, <2>3
    <3>2. \A j \in 1 .. i - 2 : l[j] = r[j]
      BY <2>1, <2>3
    <3> QED
      BY <2>2, <3>1, <3>2 DEF Same
  <2>4. CASE k # i - 1
    <3>1. k \in 1 .. (i - 1) - 1 /\ l[i] = r[c]
      BY <2>1, <2>2, <2>4
    <3>2. \A j \in 1 .. i - 1 : j \notin {k, k + 1} => l[j] = r[j]
      BY <2>1
    <3> QED
      BY <2>1, <2>2, <3>1, <3>2 DEF Swapped
  <2> QED
    BY <2>3, <2>4
<1>2. ASSUME i > 1, c > 1, l[i] = r[c - 1], l[i - 1] = r[c], Same(l, r, i - 2, c - 2)
      PROVE  Swapped(l, r, i, c)
  <2>1. i = c /\ i - 1 \in 1 .. i - 1 /\ (i - 1) + 1 = i
    BY <1>2 DEF Same
  <2>2. \A j \in 1 .. i : j \notin {i - 1, (i - 1) + 1} => l[j] = r[j]
    BY <1>2, <2>1 DEF Same
  <2> QED
    BY <1>2, <2>1, <2>2 DEF Swapped
<1>3. ASSUME l[i] = r[c], Swapped(l, r, i - 1, c - 1)
      PROVE  Swapped(l, r, i, c)
  <2>1. PICK k \in 1 .. (i - 1) - 1 : /\ l[k] = r[k + 1] /\ l[k + 1] = r[k]
                                     /\ \A j \in 1 .. i - 1 : j \notin {k, k + 1} => l[j] = r[j]
    BY <1>3 DEF Swapped
  <2>2. i = c /\ k \in 1 .. i - 1
    BY <1>3 DEF Swapped
  <2>3. \A j \in 1 .. i : j \in 1 .. i - 1 \/ j = i
    OBVIOUS
  <2>4. \A j \in 1 .. i : j \notin {k, k + 1} => l[j] = r[j]
    BY <1>3, <2>1, <2>2, <2>3
  <2> QED
    BY <2>1, <2>2, <2>4 DEF Swapped
<1> QED
  BY <1>1, <1>2, <1>3

\* The recurrence of the table.
LEMMA WithinStep ==
  ASSUME NEW l, NEW r, NEW i \in Nat \ {0}, NEW c \in Nat \ {0}
  PROVE  Within(l, r, i, c) <=>
           \/ Same(l, r, i, c - 1) \/ Same(l, r, i - 1, c) \/ Same(l, r, i - 1, c - 1)
           \/ l[i] = r[c] /\ Within(l, r, i - 1, c - 1)
           \/ /\ i > 1 /\ c > 1 /\ l[i] = r[c - 1] /\ l[i - 1] = r[c]
              /\ Same(l, r, i - 2, c - 2)
<1>1. Deleted(r, l, c, i) <=> \/ Same(r, l, c - 1, i)
                              \/ r[c] = l[i] /\ Deleted(r, l, c - 1, i - 1)
  BY DeletedStep
<1>2. Same(r, l, c - 1, i) <=> Same(l, r, i, c - 1)
  BY SameIsSymmetric
<1>3. Deleted(l, r, i, c) <=> \/ Same(l, r, i - 1, c)
                              \/ l[i] = r[c] /\ Deleted(l, r, i - 1, c - 1)
  BY DeletedStep
<1>4. Replaced(l, r, i, c) <=> \/ Same(l, r, i - 1, c - 1)
                               \/ l[i] = r[c] /\ Replaced(l, r, i - 1, c - 1)
  BY ReplacedStep
<1>5. Swapped(l, r, i, c) <=>
        \/ /\ i > 1 /\ c > 1 /\ l[i] = r[c - 1] /\ l[i - 1] = r[c]
           /\ Same(l, r, i - 2, c - 2)
        \/ l[i] = r[c] /\ Swapped(l, r, i - 1, c - 1)
  BY SwappedStep
<1>6. Same(l, r, i, c) <=> (Same(l, r, i - 1, c - 1) /\ l[i] = r[c])
  <2>1. \A k : k \in 1 .. i <=> (k \in 1 .. i - 1 \/ k = i)
    OBVIOUS
  <2> QED
    BY <2>1 DEF Same
<1> QED
  BY <1>1, <1>2, <1>3, <1>4, <1>5, <1>6 DEF Within

\* Strings that are within one edit have prefixes that are, of every length.
LEMMA PrefixIsWithin ==
  ASSUME NEW l, NEW r, NEW n \in Nat, NEW m \in Nat, Within(l, r, n, m), NEW i \in 0 .. n
  PROVE  \E c \in 0 .. m : Within(l, r, i, c)
<1>1. CASE Same(l, r, n, m)
  <2>1. i \in 0 .. m /\ Same(l, r, i, i)
    BY <1>1 DEF Same
  <2> QED
    BY <2>1 DEF Within
<1>2. CASE Replaced(l, r, n, m)
  <2>1. PICK k \in 1 .. n : \A j \in 1 .. n : j # k => l[j] = r[j]
    BY <1>2 DEF Replaced
  <2>2. i \in 0 .. m
    BY <1>2 DEF Replaced
  <2>3. CASE i < k
    BY <2>1, <2>2, <2>3 DEF Within, Same
  <2>4. CASE i >= k
    <3>1. k \in 1 .. i /\ \A j \in 1 .. i : j # k => l[j] = r[j]
      BY <2>1, <2>4
    <3>2. Replaced(l, r, i, i)
      BY <3>1 DEF Replaced
    <3> QED
      BY <2>2, <3>2 DEF Within
  <2> QED
    BY <2>3, <2>4
<1>3. CASE Swapped(l, r, n, m)
  <2>1. PICK k \in 1 .. n - 1 : /\ l[k] = r[k + 1] /\ l[k + 1] = r[k]
                               /\ \A j \in 1 .. n : j \notin {k, k + 1} => l[j] = r[j]
    BY <1>3 DEF Swapped
  <2>2. i \in 0 .. m
    BY <1>3 DEF Swapped
  <2>3. CASE i <= k
    <3>1. \A j \in 1 .. i : j # k => l[j] = r[j]
      BY <2>1, <2>3
    <3>2. i < k => Same(l, r, i, i)
      BY <3>1 DEF Same
    <3>3. i = k => Replaced(l, r, i, i)
      BY <2>1, <3>1 DEF Replaced
    <3> QED
      BY <2>2, <2>3, <3>2, <3>3 DEF Within
  <2>4. CASE i > k
    <3>1. k \in 1 .. i - 1 /\ \A j \in 1 .. i : j \notin {k, k + 1} => l[j] = r[j]
      BY <2>1, <2>4
    <3>2. Swapped(l, r, i, i)
      BY <2>1, <3>1 DEF Swapped
    <3> QED
      BY <2>2, <3>2 DEF Within
  <2> QED
    BY <2>3, <2>4
<1>4. CASE Deleted(l, r, n, m)
  <2>1. PICK k \in 1 .. n : /\ \A j \in 1 .. k - 1 : l[j] = r[j]
                           /\ \A j \in k .. m : l[j + 1] = r[j]
    BY <1>4 DEF Deleted
  <2>2. n = m + 1
    BY <1>4 DEF Deleted
  <2>3. CASE i < k
    <3>1. i \in 0 .. m /\ Same(l, r, i, i)
      BY <2>1, <2>2, <2>3 DEF Same
    <3> QED
      BY <3>1 DEF Within
  <2>4. CASE i >= k
    <3>1. /\ i - 1 \in 0 .. m /\ k \in 1 .. i /\ i = (i - 1) + 1
          /\ \A j \in k .. i - 1 : l[j + 1] = r[j]
      BY <2>1, <2>2, <2>4
    <3>2. Deleted(l, r, i, i - 1)
      BY <2>1, <3>1 DEF Deleted
    <3> QED
      BY <3>1, <3>2 DEF Within
  <2> QED
    BY <2>3, <2>4
<1>5. CASE Deleted(r, l, m, n)
  <2>1. PICK k \in 1 .. m : /\ \A j \in 1 .. k - 1 : r[j] = l[j]
                           /\ \A j \in k .. n : r[j + 1] = l[j]
    BY <1>5 DEF Deleted
  <2>2. m = n + 1
    BY <1>5 DEF Deleted
  <2>3. CASE i < k
    <3>1. i \in 0 .. m /\ Same(l, r, i, i)
      BY <2>1, <2>2, <2>3 DEF Same
    <3> QED
      BY <3>1 DEF Within
  <2>4. CASE i >= k
    <3>1. /\ i + 1 \in 0 .. m /\ k \in 1 .. i + 1
          /\ \A j \in k .. i : r[j + 1] = l[j]
      BY <2>1, <2>2, <2>4
    <3>2. Deleted(r, l, i + 1, i)
      BY <2>1, <3>1 DEF Deleted
    <3> QED
      BY <3>1, <3>2 DEF Within
  <2> QED
    BY <2>3, <2>4
<1> QED
  BY <1>1, <1>2, <1>3, <1>4, <1>5 DEF Within

-----------------------------------------------------------------------------
(* DomainMatching: what a cell tells of its two prefixes.                  *)

\* A cell tells whether the prefixes are the same or within one edit.
CellIs(v, l, r, i, c) ==
  /\ v \in Nat
  /\ v = 0 <=> Same(l, r, i, c)
  /\ v <= 1 <=> Within(l, r, i, c)

\* Nothing is the beginning of every string.
LEMMA BoundaryCells ==
  ASSUME NEW l, NEW r, NEW n \in Nat
  PROVE  CellIs(n, l, r, 0, n) /\ CellIs(n, l, r, n, 0)
<1>1. /\ Same(l, r, 0, n) <=> n = 0
      /\ Same(l, r, n, 0) <=> n = 0
  BY DEF Same
<1>2. /\ ~ Replaced(l, r, 0, n) /\ ~ Swapped(l, r, 0, n)
      /\ ~ Replaced(l, r, n, 0) /\ ~ Swapped(l, r, n, 0)
  BY DEF Replaced, Swapped
<1>3. ~ Deleted(l, r, 0, n) /\ ~ Deleted(r, l, 0, n)
  BY DEF Deleted
<1>4. (Deleted(r, l, n, 0) <=> n = 1) /\ (Deleted(l, r, n, 0) <=> n = 1)
  BY DEF Deleted
<1> QED
  BY <1>1, <1>2, <1>3, <1>4 DEF CellIs, Within

LEMMA LeastOfFew ==
  ASSUME NEW x \in Nat, NEW y \in Nat, NEW z \in Nat, NEW w \in Nat
  PROVE  /\ Least({x, y, z, w}) \in {x, y, z, w}
         /\ Least({x, y, z, w}) <= x /\ Least({x, y, z, w}) <= y
         /\ Least({x, y, z, w}) <= z /\ Least({x, y, z, w}) <= w
<1> DEFINE S == {x, y, z, w}
<1>1. \E m \in S : m <= x /\ m <= y /\ m <= z /\ m <= w
  OBVIOUS
<1>2. \E m \in S : \A n \in S : m <= n
  BY <1>1
<1>3. Least(S) \in S /\ \A n \in S : Least(S) <= n
  BY <1>2 DEF Least
<1> QED
  BY <1>3

\* The least of the three or four ways to a cell tells the same of its
\* prefixes as they do of theirs.
LEMMA CellStep ==
  ASSUME NEW l, NEW r, NEW i \in Nat \ {0}, NEW c \in Nat \ {0},
         NEW current, NEW previous, NEW before,
         CellIs(current[c], l, r, i, c - 1),
         CellIs(previous[c + 1], l, r, i - 1, c),
         CellIs(previous[c], l, r, i - 1, c - 1),
         i > 1 /\ c > 1 => CellIs(before[c - 1], l, r, i - 2, c - 2)
  PROVE  CellIs(Cell(l, r, i, c, current, previous, before), l, r, i, c)
<1> DEFINE swapped == i > 1 /\ c > 1 /\ l[i] = r[c - 1] /\ l[i - 1] = r[c]
<1>1. PICK a, b, d, e, s, v :
        /\ a = current[c] /\ b = previous[c + 1] /\ d = previous[c]
        /\ e = Cost(l[i] = r[c]) /\ s = (IF swapped THEN before[c - 1] ELSE a)
        /\ v = Cell(l, r, i, c, current, previous, before)
  OBVIOUS
<1>2. a \in Nat /\ b \in Nat /\ d \in Nat /\ e \in Nat /\ s \in Nat
  BY <1>1 DEF CellIs, Cost
<1>3. v = Least({a + 1, b + 1, d + e, s + 1})
  <2>1. CASE swapped
    <3>1. v = Least({a + 1, b + 1, d + e} \cup {s + 1})
      BY <1>1, <2>1 DEF Cell
    <3>2. {a + 1, b + 1, d + e} \cup {s + 1} = {a + 1, b + 1, d + e, s + 1}
      OBVIOUS
    <3> QED
      BY <3>1, <3>2
  <2>2. CASE ~ swapped
    <3>1. v = Least({a + 1, b + 1, d + e} \cup {})
      BY <1>1, <2>2 DEF Cell
    <3>2. {a + 1, b + 1, d + e} \cup {} = {a + 1, b + 1, d + e, s + 1}
      BY <1>1, <2>2
    <3> QED
      BY <3>1, <3>2
  <2> QED
    BY <2>1, <2>2
<1>4. /\ v \in {a + 1, b + 1, d + e, s + 1}
      /\ v <= a + 1 /\ v <= b + 1 /\ v <= d + e /\ v <= s + 1
  BY <1>2, <1>3, LeastOfFew
<1>5. /\ v \in Nat
      /\ v = 0 <=> d + e = 0
      /\ v <= 1 <=> (a = 0 \/ b = 0 \/ d + e <= 1 \/ s = 0)
  BY <1>2, <1>4
<1>6. (e = 0 <=> l[i] = r[c]) /\ e \in {0, 1}
  BY <1>1 DEF Cost
<1>7. /\ a = 0 <=> Same(l, r, i, c - 1)
      /\ b = 0 <=> Same(l, r, i - 1, c)
      /\ d = 0 <=> Same(l, r, i - 1, c - 1)
      /\ d <= 1 <=> Within(l, r, i - 1, c - 1)
  BY <1>1 DEF CellIs
<1>8. swapped => (s = 0 <=> Same(l, r, i - 2, c - 2))
  BY <1>1 DEF CellIs
<1>9. ~ swapped => s = a
  BY <1>1
<1>10. Same(l, r, i, c) <=> (Same(l, r, i - 1, c - 1) /\ l[i] = r[c])
  BY DEF Same
<1>11. v = 0 <=> Same(l, r, i, c)
  BY <1>2, <1>5, <1>6, <1>7, <1>10
<1>12. v <= 1 <=> Within(l, r, i, c)
  <2>1. d + e <= 1 <=> ((d <= 1 /\ e = 0) \/ d = 0)
    BY <1>2, <1>6
  <2>2. v <= 1 <=> \/ Same(l, r, i, c - 1) \/ Same(l, r, i - 1, c) \/ Same(l, r, i - 1, c - 1)
                   \/ l[i] = r[c] /\ Within(l, r, i - 1, c - 1)
                   \/ swapped /\ Same(l, r, i - 2, c - 2)
    BY <1>5, <1>6, <1>7, <1>8, <1>9, <2>1
  <2> QED
    BY <2>2, WithinStep
<1> QED
  BY <1>1, <1>5, <1>11, <1>12 DEF CellIs

-----------------------------------------------------------------------------
(* DomainMatching: whole strings.                                          *)

LEMMA RemoveAtIs ==
  ASSUME NEW S, NEW s \in Seq(S), NEW i \in 1 .. Len(s), NEW t, t = RemoveAt(s, i)
  PROVE  /\ t \in Seq(S) /\ Len(t) = Len(s) - 1
         /\ \A j \in 1 .. i - 1 : t[j] = s[j]
         /\ \A j \in i .. Len(s) - 1 : t[j] = s[j + 1]
<1>1. /\ Len(s) \in Nat
      /\ \A j \in 1 .. i - 1 : s[j] \in S
      /\ \A j \in i + 1 .. Len(s) : s[j] \in S
  BY ElementOfSeq, LenProperties
<1>2. PICK x, y : x = SubSeq(s, 1, i - 1) /\ y = SubSeq(s, i + 1, Len(s))
  OBVIOUS
<1>3. /\ x \in Seq(S) /\ Len(x) = i - 1
      /\ \A j \in 1 .. i - 1 : x[j] = s[j]
  <2>1. /\ SubSeq(s, 1, i - 1) \in Seq(S)
        /\ Len(SubSeq(s, 1, i - 1)) = IF 1 <= i - 1 THEN (i - 1) - 1 + 1 ELSE 0
        /\ \A j \in 1 .. (i - 1) - 1 + 1 : SubSeq(s, 1, i - 1)[j] = s[1 + j - 1]
    BY <1>1, SubSeqProperties
  <2> QED
    BY <1>1, <1>2, <2>1
<1>4. /\ y \in Seq(S) /\ Len(y) = Len(s) - i
      /\ \A j \in 1 .. Len(s) - i : y[j] = s[i + j]
  <2>1. /\ SubSeq(s, i + 1, Len(s)) \in Seq(S)
        /\ Len(SubSeq(s, i + 1, Len(s))) = IF i + 1 <= Len(s) THEN Len(s) - (i + 1) + 1 ELSE 0
        /\ \A j \in 1 .. Len(s) - (i + 1) + 1 : SubSeq(s, i + 1, Len(s))[j] = s[(i + 1) + j - 1]
    BY <1>1, SubSeqProperties
  <2> QED
    BY <1>1, <1>2, <2>1
<1>5. t = x \o y
  BY <1>2 DEF RemoveAt
<1>6. /\ t \in Seq(S) /\ Len(t) = Len(s) - 1
      /\ \A j \in 1 .. Len(s) - 1 : t[j] = IF j <= i - 1 THEN x[j] ELSE y[j - (i - 1)]
  <2>1. /\ x \o y \in Seq(S)
        /\ Len(x \o y) = Len(x) + Len(y)
        /\ \A j \in 1 .. Len(x) + Len(y) : (x \o y)[j] = IF j <= Len(x) THEN x[j] ELSE y[j - Len(x)]
    BY <1>3, <1>4, ConcatProperties
  <2>2. Len(x) + Len(y) = Len(s) - 1
    BY <1>1, <1>3, <1>4
  <2> QED
    BY <1>3, <1>5, <2>1, <2>2
<1>7. ASSUME NEW j \in 1 .. i - 1 PROVE t[j] = s[j]
  <2>1. j \in 1 .. Len(s) - 1 /\ j <= i - 1
    BY <1>1
  <2> QED
    BY <1>3, <1>6, <2>1
<1>8. ASSUME NEW j \in i .. Len(s) - 1 PROVE t[j] = s[j + 1]
  <2>1. /\ j \in 1 .. Len(s) - 1 /\ ~ (j <= i - 1)
        /\ j - (i - 1) \in 1 .. Len(s) - i /\ i + (j - (i - 1)) = j + 1
    BY <1>1
  <2>2. t[j] = y[j - (i - 1)]
    BY <1>6, <2>1
  <2> QED
    BY <1>4, <2>1, <2>2
<1> QED
  BY <1>6, <1>7, <1>8

LEMMA SameStrings ==
  ASSUME NEW S, NEW l \in Seq(S), NEW r \in Seq(S)
  PROVE  Same(l, r, Len(l), Len(r)) <=> l = r
BY SeqEqual DEF Same

LEMMA OneDeletedIs ==
  ASSUME NEW S, NEW l \in Seq(S), NEW r \in Seq(S)
  PROVE  OneDeleted(l, r) <=> Deleted(l, r, Len(l), Len(r))
<1>0. /\ Len(l) \in Nat /\ Len(r) \in Nat /\ DOMAIN l = 1 .. Len(l)
  BY LenProperties
<1>1. ASSUME OneDeleted(l, r) PROVE Deleted(l, r, Len(l), Len(r))
  <2>1. PICK k \in 1 .. Len(l) : r = RemoveAt(l, k)
    BY <1>0, <1>1 DEF OneDeleted
  <2>2. /\ Len(r) = Len(l) - 1
        /\ \A j \in 1 .. k - 1 : r[j] = l[j]
        /\ \A j \in k .. Len(l) - 1 : r[j] = l[j + 1]
    BY <2>1, RemoveAtIs
  <2>3. Len(l) = Len(r) + 1 /\ Len(l) - 1 = Len(r)
    BY <1>0, <2>2
  <2>4. /\ \A j \in 1 .. k - 1 : l[j] = r[j]
        /\ \A j \in k .. Len(r) : l[j + 1] = r[j]
    BY <2>2, <2>3
  <2> QED
    BY <2>3, <2>4 DEF Deleted
<1>2. ASSUME Deleted(l, r, Len(l), Len(r)) PROVE OneDeleted(l, r)
  <2>1. PICK k \in 1 .. Len(l) : /\ \A j \in 1 .. k - 1 : l[j] = r[j]
                                /\ \A j \in k .. Len(r) : l[j + 1] = r[j]
    BY <1>2 DEF Deleted
  <2>2. Len(l) = Len(r) + 1
    BY <1>2 DEF Deleted
  <2>3. PICK t : t = RemoveAt(l, k)
    OBVIOUS
  <2>4. /\ t \in Seq(S) /\ Len(t) = Len(l) - 1
        /\ \A j \in 1 .. k - 1 : t[j] = l[j]
        /\ \A j \in k .. Len(l) - 1 : t[j] = l[j + 1]
    BY <2>3, RemoveAtIs
  <2>5. Len(t) = Len(r) /\ \A j \in 1 .. Len(r) : t[j] = r[j]
    BY <1>0, <2>1, <2>2, <2>4
  <2>6. t = r
    BY <2>4, <2>5, SeqEqual
  <2> QED
    BY <1>0, <2>3, <2>6 DEF OneDeleted
<1> QED
  BY <1>1, <1>2

LEMMA OneReplacedIs ==
  ASSUME NEW S, NEW l \in Seq(S), NEW r \in Seq(S), l # r
  PROVE  OneReplaced(l, r) <=> Replaced(l, r, Len(l), Len(r))
<1>0. /\ Len(l) \in Nat /\ Len(r) \in Nat /\ DOMAIN l = 1 .. Len(l)
  BY LenProperties
<1>1. ASSUME OneReplaced(l, r) PROVE Replaced(l, r, Len(l), Len(r))
  <2>1. PICK k \in 1 .. Len(l) : r = [l EXCEPT ![k] = r[k]]
    BY <1>0, <1>1 DEF OneReplaced
  <2>2. \A j \in 1 .. Len(l) : j # k => l[j] = r[j]
    BY <1>0, <2>1
  <2> QED
    BY <1>1, <2>2 DEF OneReplaced, Replaced
<1>2. ASSUME Replaced(l, r, Len(l), Len(r)) PROVE OneReplaced(l, r)
  <2>1. PICK k \in 1 .. Len(l) : \A j \in 1 .. Len(l) : j # k => l[j] = r[j]
    BY <1>2 DEF Replaced
  <2>2. Len(l) = Len(r)
    BY <1>2 DEF Replaced
  <2>3. l[k] # r[k]
    BY <2>1, <2>2, SeqEqual
  <2>4. r[k] \in S
    BY <2>2, ElementOfSeq
  <2>5. PICK t : t = [l EXCEPT ![k] = r[k]]
    OBVIOUS
  <2>6. /\ t \in Seq(S) /\ Len(t) = Len(l)
        /\ \A j \in 1 .. Len(l) : t[j] = IF j = k THEN r[k] ELSE l[j]
    BY <2>4, <2>5, ExceptSeq
  <2>7. t = r
    BY <2>1, <2>2, <2>6, SeqEqual
  <2> QED
    BY <1>0, <2>2, <2>3, <2>5, <2>7 DEF OneReplaced
<1> QED
  BY <1>1, <1>2

LEMMA OneSwappedIs ==
  ASSUME NEW S, NEW l \in Seq(S), NEW r \in Seq(S)
  PROVE  OneSwapped(l, r) <=> Swapped(l, r, Len(l), Len(r))
<1>0. /\ Len(l) \in Nat /\ Len(r) \in Nat /\ DOMAIN l = 1 .. Len(l)
  BY LenProperties
<1>1. ASSUME NEW k \in 1 .. Len(l) - 1, NEW t,
             t = [l EXCEPT ![k] = l[k + 1], ![k + 1] = l[k]]
      PROVE  /\ t \in Seq(S) /\ Len(t) = Len(l) /\ t[k] = l[k + 1] /\ t[k + 1] = l[k]
             /\ \A j \in 1 .. Len(l) : j \notin {k, k + 1} => t[j] = l[j]
  <2>1. k \in 1 .. Len(l) /\ k + 1 \in 1 .. Len(l) /\ k # k + 1
    BY <1>0
  <2>2. l[k] \in S /\ l[k + 1] \in S
    BY <2>1, ElementOfSeq
  <2>3. PICK u : u = [l EXCEPT ![k] = l[k + 1]]
    OBVIOUS
  <2>4. /\ u \in Seq(S) /\ Len(u) = Len(l)
        /\ \A j \in 1 .. Len(l) : u[j] = IF j = k THEN l[k + 1] ELSE l[j]
    BY <2>1, <2>2, <2>3, ExceptSeq
  <2>5. t = [u EXCEPT ![k + 1] = l[k]]
    BY <1>1, <2>3
  <2>6. /\ t \in Seq(S) /\ Len(t) = Len(l)
        /\ \A j \in 1 .. Len(l) : t[j] = IF j = k + 1 THEN l[k] ELSE u[j]
    BY <2>1, <2>2, <2>4, <2>5, ExceptSeq
  <2> QED
    BY <2>1, <2>4, <2>6
<1>2. ASSUME OneSwapped(l, r) PROVE Swapped(l, r, Len(l), Len(r))
  <2>1. PICK k \in 1 .. Len(l) - 1 : r = [l EXCEPT ![k] = l[k + 1], ![k + 1] = l[k]]
    BY <1>2 DEF OneSwapped
  <2>2. /\ Len(r) = Len(l) /\ r[k] = l[k + 1] /\ r[k + 1] = l[k]
        /\ \A j \in 1 .. Len(l) : j \notin {k, k + 1} => r[j] = l[j]
    BY <1>1, <2>1
  <2> QED
    BY <2>2 DEF Swapped
<1>3. ASSUME Swapped(l, r, Len(l), Len(r)) PROVE OneSwapped(l, r)
  <2>1. PICK k \in 1 .. Len(l) - 1 :
          /\ l[k] = r[k + 1] /\ l[k + 1] = r[k]
          /\ \A j \in 1 .. Len(l) : j \notin {k, k + 1} => l[j] = r[j]
    BY <1>3 DEF Swapped
  <2>2. Len(l) = Len(r)
    BY <1>3 DEF Swapped
  <2>3. PICK t : t = [l EXCEPT ![k] = l[k + 1], ![k + 1] = l[k]]
    OBVIOUS
  <2>4. /\ t \in Seq(S) /\ Len(t) = Len(l) /\ t[k] = l[k + 1] /\ t[k + 1] = l[k]
        /\ \A j \in 1 .. Len(l) : j \notin {k, k + 1} => t[j] = l[j]
    BY <1>1, <2>3
  <2>5. \A j \in 1 .. Len(l) : t[j] = r[j]
    BY <2>1, <2>4
  <2>6. t = r
    BY <2>2, <2>4, <2>5, SeqEqual
  <2> QED
    BY <2>3, <2>6 DEF OneSwapped
<1> QED
  BY <1>2, <1>3

\* Different strings are one edit apart when their prefixes of full length are
\* within one.
LEMMA OneEditApartIs ==
  ASSUME NEW S, NEW l \in Seq(S), NEW r \in Seq(S), l # r
  PROVE  OneEditApart(l, r) <=> Within(l, r, Len(l), Len(r))
<1>1. ~ Same(l, r, Len(l), Len(r))
  BY SameStrings
<1>2. OneDeleted(l, r) <=> Deleted(l, r, Len(l), Len(r))
  BY OneDeletedIs
<1>3. OneDeleted(r, l) <=> Deleted(r, l, Len(r), Len(l))
  BY OneDeletedIs
<1>4. OneReplaced(l, r) <=> Replaced(l, r, Len(l), Len(r))
  BY OneReplacedIs
<1>5. OneSwapped(l, r) <=> Swapped(l, r, Len(l), Len(r))
  BY OneSwappedIs
<1> QED
  BY <1>1, <1>2, <1>3, <1>4, <1>5 DEF OneEditApart, Within

-----------------------------------------------------------------------------
(* DomainMatching: the table.                                              *)

\* The first cells of the row of the first i characters of l.
IsRow(cells, l, r, i) ==
  /\ cells \in Seq(Nat)
  /\ \A c \in 1 .. Len(cells) : CellIs(cells[c], l, r, i, c - 1)

DistanceIs(d, l, r) ==
  /\ d \in Nat
  /\ d = 0 <=> l = r
  /\ d = 1 <=> l # r /\ OneEditApart(l, r)

Comparisons ==
  [left : Seq(Letters), right : Seq(Letters), row : Nat, before : Seq(Nat),
   previous : Seq(Nat), current : Seq(Nat), result : Nat \cup {Pending}]

\* The rows that are kept are rows of the table of the two strings.
TableIs(l, r, at, before, previous, current) ==
  /\ at \in 0 .. Len(l)
  /\ IsRow(previous, l, r, at) /\ Len(previous) = Len(r) + 1
  /\ at > 0 => IsRow(before, l, r, at - 1) /\ Len(before) = Len(r) + 1
  /\ IsRow(current, l, r, at + 1) /\ Len(current) \in 1 .. Len(r) + 1

ComparisonIsSound(s) ==
  /\ s \in Comparisons
  /\ s.result = Pending => TableIs(s.left, s.right, s.row, s.before, s.previous, s.current)
  /\ s.result # Pending => DistanceIs(s.result, s.left, s.right)

ComparisonInv == ComparisonIsSound(comparison)

\* A row beyond the bound holds no prefixes within one edit.
LEMMA LeastOfSmall ==
  ASSUME NEW S \in SUBSET Nat, NEW v \in S, v <= 1
  PROVE  Least(S) \in Nat /\ Least(S) <= 1
<1>1. \E m \in S : m <= 1 /\ \A n \in S : m <= n
  <2>1. CASE 0 \in S
    BY <2>1
  <2>2. CASE 0 \notin S
    <3>1. v = 1 /\ \A n \in S : 1 <= n
      BY <2>2
    <3> QED
      BY <3>1
  <2> QED
    BY <2>1, <2>2
<1>2. PICK m \in S : m <= 1 /\ \A n \in S : m <= n
  BY <1>1
<1>3. PICK n : n = Least(S)
  OBVIOUS
<1>4. n \in S /\ n <= m
  BY <1>2, <1>3 DEF Least
<1> QED
  BY <1>2, <1>3, <1>4

\* A string that no single edit can reach is neither the same nor one apart.
LEMMA FarIsFar ==
  ASSUME NEW l \in Seq(Letters), NEW r \in Seq(Letters), ~ Within(l, r, Len(l), Len(r))
  PROVE  DistanceIs(Maximum + 1, l, r)
<1>1. l # r
  BY SameStrings DEF Within
<1>2. ~ OneEditApart(l, r)
  BY <1>1, OneEditApartIs
<1>3. Maximum + 1 \in Nat /\ Maximum + 1 > 1
  BY MatchingAssumption
<1> QED
  BY <1>1, <1>2, <1>3 DEF DistanceIs

\* The last cell is the distance.
LEMMA LastCellIsDistance ==
  ASSUME NEW l \in Seq(Letters), NEW r \in Seq(Letters), NEW d,
         CellIs(d, l, r, Len(l), Len(r))
  PROVE  DistanceIs(d, l, r)
<1>1. d \in Nat /\ (d = 0 <=> l = r)
  BY SameStrings DEF CellIs
<1>2. l # r => (d <= 1 <=> OneEditApart(l, r))
  BY OneEditApartIs DEF CellIs
<1> QED
  BY <1>1, <1>2 DEF DistanceIs

\* Strings whose lengths differ by more than one are not within one edit.
LEMMA ApartIsFar ==
  ASSUME NEW l \in Seq(Letters), NEW r \in Seq(Letters), Apart(Len(l), Len(r)) > Maximum
  PROVE  ~ Within(l, r, Len(l), Len(r))
<1>1. Len(l) \in Nat /\ Len(r) \in Nat
  BY LenProperties
<1>2. Len(l) # Len(r) /\ Len(l) # Len(r) + 1 /\ Len(r) # Len(l) + 1
  BY <1>1, MatchingAssumption DEF Apart
<1> QED
  BY <1>2 DEF Within, Same, Replaced, Swapped, Deleted

LEMMA FirstRow ==
  ASSUME NEW l, NEW r, NEW n \in Nat, NEW cells, cells = [c \in 1 .. n + 1 |-> c - 1]
  PROVE  IsRow(cells, l, r, 0) /\ Len(cells) = n + 1
<1>1. cells \in Seq(Nat) /\ Len(cells) = n + 1
  <2>1. cells \in [1 .. n + 1 -> Nat]
    OBVIOUS
  <2> QED
    BY <2>1
<1>2. ASSUME NEW c \in 1 .. n + 1 PROVE CellIs(cells[c], l, r, 0, c - 1)
  <2>1. cells[c] = c - 1 /\ c - 1 \in Nat
    OBVIOUS
  <2> QED
    BY <2>1, BoundaryCells
<1> QED
  BY <1>1, <1>2 DEF IsRow

LEMMA RowStarts ==
  ASSUME NEW l, NEW r, NEW i \in Nat
  PROVE  IsRow(<<i>>, l, r, i) /\ Len(<<i>>) = 1
<1>1. <<i>> \in Seq(Nat) /\ Len(<<i>>) = 1 /\ <<i>>[1] = i
  OBVIOUS
<1>2. CellIs(i, l, r, i, 0)
  BY BoundaryCells
<1>3. \A c \in 1 .. Len(<<i>>) : CellIs(<<i>>[c], l, r, i, c - 1)
  BY <1>1, <1>2
<1> QED
  BY <1>1, <1>3 DEF IsRow

LEMMA RowGoesOn ==
  ASSUME NEW l, NEW r, NEW i \in Nat, NEW cells, IsRow(cells, l, r, i),
         NEW v, CellIs(v, l, r, i, Len(cells))
  PROVE  IsRow(Append(cells, v), l, r, i) /\ Len(Append(cells, v)) = Len(cells) + 1
<1>1. cells \in Seq(Nat) /\ v \in Nat /\ Len(cells) \in Nat
  BY LenProperties DEF IsRow, CellIs
<1>2. PICK more : more = Append(cells, v)
  OBVIOUS
<1>3. /\ more \in Seq(Nat) /\ Len(more) = Len(cells) + 1
      /\ \A c \in 1 .. Len(cells) : more[c] = cells[c]
      /\ more[Len(cells) + 1] = v
  BY <1>1, <1>2, AppendProperties
<1>4. ASSUME NEW c \in 1 .. Len(more) PROVE CellIs(more[c], l, r, i, c - 1)
  <2>1. CASE c \in 1 .. Len(cells)
    BY <1>3, <2>1 DEF IsRow
  <2>2. CASE c = Len(cells) + 1
    <3>1. c - 1 = Len(cells)
      BY <1>1, <2>2
    <3> QED
      BY <1>3, <2>2, <3>1
  <2> QED
    BY <1>1, <1>3, <2>1, <2>2
<1> QED
  BY <1>2, <1>3, <1>4 DEF IsRow

LEMMA CompareIsSound ==
  ASSUME NEW l \in Strings, NEW r \in Strings, Compare(l, r)
  PROVE  ComparisonInv'
<1>1. l \in Seq(Letters) /\ r \in Seq(Letters)
  BY MatchingAssumption DEF Strings, SeqOf
<1>2. Len(l) \in Nat /\ Len(r) \in Nat
  BY <1>1, LenProperties
<1>3. PICK cells, n : cells = [c \in 1 .. Len(r) + 1 |-> c - 1] /\ n = Len(r) + 1
  OBVIOUS
<1>4. IsRow(cells, l, r, 0) /\ Len(cells) = Len(r) + 1
  BY <1>2, <1>3, FirstRow
<1>5. IsRow(<<1>>, l, r, 1) /\ Len(<<1>>) = 1
  BY RowStarts
<1>6. cells \in Seq(Nat) /\ <<1>> \in Seq(Nat) /\ <<>> \in Seq(Nat)
  BY <1>4, <1>5, EmptySeq DEF IsRow
<1>7. TableIs(l, r, 0, <<>>, cells, <<1>>)
  BY <1>2, <1>4, <1>5 DEF TableIs
<1>8. PICK d, s :
        /\ d = IF Apart(Len(l), Len(r)) > Maximum THEN Maximum + 1 ELSE Pending
        /\ s = [left |-> l, right |-> r, row |-> 0, before |-> <<>>,
                previous |-> cells, current |-> <<1>>, result |-> d]
  OBVIOUS
<1>9. d # Pending => Apart(Len(l), Len(r)) > Maximum /\ d = Maximum + 1
  BY <1>8
<1>10. d # Pending => DistanceIs(d, l, r)
  BY <1>1, <1>9, ApartIsFar, FarIsFar
<1>11. d \in Nat \cup {Pending}
  BY <1>8, MatchingAssumption
<1>12. s \in Comparisons
  BY <1>1, <1>6, <1>8, <1>11 DEF Comparisons
<1>13. ComparisonIsSound(s)
  BY <1>7, <1>8, <1>10, <1>12 DEF ComparisonIsSound
<1>14. comparison' = s
  BY <1>3, <1>8 DEF Compare
<1> QED
  BY <1>13, <1>14 DEF ComparisonInv

LEMMA FillCellIsSound ==
  ASSUME ComparisonInv, FillCell
  PROVE  ComparisonInv'
<1>1. PICK l, r, at, before, previous, current :
        /\ l = comparison.left /\ r = comparison.right /\ at = comparison.row
        /\ before = comparison.before /\ previous = comparison.previous
        /\ current = comparison.current
  OBVIOUS
<1>2. /\ comparison \in Comparisons /\ comparison.result = Pending /\ at < Len(l)
      /\ TableIs(l, r, at, before, previous, current)
  BY <1>1 DEF FillCell, Filling, ComparisonInv, ComparisonIsSound
<1>3. /\ l \in Seq(Letters) /\ r \in Seq(Letters) /\ at \in Nat
      /\ Len(l) \in Nat /\ Len(r) \in Nat
  BY <1>1, <1>2, LenProperties DEF Comparisons
<1>4. PICK i, c : i = at + 1 /\ c = Len(current)
  OBVIOUS
<1>5. c \in 1 .. Len(r) /\ i \in Nat \ {0} /\ c \in Nat \ {0} /\ i - 1 = at
  BY <1>1, <1>2, <1>3, <1>4 DEF FillCell, TableIs
<1>6. CellIs(current[c], l, r, i, c - 1)
  BY <1>2, <1>4, <1>5 DEF TableIs, IsRow
<1>7. CellIs(previous[c + 1], l, r, i - 1, c) /\ CellIs(previous[c], l, r, i - 1, c - 1)
  <2>1. /\ c \in 1 .. Len(previous) /\ c + 1 \in 1 .. Len(previous) /\ (c + 1) - 1 = c
        /\ \A k \in 1 .. Len(previous) : CellIs(previous[k], l, r, i - 1, k - 1)
    BY <1>2, <1>3, <1>5 DEF TableIs, IsRow
  <2> QED
    BY <2>1
<1>8. ASSUME i > 1, c > 1
      PROVE  CellIs(before[c - 1], l, r, i - 2, c - 2)
  <2>1. at > 0 /\ at - 1 = i - 2 /\ c - 1 \in 1 .. Len(r) + 1 /\ (c - 1) - 1 = c - 2
    BY <1>3, <1>4, <1>5, <1>8
  <2>2. IsRow(before, l, r, at - 1) /\ Len(before) = Len(r) + 1
    BY <1>2, <2>1 DEF TableIs
  <2>3. CellIs(before[c - 1], l, r, at - 1, (c - 1) - 1)
    BY <2>1, <2>2 DEF IsRow
  <2> QED
    BY <2>1, <2>3
<1>9. PICK v : v = Cell(l, r, i, c, current, previous, before)
  OBVIOUS
<1>10. CellIs(v, l, r, i, c)
  BY <1>5, <1>6, <1>7, <1>8, <1>9, CellStep
<1>11. PICK more : more = Append(current, v)
  OBVIOUS
<1>12. IsRow(more, l, r, i) /\ Len(more) = c + 1
  BY <1>2, <1>4, <1>5, <1>10, <1>11, RowGoesOn DEF TableIs
<1>13. TableIs(l, r, at, before, previous, more)
  BY <1>2, <1>3, <1>4, <1>5, <1>12 DEF TableIs
<1>14. comparison' = [comparison EXCEPT !.current = more]
  BY <1>1, <1>4, <1>9, <1>11 DEF FillCell
<1>15. PICK s : s = [comparison EXCEPT !.current = more]
  OBVIOUS
<1>16. /\ s \in Comparisons /\ s.left = l /\ s.right = r /\ s.row = at /\ s.before = before
       /\ s.previous = previous /\ s.current = more /\ s.result = Pending
  BY <1>1, <1>2, <1>12, <1>15 DEF Comparisons, IsRow
<1>17. ComparisonIsSound(s)
  BY <1>13, <1>16 DEF ComparisonIsSound
<1> QED
  BY <1>14, <1>15, <1>17 DEF ComparisonInv

LEMMA EndRowIsSound ==
  ASSUME ComparisonInv, EndRow
  PROVE  ComparisonInv'
<1>1. PICK l, r, at, before, previous, current :
        /\ l = comparison.left /\ r = comparison.right /\ at = comparison.row
        /\ before = comparison.before /\ previous = comparison.previous
        /\ current = comparison.current
  OBVIOUS
<1>2. /\ comparison \in Comparisons /\ comparison.result = Pending /\ at < Len(l)
      /\ TableIs(l, r, at, before, previous, current) /\ Len(current) = Len(r) + 1
  BY <1>1 DEF EndRow, Filling, ComparisonInv, ComparisonIsSound
<1>3. /\ l \in Seq(Letters) /\ r \in Seq(Letters) /\ at \in Nat
      /\ Len(l) \in Nat /\ Len(r) \in Nat
  BY <1>1, <1>2, LenProperties DEF Comparisons
<1>4. IsRow(current, l, r, at + 1)
  BY <1>2 DEF TableIs
<1>5. CASE Least(ToSet(current)) > Maximum
  <2>1. ToSet(current) \in SUBSET Nat
    <3>1. current \in [1 .. Len(current) -> Nat]
      BY <1>4, LenProperties DEF IsRow
    <3> QED
      BY <3>1 DEF ToSet
  <2>2. ASSUME NEW c \in 0 .. Len(r), Within(l, r, at + 1, c) PROVE FALSE
    <3>1. /\ c + 1 \in 1 .. Len(current) /\ (c + 1) - 1 = c /\ DOMAIN current = 1 .. Len(current)
          /\ current \in Seq(Nat)
      BY <1>2, <1>3, <1>4, LenProperties DEF IsRow
    <3>2. CellIs(current[c + 1], l, r, at + 1, c)
      BY <1>4, <3>1 DEF IsRow
    <3>3. current[c + 1] \in ToSet(current) /\ current[c + 1] <= 1
      BY <2>2, <3>1, <3>2 DEF ToSet, CellIs
    <3>4. Least(ToSet(current)) \in Nat /\ Least(ToSet(current)) <= 1
      BY <2>1, <3>3, LeastOfSmall
    <3> QED
      BY <1>5, <3>4, MatchingAssumption
  <2>3. ~ Within(l, r, Len(l), Len(r))
    <3>1. at + 1 \in 0 .. Len(l)
      BY <1>2, <1>3
    <3> QED
      BY <1>3, <2>2, <3>1, PrefixIsWithin
  <2>4. DistanceIs(Maximum + 1, l, r)
    BY <1>3, <2>3, FarIsFar
  <2>5. PICK d, s : d = Maximum + 1 /\ s = [comparison EXCEPT !.result = d]
    OBVIOUS
  <2>6. d \in Nat /\ d # Pending
    BY <2>5, MatchingAssumption
  <2>7. s \in Comparisons /\ s.left = l /\ s.right = r /\ s.result = d
    BY <1>1, <1>2, <2>5, <2>6 DEF Comparisons
  <2>8. ComparisonIsSound(s)
    BY <2>4, <2>5, <2>6, <2>7 DEF ComparisonIsSound
  <2>9. comparison' = s
    BY <1>1, <1>5, <2>5 DEF EndRow
  <2> QED
    BY <2>8, <2>9 DEF ComparisonInv
<1>6. CASE ~ (Least(ToSet(current)) > Maximum)
  <2>1. PICK n, m, fresh, s :
          /\ n = at + 2 /\ m = at + 1 /\ fresh = <<n>>
          /\ s = [comparison EXCEPT !.row = m, !.before = previous,
                                    !.previous = current, !.current = fresh]
    OBVIOUS
  <2>2. IsRow(fresh, l, r, at + 2) /\ Len(fresh) = 1 /\ fresh \in Seq(Nat)
    <3>1. n \in Nat
      BY <1>3, <2>1
    <3>2. IsRow(<<n>>, l, r, n) /\ Len(<<n>>) = 1
      BY <3>1, RowStarts
    <3> QED
      BY <2>1, <3>2 DEF IsRow
  <2>3. /\ s \in Comparisons /\ s.left = l /\ s.right = r /\ s.row = at + 1
        /\ s.before = previous /\ s.previous = current /\ s.current = fresh
        /\ s.result = Pending
    <3>1. m \in Nat /\ previous \in Seq(Nat) /\ current \in Seq(Nat)
      BY <1>1, <1>2, <1>3, <2>1 DEF Comparisons
    <3> QED
      BY <1>1, <1>2, <2>1, <2>2, <3>1 DEF Comparisons
  <2>4. TableIs(l, r, at + 1, previous, current, fresh)
    <3>1. (at + 1) + 1 = at + 2 /\ (at + 1) - 1 = at /\ at + 1 \in 0 .. Len(l)
      BY <1>2, <1>3
    <3>2. 1 \in 1 .. Len(r) + 1
      BY <1>3
    <3>3. IsRow(previous, l, r, at) /\ Len(previous) = Len(r) + 1
      BY <1>2 DEF TableIs
    <3> QED
      BY <1>2, <1>4, <2>2, <3>1, <3>2, <3>3 DEF TableIs
  <2>5. ComparisonIsSound(s)
    BY <2>3, <2>4 DEF ComparisonIsSound
  <2>6. comparison' = s
    BY <1>1, <1>6, <2>1 DEF EndRow
  <2> QED
    BY <2>5, <2>6 DEF ComparisonInv
<1> QED
  BY <1>5, <1>6

LEMMA ReturnDistanceIsSound ==
  ASSUME ComparisonInv, ReturnDistance
  PROVE  ComparisonInv'
<1>1. PICK l, r, at, previous :
        /\ l = comparison.left /\ r = comparison.right /\ at = comparison.row
        /\ previous = comparison.previous
  OBVIOUS
<1>2. /\ comparison \in Comparisons /\ comparison.result = Pending /\ ~ (at < Len(l))
      /\ TableIs(l, r, at, comparison.before, previous, comparison.current)
  BY <1>1 DEF ReturnDistance, Filling, ComparisonInv, ComparisonIsSound
<1>3. /\ l \in Seq(Letters) /\ r \in Seq(Letters) /\ at \in Nat
      /\ Len(l) \in Nat /\ Len(r) \in Nat
  BY <1>1, <1>2, LenProperties DEF Comparisons
<1>4. at = Len(l) /\ IsRow(previous, l, r, at) /\ Len(previous) = Len(r) + 1
  BY <1>2, <1>3 DEF TableIs
<1>5. PICK d : d = previous[Len(r) + 1]
  OBVIOUS
<1>6. CellIs(d, l, r, Len(l), Len(r))
  <2>1. Len(r) + 1 \in 1 .. Len(previous) /\ (Len(r) + 1) - 1 = Len(r)
    BY <1>3, <1>4
  <2> QED
    BY <1>4, <1>5, <2>1 DEF IsRow
<1>7. DistanceIs(d, l, r) /\ d \in Nat
  BY <1>3, <1>6, LastCellIsDistance DEF CellIs
<1>8. PICK s : s = [comparison EXCEPT !.result = d]
  OBVIOUS
<1>9. s \in Comparisons /\ s.left = l /\ s.right = r /\ s.result = d /\ d # Pending
  BY <1>1, <1>2, <1>7, <1>8, MatchingAssumption DEF Comparisons
<1>10. ComparisonIsSound(s)
  BY <1>7, <1>9 DEF ComparisonIsSound
<1>11. Last(previous) = d
  BY <1>4, <1>5 DEF Last
<1>12. comparison' = s
  BY <1>1, <1>8, <1>11 DEF ReturnDistance
<1> QED
  BY <1>10, <1>12 DEF ComparisonInv

LEMMA ComparisonSafety == MatchingSpec => []ComparisonInv
<1>1. MatchingInit => ComparisonInv
  <2> SUFFICES ASSUME MatchingInit PROVE ComparisonInv
    OBVIOUS
  <2>1. <<>> \in Seq(Letters) /\ <<>> \in Seq(Nat)
    BY EmptySeq
  <2>2. NoComparison \in Comparisons
    BY <2>1 DEF NoComparison, Comparisons
  <2>3. DistanceIs(0, <<>>, <<>>) /\ 0 # Pending
    BY MatchingAssumption DEF DistanceIs
  <2> QED
    BY <2>2, <2>3 DEF MatchingInit, NoComparison, ComparisonInv, ComparisonIsSound
<1>2. ComparisonInv /\ [MatchingNext]_matchingVars => ComparisonInv'
  <2> SUFFICES ASSUME ComparisonInv, [MatchingNext]_matchingVars
               PROVE  ComparisonInv'
    OBVIOUS
  <2>1. CASE UNCHANGED comparison
    BY <2>1 DEF ComparisonInv
  <2>2. Scoring => UNCHANGED comparison
    BY DEF Scoring, ScoreTarget, ScoreAlias
  <2>3. Comparing => ComparisonInv'
    BY CompareIsSound, FillCellIsSound, EndRowIsSound, ReturnDistanceIsSound DEF Comparing
  <2> QED
    BY <2>1, <2>2, <2>3 DEF MatchingNext, matchingVars
<1> QED
  BY <1>1, <1>2, PTL DEF MatchingSpec

\* For strings of any length over any letters, with both early exits, what a
\* comparison returns is zero for equal strings and one for strings that are
\* one edit apart, and only for them.
THEOREM DistanceIsRight == MatchingSpec => []DistanceIsExact
<1>1. ComparisonInv => DistanceIsExact
  BY DEF ComparisonInv, ComparisonIsSound, DistanceIs, DistanceIsExact
<1> QED
  BY <1>1, ComparisonSafety, PTL

-----------------------------------------------------------------------------
(* PublicPage.                                                             *)

IsFetch(r) ==
  \/ r = NoFetch
  \/ /\ r = [asked |-> r.asked, stage |-> r.stage, total |-> r.total, rows |-> r.rows]
     /\ r.stage \in {"asked", "counted", "answered"}

\* Whatever is in flight is what the controller would abort.
PageInv ==
  /\ controller \in Fetches
  /\ DOMAIN fetch = Fetches /\ fetch = [f \in Fetches |-> fetch[f]]
  /\ \A f \in Fetches : IsFetch(fetch[f])
  /\ \A f \in Fetches : InFlight(f) => f = controller /\ fetch[f].asked = address
  /\ address = Question(address.search, place.page, place.size)
  /\ place = [page |-> place.page, size |-> place.size, pages |-> place.pages]
  /\ Shows("loading") <=> InFlight(controller)
  /\ ~ Shows("loading") => panel.of = address

LEMMA PageInvIsEnough == PageInv => PublicShownIsAsked
<1> SUFFICES ASSUME PageInv PROVE PublicShownIsAsked
  OBVIOUS
<1>1. CASE Shows("loading")
  <2>1. /\ controller \in Fetches /\ fetch[controller].asked = address
        /\ {f \in Fetches : InFlight(f)} = {controller}
    BY <1>1 DEF PageInv
  <2> QED
    BY <1>1, <2>1 DEF PageInv, PublicShownIsAsked
<1>2. CASE ~ Shows("loading")
  <2>1. {f \in Fetches : InFlight(f)} = {} /\ panel.of = address
    BY <1>2 DEF PageInv
  <2> QED
    BY <1>2, <2>1 DEF PageInv, PublicShownIsAsked
<1> QED
  BY <1>1, <1>2

LEMMA RequestMovesOn ==
  ASSUME NEW asked, NEW stage, NEW total, NEW rows, NEW n, NEW r,
         r \in {[[asked |-> asked, stage |-> stage, total |-> total, rows |-> rows]
                  EXCEPT !.stage = "counted", !.total = n],
               [[asked |-> asked, stage |-> stage, total |-> total, rows |-> rows]
                  EXCEPT !.stage = "answered", !.rows = n]}
  PROVE  IsFetch(r) /\ r.asked = asked /\ r.stage # "none"
<1>1. \/ r = [asked |-> asked, stage |-> "counted", total |-> n, rows |-> rows]
      \/ r = [asked |-> asked, stage |-> "answered", total |-> total, rows |-> n]
  OBVIOUS
<1> QED
  BY <1>1 DEF IsFetch

\* A request that moves on, and a page that waits for it as before.
LEMMA FetchMoves ==
  ASSUME PageInv, NEW f \in Fetches, NEW r, InFlight(f),
         fetch' = [fetch EXCEPT ![f] = r],
         r.asked = fetch[f].asked, IsFetch(r), r.stage # "none",
         UNCHANGED <<place, address, panel, controller>>
  PROVE  PageInv'
<1>1. /\ DOMAIN fetch' = Fetches /\ fetch' = [g \in Fetches |-> fetch'[g]]
      /\ fetch'[f] = r
      /\ \A g \in Fetches : g # f => fetch'[g] = fetch[g]
  BY DEF PageInv
<1>2. \A g \in Fetches : IsFetch(fetch'[g])
  BY <1>1 DEF PageInv
<1>3. \A g \in Fetches : InFlight(g)' <=> InFlight(g)
  BY <1>1 DEF InFlight
<1>4. \A g \in Fetches : InFlight(g)' => fetch'[g].asked = fetch[g].asked
  BY <1>1
<1> QED
  BY <1>1, <1>2, <1>3, <1>4 DEF PageInv, Shows, IsFetch

\* A request that is over, and a page that shows what became of it.
LEMMA FetchEnds ==
  ASSUME PageInv, NEW f \in Fetches, NEW pages, NEW shows, InFlight(f),
         fetch' = [fetch EXCEPT ![f] = NoFetch],
         panel' = [shows |-> shows, of |-> fetch[f].asked], shows # "loading",
         place' = [place EXCEPT !.page = fetch[f].asked.page, !.pages = pages],
         UNCHANGED <<address, controller>>
  PROVE  PageInv'
<1>1. f = controller /\ fetch[f].asked = address /\ address.page = place.page
  BY DEF PageInv, Question
<1>2. /\ DOMAIN fetch' = Fetches /\ fetch' = [g \in Fetches |-> fetch'[g]]
      /\ fetch'[f] = NoFetch
      /\ \A g \in Fetches : g # f => fetch'[g] = fetch[g]
  BY DEF PageInv
<1>3. /\ \A g \in Fetches : IsFetch(fetch'[g])
      /\ \A g \in Fetches : ~ InFlight(g)'
  BY <1>1, <1>2 DEF PageInv, IsFetch, InFlight, NoFetch
<1>4. place' = [page |-> place.page, size |-> place.size, pages |-> pages]
  BY <1>1 DEF PageInv
<1> QED
  BY <1>1, <1>2, <1>3, <1>4 DEF PageInv, Shows

LEMMA LoadSignalsKeeps ==
  ASSUME PageInv, NEW f \in Fetches, NEW search, NEW page, NEW size,
         LoadSignals(f, search, page, size)
  PROVE  PageInv'
<1> DEFINE asked == Question(search, page, size)
<1>1. /\ fetch' = [Aborted EXCEPT ![f] = PublicRequest(asked)]
      /\ address' = asked /\ controller' = f
      /\ panel' = [shows |-> "loading", of |-> asked]
      /\ place' = [place EXCEPT !.page = page, !.size = size]
  BY DEF LoadSignals
<1>2. /\ DOMAIN Aborted = Fetches
      /\ \A g \in Fetches : Aborted[g] = NoFetch
  <2>1. \A g \in Fetches : g # controller => fetch[g] = NoFetch
    BY DEF PageInv, IsFetch, InFlight
  <2> QED
    BY <2>1 DEF PageInv, Aborted
<1>3. /\ DOMAIN fetch' = Fetches /\ fetch' = [g \in Fetches |-> fetch'[g]]
      /\ fetch'[f] = PublicRequest(asked)
      /\ \A g \in Fetches : g # f => fetch'[g] = NoFetch
  BY <1>1, <1>2
<1>4. /\ IsFetch(PublicRequest(asked)) /\ PublicRequest(asked).asked = asked
      /\ PublicRequest(asked).stage = "asked"
  BY DEF IsFetch, PublicRequest
<1>5. /\ \A g \in Fetches : IsFetch(fetch'[g])
      /\ \A g \in Fetches : InFlight(g)' <=> g = f
  BY <1>3, <1>4 DEF IsFetch, InFlight, NoFetch
<1>6. place' = [page |-> page, size |-> size, pages |-> place.pages]
  BY <1>1 DEF PageInv
<1>7. asked = [search |-> search, page |-> page, size |-> size]
  BY DEF Question
<1> QED
  BY <1>1, <1>3, <1>4, <1>5, <1>6, <1>7 DEF PageInv, Shows, Question

LEMMA PageSafety == PageSpec => []PageInv
<1>1. PageInit => PageInv
  <2> SUFFICES ASSUME NEW search, NEW page, NEW size, NEW f \in Fetches,
                      LET asked == Question(search, page, size) IN
                      /\ form = search /\ address = asked
                      /\ place = [page |-> page, size |-> size, pages |-> 1]
                      /\ panel = [shows |-> "loading", of |-> asked]
                      /\ controller = f
                      /\ fetch = [g \in Fetches |->
                                   IF g = f THEN PublicRequest(asked) ELSE NoFetch]
               PROVE  PageInv
    BY DEF PageInit
  <2> DEFINE asked == Question(search, page, size)
  <2>1. /\ DOMAIN fetch = Fetches /\ fetch = [g \in Fetches |-> fetch[g]]
        /\ fetch[f] = PublicRequest(asked)
        /\ \A g \in Fetches : g # f => fetch[g] = NoFetch
    OBVIOUS
  <2>2. /\ IsFetch(PublicRequest(asked)) /\ PublicRequest(asked).asked = asked
        /\ PublicRequest(asked).stage = "asked"
    BY DEF IsFetch, PublicRequest
  <2>3. /\ \A g \in Fetches : IsFetch(fetch[g])
        /\ \A g \in Fetches : InFlight(g) <=> g = f
    BY <2>1, <2>2 DEF IsFetch, InFlight, NoFetch
  <2>4. asked = [search |-> search, page |-> page, size |-> size]
    BY DEF Question
  <2> QED
    BY <2>1, <2>2, <2>3, <2>4 DEF PageInv, Shows, Question
<1>2. PageInv /\ [PageNext]_pageVars => PageInv'
  <2> SUFFICES ASSUME PageInv, [PageNext]_pageVars
               PROVE  PageInv'
    OBVIOUS
  <2>1. ASSUME NEW f \in Fetches, CountSignals(f)
        PROVE  PageInv'
    <3> DEFINE r == [fetch[f] EXCEPT !.stage = "counted",
                                     !.total = matching[fetch[f].asked.search]]
    <3>1. InFlight(f) /\ IsFetch(fetch[f]) /\ fetch[f] # NoFetch
      BY <2>1 DEF PageInv, CountSignals, InFlight, NoFetch
    <3>2. PICK asked, stage, total, rows :
            fetch[f] = [asked |-> asked, stage |-> stage, total |-> total, rows |-> rows]
      BY <3>1 DEF IsFetch
    <3>3. fetch' = [fetch EXCEPT ![f] = r]
      BY <2>1 DEF CountSignals, PageInv
    <3>4. IsFetch(r) /\ r.asked = fetch[f].asked /\ r.stage # "none"
      BY <3>2, RequestMovesOn
    <3> HIDE DEF r
    <3> QED
      BY <2>1, <3>1, <3>3, <3>4, FetchMoves DEF CountSignals
  <2>2. ASSUME NEW f \in Fetches, ReadSignals(f)
        PROVE  PageInv'
    <3>1. PICK n : fetch' = [fetch EXCEPT ![f].stage = "answered", ![f].rows = n]
      BY <2>2 DEF ReadSignals
    <3> DEFINE r == [fetch[f] EXCEPT !.stage = "answered", !.rows = n]
    <3>2. InFlight(f) /\ IsFetch(fetch[f]) /\ fetch[f] # NoFetch
      BY <2>2 DEF PageInv, ReadSignals, InFlight, NoFetch
    <3>3. PICK asked, stage, total, rows :
            fetch[f] = [asked |-> asked, stage |-> stage, total |-> total, rows |-> rows]
      BY <3>2 DEF IsFetch
    <3>4. fetch' = [fetch EXCEPT ![f] = r]
      BY <3>1 DEF PageInv
    <3>5. IsFetch(r) /\ r.asked = fetch[f].asked /\ r.stage # "none"
      BY <3>3, RequestMovesOn
    <3> HIDE DEF r
    <3> QED
      BY <2>2, <3>2, <3>4, <3>5, FetchMoves DEF ReadSignals
  <2>3. ASSUME NEW f \in Fetches, SignalsAnswered(f)
        PROVE  PageInv'
    <3>1. InFlight(f)
      BY <2>3 DEF SignalsAnswered, InFlight
    <3>2. PICK pages : place' = [place EXCEPT !.page = fetch[f].asked.page, !.pages = pages]
      BY <2>3 DEF SignalsAnswered
    <3>3. PICK shows \in {"nothing", "rows"} : panel' = [shows |-> shows, of |-> fetch[f].asked]
      BY <2>3 DEF SignalsAnswered
    <3> QED
      BY <2>3, <3>1, <3>2, <3>3, FetchEnds DEF SignalsAnswered
  <2>4. ASSUME NEW f \in Fetches, SignalsFailed(f)
        PROVE  PageInv'
    <3>1. fetch[f].asked = address /\ address.page = place.page
      BY <2>4 DEF PageInv, SignalsFailed, Question
    <3>2. place' = [place EXCEPT !.page = fetch[f].asked.page, !.pages = place.pages]
      BY <2>4, <3>1 DEF SignalsFailed, PageInv
    <3> QED
      BY <2>4, <3>2, FetchEnds DEF SignalsFailed
  <2>5. ASSUME NEW f \in Fetches, Handler(f)
        PROVE  PageInv'
    BY <2>5, LoadSignalsKeeps
    DEF Handler, SubmitFilters, ResetTimer, ChangePageSize, PreviousPage, FollowingPage,
        TryAgain, PopState
  <2>6. CASE UNCHANGED <<place, address, panel, controller, fetch>>
    BY <2>6 DEF PageInv, Shows, InFlight, IsFetch
  <2> QED
    BY <2>1, <2>2, <2>3, <2>4, <2>5, <2>6
    DEF PageNext, pageVars, EditForm, SignalsChange, ResetFilters
<1> QED
  BY <1>1, <1>2, PTL DEF PageSpec

\* For any number of requests, whose answers arrive or fail in any order, and
\* any filters, pages and signals: the page shows, or waits for, the answer to
\* the question in its address.
THEOREM ShownIsAsked == PageSpec => []PublicShownIsAsked
BY PageSafety, PageInvIsEnough, PTL

-----------------------------------------------------------------------------
(* CandidateEvidence: what a row and a sequence of evidence say.           *)

CandidateRows ==
  [status : {"potential", "closed"}, confidence : Scores, reasons : SUBSET Scores,
   sources : SUBSET Sources, first : Nat, last : Nat]

Entries == [kind : {"sighting"}, source : Sources, time : Nat, score : Scores]
             \cup [kind : {"restore"}, score : Scores]

\* The properties' operators, for any sequence of evidence.
SightingsIn(ev) == {i \in DOMAIN ev : ev[i].kind = "sighting"}
RestoresIn(ev)  == {i \in DOMAIN ev : ev[i].kind = "restore"}
TimesIn(ev)     == {ev[i].time : i \in SightingsIn(ev)}
SeenIn(ev)      == {ev[i].source : i \in SightingsIn(ev)}
LatestIn(ev)    == {j \in DOMAIN ev : \A k \in RestoresIn(ev) : k <= j}
JudgedIn(ev)    == {ev[i].score : i \in LatestIn(ev)}
GivenIn(ev)     == {ev[i].score : i \in DOMAIN ev}

IsLeast(m, S)    == m \in S /\ \A n \in S : m <= n
IsGreatest(m, S) == m \in S /\ \A n \in S : n <= m

\* All that the row says is evidence.
BackedBy(r, ev) ==
  /\ r \in CandidateRows
  /\ r.sources # {} /\ r.sources \subseteq SeenIn(ev)
  /\ r.first \in TimesIn(ev) /\ r.last \in TimesIn(ev) /\ r.first <= r.last
  /\ r.reasons # {} /\ r.reasons \subseteq GivenIn(ev) /\ r.confidence \in GivenIn(ev)

\* It says all of it.
DerivedFrom(r, ev) ==
  /\ r.sources = SeenIn(ev)
  /\ IsLeast(r.first, TimesIn(ev)) /\ IsGreatest(r.last, TimesIn(ev))
  /\ r.reasons = JudgedIn(ev) /\ IsGreatest(r.confidence, JudgedIn(ev))

\* What holds of a row, its evidence and the two histories.
RowIsSound(r, ev, over, status) ==
  /\ (r = NoRow) <=> (ev = <<>>)
  /\ r = NoRow => status = "potential"
  /\ r # NoRow => BackedBy(r, ev) /\ r.status = status
  /\ r # NoRow /\ ~ over => DerivedFrom(r, ev)

LEMMA ScoresAreNumbers == Scores \subseteq Nat
BY EvidenceAssumption DEF Scores

LEMMA PairMinMax ==
  ASSUME NEW a \in Nat, NEW b \in Nat
  PROVE  Min({a, b}) = (IF a <= b THEN a ELSE b) /\ Max({a, b}) = (IF a <= b THEN b ELSE a)
<1>1. Min({a, b}) = IF a <= b THEN a ELSE b
  <2>1. PICK m : m = IF a <= b THEN a ELSE b
    OBVIOUS
  <2>2. /\ m \in {a, b} /\ \A y \in {a, b} : m <= y
        /\ \A x \in {a, b} : (\A y \in {a, b} : x <= y) => x = m
    BY <2>1
  <2> QED
    BY <2>1, <2>2 DEF Min
<1>2. Max({a, b}) = IF a <= b THEN b ELSE a
  <2>1. PICK m : m = IF a <= b THEN b ELSE a
    OBVIOUS
  <2>2. /\ m \in {a, b} /\ \A y \in {a, b} : m >= y
        /\ \A x \in {a, b} : (\A y \in {a, b} : x >= y) => x = m
    BY <2>1
  <2> QED
    BY <2>1, <2>2 DEF Max
<1> QED
  BY <1>1, <1>2

LEMMA LeastIsMin ==
  ASSUME NEW S \in SUBSET Nat, NEW m
  PROVE  (IsLeast(m, S) => m = Min(S)) /\ (IsGreatest(m, S) => m = Max(S))
<1>1. ASSUME IsLeast(m, S) PROVE m = Min(S)
  <2>1. \A x \in S : (\A y \in S : x <= y) => x = m
    BY <1>1 DEF IsLeast
  <2> QED
    BY <1>1, <2>1 DEF IsLeast, Min
<1>2. ASSUME IsGreatest(m, S) PROVE m = Max(S)
  <2>1. \A x \in S : (\A y \in S : x >= y) => x = m
    BY <1>2 DEF IsGreatest
  <2> QED
    BY <1>2, <2>1 DEF IsGreatest, Max
<1> QED
  BY <1>1, <1>2

LEMMA EntryFields ==
  ASSUME NEW e \in Entries
  PROVE  /\ e.score \in Scores /\ e.kind \in {"sighting", "restore"}
         /\ e.kind = "sighting" => e.time \in Nat /\ e.source \in Sources
BY DEF Entries

LEMMA EvidenceSets ==
  ASSUME NEW ev \in Seq(Entries)
  PROVE  TimesIn(ev) \subseteq Nat /\ JudgedIn(ev) \subseteq Nat /\ GivenIn(ev) \subseteq Scores
<1>1. \A i \in DOMAIN ev : ev[i] \in Entries
  BY ElementOfSeq, LenProperties
<1> QED
  BY <1>1, EntryFields, ScoresAreNumbers
  DEF TimesIn, JudgedIn, GivenIn, SightingsIn, LatestIn

LEMMA NoEvidence ==
  /\ <<>> \in Seq(Entries)
  /\ TimesIn(<<>>) = {} /\ SeenIn(<<>>) = {} /\ JudgedIn(<<>>) = {} /\ GivenIn(<<>>) = {}
<1>1. <<>> \in Seq(Entries) /\ DOMAIN <<>> = {}
  BY EmptySeq
<1> QED
  BY <1>1 DEF TimesIn, SeenIn, JudgedIn, GivenIn, SightingsIn, LatestIn

\* What one more entry adds.
LEMMA OneMoreEntry ==
  ASSUME NEW ev \in Seq(Entries), NEW e \in Entries
  PROVE  /\ Append(ev, e) \in Seq(Entries) /\ Append(ev, e) # <<>>
         /\ GivenIn(Append(ev, e)) = GivenIn(ev) \cup {e.score}
         /\ e.kind = "sighting" =>
              /\ TimesIn(Append(ev, e)) = TimesIn(ev) \cup {e.time}
              /\ SeenIn(Append(ev, e)) = SeenIn(ev) \cup {e.source}
              /\ JudgedIn(Append(ev, e)) = JudgedIn(ev) \cup {e.score}
         /\ e.kind = "restore" =>
              /\ TimesIn(Append(ev, e)) = TimesIn(ev)
              /\ SeenIn(Append(ev, e)) = SeenIn(ev)
              /\ JudgedIn(Append(ev, e)) = {e.score}
<1>1. PICK n \in Nat : n = Len(ev)
  BY LenProperties
<1>2. PICK new : new = Append(ev, e)
  OBVIOUS
<1>3. /\ new \in Seq(Entries) /\ Len(new) = n + 1
      /\ \A i \in 1 .. n : new[i] = ev[i]
      /\ new[n + 1] = e
  BY <1>1, <1>2, AppendProperties
<1>4. DOMAIN ev = 1 .. n /\ DOMAIN new = 1 .. n + 1 /\ 1 .. n + 1 = 1 .. n \cup {n + 1}
  BY <1>1, <1>3, LenProperties
<1>5. new # <<>>
  BY <1>1, <1>3, EmptySeq
<1>6. GivenIn(new) = GivenIn(ev) \cup {e.score}
  BY <1>3, <1>4 DEF GivenIn
<1>7. ASSUME e.kind = "sighting"
      PROVE  /\ TimesIn(new) = TimesIn(ev) \cup {e.time}
             /\ SeenIn(new) = SeenIn(ev) \cup {e.source}
             /\ JudgedIn(new) = JudgedIn(ev) \cup {e.score}
  <2>1. SightingsIn(new) = SightingsIn(ev) \cup {n + 1}
    BY <1>3, <1>4, <1>7 DEF SightingsIn
  <2>2. \A i \in SightingsIn(ev) : new[i] = ev[i]
    BY <1>3, <1>4 DEF SightingsIn
  <2>3. RestoresIn(new) = RestoresIn(ev) /\ RestoresIn(ev) \subseteq 1 .. n
    BY <1>3, <1>4, <1>7 DEF RestoresIn
  <2>4. LatestIn(new) = LatestIn(ev) \cup {n + 1} /\ LatestIn(ev) \subseteq 1 .. n
    BY <1>1, <1>4, <2>3 DEF LatestIn
  <2>5. TimesIn(new) = TimesIn(ev) \cup {e.time} /\ SeenIn(new) = SeenIn(ev) \cup {e.source}
    BY <1>3, <2>1, <2>2 DEF TimesIn, SeenIn
  <2>6. JudgedIn(new) = JudgedIn(ev) \cup {e.score}
    BY <1>3, <2>4 DEF JudgedIn
  <2> QED
    BY <2>5, <2>6
<1>8. ASSUME e.kind = "restore"
      PROVE  /\ TimesIn(new) = TimesIn(ev) /\ SeenIn(new) = SeenIn(ev)
             /\ JudgedIn(new) = {e.score}
  <2>1. SightingsIn(new) = SightingsIn(ev)
    BY <1>3, <1>4, <1>8 DEF SightingsIn
  <2>2. \A i \in SightingsIn(ev) : new[i] = ev[i]
    BY <1>3, <1>4 DEF SightingsIn
  <2>3. n + 1 \in RestoresIn(new) /\ RestoresIn(new) \subseteq 1 .. n + 1
    BY <1>3, <1>4, <1>8 DEF RestoresIn
  <2>4. LatestIn(new) = {n + 1}
    BY <1>1, <1>4, <2>3 DEF LatestIn
  <2>5. TimesIn(new) = TimesIn(ev) /\ SeenIn(new) = SeenIn(ev)
    BY <2>1, <2>2 DEF TimesIn, SeenIn
  <2> QED
    BY <1>3, <2>4, <2>5 DEF JudgedIn
<1> QED
  BY <1>2, <1>3, <1>5, <1>6, <1>7, <1>8

\* Evidence is only added.
Grows(ev, more) ==
  /\ GivenIn(ev) \subseteq GivenIn(more)
  /\ TimesIn(ev) \subseteq TimesIn(more)
  /\ SeenIn(ev) \subseteq SeenIn(more)

LEMMA AppendGrows ==
  ASSUME NEW ev \in Seq(Entries), NEW e \in Entries
  PROVE  Grows(ev, Append(ev, e))
BY OneMoreEntry, EntryFields DEF Grows

LEMMA ConcatGrows ==
  ASSUME NEW ev \in Seq(Entries), NEW more \in Seq(Entries)
  PROVE  Grows(ev, ev \o more)
<1>1. PICK both : both = ev \o more
  OBVIOUS
<1>2. DOMAIN ev \subseteq DOMAIN both /\ \A i \in DOMAIN ev : both[i] = ev[i]
  BY <1>1, ConcatProperties, LenProperties
<1>3. Grows(ev, both)
  BY <1>2 DEF Grows, GivenIn, TimesIn, SeenIn, SightingsIn
<1> QED
  BY <1>1, <1>3

LEMMA BackedStays ==
  ASSUME NEW ev, NEW more, NEW r, Grows(ev, more), BackedBy(r, ev)
  PROVE  BackedBy(r, more)
BY DEF BackedBy, Grows

-----------------------------------------------------------------------------
(* CandidateEvidence: what each write leaves.                              *)

LEMMA NoRowIsNoCandidate == NoRow \notin CandidateRows
BY DEF NoRow, CandidateRows

\* The unit of work, column by column.
WrittenBy(r, current, loaded, changed) ==
  /\ r \in CandidateRows
  /\ r.status = IF changed.status = loaded.status THEN current.status ELSE changed.status
  /\ r.confidence = IF changed.confidence = loaded.confidence
                      THEN current.confidence ELSE changed.confidence
  /\ r.reasons = IF changed.reasons = loaded.reasons THEN current.reasons ELSE changed.reasons
  /\ r.sources = IF changed.sources = loaded.sources THEN current.sources ELSE changed.sources
  /\ r.first = IF changed.first = loaded.first THEN current.first ELSE changed.first
  /\ r.last = IF changed.last = loaded.last THEN current.last ELSE changed.last

\* A merge, column by column.
MergedFrom(r, current, loaded, p, t, score) ==
  /\ r \in CandidateRows
  /\ r.status = current.status
  /\ r.confidence = IF score <= loaded.confidence THEN current.confidence ELSE score
  /\ r.reasons = IF score \in loaded.reasons THEN current.reasons
                 ELSE loaded.reasons \cup {score}
  /\ r.sources = IF p \in loaded.sources THEN current.sources ELSE loaded.sources \cup {p}
  /\ r.first = IF loaded.first <= t THEN loaded.first ELSE t
  /\ r.last = IF loaded.last <= t THEN t ELSE loaded.last

LEMMA FlushedColumns ==
  ASSUME NEW current \in CandidateRows, NEW loaded \in CandidateRows, NEW changed \in CandidateRows
  PROVE  WrittenBy(Flushed(current, loaded, changed), current, loaded, changed)
<1> DEFINE r == Flushed(current, loaded, changed)
           Column(c) == IF changed[c] = loaded[c] THEN current[c] ELSE changed[c]
<1>1. DOMAIN changed = {"status", "confidence", "reasons", "sources", "first", "last"}
  BY DEF CandidateRows
<1>2. r = [c \in {"status", "confidence", "reasons", "sources", "first", "last"} |-> Column(c)]
  BY <1>1 DEF Flushed
<1>3. /\ r.status = Column("status") /\ r.confidence = Column("confidence")
      /\ r.reasons = Column("reasons") /\ r.sources = Column("sources")
      /\ r.first = Column("first") /\ r.last = Column("last")
  BY <1>2
<1>4. r = [status |-> r.status, confidence |-> r.confidence, reasons |-> r.reasons,
           sources |-> r.sources, first |-> r.first, last |-> r.last]
  BY <1>2
<1>5. /\ Column("status") \in {"potential", "closed"} /\ Column("confidence") \in Scores
      /\ Column("reasons") \in SUBSET Scores /\ Column("sources") \in SUBSET Sources
      /\ Column("first") \in Nat /\ Column("last") \in Nat
  BY DEF CandidateRows
<1>6. r \in CandidateRows
  <2> HIDE DEF r, Column
  <2> QED
    BY <1>3, <1>4, <1>5 DEF CandidateRows
<1> QED
  BY <1>3, <1>6 DEF WrittenBy

LEMMA MergedColumns ==
  ASSUME NEW current \in CandidateRows, NEW loaded \in CandidateRows,
         NEW p \in Sources, NEW t \in Nat, NEW score \in Scores
  PROVE  MergedFrom(Ingested(current, loaded, p, t, score), current, loaded, p, t, score)
<1>1. loaded # NoRow
  BY NoRowIsNoCandidate
<1>2. /\ loaded.first \in Nat /\ loaded.last \in Nat
      /\ loaded.confidence \in Nat /\ loaded.confidence \in Scores /\ score \in Nat
      /\ loaded.reasons \in SUBSET Scores /\ loaded.sources \in SUBSET Sources
  BY ScoresAreNumbers DEF CandidateRows
<1>3. PICK first \in Nat : /\ first = Min({loaded.first, t})
                           /\ first = IF loaded.first <= t THEN loaded.first ELSE t
  BY <1>2, PairMinMax
<1>4. PICK last \in Nat : /\ last = Max({loaded.last, t})
                          /\ last = IF loaded.last <= t THEN t ELSE loaded.last
  BY <1>2, PairMinMax
<1>5. PICK confidence \in Scores :
        /\ confidence = Max({loaded.confidence, score})
        /\ confidence = IF loaded.confidence <= score THEN score ELSE loaded.confidence
  BY <1>2, PairMinMax
<1>6. PICK reasons \in SUBSET Scores : reasons = loaded.reasons \cup {score}
  BY <1>2
<1>7. PICK sources \in SUBSET Sources : sources = loaded.sources \cup {p}
  BY <1>2
<1>8. PICK merged : merged = [loaded EXCEPT !.first = first, !.last = last,
                                !.confidence = confidence, !.reasons = reasons, !.sources = sources]
  OBVIOUS
<1>9. merged = MergeCandidate(loaded, p, t, score)
  BY <1>3, <1>4, <1>5, <1>6, <1>7, <1>8 DEF MergeCandidate
<1>10. /\ merged \in CandidateRows
       /\ merged.first = first /\ merged.last = last /\ merged.confidence = confidence
       /\ merged.reasons = reasons /\ merged.sources = sources /\ merged.status = loaded.status
  BY <1>8 DEF CandidateRows
<1>11. PICK flushed : flushed = Flushed(current, loaded, merged)
  OBVIOUS
<1>12. WrittenBy(flushed, current, loaded, merged)
  BY <1>10, <1>11, FlushedColumns
<1>13. PICK r : r = [flushed EXCEPT !.first = first, !.last = last]
  OBVIOUS
<1>14. r = Ingested(current, loaded, p, t, score)
  BY <1>1, <1>9, <1>10, <1>11, <1>13 DEF Ingested
<1>15. /\ r \in CandidateRows /\ r.status = flushed.status /\ r.confidence = flushed.confidence
       /\ r.reasons = flushed.reasons /\ r.sources = flushed.sources
       /\ r.first = first /\ r.last = last
  BY <1>12, <1>13 DEF WrittenBy, CandidateRows
<1>16. r.confidence = IF score <= loaded.confidence THEN current.confidence ELSE score
  BY <1>2, <1>5, <1>10, <1>12, <1>15 DEF WrittenBy
<1>17. r.reasons = IF score \in loaded.reasons THEN current.reasons ELSE loaded.reasons \cup {score}
  BY <1>6, <1>10, <1>12, <1>15 DEF WrittenBy
<1>18. r.sources = IF p \in loaded.sources THEN current.sources ELSE loaded.sources \cup {p}
  BY <1>7, <1>10, <1>12, <1>15 DEF WrittenBy
<1>19. r.status = current.status
  BY <1>10, <1>12, <1>15 DEF WrittenBy
<1> QED
  BY <1>3, <1>4, <1>14, <1>15, <1>16, <1>17, <1>18, <1>19 DEF MergedFrom

\* A writer whose row is current loaded what the row says.
LEMMA CurrentColumns ==
  ASSUME NEW current \in CandidateRows, NEW loaded \in CandidateRows, Current(current, loaded)
  PROVE  /\ loaded.confidence = current.confidence /\ loaded.reasons = current.reasons
         /\ loaded.sources = current.sources
         /\ loaded.first = current.first /\ loaded.last = current.last
BY DEF Current, CandidateRows

LEMMA IngestLeavesSound ==
  ASSUME NEW ev \in Seq(Entries), NEW current, NEW loaded, NEW over \in BOOLEAN, NEW status,
         RowIsSound(current, ev, over, status), ~ Collides(current, loaded),
         loaded # NoRow => current # NoRow /\ BackedBy(loaded, ev),
         NEW p \in Sources, NEW t \in Nat, NEW score \in Scores
  PROVE  RowIsSound(Ingested(current, loaded, p, t, score),
                    Append(ev, Observation(p, t, score)),
                    over \/ ~ Current(current, loaded), status)
<1> DEFINE e    == Observation(p, t, score)
           more == Append(ev, e)
<1>1. /\ e \in Entries /\ e.kind = "sighting" /\ e.time = t /\ e.source = p /\ e.score = score
  BY DEF Observation, Entries
<1>2. /\ more \in Seq(Entries) /\ more # <<>>
      /\ GivenIn(more) = GivenIn(ev) \cup {score} /\ TimesIn(more) = TimesIn(ev) \cup {t}
      /\ SeenIn(more) = SeenIn(ev) \cup {p} /\ JudgedIn(more) = JudgedIn(ev) \cup {score}
  BY <1>1, OneMoreEntry
<1>3. TimesIn(ev) \subseteq Nat /\ JudgedIn(ev) \subseteq Nat /\ score \in Nat
  BY EvidenceSets, ScoresAreNumbers
<1> HIDE DEF e, more
<1>4. CASE loaded = NoRow
  <2>1. current = NoRow /\ ev = <<>> /\ status = "potential"
    BY <1>4 DEF Collides, RowIsSound
  <2>2. PICK r : r = Ingested(current, loaded, p, t, score)
    OBVIOUS
  <2>3. /\ r \in CandidateRows /\ r.status = "potential" /\ r.confidence = score
        /\ r.reasons = {score} /\ r.sources = {p} /\ r.first = t /\ r.last = t
    BY <1>4, <2>2 DEF Ingested, NewCandidate, CandidateRows
  <2>4. /\ GivenIn(more) = {score} /\ TimesIn(more) = {t}
        /\ SeenIn(more) = {p} /\ JudgedIn(more) = {score}
    BY <1>2, <2>1, NoEvidence
  <2>5. r # NoRow
    BY <2>3, NoRowIsNoCandidate
  <2>6. BackedBy(r, more) /\ DerivedFrom(r, more)
    BY <1>3, <2>3, <2>4 DEF BackedBy, DerivedFrom, IsLeast, IsGreatest
  <2> QED
    BY <1>2, <2>1, <2>2, <2>3, <2>5, <2>6 DEF RowIsSound, e, more
<1>5. CASE loaded # NoRow
  <2>1. /\ current # NoRow /\ BackedBy(loaded, ev) /\ BackedBy(current, ev)
        /\ current.status = status
        /\ current \in CandidateRows /\ loaded \in CandidateRows
    BY <1>5 DEF RowIsSound, BackedBy
  <2>2. PICK r : r = Ingested(current, loaded, p, t, score)
    OBVIOUS
  <2>3. MergedFrom(r, current, loaded, p, t, score)
    BY <2>1, <2>2, MergedColumns
  <2>4. r # NoRow
    BY <2>3, NoRowIsNoCandidate DEF MergedFrom
  <2>5. BackedBy(r, more)
    <3>1. /\ loaded.first \in TimesIn(ev) /\ loaded.last \in TimesIn(ev)
          /\ loaded.first \in Nat /\ loaded.last \in Nat /\ loaded.first <= loaded.last
      BY <1>3, <2>1 DEF BackedBy
    <3>2. r.first \in TimesIn(more) /\ r.last \in TimesIn(more) /\ r.first <= r.last
      BY <1>2, <2>3, <3>1 DEF MergedFrom
    <3>3. r.sources # {} /\ r.sources \subseteq SeenIn(more)
      BY <1>2, <2>1, <2>3 DEF BackedBy, MergedFrom
    <3>4. r.reasons # {} /\ r.reasons \subseteq GivenIn(more) /\ r.confidence \in GivenIn(more)
      BY <1>2, <2>1, <2>3 DEF BackedBy, MergedFrom
    <3> QED
      BY <2>3, <3>2, <3>3, <3>4 DEF BackedBy, MergedFrom
  <2>6. ASSUME ~ over, Current(current, loaded)
        PROVE  DerivedFrom(r, more)
    <3>1. /\ loaded.confidence = current.confidence /\ loaded.reasons = current.reasons
          /\ loaded.sources = current.sources
          /\ loaded.first = current.first /\ loaded.last = current.last
      BY <2>1, <2>6, CurrentColumns
    <3>2. DerivedFrom(current, ev)
      BY <2>1, <2>6 DEF RowIsSound
    <3>3. r.sources = SeenIn(more)
      BY <1>2, <2>3, <3>1, <3>2 DEF MergedFrom, DerivedFrom
    <3>4. r.reasons = JudgedIn(more)
      BY <1>2, <2>3, <3>1, <3>2 DEF MergedFrom, DerivedFrom
    <3>5. IsGreatest(r.confidence, JudgedIn(more))
      BY <1>2, <1>3, <2>3, <3>1, <3>2 DEF MergedFrom, DerivedFrom, IsGreatest
    <3>6. IsLeast(r.first, TimesIn(more)) /\ IsGreatest(r.last, TimesIn(more))
      BY <1>2, <1>3, <2>3, <3>1, <3>2 DEF MergedFrom, DerivedFrom, IsLeast, IsGreatest
    <3> QED
      BY <3>3, <3>4, <3>5, <3>6 DEF DerivedFrom
  <2> QED
    BY <1>2, <2>1, <2>2, <2>3, <2>4, <2>5, <2>6 DEF RowIsSound, MergedFrom, e, more
<1> QED
  BY <1>4, <1>5

LEMMA DisposeLeavesSound ==
  ASSUME NEW ev \in Seq(Entries), NEW current, NEW loaded \in CandidateRows,
         NEW over \in BOOLEAN, NEW status,
         RowIsSound(current, ev, over, status), current # NoRow, loaded.status = "potential"
  PROVE  RowIsSound(Flushed(current, loaded, [loaded EXCEPT !.status = "closed"]),
                    ev, over, "closed")
<1>1. PICK changed : changed = [loaded EXCEPT !.status = "closed"]
  OBVIOUS
<1>2. /\ changed \in CandidateRows /\ changed.status = "closed"
      /\ changed.confidence = loaded.confidence /\ changed.reasons = loaded.reasons
      /\ changed.sources = loaded.sources
      /\ changed.first = loaded.first /\ changed.last = loaded.last
  BY <1>1 DEF CandidateRows
<1>3. current \in CandidateRows /\ BackedBy(current, ev) /\ ev # <<>>
  BY DEF RowIsSound, BackedBy
<1>4. PICK r : r = Flushed(current, loaded, changed)
  OBVIOUS
<1>5. /\ r \in CandidateRows /\ r.status = "closed"
      /\ r.confidence = current.confidence /\ r.reasons = current.reasons
      /\ r.sources = current.sources /\ r.first = current.first /\ r.last = current.last
  BY <1>2, <1>3, <1>4, FlushedColumns DEF WrittenBy
<1>6. r # NoRow
  BY <1>5, NoRowIsNoCandidate
<1>7. BackedBy(r, ev)
  BY <1>3, <1>5 DEF BackedBy
<1>8. ~ over => DerivedFrom(r, ev)
  BY <1>5 DEF RowIsSound, DerivedFrom
<1> QED
  BY <1>1, <1>3, <1>4, <1>5, <1>6, <1>7, <1>8 DEF RowIsSound

LEMMA RestoreLeavesSound ==
  ASSUME NEW ev \in Seq(Entries), NEW current, NEW loaded \in CandidateRows,
         NEW over \in BOOLEAN, NEW status, NEW score \in Scores,
         RowIsSound(current, ev, over, status), current # NoRow, loaded.status = "closed"
  PROVE  RowIsSound(Flushed(current, loaded,
                      [loaded EXCEPT !.status = "potential", !.confidence = score,
                                     !.reasons = {score}]),
                    Append(ev, [kind |-> "restore", score |-> score]),
                    over \/ ~ Current(current, loaded), "potential")
<1>1. PICK changed : changed = [loaded EXCEPT !.status = "potential", !.confidence = score,
                                              !.reasons = {score}]
  OBVIOUS
<1>2. /\ changed \in CandidateRows /\ changed.status = "potential"
      /\ changed.confidence = score /\ changed.reasons = {score}
      /\ changed.sources = loaded.sources
      /\ changed.first = loaded.first /\ changed.last = loaded.last
  BY <1>1 DEF CandidateRows
<1>3. current \in CandidateRows /\ BackedBy(current, ev)
  BY DEF RowIsSound, BackedBy
<1>4. PICK r : r = Flushed(current, loaded, changed)
  OBVIOUS
<1>5. /\ r \in CandidateRows /\ r.status = "potential"
      /\ r.confidence = IF score = loaded.confidence THEN current.confidence ELSE score
      /\ r.reasons = IF {score} = loaded.reasons THEN current.reasons ELSE {score}
      /\ r.sources = current.sources /\ r.first = current.first /\ r.last = current.last
  <2>1. WrittenBy(r, current, loaded, changed)
    BY <1>2, <1>3, <1>4, FlushedColumns
  <2>2. r \in CandidateRows /\ r.status = "potential"
    BY <1>2, <2>1 DEF WrittenBy
  <2>3. r.confidence = IF score = loaded.confidence THEN current.confidence ELSE score
    BY <1>2, <2>1 DEF WrittenBy
  <2>4. r.reasons = IF {score} = loaded.reasons THEN current.reasons ELSE {score}
    BY <1>2, <2>1 DEF WrittenBy
  <2>5. r.sources = current.sources /\ r.first = current.first /\ r.last = current.last
    BY <1>2, <2>1 DEF WrittenBy
  <2> QED
    BY <2>2, <2>3, <2>4, <2>5
<1>6. PICK e : e = [kind |-> "restore", score |-> score]
  OBVIOUS
<1>7. e \in Entries /\ e.kind = "restore" /\ e.score = score
  BY <1>6 DEF Entries
<1>8. PICK more : more = Append(ev, e)
  OBVIOUS
<1>9. /\ more # <<>> /\ GivenIn(more) = GivenIn(ev) \cup {score}
      /\ TimesIn(more) = TimesIn(ev) /\ SeenIn(more) = SeenIn(ev)
      /\ JudgedIn(more) = {score}
  BY <1>7, <1>8, OneMoreEntry
<1>10. r # NoRow
  BY <1>5, NoRowIsNoCandidate
<1>11. BackedBy(r, more)
  BY <1>3, <1>5, <1>9 DEF BackedBy
<1>12. ASSUME ~ over, Current(current, loaded)
       PROVE  DerivedFrom(r, more)
  <2>1. loaded.confidence = current.confidence /\ loaded.reasons = current.reasons
    BY <1>3, <1>12, CurrentColumns
  <2>2. r.confidence = score /\ r.reasons = {score} /\ score \in Nat
    BY <1>5, <2>1, ScoresAreNumbers
  <2>3. DerivedFrom(current, ev)
    BY <1>12 DEF RowIsSound
  <2> QED
    BY <1>5, <1>9, <2>2, <2>3 DEF DerivedFrom, IsGreatest
<1> QED
  BY <1>1, <1>4, <1>5, <1>6, <1>8, <1>9, <1>10, <1>11, <1>12 DEF RowIsSound

-----------------------------------------------------------------------------
(* CandidateEvidence: the steps.                                           *)

All == evidence \o pending

LoadedRows ==
  [for : {"collect", "seed", "manual", "review"}, row : CandidateRows \cup {NoRow}, time : Nat]

\* What a writer has loaded is backed by evidence: the collector's by what its
\* open transaction sees, any other's by what is committed.
LoadedIsSound(w) ==
  reading[w] # Unread =>
    /\ reading[w] \in LoadedRows
    /\ reading[w].for = "collect" /\ Loaded(w) # NoRow =>
         Visible # NoRow /\ BackedBy(Loaded(w), All)
    /\ reading[w].for # "collect" /\ Loaded(w) # NoRow =>
         row # NoRow /\ BackedBy(Loaded(w), evidence)
    /\ reading[w].for \in {"review", "seed"} => Loaded(w) # NoRow
    /\ reading[w].for \in {"collect", "seed"} => w = "worker"
    /\ reading[w].for = "seed" => ~ Locked

StoreIsSound ==
  /\ evidence \in Seq(Entries) /\ pending \in Seq(Entries)
  /\ overlapped \in BOOLEAN /\ clock \in Nat
  /\ DOMAIN reading = Writers /\ reading = [w \in Writers |-> reading[w]]
  /\ RowIsSound(row, evidence, overlapped, decided)
  /\ RowIsSound(Visible, All, overlapped, decided)

EvidenceInv == StoreIsSound /\ \A w \in Writers : LoadedIsSound(w)

\* Without an open transaction every statement sees the committed row.
LEMMA NothingPending ==
  ASSUME StoreIsSound, ~ Locked
  PROVE  pending = <<>> /\ All = evidence /\ Visible = row
<1>1. pending = <<>>
  BY DEF Locked
<1>2. evidence \o <<>> = evidence
  BY ConcatEmptySeq DEF StoreIsSound
<1> QED
  BY <1>1, <1>2 DEF All, Visible, Locked

\* What a writer has loaded stays sound while others add evidence.
LEMMA LoadedStays ==
  ASSUME NEW w, LoadedIsSound(w), reading'[w] = reading[w],
         row # NoRow => row' # NoRow, Grows(evidence, evidence'),
         reading[w].for = "collect" =>
           (Visible # NoRow => Visible' # NoRow) /\ Grows(All, All'),
         reading[w].for = "seed" => ~ Locked'
  PROVE  LoadedIsSound(w)'
<1>1. Loaded(w)' = Loaded(w)
  BY DEF Loaded
<1> QED
  BY <1>1, BackedStays DEF LoadedIsSound

LEMMA UnreadIsSound ==
  ASSUME NEW w, reading'[w] = Unread
  PROVE  LoadedIsSound(w)'
BY DEF LoadedIsSound

LEMMA ReadKeeps ==
  ASSUME EvidenceInv, NEW w \in Writers, NEW t \in Nat,
         NEW purpose \in {"collect", "seed", "manual", "review"}, NEW current,
         Reads(w, purpose, current, t), UNCHANGED <<store, session>>, clock' \in Nat,
         current = IF purpose = "collect" THEN Visible ELSE row,
         purpose \in {"review", "seed"} => row # NoRow,
         purpose \in {"collect", "seed"} => w = "worker",
         purpose = "seed" => ~ Locked
  PROVE  EvidenceInv'
<1>1. UNCHANGED <<row, evidence, overlapped, decided, draft, pending>>
  BY DEF store, session
<1>2. UNCHANGED <<Visible, All, Locked>>
  BY <1>1 DEF Visible, All, Locked
<1>3. /\ DOMAIN reading' = Writers /\ reading' = [v \in Writers |-> reading'[v]]
      /\ reading'[w] = [for |-> purpose, row |-> current, time |-> t]
      /\ \A v \in Writers : v # w => reading'[v] = reading[v]
  BY DEF Reads, EvidenceInv, StoreIsSound
<1>4. StoreIsSound'
  BY <1>1, <1>2, <1>3 DEF EvidenceInv, StoreIsSound
<1>5. /\ row = NoRow \/ BackedBy(row, evidence)
      /\ Visible = NoRow \/ BackedBy(Visible, All)
  BY DEF EvidenceInv, StoreIsSound, RowIsSound
<1>6. current \in CandidateRows \cup {NoRow}
  BY <1>5 DEF BackedBy
<1>7. LoadedIsSound(w)'
  <2>1. /\ reading'[w] \in LoadedRows /\ reading'[w].for = purpose /\ Loaded(w)' = current
    BY <1>3, <1>6 DEF LoadedRows, Loaded
  <2> QED
    BY <1>1, <1>2, <1>5, <2>1 DEF LoadedIsSound
<1>8. ASSUME NEW v \in Writers, v # w PROVE LoadedIsSound(v)'
  <2>1. reading'[v] = reading[v] /\ LoadedIsSound(v)
    BY <1>3, <1>8 DEF EvidenceInv
  <2> QED
    BY <1>1, <1>2, <2>1 DEF LoadedIsSound, Loaded
<1> QED
  BY <1>4, <1>7, <1>8 DEF EvidenceInv

\* A committed write of anybody but the collector.
LEMMA CommitKeeps ==
  ASSUME EvidenceInv, ~ Locked, UNCHANGED session, clock' \in Nat,
         overlapped' \in BOOLEAN, evidence' \in Seq(Entries), Grows(evidence, evidence'),
         RowIsSound(row', evidence', overlapped', decided'), row # NoRow => row' # NoRow,
         NEW w \in Writers,
         reading' = reading \/ reading' = [reading EXCEPT ![w] = Unread]
  PROVE  EvidenceInv'
<1>1. pending = <<>> /\ All = evidence /\ Visible = row
  BY NothingPending DEF EvidenceInv
<1>2. pending' = <<>> /\ evidence' \o <<>> = evidence'
  BY <1>1, ConcatEmptySeq DEF session
<1>3. ~ Locked' /\ All' = evidence' /\ Visible' = row'
  BY <1>2 DEF Locked, All, Visible
<1>4. /\ DOMAIN reading' = Writers /\ reading' = [v \in Writers |-> reading'[v]]
      /\ \A v \in Writers : reading'[v] = reading[v] \/ reading'[v] = Unread
  BY DEF EvidenceInv, StoreIsSound
<1>5. <<>> \in Seq(Entries)
  BY NoEvidence
<1>6. StoreIsSound'
  BY <1>2, <1>3, <1>4, <1>5 DEF StoreIsSound
<1>7. ASSUME NEW v \in Writers PROVE LoadedIsSound(v)'
  BY <1>1, <1>3, <1>4, LoadedStays, UnreadIsSound DEF EvidenceInv
<1> QED
  BY <1>6, <1>7 DEF EvidenceInv

LEMMA IngestAndCommitKeeps ==
  ASSUME EvidenceInv, ~ Locked, UNCHANGED session, clock' \in Nat,
         NEW p \in Sources, NEW loaded, NEW t \in Nat, NEW score \in Scores,
         IngestAndCommit(p, loaded, t, score),
         loaded # NoRow => row # NoRow /\ BackedBy(loaded, evidence),
         NEW w \in Writers,
         reading' = reading \/ reading' = [reading EXCEPT ![w] = Unread]
  PROVE  EvidenceInv'
<1>1. /\ RowIsSound(row, evidence, overlapped, decided) /\ overlapped \in BOOLEAN
      /\ evidence \in Seq(Entries)
  BY DEF EvidenceInv, StoreIsSound
<1>2. CASE Collides(row, loaded)
  <2>1. UNCHANGED <<row, evidence, overlapped, decided>>
    BY <1>2 DEF IngestAndCommit, store
  <2>2. Grows(evidence, evidence)
    BY DEF Grows
  <2> QED
    BY <1>1, <2>1, <2>2, CommitKeeps
<1>3. CASE ~ Collides(row, loaded)
  <2>1. /\ row' = Ingested(row, loaded, p, t, score)
        /\ evidence' = Append(evidence, Observation(p, t, score))
        /\ overlapped' = (overlapped \/ ~ Current(row, loaded))
        /\ decided' = decided
    BY <1>3 DEF IngestAndCommit
  <2>2. RowIsSound(Ingested(row, loaded, p, t, score), Append(evidence, Observation(p, t, score)),
                   overlapped \/ ~ Current(row, loaded), decided)
    BY <1>1, <1>3, IngestLeavesSound
  <2>3. RowIsSound(row', evidence', overlapped', decided')
    BY <2>1, <2>2
  <2>4. Observation(p, t, score) \in Entries
    BY DEF Observation, Entries
  <2>5. /\ evidence' \in Seq(Entries) /\ evidence' # <<>> /\ Grows(evidence, evidence')
    BY <1>1, <2>1, <2>4, OneMoreEntry, AppendGrows
  <2>6. row' # NoRow
    BY <2>3, <2>5 DEF RowIsSound
  <2>7. overlapped' \in BOOLEAN
    BY <1>1, <2>1
  <2> QED
    BY <2>3, <2>5, <2>6, <2>7, CommitKeeps
<1> QED
  BY <1>2, <1>3

\* A reading that is ready is a loaded row.
LEMMA ReadyIsLoaded ==
  ASSUME EvidenceInv, NEW w \in Writers, NEW purpose, Ready(w, purpose)
  PROVE  /\ reading[w] \in LoadedRows /\ reading[w].for = purpose /\ reading[w].time \in Nat
         /\ Loaded(w) \in CandidateRows \cup {NoRow} /\ LoadedIsSound(w)
         /\ reading[w] # Unread
BY DEF EvidenceInv, Ready, LoadedIsSound, LoadedRows, Loaded

LEMMA CollectorWritesKeeps ==
  ASSUME EvidenceInv, NEW score \in Scores, CollectorWrites(score)
  PROVE  EvidenceInv'
<1>1. "worker" \in Writers
  BY DEF Writers
<1>2. /\ reading["worker"].for = "collect" /\ reading["worker"] # Unread
      /\ LoadedIsSound("worker") /\ reading["worker"].time \in Nat
  BY <1>1, ReadyIsLoaded DEF CollectorWrites
<1>3. /\ UNCHANGED <<row, evidence, decided, clock>>
      /\ reading' = [reading EXCEPT !["worker"] = Unread]
  BY DEF CollectorWrites, Done, counts
<1>4. /\ DOMAIN reading' = Writers /\ reading' = [v \in Writers |-> reading'[v]]
      /\ reading'["worker"] = Unread
      /\ \A v \in Writers : v # "worker" => reading'[v] = reading[v]
  BY <1>1, <1>3 DEF EvidenceInv, StoreIsSound
<1>5. \A v \in Writers : v # "worker" /\ reading[v] # Unread => reading[v].for \notin {"collect", "seed"}
  BY DEF EvidenceInv, LoadedIsSound
<1>6. Unread.for = "none"
  BY DEF Unread
<1>7. Grows(evidence, evidence')
  BY <1>3 DEF Grows
<1>8. \A v \in Writers : LoadedIsSound(v)'
  <2> SUFFICES ASSUME NEW v \in Writers PROVE LoadedIsSound(v)'
    OBVIOUS
  <2>1. CASE v = "worker"
    BY <1>4, <2>1, UnreadIsSound
  <2>2. CASE v # "worker"
    <3>1. reading[v].for \notin {"collect", "seed"}
      BY <1>5, <1>6, <2>2
    <3> QED
      BY <1>3, <1>4, <1>7, <2>2, <3>1, LoadedStays DEF EvidenceInv
  <2> QED
    BY <2>1, <2>2
<1>9. CASE Collides(Visible, Loaded("worker"))
  <2>1. UNCHANGED <<draft, pending, overlapped>>
    BY <1>9 DEF CollectorWrites, session
  <2>2. UNCHANGED <<Visible, All>>
    BY <1>3, <2>1 DEF Visible, All, Locked
  <2>3. StoreIsSound'
    BY <1>3, <1>4, <2>1, <2>2 DEF EvidenceInv, StoreIsSound
  <2> QED
    BY <1>8, <2>3 DEF EvidenceInv
<1>10. CASE ~ Collides(Visible, Loaded("worker"))
  <2> DEFINE e   == Observation("certstream", reading["worker"].time, score)
             new == Ingested(Visible, Loaded("worker"), "certstream", reading["worker"].time, score)
             over == overlapped \/ ~ Current(Visible, Loaded("worker"))
  <2>1. draft' = new /\ pending' = Append(pending, e) /\ overlapped' = over
    BY <1>10 DEF CollectorWrites
  <2>2. /\ evidence \in Seq(Entries) /\ pending \in Seq(Entries) /\ overlapped \in BOOLEAN
        /\ RowIsSound(row, evidence, overlapped, decided)
        /\ RowIsSound(Visible, All, overlapped, decided)
    BY DEF EvidenceInv, StoreIsSound
  <2>3. e \in Entries /\ "certstream" \in Sources
    BY <1>2 DEF Observation, Entries, Sources
  <2>4. pending' \in Seq(Entries) /\ pending' # <<>>
    BY <2>1, <2>2, <2>3, OneMoreEntry
  <2>5. All \in Seq(Entries) /\ All' = Append(All, e)
    <3>1. <<e>> \in Seq(Entries) /\ Append(pending, e) = pending \o <<e>>
      BY <2>2, <2>3, AppendIsConcat
    <3>2. All \in Seq(Entries)
      BY <2>2, ConcatProperties DEF All
    <3>3. evidence \o (pending \o <<e>>) = (evidence \o pending) \o <<e>>
      BY <2>2, <3>1, ConcatAssociative
    <3>4. Append(All, e) = All \o <<e>>
      BY <2>3, <3>2, AppendIsConcat
    <3> QED
      BY <1>3, <2>1, <3>1, <3>2, <3>3, <3>4 DEF All
  <2>6. Visible' = new /\ Locked'
    BY <2>1, <2>4 DEF Visible, Locked
  <2>7. Loaded("worker") # NoRow => Visible # NoRow /\ BackedBy(Loaded("worker"), All)
    BY <1>2 DEF LoadedIsSound
  <2>8. RowIsSound(new, Append(All, e), over, decided)
    BY <1>2, <1>10, <2>2, <2>3, <2>5, <2>7, IngestLeavesSound
  <2>9. RowIsSound(row, evidence, over, decided)
    BY <2>2 DEF RowIsSound
  <2>10. over \in BOOLEAN
    OBVIOUS
  <2> HIDE DEF e, new, over
  <2>11. RowIsSound(Visible', All', overlapped', decided') /\ RowIsSound(row', evidence', overlapped', decided')
    BY <1>3, <2>1, <2>5, <2>6, <2>8, <2>9
  <2>12. StoreIsSound'
    BY <1>3, <1>4, <2>1, <2>2, <2>4, <2>10, <2>11 DEF EvidenceInv, StoreIsSound
  <2> QED
    BY <1>8, <2>12 DEF EvidenceInv
<1> QED
  BY <1>9, <1>10

\* The end of the collector's transaction, either way.
LEMMA CollectorEndsKeeps ==
  ASSUME EvidenceInv, Locked, pending' = <<>>, draft' = NoRow,
         reading' = [reading EXCEPT !["worker"] = Unread],
         \/ row' = Visible /\ evidence' = All
         \/ row' = row /\ evidence' = evidence,
         UNCHANGED <<overlapped, decided, clock>>
  PROVE  EvidenceInv'
<1>1. /\ evidence \in Seq(Entries) /\ pending \in Seq(Entries) /\ pending # <<>>
      /\ RowIsSound(row, evidence, overlapped, decided)
      /\ RowIsSound(Visible, All, overlapped, decided)
  BY DEF EvidenceInv, StoreIsSound, Locked
<1>2. All \in Seq(Entries) /\ Grows(evidence, All) /\ Grows(evidence, evidence)
  BY <1>1, ConcatProperties, ConcatGrows DEF All, Grows
<1>3. All # <<>> /\ Visible # NoRow
  <2>1. All # <<>>
    BY <1>1, ConcatEqualIffEmpty DEF All
  <2> QED
    BY <1>1, <2>1 DEF RowIsSound
<1>4. /\ evidence' \in Seq(Entries) /\ Grows(evidence, evidence') /\ (row # NoRow => row' # NoRow)
      /\ RowIsSound(row', evidence', overlapped', decided')
  BY <1>1, <1>2, <1>3
<1>5. <<>> \in Seq(Entries) /\ evidence' \o <<>> = evidence'
  BY <1>4, NoEvidence, ConcatEmptySeq
<1>6. ~ Locked' /\ All' = evidence' /\ Visible' = row'
  BY <1>5 DEF Locked, All, Visible
<1>7. /\ DOMAIN reading' = Writers /\ reading' = [v \in Writers |-> reading'[v]]
      /\ \A v \in Writers : v # "worker" => reading'[v] = reading[v]
      /\ "worker" \in Writers => reading'["worker"] = Unread
  BY DEF EvidenceInv, StoreIsSound
<1>8. StoreIsSound'
  BY <1>4, <1>5, <1>6, <1>7 DEF EvidenceInv, StoreIsSound
<1>9. ASSUME NEW v \in Writers PROVE LoadedIsSound(v)'
  <2>1. CASE v = "worker"
    BY <1>7, <2>1, UnreadIsSound
  <2>2. CASE v # "worker"
    <3>1. reading[v] = Unread \/ reading[v].for # "collect"
      BY <2>2 DEF EvidenceInv, LoadedIsSound
    <3>2. reading[v].for # "collect"
      BY <3>1 DEF Unread
    <3> QED
      BY <1>4, <1>6, <1>7, <2>2, <3>2, LoadedStays DEF EvidenceInv
  <2> QED
    BY <2>1, <2>2
<1> QED
  BY <1>8, <1>9 DEF EvidenceInv

LEMMA ConsoleKeeps ==
  ASSUME EvidenceInv, NEW r \in Handlers, Console(r)
  PROVE  EvidenceInv'
<1>1. /\ RowIsSound(row, evidence, overlapped, decided) /\ overlapped \in BOOLEAN
      /\ evidence \in Seq(Entries) /\ clock \in Nat /\ r \in Writers
  BY DEF EvidenceInv, StoreIsSound, Writers
<1>2. CASE Sees(r)
  <2>1. clock' \in Nat
    BY <1>1, <1>2 DEF Sees, NextTime
  <2> QED
    BY <1>1, <1>2, <2>1, ReadKeeps DEF Sees
<1>3. CASE LoadForReview(r)
  BY <1>1, <1>3, ReadKeeps DEF LoadForReview
<1>4. ASSUME NEW score \in Scores, QueuePivot(r, score)
      PROVE  EvidenceInv'
  <2>1. /\ reading[r].for = "manual" /\ reading[r].time \in Nat /\ LoadedIsSound(r)
        /\ reading[r] # Unread
    BY <1>1, <1>4, ReadyIsLoaded DEF QueuePivot
  <2>2. Loaded(r) # NoRow => row # NoRow /\ BackedBy(Loaded(r), evidence)
    BY <2>1 DEF LoadedIsSound
  <2>3. clock' \in Nat /\ "manual" \in Sources
    BY <1>1, <1>4 DEF QueuePivot, counts, Sources
  <2> QED
    BY <1>1, <1>4, <2>1, <2>2, <2>3, IngestAndCommitKeeps DEF QueuePivot, Done
<1>5. ASSUME Ready(r, "review")
      PROVE  Loaded(r) \in CandidateRows /\ row # NoRow
  <2>1. /\ reading[r].for = "review" /\ LoadedIsSound(r) /\ reading[r] # Unread
        /\ Loaded(r) \in CandidateRows \cup {NoRow}
    BY <1>1, <1>5, ReadyIsLoaded
  <2> QED
    BY <2>1 DEF LoadedIsSound
<1>6. CASE Dispose(r)
  <2>1. /\ ~ Locked /\ UNCHANGED <<session, evidence, overlapped, clock>>
        /\ row' = Flushed(row, Loaded(r), [Loaded(r) EXCEPT !.status = "closed"])
        /\ decided' = "closed" /\ reading' = [reading EXCEPT ![r] = Unread]
        /\ Ready(r, "review") /\ Loaded(r).status = "potential"
    BY <1>6 DEF Dispose, Done, counts
  <2>2. RowIsSound(Flushed(row, Loaded(r), [Loaded(r) EXCEPT !.status = "closed"]),
                   evidence, overlapped, "closed")
    BY <1>1, <1>5, <2>1, DisposeLeavesSound
  <2>3. RowIsSound(row', evidence', overlapped', decided')
    BY <2>1, <2>2
  <2>4. row' # NoRow /\ Grows(evidence, evidence')
    BY <1>1, <1>5, <2>1, <2>3 DEF RowIsSound, Grows
  <2> QED
    BY <1>1, <2>1, <2>3, <2>4, CommitKeeps
<1>7. ASSUME NEW score \in Scores, RestoreCandidate(r, score)
      PROVE  EvidenceInv'
  <2> DEFINE e == [kind |-> "restore", score |-> score]
             new == Flushed(row, Loaded(r), [Loaded(r) EXCEPT !.status = "potential",
                              !.confidence = score, !.reasons = {score}])
             over == overlapped \/ ~ Current(row, Loaded(r))
  <2>1. /\ ~ Locked /\ UNCHANGED <<session, clock>>
        /\ row' = new /\ evidence' = Append(evidence, e) /\ overlapped' = over
        /\ decided' = "potential" /\ reading' = [reading EXCEPT ![r] = Unread]
        /\ Ready(r, "review") /\ Loaded(r).status = "closed"
    BY <1>7 DEF RestoreCandidate, Done, counts
  <2>2. RowIsSound(new, Append(evidence, e), over, "potential")
    BY <1>1, <1>5, <2>1, RestoreLeavesSound
  <2>3. over \in BOOLEAN /\ e \in Entries
    BY DEF Entries
  <2> HIDE DEF new, over, e
  <2>4. RowIsSound(row', evidence', overlapped', decided') /\ overlapped' \in BOOLEAN
    BY <2>1, <2>2, <2>3
  <2>5. evidence' \in Seq(Entries) /\ evidence' # <<>> /\ Grows(evidence, evidence')
    BY <1>1, <2>1, <2>3, OneMoreEntry, AppendGrows
  <2>6. row' # NoRow
    BY <2>4, <2>5 DEF RowIsSound
  <2> QED
    BY <1>1, <2>1, <2>4, <2>5, <2>6, CommitKeeps
<1> QED
  BY <1>2, <1>3, <1>4, <1>6, <1>7 DEF Console

LEMMA WorkerKeeps ==
  ASSUME EvidenceInv, Collector \/ Pivots
  PROVE  EvidenceInv'
<1>1. /\ RowIsSound(row, evidence, overlapped, decided) /\ overlapped \in BOOLEAN
      /\ evidence \in Seq(Entries) /\ clock \in Nat /\ "worker" \in Writers
      /\ reading = [w \in Writers |-> reading[w]]
  BY DEF EvidenceInv, StoreIsSound, Writers
<1>2. CASE CollectorReads
  <2>1. clock' \in Nat
    BY <1>1, <1>2 DEF CollectorReads, NextTime
  <2> QED
    BY <1>1, <1>2, <2>1, ReadKeeps DEF CollectorReads
<1>3. CASE CollectorCommits
  <2>1. draft = Visible /\ Locked
    BY <1>3 DEF CollectorCommits, Visible
  <2>2. reading' = [reading EXCEPT !["worker"] = Unread]
    BY <1>1, <1>3 DEF CollectorCommits
  <2> QED
    BY <1>3, <2>1, <2>2, CollectorEndsKeeps DEF CollectorCommits, All, counts
<1>4. CASE CollectorFails
  BY <1>4, CollectorEndsKeeps DEF CollectorFails, Done, store, counts
<1>5. CASE LoadSeed
  <2>1. Reads("worker", "seed", row, 0) /\ clock' \in Nat /\ UNCHANGED <<store, session>>
    BY <1>1, <1>5 DEF LoadSeed, counts
  <2> QED
    BY <1>1, <1>5, <2>1, ReadKeeps DEF LoadSeed
<1>6. ASSUME NEW score \in Scores, StoreForSeed(score)
      PROVE  EvidenceInv'
  <2>1. /\ reading["worker"].for = "seed" /\ LoadedIsSound("worker")
        /\ reading["worker"] # Unread
    BY <1>1, <1>6, ReadyIsLoaded DEF StoreForSeed
  <2>2. ~ Locked /\ row # NoRow /\ BackedBy(Loaded("worker"), evidence)
    BY <2>1 DEF LoadedIsSound
  <2>3. clock' \in Nat /\ "urlscan" \in Sources
    BY <1>1, <1>6 DEF StoreForSeed, NextTime, Sources
  <2> QED
    BY <1>1, <1>6, <2>2, <2>3, IngestAndCommitKeeps DEF StoreForSeed, Done
<1>7. ASSUME NEW score \in Scores, StoreDiscovery(score)
      PROVE  EvidenceInv'
  <2>1. row # NoRow => BackedBy(row, evidence)
    BY <1>1 DEF RowIsSound
  <2>2. clock' \in Nat /\ "urlscan" \in Sources
    BY <1>1, <1>7 DEF StoreDiscovery, NextTime, Sources
  <2> QED
    BY <1>1, <1>7, <2>1, <2>2, IngestAndCommitKeeps DEF StoreDiscovery
<1> QED
  BY <1>2, <1>3, <1>4, <1>5, <1>6, <1>7, CollectorWritesKeeps DEF Collector, Pivots

LEMMA EvidenceSafety == EvidenceSpec => []EvidenceInv
<1>1. EvidenceInit => EvidenceInv
  <2> SUFFICES ASSUME EvidenceInit PROVE EvidenceInv
    OBVIOUS
  <2>1. /\ <<>> \in Seq(Entries) /\ <<>> \o <<>> = <<>>
    BY NoEvidence, ConcatEmptySeq
  <2>2. Visible = NoRow /\ All = <<>>
    BY <2>1 DEF EvidenceInit, Visible, Locked, All
  <2>3. \A w \in Writers : LoadedIsSound(w)
    BY DEF EvidenceInit, LoadedIsSound
  <2> QED
    BY <2>1, <2>2, <2>3 DEF EvidenceInit, EvidenceInv, StoreIsSound, RowIsSound
<1>2. EvidenceInv /\ [EvidenceNext]_evidenceVars => EvidenceInv'
  <2> SUFFICES ASSUME EvidenceInv, [EvidenceNext]_evidenceVars
               PROVE  EvidenceInv'
    OBVIOUS
  <2>1. ASSUME NEW w \in Writers, Abandon(w)
        PROVE  EvidenceInv'
    <3>1. UNCHANGED <<row, evidence, overlapped, decided, draft, pending, clock>>
      BY <2>1 DEF Abandon, store, session, counts
    <3>2. UNCHANGED <<Visible, All, Locked>>
      BY <3>1 DEF Visible, All, Locked
    <3>3. /\ DOMAIN reading' = Writers /\ reading' = [v \in Writers |-> reading'[v]]
          /\ \A v \in Writers : reading'[v] = reading[v] \/ reading'[v] = Unread
      BY <2>1 DEF Abandon, Done, EvidenceInv, StoreIsSound
    <3>4. StoreIsSound'
      BY <3>1, <3>2, <3>3 DEF EvidenceInv, StoreIsSound
    <3>5. ASSUME NEW v \in Writers PROVE LoadedIsSound(v)'
      BY <3>1, <3>2, <3>3 DEF EvidenceInv, LoadedIsSound, Loaded
    <3> QED
      BY <3>4, <3>5 DEF EvidenceInv
  <2>2. CASE UNCHANGED evidenceVars
    <3>1. UNCHANGED <<row, evidence, overlapped, decided, draft, pending, clock, reading>>
      BY <2>2 DEF evidenceVars, store, session, counts
    <3>2. UNCHANGED <<Visible, All, Locked>>
      BY <3>1 DEF Visible, All, Locked
    <3>3. ASSUME NEW v \in Writers PROVE LoadedIsSound(v)'
      BY <3>1, <3>2 DEF EvidenceInv, LoadedIsSound, Loaded
    <3> QED
      BY <3>1, <3>2, <3>3 DEF EvidenceInv, StoreIsSound
  <2> QED
    BY <2>1, <2>2, ConsoleKeeps, WorkerKeeps DEF EvidenceNext
<1> QED
  BY <1>1, <1>2, PTL DEF EvidenceSpec

\* For any number of requests and any scores: whatever a row says is in its
\* evidence, in whatever order its writers read, write, commit and fail.
THEOREM RowIsBacked == EvidenceSpec => []ProjectionIsBacked
<1>1. EvidenceInv => ProjectionIsBacked
  <2> SUFFICES ASSUME EvidenceInv PROVE ProjectionIsBacked
    OBVIOUS
  <2>1. RowIsSound(row, evidence, overlapped, decided)
    BY DEF EvidenceInv, StoreIsSound
  <2>2. Times = TimesIn(evidence) /\ Seen = SeenIn(evidence) /\ Given = GivenIn(evidence)
    BY DEF Times, TimesIn, Seen, SeenIn, Given, GivenIn, Sightings, SightingsIn
  <2> QED
    BY <2>1, <2>2 DEF RowIsSound, BackedBy, ProjectionIsBacked
<1> QED
  BY <1>1, EvidenceSafety, PTL

\* A row into which nobody merged what had changed since it was read is the
\* projection of all its observations and restores.
THEOREM RowIsDerived == EvidenceSpec => []ProjectionIsDerived
<1>1. EvidenceInv => ProjectionIsDerived
  <2> SUFFICES ASSUME EvidenceInv, row # NoRow, ~ overlapped
               PROVE  /\ row.sources = Seen /\ row.first = Min(Times) /\ row.last = Max(Times)
                      /\ row.reasons = Judged /\ row.confidence = Max(Judged)
    BY DEF ProjectionIsDerived
  <2>1. DerivedFrom(row, evidence) /\ evidence \in Seq(Entries)
    BY DEF EvidenceInv, StoreIsSound, RowIsSound
  <2>2. Times = TimesIn(evidence) /\ Seen = SeenIn(evidence) /\ Judged = JudgedIn(evidence)
    BY DEF Times, TimesIn, Seen, SeenIn, Judged, JudgedIn, LatestIn, Sightings, SightingsIn,
           Restores, RestoresIn
  <2>3. Times \in SUBSET Nat /\ Judged \in SUBSET Nat
    BY <2>1, <2>2, EvidenceSets
  <2>4. /\ row.first = Min(Times) /\ row.last = Max(Times) /\ row.confidence = Max(Judged)
    BY <2>1, <2>2, <2>3, LeastIsMin DEF DerivedFrom
  <2> QED
    BY <2>1, <2>2, <2>4 DEF DerivedFrom
<1> QED
  BY <1>1, EvidenceSafety, PTL

\* No merge of a row that was read before a review undoes what it decided.
THEOREM DispositionIsKept == EvidenceSpec => []DispositionSurvives
<1>1. EvidenceInv => DispositionSurvives
  BY DEF EvidenceInv, StoreIsSound, RowIsSound, DispositionSurvives
<1> QED
  BY <1>1, EvidenceSafety, PTL

=============================================================================
