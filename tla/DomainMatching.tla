---------------------------- MODULE DomainMatching ----------------------------
(***************************************************************************)
(* The pure parts of matching a domain: the bounded edit distance, cell by *)
(* cell of its table, and the score of one target, alias by alias in the   *)
(* order in which a Python set happens to give them.                       *)
(*                                                                         *)
(* How an alias lies in a host name is a record: its length, and whether   *)
(* it is a label, lies inside the joined labels, or is one edit from a     *)
(* label.  Which target is chosen from the scores is ReviewDesk's Accepts. *)
(***************************************************************************)
EXTENDS Naturals, Sequences, SequencesExt

CONSTANTS
  Letters,      \* bound: characters
  MaxLength,    \* bound: characters of a string
  Maximum,      \* the distance that is still told exactly; the one call asks for 1
  Lengths,      \* bound: lengths of aliases
  MaxAliases,   \* bound: aliases of a target
  Pending

Strings == SeqOf(Letters, MaxLength)

ASSUME MatchingAssumption ==
  /\ MaxLength \in Nat /\ MaxAliases \in Nat /\ Lengths \subseteq Nat
  /\ Maximum \in Nat \ {0} /\ Pending \notin Nat

VARIABLES
  comparison,   \* the comparison under way: its strings, the rows before, its result
  scoring       \* the scoring under way: its host, the aliases left, the best one

matchingVars == <<comparison, scoring>>

Least(S) == CHOOSE m \in S : \A n \in S : m <= n
Apart(m, n) == IF m < n THEN n - m ELSE m - n

-----------------------------------------------------------------------------
(* bounded_levenshtein.                                                    *)

NoComparison == [left |-> <<>>, right |-> <<>>, row |-> 0, before |-> <<>>,
                 previous |-> <<>>, current |-> <<>>, result |-> 0]

Compare(l, r) ==
  /\ comparison' =
       [left |-> l, right |-> r, row |-> 0, before |-> <<>>,
        previous |-> [c \in 1 .. Len(r) + 1 |-> c - 1], current |-> <<1>>,
        result |-> IF Apart(Len(l), Len(r)) > Maximum THEN Maximum + 1 ELSE Pending]
  /\ UNCHANGED scoring

Cost(same) == IF same THEN 0 ELSE 1

\* Mutant: a swap of two neighbours counts as two substitutions.
CellWithoutSwap(l, r, i, c, current, previous, before) ==
  Least({current[c] + 1, previous[c + 1] + 1, previous[c] + Cost(l[i] = r[c])})

\* The distance of the first i characters of l from the first c of r.
Cell(l, r, i, c, current, previous, before) ==
  LET swapped == i > 1 /\ c > 1 /\ l[i] = r[c - 1] /\ l[i - 1] = r[c]
  IN  Least({current[c] + 1, previous[c + 1] + 1, previous[c] + Cost(l[i] = r[c])}
              \cup (IF swapped THEN {before[c - 1] + 1} ELSE {}))

Filling == comparison.result = Pending /\ comparison.row < Len(comparison.left)

\* The next cell of the row after comparison.row.  Column c is at c + 1.
FillCell ==
  LET c == Len(comparison.current) IN
  /\ Filling /\ c <= Len(comparison.right)
  /\ comparison' = [comparison EXCEPT !.current =
       Append(@, Cell(comparison.left, comparison.right, comparison.row + 1, c,
                      @, comparison.previous, comparison.before))]
  /\ UNCHANGED scoring

\* A row that holds nothing within the bound ends the comparison.
EndRow ==
  /\ Filling /\ Len(comparison.current) = Len(comparison.right) + 1
  /\ comparison' =
       IF Least(ToSet(comparison.current)) > Maximum
         THEN [comparison EXCEPT !.result = Maximum + 1]
         ELSE [comparison EXCEPT !.row = @ + 1, !.before = comparison.previous,
                                 !.previous = comparison.current,
                                 !.current = <<comparison.row + 2>>]
  /\ UNCHANGED scoring

ReturnDistance ==
  /\ comparison.result = Pending /\ ~ Filling
  /\ comparison' = [comparison EXCEPT !.result = Last(comparison.previous)]
  /\ UNCHANGED scoring

-----------------------------------------------------------------------------
(* _score_target.                                                          *)

\* An alias that is a label lies inside the joined labels.
Aliases == {a \in [length : Lengths, label : BOOLEAN, inside : BOOLEAN, near : BOOLEAN] :
              a.label => a.inside}

NoMatch == [score |-> 0, reasons |-> {}]
NoScoring == [context |-> FALSE, compound |-> FALSE, aliases |-> {}, left |-> {}, best |-> NoMatch]

ScoreTarget(aliases, context, compound) ==
  /\ scoring' = [context |-> context, compound |-> compound,
                 aliases |-> aliases, left |-> aliases, best |-> NoMatch]
  /\ UNCHANGED comparison

\* Mutant: one edit scores as much as a short exact alias.
BaseGenerous(a, context) ==
  IF a.length < 3 THEN <<0, "none">>
  ELSE IF a.label THEN <<IF a.length >= 5 THEN 72 ELSE 60, "exact">>
  ELSE IF a.inside /\ a.length >= 5 THEN <<66, "embedded">>
  ELSE IF a.near /\ a.length >= 6 /\ context THEN <<60, "one_edit">>
  ELSE <<0, "none">>

\* The first of the three ways that applies, and what it scores.
Base(a, context) ==
  IF a.length < 3 THEN <<0, "none">>
  ELSE IF a.label THEN <<IF a.length >= 5 THEN 72 ELSE 60, "exact">>
  ELSE IF a.inside /\ a.length >= 5 THEN <<66, "embedded">>
  ELSE IF a.near /\ a.length >= 6 /\ context THEN <<58, "one_edit">>
  ELSE <<0, "none">>

Match(a, context, compound) ==
  LET base == Base(a, context) IN
  IF base[1] = 0 THEN NoMatch
  ELSE [score   |-> base[1] + (IF context THEN 14 ELSE 0) + (IF compound THEN 4 ELSE 0),
        reasons |-> {base[2]} \cup (IF context THEN {"context"} ELSE {})
                              \cup (IF compound THEN {"compound"} ELSE {})]

\* The first best match is kept.
ScoreAlias(a) ==
  /\ a \in scoring.left
  /\ LET match == Match(a, scoring.context, scoring.compound) IN
     scoring' = [scoring EXCEPT !.left = @ \ {a},
                                !.best = IF match.score > @.score THEN match ELSE @]
  /\ UNCHANGED comparison

-----------------------------------------------------------------------------
MatchingInit == comparison = NoComparison /\ scoring = NoScoring

Idle == comparison = NoComparison /\ scoring = NoScoring

Comparing ==
  \/ Idle /\ \E l, r \in Strings : Compare(l, r)
  \/ FillCell \/ EndRow \/ ReturnDistance

Scoring ==
  \/ /\ Idle
     /\ \E aliases \in [1 .. MaxAliases -> Aliases], context, compound \in BOOLEAN :
          ScoreTarget(ToSet(aliases), context, compound)
  \/ \E a \in scoring.left : ScoreAlias(a)

MatchingNext == Comparing \/ Scoring

MatchingSpec == MatchingInit /\ [][MatchingNext]_matchingVars

-----------------------------------------------------------------------------
(* Properties.                                                             *)

OneDeleted(s, t) == \E i \in DOMAIN s : t = RemoveAt(s, i)

OneReplaced(s, t) ==
  Len(s) = Len(t) /\ \E i \in DOMAIN s : s[i] # t[i] /\ t = [s EXCEPT ![i] = t[i]]

OneSwapped(s, t) ==
  \E i \in 1 .. Len(s) - 1 : t = [s EXCEPT ![i] = s[i + 1], ![i + 1] = s[i]]

OneEditApart(s, t) ==
  OneDeleted(s, t) \/ OneDeleted(t, s) \/ OneReplaced(s, t) \/ OneSwapped(s, t)

\* DETECTION.md: "A one-edit Damerau-Levenshtein match".  Rows, early exits
\* and the swap, which looks back past a row that may have ended the
\* comparison, give the distance by definition as far as the bound reaches.
DistanceIsExact ==
  LET d == comparison.result IN
  d # Pending =>
    /\ d = 0 <=> comparison.left = comparison.right
    /\ d = 1 <=> /\ comparison.left # comparison.right
                 /\ OneEditApart(comparison.left, comparison.right)

\* The match that is kept is an alias's, and the best of all: no order in which
\* the aliases come makes another one explain the candidate, since two aliases
\* that score the same give the same reasons.
ScoreIgnoresOrder ==
  LET match(a) == Match(a, scoring.context, scoring.compound) IN
  scoring.left = {} /\ scoring.aliases # {} =>
    /\ \E a \in scoring.aliases : scoring.best = match(a)
    /\ \A a \in scoring.aliases :
         /\ match(a).score <= scoring.best.score
         /\ match(a).score = scoring.best.score => match(a) = scoring.best

\* DETECTION.md: "An exact alias token is strongest": when an alias is a label
\* of the host, that is among the reasons for the candidate.
ExactIsStrongest ==
  scoring.left = {} /\ (\E a \in scoring.aliases : a.label /\ a.length >= 3) =>
    "exact" \in scoring.best.reasons

=============================================================================
