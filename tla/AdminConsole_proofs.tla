-------------------------- MODULE AdminConsole_proofs --------------------------
(***************************************************************************)
(* Proofs about AdminConsole, for any number of candidates, requests in    *)
(* flight and rows on a page: the buttons offered are those of the         *)
(* selected candidate's status, each disabled one comes back with the end  *)
(* of a request, and the table is not past its end or loading for nothing. *)
(***************************************************************************)
EXTENDS AdminConsole, SequenceTheorems, FiniteSetTheorems, TLAPS

LEMMA Sizes ==
  CandidateCount \in Nat /\ PageSize \in Nat \ {0} /\ Filters \subseteq Status
BY SizesAssumption

(***************************************************************************)
(* Part 1.  What the server answers.                                       *)
(***************************************************************************)

LEMMA CandidatesFinite ==
  ASSUME NEW of \in SUBSET Candidates
  PROVE  IsFiniteSet(of) /\ Cardinality(of) \in Nat /\ of \subseteq Nat
<1>1. CandidateCount \in Int /\ 1 \in Int
  BY Sizes
<1>2. IsFiniteSet(Candidates)
  BY <1>1, FS_Interval DEF Candidates
<1>3. IsFiniteSet(of) /\ Cardinality(of) \in Nat
  BY <1>2, FS_Subset, FS_CardinalityType
<1>4. Candidates \subseteq Nat
  BY <1>1 DEF Candidates
<1>5. QED
  BY <1>3, <1>4

\* The n-th of a finite set of numbers is one of them.
LEMMA NthIsThere ==
  ASSUME NEW of \in SUBSET Candidates, NEW n \in 1 .. Cardinality(of)
  PROVE  Nth(of, n) \in of
<1> DEFINE upto(c) == {d \in of : d <= c}
           rank    == [c \in of |-> Cardinality(upto(c))]
<1>1. IsFiniteSet(of) /\ Cardinality(of) \in Nat /\ of \subseteq Nat
  BY CandidatesFinite
<1>2. ASSUME NEW c \in of
      PROVE  IsFiniteSet(upto(c)) /\ Cardinality(upto(c)) \in 1 .. Cardinality(of)
  <2>1. upto(c) \subseteq of /\ c \in upto(c)
    BY <1>1
  <2>2. IsFiniteSet(upto(c)) /\ Cardinality(upto(c)) <= Cardinality(of)
    BY <1>1, <2>1, FS_Subset
  <2>3. Cardinality(upto(c)) \in Nat /\ Cardinality(upto(c)) # 0
    BY <2>1, <2>2, FS_CardinalityType, FS_EmptySet
  <2> HIDE DEF upto
  <2>4. QED
    BY <1>1, <2>2, <2>3
<1>3. ASSUME NEW c \in of, NEW d \in of, c < d
      PROVE  Cardinality(upto(c)) # Cardinality(upto(d))
  <2>1. upto(c) \subseteq upto(d) /\ d \in upto(d) /\ d \notin upto(c)
    <3>1. c \in Nat /\ d \in Nat
      BY <1>1
    <3>2. \A e \in of : e \in Nat /\ (e <= c => e <= d)
      BY <1>1, <1>3, <3>1
    <3>3. d <= d /\ ~ (d <= c)
      BY <1>3, <3>1
    <3>4. QED
      BY <3>2, <3>3
  <2>2. IsFiniteSet(upto(d))
    BY <1>2
  <2> HIDE DEF upto
  <2>3. upto(c) # upto(d) /\ upto(c) \in SUBSET upto(d)
    BY <2>1
  <2>4. Cardinality(upto(d)) = Cardinality(upto(c)) => upto(d) = upto(c)
    BY <2>2, <2>3, FS_Subset
  <2>5. QED
    BY <2>3, <2>4
<1> HIDE DEF upto
<1>4. rank \in [of -> 1 .. Cardinality(of)]
  BY <1>2
<1>5. \A c, d \in of : rank[c] = rank[d] => c = d
  BY <1>1, <1>3
<1>6. rank \in Injection(of, 1 .. Cardinality(of))
  <2> HIDE DEF rank
  <2>1. QED
    BY <1>4, <1>5 DEF Injection, IsInjective
<1>7. IsFiniteSet(1 .. Cardinality(of)) /\ Cardinality(1 .. Cardinality(of)) = Cardinality(of)
  BY <1>1, FS_Interval
<1>8. rank \in Surjection(of, 1 .. Cardinality(of))
  BY <1>6, <1>7, FS_Injection
<1>9. \E c \in of : rank[c] = n
  BY <1>8 DEF Surjection
<1>10. \E c \in of : Cardinality({d \in of : d <= c}) = n
  BY <1>9 DEF upto
<1>11. QED
  BY <1>10 DEF Nth

\* The rows of an answer are candidates.
LEMMA ListedType ==
  ASSUME NEW f \in Status
  PROVE  Listed(f) \in Seq(Row)
<1>1. Having(f) \in SUBSET Candidates
  BY DEF Having
<1>2. Cardinality(Having(f)) \in Nat
  BY <1>1, CandidatesFinite
<1>3. ASSUME NEW n \in 1 .. Cardinality(Having(f))
      PROVE  [candidate |-> Nth(Having(f), n), status |-> f] \in Row
  <2>1. Nth(Having(f), n) \in Candidates
    BY <1>1, NthIsThere
  <2>2. QED
    BY <2>1 DEF Row
<1>4. Listed(f) \in [1 .. Cardinality(Having(f)) -> Row]
  BY <1>3 DEF Listed
<1>5. QED
  BY <1>2, <1>4

LEMMA PageType ==
  ASSUME NEW seq \in Seq(Row), NEW page \in Nat \ {0}
  PROVE  Page(seq, page) \in Seq(Row)
<1> DEFINE from == (page - 1) * PageSize + 1
           to   == IF page * PageSize < Len(seq) THEN page * PageSize ELSE Len(seq)
<1>1. Len(seq) \in Nat /\ PageSize \in Nat /\ page - 1 \in Nat
  BY Sizes, LenProperties
<1>2. (page - 1) * PageSize \in Nat /\ page * PageSize \in Nat
  BY <1>1
<1>3. from \in Nat \ {0} /\ to \in Nat /\ to <= Len(seq)
  BY <1>1, <1>2
<1>4. Page(seq, page) = SubSeq(seq, from, to)
  BY DEF Page
<1> HIDE DEF from, to
<1>5. \A i \in from .. to : seq[i] \in Row
  <2> SUFFICES ASSUME NEW i \in from .. to PROVE seq[i] \in Row
    OBVIOUS
  <2>1. i \in 1 .. Len(seq)
    BY <1>1, <1>3
  <2>2. QED
    BY <2>1, ElementOfSeq
<1>6. QED
  BY <1>3, <1>4, <1>5, SubSeqProperties

\* There is always a first page.
LEMMA PagesType ==
  ASSUME NEW total \in Nat
  PROVE  Pages(total) \in Nat \ {0}
<1>1. PageSize \in Nat /\ PageSize > 0
  BY Sizes
<1>2. CASE total = 0
  BY <1>2 DEF Pages
<1>3. CASE total # 0
  <2> DEFINE n == total + PageSize - 1
             q == n \div PageSize
  <2>1. n \in Nat /\ n >= PageSize
    BY <1>1, <1>3
  <2> HIDE DEF n
  <2>2. q \in Int /\ PageSize * q <= n /\ n < PageSize * (q + 1)
    BY <1>1, <2>1
  <2> HIDE DEF q
  <2>3. q >= 1
    <3>1. SUFFICES ASSUME q <= 0 PROVE FALSE
      BY <2>2
    <3>2. PageSize * (q + 1) <= PageSize
      BY <1>1, <2>2, <3>1
    <3>3. QED
      BY <1>1, <2>1, <2>2, <3>2
  <2>4. QED
    BY <1>3, <2>2, <2>3 DEF Pages, n, q
<1>4. QED
  BY <1>2, <1>3

(***************************************************************************)
(* Part 2.  The types.                                                     *)
(***************************************************************************)

ListAsked ==
  [kind : {"list"}, filter : Status, page : Nat \ {0}, frees : SUBSET Action,
   stage : {"asked", "counted"}, total : Nat]

ListReplied ==
  [kind : {"list"}, page : Nat \ {0}, frees : SUBSET Action,
   stage : {"answered"}, total : Nat, rows : Seq(Row)]

Flight == ListAsked \cup ListReplied \cup DetailFlight \cup ReviewFlight
            \cup {TargetsRequest, Unanswered}

Shown  == [page : Nat \ {0}, total : Nat,
           shows : {"nothing", "loading", "rows", "error"}, rows : Seq(Row)]
Chosen == [candidate : {0} \cup Candidates, status : Status]

ServerType == status \in [Candidates -> Status] /\ writing \in Row \cup {Nobody}
ListType   == filter \in Status /\ list \in Shown
ReviewType == selected \in Chosen /\ hidden \subseteq Action /\ disabled \subseteq Action
FlightType == flight \in [Slots -> Flight]

TypeInv == ServerType /\ ListType /\ ReviewType /\ FlightType

\* The kind and the stage of a request tell what it carries.
LEMMA Shapes ==
  ASSUME TypeInv, NEW s \in Slots
  PROVE  /\ Is(s, "list", "asked") \/ Is(s, "list", "counted") => flight[s] \in ListAsked
         /\ Is(s, "list", "answered") => flight[s] \in ListReplied
         /\ Of(s, "list") => flight[s] \in ListAsked \/ flight[s] \in ListReplied
         /\ Of(s, "detail") => flight[s] \in DetailFlight
         /\ Of(s, "review") => flight[s] \in ReviewFlight
<1>1. \/ flight[s] \in ListAsked \/ flight[s] \in ListReplied \/ flight[s] \in DetailFlight
      \/ flight[s] \in ReviewFlight \/ flight[s] = TargetsRequest \/ flight[s] = Unanswered
  BY DEF TypeInv, FlightType, Flight
<1>2. CASE flight[s] \in ListAsked
  BY <1>2 DEF Is, Of, ListAsked
<1>3. CASE flight[s] \in ListReplied
  BY <1>3 DEF Is, Of, ListReplied
<1>4. CASE flight[s] \in DetailFlight
  BY <1>4 DEF Is, Of, DetailFlight
<1>5. CASE flight[s] \in ReviewFlight
  BY <1>5 DEF Is, Of, ReviewFlight
<1>6. CASE flight[s] = Unanswered
  BY <1>6 DEF Is, Of, Unanswered
<1>7. CASE flight[s] = TargetsRequest
  BY <1>7 DEF Is, Of, TargetsRequest
<1>8. QED
  BY <1>1, <1>2, <1>3, <1>4, <1>5, <1>6, <1>7

\* A slot that changes to a well-formed request leaves the others alone.
LEMMA FlightMoves ==
  ASSUME TypeInv, NEW s \in Slots, NEW r \in Flight, flight' = [flight EXCEPT ![s] = r]
  PROVE  FlightType' /\ flight'[s] = r /\ \A t \in Slots \ {s} : flight'[t] = flight[t]
BY DEF TypeInv, FlightType

LEMMA AskedType ==
  ASSUME TypeInv, NEW page \in Nat \ {0}, NEW frees \in SUBSET Action
  PROVE  ListRequest(page, frees) \in ListAsked
<1>1. filter \in Status
  BY DEF TypeInv, ListType
<1>2. QED
  BY <1>1 DEF ListRequest, ListAsked

\* What a step makes of the request in a slot, for each of the server's steps.
LEMMA CountListMoves ==
  ASSUME TypeInv, NEW s \in Slots, CountList(s)
  PROVE  \E r \in ListAsked : /\ flight' = [flight EXCEPT ![s] = r]
                              /\ r.frees = flight[s].frees /\ Of(s, "list")
<1>1. flight[s] \in ListAsked
  BY Shapes DEF CountList
<1>2. PICK n : n = Len(Listed(flight[s].filter))
  OBVIOUS
<1>3. n \in Nat
  <2>1. flight[s].filter \in Status
    BY <1>1 DEF ListAsked
  <2>2. QED
    BY <1>2, <2>1, ListedType, LenProperties
<1>4. PICK r : r = [flight[s] EXCEPT !.stage = "counted", !.total = n]
  OBVIOUS
<1>5. r \in ListAsked /\ r.frees = flight[s].frees
  BY <1>1, <1>3, <1>4 DEF ListAsked
<1>6. flight' = [flight EXCEPT ![s] = r]
  BY <1>2, <1>4 DEF CountList, TypeInv, FlightType
<1>7. QED
  BY <1>5, <1>6 DEF CountList, Is

LEMMA ReadRowsMoves ==
  ASSUME TypeInv, NEW s \in Slots, ReadRows(s)
  PROVE  \E r \in ListReplied : /\ flight' = [flight EXCEPT ![s] = r]
                                /\ r.frees = flight[s].frees /\ Of(s, "list")
<1>1. flight[s] \in ListAsked
  BY Shapes DEF ReadRows
<1>2. flight[s].filter \in Status /\ flight[s].page \in Nat \ {0}
      /\ flight[s].frees \in SUBSET Action /\ flight[s].total \in Nat
  BY <1>1 DEF ListAsked
<1>3. PICK rows : rows = Page(Listed(flight[s].filter), flight[s].page)
  OBVIOUS
<1>4. rows \in Seq(Row)
  BY <1>2, <1>3, ListedType, PageType
<1>5. PICK r : r = ListAnswer(flight[s], rows)
  OBVIOUS
<1>6. r \in ListReplied /\ r.frees = flight[s].frees
  BY <1>2, <1>4, <1>5 DEF ListAnswer, ListReplied
<1>7. flight' = [flight EXCEPT ![s] = r]
  BY <1>3, <1>5 DEF ReadRows, TypeInv, FlightType
<1>8. QED
  BY <1>6, <1>7 DEF ReadRows, Is

LEMMA ReadDetailMoves ==
  ASSUME TypeInv, NEW s \in Slots, ReadDetail(s)
  PROVE  \E r \in DetailFlight : flight' = [flight EXCEPT ![s] = r] /\ Of(s, "detail")
<1>1. flight[s] \in DetailFlight
  BY Shapes DEF ReadDetail, Is
<1>2. PICK c : c = status[flight[s].candidate]
  OBVIOUS
<1>3. c \in Status
  BY <1>1, <1>2 DEF DetailFlight, TypeInv, ServerType
<1>4. PICK r : r = [flight[s] EXCEPT !.stage = "answered", !.status = c]
  OBVIOUS
<1>5. r \in DetailFlight
  BY <1>1, <1>3, <1>4 DEF DetailFlight
<1>6. flight' = [flight EXCEPT ![s] = r]
  BY <1>2, <1>4 DEF ReadDetail, TypeInv, FlightType
<1>7. QED
  BY <1>5, <1>6 DEF ReadDetail, Is

LEMMA ReviewMoves ==
  ASSUME TypeInv, NEW s \in Slots, Review(s)
  PROVE  \E r \in ReviewFlight : /\ flight' = [flight EXCEPT ![s] = r]
                                 /\ r.action = flight[s].action /\ Of(s, "review")
<1>1. flight[s] \in ReviewFlight
  BY Shapes DEF Review, Is
<1>2. PICK r : r = [flight[s] EXCEPT !.stage = "answered"]
  OBVIOUS
<1>3. r \in ReviewFlight /\ r.action = flight[s].action
  BY <1>1, <1>2 DEF ReviewFlight
<1>4. flight' = [flight EXCEPT ![s] = r]
  BY <1>2 DEF Review, TypeInv, FlightType
<1>5. QED
  BY <1>3, <1>4 DEF Review, Is

LEMMA CompanionMoves ==
  ASSUME TypeInv, NEW s \in Slots, CompanionFailed(s)
  PROVE  \E r \in ListAsked \cup ListReplied : flight' = [flight EXCEPT ![s] = r]
<1>1. flight[s] \in ListAsked \/ flight[s] \in ListReplied
  BY Shapes DEF CompanionFailed
<1>2. PICK r : r = [flight[s] EXCEPT !.frees = {}]
  OBVIOUS
<1>3. r \in ListAsked \cup ListReplied
  <2>1. CASE flight[s] \in ListAsked
    BY <1>2, <2>1 DEF ListAsked
  <2>2. CASE flight[s] \in ListReplied
    BY <1>2, <2>2 DEF ListReplied
  <2>3. QED
    BY <1>1, <2>1, <2>2
<1>4. flight' = [flight EXCEPT ![s] = r]
  BY <1>2 DEF CompanionFailed, TypeInv, FlightType
<1>5. QED
  BY <1>3, <1>4

\* The console's own requests.
LEMMA LoadType ==
  ASSUME TypeInv, NEW s \in Slots, NEW page \in Nat \ {0}, LoadCandidates(s, page, {})
  PROVE  /\ list' \in Shown /\ list'.shows = "loading"
         /\ \E r \in ListAsked : flight' = [flight EXCEPT ![s] = r]
<1>1. <<>> \in Seq(Row)
  BY EmptySeq
<1>2. list' = [list EXCEPT !.page = page, !.shows = "loading", !.rows = <<>>]
  BY DEF LoadCandidates
<1>3. list \in Shown
  BY DEF TypeInv, ListType
<1>4. list' \in Shown /\ list'.shows = "loading"
  BY <1>1, <1>2, <1>3 DEF Shown
<1>5. ListRequest(page, {}) \in ListAsked
  BY AskedType
<1>6. QED
  BY <1>4, <1>5 DEF LoadCandidates, Send

LEMMA UseLoads ==
  ASSUME TypeInv, NEW s \in Slots, Search(s) \/ Previous(s) \/ NextPage(s)
  PROVE  /\ list' \in Shown /\ list'.shows = "loading"
         /\ \E r \in ListAsked : flight' = [flight EXCEPT ![s] = r]
         /\ ~ Open /\ Free(s) /\ UNCHANGED <<server, filter, review>>
<1>1. list.page \in Nat \ {0}
  BY DEF TypeInv, ListType, Shown
<1>2. \E page \in Nat \ {0} : LoadCandidates(s, page, {})
  <2>1. CASE Search(s)
    BY <2>1 DEF Search
  <2>2. CASE Previous(s)
    BY <1>1, <2>2 DEF Previous
  <2>3. CASE NextPage(s)
    BY <1>1, <2>3 DEF NextPage
  <2>4. QED
    BY <2>1, <2>2, <2>3
<1>3. PICK page \in Nat \ {0} : LoadCandidates(s, page, {})
  BY <1>2
<1>4. ~ Open
  BY DEF Search, Previous, NextPage
<1>5. Free(s) /\ UNCHANGED <<server, filter, review>>
  BY <1>3 DEF LoadCandidates, Send
<1>6. QED
  BY <1>3, <1>4, <1>5, LoadType

LEMMA RefreshMoves ==
  ASSUME NEW s \in Slots, Refresh(s)
  PROVE  /\ TargetsRequest \in Flight /\ flight' = [flight EXCEPT ![s] = TargetsRequest]
         /\ ~ Open /\ ~ Of(s, "list") /\ UNCHANGED <<server, filter, list, review>>
BY DEF Refresh, Send, Free, Of, Flight

\* Loading after the watch targets.
LEMMA TargetsSettledMoves ==
  ASSUME TypeInv, NEW s \in Slots, TargetsSettled(s)
  PROVE  /\ list' \in Shown /\ list'.shows = "loading"
         /\ \E r \in ListAsked : flight' = [flight EXCEPT ![s] = r]
         /\ Of(s, "targets") /\ UNCHANGED <<server, filter, review>>
<1>1. list \in Shown /\ list.page \in Nat \ {0}
  BY DEF TypeInv, ListType, Shown
<1>2. ListRequest(list.page, {}) \in ListAsked
  BY <1>1, AskedType
<1>3. list' \in Shown /\ list'.shows = "loading"
  BY <1>1, EmptySeq DEF TargetsSettled, Shown
<1>4. QED
  BY <1>2, <1>3 DEF TargetsSettled

LEMMA AllowedType ==
  ASSUME NEW st
  PROVE  Allowed(st) \subseteq Action /\ Action \ (Action \ Allowed(st)) = Allowed(st)
BY DEF Allowed, Action

LEMMA ServeType ==
  ASSUME TypeInv, NEW s \in Slots, Serve(s)
  PROVE  TypeInv'
<1>1. FlightType'
  <2>1. CASE CountList(s)
    BY <2>1, CountListMoves, FlightMoves DEF Flight
  <2>2. CASE ReadRows(s)
    BY <2>2, ReadRowsMoves, FlightMoves DEF Flight
  <2>3. CASE ReadDetail(s)
    BY <2>3, ReadDetailMoves, FlightMoves DEF Flight
  <2>4. CASE Review(s)
    BY <2>4, ReviewMoves, FlightMoves DEF Flight
  <2>5. QED
    BY <2>1, <2>2, <2>3, <2>4 DEF Serve
<1>2. UNCHANGED <<filter, list, review>>
  BY DEF Serve, CountList, ReadRows, ReadDetail, Review
<1>3. ServerType'
  <2>1. CASE UNCHANGED server
    BY <2>1 DEF server, TypeInv, ServerType
  <2>2. CASE Review(s)
    <3>1. flight[s] \in ReviewFlight
      BY <2>2, Shapes DEF Review, Is
    <3>2. flight[s].candidate \in Candidates /\ StatusBy[flight[s].action] \in Status
      BY <3>1 DEF ReviewFlight, Action, StatusBy, Status
    <3>3. writing' \in Row /\ status' = status
      BY <2>2, <3>2 DEF Review, Row
    <3>4. QED
      BY <3>3 DEF TypeInv, ServerType
  <2>3. QED
    BY <2>1, <2>2 DEF Serve, CountList, ReadRows, ReadDetail
<1>4. QED
  BY <1>1, <1>2, <1>3 DEF TypeInv, ListType, ReviewType, review

\* What a list answer does: it is shown, or the last page is asked for.
LEMMA ListAnsweredMoves ==
  ASSUME TypeInv, NEW s \in Slots, ListAnswered(s)
  PROVE  /\ list' \in Shown
         /\ list'.shows = "rows" /\ list'.total > 0 => list'.page <= Pages(list'.total)
         /\ \/ /\ list'.shows = "rows" /\ disabled' = disabled \ flight[s].frees
               /\ flight' = [flight EXCEPT ![s] = Unanswered]
            \/ /\ list'.shows = "loading" /\ disabled' = disabled
               /\ \E r \in ListAsked : /\ flight' = [flight EXCEPT ![s] = r]
                                       /\ r.frees = flight[s].frees
<1>1. PICK r : r = flight[s]
  OBVIOUS
<1>2. r \in ListReplied
  BY <1>1, Shapes DEF ListAnswered
<1>3. /\ r.page \in Nat \ {0} /\ r.frees \in SUBSET Action
      /\ r.total \in Nat /\ r.rows \in Seq(Row)
  BY <1>2 DEF ListReplied
<1>4. PICK last : last = Pages(r.total)
  OBVIOUS
<1>5. last \in Nat \ {0}
  BY <1>3, <1>4, PagesType
<1>6. CASE r.total > 0 /\ r.page > last
  <2>1. /\ list' = [page |-> last, total |-> r.total, shows |-> "loading", rows |-> <<>>]
        /\ flight' = [flight EXCEPT ![s] = ListRequest(last, r.frees)]
        /\ disabled' = disabled
    BY <1>1, <1>4, <1>6 DEF ListAnswered
  <2>2. list' \in Shown /\ list'.shows = "loading"
    BY <2>1, <1>3, <1>5, EmptySeq DEF Shown
  <2>3. ListRequest(last, r.frees) \in ListAsked
    BY <1>3, <1>5, AskedType
  <2>4. ListRequest(last, r.frees).frees = r.frees
    BY DEF ListRequest
  <2>5. QED
    BY <1>1, <2>1, <2>2, <2>3, <2>4
<1>7. CASE ~ (r.total > 0 /\ r.page > last)
  <2>1. /\ list' = [page |-> r.page, total |-> r.total, shows |-> "rows", rows |-> r.rows]
        /\ disabled' = disabled \ r.frees
        /\ Answered(s)
    BY <1>1, <1>4, <1>7 DEF ListAnswered
  <2>2. list' \in Shown /\ list'.shows = "rows" /\ list'.total = r.total /\ list'.page = r.page
    BY <2>1, <1>3 DEF Shown
  <2>3. r.total > 0 => r.page <= last
    BY <1>3, <1>5, <1>7
  <2>4. QED
    BY <1>1, <1>4, <2>1, <2>2, <2>3 DEF Answered
<1>8. QED
  BY <1>6, <1>7

\* Loading again after a review.
LEMMA ReviewAnsweredMoves ==
  ASSUME TypeInv, NEW s \in Slots, ReviewAnswered(s)
  PROVE  /\ list' \in Shown /\ list'.shows = "loading"
         /\ \E r \in ListAsked : flight' = [flight EXCEPT ![s] = r]
<1>1. flight[s] \in ReviewFlight
  BY Shapes DEF ReviewAnswered, Is
<1>2. {flight[s].action} \in SUBSET Action
  BY <1>1 DEF ReviewFlight
<1>3. list \in Shown /\ list.page \in Nat \ {0}
  BY DEF TypeInv, ListType, Shown
<1>4. ListRequest(list.page, {flight[s].action}) \in ListAsked
  BY <1>2, <1>3, AskedType
<1>5. list' \in Shown /\ list'.shows = "loading"
  BY <1>3, EmptySeq DEF ReviewAnswered, Shown
<1>6. QED
  BY <1>4, <1>5 DEF ReviewAnswered

LEMMA UnansweredType ==
  ASSUME TypeInv, NEW s \in Slots, Answered(s)
  PROVE  FlightType'
BY FlightMoves DEF Answered, Flight

LEMMA ClosedType == Close => ReviewType'
<1>1. Nobody \in Chosen
  BY DEF Nobody, Chosen, Status
<1>2. QED
  BY <1>1 DEF Close, ReviewType

LEMMA DeliverType ==
  ASSUME TypeInv, NEW s \in Slots, Deliver(s)
  PROVE  TypeInv'
<1>1. UNCHANGED server /\ filter' = filter
  BY DEF Deliver, TargetsSettled, ListAnswered, ListFailed, DetailAnswered, DetailFailed,
         ReviewAnswered, ReviewFailed
<1>2. ServerType'
  BY <1>1 DEF server, TypeInv, ServerType
<1>3. CASE ListAnswered(s)
  <2>1. list' \in Shown
    BY <1>3, ListAnsweredMoves
  <2>2. FlightType'
    BY <1>3, ListAnsweredMoves, FlightMoves DEF Flight
  <2>3. ReviewType'
    <3>1. disabled' \subseteq disabled
      BY <1>3, ListAnsweredMoves
    <3>2. QED
      BY <1>3, <3>1 DEF ListAnswered, TypeInv, ReviewType
  <2>4. QED
    BY <1>1, <1>2, <2>1, <2>2, <2>3 DEF TypeInv, ListType
<1>4. CASE ListFailed(s)
  <2>1. list' \in Shown
    BY <1>4, EmptySeq DEF ListFailed, TypeInv, ListType, Shown
  <2>2. FlightType'
    BY <1>4, UnansweredType DEF ListFailed
  <2>3. ReviewType'
    BY <1>4 DEF ListFailed, TypeInv, ReviewType
  <2>4. QED
    BY <1>1, <1>2, <2>1, <2>2, <2>3 DEF TypeInv, ListType
<1>5. CASE DetailAnswered(s)
  <2>1. flight[s] \in DetailFlight
    BY <1>5, Shapes DEF DetailAnswered, Is
  <2>2. [candidate |-> flight[s].candidate, status |-> flight[s].status] \in Chosen
    BY <2>1 DEF DetailFlight, Chosen
  <2>3. ReviewType'
    BY <1>5, <2>2 DEF DetailAnswered, UpdateReviewActions, TypeInv, ReviewType
  <2>4. FlightType'
    BY <1>5, UnansweredType DEF DetailAnswered
  <2>5. QED
    BY <1>1, <1>2, <1>5, <2>3, <2>4 DEF DetailAnswered, TypeInv, ListType
<1>6. CASE DetailFailed(s) \/ ReviewFailed(s)
  <2>1. FlightType'
    BY <1>6, UnansweredType DEF DetailFailed, ReviewFailed
  <2>2. ReviewType' /\ list' = list
    BY <1>6 DEF DetailFailed, ReviewFailed, review, TypeInv, ReviewType
  <2>3. QED
    BY <1>1, <1>2, <2>1, <2>2 DEF TypeInv, ListType
<1>7. CASE ReviewAnswered(s)
  <2>1. list' \in Shown /\ FlightType'
    BY <1>7, ReviewAnsweredMoves, FlightMoves DEF Flight
  <2>2. ReviewType'
    BY <1>7, ClosedType DEF ReviewAnswered
  <2>3. QED
    BY <1>1, <1>2, <2>1, <2>2 DEF TypeInv, ListType
<1>8. CASE TargetsSettled(s)
  <2>1. list' \in Shown /\ FlightType' /\ UNCHANGED review
    BY <1>8, TargetsSettledMoves, FlightMoves DEF Flight
  <2>2. QED
    BY <1>1, <1>2, <2>1 DEF TypeInv, ListType, ReviewType, review
<1>9. QED
  BY <1>3, <1>4, <1>5, <1>6, <1>7, <1>8 DEF Deliver

LEMMA OpenReviewMoves ==
  ASSUME TypeInv, NEW s \in Slots, NEW i \in DOMAIN list.rows, OpenReview(s, i)
  PROVE  /\ selected' \in Row /\ dialog' \in Candidates
         /\ hidden' = Action \ Allowed(selected'.status) /\ disabled' = hidden'
         /\ Free(s) /\ \E r \in DetailFlight : flight' = [flight EXCEPT ![s] = r]
<1>1. list.rows \in Seq(Row)
  BY DEF TypeInv, ListType, Shown
<1>2. list.rows[i] \in Row
  BY <1>1, LenProperties, ElementOfSeq
<1>3. list.rows[i].candidate \in Candidates
  BY <1>2 DEF Row
<1>4. DetailRequest(list.rows[i].candidate) \in DetailFlight
  BY <1>3 DEF DetailRequest, DetailFlight, Status
<1>5. /\ dialog' = list.rows[i].candidate /\ selected' = list.rows[i]
      /\ hidden' = Action \ Allowed(list.rows[i].status)
      /\ disabled' = Action \ Allowed(list.rows[i].status)
      /\ Free(s) /\ flight' = [flight EXCEPT ![s] = DetailRequest(list.rows[i].candidate)]
  BY DEF OpenReview, UpdateReviewActions, Send
<1>6. QED
  BY <1>2, <1>3, <1>4, <1>5

LEMMA ReviewCandidateMoves ==
  ASSUME TypeInv, NEW s \in Slots, NEW a \in Action, ReviewCandidate(s, a)
  PROVE  /\ Free(s) /\ Open
         /\ \E r \in ReviewFlight : flight' = [flight EXCEPT ![s] = r] /\ r.action = a
<1>1. selected.candidate \in Candidates
  BY DEF TypeInv, ReviewType, Chosen, ReviewCandidate
<1>2. ReviewRequest(selected.candidate, a) \in ReviewFlight
  BY <1>1 DEF ReviewRequest, ReviewFlight
<1>3. ReviewRequest(selected.candidate, a).action = a
  BY DEF ReviewRequest
<1>4. QED
  BY <1>2, <1>3 DEF ReviewCandidate, Send

LEMMA UseType ==
  ASSUME TypeInv, NEW s \in Slots, Use(s)
  PROVE  TypeInv'
<1>1. CASE Search(s) \/ Previous(s) \/ NextPage(s)
  <2>1. list' \in Shown /\ FlightType' /\ UNCHANGED <<server, filter, review>>
    BY <1>1, UseLoads, FlightMoves DEF Flight
  <2>2. QED
    BY <2>1 DEF TypeInv, ServerType, ListType, ReviewType, server, review
<1>2. ASSUME NEW i \in DOMAIN list.rows, OpenReview(s, i) PROVE TypeInv'
  <2>1. FlightType'
    BY <1>2, OpenReviewMoves, FlightMoves DEF Flight
  <2>2. Row \subseteq Chosen
    BY DEF Row, Chosen
  <2>3. ReviewType'
    BY <1>2, <2>2, OpenReviewMoves, AllowedType DEF ReviewType
  <2>4. UNCHANGED <<server, filter, list>>
    BY <1>2 DEF OpenReview
  <2>5. QED
    BY <2>1, <2>3, <2>4 DEF TypeInv, ServerType, ListType, server
<1>3. ASSUME NEW a \in Action, ReviewCandidate(s, a) PROVE TypeInv'
  <2>1. FlightType'
    BY <1>3, ReviewCandidateMoves, FlightMoves DEF Flight
  <2>2. ReviewType' /\ UNCHANGED <<server, filter, list>>
    BY <1>3 DEF ReviewCandidate, TypeInv, ReviewType
  <2>3. QED
    BY <2>1, <2>2 DEF TypeInv, ServerType, ListType, server
<1>4. CASE Refresh(s)
  <2>1. FlightType' /\ UNCHANGED <<server, filter, list, review>>
    BY <1>4, RefreshMoves, FlightMoves
  <2>2. QED
    BY <2>1 DEF TypeInv, ServerType, ListType, ReviewType, server, review
<1>5. QED
  BY <1>1, <1>2, <1>3, <1>4 DEF Use

LEMMA TypeStep == TypeInv /\ [Next]_vars => TypeInv'
<1> SUFFICES ASSUME TypeInv, [Next]_vars PROVE TypeInv'
  OBVIOUS
<1>1. CASE UNCHANGED vars
  BY <1>1 DEF vars, server, review, TypeInv, ServerType, ListType, ReviewType, FlightType
<1>2. ASSUME NEW s \in Slots, Serve(s) PROVE TypeInv'
  BY <1>2, ServeType
<1>3. ASSUME NEW s \in Slots, Deliver(s) PROVE TypeInv'
  BY <1>3, DeliverType
<1>4. ASSUME NEW s \in Slots, Use(s) PROVE TypeInv'
  BY <1>4, UseType
<1>5. ASSUME NEW s \in Slots, CompanionFailed(s) PROVE TypeInv'
  <2>1. FlightType'
    BY <1>5, CompanionMoves, FlightMoves DEF Flight
  <2>2. ReviewType' /\ UNCHANGED <<server, filter, list>>
    BY <1>5 DEF CompanionFailed, TypeInv, ReviewType
  <2>3. QED
    BY <2>1, <2>2 DEF TypeInv, ServerType, ListType, server
<1>6. ASSUME NEW f \in Filters, ChangeFilter(f) PROVE TypeInv'
  BY <1>6, Sizes DEF ChangeFilter, TypeInv, ServerType, ListType, ReviewType, FlightType,
                     server, review
<1>7. CASE CloseDialog
  <2>1. ReviewType'
    BY <1>7, ClosedType DEF CloseDialog
  <2>2. UNCHANGED <<server, filter, list, flight>>
    BY <1>7 DEF CloseDialog
  <2>3. QED
    BY <2>1, <2>2 DEF TypeInv, ServerType, ListType, FlightType, server
<1>8. CASE CommitReview
  <2>1. writing \in Row /\ status \in [Candidates -> Status]
    BY <1>8 DEF CommitReview, TypeInv, ServerType
  <2>2. ServerType'
    BY <1>8, <2>1 DEF CommitReview, ServerType, Row
  <2>3. UNCHANGED <<filter, list, review, flight>>
    BY <1>8 DEF CommitReview
  <2>4. QED
    BY <2>2, <2>3 DEF TypeInv, ListType, ReviewType, FlightType, review
<1>9. CASE LoseReview
  BY <1>9 DEF LoseReview, TypeInv, ServerType, ListType, ReviewType, FlightType, review
<1>10. ASSUME NEW c \in Candidates, NEW a \in Action, ReviewElsewhere(c, a) PROVE TypeInv'
  <2>1. StatusBy[a] \in Status
    BY DEF Action, StatusBy, Status
  <2>2. ServerType'
    BY <1>10, <2>1 DEF ReviewElsewhere, TypeInv, ServerType
  <2>3. UNCHANGED <<filter, list, review, flight>>
    BY <1>10 DEF ReviewElsewhere
  <2>4. QED
    BY <2>2, <2>3 DEF TypeInv, ListType, ReviewType, FlightType, review
<1>11. QED
  BY <1>1, <1>2, <1>3, <1>4, <1>5, <1>6, <1>7, <1>8, <1>9, <1>10 DEF Next

(***************************************************************************)
(* Part 3.  The dialog, the table and the buttons.                         *)
(***************************************************************************)

\* An open dialog hides what the selected status does not allow; a closed one
\* has left no button disabled behind.
DialogInv ==
  IF Open THEN selected.candidate \in Candidates /\ hidden = Action \ Allowed(selected.status)
          ELSE disabled = {}

\* Candidates are numbered from one: opening a dialog on one of them opens it.
LEMMA OpenOnCandidate ==
  ASSUME NEW c \in Candidates
  PROVE  c # 0
BY Sizes DEF Candidates

LEMMA DialogStep == TypeInv /\ DialogInv /\ [Next]_vars => DialogInv'
<1> SUFFICES ASSUME TypeInv, DialogInv, [Next]_vars PROVE DialogInv'
  OBVIOUS
<1>1. ASSUME UNCHANGED <<dialog, selected, hidden>>, ~ Open => disabled' \subseteq disabled
      PROVE  DialogInv'
  BY <1>1 DEF DialogInv, Open
<1>2. ASSUME Close PROVE DialogInv'
  BY <1>2 DEF Close, DialogInv, Open
<1>3. CASE UNCHANGED vars
  BY <1>1, <1>3 DEF vars, review
<1>4. ASSUME NEW s \in Slots, Serve(s) PROVE DialogInv'
  BY <1>1, <1>4 DEF Serve, CountList, ReadRows, ReadDetail, Review, review
<1>5. ASSUME NEW s \in Slots, Deliver(s) PROVE DialogInv'
  <2>1. CASE ListAnswered(s)
    <3>1. disabled' \subseteq disabled
      BY <2>1, ListAnsweredMoves
    <3>2. QED
      BY <1>1, <2>1, <3>1 DEF ListAnswered
  <2>2. CASE ListFailed(s) \/ DetailFailed(s) \/ ReviewFailed(s)
    BY <1>1, <2>2 DEF ListFailed, DetailFailed, ReviewFailed, review
  <2>3. CASE DetailAnswered(s) /\ ~ Open
    BY <1>1, <2>3 DEF DetailAnswered
  <2>4. CASE DetailAnswered(s) /\ Open
    <3>1. flight[s] \in DetailFlight
      BY <2>4, Shapes DEF DetailAnswered, Is
    <3>2. flight[s].candidate \in Candidates
      BY <3>1 DEF DetailFlight
    <3>3. /\ selected' = [candidate |-> flight[s].candidate, status |-> flight[s].status]
          /\ hidden' = Action \ Allowed(flight[s].status) /\ dialog' = dialog
      BY <2>4 DEF DetailAnswered, UpdateReviewActions
    <3>4. selected'.candidate \in Candidates /\ hidden' = Action \ Allowed(selected'.status)
      BY <3>2, <3>3
    <3>5. QED
      BY <2>4, <3>3, <3>4 DEF DialogInv, Open
  <2>5. CASE ReviewAnswered(s)
    BY <1>2, <2>5 DEF ReviewAnswered
  <2>6. CASE TargetsSettled(s)
    BY <1>1, <2>6, TargetsSettledMoves DEF review
  <2>7. QED
    BY <1>5, <2>1, <2>2, <2>3, <2>4, <2>5, <2>6 DEF Deliver
<1>6. ASSUME NEW s \in Slots, CompanionFailed(s) PROVE DialogInv'
  BY <1>1, <1>6 DEF CompanionFailed
<1>7. ASSUME NEW s \in Slots, Use(s) PROVE DialogInv'
  <2>1. CASE Search(s) \/ Previous(s) \/ NextPage(s)
    BY <1>1, <2>1, UseLoads DEF review
  <2>2. ASSUME NEW i \in DOMAIN list.rows, OpenReview(s, i) PROVE DialogInv'
    <3>1. /\ selected' \in Row /\ dialog' \in Candidates
          /\ hidden' = Action \ Allowed(selected'.status)
      BY <2>2, OpenReviewMoves
    <3>2. selected'.candidate \in Candidates /\ dialog' # 0
      BY <3>1, OpenOnCandidate DEF Row
    <3>3. QED
      BY <3>1, <3>2 DEF DialogInv, Open
  <2>3. ASSUME NEW a \in Action, ReviewCandidate(s, a) PROVE DialogInv'
    BY <1>1, <2>3 DEF ReviewCandidate
  <2>4. CASE Refresh(s)
    BY <1>1, <2>4, RefreshMoves DEF review
  <2>5. QED
    BY <1>7, <2>1, <2>2, <2>3, <2>4 DEF Use
<1>8. ASSUME NEW f \in Filters, ChangeFilter(f) PROVE DialogInv'
  BY <1>1, <1>8 DEF ChangeFilter, review
<1>9. CASE CloseDialog
  BY <1>2, <1>9 DEF CloseDialog
<1>10. CASE CommitReview \/ LoseReview
  BY <1>1, <1>10 DEF CommitReview, LoseReview, review
<1>11. ASSUME NEW c \in Candidates, NEW a \in Action, ReviewElsewhere(c, a) PROVE DialogInv'
  BY <1>1, <1>11 DEF ReviewElsewhere, review
<1>12. QED
  BY <1>3, <1>4, <1>5, <1>6, <1>7, <1>8, <1>9, <1>10, <1>11 DEF Next

LEMMA TableStep == TypeInv /\ TableIsSound /\ [Next]_vars => TableIsSound'
<1> SUFFICES ASSUME TypeInv, TableIsSound, [Next]_vars PROVE TableIsSound'
  OBVIOUS
\* The table stays, and so does a list request; or it is loading for a new one.
<1>1. ASSUME list' = list, \A s \in Slots : Of(s, "list") => Of(s, "list")'
      PROVE  TableIsSound'
  <2>1. list'.shows = "loading" => \E s \in Slots : Of(s, "list")'
    BY <1>1 DEF TableIsSound
  <2>2. list'.shows = "rows" /\ list'.total > 0 => list'.page <= Pages(list'.total)
    BY <1>1 DEF TableIsSound
  <2>3. QED
    BY <2>1, <2>2 DEF TableIsSound, Pages
<1>2. ASSUME NEW s \in Slots, NEW r \in Flight, flight' = [flight EXCEPT ![s] = r],
             Of(s, "list") => r.kind = "list", list' = list
      PROVE  TableIsSound'
  <2>1. \A t \in Slots : Of(t, "list") => Of(t, "list")'
    BY <1>2, FlightMoves DEF Of
  <2>2. QED
    BY <1>1, <1>2, <2>1
<1>3. ASSUME NEW s \in Slots, NEW r \in ListAsked, flight' = [flight EXCEPT ![s] = r],
             list'.shows = "loading"
      PROVE  TableIsSound'
  <2>1. flight'[s] = r /\ r.kind = "list"
    BY <1>3, FlightMoves DEF Flight, ListAsked
  <2>2. QED
    BY <1>3, <2>1 DEF TableIsSound, Of
<1>4. CASE UNCHANGED vars
  BY <1>1, <1>4 DEF vars, Of
<1>5. ASSUME NEW s \in Slots, Serve(s) PROVE TableIsSound'
  <2>1. list' = list
    BY <1>5 DEF Serve, CountList, ReadRows, ReadDetail, Review
  <2>2. CASE CountList(s) \/ ReadRows(s)
    <3>1. \E r \in ListAsked \cup ListReplied : flight' = [flight EXCEPT ![s] = r]
      BY <2>2, CountListMoves, ReadRowsMoves
    <3>2. PICK r \in ListAsked \cup ListReplied : flight' = [flight EXCEPT ![s] = r]
      BY <3>1
    <3>3. r \in Flight /\ r.kind = "list"
      BY DEF Flight, ListAsked, ListReplied
    <3>4. QED
      BY <1>2, <2>1, <3>2, <3>3
  <2>3. CASE ReadDetail(s)
    BY <1>2, <2>1, <2>3, ReadDetailMoves DEF Flight, Of
  <2>4. CASE Review(s)
    BY <1>2, <2>1, <2>4, ReviewMoves DEF Flight, Of
  <2>5. QED
    BY <1>5, <2>2, <2>3, <2>4 DEF Serve
<1>6. ASSUME NEW s \in Slots, Deliver(s) PROVE TableIsSound'
  <2>1. CASE ListAnswered(s)
    <3>1. list'.shows = "rows" /\ list'.total > 0 => list'.page <= Pages(list'.total)
      BY <2>1, ListAnsweredMoves
    <3>2. CASE list'.shows = "rows"
      BY <3>1, <3>2 DEF TableIsSound, Pages
    <3>3. CASE list'.shows # "rows"
      BY <1>3, <2>1, <3>3, ListAnsweredMoves
    <3>4. QED
      BY <3>2, <3>3
  <2>2. CASE ListFailed(s)
    <3>1. list'.shows = "error"
      BY <2>2 DEF ListFailed, TypeInv, ListType, Shown
    <3>2. QED
      BY <3>1 DEF TableIsSound
  <2>3. CASE DetailAnswered(s) \/ DetailFailed(s) \/ ReviewFailed(s)
    <3>1. flight' = [flight EXCEPT ![s] = Unanswered] /\ list' = list /\ ~ Of(s, "list")
      BY <2>3 DEF DetailAnswered, DetailFailed, ReviewFailed, Answered, Is, Of
    <3>2. QED
      BY <1>2, <3>1 DEF Flight
  <2>4. CASE ReviewAnswered(s)
    BY <1>3, <2>4, ReviewAnsweredMoves
  <2>5. CASE TargetsSettled(s)
    BY <1>3, <2>5, TargetsSettledMoves
  <2>6. QED
    BY <1>6, <2>1, <2>2, <2>3, <2>4, <2>5 DEF Deliver
<1>7. ASSUME NEW s \in Slots, CompanionFailed(s) PROVE TableIsSound'
  <2>1. PICK r \in ListAsked \cup ListReplied : flight' = [flight EXCEPT ![s] = r]
    BY <1>7, CompanionMoves
  <2>2. r \in Flight /\ r.kind = "list"
    BY DEF Flight, ListAsked, ListReplied
  <2>3. QED
    BY <1>2, <1>7, <2>1, <2>2 DEF CompanionFailed
<1>8. ASSUME NEW s \in Slots, Use(s) PROVE TableIsSound'
  <2>1. CASE Search(s) \/ Previous(s) \/ NextPage(s)
    BY <1>3, <2>1, UseLoads
  <2>2. ASSUME NEW i \in DOMAIN list.rows, OpenReview(s, i) PROVE TableIsSound'
    BY <1>2, <2>2, OpenReviewMoves DEF OpenReview, Flight, Free, Of
  <2>3. ASSUME NEW a \in Action, ReviewCandidate(s, a) PROVE TableIsSound'
    BY <1>2, <2>3, ReviewCandidateMoves DEF ReviewCandidate, Flight, Free, Of
  <2>4. CASE Refresh(s)
    BY <1>2, <2>4, RefreshMoves
  <2>5. QED
    BY <1>8, <2>1, <2>2, <2>3, <2>4 DEF Use
<1>9. ASSUME NEW f \in Filters, ChangeFilter(f) PROVE TableIsSound'
  BY <1>1, <1>9 DEF ChangeFilter, Of
<1>10. CASE CloseDialog \/ CommitReview \/ LoseReview
  BY <1>1, <1>10 DEF CloseDialog, CommitReview, LoseReview, Of
<1>11. ASSUME NEW c \in Candidates, NEW a \in Action, ReviewElsewhere(c, a) PROVE TableIsSound'
  BY <1>1, <1>11 DEF ReviewElsewhere, Of
<1>12. QED
  BY <1>4, <1>5, <1>6, <1>7, <1>8, <1>9, <1>10, <1>11 DEF Next

\* A request whose end enables the button of an action.
Enables(r, a) == \/ r.kind = "review" /\ r.action = a
                 \/ r.kind = "list" /\ a \in r.frees

LEMMA ButtonsStep == TypeInv /\ DialogInv /\ ButtonsComeBack /\ [Next]_vars => ButtonsComeBack'
<1> SUFFICES ASSUME TypeInv, DialogInv, ButtonsComeBack, [Next]_vars PROVE ButtonsComeBack'
  OBVIOUS
<1>1. \A a \in disabled \ hidden : \E s \in Slots : Enables(flight[s], a)
  BY DEF ButtonsComeBack, Enables, Of
<1>2. (\A a \in disabled' \ hidden' : \E s \in Slots : Enables(flight'[s], a)) => ButtonsComeBack'
  BY DEF ButtonsComeBack, Enables, Of
<1>3. ASSUME disabled' \subseteq hidden' PROVE ButtonsComeBack'
  BY <1>2, <1>3
<1>4. ASSUME disabled' \ hidden' \subseteq disabled \ hidden, flight' = flight
      PROVE  ButtonsComeBack'
  BY <1>1, <1>2, <1>4
<1>5. ASSUME NEW s \in Slots, NEW r \in Flight, flight' = [flight EXCEPT ![s] = r],
             disabled' \ hidden' \subseteq disabled \ hidden,
             \A a \in disabled' \ hidden' : Enables(flight[s], a) => Enables(r, a)
      PROVE  ButtonsComeBack'
  <2>1. flight'[s] = r /\ \A t \in Slots \ {s} : flight'[t] = flight[t]
    BY <1>5, FlightMoves
  <2>2. ASSUME NEW a \in disabled' \ hidden' PROVE \E t \in Slots : Enables(flight'[t], a)
    <3>1. PICK t \in Slots : Enables(flight[t], a)
      BY <1>1, <1>5
    <3>2. Enables(flight'[t], a)
      BY <1>5, <2>1, <3>1
    <3>3. QED
      BY <3>2
  <2>3. QED
    BY <1>2, <2>2
<1>6. CASE UNCHANGED vars
  BY <1>4, <1>6 DEF vars, review
<1>7. ASSUME NEW s \in Slots, Serve(s) PROVE ButtonsComeBack'
  <2>1. disabled' = disabled /\ hidden' = hidden
    BY <1>7 DEF Serve, CountList, ReadRows, ReadDetail, Review, review
  <2>2. CASE CountList(s) \/ ReadRows(s)
    <3>1. \E r \in ListAsked \cup ListReplied :
             flight' = [flight EXCEPT ![s] = r] /\ r.frees = flight[s].frees /\ Of(s, "list")
      BY <2>2, CountListMoves, ReadRowsMoves
    <3>2. PICK r \in ListAsked \cup ListReplied :
             flight' = [flight EXCEPT ![s] = r] /\ r.frees = flight[s].frees /\ Of(s, "list")
      BY <3>1
    <3>3. r \in Flight /\ r.kind = "list"
      BY DEF Flight, ListAsked, ListReplied
    <3>4. \A a : Enables(flight[s], a) => Enables(r, a)
      BY <3>2, <3>3 DEF Enables, Of
    <3>5. QED
      BY <1>5, <2>1, <3>2, <3>3, <3>4
  <2>3. CASE ReadDetail(s)
    <3>1. PICK r \in DetailFlight : flight' = [flight EXCEPT ![s] = r] /\ Of(s, "detail")
      BY <2>3, ReadDetailMoves
    <3>2. \A a : ~ Enables(flight[s], a)
      BY <3>1 DEF Enables, Of
    <3>3. QED
      BY <1>5, <2>1, <3>1, <3>2 DEF Flight
  <2>4. CASE Review(s)
    <3>1. PICK r \in ReviewFlight : /\ flight' = [flight EXCEPT ![s] = r]
                                    /\ r.action = flight[s].action /\ Of(s, "review")
      BY <2>4, ReviewMoves
    <3>2. \A a : Enables(flight[s], a) => Enables(r, a)
      BY <3>1 DEF Enables, Of, ReviewFlight
    <3>3. QED
      BY <1>5, <2>1, <3>1, <3>2 DEF Flight
  <2>5. QED
    BY <1>7, <2>2, <2>3, <2>4 DEF Serve
<1>8. ASSUME NEW s \in Slots, Deliver(s) PROVE ButtonsComeBack'
  <2>1. CASE ListAnswered(s)
    <3>1. hidden' = hidden /\ Of(s, "list")
      BY <2>1 DEF ListAnswered, Is
    <3>2. CASE disabled' = disabled \ flight[s].frees /\ flight' = [flight EXCEPT ![s] = Unanswered]
      <4>1. \A a \in disabled' \ hidden' : ~ Enables(flight[s], a)
        BY <3>1, <3>2 DEF Enables, Of
      <4>2. QED
        BY <1>5, <3>1, <3>2, <4>1 DEF Flight
    <3>3. ASSUME disabled' = disabled, NEW r \in ListAsked,
                 flight' = [flight EXCEPT ![s] = r], r.frees = flight[s].frees
          PROVE  ButtonsComeBack'
      <4>1. \A a : Enables(flight[s], a) => Enables(r, a)
        BY <3>1, <3>3 DEF Enables, Of, ListAsked
      <4>2. QED
        BY <1>5, <3>1, <3>3, <4>1 DEF Flight
    <3>4. QED
      BY <2>1, <3>2, <3>3, ListAnsweredMoves
  <2>2. CASE ListFailed(s)
    <3>1. /\ hidden' = hidden /\ disabled' = disabled \ flight[s].frees
          /\ flight' = [flight EXCEPT ![s] = Unanswered] /\ Of(s, "list")
      BY <2>2 DEF ListFailed, Answered
    <3>2. \A a \in disabled' \ hidden' : ~ Enables(flight[s], a)
      BY <3>1 DEF Enables, Of
    <3>3. QED
      BY <1>5, <3>1, <3>2 DEF Flight
  <2>3. CASE ReviewFailed(s)
    <3>1. /\ hidden' = hidden /\ disabled' = disabled \ {flight[s].action}
          /\ flight' = [flight EXCEPT ![s] = Unanswered] /\ Of(s, "review")
      BY <2>3 DEF ReviewFailed, Answered
    <3>2. \A a \in disabled' \ hidden' : ~ Enables(flight[s], a)
      BY <3>1 DEF Enables, Of
    <3>3. QED
      BY <1>5, <3>1, <3>2 DEF Flight
  <2>4. CASE DetailFailed(s) \/ (DetailAnswered(s) /\ ~ Open)
    <3>1. /\ hidden' = hidden /\ disabled' = disabled
          /\ flight' = [flight EXCEPT ![s] = Unanswered] /\ Of(s, "detail")
      BY <2>4 DEF DetailFailed, DetailAnswered, Answered, Is, review
    <3>2. \A a : ~ Enables(flight[s], a)
      BY <3>1 DEF Enables, Of
    <3>3. QED
      BY <1>5, <3>1, <3>2 DEF Flight
  <2>5. CASE DetailAnswered(s) /\ Open
    BY <1>3, <2>5 DEF DetailAnswered, UpdateReviewActions
  <2>6. CASE ReviewAnswered(s)
    BY <1>3, <2>6 DEF ReviewAnswered, Close
  <2>7. CASE TargetsSettled(s)
    <3>1. PICK r \in ListAsked : flight' = [flight EXCEPT ![s] = r]
      BY <2>7, TargetsSettledMoves
    <3>2. disabled' = disabled /\ hidden' = hidden /\ Of(s, "targets")
      BY <2>7, TargetsSettledMoves DEF review
    <3>3. \A a : ~ Enables(flight[s], a)
      BY <3>2 DEF Enables, Of
    <3>4. QED
      BY <1>5, <3>1, <3>2, <3>3 DEF Flight
  <2>8. QED
    BY <1>8, <2>1, <2>2, <2>3, <2>4, <2>5, <2>6, <2>7 DEF Deliver
<1>9. ASSUME NEW s \in Slots, CompanionFailed(s) PROVE ButtonsComeBack'
  <2>1. PICK r \in ListAsked \cup ListReplied : flight' = [flight EXCEPT ![s] = r]
    BY <1>9, CompanionMoves
  <2>2. /\ hidden' = hidden /\ disabled' = disabled \ flight[s].frees /\ Of(s, "list")
    BY <1>9 DEF CompanionFailed
  <2>3. \A a \in disabled' \ hidden' : ~ Enables(flight[s], a)
    BY <2>2 DEF Enables, Of
  <2>4. QED
    BY <1>5, <2>1, <2>2, <2>3 DEF Flight
<1>10. ASSUME NEW s \in Slots, Use(s) PROVE ButtonsComeBack'
  <2>1. CASE Search(s) \/ Previous(s) \/ NextPage(s)
    <3>1. ~ Open /\ disabled' = disabled
      BY <2>1, UseLoads DEF review
    <3>2. disabled' = {}
      BY <3>1 DEF DialogInv
    <3>3. QED
      BY <1>3, <3>2
  <2>2. ASSUME NEW i \in DOMAIN list.rows, OpenReview(s, i) PROVE ButtonsComeBack'
    <3>1. disabled' = hidden'
      BY <2>2, OpenReviewMoves
    <3>2. QED
      BY <1>3, <3>1
  <2>3. ASSUME NEW a \in Action, ReviewCandidate(s, a) PROVE ButtonsComeBack'
    <3>1. PICK r \in ReviewFlight : flight' = [flight EXCEPT ![s] = r] /\ r.action = a
      BY <2>3, ReviewCandidateMoves
    <3>2. r \in Flight /\ Enables(r, a)
      BY <3>1 DEF Flight, Enables, ReviewFlight
    <3>3. flight'[s] = r /\ \A t \in Slots \ {s} : flight'[t] = flight[t]
      BY <3>1, <3>2, FlightMoves
    <3>4. hidden' = hidden /\ disabled' = disabled \cup {a} /\ Free(s)
      BY <2>3 DEF ReviewCandidate, Send
    <3>5. \A b : ~ Enables(flight[s], b)
      BY <3>4 DEF Enables, Free, Of
    <3>6. ASSUME NEW b \in disabled' \ hidden' PROVE \E t \in Slots : Enables(flight'[t], b)
      <4>1. CASE b = a
        BY <4>1, <3>2, <3>3
      <4>2. CASE b # a
        <5>1. PICK t \in Slots : Enables(flight[t], b)
          BY <1>1, <3>4, <4>2
        <5>2. t # s
          BY <3>5, <5>1
        <5>3. QED
          BY <3>3, <5>1, <5>2
      <4>3. QED
        BY <4>1, <4>2
    <3>7. QED
      BY <1>2, <3>6
  <2>4. CASE Refresh(s)
    <3>1. ~ Open /\ disabled' = disabled
      BY <2>4, RefreshMoves DEF review
    <3>2. disabled' = {}
      BY <3>1 DEF DialogInv
    <3>3. QED
      BY <1>3, <3>2
  <2>5. QED
    BY <1>10, <2>1, <2>2, <2>3, <2>4 DEF Use
<1>11. ASSUME NEW f \in Filters, ChangeFilter(f) PROVE ButtonsComeBack'
  BY <1>4, <1>11 DEF ChangeFilter, review
<1>12. CASE CloseDialog
  BY <1>3, <1>12 DEF CloseDialog, Close
<1>13. CASE CommitReview \/ LoseReview
  BY <1>4, <1>13 DEF CommitReview, LoseReview, review
<1>14. ASSUME NEW c \in Candidates, NEW a \in Action, ReviewElsewhere(c, a) PROVE ButtonsComeBack'
  BY <1>4, <1>14 DEF ReviewElsewhere, review
<1>15. QED
  BY <1>6, <1>7, <1>8, <1>9, <1>10, <1>11, <1>12, <1>13, <1>14 DEF Next

(***************************************************************************)
(* Part 4.  The theorems.                                                  *)
(***************************************************************************)

ConsoleInv == TypeInv /\ DialogInv /\ TableIsSound /\ ButtonsComeBack

LEMMA ConsoleInit == Init => ConsoleInv
<1> SUFFICES ASSUME Init PROVE ConsoleInv
  OBVIOUS
<1>1. <<>> \in Seq(Row)
  BY EmptySeq
<1>2. Nobody \in Chosen
  BY DEF Nobody, Chosen, Status
<1>3. ServerType
  BY DEF Init, ServerType, Status
<1>4. ListType
  BY <1>1 DEF Init, ListType, Shown, Status
<1>5. ReviewType
  BY <1>2 DEF Init, ReviewType
<1>6. FlightType
  BY DEF Init, FlightType, Flight
<1>7. DialogInv
  BY DEF Init, DialogInv, Open
<1>8. TableIsSound
  BY DEF Init, TableIsSound
<1>9. ButtonsComeBack
  BY DEF Init, ButtonsComeBack
<1>10. QED
  BY <1>3, <1>4, <1>5, <1>6, <1>7, <1>8, <1>9 DEF ConsoleInv, TypeInv

LEMMA ConsoleSafety == Spec => []ConsoleInv
<1>1. ConsoleInv /\ [Next]_vars => ConsoleInv'
  BY TypeStep, DialogStep, TableStep, ButtonsStep DEF ConsoleInv
<1>2. QED
  BY ConsoleInit, <1>1, PTL DEF Spec

\* An open dialog offers exactly what the status it last learned allows, in
\* whichever order the answers of its own and of earlier dialogs arrive.
THEOREM OffersMatch == Spec => []OfferedMatchesSelected
<1>1. ConsoleInv => OfferedMatchesSelected
  <2> SUFFICES ASSUME ConsoleInv, Open
               PROVE  selected.candidate # 0 /\ Action \ hidden = Allowed(selected.status)
    BY DEF OfferedMatchesSelected
  <2>1. selected.candidate \in Candidates /\ hidden = Action \ Allowed(selected.status)
    BY DEF ConsoleInv, DialogInv
  <2>2. QED
    BY <2>1, OpenOnCandidate, AllowedType
<1>2. QED
  BY <1>1, ConsoleSafety, PTL

\* The table is never past the end of its total, and says that it is loading
\* only while a request is under way that will replace it.
THEOREM TableStaysSound == Spec => []TableIsSound
<1>1. ConsoleInv => TableIsSound
  BY DEF ConsoleInv
<1>2. QED
  BY <1>1, ConsoleSafety, PTL

\* No end of a review, and none of the loads after it, leaves its button
\* disabled without a request that will enable it.
THEOREM DisabledButtonsReturn == Spec => []ButtonsComeBack
<1>1. ConsoleInv => ButtonsComeBack
  BY DEF ConsoleInv
<1>2. QED
  BY <1>1, ConsoleSafety, PTL

=============================================================================
