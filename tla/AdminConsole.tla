----------------------------- MODULE AdminConsole ----------------------------
(***************************************************************************)
(* The review queue of the operator console: one page of the candidates of *)
(* one status, the dialog that reviews one of them, and the requests they  *)
(* have in flight, whose answers arrive in any order, or fail.             *)
(*                                                                         *)
(* JavaScript runs each handler up to its next await, so a click and the   *)
(* part of a function between two awaits are one action each.  The server  *)
(* counts a list and reads its rows in two statements.                     *)
(*                                                                         *)
(* Candidates are numbered in the order of the list.  False positives are  *)
(* not told apart from closed candidates: the console offers the same for  *)
(* both.  What a closed dialog keeps is not modelled: the next openReview   *)
(* overwrites all of it.                                                   *)
(***************************************************************************)
EXTENDS Naturals, Sequences, FiniteSets, SequencesExt

CONSTANTS
  CandidateCount,  \* rows of candidates
  Filters,         \* statuses the analyst may list next
  PageSize,        \* candidatePageSize
  Slots            \* bound: requests in flight at once

Candidates == 1 .. CandidateCount
Status  == {"potential", "published", "closed"}
Action  == {"publish", "close", "restore"}

ASSUME SizesAssumption ==
  CandidateCount \in Nat /\ PageSize \in Nat \ {0} /\ Filters \subseteq Status

VARIABLES
  status,    \* database: candidates.status
  writing,   \* the review a request has answered and not yet committed, or Nobody
  filter,    \* the form: the status to list
  list,      \* candidatePage, candidateTotal, and what the table shows
  dialog,    \* the candidate in the heading of the open dialog; 0 if it is closed
  selected,  \* state.selectedCandidate; candidate 0 for null
  hidden,    \* disposition buttons hidden for the selected status
  disabled,  \* disposition buttons disabled
  flight     \* each slot: a request, and the answer it will bring

server == <<status, writing>>
review == <<dialog, selected, hidden, disabled>>
vars   == <<server, filter, list, review, flight>>

Nobody == [candidate |-> 0, status |-> "potential"]
Open   == dialog # 0

\* Math.max(1, pages), from the total.
Pages(total) == IF total = 0 THEN 1 ELSE (total + PageSize - 1) \div PageSize

Allowed(s) == CASE s = "closed"    -> {"restore"}
                [] s = "published" -> {"close"}
                [] OTHER           -> {"close", "publish"}

\* What the server accepts: it does not refuse a repeated publication.
Accepted(s) == IF s = "closed" THEN {"restore"} ELSE {"close", "publish"}

StatusBy == [publish |-> "published", close |-> "closed", restore |-> "potential"]

-----------------------------------------------------------------------------
(* Requests.                                                               *)

\* A list request remembers the button that its caller re-enables at the end.
\* The loads beside it (statistics, rules) are taken to arrive before it, or fail.
ListRequest(page, frees) ==
  [kind |-> "list", filter |-> filter, page |-> page, frees |-> frees,
   stage |-> "asked", total |-> 0]

\* Its answer: the page it asked for, the total and the rows.
ListAnswer(r, rows) ==
  [kind |-> "list", page |-> r.page, frees |-> r.frees,
   stage |-> "answered", total |-> r.total, rows |-> rows]

DetailRequest(c) == [kind |-> "detail", candidate |-> c, stage |-> "asked", status |-> "potential"]
ReviewRequest(c, a) == [kind |-> "review", candidate |-> c, action |-> a, stage |-> "asked"]

\* refreshWorkspace begins with the watch targets.
TargetsRequest == [kind |-> "targets"]

Unanswered == [kind |-> "none"]

Of(s, kind) == flight[s].kind = kind
Free(s) == Of(s, "none")
Is(s, kind, stage) == Of(s, kind) /\ flight[s].stage = stage

Send(s, r)  == Free(s) /\ flight' = [flight EXCEPT ![s] = r]
Answered(s) == flight' = [flight EXCEPT ![s] = Unanswered]

-----------------------------------------------------------------------------
(* The server.                                                             *)

\* The rows of a status, in order, as the answer carries them.
Having(f) == {c \in Candidates : status[c] = f}
Nth(of, n) == CHOOSE c \in of : Cardinality({d \in of : d <= c}) = n

Listed(f) ==
  [n \in 1 .. Cardinality(Having(f)) |-> [candidate |-> Nth(Having(f), n), status |-> f]]

Page(seq, page) ==
  LET from == (page - 1) * PageSize + 1
      to   == IF page * PageSize < Len(seq) THEN page * PageSize ELSE Len(seq)
  IN  SubSeq(seq, from, to)

CountList(s) ==
  /\ Is(s, "list", "asked")
  /\ flight' = [flight EXCEPT ![s].stage = "counted", ![s].total = Len(Listed(flight[s].filter))]
  /\ UNCHANGED <<server, filter, list, review>>

ReadRows(s) ==
  /\ Is(s, "list", "counted")
  /\ flight' = [flight EXCEPT ![s] =
                   ListAnswer(@, Page(Listed(flight[s].filter), flight[s].page))]
  /\ UNCHANGED <<server, filter, list, review>>

ReadDetail(s) ==
  /\ Is(s, "detail", "asked")
  /\ flight' = [flight EXCEPT ![s].stage = "answered", ![s].status = status[flight[s].candidate]]
  /\ UNCHANGED <<server, filter, list, review>>

\* The server decides by the status it has, whatever the console showed; what
\* it does not allow, it refuses.  The first write takes the lock, the answer
\* is made, and get_db commits when the handler is done: FastAPI sends the
\* answer before or after that, depending on its version.
Review(s) ==
  LET r == flight[s] IN
  /\ Is(s, "review", "asked")
  /\ writing = Nobody /\ r.action \in Accepted(status[r.candidate])
  /\ writing' = [candidate |-> r.candidate, status |-> StatusBy[r.action]]
  /\ flight' = [flight EXCEPT ![s].stage = "answered"]
  /\ UNCHANGED <<status, filter, list, review>>

CommitReview ==
  /\ writing # Nobody
  /\ status' = [status EXCEPT ![writing.candidate] = writing.status]
  /\ writing' = Nobody
  /\ UNCHANGED <<filter, list, review, flight>>

\* The commit fails, or the process is lost.
LoseReview ==
  /\ writing # Nobody
  /\ writing' = Nobody
  /\ UNCHANGED <<status, filter, list, review, flight>>

\* Another console reviews a candidate.
ReviewElsewhere(c, a) ==
  /\ writing = Nobody /\ a \in Accepted(status[c])
  /\ status' = [status EXCEPT ![c] = StatusBy[a]]
  /\ UNCHANGED <<writing, filter, list, review, flight>>

-----------------------------------------------------------------------------
(* The list.                                                               *)

\* A request is refused, or lost before or after it was served: ListFailed,
\* DetailFailed and ReviewFailed need no more than the request.

\* loadCandidates up to its await: the table says that it is loading.
LoadCandidates(s, page, frees) ==
  /\ list' = [list EXCEPT !.page = page, !.shows = "loading", !.rows = <<>>]
  /\ Send(s, ListRequest(page, frees))
  /\ UNCHANGED <<server, filter, review>>

\* The dialog is modal: the list is used while it is closed.
ChangeFilter(f) ==
  /\ ~ Open
  /\ filter' = f
  /\ UNCHANGED <<server, list, review, flight>>

Search(s)   == ~ Open /\ LoadCandidates(s, 1, {})
Previous(s) == ~ Open /\ list.page > 1 /\ LoadCandidates(s, list.page - 1, {})

NextPage(s) ==
  ~ Open /\ list.page < Pages(list.total) /\ LoadCandidates(s, list.page + 1, {})

\* The refresh button, and the opening of the workspace, load the watch targets
\* first ...
Refresh(s) ==
  /\ ~ Open
  /\ Send(s, TargetsRequest)
  /\ UNCHANGED <<server, filter, list, review>>

\* ... and, whether that succeeded or not, the page and the filter of that later
\* moment, which may be under an open dialog.
TargetsSettled(s) ==
  /\ Of(s, "targets")
  /\ list' = [list EXCEPT !.shows = "loading", !.rows = <<>>]
  /\ flight' = [flight EXCEPT ![s] = ListRequest(list.page, {})]
  /\ UNCHANGED <<server, filter, review>>

\* Mutant: a page past the end is shown.
ListAnsweredBeyond(s) ==
  LET r == flight[s]
  IN  /\ Is(s, "list", "answered")
      /\ list' = [page |-> r.page, total |-> r.total, shows |-> "rows", rows |-> r.rows]
      /\ disabled' = disabled \ r.frees
      /\ Answered(s)
      /\ UNCHANGED <<server, filter, dialog, selected, hidden>>

\* Each answer is shown as it arrives; a page past the end is replaced by the
\* last one, which is asked for with the filter of that moment.
ListAnswered(s) ==
  LET r == flight[s]
      beyond == r.total > 0 /\ r.page > Pages(r.total)
  IN  /\ Is(s, "list", "answered")
      /\ IF beyond
           THEN /\ list' = [page |-> Pages(r.total), total |-> r.total,
                            shows |-> "loading", rows |-> <<>>]
                /\ flight' = [flight EXCEPT ![s] = ListRequest(Pages(r.total), r.frees)]
                /\ UNCHANGED disabled
           ELSE /\ list' = [page |-> r.page, total |-> r.total, shows |-> "rows", rows |-> r.rows]
                /\ disabled' = disabled \ r.frees
                /\ Answered(s)
      /\ UNCHANGED <<server, filter, dialog, selected, hidden>>

ListFailed(s) ==
  /\ Of(s, "list")
  /\ list' = [list EXCEPT !.shows = "error", !.rows = <<>>]
  /\ disabled' = disabled \ flight[s].frees
  /\ Answered(s)
  /\ UNCHANGED <<server, filter, dialog, selected, hidden>>

\* Of the three loads that follow a review, the statistics or the rules fail,
\* and the button does not wait for the list.
CompanionFailed(s) ==
  /\ Of(s, "list") /\ flight[s].frees # {}
  /\ disabled' = disabled \ flight[s].frees
  /\ flight' = [flight EXCEPT ![s].frees = {}]
  /\ UNCHANGED <<server, filter, list, dialog, selected, hidden>>

-----------------------------------------------------------------------------
(* The dialog.                                                             *)

UpdateReviewActions(s) ==
  /\ hidden'   = Action \ Allowed(s)
  /\ disabled' = Action \ Allowed(s)

\* A row is clicked: the dialog shows it at once and asks for its evidence.
OpenReview(s, i) ==
  /\ ~ Open
  /\ dialog' = list.rows[i].candidate
  /\ selected' = list.rows[i]
  /\ UpdateReviewActions(list.rows[i].status)
  /\ Send(s, DetailRequest(list.rows[i].candidate))
  /\ UNCHANGED <<server, filter, list>>

Close ==
  /\ dialog' = 0 /\ selected' = Nobody
  /\ hidden' = {} /\ disabled' = {}

CloseDialog ==
  /\ Open
  /\ Close
  /\ UNCHANGED <<server, filter, list, flight>>

\* Mutant: the evidence is shown, and the buttons stay as the row had them.
DetailAnsweredButtonsStay(s) ==
  /\ Is(s, "detail", "answered")
  /\ IF Open THEN selected' = [candidate |-> flight[s].candidate, status |-> flight[s].status]
             ELSE UNCHANGED selected
  /\ Answered(s)
  /\ UNCHANGED <<server, filter, list, dialog, hidden, disabled>>

\* The answer selects its candidate, whichever one the dialog shows by now.
DetailAnswered(s) ==
  /\ Is(s, "detail", "answered")
  /\ IF Open
       THEN /\ selected' = [candidate |-> flight[s].candidate, status |-> flight[s].status]
            /\ UpdateReviewActions(flight[s].status)
       ELSE UNCHANGED <<selected, hidden, disabled>>
  /\ Answered(s)
  /\ UNCHANGED <<server, filter, list, dialog>>

DetailFailed(s) ==
  /\ Of(s, "detail")
  /\ Answered(s)
  /\ UNCHANGED <<server, filter, list, review>>

\* A disposition button is clicked.  The message of a missing note is left out.
ReviewCandidate(s, a) ==
  /\ Open /\ a \notin hidden \cup disabled
  /\ selected.candidate # 0 /\ a \in Allowed(selected.status)
  /\ disabled' = disabled \cup {a}
  /\ Send(s, ReviewRequest(selected.candidate, a))
  /\ UNCHANGED <<server, filter, list, dialog, selected, hidden>>

\* The dialog closes, whichever candidate it shows by now, and the list is
\* loaded again before the button comes back.
ReviewAnswered(s) ==
  /\ Is(s, "review", "answered")
  /\ Close
  /\ list' = [list EXCEPT !.shows = "loading", !.rows = <<>>]
  /\ flight' = [flight EXCEPT ![s] = ListRequest(list.page, {flight[s].action})]
  /\ UNCHANGED <<server, filter>>

\* Mutant: the button comes back only after a review that succeeded.
ReviewFailedKeepsButton(s) ==
  /\ Of(s, "review")
  /\ Answered(s)
  /\ UNCHANGED <<server, filter, list, review>>

ReviewFailed(s) ==
  /\ Of(s, "review")
  /\ disabled' = disabled \ {flight[s].action}
  /\ Answered(s)
  /\ UNCHANGED <<server, filter, list, dialog, selected, hidden>>

-----------------------------------------------------------------------------
Init ==
  /\ status   = [c \in Candidates |-> "potential"]
  /\ writing  = Nobody
  /\ filter   = "potential"
  /\ list     = [page |-> 1, total |-> 0, shows |-> "nothing", rows |-> <<>>]
  /\ dialog   = 0
  /\ selected = Nobody
  /\ hidden   = {} /\ disabled = {}
  /\ flight   = [s \in Slots |-> Unanswered]

Serve(s) == CountList(s) \/ ReadRows(s) \/ ReadDetail(s) \/ Review(s)

Deliver(s) ==
  \/ TargetsSettled(s)
  \/ ListAnswered(s)   \/ ListFailed(s)
  \/ DetailAnswered(s) \/ DetailFailed(s)
  \/ ReviewAnswered(s) \/ ReviewFailed(s)

Use(s) ==
  \/ Search(s) \/ Refresh(s) \/ Previous(s) \/ NextPage(s)
  \/ \E i \in DOMAIN list.rows : OpenReview(s, i)
  \/ \E a \in Action : ReviewCandidate(s, a)

Next ==
  \/ \E s \in Slots : Serve(s) \/ Deliver(s) \/ CompanionFailed(s) \/ Use(s)
  \/ \E f \in Filters : ChangeFilter(f)
  \/ CloseDialog \/ CommitReview \/ LoseReview
  \/ \E c \in Candidates, a \in Action : ReviewElsewhere(c, a)

Spec == Init /\ [][Next]_vars

-----------------------------------------------------------------------------
Buttons == SUBSET Action
Row     == [candidate : Candidates, status : Status]

ListFlight ==
  [kind : {"list"}, filter : Status, page : 1 .. CandidateCount,
   frees : {{}} \cup {{a} : a \in Action},
   stage : {"asked", "counted"}, total : 0 .. CandidateCount]

ListAnswers ==
  [kind : {"list"}, page : 1 .. CandidateCount,
   frees : {{}} \cup {{a} : a \in Action},
   stage : {"answered"}, total : 0 .. CandidateCount, rows : SeqOf(Row, PageSize)]

DetailFlight ==
  [kind : {"detail"}, candidate : Candidates,
   stage : {"asked", "answered"}, status : Status]

ReviewFlight ==
  [kind : {"review"}, candidate : Candidates, action : Action,
   stage : {"asked", "answered"}]

\* Every variable has its type: the console never asks for a page past the
\* number of candidates there can be.
TypeOK ==
  /\ status \in [Candidates -> Status]
  /\ writing \in Row \cup {Nobody}
  /\ filter \in Status
  /\ list \in [page : 1 .. CandidateCount, total : 0 .. CandidateCount,
               shows : {"nothing", "loading", "rows", "error"},
               rows : SeqOf(Row, PageSize)]
  /\ dialog \in {0} \cup Candidates
  /\ selected \in [candidate : {0} \cup Candidates, status : Status]
  /\ hidden \in Buttons /\ disabled \in Buttons
  /\ \A s \in Slots :
       \/ flight[s] \in {Unanswered, TargetsRequest}
       \/ flight[s] \in ListFlight \cup ListAnswers \cup DetailFlight \cup ReviewFlight

\* An open dialog has a selected candidate, and offers exactly what the
\* status it last learned of that candidate allows (updateReviewActions),
\* whichever answers arrived late.
OfferedMatchesSelected ==
  Open => selected.candidate # 0 /\ Action \ hidden = Allowed(selected.status)

\* The table never shows a page past the end of its own total, although the
\* total may shrink between two loads and answers overtake each other; and
\* one that says it is loading has a request that will replace it, whichever
\* other answers arrived meanwhile.
TableIsSound ==
  /\ list.shows = "rows" /\ list.total > 0 => list.page <= Pages(list.total)
  /\ list.shows = "loading" => \E s \in Slots : Of(s, "list")

\* A button that a review disabled has a request whose end enables it again,
\* however that request ends and whichever dialog is open by then.
ButtonsComeBack ==
  \A a \in disabled \ hidden :
    \E s \in Slots : \/ Of(s, "review") /\ flight[s].action = a
                     \/ Of(s, "list") /\ a \in flight[s].frees

\* The analyst disposes of the candidate the dialog shows ("Inspect the
\* target, score, matching reasons, source observations and review history.
\* Then record a note and choose a disposition", README.md:117).
ReviewIsOfShown ==
  [][\A s \in Slots, a \in Action :
       ReviewCandidate(s, a) => flight'[s].candidate = dialog]_vars

=============================================================================
