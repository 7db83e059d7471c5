------------------------------ MODULE PublicPage ------------------------------
(***************************************************************************)
(* The public page: one page of the public signals that a form selects,    *)
(* the question in the address bar, and the requests in flight.            *)
(*                                                                         *)
(* A handler runs up to its next await; a load aborts the request before   *)
(* it.  The server counts the signals and reads a page of them in two      *)
(* statements.  Which signals match is a number for each filter.           *)
(*                                                                         *)
(* The form may be edited without being submitted; whatever loads next     *)
(* reads all of it.  The addresses of the page are replaced, never pushed, *)
(* so a popstate comes from within the page and finds the address of the   *)
(* last load.                                                              *)
(***************************************************************************)
EXTENDS Naturals, FiniteSets

CONSTANTS
  Searches,     \* values of the form; "any" is that of an empty one
  PageSizes,    \* sizes of a page; 25 is the first one
  MaxSignals,   \* bound: public signals that match a search
  MaxPage,      \* bound: pages an address asks for
  Fetches       \* bound: requests in flight at once

FirstSize == CHOOSE n \in PageSizes : \A m \in PageSizes : n <= m

ASSUME PageAssumption ==
  /\ "any" \in Searches /\ PageSizes \subseteq Nat \ {0} /\ PageSizes # {}
  /\ MaxSignals \in Nat /\ MaxPage \in Nat \ {0}

VARIABLES
  matching,     \* server: signals that match each search
  form,         \* the search in the form
  place,        \* state.page, state.pageSize and state.pages
  address,      \* the question in the address bar
  panel,        \* what the page shows, and for which question
  controller,   \* the fetch of state.controller
  fetch,        \* each request: its question, and the answer it will bring
  resetting     \* the timer that a reset of the form has set

pageVars ==
  <<matching, form, place, address, panel, controller, fetch, resetting>>

PagesOf(total, size) == (total + size - 1) \div size

Question(search, page, size) == [search |-> search, page |-> page, size |-> size]

PublicRequest(asked) == [asked |-> asked, stage |-> "asked", total |-> 0, rows |-> 0]

NoFetch == [stage |-> "none"]

InFlight(f) == fetch[f].stage # "none"

Shows(what) == panel.shows = what

\* The arrows and their label are hidden unless there are rows and pages.
Paging == Shows("rows") /\ place.pages > 1

-----------------------------------------------------------------------------
(* loadSignals up to its await.                                            *)

\* Mutant: the request before is not aborted.
AbortedNever == fetch

\* The first load has set the controller.
Aborted == [fetch EXCEPT ![controller] = NoFetch]

\* It reads the form, replaces the address, and asks for the page.
LoadSignals(f, search, page, size) ==
  LET asked == Question(search, page, size) IN
  /\ Aborted[f] = NoFetch
  /\ controller' = f
  /\ fetch' = [Aborted EXCEPT ![f] = PublicRequest(asked)]
  /\ place' = [place EXCEPT !.page = page, !.size = size]
  /\ address' = asked
  /\ panel' = [shows |-> "loading", of |-> asked]

-----------------------------------------------------------------------------
(* public_signals.                                                         *)

CountSignals(f) ==
  /\ fetch[f].stage = "asked"
  /\ fetch' = [fetch EXCEPT ![f].stage = "counted", ![f].total = matching[fetch[f].asked.search]]
  /\ UNCHANGED <<matching, form, place, address, panel, controller, resetting>>

\* How many rows there are past the offset, at most a page of them.
ReadSignals(f) ==
  LET asked == fetch[f].asked
      past  == (asked.page - 1) * asked.size
      n     == matching[asked.search]
  IN  /\ fetch[f].stage = "counted"
      /\ fetch' = [fetch EXCEPT ![f].stage = "answered",
                     ![f].rows = IF n <= past THEN 0
                                 ELSE IF n - past < asked.size THEN n - past ELSE asked.size]
      /\ UNCHANGED <<matching, form, place, address, panel, controller, resetting>>

\* Candidates are found and reviewed.
SignalsChange(search, n) ==
  /\ matching' = [matching EXCEPT ![search] = n]
  /\ UNCHANGED <<form, place, address, panel, controller, fetch, resetting>>

-----------------------------------------------------------------------------
(* The rest of loadSignals.                                                *)

\* The answer's page and number of pages become the state's, 1 for 0.
SignalsAnswered(f) ==
  LET answer == fetch[f]
      pages  == PagesOf(answer.total, answer.asked.size)
  IN  /\ answer.stage = "answered"
      /\ place' = [place EXCEPT !.page = answer.asked.page,
                                !.pages = IF pages = 0 THEN 1 ELSE pages]
      /\ panel' = [shows |-> IF answer.rows = 0 THEN "nothing" ELSE "rows", of |-> answer.asked]
      /\ fetch' = [fetch EXCEPT ![f] = NoFetch]
      /\ UNCHANGED <<matching, form, address, controller, resetting>>

\* The request is refused, or lost before or after it was served.
SignalsFailed(f) ==
  /\ InFlight(f)
  /\ panel' = [shows |-> "error", of |-> fetch[f].asked]
  /\ fetch' = [fetch EXCEPT ![f] = NoFetch]
  /\ UNCHANGED <<matching, form, place, address, controller, resetting>>

-----------------------------------------------------------------------------
(* Handlers.                                                               *)

EditForm(search) ==
  /\ form' = search
  /\ UNCHANGED <<matching, place, address, panel, controller, fetch, resetting>>

SubmitFilters(f) == LoadSignals(f, form, 1, place.size) /\ UNCHANGED <<matching, form, resetting>>

\* The browser empties the form after the handler, and before its timer.
ResetFilters ==
  /\ form' = "any" /\ resetting' = TRUE
  /\ UNCHANGED <<matching, place, address, panel, controller, fetch>>

ResetTimer(f) ==
  /\ resetting /\ resetting' = FALSE
  /\ LoadSignals(f, form, 1, FirstSize)
  /\ UNCHANGED <<matching, form>>

ChangePageSize(f, size) == LoadSignals(f, form, 1, size) /\ UNCHANGED <<matching, form, resetting>>

PreviousPage(f) ==
  /\ Paging /\ place.page > 1
  /\ LoadSignals(f, form, place.page - 1, place.size)
  /\ UNCHANGED <<matching, form, resetting>>

FollowingPage(f) ==
  /\ Paging /\ place.page < place.pages
  /\ LoadSignals(f, form, place.page + 1, place.size)
  /\ UNCHANGED <<matching, form, resetting>>

TryAgain(f) ==
  /\ Shows("error")
  /\ LoadSignals(f, form, place.page, place.size)
  /\ UNCHANGED <<matching, form, resetting>>

\* hydrateAddress, and a load: a search the address does not name stays in
\* the form.
PopState(f) ==
  /\ form' = IF address.search = "any" THEN form ELSE address.search
  /\ LoadSignals(f, form', address.page, address.size)
  /\ UNCHANGED <<matching, resetting>>

-----------------------------------------------------------------------------
\* Any address may be opened; the first load begins at once.
PageInit ==
  /\ matching \in [Searches -> 0 .. MaxSignals]
  /\ \E search \in Searches, page \in 1 .. MaxPage, size \in PageSizes, f \in Fetches :
       LET asked == Question(search, page, size) IN
       /\ form = search /\ address = asked
       /\ place = [page |-> page, size |-> size, pages |-> 1]
       /\ panel = [shows |-> "loading", of |-> asked]
       /\ controller = f
       /\ fetch = [g \in Fetches |-> IF g = f THEN PublicRequest(asked) ELSE NoFetch]
  /\ resetting = FALSE

Handler(f) ==
  \/ SubmitFilters(f) \/ ResetTimer(f) \/ PreviousPage(f) \/ FollowingPage(f)
  \/ TryAgain(f) \/ PopState(f) \/ \E size \in PageSizes : ChangePageSize(f, size)

PageNext ==
  \/ \E f \in Fetches :
       \/ CountSignals(f) \/ ReadSignals(f)
       \/ SignalsAnswered(f) \/ SignalsFailed(f)
       \/ Handler(f)
  \/ \E search \in Searches :
       EditForm(search) \/ \E n \in 0 .. MaxSignals : SignalsChange(search, n)
  \/ ResetFilters

PageSpec == PageInit /\ [][PageNext]_pageVars

-----------------------------------------------------------------------------
(* Properties.                                                             *)

\* Whatever the order in which answers arrive or fail, a page that loads waits
\* for the question in its address and for no other, and a page that does not
\* shows the answer to that question, which its arrows move on from.
PublicShownIsAsked ==
  LET waiting == {f \in Fetches : InFlight(f)} IN
  /\ Question(address.search, place.page, place.size) = address
  /\ IF Shows("loading")
       THEN \E f \in Fetches : waiting = {f} /\ fetch[f].asked = address
       ELSE waiting = {} /\ panel.of = address

=============================================================================
