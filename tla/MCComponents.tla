---------------------------- MODULE MCComponents -----------------------------
(***************************************************************************)
(* The components that share no variable, side by side in one run for TLC: *)
(* each behaviour is one of theirs, and leaves the others as they begin,   *)
(* the start-up with a database of a newer release, which it refuses.      *)
(***************************************************************************)
EXTENDS PublicPage, CandidateEvidence, ProviderStatus, DomainMatching, Restore,
        SchemaMigration

VARIABLE component   \* whose behaviour this is

\* The other components' behaviours begin with one state of the page.
PlainPage ==
  /\ form = "any" /\ place.page = 1 /\ place.size = FirstSize
  /\ matching = [search \in Searches |-> 0]
  /\ controller = CHOOSE f \in Fetches : TRUE

ComponentsInit ==
  /\ component \in {"page", "evidence", "calls", "matching", "restore", "startup"}
  /\ PageInit /\ EvidenceInit /\ CallsInit /\ MatchingInit /\ RestoreInit /\ Init
  /\ component # "page" => PlainPage
  /\ component # "startup" => Newer \in history /\ triggers

OtherVars == <<pageVars, evidenceVars, callVars, matchingVars, restoreVars>>
EveryVar  == <<component, OtherVars, vars>>

InStartup(move) == component = "startup" /\ move /\ UNCHANGED <<component, OtherVars>>

ComponentsNext ==
  \/ /\ component = "page" /\ PageNext
     /\ UNCHANGED <<component, evidenceVars, callVars, matchingVars, restoreVars, vars>>
  \/ /\ component = "evidence" /\ EvidenceNext
     /\ UNCHANGED <<component, pageVars, callVars, matchingVars, restoreVars, vars>>
  \/ /\ component = "calls" /\ CallsNext
     /\ UNCHANGED <<component, pageVars, evidenceVars, matchingVars, restoreVars, vars>>
  \/ /\ component = "matching" /\ MatchingNext
     /\ UNCHANGED <<component, pageVars, evidenceVars, callVars, restoreVars, vars>>
  \/ /\ component = "restore" /\ RestoreNext
     /\ UNCHANGED <<component, pageVars, evidenceVars, callVars, matchingVars, vars>>
  \/ InStartup(Next)

\* The fairness of SchemaMigration; the others promise nothing to happen.
ComponentsSpec ==
  /\ ComponentsInit /\ [][ComponentsNext]_EveryVar
  /\ \A p \in Processes : /\ WF_EveryVar(InStartup(Initialize(p)))
                          /\ WF_EveryVar(InStartup(Restart(p)))

=============================================================================
