------------------------- MODULE MCCollectorAndLogin -------------------------
(***************************************************************************)
(* The collector and the logins of the web process, side by side in one    *)
(* run for TLC: each behaviour is one of theirs, and leaves the other at   *)
(* its initial state, the collector's with a disabled provider.            *)
(***************************************************************************)
EXTENDS Collector, LoginThrottle

VARIABLE component   \* whose behaviour this is

BothVars == <<component, collectorVars, throttleVars>>

BothInit ==
  /\ component \in {"collector", "login"}
  /\ CollectorInit /\ ThrottleInit
  /\ component = "login" => ~ enabled

InCollector(step) == component = "collector" /\ step /\ UNCHANGED <<component, throttleVars>>
InLogin(step)     == component = "login" /\ step /\ UNCHANGED <<component, collectorVars>>

BothNext == InCollector(CollectorNext) \/ InLogin(ThrottleNext)

\* The fairness of Collector and of LoginThrottle.
BothSpec ==
  /\ BothInit /\ [][BothNext]_BothVars
  /\ WF_BothVars(InCollector(Round))
  /\ WF_BothVars(InLogin(Tick))
  /\ \A l \in Logins : WF_BothVars(InLogin(Proceed(l)))

=============================================================================
