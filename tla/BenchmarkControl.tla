--------------------------- MODULE BenchmarkControl ---------------------------
(***************************************************************************)
(* Both stage controllers on one benchmark.  stop_after.py takes           *)
(* control.lock and stop-after-current.py stop-current.lock, so nothing    *)
(* keeps the two apart: each may run, crash and be launched again at any   *)
(* step of the other, and they share the runner, its results and           *)
(* stage-summary.json.                                                     *)
(***************************************************************************)
EXTENDS StageReport

CONSTANTS
  Targets,           \* the values of --target for stop_after.py
  ControlMayVanish,  \* may control.json be unreadable when it is read?
  StateMayVanish     \* may stop-current.json?

ASSUME TargetsAssumption == Targets \subseteq 1 .. N
ASSUME ControlMayVanishAssumption == ControlMayVanish \in BOOLEAN
ASSUME StateMayVanishAssumption == StateMayVanish \in BOOLEAN

VARIABLES
  control, apc, tgt, aident,  \* stop_after.py: control, pc, tgt, ident
  state, bpc, fd, bident,     \* stop-after-current.py: state, pc, fd, ident
  sentBy,  \* history: the SIGINTs of each controller that reached a process
  forgets  \* history: how often control.json stopped saying signal_sent

After == INSTANCE StopAfter WITH pc <- apc, ident <- aident
Current == INSTANCE StopAfterCurrent WITH pc <- bpc, ident <- bident

afterVars == <<control, apc, tgt, aident>>
currentVars == <<state, bpc, fd, bident>>
historyVars == <<sentBy, forgets>>
vars == <<afterVars, currentVars, historyVars, summary, envVars>>

Init ==
  /\ After!Init
  /\ Current!Init
  /\ sentBy = [after |-> 0, current |-> 0]
  /\ forgets = 0

\* Bound: the histories stop at SentCap, as sent does.
Capped(n) == IF n < SentCap THEN n + 1 ELSE n

AfterStep ==
  /\ After!Launch \/ After!Controller \/ After!Crash
  /\ UNCHANGED currentVars
  /\ sentBy' = IF sent' # sent THEN [sentBy EXCEPT !.after = Capped(@)] ELSE sentBy
  /\ forgets' = IF control.signal_sent /\ ~control'.signal_sent
                  THEN Capped(forgets) ELSE forgets

CurrentStep ==
  /\ \/ Current!Launch \/ Current!LaunchUnreadable
     \/ Current!Controller \/ Current!Crash
  /\ UNCHANGED afterVars
  /\ sentBy' = IF sent' # sent THEN [sentBy EXCEPT !.current = Capped(@)] ELSE sentBy
  /\ UNCHANGED forgets

World ==
  /\ (EnvNext /\ UNCHANGED summary) \/ ManualReport
  /\ UNCHANGED <<afterVars, currentVars, historyVars>>

Next == AfterStep \/ CurrentStep \/ World

Spec == Init /\ [][Next]_vars

-----------------------------------------------------------------------------
(* Properties *)

\* Each controller's SIGINTs are the ones it has written down and forgotten
\* since: stop-after-current.py sends one at most, also when stop-current.json
\* is lost after it, and stop_after.py one more only when control.json, which
\* recorded the one before, was replaced or taken for absent.  Neither sees the
\* other's.
NoUnaccountedSignal ==
  /\ sentBy.current <= IF state.attempted \/ Current!Erased THEN 1 ELSE 0
  /\ sentBy.after <= forgets + IF control.signal_sent THEN 1 ELSE 0

\* Every SIGINT, also a repeated one, has been waited for by the controller that
\* sends it, whatever the other has done meanwhile: all results of the prefix
\* this launch of stop_after.py was asked for, or the durable attempt and the
\* proved frozen case of stop-after-current.py.
SignalsAreAwaited ==
  [][sent' # sent =>
       \/ apc = "kill" /\ After!results_complete(tgt)
       \/ bpc = "send" /\ state.attempted /\ result[state.frozen] = "good"]_vars

\* Whichever of the two has stopped the runner, neither says it has gone while
\* it runs, also when it took the other one's signal for its own.
BothExitClaimsAreTrue == After!ExitClaimsAreTrue /\ Current!ExitClaimsAreTrue

\* With both writing stage-summary.json, neither claims a report for a prefix
\* that is not verified.
BothReportsCoverPrefix == After!ReportCoversPrefix /\ Current!ReportCoversPrefix
=============================================================================
