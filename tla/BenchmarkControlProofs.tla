------------------------ MODULE BenchmarkControlProofs ------------------------
(***************************************************************************)
(* Proofs about both stage controllers on one benchmark, for every number  *)
(* of cases, every quality of results, every successor of the recorded pid *)
(* and every set of targets, and whichever files cannot be read.  What was *)
(* proved of each controller alone is cited here: its invariant survives   *)
(* any drift of the benchmark, and for it the other controller is no more  *)
(* than that, apart from the signals.                                      *)
(***************************************************************************)
EXTENDS BenchmarkControl, BenchmarkProofs

AfterP == INSTANCE StopAfterProofs WITH pc <- apc, ident <- aident
CurrentP == INSTANCE StopAfterCurrentProofs WITH pc <- bpc, ident <- bident

\* A cited lemma comes with the assumptions on the constants.
USE NAssumption, QualitiesAssumption, SuccessorsAssumption,
    SpecMayVanishAssumption, TargetsAssumption, ControlMayVanishAssumption,
    StateMayVanishAssumption

\* The steps of each controller, as its own proofs know them.
OwnAfter == AfterP!Launch \/ AfterP!Controller \/ AfterP!Crash
OwnCurrent ==
  \/ CurrentP!Launch \/ CurrentP!LaunchUnreadable
  \/ CurrentP!Controller \/ CurrentP!Crash

\* The inductive invariant: both hold together.
IInv == AfterP!IInv /\ CurrentP!IInv

\* The histories count up to SentCap.
HistoriesTypeOK ==
  /\ sentBy \in [after : 0 .. SentCap, current : 0 .. SentCap]
  /\ forgets \in 0 .. SentCap

\* stop_after.py sends only what control.json says, or said before it was
\* replaced; a signal that is recorded and not yet sent is one too few.
AfterAccounts ==
  /\ AfterP!RecordPrecedesSignal
  /\ sentBy.after <= forgets + IF control.signal_sent THEN 1 ELSE 0
  /\ apc = "kill" => sentBy.after <= forgets

\* stop-after-current.py sends once, with its attempt recorded or erased since.
CurrentAccounts ==
  /\ sentBy.current <= IF state.attempted \/ CurrentP!Erased THEN 1 ELSE 0
  /\ bpc = "send" => sentBy.current = 0

\* With the signals of both.
SInv == IInv /\ HistoriesTypeOK /\ AfterAccounts /\ CurrentAccounts

\* With the claims of stop-after-current.py that the runner has gone.
CInv == AfterP!IInv /\ CurrentP!CInv

-----------------------------------------------------------------------------
(* The instances speak of the same benchmark. *)

\* The steps of stop_after.py are those its proofs are about.
LEMMA SameAfter ==
  After!Launch \/ After!Controller \/ After!Crash => OwnAfter
BY DEF OwnAfter,
     After!Launch, After!Controller, After!Crash, After!load_runner_spec,
     After!ReadControl, After!Resume, After!Reverify, After!Identify,
     After!Check, After!Probe, After!Verify, After!RecordSignal,
     After!SendSignal, After!AwaitExit, After!Precheck, After!Report,
     After!ReportBroke, After!ReadSummary, After!Upload, After!GoTo,
     After!Leave, After!Loaded, After!Fresh, After!update_control,
     After!Return, After!Mark, After!Fail, After!FailUnloaded,
     After!live_identity, After!Exited, After!Replaced, After!Live,
     After!results_complete, After!ValidResult, After!ValidEvidence,
     After!PrefixAccepted, After!WriteSummary, After!Strike, After!SentCap,
     After!Alive, After!NoProc, After!Runners, After!envVars, AfterP!Launch,
     AfterP!Controller, AfterP!Crash, AfterP!load_runner_spec,
     AfterP!ReadControl, AfterP!Resume, AfterP!Reverify, AfterP!Identify,
     AfterP!Check, AfterP!Probe, AfterP!Verify, AfterP!RecordSignal,
     AfterP!SendSignal, AfterP!AwaitExit, AfterP!Precheck, AfterP!Report,
     AfterP!ReportBroke, AfterP!ReadSummary, AfterP!Upload, AfterP!GoTo,
     AfterP!Leave, AfterP!Loaded, AfterP!Fresh, AfterP!update_control,
     AfterP!Return, AfterP!Mark, AfterP!Fail, AfterP!FailUnloaded,
     AfterP!live_identity, AfterP!Exited, AfterP!Replaced, AfterP!Live,
     AfterP!results_complete, AfterP!ValidResult, AfterP!ValidEvidence,
     AfterP!PrefixAccepted, AfterP!WriteSummary, AfterP!Strike,
     AfterP!SentCap, AfterP!Alive, AfterP!NoProc, AfterP!Runners,
     AfterP!envVars

\* So are those of stop-after-current.py.
LEMMA SameCurrent ==
  Current!Launch \/ Current!LaunchUnreadable \/ Current!Controller \/ Current!Crash
    => OwnCurrent
BY DEF OwnCurrent,
     Current!Launch, Current!LaunchUnreadable, Current!NoState,
     CurrentP!LaunchUnreadable, CurrentP!NoState, Current!Controller, Current!Crash, Current!ReadSpec,
     Current!OpenPidfd, Current!Identify, Current!RefuseSources,
     Current!Resume, Current!Install, Current!CheckResult, Current!Watch,
     Current!Peek, Current!assert_same_runner, Current!Probe,
     Current!Attempt, Current!Send, Current!AwaitExit, Current!Report,
     Current!ReportBroke, Current!Upload, Current!RefuseChild, Current!GoTo,
     Current!Leave, Current!set_status, Current!Return, Current!Refuse,
     Current!process_exited, Current!Signallable, Current!identify_runner,
     Current!AlienResult, Current!saved_result, Current!report_target,
     Current!ValidResult, Current!ValidEvidence, Current!PrefixAccepted,
     Current!WriteSummary, Current!Strike, Current!SentCap, Current!Alive,
     Current!NoProc, Current!NoCase, Current!Runners, Current!envVars,
     Current!TERMINAL_STATUSES, CurrentP!Launch, CurrentP!Controller,
     CurrentP!Crash, CurrentP!ReadSpec, CurrentP!OpenPidfd,
     CurrentP!Identify, CurrentP!RefuseSources, CurrentP!Resume,
     CurrentP!Install, CurrentP!CheckResult, CurrentP!Watch, CurrentP!Peek,
     CurrentP!assert_same_runner, CurrentP!Probe, CurrentP!Attempt,
     CurrentP!Send, CurrentP!AwaitExit, CurrentP!Report,
     CurrentP!ReportBroke, CurrentP!Upload, CurrentP!RefuseChild,
     CurrentP!GoTo, CurrentP!Leave, CurrentP!set_status, CurrentP!Return,
     CurrentP!Refuse, CurrentP!process_exited, CurrentP!Signallable,
     CurrentP!identify_runner, CurrentP!AlienResult, CurrentP!saved_result,
     CurrentP!report_target, CurrentP!ValidResult, CurrentP!ValidEvidence,
     CurrentP!PrefixAccepted, CurrentP!WriteSummary, CurrentP!Strike,
     CurrentP!SentCap, CurrentP!Alive, CurrentP!NoProc, CurrentP!NoCase,
     CurrentP!Runners, CurrentP!envVars, CurrentP!TERMINAL_STATUSES

\* And the drift of the benchmark means the same to all of them.
LEMMA SameDriftA ==
  Drift <=> AfterP!Drift
BY DEF
     Drift, EnvInv, EnvTypeOK, SummaryTypeOK, NothingBeyondActive, HeldOnce,
     OriginalFirst, Cases, QualitySet, SentCap, NoProc, NoCase, Procs,
     Runners, AfterP!Drift, AfterP!EnvInv, AfterP!EnvTypeOK,
     AfterP!SummaryTypeOK, AfterP!NothingBeyondActive, AfterP!HeldOnce,
     AfterP!OriginalFirst, AfterP!Cases, AfterP!QualitySet, AfterP!SentCap,
     AfterP!NoProc, AfterP!NoCase, AfterP!Procs, AfterP!Runners
\* The same for the other instance.
LEMMA SameDriftC ==
  Drift <=> CurrentP!Drift
BY DEF
     Drift, EnvInv, EnvTypeOK, SummaryTypeOK, NothingBeyondActive, HeldOnce,
     OriginalFirst, Cases, QualitySet, SentCap, NoProc, NoCase, Procs,
     Runners, CurrentP!Drift, CurrentP!EnvInv, CurrentP!EnvTypeOK,
     CurrentP!SummaryTypeOK, CurrentP!NothingBeyondActive,
     CurrentP!HeldOnce, CurrentP!OriginalFirst, CurrentP!Cases,
     CurrentP!QualitySet, CurrentP!SentCap, CurrentP!NoProc,
     CurrentP!NoCase, CurrentP!Procs, CurrentP!Runners

\* What each invariant says of the benchmark.
LEMMA BenchmarkSound == AfterP!IInv => EnvInv
<1>1. AfterP!IInv => AfterP!EnvInv
  BY DEF AfterP!IInv, AfterP!TypeOK, AfterP!EnvInv
<1> QED
  BY <1>1 DEF
     EnvInv, EnvTypeOK, SummaryTypeOK, NothingBeyondActive, HeldOnce,
     OriginalFirst, Cases, QualitySet, SentCap, NoProc, NoCase, Procs,
     Runners, AfterP!EnvInv, AfterP!EnvTypeOK, AfterP!SummaryTypeOK,
     AfterP!NothingBeyondActive, AfterP!HeldOnce, AfterP!OriginalFirst,
     AfterP!Cases, AfterP!QualitySet, AfterP!SentCap, AfterP!NoProc,
     AfterP!NoCase, AfterP!Procs, AfterP!Runners

-----------------------------------------------------------------------------
(* The three kinds of steps *)

\* A step of one of the controllers, or one that leaves both alone.
LEMMA StepKinds ==
  ASSUME AfterP!IInv, [Next]_vars
  PROVE  \/ AfterStep /\ OwnAfter
         \/ CurrentStep /\ OwnCurrent
         \/ Drift /\ UNCHANGED <<afterVars, currentVars, historyVars, sent, struck>>
<1>1. EnvInv
  BY BenchmarkSound
<1>2. CASE UNCHANGED vars
  <2>1. UNCHANGED <<holder, past, zombie, active, beat, result, specOK, sent, struck, summary>>
    BY <1>2 DEF vars, envVars
  <2>2. SummaryTypeOK' /\ sent' \in 0 .. SentCap /\ struck' \subseteq Procs
    BY <1>1, <2>1 DEF EnvInv, EnvTypeOK, SummaryTypeOK
  <2> QED
    BY <1>1, <1>2, <2>1, <2>2, ControllersDrift DEF vars
<1>3. CASE World
  BY <1>1, <1>3, SurroundingsDrift, SurroundingsSendNothing DEF World, Surroundings
<1>4. AfterStep => OwnAfter
  BY SameAfter DEF AfterStep
<1>5. CurrentStep => OwnCurrent
  BY SameCurrent DEF CurrentStep
<1> QED
  BY <1>2, <1>3, <1>4, <1>5 DEF Next

\* To stop-after-current.py a step of stop_after.py is a drift.
LEMMA AfterDrifts ==
  ASSUME AfterP!IInv, AfterStep, OwnAfter
  PROVE  AfterP!Drift /\ CurrentP!Drift /\ UNCHANGED CurrentP!ctlVars
<1>1. AfterP!Drift
  BY AfterP!OwnSteps DEF OwnAfter
<1> QED
  BY <1>1, SameDriftA, SameDriftC DEF AfterStep, currentVars, CurrentP!ctlVars

\* And the other way round.
LEMMA CurrentDrifts ==
  ASSUME CurrentP!IInv, CurrentStep, OwnCurrent
  PROVE  AfterP!Drift /\ CurrentP!Drift /\ UNCHANGED AfterP!ctlVars
<1>1. CurrentP!Drift
  BY CurrentP!OwnSteps DEF OwnCurrent
<1> QED
  BY <1>1, SameDriftA, SameDriftC DEF CurrentStep, afterVars, AfterP!ctlVars

\* Both invariants survive every step.
LEMMA StepKeepsIInv == IInv /\ [Next]_vars => IInv'
<1> SUFFICES ASSUME AfterP!IInv, CurrentP!IInv, [Next]_vars
             PROVE  AfterP!IInv' /\ CurrentP!IInv'
  BY DEF IInv
<1>1. CASE AfterStep /\ OwnAfter
  BY <1>1, AfterDrifts, AfterP!OwnKeepsIInv, CurrentP!DriftKeepsIInv DEF OwnAfter
<1>2. CASE CurrentStep /\ OwnCurrent
  BY <1>2, CurrentDrifts, CurrentP!OwnKeepsIInv, AfterP!DriftKeepsIInv DEF OwnCurrent
<1>3. CASE Drift /\ UNCHANGED <<afterVars, currentVars>>
  BY <1>3, SameDriftA, SameDriftC, AfterP!DriftKeepsIInv, CurrentP!DriftKeepsIInv
  DEF afterVars, currentVars, AfterP!ctlVars, CurrentP!ctlVars
<1> QED
  BY <1>1, <1>2, <1>3, StepKinds

\* Both hold at first.
LEMMA InitBoth == Init => AfterP!IInv /\ CurrentP!IInv /\ sent = 0
<1> SUFFICES ASSUME Init PROVE AfterP!IInv /\ CurrentP!IInv /\ sent = 0
  OBVIOUS
<1>1. AfterP!Init
  BY DEF Init,
     After!Init, After!EnvInit, After!SummaryInit, After!Fresh,
     After!NoProc, After!NoCase, After!Cases, AfterP!Init, AfterP!EnvInit,
     AfterP!SummaryInit, AfterP!Fresh, AfterP!NoProc, AfterP!NoCase,
     AfterP!Cases
<1>2. CurrentP!Init
  BY DEF Init,
     Current!Init, Current!EnvInit, Current!SummaryInit, Current!NoState,
     Current!NoProc, Current!NoCase, Current!Cases, CurrentP!Init,
     CurrentP!EnvInit, CurrentP!SummaryInit, CurrentP!NoState,
     CurrentP!NoProc, CurrentP!NoCase, CurrentP!Cases
<1>3. sent = 0
  BY <1>1 DEF AfterP!Init, AfterP!EnvInit
<1> QED
  BY <1>1, <1>2, <1>3, AfterP!InitIInv, CurrentP!InitIInv

-----------------------------------------------------------------------------
(* Reports *)

\* The invariant of both holds of every behaviour.
THEOREM Inductive == Spec => []IInv
<1>1. Init => IInv
  BY InitBoth DEF IInv
<1> QED
  BY <1>1, StepKeepsIInv, PTL DEF Spec

\* With both controllers writing stage-summary.json, neither claims a report
\* for a prefix that is not verified.
THEOREM ReportsVerified == Spec => []BothReportsCoverPrefix
<1>1. IInv => BothReportsCoverPrefix
  BY DEF IInv, AfterP!IInv, CurrentP!IInv, BothReportsCoverPrefix,
     After!ReportCoversPrefix, AfterP!ReportCoversPrefix,
     Current!ReportCoversPrefix, CurrentP!ReportCoversPrefix,
     After!ReportClaims, After!PrefixAccepted, After!ValidResult,
     After!ValidEvidence, AfterP!ReportClaims, AfterP!PrefixAccepted,
     AfterP!ValidResult, AfterP!ValidEvidence, Current!report_target,
     Current!PrefixAccepted, Current!ValidResult, Current!ValidEvidence,
     CurrentP!report_target, CurrentP!PrefixAccepted, CurrentP!ValidResult,
     CurrentP!ValidEvidence
<1> QED
  BY <1>1, Inductive, PTL

-----------------------------------------------------------------------------
(* Signals *)

\* The steps of stop_after.py account for its signals.
LEMMA AfterStepAccounts ==
  ASSUME SInv, AfterStep, OwnAfter
  PROVE  HistoriesTypeOK' /\ AfterAccounts' /\ CurrentAccounts'
<1>1. /\ AfterP!RecordPrecedesSignal'
      /\ apc' = "kill" <=> AfterP!RecordSignal
      /\ AfterP!RecordSignal => ~control.signal_sent /\ control'.signal_sent
      /\ ~AfterP!RecordSignal /\ control'.signal_sent => control.signal_sent
      /\ AfterP!SendSignal => control'.signal_sent
      /\ ~AfterP!SendSignal => sent' = sent
  BY AfterP!AroundTheSignal DEF OwnAfter, SInv, IInv, AfterAccounts
<1>2. AfterP!SendSignal => apc = "kill"
  BY DEF AfterP!SendSignal
<1>3. /\ UNCHANGED currentVars
      /\ sentBy' = IF sent' # sent THEN [sentBy EXCEPT !.after = Capped(@)] ELSE sentBy
      /\ forgets' = IF control.signal_sent /\ ~control'.signal_sent
                      THEN Capped(forgets) ELSE forgets
  BY DEF AfterStep
<1>4. \A n \in 0 .. SentCap : Capped(n) \in 0 .. SentCap /\ Capped(n) <= n + 1
                              /\ Capped(n) >= n /\ (Capped(n) = n + 1 \/ n = SentCap)
  BY DEF Capped, SentCap
<1>5. HistoriesTypeOK'
  BY <1>3, <1>4 DEF SInv, HistoriesTypeOK
<1>6. /\ sentBy'.after = IF sent' # sent THEN Capped(sentBy.after) ELSE sentBy.after
      /\ sentBy'.current = sentBy.current
  BY <1>3 DEF SInv, HistoriesTypeOK
<1>7. CurrentAccounts'
  BY <1>3, <1>6 DEF SInv, CurrentAccounts, CurrentP!Erased, currentVars, CurrentP!NoCase
<1>t. /\ sentBy.after \in 0 .. SentCap /\ sentBy'.after \in 0 .. SentCap
      /\ forgets \in 0 .. SentCap /\ forgets' \in 0 .. SentCap
  BY <1>5 DEF SInv, HistoriesTypeOK
<1>8. AfterP!SendSignal => AfterAccounts'
  BY <1>1, <1>2, <1>3, <1>4, <1>6, <1>t
  DEF SInv, AfterAccounts, AfterP!RecordPrecedesSignal, SentCap
<1>9. ~AfterP!SendSignal => AfterAccounts'
  BY <1>1, <1>3, <1>4, <1>6, <1>t DEF SInv, AfterAccounts, SentCap
<1> QED
  BY <1>5, <1>7, <1>8, <1>9

\* So do those of stop-after-current.py.
LEMMA CurrentStepAccounts ==
  ASSUME SInv, CurrentStep, OwnCurrent
  PROVE  HistoriesTypeOK' /\ AfterAccounts' /\ CurrentAccounts'
<1>1. /\ state.attempted \/ CurrentP!Erased => state'.attempted \/ CurrentP!Erased'
      /\ bpc' = "send" => ~state.attempted /\ ~CurrentP!Erased
      /\ CurrentP!Send => bpc = "send" /\ bpc' # "send" /\ state.attempted
      /\ ~CurrentP!Send => sent' = sent
  BY CurrentP!OwnSignals, CurrentP!ErasedForGood, CurrentP!OwnSteps
  DEF OwnCurrent, SInv, IInv
<1>2. /\ UNCHANGED afterVars /\ UNCHANGED forgets
      /\ sentBy' = IF sent' # sent THEN [sentBy EXCEPT !.current = Capped(@)] ELSE sentBy
  BY DEF CurrentStep
<1>3. \A n \in 0 .. SentCap : Capped(n) \in 0 .. SentCap /\ Capped(n) <= n + 1
  BY DEF Capped, SentCap
<1>4. HistoriesTypeOK'
  BY <1>2, <1>3 DEF SInv, HistoriesTypeOK
<1>5. /\ sentBy'.current = IF sent' # sent THEN Capped(sentBy.current) ELSE sentBy.current
      /\ sentBy'.after = sentBy.after
  BY <1>2 DEF SInv, HistoriesTypeOK
<1>6. AfterAccounts'
  BY <1>2, <1>5 DEF SInv, AfterAccounts, afterVars, AfterP!RecordPrecedesSignal
<1>t. sentBy.current \in 0 .. SentCap /\ sentBy'.current \in 0 .. SentCap
  BY <1>4 DEF SInv, HistoriesTypeOK
<1>7. CurrentP!Send => CurrentAccounts'
  BY <1>1, <1>3, <1>5, <1>t DEF SInv, CurrentAccounts, SentCap
<1>8. ~CurrentP!Send => CurrentAccounts'
  BY <1>1, <1>5, <1>t DEF SInv, CurrentAccounts, SentCap
<1> QED
  BY <1>4, <1>6, <1>7, <1>8

\* Nobody else sends one.
LEMMA StepKeepsSInv == SInv /\ [Next]_vars => SInv'
<1> SUFFICES ASSUME SInv, [Next]_vars PROVE SInv'
  OBVIOUS
<1>1. IInv' /\ AfterP!IInv
  BY StepKeepsIInv DEF SInv, IInv
<1>2. CASE UNCHANGED <<afterVars, currentVars, historyVars>>
  BY <1>1, <1>2 DEF SInv, HistoriesTypeOK, AfterAccounts, CurrentAccounts, afterVars,
     currentVars, historyVars, AfterP!RecordPrecedesSignal, CurrentP!Erased, CurrentP!NoCase
<1> QED
  BY <1>1, <1>2, StepKinds, AfterStepAccounts, CurrentStepAccounts DEF SInv

\* It holds at first.
LEMMA InitSInv == Init => SInv
<1> SUFFICES ASSUME Init PROVE SInv
  OBVIOUS
<1>1. apc = "idle" /\ bpc = "idle" /\ ~control.signal_sent
  BY DEF Init, After!Init, After!Fresh, Current!Init
<1>2. sentBy = [after |-> 0, current |-> 0] /\ forgets = 0
  BY DEF Init
<1> QED
  BY <1>1, <1>2, InitBoth DEF SInv, IInv, HistoriesTypeOK, AfterAccounts, CurrentAccounts,
     AfterP!RecordPrecedesSignal, SentCap

\* A step that sends a signal has the reason of the controller that takes it.
LEMMA StepsHaveReason ==
  ASSUME IInv, [Next]_vars, sent' # sent
  PROVE  \/ apc = "kill" /\ After!results_complete(tgt)
         \/ bpc = "send" /\ state.attempted /\ result[state.frozen] = "good"
<1>1. AfterP!IInv /\ CurrentP!IInv
  BY DEF IInv
<1>2. CASE AfterStep /\ OwnAfter
  <2>1. AfterP!SendSignal
    BY <1>1, <1>2, AfterP!OwnSteps DEF OwnAfter
  <2>2. apc = "kill" /\ AfterP!results_complete(tgt)
    BY <1>1, <2>1 DEF AfterP!SendSignal, AfterP!IInv, AfterP!DecidedMeansComplete,
       AfterP!Decided
  <2> QED
    BY <2>2 DEF AfterP!results_complete, AfterP!ValidResult, After!results_complete,
       After!ValidResult
<1>3. CASE CurrentStep /\ OwnCurrent
  <2>1. CurrentP!Send /\ bpc = "send" /\ state.attempted
    BY <1>1, <1>3, CurrentP!OwnSteps, CurrentP!OwnSignals DEF OwnCurrent
  <2> QED
    BY <1>1, <2>1 DEF CurrentP!IInv, CurrentP!IntentMeansGood
<1> QED
  BY <1>1, <1>2, <1>3, StepKinds

\* Each controller's SIGINTs are those it has written down, or had before a file
\* was lost, for all targets, crashes and later launches, and whichever files
\* cannot be read.
THEOREM SignalsAccounted == Spec => []NoUnaccountedSignal
<1>1. SInv => NoUnaccountedSignal
  BY DEF SInv, AfterAccounts, CurrentAccounts, NoUnaccountedSignal, Current!Erased,
     CurrentP!Erased, Current!NoCase, CurrentP!NoCase
<1> QED
  BY <1>1, InitSInv, StepKeepsSInv, PTL DEF Spec

\* Each is sent when what the controller that sends it waits for is there.
THEOREM SignalsAwaited == Spec => SignalsAreAwaited
<1>1. IInv /\ [Next]_vars =>
        [sent' # sent =>
           \/ apc = "kill" /\ After!results_complete(tgt)
           \/ bpc = "send" /\ state.attempted /\ result[state.frozen] = "good"]_vars
  BY StepsHaveReason
<1> QED
  BY <1>1, Inductive, PTL DEF Spec, SignalsAreAwaited

-----------------------------------------------------------------------------
(* Claims that the runner has gone *)

\* Both keep telling the truth, whoever stopped the runner.
LEMMA StepKeepsCInv ==
  ASSUME CInv, [Next]_vars, "rerun" \notin Successors
  PROVE  CInv'
<1>i. AfterP!IInv /\ CurrentP!IInv
  BY DEF CInv, CurrentP!CInv
<1>1. AfterP!IInv'
  BY <1>i, StepKeepsIInv DEF IInv
<1>2. CASE AfterStep /\ OwnAfter
  BY <1>1, <1>2, AfterDrifts, CurrentP!DriftKeepsCInv DEF CInv
<1>3. CASE CurrentStep /\ OwnCurrent
  BY <1>1, <1>3, CurrentP!OwnKeepsCInv DEF CInv, OwnCurrent
<1>4. CASE Drift /\ UNCHANGED <<afterVars, currentVars>>
  BY <1>1, <1>4, SameDriftC, CurrentP!DriftKeepsCInv
  DEF CInv, currentVars, CurrentP!ctlVars
<1> QED
  BY <1>i, <1>2, <1>3, <1>4, StepKinds

\* Neither says that the runner has gone while it runs, also when it took the
\* other one's signal for its own, as long as the kernel gives the pid to no
\* other benchmark runner.
THEOREM ExitClaimsTrue ==
  ASSUME "rerun" \notin Successors
  PROVE  Spec => []BothExitClaimsAreTrue
<1>1. Init => CInv
  <2> SUFFICES ASSUME Init PROVE CInv
    OBVIOUS
  <2>1. CurrentP!Init
    BY DEF Init,
     Current!Init, Current!EnvInit, Current!SummaryInit, Current!NoState,
     Current!NoProc, Current!NoCase, Current!Cases, CurrentP!Init,
     CurrentP!EnvInit, CurrentP!SummaryInit, CurrentP!NoState,
     CurrentP!NoProc, CurrentP!NoCase, CurrentP!Cases
  <2> QED
    BY <2>1, InitBoth, CurrentP!InitCInv DEF CInv
<1>2. CInv /\ [Next]_vars => CInv'
  BY StepKeepsCInv
<1>3. CInv => After!ExitClaimsAreTrue
  BY DEF CInv, AfterP!IInv, AfterP!ClaimsMeanGone, AfterP!RunnerGone, AfterP!HeldOnce,
     After!ExitClaimsAreTrue, After!ExitClaims, AfterP!ExitClaims,
     After!Alive, After!NoProc, AfterP!NoProc
<1>4. CInv => Current!ExitClaimsAreTrue
  BY DEF CInv, CurrentP!CInv, CurrentP!IInv, CurrentP!ClaimsMeanGone,
     CurrentP!RunnerGone, CurrentP!HeldOnce, Current!ExitClaimsAreTrue,
     Current!ExitClaims, CurrentP!ExitClaims, Current!Alive, Current!NoProc, CurrentP!NoProc
<1> QED
  BY <1>1, <1>2, <1>3, <1>4, PTL DEF Spec, BothExitClaimsAreTrue
=============================================================================
