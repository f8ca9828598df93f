--------------------------- MODULE StopAfterProofs ---------------------------
(***************************************************************************)
(* Proofs about StopAfter for every number of cases, every quality of      *)
(* results, every successor of the recorded pid and every set of targets.  *)
(* What ends with a change of --target or with an unreadable process.json  *)
(* or control.json (control.json is replaced then) is proved under         *)
(* OneTarget.                                                              *)
(***************************************************************************)
EXTENDS StopAfter, BenchmarkProofs

\* Steps once the runner is identified and recorded.
Identified == {"check", "probe", "verify", "record", "kill", "await"}

\* Steps between the complete prefix and the signal.
Decided == {"verify", "record", "kill"}

\* Steps of an earlier launch's signal, and of the report.
Resuming == {"resume", "reverify"}
Finishing == {"precheck", "report", "summary", "upload"}

\* A launch works on a legal target, and on the control.json of that target
\* once it has found or written one.
LaunchOnTarget ==
  /\ pc # "idle" => tgt \in Targets
  /\ pc \in Identified \union Resuming \union Finishing => control.target = tgt
  /\ pc = "identify" => control.target \in {0, tgt}
  /\ pc \in Identified => control.runner = ident /\ ident # NoProc
  /\ control.target = 0 => control = Fresh(0, "absent")

\* The recorded runner holds the pid or has held it.
RunnerHeldThePid == control.runner \in past \union {holder, NoProc}

\* It has gone, or is a zombie.
RunnerGone ==
  control.runner \in past \union {NoProc} \/ (holder = control.runner /\ zombie)

ClaimsMeanGone ==
  control.status \in ExitClaims \/ pc \in Finishing => RunnerGone

DecidedMeansComplete == pc \in Decided => results_complete(tgt)

ReadMeansAccepted == pc \in {"summary", "upload"} => PrefixAccepted(tgt)

\* The inductive invariant.  It holds whatever signals others send.
IInv ==
  /\ TypeOK
  /\ NothingBeyondActive
  /\ HeldOnce
  /\ OriginalFirst
  /\ LaunchOnTarget
  /\ RunnerHeldThePid
  /\ ClaimsMeanGone
  /\ DecidedMeansComplete
  /\ ReadMeansAccepted
  /\ ReportCoversPrefix

\* The operator never changes --target, and process.json and control.json stay
\* readable.
OneTarget ==
  /\ SpecMayVanish = FALSE
  /\ ControlMayVanish = FALSE
  /\ \A t, u \in Targets : t = u

\* A launch watches only while no signal is recorded, and records its own.
RecordPrecedesSignal ==
  /\ pc \in {"identify", "check", "probe", "verify", "record"} => ~control.signal_sent
  /\ pc = "kill" => control.signal_sent

\* Under OneTarget control.json is never replaced, and remembers the signal
\* that this controller decided on.
Remembers ==
  /\ RecordPrecedesSignal
  /\ specOK
  /\ pc # "anew"
  /\ control.target \in {0} \union Targets
  /\ control.signal_sent => PrefixSaved

MInv == IInv /\ OneTarget /\ Remembers

SentOnce ==
  /\ sent > 0 => control.signal_sent /\ pc # "kill"
  /\ sent <= 1

OInv == MInv /\ SentOnce

-----------------------------------------------------------------------------
(* Typing *)

\* A step of the runner, the kernel or the operator keeps the types.
LEMMA WorldTypeOK == TypeOK /\ World => TypeOK'
<1>1. World => Surroundings
  BY DEF World, Surroundings
<1> QED
  BY <1>1, SurroundingsTypeOK DEF TypeOK, World, ctlVars

\* The record in memory is a legal control.json.
LEMMA LoadedType ==
  ASSUME TypeOK
  PROVE  /\ Loaded \in Controls
         /\ control.target # 0 /\ pc # "anew" => Loaded = control
         /\ \A s \in Statuses : /\ [Loaded EXCEPT !.status = s] \in Controls
                                /\ Fresh(tgt, s) \in Controls
<1>1. \A s \in Statuses : Fresh(tgt, s) \in Controls
  BY DEF TypeOK, Fresh, Controls
<1>2. Loaded \in Controls
  BY <1>1 DEF TypeOK, Loaded, Statuses
<1>3. control.target # 0 /\ pc # "anew" => Loaded = control
  BY DEF Loaded
<1>4. \A s \in Statuses : [Loaded EXCEPT !.status = s] \in Controls
  BY <1>2 DEF Controls
<1> QED
  BY <1>1, <1>2, <1>3, <1>4

\* A step of the controller keeps the types.
LEMMA ControllerTypeOK ==
  TypeOK /\ (Launch \/ Crash \/ Controller) => TypeOK'
<1> SUFFICES ASSUME TypeOK, Launch \/ Crash \/ Controller PROVE TypeOK'
  OBVIOUS
<1>1. UNCHANGED envVars => EnvTypeOK'
  BY DEF TypeOK, EnvTypeOK, envVars
<1>2. UNCHANGED summary => SummaryTypeOK'
  BY DEF TypeOK, SummaryTypeOK
<1>3. WriteSummary(tgt) => SummaryTypeOK'
  BY ReportTypeOK DEF TypeOK
<1>r. [control EXCEPT !.status = "signal_issued", !.signal_sent = TRUE] \in Controls
  BY DEF TypeOK, Controls, Statuses
<1> USE LoadedType DEF TypeOK, Steps, GoTo, Leave, Return, Mark, Fail,
                       FailUnloaded, update_control
<1> DEFINE known == {"identity_or_control_error", "identity_mismatch", "watching",
    "signal_failed", "stop_wait_timeout", "stopped",
    "post_signal_identity_changed", "signal_already_sent_waiting_for_exit",
    "runner_exited_before_target", "report_refused_incomplete_target",
    "report_timeout", "report_failed", "report_invalid", "report_written",
    "complete_without_upload", "complete", "upload_failed", "upload_timeout" }
<1>4. known \subseteq Statuses
  BY DEF Statuses
<1> HIDE DEF known
<1>5. CASE Launch
  BY <1>1, <1>2, <1>5, TargetsAssumption, NAssumption DEF Launch
<1>6. CASE Crash
  BY <1>1, <1>2, <1>6, NAssumption DEF Crash
<1>7. CASE load_runner_spec \/ ReadControl
  <2>1. "identity_or_control_error" \in known
    BY DEF known
  <2>2. control' \in Controls
    BY <1>4, <1>7, <2>1 DEF load_runner_spec, ReadControl
  <2>3. /\ pc' \in Steps \union {"idle"} /\ tgt' \in {tgt, 0}
        /\ ident' \in {ident, NoProc} /\ UNCHANGED <<summary, envVars>>
    BY <1>7 DEF load_runner_spec, ReadControl
  <2> QED
    BY <1>1, <1>2, <2>2, <2>3, NAssumption
<1>7r. CASE Resume \/ Reverify
  <2>1. control' = control \/ \E s \in known : control' = [Loaded EXCEPT !.status = s]
    BY <1>7r DEF Resume, Reverify, known
  <2>2. control' \in Controls
    BY <1>4, <2>1
  <2>3. /\ pc' \in Steps \union {"idle"} /\ tgt' \in {tgt, 0}
        /\ ident' \in {ident, NoProc} /\ UNCHANGED <<summary, envVars>>
    BY <1>7r DEF Resume, Reverify
  <2> QED
    BY <1>1, <1>2, <2>2, <2>3, NAssumption
<1>8. CASE Identify
  <2>1. holder \in Procs => [Loaded EXCEPT !.runner = holder, !.status = "watching"] \in Controls
    BY <1>4 DEF Controls, known
  <2>2. live_identity => holder \in Procs
    BY DEF live_identity, Procs
  <2> QED
    BY <1>1, <1>2, <1>4, <1>8, <2>1, <2>2, NAssumption DEF Identify, known
<1>9. CASE Check \/ Probe \/ Verify \/ AwaitExit
  BY <1>1, <1>2, <1>4, <1>9, NAssumption DEF Check, Probe, Verify, AwaitExit, known
<1>10. CASE RecordSignal
  BY <1>1, <1>2, <1>10, <1>r DEF RecordSignal
<1>11. CASE SendSignal
  <2>1. sent' \in 0 .. SentCap /\ struck' \subseteq Procs
    BY <1>11, StrikeTypeOK DEF SendSignal, EnvTypeOK
  <2>2. EnvTypeOK'
    BY <1>11, <2>1 DEF SendSignal, EnvTypeOK
  <2> QED
    BY <1>2, <1>4, <1>11, <2>2, NAssumption DEF SendSignal, known
<1>12. CASE Precheck \/ ReadSummary \/ Upload
  BY <1>1, <1>2, <1>4, <1>12, NAssumption DEF Precheck, ReadSummary, Upload, known
<1>13. CASE Report \/ ReportBroke
  BY <1>1, <1>2, <1>3, <1>4, <1>13, NAssumption DEF Report, ReportBroke, known
<1> QED
  BY <1>5, <1>6, <1>7, <1>8, <1>9, <1>10, <1>11, <1>12, <1>13, <1>7r
  DEF Controller

\* The initial state is well typed.
LEMMA InitTypeOK == Init => TypeOK
BY EnvStarts, NAssumption
   DEF Init, EnvInv, TypeOK, Fresh, Controls, Statuses, Steps

\* Every value stop_after.py, the runner and the reports leave in the files
\* and in memory has the type the next step expects of it.
THEOREM TypeCorrect == Spec => []TypeOK
<1>1. TypeOK /\ [Next]_vars => TypeOK'
  <2> SUFFICES ASSUME TypeOK, [Next]_vars PROVE TypeOK'
    OBVIOUS
  <2>1. CASE UNCHANGED vars
    BY <2>1 DEF TypeOK, EnvTypeOK, SummaryTypeOK, envVars, ctlVars, vars
  <2>2. CASE Next
    BY <2>2, WorldTypeOK, ControllerTypeOK DEF Next
  <2> QED
    BY <2>1, <2>2
<1> QED
  BY <1>1, InitTypeOK, PTL DEF Spec

-----------------------------------------------------------------------------
(* Safety *)

\* The surroundings send no signals and leave the controller alone.
LEMMA WorldSendsNothing ==
  World => Surroundings /\ UNCHANGED <<control, pc, tgt, ident, sent, struck>>
<1>1. World => Surroundings
  BY DEF World, Surroundings
<1> QED
  BY <1>1, SurroundingsSendNothing DEF World, ctlVars

\* What is complete or verified stays so.
LEMMA PrefixesStay ==
  ASSUME TypeOK, Drift
  PROVE  \A t \in 0 .. N : /\ results_complete(t) => results_complete(t)'
                           /\ PrefixAccepted(t) => PrefixAccepted(t)'
<1>1. \A t \in 0 .. N : \A c \in 0 .. t-1 : c \in Cases
  BY NAssumption DEF Cases
<1> QED
  BY <1>1 DEF Drift, results_complete, PrefixAccepted, ValidResult, ValidEvidence

\* So does the prefix the controller waits for.
LEMMA PrefixSavedStays ==
  ASSUME TypeOK, Drift, PrefixSaved
  PROVE  PrefixSaved'
BY PrefixesStay, TargetsAssumption, NAssumption DEF PrefixSaved

\* Whatever the others do keeps the invariant.
LEMMA DriftKeepsIInv ==
  ASSUME IInv, Drift, UNCHANGED ctlVars
  PROVE  IInv'
<1> USE DEF IInv, ctlVars
<1>1. TypeOK' /\ NothingBeyondActive' /\ HeldOnce' /\ OriginalFirst'
  BY DEF Drift, EnvInv, TypeOK
<1>2. LaunchOnTarget'
  BY DEF LaunchOnTarget
<1>3. RunnerHeldThePid'
  BY DEF Drift, RunnerHeldThePid
<1>4. ClaimsMeanGone'
  BY DEF Drift, TypeOK, EnvTypeOK, ClaimsMeanGone, RunnerGone
<1>5. DecidedMeansComplete' /\ ReadMeansAccepted'
  BY PrefixesStay DEF TypeOK, DecidedMeansComplete, ReadMeansAccepted
<1>6. ReportCoversPrefix'
  BY PrefixesStay DEF TypeOK, Controls, ReportCoversPrefix
<1> QED
  BY <1>1, <1>2, <1>3, <1>4, <1>5, <1>6

\* A step of the surroundings is such a drift.
LEMMA WorldDrifts == IInv /\ World => Drift /\ UNCHANGED ctlVars
BY SurroundingsDrift, WorldSendsNothing DEF IInv, TypeOK, EnvInv, World

\* What a step of the controller that sends nothing leaves as it was.
LEMMA QuietStep ==
  ASSUME IInv, UNCHANGED envVars
  PROVE  /\ NothingBeyondActive'
         /\ HeldOnce'
         /\ OriginalFirst'
         /\ UNCHANGED <<result, sent, struck, holder, past, zombie>>
         /\ \A t : /\ PrefixAccepted(t)' <=> PrefixAccepted(t)
                   /\ results_complete(t)' <=> results_complete(t)
BY DEF IInv, envVars, NothingBeyondActive, HeldOnce, OriginalFirst, PrefixAccepted,
       results_complete, ValidResult, ValidEvidence

\* Whoever finds nobody alive at the pid knows that the recorded runner has
\* gone: it is the holder, or has been.
LEMMA ExitedMeansGone == IInv /\ Exited => RunnerGone
BY DEF IInv, RunnerHeldThePid, RunnerGone, Exited, Alive

\* From the launch to the identified runner.
LEMMA ApproachKeepsIInv ==
  IInv /\ (Launch \/ load_runner_spec \/ ReadControl \/ Resume \/ Reverify \/ Crash)
    => IInv'
<1> SUFFICES ASSUME IInv,
                    Launch \/ load_runner_spec \/ ReadControl \/ Resume \/ Reverify \/ Crash
             PROVE  IInv'
  OBVIOUS
<1>1. TypeOK'
  BY ControllerTypeOK DEF Controller, IInv
<1>2. UNCHANGED envVars
  BY DEF Launch, load_runner_spec, ReadControl, Resume, Reverify, Crash
<1> USE QuietStep, <1>2 DEF IInv
<1>3. pc' \in {"idle", "spec", "read", "resume", "reverify", "identify", "anew", "precheck"}
  BY DEF Launch, load_runner_spec, ReadControl, Resume, Reverify, Crash, GoTo,
         Leave, Return, Mark, Fail, FailUnloaded
<1>4. \/ control' = control
      \/ /\ control' = Fresh(tgt, "identity_or_control_error")
         /\ pc' = "idle" /\ tgt \in Targets
      \/ /\ pc \in Resuming /\ control.target # 0
         /\ \E s \in {"stopped", "post_signal_identity_changed",
                      "identity_or_control_error",
                      "signal_already_sent_waiting_for_exit"} :
              control' = [control EXCEPT !.status = s]
         /\ (control'.status = "stopped" \/ pc' = "precheck") => RunnerGone
  <2>1. CASE Launch \/ Crash
    BY <2>1 DEF Launch, Crash
  <2>2. CASE load_runner_spec \/ ReadControl
    BY <2>2 DEF load_runner_spec, ReadControl, GoTo, FailUnloaded, Leave, LaunchOnTarget
  <2>3. CASE Resume \/ Reverify
    <3>1. pc \in Resuming /\ control.target # 0 /\ Loaded = control
      BY <2>3, LoadedType, TargetsAssumption, NAssumption
         DEF Resume, Reverify, Resuming, LaunchOnTarget
    <3> QED
      BY <2>3, <3>1, ExitedMeansGone
         DEF Resume, Reverify, GoTo, Return, Mark, Fail, Leave, update_control,
             TypeOK, Controls
  <2> QED
    BY <2>1, <2>2, <2>3
<1>5. control'.target = control.target \/ (control'.target \in Targets /\ pc' = "idle")
  BY <1>4 DEF Fresh, TypeOK, Controls
<1>6. control'.runner \in {control.runner, NoProc}
  BY <1>4 DEF Fresh, TypeOK, Controls
<1>7. LaunchOnTarget'
  <2>1. pc' # "idle" => tgt' \in Targets
    BY DEF Launch, load_runner_spec, ReadControl, Resume, Reverify, Crash, GoTo,
           Leave, Return, Mark, Fail, FailUnloaded, LaunchOnTarget
  <2>2. pc' \in Resuming \union Finishing => control'.target = tgt'
    <3>1. CASE Launch \/ load_runner_spec \/ Crash
      BY <3>1 DEF Launch, load_runner_spec, Crash, GoTo, Leave, FailUnloaded,
         Resuming, Finishing
    <3>2. CASE ReadControl
      <4>1. control.signal_sent => control.target # 0
        BY DEF LaunchOnTarget, Fresh
      <4> QED
        BY <3>2, <4>1 DEF ReadControl, GoTo, Leave, FailUnloaded, Resuming, Finishing
    <3>3. CASE Resume \/ Reverify
      <4>1. pc' \in Resuming \union Finishing => tgt' = tgt
        BY <3>3 DEF Resume, Reverify, GoTo, Return, Mark, Fail, Leave, Resuming, Finishing
      <4>2. control.target = tgt
        BY <3>3 DEF Resume, Reverify, LaunchOnTarget, Resuming
      <4> QED
        BY <1>5, <4>1, <4>2 DEF Resuming, Finishing
    <3> QED
      BY <3>1, <3>2, <3>3
  <2>3. pc' = "identify" => control'.target \in {0, tgt'}
    BY DEF Launch, load_runner_spec, ReadControl, Resume, Reverify,
       Crash, GoTo, Leave, Return, Mark, Fail, FailUnloaded, LaunchOnTarget
  <2>4. pc' \notin Identified
    BY <1>3 DEF Identified
  <2>5. control'.target = 0 => control' = Fresh(0, "absent")
    BY <1>4, TargetsAssumption, NAssumption DEF LaunchOnTarget, Fresh, TypeOK, Controls
  <2> QED
    BY <2>1, <2>2, <2>3, <2>4, <2>5 DEF LaunchOnTarget
<1>8. RunnerHeldThePid'
  BY <1>6 DEF RunnerHeldThePid
<1>9. ClaimsMeanGone'
  <2>1. RunnerGone => RunnerGone'
    BY <1>6 DEF RunnerGone
  <2>2. CASE control' = control
    <3>1. pc' = "precheck" => RunnerGone
      BY ExitedMeansGone DEF Launch, load_runner_spec, ReadControl, Resume,
         Reverify, Crash, GoTo, Leave, Return, Mark, Fail, FailUnloaded
    <3> QED
      BY <1>3, <2>1, <2>2, <3>1 DEF ClaimsMeanGone, Finishing
  <2>3. CASE control' # control
    BY <1>3, <1>4, <2>1, <2>3 DEF ClaimsMeanGone, Finishing, ExitClaims, Fresh,
       TypeOK, Controls
  <2> QED
    BY <2>2, <2>3
<1>10. DecidedMeansComplete' /\ ReadMeansAccepted'
  BY <1>3 DEF DecidedMeansComplete, ReadMeansAccepted, Decided
<1>11. ReportCoversPrefix'
  BY <1>4 DEF ReportCoversPrefix, ReportClaims, Fresh, TypeOK, Controls
<1> QED
  BY <1>1, <1>7, <1>8, <1>9, <1>10, <1>11

\* The identification of the runner.
LEMMA IdentifyKeepsIInv == IInv /\ Identify => IInv'
<1> SUFFICES ASSUME IInv, Identify PROVE IInv'
  OBVIOUS
<1>1. TypeOK'
  BY ControllerTypeOK DEF Controller, IInv
<1>2. UNCHANGED envVars
  BY DEF Identify
<1> USE QuietStep, <1>2 DEF IInv
<1>3. /\ pc = "anew" \/ control.target \in {0, tgt}
      /\ tgt \in Targets
      /\ Loaded \in Controls
  BY LoadedType DEF Identify, LaunchOnTarget
<1>4. /\ Loaded.target = tgt
      /\ Loaded.runner \in {control.runner, NoProc}
  BY <1>3 DEF Loaded, Fresh, LaunchOnTarget
<1>5. \/ /\ pc' = "idle"
         /\ control'.runner \in {control.runner, NoProc}
         /\ control'.status \in {"identity_or_control_error", "identity_mismatch"}
      \/ /\ pc' = "check" /\ control'.runner = holder /\ ident' = holder
         /\ holder # NoProc /\ tgt' = tgt
         /\ control'.status = "watching"
  BY <1>3, <1>4 DEF Identify, live_identity, Alive, Fail, Return, Leave,
     update_control, Controls
<1>6. control'.target = tgt /\ tgt # 0
  <2>1. control'.target = Loaded.target
    BY <1>3 DEF Identify, Fail, Return, Leave, update_control, Controls
  <2>2. tgt # 0
    BY <1>3, TargetsAssumption, NAssumption
  <2> QED
    BY <1>4, <2>1, <2>2
<1>7. LaunchOnTarget'
  BY <1>3, <1>5, <1>6 DEF LaunchOnTarget, Identified, Resuming, Finishing
<1>8. RunnerHeldThePid'
  BY <1>5 DEF RunnerHeldThePid
<1>9. ClaimsMeanGone' /\ ReportCoversPrefix' /\ DecidedMeansComplete' /\ ReadMeansAccepted'
  BY <1>5 DEF ClaimsMeanGone, ReportCoversPrefix, DecidedMeansComplete,
     ReadMeansAccepted, ExitClaims, ReportClaims, Finishing, Decided
<1> QED
  BY <1>1, <1>7, <1>8, <1>9

\* From the identified runner to the durable intention.
LEMMA WatchKeepsIInv ==
  IInv /\ (Check \/ Probe \/ Verify \/ RecordSignal) => IInv'
<1> SUFFICES ASSUME IInv, Check \/ Probe \/ Verify \/ RecordSignal PROVE IInv'
  OBVIOUS
<1>1. TypeOK'
  BY ControllerTypeOK DEF Controller, IInv
<1>2. UNCHANGED envVars
  BY DEF Check, Probe, Verify, RecordSignal
<1> USE QuietStep, <1>2 DEF IInv
<1>3. /\ pc \in Identified \ {"kill", "await"}
      /\ control.target = tgt /\ tgt \in Targets /\ tgt # 0
  BY TargetsAssumption, NAssumption
     DEF Check, Probe, Verify, RecordSignal, LaunchOnTarget, Identified
<1>4. Loaded = control
  BY <1>3, LoadedType DEF Identified
<1>5. /\ control'.target = tgt /\ control'.runner = control.runner
      /\ pc' = "idle" \/ UNCHANGED <<tgt, ident>>
      /\ pc' \in {"idle", "check", "probe", "verify", "record", "kill"}
  BY <1>3, <1>4 DEF Check, Probe, Verify, RecordSignal, Mark, GoTo, Fail, Return,
     Leave, update_control, TypeOK, Controls
<1>6. \/ control' = control
      \/ control'.status \in {"watching", "signal_issued", "identity_mismatch",
                              "identity_or_control_error"}
      \/ control'.status = "runner_exited_before_target" /\ Exited
  BY <1>4 DEF Check, Probe, Verify, RecordSignal, Mark, GoTo, Fail, Return,
     Leave, update_control, TypeOK, Controls
<1>7. LaunchOnTarget'
  BY <1>3, <1>5 DEF LaunchOnTarget, Identified, Resuming, Finishing
<1>8. RunnerHeldThePid'
  BY <1>5 DEF RunnerHeldThePid
<1>9. ClaimsMeanGone'
  <2>1. RunnerGone => RunnerGone'
    BY <1>5 DEF RunnerGone
  <2> QED
    BY <2>1, <1>5, <1>6, ExitedMeansGone DEF ClaimsMeanGone, ExitClaims, Finishing
<1>10. DecidedMeansComplete'
  BY DEF Check, Probe, Verify, RecordSignal, Mark, GoTo, Fail, Return, Leave,
     DecidedMeansComplete, Decided
<1>11. ReadMeansAccepted' /\ ReportCoversPrefix'
  BY <1>3, <1>5, <1>6 DEF ReadMeansAccepted, ReportCoversPrefix, ReportClaims
<1> QED
  BY <1>1, <1>7, <1>8, <1>9, <1>10, <1>11

\* The signal: the prefix was complete when the decision was taken.
LEMMA SendKeepsIInv == IInv /\ SendSignal => IInv'
<1> SUFFICES ASSUME IInv, SendSignal PROVE IInv'
  OBVIOUS
<1>1. TypeOK'
  BY ControllerTypeOK DEF Controller, IInv
<1> USE DEF IInv
<1>2. UNCHANGED <<holder, past, zombie, active, result>>
  BY DEF SendSignal
<1>3. pc = "kill" /\ control.target = tgt /\ tgt \in Targets /\ tgt # 0
  BY TargetsAssumption, NAssumption DEF SendSignal, LaunchOnTarget, Identified
<1>4. Loaded = control
  BY <1>3, LoadedType
<1>5. /\ UNCHANGED <<control.target, control.runner>>
      /\ \/ control' = control /\ pc' = "await" /\ UNCHANGED <<tgt, ident>>
         \/ control'.status = "signal_failed" /\ pc' = "idle"
  BY <1>4 DEF SendSignal, GoTo, Return, Leave, update_control, TypeOK, Controls
<1>6. NothingBeyondActive' /\ HeldOnce' /\ OriginalFirst'
  BY <1>2 DEF NothingBeyondActive, HeldOnce, OriginalFirst
<1>7. LaunchOnTarget'
  BY <1>3, <1>5 DEF LaunchOnTarget, Identified, Resuming, Finishing
<1>8. RunnerHeldThePid' /\ ClaimsMeanGone'
  BY <1>2, <1>5 DEF RunnerHeldThePid, ClaimsMeanGone, RunnerGone, ExitClaims, Finishing
<1>9. DecidedMeansComplete' /\ ReadMeansAccepted' /\ ReportCoversPrefix'
  BY <1>2, <1>5 DEF DecidedMeansComplete, Decided, ReadMeansAccepted,
     ReportCoversPrefix, ReportClaims, PrefixAccepted, ValidResult, ValidEvidence
<1> QED
  BY <1>1, <1>6, <1>7, <1>8, <1>9

\* Waiting, reporting and uploading.
LEMMA FinishKeepsIInv ==
  IInv /\ (AwaitExit \/ Precheck \/ Report \/ ReportBroke \/ ReadSummary \/ Upload)
    => IInv'
<1> SUFFICES ASSUME IInv,
                    AwaitExit \/ Precheck \/ Report \/ ReportBroke \/ ReadSummary \/ Upload
             PROVE  IInv'
  OBVIOUS
<1>1. TypeOK'
  BY ControllerTypeOK DEF Controller, IInv
<1>2. UNCHANGED envVars
  BY DEF AwaitExit, Precheck, Report, ReportBroke, ReadSummary, Upload
<1> USE QuietStep, <1>2 DEF IInv
<1>3. /\ pc \in {"await"} \union Finishing
      /\ control.target = tgt /\ tgt \in Targets /\ tgt # 0
  BY TargetsAssumption, NAssumption
     DEF AwaitExit, Precheck, Report, ReportBroke, ReadSummary, Upload,
         LaunchOnTarget, Identified, Finishing
<1>4. Loaded = control
  BY <1>3, LoadedType DEF Finishing
<1>5. /\ UNCHANGED <<control.target, control.runner>>
      /\ pc' = "idle" \/ UNCHANGED <<tgt, ident>>
      /\ pc' \in {"idle", "precheck", "report", "summary", "upload"}
      /\ pc' # "idle" /\ pc = "await" => Exited
  BY <1>4 DEF AwaitExit, Precheck, Report, ReportBroke, ReadSummary, Upload, Mark,
     GoTo, Return, Leave, update_control, TypeOK, Controls
<1>6. \/ control' = control
      \/ pc = "await" /\ control'.status = "stopped" /\ Exited
      \/ pc = "await" /\ control'.status \in {"post_signal_identity_changed", "stop_wait_timeout"}
      \/ /\ pc \in Finishing
         /\ control'.status \in {"report_refused_incomplete_target",
                                 "report_failed", "report_timeout", "report_invalid"}
      \/ pc \in {"summary", "upload"}
  BY <1>4 DEF AwaitExit, Precheck, Report, ReportBroke, ReadSummary, Upload, Mark,
     GoTo, Return, Leave, update_control, TypeOK, Controls, Finishing
<1>7. LaunchOnTarget'
  BY <1>3, <1>5 DEF LaunchOnTarget, Identified, Resuming, Finishing
<1>8. RunnerHeldThePid'
  BY <1>5 DEF RunnerHeldThePid
<1>9. ClaimsMeanGone'
  <2>1. RunnerGone => RunnerGone'
    BY <1>5 DEF RunnerGone
  <2> QED
    BY <2>1, <1>3, <1>5, <1>6, ExitedMeansGone DEF ClaimsMeanGone, ExitClaims, Finishing
<1>10. DecidedMeansComplete'
  BY <1>5 DEF DecidedMeansComplete, Decided
<1>11. ReadMeansAccepted'
  BY DEF AwaitExit, Precheck, Report, ReportBroke, ReadSummary, Upload, Mark,
     GoTo, Return, Leave, ReadMeansAccepted
<1>12. ReportCoversPrefix'
  BY <1>3, <1>5, <1>6 DEF ReadMeansAccepted, ReportCoversPrefix, ReportClaims, Finishing
<1> QED
  BY <1>1, <1>7, <1>8, <1>9, <1>10, <1>11, <1>12

\* The strengthened invariant holds at first.
LEMMA InitIInv == Init => IInv
<1> SUFFICES ASSUME Init PROVE IInv
  OBVIOUS
<1>1. sent = 0 /\ past = {} /\ control = Fresh(0, "absent") /\ pc = "idle"
  BY DEF Init, EnvInit
<1> QED
  BY <1>1, InitTypeOK, EnvStarts
  DEF IInv, Init, EnvInv, LaunchOnTarget, RunnerHeldThePid, ClaimsMeanGone,
      DecidedMeansComplete, ReadMeansAccepted, ReportCoversPrefix, Identified, Resuming, Finishing, Decided, ExitClaims,
      ReportClaims, Fresh

\* Every step of the controller keeps it.
LEMMA OwnKeepsIInv == IInv /\ (Launch \/ Controller \/ Crash) => IInv'
BY ApproachKeepsIInv, IdentifyKeepsIInv, WatchKeepsIInv, SendKeepsIInv,
   FinishKeepsIInv DEF Controller

\* It is inductive.
LEMMA StepKeepsIInv == IInv /\ [Next]_vars => IInv'
<1> SUFFICES ASSUME IInv, [Next]_vars PROVE IInv'
  OBVIOUS
<1>1. CASE UNCHANGED vars
  <2>1. /\ UNCHANGED <<control, pc, tgt, ident, summary, holder, past, zombie>>
        /\ UNCHANGED <<active, beat, result, specOK, sent, struck>>
    BY <1>1 DEF vars, ctlVars, envVars
  <2>2. TypeOK'
    BY <2>1 DEF IInv, TypeOK, EnvTypeOK, SummaryTypeOK
  <2>3. LaunchOnTarget' /\ RunnerHeldThePid' /\ ClaimsMeanGone'
    BY <2>1 DEF IInv, LaunchOnTarget, RunnerHeldThePid, ClaimsMeanGone, RunnerGone
  <2> QED
    BY <2>1, <2>2, <2>3, QuietStep
    DEF envVars, IInv, DecidedMeansComplete, ReadMeansAccepted, ReportCoversPrefix
<1>2. CASE Next
  BY <1>2, OwnKeepsIInv, WorldDrifts, DriftKeepsIInv DEF Next
<1> QED
  BY <1>1, <1>2

\* The strengthened invariant holds of every behaviour.
THEOREM Inductive == Spec => []IInv
BY InitIInv, StepKeepsIInv, PTL DEF Spec

\* A step of the controller moves nothing of the benchmark; the only one that
\* signals follows the complete prefix.
LEMMA OwnSteps ==
  ASSUME IInv, Launch \/ Controller \/ Crash
  PROVE  /\ Drift
         /\ UNCHANGED <<holder, past, zombie, active, beat, result, specOK>>
         /\ ~SendSignal => UNCHANGED <<sent, struck>>
         /\ SendSignal => PrefixSaved
<1>1. UNCHANGED <<holder, past, zombie, active, beat, result, specOK>>
  BY DEF Launch, Crash, Controller, load_runner_spec, ReadControl, Resume,
     Reverify, Identify, Check, Probe, Verify, RecordSignal, SendSignal,
     AwaitExit, Precheck, Report, ReportBroke, ReadSummary, Upload, envVars
<1>2. ~SendSignal => UNCHANGED <<sent, struck>>
  BY DEF Launch, Crash, Controller, load_runner_spec, ReadControl, Resume,
     Reverify, Identify, Check, Probe, Verify, RecordSignal, AwaitExit,
     Precheck, Report, ReportBroke, ReadSummary, Upload, envVars
<1>3. SendSignal => PrefixSaved
  BY DEF SendSignal, IInv, LaunchOnTarget, DecidedMeansComplete, Decided, PrefixSaved
<1>4. TypeOK'
  BY ControllerTypeOK DEF IInv
<1>5. Drift
  BY <1>1, <1>4, ControllersDrift DEF IInv, TypeOK, EnvTypeOK, EnvInv
<1> QED
  BY <1>1, <1>2, <1>3, <1>5

\* What is in memory is in control.json, except for a launch that found none.
LEMMA LoadedFromDisk ==
  ASSUME IInv, pc \in Identified \union Resuming \union Finishing
  PROVE  Loaded = control
<1>1. control.target = tgt /\ tgt \in Targets /\ pc # "anew" /\ tgt # 0
  BY TargetsAssumption, NAssumption
  DEF IInv, LaunchOnTarget, Identified, Resuming, Finishing
<1> QED
  BY <1>1 DEF Loaded

\* How the controller reaches and leaves the steps around the signal, and what
\* becomes of the record of one: only RecordSignal makes it.
LEMMA AroundTheSignal ==
  ASSUME IInv, RecordPrecedesSignal, Launch \/ Crash \/ Controller
  PROVE  /\ RecordPrecedesSignal'
         /\ pc' = "kill" <=> RecordSignal
         /\ RecordSignal => ~control.signal_sent /\ control'.signal_sent
         /\ ~RecordSignal /\ control'.signal_sent => control.signal_sent
         /\ SendSignal => control'.signal_sent
         /\ ~SendSignal => sent' = sent
<1> USE DEF RecordPrecedesSignal
<1>a. pc \in Identified \union Resuming \union Finishing =>
        \A s : [Loaded EXCEPT !.status = s].signal_sent = control.signal_sent
  BY LoadedFromDisk DEF IInv, TypeOK, Controls
<1> USE DEF GoTo, Mark, Fail, FailUnloaded, Return, Leave, update_control
<1>1. CASE Launch \/ Crash \/ load_runner_spec
  BY <1>1 DEF Launch, Crash, load_runner_spec, RecordSignal, SendSignal, envVars, Fresh
<1>2. CASE ReadControl
  BY <1>2 DEF ReadControl, RecordSignal, SendSignal, envVars, Fresh
<1>3. CASE Resume \/ Reverify
  BY <1>3, <1>a DEF Resume, Reverify, RecordSignal, SendSignal, envVars, Resuming
<1>4. CASE Identify
  <2>1. ~Loaded.signal_sent /\ Loaded \in Controls
    BY <1>4, LoadedType DEF Identify, IInv, Loaded, Fresh
  <2>2. control'.signal_sent = Loaded.signal_sent
    BY <1>4, <2>1 DEF Identify, Controls
  <2>3. pc' \in {"check", "idle"}
    BY <1>4 DEF Identify
  <2> QED
    BY <1>4, <2>1, <2>2, <2>3 DEF Identify, RecordSignal, SendSignal, envVars
<1>5. CASE Check \/ Probe \/ Verify
  BY <1>5, <1>a DEF Check, Probe, Verify, RecordSignal, SendSignal, envVars, Identified
<1>6. CASE RecordSignal
  BY <1>6 DEF RecordSignal, SendSignal, envVars, IInv, TypeOK, Controls
<1>7. CASE SendSignal \/ AwaitExit
  BY <1>7, <1>a DEF SendSignal, AwaitExit, RecordSignal, envVars, Identified
<1>8. CASE Precheck \/ Report \/ ReportBroke \/ ReadSummary \/ Upload
  BY <1>8, <1>a DEF Precheck, Report, ReportBroke, ReadSummary, Upload, RecordSignal,
     SendSignal, envVars, Finishing
<1> QED
  BY <1>1, <1>2, <1>3, <1>4, <1>5, <1>6, <1>7, <1>8 DEF Controller

\* A SIGINT is only sent when the prefix this launch was asked for has all its
\* results, whatever the targets of earlier launches and however often
\* process.json or control.json cannot be read.
THEOREM PrefixBeforeSignal == Spec => SignalOnlyAfterPrefix
<1>1. IInv /\ [Next]_vars => [sent' # sent => results_complete(tgt)]_vars
  <2> SUFFICES ASSUME IInv, Next PROVE sent' # sent => results_complete(tgt)
    BY DEF vars
  <2>1. SendSignal => results_complete(tgt)
    BY DEF SendSignal, IInv, DecidedMeansComplete, Decided
  <2> QED
    BY <2>1, OwnSteps, WorldSendsNothing DEF Next
<1> QED
  BY <1>1, Inductive, PTL DEF Spec, SignalOnlyAfterPrefix

\* A status that says the runner has gone is true, although the controller
\* only looks at whoever holds the pid.
THEOREM ExitClaimsTrue == Spec => []ExitClaimsAreTrue
<1>1. IInv => ExitClaimsAreTrue
  BY DEF IInv, ClaimsMeanGone, RunnerGone, HeldOnce, ExitClaimsAreTrue, Alive
<1> QED
  BY <1>1, Inductive, PTL

\* A claimed report covers verified results up to the recorded target.
THEOREM ReportsVerified == Spec => []ReportCoversPrefix
<1>1. IInv => ReportCoversPrefix
  BY DEF IInv
<1> QED
  BY <1>1, Inductive, PTL

-----------------------------------------------------------------------------
(* One target *)

\* Under OneTarget no launch takes control.json for absent.
LEMMA NeverAnew ==
  ASSUME OneTarget, pc # "anew", Launch \/ Crash \/ Controller
  PROVE  pc' # "anew"
<1> USE DEF GoTo, Mark, Fail, FailUnloaded, Return, Leave
<1>1. CASE Launch \/ Crash \/ load_runner_spec
  BY <1>1 DEF Launch, Crash, load_runner_spec
<1>2. CASE ReadControl
  BY <1>2 DEF ReadControl, OneTarget
<1>3. CASE Resume \/ Reverify \/ Identify \/ Check \/ Probe \/ Verify
  BY <1>3 DEF Resume, Reverify, Identify, Check, Probe, Verify
<1>4. CASE RecordSignal \/ SendSignal \/ AwaitExit
  BY <1>4 DEF RecordSignal, SendSignal, AwaitExit
<1>5. CASE Precheck \/ Report \/ ReportBroke \/ ReadSummary \/ Upload
  BY <1>5 DEF Precheck, Report, ReportBroke, ReadSummary, Upload
<1> QED
  BY <1>1, <1>2, <1>3, <1>4, <1>5 DEF Controller

\* A launch for the one target finds the record it knows, and remembers it.
LEMMA RecordStays ==
  ASSUME MInv, Launch \/ Crash \/ Controller
  PROVE  /\ specOK'
         /\ control'.target \in {0} \union Targets
         /\ control.signal_sent => control'.signal_sent
         /\ ~RecordSignal => control'.signal_sent = control.signal_sent
         /\ control.runner # NoProc => control'.runner = control.runner
<1>l. \/ control.target = 0 /\ Loaded = Fresh(tgt, "absent") /\ control = Fresh(0, "absent")
      \/ control.target # 0 /\ Loaded = control
  BY DEF MInv, IInv, LaunchOnTarget, Remembers, Loaded
<1>t. /\ pc # "idle" => tgt \in Targets
      /\ control.target \in {0} \union Targets
      /\ \A t, u \in Targets : t = u
  BY DEF MInv, IInv, LaunchOnTarget, Remembers, OneTarget
<1> USE LoadedType DEF MInv, IInv, Remembers, LaunchOnTarget
<1>1. pc # "idle" => /\ tgt \in Targets
                     /\ control.target \in {0, tgt}
                     /\ Loaded.signal_sent = control.signal_sent
                     /\ Loaded.runner = control.runner
                     /\ Loaded.target = tgt
  <2> HAVE pc # "idle"
  <2>1. CASE control.target = 0
    <3>1. Loaded = Fresh(tgt, "absent") /\ control = Fresh(0, "absent")
      BY <1>l, <2>1
    <3>2. tgt \in Targets
      BY <1>t
    <3> HIDE LoadedType
    <3> QED
      BY <2>1, <3>1, <3>2 DEF Fresh
  <2>2. CASE control.target # 0
    <3>1. Loaded = control /\ tgt \in Targets /\ control.target = tgt
      BY <1>l, <1>t, <2>2
    <3> QED
      BY <3>1
  <2> QED
    BY <2>1, <2>2
<1>2. specOK' = specOK
  BY DEF Launch, Crash, Controller, load_runner_spec, ReadControl, Resume,
     Reverify, Identify, Check, Probe, Verify, RecordSignal, SendSignal,
     AwaitExit, Precheck, Report, ReportBroke, ReadSummary, Upload, envVars
<1>3. CASE Launch \/ Crash \/ load_runner_spec \/ ReadControl
  BY <1>1, <1>2, <1>3 DEF Launch, Crash, load_runner_spec, ReadControl, GoTo
<1> USE DEF TypeOK, Controls, GoTo, Mark, Fail, Return, update_control
<1>4. CASE Resume \/ Reverify \/ Check \/ Probe \/ Verify
  BY <1>1, <1>2, <1>4 DEF Resume, Reverify, Check, Probe, Verify
<1>5. CASE Identify
  <2>1. /\ control'.target = Loaded.target
        /\ control'.signal_sent = Loaded.signal_sent
        /\ control.runner # NoProc => control'.runner = Loaded.runner
    BY <1>1, <1>5 DEF Identify
  <2> QED
    BY <1>1, <1>2, <1>5, <2>1 DEF Identify
<1>6. CASE RecordSignal \/ SendSignal \/ AwaitExit
  BY <1>1, <1>2, <1>6 DEF RecordSignal, SendSignal, AwaitExit
<1>7. CASE Precheck \/ Report \/ ReportBroke \/ ReadSummary \/ Upload
  BY <1>1, <1>2, <1>7 DEF Precheck, Report, ReportBroke, ReadSummary, Upload
<1> QED
  BY <1>3, <1>4, <1>5, <1>6, <1>7 DEF Controller

\* Every step of the controller keeps what it remembers.
LEMMA OwnKeepsMInv ==
  ASSUME MInv, Launch \/ Controller \/ Crash
  PROVE  MInv'
<1>1. IInv' /\ OneTarget'
  BY OwnKeepsIInv DEF MInv, OneTarget
<1>2. PrefixSaved => PrefixSaved'
  BY OwnSteps, PrefixSavedStays DEF MInv, IInv
<1>3. control'.signal_sent => PrefixSaved
  <2>1. RecordSignal => PrefixSaved
    BY DEF RecordSignal, MInv, IInv, LaunchOnTarget, DecidedMeansComplete, Decided,
           PrefixSaved
  <2> QED
    BY <2>1, RecordStays DEF MInv, Remembers
<1>4. pc' = "kill" => control'.signal_sent
  BY AroundTheSignal DEF MInv, Remembers, RecordPrecedesSignal
<1> QED
  BY <1>1, <1>2, <1>3, <1>4, RecordStays, AroundTheSignal, NeverAnew
  DEF MInv, Remembers

\* So does whatever the others do, as long as process.json stays readable.
LEMMA DriftKeepsMInv ==
  ASSUME MInv, Drift, UNCHANGED ctlVars, specOK'
  PROVE  MInv'
BY DriftKeepsIInv, PrefixSavedStays DEF MInv, IInv, OneTarget, Remembers,
   RecordPrecedesSignal, ctlVars

\* Under OneTarget process.json stays.
LEMMA WorldKeepsSpec == OneTarget /\ World /\ specOK => specOK'
BY DEF OneTarget, World, EnvNext, ManualReport, SaveCase, ProveCase,
       Beat, Exit, Reap, ReusePid, FlipSpec, envVars

\* How the signals of this controller go with its record.
LEMMA OwnSignals ==
  ASSUME MInv, Launch \/ Controller \/ Crash
  PROVE  /\ control.signal_sent => control'.signal_sent
         /\ pc' = "kill" => ~control.signal_sent
         /\ ~SendSignal => UNCHANGED <<sent, struck>>
         /\ SendSignal => /\ pc = "kill" /\ pc' # "kill" /\ control.signal_sent
                          /\ sent' = sent \/ sent' = sent + 1
<1>1. SendSignal => /\ pc = "kill" /\ pc' # "kill" /\ control.signal_sent
                    /\ sent' = sent \/ sent' = sent + 1
  BY DEF SendSignal, Strike, GoTo, Return, Leave, MInv, Remembers,
     RecordPrecedesSignal
<1> QED
  BY <1>1, RecordStays, AroundTheSignal, OwnSteps DEF MInv, Remembers

\* The invariant for one target is inductive.
LEMMA StepKeepsOInv == OInv /\ [Next]_vars => OInv'
<1> SUFFICES ASSUME OInv, [Next]_vars PROVE OInv'
  OBVIOUS
<1>t. sent \in Nat
  BY DEF OInv, MInv, IInv, TypeOK, EnvTypeOK, SentCap
<1>1. CASE UNCHANGED vars
  <2>1. IInv'
    BY <1>1, StepKeepsIInv DEF OInv, MInv
  <2> QED
    BY <1>1, <2>1 DEF OInv, MInv, OneTarget, Remembers, RecordPrecedesSignal, PrefixSaved, SentOnce,
       results_complete, ValidResult, vars, ctlVars, envVars
<1>2. CASE World
  BY <1>2, WorldKeepsSpec, WorldDrifts, WorldSendsNothing, DriftKeepsMInv
  DEF OInv, MInv, Remembers, SentOnce
<1>3. CASE Launch \/ Controller \/ Crash
  <2>1. MInv'
    BY <1>3, OwnKeepsMInv DEF OInv
  <2>2. SentOnce'
    BY <1>3, <1>t, OwnSignals DEF OInv, SentOnce
  <2> QED
    BY <2>1, <2>2 DEF OInv
<1> QED
  BY <1>1, <1>2, <1>3 DEF Next

\* It holds at first.
LEMMA InitOInv == Init /\ OneTarget => OInv
BY InitIInv DEF OInv, MInv, Remembers, RecordPrecedesSignal, SentOnce, Init, EnvInit, Fresh

\* It holds of every behaviour.
THEOREM OneTargetInductive == Spec /\ OneTarget => []OInv
BY InitOInv, StepKeepsOInv, PTL DEF Spec

\* As long as --target stays the same and process.json and control.json can be
\* read, at most one SIGINT reaches a process, whatever crashes and is launched
\* again.
THEOREM OneSigint == Spec /\ OneTarget => []AtMostOneSigint
<1>1. OInv => AtMostOneSigint
  BY DEF OInv, SentOnce, AtMostOneSigint
<1> QED
  BY <1>1, OneTargetInductive, PTL

\* The same steps leave the recorded runner alone, and decide and send once.
LEMMA StepFacts ==
  ASSUME OInv, [Next]_vars
  PROVE  /\ control.runner # NoProc => control'.runner = control.runner
         /\ ~RecordSignal => control'.signal_sent = control.signal_sent
         /\ pc' = "kill" => RecordSignal \/ pc = "kill"
         /\ ~SendSignal => sent' = sent
<1>1. CASE UNCHANGED vars
  BY <1>1 DEF vars, ctlVars, envVars
<1>2. CASE World
  BY <1>2, WorldSendsNothing
<1>3. CASE Launch \/ Crash \/ Controller
  BY <1>3, RecordStays, AroundTheSignal DEF OInv, MInv, Remembers
<1> QED
  BY <1>1, <1>2, <1>3 DEF Next

\* The runner the first launch recorded is never overwritten, as long as
\* process.json and control.json can be read.
THEOREM RunnerKept == Spec /\ OneTarget => RunnerForGood
<1>1. OInv /\ [Next]_vars =>
        [control.runner # NoProc => control'.runner = control.runner]_vars
  BY StepFacts
<1> QED
  BY <1>1, OneTargetInductive, PTL DEF Spec, RunnerForGood

-----------------------------------------------------------------------------
(* The promise of StopOnce *)

\* The controller adds nothing to the results.
LEMMA OnlyWorldSaves ==
  ASSUME [Next]_vars, ~World
  PROVE  PrefixSaved' <=> PrefixSaved
<1>1. UNCHANGED result
  BY DEF Next, Controller, vars, envVars, Launch, Crash, load_runner_spec,
     ReadControl, Resume, Reverify, Identify, Check, Probe, Verify,
     RecordSignal, SendSignal, AwaitExit, Precheck, Report, ReportBroke,
     ReadSummary, Upload
<1> QED
  BY <1>1 DEF PrefixSaved, results_complete, ValidResult

\* Results are not taken back.
LEMMA StepKeepsPrefixSaved ==
  ASSUME OInv, [Next]_vars, PrefixSaved
  PROVE  PrefixSaved'
<1>1. CASE World
  BY <1>1, WorldDrifts, PrefixSavedStays DEF OInv, MInv, IInv
<1>2. CASE ~World
  BY <1>2, OnlyWorldSaves
<1> QED
  BY <1>1, <1>2

\* For one target and readable files every step of the controller,
\* of a crash and of the surroundings is a step of StopOnce or none at all.
THEOREM PromiseKept == Spec /\ OneTarget => KeepsPromise
<1> USE DEF Promise!Next, Promise!Save, Promise!Commit, Promise!Deliver,
            Promise!Abandon, Promise!vars
<1>1. Init => Promise!Init
  <2> SUFFICES ASSUME Init PROVE Promise!Init
    OBVIOUS
  <2>1. \A t \in Targets : 0 \in 0 .. t-1 /\ result[0] = "none"
    BY TargetsAssumption, NAssumption DEF Init, EnvInit, Cases
  <2>2. ~PrefixSaved
    BY <2>1 DEF PrefixSaved, results_complete, ValidResult
  <2> QED
    BY <2>2 DEF Init, EnvInit, Fresh, Promise!Init, PrefixSaved
<1>2. OInv /\ [Next]_vars => [Promise!Next]_Promise!vars
  <2> SUFFICES ASSUME OInv, [Next]_vars PROVE [Promise!Next]_Promise!vars
    OBVIOUS
  <2>1. PrefixSaved => PrefixSaved'
    BY StepKeepsPrefixSaved
  <2>2. CASE RecordSignal
    <3>1. PrefixSaved
      BY <2>2 DEF RecordSignal, OInv, MInv, IInv, LaunchOnTarget, DecidedMeansComplete,
         Decided, PrefixSaved
    <3>2. ~control.signal_sent /\ control'.signal_sent /\ pc' = "kill"
      BY <2>2, AroundTheSignal DEF OInv, MInv, Remembers, Controller
    <3>3. sent' = sent /\ control.signal_sent = FALSE /\ control'.signal_sent = TRUE
      BY <2>2, <3>2 DEF RecordSignal, envVars, OInv, MInv, IInv, TypeOK, Controls
    <3> QED
      BY <3>1, <3>2, <3>3, <2>1 DEF PrefixSaved
  <2>3. CASE SendSignal
    <3>1. PrefixSaved
      BY <2>3 DEF SendSignal, OInv, MInv, IInv, LaunchOnTarget, DecidedMeansComplete,
         Decided, PrefixSaved
    <3>2. /\ pc = "kill" /\ pc' # "kill"
          /\ sent' = sent \/ sent' = sent + 1
          /\ control'.signal_sent = control.signal_sent
      <4>1. sent = 0
        BY <2>3 DEF SendSignal, OInv, MInv, Remembers, RecordPrecedesSignal, SentOnce, IInv, TypeOK, EnvTypeOK, SentCap
      <4>2. sent' = sent \/ sent' = sent + 1
        BY <2>3, <4>1 DEF SendSignal, Strike, SentCap
      <4>3. ~RecordSignal
        BY <2>3 DEF SendSignal, RecordSignal
      <4> QED
        BY <2>3, <4>2, <4>3, RecordStays, AroundTheSignal DEF OInv, MInv, Remembers,
           SendSignal, Controller
    <3> QED
      BY <3>1, <3>2, <2>1 DEF PrefixSaved
  <2>4. CASE World
    BY <2>4, <2>1, WorldSendsNothing DEF PrefixSaved
  <2>5. CASE ~RecordSignal /\ ~SendSignal /\ ~World
    <3>1. /\ control'.signal_sent = control.signal_sent /\ sent' = sent
          /\ pc' = "kill" => pc = "kill"
      BY <2>5, StepFacts
    <3>2. PrefixSaved' <=> PrefixSaved
      BY <2>5, OnlyWorldSaves
    <3> QED
      BY <3>1, <3>2 DEF PrefixSaved
  <2> QED
    BY <2>2, <2>3, <2>4, <2>5
<1> QED
  BY <1>1, <1>2, OneTargetInductive, PTL DEF Spec, KeepsPromise, Promise!Spec
=============================================================================
