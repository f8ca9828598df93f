----------------------- MODULE StopAfterCurrentProofs -----------------------
(***************************************************************************)
(* Proofs about StopAfterCurrent for every number of cases, every quality  *)
(* of results and every successor of the recorded pid, also when           *)
(* stop-current.json cannot be read.  Only what that loses (FrozenOnce) is *)
(* proved under Readable.                                                  *)
(***************************************************************************)
EXTENDS StopAfterCurrent, BenchmarkProofs

\* Steps that follow identify_runner.
Identified == Steps \ {"spec", "open", "identify"}

\* Steps that follow the freezing of the case.
Frozen == Identified \ {"install"}

\* Steps that follow a successful saved_result.
Verified == Frozen \ {"check", "watch"}

\* Steps at which the intention may already be on disk.
Signalling == {"idle", "send", "await", "report", "upload"}

FdHeldThePid ==
  /\ fd \in past \union {holder, NoProc}
  /\ pc = "identify" => fd # NoProc

\* The pidfd is that of the identified runner, or of a process that is gone.
FdIsIdentOrGone == pc \in Identified => fd = ident \/ fd \in past

RunnerIsIdent ==
  pc \in Frozen => state.frozen \in Cases /\ state.runner = ident

VerifiedMeansGood == pc \in Verified => result[state.frozen] = "good"

IntentMeansGood ==
  state.attempted => /\ state.frozen \in Cases
                     /\ result[state.frozen] = "good"
                     /\ pc \in Signalling

PendingMeansIntent == pc = "send" => state.attempted

AbsentMeansUnfrozen == state.status = "absent" => state.frozen = NoCase

UploadMeansReported == pc = "upload" => PrefixAccepted(report_target)

\* The inductive invariant.  It holds whatever signals others send.
IInv ==
  /\ TypeOK
  /\ NothingBeyondActive
  /\ HeldOnce
  /\ OriginalFirst
  /\ FdHeldThePid
  /\ FdIsIdentOrGone
  /\ RunnerIsIdent
  /\ VerifiedMeansGood
  /\ IntentMeansGood
  /\ PendingMeansIntent
  /\ AbsentMeansUnfrozen
  /\ UploadMeansReported
  /\ ReportCoversPrefix

\* Once a signal may have been sent, no launch gets to another one: the attempt
\* is recorded, or a refusal has replaced the record.
SentOnce ==
  /\ sent > 0 => (state.attempted \/ Erased) /\ pc # "send"
  /\ sent <= 1

\* With the signals, of which this controller sends all.
OInv == IInv /\ SentOnce

\* stop-current.json can always be read.
Readable == StateMayVanish = FALSE

\* The recorded runner has gone, or is a zombie.
RunnerGone ==
  state.runner \in past \union {NoProc} \/ (holder = state.runner /\ zombie)

\* While no successor of the pid is a runner, the original is the only one
\* that is identified, and its pidfd tells when it has gone.
OnlyTheOriginal ==
  /\ pc \in Identified => fd = "original" /\ ident = "original"
  /\ state.runner \in {NoProc, "original"}

ClaimsMeanGone ==
  state.status \in ExitClaims \/ pc \in {"report", "upload"} => RunnerGone

CInv == IInv /\ OnlyTheOriginal /\ ClaimsMeanGone

-----------------------------------------------------------------------------
(* Typing *)

\* A step of the runner, the kernel or the operator keeps the types.
LEMMA WorldTypeOK == TypeOK /\ World => TypeOK'
<1>1. World => Surroundings
  BY DEF World, Surroundings
<1> QED
  BY <1>1, SurroundingsTypeOK DEF TypeOK, World, ctlVars

\* A step of the controller keeps the types.
LEMMA ControllerTypeOK ==
  TypeOK /\ (Launch \/ LaunchUnreadable \/ Crash \/ Controller) => TypeOK'
<1> SUFFICES ASSUME TypeOK, Launch \/ LaunchUnreadable \/ Crash \/ Controller
             PROVE  TypeOK'
  OBVIOUS
<1> USE DEF States, Statuses, TERMINAL_STATUSES, Steps, TypeOK,
            GoTo, Leave, Refuse, Return, set_status
<1>1. UNCHANGED envVars => EnvTypeOK'
  BY DEF EnvTypeOK, envVars
<1>2. UNCHANGED summary => SummaryTypeOK'
  BY DEF SummaryTypeOK
<1>3. WriteSummary(report_target) => SummaryTypeOK'
  <2>1. report_target \in 0 .. N
    BY NAssumption DEF report_target, Cases, NoCase
  <2>2. PrefixAccepted(report_target) \in BOOLEAN
    BY DEF PrefixAccepted
  <2> QED
    BY <2>1, <2>2 DEF SummaryTypeOK, WriteSummary
<1>4. CASE Launch \/ LaunchUnreadable
  BY <1>1, <1>2, <1>4 DEF Launch, LaunchUnreadable, NoState
<1>5. CASE Crash
  BY <1>1, <1>2, <1>5 DEF Crash
<1>6. CASE ReadSpec \/ OpenPidfd
  BY <1>1, <1>2, <1>6 DEF ReadSpec, OpenPidfd, EnvTypeOK
<1>7. CASE Identify \/ RefuseSources \/ Resume
  BY <1>1, <1>2, <1>7
     DEF Identify, identify_runner, RefuseSources, Resume, Runners, Procs
<1>8. CASE Install
  <2> DEFINE new == [ status |-> "installed", frozen |-> beat,
                      attempted |-> FALSE, runner |-> ident ]
  <2>1. beat # NoCase => beat \in Cases
    BY DEF EnvTypeOK
  <2>2. beat # NoCase => new \in States
    BY <2>1
  <2> QED
    BY <1>1, <1>2, <1>8, <2>2 DEF Install
<1>9. CASE CheckResult \/ Watch \/ Peek \/ assert_same_runner \/ Probe \/ Attempt
  BY <1>1, <1>2, <1>9 DEF CheckResult, Watch, Peek, assert_same_runner, Probe, Attempt
<1>10. CASE Send
  <2>1. sent' \in 0 .. SentCap /\ struck' \subseteq Procs
    BY <1>10 DEF Send, Strike, Signallable, Alive, EnvTypeOK, SentCap, NoProc, Procs, Runners
  <2>2. EnvTypeOK'
    BY <1>10, <2>1 DEF Send, EnvTypeOK
  <2> QED
    BY <1>2, <1>10, <2>2 DEF Send
<1>11. CASE AwaitExit \/ Upload \/ RefuseChild
  BY <1>1, <1>2, <1>11 DEF AwaitExit, Upload, RefuseChild
<1>12. CASE Report
  BY <1>1, <1>3, <1>12 DEF Report
<1>13. CASE ReportBroke
  BY <1>1, <1>2, <1>3, <1>13 DEF ReportBroke
<1> QED
  BY <1>4, <1>5, <1>6, <1>7, <1>8, <1>9, <1>10, <1>11, <1>12, <1>13 DEF Controller

\* The initial state is well typed.
LEMMA InitTypeOK == Init => TypeOK
<1> USE DEF States, Statuses, TERMINAL_STATUSES, Steps
<1>1. Init => EnvTypeOK
  <2> SUFFICES ASSUME Init PROVE EnvTypeOK
    OBVIOUS
  <2>1. result \in [Cases -> QualitySet]
    BY DEF Init, EnvInit, QualitySet
  <2>2. active \in 0 .. N /\ beat \in Cases /\ sent \in 0 .. SentCap
    BY NAssumption DEF Init, EnvInit, Cases, SentCap
  <2> QED
    BY <2>1, <2>2 DEF Init, EnvInit, EnvTypeOK, Procs, Runners, NoProc
<1>2. Init => SummaryTypeOK
  BY NAssumption DEF Init, SummaryInit, SummaryTypeOK
<1> QED
  BY <1>1, <1>2 DEF Init, NoState, TypeOK

\* Every value stop-after-current.py, the runner and the reports leave in the
\* files and in memory has the type the next step expects of it.
THEOREM TypeCorrect == Spec => []TypeOK
<1> USE DEF States, Statuses, TERMINAL_STATUSES, Steps, vars
<1>1. Init => TypeOK
  BY InitTypeOK
<1>2. TypeOK /\ [Next]_vars => TypeOK'
  <2> SUFFICES ASSUME TypeOK, [Next]_vars PROVE TypeOK'
    OBVIOUS
  <2>1. CASE UNCHANGED vars
    BY <2>1 DEF TypeOK, EnvTypeOK, SummaryTypeOK, envVars, ctlVars
  <2>2. CASE World
    BY <2>2, WorldTypeOK
  <2>3. CASE Launch \/ LaunchUnreadable \/ Crash \/ Controller
    BY <2>3, ControllerTypeOK
  <2> QED
    BY <2>1, <2>2, <2>3 DEF Next
<1> QED
  BY <1>1, <1>2, PTL DEF Spec

-----------------------------------------------------------------------------
(* Safety *)

\* The surroundings send no signals and leave the controller alone.
LEMMA WorldSendsNothing ==
  World => Surroundings /\ UNCHANGED <<state, pc, fd, ident, sent, struck>>
<1>1. World => Surroundings
  BY DEF World, Surroundings
<1> QED
  BY <1>1, SurroundingsSendNothing DEF World, ctlVars

\* A verified prefix stays verified.
LEMMA DriftKeepsPrefix ==
  ASSUME TypeOK, Drift, UNCHANGED ctlVars, PrefixAccepted(report_target)
  PROVE  PrefixAccepted(report_target)'
<1>1. report_target' = report_target /\ report_target \in 0 .. N
  BY NAssumption DEF ctlVars, TypeOK, States, report_target, Cases, NoCase
<1>2. \A c \in 0 .. report_target-1 : c \in Cases
  BY <1>1, NAssumption DEF Cases
<1> QED
  BY <1>1, <1>2 DEF Drift, PrefixAccepted, ValidResult, ValidEvidence

\* Whatever the others do keeps the invariant.
LEMMA DriftKeepsIInv ==
  ASSUME IInv, Drift, UNCHANGED ctlVars
  PROVE  IInv'
<1> USE DEF IInv, ctlVars
<1>1. TypeOK' /\ NothingBeyondActive' /\ HeldOnce' /\ OriginalFirst'
  BY DEF Drift, EnvInv, TypeOK
<1>2. FdHeldThePid' /\ FdIsIdentOrGone'
  BY DEF Drift, FdHeldThePid, FdIsIdentOrGone
<1>3. RunnerIsIdent' /\ PendingMeansIntent' /\ AbsentMeansUnfrozen'
  BY DEF RunnerIsIdent, PendingMeansIntent, AbsentMeansUnfrozen
<1>4. VerifiedMeansGood' /\ IntentMeansGood'
  BY DEF Drift, VerifiedMeansGood, IntentMeansGood, RunnerIsIdent, Verified
<1>5. UploadMeansReported' /\ ReportCoversPrefix'
  BY DriftKeepsPrefix DEF UploadMeansReported, ReportCoversPrefix
<1> QED
  BY <1>1, <1>2, <1>3, <1>4, <1>5

\* A step of the surroundings is such a drift.
LEMMA WorldDrifts == IInv /\ World => Drift /\ UNCHANGED ctlVars
BY SurroundingsDrift, WorldSendsNothing DEF IInv, TypeOK, EnvInv, World

\* What a step of the controller that sends nothing leaves as it was.
LEMMA QuietStep ==
  ASSUME IInv, UNCHANGED envVars
  PROVE  /\ NothingBeyondActive'
         /\ HeldOnce'
         /\ OriginalFirst'
         /\ UNCHANGED <<result, sent, struck, holder, past, zombie>>
         /\ \A t : PrefixAccepted(t)' <=> PrefixAccepted(t)
BY DEF IInv, envVars, NothingBeyondActive, HeldOnce, OriginalFirst, PrefixAccepted,
       ValidResult, ValidEvidence

\* From the launch to the identified runner.
LEMMA ApproachKeepsIInv ==
  IInv /\ (Launch \/ ReadSpec \/ OpenPidfd \/ Identify) => IInv'
<1> SUFFICES ASSUME IInv, Launch \/ ReadSpec \/ OpenPidfd \/ Identify PROVE IInv'
  OBVIOUS
<1>1. TypeOK'
  BY ControllerTypeOK DEF Controller, IInv
<1>2. UNCHANGED envVars
  BY DEF Launch, ReadSpec, OpenPidfd, Identify
<1> USE QuietStep, <1>2 DEF IInv, GoTo, Refuse, Return, Leave, set_status
<1>3. FdHeldThePid' /\ FdIsIdentOrGone'
  BY DEF Launch, ReadSpec, OpenPidfd, Identify, identify_runner, FdHeldThePid,
         FdIsIdentOrGone, Identified, Steps, TypeOK
<1>4. state' = state \/ (state' = [state EXCEPT !.status = "refused"] /\ pc' = "idle")
  BY DEF Launch, ReadSpec, OpenPidfd, Identify
<1>5. pc' \in {"idle", "spec", "open", "identify", "install"} /\ pc \notin Frozen
  BY DEF Launch, ReadSpec, OpenPidfd, Identify, Frozen, Identified, Steps
<1>6. RunnerIsIdent' /\ VerifiedMeansGood' /\ UploadMeansReported'
  BY <1>5 DEF RunnerIsIdent, VerifiedMeansGood, UploadMeansReported, Verified,
              Frozen, Identified, Steps
<1>7. ~state.attempted
  BY DEF Launch, ReadSpec, OpenPidfd, Identify, IntentMeansGood, Signalling
<1>8. IntentMeansGood' /\ PendingMeansIntent'
  BY <1>4, <1>5, <1>7
     DEF IntentMeansGood, PendingMeansIntent, TypeOK, States
<1>9. AbsentMeansUnfrozen' /\ ReportCoversPrefix'
  BY <1>4 DEF AbsentMeansUnfrozen, ReportCoversPrefix, report_target, TypeOK, States
<1> QED
  BY <1>1, <1>3, <1>6, <1>8, <1>9

\* Sources, resumption, and the freezing of the case.
LEMMA InstallKeepsIInv ==
  IInv /\ (RefuseSources \/ Resume \/ Install) => IInv'
<1> SUFFICES ASSUME IInv, RefuseSources \/ Resume \/ Install PROVE IInv'
  OBVIOUS
<1>1. TypeOK'
  BY ControllerTypeOK DEF Controller, IInv
<1>2. UNCHANGED envVars
  BY DEF RefuseSources, Resume, Install
<1> USE QuietStep, <1>2 DEF IInv, GoTo, Refuse, Return, Leave, set_status
<1>3. ~state.attempted
  BY DEF RefuseSources, Resume, Install, IntentMeansGood, PendingMeansIntent,
         Signalling, TypeOK, EnvTypeOK, SentCap
<1>4. FdHeldThePid' /\ FdIsIdentOrGone'
  BY DEF RefuseSources, Resume, Install, FdHeldThePid, FdIsIdentOrGone,
         Identified, Steps
<1>5. pc' = "idle" \/ pc' = "check"
  BY DEF RefuseSources, Resume, Install
<1>6. RunnerIsIdent'
  BY <1>5 DEF RefuseSources, Resume, Install, RunnerIsIdent, TypeOK, States,
              EnvTypeOK, Frozen, Identified, Steps
<1>7. VerifiedMeansGood' /\ UploadMeansReported'
  BY <1>5 DEF VerifiedMeansGood, UploadMeansReported, Verified, Frozen,
              Identified, Steps
<1>8. ~state'.attempted
  BY <1>3 DEF RefuseSources, Resume, Install, TypeOK, States
<1>9. IntentMeansGood' /\ PendingMeansIntent'
  BY <1>3, <1>5, <1>8 DEF IntentMeansGood, PendingMeansIntent
<1>10. AbsentMeansUnfrozen' /\ ReportCoversPrefix'
  BY DEF RefuseSources, Resume, Install, AbsentMeansUnfrozen,
         ReportCoversPrefix, report_target, TypeOK, States
<1> QED
  BY <1>1, <1>4, <1>6, <1>7, <1>9, <1>10

\* Watching the frozen case and the checks before the signal.
LEMMA WatchKeepsIInv ==
  IInv /\ (CheckResult \/ Watch \/ Peek \/ assert_same_runner \/ Probe) => IInv'
<1> SUFFICES ASSUME IInv,
                    CheckResult \/ Watch \/ Peek \/ assert_same_runner \/ Probe
             PROVE  IInv'
  OBVIOUS
<1>1. TypeOK'
  BY ControllerTypeOK DEF Controller, IInv
<1>2. UNCHANGED envVars
  BY DEF CheckResult, Watch, Peek, assert_same_runner, Probe
<1> USE QuietStep, <1>2 DEF IInv, GoTo, Refuse, Return, Leave, set_status
<1>3. /\ pc \in Frozen \ Signalling
      /\ pc' \in {"idle", "peek", "watch", "check", "confirm", "probe", "attempt", "report"}
  BY DEF CheckResult, Watch, Peek, assert_same_runner, Probe, Frozen,
         Identified, Steps, Signalling
<1>4. /\ ~state.attempted
      /\ state.frozen \in Cases
  BY <1>3 DEF IntentMeansGood, PendingMeansIntent, RunnerIsIdent, TypeOK,
              EnvTypeOK, SentCap
<1>5. \/ state' = state
      \/ state' = [state EXCEPT !.status = "refused"]
      \/ state' = [state EXCEPT !.status = "runner_exited_before_saved_current_result"]
      \/ state' = [state EXCEPT !.status = "runner_exited_after_saved_current_result"]
  BY DEF CheckResult, Watch, Peek, assert_same_runner, Probe
<1>6. /\ UNCHANGED <<state.frozen, state.attempted, state.runner>>
      /\ state'.status = state.status \/
         state'.status \in {"refused", "runner_exited_before_saved_current_result",
                            "runner_exited_after_saved_current_result"}
  BY <1>5 DEF TypeOK, States
<1>7. pc' = "idle" \/ UNCHANGED <<fd, ident>>
  BY DEF CheckResult, Watch, Peek, assert_same_runner, Probe
<1>8. FdHeldThePid' /\ FdIsIdentOrGone' /\ RunnerIsIdent'
  BY <1>3, <1>6, <1>7
     DEF CheckResult, Watch, Peek, assert_same_runner, Probe,
         FdHeldThePid, FdIsIdentOrGone, RunnerIsIdent, Frozen, Identified, Steps
<1>9. VerifiedMeansGood'
  BY <1>6 DEF CheckResult, Watch, Peek, assert_same_runner, Probe, saved_result,
         ValidEvidence, VerifiedMeansGood, Verified, Frozen, Identified, Steps
<1>10. IntentMeansGood' /\ PendingMeansIntent'
  BY <1>3, <1>4, <1>6 DEF IntentMeansGood, PendingMeansIntent
<1>11. AbsentMeansUnfrozen' /\ UploadMeansReported' /\ ReportCoversPrefix'
  BY <1>3, <1>6 DEF AbsentMeansUnfrozen, UploadMeansReported, ReportCoversPrefix,
         report_target
<1> QED
  BY <1>1, <1>8, <1>9, <1>10, <1>11

\* The write of the intention.
LEMMA AttemptKeepsIInv == IInv /\ Attempt => IInv'
<1> SUFFICES ASSUME IInv, Attempt PROVE IInv'
  OBVIOUS
<1>1. TypeOK'
  BY ControllerTypeOK DEF Controller, IInv
<1>2. UNCHANGED envVars
  BY DEF Attempt
<1> USE QuietStep, <1>2 DEF IInv
<1>3. /\ ~state.attempted
      /\ state.frozen \in Cases /\ result[state.frozen] = "good"
  BY DEF Attempt, IntentMeansGood, PendingMeansIntent, RunnerIsIdent,
         VerifiedMeansGood, Verified, Frozen, Identified, Steps, Signalling,
         TypeOK, EnvTypeOK, SentCap
<1>4. /\ UNCHANGED <<state.frozen, state.runner, fd, ident>>
      /\ state'.attempted /\ state'.status = "signal_attempted" /\ pc' = "send"
  BY DEF Attempt, TypeOK, States
<1>5. FdHeldThePid' /\ FdIsIdentOrGone' /\ RunnerIsIdent' /\ VerifiedMeansGood'
  BY <1>4 DEF Attempt, FdHeldThePid, FdIsIdentOrGone, RunnerIsIdent,
         VerifiedMeansGood, Verified, Frozen, Identified, Steps
<1>6. IntentMeansGood' /\ PendingMeansIntent'
  BY <1>3, <1>4 DEF IntentMeansGood, PendingMeansIntent,
         Signalling
<1>7. AbsentMeansUnfrozen' /\ UploadMeansReported' /\ ReportCoversPrefix'
  BY <1>4 DEF AbsentMeansUnfrozen, UploadMeansReported, ReportCoversPrefix
<1> QED
  BY <1>1, <1>5, <1>6, <1>7

\* The signal changes no more than the status.
LEMMA SendKeepsIInv == IInv /\ Send => IInv'
<1> SUFFICES ASSUME IInv, Send PROVE IInv'
  OBVIOUS
<1>1. TypeOK'
  BY ControllerTypeOK DEF Controller, IInv
<1> USE DEF IInv, GoTo, Return, Leave, set_status
<1>2. UNCHANGED <<holder, past, active, result>>
  BY DEF Send
<1>3. pc = "send" /\ state.attempted /\ pc \in Verified
  BY DEF Send, PendingMeansIntent, Verified, Frozen, Identified, Steps
<1>4. /\ UNCHANGED <<state.frozen, state.attempted, state.runner>>
      /\ \/ pc' = "await" /\ UNCHANGED <<state, fd, ident>>
         \/ /\ pc' = "idle" /\ fd' = NoProc
            /\ state'.status = "signal_sent_waiting_for_exit"
  BY DEF Send, TypeOK, States
<1>5. NothingBeyondActive' /\ HeldOnce' /\ OriginalFirst'
  BY <1>2 DEF NothingBeyondActive, HeldOnce, OriginalFirst
<1>6. FdHeldThePid' /\ FdIsIdentOrGone' /\ RunnerIsIdent' /\ VerifiedMeansGood'
  BY <1>2, <1>3, <1>4 DEF FdHeldThePid, FdIsIdentOrGone, RunnerIsIdent,
         VerifiedMeansGood, Verified, Frozen, Identified, Steps
<1>7. IntentMeansGood' /\ PendingMeansIntent'
  BY <1>2, <1>3, <1>4 DEF IntentMeansGood, PendingMeansIntent, Signalling
<1>8. AbsentMeansUnfrozen' /\ UploadMeansReported' /\ ReportCoversPrefix'
  BY <1>2, <1>4 DEF AbsentMeansUnfrozen, UploadMeansReported, ReportCoversPrefix,
         report_target, PrefixAccepted, ValidResult, ValidEvidence
<1> QED
  BY <1>1, <1>5, <1>6, <1>7, <1>8

\* Waiting, reporting, uploading, refusing and crashing.
LEMMA FinishKeepsIInv ==
  IInv /\ (AwaitExit \/ Report \/ ReportBroke \/ Upload \/ RefuseChild \/ Crash)
    => IInv'
<1> SUFFICES ASSUME IInv,
                    AwaitExit \/ Report \/ ReportBroke \/ Upload \/ RefuseChild \/ Crash
             PROVE  IInv'
  OBVIOUS
<1>1. TypeOK'
  BY ControllerTypeOK DEF Controller, IInv
<1>2. UNCHANGED envVars
  BY DEF AwaitExit, Report, ReportBroke, Upload, RefuseChild, Crash
<1> USE QuietStep, <1>2 DEF IInv, GoTo, Refuse, Return, Leave, set_status
<1>3. /\ pc' \in {"idle", "report", "upload"}
      /\ pc' # "idle" => pc \in Verified /\ UNCHANGED <<fd, ident>>
      /\ pc' = "idle" => fd' = NoProc
  BY DEF AwaitExit, Report, ReportBroke, Upload, RefuseChild, Crash, Verified,
         Frozen, Identified, Steps
<1>4. UNCHANGED <<state.frozen, state.attempted, state.runner>>
  BY DEF AwaitExit, Report, ReportBroke, Upload, RefuseChild, Crash, TypeOK, States
<1>5. FdHeldThePid' /\ FdIsIdentOrGone' /\ RunnerIsIdent' /\ VerifiedMeansGood'
  BY <1>3, <1>4 DEF FdHeldThePid, FdIsIdentOrGone, RunnerIsIdent,
         VerifiedMeansGood, Verified, Frozen, Identified, Steps
<1>6. IntentMeansGood' /\ PendingMeansIntent'
  BY <1>3, <1>4 DEF IntentMeansGood, PendingMeansIntent, Signalling
<1>7. AbsentMeansUnfrozen' /\ UploadMeansReported' /\ ReportCoversPrefix'
  BY <1>4 DEF AwaitExit, Report, ReportBroke, Upload, RefuseChild, Crash,
         AbsentMeansUnfrozen, UploadMeansReported, ReportCoversPrefix,
         report_target, TypeOK, States
<1> QED
  BY <1>1, <1>5, <1>6, <1>7

\* The strengthened invariant holds at first.
LEMMA InitIInv == Init => IInv
<1> SUFFICES ASSUME Init PROVE IInv
  OBVIOUS
<1>1. TypeOK
  BY InitTypeOK
<1>2. PrefixAccepted(0)
  BY DEF PrefixAccepted
<1> QED
  BY <1>1, <1>2 DEF IInv, Init, EnvInit, NoState, NothingBeyondActive, HeldOnce,
     FdHeldThePid, FdIsIdentOrGone, RunnerIsIdent, VerifiedMeansGood,
     OriginalFirst, IntentMeansGood, PendingMeansIntent, AbsentMeansUnfrozen,
     UploadMeansReported, ReportCoversPrefix, Verified, Frozen, Identified, Steps

\* A launch that cannot read stop-current.json leaves nothing to go on with.
LEMMA RefusalKeepsIInv == IInv /\ LaunchUnreadable => IInv'
<1> SUFFICES ASSUME IInv, LaunchUnreadable PROVE IInv'
  OBVIOUS
<1>1. TypeOK'
  BY ControllerTypeOK DEF IInv
<1>2. UNCHANGED envVars
  BY DEF LaunchUnreadable
<1> USE QuietStep, <1>2 DEF IInv
<1>3. /\ pc' = "idle" /\ UNCHANGED <<fd, ident>>
      /\ state'.status = "refused" /\ state'.frozen = NoCase /\ ~state'.attempted
  BY DEF LaunchUnreadable, NoState
<1>4. FdHeldThePid' /\ FdIsIdentOrGone' /\ RunnerIsIdent' /\ VerifiedMeansGood'
  BY <1>3 DEF FdHeldThePid, FdIsIdentOrGone, RunnerIsIdent, VerifiedMeansGood,
     Verified, Frozen, Identified, Steps
<1>5. IntentMeansGood' /\ PendingMeansIntent' /\ AbsentMeansUnfrozen'
  BY <1>3 DEF IntentMeansGood, PendingMeansIntent, AbsentMeansUnfrozen
<1>6. UploadMeansReported' /\ ReportCoversPrefix'
  BY <1>3 DEF UploadMeansReported, ReportCoversPrefix
<1> QED
  BY <1>1, <1>4, <1>5, <1>6

\* Every step of the controller keeps it.
LEMMA OwnKeepsIInv ==
  IInv /\ (Launch \/ LaunchUnreadable \/ Controller \/ Crash) => IInv'
BY ApproachKeepsIInv, InstallKeepsIInv, WatchKeepsIInv, AttemptKeepsIInv,
   SendKeepsIInv, FinishKeepsIInv, RefusalKeepsIInv DEF Controller

\* It is inductive.
LEMMA StepKeepsIInv == IInv /\ [Next]_vars => IInv'
<1> SUFFICES ASSUME IInv, [Next]_vars PROVE IInv'
  OBVIOUS
<1>1. CASE UNCHANGED vars
  BY <1>1 DEF vars, ctlVars, envVars, IInv, TypeOK, EnvTypeOK, SummaryTypeOK,
     NothingBeyondActive, HeldOnce, FdHeldThePid, FdIsIdentOrGone,
     OriginalFirst, RunnerIsIdent, VerifiedMeansGood, IntentMeansGood,
     PendingMeansIntent, AbsentMeansUnfrozen, UploadMeansReported,
     ReportCoversPrefix, PrefixAccepted, report_target, ValidResult, ValidEvidence
<1>2. CASE Next
  BY <1>2, OwnKeepsIInv, WorldDrifts, DriftKeepsIInv DEF Next
<1> QED
  BY <1>1, <1>2

\* The strengthened invariant holds of every behaviour.
THEOREM Inductive == Spec => []IInv
BY InitIInv, StepKeepsIInv, PTL DEF Spec

\* A claimed report covers verified results up to the frozen case.
THEOREM ReportsVerified == Spec => []ReportCoversPrefix
<1>1. IInv => ReportCoversPrefix
  BY DEF IInv
<1> QED
  BY <1>1, Inductive, PTL

-----------------------------------------------------------------------------
(* Steps *)

\* The frozen case and runner are written once, by a step of the controller.
LEMMA OwnKeepsFrozen ==
  ASSUME IInv, Launch \/ Controller \/ Crash, state.frozen # NoCase
  PROVE  state'.frozen = state.frozen /\ state'.runner = state.runner
<1> USE DEF IInv, TypeOK, States, GoTo, Refuse, Return, Leave, set_status
<1>1. CASE Install
  BY <1>1 DEF Install, AbsentMeansUnfrozen
<1>2. CASE Launch \/ ReadSpec \/ OpenPidfd \/ Identify \/ RefuseSources \/ Resume
  BY <1>2 DEF Launch, ReadSpec, OpenPidfd, Identify, RefuseSources, Resume
<1>3. CASE CheckResult \/ Watch \/ Peek \/ assert_same_runner \/ Probe \/ Attempt
  BY <1>3 DEF CheckResult, Watch, Peek, assert_same_runner, Probe, Attempt
<1>4. CASE Send \/ AwaitExit \/ Report \/ ReportBroke \/ Upload \/ RefuseChild \/ Crash
  BY <1>4 DEF Send, AwaitExit, Report, ReportBroke, Upload, RefuseChild, Crash
<1> QED
  BY <1>1, <1>2, <1>3, <1>4 DEF Controller

\* So does every step but a launch that cannot read stop-current.json.
LEMMA StepKeepsFrozen ==
  ASSUME IInv, [Next]_vars, ~LaunchUnreadable, state.frozen # NoCase
  PROVE  state'.frozen = state.frozen /\ state'.runner = state.runner
BY OwnKeepsFrozen, WorldSendsNothing DEF Next, vars, ctlVars

\* No crash, refusal or later launch changes the frozen case or runner, as long
\* as stop-current.json can be read.
THEOREM FrozenOnce == Spec /\ Readable => FrozenForGood
<1>1. Readable /\ IInv /\ [Next]_vars =>
        [state.frozen # NoCase =>
           /\ state'.frozen = state.frozen
           /\ state'.runner = state.runner]_vars
  BY StepKeepsFrozen DEF Readable, LaunchUnreadable
<1>2. Readable => Readable'
  BY DEF Readable
<1> QED
  BY <1>1, <1>2, Inductive, PTL DEF Spec, FrozenForGood

-----------------------------------------------------------------------------
(* Signals *)

\* A step of the controller moves nothing of the benchmark.
LEMMA OwnSteps ==
  ASSUME IInv, Launch \/ LaunchUnreadable \/ Controller \/ Crash
  PROVE  /\ Drift
         /\ UNCHANGED <<holder, past, zombie, active, beat, result, specOK>>
         /\ ~Send => UNCHANGED <<sent, struck>>
<1>1. UNCHANGED <<holder, past, zombie, active, beat, result, specOK>>
  BY DEF Launch, LaunchUnreadable, Crash, Controller, ReadSpec, OpenPidfd, Identify, RefuseSources,
     Resume, Install, CheckResult, Watch, Peek, assert_same_runner, Probe, Attempt,
     Send, AwaitExit, Report, ReportBroke, Upload, RefuseChild, envVars
<1>2. ~Send => UNCHANGED <<sent, struck>>
  BY DEF Launch, LaunchUnreadable, Crash, Controller, ReadSpec, OpenPidfd, Identify, RefuseSources,
     Resume, Install, CheckResult, Watch, Peek, assert_same_runner, Probe, Attempt,
     AwaitExit, Report, ReportBroke, Upload, RefuseChild, envVars
<1>3. TypeOK'
  BY ControllerTypeOK DEF IInv
<1>4. Drift
  BY <1>1, <1>3, ControllersDrift DEF IInv, TypeOK, EnvTypeOK, EnvInv
<1> QED
  BY <1>1, <1>2, <1>4

\* How the signals of this controller go with its record: a pidfd that still
\* accepts one is that of the frozen runner.
LEMMA OwnSignals ==
  ASSUME IInv, Launch \/ LaunchUnreadable \/ Controller \/ Crash
  PROVE  /\ state.attempted => state'.attempted \/ LaunchUnreadable
         /\ pc' = "send" => ~state.attempted
         /\ Send => /\ pc = "send" /\ pc' # "send" /\ state.attempted
                    /\ sent' = sent \/ sent' = sent + 1
                    /\ struck' = struck \/ (struck' = struck \union {state.runner} /\ sent' # 0)
<1> USE DEF IInv, GoTo, Refuse, Return, Leave, set_status
<1>1. CASE Launch \/ ReadSpec \/ OpenPidfd \/ Identify \/ RefuseSources \/ Resume
  BY <1>1 DEF Launch, ReadSpec, OpenPidfd, Identify, RefuseSources, Resume, Send,
     TypeOK, States
<1>2. CASE Install
  BY <1>2 DEF Install, Send, IntentMeansGood, Signalling
<1>3. CASE CheckResult \/ Watch \/ Peek \/ assert_same_runner \/ Probe
  BY <1>3 DEF CheckResult, Watch, Peek, assert_same_runner, Probe, Send, TypeOK, States
<1>4. CASE Attempt
  BY <1>4 DEF Attempt, Send, IntentMeansGood, Signalling, TypeOK, States
<1>5. CASE Send
  <2>1. /\ pc = "send" /\ pc' # "send" /\ state.attempted /\ state'.attempted
        /\ sent' = sent \/ sent' = sent + 1
    BY <1>5 DEF Send, PendingMeansIntent, Strike, TypeOK, States
  <2>2. holder = fd => fd = state.runner
    BY <1>5 DEF Send, FdIsIdentOrGone, HeldOnce, RunnerIsIdent, Frozen, Identified, Steps
  <2>3. struck' = struck \/ (struck' = struck \union {state.runner} /\ sent' # 0)
    BY <1>5, <2>2 DEF Send, Signallable, Strike, Alive, TypeOK, EnvTypeOK, SentCap
  <2> QED
    BY <2>1, <2>3
<1>6. CASE AwaitExit \/ Report \/ ReportBroke \/ Upload \/ RefuseChild
  BY <1>6 DEF AwaitExit, Report, ReportBroke, Upload, RefuseChild, Send, TypeOK, States
<1>7. CASE Crash /\ ~Send
  BY <1>7 DEF Crash
<1>8. CASE LaunchUnreadable
  BY <1>8 DEF LaunchUnreadable, Send
<1> QED
  BY <1>1, <1>2, <1>3, <1>4, <1>5, <1>6, <1>7, <1>8 DEF Controller

\* A refusal without a frozen case is never resumed: it stays one, and no launch
\* gets from it to the signal.
LEMMA ErasedForGood ==
  ASSUME IInv, Launch \/ LaunchUnreadable \/ Controller \/ Crash
  PROVE  /\ Erased => Erased'
         /\ LaunchUnreadable => Erased' /\ pc' # "send"
         /\ pc' = "send" => ~Erased
<1> USE DEF GoTo, Refuse, Return, Leave, set_status
<1>1. CASE Launch \/ ReadSpec \/ OpenPidfd \/ Identify \/ RefuseSources \/ Resume \/ Install
  <2>1. pc' # "send" /\ ~LaunchUnreadable
    BY <1>1 DEF Launch, ReadSpec, OpenPidfd, Identify, RefuseSources, Resume, Install,
       LaunchUnreadable
  <2>2. Erased => Erased'
    BY <1>1 DEF Launch, ReadSpec, OpenPidfd, Identify, RefuseSources, Resume, Install,
       Erased, IInv, TypeOK, States
  <2> QED
    BY <2>1, <2>2
<1>2. CASE LaunchUnreadable
  BY <1>2 DEF LaunchUnreadable, NoState, Erased
<1>3. CASE pc \in Frozen /\ ~LaunchUnreadable
  <2>1. ~Erased
    BY <1>3 DEF IInv, RunnerIsIdent, Erased, Cases, NoCase
  <2> QED
    BY <1>3, <2>1
<1>4. CASE Crash
  BY <1>4 DEF Crash, LaunchUnreadable, Erased
<1>5. CheckResult \/ Watch \/ Peek \/ assert_same_runner \/ Probe \/ Attempt \/ Send
        \/ AwaitExit \/ Report \/ ReportBroke \/ Upload \/ RefuseChild
      => pc \in Frozen /\ ~LaunchUnreadable
  BY DEF CheckResult, Watch, Peek, assert_same_runner, Probe, Attempt, Send, AwaitExit,
     Report, ReportBroke, Upload, RefuseChild, LaunchUnreadable, Frozen, Identified, Steps
<1> QED
  BY <1>1, <1>2, <1>3, <1>4, <1>5 DEF Controller

\* Once a signal may have been sent no other one follows.
LEMMA StepKeepsOInv == OInv /\ [Next]_vars => OInv'
<1> SUFFICES ASSUME OInv, [Next]_vars PROVE OInv'
  OBVIOUS
<1> USE DEF OInv
<1>1. IInv'
  BY StepKeepsIInv
<1>t. sent \in Nat
  BY DEF IInv, TypeOK, EnvTypeOK, SentCap
<1>2. CASE UNCHANGED vars \/ World
  BY <1>1, <1>2, WorldSendsNothing DEF vars, ctlVars, envVars, SentOnce, Erased
<1>3. CASE Launch \/ LaunchUnreadable \/ Controller \/ Crash
  <2>1. state.attempted \/ Erased => (state'.attempted \/ Erased') /\ pc' # "send"
    BY <1>3, OwnSignals, ErasedForGood
  <2>2. CASE Send
    <3>1. sent = 0 /\ state.attempted /\ sent' \in {0, 1}
      BY <1>3, <1>t, <2>2, OwnSignals DEF SentOnce
    <3> QED
      BY <1>1, <2>1, <3>1 DEF SentOnce
  <2>3. CASE ~Send
    BY <1>1, <1>3, <2>1, <2>3, OwnSteps DEF SentOnce
  <2> QED
    BY <2>2, <2>3
<1> QED
  BY <1>2, <1>3 DEF Next

\* It holds of every behaviour.
THEOREM OInductive == Spec => []OInv
<1>1. Init => OInv
  BY InitIInv DEF OInv, Init, EnvInit, SentOnce
<1> QED
  BY <1>1, StepKeepsOInv, PTL DEF Spec

\* However often the controller crashes and is launched again, and whether or
\* not stop-current.json can be read then, at most one SIGINT reaches a process.
THEOREM OneSigint == Spec => []AtMostOneSigint
<1>1. OInv => AtMostOneSigint
  BY DEF OInv, SentOnce, AtMostOneSigint
<1> QED
  BY <1>1, OInductive, PTL

\* The SIGINT reaches the runner named in stop-current.json, whoever holds its
\* pid by then.
THEOREM RightRunnerStruck == Spec => OnlyFrozenRunnerStruck
<1>1. IInv /\ [Next]_vars => [struck' \subseteq struck \union {state.runner}]_vars
  BY OwnSteps, OwnSignals, WorldSendsNothing DEF Next
<1> QED
  BY <1>1, Inductive, PTL DEF Spec, OnlyFrozenRunnerStruck

\* A SIGINT presupposes the intention on disk and the verified frozen case.
THEOREM SavedBeforeSignal == Spec => SignalOnlyAfterSaved
<1>1. IInv /\ [Next]_vars =>
        [sent' # sent => state.attempted /\ result[state.frozen] = "good"]_vars
  <2>1. ASSUME IInv, Send PROVE state.attempted /\ result[state.frozen] = "good"
    BY <2>1, OwnSignals DEF Controller, IInv, IntentMeansGood
  <2> QED
    BY <2>1, OwnSteps, WorldSendsNothing DEF Next
<1> QED
  BY <1>1, Inductive, PTL DEF Spec, SignalOnlyAfterSaved

-----------------------------------------------------------------------------
(* Claims that the runner has gone *)

\* Whatever the others do, a runner that has gone does not come back.
LEMMA DriftKeepsCInv ==
  ASSUME CInv, Drift, UNCHANGED ctlVars
  PROVE  CInv'
<1>1. IInv'
  BY DriftKeepsIInv DEF CInv
<1>2. OnlyTheOriginal' /\ ClaimsMeanGone'
  BY DEF CInv, IInv, TypeOK, EnvTypeOK, Drift, ctlVars, OnlyTheOriginal,
         ClaimsMeanGone, RunnerGone
<1> QED
  BY <1>1, <1>2 DEF CInv

\* A process that the controller finds dead is the recorded runner.
LEMMA DeadMeansGone == CInv /\ pc \in Frozen /\ process_exited => RunnerGone
BY DEF CInv, IInv, FdHeldThePid, RunnerIsIdent, OnlyTheOriginal, Frozen,
       process_exited, Alive, RunnerGone, NoProc

\* Every step of the controller keeps it.
LEMMA OwnKeepsCInv ==
  ASSUME CInv, Launch \/ LaunchUnreadable \/ Controller \/ Crash,
         "rerun" \notin Successors
  PROVE  CInv'
<1>1. IInv'
  BY OwnKeepsIInv DEF CInv
<1>e. UNCHANGED <<holder, past, zombie>>
  BY OwnSteps DEF CInv
<1> USE DEF GoTo, Refuse, Return, Leave, set_status, CInv
<1>2. CASE Identify
  <2>1. identify_runner(holder) => holder = "original" /\ fd = "original"
    BY <1>2 DEF Identify, identify_runner, Runners, NoProc, IInv, OriginalFirst, FdHeldThePid
  <2> QED
    BY <1>1, <1>2, <1>e, <2>1 DEF Identify, OnlyTheOriginal, ClaimsMeanGone, RunnerGone,
       ExitClaims, Identified, Steps, IInv, TypeOK, States
<1>3. CASE Launch \/ ReadSpec \/ OpenPidfd \/ RefuseSources \/ Resume \/ Crash
  BY <1>1, <1>3, <1>e DEF Launch, ReadSpec, OpenPidfd, RefuseSources, Resume, Crash,
     OnlyTheOriginal, ClaimsMeanGone, RunnerGone, ExitClaims, Identified, Steps,
     IInv, TypeOK, States
<1>4. CASE Install
  BY <1>1, <1>4, <1>e DEF Install, OnlyTheOriginal, ClaimsMeanGone, RunnerGone,
     ExitClaims, Identified, Steps, IInv, TypeOK, States
<1>5. CASE CheckResult \/ assert_same_runner \/ Probe \/ Attempt \/ Send
  BY <1>1, <1>5, <1>e DEF CheckResult, assert_same_runner, Probe, Attempt, Send,
     OnlyTheOriginal, ClaimsMeanGone, RunnerGone, ExitClaims, Identified, Steps,
     IInv, TypeOK, States
<1>6. CASE Watch \/ Peek \/ AwaitExit
  <2>1. process_exited => RunnerGone
    BY <1>6, DeadMeansGone DEF Watch, Peek, AwaitExit, Frozen, Identified, Steps
  <2> QED
    BY <1>1, <1>6, <1>e, <2>1 DEF Watch, Peek, AwaitExit, OnlyTheOriginal,
       ClaimsMeanGone, RunnerGone, ExitClaims, Identified, Steps, IInv, TypeOK, States
<1>7. CASE Report \/ ReportBroke \/ Upload \/ RefuseChild
  <2>1. RunnerGone
    BY <1>7 DEF Report, ReportBroke, Upload, RefuseChild, ClaimsMeanGone
  <2>2. RunnerGone' /\ state'.runner = state.runner
    BY <1>7, <1>e, <2>1 DEF Report, ReportBroke, Upload, RefuseChild, RunnerGone,
       IInv, TypeOK, States
  <2> QED
    BY <1>1, <1>7, <2>2 DEF Report, ReportBroke, Upload, RefuseChild,
       OnlyTheOriginal, ClaimsMeanGone, Identified, Steps
<1>8. CASE LaunchUnreadable
  BY <1>1, <1>8 DEF LaunchUnreadable, NoState, OnlyTheOriginal, ClaimsMeanGone,
     ExitClaims, Identified, Steps
<1> QED
  BY <1>2, <1>3, <1>4, <1>5, <1>6, <1>7, <1>8 DEF Controller

\* It holds at first.
LEMMA InitCInv == Init => CInv
BY InitIInv DEF CInv, Init, NoState, OnlyTheOriginal, ClaimsMeanGone, RunnerGone,
   ExitClaims, Identified, Steps

\* A status that says the runner has gone is true, and stays so, as long as
\* the kernel gives its pid to no other benchmark runner.
THEOREM ExitClaimsTrue ==
  ASSUME "rerun" \notin Successors
  PROVE  Spec => []ExitClaimsAreTrue
<1>1. CInv /\ [Next]_vars => CInv'
  <2> SUFFICES ASSUME CInv, [Next]_vars PROVE CInv'
    OBVIOUS
  <2>1. CASE UNCHANGED vars
    <3>1. IInv'
      BY <2>1, StepKeepsIInv DEF CInv
    <3> QED
      BY <2>1, <3>1 DEF CInv, OnlyTheOriginal, ClaimsMeanGone, RunnerGone,
         vars, ctlVars, envVars
  <2>2. CASE World
    BY <2>2, WorldDrifts, DriftKeepsCInv DEF CInv
  <2>3. CASE Launch \/ LaunchUnreadable \/ Controller \/ Crash
    BY <2>3, OwnKeepsCInv
  <2> QED
    BY <2>1, <2>2, <2>3 DEF Next
<1>2. CInv => ExitClaimsAreTrue
  BY DEF CInv, IInv, HeldOnce, ClaimsMeanGone, RunnerGone, ExitClaimsAreTrue, Alive
<1> QED
  BY <1>1, <1>2, InitCInv, PTL DEF Spec

-----------------------------------------------------------------------------
(* The promise of StopOnce *)

\* The mapping of StopOnce's `saved'.
FrozenSaved == state.frozen # NoCase /\ result[state.frozen] = "good"

\* What was saved and frozen stays so while stop-current.json is read.
LEMMA FrozenSavedStays ==
  ASSUME IInv, [Next]_vars, ~LaunchUnreadable, FrozenSaved
  PROVE  FrozenSaved'
<1>1. state'.frozen = state.frozen /\ state.frozen \in Cases
  BY StepKeepsFrozen DEF FrozenSaved, IInv, TypeOK, States
<1>2. CASE World
  BY <1>1, <1>2, ResultsStay, WorldSendsNothing DEF TypeOK, FrozenSaved, IInv
<1>3. CASE ~World
  <2>1. UNCHANGED result
    BY <1>3 DEF Next, Controller, vars, envVars, Launch, LaunchUnreadable, Crash,
       ReadSpec, OpenPidfd, Identify, RefuseSources, Resume, Install, CheckResult, Watch,
       Peek, assert_same_runner, Probe, Attempt, Send, AwaitExit, Report,
       ReportBroke, Upload, RefuseChild
  <2> QED
    BY <1>1, <2>1 DEF FrozenSaved
<1> QED
  BY <1>2, <1>3

\* The other steps neither decide about the signal nor send one.
LEMMA QuietSteps ==
  ASSUME IInv, [Next]_vars, ~(Attempt \/ Send \/ Crash \/ LaunchUnreadable)
  PROVE  /\ state'.attempted = state.attempted /\ sent' = sent
         /\ pc' = "send" <=> pc = "send"
<1> USE DEF IInv, TypeOK, States, GoTo, Refuse, Return, Leave, set_status, envVars
<1>1. CASE UNCHANGED vars
  BY <1>1 DEF vars, ctlVars
<1>2. CASE World
  BY <1>2, WorldSendsNothing
<1>3. CASE Launch \/ ReadSpec \/ OpenPidfd \/ Identify \/ RefuseSources \/ Resume
  BY <1>3 DEF Launch, ReadSpec, OpenPidfd, Identify, RefuseSources, Resume
<1>4. CASE Install
  <2>1. state.attempted = FALSE
    BY <1>4 DEF Install, IntentMeansGood, Signalling
  <2>2. state'.attempted = FALSE /\ sent' = sent /\ pc # "send" /\ pc' # "send"
    BY <1>4, <2>1 DEF Install
  <2> QED
    BY <2>1, <2>2
<1>5. CASE CheckResult \/ Watch \/ Peek \/ assert_same_runner \/ Probe
  BY <1>5 DEF CheckResult, Watch, Peek, assert_same_runner, Probe
<1>6. CASE AwaitExit \/ Report \/ ReportBroke \/ Upload \/ RefuseChild
  BY <1>6 DEF AwaitExit, Report, ReportBroke, Upload, RefuseChild
<1> QED
  BY <1>1, <1>2, <1>3, <1>4, <1>5, <1>6 DEF Next, Controller

\* Every step of the controller, of a crash and of the surroundings is a step of
\* StopOnce or none at all; a refusal without a frozen case renounces.
THEOREM PromiseKept == Spec => KeepsPromise
<1> USE DEF Promise!Next, Promise!Save, Promise!Commit, Promise!Deliver,
            Promise!Abandon, Promise!Renounce, Promise!vars
<1>1. Init => Promise!Init
  BY DEF Init, EnvInit, NoState, Erased, Promise!Init
<1>2. OInv /\ [Next]_vars => [Promise!Next]_Promise!vars
  <2> SUFFICES ASSUME OInv, [Next]_vars PROVE [Promise!Next]_Promise!vars
    OBVIOUS
  <2> USE DEF OInv
  <2>1. ~LaunchUnreadable /\ FrozenSaved => FrozenSaved'
    BY FrozenSavedStays
  <2>e. Erased => Erased'
    BY ErasedForGood, WorldSendsNothing DEF Next, vars, ctlVars, Erased
  <2>p. (pc = "send" => ~Erased) /\ (pc' = "send" => ~Erased')
    <3>1. IInv'
      BY StepKeepsIInv
    <3> QED
      BY <3>1 DEF IInv, PendingMeansIntent, IntentMeansGood, Erased, Cases, NoCase
  <2>2. CASE Attempt
    <3>1. FrozenSaved /\ FrozenSaved' /\ ~state.attempted /\ ~LaunchUnreadable
      BY <2>2, <2>1 DEF IInv, Attempt, LaunchUnreadable, RunnerIsIdent, VerifiedMeansGood,
         IntentMeansGood, Signalling, Verified, Frozen, Identified, Steps,
         FrozenSaved, Cases, NoCase
    <3>2. state'.attempted = TRUE /\ pc' = "send" /\ sent' = sent
      BY <2>2 DEF Attempt, envVars, IInv, TypeOK, States
    <3>3. ~Erased /\ ~Erased'
      BY <2>e, <2>p, <3>2
    <3> QED
      BY <3>1, <3>2, <3>3 DEF FrozenSaved
  <2>3. CASE Send
    <3>1. FrozenSaved /\ FrozenSaved' /\ sent = 0
      BY <2>3, <2>1 DEF IInv, Send, LaunchUnreadable, SentOnce, PendingMeansIntent,
         IntentMeansGood, FrozenSaved, Cases, NoCase, TypeOK, EnvTypeOK, SentCap
    <3>2. /\ state.attempted /\ state'.attempted /\ pc = "send" /\ pc' # "send"
          /\ sent' = 0 \/ sent' = 1
      BY <2>3, <3>1 DEF Send, GoTo, Return, Leave, set_status, Strike, SentCap,
         IInv, PendingMeansIntent, TypeOK, States
    <3> QED
      BY <3>1, <3>2 DEF FrozenSaved
  <2>4. CASE Crash
    <3>1. UNCHANGED <<state, result, sent>> /\ pc' = "idle"
      BY <2>4 DEF Crash, Leave, envVars
    <3> QED
      BY <3>1 DEF Erased
  <2>5. CASE LaunchUnreadable
    <3>1. /\ Erased' /\ state'.frozen = NoCase
          /\ pc = "idle" /\ UNCHANGED <<pc, sent>>
      BY <2>5 DEF LaunchUnreadable, NoState, Erased, envVars
    <3> QED
      BY <3>1
  <2>6. CASE ~(Attempt \/ Send \/ Crash \/ LaunchUnreadable)
    <3>1. /\ state'.attempted = state.attempted /\ sent' = sent
          /\ pc' = "send" <=> pc = "send"
      BY <2>6, QuietSteps
    <3>2. CASE Erased' /\ ~Erased
      <4>1. state'.frozen = NoCase /\ pc # "send" /\ pc' # "send"
        BY <2>p, <3>1, <3>2 DEF Erased
      <4> QED
        BY <3>1, <3>2, <4>1
    <3>3. CASE Erased' <=> Erased
      BY <2>1, <2>6, <3>1, <3>3 DEF FrozenSaved
    <3> QED
      BY <2>e, <3>2, <3>3
  <2> QED
    BY <2>2, <2>3, <2>4, <2>5, <2>6
<1> QED
  BY <1>1, <1>2, OInductive, PTL DEF Spec, KeepsPromise, Promise!Spec
=============================================================================
