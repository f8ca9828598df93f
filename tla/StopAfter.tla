------------------------------ MODULE StopAfter ------------------------------
(***************************************************************************)
(* stop_after.py: one controller at a time (control.lock) waits until the  *)
(* first `target' cases have results and stops the runner with one SIGINT  *)
(* by pid.  control.json carries what one launch leaves to the next.  A    *)
(* controller may crash between any two steps; between two of its steps    *)
(* the runner, the kernel and an operator running stage_report.py by hand  *)
(* may move.                                                               *)
(***************************************************************************)
EXTENDS StageReport

CONSTANTS
  Targets,          \* the values of --target the operator may ask for
  ControlMayVanish  \* may control.json be unreadable or malformed when read?

ASSUME TargetsAssumption == Targets \subseteq 1 .. N
ASSUME ControlMayVanishAssumption == ControlMayVanish \in BOOLEAN

VARIABLES
  control,  \* control.json
  pc,       \* what the controller does next; "idle" when none runs
  tgt,      \* --target of this launch
  ident     \* the process this launch identified, or NoProc

ctlVars == <<control, pc, tgt, ident>>
vars == <<ctlVars, summary, envVars>>

Statuses ==
  { "absent", "identity_or_control_error", "identity_mismatch", "watching",
    "signal_issued", "signal_failed", "stop_wait_timeout", "stopped",
    "post_signal_identity_changed", "signal_already_sent_waiting_for_exit",
    "runner_exited_before_target", "report_refused_incomplete_target",
    "report_timeout", "report_failed", "report_invalid", "report_written",
    "complete_without_upload", "complete", "upload_failed", "upload_timeout" }

\* "anew" is "identify" for a launch that could not use control.json.
Steps == {"spec", "read", "resume", "reverify", "identify", "anew", "check",
          "verify", "record", "kill", "await", "probe", "precheck", "report",
          "summary", "upload"}

\* target 0: there is no control.json.
Controls == [ target : 0 .. N, signal_sent : BOOLEAN,
              runner : Procs \union {NoProc}, status : Statuses ]

Fresh(target, status) ==
  [target |-> target, signal_sent |-> FALSE, runner |-> NoProc, status |-> status]

TypeOK ==
  /\ EnvTypeOK
  /\ SummaryTypeOK
  /\ control \in Controls
  /\ pc \in Steps \union {"idle"}
  /\ tgt \in 0 .. N
  /\ ident \in Procs \union {NoProc}

Init ==
  /\ EnvInit
  /\ SummaryInit
  /\ control = Fresh(0, "absent")
  /\ pc = "idle"
  /\ tgt = 0
  /\ ident = NoProc

-----------------------------------------------------------------------------
(* Steps of the program. *)

GoTo(step) == pc' = step /\ UNCHANGED <<control, tgt, ident>>

Leave == pc' = "idle" /\ tgt' = 0 /\ ident' = NoProc

\* The record in memory: what control.json held, or a fresh one.
Loaded ==
  IF control.target = 0 \/ pc = "anew" THEN Fresh(tgt, "absent") ELSE control

update_control(status) == control' = [Loaded EXCEPT !.status = status]

Return(status) == update_control(status) /\ Leave

\* update_control, and the run goes on.
Mark(status, step) ==
  update_control(status) /\ pc' = step /\ UNCHANGED <<tgt, ident>>

\* The handler around run_controller, once control.json has been loaded ...
Fail == Return("identity_or_control_error")

\* ... and before: control.json is replaced, whatever stood in it.
FailUnloaded == control' = Fresh(tgt, "identity_or_control_error") /\ Leave

\* live_identity reads /proc by pid: it shows whoever holds the number.
live_identity == Alive(holder) /\ holder \in Runners

\* has_same_starttime_or_exited for the process p.
Exited == ~Alive(holder)
Replaced(p) == Alive(holder) /\ holder # p
Live(p) == Alive(p)

\* The results are there; their evidence is not looked at.
results_complete(target) == \A c \in 0 .. target-1 : ValidResult(c)

Launch ==
  /\ pc = "idle"
  /\ tgt' \in Targets
  /\ pc' = "spec"
  /\ UNCHANGED <<control, ident, summary, envVars>>

load_runner_spec ==
  /\ pc = "spec"
  /\ IF specOK THEN GoTo("read") ELSE FailUnloaded
  /\ UNCHANGED <<summary, envVars>>

\* A control.json that cannot be read or parsed counts as absent, whatever
\* target, runner and signal it records.
ReadControl ==
  /\ pc = "read"
  /\ \/ control.target \notin {0, tgt} /\ FailUnloaded
     \/ /\ control.target \in {0, tgt}
        /\ GoTo(IF control.signal_sent THEN "resume" ELSE "identify")
     \/ ControlMayVanish /\ control.target # 0 /\ GoTo("anew")
  /\ UNCHANGED <<summary, envVars>>

\* An earlier launch wrote signal_sent: this one sends nothing.
Resume ==
  /\ pc = "resume"
  /\ \/ Exited /\ Mark("stopped", "precheck")
     \/ Replaced(control.runner) /\ Return("post_signal_identity_changed")
     \/ Live(control.runner) /\ GoTo("reverify")
  /\ UNCHANGED <<summary, envVars>>

Reverify ==
  /\ pc = "reverify"
  /\ \/ ~live_identity /\ Fail
     \/ /\ live_identity /\ holder # control.runner
        /\ Return("post_signal_identity_changed")
     \/ /\ live_identity /\ holder = control.runner
        /\ Return("signal_already_sent_waiting_for_exit")
  /\ UNCHANGED <<summary, envVars>>

\* Mutant: the runner of an earlier launch is forgotten.
Identify_any_runner ==
  /\ pc \in {"identify", "anew"}
  /\ \/ ~live_identity /\ Fail
     \/ /\ live_identity
        /\ control' = [Loaded EXCEPT !.runner = holder, !.status = "watching"]
        /\ ident' = holder
        /\ pc' = "check"
        /\ UNCHANGED tgt
  /\ UNCHANGED <<summary, envVars>>

Identify ==
  /\ pc \in {"identify", "anew"}
  /\ \/ ~live_identity /\ Fail
     \/ /\ live_identity /\ Loaded.runner \notin {NoProc, holder}
        /\ Return("identity_mismatch")
     \/ /\ live_identity /\ Loaded.runner \in {NoProc, holder}
        /\ control' = [Loaded EXCEPT !.runner = holder, !.status = "watching"]
        /\ ident' = holder
        /\ pc' = "check"
        /\ UNCHANGED tgt
  /\ UNCHANGED <<summary, envVars>>

\* Mutant: the prefix ends one case too early.
Check_off_by_one ==
  /\ pc = "check"
  /\ Mark("watching", IF results_complete(tgt - 1) THEN "verify" ELSE "probe")
  /\ UNCHANGED <<summary, envVars>>

Check ==
  /\ pc = "check"
  /\ Mark("watching", IF results_complete(tgt) THEN "verify" ELSE "probe")
  /\ UNCHANGED <<summary, envVars>>

\* Mutant: a runner that died early is not noticed.
Probe_forgets_exit ==
  /\ pc = "probe"
  /\ GoTo("check")
  /\ UNCHANGED <<summary, envVars>>

Probe ==
  /\ pc = "probe"
  /\ \/ Exited /\ Return("runner_exited_before_target")
     \/ Replaced(ident) /\ Return("identity_mismatch")
     \/ Live(ident) /\ GoTo("check")
  /\ UNCHANGED <<summary, envVars>>

Verify ==
  /\ pc = "verify"
  /\ IF live_identity /\ holder = ident THEN GoTo("record") ELSE Fail
  /\ UNCHANGED <<summary, envVars>>

\* Mutant: the write before the signal leaves signal_sent out.
RecordSignal_not_durable ==
  /\ pc = "record"
  /\ control' = [control EXCEPT !.status = "signal_issued"]
  /\ pc' = "kill"
  /\ UNCHANGED <<tgt, ident, summary, envVars>>

\* signal_sent is on disk before the system call.
RecordSignal ==
  /\ pc = "record"
  /\ control' = [control EXCEPT !.status = "signal_issued", !.signal_sent = TRUE]
  /\ pc' = "kill"
  /\ UNCHANGED <<tgt, ident, summary, envVars>>

\* os.kill: the signal goes to whoever holds the pid by now.
SendSignal ==
  /\ pc = "kill"
  /\ IF holder = NoProc
       THEN Return("signal_failed") /\ UNCHANGED <<sent, struck>>
       ELSE GoTo("await") /\ Strike(holder)
  /\ UNCHANGED <<holder, past, zombie, active, beat, result, specOK, summary>>

\* Mutant: after the timeout the runner is taken for stopped.
AwaitExit_assumes_exit ==
  /\ pc = "await"
  /\ \/ Replaced(ident) /\ Return("post_signal_identity_changed")
     \/ ~Replaced(ident) /\ Mark("stopped", "precheck")
  /\ UNCHANGED <<summary, envVars>>

AwaitExit ==
  /\ pc = "await"
  /\ \/ Exited /\ Mark("stopped", "precheck")
     \/ Replaced(ident) /\ Return("post_signal_identity_changed")
     \/ Live(ident) /\ Return("stop_wait_timeout")
  /\ UNCHANGED <<summary, envVars>>

-----------------------------------------------------------------------------
(* finish_report_and_upload *)

Precheck ==
  /\ pc = "precheck"
  /\ IF results_complete(tgt)
       THEN GoTo("report")
       ELSE Return("report_refused_incomplete_target")
  /\ UNCHANGED <<summary, envVars>>

\* stage_report.py ran to its end and exits 0 for a complete target.
Report ==
  /\ pc = "report"
  /\ WriteSummary(tgt)
  /\ IF PrefixAccepted(tgt) THEN GoTo("summary") ELSE Return("report_failed")
  /\ UNCHANGED envVars

\* Mutant: a report that breaks is taken for one that was written.
ReportBroke_unnoticed ==
  /\ pc = "report"
  /\ WriteSummary(tgt) \/ UNCHANGED summary
  /\ Mark("report_written", "upload")
  /\ UNCHANGED envVars

\* It raised or was killed, before or after its summary.
ReportBroke ==
  /\ pc = "report"
  /\ WriteSummary(tgt) \/ UNCHANGED summary
  /\ \E status \in {"report_failed", "report_timeout"} : Return(status)
  /\ UNCHANGED envVars

\* Whatever report stands there by now must be a complete one for the target,
\* and readable.
ReadSummary ==
  /\ pc = "summary"
  /\ \/ /\ summary.complete /\ summary.target = tgt
        /\ Mark("report_written", "upload")
     \/ /\ ~(summary.complete /\ summary.target = tgt)
        /\ Return("report_refused_incomplete_target")
     \/ Return("report_invalid")
  /\ UNCHANGED <<summary, envVars>>

\* Mutant: a status no reader of control.json knows.
Upload_unknown_status ==
  /\ pc = "upload"
  /\ Return("upload_skipped")
  /\ UNCHANGED <<summary, envVars>>

Upload ==
  /\ pc = "upload"
  /\ \E status \in {"complete_without_upload", "complete", "upload_failed",
                    "upload_timeout"} : Return(status)
  /\ UNCHANGED <<summary, envVars>>

\* Killed, a power failure, or an exception no handler is for.
Crash ==
  /\ pc # "idle"
  /\ Leave
  /\ UNCHANGED <<control, summary, envVars>>

-----------------------------------------------------------------------------
Controller ==
  \/ load_runner_spec \/ ReadControl \/ Resume \/ Reverify \/ Identify
  \/ Check \/ Probe \/ Verify \/ RecordSignal \/ SendSignal \/ AwaitExit
  \/ Precheck \/ Report \/ ReportBroke \/ ReadSummary \/ Upload

World ==
  /\ (EnvNext /\ UNCHANGED summary) \/ ManualReport
  /\ UNCHANGED ctlVars

Next == Launch \/ Controller \/ Crash \/ World

Spec == Init /\ [][Next]_vars

\* A running controller keeps running; the benchmark makes progress.
FairSpec == Spec /\ WF_vars(Controller) /\ EnvFairness

-----------------------------------------------------------------------------
(* Properties *)

\* Whatever crashes and however often the controller is launched again, no
\* second SIGINT reaches a process (signal_sent is durable before os.kill, and
\* run_controller never signals when it finds it set).  It holds for one
\* --target and while process.json and control.json can be read, and fails when
\* control.json is replaced or taken for absent.
AtMostOneSigint == sent <= 1

\* Every SIGINT, also a second one, is only sent when the prefix that this very
\* launch was asked for has all its results, whatever other targets earlier
\* launches had, whatever control.json has forgotten and however many crashed
\* (results_complete, then the identity checks, then the signal).
SignalOnlyAfterPrefix == [][sent' # sent => results_complete(tgt)]_vars

\* Statuses that tell the operator the runner has gone.
ExitClaims ==
  { "stopped", "runner_exited_before_target", "report_timeout",
    "report_failed", "report_invalid", "report_written",
    "report_refused_incomplete_target", "complete_without_upload", "complete", "upload_failed", "upload_timeout" }

\* A status that says the runner is gone is only written when the recorded
\* runner is gone, although the controller only ever looks at whoever holds
\* the pid (has_same_starttime_or_exited), and it stays true.
ExitClaimsAreTrue == control.status \in ExitClaims => ~Alive(control.runner)

\* Statuses that claim a written report.
ReportClaims ==
  { "report_written", "complete_without_upload", "complete", "upload_failed",
    "upload_timeout" }

\* A claimed report is about verified results up to the recorded target, even
\* when another report replaced stage-summary.json before it was read back
\* (the return code and the re-read of the summary).
ReportCoversPrefix ==
  control.status \in ReportClaims => PrefixAccepted(control.target)

\* The runner recorded by the first launch is the one every later launch for
\* the same target insists on: as long as process.json and control.json can be
\* read, it is not overwritten by another process.
RunnerForGood ==
  [][control.runner # NoProc => control'.runner = control.runner]_vars

\* A controller returns: it does not outlive the runner it watches.
ControllerReturns == pc # "idle" ~> pc = "idle"

\* What the controller waits for.
PrefixSaved == \E t \in Targets : results_complete(t)

\* The promise to the operator that both controllers share.
Promise ==
  INSTANCE StopOnce WITH
    saved <- PrefixSaved,
    intent <- control.signal_sent,
    pending <- pc = "kill"

\* For one target, and a process.json and control.json that stay readable, the
\* controller implements the promise of StopOnce.
KeepsPromise == Promise!Spec
=============================================================================
