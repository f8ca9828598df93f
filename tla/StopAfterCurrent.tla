-------------------------- MODULE StopAfterCurrent --------------------------
(***************************************************************************)
(* stop-after-current.py: one controller at a time (stop-current.lock)     *)
(* freezes the case the heartbeat calls active, waits for its result, and  *)
(* sends one SIGINT through a pidfd.  Every launch first reads what an     *)
(* earlier one left in stop-current.json.  A controller may crash between  *)
(* any two steps.  Between two steps of the controller the runner, the     *)
(* kernel and an operator running stage_report.py by hand may move.        *)
(***************************************************************************)
EXTENDS StageReport

\* May stop-current.json be unreadable or malformed when a launch reads it?
CONSTANT StateMayVanish

ASSUME StateMayVanishAssumption == StateMayVanish \in BOOLEAN

VARIABLES
  state,  \* stop-current.json
  pc,     \* what the controller does next; "idle" when none runs
  fd,     \* the process its pidfd refers to, or NoProc
  ident   \* the process identify_runner saw in /proc, or NoProc

ctlVars == <<state, pc, fd, ident>>
vars == <<ctlVars, summary, envVars>>

TERMINAL_STATUSES ==
  { "runner_exited_before_saved_current_result",
    "runner_exited_after_saved_current_result",
    "runner_identity_changed",
    "signal_sent_waiting_for_exit",
    "stopped_after_saved_current_result",
    "stop_wait_timeout_no_second_signal",
    "report_failed", "report_written", "upload_failed", "complete" }

\* "absent": there is no stop-current.json.
Statuses == TERMINAL_STATUSES \union
  {"absent", "refused", "installed", "signal_attempted"}

Steps == {"spec", "open", "identify", "install", "check", "watch", "peek",
          "confirm", "probe", "attempt", "send", "await", "report", "upload"}

States == [ status : Statuses, frozen : Cases \union {NoCase},
            attempted : BOOLEAN, runner : Procs \union {NoProc} ]

NoState ==
  [status |-> "absent", frozen |-> NoCase, attempted |-> FALSE, runner |-> NoProc]

TypeOK ==
  /\ EnvTypeOK
  /\ SummaryTypeOK
  /\ state \in States
  /\ pc \in Steps \union {"idle"}
  /\ fd \in Procs \union {NoProc}
  /\ ident \in Procs \union {NoProc}

Init ==
  /\ EnvInit
  /\ SummaryInit
  /\ state = NoState
  /\ pc = "idle"
  /\ fd = NoProc
  /\ ident = NoProc

report_target == state.frozen + 1

-----------------------------------------------------------------------------
(* Steps of the program. *)

GoTo(step) == pc' = step /\ UNCHANGED <<state, fd, ident>>

\* Leaving run(): the pidfd and the lock are released.
Leave == pc' = "idle" /\ fd' = NoProc /\ ident' = NoProc

set_status(status) == state' = [state EXCEPT !.status = status]

Return(status) == set_status(status) /\ Leave

\* The handler around run(): a refused first installation leaves a
\* stop-current.json without a frozen case.
Refuse == Return("refused")

\* select() on a pidfd: readable once the process has terminated.
process_exited == ~Alive(fd)

\* A pidfd accepts signals until its process has been reaped.
Signallable == holder = fd

identify_runner(p) == holder = p /\ Alive(p) /\ p \in Runners

\* The frozen case has a valid result made from other sources.
AlienResult(c) == ValidResult(c) /\ result[c] = "alien"

\* Mutant: the evidence files are not looked at.
saved_result_unproven(c) == ValidResult(c) /\ ~AlienResult(c)

\* A valid result is not enough: its evidence must be there as well.
saved_result(c) == ValidResult(c) /\ ~AlienResult(c) /\ ValidEvidence(c)

\* Mutant: only terminal statuses keep a launch from going on.
Launch_forgets_attempt ==
  /\ pc = "idle"
  /\ state.status \notin TERMINAL_STATUSES
  /\ GoTo("spec")
  /\ UNCHANGED <<summary, envVars>>

Launch ==
  /\ pc = "idle"
  /\ state.status \notin TERMINAL_STATUSES
  /\ ~state.attempted
  /\ GoTo("spec")
  /\ UNCHANGED <<summary, envVars>>

\* stop-current.json cannot be used: the handler replaces it by a refusal, and
\* the frozen case and the attempt are forgotten.
LaunchUnreadable ==
  /\ StateMayVanish
  /\ pc = "idle"
  /\ state.status # "absent"
  /\ state' = [NoState EXCEPT !.status = "refused"]
  /\ UNCHANGED <<pc, fd, ident, summary, envVars>>

ReadSpec ==
  /\ pc = "spec"
  /\ IF specOK THEN GoTo("open") ELSE Refuse
  /\ UNCHANGED <<summary, envVars>>

OpenPidfd ==
  /\ pc = "open"
  /\ IF holder # NoProc
       THEN fd' = holder /\ pc' = "identify" /\ UNCHANGED <<state, ident>>
       ELSE Refuse
  /\ UNCHANGED <<summary, envVars>>

\* /proc is read by pid: it shows whoever holds the number by now.
Identify ==
  /\ pc = "identify"
  /\ IF identify_runner(holder)
       THEN ident' = holder /\ pc' = "install" /\ UNCHANGED <<state, fd>>
       ELSE Refuse
  /\ UNCHANGED <<summary, envVars>>

\* Manifest, sources or dataset do not validate.
RefuseSources ==
  /\ pc = "install"
  /\ Refuse
  /\ UNCHANGED <<summary, envVars>>

\* A later launch goes on with the frozen case, and only with its runner.
Resume ==
  /\ pc = "install"
  /\ state.status # "absent"
  /\ IF state.frozen # NoCase /\ state.runner = ident
       THEN GoTo("check")
       ELSE Refuse
  /\ UNCHANGED <<summary, envVars>>

Install ==
  /\ pc = "install"
  /\ state.status = "absent"
  /\ IF beat # NoCase
       THEN /\ state' = [ status |-> "installed", frozen |-> beat,
                          attempted |-> FALSE, runner |-> ident ]
            /\ pc' = "check"
            /\ UNCHANGED <<fd, ident>>
       ELSE Refuse
  /\ UNCHANGED <<summary, envVars>>

CheckResult ==
  /\ pc = "check"
  /\ \/ saved_result(state.frozen) /\ GoTo("peek")
     \/ AlienResult(state.frozen) /\ Refuse
     \/ ~saved_result(state.frozen) /\ ~AlienResult(state.frozen) /\ GoTo("watch")
  /\ UNCHANGED <<summary, envVars>>

\* Mutant: a status TERMINAL_STATUSES does not know.
Watch_unknown_status ==
  /\ pc = "watch"
  /\ IF process_exited
       THEN Return("runner_exited_before_saved_result")
       ELSE GoTo("check")
  /\ UNCHANGED <<summary, envVars>>

\* Mutant: the pidfd is not looked at while the result is awaited.
Watch_result_only ==
  /\ pc = "watch"
  /\ GoTo("check")
  /\ UNCHANGED <<summary, envVars>>

\* The result was not there a moment ago.  Has the runner gone since?
Watch ==
  /\ pc = "watch"
  /\ IF process_exited
       THEN Return("runner_exited_before_saved_current_result")
       ELSE GoTo("check")
  /\ UNCHANGED <<summary, envVars>>

Peek ==
  /\ pc = "peek"
  /\ IF process_exited
       THEN /\ set_status("runner_exited_after_saved_current_result")
            /\ pc' = "report"
            /\ UNCHANGED <<fd, ident>>
       ELSE GoTo("confirm")
  /\ UNCHANGED <<summary, envVars>>

assert_same_runner ==
  /\ pc = "confirm"
  /\ IF identify_runner(holder) /\ holder = ident THEN GoTo("probe") ELSE Refuse
  /\ UNCHANGED <<summary, envVars>>

Probe ==
  /\ pc = "probe"
  /\ IF Signallable THEN GoTo("attempt") ELSE Refuse
  /\ UNCHANGED <<summary, envVars>>

\* Mutant: the write before the signal leaves signal_attempted out.
Attempt_not_durable ==
  /\ pc = "attempt"
  /\ state' = [state EXCEPT !.status = "signal_attempted"]
  /\ pc' = "send"
  /\ UNCHANGED <<fd, ident, summary, envVars>>

\* The intention is on disk before the system call.
Attempt ==
  /\ pc = "attempt"
  /\ state' = [state EXCEPT !.status = "signal_attempted", !.attempted = TRUE]
  /\ pc' = "send"
  /\ UNCHANGED <<fd, ident, summary, envVars>>

\* Mutant: os.kill(pid) in the place of pidfd_send_signal.
Send_by_pid ==
  /\ pc = "send"
  /\ IF holder # NoProc
       THEN GoTo("await") /\ Strike(holder)
       ELSE Return("signal_sent_waiting_for_exit") /\ UNCHANGED <<sent, struck>>
  /\ UNCHANGED <<holder, past, zombie, active, beat, result, specOK, summary>>

Send ==
  /\ pc = "send"
  /\ IF Signallable
       THEN GoTo("await") /\ Strike(fd)
       ELSE Return("signal_sent_waiting_for_exit") /\ UNCHANGED <<sent, struck>>
  /\ UNCHANGED <<holder, past, zombie, active, beat, result, specOK, summary>>

AwaitExit ==
  /\ pc = "await"
  /\ IF process_exited
       THEN /\ set_status("stopped_after_saved_current_result")
            /\ pc' = "report"
            /\ UNCHANGED <<fd, ident>>
       ELSE Return("stop_wait_timeout_no_second_signal")
  /\ UNCHANGED <<summary, envVars>>

-----------------------------------------------------------------------------
(* generate_report *)

\* Mutant: the exit code of stage_report.py is ignored.
Report_ignores_code ==
  /\ pc = "report"
  /\ WriteSummary(report_target)
  /\ set_status("report_written")
  /\ pc' = "upload"
  /\ UNCHANGED <<fd, ident, envVars>>

\* stage_report.py ran to its end; its exit code says whether the prefix is
\* complete.
Report ==
  /\ pc = "report"
  /\ WriteSummary(report_target)
  /\ IF PrefixAccepted(report_target)
       THEN set_status("report_written") /\ pc' = "upload" /\ UNCHANGED <<fd, ident>>
       ELSE Return("report_failed")
  /\ UNCHANGED envVars

\* It raised, or was killed after 120 seconds, before or after the summary.
ReportBroke ==
  /\ pc = "report"
  /\ WriteSummary(report_target) \/ UNCHANGED summary
  /\ Return("report_failed")
  /\ UNCHANGED envVars

\* "complete" without --upload or after a successful one.
Upload ==
  /\ pc = "upload"
  /\ \E outcome \in {"complete", "upload_failed"} : Return(outcome)
  /\ UNCHANGED <<summary, envVars>>

\* A child process that cannot be started is an OSError of the controller.
RefuseChild ==
  /\ pc \in {"report", "upload"}
  /\ Refuse
  /\ UNCHANGED <<summary, envVars>>

\* Killed, or the machine lost power; files keep their last rename.
Crash ==
  /\ pc # "idle"
  /\ Leave
  /\ UNCHANGED <<state, summary, envVars>>

-----------------------------------------------------------------------------
Controller ==
  \/ ReadSpec \/ OpenPidfd \/ Identify \/ RefuseSources \/ Resume \/ Install
  \/ CheckResult \/ Watch \/ Peek \/ assert_same_runner \/ Probe \/ Attempt
  \/ Send \/ AwaitExit \/ Report \/ ReportBroke \/ Upload \/ RefuseChild

World ==
  /\ (EnvNext /\ UNCHANGED summary) \/ ManualReport
  /\ UNCHANGED ctlVars

Next == Launch \/ LaunchUnreadable \/ Controller \/ Crash \/ World

Spec == Init /\ [][Next]_vars

\* A running controller keeps running; the benchmark makes progress.
FairSpec == Spec /\ WF_vars(Controller) /\ EnvFairness

-----------------------------------------------------------------------------
(* Properties *)

\* A refusal without a frozen case: every later launch is refused as well.
Erased == state.status # "absent" /\ state.frozen = NoCase

\* Whatever crashes and however often the controller is launched again, no
\* second SIGINT reaches a process (run's early returns, the order of
\* set_status and pidfd_send_signal), also when stop-current.json is lost.
AtMostOneSigint == sent <= 1

\* A SIGINT reaches the process frozen in stop-current.json and no other, also
\* when the kernel has given its pid away in the meantime (the pidfd is opened
\* before the identity is read, and is what is signalled).
OnlyFrozenRunnerStruck ==
  [][struck' \subseteq struck \union {state.runner}]_vars

\* A SIGINT presupposes the durable intention and the verified result of the
\* frozen case (saved_result, then the "signal_attempted" write, then the
\* signal), whatever earlier launches froze and whichever file was lost.
SignalOnlyAfterSaved ==
  [][sent' # sent => state.attempted /\ result[state.frozen] = "good"]_vars

\* Statuses that tell the operator the runner has gone.
ExitClaims ==
  { "runner_exited_before_saved_current_result",
    "runner_exited_after_saved_current_result",
    "stopped_after_saved_current_result",
    "report_failed", "report_written", "upload_failed", "complete" }

\* A status that says the runner is gone is never written while the frozen
\* runner still runs, and stays true: no later launch revives it.
ExitClaimsAreTrue == state.status \in ExitClaims => ~Alive(state.runner)

\* Where the controller claims a written report, every case up to the frozen
\* one has verified evidence, although it checked only the frozen one itself
\* (generate_report trusts the exit code of stage_report.py).
ReportCoversPrefix ==
  state.status \in {"report_written", "complete", "upload_failed"}
    => PrefixAccepted(report_target)

\* The case and the runner frozen at installation survive crashes, refusals
\* and later launches that can read stop-current.json: no step changes either
\* once it is set.
FrozenForGood ==
  [][state.frozen # NoCase =>
       /\ state'.frozen = state.frozen
       /\ state'.runner = state.runner]_vars

\* A controller returns: it does not outlive the runner it watches, whether
\* or not the frozen result is ever verified.
ControllerReturns == pc # "idle" ~> pc = "idle"

\* The promise to the operator that both controllers share.
Promise ==
  INSTANCE StopOnce WITH
    saved <- state.frozen # NoCase /\ result[state.frozen] = "good",
    intent <- state.attempted \/ Erased,
    pending <- pc = "send"

\* The controller implements the promise of StopOnce; a refusal that replaces
\* stop-current.json, or takes its place, renounces the stop.
KeepsPromise == Promise!Spec

\* The status "runner_exited_before_saved_current_result" is only written
\* when the frozen result is not there.
ExitedBeforeMeansUnsaved ==
  state.status = "runner_exited_before_saved_current_result"
    => result[state.frozen] # "good"
=============================================================================
