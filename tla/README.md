# TLA+ models of the DeepSeek V4.1 Flash external-Engram tool chain

This directory holds formal models of the programs in this repository, the TLC
configurations that check them on small instances, and TLAPS proofs of the
results that matter most. All paths below are relative to the repository root
(`src/`).

## 1. Inventory

| Component | Code | State it keeps | Operations |
|---|---|---|---|
| Stage controller `stop_after.py` | `integrations/benchmark-control/stop_after.py` | `control.json` (target, `signal_sent`, runner identity, status), `control.lock` | launch, resume, watch, one SIGINT by pid, wait for exit, report, upload |
| Pidfd controller `stop-after-current.py` | `integrations/benchmark-control/stop-after-current.py` | `stop-current.json` (frozen case, `signal_attempted`, runner identity, status), lock, a pidfd | install, resume, watch one case, one SIGINT by pidfd, wait, report, upload |
| Stage report | `integrations/benchmark-control/stage_report.py` | `stage-summary.json`, `STAGE-REPORT.md` | prefix validation, statistics, rendering |
| Benchmark runner `run_gpqa.py` | not in the repository (external) | `process.json`, `results/`, `heartbeat.json` | save a case, exit, catch SIGINT |
| Server lifecycle | `deployment/deploy.py` (`start`, `status`, `stop`, `owns_process`) | `state/process.json`, the llama-server process, its port | start, readiness wait, smoke check, stop |
| Release preparation | `deployment/deploy.py` (`prepare` and its helpers) | `state/receipt.json`, `state/release.json`, `state/source.json`, `state/build.json`, source and build trees | download, verify, extract, build, receipt |
| Release and manifest validation | `deployment/deploy.py` (`validate_release`, `continuous_rows`, manifest parsers) | none (pure) | parsing and cross-checks |
| DSH adapter: stream splitter | `integrations/dsh/dsh_api_adapter.py` (`ThinkingSplitter`, `ToolBlockShield`, `iter_sse_data`) | hold-back buffers, the incomplete character, line and event | feed, finish, accept, close |
| DSH adapter: request preparation | same file (`AdapterService.prepare`, `_usage`) | none (pure) | budgets, validation |
| DSH adapter: completion and HTTP handler | same file (`complete`, `_stream`, `do_POST`) | one upstream connection and one client stream per request | stream, cancel, finish |
| Tunnel supervisor | `integrations/dsh/remote-connect.py` | `STOP`, `CHILD`, `backoff`, `remote-connect.json`, `remote-connect.lock`, the ssh child | lock, spawn ssh, poll, back off, stop |
| DSH starter | `integrations/dsh/start-dsh.py` | `startup.lock` | health probe, launch adapter, launch tunnel |
| Windows tunnel | `integrations/dsh/Connect-DSV41.ps1`, `Install-DSV41-Tunnel.ps1` | mutex, ssh child | the same supervision loop |
| DSH settings writer | `integrations/dsh/configure-dsh.cjs` | `settings.yaml`, backup | read, edit, write under a lock |
| Extended benchmark | `benchmarks/extended-benchmark.py` | request records, summary | calibration, one chat, barrier-started rounds, aggregation |
| Public audit, relay setup | `tools/public_audit.py`, `integrations/dsh/setup_relay.example.py` | none | one pass over files; one-shot provisioning |

How they meet. The controllers watch the runner through files and `/proc`, signal
it, and run the report as a child. `start` reads what `prepare` wrote and hands
the server over to `process.json`; `stop` and `status` only know that file. The
adapter speaks HTTP to the server that `start` has spawned, through the port the
tunnel supervisor forwards; the DSH starter keeps the adapter and the supervisor
up. Nothing here uses threads with shared state except the benchmark's rounds;
concurrency is between processes, through files, pids, ports and connections.

What is hard, and therefore modelled first:

* signals by pid against processes that exit and pids that change hands;
* the order of a durable write and the act it announces, with a crash between;
* two commands on the same state directory without a common lock;
* trust in large files that passes through receipts from one hash to later runs;
* markers that arrive cut, in three buffers that follow each other;
* clients and servers that leave at any moment of a stream.

What makes each component correct: the controllers signal at most once, the right
process, after the results they wait for, and never claim what is not so; the
launcher never has two servers or one it does not know, and spawns only what the
release pins; the adapter neither loses, leaks nor reorders text, ends every
stream, and frees the server; the tunnel and the starter keep exactly one of each
process, and a stopped one stays stopped; the benchmark counts only complete
requests.

## 2. Modules

| Module | Models | Role |
|---|---|---|
| `BenchmarkRunner` | the runner and the kernel as both controllers see them | environment, extended by `StageReport` |
| `StageReport` | `stage_report.py` | extended by both controllers |
| `StopAfterCurrent` | `stop-after-current.py` | specification with its properties |
| `StopAfter` | `stop_after.py` | specification with its properties |
| `StopOnce` | the promise of both controllers | abstract specification |
| `BenchmarkControl` | both controllers at once on one runner | composition, by INSTANCE |
| `ServerLifecycle` | `start`, `stop` and the processes they handle | specification with its properties |
| `DeployPrepare` | `prepare`, and what `start` checks before the spawn | specification with its properties |
| `ReleaseChecks` | `parse_row`, `continuous_rows`, `validate_release`, the manifest comparison | pure operators and what they are for |
| `StreamSplitter` | `ThinkingSplitter`, `ToolBlockShield` as operators | used by `AdapterStream` |
| `SseEvents` | `iter_sse_data` as operators | pure operators and what they are for |
| `TokenBudget` | the arithmetic of `AdapterService.prepare` | used by `AdapterStream` |
| `AdapterStream` | one request: `prepare`, `complete`, `_stream`, `do_POST` | specification with its properties |
| `TunnelSupervisor` | `remote-connect.py`, ssh and the relay's port | component of `DshConnection`, with its properties |
| `DshConnection` | `start-dsh.py` over adapters and supervisors | specification with its properties |
| `MCDeployPrepare`, `MCAdapterStream` | values of the constants; the pure operators beside the state machine that calls them | model checking |
| `*Proofs` | proofs about the module they extend; `BenchmarkProofs` holds the lemmas both controllers share, `BenchmarkControlProofs` puts the two together | TLAPS |

### Controllers and runner

`BenchmarkRunner` keeps who holds the runner's pid (`holder`, `past`, `zombie`),
the results and the heartbeat (`result`, `active`, `beat`) and counts the signals
that reached a live process. A result has a quality: `"good"` passes every check,
`"alien"` is of other sources, `"unproven"` lacks its evidence. Between any two
steps of a controller the runner may save, exit, become a zombie and be reaped;
the pid may go to a foreign process or to a new run of the same command line.

`StopAfterCurrent` follows `run` step by step. `pc` is the next step, `state` is
`stop-current.json`, `fd` the process behind the pidfd, `ident` the process seen
in `/proc`. Each write of the state file (`set_status`) is one step because it is
one rename; the signal is a step of its own after the `signal_attempted` write.
`Launch` is a new process that reads the file an earlier one left; `Crash` drops
the local variables and keeps the files. `StopAfter` follows `run_controller` and
`finish_report_and_upload` in the same way; its signal goes to the bare pid, so
a `Successors = {"foreign"}` process may be struck. Log lines, the upload's
contents and the inotify helper are left out: the helper only decides how soon
the next look at the results happens, and a step may happen at any time.

`StopOnce` says what the operator is promised: the intention to signal is made
durable once, after the awaited results are saved, and it is followed by at most
one signal. A controller may also renounce, as `stop-after-current.py` does when
a refusal without a frozen case takes the place of `stop-current.json`. Both
controllers are shown to implement it (`KeepsPromise`).

`BenchmarkControl` runs the two side by side. They take different lock files, so
nothing in the code keeps them apart; they share the runner, the results and
`stage-summary.json`. Each keeps its own promise still, but the runner may now
get two signals, and either may take the end the other brought about for its own.
`sentBy` counts the signals of each and `forgets` the times `control.json` lost a
recorded signal, so that every signal can be accounted for.

Files that cannot be read have constants of their own, because the code treats
them differently. With `SpecMayVanish` a launch may find no usable
`process.json` and fails. With `ControlMayVanish` it may find a `control.json`
that is unreadable, malformed or no object: `stop_after.py` takes it for absent
(step `anew`), and the recorded signal and runner are forgotten. With
`StateMayVanish` the same of `stop-current.json` makes `stop-after-current.py`
refuse, and its handler replaces the file (`LaunchUnreadable`), the attempt and
the frozen case with it. `ReadSummary` may find an unreadable summary at any time.

### Launcher

`ServerLifecycle` has shells (`Clis`) that run `start` and `stop` on one state
directory, servers that load, become ready, hang, die and ignore SIGTERM, and
`record` for `process.json`. `owns_process` compares pid and start time, so it
holds of zombies and never of a process that reused the pid. With `PidReuse` a
pid may change hands. `Faults` says what else may go wrong: a shell may be killed
between any two steps (`"crash"`); the start time of a running server may be
unreadable, so that `owns_process` denies it, or start terminates its child and
records nothing (`"proc"`); `process.json` may be unreadable, unwritable or
impossible to remove (`"disk"`). Three of these leave a server to itself: start is
killed before it has written `process.json`, start cannot write it or has no
start time to write, and a running server is overlooked by a start that goes on
or a stop that forgets it. `lost` is a history variable that collects exactly
these servers, at the step where it happens.

`DeployPrepare` has shells that run `prepare` and `start`. Files are versions: a
version is told from every other by its stat record (size, mtime, ctime), as the
launcher assumes; `body` and `madeFrom` say what each version contains. Each
write to the root is a step, each may be the last of its shell (`Fail`). One asset
stands for all: they are verified alike and independently. What it leaves to
`ServerLifecycle` is everything from the spawn on. Refusals (argument checks,
disk space, archive members) are the general `Fail`, because they write nothing.
The two modules share no variable but the moment of the spawn: `Launch` there is
`Spawn` here. They are checked apart because neither reads what the other
writes.

`ReleaseChecks` is the check whose acceptance everything else trusts: three
lists name the embedding rows (the release descriptor's, the Engram manifest's
chunks, its totals). The operators follow the scan of the code, with its sets of
names already seen; its loop is a recursive function of the number of rows. The
stable sort is said by what it does: a row's place is the number of rows of a
smaller key, and of the same key that are not named later. Beside them stands
what the scan is for: every row of a layer is in exactly one place. `prepare`
writes the index of rows only after these checks, and the server's loader does
not repeat them.

### Adapter

`StreamSplitter` has the splitter's and the shield's methods as operators from a
buffer state and a piece of text to a new state and two outputs, on sequences of
characters: how much of a piece is kept back is what the properties are about.
Beside them stands what they are for, said of the whole text at once
(`ReasoningOf`, `ContentOf`, and `ProseOf`, which keeps the blank line before a
tool block). `SseEvents` does the same for the bytes below:
`Utf8`, `consume`, `accept` and `close` are the incremental decoder, with the
character, the line and the event that are still incomplete; `OneLine` is one
round of the loop of `accept`. `EventsOf` says the events of a whole stream
without a decoder: where its lines end, which of them are blank, and which data
lines each blank line ends.

`AdapterStream` runs one request. `Prepare` chooses a prompt length, a
`max_tokens`, a thinking budget or none and an effort, and either builds the
payload for the native server from `TokenBudget` or refuses. Then the text
arrives in pieces of any size, the client may leave at any moment, the server
may answer badly, break off, or deliver tool calls the parser refuses. `wire` is
what has been written to the client; reasoning, content and each tool call are
single events there.

### DSH connection

`TunnelSupervisor` is `main` of `remote-connect.py`, once for each process that
may run it: `sup` is its next step, `stop` and `child` its two globals, `sig`
what it has sent to its child, `flock` the lock file's holder, `record` the
state file. ssh processes have a `parent` in the kernel's sense, since a
supervisor that is killed leaves its ssh to init; the relay's port stays taken
(`"stale"`) until sshd has noticed the end of its client, during which a new ssh
fails (`ExitOnForwardFailure`). `stop_child` is called in the loop and again in
the `finally` clause, with two timeouts each: `Terminate`, `Kill`, `GiveUp`. A
signal before the handlers are installed ends the process. SIGKILL, a failing
`Popen` and a failing write may happen at every step (`Fault`).

`DshConnection` puts the starters on top: each takes `startup.lock`, probes the
adapter, launches one if none is healthy and waits for it, looks whether the pid
in `remote-connect.json` runs a supervisor, launches one if not, and looks again
after half a second. The lock ends with the process, whatever ends it. A second
adapter or supervisor that loses the port or the lock ends by itself.

## 3. Runs

| Run | Asks | Bounds | States |
|---|---|---|---|
| `stop_current` | is the right runner stopped once, after its frozen case, through crashes, relaunches, pid reuse and state files that cannot be read? Does the controller implement `StopOnce` and return? | 2 cases, 3 processes on the pid | 317 k |
| `stop_current_exited_before` | is "exited before saving" true? (it is not) | 1 case | small |
| `stop_after` | the same promise for one target and readable files; the runner stays the recorded one; no claimed report before its prefix; it returns | 2 cases | 247 k |
| `stop_after_second_sigint` | one SIGINT also with two targets? (no) | 2 targets | small |
| `benchmark_control` | both controllers at work, `control.json` and `stop-current.json` may be unreadable: are their claims about the runner and the report true, can every signal be accounted for, and was each waited for? | 2 cases, no successor | 5.8 M |
| `server_alone` | one shell and all faults: but for `lost` servers, one server, always recorded, truly ready | 3 servers, 2 ports | 1.1 M |
| `server_shared` | two shells, crashes, a failing `process.json`, pid reuse: `stop` tells the truth, SIGKILL follows SIGTERM, commands return | 2 servers, 1 port | 305 k |
| `server_start_race` | is the record of a running server ever replaced? (it is) | 2 servers | small |
| `deploy_prepare` | does `start` spawn only what the release pins; can builds be repeated; is an accepted index of rows complete? | 2 shells, 3 releases, 2 versions, 2 builds; 3 rows, 6 files, 2 layers | 1.2 M, and 216 k descriptors |
| `adapter_stream` | are text, ending, cancellation and budgets right for every cut and every request? Do events survive the network? | texts to 6, pieces to 3; numbers to 8 in a window of 7; byte streams to 6 | 3.2 M, and 137 k streams |
| `adapter_stream_blank_line` | is the blank line before a tool block held back? (not always) | texts to 5 | small |
| `dsh_connection` | one supervised ssh, a true state file, a stop that is obeyed, a tunnel that comes back, a starter whose READY comes true | 2 supervisors, 2 ssh, 2 adapters, 1 starter, 1 fault | 137 k |

**Why the bounds are enough.** Two cases separate the first from the last of a
prefix and a finished from an active case; no code compares three. Three servers
let a third start meet one that is ending or lost and one that is recorded.
`SentCap` = 3 counts beyond the two signals that two controllers with intact
files may send. `benchmark_control` needs no successor on the pid: there is one
only when the recorded runner is gone, so a claim of its exit is true then; a
new run of the same command line is ruled out, as in `ExitClaimsTrue` of both.
It has one target, since a signal is forgotten and repeated within one, and a
`process.json` that can be read: one that cannot replaces `control.json`, as a
launch for another target does in `stop_after_second_sigint`. `SignalsAccounted`
and `SignalsAwaited` are proved without these limits. Two versions and two
builds give each shell an old and a new one; every comparison in the launcher is
between two records (three versions were also checked once: the same result).
The three releases share the asset, the source, or neither. Three rows of two
layers, one of them longer, are enough for a gap, an overlap, a row out of order
between two others, a file named twice and one left over; layers 1 and 14 are
two of the code's. The markers are the shortest that start alike, as the real
ones do, the calls marker long enough to be cut twice; a text of 6 holds a
marker, its blank line and something before or after it, and pieces of 1 to 3
cut it everywhere. The amounts of tokens lie below, on and above each limit. For
byte streams two chunks are enough: the run shows that the decoder's whole state
after two chunks is that after one (any number of chunks: `AnyChunks`); six
symbols hold two data lines that a blank line with CR LF separates, or a cut
character inside a line. In `dsh_connection` one starter is enough because
`startup.lock` admits one at a time (proved for any number: `StartersExclude`);
it may be run again and again, and two supervisors are one that ends and the
next one. The proofs hold without these bounds.

**Deadlock** is checked except in the two adapter runs: a request that is over
has no further step.

**Fairness.** `StopAfterCurrent` and `StopAfter`: weak fairness of the controller
(a process that runs is scheduled) and of the runner's progress, saving the next
case and exiting after the last one; nothing else of the environment is fair: a
crash, a signal or a relaunch need not happen. `ServerLifecycle`: weak fairness
of each shell's command, and strong fairness of `ReadyTimeout`: in the code each
round of the wait compares a monotonic clock with a deadline, and each round
takes time, so it cannot come round for ever although a health check may
interrupt the step each time. Nothing is assumed of servers: they may hang.
`DshConnection`: weak fairness of supervisors and starters, of an adapter that
can bind, of sshd noticing that a client has gone (keep-alives), and of an ssh
that is connecting: it connects or fails (`ConnectTimeout`). Strong fairness is
assumed of one thing, that connecting succeeds sooner or later when it is tried
again and again; without it a link that is always down would refute that the
tunnel comes back. Faults are never fair, and bounded.

## 4. Findings

* `stop_current_exited_before`: the poll reads the result, then the pidfd
  (`stop-after-current.py:444`). A runner that saves its frozen case and exits in
  between is recorded as exited *before* it saved.
* `stop_after_second_sigint`: a launch for another `--target` that fails before
  it has read `control.json` replaces it, `signal_sent` included
  (`stop_after.py:439`); the next launch signals again.
  A `control.json` that cannot be read or parsed counts as absent
  (`stop_after.py:315`), so one target and a readable `process.json` are enough
  for a second SIGINT, against "one SIGINT only" (`stop_after.py:6`): the same
  run with `ControlMayVanish = TRUE` and `Targets = {1}` shows it.
* `server_start_race`: two concurrent starts pass the checks of `process.json`
  and the port together; the later record replaces the one of a running server
  (`deploy.py:741`).
* `adapter_stream_blank_line`: `ToolBlockShield.feed` keeps back enough for a cut
  marker and not for the blank line before it (`dsh_api_adapter.py:291`), so
  whether the line reaches DSH depends on how the text was cut.

Seen while modelling, without a property of their own:

* `stop` signals by pid after its identity check (`deploy.py:782`), so a process
  that got the pid in between may be struck, which `deployment/README.md:14`
  rules out.
* A `prepare` that dies between `os.replace` or `mkdir` and the marker that
  explains it leaves a root that every later `prepare` refuses (`deploy.py:449`,
  `:480`).
* The tree of a built root is removed by hand and a release of another source is
  prepared: its tree is extracted and marked before the old build is seen and
  refused (`deploy.py:478`). From then on every release is refused, the old one
  for the tree (`:420`), the new one for the build. `BuildCanBeRepeated` names
  this step as the only one that ends what it promises.
* A launcher that is killed between the spawn and the write of `process.json`, or
  whose write fails (`deploy.py:741`, outside the `try`), leaves a server no
  command knows; one that cannot read its child's start time (`:737`) terminates
  it, but does not wait for it. A next start on another port is not refused then.
* A `stop-current.json` that cannot be read is replaced by a refusal
  (`stop-after-current.py:456`). No later launch signals again, because one that
  goes on finds no frozen case in it; the operator's record of the attempt is lost.
* A broken upstream connection ends a stream without error and `[DONE]`, and a
  stream that breaks off inside an event still yields the unfinished event.
* `n_predict` is bounded by the window and by `MAX_OUTPUT_TOKENS`
  (`dsh_api_adapter.py:519`), while the reasoning budget leaves room for an
  answer relative to `max_tokens` alone (`:470`). When a prompt near the window
  or a large `max_tokens` is cut, no room for the answer remains; `PayloadFits`
  therefore claims the room only where `max_tokens` is granted in full.
* `parse_expert_manifest` (`deploy.py:283`) accepts two PACK lines that name the
  same expert file, so that another expert asset is left unused.
* A starter may print READY while the supervisor it saw alive is stopping; a
  second one launched during that time finds the lock taken and the starter
  reports that the tunnel supervisor failed. A second adapter launched while a
  first still waits for the model loses the port in the same way.
* `stop_child` waits for the leader only (`remote-connect.py:57`): a helper in
  ssh's process group may outlive it. The back-off is never reset after a long
  connection.

## 5. Proofs

Every theorem holds for any values of the constants that satisfy the named
assumptions of the modules. All follow the usual argument: an invariant that is
kept by every step, one step of the proof per action.

* `BenchmarkProofs`. What both controllers share: the types of the surroundings
  and `EnvInv` (a pid is held once and by the original runner first, nothing is
  saved beyond the active case), kept by every step of the runner, the kernel and
  the operator. Each such step is a `Drift`: all that a controller may count on
  between two of its own steps. Good results stay good, a process that has lost
  the pid never gets it back, a zombie stays one.
* `StopAfterCurrentProofs`. `IInv` is `TypeOK` and a chain of facts that link
  the steps of a launch to the disk: the pidfd was opened on a process that held
  the pid (`FdHeldThePid`) and, once identified, is the identified process or
  one that is gone (`FdIsIdentOrGone`), which is the frozen runner
  (`RunnerIsIdent`); a verified step means the frozen result is good
  (`VerifiedMeansGood`), so an intention means it too (`IntentMeansGood`);
  without a state file nothing is frozen (`AbsentMeansUnfrozen`); an upload
  follows a report (`UploadMeansReported`). Every drift keeps it
  (`DriftKeepsIInv`). What counts signals, which a drift leaves open, comes on
  top. `OInv` says that a signal means an intention on disk or a file that was
  erased for good, which no launch gets past; `OneSigint` follows without
  further assumptions, and so do `RightRunnerStruck`, `SavedBeforeSignal` and
  the refinement of `StopOnce`, `PromiseKept`, step by step: a file that is
  erased renounces the stop. The safety properties are not inductive alone: that
  only the frozen runner is struck needs the history of the pidfd. Only
  `FrozenOnce` needs a file that can be read (`Readable`), since an erased one
  remembers no frozen case. `ExitClaimsTrue` assumes that the pid goes to no new
  run of the same command line. The assumption is needed, TLC refutes the claim
  without it: the installation may open the pidfd of one process and read the
  identity of the next, and then the frozen runner is not the one the pidfd
  watches.
* `StopAfterProofs`. `IInv` holds for any targets, and of every drift: a launch
  works on the `control.json` of its own target (`LaunchOnTarget`), the recorded
  runner has held the pid (`RunnerHeldThePid`) and has gone whenever a status
  says so (`ClaimsMeanGone`), the decision to signal means a complete prefix
  (`DecidedMeansComplete`). What needs no more is `PrefixBeforeSignal`: each
  signal, also a repeated one, is sent by a launch whose own prefix is complete
  (`SignalOnlyAfterPrefix`; TLC checks it in `benchmark_control`, as a part of
  `SignalsAreAwaited`).
  The promise of one signal is not kept for any targets nor with any files
  (section 4): under `OneTarget` (`--target` never changes, `process.json` and
  `control.json` stay readable) `MInv` adds that the file remembers the signal
  (`Remembers`) and `OInv` that no other was sent. From it follow `OneSigint`,
  `RunnerKept` and the refinement `PromiseKept`. That the exit claims are true
  (`ExitClaimsTrue`) needs none of these: `stop_after.py` compares identities by
  pid each time it looks.
* `BenchmarkControlProofs`. Nothing is proved twice: the theorems of the parts are
  cited through INSTANCE, and each step of one controller is shown to be a drift
  for the other. It changes `sent` and the summary, and neither `IInv`
  counts signals. What does is said of each by itself: those of `stop_after.py` are
  at most the recorded one and the forgotten ones (`AfterAccounts`), and
  `stop-after-current.py` sends one, recorded or erased since
  (`CurrentAccounts`). `SignalsAccounted` follows for any targets and files: that
  `stop_after.py` repeats a signal is visible in it as a forgotten record.
  `SignalsAwaited` says that each signal, also a repeated one, had its reason.
  `ExitClaimsTrue` holds without new runs of the same command line, as for the
  pidfd controller.
* `ServerLifecycleProofs`. For any shells `SharedInv` (types, the record names a
  server that was spawned, SIGKILL only after SIGTERM, and what each shell knows
  of its own server). A step of one shell is `Steady` for the others, and
  `Bystander` shows once that a steady step cannot disturb them. For a single
  shell (`SoleShell`), which may be killed and meet every fault, `SoleInv` adds
  that every running server is lost, recorded or about to be (`NoneForgotten`),
  that start only goes on when the recorded one has ended or is overlooked
  (`RecordEnded`), and that between the record and the answer a shell's own server
  is the recorded one (`RecordFollowed`). It gives `NeverTwoServers`,
  `RunningIsRecorded` and `StartedAnswers` (the one server that can answer, a lost
  one apart, is the recorded one, which is the shell's child), whatever the
  faults. `StoppedTold` and `RecordKept` assume that start times can be read: a
  server whose start time is not readable is taken for ended. `RecordKept` shows
  that the property two overlapping starts violate (section 4) holds of commands
  that do not overlap.
* `DeployPrepareProofs`. `Inv` says that the receipt, whoever wrote it, is of a
  version whose content is what its release pins, and for each shell what it has
  established by its step (`JobInv`): once the tree stands it stays that of the
  release while a shell works on it, once they are written its markers name that
  release's source, and a binary built meanwhile is made from it. The markers
  are only ever written for the tree that stands there (`MarkedAsItStands`),
  which is what `BuildRepeats` needs. Versions never change, so what was
  verified stays so (`GoodStays`). `AcceptedIsUsable` is about the rows of a
  descriptor, in any number, of any length and in any order: `validate_release`
  accepts exactly those that can be used. Its argument has four parts. The sort
  is a rearrangement (`SortedIsSorted`): different rows get different places, so
  every place is taken. The loop gets through every list (`LoopEnds`), and what
  it has seen after each row is stated of the rows so far (`Seen`): they tile
  each layer from 0, and no file is named twice. The tiling is then said of rows
  in any order (`OneEach`), which rearranging keeps (`Rearranged`). Last, a list
  of `OneEach` that is sorted passes every round of the scan (`OneEachIsSound`).
  `AcceptedLeads` adds the manifest and its totals, and `IndexComplete` puts
  both together. `TwoSidecarsEach` is what `ROLE_COUNTS` and the 52 rows say:
  two engram assets for each row. Without it the code would accept fewer lists
  than could be used.
* `AdapterStreamProofs`. `EndInv` ties the upstream connection and the last
  events on the wire to the step; here the splitter's operators stay opaque, so
  the endings hold for any text and any marker. `PayloadsFit` is the arithmetic of
  the budgets, for any window, limits and defaults. `TypeCorrect` opens the
  splitter and the shield: every method keeps buffers and outputs sequences of
  characters. `TextSplit` is about texts, pieces and markers of any length. Its
  invariant `SplitInv` says in what relation the buffers stand to the whole text
  so far (`Sound`). At its core is `Kept`: what was handed on and what is kept back
  are the whole, no marker is in it, and as many characters are kept back as the
  beginning of a marker may have. So a marker that shows up with the next piece
  begins inside what was kept back, and looking for it there finds the place
  where it is in the whole text (`KeptFound`). There
  is one layer of lemmas for each part of the code: `ToolBlockShield.feed` over the
  answer (`Shielded`), the routing between the two sides of `</think>` (`Routed`),
  the decision at the beginning (`Decided`), `finish`. That `Find` finds the first
  place needs no induction over the text: the places are a set of naturals, which
  has a least member. `MarkersAreTexts` is all that is assumed of the markers: that
  `<think>`, with 7 characters, is no longer than `</think>` (8) or the calls
  marker. What it shows at the end of a text is what the shield does, not what its
  comment says: the blank line before a tool block is handed on whole or not at all
  (section 4). `EventsKept` and `AnyChunks` are about `iter_sse_data` and streams of
  any length in any number of chunks. Whatever chunks the bytes came in, the
  decoder's state is a function of the stream so far (`Decoded`): of its text, the
  text without the byte of a cut character, and of the text's last newline
  (`Decoder`). A line that is consumed changes the pending data lines and the
  events as the definition on the whole text says (`Consumed`), a round of the
  loop gets to the next newline (`OneRound`), as many rounds as there are symbols
  get to the last (`LinesIs`), what follows later changes nothing of the lines
  before (`DecoderStays`), and the end of the stream is one more line
  (`EventsAre`).
* `DshConnectionProofs`. `TInv`: whoever is past the lock holds it, its `CHILD`
  and the kernel's parent links say the same (`Custody`), and what it has written
  is its own record (`Recorded`). Two running ssh processes with a running parent
  would need two `CHILD`s or two lock holders. For the starters `SInv` says that
  whoever is past `startup.lock` holds it.

The inductive invariants were checked with TLC on small instances before
they were proved.

Two modules have loops over data, the scan of rows and the loop of `accept`. What
such a loop computes is proved in three steps: the loop is a recursive function on
an interval of numbers, that such a function exists for any length is itself
proved (`LoopEnds`, `RoundsEnd`), and so is what it has after each round. The
induction is stated of a set of numbers rather than of a predicate
(`AllNaturals`): a number that is not in the set would have a smallest one beside
it, and the library has it that the naturals are well-founded.

Every invariant and every safety property of the runs that pass is a theorem.
Only model-checked are the liveness properties, which the prover does not reach:
`ControllerReturns`, `CommandsReturn`, `TunnelComesBack`, `StopObeyed`,
`ReadyComesTrue`.

## 6. Not modelled, and why

* Statistics, rendering, log texts, `_usage`, request formatting and the checks of
  messages, tools, stop words and seeds: output, or refusals that change nothing.
* A failing write of the controllers' own state files (one that cannot be read is
  modelled); a lost rename after a power failure: `fsync` is taken for what it
  promises.
* Two changes of a file that leave size, mtime and ctime the same; changes to the
  source tree, the archive or the source hashes while a `prepare` works on them
  (the hashes are verified first and read again later, `deploy.py:642`).
* Types, names, hashes and default values in descriptors and manifests, and the
  list of the expert manifest: each is one comparison that refuses.
* The server that was sent SIGKILL but not yet torn down counts as ended in
  `OneServer`.
* The Windows tunnel: the same supervision loop as `TunnelSupervisor` in
  PowerShell, with a mutex for the lock; its installation is one-shot.
* The settings writer `configure-dsh.cjs`: one read-edit-write of a file with a
  backup. The public audit and the relay setup: one pass, no state.
* The extended benchmark: it runs once, its threads share a barrier and nothing
  else, and what it measures, time, is outside a model.

## 7. Plan

Done: controllers and their composition (`BenchmarkRunner`, `StageReport`,
`StopAfterCurrent`, `StopAfter`, `StopOnce`, `BenchmarkControl`), server
lifecycle, release preparation and the checks of rows, adapter from bytes to
reply with its budgets, tunnel supervisor and starter; proofs of every invariant
and safety property a run checks. Next: `DeployPrepare` with the archive and the
source hashes apart from the other assets, so that a change between their
verification and their second reading is a step.
