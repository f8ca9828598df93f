-------------------------- MODULE ServerLifecycle --------------------------
(***************************************************************************)
(* deploy.py start and stop, run by several shells at once: no lock keeps  *)
(* them apart.  They share process.json, the ports and the kernel's        *)
(* process table; the llama-server processes they start are external and   *)
(* bind their port, answer, fail or die on their own.                      *)
(*                                                                         *)
(* A server is one process instance, that is one (pid, starttime) pair.    *)
(***************************************************************************)
EXTENDS Naturals, FiniteSets

CONSTANTS
  Clis,         \* shells running deploy.py
  MaxServers,   \* bound: servers started in one behaviour
  Ports,        \* values of --port
  Faults,       \* what may go wrong around deploy.py, see FaultsAssumption
  PidReuse      \* may the kernel give away the pid of a reaped server?

ASSUME MaxServersAssumption == MaxServers \in Nat
\* "crash": deploy.py is killed between two steps;
\* "proc": /proc/<pid>/stat of a running server cannot be read;
\* "disk": process.json cannot be read, written or removed.
ASSUME FaultsAssumption == Faults \subseteq {"crash", "proc", "disk"}
ASSUME PidReuseAssumption == PidReuse \in BOOLEAN

VARIABLES
  proc,     \* what became of each server
  port,     \* the port each server was started for
  termed,   \* servers that were sent SIGTERM
  killed,   \* servers that were sent SIGKILL
  lost,     \* history: servers a fault made a command lose track of
  record,   \* state/process.json: a server's identity, or NoServer
  pc,       \* what each shell does next; "idle" when it runs no command
  srv,      \* its child (start) or the identity it read (stop)
  want,     \* the port start was asked for
  said      \* what its last command reported

serverVars == <<proc, port, termed, killed, lost>>
cliVars == <<pc, srv, want, said>>
vars == <<serverVars, record, cliVars>>

Servers == 1 .. MaxServers
NoServer == 0
NoPort == "noport"

StartSteps ==
  {"owned", "port", "spawn", "record", "ready", "health", "smoke", "cleanup"}
StopSteps == {"read", "check", "term", "grace", "kill", "unlink"}

\* "dying": sent SIGKILL, still in the process table with its sockets.
Running == {"loading", "ready", "dying"}

TypeOK ==
  /\ proc \in [Servers -> Running \union {"none", "zombie", "gone", "reused"}]
  /\ port \in [Servers -> Ports \union {NoPort}]
  /\ termed \subseteq Servers
  /\ killed \subseteq Servers
  /\ lost \subseteq Servers
  /\ record \in Servers \union {NoServer}
  /\ pc \in [Clis -> StartSteps \union StopSteps \union {"idle"}]
  /\ srv \in [Clis -> Servers \union {NoServer}]
  /\ want \in [Clis -> Ports \union {NoPort}]
  /\ said \in [Clis -> {"nothing", "started", "stopped", "not running", "error"}]

Init ==
  /\ proc = [s \in Servers |-> "none"]
  /\ port = [s \in Servers |-> NoPort]
  /\ termed = {} /\ killed = {} /\ lost = {}
  /\ record = NoServer
  /\ pc = [c \in Clis |-> "idle"]
  /\ srv = [c \in Clis |-> NoServer]
  /\ want = [c \in Clis |-> NoPort]
  /\ said = [c \in Clis |-> "nothing"]

-----------------------------------------------------------------------------
(* The servers and the kernel. *)

IsRunning(s) == proc[s] \in Running

\* A listener on the port; only a "ready" one answers /health and requests.
Listening(p) == \E s \in Servers : port[s] = p /\ proc[s] \in {"ready", "dying"}
Answering(p) == \E s \in Servers : port[s] = p /\ proc[s] = "ready"

\* The shell whose running start is the parent of s.
Parent(s) ==
  {c \in Clis : /\ srv[c] = s
                /\ pc[c] \in {"record", "ready", "health", "smoke", "cleanup"}}

Become(s, what) ==
  /\ proc' = [proc EXCEPT ![s] = what]
  /\ UNCHANGED <<port, termed, killed, lost, record, cliVars>>

\* The first server to bind the port gets it; the others exit.
Bind(s) ==
  /\ proc[s] = "loading"
  /\ Become(s, IF Listening(port[s]) THEN "zombie" ELSE "ready")

ServerExit(s) == IsRunning(s) /\ Become(s, "zombie")

\* init reaps what has no parent any more; start reaps its own child.
Reap(s) == proc[s] = "zombie" /\ Parent(s) = {} /\ Become(s, "gone")

Reuse(s) == PidReuse /\ proc[s] = "gone" /\ Become(s, "reused")

World == \E s \in Servers : Bind(s) \/ ServerExit(s) \/ Reap(s) \/ Reuse(s)

-----------------------------------------------------------------------------
(* What deploy.py asks the kernel. *)

\* owns_process: the pid exists and has the recorded start time.
owns_process(s) == s # NoServer /\ proc[s] \in Running \union {"zombie"}

\* It says no when the start time cannot be read.
Misread(s) == "proc" \in Faults /\ owns_process(s)

Lose(s) == lost' = lost \union {s}

\* os.kill(pid) raises when nothing has the pid; a zombie takes the signal.
NoSuchProcess(s) == proc[s] = "gone"

GoTo(c, step) == pc' = [pc EXCEPT ![c] = step] /\ UNCHANGED <<srv, want, said>>

Return(c, message) ==
  /\ pc' = [pc EXCEPT ![c] = "idle"]
  /\ said' = [said EXCEPT ![c] = message]
  /\ UNCHANGED <<srv, want>>

Unspawned == {s \in Servers : proc[s] = "none"}

-----------------------------------------------------------------------------
(* start *)

\* Bound: no more starts than there are servers left to be started.
StartCommand(c) ==
  /\ pc[c] = "idle"
  /\ Cardinality(Unspawned)
       > Cardinality({d \in Clis : pc[d] \in {"owned", "port", "spawn"}})
  /\ \E p \in Ports : want' = [want EXCEPT ![c] = p]
  /\ pc' = [pc EXCEPT ![c] = "owned"]
  /\ srv' = [srv EXCEPT ![c] = NoServer]
  /\ said' = [said EXCEPT ![c] = "nothing"]
  /\ UNCHANGED <<serverVars, record>>

\* Mutant: start trusts the port alone to tell whether a server runs.
StartOwned_port_only(c) ==
  pc[c] = "owned" /\ GoTo(c, "port") /\ UNCHANGED <<serverVars, record>>

\* A misread record is taken for one of a server that has ended.
StartOwned(c) ==
  /\ pc[c] = "owned"
  /\ \/ owns_process(record) /\ Return(c, "error") /\ UNCHANGED lost
     \/ ~owns_process(record) /\ GoTo(c, "port") /\ UNCHANGED lost
     \/ Misread(record) /\ GoTo(c, "port") /\ Lose(record)
  /\ UNCHANGED <<proc, port, termed, killed, record>>

\* Before the child exists: something is not prepared or stale, process.json
\* is unreadable, the index or the log cannot be written, Popen fails.
StartRefused(c) ==
  pc[c] \in {"owned", "spawn"} /\ Return(c, "error") /\ UNCHANGED <<serverVars, record>>

port_available(c) ==
  /\ pc[c] = "port"
  /\ IF Listening(want[c]) THEN Return(c, "error") ELSE GoTo(c, "spawn")
  /\ UNCHANGED <<serverVars, record>>

Spawn(c) ==
  /\ pc[c] = "spawn"
  /\ \E s \in Unspawned :
       /\ \A t \in Unspawned : s <= t
       /\ proc' = [proc EXCEPT ![s] = "loading"]
       /\ port' = [port EXCEPT ![s] = want[c]]
       /\ srv' = [srv EXCEPT ![c] = s]
  /\ pc' = [pc EXCEPT ![c] = "record"]
  /\ UNCHANGED <<termed, killed, lost, record, want, said>>

\* process.json is replaced, whatever it says by now.
Record(c) ==
  /\ pc[c] = "record"
  /\ record' = srv[c]
  /\ GoTo(c, "ready")
  /\ UNCHANGED serverVars

\* No start time for the child: it is terminated and nothing is recorded.
NoStarttime(c) ==
  /\ pc[c] = "record"
  /\ "proc" \in Faults
  /\ termed' = IF IsRunning(srv[c]) THEN termed \union {srv[c]} ELSE termed
  /\ Lose(srv[c])
  /\ Return(c, "error")
  /\ UNCHANGED <<proc, port, killed, record>>

\* process.json cannot be written: start ends and the child runs on.
RecordFails(c) ==
  /\ pc[c] = "record"
  /\ "disk" \in Faults
  /\ Lose(srv[c])
  /\ Return(c, "error")
  /\ UNCHANGED <<proc, port, termed, killed, record>>

\* child.poll reaped the child: nothing is left to clean up.
ChildDied(c) ==
  /\ pc[c] = "ready"
  /\ proc[srv[c]] = "zombie"
  /\ proc' = [proc EXCEPT ![srv[c]] = "gone"]
  /\ Return(c, "error")
  /\ UNCHANGED <<port, termed, killed, lost, record>>

ChildAlive(c) ==
  /\ pc[c] = "ready"
  /\ IsRunning(srv[c])
  /\ GoTo(c, "health")
  /\ UNCHANGED <<serverVars, record>>

\* Whoever listens on the port may answer /health; without an answer the
\* child is looked at again.
Health(c) ==
  /\ pc[c] = "health"
  /\ GoTo(c, IF Answering(want[c]) THEN "smoke" ELSE "ready")
  /\ UNCHANGED <<serverVars, record>>

\* Mutant: the deadline leads to a step that does not exist.
ReadyTimeout_nowhere(c) ==
  pc[c] = "ready" /\ GoTo(c, "timeout") /\ UNCHANGED <<serverVars, record>>

\* The deadline has passed, or the child's start time cannot be read.
ReadyTimeout(c) ==
  /\ pc[c] = "ready"
  /\ GoTo(c, "cleanup")
  /\ UNCHANGED <<serverVars, record>>

\* Mutant: /health is taken for enough.
SmokePassed_skipped(c) ==
  pc[c] = "smoke" /\ Return(c, "started") /\ UNCHANGED <<serverVars, record>>

SmokePassed(c) ==
  /\ pc[c] = "smoke"
  /\ Answering(want[c])
  /\ Return(c, "started")
  /\ UNCHANGED <<serverVars, record>>

SmokeFailed(c) ==
  /\ pc[c] = "smoke"
  /\ GoTo(c, "cleanup")
  /\ UNCHANGED <<serverVars, record>>

\* Mutant: a failed start also removes process.json, its child still running.
Cleanup_unrecords(c) ==
  /\ pc[c] = "cleanup"
  /\ termed' = IF IsRunning(srv[c]) THEN termed \union {srv[c]} ELSE termed
  /\ record' = NoServer
  /\ Return(c, "error")
  /\ UNCHANGED <<proc, port, killed, lost>>

\* child.terminate unless its start time cannot be read; process.json stays.
Cleanup(c) ==
  /\ pc[c] = "cleanup"
  /\ \/ termed' = IF IsRunning(srv[c]) THEN termed \union {srv[c]} ELSE termed
     \/ Misread(srv[c]) /\ UNCHANGED termed
  /\ Return(c, "error")
  /\ UNCHANGED <<proc, port, killed, lost, record>>

-----------------------------------------------------------------------------
(* stop *)

StopCommand(c) ==
  /\ pc[c] = "idle"
  /\ pc' = [pc EXCEPT ![c] = "read"]
  /\ srv' = [srv EXCEPT ![c] = NoServer]
  /\ want' = [want EXCEPT ![c] = NoPort]
  /\ said' = [said EXCEPT ![c] = "nothing"]
  /\ UNCHANGED <<serverVars, record>>

\* An error when process.json is unreadable, or removed since it was seen.
StopRead(c) ==
  /\ pc[c] = "read"
  /\ \/ record = NoServer /\ Return(c, "not running")
     \/ /\ record # NoServer
        /\ pc' = [pc EXCEPT ![c] = "check"]
        /\ srv' = [srv EXCEPT ![c] = record]
        /\ UNCHANGED <<want, said>>
     \/ "disk" \in Faults /\ Return(c, "error")
  /\ UNCHANGED <<serverVars, record>>

StopCheck(c) ==
  /\ pc[c] = "check"
  /\ \/ owns_process(srv[c]) /\ GoTo(c, "term")
     \/ (~owns_process(srv[c]) \/ Misread(srv[c])) /\ Return(c, "not running")
  /\ UNCHANGED <<serverVars, record>>

\* A signal by pid: it raises, or reaches the server or, once the pid is
\* reused, a stranger.
Terminate(c) ==
  /\ pc[c] = "term"
  /\ IF NoSuchProcess(srv[c]) THEN Return(c, "error") ELSE GoTo(c, "grace")
  /\ termed' = IF IsRunning(srv[c]) THEN termed \union {srv[c]} ELSE termed
  /\ UNCHANGED <<proc, port, killed, lost, record>>

\* Mutant: SIGTERM is taken for enough.
Grace_never_kills(c) ==
  pc[c] = "grace" /\ GoTo(c, "unlink") /\ UNCHANGED <<serverVars, record>>

\* Mutant: the wait has no deadline.
Grace_forever(c) ==
  /\ pc[c] = "grace"
  /\ ~owns_process(srv[c])
  /\ GoTo(c, "unlink")
  /\ UNCHANGED <<serverVars, record>>

\* Gone within 15 seconds, or not; a misread one is taken for gone.
Grace(c) ==
  /\ pc[c] = "grace"
  /\ \/ owns_process(srv[c]) /\ GoTo(c, "kill") /\ UNCHANGED lost
     \/ ~owns_process(srv[c]) /\ GoTo(c, "unlink") /\ UNCHANGED lost
     \/ Misread(srv[c]) /\ GoTo(c, "unlink") /\ Lose(srv[c])
  /\ UNCHANGED <<proc, port, termed, killed, record>>

\* Mutant: process.json is read again to find the pid to kill.
Kill_rereads(c) ==
  /\ pc[c] = "kill"
  /\ GoTo(c, "unlink")
  /\ IF record # NoServer /\ IsRunning(record)
       THEN /\ proc' = [proc EXCEPT ![record] = "dying"]
            /\ killed' = killed \union {record}
       ELSE UNCHANGED <<proc, killed>>
  /\ UNCHANGED <<port, termed, lost, record>>

Kill(c) ==
  /\ pc[c] = "kill"
  /\ IF NoSuchProcess(srv[c]) THEN Return(c, "error") ELSE GoTo(c, "unlink")
  /\ IF IsRunning(srv[c])
       THEN /\ proc' = [proc EXCEPT ![srv[c]] = "dying"]
            /\ killed' = killed \union {srv[c]}
       ELSE UNCHANGED <<proc, killed>>
  /\ UNCHANGED <<port, termed, lost, record>>

\* process.json is removed, whatever it says by now.
Unlink(c) ==
  /\ pc[c] = "unlink"
  /\ \/ record' = NoServer /\ Return(c, "stopped")
     \/ "disk" \in Faults /\ UNCHANGED record /\ Return(c, "error")
  /\ UNCHANGED serverVars

-----------------------------------------------------------------------------
\* Between Popen and process.json the server is known to the dead shell only.
Crash(c) ==
  /\ "crash" \in Faults
  /\ pc[c] # "idle"
  /\ Return(c, "nothing")
  /\ lost' = IF pc[c] = "record" THEN lost \union {srv[c]} ELSE lost
  /\ UNCHANGED <<proc, port, termed, killed, record>>

Start(c) ==
  \/ StartOwned(c) \/ StartRefused(c) \/ port_available(c) \/ Spawn(c)
  \/ Record(c) \/ NoStarttime(c) \/ RecordFails(c)
  \/ ChildDied(c) \/ ChildAlive(c) \/ Health(c) \/ ReadyTimeout(c)
  \/ SmokePassed(c) \/ SmokeFailed(c) \/ Cleanup(c)

Stop(c) ==
  \/ StopRead(c) \/ StopCheck(c) \/ Terminate(c) \/ Grace(c) \/ Kill(c)
  \/ Unlink(c)

Next ==
  \/ World
  \/ \E c \in Clis :
       StartCommand(c) \/ StopCommand(c) \/ Start(c) \/ Stop(c) \/ Crash(c)

Spec == Init /\ [][Next]_vars

\* A shell that runs a command keeps running it; every round of start's wait
\* takes time, so that its deadline passes in the end.
FairSpec ==
  Spec /\ \A c \in Clis : WF_vars(Start(c) \/ Stop(c)) /\ SF_vars(ReadyTimeout(c))

-----------------------------------------------------------------------------
(* Properties *)

\* A server that holds its memory and was not told to give it up at once.
Live(s) == proc[s] \in {"loading", "ready"}

\* A server nobody asked to stop.
Wanted(s) == Live(s) /\ s \notin termed

\* When no command runs, process.json names the server that runs, so status
\* shows it and stop can stop it (start's record, stop's unlink, start's
\* clean-up).  The exceptions are the servers in lost: start was killed before
\* it wrote process.json or could not write it, or the start time of a running
\* server could not be read when start looked for it or stop waited for it.
NothingRunsUnrecorded ==
  (\A c \in Clis : pc[c] = "idle") =>
    \A s \in Servers \ lost : Wanted(s) => record = s

\* Commands given one after the other leave two servers with the memory only
\* by losing track of one (lost): else start refuses, whatever --port says,
\* while the recorded server has not ended, and stop forgets it only when it has
\* ended or has been sent SIGKILL.
OneServer == \A s, t \in Servers \ lost : Live(s) /\ Live(t) => s = t

\* start reports "started pid=..., ready" only while that very child answers
\* on its port, or a server an earlier command lost track of does: one that
\* loaded on while start found the port free, bound it first and now answers
\* for the child.
StartedIsReady ==
  [][\A c \in Clis : said[c] # "started" /\ said'[c] = "started"
       => \E s \in lost \union {srv[c]} : port[s] = want[c] /\ proc[s] = "ready"]_vars

\* stop reports "stopped" only when the server it read from process.json has
\* ended or has at least been sent SIGKILL, as long as start times can be read.
StoppedIsStopped ==
  \A c \in Clis : said[c] = "stopped" => ~IsRunning(srv[c]) \/ srv[c] \in killed

\* No server is killed without having been asked to terminate, also when
\* process.json names another server by the time the grace period ends.
GraceBeforeKill == killed \subseteq termed

\* Every command returns: each of its waits has a deadline.
CommandsReturn == \A c \in Clis : pc[c] # "idle" ~> pc[c] = "idle"

\* The record of a server that runs and was not asked to stop is not replaced
\* or removed.
RunningRecordKept ==
  [][record # NoServer /\ Wanted(record) => record' = record]_vars
=============================================================================
