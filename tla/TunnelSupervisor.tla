--------------------------- MODULE TunnelSupervisor ---------------------------
(***************************************************************************)
(* remote-connect.py: whoever holds remote-connect.lock keeps one ssh      *)
(* child with the reverse forward alive, starts the next one after a       *)
(* growing pause when it dies, and takes it down when told to stop.  ssh   *)
(* and the relay's sshd are external.  A process is named by its pid; a    *)
(* free pid may be given away again.  A supervisor may be signalled or     *)
(* killed, and a write may fail, at any step.                              *)
(***************************************************************************)
EXTENDS Integers

CONSTANTS
  Supervisors,  \* pids remote-connect.py may run under
  Sshs,         \* pids ssh may run under
  NoOne,
  MaxBackoff,   \* the longest pause; 60 in the code
  MaxFaults     \* bound: signals, kills and failed writes of one behaviour

ASSUME NoOneAssumption == NoOne \notin Supervisors \union Sshs
ASSUME BackoffAssumption == MaxBackoff \in Nat \ {0}
ASSUME FaultsAssumption == MaxFaults \in Nat

VARIABLES
  sup,      \* what each supervisor does next; "none" when none has the pid
  stop,     \* its STOP
  child,    \* its CHILD
  sig,      \* the strongest signal it has sent to that child
  backoff,  \* its backoff
  flock,    \* the holder of remote-connect.lock
  record,   \* remote-connect.json
  ssh,      \* what each ssh process does
  parent,   \* the supervisor that is its parent; NoOne when init is
  relay,    \* the relay's port: "free", "used", or "stale" while sshd has
            \* not noticed that its client has gone
  faults    \* faults so far

supVars == <<sup, stop, child, sig, backoff>>
sshVars == <<ssh, parent, relay>>
tunnelVars == <<supVars, flock, record, sshVars, faults>>

Steps == {"start", "handlers", "loop", "connected", "poll", "stopping",
          "retry", "pause", "finally", "unlock"}

TunnelTypeOK ==
  /\ sup \in [Supervisors -> Steps \union {"none"}]
  /\ stop \in [Supervisors -> BOOLEAN]
  /\ child \in [Supervisors -> Sshs \union {NoOne}]
  /\ sig \in [Supervisors -> {"none", "term", "kill"}]
  /\ backoff \in [Supervisors -> 1 .. MaxBackoff]
  /\ flock \in Supervisors \union {NoOne}
  /\ record \in [ pid : Supervisors \union {NoOne},
                  status : {"absent", "connected", "reconnecting", "stopped"} ]
  /\ ssh \in [Sshs -> {"none", "connecting", "up", "exited"}]
  /\ parent \in [Sshs -> Supervisors \union {NoOne}]
  /\ relay \in {"free", "used", "stale"}
  /\ faults \in 0 .. MaxFaults

TunnelInit ==
  /\ sup = [p \in Supervisors |-> "none"]
  /\ stop = [p \in Supervisors |-> FALSE]
  /\ child = [p \in Supervisors |-> NoOne]
  /\ sig = [p \in Supervisors |-> "none"]
  /\ backoff = [p \in Supervisors |-> 1]
  /\ flock = NoOne
  /\ record = [pid |-> NoOne, status |-> "absent"]
  /\ ssh = [c \in Sshs |-> "none"]
  /\ parent = [c \in Sshs |-> NoOne]
  /\ relay = "free"
  /\ faults = 0

-----------------------------------------------------------------------------
(* ssh and the relay. *)

Running(c) == ssh[c] \in {"connecting", "up"}

\* The forward is set up: the port was free.
Connect(c) ==
  /\ ssh[c] = "connecting"
  /\ relay = "free"
  /\ ssh' = [ssh EXCEPT ![c] = "up"]
  /\ relay' = "used"
  /\ UNCHANGED <<supVars, flock, record, parent, faults>>

\* No route, a refused forward (ExitOnForwardFailure), a dead link, a signal.
\* An orphan is reaped at once, a child by its parent's poll or wait.
SshExit(c) ==
  /\ Running(c)
  /\ ssh' = [ssh EXCEPT ![c] = IF parent[c] = NoOne THEN "none" ELSE "exited"]
  /\ relay' = IF ssh[c] = "up" THEN "stale" ELSE relay
  /\ UNCHANGED <<supVars, flock, record, parent, faults>>

\* sshd notices that the client has gone.
RelayNotices ==
  /\ relay = "stale"
  /\ relay' = "free"
  /\ UNCHANGED <<supVars, flock, record, ssh, parent, faults>>

-----------------------------------------------------------------------------
(* Steps of the program. *)

GoTo(p, step) == sup' = [sup EXCEPT ![p] = step]

write_state(p, status) == record' = [pid |-> p, status |-> status]

\* The process p ends: the kernel releases its lock and init adopts its child.
End(p) ==
  /\ GoTo(p, "none")
  /\ stop' = [stop EXCEPT ![p] = FALSE]
  /\ child' = [child EXCEPT ![p] = NoOne]
  /\ sig' = [sig EXCEPT ![p] = "none"]
  /\ backoff' = [backoff EXCEPT ![p] = 1]
  /\ flock' = IF flock = p THEN NoOne ELSE flock
  /\ ssh' = [c \in Sshs |->
               IF parent[c] = p /\ ssh[c] = "exited" THEN "none" ELSE ssh[c]]
  /\ parent' = [c \in Sshs |-> IF parent[c] = p THEN NoOne ELSE parent[c]]
  /\ UNCHANGED relay

\* poll() or wait() has returned the child's status, and CHILD is cleared.
Reap(p) ==
  /\ child[p] # NoOne => ssh[child[p]] = "exited"
  /\ child' = [child EXCEPT ![p] = NoOne]
  /\ sig' = [sig EXCEPT ![p] = "none"]
  /\ ssh' = [c \in Sshs |-> IF c = child[p] THEN "none" ELSE ssh[c]]
  /\ parent' = [c \in Sshs |-> IF c = child[p] THEN NoOne ELSE parent[c]]
  /\ UNCHANGED <<stop, backoff, flock, relay, faults>>

\* The child is still there, and these signals have been sent to it.
Clings(p, signals) ==
  child[p] # NoOne /\ Running(child[p]) /\ sig[p] \in signals

\* Started by someone else, who does not wait for it.
Exec(p) == sup[p] = "none" /\ GoTo(p, "start")

\* Mutant: the result of flock is not looked at.
Lock_shared(p) ==
  /\ sup[p] = "start"
  /\ GoTo(p, "handlers")
  /\ flock' = p
  /\ UNCHANGED <<stop, child, sig, backoff, record, sshVars, faults>>

\* Mutant: the lock is taken inside the try, whose finally clause is then run.
Lock_inside_try(p) ==
  /\ sup[p] = "start"
  /\ IF flock = NoOne
       THEN flock' = p /\ GoTo(p, "handlers")
       ELSE GoTo(p, "finally") /\ UNCHANGED flock
  /\ UNCHANGED <<stop, child, sig, backoff, record, sshVars, faults>>

\* LOCK_NB: the loser returns 3 and touches nothing.
Lock(p) ==
  /\ sup[p] = "start"
  /\ \/ /\ flock = NoOne
        /\ flock' = p
        /\ GoTo(p, "handlers")
        /\ UNCHANGED <<stop, child, sig, backoff, sshVars>>
     \/ flock # NoOne /\ End(p)
  /\ UNCHANGED <<record, faults>>

InstallHandlers(p) ==
  /\ sup[p] = "handlers"
  /\ GoTo(p, "loop")
  /\ UNCHANGED <<stop, child, sig, backoff, flock, record, sshVars, faults>>

Spawn(p) ==
  /\ sup[p] = "loop"
  /\ ~stop[p]
  /\ \E c \in Sshs :
       /\ ssh[c] = "none"
       /\ child' = [child EXCEPT ![p] = c]
       /\ ssh' = [ssh EXCEPT ![c] = "connecting"]
       /\ parent' = [parent EXCEPT ![c] = p]
  /\ GoTo(p, "connected")
  /\ UNCHANGED <<stop, sig, backoff, flock, record, relay, faults>>

RecordConnected(p) ==
  /\ sup[p] = "connected"
  /\ write_state(p, "connected")
  /\ GoTo(p, "poll")
  /\ UNCHANGED <<stop, child, sig, backoff, flock, sshVars, faults>>

\* Mutant: the wait is for STOP alone.
SshGone_unseen(p) ==
  /\ sup[p] = "poll"
  /\ stop[p]
  /\ Reap(p)
  /\ GoTo(p, "retry")
  /\ UNCHANGED record

\* The ssh has exited: its status is collected.
SshGone(p) ==
  /\ sup[p] = "poll"
  /\ ~stop[p]
  /\ Reap(p)
  /\ GoTo(p, "retry")
  /\ UNCHANGED record

\* STOP ends the loop wherever it is tested.
SeeStop(p) ==
  /\ stop[p]
  /\ \/ sup[p] = "poll" /\ GoTo(p, "stopping")
     \/ sup[p] \in {"loop", "retry"} /\ GoTo(p, "finally")
  /\ UNCHANGED <<stop, child, sig, backoff, flock, record, sshVars, faults>>

RecordReconnecting(p) ==
  /\ sup[p] = "retry"
  /\ ~stop[p]
  /\ write_state(p, "reconnecting")
  /\ GoTo(p, "pause")
  /\ UNCHANGED <<stop, child, sig, backoff, flock, sshVars, faults>>

\* Mutant: the pause has no upper bound.
Pause_uncapped(p) ==
  /\ sup[p] = "pause"
  /\ backoff' = [backoff EXCEPT ![p] = 2 * @]
  /\ GoTo(p, "loop")
  /\ UNCHANGED <<stop, child, sig, flock, record, sshVars, faults>>

\* Over, or cut short by STOP.
Pause(p) ==
  /\ sup[p] = "pause"
  /\ backoff' = [backoff EXCEPT ![p] = IF 2 * @ < MaxBackoff THEN 2 * @ ELSE MaxBackoff]
  /\ GoTo(p, "loop")
  /\ UNCHANGED <<stop, child, sig, flock, record, sshVars, faults>>

-----------------------------------------------------------------------------
(* stop_child, called in the loop ("stopping") and in the finally clause. *)

InStopChild(p) == sup[p] \in {"stopping", "finally"}

Terminate(p) ==
  /\ InStopChild(p)
  /\ Clings(p, {"none"})
  /\ sig' = [sig EXCEPT ![p] = "term"]
  /\ UNCHANGED <<sup, stop, child, backoff, flock, record, sshVars, faults>>

\* Mutant: after the timeout the same signal is sent once more.
Kill_gently(p) ==
  /\ InStopChild(p)
  /\ Clings(p, {"term"})
  /\ sig' = [sig EXCEPT ![p] = "term"]
  /\ UNCHANGED <<sup, stop, child, backoff, flock, record, sshVars, faults>>

\* It did not exit within 15 seconds.
Kill(p) ==
  /\ InStopChild(p)
  /\ Clings(p, {"term"})
  /\ sig' = [sig EXCEPT ![p] = "kill"]
  /\ UNCHANGED <<sup, stop, child, backoff, flock, record, sshVars, faults>>

\* Not even then, within 5 more: wait raises TimeoutExpired.
GiveUp(p) ==
  /\ Clings(p, {"kill"})
  /\ \/ /\ sup[p] = "stopping"
        /\ GoTo(p, "finally")
        /\ UNCHANGED <<stop, child, sig, backoff, flock, sshVars>>
     \/ sup[p] = "finally" /\ End(p)
  /\ UNCHANGED <<record, faults>>

StopReturns(p) ==
  /\ sup[p] = "stopping"
  /\ Reap(p)
  /\ GoTo(p, "finally")
  /\ UNCHANGED record

\* Mutant: the status is written before the child is waited for.
RecordStopped_early(p) ==
  /\ sup[p] = "finally"
  /\ write_state(p, "stopped")
  /\ GoTo(p, "unlock")
  /\ UNCHANGED <<stop, child, sig, backoff, flock, sshVars, faults>>

RecordStopped(p) ==
  /\ sup[p] = "finally"
  /\ Reap(p)
  /\ write_state(p, "stopped")
  /\ GoTo(p, "unlock")

Return(p) ==
  /\ sup[p] = "unlock"
  /\ End(p)
  /\ UNCHANGED <<record, faults>>

-----------------------------------------------------------------------------
(* Faults. *)

CountFault == faults < MaxFaults /\ faults' = faults + 1

\* SIGTERM or SIGINT: before the handlers it is the end of the process.
StopSignal(p) ==
  /\ CountFault
  /\ \/ sup[p] \in {"start", "handlers"} /\ End(p)
     \/ /\ sup[p] \notin {"none", "start", "handlers"}
        /\ stop' = [stop EXCEPT ![p] = TRUE]
        /\ UNCHANGED <<sup, child, sig, backoff, flock, sshVars>>
  /\ UNCHANGED record

Killed(p) ==
  /\ CountFault
  /\ sup[p] # "none"
  /\ End(p)
  /\ UNCHANGED record

\* Popen raises OSError: the loop goes on without a child.
SpawnFails(p) ==
  /\ CountFault
  /\ sup[p] = "loop"
  /\ ~stop[p]
  /\ GoTo(p, "retry")
  /\ UNCHANGED <<stop, child, sig, backoff, flock, record, sshVars>>

\* The log or the status cannot be written: the exception runs the finally
\* clause, or leaves it.
WriteFails(p) ==
  /\ CountFault
  /\ \/ /\ sup[p] \in {"loop", "connected", "poll", "stopping", "retry"}
        /\ sup[p] \in {"poll", "stopping"} => ssh[child[p]] = "exited"
        /\ GoTo(p, "finally")
        /\ UNCHANGED <<stop, child, sig, backoff, flock, sshVars>>
     \/ /\ sup[p] = "finally"
        /\ ~Clings(p, {"none", "term", "kill"})
        /\ End(p)
  /\ UNCHANGED record

-----------------------------------------------------------------------------
Supervisor(p) ==
  \/ Lock(p) \/ InstallHandlers(p) \/ Spawn(p) \/ RecordConnected(p)
  \/ SshGone(p) \/ SeeStop(p) \/ RecordReconnecting(p) \/ Pause(p)
  \/ Terminate(p) \/ Kill(p) \/ GiveUp(p) \/ StopReturns(p)
  \/ RecordStopped(p) \/ Return(p)

Fault(p) == StopSignal(p) \/ Killed(p) \/ SpawnFails(p) \/ WriteFails(p)

TunnelNext ==
  \/ \E p \in Supervisors : Supervisor(p) \/ Fault(p)
  \/ \E c \in Sshs : Connect(c) \/ SshExit(c)
  \/ RelayNotices

\* The supervisor and sshd keep running, an attempt to connect ends, and one
\* that could get its forward again and again sooner or later gets it.
TunnelFairness ==
  /\ \A p \in Supervisors : WF_tunnelVars(Supervisor(p))
  /\ \A c \in Sshs :
       WF_tunnelVars(ssh[c] = "connecting" /\ (Connect(c) \/ SshExit(c)))
  /\ SF_tunnelVars(\E c \in Sshs : Connect(c))
  /\ WF_tunnelVars(RelayNotices)

-----------------------------------------------------------------------------
(* Properties *)

\* Whatever is killed, signalled or restarted, no two running ssh processes
\* have a running supervisor: the flock, the one CHILD, and that the next ssh
\* is started only after the last has been reaped.
OneSupervisedSsh ==
  \A c, d \in Sshs :
    /\ Running(c) /\ parent[c] # NoOne
    /\ Running(d) /\ parent[d] # NoOne
    => c = d

\* "stopped" is written only when no ssh of that supervisor runs any more, also
\* when the ssh ignores SIGTERM, or exits while it is being stopped (the
\* finally clause runs stop_child before write_state).
StoppedLeavesNoSsh ==
  \A p \in Supervisors :
    sup[p] = "unlock" =>
      record = [pid |-> p, status |-> "stopped"]
        /\ \A c \in Sshs : parent[c] = p => ~Running(c)

\* While a supervisor serves, remote-connect.json is its own and up to date: a
\* duplicate invocation "exits without replacing" it (comment in start-dsh.py).
RecordOfTheServer ==
  \A p \in Supervisors :
    /\ sup[p] = "poll" => record = [pid |-> p, status |-> "connected"]
    /\ sup[p] = "pause" => record = [pid |-> p, status |-> "reconnecting"]

\* The supervisor that holds the lock brings the forward back however often
\* links break, unless it is told to stop or dies.
TunnelComesBack ==
  \A p \in Supervisors :
    flock = p ~> relay = "used" \/ stop[p] \/ sup[p] = "none"

\* SIGTERM ends the supervisor, whatever its ssh does.
StopObeyed == \A p \in Supervisors : stop[p] ~> sup[p] = "none"
=============================================================================
