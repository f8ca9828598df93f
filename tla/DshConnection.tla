---------------------------- MODULE DshConnection ----------------------------
(***************************************************************************)
(* start-dsh.py on top of remote-connect.py: under startup.lock a starter  *)
(* makes sure of an adapter that answers, then of a tunnel supervisor, and *)
(* prints DSH_ADAPTER_READY.  Several starters may be run, one after the   *)
(* other or at once, and any may be interrupted at any step.               *)
(***************************************************************************)
EXTENDS TunnelSupervisor

CONSTANTS
  Starters,   \* concurrent invocations of start-dsh.py
  Adapters,   \* pids dsh_api_adapter.py may run under
  MaxProbes   \* probes of a new adapter; 20 in the code

ASSUME NoStarterAssumption == NoOne \notin Starters \union Adapters
ASSUME ProbesAssumption == MaxProbes \in Nat \ {0}

VARIABLES
  lock,      \* the holder of startup.lock
  todo,      \* what each starter does next; "idle" when it is not running, and
             \* "ready" when its last run printed DSH_ADAPTER_READY
  kid,       \* the process it launched last
  probes,    \* how often it has probed the adapter it launched
  adapter    \* what each adapter process does

starterVars == <<lock, todo, kid, probes>>
vars == <<tunnelVars, starterVars, adapter>>

Todos == {"idle", "ready", "lock", "probe", "launch", "wait", "poll", "tunnel",
          "supervise", "verify"}

TypeOK ==
  /\ TunnelTypeOK
  /\ lock \in Starters \union {NoOne}
  /\ todo \in [Starters -> Todos]
  /\ kid \in [Starters -> Adapters \union Supervisors \union {NoOne}]
  /\ probes \in [Starters -> 0 .. MaxProbes-1]
  /\ adapter \in [Adapters -> {"none", "starting", "bound"}]

Init ==
  /\ TunnelInit
  /\ lock = NoOne
  /\ todo = [s \in Starters |-> "idle"]
  /\ kid = [s \in Starters |-> NoOne]
  /\ probes = [s \in Starters |-> 0]
  /\ adapter = [a \in Adapters |-> "none"]

-----------------------------------------------------------------------------
(* The adapter process. *)

\* 127.0.0.1:48242 is taken.
Bound == \E a \in Adapters : adapter[a] = "bound"

\* The encoder is loaded and the port is free.
Bind(a) ==
  /\ adapter[a] = "starting"
  /\ ~Bound
  /\ adapter' = [adapter EXCEPT ![a] = "bound"]
  /\ UNCHANGED <<tunnelVars, starterVars>>

\* main returns 2: the port is taken, or the encoder does not load.
BindFails(a) ==
  /\ adapter[a] = "starting"
  /\ IF Bound THEN UNCHANGED faults ELSE CountFault
  /\ adapter' = [adapter EXCEPT ![a] = "none"]
  /\ UNCHANGED <<supVars, flock, record, sshVars, starterVars>>

AdapterDies(a) ==
  /\ adapter[a] = "bound"
  /\ CountFault
  /\ adapter' = [adapter EXCEPT ![a] = "none"]
  /\ UNCHANGED <<supVars, flock, record, sshVars, starterVars>>

-----------------------------------------------------------------------------
(* Steps of the program. *)

Do(s, step) == todo' = [todo EXCEPT ![s] = step]

\* The answers of GET /health: the adapter asks the native server, which may or
\* may not be ready.
healthy == {ok \in BOOLEAN : ok => Bound}

\* The starter's process ends, and with it its lock.
Leave(s, word) ==
  /\ Do(s, word)
  /\ lock' = IF lock = s THEN NoOne ELSE lock
  /\ kid' = [kid EXCEPT ![s] = NoOne]
  /\ probes' = [probes EXCEPT ![s] = 0]

Start(s) ==
  /\ todo[s] \in {"idle", "ready"}
  /\ Do(s, "lock")
  /\ UNCHANGED <<tunnelVars, lock, kid, probes, adapter>>

TakeLock(s) ==
  /\ todo[s] = "lock"
  /\ lock = NoOne
  /\ lock' = s
  /\ Do(s, "probe")
  /\ UNCHANGED <<tunnelVars, kid, probes, adapter>>

Probe(s) ==
  /\ todo[s] = "probe"
  /\ \E ok \in healthy : Do(s, IF ok THEN "tunnel" ELSE "launch")
  /\ UNCHANGED <<tunnelVars, lock, kid, probes, adapter>>

LaunchAdapter(s) ==
  /\ todo[s] = "launch"
  /\ \E a \in Adapters :
       /\ adapter[a] = "none"
       /\ adapter' = [adapter EXCEPT ![a] = "starting"]
       /\ kid' = [kid EXCEPT ![s] = a]
  /\ Do(s, "wait")
  /\ UNCHANGED <<tunnelVars, lock, probes>>

WaitHealthy(s) ==
  /\ todo[s] = "wait"
  /\ \E ok \in healthy : Do(s, IF ok THEN "tunnel" ELSE "poll")
  /\ UNCHANGED <<tunnelVars, lock, kid, probes, adapter>>

\* Not healthy: has the child died, or was that the last probe?
PollAdapter(s) ==
  /\ todo[s] = "poll"
  /\ IF adapter[kid[s]] = "none" \/ probes[s] + 1 = MaxProbes
       THEN Leave(s, "idle")
       ELSE /\ probes' = [probes EXCEPT ![s] = @ + 1]
            /\ Do(s, "wait")
            /\ UNCHANGED <<lock, kid>>
  /\ UNCHANGED <<tunnelVars, adapter>>

\* The pid in remote-connect.json runs remote-connect.py.
live == record.pid # NoOne /\ sup[record.pid] # "none"

\* Mutant: a record is taken for a live supervisor.
ReadRecord_stale(s) ==
  /\ todo[s] = "tunnel"
  /\ IF record.pid # NoOne
       THEN Leave(s, "ready")
       ELSE Do(s, "supervise") /\ UNCHANGED <<lock, kid, probes>>
  /\ UNCHANGED <<tunnelVars, adapter>>

ReadRecord(s) ==
  /\ todo[s] = "tunnel"
  /\ IF live
       THEN Leave(s, "ready")
       ELSE Do(s, "supervise") /\ UNCHANGED <<lock, kid, probes>>
  /\ UNCHANGED <<tunnelVars, adapter>>

LaunchSupervisor(s) ==
  /\ todo[s] = "supervise"
  /\ \E p \in Supervisors : Exec(p) /\ kid' = [kid EXCEPT ![s] = p]
  /\ Do(s, "verify")
  /\ UNCHANGED <<stop, child, sig, backoff, flock, record, sshVars, faults,
                 lock, probes, adapter>>

\* Half a second later.
Verify(s) ==
  /\ todo[s] = "verify"
  /\ Leave(s, IF sup[kid[s]] = "none" THEN "idle" ELSE "ready")
  /\ UNCHANGED <<tunnelVars, adapter>>

\* A missing file, Popen that fails, or Ctrl-C.
Abort(s) ==
  /\ todo[s] \notin {"idle", "ready"}
  /\ Leave(s, "idle")
  /\ UNCHANGED <<tunnelVars, adapter>>

-----------------------------------------------------------------------------
Starter(s) ==
  \/ TakeLock(s) \/ Probe(s) \/ LaunchAdapter(s) \/ WaitHealthy(s)
  \/ PollAdapter(s) \/ ReadRecord(s) \/ LaunchSupervisor(s) \/ Verify(s)

Adapter(a) == Bind(a) \/ BindFails(a) \/ AdapterDies(a)

Tunnel == TunnelNext /\ UNCHANGED <<starterVars, adapter>>

Next ==
  \/ \E s \in Starters : Start(s) \/ Starter(s) \/ Abort(s)
  \/ \E a \in Adapters : Adapter(a)
  \/ Tunnel

Spec == Init /\ [][Next]_vars

\* A starter and an adapter that binds keep running as well.
FairSpec ==
  /\ Spec
  /\ TunnelFairness
  /\ \A s \in Starters : WF_vars(Starter(s))
  /\ \A a \in Adapters : WF_vars(Bind(a) \/ (Bound /\ BindFails(a)))

-----------------------------------------------------------------------------
(* Properties *)

\* From here on nothing fails and no supervisor is being stopped.
Calm ==
  /\ faults = MaxFaults
  /\ \A p \in Supervisors :
       ~stop[p] /\ sup[p] \notin {"stopping", "finally", "unlock"}

\* A starter that prints DSH_ADAPTER_READY tells the truth about what comes:
\* the adapter listens and the forward comes up, whatever supervisors,
\* adapters and orphaned ssh processes earlier runs and faults have left behind
\* (healthy, the live check of remote-connect.json, the flock of the
\* supervisor).  Only a run that fails, and says so, is excused.
ReadyComesTrue ==
  \A s \in Starters :
    Calm /\ todo[s] = "probe" ~> todo[s] = "idle" \/ (Bound /\ relay = "used")
=============================================================================
