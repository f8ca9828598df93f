-------------------------- MODULE DshConnectionProofs --------------------------
(***************************************************************************)
(* Proofs about DshConnection and the TunnelSupervisor below it, for any   *)
(* number of supervisors, ssh processes, starters, adapters and faults.    *)
(***************************************************************************)
EXTENDS DshConnection, TLAPS

\* Who has passed the lock holds it, and its CHILD and the kernel's parent
\* links say the same (main: flock, CHILD).
Custody ==
  /\ \A p \in Supervisors : sup[p] \notin {"none", "start"} => flock = p
  /\ \A p \in Supervisors :
       child[p] # NoOne =>
         /\ sup[p] \in {"connected", "poll", "stopping", "finally"}
         /\ parent[child[p]] = p
  /\ \A c \in Sshs : parent[c] # NoOne => child[parent[c]] = c
  /\ \A c \in Sshs : ssh[c] = "none" => parent[c] = NoOne

\* What the server has written last is its own record.
Recorded ==
  /\ RecordOfTheServer
  /\ \A p \in Supervisors :
       sup[p] = "unlock" => record = [pid |-> p, status |-> "stopped"]

TInv == TunnelTypeOK /\ Custody /\ Recorded

-----------------------------------------------------------------------------
\* The end of a supervisor gives up its lock, its child and its record's claim.
LEMMA EndKeeps ==
  ASSUME TInv, NEW p \in Supervisors, End(p), UNCHANGED record,
         faults' \in 0 .. MaxFaults
  PROVE  TInv'
<1> USE NoOneAssumption, BackoffAssumption DEF TInv, End, GoTo
<1>1. TunnelTypeOK'
  BY DEF TunnelTypeOK, Steps
<1>2. Custody'
  BY DEF TunnelTypeOK, Custody, Steps
<1>3. Recorded'
  BY DEF TunnelTypeOK, Custody, Recorded, RecordOfTheServer, Steps
<1>4. QED
  BY <1>1, <1>2, <1>3

\* Once the child has been waited for it may be forgotten.
LEMMA ReapKeeps ==
  ASSUME TInv, NEW p \in Supervisors, Reap(p), NEW step \in Steps, GoTo(p, step),
         sup[p] \in {"poll", "stopping", "finally"},
         \/ step \in {"retry", "finally"} /\ UNCHANGED record
         \/ step = "unlock" /\ write_state(p, "stopped")
  PROVE  TInv'
<1> USE NoOneAssumption, BackoffAssumption DEF TInv, Reap, GoTo, write_state
<1>1. TunnelTypeOK'
  BY DEF TunnelTypeOK, Steps
<1>2. Custody'
  BY DEF TunnelTypeOK, Custody, Steps
<1>3. Recorded'
  BY DEF TunnelTypeOK, Custody, Recorded, RecordOfTheServer, Steps
<1>4. QED
  BY <1>1, <1>2, <1>3

-----------------------------------------------------------------------------
\* The steps of a supervisor that do not wait for its child.
LEMMA SupervisorKeeps ==
  ASSUME TInv, NEW p \in Supervisors, Supervisor(p)
  PROVE  TInv'
<1> USE NoOneAssumption, BackoffAssumption, FaultsAssumption
<1>1. CASE Lock(p)
  <2>1. CASE End(p)
    BY <1>1, <2>1, EndKeeps DEF Lock, TInv, TunnelTypeOK
  <2>2. CASE flock = NoOne /\ flock' = p /\ GoTo(p, "handlers")
               /\ UNCHANGED <<stop, child, sig, backoff, sshVars>>
    <3> USE <1>1, <2>2 DEF Lock, GoTo, TInv, sshVars
    <3>1. TunnelTypeOK'
      BY DEF TunnelTypeOK, Steps
    <3>2. Custody'
      BY DEF TunnelTypeOK, Custody, Steps
    <3>3. Recorded'
      BY DEF TunnelTypeOK, Custody, Recorded, RecordOfTheServer, Steps
    <3>4. QED
      BY <3>1, <3>2, <3>3
  <2>3. QED
    BY <1>1, <2>1, <2>2 DEF Lock
<1>2. CASE InstallHandlers(p)
  <2> USE <1>2 DEF InstallHandlers, GoTo, TInv, sshVars
  <2>1. TunnelTypeOK'
    BY DEF TunnelTypeOK, Steps
  <2>2. Custody'
    BY DEF TunnelTypeOK, Custody, Steps
  <2>3. Recorded'
    BY DEF TunnelTypeOK, Custody, Recorded, RecordOfTheServer, Steps
  <2>4. QED
    BY <2>1, <2>2, <2>3
<1>3. CASE Spawn(p)
  <2> USE <1>3 DEF Spawn, GoTo, TInv, sshVars
  <2>1. TunnelTypeOK'
    BY DEF TunnelTypeOK, Steps
  <2>2. Custody'
    BY DEF TunnelTypeOK, Custody, Steps
  <2>3. Recorded'
    BY DEF TunnelTypeOK, Custody, Recorded, RecordOfTheServer, Steps
  <2>4. QED
    BY <2>1, <2>2, <2>3
<1>4. CASE RecordConnected(p)
  <2> USE <1>4 DEF RecordConnected, GoTo, TInv, sshVars, write_state
  <2>1. TunnelTypeOK'
    BY DEF TunnelTypeOK, Steps
  <2>2. Custody'
    BY DEF TunnelTypeOK, Custody, Steps
  <2>3. Recorded'
    BY DEF TunnelTypeOK, Custody, Recorded, RecordOfTheServer, Steps
  <2>4. QED
    BY <2>1, <2>2, <2>3
<1>5. CASE SshGone(p)
  BY <1>5, ReapKeeps DEF SshGone, Steps
<1>6. CASE SeeStop(p)
  <2> USE <1>6 DEF SeeStop, GoTo, TInv, sshVars
  <2>1. TunnelTypeOK'
    BY DEF TunnelTypeOK, Steps
  <2>2. Custody'
    BY DEF TunnelTypeOK, Custody, Steps
  <2>3. Recorded'
    BY DEF TunnelTypeOK, Custody, Recorded, RecordOfTheServer, Steps
  <2>4. QED
    BY <2>1, <2>2, <2>3
<1>7. CASE RecordReconnecting(p)
  <2> USE <1>7 DEF RecordReconnecting, GoTo, TInv, sshVars, write_state
  <2>1. TunnelTypeOK'
    BY DEF TunnelTypeOK, Steps
  <2>2. Custody'
    BY DEF TunnelTypeOK, Custody, Steps
  <2>3. Recorded'
    BY DEF TunnelTypeOK, Custody, Recorded, RecordOfTheServer, Steps
  <2>4. QED
    BY <2>1, <2>2, <2>3
<1>8. CASE Pause(p)
  <2> USE <1>8 DEF Pause, GoTo, TInv, sshVars
  <2>1. TunnelTypeOK'
    BY DEF TunnelTypeOK, Steps
  <2>2. Custody'
    BY DEF TunnelTypeOK, Custody, Steps
  <2>3. Recorded'
    BY DEF TunnelTypeOK, Custody, Recorded, RecordOfTheServer, Steps
  <2>4. QED
    BY <2>1, <2>2, <2>3
<1>9. CASE Terminate(p)
  <2> USE <1>9 DEF Terminate, GoTo, TInv, sshVars, InStopChild, Clings
  <2>1. TunnelTypeOK'
    BY DEF TunnelTypeOK, Steps
  <2>2. Custody'
    BY DEF TunnelTypeOK, Custody, Steps
  <2>3. Recorded'
    BY DEF TunnelTypeOK, Custody, Recorded, RecordOfTheServer, Steps
  <2>4. QED
    BY <2>1, <2>2, <2>3
<1>10. CASE Kill(p)
  <2> USE <1>10 DEF Kill, GoTo, TInv, sshVars, InStopChild, Clings
  <2>1. TunnelTypeOK'
    BY DEF TunnelTypeOK, Steps
  <2>2. Custody'
    BY DEF TunnelTypeOK, Custody, Steps
  <2>3. Recorded'
    BY DEF TunnelTypeOK, Custody, Recorded, RecordOfTheServer, Steps
  <2>4. QED
    BY <2>1, <2>2, <2>3
<1>11. CASE GiveUp(p)
  <2>1. CASE End(p)
    BY <1>11, <2>1, EndKeeps DEF GiveUp, TInv, TunnelTypeOK
  <2>2. CASE sup[p] = "stopping" /\ GoTo(p, "finally")
               /\ UNCHANGED <<stop, child, sig, backoff, flock, sshVars>>
    <3> USE <1>11, <2>2 DEF GiveUp, GoTo, TInv, sshVars
    <3>1. TunnelTypeOK'
      BY DEF TunnelTypeOK, Steps
    <3>2. Custody'
      BY DEF TunnelTypeOK, Custody, Steps
    <3>3. Recorded'
      BY DEF TunnelTypeOK, Custody, Recorded, RecordOfTheServer, Steps
    <3>4. QED
      BY <3>1, <3>2, <3>3
  <2>3. QED
    BY <1>11, <2>1, <2>2 DEF GiveUp
<1>12. CASE StopReturns(p)
  BY <1>12, ReapKeeps DEF StopReturns, Steps
<1>13. CASE RecordStopped(p)
  BY <1>13, ReapKeeps DEF RecordStopped, Steps
<1>14. CASE Return(p)
  BY <1>14, EndKeeps DEF Return, TInv, TunnelTypeOK
<1>15. QED
  BY <1>1, <1>2, <1>3, <1>4, <1>5, <1>6, <1>7, <1>8, <1>9, <1>10, <1>11, <1>12, <1>13, <1>14 DEF Supervisor

\* Signals, kills and failing calls.
LEMMA FaultKeeps ==
  ASSUME TInv, NEW p \in Supervisors, Fault(p)
  PROVE  TInv'
<1> USE NoOneAssumption, BackoffAssumption, FaultsAssumption
<1>1. faults' \in 0 .. MaxFaults
  BY DEF Fault, StopSignal, Killed, SpawnFails, WriteFails, CountFault, TInv,
         TunnelTypeOK
<1>2. CASE End(p) /\ UNCHANGED record
  BY <1>1, <1>2, EndKeeps
<1>3. CASE /\ UNCHANGED <<child, sig, backoff, flock, record, sshVars>>
           /\ stop' \in {stop, [stop EXCEPT ![p] = TRUE]}
           /\ \/ sup' = sup
              \/ sup[p] = "loop" /\ GoTo(p, "retry")
              \/ /\ sup[p] \in {"loop", "connected", "poll", "stopping", "retry"}
                 /\ GoTo(p, "finally")
  <2> USE <1>1, <1>3 DEF GoTo, TInv, sshVars
  <2>1. TunnelTypeOK'
    BY DEF TunnelTypeOK, Steps
  <2>2. Custody'
    BY DEF TunnelTypeOK, Custody, Steps
  <2>3. Recorded'
    BY DEF TunnelTypeOK, Custody, Recorded, RecordOfTheServer, Steps
  <2>4. QED
    BY <2>1, <2>2, <2>3
<1>4. QED
  BY <1>2, <1>3 DEF Fault, StopSignal, Killed, SpawnFails, WriteFails

\* ssh and the relay.
LEMMA SshKeeps ==
  ASSUME TInv, (\E c \in Sshs : Connect(c) \/ SshExit(c)) \/ RelayNotices
  PROVE  TInv'
<1> USE NoOneAssumption DEF TInv, Connect, SshExit, RelayNotices, Running, supVars
<1>1. TunnelTypeOK'
  BY DEF TunnelTypeOK
<1>2. Custody'
  BY DEF TunnelTypeOK, Custody
<1>3. Recorded'
  BY DEF TunnelTypeOK, Recorded, RecordOfTheServer
<1>4. QED
  BY <1>1, <1>2, <1>3

\* A new supervisor process, or nothing but the fault count, changes no claim.
LEMMA FrameKeeps ==
  ASSUME TInv, UNCHANGED <<stop, child, sig, backoff, flock, record, sshVars>>,
         faults' \in 0 .. MaxFaults,
         sup' = sup \/ \E p \in Supervisors : Exec(p)
  PROVE  TInv'
<1> USE NoOneAssumption DEF TInv, Exec, GoTo, sshVars
<1>1. TunnelTypeOK'
  BY DEF TunnelTypeOK, Steps
<1>2. Custody'
  BY DEF TunnelTypeOK, Custody, Steps
<1>3. Recorded'
  BY DEF TunnelTypeOK, Recorded, RecordOfTheServer, Steps
<1>4. QED
  BY <1>1, <1>2, <1>3

-----------------------------------------------------------------------------
\* The tunnel's invariant holds whatever the starters do.
THEOREM TunnelInvariant == Spec => []TInv
<1>1. Init => TInv
  BY NoOneAssumption, BackoffAssumption, FaultsAssumption
  DEF Init, TunnelInit, TInv, TunnelTypeOK, Custody, Recorded,
      RecordOfTheServer, Steps
<1>2. TInv /\ [Next]_vars => TInv'
  <2> SUFFICES ASSUME TInv, [Next]_vars PROVE TInv'
    OBVIOUS
  <2>0. faults \in 0 .. MaxFaults
    BY DEF TInv, TunnelTypeOK
  <2>1. CASE Tunnel
    BY <2>1, SupervisorKeeps, FaultKeeps, SshKeeps DEF Tunnel, TunnelNext
  <2>2. ASSUME NEW s \in Starters, Start(s) \/ Starter(s) \/ Abort(s)
        PROVE  TInv'
    <3>1. CASE LaunchSupervisor(s)
      BY <2>0, <3>1, FrameKeeps DEF LaunchSupervisor
    <3>2. CASE UNCHANGED tunnelVars
      BY <2>0, <3>2, FrameKeeps DEF tunnelVars, supVars
    <3>3. QED
      BY <2>2, <3>1, <3>2
      DEF Start, Starter, Abort, TakeLock, Probe, LaunchAdapter, WaitHealthy,
          PollAdapter, ReadRecord, Verify
  <2>3. ASSUME NEW a \in Adapters, Adapter(a)
        PROVE  TInv'
    <3>1. faults' \in 0 .. MaxFaults
      BY <2>0, <2>3, FaultsAssumption
      DEF Adapter, Bind, BindFails, AdapterDies, CountFault, tunnelVars
    <3>2. UNCHANGED <<supVars, flock, record, sshVars>>
      BY <2>3 DEF Adapter, Bind, BindFails, AdapterDies, tunnelVars
    <3>3. QED
      BY <3>1, <3>2, FrameKeeps DEF supVars
  <2>4. CASE UNCHANGED vars
    BY <2>0, <2>4, FrameKeeps DEF vars, tunnelVars, supVars
  <2>5. QED
    BY <2>1, <2>2, <2>3, <2>4 DEF Next
<1>3. QED
  BY <1>1, <1>2, PTL DEF Spec

\* No two running ssh processes have a running supervisor: the relay sees one
\* client, but for orphans of supervisors that were killed.
THEOREM OneSsh == Spec => []OneSupervisedSsh
<1>1. TInv => OneSupervisedSsh
  BY NoOneAssumption
  DEF TInv, TunnelTypeOK, Custody, OneSupervisedSsh, Running
<1>2. QED
  BY <1>1, TunnelInvariant, PTL

\* "stopped" is only on disk when the supervisor's ssh has ended.
THEOREM StoppedClean == Spec => []StoppedLeavesNoSsh
<1>1. TInv => StoppedLeavesNoSsh
  BY NoOneAssumption
  DEF TInv, TunnelTypeOK, Custody, Recorded, StoppedLeavesNoSsh, Steps
<1>2. QED
  BY <1>1, TunnelInvariant, PTL

\* remote-connect.json is the serving supervisor's own.
THEOREM RecordIsOwn == Spec => []RecordOfTheServer
<1>1. TInv => RecordOfTheServer
  BY DEF TInv, Recorded
<1>2. QED
  BY <1>1, TunnelInvariant, PTL

-----------------------------------------------------------------------------
\* A starter past flock holds startup.lock.
Admitted ==
  \A s \in Starters : todo[s] \notin {"idle", "ready", "lock"} => lock = s

StarterTypeOK ==
  /\ lock \in Starters \union {NoOne}
  /\ todo \in [Starters -> Todos]
  /\ kid \in [Starters -> Adapters \union Supervisors \union {NoOne}]
  /\ probes \in [Starters -> 0 .. MaxProbes-1]
  /\ adapter \in [Adapters -> {"none", "starting", "bound"}]

SInv == StarterTypeOK /\ Admitted

\* The lock and the types of the starters are kept.
LEMMA StarterInvariant == Spec => []SInv
<1> USE NoOneAssumption, NoStarterAssumption, ProbesAssumption
<1>1. Init => SInv
  BY DEF Init, SInv, StarterTypeOK, Admitted, Todos
<1>2. SInv /\ [Next]_vars => SInv'
  <2> SUFFICES ASSUME SInv, [Next]_vars PROVE SInv'
    OBVIOUS
  <2>1. CASE UNCHANGED <<starterVars, adapter>>
    BY <2>1 DEF SInv, StarterTypeOK, Admitted, starterVars
  <2>2. ASSUME NEW s \in Starters, Start(s) \/ Starter(s) \/ Abort(s)
        PROVE  SInv'
    <3> USE DEF SInv
    <3>1. StarterTypeOK'
      BY <2>2
      DEF StarterTypeOK, Todos, Do, Leave, Start, Starter, Abort, TakeLock,
          Probe, LaunchAdapter, WaitHealthy, PollAdapter, ReadRecord,
          LaunchSupervisor, Verify
    <3>2. Admitted'
      BY <2>2
      DEF StarterTypeOK, Admitted, Do, Leave, Start, Starter, Abort, TakeLock,
          Probe, LaunchAdapter, WaitHealthy, PollAdapter, ReadRecord,
          LaunchSupervisor, Verify
    <3>3. QED
      BY <3>1, <3>2
  <2>3. ASSUME NEW a \in Adapters, Adapter(a)
        PROVE  SInv'
    BY <2>3
    DEF Adapter, Bind, BindFails, AdapterDies, starterVars, SInv, StarterTypeOK,
        Admitted
  <2>4. QED
    BY <2>1, <2>2, <2>3 DEF Next, Tunnel, vars
<1>3. QED
  BY <1>1, <1>2, PTL DEF Spec

\* Every reachable state is well typed.
THEOREM TypeCorrect == Spec => []TypeOK
<1>1. TInv /\ SInv => TypeOK
  BY DEF TInv, SInv, StarterTypeOK, TypeOK
<1>2. QED
  BY <1>1, TunnelInvariant, StarterInvariant, PTL

\* However many starters are run at once, one at a time looks at adapter and
\* supervisor and launches them: startup.lock.
THEOREM StartersExclude ==
  Spec => [](\A s, t \in Starters :
               /\ todo[s] \notin {"idle", "ready", "lock"}
               /\ todo[t] \notin {"idle", "ready", "lock"}
               => s = t)
<1>1. SInv => \A s, t \in Starters :
                /\ todo[s] \notin {"idle", "ready", "lock"}
                /\ todo[t] \notin {"idle", "ready", "lock"}
                => s = t
  BY DEF SInv, Admitted
<1>2. QED
  BY <1>1, StarterInvariant, PTL
=============================================================================
