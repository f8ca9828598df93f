----------------------- MODULE ServerLifecycleProofs -----------------------
(***************************************************************************)
(* Proofs about ServerLifecycle for any number of servers and ports: what  *)
(* stop reports and whom it kills with any number of shells, crashes and   *)
(* pid reuse; and that one shell, whatever faults it meets, forgets no     *)
(* server but those a fault made it lose track of.                         *)
(***************************************************************************)
EXTENDS ServerLifecycle, TLAPS

\* Steps at which srv is the server the command is about.
HasServer ==
  {"record", "ready", "health", "smoke", "cleanup",
   "check", "term", "grace", "kill", "unlink"}

Known(s) == s \in Servers /\ proc[s] # "none"

\* What process.json names, and what was lost, was once started.
NamesKnown ==
  /\ record # NoServer => Known(record)
  /\ \A s \in lost : Known(s)

\* What holds of a shell at each step of its command.
ShellInv(c) ==
  /\ pc[c] \in HasServer \/ said[c] = "stopped" => Known(srv[c])
  /\ pc[c] # "idle" => said[c] = "nothing"
  /\ pc[c] \in {"grace", "kill"} => srv[c] \in termed \/ ~IsRunning(srv[c])
  /\ pc[c] = "unlink" \/ said[c] = "stopped" =>
       ~IsRunning(srv[c]) \/ srv[c] \in killed \/ "proc" \in Faults

\* The inductive invariant for any number of shells.
SharedInv ==
  /\ TypeOK
  /\ NamesKnown
  /\ GraceBeforeKill
  /\ \A c \in Clis : ShellInv(c)

\* A step after which no server runs that had ended and no signal is undone.
Steady ==
  /\ \A s \in Servers : Known(s) => Known(s)' /\ (IsRunning(s)' => IsRunning(s))
  /\ termed \subseteq termed'
  /\ killed \subseteq killed'

\* A step that changes no server and no record, though one may be lost.
Harmless ==
  /\ UNCHANGED <<proc, port, termed, killed, record>>
  /\ lost' = lost \/ \E s \in Servers : Known(s) /\ Lose(s)

-----------------------------------------------------------------------------
LEMMA SharedInit == Init => SharedInv
  BY DEF Init, SharedInv, TypeOK, NamesKnown, ShellInv, GraceBeforeKill, NoServer,
         HasServer, StartSteps, StopSteps

\* A steady step does not disturb a shell that takes no part in it.
LEMMA Bystander ==
  ASSUME NEW d \in Clis, TypeOK, ShellInv(d), Steady,
         pc'[d] = pc[d], srv'[d] = srv[d], said'[d] = said[d]
  PROVE  ShellInv(d)'
<1>1. pc[d] \in HasServer \/ said[d] = "stopped" =>
        /\ Known(srv[d]) /\ Known(srv[d])'
        /\ IsRunning(srv[d])' => IsRunning(srv[d])
  BY DEF ShellInv, Steady, Known, IsRunning
<1> QED
  BY <1>1 DEF ShellInv, Steady, Known, IsRunning, HasServer

\* What is left to show of a step of shell c.
LEMMA StepOf ==
  ASSUME NEW c \in Clis, SharedInv, TypeOK', Steady, NamesKnown', GraceBeforeKill',
         \A d \in Clis \ {c} : pc'[d] = pc[d] /\ srv'[d] = srv[d] /\ said'[d] = said[d],
         ShellInv(c)'
  PROVE  SharedInv'
  BY Bystander DEF SharedInv

\* A step that touches nothing but pc and said of shell c, and lost.
LEMMA QuietStep ==
  ASSUME NEW c \in Clis, SharedInv, Harmless,
         \/ \E step \in StartSteps \union StopSteps : GoTo(c, step)
         \/ \E message \in {"nothing", "started", "stopped", "not running", "error"} :
              Return(c, message),
         ShellInv(c)'
  PROVE  SharedInv'
<1>1. TypeOK'
  BY DEF SharedInv, TypeOK, Harmless, Lose, GoTo, Return
<1>2. Steady /\ NamesKnown' /\ GraceBeforeKill'
  BY DEF SharedInv, Steady, Known, IsRunning, Harmless, Lose, NamesKnown, GraceBeforeKill
<1>3. \A d \in Clis \ {c} : pc'[d] = pc[d] /\ srv'[d] = srv[d] /\ said'[d] = said[d]
  BY DEF SharedInv, TypeOK, GoTo, Return
<1> QED
  BY <1>1, <1>2, <1>3, StepOf

\* The world's steps are steady and leave the shells and the record alone.
LEMMA WorldKeeps == SharedInv /\ World => SharedInv'
<1> SUFFICES ASSUME SharedInv, World PROVE SharedInv'
  OBVIOUS
<1>1. PICK s \in Servers : Bind(s) \/ ServerExit(s) \/ Reap(s) \/ Reuse(s)
  BY DEF World
<1>2. PICK what \in {"ready", "zombie", "gone", "reused"} :
        /\ proc[s] # "none"
        /\ Become(s, what)
        /\ what = "ready" => IsRunning(s)
  BY <1>1 DEF Bind, ServerExit, Reap, Reuse, IsRunning, Running
<1>3. TypeOK'
  BY <1>2 DEF Become, SharedInv, TypeOK, Running, cliVars
<1>4. Steady
  BY <1>2 DEF Become, SharedInv, TypeOK, Steady, Known, IsRunning, Running
<1>5. NamesKnown' /\ GraceBeforeKill'
  BY <1>2 DEF Become, SharedInv, TypeOK, NamesKnown, Known, GraceBeforeKill
<1>6. \A d \in Clis : ShellInv(d)'
  BY <1>2, <1>4, Bystander DEF Become, cliVars, SharedInv
<1> QED
  BY <1>3, <1>5, <1>6 DEF SharedInv

\* Going on quietly is harmless when the new step asks for nothing new.
LEMMA QuietGoTo ==
  ASSUME NEW c \in Clis, NEW step \in StartSteps \union StopSteps,
         SharedInv, Harmless, pc[c] # "idle", GoTo(c, step),
         step \in HasServer => pc[c] \in HasServer,
         step \in {"grace", "kill"} => pc[c] \in {"grace", "kill"},
         step = "unlink" => ~IsRunning(srv[c]) \/ "proc" \in Faults
  PROVE  SharedInv'
<1>1. TypeOK /\ ShellInv(c) /\ c \in DOMAIN pc
  BY DEF SharedInv, TypeOK
<1>2. ShellInv(c)'
  BY <1>1 DEF GoTo, ShellInv, Known, IsRunning, Harmless
<1> QED
  BY <1>2, QuietStep

\* Returning quietly is harmless when nothing is claimed about a server.
LEMMA QuietReturn ==
  ASSUME NEW c \in Clis, NEW message \in {"nothing", "started", "not running", "error"},
         SharedInv, Harmless, Return(c, message)
  PROVE  SharedInv'
<1>1. TypeOK /\ c \in DOMAIN pc /\ c \in DOMAIN said
  BY DEF SharedInv, TypeOK
<1>2. ShellInv(c)'
  BY <1>1 DEF Return, ShellInv, HasServer
<1> QED
  BY <1>2, QuietStep

\* Every step of start preserves the invariant.
LEMMA StartKeeps ==
  ASSUME NEW c \in Clis, SharedInv, Start(c)
  PROVE  SharedInv'
<1>0. /\ TypeOK /\ NamesKnown /\ GraceBeforeKill /\ ShellInv(c)
      /\ c \in DOMAIN pc /\ c \in DOMAIN srv /\ c \in DOMAIN said
  BY DEF SharedInv, TypeOK
<1>1. CASE StartOwned(c) \/ StartRefused(c) \/ port_available(c)
  <2>1. GoTo(c, "port") \/ GoTo(c, "spawn") \/ Return(c, "error")
    BY <1>1 DEF StartOwned, StartRefused, port_available
  <2>2. pc[c] # "idle" /\ Harmless
    <3>1. Misread(record) => Known(record) /\ record \in Servers
      BY <1>0 DEF Misread, owns_process, NamesKnown, Known
    <3> QED
      BY <1>1, <3>1 DEF StartOwned, StartRefused, port_available, Harmless, serverVars
  <2> QED
    BY <2>1, <2>2, QuietGoTo, QuietReturn DEF StartSteps, HasServer
<1>2. CASE ChildAlive(c) \/ Health(c) \/ ReadyTimeout(c) \/ SmokePassed(c) \/ SmokeFailed(c)
  <2>1. \/ GoTo(c, "health") \/ GoTo(c, "smoke") \/ GoTo(c, "ready")
        \/ GoTo(c, "cleanup") \/ Return(c, "started")
    BY <1>2 DEF ChildAlive, Health, ReadyTimeout, SmokePassed, SmokeFailed
  <2>2. pc[c] \in {"ready", "health", "smoke"} /\ Harmless
    BY <1>2 DEF ChildAlive, Health, ReadyTimeout, SmokePassed, SmokeFailed, Harmless,
       serverVars
  <2> QED
    BY <2>1, <2>2, QuietGoTo, QuietReturn DEF StartSteps, HasServer
<1>3. CASE Spawn(c)
  <2>1. PICK s \in Unspawned :
          /\ proc' = [proc EXCEPT ![s] = "loading"]
          /\ port' = [port EXCEPT ![s] = want[c]]
          /\ srv' = [srv EXCEPT ![c] = s]
    BY <1>3 DEF Spawn
  <2>2. s \in Servers /\ proc[s] = "none" /\ proc'[s] = "loading"
    BY <2>1, <1>0 DEF Unspawned, TypeOK
  <2>3. /\ pc[c] = "spawn" /\ pc' = [pc EXCEPT ![c] = "record"]
        /\ UNCHANGED <<termed, killed, lost, record, want, said>>
    BY <1>3 DEF Spawn
  <2>4. TypeOK'
    BY <1>0, <2>1, <2>2, <2>3 DEF TypeOK, Running, StartSteps
  <2>5. Steady
    BY <1>0, <2>1, <2>2, <2>3 DEF TypeOK, Steady, Known, IsRunning
  <2>6. NamesKnown' /\ GraceBeforeKill'
    BY <1>0, <2>1, <2>2, <2>3 DEF TypeOK, NamesKnown, Known, GraceBeforeKill
  <2>7. ShellInv(c)'
    BY <1>0, <2>1, <2>2, <2>3 DEF ShellInv, Known
  <2> QED
    BY <1>0, <2>1, <2>3, <2>4, <2>5, <2>6, <2>7, StepOf DEF TypeOK
<1>4. CASE Record(c)
  <2>1. /\ pc[c] = "record" /\ record' = srv[c] /\ GoTo(c, "ready")
        /\ UNCHANGED serverVars
    BY <1>4 DEF Record
  <2>2. Known(srv[c]) /\ srv[c] \in Servers
    BY <1>0, <2>1 DEF ShellInv, HasServer, Known
  <2>3. TypeOK'
    BY <1>0, <2>1, <2>2 DEF TypeOK, GoTo, serverVars, StartSteps
  <2>4. Steady /\ NamesKnown' /\ GraceBeforeKill'
    BY <1>0, <2>1, <2>2 DEF Steady, Known, IsRunning, serverVars, NamesKnown, GraceBeforeKill
  <2>5. ShellInv(c)'
    BY <1>0, <2>1, <2>2 DEF ShellInv, Known, GoTo, serverVars
  <2>6. \A d \in Clis \ {c} : pc'[d] = pc[d] /\ srv'[d] = srv[d] /\ said'[d] = said[d]
    BY <1>0, <2>1 DEF TypeOK, GoTo
  <2> QED
    BY <2>3, <2>4, <2>5, <2>6, StepOf
<1>5. CASE ChildDied(c)
  <2>1. /\ pc[c] = "ready" /\ Return(c, "error")
        /\ proc[srv[c]] = "zombie" /\ proc' = [proc EXCEPT ![srv[c]] = "gone"]
        /\ UNCHANGED <<port, termed, killed, lost, record>>
    BY <1>5 DEF ChildDied
  <2>2. TypeOK'
    BY <1>0, <2>1 DEF TypeOK, Return
  <2>3. Steady /\ NamesKnown' /\ GraceBeforeKill'
    BY <1>0, <2>1 DEF TypeOK, Steady, Known, IsRunning, Running, NamesKnown, GraceBeforeKill
  <2>4. ShellInv(c)'
    BY <1>0, <2>1 DEF ShellInv, Return, HasServer
  <2>5. \A d \in Clis \ {c} : pc'[d] = pc[d] /\ srv'[d] = srv[d] /\ said'[d] = said[d]
    BY <1>0, <2>1 DEF TypeOK, Return
  <2> QED
    BY <2>2, <2>3, <2>4, <2>5, StepOf
<1>6. CASE Cleanup(c)
  <2>1. /\ pc[c] = "cleanup" /\ Return(c, "error")
        /\ termed \subseteq termed' /\ termed' \subseteq termed \union {srv[c]}
        /\ UNCHANGED <<proc, port, killed, lost, record>>
    BY <1>6 DEF Cleanup
  <2>2. srv[c] \in Servers
    BY <1>0, <2>1 DEF ShellInv, HasServer, Known
  <2>3. TypeOK'
    BY <1>0, <2>1, <2>2 DEF TypeOK, Return
  <2>4. Steady /\ NamesKnown' /\ GraceBeforeKill'
    BY <1>0, <2>1 DEF Steady, Known, IsRunning, NamesKnown, GraceBeforeKill
  <2>5. ShellInv(c)'
    BY <1>0, <2>1 DEF ShellInv, Return, HasServer
  <2>6. \A d \in Clis \ {c} : pc'[d] = pc[d] /\ srv'[d] = srv[d] /\ said'[d] = said[d]
    BY <1>0, <2>1 DEF TypeOK, Return
  <2> QED
    BY <2>3, <2>4, <2>5, <2>6, StepOf
<1>7. CASE NoStarttime(c) \/ RecordFails(c)
  <2>1. /\ pc[c] = "record" /\ Return(c, "error") /\ Lose(srv[c])
        /\ termed \subseteq termed' /\ termed' \subseteq termed \union {srv[c]}
        /\ UNCHANGED <<proc, port, killed, record>>
    BY <1>7 DEF NoStarttime, RecordFails
  <2>2. srv[c] \in Servers /\ Known(srv[c])
    BY <1>0, <2>1 DEF ShellInv, HasServer, Known
  <2>3. TypeOK'
    BY <1>0, <2>1, <2>2 DEF TypeOK, Return, Lose
  <2>4. Steady /\ NamesKnown' /\ GraceBeforeKill'
    BY <1>0, <2>1, <2>2 DEF Steady, Known, IsRunning, NamesKnown, GraceBeforeKill, Lose
  <2>5. ShellInv(c)'
    BY <1>0, <2>1 DEF ShellInv, Return, HasServer
  <2>6. \A d \in Clis \ {c} : pc'[d] = pc[d] /\ srv'[d] = srv[d] /\ said'[d] = said[d]
    BY <1>0, <2>1 DEF TypeOK, Return
  <2> QED
    BY <2>3, <2>4, <2>5, <2>6, StepOf
<1> QED
  BY <1>1, <1>2, <1>3, <1>4, <1>5, <1>6, <1>7 DEF Start

\* Every step of stop preserves the invariant.
LEMMA StopKeeps ==
  ASSUME NEW c \in Clis, SharedInv, Stop(c)
  PROVE  SharedInv'
<1>0. /\ TypeOK /\ NamesKnown /\ GraceBeforeKill /\ ShellInv(c)
      /\ c \in DOMAIN pc /\ c \in DOMAIN srv /\ c \in DOMAIN said
  BY DEF SharedInv, TypeOK
<1>1. CASE StopRead(c)
  <2>1. pc[c] = "read" /\ UNCHANGED <<serverVars, record>>
    BY <1>1 DEF StopRead
  <2>2. CASE Return(c, "not running") \/ Return(c, "error")
    BY <2>1, <2>2, QuietReturn DEF Harmless, serverVars
  <2>3. CASE /\ record # NoServer
             /\ pc' = [pc EXCEPT ![c] = "check"] /\ srv' = [srv EXCEPT ![c] = record]
             /\ UNCHANGED <<want, said>>
    <3>1. /\ pc' = [pc EXCEPT ![c] = "check"] /\ srv' = [srv EXCEPT ![c] = record]
          /\ UNCHANGED <<want, said>>
      BY <2>3
    <3>2. Known(record)
      BY <1>0, <2>3 DEF NamesKnown
    <3>3. TypeOK'
      BY <1>0, <2>1, <3>1 DEF TypeOK, serverVars, StopSteps
    <3>4. Steady /\ NamesKnown' /\ GraceBeforeKill'
      BY <1>0, <2>1 DEF Steady, Known, IsRunning, serverVars, NamesKnown, GraceBeforeKill
    <3>5. ShellInv(c)'
      BY <1>0, <2>1, <3>1, <3>2 DEF ShellInv, Known, serverVars
    <3> QED
      BY <1>0, <3>1, <3>3, <3>4, <3>5, StepOf DEF TypeOK
  <2> QED
    BY <1>1, <2>2, <2>3 DEF StopRead
<1>2. CASE StopCheck(c)
  <2>1. pc[c] = "check" /\ Harmless
    BY <1>2 DEF StopCheck, Harmless, serverVars
  <2>2. GoTo(c, "term") \/ Return(c, "not running")
    BY <1>2 DEF StopCheck
  <2> QED
    BY <2>1, <2>2, QuietGoTo, QuietReturn DEF StopSteps, HasServer
<1>3. CASE Grace(c)
  <2>1. pc[c] = "grace" /\ Harmless
    <3>1. pc[c] = "grace" => Known(srv[c]) /\ srv[c] \in Servers
      BY <1>0 DEF ShellInv, HasServer, Known
    <3> QED
      BY <1>3, <3>1 DEF Grace, Harmless
  <2>2. \/ GoTo(c, "kill")
        \/ GoTo(c, "unlink") /\ (~owns_process(srv[c]) \/ "proc" \in Faults)
    BY <1>3 DEF Grace, Misread
  <2>3. ~owns_process(srv[c]) => ~IsRunning(srv[c])
    BY <1>0, <2>1 DEF owns_process, IsRunning, ShellInv, HasServer, Known, Servers, NoServer
  <2> QED
    BY <2>1, <2>2, <2>3, QuietGoTo, QuietReturn DEF StopSteps, HasServer
<1>4. CASE Terminate(c)
  <2>1. /\ pc[c] = "term"
        /\ GoTo(c, "grace") \/ Return(c, "error")
        /\ termed' = IF IsRunning(srv[c]) THEN termed \union {srv[c]} ELSE termed
        /\ UNCHANGED <<proc, port, killed, lost, record>>
    BY <1>4 DEF Terminate
  <2>2. Known(srv[c])
    BY <1>0, <2>1 DEF ShellInv, HasServer
  <2>3. TypeOK'
    BY <1>0, <2>1, <2>2 DEF TypeOK, GoTo, Return, Known, StopSteps
  <2>4. Steady /\ NamesKnown' /\ GraceBeforeKill'
    BY <1>0, <2>1 DEF Steady, Known, IsRunning, NamesKnown, GraceBeforeKill
  <2>5. ShellInv(c)'
    <3>1. CASE GoTo(c, "grace")
      BY <1>0, <2>1, <2>2, <3>1 DEF GoTo, ShellInv, Known, IsRunning
    <3>2. CASE Return(c, "error")
      BY <1>0, <2>1, <3>2 DEF Return, ShellInv, HasServer
    <3> QED
      BY <2>1, <3>1, <3>2
  <2>6. \A d \in Clis \ {c} : pc'[d] = pc[d] /\ srv'[d] = srv[d] /\ said'[d] = said[d]
    BY <1>0, <2>1 DEF TypeOK, Return, GoTo
  <2> QED
    BY <2>3, <2>4, <2>5, <2>6, StepOf
<1>5. CASE Kill(c)
  <2>1. /\ pc[c] = "kill"
        /\ GoTo(c, "unlink") \/ Return(c, "error")
        /\ IF IsRunning(srv[c])
             THEN /\ proc' = [proc EXCEPT ![srv[c]] = "dying"]
                  /\ killed' = killed \union {srv[c]}
             ELSE UNCHANGED <<proc, killed>>
        /\ UNCHANGED <<port, termed, lost, record>>
    BY <1>5 DEF Kill
  <2>2. Known(srv[c])
    BY <1>0, <2>1 DEF ShellInv, HasServer
  <2>3. TypeOK'
    <3>1. /\ proc' \in [Servers -> Running \union {"none", "zombie", "gone", "reused"}]
          /\ killed' \subseteq Servers
      BY <1>0, <2>1, <2>2 DEF TypeOK, Known, Running
    <3>2. /\ pc' \in [Clis -> StartSteps \union StopSteps \union {"idle"}]
          /\ srv' = srv /\ want' = want
          /\ said' \in [Clis -> {"nothing", "started", "stopped", "not running", "error"}]
      BY <1>0, <2>1 DEF TypeOK, GoTo, Return, StopSteps
    <3> QED
      BY <1>0, <2>1, <3>1, <3>2 DEF TypeOK
  <2>4. Steady
    BY <1>0, <2>1, <2>2 DEF TypeOK, Steady, Known, IsRunning
  <2>5. NamesKnown'
    BY <1>0, <2>1, <2>2 DEF TypeOK, NamesKnown, Known
  <2>6. GraceBeforeKill'
    BY <1>0, <2>1 DEF GraceBeforeKill, ShellInv
  <2>7. ShellInv(c)'
    <3>1. CASE GoTo(c, "unlink")
      BY <1>0, <2>1, <2>2, <3>1 DEF TypeOK, GoTo, ShellInv, Known, IsRunning
    <3>2. CASE Return(c, "error")
      BY <1>0, <2>1, <3>2 DEF Return, ShellInv, HasServer
    <3> QED
      BY <2>1, <3>1, <3>2
  <2>8. \A d \in Clis \ {c} : pc'[d] = pc[d] /\ srv'[d] = srv[d] /\ said'[d] = said[d]
    BY <1>0, <2>1 DEF TypeOK, Return, GoTo
  <2> QED
    BY <2>3, <2>4, <2>5, <2>6, <2>7, <2>8, StepOf
<1>6. CASE Unlink(c)
  <2>1. /\ pc[c] = "unlink" /\ UNCHANGED serverVars
        /\ \/ Return(c, "stopped") /\ record' = NoServer
           \/ Return(c, "error") /\ record' = record
    BY <1>6 DEF Unlink
  <2>2. TypeOK'
    BY <1>0, <2>1 DEF TypeOK, Return, serverVars
  <2>3. Steady /\ NamesKnown' /\ GraceBeforeKill'
    BY <1>0, <2>1 DEF Steady, Known, IsRunning, serverVars, NamesKnown, GraceBeforeKill
  <2>4. ShellInv(c)'
    BY <1>0, <2>1 DEF ShellInv, Return, HasServer, Known, IsRunning, serverVars
  <2>5. \A d \in Clis \ {c} : pc'[d] = pc[d] /\ srv'[d] = srv[d] /\ said'[d] = said[d]
    BY <1>0, <2>1 DEF TypeOK, Return
  <2> QED
    BY <2>2, <2>3, <2>4, <2>5, StepOf
<1> QED
  BY <1>1, <1>2, <1>3, <1>4, <1>5, <1>6 DEF Stop

\* So do the beginning and the violent end of a command.
LEMMA ShellKeeps ==
  ASSUME NEW c \in Clis, SharedInv, StartCommand(c) \/ StopCommand(c) \/ Crash(c)
  PROVE  SharedInv'
<1>0. TypeOK /\ NamesKnown /\ GraceBeforeKill /\ ShellInv(c)
  BY DEF SharedInv
<1>1. CASE StartCommand(c) \/ StopCommand(c)
  <2>1. /\ \/ pc' = [pc EXCEPT ![c] = "owned"]
           \/ pc' = [pc EXCEPT ![c] = "read"]
        /\ srv' = [srv EXCEPT ![c] = NoServer]
        /\ \E p \in Ports \union {NoPort} : want' = [want EXCEPT ![c] = p]
        /\ said' = [said EXCEPT ![c] = "nothing"]
        /\ UNCHANGED <<serverVars, record>>
    BY <1>1 DEF StartCommand, StopCommand
  <2>2. TypeOK'
    BY <1>0, <2>1 DEF TypeOK, serverVars, StartSteps, StopSteps
  <2>3. Steady /\ NamesKnown' /\ GraceBeforeKill'
    BY <1>0, <2>1 DEF Steady, Known, IsRunning, serverVars, NamesKnown, GraceBeforeKill
  <2>4. ShellInv(c)'
    BY <1>0, <2>1 DEF TypeOK, ShellInv, HasServer
  <2> QED
    BY <1>0, <2>1, <2>2, <2>3, <2>4, StepOf DEF TypeOK
<1>2. CASE Crash(c)
  <2>1. Harmless
    <3>1. pc[c] = "record" => Known(srv[c]) /\ srv[c] \in Servers
      BY <1>0 DEF ShellInv, HasServer, Known
    <3> QED
      BY <1>2, <3>1 DEF Crash, Harmless, Lose
  <2> QED
    BY <1>2, <2>1, QuietReturn DEF Crash
<1> QED
  BY <1>1, <1>2

LEMMA SharedInductive == SharedInv /\ [Next]_vars => SharedInv'
<1> SUFFICES ASSUME SharedInv, [Next]_vars PROVE SharedInv'
  OBVIOUS
<1>1. CASE UNCHANGED vars
  <2>1. UNCHANGED <<proc, port, termed, killed, lost, record, pc, srv, want, said>>
    BY <1>1 DEF vars, serverVars, cliVars
  <2> QED
    BY <2>1 DEF SharedInv, TypeOK, NamesKnown, GraceBeforeKill, ShellInv, Known, IsRunning
<1> QED
  BY <1>1, WorldKeeps, StartKeeps, StopKeeps, ShellKeeps DEF Next

-----------------------------------------------------------------------------
\* Type correctness, deploy.py start and stop.
THEOREM TypeCorrect == Spec => []TypeOK
<1>1. SharedInv => TypeOK
  BY DEF SharedInv
<1> QED
  BY <1>1, SharedInit, SharedInductive, PTL DEF Spec

\* However many shells start, stop and die, stop reports "stopped" only of a
\* server that has ended or was sent SIGKILL, as long as start times can be read.
THEOREM StoppedTold ==
  ASSUME "proc" \notin Faults
  PROVE  Spec => []StoppedIsStopped
<1>1. SharedInv => StoppedIsStopped
  BY DEF SharedInv, ShellInv, StoppedIsStopped
<1> QED
  BY <1>1, SharedInit, SharedInductive, PTL DEF Spec

\* However many shells start, stop and die, SIGKILL only follows SIGTERM.
THEOREM KilledAfterGrace == Spec => []GraceBeforeKill
<1>1. SharedInv => GraceBeforeKill
  BY DEF SharedInv
<1> QED
  BY <1>1, SharedInit, SharedInductive, PTL DEF Spec

-----------------------------------------------------------------------------
(* One shell, whatever faults it meets. *)

SoleShell == \E c \in Clis : Clis = {c}

\* Lost because its start time could not be read.
Overlooked(s) == s \in lost /\ "proc" \in Faults

\* A running server is lost, the recorded one, or about to be recorded.
NoneForgotten(c) ==
  \A s \in Servers \ lost :
    Live(s) => record = s \/ (pc[c] = "record" /\ srv[c] = s)

\* start only goes on when the recorded server has ended or is overlooked.
RecordEnded(c) ==
  pc[c] \in {"port", "spawn", "record"} => ~owns_process(record) \/ Overlooked(record)

\* start waits for, and stop acts on, what process.json says.
RecordFollowed(c) ==
  /\ pc[c] \in {"ready", "health", "smoke", "cleanup"} \union (StopSteps \ {"read"}) =>
       record = srv[c]
  /\ pc[c] = "unlink" => ~Live(srv[c]) \/ Overlooked(srv[c])

SoleInv ==
  /\ SharedInv
  /\ \A c \in Clis : NoneForgotten(c) /\ RecordEnded(c) /\ RecordFollowed(c)

LEMMA SoleInit == Init => SoleInv
<1> SUFFICES ASSUME Init PROVE SoleInv
  OBVIOUS
<1>1. \A c \in Clis : NoneForgotten(c) /\ RecordEnded(c) /\ RecordFollowed(c)
  BY DEF Init, NoneForgotten, RecordEnded, RecordFollowed, Live, StopSteps
<1> QED
  BY <1>1, SharedInit DEF SoleInv

LEMMA LiveIsOwned ==
  ASSUME NEW s \in Servers, Live(s)
  PROVE  owns_process(s)
  BY DEF Live, owns_process, Running, Servers, NoServer

\* The world starts no server and gives no ended one back.
LEMMA WorldKeepsSole == SoleInv /\ World => SoleInv'
<1> SUFFICES ASSUME SoleInv, World PROVE SoleInv'
  OBVIOUS
<1>1. PICK s \in Servers : Bind(s) \/ ServerExit(s) \/ Reap(s) \/ Reuse(s)
  BY DEF World
<1>2. PICK what \in {"ready", "zombie", "gone", "reused"} :
        /\ Become(s, what)
        /\ what = "ready" => proc[s] = "loading"
        /\ what = "zombie" => IsRunning(s)
  BY <1>1 DEF Bind, ServerExit, Reap, Reuse, IsRunning, Running
<1>3. /\ TypeOK
      /\ UNCHANGED <<record, lost, pc, srv>>
      /\ \A t \in Servers : Live(t)' => Live(t)
      /\ owns_process(record)' => owns_process(record)
  BY <1>2 DEF SoleInv, SharedInv, TypeOK, Become, cliVars, Live, owns_process, IsRunning,
              Running
<1>4. SharedInv'
  BY WorldKeeps DEF SoleInv
<1>5. ASSUME NEW c \in Clis
      PROVE  (NoneForgotten(c) /\ RecordEnded(c) /\ RecordFollowed(c))'
  <2>1. NoneForgotten(c)' /\ RecordEnded(c)'
    BY <1>3 DEF SoleInv, NoneForgotten, RecordEnded, Overlooked
  <2>2. pc[c] = "unlink" => srv[c] \in Servers
    BY DEF SoleInv, SharedInv, ShellInv, HasServer, Known
  <2>3. RecordFollowed(c)'
    BY <1>3, <2>2 DEF SoleInv, RecordFollowed, Live, Overlooked
  <2> QED
    BY <2>1, <2>3
<1> QED
  BY <1>4, <1>5 DEF SoleInv

\* Every step of start keeps the record in step with the server.
LEMMA StartKeepsSole ==
  ASSUME NEW c \in Clis, Clis = {c}, SoleInv, Start(c)
  PROVE  SoleInv'
<1>0. /\ TypeOK /\ ShellInv(c) /\ NoneForgotten(c) /\ RecordEnded(c) /\ RecordFollowed(c)
      /\ c \in DOMAIN pc /\ c \in DOMAIN srv
  BY DEF SoleInv, SharedInv, TypeOK
<1>1. SharedInv'
  BY StartKeeps DEF SoleInv
<1> SUFFICES NoneForgotten(c)' /\ RecordEnded(c)' /\ RecordFollowed(c)'
  BY <1>1 DEF SoleInv
<1>2. CASE StartOwned(c)
  <2>1. /\ pc[c] = "owned"
        /\ UNCHANGED <<proc, record, srv>>
        /\ lost \subseteq lost'
        /\ \/ pc' = [pc EXCEPT ![c] = "idle"]
           \/ /\ pc' = [pc EXCEPT ![c] = "port"]
              /\ ~owns_process(record) \/ Overlooked(record)'
    BY <1>2 DEF StartOwned, GoTo, Return, Misread, Lose, Overlooked
  <2>2. owns_process(record)' = owns_process(record)
    BY <2>1 DEF owns_process
  <2> QED
    BY <1>0, <2>1, <2>2 DEF NoneForgotten, RecordEnded, RecordFollowed, StopSteps, Live
<1>3. CASE StartRefused(c) \/ port_available(c)
  <2>1. /\ pc[c] \in {"owned", "port", "spawn"}
        /\ UNCHANGED <<proc, lost, record, srv>>
        /\ \/ pc' = [pc EXCEPT ![c] = "idle"]
           \/ pc[c] = "port" /\ pc' = [pc EXCEPT ![c] = "spawn"]
    BY <1>3 DEF StartRefused, port_available, GoTo, Return, serverVars
  <2> QED
    BY <1>0, <2>1 DEF NoneForgotten, RecordEnded, RecordFollowed, Overlooked, StopSteps,
       Live, owns_process
<1>4. CASE Spawn(c)
  <2>1. PICK s \in Unspawned :
          /\ proc' = [proc EXCEPT ![s] = "loading"]
          /\ srv' = [srv EXCEPT ![c] = s]
    BY <1>4 DEF Spawn
  <2>2. /\ pc[c] = "spawn" /\ pc' = [pc EXCEPT ![c] = "record"]
        /\ UNCHANGED <<record, lost>>
    BY <1>4 DEF Spawn
  <2>3. \A t \in Servers : Live(t)' => Live(t) \/ t = s
    BY <1>0, <2>1 DEF TypeOK, Live, Unspawned
  <2>4. NoneForgotten(c)'
    BY <1>0, <2>1, <2>2, <2>3 DEF NoneForgotten
  <2>5. record # s
    BY <2>1 DEF SoleInv, SharedInv, NamesKnown, Known, Unspawned, Servers, NoServer
  <2>6. RecordEnded(c)'
    BY <1>0, <2>1, <2>2, <2>5 DEF RecordEnded, Overlooked, owns_process, TypeOK, Unspawned
  <2> QED
    BY <1>0, <2>2, <2>4, <2>6 DEF RecordFollowed, StopSteps
<1>5. CASE Record(c)
  <2>1. /\ pc[c] = "record" /\ record' = srv[c] /\ pc' = [pc EXCEPT ![c] = "ready"]
        /\ UNCHANGED <<proc, lost, srv>>
    BY <1>5 DEF Record, GoTo, serverVars
  <2>2. ASSUME NEW s \in Servers \ lost, Live(s) PROVE srv[c] = s
    BY <1>0, <2>1, <2>2, LiveIsOwned DEF NoneForgotten, RecordEnded, Overlooked
  <2> QED
    BY <1>0, <2>1, <2>2 DEF NoneForgotten, RecordEnded, RecordFollowed, StopSteps, Live
<1>8. CASE NoStarttime(c) \/ RecordFails(c)
  <2>1. /\ pc[c] = "record" /\ pc' = [pc EXCEPT ![c] = "idle"]
        /\ lost' = lost \union {srv[c]}
        /\ UNCHANGED <<proc, record, srv>>
    BY <1>8 DEF NoStarttime, RecordFails, Return, Lose
  <2> QED
    BY <1>0, <2>1 DEF NoneForgotten, RecordEnded, RecordFollowed, StopSteps, Live
<1>6. CASE ChildDied(c)
  BY <1>0, <1>6 DEF ChildDied, Return, NoneForgotten, RecordEnded, RecordFollowed,
     StopSteps, Live, TypeOK
<1>7. CASE ChildAlive(c) \/ Health(c) \/ ReadyTimeout(c) \/ SmokePassed(c) \/ SmokeFailed(c)
           \/ Cleanup(c)
  <2>1. /\ pc[c] \in {"ready", "health", "smoke", "cleanup"}
        /\ UNCHANGED <<proc, lost, record, srv>>
        /\ \E step \in {"ready", "health", "smoke", "cleanup", "idle"} :
             pc' = [pc EXCEPT ![c] = step]
    BY <1>7 DEF ChildAlive, Health, ReadyTimeout, SmokePassed, SmokeFailed, Cleanup, GoTo,
       Return, serverVars
  <2> QED
    BY <1>0, <2>1 DEF NoneForgotten, RecordEnded, RecordFollowed, StopSteps, Live
<1> QED
  BY <1>2, <1>3, <1>4, <1>5, <1>6, <1>7, <1>8 DEF Start

\* Every step of stop keeps the record in step with the server.
LEMMA StopKeepsSole ==
  ASSUME NEW c \in Clis, Clis = {c}, SoleInv, Stop(c)
  PROVE  SoleInv'
<1>0. /\ TypeOK /\ ShellInv(c) /\ NoneForgotten(c) /\ RecordEnded(c) /\ RecordFollowed(c)
      /\ c \in DOMAIN pc /\ c \in DOMAIN srv
  BY DEF SoleInv, SharedInv, TypeOK
<1>1. SharedInv'
  BY StopKeeps DEF SoleInv
<1> SUFFICES NoneForgotten(c)' /\ RecordEnded(c)' /\ RecordFollowed(c)'
  BY <1>1 DEF SoleInv
<1>2. CASE StopRead(c)
  BY <1>0, <1>2 DEF StopRead, Return, serverVars, NoneForgotten, RecordEnded,
     RecordFollowed, StopSteps, Live
<1>3. CASE StopCheck(c) \/ Terminate(c)
  <2>1. /\ pc[c] \in {"check", "term"}
        /\ UNCHANGED <<proc, lost, record, srv>>
        /\ \E step \in {"term", "grace", "idle"} : pc' = [pc EXCEPT ![c] = step]
    BY <1>3 DEF StopCheck, Terminate, GoTo, Return, serverVars
  <2> QED
    BY <1>0, <2>1 DEF NoneForgotten, RecordEnded, RecordFollowed, StopSteps, Live
<1>4. CASE Grace(c)
  <2>1. /\ pc[c] = "grace"
        /\ UNCHANGED <<proc, record, srv>>
        /\ lost \subseteq lost'
        /\ \/ pc' = [pc EXCEPT ![c] = "kill"]
           \/ /\ pc' = [pc EXCEPT ![c] = "unlink"]
              /\ ~owns_process(srv[c]) \/ Overlooked(srv[c])'
    BY <1>4 DEF Grace, GoTo, Misread, Lose, Overlooked
  <2>2. srv[c] \in Servers
    BY <1>0, <2>1 DEF ShellInv, HasServer, Known
  <2> QED
    BY <1>0, <2>1, <2>2, LiveIsOwned DEF NoneForgotten, RecordEnded, RecordFollowed,
       StopSteps, Live
<1>5. CASE Kill(c)
  <2>1. /\ pc[c] = "kill"
        /\ UNCHANGED <<record, lost, srv>>
        /\ \E step \in {"unlink", "idle"} : pc' = [pc EXCEPT ![c] = step]
    BY <1>5 DEF Kill, GoTo, Return
  <2>2. srv[c] \in Servers
    BY <1>0, <2>1 DEF ShellInv, HasServer, Known
  <2>3. ~Live(srv[c])' /\ \A s \in Servers : Live(s)' => Live(s)
    BY <1>0, <1>5, <2>1, <2>2 DEF Kill, TypeOK, Live, IsRunning, Running
  <2> QED
    BY <1>0, <2>1, <2>3 DEF NoneForgotten, RecordEnded, RecordFollowed, StopSteps, Live
<1>6. CASE Unlink(c)
  <2>1. /\ pc[c] = "unlink" /\ pc' = [pc EXCEPT ![c] = "idle"]
        /\ UNCHANGED <<proc, lost, srv>>
        /\ record' \in {record, NoServer}
    BY <1>6 DEF Unlink, Return, serverVars
  <2>2. \A s \in Servers \ lost : ~Live(s)
    BY <1>0, <2>1 DEF NoneForgotten, RecordFollowed, Overlooked, StopSteps, Live
  <2> QED
    BY <1>0, <2>1, <2>2 DEF NoneForgotten, RecordEnded, RecordFollowed, StopSteps, Live
<1> QED
  BY <1>2, <1>3, <1>4, <1>5, <1>6 DEF Stop

LEMMA SoleInductive ==
  ASSUME SoleShell
  PROVE  SoleInv /\ [Next]_vars => SoleInv'
<1> SUFFICES ASSUME SoleInv, [Next]_vars PROVE SoleInv'
  OBVIOUS
<1>0. PICK c \in Clis : Clis = {c}
  BY DEF SoleShell
<1>1. SharedInv'
  BY SharedInductive DEF SoleInv
<1>2. CASE UNCHANGED vars
  <2>1. UNCHANGED <<proc, lost, record, pc, srv>>
    BY <1>2 DEF vars, serverVars, cliVars
  <2> QED
    BY <1>1, <2>1 DEF SoleInv, NoneForgotten, RecordEnded, RecordFollowed, Overlooked, Live,
       owns_process
<1>3. CASE StartCommand(c) \/ StopCommand(c)
  <2>1. /\ pc[c] = "idle"
        /\ UNCHANGED <<proc, lost, record>>
        /\ \E step \in {"owned", "read"} : pc' = [pc EXCEPT ![c] = step]
    BY <1>3 DEF StartCommand, StopCommand, serverVars
  <2>2. c \in DOMAIN pc
    BY DEF SoleInv, SharedInv, TypeOK
  <2>3. NoneForgotten(c)' /\ RecordEnded(c)' /\ RecordFollowed(c)'
    BY <2>1, <2>2 DEF SoleInv, NoneForgotten, RecordEnded, RecordFollowed, StopSteps, Live
  <2> QED
    BY <1>0, <1>1, <2>3 DEF SoleInv
<1>4. CASE Crash(c)
  <2>1. /\ UNCHANGED <<proc, record, srv>>
        /\ pc' = [pc EXCEPT ![c] = "idle"]
        /\ lost \subseteq lost'
        /\ pc[c] = "record" => srv[c] \in lost'
    BY <1>4 DEF Crash, Return
  <2>2. c \in DOMAIN pc
    BY DEF SoleInv, SharedInv, TypeOK
  <2>3. NoneForgotten(c)' /\ RecordEnded(c)' /\ RecordFollowed(c)'
    BY <2>1, <2>2 DEF SoleInv, NoneForgotten, RecordEnded, RecordFollowed, StopSteps, Live
  <2> QED
    BY <1>0, <1>1, <2>3 DEF SoleInv
<1> QED
  BY <1>0, <1>2, <1>3, <1>4, WorldKeepsSole, StartKeepsSole, StopKeepsSole DEF Next

-----------------------------------------------------------------------------
\* With one shell at most one server holds its memory, however many are started
\* and stopped, on whatever ports and whatever fails, but for those a fault made
\* the shell lose track of (lost).
THEOREM NeverTwoServers ==
  ASSUME SoleShell
  PROVE  Spec => []OneServer
<1>1. SoleInv => OneServer
  <2> SUFFICES ASSUME SoleInv, NEW s \in Servers \ lost, NEW t \in Servers \ lost,
                      Live(s), Live(t)
               PROVE  s = t
    BY DEF OneServer
  <2>1. PICK c \in Clis : NoneForgotten(c) /\ RecordEnded(c)
    BY DEF SoleInv, SoleShell
  <2>2. owns_process(s) /\ owns_process(t)
    BY LiveIsOwned
  <2> QED
    BY <2>1, <2>2 DEF NoneForgotten, RecordEnded, Overlooked
<1> QED
  BY <1>1, SoleInit, SoleInductive, PTL DEF Spec

\* With one shell a server that runs between two commands and was not lost is
\* the one process.json names, whatever command failed or was killed before.
THEOREM RunningIsRecorded ==
  ASSUME SoleShell
  PROVE  Spec => []NothingRunsUnrecorded
<1>1. SoleInv => NothingRunsUnrecorded
  <2> SUFFICES ASSUME SoleInv, \A c \in Clis : pc[c] = "idle", NEW s \in Servers \ lost,
                      Wanted(s)
               PROVE  record = s
    BY DEF NothingRunsUnrecorded
  <2>1. PICK c \in Clis : NoneForgotten(c) /\ pc[c] = "idle"
    BY DEF SoleInv, SoleShell
  <2> QED
    BY <2>1 DEF NoneForgotten, Wanted
<1> QED
  BY <1>1, SoleInit, SoleInductive, PTL DEF Spec

\* With one shell start reports a server as started only while that very server
\* answers, however many were started and stopped before it, or while one that
\* the shell lost track of answers on its port.
THEOREM StartedAnswers ==
  ASSUME SoleShell
  PROVE  Spec => StartedIsReady
<1>1. ASSUME SoleInv, [Next]_vars, NEW c \in Clis, said[c] # "started", said'[c] = "started"
      PROVE  \E s \in lost \union {srv[c]} : port[s] = want[c] /\ proc[s] = "ready"
  <2>0. said \in [Clis -> {"nothing", "started", "stopped", "not running", "error"}]
    BY <1>1 DEF SoleInv, SharedInv, TypeOK
  <2>1. PICK d \in Clis : StartCommand(d) \/ StopCommand(d) \/ Start(d) \/ Stop(d) \/ Crash(d)
    BY <1>1 DEF Next, World, Bind, ServerExit, Reap, Reuse, Become, vars, cliVars
  <2>2. SmokePassed(d) /\ c = d
    <3>1. CASE StartCommand(d) \/ StopCommand(d) \/ Crash(d)
      BY <1>1, <2>0, <3>1 DEF StartCommand, StopCommand, Crash, Return
    <3>2. CASE Start(d)
      BY <1>1, <2>0, <3>2 DEF Start, StartOwned, StartRefused, port_available, Spawn, Record,
         NoStarttime, RecordFails, ChildDied, ChildAlive, Health, ReadyTimeout, SmokePassed, SmokeFailed, Cleanup, GoTo, Return
    <3>3. CASE Stop(d)
      BY <1>1, <2>0, <3>3 DEF Stop, StopRead, StopCheck, Terminate, Grace, Kill, Unlink,
         GoTo, Return
    <3> QED
      BY <2>1, <3>1, <3>2, <3>3
  <2>3. pc[c] = "smoke" /\ Answering(want[c])
    BY <2>2 DEF SmokePassed
  <2>4. PICK s \in Servers : port[s] = want[c] /\ proc[s] = "ready"
    BY <2>3 DEF Answering
  <2>5. s \in lost \/ (record = s /\ record = srv[c])
    BY <1>1, <2>3, <2>4 DEF SoleInv, NoneForgotten, RecordFollowed, Live
  <2> QED
    BY <2>4, <2>5
<1>2. SoleInv /\ [Next]_vars =>
        \A c \in Clis : said[c] # "started" /\ said'[c] = "started" =>
          \E s \in lost \union {srv[c]} : port[s] = want[c] /\ proc[s] = "ready"
  BY <1>1
<1> QED
  BY <1>2, SoleInit, SoleInductive, PTL DEF Spec, StartedIsReady

\* With one shell, and as long as start times can be read, the record of a
\* server that runs and was not asked to stop is neither replaced nor removed:
\* but for a misread start time only commands that overlap do that.
THEOREM RecordKept ==
  ASSUME SoleShell, "proc" \notin Faults
  PROVE  Spec => RunningRecordKept
<1>1. ASSUME SoleInv, [Next]_vars, record # NoServer, Wanted(record)
      PROVE  record' = record
  <2> SUFFICES ASSUME record' # record PROVE FALSE
    OBVIOUS
  <2>1. PICK c \in Clis : Record(c) \/ Unlink(c)
    BY <1>1 DEF Next, World, Bind, ServerExit, Reap, Reuse, Become, vars, StartCommand,
       StopCommand, Crash, Start, StartOwned, StartRefused, port_available, Spawn, NoStarttime,
       RecordFails, ChildDied, ChildAlive, Health, ReadyTimeout, SmokePassed, SmokeFailed, Cleanup, Stop, StopRead, StopCheck,
       Terminate, Grace, Kill
  <2>2. Live(record) /\ record \in Servers
    BY <1>1 DEF Wanted, SoleInv, SharedInv, NamesKnown, Known
  <2>3. owns_process(record)
    BY <2>2, LiveIsOwned
  <2>4. RecordEnded(c) /\ RecordFollowed(c)
    BY <1>1 DEF SoleInv
  <2>5. CASE Record(c)
    BY <2>3, <2>4, <2>5 DEF Record, RecordEnded, Overlooked
  <2>6. CASE Unlink(c)
    BY <2>2, <2>4, <2>6 DEF Unlink, RecordFollowed, StopSteps, Overlooked
  <2> QED
    BY <2>1, <2>5, <2>6
<1>2. SoleInv /\ [Next]_vars => (record # NoServer /\ Wanted(record) => record' = record)
  BY <1>1
<1> QED
  BY <1>2, SoleInit, SoleInductive, PTL DEF Spec, RunningRecordKept
=============================================================================
