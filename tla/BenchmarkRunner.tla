--------------------------- MODULE BenchmarkRunner ---------------------------
(***************************************************************************)
(* The benchmark the stage controllers act on: the run_gpqa.py process,    *)
(* the files it writes and the kernel's process table.  None of this is    *)
(* code of the repository; it is what stop_after.py, stop-after-current.py *)
(* and stage_report.py rely on, and is modelled from how they use it.      *)
(*                                                                         *)
(* process.json names one pid.  `holder' is the process that holds that    *)
(* pid now: first the original runner, then nobody, then possibly another  *)
(* process the kernel gave the same number.  Every process has its own     *)
(* start time, so a process stands for its (pid, starttime) identity.      *)
(***************************************************************************)
EXTENDS Integers

CONSTANTS
  N,              \* number of dataset items, cases 0 .. N-1
  Qualities,      \* qualities the runner may first save a result with
  Successors,     \* processes that may be given the recorded pid later
  SpecMayVanish   \* may process.json be unreadable for a while?

ASSUME NAssumption == N \in Nat \ {0}
ASSUME QualitiesAssumption == Qualities \subseteq {"unproven", "alien", "good"}
ASSUME SuccessorsAssumption == Successors \subseteq {"rerun", "foreign"}
ASSUME SpecMayVanishAssumption == SpecMayVanish \in BOOLEAN

VARIABLES
  holder,   \* the process holding the recorded pid, or NoProc
  past,     \* the processes that have held it before
  zombie,   \* has the holder terminated without being reaped yet?
  active,   \* the case the runner works on; N when it has saved them all
  beat,     \* the case heartbeat.json calls active, or NoCase
  result,   \* what stands in results/cases/<case>
  specOK,   \* is process.json readable and well formed?
  sent,     \* SIGINTs that reached a live process, counted up to SentCap
  struck    \* the processes those SIGINTs reached

envVars == <<holder, past, zombie, active, beat, result, specOK, sent, struck>>

NoProc == "noproc"
NoCase == -1
Cases == 0 .. N-1

\* Processes whose command line is the benchmark runner's, and all of them.
Runners == {"original", "rerun"}
Procs == Runners \union {"foreign"}

\* "none"      no readable, valid result.json
\* "unproven"  a valid result.json whose attempt files do not match it
\* "alien"     a valid result.json with fingerprints of other sources
\* "good"      a result.json that passes every check of stage_report.py
QualitySet == {"none", "unproven", "alien", "good"}

\* Bound: two SIGINTs too many are as wrong as ten, so the count stops here.
SentCap == 3

Alive(p) == p # NoProc /\ holder = p /\ ~zombie

EnvTypeOK ==
  /\ holder \in Procs \union {NoProc}
  /\ past \subseteq Procs
  /\ zombie \in BOOLEAN
  /\ zombie => holder # NoProc
  /\ active \in 0 .. N
  /\ beat \in Cases \union {NoCase}
  /\ result \in [Cases -> QualitySet]
  /\ specOK \in BOOLEAN
  /\ sent \in 0 .. SentCap
  /\ struck \subseteq Procs

EnvInit ==
  /\ holder = "original"
  /\ past = {}
  /\ zombie = FALSE
  /\ active = 0
  /\ beat = 0
  /\ result = [c \in Cases |-> "none"]
  /\ specOK = TRUE
  /\ sent = 0
  /\ struck = {}

-----------------------------------------------------------------------------
(* The runner.  It catches SIGINT and exits later, so even a struck runner *)
(* may save or prove another case.                                         *)

\* One case finished: its result.json appears in one rename.
SaveCase ==
  /\ \E r \in Runners : Alive(r)
  /\ active < N
  /\ \E q \in Qualities : result' = [result EXCEPT ![active] = q]
  /\ active' = active + 1
  /\ UNCHANGED <<holder, past, zombie, beat, specOK, sent, struck>>

\* The attempt files of a result catch up with it.
ProveCase ==
  /\ \E r \in Runners : Alive(r)
  /\ \E c \in Cases :
       /\ result[c] = "unproven"
       /\ result' = [result EXCEPT ![c] = "good"]
  /\ UNCHANGED <<holder, past, zombie, active, beat, specOK, sent, struck>>

\* heartbeat.json follows the work with a delay.
Beat ==
  /\ \E r \in Runners : Alive(r)
  /\ beat' = IF active < N THEN active ELSE NoCase
  /\ beat' # beat
  /\ UNCHANGED <<holder, past, zombie, active, result, specOK, sent, struck>>

\* The holder terminates: done, interrupted, or crashed.
Exit ==
  /\ holder # NoProc
  /\ ~zombie
  /\ zombie' = TRUE
  /\ UNCHANGED <<holder, past, active, beat, result, specOK, sent, struck>>

\* A runner with nothing left to do exits; the part of Exit that is fair.
ExitWhenDone == active = N /\ Exit

-----------------------------------------------------------------------------
(* The kernel and the files around the runner. *)

Reap ==
  /\ zombie
  /\ zombie' = FALSE
  /\ holder' = NoProc
  /\ past' = past \union {holder}
  /\ UNCHANGED <<active, beat, result, specOK, sent, struck>>

\* The kernel hands the free pid number to a new process.
ReusePid ==
  /\ holder = NoProc
  /\ holder' \in Successors \ past
  /\ UNCHANGED <<past, zombie, active, beat, result, specOK, sent, struck>>

\* process.json disappears or comes back.
FlipSpec ==
  /\ SpecMayVanish
  /\ specOK' = ~specOK
  /\ UNCHANGED <<holder, past, zombie, active, beat, result, sent, struck>>

EnvNext ==
  \/ SaveCase \/ ProveCase \/ Beat \/ Exit
  \/ Reap \/ ReusePid \/ FlipSpec

\* A live runner keeps finishing cases, and exits when it has none left.
EnvFairness == WF_envVars(SaveCase) /\ WF_envVars(ExitWhenDone)

-----------------------------------------------------------------------------
(* What the controllers see of it. *)

\* A signal for the process p: it reaches p unless p has terminated.
Strike(p) ==
  IF Alive(p)
    THEN /\ sent' = IF sent < SentCap THEN sent + 1 ELSE sent
         /\ struck' = struck \union {p}
    ELSE UNCHANGED <<sent, struck>>
=============================================================================
