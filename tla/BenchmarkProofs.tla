--------------------------- MODULE BenchmarkProofs ---------------------------
(***************************************************************************)
(* Facts about the benchmark, the kernel and the reports that the proofs   *)
(* about both stage controllers rest on.                                   *)
(***************************************************************************)
EXTENDS StageReport, TLAPS

\* Everything that moves besides the controllers.
Surroundings == (EnvNext /\ UNCHANGED summary) \/ ManualReport

\* A case is saved at most once: nothing is there from `active' on.
NothingBeyondActive == \A c \in Cases : c >= active => result[c] = "none"

\* A process that gave the pid back never holds it again.
HeldOnce == holder \notin past /\ past \subseteq Procs

\* Nobody holds the pid before the original runner.
OriginalFirst ==
  /\ holder \in {NoProc, "original"} \union Successors
  /\ holder = "original" => past = {}

EnvInv ==
  /\ EnvTypeOK
  /\ SummaryTypeOK
  /\ NothingBeyondActive
  /\ HeldOnce
  /\ OriginalFirst

\* All a controller may count on between two of its steps, whoever moves:
\* the runner, the kernel, the operator, or the other controller.
Drift ==
  /\ EnvInv'
  /\ \A c \in Cases : /\ result[c] = "good" => result'[c] = "good"
                      /\ result[c] # "none" => result'[c] # "none"
  /\ past \subseteq past'
  /\ holder \in past' \union {holder', NoProc}
  /\ zombie /\ holder' = holder => zombie'

\* The benchmark starts well typed, with nothing saved and nothing replaced.
LEMMA EnvStarts == EnvInit /\ SummaryInit => EnvInv
<1> SUFFICES ASSUME EnvInit, SummaryInit PROVE EnvInv
  OBVIOUS
<1>1. result \in [Cases -> QualitySet]
  BY DEF EnvInit, QualitySet
<1>2. active \in 0 .. N /\ beat \in Cases /\ sent \in 0 .. SentCap
  BY NAssumption DEF EnvInit, Cases, SentCap
<1>3. EnvTypeOK /\ NothingBeyondActive /\ HeldOnce /\ OriginalFirst
  BY <1>1, <1>2
  DEF EnvInit, EnvTypeOK, Procs, Runners, NoProc, NothingBeyondActive, HeldOnce,
      OriginalFirst
<1>4. SummaryTypeOK
  BY NAssumption DEF SummaryInit, SummaryTypeOK
<1> QED
  BY <1>3, <1>4 DEF EnvInv

\* A report written for a legal target is a legal summary.
LEMMA ReportTypeOK ==
  ASSUME NEW t \in 0 .. N, WriteSummary(t)
  PROVE  SummaryTypeOK'
<1>1. PrefixAccepted(t) \in BOOLEAN
  BY DEF PrefixAccepted
<1> QED
  BY <1>1 DEF SummaryTypeOK, WriteSummary

\* A step of the runner, the kernel or the operator keeps the types.
LEMMA SurroundingsTypeOK ==
  ASSUME EnvTypeOK, SummaryTypeOK, Surroundings
  PROVE  EnvTypeOK' /\ SummaryTypeOK'
<1> USE NAssumption, QualitiesAssumption, SuccessorsAssumption
<1> USE DEF EnvTypeOK, SummaryTypeOK, envVars, Cases, Procs, Runners,
            QualitySet, SentCap
<1>1. CASE SaveCase /\ UNCHANGED summary
  BY <1>1 DEF SaveCase
<1>2. CASE ProveCase /\ UNCHANGED summary
  BY <1>2 DEF ProveCase
<1>3. CASE Beat /\ UNCHANGED summary
  BY <1>3 DEF Beat
<1>4. CASE (Exit \/ Reap) /\ UNCHANGED summary
  BY <1>4 DEF Exit, Reap
<1>5. CASE FlipSpec /\ UNCHANGED summary
  <2>1. specOK' \in BOOLEAN
    BY <1>5 DEF FlipSpec
  <2> QED
    BY <1>5, <2>1 DEF FlipSpec
<1>6. CASE ReusePid /\ UNCHANGED summary
  BY <1>6 DEF ReusePid, NoProc
<1>7. CASE ManualReport
  <2>1. SummaryTypeOK'
    BY <1>7, ReportTypeOK DEF ManualReport
  <2> QED
    BY <1>7, <2>1 DEF ManualReport
<1> QED
  BY <1>1, <1>2, <1>3, <1>4, <1>5, <1>6, <1>7 DEF Surroundings, EnvNext

\* No step of the surroundings takes a result or its evidence back.
LEMMA ResultsStay ==
  ASSUME EnvTypeOK, NothingBeyondActive, Surroundings
  PROVE  \A c \in Cases : /\ result[c] = "good" => result'[c] = "good"
                          /\ result[c] # "none" => result'[c] # "none"
<1> USE DEF EnvTypeOK, NothingBeyondActive, envVars
<1>1. CASE SaveCase
  BY <1>1, NAssumption DEF SaveCase, Cases
<1>2. CASE ProveCase
  BY <1>2 DEF ProveCase
<1>3. CASE Beat \/ Exit \/ Reap \/ ReusePid \/ FlipSpec \/ ManualReport
  BY <1>3 DEF Beat, Exit, Reap, ReusePid, FlipSpec, ManualReport
<1> QED
  BY <1>1, <1>2, <1>3 DEF Surroundings, EnvNext

\* The runner saves the cases in order.
LEMMA SavesInOrder ==
  ASSUME EnvTypeOK, NothingBeyondActive, Surroundings
  PROVE  NothingBeyondActive'
<1> USE DEF EnvTypeOK, NothingBeyondActive, envVars
<1>1. CASE SaveCase
  BY <1>1, NAssumption DEF SaveCase, Cases
<1>2. CASE ProveCase
  BY <1>2 DEF ProveCase
<1>3. CASE Beat \/ Exit \/ Reap \/ ReusePid \/ FlipSpec \/ ManualReport
  BY <1>3 DEF Beat, Exit, Reap, ReusePid, FlipSpec, ManualReport
<1> QED
  BY <1>1, <1>2, <1>3 DEF Surroundings, EnvNext

\* A process leaves the pid for good, and does not come back to life.
LEMMA NeverRevives ==
  ASSUME EnvTypeOK, HeldOnce, Surroundings
  PROVE  /\ HeldOnce'
         /\ past \subseteq past'
         /\ holder \in past' \union {holder', NoProc}
         /\ zombie /\ holder' = holder => zombie'
<1> USE SuccessorsAssumption DEF EnvTypeOK, HeldOnce, envVars
<1>1. CASE SaveCase \/ ProveCase \/ Beat \/ Exit \/ FlipSpec \/ ManualReport
  BY <1>1 DEF SaveCase, ProveCase, Beat, Exit, FlipSpec, ManualReport
<1>2. CASE Reap
  BY <1>2 DEF Reap, NoProc, Procs, Runners
<1>3. CASE ReusePid
  BY <1>3 DEF ReusePid, Procs, Runners
<1> QED
  BY <1>1, <1>2, <1>3 DEF Surroundings, EnvNext

\* The surroundings send no signals.
LEMMA SurroundingsSendNothing ==
  Surroundings => UNCHANGED <<sent, struck>>
BY DEF Surroundings, EnvNext, envVars, SaveCase, ProveCase, Beat, Exit, Reap,
       ReusePid, FlipSpec, ManualReport

\* The number goes from the original runner to its successors, not back.
LEMMA OriginalStaysFirst ==
  ASSUME EnvTypeOK, OriginalFirst, Surroundings
  PROVE  OriginalFirst'
<1> USE SuccessorsAssumption DEF EnvTypeOK, OriginalFirst, envVars
<1>1. CASE SaveCase \/ ProveCase \/ Beat \/ Exit \/ FlipSpec \/ ManualReport
  BY <1>1 DEF SaveCase, ProveCase, Beat, Exit, FlipSpec, ManualReport
<1>2. CASE Reap
  BY <1>2 DEF Reap, NoProc
<1>3. CASE ReusePid
  BY <1>3 DEF ReusePid
<1> QED
  BY <1>1, <1>2, <1>3 DEF Surroundings, EnvNext

\* What the surroundings do is a drift.
LEMMA SurroundingsDrift ==
  ASSUME EnvInv, Surroundings
  PROVE  Drift
BY SurroundingsTypeOK, SavesInOrder, NeverRevives, OriginalStaysFirst, ResultsStay
DEF EnvInv, Drift

\* So is, for the other controller, a step that only writes a report or sends
\* a signal.
LEMMA ControllersDrift ==
  ASSUME EnvInv, SummaryTypeOK', sent' \in 0 .. SentCap, struck' \subseteq Procs,
         UNCHANGED <<holder, past, zombie, active, beat, result, specOK>>
  PROVE  Drift
BY DEF EnvInv, Drift, EnvTypeOK, NothingBeyondActive, HeldOnce, OriginalFirst

\* A signal changes no more than who has been struck, and how often.
LEMMA StrikeTypeOK ==
  ASSUME EnvTypeOK, NEW p \in Procs \union {NoProc}, Strike(p)
  PROVE  sent' \in 0 .. SentCap /\ struck' \subseteq Procs
BY DEF Strike, Alive, EnvTypeOK, SentCap, NoProc
=============================================================================
