----------------------------- MODULE StageReport -----------------------------
(***************************************************************************)
(* stage_report.py as the controllers and the operator use it: it accepts  *)
(* the longest prefix of results that pass every check, writes             *)
(* stage-summary.json in one rename, and exits 0 only when the accepted    *)
(* prefix is the whole target.                                             *)
(***************************************************************************)
EXTENDS BenchmarkRunner

VARIABLE summary  \* stage-summary.json: the target it was made for (0: no
                  \* file) and whether the prefix covers that target

SummaryTypeOK ==
  summary \in [target : 0 .. N, complete : BOOLEAN]

SummaryInit == summary = [target |-> 0, complete |-> FALSE]

\* validate_result accepts anything but a missing or malformed result.
ValidResult(c) == result[c] # "none"

\* validate_evidence also wants the manifest's fingerprints and the digests
\* of the attempt files.
ValidEvidence(c) == result[c] = "good"

\* load_prefix accepts every case below the target.
PrefixAccepted(target) ==
  \A c \in 0 .. target-1 : ValidResult(c) /\ ValidEvidence(c)

\* main: the summary is written, complete or not.
WriteSummary(target) ==
  summary' = [target |-> target, complete |-> PrefixAccepted(target)]

\* The operator runs the report by hand, for any prefix.
ManualReport ==
  /\ \E t \in 1 .. N : WriteSummary(t)
  /\ UNCHANGED envVars
=============================================================================
