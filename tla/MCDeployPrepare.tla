-------------------------- MODULE MCDeployPrepare --------------------------
(***************************************************************************)
(* DeployPrepare with releases that share the source or the asset; beside  *)
(* it ReleaseChecks with three rows, of which one has files of two rows.   *)
(***************************************************************************)
EXTENDS DeployPrepare, ReleaseChecks, TLC

MCReleases ==
  { [name |-> "first", sha |-> "a", source |-> "s"],
    [name |-> "new weights", sha |-> "b", source |-> "s"],
    [name |-> "new source", sha |-> "a", source |-> "t"] }

\* The shells are interchangeable.
MCShells == Permutations(Clis)

MCSidecars == {"w1", "s1", "w2", "s2", "w3", "s3"}
MCSizeOf == [f \in MCSidecars |-> IF f \in {"w3", "s3"} THEN 2 ELSE 1]
MCPairs == { <<"w1", "s1">>, <<"w2", "s2">>, <<"w3", "s3">>, <<"w1", "s2">>, <<"w1", "w1">> }

-----------------------------------------------------------------------------
(* Properties *)

\* prepare writes the index of rows that validate_release has accepted and
\* check_engram_manifest compared, however the descriptor orders them.  It
\* accepts them if and only if every embedding row of a layer is in exactly one
\* place, of files that are each used once.  And three lists name these rows,
\* the release's, the manifest's and the manifest's totals: when they agree as
\* the code asks, the index written from the first leads to the file the second
\* names for every row the third states, and there are no others.  So the
\* server's loader meets no gap (index_bytes).
IndexIsComplete == (\E c \in Clis : pc[c] = "index") => Misjudged = {} /\ Misled = {}
=============================================================================
