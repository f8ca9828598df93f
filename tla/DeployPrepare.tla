--------------------------- MODULE DeployPrepare ---------------------------
(***************************************************************************)
(* deploy.py prepare, and the checks start makes before it spawns the      *)
(* server: how trust in large files passes from one hash to later starts   *)
(* through receipt.json.  Several shells may run either command on one     *)
(* root; each may be killed, or fail to write, between any two steps.      *)
(*                                                                         *)
(* One asset stands for all.  A file is a version, with the stat record    *)
(* that tells it from every other; `body' and `madeFrom' say what the      *)
(* versions contain.  A release is a record of what its descriptor pins.   *)
(***************************************************************************)
EXTENDS Naturals, Sequences

CONSTANTS
  Clis,          \* shells running the launcher
  Contents,      \* of the asset file, named by SHA-256
  Sources,       \* of the source archive
  Releases,      \* descriptors
  None,          \* no file there
  MaxVersions,   \* bound: versions of the asset file
  MaxBuilds      \* bound: versions of llama-server

ASSUME ReleasesAssumption ==
  \A r \in Releases : r.sha \in Contents /\ r.source \in Sources

ASSUME NoneAssumption == None \notin Sources

VARIABLES
  file,         \* the asset: a version, or Missing
  body,         \* contents of its versions
  tree,         \* root/runtime
  source_json,  \* state/source.json
  build_dir,    \* does root/build-engram exist?
  build_json,   \* state/build.json
  binary,       \* llama-server: a version, or Missing
  madeFrom,     \* the source each version was built from
  index,        \* engram.runtime.index: the release whose rows it holds
  release_json, \* state/release.json
  receipt,      \* state/receipt.json
  pc,           \* pc[c]: what shell c does next
  job           \* job[c]: its local variables

data == <<file, body>>
sourceVars == <<tree, source_json>>
buildVars == <<build_dir, build_json, binary, madeFrom>>
shells == <<pc, job>>
vars == <<data, sourceVars, buildVars, index, release_json, receipt, shells>>

Missing == 0

\* A receipt: the descriptor, the asset's record (after, sha256), the runtime.
Receipts ==
  [release : Releases, after : Nat, sha256 : Contents, runtime : Nat]

Jobs ==
  [release : Releases \union {None}, old : Receipts \union {None},
   before : Nat, after : Nat, sha256 : Contents \union {None}, runtime : Nat]

NewJob ==
  [release |-> None, old |-> None, before |-> Missing, after |-> Missing,
   sha256 |-> None, runtime |-> Missing]

PrepareSteps ==
  {"download", "stat", "hash", "stat again", "extract", "replace", "mark source",
   "recognize", "mkdir", "mark build", "compile", "mark built", "index", "identity",
   "release", "receipt"}
StartSteps ==
  {"load receipt", "check asset", "check runtime", "write index", "launch"}

TypeOK ==
  /\ body \in Seq(Contents) /\ file \in 0 .. Len(body)
  /\ tree \in Sources \union {None}
  /\ source_json \in Sources \union {None}
  /\ build_dir \in BOOLEAN
  /\ build_json \in Sources \union {None}
  /\ madeFrom \in Seq(Sources) /\ binary \in 0 .. Len(madeFrom)
  /\ index \in Releases \union {None}
  /\ release_json \in Releases \union {None}
  /\ receipt \in Receipts \union {None}
  /\ pc \in [Clis -> {"idle"} \union PrepareSteps \union StartSteps]
  /\ job \in [Clis -> Jobs]

Init ==
  /\ file = Missing /\ body = <<>>
  /\ tree = None /\ source_json = None
  /\ build_dir = FALSE /\ build_json = None
  /\ binary = Missing /\ madeFrom = <<>>
  /\ index = None /\ release_json = None /\ receipt = None
  /\ pc = [c \in Clis |-> "idle"]
  /\ job = [c \in Clis |-> NewJob]

-----------------------------------------------------------------------------
(* Steps of a shell. *)

GoTo(c, step) == pc' = [pc EXCEPT ![c] = step]
Leave(c) == GoTo(c, "idle") /\ job' = [job EXCEPT ![c] = NewJob]

NewFile ==
  /\ Len(body) < MaxVersions
  /\ \E content \in Contents : body' = Append(body, content)
  /\ file' = Len(body) + 1

\* die() of a check that does not hold, an exception or a kill: a shell may end
\* before each of its steps, and does when the step is not enabled.
Fail(c) ==
  /\ pc[c] # "idle"
  /\ Leave(c)
  /\ UNCHANGED <<data, sourceVars, buildVars, index, release_json, receipt>>

-----------------------------------------------------------------------------
(* prepare *)

\* The descriptor is valid; an old receipt of the same one is remembered.
Prepare(c) ==
  /\ pc[c] = "idle"
  /\ \E r \in Releases :
       job' = [job EXCEPT ![c] =
         [NewJob EXCEPT !.release = r,
                        !.old = IF receipt # None /\ receipt.release = r
                                  THEN receipt ELSE None]]
  /\ GoTo(c, "download")
  /\ UNCHANGED <<data, sourceVars, buildVars, index, release_json, receipt>>

\* A missing file is fetched, whatever the hub delivers.
Download(c) ==
  /\ pc[c] = "download"
  /\ IF file = Missing THEN NewFile ELSE UNCHANGED data
  /\ GoTo(c, "stat")
  /\ UNCHANGED <<sourceVars, buildVars, index, release_json, receipt, job>>

\* Mutant: the old record serves without its hash.
Stat_forgets_sha(c) ==
  LET old == job[c].old
  IN /\ pc[c] = "stat"
     /\ file # Missing
     /\ \/ /\ old # None /\ old.after = file
           /\ GoTo(c, "extract")
           /\ job' = [job EXCEPT ![c].after = old.after]
        \/ /\ GoTo(c, "hash")
           /\ job' = [job EXCEPT ![c].before = file]
     /\ UNCHANGED <<data, sourceVars, buildVars, index, release_json, receipt>>

\* verify_asset: the old record serves when it fits the file and the release;
\* --rehash, which any prepare may be given, does without it.
Stat(c) ==
  LET old == job[c].old
  IN /\ pc[c] = "stat"
     /\ file # Missing
     /\ \/ /\ old # None /\ old.after = file /\ old.sha256 = job[c].release.sha
           /\ GoTo(c, "extract")
           /\ job' = [job EXCEPT ![c].after = old.after, ![c].sha256 = old.sha256]
        \/ /\ GoTo(c, "hash")
           /\ job' = [job EXCEPT ![c].before = file]
     /\ UNCHANGED <<data, sourceVars, buildVars, index, release_json, receipt>>

\* sha256_file
Hash(c) ==
  /\ pc[c] = "hash"
  /\ file # Missing
  /\ job' = [job EXCEPT ![c].sha256 = body[file]]
  /\ GoTo(c, "stat again")
  /\ UNCHANGED <<data, sourceVars, buildVars, index, release_json, receipt>>

\* Mutant: the file may have changed.
StatAgain_changed(c) ==
  /\ pc[c] = "stat again"
  /\ file # Missing
  /\ job[c].sha256 = job[c].release.sha
  /\ job' = [job EXCEPT ![c].after = file]
  /\ GoTo(c, "extract")
  /\ UNCHANGED <<data, sourceVars, buildVars, index, release_json, receipt>>

\* The file has not changed while it was hashed, and is the one expected.
StatAgain(c) ==
  /\ pc[c] = "stat again"
  /\ file # Missing
  /\ job[c].before = file
  /\ job[c].sha256 = job[c].release.sha
  /\ job' = [job EXCEPT ![c].after = file]
  /\ GoTo(c, "extract")
  /\ UNCHANGED <<data, sourceVars, buildVars, index, release_json, receipt>>

\* Mutant: the marker alone is believed.
Extract_marker_only(c) ==
  /\ pc[c] = "extract"
  /\ IF tree = None
       THEN GoTo(c, "replace")
       ELSE source_json = job[c].release.source /\ GoTo(c, "recognize")
  /\ UNCHANGED <<data, sourceVars, buildVars, index, release_json, receipt, job>>

\* extract_source: a tree that stands there is only used when it is recognized
\* and verified.
Extract(c) ==
  LET source == job[c].release.source
  IN /\ pc[c] = "extract"
     /\ IF tree = None
          THEN GoTo(c, "replace")
          ELSE source_json = source /\ tree = source /\ GoTo(c, "recognize")
     /\ UNCHANGED <<data, sourceVars, buildVars, index, release_json, receipt, job>>

\* The verified archive, unpacked beside it, is renamed into its place, unless
\* another tree has appeared there.
Replace(c) ==
  /\ pc[c] = "replace"
  /\ tree = None
  /\ tree' = job[c].release.source
  /\ GoTo(c, "mark source")
  /\ UNCHANGED <<data, source_json, buildVars, index, release_json, receipt, job>>

MarkSource(c) ==
  /\ pc[c] = "mark source"
  /\ source_json' = job[c].release.source
  /\ GoTo(c, "recognize")
  /\ UNCHANGED <<data, tree, buildVars, index, release_json, receipt, job>>

\* build_runtime: a build directory is only used again when its marker names
\* the same source.
Recognize(c) ==
  /\ pc[c] = "recognize"
  /\ build_dir => build_json # None
  /\ build_json # None => build_json = job[c].release.source
  /\ GoTo(c, "mkdir")
  /\ UNCHANGED <<data, sourceVars, buildVars, index, release_json, receipt, job>>

\* Mutant: the marker is only written when the build is done.
Mkdir_unmarked(c) ==
  /\ pc[c] = "mkdir"
  /\ build_dir' = TRUE
  /\ GoTo(c, "compile")
  /\ UNCHANGED <<data, sourceVars, build_json, binary, madeFrom, index, release_json,
                 receipt, job>>

Mkdir(c) ==
  /\ pc[c] = "mkdir"
  /\ build_dir' = TRUE
  /\ GoTo(c, "mark build")
  /\ UNCHANGED <<data, sourceVars, build_json, binary, madeFrom, index, release_json,
                 receipt, job>>

\* The marker, before and after the build.
MarkBuild(c) ==
  /\ pc[c] \in {"mark build", "mark built"}
  /\ build_json' = job[c].release.source
  /\ GoTo(c, IF pc[c] = "mark build" THEN "compile" ELSE "index")
  /\ UNCHANGED <<data, sourceVars, build_dir, binary, madeFrom, index, release_json,
                 receipt, job>>

\* cmake: a new binary of the tree as it is now, or the old one when that is
\* up to date.
Compile(c) ==
  /\ pc[c] = "compile"
  /\ \/ /\ binary # Missing
        /\ madeFrom[binary] = tree
        /\ UNCHANGED <<binary, madeFrom>>
     \/ /\ Len(madeFrom) < MaxBuilds
        /\ tree # None
        /\ madeFrom' = Append(madeFrom, tree)
        /\ binary' = Len(madeFrom) + 1
  /\ GoTo(c, "mark built")
  /\ UNCHANGED <<data, sourceVars, build_dir, build_json, index, release_json, receipt,
                 job>>

\* write_index, of prepare and of start.
WriteIndex(c) ==
  /\ pc[c] \in {"index", "write index"}
  /\ index' = job[c].release
  /\ GoTo(c, IF pc[c] = "index" THEN "identity" ELSE "launch")
  /\ UNCHANGED <<data, sourceVars, buildVars, release_json, receipt, job>>

\* runtime_identity
Identity(c) ==
  /\ pc[c] = "identity"
  /\ binary # Missing
  /\ job' = [job EXCEPT ![c].runtime = binary]
  /\ GoTo(c, "release")
  /\ UNCHANGED <<data, sourceVars, buildVars, index, release_json, receipt>>

\* Descriptor and receipt are two files, each replaced in one rename.
WriteRelease(c) ==
  /\ pc[c] = "release"
  /\ release_json' = job[c].release
  /\ GoTo(c, "receipt")
  /\ UNCHANGED <<data, sourceVars, buildVars, index, receipt, job>>

WriteReceipt(c) ==
  /\ pc[c] = "receipt"
  /\ receipt' = [release |-> job[c].release, after |-> job[c].after,
                 sha256 |-> job[c].sha256, runtime |-> job[c].runtime]
  /\ Leave(c)
  /\ UNCHANGED <<data, sourceVars, buildVars, index, release_json>>

-----------------------------------------------------------------------------
(* start, up to the spawn of the server: ServerLifecycle continues there. *)

Start(c) ==
  /\ pc[c] = "idle"
  /\ release_json # None
  /\ job' = [job EXCEPT ![c].release = release_json]
  /\ GoTo(c, "load receipt")
  /\ UNCHANGED <<data, sourceVars, buildVars, index, release_json, receipt>>

\* The receipt must be one of the descriptor that was read before it.
LoadReceipt(c) ==
  /\ pc[c] = "load receipt"
  /\ receipt # None
  /\ receipt.release = job[c].release
  /\ job' = [job EXCEPT ![c].old = receipt]
  /\ GoTo(c, "check asset")
  /\ UNCHANGED <<data, sourceVars, buildVars, index, release_json, receipt>>

\* The file is still the version of the receipt; it is not hashed.
CheckAsset(c) ==
  /\ pc[c] = "check asset"
  /\ file # Missing
  /\ job[c].old.after = file
  /\ job' = [job EXCEPT ![c].after = file]
  /\ GoTo(c, "check runtime")
  /\ UNCHANGED <<data, sourceVars, buildVars, index, release_json, receipt>>

\* So is the server.
CheckRuntime(c) ==
  /\ pc[c] = "check runtime"
  /\ binary # Missing
  /\ job[c].old.runtime = binary
  /\ job' = [job EXCEPT ![c].runtime = binary]
  /\ GoTo(c, "write index")
  /\ UNCHANGED <<data, sourceVars, buildVars, index, release_json, receipt>>

\* The index is read back; then the server is spawned.
Launch(c) ==
  /\ pc[c] = "launch"
  /\ index = job[c].release
  /\ Leave(c)
  /\ UNCHANGED <<data, sourceVars, buildVars, index, release_json, receipt>>

-----------------------------------------------------------------------------
(* The operator, who may change or remove what lies on the disk. *)

ChangeFile ==
  /\ NewFile \/ (file' = Missing /\ UNCHANGED body)
  /\ UNCHANGED <<sourceVars, buildVars, index, release_json, receipt, shells>>

\* The source tree is only removed while nobody works on it.
RemoveTree ==
  /\ \A c \in Clis : pc[c] = "idle"
  /\ tree' = None
  /\ UNCHANGED <<data, source_json, buildVars, index, release_json, receipt, shells>>

-----------------------------------------------------------------------------
Step(c) ==
  \/ Prepare(c) \/ Download(c) \/ Stat(c) \/ Hash(c) \/ StatAgain(c) \/ Extract(c)
  \/ Replace(c) \/ MarkSource(c) \/ Recognize(c) \/ Mkdir(c) \/ MarkBuild(c)
  \/ Compile(c) \/ WriteIndex(c) \/ Identity(c) \/ WriteRelease(c) \/ WriteReceipt(c)
  \/ Start(c) \/ LoadReceipt(c) \/ CheckAsset(c) \/ CheckRuntime(c) \/ Launch(c)
  \/ Fail(c)

Next == (\E c \in Clis : Step(c)) \/ ChangeFile \/ RemoveTree

Spec == Init /\ [][Next]_vars

-----------------------------------------------------------------------------
(* Properties *)

\* A server is only started with a version of the file that once hashed to what
\* its release asks for, although start hashes nothing and prepare not every
\* time: through receipts of other releases, files changed during a hash, other
\* shells and crashes (verify_asset, load_prepared, start).
OnlyVerifiedFilesRun ==
  \A c \in Clis : pc[c] = "launch" => body[job[c].after] = job[c].release.sha

\* The server that is started was built from the source its release pins,
\* although trees and build directories are used again (extract_source,
\* build_runtime, runtime_identity).
OnlyPinnedSourceRuns ==
  \A c \in Clis :
    pc[c] = "launch" => madeFrom[job[c].runtime] = job[c].release.source

\* A prepare of a release with this source passes the checks of extract_source
\* and build_runtime: what stands there is marked as this source's, or nothing
\* stands there.
Repeatable(source) ==
  /\ tree # None => tree = source /\ source_json = source
  /\ IF build_json = None THEN ~build_dir ELSE build_json = source

\* From the start of a build to the end of prepare, the long part of it, the
\* release can be prepared again, whatever dies (the markers are written before
\* the build; only the two gaps right before them cannot be repeated).  And once
\* a build is marked, one step alone can end that: a new tree put where the old
\* one had been removed by hand.  Of the same source, it does so until its
\* marker follows; of another source, for good, since extract_source marks the
\* new tree before build_runtime refuses it for the old build: from then on the
\* one release is refused for the tree, the other for the build.
BuildCanBeRepeated ==
  /\ [](\A c \in Clis :
          pc[c] \in {"compile", "mark built", "index", "identity", "release", "receipt"} =>
            Repeatable(job[c].release.source))
  /\ [][\A source \in Sources :
          build_json = source /\ Repeatable(source) =>
            Repeatable(source)' \/ (tree = None /\ tree' # None)]_vars
=============================================================================
