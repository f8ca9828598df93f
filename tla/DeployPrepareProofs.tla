------------------------ MODULE DeployPrepareProofs ------------------------
(***************************************************************************)
(* Proofs about DeployPrepare for any number of shells, releases, versions *)
(* and builds: what start spawns is what the release pins.  And about      *)
(* ReleaseChecks for any number of rows of any length in any order: what   *)
(* validate_release accepts is what the server can use.                    *)
(***************************************************************************)
EXTENDS MCDeployPrepare, FiniteSetTheorems, TLAPS

Steps == {"idle"} \union PrepareSteps \union StartSteps

\* Steps of prepare once the asset is verified.
Verified ==
  {"extract", "replace", "mark source", "recognize", "mkdir", "mark build", "compile",
   "mark built", "index", "identity", "release", "receipt"}
\* Once the tree stands, once its marker does, and once the build has begun.
TreeStands == Verified \ {"extract", "replace"}
TreeMarked == TreeStands \ {"mark source"}
BuildBegun == {"compile", "mark built", "index", "identity", "release", "receipt"}
Built == {"mark built", "index", "identity"}

\* The version is one whose content is what the release asks for.
GoodFile(r, v) == v \in 1 .. Len(body) /\ body[v] = r.sha
GoodRuntime(r, v) == v \in 1 .. Len(madeFrom) /\ madeFrom[v] = r.source

GoodReceipt(x) ==
  /\ GoodFile(x.release, x.after)
  /\ x.sha256 = x.release.sha
  /\ GoodRuntime(x.release, x.runtime)

\* What holds of the variables j of a shell that is at a step.
JobInv(step, j) ==
  /\ IF step = "idle" THEN j.old = None ELSE j.release \in Releases
  /\ j.old # None => GoodReceipt(j.old) /\ j.old.release = j.release
  /\ step \in {"hash", "stat again"} => j.before \in 1 .. Len(body)
  /\ step = "stat again" /\ file = j.before => j.sha256 = body[j.before]
  /\ step \in Verified => GoodFile(j.release, j.after) /\ j.sha256 = j.release.sha
  /\ step \in TreeStands => tree = j.release.source
  /\ step \in TreeMarked => source_json = j.release.source
  /\ step \in BuildBegun => build_json = j.release.source
  /\ step \in Built => GoodRuntime(j.release, binary)
  /\ step \in {"release", "receipt"} => GoodRuntime(j.release, j.runtime)
  /\ step \in StartSteps \ {"load receipt"} => j.old # None
  /\ step \in {"check runtime", "write index", "launch"} => GoodFile(j.release, j.after)
  /\ step \in {"write index", "launch"} => GoodRuntime(j.release, j.runtime)

\* The inductive invariant.
Inv ==
  /\ TypeOK
  /\ receipt # None => GoodReceipt(receipt)
  /\ \A c \in Clis : JobInv(pc[c], job[c])

\* A step that changes no version there is, gives no old file back, and leaves
\* the tree alone where a shell relies on it, and marks no other.
Steady ==
  /\ Len(body') \in Nat /\ Len(body) <= Len(body')
  /\ \A v \in 1 .. Len(body) : body'[v] = body[v]
  /\ Len(madeFrom') \in Nat /\ Len(madeFrom) <= Len(madeFrom')
  /\ \A v \in 1 .. Len(madeFrom) : madeFrom'[v] = madeFrom[v]
  /\ file' = file \/ file' \notin 1 .. Len(body)
  /\ tree' = tree \/ tree = None \/ \A c \in Clis : pc[c] = "idle"
  /\ source_json' \in {source_json, tree}
  /\ build_json' \in {build_json, tree}
  /\ \/ binary' = binary
     \/ binary' \in 1 .. Len(madeFrom') /\ madeFrom'[binary'] = tree

files == <<data, sourceVars, buildVars, index, release_json, receipt>>

-----------------------------------------------------------------------------
\* Before the first command nothing is on the disk.
LEMMA InvInit == Init => Inv
<1> SUFFICES ASSUME Init PROVE Inv
  OBVIOUS
<1>1. NewJob \in Jobs
  BY DEF NewJob, Jobs, Missing
<1>2. TypeOK
  <2>1. /\ \A S : <<>> \in Seq(S)
        /\ Len(<<>>) = 0
    OBVIOUS
  <2>2. job \in [Clis -> Jobs] /\ pc \in [Clis -> Steps]
    BY <1>1 DEF Init, Steps
  <2>3. body \in Seq(Contents) /\ file \in 0 .. Len(body)
    BY <2>1 DEF Init, Missing
  <2>4. madeFrom \in Seq(Sources) /\ binary \in 0 .. Len(madeFrom)
    BY <2>1 DEF Init, Missing
  <2> QED
    BY <2>2, <2>3, <2>4 DEF Init, TypeOK, Steps
<1>3. \A c \in Clis : JobInv(pc[c], job[c])
  BY DEF Init, JobInv, NewJob, Verified, TreeStands, TreeMarked, BuildBegun, Built, StartSteps
<1> QED
  BY <1>2, <1>3 DEF Init, Inv

\* A good version stays good.
LEMMA GoodStays ==
  ASSUME Steady, NEW r, NEW v
  PROVE  /\ GoodFile(r, v) => GoodFile(r, v)'
         /\ GoodRuntime(r, v) => GoodRuntime(r, v)'
  BY DEF Steady, GoodFile, GoodRuntime

\* A steady step does not disturb a shell that takes no part in it.
LEMMA Bystander ==
  ASSUME NEW d \in Clis, Steady, TypeOK, pc[d] \in Steps, JobInv(pc[d], job[d]),
         pc'[d] = pc[d], job'[d] = job[d]
  PROVE  JobInv(pc[d], job[d])'
<1> DEFINE j == job[d]
           step == pc[d]
<1> USE DEF Missing
<1>1. job'[d] = j /\ pc'[d] = step
  OBVIOUS
<1>2. /\ j.old # None => GoodReceipt(j.old)'
      /\ step \in Verified => GoodFile(j.release, j.after)'
      /\ step \in {"release", "receipt", "write index", "launch"} =>
           GoodRuntime(j.release, j.runtime)'
      /\ step \in {"check runtime", "write index", "launch"} => GoodFile(j.release, j.after)'
  BY GoodStays DEF JobInv, GoodReceipt
<1>3. step \in TreeStands => tree # None /\ tree' = tree
  BY ReleasesAssumption, NoneAssumption DEF JobInv, Steady, TreeStands, Verified
<1>4. step \in Built => GoodRuntime(j.release, binary)'
  BY <1>3, GoodStays DEF JobInv, Steady, Built, TreeStands, Verified, GoodRuntime
<1>5. step \in {"hash", "stat again"} => j.before \in 1 .. Len(body')
  <2>1. Len(body) \in Nat
    BY DEF TypeOK
  <2>2. Len(body') \in Nat /\ Len(body) <= Len(body')
    BY DEF Steady
  <2>3. step \in {"hash", "stat again"} => j.before \in 1 .. Len(body)
    BY DEF JobInv
  <2>4. \A v, m, n \in Nat : v \in 1 .. m /\ m <= n => v \in 1 .. n
    OBVIOUS
  <2>5. \A v : v \in 1 .. Len(body) => v \in Nat
    BY <2>1
  <2> QED
    BY <2>1, <2>2, <2>3, <2>4, <2>5, Zenon
<1>6. step = "stat again" /\ file' = j.before => j.sha256 = body'[j.before]
  BY DEF JobInv, Steady
<1>7. /\ step \in TreeStands => tree' = j.release.source
      /\ step \in TreeMarked => source_json' = j.release.source
      /\ step \in BuildBegun => build_json' = j.release.source
  <2>1. step \in TreeMarked \/ step \in BuildBegun => step \in TreeStands
    BY DEF TreeMarked, BuildBegun, TreeStands, Verified
  <2>2. source_json' \in {source_json, tree} /\ build_json' \in {build_json, tree}
    BY DEF Steady
  <2> QED
    BY <1>3, <2>1, <2>2 DEF JobInv
<1> QED
  BY <1>1, <1>2, <1>4, <1>5, <1>6, <1>7 DEF JobInv

\* A step that touches no file is steady, and keeps what is good.
LEMMA NoFileTouched ==
  ASSUME TypeOK, UNCHANGED files
  PROVE  Steady /\ \A step, j : JobInv(step, j) => JobInv(step, j)'
<1>1. UNCHANGED <<file, body, tree, source_json, build_dir, build_json, binary, madeFrom>>
  BY DEF files, data, sourceVars, buildVars
<1>2. Steady
  <2>1. Len(body) \in Nat /\ Len(madeFrom) \in Nat
    BY DEF TypeOK
  <2> QED
    BY <1>1, <2>1 DEF Steady
<1>3. ASSUME NEW step, NEW j, JobInv(step, j) PROVE JobInv(step, j)'
  BY <1>1, <1>3 DEF JobInv, GoodReceipt, GoodFile, GoodRuntime
<1> QED
  BY <1>2, <1>3

\* What is left to show of a step of shell c: what holds of itself and of the
\* files.
LEMMA StepOf ==
  ASSUME NEW c \in Clis, Inv, NEW step \in Steps, NEW j \in Jobs,
         pc' = [pc EXCEPT ![c] = step], job' = [job EXCEPT ![c] = j],
         Steady, JobInv(step, j)',
         /\ body' \in Seq(Contents) /\ file' \in 0 .. Len(body')
         /\ tree' \in Sources \union {None}
         /\ source_json' \in Sources \union {None}
         /\ build_dir' \in BOOLEAN
         /\ build_json' \in Sources \union {None}
         /\ madeFrom' \in Seq(Sources) /\ binary' \in 0 .. Len(madeFrom')
         /\ index' \in Releases \union {None}
         /\ release_json' \in Releases \union {None}
         /\ receipt' \in Receipts \union {None},
         (receipt # None => GoodReceipt(receipt))'
  PROVE  Inv'
<1>1. TypeOK
  BY DEF Inv
<1>2. pc' \in [Clis -> Steps] /\ job' \in [Clis -> Jobs]
  BY <1>1 DEF TypeOK, Steps
<1>3. pc'[c] = step /\ job'[c] = j
  BY <1>1 DEF TypeOK
<1>4. JobInv(pc[c], job[c])'
  BY <1>3 DEF JobInv
<1>5. \A d \in Clis \ {c} : JobInv(pc[d], job[d])'
  <2> SUFFICES ASSUME NEW d \in Clis \ {c} PROVE JobInv(pc[d], job[d])'
    OBVIOUS
  <2>1. pc'[d] = pc[d] /\ job'[d] = job[d] /\ pc[d] \in Steps /\ JobInv(pc[d], job[d])
    BY <1>1 DEF TypeOK, Steps, Inv
  <2> QED
    BY <1>1, <2>1, Bystander
<1>6. TypeOK'
  BY <1>2 DEF TypeOK, Steps
<1>7. \A d \in Clis : JobInv(pc[d], job[d])'
  BY <1>4, <1>5
<1> QED
  BY <1>6, <1>7 DEF Inv

\* A step that touches no file.
LEMMA QuietStep ==
  ASSUME NEW c \in Clis, Inv, NEW step \in Steps, NEW j \in Jobs,
         pc' = [pc EXCEPT ![c] = step], job' = [job EXCEPT ![c] = j],
         UNCHANGED files, JobInv(step, j)
  PROVE  Inv'
<1>1. TypeOK /\ (receipt # None => GoodReceipt(receipt))
  BY DEF Inv
<1>2. UNCHANGED <<file, body, tree, source_json, build_dir, build_json, binary, madeFrom,
                  index, release_json, receipt>>
  BY DEF files, data, sourceVars, buildVars
<1>3. Steady /\ JobInv(step, j)'
  BY <1>1, NoFileTouched
<1>4. (receipt # None => GoodReceipt(receipt))'
  BY <1>1, <1>2 DEF GoodReceipt, GoodFile, GoodRuntime
<1> QED
  BY <1>1, <1>2, <1>3, <1>4, StepOf DEF TypeOK

-----------------------------------------------------------------------------
\* What is known of a shell before its step.
LEMMA Before ==
  ASSUME NEW c \in Clis, Inv
  PROVE  /\ TypeOK /\ JobInv(pc[c], job[c]) /\ job[c] \in Jobs
         /\ pc[c] \in Steps
         /\ job = [job EXCEPT ![c] = job[c]]
  BY DEF Inv, TypeOK, Steps

\* A shell that ends forgets everything, and may do so at any time.
LEMMA Leaving ==
  ASSUME NEW c \in Clis, Inv, Leave(c)
  PROVE  /\ NewJob \in Jobs /\ "idle" \in Steps
         /\ pc' = [pc EXCEPT ![c] = "idle"] /\ job' = [job EXCEPT ![c] = NewJob]
         /\ JobInv("idle", NewJob) /\ JobInv("idle", NewJob)'
<1>1. NewJob \in Jobs
  BY DEF NewJob, Jobs, Missing
<1>2. JobInv("idle", NewJob) /\ JobInv("idle", NewJob)'
  BY DEF JobInv, NewJob, Verified, TreeStands, TreeMarked, BuildBegun, Built, StartSteps
<1> QED
  BY <1>1, <1>2 DEF Leave, GoTo, Steps

\* A file that is there is one of its versions.
LEMMA FileThere ==
  ASSUME TypeOK, file # Missing
  PROVE  file \in 1 .. Len(body) /\ file \in Nat /\ body[file] \in Contents
<1>1. body \in Seq(Contents) /\ Len(body) \in Nat /\ file \in 0 .. Len(body)
  BY DEF TypeOK
<1>2. file \in 1 .. Len(body) /\ file \in Nat
  BY <1>1 DEF Missing
<1> QED
  BY <1>1, <1>2

\* A step that only goes on.
LEMMA QuietGoTo ==
  ASSUME NEW c \in Clis, Inv, NEW step \in Steps, GoTo(c, step),
         UNCHANGED <<files, job>>, JobInv(step, job[c])
  PROVE  Inv'
<1>1. job[c] \in Jobs /\ job' = [job EXCEPT ![c] = job[c]]
  BY DEF Inv, TypeOK
<1> QED
  BY <1>1, QuietStep DEF GoTo

\* A shell that dies leaves no file half written.
LEMMA FailKeeps ==
  ASSUME NEW c \in Clis, Inv, Fail(c)
  PROVE  Inv'
<1>1. Leave(c) /\ UNCHANGED files
  BY DEF Fail, files
<1> QED
  BY <1>1, Leaving, QuietStep

\* The spawn writes no file of the launcher.
LEMMA LaunchKeeps ==
  ASSUME NEW c \in Clis, Inv, Launch(c)
  PROVE  Inv'
<1>1. Leave(c) /\ UNCHANGED files
  BY DEF Launch, files
<1> QED
  BY <1>1, Leaving, QuietStep

\* prepare only remembers a receipt of its own descriptor.
LEMMA PrepareKeeps ==
  ASSUME NEW c \in Clis, Inv, Prepare(c)
  PROVE  Inv'
<1>1. PICK r \in Releases :
        job' = [job EXCEPT ![c] =
          [NewJob EXCEPT !.release = r,
                         !.old = IF receipt # None /\ receipt.release = r
                                   THEN receipt ELSE None]]
  BY DEF Prepare
<1> DEFINE j == [NewJob EXCEPT !.release = r,
                               !.old = IF receipt # None /\ receipt.release = r
                                         THEN receipt ELSE None]
<1>2. receipt \in Receipts \union {None} /\ (receipt # None => GoodReceipt(receipt))
  BY DEF Inv, TypeOK
<1>3. /\ j \in Jobs /\ j.release = r
      /\ j.old # None => GoodReceipt(j.old) /\ j.old.release = r
  BY <1>2 DEF NewJob, Jobs, Missing
<1>4. JobInv("download", j)
  BY <1>3 DEF JobInv, Verified, TreeStands, TreeMarked, BuildBegun, Built, StartSteps
<1>5. "download" \in Steps /\ pc' = [pc EXCEPT ![c] = "download"] /\ UNCHANGED files
  BY DEF Prepare, GoTo, files, Steps, PrepareSteps
<1> QED
  BY <1>1, <1>3, <1>4, <1>5, QuietStep

\* An old record is only used when it fits, and was good.
LEMMA StatKeeps ==
  ASSUME NEW c \in Clis, Inv, Stat(c)
  PROVE  Inv'
<1> DEFINE j == job[c]
           k == [j EXCEPT !.after = j.old.after, !.sha256 = j.old.sha256]
           h == [j EXCEPT !.before = file]
<1>1. TypeOK /\ JobInv("stat", j) /\ j \in Jobs /\ UNCHANGED files
  BY Before DEF Stat, files
<1>2. file \in 1 .. Len(body) /\ file \in Nat
  BY <1>1, FileThere DEF Stat
<1>3. CASE /\ j.old # None /\ j.old.after = file /\ j.old.sha256 = j.release.sha
           /\ GoTo(c, "extract") /\ job' = [job EXCEPT ![c] = k]
  <2>1. j.old \in Receipts
    BY <1>1, <1>3 DEF Jobs
  <2>2. k \in Jobs /\ k.old = j.old /\ k.release = j.release /\ k.after = j.old.after
        /\ k.sha256 = j.old.sha256
    BY <1>1, <2>1 DEF Jobs, Receipts
  <2>3. JobInv("extract", k)
    BY <1>1, <1>3, <2>2 DEF JobInv, GoodReceipt, TreeStands, TreeMarked, BuildBegun, Built,
       StartSteps
  <2> QED
    BY <1>1, <1>3, <2>2, <2>3, QuietStep DEF GoTo, Steps, PrepareSteps
<1>4. CASE GoTo(c, "hash") /\ job' = [job EXCEPT ![c] = h]
  <2>1. h \in Jobs /\ h.old = j.old /\ h.release = j.release /\ h.before = file
    BY <1>1, <1>2 DEF Jobs
  <2>2. JobInv("hash", h)
    BY <1>1, <1>2, <2>1 DEF JobInv, Verified, TreeStands, TreeMarked, BuildBegun, Built,
       StartSteps
  <2> QED
    BY <1>1, <1>4, <2>1, <2>2, QuietStep DEF GoTo, Steps, PrepareSteps
<1> QED
  BY <1>3, <1>4 DEF Stat

\* The hash is that of the file as it is, whatever it was before.
LEMMA HashKeeps ==
  ASSUME NEW c \in Clis, Inv, Hash(c)
  PROVE  Inv'
<1> DEFINE j == job[c]
           k == [j EXCEPT !.sha256 = body[file]]
<1>1. TypeOK /\ JobInv("hash", j) /\ j \in Jobs /\ UNCHANGED files
  BY Before DEF Hash, files
<1>2. file \in 1 .. Len(body) /\ body[file] \in Contents
  BY <1>1, FileThere DEF Hash
<1>3. k \in Jobs /\ k.old = j.old /\ k.release = j.release /\ k.before = j.before
      /\ k.sha256 = body[file]
  BY <1>1, <1>2 DEF Jobs
<1>4. JobInv("stat again", k)
  BY <1>1, <1>3 DEF JobInv, Verified, TreeStands, TreeMarked, BuildBegun, Built, StartSteps
<1>5. job' = [job EXCEPT ![c] = k] /\ pc' = [pc EXCEPT ![c] = "stat again"]
      /\ "stat again" \in Steps
  BY DEF Hash, GoTo, Steps, PrepareSteps
<1> QED
  BY <1>1, <1>3, <1>4, <1>5, QuietStep

\* Same version before and after: the hash is that of this version.
LEMMA StatAgainKeeps ==
  ASSUME NEW c \in Clis, Inv, StatAgain(c)
  PROVE  Inv'
<1> DEFINE j == job[c]
           k == [j EXCEPT !.after = file]
<1>1. TypeOK /\ JobInv("stat again", j) /\ j \in Jobs /\ UNCHANGED files
  BY Before DEF StatAgain, files
<1>2. file \in 1 .. Len(body) /\ file \in Nat /\ j.before = file
      /\ j.sha256 = j.release.sha
  BY <1>1, FileThere DEF StatAgain
<1>3. k \in Jobs /\ k.old = j.old /\ k.release = j.release /\ k.after = file
      /\ k.sha256 = j.sha256
  BY <1>1, <1>2 DEF Jobs
<1>4. JobInv("extract", k)
  BY <1>1, <1>2, <1>3 DEF JobInv, GoodFile, TreeStands, TreeMarked, BuildBegun, Built,
     StartSteps
<1>5. job' = [job EXCEPT ![c] = k] /\ pc' = [pc EXCEPT ![c] = "extract"]
      /\ "extract" \in Steps
  BY DEF StatAgain, GoTo, Steps, PrepareSteps
<1> QED
  BY <1>1, <1>3, <1>4, <1>5, QuietStep

\* A tree that is used again is the one of this release, and marked.
LEMMA ExtractKeeps ==
  ASSUME NEW c \in Clis, Inv, Extract(c)
  PROVE  Inv'
<1>1. JobInv("extract", job[c]) /\ UNCHANGED <<files, job>>
  BY Before DEF Extract, files
<1>2. CASE GoTo(c, "replace")
  <2>1. JobInv("replace", job[c])
    BY <1>1 DEF JobInv, Verified, TreeStands, TreeMarked, BuildBegun, Built, StartSteps
  <2> QED
    BY <1>1, <1>2, <2>1, QuietGoTo DEF Steps, PrepareSteps
<1>3. CASE /\ source_json = job[c].release.source /\ tree = job[c].release.source
           /\ GoTo(c, "recognize")
  <2>1. JobInv("recognize", job[c])
    BY <1>1, <1>3 DEF JobInv, Verified, TreeStands, TreeMarked, BuildBegun, Built,
       StartSteps
  <2> QED
    BY <1>1, <1>3, <2>1, QuietGoTo DEF Steps, PrepareSteps
<1> QED
  BY <1>2, <1>3 DEF Extract

\* A build directory that is used again.
LEMMA RecognizeKeeps ==
  ASSUME NEW c \in Clis, Inv, Recognize(c)
  PROVE  Inv'
<1>1. JobInv("recognize", job[c]) /\ UNCHANGED <<files, job>> /\ GoTo(c, "mkdir")
  BY Before DEF Recognize, files
<1>2. JobInv("mkdir", job[c])
  BY <1>1 DEF JobInv, Verified, TreeStands, TreeMarked, BuildBegun, Built, StartSteps
<1> QED
  BY <1>1, <1>2, QuietGoTo DEF Steps, PrepareSteps

\* The server that is recorded is the one that was just made.
LEMMA IdentityKeeps ==
  ASSUME NEW c \in Clis, Inv, Identity(c)
  PROVE  Inv'
<1> DEFINE j == job[c]
           k == [j EXCEPT !.runtime = binary]
<1>1. TypeOK /\ JobInv("identity", j) /\ j \in Jobs /\ UNCHANGED files
  BY Before DEF Identity, files
<1>2. binary \in Nat
  <2>1. Len(madeFrom) \in Nat /\ binary \in 0 .. Len(madeFrom)
    BY <1>1 DEF TypeOK
  <2> QED
    BY <2>1
<1>3. k \in Jobs /\ k.old = j.old /\ k.release = j.release /\ k.after = j.after
      /\ k.sha256 = j.sha256 /\ k.runtime = binary
  BY <1>1, <1>2 DEF Jobs
<1>4. JobInv("release", k)
  BY <1>1, <1>3 DEF JobInv, Verified, TreeStands, TreeMarked, BuildBegun, Built, StartSteps
<1>5. job' = [job EXCEPT ![c] = k] /\ pc' = [pc EXCEPT ![c] = "release"]
      /\ "release" \in Steps
  BY DEF Identity, GoTo, Steps, PrepareSteps
<1> QED
  BY <1>1, <1>3, <1>4, <1>5, QuietStep

\* start takes its release from release.json.
LEMMA StartKeeps ==
  ASSUME NEW c \in Clis, Inv, Start(c)
  PROVE  Inv'
<1> DEFINE j == job[c]
           k == [j EXCEPT !.release = release_json]
<1>1. TypeOK /\ JobInv("idle", j) /\ j \in Jobs /\ UNCHANGED files
  BY Before DEF Start, files
<1>2. release_json \in Releases
  BY <1>1 DEF Start, TypeOK
<1>3. k \in Jobs /\ k.old = j.old /\ k.release = release_json
  BY <1>1, <1>2 DEF Jobs
<1>4. JobInv("load receipt", k)
  BY <1>1, <1>2, <1>3 DEF JobInv, Verified, TreeStands, TreeMarked, BuildBegun, Built,
     StartSteps
<1>5. job' = [job EXCEPT ![c] = k] /\ pc' = [pc EXCEPT ![c] = "load receipt"]
      /\ "load receipt" \in Steps
  BY DEF Start, GoTo, Steps, StartSteps
<1> QED
  BY <1>1, <1>3, <1>4, <1>5, QuietStep

\* A receipt of another release than the one just read is refused.
LEMMA LoadReceiptKeeps ==
  ASSUME NEW c \in Clis, Inv, LoadReceipt(c)
  PROVE  Inv'
<1> DEFINE j == job[c]
           k == [j EXCEPT !.old = receipt]
<1>1. TypeOK /\ JobInv("load receipt", j) /\ j \in Jobs /\ UNCHANGED files
  BY Before DEF LoadReceipt, files
<1>2. /\ receipt # None /\ receipt \in Receipts /\ GoodReceipt(receipt)
      /\ receipt.release = j.release
  BY <1>1 DEF LoadReceipt, TypeOK, Inv
<1>3. k \in Jobs /\ k.old = receipt /\ k.release = j.release
  BY <1>1, <1>2 DEF Jobs
<1>4. JobInv("check asset", k)
  BY <1>1, <1>2, <1>3 DEF JobInv, Verified, TreeStands, TreeMarked, BuildBegun, Built
<1>5. job' = [job EXCEPT ![c] = k] /\ pc' = [pc EXCEPT ![c] = "check asset"]
      /\ "check asset" \in Steps
  BY DEF LoadReceipt, GoTo, Steps, StartSteps
<1> QED
  BY <1>1, <1>3, <1>4, <1>5, QuietStep

\* The asset is the version of the receipt, which was good.
LEMMA CheckAssetKeeps ==
  ASSUME NEW c \in Clis, Inv, CheckAsset(c)
  PROVE  Inv'
<1> DEFINE j == job[c]
           k == [j EXCEPT !.after = file]
<1>1. TypeOK /\ JobInv("check asset", j) /\ j \in Jobs /\ UNCHANGED files
  BY Before DEF CheckAsset, files
<1>2. file \in Nat /\ j.old.after = file
  BY <1>1, FileThere DEF CheckAsset
<1>3. k \in Jobs /\ k.old = j.old /\ k.release = j.release /\ k.after = file
  BY <1>1, <1>2 DEF Jobs
<1>4. GoodFile(k.release, k.after) /\ k.old # None
  BY <1>1, <1>2, <1>3 DEF JobInv, GoodReceipt, StartSteps
<1>5. JobInv("check runtime", k)
  BY <1>1, <1>3, <1>4 DEF JobInv, Verified, TreeStands, TreeMarked, BuildBegun, Built
<1>6. job' = [job EXCEPT ![c] = k] /\ pc' = [pc EXCEPT ![c] = "check runtime"]
      /\ "check runtime" \in Steps
  BY DEF CheckAsset, GoTo, Steps, StartSteps
<1> QED
  BY <1>1, <1>3, <1>5, <1>6, QuietStep

\* So is the server.
LEMMA CheckRuntimeKeeps ==
  ASSUME NEW c \in Clis, Inv, CheckRuntime(c)
  PROVE  Inv'
<1> DEFINE j == job[c]
           k == [j EXCEPT !.runtime = binary]
<1>1. TypeOK /\ JobInv("check runtime", j) /\ j \in Jobs /\ UNCHANGED files
  BY Before DEF CheckRuntime, files
<1>2. j.old # None /\ j.old.runtime = binary /\ GoodReceipt(j.old)
      /\ j.old.release = j.release
  BY <1>1 DEF CheckRuntime, JobInv, StartSteps
<1>3. binary \in Nat /\ GoodRuntime(j.release, binary)
  BY <1>2 DEF GoodReceipt, GoodRuntime
<1>4. k \in Jobs /\ k.old = j.old /\ k.release = j.release /\ k.after = j.after
      /\ k.runtime = binary
  BY <1>1, <1>3 DEF Jobs
<1>5. JobInv("write index", k)
  BY <1>1, <1>2, <1>3, <1>4 DEF JobInv, Verified, TreeStands, TreeMarked, BuildBegun, Built
<1>6. job' = [job EXCEPT ![c] = k] /\ pc' = [pc EXCEPT ![c] = "write index"]
      /\ "write index" \in Steps
  BY DEF CheckRuntime, GoTo, Steps, StartSteps
<1> QED
  BY <1>1, <1>4, <1>5, <1>6, QuietStep

-----------------------------------------------------------------------------
(* Steps that touch a file. *)

\* NewFile adds a version and keeps the others.
LEMMA NewFileSteady ==
  ASSUME TypeOK, NewFile
  PROVE  /\ body' \in Seq(Contents) /\ file' \in 0 .. Len(body')
         /\ Len(body') \in Nat /\ Len(body) <= Len(body')
         /\ \A v \in 1 .. Len(body) : body'[v] = body[v]
         /\ file' \notin 1 .. Len(body)
<1>1. body \in Seq(Contents) /\ Len(body) \in Nat
  BY DEF TypeOK
<1>2. PICK content \in Contents : body' = Append(body, content)
  BY DEF NewFile
<1>3. /\ body' \in Seq(Contents) /\ Len(body') = Len(body) + 1
      /\ \A v \in 1 .. Len(body) : body'[v] = body[v]
  BY <1>1, <1>2
<1>4. file' = Len(body) + 1
  BY DEF NewFile
<1> QED
  BY <1>1, <1>3, <1>4

\* A step that changes files, but not what the shell remembers.
LEMMA FileStep ==
  ASSUME NEW c \in Clis, Inv, NEW step \in Steps, NEW j \in Jobs, j = job[c],
         GoTo(c, step), job' = job, Steady, JobInv(step, j)',
         /\ body' \in Seq(Contents) /\ file' \in 0 .. Len(body')
         /\ tree' \in Sources \union {None}
         /\ source_json' \in Sources \union {None}
         /\ build_dir' \in BOOLEAN
         /\ build_json' \in Sources \union {None}
         /\ madeFrom' \in Seq(Sources) /\ binary' \in 0 .. Len(madeFrom')
         /\ index' \in Releases \union {None}
         /\ release_json' \in Releases \union {None},
         receipt' = receipt
  PROVE  Inv'
<1>1. job' = [job EXCEPT ![c] = j] /\ pc' = [pc EXCEPT ![c] = step]
  BY Before DEF GoTo
<1>2. (receipt # None => GoodReceipt(receipt))'
  BY GoodStays DEF Inv, GoodReceipt
<1>3. receipt' \in Receipts \union {None}
  BY DEF Inv, TypeOK
<1> QED
  BY <1>1, <1>2, <1>3, StepOf

\* The same, of a shell whose asset is verified: what it knows of the asset and
\* of its old receipt stays.
LEMMA VerifiedStays ==
  ASSUME Steady, NEW step \in Verified, NEW j, JobInv(step, j)
  PROVE  /\ j.release \in Releases
         /\ j.old # None => GoodReceipt(j.old)' /\ j.old.release = j.release
         /\ GoodFile(j.release, j.after)' /\ j.sha256 = j.release.sha
  BY GoodStays DEF JobInv, GoodReceipt, Verified

\* A missing asset is fetched as a new version.
LEMMA DownloadKeeps ==
  ASSUME NEW c \in Clis, Inv, Download(c)
  PROVE  Inv'
<1>1. TypeOK /\ JobInv("download", job[c]) /\ job[c] \in Jobs
  BY Before DEF Download
<1>2. /\ UNCHANGED <<tree, source_json, build_dir, build_json, binary, madeFrom, index,
                     release_json, receipt, job>>
      /\ GoTo(c, "stat") /\ "stat" \in Steps
  BY DEF Download, sourceVars, buildVars, Steps, PrepareSteps
<1>3. /\ body' \in Seq(Contents) /\ file' \in 0 .. Len(body')
      /\ Len(body') \in Nat /\ Len(body) <= Len(body')
      /\ \A v \in 1 .. Len(body) : body'[v] = body[v]
      /\ file' = file \/ file' \notin 1 .. Len(body)
  <2>1. CASE NewFile
    BY <1>1, <2>1, NewFileSteady
  <2>2. CASE UNCHANGED data
    <3>1. body' = body /\ file' = file
      BY <2>2 DEF data
    <3>2. body \in Seq(Contents) /\ file \in 0 .. Len(body) /\ Len(body) \in Nat
      BY <1>1 DEF TypeOK
    <3> QED
      BY <3>1, <3>2
  <2> QED
    BY <2>1, <2>2 DEF Download
<1>4. Steady
  <2>1. Len(madeFrom) \in Nat
    BY <1>1 DEF TypeOK
  <2> QED
    BY <1>2, <1>3, <2>1 DEF Steady
<1>5. PICK j \in Jobs : j = job[c]
  BY <1>1
<1>6. JobInv("stat", j)'
  <2>1. j.old # None => GoodReceipt(j.old)'
    BY <1>1, <1>4, <1>5, GoodStays DEF JobInv, GoodReceipt
  <2> QED
    BY <1>1, <1>5, <2>1 DEF JobInv, Verified, TreeStands, TreeMarked, BuildBegun, Built,
       StartSteps
<1> QED
  BY <1>1, <1>2, <1>3, <1>4, <1>5, <1>6, FileStep DEF TypeOK, Inv

\* A step that only works on the tree and on the markers.
LEMMA MarkersSteady ==
  ASSUME TypeOK, UNCHANGED <<file, body, binary, madeFrom>>,
         tree' = tree \/ tree = None,
         source_json' \in {source_json, tree}, build_json' \in {build_json, tree}
  PROVE  Steady
<1>1. Len(body) \in Nat /\ Len(madeFrom) \in Nat
  BY DEF TypeOK
<1>2. file' = file /\ body' = body /\ binary' = binary /\ madeFrom' = madeFrom
  OBVIOUS
<1> QED
  BY <1>1, <1>2 DEF Steady

\* The tree is only put where none was.
LEMMA ReplaceKeeps ==
  ASSUME NEW c \in Clis, Inv, Replace(c)
  PROVE  Inv'
<1>1. TypeOK /\ JobInv("replace", job[c]) /\ job[c] \in Jobs
  BY Before DEF Replace
<1>2. PICK j \in Jobs : j = job[c]
  BY <1>1
<1>3. /\ UNCHANGED <<file, body, source_json, build_dir, build_json, binary, madeFrom,
                     index, release_json, receipt, job>>
      /\ GoTo(c, "mark source") /\ "mark source" \in Steps
      /\ tree = None /\ tree' = j.release.source
  BY <1>2 DEF Replace, data, buildVars, Steps, PrepareSteps
<1>4. Steady
  BY <1>1, <1>3, MarkersSteady
<1>5. tree' \in Sources
  BY <1>1, <1>2, <1>3, ReleasesAssumption DEF JobInv
<1>6. JobInv("mark source", j)'
  <2>1. "replace" \in Verified
    BY DEF Verified
  <2> QED
    BY <1>1, <1>2, <1>3, <1>4, <2>1, VerifiedStays
       DEF JobInv, TreeMarked, TreeStands, BuildBegun, Built, StartSteps
<1> QED
  BY <1>1, <1>2, <1>3, <1>4, <1>5, <1>6, FileStep DEF TypeOK, Inv

\* The marker of the tree.
LEMMA MarkSourceKeeps ==
  ASSUME NEW c \in Clis, Inv, MarkSource(c)
  PROVE  Inv'
<1>1. TypeOK /\ JobInv("mark source", job[c]) /\ job[c] \in Jobs
  BY Before DEF MarkSource
<1>2. PICK j \in Jobs : j = job[c]
  BY <1>1
<1>3. /\ UNCHANGED <<file, body, tree, build_dir, build_json, binary, madeFrom,
                     index, release_json, receipt, job>>
      /\ GoTo(c, "recognize") /\ "recognize" \in Steps
      /\ source_json' = j.release.source
  BY <1>2 DEF MarkSource, data, buildVars, Steps, PrepareSteps
<1>4. source_json' \in Sources /\ source_json' = tree
  BY <1>1, <1>2, <1>3, ReleasesAssumption DEF JobInv, Verified, TreeStands
<1>5. Steady
  BY <1>1, <1>3, <1>4, MarkersSteady
<1>6. JobInv("recognize", j)'
  <2>1. "mark source" \in Verified /\ "mark source" \in TreeStands
    BY DEF Verified, TreeStands
  <2> QED
    BY <1>1, <1>2, <1>3, <1>4, <1>5, <2>1, VerifiedStays
       DEF JobInv, BuildBegun, Built, StartSteps
<1> QED
  BY <1>1, <1>2, <1>3, <1>4, <1>5, <1>6, FileStep DEF TypeOK, Inv

\* The build directory.
LEMMA MkdirKeeps ==
  ASSUME NEW c \in Clis, Inv, Mkdir(c)
  PROVE  Inv'
<1>1. TypeOK /\ JobInv("mkdir", job[c]) /\ job[c] \in Jobs
  BY Before DEF Mkdir
<1>2. PICK j \in Jobs : j = job[c]
  BY <1>1
<1>3. /\ UNCHANGED <<file, body, tree, source_json, build_json, binary, madeFrom,
                     index, release_json, receipt, job>>
      /\ GoTo(c, "mark build") /\ "mark build" \in Steps
      /\ build_dir' \in BOOLEAN
  BY DEF Mkdir, data, sourceVars, Steps, PrepareSteps
<1>4. Steady
  BY <1>1, <1>3, MarkersSteady
<1>5. JobInv("mark build", j)'
  <2>1. "mkdir" \in Verified /\ "mkdir" \in TreeStands /\ "mkdir" \in TreeMarked
    BY DEF Verified, TreeStands, TreeMarked
  <2> QED
    BY <1>1, <1>2, <1>3, <1>4, <2>1, VerifiedStays DEF JobInv, BuildBegun, Built, StartSteps
<1> QED
  BY <1>1, <1>2, <1>3, <1>4, <1>5, FileStep DEF TypeOK, Inv

\* The marker of the build, before and after it.
LEMMA MarkBuildKeeps ==
  ASSUME NEW c \in Clis, Inv, MarkBuild(c)
  PROVE  Inv'
<1>1. TypeOK /\ JobInv(pc[c], job[c]) /\ job[c] \in Jobs
  BY Before
<1>2. PICK j \in Jobs : j = job[c]
  BY <1>1
<1> DEFINE now == pc[c]
           next == IF now = "mark build" THEN "compile" ELSE "index"
<1>3. /\ UNCHANGED <<file, body, tree, source_json, build_dir, binary, madeFrom,
                     index, release_json, receipt, job>>
      /\ now \in {"mark build", "mark built"}
      /\ GoTo(c, next) /\ next \in Steps
      /\ build_json' = j.release.source
  BY <1>2 DEF MarkBuild, data, sourceVars, Steps, PrepareSteps
<1>4. /\ now \in Verified /\ now \in TreeStands /\ now \in TreeMarked
      /\ (next = "index" => now \in Built) /\ next \in {"compile", "index"}
  BY <1>3 DEF Verified, TreeStands, TreeMarked, Built
<1>5. build_json' \in Sources /\ build_json' = tree
  BY <1>1, <1>2, <1>3, <1>4, ReleasesAssumption DEF JobInv, Verified
<1>6. Steady
  BY <1>1, <1>3, <1>5, MarkersSteady
<1>7. \A step \in {"compile", "index"} :
        (step = "index" => now \in Built) => JobInv(step, j)'
  <2>1. now \in Built => GoodRuntime(j.release, binary)'
    <3>1. now \in Built => GoodRuntime(j.release, binary)
      BY <1>1, <1>2 DEF JobInv
    <3> QED
      BY <1>3, <3>1 DEF GoodRuntime
  <2>2. /\ j.release \in Releases
        /\ j.old # None => GoodReceipt(j.old)' /\ j.old.release = j.release
        /\ GoodFile(j.release, j.after)' /\ j.sha256 = j.release.sha
    BY <1>1, <1>2, <1>4, <1>6, VerifiedStays
  <2>3. /\ tree' = j.release.source /\ source_json' = j.release.source
        /\ build_json' = j.release.source
    BY <1>1, <1>2, <1>3, <1>4, <1>5 DEF JobInv
  <2> SUFFICES ASSUME NEW step \in {"compile", "index"}, step = "index" => now \in Built
               PROVE  JobInv(step, j)'
    OBVIOUS
  <2>4. /\ step \notin {"idle", "hash", "stat again", "release", "receipt"} \union StartSteps
        /\ step \in Built => step = "index"
    BY DEF StartSteps, Built
  <2> HIDE DEF now, next
  <2> QED
    BY <2>1, <2>2, <2>3, <2>4 DEF JobInv, StartSteps
<1>8. PICK step \in {"compile", "index"} : step = next
  BY <1>4
<1>9. JobInv(step, j)' /\ step \in Steps /\ GoTo(c, step)
  BY <1>3, <1>4, <1>7, <1>8
<1> QED
  BY <1>1, <1>2, <1>3, <1>5, <1>6, <1>9, FileStep DEF TypeOK, Inv

\* cmake makes the server from the tree of this release, or leaves one that was.
LEMMA CompileKeeps ==
  ASSUME NEW c \in Clis, Inv, Compile(c)
  PROVE  Inv'
<1>1. TypeOK /\ JobInv("compile", job[c]) /\ job[c] \in Jobs
  BY Before DEF Compile
<1>2. PICK j \in Jobs : j = job[c]
  BY <1>1
<1>3. /\ UNCHANGED <<file, body, tree, source_json, build_dir, build_json, index,
                     release_json, receipt, job>>
      /\ GoTo(c, "mark built") /\ "mark built" \in Steps
  BY DEF Compile, data, sourceVars, Steps, PrepareSteps
<1>4. /\ "compile" \in Verified /\ "compile" \in TreeStands /\ "compile" \in TreeMarked
      /\ "compile" \in BuildBegun
  BY DEF Verified, TreeStands, TreeMarked, BuildBegun
<1>5. j.release \in Releases /\ tree = j.release.source
  BY <1>1, <1>2, <1>4 DEF JobInv
<1>6. tree \in Sources
  BY <1>5, ReleasesAssumption
<1>7. madeFrom \in Seq(Sources) /\ Len(madeFrom) \in Nat /\ binary \in 0 .. Len(madeFrom)
  BY <1>1 DEF TypeOK
<1>8. /\ madeFrom' \in Seq(Sources) /\ binary' \in 1 .. Len(madeFrom')
      /\ Len(madeFrom') \in Nat /\ Len(madeFrom) <= Len(madeFrom')
      /\ \A v \in 1 .. Len(madeFrom) : madeFrom'[v] = madeFrom[v]
      /\ madeFrom'[binary'] = tree
  <2>1. CASE binary # Missing /\ madeFrom[binary] = tree /\ UNCHANGED <<binary, madeFrom>>
    BY <2>1, <1>7 DEF Missing
  <2>2. CASE madeFrom' = Append(madeFrom, tree) /\ binary' = Len(madeFrom) + 1
    BY <2>2, <1>6, <1>7
  <2> QED
    BY <2>1, <2>2 DEF Compile
<1>9. Steady
  <2>1. Len(body) \in Nat
    BY <1>1 DEF TypeOK
  <2>2. file' = file /\ body' = body /\ tree' = tree /\ source_json' = source_json
        /\ build_json' = build_json
    BY <1>3
  <2> QED
    BY <1>8, <2>1, <2>2 DEF Steady
<1>10. JobInv("mark built", j)'
  <2>1. GoodRuntime(j.release, binary)'
    BY <1>5, <1>8 DEF GoodRuntime
  <2>2. /\ j.old # None => GoodReceipt(j.old)' /\ j.old.release = j.release
        /\ GoodFile(j.release, j.after)' /\ j.sha256 = j.release.sha
    BY <1>1, <1>2, <1>4, <1>9, VerifiedStays
  <2>3. /\ tree' = j.release.source /\ source_json' = j.release.source
        /\ build_json' = j.release.source
    BY <1>1, <1>2, <1>3, <1>4 DEF JobInv
  <2>4. "mark built" \notin {"idle", "hash", "stat again", "release", "receipt"}
                            \union StartSteps
    BY DEF StartSteps
  <2> QED
    BY <1>5, <2>1, <2>2, <2>3, <2>4 DEF JobInv, StartSteps
<1>11. binary' \in 0 .. Len(madeFrom')
  BY <1>8
<1> QED
  BY <1>1, <1>2, <1>3, <1>8, <1>9, <1>10, <1>11, FileStep DEF TypeOK, Inv

\* A step that writes none of the files another shell relies on.
LEMMA OtherFileStep ==
  ASSUME NEW c \in Clis, Inv, NEW step \in Steps, NEW j \in Jobs, j = job[c],
         GoTo(c, step), job' = job, UNCHANGED <<data, sourceVars, buildVars, receipt>>,
         index' \in Releases \union {None}, release_json' \in Releases \union {None},
         JobInv(step, j)
  PROVE  Inv'
<1>1. UNCHANGED <<file, body, tree, source_json, build_dir, build_json, binary, madeFrom>>
  BY DEF data, sourceVars, buildVars
<1>2. TypeOK
  BY DEF Inv
<1>3. Steady
  BY <1>1, <1>2, MarkersSteady
<1>4. JobInv(step, j)'
  BY <1>1 DEF JobInv, GoodReceipt, GoodFile, GoodRuntime
<1> QED
  BY <1>1, <1>2, <1>3, <1>4, FileStep DEF TypeOK

\* The index, of prepare and of start.
LEMMA WriteIndexKeeps ==
  ASSUME NEW c \in Clis, Inv, WriteIndex(c)
  PROVE  Inv'
<1>1. TypeOK /\ JobInv(pc[c], job[c]) /\ job[c] \in Jobs
  BY Before
<1>2. PICK j \in Jobs : j = job[c]
  BY <1>1
<1>3. /\ job' = job /\ UNCHANGED <<data, sourceVars, buildVars, receipt>>
      /\ index' = j.release /\ release_json' = release_json
  BY <1>2 DEF WriteIndex
<1>4. j.release \in Releases /\ release_json \in Releases \union {None}
  BY <1>1, <1>2 DEF WriteIndex, JobInv, TypeOK
<1>5. CASE pc[c] = "index"
  <2>1. JobInv("identity", j)
    BY <1>1, <1>2, <1>5 DEF JobInv, Verified, TreeStands, TreeMarked, BuildBegun, Built,
       StartSteps
  <2>2. GoTo(c, "identity") /\ "identity" \in Steps
    BY <1>5 DEF WriteIndex, Steps, PrepareSteps
  <2> QED
    BY <1>2, <1>3, <1>4, <2>1, <2>2, OtherFileStep
<1>6. CASE pc[c] = "write index"
  <2>1. JobInv("launch", j)
    BY <1>1, <1>2, <1>6 DEF JobInv, Verified, TreeStands, TreeMarked, BuildBegun, Built,
       StartSteps
  <2>2. GoTo(c, "launch") /\ "launch" \in Steps
    BY <1>6 DEF WriteIndex, Steps, StartSteps
  <2> QED
    BY <1>2, <1>3, <1>4, <2>1, <2>2, OtherFileStep
<1> QED
  BY <1>5, <1>6 DEF WriteIndex

\* release.json
LEMMA WriteReleaseKeeps ==
  ASSUME NEW c \in Clis, Inv, WriteRelease(c)
  PROVE  Inv'
<1>1. TypeOK /\ JobInv("release", job[c]) /\ job[c] \in Jobs
  BY Before DEF WriteRelease
<1>2. PICK j \in Jobs : j = job[c]
  BY <1>1
<1>3. /\ job' = job /\ UNCHANGED <<data, sourceVars, buildVars, receipt>>
      /\ index' = index /\ release_json' = j.release
      /\ GoTo(c, "receipt") /\ "receipt" \in Steps
  BY <1>2 DEF WriteRelease, Steps, PrepareSteps
<1>4. j.release \in Releases /\ index \in Releases \union {None}
  BY <1>1, <1>2 DEF JobInv, TypeOK
<1>5. JobInv("receipt", j)
  BY <1>1, <1>2 DEF JobInv, Verified, TreeStands, TreeMarked, BuildBegun, Built, StartSteps
<1> QED
  BY <1>2, <1>3, <1>4, <1>5, OtherFileStep

\* receipt.json: what the shell has verified, and nothing else.
LEMMA WriteReceiptKeeps ==
  ASSUME NEW c \in Clis, Inv, WriteReceipt(c)
  PROVE  Inv'
<1>1. TypeOK /\ JobInv("receipt", job[c]) /\ job[c] \in Jobs
  BY Before DEF WriteReceipt
<1>2. PICK j \in Jobs : j = job[c]
  BY <1>1
<1>3. PICK x : x = [release |-> j.release, after |-> j.after, sha256 |-> j.sha256,
                    runtime |-> j.runtime]
  OBVIOUS
<1>4. /\ UNCHANGED <<file, body, tree, source_json, build_dir, build_json, binary, madeFrom,
                     index, release_json>>
      /\ receipt' = x /\ Leave(c)
  BY <1>2, <1>3 DEF WriteReceipt, data, sourceVars, buildVars
<1>5. /\ j.release \in Releases /\ GoodFile(j.release, j.after)
      /\ j.sha256 = j.release.sha /\ GoodRuntime(j.release, j.runtime)
  BY <1>1, <1>2 DEF JobInv, Verified
<1>6. GoodReceipt(x)
  BY <1>3, <1>5 DEF GoodReceipt
<1>7. x \in Receipts
  BY <1>2, <1>3, <1>5, ReleasesAssumption DEF Jobs, Receipts
<1>8. Steady
  BY <1>1, <1>4, MarkersSteady
<1>9. (receipt # None => GoodReceipt(receipt))'
  BY <1>4, <1>6, <1>8, GoodStays DEF GoodReceipt
<1> QED
  BY <1>1, <1>4, <1>7, <1>8, <1>9, Leaving, StepOf DEF TypeOK, Inv

-----------------------------------------------------------------------------
(* The operator. *)

\* A steady step of the operator keeps the invariant.
LEMMA OperatorStep ==
  ASSUME Inv, Steady, TypeOK', UNCHANGED <<pc, job, receipt, source_json, build_json>>
  PROVE  Inv'
<1>1. TypeOK
  BY DEF Inv
<1>2. (receipt # None => GoodReceipt(receipt))'
  BY GoodStays DEF Inv, GoodReceipt
<1>3. ASSUME NEW d \in Clis PROVE JobInv(pc[d], job[d])'
  <2>1. pc[d] \in Steps /\ JobInv(pc[d], job[d]) /\ pc'[d] = pc[d] /\ job'[d] = job[d]
    BY <1>1 DEF TypeOK, Steps, Inv
  <2> QED
    BY <1>1, <2>1, Bystander
<1> QED
  BY <1>2, <1>3 DEF Inv

\* A file that changes under the launcher becomes another version.
LEMMA ChangeFileKeeps ==
  ASSUME Inv, ChangeFile
  PROVE  Inv'
<1>1. TypeOK
  BY DEF Inv
<1>2. UNCHANGED <<tree, source_json, build_dir, build_json, binary, madeFrom, index,
                  release_json, receipt, pc, job>>
  BY DEF ChangeFile, sourceVars, buildVars, shells
<1>3. /\ body' \in Seq(Contents) /\ file' \in 0 .. Len(body')
      /\ Len(body') \in Nat /\ Len(body) <= Len(body')
      /\ \A v \in 1 .. Len(body) : body'[v] = body[v]
      /\ file' \notin 1 .. Len(body)
  <2>1. CASE NewFile
    BY <1>1, <2>1, NewFileSteady
  <2>2. CASE file' = Missing /\ body' = body
    <3>1. body \in Seq(Contents) /\ Len(body) \in Nat
      BY <1>1 DEF TypeOK
    <3> QED
      BY <2>2, <3>1 DEF Missing
  <2> QED
    BY <2>1, <2>2 DEF ChangeFile
<1>4. Len(madeFrom) \in Nat
  BY <1>1 DEF TypeOK
<1>5. Steady
  BY <1>2, <1>3, <1>4 DEF Steady
<1>6. TypeOK'
  BY <1>1, <1>2, <1>3 DEF TypeOK
<1> QED
  BY <1>2, <1>5, <1>6, OperatorStep

\* The tree goes while nobody relies on it.
LEMMA RemoveTreeKeeps ==
  ASSUME Inv, RemoveTree
  PROVE  Inv'
<1>1. TypeOK
  BY DEF Inv
<1>2. /\ UNCHANGED <<file, body, source_json, build_dir, build_json, binary, madeFrom, index,
                     release_json, receipt, pc, job>>
      /\ tree' = None
      /\ \A c \in Clis : pc[c] = "idle"
  BY DEF RemoveTree, data, buildVars, shells
<1>3. Len(body) \in Nat /\ Len(madeFrom) \in Nat
  BY <1>1 DEF TypeOK
<1>4. Steady
  <2>1. file' = file /\ body' = body /\ binary' = binary /\ madeFrom' = madeFrom
        /\ source_json' = source_json /\ build_json' = build_json
    BY <1>2
  <2> QED
    BY <1>2, <1>3, <2>1 DEF Steady
<1>5. TypeOK'
  BY <1>1, <1>2 DEF TypeOK
<1> QED
  BY <1>2, <1>4, <1>5, OperatorStep

-----------------------------------------------------------------------------
\* Every step keeps the invariant.
LEMMA InvNext == Inv /\ [Next]_vars => Inv'
<1> SUFFICES ASSUME Inv, [Next]_vars PROVE Inv'
  OBVIOUS
<1>1. ASSUME NEW c \in Clis, Step(c) PROVE Inv'
  BY <1>1, PrepareKeeps, DownloadKeeps, StatKeeps, HashKeeps, StatAgainKeeps, ExtractKeeps,
     ReplaceKeeps, MarkSourceKeeps, RecognizeKeeps, MkdirKeeps, MarkBuildKeeps, CompileKeeps,
     WriteIndexKeeps, IdentityKeeps, WriteReleaseKeeps, WriteReceiptKeeps, StartKeeps,
     LoadReceiptKeeps, CheckAssetKeeps, CheckRuntimeKeeps, LaunchKeeps, FailKeeps, Zenon
     DEF Step
<1>2. CASE ChangeFile
  BY <1>2, ChangeFileKeeps
<1>3. CASE RemoveTree
  BY <1>3, RemoveTreeKeeps
<1>4. CASE UNCHANGED vars
  <2>1. UNCHANGED <<file, body, tree, source_json, build_dir, build_json, binary, madeFrom,
                    index, release_json, receipt, pc, job>>
    BY <1>4 DEF vars, data, sourceVars, buildVars, shells
  <2>2. TypeOK /\ TypeOK'
    BY <2>1 DEF Inv, TypeOK
  <2>3. Steady
    BY <2>1, <2>2, MarkersSteady
  <2> QED
    BY <2>1, <2>2, <2>3, OperatorStep
<1> QED
  BY <1>1, <1>2, <1>3, <1>4 DEF Next

\* Between two commands what was verified lives in the receipt, and within one
\* in the variables of its shell: both are always right (prepare, load_prepared).
THEOREM PrepareInvariant == Spec => []Inv
  BY InvInit, InvNext, PTL DEF Spec

\* Every file and every variable of prepare and start has its type.
THEOREM PrepareTypes == Spec => []TypeOK
<1>1. Inv => TypeOK
  BY DEF Inv
<1> QED
  BY <1>1, PrepareInvariant, PTL

\* start spawns a server on the asset its release pins, though it hashes
\* nothing (verify_asset, load_prepared, start).
THEOREM OnlyVerifiedFiles == Spec => []OnlyVerifiedFilesRun
<1>1. Inv => OnlyVerifiedFilesRun
  BY DEF Inv, JobInv, GoodFile, OnlyVerifiedFilesRun
<1> QED
  BY <1>1, PrepareInvariant, PTL

\* The server it spawns was made from the source its release pins
\* (extract_source, build_runtime, runtime_identity).
THEOREM OnlyPinnedSource == Spec => []OnlyPinnedSourceRuns
<1>1. Inv => OnlyPinnedSourceRuns
  BY DEF Inv, JobInv, GoodRuntime, OnlyPinnedSourceRuns
<1> QED
  BY <1>1, PrepareInvariant, PTL

\* A tree is only put where none was, and the markers are only ever written for
\* the tree that stands there.
LEMMA MarkedAsItStands ==
  ASSUME Inv, [Next]_vars
  PROVE  /\ tree = None \/ tree' \in {tree, None}
         /\ source_json' = source_json \/ (tree # None /\ source_json' = tree)
         /\ build_json' = build_json \/ (tree # None /\ build_json' = tree)
<1>1. ASSUME NEW c \in Clis, Step(c)
      PROVE  \/ UNCHANGED <<tree, source_json, build_json>>
             \/ Replace(c) \/ MarkSource(c) \/ MarkBuild(c)
  BY <1>1 DEF Step, Prepare, Download, Stat, Hash, StatAgain, Extract, Recognize, Mkdir,
     Compile, WriteIndex, Identity, WriteRelease, WriteReceipt, Start, LoadReceipt,
     CheckAsset, CheckRuntime, Launch, Fail, sourceVars, buildVars
<1>2. ASSUME NEW c \in Clis, pc[c] \in TreeStands
      PROVE  tree = job[c].release.source /\ tree # None
  <2>1. JobInv(pc[c], job[c]) /\ pc[c] # "idle"
    BY <1>2 DEF Inv, TreeStands, Verified
  <2> QED
    BY <1>2, <2>1, ReleasesAssumption, NoneAssumption DEF JobInv
<1>3. ASSUME NEW c \in Clis, Replace(c)
      PROVE  tree = None /\ UNCHANGED <<source_json, build_json>>
  BY <1>3 DEF Replace, buildVars
<1>4. ASSUME NEW c \in Clis, MarkSource(c)
      PROVE  /\ tree # None /\ source_json' = tree
             /\ UNCHANGED <<tree, build_json>>
  <2>1. pc[c] \in TreeStands
    BY <1>4 DEF MarkSource, TreeStands, Verified
  <2> QED
    BY <1>2, <1>4, <2>1 DEF MarkSource, buildVars
<1>5. ASSUME NEW c \in Clis, MarkBuild(c)
      PROVE  /\ tree # None /\ build_json' = tree
             /\ UNCHANGED <<tree, source_json>>
  <2>1. pc[c] \in TreeStands
    BY <1>5 DEF MarkBuild, TreeStands, Verified
  <2> QED
    BY <1>2, <1>5, <2>1 DEF MarkBuild, sourceVars
<1>6. CASE RemoveTree
  BY <1>6 DEF RemoveTree, buildVars
<1>7. CASE ChangeFile \/ UNCHANGED vars
  BY <1>7 DEF ChangeFile, vars, sourceVars, buildVars
<1> QED
  BY <1>1, <1>3, <1>4, <1>5, <1>6, <1>7 DEF Next

\* A build that dies can be repeated, and only a new tree where the old one was
\* removed ends that for a build that is marked (extract_source, build_runtime).
THEOREM BuildRepeats == Spec => BuildCanBeRepeated
<1> DEFINE Begun == {"compile", "mark built", "index", "identity", "release", "receipt"}
           Now == \A c \in Clis : pc[c] \in Begun => Repeatable(job[c].release.source)
           Lasts == \A source \in Sources :
                      build_json = source /\ Repeatable(source) =>
                        Repeatable(source)' \/ (tree = None /\ tree' # None)
<1>1. Inv => Now
  <2> SUFFICES ASSUME Inv, NEW c \in Clis, pc[c] \in Begun
               PROVE  Repeatable(job[c].release.source)
    OBVIOUS
  <2>1. /\ JobInv(pc[c], job[c]) /\ pc[c] # "idle"
        /\ pc[c] \in TreeStands /\ pc[c] \in TreeMarked /\ pc[c] \in BuildBegun
    BY DEF Inv, BuildBegun, TreeMarked, TreeStands, Verified
  <2>2. /\ job[c].release.source # None
        /\ tree = job[c].release.source /\ source_json = job[c].release.source
        /\ build_json = job[c].release.source
    BY <2>1, ReleasesAssumption, NoneAssumption DEF JobInv
  <2> QED
    BY <2>2 DEF Repeatable
<1>2. Inv /\ [Next]_vars => Lasts
  <2> SUFFICES ASSUME Inv, [Next]_vars, NEW source \in Sources,
                      build_json = source, Repeatable(source),
                      ~ (tree = None /\ tree' # None)
               PROVE  Repeatable(source)'
    OBVIOUS
  <2>1. tree # None => tree = source /\ source_json = source
    BY DEF Repeatable
  <2>2. source # None
    BY NoneAssumption
  <2>3. build_json' = source
    BY <2>1, MarkedAsItStands
  <2>4. tree' # None => tree' = source /\ source_json' = source
    BY <2>1, MarkedAsItStands
  <2> QED
    BY <2>2, <2>3, <2>4 DEF Repeatable
<1>3. Spec => []Now /\ [][Lasts]_vars
  <2> HIDE DEF Now, Lasts
  <2> QED
    BY <1>1, <1>2, InvInit, InvNext, PTL DEF Spec
<1> QED
  BY <1>3 DEF BuildCanBeRepeated

-----------------------------------------------------------------------------
(* The rows of a release: the loop of continuous_rows is proved to visit   *)
(* every row once, what it has seen so far is stated of the rows in order, *)
(* and what it has seen at the end of the rows in any order.               *)

USE LayersAreNumbers

\* Induction over the naturals, said of a set of them: a number that is not in
\* the set would have a smallest one beside it.
LEMMA AllNaturals ==
  ASSUME NEW S, 0 \in S, \A n \in Nat : n \in S => n + 1 \in S
  PROVE  \A n \in Nat : n \in S
<1> DEFINE T == Nat \ S
<1> SUFFICES ASSUME T # {} PROVE FALSE
  OBVIOUS
<1>1. T \subseteq Nat
  OBVIOUS
<1> HIDE DEF T
<1>2. \E x \in T : \A y \in T : ~ (<<y, x>> \in OpToRel(<, Nat))
  BY <1>1, NatLessThanWellFounded, WFMin
<1>3. PICK x \in T : \A y \in T : ~ (<<y, x>> \in OpToRel(<, Nat))
  BY <1>2
<1>4. \A y \in T : ~ (y < x)
  BY <1>1, <1>3 DEF OpToRel
<1>5. x \in Nat /\ x # 0 /\ x - 1 \in Nat /\ x - 1 < x /\ (x - 1) + 1 = x
  BY <1>1 DEF T
<1>6. x - 1 \in S
  BY <1>4, <1>5 DEF T
<1>7. x \in S
  BY <1>5, <1>6
<1> QED
  BY <1>7 DEF T

-----------------------------------------------------------------------------

Lists(n) == [1 .. n -> Rows]

\* A descriptor is a list of rows.
LEMMA DescriptorIsList ==
  ASSUME NEW rows \in Descriptors
  PROVE  /\ Len(rows) \in Nat /\ Len(rows) <= Chunks
         /\ DOMAIN rows = 1 .. Len(rows)
         /\ rows \in Lists(Len(rows))
<1>1. PICK n \in 0 .. Chunks : rows \in [1 .. n -> Rows]
  BY DEF Descriptors
<1>2. n \in Nat /\ DOMAIN rows = 1 .. n
  BY <1>1
<1>3. rows \in Seq(Rows)
  BY <1>1, <1>2
<1>4. Len(rows) = n
  BY <1>2, <1>3
<1> QED
  BY <1>1, <1>2, <1>4 DEF Lists

\* What a row says.
LEMMA RowType ==
  ASSUME NEW n \in Nat, NEW list \in Lists(n), NEW i \in 1 .. n
  PROVE  /\ list[i] \in Rows
         /\ list[i].layer \in Layers /\ list[i].layer \in Nat
         /\ list[i].row_start \in 0 .. MaxRow /\ list[i].row_start \in Nat
         /\ list[i].row_count \in 1 .. MaxRow /\ list[i].row_count \in Nat
         /\ list[i].row_count > 0
         /\ list[i].row_start + list[i].row_count \in Nat
         /\ list[i].row_start + list[i].row_count <= 2 * MaxRow
<1>1. list[i] \in Rows
  BY DEF Lists
<1>2. /\ list[i].layer \in Layers /\ list[i].row_start \in 0 .. MaxRow
      /\ list[i].row_count \in 1 .. MaxRow
  BY <1>1 DEF Rows
<1> DEFINE start == list[i].row_start
           count == list[i].row_count
<1>3. start \in 0 .. MaxRow /\ count \in 1 .. MaxRow
  BY <1>2
<1> HIDE DEF start, count
<1>4. /\ start \in Nat /\ count \in Nat /\ count > 0
      /\ start + count \in Nat /\ start + count <= 2 * MaxRow
  BY <1>3
<1> QED
  BY <1>1, <1>2, <1>4 DEF start, count

-----------------------------------------------------------------------------
(* sorted() *)

\* sorted() puts row j before row i, or they are the same.
Precedes(rows, j, i) ==
  Earlier(rows[j], rows[i]) \/ (~Earlier(rows[i], rows[j]) /\ j <= i)

Preceding(rows, i) == {j \in 1 .. Len(rows) : Precedes(rows, j, i)}

\* That is a total order.
LEMMA TotalOrder ==
  ASSUME NEW rows \in Descriptors,
         NEW i \in 1 .. Len(rows), NEW j \in 1 .. Len(rows), NEW k \in 1 .. Len(rows)
  PROVE  /\ Precedes(rows, i, i)
         /\ Precedes(rows, i, j) \/ Precedes(rows, j, i)
         /\ Precedes(rows, i, j) /\ Precedes(rows, j, i) => i = j
         /\ Precedes(rows, i, j) /\ Precedes(rows, j, k) => Precedes(rows, i, k)
<1>1. \A m \in 1 .. Len(rows) : /\ m \in Nat
                                /\ rows[m].layer \in Nat /\ rows[m].row_start \in Nat
  BY DescriptorIsList, RowType
<1> QED
  BY <1>1 DEF Precedes, Earlier

\* A row's place is a position in the list, behind the places of all that precede it.
LEMMA PlaceGrows ==
  ASSUME NEW rows \in Descriptors
  PROVE  /\ \A i \in 1 .. Len(rows) : Place(rows, i) \in 1 .. Len(rows)
         /\ \A i, j \in 1 .. Len(rows) :
              i # j /\ Precedes(rows, j, i) => Place(rows, j) < Place(rows, i)
<1>1. Len(rows) \in Nat
  BY DescriptorIsList
<1>2. IsFiniteSet(1 .. Len(rows)) /\ Cardinality(1 .. Len(rows)) = Len(rows)
  <2>1. 1 \in Int /\ Len(rows) \in Int
    BY <1>1
  <2>2. /\ IsFiniteSet(1 .. Len(rows))
        /\ Cardinality(1 .. Len(rows)) = IF 1 > Len(rows) THEN 0 ELSE Len(rows) - 1 + 1
    BY <2>1, FS_Interval
  <2> QED
    BY <1>1, <2>2
<1>3. \A i \in 1 .. Len(rows) :
        /\ IsFiniteSet(Preceding(rows, i))
        /\ Cardinality(Preceding(rows, i)) \in Nat
        /\ Cardinality(Preceding(rows, i)) <= Len(rows)
        /\ Place(rows, i) = Cardinality(Preceding(rows, i))
  <2> TAKE i \in 1 .. Len(rows)
  <2>1. Preceding(rows, i) \in SUBSET (1 .. Len(rows))
    BY DEF Preceding
  <2>2. /\ IsFiniteSet(Preceding(rows, i))
        /\ Cardinality(Preceding(rows, i)) <= Cardinality(1 .. Len(rows))
    BY <1>2, <2>1, FS_Subset
  <2>3. Place(rows, i) = Cardinality(Preceding(rows, i))
    BY DEF Place, Preceding, Precedes
  <2> QED
    BY <1>2, <2>2, <2>3, FS_CardinalityType
<1>4. ASSUME NEW i \in 1 .. Len(rows) PROVE Place(rows, i) \in 1 .. Len(rows)
  <2>1. i \in Preceding(rows, i)
    BY TotalOrder DEF Preceding
  <2>2. Cardinality(Preceding(rows, i)) # 0
    BY <1>3, <2>1, FS_EmptySet
  <2> QED
    BY <1>1, <1>3, <2>2
<1>5. ASSUME NEW i \in 1 .. Len(rows), NEW j \in 1 .. Len(rows), i # j, Precedes(rows, j, i)
      PROVE  Place(rows, j) < Place(rows, i)
  <2>1. Preceding(rows, j) \in SUBSET Preceding(rows, i)
    BY <1>5, TotalOrder DEF Preceding
  <2>2. i \in Preceding(rows, i) /\ i \notin Preceding(rows, j)
    BY <1>5, TotalOrder DEF Preceding
  <2>3. /\ Cardinality(Preceding(rows, j)) <= Cardinality(Preceding(rows, i))
        /\ Cardinality(Preceding(rows, j)) # Cardinality(Preceding(rows, i))
    BY <1>3, <2>1, <2>2, FS_Subset
  <2> QED
    BY <1>3, <2>3
<1> QED
  BY <1>4, <1>5

\* The order of a sorted list: p[n] is where its n-th row was.
Sorts(p, rows) ==
  LET n == Len(rows)
  IN /\ p \in [1 .. n -> 1 .. n]
     /\ \A i \in 1 .. n : \E k \in 1 .. n : p[k] = i
     /\ \A k, m \in 1 .. n : p[k] = p[m] => k = m
     /\ \A k, m \in 1 .. n : k < m => ~Earlier(rows[p[m]], rows[p[k]])

\* sorted() rearranges the rows, in the order of their keys.
LEMMA SortedIsSorted ==
  ASSUME NEW rows \in Descriptors
  PROVE  \E p : Sorts(p, rows) /\ Sorted(rows) = [k \in 1 .. Len(rows) |-> rows[p[k]]]
<1> DEFINE n == Len(rows)
           place == [i \in 1 .. n |-> Place(rows, i)]
           p == [k \in 1 .. n |-> CHOOSE i \in 1 .. n : Place(rows, i) = k]
<1>1. n \in Nat
  BY DescriptorIsList
<1>2. place \in [1 .. n -> 1 .. n]
  BY PlaceGrows
<1>3. \A i, j \in 1 .. n : Place(rows, i) = Place(rows, j) => i = j
  <2>1. \A i, j \in 1 .. n : i # j => Place(rows, i) < Place(rows, j) \/ Place(rows, j) < Place(rows, i)
    BY PlaceGrows, TotalOrder
  <2>2. \A i \in 1 .. n : Place(rows, i) \in Nat
    BY <1>1, PlaceGrows
  <2> QED
    BY <2>1, <2>2
<1>4. place \in Injection(1 .. n, 1 .. n)
  BY <1>2, <1>3 DEF Injection, IsInjective
<1>5. place \in Surjection(1 .. n, 1 .. n)
  <2> HIDE DEF place
  <2>1. IsFiniteSet(1 .. n)
    BY <1>1, FS_Interval
  <2> QED
    BY <1>4, <2>1, FS_Injection
<1>6. \A k \in 1 .. n : \E i \in 1 .. n : Place(rows, i) = k
  BY <1>5 DEF Surjection
<1>7. \A k \in 1 .. n : p[k] \in 1 .. n /\ Place(rows, p[k]) = k
  BY <1>6
<1>8. \A i \in 1 .. n : Place(rows, i) \in 1 .. n /\ p[Place(rows, i)] = i
  BY <1>3, <1>7, PlaceGrows
<1>9. p \in [1 .. n -> 1 .. n]
  BY <1>7
<1>10. Sorted(rows) = [k \in 1 .. n |-> rows[p[k]]]
  BY DEF Sorted
<1> HIDE DEF p
<1>11. \A k, m \in 1 .. n : k < m => ~Earlier(rows[p[m]], rows[p[k]])
  <2> SUFFICES ASSUME NEW k \in 1 .. n, NEW m \in 1 .. n, k < m,
                      Earlier(rows[p[m]], rows[p[k]])
               PROVE  FALSE
    OBVIOUS
  <2>1. p[m] # p[k]
    BY <1>1, <1>7
  <2>2. Precedes(rows, p[m], p[k])
    BY DEF Precedes
  <2>3. Place(rows, p[m]) < Place(rows, p[k])
    BY <1>7, <2>1, <2>2, PlaceGrows
  <2> QED
    BY <1>1, <1>7, <2>3
<1>12. Sorts(p, rows)
  <2>1. \A i \in 1 .. n : \E k \in 1 .. n : p[k] = i
    BY <1>8
  <2>2. \A k, m \in 1 .. n : p[k] = p[m] => k = m
    BY <1>7
  <2> QED
    BY <1>9, <1>11, <2>1, <2>2 DEF Sorts
<1> QED
  BY <1>10, <1>12

-----------------------------------------------------------------------------
(* The loop of continuous_rows *)

\* The loop over the first n rows of a list: scan[k] is what it has seen of k.
Scans(scan, list, n) ==
  scan = [k \in 0 .. n |-> IF k = 0 THEN Scan0 ELSE ScanRow(scan[k - 1], list[k])]

\* The loop gets through every list.
LEMMA LoopEnds ==
  ASSUME NEW list
  PROVE  \A n \in Nat : \E scan : Scans(scan, list, n)
<1> DEFINE S == {n \in Nat : \E scan : Scans(scan, list, n)}
<1>1. 0 \in S
  <2>1. Scans([k \in 0 .. 0 |-> Scan0], list, 0)
    BY DEF Scans
  <2> QED
    BY <2>1
<1>2. ASSUME NEW n \in Nat, n \in S PROVE n + 1 \in S
  <2>1. PICK f : Scans(f, list, n)
    BY <1>2
  <2> DEFINE g == [k \in 0 .. n + 1 |-> IF k = n + 1 THEN ScanRow(f[n], list[n + 1]) ELSE f[k]]
  <2>2. \A k \in 0 .. n : g[k] = f[k]
    OBVIOUS
  <2>3. \A k \in 0 .. n : f[k] = IF k = 0 THEN Scan0 ELSE ScanRow(f[k - 1], list[k])
    BY <2>1 DEF Scans
  <2>4. \A k \in 0 .. n + 1 : g[k] = IF k = 0 THEN Scan0 ELSE ScanRow(g[k - 1], list[k])
    <3> TAKE k \in 0 .. n + 1
    <3>1. CASE k = n + 1
      <4>1. k # 0 /\ k - 1 = n /\ g[n] = f[n] /\ g[k] = ScanRow(f[n], list[n + 1])
        BY <3>1, <2>2
      <4> QED
        BY <3>1, <4>1
    <3>2. CASE k # n + 1
      <4>1. k \in 0 .. n /\ (k # 0 => k - 1 \in 0 .. n)
        BY <3>2
      <4> HIDE DEF g
      <4> QED
        BY <4>1, <2>2, <2>3
    <3> QED
      BY <3>1, <3>2
  <2>5. g = [k \in 0 .. n + 1 |-> IF k = 0 THEN Scan0 ELSE ScanRow(g[k - 1], list[k])]
    <3>1. DOMAIN g = 0 .. n + 1 /\ g = [k \in 0 .. n + 1 |-> g[k]]
      OBVIOUS
    <3> HIDE DEF g
    <3> QED
      BY <3>1, <2>4
  <2> HIDE DEF g
  <2> QED
    BY <2>5 DEF Scans
<1> HIDE DEF S
<1>3. \A n \in Nat : n \in S
  BY <1>1, <1>2, AllNaturals
<1> QED
  BY <1>3 DEF S

\* What continuous_rows has seen is what its loop over the sorted rows ends with.
LEMMA ScannedIs ==
  ASSUME NEW rows \in Descriptors
  PROVE  \E scan : Scans(scan, Sorted(rows), Len(rows)) /\ Scanned(rows) = scan[Len(rows)]
<1> DEFINE n == Len(rows)
           list == Sorted(rows)
           it == CHOOSE scan : Scans(scan, list, n)
<1>1. n \in Nat
  BY DescriptorIsList
<1>2. Scans(it, list, n)
  <2>1. \E scan : Scans(scan, list, n)
    BY <1>1, LoopEnds
  <2> QED
    BY <2>1
<1>3. Scanned(rows) = it[n]
  BY DEF Scanned, Scans
<1> HIDE DEF it
<1> QED
  BY <1>2, <1>3

-----------------------------------------------------------------------------
(* What the loop finds out *)

End(row) == row.row_start + row.row_count
Holds(row, l, r) == row.layer = l /\ row.row_start <= r /\ r < End(row)
Named(row) == {row.sidecars[1], row.sidecars[2]}

\* The first k rows of a list are sound, as the scan says: each layer is covered
\* up to where its last row ends, no row and no file is there twice.
Tiles(list, k, scan) ==
  /\ \A i \in 1 .. k : End(list[i]) <= scan.previous[list[i].layer]
  /\ \A l \in Layers : scan.previous[l] > 0 =>
       \E i \in 1 .. k : list[i].layer = l /\ End(list[i]) = scan.previous[l]
  /\ \A l \in Layers, r \in Nat : r < scan.previous[l] => \E i \in 1 .. k : Holds(list[i], l, r)
  /\ \A i, j \in 1 .. k, l \in Layers, r \in Nat :
       Holds(list[i], l, r) /\ Holds(list[j], l, r) => i = j
  /\ \A i, j \in 1 .. k : i # j => Named(list[i]) \intersect Named(list[j]) = {}

Seen(list, k, scan) ==
  /\ scan.sound \in BOOLEAN
  /\ scan.previous \in [Layers -> Nat]
  /\ scan.seen = UNION {Named(list[i]) : i \in 1 .. k}
  /\ scan.sound => Tiles(list, k, scan)

\* Before the loop nothing is covered.
LEMMA SeenFirst == ASSUME NEW list PROVE Seen(list, 0, Scan0)
<1>1. 1 .. 0 = {}
  OBVIOUS
<1>2. /\ Scan0.sound /\ Scan0.seen = {}
      /\ Scan0.previous = [l \in Layers |-> 0]
  BY DEF Scan0
<1>3. \A l \in Layers : Scan0.previous[l] = 0
  BY <1>2
<1>4. Tiles(list, 0, Scan0)
  <2>1. \A l \in Layers : /\ ~ (Scan0.previous[l] > 0)
                         /\ \A r \in Nat : ~ (r < Scan0.previous[l])
    BY <1>3
  <2>2. \A i : i \notin 1 .. 0
    BY <1>1
  <2> QED
    BY <2>1, <2>2 DEF Tiles
<1>5. UNION {Named(list[i]) : i \in 1 .. 0} = {}
  BY <1>1
<1> QED
  BY <1>2, <1>4, <1>5 DEF Seen

\* One more row.
LEMMA SeenNext ==
  ASSUME NEW n \in Nat, NEW list \in Lists(n), NEW k \in 1 .. n, NEW scan,
         Seen(list, k - 1, scan)
  PROVE  Seen(list, k, ScanRow(scan, list[k]))
<1> DEFINE row == list[k]
           l0 == row.layer
           next == ScanRow(scan, row)
<1>1. \A i \in 1 .. n :
        /\ list[i].layer \in Layers
        /\ list[i].row_start \in Nat /\ list[i].row_count \in Nat /\ list[i].row_count > 0
        /\ End(list[i]) = list[i].row_start + list[i].row_count /\ End(list[i]) \in Nat
  BY RowType DEF End
<1>2. /\ k \in Nat /\ k - 1 \in Nat /\ k - 1 < k
      /\ \A i \in 1 .. k - 1 : i \in 1 .. k /\ i \in 1 .. n
      /\ \A i \in 1 .. k : i = k \/ i \in 1 .. k - 1
      /\ k \notin 1 .. k - 1 /\ k \in 1 .. k
  OBVIOUS
<1>3. scan.previous \in [Layers -> Nat] /\ scan.sound \in BOOLEAN
  BY DEF Seen
<1>4. /\ next.sound = (/\ scan.sound
                       /\ row.row_start = scan.previous[l0]
                       /\ Named(row) \intersect scan.seen = {})
      /\ next.previous = [scan.previous EXCEPT ![l0] = @ + row.row_count]
      /\ next.seen = scan.seen \union Named(row)
  BY DEF ScanRow, Named
<1>5. next.seen = UNION {Named(list[i]) : i \in 1 .. k}
  <2>1. scan.seen = UNION {Named(list[i]) : i \in 1 .. k - 1}
    BY DEF Seen
  <2>2. {Named(list[i]) : i \in 1 .. k} = {Named(list[i]) : i \in 1 .. k - 1} \union {Named(row)}
    BY <1>2
  <2> HIDE DEF next
  <2> QED
    BY <1>4, <2>1, <2>2
<1> HIDE DEF next
<1>6. /\ next.sound \in BOOLEAN
      /\ next.previous \in [Layers -> Nat]
      /\ \A l \in Layers : next.previous[l] =
           IF l = l0 THEN scan.previous[l] + row.row_count ELSE scan.previous[l]
  <2>1. l0 \in Layers /\ row.row_count \in Nat
    BY <1>1
  <2> DEFINE count == row.row_count
             before == scan.previous
             after == next.previous
             l1 == l0
  <2>2. /\ l1 \in Layers /\ count \in Nat /\ before \in [Layers -> Nat]
        /\ after = [before EXCEPT ![l1] = @ + count]
    BY <1>3, <1>4, <2>1
  <2> HIDE DEF count, before, after, l1
  <2>3. /\ after \in [Layers -> Nat]
        /\ \A l \in Layers : after[l] = IF l = l1 THEN before[l] + count ELSE before[l]
    BY <2>2
  <2>4. next.sound \in BOOLEAN
    BY <1>3, <1>4
  <2> QED
    BY <2>3, <2>4 DEF count, before, after, l1
<1>7. ASSUME next.sound PROVE Tiles(list, k, next)
  <2>1. /\ Tiles(list, k - 1, scan)
        /\ row.row_start = scan.previous[l0]
        /\ Named(row) \intersect scan.seen = {}
    BY <1>4, <1>7 DEF Seen
  <2>2. l0 \in Layers /\ next.previous[l0] = End(row) /\ scan.previous[l0] = row.row_start
        /\ row.row_start < End(row)
    <3>1. /\ l0 \in Layers /\ row.row_start \in Nat /\ row.row_count \in Nat
          /\ row.row_count > 0 /\ End(row) = row.row_start + row.row_count
      BY <1>1
    <3>2. next.previous[l0] = scan.previous[l0] + row.row_count
      BY <1>6, <3>1
    <3> QED
      BY <2>1, <3>1, <3>2
  <2>3. \A l \in Layers : scan.previous[l] \in Nat /\ next.previous[l] \in Nat
                           /\ scan.previous[l] <= next.previous[l]
    BY <1>1, <1>3, <1>6
  <2>4. \A i \in 1 .. k : End(list[i]) <= next.previous[list[i].layer]
    <3> TAKE i \in 1 .. k
    <3>1. CASE i = k
      BY <3>1, <1>1, <2>2
    <3>2. CASE i \in 1 .. k - 1
      <4>1. End(list[i]) <= scan.previous[list[i].layer]
        BY <3>2, <2>1 DEF Tiles
      <4>2. /\ list[i].layer \in Layers /\ End(list[i]) \in Nat
        BY <3>2, <1>1, <1>2
      <4>3. /\ scan.previous[list[i].layer] \in Nat /\ next.previous[list[i].layer] \in Nat
            /\ scan.previous[list[i].layer] <= next.previous[list[i].layer]
        BY <4>2, <2>3
      <4> QED
        BY <4>1, <4>2, <4>3
    <3> QED
      BY <1>2, <3>1, <3>2
  <2>5. \A l \in Layers : next.previous[l] > 0 =>
          \E i \in 1 .. k : list[i].layer = l /\ End(list[i]) = next.previous[l]
    <3> TAKE l \in Layers
    <3> HAVE next.previous[l] > 0
    <3>1. CASE l = l0
      BY <3>1, <1>2, <2>2
    <3>2. CASE l # l0
      <4>1. \E i \in 1 .. k - 1 : list[i].layer = l /\ End(list[i]) = scan.previous[l]
        BY <3>2, <1>6, <2>1 DEF Tiles
      <4> QED
        BY <3>2, <4>1, <1>2, <1>6
    <3> QED
      BY <3>1, <3>2
  <2>6. \A l \in Layers, r \in Nat :
          r < next.previous[l] => \E i \in 1 .. k : Holds(list[i], l, r)
    <3> TAKE l \in Layers, r \in Nat
    <3> HAVE r < next.previous[l]
    <3>1. CASE r < scan.previous[l]
      <4>1. \E i \in 1 .. k - 1 : Holds(list[i], l, r)
        BY <3>1, <2>1 DEF Tiles
      <4> QED
        BY <4>1, <1>2
    <3>2. CASE ~(r < scan.previous[l])
      <4>1. l = l0
        BY <3>2, <1>6
      <4>2. row.row_start <= r /\ r < End(row)
        BY <3>2, <4>1, <2>2, <2>3
      <4>3. Holds(list[k], l, r)
        BY <4>1, <4>2 DEF Holds
      <4> QED
        BY <4>3, <1>2
    <3> QED
      BY <3>1, <3>2
  <2>7. ASSUME NEW i \in 1 .. k - 1, NEW l \in Layers, NEW r \in Nat,
               Holds(list[i], l, r), Holds(row, l, r)
        PROVE  FALSE
    <3>1. l = l0 /\ list[i].layer = l0
      BY <2>7 DEF Holds
    <3>2. End(list[i]) <= scan.previous[l0]
      BY <3>1, <2>1 DEF Tiles
    <3>3. r < End(list[i]) /\ row.row_start <= r
      BY <2>7 DEF Holds
    <3> QED
      BY <1>1, <1>2, <2>2, <2>3, <3>2, <3>3
  <2>8. \A i, j \in 1 .. k, l \in Layers, r \in Nat :
          Holds(list[i], l, r) /\ Holds(list[j], l, r) => i = j
    <3> TAKE i, j \in 1 .. k, l \in Layers, r \in Nat
    <3> HAVE Holds(list[i], l, r) /\ Holds(list[j], l, r)
    <3>1. CASE i \in 1 .. k - 1 /\ j \in 1 .. k - 1
      BY <3>1, <2>1 DEF Tiles
    <3>2. CASE i = k \/ j = k
      BY <3>2, <1>2, <2>7
    <3> QED
      BY <1>2, <3>1, <3>2
  <2>9. ASSUME NEW i \in 1 .. k - 1 PROVE Named(list[i]) \intersect Named(row) = {}
    <3>1. Named(list[i]) \subseteq scan.seen
      BY DEF Seen
    <3> QED
      BY <2>1, <3>1
  <2>10. \A i, j \in 1 .. k : i # j => Named(list[i]) \intersect Named(list[j]) = {}
    <3> TAKE i, j \in 1 .. k
    <3> HAVE i # j
    <3>1. CASE i \in 1 .. k - 1 /\ j \in 1 .. k - 1
      BY <3>1, <2>1 DEF Tiles
    <3>2. CASE i = k \/ j = k
      BY <3>2, <1>2, <2>9
    <3> QED
      BY <1>2, <3>1, <3>2
  <2> QED
    BY <2>4, <2>5, <2>6, <2>8, <2>10 DEF Tiles
<1> QED
  BY <1>5, <1>6, <1>7 DEF Seen, next

\* After any number of rows.
LEMMA SeenAll ==
  ASSUME NEW n \in Nat, NEW list \in Lists(n), NEW scan, Scans(scan, list, n)
  PROVE  \A k \in 0 .. n : Seen(list, k, scan[k])
<1> DEFINE S == {k \in Nat : k <= n => Seen(list, k, scan[k])}
<1>1. /\ scan[0] = Scan0
      /\ \A k \in 1 .. n : scan[k] = ScanRow(scan[k - 1], list[k])
  BY DEF Scans
<1>2. 0 \in S
  BY <1>1, SeenFirst
<1>3. ASSUME NEW k \in Nat, k \in S PROVE k + 1 \in S
  <2> SUFFICES ASSUME k + 1 <= n PROVE Seen(list, k + 1, scan[k + 1])
    OBVIOUS
  <2>1. k + 1 \in 1 .. n /\ (k + 1) - 1 = k /\ Seen(list, k, scan[k])
    BY <1>3
  <2>2. Seen(list, (k + 1) - 1, scan[k])
    BY <2>1
  <2>3. Seen(list, k + 1, ScanRow(scan[k], list[k + 1]))
    BY <2>1, <2>2, SeenNext
  <2>4. scan[k + 1] = ScanRow(scan[k], list[k + 1])
    BY <1>1, <2>1
  <2> QED
    BY <2>3, <2>4
<1> HIDE DEF S
<1>4. \A k \in Nat : k \in S
  BY <1>2, <1>3, AllNaturals
<1> QED
  BY <1>4 DEF S

-----------------------------------------------------------------------------
(* What the loop is for *)

\* Every row of a layer up to the end of one that is named is named once, every
\* file is named by one row, and the rows are what parse_row accepts.
OneEach(s) ==
  /\ \A i \in DOMAIN s, r \in Nat :
       r < End(s[i]) => \E j \in DOMAIN s : Holds(s[j], s[i].layer, r)
  /\ \A i, j \in DOMAIN s, l \in Layers, r \in Nat :
       Holds(s[i], l, r) /\ Holds(s[j], l, r) => i = j
  /\ \A i, j \in DOMAIN s : i # j => Named(s[i]) \intersect Named(s[j]) = {}
  /\ \A f \in Sidecars : \E i \in DOMAIN s : f \in Named(s[i])
  /\ \A i \in DOMAIN s : ParsedRow(s[i])

\* List b has the rows of a in the order p.
Rearranges(p, n, a, b) ==
  /\ a \in Lists(n) /\ b \in Lists(n)
  /\ \A i \in 1 .. n : p[i] \in 1 .. n /\ b[i] = a[p[i]]
  /\ \A i, j \in 1 .. n : p[i] = p[j] => i = j
  /\ \A k \in 1 .. n : \E i \in 1 .. n : p[i] = k

\* The order of the rows does not matter for that.
LEMMA Moved ==
  ASSUME NEW n \in Nat, NEW a, NEW b, NEW p, Rearranges(p, n, a, b), OneEach(a)
  PROVE  OneEach(b)
<1>0. /\ \A i \in 1 .. n : p[i] \in 1 .. n /\ b[i] = a[p[i]]
      /\ \A i, j \in 1 .. n : p[i] = p[j] => i = j
      /\ \A k \in 1 .. n : \E i \in 1 .. n : p[i] = k
  BY DEF Rearranges
<1>1. DOMAIN a = 1 .. n /\ DOMAIN b = 1 .. n
  BY DEF Lists, Rearranges
<1>2. \A i \in 1 .. n, r \in Nat :
        r < End(b[i]) => \E j \in 1 .. n : Holds(b[j], b[i].layer, r)
  <2> TAKE i \in 1 .. n, r \in Nat
  <2> HAVE r < End(b[i])
  <2>1. p[i] \in 1 .. n /\ b[i] = a[p[i]]
    BY <1>0
  <2>2. r < End(a[p[i]])
    BY <2>1
  <2>3. PICK k \in 1 .. n : Holds(a[k], a[p[i]].layer, r)
    BY <1>1, <2>1, <2>2 DEF OneEach
  <2>4. PICK j \in 1 .. n : p[j] = k
    BY <1>0
  <2>5. b[j] = a[k]
    BY <1>0, <2>4
  <2>6. Holds(b[j], b[i].layer, r)
    BY <2>1, <2>3, <2>5
  <2> QED
    BY <2>6
<1>3. \A i, j \in 1 .. n, l \in Layers, r \in Nat :
        Holds(b[i], l, r) /\ Holds(b[j], l, r) => i = j
  <2> TAKE i, j \in 1 .. n, l \in Layers, r \in Nat
  <2> HAVE Holds(b[i], l, r) /\ Holds(b[j], l, r)
  <2>1. p[i] \in 1 .. n /\ p[j] \in 1 .. n /\ b[i] = a[p[i]] /\ b[j] = a[p[j]]
    BY <1>0
  <2>2. Holds(a[p[i]], l, r) /\ Holds(a[p[j]], l, r)
    BY <2>1
  <2>3. p[i] = p[j]
    BY <1>1, <2>1, <2>2 DEF OneEach
  <2> QED
    BY <1>0, <2>3
<1>4. \A i, j \in 1 .. n : i # j => Named(b[i]) \intersect Named(b[j]) = {}
  <2> TAKE i, j \in 1 .. n
  <2> HAVE i # j
  <2>1. p[i] \in 1 .. n /\ p[j] \in 1 .. n /\ b[i] = a[p[i]] /\ b[j] = a[p[j]] /\ p[i] # p[j]
    BY <1>0
  <2>2. Named(a[p[i]]) \intersect Named(a[p[j]]) = {}
    BY <1>1, <2>1 DEF OneEach
  <2> QED
    BY <2>1, <2>2
<1>5. \A f \in Sidecars : \E i \in 1 .. n : f \in Named(b[i])
  <2> TAKE f \in Sidecars
  <2>1. PICK k \in 1 .. n : f \in Named(a[k])
    BY <1>1 DEF OneEach
  <2>2. PICK i \in 1 .. n : p[i] = k
    BY <1>0
  <2>3. b[i] = a[k]
    BY <1>0, <2>2
  <2> QED
    BY <2>1, <2>3
<1>6. \A i \in 1 .. n : ParsedRow(b[i])
  <2> TAKE i \in 1 .. n
  <2>1. p[i] \in 1 .. n /\ b[i] = a[p[i]]
    BY <1>0
  <2>2. ParsedRow(a[p[i]])
    BY <1>1, <2>1 DEF OneEach
  <2> QED
    BY <2>1, <2>2
<1> QED
  BY <1>1, <1>2, <1>3, <1>4, <1>5, <1>6 DEF OneEach

\* Nor does sorting them.
LEMMA Rearranged ==
  ASSUME NEW rows \in Descriptors, NEW p, Sorts(p, rows)
  PROVE  LET list == [k \in 1 .. Len(rows) |-> rows[p[k]]]
         IN /\ list \in Lists(Len(rows))
            /\ \A k, m \in 1 .. Len(rows) : k < m => ~Earlier(list[m], list[k])
            /\ OneEach(list) <=> OneEach(rows)
            /\ (\A i \in 1 .. Len(rows) : ParsedRow(list[i]))
                 <=> \A i \in 1 .. Len(rows) : ParsedRow(rows[i])
<1> DEFINE n == Len(rows)
           list == [k \in 1 .. n |-> rows[p[k]]]
<1>1. n \in Nat /\ rows \in Lists(n) /\ DOMAIN rows = 1 .. n
  BY DescriptorIsList
<1>2. /\ \A k \in 1 .. n : p[k] \in 1 .. n
      /\ \A i \in 1 .. n : \E k \in 1 .. n : p[k] = i
      /\ \A k, m \in 1 .. n : p[k] = p[m] => k = m
      /\ \A k, m \in 1 .. n : k < m => ~Earlier(rows[p[m]], rows[p[k]])
  BY DEF Sorts
<1>3. DOMAIN list = 1 .. n /\ \A k \in 1 .. n : list[k] = rows[p[k]]
  OBVIOUS
<1>4. list \in Lists(n)
  BY <1>1, <1>2, RowType DEF Lists
<1> HIDE DEF list
<1>5. OneEach(rows) => OneEach(list)
  <2>1. \A k \in 1 .. n : p[k] \in 1 .. n /\ list[k] = rows[p[k]]
    BY <1>2, <1>3
  <2>2. /\ \A i, j \in 1 .. n : p[i] = p[j] => i = j
        /\ \A k \in 1 .. n : \E i \in 1 .. n : p[i] = k
    BY <1>2
  <2> SUFFICES ASSUME OneEach(rows) PROVE OneEach(list)
    OBVIOUS
  <2>3. Rearranges(p, n, rows, list)
    BY <1>1, <1>4, <2>1, <2>2 DEF Rearranges
  <2> QED
    BY <1>1, <2>3, Moved
<1>6. OneEach(list) => OneEach(rows)
  <2> DEFINE q == [i \in 1 .. n |-> CHOOSE k \in 1 .. n : p[k] = i]
  <2>1. \A i \in 1 .. n : q[i] \in 1 .. n /\ p[q[i]] = i
    BY <1>2
  <2>2. \A k \in 1 .. n : q[p[k]] = k
    BY <1>2, <2>1
  <2> HIDE DEF q
  <2>3. \A i, j \in 1 .. n : q[i] = q[j] => i = j
    BY <2>1
  <2>4. \A k \in 1 .. n : \E i \in 1 .. n : q[i] = k
    BY <1>2, <2>2
  <2>5. \A i \in 1 .. n : q[i] \in 1 .. n /\ rows[i] = list[q[i]]
    BY <1>3, <2>1
  <2> SUFFICES ASSUME OneEach(list) PROVE OneEach(rows)
    OBVIOUS
  <2>6. Rearranges(q, n, list, rows)
    BY <1>1, <1>4, <2>3, <2>4, <2>5 DEF Rearranges
  <2> QED
    BY <1>1, <2>6, Moved
<1>7. (\A i \in 1 .. n : ParsedRow(list[i])) <=> \A i \in 1 .. n : ParsedRow(rows[i])
  <2>1. ASSUME \A i \in 1 .. n : ParsedRow(list[i]), NEW i \in 1 .. n
        PROVE  ParsedRow(rows[i])
    <3>1. PICK k \in 1 .. n : p[k] = i
      BY <1>2
    <3>2. list[k] = rows[i] /\ ParsedRow(list[k])
      BY <1>3, <2>1, <3>1
    <3> QED
      BY <3>2
  <2>2. ASSUME \A i \in 1 .. n : ParsedRow(rows[i]), NEW k \in 1 .. n
        PROVE  ParsedRow(list[k])
    <3>1. list[k] = rows[p[k]] /\ ParsedRow(rows[p[k]])
      BY <1>2, <1>3, <2>2
    <3> QED
      BY <3>1
  <2> QED
    BY <2>1, <2>2
<1>8. ASSUME NEW k \in 1 .. n, NEW m \in 1 .. n, k < m
      PROVE  ~Earlier(list[m], list[k])
  <2>1. ~Earlier(rows[p[m]], rows[p[k]])
    BY <1>2, <1>8
  <2>2. list[m] = rows[p[m]] /\ list[k] = rows[p[k]]
    BY <1>3
  <2> QED
    BY <2>1, <2>2
<1> QED
  BY <1>4, <1>5, <1>6, <1>7, <1>8 DEF list

\* A list the loop gets through without refusing it is as wanted.
LEMMA SoundIsOneEach ==
  ASSUME NEW n \in Nat, NEW list \in Lists(n), NEW scan, Scans(scan, list, n),
         scan[n].sound, scan[n].seen = Sidecars, \A i \in 1 .. n : ParsedRow(list[i])
  PROVE  OneEach(list)
<1>1. DOMAIN list = 1 .. n
  BY DEF Lists
<1>2. Seen(list, n, scan[n])
  BY SeenAll
<1>3. Tiles(list, n, scan[n]) /\ scan[n].previous \in [Layers -> Nat]
  BY <1>2 DEF Seen
<1>4. \A i \in 1 .. n, r \in Nat :
        r < End(list[i]) => \E j \in 1 .. n : Holds(list[j], list[i].layer, r)
  <2> TAKE i \in 1 .. n, r \in Nat
  <2> HAVE r < End(list[i])
  <2>1. list[i].layer \in Layers /\ End(list[i]) \in Nat
    BY RowType DEF End
  <2>2. /\ End(list[i]) <= scan[n].previous[list[i].layer]
        /\ scan[n].previous[list[i].layer] \in Nat
    BY <1>3, <2>1 DEF Tiles
  <2>3. r < scan[n].previous[list[i].layer]
    BY <2>1, <2>2
  <2> QED
    BY <1>3, <2>1, <2>3 DEF Tiles
<1>5. \A f \in Sidecars : \E i \in 1 .. n : f \in Named(list[i])
  BY <1>2 DEF Seen
<1> QED
  BY <1>1, <1>3, <1>4, <1>5 DEF OneEach, Tiles

\* And one that is as wanted, in the order of the keys, is not refused: a row
\* that began behind the covered ones would leave a gap no later row could fill,
\* and one that began among them would be there twice.
LEMMA OneEachIsSound ==
  ASSUME NEW n \in Nat, NEW list \in Lists(n), NEW scan, Scans(scan, list, n),
         \A k, m \in 1 .. n : k < m => ~Earlier(list[m], list[k]),
         OneEach(list)
  PROVE  scan[n].sound /\ scan[n].seen = Sidecars
<1>1. DOMAIN list = 1 .. n
  BY DEF Lists
<1>2. \A k \in 0 .. n : Seen(list, k, scan[k])
  BY SeenAll
<1>3. /\ scan[0] = Scan0
      /\ \A k \in 1 .. n : scan[k] = ScanRow(scan[k - 1], list[k])
  BY DEF Scans
<1>4. \A i \in 1 .. n :
        /\ list[i].layer \in Layers /\ list[i].layer \in Nat
        /\ list[i].row_start \in Nat /\ list[i].row_count \in Nat /\ list[i].row_count > 0
        /\ End(list[i]) = list[i].row_start + list[i].row_count /\ End(list[i]) \in Nat
  BY RowType DEF End
<1>5. ASSUME NEW k \in 1 .. n, scan[k - 1].sound PROVE scan[k].sound
  <2> DEFINE row == list[k]
             l == row.layer
             previous == scan[k - 1].previous[l]
  <2>1. k - 1 \in 0 .. n /\ k \in 1 .. n /\ \A i \in 1 .. k - 1 : i \in 1 .. n /\ i # k /\ i < k
    OBVIOUS
  <2>2. /\ Tiles(list, k - 1, scan[k - 1])
        /\ scan[k - 1].previous \in [Layers -> Nat]
        /\ scan[k - 1].seen = UNION {Named(list[i]) : i \in 1 .. k - 1}
    BY <1>2, <1>5, <2>1 DEF Seen
  <2>3. l \in Layers /\ previous \in Nat /\ row.row_start \in Nat /\ End(row) \in Nat
        /\ row.row_start < End(row)
    BY <1>4, <2>2
  <2>4. ~ (previous < row.row_start)
    <3> SUFFICES ASSUME previous < row.row_start PROVE FALSE
      OBVIOUS
    <3>1. previous < End(row)
      BY <2>3
    <3>2. \E j \in 1 .. n : Holds(list[j], l, previous)
      BY <1>1, <2>3, <3>1 DEF OneEach
    <3>3. PICK j \in 1 .. n : Holds(list[j], l, previous)
      BY <3>2
    <3>4. list[j].layer = l /\ list[j].row_start <= previous /\ previous < End(list[j])
      BY <3>3 DEF Holds
    <3>5. list[j].row_start < row.row_start
      BY <1>4, <2>3, <3>4
    <3>6. Earlier(list[j], row)
      BY <3>4, <3>5 DEF Earlier
    <3>7. j # k /\ ~ (k < j)
      BY <2>3, <3>5, <3>6, <1>4
    <3>8. j \in 1 .. k - 1
      BY <3>7
    <3>9. End(list[j]) <= previous
      BY <2>2, <3>4, <3>8 DEF Tiles
    <3> QED
      BY <1>4, <2>3, <3>4, <3>9
  <2>5. ~ (row.row_start < previous)
    <3> SUFFICES ASSUME row.row_start < previous PROVE FALSE
      OBVIOUS
    <3>0. \A r \in Nat : r < previous => \E i \in 1 .. k - 1 : Holds(list[i], l, r)
      BY <2>2, <2>3 DEF Tiles
    <3>1. \E i \in 1 .. k - 1 : Holds(list[i], l, row.row_start)
      BY <2>3, <3>0
    <3>2. PICK i \in 1 .. k - 1 : Holds(list[i], l, row.row_start)
      BY <3>1
    <3>3. Holds(row, l, row.row_start)
      BY <2>3 DEF Holds
    <3>4. i = k
      BY <1>1, <2>1, <2>3, <3>2, <3>3 DEF OneEach
    <3> QED
      BY <2>1, <3>4
  <2>6. Named(row) \intersect scan[k - 1].seen = {}
    <3>1. \A i \in 1 .. k - 1 : Named(row) \intersect Named(list[i]) = {}
      BY <1>1, <2>1 DEF OneEach
    <3> QED
      BY <2>2, <3>1
  <2>7. row.row_start = scan[k - 1].previous[row.layer]
    BY <2>3, <2>4, <2>5
  <2> QED
    <3>1. scan[k] = ScanRow(scan[k - 1], row)
      BY <1>3
    <3>2. ScanRow(scan[k - 1], row).sound =
            (/\ scan[k - 1].sound
             /\ row.row_start = scan[k - 1].previous[row.layer]
             /\ Named(row) \intersect scan[k - 1].seen = {})
      BY DEF ScanRow, Named
    <3> QED
      BY <1>5, <2>6, <2>7, <3>1, <3>2
<1>6. scan[n].sound
  <2> DEFINE S == {k \in Nat : k <= n => scan[k].sound}
  <2>1. 0 \in S
    BY <1>3 DEF Scan0
  <2>2. ASSUME NEW k \in Nat, k \in S PROVE k + 1 \in S
    <3> SUFFICES ASSUME k + 1 <= n PROVE scan[k + 1].sound
      OBVIOUS
    <3>1. k + 1 \in 1 .. n /\ (k + 1) - 1 = k /\ scan[k].sound
      BY <2>2
    <3> QED
      BY <1>5, <3>1
  <2> HIDE DEF S
  <2>3. \A k \in Nat : k \in S
    BY <2>1, <2>2, AllNaturals
  <2> QED
    BY <2>3 DEF S
<1>7. scan[n].seen = UNION {Named(list[i]) : i \in 1 .. n}
  BY <1>2 DEF Seen
<1>8. \A i \in 1 .. n : Named(list[i]) \subseteq Sidecars
  BY <1>1 DEF OneEach, ParsedRow, Named
<1>9. \A f \in Sidecars : \E i \in 1 .. n : f \in Named(list[i])
  BY <1>1 DEF OneEach
<1> QED
  BY <1>6, <1>7, <1>8, <1>9

\* Usable says the same, with numbers of elements.
LEMMA UsableIsOneEach ==
  ASSUME NEW rows \in Descriptors
  PROVE  Usable(rows) <=> OneEach(rows)
<1> DEFINE n == Len(rows)
<1>1. n \in Nat /\ rows \in Lists(n) /\ DOMAIN rows = 1 .. n
  BY DescriptorIsList
<1>2. \A i \in 1 .. n :
        /\ rows[i].layer \in Layers
        /\ rows[i].row_start \in Nat /\ rows[i].row_count \in Nat
        /\ End(rows[i]) = rows[i].row_start + rows[i].row_count
        /\ End(rows[i]) \in Nat /\ End(rows[i]) <= 2 * MaxRow
  BY <1>1, RowType DEF End
<1>3. \A l, r : PlacesOf(rows, l, r) \subseteq 1 .. n
  BY DEF PlacesOf
<1>4. ASSUME NEW T, T \subseteq 1 .. n
      PROVE  Cardinality(T) = 1 <=> \E x : T = {x}
  <2>1. IsFiniteSet(1 .. n)
    BY <1>1, FS_Interval
  <2>2. IsFiniteSet(T)
    BY <2>1, <1>4, FS_Subset
  <2> QED
    BY <2>2, FS_Singleton
<1>5. ASSUME NEW l \in Layers, NEW r \in Nat, NEW j \in 1 .. n
      PROVE  j \in PlacesOf(rows, l, r) <=> Holds(rows[j], l, r)
  <2>1. /\ rows[j].row_start \in Nat /\ rows[j].row_count \in Nat
    BY <1>2
  <2> DEFINE start == rows[j].row_start
             count == rows[j].row_count
  <2>2. r \in start .. start + count - 1 <=> start <= r /\ r < start + count
    <3>1. start \in Nat /\ count \in Nat
      BY <2>1
    <3> HIDE DEF start, count
    <3> QED
      BY <3>1
  <2> QED
    BY <2>2 DEF PlacesOf, Holds, End
<1>6. \A i \in 1 .. n : Cardinality(Named(rows[i])) = 2 <=> rows[i].sidecars[1] # rows[i].sidecars[2]
  <2> TAKE i \in 1 .. n
  <2> DEFINE w == rows[i].sidecars[1]
             s == rows[i].sidecars[2]
  <2>1. IsFiniteSet({w}) /\ Cardinality({w}) = 1
    BY FS_Singleton
  <2>2. Cardinality({w} \union {s}) = IF s \in {w} THEN Cardinality({w}) ELSE Cardinality({w}) + 1
    BY <2>1, FS_AddElement
  <2>3. {w} \union {s} = Named(rows[i])
    BY DEF Named
  <2>4. Cardinality({w} \union {s}) = IF s = w THEN 1 ELSE 2
    BY <2>1, <2>2
  <2>5. Cardinality({w} \union {s}) = 2 <=> w # s
    <3>1. CASE w = s
      BY <2>4, <3>1
    <3>2. CASE w # s
      BY <2>4, <3>2
    <3> QED
      BY <3>1, <3>2
  <2> HIDE DEF w, s
  <2>6. Cardinality(Named(rows[i])) = 2 <=> w # s
    BY <2>3, <2>5
  <2> QED
    BY <2>6 DEF w, s
<1>7. (\A i \in 1 .. n, r \in 0 .. 2 * MaxRow :
         r < rows[i].row_start + rows[i].row_count =>
           Cardinality(PlacesOf(rows, rows[i].layer, r)) = 1)
      <=> /\ \A i \in 1 .. n, r \in Nat :
               r < End(rows[i]) => \E j \in 1 .. n : Holds(rows[j], rows[i].layer, r)
          /\ \A i, j \in 1 .. n, l \in Layers, r \in Nat :
               Holds(rows[i], l, r) /\ Holds(rows[j], l, r) => i = j
  <2> DEFINE Once == \A i \in 1 .. n, r \in 0 .. 2 * MaxRow :
                       r < End(rows[i]) => Cardinality(PlacesOf(rows, rows[i].layer, r)) = 1
             Some == \A i \in 1 .. n, r \in Nat :
                       r < End(rows[i]) => \E j \in 1 .. n : Holds(rows[j], rows[i].layer, r)
             NoTwo == \A i, j \in 1 .. n, l \in Layers, r \in Nat :
                       Holds(rows[i], l, r) /\ Holds(rows[j], l, r) => i = j
  <2>1. ASSUME Once PROVE Some /\ NoTwo
    <3>1. ASSUME NEW i \in 1 .. n, NEW r \in Nat, r < End(rows[i])
          PROVE  \E j : PlacesOf(rows, rows[i].layer, r) = {j}
      <4>1. r \in 0 .. 2 * MaxRow
        <5>1. MaxRow \in Nat /\ End(rows[i]) \in Nat /\ End(rows[i]) <= 2 * MaxRow
          BY <1>2
        <5> QED
          BY <3>1, <5>1
      <4> QED
        BY <2>1, <3>1, <4>1, <1>3, <1>4
    <3>2. Some
      <4> TAKE i \in 1 .. n, r \in Nat
      <4> HAVE r < End(rows[i])
      <4>1. PICK j : PlacesOf(rows, rows[i].layer, r) = {j}
        BY <3>1
      <4>2. j \in 1 .. n /\ rows[i].layer \in Layers
        BY <1>2, <1>3, <4>1
      <4> QED
        BY <4>1, <4>2, <1>5
    <3>3. NoTwo
      <4> TAKE i, j \in 1 .. n, l \in Layers, r \in Nat
      <4> HAVE Holds(rows[i], l, r) /\ Holds(rows[j], l, r)
      <4>1. l = rows[i].layer /\ r < End(rows[i])
        BY DEF Holds
      <4>2. PICK k : PlacesOf(rows, rows[i].layer, r) = {k}
        BY <3>1, <4>1
      <4>3. i \in PlacesOf(rows, l, r) /\ j \in PlacesOf(rows, l, r)
        BY <1>5
      <4> QED
        BY <4>1, <4>2, <4>3
    <3> QED
      BY <3>2, <3>3
  <2>2. ASSUME Some, NoTwo PROVE Once
    <3> TAKE i \in 1 .. n, r \in 0 .. 2 * MaxRow
    <3> HAVE r < End(rows[i])
    <3>0. r \in Nat /\ rows[i].layer \in Layers
      BY <1>2
    <3>1. PICK j \in 1 .. n : Holds(rows[j], rows[i].layer, r)
      BY <2>2, <3>0
    <3>2. \A k \in 1 .. n : Holds(rows[k], rows[i].layer, r) => k = j
      BY <2>2, <3>0, <3>1
    <3>3. PlacesOf(rows, rows[i].layer, r) = {j}
      BY <1>3, <1>5, <3>0, <3>1, <3>2
    <3> QED
      BY <1>3, <1>4, <3>3
  <2>3. Once <=> Some /\ NoTwo
    BY <2>1, <2>2
  <2> QED
    BY <2>3 DEF End
<1>8. (\A f \in Sidecars : Cardinality({i \in 1 .. n : f \in Named(rows[i])}) = 1)
      <=> /\ \A i, j \in 1 .. n : i # j => Named(rows[i]) \intersect Named(rows[j]) \intersect Sidecars = {}
          /\ \A f \in Sidecars : \E i \in 1 .. n : f \in Named(rows[i])
  <2>1. ASSUME NEW f
        PROVE  Cardinality({i \in 1 .. n : f \in Named(rows[i])}) = 1
                 <=> \E x : {i \in 1 .. n : f \in Named(rows[i])} = {x}
    BY <1>4
  <2>2. ASSUME NEW f
        PROVE  (\E x : {i \in 1 .. n : f \in Named(rows[i])} = {x})
                 <=> \E x \in 1 .. n : /\ f \in Named(rows[x])
                                       /\ \A i \in 1 .. n : f \in Named(rows[i]) => i = x
    <3> DEFINE T == {i \in 1 .. n : f \in Named(rows[i])}
    <3>1. \A i : i \in T <=> i \in 1 .. n /\ f \in Named(rows[i])
      OBVIOUS
    <3> HIDE DEF T
    <3>2. (\E x : T = {x}) <=> \E x \in T : \A i \in T : i = x
      OBVIOUS
    <3>3. (\E x \in T : \A i \in T : i = x)
            <=> \E x \in 1 .. n : /\ f \in Named(rows[x])
                                  /\ \A i \in 1 .. n : f \in Named(rows[i]) => i = x
      BY <3>1
    <3>4. (\E x : T = {x})
            <=> \E x \in 1 .. n : /\ f \in Named(rows[x])
                                  /\ \A i \in 1 .. n : f \in Named(rows[i]) => i = x
      BY <3>2, <3>3
    <3> QED
      BY <3>4 DEF T
  <2> QED
    BY <2>1, <2>2
<1>9. \A i \in 1 .. n :
        (/\ Cardinality(Named(rows[i])) = 2 /\ Named(rows[i]) \subseteq Sidecars
         /\ \A f \in Named(rows[i]) : SizeOf[f] = rows[i].row_count)
        <=> ParsedRow(rows[i])
  BY <1>6 DEF ParsedRow, Named
<1>10. Usable(rows) <=>
         /\ \A i \in 1 .. n, r \in 0 .. 2 * MaxRow :
              r < rows[i].row_start + rows[i].row_count =>
                Cardinality(PlacesOf(rows, rows[i].layer, r)) = 1
         /\ \A f \in Sidecars : Cardinality({i \in 1 .. n : f \in Named(rows[i])}) = 1
         /\ \A i \in 1 .. n :
              /\ Cardinality(Named(rows[i])) = 2 /\ Named(rows[i]) \subseteq Sidecars
              /\ \A f \in Named(rows[i]) : SizeOf[f] = rows[i].row_count
  BY DEF Usable, Named
<1>11. (\A i \in 1 .. n : ParsedRow(rows[i])) =>
         \A i, j \in 1 .. n : Named(rows[i]) \intersect Named(rows[j]) \intersect Sidecars
                                = Named(rows[i]) \intersect Named(rows[j])
  BY DEF ParsedRow, Named
<1>12. OneEach(rows) <=>
         /\ \A i \in 1 .. n, r \in Nat :
              r < End(rows[i]) => \E j \in 1 .. n : Holds(rows[j], rows[i].layer, r)
         /\ \A i, j \in 1 .. n, l \in Layers, r \in Nat :
              Holds(rows[i], l, r) /\ Holds(rows[j], l, r) => i = j
         /\ \A i, j \in 1 .. n : i # j => Named(rows[i]) \intersect Named(rows[j]) = {}
         /\ \A f \in Sidecars : \E i \in 1 .. n : f \in Named(rows[i])
         /\ \A i \in 1 .. n : ParsedRow(rows[i])
  BY <1>1 DEF OneEach
<1> QED
  <2>1. ASSUME Usable(rows) PROVE OneEach(rows)
    <3>1. \A i \in 1 .. n : ParsedRow(rows[i])
      BY <1>9, <1>10, <2>1
    <3>2. \A i, j \in 1 .. n : i # j => Named(rows[i]) \intersect Named(rows[j]) = {}
      BY <1>8, <1>10, <1>11, <2>1, <3>1
    <3> QED
      BY <1>7, <1>8, <1>10, <1>12, <2>1, <3>1, <3>2
  <2>2. ASSUME OneEach(rows) PROVE Usable(rows)
    <3>1. /\ \A i \in 1 .. n : ParsedRow(rows[i])
          /\ \A i, j \in 1 .. n : i # j => Named(rows[i]) \intersect Named(rows[j]) = {}
      BY <1>12, <2>2
    <3>2. \A i, j \in 1 .. n :
            i # j => Named(rows[i]) \intersect Named(rows[j]) \intersect Sidecars = {}
      BY <3>1
    <3>3. \A f \in Sidecars : Cardinality({i \in 1 .. n : f \in Named(rows[i])}) = 1
      BY <1>8, <1>12, <2>2, <3>2
    <3>4. \A i \in 1 .. n :
              /\ Cardinality(Named(rows[i])) = 2 /\ Named(rows[i]) \subseteq Sidecars
              /\ \A f \in Named(rows[i]) : SizeOf[f] = rows[i].row_count
      BY <1>9, <3>1
    <3> QED
      BY <1>7, <1>10, <1>12, <2>2, <3>3, <3>4
  <2> QED
    BY <2>1, <2>2

-----------------------------------------------------------------------------
(* What validate_release and check_engram_manifest accept *)

\* 52 rows take up 104 files.
LEMMA AllChunks ==
  ASSUME NEW rows \in Descriptors, OneEach(rows)
  PROVE  Len(rows) = Chunks
<1> DEFINE n == Len(rows)
           S == (1 .. n) \X (1 .. 2)
           f == [x \in S |-> rows[x[1]].sidecars[x[2]]]
<1>1. n \in Nat /\ DOMAIN rows = 1 .. n
  BY DescriptorIsList
<1>2. \A i \in 1 .. n :
        /\ Named(rows[i]) = {rows[i].sidecars[1], rows[i].sidecars[2]}
        /\ rows[i].sidecars[1] # rows[i].sidecars[2]
        /\ Named(rows[i]) \subseteq Sidecars
  BY <1>1 DEF OneEach, ParsedRow, Named
<1>3. \A x \in S : /\ x[1] \in 1 .. n /\ x[2] \in 1 .. 2 /\ x = <<x[1], x[2]>>
                   /\ f[x] \in Named(rows[x[1]]) /\ f[x] \in Sidecars
                   /\ f[x] = rows[x[1]].sidecars[x[2]]
  <2> TAKE x \in S
  <2>1. x[1] \in 1 .. n /\ x[2] \in 1 .. 2 /\ x = <<x[1], x[2]>>
    OBVIOUS
  <2>2. x[2] = 1 \/ x[2] = 2
    BY <2>1
  <2>3. f[x] = rows[x[1]].sidecars[x[2]]
    OBVIOUS
  <2> HIDE DEF f, S
  <2>4. f[x] \in Named(rows[x[1]])
    BY <1>2, <2>1, <2>2, <2>3
  <2> QED
    BY <1>2, <2>1, <2>3, <2>4
<1>4. f \in [S -> Sidecars]
  BY <1>3
<1>5. ASSUME NEW x \in S, NEW y \in S, f[x] = f[y] PROVE x = y
  <2> HIDE DEF f, S
  <2>1. f[x] \in Named(rows[x[1]]) /\ f[x] \in Named(rows[y[1]])
    BY <1>3, <1>5
  <2>2. x[1] = y[1]
    <3>1. x[1] \in 1 .. n /\ y[1] \in 1 .. n
      BY <1>3
    <3> QED
      BY <1>1, <2>1, <3>1 DEF OneEach
  <2>3. rows[x[1]].sidecars[x[2]] = rows[x[1]].sidecars[y[2]]
    BY <1>3, <1>5, <2>2
  <2>4. (x[2] = 1 \/ x[2] = 2) /\ (y[2] = 1 \/ y[2] = 2)
    BY <1>3
  <2>5. x[2] = y[2]
    BY <1>2, <1>3, <2>3, <2>4
  <2> QED
    BY <1>3, <2>2, <2>5
<1>6. \A g \in Sidecars : \E x \in S : f[x] = g
  <2> TAKE g \in Sidecars
  <2>1. PICK i \in 1 .. n : g \in Named(rows[i])
    BY <1>1 DEF OneEach
  <2>2. g = rows[i].sidecars[1] \/ g = rows[i].sidecars[2]
    BY <1>2, <2>1
  <2>3. /\ <<i, 1>> \in S /\ f[<<i, 1>>] = rows[i].sidecars[1]
        /\ <<i, 2>> \in S /\ f[<<i, 2>>] = rows[i].sidecars[2]
    OBVIOUS
  <2> HIDE DEF f, S
  <2> QED
    BY <2>2, <2>3
<1>7. IsFiniteSet(S) /\ Cardinality(S) = n * 2
  <2>1. /\ IsFiniteSet(1 .. n) /\ Cardinality(1 .. n) = n
        /\ IsFiniteSet(1 .. 2) /\ Cardinality(1 .. 2) = 2
    <3>1. /\ IsFiniteSet(1 .. n)
          /\ Cardinality(1 .. n) = IF 1 > n THEN 0 ELSE n - 1 + 1
      BY <1>1, FS_Interval
    <3>2. /\ IsFiniteSet(1 .. 2)
          /\ Cardinality(1 .. 2) = IF 1 > 2 THEN 0 ELSE 2 - 1 + 1
      <4>1. 1 \in Int /\ 2 \in Int
        OBVIOUS
      <4> QED
        BY <4>1, FS_Interval
    <3> QED
      BY <1>1, <3>1, <3>2
  <2> QED
    BY <2>1, FS_Product
<1> HIDE DEF f, S
<1>8. f \in Bijection(S, Sidecars)
  BY <1>4, <1>5, <1>6 DEF Bijection, Injection, IsInjective, Surjection
<1>9. Cardinality(Sidecars) = Cardinality(S)
  BY <1>7, <1>8, FS_Bijection DEF ExistsBijection
<1> QED
  <2>1. n * 2 = 2 * Chunks
    BY <1>7, <1>9, TwoSidecarsEach
  <2> HIDE DEF n
  <2>2. n = Chunks
    BY <1>1, <2>1
  <2> QED
    BY <2>2 DEF n

\* validate_release accepts exactly the lists of rows that can be used.
THEOREM AcceptedIsUsable ==
  ASSUME NEW rows \in Descriptors
  PROVE  Accepted(rows) <=> Usable(rows)
<1> DEFINE n == Len(rows)
<1>1. PICK p : Sorts(p, rows) /\ Sorted(rows) = [k \in 1 .. n |-> rows[p[k]]]
  BY SortedIsSorted
<1> DEFINE list == [k \in 1 .. n |-> rows[p[k]]]
<1>2. PICK scan : Scans(scan, list, n) /\ Scanned(rows) = scan[n]
  BY <1>1, ScannedIs
<1>3. /\ list \in Lists(n)
      /\ \A k, m \in 1 .. n : k < m => ~Earlier(list[m], list[k])
      /\ OneEach(list) <=> OneEach(rows)
      /\ (\A i \in 1 .. n : ParsedRow(list[i])) <=> \A i \in 1 .. n : ParsedRow(rows[i])
  BY <1>1, Rearranged
<1>4. n \in Nat /\ DOMAIN rows = 1 .. n
  BY DescriptorIsList
<1> HIDE DEF list
<1>5. ASSUME Accepted(rows) PROVE OneEach(rows)
  <2>1. /\ \A i \in 1 .. n : ParsedRow(rows[i])
        /\ scan[n].sound /\ scan[n].seen = Sidecars
    BY <1>2, <1>5 DEF Accepted
  <2>2. OneEach(list)
    BY <1>2, <1>3, <1>4, <2>1, SoundIsOneEach
  <2> QED
    BY <1>3, <2>2
<1>6. ASSUME OneEach(rows) PROVE Accepted(rows)
  <2>1. scan[n].sound /\ scan[n].seen = Sidecars
    BY <1>2, <1>3, <1>4, <1>6, OneEachIsSound
  <2>2. \A i \in 1 .. n : ParsedRow(rows[i])
    BY <1>4, <1>6 DEF OneEach
  <2>3. n = Chunks
    BY <1>6, AllChunks
  <2> QED
    BY <1>2, <2>1, <2>2, <2>3 DEF Accepted
<1> QED
  BY <1>5, <1>6, UsableIsOneEach

\* When the manifest and its totals agree with the accepted rows, the index
\* leads to the manifest's file for every row the manifest states.
THEOREM AcceptedLeads ==
  ASSUME NEW rows \in Descriptors, Accepted(rows),
         NEW manifest \in Manifests, SameRows(rows, manifest.chunks),
         NEW totals \in Totals(manifest), CoverTotals(rows, totals)
  PROVE  Leads(rows, manifest.chunks, totals)
<1> DEFINE n == Len(rows)
           chunks == manifest.chunks
           m == Len(chunks)
<1>1. n \in Nat /\ rows \in Lists(n) /\ DOMAIN rows = 1 .. n
  BY DescriptorIsList
<1>2. /\ chunks \in Descriptors
      /\ manifest.layers = {chunks[i].layer : i \in 1 .. m}
  BY DEF Manifests
<1>3. m \in Nat /\ DOMAIN chunks = 1 .. m /\ chunks \in Lists(m)
  BY <1>2, DescriptorIsList
<1>4. /\ manifest.layers \subseteq DOMAIN totals
      /\ \A l \in DOMAIN totals : totals[l] \in Nat
  <2>1. PICK stated \in SUBSET Layers :
               manifest.layers \subseteq stated /\ totals \in [stated -> 1 .. 3 * MaxRow]
    BY DEF Totals
  <2>2. DOMAIN totals = stated /\ \A l \in stated : totals[l] \in 1 .. 3 * MaxRow
    BY <2>1
  <2> QED
    BY <2>1, <2>2
<1> HIDE DEF chunks
<1>5. /\ \A i \in 1 .. n : \E j \in 1 .. m : chunks[j] = rows[i]
      /\ \A j \in 1 .. m : \E i \in 1 .. n : rows[i] = chunks[j]
  <2>1. Range(chunks) = Range(rows)
    BY DEF SameRows, chunks
  <2>2. /\ Range(rows) = {rows[i] : i \in 1 .. n}
        /\ Range(chunks) = {chunks[i] : i \in 1 .. m}
    BY <1>1, <1>3 DEF Range
  <2> HIDE DEF m
  <2> QED
    BY <2>1, <2>2
<1>6. OneEach(rows)
  BY AcceptedIsUsable, UsableIsOneEach
<1> DEFINE Files(list, l, r) == {list[i].sidecars : i \in PlacesOf(list, l, r)}
<1>7. ASSUME NEW k \in Nat, NEW list \in Lists(k), k = Len(list),
             NEW l \in Layers, NEW r \in Nat, NEW i
      PROVE  i \in PlacesOf(list, l, r) <=> i \in 1 .. k /\ Holds(list[i], l, r)
  <2>1. ASSUME i \in 1 .. k
        PROVE  r \in list[i].row_start .. list[i].row_start + list[i].row_count - 1
                 <=> list[i].row_start <= r /\ r < End(list[i])
    <3>1. list[i].row_start \in Nat /\ list[i].row_count \in Nat
      BY <2>1, <1>7, RowType
    <3> DEFINE start == list[i].row_start
               count == list[i].row_count
    <3>2. start \in Nat /\ count \in Nat
      BY <3>1
    <3> HIDE DEF start, count
    <3>3. r \in start .. start + count - 1 <=> start <= r /\ r < start + count
      BY <3>2
    <3> QED
      BY <3>3 DEF start, count, End
  <2> QED
    BY <1>7, <2>1 DEF PlacesOf, Holds
<1>8. ASSUME NEW l \in Layers, NEW r \in Nat
      PROVE  Files(rows, l, r) = Files(chunks, l, r)
  <2>1. \A i : i \in PlacesOf(rows, l, r) <=> i \in 1 .. n /\ Holds(rows[i], l, r)
    BY <1>1, <1>7
  <2>2. \A i : i \in PlacesOf(chunks, l, r) <=> i \in 1 .. m /\ Holds(chunks[i], l, r)
    BY <1>3, <1>7
  <2> HIDE DEF n, m
  <2>3. ASSUME NEW i \in PlacesOf(rows, l, r)
        PROVE  \E j \in PlacesOf(chunks, l, r) : chunks[j].sidecars = rows[i].sidecars
    <3>1. i \in 1 .. n /\ Holds(rows[i], l, r)
      BY <2>1
    <3>2. PICK j \in 1 .. m : chunks[j] = rows[i]
      BY <1>5, <3>1
    <3> QED
      BY <2>2, <3>1, <3>2
  <2>4. ASSUME NEW j \in PlacesOf(chunks, l, r)
        PROVE  \E i \in PlacesOf(rows, l, r) : rows[i].sidecars = chunks[j].sidecars
    <3>1. j \in 1 .. m /\ Holds(chunks[j], l, r)
      BY <2>2
    <3>2. PICK i \in 1 .. n : rows[i] = chunks[j]
      BY <1>5, <3>1
    <3> QED
      BY <2>1, <3>1, <3>2
  <2> QED
    BY <2>3, <2>4
<1>9. ASSUME NEW l \in Layers, NEW r \in Nat, l \in DOMAIN totals, r < totals[l]
      PROVE  Cardinality(Files(rows, l, r)) = 1
  <2>1. totals[l] \in Ends(rows, l)
    BY <1>9 DEF CoverTotals
  <2>2. PICK i \in 1 .. n : rows[i].layer = l /\ totals[l] = End(rows[i])
    BY <1>1, <2>1 DEF Ends, Range, End
  <2>3. PICK j \in 1 .. n : Holds(rows[j], l, r)
    BY <1>1, <1>6, <1>9, <2>2 DEF OneEach
  <2>4. \A k \in 1 .. n : Holds(rows[k], l, r) => k = j
    BY <1>1, <1>6, <2>3 DEF OneEach
  <2>5. PlacesOf(rows, l, r) = {j}
    BY <1>1, <1>7, <2>3, <2>4
  <2>6. Files(rows, l, r) = {rows[j].sidecars}
    BY <2>5
  <2> QED
    BY <2>6, FS_Singleton
<1>10. ASSUME NEW l \in Layers, NEW r \in Nat, ~ (l \in DOMAIN totals /\ r < totals[l])
       PROVE  Cardinality(Files(rows, l, r)) = 0
  <2>1. ASSUME NEW i \in 1 .. n, Holds(rows[i], l, r) PROVE FALSE
    <3>1. rows[i].layer = l /\ r < End(rows[i]) /\ End(rows[i]) \in Nat
      BY <1>1, <2>1, RowType DEF Holds, End
    <3>2. PICK j \in 1 .. m : chunks[j] = rows[i]
      BY <1>5
    <3>3. l \in DOMAIN totals
      BY <1>2, <1>4, <3>1, <3>2 DEF chunks
    <3>4. End(rows[i]) \in Ends(rows, l)
      BY <1>1, <3>1 DEF Ends, Range, End
    <3>5. End(rows[i]) <= totals[l]
      BY <3>3, <3>4 DEF CoverTotals
    <3>6. totals[l] \in Nat /\ ~ (r < totals[l])
      BY <1>4, <1>10, <3>3
    <3> QED
      BY <3>1, <3>5, <3>6
  <2>2. PlacesOf(rows, l, r) = {}
    BY <1>1, <1>7, <2>1
  <2>3. Files(rows, l, r) = {}
    BY <2>2
  <2> QED
    BY <2>3, FS_EmptySet
<1>11. ASSUME NEW l \in Layers, NEW r \in 0 .. 3 * MaxRow
       PROVE  /\ Files(rows, l, r) = Files(chunks, l, r)
              /\ Cardinality(Files(rows, l, r)) =
                   IF l \in DOMAIN totals /\ r < totals[l] THEN 1 ELSE 0
  <2>1. r \in Nat
    OBVIOUS
  <2> HIDE DEF Files
  <2> QED
    BY <2>1, <1>8, <1>9, <1>10
<1> QED
  BY <1>11 DEF Leads, chunks

\* However the rows are ordered, however many there are and however long: what
\* is accepted is what can be used, and it leads to the right files.
LEMMA NothingMisjudged == Misjudged = {} /\ Misled = {}
<1>1. Misjudged = {}
  <2>1. \A rows \in Descriptors : Accepted(rows) \in BOOLEAN /\ Usable(rows) \in BOOLEAN
    BY DEF Accepted, Usable
  <2> QED
    BY <2>1, AcceptedIsUsable DEF Misjudged
<1>2. Misled = {}
  BY AcceptedLeads DEF Misled
<1> QED
  BY <1>1, <1>2

\* What prepare writes the index of can be used, and leads where the manifest
\* says (validate_release, check_engram_manifest, write_index).
THEOREM IndexComplete == Spec => []IndexIsComplete
<1>1. IndexIsComplete
  BY NothingMisjudged DEF IndexIsComplete
<1> QED
  BY <1>1, PTL
=============================================================================
