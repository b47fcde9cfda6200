---------------------------- MODULE UpkeepProofs ----------------------------
(***************************************************************************)
(* Theorems about the coverage checks of a push, about what agents are     *)
(* given to read and about the stacks they boot, for every value of their  *)
(* constants.  The three share nothing; each has a part of its own here.   *)
(***************************************************************************)
EXTENDS AgentFiles, CoverageRuns, Stacks, SequenceTheorems, TLAPS

-----------------------------------------------------------------------------
LEMMA HasFirst == ASSUME NEW S, NEW list \in Seq(S), list # <<>> PROVE 1 \in 1..Len(list)
BY EmptySeq

-----------------------------------------------------------------------------
(***************************************************************************)
(* cov-ts: the files that were tracked when it began are all measured in   *)
(* every target, and while no file appears nothing else is.                *)
(***************************************************************************)
CovType ==
  [at : {"idle", "first", "retry", "ok", "failed"}, target : Nat,
   untracked : SUBSET Files, tracked : SUBSET Files]

TsTypeOK ==
  /\ tracked \in SUBSET Files /\ scratch \in SUBSET Files /\ covered \in SUBSET Files
  /\ red \in SUBSET Each(Targets)
  /\ cov \in CovType /\ created \in SUBSET Files /\ starved \in BOOLEAN
  /\ changes \in Nat

Running == cov.at \in {"first", "retry"}

\* What the verdict has to say of one target.
TargetGreen(t, files) == t \notin red /\ (Globs[t] \cap files) \ Configured[t] \subseteq covered

CovInv ==
  /\ TsTypeOK
  /\ tracked \cap scratch = {}
  /\ Running =>
       /\ cov.target \in 1..Len(Targets)
       /\ \A i \in 1..(cov.target - 1) : TargetGreen(Targets[i], cov.tracked)
       /\ cov.tracked \subseteq tracked \cup scratch
       /\ cov.tracked \cap cov.untracked = {}
       /\ created = {} => tracked \cup scratch \subseteq cov.tracked \cup cov.untracked
  /\ VerdictIsTheCodes

LEMMA TargetNames ==
  /\ \A i \in 1..Len(Targets) : Targets[i] \in DOMAIN Within /\ Targets[i] \in Each(Targets)
  /\ \A t \in Each(Targets) : \E i \in 1..Len(Targets) : t = Targets[i]
<1>1. Targets \in Seq(DOMAIN Within)
  BY CoverageAssumption
<1> QED
  BY <1>1 DEF Each

\* What is left out of a target is what git did not track and what is configured.
LEMMA MeasuredFiles ==
  ASSUME NEW t \in DOMAIN Within
  PROVE  Measured(t) = (Globs[t] \cap ((tracked \cup scratch) \ cov.untracked)) \ Configured[t]
BY CoverageAssumption DEF Measured, Excluded

\* A run of vitest that exits with 0 has found the target green, and one that does not
\* has found it red, or was starved, or has measured a file that appeared.
LEMMA RunsTell ==
  ASSUME CovInv, Running, NEW o \in Runs(Targets[cov.target])
  PROVE  /\ ExitsZero(o) => TargetGreen(Targets[cov.target], cov.tracked)
         /\ ~ExitsZero(o) => \/ ~TargetGreen(Targets[cov.target], cov.tracked)
                             \/ o.starves \/ created # {}
<1> DEFINE t == Targets[cov.target]
<1>1. t \in DOMAIN Within /\ cov.target \in 1..Len(Targets)
  BY TargetNames DEF CovInv
<1>2. Measured(t) = (Globs[t] \cap ((tracked \cup scratch) \ cov.untracked)) \ Configured[t]
  BY <1>1, MeasuredFiles
<1>3. (Globs[t] \cap cov.tracked) \ Configured[t] \subseteq Measured(t)
  BY <1>2 DEF CovInv
<1>4. created = {} => Measured(t) \subseteq (Globs[t] \cap cov.tracked) \ Configured[t]
  BY <1>2 DEF CovInv
<1>5. /\ t \in red <=> o.fails # "none"
      /\ o.missed => ~(Measured(t) \subseteq covered)
      /\ ~(Measured(t) \subseteq covered) => o.missed \/ o.starves \/ o.fails # "none"
  BY DEF Runs
<1> HIDE DEF t
<1>6. ExitsZero(o) => TargetGreen(t, cov.tracked)
  BY <1>3, <1>5 DEF ExitsZero, TargetGreen
<1>7. ~ExitsZero(o) => ~TargetGreen(t, cov.tracked) \/ o.starves \/ created # {}
  BY <1>4, <1>5 DEF ExitsZero, TargetGreen
<1> QED
  BY <1>6, <1>7 DEF t

LEMMA CovInit == ASSUME CoverageInit PROVE CovInv
BY CoverageAssumption
   DEF CoverageInit, CovInv, TsTypeOK, CovType, NotRunning, Running, VerdictIsTheCodes

LEMMA StartCoverageStep == ASSUME CovInv, StartCoverage PROVE CovInv'
<1>1. cov' = [at |-> "first", target |-> 1, untracked |-> scratch, tracked |-> tracked]
  BY DEF StartCoverage
<1>0. TsTypeOK
  BY DEF CovInv
<1>4. cov' \in CovType
  BY <1>0, <1>1 DEF TsTypeOK, CovType
<1>2. TsTypeOK'
  BY <1>0, <1>4 DEF TsTypeOK, StartCoverage
<1>3. 1 \in 1..Len(Targets)
  BY CoverageAssumption, HasFirst DEF StartCoverage
<1> QED
  BY <1>1, <1>2, <1>3 DEF CovInv, Running, StartCoverage, VerdictIsTheCodes

\* The next target, or the end: every target before it is green.
LEMMA NextTargetStep ==
  ASSUME CovInv, Running, NextTarget, TargetGreen(Targets[cov.target], cov.tracked),
         UNCHANGED <<tracked, scratch, covered, red, created, changes>>, starved' \in BOOLEAN
  PROVE  CovInv'
<1>1. /\ cov \in CovType /\ cov.target \in 1..Len(Targets) /\ cov.target \in Nat
      /\ Len(Targets) \in Nat
  BY CoverageAssumption DEF CovInv, TsTypeOK, CovType
<1>2. \A i \in 1..cov.target : TargetGreen(Targets[i], cov.tracked)
  BY <1>1 DEF CovInv
<1>3. CASE cov.target < Len(Targets)
  <2> DEFINE next == cov.target + 1
  <2>5. next \in Nat
    BY <1>1
  <2>1. cov' = [cov EXCEPT !.at = "first", !.target = next]
    BY <1>3 DEF NextTarget
  <2> HIDE DEF next
  <2>6. /\ cov' \in CovType /\ cov'.at = "first" /\ cov'.target = next
        /\ cov'.tracked = cov.tracked /\ cov'.untracked = cov.untracked
    BY <1>1, <2>1, <2>5 DEF CovType
  <2>2. /\ cov' \in CovType /\ cov'.at = "first" /\ cov'.target = cov.target + 1
        /\ cov'.tracked = cov.tracked /\ cov'.untracked = cov.untracked
    BY <2>6 DEF next
  <2>3. \A i \in 1..(cov'.target - 1) : TargetGreen(Targets[i], cov.tracked)'
    BY <1>1, <1>2, <2>2 DEF TargetGreen
  <2>4. cov'.target \in 1..Len(Targets)
    BY <1>1, <1>3, <2>2
  <2> QED
    BY <2>2, <2>3, <2>4 DEF CovInv, TsTypeOK, Running, VerdictIsTheCodes
<1>4. CASE ~(cov.target < Len(Targets))
  <2>1. cov' = [cov EXCEPT !.at = "ok"]
    BY <1>4 DEF NextTarget
  <2>2. cov' \in CovType /\ cov'.at = "ok" /\ cov'.tracked = cov.tracked
    BY <1>1, <2>1 DEF CovType
  <2>3. \A i \in 1..Len(Targets) : TargetGreen(Targets[i], cov.tracked)
    BY <1>1, <1>2, <1>4
  <2>4. Green(cov.tracked)
    BY <2>3, TargetNames DEF Green, TargetGreen
  <2> QED
    BY <2>2, <2>4 DEF CovInv, TsTypeOK, Running, VerdictIsTheCodes, Green
<1> QED
  BY <1>3, <1>4

LEMMA CoverageFailsStep ==
  ASSUME CovInv, Running, CoverageFails,
         \/ ~TargetGreen(Targets[cov.target], cov.tracked) \/ starved' \/ created # {},
         UNCHANGED <<tracked, scratch, covered, red, created, changes>>, starved' \in BOOLEAN
  PROVE  CovInv'
<1>1. cov' \in CovType /\ cov'.at = "failed" /\ cov'.tracked = cov.tracked
  BY DEF CovInv, TsTypeOK, CovType, CoverageFails
<1>2. ~TargetGreen(Targets[cov.target], cov.tracked) => ~Green(cov.tracked)
  BY TargetNames DEF CovInv, Green, TargetGreen
<1> QED
  BY <1>1, <1>2 DEF CovInv, TsTypeOK, Running, VerdictIsTheCodes, Green

LEMMA FirstTryStep == ASSUME CovInv, NEW o \in VitestRuns, FirstTry(o) PROVE CovInv'
<1>1. /\ Running /\ o \in Runs(Targets[cov.target]) /\ starved' \in BOOLEAN /\ starved' = o.starves
      /\ UNCHANGED <<tracked, scratch, covered, red, created, changes>>
  BY DEF FirstTry, Running, VitestRuns
<1>2. CASE ExitsZero(o) /\ NextTarget
  BY <1>1, <1>2, RunsTell, NextTargetStep
<1>3. CASE ~ExitsZero(o) /\ CoverageFails
  BY <1>1, <1>3, RunsTell, CoverageFailsStep
<1>4. CASE cov' = [cov EXCEPT !.at = "retry"]
  <2>1. /\ cov' \in CovType /\ cov'.at = "retry" /\ cov'.target = cov.target
        /\ cov'.tracked = cov.tracked /\ cov'.untracked = cov.untracked
    BY <1>4 DEF CovInv, TsTypeOK, CovType
  <2> QED
    BY <1>1, <2>1 DEF CovInv, TsTypeOK, Running, VerdictIsTheCodes, TargetGreen
<1> QED
  BY <1>2, <1>3, <1>4 DEF FirstTry

LEMMA RetryStep == ASSUME CovInv, NEW o \in VitestRuns, Retry(o) PROVE CovInv'
<1>1. /\ Running /\ o \in Runs(Targets[cov.target]) /\ starved' \in BOOLEAN /\ starved' = o.starves
      /\ UNCHANGED <<tracked, scratch, covered, red, created, changes>>
  BY DEF Retry, Running, VitestRuns
<1>2. CASE ExitsZero(o) /\ NextTarget
  BY <1>1, <1>2, RunsTell, NextTargetStep
<1>3. CASE ~ExitsZero(o) /\ CoverageFails
  BY <1>1, <1>3, RunsTell, CoverageFailsStep
<1> QED
  BY <1>2, <1>3 DEF Retry

\* Without a run there is nothing to say.
LEMMA NotRunningInv ==
  ASSUME TsTypeOK', (tracked \cap scratch)' = {}, cov' = NotRunning
  PROVE  CovInv'
BY DEF CovInv, Running, NotRunning, VerdictIsTheCodes

LEMMA EditTestsStep ==
  ASSUME CovInv, NEW fails \in SUBSET Each(Targets), NEW runs \in SUBSET Files,
         EditTests(fails, runs)
  PROVE  CovInv'
<1>1. TsTypeOK'
  BY DEF CovInv, TsTypeOK, CovType, EditTests, Altering, Settled, NotRunning
<1> QED
  BY <1>1, NotRunningInv DEF CovInv, EditTests, Settled

LEMMA NewFileStep == ASSUME CovInv, NEW f \in Files, NewFile(f) PROVE CovInv'
<1>1. TsTypeOK'
  BY DEF CovInv, TsTypeOK, NewFile, Altering
<1> QED
  BY <1>1 DEF CovInv, NewFile, Running, VerdictIsTheCodes, TargetGreen, Green

LEMMA AddFileStep == ASSUME CovInv, NEW f \in Files, AddFile(f) PROVE CovInv'
<1>1. TsTypeOK'
  BY DEF CovInv, TsTypeOK, CovType, AddFile, Altering, NotRunning
<1>2. (tracked \cap scratch)' = {} /\ tracked' \cup scratch' = tracked \cup scratch
  BY DEF CovInv, AddFile
<1>3. CASE cov.at \in {"ok", "failed"}
  BY <1>1, <1>2, <1>3, NotRunningInv DEF AddFile
<1>4. CASE cov.at \notin {"ok", "failed"}
  BY <1>1, <1>2, <1>4 DEF CovInv, AddFile, Running, VerdictIsTheCodes, TargetGreen, Green
<1> QED
  BY <1>3, <1>4

LEMMA CovInvariant == CoverageSpec => []CovInv
<1>1. CoverageInit => CovInv
  BY CovInit
<1>2. CovInv /\ [CoverageNext]_covVars => CovInv'
  <2> SUFFICES ASSUME CovInv, [CoverageNext]_covVars PROVE CovInv'
    OBVIOUS
  <2>1. CASE UNCHANGED tsVars
    BY <2>1 DEF tsVars, CovInv, TsTypeOK, Running, VerdictIsTheCodes, TargetGreen, Green
  <2>2. CASE StartCoverage
    BY <2>2, StartCoverageStep
  <2>3. CASE \E o \in VitestRuns : FirstTry(o) \/ Retry(o)
    BY <2>3, FirstTryStep, RetryStep
  <2>4. CASE \E fails \in SUBSET Each(Targets), runs \in SUBSET Files : EditTests(fails, runs)
    BY <2>4, EditTestsStep
  <2>5. CASE \E f \in Files : NewFile(f) \/ AddFile(f)
    BY <2>5, NewFileStep, AddFileStep
  <2> QED
    BY <2>1, <2>2, <2>3, <2>4, <2>5 DEF CoverageNext, covVars
<1> QED
  BY <1>1, <1>2, PTL DEF CoverageSpec

(***************************************************************************)
(* A green cov-ts means that no test fails and everything that was tracked *)
(* and is measured is covered, and a red one that it is not so, whatever   *)
(* starved runs and scratch files there were (scripts/test-coverage.ts).   *)
(***************************************************************************)
THEOREM CoverageVerdictIsTheCodes == CoverageSpec => []VerdictIsTheCodes
BY CovInvariant, PTL DEF CovInv

-----------------------------------------------------------------------------
(***************************************************************************)
(* The cargo lanes: between the tests of a lane and its report nobody else *)
(* has written to its target directory.                                    *)
(***************************************************************************)
LaneState == [at : {"idle", "build", "test", "report", "ok", "failed"},
              package : 1..Len(Packages)]

LaneInv ==
  /\ lane \in [Worktrees -> LaneState]
  /\ profiles \in [Worktrees \cup {"shared"} -> SUBSET Worktrees]
  /\ good \subseteq Worktrees /\ foreign = {}
  /\ \A w \in Worktrees : /\ lane[w].at = "report" => profiles[w] = {w}
                          /\ lane[w].at = "ok" => w \in good

LEMMA CommandsType == \A p \in 1..Len(Packages) : Commands(p) \in LaneState
BY CoverageAssumption DEF Commands, LaneState

LEMMA LaneInvariant == CoverageSpec => []LaneInv
<1>1. CoverageInit => LaneInv
  BY CoverageAssumption DEF CoverageInit, LaneInv, LaneState
<1>2. LaneInv /\ [CoverageNext]_covVars => LaneInv'
  <2> SUFFICES ASSUME LaneInv, [CoverageNext]_covVars PROVE LaneInv'
    OBVIOUS
  <2>0. 1 \in 1..Len(Packages) /\ Len(Packages) \in Nat
    BY CoverageAssumption, HasFirst
  <2>1. CASE UNCHANGED laneVars
    BY <2>1 DEF laneVars, LaneInv
  <2>2. ASSUME NEW w \in Worktrees, LaneStart(w) PROVE LaneInv'
    <3>1. Commands(1) \in LaneState /\ Commands(1).at \in {"build", "test"}
      BY <2>0, CommandsType DEF Commands
    <3> QED
      BY <2>2, <3>1 DEF LaneInv, LaneStart
  <2>3. ASSUME NEW w \in Worktrees, Build(w) PROVE LaneInv'
    <3>1. PICK next \in {"test", "failed"} : lane' = [lane EXCEPT ![w].at = next]
      BY <2>3 DEF Build, LaneStops
    <3> QED
      BY <2>3, <3>1 DEF LaneInv, LaneState, Build
  <2>4. ASSUME NEW w \in Worktrees, RunTests(w) PROVE LaneInv'
    BY <2>4 DEF LaneInv, LaneState, RunTests, TargetDir
  <2>5. ASSUME NEW w \in Worktrees, Report(w) PROVE LaneInv'
    <3>1. profiles[w] = {w} /\ foreign' = foreign /\ UNCHANGED <<profiles, good>>
      BY <2>5 DEF LaneInv, Report, TargetDir
    <3>2. CASE w \in good /\ LaneGoes(w)
      <4>1. CASE lane[w].package < Len(Packages)
        <5>1. lane[w].package + 1 \in 1..Len(Packages)
          BY <2>0, <4>1 DEF LaneInv, LaneState
        <5>2. /\ Commands(lane[w].package + 1) \in LaneState
              /\ Commands(lane[w].package + 1).at \in {"build", "test"}
          BY <5>1, CommandsType DEF Commands
        <5>3. lane' = [lane EXCEPT ![w] = Commands(lane[w].package + 1)]
          BY <3>2, <4>1 DEF LaneGoes
        <5> QED
          BY <3>1, <5>2, <5>3 DEF LaneInv
      <4>2. CASE ~(lane[w].package < Len(Packages))
        <5>1. lane' = [lane EXCEPT ![w] = [lane[w] EXCEPT !.at = "ok"]]
          BY <3>2, <4>2 DEF LaneGoes
        <5> QED
          BY <3>1, <3>2, <5>1 DEF LaneInv, LaneState
      <4> QED
        BY <4>1, <4>2
    <3>3. CASE LaneStops(w)
      BY <3>1, <3>3 DEF LaneInv, LaneState, LaneStops
    <3> QED
      BY <2>5, <3>1, <3>2, <3>3 DEF Report, TargetDir
  <2> QED
    BY <2>1, <2>2, <2>3, <2>4, <2>5 DEF CoverageNext, covVars
<1> QED
  BY <1>1, <1>2, PTL DEF CoverageSpec

(***************************************************************************)
(* The report of a cargo lane is made of its own worktree's profiles, and  *)
(* a green lane is one of code that meets the thresholds, for any number   *)
(* of worktrees of one host (scripts/lib/coverage.ts).                     *)
(***************************************************************************)
THEOREM LanesKeepApart == CoverageSpec => []LaneIsItsOwn
<1>1. LaneInv => LaneIsItsOwn
  BY DEF LaneInv, LaneIsItsOwn
<1> QED
  BY <1>1, LaneInvariant, PTL

-----------------------------------------------------------------------------
(***************************************************************************)
(* The vendored skills: a run of update-slp works on what it staged when   *)
(* it began, and what it has replaced so far is what it staged.            *)
(***************************************************************************)
Upstream == [Skills -> Contents \cup {NoSkill}]

SkillsTypeOK ==
  /\ library \in Seq(Upstream) /\ Len(library) > 0
  /\ manifest \in [commit : 1..Len(library), skills : Lists]
  /\ shipped \in [Skills -> Skill \cup {NoSkill}]

\* The skills of the list are those of the commit, as update-slp copies them.
Pinned(list, sha) ==
  \A s \in Names(list) : /\ library[sha][s] # NoSkill
                         /\ shipped[s] = Vendored(library[sha][s], list, sha)

UpdateInv ==
  update # Idle =>
    /\ update \in [at : {"remove", "copy"}, sha : 1..Len(library), source : Lists,
                   staged : [Names(update.source) -> Skill], next : 1..(Len(update.source) + 1)]
    /\ \A s \in Names(update.source) : library[update.sha][s] # NoSkill
    /\ update.staged = Staged(update.source, update.sha)
    /\ update.at = "copy" => update.next <= Len(update.source) /\ ~intact
    /\ \A i \in 1..(update.next - 1) :
         \/ shipped[update.source[i]] = update.staged[update.source[i]]
         \/ update.at = "copy" /\ update.source[i] = update.source[update.next]

VendoredInv ==
  /\ SkillsTypeOK /\ UpdateInv
  /\ intact \in BOOLEAN
  /\ intact => Pinned(manifest.skills, manifest.commit)

LEMMA ListNames ==
  ASSUME NEW list \in Lists
  PROVE  /\ Names(list) \subseteq Skills /\ Len(list) \in Nat
         /\ \A i \in 1..Len(list) : list[i] \in Names(list)
         /\ \A s \in Names(list) : \E i \in 1..Len(list) : s = list[i]
<1>1. list \in Seq(Skills)
  BY AgentFilesAssumption
<1> QED
  BY <1>1 DEF Names

LEMMA VendoredType ==
  ASSUME NEW skill \in Contents, NEW list, NEW sha \in Nat
  PROVE  /\ Vendored(skill, list, sha) \in Skill
         /\ Vendored(skill, list, sha) # NoSkill
         /\ Vendored(skill, list, sha).text = skill.text
<1>1. /\ skill.text \in Texts /\ skill.links \subseteq Skills \cup {Outside, Escaping}
      /\ NoSkill \notin Skill
  BY AgentFilesAssumption
<1>2. \A t \in skill.links :
        Rewritten(t, list, sha) \in [to : Skills \cup {Outside, Escaping}, at : Nat]
  BY <1>1 DEF Rewritten, Here
<1>3. Vendored(skill, list, sha) \in Skill
  BY <1>1, <1>2 DEF Vendored, Skill
<1> QED
  BY <1>1, <1>3 DEF Vendored

LEMMA StagedType ==
  ASSUME SkillsTypeOK, NEW list \in Lists, NEW sha \in 1..Len(library),
         \A s \in Names(list) : library[sha][s] # NoSkill
  PROVE  /\ Staged(list, sha) \in [Names(list) -> Skill]
         /\ \A s \in Names(list) : /\ Staged(list, sha)[s] = Vendored(library[sha][s], list, sha)
                                   /\ Staged(list, sha)[s] # NoSkill
<1>1. \A s \in Names(list) : library[sha][s] \in Contents
  BY ListNames DEF SkillsTypeOK, Upstream
<1>2. sha \in Nat
  BY DEF SkillsTypeOK
<1> QED
  BY <1>1, <1>2, VendoredType DEF Staged

\* A commit of upstream leaves the commits before it alone.
LEMMA CommitUpstreamStep ==
  ASSUME VendoredInv, NEW s \in Skills, NEW skill \in Contents \cup {NoSkill},
         CommitUpstream(s, skill)
  PROVE  VendoredInv'
<1> DEFINE last == library[Len(library)]
           next == [last EXCEPT ![s] = skill]
<1>1. library \in Seq(Upstream) /\ Len(library) \in 1..Len(library)
  BY DEF VendoredInv, SkillsTypeOK
<1>2. last \in Upstream
  BY <1>1
<1>3. next \in Upstream
  BY <1>2 DEF Upstream
<1> HIDE DEF next
<1>4. library' = Append(library, next)
  BY DEF CommitUpstream, next
<1>5. /\ library' \in Seq(Upstream) /\ Len(library') = Len(library) + 1
      /\ \A i \in 1..Len(library) : library'[i] = library[i]
  BY <1>1, <1>3, <1>4
<1>6. UNCHANGED <<manifest, shipped, update, intact>>
  BY DEF CommitUpstream
<1>7. SkillsTypeOK'
  BY <1>1, <1>5, <1>6 DEF VendoredInv, SkillsTypeOK
<1>8. \A list, sha : sha \in 1..Len(library) =>
        /\ Staged(list, sha)' = Staged(list, sha)
        /\ Pinned(list, sha) => Pinned(list, sha)'
  BY <1>5, <1>6 DEF Staged, Pinned, Vendored, Rewritten
<1>9. UpdateInv'
  BY <1>1, <1>5, <1>6, <1>8 DEF VendoredInv, UpdateInv
<1> QED
  BY <1>6, <1>7, <1>8, <1>9 DEF VendoredInv, SkillsTypeOK

LEMMA StartUpdateStep ==
  ASSUME VendoredInv, NEW sha \in DOMAIN library, StartUpdate(sha)
  PROVE  VendoredInv'
<1>1. sha \in 1..Len(library) /\ manifest.skills \in Lists
  BY DEF VendoredInv, SkillsTypeOK
<1>2. /\ \A s \in Names(manifest.skills) : library[sha][s] # NoSkill
      /\ update' = [at |-> "remove", sha |-> sha, source |-> manifest.skills,
                    staged |-> Staged(manifest.skills, sha), next |-> 1]
      /\ UNCHANGED <<library, manifest, shipped, intact>>
  BY DEF StartUpdate
<1>3. Staged(manifest.skills, sha) \in [Names(manifest.skills) -> Skill]
  BY <1>1, <1>2, StagedType DEF VendoredInv
<1>4. 1 \in 1..(Len(manifest.skills) + 1)
  BY <1>1, ListNames
<1>5. /\ update'.at = "remove" /\ update'.sha = sha /\ update'.source = manifest.skills
      /\ update'.staged = Staged(manifest.skills, sha) /\ update'.next = 1
  BY <1>2
<1>6. update' \in [at : {"remove", "copy"}, sha : 1..Len(library), source : Lists,
                   staged : [Names(update'.source) -> Skill],
                   next : 1..(Len(update'.source) + 1)]
  BY <1>1, <1>2, <1>3, <1>4, <1>5
<1>7. Staged(manifest.skills, sha)' = Staged(manifest.skills, sha)
  BY <1>2 DEF Staged, Vendored, Rewritten
<1>8. UpdateInv'
  <2>1. \A s \in Names(update'.source) : library'[update'.sha][s] # NoSkill
    BY <1>2, <1>5
  <2>2. update'.staged = Staged(update.source, update.sha)'
    BY <1>2, <1>5, <1>7
  <2>3. update'.at # "copy" /\ 1..(update'.next - 1) = {}
    BY <1>5
  <2>4. update' \in [at : {"remove", "copy"}, sha : 1..Len(library'), source : Lists,
                     staged : [Names(update'.source) -> Skill],
                     next : 1..(Len(update'.source) + 1)]
    BY <1>2, <1>6
  <2> QED
    BY <2>1, <2>2, <2>3, <2>4 DEF UpdateInv
<1> QED
  BY <1>2, <1>8 DEF VendoredInv, SkillsTypeOK, Pinned

\* What an update that runs has to itself.
UpdateFields(u) ==
  /\ u.at \in {"remove", "copy"} /\ u.sha \in 1..Len(library) /\ u.source \in Lists
  /\ u.next \in 1..(Len(u.source) + 1) /\ u.staged = Staged(u.source, u.sha)
  /\ u.staged \in [Names(u.source) -> Skill]
  /\ \A s \in Names(u.source) : library[u.sha][s] # NoSkill

LEMMA UpdateFacts ==
  ASSUME VendoredInv, update # Idle
  PROVE  /\ UpdateFields(update)
         /\ Names(update.source) \subseteq Skills /\ Len(update.source) \in Nat
         /\ update.next \in Nat
         /\ update.next <= Len(update.source) => update.source[update.next] \in Names(update.source)
<1>1. UpdateFields(update)
  BY DEF VendoredInv, UpdateInv, UpdateFields
<1>2. update.source \in Lists /\ update.next \in 1..(Len(update.source) + 1)
  BY <1>1 DEF UpdateFields
<1> QED
  BY <1>1, <1>2, ListNames

LEMMA RemoveSkillStep == ASSUME VendoredInv, RemoveSkill PROVE VendoredInv'
<1> DEFINE s == update.source[update.next]
<1>1. update # Idle /\ update.at = "remove" /\ update.next <= Len(update.source)
  BY DEF RemoveSkill, Idle
<1>2. /\ shipped' = [shipped EXCEPT ![s] = NoSkill]
      /\ update' = [update EXCEPT !.at = "copy"]
      /\ UNCHANGED <<library, manifest>> /\ intact' = FALSE
  BY DEF RemoveSkill
<1>3. UpdateFields(update) /\ s \in Skills
  BY <1>1, UpdateFacts
<1>4. update' \in [at : {"remove", "copy"}, sha : 1..Len(library), source : Lists,
                   staged : [Names(update.source) -> Skill], next : 1..(Len(update.source) + 1)]
  BY <1>1, <1>2 DEF VendoredInv, UpdateInv
<1>5. /\ update'.at = "copy" /\ update'.sha = update.sha /\ update'.source = update.source
      /\ update'.staged = update.staged /\ update'.next = update.next
  BY <1>1, <1>2 DEF VendoredInv, UpdateInv
<1>6. \A i \in 1..(update.next - 1) :
        \/ shipped'[update.source[i]] = update.staged[update.source[i]]
        \/ update.source[i] = s
  <2> SUFFICES ASSUME NEW i \in 1..(update.next - 1), update.source[i] # s
               PROVE  shipped'[update.source[i]] = update.staged[update.source[i]]
    OBVIOUS
  <2>1. shipped[update.source[i]] = update.staged[update.source[i]]
    BY <1>1 DEF VendoredInv, UpdateInv
  <2>2. i \in 1..Len(update.source)
    BY <1>1, UpdateFacts
  <2>3. update.source[i] \in Skills
    BY <1>1, <2>2, UpdateFacts, ListNames DEF UpdateFields
  <2> QED
    BY <1>2, <2>1, <2>3 DEF VendoredInv, SkillsTypeOK
<1> HIDE DEF s
<1>7. Staged(update.source, update.sha)' = update.staged
  BY <1>2, <1>3, <1>5 DEF UpdateFields, Staged, Vendored, Rewritten
<1>8. UpdateInv'
  <2>1. update'.source[update'.next] = s
    BY <1>5 DEF s
  <2>2. \A x \in Names(update'.source) : library'[update'.sha][x] # NoSkill
    BY <1>2, <1>3, <1>5 DEF UpdateFields
  <2>3. Staged(update.source, update.sha)' = update'.staged
    BY <1>5, <1>7
  <2> QED
    BY <1>1, <1>2, <1>4, <1>5, <1>6, <2>1, <2>2, <2>3 DEF UpdateInv
<1>9. SkillsTypeOK'
  BY <1>2, <1>3 DEF VendoredInv, SkillsTypeOK
<1> QED
  BY <1>2, <1>8, <1>9 DEF VendoredInv

LEMMA CopySkillStep == ASSUME VendoredInv, CopySkill PROVE VendoredInv'
<1> DEFINE s == update.source[update.next]
           after == update.next + 1
<1>1. /\ update # Idle /\ update.at = "copy" /\ update.next <= Len(update.source) /\ ~intact
  BY DEF CopySkill, Idle, VendoredInv, UpdateInv
<1>2. /\ shipped' = [shipped EXCEPT ![s] = update.staged[s]]
      /\ update' = [update EXCEPT !.at = "remove", !.next = after]
      /\ UNCHANGED <<library, manifest, intact>>
  BY DEF CopySkill
<1>3. /\ UpdateFields(update) /\ s \in Skills /\ s \in Names(update.source)
      /\ update.staged[s] \in Skill
  BY <1>1, UpdateFacts DEF UpdateFields
<1>4. /\ after \in 1..(Len(update.source) + 1)
  BY <1>1, UpdateFacts
<1>5. \A i \in 1..(after - 1) : shipped'[update.source[i]] = update.staged[update.source[i]]
  <2> SUFFICES ASSUME NEW i \in 1..update.next
               PROVE  shipped'[update.source[i]] = update.staged[update.source[i]]
    BY <1>1, UpdateFacts
  <2>1. i \in 1..Len(update.source)
    BY <1>1, UpdateFacts
  <2>2. update.source[i] \in Skills
    BY <1>1, <2>1, UpdateFacts, ListNames DEF UpdateFields
  <2>3. CASE update.source[i] = s
    BY <1>2, <1>3, <2>3 DEF VendoredInv, SkillsTypeOK
  <2>4. CASE update.source[i] # s
    <3>1. i \in 1..(update.next - 1)
      BY <1>1, <2>4, UpdateFacts
    <3>2. shipped[update.source[i]] = update.staged[update.source[i]]
      BY <1>1, <2>4, <3>1 DEF VendoredInv, UpdateInv
    <3> QED
      BY <1>2, <2>2, <2>4, <3>2 DEF VendoredInv, SkillsTypeOK
  <2> QED
    BY <2>3, <2>4
<1> HIDE DEF s, after
<1>6. update' \in [at : {"remove", "copy"}, sha : 1..Len(library), source : Lists,
                   staged : [Names(update.source) -> Skill], next : 1..(Len(update.source) + 1)]
  BY <1>1, <1>2, <1>4 DEF VendoredInv, UpdateInv
<1>7. /\ update'.at = "remove" /\ update'.sha = update.sha /\ update'.source = update.source
      /\ update'.staged = update.staged /\ update'.next = after
  BY <1>1, <1>2 DEF VendoredInv, UpdateInv
<1>8. Staged(update.source, update.sha)' = update.staged
  BY <1>2, <1>3, <1>7 DEF UpdateFields, Staged, Vendored, Rewritten
<1>9. UpdateInv'
  <2>1. \A x \in Names(update'.source) : library'[update'.sha][x] # NoSkill
    BY <1>2, <1>3, <1>7 DEF UpdateFields
  <2>2. Staged(update.source, update.sha)' = update'.staged
    BY <1>7, <1>8
  <2> QED
    BY <1>2, <1>5, <1>6, <1>7, <2>1, <2>2 DEF UpdateInv
<1>10. SkillsTypeOK'
  BY <1>2, <1>3 DEF VendoredInv, SkillsTypeOK
<1> QED
  BY <1>1, <1>2, <1>9, <1>10 DEF VendoredInv

LEMMA WriteSourceStep == ASSUME VendoredInv, WriteSource PROVE VendoredInv'
<1>1. /\ update # Idle /\ update.at = "remove" /\ update.next > Len(update.source)
  BY DEF WriteSource, Idle
<1>2. /\ manifest' = [commit |-> update.sha, skills |-> update.source] /\ update' = Idle
      /\ intact' = TRUE /\ UNCHANGED <<library, shipped>>
  BY DEF WriteSource
<1>3. UpdateFields(update) /\ update.next \in Nat /\ Len(update.source) \in Nat
  BY <1>1, UpdateFacts
<1>4. \A x \in Names(update.source) : shipped[x] = update.staged[x]
  <2> SUFFICES ASSUME NEW x \in Names(update.source) PROVE shipped[x] = update.staged[x]
    OBVIOUS
  <2>1. PICK i \in 1..Len(update.source) : x = update.source[i]
    BY <1>3, ListNames DEF UpdateFields
  <2>2. i \in 1..(update.next - 1)
    BY <1>1, <1>3
  <2> QED
    BY <1>1, <2>1, <2>2 DEF VendoredInv, UpdateInv
<1>5. Pinned(update.source, update.sha)
  BY <1>3, <1>4, StagedType DEF VendoredInv, UpdateFields, Pinned
<1>6. Pinned(manifest.skills, manifest.commit)'
  BY <1>2, <1>5 DEF Pinned, Vendored, Rewritten
<1> QED
  BY <1>2, <1>3, <1>6 DEF VendoredInv, SkillsTypeOK, UpdateInv, UpdateFields

LEMMA UpdateDiesStep == ASSUME VendoredInv, NEW half \in BOOLEAN, UpdateDies(half) PROVE VendoredInv'
<1>1. /\ update # Idle /\ update' = Idle /\ UNCHANGED <<library, manifest>>
      /\ intact' = (intact /\ ~half)
  BY DEF UpdateDies
<1>2. CASE half
  <2>1. /\ shipped' = [shipped EXCEPT ![update.source[update.next]] = Partial]
        /\ update.source[update.next] \in Skills
    BY <1>1, <1>2, UpdateFacts DEF UpdateDies
  <2>2. Partial \in Skill
    BY DEF Partial, Skill
  <2> QED
    BY <1>1, <1>2, <2>1, <2>2 DEF VendoredInv, SkillsTypeOK, UpdateInv
<1>3. CASE ~half
  BY <1>1, <1>3 DEF VendoredInv, SkillsTypeOK, UpdateInv, UpdateDies, Pinned
<1> QED
  BY <1>2, <1>3

LEMMA EditManifestStep == ASSUME VendoredInv, NEW list \in Lists, EditManifest(list) PROVE VendoredInv'
<1>1. /\ manifest' = [manifest EXCEPT !.skills = list] /\ intact' = FALSE
      /\ UNCHANGED <<library, shipped, update>>
  BY DEF EditManifest
<1>2. SkillsTypeOK'
  BY <1>1 DEF VendoredInv, SkillsTypeOK
<1>3. Staged(update.source, update.sha)' = Staged(update.source, update.sha)
  BY <1>1 DEF Staged, Vendored, Rewritten
<1>4. UpdateInv'
  BY <1>1, <1>3 DEF VendoredInv, UpdateInv
<1> QED
  BY <1>1, <1>2, <1>4 DEF VendoredInv

LEMMA EditSkillStep ==
  ASSUME VendoredInv, NEW s \in Skills, NEW text \in Texts \cup {NoSkill}, EditSkill(s, text)
  PROVE  VendoredInv'
<1> DEFINE value == IF text = NoSkill THEN NoSkill ELSE [text |-> text, links |-> {}]
<1>1. value \in Skill \cup {NoSkill}
  BY DEF Skill
<1> HIDE DEF value
<1>2. /\ shipped' = [shipped EXCEPT ![s] = value]
      /\ UNCHANGED <<library, manifest, update, intact>>
      /\ s \notin Names(manifest.skills) \cup Names(update.source)
  BY DEF EditSkill, value
<1>3. \A x \in Names(manifest.skills) \cup Names(update.source) : shipped'[x] = shipped[x]
  BY <1>2 DEF VendoredInv, SkillsTypeOK
<1>4. UpdateInv'
  <2>1. Staged(update.source, update.sha)' = Staged(update.source, update.sha)
    BY <1>2 DEF Staged, Vendored, Rewritten
  <2>2. CASE update # Idle
    <3>1. \A i \in 1..(update.next - 1) : shipped'[update.source[i]] = shipped[update.source[i]]
      BY <1>3, <2>2, UpdateFacts, ListNames DEF UpdateFields
    <3> QED
      BY <1>2, <2>1, <3>1 DEF VendoredInv, UpdateInv
  <2> QED
    BY <1>2, <2>2 DEF UpdateInv
<1>5. Pinned(manifest.skills, manifest.commit) => Pinned(manifest.skills, manifest.commit)'
  BY <1>2, <1>3 DEF Pinned, Vendored, Rewritten
<1>6. SkillsTypeOK'
  BY <1>1, <1>2 DEF VendoredInv, SkillsTypeOK
<1> QED
  BY <1>2, <1>4, <1>5, <1>6 DEF VendoredInv

\* A fork begins with the skills of a commit that has all of its list.
LEMMA AgentsInitVendored == ASSUME AgentsInit PROVE VendoredInv
<1>1. PICK content \in [Skills -> Contents \cup {NoSkill}], list \in Lists \ {<<>>} :
        /\ \A s \in Names(list) : content[s] # NoSkill /\ content[s].text \notin Unusable
        /\ library = <<content>>
        /\ manifest = [commit |-> 1, skills |-> list]
        /\ shipped = [s \in Skills |-> IF s \in Names(list)
                        THEN [text |-> content[s].text,
                              links |-> {[to |-> t, at |-> IF t \in Names(list) \cup {Escaping}
                                                           THEN Here ELSE 1] :
                                         t \in content[s].links}]
                        ELSE NoSkill]
        /\ document = [list |-> {<<s, content[s].text>> : s \in Names(list)}, text |-> 0]
  BY DEF AgentsInit
<1>2. \A s \in Names(list) : content[s] \in Contents /\ s \in Skills
  BY <1>1, ListNames
<1>3. \A s \in Names(list) : shipped[s] = Vendored(content[s], list, 1)
  BY <1>1, <1>2 DEF Vendored, Rewritten
<1>8. \A s \in Names(list) : Vendored(content[s], list, 1) \in Skill
  BY <1>2, VendoredType
<1>4. \A s \in Skills : shipped[s] \in Skill \cup {NoSkill}
  BY <1>1, <1>3, <1>8
<1>5. library \in Seq(Upstream) /\ Len(library) = 1 /\ library[1] = content
  BY <1>1 DEF Upstream
<1>6. SkillsTypeOK
  BY <1>1, <1>4, <1>5 DEF SkillsTypeOK
<1>7. Pinned(manifest.skills, manifest.commit)
  BY <1>1, <1>3, <1>5 DEF Pinned
<1> QED
  BY <1>6, <1>7 DEF VendoredInv, UpdateInv, AgentsInit

LEMMA VendoredInvariant == AgentsSpec => []VendoredInv
<1>1. VendoredInv /\ [AgentsNext]_agentVars => VendoredInv'
  <2> SUFFICES ASSUME VendoredInv, [AgentsNext]_agentVars PROVE VendoredInv'
    OBVIOUS
  <2>1. CASE UNCHANGED <<library, manifest, shipped, update, intact>>
    <3>1. Staged(update.source, update.sha)' = Staged(update.source, update.sha)
      BY <2>1 DEF Staged, Vendored, Rewritten
    <3>2. UpdateInv'
      BY <2>1, <3>1 DEF VendoredInv, UpdateInv
    <3>3. Pinned(manifest.skills, manifest.commit) => Pinned(manifest.skills, manifest.commit)'
      BY <2>1 DEF Pinned, Vendored, Rewritten
    <3> QED
      BY <2>1, <3>2, <3>3 DEF VendoredInv, SkillsTypeOK
  <2>2. CASE \E sha \in DOMAIN library : StartUpdate(sha)
    BY <2>2, StartUpdateStep
  <2>3. CASE RemoveSkill \/ CopySkill \/ WriteSource
    BY <2>3, RemoveSkillStep, CopySkillStep, WriteSourceStep
  <2>4. CASE \E half \in BOOLEAN : UpdateDies(half)
    BY <2>4, UpdateDiesStep
  <2>5. CASE CheckSkills \/ WriteSkills \/ LinkMirrors
    BY <2>1, <2>5 DEF CheckSkills, WriteSkills, LinkMirrors
  <2>6. CASE \E s \in Skills, skill \in Contents \cup {NoSkill} : CommitUpstream(s, skill)
    BY <2>6, CommitUpstreamStep
  <2>7. CASE \E list \in Lists : EditManifest(list)
    BY <2>7, EditManifestStep
  <2>8. CASE \E s \in Skills, text \in Texts \cup {NoSkill} : EditSkill(s, text)
    BY <2>8, EditSkillStep
  <2>9. CASE \/ \E list \in {document.list, {}, {NoSkill}} : EditDocument(list)
             \/ \E m \in Mirrors, value \in {NoMirror, Directory, LinkTo("other"), Copy(document)} :
                  EditMirror(m, value)
    BY <2>1, <2>9 DEF EditDocument, EditMirror
  <2>10. CASE UNCHANGED agentVars
    BY <2>1, <2>10 DEF agentVars
  <2> QED
    BY <2>2, <2>3, <2>4, <2>5, <2>6, <2>7, <2>8, <2>9, <2>10 DEF AgentsNext
<1> QED
  BY <1>1, AgentsInitVendored, PTL DEF AgentsSpec

(***************************************************************************)
(* After an update that finished the vendored skills are those of the      *)
(* recorded commit, and each of their links leads to what was there        *)
(* (scripts/update-slp.ts, updateSlp and rewriteLink).                     *)
(***************************************************************************)
THEOREM VendoredSkillsArePinned == AgentsSpec => []VendoredIsPinned
<1>1. VendoredInv => VendoredIsPinned
  <2> SUFFICES ASSUME VendoredInv, intact, NEW s \in Names(manifest.skills)
               PROVE  LET then == library[manifest.commit]
                      IN  /\ then[s] # NoSkill /\ shipped[s] # NoSkill
                          /\ shipped[s].text = then[s].text
                          /\ \A link \in shipped[s].links : link.to # Escaping =>
                               \/ link.at = manifest.commit /\ link.to \notin Names(manifest.skills)
                               \/ /\ link.to \in Names(manifest.skills)
                                  /\ Found(link) = then[link.to].text
    BY DEF VendoredIsPinned
  <2> DEFINE then == library[manifest.commit]
  <2>1. /\ manifest.commit \in 1..Len(library) /\ manifest.skills \in Lists
        /\ manifest.commit \in Nat
    BY DEF VendoredInv, SkillsTypeOK
  <2>2. \A x \in Names(manifest.skills) :
          /\ x \in Skills /\ then[x] \in Contents
          /\ shipped[x] = Vendored(then[x], manifest.skills, manifest.commit)
    BY <2>1, ListNames DEF VendoredInv, SkillsTypeOK, Pinned, Upstream
  <2>3. \A x \in Names(manifest.skills) : shipped[x] # NoSkill /\ shipped[x].text = then[x].text
    BY <2>1, <2>2, VendoredType
  <2>4. ASSUME NEW link \in shipped[s].links, link.to # Escaping
        PROVE  \/ link.at = manifest.commit /\ link.to \notin Names(manifest.skills)
               \/ link.to \in Names(manifest.skills) /\ Found(link) = then[link.to].text
    <3>4. shipped[s].links = {Rewritten(t, manifest.skills, manifest.commit) : t \in then[s].links}
      <4>1. shipped[s] = Vendored(then[s], manifest.skills, manifest.commit)
        BY <2>2
      <4> HIDE DEF then
      <4> QED
        BY <4>1 DEF Vendored
    <3>1. PICK t \in then[s].links : link = Rewritten(t, manifest.skills, manifest.commit)
      BY <2>4, <3>4
    <3>2. CASE t \in Names(manifest.skills)
      BY <2>2, <2>3, <3>1, <3>2 DEF Rewritten, Found
    <3>3. CASE t \notin Names(manifest.skills)
      BY <2>4, <3>1, <3>3 DEF Rewritten
    <3> QED
      BY <3>2, <3>3
  <2>5. then[s] # NoSkill
    BY DEF VendoredInv, Pinned
  <2> QED
    BY <2>3, <2>4, <2>5
<1> QED
  BY <1>1, VendoredInvariant, PTL

-----------------------------------------------------------------------------
(***************************************************************************)
(* What agents read: once the list was checked it has what is there, and   *)
(* once the mirrors were linked each leads to the document or copies it.   *)
(***************************************************************************)
Document == [list : SUBSET ((Skills \X (Texts \cup {NoSkill})) \cup {NoSkill}), text : Nat]

Mirror == {NoMirror, Directory, LinkTo("AGENTS.md"), LinkTo("other")} \cup {Copy(d) : d \in Document}

ViewTypeOK ==
  /\ document \in Document /\ mirror \in [Mirrors -> Mirror]
  /\ windows \in BOOLEAN /\ touches \in Nat
  /\ listed \in BOOLEAN /\ linked \in BOOLEAN

ViewInv ==
  /\ ViewTypeOK
  /\ listed => document.list = Inventory /\ Issues = {}
  /\ linked => \A m \in Mirrors : mirror[m] \in {LinkTo("AGENTS.md"), Copy(document)}

\* The four kinds of mirror.
LEMMA MirrorKinds ==
  ASSUME NEW x \in Mirror
  PROVE  /\ x.kind = "none" => x = NoMirror
         /\ x.kind = "dir" <=> x = Directory
         /\ x.kind = "link" => x \in {LinkTo("AGENTS.md"), LinkTo("other")}
         /\ x.kind = "file" <=> \E d \in Document : x = Copy(d)
         /\ x.kind \in {"none", "dir", "link", "file"}
BY DEF Mirror, NoMirror, Directory, LinkTo, Copy

LEMMA InventoryType ==
  ASSUME SkillsTypeOK
  PROVE  Inventory \in SUBSET ((Skills \X (Texts \cup {NoSkill})) \cup {NoSkill})
<1>1. \A s \in Directories : s \in Skills /\ shipped[s].text \in Texts \cup {NoSkill}
  BY DEF SkillsTypeOK, Directories, Skill
<1> QED
  BY <1>1 DEF Inventory

LEMMA SameInventory ==
  ASSUME UNCHANGED shipped PROVE Inventory' = Inventory /\ Issues' = Issues
BY DEF Inventory, Issues, Directories

LEMMA AgentsInitView == ASSUME AgentsInit PROVE ViewInv
<1>1. PICK content \in [Skills -> Contents \cup {NoSkill}], list \in Lists \ {<<>>} :
        /\ \A s \in Names(list) : content[s] # NoSkill /\ content[s].text \notin Unusable
        /\ shipped = [s \in Skills |-> IF s \in Names(list)
                        THEN [text |-> content[s].text,
                              links |-> {[to |-> t, at |-> IF t \in Names(list) \cup {Escaping}
                                                           THEN Here ELSE 1] :
                                         t \in content[s].links}]
                        ELSE NoSkill]
        /\ document = [list |-> {<<s, content[s].text>> : s \in Names(list)}, text |-> 0]
  BY DEF AgentsInit
<1>2. SkillsTypeOK
  BY AgentsInitVendored DEF VendoredInv
<1>3. \A s \in Names(list) : content[s] \in Contents /\ s \in Skills
  BY <1>1, ListNames
<1>4. \A s \in Names(list) : /\ shipped[s] # NoSkill /\ shipped[s].text = content[s].text
                             /\ shipped[s].text \in Texts /\ shipped[s].text \notin Unusable
  <2>1. \A s \in Names(list) : content[s].text \in Texts
    BY <1>3, AgentFilesAssumption
  <2>2. \A s \in Names(list) : shipped[s] = Vendored(content[s], list, 1)
    BY <1>1, <1>3 DEF Vendored, Rewritten
  <2>3. \A s \in Names(list) : /\ Vendored(content[s], list, 1) # NoSkill
                               /\ Vendored(content[s], list, 1).text = content[s].text
    BY <1>3, VendoredType
  <2>4. \A s \in Names(list) : content[s].text \notin Unusable
    BY <1>1
  <2> QED
    BY <2>1, <2>2, <2>3, <2>4
<1>5. Directories = Names(list)
  BY <1>1, <1>3, <1>4 DEF Directories
<1>6. Issues = {}
  BY <1>4, <1>5, AgentFilesAssumption DEF Issues, Partial
<1>7. document.list = Inventory /\ document.text = 0
  <2>1. \A s \in Names(list) : <<s, shipped[s].text>> = <<s, content[s].text>>
    BY <1>4
  <2>2. document.list = {<<s, content[s].text>> : s \in Names(list)}
    BY <1>1
  <2>3. Inventory = {<<s, content[s].text>> : s \in Names(list)}
    BY <1>5, <2>1 DEF Inventory
  <2> QED
    BY <1>1, <2>2, <2>3
<1>8. document \in Document
  <2>1. Inventory \in SUBSET ((Skills \X (Texts \cup {NoSkill})) \cup {NoSkill})
    BY <1>2, InventoryType
  <2> QED
    BY <1>1, <1>7, <2>1 DEF Document
<1>9. mirror \in [Mirrors -> Mirror] /\ \A m \in Mirrors : mirror[m] = LinkTo("AGENTS.md")
  BY DEF AgentsInit, Mirror
<1> QED
  BY <1>6, <1>7, <1>8, <1>9 DEF ViewInv, ViewTypeOK, AgentsInit

\* The list of a document changes: what was copied from it is stale.
LEMMA NewDocument ==
  ASSUME ViewInv, linked' = (linked /\ \A m \in Mirrors : mirror[m].kind # "file"),
         UNCHANGED mirror
  PROVE  linked' => \A m \in Mirrors : mirror'[m] \in {LinkTo("AGENTS.md"), Copy(document')}
<1> SUFFICES ASSUME linked', NEW m \in Mirrors
             PROVE  mirror'[m] \in {LinkTo("AGENTS.md"), Copy(document')}
  OBVIOUS
<1>1. linked /\ \A x \in Mirrors : mirror[x].kind # "file"
  OBVIOUS
<1>2. mirror[m] \in {LinkTo("AGENTS.md"), Copy(document)} /\ mirror[m].kind # "file"
  BY <1>1 DEF ViewInv
<1>3. mirror[m] = LinkTo("AGENTS.md")
  BY <1>2 DEF Copy
<1> QED
  BY <1>3

LEMMA WriteSkillsStep == ASSUME ViewInv, SkillsTypeOK, WriteSkills PROVE ViewInv'
<1>1. /\ document' = [document EXCEPT !.list = Inventory] /\ Issues = {}
      /\ listed' = TRUE /\ UNCHANGED <<shipped, mirror, windows, touches>>
      /\ linked' = (linked /\ \A m \in Mirrors : mirror[m].kind # "file")
  BY DEF WriteSkills
<1>2. document' \in Document /\ document'.list = Inventory
  BY <1>1, InventoryType DEF ViewInv, ViewTypeOK, Document
<1>3. ViewTypeOK'
  BY <1>1, <1>2 DEF ViewInv, ViewTypeOK
<1> QED
  BY <1>1, <1>2, <1>3, NewDocument, SameInventory DEF ViewInv

LEMMA EditDocumentStep ==
  ASSUME ViewInv, NEW list \in {document.list, {}, {NoSkill}}, EditDocument(list)
  PROVE  ViewInv'
<1>1. /\ document' = [list |-> list, text |-> touches'] /\ touches' = touches + 1
      /\ listed' = FALSE /\ UNCHANGED <<shipped, mirror, windows>>
      /\ linked' = (linked /\ \A m \in Mirrors : mirror[m].kind # "file")
  BY DEF EditDocument, OwnerEdits
<1>2. touches' \in Nat
  BY <1>1 DEF ViewInv, ViewTypeOK
<1>3. document' \in Document
  BY <1>1, <1>2 DEF ViewInv, ViewTypeOK, Document
<1>4. ViewTypeOK'
  BY <1>1, <1>2, <1>3 DEF ViewInv, ViewTypeOK
<1> QED
  BY <1>1, <1>4, NewDocument DEF ViewInv

LEMMA LinkMirrorsStep == ASSUME ViewInv, LinkMirrors PROVE ViewInv'
<1>1. /\ mirror' = [m \in Mirrors |-> Linked(m)] /\ linked' = \A m \in Mirrors : ~Fails(m)
      /\ UNCHANGED <<shipped, document, windows, touches, listed>>
  BY DEF LinkMirrors
<1>2. ASSUME NEW m \in Mirrors
      PROVE  /\ Linked(m) \in Mirror
             /\ ~Fails(m) => Linked(m) \in {LinkTo("AGENTS.md"), Copy(document)}
  <2>1. mirror[m] \in Mirror /\ Copy(document) \in Mirror /\ LinkTo("AGENTS.md") \in Mirror
    BY DEF ViewInv, ViewTypeOK, Mirror
  <2>2. mirror[m].kind \in {"none", "dir", "link", "file"} /\ (mirror[m].kind = "dir" <=> mirror[m] = Directory)
    BY <2>1, MirrorKinds
  <2> QED
    BY <2>1, <2>2 DEF Linked, Symlinked, Mirrored, Fails
<1>3. ViewTypeOK'
  BY <1>1, <1>2 DEF ViewInv, ViewTypeOK
<1> QED
  BY <1>1, <1>2, <1>3, SameInventory DEF ViewInv

LEMMA EditMirrorStep ==
  ASSUME ViewInv, NEW m \in Mirrors,
         NEW value \in {NoMirror, Directory, LinkTo("other"), Copy(document)}, EditMirror(m, value)
  PROVE  ViewInv'
<1>1. value \in Mirror
  BY DEF ViewInv, ViewTypeOK, Mirror
<1>5. /\ mirror' = [mirror EXCEPT ![m] = value] /\ touches' = touches + 1
      /\ UNCHANGED <<document, windows>>
  BY DEF EditMirror, OwnerEdits
<1>6. ViewTypeOK
  BY DEF ViewInv
<1>7. mirror' \in [Mirrors -> Mirror] /\ touches' \in Nat
  BY <1>1, <1>5, <1>6 DEF ViewTypeOK
<1>2. ViewTypeOK'
  <2>1. linked' = FALSE /\ listed' = listed
    BY DEF EditMirror
  <2> QED
    BY <1>5, <1>6, <1>7, <2>1 DEF ViewTypeOK
<1>3. linked' = FALSE /\ UNCHANGED <<shipped, document, listed>>
  BY DEF EditMirror
<1>4. listed' => document'.list = Inventory' /\ Issues' = {}
  BY <1>3, SameInventory DEF ViewInv
<1> QED
  BY <1>2, <1>3, <1>4 DEF ViewInv

LEMMA ViewInvariant == AgentsSpec => []ViewInv
<1>1. ViewInv /\ SkillsTypeOK /\ [AgentsNext]_agentVars => ViewInv'
  <2> SUFFICES ASSUME ViewInv, SkillsTypeOK, [AgentsNext]_agentVars PROVE ViewInv'
    OBVIOUS
  <2>1. CASE UNCHANGED <<document, mirror, windows, linked>> /\ touches' \in Nat /\ listed' = FALSE
    BY <2>1 DEF ViewInv, ViewTypeOK
  <2>2. CASE UNCHANGED <<shipped, document, mirror, windows, listed, linked>> /\ touches' \in Nat
    BY <2>2, SameInventory DEF ViewInv, ViewTypeOK
  <2>3. CASE \/ \E sha \in DOMAIN library : StartUpdate(sha)
             \/ WriteSource
             \/ \E s \in Skills, skill \in Contents \cup {NoSkill} : CommitUpstream(s, skill)
             \/ UNCHANGED agentVars
    BY <2>2, <2>3 DEF StartUpdate, WriteSource, CommitUpstream, agentVars, ViewInv, ViewTypeOK
  <2>4. CASE RemoveSkill \/ CopySkill
    BY <2>1, <2>4 DEF RemoveSkill, CopySkill, ViewInv, ViewTypeOK
  <2>5. ASSUME NEW half \in BOOLEAN, UpdateDies(half) PROVE ViewInv'
    BY <2>1, <2>2, <2>5 DEF UpdateDies, ViewInv, ViewTypeOK
  <2>6. CASE CheckSkills
    BY <2>6, SameInventory DEF CheckSkills, ViewInv, ViewTypeOK
  <2>7. CASE WriteSkills \/ LinkMirrors
    BY <2>7, WriteSkillsStep, LinkMirrorsStep
  <2>8. ASSUME NEW list \in Lists, EditManifest(list) PROVE ViewInv'
    BY <2>2, <2>8 DEF EditManifest, OwnerEdits, ViewInv, ViewTypeOK
  <2>9. ASSUME NEW s \in Skills, NEW text \in Texts \cup {NoSkill}, EditSkill(s, text) PROVE ViewInv'
    <3>1. touches' = touches + 1 /\ listed' = FALSE /\ UNCHANGED <<document, mirror, windows, linked>>
      BY <2>9 DEF EditSkill, OwnerEdits
    <3>2. touches' \in Nat
      BY <3>1 DEF ViewInv, ViewTypeOK
    <3> QED
      BY <2>1, <3>1, <3>2
  <2>10. CASE \E list \in {document.list, {}, {NoSkill}} : EditDocument(list)
    BY <2>10, EditDocumentStep
  <2>11. CASE \E m \in Mirrors, value \in {NoMirror, Directory, LinkTo("other"), Copy(document)} :
                EditMirror(m, value)
    BY <2>11, EditMirrorStep
  <2> QED
    BY <2>3, <2>4, <2>5, <2>6, <2>7, <2>8, <2>9, <2>10, <2>11 DEF AgentsNext
<1>2. AgentsSpec => []SkillsTypeOK
  BY VendoredInvariant, PTL DEF VendoredInv
<1> QED
  BY <1>1, <1>2, AgentsInitView, PTL DEF AgentsSpec

(***************************************************************************)
(* Once both tools have exited 0 every mirror shows the document, and the  *)
(* document lists exactly the skills that are there, none of them copied   *)
(* half, until one of them is touched (runAgentsSkills,                    *)
(* verifyAndRepairVendorLinks, copySyncVendorMirrors).                     *)
(***************************************************************************)
THEOREM AgentsReadWhatIsShipped == AgentsSpec => []AgentsSeeShipped
<1>1. ViewInv => AgentsSeeShipped
  <2> SUFFICES ASSUME ViewInv, listed, linked, NEW m \in Mirrors
               PROVE  /\ Read(m).list = {<<s, shipped[s].text>> : s \in {t \in Skills : shipped[t] # NoSkill}}
                      /\ Read(m).text = document.text
                      /\ \A s \in Skills : shipped[s] # Partial
    BY DEF AgentsSeeShipped
  <2>1. mirror[m] = LinkTo("AGENTS.md") \/ mirror[m] = Copy(document)
    BY DEF ViewInv
  <2>2. Read(m) = document
    BY <2>1 DEF Read, LinkTo, Copy
  <2>3. document.list = Inventory /\ Issues = {}
    BY DEF ViewInv
  <2>5. Partial # NoSkill
    <3>1. Partial \in Skill
      BY DEF Partial, Skill
    <3> QED
      BY <3>1, AgentFilesAssumption
  <2>4. \A s \in Skills : shipped[s] # Partial
    BY <2>3, <2>5 DEF Issues, Directories
  <2> QED
    BY <2>2, <2>3, <2>4 DEF Inventory, Directories
<1> QED
  BY <1>1, ViewInvariant, PTL

-----------------------------------------------------------------------------
(***************************************************************************)
(* The stacks: what a command has written for its stack is still there     *)
(* when docker reads it, as its toggles and services if no other command   *)
(* runs for that stack.                                                    *)
(***************************************************************************)
Plain == [op : {"configure", "stop", "destroy"}, stack : Stack, bugs : SUBSET Bugs,
          alone : BOOLEAN]
Booting == [op : {"env", "compose", "up"}, stack : Stack, bugs : SUBSET Bugs,
            alone : BOOLEAN, services : SUBSET Services]

StacksTypeOK ==
  /\ head \in [Trees -> Branches]
  /\ config \in [Trees -> (SUBSET Services) \cup {Broken}]
  /\ envFile \in [Stack -> Environment \cup {Missing}]
  /\ composeFile \in [Stack -> (SUBSET Services) \cup {Missing}]
  /\ container \in [Stack -> [Services -> Container \cup {Missing}]]
  /\ command \in [Agents -> {NoCommand} \cup Plain \cup Booting]
  /\ promise \in [Stack -> [services : SUBSET Services, bugs : SUBSET Bugs] \cup {Missing}]

Active(a) == command[a] # NoCommand

\* A command for a stack has the files it wrote, and if it is alone, as it wrote them.
CommandInv(a) ==
  LET stack == command[a].stack
  IN  /\ command[a].op \in {"compose", "up"} => envFile[stack] # Missing
      /\ command[a].op = "up" => composeFile[stack] # Missing
      /\ Active(a) /\ command[a].alone =>
           /\ \A b \in Agents \ {a} : Active(b) => command[b].stack # stack
           /\ command[a].op \in {"compose", "up"} => envFile[stack].bugs = command[a].bugs
           /\ command[a].op = "up" => composeFile[stack] = ComposeYaml(command[a].services)

\* Nobody works on a stack that was promised, and it runs as was promised.
Kept(stack) ==
  /\ \A a \in Agents : Active(a) => command[a].stack # stack
  /\ \A t \in ComposeYaml(promise[stack].services) :
       Up(stack, t) /\ container[stack][t].env.bugs = promise[stack].bugs

StackInv(stack) ==
  /\ envFile[stack] # Missing => envFile[stack].of = stack
  /\ \A t \in Services : container[stack][t] # Missing => container[stack][t].env.of = stack
  /\ promise[stack] # Missing => Kept(stack)

StacksInv ==
  /\ StacksTypeOK
  /\ \A a \in Agents : CommandInv(a)
  /\ \A stack \in Stack : StackInv(stack)

LEMMA CommandKinds ==
  ASSUME NEW c \in {NoCommand} \cup Plain \cup Booting
  PROVE  /\ c.op = "none" <=> c = NoCommand
         /\ c.op \in {"configure", "stop", "destroy"} => c \in Plain
         /\ c.op \in {"env", "compose", "up"} => c \in Booting /\ c.services \in SUBSET Services
         /\ c # NoCommand => c.stack \in Stack /\ c.bugs \in SUBSET Bugs /\ c.alone \in BOOLEAN
BY DEF NoCommand, Plain, Booting

LEMMA ActiveFacts ==
  ASSUME StacksInv, NEW a \in Agents, Active(a)
  PROVE  /\ command[a] \in Plain \cup Booting /\ command[a].stack \in Stack
         /\ command[a].bugs \in SUBSET Bugs /\ command[a].alone \in BOOLEAN
         /\ promise[command[a].stack] = Missing
<1>1. command[a] \in {NoCommand} \cup Plain \cup Booting /\ command[a] # NoCommand
  BY DEF StacksInv, StacksTypeOK, Active
<1>2. command[a].stack \in Stack
  BY <1>1, CommandKinds
<1>3. promise[command[a].stack] = Missing
  BY <1>2 DEF StacksInv, StackInv, Kept
<1> QED
  BY <1>1, <1>2, <1>3, CommandKinds

\* A command works on its own stack only, and leaves no file out that others need.
LEMMA OwnStack ==
  ASSUME StacksInv, StacksTypeOK', NEW a \in Agents, NEW stack \in Stack,
         Active(a), command[a].stack = stack,
         \A b \in Agents \ {a} : command'[b] = command[b],
         \/ command'[a] = NoCommand
         \/ command'[a].stack = stack /\ command'[a].alone = command[a].alone,
         \A s \in Stack \ {stack} :
           /\ envFile'[s] = envFile[s] /\ composeFile'[s] = composeFile[s]
           /\ container'[s] = container[s] /\ promise'[s] = promise[s],
         envFile[stack] # Missing => envFile'[stack] # Missing,
         composeFile[stack] # Missing => composeFile'[stack] # Missing,
         CommandInv(a)', StackInv(stack)'
  PROVE  StacksInv'
<1>1. \A b \in Agents \ {a} : Active(b)' = Active(b)
  BY DEF Active
<1>2. \A b \in Agents : command[b].op \in {"compose", "up"} => Active(b)
  BY DEF Active, NoCommand
<1>3. \A b \in Agents : Active(b) => command[b].stack \in Stack
  BY ActiveFacts
<1>4. ASSUME NEW b \in Agents \ {a} PROVE CommandInv(b)'
  <2>1. CommandInv(b) /\ command'[b] = command[b]
    BY DEF StacksInv
  <2>2. CASE command[b].stack = stack /\ Active(b)
    <3>1. ~command[b].alone
      BY <2>1, <2>2 DEF CommandInv
    <3> QED
      BY <1>1, <2>1, <2>2, <3>1 DEF CommandInv
  <2>3. CASE command[b].stack # stack /\ Active(b)
    <3>1. command[b].stack \in Stack \ {stack}
      BY <1>3, <2>3
    <3>2. /\ envFile'[command[b].stack] = envFile[command[b].stack]
          /\ composeFile'[command[b].stack] = composeFile[command[b].stack]
      BY <3>1
    <3>3. \A c \in Agents \ {b} : Active(c)' /\ command'[c].stack = command[b].stack =>
                                    Active(c) /\ command[c].stack = command[b].stack
      BY <1>1, <2>3 DEF Active
    <3> QED
      BY <1>1, <2>1, <2>3, <3>2, <3>3 DEF CommandInv
  <2>4. CASE ~Active(b)
    BY <1>1, <1>2, <2>1, <2>4 DEF CommandInv
  <2> QED
    BY <2>2, <2>3, <2>4
<1>5. ASSUME NEW s \in Stack \ {stack} PROVE StackInv(s)'
  <2>1. /\ StackInv(s) /\ envFile'[s] = envFile[s]
        /\ container'[s] = container[s] /\ promise'[s] = promise[s]
    BY DEF StacksInv
  <2>2. \A b \in Agents : Active(b)' /\ command'[b].stack = s => Active(b) /\ command[b].stack = s
    BY <1>1 DEF Active
  <2> QED
    BY <2>1, <2>2 DEF StackInv, Kept, Up
<1> QED
  BY <1>4, <1>5 DEF StacksInv

LEMMA StacksInitInv == ASSUME StacksInit PROVE StacksInv
<1>1. StacksTypeOK
  BY DEF StacksInit, StacksTypeOK
<1>2. \A a \in Agents : CommandInv(a)
  BY DEF StacksInit, CommandInv, Active, NoCommand
<1>3. \A stack \in Stack : StackInv(stack)
  BY DEF StacksInit, StackInv
<1> QED
  BY <1>1, <1>2, <1>3 DEF StacksInv

\* A command begins: it is alone only if nobody else works on the stack, and nobody
\* else is alone there from then on.
LEMMA StartStep ==
  ASSUME StacksInv, NEW a \in Agents, NEW tree \in Trees, NEW bugs \in SUBSET Bugs,
         NEW op \in {"configure", "stop", "destroy"}, Start(a, tree, op, bugs)
  PROVE  StacksInv'
<1> DEFINE stack == Isolation(tree)
           others == {b \in Agents : Active(b) /\ command[b].stack = stack}
           new == [op |-> op, stack |-> stack, bugs |-> bugs, alone |-> others = {}]
<1>1. /\ command[a] = NoCommand
      /\ command' = [b \in Agents |-> IF b = a THEN new
                       ELSE IF b \in others THEN [command[b] EXCEPT !.alone = FALSE]
                       ELSE command[b]]
      /\ promise' = [promise EXCEPT ![stack] = Missing]
      /\ UNCHANGED <<head, config, envFile, composeFile, container>>
  BY DEF Start, Active, fileVars
<1>2. stack \in Stack
  BY DEF Isolation, Stack, StacksInv, StacksTypeOK
<1>3. new \in Plain /\ new.op = op /\ new.stack = stack /\ new.alone = (others = {})
  BY <1>2 DEF Plain
<1>4. \A b \in others : b \in Agents /\ Active(b) /\ command[b].stack = stack /\ b # a
  BY <1>1 DEF Active
<1>5. \A b \in Agents : b \notin others /\ Active(b) => command[b].stack # stack
  OBVIOUS
<1> HIDE DEF stack, others, new
<1>6. ASSUME NEW b \in Agents \ {a}
      PROVE  /\ command'[b] \in {NoCommand} \cup Plain \cup Booting
             /\ command'[b].op = command[b].op
             /\ Active(b)' <=> Active(b)
             /\ Active(b) => command'[b].stack = command[b].stack
             /\ Active(b) => command'[b].bugs = command[b].bugs
             /\ command[b].op = "up" => command'[b].services = command[b].services
             /\ Active(b) /\ command'[b].alone => command[b].alone /\ b \notin others
  <2>1. CASE b \in others
    <3>1. command'[b] = [command[b] EXCEPT !.alone = FALSE]
      BY <1>1, <2>1
    <3>2. command[b] \in Plain \cup Booting /\ Active(b)
      BY <1>4, <2>1, ActiveFacts
    <3>3. CASE command[b] \in Plain
      BY <3>1, <3>2, <3>3 DEF Plain, Active, NoCommand
    <3>4. CASE command[b] \in Booting
      BY <3>1, <3>2, <3>4 DEF Booting, Active, NoCommand
    <3> QED
      BY <3>2, <3>3, <3>4
  <2>2. CASE b \notin others
    BY <1>1, <2>2 DEF StacksInv, StacksTypeOK, Active
  <2> QED
    BY <2>1, <2>2
<1>7. StacksTypeOK'
  <2>1. command'[a] = new
    BY <1>1
  <2>2. command' \in [Agents -> {NoCommand} \cup Plain \cup Booting]
    BY <1>1, <1>3, <1>6, <2>1
  <2> QED
    BY <1>1, <1>2, <2>2 DEF StacksInv, StacksTypeOK
<1>8. CommandInv(a)'
  <2>1. command'[a] = new /\ new.op \notin {"compose", "up"}
    BY <1>1, <1>3
  <2>2. ASSUME new.alone, NEW b \in Agents \ {a}, Active(b)' PROVE command'[b].stack # stack
    BY <1>3, <1>5, <1>6, <2>2
  <2> QED
    BY <1>3, <2>1, <2>2 DEF CommandInv
<1>9. ASSUME NEW b \in Agents \ {a} PROVE CommandInv(b)'
  <2>1. CommandInv(b)
    BY DEF StacksInv
  <2>2. CASE Active(b)
    <3>1. /\ command'[b].op = command[b].op /\ command'[b].stack = command[b].stack
          /\ envFile' = envFile /\ composeFile' = composeFile
      BY <1>1, <1>6, <2>2
    <3>2. CASE command'[b].alone
      <4>1. command[b].alone /\ command[b].stack # stack
        BY <1>5, <1>6, <2>2, <3>2
      <4>2. ASSUME NEW c \in Agents \ {b}, Active(c)' PROVE command'[c].stack # command[b].stack
        <5>1. CASE c = a
          BY <1>1, <1>3, <4>1, <5>1
        <5>2. CASE c # a
          BY <1>6, <2>1, <2>2, <4>1, <4>2, <5>2 DEF CommandInv
        <5> QED
          BY <5>1, <5>2
      <4>3. /\ command'[b].bugs = command[b].bugs
            /\ command[b].op = "up" => command'[b].services = command[b].services
        BY <1>6, <2>2
      <4> QED
        BY <2>1, <2>2, <3>1, <4>1, <4>2, <4>3 DEF CommandInv
    <3>3. CASE ~command'[b].alone
      BY <2>1, <3>1, <3>3 DEF CommandInv
    <3> QED
      BY <3>2, <3>3
  <2>3. CASE ~Active(b)
    <3>1. command'[b].op = "none" /\ ~Active(b)'
      BY <1>6, <2>3 DEF Active, NoCommand
    <3> QED
      BY <3>1 DEF CommandInv
  <2> QED
    BY <2>2, <2>3
<1>10. ASSUME NEW s \in Stack PROVE StackInv(s)'
  <2>1. StackInv(s)
    BY DEF StacksInv
  <2>2. CASE s = stack
    BY <1>1, <2>1, <2>2 DEF StackInv, StacksInv, StacksTypeOK
  <2>3. CASE s # stack
    <3>1. promise'[s] = promise[s]
      BY <1>1, <2>3
    <3>2. \A b \in Agents : Active(b)' /\ command'[b].stack = s => Active(b) /\ command[b].stack = s
      BY <1>1, <1>3, <1>6, <2>3
    <3> QED
      BY <1>1, <2>1, <3>1, <3>2 DEF StackInv, Kept, Up
  <2> QED
    BY <2>2, <2>3
<1> QED
  BY <1>7, <1>8, <1>9, <1>10 DEF StacksInv

\* A command that ends promises nothing but what it has made.
LEMMA EndedCommand ==
  ASSUME NEW a \in Agents, command'[a] = NoCommand PROVE CommandInv(a)'
BY DEF CommandInv, Active, NoCommand

LEMMA EndStep ==
  ASSUME StacksInv, NEW a \in Agents, Active(a), End(a)
  PROVE  /\ command' \in [Agents -> {NoCommand} \cup Plain \cup Booting]
         /\ command'[a] = NoCommand
         /\ \A b \in Agents \ {a} : command'[b] = command[b]
BY DEF StacksInv, StacksTypeOK, End

LEMMA LoadConfigStep == ASSUME StacksInv, NEW a \in Agents, LoadConfig(a) PROVE StacksInv'
<1>1. /\ command[a].op = "configure"
      /\ UNCHANGED <<head, config, envFile, composeFile, container, promise>>
  BY DEF LoadConfig, fileVars
<1>2. Active(a) /\ command[a] \in Plain
  BY <1>1, CommandKinds DEF Active, NoCommand, StacksInv, StacksTypeOK
<1>3. PICK stack \in Stack : /\ stack = command[a].stack /\ promise[stack] = Missing
                             /\ command[a].bugs \in SUBSET Bugs /\ command[a].alone \in BOOLEAN
  BY <1>2, ActiveFacts
<1> DEFINE loaded == config[stack[1]]
<1>4. loaded \in (SUBSET Services) \cup {Broken}
  BY <1>3 DEF Stack, StacksInv, StacksTypeOK
<1>5. StackInv(stack)'
  BY <1>1, <1>3 DEF StacksInv, StackInv
<1>6. CASE loaded = Broken
  <2>1. End(a)
    BY <1>3, <1>6 DEF LoadConfig
  <2>2. StacksTypeOK'
    BY <1>1, <1>2, <2>1, EndStep DEF StacksInv, StacksTypeOK
  <2> QED
    BY <1>1, <1>2, <1>3, <1>5, <2>1, <2>2, EndStep, EndedCommand, OwnStack
<1>7. CASE loaded # Broken
  <2> DEFINE new == [op |-> "env", stack |-> stack, bugs |-> command[a].bugs,
                     alone |-> command[a].alone, services |-> loaded]
  <2>1. command' = [command EXCEPT ![a] = new]
    BY <1>3, <1>7 DEF LoadConfig
  <2>2. new \in Booting /\ new.op = "env" /\ new.stack = stack /\ new.alone = command[a].alone
    BY <1>3, <1>4, <1>7 DEF Booting
  <2> HIDE DEF new, loaded
  <2>3. command'[a] = new /\ \A b \in Agents \ {a} : command'[b] = command[b]
    BY <2>1 DEF StacksInv, StacksTypeOK
  <2>4. StacksTypeOK'
    BY <1>1, <2>1, <2>2 DEF StacksInv, StacksTypeOK
  <2>5. CommandInv(a)'
    <3>1. ASSUME command[a].alone, NEW b \in Agents \ {a}, Active(b)'
          PROVE  command'[b].stack # stack
      BY <1>2, <1>3, <2>3, <3>1 DEF StacksInv, CommandInv, Active
    <3> QED
      BY <2>2, <2>3, <3>1 DEF CommandInv
  <2> QED
    BY <1>1, <1>2, <1>3, <1>5, <2>2, <2>3, <2>4, <2>5, OwnStack
<1> QED
  BY <1>6, <1>7

\* A step of a boot that leaves its command as it was but for where it is.
LEMMA NextOp ==
  ASSUME StacksInv, NEW a \in Agents, command[a].op \in {"env", "compose"},
         NEW op \in {"compose", "up"}, command' = [command EXCEPT ![a].op = op]
  PROVE  /\ command' \in [Agents -> {NoCommand} \cup Plain \cup Booting]
         /\ Active(a) /\ command'[a].op = op /\ command'[a].stack = command[a].stack
         /\ command'[a].bugs = command[a].bugs /\ command'[a].alone = command[a].alone
         /\ command'[a].services = command[a].services /\ command[a].services \in SUBSET Services
         /\ \A b \in Agents \ {a} : command'[b] = command[b]
         /\ Active(a)' /\ command[a].alone =>
              \A b \in Agents \ {a} : Active(b)' => command'[b].stack # command'[a].stack
<1>1. command \in [Agents -> {NoCommand} \cup Plain \cup Booting]
  BY DEF StacksInv, StacksTypeOK
<1>2. command[a] \in Booting /\ Active(a) /\ command[a].services \in SUBSET Services
  BY <1>1, CommandKinds DEF Active, NoCommand
<1>3. /\ [command[a] EXCEPT !.op = op] \in Booting
      /\ [command[a] EXCEPT !.op = op].op = op
      /\ [command[a] EXCEPT !.op = op].stack = command[a].stack
      /\ [command[a] EXCEPT !.op = op].bugs = command[a].bugs
      /\ [command[a] EXCEPT !.op = op].alone = command[a].alone
      /\ [command[a] EXCEPT !.op = op].services = command[a].services
  BY <1>2 DEF Booting
<1>4. command'[a] = [command[a] EXCEPT !.op = op] /\ \A b \in Agents \ {a} : command'[b] = command[b]
  BY <1>1
<1>5. command' \in [Agents -> {NoCommand} \cup Plain \cup Booting]
  BY <1>1, <1>3, <1>4
<1>6. command[a].alone => \A b \in Agents \ {a} : Active(b)' => command'[b].stack # command'[a].stack
  BY <1>2, <1>3, <1>4 DEF StacksInv, CommandInv, Active
<1> QED
  BY <1>2, <1>3, <1>4, <1>5, <1>6

LEMMA WriteEnvFileStep == ASSUME StacksInv, NEW a \in Agents, WriteEnvFile(a) PROVE StacksInv'
<1>1. /\ command[a].op = "env" /\ command' = [command EXCEPT ![a].op = "compose"]
      /\ envFile' = [envFile EXCEPT ![command[a].stack] =
                                 EnvVars(command[a].stack, command[a].bugs)]
      /\ UNCHANGED <<head, config, composeFile, container, promise>>
  BY DEF WriteEnvFile, EnvFileOf
<1>2. /\ command' \in [Agents -> {NoCommand} \cup Plain \cup Booting]
      /\ Active(a) /\ command'[a].op = "compose" /\ command'[a].stack = command[a].stack
      /\ command'[a].bugs = command[a].bugs /\ command'[a].alone = command[a].alone
      /\ \A b \in Agents \ {a} : command'[b] = command[b]
      /\ Active(a)' /\ command[a].alone =>
              \A b \in Agents \ {a} : Active(b)' => command'[b].stack # command'[a].stack
  BY <1>1, NextOp
<1>3. PICK stack \in Stack : /\ stack = command[a].stack /\ promise[stack] = Missing
                             /\ command[a].bugs \in SUBSET Bugs
  BY <1>2, ActiveFacts
<1> DEFINE env == EnvVars(stack, command[a].bugs)
<1>4. env \in Environment /\ env # Missing /\ env.of = stack /\ env.bugs = command[a].bugs
  BY <1>3, StacksAssumption DEF EnvVars, Environment
<1> HIDE DEF env
<1>5. envFile'[stack] = env /\ \A s \in Stack \ {stack} : envFile'[s] = envFile[s]
  BY <1>1, <1>3 DEF StacksInv, StacksTypeOK, env
<1>6. StacksTypeOK'
  BY <1>1, <1>2, <1>3, <1>4 DEF StacksInv, StacksTypeOK, env
<1>7. StackInv(stack)'
  BY <1>1, <1>3, <1>4, <1>5 DEF StacksInv, StackInv
<1>8. CommandInv(a)'
  BY <1>2, <1>3, <1>4, <1>5 DEF CommandInv
<1> QED
  BY <1>1, <1>2, <1>3, <1>4, <1>5, <1>6, <1>7, <1>8, OwnStack

LEMMA WriteComposeStep == ASSUME StacksInv, NEW a \in Agents, WriteCompose(a) PROVE StacksInv'
<1>1. /\ command[a].op = "compose" /\ command' = [command EXCEPT ![a].op = "up"]
      /\ composeFile' = [composeFile EXCEPT ![command[a].stack] =
                                         ComposeYaml(command[a].services)]
      /\ UNCHANGED <<head, config, envFile, container, promise>>
  BY DEF WriteCompose
<1>2. /\ command' \in [Agents -> {NoCommand} \cup Plain \cup Booting]
      /\ Active(a) /\ command'[a].op = "up" /\ command'[a].stack = command[a].stack
      /\ command'[a].bugs = command[a].bugs /\ command'[a].alone = command[a].alone
      /\ command'[a].services = command[a].services /\ command[a].services \in SUBSET Services
      /\ \A b \in Agents \ {a} : command'[b] = command[b]
      /\ Active(a)' /\ command[a].alone =>
              \A b \in Agents \ {a} : Active(b)' => command'[b].stack # command'[a].stack
  BY <1>1, NextOp
<1>3. PICK stack \in Stack : stack = command[a].stack /\ promise[stack] = Missing
  BY <1>2, ActiveFacts
<1> DEFINE yaml == ComposeYaml(command[a].services)
<1>4. yaml \in SUBSET Services /\ yaml # Missing
  BY <1>2, StacksAssumption DEF ComposeYaml
<1>9. /\ envFile[stack] # Missing
      /\ command[a].alone => envFile[stack].bugs = command[a].bugs
  BY <1>1, <1>2, <1>3 DEF StacksInv, CommandInv
<1>10. yaml = ComposeYaml(command'[a].services)
  BY <1>2
<1> HIDE DEF yaml
<1>5. composeFile'[stack] = yaml /\ \A s \in Stack \ {stack} : composeFile'[s] = composeFile[s]
  BY <1>1, <1>3 DEF StacksInv, StacksTypeOK, yaml
<1>6. StacksTypeOK'
  BY <1>1, <1>2, <1>3, <1>4 DEF StacksInv, StacksTypeOK, yaml
<1>7. StackInv(stack)'
  BY <1>1, <1>3 DEF StacksInv, StackInv
<1>8. CommandInv(a)'
  BY <1>1, <1>2, <1>3, <1>4, <1>5, <1>9, <1>10 DEF CommandInv
<1> QED
  BY <1>1, <1>2, <1>3, <1>4, <1>5, <1>6, <1>7, <1>8, OwnStack

\* docker changes the containers of the command's own project, and the command ends.
LEMMA DockerStep ==
  ASSUME StacksInv, NEW a \in Agents, NEW stack \in Stack, Active(a), command[a].stack = stack, End(a),
         UNCHANGED <<head, config, envFile, composeFile>>,
         NEW c \in [Services -> Container \cup {Missing}],
         container' = [container EXCEPT ![stack] = c],
         \A t \in Services : c[t] # Missing => c[t].env.of = stack,
         promise' \in [Stack -> [services : SUBSET Services, bugs : SUBSET Bugs] \cup {Missing}],
         \A s \in Stack \ {stack} : promise'[s] = promise[s],
         promise'[stack] # Missing =>
           /\ command[a].alone
           /\ \A t \in ComposeYaml(promise'[stack].services) :
                c[t] # Missing /\ c[t].up /\ c[t].env.bugs = promise'[stack].bugs
  PROVE  StacksInv'
<1>1. /\ command' \in [Agents -> {NoCommand} \cup Plain \cup Booting] /\ command'[a] = NoCommand
      /\ \A b \in Agents \ {a} : command'[b] = command[b]
  BY EndStep
<1>2. container'[stack] = c /\ \A s \in Stack \ {stack} : container'[s] = container[s]
  BY DEF StacksInv, StacksTypeOK
<1>3. StacksTypeOK'
  BY <1>1 DEF StacksInv, StacksTypeOK
<1>4. ASSUME promise'[stack] # Missing PROVE Kept(stack)'
  <2>1. \A b \in Agents : Active(b)' => Active(b)' /\ b # a /\ Active(b) /\ command'[b].stack = command[b].stack
    BY <1>1 DEF Active
  <2>2. \A b \in Agents : Active(b)' => command'[b].stack # stack
    BY <1>4, <2>1 DEF StacksInv, CommandInv
  <2> QED
    BY <1>2, <1>4, <2>2 DEF Kept, Up
<1>5. StackInv(stack)'
  BY <1>2, <1>4 DEF StacksInv, StackInv
<1>6. CommandInv(a)'
  BY <1>1, EndedCommand
<1> QED
  BY <1>1, <1>2, <1>3, <1>5, <1>6, OwnStack

\* What a command finds of its stack.
LEMMA CommandFacts ==
  ASSUME StacksInv, NEW a \in Agents, command[a].op \in {"up", "stop", "destroy"}
  PROVE  /\ Active(a) /\ command[a].stack \in Stack /\ promise[command[a].stack] = Missing
         /\ command[a].op = "up" =>
              /\ composeFile[command[a].stack] \in SUBSET Services
              /\ envFile[command[a].stack] \in Environment
              /\ envFile[command[a].stack] # Missing
              /\ envFile[command[a].stack].of = command[a].stack
              /\ command[a].services \in SUBSET Services /\ command[a].bugs \in SUBSET Bugs
              /\ command[a].alone =>
                   /\ envFile[command[a].stack].bugs = command[a].bugs
                   /\ composeFile[command[a].stack] = ComposeYaml(command[a].services)
<1>1. Active(a)
  BY DEF Active, NoCommand
<1>2. command[a].stack \in Stack /\ promise[command[a].stack] = Missing /\ command[a].bugs \in SUBSET Bugs
  BY <1>1, ActiveFacts
<1>3. command[a].op = "up" => command[a].services \in SUBSET Services
  BY CommandKinds DEF StacksInv, StacksTypeOK
<1>4. command[a].op = "up" =>
         /\ composeFile[command[a].stack] \in SUBSET Services
         /\ envFile[command[a].stack] \in Environment
         /\ envFile[command[a].stack] # Missing
  BY <1>2 DEF StacksInv, StacksTypeOK, CommandInv
<1>5. command[a].op = "up" => envFile[command[a].stack].of = command[a].stack
  BY <1>2, <1>4 DEF StacksInv, StackInv
<1>6. command[a].op = "up" /\ command[a].alone =>
         /\ envFile[command[a].stack].bugs = command[a].bugs
         /\ composeFile[command[a].stack] = ComposeYaml(command[a].services)
  BY <1>1 DEF StacksInv, CommandInv
<1> QED
  BY <1>1, <1>2, <1>3, <1>4, <1>5, <1>6

\* The containers of a project after `up`: its own, and those that were made have the environment.
OwnContainers(stack, c) ==
  /\ c \in [Services -> Container \cup {Missing}]
  /\ \A t \in Services : c[t] # Missing => c[t].env.of = stack

Serving(c, made, started, env) ==
  \A t \in made : (t \in started => c[t].up) /\ c[t].env = env /\ c[t] # Missing

LEMMA ContainersMade ==
  ASSUME StacksInv, NEW stack \in Stack, NEW made \in SUBSET Services, NEW started,
         NEW env \in Environment, env.of = stack
  PROVE  \E c : /\ Containers(stack, made, started, env) = [container EXCEPT ![stack] = c]
                /\ OwnContainers(stack, c) /\ Serving(c, made, started, env)
<1> DEFINE c == [t \in Services |-> IF t \in made THEN [up |-> t \in started, env |-> env]
                                    ELSE container[stack][t]]
<1>1. /\ container[stack] \in [Services -> Container \cup {Missing}]
      /\ \A t \in Services : container[stack][t] # Missing => container[stack][t].env.of = stack
  BY DEF StacksInv, StacksTypeOK, StackInv
<1>2. \A t \in made : [up |-> t \in started, env |-> env] \in Container
  BY DEF Container
<1>3. c \in [Services -> Container \cup {Missing}]
  BY <1>1, <1>2
<1>4. Containers(stack, made, started, env) = [container EXCEPT ![stack] = c]
  BY DEF Containers
<1>5. ASSUME NEW t \in made PROVE (t \in started => c[t].up) /\ c[t].env = env /\ c[t] # Missing
  <2>1. c[t] = [up |-> t \in started, env |-> env] /\ c[t] # Missing
    BY <1>2, StacksAssumption
  <2>2. CASE t \in started
    <3>1. c[t] = [up |-> TRUE, env |-> env]
      BY <2>1, <2>2
    <3> QED
      BY <2>1, <3>1
  <2>3. CASE t \notin started
    BY <2>1, <2>3
  <2> QED
    BY <2>2, <2>3
<1>6. \A t \in Services : c[t] # Missing => c[t].env.of = stack
  BY <1>1
<1>7. OwnContainers(stack, c) /\ Serving(c, made, started, env)
  <2> HIDE DEF c
  <2> QED
    BY <1>3, <1>5, <1>6 DEF OwnContainers, Serving
<1> QED
  BY <1>4, <1>7

LEMMA ComposeUpStep == ASSUME StacksInv, NEW a \in Agents, ComposeUp(a) PROVE StacksInv'
<1>1. command[a].op = "up"
  BY DEF ComposeUp
<1>2. PICK stack \in Stack : stack = command[a].stack
  BY <1>1, CommandFacts
<1>3. /\ Active(a) /\ promise[stack] = Missing
      /\ composeFile[stack] \in SUBSET Services /\ envFile[stack] \in Environment
      /\ envFile[stack].of = stack
      /\ command[a].services \in SUBSET Services /\ command[a].bugs \in SUBSET Bugs
      /\ command[a].alone => /\ envFile[stack].bugs = command[a].bugs
                             /\ composeFile[stack] = ComposeYaml(command[a].services)
  BY <1>1, <1>2, CommandFacts
<1>4. PICK services \in SUBSET Services, env \in Environment :
        services = composeFile[stack] /\ env = envFile[stack]
  BY <1>3
<1>5. /\ container' = Containers(stack, services, services, env)
      /\ promise' = IF command[a].alone
                    THEN [promise EXCEPT ![stack] = [services |-> command[a].services,
                                                     bugs |-> command[a].bugs]]
                    ELSE promise
      /\ End(a) /\ UNCHANGED <<head, config, envFile, composeFile>>
  BY <1>2, <1>4 DEF ComposeUp, ProjectOf, EnvFileOf, fileVars
<1>6. env.of = stack
  BY <1>3, <1>4
<1>7. PICK c : /\ Containers(stack, services, services, env) = [container EXCEPT ![stack] = c]
               /\ OwnContainers(stack, c) /\ Serving(c, services, services, env)
  BY <1>6, ContainersMade
<1>8. container' = [container EXCEPT ![stack] = c]
  BY <1>5, <1>7
<1>9. /\ c \in [Services -> Container \cup {Missing}]
      /\ \A t \in Services : c[t] # Missing => c[t].env.of = stack
  BY <1>7 DEF OwnContainers
<1>11. CASE command[a].alone
  <2> DEFINE new == [services |-> command[a].services, bugs |-> command[a].bugs]
  <2>1. /\ new \in [services : SUBSET Services, bugs : SUBSET Bugs]
        /\ new.services = command[a].services /\ new.bugs = command[a].bugs
    BY <1>3
  <2>2. promise' = [promise EXCEPT ![stack] = new]
    BY <1>5, <1>11
  <2> HIDE DEF new
  <2>3. /\ promise' \in [Stack -> [services : SUBSET Services, bugs : SUBSET Bugs] \cup {Missing}]
        /\ promise'[stack] = new /\ \A s \in Stack \ {stack} : promise'[s] = promise[s]
    BY <2>1, <2>2 DEF StacksInv, StacksTypeOK
  <2>4. ComposeYaml(new.services) = services /\ env.bugs = new.bugs
    BY <1>3, <1>4, <1>11, <2>1
  <2>5. \A t \in services : c[t] # Missing /\ c[t].up /\ c[t].env.bugs = env.bugs
    BY <1>7 DEF Serving
  <2>6. \A t \in ComposeYaml(promise'[stack].services) :
          c[t] # Missing /\ c[t].up /\ c[t].env.bugs = promise'[stack].bugs
    <3>1. ComposeYaml(promise'[stack].services) = services /\ promise'[stack].bugs = env.bugs
      BY <2>3, <2>4 DEF ComposeYaml
    <3> QED
      BY <2>5, <3>1
  <2>7. promise'[stack] # Missing =>
          /\ command[a].alone
          /\ \A t \in ComposeYaml(promise'[stack].services) :
               c[t] # Missing /\ c[t].up /\ c[t].env.bugs = promise'[stack].bugs
    BY <1>11, <2>6
  <2>8. /\ Active(a) /\ command[a].stack = stack /\ End(a)
        /\ UNCHANGED <<head, config, envFile, composeFile>>
    BY <1>2, <1>3, <1>5
  <2>9. \A s \in Stack \ {stack} : promise'[s] = promise[s]
    BY <2>3
  <2>10. promise' \in [Stack -> [services : SUBSET Services, bugs : SUBSET Bugs] \cup {Missing}]
    BY <2>3
  <2> QED
    BY <1>8, <1>9, <2>7, <2>8, <2>9, <2>10, DockerStep, Zenon
<1>12. CASE ~command[a].alone
  <2>1. promise' = promise /\ promise \in [Stack -> [services : SUBSET Services, bugs : SUBSET Bugs] \cup {Missing}]
    BY <1>5, <1>12 DEF StacksInv, StacksTypeOK
  <2>2. \A s \in Stack \ {stack} : promise'[s] = promise[s]
    BY <2>1
  <2>3. promise' \in [Stack -> [services : SUBSET Services, bugs : SUBSET Bugs] \cup {Missing}]
    BY <2>1
  <2>4. /\ Active(a) /\ command[a].stack = stack /\ End(a)
        /\ UNCHANGED <<head, config, envFile, composeFile>>
    BY <1>2, <1>3, <1>5
  <2>5. promise'[stack] # Missing =>
          /\ command[a].alone
          /\ \A t \in ComposeYaml(promise'[stack].services) :
               c[t] # Missing /\ c[t].up /\ c[t].env.bugs = promise'[stack].bugs
    BY <1>3, <2>1
  <2> QED
    BY <1>8, <1>9, <2>2, <2>3, <2>4, <2>5, DockerStep, Zenon
<1> QED
  BY <1>11, <1>12

\* Whatever docker leaves undone, the promise stays away.
LEMMA QuietDockerStep ==
  ASSUME StacksInv, NEW a \in Agents, NEW stack \in Stack, Active(a), command[a].stack = stack, End(a),
         UNCHANGED <<head, config, envFile, composeFile, promise>>,
         NEW c \in [Services -> Container \cup {Missing}],
         container' = [container EXCEPT ![stack] = c],
         \A t \in Services : c[t] # Missing => c[t].env.of = stack
  PROVE  StacksInv'
<1>1. promise \in [Stack -> [services : SUBSET Services, bugs : SUBSET Bugs] \cup {Missing}]
      /\ promise[stack] = Missing
  BY ActiveFacts DEF StacksInv, StacksTypeOK
<1> QED
  BY <1>1, DockerStep

LEMMA ComposeUpFailsStep == ASSUME StacksInv, NEW a \in Agents, ComposeUpFails(a) PROVE StacksInv'
<1>1. command[a].op = "up"
  BY DEF ComposeUpFails
<1>2. PICK stack \in Stack : stack = command[a].stack
  BY <1>1, CommandFacts
<1>3. /\ Active(a) /\ composeFile[stack] \in SUBSET Services
      /\ envFile[stack] \in Environment /\ envFile[stack].of = stack
  BY <1>1, <1>2, CommandFacts
<1>4. PICK services \in SUBSET Services, env \in Environment :
        services = composeFile[stack] /\ env = envFile[stack]
  BY <1>3
<1>5. PICK made \in SUBSET services, started \in SUBSET (services \ Taken(stack, services)) :
        container' = Containers(stack, made, started, env)
  BY <1>2, <1>4 DEF ComposeUpFails, ProjectOf, EnvFileOf
<1>6. End(a) /\ UNCHANGED <<head, config, envFile, composeFile, promise>>
  BY DEF ComposeUpFails, fileVars
<1>7. made \in SUBSET Services /\ env.of = stack
  BY <1>3, <1>4
<1>8. PICK c : /\ Containers(stack, made, started, env) = [container EXCEPT ![stack] = c]
               /\ OwnContainers(stack, c) /\ Serving(c, made, started, env)
  BY <1>7, ContainersMade
<1>9. container' = [container EXCEPT ![stack] = c]
  BY <1>5, <1>8
<1>10. /\ c \in [Services -> Container \cup {Missing}]
       /\ \A t \in Services : c[t] # Missing => c[t].env.of = stack
  BY <1>8 DEF OwnContainers
<1> QED
  BY <1>2, <1>3, <1>6, <1>9, <1>10, QuietDockerStep, Zenon

LEMMA ComposeStopStep == ASSUME StacksInv, NEW a \in Agents, ComposeStop(a) PROVE StacksInv'
<1>1. command[a].op = "stop"
  BY DEF ComposeStop
<1>2. PICK stack \in Stack : stack = command[a].stack
  BY <1>1, CommandFacts
<1> DEFINE stopped == {s \in Services : /\ composeFile[stack] # Missing /\ s \in composeFile[stack]
                                        /\ container[stack][s] # Missing}
           c == [s \in Services |-> IF s \in stopped THEN [container[stack][s] EXCEPT !.up = FALSE]
                                    ELSE container[stack][s]]
<1>3. /\ container' = [container EXCEPT ![stack] = c]
      /\ Active(a) /\ End(a) /\ UNCHANGED <<head, config, envFile, composeFile, promise>>
  BY <1>1, <1>2, CommandFacts DEF ComposeStop, ProjectOf, fileVars
<1>4. /\ container[stack] \in [Services -> Container \cup {Missing}]
      /\ \A t \in Services : container[stack][t] # Missing => container[stack][t].env.of = stack
  BY DEF StacksInv, StacksTypeOK, StackInv
<1>5. ASSUME NEW t \in Services
      PROVE  c[t] \in Container \cup {Missing} /\ (c[t] # Missing => c[t].env.of = stack)
  <2>1. CASE t \in stopped
    <3>1. container[stack][t] \in Container /\ container[stack][t].env.of = stack
      BY <1>4, <2>1
    <3>2. /\ [container[stack][t] EXCEPT !.up = FALSE] \in Container
          /\ [container[stack][t] EXCEPT !.up = FALSE].env = container[stack][t].env
      BY <3>1 DEF Container
    <3> QED
      BY <2>1, <3>1, <3>2
  <2>2. CASE t \notin stopped
    BY <1>4, <2>2
  <2> QED
    BY <2>1, <2>2
<1>6. c \in [Services -> Container \cup {Missing}]
  BY <1>5
<1> HIDE DEF c
<1> QED
  BY <1>2, <1>3, <1>5, <1>6, QuietDockerStep, Zenon

LEMMA ComposeDownStep == ASSUME StacksInv, NEW a \in Agents, ComposeDown(a) PROVE StacksInv'
<1>1. command[a].op = "destroy"
  BY DEF ComposeDown
<1>2. PICK stack \in Stack : stack = command[a].stack
  BY <1>1, CommandFacts
<1> DEFINE removed == {s \in Services : composeFile[stack] # Missing /\ s \in composeFile[stack]}
           c == [s \in Services |-> IF s \in removed THEN Missing ELSE container[stack][s]]
<1>3. /\ container' = [container EXCEPT ![stack] = c]
      /\ Active(a) /\ End(a) /\ UNCHANGED <<head, config, envFile, composeFile, promise>>
  BY <1>1, <1>2, CommandFacts DEF ComposeDown, ProjectOf, fileVars
<1>4. /\ container[stack] \in [Services -> Container \cup {Missing}]
      /\ \A t \in Services : container[stack][t] # Missing => container[stack][t].env.of = stack
  BY DEF StacksInv, StacksTypeOK, StackInv
<1>5. /\ c \in [Services -> Container \cup {Missing}]
      /\ \A t \in Services : c[t] # Missing => c[t].env.of = stack
  BY <1>4
<1> HIDE DEF c, removed
<1> QED
  BY <1>2, <1>3, <1>5, QuietDockerStep, Zenon

LEMMA StacksInvariant == StacksSpec => []StacksInv
<1>1. StacksInv /\ [StacksNext]_stackVars => StacksInv'
  <2> SUFFICES ASSUME StacksInv, [StacksNext]_stackVars PROVE StacksInv'
    OBVIOUS
  <2>1. CASE /\ UNCHANGED <<fileVars, container, command, promise>>
             /\ head' \in [Trees -> Branches] /\ config' \in [Trees -> (SUBSET Services) \cup {Broken}]
    <3>1. UNCHANGED <<envFile, composeFile, container, command, promise>>
      BY <2>1 DEF fileVars
    <3>2. StacksTypeOK'
      BY <2>1, <3>1 DEF StacksInv, StacksTypeOK
    <3> QED
      BY <3>1, <3>2 DEF StacksInv, CommandInv, StackInv, Active, Kept, Up
  <2>2. ASSUME NEW a \in Agents, NEW tree \in Trees, NEW bugs \in SUBSET Bugs,
               StartBoot(a, tree, bugs) \/ StartStop(a, tree) \/ StartDestroy(a, tree)
        PROVE  StacksInv'
    BY <2>2, StartStep DEF StartBoot, StartStop, StartDestroy
  <2>3. ASSUME NEW a \in Agents,
               \/ LoadConfig(a) \/ WriteEnvFile(a) \/ WriteCompose(a)
               \/ ComposeUp(a) \/ ComposeUpFails(a) \/ ComposeStop(a) \/ ComposeDown(a)
        PROVE  StacksInv'
    BY <2>3, LoadConfigStep, WriteEnvFileStep, WriteComposeStep, ComposeUpStep,
       ComposeUpFailsStep, ComposeStopStep, ComposeDownStep
  <2>4. ASSUME NEW tree \in Trees, NEW branch \in Branches, SwitchBranch(tree, branch)
        PROVE  StacksInv'
    BY <2>1, <2>4 DEF SwitchBranch, StacksInv, StacksTypeOK
  <2>5. ASSUME NEW tree \in Trees, NEW services \in (SUBSET (Services \ Included)) \cup {Broken},
               EditConfig(tree, services)
        PROVE  StacksInv'
    BY <2>1, <2>5 DEF EditConfig, StacksInv, StacksTypeOK
  <2>6. CASE UNCHANGED stackVars
    BY <2>1, <2>6 DEF stackVars, StacksInv, StacksTypeOK
  <2> QED
    BY <2>2, <2>3, <2>4, <2>5, <2>6 DEF StacksNext
<1> QED
  BY <1>1, StacksInitInv, PTL DEF StacksSpec

(***************************************************************************)
(* Containers run in the environment of their own stack, and a stack that  *)
(* a boot has reported runs what it reported until the next command for    *)
(* it, for any number of agents, worktrees and branches and whatever ports *)
(* and branch switches collide (harness/stack, boot, stop and destroy).    *)
(***************************************************************************)
THEOREM StacksStayApart == StacksSpec => []StacksApart
<1>1. StacksInv => StacksApart
  BY DEF StacksInv, StackInv, Kept, StacksApart
<1> QED
  BY <1>1, StacksInvariant, PTL

=============================================================================
