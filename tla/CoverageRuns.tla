---------------------------- MODULE CoverageRuns ----------------------------
(***************************************************************************)
(* The coverage checks of a push.  cov-ts (scripts/test-coverage.ts) runs  *)
(* vitest for one target after another, leaves files git does not track    *)
(* out of what is measured, and repeats a run once whose failure is that   *)
(* of a machine too busy to answer vitest's workers.  The cargo lanes      *)
(* (scripts/coverage.ts, scripts/lib/coverage.ts) run their commands in    *)
(* order, in several worktrees of one host at a time.  What vitest, git    *)
(* and cargo-llvm-cov do is modelled from how the scripts rely on it.      *)
(***************************************************************************)
EXTENDS Integers, Sequences

CONSTANTS
  Files,
  Targets,      \* cov-ts: the targets, in order; the first is the repository root
  Within,       \* Within[t]: the files in t's directory; of the root, all
  Globs,        \* Globs[t]: those t's configuration measures
  Configured,   \* Configured[t]: those its coverage.exclude leaves out again
  Worktrees,    \* cargo lanes: the worktrees of a host
  Packages,     \* the lane's packages, in order: does the lane build a binary of it first?
  MaxChanges

ASSUME CoverageAssumption ==
  /\ Targets \in Seq(DOMAIN Within)
  /\ Within \in [DOMAIN Within -> SUBSET Files]
  /\ Globs \in [DOMAIN Within -> SUBSET Files]
  /\ \A t \in DOMAIN Within : Globs[t] \subseteq Within[t]
  /\ Configured \in [DOMAIN Within -> SUBSET Files]
  /\ Packages \in Seq(BOOLEAN) \ {<<>>}
  /\ MaxChanges \in Nat

VARIABLES
  tracked, scratch,  \* the files git tracks, and those it does not
  covered,           \* those every line of which a test runs
  red,               \* the targets some test, or test file, of which fails
  cov,               \* the run of cov-ts
  created,              \* ghost: the files created since it began
  starved,           \* ghost: has its last run been starved?
  changes,
  profiles,          \* the profiles in each target directory, by who wrote them
  lane,              \* the lane of each worktree
  good,              \* the worktrees whose code meets the lane's thresholds
  foreign            \* ghost: the worktrees a report of which had others' profiles

tsVars == <<tracked, scratch, covered, red, cov, created, starved, changes>>
laneVars == <<profiles, lane, good, foreign>>
covVars == <<tsVars, laneVars>>

Each(list) == {list[i] : i \in DOMAIN list}
NotRunning == [at |-> "idle", target |-> 0, untracked |-> {}, tracked |-> {}]

-----------------------------------------------------------------------------
\* cov-ts.  The untracked files are listed once, for all targets.
StartCoverage ==
  /\ cov.at \in {"idle", "ok", "failed"} /\ Targets # <<>>
  /\ cov' = [at |-> "first", target |-> 1, untracked |-> scratch, tracked |-> tracked]
  /\ created' = {} /\ starved' = FALSE
  /\ UNCHANGED <<tracked, scratch, covered, red, changes>>

\* vitest's --coverage.exclude replaces what the configuration excludes, so that is
\* given again.
\* Mutant of Excluded: it is not.
ExcludedLocally(t, untracked) ==
  IF Within[t] \cap untracked = {} THEN Configured[t] ELSE Within[t] \cap untracked
Excluded(t, untracked) ==
  IF Within[t] \cap untracked = {} THEN Configured[t]
  ELSE Configured[t] \cup (Within[t] \cap untracked)
Measured(t) == (Globs[t] \cap (tracked \cup scratch)) \ Excluded(t, cov.untracked)

\* What a run of vitest prints and how it exits.  A run that starves may have lost
\* its coverage report, or have ended before its tally.
VitestRuns == [fails : {"none", "test", "file"}, missed : BOOLEAN, starves : BOOLEAN,
               tally : BOOLEAN]
Runs(t) ==
  {o \in VitestRuns :
     /\ t \in red <=> o.fails # "none"
     /\ o.missed => ~(Measured(t) \subseteq covered)
     /\ ~(Measured(t) \subseteq covered) => o.missed \/ o.starves \/ o.fails # "none"
     /\ ~o.tally => o.starves \/ o.fails # "none"}
ExitsZero(o) == o.fails = "none" /\ ~o.missed /\ ~o.starves

\* isStarvedRunnerFailure: the words it looks for.  A test file that fails to load
\* is counted among files and not among tests, and is none of them.
Starved(o) == o.starves /\ o.fails # "test" /\ ~o.missed /\ o.tally

NextTarget ==
  cov' = IF cov.target < Len(Targets)
         THEN [cov EXCEPT !.at = "first", !.target = @ + 1] ELSE [cov EXCEPT !.at = "ok"]
CoverageFails == cov' = [cov EXCEPT !.at = "failed"]

FirstTry(o) ==
  /\ cov.at = "first" /\ o \in Runs(Targets[cov.target])
  /\ \/ ExitsZero(o) /\ NextTarget
     \/ ~ExitsZero(o) /\ Starved(o) /\ cov' = [cov EXCEPT !.at = "retry"]
     \/ ~ExitsZero(o) /\ ~Starved(o) /\ CoverageFails
  /\ starved' = o.starves
  /\ UNCHANGED <<tracked, scratch, covered, red, created, changes>>

\* Once, with one worker, and judged by its exit code alone.
\* Mutant of Retry: ... or forgiven once more.
RetryForgives(o) ==
  /\ cov.at = "retry" /\ o \in Runs(Targets[cov.target])
  /\ \/ (ExitsZero(o) \/ Starved(o)) /\ NextTarget
     \/ ~ExitsZero(o) /\ ~Starved(o) /\ CoverageFails
  /\ starved' = o.starves
  /\ UNCHANGED <<tracked, scratch, covered, red, created, changes>>
Retry(o) ==
  /\ cov.at = "retry" /\ o \in Runs(Targets[cov.target])
  /\ \/ ExitsZero(o) /\ NextTarget
     \/ ~ExitsZero(o) /\ CoverageFails
  /\ starved' = o.starves
  /\ UNCHANGED <<tracked, scratch, covered, red, created, changes>>

\* The owner: code between runs, files at any time.
Altering == changes < MaxChanges /\ changes' = changes + 1
Settled == cov.at \in {"idle", "ok", "failed"} /\ cov' = NotRunning
EditTests(fails, runs) ==
  /\ Altering /\ Settled /\ red' = fails /\ covered' = runs
  /\ UNCHANGED <<tracked, scratch, created, starved>>
NewFile(f) ==
  /\ Altering /\ f \notin tracked \cup scratch
  /\ scratch' = scratch \cup {f} /\ created' = created \cup {f}
  /\ UNCHANGED <<tracked, covered, red, cov, starved>>
AddFile(f) ==
  /\ Altering /\ f \in scratch
  /\ tracked' = tracked \cup {f} /\ scratch' = scratch \ {f}
  /\ cov' = IF cov.at \in {"ok", "failed"} THEN NotRunning ELSE cov
  /\ UNCHANGED <<covered, red, created, starved>>

-----------------------------------------------------------------------------
\* The cargo lanes.
\* Mutant of TargetDir: the directory a host shares among its projects.
TargetDirShared(w) == "shared"
TargetDir(w) == w

\* The commands of a package: its binary, if the lane needs one, then its tests.
Commands(package) ==
  [at |-> IF Packages[package] THEN "build" ELSE "test", package |-> package]

LaneStart(w) ==
  /\ lane[w].at \in {"idle", "ok", "failed"}
  /\ lane' = [lane EXCEPT ![w] = Commands(1)]
  /\ foreign' = foreign \ {w}
  /\ UNCHANGED <<profiles, good>>
LaneGoes(w) ==
  lane' = [lane EXCEPT ![w] = IF @.package < Len(Packages) THEN Commands(@.package + 1)
                              ELSE [@ EXCEPT !.at = "ok"]]
LaneStops(w) == lane' = [lane EXCEPT ![w].at = "failed"]

\* The first command that does not exit with 0 ends the lane.
Build(w) ==
  /\ lane[w].at = "build"
  /\ lane' = [lane EXCEPT ![w].at = "test"] \/ LaneStops(w)
  /\ UNCHANGED <<profiles, good, foreign>>
\* cargo llvm-cov removes old profiles, runs the tests, and reports on all there are.
RunTests(w) ==
  /\ lane[w].at = "test"
  /\ profiles' = [profiles EXCEPT ![TargetDir(w)] = {w}]
  /\ lane' = [lane EXCEPT ![w].at = "report"]
  /\ UNCHANGED <<good, foreign>>
Report(w) ==
  /\ lane[w].at = "report"
  /\ foreign' = IF profiles[TargetDir(w)] = {w} THEN foreign ELSE foreign \cup {w}
  /\ IF w \in good /\ profiles[TargetDir(w)] = {w} THEN LaneGoes(w)
     ELSE IF profiles[TargetDir(w)] = {w} THEN LaneStops(w)
     ELSE LaneGoes(w) \/ LaneStops(w)
  /\ UNCHANGED <<profiles, good>>

-----------------------------------------------------------------------------
CoverageInit ==
  /\ tracked \in SUBSET Files /\ scratch \in SUBSET (Files \ tracked)
  /\ covered \in SUBSET Files /\ red \in SUBSET Each(Targets)
  /\ cov = NotRunning /\ created = {} /\ starved = FALSE /\ changes = 0
  /\ profiles = [d \in Worktrees \cup {"shared"} |-> {}]
  /\ lane = [w \in Worktrees |-> [at |-> "idle", package |-> 1]]
  /\ good \in SUBSET Worktrees /\ foreign = {}

CoverageNext ==
  \/ /\ UNCHANGED laneVars
     /\ \/ StartCoverage
        \/ \E o \in VitestRuns : FirstTry(o) \/ Retry(o)
        \/ \E fails \in SUBSET Each(Targets), runs \in SUBSET Files : EditTests(fails, runs)
        \/ \E f \in Files : NewFile(f) \/ AddFile(f)
  \/ /\ UNCHANGED tsVars
     /\ \E w \in Worktrees : LaneStart(w) \/ Build(w) \/ RunTests(w) \/ Report(w)

CoverageSpec == CoverageInit /\ [][CoverageNext]_covVars

-----------------------------------------------------------------------------
\* cov-ts is green only if no test fails and everything git tracked when it began
\* and the configurations measure is covered, however many runs starved; and it is
\* red only if that is not so, or a run starved, or a file appeared or was added
\* under it: scratch files are no reason (scopeArgsForTarget, runCoverageTarget).
Green(files) == \A t \in Each(Targets) :
                  t \notin red /\ (Globs[t] \cap files) \ Configured[t] \subseteq covered
VerdictIsTheCodes ==
  /\ cov.at = "ok" => Green(cov.tracked)
  /\ cov.at = "failed" => ~Green(cov.tracked) \/ starved \/ created # {}

\* A lane's report is made of its own worktree's profiles only, and is green only for
\* code that meets its thresholds, whatever lanes other worktrees run meanwhile
\* (coverageTargetDir).
LaneIsItsOwn ==
  \A w \in Worktrees : w \notin foreign /\ (lane[w].at = "ok" => w \in good)
=============================================================================
