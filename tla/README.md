# A verification project for the agentic harness template

TLA+ models of the parts of this repository whose correctness depends on order,
on other processes and on what survives a failure, the TLC runs that check them
on small instances, and theorems that TLAPS proves for every instance. Paths are
relative to the repository's root.

## The system

The repository is a monorepo template with its own tool chain: landing a branch
on `main` without CI, sensors that measure the code and a gate that ratchets the
measurements, updates of the harness from upstream, issue migration, isolated
development stacks. It has no server of its own: everything is a command that a
person, an agent or a git hook starts, and the state is in files, in git and in
the remote. What is hard is therefore not inside one run of a command but
between runs: two of them at once, one that dies, one that sees what another
has left behind.

| Component | Code | State | Hard behaviour | Correct when |
|---|---|---|---|---|
| Landing lock | `scripts/lib/land/lock.ts`, adapters of `scripts/land.ts` | `land.lock`, `land.lock.reap` | processes between two system calls, death while holding, pid reuse, reboot | one landing at a time, no wait for ever |
| Landing engine | `scripts/lib/land/engine.ts` | worktree, installed packages, tracking ref, evidence, remote | the target moves, pushes are lost or late, gates write files, evidence outlives its tree | only gated commits reach the target, the exit code tells the truth |
| Scopes | `scripts/lib/land/scope.ts` | none | when unsure, run everything | a gate is skipped only if its verdict cannot have changed |
| Push guards | `scripts/guard-main-push.ts`, `scripts/push-scope-guard.ts` | none, they read git | lefthook skips jobs silently; what is pushed is not what is checked out | no ungated code on `main` |
| Sensors gate and ratchet | `harness/sensors/gate.mjs` | `baseline.json` | a sequence of runs, missing metrics, floors | no floor ever loosens by running the tool |
| Baseline guard | `harness/sensors/baseline_guard.mjs` | `baseline.json` at two commits | approvals carried forward | no floor ever loosens by editing the file unnoticed |
| Harness update | `scripts/update.ts`, `scripts/lib/harness-merge.ts` | harness-owned files, recorded base, stash | a three-way merge over many syncs, a run that dies or fails half-way, edits and fetches under it | no consumer edit is lost, no upstream change is missed (but a mode may be) |
| Gate lanes | `validate`, `runLanes`, `runLefthookBatch` of the engine | worktree, evidence | gates that run at once, starve each other, are left out by lefthook or write files | no red gate is hidden, no green commit refused |
| Sensor run | `harness/sensors/bin/sensors`, `aggregate.mjs`, `apss_topology.mjs`, `coverage_scan.mjs`, `suite_duration.mjs`, `fitness_report.mjs` | `.topology/metrics` | ten tools that are missing, die or cannot measure | no reading is never a good reading |
| Versioning | `harness/versioning/src/lib.rs`, its workflow, `scripts/protect-main.ts` | manifest, changelog, tags | a release that fails between its pushes, a merge under it | each commit is released once, tags tell the truth |
| Beads migration | `scripts/lib/beads-transform.ts`, `scripts/beads-migrate.ts` | issue files of two trackers | there and back, with edits between | nothing is lost, identifiers stay |
| Agent context | `scripts/update-slp.ts`, `agents-skills.ts`, `agents-link.ts` | skill copies, manifest, the list in AGENTS.md, mirrors | a run that dies, three tools that believe each other | agents read of what is there |
| Coverage checks | `scripts/test-coverage.ts`, `scripts/coverage.ts` and their `lib` | target directories | scratch files, starved runs, two worktrees | the verdict is the code's |
| Stack manager | `harness/stack/src` | containers, generated files | several agents, a branch switched under a command | stacks stay apart |

The landing of a ref is the place where the components meet: `just land` takes
the lock, the engine resets a worktree, runs gates (lefthook jobs, among them
the sensors gate) over it and pushes; the push runs the remaining hooks, the
guards among them, which believe the marker the engine has set.

## Modules

| Module | What it is |
|---|---|
| `LandLease` | What the lock promises: taken only when nobody has it, given up only by its holder. |
| `LandLock` | The lock, one step per system call. |
| `LandLockProofs` | Its theorems. |
| `LandScope` | Which gates a diff selects, which evidence survives, which jobs a push skips. |
| `LandTarget` | What landing promises of the target branch. |
| `LandEngine` | The engine over the lease and the remote; refines `LandTarget`. |
| `LandEngineProofs` | Its theorems. |
| `PushGuards` | A push through lefthook and the two guards, from any checkout. |
| `PushGuardsProofs` | Its theorems. |
| `LandLanes` | One validation of a landing seen from inside: early checks, required programs, lanes, checks. |
| `LandLanesProofs` | Its theorems. |
| `FitnessGate` | The floors of `baseline.json` and the policy over edits, runs of the gate and merges. |
| `SensorRun` | What a run of the sensors reads, file by file, and how it is judged. |
| `HarnessUpdate` | `just update`: the plan of each file, the run, and what the fork's owner does between runs. |
| `HarnessUpdateProofs` | Its theorems. |
| `Release` | Pull requests, their checks, and releases in clones. |
| `ReleaseProofs` | Its theorems. |
| `Beads` | Issues migrated from br to bd, verified and rolled back. |
| `AgentFiles` | Vendored skills, the list of skills and the mirrors of AGENTS.md. |
| `CoverageRuns` | cov-ts over its targets; cargo lanes of several worktrees. |
| `Stacks` | boot, stop and destroy of stacks by several agents. |
| `ChecksProofs` | The theorems of `FitnessGate`, `SensorRun` and `Beads`. |
| `UpkeepProofs` | The theorems of `AgentFiles`, `CoverageRuns` and `Stacks`. |
| `MCLandLock`, `MCLandEngine`, `MCHarnessUpdate` | Instances for TLC of one module: the values of the constants. |
| `MCLanding`, `MCMainBranch`, `MCChecks`, `MCUpkeep` | Instances of several modules, see below. |

The modules of one system are composed where the code composes them: `LandLock`
implements the lease `LandEngine` takes (`LandLease`), `LandEngine` implements
`LandTarget`, and `LandLanes` is the inside of what `LandEngine` does in a step
per gate. The other systems share no state that is modelled; what one leaves for
another (a green exit, a merged commit, a file) is an input of the other.

`MCLanding`, `MCMainBranch`, `MCChecks` and `MCUpkeep` put several such systems into
one run. That is a matter of running TLC, not a composition: a variable says which
system a behaviour is of, the others stay where they begin, and every property is of
one of them. Their next-state relations name the actions one by one so that TLC's
coverage counts each.

Definitions after a comment that begins "Mutant of" are wrong
variants of the definition below them. Nothing uses them; each is a plausible
bug that one of the properties is there to find.

## How the models correspond to the code

### LandLock

| State | In the code |
|---|---|
| `lock`, `reap` | the content of `land.lock` and `land.lock.reap` in the git common directory: a landing, nothing, or something `parseHolder` rejects |
| `lockOld`, `reapOld` | the file's mtime is more than `REAP_STALE_MS` ago |
| `boot`, `bootOf`, `alive`, `reused` | what `bootId()` and `kill(pid, 0)` answer |
| `expired` | `now()` has reached the deadline of the wait |
| `step`, `phase`, `seen` | program counter of `acquireLock`, `reapStale` and `release`; what the last read returned |

One action is one system call with the code up to the next one. `deps.read` is
two (`existsSync`, `readFileSync`), so is `deps.ageMs`, and the pid probe that
judges a record is not the read that got it. The same four reads serve four
purposes (`phase`): the waiting loop, the look at another's reaper, the look
at the lock under one's own reaper, and `release`. A `readFileSync` or `statSync`
that throws is followed: through the `finally` clause of `reapStale`, then to
the end of the landing.

### LandEngine

A commit is the set of changes in its history, so that ancestry is inclusion and
"green on the commit" is a statement about a set: a *defect* is a gate and a set
of changes that make it red together. Two changes that are fine alone and red
together are what a landing on a moved base has to notice.

| State | In the code |
|---|---|
| `main`, `inflight` | the remote branch; pushes the remote may still apply after their client is gone |
| `holder` | the lock, taken from `LandLease` |
| `tracking` | the remote-tracking ref in the repository |
| `dirty`, `deps`, `marker` | the persistent worktree: modified tracked files, installed packages, the `bootstrapped` file |
| `base`, `sha`, `passed`, `scopedOut` | `Evidence` and the plan of the current attempt |
| `pc`, `attempt`, `tries`, `result`, `code` | where `landLocked` is, its two loops, its exit code |

`Preflight`, `Acquire`, `WaitForLoad`, `Fetch`, `Apply`, `Bootstrap`,
`GatePasses`/`GateFails`, `Checks`, `Refetch`, `DryRunHooks`, `Push`, `Confirm`,
`Release` are the phases of `land()` in their order. The options are constants: `DryRun` and
`SkipBootstrap` are the landings started with `--dry-run` and `--skip-bootstrap` (`land.ts:47-54`); the
second goes past `bootstrapIfNeeded` and takes the packages that are there (`engine.ts:497`). An error of git
ends a landing with the code of a gate wherever it comes, after a push too (`Confirm`). An await during which the
remote or another landing can move ends a step. `LandScope` holds the pure part
(`classifyChange`, `gateApplies`, `inheritEvidence`, the exclusion of jobs).

### PushGuards

| State | In the code |
|---|---|
| `remote`, `received` | the remote's branches, and every commit it has had |
| `checkedOut`, `upstreamRef`, `disk` | the checkout that `{push_files}` is computed from |
| `trackingRef`, `objects` | what the clone knows of the remote |
| `sent`, `advertised` | the ref lines git gives the hook on stdin |
| `marker` | `HARNESS_LAND_GATE` |
| `jobs`, `mainVerdict`, `scopeVerdict` | whether lefthook runs commands, and the exits of the two guards |

`StartPush`, `Lefthook`, `Refused` and `Send` are git and lefthook, as the guards
rely on them; `GuardMain` is `guard-main-push.ts`, `GuardScope` is
`push-scope-guard.ts`. They run in parallel; `OthersPush` may come between any two.

### FitnessGate

| State | In the code |
|---|---|
| `defined`, `reading` | the metrics a run knows and the values it measures; `Null` for an adapter that gives none |
| `file` | `baseline.json` in the working tree: per metric a direction and a floor, and the list of approvals |
| `main` | the same file on `main`, the guard's reference |

`FirstRun`, `Gate`, `UpdateBaseline` are the three ways `gate.mjs` is run, each
the whole run: comparison (`ComparisonOk`), ratchet (`Ratchet`, `Clamp`), policy
(`PolicyOk`), guard (`RelaxationOk`), in the code's order: the file is written even where guard or
policy then make the run fail. `Merge` is the workflow job: a run
whose rewritten file is thrown away. The other actions are what people do.

### LandLanes

| State | In the code |
|---|---|
| `stage`, `todo` | where `validate` is, and the early checks or checks still to run |
| `limit`, `queue`, `flight`, `left` | `parallelGates`, the lanes not taken, those in the hands of workers, and the gates of each that have not ended |
| `tried`, `failed`, `passedGates` | commands in their second run, lanes that threw, `evidence.passed` |
| `red`, `toolless`, `skipped`, `flaky` | what is true of the commit and the machine, for the properties |
| `rewritten` | a tracked file differs from `HEAD` |

JavaScript runs one handler at a time, so what stands between two awaits is one
action: `Take` a worker that picks a lane, `GateEnds` the code after a command gate,
`BatchEnds` and `BatchNotRun` the summary of the lefthook batch. A command that runs
with another one of its own lane is starved (`Outcomes`), which lanes are for.

### SensorRun

What an adapter measures is `"good"` or `"bad"` against its floor; `"none"` is the
envelope that says `available: false`, `"absent"` a file that is not there. The actions
are the steps of `bin/sensors gate`: `Cruise`, `Analyse`, `Produce` (the topology
producer, and `ReadTopology` of the files that outlive the run, each of which a failed
producer may leave old, new or unreadable), `Scan` (the adapters of one file), `Coverage`
(`LaneResult` of each language, `Envelope` of all), `Suite` (`CoverageViolations` of the
last iteration, exit codes of all), `Judge` (`GateExit`, `gate.mjs` on those readings).
`FitnessExit` is `fitness_report.mjs` on the same. Floors and the ratchet are in `FitnessGate`.

### Release

A commit has its ancestors, its kind, and the two files a release writes. `made` holds the
commits of all clones, `mainRef` and `tags` are the remote's, `pr` the requests with the title
that was checked, `job` the clones with the tags they know, their tree and the step they are at.
`StartRelease` is `build_release_plan`, `WriteChangelog` to `TagRelease` the four steps
of `release` in `lib.rs`, `PushMain` and `PushTags` the workflow's; `Fail` may come
between any two. `Check` is the workflow's check of title and commits, and `SquashMerge` and
`MergePr` are GitHub behind the protection `protect-main.ts` asks for.

### Beads

Stores are functions from issues to records with status, type, size, edges, origin and
comments. `Preflight` is the check and the configuration it prints, `Import` `Forward` and bd's import,
`Verify` `compareReports` and its provenance check, `Rollback` `Reverse` of a file in which a merge
may have taken records from br's side. br and bd are external.

### AgentFiles

`StartUpdate`, `RemoveSkill`, `CopySkill`, `WriteSource` are the steps of `updateSlp` that change
something, `Rewritten` its rewriting of links, `UpdateDies` a run that dies before, between or in the
middle of them. `CheckSkills`, `WriteSkills` are `agents-skills.ts`, `LinkMirrors` is
`agents-link.ts` on either kind of platform.

### CoverageRuns

`StartCoverage` reads the list of untracked files once; `FirstTry` and `Retry` are a run of vitest
for a target with the code that reads its output. `LaneStart`, `Build`, `RunTests`, `Report` are
the commands of a cargo lane in a worktree's `TargetDir`.

### Stacks

A stack is a worktree and a branch. `Isolation` is read once per command; `LoadConfig`, `WriteEnvFile`,
`WriteCompose`, `ComposeUp` are `boot` file by file, the other commands follow their awaits. docker
holds containers and ports.

### HarnessUpdate

A file is what each of its hunks and its mode say, so that "the same lines" is "the same
hunk" and two texts merge if they change different ones. Binary files and links (`Opaque`)
never merge.

| State | In the code |
|---|---|
| `versions`, `tracking` | the commits of upstream; which of them `upstream/<ref>` names in the clone |
| `head`, `work`, `stash` | the harness-owned files of `HEAD`, of the working tree, and `git stash` |
| `synced` | what the newest sync commit's `Harness-Upstream` trailer records, the fork point at first |
| `phase`, `force`, `dirty`, `target`, `stashed` | where `updateProject` is and its variables |
| `applied` | the files `applyPlan` has written so far |
| `message` | the paths in the error of a conflicting run |
| `custom`, `dropped`, `draft`, `late`, `moved` | history, for the properties only: which committed hunks and modes are the owner's, of which files a merge has left out a new mode, his newest uncommitted content, the files edited under a run, whether the ref has moved under one |

`Start` is `assertUpdatable`, `Fetch` the fetch with the choice of the base, `Stash`
`stashPreimage`, `ApplyPath` one file of `applyPlan`, in its order (merges, checkouts,
removals), `Conclude` what follows it, `Commit` the path-limited commit, `Pop`
`popPreimage`. The plan is a function of the state (`Planned`, `Action`, `Touched`): the
code computes it once, and nothing a run meets changes what it is computed from, which
the proofs show (`PlanStable`). What is checked out is the ref as it is
by then, what is recorded is the commit it named at the plan. `Undo` and `Finish` are
the two ways out that `conflictError` prints, `ResolvePop` the one `popPreimage` prints.

## Runs

Passing runs:

- `LandLock_safe`: at most one landing holds the lock (`MutualExclusion`), a live lock file
  goes only by its owner (`LiveLockKept`), no lock is left by a landing that ended
  (`NoLockLeftBehind`), and the lock implements the lease. Landings are killed
  anywhere but inside `reapStale`.
- `LandLock_recover`: with deaths and suspensions anywhere and one reboot, no wait
  lasts for ever unless a pid is reused.
- `LandEngine_inherit`: evidence is true of its commit (`EvidenceSound`), so are the
  jobs a push skips (`SkippedJobsGreen`), a dry run, and what failed before its attempt pushed, has not landed
  (`FailureMeansNotLanded`), and the branch goes from sound commit to sound commit
  (`ImplementsTarget`). One of the two landings is a dry run that skips the bootstrap and leaves another commit's packages, or a
  worktree without any, to the other. Of its own evidence nothing is claimed where a gate runs
  installed packages, since that is what the option gives up. A landing whose `git ls-remote` fails between its push and the
  confirmation (`engine.ts:639`) reports a failed gate though the push may be under way or done; so
  `FailureMeansNotLanded` speaks of a failed gate only if the attempt has not pushed.
- `Landing_live`: every landing ends (`LandingEnds`), and exit code 0 means landed
  (`SuccessMeansLanded`); a validation that ends well has seen every gate green (`ValidMeansGreen`),
  one that ends badly reports the lane of every red gate and leaves nothing running
  (`RedsReported`), a commit with nothing red is not refused (`GreenIsAccepted`), and every validation ends
  (`LanesEndInTime`); stacks stay apart (`StacksApart`).
- `MainBranch_safe`: `main` moves only by validated or exempt changes
  (`MainNeedsGate`), and a push that lefthook skipped carries nothing (`NoSilentSkip`); every
  commit is in one release (`ReleasedOnce`), versions go up (`VersionsIncrease`), a tag
  is on `main` and its commit says so (`TagsTellTheTruth`), and what blocks releases gets to
  `main` only under a title edited after its check (`ChecksKeepMainReleasable`).
- `Checks_safe`: a floor on `main` loosens only with approval and only to what is
  measured or designed (`FloorsOnlyTighten`), a run never loosens one
  (`RatchetOnlyTightens`), code that `main` forbids does not get in by editing the
  file (`QualityRatchets`), and the gate accepts the files it writes (`AcceptsOwnFiles`, which is
  `PassIsStable` and `RegenerationPasses`); a green run has measured what its profile requires
  (`GreenIsTrue`; `Blind` names what it does not claim: cycles, coupling and complexity if their tier was skipped, the
  topology if this run did not produce it, coupling if a topology lists the files), coverage that was asked for is a contract (`CoverageIsContract`), and the
  report differs from the gate only where it says less (`ReportAgrees`); a preflight that passes is enough for the import
  (`PreflightIsEnough`), what verify passes is all there and an import nobody has touched fails it only where `compareReports`
  counts what should be off its before-side (`VerifyIsRight`, see "Not modelled" for the three cases), and the way back
  restores comments (`RollbackRestores`).
- `Upkeep_safe`: a hunk or a mode the owner has not made his own is as upstream has it
  (`NothingMissed`), except for a mode that came with a text that was merged; his hunks and modes survive an update in every file it reports no conflict in
  (`EditsSurvive`), his uncommitted edits are in the working tree or the stash
  (`DraftKept`), and the printed undo undoes everything (`UndoIsComplete`); vendored skills are those of the recorded
  commit (`VendoredIsPinned`), agents read of what is there (`AgentsSeeShipped`); cov-ts is green and
  red for the code's sake (`VerdictIsTheCodes`), and a cargo lane's report is its worktree's own (`LaneIsItsOwn`).

Runs that find a disagreement between the code and what the repository says of it:

- `LandLock_crash`: two holders, after a landing died inside `reapStale`. Waiters A and
  B both judge the orphaned reaper; A removes it and creates its own; B removes
  A's; B creates its own. Both then remove "the stale lock", the second of them
  the lock the first has just taken.
- `LandLock_fail`: a file vanishing between `existsSync` and the read ends a queued
  landing with exit code 1 instead of another round.
- `LandLock_hang`: an orphaned reaper and a reused pid: the waiting loop never gets
  to the deadline.
- `LandEngine_stale`: a gate that needs installed packages and applies to more than
  `bootstrap.when` runs against another commit's packages. The instance is the
  shape of `land.config.json`: `sensors-gate` applies to rust and ts and runs
  `npx`, `bootstrap` applies to ts.
- `HarnessUpdate_empty`: upstream has changed only the mode of a file of which the fork has changed a
  line. The merge comes out as `HEAD` has the file, and the commit fails for want of a change. The same happens where
  upstream makes one of several changes the fork has made.

Other environments were tried with the same modules and are worth knowing:

- `LongPause = TRUE` instead of `CrashInReap` in `LandLock_crash.cfg` also breaks
  `MutualExclusion` (the probe at `lock.ts:83` follows the read), as it does `LiveReaperKept`
  (a live reaper older than `REAP_STALE_MS`, `lock.ts:72`; no run lists it, a theorem states it).
- `MovingCheckout = TRUE` in `MainBranch_safe.cfg` breaks `MainNeedsGate`: somebody
  switches the checkout between lefthook's and the guard's look at it.
- `FreshRemote = TRUE` in `MainBranch_safe.cfg` breaks it, too: on a remote with no `main`, a push that
  creates it at a commit some other branch has already carried is skipped by lefthook and empty for
  the scope guard, where `guard-main-push.ts:108` says that a new `main` requires the gate.
- The workflow's fitness job runs on a checkout that is thrown away (`test.yml:313`), so an
  improvement merges without its floor, where ADR-0020:61 says that it is written back.
- With a landing that skips the bootstrap and is no dry run (`DryRun = {}` in `LandEngine_inherit.cfg`),
  `ImplementsTarget` fails although bootstrap covers every gate that needs it: the gates pass with another commit's packages, and
  the push lands. `land.ts:51` allows the option with a push, and nothing in the repository promises anything of it.
- Without the exception for `dropped`, `NothingMissed` fails: the plan counts a new mode as a change
  (`harness-merge.ts:22`), a merge of the text writes the text only (`update.ts:318-321`), and the trailer of the sync makes the
  next run take the mode for merged. The exception is exactly that: a clean merge of contents, and the mode alone.
- `Switching = TRUE` in `Upkeep_safe.cfg` breaks `NothingMissed`: after a switch to an older
  branch its version is recorded as synced while files have newer content.
- Without the exceptions for `late` and `moved`, `DraftKept` fails (an edit between the dirty
  check, `update.ts:438`, and the checkout) and so does `NothingMissed` (a fetch between the plan
  and the checkout of `upstream/<ref>`).
- `CarelessEdits = TRUE` in `Checks_safe.cfg` breaks `FloorsOnlyTighten` and `QualityRatchets`: a
  floor that is a string is compared with nothing, and a wrong direction
  turns the guard's comparison round.
- `inheritEvidence` keeps the evidence of `always` gates when the re-applied commit
  has the same content (`engine.ts:94`), where ADR-0033:59 says they "always re-run". An
  empty commit that lands meanwhile shows it.
- `Overlap = TRUE` in `MainBranch_safe.cfg` breaks `VersionsIncrease`: `versioning.yml` has no
  `concurrency` group, and two releases at once may tag a higher version first.
- A first run and `--update-baseline` write the reading itself, also where it is below
  the designed threshold the ratchet clamps at (`gate.mjs:2621`, ADR-0029 decision 2).

## Bounds

- LandLock: three landings for safety, because every known race needs a dead owner
  and two waiters; symmetric, so TLC takes them as a set. Two for liveness, where
  symmetry is not sound. No reboot for safety, where a
  reboot is a death of everybody, and one for recovery. The theorems cover the rest.
- LandEngine: two landings and another machine's changes, so that a base moves under a landing both
  by this machine and by others; two attempts (one retry, the
  first with evidence to inherit), two changes of the other machine's, three pushes (the code's number); a change in
  each of the categories rust, ts, full set and lock file, and two defects
  that need two changes each. `Flaky` switches spurious failures on; `Landing_live` leaves them
  out because they only end landings sooner, and keeps cut-off pushes. In `LandEngine_inherit` one of the
  two landings is a dry run that skips the bootstrap, in `Landing_live` both push and bootstrap; the theorems are about any number of each.
- LandLanes: two lefthook jobs in the batch and three commands in two lanes, so that a lane has a
  second gate to stop and the pool has more lanes than workers; two jobs that starve each other, one
  retried command, one gate and one check that write a tracked file; 0 (the code makes it one), 2 and 3 workers.
- PushGuards: one clone, since clones interact only through the remote, which
  `OthersPush` moves freely; two branches, one protected; five commits (the root, a validated
  change, a deletion, an unrelated history with the root's tree, someone else's
  exempt change); `MaxMoves` = 2 moves of checkout or remote, enough for a checkout
  followed by a race.
- Release: one request and one clone, since without `Overlap` nobody else is in the way; four
  commits, enough for a merge between the planning of a release and its push, and for a second
  release; subjects that raise the patch level and ones that block.
- FitnessGate: two metrics, because metrics meet only in the exit code and in "some
  floor tightened"; one has a designed threshold in the middle of the values 1..3, so that
  the clamp raises, keeps and misses a reading; the other has two values and is hard in one mode only.
  One governance constraint that fails a run and one that only warns.
- SensorRun: one scanner of files and two languages of coverage, which every branch of the adapters
  tells apart; two iterations of the suite, one floor column; one reading is bad at a time, so that
  nothing else can turn a run red; runs follow each other without bound, over the files the last one left.
- Beads: two issues that may depend on each other, of four shapes; two comments each; three changes by people or the
  trackers, which is one before, between and after the way there and back.
- HarnessUpdate: a text of two hunks, so that changes can merge and collide, with a mode, which is git's regular or
  executable, and a binary file, which only collides; two releases after the first version, so that a
  sync builds on a sync; one edit of the owner and one stash entry. Upstream writes 0 or 1, the owner 0 or 2,
  both may change the mode, delete and go back. The owner's edit is of the first hunk, the mode or the binary file: the hunks are
  alike, and upstream changes either. With the text alone the safety properties were also checked with two edits, and
  with three releases and two stash entries, before the mode was among what changes.
- AgentFiles: two skills, one of them in upstream and perhaps the project's own; two commits
  of upstream, two edits of people between runs that may die anywhere.
- CoverageRuns: two targets, one inside the other; three files, one of which the configuration leaves
  out; for cargo, two worktrees, a package without and two with a binary to build.
- Stacks: two agents, two worktrees, two branches, four stacks of which two have the same ports;
  three commands or edits, which is a boot under a boot with a switch of the branch between.

## Fairness

- LandLock: each running landing takes its next step (`Code`), a finished one exits, its deadline
  comes, and files grow old. A process that is not killed is scheduled and time
  passes. Nothing is assumed of crashes, reboots and reuse.
- LandEngine (`Landing_live`): each landing takes its next step. The commands the engine awaits are
  finite ones (git, a package install, gates), so each await is answered; a gate that never
  ended would hang the code too, which sets no time limit. A lock that is taken
  answers with `LockTimeout`. Nothing is assumed of the remote or of other machines.
- LandLanes (`Landing_live`): some step of a validation is taken as long as one is possible, for the same
  reason. Which of the gates in flight ends first is left open.

The safety runs and the theorems use no fairness. All cfgs have
`CHECK_DEADLOCK FALSE` where commands end and nothing is left to do, or where the bound on moves is used up.

## Proofs

Every theorem is for all values of the constants that satisfy the named
assumptions of its module; further assumptions stand in the theorem.

**LandLockProofs.** `TypeCorrect` and `ReleaseRemovesOwnLock` need nothing. Mutual
exclusion, `LiveReaperKept`, `LiveLockKept` and the refinement of `LandLease` assume
`Calm == ~CrashInReap /\ ~LongPause`; the runs above show that neither half can be
dropped. Mutual exclusion is not inductive: it follows from who may remove the
lock file. `CalmInv` says, part by part: the reaper belongs to the one
landing inside `reapStale` (`ReaperInv`); whom a read has named is still there when
its process is probed, or its file has not been replaced since (`ProbeInv`), so the
file removed as stale is the one that was judged (`VerdictInv`); a live holder's record is in the lock file, and
a record there is of somebody between create and removal (`HolderInv`, `OwnInv`); a
running process started in this boot (`BootInv`).

**LandEngineProofs.** `EngineTypeCorrect` needs nothing. `EvidenceIsSound`,
`SkippedJobsAreGreen` and `EngineImplementsTarget` assume `HonestScopes` (a change that
can turn a gate red touches a file the gate is selected for) and `BootstrapCovers` (a gate that
runs installed packages applies only where bootstrap applies), the last two also `SkippersOnlyTry` (only dry
runs skip the bootstrap). The first is what a scope map
is for; the second is what `land.config.json` does not satisfy (`LandEngine_stale`); the third is up to who types the
command. What a landing that skips the bootstrap has passed stays `Unbound` for gates that run packages; `DryInv` keeps such
evidence from the remote, and `DepsInv` is about the others: where a gate that needs packages is to run, bootstrap has installed
them, whatever was there. The
invariant `EngineInv` carries a gate's verdict from one commit to the next: the
remote and all bases are sound (`RemoteInv`), only the holder of the lease is between
fetch and release (`LeaseInv`), a passed gate is green on `sha` (`PassedInv`) or stays so over a delta that
misses its scopes, a scoped-out gate is green because the base is (`ScopedInv`),
installed packages agree with `sha` for the gates that see them (`DepsInv`), and
before a push every gate is one of the two (`CoverInv`).

About exit codes, in the same module: `SuccessIsTrue` needs nothing. `FailureIsTrue` assumes `DisjointRefs`: a change is
in one ref, or another machine's. A failed landing may have had a push that died on the way and still arrives, so
its failure has to say something of pushes in flight. `UnpushedInv` does: while a landing has not pushed in this
attempt, nothing of its ref is on the branch, and what is still under way of earlier attempts is no fast-forward
any more, since the engine only tries again when the branch has a commit the base of that attempt had not.
`PushingInv` says the same of an attempt that is pushing, but for its own commit; `BaseInv` that no base and no
tracking ref is newer than the branch; `CodeInv` that only what is over has an exit code, and that dry runs never push.

**LandLanesProofs.** `LanesTypeCorrect`, `ValidationIsSound`, `NoRedIsHidden` and `GreenIsNeverRefused` need only
`LanesAssumption`: they hold for any number of gates, lanes and workers. `LaneInv` says
where each gate is: of a lane not yet taken nothing has run, in a lane in flight what is gone from `left`
has passed, in a lane that is done all has, unless the lane has failed. `PhaseInv` says what is over in each phase,
`GreenInv` that what passed is not red, unless a tracked file was modified meanwhile, which `assertUnchanged` then finds. `GateStep` and `BatchStep` are the steps that matter.
For `GreenIsNeverRefused`, `LanesKeepApart` says that a command never runs beside another that needs its lane, and
`AcceptInv` that while the commit and the machine are clean no lane has failed and nothing has been aborted.

**PushGuardsProofs.** `GuardedMain` and `SkippedPushIsEmpty` assume
`Calm == ~MovingCheckout /\ ~FreshRemote`. `GuardInv` says that while a push is under
way lefthook's decision and both verdicts are those the current state
would still give (`PushInv`), and that a tracking ref names something the remote has had
(`RemoteInv`), which is what makes "contained in a tracking ref" mean "not new".

**ReleaseProofs.** `ReleaseTypeCorrect` and `MainStaysReleasable` need nothing more. That
no commit blocks releases unless its title was edited is not inductive: a squash commit takes its
subject from the request. `CheckedInv` says what the check that stands has seen, for each request;
`KindsInv` that every commit, in `main` or in any clone, is of a kind that can be released or
was made of an edited title.
`VersionsGoUp` assumes `~Overlap`; with it one release is under way at a time (`AloneInv`). `KnownInv` says that a clone
knows every release tag behind its head, however old the clone is, and has no tag of its own but that of the release
under way; `NewInv` that nobody else has the commit of that release, so its tag cannot come in behind another one's; `LaterInv` that
the planned version is later than every release behind the head, which follows from the base being the highest tag there
(`Ranked`: sets of tags have a highest one, which is carried along since cardinalities would need an induction) and
from `BumpIsLater`.
`TagsAreTrue` assumes nothing, not even that releases take turns. `TreeFits` says which files of a clone already
have what the release under way will commit, which a failed release leaves behind and only a clean worktree
restores; `TreeInv` that a clone pushes no tag but its own, and only after its commit has come to `main`; `TransInv` that
ancestors of ancestors are ancestors, so that what `main` reached it reaches after any push; and `CountInv`
that every commit, not only a tagged one, has as many sections as release commits behind it.
`CommitsAreReleasedOnce` assumes `~Overlap` and rests on both invariants. `ListedInv` is the property over what a release has
to list (`Due`). It stays true when a release is tagged because all earlier ones are in its history (`ChainInv`; a push of `main`
that would leave one out is rejected) and its plan lists what no tag has behind it and nothing that a release in its
history has (`PlanFits`). The second is `BaseHasAll`: the base is the latest tag by version, the property is about ancestors, and the two
agree since versions go up; or the base is the owner's tag, and then `BaseInv` says that a release not later than it has nothing that it has not.
`HeadFits` covers the clone that was made before the owner cut that tag.

**ChecksProofs, the gate.** `RunsOnlyTighten` holds for any file. The others assume
`~CarelessEdits`. `ShapeInv` (an absent entry has no floor, a metric that is not
defined has no reading) and `GateInv` (the directions in both files are the code's, floors
are numbers or null) are needed because the guard compares by the *file's* direction
and the ratchet by the code's: they agree only where the file is tidy. `GateAcceptsOwnFiles` rests on two lemmas
that look one run ahead: `RatchetKeepsPassing` (the floors a passing run writes pass on the same
readings, because the clamp never writes a floor the reading misses) and `RegenerationAlwaysPasses`.

**ChecksProofs, the sensors.** All four theorems need only `SensorAssumption`, which also says that scanners and languages have
names of their own. `SensorInv` says that what a run has read so far is how the code is (`RunFits`: nobody edits during a
run) and that the verdict of a run that was not ended by `set -e` is `GateExit` of its readings. A reading may be missing at
any step; `PassedIsGood` goes through the adapters a profile may require and finds, for each, a metric that would be
missing or bad. Adapters of two sources are where this is not obvious: `peak` may come from the topology alone, and it is `spread`
that tells that ts-morph's functions are bad.

**ChecksProofs, the migration.** The three theorems need only `BeadsAssumption` (issues are numbers, as places in a
file are); that stores are finite follows from how they are made. `StoresInv` says that br's comments are numbered apart (`Numbering`) and
that while issues are in bd br is what was imported and bd's comments have no number (`Unnumbered`).
`RollbackBringsBack` is about the allocator: the numbers in use are finitely many, so there is a greatest one, so the k-th
free one is within the range `Allocated` looks in (`AllocatedFree`; greatest and least numbers come from `<` being well founded, not from an induction); two comments
without a number have different ranks (`RankOfFresh`), so they get different numbers (`NewNumbersApart`); and an original number is in the
reference, at the one place it has there (`ReferenceNumber`). That the old comments of an issue keep their
numbers where none of them was deleted comes down to the places of bd's comments being those of the reference.
`PreflightSuffices` is not inductive either: br may have grown after preflight and the verdict is of an earlier import. `PreflightInv` says that until the
import br only grows over what preflight saw (`Grown`), so that the configuration that was printed covers it if nothing has changed.
`VerifyTellsTheTruth` rests on `Copied`: until somebody works in bd it has a copy of every record
it took, which `Reconciles` then finds equal (`CopyReconciles`).

**UpkeepProofs.** The theorems need the assumptions of the modules only: `CoverageAssumption`, `AgentFilesAssumption`, `StacksAssumption`.
What a list does to files is stated of the places already passed, so that no induction over the list is needed.

- `CoverageVerdictIsTheCodes`: `CovInv` says that the targets behind the current one are green, and that the two lists of a run, of what
  was tracked and what was not, are apart and, until a file is created, are all there is. `LanesKeepApart`: `LaneInv` says
  that a lane about to report has only its own profiles in its target directory, since nobody else's lane has that one.
- `VendoredSkillsArePinned`: `UpdateInv` says of an update under way that the skills already replaced are as it
  has staged them (a list may name a skill twice: then the one in the middle of its copying is excepted), from the list and the commit
  that the last step records; `Pinned` carries that on until an edit or a death. That a link leads to a vendored skill only if upstream
  meant that one is `Rewritten`'s doing. `AgentsReadWhatIsShipped`: `ViewInv` says that the list is the inventory while nothing was edited since
  it was checked, and that each mirror is a link to the document or a copy of it.
- `StacksStayApart`: `StacksInv` is about who else works on a stack. A command that is alone has its files
  as it wrote them (`CommandInv`); a stack that was promised has no command (`Kept`), and its containers run on what the
  environment file said when they came up, whose `of` is the stack's own whatever branch is checked out by then.

**HarnessUpdateProofs.** `TypeCorrect`, `UndoCorrect` and `DraftKeptCorrect` need nothing;
`NothingMissedCorrect` and `EditsSurviveCorrect` assume `~Switching`; both are about hunks and the mode, the first with the exception for `dropped`. `Stages` says what a run may
rely on in each phase: an unforced one has found nothing but what `HEAD` or the owner has, only
touched files have been written, no file with conflict markers gets past `Conclude` (which
even the type of a commit rests on). `Forward` says that the base is never ahead of the target, so
that it is the recorded version and not the fork point; with it `NothingMissed` is inductive
by the cases of the plan (`SyncMissesNothing`). `DraftKept` becomes inductive as `Kept`: a draft that is in the working tree
only differs from `HEAD`, is therefore dirty and stashed, and once files are written every draft is in the stash.
`EditsSurvive` follows from what stands in the working tree when a sync is committed: `SurviveInv` says that a file a run
has written has the owner's hunks as `HEAD` has them, until he edits it, and through whatever he
restores, pops and resolves before he finishes a conflict. The merge keeps them because the recorded version never has a hunk as the owner has it
(`CustomInv`).

Model-checked only: liveness (`EveryWaitEndsWithoutReuse`, `LandingEnds`, `LanesEndInTime`), which the prover does not reach. Every
other property of a passing run is a theorem, some under the assumptions named above.

## Not modelled

What a module leaves out, and what is known of it:

- Landing: log and receipt files, the environment of the children, the folding of their output, the syntax of
  `land.config.json`. Its parser accepts what a landing then makes little of: `maxAttempts` 0
  (the landing gives up at once, with the exit code of a push; the model has at least one attempt), two gates
  of one name, a scope in `when` that does not exist (the gate then runs only over the full set).
  The worktree of a landing that was killed may still have its children at work (`engine.ts:431`); they can
  only write files there, which the next landing resets. A landing whose commits only delete files is documented as a limit of
  lefthook (`docs/development/landing.md:46`) and has no property.
- Lanes: the patterns that tell an infrastructure failure are data.
- Push guards: errors of git (the guards then refuse), parsing of ref lines.
- Release: the syntax of subjects, the layout of the changelog, several packages (which `lib.rs` does not
  implement), a range given by hand. `protect-main.ts` is the rule it asks for, not the request it sends.
- Fitness gate: legacy files without `dimensions`, drift below `EPSILON`, an unreachable
  or skipped reference. `--update-baseline` refused by the guard prints `updated: true` in JSON though
  nothing is written; a first run applies no guard; a failed policy keeps neither the ratchet
  nor `--update-baseline` from writing.
- Sensors: the parsing of each tool's output and the statistics of durations. Known and not a
  property, because no line of the repository says otherwise or the model would only restate it: a failed
  producer leaves the last `.topology/metrics` to be read as a reading of now; `--skip-tier=ts-morph` makes counts
  0 and so satisfies a required adapter (where ADR-0028:80 has a skipped tier fail); a coverage adapter
  that dies without output passes under `dev`; a violation of the suite's p95 is printed and not enforced (`suite_duration.mjs:32-36`);
  coverage that falls short in an iteration before the last passes; a cargo payload without numbers
  counts as read where python's and vitest's fail; unreadable files leave the scans without a trace.
- Beads: labels, titles, priorities and timestamps (compared like what is modelled), the notes carrier, the
  parsing of lines. `compareReports` promises to reconcile tombstones (`beads-transform.ts:709`) and does so for identifiers, edges
  and classification. It counts their comments and labels on one side only (line 745); it wants them gone from bd, although
  the `tombstone:done` preflight prints (lines 352-355) makes bd keep those that were not dropped; and it counts their repositories. An import that has lost nothing
  fails in each of the three cases, and `VerifyIsRight` says that it does in no other but a dropped origin. It compares sets of repositories and numbers
  of comments; restored identifiers are not compared with those in use.
- Harness update: `--check` and the preview, `.harness-provenance.json`, paths that are not harness-owned
  (no command of a run names them), the index apart from the working tree, rewritten history (a
  reverted or squashed sync commit), `git merge` of upstream.
- Agent context: symbolic links among the skill directories, arguments, printed reports. The manifest that is written
  is the one read at the start, so that an edit under the run is lost; directories no list names stay.
  On Windows a mirror that is a regular file is written over, elsewhere it is refused.
- Coverage checks: the Python and sensors lanes (one command, no shared state), arguments. Two lanes in
  one worktree share a target directory. A file taken from the index with `git rm --cached` is
  left out of what is measured though the pushed commit may have it.
- Stacks: `inspect`, `ports` and `doctor` (they only read), health checks, mounts, volumes, the name of the database.
  Commands act on the branch that is checked out now, so that after a switch the old stack runs on; `stop`
  names the services of the compose file last written, so that a service dropped from the configuration keeps
  its container; two boots of the same stack may end well with each other's environment (`StacksApart`
  speaks of boots that were alone); detached checkouts of a worktree share a stack.

Components without a module: the skill library's installer and the inspector, scaffolder and hooks drive other tools;
the other sensors and the doc validator turn text into findings and keep nothing between runs;
the profiling budgets compare numbers; the example applications and telemetry packages are what a fork replaces.
The config manager resolves and rewrites `.env` files and would be worth a small module.

## Plan

1. `EnvFile` (config manager): resolution and rewriting under a person's edits.
2. The readings of `SensorRun` as the readings of `FitnessGate`: one run of both, with the floor of a
   metric that a run could not measure.
3. A landing that validates with `LandLanes` in place of a step per gate, as a refinement.
