------------------------------- MODULE LandEngine -------------------------------
(***************************************************************************)
(* The landing engine, scripts/lib/land/engine.ts: the landings of one     *)
(* machine take the lease in turn, validate their ref in the persistent    *)
(* worktree and push it to the target branch of a remote, which other      *)
(* machines move meanwhile.                                                *)
(*                                                                         *)
(* A commit is the set of changes in its history: ancestry is inclusion,   *)
(* and the content of its tree is what those changes say.  A gate is red   *)
(* on a tree that has all the changes of one of its defects.  The lease is *)
(* the one of LandLease; a landing that dies loses it.  Each await that    *)
(* lets the remote or another landing move ends a step.                    *)
(***************************************************************************)
EXTENDS LandScope, FiniteSets

CONSTANTS
  Landing, Change,
  Ref,            \* the commit each landing is asked to land
  Mode,           \* --mode of each landing
  DryRun,         \* the landings with --dry-run
  SkipBootstrap,  \* the landings with --skip-bootstrap; all, if none is configured
  Others,         \* changes other machines land; one each, once
  FilesOf,        \* the files a change touches
  Defect,         \* [gate, changes]: a gate red on trees with these changes
  DepChange,      \* changes to what bootstrap installs (the lock file)
  NeedsDeps,      \* gates that run what bootstrap installs
  BootWhen,       \* bootstrap.when
  Absent,         \* no bootstrap has run in this worktree
  MaxAttempts,    \* config.maxAttempts
  ProceedWhenBusy,\* config.onLoadTimeout = 'proceed'
  Flaky           \* bound: do gates and checks fail without a cause

MaxPushes == 3

\* The keys of the configuration file.  A fraction of maxAttempts counts as its whole
\* part; the parser also takes 0, with which every landing gives up at once.
OptionsParsed ==
  /\ MaxAttempts \in Nat \ {0}
  /\ ProceedWhenBusy \in BOOLEAN
  /\ BootWhen \in {Always} \cup SUBSET Scope

ASSUME EngineAssumption ==
  /\ OptionsParsed
  /\ Ref \in [Landing -> SUBSET Change]
  /\ Mode \in [Landing -> {"auto", "ff-only", "cherry-pick", "merge"}]
  /\ DryRun \subseteq Landing /\ SkipBootstrap \subseteq Landing
  /\ Others \subseteq Change /\ DepChange \subseteq Change
  /\ FilesOf \in [Change -> SUBSET File]
  /\ Defect \subseteq [gate : Gate, changes : (SUBSET Change) \ {{}}]
  /\ NeedsDeps \subseteq Gate
  /\ \A c \in SUBSET Change : c # Absent
  /\ Flaky \in BOOLEAN

\* The scope map is honest: each change a gate's verdict hinges on touches a
\* file that is full, unmapped or in a scope of the gate.
Touches(d, g) == \E f \in FilesOf[d] : \/ f \in FullFiles \/ ScopesOf[f] = {}
                                       \/ When[g] = Always
                                       \/ When[g] \cap ScopesOf[f] # {}
HonestScopes == \A b \in Defect : \A d \in b.changes : Touches(d, b.gate)

\* A gate that runs installed packages applies only where bootstrap applies.
BootstrapCovers == \A g \in NeedsDeps : BootWhen = Always \/ (When[g] # Always /\ When[g] \subseteq BootWhen)

\* Who skips the bootstrap pushes nothing.
SkippersOnlyTry == SkipBootstrap \subseteq DryRun

VARIABLES
  main,       \* the target branch of the remote
  inflight,   \* pushes whose client is gone and which the remote may still apply
  holder,     \* who has the lease
  tracking,   \* refs/remotes/<remote>/<target> of the repository
  dirty,      \* a tracked file of the landing worktree differs from HEAD
  deps,       \* the tree the installed packages of the worktree belong to
  marker,     \* the file <state>/bootstrapped exists
  pc, attempt, tries,
  base, sha,  \* the base and the commit under validation
  passed,     \* evidence.passed: the gates green on sha
  scopedOut,  \* the gates the diff of sha makes inapplicable
  result,     \* how the last push of this attempt ended
  code        \* exit code of a landing that is over

vars == <<main, inflight, holder, tracking, dirty, deps, marker, pc, attempt,
          tries, base, sha, passed, scopedOut, result, code>>
remote == <<main, inflight>>
worktree == <<dirty, deps, marker>>
evidence == <<base, sha, passed, scopedOut>>

-----------------------------------------------------------------------------
Green(g, tree) == \A b \in Defect : b.gate = g => ~(b.changes \subseteq tree)
Sound(tree) == \A g \in Gate : Green(g, tree)

\* git diff --name-only of two commits.
Diff(a, b) == UNION {FilesOf[d] : d \in (a \ b) \cup (b \ a)}

\* What a gate runs against: the tree of sha with the packages installed.
Seen(l, g) == IF g \in NeedsDeps THEN (sha[l] \ DepChange) \cup (deps \cap DepChange)
              ELSE sha[l]

Init ==
  /\ main = {} /\ inflight = {} /\ holder = {} /\ tracking = {}
  /\ dirty = FALSE /\ deps = Absent /\ marker = FALSE
  /\ pc = [l \in Landing |-> "preflight"]
  /\ attempt = [l \in Landing |-> 1]
  /\ tries = [l \in Landing |-> 0]
  /\ base = [l \in Landing |-> {}] /\ sha = [l \in Landing |-> {}]
  /\ passed = [l \in Landing |-> {}] /\ scopedOut = [l \in Landing |-> {}]
  /\ result = [l \in Landing |-> "none"]
  /\ code = [l \in Landing |-> "none"]

Goto(l, p) == pc' = [pc EXCEPT ![l] = p]
\* The landing ends with an exit code; land() then releases the lease.
Finish(l, c) == Goto(l, "release") /\ code' = [code EXCEPT ![l] = c]
Stay == UNCHANGED code
\* The target moved: the next attempt, if there is one left.
Retry(l) ==
  IF attempt[l] < MaxAttempts
  THEN /\ attempt' = [attempt EXCEPT ![l] = attempt[l] + 1]
       /\ Goto(l, "fetch") /\ Stay
  ELSE Finish(l, "push") /\ UNCHANGED attempt

\* preflight checks, before the lease; a failing one ends the landing.
Preflight(l) ==
  /\ pc[l] = "preflight"
  /\ \/ Goto(l, "lock") /\ Stay
     \/ Flaky /\ Finish(l, "gate")
  /\ UNCHANGED <<remote, holder, tracking, worktree, attempt, tries, evidence, result>>

\* acquireLock: the lease, or LockTimeout.
Acquire(l) ==
  /\ pc[l] = "lock"
  /\ \/ holder = {} /\ holder' = {l} /\ Goto(l, "load") /\ Stay
     \/ holder # {} /\ Finish(l, "busy") /\ UNCHANGED holder
  /\ UNCHANGED <<remote, tracking, worktree, attempt, tries, evidence, result>>

\* waitForLoad: quiet at last, or still busy at the deadline.
WaitForLoad(l) ==
  /\ pc[l] = "load"
  /\ \/ Goto(l, "fetch") /\ Stay
     \/ Flaky /\ ~ProceedWhenBusy /\ Finish(l, "busy")
  /\ UNCHANGED <<remote, holder, tracking, worktree, attempt, tries, evidence, result>>

\* fetchRemote at the start of validate; three failures abort.
Fetch(l) ==
  /\ pc[l] = "fetch"
  /\ \/ tracking' = main /\ Goto(l, "apply") /\ Stay
     \/ Flaky /\ Finish(l, "push") /\ UNCHANGED tracking
  /\ UNCHANGED <<remote, holder, worktree, attempt, tries, evidence, result>>

\* The commits applyTarget can produce from a base; none means it aborts.
Applied(l, b) ==
  LET t == Ref[l]
  IN  CASE b \subseteq t /\ Mode[l] \in {"auto", "ff-only"} -> {t}
        [] t \subseteq b /\ Mode[l] \in {"ff-only", "merge"} -> {b}
        [] ~(t \subseteq b) /\ Mode[l] # "ff-only"           -> {b \cup t}
        [] OTHER                                             -> {}

\* The evidence and the plan of commit s: what the delta to the previous
\* attempt's commit lets inherit, and what the diff to the base scopes out.
\* With --skip-bootstrap the packages stay whatever they are.
Adopt(l, s, delta, diff) ==
  /\ base' = [base EXCEPT ![l] = tracking]
  /\ sha' = [sha EXCEPT ![l] = s]
  /\ passed' = [passed EXCEPT ![l] = IF attempt[l] = 1 THEN {} ELSE Inherited(@, delta)]
  /\ scopedOut' = [scopedOut EXCEPT ![l] = ScopedOut(Classify(diff))]
  /\ Goto(l, IF l \notin SkipBootstrap /\ (GateApplies(BootWhen, Classify(diff)) \/ ~marker)
             THEN "bootstrap" ELSE "gates")
  /\ Stay

\* changedFiles: git may fail to produce a diff.
ChangedFiles(a, b) == {Diff(a, b)} \cup (IF Flaky THEN {Unreadable} ELSE {})

\* ensureWorktree resets the worktree to the base, or makes a new one when it
\* is missing or broken, and applyTarget applies the ref.
Apply(l) ==
  /\ pc[l] = "apply"
  /\ dirty' = FALSE
  /\ deps' = deps \/ (Flaky /\ deps' = Absent)
  /\ \/ \E s \in Applied(l, tracking) :
          \E delta \in ChangedFiles(sha[l], s), diff \in ChangedFiles(tracking, s) :
            Adopt(l, s, delta, diff)
     \* nothing to apply, a conflict, or git fails
     \/ /\ Applied(l, tracking) = {} \/ Flaky
        /\ Finish(l, "gate")
        /\ UNCHANGED evidence
  /\ UNCHANGED <<remote, holder, tracking, marker, attempt, tries, result>>

\* earlyChecks, then bootstrap where it applies; a failing install may leave
\* the packages of either tree behind.
Bootstrap(l) ==
  /\ pc[l] = "bootstrap"
  /\ \/ deps' = sha[l] /\ marker' = TRUE /\ Goto(l, "gates") /\ Stay
     \/ /\ Flaky /\ Finish(l, "gate")
        /\ deps' \in {deps, sha[l]} /\ UNCHANGED marker
  /\ UNCHANGED <<remote, holder, tracking, dirty, attempt, tries, evidence, result>>

Todo(l) == (Gate \ scopedOut[l]) \ passed[l]

\* Mutant of GatePasses: a job the batch skipped silently counts as green.
GatePassesUnreported(l, g) ==
  /\ pc[l] = "gates" /\ g \in Todo(l)
  /\ g \in NeedsDeps => deps # Absent
  /\ passed' = [passed EXCEPT ![l] = @ \cup {g}]
  /\ dirty' \in {dirty, dirty \/ Flaky}
  /\ UNCHANGED <<remote, holder, tracking, deps, marker, pc, attempt, tries, base, sha,
                 scopedOut, result, code>>

\* One gate of the lanes ends green.  On a tree that an earlier gate changed
\* its verdict says nothing.  It may itself change a tracked file.
GatePasses(l, g) ==
  /\ pc[l] = "gates" /\ g \in Todo(l)
  /\ g \in NeedsDeps => deps # Absent
  /\ dirty \/ Green(g, Seen(l, g))
  /\ passed' = [passed EXCEPT ![l] = @ \cup {g}]
  /\ dirty' \in {dirty, dirty \/ Flaky}
  /\ UNCHANGED <<remote, holder, tracking, deps, marker, pc, attempt, tries, base, sha,
                 scopedOut, result, code>>

\* A red gate, a missing tool, an early check: runLanes lets the other lanes
\* finish and validate aborts.
GateFails(l) ==
  /\ pc[l] = "gates"
  /\ \/ \E g \in Todo(l) : ~(/\ g \in NeedsDeps => deps # Absent
                             /\ ~dirty /\ Green(g, Seen(l, g)))
     \/ Flaky
  /\ Finish(l, "gate")
  /\ UNCHANGED <<remote, holder, tracking, worktree, attempt, tries, evidence, result>>

\* The checks, then assertUnchanged.
Checks(l) ==
  /\ pc[l] = "gates" /\ Todo(l) = {}
  /\ \/ ~dirty /\ Goto(l, "refetch") /\ Stay
     \/ dirty /\ Finish(l, "gate")
  /\ UNCHANGED <<remote, holder, tracking, worktree, attempt, tries, evidence, result>>

\* Mutant of Refetch: --dry-run is forgotten.
RefetchThenPush(l) ==
  /\ pc[l] = "refetch"
  /\ \/ /\ tracking' = main
        /\ IF main # base[l] THEN Retry(l)
           ELSE Goto(l, "push") /\ Stay /\ UNCHANGED attempt
     \/ /\ Flaky /\ UNCHANGED attempt
        /\ \/ Finish(l, "push") /\ UNCHANGED tracking
           \/ Finish(l, "gate") /\ tracking' = main
  /\ tries' = [tries EXCEPT ![l] = 1]
  /\ UNCHANGED <<remote, holder, worktree, evidence, result>>

\* Has the target moved during validation?
Refetch(l) ==
  /\ pc[l] = "refetch"
  /\ \/ /\ tracking' = main
        /\ IF main # base[l] THEN Retry(l)
           ELSE Goto(l, IF l \in DryRun THEN "dryRun" ELSE "push") /\ Stay /\ UNCHANGED attempt
     \/ /\ Flaky /\ UNCHANGED attempt
        /\ \/ Finish(l, "push") /\ UNCHANGED tracking
           \/ Finish(l, "gate") /\ tracking' = main
  /\ tries' = [tries EXCEPT ![l] = 1]
  /\ UNCHANGED <<remote, holder, worktree, evidence, result>>

\* The real pre-push hooks, with nothing pushed.
DryRunHooks(l) ==
  /\ pc[l] = "dryRun"
  /\ Finish(l, "ok") \/ (Flaky /\ Finish(l, "gate"))
  /\ UNCHANGED <<remote, holder, tracking, worktree, attempt, tries, evidence, result>>

\* git push of the literal commit.  The remote takes it only as a fast-forward;
\* a client killed or cut off does not know, and may have left a push behind.
Push(l) ==
  /\ pc[l] = "push"
  /\ \/ /\ main \subseteq sha[l] /\ main' = sha[l] /\ UNCHANGED inflight
        /\ \E r \in {"ok", "transport"} : result' = [result EXCEPT ![l] = r]
     \/ /\ UNCHANGED remote
        /\ ~(main \subseteq sha[l]) \/ Flaky
        /\ result' = [result EXCEPT ![l] = "rejected"]
     \/ /\ UNCHANGED main
        /\ inflight' \in {inflight, inflight \cup {sha[l]}}
        /\ result' = [result EXCEPT ![l] = "transport"]
  /\ Goto(l, "confirm") /\ Stay
  /\ UNCHANGED <<holder, tracking, worktree, attempt, tries, evidence>>

\* Mutants of Confirm: a moved tip counts as landed; transport failures are retried
\* for ever.
ConfirmMovedIsLanded(l) ==
  /\ pc[l] = "confirm"
  /\ tracking' = main
  /\ Finish(l, IF main # base[l] THEN "ok" ELSE "push")
  /\ UNCHANGED <<remote, holder, worktree, attempt, tries, evidence, result>>
ConfirmForever(l) ==
  /\ pc[l] = "confirm"
  /\ tracking' = main
  /\ \/ sha[l] \subseteq main /\ Finish(l, "ok")
     \/ ~(sha[l] \subseteq main) /\ result[l] = "transport" /\ Goto(l, "push") /\ Stay
     \/ ~(sha[l] \subseteq main) /\ result[l] # "transport" /\ Finish(l, "push")
  /\ UNCHANGED <<remote, holder, worktree, attempt, tries, evidence, result>>

\* The remote containing the commit is the fact, not the push's exit status.  When
\* the fetch fails the landing ends as a failed push; when git then fails to name the
\* tip it ends like a failed gate, although the push may be under way.
Confirm(l) ==
  /\ pc[l] = "confirm"
  /\ \/ /\ tracking' = main
        /\ \/ /\ sha[l] \subseteq main
              /\ Finish(l, "ok") /\ UNCHANGED <<attempt, tries, result>>
           \/ /\ ~(sha[l] \subseteq main) /\ main # base[l]
              /\ Retry(l) /\ UNCHANGED tries
              /\ result' = [result EXCEPT ![l] = "none"]
           \/ /\ ~(sha[l] \subseteq main) /\ main = base[l]
              /\ IF result[l] = "transport" /\ tries[l] < MaxPushes
                 THEN /\ tries' = [tries EXCEPT ![l] = tries[l] + 1]
                      /\ Goto(l, "push") /\ Stay
                 ELSE Finish(l, "push") /\ UNCHANGED tries
              /\ UNCHANGED <<attempt, result>>
           \/ /\ ~(sha[l] \subseteq main) /\ Flaky
              /\ Finish(l, "gate") /\ UNCHANGED <<attempt, tries, result>>
     \/ Flaky /\ Finish(l, "push") /\ UNCHANGED <<tracking, attempt, tries, result>>
  /\ UNCHANGED <<remote, holder, worktree, evidence>>

Release(l) ==
  /\ pc[l] = "release"
  /\ holder' = holder \ {l} /\ Goto(l, "done")
  /\ UNCHANGED <<remote, tracking, worktree, attempt, tries, evidence, result, code>>

Step(l) ==
  \/ Preflight(l) \/ Acquire(l) \/ WaitForLoad(l) \/ Fetch(l) \/ Apply(l) \/ Bootstrap(l)
  \/ (\E g \in Gate : GatePasses(l, g)) \/ GateFails(l) \/ Checks(l)
  \/ Refetch(l) \/ DryRunHooks(l) \/ Push(l) \/ Confirm(l) \/ Release(l)

-----------------------------------------------------------------------------
(* The machine and the world. *)

\* The process dies; its lease is reaped, its push may be under way and the
\* gates it started run on and may still write to the worktree.
Crash(l) ==
  /\ Flaky /\ pc[l] \notin {"done", "dead"}
  /\ Goto(l, "dead")
  /\ holder' = holder \ {l}
  /\ inflight' \in {inflight} \cup (IF pc[l] = "push" THEN {inflight \cup {sha[l]}} ELSE {})
  /\ UNCHANGED <<main, tracking, worktree, attempt, tries, evidence, result, code>>

Orphan ==
  /\ \E l \in Landing : pc[l] = "dead" /\ sha[l] # {}
  /\ dirty' = TRUE
  /\ UNCHANGED <<remote, holder, tracking, deps, marker, pc, attempt, tries, evidence,
                 result, code>>

\* A push whose client is gone reaches the remote after all.
LatePush ==
  /\ \E c \in inflight :
       /\ inflight' = inflight \ {c}
       /\ main' = IF main \subseteq c THEN c ELSE main
  /\ UNCHANGED <<holder, tracking, worktree, pc, attempt, tries, evidence, result, code>>

\* Another machine lands a change, itself gated on the tree it pushes.
OtherMachine ==
  /\ \E d \in Others \ main :
       /\ Sound(main \cup {d})
       /\ main' = main \cup {d}
  /\ UNCHANGED <<inflight, holder, tracking, worktree, pc, attempt, tries, evidence,
                 result, code>>

Next == (\E l \in Landing : Step(l) \/ Crash(l)) \/ Orphan \/ LatePush \/ OtherMachine

Spec == Init /\ [][Next]_vars
\* Every landing that runs makes progress: its awaits are answered (a command
\* exits, a sleep ends).  Nothing is assumed of crashes or of other machines.
FairSpec == Spec /\ \A l \in Landing : WF_vars(Step(l))

-----------------------------------------------------------------------------
Tree == SUBSET Change

TypeOK ==
  /\ main \in Tree /\ inflight \subseteq Tree /\ tracking \in Tree
  /\ holder \subseteq Landing
  /\ dirty \in BOOLEAN /\ marker \in BOOLEAN /\ deps \in {Absent} \cup Tree
  /\ pc \in [Landing -> {"preflight", "lock", "load", "fetch", "apply", "bootstrap", "gates",
                         "refetch", "dryRun", "push", "confirm", "release", "done", "dead"}]
  /\ attempt \in [Landing -> 1..MaxAttempts] /\ tries \in [Landing -> 0..MaxPushes]
  /\ base \in [Landing -> Tree] /\ sha \in [Landing -> Tree]
  /\ passed \in [Landing -> SUBSET Gate] /\ scopedOut \in [Landing -> SUBSET Gate]
  /\ result \in [Landing -> {"none", "ok", "rejected", "transport"}]
  /\ code \in [Landing -> {"none", "ok", "gate", "push", "busy"}]

Validated == {"refetch", "dryRun", "push", "confirm"}

\* What --skip-bootstrap gives up: the verdicts of gates that run the packages some
\* other commit has left installed.
Unbound(l) == IF l \in SkipBootstrap THEN NeedsDeps ELSE {}

\* Evidence: a gate counted as passed on a commit is green on exactly that
\* commit, whether it ran there or was inherited through re-applies, although
\* gates write to the worktree and packages outlive a landing, those of landings
\* beside it that skip the bootstrap included.
EvidenceSound ==
  \A l \in Landing : pc[l] \in Validated =>
    \A g \in passed[l] \ Unbound(l) : Green(g, sha[l])

\* Every pre-push job the push is told to skip (LEFTHOOK_EXCLUDE) is green on
\* the pushed commit, the ones scoped out by its diff included.
SkippedJobsGreen ==
  \A l \in Landing : pc[l] \in {"push", "dryRun"} =>
    \A g \in ExcludedJobs(passed[l], scopedOut[l]) \ Unbound(l) : Green(g, sha[l])

\* The target branch moves only forward and only to commits with every gate
\* green, whichever pushes are lost, late, refused or overtaken.
Target == INSTANCE LandTarget
ImplementsTarget == Target!Spec

\* Exit 0 of a landing that is no dry run means that the remote has the commit.
SuccessMeansLanded ==
  \A l \in Landing : code[l] = "ok" /\ l \notin DryRun => sha[l] \subseteq main

\* A dry run, and a landing that reports a busy machine or a gate that failed in an
\* attempt that had not pushed, has put nothing of its ref on the target branch and
\* never will (no two refs of the instances share a change).
FailureMeansNotLanded ==
  \A l \in Landing :
    (\/ l \in DryRun \/ code[l] = "busy"
     \/ code[l] = "gate" /\ result[l] = "none") => Ref[l] \cap main = {}

\* Retries are bounded: every landing ends, however often the target moves,
\* pushes are cut off or the lease is taken.
Termination == <>(\A l \in Landing : pc[l] \in {"done", "dead"})
=============================================================================
