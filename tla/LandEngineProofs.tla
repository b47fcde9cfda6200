--------------------------- MODULE LandEngineProofs ---------------------------
(***************************************************************************)
(* Theorems about the landing engine, for every set of landings, changes,  *)
(* gates and scopes.  Those about gates assume what the configuration has  *)
(* to get right: an honest scope map, and a bootstrap that applies         *)
(* wherever a gate that runs installed packages applies.  LandEngine_stale *)
(* shows that the second assumption is needed.  Those about what the       *)
(* branch rests on assume besides that landings with --skip-bootstrap are  *)
(* dry runs.  Those about exit codes do not depend on the configuration.   *)
(***************************************************************************)
EXTENDS LandEngine, TLAPS

-----------------------------------------------------------------------------
(* Scopes. *)

\* A gate that a delta does not select has the same verdict on both commits.
LEMMA Unaffected ==
  ASSUME HonestScopes, NEW a \in Tree, NEW b \in Tree, NEW g \in Gate,
         Green(g, a),
         Diff(a, b) = {} \/ ~GateApplies(When[g], Classify(Diff(a, b)))
  PROVE  Green(g, b)
<1> SUFFICES ASSUME NEW x \in Defect, x.gate = g, x.changes \subseteq b PROVE FALSE
  BY DEF Green
<1>1. PICK d \in x.changes : d \notin a
  BY DEF Green
<1>2. d \in b \ a /\ FilesOf[d] \subseteq Diff(a, b)
  BY <1>1 DEF Diff
<1>3. Touches(d, g)
  BY <1>1 DEF HonestScopes
<1>4. PICK f \in FilesOf[d] : \/ f \in FullFiles \/ ScopesOf[f] = {}
                              \/ When[g] = Always \/ When[g] \cap ScopesOf[f] # {}
  BY <1>3 DEF Touches
<1>5. f \in Diff(a, b)
  BY <1>2, <1>4
<1> DEFINE files == Diff(a, b)
<1>6. files # Unreadable
  <2>1. files \in SUBSET File
    BY EngineAssumption DEF Diff, Tree
  <2> QED
    BY <2>1, ScopeAssumption DEF ScopesParsed
<1>7. /\ Classify(files).full = SelectsAll(files)
      /\ Classify(files).scopes = UNION {ScopesOf[h] : h \in files \ FullFiles}
  BY <1>6 DEF Classify
<1>8. CASE f \in FullFiles \/ ScopesOf[f] = {}
  <2>1. SelectsAll(files)
    BY <1>5, <1>8 DEF SelectsAll
  <2> QED
    BY <1>5, <1>7, <2>1 DEF GateApplies
<1>9. CASE When[g] = Always
  BY <1>5, <1>9 DEF GateApplies
<1>10. CASE f \notin FullFiles /\ When[g] \cap ScopesOf[f] # {}
  <2>1. ScopesOf[f] \subseteq Classify(files).scopes
    BY <1>5, <1>7, <1>10
  <2> QED
    BY <1>5, <1>10, <2>1 DEF GateApplies
<1> QED
  BY <1>4, <1>8, <1>9, <1>10

\* Where bootstrap does not apply, no gate applies that runs its packages.
LEMMA Covered ==
  ASSUME BootstrapCovers, NEW c, NEW g \in NeedsDeps, ~GateApplies(BootWhen, c)
  PROVE  g \in ScopedOut(c)
  BY EngineAssumption DEF OptionsParsed, BootstrapCovers, GateApplies, ScopedOut, Selected

LEMMA AppliedTree == ASSUME NEW l \in Landing, NEW b \in Tree
                     PROVE  Applied(l, b) \subseteq Tree
  BY EngineAssumption DEF Applied, Tree
-----------------------------------------------------------------------------
(* Types. *)

LEMMA EngineTypeStep == TypeOK /\ [Next]_vars => TypeOK'
<1> SUFFICES ASSUME TypeOK, [Next]_vars PROVE TypeOK'
  OBVIOUS
<1> USE EngineAssumption DEF OptionsParsed, TypeOK, Tree, remote, worktree, evidence, Goto, Finish, Stay, MaxPushes
<1>1. ASSUME NEW l \in Landing, Step(l) PROVE TypeOK'
  <2>1. CASE Preflight(l)
    BY <2>1 DEF Preflight
  <2>2. CASE Acquire(l)
    BY <2>2 DEF Acquire
  <2>3. CASE WaitForLoad(l)
    BY <2>3 DEF WaitForLoad
  <2>4. CASE Fetch(l)
    BY <2>4 DEF Fetch
  <2>5. CASE Apply(l)
    <3>1. deps' \in {Absent} \cup Tree /\ dirty' \in BOOLEAN
      BY <2>5 DEF Apply
    <3>2. ASSUME NEW s \in Applied(l, tracking), NEW delta, NEW diff, Adopt(l, s, delta, diff)
          PROVE  TypeOK'
      <4>1. s \in Tree
        BY AppliedTree
      <4>2. Inherited(passed[l], delta) \subseteq Gate /\ ScopedOut(Classify(diff)) \subseteq Gate
        BY DEF Inherited, ScopedOut
      <4> QED
        BY <2>5, <3>1, <3>2, <4>1, <4>2 DEF Apply, Adopt
    <3> QED
      BY <2>5, <3>1, <3>2 DEF Apply
  <2>6. CASE Bootstrap(l)
    BY <2>6 DEF Bootstrap
  <2>7. ASSUME NEW g \in Gate, GatePasses(l, g) PROVE TypeOK'
    BY <2>7 DEF GatePasses
  <2>8. CASE GateFails(l)
    BY <2>8 DEF GateFails
  <2>9. CASE Checks(l)
    BY <2>9 DEF Checks
  <2>10. CASE Refetch(l)
    BY <2>10 DEF Refetch, Retry
  <2>11. CASE DryRunHooks(l)
    BY <2>11 DEF DryRunHooks
  <2>12. CASE Push(l)
    BY <2>12 DEF Push
  <2>13. CASE Confirm(l)
    BY <2>13 DEF Confirm, Retry
  <2>14. CASE Release(l)
    BY <2>14 DEF Release
  <2> QED
    BY <1>1, <2>1, <2>2, <2>3, <2>4, <2>5, <2>6, <2>7, <2>8, <2>9, <2>10, <2>11, <2>12,
       <2>13, <2>14 DEF Step
<1>2. ASSUME NEW l \in Landing, Crash(l) PROVE TypeOK'
  BY <1>2 DEF Crash
<1>3. CASE Orphan \/ LatePush
  BY <1>3 DEF Orphan, LatePush
<1>4. CASE OtherMachine
  BY <1>4 DEF OtherMachine
<1>5. CASE UNCHANGED vars
  BY <1>5 DEF vars
<1> QED
  BY <1>1, <1>2, <1>3, <1>4, <1>5 DEF Next

-----------------------------------------------------------------------------
(* The inductive invariant. *)

Leased == {"load", "fetch", "apply", "bootstrap", "gates"} \cup Validated

\* Between acquireLock and release a landing has the lease, alone.
LeaseInv == \A l \in Landing : pc[l] \in Leased => holder = {l}

\* Only landings that are no dry runs push.
DryInv == \A l \in Landing : pc[l] \in {"push", "confirm"} => l \notin DryRun

\* Every commit a push has carried or may still carry is sound, if nobody pushes who
\* has skipped the bootstrap.
RemoteInv ==
  SkippersOnlyTry => Sound(main) /\ Sound(tracking) /\ \A c \in inflight : Sound(c)

\* Evidence is sound, except that a gate that ran after the tree was modified
\* may have passed for nothing until assertUnchanged has looked.
PassedInv ==
  \A l \in Landing :
    /\ pc[l] \in {"preflight", "lock", "load"} => passed[l] = {}
    /\ pc[l] \in {"fetch", "apply"} \cup Validated =>
         \A g \in passed[l] \ Unbound(l) : Green(g, sha[l])
    /\ pc[l] \in {"bootstrap", "gates"} =>
         dirty \/ \A g \in passed[l] \ Unbound(l) : Green(g, sha[l])

Planned == {"bootstrap", "gates"} \cup Validated

\* A scoped-out gate is as green on the commit as on its base.
ScopedInv ==
  SkippersOnlyTry =>
    \A l \in Landing : pc[l] \in Planned => \A g \in scopedOut[l] : Green(g, sha[l])

\* The gates that run installed packages run the packages of the commit, unless the
\* landing skips the bootstrap.
DepsInv == \A l \in Landing \ SkipBootstrap :
             pc[l] = "gates" => \A g \in NeedsDeps \ scopedOut[l] : deps = sha[l]

\* A validated commit has a verdict for every gate.
CoverInv == \A l \in Landing : pc[l] \in Validated => Gate = passed[l] \cup scopedOut[l]

EngineInv == TypeOK /\ LeaseInv /\ DryInv /\ RemoteInv /\ PassedInv /\ ScopedInv
             /\ DepsInv /\ CoverInv

\* What is pushed has a true verdict for every gate.
LEMMA PushedSound ==
  ASSUME SkippersOnlyTry, EngineInv, NEW l \in Landing, pc[l] = "push"
  PROVE  Sound(sha[l])
<1>1. Unbound(l) = {}
  BY DEF SkippersOnlyTry, EngineInv, DryInv, Unbound
<1> QED
  BY <1>1 DEF EngineInv, CoverInv, PassedInv, ScopedInv, Planned, Validated, Sound

\* What a gate that is still to run sees is the commit.
LEMMA SeesCommit ==
  ASSUME EngineInv, NEW l \in Landing, pc[l] = "gates", NEW g \in Todo(l) \ Unbound(l)
  PROVE  Seen(l, g) = sha[l]
<1>1. CASE g \in NeedsDeps
  <2>1. deps = sha[l]
    BY <1>1 DEF EngineInv, DepsInv, Todo, Unbound
  <2> QED
    BY <1>1, <2>1 DEF Seen
<1>2. CASE g \notin NeedsDeps
  BY <1>2 DEF Seen
<1> QED
  BY <1>1, <1>2

\* The steps of a landing other than applying its ref and running a gate.
LEMMA PlainStep ==
  ASSUME EngineInv, NEW l \in Landing,
         Step(l), ~Apply(l), \A g \in Gate : ~GatePasses(l, g)
  PROVE  LeaseInv' /\ RemoteInv' /\ PassedInv' /\ ScopedInv' /\ DepsInv' /\ CoverInv'
<1> USE DEF EngineInv, TypeOK, Goto, Finish, Stay, Leased, Validated
<1>1. CASE Preflight(l)
  <2>1. LeaseInv'
    BY <1>1 DEF Preflight, LeaseInv
  <2>2. RemoteInv'
    BY <1>1 DEF Preflight, RemoteInv, remote
  <2>3. PassedInv'
    BY <1>1 DEF Preflight, PassedInv, evidence, worktree
  <2>4. ScopedInv'
    BY <1>1 DEF Preflight, ScopedInv, Planned, evidence
  <2>5. DepsInv'
    BY <1>1 DEF Preflight, DepsInv, LeaseInv, evidence, worktree
  <2>6. CoverInv'
    BY <1>1 DEF Preflight, CoverInv, evidence
  <2> QED
    BY <2>1, <2>2, <2>3, <2>4, <2>5, <2>6
<1>2. CASE Acquire(l)
  <2>1. LeaseInv'
    BY <1>2 DEF Acquire, LeaseInv
  <2>2. RemoteInv'
    BY <1>2 DEF Acquire, RemoteInv, remote
  <2>3. PassedInv'
    BY <1>2 DEF Acquire, PassedInv, evidence, worktree
  <2>4. ScopedInv'
    BY <1>2 DEF Acquire, ScopedInv, Planned, evidence
  <2>5. DepsInv'
    BY <1>2 DEF Acquire, DepsInv, LeaseInv, evidence, worktree
  <2>6. CoverInv'
    BY <1>2 DEF Acquire, CoverInv, evidence
  <2> QED
    BY <2>1, <2>2, <2>3, <2>4, <2>5, <2>6
<1>3. CASE WaitForLoad(l)
  <2>1. LeaseInv'
    BY <1>3 DEF WaitForLoad, LeaseInv
  <2>2. RemoteInv'
    BY <1>3 DEF WaitForLoad, RemoteInv, remote
  <2>3. PassedInv'
    BY <1>3 DEF WaitForLoad, PassedInv, evidence, worktree
  <2>4. ScopedInv'
    BY <1>3 DEF WaitForLoad, ScopedInv, Planned, evidence
  <2>5. DepsInv'
    BY <1>3 DEF WaitForLoad, DepsInv, LeaseInv, evidence, worktree
  <2>6. CoverInv'
    BY <1>3 DEF WaitForLoad, CoverInv, evidence
  <2> QED
    BY <2>1, <2>2, <2>3, <2>4, <2>5, <2>6
<1>4. CASE Fetch(l)
  <2>1. LeaseInv'
    BY <1>4 DEF Fetch, LeaseInv
  <2>2. RemoteInv'
    BY <1>4 DEF Fetch, RemoteInv, remote
  <2>3. PassedInv'
    BY <1>4 DEF Fetch, PassedInv, evidence, worktree
  <2>4. ScopedInv'
    BY <1>4 DEF Fetch, ScopedInv, Planned, evidence
  <2>5. DepsInv'
    BY <1>4 DEF Fetch, DepsInv, LeaseInv, evidence, worktree
  <2>6. CoverInv'
    BY <1>4 DEF Fetch, CoverInv, evidence
  <2> QED
    BY <2>1, <2>2, <2>3, <2>4, <2>5, <2>6
<1>5. CASE Bootstrap(l)
  <2>1. LeaseInv'
    BY <1>5 DEF Bootstrap, LeaseInv
  <2>2. RemoteInv'
    BY <1>5 DEF Bootstrap, RemoteInv, remote
  <2>3. PassedInv'
    BY <1>5 DEF Bootstrap, PassedInv, evidence, worktree
  <2>4. ScopedInv'
    BY <1>5 DEF Bootstrap, ScopedInv, Planned, evidence
  <2>5. DepsInv'
    <3>1. ASSUME NEW k \in Landing, pc'[k] = "gates" PROVE k = l /\ deps' = sha'[k]
      <4>1. CASE k = l
        BY <1>5, <3>1, <4>1 DEF Bootstrap, TypeOK, Goto, Finish, evidence
      <4>2. CASE k # l
        <5>1. pc[k] = "gates" /\ pc[l] = "bootstrap"
          BY <1>5, <3>1, <4>2 DEF Bootstrap, TypeOK, Goto, Finish
        <5> QED
          BY <5>1, <4>2 DEF LeaseInv, Leased
      <4> QED
        BY <4>1, <4>2
    <3> QED
      BY <3>1 DEF DepsInv
  <2>6. CoverInv'
    BY <1>5 DEF Bootstrap, CoverInv, evidence
  <2> QED
    BY <2>1, <2>2, <2>3, <2>4, <2>5, <2>6
<1>6. CASE GateFails(l)
  <2>1. LeaseInv'
    BY <1>6 DEF GateFails, LeaseInv
  <2>2. RemoteInv'
    BY <1>6 DEF GateFails, RemoteInv, remote
  <2>3. PassedInv'
    BY <1>6 DEF GateFails, PassedInv, evidence, worktree
  <2>4. ScopedInv'
    BY <1>6 DEF GateFails, ScopedInv, Planned, evidence
  <2>5. DepsInv'
    BY <1>6 DEF GateFails, DepsInv, LeaseInv, evidence, worktree
  <2>6. CoverInv'
    BY <1>6 DEF GateFails, CoverInv, evidence
  <2> QED
    BY <2>1, <2>2, <2>3, <2>4, <2>5, <2>6
<1>7. CASE Checks(l)
  <2>1. LeaseInv'
    BY <1>7 DEF Checks, LeaseInv
  <2>2. RemoteInv'
    BY <1>7 DEF Checks, RemoteInv, remote
  <2>3. PassedInv'
    BY <1>7 DEF Checks, PassedInv, evidence, worktree
  <2>4. ScopedInv'
    BY <1>7 DEF Checks, ScopedInv, Planned, evidence
  <2>5. DepsInv'
    BY <1>7 DEF Checks, DepsInv, LeaseInv, evidence, worktree
  <2>6. CoverInv'
    BY <1>7 DEF Checks, CoverInv, evidence, Todo
  <2> QED
    BY <2>1, <2>2, <2>3, <2>4, <2>5, <2>6
<1>8. CASE Refetch(l)
  <2>1. LeaseInv'
    BY <1>8 DEF Refetch, Retry, LeaseInv
  <2>2. RemoteInv'
    BY <1>8 DEF Refetch, RemoteInv, remote
  <2>3. PassedInv'
    BY <1>8 DEF Refetch, Retry, PassedInv, evidence, worktree
  <2>4. ScopedInv'
    BY <1>8 DEF Refetch, Retry, ScopedInv, Planned, evidence
  <2>5. DepsInv'
    BY <1>8 DEF Refetch, Retry, DepsInv, LeaseInv, evidence, worktree
  <2>6. CoverInv'
    BY <1>8 DEF Refetch, Retry, CoverInv, evidence
  <2> QED
    BY <2>1, <2>2, <2>3, <2>4, <2>5, <2>6
<1>9. CASE DryRunHooks(l)
  <2>1. LeaseInv'
    BY <1>9 DEF DryRunHooks, LeaseInv
  <2>2. RemoteInv'
    BY <1>9 DEF DryRunHooks, RemoteInv, remote
  <2>3. PassedInv'
    BY <1>9 DEF DryRunHooks, PassedInv, evidence, worktree
  <2>4. ScopedInv'
    BY <1>9 DEF DryRunHooks, ScopedInv, Planned, evidence
  <2>5. DepsInv'
    BY <1>9 DEF DryRunHooks, DepsInv, LeaseInv, evidence, worktree
  <2>6. CoverInv'
    BY <1>9 DEF DryRunHooks, CoverInv, evidence
  <2> QED
    BY <2>1, <2>2, <2>3, <2>4, <2>5, <2>6
<1>10. CASE Push(l)
  <2>1. LeaseInv'
    BY <1>10 DEF Push, LeaseInv
  <2>2. RemoteInv'
    BY <1>10, PushedSound DEF Push, RemoteInv, remote
  <2>3. PassedInv'
    BY <1>10 DEF Push, PassedInv, evidence, worktree
  <2>4. ScopedInv'
    BY <1>10 DEF Push, ScopedInv, Planned, evidence
  <2>5. DepsInv'
    BY <1>10 DEF Push, DepsInv, LeaseInv, evidence, worktree
  <2>6. CoverInv'
    BY <1>10 DEF Push, CoverInv, evidence
  <2> QED
    BY <2>1, <2>2, <2>3, <2>4, <2>5, <2>6
<1>11. CASE Confirm(l)
  <2>1. LeaseInv'
    BY <1>11 DEF Confirm, Retry, LeaseInv
  <2>2. RemoteInv'
    BY <1>11 DEF Confirm, RemoteInv, remote
  <2>3. PassedInv'
    BY <1>11 DEF Confirm, Retry, PassedInv, evidence, worktree
  <2>4. ScopedInv'
    BY <1>11 DEF Confirm, Retry, ScopedInv, Planned, evidence
  <2>5. DepsInv'
    BY <1>11 DEF Confirm, Retry, DepsInv, LeaseInv, evidence, worktree
  <2>6. CoverInv'
    BY <1>11 DEF Confirm, Retry, CoverInv, evidence
  <2> QED
    BY <2>1, <2>2, <2>3, <2>4, <2>5, <2>6
<1>12. CASE Release(l)
  <2>1. LeaseInv'
    BY <1>12 DEF Release, LeaseInv
  <2>2. RemoteInv'
    BY <1>12 DEF Release, RemoteInv, remote
  <2>3. PassedInv'
    BY <1>12 DEF Release, PassedInv, evidence, worktree
  <2>4. ScopedInv'
    BY <1>12 DEF Release, ScopedInv, Planned, evidence
  <2>5. DepsInv'
    BY <1>12 DEF Release, DepsInv, LeaseInv, evidence, worktree
  <2>6. CoverInv'
    BY <1>12 DEF Release, CoverInv, evidence
  <2> QED
    BY <2>1, <2>2, <2>3, <2>4, <2>5, <2>6
<1> QED
  BY <1>1, <1>2, <1>3, <1>4, <1>5, <1>6, <1>7, <1>8, <1>9, <1>10, <1>11, <1>12 DEF Step

\* Applying the ref: what the new commit inherits and what is scoped out is
\* green on it, and the packages are its own if no bootstrap is to come.
LEMMA AdoptStep ==
  ASSUME HonestScopes, BootstrapCovers, EngineInv, NEW l \in Landing, Apply(l),
         NEW s \in Applied(l, tracking),
         NEW delta \in ChangedFiles(sha[l], s), NEW diff \in ChangedFiles(tracking, s),
         Adopt(l, s, delta, diff)
  PROVE  PassedInv' /\ ScopedInv' /\ DepsInv'
<1> USE DEF EngineInv, TypeOK, Goto, Finish, Stay
<1> DEFINE c == Classify(diff)
<1>1. s \in Tree /\ pc[l] = "apply" /\ sha[l] \in Tree /\ tracking \in Tree
  BY AppliedTree DEF Apply
<1>2. \A k \in Landing \ {l} : pc'[k] = pc[k] /\ passed'[k] = passed[k] /\ sha'[k] = sha[k]
                              /\ scopedOut'[k] = scopedOut[k] /\ pc[k] \notin Leased
  BY <1>1 DEF Adopt, LeaseInv, Leased
<1>3. /\ sha'[l] = s /\ scopedOut'[l] = ScopedOut(c)
      /\ passed'[l] = {} \/ passed'[l] = Inherited(passed[l], delta)
      /\ pc'[l] \in {"bootstrap", "gates"}
      /\ pc'[l] = "gates" => l \in SkipBootstrap \/ ~GateApplies(BootWhen, c)
  BY DEF Adopt
<1>4. \A g \in passed'[l] \ Unbound(l) : Green(g, s)
  <2> SUFFICES ASSUME NEW g \in Inherited(passed[l], delta) \ Unbound(l) PROVE Green(g, s)
    BY <1>3
  <2>1. g \in passed[l] /\ g \in Gate /\ Green(g, sha[l])
    BY <1>1 DEF Inherited, PassedInv
  <2>2. delta = Diff(sha[l], s) /\ (delta = {} \/ ~GateApplies(When[g], Classify(delta)))
    BY DEF Inherited, ChangedFiles
  <2> QED
    BY <1>1, <2>1, <2>2, Unaffected
<1>5. SkippersOnlyTry => \A g \in scopedOut'[l] : Green(g, s)
  <2> SUFFICES ASSUME SkippersOnlyTry, NEW g \in ScopedOut(c) PROVE Green(g, s)
    BY <1>3
  <2>1. g \in Gate /\ Green(g, tracking) /\ ~GateApplies(When[g], c)
    BY DEF ScopedOut, Selected, RemoteInv, Sound
  <2>2. diff # Unreadable
    BY <2>1 DEF GateApplies, Classify, SelectsAll
  <2>3. diff = Diff(tracking, s)
    BY <2>2 DEF ChangedFiles
  <2> QED
    BY <1>1, <2>1, <2>3, Unaffected
<1>6. PassedInv'
  BY <1>2, <1>3, <1>4 DEF PassedInv, Leased, Validated
<1>7. ScopedInv'
  BY <1>2, <1>3, <1>5 DEF ScopedInv, Leased, Validated, Planned
<1>8. DepsInv'
  <2>1. pc'[l] = "gates" => l \in SkipBootstrap \/ NeedsDeps \ scopedOut'[l] = {}
    BY <1>3, Covered
  <2> QED
    BY <1>2, <2>1 DEF DepsInv, Leased
<1> QED
  BY <1>6, <1>7, <1>8

LEMMA ApplyStep ==
  ASSUME HonestScopes, BootstrapCovers, EngineInv, NEW l \in Landing, Apply(l)
  PROVE  LeaseInv' /\ RemoteInv' /\ PassedInv' /\ ScopedInv' /\ DepsInv' /\ CoverInv'
<1> USE DEF EngineInv, TypeOK, Goto, Finish, Stay
<1>1. RemoteInv'
  BY DEF Apply, remote, RemoteInv
<1>2. ASSUME NEW s \in Applied(l, tracking),
             NEW delta \in ChangedFiles(sha[l], s), NEW diff \in ChangedFiles(tracking, s),
             Adopt(l, s, delta, diff)
      PROVE  LeaseInv' /\ PassedInv' /\ ScopedInv' /\ DepsInv' /\ CoverInv'
  <2>1. PassedInv' /\ ScopedInv' /\ DepsInv'
    BY <1>2, AdoptStep
  <2>2. LeaseInv' /\ CoverInv'
    BY <1>2 DEF Apply, Adopt, LeaseInv, Leased, Validated, CoverInv
  <2> QED
    BY <2>1, <2>2
<1>3. ASSUME Finish(l, "gate"), UNCHANGED evidence
      PROVE  LeaseInv' /\ PassedInv' /\ ScopedInv' /\ DepsInv' /\ CoverInv'
  <2>1. \A k \in Landing \ {l} : pc'[k] = pc[k] /\ pc[k] \notin Leased
    BY <1>3 DEF Apply, LeaseInv, Leased
  <2>2. pc'[l] = "release"
    BY <1>3
  <2>3. LeaseInv'
    BY <2>1, <2>2 DEF LeaseInv, Leased, Validated
  <2>4. PassedInv'
    BY <1>3, <2>1, <2>2 DEF PassedInv, Leased, Validated, evidence
  <2>5. ScopedInv' /\ CoverInv'
    BY <1>3, <2>1, <2>2 DEF ScopedInv, CoverInv, Planned, Leased, Validated, evidence
  <2>6. DepsInv'
    BY <2>1, <2>2 DEF DepsInv, Leased
  <2> QED
    BY <2>3, <2>4, <2>5, <2>6
<1> QED
  BY <1>1, <1>2, <1>3 DEF Apply

\* A gate that runs on the clean worktree sees the commit, so its verdict is
\* the commit's.
LEMMA GatePassesStep ==
  ASSUME EngineInv, NEW l \in Landing, NEW g \in Gate, GatePasses(l, g)
  PROVE  LeaseInv' /\ RemoteInv' /\ PassedInv' /\ ScopedInv' /\ DepsInv' /\ CoverInv'
<1> USE DEF EngineInv, TypeOK
<1>1. LeaseInv' /\ RemoteInv' /\ ScopedInv' /\ DepsInv' /\ CoverInv'
  BY DEF GatePasses, LeaseInv, RemoteInv, ScopedInv, DepsInv, CoverInv, remote, Planned, Validated
<1>2. pc[l] = "gates" /\ pc' = pc /\ sha' = sha /\ g \in Todo(l) /\ (dirty => dirty')
  BY DEF GatePasses
<1>3. g \in Unbound(l) \/ dirty \/ Green(g, sha[l])
  BY <1>2, SeesCommit DEF GatePasses
<1>4. /\ passed'[l] = passed[l] \cup {g}
      /\ \A k \in Landing \ {l} : passed'[k] = passed[k]
  BY DEF GatePasses
<1>5. \A k \in Landing \ {l} : pc[k] \notin Leased
  BY <1>2 DEF LeaseInv, Leased
<1>6. PassedInv'
  <2> SUFFICES ASSUME NEW k \in Landing
               PROVE  /\ pc'[k] \in {"preflight", "lock", "load"} => passed'[k] = {}
                      /\ pc'[k] \in {"fetch", "apply"} \cup Validated =>
                           \A h \in passed'[k] \ Unbound(k) : Green(h, sha'[k])
                      /\ pc'[k] \in {"bootstrap", "gates"} =>
                           dirty' \/ \A h \in passed'[k] \ Unbound(k) : Green(h, sha'[k])
    BY <1>2 DEF PassedInv, Green
  <2>1. CASE k = l
    BY <1>2, <1>3, <1>4, <2>1 DEF PassedInv, Validated
  <2>2. CASE k # l
    BY <1>2, <1>4, <1>5, <2>2 DEF PassedInv, Leased
  <2> QED
    BY <2>1, <2>2
<1> QED
  BY <1>1, <1>6

\* Death, the writes of orphaned gates, late pushes and other machines.
LEMMA WorldStep ==
  ASSUME EngineInv,
         (\E l \in Landing : Crash(l)) \/ Orphan \/ LatePush \/ OtherMachine \/ UNCHANGED vars
  PROVE  LeaseInv' /\ RemoteInv' /\ PassedInv' /\ ScopedInv' /\ DepsInv' /\ CoverInv'
<1> USE DEF EngineInv, TypeOK, Goto, worktree, evidence, remote
<1>1. ASSUME NEW l \in Landing, Crash(l)
      PROVE  LeaseInv' /\ RemoteInv' /\ PassedInv' /\ ScopedInv' /\ DepsInv' /\ CoverInv'
  <2>1. LeaseInv'
    BY <1>1 DEF Crash, LeaseInv, Leased, Validated
  <2>2. RemoteInv'
    BY <1>1, PushedSound DEF Crash, RemoteInv
  <2>3. PassedInv' /\ ScopedInv' /\ DepsInv' /\ CoverInv'
    BY <1>1 DEF Crash, PassedInv, ScopedInv, DepsInv, CoverInv, Planned, Validated
  <2> QED
    BY <2>1, <2>2, <2>3
<1>2. CASE Orphan
  BY <1>2 DEF Orphan, LeaseInv, RemoteInv, PassedInv, ScopedInv, DepsInv, CoverInv
<1>3. CASE LatePush \/ OtherMachine
  BY <1>3 DEF LatePush, OtherMachine, LeaseInv, RemoteInv, PassedInv, ScopedInv, DepsInv, CoverInv
<1>4. CASE UNCHANGED vars
  <2>1. LeaseInv' /\ RemoteInv' /\ CoverInv'
    BY <1>4 DEF vars, LeaseInv, RemoteInv, CoverInv
  <2>2. PassedInv' /\ ScopedInv' /\ DepsInv'
    BY <1>4 DEF vars, PassedInv, ScopedInv, DepsInv
  <2> QED
    BY <2>1, <2>2
<1> QED
  BY <1>1, <1>2, <1>3, <1>4

LEMMA EngineInit == Init => EngineInv
<1> SUFFICES ASSUME Init PROVE EngineInv
  OBVIOUS
<1>1. TypeOK
  <2>1. 1 \in 1..MaxAttempts /\ 0 \in 0..MaxPushes
    BY EngineAssumption DEF MaxPushes, OptionsParsed
  <2>2. attempt \in [Landing -> 1..MaxAttempts] /\ tries \in [Landing -> 0..MaxPushes]
    BY <2>1 DEF Init
  <2> QED
    BY <2>2 DEF Init, TypeOK, Tree
<1>2. Sound({})
  BY EngineAssumption DEF Sound, Green
<1> QED
  BY <1>1, <1>2 DEF Init, EngineInv, LeaseInv, DryInv, RemoteInv, PassedInv, ScopedInv,
     DepsInv, CoverInv, Leased, Planned, Validated

\* A dry run leaves refetch for its hooks, and pushes only follow refetch.
LEMMA DryStep == ASSUME TypeOK, DryInv, [Next]_vars PROVE DryInv'
<1> USE DEF TypeOK, DryInv, Goto, Finish, Stay
<1>1. ASSUME NEW l \in Landing, Step(l) PROVE DryInv'
  <2>1. CASE Preflight(l) \/ Acquire(l) \/ WaitForLoad(l) \/ Fetch(l)
    BY <2>1 DEF Preflight, Acquire, WaitForLoad, Fetch
  <2>2. CASE Apply(l)
    BY <2>2 DEF Apply, Adopt
  <2>3. CASE Bootstrap(l) \/ GateFails(l) \/ Checks(l) \/ \E g \in Gate : GatePasses(l, g)
    BY <2>3 DEF Bootstrap, GateFails, Checks, GatePasses
  <2>4. CASE Refetch(l)
    BY <2>4 DEF Refetch, Retry
  <2>5. CASE DryRunHooks(l) \/ Push(l) \/ Release(l)
    BY <2>5 DEF DryRunHooks, Push, Release
  <2>6. CASE Confirm(l)
    BY <2>6 DEF Confirm, Retry
  <2> QED
    BY <1>1, <2>1, <2>2, <2>3, <2>4, <2>5, <2>6 DEF Step
<1>2. ASSUME NEW l \in Landing, Crash(l) PROVE DryInv'
  BY <1>2 DEF Crash
<1>3. CASE Orphan \/ LatePush \/ OtherMachine \/ UNCHANGED vars
  BY <1>3 DEF Orphan, LatePush, OtherMachine, vars
<1> QED
  BY <1>1, <1>2, <1>3 DEF Next

LEMMA EngineStep ==
  ASSUME HonestScopes, BootstrapCovers, EngineInv, [Next]_vars
  PROVE  EngineInv'
<1>1. TypeOK' /\ DryInv'
  BY EngineTypeStep, DryStep DEF EngineInv
<1>2. ASSUME NEW l \in Landing, Step(l)
      PROVE  LeaseInv' /\ RemoteInv' /\ PassedInv' /\ ScopedInv' /\ DepsInv' /\ CoverInv'
  <2>1. CASE Apply(l)
    BY <2>1, ApplyStep
  <2>2. CASE \E g \in Gate : GatePasses(l, g)
    BY <2>2, GatePassesStep
  <2>3. CASE ~Apply(l) /\ \A g \in Gate : ~GatePasses(l, g)
    BY <1>2, <2>3, PlainStep
  <2> QED
    BY <2>1, <2>2, <2>3
<1>3. LeaseInv' /\ RemoteInv' /\ PassedInv' /\ ScopedInv' /\ DepsInv' /\ CoverInv'
  BY <1>2, WorldStep DEF Next
<1> QED
  BY <1>1, <1>3 DEF EngineInv

-----------------------------------------------------------------------------
(* Theorems. *)

\* Type correctness of the engine, whatever the configuration.
THEOREM EngineTypeCorrect == Spec => []TypeOK
<1>1. Init => TypeOK
  BY EngineInit DEF EngineInv
<1> QED
  BY <1>1, EngineTypeStep, PTL DEF Spec

LEMMA EngineInvariance == ASSUME HonestScopes, BootstrapCovers PROVE Spec => []EngineInv
<1>1. EngineInv /\ [Next]_vars => EngineInv'
  BY EngineStep
<1> QED
  BY <1>1, EngineInit, PTL DEF Spec

\* A gate counted as passed on a validated commit is green on that commit,
\* inherited evidence included: assertUnchanged, inheritEvidence and
\* bootstrapIfNeeded together bind evidence to a tree.  A landing that skips the
\* bootstrap loses this for its own gates that run installed packages, and for
\* nobody else's.
THEOREM EvidenceIsSound ==
  ASSUME HonestScopes, BootstrapCovers PROVE Spec => []EvidenceSound
<1>1. EngineInv => EvidenceSound
  BY DEF EngineInv, PassedInv, EvidenceSound
<1> QED
  BY <1>1, EngineInvariance, PTL

\* Every pre-push job the push may skip is green on the pushed commit.  That of a
\* scoped-out job rests on the branch, so on what others have pushed.
THEOREM SkippedJobsAreGreen ==
  ASSUME HonestScopes, BootstrapCovers, SkippersOnlyTry PROVE Spec => []SkippedJobsGreen
<1>1. EngineInv => SkippedJobsGreen
  BY SkippersOnlyTry DEF EngineInv, PassedInv, ScopedInv, Planned, Validated, SkippedJobsGreen, ExcludedJobs
<1> QED
  BY <1>1, EngineInvariance, PTL

\* However many landings and attempts, whatever is lost, late, refused or
\* crashed: the target branch only moves from a sound commit to a larger one, if only
\* dry runs skip the bootstrap.
THEOREM EngineImplementsTarget ==
  ASSUME HonestScopes, BootstrapCovers, SkippersOnlyTry PROVE Spec => ImplementsTarget
<1>1. Init => Target!Init
  BY DEF Init, Target!Init
<1>2. EngineInv /\ [Next]_vars => [Target!Advance]_main
  <2> SUFFICES ASSUME EngineInv, [Next]_vars, main' # main PROVE Target!Advance
    OBVIOUS
  <2>1. ASSUME NEW l \in Landing, Step(l) PROVE Push(l)
    BY <2>1 DEF Step, Preflight, Acquire, WaitForLoad, Fetch, Apply, Bootstrap, GatePasses,
       GateFails, Checks, Refetch, DryRunHooks, Confirm, Release, remote
  <2>2. ASSUME NEW l \in Landing, Push(l) PROVE Target!Advance
    <3>1. main' = sha[l] /\ main \subseteq sha[l]
      BY <2>2 DEF Push, remote
    <3>2. sha[l] \in SUBSET Change /\ Sound(sha[l])
      BY <2>2, PushedSound DEF Push, EngineInv, TypeOK, Tree
    <3> QED
      BY <3>1, <3>2 DEF Target!Advance
  <2>3. CASE LatePush
    BY <2>3 DEF LatePush, EngineInv, TypeOK, Tree, RemoteInv, Target!Advance
  <2>4. CASE OtherMachine
    BY <2>4, EngineAssumption DEF OtherMachine, EngineInv, TypeOK, Tree, Target!Advance
  <2>5. ASSUME NEW l \in Landing, Crash(l) PROVE FALSE
    BY <2>5 DEF Crash
  <2> QED
    BY <2>1, <2>2, <2>3, <2>4, <2>5 DEF Next, Orphan, remote, vars
<1> QED
  BY <1>1, <1>2, EngineInvariance, PTL DEF Spec, Target!Spec, ImplementsTarget

-----------------------------------------------------------------------------
(* Exit codes tell the truth, for every set of landings and changes and whatever the    *)
(* configuration: what is said to have landed has, and what is said to have failed has  *)
(* not and never will, although pushes arrive late and other machines move the branch.  *)

\* A change is in one ref, or it is another machine's: FailureMeansNotLanded is
\* about what a landing has put on the branch, not about what others have.
DisjointRefs ==
  /\ \A k, l \in Landing : k # l => Ref[k] \cap Ref[l] = {}
  /\ \A l \in Landing : Ref[l] \cap Others = {}

-----------------------------------------------------------------------------
(* What exit codes rest on: the inductive invariant. *)

Over == {"release", "done", "dead"}
Pushing == {"push", "confirm"}

\* Exit codes are of landings that are over, dry runs never push, and what is confirmed
\* is a push of this attempt.
CodeInv ==
  \A l \in Landing : /\ pc[l] \notin Over => code[l] = "none"
                     /\ pc[l] = "confirm" => result[l] # "none"
                     /\ pc[l] \in Pushing => l \notin DryRun
                     /\ pc[l] = "dryRun" => l \in DryRun

\* What is known of the branch is no newer than it, and a commit holds what its base has
\* and its ref.
BaseInv ==
  /\ tracking \subseteq main
  /\ \A l \in Landing : base[l] \subseteq main /\ sha[l] \subseteq base[l] \cup Ref[l]

\* The landings that have not pushed in this attempt, or will never push again.
Unpushed(l) == \/ l \in DryRun \/ code[l] = "busy" \/ (code[l] = "gate" /\ result[l] = "none")
               \/ pc[l] \notin Pushing \cup Over

\* The branch has nothing of the ref, and the pushes of earlier attempts that are
\* still under way are no fast-forwards any more.
UnpushedInv ==
  \A l \in Landing : Unpushed(l) =>
    /\ Ref[l] \cap main = {}
    /\ \A c \in inflight : Ref[l] \cap c = {} \/ ~(main \subseteq c)

\* While a landing pushes, its ref gets to the branch with its commit or not at all.
PushingInv ==
  \A l \in Landing : pc[l] \in Pushing =>
    /\ Ref[l] \cap base[l] = {}
    /\ Ref[l] \cap main = {} \/ sha[l] \subseteq main
    /\ \A c \in inflight : Ref[l] \cap c \subseteq main \/ c = sha[l] \/ ~(main \subseteq c)

SuccessInv == TypeOK /\ CodeInv /\ SuccessMeansLanded

OutcomeInv == SuccessInv /\ BaseInv /\ UnpushedInv /\ PushingInv

LEMMA OutcomeInit == Init => OutcomeInv
<1> SUFFICES ASSUME Init PROVE OutcomeInv
  OBVIOUS
<1>1. TypeOK
  BY EngineInit DEF EngineInv
<1>2. UnpushedInv /\ PushingInv
  BY DEF Init, UnpushedInv, PushingInv, Pushing
<1>3. CodeInv /\ BaseInv /\ SuccessMeansLanded
  BY DEF Init, CodeInv, BaseInv, SuccessMeansLanded, Pushing
<1> QED
  BY <1>1, <1>2, <1>3 DEF OutcomeInv, SuccessInv

-----------------------------------------------------------------------------
(* What the steps do to exit codes. *)

\* A landing's step that leaves the remote and the evidence alone: where it may lead.
Quiet(l) ==
  /\ UNCHANGED <<remote, base, sha>> /\ tracking' \in {tracking, main}
  /\ \A k \in Landing \ {l} : pc'[k] = pc[k] /\ code'[k] = code[k] /\ result'[k] = result[k]
  /\ pc' = [pc EXCEPT ![l] = pc'[l]] /\ code' = [code EXCEPT ![l] = code'[l]]
  /\ pc'[l] # "confirm"
  /\ pc'[l] \notin Over => code'[l] = "none"
  /\ pc'[l] \in Pushing => l \notin DryRun
  /\ pc'[l] = "dryRun" => l \in DryRun
  /\ code'[l] = "ok" /\ l \notin DryRun => sha[l] \subseteq main
  /\ Unpushed(l)' => \/ Unpushed(l)
                     \/ pc[l] = "confirm" /\ ~(sha[l] \subseteq main) /\ main # base[l]
  /\ pc'[l] \in Pushing => pc[l] \in Pushing \/ (Unpushed(l) /\ main = base[l])

LEMMA QuietSteps ==
  ASSUME SuccessInv, NEW l \in Landing, Step(l), ~Apply(l), ~Push(l)
  PROVE  Quiet(l)
<1> USE DEF SuccessInv, CodeInv, TypeOK, Goto, Finish, Stay, Over, Pushing, Unpushed, Quiet,
            remote, evidence
<1>1. CASE Preflight(l)
  BY <1>1 DEF Preflight
<1>2. CASE Acquire(l)
  BY <1>2 DEF Acquire
<1>3. CASE WaitForLoad(l)
  BY <1>3 DEF WaitForLoad
<1>4. CASE Fetch(l)
  BY <1>4 DEF Fetch
<1>5. CASE Bootstrap(l)
  BY <1>5 DEF Bootstrap
<1>6. ASSUME NEW g \in Gate, GatePasses(l, g) PROVE Quiet(l)
  BY <1>6 DEF GatePasses
<1>7. CASE GateFails(l) \/ Checks(l)
  BY <1>7 DEF GateFails, Checks
<1>8. CASE Refetch(l)
  BY <1>8 DEF Refetch, Retry
<1>9. CASE DryRunHooks(l)
  BY <1>9 DEF DryRunHooks
<1>10. CASE Confirm(l)
  BY <1>10 DEF Confirm, Retry
<1>11. CASE Release(l)
  BY <1>11 DEF Release, SuccessMeansLanded
<1> QED
  BY <1>1, <1>2, <1>3, <1>4, <1>5, <1>6, <1>7, <1>8, <1>9, <1>10, <1>11 DEF Step

LEMMA QuietSuccess ==
  ASSUME SuccessInv, NEW l \in Landing, Quiet(l)
  PROVE  CodeInv' /\ SuccessMeansLanded'
<1>1. CodeInv'
  BY DEF Quiet, SuccessInv, CodeInv
<1>2. SuccessMeansLanded'
  BY DEF Quiet, SuccessInv, SuccessMeansLanded, remote
<1> QED
  BY <1>1, <1>2

LEMMA ApplyFacts ==
  ASSUME SuccessInv, NEW l \in Landing, Apply(l)
  PROVE  /\ pc[l] = "apply" /\ pc'[l] \in {"bootstrap", "gates", "release"}
         /\ pc' = [pc EXCEPT ![l] = pc'[l]]
         /\ code[l] = "none" /\ code'[l] \in {"none", "gate"}
         /\ code' = [code EXCEPT ![l] = code'[l]]
         /\ pc'[l] = "release" <=> code'[l] = "gate"
         /\ UNCHANGED <<remote, tracking, result>>
         /\ \A k \in Landing \ {l} : /\ base'[k] = base[k] /\ sha'[k] = sha[k]
                                     /\ pc'[k] = pc[k] /\ code'[k] = code[k]
         /\ CodeInv' /\ SuccessMeansLanded'
<1>1. /\ pc[l] = "apply" /\ pc'[l] \in {"bootstrap", "gates", "release"}
      /\ pc' = [pc EXCEPT ![l] = pc'[l]]
      /\ code'[l] \in {code[l], "gate"} /\ code' = [code EXCEPT ![l] = code'[l]]
      /\ pc'[l] # "release" => code'[l] = code[l]
      /\ pc'[l] = "release" => code'[l] = "gate"
      /\ UNCHANGED <<remote, tracking, result>>
  BY DEF Apply, Adopt, Goto, Finish, Stay, SuccessInv, TypeOK
<1>2. code[l] = "none"
  BY <1>1 DEF SuccessInv, CodeInv, Over
<1>3. \A k \in Landing \ {l} : /\ base'[k] = base[k] /\ sha'[k] = sha[k]
                               /\ pc'[k] = pc[k] /\ code'[k] = code[k]
  BY <1>1 DEF Apply, Adopt, evidence, SuccessInv, TypeOK
<1>4. CodeInv'
  BY <1>1, <1>2, <1>3 DEF SuccessInv, CodeInv, Over, Pushing, TypeOK
<1>5. SuccessMeansLanded'
  BY <1>1, <1>2, <1>3 DEF SuccessInv, SuccessMeansLanded, remote
<1> QED
  BY <1>1, <1>2, <1>3, <1>4, <1>5

\* The branch grows, and at most a push ends or a landing dies.
Growth ==
  /\ UNCHANGED <<tracking, base, sha, code>> /\ main \subseteq main'
  /\ \A k \in Landing : \/ pc'[k] \in {pc[k], "dead"} /\ result'[k] = result[k]
                        \/ pc[k] = "push" /\ pc'[k] = "confirm" /\ result'[k] # "none"

LEMMA GrowthSuccess ==
  ASSUME SuccessInv, Growth
  PROVE  CodeInv' /\ SuccessMeansLanded'
BY DEF Growth, SuccessInv, CodeInv, SuccessMeansLanded, Over, Pushing

LEMMA PushGrows == ASSUME SuccessInv, NEW l \in Landing, Push(l) PROVE Growth
<1>1. /\ pc[l] = "push" /\ pc' = [pc EXCEPT ![l] = "confirm"]
      /\ \E r \in {"ok", "transport", "rejected"} : result' = [result EXCEPT ![l] = r]
  BY DEF Push, Goto
<1>2. \A k \in Landing : \/ pc'[k] \in {pc[k], "dead"} /\ result'[k] = result[k]
                         \/ pc[k] = "push" /\ pc'[k] = "confirm" /\ result'[k] # "none"
  BY <1>1 DEF SuccessInv, TypeOK
<1> QED
  BY <1>2 DEF Push, Stay, evidence, remote, Growth

LEMMA WorldGrows ==
  ASSUME SuccessInv, \/ LatePush \/ OtherMachine \/ Orphan \/ UNCHANGED vars
                     \/ \E l \in Landing : Crash(l)
  PROVE  Growth
<1>1. CASE LatePush \/ OtherMachine \/ Orphan \/ UNCHANGED vars
  BY <1>1 DEF LatePush, OtherMachine, Orphan, vars, remote, evidence, Growth
<1>2. ASSUME NEW l \in Landing, Crash(l) PROVE Growth
  <2>1. /\ UNCHANGED <<main, tracking, base, sha, code, result>>
        /\ pc' = [pc EXCEPT ![l] = "dead"]
    BY <1>2 DEF Crash, Goto, evidence
  <2> QED
    BY <2>1 DEF Growth, SuccessInv, TypeOK
<1> QED
  BY <1>1, <1>2

LEMMA SuccessStep == SuccessInv /\ [Next]_vars => SuccessInv'
<1> SUFFICES ASSUME SuccessInv, [Next]_vars PROVE SuccessInv'
  OBVIOUS
<1>1. TypeOK'
  BY EngineTypeStep DEF SuccessInv
<1>2. ASSUME NEW l \in Landing, Step(l) PROVE CodeInv' /\ SuccessMeansLanded'
  BY <1>2, QuietSteps, QuietSuccess, ApplyFacts, PushGrows, GrowthSuccess
<1>3. CASE \A l \in Landing : ~Step(l)
  BY <1>1, <1>3, WorldGrows, GrowthSuccess DEF Next, SuccessInv
<1> QED
  BY <1>1, <1>2, <1>3 DEF SuccessInv

-----------------------------------------------------------------------------
(* What the steps do to the branch and the pushes. *)

\* A landing's step that leaves the remote and the evidence alone.
LEMMA QuietOutcome ==
  ASSUME OutcomeInv, NEW l \in Landing, Quiet(l)
  PROVE  BaseInv' /\ UnpushedInv' /\ PushingInv'
<1>1. UNCHANGED <<remote, base, sha>>
  BY DEF Quiet
<1>2. BaseInv'
  BY DEF Quiet, BaseInv, OutcomeInv, remote
<1>3. UnpushedInv'
  <2> SUFFICES ASSUME NEW k \in Landing, Unpushed(k)'
               PROVE  /\ Ref[k] \cap main = {}
                      /\ \A c \in inflight : Ref[k] \cap c = {} \/ ~(main \subseteq c)
    BY <1>1 DEF UnpushedInv, remote
  <2>1. CASE Unpushed(k)
    BY <2>1 DEF OutcomeInv, UnpushedInv
  <2>2. CASE ~Unpushed(k)
    <3>1. k = l
      BY <2>2 DEF Unpushed, Quiet
    <3>2. pc[l] \in Pushing /\ ~(sha[l] \subseteq main) /\ main # base[l]
      BY <2>2, <3>1 DEF Pushing, Quiet
    <3>3. Ref[l] \cap main = {}
      BY <3>2 DEF OutcomeInv, PushingInv
    <3>4. PICK x \in main : x \notin base[l]
      BY <3>2 DEF OutcomeInv, BaseInv
    <3>5. ~(main \subseteq sha[l])
      BY <3>3, <3>4 DEF OutcomeInv, BaseInv
    <3> QED
      BY <3>1, <3>2, <3>3, <3>5 DEF OutcomeInv, PushingInv
  <2> QED
    BY <2>1, <2>2
<1>4. PushingInv'
  <2> SUFFICES ASSUME NEW k \in Landing, pc'[k] \in Pushing
               PROVE  /\ Ref[k] \cap base[k] = {}
                      /\ Ref[k] \cap main = {} \/ sha[k] \subseteq main
                      /\ \A c \in inflight : \/ Ref[k] \cap c \subseteq main \/ c = sha[k]
                                             \/ ~(main \subseteq c)
    BY <1>1 DEF PushingInv, remote
  <2>1. CASE pc[k] \in Pushing
    BY <2>1 DEF OutcomeInv, PushingInv
  <2>2. CASE pc[k] \notin Pushing
    <3>1. Unpushed(k) /\ main = base[k]
      BY <2>2 DEF Quiet
    <3> QED
      BY <3>1 DEF OutcomeInv, UnpushedInv
  <2> QED
    BY <2>1, <2>2
<1> QED
  BY <1>2, <1>3, <1>4

\* Applying the ref gives a commit of what the branch had when it was fetched, and the ref.
LEMMA ApplyOutcome ==
  ASSUME OutcomeInv, NEW l \in Landing, Apply(l)
  PROVE  BaseInv' /\ UnpushedInv' /\ PushingInv'
<1>1. SuccessInv
  BY DEF OutcomeInv
<1>2. Unpushed(l)
  BY <1>1, ApplyFacts DEF Unpushed, Pushing, Over
<1>3. base'[l] \subseteq main /\ sha'[l] \subseteq base'[l] \cup Ref[l]
  <2>1. ASSUME NEW s \in Applied(l, tracking), NEW delta, NEW diff, Adopt(l, s, delta, diff)
        PROVE  base'[l] = tracking /\ sha'[l] \subseteq tracking \cup Ref[l]
    <3>1. s \subseteq tracking \cup Ref[l]
      BY DEF Applied
    <3> QED
      BY <1>1, <2>1, <3>1 DEF Adopt, SuccessInv, TypeOK
  <2>2. CASE UNCHANGED evidence
    BY <2>2 DEF evidence, OutcomeInv, BaseInv
  <2>3. tracking \subseteq main
    BY DEF OutcomeInv, BaseInv
  <2> QED
    BY <2>1, <2>2, <2>3 DEF Apply
<1>4. BaseInv'
  BY <1>1, <1>3, ApplyFacts DEF OutcomeInv, BaseInv, remote
<1>5. UnpushedInv'
  BY <1>1, <1>2, ApplyFacts DEF OutcomeInv, UnpushedInv, Unpushed, remote
<1>6. PushingInv'
  BY <1>1, ApplyFacts DEF OutcomeInv, PushingInv, Pushing, remote
<1> QED
  BY <1>4, <1>5, <1>6

\* When the branch grows, landings that have pushed nothing keep out of it, and one that
\* is pushing gets in with its commit or not at all.
LEMMA GrowthOutcome ==
  ASSUME OutcomeInv, Growth,
         \A k \in Landing : Unpushed(k) => Ref[k] \cap main' = {},
         \A k \in Landing : pc[k] \in Pushing =>
            Ref[k] \cap main' \subseteq main \/ sha[k] \subseteq main',
         \A c \in inflight' \ inflight : \A k \in Landing :
            Ref[k] \cap c \subseteq main \/ (pc[k] = "push" /\ c = sha[k])
  PROVE  BaseInv' /\ UnpushedInv' /\ PushingInv'
<1>1. BaseInv'
  BY DEF OutcomeInv, BaseInv, Growth
<1>2. UnpushedInv'
  <2>1. ASSUME NEW k \in Landing, Unpushed(k)' PROVE Unpushed(k)
    BY <2>1 DEF Unpushed, Pushing, Over, Growth
  <2> SUFFICES ASSUME NEW k \in Landing, Unpushed(k), NEW c \in inflight'
               PROVE  Ref[k] \cap c = {} \/ ~(main' \subseteq c)
    BY <2>1 DEF UnpushedInv
  <2>2. pc[k] # "push"
    BY DEF OutcomeInv, SuccessInv, CodeInv, Unpushed, Over, Pushing
  <2> QED
    BY <2>2 DEF OutcomeInv, UnpushedInv, Growth
<1>3. PushingInv'
  <2> SUFFICES ASSUME NEW k \in Landing, pc'[k] \in Pushing
               PROVE  /\ Ref[k] \cap base[k] = {}
                      /\ Ref[k] \cap main' = {} \/ sha[k] \subseteq main'
                      /\ \A c \in inflight' : \/ Ref[k] \cap c \subseteq main' \/ c = sha[k]
                                              \/ ~(main' \subseteq c)
    BY DEF PushingInv, Growth
  <2>1. pc[k] \in Pushing
    BY DEF Pushing, Growth
  <2> QED
    BY <2>1 DEF OutcomeInv, PushingInv, Growth
<1> QED
  BY <1>1, <1>2, <1>3

LEMMA PushOutcome ==
  ASSUME DisjointRefs, OutcomeInv, NEW l \in Landing, Push(l)
  PROVE  BaseInv' /\ UnpushedInv' /\ PushingInv'
<1>1. /\ pc[l] = "push" /\ Growth
      /\ main' = main \/ (main' = sha[l] /\ main \subseteq sha[l])
      /\ inflight' \in {inflight, inflight \cup {sha[l]}}
  BY PushGrows DEF Push, remote, OutcomeInv
<1>2. ~Unpushed(l) /\ sha[l] \subseteq main \cup Ref[l]
  BY <1>1 DEF OutcomeInv, SuccessInv, CodeInv, BaseInv, Unpushed, Pushing, Over
<1>3. \A k \in Landing \ {l} : Ref[k] \cap sha[l] \subseteq main
  BY <1>2 DEF DisjointRefs
<1>4. \A k \in Landing : Unpushed(k) => Ref[k] \cap main' = {}
  BY <1>1, <1>2, <1>3 DEF OutcomeInv, UnpushedInv
<1>5. \A k \in Landing : pc[k] \in Pushing =>
         Ref[k] \cap main' \subseteq main \/ sha[k] \subseteq main'
  BY <1>1, <1>3
<1>6. \A c \in inflight' \ inflight : \A k \in Landing :
         Ref[k] \cap c \subseteq main \/ (pc[k] = "push" /\ c = sha[k])
  BY <1>1, <1>3
<1> QED
  BY <1>1, <1>4, <1>5, <1>6, GrowthOutcome

\* Others on the branch, pushes that arrive late, landings that die.
LEMMA WorldOutcome ==
  ASSUME DisjointRefs, OutcomeInv,
         \/ LatePush \/ OtherMachine \/ Orphan \/ UNCHANGED vars
         \/ \E l \in Landing : Crash(l)
  PROVE  BaseInv' /\ UnpushedInv' /\ PushingInv'
<1>1. Growth
  BY WorldGrows DEF OutcomeInv
<1>2. CASE LatePush
  <2>1. PICK c \in inflight : main' = (IF main \subseteq c THEN c ELSE main)
    BY <1>2 DEF LatePush
  <2>2. inflight' \subseteq inflight
    BY <1>2 DEF LatePush
  <2>3. \A k \in Landing : Unpushed(k) => Ref[k] \cap main' = {}
    BY <2>1 DEF OutcomeInv, UnpushedInv
  <2>4. \A k \in Landing : pc[k] \in Pushing =>
           Ref[k] \cap main' \subseteq main \/ sha[k] \subseteq main'
    BY <2>1 DEF OutcomeInv, PushingInv
  <2> QED
    BY <1>1, <2>2, <2>3, <2>4, GrowthOutcome
<1>3. CASE OtherMachine
  <2>1. PICK d \in Others : main' = main \cup {d}
    BY <1>3 DEF OtherMachine
  <2>2. \A k \in Landing : Ref[k] \cap main' \subseteq main
    BY <2>1 DEF DisjointRefs
  <2>3. UNCHANGED inflight
    BY <1>3 DEF OtherMachine
  <2> QED
    BY <1>1, <2>2, <2>3, GrowthOutcome DEF OutcomeInv, UnpushedInv
<1>4. CASE Orphan \/ UNCHANGED vars
  <2>1. UNCHANGED remote
    BY <1>4 DEF Orphan, vars, remote
  <2> QED
    BY <1>1, <2>1, GrowthOutcome DEF remote, OutcomeInv, UnpushedInv
<1>5. ASSUME NEW l \in Landing, Crash(l) PROVE BaseInv' /\ UnpushedInv' /\ PushingInv'
  <2>1. /\ UNCHANGED main /\ inflight' \subseteq inflight \cup {sha[l]}
        /\ inflight' # inflight => pc[l] = "push"
    BY <1>5 DEF Crash
  <2>2. sha[l] \subseteq main \cup Ref[l]
    BY DEF OutcomeInv, BaseInv
  <2>3. \A c \in inflight' \ inflight : \A k \in Landing :
           Ref[k] \cap c \subseteq main \/ (pc[k] = "push" /\ c = sha[k])
    BY <2>1, <2>2 DEF DisjointRefs
  <2> QED
    BY <1>1, <2>1, <2>3, GrowthOutcome DEF OutcomeInv, UnpushedInv
<1> QED
  BY <1>2, <1>3, <1>4, <1>5

LEMMA OutcomeStep == DisjointRefs /\ OutcomeInv /\ [Next]_vars => OutcomeInv'
<1> SUFFICES ASSUME DisjointRefs, OutcomeInv, [Next]_vars PROVE OutcomeInv'
  OBVIOUS
<1>1. SuccessInv /\ SuccessInv'
  BY SuccessStep DEF OutcomeInv
<1>2. ASSUME NEW l \in Landing, Step(l) PROVE BaseInv' /\ UnpushedInv' /\ PushingInv'
  BY <1>1, <1>2, QuietSteps, QuietOutcome, ApplyOutcome, PushOutcome
<1>3. CASE \A l \in Landing : ~Step(l)
  BY <1>1, <1>3, WorldOutcome DEF Next, OutcomeInv
<1> QED
  BY <1>1, <1>2, <1>3 DEF OutcomeInv

-----------------------------------------------------------------------------
(* Theorems. *)

\* An exit 0 of a landing that is no dry run means, then and ever after, that the remote's
\* branch has the commit it validated: pushAndConfirm asks the remote, not git push.
THEOREM SuccessIsTrue == Spec => []SuccessMeansLanded
<1>1. Init => SuccessInv
  BY OutcomeInit DEF OutcomeInv
<1>2. SuccessInv /\ [Next]_vars => SuccessInv'
  BY SuccessStep
<1>3. SuccessInv => SuccessMeansLanded
  BY DEF SuccessInv
<1> QED
  BY <1>1, <1>2, <1>3, PTL DEF Spec

\* A landing that reports a busy machine or, in an attempt without a push, a failed gate, and
\* a dry run, has put nothing of its ref on the branch, and no push of its earlier attempts ever will: what made the
\* engine try again is what keeps them from being fast-forwards.
THEOREM FailureIsTrue == ASSUME DisjointRefs PROVE Spec => []FailureMeansNotLanded
<1>1. OutcomeInv /\ [Next]_vars => OutcomeInv'
  BY OutcomeStep
<1>2. OutcomeInv => FailureMeansNotLanded
  BY DEF OutcomeInv, UnpushedInv, Unpushed, FailureMeansNotLanded
<1> QED
  BY <1>1, <1>2, OutcomeInit, PTL DEF Spec
=============================================================================
