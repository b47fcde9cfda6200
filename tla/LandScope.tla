------------------------------- MODULE LandScope -------------------------------
(***************************************************************************)
(* Which gates a diff selects and which green results survive a re-apply:  *)
(* scripts/lib/land/scope.ts and the planning helpers of engine.ts.        *)
(* A file is known by the scopes whose globs match it.                     *)
(***************************************************************************)
EXTENDS Naturals

CONSTANTS
  File, Scope, Gate,
  ScopesOf,      \* config.scopes: the scopes whose globs match a file
  FullFiles,     \* files matched by ALWAYS_FULL_GLOBS or config.full
  When,          \* gate.when of each gate
  LefthookGates, \* the gates without a run command
  Always,        \* the value of an omitted when
  Unreadable,    \* changedFiles returned null
  InheritUnaffected   \* config.inheritUnaffectedEvidence

\* What the configuration file may say: anything else ends the landing before it
\* takes the lease.  The parser lets `when` name scopes that are not defined, which
\* no file has.
ScopesParsed ==
  /\ ScopesOf \in [File -> SUBSET Scope]
  /\ FullFiles \subseteq File
GatesParsed ==
  /\ When \in [Gate -> {Always} \cup SUBSET Scope]
  /\ LefthookGates \subseteq Gate

ASSUME ScopeAssumption ==
  /\ ScopesParsed /\ GatesParsed
  /\ (\A s \in SUBSET Scope : s # Always) /\ (\A f \in SUBSET File : f # Unreadable)
  /\ InheritUnaffected \in BOOLEAN

Delta == {Unreadable} \cup SUBSET File

\* Mutant of SelectsAll: files of the full set count as their scopes say.
SelectsAllByScopes(files) == \/ files = Unreadable \/ files = {}
                             \/ \E f \in files \ FullFiles : ScopesOf[f] = {}
\* A diff that cannot be read, an empty one, a file of the full set and a
\* file no scope claims all select the full suite.
SelectsAll(files) == \/ files = Unreadable \/ files = {}
                     \/ \E f \in files : f \in FullFiles \/ ScopesOf[f] = {}
Classify(files) ==
  [full   |-> SelectsAll(files),
   scopes |-> IF files = Unreadable THEN {} ELSE UNION {ScopesOf[f] : f \in files \ FullFiles}]

GateApplies(when, c) == c.full \/ when = Always \/ when \cap c.scopes # {}

Selected(c) == {g \in Gate : GateApplies(When[g], c)}
ScopedOut(c) == Gate \ Selected(c)

\* Mutant of Inherited: the delta is not compared with the scopes.
InheritedAll(passed, delta) == {g \in passed : InheritUnaffected /\ delta # Unreadable}
\* inheritEvidence: the gates of passed whose scopes the delta between the two
\* commits misses; an empty delta keeps every one.
Inherited(passed, delta) ==
  {g \in passed : /\ InheritUnaffected /\ delta # Unreadable
                  /\ delta = {} \/ ~GateApplies(When[g], Classify(delta))}

\* The jobs a push skips: green on the commit, or inapplicable to its diff.
ExcludedJobs(passed, scopedOut) ==
  LefthookGates \cap (passed \cup (scopedOut \ passed))
=============================================================================
