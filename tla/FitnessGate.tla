---------------------------- MODULE FitnessGate ----------------------------
(***************************************************************************)
(* The fitness gate (harness/sensors/gate.mjs) and its baseline guard      *)
(* (harness/sensors/baseline_guard.mjs): the floors of baseline.json over  *)
(* a sequence of code changes, edits of the file, runs of the gate and     *)
(* merges.  A run measures the code, compares it with the floors, tightens *)
(* them where the code got better, and guards the file against floors that *)
(* are looser than those of main.  A merge needs a run that exits 0 on     *)
(* what is committed; whatever that run writes is discarded with its       *)
(* checkout.                                                               *)
(*                                                                         *)
(* A metric is a metric of a dimension or one of a folder's I and D; its   *)
(* values are identified when they differ by no more than EPSILON.  A      *)
(* constraint of the governance policy that a reading breaks makes a run   *)
(* fail unless it is a warning; it never keeps a run from writing.  Files  *)
(* without dimensions and unreadable files are left out.                   *)
(***************************************************************************)
EXTENDS Integers

CONSTANTS
  Metric,
  Folder,        \* those that are a folder's I or D
  Larger,        \* those of direction "min": larger is better
  Advisory,      \* those of the dimensions AC01 and AV01
  Observational, \* those with fail_on_regression = false
  Value,
  ValueOf,       \* ValueOf[m]: the values of m
  Designed,      \* Designed[m]: the ratchet_floor of m, or None
  Mode,          \* ways to run the gate: a profile, with or without coverage
  Required,      \* Required[c]: the metrics whose adapter the profile requires
  Hard,          \* Hard[c]: the coverage metrics, when coverage was asked for
  Policy,        \* Policy[c]: the constraints of governance.toml, none with --policy=none
  Exempt,        \* the metrics the policy's ignore and exclude entries take out
  Null, Text,    \* no number; something that is neither a number nor null
  None,          \* no ratchet_floor
  NoFile,        \* no baseline.json
  CarelessEdits  \* do edits write wrong directions and values that are no numbers?

ASSUME MetricAssumption ==
  /\ Folder \subseteq Metric /\ Larger \subseteq Metric \ Folder
  /\ Advisory \subseteq Metric \ Folder /\ Observational \subseteq Metric \ Folder
  /\ Required \in [Mode -> SUBSET (Metric \ Folder)]
  /\ Hard \in [Mode -> SUBSET (Metric \ Folder)]
\* A constraint of the policy, "" where its entry is a bare number or says nothing.
Constraint == [metric : Metric, prefix : {"max_", "min_", ""}, limit : Value,
               op : {"max", "min", "equals", ""}, severity : {"error", "warn", ""}]
ASSUME PolicyAssumption == Exempt \subseteq Metric /\ Policy \in [Mode -> SUBSET Constraint]
ASSUME ValueAssumption ==
  /\ Value \subseteq Int /\ Null \notin Value /\ Text \notin Value /\ Text # Null
  /\ ValueOf \in [Metric -> SUBSET Value]
  /\ Designed \in [Metric -> Value \cup {None}]
  /\ None \notin Value \cup {Null, Text}
  /\ \A m \in Folder : Designed[m] = None
  /\ CarelessEdits \in BOOLEAN

VARIABLES
  defined,  \* the metrics the code defines and the folders the scan reports
  reading,  \* what a run measures now
  file,     \* baseline.json in the working tree
  main      \* baseline.json on main, the reference of the guard

vars == <<defined, reading, file, main>>

Reading == Value \cup {Null}
ReadingOf(m) == ValueOf[m] \cup {Null}
\* A folder's floor has no direction; an entry that is not there has no floor.
Directions == {"max", "min", "none", "absent"}
Baseline == [dir : [Metric -> Directions], floor : [Metric -> Reading \cup {Text}],
             ok : SUBSET Metric]

TypeOK ==
  /\ defined \subseteq Metric
  /\ reading \in [Metric -> Reading]
  /\ file \in Baseline \cup {NoFile} /\ main \in Baseline \cup {NoFile}

Direction(m) == IF m \in Larger THEN "min" ELSE "max"

\* worsened: never when either is no number.
Worsened(direction, current, baseline) ==
  /\ current \in Value /\ baseline \in Value
  /\ \/ direction = "min" /\ current < baseline
     \/ direction # "min" /\ current > baseline

-----------------------------------------------------------------------------
\* The report as a baseline, with the approvals it is given.
Snapshot(approvals) ==
  [dir |-> [m \in Metric |-> IF m \in Folder \cup defined THEN Direction(m) ELSE "absent"],
   floor |-> reading, ok |-> approvals]

\* The comparison of a run with a baseline.
Regressed(f, m) ==
  /\ m \in defined \ (Advisory \cup Observational)
  /\ Worsened(Direction(m), reading[m], f.floor[m])
Unread(c, m) == m \in defined \cap ((Required[c] \ Advisory) \cup Hard[c]) /\ reading[m] = Null
ComparisonOk(f, c) == \A m \in Metric : ~Regressed(f, m) /\ ~Unread(c, m)

\* A snapshot may not be written without the required adapters; a coverage
\* reading that failed is not taken for a missing adapter.
WriteRefused(c) ==
  \E m \in defined \cap (Required[c] \ (Advisory \cup Hard[c])) : reading[m] = Null

-----------------------------------------------------------------------------
\* The ratchet.
\* Mutant of Clamp: the designed threshold caps the floor.
ClampDown(m) ==
  IF Designed[m] \in Value /\ Direction(m) = "max" /\ reading[m] \in Value
  THEN IF reading[m] < Designed[m] THEN reading[m] ELSE Designed[m]
  ELSE reading[m]
Clamp(m) ==
  IF /\ Designed[m] \in Value /\ Direction(m) = "max"
     /\ reading[m] \in Value /\ reading[m] < Designed[m]
  THEN Designed[m] ELSE reading[m]

\* Mutant of Tightened: whatever is measured is the new floor.
TightenedAlways(f, m) == m \in defined \ Observational /\ Clamp(m) \in Value

Seeded(f, m) == m \in defined /\ f.dir[m] = "absent"
Tightened(f, m) ==
  /\ m \in defined \ Observational /\ Clamp(m) \in Value
  /\ f.floor[m] = Null \/ Worsened(Direction(m), f.floor[m], Clamp(m))

\* The file is written, seeds included, only if some floor tightened.
Ratchet(f) ==
  IF \E m \in Metric : Tightened(f, m)
  THEN [f EXCEPT !.dir = [m \in Metric |-> IF Seeded(f, m) THEN Direction(m) ELSE @[m]],
                 !.floor = [m \in Metric |-> IF Seeded(f, m) \/ Tightened(f, m)
                                             THEN Clamp(m) ELSE @[m]]]
  ELSE f

-----------------------------------------------------------------------------
\* The guard: floors of the working file w against those of the reference r.
Removed(m) == m \notin defined

\* The direction of an entry is gone or turned around.
\* Mutant of DeviationAllowed: a metric may not be removed either.
DeviationAllowedMeasured(w, m) ==
  /\ m \in w.ok /\ w.floor[m] \in Value /\ reading[m] = w.floor[m]
DeviationAllowed(w, m) ==
  /\ m \in w.ok
  /\ \/ w.dir[m] \in {"none", "absent"} /\ Removed(m)
     \/ w.floor[m] \in Value /\ reading[m] = w.floor[m]

\* Mutant of LooserAllowed: an approval is enough.
LooserAllowedByMarker(w, m, direction) == m \in w.ok
LooserAllowed(w, m, direction) ==
  /\ m \in w.ok
  /\ w.floor[m] = reading[m] \/ (direction = "max" /\ w.floor[m] = Designed[m])

\* Mutant of CandidateAllowed: a dropped floor is no looser floor.
CandidateAllowedDropped(w, r, m, direction) ==
  \/ r.floor[m] \notin Value
  \/ Removed(m) /\ m \in w.ok
  \/ /\ ~Removed(m)
     /\ ~Worsened(direction, w.floor[m], r.floor[m]) \/ LooserAllowed(w, m, direction)
CandidateAllowed(w, r, m, direction) ==
  \/ r.floor[m] \notin Value
  \/ Removed(m) /\ m \in w.ok
  \/ /\ ~Removed(m) /\ w.floor[m] = Null
     /\ reading[m] = Null /\ m \in w.ok
  \/ /\ ~Removed(m) /\ w.floor[m] # Null
     /\ ~Worsened(direction, w.floor[m], r.floor[m]) \/ LooserAllowed(w, m, direction)

EntryAllowed(w, r, m) ==
  \/ r.dir[m] = "absent"
  \/ r.dir[m] = "none" /\ r.floor[m] \notin Value
  \/ /\ r.dir[m] \in {"max", "min"}
     /\ IF w.dir[m] = r.dir[m] THEN CandidateAllowed(w, r, m, r.dir[m])
                               ELSE DeviationAllowed(w, m)
\* The guard's reference; where git has none to show the guard has nothing to say.
Reference == main
RelaxationOk(w, r) == r # NoFile => \A m \in Metric : EntryAllowed(w, r, m)

-----------------------------------------------------------------------------
\* The policy.  A constraint's op is taken from its key where it names none; a
\* metric without a reading breaks no constraint, and no adapter is required by one.
Op(rule) == IF rule.op # "" THEN rule.op ELSE IF rule.prefix = "min_" THEN "min" ELSE "max"
Violates(op, observed, limit) ==
  \/ op = "min" /\ observed < limit
  \/ op = "equals" /\ observed # limit
  \/ op = "max" /\ observed > limit
Judged(m) == m \in defined \ Exempt /\ reading[m] \in Value
PolicyOk(c) ==
  \A rule \in Policy[c] :
    Judged(rule.metric) /\ Violates(Op(rule), reading[rule.metric], rule.limit)
      => rule.severity = "warn"

Passes(f, c) == ComparisonOk(f, c) /\ RelaxationOk(f, Reference) /\ PolicyOk(c)

-----------------------------------------------------------------------------
Init ==
  /\ file = NoFile /\ main = NoFile
  /\ defined = Metric
  /\ reading \in {r \in [Metric -> Reading] : \A m \in Metric : r[m] \in ReadingOf(m)}

\* The code changes, or the tools a run finds, one metric after another.
Work ==
  /\ \E m \in Metric :
       \/ /\ defined' = defined \ {m}
          /\ reading' = [reading EXCEPT ![m] = Null]
       \/ /\ defined' = defined \cup {m}
          /\ \E v \in ReadingOf(m) : reading' = [reading EXCEPT ![m] = v]
  /\ UNCHANGED <<file, main>>

\* Somebody writes an entry, an approval, or removes the file.
EditedDir(m) ==
  IF m \in Folder THEN {"max"}
  ELSE {Direction(m), "absent"} \cup (IF CarelessEdits THEN {"max", "min", "none"} ELSE {})
EditedFloor(m) == ReadingOf(m) \cup (IF CarelessEdits THEN {Text} ELSE {})
EditEntry ==
  /\ file # NoFile
  /\ \E m \in Metric : \E d \in EditedDir(m), v \in EditedFloor(m) :
       /\ d = "absent" => v = Null
       /\ file' = [file EXCEPT !.dir[m] = d, !.floor[m] = v]
  /\ UNCHANGED <<defined, reading, main>>
EditApprovals ==
  /\ file # NoFile
  /\ \E a \in SUBSET Metric : file' = [file EXCEPT !.ok = a]
  /\ UNCHANGED <<defined, reading, main>>
RemoveFile ==
  /\ file' = NoFile
  /\ UNCHANGED <<defined, reading, main>>

\* A first run: the report becomes the baseline.
FirstRun(c) ==
  /\ file = NoFile /\ ~WriteRefused(c)
  /\ file' = Snapshot({})
  /\ UNCHANGED <<defined, reading, main>>

\* Any other run.  The guard and the policy make it fail but do not keep the
\* ratchet from writing.
Gate(c) ==
  /\ file # NoFile /\ ComparisonOk(file, c)
  /\ file' = Ratchet(file)
  /\ UNCHANGED <<defined, reading, main>>

\* gate --update-baseline
Approvals == IF file = NoFile THEN {} ELSE file.ok
UpdateBaseline(c) ==
  /\ ~WriteRefused(c) /\ RelaxationOk(Snapshot(Approvals), Reference)
  /\ file' = Snapshot(Approvals)
  /\ UNCHANGED <<defined, reading, main>>

\* What is committed is merged after a run that exits 0: a first run if there
\* is no file.
Merge(c) ==
  /\ IF file = NoFile THEN ~WriteRefused(c) /\ PolicyOk(c) ELSE Passes(file, c)
  /\ main' = file
  /\ UNCHANGED <<defined, reading, file>>

\* A run that cannot load its policy, profile, report or readings exits with 2 before it
\* has changed anything: no step.
Run(c) == FirstRun(c) \/ Gate(c) \/ UpdateBaseline(c) \/ Merge(c)
Next == Work \/ EditEntry \/ EditApprovals \/ RemoveFile \/ \E c \in Mode : Run(c)

Spec == Init /\ [][Next]_vars

-----------------------------------------------------------------------------
Looser(m, new, old) == old \in Value /\ (new = Null \/ Worsened(Direction(m), new, old))

\* A floor on main gets looser, or goes, only under an approval, and then only
\* to what is measured (nothing, if nothing is), to its designed threshold, or
\* because the metric is no more: the ratchet and its guard together.
FloorsOnlyTighten ==
  [][main # NoFile /\ main' # NoFile =>
       \A m \in Metric : Looser(m, main'.floor[m], main.floor[m]) =>
         /\ m \in main'.ok
         /\ m \in defined => main'.floor[m] \in {reading[m], Designed[m]}]_main

\* A step that loosens a floor of the file is no run's, whatever is in that file, a
\* floor below the designed threshold the ratchet clamps at included.
RatchetOnlyTightens ==
  [][\A m \in Metric :
       file # NoFile /\ file' # NoFile /\ Looser(m, file'.floor[m], file.floor[m])
         => \A c \in Mode : ~Gate(c)]_vars

\* Code that main's floors forbid is not merged by moving the floor in the same
\* change, unless that floor is approved: what the gate compares with is the
\* author's file, what the guard compares that file with is main's.
QualityRatchets ==
  [][\A m \in defined \ (Advisory \cup Observational) :
       main # NoFile /\ file # NoFile
         /\ Worsened(Direction(m), reading[m], main.floor[m]) /\ m \notin file.ok
         => \A c \in Mode : ~Merge(c)]_vars

\* What the ratchet writes after a run that passes passes the same run again:
\* a commit of the rewritten file is never refused by the gate that wrote it.
PassIsStable ==
  file # NoFile => \A c \in Mode : Passes(file, c) => Passes(Ratchet(file), c)

\* There is always a way to loosen what has to be loosened: the one the guard's
\* message names, a regenerated baseline with approvals.
RegenerationPasses == main # NoFile => RelaxationOk(Snapshot(Metric), main)

\* The gate never refuses its own files: neither the one a passing run leaves nor
\* the one its way out of a refusal makes.
AcceptsOwnFiles == PassIsStable /\ RegenerationPasses
=============================================================================
