---------------------------- MODULE ChecksProofs ----------------------------
(***************************************************************************)
(* Theorems about the fitness gate, the runs of the sensors and the        *)
(* migration of issues, for every value of their constants.  The three     *)
(* share nothing; each has a part of its own here.                         *)
(***************************************************************************)
EXTENDS FitnessGate, SensorRun, Beads, SequenceTheorems, FiniteSetTheorems, TLAPS

-----------------------------------------------------------------------------
(***************************************************************************)
(* The fitness gate: what runs of it do holds of any file.  What merges do *)
(* needs files whose directions and values are well formed.                *)
(***************************************************************************)
\* Being worse is a strict order, in either direction.
LEMMA WorsenedOrder ==
  ASSUME NEW d, NEW a, NEW b, NEW c
  PROVE  /\ Worsened(d, a, b) => a \in Value /\ b \in Value
         /\ ~Worsened(d, a, a)
         /\ Worsened(d, a, b) => ~Worsened(d, b, a)
         /\ a \in Value /\ Worsened(d, a, b) /\ ~Worsened(d, a, c) => ~Worsened(d, b, c)
         /\ b \in Value /\ ~Worsened(d, a, b) /\ Worsened(d, a, c) => Worsened(d, b, c)
<1>1. \A x \in Value : x \in Int
  BY ValueAssumption
<1>2. CASE d = "min"
  BY <1>1, <1>2 DEF Worsened
<1>3. CASE d # "min"
  BY <1>1, <1>3 DEF Worsened
<1> QED
  BY <1>2, <1>3

LEMMA ClampType == ASSUME TypeOK, NEW m \in Metric PROVE Clamp(m) \in Reading
BY ValueAssumption DEF TypeOK, Clamp, Reading

LEMMA ReadingOfType == ASSUME NEW m \in Metric PROVE ReadingOf(m) \subseteq Reading
BY ValueAssumption DEF ReadingOf, Reading

LEMMA SnapshotType ==
  ASSUME TypeOK, NEW a \in SUBSET Metric PROVE Snapshot(a) \in Baseline
BY DEF TypeOK, Snapshot, Baseline, Reading, Directions, Direction

\* The entries after a ratchet that writes.
Written(f) ==
  \A m \in Metric :
    /\ Seeded(f, m) => Ratchet(f).dir[m] = Direction(m)
    /\ ~Seeded(f, m) => Ratchet(f).dir[m] = f.dir[m]
    /\ Seeded(f, m) \/ Tightened(f, m) => Ratchet(f).floor[m] = Clamp(m)
    /\ ~Seeded(f, m) /\ ~Tightened(f, m) => Ratchet(f).floor[m] = f.floor[m]

LEMMA RatchetEntries ==
  ASSUME TypeOK, NEW f \in Baseline
  PROVE  /\ Ratchet(f) \in Baseline /\ Ratchet(f).ok = f.ok
         /\ Ratchet(f) = f \/ Written(f)
<1>1. CASE ~\E m \in Metric : Tightened(f, m)
  BY <1>1 DEF Ratchet
<1>2. CASE \E m \in Metric : Tightened(f, m)
  <2> DEFINE dirs == [m \in Metric |-> IF Seeded(f, m) THEN Direction(m) ELSE f.dir[m]]
             floors == [m \in Metric |-> IF Seeded(f, m) \/ Tightened(f, m)
                                         THEN Clamp(m) ELSE f.floor[m]]
  <2>1. Ratchet(f) = [dir |-> dirs, floor |-> floors, ok |-> f.ok]
    BY <1>2 DEF Ratchet, Baseline
  <2>2. dirs \in [Metric -> Directions]
    BY DEF Baseline, Directions, Direction
  <2>3. floors \in [Metric -> Reading \cup {Text}]
    BY ClampType DEF Baseline
  <2>4. Ratchet(f) \in Baseline
    BY <2>1, <2>2, <2>3 DEF Baseline
  <2>5. ASSUME NEW m \in Metric
        PROVE  /\ Ratchet(f).dir[m] = IF Seeded(f, m) THEN Direction(m) ELSE f.dir[m]
               /\ Ratchet(f).floor[m] = IF Seeded(f, m) \/ Tightened(f, m)
                                        THEN Clamp(m) ELSE f.floor[m]
    BY <2>1
  <2>6. Written(f)
    BY <2>5, Zenon DEF Written
  <2> QED
    BY <2>1, <2>4, <2>6
<1> QED
  BY <1>1, <1>2

\* Every variable keeps its type.
LEMMA TypeStep == TypeOK /\ [Next]_vars => TypeOK'
<1> SUFFICES ASSUME TypeOK, [Next]_vars PROVE TypeOK'
  OBVIOUS
<1> USE MetricAssumption, ValueAssumption
<1>1. CASE Work
  <2>1. PICK m \in Metric, v \in Reading :
          /\ defined' \in {defined \ {m}, defined \cup {m}}
          /\ reading' = [reading EXCEPT ![m] = v]
    BY <1>1, ReadingOfType DEF Work, Reading
  <2>2. defined' \subseteq Metric /\ reading' \in [Metric -> Reading]
    BY <2>1 DEF TypeOK
  <2> QED
    BY <1>1, <2>2 DEF TypeOK, Work
<1>2. CASE EditEntry
  <2>0. PICK m \in Metric : \E d \in EditedDir(m), v \in EditedFloor(m) :
          file' = [file EXCEPT !.dir[m] = d, !.floor[m] = v]
    BY <1>2 DEF EditEntry
  <2>1. PICK d \in EditedDir(m), v \in EditedFloor(m) :
          file' = [file EXCEPT !.dir[m] = d, !.floor[m] = v]
    BY <2>0
  <2>2. file \in Baseline
    BY <1>2 DEF EditEntry, TypeOK
  <2>3. d \in Directions /\ v \in Reading \cup {Text}
    BY DEF EditedDir, EditedFloor, ReadingOf, Reading, Directions, Direction
  <2>4. file' \in Baseline
    BY <2>1, <2>2, <2>3 DEF Baseline
  <2> QED
    BY <1>2, <2>4 DEF EditEntry, TypeOK
<1>3. CASE EditApprovals
  <2>1. file' \in Baseline
    BY <1>3 DEF EditApprovals, TypeOK, Baseline
  <2> QED
    BY <1>3, <2>1 DEF EditApprovals, TypeOK
<1>4. CASE RemoveFile
  BY <1>4 DEF TypeOK, RemoveFile
<1>5. ASSUME NEW c \in Mode, Run(c) PROVE TypeOK'
  <2>1. CASE FirstRun(c)
    BY <2>1, SnapshotType DEF TypeOK, FirstRun
  <2>2. CASE Gate(c)
    BY <2>2, RatchetEntries DEF TypeOK, Gate
  <2>3. CASE UpdateBaseline(c)
    <3>1. Approvals \in SUBSET Metric
      BY DEF Approvals, TypeOK, Baseline
    <3> QED
      BY <2>3, <3>1, SnapshotType DEF TypeOK, UpdateBaseline
  <2>4. CASE Merge(c)
    BY <2>4 DEF TypeOK, Merge
  <2> QED
    BY <1>5, <2>1, <2>2, <2>3, <2>4 DEF Run
<1>6. CASE UNCHANGED vars
  BY <1>6 DEF TypeOK, vars
<1> QED
  BY <1>1, <1>2, <1>3, <1>4, <1>5, <1>6 DEF Next

LEMMA TypeInit == Init => TypeOK
BY DEF Init, TypeOK

\* The two files hold baselines or are missing; the readings are numbers or null.
THEOREM GateTypeCorrect == Spec => []TypeOK
<1> QED
  BY TypeInit, TypeStep, PTL DEF Spec

-----------------------------------------------------------------------------
\* A clamped reading is no better than the reading, and never below the
\* designed threshold of a metric that has one.
LEMMA ClampBounds ==
  ASSUME TypeOK, NEW m \in Metric
  PROVE  /\ ~Worsened(Direction(m), reading[m], Clamp(m))
         /\ Clamp(m) \in Value => reading[m] \in Value
         /\ Direction(m) = "max" => ~Worsened("max", Designed[m], Clamp(m))
<1>1. reading[m] \in Value \cup {Null} /\ Designed[m] \in Value \cup {None}
  BY ValueAssumption DEF TypeOK, Reading
<1>2. /\ \A x \in Value : x \in Int
      /\ Null \notin Value /\ None \notin Value
  BY ValueAssumption
<1>3. CASE Clamp(m) = reading[m] /\ ~(/\ Designed[m] \in Value /\ Direction(m) = "max"
                                    /\ reading[m] \in Value /\ reading[m] < Designed[m])
  BY <1>1, <1>2, <1>3 DEF Worsened
<1>4. CASE Clamp(m) = Designed[m] /\ Designed[m] \in Value /\ Direction(m) = "max"
           /\ reading[m] \in Value /\ reading[m] < Designed[m]
  BY <1>1, <1>2, <1>4 DEF Worsened
<1> QED
  BY <1>3, <1>4 DEF Clamp

\* A run leaves every floor where it was or makes it tighter.
LEMMA RatchetTightens ==
  ASSUME TypeOK, NEW f \in Baseline, NEW m \in Metric,
         f.dir[m] = "absent" => f.floor[m] = Null
  PROVE  ~Looser(m, Ratchet(f).floor[m], f.floor[m])
<1>0. Null \notin Value
  BY ValueAssumption
<1>2. CASE Ratchet(f).floor[m] = f.floor[m]
  BY <1>0, <1>2, WorsenedOrder DEF Looser
<1>3. CASE Seeded(f, m)
  BY <1>0, <1>3 DEF Seeded, Looser
<1>4. CASE Tightened(f, m) /\ Ratchet(f).floor[m] = Clamp(m)
  BY <1>0, <1>4, WorsenedOrder DEF Tightened, Looser
<1> QED
  BY <1>2, <1>3, <1>4, RatchetEntries DEF Written


-----------------------------------------------------------------------------
\* What holds of the files whatever is edited: an absent entry has no floor,
\* and what is not defined is not measured.
Shape(f) == f # NoFile => \A m \in Metric : f.dir[m] = "absent" => f.floor[m] = Null
Gone == \A m \in Metric \ defined : reading[m] = Null
ShapeInv == TypeOK /\ Gone /\ Shape(file) /\ Shape(main)

LEMMA SnapshotShape ==
  ASSUME TypeOK, Gone, NEW a \in SUBSET Metric PROVE Shape(Snapshot(a))
BY DEF Shape, Gone, Snapshot, Direction

LEMMA RatchetShape ==
  ASSUME TypeOK, NEW f \in Baseline, f # NoFile, Shape(f) PROVE Shape(Ratchet(f))
<1> SUFFICES ASSUME NEW m \in Metric, Ratchet(f).dir[m] = "absent"
             PROVE  Ratchet(f).floor[m] = Null
  BY DEF Shape
<1>1. CASE Ratchet(f) = f
  BY <1>1 DEF Shape
<1>2. CASE Written(f)
  <2>1. f.dir[m] = "absent" /\ ~Seeded(f, m)
    BY <1>2 DEF Written, Direction
  <2>2. ~Tightened(f, m)
    BY <2>1 DEF Seeded, Tightened
  <2> QED
    BY <1>2, <2>1, <2>2 DEF Written, Shape
<1> QED
  BY <1>1, <1>2, RatchetEntries

LEMMA ShapeStep == ShapeInv /\ [Next]_vars => ShapeInv'
<1> SUFFICES ASSUME ShapeInv, [Next]_vars PROVE ShapeInv'
  OBVIOUS
<1> USE DEF ShapeInv
<1>1. TypeOK'
  BY TypeStep
<1>2. Gone'
  <2>1. CASE Work
    BY <2>1 DEF Work, Gone, TypeOK
  <2>2. CASE UNCHANGED <<defined, reading>>
    BY <2>2 DEF Gone
  <2> QED
    BY <2>1, <2>2 DEF Next, Run, vars, EditEntry, EditApprovals, RemoveFile, FirstRun,
                      Gate, UpdateBaseline, Merge
<1>3. CASE UNCHANGED <<file, main>>
  BY <1>1, <1>2, <1>3 DEF Shape
<1>4. ASSUME NEW c \in Mode, Merge(c) PROVE ShapeInv'
  BY <1>1, <1>2, <1>4 DEF Merge, Shape
<1>5. ASSUME UNCHANGED main, Shape(file') PROVE ShapeInv'
  BY <1>1, <1>2, <1>5 DEF Shape
<1>6. CASE EditEntry
  <2>1. PICK m \in Metric : \E d \in EditedDir(m), v \in EditedFloor(m) :
          /\ d = "absent" => v = Null
          /\ file' = [file EXCEPT !.dir[m] = d, !.floor[m] = v]
    BY <1>6 DEF EditEntry
  <2>2. PICK d \in EditedDir(m), v \in EditedFloor(m) :
          /\ d = "absent" => v = Null
          /\ file' = [file EXCEPT !.dir[m] = d, !.floor[m] = v]
    BY <2>1
  <2>3. file \in Baseline /\ file # NoFile
    BY <1>6 DEF EditEntry, TypeOK
  <2>4. Shape(file')
    BY <2>2, <2>3 DEF Shape, Baseline
  <2> QED
    BY <1>5, <1>6, <2>4 DEF EditEntry
<1>7. CASE EditApprovals
  <2>1. Shape(file')
    BY <1>7 DEF EditApprovals, Shape, TypeOK, Baseline
  <2> QED
    BY <1>5, <1>7, <2>1 DEF EditApprovals
<1>8. CASE RemoveFile
  BY <1>5, <1>8 DEF RemoveFile, Shape
<1>9. ASSUME NEW c \in Mode, FirstRun(c) \/ UpdateBaseline(c) PROVE ShapeInv'
  <2>1. Approvals \in SUBSET Metric
    BY DEF Approvals, TypeOK, Baseline
  <2>2. Shape(file')
    BY <1>9, <2>1, SnapshotShape DEF FirstRun, UpdateBaseline
  <2> QED
    BY <1>5, <1>9, <2>2 DEF FirstRun, UpdateBaseline
<1>10. ASSUME NEW c \in Mode, Gate(c) PROVE ShapeInv'
  <2>1. Shape(file')
    BY <1>10, RatchetShape DEF Gate, TypeOK
  <2> QED
    BY <1>5, <1>10, <2>1 DEF Gate
<1> QED
  BY <1>3, <1>4, <1>6, <1>7, <1>8, <1>9, <1>10 DEF Next, Run, Work, vars

LEMMA ShapeInit == Init => ShapeInv
BY TypeInit DEF Init, ShapeInv, Gone, Shape

\* No floor ever loosens by running the gate, on whatever file.
THEOREM RunsOnlyTighten == Spec => RatchetOnlyTightens
<1>1. ShapeInv /\ [Next]_vars =>
        [\A m \in Metric :
           file # NoFile /\ file' # NoFile /\ Looser(m, file'.floor[m], file.floor[m])
             => \A c \in Mode : ~Gate(c)]_vars
  <2> SUFFICES ASSUME ShapeInv, NEW m \in Metric, Looser(m, file'.floor[m], file.floor[m]),
                      NEW c \in Mode, Gate(c)
               PROVE  FALSE
    BY Zenon
  <2>1. file \in Baseline /\ file # NoFile /\ file' = Ratchet(file)
    BY DEF Gate, ShapeInv, TypeOK
  <2> QED
    BY <2>1, RatchetTightens DEF ShapeInv, Shape
<1> QED
  BY <1>1, ShapeInit, ShapeStep, PTL DEF Spec, RatchetOnlyTightens

-----------------------------------------------------------------------------
\* What holds of the files when directions and values are edited with care: an
\* entry that is there has the direction the code gives its metric, and every
\* floor is a number or null.  The guard judges by main's directions, the
\* comparison by the code's; here they agree.
Tidy(f) == f # NoFile =>
  \A m \in Metric :
    /\ f.floor[m] \in Reading
    /\ f.dir[m] = Direction(m) \/ (f.dir[m] = "absent" /\ m \notin Folder)
GateInv == ShapeInv /\ Tidy(file) /\ Tidy(main)

LEMMA SnapshotTidy == ASSUME TypeOK, NEW a \in SUBSET Metric PROVE Tidy(Snapshot(a))
BY DEF Tidy, Snapshot, TypeOK, Direction

LEMMA RatchetTidy ==
  ASSUME TypeOK, NEW f \in Baseline, f # NoFile, Tidy(f) PROVE Tidy(Ratchet(f))
<1>1. CASE Ratchet(f) = f
  BY <1>1
<1>2. CASE Written(f)
  BY <1>2, ClampType, Zenon DEF Written, Tidy
<1> QED
  BY <1>1, <1>2, RatchetEntries

LEMMA TidyStep == ~CarelessEdits /\ GateInv /\ [Next]_vars => GateInv'
<1> SUFFICES ASSUME ~CarelessEdits, GateInv, [Next]_vars PROVE GateInv'
  OBVIOUS
<1> USE DEF GateInv
<1>1. ShapeInv' /\ TypeOK
  BY ShapeStep DEF ShapeInv
<1>2. CASE UNCHANGED <<file, main>>
  BY <1>1, <1>2 DEF Tidy
<1>3. ASSUME NEW c \in Mode, Merge(c) PROVE GateInv'
  BY <1>1, <1>3 DEF Merge, Tidy
<1>4. ASSUME UNCHANGED main, Tidy(file') PROVE GateInv'
  BY <1>1, <1>4 DEF Tidy
<1>5. CASE EditEntry
  <2>1. PICK m \in Metric : \E d \in EditedDir(m), v \in EditedFloor(m) :
          file' = [file EXCEPT !.dir[m] = d, !.floor[m] = v]
    BY <1>5 DEF EditEntry
  <2>2. PICK d \in EditedDir(m), v \in EditedFloor(m) :
          file' = [file EXCEPT !.dir[m] = d, !.floor[m] = v]
    BY <2>1
  <2>3. file \in Baseline /\ file # NoFile
    BY <1>1, <1>5 DEF EditEntry, TypeOK
  <2>4. v \in Reading /\ (d = Direction(m) \/ (d = "absent" /\ m \notin Folder))
    BY MetricAssumption, ReadingOfType DEF EditedDir, EditedFloor, Direction
  <2>5. Tidy(file')
    BY <2>2, <2>3, <2>4 DEF Tidy, Baseline
  <2> QED
    BY <1>4, <1>5, <2>5 DEF EditEntry
<1>6. CASE EditApprovals
  <2>1. Tidy(file')
    BY <1>1, <1>6 DEF EditApprovals, Tidy, TypeOK, Baseline
  <2> QED
    BY <1>4, <1>6, <2>1 DEF EditApprovals
<1>7. CASE RemoveFile
  BY <1>4, <1>7 DEF RemoveFile, Tidy
<1>8. ASSUME NEW c \in Mode, FirstRun(c) \/ UpdateBaseline(c) PROVE GateInv'
  <2>1. Approvals \in SUBSET Metric
    BY <1>1 DEF Approvals, TypeOK, Baseline
  <2>2. Tidy(file')
    BY <1>1, <1>8, <2>1, SnapshotTidy DEF FirstRun, UpdateBaseline
  <2> QED
    BY <1>4, <1>8, <2>2 DEF FirstRun, UpdateBaseline
<1>9. ASSUME NEW c \in Mode, Gate(c) PROVE GateInv'
  <2>1. Tidy(file')
    BY <1>1, <1>9, RatchetTidy DEF Gate, TypeOK
  <2> QED
    BY <1>4, <1>9, <2>1 DEF Gate
<1> QED
  BY <1>2, <1>3, <1>5, <1>6, <1>7, <1>8, <1>9 DEF Next, Run, Work, vars

LEMMA TidyInit == Init => GateInv
BY ShapeInit DEF Init, GateInv, Tidy

\* What the guard says of an entry of main that has a floor.
LEMMA GuardedEntry ==
  ASSUME GateInv, main # NoFile, file # NoFile, RelaxationOk(file, main),
         NEW m \in Metric, main.floor[m] \in Value
  PROVE  \/ file.floor[m] \in Value /\ ~Worsened(Direction(m), file.floor[m], main.floor[m])
         \/ m \in file.ok /\ (m \in defined => file.floor[m] \in {reading[m], Designed[m]})
<1>1. main.dir[m] = Direction(m) /\ Null \notin Value
  BY ValueAssumption DEF GateInv, ShapeInv, Shape, Tidy
<1>2. main.dir[m] # "absent" /\ main.dir[m] # "none"
  BY <1>1 DEF Direction
<1>3. file.floor[m] \in Value \cup {Null}
  BY DEF GateInv, Tidy, Reading
<1>4. \/ CandidateAllowed(file, main, m, Direction(m))
      \/ DeviationAllowed(file, m)
  BY <1>1, <1>2 DEF RelaxationOk, EntryAllowed
<1>5. CASE DeviationAllowed(file, m)
  BY <1>5 DEF DeviationAllowed, Removed
<1>6. CASE CandidateAllowed(file, main, m, Direction(m))
  BY <1>3, <1>6 DEF CandidateAllowed, LooserAllowed, Removed
<1> QED
  BY <1>4, <1>5, <1>6

\* A floor of main gets looser only under an approval, and then only to what is
\* measured or designed.
THEOREM MainOnlyTightens == ASSUME ~CarelessEdits PROVE Spec => FloorsOnlyTighten
<1>1. GateInv /\ [Next]_vars =>
        [main # NoFile /\ main' # NoFile =>
           \A m \in Metric : Looser(m, main'.floor[m], main.floor[m]) =>
             /\ m \in main'.ok
             /\ m \in defined => main'.floor[m] \in {reading[m], Designed[m]}]_main
  <2> SUFFICES ASSUME GateInv, Next, main' # main, main # NoFile, main' # NoFile,
                      NEW m \in Metric, Looser(m, main'.floor[m], main.floor[m])
               PROVE  /\ m \in main'.ok
                      /\ m \in defined => main'.floor[m] \in {reading[m], Designed[m]}
    BY DEF vars
  <2>1. PICK c \in Mode : Merge(c)
    BY DEF Next, Run, Work, EditEntry, EditApprovals, RemoveFile, FirstRun, Gate,
           UpdateBaseline
  <2>2. main' = file /\ RelaxationOk(file, main)
    BY <2>1 DEF Merge, Passes, Reference
  <2>3. main.floor[m] \in Value /\ Null \notin Value
    BY ValueAssumption DEF Looser
  <2> QED
    BY <2>2, <2>3, GuardedEntry DEF Looser
<1> QED
  BY <1>1, TidyInit, TidyStep, PTL DEF Spec, FloorsOnlyTighten

\* Code that main's floors forbid needs an approval to be merged.
THEOREM MergesRespectMain == ASSUME ~CarelessEdits PROVE Spec => QualityRatchets
<1>1. GateInv /\ [Next]_vars =>
        [\A m \in defined \ (Advisory \cup Observational) :
           main # NoFile /\ file # NoFile
             /\ Worsened(Direction(m), reading[m], main.floor[m]) /\ m \notin file.ok
             => \A c \in Mode : ~Merge(c)]_vars
  <2> SUFFICES ASSUME GateInv, NEW c \in Mode, Merge(c), main # NoFile, file # NoFile,
                      NEW m \in defined \ (Advisory \cup Observational),
                      Worsened(Direction(m), reading[m], main.floor[m])
               PROVE  m \in file.ok
    BY Zenon
  <2>1. m \in Metric /\ ~Worsened(Direction(m), reading[m], file.floor[m])
        /\ RelaxationOk(file, main)
    BY DEF Merge, Passes, Reference, ComparisonOk, Regressed, GateInv, ShapeInv, TypeOK
  <2>2. reading[m] \in Value /\ main.floor[m] \in Value
    BY WorsenedOrder
  <2>3. ~(file.floor[m] \in Value /\ ~Worsened(Direction(m), file.floor[m], main.floor[m]))
    BY <2>1, <2>2, WorsenedOrder
  <2> QED
    BY <2>1, <2>2, <2>3, GuardedEntry
<1> QED
  BY <1>1, TidyInit, TidyStep, PTL DEF Spec, QualityRatchets

-----------------------------------------------------------------------------
\* The ratchet leaves nothing the comparison would object to.
LEMMA RatchetCompares ==
  ASSUME TypeOK, NEW f \in Baseline, NEW c \in Mode, ComparisonOk(f, c)
  PROVE  ComparisonOk(Ratchet(f), c)
<1> SUFFICES ASSUME NEW m \in Metric, Regressed(Ratchet(f), m) PROVE FALSE
  BY DEF ComparisonOk
<1>1. Worsened(Direction(m), reading[m], Ratchet(f).floor[m]) /\ ~Regressed(f, m)
  BY DEF Regressed, ComparisonOk
<1>2. Ratchet(f).floor[m] # f.floor[m]
  BY <1>1 DEF Regressed
<1>3. Ratchet(f).floor[m] = Clamp(m)
  BY <1>2, RatchetEntries DEF Written
<1> QED
  BY <1>1, <1>3, ClampBounds

\* Nor the guard: a floor the ratchet moved is a measured one, and either no
\* looser than main's was the one before, or looser and then not moved.
LEMMA RatchetGuarded ==
  ASSUME GateInv, file # NoFile, RelaxationOk(file, main)
  PROVE  RelaxationOk(Ratchet(file), main)
<1> DEFINE g == Ratchet(file)
<1>0. file \in Baseline /\ TypeOK
  BY DEF GateInv, ShapeInv, TypeOK
<1>1. CASE g = file
  BY <1>1
<1>2. CASE Written(file)
  <2> SUFFICES ASSUME main # NoFile, NEW m \in Metric, EntryAllowed(file, main, m)
               PROVE  EntryAllowed(g, main, m)
    BY DEF RelaxationOk
  <2>1. CASE main.dir[m] = "absent"
    BY <2>1 DEF EntryAllowed
  <2> SUFFICES ASSUME main.dir[m] # "absent" PROVE EntryAllowed(g, main, m)
    BY <2>1
  <2>2. main.dir[m] = Direction(m) /\ main.dir[m] \in {"max", "min"}
    BY DEF GateInv, Tidy, Direction
  <2>3. CASE file.dir[m] = Direction(m)
    <3>1. ~Seeded(file, m)
      BY <2>3 DEF Seeded, Direction
    <3>2. g.dir[m] = Direction(m)
      BY <1>2, <2>3, <3>1 DEF Written
    <3>3. CandidateAllowed(file, main, m, Direction(m))
      BY <2>2, <2>3, Zenon DEF EntryAllowed
    <3>4. CASE ~Tightened(file, m)
      <4>1. g.floor[m] = file.floor[m] /\ g.ok = file.ok
        BY <1>0, <1>2, <3>1, <3>4, RatchetEntries DEF Written
      <4>2. CandidateAllowed(g, main, m, Direction(m))
        BY <3>3, <4>1 DEF CandidateAllowed, LooserAllowed
      <4> QED
        BY <2>2, <3>2, <4>2 DEF EntryAllowed
    <3>5. CASE Tightened(file, m)
      <4>1. g.floor[m] = Clamp(m) /\ Clamp(m) \in Value /\ m \in defined
        BY <1>2, <3>5 DEF Written, Tightened
      <4>2. reading[m] \in Value /\ Null \notin Value
        BY <1>0, <4>1, ClampBounds, ValueAssumption
      <4>3. CASE main.floor[m] \notin Value
        BY <2>2, <3>2, <4>3 DEF EntryAllowed, CandidateAllowed
      <4>4. CASE main.floor[m] \in Value
        <5>1. /\ file.floor[m] # Null
              /\ \/ ~Worsened(Direction(m), file.floor[m], main.floor[m])
                 \/ LooserAllowed(file, m, Direction(m))
          BY <3>3, <4>1, <4>2, <4>4 DEF CandidateAllowed, Removed
        <5>2. Worsened(Direction(m), file.floor[m], Clamp(m))
          BY <3>5, <5>1 DEF Tightened
        <5>3. ~LooserAllowed(file, m, Direction(m))
          BY <1>0, <5>2, ClampBounds DEF LooserAllowed
        <5>4. ~Worsened(Direction(m), g.floor[m], main.floor[m])
          BY <4>1, <5>1, <5>2, <5>3, WorsenedOrder
        <5>5. CandidateAllowed(g, main, m, Direction(m))
          BY <4>1, <4>2, <5>4 DEF CandidateAllowed, Removed
        <5> QED
          BY <2>2, <3>2, <5>5 DEF EntryAllowed
      <4> QED
        BY <4>3, <4>4
    <3> QED
      BY <3>4, <3>5
  <2>4. CASE file.dir[m] # Direction(m)
    <3>1. file.dir[m] = "absent" /\ file.floor[m] = Null /\ Null \notin Value
      BY <2>4, ValueAssumption DEF GateInv, Tidy, ShapeInv, Shape
    <3>2. m \in file.ok /\ Removed(m)
      BY <2>2, <2>4, <3>1 DEF EntryAllowed, DeviationAllowed
    <3>3. ~Seeded(file, m) /\ g.dir[m] = "absent" /\ g.ok = file.ok
      BY <1>0, <1>2, <3>1, <3>2, RatchetEntries DEF Written, Seeded, Removed
    <3> QED
      BY <2>2, <2>4, <3>1, <3>2, <3>3 DEF EntryAllowed, DeviationAllowed
  <2> QED
    BY <2>3, <2>4
<1> QED
  BY <1>0, <1>1, <1>2, RatchetEntries

\* The file a passing run writes passes the same run again.
LEMMA RatchetKeepsPassing == ASSUME ~CarelessEdits PROVE Spec => []PassIsStable
<1>1. GateInv => PassIsStable
  <2> SUFFICES ASSUME GateInv, file # NoFile, NEW c \in Mode, Passes(file, c)
               PROVE  Passes(Ratchet(file), c)
    BY DEF PassIsStable
  <2> QED
    BY RatchetCompares, RatchetGuarded DEF Passes, Reference, GateInv, ShapeInv, TypeOK
<1> QED
  BY <1>1, TidyInit, TidyStep, PTL DEF Spec

\* A regenerated baseline with approvals always passes the guard.
LEMMA RegenerationAlwaysPasses ==
  ASSUME ~CarelessEdits PROVE Spec => []RegenerationPasses
<1>1. GateInv => RegenerationPasses
  <2> SUFFICES ASSUME GateInv, main # NoFile, NEW m \in Metric,
                      main.dir[m] # "absent"
               PROVE  EntryAllowed(Snapshot(Metric), main, m)
    BY DEF RegenerationPasses, RelaxationOk, EntryAllowed
  <2> DEFINE w == Snapshot(Metric)
  <2>1. main.dir[m] = Direction(m) /\ main.dir[m] \in {"max", "min"}
    BY DEF GateInv, Tidy, Direction
  <2>2. w.floor[m] = reading[m] /\ m \in w.ok
    BY DEF Snapshot
  <2>3. CASE m \in Folder \cup defined
    <3>1. w.dir[m] = Direction(m)
      BY <2>3 DEF Snapshot
    <3>2. CandidateAllowed(w, main, m, Direction(m))
      BY <2>2 DEF CandidateAllowed, LooserAllowed
    <3> QED
      BY <2>1, <3>1, <3>2 DEF EntryAllowed
  <2>4. CASE m \notin Folder \cup defined
    <3>1. w.dir[m] = "absent" /\ Removed(m)
      BY <2>4 DEF Snapshot, Removed
    <3> QED
      BY <2>1, <2>2, <3>1 DEF EntryAllowed, DeviationAllowed
  <2> QED
    BY <2>3, <2>4
<1> QED
  BY <1>1, TidyInit, TidyStep, PTL DEF Spec

\* The gate never refuses its own files, neither what a passing run leaves nor a
\* regenerated baseline with approvals: nobody is left without a way to merge.
THEOREM GateAcceptsOwnFiles ==
  ASSUME ~CarelessEdits PROVE Spec => []AcceptsOwnFiles
<1>1. Spec => []PassIsStable
  BY RatchetKeepsPassing
<1>2. Spec => []RegenerationPasses
  BY RegenerationAlwaysPasses
<1>3. PassIsStable /\ RegenerationPasses => AcceptsOwnFiles
  BY DEF AcceptsOwnFiles
<1> QED
  BY <1>1, <1>2, <1>3, PTL

-----------------------------------------------------------------------------
(***************************************************************************)
(* The runs of the sensors: a run that passes has measured what its        *)
(* profile requires, coverage that is reported is complete, and the        *)
(* read-only report differs from the gate in two cases only.               *)
(***************************************************************************)
(* The inductive invariant. *)

RunType ==
  [step: {"idle", "cruise", "analyse", "topology", "scan", "coverage", "suite", "judge", "done"},
   profile: DOMAIN RequiredIn \cup {"none"}, skip: Skips \cup {{}}, asked: BOOLEAN,
   cruiser: [cycles: Measure, coupling: Measure], ts: Measure, produced: BOOLEAN,
   apss: [apss: Measure, apssCoupling: Measure], files: [Scanners -> MeasureFile],
   coverage: [file: BOOLEAN, lanes: [Lanes -> Measure]],
   suite: [available: BOOLEAN, p95: Measure, count: Nat, ran: BOOLEAN, covered: BOOLEAN],
   exit: {0, 1, 2}]

TopologyType == [functions: Quality \cup {"none", "unreadable"},
                 coupling: Quality \cup {"none", "unreadable"}]

SensorTypeOK == code \in [Facets -> Quality] /\ topology \in TopologyType /\ gateRun \in RunType

\* A run that was not ended by the programs that build the report.
JudgedRun(r) == r.step = "done" /\ r.exit # 2

AfterAnalyse(r) == JudgedRun(r) \/ r.step \in {"topology", "scan", "coverage", "suite", "judge"}
AfterCruise(r) == AfterAnalyse(r) \/ r.step = "analyse"

\* What a run has read so far is how the code is: it stays so while the run is under way.
CruiserFits(r, c) ==
  /\ AfterCruise(r) /\ "dep-cruiser" \notin r.skip =>
       r.cruiser = [cycles |-> c["cycles"], coupling |-> c["coupling"]]
  /\ AfterAnalyse(r) /\ r.skip \cap {"ts-morph", "dep-cruiser"} = {} => r.ts = c["ts"]

TopologyFits(r, c) == r.produced => r.apss.apss = c["apss"]

FilesFit(r, c) == \A s \in Scanners : r.files[s] \in {"absent", "none", c[s]}

CoverageFits(r, c) ==
  \A l \in Lanes : r.coverage.lanes[l] \in IF r.coverage.file THEN {"none", c[l]} ELSE {"none"}

SuiteFits(r) == r.suite.available => r.suite.ran /\ r.suite.covered

RunFits(r, c) ==
  CruiserFits(r, c) /\ TopologyFits(r, c) /\ FilesFit(r, c) /\ CoverageFits(r, c) /\ SuiteFits(r)

SensorInv ==
  /\ SensorTypeOK
  /\ At("idle") => gateRun = NoRun
  /\ RunFits(gateRun, code)
  /\ JudgedRun(gateRun) => gateRun.exit = GateExit(gateRun)

LEMMA NoRunType == NoRun \in RunType /\ NoRun.step = "idle"
<1>1. NoCoverage \in [file: BOOLEAN, lanes: [Lanes -> Measure]]
  BY DEF NoCoverage, Measure
<1>2. NoSuite \in [available: BOOLEAN, p95: Measure, count: Nat, ran: BOOLEAN, covered: BOOLEAN]
  BY DEF NoSuite, Measure
<1>3. NoTopology \in [apss: Measure, apssCoupling: Measure]
  BY DEF NoTopology, Measure
<1>4. [s \in Scanners |-> "absent"] \in [Scanners -> MeasureFile]
  BY DEF MeasureFile
<1>5. [cycles |-> "none", coupling |-> "none"] \in [cycles: Measure, coupling: Measure]
      /\ "none" \in Measure
  BY DEF Measure
<1> HIDE DEF NoCoverage, NoSuite, NoTopology
<1> QED
  BY <1>1, <1>2, <1>3, <1>4, <1>5 DEF NoRun, RunType

\* A run that has read nothing fits any code.
LEMMA NothingRead ==
  ASSUME NEW r \in RunType, NEW c, ~AfterCruise(r), r.produced = FALSE,
         r.files = [s \in Scanners |-> "absent"], r.coverage = NoCoverage, r.suite = NoSuite
  PROVE  RunFits(r, c)
<1>1. CruiserFits(r, c) /\ TopologyFits(r, c)
  BY DEF CruiserFits, TopologyFits, AfterCruise
<1>2. FilesFit(r, c) /\ CoverageFits(r, c) /\ SuiteFits(r)
  BY DEF FilesFit, CoverageFits, SuiteFits, NoCoverage, NoSuite
<1> QED
  BY <1>1, <1>2 DEF RunFits

LEMMA NoRunFits == \A c : RunFits(NoRun, c)
<1>1. /\ ~AfterCruise(NoRun) /\ NoRun.produced = FALSE
      /\ NoRun.files = [s \in Scanners |-> "absent"]
      /\ NoRun.coverage = NoCoverage /\ NoRun.suite = NoSuite
  BY DEF NoRun, AfterCruise, AfterAnalyse, JudgedRun
<1> QED
  BY <1>1, NoRunType, NothingRead

LEMMA SensorStart == SensorInit => SensorInv
<1> SUFFICES ASSUME SensorInit PROVE SensorInv
  OBVIOUS
<1>1. SensorTypeOK
  BY NoRunType DEF SensorInit, SensorTypeOK, Quality, TopologyType, NoFiles
<1> QED
  BY <1>1, NoRunType, NoRunFits DEF SensorInit, SensorInv, JudgedRun

-----------------------------------------------------------------------------
(* The steps of a run. *)

\* Between two runs nothing has been read.
LEMMA EditCodeStep ==
  ASSUME SensorInv, NEW f \in Facets, EditCode(f)
  PROVE  SensorInv'
<1>1. gateRun = NoRun /\ UNCHANGED <<topology, gateRun>> /\ code \in [Facets -> Quality]
  BY DEF EditCode, SensorInv, SensorTypeOK
<1>2. code' \in [Facets -> Quality]
  BY <1>1 DEF EditCode, Quality
<1> QED
  BY <1>1, <1>2, NoRunFits, NoRunType DEF SensorInv, SensorTypeOK, JudgedRun, At

LEMMA NextRunStep ==
  ASSUME SensorInv, NextRun
  PROVE  SensorInv'
<1>1. gateRun' = NoRun /\ UNCHANGED <<code, topology>>
  BY DEF NextRun
<1> QED
  BY <1>1, NoRunFits, NoRunType DEF SensorInv, SensorTypeOK, JudgedRun, At

LEMMA BeginStep ==
  ASSUME SensorInv, NEW profile \in DOMAIN RequiredIn \cup {"none"}, NEW skip \in Skips,
         NEW asked \in BOOLEAN, Begin(profile, skip, asked)
  PROVE  SensorInv'
<1> DEFINE r == [NoRun EXCEPT !.step = "cruise", !.profile = profile, !.skip = skip,
                              !.asked = asked]
<1>1. gateRun' = r /\ UNCHANGED <<code, topology>>
  BY DEF Begin
<1>2. /\ r.step = "cruise" /\ r.produced = FALSE /\ r.files = [s \in Scanners |-> "absent"]
      /\ r.coverage = NoCoverage /\ r.suite = NoSuite
  BY DEF NoRun
<1>3. r \in RunType
  BY NoRunType DEF RunType
<1> HIDE DEF r
<1>4. ~AfterCruise(r)
  BY <1>2 DEF AfterCruise, AfterAnalyse, JudgedRun
<1>5. RunFits(r, code)
  BY <1>2, <1>3, <1>4, NothingRead
<1> QED
  BY <1>1, <1>2, <1>3, <1>5 DEF SensorInv, SensorTypeOK, JudgedRun, At

\* A step of the run under way.
LEMMA RunStep ==
  ASSUME SensorInv, UNCHANGED code, topology' \in TopologyType,
         NEW r \in RunType, gateRun' = r, r.step # "idle", RunFits(r, code),
         JudgedRun(r) => r.exit = GateExit(r)
  PROVE  SensorInv'
<1> QED
  BY DEF SensorInv, SensorTypeOK, At, JudgedRun, GateExit, Fails, CoverageFails, MeasureOf, Worst,
         Spread, CountOf, CircularEdges, Fanout, CountReading, FileReading

LEMMA CruiseStep ==
  ASSUME SensorInv, Cruise
  PROVE  SensorInv'
<1> DEFINE read == [cycles |-> code["cycles"], coupling |-> code["coupling"]]
           found == IF "dep-cruiser" \in gateRun.skip THEN gateRun.cruiser ELSE read
           r == [gateRun EXCEPT !.step = "analyse", !.cruiser = found]
<1>1. gateRun \in RunType /\ gateRun.step = "cruise" /\ RunFits(gateRun, code)
      /\ code \in [Facets -> Quality] /\ topology \in TopologyType
  BY DEF SensorInv, SensorTypeOK, Cruise, At
<1>2. gateRun' = r /\ UNCHANGED <<code, topology>>
  BY <1>1 DEF Cruise, RunType
<1>3. read \in [cycles: Measure, coupling: Measure]
  BY <1>1 DEF Facets, Measure
<1>4. found \in [cycles: Measure, coupling: Measure]
  BY <1>1, <1>3 DEF RunType
<1> HIDE DEF found
<1>5. r \in RunType
  BY <1>1, <1>4 DEF RunType
<1>6. /\ r.step = "analyse" /\ r.cruiser = found /\ r.skip = gateRun.skip
      /\ r.produced = gateRun.produced /\ r.apss = gateRun.apss /\ r.files = gateRun.files
      /\ r.coverage = gateRun.coverage /\ r.suite = gateRun.suite
  BY <1>1 DEF RunType
<1> HIDE DEF r
<1>7. ~AfterAnalyse(r) /\ ~JudgedRun(r)
  BY <1>6 DEF AfterAnalyse, JudgedRun
<1>8. CruiserFits(r, code)
  BY <1>6, <1>7 DEF CruiserFits, found
<1>9. RunFits(r, code)
  BY <1>1, <1>6, <1>8 DEF RunFits, TopologyFits, FilesFit, CoverageFits, SuiteFits
<1> QED
  BY <1>1, <1>2, <1>5, <1>6, <1>7, <1>9, RunStep

LEMMA AnalyseStep ==
  ASSUME SensorInv, Analyse
  PROVE  SensorInv'
<1> DEFINE found == IF gateRun.skip \cap {"ts-morph", "dep-cruiser"} # {} THEN gateRun.ts
                    ELSE code["ts"]
           r == [gateRun EXCEPT !.step = "topology", !.ts = found]
<1>1. gateRun \in RunType /\ gateRun.step = "analyse" /\ RunFits(gateRun, code)
      /\ code \in [Facets -> Quality] /\ topology \in TopologyType
  BY DEF SensorInv, SensorTypeOK, Analyse, At
<1>2. gateRun' = r /\ UNCHANGED <<code, topology>>
  BY <1>1 DEF Analyse, RunType
<1>3. found \in Measure
  BY <1>1 DEF Facets, Measure, RunType
<1> HIDE DEF found
<1>4. r \in RunType
  BY <1>1, <1>3 DEF RunType
<1>5. /\ r.step = "topology" /\ r.ts = found /\ r.skip = gateRun.skip
      /\ r.cruiser = gateRun.cruiser
      /\ r.produced = gateRun.produced /\ r.apss = gateRun.apss /\ r.files = gateRun.files
      /\ r.coverage = gateRun.coverage /\ r.suite = gateRun.suite
  BY <1>1 DEF RunType
<1> HIDE DEF r
<1>6. AfterCruise(gateRun) /\ ~JudgedRun(r)
  BY <1>1, <1>5 DEF AfterCruise, JudgedRun
<1>7. CruiserFits(r, code)
  BY <1>1, <1>5, <1>6 DEF RunFits, CruiserFits, found
<1>8. RunFits(r, code)
  BY <1>1, <1>5, <1>7 DEF RunFits, TopologyFits, FilesFit, CoverageFits, SuiteFits
<1> QED
  BY <1>1, <1>2, <1>4, <1>5, <1>6, <1>8, RunStep

\* The steps after the analysis: what the cruiser and ts-morph found stays.
LEMMA ReadOn ==
  ASSUME SensorInv, UNCHANGED code, topology' \in TopologyType,
         AfterAnalyse(gateRun), gateRun.step # "done",
         NEW r \in RunType, gateRun' = r, r.step \in {"scan", "coverage", "suite", "judge"},
         r.skip = gateRun.skip, r.cruiser = gateRun.cruiser, r.ts = gateRun.ts,
         TopologyFits(r, code), FilesFit(r, code), CoverageFits(r, code), SuiteFits(r)
  PROVE  SensorInv'
<1>1. RunFits(gateRun, code) /\ ~JudgedRun(r)
  BY DEF SensorInv, JudgedRun
<1>2. CruiserFits(r, code)
  BY <1>1 DEF RunFits, CruiserFits, AfterCruise
<1>3. RunFits(r, code)
  BY <1>2 DEF RunFits
<1> QED
  BY <1>1, <1>3, RunStep

\* What a run that comes to the topology has read.
LEMMA RunFacts ==
  ASSUME SensorInv
  PROVE  /\ gateRun \in RunType /\ topology \in TopologyType /\ code \in [Facets -> Quality]
         /\ TopologyFits(gateRun, code) /\ FilesFit(gateRun, code)
         /\ CoverageFits(gateRun, code) /\ SuiteFits(gateRun)
         /\ {"apss", "apssCoupling", "duration"} \cup Scanners \cup Lanes \subseteq Facets
<1> QED
  BY DEF SensorInv, SensorTypeOK, RunFits, Facets

LEMMA ProduceStep ==
  ASSUME SensorInv, NEW outcome \in {"none", "failed", "ran"}, Produce(outcome)
  PROVE  SensorInv'
<1> DEFINE ran == outcome = "ran"
           found == ReadTopology(topology')
           r == [gateRun EXCEPT !.step = "scan", !.produced = ran, !.apss = found]
<1>1. gateRun.step = "topology" /\ gateRun' = r /\ UNCHANGED code
      /\ topology' \in AfterProduce(outcome)
  BY DEF Produce, At
<1>2. FreshFiles \in TopologyType /\ FreshFiles.functions = code["apss"] /\ code["apss"] \in Quality
      /\ FreshFiles.coupling = code["apssCoupling"] /\ code["apssCoupling"] \in Quality
  BY RunFacts DEF FreshFiles, TopologyType
<1>3. topology' \in TopologyType /\ (ran => topology' = FreshFiles)
  <2>1. topology \in TopologyType
    BY RunFacts
  <2>2. CASE outcome = "none"
    BY <1>1, <2>1, <2>2 DEF AfterProduce
  <2>3. CASE outcome = "ran"
    BY <1>1, <1>2, <2>3 DEF AfterProduce
  <2>4. CASE outcome = "failed"
    BY <1>1, <1>2, <2>1, <2>4 DEF AfterProduce, TopologyType
  <2> QED
    BY <2>2, <2>3, <2>4
<1>4. found \in [apss: Measure, apssCoupling: Measure]
  BY DEF ReadTopology, NoTopology, FunctionReading, CouplingReading, Measure
<1>5. ran => found.apss = code["apss"]
  BY <1>2, <1>3 DEF ReadTopology, FunctionReading, Quality
<1>6. ran \in BOOLEAN
  OBVIOUS
<1> HIDE DEF found, ran
<1>7. r \in RunType
  BY <1>4, <1>6, RunFacts DEF RunType
<1>8. /\ r.step = "scan" /\ r.produced = ran /\ r.apss = found /\ r.skip = gateRun.skip
      /\ r.cruiser = gateRun.cruiser /\ r.ts = gateRun.ts /\ r.files = gateRun.files
      /\ r.coverage = gateRun.coverage /\ r.suite = gateRun.suite
  BY RunFacts DEF RunType
<1> HIDE DEF r
<1>9. TopologyFits(r, code) /\ FilesFit(r, code) /\ CoverageFits(r, code) /\ SuiteFits(r)
  BY <1>5, <1>8, RunFacts DEF TopologyFits, FilesFit, CoverageFits, SuiteFits
<1>10. AfterAnalyse(gateRun)
  BY <1>1 DEF AfterAnalyse
<1> QED
  BY <1>1, <1>3, <1>7, <1>8, <1>9, <1>10, ReadOn

LEMMA NoReadingStep ==
  ASSUME SensorInv, NoTopologyRead \/ NoCoverageFile \/ NoSuiteFile
  PROVE  SensorInv'
<1>1. PICK s \in {"scan", "suite", "judge"} : gateRun' = [gateRun EXCEPT !.step = s]
  BY DEF NoTopologyRead, NoCoverageFile, NoSuiteFile
<1> DEFINE r == [gateRun EXCEPT !.step = s]
<1>2. UNCHANGED <<code, topology>> /\ gateRun.step \in {"topology", "coverage", "suite"}
  BY DEF NoTopologyRead, NoCoverageFile, NoSuiteFile, At
<1>3. /\ r \in RunType /\ r.step = s /\ r.produced = gateRun.produced /\ r.apss = gateRun.apss
      /\ r.skip = gateRun.skip
      /\ r.cruiser = gateRun.cruiser /\ r.ts = gateRun.ts /\ r.files = gateRun.files
      /\ r.coverage = gateRun.coverage /\ r.suite = gateRun.suite
  BY RunFacts DEF RunType
<1> HIDE DEF r
<1>4. TopologyFits(r, code) /\ FilesFit(r, code) /\ CoverageFits(r, code) /\ SuiteFits(r)
  BY <1>3, RunFacts DEF TopologyFits, FilesFit, CoverageFits, SuiteFits
<1>5. AfterAnalyse(gateRun)
  BY <1>2 DEF AfterAnalyse
<1> QED
  BY <1>1, <1>2, <1>3, <1>4, <1>5, RunFacts, ReadOn DEF r

LEMMA BuildFailsStep ==
  ASSUME SensorInv, BuildFails
  PROVE  SensorInv'
<1> DEFINE r == [gateRun EXCEPT !.step = "done", !.exit = 2]
<1>1. gateRun' = r /\ UNCHANGED <<code, topology>>
  BY DEF BuildFails
<1>2. /\ r \in RunType /\ r.step = "done" /\ r.exit = 2 /\ r.produced = gateRun.produced
      /\ r.apss = gateRun.apss /\ r.files = gateRun.files
      /\ r.coverage = gateRun.coverage /\ r.suite = gateRun.suite
  BY RunFacts DEF RunType
<1> HIDE DEF r
<1>3. ~AfterCruise(r) /\ ~JudgedRun(r)
  BY <1>2 DEF AfterCruise, AfterAnalyse, JudgedRun
<1>4. RunFits(r, code)
  BY <1>2, <1>3, RunFacts DEF RunFits, CruiserFits, AfterCruise, TopologyFits, FilesFit,
                              CoverageFits, SuiteFits
<1> QED
  BY <1>1, <1>2, <1>3, <1>4, RunFacts, RunStep

LEMMA ScanStep ==
  ASSUME SensorInv, Scan
  PROVE  SensorInv'
<1>1. PICK broken \in [Scanners -> {"absent", "none", "ran"}] :
        gateRun' = [gateRun EXCEPT !.step = "coverage",
                                   !.files = [s \in Scanners |->
                                                IF s \in gateRun.skip THEN "absent"
                                                ELSE IF broken[s] = "ran" THEN code[s]
                                                ELSE broken[s]]]
  BY DEF Scan
<1> DEFINE files == [s \in Scanners |-> IF s \in gateRun.skip THEN "absent"
                                        ELSE IF broken[s] = "ran" THEN code[s] ELSE broken[s]]
           r == [gateRun EXCEPT !.step = "coverage", !.files = files]
<1>2. gateRun' = r /\ UNCHANGED <<code, topology>> /\ gateRun.step = "scan"
  BY <1>1 DEF Scan, At
<1>3. \A s \in Scanners : files[s] \in {"absent", "none", code[s]} /\ code[s] \in Quality
  BY RunFacts
<1>4. files \in [Scanners -> MeasureFile]
  BY <1>3 DEF MeasureFile, Measure
<1> HIDE DEF files
<1>5. /\ r \in RunType /\ r.step = "coverage" /\ r.files = files /\ r.produced = gateRun.produced
      /\ r.apss = gateRun.apss /\ r.skip = gateRun.skip
      /\ r.cruiser = gateRun.cruiser /\ r.ts = gateRun.ts
      /\ r.coverage = gateRun.coverage /\ r.suite = gateRun.suite
  BY <1>4, RunFacts DEF RunType
<1> HIDE DEF r
<1>6. TopologyFits(r, code) /\ FilesFit(r, code) /\ CoverageFits(r, code) /\ SuiteFits(r)
  BY <1>3, <1>5, RunFacts DEF TopologyFits, FilesFit, CoverageFits, SuiteFits
<1>7. AfterAnalyse(gateRun)
  BY <1>2 DEF AfterAnalyse
<1> QED
  BY <1>2, <1>5, <1>6, <1>7, RunFacts, ReadOn

\* A lane is reported as the code is, or without a number, or not at all.
LEMMA CoverageStep ==
  ASSUME SensorInv, NEW given \in SUBSET Lanes, NEW payloads \in [given -> Payload],
         Coverage(payloads)
  PROVE  SensorInv'
<1> DEFINE results == [l \in DOMAIN payloads |-> LaneResult(l, payloads[l])]
           coverage == [file |-> TRUE, lanes |-> Envelope(results)]
           r == [gateRun EXCEPT !.step = "suite", !.coverage = coverage]
<1>1. gateRun' = r /\ UNCHANGED <<code, topology>> /\ gateRun.step = "coverage"
  BY DEF Coverage, At
<1>2. \A l \in given : results[l] \in {code[l], "none", "failed"}
  BY DEF LaneResult, Payload
<1>3. DOMAIN results = given
  OBVIOUS
<1> HIDE DEF results
<1>4. Envelope(results) = [l \in Lanes |-> Envelope(results)[l]]
      /\ \A l \in Lanes : Envelope(results)[l] \in {"none", code[l]}
  BY <1>2, <1>3 DEF Envelope
<1>5. coverage \in [file: BOOLEAN, lanes: [Lanes -> Measure]]
  <2>1. \A l \in Lanes : code[l] \in Measure /\ "none" \in Measure
    BY RunFacts DEF Measure
  <2> QED
    BY <1>4, <2>1
<1>6. coverage.file = TRUE /\ coverage.lanes = Envelope(results)
  OBVIOUS
<1> HIDE DEF coverage
<1>7. /\ r \in RunType /\ r.step = "suite" /\ r.coverage = coverage
      /\ r.produced = gateRun.produced /\ r.apss = gateRun.apss /\ r.skip = gateRun.skip
      /\ r.cruiser = gateRun.cruiser /\ r.ts = gateRun.ts /\ r.files = gateRun.files
      /\ r.suite = gateRun.suite
  BY <1>5, RunFacts DEF RunType
<1> HIDE DEF r
<1>8. TopologyFits(r, code) /\ FilesFit(r, code) /\ CoverageFits(r, code) /\ SuiteFits(r)
  BY <1>4, <1>6, <1>7, RunFacts DEF TopologyFits, FilesFit, CoverageFits, SuiteFits
<1>9. AfterAnalyse(gateRun)
  BY <1>1 DEF AfterAnalyse
<1> QED
  BY <1>1, <1>7, <1>8, <1>9, RunFacts, ReadOn

LEMMA SuiteStep ==
  ASSUME SensorInv, NEW records \in Records, Suite(records)
  PROVE  SensorInv'
<1> DEFINE available == SuiteAvailable(records)
           suite == [available |-> available,
                     p95 |-> IF available THEN code["duration"] ELSE "none",
                     count |-> Len(records), ran |-> AllExitZero(records),
                     covered |-> LastCovered(records)]
           r == [gateRun EXCEPT !.step = "judge", !.suite = suite]
<1>1. gateRun' = r /\ UNCHANGED <<code, topology>> /\ gateRun.step = "suite"
  BY DEF Suite, At
<1>2. Len(records) \in Nat
  BY SensorAssumption DEF Records
<1>3. /\ SuiteAvailable(records) \in BOOLEAN /\ AllExitZero(records) \in BOOLEAN
      /\ LastCovered(records) \in BOOLEAN
      /\ SuiteAvailable(records) => AllExitZero(records) /\ LastCovered(records)
  BY DEF SuiteAvailable, AllExitZero, LastCovered
<1>4. code["duration"] \in Measure /\ "none" \in Measure
  BY RunFacts DEF Measure
<1>5. suite \in [available: BOOLEAN, p95: Measure, count: Nat, ran: BOOLEAN, covered: BOOLEAN]
  BY <1>2, <1>3, <1>4
<1>6. suite.available => suite.ran /\ suite.covered
  BY <1>3
<1> HIDE DEF suite
<1>7. /\ r \in RunType /\ r.step = "judge" /\ r.suite = suite
      /\ r.produced = gateRun.produced /\ r.apss = gateRun.apss /\ r.skip = gateRun.skip
      /\ r.cruiser = gateRun.cruiser /\ r.ts = gateRun.ts /\ r.files = gateRun.files
      /\ r.coverage = gateRun.coverage
  BY <1>5, RunFacts DEF RunType
<1> HIDE DEF r
<1>8. TopologyFits(r, code) /\ FilesFit(r, code) /\ CoverageFits(r, code) /\ SuiteFits(r)
  BY <1>6, <1>7, RunFacts DEF TopologyFits, FilesFit, CoverageFits, SuiteFits
<1>9. AfterAnalyse(gateRun)
  BY <1>1 DEF AfterAnalyse
<1> QED
  BY <1>1, <1>7, <1>8, <1>9, RunFacts, ReadOn

\* The judgement is about the readings, not about the step or the exit code.
LEMMA SameVerdict ==
  ASSUME NEW r, NEW q, q.profile = r.profile, q.cruiser = r.cruiser, q.ts = r.ts, q.apss = r.apss,
         q.files = r.files, q.coverage = r.coverage, q.suite = r.suite
  PROVE  GateExit(q) = GateExit(r)
<1>1. \A m : MeasureOf(q, m) = MeasureOf(r, m)
  BY DEF MeasureOf, Spread, CircularEdges, Fanout
<1>2. \A m : Fails(q, m) <=> Fails(r, m)
  BY <1>1 DEF Fails, CoverageFails
<1> QED
  BY <1>2 DEF GateExit

LEMMA JudgeStep ==
  ASSUME SensorInv, Judge
  PROVE  SensorInv'
<1> DEFINE judgement == GateExit(gateRun)
           r == [gateRun EXCEPT !.step = "done", !.exit = judgement]
<1>1. gateRun' = r /\ UNCHANGED <<code, topology>> /\ gateRun.step = "judge"
  BY DEF Judge, At
<1>2. judgement \in {0, 1}
  BY DEF GateExit
<1> HIDE DEF judgement
<1>3. /\ r \in RunType /\ r.step = "done" /\ r.exit = judgement /\ r.suite = gateRun.suite
      /\ r.profile = gateRun.profile
      /\ r.produced = gateRun.produced /\ r.apss = gateRun.apss /\ r.skip = gateRun.skip
      /\ r.cruiser = gateRun.cruiser /\ r.ts = gateRun.ts /\ r.files = gateRun.files
      /\ r.coverage = gateRun.coverage
  BY <1>2, RunFacts DEF RunType
<1> HIDE DEF r
<1>4. r.exit = GateExit(r)
  BY <1>3, SameVerdict DEF judgement
<1>5. AfterAnalyse(gateRun) /\ AfterCruise(gateRun)
  BY <1>1 DEF AfterAnalyse, AfterCruise
<1>6. CruiserFits(r, code)
  BY <1>3, <1>5 DEF SensorInv, RunFits, CruiserFits
<1>7. RunFits(r, code)
  BY <1>3, <1>6, RunFacts DEF RunFits, TopologyFits, FilesFit, CoverageFits, SuiteFits
<1> QED
  BY <1>1, <1>3, <1>4, <1>7, RunFacts, RunStep

LEMMA SensorStep ==
  ASSUME SensorInv, [SensorNext]_sensorVars
  PROVE  SensorInv'
<1>1. CASE UNCHANGED sensorVars
  BY <1>1, SameVerdict
     DEF sensorVars, SensorInv, SensorTypeOK, At, RunFits, CruiserFits, TopologyFits, FilesFit,
         CoverageFits, SuiteFits, AfterCruise, AfterAnalyse, JudgedRun
<1>2. CASE SensorNext
  BY <1>2, NextRunStep, EditCodeStep, BeginStep, CruiseStep, AnalyseStep, ProduceStep,
     NoReadingStep, BuildFailsStep, ScanStep, CoverageStep, SuiteStep, JudgeStep DEF SensorNext
<1> QED
  BY <1>1, <1>2

LEMMA SensorInvariant == SensorSpec => []SensorInv
<1> QED
  BY SensorStart, SensorStep, PTL DEF SensorSpec

-----------------------------------------------------------------------------
(* The theorems. *)

\* The metrics of scanners and languages have names of their own.
LEMMA MetricNames ==
  ASSUME NEW r
  PROVE  /\ MeasureOf(r, "halstead") = r.apss.apss /\ AdapterOf("halstead") = "apss-topology"
         /\ MeasureOf(r, "spread") = Spread(r) /\ AdapterOf("spread") = "complexity"
         /\ MeasureOf(r, "cycles") = CircularEdges(r) /\ MeasureOf(r, "fanout") = Fanout(r)
         /\ MeasureOf(r, "p95") = r.suite.p95
         /\ MeasureOf(r, "iterations") = CountReading(r.suite)
         /\ AdapterOf("iterations") = "suite-duration"
         /\ \A l \in Lanes : MeasureOf(r, l) = r.coverage.lanes[l] /\ AdapterOf(l) = "coverage"
         /\ \A s \in Scanners : MeasureOf(r, s) = FileReading(r.files[s]) /\ AdapterOf(s) = s
         /\ {"halstead", "spread", "cycles", "fanout", "p95", "iterations"} \cup Lanes
               \cup Scanners \subseteq Metrics
         /\ \A m \in {"halstead", "spread", "cycles", "fanout", "iterations"} \cup Lanes
               \cup Scanners : FailOnRegression(m)
<1>1. \A l \in Lanes : MeasureOf(r, l) = r.coverage.lanes[l] /\ AdapterOf(l) = "coverage"
  BY SensorAssumption DEF MeasureOf, AdapterOf
<1>2. \A s \in Scanners : MeasureOf(r, s) = FileReading(r.files[s]) /\ AdapterOf(s) = s
  BY SensorAssumption DEF MeasureOf, AdapterOf
<1>3. {"peak", "spread", "halstead", "cycles", "fanout", "p95", "iterations"} \cap Lanes = {}
  BY SensorAssumption
<1>4. /\ MeasureOf(r, "halstead") = r.apss.apss /\ AdapterOf("halstead") = "apss-topology"
      /\ MeasureOf(r, "spread") = Spread(r) /\ AdapterOf("spread") = "complexity"
      /\ MeasureOf(r, "cycles") = CircularEdges(r) /\ MeasureOf(r, "fanout") = Fanout(r)
  BY <1>3 DEF MeasureOf, AdapterOf
<1>5. /\ MeasureOf(r, "p95") = r.suite.p95
      /\ MeasureOf(r, "iterations") = CountReading(r.suite)
      /\ AdapterOf("iterations") = "suite-duration"
  BY <1>3 DEF MeasureOf, AdapterOf
<1>6. \A m \in {"halstead", "spread", "cycles", "fanout", "iterations"} \cup Lanes
         \cup Scanners : FailOnRegression(m)
  BY SensorAssumption DEF FailOnRegression
<1> QED
  BY <1>1, <1>2, <1>4, <1>5, <1>6 DEF Metrics

\* What a run that passes has judged.
LEMMA PassedFacts ==
  ASSUME SensorInv, Passed
  PROVE  /\ JudgedRun(gateRun) /\ AfterAnalyse(gateRun) /\ AfterCruise(gateRun)
         /\ \A m \in Metrics : ~Fails(gateRun, m)
<1>1. JudgedRun(gateRun)
  BY DEF Passed, JudgedRun
<1>2. GateExit(gateRun) = 0
  BY <1>1 DEF SensorInv, Passed
<1> QED
  BY <1>1, <1>2 DEF GateExit, AfterAnalyse, AfterCruise

LEMMA PassedIsGood ==
  ASSUME SensorInv, Passed, NEW a \in RequiredBy(gateRun.profile), NEW f \in FacetsOf(a) \ Blind
  PROVE  code[f] = "good"
<1> DEFINE r == gateRun
<1>1. \A m \in Metrics : ~Fails(r, m)
  BY PassedFacts
<1>2. a \in Adapters
  BY SensorAssumption DEF RequiredBy
<1>3. \A m \in Metrics : MeasureOf(r, m) = "bad" => ~FailOnRegression(m)
  BY <1>1 DEF Fails
<1>4. \A m \in Metrics : AdapterOf(m) = a => MeasureOf(r, m) # "none"
  BY <1>1 DEF Fails
<1>5. r \in RunType /\ RunFits(r, code) /\ \A g \in Facets : code[g] \in Quality
  BY RunFacts DEF SensorInv
<1>6. CruiserFits(r, code) /\ AfterCruise(r) /\ AfterAnalyse(r)
  BY <1>5, PassedFacts DEF RunFits
<1>7. {"cycles", "coupling", "ts", "apss"} \cup Scanners \cup Lanes \subseteq Facets
  BY DEF Facets
<1>8. CASE a = "cruiser-coupling"
  <2>1. f \in {"cycles", "coupling"} /\ "dep-cruiser" \notin r.skip
    BY <1>8 DEF FacetsOf, Blind
  <2>2. r.cruiser.cycles = code["cycles"] /\ r.cruiser.coupling = code["coupling"]
    BY <1>6, <2>1 DEF CruiserFits
  <2>3. CASE f = "cycles"
    <3>1. CircularEdges(r) # "bad"
      BY <1>3, MetricNames
    <3> QED
      BY <1>5, <1>7, <2>2, <2>3, <3>1 DEF CircularEdges, CountOf, Quality
  <2>4. CASE f = "coupling"
    <3>1. Fanout(r) # "bad"
      BY <1>3, MetricNames
    <3>2. ~(PerFile /\ r.apss.apssCoupling # "none")
      BY <2>4 DEF Blind, NoTopology
    <3>3. Fanout(r) = Worst({r.apss.apssCoupling, r.cruiser.coupling})
      BY <3>2 DEF Fanout
    <3>4. \A R : Worst(R) # "bad" => "bad" \notin R
      BY DEF Worst
    <3>5. r.cruiser.coupling # "bad"
      BY <3>1, <3>3, <3>4
    <3>6. code["coupling"] \in Quality
      BY <1>5, <1>7
    <3> QED
      BY <2>2, <2>4, <3>5, <3>6 DEF Quality
  <2> QED
    BY <2>1, <2>3, <2>4
<1>9. CASE a = "complexity"
  <2>1. f = "ts" /\ r.skip \cap {"ts-morph", "dep-cruiser"} = {}
    BY <1>9 DEF FacetsOf, Blind
  <2>2. r.ts = code["ts"]
    BY <1>6, <2>1 DEF CruiserFits
  <2>3. Spread(r) # "bad"
    BY <1>3, MetricNames
  <2> QED
    BY <1>5, <1>7, <2>1, <2>2, <2>3 DEF Spread, CountOf, Quality
<1>10. CASE a = "apss-topology"
  <2>1. f = "apss" /\ r.produced
    BY <1>10 DEF FacetsOf, Blind
  <2>2. r.apss.apss = code["apss"]
    BY <1>5, <2>1 DEF RunFits, TopologyFits
  <2>3. r.apss.apss # "bad"
    BY <1>3, MetricNames
  <2> QED
    BY <1>5, <1>7, <2>1, <2>2, <2>3 DEF Quality
<1>11. CASE a = "coverage"
  <2>1. f \in Lanes
    BY <1>11 DEF FacetsOf
  <2>2. r.coverage.lanes[f] \notin {"none", "bad"}
    BY <1>3, <1>4, <1>11, <2>1, MetricNames
  <2>3. r.coverage.lanes[f] \in {"none", code[f]}
    BY <1>5, <2>1 DEF RunFits, CoverageFits
  <2> QED
    BY <1>5, <1>7, <2>1, <2>2, <2>3 DEF Quality
<1>12. CASE a = "suite-duration"
  BY <1>12 DEF FacetsOf
<1>13. CASE a \in Scanners
  <2>1. f = a
    BY <1>13, SensorAssumption DEF FacetsOf
  <2>2. FileReading(r.files[a]) \notin {"none", "bad"}
    BY <1>3, <1>4, <1>13, MetricNames
  <2>3. r.files[a] \in {"absent", "none", code[a]}
    BY <1>5, <1>13 DEF RunFits, FilesFit
  <2> QED
    BY <1>5, <1>7, <1>13, <2>1, <2>2, <2>3 DEF FileReading, Quality
<1> QED
  BY <1>2, <1>8, <1>9, <1>10, <1>11, <1>12, <1>13 DEF Adapters

LEMMA PassedSuiteRan ==
  ASSUME SensorInv, Passed
  PROVE  SuiteRan
<1> SUFFICES ASSUME "suite-duration" \in RequiredBy(gateRun.profile)
             PROVE  gateRun.suite.ran /\ gateRun.suite.covered /\ gateRun.suite.count >= Iterations
  BY DEF SuiteRan
<1>1. ~Fails(gateRun, "iterations")
  BY PassedFacts, MetricNames
<1>2. CountReading(gateRun.suite) \notin {"none", "bad"}
  BY <1>1, MetricNames DEF Fails
<1>3. gateRun.suite.available /\ ~(gateRun.suite.count < Iterations)
  BY <1>2 DEF CountReading
<1>4. gateRun.suite.ran /\ gateRun.suite.covered
  BY <1>3, RunFacts DEF SuiteFits
<1>5. gateRun.suite.count \in Nat /\ Iterations \in Nat
  BY RunFacts, SensorAssumption DEF RunType
<1> QED
  BY <1>3, <1>4, <1>5

(***************************************************************************)
(* Type correctness of the code's state, the topology files and a run.     *)
(***************************************************************************)
THEOREM SensorTypeCorrect == SensorSpec => []SensorTypeOK
<1>1. SensorInv => SensorTypeOK
  BY DEF SensorInv
<1> QED
  BY <1>1, SensorInvariant, PTL

(***************************************************************************)
(* Whatever adapters there are and profiles require, and whichever tools   *)
(* are missing or die: a run of gate.mjs that passes has measured what its *)
(* profile requires on the code as it is, and found it good.  Of the       *)
(* report this is claimed where it can be (Blind): cycles, coupling and    *)
(* complexity if --skip-tier did not leave out their tier, the topology if *)
(* this run produced it, coupling if no topology lists the files.          *)
(***************************************************************************)
THEOREM GreenRunsAreTrue == SensorSpec => []GreenIsTrue
<1>1. SensorInv => GreenIsTrue
  BY PassedIsGood, PassedSuiteRan DEF GreenIsTrue, MeasuredIsGood
<1> QED
  BY <1>1, SensorInvariant, PTL

(***************************************************************************)
(* No run passes on a coverage file with a lane that is short, failed or   *)
(* left out, whatever its profile requires: the adapter writes all of the  *)
(* lanes or none, and the gate wants every lane once there is a file.      *)
(***************************************************************************)
THEOREM CoverageFilesAreComplete == SensorSpec => []CoverageIsContract
<1>1. SensorInv => CoverageIsContract
  <2> SUFFICES ASSUME SensorInv, Passed, gateRun.coverage.file, NEW l \in Lanes
               PROVE  code[l] = "good"
    BY DEF CoverageIsContract
  <2>1. ~Fails(gateRun, l)
    BY PassedFacts, MetricNames
  <2>2. gateRun.coverage.lanes[l] \notin {"none", "bad"}
    BY <2>1, MetricNames DEF Fails, CoverageFails
  <2>3. gateRun.coverage.lanes[l] \in {"none", code[l]} /\ code[l] \in Quality
    BY RunFacts DEF CoverageFits
  <2> QED
    BY <2>2, <2>3 DEF Quality
<1> QED
  BY <1>1, SensorInvariant, PTL

(***************************************************************************)
(* fitness_report.mjs says of the same readings what gate.mjs says, but    *)
(* for the duration of the suite and for readings that are missing.        *)
(***************************************************************************)
THEOREM ReportAgreesWithGate == SensorSpec => []ReportAgrees
<1>1. SensorInv => ReportAgrees
  <2> SUFFICES ASSUME SensorInv, gateRun.step = "done", gateRun.exit # 2
               PROVE  \/ FitnessExit(gateRun) = gateRun.exit
                      \/ gateRun.exit = 0 /\ gateRun.suite.p95 = "bad"
                      \/ gateRun.exit = 1 /\ \E m \in Metrics : MeasureOf(gateRun, m) = "none"
    BY DEF ReportAgrees
  <2>1. gateRun.exit = GateExit(gateRun)
    BY DEF SensorInv, JudgedRun
  <2>2. CASE \E m \in Metrics : Fails(gateRun, m)
    <3>1. gateRun.exit = 1
      BY <2>1, <2>2 DEF GateExit
    <3>2. \/ \E m \in Metrics : MeasureOf(gateRun, m) = "none"
          \/ \E m \in Metrics : MeasureOf(gateRun, m) = "bad"
      BY <2>2 DEF Fails, CoverageFails
    <3> QED
      BY <3>1, <3>2 DEF FitnessExit, OverallStatus, StatusOf
  <2>3. CASE \A m \in Metrics : ~Fails(gateRun, m)
    <3>1. gateRun.exit = 0
      BY <2>1, <2>3 DEF GateExit
    <3>2. \A m \in Metrics : MeasureOf(gateRun, m) = "bad" => m = "p95"
      BY <2>3 DEF Fails, FailOnRegression
    <3>3. MeasureOf(gateRun, "p95") = gateRun.suite.p95
      BY MetricNames
    <3> QED
      BY <3>1, <3>2, <3>3 DEF FitnessExit, OverallStatus, StatusOf
  <2> QED
    BY <2>2, <2>3
<1> QED
  BY <1>1, SensorInvariant, PTL

-----------------------------------------------------------------------------
(***************************************************************************)
(* The migration of issues: what bd takes, what verify says and what br    *)
(* gets back.  A store may hold any finite number of issues.               *)
(***************************************************************************)
(* Numbers: the least and the greatest of a set, and the numbers not in one. *)

LEMMA LeastNumber ==
  ASSUME NEW T, T \subseteq Nat, T # {}
  PROVE  \E x \in T : \A y \in T : x <= y
<1>1. \E x \in T : \A y \in T : ~ (<<y, x>> \in OpToRel(<, Nat))
  BY WFMin, NatLessThanWellFounded, Zenon
<1>2. PICK x \in T : \A y \in T : ~ (<<y, x>> \in OpToRel(<, Nat))
  BY <1>1
<1>3. \A y \in T : ~(y < x)
  BY <1>2 DEF OpToRel
<1>4. \A y \in T : x <= y
  <2> SUFFICES ASSUME NEW y \in T PROVE x <= y
    OBVIOUS
  <2>1. x \in Nat /\ y \in Nat
    OBVIOUS
  <2> QED
    BY <1>3, <2>1
<1> QED
  BY <1>4

\* Every finite set of numbers is bounded: the least part of it whose removal leaves a
\* bounded set is empty.
LEMMA FiniteBounded ==
  ASSUME NEW S, S \subseteq Nat, IsFiniteSet(S)
  PROVE  \E b \in Nat : \A s \in S : s <= b
<1> DEFINE Bounded(U) == \E b \in Nat : \A s \in S \ U : s <= b
           T == {U \in SUBSET S : Bounded(U)}
           R == StrictSubsetOrdering(S)
<1>1. IsWellFoundedOn(R, SUBSET S)
  BY FS_StrictSubsetOrderingWellFounded, FS_FiniteSubsetsOfFinite
<1>2. S \in T
  <2>1. \A s \in S \ S : s <= 0
    OBVIOUS
  <2> QED
    BY <2>1
<1>3. T \subseteq SUBSET S /\ T # {}
  BY <1>2
<1> HIDE DEF R, T
<1>4. \E U \in T : \A V \in T : ~ (<<V, U>> \in R)
  BY <1>1, <1>3, WFMin, Zenon
<1>5. PICK U \in T : \A V \in T : ~ (<<V, U>> \in R)
  BY <1>4
<1>6. U = {}
  <2> SUFFICES ASSUME NEW x \in U PROVE FALSE
    OBVIOUS
  <2>1. U \subseteq S /\ x \in S /\ x \in Nat
    BY <1>5 DEF T
  <2>2. PICK b \in Nat : \A s \in S \ U : s <= b
    BY <1>5 DEF T
  <2>3. \A s \in S \ (U \ {x}) : s <= b + x
    BY <2>1, <2>2
  <2>4. b + x \in Nat
    BY <2>1
  <2>5. U \ {x} \in T
    BY <2>1, <2>3, <2>4 DEF T
  <2>6. <<U \ {x}, U>> \in R
    BY <2>1 DEF R, StrictSubsetOrdering
  <2> QED
    BY <1>5, <2>5, <2>6
<1> QED
  BY <1>5, <1>6 DEF T

LEMMA GreatestNumber ==
  ASSUME NEW S, S \subseteq Nat, IsFiniteSet(S)
  PROVE  \E n \in S \cup {0} : \A m \in S : m <= n
<1> DEFINE T == {b \in Nat : \A s \in S : s <= b}
<1>1. T \subseteq Nat /\ T # {}
  BY FiniteBounded
<1>2. PICK n \in T : \A y \in T : n <= y
  BY <1>1, LeastNumber
<1>3. n \in S \cup {0}
  <2> SUFFICES ASSUME n \notin S, n # 0 PROVE FALSE
    OBVIOUS
  <2>1. n \in Nat /\ n - 1 \in Nat /\ \A s \in S : s <= n
    BY <1>2
  <2>2. \A s \in S : s <= n - 1
    BY <2>1
  <2>3. n <= n - 1
    BY <1>2, <2>1, <2>2
  <2> QED
    BY <2>1, <2>3
<1> QED
  BY <1>2, <1>3

\* The allocator: its k-th number is free, and has k free numbers up to it.
LEMMA AllocatedFree ==
  ASSUME NEW used, used \subseteq Nat, IsFiniteSet(used), NEW k \in Nat, k >= 1
  PROVE  /\ Allocated(used, k) \in Nat \ used /\ Allocated(used, k) >= 1
         /\ Cardinality((1..Allocated(used, k)) \ used) = k
<1> DEFINE Free(n) == (1..n) \ used
           c == Cardinality(used)
           T == {n \in Nat : Cardinality(Free(n)) >= k}
<1>1. c \in Nat
  BY FS_CardinalityType
<1>2. ASSUME NEW n \in Nat PROVE IsFiniteSet(Free(n)) /\ Cardinality(Free(n)) \in Nat
  <2>1. IsFiniteSet(1..n)
    BY FS_Interval
  <2>2. IsFiniteSet(Free(n))
    BY <2>1, FS_Difference
  <2> QED
    BY <2>2, FS_CardinalityType
<1>3. Cardinality(Free(0)) = 0
  BY FS_EmptySet
<1>4. ASSUME NEW n \in Nat
      PROVE  Cardinality(Free(n + 1)) = IF n + 1 \in used THEN Cardinality(Free(n))
                                        ELSE Cardinality(Free(n)) + 1
  <2>1. CASE n + 1 \in used
    <3>1. Free(n + 1) = Free(n)
      BY <2>1
    <3> QED
      BY <2>1, <3>1
  <2>2. CASE n + 1 \notin used
    <3>1. Free(n + 1) = Free(n) \cup {n + 1} /\ n + 1 \notin Free(n)
      BY <2>2
    <3> QED
      BY <1>2, <2>2, <3>1, FS_AddElement
  <2> QED
    BY <2>1, <2>2
<1>5. c + k \in T
  <2> DEFINE all == 1..(c + k)
  <2>0. c + k \in Int /\ 1 \in Int /\ c + k >= 1
    BY <1>1
  <2>1. c + k \in Nat /\ IsFiniteSet(all) /\ Cardinality(all) = c + k
    <3> HIDE DEF c
    <3>1. IsFiniteSet(all) /\ Cardinality(all) = IF 1 > c + k THEN 0 ELSE (c + k) - 1 + 1
      BY <2>0, FS_Interval
    <3> QED
      BY <1>1, <2>0, <3>1
  <2>2. Cardinality(all \ used) = Cardinality(all) - Cardinality(all \cap used)
    BY <2>1, FS_Difference
  <2>3. Cardinality(all \cap used) <= c
    BY FS_Subset
  <2>4. Cardinality(all \cap used) \in Nat
    BY FS_Subset, FS_CardinalityType
  <2> QED
    BY <1>1, <2>1, <2>2, <2>3, <2>4
<1>6. PICK n \in T : \A m \in T : n <= m
  BY <1>5, LeastNumber
<1>7. n \in Nat /\ n <= c + k /\ Cardinality(Free(n)) >= k
  BY <1>5, <1>6
<1>8. n # 0
  BY <1>3, <1>7
<1>9. n - 1 \in Nat /\ (n - 1) + 1 = n /\ n - 1 \notin T
  BY <1>6, <1>7, <1>8
<1>10. Cardinality(Free(n - 1)) < k
  <2>1. ~(Cardinality(Free(n - 1)) >= k) /\ Cardinality(Free(n - 1)) \in Nat
    BY <1>2, <1>9
  <2> QED
    BY <2>1
<1>11. n \notin used /\ Cardinality(Free(n)) = k
  <2>1. Cardinality(Free(n)) = IF n \in used THEN Cardinality(Free(n - 1))
                               ELSE Cardinality(Free(n - 1)) + 1
    BY <1>4, <1>9
  <2>2. Cardinality(Free(n)) \in Nat /\ Cardinality(Free(n - 1)) \in Nat
    BY <1>2, <1>7, <1>9
  <2> QED
    BY <1>7, <1>10, <2>1, <2>2
<1>12. n \in 1..(c + k)
  BY <1>1, <1>7, <1>8
<1>13. Allocated(used, k) \in 1..(c + k) /\ Allocated(used, k) \notin used
       /\ Cardinality((1..Allocated(used, k)) \ used) = k
  BY <1>11, <1>12 DEF Allocated
<1> QED
  BY <1>1, <1>13

-----------------------------------------------------------------------------
(* Stores of issues, and the comments in them. *)

IssueComment == [id : Nat, text : Texts]
Whence == {x.repo : x \in Shapes} \cup {"none"}
IssueRecord ==
  [status : {x.status : x \in Shapes}, type : {x.type : x \in Shapes},
   size : {x.size : x \in Shapes}, repo : Whence, meta : Whence,
   edges : SUBSET Issues, comments : Seq(IssueComment)]

IssueStore(store) ==
  /\ DOMAIN store \subseteq Issues /\ IsFiniteSet(DOMAIN store)
  /\ store \in [DOMAIN store -> IssueRecord]
  /\ \A i \in DOMAIN store : Len(store[i].comments) <= MaxComments

\* Every comment has a number of its own, as br wants it.
Numbering(store) ==
  /\ \A i \in DOMAIN store : \A n \in DOMAIN store[i].comments : store[i].comments[n].id # NoId
  /\ \A i, j \in DOMAIN store :
       \A n \in DOMAIN store[i].comments, m \in DOMAIN store[j].comments :
         store[i].comments[n].id = store[j].comments[m].id => i = j /\ n = m

LEMMA StoredComments ==
  ASSUME NEW store, IssueStore(store), NEW i \in DOMAIN store
  PROVE  /\ store[i] \in IssueRecord /\ i \in Issues /\ i \in Nat
         /\ store[i].comments \in Seq(IssueComment) /\ Len(store[i].comments) \in Nat
         /\ DOMAIN store[i].comments = 1..Len(store[i].comments)
         /\ DOMAIN store[i].comments \subseteq 1..MaxComments
         /\ \A n \in DOMAIN store[i].comments :
              /\ store[i].comments[n] \in IssueComment
              /\ store[i].comments[n].id \in Nat /\ store[i].comments[n].text \in Texts
<1>1. store[i] \in IssueRecord /\ i \in Issues /\ Len(store[i].comments) <= MaxComments
  BY DEF IssueStore
<1>2. store[i].comments \in Seq(IssueComment)
  BY <1>1 DEF IssueRecord
<1>3. /\ Len(store[i].comments) \in Nat /\ DOMAIN store[i].comments = 1..Len(store[i].comments)
      /\ \A n \in DOMAIN store[i].comments : store[i].comments[n] \in IssueComment
  BY <1>2
<1>4. DOMAIN store[i].comments \subseteq 1..MaxComments
  BY <1>1, <1>3, BeadsAssumption
<1>5. \A c \in IssueComment : c.id \in Nat /\ c.text \in Texts
  BY DEF IssueComment
<1> QED
  BY <1>1, <1>2, <1>3, <1>4, <1>5, BeadsAssumption

LEMMA CommentPlaces ==
  ASSUME NEW store, IssueStore(store)
  PROVE  /\ \A i \in DOMAIN store : \A n \in DOMAIN store[i].comments : <<i, n>> \in Comments(store)
         /\ \A c \in Comments(store) : /\ c = <<c[1], c[2]>> /\ c[1] \in DOMAIN store
                                       /\ c[2] \in DOMAIN store[c[1]].comments
                                       /\ c[1] \in Nat /\ c[2] \in Nat
         /\ IsFiniteSet(Comments(store))
<1>1. ASSUME NEW i \in DOMAIN store, NEW n \in DOMAIN store[i].comments
      PROVE  <<i, n>> \in Comments(store)
  BY StoredComments DEF Comments
<1>2. ASSUME NEW c \in Comments(store)
      PROVE  /\ c = <<c[1], c[2]>> /\ c[1] \in DOMAIN store
             /\ c[2] \in DOMAIN store[c[1]].comments
             /\ c[1] \in Nat /\ c[2] \in Nat
  <2>1. /\ c \in (DOMAIN store) \X (1..MaxComments) /\ c[2] <= Len(store[c[1]].comments)
    BY DEF Comments
  <2>2. c = <<c[1], c[2]>> /\ c[1] \in DOMAIN store /\ c[2] \in 1..MaxComments
    BY <2>1
  <2> QED
    BY <2>1, <2>2, StoredComments
<1>3. IsFiniteSet(Comments(store))
  <2>1. IsFiniteSet(DOMAIN store) /\ IsFiniteSet(1..MaxComments)
    BY FS_Interval, BeadsAssumption DEF IssueStore
  <2>2. IsFiniteSet((DOMAIN store) \X (1..MaxComments))
    BY <2>1, FS_Product
  <2>3. Comments(store) \subseteq (DOMAIN store) \X (1..MaxComments)
    BY DEF Comments
  <2> QED
    BY <2>2, <2>3, FS_Subset
<1> QED
  BY <1>1, <1>2, <1>3

LEMMA CommentNumbers ==
  ASSUME NEW store, IssueStore(store)
  PROVE  /\ CommentIds(store) \subseteq Nat /\ NoId \notin CommentIds(store)
         /\ IsFiniteSet(CommentIds(store))
         /\ \A i \in DOMAIN store : \A n \in DOMAIN store[i].comments :
              store[i].comments[n].id # NoId => store[i].comments[n].id \in CommentIds(store)
<1> DEFINE places == Comments(store)
           ids == {store[c[1]].comments[c[2]].id : c \in places}
           f == [c \in places |-> store[c[1]].comments[c[2]].id]
<1>1. ids \subseteq Nat
  BY CommentPlaces, StoredComments
<1>2. f \in Surjection(places, ids)
  BY DEF Surjection
<1>3. IsFiniteSet(ids)
  BY <1>2, CommentPlaces, FS_Surjection
<1>4. CommentIds(store) = ids \ {NoId}
  BY DEF CommentIds
<1>5. \A i \in DOMAIN store : \A n \in DOMAIN store[i].comments : store[i].comments[n].id \in ids
  <2> SUFFICES ASSUME NEW i \in DOMAIN store, NEW n \in DOMAIN store[i].comments
               PROVE  store[i].comments[n].id \in ids
    OBVIOUS
  <2>1. <<i, n>> \in places /\ <<i, n>>[1] = i /\ <<i, n>>[2] = n
    BY CommentPlaces
  <2> QED
    BY <2>1
<1> HIDE DEF ids
<1>6. IsFiniteSet(CommentIds(store))
  BY <1>3, <1>4, FS_Difference
<1> QED
  BY <1>1, <1>4, <1>5, <1>6

LEMMA EmptyStore == IssueStore(NoStore) /\ Numbering(NoStore) /\ DOMAIN NoStore = {}
<1>1. DOMAIN NoStore = {}
  BY DEF NoStore
<1>2. NoStore \in [{} -> IssueRecord]
  BY DEF NoStore
<1> QED
  BY <1>1, <1>2, FS_EmptySet DEF IssueStore, Numbering

-----------------------------------------------------------------------------
(* The way back gives every comment a number of its own. *)

\* What the reference says of a comment: the number it had at its place, if the text is the same.
LEMMA ReferenceNumber ==
  ASSUME NEW reference, IssueStore(reference), Numbering(reference),
         NEW i, NEW n \in Nat, NEW text
  PROVE  OriginalId(reference, i, n, text) =
           IF /\ i \in DOMAIN reference
              /\ n \in DOMAIN reference[i].comments /\ reference[i].comments[n].text = text
           THEN reference[i].comments[n].id ELSE NoId
<1>1. CASE i \notin DOMAIN reference
  BY <1>1 DEF OriginalId
<1>2. CASE i \in DOMAIN reference
  <2> DEFINE comments == reference[i].comments
             same == {m \in Numbered(comments) : Place(comments, m) = n /\ comments[m].text = text}
  <2>1. DOMAIN comments = 1..Len(comments) /\ Len(comments) \in Nat
    BY <1>2, StoredComments
  <2>2. Numbered(comments) = DOMAIN comments
    BY <1>2 DEF Numbered, Numbering
  <2>3. OriginalId(reference, i, n, text) =
          IF same = {} THEN NoId ELSE comments[CHOOSE m \in same : TRUE].id
    BY <1>2 DEF OriginalId
  <2> HIDE DEF comments
  <2>4. ASSUME NEW m \in DOMAIN comments PROVE Place(comments, m) = m
    <3>1. m \in Nat /\ m >= 1 /\ m <= Len(comments)
      BY <2>1
    <3>2. {k \in Numbered(comments) : k <= m} = 1..m
      BY <2>1, <2>2, <3>1
    <3>3. Cardinality(1..m) = m
      BY <3>1, FS_Interval
    <3> QED
      BY <3>2, <3>3 DEF Place
  <2>5. same = IF n \in DOMAIN comments /\ comments[n].text = text THEN {n} ELSE {}
    BY <2>2, <2>4
  <2>6. CASE n \in DOMAIN comments /\ comments[n].text = text
    <3>1. same = {n} /\ (CHOOSE m \in {n} : TRUE) = n
      BY <2>5, <2>6
    <3> QED
      BY <1>2, <2>3, <2>6, <3>1 DEF comments
  <2>7. CASE ~(n \in DOMAIN comments /\ comments[n].text = text)
    BY <1>2, <2>3, <2>5, <2>7 DEF comments
  <2> QED
    BY <2>6, <2>7
<1> QED
  BY <1>1, <1>2

\* The comments before one and the comment itself, among those that need a fresh number.
LEMMA RankOfFresh ==
  ASSUME NEW records, IssueStore(records), NEW reference, NEW c \in Fresh(records, reference)
  PROVE  /\ FreshRank(records, reference, c) \in Nat /\ FreshRank(records, reference, c) >= 1
         /\ \A d \in Fresh(records, reference) :
              FreshRank(records, reference, c) = FreshRank(records, reference, d) => c = d
<1> DEFINE fresh == Fresh(records, reference)
           Upto(e) == {d \in fresh : d[1] < e[1] \/ (d[1] = e[1] /\ d[2] <= e[2])}
<1>1. fresh \subseteq Comments(records)
  BY DEF Fresh
<1>2. /\ IsFiniteSet(fresh)
      /\ \A e \in fresh : e = <<e[1], e[2]>> /\ e[1] \in Nat /\ e[2] \in Nat
  BY <1>1, CommentPlaces, FS_Subset
<1>3. \A e \in fresh : FreshRank(records, reference, e) = Cardinality(Upto(e))
  BY DEF FreshRank
<1> HIDE DEF fresh
<1>4. ASSUME NEW e \in fresh
      PROVE  /\ IsFiniteSet(Upto(e)) /\ Cardinality(Upto(e)) \in Nat /\ Cardinality(Upto(e)) >= 1
             /\ e \in Upto(e)
  <2>1. e \in Upto(e) /\ Upto(e) \subseteq fresh
    BY <1>2
  <2>2. IsFiniteSet(Upto(e)) /\ Cardinality(Upto(e)) \in Nat
    BY <1>2, <2>1, FS_Subset, FS_CardinalityType
  <2>3. Cardinality(Upto(e)) # 0
    BY <2>1, <2>2, FS_EmptySet
  <2> QED
    BY <2>1, <2>2, <2>3
<1>5. ASSUME NEW d \in fresh, NEW e \in fresh, d[1] < e[1] \/ (d[1] = e[1] /\ d[2] < e[2])
      PROVE  Cardinality(Upto(d)) # Cardinality(Upto(e))
  <2>1. Upto(d) \subseteq Upto(e)
    BY <1>2, <1>5
  <2>2. e \notin Upto(d)
    BY <1>2, <1>5
  <2> QED
    BY <1>4, <2>1, <2>2, FS_Subset
<1>6. ASSUME NEW d \in fresh, NEW e \in fresh, Cardinality(Upto(d)) = Cardinality(Upto(e))
      PROVE  d = e
  <2>1. d[1] = e[1] /\ d[2] = e[2]
    BY <1>2, <1>5, <1>6
  <2> QED
    BY <1>2, <2>1
<1>7. c \in fresh
  BY DEF fresh
<1> HIDE DEF Upto
<1>8. \A d \in fresh : FreshRank(records, reference, c) = FreshRank(records, reference, d) => c = d
  BY <1>3, <1>6, <1>7
<1> QED
  BY <1>3, <1>4, <1>7, <1>8 DEF fresh

\* The number a comment of the file has on the way back.
NewNumber(records, reference, i, n) ==
  IF records[i].comments[n].id # NoId THEN records[i].comments[n].id
  ELSE NumberFor(records, reference, i, n)

\* A file of which each record is one of the store that was imported, or has no numbers.
MixedFile(records, store) ==
  \A i \in DOMAIN records : \/ i \in DOMAIN store /\ records[i] = store[i]
                         \/ \A n \in DOMAIN records[i].comments : records[i].comments[n].id = NoId

LEMMA UsedNumbers ==
  ASSUME NEW records, IssueStore(records), NEW reference, IssueStore(reference)
  PROVE  /\ UsedIds(records, reference) \subseteq Nat /\ IsFiniteSet(UsedIds(records, reference))
         /\ NoId \notin UsedIds(records, reference)
BY CommentNumbers, FS_Union DEF UsedIds

\* Either a comment gets back the number it had in the store that was imported, or a fresh one.
LEMMA NumberKinds ==
  ASSUME NEW store, IssueStore(store), Numbering(store),
         NEW reference \in {NoStore, store},
         NEW records, IssueStore(records), MixedFile(records, store),
         NEW i \in DOMAIN records, NEW n \in DOMAIN records[i].comments
  PROVE  \/ /\ i \in DOMAIN store /\ n \in DOMAIN store[i].comments
            /\ NewNumber(records, reference, i, n) = store[i].comments[n].id
            /\ NewNumber(records, reference, i, n) \in UsedIds(records, reference)
         \/ /\ <<i, n>> \in Fresh(records, reference)
            /\ NewNumber(records, reference, i, n) =
                 Allocated(UsedIds(records, reference), FreshRank(records, reference, <<i, n>>))
<1> DEFINE text == records[i].comments[n].text
           original == OriginalId(reference, i, n, text)
<1>1. IssueStore(reference) /\ Numbering(reference)
  BY EmptyStore
<1>2. n \in Nat /\ <<i, n>> \in Comments(records)
  BY StoredComments, CommentPlaces
<1>3. CASE records[i].comments[n].id # NoId
  <2>1. i \in DOMAIN store /\ records[i] = store[i]
    BY <1>3 DEF MixedFile
  <2>2. NewNumber(records, reference, i, n) = records[i].comments[n].id
    BY <1>3 DEF NewNumber
  <2>3. records[i].comments[n].id \in CommentIds(records)
    BY <1>3, CommentNumbers
  <2> QED
    BY <2>1, <2>2, <2>3 DEF UsedIds
<1>4. CASE records[i].comments[n].id = NoId /\ original # NoId
  <2>1. NewNumber(records, reference, i, n) = original
    BY <1>4 DEF NewNumber, NumberFor
  <2>2. /\ i \in DOMAIN reference /\ n \in DOMAIN reference[i].comments
        /\ original = reference[i].comments[n].id
    BY <1>1, <1>2, <1>4, ReferenceNumber
  <2>3. reference = store
    BY <2>2, EmptyStore
  <2>4. original \in CommentIds(reference)
    BY <1>1, <1>4, <2>2, CommentNumbers
  <2> HIDE DEF original
  <2> QED
    BY <2>1, <2>2, <2>3, <2>4 DEF UsedIds
<1>5. CASE records[i].comments[n].id = NoId /\ original = NoId
  <2>1. <<i, n>>[1] = i /\ <<i, n>>[2] = n
    OBVIOUS
  <2>2. <<i, n>> \in Fresh(records, reference)
    BY <1>2, <1>5, <2>1 DEF Fresh
  <2>3. NewNumber(records, reference, i, n) =
          Allocated(UsedIds(records, reference), FreshRank(records, reference, <<i, n>>))
    BY <1>5 DEF NewNumber, NumberFor
  <2> QED
    BY <2>2, <2>3
<1> QED
  BY <1>3, <1>4, <1>5

\* A fresh number is one that nobody had, and no two are the same.
LEMMA FreshNumbers ==
  ASSUME NEW records, IssueStore(records), NEW reference, IssueStore(reference),
         NEW c \in Fresh(records, reference)
  PROVE  LET used == UsedIds(records, reference)
             NumberOf(e) == Allocated(used, FreshRank(records, reference, e))
         IN  /\ NumberOf(c) \in Nat \ used /\ NumberOf(c) # NoId
             /\ \A d \in Fresh(records, reference) : NumberOf(c) = NumberOf(d) => c = d
<1> DEFINE used == UsedIds(records, reference)
           NumberOf(e) == Allocated(used, FreshRank(records, reference, e))
<1>1. used \subseteq Nat /\ IsFiniteSet(used)
  BY UsedNumbers
<1> HIDE DEF used
<1>2. ASSUME NEW e \in Fresh(records, reference)
      PROVE  /\ NumberOf(e) \in Nat \ used /\ NumberOf(e) >= 1
             /\ Cardinality((1..NumberOf(e)) \ used) = FreshRank(records, reference, e)
  <2>1. FreshRank(records, reference, e) \in Nat /\ FreshRank(records, reference, e) >= 1
    BY RankOfFresh
  <2> QED
    BY <1>1, <2>1, AllocatedFree
<1>3. NumberOf(c) \in Nat \ used /\ NumberOf(c) # NoId
  <2>1. NumberOf(c) \in Nat \ used /\ NumberOf(c) >= 1
    BY <1>2
  <2> HIDE DEF NumberOf
  <2> QED
    BY <2>1 DEF NoId
<1>4. ASSUME NEW d \in Fresh(records, reference), NumberOf(c) = NumberOf(d) PROVE c = d
  <2>1. FreshRank(records, reference, c) = FreshRank(records, reference, d)
    BY <1>2, <1>4
  <2> QED
    BY <2>1, RankOfFresh
<1> HIDE DEF NumberOf
<1>5. /\ NumberOf(c) \in Nat \ used /\ NumberOf(c) # NoId
      /\ \A d \in Fresh(records, reference) : NumberOf(c) = NumberOf(d) => c = d
  BY <1>3, <1>4
<1> QED
  BY <1>5 DEF NumberOf, used

LEMMA NewNumbersApart ==
  ASSUME NEW store, IssueStore(store), Numbering(store),
         NEW reference \in {NoStore, store},
         NEW records, IssueStore(records), MixedFile(records, store),
         NEW i \in DOMAIN records, NEW n \in DOMAIN records[i].comments,
         NEW j \in DOMAIN records, NEW m \in DOMAIN records[j].comments
  PROVE  /\ NewNumber(records, reference, i, n) \in Nat \ {NoId}
         /\ NewNumber(records, reference, i, n) = NewNumber(records, reference, j, m) => i = j /\ n = m
<1>1. IssueStore(reference)
  BY EmptyStore
<1>2. UsedIds(records, reference) \subseteq Nat \ {NoId}
  BY <1>1, UsedNumbers
<1> DEFINE Kept(k, p) == /\ k \in DOMAIN store /\ p \in DOMAIN store[k].comments
                         /\ NewNumber(records, reference, k, p) = store[k].comments[p].id
                         /\ NewNumber(records, reference, k, p) \in UsedIds(records, reference)
           Freed(k, p) == /\ <<k, p>> \in Fresh(records, reference)
                          /\ NewNumber(records, reference, k, p) =
                               Allocated(UsedIds(records, reference), FreshRank(records, reference, <<k, p>>))
<1>3. (Kept(i, n) \/ Freed(i, n)) /\ (Kept(j, m) \/ Freed(j, m))
  BY NumberKinds
<1>4. /\ Freed(i, n) => NewNumber(records, reference, i, n) \in Nat \ (UsedIds(records, reference) \cup {NoId})
      /\ Freed(j, m) => NewNumber(records, reference, j, m) \notin UsedIds(records, reference)
  <2>1. ASSUME NEW k, NEW p, Freed(k, p)
        PROVE  NewNumber(records, reference, k, p) \in Nat \ (UsedIds(records, reference) \cup {NoId})
    <3>1. PICK c \in Fresh(records, reference) : c = <<k, p>>
      BY <2>1
    <3>2. Allocated(UsedIds(records, reference), FreshRank(records, reference, c))
            \in Nat \ (UsedIds(records, reference) \cup {NoId})
      BY <1>1, FreshNumbers
    <3> QED
      BY <2>1, <3>1, <3>2
  <2> HIDE DEF Freed
  <2> QED
    BY <2>1
<1>5. ASSUME Kept(i, n), Kept(j, m), NewNumber(records, reference, i, n) = NewNumber(records, reference, j, m)
      PROVE  i = j /\ n = m
  <2>1. /\ i \in DOMAIN store /\ n \in DOMAIN store[i].comments
        /\ j \in DOMAIN store /\ m \in DOMAIN store[j].comments
        /\ store[i].comments[n].id = store[j].comments[m].id
    BY <1>5
  <2> QED
    BY <2>1 DEF Numbering
<1>6. ASSUME Freed(i, n), Freed(j, m), NewNumber(records, reference, i, n) = NewNumber(records, reference, j, m)
      PROVE  i = j /\ n = m
  <2>1. <<i, n>> = <<j, m>>
    BY <1>1, <1>6, FreshNumbers
  <2> QED
    BY <2>1
<1> QED
  BY <1>2, <1>3, <1>4, <1>5, <1>6

\* The whole file.
LEMMA ReverseFile ==
  ASSUME NEW store, IssueStore(store), Numbering(store),
         NEW reference \in {NoStore, store},
         NEW records, IssueStore(records), MixedFile(records, store)
  PROVE  LET back == Reverse(records, reference)
         IN  /\ IssueStore(back) /\ Numbering(back) /\ DOMAIN back = DOMAIN records
             /\ \A i \in DOMAIN records : back[i].repo = records[i].repo /\ back[i].meta = records[i].meta
             /\ \A i \in DOMAIN records :
                  /\ Len(back[i].comments) = Len(records[i].comments)
                  /\ \A n \in DOMAIN records[i].comments :
                       /\ back[i].comments[n].id = NewNumber(records, reference, i, n)
                       /\ back[i].comments[n].text = records[i].comments[n].text
<1> DEFINE New(i) == [n \in DOMAIN records[i].comments |->
                        IF records[i].comments[n].id # NoId THEN records[i].comments[n]
                        ELSE [records[i].comments[n] EXCEPT !.id = NumberFor(records, reference, i, n)]]
           back == [i \in DOMAIN records |-> [records[i] EXCEPT !.comments = New(i)]]
<1>1. Reverse(records, reference) = back
  BY DEF Reverse
<1>2. ASSUME NEW i \in DOMAIN records, NEW n \in DOMAIN records[i].comments
      PROVE  /\ New(i)[n] \in IssueComment /\ New(i)[n].id = NewNumber(records, reference, i, n)
             /\ New(i)[n].text = records[i].comments[n].text
  <2>1. records[i].comments[n] \in IssueComment /\ NewNumber(records, reference, i, n) \in Nat
    BY StoredComments, NewNumbersApart
  <2>2. CASE records[i].comments[n].id # NoId
    <3>1. New(i)[n] = records[i].comments[n] /\ NewNumber(records, reference, i, n) = records[i].comments[n].id
      BY <2>2 DEF NewNumber
    <3> HIDE DEF New
    <3> QED
      BY <2>1, <3>1
  <2>3. CASE records[i].comments[n].id = NoId
    <3>1. /\ New(i)[n] = [records[i].comments[n] EXCEPT !.id = NumberFor(records, reference, i, n)]
          /\ NewNumber(records, reference, i, n) = NumberFor(records, reference, i, n)
      BY <2>3 DEF NewNumber
    <3> HIDE DEF New
    <3> QED
      BY <2>1, <3>1 DEF IssueComment
  <2> QED
    BY <2>2, <2>3
<1>3. ASSUME NEW i \in DOMAIN records
      PROVE  New(i) \in Seq(IssueComment) /\ Len(New(i)) = Len(records[i].comments)
             /\ DOMAIN New(i) = DOMAIN records[i].comments
  <2>1. DOMAIN records[i].comments = 1..Len(records[i].comments) /\ Len(records[i].comments) \in Nat
    BY StoredComments
  <2>2. DOMAIN New(i) = 1..Len(records[i].comments) /\ New(i) = [n \in DOMAIN New(i) |-> New(i)[n]]
    BY <2>1
  <2>3. \A n \in DOMAIN New(i) : New(i)[n] \in IssueComment
    BY <1>2, <2>1, <2>2
  <2> HIDE DEF New
  <2>4. New(i) \in [1..Len(records[i].comments) -> IssueComment]
    BY <2>2, <2>3
  <2> QED
    BY <2>1, <2>2, <2>4
<1>4. ASSUME NEW i \in DOMAIN records
      PROVE  /\ back[i] \in IssueRecord /\ back[i].comments = New(i)
             /\ back[i].repo = records[i].repo /\ back[i].meta = records[i].meta
  <2>1. back[i] = [records[i] EXCEPT !.comments = New(i)]
    OBVIOUS
  <2>2. records[i] \in IssueRecord /\ New(i) \in Seq(IssueComment)
    BY <1>3, StoredComments
  <2> HIDE DEF New, back
  <2> QED
    BY <2>1, <2>2 DEF IssueRecord
<1>5. DOMAIN back = DOMAIN records /\ back = [i \in DOMAIN back |-> back[i]]
  OBVIOUS
<1> HIDE DEF New, back
<1>6. IssueStore(back)
  <2>1. back \in [DOMAIN back -> IssueRecord]
    BY <1>4, <1>5
  <2>2. \A i \in DOMAIN back : Len(back[i].comments) <= MaxComments
    BY <1>3, <1>4, <1>5 DEF IssueStore
  <2> QED
    BY <1>5, <2>1, <2>2 DEF IssueStore
<1>7. \A i \in DOMAIN records : \A n \in DOMAIN records[i].comments :
        /\ back[i].comments[n].id = NewNumber(records, reference, i, n)
        /\ back[i].comments[n].text = records[i].comments[n].text
  BY <1>2, <1>4
<1>8. Numbering(back)
  <2>1. \A i \in DOMAIN back : i \in DOMAIN records /\ DOMAIN back[i].comments = DOMAIN records[i].comments
    BY <1>3, <1>4, <1>5
  <2>2. \A i \in DOMAIN back : \A n \in DOMAIN back[i].comments : back[i].comments[n].id # NoId
    BY <1>7, <2>1, NewNumbersApart
  <2>3. ASSUME NEW i \in DOMAIN back, NEW j \in DOMAIN back,
               NEW n \in DOMAIN back[i].comments, NEW m \in DOMAIN back[j].comments,
               back[i].comments[n].id = back[j].comments[m].id
        PROVE  i = j /\ n = m
    <3>1. NewNumber(records, reference, i, n) = NewNumber(records, reference, j, m)
      BY <1>7, <2>1, <2>3
    <3> QED
      BY <2>1, <3>1, NewNumbersApart
  <2> QED
    BY <2>2, <2>3 DEF Numbering
<1> QED
  BY <1>1, <1>3, <1>4, <1>5, <1>6, <1>7, <1>8

-----------------------------------------------------------------------------
(* Records and stores as the tools change them. *)

LEMMA RecordEdits ==
  ASSUME NEW r \in IssueRecord
  PROVE  /\ \A E \in SUBSET Issues :
              LET s == [r EXCEPT !.edges = E]
              IN  /\ s \in IssueRecord /\ s.edges = E /\ s.comments = r.comments
                  /\ s.repo = r.repo /\ s.meta = r.meta
         /\ \A C \in Seq(IssueComment) :
              LET s == [r EXCEPT !.comments = C]
              IN  /\ s \in IssueRecord /\ s.edges = r.edges /\ s.comments = C
                  /\ s.repo = r.repo /\ s.meta = r.meta
BY DEF IssueRecord

LEMMA EditedStore ==
  ASSUME NEW store, IssueStore(store), NEW i \in DOMAIN store, NEW r \in IssueRecord,
         Len(r.comments) <= MaxComments
  PROVE  LET new == [store EXCEPT ![i] = r]
         IN  /\ IssueStore(new) /\ DOMAIN new = DOMAIN store /\ new[i] = r
             /\ \A j \in DOMAIN store : j # i => new[j] = store[j]
<1> DEFINE new == [store EXCEPT ![i] = r]
<1>1. /\ DOMAIN new = DOMAIN store /\ new[i] = r
      /\ \A j \in DOMAIN store : j # i => new[j] = store[j]
  BY DEF IssueStore
<1>2. new \in [DOMAIN store -> IssueRecord]
  BY DEF IssueStore
<1> HIDE DEF new
<1>3. \A j \in DOMAIN new : Len(new[j].comments) <= MaxComments
  BY <1>1 DEF IssueStore
<1>4. IssueStore(new)
  BY <1>1, <1>2, <1>3 DEF IssueStore
<1> QED
  BY <1>1, <1>4 DEF new

\* A store that may get a comment has room for it at any record.
LEMMA RoomLeft ==
  ASSUME NEW store, IssueStore(store), NEW i \in DOMAIN store, CommentCount(store) < MaxComments
  PROVE  Len(store[i].comments) < MaxComments
<1> SUFFICES ASSUME ~(Len(store[i].comments) < MaxComments) PROVE FALSE
  OBVIOUS
<1> DEFINE f == [n \in 1..MaxComments |-> <<i, n>>]
<1>1. DOMAIN store[i].comments = 1..MaxComments
  BY StoredComments, BeadsAssumption DEF IssueStore
<1>2. f \in Injection(1..MaxComments, Comments(store))
  <2>1. \A n \in 1..MaxComments : <<i, n>> \in Comments(store)
    BY <1>1, CommentPlaces
  <2> QED
    BY <2>1 DEF Injection, IsInjective
<1>3. Cardinality(1..MaxComments) <= Cardinality(Comments(store))
  BY <1>2, CommentPlaces, FS_Injection
<1>4. Cardinality(1..MaxComments) = MaxComments
  BY FS_Interval, BeadsAssumption
<1>5. Cardinality(Comments(store)) \in Nat
  BY CommentPlaces, FS_CardinalityType
<1> QED
  BY <1>3, <1>4, <1>5, BeadsAssumption DEF CommentCount

\* A new comment of br.
LEMMA NextNumber ==
  ASSUME IssueStore(br)
  PROVE  /\ NextCommentId \in Nat \ {NoId}
         /\ \A i \in DOMAIN br : \A n \in DOMAIN br[i].comments : br[i].comments[n].id # NextCommentId
<1> DEFINE ids == CommentIds(br)
           greatest == CHOOSE n \in ids \cup {0} : \A m \in ids : m <= n
<1>1. ids \subseteq Nat /\ IsFiniteSet(ids)
  BY CommentNumbers
<1>2. greatest \in ids \cup {0} /\ \A m \in ids : m <= greatest
  BY <1>1, GreatestNumber
<1>3. NextCommentId = 1 + greatest
  BY DEF NextCommentId
<1> HIDE DEF greatest
<1>4. greatest \in Nat /\ NextCommentId \in Nat /\ NextCommentId > greatest /\ NextCommentId # 0
  BY <1>1, <1>2, <1>3
<1>5. NextCommentId \notin ids
  BY <1>1, <1>2, <1>4
<1> HIDE DEF ids
<1> QED
  BY <1>4, <1>5, CommentNumbers DEF NoId, ids

\* What an import makes of a record.
CopyOf(old, new) ==
  /\ new.repo = "none"
  /\ new.edges = old.edges /\ new.status = old.status /\ new.type = old.type /\ new.size = old.size
  /\ new.meta = old.meta \/ (old.repo # "none" /\ new.meta = old.repo)
  /\ Len(new.comments) = Len(old.comments)

Copied(store, copy) ==
  /\ DOMAIN copy \subseteq DOMAIN store
  /\ (DOMAIN store) \ Tombstones(store) \subseteq DOMAIN copy
  /\ \A i \in DOMAIN copy : CopyOf(store[i], copy[i])

Unnumbered(store) ==
  \A i \in DOMAIN store : /\ store[i].repo = "none"
                          /\ \A n \in DOMAIN store[i].comments : store[i].comments[n].id = NoId

LEMMA ForwardStore ==
  ASSUME NEW store, IssueStore(store), NEW preserve \in BOOLEAN, NEW drop \in BOOLEAN
  PROVE  LET records == Forward(store, preserve, drop)
         IN  /\ IssueStore(records) /\ DOMAIN records \subseteq DOMAIN store
             /\ (DOMAIN store) \ Tombstones(store) \subseteq DOMAIN records
             /\ \A i \in DOMAIN records :
                  /\ records[i].edges = store[i].edges /\ records[i].status = store[i].status
                  /\ records[i].type = store[i].type /\ records[i].size = store[i].size
                  /\ \/ records[i].meta = store[i].meta
                     \/ store[i].repo # "none" /\ records[i].meta = store[i].repo
                  /\ records[i].comments = store[i].comments
<1> DEFINE records == Forward(store, preserve, drop)
           kept == (DOMAIN store) \ (IF drop THEN Tombstones(store) ELSE {})
<1>1. records = [i \in kept |-> WithProvenance(store[i], preserve)]
  BY DEF Forward
<1>2. kept \subseteq DOMAIN store /\ (DOMAIN store) \ Tombstones(store) \subseteq kept
  OBVIOUS
<1> HIDE DEF kept
<1>3. DOMAIN records = kept /\ \A i \in kept : records[i] = WithProvenance(store[i], preserve)
  BY <1>1
<1> HIDE DEF records
<1>4. ASSUME NEW i \in kept
      PROVE  /\ records[i] \in IssueRecord
             /\ records[i].edges = store[i].edges /\ records[i].status = store[i].status
             /\ records[i].type = store[i].type /\ records[i].size = store[i].size
             /\ \/ records[i].meta = store[i].meta
                \/ store[i].repo # "none" /\ records[i].meta = store[i].repo
             /\ records[i].comments = store[i].comments
  <2>1. store[i] \in IssueRecord
    BY <1>2, StoredComments
  <2>2. CASE preserve /\ HasProvenance(store[i])
    <3>1. records[i] = [store[i] EXCEPT !.meta = store[i].repo] /\ store[i].repo # "none"
      BY <1>3, <2>2 DEF WithProvenance, HasProvenance
    <3> QED
      BY <2>1, <3>1 DEF IssueRecord
  <2>3. CASE ~(preserve /\ HasProvenance(store[i]))
    <3>1. records[i] = store[i]
      BY <1>3, <2>3 DEF WithProvenance
    <3> QED
      BY <2>1, <3>1
  <2> QED
    BY <2>2, <2>3
<1>5. IssueStore(records)
  <2>1. DOMAIN records \subseteq Issues /\ IsFiniteSet(DOMAIN records)
    BY <1>2, <1>3, FS_Subset DEF IssueStore
  <2>2. records \in [DOMAIN records -> IssueRecord]
    BY <1>1, <1>3, <1>4
  <2>3. \A i \in DOMAIN records : Len(records[i].comments) <= MaxComments
    BY <1>2, <1>3, <1>4 DEF IssueStore
  <2> QED
    BY <2>1, <2>2, <2>3 DEF IssueStore
<1> QED
  BY <1>2, <1>3, <1>4, <1>5 DEF records

LEMMA ImportedStore ==
  ASSUME NEW records, IssueStore(records)
  PROVE  LET copy == Imported(records)
         IN  /\ IssueStore(copy) /\ DOMAIN copy \subseteq DOMAIN records /\ Unnumbered(copy)
             /\ (DOMAIN records) \ Tombstones(records) \subseteq DOMAIN copy
             /\ \A i \in DOMAIN copy :
                  /\ copy[i].edges = records[i].edges /\ copy[i].status = records[i].status
                  /\ copy[i].type = records[i].type /\ copy[i].size = records[i].size
                  /\ copy[i].meta = records[i].meta
                  /\ Len(copy[i].comments) = Len(records[i].comments)
<1> DEFINE copy == Imported(records)
           kept == (DOMAIN records) \ (IF "tombstone" \in RequiredBdConfig(prepared).statuses THEN {}
                                    ELSE Tombstones(records))
           Bare(i) == [n \in DOMAIN records[i].comments |-> [records[i].comments[n] EXCEPT !.id = NoId]]
<1>1. copy = [i \in kept |-> [records[i] EXCEPT !.repo = "none", !.comments = Bare(i)]]
  BY DEF Imported
<1>2. kept \subseteq DOMAIN records /\ (DOMAIN records) \ Tombstones(records) \subseteq kept
  OBVIOUS
<1> HIDE DEF kept, copy
<1>3. ASSUME NEW i \in kept
      PROVE  /\ Bare(i) \in Seq(IssueComment) /\ Len(Bare(i)) = Len(records[i].comments)
             /\ \A n \in DOMAIN Bare(i) : Bare(i)[n].id = NoId
  <2>1. /\ DOMAIN records[i].comments = 1..Len(records[i].comments) /\ Len(records[i].comments) \in Nat
        /\ \A n \in DOMAIN records[i].comments : records[i].comments[n] \in IssueComment
    BY <1>2, StoredComments
  <2>2. ASSUME NEW n \in DOMAIN records[i].comments
        PROVE  /\ [records[i].comments[n] EXCEPT !.id = NoId] \in IssueComment
               /\ [records[i].comments[n] EXCEPT !.id = NoId].id = NoId
    BY <2>1 DEF IssueComment, NoId
  <2>3. DOMAIN Bare(i) = 1..Len(records[i].comments) /\ Bare(i) \in [1..Len(records[i].comments) -> IssueComment]
    BY <2>1, <2>2
  <2>4. \A n \in DOMAIN Bare(i) : Bare(i)[n].id = NoId
    BY <2>2
  <2> HIDE DEF Bare
  <2> QED
    BY <2>1, <2>3, <2>4
<1>4. ASSUME NEW i \in kept
      PROVE  /\ copy[i] \in IssueRecord /\ copy[i].comments = Bare(i) /\ copy[i].repo = "none"
             /\ copy[i].edges = records[i].edges /\ copy[i].status = records[i].status
             /\ copy[i].type = records[i].type /\ copy[i].size = records[i].size
             /\ copy[i].meta = records[i].meta
  <2>1. copy[i] = [records[i] EXCEPT !.repo = "none", !.comments = Bare(i)]
    BY <1>1
  <2>2. records[i] \in IssueRecord /\ Bare(i) \in Seq(IssueComment) /\ "none" \in Whence
    BY <1>2, <1>3, StoredComments DEF Whence
  <2> HIDE DEF Bare
  <2> QED
    BY <2>1, <2>2 DEF IssueRecord
<1>5. DOMAIN copy = kept /\ copy = [i \in DOMAIN copy |-> copy[i]]
  BY <1>1
<1> HIDE DEF Bare
<1>6. IssueStore(copy)
  <2>1. DOMAIN copy \subseteq Issues /\ IsFiniteSet(DOMAIN copy)
    BY <1>2, <1>5, FS_Subset DEF IssueStore
  <2>2. copy \in [DOMAIN copy -> IssueRecord]
    BY <1>4, <1>5
  <2>3. \A i \in DOMAIN copy : Len(copy[i].comments) <= MaxComments
    BY <1>2, <1>3, <1>4, <1>5 DEF IssueStore
  <2> QED
    BY <2>1, <2>2, <2>3 DEF IssueStore
<1>7. Unnumbered(copy)
  BY <1>3, <1>4, <1>5 DEF Unnumbered
<1> QED
  BY <1>2, <1>3, <1>4, <1>5, <1>6, <1>7 DEF copy

LEMMA ImportCopies ==
  ASSUME NEW store, IssueStore(store), NEW preserve \in BOOLEAN, NEW drop \in BOOLEAN
  PROVE  LET copy == Imported(Forward(store, preserve, drop))
         IN  IssueStore(copy) /\ Unnumbered(copy) /\ Copied(store, copy)
<1> DEFINE records == Forward(store, preserve, drop)
           copy == Imported(records)
<1>1. /\ IssueStore(records) /\ DOMAIN records \subseteq DOMAIN store
      /\ (DOMAIN store) \ Tombstones(store) \subseteq DOMAIN records
      /\ \A i \in DOMAIN records :
           /\ records[i].edges = store[i].edges /\ records[i].status = store[i].status
           /\ records[i].type = store[i].type /\ records[i].size = store[i].size
           /\ \/ records[i].meta = store[i].meta
              \/ store[i].repo # "none" /\ records[i].meta = store[i].repo
           /\ records[i].comments = store[i].comments
  BY ForwardStore
<1> HIDE DEF records
<1>2. /\ IssueStore(copy) /\ DOMAIN copy \subseteq DOMAIN records /\ Unnumbered(copy)
      /\ (DOMAIN records) \ Tombstones(records) \subseteq DOMAIN copy
      /\ \A i \in DOMAIN copy :
           /\ copy[i].edges = records[i].edges /\ copy[i].status = records[i].status
           /\ copy[i].type = records[i].type /\ copy[i].size = records[i].size
           /\ copy[i].meta = records[i].meta
           /\ Len(copy[i].comments) = Len(records[i].comments)
  BY <1>1, ImportedStore
<1>3. (DOMAIN store) \ Tombstones(store) \subseteq DOMAIN copy
  BY <1>1, <1>2 DEF Tombstones
<1> HIDE DEF copy
<1>4. ASSUME NEW i \in DOMAIN copy PROVE CopyOf(store[i], copy[i])
  <2>1. i \in DOMAIN records /\ copy[i].repo = "none"
    BY <1>2 DEF Unnumbered
  <2> QED
    BY <1>1, <1>2, <2>1 DEF CopyOf
<1>5. Copied(store, copy)
  BY <1>1, <1>2, <1>3, <1>4 DEF Copied
<1> QED
  BY <1>2, <1>5 DEF copy, records

-----------------------------------------------------------------------------
(* The stores, whatever people and the trackers do. *)

StoresInv ==
  /\ IssueStore(br) /\ IssueStore(bd) /\ IssueStore(origin)
  /\ Numbering(br)
  /\ \A i \in DOMAIN br : br[i].repo = "none" \/ br[i].meta = "none"
  /\ Migrated => br = origin /\ DOMAIN bd \subseteq DOMAIN br /\ Unnumbered(bd)

LEMMA CreateStep ==
  ASSUME StoresInv, NEW i \in Issues, NEW shape \in Shapes, Create(i, shape)
  PROVE  StoresInv' /\ DOMAIN br' = (DOMAIN br) \cup {i} /\ i \notin DOMAIN br
         /\ \A k \in DOMAIN br : br'[k] = br[k]
<1> DEFINE r == NewRecord(shape)
<1>1. /\ r \in IssueRecord /\ r.comments = <<>> /\ r.meta = "none"
  BY DEF NewRecord, IssueRecord, Whence
<1> HIDE DEF r
<1>2. /\ ~Migrated /\ i \notin DOMAIN br
      /\ br' = [k \in (DOMAIN br) \cup {i} |-> IF k = i THEN r ELSE br[k]]
      /\ UNCHANGED <<bd, origin>>
  BY DEF Create, r
<1>3. /\ DOMAIN br' = (DOMAIN br) \cup {i} /\ br'[i] = r /\ \A k \in DOMAIN br : br'[k] = br[k]
  BY <1>2
<1>4. /\ DOMAIN br \subseteq Issues /\ IsFiniteSet(DOMAIN br)
      /\ \A k \in DOMAIN br : br[k] \in IssueRecord /\ Len(br[k].comments) <= MaxComments
      /\ Numbering(br) /\ \A k \in DOMAIN br : br[k].repo = "none" \/ br[k].meta = "none"
  BY DEF StoresInv, IssueStore
<1>5. DOMAIN br' \subseteq Issues /\ IsFiniteSet(DOMAIN br')
  BY <1>3, <1>4, FS_AddElement
<1>6. br' \in [DOMAIN br' -> IssueRecord]
  BY <1>1, <1>2, <1>3, <1>4
<1>7. Len(<<>>) <= MaxComments /\ DOMAIN <<>> = {}
  BY BeadsAssumption
<1>8. \A k \in DOMAIN br' : Len(br'[k].comments) <= MaxComments
  BY <1>1, <1>3, <1>4, <1>7
<1>9. IssueStore(br')
  BY <1>5, <1>6, <1>8 DEF IssueStore
<1>10. Numbering(br')
  BY <1>1, <1>3, <1>4, <1>7 DEF Numbering
<1>11. \A k \in DOMAIN br' : br'[k].repo = "none" \/ br'[k].meta = "none"
  BY <1>1, <1>3, <1>4
<1>12. ~Migrated'
  BY <1>2 DEF Migrated
<1> QED
  BY <1>2, <1>3, <1>9, <1>10, <1>11, <1>12 DEF StoresInv

LEMMA LinkStep ==
  ASSUME StoresInv, NEW i \in Issues, NEW j \in Issues, Link(i, j)
  PROVE  StoresInv' /\ DOMAIN br' = DOMAIN br /\ i \in DOMAIN br
         /\ br'[i].edges = br[i].edges \cup {j} /\ j \notin br[i].edges
         /\ br'[i].comments = br[i].comments
         /\ \A k \in DOMAIN br : k # i => br'[k] = br[k]
<1>1. /\ ~Migrated /\ i \in DOMAIN br /\ j \notin br[i].edges
      /\ br' = [br EXCEPT ![i] = [br[i] EXCEPT !.edges = br[i].edges \cup {j}]]
      /\ UNCHANGED <<bd, origin>>
  BY DEF Link
<1> DEFINE r == [br[i] EXCEPT !.edges = br[i].edges \cup {j}]
<1>2. br[i] \in IssueRecord /\ br[i].edges \cup {j} \in SUBSET Issues /\ Len(br[i].comments) <= MaxComments
  BY <1>1 DEF StoresInv, IssueStore, IssueRecord
<1>3. /\ r \in IssueRecord /\ r.edges = br[i].edges \cup {j} /\ r.comments = br[i].comments
      /\ r.repo = br[i].repo /\ r.meta = br[i].meta
  BY <1>2, RecordEdits
<1> HIDE DEF r
<1>4. br' = [br EXCEPT ![i] = r]
  BY <1>1 DEF r
<1>9. IssueStore(br) /\ i \in DOMAIN br /\ r \in IssueRecord /\ Len(r.comments) <= MaxComments
  BY <1>1, <1>2, <1>3 DEF StoresInv
<1>5. /\ IssueStore(br') /\ DOMAIN br' = DOMAIN br /\ br'[i] = r
      /\ \A k \in DOMAIN br : k # i => br'[k] = br[k]
  BY <1>4, <1>9, EditedStore
<1>6. Numbering(br')
  <2>1. \A k \in DOMAIN br : br'[k].comments = br[k].comments
    BY <1>3, <1>5
  <2> QED
    BY <1>5, <2>1 DEF StoresInv, Numbering
<1>7. \A k \in DOMAIN br' : br'[k].repo = "none" \/ br'[k].meta = "none"
  BY <1>3, <1>5 DEF StoresInv
<1>8. ~Migrated'
  BY <1>1 DEF Migrated
<1> QED
  BY <1>1, <1>3, <1>5, <1>6, <1>7, <1>8 DEF StoresInv

LEMMA CommentStep ==
  ASSUME StoresInv, NEW i \in Issues, NEW text \in Texts, Comment(i, text)
  PROVE  StoresInv' /\ DOMAIN br' = DOMAIN br /\ i \in DOMAIN br
         /\ br'[i].edges = br[i].edges
         /\ Len(br'[i].comments) = Len(br[i].comments) + 1
         /\ \A k \in DOMAIN br : k # i => br'[k] = br[k]
<1> DEFINE c == [id |-> NextCommentId, text |-> text]
           r == [br[i] EXCEPT !.comments = Append(br[i].comments, c)]
<1>1. /\ ~Migrated /\ i \in DOMAIN br /\ CommentCount(br) < MaxComments
      /\ br' = [br EXCEPT ![i] = r]
      /\ UNCHANGED <<bd, origin>>
  BY DEF Comment
<1>2. IssueStore(br) /\ br[i] \in IssueRecord /\ br[i].comments \in Seq(IssueComment)
      /\ DOMAIN br[i].comments = 1..Len(br[i].comments) /\ Len(br[i].comments) \in Nat
  BY <1>1, StoredComments DEF StoresInv
<1>3. c \in IssueComment /\ c.id = NextCommentId
  BY <1>2, NextNumber DEF IssueComment
<1> DEFINE C == Append(br[i].comments, c)
<1>4. /\ C \in Seq(IssueComment) /\ Len(C) = Len(br[i].comments) + 1
      /\ DOMAIN C = 1..(Len(br[i].comments) + 1)
      /\ C[Len(br[i].comments) + 1] = c
      /\ \A n \in 1..Len(br[i].comments) : C[n] = br[i].comments[n]
  <2> HIDE DEF c
  <2> QED
    BY <1>2, <1>3
<1> HIDE DEF c, C
<1>5. r = [br[i] EXCEPT !.comments = C]
  BY DEF C
<1> HIDE DEF r
<1>6. /\ r \in IssueRecord /\ r.edges = br[i].edges /\ r.comments = C
      /\ r.repo = br[i].repo /\ r.meta = br[i].meta
  BY <1>2, <1>4, <1>5, RecordEdits
<1>7. Len(r.comments) <= MaxComments
  <2>1. Len(br[i].comments) < MaxComments
    BY <1>1, <1>2, RoomLeft
  <2> QED
    BY <1>2, <1>4, <1>6, <2>1, BeadsAssumption
<1>8. /\ IssueStore(br') /\ DOMAIN br' = DOMAIN br /\ br'[i] = r
      /\ \A k \in DOMAIN br : k # i => br'[k] = br[k]
  BY <1>1, <1>2, <1>6, <1>7, EditedStore
<1> DEFINE old == Len(br[i].comments)
<1>9. ASSUME NEW k \in DOMAIN br', NEW n \in DOMAIN br'[k].comments
      PROVE  \/ k \in DOMAIN br /\ n \in DOMAIN br[k].comments /\ br'[k].comments[n] = br[k].comments[n]
             \/ k = i /\ n = old + 1 /\ br'[k].comments[n].id = NextCommentId
  <2>1. CASE k # i
    BY <1>8, <2>1
  <2>2. CASE k = i /\ n = old + 1
    BY <1>3, <1>4, <1>6, <1>8, <2>2
  <2>3. CASE k = i /\ n # old + 1
    <3>1. n \in 1..(old + 1)
      BY <1>4, <1>6, <1>8, <2>3
    <3>2. n \in 1..old
      BY <1>2, <2>3, <3>1
    <3> QED
      BY <1>1, <1>2, <1>4, <1>6, <1>8, <2>3, <3>2
  <2> QED
    BY <2>1, <2>2, <2>3
<1>10. /\ NextCommentId # NoId
       /\ \A k \in DOMAIN br : \A n \in DOMAIN br[k].comments : br[k].comments[n].id # NextCommentId
  BY <1>2, NextNumber
<1> HIDE DEF old
<1>11. Numbering(br')
  <2>1. \A k \in DOMAIN br' : \A n \in DOMAIN br'[k].comments : br'[k].comments[n].id # NoId
    BY <1>9, <1>10 DEF StoresInv, Numbering
  <2>2. ASSUME NEW k \in DOMAIN br', NEW n \in DOMAIN br'[k].comments,
               NEW l \in DOMAIN br', NEW m \in DOMAIN br'[l].comments,
               br'[k].comments[n].id = br'[l].comments[m].id
        PROVE  k = l /\ n = m
    <3>1. CASE k \in DOMAIN br /\ n \in DOMAIN br[k].comments /\ br'[k].comments[n] = br[k].comments[n]
      <4>1. l \in DOMAIN br /\ m \in DOMAIN br[l].comments /\ br'[l].comments[m] = br[l].comments[m]
        BY <1>9, <1>10, <2>2, <3>1
      <4> QED
        BY <2>2, <3>1, <4>1 DEF StoresInv, Numbering
    <3>2. CASE k = i /\ n = old + 1 /\ br'[k].comments[n].id = NextCommentId
      BY <1>9, <1>10, <2>2, <3>2
    <3> QED
      BY <1>9, <3>1, <3>2
  <2> QED
    BY <2>1, <2>2 DEF Numbering
<1>12. \A k \in DOMAIN br' : br'[k].repo = "none" \/ br'[k].meta = "none"
  BY <1>6, <1>8 DEF StoresInv
<1>13. ~Migrated'
  BY <1>1 DEF Migrated
<1>14. StoresInv'
  BY <1>1, <1>8, <1>11, <1>12, <1>13 DEF StoresInv
<1> QED
  BY <1>1, <1>4, <1>6, <1>8, <1>14

LEMMA ImportStep ==
  ASSUME StoresInv, NEW preserve \in BOOLEAN, NEW drop \in BOOLEAN, Import(preserve, drop)
  PROVE  StoresInv'
<1>1. CASE ImportRefused(Forward(br, preserve, drop))
  <2>1. UNCHANGED <<br, bd, origin>>
    BY <1>1 DEF Import
  <2> QED
    BY <2>1 DEF StoresInv, Migrated
<1>2. CASE ~ImportRefused(Forward(br, preserve, drop))
  <2>1. br' = br /\ bd' = Imported(Forward(br, preserve, drop)) /\ origin' = br
    BY <1>2 DEF Import
  <2>2. IssueStore(bd') /\ Unnumbered(bd') /\ DOMAIN bd' \subseteq DOMAIN br
    BY <2>1, ImportCopies DEF StoresInv, Copied
  <2> QED
    BY <2>1, <2>2 DEF StoresInv
<1> QED
  BY <1>1, <1>2

\* Work in bd edits one record, and gives nothing a number.
LEMMA BdStep ==
  ASSUME StoresInv, Migrated, NEW i \in DOMAIN bd, NEW r \in IssueRecord,
         r.repo = bd[i].repo, Len(r.comments) <= MaxComments,
         \A n \in DOMAIN r.comments : r.comments[n].id = NoId,
         bd' = [bd EXCEPT ![i] = r], UNCHANGED <<br, origin>>
  PROVE  StoresInv'
<1>1. /\ IssueStore(bd') /\ DOMAIN bd' = DOMAIN bd /\ bd'[i] = r
      /\ \A k \in DOMAIN bd : k # i => bd'[k] = bd[k]
  BY EditedStore DEF StoresInv
<1>2. Unnumbered(bd')
  BY <1>1 DEF StoresInv, Unnumbered
<1> QED
  BY <1>1, <1>2 DEF StoresInv, Migrated

LEMMA CommentInBdStep ==
  ASSUME StoresInv, NEW i \in Issues, NEW text \in Texts, CommentInBd(i, text)
  PROVE  StoresInv'
<1> DEFINE c == [id |-> NoId, text |-> text]
           C == Append(bd[i].comments, c)
           r == [bd[i] EXCEPT !.comments = C]
<1>1. /\ Migrated /\ i \in DOMAIN bd /\ CommentCount(bd) < MaxComments
      /\ bd' = [bd EXCEPT ![i] = r]
      /\ UNCHANGED <<br, origin>>
  BY DEF CommentInBd
<1>2. /\ IssueStore(bd) /\ bd[i] \in IssueRecord /\ bd[i].comments \in Seq(IssueComment)
      /\ DOMAIN bd[i].comments = 1..Len(bd[i].comments) /\ Len(bd[i].comments) \in Nat
      /\ \A n \in DOMAIN bd[i].comments : bd[i].comments[n].id = NoId
  BY <1>1, StoredComments DEF StoresInv, Unnumbered
<1>3. c \in IssueComment /\ c.id = NoId
  BY DEF IssueComment, NoId
<1>4. C \in Seq(IssueComment) /\ Len(C) = Len(bd[i].comments) + 1
      /\ \A n \in DOMAIN C : C[n] = c \/ (n \in DOMAIN bd[i].comments /\ C[n] = bd[i].comments[n])
  <2> HIDE DEF c
  <2> QED
    BY <1>2, <1>3
<1>5. \A n \in DOMAIN C : C[n].id = NoId
  <2> HIDE DEF c, C
  <2> QED
    BY <1>2, <1>3, <1>4
<1> HIDE DEF C
<1>6. r \in IssueRecord /\ r.comments = C /\ r.repo = bd[i].repo
  BY <1>2, <1>4, RecordEdits
<1> HIDE DEF r
<1>7. Len(r.comments) <= MaxComments
  <2>1. Len(bd[i].comments) < MaxComments
    BY <1>1, <1>2, RoomLeft
  <2> QED
    BY <1>2, <1>4, <1>6, <2>1, BeadsAssumption
<1> QED
  BY <1>1, <1>5, <1>6, <1>7, BdStep

LEMMA WithoutOne ==
  ASSUME NEW s \in Seq(IssueComment), NEW n \in DOMAIN s
  PROVE  /\ Without(s, n) \in Seq(IssueComment) /\ Len(Without(s, n)) <= Len(s)
         /\ \A m \in DOMAIN Without(s, n) : \E k \in DOMAIN s : Without(s, n)[m] = s[k]
<1> DEFINE before == SubSeq(s, 1, n - 1)
           after == SubSeq(s, n + 1, Len(s))
<1>1. n \in Nat /\ n >= 1 /\ n <= Len(s) /\ Len(s) \in Nat /\ DOMAIN s = 1..Len(s)
  OBVIOUS
<1>2. /\ before \in Seq(IssueComment) /\ Len(before) = n - 1
      /\ \A k \in 1..(n - 1) : before[k] = s[k]
  BY <1>1
<1>3. /\ after \in Seq(IssueComment) /\ Len(after) = Len(s) - n
      /\ \A k \in 1..(Len(s) - n) : after[k] = s[n + k]
  BY <1>1
<1> HIDE DEF before, after
<1> DEFINE both == before \o after
<1>7. /\ both \in Seq(IssueComment) /\ Len(both) = Len(before) + Len(after)
      /\ \A k \in 1..(Len(before) + Len(after)) :
           both[k] = IF k <= Len(before) THEN before[k] ELSE after[k - Len(before)]
  <2>1. before \in Seq(IssueComment) /\ after \in Seq(IssueComment)
    BY <1>2, <1>3
  <2> QED
    BY <2>1, ConcatProperties
<1>4. /\ both \in Seq(IssueComment) /\ Len(both) = Len(s) - 1 /\ Len(before) = n - 1
      /\ \A k \in 1..(Len(s) - 1) : both[k] = IF k <= Len(before) THEN before[k] ELSE after[k - Len(before)]
  <2>1. Len(before) + Len(after) = Len(s) - 1
    BY <1>1, <1>2, <1>3
  <2> QED
    BY <1>2, <1>7, <2>1
<1> HIDE DEF both
<1>5. ASSUME NEW m \in DOMAIN both PROVE \E k \in DOMAIN s : both[m] = s[k]
  <2>1. m \in Nat /\ m >= 1 /\ m <= Len(s) - 1
    BY <1>1, <1>4
  <2>2. CASE m <= n - 1
    BY <1>1, <1>2, <1>4, <2>1, <2>2
  <2>3. CASE ~(m <= n - 1)
    <3>1. m - (n - 1) \in 1..(Len(s) - n) /\ n + (m - (n - 1)) \in DOMAIN s
      BY <1>1, <2>1, <2>3
    <3>2. both[m] = after[m - (n - 1)]
      <4>1. m \in 1..(Len(s) - 1) /\ ~(m <= Len(before)) /\ m - Len(before) = m - (n - 1)
        BY <1>1, <1>4, <2>1, <2>3
      <4> QED
        BY <1>4, <4>1
    <3> QED
      BY <1>3, <3>1, <3>2
  <2> QED
    BY <2>2, <2>3
<1>6. Without(s, n) = both
  BY DEF Without, both, before, after
<1> QED
  BY <1>1, <1>4, <1>5, <1>6

LEMMA DeleteInBdStep ==
  ASSUME StoresInv, NEW i \in Issues, NEW n \in 1..MaxComments, DeleteInBd(i, n)
  PROVE  StoresInv'
<1> DEFINE C == Without(bd[i].comments, n)
           r == [bd[i] EXCEPT !.comments = C]
<1>1. /\ Migrated /\ i \in DOMAIN bd /\ n \in DOMAIN bd[i].comments
      /\ bd' = [bd EXCEPT ![i] = r]
      /\ UNCHANGED <<br, origin>>
  BY DEF DeleteInBd
<1>2. /\ bd[i] \in IssueRecord /\ bd[i].comments \in Seq(IssueComment)
      /\ Len(bd[i].comments) \in Nat /\ Len(bd[i].comments) <= MaxComments
      /\ \A m \in DOMAIN bd[i].comments : bd[i].comments[m].id = NoId
  BY <1>1, StoredComments DEF StoresInv, IssueStore, Unnumbered
<1>3. /\ C \in Seq(IssueComment) /\ Len(C) <= Len(bd[i].comments)
      /\ \A m \in DOMAIN C : \E k \in DOMAIN bd[i].comments : C[m] = bd[i].comments[k]
  BY <1>1, <1>2, WithoutOne
<1> HIDE DEF C
<1>4. Len(C) \in Nat /\ Len(C) <= MaxComments /\ \A m \in DOMAIN C : C[m].id = NoId
  BY <1>2, <1>3, BeadsAssumption
<1>5. r \in IssueRecord /\ r.comments = C /\ r.repo = bd[i].repo
  BY <1>2, <1>3, RecordEdits
<1> HIDE DEF r
<1> QED
  BY <1>1, <1>4, <1>5, BdStep

LEMMA UnlinkInBdStep ==
  ASSUME StoresInv, NEW i \in Issues, NEW j \in Issues, UnlinkInBd(i, j)
  PROVE  StoresInv'
<1> DEFINE r == [bd[i] EXCEPT !.edges = bd[i].edges \ {j}]
<1>1. /\ Migrated /\ i \in DOMAIN bd
      /\ bd' = [bd EXCEPT ![i] = r]
      /\ UNCHANGED <<br, origin>>
  BY DEF UnlinkInBd
<1>2. /\ bd[i] \in IssueRecord /\ Len(bd[i].comments) <= MaxComments
      /\ bd[i].edges \ {j} \in SUBSET Issues
      /\ \A m \in DOMAIN bd[i].comments : bd[i].comments[m].id = NoId
  BY <1>1 DEF StoresInv, IssueStore, IssueRecord, Unnumbered
<1>3. r \in IssueRecord /\ r.comments = bd[i].comments /\ r.repo = bd[i].repo
  BY <1>2, RecordEdits
<1> HIDE DEF r
<1> QED
  BY <1>1, <1>2, <1>3, BdStep

LEMMA RollbackStep ==
  ASSUME StoresInv, NEW reference \in {NoStore, origin}, NEW ours \in SUBSET DOMAIN bd,
         Rollback(reference, ours)
  PROVE  StoresInv'
<1>1. /\ Migrated /\ br' = Reverse(RollbackFile(ours), reference)
      /\ bd' = NoStore /\ origin' = NoStore
  BY DEF Rollback
<1>2. /\ br = origin /\ DOMAIN bd \subseteq DOMAIN origin /\ Unnumbered(bd)
      /\ IssueStore(bd) /\ IssueStore(origin) /\ Numbering(origin)
      /\ \A i \in DOMAIN origin : origin[i].repo = "none" \/ origin[i].meta = "none"
  BY <1>1 DEF StoresInv
<1> DEFINE records == RollbackFile(ours)
<1>3. /\ DOMAIN records = DOMAIN bd
      /\ \A i \in DOMAIN bd : records[i] = IF i \in ours THEN origin[i] ELSE bd[i]
      /\ records = [i \in DOMAIN records |-> records[i]]
  BY DEF RollbackFile
<1> HIDE DEF records
<1>4. IssueStore(records)
  <2>1. \A i \in DOMAIN records : records[i] \in IssueRecord /\ Len(records[i].comments) <= MaxComments
    BY <1>2, <1>3 DEF IssueStore
  <2>2. records \in [DOMAIN records -> IssueRecord]
    BY <1>3, <2>1
  <2> QED
    BY <1>2, <1>3, <2>1, <2>2 DEF IssueStore
<1>5. MixedFile(records, origin)
  BY <1>2, <1>3 DEF MixedFile, Unnumbered
<1> DEFINE back == Reverse(records, reference)
<1>6. /\ IssueStore(back) /\ Numbering(back) /\ DOMAIN back = DOMAIN records
      /\ \A i \in DOMAIN records : back[i].repo = records[i].repo /\ back[i].meta = records[i].meta
  BY <1>2, <1>4, <1>5, ReverseFile
<1> HIDE DEF back
<1>7. \A i \in DOMAIN back : back[i].repo = "none" \/ back[i].meta = "none"
  BY <1>2, <1>3, <1>6 DEF Unnumbered
<1>8. br' = back
  BY <1>1 DEF back, records
<1>9. ~Migrated'
  BY <1>1 DEF Migrated, NoStore
<1> QED
  BY <1>1, <1>6, <1>7, <1>8, <1>9, EmptyStore DEF StoresInv

LEMMA StoresInvariant == BeadsSpec => []StoresInv
<1>1. BeadsInit => StoresInv
  BY EmptyStore DEF BeadsInit, StoresInv, Migrated
<1>2. StoresInv /\ [BeadsNext]_beadsVars => StoresInv'
  <2> SUFFICES ASSUME StoresInv, [BeadsNext]_beadsVars PROVE StoresInv'
    OBVIOUS
  <2>1. CASE UNCHANGED <<br, bd, origin>>
    BY <2>1 DEF StoresInv, Migrated
  <2>2. CASE Preflight \/ Verify
    BY <2>1, <2>2 DEF Preflight, Verify
  <2>3. ASSUME NEW reference \in {NoStore, origin}, NEW ours \in SUBSET DOMAIN bd,
               Rollback(reference, ours)
        PROVE  StoresInv'
    BY <2>3, RollbackStep
  <2>4. CASE UNCHANGED beadsVars
    BY <2>1, <2>4 DEF beadsVars
  <2> QED
    BY <2>2, <2>3, <2>4, CreateStep, LinkStep, UnlinkInBdStep, CommentStep, CommentInBdStep,
       DeleteInBdStep, ImportStep DEF BeadsNext
<1> QED
  BY <1>1, <1>2, PTL DEF BeadsSpec

-----------------------------------------------------------------------------
(* Preflight: br's store has only grown since. *)

Grown(old, new) ==
  /\ DOMAIN old \subseteq DOMAIN new
  /\ \A i \in DOMAIN old : /\ old[i].edges \subseteq new[i].edges
                           /\ Len(old[i].comments) <= Len(new[i].comments)

PreflightInv ==
  /\ Grown(prepared, br) /\ PreflightIsEnough
  /\ \A i \in DOMAIN prepared : Len(prepared[i].comments) \in Nat

LEMMA WorkInBrGrows ==
  ASSUME StoresInv, PreflightInv, NEW i \in Issues,
         \/ \E shape \in Shapes : Create(i, shape)
         \/ \E j \in Issues : Link(i, j)
         \/ \E text \in Texts : Comment(i, text)
  PROVE  PreflightInv'
<1>1. prepared' = prepared
  BY DEF Create, Link, Comment
<1>2. \A k \in DOMAIN br : Len(br[k].comments) \in Nat
  BY StoredComments DEF StoresInv
<1>3. Grown(prepared, br) /\ \A k \in DOMAIN prepared : Len(prepared[k].comments) \in Nat
  BY DEF PreflightInv
<1>4. Grown(prepared, br') /\ br' # prepared
  <2>1. ASSUME NEW shape \in Shapes, Create(i, shape) PROVE Grown(prepared, br') /\ br' # prepared
    <3>1. /\ DOMAIN br' = (DOMAIN br) \cup {i} /\ i \notin DOMAIN br
          /\ \A k \in DOMAIN br : br'[k] = br[k]
      BY <2>1, CreateStep
    <3>2. i \notin DOMAIN prepared /\ i \in DOMAIN br'
      BY <1>3, <3>1 DEF Grown
    <3> QED
      BY <1>3, <3>1, <3>2 DEF Grown
  <2>2. ASSUME NEW j \in Issues, Link(i, j) PROVE Grown(prepared, br') /\ br' # prepared
    <3>1. /\ DOMAIN br' = DOMAIN br /\ i \in DOMAIN br
          /\ br'[i].edges = br[i].edges \cup {j} /\ j \notin br[i].edges
          /\ br'[i].comments = br[i].comments
          /\ \A k \in DOMAIN br : k # i => br'[k] = br[k]
      BY <2>2, LinkStep
    <3>2. i \in DOMAIN prepared => prepared[i].edges # br'[i].edges
      BY <1>3, <3>1 DEF Grown
    <3>3. br' # prepared
      BY <3>1, <3>2
    <3> QED
      BY <1>3, <3>1, <3>3 DEF Grown
  <2>3. ASSUME NEW text \in Texts, Comment(i, text) PROVE Grown(prepared, br') /\ br' # prepared
    <3>1. /\ DOMAIN br' = DOMAIN br /\ i \in DOMAIN br
          /\ br'[i].edges = br[i].edges
          /\ Len(br'[i].comments) = Len(br[i].comments) + 1
          /\ \A k \in DOMAIN br : k # i => br'[k] = br[k]
      BY <2>3, CommentStep
    <3>2. i \in DOMAIN prepared => Len(prepared[i].comments) < Len(br'[i].comments)
      BY <1>2, <1>3, <3>1 DEF Grown
    <3>3. br' # prepared
      BY <1>3, <3>1, <3>2
    <3>4. \A k \in DOMAIN prepared : k \in DOMAIN br' /\ Len(prepared[k].comments) <= Len(br'[k].comments)
      BY <1>2, <1>3, <3>1, <3>2 DEF Grown
    <3> QED
      BY <1>3, <3>1, <3>3, <3>4 DEF Grown
  <2> QED
    BY <2>1, <2>2, <2>3
<1> QED
  BY <1>1, <1>3, <1>4 DEF PreflightInv, PreflightIsEnough

\* What preflight let through and prepared bd for is not refused.
LEMMA PreparedIsTaken ==
  ASSUME StoresInv, NEW preserve \in BOOLEAN, NEW drop \in BOOLEAN,
         ImportRefused(Forward(br, preserve, drop)), prepared = br
  PROVE  ~PreflightPasses(br)
<1> DEFINE records == Forward(br, preserve, drop)
<1>1. /\ DOMAIN records \subseteq DOMAIN br
      /\ \A i \in DOMAIN records : /\ records[i].status = br[i].status /\ records[i].type = br[i].type
                                /\ records[i].size = br[i].size
  BY ForwardStore DEF StoresInv
<1>2. ImportRefused(records)
  OBVIOUS
<1> HIDE DEF records
<1>3. \A i \in DOMAIN br : br[i].type \in BuiltinTypes \cup RequiredBdConfig(br).types
  BY DEF RequiredBdConfig, CustomTypes
<1>4. \A i \in DOMAIN br : br[i].status \in BuiltinStatuses \cup {"tombstone"} \cup RequiredBdConfig(br).statuses
  BY DEF RequiredBdConfig, CustomStatuses
<1>5. Oversize(records) # {}
  BY <1>1, <1>2, <1>3, <1>4 DEF ImportRefused
<1>6. Oversize(br) # {}
  BY <1>1, <1>5 DEF Oversize
<1> QED
  BY <1>6 DEF PreflightPasses

LEMMA PreflightInvariant == BeadsSpec => []PreflightInv
<1>1. BeadsInit => PreflightInv
  BY EmptyStore DEF BeadsInit, PreflightInv, PreflightIsEnough, Grown
<1>2. StoresInv /\ PreflightInv /\ [BeadsNext]_beadsVars => PreflightInv'
  <2> SUFFICES ASSUME StoresInv, PreflightInv, [BeadsNext]_beadsVars PROVE PreflightInv'
    OBVIOUS
  <2>1. CASE UNCHANGED <<br, prepared>> /\ verdict' # "refused"
    BY <2>1 DEF PreflightInv, PreflightIsEnough, Grown
  <2>2. CASE \/ \E i, j \in Issues : UnlinkInBd(i, j)
             \/ \E i \in Issues, text \in Texts : CommentInBd(i, text)
             \/ \E i \in Issues, n \in 1..MaxComments : DeleteInBd(i, n)
             \/ Verify
    BY <2>1, <2>2 DEF UnlinkInBd, CommentInBd, DeleteInBd, Verify
  <2>3. CASE Preflight
    <3>1. br' = br /\ prepared' = br /\ verdict' = "none"
      BY <2>3 DEF Preflight
    <3>2. \A i \in DOMAIN br : Len(br[i].comments) \in Nat
      BY StoredComments DEF StoresInv
    <3> QED
      BY <3>1, <3>2 DEF PreflightInv, PreflightIsEnough, Grown
  <2>4. ASSUME NEW preserve \in BOOLEAN, NEW drop \in BOOLEAN, Import(preserve, drop)
        PROVE  PreflightInv'
    <3>1. br' = br /\ prepared' = prepared
      BY <2>4 DEF Import
    <3>2. CASE ImportRefused(Forward(br, preserve, drop))
      <4>1. ~PreflightPasses(br) \/ prepared # br
        BY <3>2, PreparedIsTaken
      <4> QED
        BY <3>1, <4>1 DEF PreflightInv, PreflightIsEnough, Grown, PreflightPasses, Oversize
    <3>3. CASE ~ImportRefused(Forward(br, preserve, drop))
      <4>1. verdict' = "none"
        BY <2>4, <3>3 DEF Import
      <4> QED
        BY <2>1, <3>1, <4>1
    <3> QED
      BY <3>2, <3>3
  <2>5. ASSUME NEW reference \in {NoStore, origin}, NEW ours \in SUBSET DOMAIN bd,
               Rollback(reference, ours)
        PROVE  PreflightInv'
    <3>1. prepared' = NoStore /\ verdict' = "none" /\ DOMAIN NoStore = {}
      BY <2>5, EmptyStore DEF Rollback
    <3> QED
      BY <3>1 DEF PreflightInv, PreflightIsEnough, Grown
  <2>6. CASE UNCHANGED beadsVars
    BY <2>6 DEF beadsVars, PreflightInv, PreflightIsEnough, Grown, PreflightPasses, Oversize
  <2> QED
    BY <2>2, <2>3, <2>4, <2>5, <2>6, WorkInBrGrows DEF BeadsNext
<1> QED
  BY <1>1, <1>2, StoresInvariant, PTL DEF BeadsSpec

(***************************************************************************)
(* bd refuses a store that preflight has let through and that it was       *)
(* configured for only if the store has changed since, for any number of   *)
(* issues of any shapes and whatever is migrated and rolled back before    *)
(* (requiredBdConfig and checkOversizeFields of beads-transform.ts).       *)
(***************************************************************************)
THEOREM PreflightSuffices == BeadsSpec => []PreflightIsEnough
BY PreflightInvariant, PTL DEF PreflightInv

-----------------------------------------------------------------------------
(* Verify: bd's store is the copy of what was imported until somebody works in it. *)

VerifyInv ==
  /\ verdict = "ok" => Reconciles(origin, bd)
  /\ verdict = "failed" => Migrated /\ ~Reconciles(origin, bd)
  /\ Migrated /\ ~touched => Copied(origin, bd)

\* A copy without the tombstones, which had no comments, reconciles if no origin is lost.
LEMMA CopyReconciles ==
  ASSUME NEW store, NEW copy, IssueStore(store), IssueStore(copy), Copied(store, copy), Unnumbered(copy),
         \A i \in DOMAIN store : store[i].repo = "none" \/ store[i].meta = "none",
         \A i \in Tombstones(store) : i \notin DOMAIN copy /\ store[i].comments = <<>>,
         Repos(store) \subseteq Repos(copy)
  PROVE  Reconciles(store, copy)
<1>1. /\ DOMAIN copy = (DOMAIN store) \ Tombstones(store)
      /\ \A i \in DOMAIN copy : CopyOf(store[i], copy[i])
  BY DEF Copied, Tombstones
<1>2. CommentCount(store) = CommentCount(copy)
  <2>1. ASSUME NEW i \in DOMAIN store, NEW n \in 1..MaxComments, n <= Len(store[i].comments)
        PROVE  i \in DOMAIN copy
    <3>1. Len(store[i].comments) # 0
      BY <2>1, BeadsAssumption
    <3> QED
      BY <1>1, <3>1
  <2>2. Comments(store) = Comments(copy)
    BY <1>1, <2>1 DEF Comments, CopyOf
  <2> QED
    BY <2>2 DEF CommentCount
<1>3. Repos(copy) = Repos(store)
  <2>1. \A i \in DOMAIN copy : SourceRepo(copy[i]) = SourceRepo(store[i]) \/ SourceRepo(copy[i]) = "none"
    BY <1>1 DEF CopyOf, SourceRepo
  <2> QED
    BY <1>1, <2>1 DEF Repos
<1>4. \A i \in DOMAIN copy : /\ copy[i].edges = store[i].edges /\ copy[i].status = store[i].status
                             /\ copy[i].type = store[i].type /\ copy[i].size = store[i].size
  BY <1>1 DEF CopyOf
<1> QED
  BY <1>1, <1>2, <1>3, <1>4 DEF Reconciles

LEMMA VerifyInvariant == BeadsSpec => []VerifyInv
<1>1. BeadsInit => VerifyInv
  BY DEF BeadsInit, VerifyInv, Migrated
<1>2. StoresInv /\ VerifyInv /\ [BeadsNext]_beadsVars => VerifyInv'
  <2> SUFFICES ASSUME StoresInv, VerifyInv, [BeadsNext]_beadsVars PROVE VerifyInv'
    OBVIOUS
  <2>1. CASE UNCHANGED <<bd, origin, touched>> /\ verdict' \in {verdict, "none", "refused"}
    <3>1. Reconciles(origin, bd)' <=> Reconciles(origin, bd)
      BY <2>1
    <3>2. Copied(origin, bd)' <=> Copied(origin, bd)
      BY <2>1
    <3>3. Migrated' <=> Migrated
      BY <2>1 DEF Migrated
    <3> QED
      BY <2>1, <3>1, <3>2, <3>3 DEF VerifyInv
  <2>2. CASE \/ \E i \in Issues, shape \in Shapes : Create(i, shape)
             \/ \E i, j \in Issues : Link(i, j)
             \/ \E i \in Issues, text \in Texts : Comment(i, text)
             \/ Preflight \/ UNCHANGED beadsVars
    BY <2>1, <2>2 DEF Create, Link, Comment, Preflight, beadsVars
  <2>3. CASE verdict' = "none" /\ touched' = TRUE
    BY <2>3 DEF VerifyInv
  <2>4. CASE \/ \E i, j \in Issues : UnlinkInBd(i, j)
             \/ \E i \in Issues, text \in Texts : CommentInBd(i, text)
             \/ \E i \in Issues, n \in 1..MaxComments : DeleteInBd(i, n)
    BY <2>3, <2>4 DEF UnlinkInBd, CommentInBd, DeleteInBd
  <2>5. ASSUME NEW preserve \in BOOLEAN, NEW drop \in BOOLEAN, Import(preserve, drop)
        PROVE  VerifyInv'
    <3>1. CASE ImportRefused(Forward(br, preserve, drop))
      BY <2>1, <2>5, <3>1 DEF Import
    <3>2. CASE ~ImportRefused(Forward(br, preserve, drop))
      <4>1. /\ bd' = Imported(Forward(br, preserve, drop)) /\ origin' = br /\ verdict' = "none"
        BY <2>5, <3>2 DEF Import
      <4>2. Copied(origin', bd')
        BY <4>1, ImportCopies DEF StoresInv
      <4> QED
        BY <4>1, <4>2 DEF VerifyInv
    <3> QED
      BY <3>1, <3>2
  <2>6. ASSUME NEW reference \in {NoStore, origin}, NEW ours \in SUBSET DOMAIN bd,
               Rollback(reference, ours)
        PROVE  VerifyInv'
    BY <2>6 DEF Rollback, VerifyInv, Migrated
  <2>7. CASE Verify
    <3>1. /\ Migrated /\ UNCHANGED <<bd, origin, touched>>
          /\ verdict' = IF Reconciles(origin, bd) THEN "ok" ELSE "failed"
      BY <2>7 DEF Verify
    <3>2. (Reconciles(origin, bd)' <=> Reconciles(origin, bd)) /\ (Copied(origin, bd)' <=> Copied(origin, bd))
      BY <3>1
    <3>3. Migrated'
      BY <3>1 DEF Migrated
    <3> QED
      BY <3>1, <3>2, <3>3 DEF VerifyInv
  <2> QED
    BY <2>2, <2>4, <2>5, <2>6, <2>7 DEF BeadsNext
<1> QED
  BY <1>1, <1>2, StoresInvariant, PTL DEF BeadsSpec

(***************************************************************************)
(* What verify passes has every record that was not deleted as it was, for *)
(* any store and whatever is done in bd; an import nobody has touched      *)
(* fails only over a tombstone that bd has kept or that had comments, or   *)
(* over a repository's name that no record in bd carries                   *)
(* (compareReports of beads-transform.ts).                                 *)
(***************************************************************************)
THEOREM VerifyTellsTheTruth == BeadsSpec => []VerifyIsRight
<1>1. StoresInv /\ VerifyInv => VerifyIsRight
  <2> SUFFICES ASSUME StoresInv, VerifyInv PROVE VerifyIsRight
    OBVIOUS
  <2>1. verdict = "ok" =>
          \A i \in (DOMAIN origin) \ Tombstones(origin) :
            /\ i \in DOMAIN bd
            /\ bd[i].edges = origin[i].edges
            /\ bd[i].status = origin[i].status /\ bd[i].type = origin[i].type
    BY DEF VerifyInv, Reconciles
  <2>2. ASSUME verdict = "failed", ~touched, Repos(origin) \subseteq Repos(bd),
               \A i \in Tombstones(origin) : i \notin DOMAIN bd /\ origin[i].comments = <<>>
        PROVE  FALSE
    <3>1. Migrated /\ ~Reconciles(origin, bd) /\ Copied(origin, bd)
      BY <2>2 DEF VerifyInv
    <3>2. /\ IssueStore(origin) /\ IssueStore(bd) /\ Unnumbered(bd)
          /\ \A i \in DOMAIN origin : origin[i].repo = "none" \/ origin[i].meta = "none"
      BY <3>1 DEF StoresInv
    <3> QED
      BY <2>2, <3>1, <3>2, CopyReconciles
  <2> QED
    BY <2>1, <2>2 DEF VerifyIsRight
<1> QED
  BY <1>1, StoresInvariant, VerifyInvariant, PTL

-----------------------------------------------------------------------------
(* Rollback. *)

(***************************************************************************)
(* What br gets back has comments with numbers of their own, and with the  *)
(* reference the comments nobody deleted one of are what they were, for    *)
(* any store and any merge of the two sides (transformReverse of           *)
(* beads-transform.ts).                                                    *)
(***************************************************************************)
THEOREM RollbackBringsBack == BeadsSpec => []RollbackRestores
<1>1. StoresInv => RollbackRestores
  <2> SUFFICES ASSUME StoresInv PROVE RollbackRestores
    OBVIOUS
  <2>1. \A c \in Comments(br) : c = <<c[1], c[2]>> /\ c[1] \in DOMAIN br /\ c[2] \in DOMAIN br[c[1]].comments
    BY CommentPlaces DEF StoresInv
  <2>2. \A c \in Comments(br) : br[c[1]].comments[c[2]].id # NoId
    BY <2>1 DEF StoresInv, Numbering
  <2>3. ASSUME NEW c \in Comments(br), NEW d \in Comments(br),
               br[c[1]].comments[c[2]].id = br[d[1]].comments[d[2]].id
        PROVE  c = d
    <3>1. c[1] = d[1] /\ c[2] = d[2]
      BY <2>1, <2>3 DEF StoresInv, Numbering
    <3> QED
      BY <2>1, <3>1
  <2>4. ASSUME Migrated, NEW i \in DOMAIN bd, NEW n \in DOMAIN origin[i].comments,
               Len(Reverse(bd, origin)[i].comments) >= Len(origin[i].comments),
               Reverse(bd, origin)[i].comments[n].text = origin[i].comments[n].text
        PROVE  Reverse(bd, origin)[i].comments[n].id = origin[i].comments[n].id
    <3>1. /\ IssueStore(bd) /\ IssueStore(origin) /\ Numbering(origin)
          /\ Unnumbered(bd) /\ DOMAIN bd \subseteq DOMAIN origin
      BY <2>4 DEF StoresInv
    <3>2. MixedFile(bd, origin)
      BY <3>1 DEF MixedFile, Unnumbered
    <3> DEFINE back == Reverse(bd, origin)
    <3>3. /\ Len(back[i].comments) = Len(bd[i].comments)
          /\ \A m \in DOMAIN bd[i].comments :
               /\ back[i].comments[m].id = NewNumber(bd, origin, i, m)
               /\ back[i].comments[m].text = bd[i].comments[m].text
      BY <2>4, <3>1, <3>2, ReverseFile
    <3> HIDE DEF back
    <3>4. /\ Len(origin[i].comments) \in Nat /\ DOMAIN origin[i].comments = 1..Len(origin[i].comments)
          /\ Len(bd[i].comments) \in Nat /\ DOMAIN bd[i].comments = 1..Len(bd[i].comments)
      BY <2>4, <3>1, StoredComments
    <3>5. n \in DOMAIN bd[i].comments /\ n \in Nat
      BY <2>4, <3>3, <3>4 DEF back
    <3>6. bd[i].comments[n].text = origin[i].comments[n].text /\ bd[i].comments[n].id = NoId
      BY <2>4, <3>1, <3>3, <3>5 DEF back, Unnumbered
    <3>7. OriginalId(origin, i, n, bd[i].comments[n].text) = origin[i].comments[n].id
      BY <2>4, <3>1, <3>5, <3>6, ReferenceNumber
    <3>8. origin[i].comments[n].id # NoId
      BY <2>4, <3>1 DEF Numbering
    <3>9. NewNumber(bd, origin, i, n) = origin[i].comments[n].id
      BY <3>6, <3>7, <3>8 DEF NewNumber, NumberFor
    <3> QED
      BY <3>3, <3>5, <3>9 DEF back
  <2> QED
    BY <2>2, <2>3, <2>4 DEF RollbackRestores
<1> QED
  BY <1>1, StoresInvariant, PTL

=============================================================================
