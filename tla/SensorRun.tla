------------------------------ MODULE SensorRun ------------------------------
(***************************************************************************)
(* One run after another of harness/sensors/bin/sensors: the report that   *)
(* is built from dependency-cruiser, ts-morph and the APSS topology, the   *)
(* adapters that each leave a file of their own, and the two programs that *)
(* judge what was read: gate.mjs and fitness_report.mjs.                   *)
(*                                                                         *)
(* What an adapter measures is "good" or "bad" with respect to the floor   *)
(* in baseline.json.  Floors and the ratchet are in FitnessGate.           *)
(***************************************************************************)
EXTENDS Naturals, Sequences, FiniteSets

CONSTANTS Scanners,     \* adapters with a file of one metric: sentrux, deadcode, loc, ...
          Lanes,        \* languages whose coverage has a floor
          RequiredIn,   \* the adapters each profile requires
          Skips,        \* what a run may be told to skip
          Iterations,   \* floor of the suite's iterations
          FloorMetrics, \* columns of the suite's coverage that have to be verified
          PerFile,      \* the topology lists the files that the cruiser lists
          MaxBad        \* bound on what is bad at the same time

Facets == {"cycles", "coupling", "ts", "apss", "apssCoupling", "duration"} \cup Scanners \cup Lanes
Adapters == {"cruiser-coupling", "complexity", "apss-topology", "coverage", "suite-duration"}
              \cup Scanners

ASSUME SensorAssumption ==
    /\ RequiredIn \in [DOMAIN RequiredIn -> SUBSET Adapters]
    /\ \A skip \in Skips : skip \subseteq Adapters \cup {"dep-cruiser", "ts-morph"}
    /\ Iterations \in Nat /\ MaxBad \in Nat
    /\ FloorMetrics # {}
    /\ PerFile \in BOOLEAN
    /\ Scanners \cap Lanes = {}
    /\ (Scanners \cup Lanes) \cap {"peak", "spread", "halstead", "cycles", "fanout", "p95",
                                  "iterations", "coupling", "ts", "apss", "apssCoupling",
                                  "duration", "cruiser-coupling", "complexity",
                                  "apss-topology", "coverage", "suite-duration"} = {}

VARIABLES code,         \* how the working tree is: what every facet measures if measured now
          topology,     \* the files of .topology/metrics, which outlive the run
          gateRun       \* the run under way or just ended

sensorVars == <<code, topology, gateRun>>

Quality == {"good", "bad"}
Measure == Quality \cup {"none"}
MeasureFile == Measure \cup {"absent"}   \* "none": the adapter said it is not available

NoFiles == [functions |-> "none", coupling |-> "none"]
NoTopology == [apss |-> "none", apssCoupling |-> "none"]
NoCoverage == [file |-> FALSE, lanes |-> [l \in Lanes |-> "none"]]
NoSuite == [available |-> FALSE, p95 |-> "none", count |-> 0, ran |-> FALSE, covered |-> FALSE]

NoRun == [step |-> "idle", profile |-> "none", skip |-> {}, asked |-> FALSE,
          cruiser |-> [cycles |-> "none", coupling |-> "none"], ts |-> "none", produced |-> FALSE,
          apss |-> NoTopology, files |-> [s \in Scanners |-> "absent"],
          coverage |-> NoCoverage, suite |-> NoSuite, exit |-> 0]

-----------------------------------------------------------------------------
(* What gate.mjs reads from the report and from the files it is given *)

Metrics == {"peak", "spread", "halstead", "cycles", "fanout", "p95", "iterations"}
             \cup Scanners \cup Lanes

AdapterOf(m) == CASE m \in {"peak", "spread"}     -> "complexity"
                  [] m = "halstead"               -> "apss-topology"
                  [] m \in {"cycles", "fanout"}   -> "cruiser-coupling"
                  [] m \in {"p95", "iterations"}  -> "suite-duration"
                  [] m \in Lanes                  -> "coverage"
                  [] OTHER                        -> m

FailOnRegression(m) == m # "p95"

\* The maximum over several sources: none of them, or the worst.
Worst(readings) == IF "bad" \in readings THEN "bad"
                   ELSE IF "good" \in readings THEN "good" ELSE "none"

\* Mutant of FileReading: a file that says `available: false` counts zero findings.
FileReadingZero(file) == IF file = "absent" THEN "none" ELSE IF file = "none" THEN "good" ELSE file

FileReading(file) == IF file = "absent" THEN "none" ELSE file

\* A count over the modules of the report is 0 when there are no readings: complex
\* functions, and edges of cycles.
CountOf(reading) == IF reading = "none" THEN "good" ELSE reading
Spread(r) == CountOf(r.ts)
CircularEdges(r) == CountOf(r.cruiser.cycles)

Fanout(r) == IF PerFile /\ r.apss.apssCoupling # "none" THEN r.apss.apssCoupling
             ELSE Worst({r.apss.apssCoupling, r.cruiser.coupling})

\* The number of iterations against the number in the baseline.
CountReading(suite) == IF ~ suite.available THEN "none"
                       ELSE IF suite.count < Iterations THEN "bad" ELSE "good"

MeasureOf(r, m) == CASE m = "peak"       -> Worst({r.ts, r.apss.apss})
                     [] m = "spread"     -> Spread(r)
                     [] m = "halstead"   -> r.apss.apss
                     [] m = "cycles"     -> CircularEdges(r)
                     [] m = "fanout"     -> Fanout(r)
                     [] m = "p95"        -> r.suite.p95
                     [] m = "iterations" -> CountReading(r.suite)
                     [] m \in Lanes      -> r.coverage.lanes[m]
                     [] OTHER            -> FileReading(r.files[m])

RequiredBy(profile) == IF profile \in DOMAIN RequiredIn THEN RequiredIn[profile] ELSE {}

\* Once there is a coverage file every lane has to be in it.
CoverageFails(r, m) == m \in Lanes /\ r.coverage.file /\ MeasureOf(r, m) = "none"

Fails(r, m) == \/ CoverageFails(r, m)
               \/ MeasureOf(r, m) = "none" /\ AdapterOf(m) \in RequiredBy(r.profile)
               \/ MeasureOf(r, m) = "bad" /\ FailOnRegression(m)

GateExit(r) == IF \E m \in Metrics : Fails(r, m) THEN 1 ELSE 0

\* The read-only report on the same readings.  (A metric at risk is still a good one.)
StatusOf(r, m) == IF MeasureOf(r, m) = "none" THEN "SKIP"
                  ELSE IF MeasureOf(r, m) = "bad" THEN "FAIL" ELSE "PASS"

\* Mutant of OverallStatus: metrics with nothing to compare fail.
OverallStatusSkips(r) == IF \E m \in Metrics : StatusOf(r, m) # "PASS" THEN "FAIL" ELSE "PASS"

\* The worst status; what is skipped counts as passed.
OverallStatus(r) == IF \E m \in Metrics : StatusOf(r, m) = "FAIL" THEN "FAIL" ELSE "PASS"

FitnessExit(r) == IF OverallStatus(r) = "FAIL" THEN 1 ELSE 0

-----------------------------------------------------------------------------
(* The steps of a run *)

At(step) == gateRun.step = step

SensorInit ==
    /\ code = [f \in Facets |-> "good"]
    /\ topology = NoFiles
    /\ gateRun = NoRun

\* The code gets better or worse between runs.
EditCode(f) ==
    /\ At("idle")
    /\ LET next == [code EXCEPT ![f] = IF @ = "good" THEN "bad" ELSE "good"]
       IN  /\ Cardinality({g \in Facets : next[g] = "bad"}) <= MaxBad
           /\ code' = next
    /\ UNCHANGED <<topology, gateRun>>

\* A run is over; nothing of it but the topology files is left to the next.
NextRun ==
    /\ At("done")
    /\ gateRun' = NoRun
    /\ UNCHANGED <<code, topology>>

Begin(profile, skip, asked) ==
    /\ At("idle")
    /\ gateRun' = [NoRun EXCEPT !.step = "cruise", !.profile = profile, !.skip = skip,
                            !.asked = asked]
    /\ UNCHANGED <<code, topology>>

\* Skipped: a report without modules.
Cruise ==
    /\ At("cruise")
    /\ gateRun' = [gateRun EXCEPT !.step = "analyse",
                          !.cruiser = IF "dep-cruiser" \in gateRun.skip THEN @
                                      ELSE [cycles |-> code["cycles"],
                                            coupling |-> code["coupling"]]]
    /\ UNCHANGED <<code, topology>>

\* ts-morph looks at the modules of the cruiser's report: at none if there are none.
Analyse ==
    /\ At("analyse")
    /\ gateRun' = [gateRun EXCEPT !.step = "topology",
                          !.ts = IF gateRun.skip \cap {"ts-morph", "dep-cruiser"} # {} THEN @
                                 ELSE code["ts"]]
    /\ UNCHANGED <<code, topology>>

FreshFiles == [functions |-> code["apss"], coupling |-> code["apssCoupling"]]

\* .topology/metrics after the producer: as it was where there is none or none is asked
\* for, and file by file anything if it failed.
AfterProduce(outcome) ==
    CASE outcome = "none"   -> {topology}
      [] outcome = "ran"    -> {FreshFiles}
      [] outcome = "failed" -> {[functions |-> f, coupling |-> c] :
                                  f \in {topology.functions, FreshFiles.functions, "unreadable"},
                                  c \in {topology.coupling, FreshFiles.coupling, "unreadable"}}

\* Functions that cannot be read are no readings, coupling that cannot be read is the
\* end of all of them.
FunctionReading(file) == IF file \in Quality THEN file ELSE "none"
CouplingReading(file) == IF file \in Quality THEN file ELSE "none"

ReadTopology(files) ==
    IF files.coupling = "unreadable" THEN NoTopology
    ELSE [apss |-> FunctionReading(files.functions),
          apssCoupling |-> CouplingReading(files.coupling)]

\* `apss run code-topology analyze`, then whatever .topology/metrics holds.
Produce(outcome) ==
    /\ At("topology")
    /\ "apss-topology" \notin gateRun.skip
    /\ topology' \in AfterProduce(outcome)
    /\ gateRun' = [gateRun EXCEPT !.step = "scan", !.produced = (outcome = "ran"),
                                  !.apss = ReadTopology(topology')]
    /\ UNCHANGED code

NoTopologyRead ==
    /\ At("topology")
    /\ "apss-topology" \in gateRun.skip
    /\ gateRun' = [gateRun EXCEPT !.step = "scan"]
    /\ UNCHANGED <<code, topology>>

\* A program the report is built from fails, aggregate.mjs because of what another one
\* left for it: `set -e` ends the run.
BuildFails ==
    /\ gateRun.step \in {"cruise", "analyse", "topology"}
    /\ gateRun' = [gateRun EXCEPT !.step = "done", !.exit = 2]
    /\ UNCHANGED <<code, topology>>

\* Each scanner: skipped or dead before it wrote anything, not available, or read.
Scan ==
    /\ At("scan")
    /\ \E broken \in [Scanners -> {"absent", "none", "ran"}] :
         gateRun' = [gateRun EXCEPT !.step = "coverage",
                            !.files = [s \in Scanners |->
                                         IF s \in gateRun.skip THEN "absent"
                                         ELSE IF broken[s] = "ran" THEN code[s]
                                         ELSE broken[s]]]
    /\ UNCHANGED <<code, topology>>

\* What one language's file, or its tool, says: cargo's totals may lack a number, which
\* counts as read; the files of the others without one, and what cannot be read, fail.
Payload == {"numbers", "no numbers", "unreadable"}

LaneResult(l, payload) ==
    CASE payload = "numbers"                     -> code[l]
      [] payload = "no numbers" /\ l = "rust"    -> "none"
      [] OTHER                                   -> "failed"

\* Mutant of Envelope: a lane that failed is left out and the others are reported.
EnvelopePartial(results) ==
    [l \in Lanes |-> IF l \in DOMAIN results /\ results[l] # "failed" THEN results[l] ELSE "good"]

\* The lanes a coverage file reports: all that were given, or none if one failed.
Envelope(results) ==
    [l \in Lanes |-> IF l \in DOMAIN results /\ (\A k \in DOMAIN results : results[k] # "failed")
                     THEN results[l] ELSE "none"]

\* Not asked for, skipped, or dead before it wrote a file.
NoCoverageFile ==
    /\ At("coverage")
    /\ gateRun' = [gateRun EXCEPT !.step = "suite"]
    /\ UNCHANGED <<code, topology>>

\* Payloads: of the lanes whose result, or whose tool, the environment names.
Coverage(payloads) ==
    /\ At("coverage")
    /\ gateRun.asked /\ "coverage" \notin gateRun.skip
    /\ LET results == [l \in DOMAIN payloads |-> LaneResult(l, payloads[l])]
       IN  gateRun' = [gateRun EXCEPT !.step = "suite",
                                      !.coverage = [file |-> TRUE, lanes |-> Envelope(results)]]
    /\ UNCHANGED <<code, topology>>

\* The row "all files" of a coverage table, wherever its columns stand: a column that is
\* not there, or is no number, is absent and never taken for 100.
Columns == [FloorMetrics -> {"enough", "less", "absent"}]

\* One iteration of the suite: the exit status and the coverage it prints.
Record == [exit: {"zero", "other"}, columns: Columns]

\* As many as the suite's own baseline asks for, but at least one.
Records == UNION {[1..n -> Record] : n \in 1..Iterations}

AllExitZero(records) == \A i \in DOMAIN records : records[i].exit = "zero"

\* The columns with a floor that are absent, and those below it.
CoverageViolations(columns) ==
    {m \in FloorMetrics : columns[m] = "absent"} \cup {m \in FloorMetrics : columns[m] = "less"}

LastCovered(records) == CoverageViolations(records[Len(records)].columns) = {}

\* Mutant of SuiteAvailable: the exit status is left to the adapter's own.
SuiteAvailableCovered(records) == LastCovered(records)

SuiteAvailable(records) == AllExitZero(records) /\ LastCovered(records)

NoSuiteFile ==
    /\ At("suite")
    /\ gateRun' = [gateRun EXCEPT !.step = "judge"]
    /\ UNCHANGED <<code, topology>>

\* Whatever the adapter exits with, it is the file that counts.
Suite(records) ==
    /\ At("suite")
    /\ "suite-duration" \notin gateRun.skip
    /\ LET available == SuiteAvailable(records)
       IN  gateRun' = [gateRun EXCEPT !.step = "judge",
                                      !.suite = [available |-> available,
                                                 p95 |-> IF available THEN code["duration"] ELSE "none",
                                                 count |-> Len(records),
                                                 ran |-> AllExitZero(records),
                                                 covered |-> LastCovered(records)]]
    /\ UNCHANGED <<code, topology>>

Judge ==
    /\ At("judge")
    /\ gateRun' = [gateRun EXCEPT !.step = "done", !.exit = GateExit(gateRun)]
    /\ UNCHANGED <<code, topology>>

SensorNext ==
    \/ NextRun
    \/ \E f \in Facets : EditCode(f)
    \/ \E profile \in DOMAIN RequiredIn \cup {"none"}, skip \in Skips, asked \in BOOLEAN :
         Begin(profile, skip, asked)
    \/ Cruise
    \/ Analyse
    \/ \E outcome \in {"none", "failed", "ran"} : Produce(outcome)
    \/ NoTopologyRead
    \/ BuildFails
    \/ Scan
    \/ NoCoverageFile
    \/ \E given \in SUBSET Lanes : \E payloads \in [given -> Payload] : Coverage(payloads)
    \/ NoSuiteFile
    \/ \E records \in Records : Suite(records)
    \/ Judge

SensorSpec == SensorInit /\ [][SensorNext]_sensorVars

-----------------------------------------------------------------------------
(* Properties *)

Passed == gateRun.step = "done" /\ gateRun.exit = 0

FacetsOf(a) == CASE a = "cruiser-coupling" -> {"cycles", "coupling"}
                 [] a = "complexity"       -> {"ts"}
                 [] a = "apss-topology"    -> {"apss"}
                 [] a = "coverage"         -> Lanes
                 [] a = "suite-duration"   -> {}
                 [] OTHER                  -> {a}

\* What a run cannot know: the tiers it was told to skip, what is read through them,
\* everything that is read from a topology it did not produce itself, and the cruiser's
\* coupling where a topology lists the files.
Blind == (IF "dep-cruiser" \in gateRun.skip THEN {"cycles", "coupling", "ts"} ELSE {})
         \cup (IF "ts-morph" \in gateRun.skip THEN {"ts"} ELSE {})
         \cup (IF gateRun.produced THEN {} ELSE {"apss"})
         \cup (IF PerFile /\ gateRun.apss # NoTopology THEN {"coupling"} ELSE {})

MeasuredIsGood ==
    \A a \in RequiredBy(gateRun.profile) : \A f \in FacetsOf(a) \ Blind : code[f] = "good"

SuiteRan ==
    "suite-duration" \in RequiredBy(gateRun.profile) =>
      gateRun.suite.ran /\ gateRun.suite.covered /\ gateRun.suite.count >= Iterations

(***************************************************************************)
(* A run that passes under a profile has measured, on the code as it is,   *)
(* everything that the adapters of the profile measure, and found it good: *)
(* a tool that is missing, dies, or cannot measure never passes for a good *)
(* reading, and to skip one tier does not hide another.  It is blind only  *)
(* to the report's own skipped tiers, to an old topology, and to coupling  *)
(* where any topology lists the files, which then replaces the cruiser's   *)
(* readings of them.  The suite, if                                        *)
(* the profile requires it, ran as often as the floor says, exited with 0  *)
(* each time and reported full coverage at the end: lowering               *)
(* iteration_count is no way to pass.                                      *)
(***************************************************************************)
GreenIsTrue == Passed => MeasuredIsGood /\ SuiteRan

(***************************************************************************)
(* Coverage that was asked for is a contract under every profile: no run   *)
(* passes with a lane short, failed or left out, unless the adapter died   *)
(* before it wrote a file (then only a profile that requires it fails).    *)
(***************************************************************************)
CoverageIsContract ==
    Passed /\ gateRun.coverage.file => \A l \in Lanes : code[l] = "good"

(***************************************************************************)
(* The report and the gate disagree about the same readings in two cases   *)
(* only: the duration of the suite, which the gate does not enforce, and   *)
(* readings that are missing, which the report leaves out.                 *)
(***************************************************************************)
ReportAgrees ==
    gateRun.step = "done" /\ gateRun.exit # 2 =>
      \/ FitnessExit(gateRun) = gateRun.exit
      \/ gateRun.exit = 0 /\ gateRun.suite.p95 = "bad"
      \/ gateRun.exit = 1 /\ \E m \in Metrics : MeasureOf(gateRun, m) = "none"

=============================================================================
