------------------------------- MODULE MCChecks -------------------------------
(***************************************************************************)
(* One TLC run for three tools that check something: the fitness gate over *)
(* many changes and merges, the sensors of one of its runs, and the        *)
(* migration of the issues with its comparison.  They share none of the    *)
(* state modelled: a behaviour is one of one of them, and the others stay  *)
(* where they begin.                                                       *)
(***************************************************************************)
EXTENDS FitnessGate, SensorRun, Beads, TLC

CONSTANTS fan, cov

\* Gate: a metric with a designed threshold and one of coverage.
MCValueOf == [m \in Metric |-> IF m = fan THEN {1, 2, 3} ELSE {1, 2}]
MCDesigned == [m \in Metric |-> IF m = fan THEN 2 ELSE None]
MCRequired == [c \in Mode |-> (IF c = "strict" THEN {fan, cov} ELSE {fan}) \ Folder]
MCHard == [c \in Mode |-> (IF c = "strict" THEN {cov} ELSE {}) \ Folder]

MCRule(m, op, severity, limit) ==
    [metric |-> m, prefix |-> "max_", op |-> op, severity |-> severity, limit |-> limit]
MCPolicy == [c \in Mode |-> IF c = "strict" THEN {MCRule(fan, "", "", 2),
                                                  MCRule(cov, "min", "warn", 2)} ELSE {}]

\* Sensors: the profiles of .harness/governance.toml, and tiers that tell them apart.
MCAdapters == ("strict" :> Adapters)
              @@ ("dev" :> {"cruiser-coupling", "complexity", "apss-topology", "deadcode"})
MCSkips == {{}, {"dep-cruiser"}, {"ts-morph", "apss-topology"},
            {"deadcode", "coverage", "suite-duration"}}

\* Issues: one from another repository, a deleted one, one of a custom type and status,
\* one too long for bd.
Shape(status, type, size, repo) ==
    [status |-> status, type |-> type, size |-> size, repo |-> repo]
MCShapes == {Shape("open", "task", "fits", "r1"), Shape("tombstone", "task", "fits", "none"),
             Shape("review", "epic", "fits", "none"), Shape("open", "task", "over", "r2")}

-----------------------------------------------------------------------------
VARIABLE tool

ChecksInit ==
    /\ tool \in {"gate", "sensors", "beads"}
    /\ Init /\ SensorInit /\ BeadsInit
    /\ tool # "gate" => reading = [m \in Metric |-> Null]

Gating == tool = "gate" /\ UNCHANGED <<tool, sensorVars, beadsVars>>
Sensing == tool = "sensors" /\ UNCHANGED <<tool, vars, beadsVars>>
Migrating == tool = "beads" /\ UNCHANGED <<tool, vars, sensorVars>>

\* The actions of the three, one by one, so that TLC counts each.
ChecksNext ==
    \/ Gating /\ Work
    \/ Gating /\ EditEntry
    \/ Gating /\ EditApprovals
    \/ Gating /\ RemoveFile
    \/ \E c \in Mode : Gating /\ FirstRun(c)
    \/ \E c \in Mode : Gating /\ Gate(c)
    \/ \E c \in Mode : Gating /\ UpdateBaseline(c)
    \/ \E c \in Mode : Gating /\ Merge(c)

    \/ Sensing /\ NextRun
    \/ \E f \in Facets : Sensing /\ EditCode(f)
    \/ \E profile \in DOMAIN RequiredIn \cup {"none"}, skip \in Skips, asked \in BOOLEAN :
          Sensing /\ Begin(profile, skip, asked)
    \/ Sensing /\ Cruise
    \/ Sensing /\ Analyse
    \/ \E outcome \in {"none", "failed", "ran"} : Sensing /\ Produce(outcome)
    \/ Sensing /\ NoTopologyRead
    \/ Sensing /\ BuildFails
    \/ Sensing /\ Scan
    \/ Sensing /\ NoCoverageFile
    \/ \E given \in SUBSET Lanes : \E payloads \in [given -> Payload] :
          Sensing /\ Coverage(payloads)
    \/ Sensing /\ NoSuiteFile
    \/ \E records \in Records : Sensing /\ Suite(records)
    \/ Sensing /\ Judge

    \/ \E i \in Issues, shape \in Shapes : Migrating /\ Create(i, shape)
    \/ \E i, j \in Issues : Migrating /\ Link(i, j)
    \/ \E i, j \in Issues : Migrating /\ UnlinkInBd(i, j)
    \/ \E i \in Issues, text \in Texts : Migrating /\ Comment(i, text)
    \/ \E i \in Issues, text \in Texts : Migrating /\ CommentInBd(i, text)
    \/ \E i \in Issues, n \in 1..MaxComments : Migrating /\ DeleteInBd(i, n)
    \/ Migrating /\ Preflight
    \/ \E preserve, drop \in BOOLEAN : Migrating /\ Import(preserve, drop)
    \/ Migrating /\ Verify
    \/ \E reference \in {NoStore, origin}, ours \in SUBSET DOMAIN bd :
          Migrating /\ Rollback(reference, ours)

ChecksSpec == ChecksInit /\ [][ChecksNext]_<<tool, vars, sensorVars, beadsVars>>
=============================================================================
