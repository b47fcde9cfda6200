------------------------------- MODULE MCUpkeep -------------------------------
(***************************************************************************)
(* One TLC run for tools that share no state that is modelled: the update  *)
(* of the harness files, the update of the skills and what agents read of  *)
(* them, and the two coverage checks.  A behaviour is one of one of them,  *)
(* and the others stay where they begin.                                   *)
(***************************************************************************)
EXTENDS HarnessUpdate, AgentFiles, CoverageRuns, TLC

CONSTANTS text, image, h1, h2, own, ours, outer, inner, generated

\* The harness: a text of two hunks and a binary file.  The hunks are alike, so
\* that the owner's one edit may be of the first.
MCChanging == [p \in Path |-> IF p = text THEN {h1, h2, Mode} ELSE {h1}]
MCEditing == [p \in Path |-> IF p = text THEN {h1, Mode} ELSE {h1}]
MCFirst == [p \in Path |-> [f \in Field |-> 0]]

\* Skills: own is in upstream too and may be vendored or the project's.
MCContents == {[text |-> "one", links |-> {own, ours, Outside}],
               [text |-> "two", links |-> {Escaping}]}
MCLists == {<<>>, <<own, ours>>, <<ours>>}

\* Coverage: a file of the root's target, one of a package's, and one the package's
\* configuration leaves out.
MCWithin == ("root" :> Files) @@ ("pkg" :> {inner, generated})
MCGlobs == ("root" :> {outer}) @@ ("pkg" :> {inner, generated})
MCConfigured == ("root" :> {}) @@ ("pkg" :> {generated})
MCTargets == <<"root", "pkg">>
MCPackages == <<FALSE, TRUE, TRUE>>

-----------------------------------------------------------------------------
VARIABLE tool

UpkeepInit ==
    /\ tool \in {"harness", "agents", "vitest", "cargo"}
    /\ Init /\ AgentsInit /\ CoverageInit
    /\ \A s \in Skills : library[1][s] = [text |-> IF s = own THEN "one" ELSE "two",
                                          links |-> IF s = own THEN {own, ours, Outside}
                                                               ELSE {Escaping}]
    /\ manifest.skills = <<own, ours>>
    /\ tool # "agents" => windows = FALSE
    /\ tool # "vitest" => tracked = {} /\ scratch = {} /\ covered = {} /\ red = {}
    /\ tool # "cargo" => good = {}

Updating == tool = "harness" /\ UNCHANGED <<tool, agentVars, covVars>>
Reading == tool = "agents" /\ UNCHANGED <<tool, vars, covVars>>
Measuring == tool = "vitest" /\ UNCHANGED <<tool, vars, agentVars, laneVars>>
Building == tool = "cargo" /\ UNCHANGED <<tool, vars, agentVars, tsVars>>

\* The actions of each, one by one, so that TLC counts each.
UpkeepNext ==
    \/ Updating /\ Run
    \/ Updating /\ Owner
    \/ Updating /\ Crash
    \/ Updating /\ Release
    \/ Updating /\ BackgroundFetch

    \/ Reading /\ \E sha \in DOMAIN library : StartUpdate(sha)
    \/ Reading /\ RemoveSkill
    \/ Reading /\ CopySkill
    \/ Reading /\ WriteSource
    \/ Reading /\ \E half \in BOOLEAN : UpdateDies(half)
    \/ Reading /\ CheckSkills
    \/ Reading /\ WriteSkills
    \/ Reading /\ LinkMirrors
    \/ Reading /\ \E s \in Skills, skill \in Contents \cup {NoSkill} : CommitUpstream(s, skill)
    \/ Reading /\ \E list \in Lists : EditManifest(list)
    \/ Reading /\ \E s \in Skills, t \in Texts \cup {NoSkill} : EditSkill(s, t)
    \/ Reading /\ \E list \in {document.list, {}, {NoSkill}} : EditDocument(list)
    \/ Reading /\ \E m \in Mirrors, value \in {NoMirror, Directory, LinkTo("other"), Copy(document)} :
                     EditMirror(m, value)

    \/ Measuring /\ StartCoverage
    \/ Measuring /\ \E o \in VitestRuns : FirstTry(o)
    \/ Measuring /\ \E o \in VitestRuns : Retry(o)
    \/ Measuring /\ \E fails \in SUBSET Each(Targets), runs \in SUBSET Files :
                       EditTests(fails, runs)
    \/ Measuring /\ \E f \in Files : NewFile(f)
    \/ Measuring /\ \E f \in Files : AddFile(f)

    \/ Building /\ \E w \in Worktrees : LaneStart(w)
    \/ Building /\ \E w \in Worktrees : Build(w)
    \/ Building /\ \E w \in Worktrees : RunTests(w)
    \/ Building /\ \E w \in Worktrees : Report(w)

UpkeepSpec == UpkeepInit /\ [][UpkeepNext]_<<tool, vars, agentVars, covVars>>
=============================================================================
