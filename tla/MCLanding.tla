------------------------------ MODULE MCLanding ------------------------------
(***************************************************************************)
(* One TLC run for three things that go on in the worktrees of a machine:  *)
(* that the engine ends against a remote that moves (LandEngine), what one *)
(* of its validations does with its gates (LandLanes), which LandEngine    *)
(* takes as a step per gate, and the stacks agents boot (Stacks).  A       *)
(* behaviour is one of one of them, and the others stay where they begin.  *)
(***************************************************************************)
EXTENDS MCLandEngine, LandLanes, Stacks

CONSTANTS t1, t2, b1, b2, db, telemetry

\* Two lefthook jobs, two commands that share a lane and one that has its own,
\* an early check and a check.
MCGateName == {"cov-ts", "cov-rust", "suite-a", "suite-b", "scan"}
MCBatch == {"cov-ts", "cov-rust"}
MCKey == ("suite-a" :> "suites") @@ ("suite-b" :> "suites") @@ ("scan" :> "scan")
MCRank == ("fork" :> 0) @@ ("suite-a" :> 1) @@ ("cov-ts" :> 2) @@ ("cov-rust" :> 3)
          @@ ("scan" :> 4) @@ ("suite-b" :> 5) @@ ("secrets" :> 6)

\* Of the four stacks, one in each worktree is on the ports of one in the other.
MCNumber == (<<t1, b1>> :> 7) @@ (<<t1, b2>> :> 3)
            @@ (<<t2, b1>> :> 1007) @@ (<<t2, b2>> :> 2003)
MCPortOf == (db :> 2) @@ (telemetry :> 3)

-----------------------------------------------------------------------------
VARIABLE part

all == <<part, vars, lanesVars, stackVars>>

LandingInit ==
    /\ part \in {"engine", "lanes", "stacks"} /\ Init /\ LanesInit /\ StacksInit
    /\ part # "lanes" => limit = 2 /\ ~flaky /\ red = {} /\ toolless = {} /\ skipped = {}
    /\ head = [t \in Trees |-> b1] /\ config = [t \in Trees |-> {db}]

Engine == part = "engine" /\ UNCHANGED <<part, lanesVars, stackVars>>
Lanes == part = "lanes" /\ UNCHANGED <<part, vars, stackVars>>
Stacking == part = "stacks" /\ UNCHANGED <<part, vars, lanesVars>>
EngineStep(l) == Engine /\ Step(l)
LanesStep == Lanes /\ LanesNext

\* The actions of a validation and of the stacks stand one by one, so that TLC counts each; those
\* of the engine are counted where it runs alone (LandEngine_inherit).
LandingNext ==
    \/ \E l \in Landing : EngineStep(l)
    \/ Engine /\ (Orphan \/ LatePush \/ OtherMachine \/ \E l \in Landing : Crash(l))
    \/ Lanes /\ RunCheck("early")
    \/ Lanes /\ ChecksDone("early", "tools")
    \/ Lanes /\ RequireTools
    \/ \E k \in Lane : Lanes /\ Take(k)
    \/ \E k \in Lane : Lanes /\ GateEnds(k)
    \/ Lanes /\ BatchEnds
    \/ Lanes /\ BatchNotRun
    \/ Lanes /\ LanesEnd
    \/ Lanes /\ RunCheck("checks")
    \/ Lanes /\ ChecksDone("checks", "tree")
    \/ Lanes /\ AssertUnchanged
    \/ Lanes /\ WriteTree
    \/ \E a \in Agents, tree \in Trees, bugs \in SUBSET Bugs : Stacking /\ StartBoot(a, tree, bugs)
    \/ \E a \in Agents, tree \in Trees : Stacking /\ StartStop(a, tree)
    \/ \E a \in Agents, tree \in Trees : Stacking /\ StartDestroy(a, tree)
    \/ \E a \in Agents : Stacking /\ LoadConfig(a)
    \/ \E a \in Agents : Stacking /\ WriteEnvFile(a)
    \/ \E a \in Agents : Stacking /\ WriteCompose(a)
    \/ \E a \in Agents : Stacking /\ ComposeUp(a)
    \/ \E a \in Agents : Stacking /\ ComposeUpFails(a)
    \/ \E a \in Agents : Stacking /\ ComposeStop(a)
    \/ \E a \in Agents : Stacking /\ ComposeDown(a)
    \/ \E tree \in Trees, branch \in Branches : Stacking /\ SwitchBranch(tree, branch)
    \/ \E tree \in Trees, services \in (SUBSET (Services \ Included)) \cup {Broken} :
          Stacking /\ EditConfig(tree, services)

LandingSpec ==
    /\ LandingInit /\ [][LandingNext]_all
    /\ \A l \in Landing : WF_all(EngineStep(l))
    /\ WF_all(LanesStep)

\* Every landing ends: a remote that moves and pushes that are cut off cost a
\* bounded number of attempts (LandEngine).
LandingEnds == part = "engine" => Termination
\* Every validation ends, whatever fails in its lanes (LandLanes).
LanesEndInTime == part = "lanes" => ValidationEnds
=============================================================================
