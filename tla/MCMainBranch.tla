----------------------------- MODULE MCMainBranch -----------------------------
(***************************************************************************)
(* One TLC run for what moves the remote's protected branch besides a      *)
(* landing: the guards of a push, and pull requests and releases.  They    *)
(* share none of the state modelled: a behaviour is one of the one or of   *)
(* the other, which stays where it begins.                                 *)
(***************************************************************************)
EXTENDS PushGuards, Release

CONSTANTS c1, main, feat, base, code, gone, amend, meta, src, log

\* Push guards: two paths, one exempt, and the commits that tell the rules apart.
MCTree == [k \in {base, code, gone, amend, meta} |->
             [p \in {src, log} |->
                IF p = src
                THEN IF k = code THEN 2 ELSE IF k = gone THEN Nothing ELSE 1
                ELSE IF k = meta THEN 2 ELSE 1]]
MCHistory == [k \in {base, code, gone, amend, meta} |->
                IF k = amend THEN {amend} ELSE {base, k}]

-----------------------------------------------------------------------------
VARIABLE tool

MainBranchInit == tool \in {"push", "release"} /\ PushInit /\ ReleaseInit

Guarded == tool = "push" /\ UNCHANGED <<tool, releaseVars>>
Publish == tool = "release" /\ UNCHANGED <<tool, pushVars>>

\* The actions of both, one by one, so that TLC counts each.
MainBranchNext ==
    \/ Guarded /\ OthersPush
    \/ \E c \in Clone : Guarded /\ StartPush(c)
    \/ \E c \in Clone : Guarded /\ Lefthook(c)
    \/ \E c \in Clone : Guarded /\ GuardMain(c)
    \/ \E c \in Clone : Guarded /\ GuardScope(c)
    \/ \E c \in Clone : Guarded /\ Refused(c)
    \/ \E c \in Clone : Guarded /\ Send(c)
    \/ \E c \in Clone : Guarded /\ Checkout(c)
    \/ \E c \in Clone : Guarded /\ RemoveFile(c)
    \/ \E c \in Clone : Guarded /\ FetchRefs(c)

    \/ \E p \in Prs, kind, title \in Kinds : Publish /\ Open(p, kind, title)
    \/ \E p \in Prs, kind \in Kinds : Publish /\ Push(p, kind)
    \/ \E p \in Prs, title \in Kinds : Publish /\ EditTitle(p, title)
    \/ \E p \in Prs : Publish /\ Check(p)
    \/ \E p \in Prs : Publish /\ SquashMerge(p)
    \/ \E p \in Prs : Publish /\ MergePr(p)
    \/ Publish /\ CutBaseline
    \/ \E j \in Jobs : Publish /\ CheckoutMain(j)
    \/ \E j \in Jobs, level \in Levels : Publish /\ StartRelease(j, level)
    \/ \E j \in Jobs : Publish /\ WriteChangelog(j)
    \/ \E j \in Jobs : Publish /\ UpdateManifest(j)
    \/ \E j \in Jobs : Publish /\ CommitRelease(j)
    \/ \E j \in Jobs : Publish /\ TagRelease(j)
    \/ \E j \in Jobs : Publish /\ PushMain(j)
    \/ \E j \in Jobs : Publish /\ PushTags(j)
    \/ \E j \in Jobs : Publish /\ Fail(j)
    \/ \E j \in Jobs : Publish /\ RestoreTree(j)

MainBranchSpec ==
    MainBranchInit /\ [][MainBranchNext]_<<tool, pushVars, releaseVars>>
=============================================================================
