------------------------------- MODULE Release -------------------------------
(***************************************************************************)
(* Releases: harness/versioning/src/lib.rs, run by                         *)
(* .github/workflows/versioning.yml behind the protection of main that     *)
(* scripts/protect-main.ts sets up.                                        *)
(*                                                                         *)
(* Pull requests are checked and merged, the owner may cut the baseline    *)
(* tag, and release jobs work in clones of their own: checkout,            *)
(* `release --execute`, push of main, push of the tags.                    *)
(* A commit is what the plan tells apart: its ancestors, its kind, and the *)
(* two files a release writes.  Handwritten text under Unreleased, dates   *)
(* and the order of lines are left out.                                    *)
(***************************************************************************)
EXTENDS Integers, Sequences, FiniteSets

CONSTANTS Prs,          \* pull requests that can be open at the same time
          Jobs,         \* clones in which releases are made
          Kinds,        \* what subjects of commits and titles may be
          Levels,       \* the level a release may be asked for
          MaxCommits,   \* bound on commits
          TitleEdits,   \* a title may be edited after the check
          Overlap       \* a release may start while another one is under way

ASSUME ReleaseAssumption ==
    /\ Kinds \subseteq {"patch", "minor", "major", "invalid"}
    /\ Levels \subseteq {"auto", "patch", "minor", "major"}
    /\ MaxCommits \in Nat
    /\ {TitleEdits, Overlap} \subseteq BOOLEAN

VARIABLES made,         \* every commit made, in any clone; a commit is its index
          mainRef,      \* branch main of the remote
          tags,         \* v* tags of the remote
          pr,           \* the pull requests
          job           \* the clones and how far the release in them has got

releaseVars == <<made, mainRef, tags, pr, job>>

Version == Nat \X Nat \X Nat
Section == [version: Version, entries: SUBSET Nat]
Files == [manifest: Version, changelog: Seq(Section)]
Tag == [version: Version, commit: Nat, by: {"owner", "release"}]

-----------------------------------------------------------------------------
(* Versions *)

Zero == <<0, 0, 0>>

Less(v, w) == \/ v[1] < w[1]
              \/ v[1] = w[1] /\ v[2] < w[2]
              \/ v[1] = w[1] /\ v[2] = w[2] /\ v[3] < w[3]

Bump(v, level) == CASE level = "major" -> <<v[1] + 1, 0, 0>>
                    [] level = "minor" -> <<v[1], v[2] + 1, 0>>
                    [] OTHER           -> <<v[1], v[2], v[3] + 1>>

-----------------------------------------------------------------------------
(* The plan of a release of commit `to` in a clone that knows the tags `ts` *)

Reach(c) == made[c].reach

Merged(ts, to) == {t \in ts : t.commit \in Reach(to)}

\* Mutant of LatestTag: the tags sorted by ascending version.
LowestTag(ts, to) ==
    {t \in Merged(ts, to) : \A u \in Merged(ts, to) : ~ Less(u.version, t.version)}

\* The highest version merged into `to`, which is a set of at most one tag.
LatestTag(ts, to) ==
    {t \in Merged(ts, to) : \A u \in Merged(ts, to) : ~ Less(t.version, u.version)}

\* Mutant of BaseVersion: a release starts from zero.
BaseVersionZero(from) == Zero

BaseVersion(from) == IF from = {} THEN Zero ELSE (CHOOSE t \in from : TRUE).version

Collected(from, to) == Reach(to) \ UNION {Reach(t.commit) : t \in from}

Conventional(kind) == kind # "invalid"

\* The commits a range is judged by and that get an entry: not the merges.
Counted(cs) == {c \in cs : made[c].kind # "merge"}

Releasable(cs) == \A c \in Counted(cs) : Conventional(made[c].kind)

DerivedLevel(cs) == LET found == {made[c].kind : c \in Counted(cs)}
                    IN  IF "major" \in found THEN "major"
                        ELSE IF "minor" \in found THEN "minor" ELSE "patch"

ResolveLevel(requested, derived) == IF requested = "auto" THEN derived ELSE requested

Plan(ts, to, requested) ==
    LET from == LatestTag(ts, to)
        range == Collected(from, to)
    IN  [version |-> Bump(BaseVersion(from), ResolveLevel(requested, DerivedLevel(range))),
         entries |-> Counted(range)]

Rendered(changelog, plan) == <<plan>> \o changelog

-----------------------------------------------------------------------------
(* Clones *)

NoTree == [manifest |-> Zero, changelog |-> <<>>]
NoPlan == [version |-> Zero, entries |-> {}]
NoClone == [step |-> "off", head |-> 1, tags |-> {}, tree |-> NoTree, plan |-> NoPlan]

Steps == {"off", "ready", "changelog", "manifest", "commit", "tag", "pushMain", "pushTags"}
AtWork == Steps \ {"off", "ready"}

Committed(c) == [manifest |-> made[c].manifest, changelog |-> made[c].changelog]

CleanWorktree(j) == job[j].tree = Committed(job[j].head)

TagMissing(ts, version) == \A t \in ts : t.version # version

NewCommit(parents, kind, files, by) ==
    [reach |-> {Len(made) + 1} \cup UNION {Reach(p) : p \in parents},
     kind |-> kind, manifest |-> files.manifest, changelog |-> files.changelog, by |-> by]

NoPr == [phase |-> "none", kind |-> "patch", title |-> "patch", edited |-> FALSE]

ReleaseInit ==
    /\ made = <<[reach |-> {1}, kind |-> "patch", manifest |-> Zero, changelog |-> <<>>,
               by |-> "owner"]>>
    /\ mainRef = 1
    /\ tags = {}
    /\ pr = [p \in Prs |-> NoPr]
    /\ job = [j \in Jobs |-> NoClone]

-----------------------------------------------------------------------------
(* Pull requests.  A request holds one commit until it is merged.  It is "checked" once *)
(* the check has passed on a branch that holds the tip of main.                         *)

Open(p, kind, title) ==
    /\ pr[p].phase = "none"
    /\ pr' = [pr EXCEPT ![p] = [phase |-> "open", kind |-> kind, title |-> title,
                                edited |-> FALSE]]
    /\ UNCHANGED <<made, mainRef, tags, job>>

\* The author pushes another commit to the branch, and the check runs again.
Push(p, kind) ==
    /\ pr[p].phase # "none"
    /\ pr' = [pr EXCEPT ![p].phase = "open", ![p].kind = kind, ![p].edited = FALSE]
    /\ UNCHANGED <<made, mainRef, tags, job>>

\* No event of the workflow: what was checked stays checked.
EditTitle(p, title) ==
    /\ TitleEdits
    /\ pr[p].phase = "checked"
    /\ title # pr[p].title
    /\ pr' = [pr EXCEPT ![p].title = title, ![p].edited = TRUE]
    /\ UNCHANGED <<made, mainRef, tags, job>>

\* Mutant of CheckPrTitle: the commits are checked, the title is not.
CheckPrTitleNever(title) == TRUE

CheckPrTitle(title) == Conventional(title)

CheckRange(kinds) == kinds # {} /\ \A kind \in kinds : Conventional(kind)

Check(p) ==
    /\ pr[p].phase = "open"
    /\ CheckPrTitle(pr[p].title)
    /\ CheckRange({pr[p].kind})
    /\ pr' = [pr EXCEPT ![p].phase = "checked"]
    /\ UNCHANGED <<made, mainRef, tags, job>>

\* Protection: a merge needs a passed check on a branch that is up to date, so when
\* main has moved every open request has to be brought up to date and checked again.
Outdated(prs) ==
    [p \in Prs |-> IF prs[p].phase = "checked"
                   THEN [prs[p] EXCEPT !.phase = "open", !.edited = FALSE] ELSE prs[p]]

By(p) == IF pr[p].edited THEN "edited" ELSE "pr"

\* The whole request as one commit under its title.
SquashMerge(p) ==
    /\ pr[p].phase = "checked"
    /\ Len(made) < MaxCommits
    /\ made' = Append(made, NewCommit({mainRef}, pr[p].title, made[mainRef], By(p)))
    /\ mainRef' = Len(made) + 1
    /\ pr' = Outdated([pr EXCEPT ![p] = NoPr])
    /\ UNCHANGED <<tags, job>>

\* The branch as it is and a merge commit on top.
MergePr(p) ==
    /\ pr[p].phase = "checked"
    /\ Len(made) + 1 < MaxCommits
    /\ LET branch == NewCommit({mainRef}, pr[p].kind, made[mainRef], By(p))
           top == [NewCommit({mainRef}, "merge", made[mainRef], By(p))
                     EXCEPT !.reach = @ \cup {Len(made) + 2}]
       IN  made' = made \o <<branch, top>>
    /\ mainRef' = Len(made) + 2
    /\ pr' = Outdated([pr EXCEPT ![p] = NoPr])
    /\ UNCHANGED <<tags, job>>

\* The tag a fork cuts by hand, once, so that its older history is not judged.
CutBaseline ==
    /\ tags = {}
    /\ tags' = {[version |-> <<0, 1, 0>>, commit |-> mainRef, by |-> "owner"]}
    /\ UNCHANGED <<made, mainRef, pr, job>>

-----------------------------------------------------------------------------
(* Releases *)

\* A fresh clone of main with every tag.
CheckoutMain(j) ==
    /\ job[j].step \in {"off", "ready"}
    /\ Overlap \/ \A i \in Jobs : job[i].step \notin AtWork
    /\ job' = [job EXCEPT ![j] = [step |-> "ready", head |-> mainRef, tags |-> tags,
                                  tree |-> Committed(mainRef), plan |-> NoPlan]]
    /\ UNCHANGED <<made, mainRef, tags, pr>>

\* `release --execute` up to its first write.  Where a condition fails nothing changes.
StartRelease(j, level) ==
    /\ job[j].step = "ready"
    /\ Overlap \/ \A i \in Jobs : job[i].step \notin AtWork
    /\ LET plan == Plan(job[j].tags, job[j].head, level)
       IN  /\ Releasable(Collected(LatestTag(job[j].tags, job[j].head), job[j].head))
           /\ plan.entries # {}
           /\ CleanWorktree(j)
           /\ TagMissing(job[j].tags, plan.version)
           /\ job' = [job EXCEPT ![j].step = "changelog", ![j].plan = plan]
    /\ UNCHANGED <<made, mainRef, tags, pr>>

WriteChangelog(j) ==
    /\ job[j].step = "changelog"
    /\ job' = [job EXCEPT ![j].step = "manifest",
                          ![j].tree.changelog = Rendered(@, job[j].plan)]
    /\ UNCHANGED <<made, mainRef, tags, pr>>

UpdateManifest(j) ==
    /\ job[j].step = "manifest"
    /\ job' = [job EXCEPT ![j].step = "commit", ![j].tree.manifest = job[j].plan.version]
    /\ UNCHANGED <<made, mainRef, tags, pr>>

CommitRelease(j) ==
    /\ job[j].step = "commit"
    /\ Len(made) < MaxCommits
    /\ made' = Append(made, NewCommit({job[j].head}, "patch", job[j].tree, "release"))
    /\ job' = [job EXCEPT ![j].step = "tag", ![j].head = Len(made) + 1]
    /\ UNCHANGED <<mainRef, tags, pr>>

TagRelease(j) ==
    /\ job[j].step = "tag"
    /\ job' = [job EXCEPT ![j].step = "pushMain",
                          ![j].tags = @ \cup {[version |-> job[j].plan.version,
                                               commit |-> job[j].head, by |-> "release"]}]
    /\ UNCHANGED <<made, mainRef, tags, pr>>

\* Mutant of PushMain: the tags are pushed although main was not.
PushMainUnchecked(j) ==
    /\ job[j].step = "pushMain"
    /\ mainRef' = IF mainRef \in Reach(job[j].head) THEN job[j].head ELSE mainRef
    /\ job' = [job EXCEPT ![j].step = "pushTags"]
    /\ UNCHANGED <<made, tags, pr>>

\* Rejected unless main only moves forward; then the step fails and the tags stay here.
PushMain(j) ==
    /\ job[j].step = "pushMain"
    /\ IF mainRef \in Reach(job[j].head)
       THEN /\ mainRef' = job[j].head
            /\ job' = [job EXCEPT ![j].step = "pushTags"]
            /\ pr' = Outdated(pr)
       ELSE /\ job' = [job EXCEPT ![j] = NoClone]
            /\ UNCHANGED <<mainRef, pr>>
    /\ UNCHANGED <<made, tags>>

\* The tags the remote has no tag of that name for; another one is rejected.
PushTags(j) ==
    /\ job[j].step = "pushTags"
    /\ tags' = tags \cup {t \in job[j].tags : TagMissing(tags, t.version)}
    /\ job' = [job EXCEPT ![j] = NoClone]
    /\ UNCHANGED <<made, mainRef, pr>>

\* A command of the release fails.  A clone in which nothing was pushed can be used
\* again as it is; a job that failed to push is started anew.
Fail(j) ==
    /\ job[j].step \in AtWork
    /\ job' = IF job[j].step \in {"pushMain", "pushTags"}
              THEN [job EXCEPT ![j] = NoClone]
              ELSE [job EXCEPT ![j].step = "ready", ![j].plan = NoPlan]
    /\ UNCHANGED <<made, mainRef, tags, pr>>

\* `git restore`: what a failed release has written is given up.
RestoreTree(j) ==
    /\ job[j].step = "ready"
    /\ ~ CleanWorktree(j)
    /\ job' = [job EXCEPT ![j].tree = Committed(job[j].head)]
    /\ UNCHANGED <<made, mainRef, tags, pr>>

ReleaseJob(j) ==
    \/ CheckoutMain(j)
    \/ \E level \in Levels : StartRelease(j, level)
    \/ WriteChangelog(j)
    \/ UpdateManifest(j)
    \/ CommitRelease(j)
    \/ TagRelease(j)
    \/ PushMain(j)
    \/ PushTags(j)
    \/ Fail(j)
    \/ RestoreTree(j)

PullRequest(p) ==
    \/ \E kind, title \in Kinds : Open(p, kind, title)
    \/ \E kind \in Kinds : Push(p, kind)
    \/ \E title \in Kinds : EditTitle(p, title)
    \/ Check(p)
    \/ SquashMerge(p)
    \/ MergePr(p)

ReleaseNext ==
    \/ \E p \in Prs : PullRequest(p)
    \/ CutBaseline
    \/ \E j \in Jobs : ReleaseJob(j)

ReleaseSpec == ReleaseInit /\ [][ReleaseNext]_releaseVars

-----------------------------------------------------------------------------
(* Types *)

Ids == 1..Len(made)

CommitType == [reach: SUBSET Ids, kind: Kinds \cup {"patch", "merge"}, manifest: Version,
               changelog: Seq(Section), by: {"owner", "pr", "edited", "release"}]

PrType == [phase: {"none", "open", "checked"}, kind: Kinds \cup {"patch"},
           title: Kinds \cup {"patch"}, edited: BOOLEAN]

CloneType == [step: Steps, head: Ids, tags: SUBSET Tag, tree: Files, plan: Section]

(***************************************************************************)
(* Commits, branches, tags, requests and clones have their types.          *)
(***************************************************************************)
ReleaseTypeOK ==
    /\ made \in Seq(CommitType)
    /\ mainRef \in Ids
    /\ tags \subseteq [version: Version, commit: Ids, by: {"owner", "release"}]
    /\ pr \in [Prs -> PrType]
    /\ job \in [Jobs -> CloneType]
    /\ \A j \in Jobs : \A t \in job[j].tags : t.commit \in Ids

-----------------------------------------------------------------------------
(* Properties *)

Releases == {t \in tags : t.by = "release"}

\* What a release has to list: no merges, no release commits, nothing before the baseline.
Listable == {c \in Ids : made[c].kind # "merge" /\ made[c].by # "release"}
Baselined == UNION {Reach(t.commit) : t \in tags \ Releases}

Entries(t) == Head(made[t.commit].changelog).entries

(***************************************************************************)
(* Every commit that a release has reached since the baseline is an entry  *)
(* of exactly one released section, whatever was merged while releases     *)
(* were made and wherever they failed: build_release_plan's range.  (An    *)
(* untagged section of a release that died between its two pushes may      *)
(* list it as well.)                                                       *)
(***************************************************************************)
ReleasedOnce ==
    \A t \in Releases : \A c \in (Reach(t.commit) \cap Listable) \ Baselined :
        \E u \in Releases : /\ c \in Entries(u)
                            /\ \A w \in Releases : c \in Entries(w) => w = u

(***************************************************************************)
(* Along the history of main the versions of releases go up, whatever      *)
(* level a release was asked for: base_version_for and Version::bump.      *)
(***************************************************************************)
VersionsIncrease ==
    \A t, u \in Releases :
        t # u /\ t.commit \in Reach(u.commit) => Less(t.version, u.version)

(***************************************************************************)
(* A released tag is on main, and its commit says so: the manifest has the *)
(* tag's version, it heads the changelog, and the changelog has one        *)
(* section per release commit - also after failures and reruns.            *)
(***************************************************************************)
TagsTellTheTruth ==
    \A t \in Releases :
        LET c == made[t.commit]
        IN  /\ t.commit \in Reach(mainRef)
            /\ c.manifest = t.version
            /\ c.changelog # <<>> /\ Head(c.changelog).version = t.version
            /\ Len(c.changelog) = Cardinality({d \in c.reach : made[d].by = "release"})

(***************************************************************************)
(* A commit that blocks releases comes to main only past the checks: under *)
(* a title that was edited after its check (the workflow does not run      *)
(* again then), never by merging a request as it was checked, whichever    *)
(* way it is merged and however often it was pushed to.                    *)
(***************************************************************************)
ChecksKeepMainReleasable ==
    \A c \in Reach(mainRef) : made[c].kind = "invalid" => made[c].by = "edited"

=============================================================================
