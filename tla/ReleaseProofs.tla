---------------------------- MODULE ReleaseProofs ----------------------------
(***************************************************************************)
(* Theorems about pull requests and releases, for every number of requests *)
(* and clones, with or without overlapping releases, and with no bound on  *)
(* the commits but MaxCommits.                                             *)
(***************************************************************************)
EXTENDS Release, SequenceTheorems, FiniteSetTheorems, TLAPS

-----------------------------------------------------------------------------
(* The plan of a release. *)

LEMMA BumpIsVersion ==
  ASSUME NEW v \in Version, NEW level
  PROVE  Bump(v, level) \in Version
<1>1. v[1] + 1 \in Nat /\ v[2] + 1 \in Nat /\ v[3] + 1 \in Nat /\ v[1] \in Nat /\ v[2] \in Nat
  BY DEF Version
<1> QED
  BY <1>1 DEF Bump, Version

LEMMA BaseIsVersion ==
  ASSUME NEW from, from \subseteq Tag
  PROVE  BaseVersion(from) \in Version
<1>1. CASE from = {}
  BY <1>1 DEF BaseVersion, Zero, Version
<1>2. CASE from # {}
  <2>1. (CHOOSE t \in from : TRUE) \in Tag
    BY <1>2
  <2>2. (CHOOSE t \in from : TRUE).version \in Version
    BY <2>1 DEF Tag
  <2> QED
    BY <1>2, <2>2 DEF BaseVersion
<1> QED
  BY <1>1, <1>2

\* A plan has a version and lists commits that `to` reaches.
LEMMA PlanIsSection ==
  ASSUME ReleaseTypeOK, NEW ts, ts \subseteq Tag, NEW to \in Ids, NEW level
  PROVE  Plan(ts, to, level) \in Section
<1> DEFINE from == LatestTag(ts, to)
           range == Collected(from, to)
           plan == [version |-> Bump(BaseVersion(from), ResolveLevel(level, DerivedLevel(range))),
                    entries |-> Counted(range)]
<1>1. from \subseteq Tag
  BY DEF LatestTag, Merged
<1>2. Bump(BaseVersion(from), ResolveLevel(level, DerivedLevel(range))) \in Version
  BY <1>1, BaseIsVersion, BumpIsVersion
<1>3. made[to] \in CommitType
  BY DEF ReleaseTypeOK, Ids
<1>4. Reach(to) \subseteq Ids
  BY <1>3 DEF Reach, CommitType
<1>5. Ids \subseteq Nat
  BY DEF Ids
<1>6. Counted(range) \subseteq Nat
  BY <1>4, <1>5 DEF Counted, Collected
<1>7. plan \in Section
  BY <1>2, <1>6 DEF Section
<1> QED
  BY <1>7 DEF Plan

-----------------------------------------------------------------------------
(* Commits are only ever added. *)

LEMMA CommittedFiles ==
  ASSUME ReleaseTypeOK, NEW c \in Ids
  PROVE  /\ Committed(c) \in Files
         /\ Reach(c) \subseteq Ids
         /\ made[c].manifest = Committed(c).manifest
         /\ made[c].changelog = Committed(c).changelog
<1>1. made[c] \in CommitType
  BY DEF ReleaseTypeOK, Ids
<1> QED
  BY <1>1 DEF Committed, Files, CommitType, Reach

\* What commits look like when `n` of them exist.
CommitsUpTo(n) == [reach: SUBSET (1..n), kind: Kinds \cup {"patch", "merge"}, manifest: Version,
                   changelog: Seq(Section), by: {"owner", "pr", "edited", "release"}]

\* A commit on top of others, when one commit more exists than now.
LEMMA NewCommitType ==
  ASSUME ReleaseTypeOK, NEW parents, parents \subseteq Ids, NEW kind \in Kinds \cup {"patch", "merge"},
         NEW files \in Files, NEW by \in {"owner", "pr", "edited", "release"},
         NEW upto \in Nat, upto > Len(made)
  PROVE  NewCommit(parents, kind, files, by) \in CommitsUpTo(upto)
<1> DEFINE reach == {Len(made) + 1} \cup UNION {Reach(p) : p \in parents}
<1>1. Len(made) \in Nat
  BY DEF ReleaseTypeOK
<1>2. \A p \in parents : Reach(p) \subseteq Ids
  BY CommittedFiles
<1>3. Ids \subseteq 1..upto /\ Len(made) + 1 \in 1..upto
  BY <1>1 DEF Ids
<1>4. reach \subseteq 1..upto
  BY <1>2, <1>3
<1>5. files.manifest \in Version /\ files.changelog \in Seq(Section)
  BY DEF Files
<1> HIDE DEF reach
<1>6. [reach |-> reach, kind |-> kind, manifest |-> files.manifest,
       changelog |-> files.changelog, by |-> by] \in CommitsUpTo(upto)
  BY <1>4, <1>5 DEF CommitsUpTo
<1> QED
  BY <1>6 DEF NewCommit, reach

\* The commits that exist keep their type when there are more.
LEMMA OlderCommits ==
  ASSUME ReleaseTypeOK, NEW upto \in Nat, upto >= Len(made), NEW c \in Ids
  PROVE  made[c] \in [reach: SUBSET (1..upto), kind: Kinds \cup {"patch", "merge"},
                      manifest: Version, changelog: Seq(Section),
                      by: {"owner", "pr", "edited", "release"}]
<1>1. made[c] \in CommitType
  BY DEF ReleaseTypeOK, Ids
<1>2. Ids \subseteq 1..upto
  BY DEF ReleaseTypeOK, Ids
<1> QED
  BY <1>1, <1>2 DEF CommitType

\* One commit more.
LEMMA OneMore ==
  ASSUME ReleaseTypeOK,
         NEW parents, parents \subseteq Ids, NEW kind \in Kinds \cup {"patch", "merge"},
         NEW files \in Files, NEW by \in {"owner", "pr", "edited", "release"},
         made' = Append(made, NewCommit(parents, kind, files, by))
  PROVE  /\ made' \in Seq(CommitType)'
         /\ Ids \subseteq Ids'
         /\ Len(made) + 1 \in Ids'
         /\ \A c \in Ids' : c \in Ids \/ c = Len(made) + 1
         /\ \A c \in Ids : made'[c] = made[c]
         /\ made'[Len(made) + 1] = NewCommit(parents, kind, files, by)
<1> DEFINE T == [reach: SUBSET (1..(Len(made) + 1)), kind: Kinds \cup {"patch", "merge"},
                 manifest: Version, changelog: Seq(Section),
                 by: {"owner", "pr", "edited", "release"}]
           new == NewCommit(parents, kind, files, by)
<1>1. Len(made) \in Nat /\ made \in Seq(CommitType)
  BY DEF ReleaseTypeOK
<1>2. new \in T
  <2> DEFINE n == Len(made) + 1
  <2>1. n \in Nat /\ n > Len(made)
    BY <1>1
  <2> HIDE DEF n
  <2>2. NewCommit(parents, kind, files, by) \in CommitsUpTo(n)
    BY <2>1, NewCommitType
  <2> QED
    BY <2>2 DEF n, CommitsUpTo
<1>3. \A c \in Ids : made[c] \in T
  BY <1>1, OlderCommits
<1> HIDE DEF new, T
<1>4. made \in Seq(T)
  BY <1>1, <1>3, SeqDef DEF Ids
<1>5. made' \in Seq(T)
  BY <1>2, <1>4 DEF new
<1>6. Len(made') = Len(made) + 1
  BY <1>1 DEF new
<1>7. (CommitType)' = T
  BY <1>6 DEF CommitType, Ids, T
<1>8. \A c \in Ids : made'[c] = made[c]
  BY <1>1 DEF Ids
<1>9. made'[Len(made) + 1] = new
  BY <1>1 DEF new
<1> QED
  BY <1>1, <1>5, <1>6, <1>7, <1>8, <1>9 DEF Ids, new

-----------------------------------------------------------------------------
(* The inductive invariant. *)

\* What has passed the check is conventional, or was edited since.
CheckedInv ==
  \A p \in Prs : pr[p].phase = "checked" =>
    /\ pr[p].kind # "invalid"
    /\ pr[p].title = "invalid" => pr[p].edited

\* A commit that blocks releases has come in under an edited title, wherever it is.
KindsInv == \A c \in Ids : made[c].kind = "invalid" => made[c].by = "edited"

ReleaseInv == ReleaseTypeOK /\ CheckedInv /\ KindsInv

LEMMA InitRelease ==
  ASSUME ReleaseInit
  PROVE  ReleaseInv
<1>1. Ids = {1} /\ Len(made) = 1
  BY DEF ReleaseInit, Ids
<1>2. made \in Seq(CommitType)
  BY <1>1 DEF ReleaseInit, CommitType, Version, Zero
<1>3. pr \in [Prs -> PrType]
  BY DEF ReleaseInit, PrType, NoPr
<1>4. NoClone \in CloneType
  BY <1>1 DEF NoClone, CloneType, Steps, NoTree, NoPlan, Files, Section, Version, Zero
<1>5. job \in [Jobs -> CloneType] /\ \A j \in Jobs : job[j].tags = {}
  BY <1>4 DEF ReleaseInit, NoClone
<1>6. ReleaseTypeOK
  BY <1>1, <1>2, <1>3, <1>5 DEF ReleaseInit, ReleaseTypeOK
<1>7. CheckedInv /\ KindsInv
  BY <1>1 DEF ReleaseInit, CheckedInv, KindsInv, NoPr
<1> QED
  BY <1>6, <1>7 DEF ReleaseInv

-----------------------------------------------------------------------------
(* Steps of a pull request. *)

\* Steps that make no commit and leave the clones and the remote alone.
LEMMA RequestStep ==
  ASSUME ReleaseInv, UNCHANGED <<made, mainRef, tags, job>>,
         pr' \in [Prs -> PrType], CheckedInv'
  PROVE  ReleaseInv'
<1>1. Ids' = Ids /\ (CommitType)' = CommitType /\ (CloneType)' = CloneType
  BY DEF Ids, CommitType, CloneType
<1>2. ReleaseTypeOK'
  BY <1>1 DEF ReleaseInv, ReleaseTypeOK
<1>3. KindsInv'
  BY <1>1 DEF ReleaseInv, KindsInv
<1> QED
  BY <1>2, <1>3 DEF ReleaseInv

\* Such a step changes one request.
LEMMA OneRequest ==
  ASSUME ReleaseInv, UNCHANGED <<made, mainRef, tags, job>>,
         NEW p \in Prs, NEW new \in PrType, pr' = [pr EXCEPT ![p] = new],
         new.phase = "checked" =>
           new.kind # "invalid" /\ (new.title = "invalid" => new.edited)
  PROVE  ReleaseInv'
<1>1. pr \in [Prs -> PrType]
  BY DEF ReleaseInv, ReleaseTypeOK
<1>2. pr' \in [Prs -> PrType] /\ \A q \in Prs : pr'[q] = IF q = p THEN new ELSE pr[q]
  BY <1>1
<1>3. CheckedInv'
  BY <1>2 DEF ReleaseInv, CheckedInv
<1> QED
  BY <1>2, <1>3, RequestStep

LEMMA OpenStep ==
  ASSUME ReleaseInv, NEW p \in Prs, NEW kind \in Kinds, NEW title \in Kinds, Open(p, kind, title)
  PROVE  ReleaseInv'
<1> DEFINE new == [phase |-> "open", kind |-> kind, title |-> title, edited |-> FALSE]
<1>1. new \in PrType
  BY DEF PrType
<1>2. new.phase # "checked"
  OBVIOUS
<1>3. pr' = [pr EXCEPT ![p] = new] /\ UNCHANGED <<made, mainRef, tags, job>>
  BY DEF Open
<1> HIDE DEF new
<1> QED
  BY <1>1, <1>2, <1>3, OneRequest

LEMMA PushStep ==
  ASSUME ReleaseInv, NEW p \in Prs, NEW kind \in Kinds, Push(p, kind)
  PROVE  ReleaseInv'
<1> DEFINE new == [[[pr[p] EXCEPT !.phase = "open"] EXCEPT !.kind = kind] EXCEPT !.edited = FALSE]
<1>1. pr \in [Prs -> PrType] /\ pr[p] \in PrType
  BY DEF ReleaseInv, ReleaseTypeOK
<1>2. new \in PrType
  BY <1>1 DEF PrType
<1>3. new.phase # "checked"
  BY <1>1 DEF PrType
<1>4. pr' = [pr EXCEPT ![p] = new] /\ UNCHANGED <<made, mainRef, tags, job>>
  BY <1>1 DEF Push
<1> HIDE DEF new
<1> QED
  BY <1>2, <1>3, <1>4, OneRequest

LEMMA EditTitleStep ==
  ASSUME ReleaseInv, NEW p \in Prs, NEW title \in Kinds, EditTitle(p, title)
  PROVE  ReleaseInv'
<1> DEFINE new == [[pr[p] EXCEPT !.title = title] EXCEPT !.edited = TRUE]
<1>1. pr \in [Prs -> PrType] /\ pr[p] \in PrType
  BY DEF ReleaseInv, ReleaseTypeOK
<1>2. new \in PrType
  BY <1>1 DEF PrType
<1>3. new.kind = pr[p].kind /\ new.edited
  BY <1>1 DEF PrType
<1>4. pr[p].kind # "invalid"
  BY DEF EditTitle, ReleaseInv, CheckedInv
<1>5. pr' = [pr EXCEPT ![p] = new] /\ UNCHANGED <<made, mainRef, tags, job>>
  BY <1>1 DEF EditTitle
<1> HIDE DEF new
<1> QED
  BY <1>2, <1>3, <1>4, <1>5, OneRequest

LEMMA CheckStep ==
  ASSUME ReleaseInv, NEW p \in Prs, Check(p)
  PROVE  ReleaseInv'
<1> DEFINE new == [pr[p] EXCEPT !.phase = "checked"]
<1>1. pr \in [Prs -> PrType] /\ pr[p] \in PrType
  BY DEF ReleaseInv, ReleaseTypeOK
<1>2. new \in PrType
  BY <1>1 DEF PrType
<1>3. new.kind # "invalid" /\ new.title # "invalid"
  BY <1>1 DEF Check, CheckPrTitle, CheckRange, Conventional, PrType
<1>4. pr' = [pr EXCEPT ![p] = new] /\ UNCHANGED <<made, mainRef, tags, job>>
  BY <1>1 DEF Check
<1> HIDE DEF new
<1> QED
  BY <1>2, <1>3, <1>4, OneRequest

\* What has become outdated is not checked.
LEMMA OutdatedPrs ==
  ASSUME NEW prs \in [Prs -> PrType]
  PROVE  /\ Outdated(prs) \in [Prs -> PrType]
         /\ \A p \in Prs : Outdated(prs)[p].phase # "checked"
  BY DEF Outdated, PrType

\* The merge of a request, however many commits it makes: the new commits are not among
\* those that block releases, unless the title was edited.
LEMMA MergeStep ==
  ASSUME ReleaseInv, NEW p \in Prs, pr' = Outdated([pr EXCEPT ![p] = NoPr]),
         UNCHANGED <<tags, job>>,
         made' \in Seq(CommitType)', Ids \subseteq Ids', mainRef' \in Ids',
         \A c \in Ids : made'[c] = made[c],
         \A c \in Ids' \ Ids : made'[c].kind = "invalid" => made'[c].by = "edited"
  PROVE  ReleaseInv'
<1>1. [pr EXCEPT ![p] = NoPr] \in [Prs -> PrType]
  BY DEF ReleaseInv, ReleaseTypeOK, NoPr, PrType
<1>2. pr' \in [Prs -> PrType] /\ CheckedInv'
  BY <1>1, OutdatedPrs DEF CheckedInv
<1>3. CloneType \subseteq (CloneType)'
  BY DEF CloneType
<1>4. job' \in [Jobs -> (CloneType)']
  BY <1>3 DEF ReleaseInv, ReleaseTypeOK
<1>5. tags' \subseteq [version: Version, commit: Ids', by: {"owner", "release"}]
  BY DEF ReleaseInv, ReleaseTypeOK
<1>6. \A j \in Jobs : \A t \in job'[j].tags : t.commit \in Ids'
  BY DEF ReleaseInv, ReleaseTypeOK
<1>7. ReleaseTypeOK'
  BY <1>2, <1>4, <1>5, <1>6 DEF ReleaseTypeOK
<1>8. KindsInv'
  BY DEF ReleaseInv, KindsInv
<1> QED
  BY <1>2, <1>7, <1>8 DEF ReleaseInv

LEMMA ByType ==
  ASSUME ReleaseInv, NEW p \in Prs
  PROVE  By(p) \in {"owner", "pr", "edited", "release"}
  BY DEF By

LEMMA SquashMergeStep ==
  ASSUME ReleaseInv, NEW p \in Prs, SquashMerge(p)
  PROVE  ReleaseInv'
<1>1. mainRef \in Ids /\ pr[p] \in PrType /\ ReleaseTypeOK
  BY DEF ReleaseInv, ReleaseTypeOK
<1>2. Committed(mainRef) \in Files /\ made[mainRef] \in CommitType
  BY <1>1, CommittedFiles DEF ReleaseTypeOK, Ids
<1> DEFINE files == Committed(mainRef)
           new == NewCommit({mainRef}, pr[p].title, files, By(p))
<1>3. NewCommit({mainRef}, pr[p].title, made[mainRef], By(p)) = new
  BY <1>1, CommittedFiles DEF NewCommit
<1>4. made' = Append(made, new)
  BY <1>3 DEF SquashMerge
<1>5. pr[p].title \in Kinds \cup {"patch", "merge"} /\ {mainRef} \subseteq Ids
  BY <1>1 DEF PrType
<1>6. /\ made' \in Seq(CommitType)'
      /\ Ids \subseteq Ids'
      /\ Len(made) + 1 \in Ids'
      /\ \A c \in Ids' : c \in Ids \/ c = Len(made) + 1
      /\ \A c \in Ids : made'[c] = made[c]
      /\ made'[Len(made) + 1] = new
  <2> HIDE DEF files
  <2> QED
    BY <1>1, <1>2, <1>4, <1>5, ByType, OneMore DEF files
<1>7. new.kind = "invalid" => new.by = "edited"
  BY DEF SquashMerge, ReleaseInv, CheckedInv, NewCommit, By
<1>8. \A c \in Ids' \ Ids : made'[c].kind = "invalid" => made'[c].by = "edited"
  BY <1>6, <1>7
<1> QED
  BY <1>6, <1>8, MergeStep DEF SquashMerge

LEMMA ReachesItself ==
  ASSUME NEW n \in Nat, n > 0, NEW c \in CommitsUpTo(n)
  PROVE  [c EXCEPT !.reach = @ \cup {n}] \in CommitsUpTo(n)
<1>1. c.reach \cup {n} \subseteq 1..n
  BY DEF CommitsUpTo
<1> QED
  BY <1>1 DEF CommitsUpTo

LEMMA MergePrStep ==
  ASSUME ReleaseInv, NEW p \in Prs, MergePr(p)
  PROVE  ReleaseInv'
<1> DEFINE n == Len(made) + 2
           branch == NewCommit({mainRef}, pr[p].kind, made[mainRef], By(p))
           under == NewCommit({mainRef}, "merge", made[mainRef], By(p))
           top == [under EXCEPT !.reach = @ \cup {n}]
           T == [reach: SUBSET (1..n), kind: Kinds \cup {"patch", "merge"}, manifest: Version,
                 changelog: Seq(Section), by: {"owner", "pr", "edited", "release"}]
<1>1. /\ mainRef \in Ids /\ pr[p] \in PrType /\ ReleaseTypeOK
      /\ made \in Seq(CommitType) /\ Len(made) \in Nat
  BY DEF ReleaseInv, ReleaseTypeOK
<1>2. n \in Nat /\ n > Len(made) /\ n >= Len(made) /\ n > 0
  BY <1>1
<1> DEFINE files == Committed(mainRef)
<1>3. files \in Files /\ {mainRef} \subseteq Ids
  BY <1>1, CommittedFiles
<1>4. /\ branch = NewCommit({mainRef}, pr[p].kind, files, By(p))
      /\ under = NewCommit({mainRef}, "merge", files, By(p))
  BY <1>1, CommittedFiles DEF NewCommit
<1>5. pr[p].kind \in Kinds \cup {"patch", "merge"}
  BY <1>1 DEF PrType
<1>6. made' = made \o <<branch, top>> /\ mainRef' = n
  BY <1>1 DEF MergePr
<1>7. branch \in T /\ under \in T /\ top \in T
  <2> HIDE DEF n, files
  <2>1. By(p) \in {"owner", "pr", "edited", "release"}
    BY ByType
  <2>2. NewCommit({mainRef}, pr[p].kind, files, By(p)) \in CommitsUpTo(n)
    BY <1>1, <1>2, <1>3, <1>5, <2>1, NewCommitType
  <2>3. NewCommit({mainRef}, "merge", files, By(p)) \in CommitsUpTo(n)
    BY <1>1, <1>2, <1>3, <2>1, NewCommitType
  <2>4. [NewCommit({mainRef}, "merge", files, By(p)) EXCEPT !.reach = @ \cup {n}]
          \in CommitsUpTo(n)
    BY <1>2, <2>3, ReachesItself
  <2> HIDE DEF branch, under
  <2> QED
    BY <1>4, <2>2, <2>3, <2>4 DEF CommitsUpTo
<1>9. \A c \in Ids : made[c] \in T
  <2> HIDE DEF n
  <2> QED
    BY <1>1, <1>2, OlderCommits
<1>10. branch.kind = pr[p].kind /\ top.kind = "merge"
  BY DEF NewCommit
<1> HIDE DEF branch, top, under, T
<1>11. made \in Seq(T)
  BY <1>1, <1>9, SeqDef DEF Ids
<1>12. made' \in Seq(T) /\ Len(made') = n
  BY <1>6, <1>7, <1>11
<1>13. (CommitType)' = T /\ Ids' = 1..n
  BY <1>12 DEF CommitType, Ids, T
<1>14. \A c \in Ids : made'[c] = made[c]
  BY <1>6, <1>7, <1>11 DEF Ids
<1>15. made'[Len(made) + 1] = branch /\ made'[n] = top
  BY <1>1, <1>6, <1>7, <1>11
<1>16. \A c \in Ids' \ Ids : c = Len(made) + 1 \/ c = n
  BY <1>1, <1>13 DEF Ids
<1>17. branch.kind # "invalid" /\ top.kind # "invalid"
  BY <1>10 DEF MergePr, ReleaseInv, CheckedInv
<1>18. \A c \in Ids' \ Ids : made'[c].kind = "invalid" => made'[c].by = "edited"
  BY <1>15, <1>16, <1>17
<1>19. Ids \subseteq Ids' /\ mainRef' \in Ids'
  BY <1>1, <1>6, <1>13 DEF Ids
<1> QED
  BY <1>12, <1>13, <1>14, <1>18, <1>19, MergeStep DEF MergePr

-----------------------------------------------------------------------------
(* Steps of the owner and of a release. *)

LEMMA CutBaselineStep ==
  ASSUME ReleaseInv, CutBaseline
  PROVE  ReleaseInv'
<1>1. Ids' = Ids /\ (CommitType)' = CommitType /\ (CloneType)' = CloneType
  BY DEF CutBaseline, Ids, CommitType, CloneType
<1>2. tags' \subseteq [version: Version, commit: Ids, by: {"owner", "release"}]
  BY DEF CutBaseline, ReleaseInv, ReleaseTypeOK, Version
<1>3. ReleaseTypeOK'
  BY <1>1, <1>2 DEF CutBaseline, ReleaseInv, ReleaseTypeOK
<1>4. CheckedInv' /\ KindsInv'
  BY <1>1 DEF CutBaseline, ReleaseInv, CheckedInv, KindsInv
<1> QED
  BY <1>3, <1>4 DEF ReleaseInv

\* A step in a clone that makes no commit and leaves requests and remote alone.
LEMMA CloneStep ==
  ASSUME ReleaseInv, NEW j \in Jobs, UNCHANGED <<made, mainRef, tags, pr>>,
         NEW clone \in CloneType, \A t \in clone.tags : t.commit \in Ids,
         job' = [job EXCEPT ![j] = clone]
  PROVE  ReleaseInv'
<1>1. Ids' = Ids /\ (CommitType)' = CommitType /\ (CloneType)' = CloneType
  BY DEF Ids, CommitType, CloneType
<1>2. job' \in [Jobs -> CloneType] /\ \A i \in Jobs : \A t \in job'[i].tags : t.commit \in Ids
  BY DEF ReleaseInv, ReleaseTypeOK
<1>3. ReleaseTypeOK'
  BY <1>1, <1>2 DEF ReleaseInv, ReleaseTypeOK
<1>4. CheckedInv' /\ KindsInv'
  BY <1>1 DEF ReleaseInv, CheckedInv, KindsInv
<1> QED
  BY <1>3, <1>4 DEF ReleaseInv

\* What a clone is before a step in it.
LEMMA CloneFacts ==
  ASSUME ReleaseInv, NEW j \in Jobs
  PROVE  job[j] \in CloneType /\ \A t \in job[j].tags : t.commit \in Ids
  BY DEF ReleaseInv, ReleaseTypeOK

LEMMA NoCloneType ==
  ASSUME ReleaseInv
  PROVE  NoClone \in CloneType /\ NoClone.tags = {}
<1>1. Len(made) \in Nat /\ mainRef \in 1..Len(made)
  BY DEF ReleaseInv, ReleaseTypeOK, Ids
<1>2. 1 \in Ids
  BY <1>1 DEF Ids
<1> QED
  BY <1>2 DEF NoClone, CloneType, Steps, NoTree, NoPlan, Files, Section, Version, Zero

LEMMA CheckoutMainStep ==
  ASSUME ReleaseInv, NEW j \in Jobs, CheckoutMain(j)
  PROVE  ReleaseInv'
<1> DEFINE clone == [step |-> "ready", head |-> mainRef, tags |-> tags,
                     tree |-> Committed(mainRef), plan |-> NoPlan]
<1>1. mainRef \in Ids /\ ReleaseTypeOK /\ Ids \subseteq Nat
  BY DEF ReleaseInv, ReleaseTypeOK, Ids
<1>2. tags \subseteq Tag /\ \A t \in tags : t.commit \in Ids
  BY <1>1 DEF ReleaseTypeOK, Tag
<1>3. Committed(mainRef) \in Files
  BY <1>1, CommittedFiles
<1>4. clone \in CloneType
  BY <1>1, <1>2, <1>3 DEF CloneType, Steps, NoPlan, Section, Version, Zero
<1>5. \A t \in clone.tags : t.commit \in Ids
  BY <1>2
<1>6. job' = [job EXCEPT ![j] = clone] /\ UNCHANGED <<made, mainRef, tags, pr>>
  BY DEF CheckoutMain
<1> HIDE DEF clone
<1> QED
  BY <1>4, <1>5, <1>6, CloneStep

LEMMA StartReleaseStep ==
  ASSUME ReleaseInv, NEW j \in Jobs, NEW level \in Levels, StartRelease(j, level)
  PROVE  ReleaseInv'
<1> DEFINE plan == Plan(job[j].tags, job[j].head, level)
           clone == [job[j] EXCEPT !.step = "changelog", !.plan = plan]
<1>1. job[j] \in CloneType /\ \A t \in job[j].tags : t.commit \in Ids
  BY CloneFacts
<1>2. job[j].tags \subseteq Tag /\ job[j].head \in Ids /\ ReleaseTypeOK
  BY <1>1 DEF CloneType, ReleaseInv
<1>3. plan \in Section
  BY <1>2, PlanIsSection
<1>4. job' = [job EXCEPT ![j].step = "changelog", ![j].plan = plan]
      /\ UNCHANGED <<made, mainRef, tags, pr>>
  BY DEF StartRelease
<1> HIDE DEF plan
<1>5. clone \in CloneType /\ \A t \in clone.tags : t.commit \in Ids
  BY <1>1, <1>3 DEF CloneType, Steps
<1>6. job' = [job EXCEPT ![j] = clone]
  BY <1>4 DEF ReleaseInv, ReleaseTypeOK
<1> HIDE DEF clone
<1> QED
  BY <1>4, <1>5, <1>6, CloneStep

LEMMA WriteChangelogStep ==
  ASSUME ReleaseInv, NEW j \in Jobs, WriteChangelog(j)
  PROVE  ReleaseInv'
<1> DEFINE clone == [job[j] EXCEPT !.step = "manifest",
                                   !.tree.changelog = Rendered(@, job[j].plan)]
<1>1. job[j] \in CloneType /\ \A t \in job[j].tags : t.commit \in Ids
  BY CloneFacts
<1>2. Rendered(job[j].tree.changelog, job[j].plan) \in Seq(Section)
  BY <1>1 DEF Rendered, CloneType, Files
<1>3. clone \in CloneType /\ \A t \in clone.tags : t.commit \in Ids
  BY <1>1, <1>2 DEF CloneType, Steps, Files
<1>4. job' = [job EXCEPT ![j] = clone] /\ UNCHANGED <<made, mainRef, tags, pr>>
  BY DEF WriteChangelog, ReleaseInv, ReleaseTypeOK
<1> HIDE DEF clone
<1> QED
  BY <1>3, <1>4, CloneStep

LEMMA UpdateManifestStep ==
  ASSUME ReleaseInv, NEW j \in Jobs, UpdateManifest(j)
  PROVE  ReleaseInv'
<1> DEFINE clone == [job[j] EXCEPT !.step = "commit", !.tree.manifest = job[j].plan.version]
<1>1. job[j] \in CloneType /\ \A t \in job[j].tags : t.commit \in Ids
  BY CloneFacts
<1>2. job[j].plan.version \in Version
  BY <1>1 DEF CloneType, Section
<1>3. clone \in CloneType /\ \A t \in clone.tags : t.commit \in Ids
  BY <1>1, <1>2 DEF CloneType, Steps, Files
<1>4. job' = [job EXCEPT ![j] = clone] /\ UNCHANGED <<made, mainRef, tags, pr>>
  BY DEF UpdateManifest, ReleaseInv, ReleaseTypeOK
<1> HIDE DEF clone
<1> QED
  BY <1>3, <1>4, CloneStep

\* The commit of a release never blocks the next one.
LEMMA CommitReleaseStep ==
  ASSUME ReleaseInv, NEW j \in Jobs, CommitRelease(j)
  PROVE  ReleaseInv'
<1> DEFINE head == job[j].head
           files == job[j].tree
           new == NewCommit({head}, "patch", files, "release")
           clone == [job[j] EXCEPT !.step = "tag", !.head = Len(made) + 1]
<1>1. job[j] \in CloneType /\ \A t \in job[j].tags : t.commit \in Ids
  BY CloneFacts
<1>2. {head} \subseteq Ids /\ files \in Files /\ ReleaseTypeOK
  BY <1>1 DEF CloneType, ReleaseInv
<1>3. made' = Append(made, new) /\ UNCHANGED <<mainRef, tags, pr>>
  BY DEF CommitRelease
<1>4. /\ made' \in Seq(CommitType)'
      /\ Ids \subseteq Ids'
      /\ Len(made) + 1 \in Ids'
      /\ \A c \in Ids' : c \in Ids \/ c = Len(made) + 1
      /\ \A c \in Ids : made'[c] = made[c]
      /\ made'[Len(made) + 1] = new
  <2> HIDE DEF files, head
  <2> QED
    BY <1>2, <1>3, OneMore
<1>5. new.kind = "patch"
  BY DEF NewCommit
<1> HIDE DEF new
<1>6. CloneType \subseteq (CloneType)' /\ clone \in (CloneType)'
  BY <1>1, <1>4 DEF CloneType, Steps
<1>7. job' = [job EXCEPT ![j] = clone] /\ clone.tags = job[j].tags
  BY <1>1 DEF CommitRelease, ReleaseInv, ReleaseTypeOK, CloneType
<1> HIDE DEF clone
<1>8. job' \in [Jobs -> (CloneType)']
  BY <1>6, <1>7 DEF ReleaseInv, ReleaseTypeOK
<1>9. \A i \in Jobs : job'[i].tags = job[i].tags
  BY <1>7 DEF ReleaseInv, ReleaseTypeOK
<1>10. \A i \in Jobs : \A t \in job'[i].tags : t.commit \in Ids'
  BY <1>4, <1>9 DEF ReleaseInv, ReleaseTypeOK
<1>11. tags' \subseteq [version: Version, commit: Ids', by: {"owner", "release"}]
  BY <1>3, <1>4 DEF ReleaseInv, ReleaseTypeOK
<1>12. ReleaseTypeOK'
  BY <1>3, <1>4, <1>8, <1>10, <1>11 DEF ReleaseInv, ReleaseTypeOK
<1>13. KindsInv'
  BY <1>4, <1>5 DEF ReleaseInv, KindsInv
<1>14. CheckedInv'
  BY <1>3 DEF ReleaseInv, CheckedInv
<1> QED
  BY <1>12, <1>13, <1>14 DEF ReleaseInv

LEMMA TagReleaseStep ==
  ASSUME ReleaseInv, NEW j \in Jobs, TagRelease(j)
  PROVE  ReleaseInv'
<1> DEFINE tag == [version |-> job[j].plan.version, commit |-> job[j].head, by |-> "release"]
           clone == [job[j] EXCEPT !.step = "pushMain", !.tags = @ \cup {tag}]
<1>1. job[j] \in CloneType /\ \A t \in job[j].tags : t.commit \in Ids
  BY CloneFacts
<1>2. tag \in Tag /\ tag.commit \in Ids
  BY <1>1 DEF CloneType, Tag, Section, Ids
<1>3. job' = [job EXCEPT ![j] = clone] /\ UNCHANGED <<made, mainRef, tags, pr>>
  BY DEF TagRelease, ReleaseInv, ReleaseTypeOK
<1> HIDE DEF tag
<1>4. clone \in CloneType /\ \A t \in clone.tags : t.commit \in Ids
  BY <1>1, <1>2 DEF CloneType, Steps
<1> HIDE DEF clone
<1> QED
  BY <1>3, <1>4, CloneStep

LEMMA PushMainStep ==
  ASSUME ReleaseInv, NEW j \in Jobs, PushMain(j)
  PROVE  ReleaseInv'
<1> DEFINE clone == [job[j] EXCEPT !.step = "pushTags"]
<1>1. job[j] \in CloneType /\ \A t \in job[j].tags : t.commit \in Ids
  BY CloneFacts
<1>2. CASE mainRef \in Reach(job[j].head)
  <2>1. /\ job' = [job EXCEPT ![j] = clone] /\ mainRef' = job[j].head
        /\ pr' = Outdated(pr) /\ UNCHANGED <<made, tags>>
    BY <1>2 DEF PushMain, ReleaseInv, ReleaseTypeOK
  <2>2. clone \in CloneType /\ \A t \in clone.tags : t.commit \in Ids
    BY <1>1 DEF CloneType, Steps
  <2> HIDE DEF clone
  <2>3. Ids' = Ids /\ (CommitType)' = CommitType /\ (CloneType)' = CloneType
    BY <2>1 DEF Ids, CommitType, CloneType
  <2>4. pr' \in [Prs -> PrType] /\ \A p \in Prs : pr'[p].phase # "checked"
    BY <2>1, OutdatedPrs DEF ReleaseInv, ReleaseTypeOK
  <2>5. mainRef' \in Ids
    BY <1>1, <2>1 DEF CloneType
  <2>6. /\ job' \in [Jobs -> CloneType]
        /\ \A i \in Jobs : \A t \in job'[i].tags : t.commit \in Ids
    BY <2>1, <2>2 DEF ReleaseInv, ReleaseTypeOK
  <2>7. ReleaseTypeOK'
    BY <2>1, <2>3, <2>4, <2>5, <2>6 DEF ReleaseInv, ReleaseTypeOK
  <2>8. CheckedInv' /\ KindsInv'
    BY <2>1, <2>3, <2>4 DEF ReleaseInv, CheckedInv, KindsInv
  <2> QED
    BY <2>7, <2>8 DEF ReleaseInv
<1>3. CASE mainRef \notin Reach(job[j].head)
  <2>1. job' = [job EXCEPT ![j] = NoClone] /\ UNCHANGED <<made, mainRef, tags, pr>>
    BY <1>3 DEF PushMain
  <2> QED
    BY <2>1, NoCloneType, CloneStep
<1> QED
  BY <1>2, <1>3

LEMMA PushTagsStep ==
  ASSUME ReleaseInv, NEW j \in Jobs, PushTags(j)
  PROVE  ReleaseInv'
<1>1. job[j] \in CloneType /\ \A t \in job[j].tags : t.commit \in Ids
  BY CloneFacts
<1>2. Ids' = Ids /\ (CommitType)' = CommitType /\ (CloneType)' = CloneType
  BY DEF PushTags, Ids, CommitType, CloneType
<1>3. tags' \subseteq [version: Version, commit: Ids, by: {"owner", "release"}]
  BY <1>1 DEF PushTags, ReleaseInv, ReleaseTypeOK, CloneType, Tag
<1>4. NoClone \in CloneType /\ NoClone.tags = {}
  BY NoCloneType
<1>5. /\ job' \in [Jobs -> CloneType]
      /\ \A i \in Jobs : \A t \in job'[i].tags : t.commit \in Ids
  BY <1>4 DEF PushTags, ReleaseInv, ReleaseTypeOK
<1>6. ReleaseTypeOK'
  BY <1>2, <1>3, <1>5 DEF PushTags, ReleaseInv, ReleaseTypeOK
<1>7. CheckedInv' /\ KindsInv'
  BY <1>2 DEF PushTags, ReleaseInv, CheckedInv, KindsInv
<1> QED
  BY <1>6, <1>7 DEF ReleaseInv

LEMMA FailStep ==
  ASSUME ReleaseInv, NEW j \in Jobs, Fail(j)
  PROVE  ReleaseInv'
<1> DEFINE clone == [job[j] EXCEPT !.step = "ready", !.plan = NoPlan]
<1>1. UNCHANGED <<made, mainRef, tags, pr>>
  BY DEF Fail
<1>2. CASE job[j].step \in {"pushMain", "pushTags"}
  <2>1. job' = [job EXCEPT ![j] = NoClone]
    BY <1>2 DEF Fail
  <2> QED
    BY <1>1, <2>1, NoCloneType, CloneStep
<1>3. CASE job[j].step \notin {"pushMain", "pushTags"}
  <2>1. job[j] \in CloneType /\ \A t \in job[j].tags : t.commit \in Ids
    BY CloneFacts
  <2>2. clone \in CloneType /\ \A t \in clone.tags : t.commit \in Ids
    BY <2>1 DEF CloneType, Steps, NoPlan, Section, Version, Zero
  <2>3. job' = [job EXCEPT ![j] = clone]
    BY <1>3 DEF Fail, ReleaseInv, ReleaseTypeOK
  <2> HIDE DEF clone
  <2> QED
    BY <1>1, <2>2, <2>3, CloneStep
<1> QED
  BY <1>2, <1>3

LEMMA RestoreTreeStep ==
  ASSUME ReleaseInv, NEW j \in Jobs, RestoreTree(j)
  PROVE  ReleaseInv'
<1> DEFINE clone == [job[j] EXCEPT !.tree = Committed(job[j].head)]
<1>1. job[j] \in CloneType /\ \A t \in job[j].tags : t.commit \in Ids
  BY CloneFacts
<1>2. Committed(job[j].head) \in Files
  BY <1>1, CommittedFiles DEF CloneType, ReleaseInv
<1>3. clone \in CloneType /\ \A t \in clone.tags : t.commit \in Ids
  BY <1>1, <1>2 DEF CloneType
<1>4. job' = [job EXCEPT ![j] = clone] /\ UNCHANGED <<made, mainRef, tags, pr>>
  BY DEF RestoreTree, ReleaseInv, ReleaseTypeOK
<1> HIDE DEF clone
<1> QED
  BY <1>3, <1>4, CloneStep

-----------------------------------------------------------------------------
(* The theorems. *)

LEMMA ReleaseStep ==
  ASSUME ReleaseInv, [ReleaseNext]_releaseVars
  PROVE  ReleaseInv'
<1>1. CASE UNCHANGED releaseVars
  BY <1>1 DEF releaseVars, ReleaseInv, ReleaseTypeOK, CheckedInv, KindsInv, Ids, CommitType,
              CloneType
<1>2. ASSUME NEW p \in Prs, PullRequest(p)
      PROVE  ReleaseInv'
  BY <1>2, OpenStep, PushStep, EditTitleStep, CheckStep, SquashMergeStep, MergePrStep
     DEF PullRequest
<1>3. CASE CutBaseline
  BY <1>3, CutBaselineStep
<1>4. ASSUME NEW j \in Jobs, ReleaseJob(j)
      PROVE  ReleaseInv'
  BY <1>4, CheckoutMainStep, StartReleaseStep, WriteChangelogStep, UpdateManifestStep,
     CommitReleaseStep, TagReleaseStep, PushMainStep, PushTagsStep, FailStep, RestoreTreeStep
     DEF ReleaseJob
<1> QED
  BY <1>1, <1>2, <1>3, <1>4 DEF ReleaseNext

LEMMA ReleaseInvariant == ReleaseSpec => []ReleaseInv
<1>1. ReleaseInit => ReleaseInv
  BY InitRelease
<1>2. ReleaseInv /\ [ReleaseNext]_releaseVars => ReleaseInv'
  BY ReleaseStep
<1> QED
  BY <1>1, <1>2, PTL DEF ReleaseSpec

(***************************************************************************)
(* Commits, branches, tags, requests and clones have their types: every    *)
(* tag, clone and commit names commits that exist.                         *)
(***************************************************************************)
THEOREM ReleaseTypeCorrect == ReleaseSpec => []ReleaseTypeOK
<1>1. ReleaseInv => ReleaseTypeOK
  BY DEF ReleaseInv
<1> QED
  BY <1>1, ReleaseInvariant, PTL

(***************************************************************************)
(* However requests are opened, pushed to, checked, edited and merged,     *)
(* while releases come and go and fail anywhere, a commit that blocks      *)
(* releases is on main only if its title was edited after the check that   *)
(* versioning.yml made of it.                                              *)
(***************************************************************************)
THEOREM MainStaysReleasable == ReleaseSpec => []ChecksKeepMainReleasable
<1>1. ReleaseInv => ChecksKeepMainReleasable
  <2> SUFFICES ASSUME ReleaseInv
               PROVE  ChecksKeepMainReleasable
    OBVIOUS
  <2>1. Reach(mainRef) \subseteq Ids
    BY CommittedFiles DEF ReleaseInv, ReleaseTypeOK
  <2> QED
    BY <2>1 DEF ChecksKeepMainReleasable, ReleaseInv, KindsInv
<1> QED
  BY <1>1, ReleaseInvariant, PTL

-----------------------------------------------------------------------------
(* Versions. *)

LEMMA OrderOfVersions ==
  ASSUME NEW a \in Version, NEW b \in Version, NEW c \in Version
  PROVE  ~Less(a, a) /\ (Less(a, b) /\ ~Less(a, c) => ~Less(b, c))
<1>1. /\ a[1] \in Nat /\ a[2] \in Nat /\ a[3] \in Nat
      /\ b[1] \in Nat /\ b[2] \in Nat /\ b[3] \in Nat
      /\ c[1] \in Nat /\ c[2] \in Nat /\ c[3] \in Nat
  BY DEF Version
<1> QED
  BY <1>1 DEF Less

\* Whatever level is asked for, a bump goes past everything its base is not behind.
LEMMA BumpIsLater ==
  ASSUME NEW v \in Version, NEW w \in Version, NEW level, ~Less(v, w)
  PROVE  Less(w, Bump(v, level))
<1>1. /\ v[1] \in Nat /\ v[2] \in Nat /\ v[3] \in Nat
      /\ w[1] \in Nat /\ w[2] \in Nat /\ w[3] \in Nat
  BY DEF Version
<1>2. Bump(v, level) \in {<<v[1] + 1, 0, 0>>, <<v[1], v[2] + 1, 0>>, <<v[1], v[2], v[3] + 1>>}
  BY DEF Bump
<1>3. Less(w, <<v[1] + 1, 0, 0>>)
  BY <1>1 DEF Less
<1>4. Less(w, <<v[1], v[2] + 1, 0>>)
  BY <1>1 DEF Less
<1>5. Less(w, <<v[1], v[2], v[3] + 1>>)
  BY <1>1 DEF Less
<1> QED
  BY <1>2, <1>3, <1>4, <1>5

\* Every non-empty set of these tags has one that no other is later than.
Ranked(ts) == \A S \in SUBSET ts : S # {} => \E t \in S : \A u \in S : ~Less(t.version, u.version)

LEMMA RankedOneMore ==
  ASSUME NEW ts, ts \subseteq Tag, Ranked(ts), NEW x \in Tag
  PROVE  Ranked(ts \cup {x})
<1> SUFFICES ASSUME NEW S \in SUBSET (ts \cup {x}), S # {}
             PROVE  \E t \in S : \A u \in S : ~Less(t.version, u.version)
  BY DEF Ranked
<1>1. \A t \in ts \cup {x} : t.version \in Version
  BY DEF Tag
<1>2. CASE S \ {x} = {}
  <2>1. S = {x} /\ ~Less(x.version, x.version)
    BY <1>1, <1>2, OrderOfVersions
  <2> QED
    BY <2>1
<1>3. CASE S \ {x} # {}
  <2>1. S \ {x} \in SUBSET ts
    OBVIOUS
  <2>2. PICK m \in S \ {x} : \A u \in S \ {x} : ~Less(m.version, u.version)
    BY <1>3, <2>1 DEF Ranked
  <2>3. CASE x \in S /\ Less(m.version, x.version)
    <3>1. \A u \in S : ~Less(x.version, u.version)
      BY <1>1, <2>2, <2>3, OrderOfVersions
    <3> QED
      BY <2>3, <3>1
  <2>4. CASE x \notin S \/ ~Less(m.version, x.version)
    BY <2>2, <2>4
  <2> QED
    BY <2>3, <2>4
<1> QED
  BY <1>2, <1>3

\* The plan's version is later than every tag it can see in the history of `to`.
LEMMA PlanIsLater ==
  ASSUME NEW ts, ts \subseteq Tag, Ranked(ts), NEW to, NEW level,
         NEW t \in ts, t.commit \in Reach(to)
  PROVE  Less(t.version, Plan(ts, to, level).version)
<1> DEFINE from == LatestTag(ts, to)
           base == CHOOSE u \in from : TRUE
<1>1. t \in Merged(ts, to) /\ Merged(ts, to) \in SUBSET ts
  BY DEF Merged
<1>2. from # {}
  BY <1>1 DEF Ranked, LatestTag
<1>3. base \in from
  BY <1>2
<1>4. base \in ts /\ ~Less(base.version, t.version)
  BY <1>1, <1>3 DEF LatestTag
<1>5. base.version \in Version /\ t.version \in Version
  BY <1>4 DEF Tag
<1>6. BaseVersion(from) = base.version
  BY <1>2 DEF BaseVersion
<1> HIDE DEF from, base
<1>7. \A l : Less(t.version, Bump(BaseVersion(from), l))
  BY <1>4, <1>5, <1>6, BumpIsLater
<1> QED
  BY <1>7 DEF Plan, from

-----------------------------------------------------------------------------
(* The order of releases that do not overlap: its inductive invariant. *)

Ahead == {"tag", "pushMain", "pushTags"}

\* A release in the history of what a clone has checked out.
Behind(j, t) == t.by = "release" /\ t.commit \in Reach(job[j].head)

OwnTag(j) == [version |-> job[j].plan.version, commit |-> job[j].head, by |-> "release"]
Own(j) == IF job[j].step \in {"pushMain", "pushTags"} THEN {OwnTag(j)} ELSE {}

AloneInv == \A i, j \in Jobs : job[i].step \in AtWork /\ job[j].step \in AtWork => i = j

\* A clone knows the releases in its history, though not every tag of the remote, and has no
\* tag of its own but that of the release under way.
KnownInv ==
  \A j \in Jobs : /\ job[j].tags \subseteq tags \cup Own(j)
                  /\ job[j].step # "off" => \A t \in tags : Behind(j, t) => t \in job[j].tags

LaterInv ==
  \A j \in Jobs : job[j].step \in AtWork =>
    \A t \in tags : Behind(j, t) => Less(t.version, job[j].plan.version)

\* Nobody else has the commit of a release under way.
NewInv ==
  \A j \in Jobs : job[j].step \in Ahead =>
    /\ \A t \in Releases : job[j].head \notin Reach(t.commit)
    /\ \A i \in Jobs \ {j} : job[i].step # "off" => job[j].head \notin Reach(job[i].head)

OrderInv == Ranked(tags) /\ AloneInv /\ KnownInv /\ LaterInv /\ NewInv /\ VersionsIncrease

LEMMA OrderTypes ==
  ASSUME ReleaseInv
  PROVE  /\ Len(made) \in Nat /\ Ids = 1..Len(made) /\ tags \subseteq Tag
         /\ \A t \in tags : t.commit \in Ids
         /\ \A c \in Ids : Reach(c) \subseteq Ids
         /\ job \in [Jobs -> CloneType]
         /\ \A j \in Jobs : job[j].head \in Ids /\ job[j].tags \subseteq Tag
<1>1. ReleaseTypeOK /\ Len(made) \in Nat /\ Ids = 1..Len(made) /\ job \in [Jobs -> CloneType]
  BY DEF ReleaseInv, ReleaseTypeOK, Ids
<1>2. tags \subseteq Tag /\ \A t \in tags : t.commit \in Ids
  BY <1>1 DEF ReleaseTypeOK, Tag
<1>3. \A j \in Jobs : job[j].head \in Ids /\ job[j].tags \subseteq Tag
  BY <1>1 DEF CloneType
<1> QED
  BY <1>1, <1>2, <1>3, CommittedFiles

LEMMA OrderInit == ReleaseInit => OrderInv
<1> SUFFICES ASSUME ReleaseInit PROVE OrderInv
  OBVIOUS
<1>1. tags = {} /\ \A j \in Jobs : job[j].step = "off" /\ job[j].tags = {}
  BY DEF ReleaseInit, NoClone
<1> QED
  BY <1>1 DEF OrderInv, Ranked, AloneInv, KnownInv, LaterInv, NewInv, VersionsIncrease, Releases,
              AtWork, Ahead

\* Commits are added; clones, and the tags of releases, stay.
LEMMA OrderKept ==
  ASSUME ReleaseInv, OrderInv, UNCHANGED job, Ranked(tags'), tags \subseteq tags',
         \A t \in tags' \ tags : t.by = "owner",
         \A c \in Ids : made'[c] = made[c]
  PROVE  OrderInv'
<1>1. \A c \in Ids : Reach(c)' = Reach(c)
  BY DEF Reach
<1>2. \A j \in Jobs : job[j].head \in Ids
  BY OrderTypes
<1>3. \A j \in Jobs : \A t : Behind(j, t)' <=> Behind(j, t)
  BY <1>1, <1>2 DEF Behind
<1>4. Releases' = Releases
  BY DEF Releases
<1>5. \A t \in Releases : t.commit \in Ids
  BY OrderTypes DEF Releases
<1>6. KnownInv'
  BY <1>3 DEF OrderInv, KnownInv, Own, OwnTag, Behind
<1>7. LaterInv'
  BY <1>3 DEF OrderInv, LaterInv, Behind
<1>8. NewInv'
  BY <1>1, <1>2, <1>4, <1>5 DEF OrderInv, NewInv
<1>9. VersionsIncrease'
  BY <1>1, <1>4, <1>5 DEF OrderInv, VersionsIncrease
<1>10. AloneInv' /\ Ranked(tags)'
  BY DEF OrderInv, AloneInv, Ranked
<1> QED
  BY <1>6, <1>7, <1>8, <1>9, <1>10 DEF OrderInv

LEMMA OrderRequest ==
  ASSUME ReleaseInv, OrderInv, NEW p \in Prs, PullRequest(p)
  PROVE  OrderInv'
<1>1. UNCHANGED <<tags, job>>
  BY DEF PullRequest, Open, Push, EditTitle, Check, SquashMerge, MergePr
<1>2. \A c \in Ids : made'[c] = made[c]
  <2>1. made \in Seq(CommitType) /\ Ids = 1..Len(made)
    BY DEF ReleaseInv, ReleaseTypeOK, Ids
  <2>2. made' = made \/ (\E x : made' = Append(made, x)) \/ \E x, y : made' = made \o <<x, y>>
    BY DEF PullRequest, Open, Push, EditTitle, Check, SquashMerge, MergePr
  <2>3. ASSUME NEW x, made' = Append(made, x) PROVE \A c \in Ids : made'[c] = made[c]
    BY <2>1, <2>3
  <2>4. ASSUME NEW x, NEW y, made' = made \o <<x, y>> PROVE \A c \in Ids : made'[c] = made[c]
    BY <2>1, <2>4
  <2> QED
    BY <2>2, <2>3, <2>4
<1> QED
  BY <1>1, <1>2, OrderKept DEF OrderInv

LEMMA OrderBaseline ==
  ASSUME ReleaseInv, OrderInv, CutBaseline
  PROVE  OrderInv'
<1> DEFINE x == [version |-> <<0, 1, 0>>, commit |-> mainRef, by |-> "owner"]
<1>1. tags = {} /\ tags' = tags \cup {x} /\ UNCHANGED <<made, job>>
  BY DEF CutBaseline
<1>2. x \in Tag
  BY DEF Tag, Version, ReleaseInv, ReleaseTypeOK, Ids
<1>3. tags \subseteq Tag /\ Ranked(tags)
  BY OrderTypes DEF OrderInv
<1>4. x.by = "owner"
  OBVIOUS
<1> HIDE DEF x
<1>5. Ranked(tags')
  BY <1>1, <1>2, <1>3, RankedOneMore
<1> QED
  BY <1>1, <1>4, <1>5, OrderKept

\* A step in one clone that adds no tag to the remote.
LEMMA OrderClone ==
  ASSUME ReleaseInv, OrderInv, NEW j \in Jobs, UNCHANGED tags, NEW clone,
         job' = [job EXCEPT ![j] = clone],
         \A c \in Ids : made'[c] = made[c],
         clone.step \in AtWork => job[j].step \in AtWork \/ \A i \in Jobs : job[i].step \notin AtWork,
         clone.tags \subseteq tags \cup Own(j)',
         clone.step # "off" => \A t \in tags : Behind(j, t)' => t \in clone.tags,
         clone.step \in AtWork =>
            \A t \in tags : Behind(j, t)' => Less(t.version, clone.plan.version),
         clone.step \in Ahead => \/ job[j].step \in Ahead /\ clone.head = job[j].head
                                 \/ clone.head \notin Ids,
         clone.step # "off" => \/ job[j].step # "off" /\ clone.head = job[j].head
                               \/ \A i \in Jobs \ {j} : job[i].step \notin AtWork
  PROVE  OrderInv'
<1>1. job'[j] = clone /\ \A i \in Jobs \ {j} : job'[i] = job[i]
  BY OrderTypes
<1>2. \A c \in Ids : Reach(c)' = Reach(c) /\ Reach(c) \subseteq Ids
  BY OrderTypes DEF Reach
<1>3. \A i \in Jobs : job[i].head \in Ids
  BY OrderTypes
<1>4. \A i \in Jobs \ {j} : Own(i)' = Own(i) /\ \A t : Behind(i, t)' <=> Behind(i, t)
  BY <1>1, <1>2, <1>3 DEF Behind, Own, OwnTag
<1>5. Releases' = Releases /\ \A t \in Releases : t.commit \in Ids
  BY OrderTypes DEF Releases
<1>6. AloneInv'
  BY <1>1 DEF OrderInv, AloneInv
<1>7. KnownInv'
  BY <1>1, <1>4 DEF OrderInv, KnownInv
<1>8. LaterInv'
  BY <1>1, <1>4 DEF OrderInv, LaterInv
<1>9. NewInv'
  <2>1. \A c \in Ids : made'[c].reach = made[c].reach /\ made[c].reach \subseteq Ids
    BY <1>2 DEF Reach
  <2>2. \A k \in Jobs : job[k].step \in Ahead =>
           /\ \A t \in Releases : job[k].head \notin made[t.commit].reach
           /\ \A i \in Jobs \ {k} : job[i].step # "off" => job[k].head \notin made[job[i].head].reach
    BY DEF OrderInv, NewInv, Reach
  <2>3. ASSUME NEW k \in Jobs, job'[k].step \in Ahead, NEW t \in Releases
        PROVE  job'[k].head \notin made'[t.commit].reach
    <3>1. made'[t.commit].reach = made[t.commit].reach /\ made[t.commit].reach \subseteq Ids
      BY <1>5, <2>1
    <3>2. CASE k = j
      BY <1>1, <2>2, <2>3, <3>1, <3>2
    <3>3. CASE k # j
      BY <1>1, <2>2, <2>3, <3>1, <3>3
    <3> QED
      BY <3>2, <3>3
  <2>4. ASSUME NEW k \in Jobs, job'[k].step \in Ahead,
               NEW i \in Jobs \ {k}, job'[i].step # "off"
        PROVE  job'[k].head \notin made'[job'[i].head].reach
    <3>1. CASE k = j
      <4>1. job'[i] = job[i]
        BY <1>1, <3>1
      <4>2. made'[job[i].head].reach = made[job[i].head].reach /\ made[job[i].head].reach \subseteq Ids
        BY <1>3, <2>1
      <4> QED
        BY <1>1, <2>2, <2>4, <3>1, <4>1, <4>2
    <3>2. CASE k # j
      <4>1. job'[k] = job[k] /\ job[k].step \in AtWork
        BY <1>1, <2>4, <3>2 DEF Ahead, AtWork, Steps
      <4>2. job[i].step # "off" /\ job'[i].head = job[i].head
        BY <1>1, <2>4, <3>2, <4>1
      <4>3. made'[job[i].head].reach = made[job[i].head].reach
        BY <1>3, <2>1
      <4> QED
        BY <2>2, <2>4, <4>1, <4>2, <4>3
    <3> QED
      BY <3>1, <3>2
  <2> QED
    BY <1>5, <2>3, <2>4 DEF NewInv, Reach
<1>10. VersionsIncrease'
  BY <1>2, <1>5 DEF OrderInv, VersionsIncrease
<1>11. Ranked(tags)'
  BY DEF OrderInv, Ranked
<1> QED
  BY <1>6, <1>7, <1>8, <1>9, <1>10, <1>11 DEF OrderInv

\* A clone that is given up, or whose push was rejected.
LEMMA OrderDropped ==
  ASSUME ReleaseInv, OrderInv, NEW j \in Jobs, UNCHANGED <<made, tags>>,
         job' = [job EXCEPT ![j] = NoClone]
  PROVE  OrderInv'
<1>1. NoClone.step = "off" /\ NoClone.tags = {} /\ "off" \notin AtWork /\ "off" \notin Ahead
  BY DEF NoClone, AtWork, Ahead, Steps
<1>2. \A c \in Ids : made'[c] = made[c]
  OBVIOUS
<1> HIDE DEF NoClone
<1> QED
  BY <1>1, <1>2, OrderClone

\* A step of a clone that keeps its commit and its tags.
LEMMA OrderSameHead ==
  ASSUME ReleaseInv, OrderInv, NEW j \in Jobs, NEW clone, UNCHANGED <<made, tags>>,
         job' = [job EXCEPT ![j] = clone],
         job[j].step # "off", clone.head = job[j].head, clone.tags = job[j].tags,
         clone.step \in AtWork => job[j].step \in AtWork /\ clone.plan = job[j].plan,
         clone.step \in Ahead => job[j].step \in Ahead,
         job[j].step \in {"pushMain", "pushTags"} => clone.step \in {"pushMain", "pushTags"}
  PROVE  OrderInv'
<1>1. job'[j] = clone
  BY OrderTypes
<1>2. \A t : Behind(j, t)' <=> Behind(j, t)
  BY <1>1 DEF Behind, Reach
<1>3. Own(j) \subseteq Own(j)'
  BY <1>1 DEF Own, OwnTag, AtWork, Steps
<1>4. clone.tags \subseteq tags \cup Own(j)'
  BY <1>3 DEF OrderInv, KnownInv
<1>5. clone.step # "off" => \A t \in tags : Behind(j, t)' => t \in clone.tags
  BY <1>2 DEF OrderInv, KnownInv
<1>6. clone.step \in AtWork => \A t \in tags : Behind(j, t)' => Less(t.version, clone.plan.version)
  BY <1>2 DEF OrderInv, LaterInv
<1>7. \A c \in Ids : made'[c] = made[c]
  OBVIOUS
<1> QED
  BY <1>4, <1>5, <1>6, <1>7, OrderClone

LEMMA OrderCheckoutMain ==
  ASSUME ReleaseInv, OrderInv, ~Overlap, NEW j \in Jobs, CheckoutMain(j)
  PROVE  OrderInv'
<1> DEFINE clone == [step |-> "ready", head |-> mainRef, tags |-> tags,
                     tree |-> Committed(mainRef), plan |-> NoPlan]
<1>1. clone.step = "ready" /\ clone.tags = tags
  OBVIOUS
<1>2. job' = [job EXCEPT ![j] = clone] /\ UNCHANGED <<made, tags>>
  BY DEF CheckoutMain
<1>3. \A i \in Jobs : job[i].step \notin AtWork
  BY DEF CheckoutMain
<1>4. clone.step \notin AtWork /\ clone.step \notin Ahead
  BY <1>1 DEF AtWork, Ahead
<1>5. \A c \in Ids : made'[c] = made[c]
  BY <1>2
<1> HIDE DEF clone
<1> QED
  BY <1>1, <1>2, <1>3, <1>4, <1>5, OrderClone

LEMMA OrderStartRelease ==
  ASSUME ReleaseInv, OrderInv, ~Overlap, NEW j \in Jobs, NEW level \in Levels,
         StartRelease(j, level)
  PROVE  OrderInv'
<1> DEFINE plan == Plan(job[j].tags, job[j].head, level)
           clone == [job[j] EXCEPT !.step = "changelog", !.plan = plan]
<1>1. job[j] \in CloneType /\ job \in [Jobs -> CloneType] /\ job[j].tags \subseteq Tag
  BY OrderTypes
<1>2. /\ job[j].step = "ready" /\ \A i \in Jobs : job[i].step \notin AtWork
      /\ job' = [job EXCEPT ![j].step = "changelog", ![j].plan = plan]
      /\ UNCHANGED <<made, tags>>
  BY DEF StartRelease
<1>3. Own(j) = {} /\ job[j].tags \subseteq tags
  BY <1>2 DEF Own, OrderInv, KnownInv
<1>4. Ranked(job[j].tags)
  BY <1>3 DEF OrderInv, Ranked
<1>5. \A t \in tags : Behind(j, t) => t \in job[j].tags /\ t.commit \in Reach(job[j].head)
  BY <1>2 DEF OrderInv, KnownInv, Behind
<1>6. \A t \in tags : Behind(j, t) => Less(t.version, plan.version)
  BY <1>1, <1>4, <1>5, PlanIsLater
<1> HIDE DEF plan
<1>7. /\ clone.step = "changelog" /\ clone.plan = plan
      /\ clone.head = job[j].head /\ clone.tags = job[j].tags
  BY <1>1 DEF CloneType
<1>8. job' = [job EXCEPT ![j] = clone]
  BY <1>1, <1>2
<1> HIDE DEF clone
<1>9. job'[j] = clone
  BY <1>1, <1>8
<1>10. \A t : Behind(j, t)' <=> Behind(j, t)
  BY <1>2, <1>7, <1>9 DEF Behind, Reach
<1>11. clone.step \notin Ahead /\ clone.step # "off"
  BY <1>7 DEF Ahead
<1>12. \A c \in Ids : made'[c] = made[c]
  BY <1>2
<1>13. clone.tags \subseteq tags \cup Own(j)'
  BY <1>3, <1>7
<1>14. \A t \in tags : Behind(j, t)' => t \in clone.tags /\ Less(t.version, clone.plan.version)
  BY <1>5, <1>6, <1>7, <1>10
<1> QED
  BY <1>2, <1>7, <1>8, <1>11, <1>12, <1>13, <1>14, OrderClone

LEMMA OrderCommitRelease ==
  ASSUME ReleaseInv, OrderInv, NEW j \in Jobs, CommitRelease(j)
  PROVE  OrderInv'
<1> DEFINE new == NewCommit({job[j].head}, "patch", job[j].tree, "release")
           clone == [job[j] EXCEPT !.step = "tag", !.head = Len(made) + 1]
<1>1. job[j] \in CloneType /\ job \in [Jobs -> CloneType]
  BY OrderTypes
<1>2. /\ Len(made) \in Nat /\ Ids = 1..Len(made) /\ \A t \in tags : t.commit \in Ids
      /\ made \in Seq(CommitType)
  BY OrderTypes DEF ReleaseInv, ReleaseTypeOK
<1>3. /\ job[j].step = "commit" /\ made' = Append(made, new) /\ UNCHANGED tags
      /\ job' = [job EXCEPT ![j].step = "tag", ![j].head = Len(made) + 1]
  BY DEF CommitRelease
<1>4. new.reach = {Len(made) + 1} \cup Reach(job[j].head)
  BY DEF NewCommit
<1> HIDE DEF new
<1>5. (\A c \in Ids : made'[c] = made[c]) /\ made'[Len(made) + 1] = new
  BY <1>2, <1>3
<1>6. clone.step = "tag" /\ clone.head = Len(made) + 1 /\ clone.tags = job[j].tags
      /\ clone.plan = job[j].plan
  BY <1>1 DEF CloneType
<1>7. job' = [job EXCEPT ![j] = clone]
  BY <1>1, <1>3
<1> HIDE DEF clone
<1>8. job'[j] = clone
  BY <1>1, <1>7
<1>9. clone.head \notin Ids
  BY <1>2, <1>6
<1>10. \A t \in tags : Behind(j, t)' => Behind(j, t)
  BY <1>2, <1>3, <1>4, <1>5, <1>6, <1>8, <1>9 DEF Behind, Reach
<1>11. job[j].step \in AtWork /\ job[j].step # "off" /\ Own(j) = {}
  BY <1>3 DEF AtWork, Steps, Own
<1>12. \A i \in Jobs \ {j} : job[i].step \notin AtWork
  BY <1>11 DEF OrderInv, AloneInv
<1>13. clone.tags \subseteq tags \cup Own(j)'
  BY <1>6, <1>11 DEF OrderInv, KnownInv
<1>14. \A t \in tags : Behind(j, t)' => t \in clone.tags /\ Less(t.version, clone.plan.version)
  BY <1>6, <1>10, <1>11 DEF OrderInv, KnownInv, LaterInv
<1> QED
  BY <1>3, <1>5, <1>7, <1>9, <1>11, <1>12, <1>13, <1>14, OrderClone

LEMMA OrderTagRelease ==
  ASSUME ReleaseInv, OrderInv, NEW j \in Jobs, TagRelease(j)
  PROVE  OrderInv'
<1> DEFINE clone == [job[j] EXCEPT !.step = "pushMain", !.tags = @ \cup {OwnTag(j)}]
<1>1. job[j] \in CloneType /\ job \in [Jobs -> CloneType]
  BY OrderTypes
<1>2. /\ job[j].step = "tag" /\ UNCHANGED <<made, tags>>
      /\ job' = [job EXCEPT ![j].step = "pushMain", ![j].tags = @ \cup {OwnTag(j)}]
  BY DEF TagRelease, OwnTag
<1>3. clone.step = "pushMain" /\ clone.head = job[j].head /\ clone.plan = job[j].plan
      /\ clone.tags = job[j].tags \cup {OwnTag(j)}
  BY <1>1 DEF CloneType
<1>4. job' = [job EXCEPT ![j] = clone]
  BY <1>1, <1>2
<1> HIDE DEF clone
<1>5. job'[j] = clone
  BY <1>1, <1>4
<1>6. \A t : Behind(j, t)' <=> Behind(j, t)
  BY <1>2, <1>3, <1>5 DEF Behind, Reach
<1>7. job[j].step \in AtWork /\ job[j].step \in Ahead /\ job[j].step # "off" /\ Own(j) = {}
  BY <1>2 DEF AtWork, Steps, Own, Ahead
<1>8. Own(j)' = {OwnTag(j)}
  BY <1>3, <1>5 DEF Own, OwnTag
<1>9. clone.tags \subseteq tags \cup Own(j)'
  BY <1>3, <1>7, <1>8 DEF OrderInv, KnownInv
<1>10. \A t \in tags : Behind(j, t)' => t \in clone.tags /\ Less(t.version, clone.plan.version)
  BY <1>3, <1>6, <1>7 DEF OrderInv, KnownInv, LaterInv
<1>11. \A c \in Ids : made'[c] = made[c]
  BY <1>2
<1> QED
  BY <1>2, <1>3, <1>4, <1>7, <1>9, <1>10, <1>11, OrderClone

\* The files of a clone, and its step up to the commit, matter to no other clone.
LEMMA OrderWrite ==
  ASSUME ReleaseInv, OrderInv, NEW j \in Jobs,
         WriteChangelog(j) \/ UpdateManifest(j) \/ RestoreTree(j)
  PROVE  OrderInv'
<1>1. job[j] \in CloneType /\ job \in [Jobs -> CloneType]
  BY OrderTypes
<1>2. /\ UNCHANGED <<made, tags>> /\ job' = [job EXCEPT ![j] = job'[j]]
      /\ job'[j].head = job[j].head /\ job'[j].tags = job[j].tags
      /\ job'[j].plan = job[j].plan
  BY <1>1 DEF WriteChangelog, UpdateManifest, RestoreTree, CloneType
<1>3. <<job[j].step, job'[j].step>>
        \in {<<"changelog", "manifest">>, <<"manifest", "commit">>, <<"ready", "ready">>}
  BY <1>1 DEF WriteChangelog, UpdateManifest, RestoreTree, CloneType
<1>4. /\ job[j].step # "off" /\ job'[j].step \notin Ahead
      /\ job[j].step \notin {"pushMain", "pushTags"}
      /\ job'[j].step \in AtWork => job[j].step \in AtWork
  BY <1>3 DEF AtWork, Steps, Ahead
<1> QED
  BY <1>2, <1>4, OrderSameHead

LEMMA OrderPushMain ==
  ASSUME ReleaseInv, OrderInv, NEW j \in Jobs, PushMain(j)
  PROVE  OrderInv'
<1> DEFINE clone == [job[j] EXCEPT !.step = "pushTags"]
<1>1. job[j] \in CloneType /\ job \in [Jobs -> CloneType]
  BY OrderTypes
<1>2. job[j].step = "pushMain" /\ UNCHANGED <<made, tags>>
  BY DEF PushMain
<1>3. CASE mainRef \in Reach(job[j].head)
  <2>1. job' = [job EXCEPT ![j] = clone]
    BY <1>1, <1>3 DEF PushMain
  <2>2. clone.step = "pushTags" /\ clone.head = job[j].head /\ clone.tags = job[j].tags
        /\ clone.plan = job[j].plan
    BY <1>1 DEF CloneType
  <2>3. job[j].step # "off" /\ job[j].step \in AtWork /\ job[j].step \in Ahead
    BY <1>2 DEF AtWork, Steps, Ahead
  <2> HIDE DEF clone
  <2> QED
    BY <1>2, <2>1, <2>2, <2>3, OrderSameHead
<1>4. CASE mainRef \notin Reach(job[j].head)
  BY <1>2, <1>4, OrderDropped DEF PushMain
<1> QED
  BY <1>3, <1>4

LEMMA OrderFail ==
  ASSUME ReleaseInv, OrderInv, NEW j \in Jobs, Fail(j)
  PROVE  OrderInv'
<1> DEFINE clone == [job[j] EXCEPT !.step = "ready", !.plan = NoPlan]
<1>1. job[j] \in CloneType /\ job \in [Jobs -> CloneType]
  BY OrderTypes
<1>2. job[j].step \in AtWork /\ UNCHANGED <<made, tags>>
  BY DEF Fail
<1>3. CASE job[j].step \in {"pushMain", "pushTags"}
  BY <1>2, <1>3, OrderDropped DEF Fail
<1>4. CASE job[j].step \notin {"pushMain", "pushTags"}
  <2>1. job' = [job EXCEPT ![j] = clone]
    BY <1>1, <1>4 DEF Fail
  <2>2. clone.step = "ready" /\ clone.head = job[j].head /\ clone.tags = job[j].tags
    BY <1>1 DEF CloneType
  <2>3. job[j].step # "off" /\ clone.step \notin AtWork /\ clone.step \notin Ahead
    BY <1>2, <2>2 DEF AtWork, Steps, Ahead
  <2> HIDE DEF clone
  <2> QED
    BY <1>2, <1>4, <2>1, <2>2, <2>3, OrderSameHead
<1> QED
  BY <1>3, <1>4

\* What is pushed is the tag of the release under way, and nothing released has its commit.
LEMMA OrderPushTags ==
  ASSUME ReleaseInv, OrderInv, NEW j \in Jobs, PushTags(j)
  PROVE  OrderInv'
<1> DEFINE x == OwnTag(j)
<1>1. job[j] \in CloneType /\ job \in [Jobs -> CloneType] /\ tags \subseteq Tag
  BY OrderTypes
<1>2. /\ job[j].step = "pushTags" /\ UNCHANGED made /\ job' = [job EXCEPT ![j] = NoClone]
      /\ tags \subseteq tags' /\ \A t \in tags' : t \in tags \/ t \in job[j].tags
  BY DEF PushTags
<1>3. /\ job[j].step # "off" /\ job[j].step \in AtWork /\ job[j].step \in Ahead
      /\ Own(j) = {x}
  BY <1>2 DEF AtWork, Steps, Ahead, Own
<1>4. x \in Tag /\ x.version = job[j].plan.version /\ x.commit = job[j].head /\ x.by = "release"
  BY <1>1 DEF OwnTag, Tag, CloneType, Section, Ids
<1> HIDE DEF x
<1>5. tags' = tags \/ tags' = tags \cup {x}
  <2>1. job[j].tags \subseteq tags \cup {x}
    BY <1>3 DEF OrderInv, KnownInv
  <2> QED
    BY <1>2, <2>1
<1>6. CASE tags' = tags
  BY <1>2, <1>6, OrderDropped
<1>7. CASE tags' = tags \cup {x}
  <2>1. Ranked(tags')
    BY <1>1, <1>4, <1>7, RankedOneMore DEF OrderInv
  <2>2. /\ job'[j].step = "off" /\ job'[j].tags = {}
        /\ \A i \in Jobs \ {j} : job'[i] = job[i] /\ job[i].step \notin AtWork
    BY <1>1, <1>2, <1>3 DEF NoClone, OrderInv, AloneInv
  <2>3. \A i \in Jobs : job'[i].step \notin AtWork /\ job'[i].step \notin Ahead
    BY <2>2 DEF AtWork, Ahead, Steps
  <2>4. AloneInv' /\ LaterInv' /\ NewInv'
    BY <2>3 DEF AloneInv, LaterInv, NewInv
  <2>5. KnownInv'
    <3> SUFFICES ASSUME NEW i \in Jobs
                 PROVE  /\ job'[i].tags \subseteq tags' \cup Own(i)'
                        /\ job'[i].step # "off" =>
                             \A t \in tags' : Behind(i, t)' => t \in job'[i].tags
      BY DEF KnownInv
    <3>1. CASE i = j
      BY <2>2, <3>1
    <3>2. CASE i # j
      <4>1. job'[i] = job[i] /\ Own(i)' = Own(i) /\ \A t : Behind(i, t)' <=> Behind(i, t)
        BY <1>2, <2>2, <3>2 DEF Own, OwnTag, Behind, Reach
      <4>2. job[i].step # "off" => ~Behind(i, x)
        BY <1>3, <1>4, <3>2 DEF OrderInv, NewInv, Behind
      <4> QED
        BY <1>7, <4>1, <4>2 DEF OrderInv, KnownInv
    <3> QED
      BY <3>1, <3>2
  <2>6. VersionsIncrease'
    <3> SUFFICES ASSUME NEW t \in Releases', NEW u \in Releases', t # u,
                        t.commit \in Reach(u.commit)'
                 PROVE  Less(t.version, u.version)
      BY DEF VersionsIncrease
    <3>1. /\ t \in Releases \/ t = x
          /\ u \in Releases \/ u = x
          /\ t.by = "release"
          /\ t.commit \in Reach(u.commit)
      BY <1>2, <1>7 DEF Releases, Reach
    <3>2. CASE t \in Releases /\ u \in Releases
      BY <3>1, <3>2 DEF OrderInv, VersionsIncrease
    <3>3. CASE t = x /\ u \in Releases
      BY <1>3, <1>4, <3>1, <3>3 DEF OrderInv, NewInv
    <3>4. CASE t \in Releases /\ u = x
      <4>1. t \in tags /\ Behind(j, t)
        BY <1>4, <3>1, <3>4 DEF Releases, Behind
      <4> QED
        BY <1>3, <1>4, <3>4, <4>1 DEF OrderInv, LaterInv
    <3> QED
      BY <3>1, <3>2, <3>3, <3>4
  <2> QED
    BY <2>1, <2>4, <2>5, <2>6 DEF OrderInv, Ranked
<1> QED
  BY <1>5, <1>6, <1>7

LEMMA OrderStep ==
  ASSUME ReleaseInv, OrderInv, ~Overlap, [ReleaseNext]_releaseVars
  PROVE  OrderInv'
<1>1. CASE UNCHANGED releaseVars
  BY <1>1, OrderKept DEF releaseVars, OrderInv
<1>2. ASSUME NEW j \in Jobs, ReleaseJob(j)
      PROVE  OrderInv'
  BY <1>2, OrderCheckoutMain, OrderStartRelease, OrderWrite, OrderCommitRelease, OrderTagRelease,
     OrderPushMain, OrderPushTags, OrderFail DEF ReleaseJob
<1> QED
  BY <1>1, <1>2, OrderRequest, OrderBaseline DEF ReleaseNext

(***************************************************************************)
(* Where releases do not overlap, along the history of main their versions *)
(* go up: whatever is merged meanwhile, wherever releases fail and are run *)
(* again, and whatever level they are asked for, base_version_for takes a  *)
(* version that no release behind the new one is later than.               *)
(***************************************************************************)
THEOREM VersionsGoUp ==
  ASSUME ~Overlap
  PROVE  ReleaseSpec => []VersionsIncrease
<1>1. ReleaseInit => OrderInv
  BY OrderInit
<1>2. ReleaseInv /\ OrderInv /\ [ReleaseNext]_releaseVars => OrderInv'
  BY OrderStep
<1>3. OrderInv => VersionsIncrease
  BY DEF OrderInv
<1> QED
  BY <1>1, <1>2, <1>3, ReleaseInvariant, PTL DEF ReleaseSpec

-----------------------------------------------------------------------------
(* What tags say: its inductive invariant. *)

TransInv ==
  \A d \in Ids : /\ d \in made[d].reach
                 /\ \A c \in made[d].reach : made[c].reach \subseteq made[d].reach

\* A changelog has a section for each release commit behind it.
ReleasesIn(m, c) == {d \in m[c].reach : m[d].by = "release"}
CountInv == \A c \in Ids : Len(made[c].changelog) = Cardinality(ReleasesIn(made, c))

\* Commit c says that it is of this version.
Tells(m, c, version) ==
  /\ m[c].manifest = version
  /\ m[c].changelog # <<>> /\ Head(m[c].changelog).version = version

\* The files of a clone in which a release is under way are those of its head and what
\* the release has written so far.
TreeFits(m, k) ==
  /\ k.step = "changelog" => k.tree.changelog = m[k.head].changelog
  /\ k.step \in {"manifest", "commit"} => k.tree.changelog = <<k.plan>> \o m[k.head].changelog
  /\ k.step = "commit" => k.tree.manifest = k.plan.version
  /\ k.step \in Ahead => Tells(m, k.head, k.plan.version)

TreeInv ==
  \A j \in Jobs : /\ TreeFits(made, job[j])
                  /\ job[j].step = "pushTags" => job[j].head \in made[mainRef].reach
                  /\ job[j].tags \subseteq tags \cup Own(j)

TaggedInv == \A t \in Releases : t.commit \in made[mainRef].reach /\ Tells(made, t.commit, t.version)

TruthInv == TransInv /\ CountInv /\ TreeInv /\ TaggedInv

LEMMA TruthTypes ==
  ASSUME ReleaseInv
  PROVE  /\ Len(made) \in Nat /\ Ids = 1..Len(made) /\ mainRef \in Ids /\ made \in Seq(CommitType)
         /\ \A c \in Ids : made[c] \in CommitType /\ made[c].reach \subseteq Ids
         /\ \A c \in Ids : made[c].changelog \in Seq(Section)
         /\ job \in [Jobs -> CloneType]
         /\ \A j \in Jobs : job[j].head \in Ids
         /\ \A t \in tags : t.commit \in Ids
<1>1. /\ ReleaseTypeOK /\ Len(made) \in Nat /\ Ids = 1..Len(made) /\ mainRef \in Ids
      /\ made \in Seq(CommitType) /\ job \in [Jobs -> CloneType]
  BY DEF ReleaseInv, ReleaseTypeOK, Ids
<1>2. \A c \in Ids : made[c] \in CommitType
  BY <1>1
<1>3. \A c \in Ids : made[c].reach \subseteq Ids /\ made[c].changelog \in Seq(Section)
  BY <1>2 DEF CommitType
<1>4. \A j \in Jobs : job[j].head \in Ids
  BY <1>1 DEF CloneType
<1> QED
  BY <1>1, <1>2, <1>3, <1>4, OrderTypes

LEMMA TruthInit == ReleaseInit => TruthInv
<1> SUFFICES ASSUME ReleaseInit PROVE TruthInv
  OBVIOUS
<1>1. /\ Ids = {1} /\ made[1].reach = {1} /\ made[1].by = "owner" /\ made[1].changelog = <<>>
      /\ tags = {} /\ \A j \in Jobs : job[j].step = "off" /\ job[j].tags = {}
  BY DEF ReleaseInit, Ids, NoClone
<1>2. TransInv
  BY <1>1 DEF TransInv
<1>3. ReleasesIn(made, 1) = {}
  BY <1>1 DEF ReleasesIn
<1>4. CountInv
  <2>1. Len(made[1].changelog) = 0
    BY <1>1
  <2>2. Cardinality(ReleasesIn(made, 1)) = 0
    BY <1>3, FS_EmptySet
  <2> QED
    BY <1>1, <2>1, <2>2 DEF CountInv
<1>5. TreeInv /\ TaggedInv
  BY <1>1 DEF TreeInv, TreeFits, TaggedInv, Releases, Ahead
<1> QED
  BY <1>2, <1>4, <1>5 DEF TruthInv

\* The commits that exist are as they were.
LEMMA Unmoved ==
  ASSUME ReleaseInv, TruthInv, \A c \in Ids : made'[c] = made[c]
  PROVE  /\ \A c \in Ids : \A version : Tells(made, c, version) => Tells(made', c, version)
         /\ \A j \in Jobs : TreeFits(made', job[j])
         /\ \A c \in Ids : ReleasesIn(made', c) = ReleasesIn(made, c)
<1>1. \A c \in Ids : \A version : Tells(made, c, version) => Tells(made', c, version)
  BY DEF Tells
<1>2. \A j \in Jobs : TreeFits(made', job[j])
  BY <1>1, TruthTypes DEF TruthInv, TreeInv, TreeFits
<1>3. \A c \in Ids : ReleasesIn(made', c) = ReleasesIn(made, c)
  BY TruthTypes DEF ReleasesIn
<1> QED
  BY <1>1, <1>2, <1>3

\* New commits, each on top of one there was, and none a release.
LEMMA TruthMerged ==
  ASSUME ReleaseInv, TruthInv, UNCHANGED <<tags, job>>,
         \A c \in Ids : made'[c] = made[c], mainRef' \in Ids' \ Ids,
         \A d \in Ids' \ Ids :
            /\ d \in made'[d].reach /\ made[mainRef].reach \subseteq made'[d].reach
            /\ made'[d].by # "release" /\ made'[d].changelog = made[mainRef].changelog
            /\ \A c \in made'[d].reach : \/ c \in made[mainRef].reach
                                         \/ c \in Ids' \ Ids /\ made'[c].reach \subseteq made'[d].reach
  PROVE  TruthInv'
<1>1. /\ mainRef \in Ids /\ \A c \in Ids : made[c].reach \subseteq Ids
      /\ \A j \in Jobs : job[j].head \in Ids
      /\ \A t \in tags : t.commit \in Ids
  BY TruthTypes
<1>2. TransInv'
  <2> SUFFICES ASSUME NEW d \in Ids'
               PROVE  /\ d \in made'[d].reach
                      /\ \A c \in made'[d].reach : made'[c].reach \subseteq made'[d].reach
    BY DEF TransInv
  <2>1. CASE d \in Ids
    BY <1>1, <2>1 DEF TruthInv, TransInv
  <2>2. CASE d \notin Ids
    <3>1. \A c \in made[mainRef].reach : made'[c].reach \subseteq made[mainRef].reach
      BY <1>1 DEF TruthInv, TransInv
    <3> QED
      BY <2>2, <3>1
  <2> QED
    BY <2>1, <2>2
<1>3. CountInv'
  <2> SUFFICES ASSUME NEW d \in Ids'
               PROVE  Len(made'[d].changelog) = Cardinality(ReleasesIn(made', d))
    BY DEF CountInv
  <2>1. CASE d \in Ids
    BY <2>1, Unmoved DEF TruthInv, CountInv
  <2>2. CASE d \notin Ids
    <3>1. ReleasesIn(made', d) = ReleasesIn(made, mainRef)
      BY <1>1, <2>2 DEF ReleasesIn
    <3> QED
      BY <1>1, <2>2, <3>1 DEF TruthInv, CountInv
  <2> QED
    BY <2>1, <2>2
<1>4. made[mainRef].reach \subseteq made'[mainRef'].reach
  OBVIOUS
<1>5. TreeInv'
  BY <1>4, Unmoved DEF TruthInv, TreeInv, Own, OwnTag
<1>6. TaggedInv'
  BY <1>1, <1>4, Unmoved DEF TruthInv, TaggedInv, Releases
<1> QED
  BY <1>2, <1>3, <1>5, <1>6 DEF TruthInv

LEMMA TruthRequest ==
  ASSUME ReleaseInv, TruthInv, NEW p \in Prs, PullRequest(p)
  PROVE  TruthInv'
<1>1. /\ mainRef \in Ids /\ Ids = 1..Len(made) /\ Len(made) \in Nat /\ made \in Seq(CommitType)
      /\ \A c \in Ids : made[c].reach \subseteq Ids
  BY TruthTypes
<1>2. CASE SquashMerge(p)
  <2> DEFINE new == NewCommit({mainRef}, pr[p].title, made[mainRef], By(p))
  <2>1. made' = Append(made, new) /\ mainRef' = Len(made) + 1 /\ UNCHANGED <<tags, job>>
    BY <1>2 DEF SquashMerge
  <2>2. /\ new.reach = {Len(made) + 1} \cup made[mainRef].reach
        /\ new.by # "release" /\ new.changelog = made[mainRef].changelog
    BY DEF NewCommit, Reach, By
  <2> HIDE DEF new
  <2>3. /\ Ids' \ Ids = {Len(made) + 1} /\ made'[Len(made) + 1] = new
        /\ \A c \in Ids : made'[c] = made[c]
    BY <1>1, <2>1 DEF Ids
  <2> QED
    BY <2>1, <2>2, <2>3, TruthMerged
<1>3. CASE MergePr(p)
  <2> DEFINE branch == NewCommit({mainRef}, pr[p].kind, made[mainRef], By(p))
             top == [NewCommit({mainRef}, "merge", made[mainRef], By(p))
                       EXCEPT !.reach = @ \cup {Len(made) + 2}]
  <2>1. made' = made \o <<branch, top>> /\ mainRef' = Len(made) + 2 /\ UNCHANGED <<tags, job>>
    BY <1>3 DEF MergePr
  <2>2. /\ branch.reach = {Len(made) + 1} \cup made[mainRef].reach
        /\ branch.by # "release" /\ branch.changelog = made[mainRef].changelog
    BY DEF NewCommit, Reach, By
  <2>3. /\ top.reach = {Len(made) + 1, Len(made) + 2} \cup made[mainRef].reach
        /\ top.by # "release" /\ top.changelog = made[mainRef].changelog
    BY DEF NewCommit, Reach, By
  <2> HIDE DEF branch, top
  <2>4. /\ Ids' \ Ids = {Len(made) + 1, Len(made) + 2}
        /\ made'[Len(made) + 1] = branch /\ made'[Len(made) + 2] = top
        /\ \A c \in Ids : made'[c] = made[c]
    BY <1>1, <2>1 DEF Ids
  <2> QED
    BY <2>1, <2>2, <2>3, <2>4, TruthMerged
<1>4. CASE UNCHANGED <<made, mainRef, tags, job>>
  BY <1>4 DEF TruthInv, TransInv, CountInv, TreeInv, TaggedInv, Releases, Ids, Own, OwnTag
<1> QED
  BY <1>2, <1>3, <1>4 DEF PullRequest, Open, Push, EditTitle, Check

LEMMA TruthBaseline ==
  ASSUME ReleaseInv, TruthInv, CutBaseline
  PROVE  TruthInv'
<1>1. UNCHANGED <<made, mainRef, job>> /\ tags = {} /\ Releases' = {}
  BY DEF CutBaseline, Releases
<1> QED
  BY <1>1 DEF TruthInv, TransInv, CountInv, TreeInv, TaggedInv, Ids, Own, OwnTag

\* A step in a clone that makes no commit and pushes no tag.
LEMMA TruthClone ==
  ASSUME ReleaseInv, TruthInv, NEW j \in Jobs, NEW clone, UNCHANGED <<made, tags>>,
         job' = [job EXCEPT ![j] = clone], TreeFits(made, clone),
         made[mainRef].reach \subseteq made[mainRef'].reach,
         clone.step = "pushTags" => clone.head \in made[mainRef'].reach,
         clone.tags \subseteq tags \cup Own(j)'
  PROVE  TruthInv'
<1>1. job'[j] = clone /\ \A i \in Jobs \ {j} : job'[i] = job[i] /\ Own(i)' = Own(i)
  BY TruthTypes DEF Own, OwnTag
<1>2. TreeInv'
  BY <1>1 DEF TruthInv, TreeInv
<1>3. TaggedInv'
  BY DEF TruthInv, TaggedInv, Releases
<1> QED
  BY <1>2, <1>3 DEF TruthInv, TransInv, CountInv, Ids

\* A clone that is given up, or whose push was rejected.
LEMMA TruthDropped ==
  ASSUME ReleaseInv, TruthInv, NEW j \in Jobs, UNCHANGED <<made, mainRef, tags>>,
         job' = [job EXCEPT ![j] = NoClone]
  PROVE  TruthInv'
<1>1. NoClone.step = "off" /\ NoClone.tags = {} /\ "off" \notin Ahead
  BY DEF NoClone, Ahead
<1> HIDE DEF NoClone
<1>2. TreeFits(made, NoClone)
  BY <1>1 DEF TreeFits
<1>3. made[mainRef].reach \subseteq made[mainRef'].reach
  OBVIOUS
<1> QED
  BY <1>1, <1>2, <1>3, TruthClone

LEMMA TruthCheckoutMain ==
  ASSUME ReleaseInv, TruthInv, NEW j \in Jobs, CheckoutMain(j)
  PROVE  TruthInv'
<1> DEFINE clone == [step |-> "ready", head |-> mainRef, tags |-> tags,
                     tree |-> Committed(mainRef), plan |-> NoPlan]
<1>1. clone.step = "ready" /\ clone.tags = tags /\ "ready" \notin Ahead
  BY DEF Ahead
<1>2. job' = [job EXCEPT ![j] = clone] /\ UNCHANGED <<made, mainRef, tags>>
  BY DEF CheckoutMain
<1> HIDE DEF clone
<1>3. TreeFits(made, clone)
  BY <1>1 DEF TreeFits
<1>4. made[mainRef].reach \subseteq made[mainRef'].reach
  BY <1>2
<1> QED
  BY <1>1, <1>2, <1>3, <1>4, TruthClone

\* A step of a clone that keeps its commit and its tags, while main stays.
LEMMA TruthSameHead ==
  ASSUME ReleaseInv, TruthInv, NEW j \in Jobs, NEW clone, UNCHANGED <<made, mainRef, tags>>,
         job' = [job EXCEPT ![j] = clone],
         clone.tags = job[j].tags, TreeFits(made, clone),
         {job[j].step, clone.step} \cap {"pushMain", "pushTags"} = {}
  PROVE  TruthInv'
<1>1. Own(j) = {} /\ clone.step # "pushTags"
  BY DEF Own
<1>2. clone.tags \subseteq tags \cup Own(j)'
  BY <1>1 DEF TruthInv, TreeInv
<1>3. made[mainRef].reach \subseteq made[mainRef'].reach
  OBVIOUS
<1> QED
  BY <1>1, <1>2, <1>3, TruthClone

LEMMA TruthStartRelease ==
  ASSUME ReleaseInv, TruthInv, NEW j \in Jobs, NEW level \in Levels, StartRelease(j, level)
  PROVE  TruthInv'
<1> DEFINE plan == Plan(job[j].tags, job[j].head, level)
           clone == [job[j] EXCEPT !.step = "changelog", !.plan = plan]
<1>1. job[j] \in CloneType /\ job \in [Jobs -> CloneType]
  BY TruthTypes
<1>2. /\ job[j].step = "ready" /\ job[j].tree.changelog = made[job[j].head].changelog
      /\ job' = [job EXCEPT ![j].step = "changelog", ![j].plan = plan]
      /\ UNCHANGED <<made, mainRef, tags>>
  BY DEF StartRelease, CleanWorktree, Committed
<1> HIDE DEF plan
<1>3. /\ clone.step = "changelog" /\ clone.head = job[j].head /\ clone.tags = job[j].tags
      /\ clone.tree = job[j].tree
  BY <1>1 DEF CloneType
<1>4. job' = [job EXCEPT ![j] = clone]
  BY <1>1, <1>2
<1> HIDE DEF clone
<1>5. TreeFits(made, clone)
  BY <1>2, <1>3 DEF TreeFits, Ahead
<1>6. {job[j].step, clone.step} \cap {"pushMain", "pushTags"} = {}
  BY <1>2, <1>3
<1> QED
  BY <1>2, <1>3, <1>4, <1>5, <1>6, TruthSameHead

LEMMA TruthWriteChangelog ==
  ASSUME ReleaseInv, TruthInv, NEW j \in Jobs, WriteChangelog(j)
  PROVE  TruthInv'
<1> DEFINE text == <<job[j].plan>> \o job[j].tree.changelog
           clone == [job[j] EXCEPT !.step = "manifest", !.tree.changelog = text]
<1>1. job[j] \in CloneType /\ job \in [Jobs -> CloneType] /\ job[j].tree \in Files
  BY TruthTypes DEF CloneType
<1>2. /\ job[j].step = "changelog" /\ UNCHANGED <<made, mainRef, tags>>
      /\ job' = [job EXCEPT ![j].step = "manifest", ![j].tree.changelog = text]
  BY <1>1 DEF WriteChangelog, Rendered, CloneType, Files
<1>3. text = <<job[j].plan>> \o made[job[j].head].changelog
  BY <1>2 DEF TruthInv, TreeInv, TreeFits
<1> HIDE DEF text
<1>4. /\ clone.step = "manifest" /\ clone.head = job[j].head /\ clone.tags = job[j].tags
      /\ clone.plan = job[j].plan /\ clone.tree.changelog = text
  BY <1>1 DEF CloneType, Files
<1>5. job' = [job EXCEPT ![j] = clone]
  BY <1>1, <1>2
<1> HIDE DEF clone
<1>6. TreeFits(made, clone)
  BY <1>3, <1>4 DEF TreeFits, Ahead
<1>7. {job[j].step, clone.step} \cap {"pushMain", "pushTags"} = {}
  BY <1>2, <1>4
<1> QED
  BY <1>2, <1>4, <1>5, <1>6, <1>7, TruthSameHead

LEMMA TruthUpdateManifest ==
  ASSUME ReleaseInv, TruthInv, NEW j \in Jobs, UpdateManifest(j)
  PROVE  TruthInv'
<1> DEFINE clone == [job[j] EXCEPT !.step = "commit", !.tree.manifest = job[j].plan.version]
<1>1. job[j] \in CloneType /\ job \in [Jobs -> CloneType] /\ job[j].tree \in Files
  BY TruthTypes DEF CloneType
<1>2. /\ job[j].step = "manifest" /\ UNCHANGED <<made, mainRef, tags>>
      /\ job' = [job EXCEPT ![j].step = "commit", ![j].tree.manifest = job[j].plan.version]
  BY DEF UpdateManifest
<1>3. job[j].tree.changelog = <<job[j].plan>> \o made[job[j].head].changelog
  BY <1>2 DEF TruthInv, TreeInv, TreeFits
<1>4. /\ clone.step = "commit" /\ clone.head = job[j].head /\ clone.tags = job[j].tags
      /\ clone.plan = job[j].plan /\ clone.tree.changelog = job[j].tree.changelog
      /\ clone.tree.manifest = job[j].plan.version
  BY <1>1 DEF CloneType, Files
<1>5. job' = [job EXCEPT ![j] = clone]
  BY <1>1, <1>2
<1> HIDE DEF clone
<1>6. TreeFits(made, clone)
  BY <1>3, <1>4 DEF TreeFits, Ahead
<1>7. {job[j].step, clone.step} \cap {"pushMain", "pushTags"} = {}
  BY <1>2, <1>4
<1> QED
  BY <1>2, <1>4, <1>5, <1>6, <1>7, TruthSameHead

LEMMA TruthRestoreTree ==
  ASSUME ReleaseInv, TruthInv, NEW j \in Jobs, RestoreTree(j)
  PROVE  TruthInv'
<1> DEFINE clone == [job[j] EXCEPT !.tree = Committed(job[j].head)]
<1>1. job[j] \in CloneType /\ job \in [Jobs -> CloneType]
  BY TruthTypes
<1>2. /\ job[j].step = "ready" /\ UNCHANGED <<made, mainRef, tags>>
      /\ job' = [job EXCEPT ![j].tree = Committed(job[j].head)]
  BY DEF RestoreTree
<1>3. clone.step = "ready" /\ clone.tags = job[j].tags
  BY <1>1, <1>2 DEF CloneType
<1>4. job' = [job EXCEPT ![j] = clone]
  BY <1>1, <1>2
<1> HIDE DEF clone
<1>5. TreeFits(made, clone)
  BY <1>3 DEF TreeFits, Ahead
<1>6. {job[j].step, clone.step} \cap {"pushMain", "pushTags"} = {}
  BY <1>2, <1>3
<1> QED
  BY <1>2, <1>3, <1>4, <1>5, <1>6, TruthSameHead

LEMMA TruthTagRelease ==
  ASSUME ReleaseInv, TruthInv, NEW j \in Jobs, TagRelease(j)
  PROVE  TruthInv'
<1> DEFINE clone == [job[j] EXCEPT !.step = "pushMain", !.tags = @ \cup {OwnTag(j)}]
<1>1. job[j] \in CloneType /\ job \in [Jobs -> CloneType]
  BY TruthTypes
<1>2. /\ job[j].step = "tag" /\ UNCHANGED <<made, mainRef, tags>>
      /\ job' = [job EXCEPT ![j].step = "pushMain", ![j].tags = @ \cup {OwnTag(j)}]
  BY DEF TagRelease, OwnTag
<1>3. clone.step = "pushMain" /\ clone.head = job[j].head /\ clone.plan = job[j].plan
      /\ clone.tags = job[j].tags \cup {OwnTag(j)}
  BY <1>1 DEF CloneType
<1>4. job' = [job EXCEPT ![j] = clone]
  BY <1>1, <1>2
<1> HIDE DEF clone
<1>5. job'[j] = clone
  BY <1>1, <1>4
<1>6. TreeFits(made, clone)
  BY <1>2, <1>3 DEF TruthInv, TreeInv, TreeFits, Ahead
<1>7. Own(j) = {} /\ Own(j)' = {OwnTag(j)}
  BY <1>2, <1>3, <1>5 DEF Own, OwnTag
<1>8. clone.tags \subseteq tags \cup Own(j)'
  BY <1>3, <1>7 DEF TruthInv, TreeInv
<1>9. made[mainRef].reach \subseteq made[mainRef'].reach
  BY <1>2
<1> QED
  BY <1>2, <1>3, <1>4, <1>6, <1>8, <1>9, TruthClone

\* What main reached it reaches still.
LEMMA TruthPushMain ==
  ASSUME ReleaseInv, TruthInv, NEW j \in Jobs, PushMain(j)
  PROVE  TruthInv'
<1> DEFINE clone == [job[j] EXCEPT !.step = "pushTags"]
<1>1. job[j] \in CloneType /\ job \in [Jobs -> CloneType] /\ job[j].head \in Ids
  BY TruthTypes
<1>2. job[j].step = "pushMain" /\ UNCHANGED <<made, tags>>
  BY DEF PushMain
<1>3. CASE mainRef \in Reach(job[j].head)
  <2>1. job' = [job EXCEPT ![j] = clone] /\ mainRef' = job[j].head
    BY <1>1, <1>3 DEF PushMain
  <2>2. clone.step = "pushTags" /\ clone.head = job[j].head /\ clone.tags = job[j].tags
        /\ clone.plan = job[j].plan
    BY <1>1 DEF CloneType
  <2> HIDE DEF clone
  <2>3. job'[j] = clone
    BY <1>1, <2>1
  <2>4. /\ made[mainRef].reach \subseteq made[mainRef'].reach
        /\ clone.head \in made[mainRef'].reach
    BY <1>1, <1>3, <2>1, <2>2 DEF TruthInv, TransInv, Reach
  <2>5. TreeFits(made, clone)
    BY <1>2, <2>2 DEF TruthInv, TreeInv, TreeFits, Ahead
  <2>6. Own(j)' = Own(j)
    BY <1>2, <2>2, <2>3 DEF Own, OwnTag
  <2>7. clone.tags \subseteq tags \cup Own(j)'
    BY <2>2, <2>6 DEF TruthInv, TreeInv
  <2> QED
    BY <1>2, <2>1, <2>4, <2>5, <2>7, TruthClone
<1>4. CASE mainRef \notin Reach(job[j].head)
  BY <1>2, <1>4, TruthDropped DEF PushMain
<1> QED
  BY <1>3, <1>4

LEMMA TruthFail ==
  ASSUME ReleaseInv, TruthInv, NEW j \in Jobs, Fail(j)
  PROVE  TruthInv'
<1> DEFINE clone == [job[j] EXCEPT !.step = "ready", !.plan = NoPlan]
<1>1. job[j] \in CloneType /\ job \in [Jobs -> CloneType]
  BY TruthTypes
<1>2. UNCHANGED <<made, mainRef, tags>>
  BY DEF Fail
<1>3. CASE job[j].step \in {"pushMain", "pushTags"}
  BY <1>2, <1>3, TruthDropped DEF Fail
<1>4. CASE job[j].step \notin {"pushMain", "pushTags"}
  <2>1. job' = [job EXCEPT ![j] = clone]
    BY <1>1, <1>4 DEF Fail
  <2>2. clone.step = "ready" /\ clone.tags = job[j].tags
    BY <1>1 DEF CloneType
  <2> HIDE DEF clone
  <2>3. TreeFits(made, clone)
    BY <2>2 DEF TreeFits, Ahead
  <2>4. {job[j].step, clone.step} \cap {"pushMain", "pushTags"} = {}
    BY <1>4, <2>2
  <2> QED
    BY <1>2, <2>1, <2>2, <2>3, <2>4, TruthSameHead
<1> QED
  BY <1>3, <1>4

\* The release commit says what the release has written, and its changelog has one section
\* more than that of the commit it is made on.
LEMMA TruthCommitRelease ==
  ASSUME ReleaseInv, TruthInv, NEW j \in Jobs, CommitRelease(j)
  PROVE  TruthInv'
<1> DEFINE new == NewCommit({job[j].head}, "patch", job[j].tree, "release")
           n == Len(made) + 1
           head == job[j].head
           plan == job[j].plan
           clone == [job[j] EXCEPT !.step = "tag", !.head = n]
<1>1. job[j] \in CloneType /\ job \in [Jobs -> CloneType] /\ head \in Ids /\ plan \in Section
  BY TruthTypes DEF CloneType
<1>2. /\ Len(made) \in Nat /\ Ids = 1..Len(made) /\ mainRef \in Ids /\ made \in Seq(CommitType)
      /\ \A c \in Ids : made[c].reach \subseteq Ids
      /\ \A t \in tags : t.commit \in Ids
      /\ \A i \in Jobs : job[i].head \in Ids
      /\ made[head].changelog \in Seq(Section)
  BY <1>1, TruthTypes
<1>3. /\ job[j].step = "commit" /\ made' = Append(made, new) /\ UNCHANGED <<mainRef, tags>>
      /\ job' = [job EXCEPT ![j].step = "tag", ![j].head = n]
  BY DEF CommitRelease
<1>4. /\ new.reach = {n} \cup made[head].reach /\ new.by = "release"
      /\ new.changelog = <<plan>> \o made[head].changelog /\ new.manifest = plan.version
  BY <1>3 DEF NewCommit, Reach, TruthInv, TreeInv, TreeFits
<1> HIDE DEF new
<1>5. /\ \A c \in Ids : made'[c] = made[c]
      /\ made'[n] = new /\ Ids' = Ids \cup {n} /\ n \notin Ids
  BY <1>2, <1>3 DEF Ids
<1>6. clone.step = "tag" /\ clone.head = n /\ clone.tags = job[j].tags /\ clone.plan = plan
  BY <1>1 DEF CloneType
<1>7. job' = [job EXCEPT ![j] = clone]
  BY <1>1, <1>3
<1> HIDE DEF clone, n, head, plan
<1>8. job'[j] = clone /\ \A i \in Jobs \ {j} : job'[i] = job[i] /\ Own(i)' = Own(i)
  BY <1>1, <1>7 DEF Own, OwnTag
<1>9. TransInv'
  <2> SUFFICES ASSUME NEW d \in Ids'
               PROVE  /\ d \in made'[d].reach
                      /\ \A c \in made'[d].reach : made'[c].reach \subseteq made'[d].reach
    BY DEF TransInv
  <2>1. CASE d \in Ids
    BY <1>2, <1>5, <2>1 DEF TruthInv, TransInv
  <2>2. CASE d = n
    <3>1. \A c \in made[head].reach : made'[c].reach \subseteq made[head].reach
      BY <1>1, <1>2, <1>5 DEF TruthInv, TransInv
    <3> QED
      BY <1>4, <1>5, <2>2, <3>1
  <2> QED
    BY <1>5, <2>1, <2>2
<1>10. CountInv'
  <2> SUFFICES ASSUME NEW d \in Ids'
               PROVE  Len(made'[d].changelog) = Cardinality(ReleasesIn(made', d))
    BY DEF CountInv
  <2>1. CASE d \in Ids
    BY <1>5, <2>1, Unmoved DEF TruthInv, CountInv
  <2>2. CASE d = n
    <3> DEFINE older == ReleasesIn(made, head)
    <3>1. ReleasesIn(made', n) = older \cup {n} /\ n \notin older
      BY <1>1, <1>2, <1>4, <1>5 DEF ReleasesIn
    <3>2. older \subseteq Ids
      BY <1>1, <1>2 DEF ReleasesIn
    <3>3. IsFiniteSet(older)
      <4>1. IsFiniteSet(1..Len(made))
        BY <1>2, FS_Interval
      <4> QED
        BY <1>2, <3>2, <4>1, FS_Subset
    <3>4. Cardinality(older) = Len(made[head].changelog)
      BY <1>1 DEF TruthInv, CountInv
    <3> HIDE DEF older
    <3>5. Cardinality(older \cup {n}) = Cardinality(older) + 1
      BY <3>1, <3>3, FS_AddElement
    <3>6. Len(<<plan>> \o made[head].changelog) = Len(made[head].changelog) + 1
      BY <1>1, <1>2
    <3> QED
      BY <1>4, <1>5, <2>2, <3>1, <3>4, <3>5, <3>6
  <2> QED
    BY <1>5, <2>1, <2>2
<1>11. TreeInv'
  <2>1. Tells(made', n, plan.version)
    <3>1. new.changelog # <<>> /\ Head(new.changelog) = plan
      BY <1>1, <1>2, <1>4
    <3> QED
      BY <1>4, <1>5, <3>1 DEF Tells
  <2>2. TreeFits(made', clone)
    BY <1>6, <2>1 DEF TreeFits
  <2>3. Own(j) = {} /\ clone.step # "pushTags"
    BY <1>3, <1>6 DEF Own
  <2>4. made'[mainRef'].reach = made[mainRef].reach
    BY <1>2, <1>3, <1>5
  <2>5. clone.tags \subseteq tags \cup Own(j)'
    BY <1>6, <2>3 DEF TruthInv, TreeInv
  <2>6. \A i \in Jobs : TreeFits(made', job[i])
    BY <1>5, Unmoved
  <2> QED
    BY <1>3, <1>8, <2>2, <2>3, <2>4, <2>5, <2>6 DEF TruthInv, TreeInv
<1>12. TaggedInv'
  <2>1. Releases' = Releases /\ made'[mainRef'].reach = made[mainRef].reach
    BY <1>2, <1>3, <1>5 DEF Releases
  <2>2. \A t \in Releases : t.commit \in Ids /\ Tells(made', t.commit, t.version)
    BY <1>2, <1>5, Unmoved DEF TruthInv, TaggedInv, Releases
  <2> QED
    BY <2>1, <2>2 DEF TruthInv, TaggedInv
<1> QED
  BY <1>9, <1>10, <1>11, <1>12 DEF TruthInv

\* What is pushed is the tag of the release under way, whose commit has been pushed to main.
LEMMA TruthPushTags ==
  ASSUME ReleaseInv, TruthInv, NEW j \in Jobs, PushTags(j)
  PROVE  TruthInv'
<1>1. job \in [Jobs -> CloneType]
  BY TruthTypes
<1>2. /\ job[j].step = "pushTags" /\ UNCHANGED <<made, mainRef>>
      /\ job' = [job EXCEPT ![j] = NoClone]
      /\ tags \subseteq tags' /\ \A t \in tags' : t \in tags \/ t \in job[j].tags
  BY DEF PushTags
<1>3. /\ job'[j] = NoClone /\ NoClone.step = "off" /\ NoClone.tags = {} /\ "off" \notin Ahead
      /\ \A i \in Jobs \ {j} : job'[i] = job[i] /\ Own(i)' = Own(i)
  BY <1>1, <1>2 DEF NoClone, Ahead, Own, OwnTag
<1>4. TreeInv'
  <2>1. TreeFits(made, NoClone)
    BY <1>3 DEF TreeFits
  <2> QED
    BY <1>2, <1>3, <2>1 DEF TruthInv, TreeInv
<1>5. TaggedInv'
  <2>1. \A t \in tags' : t \in tags \/ t = OwnTag(j)
    BY <1>2 DEF TruthInv, TreeInv, Own
  <2>2. Tells(made, job[j].head, job[j].plan.version) /\ job[j].head \in made[mainRef].reach
    BY <1>2 DEF TruthInv, TreeInv, TreeFits, Ahead
  <2>3. Tells(made, OwnTag(j).commit, OwnTag(j).version) /\ OwnTag(j).commit \in made[mainRef].reach
    BY <2>2 DEF OwnTag
  <2>4. \A t \in Releases' : t \in Releases \/ t = OwnTag(j)
    BY <2>1 DEF Releases
  <2> QED
    BY <1>2, <2>3, <2>4 DEF TruthInv, TaggedInv, Tells
<1> QED
  BY <1>2, <1>4, <1>5 DEF TruthInv, TransInv, CountInv, Ids

LEMMA TruthStep ==
  ASSUME ReleaseInv, TruthInv, [ReleaseNext]_releaseVars
  PROVE  TruthInv'
<1>1. CASE UNCHANGED releaseVars
  BY <1>1 DEF releaseVars, TruthInv, TransInv, CountInv, TreeInv, TaggedInv, Releases, Ids, Own,
              OwnTag
<1>2. ASSUME NEW j \in Jobs, ReleaseJob(j)
      PROVE  TruthInv'
  BY <1>2, TruthCheckoutMain, TruthStartRelease, TruthWriteChangelog, TruthUpdateManifest,
     TruthCommitRelease, TruthTagRelease, TruthPushMain, TruthPushTags, TruthFail,
     TruthRestoreTree DEF ReleaseJob
<1> QED
  BY <1>1, <1>2, TruthRequest, TruthBaseline DEF ReleaseNext

(***************************************************************************)
(* A tag of a release is on main and its commit says so: the manifest has  *)
(* the tag's version, it heads the changelog, and there is a section for   *)
(* each release commit behind it, whatever overlaps, fails and is run      *)
(* again: the order of writes and pushes in release --execute.             *)
(***************************************************************************)
THEOREM TagsAreTrue == ReleaseSpec => []TagsTellTheTruth
<1>1. ReleaseInit => TruthInv
  BY TruthInit
<1>2. ReleaseInv /\ TruthInv /\ [ReleaseNext]_releaseVars => TruthInv'
  BY TruthStep
<1>3. ReleaseInv /\ TruthInv => TagsTellTheTruth
  <2> SUFFICES ASSUME ReleaseInv, TruthInv, NEW t \in Releases
               PROVE  /\ t.commit \in Reach(mainRef)
                      /\ made[t.commit].manifest = t.version
                      /\ made[t.commit].changelog # <<>>
                      /\ Head(made[t.commit].changelog).version = t.version
                      /\ Len(made[t.commit].changelog)
                           = Cardinality({d \in made[t.commit].reach : made[d].by = "release"})
    BY DEF TagsTellTheTruth
  <2>1. t.commit \in Ids
    BY TruthTypes DEF Releases
  <2>2. t.commit \in Reach(mainRef) /\ Tells(made, t.commit, t.version)
    BY DEF TruthInv, TaggedInv, Reach
  <2> QED
    BY <2>1, <2>2 DEF Tells, TruthInv, CountInv, ReleasesIn
<1> QED
  BY <1>1, <1>2, <1>3, ReleaseInvariant, PTL DEF ReleaseSpec

-----------------------------------------------------------------------------
(* What releases list: its inductive invariant. *)

\* What a release of commit c has to list, or an earlier one has listed.
Due(m, c) == {d \in m[c].reach : m[d].kind # "merge" /\ m[d].by # "release"}

EntriesOf(m, c) == Head(m[c].changelog).entries

Owners == {b \in tags : b.by = "owner"}

ChainInv ==
  \A t, u \in Releases : \/ t.commit \in made[u.commit].reach
                         \/ u.commit \in made[t.commit].reach

EntriesInv == \A t \in Releases : EntriesOf(made, t.commit) \subseteq made[t.commit].reach

\* A release that is not later than the owner's tag has nothing that is not behind it.
BaseInv ==
  \A b \in Owners :
    /\ b.commit \in made[mainRef].reach
    /\ \A t \in Releases : \/ Less(b.version, t.version)
                           \/ Due(made, t.commit) \subseteq made[b.commit].reach

\* What a clone has to release comes from main, and it knows the owner's tag, unless that
\* was cut on a commit with all of it behind.
HeadFits(m, ref, ts, k) == k.step # "off" =>
  /\ Due(m, k.head) \subseteq m[ref].reach
  /\ \A b \in ts : b.by = "owner" => \/ b \in k.tags /\ b.commit \in m[k.head].reach
                                     \/ Due(m, k.head) \subseteq m[b.commit].reach

\* The plan of a release under way lists what no tag has behind it, and nothing that a
\* release in its history has.
PlanFits(m, ts, k) == k.step \in AtWork =>
  /\ k.plan.entries \subseteq m[k.head].reach
  /\ \A c \in Due(m, k.head) \ k.plan.entries : \E t \in ts : c \in m[t.commit].reach
  /\ \A t \in ts : t.by = "release" /\ t.commit \in m[k.head].reach =>
       \A c \in k.plan.entries : c \notin Due(m, t.commit)
  /\ \A b \in ts : b.by = "owner" => \/ Less(b.version, k.plan.version)
                                     \/ Due(m, k.head) \subseteq m[b.commit].reach
  /\ k.step \in Ahead => EntriesOf(m, k.head) = k.plan.entries
  /\ k.step = "pushTags" => \A t \in ts : t.by = "release" => t.commit \in m[k.head].reach

ClonesInv == \A j \in Jobs : HeadFits(made, mainRef, tags, job[j]) /\ PlanFits(made, tags, job[j])

ListedInv ==
  \A t \in Releases : \A c \in Due(made, t.commit) :
    \/ \E b \in Owners : c \in made[b.commit].reach
    \/ \E u \in Releases : /\ c \in EntriesOf(made, u.commit)
                           /\ \A w \in Releases : c \in EntriesOf(made, w.commit) => w = u

OnceInv == ChainInv /\ EntriesInv /\ BaseInv /\ ClonesInv /\ ListedInv

LEMMA OnceTypes ==
  ASSUME ReleaseInv, TruthInv
  PROVE  /\ mainRef \in Ids
         /\ \A c \in Ids : Reach(c) = made[c].reach /\ made[c].reach \subseteq Ids /\ c \in made[c].reach
         /\ \A d \in Ids : \A c \in made[d].reach : made[c].reach \subseteq made[d].reach
         /\ \A j \in Jobs : job[j].head \in Ids /\ job[j].tags \subseteq Tag
         /\ tags \subseteq Tag
         /\ \A t \in tags : t.commit \in Ids /\ t.by \in {"owner", "release"}
                         /\ t.version \in Version
         /\ job \in [Jobs -> CloneType]
<1>1. \A t \in tags : t.by \in {"owner", "release"} /\ t.version \in Version
  BY DEF ReleaseInv, ReleaseTypeOK
<1> QED
  BY <1>1, OrderTypes, TruthTypes DEF TruthInv, TransInv, Reach

LEMMA OnceInit == ReleaseInit => OnceInv
<1> SUFFICES ASSUME ReleaseInit PROVE OnceInv
  OBVIOUS
<1>1. tags = {} /\ \A j \in Jobs : job[j].step = "off"
  BY DEF ReleaseInit, NoClone
<1>2. "off" \notin AtWork
  BY DEF AtWork
<1> QED
  BY <1>1, <1>2 DEF OnceInv, ChainInv, EntriesInv, BaseInv, ClonesInv, ListedInv, Releases, Owners,
                    HeadFits, PlanFits

\* Commits that were made stay as they are.
LEMMA DueKept ==
  ASSUME ReleaseInv, TruthInv, \A c \in Ids : made'[c] = made[c]
  PROVE  \A c \in Ids : /\ Due(made', c) = Due(made, c)
                       /\ EntriesOf(made', c) = EntriesOf(made, c)
<1> QED
  BY OnceTypes DEF Due, EntriesOf

\* Main only grows, no tag is added, and what changes in a clone keeps to the plan.
LEMMA OnceKept ==
  ASSUME ReleaseInv, TruthInv, OnceInv, UNCHANGED tags,
         \A c \in Ids : made'[c] = made[c],
         made[mainRef].reach \subseteq made'[mainRef'].reach,
         \A i \in Jobs : \/ job'[i] = job[i]
                        \/ /\ HeadFits(made', mainRef', tags, job'[i])
                           /\ PlanFits(made', tags, job'[i])
  PROVE  OnceInv'
<1>1. Releases' = Releases /\ Owners' = Owners
  BY DEF Releases, Owners
<1>2. \A t \in Releases \cup Owners : t.commit \in Ids
  BY OnceTypes DEF Releases, Owners
<1>3. ChainInv' /\ EntriesInv'
  BY <1>1, <1>2, DueKept DEF OnceInv, ChainInv, EntriesInv
<1>4. BaseInv'
  BY <1>1, <1>2, DueKept DEF OnceInv, BaseInv
<1>5. ListedInv'
  BY <1>1, <1>2, DueKept DEF OnceInv, ListedInv
<1>6. ClonesInv'
  <2> SUFFICES ASSUME NEW i \in Jobs, job'[i] = job[i]
               PROVE  HeadFits(made', mainRef', tags, job[i]) /\ PlanFits(made', tags, job[i])
    BY DEF ClonesInv
  <2>1. job[i].head \in Ids /\ \A t \in tags : t.commit \in Ids
    BY OnceTypes
  <2>2. HeadFits(made, mainRef, tags, job[i]) /\ PlanFits(made, tags, job[i])
    BY DEF OnceInv, ClonesInv
  <2>3. HeadFits(made', mainRef', tags, job[i])
    BY <2>1, <2>2, DueKept DEF HeadFits
  <2>4. PlanFits(made', tags, job[i])
    BY <2>1, <2>2, DueKept DEF PlanFits
  <2> QED
    BY <2>3, <2>4
<1> QED
  BY <1>3, <1>4, <1>5, <1>6 DEF OnceInv

LEMMA OnceRequest ==
  ASSUME ReleaseInv, TruthInv, OnceInv, NEW p \in Prs, PullRequest(p)
  PROVE  OnceInv'
<1>1. /\ mainRef \in Ids /\ Ids = 1..Len(made) /\ Len(made) \in Nat /\ made \in Seq(CommitType)
  BY TruthTypes
<1>2. CASE SquashMerge(p)
  <2> DEFINE new == NewCommit({mainRef}, pr[p].title, made[mainRef], By(p))
  <2>1. made' = Append(made, new) /\ mainRef' = Len(made) + 1 /\ UNCHANGED <<tags, job>>
    BY <1>2 DEF SquashMerge
  <2>2. made[mainRef].reach \subseteq new.reach
    BY DEF NewCommit, Reach
  <2> HIDE DEF new
  <2>3. made'[Len(made) + 1] = new /\ \A c \in Ids : made'[c] = made[c]
    BY <1>1, <2>1
  <2> QED
    BY <2>1, <2>2, <2>3, OnceKept
<1>3. CASE MergePr(p)
  <2> DEFINE branch == NewCommit({mainRef}, pr[p].kind, made[mainRef], By(p))
             top == [NewCommit({mainRef}, "merge", made[mainRef], By(p))
                       EXCEPT !.reach = @ \cup {Len(made) + 2}]
  <2>1. made' = made \o <<branch, top>> /\ mainRef' = Len(made) + 2 /\ UNCHANGED <<tags, job>>
    BY <1>3 DEF MergePr
  <2>2. made[mainRef].reach \subseteq top.reach
    BY DEF NewCommit, Reach
  <2> HIDE DEF branch, top
  <2>3. made'[Len(made) + 2] = top /\ \A c \in Ids : made'[c] = made[c]
    BY <1>1, <2>1
  <2> QED
    BY <2>1, <2>2, <2>3, OnceKept
<1>4. CASE UNCHANGED <<made, mainRef, tags, job>>
  BY <1>4, OnceKept
<1> QED
  BY <1>2, <1>3, <1>4 DEF PullRequest, Open, Push, EditTitle, Check

\* Nothing is released yet, and every clone is of a commit that the tag has behind it.
LEMMA OnceBaseline ==
  ASSUME ReleaseInv, TruthInv, OnceInv, CutBaseline
  PROVE  OnceInv'
<1> DEFINE x == [version |-> <<0, 1, 0>>, commit |-> mainRef, by |-> "owner"]
<1>1. tags = {} /\ tags' = {x} /\ UNCHANGED <<made, mainRef, job>>
  BY DEF CutBaseline
<1>2. x.commit = mainRef /\ x.by = "owner"
  OBVIOUS
<1> HIDE DEF x
<1>3. Releases' = {} /\ Owners' = {x}
  BY <1>1, <1>2 DEF Releases, Owners
<1>4. ChainInv' /\ EntriesInv' /\ ListedInv'
  BY <1>3 DEF ChainInv, EntriesInv, ListedInv
<1>5. BaseInv'
  BY <1>1, <1>2, <1>3, OnceTypes DEF BaseInv
<1>6. ClonesInv'
  <2> SUFFICES ASSUME NEW i \in Jobs
               PROVE  HeadFits(made, mainRef, {x}, job[i]) /\ PlanFits(made, {x}, job[i])
    BY <1>1 DEF ClonesInv
  <2>1. HeadFits(made, mainRef, {}, job[i]) /\ PlanFits(made, {}, job[i])
    BY <1>1 DEF OnceInv, ClonesInv
  <2>2. HeadFits(made, mainRef, {x}, job[i])
    BY <1>2, <2>1 DEF HeadFits
  <2>3. job[i].step \in AtWork => job[i].step # "off"
    BY DEF AtWork
  <2>4. PlanFits(made, {x}, job[i])
    BY <1>2, <2>1, <2>3 DEF HeadFits, PlanFits
  <2> QED
    BY <2>2, <2>4
<1> QED
  BY <1>4, <1>5, <1>6 DEF OnceInv

\* A clone that is given up, or whose push was rejected.
LEMMA OnceDropped ==
  ASSUME ReleaseInv, TruthInv, OnceInv, NEW j \in Jobs, UNCHANGED <<made, mainRef, tags>>,
         job' = [job EXCEPT ![j] = NoClone]
  PROVE  OnceInv'
<1>1. NoClone.step = "off" /\ "off" \notin AtWork
  BY DEF NoClone, AtWork
<1> HIDE DEF NoClone
<1>2. job'[j] = NoClone /\ \A i \in Jobs \ {j} : job'[i] = job[i]
  BY OnceTypes
<1>3. HeadFits(made', mainRef', tags, NoClone) /\ PlanFits(made', tags, NoClone)
  BY <1>1 DEF HeadFits, PlanFits
<1> QED
  BY <1>2, <1>3, OnceKept

LEMMA OnceCheckoutMain ==
  ASSUME ReleaseInv, TruthInv, OnceInv, NEW j \in Jobs, CheckoutMain(j)
  PROVE  OnceInv'
<1> DEFINE clone == [step |-> "ready", head |-> mainRef, tags |-> tags,
                     tree |-> Committed(mainRef), plan |-> NoPlan]
<1>1. /\ clone.step = "ready" /\ clone.tags = tags /\ clone.head = mainRef
      /\ "ready" \notin AtWork
  BY DEF AtWork
<1>2. job' = [job EXCEPT ![j] = clone] /\ UNCHANGED <<made, mainRef, tags>>
  BY DEF CheckoutMain
<1> HIDE DEF clone
<1>3. job'[j] = clone /\ \A i \in Jobs \ {j} : job'[i] = job[i]
  BY <1>2, OnceTypes
<1>4. HeadFits(made, mainRef, tags, clone)
  BY <1>1 DEF HeadFits, Due, OnceInv, BaseInv, Owners
<1>5. PlanFits(made, tags, clone)
  BY <1>1 DEF PlanFits
<1> QED
  BY <1>2, <1>3, <1>4, <1>5, OnceKept

\* A step of a clone that keeps its commit and has its tags still.
LEMMA OnceSameHead ==
  ASSUME ReleaseInv, TruthInv, OnceInv, NEW j \in Jobs, NEW clone,
         UNCHANGED <<made, mainRef, tags>>, job' = [job EXCEPT ![j] = clone],
         job[j].step # "off", clone.head = job[j].head, job[j].tags \subseteq clone.tags,
         clone.step \in AtWork =>
           /\ job[j].step \in AtWork /\ clone.plan = job[j].plan /\ clone.step # "pushTags"
           /\ clone.step \in Ahead => job[j].step \in Ahead
  PROVE  OnceInv'
<1>1. job'[j] = clone /\ \A i \in Jobs \ {j} : job'[i] = job[i]
  BY OnceTypes
<1>2. HeadFits(made, mainRef, tags, job[j]) /\ PlanFits(made, tags, job[j])
  BY DEF OnceInv, ClonesInv
<1>3. HeadFits(made, mainRef, tags, clone)
  BY <1>2 DEF HeadFits
<1>4. PlanFits(made, tags, clone)
  BY <1>2 DEF PlanFits
<1>5. UNCHANGED <<made, mainRef, tags>>
  OBVIOUS
<1>6. \A i \in Jobs : \/ job'[i] = job[i]
                     \/ /\ HeadFits(made', mainRef', tags, job'[i])
                        /\ PlanFits(made', tags, job'[i])
  BY <1>1, <1>3, <1>4, <1>5
<1> QED
  BY <1>5, <1>6, OnceKept

LEMMA OnceWrite ==
  ASSUME ReleaseInv, TruthInv, OnceInv, NEW j \in Jobs,
         WriteChangelog(j) \/ UpdateManifest(j) \/ RestoreTree(j)
  PROVE  OnceInv'
<1>1. job[j] \in CloneType /\ job \in [Jobs -> CloneType]
  BY OrderTypes
<1>2. /\ UNCHANGED <<made, mainRef, tags>> /\ job' = [job EXCEPT ![j] = job'[j]]
      /\ job'[j].head = job[j].head /\ job'[j].tags = job[j].tags
      /\ job'[j].plan = job[j].plan
  BY <1>1 DEF WriteChangelog, UpdateManifest, RestoreTree, CloneType
<1>3. <<job[j].step, job'[j].step>>
        \in {<<"changelog", "manifest">>, <<"manifest", "commit">>, <<"ready", "ready">>}
  BY <1>1 DEF WriteChangelog, UpdateManifest, RestoreTree, CloneType
<1>4. /\ job[j].step # "off" /\ job'[j].step \notin Ahead /\ job'[j].step # "pushTags"
      /\ job'[j].step \in AtWork => job[j].step \in AtWork
  BY <1>3 DEF AtWork, Steps, Ahead
<1> QED
  BY <1>2, <1>4, OnceSameHead

LEMMA OnceTagRelease ==
  ASSUME ReleaseInv, TruthInv, OnceInv, NEW j \in Jobs, TagRelease(j)
  PROVE  OnceInv'
<1> DEFINE clone == [job[j] EXCEPT !.step = "pushMain", !.tags = @ \cup {OwnTag(j)}]
<1>1. job[j] \in CloneType /\ job \in [Jobs -> CloneType]
  BY OrderTypes
<1>2. /\ job[j].step = "tag" /\ UNCHANGED <<made, mainRef, tags>>
      /\ job' = [job EXCEPT ![j].step = "pushMain", ![j].tags = @ \cup {OwnTag(j)}]
  BY DEF TagRelease, OwnTag
<1>3. clone.step = "pushMain" /\ clone.head = job[j].head /\ clone.plan = job[j].plan
      /\ job[j].tags \subseteq clone.tags
  BY <1>1 DEF CloneType
<1>4. job' = [job EXCEPT ![j] = clone]
  BY <1>1, <1>2
<1> HIDE DEF clone
<1>5. job[j].step \in AtWork /\ job[j].step \in Ahead /\ job[j].step # "off"
  BY <1>2 DEF AtWork, Steps, Ahead
<1> QED
  BY <1>2, <1>3, <1>4, <1>5, OnceSameHead

LEMMA OnceFail ==
  ASSUME ReleaseInv, TruthInv, OnceInv, NEW j \in Jobs, Fail(j)
  PROVE  OnceInv'
<1> DEFINE clone == [job[j] EXCEPT !.step = "ready", !.plan = NoPlan]
<1>1. job[j] \in CloneType /\ job \in [Jobs -> CloneType]
  BY OrderTypes
<1>2. job[j].step \in AtWork /\ UNCHANGED <<made, mainRef, tags>>
  BY DEF Fail
<1>3. CASE job[j].step \in {"pushMain", "pushTags"}
  BY <1>2, <1>3, OnceDropped DEF Fail
<1>4. CASE job[j].step \notin {"pushMain", "pushTags"}
  <2>1. job' = [job EXCEPT ![j] = clone]
    BY <1>1, <1>4 DEF Fail
  <2>2. clone.step = "ready" /\ clone.head = job[j].head /\ clone.tags = job[j].tags
    BY <1>1 DEF CloneType
  <2>3. job[j].step # "off" /\ clone.step \notin AtWork
    BY <1>2, <2>2 DEF AtWork
  <2> HIDE DEF clone
  <2> QED
    BY <1>2, <2>1, <2>2, <2>3, OnceSameHead
<1> QED
  BY <1>3, <1>4

\* The base is the latest tag in the history: no release in it has anything that the base
\* has not.
LEMMA BaseHasAll ==
  ASSUME ReleaseInv, OrderInv, TruthInv, OnceInv, NEW j \in Jobs, job[j].tags \subseteq tags,
         NEW b \in LatestTag(job[j].tags, job[j].head),
         NEW t \in job[j].tags, t.by = "release", t.commit \in Reach(job[j].head)
  PROVE  Due(made, t.commit) \subseteq made[b.commit].reach
<1>1. b \in tags /\ ~Less(b.version, t.version)
  BY DEF LatestTag, Merged
<1>2. t \in Releases /\ t.commit \in Ids /\ b.commit \in Ids
  BY <1>1, OnceTypes DEF Releases
<1>3. CASE b.by = "owner"
  BY <1>1, <1>2, <1>3 DEF OnceInv, BaseInv, Owners
<1>4. CASE b.by = "release"
  <2>1. b \in Releases
    BY <1>1, <1>4 DEF Releases
  <2>2. b = t \/ t.commit \in made[b.commit].reach
    <3>1. t.commit \in made[b.commit].reach \/ b.commit \in made[t.commit].reach
      BY <1>2, <2>1 DEF OnceInv, ChainInv
    <3>2. b # t /\ b.commit \in Reach(t.commit) => Less(b.version, t.version)
      BY <1>2, <2>1 DEF OrderInv, VersionsIncrease
    <3> QED
      BY <1>1, <1>2, <3>1, <3>2, OnceTypes
  <2>3. made[t.commit].reach \subseteq made[b.commit].reach
    BY <1>2, <2>2, OnceTypes
  <2> QED
    BY <2>3 DEF Due
<1> QED
  BY <1>1, <1>3, <1>4, OnceTypes

\* A plan lists what is behind the head and not behind the base.
LEMMA OnceStartRelease ==
  ASSUME ReleaseInv, OrderInv, TruthInv, OnceInv, NEW j \in Jobs, NEW level \in Levels,
         StartRelease(j, level)
  PROVE  OnceInv'
<1> DEFINE plan == Plan(job[j].tags, job[j].head, level)
           from == LatestTag(job[j].tags, job[j].head)
           head == job[j].head
           clone == [job[j] EXCEPT !.step = "changelog", !.plan = plan]
<1>1. job[j] \in CloneType /\ job \in [Jobs -> CloneType] /\ head \in Ids
  BY OnceTypes
<1>2. /\ job[j].step = "ready"
      /\ job' = [job EXCEPT ![j].step = "changelog", ![j].plan = plan]
      /\ UNCHANGED <<made, mainRef, tags>>
  BY DEF StartRelease
<1>3. job[j].tags \subseteq tags
  BY <1>2 DEF Own, OrderInv, KnownInv
<1>4. from \subseteq job[j].tags /\ Reach(head) = made[head].reach
      /\ \A t \in tags : Reach(t.commit) = made[t.commit].reach
  BY <1>1, OnceTypes DEF LatestTag, Merged
<1>5. plan.entries = {c \in made[head].reach \ UNION {made[t.commit].reach : t \in from} :
                        made[c].kind # "merge"}
  BY <1>3, <1>4 DEF Plan, Counted, Collected, Reach
<1>6. Ranked(job[j].tags) /\ job[j].tags \subseteq Tag
  BY <1>3, OnceTypes DEF OrderInv, Ranked
<1>7. HeadFits(made, mainRef, tags, job[j])
  BY DEF OnceInv, ClonesInv
<1>8. ASSUME NEW c \in Due(made, head), c \notin plan.entries
      PROVE  \E t \in tags : c \in made[t.commit].reach
  <2>1. c \in made[head].reach /\ made[c].kind # "merge"
    BY DEF Due
  <2>2. PICK t \in from : c \in made[t.commit].reach
    BY <1>5, <1>8, <2>1
  <2> QED
    BY <1>3, <1>4, <2>2
<1>9. ASSUME NEW t \in tags, t.by = "release", t.commit \in made[head].reach,
             NEW c \in plan.entries
      PROVE  c \notin Due(made, t.commit)
  <2>1. t \in job[j].tags /\ t.commit \in Reach(head)
    BY <1>2, <1>4, <1>9 DEF OrderInv, KnownInv, Behind
  <2>2. Merged(job[j].tags, head) \in SUBSET job[j].tags /\ t \in Merged(job[j].tags, head)
    BY <2>1 DEF Merged
  <2>3. PICK b \in from : TRUE
    BY <1>6, <2>2 DEF Ranked, LatestTag
  <2>4. Due(made, t.commit) \subseteq made[b.commit].reach
    BY <1>3, <1>9, <2>1, BaseHasAll
  <2> QED
    BY <1>5, <2>4
<1>10. ASSUME NEW b \in tags, b.by = "owner"
       PROVE  Less(b.version, plan.version) \/ Due(made, head) \subseteq made[b.commit].reach
  <2>1. CASE b \in job[j].tags /\ b.commit \in made[head].reach
    BY <1>4, <1>6, <2>1, PlanIsLater
  <2>2. CASE Due(made, head) \subseteq made[b.commit].reach
    BY <2>2
  <2> QED
    BY <1>2, <1>7, <1>10, <2>1, <2>2 DEF HeadFits
<1>11. plan.entries \subseteq made[head].reach
  BY <1>5
<1> HIDE DEF plan, from
<1>12. /\ clone.step = "changelog" /\ clone.plan = plan /\ clone.head = head
       /\ clone.tags = job[j].tags
  BY <1>1 DEF CloneType
<1>13. job' = [job EXCEPT ![j] = clone]
  BY <1>1, <1>2
<1> HIDE DEF clone, head
<1>14. job'[j] = clone /\ \A i \in Jobs \ {j} : job'[i] = job[i]
  BY <1>1, <1>13
<1>15. HeadFits(made, mainRef, tags, clone)
  BY <1>2, <1>7, <1>12 DEF HeadFits, head
<1>16. PlanFits(made, tags, clone)
  BY <1>8, <1>9, <1>10, <1>11, <1>12 DEF PlanFits, Ahead
<1> QED
  BY <1>2, <1>14, <1>15, <1>16, OnceKept

\* A release commit has nothing to release, and heads its changelog with the plan.
LEMMA OnceCommitRelease ==
  ASSUME ReleaseInv, TruthInv, OnceInv, NEW j \in Jobs, CommitRelease(j)
  PROVE  OnceInv'
<1> DEFINE new == NewCommit({job[j].head}, "patch", job[j].tree, "release")
           n == Len(made) + 1
           head == job[j].head
           plan == job[j].plan
           clone == [job[j] EXCEPT !.step = "tag", !.head = n]
<1>1. job[j] \in CloneType /\ job \in [Jobs -> CloneType] /\ head \in Ids /\ plan \in Section
  BY TruthTypes DEF CloneType
<1>2. /\ Len(made) \in Nat /\ Ids = 1..Len(made) /\ mainRef \in Ids /\ made \in Seq(CommitType)
      /\ made[head].reach \subseteq Ids /\ made[head].changelog \in Seq(Section)
      /\ \A t \in tags : t.commit \in Ids
  BY <1>1, TruthTypes
<1>3. /\ job[j].step = "commit" /\ made' = Append(made, new) /\ UNCHANGED <<mainRef, tags>>
      /\ job' = [job EXCEPT ![j].step = "tag", ![j].head = n]
  BY DEF CommitRelease
<1>4. /\ new.reach = {n} \cup made[head].reach /\ new.by = "release"
      /\ new.changelog = <<plan>> \o made[head].changelog
  BY <1>3 DEF NewCommit, Reach, TruthInv, TreeInv, TreeFits
<1> HIDE DEF new
<1>5. (\A c \in Ids : made'[c] = made[c]) /\ made'[n] = new /\ n \notin Ids
  BY <1>2, <1>3
<1>6. clone.step = "tag" /\ clone.head = n /\ clone.tags = job[j].tags /\ clone.plan = plan
  BY <1>1 DEF CloneType
<1>7. job' = [job EXCEPT ![j] = clone]
  BY <1>1, <1>3
<1> HIDE DEF clone, n, head, plan
<1>8. job'[j] = clone /\ \A i \in Jobs \ {j} : job'[i] = job[i]
  BY <1>1, <1>7
<1>9. Due(made', n) = Due(made, head)
  BY <1>1, <1>2, <1>4, <1>5 DEF Due
<1>10. EntriesOf(made', n) = plan.entries
  <2>1. Head(<<plan>> \o made[head].changelog) = plan
    BY <1>1, <1>2
  <2> QED
    BY <1>4, <1>5, <2>1 DEF EntriesOf
<1>11. /\ made'[n].reach = {n} \cup made[head].reach
       /\ made'[mainRef].reach = made[mainRef].reach
       /\ \A t \in tags : /\ made'[t.commit].reach = made[t.commit].reach
                          /\ Due(made', t.commit) = Due(made, t.commit) /\ t.commit # n
  BY <1>2, <1>4, <1>5, DueKept
<1>12. HeadFits(made, mainRef, tags, job[j]) /\ PlanFits(made, tags, job[j])
  BY DEF OnceInv, ClonesInv
<1>13. HeadFits(made', mainRef, tags, clone)
  BY <1>3, <1>6, <1>9, <1>11, <1>12 DEF HeadFits, head
<1>14. PlanFits(made', tags, clone)
  <2>1. job[j].step \in AtWork
    BY <1>3 DEF AtWork, Steps
  <2> QED
    BY <1>6, <1>9, <1>10, <1>11, <1>12, <2>1 DEF PlanFits, head, plan
<1> QED
  BY <1>3, <1>5, <1>8, <1>11, <1>13, <1>14, OnceKept

\* Every release is on main, and main is behind what is pushed to it.
LEMMA OncePushMain ==
  ASSUME ReleaseInv, TruthInv, OnceInv, NEW j \in Jobs, PushMain(j)
  PROVE  OnceInv'
<1> DEFINE clone == [job[j] EXCEPT !.step = "pushTags"]
<1>1. job[j] \in CloneType /\ job \in [Jobs -> CloneType] /\ job[j].head \in Ids
  BY TruthTypes
<1>2. job[j].step = "pushMain" /\ UNCHANGED <<made, tags>>
  BY DEF PushMain
<1>3. CASE mainRef \in Reach(job[j].head)
  <2>1. job' = [job EXCEPT ![j] = clone] /\ mainRef' = job[j].head
    BY <1>1, <1>3 DEF PushMain
  <2>2. clone.step = "pushTags" /\ clone.head = job[j].head /\ clone.tags = job[j].tags
        /\ clone.plan = job[j].plan
    BY <1>1 DEF CloneType
  <2> HIDE DEF clone
  <2>3. job'[j] = clone /\ \A i \in Jobs \ {j} : job'[i] = job[i]
    BY <1>1, <2>1
  <2>4. made[mainRef].reach \subseteq made[job[j].head].reach
    BY <1>1, <1>3, OnceTypes
  <2>5. \A t \in tags : t.by = "release" => t.commit \in made[job[j].head].reach
    BY <2>4 DEF TruthInv, TaggedInv, Releases
  <2>6. HeadFits(made, mainRef, tags, job[j]) /\ PlanFits(made, tags, job[j])
    BY DEF OnceInv, ClonesInv
  <2>7. HeadFits(made, mainRef', tags, clone)
    BY <1>2, <2>1, <2>2, <2>4, <2>6 DEF HeadFits
  <2>8. job[j].step \in AtWork /\ job[j].step \in Ahead
    BY <1>2 DEF AtWork, Steps, Ahead
  <2>9. PlanFits(made, tags, clone)
    BY <2>2, <2>5, <2>6, <2>8 DEF PlanFits
  <2> QED
    BY <1>2, <2>1, <2>3, <2>4, <2>7, <2>9, OnceKept
<1>4. CASE mainRef \notin Reach(job[j].head)
  BY <1>2, <1>4, OnceDropped DEF PushMain
<1> QED
  BY <1>3, <1>4

\* The new release has all earlier ones behind it and lists what none of them has.
LEMMA OncePushTags ==
  ASSUME ReleaseInv, OrderInv, TruthInv, OnceInv, NEW j \in Jobs, PushTags(j)
  PROVE  OnceInv'
<1> DEFINE x == OwnTag(j)
           head == job[j].head
           entries == job[j].plan.entries
<1>1. job \in [Jobs -> CloneType] /\ head \in Ids
  BY OnceTypes
<1>2. /\ job[j].step = "pushTags" /\ UNCHANGED <<made, mainRef>>
      /\ job' = [job EXCEPT ![j] = NoClone]
      /\ tags \subseteq tags' /\ \A t \in tags' : t \in tags \/ t \in job[j].tags
  BY DEF PushTags
<1>3. job[j].step \in AtWork /\ job[j].step \in Ahead /\ job[j].step # "off" /\ Own(j) = {x}
  BY <1>2 DEF AtWork, Steps, Ahead, Own
<1>4. x.version = job[j].plan.version /\ x.commit = head /\ x.by = "release"
  BY DEF OwnTag
<1> HIDE DEF x
<1>5. tags' = tags \/ tags' = tags \cup {x}
  <2>1. job[j].tags \subseteq tags \cup {x}
    BY <1>3 DEF OrderInv, KnownInv
  <2> QED
    BY <1>2, <2>1
<1>6. CASE tags' = tags
  BY <1>2, <1>6, OnceDropped
<1>7. CASE tags' = tags \cup {x}
  <2>1. Releases' = Releases \cup {x} /\ Owners' = Owners
    BY <1>4, <1>7 DEF Releases, Owners
  <2>2. PlanFits(made, tags, job[j])
    BY DEF OnceInv, ClonesInv
  <2>3. /\ entries \subseteq made[head].reach /\ EntriesOf(made, head) = entries
        /\ \A t \in Releases : t.commit \in made[head].reach
        /\ \A t \in Releases : \A c \in entries : c \notin Due(made, t.commit)
    BY <1>2, <1>3, <2>2 DEF PlanFits, Releases
  <2>4. \A c \in Due(made, head) : c \in entries \/ \E t \in tags : c \in made[t.commit].reach
    BY <1>3, <2>2 DEF PlanFits
  <2>5. \A b \in Owners : \/ Less(b.version, x.version)
                          \/ Due(made, head) \subseteq made[b.commit].reach
    BY <1>3, <1>4, <2>2 DEF PlanFits, Owners
  <2> HIDE DEF entries, head
  <2>6. ChainInv'
    BY <1>1, <1>2, <1>4, <2>1, <2>3, OnceTypes DEF OnceInv, ChainInv
  <2>7. EntriesInv'
    BY <1>2, <1>4, <2>1, <2>3 DEF OnceInv, EntriesInv
  <2>8. BaseInv'
    BY <1>2, <1>4, <2>1, <2>5 DEF OnceInv, BaseInv
  <2>9. ClonesInv'
    <3> SUFFICES ASSUME NEW i \in Jobs
                 PROVE  HeadFits(made, mainRef, tags', job'[i]) /\ PlanFits(made, tags', job'[i])
      BY <1>2 DEF ClonesInv
    <3>1. CASE i = j
      <4>1. job'[i].step = "off" /\ "off" \notin AtWork
        BY <1>1, <1>2, <3>1 DEF NoClone, AtWork
      <4> QED
        BY <4>1 DEF HeadFits, PlanFits
    <3>2. CASE i # j
      <4>1. job'[i] = job[i] /\ job[i].step \notin AtWork
        BY <1>1, <1>2, <1>3, <3>2 DEF OrderInv, AloneInv
      <4>2. HeadFits(made, mainRef, tags, job[i])
        BY DEF OnceInv, ClonesInv
      <4>3. HeadFits(made, mainRef, tags', job[i])
        BY <1>4, <1>7, <4>2 DEF HeadFits
      <4> QED
        BY <4>1, <4>3 DEF PlanFits
    <3> QED
      BY <3>1, <3>2
  <2>10. ListedInv'
    <3>1. \A w \in Releases : \A c \in EntriesOf(made, w.commit) :
            c \in Due(made, head) => c \notin entries
      BY <2>3 DEF Due, OnceInv, EntriesInv
    <3>2. \A t \in Releases : Due(made, t.commit) \subseteq Due(made, head)
      BY <1>1, <2>3, OnceTypes DEF Due
    <3> SUFFICES ASSUME NEW t \in Releases \cup {x}, NEW c \in Due(made, t.commit),
                        \A b \in Owners : c \notin made[b.commit].reach
                 PROVE  \E u \in Releases \cup {x} :
                          /\ c \in EntriesOf(made, u.commit)
                          /\ \A w \in Releases \cup {x} : c \in EntriesOf(made, w.commit) => w = u
      <4>1. made' = made
        BY <1>2
      <4> QED
        BY <2>1, <4>1 DEF ListedInv, Due, EntriesOf
    <3>3. c \in Due(made, head)
      BY <1>4, <3>2
    <3>4. CASE c \in entries
      BY <1>4, <2>3, <3>1, <3>3, <3>4
    <3>5. CASE c \notin entries
      <4>1. PICK r \in tags : c \in made[r.commit].reach
        BY <2>4, <3>3, <3>5
      <4>2. r \in Releases /\ c \in Due(made, r.commit)
        BY <3>3, <4>1, OnceTypes DEF Owners, Releases, Due
      <4>3. PICK u \in Releases : /\ c \in EntriesOf(made, u.commit)
                                  /\ \A w \in Releases : c \in EntriesOf(made, w.commit) => w = u
        BY <4>2 DEF OnceInv, ListedInv
      <4>4. c \notin EntriesOf(made, x.commit)
        BY <1>4, <2>3, <3>5
      <4> QED
        BY <4>3, <4>4
    <3> QED
      BY <3>4, <3>5
  <2> QED
    BY <2>6, <2>7, <2>8, <2>9, <2>10 DEF OnceInv
<1> QED
  BY <1>5, <1>6, <1>7

LEMMA OnceStep ==
  ASSUME ReleaseInv, OrderInv, TruthInv, OnceInv, [ReleaseNext]_releaseVars
  PROVE  OnceInv'
<1>1. CASE UNCHANGED releaseVars
  BY <1>1, OnceKept DEF releaseVars
<1>2. ASSUME NEW j \in Jobs, ReleaseJob(j)
      PROVE  OnceInv'
  BY <1>2, OnceCheckoutMain, OnceStartRelease, OnceWrite, OnceCommitRelease, OnceTagRelease,
     OncePushMain, OncePushTags, OnceFail DEF ReleaseJob
<1> QED
  BY <1>1, <1>2, OnceRequest, OnceBaseline DEF ReleaseNext

(***************************************************************************)
(* Where releases do not overlap, every commit since the baseline that a   *)
(* release has behind it is an entry of exactly one release, whatever is   *)
(* merged meanwhile, wherever releases fail, however old the clones are    *)
(* and whenever the owner cuts the baseline: build_release_plan's range.   *)
(***************************************************************************)
THEOREM CommitsAreReleasedOnce ==
  ASSUME ~Overlap
  PROVE  ReleaseSpec => []ReleasedOnce
<1>1. ReleaseInit => OrderInv /\ TruthInv /\ OnceInv
  BY OrderInit, TruthInit, OnceInit
<1>2. ReleaseInv /\ OrderInv /\ TruthInv /\ OnceInv /\ [ReleaseNext]_releaseVars
        => (OrderInv /\ TruthInv /\ OnceInv)'
  BY OrderStep, TruthStep, OnceStep
<1>3. ReleaseInv /\ TruthInv /\ OnceInv => ReleasedOnce
  <2> SUFFICES ASSUME ReleaseInv, TruthInv, OnceInv, NEW t \in Releases,
                      NEW c \in (Reach(t.commit) \cap Listable) \ Baselined
               PROVE  \E u \in Releases :
                        /\ c \in Entries(u)
                        /\ \A w \in Releases : c \in Entries(w) => w = u
    BY DEF ReleasedOnce
  <2>1. c \in Due(made, t.commit)
    BY DEF Due, Listable, Reach
  <2>2. \A b \in Owners : c \notin made[b.commit].reach
    BY DEF Baselined, Owners, Releases, Reach
  <2>3. \A u \in Releases : Entries(u) = EntriesOf(made, u.commit)
    BY DEF Entries, EntriesOf
  <2> QED
    BY <2>1, <2>2, <2>3 DEF OnceInv, ListedInv
<1> QED
  BY <1>1, <1>2, <1>3, ReleaseInvariant, PTL DEF ReleaseSpec

=============================================================================
