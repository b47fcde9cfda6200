--------------------------- MODULE HarnessUpdate ---------------------------
(***************************************************************************)
(* `just update`, scripts/update.ts over scripts/lib/harness-merge.ts: a   *)
(* fork takes the harness-owned files of new upstream versions by a        *)
(* three-way merge per file against the version it last synced to.  The    *)
(* fork's owner edits, commits, stashes and resolves between the runs, and *)
(* a run may die between any two of its git commands.                      *)
(*                                                                         *)
(* A file is what each of its hunks and its mode say; two changes merge if *)
(* they are to different hunks.  Upstream is a line of versions, of which  *)
(* the first is where the fork began.  Only harness-owned paths are        *)
(* modelled, and of the index only that it follows the working tree.       *)
(***************************************************************************)
EXTENDS Naturals, Sequences

CONSTANTS
  Path, Hunk, Value,
  Theirs, Ours,  \* what upstream writes, and what the fork's owner does
  Mode,          \* the mode of a file, beside its hunks
  Regular, Executable,  \* the two modes git has
  Opaque,        \* paths of binary files and symbolic links
  Changing, Editing,  \* what of each path upstream and the fork's owner change
  First,         \* the first version
  Absent,        \* no such file
  Marked,        \* a file with conflict markers
  None,          \* no draft, no message
  MaxReleases,   \* bound: versions after the first
  MaxEdits,      \* bound: edits of the fork's owner
  MaxStash,      \* bound: entries of the stash
  Switching      \* may harness.upstreamRef name an older branch?

Field == Hunk \cup {Mode}
File == [Field -> Value]
Content == File \cup {Absent}
Tree == [Path -> Content]

ASSUME FileAssumption ==
  /\ Mode \notin Hunk /\ Opaque \subseteq Path /\ Theirs \cup Ours \subseteq Value /\ {Regular, Executable} \subseteq Value
  /\ Absent \notin File /\ Marked \notin Content /\ None \notin Content \cup {Marked}
  /\ None \notin [touched : SUBSET Path, conflicts : SUBSET Path]
  /\ Changing \in [Path -> SUBSET Field] /\ Editing \in [Path -> SUBSET Field]
  /\ First \in Tree
ASSUME BoundAssumption ==
  /\ MaxReleases \in Nat /\ MaxEdits \in Nat /\ MaxStash \in Nat
  /\ Switching \in BOOLEAN

VARIABLES
  versions,  \* the trees of upstream
  tracking,  \* the version upstream/<ref> names in the fork
  head,      \* the tree of HEAD
  synced,    \* the version the newest sync commit records, or the first
  work,      \* the working tree
  stash,     \* the stash, newest entry last
  phase, force, dirty, target, applied, stashed,  \* the run under way
  message,   \* what the last run told the owner to resolve
  outcome,   \* what the last run failed at: a commit of nothing, a stash pop, or neither
  custom,    \* of each path, what the owner has made his own in a commit
  dropped,   \* the paths whose new upstream mode a clean merge has left out
  draft,     \* the owner's newest uncommitted content of each path
  edits,     \* how many edits there were
  late,      \* the paths edited while a run was under way
  moved      \* has upstream/<ref> moved between the plan of a run and its end?

upstream == <<versions, tracking, moved>>
commits == <<head, synced, custom, dropped>>
files == <<work, stash, draft, edits, late>>
run == <<phase, force, dirty, target, applied, stashed, message, outcome>>
vars == <<upstream, commits, files, run>>

-----------------------------------------------------------------------------
(* The plan. *)

\* Mutant of Classify: two blobs are the same if their content is.
ClassifyByOid(b, o, t) ==
  LET same(x, y) == \/ x = y
                    \/ x \in File /\ y \in File /\ \A h \in Hunk : x[h] = y[h]
  IN  IF same(o, t) THEN "in-sync"
      ELSE IF same(o, b) THEN "fast-forward"
      ELSE IF same(t, b) THEN "keep-local"
      ELSE IF t = Absent THEN "kept-modified"
      ELSE IF o = Absent THEN "kept-deleted"
      ELSE "both"
\* classify: base, ours, theirs.
Classify(b, o, t) ==
  IF o = t THEN "in-sync"
  ELSE IF o = b THEN "fast-forward"
  ELSE IF t = b THEN "keep-local"
  ELSE IF t = Absent THEN "kept-modified"
  ELSE IF o = Absent THEN "kept-deleted"
  ELSE "both"

\* mergeFile: git merge-file of two texts; without a base every difference is
\* a conflict.
TextConflict(b, o, t) ==
  \E h \in Hunk : /\ o[h] # t[h]
                  /\ b # Absent => o[h] # b[h] /\ t[h] # b[h]
\* The merged text is written over ours, which keeps its mode.
MergeFile(b, o, t) ==
  [f \in Field |-> IF f # Mode /\ b # Absent /\ o[f] = b[f] THEN t[f] ELSE o[f]]

\* planMerge
Category(p, b, o, t) ==
  IF Classify(b, o, t) # "both" THEN Classify(b, o, t)
  ELSE IF p \in Opaque \/ TextConflict(b, o, t) THEN "conflict" ELSE "merge-clean"

\* Mutant of SyncBase: the fork point, as git merge-base has it.
SyncBaseFork(v) == 1
\* syncBase: the recorded version, if it is an ancestor of the target.
SyncBase(v) == IF synced <= v THEN synced ELSE 1

Planned(p) == Category(p, versions[SyncBase(target)][p], head[p], versions[target][p])

\* actionFor
Action(p) ==
  IF Planned(p) = "fast-forward" THEN "upstream"
  ELSE IF Planned(p) = "merge-clean" THEN "write-merged"
  ELSE IF force /\ Planned(p) \in {"conflict", "kept-deleted", "kept-modified"} THEN "upstream"
  ELSE IF Planned(p) = "conflict" THEN "conflict" ELSE "none"

Conflicts == {p \in Path : Action(p) = "conflict"}
\* Mutant of Touched: files merged cleanly are forgotten.
TouchedByUpstream == {p \in Path : Action(p) \in {"upstream", "conflict"}}
\* touchedPaths
Touched == {p \in Path : Action(p) # "none"}

\* Mutant of Instructions: to undo is to restore the files in conflict.
InstructionsConflicts == [touched |-> Conflicts, conflicts |-> Conflicts]
\* conflictError: what to resolve, and what to commit then or to restore.
Instructions == [touched |-> Touched, conflicts |-> Conflicts]

\* applyPlan writes merges first, then checks out, then removes.
Rank(p) == IF Action(p) # "upstream" THEN 1
           ELSE IF versions[target][p] # Absent THEN 2 ELSE 3

-----------------------------------------------------------------------------
Init ==
  /\ versions = <<First>> /\ tracking = 1
  /\ head = First /\ synced = 1 /\ work = First /\ stash = <<>>
  /\ phase = "idle" /\ force = FALSE /\ dirty = {} /\ target = 1 /\ applied = {}
  /\ stashed = FALSE /\ message = None /\ outcome = "none"
  /\ custom = [p \in Path |-> {}] /\ draft = [p \in Path |-> None] /\ edits = 0
  /\ dropped = {} /\ late = {} /\ moved = FALSE

\* What is committed is no draft.
Draft(p, c) == IF c = head[p] THEN None ELSE c

local == <<dirty, applied, stashed>>
Goto(s) == phase' = s /\ UNCHANGED <<local, force, outcome>>
End(how) ==
  /\ phase' = "idle" /\ force' = FALSE /\ outcome' = how
  /\ dirty' = {} /\ applied' = {} /\ stashed' = FALSE

\* dirtyHarnessPaths
DirtyPaths == {p \in Path : work[p] # head[p]}

\* Mutant of Start: only files that are not new count as dirty.
StartTracked(f) ==
  /\ phase = "idle"
  /\ dirty' = {p \in DirtyPaths : head[p] # Absent}
  /\ dirty' = {} \/ f
  /\ phase' = "checked" /\ force' = f /\ outcome' = "none" /\ message' = None
  /\ UNCHANGED <<upstream, commits, files, target, applied, stashed>>

\* assertUpdatable: without --force a dirty harness file refuses the update.
Start(f) ==
  /\ phase = "idle"
  /\ dirty' = DirtyPaths
  /\ dirty' = {} \/ f
  /\ phase' = "checked" /\ force' = f /\ outcome' = "none" /\ message' = None
  /\ UNCHANGED <<upstream, commits, files, target, applied, stashed>>

\* git fetch, syncBase, planMerge.  --check and the preview end here.
Fetch ==
  /\ phase = "checked"
  /\ tracking' \in {Len(versions)} \cup (IF Switching THEN 1..Len(versions) ELSE {})
  /\ target' = tracking'
  /\ \/ target' # 1 /\ SyncBase(target') # target' /\ Goto("planned")
     \/ End("none")
  /\ UNCHANGED <<versions, moved, commits, files, message>>

\* stashPreimage: git stash push of the paths that were dirty.
Stash ==
  /\ phase = "planned"
  /\ stashed' = (\E p \in dirty : work[p] # head[p])
  /\ IF stashed'
     THEN /\ Len(stash) < MaxStash
          /\ stash' = Append(stash, [on |-> head, edits |-> work, paths |-> dirty])
          /\ work' = [p \in Path |-> IF p \in dirty THEN head[p] ELSE work[p]]
     ELSE UNCHANGED <<stash, work>>
  /\ phase' = "apply" /\ UNCHANGED <<force, outcome, dirty, applied>>
  /\ UNCHANGED <<upstream, commits, draft, edits, late, target, message>>

\* applyPlan for one path.  git checkout takes the ref as it is now and fails
\* without such a file; git rm refuses a file that differs from HEAD.
Written(p) ==
  IF Action(p) = "write-merged"
  THEN MergeFile(versions[SyncBase(target)][p], head[p], versions[target][p])
  ELSE IF Action(p) = "conflict" THEN IF p \in Opaque THEN work[p] ELSE Marked
  ELSE IF Rank(p) = 2 THEN versions[tracking][p] ELSE Absent
Refuses(p) == \/ Rank(p) = 2 /\ versions[tracking][p] = Absent
              \/ Rank(p) = 3 /\ work[p] # head[p]
ApplyPath(p) ==
  /\ phase = "apply" /\ p \in Touched \ applied
  /\ \A q \in Touched \ applied : Rank(q) >= Rank(p)
  /\ \/ /\ ~Refuses(p)
        /\ work' = [work EXCEPT ![p] = Written(p)]
        /\ applied' = applied \cup {p}
        /\ UNCHANGED <<phase, force, outcome, dirty, stashed>>
     \/ Refuses(p) /\ End("none") /\ UNCHANGED work
  /\ UNCHANGED <<upstream, commits, stash, draft, edits, late, target, message>>

\* Conflicts end the run and leave its owner with instructions.
Conclude ==
  /\ phase = "apply" /\ Touched \subseteq applied
  /\ \/ /\ Conflicts # {}
        /\ message' = Instructions
        /\ End("none")
     \/ /\ Conflicts = {}
        /\ Goto(IF Touched = {} THEN "pop" ELSE "commit") /\ UNCHANGED message
  /\ UNCHANGED <<upstream, commits, files, target>>

Agree(a, b, f) == IF a \in File /\ b \in File THEN a[f] = b[f] ELSE a = b

\* A file the plan leaves to the owner, or that he has changed once it was
\* written, is his from then on where it is not as upstream has it.
Yours(p, content) ==
  IF \/ Action(p) # "upstream" /\ Planned(p) \in {"conflict", "kept-deleted", "kept-modified"}
     \/ p \in Touched \ Conflicts /\ content[p] # Written(p)
  THEN Field ELSE custom[p]
\* git commit -- <touched>, with the trailer.
SyncCommit(content) ==
  /\ head' = [p \in Path |-> IF p \in Touched THEN content[p] ELSE head[p]]
  /\ synced' = target
  /\ custom' = [p \in Path |->
                  {f \in Yours(p, content) : ~Agree(head'[p], versions[target][p], f)}]
  /\ dropped' = {p \in dropped \cup {q \in Path : Action(q) = "write-merged"} :
                   ~Agree(head'[p], versions[target][p], Mode)}

\* git commits nothing if the paths are as HEAD has them.
Commit ==
  /\ phase = "commit"
  /\ \/ /\ \E p \in Touched : work[p] # head[p]
        /\ SyncCommit(work)
        /\ draft' = [p \in Path |-> IF p \in Touched /\ work[p] = draft[p] THEN None ELSE draft[p]]
        /\ Goto("pop")
     \/ /\ \A p \in Touched : work[p] = head[p]
        /\ End("empty") /\ UNCHANGED <<commits, draft>>
  /\ UNCHANGED <<upstream, work, stash, edits, late, target, message>>

\* git stash pop: the newest entry is merged with the working tree, file by
\* file; a conflict leaves markers and keeps the entry.
Newest == stash[Len(stash)]
Clash(p) ==
  LET b == Newest.on[p]  o == work[p]  t == Newest.edits[p]
  IN  /\ o # b /\ t # b /\ o # t
      /\ \/ p \in Opaque \/ {b, o, t} \cap {Absent, Marked} # {}
         \/ \E f \in Field : o[f] # t[f] /\ o[f] # b[f] /\ t[f] # b[f]
Popped(p) ==
  LET b == Newest.on[p]  o == work[p]  t == Newest.edits[p]
  IN  IF p \notin Newest.paths \/ t = b THEN o
      ELSE IF Clash(p) THEN Marked
      ELSE IF o = b \/ o = t THEN t
      ELSE [f \in Field |-> IF o[f] = b[f] THEN t[f] ELSE o[f]]
\* What comes back from the stash is a draft again, unless there is a newer one.
Taken(p, c) ==
  IF draft[p] \in {None, Newest.edits[p]} /\ c # Marked THEN Draft(p, c) ELSE draft[p]
PopStash ==
  LET clashes == {p \in Newest.paths : Clash(p)}
  IN  /\ work' = [p \in Path |-> Popped(p)]
      /\ stash' = IF clashes = {} THEN SubSeq(stash, 1, Len(stash) - 1) ELSE stash
      /\ draft' = [p \in Path |->
                     IF p \in Newest.paths \ clashes THEN Taken(p, Popped(p)) ELSE draft[p]]
\* git refuses to pop onto a path that is not as HEAD has it.
PopRefused == \E p \in Newest.paths : work[p] # head[p]
PopClashes == \E p \in Newest.paths : Clash(p)

\* popPreimage
Pop ==
  /\ phase = "pop"
  /\ \/ ~stashed /\ End("none") /\ UNCHANGED files
     \/ stashed /\ PopRefused /\ End("none") /\ UNCHANGED files
     \/ /\ stashed /\ ~PopRefused
        /\ PopStash /\ UNCHANGED <<edits, late>>
        /\ End(IF PopClashes THEN "popFailed" ELSE "none")
  /\ UNCHANGED <<upstream, commits, target, message>>

-----------------------------------------------------------------------------
(* The fork's owner, upstream, and what goes wrong. *)

\* The run dies.
Crash ==
  /\ phase # "idle"
  /\ End("none")
  /\ UNCHANGED <<upstream, commits, files, target, message>>

\* One change to a file, or a file more or less.  A new file is a regular one.
Changes(c, fields, values) ==
  IF c = Absent THEN {[f \in Field |-> IF f = Mode THEN Regular ELSE v] : v \in values}
  ELSE {Absent} \cup {[c EXCEPT ![f] = v] : f \in fields \cap Hunk, v \in values}
                \cup {[c EXCEPT ![f] = m] : f \in fields \cap {Mode}, m \in {Regular, Executable}}

Release ==
  /\ Len(versions) <= MaxReleases
  /\ \E p \in Path : \E c \in Changes(versions[Len(versions)][p], Changing[p], Theirs) :
       /\ c # versions[Len(versions)][p]
       /\ versions' = Append(versions, [versions[Len(versions)] EXCEPT ![p] = c])
  /\ UNCHANGED <<tracking, moved, commits, files, run>>

\* Somebody else's git fetch while a run is under way.  Before the plan and
\* after the last checkout nothing would notice.
BackgroundFetch ==
  /\ phase \in {"planned", "apply"} /\ tracking # Len(versions)
  /\ tracking' = Len(versions) /\ moved' = TRUE
  /\ UNCHANGED <<versions, commits, files, run>>

\* The owner may edit while a run is under way.
Edit ==
  /\ edits < MaxEdits /\ edits' = edits + 1
  /\ \E p \in Path : /\ work[p] # Marked
                     /\ \E c \in Changes(work[p], Editing[p], Ours) :
                          /\ work' = [work EXCEPT ![p] = c]
                          /\ draft' = [draft EXCEPT ![p] = Draft(p, c)]
                     /\ late' = IF phase = "idle" THEN late ELSE late \cup {p}
  /\ UNCHANGED <<upstream, commits, stash, run>>

Forget == message' = None /\ UNCHANGED <<local, phase, force, target, outcome>>

\* An ordinary commit: what it changes is the owner's, unless it is back to what
\* upstream has.
CommitEdits ==
  /\ phase = "idle" /\ DirtyPaths # {} /\ \A p \in Path : work[p] # Marked
  /\ head' = work /\ UNCHANGED synced
  /\ custom' = [p \in Path |->
                  {f \in custom[p] \cup {g \in Field : ~Agree(head[p], work[p], g)} :
                     ~Agree(work[p], versions[synced][p], f)}]
  /\ dropped' = {p \in dropped : ~Agree(work[p], versions[synced][p], Mode)}
  /\ draft' = [p \in Path |-> IF draft[p] = work[p] THEN None ELSE draft[p]]
  /\ Forget
  /\ UNCHANGED <<upstream, work, stash, edits, late>>

Stashed(p, c) == \E i \in 1..Len(stash) : p \in stash[i].paths /\ stash[i].edits[p] = c

\* The owner gives up what is in the working tree at some paths.
Restore(paths) ==
  /\ work' = [p \in Path |-> IF p \in paths THEN head[p] ELSE work[p]]
  /\ draft' = [p \in Path |-> IF p \in paths /\ work[p] = draft[p] THEN None ELSE draft[p]]
  /\ Forget
  /\ UNCHANGED <<upstream, commits, stash, edits, late>>
Discard == phase = "idle" /\ DirtyPaths # {} /\ Restore(Path)

\* The undo of the conflict message.
Undo == phase = "idle" /\ message # None /\ Restore(message.touched)

\* The other way: every conflict is resolved hunk by hunk and the printed
\* commit is made, with its trailer.
Mixes(o, t) == {c \in File : \A f \in Field : c[f] \in {o[f], t[f]}}
Finish ==
  /\ phase = "idle" /\ message # None
  /\ \E c \in [message.conflicts -> File] :
       /\ \A p \in message.conflicts : c[p] \in Mixes(head[p], versions[target][p])
       /\ work' = [p \in Path |-> IF p \in message.conflicts THEN c[p] ELSE work[p]]
  /\ \E p \in message.touched : work'[p] # head[p]
  /\ \A p \in message.touched : work'[p] # Marked
  /\ SyncCommit(work')
  /\ draft' = [p \in Path |-> IF p \in message.touched THEN None ELSE draft[p]]
  /\ Forget
  /\ UNCHANGED <<upstream, stash, edits, late>>

\* The owner pops an entry a failed run has left, or resolves a pop's markers
\* and drops the entry.
OwnersPop ==
  /\ phase = "idle" /\ stash # <<>> /\ ~PopRefused
  /\ PopStash
  /\ outcome' = (IF PopClashes THEN "popFailed" ELSE "none")
  /\ UNCHANGED <<upstream, commits, edits, late, local, phase, force, target, message>>
ResolvePop ==
  /\ phase = "idle" /\ outcome = "popFailed" /\ stash # <<>>
  /\ \E p \in Newest.paths : work[p] = Marked
  /\ work' = [p \in Path |->
                IF p \notin Newest.paths \/ work[p] # Marked THEN work[p]
                ELSE IF Newest.edits[p] # Marked THEN Newest.edits[p] ELSE head[p]]
  /\ stash' = SubSeq(stash, 1, Len(stash) - 1)
  /\ draft' = [p \in Path |-> IF p \in Newest.paths THEN Taken(p, work'[p]) ELSE draft[p]]
  /\ outcome' = "none"
  /\ UNCHANGED <<upstream, commits, edits, late, local, phase, force, target, message>>

Run == (\E f \in BOOLEAN : Start(f)) \/ Fetch \/ Stash \/ (\E p \in Path : ApplyPath(p))
       \/ Conclude \/ Commit \/ Pop
Owner == Edit \/ CommitEdits \/ Discard \/ Undo \/ Finish \/ OwnersPop \/ ResolvePop
Next == Run \/ Owner \/ Crash \/ Release \/ BackgroundFetch

Spec == Init /\ [][Next]_vars

-----------------------------------------------------------------------------
Phases == {"idle", "checked", "planned", "apply", "commit", "pop"}
Entry == [on : Tree, edits : [Path -> Content \cup {Marked}], paths : SUBSET Path]

Outcomes == {"none", "empty", "popFailed"}

UpstreamType == /\ versions \in Seq(Tree) /\ Len(versions) \in 1..(MaxReleases + 1)
                /\ tracking \in 1..Len(versions) /\ moved \in BOOLEAN
CommitsType == /\ head \in Tree /\ synced \in 1..Len(versions)
               /\ custom \in [Path -> SUBSET Field]
               /\ dropped \subseteq Path
FilesType == /\ work \in [Path -> Content \cup {Marked}]
             /\ stash \in Seq(Entry) /\ Len(stash) <= MaxStash
             /\ draft \in [Path -> Content \cup {None}]
             /\ edits \in 0..MaxEdits /\ late \subseteq Path
RunType == /\ phase \in Phases /\ force \in BOOLEAN /\ target \in 1..Len(versions)
           /\ dirty \subseteq Path /\ applied \subseteq Path /\ stashed \in BOOLEAN
           /\ message \in [touched : SUBSET Path, conflicts : SUBSET Path] \cup {None}
           /\ outcome \in Outcomes
TypeOK == UpstreamType /\ CommitsType /\ FilesType /\ RunType

\* No upstream change is missed, to a hunk or to a mode: whatever the owner has
\* not changed, left unmerged or decided himself is committed as the last synced
\* version has it, however many syncs, crashes, resolutions and forced runs there
\* were.  It is what the next merge takes its base for.  There is one exception: a
\* clean merge writes the merged text into the owner's file (writeMerged,
\* update.ts:318) and so drops a new mode, which counts as a change to the plan.
\* And upstream/<ref> must not move under a run, which records the commit and
\* checks out the ref.
NothingMissed ==
  ~moved => \A p \in Path : \A f \in Field \ custom[p] :
              \/ Agree(head[p], versions[synced][p], f)
              \/ f = Mode /\ p \in dropped

\* "Your committed customizations to harness files survive updates unless
\* upstream changed the same lines" (docs/updating.md): a sync without --force
\* commits each hunk and mode of the owner as he had it, and leaves deleted what he
\* has deleted, in every file it reports no conflict in.  The sync may be one of a run
\* or one the owner finishes, after whatever he has edited back, popped and resolved.
EditsSurvive ==
  [][synced' # synced /\ ~force =>
       \A p \in Path \ Conflicts : \A f \in custom[p] :
         draft[p] = None => Agree(head'[p], head[p], f)]_synced

\* Uncommitted edits are never lost, forced runs, their failures and crashes
\* included: they are in the working tree or in the stash.  But a file must not
\* be edited under a run, which looks for edits once, before it fetches.
DraftKept ==
  \A p \in Path \ late : draft[p] = None \/ work[p] = draft[p] \/ Stashed(p, draft[p])

\* The undo a conflicting update prints undoes all of it: outside the paths it
\* names the update leaves the working tree as HEAD or the owner has it.
UndoIsComplete ==
  [][message' # None =>
       \A p \in Path \ message'.touched : work'[p] \in {head'[p], draft'[p]}]_message

\* "With no conflicts the result is committed" (docs/updating.md, and the head
\* of scripts/update.ts): the commit of a run without conflicts is never refused
\* for want of a change, if nothing has moved under it.
SyncIsCommitted == outcome = "empty" => moved \/ late # {}
=============================================================================
