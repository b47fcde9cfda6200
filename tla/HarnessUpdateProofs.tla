------------------------ MODULE HarnessUpdateProofs ------------------------
(***************************************************************************)
(* Theorems about `just update`, for every set of files, every history of  *)
(* upstream and any number of edits, releases and crashes.                 *)
(***************************************************************************)
EXTENDS HarnessUpdate, SequenceTheorems, TLAPS

-----------------------------------------------------------------------------
(* The plan. *)

LEMMA VersionTypes ==
  ASSUME TypeOK
  PROVE  /\ SyncBase(target) \in 1..Len(versions)
         /\ \A i \in 1..Len(versions) : versions[i] \in Tree
         /\ \A i \in 1..Len(versions) : \A p \in Path : versions[i][p] \in Content
  BY DEF TypeOK, UpstreamType, CommitsType, RunType, SyncBase, Tree

LEMMA MergeType ==
  ASSUME NEW b \in Content, NEW o \in File, NEW t \in File
  PROVE  MergeFile(b, o, t) \in File
<1> DEFINE m == MergeFile(b, o, t)
<1>1. \A f \in Field : o[f] \in Value /\ t[f] \in Value
  BY DEF File
<1>2. m = [f \in Field |-> IF f # Mode /\ b # Absent /\ o[f] = b[f] THEN t[f] ELSE o[f]]
  BY DEF MergeFile
<1>3. m \in [Field -> Value]
  BY <1>1, <1>2
<1> QED
  BY <1>3 DEF File

\* What the actions of the plan say of its categories.
LEMMA ActionFacts ==
  ASSUME TypeOK, NEW p \in Path
  PROVE  /\ Action(p) = "write-merged" =>
              /\ Planned(p) = "merge-clean"
              /\ head[p] \in File /\ versions[target][p] \in File
         /\ Action(p) = "conflict" => Planned(p) = "conflict" /\ ~force
         /\ Action(p) \in {"upstream", "write-merged", "conflict", "none"}
<1>1. head[p] \in Content /\ versions[target][p] \in Content
  BY VersionTypes DEF TypeOK, CommitsType, RunType, Tree
<1>2. Planned(p) = "merge-clean" => head[p] # Absent /\ versions[target][p] # Absent
  BY DEF Planned, Category, Classify
<1>3. Action(p) = "write-merged" => Planned(p) = "merge-clean"
  BY DEF Action
<1>4. Action(p) = "conflict" => Planned(p) = "conflict" /\ ~force
  BY DEF Action
<1>5. Action(p) \in {"upstream", "write-merged", "conflict", "none"}
  BY DEF Action
<1> QED
  BY <1>1, <1>2, <1>3, <1>4, <1>5 DEF Content

LEMMA WrittenType ==
  ASSUME TypeOK, NEW p \in Path
  PROVE  /\ Written(p) \in Content \cup {Marked}
         /\ Action(p) # "conflict" => Written(p) # Marked
<1>1. Marked \notin Content /\ Absent \in Content /\ File \subseteq Content
  BY FileAssumption DEF Content
<1>2. CASE Action(p) = "write-merged"
  <2>1. versions[SyncBase(target)][p] \in Content
    BY VersionTypes
  <2>2. Written(p) \in File
    BY <1>2, <2>1, ActionFacts, MergeType DEF Written
  <2> QED
    BY <2>2, <1>1
<1>3. CASE Action(p) = "conflict"
  BY <1>3, <1>1 DEF Written, TypeOK, FilesType
<1>4. CASE Action(p) \notin {"write-merged", "conflict"}
  <2>1. tracking \in 1..Len(versions)
    BY DEF TypeOK, UpstreamType
  <2>2. versions[tracking][p] \in Content
    BY <2>1, VersionTypes
  <2>3. Written(p) \in Content
    BY <1>4, <2>2, <1>1 DEF Written
  <2> QED
    BY <2>3, <1>1
<1> QED
  BY <1>2, <1>3, <1>4

\* The plan stays what it is while nobody changes what it is made from.
LEMMA PlanStable ==
  ASSUME TypeOK, UNCHANGED <<head, synced, target, force>>,
         \A i \in 1..Len(versions) : versions'[i] = versions[i]
  PROVE  /\ \A p \in Path : Action(p)' = Action(p)
         /\ Touched' = Touched /\ Conflicts' = Conflicts /\ Instructions' = Instructions
<1>1. target \in 1..Len(versions) /\ SyncBase(target) \in 1..Len(versions)
  BY VersionTypes DEF TypeOK, RunType
<1>2. SyncBase(target)' = SyncBase(target)
  BY DEF SyncBase
<1>3. \A p \in Path : Planned(p)' = Planned(p)
  BY <1>1, <1>2 DEF Planned
<1>4. \A p \in Path : Action(p)' = Action(p)
  BY <1>3 DEF Action
<1>5. Touched' = Touched /\ Conflicts' = Conflicts
  BY <1>4 DEF Touched, Conflicts
<1> QED
  BY <1>4, <1>5 DEF Instructions

-----------------------------------------------------------------------------
(* The stages of a run, and what the type of what it commits rests on: no     *)
(* file with conflict markers gets past Conclude.                             *)

Stages ==
  /\ phase = "idle" => ~force
  /\ phase \in {"idle", "checked", "planned"} => applied = {} /\ ~stashed
  /\ stashed => stash # <<>>
  /\ phase \in {"checked", "planned"} =>
       /\ \A p \in Path \ (late \cup dirty) : work[p] = head[p]
       /\ ~force => dirty = {} /\ \A p \in Path : work[p] \in {head[p], draft[p]}
  /\ phase = "apply" =>
       /\ applied \subseteq Touched
       /\ \A p \in applied \ Conflicts : work[p] # Marked
       /\ ~force => \A p \in Path \ applied : work[p] \in {head[p], draft[p]}
  /\ phase = "commit" => Conflicts = {} /\ \A p \in Touched : work[p] # Marked
  /\ message # None => phase = "idle" /\ message = Instructions

LEMMA TouchedFacts ==
  ASSUME TypeOK
  PROVE  /\ Touched \subseteq Path /\ Conflicts \subseteq Touched
         /\ Conflicts # {} => ~force
         /\ Instructions \in [touched : SUBSET Path, conflicts : SUBSET Path]
         /\ Instructions # None
<1>1. Touched \subseteq Path /\ Conflicts \subseteq Touched
  BY DEF Touched, Conflicts
<1>2. Conflicts # {} => ~force
  BY ActionFacts DEF Conflicts
<1>3. Instructions \in [touched : SUBSET Path, conflicts : SUBSET Path]
  BY <1>1 DEF Instructions
<1> QED
  BY <1>1, <1>2, <1>3, FileAssumption

LEMMA ContentFacts ==
  /\ File \subseteq Content /\ Absent \in Content
  /\ Marked \notin Content /\ None \notin Content \cup {Marked}
  BY FileAssumption DEF Content

LEMMA ChangesType ==
  ASSUME NEW c \in Content, NEW fields \in SUBSET Field, NEW values \in SUBSET Value,
         NEW new \in Changes(c, fields, values)
  PROVE  new \in Content
<1>1. CASE c = Absent
  <2>1. PICK v \in values : new = [f \in Field |-> IF f = Mode THEN Regular ELSE v]
    BY <1>1 DEF Changes
  <2>2. new \in File
    BY <2>1, FileAssumption DEF File
  <2> QED
    BY <2>2, ContentFacts
<1>2. CASE c # Absent
  <2>1. c \in File
    BY <1>2 DEF Content
  <2>2. ASSUME NEW f \in Field, NEW v \in Value, new = [c EXCEPT ![f] = v] PROVE new \in Content
    BY <2>1, <2>2, ContentFacts DEF File
  <2>3. CASE new = Absent
    BY <2>3, ContentFacts
  <2>4. CASE new \in {[c EXCEPT ![f] = v] : f \in fields \cap Hunk, v \in values}
    <3>1. PICK f \in fields \cap Hunk, v \in values : new = [c EXCEPT ![f] = v]
      BY <2>4
    <3> QED
      BY <2>2, <3>1
  <2>5. CASE new \in {[c EXCEPT ![f] = m] : f \in fields \cap {Mode}, m \in {Regular, Executable}}
    <3>1. PICK f \in fields \cap {Mode}, m \in {Regular, Executable} : new = [c EXCEPT ![f] = m]
      BY <2>5
    <3> QED
      BY <2>2, <3>1, FileAssumption
  <2> QED
    BY <1>2, <2>3, <2>4, <2>5 DEF Changes
<1> QED
  BY <1>1, <1>2

\* A pop merges file by file, and marks what clashes.
LEMMA PoppedType ==
  ASSUME TypeOK, stash # <<>>, ~PopRefused, NEW p \in Path
  PROVE  /\ Popped(p) \in Content \cup {Marked}
         /\ p \in Newest.paths /\ ~Clash(p) /\ draft[p] = Newest.edits[p] => Popped(p) # Marked
         /\ p \notin Newest.paths => Popped(p) = work[p]
<1>1. Len(stash) \in Nat \ {0} /\ Newest \in Entry
  BY DEF TypeOK, FilesType, Newest
<1>2. /\ Newest.on[p] \in Content /\ Newest.edits[p] \in Content \cup {Marked}
      /\ work[p] \in Content \cup {Marked} /\ head[p] \in Content
      /\ draft[p] \in Content \cup {None}
  BY <1>1 DEF Entry, Tree, TypeOK, FilesType, CommitsType
<1>3. draft[p] = Newest.edits[p] => Newest.edits[p] # Marked
  BY <1>2, ContentFacts
<1>4. p \in Newest.paths => work[p] \in Content
  BY <1>2 DEF PopRefused
<1>5. CASE \/ p \notin Newest.paths \/ Newest.edits[p] = Newest.on[p] \/ Clash(p)
           \/ work[p] = Newest.on[p] \/ work[p] = Newest.edits[p]
  BY <1>2, <1>3, <1>4, <1>5, ContentFacts DEF Popped
<1>6. CASE ~ (\/ p \notin Newest.paths \/ Newest.edits[p] = Newest.on[p] \/ Clash(p)
              \/ work[p] = Newest.on[p] \/ work[p] = Newest.edits[p])
  <2>1. {Newest.on[p], work[p], Newest.edits[p]} \cap {Absent, Marked} = {}
    BY <1>6 DEF Clash
  <2>2. work[p] \in File /\ Newest.edits[p] \in File
    BY <2>1, <1>2 DEF Content
  <2>3. Popped(p) = [f \in Field |-> IF work[p][f] = Newest.on[p][f]
                                     THEN Newest.edits[p][f] ELSE work[p][f]]
    BY <1>6 DEF Popped
  <2>4. Popped(p) \in File
    BY <2>2, <2>3 DEF File
  <2> QED
    BY <1>6, <2>4, ContentFacts
<1> QED
  BY <1>5, <1>6

LEMMA AllButLast ==
  ASSUME NEW S, NEW s \in Seq(S), s # <<>>, NEW r, r = SubSeq(s, 1, Len(s) - 1)
  PROVE  /\ r \in Seq(S) /\ Len(r) = Len(s) - 1
         /\ \A i \in 1..(Len(s) - 1) : r[i] = s[i]
<1> DEFINE n == Len(s) - 1
<1>1. n \in Nat /\ 1 \in Int /\ n \in Int
  OBVIOUS
<1>2. \A i \in 1..n : s[i] \in S
  OBVIOUS
<1>3. r = SubSeq(s, 1, n)
  OBVIOUS
<1> HIDE DEF n
<1>4. /\ r \in Seq(S) /\ Len(r) = IF 1 <= n THEN n - 1 + 1 ELSE 0
      /\ \A i \in 1..(n - 1 + 1) : r[i] = s[1 + i - 1]
  BY <1>1, <1>2, <1>3, SubSeqProperties
<1>5. Len(r) = n /\ \A i \in 1..n : r[i] = s[i]
  BY <1>1, <1>4
<1> QED
  BY <1>4, <1>5 DEF n

LEMMA TakenType ==
  ASSUME TypeOK, NEW p \in Path, NEW c \in Content \cup {Marked}
  PROVE  Taken(p, c) \in Content \cup {None}
<1>1. draft[p] \in Content \cup {None}
  BY DEF TypeOK, FilesType
<1> QED
  BY <1>1 DEF Taken, Draft

LEMMA PopType ==
  ASSUME TypeOK, stash # <<>>, ~PopRefused, PopStash
  PROVE  /\ work' \in [Path -> Content \cup {Marked}]
         /\ stash' \in Seq(Entry) /\ Len(stash') <= MaxStash
         /\ draft' \in [Path -> Content \cup {None}]
<1>1. Len(stash) \in Nat \ {0} /\ stash \in Seq(Entry) /\ Len(stash) <= MaxStash
  BY DEF TypeOK, FilesType
<1>2. work' \in [Path -> Content \cup {Marked}]
  BY PoppedType DEF PopStash
<1>3. \A p \in Path : draft[p] \in Content \cup {None}
  BY DEF TypeOK, FilesType
<1>4. \A p \in Path : Taken(p, Popped(p)) \in Content \cup {None}
  BY PoppedType, TakenType
<1>5. draft' \in [Path -> Content \cup {None}]
  BY <1>3, <1>4 DEF PopStash
<1>6. CASE stash' = stash
  BY <1>1, <1>2, <1>5, <1>6
<1>7. CASE stash' = SubSeq(stash, 1, Len(stash) - 1)
  <2>1. stash' \in Seq(Entry) /\ Len(stash') = Len(stash) - 1
    BY <1>1, <1>7, AllButLast
  <2> QED
    BY <1>1, <1>2, <1>5, <2>1, BoundAssumption
<1>8. stash' = stash \/ stash' = SubSeq(stash, 1, Len(stash) - 1)
  BY DEF PopStash
<1> QED
  BY <1>6, <1>7, <1>8

LEMMA EndType ==
  ASSUME NEW how \in Outcomes, End(how)
  PROVE  /\ phase' \in Phases /\ force' \in BOOLEAN /\ outcome' \in Outcomes
         /\ dirty' \subseteq Path /\ applied' \subseteq Path /\ stashed' \in BOOLEAN
  BY DEF End, Phases

LEMMA GotoType ==
  ASSUME RunType, NEW s \in Phases, Goto(s)
  PROVE  /\ phase' \in Phases /\ force' \in BOOLEAN /\ outcome' \in Outcomes
         /\ dirty' \subseteq Path /\ applied' \subseteq Path /\ stashed' \in BOOLEAN
  BY DEF Goto, local, RunType

LEMMA SyncCommitType ==
  ASSUME TypeOK, NEW content, \A p \in Touched : content[p] \in Content, SyncCommit(content),
         UNCHANGED upstream
  PROVE  CommitsType'
<1>1. head' \in Tree
  BY DEF SyncCommit, TypeOK, CommitsType, Tree
<1>2. synced' \in 1..Len(versions')
  BY DEF SyncCommit, TypeOK, RunType, upstream
<1>3. custom' \in [Path -> SUBSET Field]
  <2>1. \A p \in Path : Yours(p, content) \subseteq Field
    BY DEF Yours, TypeOK, CommitsType
  <2>2. custom' = [p \in Path |->
                    {f \in Yours(p, content) : ~Agree(head'[p], versions[target][p], f)}]
    BY DEF SyncCommit
  <2> QED
    BY <2>1, <2>2
<1>4. dropped' \subseteq Path
  BY DEF SyncCommit, TypeOK, CommitsType
<1> QED
  BY <1>1, <1>2, <1>3, <1>4 DEF CommitsType

\* The steps of the program keep the types.
LEMMA RunTypeStep == TypeOK /\ Stages /\ Run => TypeOK'
<1> SUFFICES ASSUME TypeOK, Stages, Run PROVE TypeOK'
  OBVIOUS
<1> USE DEF TypeOK
<1>1. ASSUME UNCHANGED upstream PROVE UpstreamType'
  BY <1>1 DEF upstream, UpstreamType
<1>2. ASSUME UNCHANGED commits, UNCHANGED upstream PROVE CommitsType'
  BY <1>2 DEF upstream, commits, CommitsType
<1>3. ASSUME UNCHANGED files PROVE FilesType'
  BY <1>3 DEF files, FilesType
<1>4. ASSUME NEW f \in BOOLEAN, Start(f) PROVE TypeOK'
  <2>1. UNCHANGED <<upstream, commits, files>>
    BY <1>4 DEF Start
  <2>2. RunType'
    BY <1>4 DEF Start, DirtyPaths, RunType, Phases, Outcomes, upstream
  <2> QED
    BY <1>1, <1>2, <1>3, <2>1, <2>2
<1>5. CASE Fetch
  <2>1. UNCHANGED <<versions, moved, commits, files, message>>
    BY <1>5 DEF Fetch
  <2>2. tracking' \in 1..Len(versions) /\ target' = tracking'
    BY <1>5 DEF Fetch, UpstreamType
  <2>3. \/ Goto("planned") \/ End("none")
    BY <1>5 DEF Fetch
  <2>4. "planned" \in Phases /\ "none" \in Outcomes
    BY DEF Phases, Outcomes
  <2>5. RunType'
    BY <2>1, <2>2, <2>3, <2>4, EndType, GotoType DEF RunType
  <2>6. CommitsType' /\ UpstreamType' /\ FilesType'
    BY <2>1, <2>2, <1>3 DEF CommitsType, UpstreamType, commits
  <2> QED
    BY <2>5, <2>6
<1>6. CASE Stash
  <2>1. UNCHANGED <<upstream, commits, draft, edits, late>>
    BY <1>6 DEF Stash
  <2>2. RunType'
    BY <1>6, <2>1 DEF Stash, RunType, Phases, upstream
  <2>3. /\ work' \in [Path -> Content \cup {Marked}]
        /\ stash' \in Seq(Entry) /\ Len(stash') <= MaxStash
    <3>1. CASE stashed'
      <4>1. /\ Len(stash) < MaxStash
            /\ stash' = Append(stash, [on |-> head, edits |-> work, paths |-> dirty])
            /\ work' = [p \in Path |-> IF p \in dirty THEN head[p] ELSE work[p]]
        BY <1>6, <3>1 DEF Stash
      <4>2. [on |-> head, edits |-> work, paths |-> dirty] \in Entry
        BY DEF Entry, CommitsType, FilesType, RunType
      <4>3. stash' \in Seq(Entry) /\ Len(stash') = Len(stash) + 1
        BY <4>1, <4>2 DEF FilesType
      <4>4. work' \in [Path -> Content \cup {Marked}]
        BY <4>1 DEF FilesType, CommitsType, Tree
      <4> QED
        BY <4>1, <4>3, <4>4, BoundAssumption DEF FilesType
    <3>2. CASE ~stashed'
      BY <1>6, <3>2 DEF Stash, FilesType
    <3> QED
      BY <3>1, <3>2
  <2> QED
    BY <1>1, <1>2, <2>1, <2>2, <2>3 DEF FilesType
<1>7. ASSUME NEW p \in Path, ApplyPath(p) PROVE TypeOK'
  <2>1. UNCHANGED <<upstream, commits, stash, draft, edits, late, target, message>>
    BY <1>7 DEF ApplyPath
  <2>2. CASE ~Refuses(p)
    <3>1. /\ work' = [work EXCEPT ![p] = Written(p)] /\ applied' = applied \cup {p}
          /\ UNCHANGED <<phase, force, outcome, dirty, stashed>>
      BY <1>7, <2>2 DEF ApplyPath
    <3>2. FilesType'
      BY <2>1, <3>1, WrittenType DEF FilesType
    <3>3. RunType'
      BY <2>1, <3>1 DEF RunType, upstream
    <3> QED
      BY <1>1, <1>2, <2>1, <3>2, <3>3
  <2>3. CASE Refuses(p)
    <3>1. End("none") /\ UNCHANGED work
      BY <1>7, <2>3 DEF ApplyPath
    <3>2. FilesType'
      BY <2>1, <3>1 DEF FilesType
    <3>3. RunType'
      BY <2>1, <3>1, EndType DEF RunType, Outcomes, upstream
    <3> QED
      BY <1>1, <1>2, <2>1, <3>2, <3>3
  <2> QED
    BY <2>2, <2>3
<1>8. CASE Conclude
  <2>1. UNCHANGED <<upstream, commits, files, target>>
    BY <1>8 DEF Conclude
  <2>2. message' \in [touched : SUBSET Path, conflicts : SUBSET Path] \cup {None}
    BY <1>8, TouchedFacts DEF Conclude, RunType
  <2>3. End("none") \/ Goto("pop") \/ Goto("commit")
    BY <1>8 DEF Conclude
  <2>4. "none" \in Outcomes /\ {"pop", "commit"} \subseteq Phases
    BY DEF Phases, Outcomes
  <2>5. RunType'
    BY <2>1, <2>2, <2>3, <2>4, EndType, GotoType DEF RunType, upstream
  <2> QED
    BY <1>1, <1>2, <1>3, <2>1, <2>5
<1>9. CASE Commit
  <2>1. UNCHANGED <<upstream, work, stash, edits, late, target, message>>
    BY <1>9 DEF Commit
  <2>2. \/ SyncCommit(work) /\ Goto("pop")
        \/ UNCHANGED <<commits, draft>> /\ End("empty")
    BY <1>9 DEF Commit
  <2>3. "empty" \in Outcomes /\ "pop" \in Phases
    BY DEF Phases, Outcomes
  <2>4. RunType'
    BY <2>1, <2>2, <2>3, EndType, GotoType DEF RunType, upstream
  <2>5. draft' \in [Path -> Content \cup {None}]
    BY <1>9 DEF Commit, FilesType
  <2>6. phase = "commit"
    BY <1>9 DEF Commit
  <2>7. \A p \in Touched : work[p] \in Content
    BY <2>6, TouchedFacts DEF Stages, FilesType
  <2>8. CommitsType'
    BY <1>2, <2>1, <2>2, <2>7, SyncCommitType
  <2> QED
    BY <1>1, <2>1, <2>4, <2>5, <2>8 DEF FilesType
<1>10. CASE Pop
  <2>1. UNCHANGED <<upstream, commits, target, message>>
    BY <1>10 DEF Pop
  <2>2. \E how \in Outcomes : End(how)
    <3>1. End("none") \/ End("popFailed")
      BY <1>10 DEF Pop
    <3> QED
      BY <3>1 DEF Outcomes
  <2>3. RunType'
    BY <2>1, <2>2, EndType DEF RunType, upstream
  <2>4. CASE UNCHANGED files
    BY <1>1, <1>2, <1>3, <2>1, <2>3, <2>4
  <2>5. CASE stashed /\ ~PopRefused /\ PopStash /\ UNCHANGED <<edits, late>>
    <3>1. stash # <<>>
      BY <2>5 DEF Stages
    <3>2. FilesType'
      BY <2>5, <3>1, PopType DEF FilesType
    <3> QED
      BY <1>1, <1>2, <2>1, <2>3, <3>2
  <2> QED
    BY <1>10, <2>4, <2>5 DEF Pop
<1> QED
  BY <1>4, <1>5, <1>6, <1>7, <1>8, <1>9, <1>10 DEF Run

\* What is in the model beside the program keeps them, too.
LEMMA OthersTypeStep == TypeOK /\ Stages /\ (Owner \/ Crash \/ Release \/ BackgroundFetch) => TypeOK'
<1> SUFFICES ASSUME TypeOK, Stages, Owner \/ Crash \/ Release \/ BackgroundFetch PROVE TypeOK'
  OBVIOUS
<1> USE DEF TypeOK
<1>1. ASSUME UNCHANGED upstream PROVE UpstreamType'
  BY <1>1 DEF upstream, UpstreamType
<1>2. ASSUME UNCHANGED commits, UNCHANGED upstream PROVE CommitsType'
  BY <1>2 DEF upstream, commits, CommitsType
<1>3. ASSUME UNCHANGED files PROVE FilesType'
  BY <1>3 DEF files, FilesType
<1>4. ASSUME UNCHANGED <<upstream, local, phase, force, target>>,
             message' \in {message, None}, outcome' \in Outcomes
      PROVE  RunType'
  BY <1>4 DEF upstream, local, RunType
<1>5. CASE Edit
  <2>1. UNCHANGED <<upstream, commits, stash, run>> /\ edits' \in 0..MaxEdits
    BY <1>5, BoundAssumption DEF Edit, FilesType
  <2>2. PICK p \in Path : /\ work[p] # Marked
                          /\ \E c \in Changes(work[p], Editing[p], Ours) :
                               /\ work' = [work EXCEPT ![p] = c]
                               /\ draft' = [draft EXCEPT ![p] = Draft(p, c)]
                          /\ late' = IF phase = "idle" THEN late ELSE late \cup {p}
    BY <1>5 DEF Edit
  <2>3. PICK c \in Changes(work[p], Editing[p], Ours) : /\ work' = [work EXCEPT ![p] = c]
                                               /\ draft' = [draft EXCEPT ![p] = Draft(p, c)]
    BY <2>2
  <2>4. c \in Content
    BY <2>2, ChangesType, FileAssumption DEF FilesType
  <2>5. Draft(p, c) \in Content \cup {None}
    BY <2>4 DEF Draft
  <2>6. FilesType'
    BY <2>1, <2>2, <2>3, <2>4, <2>5 DEF FilesType
  <2>7. RunType'
    BY <2>1 DEF run, upstream, RunType
  <2> QED
    BY <1>1, <1>2, <2>1, <2>6, <2>7
<1>6. CASE CommitEdits
  <2>1. UNCHANGED <<upstream, work, stash, edits, late>> /\ Forget
    BY <1>6 DEF CommitEdits
  <2>2. head' \in Tree
    BY <1>6 DEF CommitEdits, FilesType, Tree
  <2>3. /\ synced' \in 1..Len(versions') /\ custom' \in [Path -> SUBSET Field]
        /\ dropped' \subseteq Path
    BY <1>6, <2>1 DEF CommitEdits, CommitsType, upstream
  <2>4. draft' \in [Path -> Content \cup {None}]
    BY <1>6 DEF CommitEdits, FilesType
  <2>5. RunType'
    BY <1>4, <2>1 DEF Forget, RunType
  <2> QED
    BY <1>1, <2>1, <2>2, <2>3, <2>4, <2>5 DEF FilesType, CommitsType
<1>7. CASE Discard \/ Undo
  <2>1. PICK paths : Restore(paths)
    BY <1>7 DEF Discard, Undo
  <2>2. UNCHANGED <<upstream, commits, stash, edits, late>> /\ Forget
    BY <2>1 DEF Restore
  <2>3. work' \in [Path -> Content \cup {Marked}] /\ draft' \in [Path -> Content \cup {None}]
    BY <2>1 DEF Restore, FilesType, CommitsType, Tree
  <2>4. RunType'
    BY <1>4, <2>2 DEF Forget, RunType
  <2> QED
    BY <1>1, <1>2, <2>2, <2>3, <2>4 DEF FilesType
<1>8. CASE Finish
  <2>1. UNCHANGED <<upstream, stash, edits, late>> /\ Forget /\ SyncCommit(work')
    BY <1>8 DEF Finish
  <2>2. message = Instructions
    BY <1>8 DEF Finish, Stages
  <2>3. PICK c \in [message.conflicts -> File] :
          work' = [p \in Path |-> IF p \in message.conflicts THEN c[p] ELSE work[p]]
    BY <1>8 DEF Finish
  <2>4. work' \in [Path -> Content \cup {Marked}]
    BY <2>3, ContentFacts DEF FilesType
  <2>5. draft' \in [Path -> Content \cup {None}]
    BY <1>8 DEF Finish, FilesType
  <2>6. \A p \in Touched : work'[p] \in Content
    <3>1. message.touched = Touched
      BY <2>2 DEF Instructions
    <3>2. \A p \in Touched : work'[p] # Marked
      BY <1>8, <3>1 DEF Finish
    <3> QED
      BY <2>4, <3>2, TouchedFacts
  <2>7. CommitsType'
    BY <2>1, <2>6, SyncCommitType
  <2>8. RunType'
    BY <1>4, <2>1 DEF Forget, RunType
  <2> QED
    BY <1>1, <2>1, <2>4, <2>5, <2>7, <2>8 DEF FilesType
<1>9. CASE OwnersPop
  <2>1. /\ UNCHANGED <<upstream, commits, edits, late, local, phase, force, target, message>>
        /\ outcome' \in Outcomes /\ stash # <<>> /\ ~PopRefused /\ PopStash
    BY <1>9 DEF OwnersPop, Outcomes
  <2>2. FilesType'
    BY <2>1, PopType DEF FilesType
  <2> QED
    BY <1>1, <1>2, <1>4, <2>1, <2>2
<1>10. CASE ResolvePop
  <2>1. /\ UNCHANGED <<upstream, commits, edits, late, local, phase, force, target, message>>
        /\ outcome' = "none" /\ stash # <<>>
    BY <1>10 DEF ResolvePop
  <2>2. Newest \in Entry /\ stash' \in Seq(Entry) /\ Len(stash') = Len(stash) - 1
    <3>1. stash' = SubSeq(stash, 1, Len(stash) - 1)
      BY <1>10 DEF ResolvePop
    <3>2. stash \in Seq(Entry)
      BY DEF FilesType
    <3>3. stash' \in Seq(Entry) /\ Len(stash') = Len(stash) - 1
      BY <2>1, <3>1, <3>2, AllButLast
    <3>4. Newest \in Entry
      BY <2>1, <3>2 DEF Newest
    <3> QED
      BY <3>3, <3>4
  <2>3. work' \in [Path -> Content \cup {Marked}]
    BY <1>10, <2>2 DEF ResolvePop, FilesType, CommitsType, Entry, Tree
  <2>4. draft' \in [Path -> Content \cup {None}]
    <3>1. \A p \in Path : Taken(p, work'[p]) \in Content \cup {None}
      BY <2>3, TakenType
    <3> QED
      BY <1>10, <3>1 DEF ResolvePop, FilesType
  <2>5. FilesType'
    BY <2>1, <2>2, <2>3, <2>4, BoundAssumption DEF FilesType
  <2> QED
    BY <1>1, <1>2, <1>4, <2>1, <2>5 DEF Outcomes
<1>11. CASE Crash
  <2>1. End("none") /\ UNCHANGED <<upstream, commits, files, target, message>>
    BY <1>11 DEF Crash
  <2>2. RunType'
    BY <2>1, EndType DEF RunType, Outcomes, upstream
  <2> QED
    BY <1>1, <1>2, <1>3, <2>1, <2>2
<1>12. CASE Release
  <2>1. UNCHANGED <<tracking, moved, commits, files, run>> /\ Len(versions) <= MaxReleases
    BY <1>12 DEF Release
  <2>2. PICK p \in Path : \E c \in Changes(versions[Len(versions)][p], Changing[p], Theirs) :
          versions' = Append(versions, [versions[Len(versions)] EXCEPT ![p] = c])
    BY <1>12 DEF Release
  <2>3. PICK c \in Changes(versions[Len(versions)][p], Changing[p], Theirs) :
          versions' = Append(versions, [versions[Len(versions)] EXCEPT ![p] = c])
    BY <2>2
  <2>4. Len(versions) \in 1..Len(versions)
    BY DEF UpstreamType
  <2>5. versions[Len(versions)] \in Tree /\ versions[Len(versions)][p] \in Content
    BY <2>4, VersionTypes
  <2>6. c \in Content
    BY <2>5, ChangesType, FileAssumption
  <2>7. [versions[Len(versions)] EXCEPT ![p] = c] \in Tree
    BY <2>5, <2>6 DEF Tree
  <2>8. versions' \in Seq(Tree) /\ Len(versions') = Len(versions) + 1
    BY <2>3, <2>7 DEF UpstreamType
  <2>9. UpstreamType'
    BY <2>1, <2>8, BoundAssumption DEF UpstreamType
  <2>10. CommitsType' /\ RunType'
    BY <2>1, <2>8 DEF UpstreamType, CommitsType, RunType, commits, run
  <2> QED
    BY <1>3, <2>1, <2>9, <2>10
<1>13. CASE BackgroundFetch
  <2>1. UNCHANGED <<versions, commits, files, run>> /\ tracking' \in 1..Len(versions) /\ moved'
    BY <1>13 DEF BackgroundFetch, UpstreamType
  <2> QED
    BY <1>3, <2>1 DEF UpstreamType, CommitsType, RunType, commits, run
<1> QED
  BY <1>5, <1>6, <1>7, <1>8, <1>9, <1>10, <1>11, <1>12, <1>13 DEF Owner

LEMMA TypeStep == TypeOK /\ Stages /\ [Next]_vars => TypeOK'
<1>1. TypeOK /\ UNCHANGED vars => TypeOK'
  BY DEF vars, upstream, commits, files, run, TypeOK, UpstreamType, CommitsType, FilesType, RunType
<1> QED
  BY <1>1, RunTypeStep, OthersTypeStep DEF Next

-----------------------------------------------------------------------------
\* Each stage of a run leads to the next as Stages has it.
LEMMA StagesRunStep == TypeOK /\ Stages /\ Run => Stages'
<1> SUFFICES ASSUME TypeOK, Stages, Run PROVE Stages'
  OBVIOUS
<1> USE DEF Stages
<1>1. TypeOK'
  BY RunTypeStep
<1>2. ASSUME UNCHANGED <<upstream, head, synced, target, force>>
      PROVE  Touched' = Touched /\ Conflicts' = Conflicts /\ Instructions' = Instructions
  BY <1>2, PlanStable DEF upstream
<1>3. ASSUME NEW how, End(how), message' = message, stash' = stash, message = None
      PROVE  Stages'
  BY <1>3 DEF End
<1>4. ASSUME NEW f \in BOOLEAN, Start(f) PROVE Stages'
  <2>1. /\ phase = "idle" /\ phase' = "checked" /\ force' = f /\ message' = None
        /\ dirty' = {p \in Path : work[p] # head[p]} /\ (dirty' = {} \/ f)
        /\ UNCHANGED <<commits, files, applied, stashed>>
    BY <1>4 DEF Start, DirtyPaths
  <2> QED
    BY <2>1 DEF commits, files
<1>5. CASE Fetch
  <2>1. phase = "checked" /\ UNCHANGED <<commits, files, message>>
    BY <1>5 DEF Fetch
  <2>2. CASE Goto("planned")
    BY <2>1, <2>2 DEF Goto, local, commits, files
  <2>3. CASE End("none")
    BY <1>3, <2>1, <2>3 DEF files
  <2> QED
    BY <1>5, <2>2, <2>3 DEF Fetch
<1>6. CASE Stash
  <2>1. /\ phase = "planned" /\ phase' = "apply" /\ message' = message
        /\ UNCHANGED <<upstream, commits, draft, late, force, dirty, applied, target>>
    BY <1>6 DEF Stash
  <2>2. applied = {} /\ message = None
    BY <2>1
  <2>3. stashed' => stash' # <<>>
    <3> DEFINE entry == [on |-> head, edits |-> work, paths |-> dirty]
    <3>1. stashed' => stash' = Append(stash, entry)
      BY <1>6 DEF Stash
    <3>2. stash \in Seq(Entry) /\ entry \in Entry
      BY DEF TypeOK, FilesType, CommitsType, RunType, Entry
    <3>3. Append(stash, entry) # <<>>
      BY <3>2
    <3> QED
      BY <3>1, <3>3
  <2>4. ~force => work' = work
    BY <1>6, <2>1 DEF Stash
  <2> QED
    BY <2>1, <2>2, <2>3, <2>4 DEF commits
<1>7. ASSUME NEW p \in Path, ApplyPath(p) PROVE Stages'
  <2>1. /\ phase = "apply" /\ p \in Touched \ applied /\ message = None
        /\ UNCHANGED <<upstream, commits, stash, draft, target, message>>
    BY <1>7 DEF ApplyPath
  <2>2. CASE ~Refuses(p)
    <3>1. /\ work' = [work EXCEPT ![p] = Written(p)] /\ applied' = applied \cup {p}
          /\ UNCHANGED <<phase, force, outcome, dirty, stashed>>
      BY <1>7, <2>2 DEF ApplyPath
    <3>2. Touched' = Touched /\ Conflicts' = Conflicts
      BY <1>2, <2>1, <3>1 DEF commits
    <3>3. p \notin Conflicts => Written(p) # Marked
      BY WrittenType DEF Conflicts
    <3>4. work \in [Path -> Content \cup {Marked}]
      BY DEF TypeOK, FilesType
    <3>5. \A q \in applied' \ Conflicts' : work'[q] # Marked
      BY <2>1, <3>1, <3>2, <3>3, <3>4, TouchedFacts
    <3>6. ~force' => \A q \in Path \ applied' : work'[q] \in {head'[q], draft'[q]}
      BY <2>1, <3>1, <3>4 DEF commits
    <3> QED
      BY <2>1, <3>1, <3>2, <3>5, <3>6
  <2>3. CASE Refuses(p)
    BY <1>3, <1>7, <2>1, <2>3 DEF ApplyPath
  <2> QED
    BY <2>2, <2>3
<1>8. CASE Conclude
  <2>1. phase = "apply" /\ Touched \subseteq applied /\ UNCHANGED <<upstream, commits, files, target>>
    BY <1>8 DEF Conclude
  <2>2. CASE Conflicts # {}
    <3>1. message' = Instructions /\ End("none")
      BY <1>8, <2>2 DEF Conclude
    <3>2. force' = force
      BY <2>2, <3>1, TouchedFacts DEF End, TypeOK, RunType
    <3>3. Instructions' = Instructions
      BY <1>2, <2>1, <3>2 DEF commits
    <3> QED
      BY <3>1, <3>3 DEF End
  <2>3. CASE Conflicts = {}
    <3>1. Goto(IF Touched = {} THEN "pop" ELSE "commit") /\ UNCHANGED message
      BY <1>8, <2>3 DEF Conclude
    <3>2. Touched' = Touched /\ Conflicts' = Conflicts
      BY <1>2, <2>1, <3>1 DEF Goto, commits
    <3> QED
      BY <2>1, <2>3, <3>1, <3>2 DEF Goto, local, files
  <2> QED
    BY <2>2, <2>3
<1>9. CASE Commit
  <2>1. phase = "commit" /\ message' = message /\ stash' = stash /\ message = None
    BY <1>9 DEF Commit
  <2>2. CASE Goto("pop")
    BY <2>1, <2>2 DEF Goto, local
  <2>3. CASE End("empty")
    BY <1>3, <2>1, <2>3
  <2> QED
    BY <1>9, <2>2, <2>3 DEF Commit
<1>10. CASE Pop
  <2>1. message' = message /\ message = None /\ \E how : End(how)
    BY <1>10 DEF Pop
  <2> QED
    BY <2>1 DEF End
<1> QED
  BY <1>4, <1>5, <1>6, <1>7, <1>8, <1>9, <1>10 DEF Run

\* What happens beside the program disturbs none of them.
LEMMA StagesOthersStep ==
  TypeOK /\ Stages /\ (Owner \/ Crash \/ Release \/ BackgroundFetch) => Stages'
<1> SUFFICES ASSUME TypeOK, Stages, Owner \/ Crash \/ Release \/ BackgroundFetch PROVE Stages'
  OBVIOUS
<1>1. ASSUME UNCHANGED <<upstream, head, synced, target, force>>
      PROVE  Touched' = Touched /\ Conflicts' = Conflicts /\ Instructions' = Instructions
  BY <1>1, PlanStable DEF upstream
<1>2. ASSUME phase = "idle", UNCHANGED <<local, phase, force>>, message' = None
      PROVE  Stages'
  BY <1>2 DEF Stages, local
<1>3. ASSUME phase = "idle", UNCHANGED <<upstream, commits, local, phase, force, target, message>>
      PROVE  Stages'
  <2>1. Instructions' = Instructions
    BY <1>1, <1>3 DEF commits
  <2> QED
    BY <1>3, <2>1 DEF Stages, local
<1>4. CASE Edit
  <2>1. UNCHANGED <<upstream, commits, stash, run>>
    BY <1>4 DEF Edit
  <2>2. PICK p \in Path : /\ work[p] # Marked
                          /\ \E c \in Changes(work[p], Editing[p], Ours) :
                               /\ work' = [work EXCEPT ![p] = c]
                               /\ draft' = [draft EXCEPT ![p] = Draft(p, c)]
                          /\ late' = IF phase = "idle" THEN late ELSE late \cup {p}
    BY <1>4 DEF Edit
  <2>3. PICK c \in Changes(work[p], Editing[p], Ours) : /\ work' = [work EXCEPT ![p] = c]
                                               /\ draft' = [draft EXCEPT ![p] = Draft(p, c)]
    BY <2>2
  <2>4. work \in [Path -> Content \cup {Marked}] /\ draft \in [Path -> Content \cup {None}]
    BY DEF TypeOK, FilesType
  <2>5. c # Marked
    BY <2>2, <2>4, ChangesType, FileAssumption, ContentFacts
  <2>6. Touched' = Touched /\ Conflicts' = Conflicts /\ Instructions' = Instructions
    BY <1>1, <2>1 DEF run, commits
  <2>7. work'[p] \in {head[p], draft'[p]}
    BY <2>3, <2>4 DEF Draft
  <2>8. \A q \in Path \ {p} : work'[q] = work[q] /\ draft'[q] = draft[q]
    BY <2>3, <2>4
  <2>9. phase # "idle" => late' = late \cup {p}
    BY <2>2
  <2>10. work'[p] # Marked
    BY <2>3, <2>4, <2>5
  <2>11. \A q \in Path : work[q] # Marked => work'[q] # Marked
    BY <2>8, <2>10
  <2>12. \A q \in Path : work[q] \in {head[q], draft[q]} => work'[q] \in {head'[q], draft'[q]}
    BY <2>1, <2>7, <2>8 DEF commits
  <2>13. phase # "idle" =>
           \A q \in Path \ (late' \cup dirty) : work[q] = head[q] => work'[q] = head'[q]
    BY <2>1, <2>8, <2>9 DEF commits
  <2>14. UNCHANGED <<phase, force, dirty, target, applied, stashed, message, stash>>
    BY <2>1 DEF run
  <2>15. phase # "idle" => late \subseteq late'
    BY <2>9
  <2>16. phase \in {"checked", "planned"} =>
           /\ \A q \in Path \ (late' \cup dirty) : work'[q] = head'[q]
           /\ ~force => \A q \in Path : work'[q] \in {head'[q], draft'[q]}
    BY <2>12, <2>13, <2>15 DEF Stages
  <2>17. phase = "apply" =>
           /\ \A q \in applied \ Conflicts : work'[q] # Marked
           /\ ~force => \A q \in Path \ applied : work'[q] \in {head'[q], draft'[q]}
    BY <2>11, <2>12, TouchedFacts DEF Stages
  <2>18. phase = "commit" => \A q \in Touched : work'[q] # Marked
    BY <2>11, TouchedFacts DEF Stages
  <2> QED
    BY <2>6, <2>14, <2>16, <2>17, <2>18 DEF Stages
<1>5. CASE CommitEdits
  BY <1>2, <1>5 DEF CommitEdits, Forget
<1>6. CASE Discard \/ Undo
  BY <1>2, <1>6 DEF Discard, Undo, Restore, Forget
<1>7. CASE Finish
  BY <1>2, <1>7 DEF Finish, Forget
<1>8. CASE OwnersPop \/ ResolvePop
  BY <1>3, <1>8 DEF OwnersPop, ResolvePop
<1>9. CASE Crash
  <2>1. phase # "idle" /\ End("none") /\ message' = message
    BY <1>9 DEF Crash
  <2> QED
    BY <2>1 DEF Stages, End
<1>10. CASE Release
  <2>1. UNCHANGED <<tracking, moved, commits, files, run>>
    BY <1>10 DEF Release
  <2>2. PICK new : versions' = Append(versions, new)
    BY <1>10 DEF Release
  <2>3. \A i \in 1..Len(versions) : versions'[i] = versions[i]
    BY <2>2 DEF TypeOK, UpstreamType
  <2>4. Touched' = Touched /\ Conflicts' = Conflicts /\ Instructions' = Instructions
    BY <2>1, <2>3, PlanStable DEF commits, run
  <2> QED
    BY <2>1, <2>4 DEF Stages, commits, files, run
<1>11. CASE BackgroundFetch
  <2>1. UNCHANGED <<versions, commits, files, run>>
    BY <1>11 DEF BackgroundFetch
  <2>2. Touched' = Touched /\ Conflicts' = Conflicts /\ Instructions' = Instructions
    BY <2>1, PlanStable DEF commits, run
  <2> QED
    BY <2>1, <2>2 DEF Stages, commits, files, run
<1> QED
  BY <1>4, <1>5, <1>6, <1>7, <1>8, <1>9, <1>10, <1>11 DEF Owner

LEMMA StagesStep == TypeOK /\ Stages /\ [Next]_vars => Stages'
<1>1. TypeOK /\ Stages /\ UNCHANGED vars => Stages'
  <2> SUFFICES ASSUME TypeOK, Stages, UNCHANGED vars PROVE Stages'
    OBVIOUS
  <2>1. UNCHANGED <<upstream, commits, files, run>>
    BY DEF vars
  <2>2. Touched' = Touched /\ Conflicts' = Conflicts /\ Instructions' = Instructions
    BY <2>1, PlanStable DEF upstream, commits, run
  <2> QED
    BY <2>1, <2>2 DEF Stages, commits, files, run
<1> QED
  BY <1>1, StagesRunStep, StagesOthersStep DEF Next

LEMMA StartFacts == Init => TypeOK /\ Stages
<1> SUFFICES ASSUME Init PROVE TypeOK /\ Stages
  OBVIOUS
<1>1. First \in Tree /\ First \in [Path -> Content]
  BY FileAssumption DEF Tree
<1>2. versions = <<First>> /\ Len(versions) = 1 /\ versions \in Seq(Tree)
  BY <1>1 DEF Init
<1>3. UpstreamType
  <2>1. Len(versions) \in 1..(MaxReleases + 1) /\ 1 \in 1..Len(versions)
    BY <1>2, BoundAssumption
  <2>2. tracking = 1 /\ moved = FALSE
    BY DEF Init
  <2> QED
    BY <1>2, <2>1, <2>2 DEF UpstreamType
<1>4. CommitsType
  BY <1>1, <1>2 DEF Init, CommitsType
<1>5. FilesType
  BY <1>1, BoundAssumption DEF Init, FilesType, Tree
<1>6. RunType
  <2>1. /\ phase = "idle" /\ force = FALSE /\ target = 1 /\ dirty = {} /\ applied = {}
        /\ stashed = FALSE /\ message = None /\ outcome = "none"
    BY DEF Init
  <2>2. target \in 1..Len(versions)
    BY <1>2, <2>1
  <2> QED
    BY <2>1, <2>2 DEF RunType, Phases, Outcomes
<1> QED
  BY <1>3, <1>4, <1>5, <1>6 DEF TypeOK, Init, Stages

\* The types hold, and the stages of a run are what they seem, in every state.
THEOREM TypeCorrect == Spec => [](TypeOK /\ Stages)
<1>1. Init => TypeOK /\ Stages
  BY StartFacts
<1>2. TypeOK /\ Stages /\ [Next]_vars => (TypeOK /\ Stages)'
  BY TypeStep, StagesStep
<1> QED
  BY <1>1, <1>2, PTL DEF Spec

-----------------------------------------------------------------------------
\* Only Conclude ever tells the owner anything.
LEMMA WhoTells ==
  ASSUME Next
  PROVE  Conclude \/ message' \in {message, None}
<1>1. CASE Run
  BY <1>1 DEF Run, Start, Fetch, Stash, ApplyPath, Commit, Pop
<1>2. CASE Owner
  BY <1>2 DEF Owner, Edit, CommitEdits, Discard, Undo, Finish, Restore, OwnersPop, ResolvePop,
              Forget, run
<1>3. CASE Crash \/ Release \/ BackgroundFetch
  BY <1>3 DEF Crash, Release, BackgroundFetch, run
<1> QED
  BY <1>1, <1>2, <1>3 DEF Next

\* The undo a conflicting update prints undoes all of it.  A run with
\* conflicts is not forced, so there was nothing to stash, and what it has
\* written is among the paths the message names: both are parts of Stages.
THEOREM UndoCorrect == Spec => UndoIsComplete
<1> DEFINE Complete == message' # None =>
             \A p \in Path \ message'.touched : work'[p] \in {head'[p], draft'[p]}
<1>1. ASSUME TypeOK, Stages, [Next]_vars PROVE [Complete]_message
  <2>1. CASE Conclude
    <3>1. CASE Conflicts # {}
      <4>1. phase = "apply" /\ message' = Instructions /\ UNCHANGED <<commits, files>>
        BY <2>1, <3>1 DEF Conclude
      <4>2. message'.touched = Touched
        BY <4>1 DEF Instructions
      <4>3. ~force /\ applied \subseteq Touched
        BY <1>1, <3>1, <4>1, TouchedFacts DEF Stages
      <4>4. \A p \in Path \ Touched : work[p] \in {head[p], draft[p]}
        BY <1>1, <4>1, <4>3 DEF Stages
      <4> QED
        BY <4>1, <4>2, <4>4 DEF commits, files
    <3>2. CASE Conflicts = {}
      BY <2>1, <3>2 DEF Conclude
    <3> QED
      BY <3>1, <3>2
  <2>2. CASE message' \in {message, None}
    BY <2>2
  <2>3. CASE UNCHANGED vars
    BY <2>3 DEF vars, run
  <2> QED
    BY <1>1, <2>1, <2>2, <2>3, WhoTells
<1> QED
  BY <1>1, TypeCorrect, PTL DEF Spec, UndoIsComplete

-----------------------------------------------------------------------------
(* No upstream change is missed, if the owner never switches to an older      *)
(* branch.                                                                    *)

\* A run goes forward, and upstream/<ref> stays where the plan has read it.
Forward == synced <= target /\ (~moved => tracking = target)

UpdateInv == TypeOK /\ Stages /\ Forward

LEMMA ForwardStep ==
  ASSUME ~Switching, UpdateInv, [Next]_vars
  PROVE  Forward'
<1> USE DEF UpdateInv
<1>1. synced \in Nat /\ target \in Nat /\ Len(versions) \in Nat /\ synced <= Len(versions)
  BY DEF TypeOK, UpstreamType, CommitsType, RunType
<1>2. ASSUME UNCHANGED <<synced, target, tracking, moved>> PROVE Forward'
  BY <1>2 DEF Forward
<1>3. ASSUME synced' = target, UNCHANGED <<target, tracking, moved>> PROVE Forward'
  BY <1>1, <1>3 DEF Forward
<1>4. CASE Fetch
  <2>1. tracking' = Len(versions) /\ target' = tracking' /\ synced' = synced
    BY <1>4 DEF Fetch, commits
  <2> QED
    BY <1>1, <2>1 DEF Forward
<1>5. CASE Commit
  BY <1>2, <1>3, <1>5 DEF Commit, SyncCommit, upstream, commits
<1>6. CASE Finish
  BY <1>3, <1>6 DEF Finish, SyncCommit, Forget, upstream
<1>7. CASE BackgroundFetch
  <2>1. moved' /\ synced' = synced /\ target' = target
    BY <1>7 DEF BackgroundFetch, commits, run
  <2> QED
    BY <2>1 DEF Forward
<1>8. CASE Run /\ ~Fetch /\ ~Commit
  BY <1>2, <1>8 DEF Run, Start, Stash, ApplyPath, Conclude, Pop, upstream, commits
<1>9. CASE Owner /\ ~Finish
  BY <1>2, <1>9 DEF Owner, Edit, CommitEdits, Discard, Undo, Restore, OwnersPop, ResolvePop,
                    Forget, upstream, commits, run
<1>10. CASE Crash \/ Release \/ UNCHANGED vars
  BY <1>2, <1>10 DEF Crash, Release, vars, upstream, commits, run
<1> QED
  BY <1>4, <1>5, <1>6, <1>7, <1>8, <1>9, <1>10 DEF Next

LEMMA UpdateInvariance ==
  ASSUME ~Switching
  PROVE  Spec => []UpdateInv
<1>1. Init => UpdateInv
  <2>1. Init => Forward
    BY DEF Init, Forward
  <2> QED
    BY <2>1, StartFacts DEF UpdateInv
<1>2. UpdateInv /\ [Next]_vars => UpdateInv'
  BY ForwardStep, TypeStep, StagesStep DEF UpdateInv
<1> QED
  BY <1>1, <1>2, PTL DEF Spec

\* What a sync commits at p agrees with the version it records wherever the
\* content is not the owner's, but for a mode a clean merge has left as it was: the base of the merge is the version synced
\* before, so what agrees with it is what upstream may replace.
LEMMA SyncMissesNothing ==
  ASSUME UpdateInv, ~moved, NothingMissed, NEW content, SyncCommit(content), UNCHANGED versions,
         NEW p \in Path, NEW f \in Field \ custom'[p]
  PROVE  Agree(head'[p], versions'[synced'][p], f) \/ (f = Mode /\ p \in dropped')
<1> DEFINE b == versions[synced][p]
           o == head[p]
           t == versions[target][p]
<1> USE DEF UpdateInv
<1>1. SyncBase(target) = synced /\ tracking = target
  BY DEF Forward, SyncBase
<1>2. b \in Content /\ o \in Content /\ t \in Content
  BY <1>1, VersionTypes DEF TypeOK, CommitsType, RunType, Tree
<1>3. Planned(p) = Category(p, b, o, t)
  BY <1>1 DEF Planned
<1>4. /\ head'[p] = IF p \in Touched THEN content[p] ELSE o
      /\ versions'[synced'][p] = t
  BY DEF SyncCommit
<1>5. SUFFICES ASSUME ~Agree(head'[p], t, f), f = Mode => p \notin dropped' PROVE FALSE
  BY <1>4
<1>6. f \notin Yours(p, content)
  BY <1>5 DEF SyncCommit
<1>7. f \notin custom[p] /\ Yours(p, content) = custom[p]
  BY <1>6 DEF Yours
<1>8. ~(f = Mode /\ (p \in dropped \/ Action(p) = "write-merged"))
  BY <1>5 DEF SyncCommit, TypeOK, CommitsType
<1>9. Agree(o, b, f)
  BY <1>7, <1>8 DEF NothingMissed
<1>10. ~(Action(p) # "upstream" /\ Planned(p) \in {"conflict", "kept-deleted", "kept-modified"})
  BY <1>6 DEF Yours
<1>11. p \in Touched \ Conflicts => head'[p] = Written(p)
  BY <1>4, <1>6 DEF Yours
<1>12. head'[p] # t
  BY <1>5 DEF Agree
<1>13. CASE Action(p) = "upstream"
  <2>1. p \in Touched \ Conflicts
    BY <1>13 DEF Touched, Conflicts
  <2>2. Written(p) = t
    BY <1>1, <1>13 DEF Written, Rank
  <2> QED
    BY <1>11, <1>12, <2>1, <2>2
<1>14. CASE Action(p) = "write-merged"
  <2>1. p \in Touched \ Conflicts
    BY <1>14 DEF Touched, Conflicts
  <2>2. Planned(p) = "merge-clean" /\ o \in File /\ t \in File
    BY <1>14, ActionFacts
  <2>3. head'[p] = MergeFile(b, o, t)
    BY <1>1, <1>11, <1>14, <2>1 DEF Written
  <2>4. ~TextConflict(b, o, t)
    BY <1>3, <2>2 DEF Category, Classify
  <2>5. f \in Hunk
    BY <1>8, <1>14 DEF Field
  <2>6. MergeFile(b, o, t) \in File
    BY <1>2, <2>2, MergeType
  <2>7. MergeFile(b, o, t)[f] = IF b # Absent /\ o[f] = b[f] THEN t[f] ELSE o[f]
    BY <1>8, <1>14 DEF MergeFile
  <2>8. MergeFile(b, o, t)[f] # t[f]
    BY <1>5, <2>2, <2>3, <2>6 DEF Agree
  <2>9. b # Absent /\ o[f] # b[f]
    BY <2>4, <2>5, <2>7, <2>8 DEF TextConflict
  <2>10. b \in File
    BY <1>2, <2>9 DEF Content
  <2> QED
    BY <1>9, <2>2, <2>9, <2>10 DEF Agree
<1>15. CASE Action(p) \in {"conflict", "none"}
  <2>1. Action(p) = "none"
    BY <1>10, <1>15, ActionFacts
  <2>2. head'[p] = o
    BY <1>4, <2>1 DEF Touched
  <2>3. Planned(p) \notin {"fast-forward", "merge-clean", "conflict"}
    BY <2>1 DEF Action
  <2>4. o = t \/ t = b
    BY <1>3, <1>10, <2>1, <2>3 DEF Category, Classify
  <2> QED
    BY <1>5, <1>9, <1>12, <2>2, <2>4
<1> QED
  BY <1>13, <1>14, <1>15, ActionFacts

LEMMA MissedStep ==
  ASSUME ~Switching, UpdateInv, NothingMissed, [Next]_vars
  PROVE  NothingMissed'
<1> USE DEF UpdateInv
<1>1. synced \in 1..Len(versions)
  BY DEF TypeOK, CommitsType
<1>2. ASSUME UNCHANGED <<moved, commits>>, versions'[synced] = versions[synced]
      PROVE  NothingMissed'
  BY <1>2 DEF NothingMissed, commits
<1>3. ASSUME NEW content, SyncCommit(content), UNCHANGED upstream
      PROVE  NothingMissed'
  <2>1. UNCHANGED <<versions, moved>>
    BY <1>3 DEF upstream
  <2> SUFFICES ASSUME ~moved, NEW p \in Path, NEW f \in Field \ custom'[p]
               PROVE  Agree(head'[p], versions'[synced'][p], f) \/ (f = Mode /\ p \in dropped')
    BY <2>1 DEF NothingMissed
  <2> QED
    BY <1>3, <2>1, SyncMissesNothing
<1>4. CASE Commit
  BY <1>2, <1>3, <1>4 DEF Commit, upstream
<1>5. CASE Finish
  BY <1>3, <1>5 DEF Finish
<1>6. CASE CommitEdits
  <2>1. /\ UNCHANGED upstream /\ head' = work /\ synced' = synced
        /\ custom' = [p \in Path |->
                       {f \in custom[p] \cup {g \in Field : ~Agree(head[p], work[p], g)} :
                          ~Agree(work[p], versions[synced][p], f)}]
        /\ dropped' = {p \in dropped : ~Agree(work[p], versions[synced][p], Mode)}
    BY <1>6 DEF CommitEdits
  <2> SUFFICES ASSUME ~moved, NEW p \in Path, NEW f \in Field,
                      ~Agree(work[p], versions[synced][p], f)
               PROVE  f \in custom'[p] \/ (f = Mode /\ p \in dropped')
    BY <2>1 DEF NothingMissed, upstream
  <2>2. CASE f \in custom[p]
    BY <2>1, <2>2
  <2>3. CASE f = Mode /\ p \in dropped
    BY <2>1, <2>3
  <2>4. CASE f \notin custom[p] /\ ~(f = Mode /\ p \in dropped)
    <3>1. Agree(head[p], versions[synced][p], f)
      BY <2>4 DEF NothingMissed
    <3>2. ~Agree(head[p], work[p], f)
      BY <3>1 DEF Agree
    <3> QED
      BY <2>1, <3>2
  <2> QED
    BY <2>2, <2>3, <2>4
<1>7. CASE Release
  <2>1. UNCHANGED <<moved, commits>>
    BY <1>7 DEF Release
  <2>2. PICK new : versions' = Append(versions, new)
    BY <1>7 DEF Release
  <2>3. versions'[synced] = versions[synced]
    BY <1>1, <2>2 DEF TypeOK, UpstreamType
  <2> QED
    BY <1>2, <2>1, <2>3
<1>8. CASE BackgroundFetch
  BY <1>8 DEF BackgroundFetch, NothingMissed
<1>9. CASE Run /\ ~Commit
  BY <1>2, <1>9 DEF Run, Start, Fetch, Stash, ApplyPath, Conclude, Pop, upstream
<1>10. CASE Owner /\ ~Finish /\ ~CommitEdits
  BY <1>2, <1>10 DEF Owner, Edit, Discard, Undo, Restore, OwnersPop, ResolvePop, upstream
<1>11. CASE Crash \/ UNCHANGED vars
  BY <1>2, <1>11 DEF Crash, vars, upstream
<1> QED
  BY <1>4, <1>5, <1>6, <1>7, <1>8, <1>9, <1>10, <1>11 DEF Next

\* No upstream change is missed in a fork that follows one branch: what its owner
\* has not made his own, hunk or mode, is committed as the recorded version has it,
\* but for the modes of files that were merged.
THEOREM NothingMissedCorrect ==
  ASSUME ~Switching
  PROVE  Spec => []NothingMissed
<1>1. Init => NothingMissed
  <2>1. Init => \A p \in Path : head[p] = versions[synced][p]
    <3>1. Init => head = First /\ synced = 1 /\ versions = <<First>>
      BY DEF Init
    <3> QED
      BY <3>1
  <2> QED
    BY <2>1 DEF NothingMissed, Agree
<1>2. UpdateInv /\ NothingMissed /\ [Next]_vars => NothingMissed'
  BY MissedStep
<1> QED
  BY <1>1, <1>2, UpdateInvariance, PTL DEF Spec

-----------------------------------------------------------------------------
(* No uncommitted edit is lost.                                               *)

Hidden(p) == draft[p] = None \/ Stashed(p, draft[p])

\* A draft that is in the working tree only is dirty, so that a run stashes it;
\* and a run writes nothing before that.
Kept ==
  /\ \A p \in Path \ late : Hidden(p) \/ (work[p] = draft[p] /\ draft[p] # head[p])
  /\ phase = "apply" => \A p \in Path \ late : Hidden(p)

KeptInv == TypeOK /\ Stages /\ Kept

\* A pop takes the newest entry only, and puts what it takes in the working tree.
LEMMA PopKeeps ==
  ASSUME TypeOK, stash # <<>>, stash' \in {stash, SubSeq(stash, 1, Len(stash) - 1)},
         NEW p \in Path, NEW c, Stashed(p, c), p \notin Newest.paths \/ Newest.edits[p] # c
  PROVE  Stashed(p, c)'
<1>1. stash \in Seq(Entry) /\ Len(stash) \in Nat \ {0}
  BY DEF TypeOK, FilesType
<1>2. PICK i \in 1..Len(stash) : p \in stash[i].paths /\ stash[i].edits[p] = c
  BY DEF Stashed
<1>3. i \in 1..(Len(stash) - 1)
  BY <1>1, <1>2 DEF Newest
<1>4. CASE stash' = stash
  BY <1>2, <1>4 DEF Stashed
<1>5. CASE stash' = SubSeq(stash, 1, Len(stash) - 1)
  <2>1. Len(stash') = Len(stash) - 1 /\ stash'[i] = stash[i]
    BY <1>1, <1>3, <1>5, AllButLast
  <2> QED
    BY <1>2, <1>3, <2>1 DEF Stashed
<1> QED
  BY <1>4, <1>5

LEMMA PopKept ==
  ASSUME TypeOK, stash # <<>>, ~PopRefused, PopStash, UNCHANGED head, NEW p \in Path,
         Hidden(p) \/ (work[p] = draft[p] /\ draft[p] # head[p])
  PROVE  (Hidden(p) \/ (work[p] = draft[p] /\ draft[p] # head[p]))'
<1> DEFINE clashes == {q \in Newest.paths : Clash(q)}
<1>1. /\ work'[p] = Popped(p)
      /\ draft'[p] = IF p \in Newest.paths \ clashes THEN Taken(p, Popped(p)) ELSE draft[p]
      /\ stash' = IF clashes = {} THEN SubSeq(stash, 1, Len(stash) - 1) ELSE stash
  BY DEF PopStash
<1> DEFINE back == /\ p \in Newest.paths \ clashes
                   /\ draft[p] \in {None, Newest.edits[p]} /\ Popped(p) # Marked
<1>2. CASE back
  BY <1>1, <1>2 DEF Hidden, Taken, Draft
<1>3. CASE ~back
  <2>1. draft'[p] = draft[p]
    BY <1>1, <1>3 DEF Taken
  <2>2. CASE draft[p] = None
    BY <2>1, <2>2 DEF Hidden
  <2>3. CASE Stashed(p, draft[p])
    <3>1. CASE clashes = {}
      <4>1. Stashed(p, draft[p])'
        <5>1. p \notin Newest.paths \/ Newest.edits[p] # draft[p]
          BY <1>3, <3>1, PoppedType
        <5>2. stash' \in {stash, SubSeq(stash, 1, Len(stash) - 1)}
          BY <1>1
        <5> DEFINE c == draft[p]
        <5>3. Stashed(p, c) /\ (p \notin Newest.paths \/ Newest.edits[p] # c)
          BY <2>3, <5>1
        <5>4. c' = c
          BY <2>1
        <5> HIDE DEF c
        <5>5. Stashed(p, c)'
          BY <5>2, <5>3, <5>4, PopKeeps
        <5> QED
          BY <5>5 DEF c
      <4> QED
        BY <4>1 DEF Hidden
    <3>2. CASE clashes # {}
      BY <1>1, <2>1, <2>3, <3>2 DEF Hidden, Stashed
    <3> QED
      BY <3>1, <3>2
  <2>4. CASE work[p] = draft[p] /\ draft[p] # head[p]
    <3>1. p \notin Newest.paths
      BY <2>4 DEF PopRefused
    <3>2. work'[p] = work[p]
      BY <1>1, <3>1, PoppedType
    <3> QED
      BY <2>1, <2>4, <3>2
  <2> QED
    BY <2>2, <2>3, <2>4 DEF Hidden
<1> QED
  BY <1>2, <1>3

\* The run: what it is about to overwrite it has stashed.
LEMMA KeptRunStep ==
  ASSUME KeptInv, Run
  PROVE  Kept'
<1> USE DEF KeptInv
<1>1. ASSUME UNCHANGED <<head, files>>, phase' # "apply" PROVE Kept'
  BY <1>1 DEF Kept, Hidden, Stashed, files
<1>2. ASSUME NEW f \in BOOLEAN, Start(f) PROVE Kept'
  BY <1>1, <1>2 DEF Start, commits
<1>3. CASE Fetch
  BY <1>1, <1>3 DEF Fetch, Goto, End, commits
<1>4. CASE Stash
  <2>1. /\ phase = "planned" /\ phase' = "apply" /\ UNCHANGED <<head, draft, late>>
        /\ stashed' = (\E p \in dirty : work[p] # head[p])
    BY <1>4 DEF Stash, commits
  <2>2. \A p \in Path \ (late \cup dirty) : work[p] = head[p]
    BY <2>1 DEF Stages
  <2>3. ASSUME NEW p \in Path \ late PROVE Hidden(p)'
    <3> DEFINE entry == [on |-> head, edits |-> work, paths |-> dirty]
               n == Len(stash)
    <3>1. CASE draft[p] = None
      BY <2>1, <3>1 DEF Hidden
    <3>2. CASE stashed' /\ draft[p] # None
      <4>1. stash' = Append(stash, entry)
        BY <1>4, <3>2 DEF Stash
      <4>2. stash \in Seq(Entry) /\ n \in Nat
        BY DEF TypeOK, FilesType
      <4>3. /\ Len(stash') = n + 1 /\ stash'[n + 1] = entry
            /\ \A i \in 1..n : stash'[i] = stash[i]
        BY <4>1, <4>2
      <4>4. CASE Stashed(p, draft[p])
        BY <2>1, <4>2, <4>3, <4>4 DEF Hidden, Stashed
      <4>5. CASE work[p] = draft[p] /\ draft[p] # head[p]
        <5>1. p \in dirty
          BY <2>2, <2>3, <4>5
        <5>2. n + 1 \in 1..Len(stash') /\ p \in stash'[n + 1].paths /\ stash'[n + 1].edits[p] = draft'[p]
          BY <2>1, <4>2, <4>3, <4>5, <5>1
        <5> QED
          BY <5>2 DEF Hidden, Stashed
      <4> QED
        BY <2>3, <3>2, <4>4, <4>5 DEF Kept, Hidden
    <3>3. CASE ~stashed' /\ draft[p] # None
      <4>1. stash' = stash
        BY <1>4, <3>3 DEF Stash
      <4>2. work[p] = head[p]
        BY <2>1, <2>2, <2>3, <3>3
      <4>3. Stashed(p, draft[p])
        BY <2>3, <3>3, <4>2 DEF Kept, Hidden
      <4> QED
        BY <2>1, <4>1, <4>3 DEF Hidden, Stashed
    <3> QED
      BY <3>1, <3>2, <3>3
  <2> QED
    BY <2>1, <2>3 DEF Kept
<1>5. ASSUME NEW p \in Path, ApplyPath(p) PROVE Kept'
  <2>1. phase = "apply" /\ UNCHANGED <<head, stash, draft, late>>
    BY <1>5 DEF ApplyPath, commits
  <2> QED
    BY <2>1 DEF Kept, Hidden, Stashed
<1>6. CASE Conclude
  BY <1>1, <1>6 DEF Conclude, Goto, End, commits
<1>7. CASE Commit
  <2>1. phase' # "apply" /\ UNCHANGED <<work, stash, late>>
    BY <1>7 DEF Commit, Goto, End
  <2>2. CASE UNCHANGED <<head, draft>>
    BY <2>1, <2>2 DEF Kept, Hidden, Stashed
  <2>3. CASE /\ SyncCommit(work)
             /\ draft' = [p \in Path |-> IF p \in Touched /\ work[p] = draft[p]
                                       THEN None ELSE draft[p]]
    <3>1. \A p \in Path \ Touched : head'[p] = head[p] /\ draft'[p] = draft[p]
      BY <2>3 DEF SyncCommit
    <3>2. \A p \in Touched : draft'[p] = IF work[p] = draft[p] THEN None ELSE draft[p]
      BY <2>3, TouchedFacts
    <3> QED
      BY <2>1, <3>1, <3>2 DEF Kept, Hidden, Stashed
  <2> QED
    BY <1>7, <2>2, <2>3 DEF Commit, commits
<1>8. CASE Pop
  <2>1. phase' # "apply" /\ UNCHANGED commits /\ late' = late
    BY <1>8 DEF Pop, End, files
  <2>2. CASE UNCHANGED files
    BY <1>1, <2>1, <2>2 DEF commits
  <2>3. CASE stashed /\ ~PopRefused /\ PopStash
    <3>1. stash # <<>>
      BY <2>3 DEF Stages
    <3> QED
      BY <2>1, <2>3, <3>1, PopKept DEF Kept, commits
  <2> QED
    BY <1>8, <2>2, <2>3 DEF Pop
<1> QED
  BY <1>2, <1>3, <1>4, <1>5, <1>6, <1>7, <1>8 DEF Run

\* The owner commits, drops or moves what he has; what he edits under a run he
\* may lose.
LEMMA KeptOwnerStep ==
  ASSUME KeptInv, Owner
  PROVE  Kept'
<1> USE DEF KeptInv
<1>1. CASE Edit
  <2>1. UNCHANGED <<head, stash, phase>>
    BY <1>1 DEF Edit, commits, run
  <2>2. PICK p \in Path : /\ work[p] # Marked
                          /\ \E c \in Changes(work[p], Editing[p], Ours) :
                               /\ work' = [work EXCEPT ![p] = c]
                               /\ draft' = [draft EXCEPT ![p] = Draft(p, c)]
                          /\ late' = IF phase = "idle" THEN late ELSE late \cup {p}
    BY <1>1 DEF Edit
  <2>3. PICK c : /\ work' = [work EXCEPT ![p] = c]
                 /\ draft' = [draft EXCEPT ![p] = Draft(p, c)]
    BY <2>2
  <2>4. work \in [Path -> Content \cup {Marked}] /\ draft \in [Path -> Content \cup {None}]
    BY DEF TypeOK, FilesType
  <2>5. \A q \in Path \ {p} : work'[q] = work[q] /\ draft'[q] = draft[q]
    BY <2>3, <2>4
  <2>6. work'[p] = c /\ (draft'[p] = None \/ (draft'[p] = c /\ c # head[p]))
    BY <2>3, <2>4 DEF Draft
  <2>7. late \subseteq late' /\ (phase # "idle" => p \in late')
    BY <2>2
  <2>8. \A q \in Path \ {p} : Hidden(q) => Hidden(q)'
    BY <2>1, <2>5 DEF Hidden, Stashed
  <2>9. ASSUME NEW q \in Path \ late'
        PROVE  (Hidden(q) \/ (work[q] = draft[q] /\ draft[q] # head[q]))'
    <3>1. CASE q = p
      BY <2>1, <2>6, <3>1 DEF Hidden
    <3>2. CASE q # p
      BY <2>1, <2>5, <2>7, <2>8, <2>9, <3>2 DEF Kept
    <3> QED
      BY <3>1, <3>2
  <2>10. phase' = "apply" => \A q \in Path \ late' : Hidden(q)'
    BY <2>1, <2>7, <2>8 DEF Kept
  <2> QED
    BY <2>9, <2>10 DEF Kept
<1>2. CASE CommitEdits
  <2>1. /\ phase' = "idle" /\ UNCHANGED <<work, stash, late>> /\ head' = work
        /\ draft' = [p \in Path |-> IF draft[p] = work[p] THEN None ELSE draft[p]]
    BY <1>2 DEF CommitEdits, Forget
  <2> QED
    BY <2>1 DEF Kept, Hidden, Stashed
<1>3. CASE Discard \/ Undo
  <2>1. PICK paths : phase = "idle" /\ Restore(paths)
    BY <1>3 DEF Discard, Undo
  <2>2. /\ phase' = "idle" /\ UNCHANGED <<head, stash, late>>
        /\ work' = [p \in Path |-> IF p \in paths THEN head[p] ELSE work[p]]
        /\ draft' = [p \in Path |-> IF p \in paths /\ work[p] = draft[p] THEN None ELSE draft[p]]
    BY <2>1 DEF Restore, Forget, commits
  <2> QED
    BY <2>2 DEF Kept, Hidden, Stashed
<1>4. CASE Finish
  <2>1. /\ phase' = "idle" /\ UNCHANGED <<stash, late>> /\ SyncCommit(work')
        /\ message = Instructions
        /\ draft' = [p \in Path |-> IF p \in message.touched THEN None ELSE draft[p]]
    BY <1>4 DEF Finish, Forget, Stages
  <2>2. PICK c : work' = [p \in Path |-> IF p \in message.conflicts THEN c[p] ELSE work[p]]
    BY <1>4 DEF Finish
  <2>3. message.touched = Touched /\ message.conflicts = Conflicts
    BY <2>1 DEF Instructions
  <2>4. \A p \in Path \ Touched :
          work'[p] = work[p] /\ head'[p] = head[p] /\ draft'[p] = draft[p]
    BY <2>1, <2>2, <2>3, TouchedFacts DEF SyncCommit
  <2>5. \A p \in Touched : draft'[p] = None
    BY <2>1, <2>3, TouchedFacts
  <2> QED
    BY <2>1, <2>4, <2>5 DEF Kept, Hidden, Stashed
<1>5. CASE OwnersPop
  <2>1. /\ phase' = "idle" /\ UNCHANGED <<head, late>>
        /\ stash # <<>> /\ ~PopRefused /\ PopStash
    BY <1>5 DEF OwnersPop, commits
  <2> QED
    BY <2>1, PopKept DEF Kept
<1>6. CASE ResolvePop
  <2>1. /\ phase' = "idle" /\ UNCHANGED <<head, late>> /\ stash # <<>>
        /\ stash' = SubSeq(stash, 1, Len(stash) - 1)
        /\ work' = [p \in Path |->
                      IF p \notin Newest.paths \/ work[p] # Marked THEN work[p]
                      ELSE IF Newest.edits[p] # Marked THEN Newest.edits[p] ELSE head[p]]
        /\ draft' = [p \in Path |-> IF p \in Newest.paths THEN Taken(p, work'[p]) ELSE draft[p]]
    BY <1>6 DEF ResolvePop, commits
  <2>2. ASSUME NEW p \in Path \ late
        PROVE  (Hidden(p) \/ (work[p] = draft[p] /\ draft[p] # head[p]))'
    <3> DEFINE back == /\ p \in Newest.paths
                       /\ draft[p] \in {None, Newest.edits[p]} /\ work'[p] # Marked
    <3>1. CASE back
      <4>1. draft'[p] = Draft(p, work'[p])
        BY <2>1, <3>1 DEF Taken
      <4> QED
        BY <2>1, <4>1 DEF Draft, Hidden
    <3>2. CASE ~back
      <4>1. draft'[p] = draft[p]
        BY <2>1, <3>2 DEF Taken
      <4>2. CASE draft[p] = None
        BY <4>1, <4>2 DEF Hidden
      <4>3. CASE Stashed(p, draft[p])
        <5> DEFINE c == draft[p]
        <5>0. draft[p] # Marked /\ (p \in Newest.paths /\ draft[p] = Newest.edits[p] => work'[p] # Marked)
          BY <2>1, ContentFacts DEF TypeOK, FilesType
        <5>1. Stashed(p, c) /\ (p \notin Newest.paths \/ Newest.edits[p] # c) /\ c' = c
          BY <3>2, <4>1, <4>3, <5>0
        <5> HIDE DEF c
        <5>2. Stashed(p, c)'
          BY <2>1, <5>1, PopKeeps
        <5> QED
          BY <5>2 DEF c, Hidden
      <4>4. CASE work[p] = draft[p] /\ draft[p] # head[p]
        <5>1. draft[p] # Marked
          BY ContentFacts DEF TypeOK, FilesType
        <5> QED
          BY <2>1, <4>1, <4>4, <5>1
      <4> QED
        BY <2>2, <4>2, <4>3, <4>4 DEF Kept, Hidden
    <3> QED
      BY <3>1, <3>2
  <2> QED
    BY <2>1, <2>2 DEF Kept
<1> QED
  BY <1>1, <1>2, <1>3, <1>4, <1>5, <1>6 DEF Owner

\* Uncommitted edits are never lost, whatever is forced, fails or dies.
THEOREM DraftKeptCorrect == Spec => []DraftKept
<1>1. Init => KeptInv
  <2>1. Init => Kept
    BY DEF Init, Kept, Hidden
  <2> QED
    BY <2>1, StartFacts DEF KeptInv
<1>2. KeptInv /\ [Next]_vars => KeptInv'
  <2> SUFFICES ASSUME KeptInv, [Next]_vars PROVE Kept'
    BY TypeStep, StagesStep DEF KeptInv
  <2>1. CASE Crash \/ Release \/ BackgroundFetch \/ UNCHANGED vars
    <3>1. UNCHANGED <<head, files>> /\ phase' \in {phase, "idle"}
      BY <2>1 DEF Crash, Release, BackgroundFetch, End, vars, commits, run
    <3> QED
      BY <3>1 DEF KeptInv, Kept, Hidden, Stashed, files
  <2> QED
    BY <2>1, KeptRunStep, KeptOwnerStep DEF Next
<1>3. KeptInv => DraftKept
  BY DEF KeptInv, Kept, Hidden, DraftKept
<1> QED
  BY <1>1, <1>2, <1>3, PTL DEF Spec

-----------------------------------------------------------------------------
(* What the owner has committed survives a sync.                              *)

\* What stands at p is what HEAD has where that is the owner's, or an edit of his,
\* or a conflict he has still to resolve.
Unhurt(p) ==
  draft[p] = None /\ work[p] # Marked => \A f \in custom[p] : Agree(work[p], head[p], f)

\* The owner's hunks are not as the recorded version has them, so that a merge with
\* it for its base keeps them.
CustomInv == \A p \in Path : \A f \in custom[p] : ~Agree(head[p], versions[synced][p], f)

SurviveInv ==
  /\ CustomInv
  /\ phase = "apply" /\ ~force => \A p \in applied \ Conflicts : Unhurt(p)
  /\ phase = "commit" /\ ~force => \A p \in Touched : Unhurt(p)
  /\ message # None => \A p \in Touched \ Conflicts : Unhurt(p)

\* The files a run writes without --force.
LEMMA WrittenAgrees ==
  ASSUME UpdateInv, CustomInv, ~force, NEW p \in Touched \ Conflicts, NEW f \in custom[p]
  PROVE  Agree(Written(p), head[p], f)
<1> DEFINE b == versions[synced][p]
           o == head[p]
           t == versions[target][p]
<1> USE DEF UpdateInv
<1>1. SyncBase(target) = synced /\ p \in Path /\ f \in Field
  BY TouchedFacts DEF Forward, SyncBase, TypeOK, CommitsType
<1>2. b \in Content /\ o \in Content /\ t \in Content
  BY <1>1, VersionTypes DEF TypeOK, CommitsType, RunType, Tree
<1>3. Planned(p) = Category(p, b, o, t)
  BY <1>1 DEF Planned
<1>4. ~Agree(o, b, f)
  BY <1>1 DEF CustomInv
<1>5. CASE Action(p) = "upstream"
  <2>1. Planned(p) = "fast-forward"
    BY <1>5 DEF Action
  <2>2. o = b
    BY <1>3, <2>1 DEF Category, Classify
  <2> QED
    BY <1>4, <2>2 DEF Agree
<1>6. CASE Action(p) = "write-merged"
  <2>1. o \in File /\ t \in File
    BY <1>1, <1>6, ActionFacts
  <2>2. Written(p) = MergeFile(b, o, t) /\ MergeFile(b, o, t) \in File
    BY <1>1, <1>2, <1>6, <2>1, MergeType DEF Written
  <2>3. MergeFile(b, o, t)[f] = IF f # Mode /\ b # Absent /\ o[f] = b[f] THEN t[f] ELSE o[f]
    BY <1>1 DEF MergeFile
  <2>4. ~(b # Absent /\ o[f] = b[f])
    BY <1>2, <1>4, <2>1 DEF Agree, Content
  <2> QED
    BY <2>1, <2>2, <2>3, <2>4 DEF Agree
<1> QED
  BY <1>1, <1>5, <1>6, ActionFacts DEF Touched, Conflicts

\* Steps after which no run is about to commit.
LEMMA SurviveAtRest ==
  ASSUME UpdateInv, SurviveInv, UNCHANGED commits, versions'[synced] = versions[synced],
         phase' \notin {"apply", "commit"}, message' = None
  PROVE  SurviveInv'
  BY DEF SurviveInv, CustomInv, commits

\* Steps that change files and leave the run where it is.
LEMMA SurviveFiles ==
  ASSUME UpdateInv, SurviveInv, UNCHANGED <<commits, run>>,
         \A i \in 1..Len(versions) : versions'[i] = versions[i],
         \A p \in Path : Unhurt(p) => Unhurt(p)'
  PROVE  SurviveInv'
<1>1. TypeOK /\ UNCHANGED <<head, synced, custom, target, force, phase, applied, message>>
  BY DEF UpdateInv, commits, run
<1>2. Touched' = Touched /\ Conflicts' = Conflicts /\ Touched \subseteq Path
  BY <1>1, PlanStable, TouchedFacts
<1>3. versions'[synced] = versions[synced] /\ applied \subseteq Path
  BY <1>1 DEF TypeOK, CommitsType, RunType
<1> QED
  BY <1>1, <1>2, <1>3 DEF SurviveInv, CustomInv

\* A sync makes the owner's only what the recorded version has not.
LEMMA SurviveCommit ==
  ASSUME UpdateInv, NEW content, SyncCommit(content), UNCHANGED versions,
         phase' \notin {"apply", "commit"}, message' = None
  PROVE  SurviveInv'
<1>1. CustomInv'
  BY DEF SyncCommit, CustomInv
<1> QED
  BY <1>1 DEF SurviveInv

LEMMA SurviveRunStep ==
  ASSUME UpdateInv, SurviveInv, Run
  PROVE  SurviveInv'
<1> USE DEF UpdateInv
<1>1. phase # "idle" => message = None
  BY DEF Stages
<1>2. CASE (\E f \in BOOLEAN : Start(f)) \/ Fetch \/ Pop
  <2>1. UNCHANGED <<commits, versions>> /\ phase' \notin {"apply", "commit"} /\ message' = None
    BY <1>1, <1>2 DEF Start, Fetch, Pop, Goto, End, upstream
  <2> QED
    BY <2>1, SurviveAtRest
<1>3. CASE Stash
  <2>1. /\ UNCHANGED <<commits, versions>> /\ phase' = "apply" /\ applied' = {} /\ message' = None
    BY <1>1, <1>3 DEF Stash, Stages, upstream
  <2> QED
    BY <2>1 DEF SurviveInv, CustomInv, commits
<1>4. ASSUME NEW p \in Path, ApplyPath(p) PROVE SurviveInv'
  <2>1. /\ phase = "apply" /\ p \in Touched \ applied /\ message = None
        /\ UNCHANGED <<upstream, commits, draft, target, message>>
    BY <1>1, <1>4 DEF ApplyPath
  <2>2. CASE Refuses(p)
    <3>1. phase' = "idle"
      BY <1>4, <2>2 DEF ApplyPath, End
    <3> QED
      BY <2>1, <3>1, SurviveAtRest DEF upstream
  <2>3. CASE ~Refuses(p)
    <3>1. /\ work' = [work EXCEPT ![p] = Written(p)] /\ applied' = applied \cup {p}
          /\ UNCHANGED <<phase, force>>
      BY <1>4, <2>3 DEF ApplyPath
    <3>2. Touched' = Touched /\ Conflicts' = Conflicts
      BY <2>1, <3>1, PlanStable DEF upstream, commits
    <3>3. work \in [Path -> Content \cup {Marked}]
      BY DEF TypeOK, FilesType
    <3>4. ASSUME ~force, NEW q \in applied' \ Conflicts PROVE Unhurt(q)'
      <4>1. CASE q = p
        <5>1. \A f \in custom[p] : Agree(Written(p), head[p], f)
          BY <2>1, <3>4, <4>1, WrittenAgrees DEF SurviveInv
        <5> QED
          BY <2>1, <3>1, <3>3, <4>1, <5>1 DEF Unhurt, commits
      <4>2. CASE q # p
        <5>1. q \in applied \ Conflicts /\ work'[q] = work[q]
          BY <3>1, <3>3, <3>4, <4>2
        <5> QED
          BY <2>1, <3>4, <5>1 DEF SurviveInv, Unhurt, commits
      <4> QED
        BY <4>1, <4>2
    <3> QED
      BY <2>1, <3>1, <3>2, <3>4 DEF SurviveInv, CustomInv, commits, upstream
  <2> QED
    BY <2>2, <2>3
<1>5. CASE Conclude
  <2>1. /\ phase = "apply" /\ Touched \subseteq applied /\ message = None
        /\ UNCHANGED <<versions, commits, files, target>>
    BY <1>1, <1>5 DEF Conclude, upstream
  <2>2. ~force => \A p \in Touched \ Conflicts : Unhurt(p)
    BY <2>1 DEF SurviveInv
  <2>3. \A p \in Path : Unhurt(p)' <=> Unhurt(p)
    BY <2>1 DEF Unhurt, files, commits
  <2>4. CASE Conflicts # {}
    <3>1. ~force /\ force' = force /\ phase' = "idle"
      BY <1>5, <2>4, TouchedFacts DEF Conclude, End, TypeOK, RunType
    <3>2. Touched' = Touched /\ Conflicts' = Conflicts /\ Touched \subseteq Path
      BY <2>1, <3>1, PlanStable, TouchedFacts DEF commits
    <3> QED
      BY <2>1, <2>2, <2>3, <3>1, <3>2 DEF SurviveInv, CustomInv, commits
  <2>5. CASE Conflicts = {}
    <3>1. phase' \in {"pop", "commit"} /\ UNCHANGED <<force, message>>
      BY <1>5, <2>5 DEF Conclude, Goto
    <3>2. Touched' = Touched /\ Conflicts' = Conflicts /\ Touched \subseteq Path
      BY <2>1, <3>1, PlanStable, TouchedFacts DEF commits
    <3> QED
      BY <2>1, <2>2, <2>3, <2>5, <3>1, <3>2 DEF SurviveInv, CustomInv, commits
  <2> QED
    BY <2>4, <2>5
<1>6. CASE Commit
  <2>1. UNCHANGED versions /\ phase' \notin {"apply", "commit"} /\ message' = None
    BY <1>1, <1>6 DEF Commit, Goto, End, upstream
  <2>2. SyncCommit(work) \/ UNCHANGED commits
    BY <1>6 DEF Commit
  <2> QED
    BY <2>1, <2>2, SurviveCommit, SurviveAtRest
<1> QED
  BY <1>2, <1>3, <1>4, <1>5, <1>6 DEF Run

\* What comes back from the stash is an edit, or is as HEAD has it.
LEMMA TakenUnhurt ==
  ASSUME UpdateInv, NEW p \in Path, work'[p] \notin {Marked, None}, UNCHANGED commits,
         draft'[p] = Taken(p, work'[p]), draft'[p] = None
  PROVE  Unhurt(p)'
<1>1. work'[p] = head[p]
  BY DEF Taken, Draft
<1> QED
  BY <1>1 DEF Unhurt, Agree, commits

LEMMA SurviveOwnerStep ==
  ASSUME UpdateInv, SurviveInv, Owner
  PROVE  SurviveInv'
<1> USE DEF UpdateInv
<1>1. /\ work \in [Path -> Content \cup {Marked}] /\ draft \in [Path -> Content \cup {None}]
      /\ \A p \in Path : work'[p] # None
  BY OthersTypeStep, ContentFacts DEF TypeOK, FilesType
<1>2. CASE Edit
  <2>1. UNCHANGED <<versions, commits, run>>
    BY <1>2 DEF Edit, upstream
  <2>2. PICK p \in Path : \E c : /\ work' = [work EXCEPT ![p] = c]
                                 /\ draft' = [draft EXCEPT ![p] = Draft(p, c)]
    BY <1>2 DEF Edit
  <2>3. \A q \in Path : Unhurt(q) => Unhurt(q)'
    <3>1. \A q \in Path \ {p} : work'[q] = work[q] /\ draft'[q] = draft[q]
      BY <1>1, <2>2
    <3>2. draft'[p] = Draft(p, work'[p]) /\ work'[p] # None
      BY <1>1, <2>2
    <3>3. draft'[p] = None => work'[p] = head'[p]
      BY <2>1, <3>2 DEF Draft, commits
    <3> QED
      BY <2>1, <3>1, <3>3 DEF Unhurt, Agree, commits
  <2> QED
    BY <2>1, <2>3, SurviveFiles
<1>3. CASE CommitEdits
  <2>1. /\ UNCHANGED <<versions, synced, phase>> /\ phase = "idle" /\ message' = None /\ head' = work
        /\ custom' = [p \in Path |->
                       {f \in custom[p] \cup {g \in Field : ~Agree(head[p], work[p], g)} :
                          ~Agree(work[p], versions[synced][p], f)}]
    BY <1>3 DEF CommitEdits, Forget, upstream
  <2>2. CustomInv'
    BY <2>1 DEF CustomInv
  <2> QED
    BY <2>1, <2>2 DEF SurviveInv
<1>4. CASE Discard \/ Undo
  <2>1. UNCHANGED <<versions, commits, phase>> /\ phase = "idle" /\ message' = None
    BY <1>4 DEF Discard, Undo, Restore, Forget, upstream
  <2> QED
    BY <2>1, SurviveAtRest
<1>5. CASE Finish
  <2>1. UNCHANGED <<versions, phase>> /\ phase = "idle" /\ message' = None /\ SyncCommit(work')
    BY <1>5 DEF Finish, Forget, upstream
  <2> QED
    BY <2>1, SurviveCommit
<1>6. CASE OwnersPop \/ ResolvePop
  <2>1. UNCHANGED <<versions, commits, target, force, phase, applied, message>>
    BY <1>6 DEF OwnersPop, ResolvePop, upstream, local
  <2>2. \A p \in Path : \/ work'[p] = work[p] /\ draft'[p] = draft[p]
                        \/ draft'[p] = Taken(p, work'[p])
                        \/ work'[p] = Marked
    BY <1>6 DEF OwnersPop, ResolvePop, PopStash, Popped, Clash
  <2>3. \A p \in Path : Unhurt(p) => Unhurt(p)'
    BY <1>1, <2>1, <2>2, TakenUnhurt DEF Unhurt, commits
  <2>4. Touched' = Touched /\ Conflicts' = Conflicts /\ Touched \subseteq Path /\ applied \subseteq Path
    BY <2>1, PlanStable, TouchedFacts DEF commits, TypeOK, RunType
  <2> QED
    BY <2>1, <2>3, <2>4 DEF SurviveInv, CustomInv, commits
<1> QED
  BY <1>2, <1>3, <1>4, <1>5, <1>6 DEF Owner

LEMMA SurviveStep ==
  ASSUME UpdateInv, SurviveInv, [Next]_vars
  PROVE  SurviveInv'
<1> USE DEF UpdateInv
<1>1. CASE Crash
  <2>1. UNCHANGED <<versions, commits, message>> /\ phase' = "idle" /\ message = None
    BY <1>1 DEF Crash, End, Stages, upstream
  <2> QED
    BY <2>1, SurviveAtRest
<1>2. CASE Release
  <2>1. UNCHANGED <<commits, files, run>>
    BY <1>2 DEF Release
  <2>2. PICK new : versions' = Append(versions, new)
    BY <1>2 DEF Release
  <2>3. \A i \in 1..Len(versions) : versions'[i] = versions[i]
    BY <2>2 DEF TypeOK, UpstreamType
  <2>4. \A p \in Path : Unhurt(p) => Unhurt(p)'
    BY <2>1 DEF Unhurt, commits, files
  <2> QED
    BY <2>1, <2>3, <2>4, SurviveFiles
<1>3. CASE BackgroundFetch \/ UNCHANGED vars
  <2>1. UNCHANGED <<versions, commits, files, run>>
    BY <1>3 DEF BackgroundFetch, vars, upstream
  <2>2. \A p \in Path : Unhurt(p) => Unhurt(p)'
    BY <2>1 DEF Unhurt, commits, files
  <2> QED
    BY <2>1, <2>2, SurviveFiles
<1> QED
  BY <1>1, <1>2, <1>3, SurviveRunStep, SurviveOwnerStep DEF Next

\* Committed customizations survive every sync that was not forced, in a fork that
\* follows one branch, whatever dies, is undone, finished or popped between.
THEOREM EditsSurviveCorrect ==
  ASSUME ~Switching
  PROVE  Spec => EditsSurvive
<1> DEFINE Survives == synced' # synced /\ ~force =>
              \A p \in Path \ Conflicts : \A f \in custom[p] :
                draft[p] = None => Agree(head'[p], head[p], f)
<1>1. Init => SurviveInv
  <2>1. Init => /\ \A p \in Path : custom[p] = {}
                /\ phase = "idle" /\ message = None
    BY DEF Init
  <2> QED
    BY <2>1 DEF SurviveInv, CustomInv
<1>2. UpdateInv /\ SurviveInv /\ [Next]_vars => SurviveInv'
  BY SurviveStep
<1>3. ASSUME UpdateInv, SurviveInv, [Next]_vars PROVE [Survives]_synced
  <2> USE DEF UpdateInv
  <2> SUFFICES ASSUME ~force, NEW p \in Path \ Conflicts, NEW f \in custom[p], draft[p] = None,
                      synced' # synced
               PROVE  Agree(head'[p], head[p], f)
    OBVIOUS
  <2>1. CASE Commit
    <3>1. phase = "commit" /\ SyncCommit(work)
      BY <2>1 DEF Commit, commits
    <3>2. p \in Touched => work[p] # Marked /\ Unhurt(p)
      BY <1>3, <3>1 DEF Stages, SurviveInv
    <3> QED
      BY <3>1, <3>2 DEF SyncCommit, Unhurt, Agree
  <2>2. CASE Finish
    <3>1. message = Instructions /\ message # None /\ SyncCommit(work')
      BY <1>3, <2>2 DEF Finish, Stages
    <3>2. message.touched = Touched /\ message.conflicts = Conflicts
      BY <3>1 DEF Instructions
    <3>3. work'[p] = work[p] /\ (p \in Touched => work[p] # Marked)
      BY <2>2, <3>2 DEF Finish
    <3>4. p \in Touched => Unhurt(p)
      BY <1>3, <3>1 DEF SurviveInv
    <3> QED
      BY <3>1, <3>3, <3>4 DEF SyncCommit, Unhurt, Agree
  <2>3. ~Commit /\ ~Finish => synced' = synced
    <3>1. CASE Run /\ ~Commit
      BY <3>1 DEF Run, Start, Fetch, Stash, ApplyPath, Conclude, Pop, commits
    <3>2. CASE Owner /\ ~Finish
      BY <3>2 DEF Owner, Edit, CommitEdits, Discard, Undo, Restore, OwnersPop, ResolvePop, commits
    <3>3. CASE Crash \/ Release \/ BackgroundFetch \/ UNCHANGED vars
      BY <3>3 DEF Crash, Release, BackgroundFetch, vars, commits
    <3> QED
      BY <1>3, <3>1, <3>2, <3>3 DEF Next
  <2> QED
    BY <2>1, <2>2, <2>3
<1> QED
  BY <1>1, <1>2, <1>3, UpdateInvariance, PTL DEF Spec, EditsSurvive

=============================================================================
