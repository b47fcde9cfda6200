-------------------------------- MODULE Beads --------------------------------
(***************************************************************************)
(* The migration of an issue store from br to bd and back:                 *)
(* scripts/lib/beads-transform.ts and scripts/beads-migrate.ts.            *)
(*                                                                         *)
(* A record has what the checks tell apart: its status and type, whether   *)
(* its description fits bd's column, its edges, where it came from, and    *)
(* its comments.  A comment is [id, text]; br's ids are numbers, bd's are  *)
(* not (NoId).  br and bd are external: what they do to a file is what     *)
(* the transform's comments and ADR-0032 record of them.                   *)
(***************************************************************************)
EXTENDS Integers, Sequences, FiniteSets

CONSTANTS Issues,       \* ids of records: their places in the file, which bd's export keeps
          Texts,        \* texts of comments
          Shapes,       \* [status, type, size, repo] of br's records; "tombstone" marks a deleted one
          MaxComments,  \* bound on the comments ever made
          MaxChanges    \* bound on the links and comments people make and delete

BuiltinStatuses == {"open", "closed"}
BuiltinTypes == {"task", "bug"}

ASSUME BeadsAssumption == Issues \subseteq Nat /\ MaxComments \in Nat /\ MaxChanges \in Nat

VARIABLES br,           \* the br store: a function from some issues to records
          prepared,     \* the store of the last preflight, whose config lines bd was given
          bd,           \* the bd store
          origin,       \* the br file that was imported
          verdict,      \* of the last `verify` of the export against the origin
          touched,      \* history: bd's store was changed after the import
          changes       \* changes made so far

beadsVars == <<br, prepared, bd, origin, verdict, touched, changes>>

NoId == 0
NoStore == [i \in {} |-> i]

Comments(store) == {c \in (DOMAIN store) \X (1..MaxComments) : c[2] <= Len(store[c[1]].comments)}

CommentIds(store) == {store[c[1]].comments[c[2]].id : c \in Comments(store)} \ {NoId}

-----------------------------------------------------------------------------
(* Preflight and the configuration it asks for *)

Tombstones(store) == {i \in DOMAIN store : store[i].status = "tombstone"}

\* The sentinel is a status; as a type it has to be configured like any other.
CustomTypes(store) == {store[i].type : i \in DOMAIN store} \ BuiltinTypes

\* Mutant of CustomStatuses: custom statuses are not looked for.
CustomStatusesNone(store) == {}

CustomStatuses(store) == {store[i].status : i \in DOMAIN store} \ (BuiltinStatuses \cup {"tombstone"})

Oversize(store) == {i \in DOMAIN store : store[i].size = "over"}

RequiredBdConfig(store) ==
    [types |-> CustomTypes(store),
     statuses |-> CustomStatuses(store) \cup {store[i].status : i \in Tombstones(store)}]

PreflightPasses(store) == Oversize(store) = {}

-----------------------------------------------------------------------------
(* br -> bd *)

HasProvenance(r) == r.repo # "none"

WithProvenance(r, preserve) == IF preserve /\ HasProvenance(r) THEN [r EXCEPT !.meta = r.repo] ELSE r

Forward(store, preserve, drop) ==
    [i \in (DOMAIN store) \ (IF drop THEN Tombstones(store) ELSE {}) |->
       WithProvenance(store[i], preserve)]

\* bd: one record it cannot take and none is taken.
ImportRefused(file) ==
    \/ \E i \in DOMAIN file : file[i].type \notin BuiltinTypes \cup RequiredBdConfig(prepared).types
    \/ \E i \in DOMAIN file : file[i].status \notin BuiltinStatuses \cup {"tombstone"} \cup RequiredBdConfig(prepared).statuses
    \/ Oversize(file) # {}

\* bd: tombstones are skipped unless their status is mapped, the origin of a record is
\* dropped, and comments get ids of bd's own.
Imported(file) ==
    [i \in (DOMAIN file) \ (IF "tombstone" \in RequiredBdConfig(prepared).statuses THEN {} ELSE Tombstones(file)) |->
       [file[i] EXCEPT !.repo = "none",
                       !.comments = [n \in DOMAIN @ |-> [@[n] EXCEPT !.id = NoId]]]]

-----------------------------------------------------------------------------
(* bd -> br *)

\* The numbered comments of a reference record, and the place of one among them.
Numbered(comments) == {m \in DOMAIN comments : comments[m].id # NoId}
Place(comments, m) == Cardinality({k \in Numbered(comments) : k <= m})

\* Mutant of OriginalId: the text alone is the key, and the last comment of that text wins.
OriginalIdByText(reference, i, n, text) ==
    LET same == IF i \in DOMAIN reference
                THEN {m \in Numbered(reference[i].comments) : reference[i].comments[m].text = text}
                ELSE {}
    IN  IF same = {} THEN NoId
        ELSE reference[i].comments[CHOOSE m \in same : \A k \in same : k <= m].id

\* The id the reference has for the comment at this place with this text.
OriginalId(reference, i, n, text) ==
    LET same == IF i \in DOMAIN reference
                THEN {m \in Numbered(reference[i].comments) :
                        Place(reference[i].comments, m) = n /\ reference[i].comments[m].text = text}
                ELSE {}
    IN  IF same = {} THEN NoId ELSE reference[i].comments[CHOOSE m \in same : TRUE].id

\* Mutant of UsedIds: only the ids of the reference are avoided.
UsedIdsReference(file, reference) == CommentIds(reference)

UsedIds(file, reference) == CommentIds(file) \cup CommentIds(reference)

\* What needs a fresh id, and how many of them come before a comment.
Fresh(file, reference) ==
    {c \in Comments(file) :
       /\ file[c[1]].comments[c[2]].id = NoId
       /\ OriginalId(reference, c[1], c[2], file[c[1]].comments[c[2]].text) = NoId}

\* The allocator's k-th answer: the k-th number that nobody has.
Allocated(used, k) ==
    CHOOSE n \in 1..(Cardinality(used) + k) :
      n \notin used /\ Cardinality((1..n) \ used) = k

\* The place of a comment among those that need a fresh id.
FreshRank(file, reference, c) ==
    Cardinality({d \in Fresh(file, reference) : d[1] < c[1] \/ (d[1] = c[1] /\ d[2] <= c[2])})

NumberFor(file, reference, i, n) ==
    LET original == OriginalId(reference, i, n, file[i].comments[n].text)
    IN  IF original # NoId THEN original
        ELSE Allocated(UsedIds(file, reference), FreshRank(file, reference, <<i, n>>))

Reverse(file, reference) ==
    [i \in DOMAIN file |->
       [file[i] EXCEPT !.comments =
          [n \in DOMAIN @ |-> IF @[n].id # NoId THEN @[n]
                              ELSE [@[n] EXCEPT !.id = NumberFor(file, reference, i, n)]]]]

-----------------------------------------------------------------------------
(* Verify *)

SourceRepo(r) == IF r.repo # "none" THEN r.repo ELSE r.meta
Repos(store) == {SourceRepo(store[i]) : i \in DOMAIN store} \ {"none"}

CommentCount(store) == Cardinality(Comments(store))

\* Mutant of Reconciles: totals only.
ReconcilesCount(before, after) ==
    Cardinality(DOMAIN before) - Cardinality(Tombstones(before)) = Cardinality(DOMAIN after)

\* Mutant of Reconciles: tombstones are missed on the side of bd.
ReconcilesTombstones(before, after) ==
    DOMAIN after = DOMAIN before /\ \A i \in DOMAIN before : after[i].edges = before[i].edges

\* Ids, edges, classification and sizes as values, comments as a number, origins as names.
Reconciles(before, after) ==
    LET kept == (DOMAIN before) \ Tombstones(before)
    IN  /\ DOMAIN after = kept
        /\ \A i \in kept : /\ after[i].edges = before[i].edges
                           /\ after[i].status = before[i].status
                           /\ after[i].type = before[i].type
                           /\ after[i].size = before[i].size
        /\ CommentCount(before) = CommentCount(after)
        /\ Repos(before) = {} \/ Repos(after) = Repos(before)

-----------------------------------------------------------------------------
(* What people and the two trackers do *)

NewRecord(shape) ==
    [status |-> shape.status, type |-> shape.type, size |-> shape.size, repo |-> shape.repo,
     edges |-> {}, meta |-> "none", comments |-> <<>>]

NextCommentId == 1 + (CHOOSE n \in CommentIds(br) \cup {0} : \A m \in CommentIds(br) : m <= n)

Change == changes < MaxChanges /\ changes' = changes + 1

BeadsInit ==
    /\ br = NoStore /\ bd = NoStore /\ origin = NoStore
    /\ prepared = NoStore
    /\ verdict = "none" /\ touched = FALSE
    /\ changes = 0

Migrated == origin # NoStore

\* Work in br, before the migration.
Create(i, shape) ==
    /\ ~ Migrated /\ i \notin DOMAIN br
    /\ br' = [k \in (DOMAIN br) \cup {i} |-> IF k = i THEN NewRecord(shape) ELSE br[k]]
    /\ UNCHANGED <<prepared, bd, origin, verdict, touched, changes>>

Link(i, j) ==
    /\ Change
    /\ ~ Migrated /\ i \in DOMAIN br /\ j \in (DOMAIN br) \ ({i} \cup br[i].edges)
    /\ br' = [br EXCEPT ![i].edges = @ \cup {j}]
    /\ UNCHANGED <<prepared, bd, origin, verdict, touched>>

Comment(i, text) ==
    /\ Change
    /\ ~ Migrated /\ i \in DOMAIN br
    /\ CommentCount(br) < MaxComments
    /\ br' = [br EXCEPT ![i].comments = Append(@, [id |-> NextCommentId, text |-> text])]
    /\ UNCHANGED <<prepared, bd, origin, verdict, touched>>

\* Preflight prints the configuration even where it fails.
Preflight ==
    /\ ~ Migrated
    /\ prepared' = br /\ verdict' = "none"
    /\ UNCHANGED <<br, bd, origin, touched, changes>>

Import(preserve, drop) ==
    /\ ~ Migrated /\ br # NoStore
    /\ LET file == Forward(br, preserve, drop)
       IN  IF ImportRefused(file)
           THEN verdict' = "refused" /\ UNCHANGED <<bd, origin, touched>>
           ELSE bd' = Imported(file) /\ origin' = br /\ verdict' = "none" /\ touched' = FALSE
    /\ UNCHANGED <<br, prepared, changes>>

\* Work in bd, after the migration.
CommentInBd(i, text) ==
    /\ Change
    /\ Migrated /\ i \in DOMAIN bd
    /\ CommentCount(bd) < MaxComments
    /\ bd' = [bd EXCEPT ![i].comments = Append(@, [id |-> NoId, text |-> text])]
    /\ verdict' = "none" /\ touched' = TRUE
    /\ UNCHANGED <<br, prepared, origin>>

Without(s, n) == SubSeq(s, 1, n - 1) \o SubSeq(s, n + 1, Len(s))

DeleteInBd(i, n) ==
    /\ Change
    /\ Migrated /\ i \in DOMAIN bd /\ n \in DOMAIN bd[i].comments
    /\ bd' = [bd EXCEPT ![i].comments = Without(@, n)]
    /\ verdict' = "none" /\ touched' = TRUE
    /\ UNCHANGED <<br, prepared, origin>>

UnlinkInBd(i, j) ==
    /\ Change
    /\ Migrated /\ i \in DOMAIN bd /\ j \in bd[i].edges
    /\ bd' = [bd EXCEPT ![i].edges = @ \ {j}]
    /\ verdict' = "none" /\ touched' = TRUE
    /\ UNCHANGED <<br, prepared, origin>>

Verify ==
    /\ Migrated
    /\ verdict' = IF Reconciles(origin, bd) THEN "ok" ELSE "failed"
    /\ UNCHANGED <<br, prepared, bd, origin, touched, changes>>

\* The way back, with the file that was imported as a reference or without, of a file in
\* which the records `ours` were taken from br's side when two branches were merged.
RollbackFile(ours) == [i \in DOMAIN bd |-> IF i \in ours THEN origin[i] ELSE bd[i]]

Rollback(reference, ours) ==
    /\ Migrated
    /\ br' = Reverse(RollbackFile(ours), reference)
    /\ bd' = NoStore /\ origin' = NoStore /\ prepared' = NoStore
    /\ verdict' = "none" /\ touched' = FALSE
    /\ UNCHANGED changes

BeadsNext ==
    \/ \E i \in Issues, shape \in Shapes : Create(i, shape)
    \/ \E i, j \in Issues : Link(i, j) \/ UnlinkInBd(i, j)
    \/ \E i \in Issues, text \in Texts : Comment(i, text) \/ CommentInBd(i, text)
    \/ \E i \in Issues, n \in 1..MaxComments : DeleteInBd(i, n)
    \/ Preflight
    \/ \E preserve, drop \in BOOLEAN : Import(preserve, drop)
    \/ Verify
    \/ \E reference \in {NoStore, origin}, ours \in SUBSET DOMAIN bd : Rollback(reference, ours)

BeadsSpec == BeadsInit /\ [][BeadsNext]_beadsVars

-----------------------------------------------------------------------------
(* Properties *)

(***************************************************************************)
(* bd takes a store that preflight has let through and that it was         *)
(* configured for, whatever came before: a refusal means an oversize       *)
(* record, or a store that has changed since preflight saw it.             *)
(***************************************************************************)
PreflightIsEnough ==
    verdict = "refused" => ~ PreflightPasses(br) \/ prepared # br

(***************************************************************************)
(* What verify passes has every record that was not deleted with its edges *)
(* and classification, whatever was done in bd.  An import that nobody has *)
(* touched passes, its tombstones being "removed from the before-side" of  *)
(* ids, edges and classification (beads-transform.ts:709), except where    *)
(* that is not so: bd has kept a tombstone, because the status is mapped   *)
(* as preflight asks for and it was not dropped; a tombstone had comments, *)
(* which are still counted (745); or a repository's name is in no record   *)
(* of bd, although only tombstones or records without                      *)
(* --preserve-provenance had it.                                           *)
(***************************************************************************)
VerifyIsRight ==
    /\ verdict = "ok" =>
         \A i \in (DOMAIN origin) \ Tombstones(origin) :
           /\ i \in DOMAIN bd
           /\ bd[i].edges = origin[i].edges
           /\ bd[i].status = origin[i].status /\ bd[i].type = origin[i].type
    /\ verdict = "failed" /\ ~ touched =>
         \/ \E i \in Tombstones(origin) : i \in DOMAIN bd \/ origin[i].comments # <<>>
         \/ ~(Repos(origin) \subseteq Repos(bd))

(***************************************************************************)
(* What br gets back: every comment has a number that no other has, or br  *)
(* aborts, with or without a reference, whatever was written and deleted   *)
(* in bd and whichever side of a merge a record came from; and with the    *)
(* reference the comments are exactly what they were where nobody deleted  *)
(* one in bd: ids, texts and order.                                        *)
(***************************************************************************)
RollbackRestores ==
    /\ \A c \in Comments(br) : br[c[1]].comments[c[2]].id # NoId
    /\ \A c, d \in Comments(br) :
         br[c[1]].comments[c[2]].id = br[d[1]].comments[d[2]].id => c = d
    /\ Migrated =>
         LET back == Reverse(bd, origin)
         IN  \A i \in DOMAIN bd :
               LET old == origin[i].comments
                   new == back[i].comments
               IN  Len(new) >= Len(old) /\ (\A n \in DOMAIN old : new[n].text = old[n].text) =>
                     \A n \in DOMAIN old : new[n].id = old[n].id

=============================================================================
