----------------------------- MODULE PushGuards -----------------------------
(***************************************************************************)
(* The guards of a push: scripts/guard-main-push.ts, a lefthook command,   *)
(* and scripts/push-scope-guard.ts, a lefthook script.  git starts the     *)
(* pre-push hook with the refs it is about to update and what the remote   *)
(* advertised for them; lefthook runs the two in parallel, but skips every *)
(* command when its own set of push files is empty.  That set comes from   *)
(* the checkout (HEAD, its upstream, the files on disk), never from what   *)
(* is pushed; the scope guard recomputes it to notice the skip.            *)
(*                                                                         *)
(* A commit is a value with a tree and a history; git, lefthook and the    *)
(* other users of the remote are modelled from how the guards rely on      *)
(* them.                                                                   *)
(***************************************************************************)
EXTENDS Naturals

CONSTANTS
  Clone,          \* clones that push
  Ref, Main,      \* branches of the remote, and PROTECTED_REF among them
  GitCommit, TreePath,
  TreeOf,         \* TreeOf[k]: the content of every path in commit k
  History,        \* History[k]: the commits reachable from k
  Nothing,        \* no commit (ZERO_SHA), no path, no upstream
  Ambient,        \* a marker that is no commit, such as HARNESS_LAND_GATE=1
  Unsent,         \* a ref the push does not update
  Safe,           \* the paths metadataSafe exempts
  Gated,          \* the commits `just land` has validated
  Root, Foreign,  \* the first commit of every branch; the commits of others
  MaxMoves,       \* bound: moves of the checkout and of the remote
  MovingCheckout, \* may HEAD or the working tree change while the hooks run?
  FreshRemote     \* does the remote start without branches?

ASSUME CommitAssumption ==
  /\ Main \in Ref /\ Safe \subseteq TreePath /\ Gated \subseteq GitCommit
  /\ History \in [GitCommit -> SUBSET GitCommit] /\ \A k \in GitCommit : k \in History[k]
  /\ \A k \in GitCommit : \A j \in History[k] : History[j] \subseteq History[k]
  /\ Root \in GitCommit /\ Foreign \subseteq GitCommit
  /\ \A k \in GitCommit \ Foreign : History[k] \subseteq GitCommit \ Foreign
  /\ Root \notin Foreign /\ MaxMoves \in Nat
ASSUME TokenAssumption ==
  /\ Nothing \notin GitCommit /\ Nothing \notin Ref
  /\ Ambient \notin GitCommit /\ Unsent \notin GitCommit /\ Unsent # Nothing /\ Ambient # Nothing

VARIABLES
  remote,     \* the branches of the remote
  received,   \* every commit the remote has had
  checkedOut, upstreamRef, disk,  \* per clone: HEAD, the upstream of its branch, the files on disk
  trackingRef,\* per clone: its remote-tracking refs
  objects,    \* per clone: the commits in its object store
  jobs,       \* per clone: the push in progress and what lefthook does with its commands
  moves,      \* moves of the checkouts and of the remote so far
  sent, advertised, marker,  \* per clone: the push's ref lines and its marker
  mainVerdict, scopeVerdict  \* per clone: what the two guards said

checkout == <<checkedOut, upstreamRef, disk>>
lines == <<sent, advertised, marker>>
verdicts == <<mainVerdict, scopeVerdict>>
pushVars == <<remote, received, checkout, trackingRef, objects, moves, jobs, lines, verdicts>>

MaybeCommit == GitCommit \cup {Nothing}
Verdicts == {"none", "ok", "refused"}

-----------------------------------------------------------------------------
Diff(a, b) == {p \in TreePath : TreeOf[a][p] # TreeOf[b][p]}
FilesOf(k) == {p \in TreePath : TreeOf[k][p] # Nothing}

\* The tracked commit HEAD is compared with: @{push}, or origin/HEAD's target.
Base(c) ==
  IF upstreamRef[c] # Nothing /\ trackingRef[c][upstreamRef[c]] # Nothing
  THEN trackingRef[c][upstreamRef[c]] ELSE trackingRef[c][Main]
\* Without either, everything in HEAD counts.  (A set git cannot compute makes
\* lefthook fail and the guard refuse; no error of git is modelled.)
Against(c, onDisk) ==
  (IF Base(c) = Nothing THEN FilesOf(checkedOut[c]) ELSE Diff(checkedOut[c], Base(c))) \cap onDisk

\* What lefthook itself computes to decide whether commands run.
LefthookSet(c) == Against(c, disk[c])

\* Mutant of PushFiles: deleted paths count, as if lefthook did not drop them.
PushFilesUnfiltered(c) == Against(c, TreePath)
\* lefthookPushFiles: the guard's replica of that set.
PushFiles(c) == Against(c, disk[c])

-----------------------------------------------------------------------------
Sends(c, r) == sent[c][r] # Unsent

\* changedFiles of realChangedFiles; the diff fails on a commit the clone lacks.
SafeChange(c) ==
  /\ advertised[c][Main] \in objects[c]
  /\ Diff(advertised[c][Main], sent[c][Main]) \subseteq Safe

\* Mutant of RefFailure: any marker proves the gate, whatever commit it names.
RefFailureAnyMarker(c, r) ==
  /\ Sends(c, r) /\ r = Main
  /\ \/ sent[c][r] = Nothing
     \/ marker[c] = Nothing /\ (advertised[c][r] = Nothing \/ ~SafeChange(c))
\* refFailure of a pushed ref.
RefFailure(c, r) ==
  /\ Sends(c, r) /\ r = Main
  /\ \/ sent[c][r] = Nothing
     \/ /\ marker[c] # sent[c][r]
        /\ advertised[c][r] = Nothing \/ ~SafeChange(c)

\* runGuard: without parseable lines it fails closed.
GuardAllows(c) == (\E r \in Ref : Sends(c, r)) /\ \A r \in Ref : ~RefFailure(c, r)

Tracked(c) == UNION {History[trackingRef[c][r]] : r \in {x \in Ref : trackingRef[c][x] # Nothing}}

\* Mutant of CarriesContent: a deletion sends nothing, whichever branch it is.
CarriesContentOnly(c, r) ==
  /\ sent[c][r] # Nothing
  /\ IF advertised[c][r] # Nothing
     THEN \/ advertised[c][r] \notin objects[c]
          \/ Diff(advertised[c][r], sent[c][r]) # {}
     ELSE ~(History[sent[c][r]] \subseteq Tracked(c))
\* refCarriesContent; an undecidable ref counts as one that carries content.
CarriesContent(c, r) ==
  IF sent[c][r] = Nothing THEN r = Main
  ELSE IF advertised[c][r] # Nothing
  THEN \/ advertised[c][r] \notin objects[c]
       \/ Diff(advertised[c][r], sent[c][r]) # {}
  ELSE ~(History[sent[c][r]] \subseteq Tracked(c))

\* evaluatePushScope, emptySetVerdict.
ScopeAllows(c) ==
  /\ \E r \in Ref : Sends(c, r)
  /\ PushFiles(c) # {} \/ \A r \in Ref : Sends(c, r) => ~CarriesContent(c, r)

-----------------------------------------------------------------------------
Idle(c) ==
  /\ jobs' = [jobs EXCEPT ![c] = "idle"]
  /\ sent' = [sent EXCEPT ![c] = [r \in Ref |-> Unsent]]
  /\ advertised' = [advertised EXCEPT ![c] = [r \in Ref |-> Nothing]]
  /\ marker' = [marker EXCEPT ![c] = Nothing]
  /\ mainVerdict' = [mainVerdict EXCEPT ![c] = "none"]
  /\ scopeVerdict' = [scopeVerdict EXCEPT ![c] = "none"]

PushInit ==
  /\ remote = [r \in Ref |-> IF FreshRemote THEN Nothing ELSE Root]
  /\ received = IF FreshRemote THEN {} ELSE History[Root]
  /\ checkedOut = [c \in Clone |-> Root] /\ upstreamRef = [c \in Clone |-> Nothing]
  /\ disk = [c \in Clone |-> FilesOf(Root)]
  /\ trackingRef = [c \in Clone |-> remote]
  /\ objects = [c \in Clone |-> GitCommit \ Foreign]
  /\ jobs = [c \in Clone |-> "idle"]
  /\ sent = [c \in Clone |-> [r \in Ref |-> Unsent]]
  /\ advertised = [c \in Clone |-> [r \in Ref |-> Nothing]]
  /\ marker = [c \in Clone |-> Nothing]
  /\ mainVerdict = [c \in Clone |-> "none"] /\ scopeVerdict = [c \in Clone |-> "none"]
  /\ moves = 0

\* git starts the hook.  A ref that is up to date gets no line, and no clone
\* sends a commit it lacks.  The marker is unset, left over, or set by a landing.
StartPush(c) ==
  /\ jobs[c] = "idle"
  /\ \E target \in [Ref -> objects[c] \cup {Nothing, Unsent}] :
       /\ \A r \in Ref : target[r] # remote[r]
       /\ sent' = [sent EXCEPT ![c] = target]
  /\ advertised' = [advertised EXCEPT ![c] = remote]
  /\ \E m \in Gated \cup {Nothing, Ambient} : marker' = [marker EXCEPT ![c] = m]
  /\ jobs' = [jobs EXCEPT ![c] = "started"]
  /\ UNCHANGED <<remote, received, checkout, trackingRef, objects, verdicts, moves>>

\* lefthook decides about the commands.
Lefthook(c) ==
  /\ jobs[c] = "started"
  /\ jobs' = [jobs EXCEPT ![c] = IF LefthookSet(c) = {} THEN "skipped" ELSE "armed"]
  /\ UNCHANGED <<remote, received, checkout, trackingRef, objects, lines, verdicts, moves>>

\* guard-main-push, or its being skipped.
GuardMain(c) ==
  /\ jobs[c] \in {"skipped", "armed"} /\ mainVerdict[c] = "none"
  /\ mainVerdict' = [mainVerdict EXCEPT ![c] =
                       IF jobs[c] = "skipped" \/ GuardAllows(c) THEN "ok" ELSE "refused"]
  /\ UNCHANGED <<remote, received, checkout, trackingRef, objects, jobs, lines, scopeVerdict, moves>>

\* push-scope-guard, in parallel with the commands.
GuardScope(c) ==
  /\ jobs[c] # "idle" /\ scopeVerdict[c] = "none"
  /\ scopeVerdict' = [scopeVerdict EXCEPT ![c] = IF ScopeAllows(c) THEN "ok" ELSE "refused"]
  /\ UNCHANGED <<remote, received, checkout, trackingRef, objects, jobs, lines, mainVerdict, moves>>

\* One job that fails fails the hook, and git sends nothing.
Refused(c) ==
  /\ "refused" \in {mainVerdict[c], scopeVerdict[c]}
  /\ "none" \notin {mainVerdict[c], scopeVerdict[c]}
  /\ jobs[c] # "idle" /\ Idle(c)
  /\ UNCHANGED <<remote, received, checkout, trackingRef, objects, moves>>

\* The remote takes some of the updates: a ref that no longer has the value it
\* advertised is refused, and so may be one that does not fast-forward.
Send(c) ==
  /\ jobs[c] # "idle" /\ mainVerdict[c] = "ok" /\ scopeVerdict[c] = "ok"
  /\ \E taken \in SUBSET {r \in Ref : Sends(c, r) /\ remote[r] = advertised[c][r]} :
       /\ remote' = [r \in Ref |-> IF r \in taken THEN sent[c][r] ELSE remote[r]]
       /\ trackingRef' = [trackingRef EXCEPT ![c] =
                         [r \in Ref |-> IF r \in taken THEN sent[c][r] ELSE @[r]]]
       /\ received' = received \cup
            UNION {History[sent[c][r]] : r \in {x \in taken : sent[c][x] # Nothing}}
  /\ Idle(c)
  /\ UNCHANGED <<checkout, objects, moves>>

-----------------------------------------------------------------------------
Move == moves < MaxMoves /\ moves' = moves + 1
Still(c) == jobs[c] = "idle" \/ MovingCheckout

\* git checkout: another commit, its files, a branch with or without upstream.
Checkout(c) ==
  /\ Still(c) /\ Move
  /\ \E k \in objects[c], u \in Ref \cup {Nothing} :
       /\ checkedOut' = [checkedOut EXCEPT ![c] = k]
       /\ upstreamRef' = [upstreamRef EXCEPT ![c] = u]
       /\ disk' = [disk EXCEPT ![c] = FilesOf(k)]
  /\ UNCHANGED <<remote, received, trackingRef, objects, jobs, lines, verdicts>>

\* A file is removed from the working tree, not yet from HEAD.
RemoveFile(c) ==
  /\ Still(c) /\ Move
  /\ \E p \in disk[c] : disk' = [disk EXCEPT ![c] = @ \ {p}]
  /\ UNCHANGED <<remote, received, checkedOut, upstreamRef, trackingRef, objects, jobs, lines, verdicts>>

\* git fetch, without pruning: the tracking ref of a vanished branch stays.
FetchRefs(c) ==
  /\ Still(c) /\ Move
  /\ trackingRef' = [trackingRef EXCEPT ![c] =
                    [r \in Ref |-> IF remote[r] = Nothing THEN @[r] ELSE remote[r]]]
  /\ objects' = [objects EXCEPT ![c] = @ \cup
       UNION {History[remote[r]] : r \in {x \in Ref : remote[x] # Nothing}}]
  /\ UNCHANGED <<remote, received, checkout, jobs, lines, verdicts>>

\* A gated or exempt update of the protected branch.
AllowedUpdate(a, b) == b # Nothing /\ (b \in Gated \/ (a # Nothing /\ Diff(a, b) \subseteq Safe))

\* Somebody else updates a branch; the protected one only as it may be.
OthersPush ==
  /\ Move
  /\ \E r \in Ref, k \in MaybeCommit :
       /\ r = Main => AllowedUpdate(remote[Main], k)
       /\ remote' = [remote EXCEPT ![r] = k]
       /\ received' = IF k = Nothing THEN received ELSE received \cup History[k]
  /\ UNCHANGED <<checkout, trackingRef, objects, jobs, lines, verdicts>>

Step(c) ==
  \/ StartPush(c) \/ Lefthook(c) \/ GuardMain(c) \/ GuardScope(c) \/ Refused(c) \/ Send(c)
  \/ Checkout(c) \/ RemoveFile(c) \/ FetchRefs(c)
PushNext == OthersPush \/ \E c \in Clone : Step(c)
PushSpec == PushInit /\ [][PushNext]_pushVars

-----------------------------------------------------------------------------
PushTypeOK ==
  /\ remote \in [Ref -> MaybeCommit] /\ received \subseteq GitCommit
  /\ checkedOut \in [Clone -> GitCommit] /\ upstreamRef \in [Clone -> Ref \cup {Nothing}]
  /\ disk \in [Clone -> SUBSET TreePath] /\ trackingRef \in [Clone -> [Ref -> MaybeCommit]]
  /\ objects \in [Clone -> SUBSET GitCommit] /\ moves \in 0..MaxMoves
  /\ jobs \in [Clone -> {"idle", "started", "skipped", "armed"}]
  /\ sent \in [Clone -> [Ref -> MaybeCommit \cup {Unsent}]]
  /\ advertised \in [Clone -> [Ref -> MaybeCommit]]
  /\ marker \in [Clone -> MaybeCommit \cup {Ambient}]
  /\ mainVerdict \in [Clone -> Verdicts] /\ scopeVerdict \in [Clone -> Verdicts]

\* The protected branch only ever moves to a commit a landing validated or by
\* exempt paths alone, and is never deleted: however the checkout relates to
\* what is pushed, whichever guards lefthook skips, and although the branch may
\* move between the guards' verdict and the update.
MainNeedsGate == [][remote'[Main] # remote[Main] => AllowedUpdate(remote[Main], remote'[Main])]_pushVars

\* A push whose commands were all skipped sends the remote no content: of every
\* ref, a deletion, a commit with the tree the remote had advertised, or one the
\* remote has already had.
NoSilentSkip ==
  \A c \in Clone : jobs[c] = "skipped" /\ scopeVerdict[c] = "ok" =>
    \A r \in Ref : Sends(c, r) =>
      \/ sent[c][r] = Nothing /\ r # Main
      \/ advertised[c][r] # Nothing /\ Diff(advertised[c][r], sent[c][r]) = {}
      \/ advertised[c][r] = Nothing /\ History[sent[c][r]] \subseteq received
=============================================================================
