-------------------------- MODULE PushGuardsProofs --------------------------
(***************************************************************************)
(* Theorems about the push guards, for every set of clones, branches,      *)
(* commits and paths.  Both rest on a checkout that stays put while the    *)
(* hooks run and on a main that exists: neither can be dropped.            *)
(***************************************************************************)
EXTENDS PushGuards, TLAPS

-----------------------------------------------------------------------------
\* Every variable keeps its type.
LEMMA TypeStep == PushTypeOK /\ [PushNext]_pushVars => PushTypeOK'
<1> SUFFICES ASSUME PushTypeOK, [PushNext]_pushVars PROVE PushTypeOK'
  OBVIOUS
<1> USE CommitAssumption, TokenAssumption DEF PushTypeOK, MaybeCommit, Verdicts
<1>1. CASE OthersPush
  BY <1>1 DEF OthersPush, Move, checkout, lines, verdicts
<1>2. ASSUME NEW c \in Clone, Step(c) PROVE PushTypeOK'
  <2> USE DEF checkout, lines, verdicts
  <2>1. CASE StartPush(c)
    <3>1. PICK target \in [Ref -> objects[c] \cup {Nothing, Unsent}] :
             sent' = [sent EXCEPT ![c] = target]
      BY <2>1 DEF StartPush
    <3>2. target \in [Ref -> MaybeCommit \cup {Unsent}]
      BY <3>1
    <3>3. sent' \in [Clone -> [Ref -> MaybeCommit \cup {Unsent}]]
      BY <3>1, <3>2
    <3>4. advertised' \in [Clone -> [Ref -> MaybeCommit]]
      BY <2>1 DEF StartPush
    <3>5. marker' \in [Clone -> MaybeCommit \cup {Ambient}]
      BY <2>1 DEF StartPush
    <3>6. jobs' \in [Clone -> {"idle", "started", "skipped", "armed"}]
      BY <2>1 DEF StartPush
    <3>7. UNCHANGED <<remote, received, checkout, trackingRef, objects, verdicts, moves>>
      BY <2>1 DEF StartPush
    <3> QED
      BY <3>3, <3>4, <3>5, <3>6, <3>7
  <2>2. CASE Lefthook(c)
    BY <2>2 DEF Lefthook
  <2>3. CASE GuardMain(c)
    BY <2>3 DEF GuardMain
  <2>4. CASE GuardScope(c)
    BY <2>4 DEF GuardScope
  <2>5. ASSUME Idle(c)
        PROVE  /\ jobs' \in [Clone -> {"idle", "started", "skipped", "armed"}]
               /\ sent' \in [Clone -> [Ref -> MaybeCommit \cup {Unsent}]]
               /\ advertised' \in [Clone -> [Ref -> MaybeCommit]]
               /\ marker' \in [Clone -> MaybeCommit \cup {Ambient}]
               /\ mainVerdict' \in [Clone -> Verdicts] /\ scopeVerdict' \in [Clone -> Verdicts]
    BY <2>5 DEF Idle
  <2>6. CASE Refused(c)
    BY <2>5, <2>6 DEF Refused
  <2>7. CASE Send(c)
    <3>1. PICK taken \in SUBSET {r \in Ref : Sends(c, r) /\ remote[r] = advertised[c][r]} :
            /\ remote' = [r \in Ref |-> IF r \in taken THEN sent[c][r] ELSE remote[r]]
            /\ trackingRef' = [trackingRef EXCEPT ![c] =
                              [r \in Ref |-> IF r \in taken THEN sent[c][r] ELSE @[r]]]
            /\ received' = received \cup
                 UNION {History[sent[c][r]] : r \in {x \in taken : sent[c][x] # Nothing}}
      BY <2>7 DEF Send
    <3>2. \A r \in taken : sent[c][r] \in MaybeCommit
      BY <3>1 DEF Sends
    <3>3. remote' \in [Ref -> MaybeCommit]
      BY <3>1, <3>2
    <3>4. trackingRef' \in [Clone -> [Ref -> MaybeCommit]]
      <4>1. [r \in Ref |-> IF r \in taken THEN sent[c][r] ELSE trackingRef[c][r]]
              \in [Ref -> MaybeCommit]
        BY <3>2
      <4> QED
        BY <3>1, <4>1
    <3>5. received' \subseteq GitCommit
      <4>1. \A r \in taken : sent[c][r] # Nothing => History[sent[c][r]] \subseteq GitCommit
        BY <3>2
      <4> QED
        BY <3>1, <4>1
    <3>6. Idle(c) /\ UNCHANGED <<checkout, objects, moves>>
      BY <2>7 DEF Send
    <3> QED
      BY <2>5, <3>3, <3>4, <3>5, <3>6
  <2>8. CASE Checkout(c)
    BY <2>8 DEF Checkout, Move, FilesOf
  <2>9. CASE RemoveFile(c)
    BY <2>9 DEF RemoveFile, Move
  <2>10. CASE FetchRefs(c)
    <3>1. [r \in Ref |-> IF remote[r] = Nothing THEN trackingRef[c][r] ELSE remote[r]]
            \in [Ref -> MaybeCommit]
      OBVIOUS
    <3>2. trackingRef' \in [Clone -> [Ref -> MaybeCommit]]
      BY <2>10, <3>1 DEF FetchRefs
    <3>3. \A r \in Ref : remote[r] # Nothing => History[remote[r]] \subseteq GitCommit
      OBVIOUS
    <3>4. objects' \in [Clone -> SUBSET GitCommit]
      BY <2>10, <3>3 DEF FetchRefs
    <3> QED
      BY <2>10, <3>2, <3>4 DEF FetchRefs, Move
  <2> QED
    BY <1>2, <2>1, <2>2, <2>3, <2>4, <2>6, <2>7, <2>8, <2>9, <2>10 DEF Step
<1>3. CASE UNCHANGED pushVars
  BY <1>3 DEF pushVars, checkout, lines, verdicts
<1> QED
  BY <1>1, <1>2, <1>3 DEF PushNext

LEMMA TypeInit == PushInit => PushTypeOK
<1> USE CommitAssumption, TokenAssumption DEF PushTypeOK, MaybeCommit, Verdicts
<1> SUFFICES ASSUME PushInit PROVE PushTypeOK
  OBVIOUS
<1>1. remote \in [Ref -> MaybeCommit] /\ received \subseteq GitCommit /\ moves \in 0..MaxMoves
  BY DEF PushInit
<1>2. trackingRef \in [Clone -> [Ref -> MaybeCommit]] /\ objects \in [Clone -> SUBSET GitCommit]
  BY <1>1 DEF PushInit
<1>3. checkedOut \in [Clone -> GitCommit] /\ upstreamRef \in [Clone -> Ref \cup {Nothing}]
  BY DEF PushInit
<1>4. disk \in [Clone -> SUBSET TreePath]
  BY DEF PushInit, FilesOf
<1>5. /\ sent \in [Clone -> [Ref -> MaybeCommit \cup {Unsent}]]
      /\ advertised \in [Clone -> [Ref -> MaybeCommit]]
      /\ marker \in [Clone -> MaybeCommit \cup {Ambient}]
  BY DEF PushInit
<1>6. /\ jobs \in [Clone -> {"idle", "started", "skipped", "armed"}]
      /\ mainVerdict \in [Clone -> Verdicts] /\ scopeVerdict \in [Clone -> Verdicts]
  BY DEF PushInit
<1> QED
  BY <1>1, <1>2, <1>3, <1>4, <1>5, <1>6

\* Type correctness, whatever moves.
THEOREM GuardsTypeCorrect == PushSpec => []PushTypeOK
  BY TypeInit, TypeStep, PTL DEF PushSpec

-----------------------------------------------------------------------------
\* What holds of one clone's push while its checkout stays put: lefthook's
\* decision and the verdicts so far are still those its state would give, and
\* it tracks only what the remote has had.
PushInv(c) ==
  /\ marker[c] \in Gated \cup {Nothing, Ambient}
  /\ jobs[c] = "idle" => mainVerdict[c] = "none" /\ scopeVerdict[c] = "none"
  /\ jobs[c] = "started" => mainVerdict[c] = "none"
  /\ jobs[c] = "skipped" => PushFiles(c) = {}
  /\ jobs[c] = "armed" /\ mainVerdict[c] = "ok" => GuardAllows(c)
  /\ scopeVerdict[c] = "ok" => ScopeAllows(c)
  /\ Tracked(c) \subseteq received

\* The remote has had what its branches reach.
RemoteInv ==
  /\ remote[Main] # Nothing
  /\ \A r \in Ref : remote[r] # Nothing => History[remote[r]] \subseteq received

GuardInv == PushTypeOK /\ RemoteInv /\ \A c \in Clone : PushInv(c)

Calm == ~MovingCheckout /\ ~FreshRemote

\* What the replica and the guards look at.
Same(c) ==
  /\ checkedOut'[c] = checkedOut[c] /\ upstreamRef'[c] = upstreamRef[c] /\ disk'[c] = disk[c]
  /\ trackingRef'[c] = trackingRef[c] /\ objects'[c] = objects[c]

SamePush(c) == sent'[c] = sent[c] /\ advertised'[c] = advertised[c] /\ marker'[c] = marker[c]

LEMMA Frame ==
  ASSUME NEW c \in Clone, Same(c)
  PROVE  PushFiles(c)' = PushFiles(c) /\ Tracked(c)' = Tracked(c)
  BY DEF Same, PushFiles, Against, Base, Tracked

LEMMA PushFrame ==
  ASSUME NEW c \in Clone, Same(c), SamePush(c)
  PROVE  (GuardAllows(c) => GuardAllows(c)') /\ (ScopeAllows(c) => ScopeAllows(c)')
<1>1. \A r \in Ref : Sends(c, r)' <=> Sends(c, r)
  BY DEF SamePush, Sends
<1>2. \A r \in Ref : RefFailure(c, r)' <=> RefFailure(c, r)
  BY <1>1 DEF Same, SamePush, RefFailure, SafeChange
<1>3. \A r \in Ref : CarriesContent(c, r)' <=> CarriesContent(c, r)
  BY Frame DEF Same, SamePush, CarriesContent
<1> QED
  BY Frame, <1>1, <1>2, <1>3 DEF GuardAllows, ScopeAllows

\* A clone nothing happens to keeps its invariant; the remote only gains commits.
LEMMA Untouched ==
  ASSUME NEW c \in Clone, PushInv(c), Same(c), SamePush(c), received \subseteq received',
         jobs'[c] = jobs[c], mainVerdict'[c] = mainVerdict[c], scopeVerdict'[c] = scopeVerdict[c]
  PROVE  PushInv(c)'
<1>1. PushFiles(c)' = PushFiles(c) /\ Tracked(c)' = Tracked(c)
  BY Frame
<1>2. (GuardAllows(c) => GuardAllows(c)') /\ (ScopeAllows(c) => ScopeAllows(c)')
  BY PushFrame
<1> QED
  BY <1>1, <1>2 DEF PushInv, SamePush

\* A push both guards let through updates the protected branch only as allowed.
LEMMA VerdictsSuffice ==
  ASSUME PushTypeOK, NEW c \in Clone, PushInv(c), jobs[c] # "idle",
         mainVerdict[c] = "ok", scopeVerdict[c] = "ok",
         Sends(c, Main), advertised[c][Main] # Nothing
  PROVE  AllowedUpdate(advertised[c][Main], sent[c][Main])
<1> USE CommitAssumption, TokenAssumption
<1>1. jobs[c] \in {"armed", "skipped"}
  BY DEF PushInv, PushTypeOK
<1>2. CASE jobs[c] = "armed"
  <2>1. ~RefFailure(c, Main)
    BY <1>2 DEF PushInv, GuardAllows
  <2>2. sent[c][Main] # Nothing
    BY <2>1 DEF RefFailure
  <2>3. CASE marker[c] = sent[c][Main]
    <3>1. sent[c][Main] \in GitCommit
      BY <2>2 DEF PushTypeOK, MaybeCommit, Sends
    <3> QED
      BY <2>2, <2>3, <3>1 DEF PushInv, AllowedUpdate
  <2>4. CASE marker[c] # sent[c][Main]
    BY <2>1, <2>2, <2>4 DEF RefFailure, SafeChange, AllowedUpdate
  <2> QED
    BY <2>3, <2>4
<1>3. CASE jobs[c] = "skipped"
  <2>1. ~CarriesContent(c, Main)
    BY <1>3 DEF PushInv, ScopeAllows
  <2>2. sent[c][Main] # Nothing /\ Diff(advertised[c][Main], sent[c][Main]) = {}
    BY <2>1 DEF CarriesContent
  <2> QED
    BY <2>2 DEF AllowedUpdate
<1> QED
  BY <1>1, <1>2, <1>3

\* What a step of the clone does to the protected branch.
LEMMA SendAllowed ==
  ASSUME GuardInv, NEW c \in Clone, Send(c)
  PROVE  remote'[Main] = remote[Main] \/ AllowedUpdate(remote[Main], remote'[Main])
<1> USE CommitAssumption
<1>1. PICK taken \in SUBSET {r \in Ref : Sends(c, r) /\ remote[r] = advertised[c][r]} :
        remote' = [r \in Ref |-> IF r \in taken THEN sent[c][r] ELSE remote[r]]
  BY DEF Send
<1>2. CASE Main \in taken
  <2>1. Sends(c, Main) /\ remote[Main] = advertised[c][Main]
    BY <1>1, <1>2
  <2>2. AllowedUpdate(advertised[c][Main], sent[c][Main])
    BY <2>1, VerdictsSuffice DEF GuardInv, RemoteInv, Send
  <2> QED
    BY <1>1, <1>2, <2>1, <2>2
<1>3. CASE Main \notin taken
  BY <1>1, <1>3
<1> QED
  BY <1>2, <1>3

\* Steps of one clone leave the others alone.
LEMMA OthersUntouched ==
  ASSUME GuardInv, NEW c \in Clone, Step(c), NEW d \in Clone, d # c
  PROVE  PushInv(d)'
<1>1. PushInv(d) /\ PushTypeOK
  BY DEF GuardInv
<1>2. received \subseteq received'
  BY DEF Step, StartPush, Lefthook, GuardMain, GuardScope, Refused, Send, Checkout, RemoveFile, FetchRefs
<1>3. Same(d)
  BY <1>1 DEF Same, PushTypeOK, checkout, Step, StartPush, Lefthook, GuardMain, GuardScope, Refused,
              Send, Checkout, RemoveFile, FetchRefs
<1>4. SamePush(d) /\ jobs'[d] = jobs[d]
  BY <1>1 DEF SamePush, PushTypeOK, lines, Idle, Step, StartPush, Lefthook, GuardMain, GuardScope,
              Refused, Send, Checkout, RemoveFile, FetchRefs
<1>5. mainVerdict'[d] = mainVerdict[d] /\ scopeVerdict'[d] = scopeVerdict[d]
  BY <1>1 DEF PushTypeOK, verdicts, Idle, Step, StartPush, Lefthook, GuardMain, GuardScope,
              Refused, Send, Checkout, RemoveFile, FetchRefs
<1> QED
  BY <1>1, <1>2, <1>3, <1>4, <1>5, Untouched

\* An idle clone has no verdict to keep true.
LEMMA IdleInv ==
  ASSUME NEW c \in Clone, marker'[c] \in Gated \cup {Nothing, Ambient}, jobs'[c] = "idle",
         mainVerdict'[c] = "none", scopeVerdict'[c] = "none", Tracked(c)' \subseteq received'
  PROVE  PushInv(c)'
  BY DEF PushInv

\* While the checkout stays put, no step of a clone breaks what holds of its push.
LEMMA OwnStep ==
  ASSUME GuardInv, Calm, NEW c \in Clone, Step(c)
  PROVE  PushInv(c)'
<1> USE CommitAssumption, TokenAssumption
<1>0. PushInv(c) /\ PushTypeOK
  BY DEF GuardInv
<1>1. CASE StartPush(c)
  <2>1. Same(c) /\ received' = received
    BY <1>1 DEF StartPush, Same, checkout
  <2>2. Tracked(c)' \subseteq received'
    BY <1>0, <2>1, Frame DEF PushInv
  <2>3. marker'[c] \in Gated \cup {Nothing, Ambient} /\ jobs'[c] = "started"
    BY <1>0, <1>1 DEF StartPush, PushTypeOK
  <2>4. mainVerdict'[c] = "none" /\ scopeVerdict'[c] = "none"
    BY <1>0, <1>1 DEF StartPush, PushInv, verdicts
  <2> QED
    BY <2>2, <2>3, <2>4 DEF PushInv
<1>2. CASE Lefthook(c)
  <2>1. Same(c) /\ SamePush(c) /\ received' = received
    BY <1>2 DEF Lefthook, Same, SamePush, checkout, lines
  <2>2. jobs'[c] = (IF LefthookSet(c) = {} THEN "skipped" ELSE "armed") /\ jobs[c] = "started"
    BY <1>0, <1>2 DEF Lefthook, PushTypeOK
  <2>3. mainVerdict'[c] = "none" /\ scopeVerdict'[c] = scopeVerdict[c]
    BY <1>0, <1>2 DEF Lefthook, PushInv, verdicts
  <2>4. jobs'[c] = "skipped" => PushFiles(c) = {}
    BY <2>2 DEF LefthookSet, PushFiles
  <2>5. marker'[c] \in Gated \cup {Nothing, Ambient} /\ Tracked(c)' \subseteq received'
    BY <1>0, <2>1, Frame DEF PushInv, SamePush
  <2>6. PushFiles(c)' = PushFiles(c) /\ (scopeVerdict'[c] = "ok" => ScopeAllows(c)')
    BY <1>0, <2>1, <2>3, Frame, PushFrame DEF PushInv
  <2> QED
    BY <2>2, <2>3, <2>4, <2>5, <2>6 DEF PushInv
<1>3. CASE GuardMain(c)
  <2>1. Same(c) /\ SamePush(c) /\ received' = received /\ jobs'[c] = jobs[c]
    BY <1>3 DEF GuardMain, Same, SamePush, checkout, lines
  <2>2. jobs[c] \in {"skipped", "armed"} /\ scopeVerdict'[c] = scopeVerdict[c]
    BY <1>3 DEF GuardMain
  <2>3. jobs[c] = "armed" /\ mainVerdict'[c] = "ok" => GuardAllows(c)
    BY <1>0, <1>3 DEF GuardMain, PushTypeOK
  <2>4. marker'[c] \in Gated \cup {Nothing, Ambient} /\ Tracked(c)' \subseteq received'
    BY <1>0, <2>1, Frame DEF PushInv, SamePush
  <2>5. PushFiles(c)' = PushFiles(c) /\ (scopeVerdict'[c] = "ok" => ScopeAllows(c)')
    BY <1>0, <2>1, <2>2, Frame, PushFrame DEF PushInv
  <2>6. jobs[c] = "armed" /\ mainVerdict'[c] = "ok" => GuardAllows(c)'
    BY <2>1, <2>3, PushFrame
  <2> QED
    BY <1>0, <2>1, <2>2, <2>4, <2>5, <2>6 DEF PushInv
<1>4. CASE GuardScope(c)
  <2>1. Same(c) /\ SamePush(c) /\ received' = received /\ jobs'[c] = jobs[c]
    BY <1>4 DEF GuardScope, Same, SamePush, checkout, lines
  <2>2. jobs[c] # "idle" /\ mainVerdict'[c] = mainVerdict[c]
    BY <1>4 DEF GuardScope
  <2>3. scopeVerdict'[c] = "ok" => ScopeAllows(c)
    BY <1>0, <1>4 DEF GuardScope, PushTypeOK
  <2>4. marker'[c] \in Gated \cup {Nothing, Ambient} /\ Tracked(c)' \subseteq received'
    BY <1>0, <2>1, Frame DEF PushInv, SamePush
  <2>5. PushFiles(c)' = PushFiles(c) /\ (scopeVerdict'[c] = "ok" => ScopeAllows(c)')
    BY <2>1, <2>3, Frame, PushFrame
  <2>6. jobs[c] = "armed" /\ mainVerdict[c] = "ok" => GuardAllows(c)'
    BY <1>0, <2>1, PushFrame DEF PushInv
  <2> QED
    BY <1>0, <2>1, <2>2, <2>4, <2>5, <2>6 DEF PushInv
<1>5. ASSUME Idle(c)
      PROVE  /\ marker'[c] \in Gated \cup {Nothing, Ambient} /\ jobs'[c] = "idle"
             /\ mainVerdict'[c] = "none" /\ scopeVerdict'[c] = "none"
  BY <1>0, <1>5 DEF Idle, PushTypeOK
<1>6. CASE Refused(c)
  <2>1. Same(c) /\ received' = received /\ Idle(c)
    BY <1>6 DEF Refused, Same, checkout
  <2>2. Tracked(c)' \subseteq received'
    BY <1>0, <2>1, Frame DEF PushInv
  <2> QED
    BY <1>5, <2>1, <2>2, IdleInv
<1>7. CASE Send(c)
  <2>1. PICK taken \in SUBSET {r \in Ref : Sends(c, r) /\ remote[r] = advertised[c][r]} :
          /\ trackingRef' = [trackingRef EXCEPT ![c] =
                            [r \in Ref |-> IF r \in taken THEN sent[c][r] ELSE @[r]]]
          /\ received' = received \cup
               UNION {History[sent[c][r]] : r \in {x \in taken : sent[c][x] # Nothing}}
    BY <1>7 DEF Send
  <2>2. \A r \in Ref : trackingRef'[c][r] = IF r \in taken THEN sent[c][r] ELSE trackingRef[c][r]
    BY <1>0, <2>1 DEF PushTypeOK
  <2>3. ASSUME NEW r \in Ref, trackingRef'[c][r] # Nothing
        PROVE  History[trackingRef'[c][r]] \subseteq received'
    <3>1. CASE r \in taken
      BY <2>1, <2>2, <2>3, <3>1
    <3>2. CASE r \notin taken
      <4>1. History[trackingRef[c][r]] \subseteq Tracked(c)
        BY <2>2, <2>3, <3>2 DEF Tracked
      <4> QED
        BY <1>0, <2>1, <2>2, <3>2, <4>1 DEF PushInv
    <3> QED
      BY <3>1, <3>2
  <2>4. Tracked(c)' \subseteq received'
    BY <2>3 DEF Tracked
  <2>5. Idle(c)
    BY <1>7 DEF Send
  <2> QED
    BY <1>5, <2>4, <2>5, IdleInv
<1>8. ASSUME Still(c), UNCHANGED <<jobs, lines, verdicts>>
      PROVE  /\ marker'[c] \in Gated \cup {Nothing, Ambient} /\ jobs'[c] = "idle"
             /\ mainVerdict'[c] = "none" /\ scopeVerdict'[c] = "none"
  BY <1>0, <1>8 DEF Still, Calm, PushInv, lines, verdicts
<1>9. CASE Checkout(c) \/ RemoveFile(c)
  <2>1. Still(c) /\ UNCHANGED <<jobs, lines, verdicts, trackingRef, received>>
    BY <1>9 DEF Checkout, RemoveFile, lines, verdicts
  <2>2. Tracked(c)' \subseteq received'
    BY <1>0, <2>1 DEF PushInv, Tracked
  <2> QED
    BY <1>8, <2>1, <2>2, IdleInv
<1>10. CASE FetchRefs(c)
  <2>1. Still(c) /\ UNCHANGED <<jobs, lines, verdicts, received>>
    BY <1>10 DEF FetchRefs, lines, verdicts
  <2>2. \A r \in Ref : trackingRef'[c][r] = IF remote[r] = Nothing THEN trackingRef[c][r] ELSE remote[r]
    BY <1>0, <1>10 DEF FetchRefs, PushTypeOK
  <2>3. ASSUME NEW r \in Ref, trackingRef'[c][r] # Nothing
        PROVE  History[trackingRef'[c][r]] \subseteq received
    <3>1. CASE remote[r] = Nothing
      BY <1>0, <2>2, <2>3, <3>1 DEF PushInv, Tracked
    <3>2. CASE remote[r] # Nothing
      BY <2>2, <3>2 DEF GuardInv, RemoteInv
    <3> QED
      BY <3>1, <3>2
  <2>4. Tracked(c)' \subseteq received'
    BY <2>1, <2>3 DEF Tracked
  <2> QED
    BY <1>8, <2>1, <2>4, IdleInv
<1> QED
  BY <1>1, <1>2, <1>3, <1>4, <1>6, <1>7, <1>9, <1>10 DEF Step

LEMMA RemoteStep == GuardInv /\ [PushNext]_pushVars => RemoteInv'
<1> USE CommitAssumption
<1> SUFFICES ASSUME GuardInv, [PushNext]_pushVars PROVE RemoteInv'
  OBVIOUS
<1>0. RemoteInv /\ PushTypeOK
  BY DEF GuardInv
<1>1. ASSUME NEW c \in Clone, Send(c) PROVE RemoteInv'
  <2>1. remote'[Main] # Nothing
    BY <1>0, <1>1, SendAllowed DEF RemoteInv, AllowedUpdate
  <2>2. PICK taken \in SUBSET {r \in Ref : Sends(c, r) /\ remote[r] = advertised[c][r]} :
          /\ remote' = [r \in Ref |-> IF r \in taken THEN sent[c][r] ELSE remote[r]]
          /\ received' = received \cup
               UNION {History[sent[c][r]] : r \in {x \in taken : sent[c][x] # Nothing}}
    BY <1>1 DEF Send
  <2>3. ASSUME NEW r \in Ref, remote'[r] # Nothing PROVE History[remote'[r]] \subseteq received'
    <3>1. CASE r \in taken
      BY <2>2, <2>3, <3>1
    <3>2. CASE r \notin taken
      BY <1>0, <2>2, <2>3, <3>2 DEF RemoteInv
    <3> QED
      BY <3>1, <3>2
  <2> QED
    BY <2>1, <2>3 DEF RemoteInv
<1>2. CASE OthersPush
  <2>1. PICK r \in Ref, k \in MaybeCommit :
          /\ r = Main => AllowedUpdate(remote[Main], k)
          /\ remote' = [remote EXCEPT ![r] = k]
          /\ received' = IF k = Nothing THEN received ELSE received \cup History[k]
    BY <1>2 DEF OthersPush
  <2>2. remote'[Main] # Nothing
    BY <1>0, <2>1 DEF RemoteInv, AllowedUpdate, PushTypeOK
  <2>3. \A x \in Ref : remote'[x] # Nothing => History[remote'[x]] \subseteq received'
    BY <1>0, <2>1 DEF RemoteInv, PushTypeOK
  <2> QED
    BY <2>2, <2>3 DEF RemoteInv
<1>3. ASSUME UNCHANGED <<remote, received>> PROVE RemoteInv'
  BY <1>0, <1>3 DEF RemoteInv
<1>4. ASSUME NEW c \in Clone, Step(c), ~Send(c) PROVE RemoteInv'
  BY <1>3, <1>4 DEF Step, StartPush, Lefthook, GuardMain, GuardScope, Refused, Checkout,
                    RemoveFile, FetchRefs
<1>5. CASE UNCHANGED pushVars
  BY <1>3, <1>5 DEF pushVars
<1> QED
  BY <1>1, <1>2, <1>4, <1>5 DEF PushNext

LEMMA GuardInit == ASSUME Calm PROVE PushInit => GuardInv
<1> USE CommitAssumption, TokenAssumption
<1> SUFFICES ASSUME PushInit PROVE GuardInv
  OBVIOUS
<1>1. PushTypeOK
  BY TypeInit
<1>2. \A r \in Ref : remote[r] = Root
  BY DEF PushInit, Calm
<1>3. received = History[Root]
  BY DEF PushInit, Calm
<1>4. RemoteInv
  BY <1>2, <1>3 DEF RemoteInv
<1>5. ASSUME NEW c \in Clone PROVE PushInv(c)
  <2>1. \A r \in Ref : trackingRef[c][r] = Root
    BY <1>2 DEF PushInit
  <2>2. Tracked(c) \subseteq received
    BY <1>3, <2>1 DEF Tracked
  <2>3. /\ marker[c] = Nothing /\ jobs[c] = "idle"
        /\ mainVerdict[c] = "none" /\ scopeVerdict[c] = "none"
    BY DEF PushInit
  <2> QED
    BY <2>2, <2>3 DEF PushInv
<1> QED
  BY <1>1, <1>4, <1>5 DEF GuardInv

LEMMA GuardStep == ASSUME Calm PROVE GuardInv /\ [PushNext]_pushVars => GuardInv'
<1> SUFFICES ASSUME GuardInv, [PushNext]_pushVars PROVE GuardInv'
  OBVIOUS
<1>1. PushTypeOK' /\ RemoteInv'
  BY TypeStep, RemoteStep DEF GuardInv
<1>2. ASSUME NEW d \in Clone PROVE PushInv(d)'
  <2>1. ASSUME NEW c \in Clone, Step(c) PROVE PushInv(d)'
    BY <1>2, <2>1, OwnStep, OthersUntouched
  <2>2. ASSUME UNCHANGED <<checkout, trackingRef, objects, jobs, lines, verdicts>>,
               received \subseteq received'
        PROVE  PushInv(d)'
    <3>1. Same(d) /\ SamePush(d)
      BY <2>2 DEF Same, SamePush, checkout, lines
    <3>2. jobs'[d] = jobs[d] /\ mainVerdict'[d] = mainVerdict[d]
          /\ scopeVerdict'[d] = scopeVerdict[d]
      BY <2>2 DEF verdicts
    <3> QED
      BY <1>2, <2>2, <3>1, <3>2, Untouched DEF GuardInv
  <2>3. CASE OthersPush
    <3>1. received \subseteq received'
      BY <2>3 DEF OthersPush
    <3> QED
      BY <2>2, <2>3, <3>1 DEF OthersPush
  <2>4. CASE UNCHANGED pushVars
    BY <2>2, <2>4 DEF pushVars
  <2> QED
    BY <2>1, <2>3, <2>4 DEF PushNext
<1> QED
  BY <1>1, <1>2 DEF GuardInv

LEMMA GuardInvariant == ASSUME Calm PROVE PushSpec => []GuardInv
  BY GuardInit, GuardStep, PTL DEF PushSpec

-----------------------------------------------------------------------------
LEMMA MainStep == GuardInv /\ [PushNext]_pushVars =>
  [remote'[Main] # remote[Main] => AllowedUpdate(remote[Main], remote'[Main])]_pushVars
<1> SUFFICES ASSUME GuardInv, [PushNext]_pushVars, remote'[Main] # remote[Main]
             PROVE  AllowedUpdate(remote[Main], remote'[Main])
  OBVIOUS
<1>1. ASSUME NEW c \in Clone, Step(c) PROVE Send(c)
  BY <1>1 DEF Step, StartPush, Lefthook, GuardMain, GuardScope, Refused, Checkout, RemoveFile, FetchRefs
<1>2. CASE OthersPush
  BY <1>2, CommitAssumption DEF OthersPush, GuardInv, PushTypeOK
<1> QED
  BY <1>1, <1>2, SendAllowed DEF PushNext, pushVars

\* The protected branch only moves to validated commits or by exempt paths.
THEOREM GuardedMain == ASSUME Calm PROVE PushSpec => MainNeedsGate
  BY GuardInvariant, MainStep, PTL DEF PushSpec, MainNeedsGate

\* A push whose commands were skipped sends no content the remote lacks.
THEOREM SkippedPushIsEmpty == ASSUME Calm PROVE PushSpec => []NoSilentSkip
<1>1. GuardInv => NoSilentSkip
  <2> SUFFICES ASSUME GuardInv, NEW c \in Clone, jobs[c] = "skipped", scopeVerdict[c] = "ok",
                      NEW r \in Ref, Sends(c, r)
               PROVE  \/ sent[c][r] = Nothing /\ r # Main
                      \/ advertised[c][r] # Nothing /\ Diff(advertised[c][r], sent[c][r]) = {}
                      \/ advertised[c][r] = Nothing /\ History[sent[c][r]] \subseteq received
    BY DEF NoSilentSkip
  <2>1. PushInv(c)
    BY DEF GuardInv
  <2>2. ~CarriesContent(c, r) /\ Tracked(c) \subseteq received
    BY <2>1 DEF PushInv, ScopeAllows
  <2> QED
    BY <2>2 DEF CarriesContent
<1> QED
  BY <1>1, GuardInvariant, PTL
=============================================================================
