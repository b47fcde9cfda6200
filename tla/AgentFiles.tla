----------------------------- MODULE AgentFiles -----------------------------
(***************************************************************************)
(* What coding agents are given to read: the skills copied from another    *)
(* repository (scripts/update-slp.ts), the list of skills in AGENTS.md     *)
(* (scripts/agents-skills.ts) and the mirrors of AGENTS.md for the other   *)
(* vendors (scripts/agents-link.ts, scripts/lib/vendor-links.ts), between  *)
(* commits of upstream, edits of the owner and runs that die.              *)
(*                                                                         *)
(* A skill is what its SKILL.md declares and the upstream paths its        *)
(* Markdown links to: another skill, a path outside every skill, or one    *)
(* that leaves the upstream checkout.  A copied link is followed in this   *)
(* repository (Here) or at a commit of upstream.                           *)
(***************************************************************************)
EXTENDS Integers, Sequences

CONSTANTS
  Skills,       \* names of directories of skills, here and upstream
  Texts,        \* what a SKILL.md may declare
  Unusable,     \* those texts agents-skills.ts reports an issue for
  Contents,     \* the skills upstream may have, each a text and the paths it links to
  Outside,      \* a path of upstream that is in no skill
  Escaping,     \* a path that is not in upstream
  Lists,        \* what the owner may write as "skills" of slp-source.json
  Mirrors,      \* CLAUDE.md, GEMINI.md, .codex, .gemini
  NoSkill,
  MaxUpstream, MaxTouches

\* A skill here: what it declares, none if it was copied half, and its links.
Skill == [text : Texts \cup {NoSkill},
          links : SUBSET [to : Skills \cup {Outside, Escaping}, at : Nat]]
ASSUME AgentFilesAssumption ==
  /\ Unusable \subseteq Texts
  /\ Lists \subseteq Seq(Skills)
  /\ Outside \notin Skills /\ Escaping \notin Skills \cup {Outside}
  /\ Contents \subseteq [text : Texts, links : SUBSET (Skills \cup {Outside, Escaping})]
  /\ NoSkill \notin Skill \cup Contents \cup Texts
  /\ MaxUpstream \in Nat \ {0} /\ MaxTouches \in Nat

VARIABLES
  library,   \* the commits of the other repository
  manifest,  \* slp-source.json: its commit and its skills, none if it is not valid
  shipped,   \* .claude/skills
  document,  \* AGENTS.md: its list of skills, unless a marker is missing, and its text
  mirror,    \* the mirrors of AGENTS.md
  windows,   \* the platform
  update,    \* the running update-slp
  touches,
  intact,    \* ghost: was nothing touched since an update last finished?
  listed,    \* ghost: ... since agents-skills.ts last exited 0?
  linked     \* ghost: ... since agents-link.ts last exited 0?

agentVars == <<library, manifest, shipped, document, mirror, windows, update, touches,
               intact, listed, linked>>

Here == 0
Partial == [text |-> NoSkill, links |-> {}]
Idle == [at |-> "idle", sha |-> 0, source |-> <<>>, staged |-> NoSkill, next |-> 0]
Names(list) == {list[i] : i \in DOMAIN list}

-----------------------------------------------------------------------------
\* update-slp.ts.  A relative link stays one only if what it points to is vendored.
\* Mutant of Rewritten: ... if a directory of that name is here.
RewrittenByName(target, list, sha) ==
  [to |-> target, at |-> IF target \in Skills /\ shipped[target] # NoSkill THEN Here ELSE sha]
Rewritten(target, list, sha) ==
  [to |-> target, at |-> IF target \in Names(list) \cup {Escaping} THEN Here ELSE sha]

Vendored(skill, list, sha) ==
  [text |-> skill.text, links |-> {Rewritten(t, list, sha) : t \in skill.links}]

\* Everything is copied and rewritten aside before anything here is touched: a
\* clone that fails or a skill that upstream has not ends the run.
Staged(list, sha) == [s \in Names(list) |-> Vendored(library[sha][s], list, sha)]
Valid == manifest.skills # <<>>
StartUpdate(sha) ==
  /\ update = Idle /\ Valid
  /\ \A s \in Names(manifest.skills) : library[sha][s] # NoSkill
  /\ update' = [at |-> "remove", sha |-> sha, source |-> manifest.skills,
             staged |-> Staged(manifest.skills, sha), next |-> 1]
  /\ UNCHANGED <<library, manifest, shipped, document, mirror, windows, touches,
                 intact, listed, linked>>

\* replaceSkills: one after another, each removed and copied.
RemoveSkill ==
  /\ update.at = "remove" /\ update.next <= Len(update.source)
  /\ shipped' = [shipped EXCEPT ![update.source[update.next]] = NoSkill]
  /\ update' = [update EXCEPT !.at = "copy"]
  /\ intact' = FALSE /\ listed' = FALSE
  /\ UNCHANGED <<library, manifest, document, mirror, windows, touches, linked>>
CopySkill ==
  /\ update.at = "copy"
  /\ LET s == update.source[update.next]
     IN  shipped' = [shipped EXCEPT ![s] = update.staged[s]]
  /\ update' = [update EXCEPT !.at = "remove", !.next = @ + 1]
  /\ listed' = FALSE
  /\ UNCHANGED <<library, manifest, document, mirror, windows, touches, intact, linked>>

\* The manifest is written from what was read at the start.
WriteSource ==
  /\ update.at = "remove" /\ update.next > Len(update.source)
  /\ manifest' = [commit |-> update.sha, skills |-> update.source]
  /\ update' = Idle /\ intact' = TRUE
  /\ UNCHANGED <<library, shipped, document, mirror, windows, touches, listed, linked>>

\* The run dies; a skill that is being removed or copied is left as far as that came.
UpdateDies(half) ==
  /\ update # Idle
  /\ half => update.next <= Len(update.source)
  /\ shipped' = IF half THEN [shipped EXCEPT ![update.source[update.next]] = Partial] ELSE shipped
  /\ intact' = (intact /\ ~half) /\ listed' = (listed /\ ~half)
  /\ update' = Idle
  /\ UNCHANGED <<library, manifest, document, mirror, windows, touches, linked>>

-----------------------------------------------------------------------------
\* agents-skills.ts.  Its list has what every directory of skills declares.
Directories == {s \in Skills : shipped[s] # NoSkill}
Issues == {s \in Directories : shipped[s] = Partial \/ shipped[s].text \in Unusable}
Inventory == {<<s, shipped[s].text>> : s \in Directories}

CheckSkills ==
  /\ Issues = {} /\ document.list = Inventory
  /\ listed' = TRUE
  /\ UNCHANGED <<library, manifest, shipped, document, mirror, windows, update, touches,
                 intact, linked>>
HasMarkers == document.list # {NoSkill}
WriteSkills ==
  /\ Issues = {} /\ HasMarkers /\ document.list # Inventory
  /\ document' = [document EXCEPT !.list = Inventory]
  /\ listed' = TRUE /\ linked' = (linked /\ \A m \in Mirrors : mirror[m].kind # "file")
  /\ UNCHANGED <<library, manifest, shipped, mirror, windows, update, touches, intact>>

-----------------------------------------------------------------------------
\* agents-link.ts: each mirror becomes a link to AGENTS.md, or where there are no
\* links a copy; what is neither is reported and left alone.
LinkTo(target) == [kind |-> "link", body |-> target]
Copy(body) == [kind |-> "file", body |-> body]
NoMirror == [kind |-> "none", body |-> NoSkill]
Directory == [kind |-> "dir", body |-> NoSkill]

Symlinked(m) == IF mirror[m].kind \in {"none", "link"} THEN LinkTo("AGENTS.md") ELSE mirror[m]
\* Mutant of Mirrored: any link is good enough.
MirroredAny(m) == IF mirror[m].kind \in {"none", "file"} THEN Copy(document) ELSE mirror[m]
Mirrored(m) ==
  IF mirror[m] = Directory \/ mirror[m] = LinkTo("AGENTS.md") THEN mirror[m] ELSE Copy(document)
Linked(m) == IF windows THEN Mirrored(m) ELSE Symlinked(m)
Fails(m) == mirror[m].kind = "dir" \/ (~windows /\ mirror[m].kind = "file")

LinkMirrors ==
  /\ mirror' = [m \in Mirrors |-> Linked(m)]
  /\ linked' = \A m \in Mirrors : ~Fails(m)
  /\ UNCHANGED <<library, manifest, shipped, document, windows, update, touches, intact, listed>>

-----------------------------------------------------------------------------
\* Others.
AgentsInit ==
  /\ \E content \in [Skills -> Contents \cup {NoSkill}], list \in Lists \ {<<>>} :
       /\ \A s \in Names(list) : content[s] # NoSkill /\ content[s].text \notin Unusable
       /\ library = <<content>>
       /\ manifest = [commit |-> 1, skills |-> list]
       /\ shipped = [s \in Skills |-> IF s \in Names(list)
                       THEN [text |-> content[s].text,
                             links |-> {[to |-> t, at |-> IF t \in Names(list) \cup {Escaping}
                                                          THEN Here ELSE 1] :
                                        t \in content[s].links}]
                       ELSE NoSkill]
       /\ document = [list |-> {<<s, content[s].text>> : s \in Names(list)}, text |-> 0]
  /\ mirror = [m \in Mirrors |-> LinkTo("AGENTS.md")]
  /\ windows \in BOOLEAN
  /\ update = Idle /\ touches = 0
  /\ intact = TRUE /\ listed = TRUE /\ linked = TRUE

CommitUpstream(s, skill) ==
  /\ Len(library) < MaxUpstream
  /\ library' = Append(library, [library[Len(library)] EXCEPT ![s] = skill])
  /\ UNCHANGED <<manifest, shipped, document, mirror, windows, update, touches,
                 intact, listed, linked>>

OwnerEdits == touches < MaxTouches /\ touches' = touches + 1
EditManifest(list) ==
  /\ OwnerEdits /\ manifest' = [manifest EXCEPT !.skills = list] /\ intact' = FALSE
  /\ UNCHANGED <<library, shipped, document, mirror, windows, update, listed, linked>>
\* The project's own skills, the vendored ones being upstream's.
EditSkill(s, text) ==
  /\ OwnerEdits /\ s \notin Names(manifest.skills) \cup Names(update.source)
  /\ shipped' = [shipped EXCEPT ![s] = IF text = NoSkill THEN NoSkill
                                       ELSE [text |-> text, links |-> {}]]
  /\ listed' = FALSE
  /\ UNCHANGED <<library, manifest, document, mirror, windows, update, intact, linked>>
EditDocument(list) ==
  /\ OwnerEdits /\ document' = [list |-> list, text |-> touches'] /\ listed' = FALSE
  /\ linked' = (linked /\ \A m \in Mirrors : mirror[m].kind # "file")
  /\ UNCHANGED <<library, manifest, shipped, mirror, windows, update, intact>>
EditMirror(m, value) ==
  /\ OwnerEdits /\ mirror' = [mirror EXCEPT ![m] = value] /\ linked' = FALSE
  /\ UNCHANGED <<library, manifest, shipped, document, windows, update, intact, listed>>

AgentsNext ==
  \/ \E sha \in DOMAIN library : StartUpdate(sha)
  \/ RemoveSkill \/ CopySkill \/ WriteSource
  \/ \E half \in BOOLEAN : UpdateDies(half)
  \/ CheckSkills \/ WriteSkills \/ LinkMirrors
  \/ \E s \in Skills, skill \in Contents \cup {NoSkill} : CommitUpstream(s, skill)
  \/ \E list \in Lists : EditManifest(list)
  \/ \E s \in Skills, text \in Texts \cup {NoSkill} : EditSkill(s, text)
  \/ \E list \in {document.list, {}, {NoSkill}} : EditDocument(list)
  \/ \E m \in Mirrors, value \in {NoMirror, Directory, LinkTo("other"), Copy(document)} :
        EditMirror(m, value)

AgentsSpec == AgentsInit /\ [][AgentsNext]_agentVars

-----------------------------------------------------------------------------
\* What a reader of a vendored skill finds behind a link of it.
Found(link) ==
  IF link.at = Here /\ link.to \in Skills /\ shipped[link.to] # NoSkill
  THEN shipped[link.to].text ELSE NoSkill

\* After an update that finished, and until somebody edits them, the skills of
\* the manifest are those of the commit it records, and a reader who follows a
\* link of one finds what was there: the copy of a skill that is vendored too, and
\* else the page at that commit, never a skill of the project that has the same
\* name.  Runs that failed, or died before they replaced anything, change nothing
\* of that (updateSlp, rewriteLink).
VendoredIsPinned ==
  intact => LET then == library[manifest.commit] IN
    \A s \in Names(manifest.skills) :
      /\ then[s] # NoSkill /\ shipped[s] # NoSkill /\ shipped[s].text = then[s].text
      /\ \A link \in shipped[s].links : link.to # Escaping =>
           \/ link.at = manifest.commit /\ link.to \notin Names(manifest.skills)
           \/ link.to \in Names(manifest.skills) /\ Found(link) = then[link.to].text

\* Whoever reads a mirror after both tools have exited 0 reads of exactly the skills
\* that are there, until one of them, the document or the mirror is edited: a link
\* to anything else, a stale copy, a half-copied skill are not passed over
\* (runAgentsSkills, verifyAndRepairVendorLinks, copySyncVendorMirrors).
Read(m) == IF mirror[m] = LinkTo("AGENTS.md") THEN document
           ELSE IF mirror[m].kind = "file" THEN mirror[m].body ELSE [list |-> {}, text |-> NoSkill]
AgentsSeeShipped ==
  listed /\ linked => \A m \in Mirrors :
    /\ Read(m).list = {<<s, shipped[s].text>> : s \in {t \in Skills : shipped[t] # NoSkill}}
    /\ Read(m).text = document.text
    /\ \A s \in Skills : shipped[s] # Partial
=============================================================================
