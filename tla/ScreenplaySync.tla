--------------------------- MODULE ScreenplaySync ---------------------------
(***************************************************************************)
(* Draft, revisions and production synchronisation of one screenplay:      *)
(* apps/web/src/server/routes/screenplay.ts with previewSceneSync of       *)
(* packages/domain/src/scene-sync.ts.                                      *)
(*                                                                         *)
(* Only the scene headings of the draft are kept: a draft scene is its     *)
(* heading block and the text below it, and texts are told apart by their  *)
(* slugline and their fingerprint.  A draft scene and a stored scene made  *)
(* from it share an identifier.  The synchronisation of revision r is      *)
(* sync[r] (UNIQUE (screenplay_id, to_revision_id)).  A request reads,     *)
(* then ends with one atomic batch; anything may happen in between.        *)
(***************************************************************************)
EXTENDS Integers, Sequences, FiniteSets, SequencesExt

CONSTANTS
  Scenes,        \* identifiers of draft scenes and of stored scenes
  Texts,         \* contents of a scene; one text is one fingerprint
  SlugOf,        \* the slugline of a text
  NewText,       \* INT. NEW SCENE - DAY, followed by an empty action
  Works,         \* shots, tags, strips ... that refer to a scene
  Handlers,      \* concurrent requests
  Nil,           \* no scene, no decision (SQL NULL)
  UserDecisions, \* <<kind of mapping, decision>> users take in this instance
  Imports,       \* scripts users import in this instance: the texts of their scenes
  MaxRevisions,  \* bound: revisions
  MaxDecisions,  \* bound: decisions about one mapping
  EditVersions   \* bound: the versions of the screenplay at which the draft is edited

Kinds == {"matched", "added", "ambiguous", "removed"}
Decisions == {"accept", "remap", "omit", "archive"}

ASSUME TextAssumption == NewText \in Texts /\ Texts \subseteq DOMAIN SlugOf
ASSUME ScenesAssumption == IsFiniteSet(Scenes)
ASSUME NilAssumption == Nil \notin Scenes \cup Decisions
ASSUME ImportsAssumption == Imports \subseteq Seq(Texts) \ {<<>>}
ASSUME DecisionsAssumption == UserDecisions \subseteq Kinds \X Decisions
ASSUME BoundsAssumption ==
  MaxRevisions \in Nat \ {0} /\ EditVersions \subseteq Nat /\ MaxDecisions \in Nat

VARIABLES
  draft,    \* the headings of the current draft, in sort_rank order
  version,  \* screenplays.version
  locked,   \* screenplays.numbering_locked
  current,  \* screenplays.current_revision_id
  scene,    \* scene[x]: the scenes row
  sync,     \* sync[r]: script_syncs row of revision r and its scene_mappings
  work,     \* work[w]: the scene a piece of downstream work refers to
  req       \* req[h]: what handler h is doing

vars == <<draft, version, locked, current, scene, sync, work, req>>

Revisions == 1 .. MaxRevisions
NoScene == [exists |-> FALSE, omitted |-> FALSE, archived |-> FALSE,
            number |-> <<0, 0>>, text |-> NewText, rev |-> 0]
NoSync == [status |-> "none", maps |-> <<>>]
Idle == [at |-> "idle"]
Finish(h) == req' = [req EXCEPT ![h] = Idle]
Begin(h, r) == req[h] = Idle /\ req' = [req EXCEPT ![h] = r]

(* Display numbers: "7" is <<7, 0>>, "7B" is <<7, 2>>, a new scene's label is *)
(* "New", and a scene that awaits its synchronisation has a number of its own. *)
Plain(n) == <<n, 0>>
NewLabel == <<-1, 0>>
Provisional(x) == <<-2, x>>
NumericPrefix(n) == IF n[1] > 0 THEN n[1] ELSE 0

DraftScene(x, text, label) ==
  [id |-> x, text |-> text, heading |-> TRUE, canonical |-> Nil, label |-> label]

----------------------------------------------------------------------------
(* previewSceneSync *)

Graph(rows) == {x \in Scenes : rows[x].exists /\ ~rows[x].archived}

\* The stored scenes a draft scene may be: the one it is linked to, else the
\* one of the same fingerprint, else those of the same slugline.
Candidates(rows, taken, d) ==
  LET free == Graph(rows) \ taken
      same == {x \in free : rows[x].text = d.text}
  IN IF d.canonical # Nil THEN {d.canonical} \cap Graph(rows)
     ELSE IF Cardinality(same) = 1 THEN same
     ELSE {x \in free : SlugOf[rows[x].text] = SlugOf[d.text]}

Match(rows, taken, d) ==
  LET c == Candidates(rows, taken, d)
  IN IF Cardinality(c) = 1 /\ c \cap taken = {} THEN "matched"
     ELSE IF c = {} /\ d.canonical = Nil THEN "added"
     ELSE "ambiguous"

\* Without locked numbers scenes are counted; with them a new scene gets the
\* first free letter after the number before it.
AssignNumber(acc, d, kind, prior, rows) ==
  LET base == acc.base
      free == {j \in 1 .. Cardinality(Scenes) + 1 : <<base, j>> \notin acc.used}
  IN IF kind = "ambiguous" THEN d.label
     ELSE IF ~acc.locked THEN Plain(Len(acc.maps) + 1)
     ELSE IF kind = "matched" THEN rows[prior].number
     ELSE <<base, CHOOSE j \in free : \A k \in free : j <= k>>

\* Mutant of Take: a matched scene may be matched again.
TakeNothing(acc, m) == acc.taken
Take(acc, m) == IF m.kind = "matched" THEN acc.taken \cup {m.prior} ELSE acc.taken

\* What the preview says of one draft scene.
Entry(acc, d, rows) ==
  LET kind == Match(rows, acc.taken, d)
      prior == IF kind = "matched" THEN CHOOSE x \in Candidates(rows, acc.taken, d) : TRUE
               ELSE Nil
  IN [kind |-> kind, scene |-> IF kind = "matched" THEN prior ELSE d.id, prior |-> prior,
      text |-> d.text, number |-> AssignNumber(acc, d, kind, prior, rows)]

AddEntry(acc, d, rows) ==
  LET m == Entry(acc, d, rows)
  IN [acc EXCEPT
        !.maps = Append(@, m),
        !.taken = Take(acc, m),
        !.base = IF acc.locked /\ m.kind = "matched" THEN NumericPrefix(m.number) ELSE @,
        !.used = IF m.kind = "added" THEN @ \cup {m.number} ELSE @]

\* A scene no draft scene is matched with.
Removed(x, rows) ==
  [kind |-> "removed", scene |-> Nil, prior |-> x, text |-> rows[x].text,
   number |-> rows[x].number]

\* The entries of the draft's headings, in their order.
PreviewEntries(rows, lockedNumbers) ==
  LET start == [maps |-> <<>>, taken |-> {}, base |-> 0, locked |-> lockedNumbers,
                used |-> {rows[x].number : x \in Graph(rows)}]
      after[n \in 0 .. Len(draft)] ==
        IF n = 0 THEN start
        ELSE IF draft[n].heading THEN AddEntry(after[n - 1], draft[n], rows)
        ELSE after[n - 1]
  IN after[Len(draft)]

Preview(rows, lockedNumbers) ==
  LET entries == PreviewEntries(rows, lockedNumbers)
      gone == SetToSeq(Graph(rows) \ entries.taken)
  IN entries.maps \o [i \in DOMAIN gone |-> Removed(gone[i], rows)]

----------------------------------------------------------------------------
(* Draft saves: POST /scenes, POST /import and PATCH /draft.               *)

Mentioned(r) ==
  CASE r.at = "save" -> {r.draft[i].id : i \in DOMAIN r.draft}
    [] r.at = "issue" -> {r.maps[i].scene : i \in DOMAIN r.maps}
    [] OTHER -> {}
Fresh == {x \in Scenes : /\ ~scene[x].exists
                         /\ \A i \in DOMAIN draft : draft[i].id # x
                         /\ \A h \in Handlers : x \notin Mentioned(req[h])}
\* New identifiers are random, so it does not matter which ones they are.
NewIds == SetToSeq(Fresh)
Editing == version \in EditVersions

AddScene ==
  /\ Editing
  /\ NewIds # <<>>
  /\ draft' = Append(draft, DraftScene(NewIds[1], NewText, NewLabel))
  /\ version' = version + 1
  /\ UNCHANGED <<locked, current, scene, sync, work, req>>

\* The import archives every block of the draft; it has no version guard.
Import(texts) ==
  /\ Editing
  /\ Len(texts) <= Len(NewIds)
  /\ draft' = [i \in DOMAIN texts |-> DraftScene(NewIds[i], texts[i], Plain(i))]
  /\ version' = version + 1
  /\ UNCHANGED <<locked, current, scene, sync, work, req>>

Rewrites == {[draft EXCEPT ![i].text = t] : i \in DOMAIN draft, t \in Texts}
\* A heading that is retyped, or is one again, changes the text, but not the
\* slugline, of the scene before it.
Retypings ==
  LET Becomes(old, new) == new # old /\ SlugOf[new] = SlugOf[old]
  IN {[draft EXCEPT ![i].heading = ~@] : i \in {j \in DOMAIN draft : j = 1 \/ ~draft[j - 1].heading}}
     \cup UNION {{[draft EXCEPT ![i].heading = ~@, ![i - 1].text = t] :
                    t \in {u \in Texts : Becomes(draft[i - 1].text, u)}} :
                 i \in {j \in DOMAIN draft : j > 1 /\ draft[j - 1].heading}}
Swaps ==
  {[draft EXCEPT ![i] = draft[i + 1], ![i + 1] = draft[i]] :
     i \in {j \in DOMAIN draft : j + 1 \in DOMAIN draft}}

\* The blocks' attributes are read before the batch that writes them back.
StartSave(h) ==
  /\ Editing
  /\ \E d \in Rewrites \cup Retypings \cup Swaps :
       d # draft /\ Begin(h, [at |-> "save", draft |-> d, expected |-> version])
  /\ UNCHANGED <<draft, version, locked, current, scene, sync, work>>

\* Mutant of VersionGuard: the batch is not guarded.
AnyVersion(r) == TRUE
VersionGuard(r) == r.expected = version

CommitSave(h) ==
  /\ req[h].at = "save"
  /\ VersionGuard(req[h])
  /\ draft' = req[h].draft
  /\ version' = version + 1
  /\ Finish(h)
  /\ UNCHANGED <<locked, current, scene, sync, work>>

----------------------------------------------------------------------------
(* POST /revisions *)

Pending(r) == sync[r].status \in {"needs_resolution", "ready"}

StartRevision(h) ==
  /\ \A r \in Revisions : ~Pending(r)
  /\ Begin(h, [at |-> "read"])
  /\ UNCHANGED <<draft, version, locked, current, scene, sync, work>>

NextRevision == Cardinality({r \in Revisions : sync[r] # NoSync}) + 1

\* Ambiguous scenes wait for a decision, and so do removed ones that are used.
FirstResolution(m) ==
  CASE m.kind = "ambiguous" -> Nil
    [] m.kind = "removed" -> IF \E w \in Works : work[w] = m.prior THEN Nil ELSE "archive"
    [] OTHER -> "accept"

\* The row of scene_mappings that is inserted.
Mapping(m) ==
  [kind |-> m.kind, scene |-> m.scene, prior |-> m.prior, text |-> m.text, number |-> m.number,
   resolution |-> FirstResolution(m), resolved |-> IF m.kind = "removed" THEN Nil ELSE m.prior,
   decisions |-> 0]

\* The mappings are applied in the order of their identifiers, which is random
\* for those created within the same millisecond.
Orders(maps) == SetToSeqs(DOMAIN maps)

ReadRevision(h) ==
  /\ req[h].at = "read"
  /\ \E i \in DOMAIN draft : draft[i].heading
  /\ NextRevision \in Revisions
  /\ LET maps == Preview(scene, locked)
     IN \E order \in Orders(maps) :
          req' = [req EXCEPT ![h] = [at |-> "issue", revision |-> NextRevision,
                                     maps |-> [i \in DOMAIN maps |-> Mapping(maps[order[i]])]]]
  /\ UNCHANGED <<draft, version, locked, current, scene, sync, work>>

\* Mutant of StatusOf: the batch leaves the status its insert gave the row.
StaysPreview(maps) == "preview"
StatusOf(maps) ==
  IF \E i \in DOMAIN maps : maps[i].resolution = Nil THEN "needs_resolution" ELSE "ready"

Entries(maps) == {i \in DOMAIN maps : maps[i].kind # "removed"}

\* UNIQUE (scene_id, script_revision_id)
SceneRevisionsUnique(seq) == \A i, j \in DOMAIN seq : seq[i] = seq[j] => i = j

RevisionScenes(maps) == [i \in Entries(maps) |-> maps[i].scene]

\* Mutant of Await: a scene of a revision is production before its sync.
AwaitNothing(x, text) == [NoScene EXCEPT !.exists = TRUE, !.number = Provisional(x), !.text = text]
\* INSERT OR IGNORE of a scene that is hidden until its synchronisation.
Await(x, text) ==
  [NoScene EXCEPT !.exists = TRUE, !.omitted = TRUE, !.archived = TRUE,
                  !.number = Provisional(x), !.text = text]

TextOf(maps, x) == maps[CHOOSE i \in Entries(maps) : maps[i].scene = x].text

CommitRevision(h) ==
  LET maps == req[h].maps
      r == req[h].revision
      added == {maps[i].scene : i \in Entries(maps)}
  IN /\ req[h].at = "issue"
     /\ sync[r] = NoSync
     /\ SceneRevisionsUnique(RevisionScenes(maps))
     /\ scene' = [x \in Scenes |->
                    IF x \in added /\ ~scene[x].exists THEN Await(x, TextOf(maps, x)) ELSE scene[x]]
     /\ sync' = [sync EXCEPT ![r] = [status |-> StatusOf(maps), maps |-> maps]]
     /\ current' = r
     /\ version' = version + 1
     /\ Finish(h)
     /\ UNCHANGED <<draft, locked, work>>

----------------------------------------------------------------------------
(* PATCH /sync/:syncId/mappings/:mappingId *)

Open(r) == sync[r] # NoSync /\ sync[r].status # "applied"

StartDecide(h, r, i, decision, target) ==
  /\ Open(r)
  /\ i \in DOMAIN sync[r].maps
  /\ sync[r].maps[i].decisions < MaxDecisions
  /\ <<sync[r].maps[i].kind, decision>> \in UserDecisions
  /\ IF decision = "remap" THEN target # Nil /\ scene[target].exists ELSE target = Nil
  /\ Begin(h, [at |-> "decide", revision |-> r, mapping |-> i, decision |-> decision,
               target |-> IF decision = "remap" THEN target ELSE sync[r].maps[i].prior])
  /\ UNCHANGED <<draft, version, locked, current, scene, sync, work>>

\* Mutant of NotApplied: the trigger is missing.
AnyStatus(r) == TRUE
\* Trigger script_syncs_applied_guard: no update of an applied synchronisation.
NotApplied(r) == sync[r].status # "applied"

CommitDecide(h) ==
  LET r == req[h].revision
      maps == [sync[r].maps EXCEPT ![req[h].mapping].resolution = req[h].decision,
                                   ![req[h].mapping].resolved = req[h].target,
                                   ![req[h].mapping].decisions = @ + 1]
  IN /\ req[h].at = "decide"
     /\ NotApplied(r)
     /\ sync' = [sync EXCEPT ![r] = [status |-> StatusOf(maps), maps |-> maps]]
     /\ Finish(h)
     /\ UNCHANGED <<draft, version, locked, current, scene, work>>

----------------------------------------------------------------------------
(* POST /sync/apply: statements are built from what was read, and the batch *)
(* carries them out one after the other.                                    *)

Hide(g, x) == [g EXCEPT !.rows[x].omitted = TRUE, !.rows[x].archived = TRUE]

MoveWork(works, from, to) == [w \in Works |-> IF works[w] = from THEN to ELSE works[w]]

ApplyRemoved(g, m) ==
  CASE m.resolution = "omit" -> [g EXCEPT !.rows[m.prior].omitted = TRUE]
    [] m.resolution = "archive" -> Hide(g, m.prior)
    [] m.resolution = "remap" ->
         [Hide(g, m.prior) EXCEPT !.works = MoveWork(@, m.prior, m.resolved)]
    [] OTHER -> g

TargetOf(m) ==
  IF m.resolution = "remap" THEN m.resolved
  ELSE IF m.kind = "matched" THEN m.prior
  ELSE m.scene

\* UNIQUE (screenplay_id, display_number), archived scenes included.
NumberFree(rows, x, n) == \A y \in Scenes \ {x} : rows[y].exists => rows[y].number # n

ApplyEntry(g, m, r) ==
  LET t == TargetOf(m)
      shown == [g.rows EXCEPT ![t] = [@ EXCEPT !.number = m.number, !.text = m.text, !.rev = r,
                                               !.omitted = FALSE, !.archived = FALSE]]
  IN [rows |-> IF t # m.scene /\ shown[m.scene].archived
               THEN [shown EXCEPT ![m.scene].omitted = TRUE] ELSE shown,
      works |-> g.works,
      targets |-> Append(g.targets, t),
      links |-> [g.links EXCEPT ![m.scene] = t],
      ok |-> g.ok /\ NumberFree(g.rows, t, m.number)]

ApplyMapping(g, m, r) == IF m.kind = "removed" THEN ApplyRemoved(g, m) ELSE ApplyEntry(g, m, r)

ApplyAll(maps, r) ==
  LET start == [rows |-> scene, works |-> work, targets |-> <<>>,
                links |-> [x \in Scenes |-> Nil], ok |-> TRUE]
      after[n \in 0 .. Len(maps)] ==
        IF n = 0 THEN start ELSE ApplyMapping(after[n - 1], maps[n], r)
  IN after[Len(maps)]

\* The rows of scene_revisions: one per entry, and one per entry moved elsewhere.
AppliedScenes(maps, targets) ==
  LET entries == SelectSeq(maps, LAMBDA m : m.kind # "removed")
      moved == SelectSeq(entries, LAMBDA m : TargetOf(m) # m.scene)
  IN [i \in DOMAIN entries |-> entries[i].scene] \o [i \in DOMAIN moved |-> TargetOf(moved[i])]

BatchHolds(maps, r) ==
  LET g == ApplyAll(maps, r) IN g.ok /\ SceneRevisionsUnique(AppliedScenes(maps, g.targets))

\* Mutant of Reviewed: only removed scenes hold the application up.
ReviewedRemovals(maps) ==
  \A i \in DOMAIN maps : maps[i].kind = "removed" => maps[i].resolution # Nil
Reviewed(maps) == \A i \in DOMAIN maps : maps[i].resolution # Nil

StartApply(h, r) ==
  /\ Open(r)
  /\ Reviewed(sync[r].maps)
  /\ Begin(h, [at |-> "apply", revision |-> r, maps |-> sync[r].maps])
  /\ UNCHANGED <<draft, version, locked, current, scene, sync, work>>

\* The draft's scenes learn their stored scene, looked up by the scene of the
\* mapping's revision.
Linked(d, links) == IF links[d.id] = Nil THEN d ELSE [d EXCEPT !.canonical = links[d.id]]

CommitApply(h) ==
  LET r == req[h].revision
      g == ApplyAll(req[h].maps, r)
  IN /\ req[h].at = "apply"
     /\ NotApplied(r)
     /\ BatchHolds(req[h].maps, r)
     /\ scene' = g.rows
     /\ work' = g.works
     /\ draft' = [i \in DOMAIN draft |-> Linked(draft[i], g.links)]
     /\ sync' = [sync EXCEPT ![r].status = "applied"]
     /\ current' = r
     /\ version' = version + 1
     /\ Finish(h)
     /\ UNCHANGED locked

----------------------------------------------------------------------------
(* Other routes attach work to a scene.  A request is refused, its batch    *)
(* fails, or its Worker dies.                                               *)

AddWork(w, x) ==
  /\ work[w] = Nil
  /\ x \in Graph(scene)
  /\ work' = [work EXCEPT ![w] = x]
  /\ UNCHANGED <<draft, version, locked, current, scene, sync, req>>

Drop(h) ==
  /\ req[h] # Idle
  /\ Finish(h)
  /\ UNCHANGED <<draft, version, locked, current, scene, sync, work>>

\* A screenplay is created empty.  Numbers are locked in the fixtures and not in
\* a project the routes create; no route changes that.
Init ==
  /\ draft = <<>>
  /\ version = 1
  /\ locked \in BOOLEAN
  /\ current = 0
  /\ scene = [x \in Scenes |-> NoScene]
  /\ sync = [r \in Revisions |-> NoSync]
  /\ work = [w \in Works |-> Nil]
  /\ req = [h \in Handlers |-> Idle]

HandlerStep(h) ==
  \/ StartSave(h) \/ CommitSave(h)
  \/ StartRevision(h) \/ ReadRevision(h) \/ CommitRevision(h)
  \/ \E r \in Revisions, i \in 1 .. 2 * Cardinality(Scenes), d \in Decisions,
        t \in Scenes \cup {Nil} : StartDecide(h, r, i, d, t)
  \/ CommitDecide(h)
  \/ \E r \in Revisions : StartApply(h, r)
  \/ CommitApply(h)
  \/ Drop(h)

Next ==
  \/ \E h \in Handlers : HandlerStep(h)
  \/ AddScene
  \/ \E texts \in Imports : Import(texts)
  \/ \E w \in Works, x \in Scenes : AddWork(w, x)

Spec == Init /\ [][Next]_vars

----------------------------------------------------------------------------
(* Properties.                                                             *)

\* docs/adr/0003: uncertain mappings never auto-apply.  However decisions and
\* applications interleave, an applied synchronisation has every mapping decided.
AppliedIsReviewed ==
  \A r \in Revisions : sync[r].status = "applied" =>
    \A i \in DOMAIN sync[r].maps : sync[r].maps[i].resolution # Nil

\* A scene production can see comes from a revision whose synchronisation was
\* applied: creating a revision shows none of its scenes.
ShownComesFromApplied ==
  \A x \in Graph(scene) : scene[x].rev # 0 /\ sync[scene[x].rev].status = "applied"

Applies(r) == sync[r].status # "applied" /\ sync'[r].status = "applied"

\* docs/architecture.md: production truth changes only by an explicit
\* synchronisation, once: what production sees changes in the step that applies
\* one, not when a draft is saved and not when a second application of it ends.
Production == [x \in Graph(scene) |-> scene[x]]
ChangedOnlyByApply ==
  [][Production' # Production =>
       \E r \in Revisions : Applies(r)]_vars

\* An applied synchronisation is an immutable record, also for a decision that
\* read it while it was still open (trigger script_syncs_applied_guard).
AppliedIsFinal ==
  [][\A r \in Revisions : sync[r].status = "applied" => sync'[r] = sync[r]]_vars

\* A synchronisation is applied once, for good, and by nothing else: one that
\* is prepared or decided while another request applies it changes nothing
\* (screenplay.ts:892, :924).
SyncsEndOnce == ChangedOnlyByApply /\ AppliedIsFinal

Shown(m, r) ==
  LET t == TargetOf(m)
  IN t \in Graph(scene') /\ scene'[t].rev = r /\ scene'[t].text = m.text

\* Whatever was decided about other scenes, and whatever was applied since the
\* preview, the scenes a revision recognised or added are in production with the
\* text of the revision once it is applied.
RecognisedAreShown ==
  [][\A r \in Revisions : Applies(r) =>
       \A m \in Range(sync[r].maps) : m.kind \in {"matched", "added"} => Shown(m, r)]_vars

\* A draft scene that is linked to a stored scene stays linked: a save prepared
\* before a synchronisation was applied does not undo its links (versionGuard).
LinksAreKept ==
  [][\A i \in DOMAIN draft, j \in DOMAIN draft' :
       draft[i].id = draft'[j].id /\ draft[i].canonical # Nil => draft'[j].canonical # Nil]_vars
=============================================================================
