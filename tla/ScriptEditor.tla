---------------------------- MODULE ScriptEditor ----------------------------
(***************************************************************************)
(* The screenplay editor of several sessions and the draft they share:     *)
(* apps/web/src/writing/ProfessionalScreenplayPage.tsx and the draft       *)
(* routes of apps/web/src/server/routes/screenplay.ts.                     *)
(*                                                                         *)
(* A page shows its own copy of the blocks and saves all of them under the *)
(* version it loaded.  What it fetches replaces the copy unless something  *)
(* was typed; what a save answers replaces it always.  A text is the       *)
(* number of the edit that typed it.                                       *)
(*                                                                         *)
(* A page has one save and one fetch under way: Ctrl+S during a save,      *)
(* which sends a second one, is left out.  The order of blocks is too.     *)
(***************************************************************************)
EXTENDS Integers

CONSTANTS
  Pages,    \* sessions with the editor open
  Blocks,   \* script_draft_blocks
  FirstBlocks,         \* the blocks the draft starts with
  MaxTyped, MaxScript  \* bounds: edits, versions of the screenplay

ASSUME ScriptAssumption == FirstBlocks \subseteq Blocks /\ {MaxTyped, MaxScript} \subseteq Nat

VARIABLES
  script, \* screenplays.version and the text of each block; Gone when there is none
  typed,  \* how many edits were typed
  page,   \* page[s]: query cache, draftBlocks, baseVersion, dirty and conflict of page s
  save,   \* save[s]: the PATCH of page s under way
  fetch   \* fetch[s]: the GET of page s under way

scriptVars == <<script, typed, page, save, fetch>>

Gone == -1
NoTexts == [b \in Blocks |-> Gone]
View(version, text) == [version |-> version, text |-> text]
NoView == View(0, NoTexts)
NoSave == [at |-> "none", base |-> 0, sent |-> NoTexts, from |-> NoTexts, view |-> NoView]
NoFetch == [at |-> "none", view |-> NoView]

\* The draft of page s is taken from view v, whose texts it keeps in mind.
Showing(p, v) == [p EXCEPT !.draft = v.text, !.from = v.text, !.base = v.version]

ScriptInit ==
  LET start == View(1, [b \in Blocks |-> IF b \in FirstBlocks THEN 0 ELSE Gone])
      blank == [cache |-> start, draft |-> NoTexts, from |-> NoTexts, base |-> 0,
                dirty |-> FALSE, conflict |-> FALSE]
  IN  /\ script = start
      /\ typed = 0
      /\ page = [s \in Pages |-> Showing(blank, start)]
      /\ save = [s \in Pages |-> NoSave]
      /\ fetch = [s \in Pages |-> NoFetch]

----------------------------------------------------------------------------
(* screenplayView: the version is read first and the blocks after it.      *)

\* Mutant of Read: the blocks are read first.
ReadSwapped(v, part) ==
  IF part = "version" THEN [v EXCEPT !.text = script.text] ELSE [v EXCEPT !.version = script.version]

Read(v, part) ==
  IF part = "version" THEN [v EXCEPT !.version = script.version] ELSE [v EXCEPT !.text = script.text]

----------------------------------------------------------------------------
(* The page.                                                               *)

\* updateBlock, at any time.
Type(s, b) ==
  /\ typed < MaxTyped
  /\ page[s].draft[b] # Gone
  /\ typed' = typed + 1
  /\ page' = [page EXCEPT ![s].draft[b] = typed + 1, ![s].dirty = TRUE]
  /\ UNCHANGED <<script, save, fetch>>

\* The timer of autosave, which stops at a conflict, Ctrl+S, which does not,
\* or the save before an element is added.
SendSave(s) ==
  /\ page[s].dirty /\ save[s].at = "none"
  /\ save' = [save EXCEPT ![s] = [NoSave EXCEPT !.at = "sent", !.base = page[s].base,
                                   !.sent = page[s].draft, !.from = page[s].from]]
  /\ UNCHANGED <<script, typed, page, fetch>>

\* onSuccess of saveDraft, whatever was typed since.
AnswerSave(s) ==
  /\ save[s].at = "answered"
  /\ page' = [page EXCEPT ![s] =
       Showing([@ EXCEPT !.dirty = FALSE, !.conflict = FALSE, !.cache = save[s].view], save[s].view)]
  /\ save' = [save EXCEPT ![s] = NoSave]
  /\ UNCHANGED <<script, typed, fetch>>

\* onError: 409 is a conflict; 422, a request lost before its batch or an
\* answer lost after it is a message, and the timer starts again.
FailSave(s) ==
  /\ save[s].at \in {"sent", "committed", "conflict", "refused"}
  /\ page' = [page EXCEPT ![s].conflict = @ \/ save[s].at = "conflict"]
  /\ save' = [save EXCEPT ![s] = NoSave]
  /\ UNCHANGED <<script, typed, fetch>>

\* A query is fetched again when a mutation invalidates it, or on focus.
StartFetch(s) ==
  /\ fetch[s].at = "none"
  /\ fetch' = [fetch EXCEPT ![s] = [at |-> "blocks", view |-> Read(NoView, "version")]]
  /\ UNCHANGED <<script, typed, page, save>>

ReadFetch(s) ==
  /\ fetch[s].at = "blocks"
  /\ fetch' = [fetch EXCEPT ![s] = [at |-> "arriving", view |-> Read(@.view, "blocks")]]
  /\ UNCHANGED <<script, typed, page, save>>

\* The effect on screenplay.data.
Arrive(s) ==
  LET v == fetch[s].view IN
  /\ fetch[s].at = "arriving"
  /\ page' = [page EXCEPT ![s] =
       IF @.dirty THEN [@ EXCEPT !.cache = v] ELSE Showing([@ EXCEPT !.cache = v], v)]
  /\ fetch' = [fetch EXCEPT ![s] = NoFetch]
  /\ UNCHANGED <<script, typed, save>>

\* "Load server version" shows what the cache holds, and fetches.
LoadServerVersion(s) ==
  /\ page[s].conflict
  /\ page' = [page EXCEPT ![s] =
       Showing([@ EXCEPT !.dirty = FALSE, !.conflict = FALSE], @.cache)]
  /\ fetch' = IF fetch[s].at # "none" THEN fetch
              ELSE [fetch EXCEPT ![s] = [at |-> "blocks", view |-> Read(NoView, "version")]]
  /\ UNCHANGED <<script, typed, save>>

----------------------------------------------------------------------------
(* The server.                                                             *)

\* PATCH /draft: a block that is not in the draft refuses the whole save.
CheckSave(s) ==
  /\ save[s].at = "sent"
  /\ save' = [save EXCEPT ![s].at =
       IF \A b \in Blocks : save[s].sent[b] # Gone => script.text[b] # Gone
         THEN "checked" ELSE "refused"]
  /\ UNCHANGED <<script, typed, page, fetch>>

\* Mutant of GuardPasses: the guard row is left out.
SaveUnguarded(expected) == TRUE
GuardPasses(expected) == script.version = expected

\* The batch, and the version its answer carries.  An archived block stays so.
CommitSave(s) ==
  /\ save[s].at = "checked"
  /\ GuardPasses(save[s].base) /\ script.version < MaxScript
  /\ script' = [version |-> script.version + 1,
                text |-> [b \in Blocks |-> IF Gone \in {script.text[b], save[s].sent[b]}
                                             THEN script.text[b] ELSE save[s].sent[b]]]
  /\ save' = [save EXCEPT ![s].at = "committed"]
  /\ UNCHANGED <<typed, page, fetch>>

RefuseSave(s) ==
  /\ save[s].at = "checked"
  /\ ~GuardPasses(save[s].base)
  /\ save' = [save EXCEPT ![s].at = "conflict"]
  /\ UNCHANGED <<script, typed, page, fetch>>

ViewSaved(s) ==
  /\ \/ /\ save[s].at = "committed"
        /\ save' = [save EXCEPT ![s].at = "blocks", ![s].view = Read(@, "version")]
     \/ /\ save[s].at = "blocks"
        /\ save' = [save EXCEPT ![s].at = "answered", ![s].view = Read(@, "blocks")]
  /\ UNCHANGED <<script, typed, page, fetch>>

\* A batch without a guard row, under a new version.
Rewrite(text) ==
  /\ script.version < MaxScript
  /\ script' = View(script.version + 1, text)
  /\ UNCHANGED <<typed, page, save, fetch>>

\* POST /blocks and POST /scenes, which add elements with a text of their own;
\* the page adds neither to an element nor a scene while it is in conflict.
AddBlock(s, b) ==
  /\ ~page[s].conflict
  /\ script.text[b] = Gone
  /\ Rewrite([script.text EXCEPT ![b] = 0])

\* DELETE /blocks/:blockId, of a block the page shows.
DeleteBlock(s, b) ==
  /\ page[s].draft[b] # Gone /\ script.text[b] # Gone
  /\ Rewrite([script.text EXCEPT ![b] = Gone])

\* POST /import: every block is archived and new ones take their place.
Import(new) ==
  /\ new # {} /\ \A b \in new : script.text[b] = Gone
  /\ Rewrite([b \in Blocks |-> IF b \in new THEN 0 ELSE Gone])

----------------------------------------------------------------------------
ScriptNext ==
  \/ \E s \in Pages :
       \/ \E b \in Blocks : Type(s, b) \/ AddBlock(s, b) \/ DeleteBlock(s, b)
       \/ SendSave(s) \/ AnswerSave(s) \/ FailSave(s)
       \/ StartFetch(s) \/ ReadFetch(s) \/ Arrive(s) \/ LoadServerVersion(s)
       \/ CheckSave(s) \/ CommitSave(s) \/ RefuseSave(s) \/ ViewSaved(s)
  \/ \E new \in SUBSET Blocks : Import(new)

ScriptSpec == ScriptInit /\ [][ScriptNext]_scriptVars

----------------------------------------------------------------------------
(* Properties.                                                             *)

\* A save that is accepted replaces the texts its page had loaded and no
\* others, though view and version are read apart, fetches arrive late and
\* answers are lost: nobody's text is overwritten unseen
\* (screenplay.ts:163, :127; SECURITY.md:46).
OnlyLoadedIsReplaced ==
  [][\A s \in Pages : save[s].at = "checked" /\ save'[s].at = "committed" =>
       \A b \in Blocks : save[s].sent[b] # Gone => script.text[b] = save[s].from[b]]_scriptVars

\* What was typed into a page and stored nowhere stays on the page, unless it
\* is typed over or the writer loads the server version: what SECURITY.md:46
\* and the page's own banner promise (ProfessionalScreenplayPage.tsx:602).
\* The code does not keep it: the answer of a save takes what was typed since.
TypedIsKept ==
  [][\A s \in Pages, b \in Blocks :
       /\ page[s].draft[b] # page[s].from[b] /\ typed' = typed
       /\ ~(page[s].conflict /\ ~page'[s].conflict /\ save' = save)
       => \/ page'[s].draft[b] = page[s].draft[b]
          \/ save[s].at = "answered" /\ save[s].sent[b] = page[s].draft[b]]_scriptVars
=============================================================================
