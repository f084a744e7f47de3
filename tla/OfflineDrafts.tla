--------------------------- MODULE OfflineDrafts ---------------------------
(***************************************************************************)
(* The drafts a browser keeps while it is offline                          *)
(* (apps/web/src/offline/database.ts, useOfflineDrafts.ts) and what their  *)
(* synchronisation does to one record of the server and to the records the *)
(* drafts create.                                                          *)
(*                                                                         *)
(* Every mounted useOfflineDrafts hook synchronises on its own when the    *)
(* browser comes back online: the application shell has one and so has a   *)
(* registry page (AppShell.tsx:41, ModuleRegistryPage.tsx:47).  A run      *)
(* reads its list once and then, for each draft of it, marks the draft,    *)
(* sends the copy it read and settles the draft by the answer; a step of   *)
(* the module is what happens between two awaits.  A hook that is still    *)
(* running when the browser reconnects again is not started a second time  *)
(* here.                                                                   *)
(***************************************************************************)
EXTENDS Integers, Sequences, FiniteSets

CONSTANTS DraftIds,        \* identifiers of drafts
          Hooks,           \* mounted useOfflineDrafts hooks
          MaxEdits,        \* bound: edits made offline
          MaxVersion       \* bound: versions of the server's record

VARIABLES online,    \* navigator.onLine
          draft,     \* DraftIds -> the drafts table of IndexedDB
          edits,     \* how many edits were made offline; edit n is a payload
          version,   \* version of the server's record
          landed,    \* the edits the server has applied
          shown,     \* version of the record on the page
          reviewed,  \* versions the user has been shown
          sync       \* Hooks -> the hook's run

offlineVars == <<online, draft, edits, version, landed, shown, reviewed, sync>>

NoDraft == [state |-> "none"]

(* The row of a draft: serverVersion is that of the server record a        *)
(* conflict brought along, 0 without one.                                  *)
DraftRow(op, base, edit) ==
  [state |-> "queued", op |-> op, base |-> base, edit |-> edit, serverVersion |-> 0]

NoRun == [at |-> "idle", list |-> <<>>, answer |-> "none", current |-> 0]

OfflineInit ==
  /\ online = TRUE
  /\ draft = [d \in DraftIds |-> NoDraft]
  /\ edits = 0 /\ landed = {}
  /\ version = 1
  /\ shown = 1 /\ reviewed = {1}
  /\ sync = [h \in Hooks |-> NoRun]

Held == {d \in DraftIds : draft[d] # NoDraft}

SyncGoto(h, at) == [sync EXCEPT ![h].at = at]

-----------------------------------------------------------------------------
(* The page *)

(* The draft that an edit of the record replaces: any that is not in       *)
(* conflict, one being synchronised included.                              *)
Replaceable == {d \in Held : draft[d].op = "update" /\ draft[d].state # "conflict"}

QueueOfflineDraft(op) ==
  /\ ~online /\ edits < MaxEdits
  /\ edits' = edits + 1
  /\ \E d \in IF op = "update" /\ Replaceable # {} THEN Replaceable ELSE DraftIds \ Held :
       draft' = [draft EXCEPT ![d] = DraftRow(op, IF op = "update" THEN shown ELSE 0, edits + 1)]
  /\ UNCHANGED <<online, version, landed, shown, reviewed, sync>>

DiscardOfflineDraft(d) ==
  /\ d \in Held
  /\ draft' = [draft EXCEPT ![d] = NoDraft]
  /\ UNCHANGED <<online, edits, version, landed, shown, reviewed, sync>>

Snapshot(d, row) == [id |-> d, op |-> row.op, base |-> row.base, edit |-> row.edit]

(* A plausible slip: the draft is rebased on what the server has by now.   *)
LatestVersion(d) == version

(* The version the user compared the draft with.                           *)
RebasedVersion(d) == draft[d].serverVersion

StartRun(h, list) == [sync EXCEPT ![h] = [NoRun EXCEPT !.at = "mark", !.list = list]]

(* "Use my draft on current version".                                      *)
KeepLocal(h, d) ==
  /\ d \in Held /\ sync[h].at = "idle"
  /\ draft[d].state = "conflict" /\ draft[d].serverVersion # 0 /\ draft[d].op = "update"
  /\ LET rebased == DraftRow("update", RebasedVersion(d), draft[d].edit)
     IN /\ draft' = [draft EXCEPT ![d] = rebased]
        /\ sync' = IF online THEN StartRun(h, <<Snapshot(d, rebased)>>) ELSE sync
  /\ UNCHANGED <<online, edits, version, landed, shown, reviewed>>

Retry(h, d) ==
  /\ d \in Held /\ online /\ sync[h].at = "idle"
  /\ draft[d].state \in {"failed", "queued"}
  /\ sync' = StartRun(h, <<Snapshot(d, draft[d])>>)
  /\ UNCHANGED <<online, draft, edits, version, landed, shown, reviewed>>

-----------------------------------------------------------------------------
(* Runs *)

GoOffline ==
  /\ online
  /\ online' = FALSE
  /\ UNCHANGED <<draft, edits, version, landed, shown, reviewed, sync>>

(* The "online" event reaches every mounted hook.                          *)
GoOnline ==
  /\ ~online
  /\ online' = TRUE
  /\ sync' = [h \in Hooks |-> IF sync[h].at = "idle" THEN [NoRun EXCEPT !.at = "list"] ELSE sync[h]]
  /\ UNCHANGED <<draft, edits, version, landed, shown, reviewed>>

(* The drafts to send, oldest first; edits are numbered as they are made.  *)
Unsent == {d \in Held : draft[d].state \in {"queued", "failed"}}

ListQueued(h) ==
  /\ sync[h].at = "list"
  /\ \E list \in {s \in [1 .. Cardinality(Unsent) -> Unsent] :
                    \A i, j \in DOMAIN s : i < j => draft[s[i]].edit < draft[s[j]].edit} :
       sync' = IF Unsent = {} THEN [sync EXCEPT ![h] = NoRun]
               ELSE StartRun(h, [i \in DOMAIN list |-> Snapshot(list[i], draft[list[i]])])
  /\ UNCHANGED <<online, draft, edits, version, landed, shown, reviewed>>

Sent(h) == Head(sync[h].list)

(* An update of the table changes a row that is still there.               *)
MarkSyncing(h) ==
  /\ sync[h].at = "mark"
  /\ draft' = IF Sent(h).id \in Held THEN [draft EXCEPT ![Sent(h).id].state = "syncing"] ELSE draft
  /\ sync' = SyncGoto(h, "send")
  /\ UNCHANGED <<online, edits, version, landed, shown, reviewed>>

Answered(h, answer, current) ==
  [sync EXCEPT ![h].at = "settle", ![h].answer = answer, ![h].current = current]

(* A create is answered, or refused because records changed meanwhile; an  *)
(* update is applied on its base version only, else the current record     *)
(* comes back.  The request or its answer may be lost, and anything but a  *)
(* conflict looks the same to the browser.                                 *)
Accepted(h) == Sent(h).op = "create" \/ (Sent(h).base = version /\ version < MaxVersion)

Stale(h) == Sent(h).op = "update" /\ Sent(h).base # version

ServerAnswers(h) ==
  /\ sync[h].at = "send"
  /\ \/ /\ Accepted(h)
        /\ \/ sync' = Answered(h, "applied", 0)
           \/ sync' = Answered(h, "failed", 0)
        /\ landed' = landed \cup {Sent(h).edit}
        /\ version' = IF Sent(h).op = "update" THEN version + 1 ELSE version
     \/ /\ \/ Stale(h) /\ sync' = Answered(h, "conflict", version)
           \/ Sent(h).op = "create" /\ sync' = Answered(h, "conflict", 0)
           \/ sync' = Answered(h, "failed", 0)
        /\ UNCHANGED <<landed, version>>
  /\ UNCHANGED <<online, draft, edits, shown, reviewed>>

(* The next draft of the list; a run stops after a retry.                  *)
AfterSettling(h) ==
  IF sync[h].answer = "failed" \/ Len(sync[h].list) = 1 THEN [sync EXCEPT ![h] = NoRun]
  ELSE StartRun(h, Tail(sync[h].list))

(* The answer as it is dealt with: a draft that went meanwhile stays away. *)
Settled(d, answer, current) ==
  \/ answer = "applied" /\ draft' = [draft EXCEPT ![d] = NoDraft]
  \/ answer # "applied" /\ d \notin Held /\ UNCHANGED draft
  \/ /\ answer = "failed" /\ d \in Held
     /\ draft' = [draft EXCEPT ![d].state = IF online THEN "failed" ELSE "queued"]
  \/ /\ answer = "conflict" /\ d \in Held
     /\ draft' = [draft EXCEPT ![d].state = "conflict",
                               ![d].serverVersion = IF current = 0 THEN @ ELSE current]

Settle(h) ==
  LET d == Sent(h).id
      current == sync[h].current
  IN  /\ sync[h].at = "settle"
      /\ Settled(d, sync[h].answer, current)
      /\ reviewed' = IF sync[h].answer = "conflict" /\ current # 0 /\ d \in Held
                     THEN reviewed \cup {current} ELSE reviewed
      /\ sync' = AfterSettling(h)
      /\ UNCHANGED <<online, edits, version, landed, shown>>

(* The page is closed or reloaded: the drafts stay, the runs do not.       *)
CloseTab ==
  /\ \E h \in Hooks : sync[h].at # "idle"
  /\ sync' = [h \in Hooks |-> NoRun]
  /\ UNCHANGED <<online, draft, edits, version, landed, shown, reviewed>>

-----------------------------------------------------------------------------
(* The records query is fetched again.                                     *)
Refetch ==
  /\ online /\ shown # version
  /\ shown' = version
  /\ reviewed' = reviewed \cup {version}
  /\ UNCHANGED <<online, draft, edits, version, landed, sync>>

OtherUserEdits ==
  /\ version < MaxVersion
  /\ version' = version + 1
  /\ UNCHANGED <<online, draft, edits, landed, shown, reviewed, sync>>

OfflineNext ==
  \/ \E op \in {"create", "update"} : QueueOfflineDraft(op)
  \/ \E d \in DraftIds : DiscardOfflineDraft(d)
  \/ \E h \in Hooks, d \in DraftIds : KeepLocal(h, d) \/ Retry(h, d)
  \/ GoOffline \/ GoOnline
  \/ \E h \in Hooks : ListQueued(h) \/ MarkSyncing(h) \/ ServerAnswers(h) \/ Settle(h)
  \/ CloseTab \/ Refetch \/ OtherUserEdits

OfflineSpec == OfflineInit /\ [][OfflineNext]_offlineVars

-----------------------------------------------------------------------------
(* Properties *)

(* "Silent last-write-wins is prohibited" (docs/adr/0006:8): a draft       *)
(* replaces a version of the record only if the user has seen that very    *)
(* version, on the page or beside the draft in conflict review, however    *)
(* the runs of two hooks, reconnections and the edits of others interleave *)
(* (database.ts:111, :147).                                                *)
OnlySeenIsReplaced ==
  [][version' # version /\ landed' # landed => version \in reviewed]_offlineVars

(* "If current equals base, the server applies transactionally and returns *)
(* evidence before local deletion" (docs/adr/0006:21): a draft goes only   *)
(* when the user discards it or the server has applied the edit it holds   *)
(* (database.ts:148).                                                      *)
DraftsAreKept ==
  [][\A d \in DraftIds :
       draft[d] # NoDraft /\ draft'[d] = NoDraft =>
         DiscardOfflineDraft(d) \/ draft[d].edit \in landed]_offlineVars
=============================================================================
