------------------------------ MODULE Issuing ------------------------------
(***************************************************************************)
(* Drafts of call sheets and production packs and the numbered, immutable  *)
(* issues made from them: apps/web/src/server/routes/operations.ts.        *)
(*                                                                         *)
(* A request to issue names a version (If-Match) and a key                 *)
(* (Idempotency-Key).  It checks the version, begins the key's record,     *)
(* reads what the issue holds, and writes one batch whose guard row checks *)
(* the version again.  A Worker may die between any two of these steps     *)
(* (Drop), and a batch may run although its answer is lost (LoseAnswer).   *)
(***************************************************************************)
EXTENDS Integers, Sequences, FiniteSets

CONSTANTS
  Sheets,      \* call-sheet drafts
  Packs,       \* production-pack drafts
  People,      \* whom a call sheet may be sent to
  Keys,        \* idempotency keys
  IsHandlers,  \* concurrent requests
  MaxDrafts,   \* bound: drafts
  MaxIssues,   \* bound: issues of one draft
  MaxVersion   \* bound: version of a draft

Documents == Sheets \cup Packs

ASSUME IssuingAssumption ==
  /\ Sheets \cap Packs = {}
  /\ {MaxDrafts, MaxIssues, MaxVersion} \subseteq Nat

VARIABLES
  draft,    \* draft[d]: the call_sheet_drafts or production_pack_drafts row
  issue,    \* issue[d]: its call_sheet_issues or production_pack_issues rows
  link,     \* the share_links made for the recipients of each issue
  record,   \* idempotency_records of the issue operations
  isReq     \* isReq[h]: what request h has read

issuingVars == <<draft, issue, link, record, isReq>>

\* The body names the issue it corrects, or none: 0.  Numbers name issues.
Corrections == 0..MaxIssues

Idem == INSTANCE Idempotency WITH Operations <- Documents, Bodies <- Corrections, NoRef <- 0

\* `text` counts the edits of the draft: two drafts say the same iff it is equal.
NoDraft == [status |-> "none", version |-> 0, next |-> 0, text |-> 0, to |-> {}]
NoIssuing == [at |-> "idle", doc |-> {}, key |-> {}, corrects |-> 0, version |-> 0,
              number |-> 0, text |-> 0, to |-> {}]

IssuingInit ==
  /\ draft = [d \in Documents |-> NoDraft]
  /\ issue = [d \in Documents |-> << >>]
  /\ link = {}
  /\ Idem!IdempotencyInit
  /\ isReq = [h \in IsHandlers |-> NoIssuing]

IsGoto(h, at) == isReq' = [isReq EXCEPT ![h].at = at]
IsFinish(h) == isReq' = [isReq EXCEPT ![h] = NoIssuing]

----------------------------------------------------------------------------
(* Drafts.                                                                 *)

MayAdd(d) ==
  /\ draft[d] = NoDraft
  /\ Cardinality({e \in Documents : draft[e] # NoDraft}) < MaxDrafts

\* What a new sheet says: the sections made from its shoot day, or a
\* placeholder; a pack pins its items.
FirstText == 0

NewDraft(to) ==
  [status |-> "draft", version |-> 1, next |-> 1, text |-> FirstText, to |-> to]

\* POST /call-sheets: a person appears once on a sheet, which may have nobody.
CreateSheet(d, to) ==
  /\ MayAdd(d)
  /\ draft' = [draft EXCEPT ![d] = NewDraft(to)]
  /\ UNCHANGED <<issue, link, record, isReq>>

\* POST /production-packs: every item was found; a pack may be empty.
CreatePack(d, items) ==
  /\ MayAdd(d)
  /\ draft' = [draft EXCEPT ![d] = NewDraft(items)]
  /\ UNCHANGED <<issue, link, record, isReq>>

\* Mutant of EditedDraft: an edit leaves the status of the draft alone.
EditedKeepsStatus(d) == [draft[d] EXCEPT !.text = @ + 1, !.version = @ + 1]

EditedDraft(d) == [draft[d] EXCEPT !.text = @ + 1, !.version = @ + 1, !.status = "draft"]

\* PATCH /call-sheets/:id commits; one whose version moved since it was read
\* aborts and changes nothing.  Packs have no such route.
EditSheet(d) ==
  /\ draft[d] # NoDraft
  /\ draft[d].version < MaxVersion
  /\ draft' = [draft EXCEPT ![d] = EditedDraft(d)]
  /\ UNCHANGED <<issue, link, record, isReq>>

----------------------------------------------------------------------------
(* POST /call-sheets/:id/issue and /production-packs/:id/issue.            *)

\* The draft is read; an If-Match that is not its version is refused, with
\* 409, before the key is looked at.
Expected(d, k, c) ==
  [NoIssuing EXCEPT !.at = "begin", !.doc = d, !.key = k, !.corrects = c,
                    !.version = draft[d].version, !.number = draft[d].next,
                    !.text = draft[d].text]

StartSheetIssue(h, d, k, c) ==
  /\ isReq[h] = NoIssuing
  /\ draft[d] # NoDraft
  /\ Len(issue[d]) < MaxIssues
  /\ isReq' = [isReq EXCEPT ![h] = Expected(d, k, c)]
  /\ UNCHANGED <<draft, issue, link, record>>

\* A pack's correction is looked up before the key, a sheet's after it.
IsIssueOf(d, c) == c \in 0..Len(issue[d])

StartPackIssue(h, d, k, c) ==
  /\ isReq[h] = NoIssuing
  /\ draft[d] # NoDraft
  /\ IsIssueOf(d, c)
  /\ Len(issue[d]) < MaxIssues
  /\ isReq' = [isReq EXCEPT ![h] = Expected(d, k, c)]
  /\ UNCHANGED <<draft, issue, link, record>>

BeginIssue(h) ==
  LET r == isReq[h] IN
  /\ r.at = "begin"
  /\ Idem!Begin(r.doc, r.key, r.corrects)
  /\ IsGoto(h, "read")
  /\ UNCHANGED <<draft, issue, link>>

\* A completed key answers with its issue, any other known key with 409.
AnswerKnownKey(h) ==
  LET r == isReq[h] IN
  /\ r.at = "begin"
  /\ Idem!Replays(r.doc, r.key, r.corrects) \/ Idem!Refuses(r.doc, r.key, r.corrects)
  /\ IsFinish(h)
  /\ UNCHANGED <<draft, issue, link, record>>

\* loadDraftRecipients: the people on the sheet, each with their own calls.
DraftPeople(d) == draft[d].to

\* The people of a sheet and the calls they have; its correction is looked up.
ReadRecipients(h) ==
  LET r == isReq[h] IN
  /\ r.at = "read" /\ r.doc \in Sheets
  /\ DraftPeople(r.doc) # {}
  /\ IsIssueOf(r.doc, r.corrects)
  /\ isReq' = [isReq EXCEPT ![h].at = "batch", ![h].to = DraftPeople(r.doc)]
  /\ UNCHANGED <<draft, issue, link, record>>

\* Nobody to send it to, or links that would end too early or too late.
RejectRecipients(h) ==
  LET r == isReq[h] IN
  /\ r.at = "read" /\ r.doc \in Sheets
  /\ DraftPeople(r.doc) = {} \/ IsIssueOf(r.doc, r.corrects)
  /\ record' = Idem!Failed(r.doc, r.key)
  /\ IsFinish(h)
  /\ UNCHANGED <<draft, issue, link>>

\* The items of a pack; its number is read here, a sheet's came with the draft.
ReadItems(h) ==
  LET r == isReq[h] IN
  /\ r.at = "read" /\ r.doc \in Packs
  /\ draft[r.doc].to # {}
  /\ isReq' = [isReq EXCEPT ![h].at = "batch", ![h].to = draft[r.doc].to,
                            ![h].number = Len(issue[r.doc]) + 1]
  /\ UNCHANGED <<draft, issue, link, record>>

RejectItems(h) ==
  LET r == isReq[h] IN
  /\ r.at = "read" /\ r.doc \in Packs
  /\ draft[r.doc].to = {}
  /\ record' = Idem!Failed(r.doc, r.key)
  /\ IsFinish(h)
  /\ UNCHANGED <<draft, issue, link>>

\* What an issue freezes.
IssuedSheet(r) == [text |-> r.text, to |-> r.to, key |-> r.key, corrects |-> r.corrects]
IssuedPack(r) == [text |-> r.text, to |-> r.to, key |-> r.key, corrects |-> r.corrects]

\* One link for each person on the sheet.
RecipientLinks(r) == {<<r.doc, r.number, p>> : p \in r.to}

\* Mutant of BatchHolds: the batch carries no version guard.
BatchUnguarded(r) == r.number = Len(issue[r.doc]) + 1

\* The guard row's CHECK and UNIQUE (draft, issue_number).
BatchHolds(r) ==
  /\ draft[r.doc].version = r.version
  /\ r.number = Len(issue[r.doc]) + 1

\* A pack keeps no counter: its next number is one more than its last.
IssuedDraft(r) ==
  [draft[r.doc] EXCEPT !.status = "issued", !.next = @ + 1, !.version = @ + 1]

CommitSheetIssue(h) ==
  LET r == isReq[h] IN
  /\ r.at = "batch" /\ r.doc \in Sheets
  /\ BatchHolds(r)
  /\ issue' = [issue EXCEPT ![r.doc] = Append(@, IssuedSheet(r))]
  /\ draft' = [draft EXCEPT ![r.doc] = IssuedDraft(r)]
  /\ link' = link \cup RecipientLinks(r)
  /\ record' = Idem!Completed(r.doc, r.key, r.number)
  /\ IsGoto(h, "answer")

CommitPackIssue(h) ==
  LET r == isReq[h] IN
  /\ r.at = "batch" /\ r.doc \in Packs
  /\ BatchHolds(r)
  /\ issue' = [issue EXCEPT ![r.doc] = Append(@, IssuedPack(r))]
  /\ draft' = [draft EXCEPT ![r.doc] = IssuedDraft(r)]
  /\ record' = Idem!Completed(r.doc, r.key, r.number)
  /\ IsGoto(h, "answer")
  /\ UNCHANGED link

\* The batch is refused: the draft moved on, or two items of a pack are given
\* one path.
AbortIssue(h) ==
  LET r == isReq[h] IN
  /\ r.at = "batch"
  /\ BatchHolds(r) => r.doc \in Packs
  /\ IsGoto(h, "fail")
  /\ UNCHANGED <<draft, issue, link, record>>

\* The batch ran and its answer did not arrive: the handler takes the error path.
LoseAnswer(h) ==
  /\ isReq[h].at = "answer"
  /\ IsGoto(h, "fail")
  /\ UNCHANGED <<draft, issue, link, record>>

\* Mutant of MarkFailed: the record is marked failed whatever it says.
MarkAnyway(h) ==
  LET r == isReq[h] IN
  /\ r.at = "fail"
  /\ record' = [record EXCEPT ![<<r.doc, r.key>>].state = "failed"]
  /\ IsFinish(h)
  /\ UNCHANGED <<draft, issue, link>>

MarkFailed(h) ==
  LET r == isReq[h] IN
  /\ r.at = "fail"
  /\ record' = Idem!Failed(r.doc, r.key)
  /\ IsFinish(h)
  /\ UNCHANGED <<draft, issue, link>>

\* The answer is sent, the corrected issue is not one of this draft (the key
\* stays in progress), or the Worker dies.
IsDrop(h) ==
  /\ isReq[h] # NoIssuing
  /\ IsFinish(h)
  /\ UNCHANGED <<draft, issue, link, record>>

ExpireKey(d, k) ==
  /\ Idem!Expire(d, k)
  /\ UNCHANGED <<draft, issue, link, isReq>>

IssuingNext ==
  \/ \E to \in SUBSET People :
       \/ \E d \in Sheets : CreateSheet(d, to)
       \/ \E d \in Packs : CreatePack(d, to)
  \/ \E d \in Sheets : EditSheet(d)
  \/ \E h \in IsHandlers :
       \/ \E k \in Keys, c \in Corrections :
            \/ \E d \in Sheets : StartSheetIssue(h, d, k, c)
            \/ \E d \in Packs : StartPackIssue(h, d, k, c)
       \/ BeginIssue(h) \/ AnswerKnownKey(h)
       \/ ReadRecipients(h) \/ RejectRecipients(h) \/ ReadItems(h) \/ RejectItems(h)
       \/ CommitSheetIssue(h) \/ CommitPackIssue(h)
       \/ AbortIssue(h) \/ LoseAnswer(h) \/ MarkFailed(h) \/ IsDrop(h)
  \/ \E d \in Documents, k \in Keys : ExpireKey(d, k)

IssuingSpec == IssuingInit /\ [][IssuingNext]_issuingVars

----------------------------------------------------------------------------
(* What pages show.                                                        *)

Newest(d) == IF issue[d] = << >> THEN {} ELSE {issue[d][Len(issue[d])]}

SheetView(d) ==
  [doc |-> d, status |-> draft[d].status, text |-> draft[d].text, next |-> draft[d].next,
   issues |-> Len(issue[d]), latest |-> Newest(d)]

PackView(d) ==
  [doc |-> d, status |-> draft[d].status, text |-> draft[d].text,
   issues |-> Len(issue[d]), latest |-> Newest(d)]

ListedSheets == {SheetView(d) : d \in {s \in Sheets : draft[s] # NoDraft}}
ListedPacks == {PackView(d) : d \in {s \in Packs : draft[s] # NoDraft}}

\* An issued sheet is shown with the people who have a link to it.
SheetIssueView(d, n) ==
  [key |-> issue[d][n].key, to |-> issue[d][n].to,
   linked |-> {p \in People : <<d, n, p>> \in link}]

PackIssueView(d, n) == [key |-> issue[d][n].key, items |-> issue[d][n].to]

----------------------------------------------------------------------------
(* Properties.                                                             *)

IssuesUnder(d, k) == {n \in DOMAIN issue[d] : issue[d][n].key = k}

\* A key tells the truth about its issue, whoever else issues the draft and
\* whichever answer was lost: it is completed exactly when one issue was made
\* under it, which it names, and a failed one made none (operations.ts:1753).
KeyTellsTheTruth ==
  \A d \in Documents, k \in Keys :
    IssuesUnder(d, k) =
      IF record[<<d, k>>].state = "completed" THEN {record[<<d, k>>].ref} ELSE {}

\* A key is answered with the issue made under it: a sheet for which every
\* person on it has a link, or a pack with something in it (operations.ts:1500).
AnswersAreWhole ==
  \A d \in Documents, k \in Keys : record[<<d, k>>].state = "completed" =>
    IF d \in Sheets
      THEN LET view == SheetIssueView(d, record[<<d, k>>].ref) IN
           view.key = k /\ view.to # {} /\ view.linked = view.to
      ELSE LET view == PackIssueView(d, record[<<d, k>>].ref) IN
           view.key = k /\ view.items # {}

\* A draft listed as issued says what its last issue says, and the next number
\* of a sheet continues the chain (operations.ts:1429, :1609).
IssuedIsUnchanged ==
  /\ \A view \in ListedSheets : view.next = view.issues + 1
  /\ \A view \in ListedSheets \cup ListedPacks :
       view.status = "issued" <=> \E last \in view.latest : last.text = view.text

\* Keys and drafts agree with the issues made.
IssuesStand == KeyTellsTheTruth /\ AnswersAreWhole /\ IssuedIsUnchanged

\* Every issue freezes the draft as it is when the issue appears, though it
\* was read several steps before; issues are never changed or taken back, and
\* no key makes two of them: the drafts implement FrozenIssues, whatever is
\* edited, retried or lost between (operations.ts:1585, migrations/0006:294).
Frozen == INSTANCE FrozenIssues WITH
  Texts <- [text : Nat, to : SUBSET People],
  says <- [d \in Documents |-> [text |-> draft[d].text, to |-> draft[d].to]],
  frozen <- [d \in Documents |-> [n \in DOMAIN issue[d] |->
               [text |-> [text |-> issue[d][n].text, to |-> issue[d][n].to],
                key |-> issue[d][n].key]]]

ImplementsFrozenIssues == Frozen!Spec
=============================================================================
