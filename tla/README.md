# Verification of Sinbod Wayne Productions

Sinbod Wayne Productions is a production workspace for film teams: a Cloudflare Worker (Hono routes over D1,
a KV object store, a durable workflow and a collaboration hub), browser pages with an offline store, and an
agent on the studio's NAS that pulls verified archives. This directory holds TLA+ models of its stateful parts,
TLC configurations that check them on small instances, and TLAPS proofs.

Source paths below are relative to `src/`; routes are in `apps/web/src/server/routes/`.

## 1. Inventory

Every route is a Worker invocation that reads rows with awaited statements and ends in one D1 batch. A batch is
atomic; nothing protects what was read before it except what its SQL repeats: a version guard
(`records/version.ts`), a `WHERE` clause, a unique index, or a trigger of `migrations/0006` and `0007`. The same
question therefore comes back in every component: what does a batch still assume that another request may have
changed? The Worker can die at any await, KV may answer late, and clients and agents retry.

| component | state | operations | hard behaviour | what makes it correct |
|---|---|---|---|---|
| Archive coordinator (`server/archive/repository.ts`, `service.ts`) | `archive_jobs`, `archive_leases`, `archive_attempts`, `archive_manifest_items`, `archive_acknowledgements`, `idempotency_records` | lease, heartbeat, acknowledge item, acknowledge manifest, record failure, replay | expiry races late requests; takeover; lost answers; retries under stable keys | one running attempt, evidence only under the current lease, verified means complete, an active job can be reclaimed |
| Archive workflow (`worker/archive-workflow.ts`) | its durable step, `archive_jobs.status` | create, prepare, publish, record failure | a step repeats; it runs beside the agents | it never disturbs a job an agent holds |
| Archive request (`project-archive.ts`) | `export_snapshots` and the rows above | snapshot, items, job, workflow | update under immutability triggers | a request ends in a job that can be archived |
| NAS agent (`apps/nas-agent/src`) | staged and installed files, the calls of one lease | runOnce, prepare, download, install, acknowledge, resume | crash between write, rename and acknowledgement; range resumption | nothing unverified is installed or acknowledged |
| Server idempotency (`server/idempotency.ts`) | `idempotency_records` | begin, complete, fail, expire | crash between begin and batch; two requests of one key | a key has one effect and one answer |
| Files (`files.ts`, `storage/private-object-store.ts`) | `upload_sessions`, `files`, `file_versions`, `retention_actions`, KV bodies | authorize, put, verify, finalize, abort, archive, restore, make current, remove cloud copy | two puts of one session; stalled claims; partial deletion; legal holds | versions are never lost or duplicated; the last copy is kept |
| Screenplay (`screenplay.ts`, `packages/domain/src/scene-sync.ts`) | draft blocks, `script_revisions`, `scenes`, `script_syncs`, `scene_mappings` | save, add, import, revise, decide, apply | preview, decision and application are separate requests; renumbering under a unique index | production changes only by applying a reviewed synchronisation |
| Operations (`operations.ts`) | schedules, shoot days, call sheets and their recipient issues, production packs | approve, duplicate, revise, issue, supersede, acknowledge | issued truth is immutable while its sources move | an issue pins what it was issued from and is superseded once |
| Planning controls (`planning-controls.ts`) | budgets, reservations, logistics, legal holds, clearances | approve, revise, reserve, hold, release | approved versions are frozen; overlapping reservations | no double booking of what is exclusive |
| Readiness (`readiness.ts`, `server/readiness/`) | `readiness_issues`, results, sources | evaluate, override, mark ready, go stale | sources change while an evaluation runs | ready is never shown for sources that changed |
| Shares and approvals (`shares.ts`, `collaboration.ts`) | `share_links`, `approvals`, external decisions | create, revoke, open, decide | a revocation or a second decision between check and batch | one decision per approval; a revoked link changes nothing |
| Records, projects, ideas (`records.ts`, `projects.ts`, `ideas.ts`) | versioned rows | edit, archive, promote | lost updates | an edit is based on the version it names |
| Script editor (`writing/ProfessionalScreenplayPage.tsx`) | the page's blocks, base version and conflict, the query cache | type, autosave, fetch, load server version | a fetch, a save and typing overlap | nobody's text is overwritten unseen |
| Lists (`projects.ts`, `records.ts`) | none; a cursor in the client | page by page, creative status | rows move while they are listed | an untouched row is shown once |
| Authentication (`auth.ts`, `server/auth/`) | identities, sessions, attempts | setup, login, rotate, revoke | concurrent setup, session rotation | one owner; a revoked session is dead |
| Collaboration hub (`worker/project-collaboration-hub.ts`) | sockets, presence | join, broadcast, leave | hibernation | presence only of open sockets |
| Offline drafts (`offline/`) | IndexedDB queue | enqueue, flush, conflict | a reply lost after the server committed | a draft is kept until it was saved |
| Domain algorithms (`packages/domain/src`) | none | rank, page eighths, schedule, money, readiness rules | boundaries | agreement with a reference definition |

They meet in shared rows. An archive pins the file versions that a removal later relies on. A synchronisation
marks readiness stale. A legal hold set in the planning controls stops a removal of files. Shares expose issued
call sheets and approvals. Every mutating route goes through idempotency or a version guard. Presentation (pages,
`packages/ui`), seeds and deployment scripts, dashboard and print queries keep no state of their own and are left
out. `PROJECT.json` lists every component with its status and every hazard with its line and its properties.

## 2. Modules

| module | models | proofs |
|---|---|---|
| `ArchiveJobs` implements `FencedLock` | archive coordinator and workflow | `Archive_proofs` |
| `ArchiveRequest` | what makes a job | |
| `NasInstall` | the agent's disk | `Archive_proofs` |
| `FileVault` | uploads, versions, removal | `FileVault_proofs` |
| `ScreenplaySync` | draft, revisions, synchronisation | `ScreenplaySync_proofs` |
| `ScriptEditor` | the editor pages and the draft they share | `Workspace_proofs` |
| `Readiness` implements `IssueRegister` | evaluation, override, freezing, staleness | `Readiness_proofs` |
| `ReadinessSources`, `ReadinessVerdicts` | what each rule observes, and the four verdicts | `Readiness_proofs` |
| `Schedules` | plans, conflicts, shoot days | `Operations_proofs` |
| `Issuing` implements `FrozenIssues` | call sheets and production packs | `Operations_proofs` |
| `Sharing` | links, approvals, decisions | `Sharing_proofs` |
| `Discussions` | comments, activities, notifications | `Sharing_proofs` |
| `Planning`, `Controls` | budget, requirements, reservations; registers and holds | `Workspace_proofs` |
| `Records` | records, ideas, projects | `Workspace_proofs` |
| `Listings` | lists and statuses | `Shown_proofs` |
| `OfflineDrafts` | the browser's queue | `Workspace_proofs` |
| `Algorithms` | pure functions of `packages/domain` | `Shown_proofs` |
| `Idempotency` | the records behind `Idempotency-Key`; instantiated by five modules | |

`MCArchiveJobs`, `MCFileVault`, `MCFiles`, `MCScreenplaySync`, `MCReadiness`, `MCSources`, `MCDocuments` and
`MCWorkspace` instantiate them. The last two put several modules into one state space. Their rows are disjoint in the
code, so a behaviour first chooses a *focus*, the component whose rows it changes; the others stay as they started.
Nothing is lost by that (no action of one reads a variable of another), and one run checks what would otherwise be many.

The conventions are the same everywhere. A handler that reads and later writes is a `Start...` action, which keeps
what it read in the request's record, and a `Commit...` action, its batch, guarded only by what the SQL repeats. A
request may be dropped between any two of its steps, a batch may commit although its answer is lost, and no ordinary
run assumes fairness. No module uses a `RECURSIVE` operator. Beside an operator stands, named as its mutant or as a
plausible slip, a variant of it that a realistic bug would produce; a property is kept only if a variant breaks it.

## 3. Archive protocol: ArchiveJobs, FencedLock

**State.** The row of one job (`status`, `attemptCount`, `lastError`), its `lease` row, `attempt` by number, the
items marked verified, the acknowledgement rows (`acks[k]` is the attempt a row names), the idempotency records
(`idem`), the workflow's step, the requests in flight (`req`), what each agent was last told, and the clock.

**Actions.** A handler is two steps: `Start...` captures `now`, reads and decides, `Commit...` is its batch, guarded
only by what the SQL repeats. `leaseNextJob` is StartLease with CommitLease, LoseLease or RejectManifest;
`heartbeat` is StartHeartbeat, CommitHeartbeat; `acknowledgeItem` and `acknowledgeManifest` are StartAcknowledge
with CommitItem or CommitManifest, or Refuse; `recordFailure` is StartFail, CommitFail; a completed idempotency
record answers in Replay. A request can be dropped between its steps. The workflow's steps, their repetition and
exhaustion are CreateWorkflow ... RecordPreparationFailure. Time passes in Tick.

**Abstractions.** One job: no statement of the protocol reads another job's rows. A lease token is named by the
attempt inserted with it. `now` is captured together with the first read. The begin of the idempotency record is
merged with the authorization that follows it. Whether a code is retryable is fixed per code, as in the agent. The
keys of the agent are those of `stableIdempotencyKey`, which do not contain the attempt. Whether the stored
manifest is sound is chosen once. `Init` is the state the inserts of the archive request describe.

**FencedLock** says what the lease is for: every grant raises an epoch, only the holder signs, an entry is signed
once and names the epoch that signed it. `ArchiveJobs` implements it with the attempt count as epoch, the token as
holder and the acknowledgement rows as ledger.

| run | shows |
|---|---|
| `archive_protocol` | five invariants (LeaseBacked, OneRunningAttempt, ActiveIsReclaimable, VerifiedIsComplete, ReplayIsHonest), two action properties and the refinement, for two concurrent requests, two items, two leases of one or two ticks and three ticks. Two leases are enough for a takeover and two requests for a late one; three ticks let a lease expire under a request and the next one be heartbeated. Heartbeats of one agent do not overlap here |
| `archive_late_heartbeat` | violated: a heartbeat the agent gave up on shortens the lease; the release that follows deletes the row although every other statement of its batch found it expired, and the job cannot be leased again |

**Proved** for every set of items, codes and handlers and every bound (`Archive_proofs`):
type correctness, LeaseBacked, ItemEvidence, VerifiedIsComplete, ReplayIsHonest, FencedEvidence, AppendOnlyHistory and
the refinement of FencedLock. None of the invariants is inductive alone. `IndInv` adds that attempts above the count
are unused, so a grant is fresh, and that a request in flight names an attempt that was granted and, if it is the
newest, is still what it authorised: this is what lets a batch's guard on the token stand for everything that the
handler read. ActiveIsReclaimable and OneRunningAttempt need more: that a lease's expiry never moves back.
`OrderInv` orders the clocks of the requests in flight against the lease row, and holds only if no heartbeat overlaps
another (`~LateHeartbeats`), which is an assumption of those two theorems; `archive_late_heartbeat` shows that it is
needed.

**ArchiveRequest** is POST /archive/jobs, which creates what `ArchiveJobs` starts from: the key is begun, the snapshot row
inserted, the generated objects stored, the manifest items inserted fifty at a time, and one batch completes the snapshot
and inserts the job. The triggers of migrations 0006 and 0007 look at every update of the snapshot row. `archive_request`
is violated: a request that meets no failure, no limit and no competitor still takes the error path, because the
completing UPDATE leaves `version` alone and `export_snapshots_version_step` refuses it.

**NasInstall** is what the agent does with a lease on one disk. Paths name inodes, so that the moment between link and
unlink, where two paths name one file, and an open handle on a renamed file are what they are on a disk. Prepare, Stage,
OpenPartial, WriteByte (a right or a wrong byte), EndBody or BreakBody, DownloadFails, VerifyPartial, then InstallExisting
or Link and Unlink, or Rename where links are not supported, and AcknowledgeItem; Die at any of them, a new process that
resumes from the disk, the loss of the lease, and a file somebody else puts at a destination. Checked in `workspace` for
one process at a time, two items of two bytes and two downloads: a short and a wrong partial file, a resumed one and one
that is installed already. Two processes that share a disk are section 10's.

**Proved** in `Archive_proofs` for a manifest of any length, files of any size, any inodes and any number of downloads, deaths
and lost leases, but for one process (`Alone`): InstalledIsWhole and StagedWholeIsKept. `NasInv` adds that the
paths of two items never name one inode (PathsApart), and, point by point of a run (ProcSound), that the open handle names the staged file and
its length is the offset, that a file past its verification is whole, that what is acknowledged is installed and the items still to
come are not. `Alone` is a hypothesis and not a fact about the
code: a second agent whose lease expired breaks both properties (`archive-agent.ts:467`, the hazard without a property).

## 4. Files: FileVault

**State.** A session names the object key it owns, hence the version that can use it: `session`, `stored` (KV), `version`,
`file`, plus `hold`, `due`, the verified archives and the removal receipts. `req[h].at` is the await a handler is at.

**Actions.** Authorize (budget read, then insert); put: StartPut, SkipClaim or ClaimPut, StorePut or FailPut and ResetPut,
VerifyPut, ReadFinalize, CommitFinalize; abort: StartAbort, AbortDelete, AbortMark; archive and restore, MakeCurrent;
removal: StartRemove, ApproveRemove, RevokeAccess, DeleteBodies (any subset may fail), CompleteRemove, FailRemove. Downloads reads a
version's body. Drop is a crash or a refusal at any await. Archive jobs (VerifyArchive), holds (SetHold) and the passing of time (Expire,
Age, ReachRetention) are the environment.

**Abstractions.** Uploads have one size; a new file gets a fresh identifier; version-guarded edits are one step, because a
trigger bumps the version with every update; KV may miss a key that was just written but not show one that was
deleted; a put that lost its claim may still store the same bytes later; a handler removes at most one file; the
idempotency record of a removal is left out. UserCalls limits the optional calls of an instance.

| run | shows |
|---|---|
| `files` | three sessions, two files, two requests, three jobs' worth of storage. A behaviour is about uploads (aborts, expiry, takeovers): histories have no gap, duplicate or foreign current version (HistoryIsWhole), one file per upload, completed sessions have their version and versions come from ended uploads (UploadsEndOnce). Or it is about the removal of one file's copies, with two archive jobs and holds: a receipt rests on an archive that held every older version (ReceiptRestsOnArchive), and a body or a download disappears only under a receipt (RemovalKeepsBodies). Two requests give every race of one session; the third session gives a second version with a competitor |
| `files_progress` | under fairness, every open upload completes |
| `files_last_copy` | violated: the versions to delete are listed after the archive was matched, so a version committed in between is deleted without being in any archive |

**Fairness** is used only in `files_progress`: a request ends (Workers are bounded in time), clients keep putting an open
upload, no step fails every time it is tried, and 60 s pass. No upload is aborted or expires in that instance: those
end it otherwise. Strong fairness is per session and step, because a step can be taken away by a competing request. All
other runs assume no fairness: every request may stop anywhere.

**Proved** for any sessions, files, requests and bounds (`FileVault_proofs`): HistoryIsWhole, UploadsEndOnce,
ReceiptRestsOnArchive and RemovalKeepsBodies. None of them is inductive. The invariant adds that the numbers of a file's versions are 1..n (so a number
that is free when the batch commits is above all taken ones, even if it was read before another version), that
the file a request is about to make is in no other request's hands, that sessions keep their target, and that an archive
holds only versions, so a version committed later is in none found before. Most actions
neither add a version nor make a file; they share the lemma SteadyStep, and only CommitAuthorize and CommitFinalize
have proofs of their own. `BodyInv` follows the bodies: the body of a version, or of an upload whose request is about to insert one, is stored or
listed by a removal of that file, and a file is closed to downloads only under a receipt. BodiesAreKept is what it says of any behaviour in which nobody
aborts, which it has to assume (an abort does delete a body under a version, section 10); RemovalsKeepBodies is the property of the run.

## 5. Screenplay: ScreenplaySync

**State.** The draft as the sequence of its headings, the screenplay row, `scene` rows, `sync[r]` with its mappings,
downstream `work`, and the requests in flight.

**Actions.** AddScene and Import are single batches without a guard. PATCH /draft is StartSave (attributes read) and
CommitSave (version guard). POST /revisions is StartRevision (no pending synchronisation), ReadRevision (the preview)
and CommitRevision. A mapping decision is StartDecide, CommitDecide. An application is StartApply (mappings read, all
resolved) and CommitApply: the statements in mapping order, with the unique indexes that can abort the batch and the
trigger that freezes an applied synchronisation. `Preview` is `previewSceneSync` as a fold over the draft.

**Abstractions.** A text is a fingerprint with a slugline; the reads of the preview are one step; new identifiers are
interchangeable; mapping identifiers of one millisecond are random, so any order is possible (Orders); the readiness
flags, the object registry and the audit rows are left out; inserting or deleting one block is a retyped heading.
UserDecisions, Imports, EditVersions, MaxDecisions and MaxRevisions bound the instance. Numbers are locked or not: the
routes create screenplays unlocked and nothing changes it, the fixtures lock them.

| run | shows |
|---|---|
| `screenplay_sync` | three scenes, two revisions, two requests: applied synchronisations are reviewed (AppliedIsReviewed), applied once and final (SyncsEndOnce); what production sees comes from an applied one and changes only with it (ShownComesFromApplied); recognised scenes are shown; links survive racing saves. Edits happen before the first revision and after its application, which is where scenes are linked, unlinked, ambiguous or removed |

**Proved** for any finite set of scenes and any texts, imports, requests and bounds (`ScreenplaySync_proofs`): SyncsEndOnce,
LinksAreKept, AppliedIsReviewed and ShownComesFromApplied. The first rests on who may write: a revision inserts hidden scenes only and a row that is not there yet, a
decision meets the trigger. The second needs an invariant of its own, `DraftInv`: the draft's scenes are distinct,
and a save whose expected version is the present one was made from the present draft, while every batch that touches
the draft raises the version. AppliedIsReviewed holds although the application checks its mappings before the batch
and not in it: a decision that slips in between replaces one and takes none back, so mappings that were all decided once stay so
(`ReviewInv`). ShownComesFromApplied looks into the batch. What it does is a recursive function of the number of
mappings carried out (`ApplyMapping`), and so is the preview (`PreviewEntries`); a lemma about the least prefix that
breaks a claim, from the library's WFMin over the naturals, carries facts from prefix to prefix. Its invariant
`SceneInv` says that every scene in production names a revision whose synchronisation is applied. RecognisedAreShown is not a theorem: which scene a
mapping names may be decided between the read of an application and its batch, and for some values of UserDecisions the record then differs
from what was applied (below); the run's decisions stay inside those for which it holds.

Divergences the model reaches that have no run of their own: a scene whose ambiguity users resolved by identifying it
with a stored scene is archived by the same application, because POST /revisions lists candidates among the removed
scenes and decides `archive` for those without work (`screenplay.ts:794`; docs/architecture.md:159); with numbering not
locked, renumbering collides under UNIQUE (screenplay_id, display_number) with a scene that holds the number, so a fully
resolved synchronisation can never be applied and blocks every later revision (`screenplay.ts:1040`, :553); work attached after the preview does not stop the scene
from being archived (`screenplay.ts:794`; docs/adr/0003 asks for a decision about every removed scene with work and
for a preview to become stale); a decision that commits between the read and the batch of an application makes the
record differ from what was applied; two revisions created at once are both pending; a remap may target an archived
scene; scenes of an import that are matched are never linked, so the next revision has to recognise them again.

**ScriptEditor** is the other side of the draft: the pages of several sessions, each with a copy of the blocks, the version
it is based on, a query cache, a save and a fetch under way. Type, SendSave (the autosave timer), CheckSave, CommitSave or
RefuseSave, ViewSaved, AnswerSave or FailSave; StartFetch, ReadFetch, Arrive; LoadServerVersion; and the routes that change
single blocks or import a script, which raise the version without a guard. The server reads the version first and the
blocks after it, in a statement of its own (`screenplay.ts:163`); the page saves all its blocks under the version it
loaded. `workspace` checks it for two pages, two blocks, two edits and three versions, and `Workspace_proofs` proves
for any number that an accepted save replaces only texts its page had loaded (OnlyLoadedIsReplaced). The invariant behind it, `EdInv`,
says of every version and every copy of the text that travels with it (cache, draft, save, fetch and answer) that the version is
not ahead of the server's, and that the copy is the server's text if the version is: reading the version first makes that
true, reading it last would not. What it does not protect is the writer from himself: `script_editor` is violated, since the
answer of a save replaces what was typed since it was sent.

## 6. Readiness: Readiness, IssueRegister

**State.** `past` is the sequence of all values the sources of the gates have had, the last one current; `evals`,
`overrides` in commit order, and `issues` with their standing and stale events; `shown`, the readiness state written
to the project and shoot day rows; the active `profile`; `fresh`, the requests since whose first read `projects.version`
has not changed; the clock; the requests in flight. A scope is the project or a shoot day.

**Actions.** POST /evaluate is StartEvaluate (or FindNoProfile and Provision when no profile is active) and
CommitEvaluate, whose batch has no guard. POST /overrides is StartOverride, CommitOverride. POST /issues is StartIssue
(the project version and the latest evaluation), DecideIssue (sources unchanged and nothing blocks; the prior issue is
read) and CommitIssue, whose guard row repeats the project version. GET / is StartView, ReadIssue and EndView or
CommitView: it persists what it found stale. Edit is a change of observed records by any route: most mark nothing,
schedules and issued documents mark a ready project, a screenplay synchronisation marks every ready issue. SetDay is
PATCH /shoot-days, which writes any readiness state. Drop is a refusal, a failed batch or a Worker that dies.

**Reads.** `loadReadinessSources` awaits its queries in parallel, so what a request sees is not a state that ever was:
each source has the value of some moment since the request began, a different one for each (Readings), and the
overrides it sees are a prefix of those committed. That nothing false is ever frozen is the point of the module.

**Abstractions.** A source is a version and a state, its hash free of collisions; that versions only grow is true of
the versioned rows and not of every fingerprint (section 7). All gates are required blockers, so a warning cannot
arise. Evaluations and overrides are captured a millisecond apart. The idempotency records are left out. Time passes
only while an override can expire, as nothing else looks at it.

**IssueRegister** says what freezing promises: a numbered chain per scope, an issue never changes, a new one
supersedes the last, only the standing of the current one may become stale. The stale events are not part of it.

| run | shows |
|---|---|
| `readiness` | two gates (one marked as schedules are, one as synchronisations are), the project and one day, two requests, two edits, two issues and two captures: an issue pins what was true at one moment (IssueWasTrue) and the latest evaluation (IssueOfLatest); whoever looks finds what was outdated when he began to look (ViewFindsOutdated); the issues are a register. Two edits allow a torn read (one source before, one after) and a source that changes while it is frozen; two requests allow every race of a freeze with an evaluation, a view or another freeze. Requests that provision, override or view do not overlap one another here (`Alone`); the proofs have no such limit |

No property needs fairness: readiness promises only what is written.

**ReadinessSources** says how each of the nineteen observations of `sources.ts` is made from rows: a behaviour picks a
project (a record of registers) and a rule, and observes. MCSources gives every register any few of a set of rows, one
that is ready and some that fall short in one column. **ReadinessVerdicts** adds the four places that turn the same
observations, profile and overrides into a verdict: `evaluateReadiness` of the domain package, `summarizeReadiness`,
`createReadinessIssue` and the status colour of a row. ReadinessIsEarned, in `workspace`, says that a rule that passes found
something to pass and would not without it, that where every row counts a gap is not covered by other rows, that what
expired stays expired, that the latest issue or export decides, that the four verdicts agree, and that an override which the
page offers a member who may edit is accepted. For a viewer that last part is false (section 10), and so it is stated for owners and
producers only; the page of an archived project, whose overrides are refused too, is not modelled. Of the two comparisons of an issue's pins with the present sources only the page's is
in the models, in Readiness (ViewFindsOutdated): no route calls `detectReadinessStaleness` (`packages/domain/src/readiness.ts:261`).

**Proved** for every set of gates, marks, days and requests, every overlap and every bound (`Readiness_proofs`): TypeOK,
IssueWasTrue, IssueOfLatest, ViewFindsOutdated and the refinement of IssueRegister. The inductive invariant is `IndInv`: beside types, times
that do not lie ahead of the clock, and requests that refer to what exists, it says that

- a version says what a source was, and versions grow along `past` (HistoryGrows): a value seen before a moment and
  again after it was there at that moment;
- what an evaluation pins was read at some moment (EvaluationsSeen);
- a request that is still fresh freezes the latest evaluation of its scope, made of reads that all came before the
  request began, and, once it has decided, those pins are exactly what the sources were when it began; the prior issue
  it read is still the last (FreshRequests). This is why two torn reads add up to a moment: the evaluation's reads lie
  before the request's start and the check's after it, and they agree. It is also why the guard row is needed: without
  it the evaluation or the issue may have been replaced;
- all issues but the last of a chain are superseded and numbers are positions (Chains), so a view that marks an issue
  marks the current one or leaves the standing alone.

ViewFindsOutdated needs three facts more: a version that is gone never comes back, so what a view found changed is changed for
good; no two overrides are of one time, so a prefix of them tells which were there; and what another view or a newer issue
did to an issue meanwhile only makes it less ready.

ReadinessIsEarned is a theorem too (`ReadinessEarned`), for any rows of any register: one lemma per rule, each from that rule's
observation, and one per pair of verdicts. Its assumptions describe the questions: a project a known rule is asked about has the registers that rule
reads (RegistersRead), rows that are compared with the clock are dated, overrides were given in the past and those of an owner's
codes by the owner.

## 7. From the schedule to its readers: Schedules, Issuing, Sharing, Discussions, Idempotency

**Idempotency** has the rows behind `Idempotency-Key`: Begin is a statement of its own, completion belongs to the batch of the work, failure
is a statement of its own again, a record expires and is never deleted. Issuing, Sharing, Planning, Records and ArchiveRequest
instantiate it over their own variable, with their operations, bodies and references.

**Schedules**: `schedule`, its immutable `revision`s, `conflict` and `resolutions`, `shootDay`. CreateSchedule and GenerateDay are
single batches; revision, approval (which inserts an approved copy), duplication, the resolution of a conflict and PATCH of a shoot day read
first. What holds although only some of these batches carry a guard: the page shows the newest revision and calls it
approved exactly when it is, one schedule is the default (PlansStand); an open conflict is on exactly one day and has one
resolution when closed (ConflictsAreAccounted); a day's edit takes nothing back (DayChangesAreKept). All three are proved in
`Operations_proofs` for any schedules, plans and bounds. What carries them is what a request may rely on (RequestsRely): the schedule it
revises is there, the one it copies to is not and nobody else copies to it, and a row whose version has not moved is the row that
was read. A conflict on no day has day 0, so 0 is assumed not to be a count of days.

**Issuing**: `draft`, `issue`, the recipients' `link`s and the key `record`s. An issue is StartSheetIssue or StartPackIssue (the If-Match
version), BeginIssue or AnswerKnownKey, ReadRecipients or ReadItems (or their rejections), CommitSheetIssue or
CommitPackIssue under a guard row, or AbortIssue; LoseAnswer, MarkFailed and IsDrop are what can go wrong. A draft's text is
the number of its edits. **FrozenIssues** says what issuing promises without requests: an issue freezes what the draft says at that moment, for
ever, and a key freezes at most one issue of a draft. ImplementsFrozenIssues is the refinement, and `Operations_proofs` proves it
for all documents, people, keys, requests and bounds, and IssuesStand too. Its inductive invariant says that a version tells what the draft says
(what a request read under a version is the draft's text while the version is the same) and that a key of a request that
may still commit has made no issue.

**Sharing**: `share` links, their `session`s, `approval`s with their `decision`s, and `made`, how many rows an operation inserted under a key. A
request through a link is admitted (StartThroughLink, StartApprove, StartDownload), begins its key, and commits later; members
create links, request and decide; links are revoked and expire, and the shared object may be withdrawn. A decision takes its
time after its key and before its batch (RecordedBefore), and pages list decisions by time and id: ApprovalViews has every list that the
times may give (ListOrders). The status of an approval is the decision recorded first, which heads the list unless one recorded later took
its time before any was; keys match rows, pages agree with decisions (DecisionsStand); nothing happens through a closed link or of
a withdrawn object once the requests admitted before have ended, delivery never goes back, and a decided approval keeps its
decisions once the members who were deciding it have ended (SharesMoveOn). Times are those of one clock that does not go back, here and
in Listings. `Sharing_proofs` proves both
for any links, members, approvals and bounds, links and members being different identifiers and the decisions those of the API. The invariant
`ShInv` says that a key belongs to the request that began it, which alone may count a row under it; that what was checked before
the key was begun (somebody asked for the approval, what the link is for) is still true in the batch; and that the decisions of an
approval agree with its status, a link's being the first.

**Discussions**: comments and the activities beside them, sent from panels that show the comments as they were loaded. However
old the panels, a comment is resolved and reopened in turn and is as its last activity left it (ActivitiesTellTheComments; proved
in `Sharing_proofs`).

`documents` checks all this with two requests each: two schedules with one clash, two days and two revisions in all; one
sheet, one pack, one person, two keys, three issues and four versions; one link, one approval, two members and one key per operation; two
comments of two members. Two requests and two keys give each pair of racing handlers and a retry under the same or a new
key; two revisions give an approval of an older one. Sharing is split into four families of requests that touch the same rows; the family of
decisions starts where a member has asked for an approval and made a link for it. People and requests are symmetric.

## 8. Planning, records and the clients: Planning, Controls, Records, Listings, OfflineDrafts, Algorithms

**Planning**: the `budget` row, its numbered `plan` versions with accounts and lines, `signed` approvals and their keys, one `requirement`,
kit members and reservations. Every batch on the budget carries a guard row; approval reads and hashes the version before
it. One version is worked on, what is approved is what was hashed, totals are those of the lines, a key approves once
(BudgetStands); the requirement is added once (its rank is not modelled), and a PATCH of it leaves the columns it does not name as they are
when it commits (RequirementEditsAreKept), except those of Defaulted: the schema of the PATCH is that of the POST under `partial()`, and
zod 4 fills a default in there too, so a body without `status` resets it (section 10). Reservations are modelled as they are,
without a property (section 10). BudgetStands and RequirementEditsAreKept are proved (`Workspace_proofs`) for any lines, amounts, keys and
bounds: in `PlInv` versions are numbered up to the present one (Numbering), every row's totals are those of its lines and an approved row has its hash
(RowsHold), a request that will approve has hashed what the version still says if its budget has not moved (PlRequestsHold), and a
key belongs to its request and has signed one version exactly when it is completed (PlKeysBelong, SignedOnce).

**Controls**: the registers that only grow, whose ranks are read before the row is inserted, and legal holds. Every row is
shown below its parent, the first logged release of a hold stands, and an added logistics plan comes after the primary one
(ControlsStand). A rank is a number below EndRank, as `rankBetween` halves a range. Proved for any registers, holds and bounds:
the parent a request found is still there (ParentStands), a rank halfway to the end is above the last one, and the log tells of every hold
who placed and who first released it (HoldIsLogged), where nobody is called "none".

**Records**: generic records, the project and ideas as versioned `row`s, their registry entries, and promotion under a key. Whether a
project is open is read when a request begins and not again, and by `ideas.ts` not at all. An idea of the project is in both Recs and
Ideas, and `records.ts` and `ideas.ts` both write it. A PATCH writes every column from the row it read, and what becomes of one that its
body leaves out is LeftOut: `records.ts` takes `type`, `source` and `documentType` (Shadowed) from `details_json` if it holds them and from
the column otherwise, and the schema of `ideas.ts` (`ideas.ts:26`, under `partial()`) fills in what has a default (Refilled); the
`.catch("")` of `records.ts:23` is taken to leave a missing summary missing. Apart from these a PATCH loses nothing that others wrote, and
these are exactly what details and schema say; an archived project's records settle, its ideas do not; an idea becomes one project
(RecordsStand). Proved for any records, ideas, rows that are both, keys and bounds: a request whose version is still the
row's holds what the row says, no two requests hold one key, and a key is completed exactly when a project was made under it (PromotedInv).

**Listings**: pages are SELECTs with a cursor of time and id. A request that writes takes its time before its batch (StartWrite); the
batch of an edit is refused if somebody wrote the row since (CommitWrite), that of an evaluation of readiness is not and may set the row's
time back (CommitUnguarded). A list shows every row nobody wrote since it began, and none twice except one whose time went back meanwhile;
the two computations of the creative status differ only where they are known to (ListsAreWhole, StatusesAgree, parts of ShownIsRight).
Without that exception it is not so: TLC then shows a project that was evaluated late twice (section 10). Both parts are proved
(`ListedIsWhole`) for any finite set of rows, limits, readers and writers, in `Shown_proofs`: a row that was shown never comes after the
cursor again, because a guarded write gives a row a time that is not earlier, unless it is one of those set back; and a row nobody wrote
was shown or still comes after it (ListingStands).

**OfflineDrafts**: the IndexedDB table, each mounted hook's run (ListQueued, MarkSyncing, ServerAnswers, Settle), edits and
decisions of the user, a closed tab, other users. An update that reaches the server replaces only a version the user has been shown
(OnlySeenIsReplaced, proved for any drafts, hooks and bounds). `offline_drafts` is violated: the draft is deleted by its id when the answer arrives, with what was saved into it since.

**Algorithms**: allocation of minor units, budget lines, drop-frame timecode, the conflict sweeps, dependency order, scene
moves and element merges, each asked a question and compared with its definition (AnswersAreRight, the other part of
ShownIsRight): allocations add up and are in proportion, a line taken back is the exact negative, the label of every frame parses back to it,
a sweep finds exactly the overlapping pairs, a calendar without a report has no pair with too little rest, nor one with too little time to
travel if the places of the resource and all ways between them are known (OnlyUnchartedAreClose), an order puts every task after
what it waits for, moves are fewest, merges keep references. TLC asks small questions; `Shown_proofs` proves the answers
for questions of any size (`FindingsHold`, `AnswersHold`), and with the lists, in the workspace they are part of, ShownIsRight (`ShownHolds`).

The proofs follow the recursion of the code. A loop that builds on its last result (a total, what is reachable, the tasks taken) is a
recursive function, and a lemma says that a function taking the same steps exists, so that the one the definition chooses takes them.
From there: the floors of an allocation fall short of the total by less than the number of rows with a remainder, and each row with one
left over has a positive remainder; a drop-frame label splits into tens of minutes, minutes and frames, and what
skipping added is what parsing takes away; along a sorted row the starts do not fall, so a sweep may stop early, and a gap that is
wide enough between neighbours is wide enough across them, for rest always, and for travel where the places are Charted: each assignment
of the resource has one, every two have a time in `Travel`, and no detour is shorter. The code asks for none of that (`conflicts.ts:17`,
:189), and leaves a pair that the chart does not cover unreported; what is reached after as many edges as there are nodes is closed,
so in a graph without a cycle some task is always ready; and along a run that kept its order the lengths grow, so none is longer than the longest.
What `AlgorithmsAssumption` assumes of the questions is what the schemas and the checks at the head of each function admit. Labels and milliseconds need one
thing more, a hypothesis of the theorems (WorkableRates): at least one frame to the second, once rounded, and fewer than one to the
millisecond. `frameRateSchema` (`timecode.ts:5`) admits other rates, whose labels are not numbers or whose frames share a millisecond.

`workspace` runs these with ScriptEditor, NasInstall and the readiness rules, one focus at a time, two requests each: three budget versions' worth of
writes (MaxBudgetWrites = 4), three requirement writes, two reservations of one item and a kit; four rows and four hold events;
two records, an idea of the project, one of the workspace, two fields, of which details and defaults know one, and two keys; three list
rows with pages of one, and of two when rows in any state are listed, and two writers, who write the same row if they overlap (WritesMeet);
two drafts, two hooks and one edit of each. In
every case two requests overlap and one of them meets a version, a rank or a key the other has just moved.

## 9. Runs

| run | expects | properties |
|---|---|---|
| `archive_protocol` | pass | section 3 |
| `files`, `files_progress` | pass | section 4; the second is the only run with fairness |
| `screenplay_sync` | pass | section 5 |
| `readiness` | pass | section 6 |
| `documents` | pass | section 7 |
| `workspace` | pass | sections 3 (NasInstall), 5 (ScriptEditor), 6 (rules and verdicts), 8 |
| `archive_late_heartbeat`, `archive_request`, `files_last_copy`, `offline_drafts`, `script_editor` | violation | one each, quoted under "findings" in `PROJECT.json` |

Deadlock is not checked where a bound ends every behaviour (all edits, versions and requests used up); the code itself
may stop at any time, since every request may.

## 10. Other known divergences without a run

- `worker/archive-workflow.ts:41` sets a job an agent is working on to failed when a preparation step is exhausted;
  docs/backup-and-nas.md:149 reserves Failed for attempts that ended.
- `files.ts:936`: an abort that lands between verification and the batch leaves a version whose session is aborted and
  whose body is gone; docs/architecture.md:94 says a batch that updates no row fails.
- `files.ts:712`: a legal hold placed after the second check does not stop the deletion (docs/backup-and-nas.md:207).
- `files.ts:204`: two authorisations can pass the same remaining budget (docs/data-model.md:189).
- `readiness.ts:484`: an evaluation's batch has no guard, so an edit that commits between its reads and the batch leaves
  the project "ready" although its sources changed, and an evaluation that is late overwrites the row a newer one
  wrote. Only the edits of schedules and synchronisations mark anything; after any other edit, and for the frozen issue
  itself after a schedule change, staleness appears with the next GET (docs/architecture.md:179, PLANS.md:215).
- `readiness.ts:1521`: a view compares an issue written after its reads with the older sources it saw, so it can mark a
  sound, new issue stale; or it marks the row of the project stale though a newer issue has replaced the one it read.
- `operations.ts:1089`: PATCH /shoot-days writes any readiness state by hand, "ready" included (SECURITY.md:46-52).
- The fingerprint of a legal hold contains no version: released, it is again what it was before the hold. IssueWasTrue
  is about sources whose versions grow.
- An override that is active on a gate that passes is frozen with the issue, and its expiry makes the issue stale.
- `readiness.ts:1689`: the page offers a viewer the override of every rule that a producer may override, and the route refuses every viewer
  (`auth/policy.ts:26`; docs/design-system.md:130 "policy-aware override action").
- Two first evaluations at once each provision a profile; results of the first are then those of a profile that is gone.


Archive:
- `repository.ts:411`: a lease request that selected the job before it was verified sets the verified job back to running,
  where it is never verified again (docs/architecture.md:108 "advances an explicit monotonic job state").
- `repository.ts:1106`: the agent's failure key (archive-agent.ts:112-130) contains no attempt, so a second failure with the same code
  is answered from the first one's record and ends nothing (docs/backup-and-nas.md:149, :191).
- `archive-agent.ts:467`: two agent processes on one disk, one of which lost its lease while it writes, can leave an
  acknowledged item that is not whole; items are installed one by one (docs/architecture.md:118 promises the complete tree at
  once); the rename used where links are not supported can overwrite.
- An expired lease is taken again without looking at the attempt cap, which only a reported failure checks.
- The export reads its tables page by page with OFFSET while they change.

Files: `files.ts:366` an abort that read its session before the upload was committed deletes the body of a committed
version; a removal that fails after revoking access keeps downloads closed though the bodies are kept.

Operations:
- A retry of a succeeded issue with the same key and If-Match gets 409, as the version is looked at before the key
  (`operations.ts:1487`; PLANS.md:241).
- The print of an issue takes its paper size, and a pack its marking, from the current draft (`operations.ts:2343`).
- Approving a plan copies no conflicts and may copy an older revision; duplicating loses them; all conflicts of a revision
  go to the first generated day; manual weather set by PATCH never reaches an issue; turnaround is compared with the
  preceding assignment only.

Sharing and discussions:
- Of two decisions that overlap, the first one listed need not be the one that set the status: they are listed by `created_at`, which is taken before
  the batch (`collaboration.ts:559`, `shares.ts:655`).
- A second decision of a member on a decided approval is recorded, though it changes nothing (`collaboration.ts:556`;
  PRODUCT_SPEC.md:125).
- `shares.ts:271` updates an immutable recipient issue, so a new link for the same recipient aborts; a link's secret is
  lost with its answer; a candidate can be submitted to an archived role.
- Comments through links write no activity; mark-all-read covers notifications that arrived after the list was shown;
  a comment has no key and is posted twice when it is sent again.

Planning and controls:
- `planning-controls.ts:693` copies totals with the source's contingency although the new version may have another one
  (PRODUCT_SPEC.md:115).
- `planning-controls.ts:1683`: overlapping reservations are looked for before the insert, so two requests book one item without
  an override (PLANS.md:193); equipment of the workspace is not compared across projects.
- `planning-controls.ts:152`: the schema of PATCH /requirements has the defaults of the POST, which zod 4 (pinned at 4.4.3) fills in under
  `partial()` too, so a PATCH of the title alone sets the status back to missing and the requirement to not blocking, and an empty body passes
  "At least one field is required." (:154). The application's own page always sends every column (`LegalSafetyControl.tsx:380`).
- `planning-controls.ts:1478`: a release that changes no row still logs its audit event.
- Ranks fall back to the middle when they are used up (about a hundred appends), equal ranks have no tie-break, and the page
  is sixteen reads.

Records and lists:
- `records.ts:739`: rank repair rewrites ranks without versions, and a repaired or legacy rank ("a0") can strand records that cannot be
  moved again; concurrent appends get equal ranks (docs/data-model.md:11).
- An idea of an archived project can be edited, archived and restored in the inbox, as `ideas.ts` does not call assertProjectAccess
  (`auth/policy.ts:71`).
- PATCH of an idea of the project that names its title writes type and source from `details_json`, if that holds them (`records.ts:465`), and so
  takes back what was written of them through the inbox, which leaves the details alone (`ideas.ts:152`; SECURITY.md:46 "A stale write never
  silently overwrites either user's work"). CommitPatch does this, and RecordEditsAreKept states it as its exception.
- PATCH of an idea resets the summary, source, tags, notes and links that its body leaves out (`ideas.ts:48`); the page sends them all.
- The batch of an evaluation writes `updated_at` with a time from before its reads and without a guard (`readiness.ts:487`), so a project can fall back
  below the cursor of a list and be shown on two of its pages (docs/architecture.md:199 "Potentially large lists use stable cursor pagination").
- Generic archive and PATCH leave `object_registry` as it was (docs/architecture.md:163); a duplicate project code is a 409
  version conflict by PATCH and a 500 by POST.
- Rank-ordered lists have no cursor and no page of the application follows `nextCursor`, so rows past 100 are not shown; a row touched while
  it is unread is missed.

Screenplay editor: a block deleted elsewhere makes every later autosave answer 422; adding a block raises the version, so
the page's own next save conflicts, as does a save whose answer was lost; "Load server version" shows the cache first.

Conflicts: only neighbours in time are compared, so where a way between two places is unknown, or a place is left out, a later assignment that cannot be
reached in time goes unreported (`conflicts.ts:189`).

Timecode: `frameRateSchema` (`timecode.ts:5`) admits rates that `nominalFramesPerSecond` (`timecode.ts:85`) rounds to zero, whose labels are NaN,
and rates of more than a thousand frames to the second, which `millisecondsFromFrames` does not tell apart.

Offline: two hooks can both send one create; a draft left "syncing" by a closed tab is never sent; nothing expires drafts
or removes them at sign-out (docs/adr/0006); a create whose answer is lost is made twice.

Readiness rules: the planning page's own rule (`planning/services.ts:176`) reads the primary plan and accepts "not_required",
the readiness rule (`sources.ts:979`) reads all plans and does not; open conflicts of superseded revisions still count
(`sources.ts:1028`); an observation is several reads; an override carries the actor's current role; `revoked_at` is never
looked at by the domain's evaluation, nor set; `detectReadinessStaleness` is used only by tests, and tells the pins of one issue's rules
apart by an object id that is the same for all of them (`readiness.ts:804`).

## 11. What is proved and what is only checked

Proved for all values of the constants, from the named assumptions of the modules: the theorems listed in `PROJECT.json`, along the
arguments of sections 3 to 8. They cover every property of the passing runs but these, which TLC alone checks:

- `UploadFinishes` is liveness under fairness, which is outside the prover's reach;
- `RecognisedAreShown` does not hold for every value of UserDecisions (section 5);
- what the five violated runs refute.

The proofs of one area share a module: the archive and the disk in `Archive_proofs`, comments and shares in `Sharing_proofs`, rules and
verdicts in `Readiness_proofs`, schedules and issues in `Operations_proofs`, what members plan, record and write in `Workspace_proofs`,
and what is computed and listed for them in `Shown_proofs`, one part after the other.
The library's induction theorems take the property as an operator, which no installed prover can instantiate. Where `Shown_proofs` needs
induction over data it is stated for the set of the numbers that have the property (BoundedInduction), and comes from the least number that
does not have it (LeastNatural, from `WFMin` of WellFoundedInduction).
An assumption on a constant says what the code guarantees of it: identifiers of different tables differ, sentinels such as `Nil`, "none"
and 0 are no identifiers, amounts and bounds are natural numbers, a budget has at least its first version. Hypotheses that are more than that stand in
the theorem: `~LateHeartbeats`, `Alone`, `WorkableRates`, and no aborts in BodiesAreKept.

## 12. Not modelled

Authentication and sessions: every module takes the actor of a request and his permissions as given; sign-in, recovery and
sessions are cryptography, cookies and single guarded statements whose rows no other component writes. The collaboration
hub, which forwards messages and keeps no durable state. Presentation, print layouts, CSV and screenplay
exports, dashboards and search, which only read. Seeds, scripts and deployment. MIME checks, hashing and the wording of
answers. Links between files and records, and page eighths and pacing estimates, which touch no other state.
