--------------------------- MODULE ArchiveRequest ---------------------------
(***************************************************************************)
(* A producer asks for an archive of the project: POST /archive/jobs of    *)
(* apps/web/src/server/routes/project-archive.ts, up to the archive job    *)
(* ArchiveJobs starts from.                                                *)
(*                                                                         *)
(* One request writes in many transactions: the idempotency record, the    *)
(* snapshot row, the generated objects, the manifest items fifty at a      *)
(* time, and one batch that completes the snapshot and inserts the job.    *)
(* The triggers of migrations 0006 and 0007 look at every UPDATE of the    *)
(* snapshot row.                                                           *)
(***************************************************************************)
EXTENDS Naturals, Sequences

CONSTANTS
  ArKeys,      \* Idempotency-Key headers
  ArScopes,    \* bodies: fileVersionScope "current" or "all"
  ArHandlers,  \* requests in flight
  Batches,     \* batches of fifty manifest items an export takes
  MaxSnapshots \* bound: snapshots ever inserted

VARIABLES
  snapshot,  \* the rows of export_snapshots, in order of insertion
  stored,    \* generated objects in the bucket: <<snapshot, name>>
  job,       \* rows of archive_jobs: [snapshot, items]
  arKey,     \* idempotency records of project.archive.request
  arReq      \* arReq[h]: the request h is serving

archiveRequestVars == <<snapshot, stored, job, arKey, arReq>>

None == <<>>

Asked == INSTANCE Idempotency
  WITH Operations <- {"archive"}, Keys <- ArKeys, Bodies <- ArScopes, NoRef <- None,
       record <- arKey

\* The objects written beside the file versions, in the order of the handler.
Generated == <<{"data", "schema"}, {"manifest"}, {"checksums"}>>

\* `cause`: what made the request fail, "none" while nothing has.
NoRequest == [at |-> "idle", key |-> "-", scope |-> "-", on |-> 0, done |-> 0, cause |-> "none"]

ArGoto(h, to) == arReq' = [arReq EXCEPT ![h].at = to, ![h].done = 0]
ArNext(h) == arReq' = [arReq EXCEPT ![h].done = @ + 1]
ArFail(h, why) == arReq' = [arReq EXCEPT ![h].at = "fail", ![h].cause = why]
ArFinish(h) == arReq' = [arReq EXCEPT ![h] = NoRequest]

ArchiveRequestInit ==
  /\ snapshot = <<>> /\ stored = {} /\ job = {}
  /\ Asked!IdempotencyInit
  /\ arReq = [h \in ArHandlers |-> NoRequest]

StartRequest(h, k, s) ==
  /\ arReq[h].at = "idle"
  /\ arReq' = [arReq EXCEPT ![h] = [NoRequest EXCEPT !.at = "begin", !.key = k, !.scope = s]]
  /\ UNCHANGED <<snapshot, stored, job, arKey>>

BeginRequest(h) ==
  LET r == arReq[h] IN
  /\ r.at = "begin"
  /\ Asked!Begin("archive", r.key, r.scope)
  /\ ArGoto(h, "snapshot")
  /\ UNCHANGED <<snapshot, stored, job>>

\* The job made under this key, or a 409.
AnswerRequest(h) ==
  LET r == arReq[h] IN
  /\ r.at = "begin"
  /\ Asked!Replays("archive", r.key, r.scope) \/ Asked!Refuses("archive", r.key, r.scope)
  /\ ArFinish(h)
  /\ UNCHANGED <<snapshot, stored, job, arKey>>

\* UNIQUE (project_id, idempotency_key) of the snapshot table.
KeyIsFree(k) == \A i \in 1..Len(snapshot) : snapshot[i].key # k

InsertSnapshot(h) ==
  LET r == arReq[h] IN
  /\ r.at = "snapshot" /\ Len(snapshot) < MaxSnapshots
  /\ IF KeyIsFree(r.key)
       THEN /\ snapshot' = Append(snapshot, [state |-> "building", version |-> 1,
                                             key |-> r.key, items |-> 0])
            /\ arReq' = [arReq EXCEPT ![h].at = "put", ![h].on = Len(snapshot')]
       ELSE ArFail(h, "duplicate") /\ UNCHANGED snapshot
  /\ UNCHANGED <<stored, job, arKey>>

\* The tables are read page by page; the export may exceed MAX_EXPORT_BYTES.
TooLarge(h) ==
  /\ arReq[h].at = "put" /\ arReq[h].done = 0
  /\ ArFail(h, "too_large")
  /\ UNCHANGED <<snapshot, stored, job, arKey>>

PutGenerated(h) ==
  LET r == arReq[h] IN
  /\ r.at = "put" /\ r.done < Len(Generated)
  /\ stored' = stored \cup {<<r.on, n>> : n \in Generated[r.done + 1]}
  /\ ArNext(h)
  /\ UNCHANGED <<snapshot, job, arKey>>

\* The manifest digest is taken once every object is in the bucket.
PutAll(h) ==
  /\ arReq[h].at = "put" /\ arReq[h].done = Len(Generated)
  /\ ArGoto(h, "items")
  /\ UNCHANGED <<snapshot, stored, job, arKey>>

InsertManifestItems(h) ==
  LET r == arReq[h] IN
  /\ r.at = "items" /\ r.done < Batches
  /\ snapshot' = [snapshot EXCEPT ![r.on].items = @ + 1]
  /\ ArNext(h)
  /\ UNCHANGED <<stored, job, arKey>>

ItemsInserted(h) ==
  /\ arReq[h].at = "items" /\ arReq[h].done = Batches
  /\ ArGoto(h, "commit")
  /\ UNCHANGED <<snapshot, stored, job, arKey>>

\* The triggers before an UPDATE of a snapshot row: its version goes up by one,
\* and a terminal row is frozen.
UpdateAllowed(old, new) ==
  /\ new.version = old.version + 1
  /\ old.state \notin {"complete", "failed", "superseded"}

\* Both UPDATEs of the route set the state and leave the version alone.
InState(s, state) == [s EXCEPT !.state = state]

\* The batch: snapshot completed, job and its items inserted, key completed.
CommitRequest(h) ==
  LET r == arReq[h]
      new == InState(snapshot[r.on], "complete")
  IN  /\ r.at = "commit"
      /\ IF UpdateAllowed(snapshot[r.on], new)
           THEN /\ snapshot' = [snapshot EXCEPT ![r.on] = new]
                /\ job' = job \cup {[snapshot |-> r.on, items |-> new.items]}
                /\ arKey' = Asked!Completed("archive", r.key, <<r.on>>)
                /\ ArGoto(h, "answer")
           ELSE ArFail(h, "none") /\ UNCHANGED <<snapshot, job, arKey>>
      /\ UNCHANGED stored

\* The catch block: both statements settle, whatever becomes of the other.
FailRequest(h) ==
  LET r == arReq[h]
      failed == InState(snapshot[r.on], "failed")
  IN  /\ r.at = "fail"
      /\ arKey' = Asked!Failed("archive", r.key)
      /\ snapshot' = IF r.on # 0 /\ snapshot[r.on].state = "building"
                          /\ UpdateAllowed(snapshot[r.on], failed)
                       THEN [snapshot EXCEPT ![r.on] = failed] ELSE snapshot
      /\ ArFinish(h)
      /\ UNCHANGED <<stored, job>>

\* The database or the bucket does not answer a step.
StepFails(h) ==
  /\ arReq[h].at \in {"snapshot", "put", "items", "commit", "answer"}
  /\ ArFail(h, "fault")
  /\ UNCHANGED <<snapshot, stored, job, arKey>>

\* The answer is sent, or the Worker dies.
ArDrop(h) ==
  /\ arReq[h].at # "idle"
  /\ ArFinish(h)
  /\ UNCHANGED <<snapshot, stored, job, arKey>>

ArchiveRequestNext ==
  \E h \in ArHandlers :
    \/ \E k \in ArKeys, s \in ArScopes : StartRequest(h, k, s)
    \/ BeginRequest(h) \/ AnswerRequest(h) \/ InsertSnapshot(h) \/ TooLarge(h)
    \/ PutGenerated(h) \/ PutAll(h) \/ InsertManifestItems(h) \/ ItemsInserted(h)
    \/ CommitRequest(h) \/ FailRequest(h) \/ StepFails(h) \/ ArDrop(h)

ArchiveRequestSpec == ArchiveRequestInit /\ [][ArchiveRequestNext]_archiveRequestVars

\* What ADR 0007 says of the request (0007-outbound-nas-archival.md:12): a
\* request that no fault, size limit or used key stops makes a snapshot and a
\* job, so none takes the error path for another reason.
RequestsMakeJobs ==
  \A h \in ArHandlers : arReq[h].at = "fail" => arReq[h].cause # "none"
=============================================================================
