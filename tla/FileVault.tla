---------------------------- MODULE FileVault ----------------------------
(***************************************************************************)
(* Uploads, immutable file versions and the removal of cloud copies:       *)
(* apps/web/src/server/routes/files.ts over D1 and the KV object store.    *)
(*                                                                         *)
(* A request handler is a Worker invocation: it keeps what it read before  *)
(* an await in `req` and may die at any await (Drop).  D1 batches and      *)
(* single statements are atomic; reads and writes of different handlers    *)
(* interleave.  An upload session names its object key, and so the only    *)
(* version that can use that key.                                          *)
(***************************************************************************)
EXTENDS Integers, FiniteSets

CONSTANTS
  Sessions,   \* upload sessions, and the object key each one owns
  Files,      \* logical files
  Handlers,   \* concurrent requests
  Nil,        \* no session, no file, no version (SQL NULL)
  Budget,     \* FILE_STORAGE_TOTAL_BUDGET_BYTES, in uploads of one size
  UserCalls,  \* the optional calls users make in this instance
  MaxJobs     \* bound: verified archive jobs

CallNames == {"abort", "archive", "remove", "hold", "expire", "take over"}

ASSUME NilAssumption == Nil \notin Sessions \cup Files
ASSUME BudgetAssumption == Budget \in Nat
ASSUME BoundAssumption == MaxJobs \in Nat
ASSUME CallsAssumption == UserCalls \subseteq CallNames

VARIABLES
  session,    \* session[s]: the upload_sessions row
  expired,    \* the sessions whose expires_at has passed
  stored,     \* the object keys present in KV
  version,    \* version[s]: the file_versions row using s's object key
  file,       \* file[f]: the files row
  hold,       \* files under an active legal hold
  due,        \* files whose retention_review_at has passed
  verified,   \* one set of versions per verified archive job
  receipt,    \* receipt[h]: the retention_actions row h inserted
  req         \* req[h]: what handler h is doing

vars == <<session, expired, stored, version, file, hold, due, verified, receipt, req>>

OpenStates == {"authorized", "uploading", "verifying"}
NoSession == [state |-> "none", target |-> Nil, done |-> FALSE, aged |-> FALSE]
NoVersion == [file |-> Nil, number |-> 0]
NoFile == [status |-> "none", archived |-> FALSE, current |-> Nil]
NoReceipt == [status |-> "none", file |-> Nil, job |-> {}, keys |-> {}]
Idle == [at |-> "idle", upload |-> Nil, file |-> Nil, number |-> 0, job |-> {}]

VersionsOf(f) == {s \in Sessions : version[s].file = f}
Exists(f) == file[f].status # "none"
Editable(f) == Exists(f) /\ ~file[f].archived

Init ==
  /\ session = [s \in Sessions |-> NoSession]
  /\ expired = {}
  /\ stored = {}
  /\ version = [s \in Sessions |-> NoVersion]
  /\ file = [f \in Files |-> NoFile]
  /\ hold = {}
  /\ due = {}
  /\ verified = {}
  /\ receipt = [h \in Handlers |-> NoReceipt]
  /\ req = [h \in Handlers |-> Idle]

Finish(h) == req' = [req EXCEPT ![h] = Idle]
Goto(h, at) == req' = [req EXCEPT ![h].at = at]
Begin(h, r) == req[h] = Idle /\ req' = [req EXCEPT ![h] = r]

----------------------------------------------------------------------------
(* POST /uploads/authorize: the budget is read, then the row inserted.     *)

Used == Cardinality({s \in Sessions : version[s] # NoVersion})
      + Cardinality({s \in Sessions : session[s].state \in OpenStates /\ ~session[s].done})

StartAuthorize(h, s, f) ==
  /\ session[s] = NoSession
  /\ \A g \in Handlers : req[g].upload # s
  /\ f # Nil => Editable(f)
  /\ Used + 1 <= Budget
  /\ Begin(h, [Idle EXCEPT !.at = "authorize", !.upload = s, !.file = f])
  /\ UNCHANGED <<session, expired, stored, version, file, hold, due, verified, receipt>>

CommitAuthorize(h) ==
  /\ req[h].at = "authorize"
  /\ session' = [session EXCEPT ![req[h].upload] =
       [NoSession EXCEPT !.state = "authorized", !.target = req[h].file]]
  /\ Finish(h)
  /\ UNCHANGED <<expired, stored, version, file, hold, due, verified, receipt>>

----------------------------------------------------------------------------
(* PUT /uploads/:id/content.                                               *)

StartPut(h, s) ==
  /\ session[s].state \in OpenStates
  /\ ~session[s].done
  /\ s \notin expired
  /\ Begin(h, [Idle EXCEPT !.at = "head", !.upload = s])
  /\ UNCHANGED <<session, expired, stored, version, file, hold, due, verified, receipt>>

\* FILES.head finds the object: an earlier request already stored it.
SkipClaim(h) ==
  /\ req[h].at = "head"
  /\ req[h].upload \in stored
  /\ Goto(h, "verify")
  /\ UNCHANGED <<session, expired, stored, version, file, hold, due, verified, receipt>>

\* Mutant of Claimable: a claim is never taken over.
ClaimableOnce(s) == ~session[s].done /\ session[s].state = "authorized"

\* A session is claimed when nobody holds it, or its holder is 60 s old.
Claimable(s) ==
  /\ ~session[s].done
  /\ \/ session[s].state = "authorized"
     \/ session[s].state = "uploading" /\ session[s].aged

\* FILES.head misses: nothing is stored, or KV has not propagated it yet.
ClaimPut(h) ==
  LET s == req[h].upload IN
  /\ req[h].at = "head"
  /\ Claimable(s)
  /\ session' = [session EXCEPT ![s].state = "uploading", ![s].aged = FALSE]
  /\ Goto(h, "put")
  /\ UNCHANGED <<expired, stored, version, file, hold, due, verified, receipt>>

\* The key is immutable: put refuses one that is taken, unless it misses it
\* and writes the same authorized bytes again.
StorePut(h) ==
  /\ req[h].at = "put"
  /\ stored' = stored \cup {req[h].upload}
  /\ Goto(h, "verify")
  /\ UNCHANGED <<session, expired, version, file, hold, due, verified, receipt>>

FailPut(h) ==
  /\ req[h].at = "put"
  /\ Goto(h, "reset")
  /\ UNCHANGED <<session, expired, stored, version, file, hold, due, verified, receipt>>

\* Mutant of ResetPut: the reset does not look at the state it resets.
ResetAnyway(h) ==
  LET s == req[h].upload IN
  /\ req[h].at = "reset"
  /\ session' = [session EXCEPT ![s].state = "authorized", ![s].aged = FALSE]
  /\ Finish(h)
  /\ UNCHANGED <<expired, stored, version, file, hold, due, verified, receipt>>

ResetPut(h) ==
  LET s == req[h].upload IN
  /\ req[h].at = "reset"
  /\ session' = IF ~session[s].done /\ session[s].state = "uploading"
                THEN [session EXCEPT ![s].state = "authorized", ![s].aged = FALSE]
                ELSE session
  /\ Finish(h)
  /\ UNCHANGED <<expired, stored, version, file, hold, due, verified, receipt>>

\* Mutant of VerifyPut: the session completes before its version is written.
CompleteBeforeCommit(h) ==
  LET s == req[h].upload IN
  /\ req[h].at = "verify"
  /\ ~session[s].done
  /\ s \in stored
  /\ session' = [session EXCEPT ![s].state = "complete", ![s].done = TRUE]
  /\ Goto(h, "finalize")
  /\ UNCHANGED <<expired, stored, version, file, hold, due, verified, receipt>>

\* verifyAndFinalize: the stored object is compared with the authorization.
VerifyPut(h) ==
  LET s == req[h].upload IN
  /\ req[h].at = "verify"
  /\ ~session[s].done
  /\ s \in stored
  /\ session' = IF session[s].state \in {"authorized", "uploading"}
                THEN [session EXCEPT ![s].state = "verifying", ![s].aged = FALSE]
                ELSE session
  /\ Goto(h, "finalize")
  /\ UNCHANGED <<expired, stored, version, file, hold, due, verified, receipt>>

\* SELECT COALESCE(MAX(version_number), 0) + 1
IsNextNumber(f, n) ==
  LET numbers == {version[s].number : s \in VersionsOf(f)} IN
  /\ n - 1 \in numbers \cup {0}
  /\ \A m \in numbers : m < n

\* finalizeFileVersion reads the file and the next number; a new file gets a
\* fresh identifier.
ReadFinalize(h, f, n) ==
  LET s == req[h].upload
      t == session[s].target IN
  /\ req[h].at = "finalize"
  /\ ~session[s].done
  /\ IF t = Nil
     THEN ~Exists(f) /\ (\A g \in Handlers : req[g].file # f) /\ n = 1
     ELSE f = t /\ Editable(f) /\ IsNextNumber(f, n)
  /\ req' = [req EXCEPT ![h].at = "commit", ![h].file = f, ![h].number = n]
  /\ UNCHANGED <<session, expired, stored, version, file, hold, due, verified, receipt>>

Finalize(h) ==
  \E f \in Files, n \in 1 .. Cardinality(Sessions) + 1 : ReadFinalize(h, f, n)

\* Mutants of RowsAreUnique: one of the two unique indexes is missing.
KeyIsUnique(s, f, n) == version[s] = NoVersion
NumberIsUnique(s, f, n) == \A r \in VersionsOf(f) : version[r].number # n

\* UNIQUE (object_key) and UNIQUE (file_id, version_number).
RowsAreUnique(s, f, n) ==
  /\ version[s] = NoVersion
  /\ \A r \in VersionsOf(f) : version[r].number # n

\* Mutant of NewVersionRow: the file points at itself instead of the version.
SelfVersionRow(s, f, n) ==
  /\ version' = [version EXCEPT ![s] = [file |-> f, number |-> n]]
  /\ file' = [file EXCEPT ![f].status = "active", ![f].current = f]

NewVersionRow(s, f, n) ==
  /\ version' = [version EXCEPT ![s] = [file |-> f, number |-> n]]
  /\ file' = [file EXCEPT ![f].status = "active", ![f].current = s]

\* The batch: the session's own row is updated only while it is open, and no
\* statement of the batch fails when it is not.
CommitFinalize(h) ==
  LET s == req[h].upload IN
  /\ req[h].at = "commit"
  /\ RowsAreUnique(s, req[h].file, req[h].number)
  /\ NewVersionRow(s, req[h].file, req[h].number)
  /\ session' = IF ~session[s].done /\ session[s].state \in OpenStates
                THEN [session EXCEPT ![s].state = "complete", ![s].done = TRUE, ![s].aged = FALSE]
                ELSE session
  /\ Finish(h)
  /\ UNCHANGED <<expired, stored, hold, due, verified, receipt>>

----------------------------------------------------------------------------
(* POST /uploads/:id/abort: delete the object, then mark the session.      *)

StartAbort(h, s) ==
  /\ "abort" \in UserCalls
  /\ session[s] # NoSession
  /\ ~session[s].done
  /\ Begin(h, [Idle EXCEPT !.at = "abort delete", !.upload = s])
  /\ UNCHANGED <<session, expired, stored, version, file, hold, due, verified, receipt>>

AbortDelete(h) ==
  /\ req[h].at = "abort delete"
  /\ stored' = stored \ {req[h].upload}
  /\ Goto(h, "abort mark")
  /\ UNCHANGED <<session, expired, version, file, hold, due, verified, receipt>>

AbortMark(h) ==
  LET s == req[h].upload IN
  /\ req[h].at = "abort mark"
  /\ session' = IF session[s].done THEN session
                ELSE [session EXCEPT ![s].state = "aborted", ![s].aged = FALSE]
  /\ Finish(h)
  /\ UNCHANGED <<expired, stored, version, file, hold, due, verified, receipt>>

----------------------------------------------------------------------------
(* Version-guarded edits of a file.  Every update of the row bumps its     *)
(* version (trigger files_version_step), so a batch that passes the guard  *)
(* sees the row the caller saw and each edit is one step.                  *)

Archive(f, archived) ==
  /\ "archive" \in UserCalls
  /\ Exists(f)
  /\ file' = [file EXCEPT ![f].archived = archived]
  /\ UNCHANGED <<session, expired, stored, version, hold, due, verified, receipt, req>>

MakeCurrent(f, s) ==
  /\ "archive" \in UserCalls
  /\ Editable(f)
  /\ version[s].file = f
  /\ file' = [file EXCEPT ![f].current = s]
  /\ UNCHANGED <<session, expired, stored, version, hold, due, verified, receipt, req>>

----------------------------------------------------------------------------
(* POST /:fileId/remove-cloud-copy.                                        *)

\* Mutant of Covers: an archive of some version of the file is enough.
CoversSome(job, f) == VersionsOf(f) \cap job # {}

\* findVerifiedArchive: one verified job holds every version of the file.
Covers(job, f) == VersionsOf(f) # {} /\ VersionsOf(f) \subseteq job

StartRemove(h, f, job) ==
  /\ "remove" \in UserCalls
  /\ receipt[h] = NoReceipt
  /\ Exists(f) /\ file[f].archived
  /\ f \in due
  /\ f \notin hold
  /\ job \in verified /\ Covers(job, f)
  /\ Begin(h, [Idle EXCEPT !.at = "approve", !.file = f, !.job = job])
  /\ UNCHANGED <<session, expired, stored, version, file, hold, due, verified, receipt>>

\* The object keys are listed after the archive was found; the row 'approved'.
ApproveRemove(h) ==
  /\ req[h].at = "approve"
  /\ receipt' = [receipt EXCEPT ![h] = [status |-> "approved", file |-> req[h].file,
                                        job |-> req[h].job, keys |-> VersionsOf(req[h].file)]]
  /\ Goto(h, "revoke")
  /\ UNCHANGED <<session, expired, stored, version, file, hold, due, verified>>

\* The second hold check, and the batch that closes downloads.
RevokeAccess(h) ==
  /\ req[h].at = "revoke"
  /\ req[h].file \notin hold
  /\ file' = [file EXCEPT ![req[h].file].status = "cloud_removed"]
  /\ Goto(h, "delete")
  /\ UNCHANGED <<session, expired, stored, version, hold, due, verified, receipt>>

\* Mutant of DeleteBodies: the whole prefix of the project is deleted.
DeletePrefix(h, gone) ==
  /\ req[h].at = "delete"
  /\ gone = receipt[h].keys
  /\ stored' = {}
  /\ Goto(h, "complete")
  /\ UNCHANGED <<session, expired, version, file, hold, due, verified, receipt>>

\* FILES.delete is one delete per key; some may fail and the call with them.
DeleteBodies(h, gone) ==
  /\ req[h].at = "delete"
  /\ gone \subseteq receipt[h].keys
  /\ stored' = stored \ gone
  /\ Goto(h, IF gone = receipt[h].keys THEN "complete" ELSE "failed")
  /\ UNCHANGED <<session, expired, version, file, hold, due, verified, receipt>>

CompleteRemove(h) ==
  /\ req[h].at = "complete"
  /\ receipt' = [receipt EXCEPT ![h].status = "completed"]
  /\ Finish(h)
  /\ UNCHANGED <<session, expired, stored, version, file, hold, due, verified>>

FailRemove(h) ==
  /\ req[h].at \in {"revoke", "delete", "complete", "failed"}
  /\ receipt' = [receipt EXCEPT ![h].status = "failed"]
  /\ Finish(h)
  /\ UNCHANGED <<session, expired, stored, version, file, hold, due, verified>>

\* GET .../versions/:versionId/download answers with the body.
Downloads(s) ==
  /\ version[s] # NoVersion /\ file[version[s].file].status # "cloud_removed"
  /\ s \in stored

----------------------------------------------------------------------------
(* The rest of the system, and time.                                       *)

\* planning-controls.ts: POST /legal-holds and /legal-holds/:holdId/release.
SetHold(f) ==
  /\ "hold" \in UserCalls
  /\ Exists(f)
  /\ hold' = IF f \in hold THEN hold \ {f} ELSE hold \cup {f}
  /\ UNCHANGED <<session, expired, stored, version, file, due, verified, receipt, req>>

\* An archive job over a snapshot of the versions reaches 'verified'; an agent
\* read every body it covers.  Snapshots skip files whose copy was removed.
VerifyArchive(job) ==
  /\ "remove" \in UserCalls
  /\ job # {}
  /\ Cardinality(verified) < MaxJobs
  /\ \A s \in job : version[s] # NoVersion /\ s \in stored
                    /\ file[version[s].file].status = "active"
  /\ verified' = verified \cup {job}
  /\ UNCHANGED <<session, expired, stored, version, file, hold, due, receipt, req>>

\* The retention date an operator gave the file passes.
ReachRetention(f) ==
  /\ "remove" \in UserCalls
  /\ Exists(f)
  /\ due' = due \cup {f}
  /\ UNCHANGED <<session, expired, stored, version, file, hold, verified, receipt, req>>

\* Only a put of an open session looks at expires_at.
Expire(s) ==
  /\ "expire" \in UserCalls
  /\ session[s].state \in OpenStates /\ s \notin expired
  /\ expired' = expired \cup {s}
  /\ UNCHANGED <<session, stored, version, file, hold, due, verified, receipt, req>>

\* 60 s pass since the session was claimed.
Age(s) ==
  /\ "take over" \in UserCalls
  /\ session[s].state = "uploading"
  /\ session' = [session EXCEPT ![s].aged = TRUE]
  /\ UNCHANGED <<expired, stored, version, file, hold, due, verified, receipt, req>>

\* A request is refused by a check, fails at an await, or its Worker dies.
Drop(h) ==
  /\ req[h] # Idle
  /\ Finish(h)
  /\ UNCHANGED <<session, expired, stored, version, file, hold, due, verified, receipt>>

----------------------------------------------------------------------------

PutStep(h) ==
  \/ SkipClaim(h) \/ ClaimPut(h) \/ StorePut(h) \/ ResetPut(h) \/ VerifyPut(h)
  \/ Finalize(h)
  \/ CommitFinalize(h)

RemoveStep(h) ==
  \/ ApproveRemove(h) \/ RevokeAccess(h) \/ CompleteRemove(h) \/ FailRemove(h)
  \/ \E gone \in SUBSET Sessions : DeleteBodies(h, gone)

HandlerStep(h) ==
  \/ \E s \in Sessions, f \in Files \cup {Nil} : StartAuthorize(h, s, f)
  \/ CommitAuthorize(h)
  \/ \E s \in Sessions : StartPut(h, s)
  \/ PutStep(h)
  \/ FailPut(h)
  \/ \E s \in Sessions : StartAbort(h, s)
  \/ AbortDelete(h) \/ AbortMark(h)
  \/ \E f \in Files, job \in SUBSET Sessions : StartRemove(h, f, job)
  \/ RemoveStep(h)
  \/ Drop(h)

Environment ==
  \/ \E f \in Files, archived \in BOOLEAN : Archive(f, archived)
  \/ \E f \in Files, s \in Sessions : MakeCurrent(f, s)
  \/ \E f \in Files : SetHold(f) \/ ReachRetention(f)
  \/ \E job \in SUBSET Sessions : VerifyArchive(job)
  \/ \E s \in Sessions : Expire(s) \/ Age(s)

Next == (\E h \in Handlers : HandlerStep(h)) \/ Environment

Spec == Init /\ [][Next]_vars

\* Requests end; a client keeps retrying an open upload, and each step of a
\* request that is reached again and again succeeds some time; 60 s pass.
Fairness ==
  /\ \A h \in Handlers : WF_vars(Drop(h))
  /\ \A s \in Sessions :
       LET Of(h) == req[h].upload = s IN
       /\ SF_vars(\E h \in Handlers : StartPut(h, s))
       /\ SF_vars(\E h \in Handlers : Of(h) /\ (SkipClaim(h) \/ ClaimPut(h)))
       /\ SF_vars(\E h \in Handlers : Of(h) /\ StorePut(h))
       /\ SF_vars(\E h \in Handlers : Of(h) /\ VerifyPut(h))
       /\ SF_vars(\E h \in Handlers : Of(h) /\ Finalize(h))
       /\ SF_vars(\E h \in Handlers : Of(h) /\ CommitFinalize(h))
       /\ WF_vars(Age(s))

\* What happens to uploads that nobody aborts, of files nobody removes.
UploadStep(h) ==
  \/ \E s \in Sessions, f \in Files \cup {Nil} : StartAuthorize(h, s, f)
  \/ CommitAuthorize(h)
  \/ \E s \in Sessions : StartPut(h, s)
  \/ PutStep(h)
  \/ FailPut(h)
  \/ Drop(h)

UploadNext == (\E h \in Handlers : UploadStep(h)) \/ \E s \in Sessions : Age(s)

FairSpec == Init /\ [][UploadNext]_vars /\ Fairness

----------------------------------------------------------------------------
(* Properties.                                                             *)

\* However many requests finish an upload, at once or after a takeover, each
\* file that exists shows one of its own versions and numbers them without a
\* gap or a repetition.
HistoryIsWhole ==
  \A f \in Files :
    /\ Exists(f) => file[f].current \in VersionsOf(f)
    /\ \A r, s \in VersionsOf(f) : version[r].number = version[s].number => r = s
    /\ \A s \in VersionsOf(f) : version[s].number # 1 =>
         \E r \in VersionsOf(f) : version[r].number = version[s].number - 1

\* An upload that asked for a new file makes one file, and one that asked for
\* a version of a file makes it there: no two files come from one upload.  Its
\* version is written in the batch that completes its session, so a completed
\* one has a version and only an abort that got in between leaves a version to
\* a session that is not complete (files.ts:936).
UploadsEndOnce ==
  /\ \A f \in Files : Exists(f) =>
       \E s \in VersionsOf(f) : session[s].target = Nil
         /\ \A r \in VersionsOf(f) \ {s} : session[r].target = f
  /\ \A s \in Sessions :
       /\ session[s].done => version[s] # NoVersion
       /\ version[s] # NoVersion => session[s].state \in {"complete", "aborted"}

\* A version's body is missing from storage only if a removal listed it, and its
\* download is refused only once a removal of its file was recorded.
BodiesKeptWithoutReceipt ==
  \A s \in Sessions : version[s] # NoVersion =>
    /\ s \notin stored => \E h \in Handlers : s \in receipt[h].keys
    /\ ~Downloads(s) => \E h \in Handlers : receipt[h].file = version[s].file

\* docs/adr/0005: permanent byte deletion cannot remove the only known good
\* copy, so a version without its body is in a verified archive.
LastCopyKept ==
  \A s \in Sessions : version[s] # NoVersion /\ s \notin stored => \E job \in verified : s \in job

\* A receipt names one verified archive, and a key it lists outside that
\* archive can only be a version committed after the archive was found.
ReceiptRestsOnArchive ==
  \A h \in Handlers : receipt[h] # NoReceipt =>
    /\ receipt[h].job \in verified
    /\ \A s \in receipt[h].keys \ receipt[h].job :
         \A r \in receipt[h].keys \cap receipt[h].job : version[r].number < version[s].number

\* While clients keep retrying a put and no step of it fails every time, no
\* crash, failed write or lost race leaves an open upload unable to finish.
UploadFinishes ==
  \A s \in Sessions : session[s].state \in OpenStates ~> session[s].done
===========================================================================
