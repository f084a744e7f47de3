---------------------------- MODULE ArchiveJobs ----------------------------
(***************************************************************************)
(* The archive job protocol of apps/web/src/server/archive/repository.ts:  *)
(* one archive job, its lease row, its attempts, its manifest items, the   *)
(* acknowledgement rows and the idempotency records, as the Worker's       *)
(* request handlers and the durable archive workflow read and write them.  *)
(*                                                                         *)
(* Every SQL statement of the protocol is restricted to the rows of one    *)
(* job, so one job is the whole protocol; only the order in which          *)
(* leaseNextJob walks its candidates is left out.                          *)
(*                                                                         *)
(* A handler captures `now' when it starts, awaits some reads, and ends    *)
(* with one atomic batch.  It is two steps here: Start... captures `now'   *)
(* and reads, Commit... is the batch, guarded only by what the SQL says.   *)
(* Anything may happen between the two, ticks of the clock included, and   *)
(* a handler may be dropped there (Drop).                                  *)
(*                                                                         *)
(* A lease token is named by the number of the attempt created with it:    *)
(* both are fresh in the same batch.                                       *)
(*                                                                         *)
(* An operator just above another one whose name it extends is a variation *)
(* with one guard or clause missing.  The specification never uses it: it  *)
(* is what a property must tell from the code.                             *)
(***************************************************************************)
EXTENDS Integers, FiniteSets

CONSTANTS
    Items,             \* items of the immutable manifest
    Codes,             \* failure codes an agent reports
    RetryableCodes,    \* the codes it reports as retryable
    Manifest,          \* the idempotency key of the manifest acknowledgement
    Handlers,          \* requests the Worker can be executing at once
    LeaseMin,          \* shortest and longest lease, in ticks
    LeaseMax,
    MaxAttempts,       \* MAX_AUTOMATIC_ATTEMPTS
    LateHeartbeats,    \* TRUE: a heartbeat the agent gave up on may still run
    MaxLeases,         \* bound: leases granted
    MaxClock           \* bound: ticks of the clock

ASSUME KeysAssumption ==
    /\ RetryableCodes \subseteq Codes
    /\ Items \cap Codes = {}
    /\ Manifest \notin Items \cup Codes

ASSUME BoundsAssumption ==
    /\ LeaseMin \in Nat \ {0}
    /\ LeaseMax \in Nat
    /\ LeaseMin <= LeaseMax
    /\ MaxAttempts \in Nat
    /\ MaxLeases \in Nat
    /\ MaxClock \in Nat
    /\ LateHeartbeats \in BOOLEAN

VARIABLES
    status,         \* archive_jobs.status
    attemptCount,   \* archive_jobs.attempt_count
    lastError,      \* archive_jobs.last_error_code
    lease,          \* the archive_leases row, or NoLease
    attempt,        \* archive_attempts.state by attempt_number
    verifiedItems,  \* the archive_manifest_items whose state is 'verified'
    acks,           \* archive_acknowledgements: key -> attempt, 0 for no row
    idem,           \* idempotency_records.state by key
    manifestSound,  \* does loadManifest accept the stored manifest
    workflow,       \* next step of the durable archive workflow
    told,           \* what the agent of each attempt was last answered
    req,            \* the requests being executed
    clock           \* Date.now() in ticks

jobRows == <<status, attemptCount, lastError>>
evidence == <<verifiedItems, acks, idem>>
vars == <<status, attemptCount, lastError, lease, attempt, verifiedItems, acks,
          idem, manifestSound, workflow, told, req, clock>>

Tokens == 1..MaxLeases
Keys == Items \cup Codes \cup {Manifest}
Statuses == {"requested", "running", "verifying", "verified", "failed"}
Active == {"running", "verifying"}
JobErrors == {"none", "WORKFLOW_START_FAILED", "INVALID_MANIFEST", "PREPARATION"}
NoLease == [token |-> 0, heartbeat |-> 0, expires |-> 0]
Idle == [op |-> "idle"]

(* What a request keeps between its reads and its batch. *)
LeaseRequest == [op : {"lease"}, now : Nat, duration : LeaseMin..LeaseMax]
Heartbeat == [op : {"heartbeat"}, token : Tokens, now : Nat, duration : LeaseMin..LeaseMax]
Acknowledgement == [op : {"acknowledge"}, key : Items \cup {Manifest},
                    token : Tokens, attempt : Tokens, now : Nat]
Failure == [op : {"fail"}, key : Codes, token : Tokens, attempt : Tokens, now : Nat,
            next : {"requested", "failed"}]

Init ==
    /\ status = "requested"
    /\ attemptCount = 0
    /\ lastError = "none"
    /\ lease = NoLease
    /\ attempt = [n \in Tokens |-> "none"]
    /\ verifiedItems = {}
    /\ acks = [k \in Keys |-> 0]
    /\ idem = [k \in Keys |-> "none"]
    /\ manifestSound \in BOOLEAN
    /\ workflow = "create"
    /\ told = [n \in Tokens |-> "nothing"]
    /\ req = [h \in Handlers |-> Idle]
    /\ clock = 0

Reply(h) == req' = [req EXCEPT ![h] = Idle]
Await(h, r) == req[h] = Idle /\ req' = [req EXCEPT ![h] = r]

(* The agent of attempt n gets the answer, or the response is lost. *)
Answer(n, what) == told' \in {told, [told EXCEPT ![n] = what]}

-----------------------------------------------------------------------------
(* leaseNextJob *)

Candidate(now) ==
    \/ status = "requested"
    \/ status \in Active /\ lease # NoLease /\ lease.expires <= now

StartLease(h, duration) ==
    /\ Candidate(clock)
    /\ Await(h, [op |-> "lease", now |-> clock, duration |-> duration])
    /\ UNCHANGED <<jobRows, lease, attempt, evidence, manifestSound, workflow, told, clock>>

MarkFailed(error) ==
    IF status = "verified"
    THEN UNCHANGED jobRows
    ELSE status' = "failed" /\ lastError' = error /\ UNCHANGED attemptCount

(* loadManifest throws INTEGRITY_FAILURE: the candidate is failed and skipped. *)
RejectManifest(h) ==
    /\ req[h].op = "lease"
    /\ ~manifestSound
    /\ MarkFailed("INVALID_MANIFEST")
    /\ Reply(h)
    /\ UNCHANGED <<lease, attempt, evidence, manifestSound, workflow, told, clock>>

(* The upsert of the lease row: no row, or a row expired at the request's now. *)
LeaseFree(now) == lease = NoLease \/ lease.expires <= now

(* The agent of an expired lease row loses its attempt: LEASE_EXPIRED. *)
ReclaimNothing == attempt
Reclaim ==
    [m \in Tokens |-> IF lease # NoLease /\ attempt[m] = "running" THEN "failed" ELSE attempt[m]]

CommitLease(h) ==
    LET r == req[h]
        n == attemptCount + 1
    IN /\ r.op = "lease"
       /\ manifestSound
       /\ LeaseFree(r.now)
       /\ attemptCount < MaxLeases
       /\ lease' = [token |-> n, heartbeat |-> r.now, expires |-> r.now + r.duration]
       /\ status' = "running"
       /\ attemptCount' = n
       /\ lastError' = "none"
       /\ attempt' = [Reclaim EXCEPT ![n] = "running"]
       /\ Reply(h)
       /\ UNCHANGED <<evidence, manifestSound, workflow, told, clock>>

(* The upsert kept a live lease: nothing was written, the agent stays idle. *)
LoseLease(h) ==
    /\ req[h].op = "lease"
    /\ manifestSound
    /\ ~LeaseFree(req[h].now)
    /\ Reply(h)
    /\ UNCHANGED <<jobRows, lease, attempt, evidence, manifestSound, workflow, told, clock>>

-----------------------------------------------------------------------------
(* Requests made under a lease *)

Authorized(token, now) ==
    /\ status \in Active
    /\ lease # NoLease
    /\ lease.token = token
    /\ lease.expires > now
    /\ attempt[attemptCount] = "running"

(* The guard repeated by every statement of a batch. *)
LiveForAnyone(r) == lease # NoLease /\ lease.expires > r.now
Live(r) == lease # NoLease /\ lease.token = r.token /\ lease.expires > r.now

(* The agent still works on the lease: it holds the token, runOnce has not returned. *)
Holding(token) == token <= attemptCount /\ told[token] = "nothing"

Clamp(duration) ==
    IF duration < LeaseMin THEN LeaseMin
    ELSE IF duration > LeaseMax THEN LeaseMax
    ELSE duration

(* The agent sends no heartbeat while one is in flight; it may give up on one *)
(* that the Worker is still executing.                                        *)
StartHeartbeat(h, token) ==
    /\ Holding(token)
    /\ Authorized(token, clock)
    /\ LateHeartbeats \/ \A g \in Handlers : req[g].op = "heartbeat" => req[g].token # token
    /\ Await(h, [op |-> "heartbeat", token |-> token, now |-> clock,
                 duration |-> Clamp(lease.expires - lease.heartbeat)])
    /\ UNCHANGED <<jobRows, lease, attempt, evidence, manifestSound, workflow, told, clock>>

CommitHeartbeat(h) ==
    LET r == req[h]
    IN /\ r.op = "heartbeat"
       /\ lease' = IF Live(r)
                   THEN [lease EXCEPT !.heartbeat = r.now, !.expires = r.now + r.duration]
                   ELSE lease
       /\ Reply(h)
       /\ UNCHANGED <<jobRows, attempt, evidence, manifestSound, workflow, told, clock>>

(* beginIdempotency: a completed record is replayed, otherwise it is running. *)
Begin(key) == idem[key] # "completed" /\ idem' = [idem EXCEPT ![key] = "running"]

(* Authorization or the item count was refused: only the record remains. *)
Refuse(token, key) ==
    /\ Holding(token)
    /\ Begin(key)
    /\ \/ ~Authorized(token, clock)
       \/ key = Manifest /\ verifiedItems # Items
    /\ UNCHANGED <<jobRows, lease, attempt, verifiedItems, acks, manifestSound, workflow,
                   told, req, clock>>

StartAcknowledge(h, token, key) ==
    /\ Holding(token)
    /\ Begin(key)
    /\ Authorized(token, clock)
    /\ key = Manifest => verifiedItems = Items
    /\ Await(h, [op |-> "acknowledge", key |-> key, token |-> token,
                 attempt |-> attemptCount, now |-> clock])
    /\ UNCHANGED <<jobRows, lease, attempt, verifiedItems, acks, manifestSound, workflow,
                   told, clock>>

NextStatusExpired(code) == "expired"
NextStatus(code) ==
    IF code \in RetryableCodes /\ attemptCount < MaxAttempts THEN "requested" ELSE "failed"

StartFail(h, token, code) ==
    /\ Holding(token)
    /\ Begin(code)
    /\ Authorized(token, clock)
    /\ Await(h, [op |-> "fail", key |-> code, token |-> token, attempt |-> attemptCount,
                 now |-> clock, next |-> NextStatus(code)])
    /\ UNCHANGED <<jobRows, lease, attempt, verifiedItems, acks, manifestSound, workflow,
                   told, clock>>

(* INSERT OR IGNORE of the acknowledgement row, for a live lease. *)
AckRowsUnleased(r) ==
    IF acks[r.key] = 0 THEN [acks EXCEPT ![r.key] = r.attempt] ELSE acks
AckRowsReplaced(r) ==
    IF Live(r) THEN [acks EXCEPT ![r.key] = r.attempt] ELSE acks
AckRows(r) ==
    IF Live(r) /\ acks[r.key] = 0 THEN [acks EXCEPT ![r.key] = r.attempt] ELSE acks

CompleteAlways(key, done) == idem' = [idem EXCEPT ![key] = "completed"]
Complete(key, done) ==
    idem' = IF done THEN [idem EXCEPT ![key] = "completed"] ELSE idem

CommitItem(h) ==
    LET r == req[h]
    IN /\ r.op = "acknowledge"
       /\ r.key \in Items
       /\ acks' = AckRows(r)
       /\ verifiedItems' = IF Live(r) THEN verifiedItems \cup {r.key} ELSE verifiedItems
       /\ status' = IF Live(r) /\ status \in Active /\ verifiedItems' = Items
                    THEN "verifying" ELSE status
       /\ Complete(r.key, acks'[r.key] # 0)
       /\ Reply(h)
       /\ UNCHANGED <<attemptCount, lastError, lease, attempt, manifestSound, workflow,
                      told, clock>>

(* DELETE FROM archive_leases by token: it does not look at expires_at. *)
ReleaseAny(token) == lease' = NoLease
ReleaseNone(token) == UNCHANGED lease
Release(token) == lease' = IF lease.token = token THEN NoLease ELSE lease

EndAttempt(r, outcome) ==
    attempt' = IF Live(r) /\ attempt[r.attempt] = "running"
               THEN [attempt EXCEPT ![r.attempt] = outcome] ELSE attempt

CommitManifest(h) ==
    LET r == req[h]
    IN /\ r.op = "acknowledge"
       /\ r.key = Manifest
       /\ acks' = AckRows(r)
       /\ status' = IF Live(r) /\ status \in Active /\ verifiedItems = Items
                    THEN "verified" ELSE status
       /\ EndAttempt(r, "verified")
       /\ Release(r.token)
       /\ Complete(Manifest, status' = "verified")
       /\ IF status' = "verified" THEN Answer(r.token, "verified") ELSE UNCHANGED told
       /\ Reply(h)
       /\ UNCHANGED <<attemptCount, lastError, verifiedItems, manifestSound, workflow, clock>>

CommitFail(h) ==
    LET r == req[h]
        recorded == status' = r.next /\ lastError' = r.key
    IN /\ r.op = "fail"
       /\ acks' = AckRows(r)
       /\ EndAttempt(r, "failed")
       /\ IF Live(r) /\ status \in Active
          THEN status' = r.next /\ lastError' = r.key
          ELSE UNCHANGED <<status, lastError>>
       /\ Release(r.token)
       /\ Complete(r.key, recorded)
       /\ IF recorded THEN Answer(r.token, "recorded") ELSE UNCHANGED told
       /\ Reply(h)
       /\ UNCHANGED <<attemptCount, verifiedItems, manifestSound, workflow, clock>>

(* A completed record answers at once, before the lease is looked at.  The *)
(* replay of an item tells the agent nothing new.                          *)
Replay(token, key) ==
    /\ Holding(token)
    /\ idem[key] = "completed"
    /\ told' = [told EXCEPT ![token] = IF key = Manifest THEN "verified" ELSE "recorded"]
    /\ UNCHANGED <<jobRows, lease, attempt, evidence, manifestSound, workflow, req, clock>>

(* The Worker dies or the storage fails between the reads and the batch. *)
Drop(h) ==
    /\ req[h] # Idle
    /\ Reply(h)
    /\ UNCHANGED <<jobRows, lease, attempt, evidence, manifestSound, workflow, told, clock>>

-----------------------------------------------------------------------------
(* The durable workflow started after the job is inserted *)

CreateWorkflow ==
    /\ workflow = "create"
    /\ \/ workflow' = "prepare" /\ UNCHANGED lastError
       \/ /\ workflow' = "absent"
          /\ lastError' = IF status = "requested" THEN "WORKFLOW_START_FAILED" ELSE lastError
    /\ UNCHANGED <<status, attemptCount, lease, attempt, evidence, manifestSound, told, req, clock>>

(* Materializing inserts items the request has inserted already; validating *)
(* reloads the manifest.                                                    *)
PrepareJob ==
    /\ workflow = "prepare"
    /\ workflow' = IF manifestSound THEN "publish" ELSE "recordFailure"
    /\ UNCHANGED <<jobRows, lease, attempt, evidence, manifestSound, told, req, clock>>

(* A step whose result the workflow could not persist runs again. *)
PublishJob ==
    /\ workflow = "publish"
    /\ IF status \in {"requested", "failed"}
       THEN /\ status' = "requested" /\ lastError' = "none"
            /\ workflow' \in {"publish", "done"}
       ELSE workflow' = "recordFailure" /\ UNCHANGED <<status, lastError>>
    /\ UNCHANGED <<attemptCount, lease, attempt, evidence, manifestSound, told, req, clock>>

(* A step used up its retries. *)
ExhaustRetries ==
    /\ workflow \in {"prepare", "publish"}
    /\ workflow' = "recordFailure"
    /\ UNCHANGED <<jobRows, lease, attempt, evidence, manifestSound, told, req, clock>>

RecordPreparationFailure ==
    /\ workflow = "recordFailure"
    /\ MarkFailed("PREPARATION")
    /\ workflow' = "done"
    /\ UNCHANGED <<lease, attempt, evidence, manifestSound, told, req, clock>>

Tick ==
    /\ clock < MaxClock
    /\ clock' = clock + 1
    /\ UNCHANGED <<jobRows, lease, attempt, evidence, manifestSound, workflow, told, req>>

-----------------------------------------------------------------------------
LeaseStep(h) ==
    \/ \E d \in LeaseMin..LeaseMax : StartLease(h, d)
    \/ RejectManifest(h)
    \/ CommitLease(h)
    \/ LoseLease(h)

AgentStep(h) ==
    \/ \E t \in Tokens : StartHeartbeat(h, t)
    \/ CommitHeartbeat(h)
    \/ \E t \in Tokens, k \in Items \cup {Manifest} : StartAcknowledge(h, t, k)
    \/ \E t \in Tokens, c \in Codes : StartFail(h, t, c)
    \/ CommitItem(h)
    \/ CommitManifest(h)
    \/ CommitFail(h)

RecordStep ==
    \E t \in Tokens :
        \/ \E k \in Keys : Refuse(t, k)
        \/ \E k \in Codes \cup {Manifest} : Replay(t, k)

WorkflowStep ==
    \/ CreateWorkflow
    \/ PrepareJob
    \/ PublishJob
    \/ ExhaustRetries
    \/ RecordPreparationFailure

Next ==
    \/ \E h \in Handlers : LeaseStep(h) \/ AgentStep(h) \/ Drop(h)
    \/ RecordStep
    \/ WorkflowStep
    \/ Tick

Spec == Init /\ [][Next]_vars

-----------------------------------------------------------------------------
(* Type correctness of the rows, of the requests in flight and of the agents' *)
(* answers.                                                                   *)
Requests == {Idle} \cup LeaseRequest \cup Heartbeat \cup Acknowledgement \cup Failure

TypeOK ==
    /\ status \in Statuses
    /\ attemptCount \in 0..MaxLeases
    /\ lastError \in JobErrors \cup Codes
    /\ lease \in [token : 0..MaxLeases, heartbeat : Nat, expires : Nat]
    /\ attempt \in [Tokens -> {"none", "running", "verified", "failed"}]
    /\ verifiedItems \subseteq Items
    /\ acks \in [Keys -> 0..MaxLeases]
    /\ idem \in [Keys -> {"none", "running", "completed"}]
    /\ manifestSound \in BOOLEAN
    /\ workflow \in {"create", "absent", "prepare", "publish", "recordFailure", "done"}
    /\ told \in [Tokens -> {"nothing", "recorded", "verified"}]
    /\ req \in [Handlers -> Requests]
    /\ clock \in 0..MaxClock

(* A lease row always belongs to the newest attempt, and that attempt is      *)
(* still open: whoever holds an older token holds nothing (authorizeLease     *)
(* joins the lease with attempt_number = attempt_count).                      *)
LeaseBacked ==
    lease # NoLease => /\ lease.token = attemptCount
                       /\ attemptCount > 0
                       /\ attempt[attemptCount] = "running"

(* A manifest item is marked verified exactly when an acknowledgement row for *)
(* it exists (both come from the batch of acknowledgeItem).                   *)
ItemEvidence == \A i \in Items : i \in verifiedItems <=> acks[i] # 0

(* A verified job has its complete evidence: every item verified, a manifest  *)
(* acknowledgement, the newest attempt verified, and no lease left that could *)
(* authorize a further request (acknowledgeManifest).                         *)
VerifiedIsComplete ==
    status = "verified" => /\ verifiedItems = Items
                           /\ acks[Manifest] # 0
                           /\ attemptCount > 0
                           /\ attempt[attemptCount] = "verified"
                           /\ lease = NoLease

(* A completed record never replays a success that did not happen: an item    *)
(* answered from its record is verified, and the manifest's record is         *)
(* completed only once every item was (beginIdempotency's replay).            *)
ReplayIsHonest ==
    /\ \A i \in Items : idem[i] = "completed" => i \in verifiedItems
    /\ idem[Manifest] = "completed" => verifiedItems = Items /\ acks[Manifest] # 0

(* At most one attempt of the job is running: a reclaimed job does not leave  *)
(* the attempt of the agent it was taken from open (leaseNextJob).            *)
OneRunningAttempt ==
    \A m, n \in Tokens : attempt[m] = "running" /\ attempt[n] = "running" => m = n

(* A running or verifying job has a lease row, so that once the row expires   *)
(* the job is a candidate again: leaseNextJob finds it only through that row. *)
ActiveIsReclaimable == status \in Active => lease # NoLease

(* Attempt history is append-only: a finished attempt keeps its outcome, the  *)
(* count never goes back and evidence is never withdrawn.                     *)
HistoryStep ==
    /\ attemptCount' >= attemptCount
    /\ \A n \in Tokens : attempt[n] \in {"failed", "verified"} => attempt'[n] = attempt[n]
    /\ verifiedItems \subseteq verifiedItems'
    /\ \A k \in Keys : acks[k] # 0 => acks'[k] = acks[k]
AppendOnlyHistory == [][HistoryStep]_vars

(* Evidence is fenced: an acknowledgement row is only ever recorded under the *)
(* newest attempt, while that attempt is running.  A request delayed past the *)
(* loss of its lease leaves no row, whatever it read before.                  *)
FencedStep ==
    \A k \in Keys :
        acks[k] = 0 /\ acks'[k] # 0 =>
            acks'[k] = attemptCount /\ attempt[acks'[k]] = "running"
FencedEvidence == [][FencedStep]_vars

(* The lease row, the attempt count and the acknowledgement rows are a fenced  *)
(* lock with a ledger.                                                        *)
Lock == INSTANCE FencedLock WITH
            MaxEpoch <- MaxLeases, epoch <- attemptCount, holder <- lease.token, ledger <- acks
ImplementsFencedLock == Lock!Spec

=============================================================================
