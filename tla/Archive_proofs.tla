--------------------------- MODULE Archive_proofs ---------------------------
(***************************************************************************)
(* Theorems about the archive: ArchiveJobs for every set of items, codes   *)
(* and handlers and every bound, with late heartbeats or without, and      *)
(* NasInstall for every manifest, disk and one agent process.              *)
(***************************************************************************)
EXTENDS ArchiveJobs, NasInstall, TLAPS

(* A request in flight names the attempt its token was created with, one    *)
(* that exists already.                                                     *)
RequestsBacked ==
    \A h \in Handlers :
        req[h].op \in {"acknowledge", "fail"} =>
            req[h].attempt = req[h].token /\ req[h].token <= attemptCount

(* No attempt exists beyond the count. *)
UnusedAttempts == \A n \in Tokens : n > attemptCount => attempt[n] = "none"

(* The inductive invariant: what the theorems state, and the two facts above *)
(* that tie a batch to the state its handler read.                           *)
IndInv ==
    /\ TypeOK
    /\ LeaseBacked
    /\ ItemEvidence
    /\ VerifiedIsComplete
    /\ ReplayIsHonest
    /\ RequestsBacked
    /\ UnusedAttempts

-----------------------------------------------------------------------------
(* Requests of different kinds differ in their op. *)
LEMMA RequestKinds ==
    ASSUME NEW r \in Requests
    PROVE  /\ r.op = "lease" => r \in LeaseRequest
           /\ r.op = "heartbeat" => r \in Heartbeat
           /\ r.op = "acknowledge" => r \in Acknowledgement
           /\ r.op = "fail" => r \in Failure
  BY DEF Requests, Idle, LeaseRequest, Heartbeat, Acknowledgement, Failure

(* Replying and awaiting keep the table of requests well typed. *)
LEMMA ReplyType ==
    ASSUME req \in [Handlers -> Requests], NEW h \in Handlers, Reply(h)
    PROVE  req' \in [Handlers -> Requests]
  BY DEF Reply, Requests

LEMMA AwaitType ==
    ASSUME req \in [Handlers -> Requests], NEW h \in Handlers,
           NEW r \in Requests, Await(h, r)
    PROVE  req' \in [Handlers -> Requests]
  BY DEF Await

(* The durations and statuses computed by the handlers are legal ones. *)
LEMMA ClampType ==
    ASSUME NEW d \in Int
    PROVE  Clamp(d) \in LeaseMin..LeaseMax
  BY BoundsAssumption DEF Clamp

LEMMA NextStatusType ==
    ASSUME NEW c \in Codes
    PROVE  NextStatus(c) \in {"requested", "failed"}
  BY DEF NextStatus

LEMMA TypeInit == Init => TypeOK
  BY BoundsAssumption DEF Init, TypeOK, Statuses, JobErrors, NoLease, Tokens, Requests

(* Every step keeps the types. *)
LEMMA TypeStep == TypeOK /\ [Next]_vars => TypeOK'
<1> SUFFICES ASSUME TypeOK, [Next]_vars PROVE TypeOK'
  OBVIOUS
<1> USE BoundsAssumption, KeysAssumption
    DEF TypeOK, jobRows, evidence, Tokens, Statuses, JobErrors, NoLease, Keys
<1>1. ASSUME NEW h \in Handlers, LeaseStep(h) PROVE TypeOK'
  <2>1. ASSUME NEW d \in LeaseMin..LeaseMax, StartLease(h, d) PROVE TypeOK'
    <3> DEFINE r == [op |-> "lease", now |-> clock, duration |-> d]
    <3>1. r \in Requests
      BY DEF Requests, LeaseRequest
    <3> QED
      BY <2>1, <3>1, AwaitType DEF StartLease
  <2>2. CASE RejectManifest(h)
    BY <2>2, ReplyType DEF RejectManifest, MarkFailed
  <2>3. CASE CommitLease(h)
    <3>1. req[h] \in LeaseRequest
      BY <2>3, RequestKinds DEF CommitLease
    <3>2. Reclaim \in [Tokens -> {"none", "running", "verified", "failed"}]
      BY DEF Reclaim
    <3> QED
      BY <2>3, <3>1, <3>2, ReplyType DEF CommitLease, LeaseRequest
  <2>4. CASE LoseLease(h)
    BY <2>4, ReplyType DEF LoseLease
  <2> QED
    BY <1>1, <2>1, <2>2, <2>3, <2>4 DEF LeaseStep
<1>2. ASSUME NEW h \in Handlers, AgentStep(h) PROVE TypeOK'
  <2>1. ASSUME NEW t \in Tokens, StartHeartbeat(h, t) PROVE TypeOK'
    <3> DEFINE r == [op |-> "heartbeat", token |-> t, now |-> clock,
                     duration |-> Clamp(lease.expires - lease.heartbeat)]
    <3>1. r \in Requests
      BY ClampType DEF Requests, Heartbeat
    <3> QED
      BY <2>1, <3>1, AwaitType DEF StartHeartbeat
  <2>2. CASE CommitHeartbeat(h)
    <3>1. req[h] \in Heartbeat
      BY <2>2, RequestKinds DEF CommitHeartbeat
    <3>2. req[h].now \in Nat /\ req[h].duration \in Nat
      BY <3>1 DEF Heartbeat
    <3>3. lease' \in [token : 0..MaxLeases, heartbeat : Nat, expires : Nat]
      <4>1. CASE Live(req[h])
        <5>1. lease' = [token |-> lease.token, heartbeat |-> req[h].now,
                        expires |-> req[h].now + req[h].duration]
          BY <2>2, <4>1 DEF CommitHeartbeat
        <5> QED
          BY <3>2, <5>1
      <4>2. CASE ~Live(req[h])
        BY <2>2, <4>2 DEF CommitHeartbeat
      <4> QED
        BY <4>1, <4>2
    <3> QED
      BY <2>2, <3>3, ReplyType DEF CommitHeartbeat
  <2>3. ASSUME NEW t \in Tokens, NEW k \in Items \cup {Manifest}, StartAcknowledge(h, t, k)
        PROVE TypeOK'
    <3> DEFINE r == [op |-> "acknowledge", key |-> k, token |-> t,
                     attempt |-> attemptCount, now |-> clock]
    <3>1. attemptCount \in Tokens
      BY <2>3 DEF StartAcknowledge, Holding
    <3>2. r \in Requests
      BY <3>1 DEF Requests, Acknowledgement
    <3> QED
      BY <2>3, <3>2, AwaitType DEF StartAcknowledge, Begin
  <2>4. ASSUME NEW t \in Tokens, NEW c \in Codes, StartFail(h, t, c) PROVE TypeOK'
    <3> DEFINE r == [op |-> "fail", key |-> c, token |-> t, attempt |-> attemptCount,
                     now |-> clock, next |-> NextStatus(c)]
    <3>1. attemptCount \in Tokens
      BY <2>4 DEF StartFail, Holding
    <3>2. r \in Requests
      BY <3>1, NextStatusType DEF Requests, Failure
    <3> QED
      BY <2>4, <3>2, AwaitType DEF StartFail, Begin
  <2>5. CASE CommitItem(h)
    <3>1. req[h] \in Acknowledgement
      BY <2>5, RequestKinds DEF CommitItem
    <3> QED
      BY <2>5, <3>1, ReplyType DEF CommitItem, Acknowledgement, AckRows, Complete
  <2>6. CASE CommitManifest(h)
    <3>1. req[h] \in Acknowledgement
      BY <2>6, RequestKinds DEF CommitManifest
    <3> QED
      BY <2>6, <3>1, ReplyType
      DEF CommitManifest, Acknowledgement, AckRows, Complete, EndAttempt, Release, Answer
  <2>7. CASE CommitFail(h)
    <3>1. req[h] \in Failure
      BY <2>7, RequestKinds DEF CommitFail
    <3> QED
      BY <2>7, <3>1, ReplyType
      DEF CommitFail, Failure, AckRows, Complete, EndAttempt, Release, Answer
  <2> QED
    BY <1>2, <2>1, <2>2, <2>3, <2>4, <2>5, <2>6, <2>7 DEF AgentStep
<1>3. ASSUME NEW h \in Handlers, Drop(h) PROVE TypeOK'
  BY <1>3, ReplyType DEF Drop
<1>4. CASE RecordStep
  <2>1. ASSUME NEW t \in Tokens, NEW k \in Keys, Refuse(t, k) PROVE TypeOK'
    BY <2>1 DEF Refuse, Begin
  <2>2. ASSUME NEW t \in Tokens, NEW k \in Codes \cup {Manifest}, Replay(t, k) PROVE TypeOK'
    BY <2>2 DEF Replay
  <2> QED BY <1>4, <2>1, <2>2 DEF RecordStep
<1>5. CASE WorkflowStep
  BY <1>5 DEF WorkflowStep, CreateWorkflow, PrepareJob, PublishJob, ExhaustRetries,
     RecordPreparationFailure, MarkFailed
<1>6. CASE Tick
  BY <1>6 DEF Tick
<1>7. CASE UNCHANGED vars
  BY <1>7 DEF vars
<1> QED
  BY <1>1, <1>2, <1>3, <1>4, <1>5, <1>6, <1>7 DEF Next

(* Every reachable state is well typed. *)
THEOREM TypeCorrect == Spec => []TypeOK
  BY TypeInit, TypeStep, PTL DEF Spec

-----------------------------------------------------------------------------
(* The invariant says nothing of the clock, the workflow, the agents' answers *)
(* or the last error: a step that only leaves the rows alone keeps it, and so *)
(* does one that forgets a request or begins an idempotency record.           *)
LEMMA RowsUnchanged ==
    ASSUME IndInv, TypeOK',
           UNCHANGED <<attemptCount, lease, attempt, verifiedItems, acks>>,
           status' = status \/ status' # "verified",
           \A k \in Keys : idem'[k] = "completed" => idem[k] = "completed",
           \A h \in Handlers :
               \/ req'[h] = req[h]
               \/ req'[h].op \in {"acknowledge", "fail"} =>
                      req'[h].attempt = req'[h].token /\ req'[h].token <= attemptCount
    PROVE  IndInv'
<1> USE DEF IndInv
<1>1. LeaseBacked' /\ UnusedAttempts'
  BY DEF LeaseBacked, UnusedAttempts
<1>2. ItemEvidence' /\ ReplayIsHonest'
  BY DEF ItemEvidence, ReplayIsHonest, Keys
<1>3. VerifiedIsComplete'
  BY DEF VerifiedIsComplete
<1>4. RequestsBacked'
  BY DEF RequestsBacked
<1> QED
  BY <1>1, <1>2, <1>3, <1>4

(* Forgetting a request adds no obligation. *)
LEMMA ReplyBacked ==
    ASSUME TypeOK, RequestsBacked, attemptCount' \in Nat, attemptCount' >= attemptCount,
           NEW h \in Handlers, Reply(h)
    PROVE  /\ RequestsBacked'
           /\ \A g \in Handlers : req'[g] = req[g] \/ req'[g].op = "idle"
<1>1. \A g \in Handlers : req'[g] = IF g = h THEN Idle ELSE req[g]
  BY DEF Reply, TypeOK
<1>2. \A g \in Handlers : req[g] \in Requests
  BY DEF TypeOK
<1>3. \A g \in Handlers : req[g].op \in {"acknowledge", "fail"} => req[g].token \in Nat
  BY <1>2, RequestKinds DEF Acknowledgement, Failure, Tokens
<1> QED
  BY <1>1, <1>3, BoundsAssumption DEF RequestsBacked, Idle, TypeOK

(* A live request holds the newest attempt, which is running. *)
LEMMA LiveIsNewest ==
    ASSUME IndInv, NEW h \in Handlers, req[h].op \in {"acknowledge", "fail"}, Live(req[h])
    PROVE  /\ req[h].token = attemptCount
           /\ req[h].attempt = attemptCount
           /\ lease.token = attemptCount
           /\ attempt[attemptCount] = "running"
           /\ attemptCount \in Tokens
           /\ status # "verified"
<1>1. lease # NoLease /\ lease.token = req[h].token
  BY DEF Live
<1>2. attemptCount > 0 /\ lease.token = attemptCount /\ attempt[attemptCount] = "running"
  BY <1>1 DEF IndInv, LeaseBacked
<1>3. req[h].attempt = req[h].token
  BY DEF IndInv, RequestsBacked
<1>4. attemptCount \in Tokens
  BY <1>2, BoundsAssumption DEF IndInv, TypeOK, Tokens
<1>5. status # "verified"
  BY <1>1 DEF IndInv, VerifiedIsComplete
<1> QED
  BY <1>1, <1>2, <1>3, <1>4, <1>5

-----------------------------------------------------------------------------
(* The initial state satisfies the invariant. *)
LEMMA IndInit == Init => IndInv
<1> SUFFICES ASSUME Init PROVE IndInv
  OBVIOUS
<1>1. TypeOK
  BY TypeInit
<1>2. ItemEvidence /\ ReplayIsHonest
  BY DEF Init, ItemEvidence, ReplayIsHonest, Keys
<1>3. RequestsBacked
  BY DEF Init, RequestsBacked, Idle
<1> QED
  BY <1>1, <1>2, <1>3
  DEF Init, IndInv, LeaseBacked, VerifiedIsComplete, UnusedAttempts

(* A granted lease is backed by the attempt created with it. *)
LEMMA CommitLeaseInv ==
    ASSUME IndInv, TypeOK', NEW h \in Handlers, CommitLease(h)
    PROVE  IndInv'
<1> USE BoundsAssumption DEF IndInv
<1> DEFINE n == attemptCount + 1
<1>1. n \in Tokens /\ n \in Nat /\ attemptCount \in Nat
  BY DEF CommitLease, TypeOK, Tokens
<1>2. /\ attemptCount' = n
      /\ lease'.token = n
      /\ status' = "running"
      /\ UNCHANGED <<verifiedItems, acks, idem>>
  BY DEF CommitLease, evidence
<1>3. /\ attempt'[n] = "running"
      /\ \A m \in Tokens : m > n => attempt'[m] = attempt[m] \/ attempt[m] = "running"
  BY <1>1 DEF CommitLease, Reclaim
<1>4. LeaseBacked'
  BY <1>1, <1>2, <1>3 DEF LeaseBacked
<1>5. UnusedAttempts'
  BY <1>1, <1>2, <1>3 DEF UnusedAttempts, Tokens
<1>6. ItemEvidence' /\ ReplayIsHonest'
  BY <1>2 DEF ItemEvidence, ReplayIsHonest
<1>7. VerifiedIsComplete'
  BY <1>2 DEF VerifiedIsComplete
<1>8. RequestsBacked'
  BY <1>1, <1>2, ReplyBacked DEF CommitLease
<1> QED
  BY <1>4, <1>5, <1>6, <1>7, <1>8

(* A heartbeat touches only the times of a lease that is still there. *)
LEMMA CommitHeartbeatInv ==
    ASSUME IndInv, TypeOK', NEW h \in Handlers, CommitHeartbeat(h)
    PROVE  IndInv'
<1> USE DEF IndInv
<1>1. /\ UNCHANGED <<status, attemptCount, attempt, verifiedItems, acks, idem>>
      /\ Reply(h)
  BY DEF CommitHeartbeat, jobRows, evidence
<1>2. CASE ~Live(req[h])
  <2>1. UNCHANGED lease
    BY <1>2 DEF CommitHeartbeat
  <2> QED
    BY <1>1, <2>1, ReplyBacked, RowsUnchanged DEF TypeOK
<1>3. CASE Live(req[h])
  <2>1. lease # NoLease /\ lease'.token = lease.token
    BY <1>3 DEF CommitHeartbeat, Live, TypeOK
  <2>2. LeaseBacked' /\ VerifiedIsComplete'
    BY <1>1, <2>1 DEF LeaseBacked, VerifiedIsComplete
  <2>3. RequestsBacked'
    BY <1>1, ReplyBacked DEF TypeOK
  <2> QED
    BY <1>1, <2>2, <2>3 DEF ItemEvidence, ReplayIsHonest, UnusedAttempts
<1> QED
  BY <1>2, <1>3

(* An acknowledged item gets its row and its state together, or neither. *)
LEMMA CommitItemInv ==
    ASSUME IndInv, TypeOK', NEW h \in Handlers, CommitItem(h)
    PROVE  IndInv'
<1> USE KeysAssumption DEF IndInv
<1> DEFINE r == req[h]
<1>1. r \in Acknowledgement /\ r.key \in Items
  BY RequestKinds DEF CommitItem, TypeOK
<1>2. UNCHANGED <<attemptCount, lease, attempt>> /\ Reply(h)
  BY DEF CommitItem
<1>3. LeaseBacked' /\ UnusedAttempts'
  BY <1>2 DEF LeaseBacked, UnusedAttempts
<1>4. RequestsBacked'
  BY <1>2, ReplyBacked DEF TypeOK
<1>5. /\ acks' = AckRows(r)
      /\ verifiedItems' = IF Live(r) THEN verifiedItems \cup {r.key} ELSE verifiedItems
      /\ idem' = IF acks'[r.key] # 0 THEN [idem EXCEPT ![r.key] = "completed"] ELSE idem
  BY DEF CommitItem, Complete
<1>6. r.attempt # 0
  BY <1>1, BoundsAssumption DEF Acknowledgement, Tokens
<1>7. \A k \in Keys : acks'[k] = IF k = r.key /\ Live(r) /\ acks[k] = 0 THEN r.attempt
                                 ELSE acks[k]
  BY <1>1, <1>5 DEF AckRows, TypeOK, Keys
<1>8. ItemEvidence'
  BY <1>1, <1>5, <1>6, <1>7 DEF ItemEvidence, Keys
<1>9. ReplayIsHonest'
  <2>1. \A k \in Keys : idem'[k] = "completed" =>
            idem[k] = "completed" \/ (k = r.key /\ acks'[k] # 0)
    BY <1>1, <1>5 DEF TypeOK, Keys
  <2>2. verifiedItems \subseteq verifiedItems' /\ verifiedItems' \subseteq Items
    BY <1>1, <1>5 DEF TypeOK
  <2> QED
    BY <1>1, <1>7, <1>8, <2>1, <2>2 DEF ReplayIsHonest, ItemEvidence, Keys
<1>10. VerifiedIsComplete'
  <2>1. status' = "verified" => status = "verified"
    BY DEF CommitItem
  <2>2. status = "verified" => ~Live(r)
    BY DEF VerifiedIsComplete, Live
  <2> QED
    BY <1>2, <1>5, <2>1, <2>2 DEF VerifiedIsComplete, AckRows
<1> QED
  BY <1>3, <1>4, <1>8, <1>9, <1>10

(* Releasing a lease leaves no lease, or the lease of another token. *)
LEMMA ReleaseBacked ==
    ASSUME TypeOK, NEW t \in Tokens, Release(t)
    PROVE  lease' = NoLease \/ (lease' = lease /\ lease.token # t)
  BY DEF Release

(* The manifest's acknowledgement verifies job and attempt together, and takes *)
(* the lease away.                                                             *)
LEMMA CommitManifestInv ==
    ASSUME IndInv, TypeOK', NEW h \in Handlers, CommitManifest(h)
    PROVE  IndInv'
<1> USE KeysAssumption DEF IndInv
<1> DEFINE r == req[h]
<1>1. r \in Acknowledgement /\ r.op = "acknowledge" /\ r.key = Manifest
  BY RequestKinds DEF CommitManifest, TypeOK
<1>2. UNCHANGED <<attemptCount, verifiedItems>> /\ Reply(h)
  BY DEF CommitManifest
<1>3. RequestsBacked'
  BY <1>2, ReplyBacked DEF TypeOK
<1>4. r.attempt # 0 /\ r.token \in Tokens
  BY <1>1, BoundsAssumption DEF Acknowledgement, Tokens
<1>5. lease' = NoLease \/ (lease' = lease /\ lease.token # r.token)
  BY <1>4, ReleaseBacked DEF CommitManifest
<1>6. \A k \in Keys : acks'[k] = IF k = Manifest /\ Live(r) /\ acks[k] = 0 THEN r.attempt
                                 ELSE acks[k]
  BY <1>1 DEF CommitManifest, AckRows, TypeOK, Keys
<1>7. /\ attempt' = IF Live(r) THEN [attempt EXCEPT ![attemptCount] = "verified"] ELSE attempt
      /\ Live(r) => attemptCount \in Tokens /\ lease' = NoLease
  <2>1. Live(r) => /\ r.attempt = attemptCount
                   /\ attempt[attemptCount] = "running"
                   /\ attemptCount \in Tokens
                   /\ lease.token = r.token
    BY <1>1, LiveIsNewest
  <2> QED
    BY <1>5, <2>1 DEF CommitManifest, EndAttempt
<1>8. UnusedAttempts'
  BY <1>2, <1>7 DEF UnusedAttempts, TypeOK, Tokens
<1>9. LeaseBacked'
  BY <1>2, <1>5, <1>7 DEF LeaseBacked
<1>10. ItemEvidence'
  BY <1>2, <1>6 DEF ItemEvidence, Keys
<1>11. VerifiedIsComplete'
  <2>1. CASE status = "verified"
    <3>1. ~Live(r)
      BY <2>1 DEF VerifiedIsComplete, Live
    <3>2. \A k \in Keys : acks'[k] = acks[k]
      BY <1>6, <3>1
    <3> QED
      BY <1>2, <1>5, <1>7, <2>1, <3>1, <3>2 DEF VerifiedIsComplete, Keys
  <2>2. CASE status # "verified" /\ status' = "verified"
    <3>1. Live(r) /\ verifiedItems = Items
      BY <2>2 DEF CommitManifest
    <3>2. attemptCount \in Tokens /\ attemptCount > 0
      BY <1>7, <3>1, BoundsAssumption DEF Tokens
    <3>3. attempt'[attemptCount] = "verified"
      BY <1>7, <3>1, <3>2 DEF TypeOK
    <3>4. acks'[Manifest] # 0
      BY <1>4, <1>6, <3>1 DEF Keys
    <3> QED
      BY <1>2, <1>7, <3>1, <3>2, <3>3, <3>4 DEF VerifiedIsComplete
  <2> QED
    BY <2>1, <2>2 DEF VerifiedIsComplete
<1>12. ReplayIsHonest'
  <2>1. \A k \in Keys : idem'[k] = "completed" =>
            idem[k] = "completed" \/ (k = Manifest /\ status' = "verified")
    BY DEF CommitManifest, Complete, TypeOK
  <2>2. acks[Manifest] # 0 => acks'[Manifest] # 0
    BY <1>6 DEF Keys
  <2> QED
    BY <1>2, <1>11, <2>1, <2>2 DEF ReplayIsHonest, VerifiedIsComplete, Keys
<1> QED
  BY <1>3, <1>8, <1>9, <1>10, <1>11, <1>12

(* A recorded failure ends the attempt and takes the lease away; it never makes *)
(* a job verified.                                                              *)
LEMMA CommitFailInv ==
    ASSUME IndInv, TypeOK', NEW h \in Handlers, CommitFail(h)
    PROVE  IndInv'
<1> USE KeysAssumption DEF IndInv
<1> DEFINE r == req[h]
<1>1. r \in Failure /\ r.op = "fail"
  BY RequestKinds DEF CommitFail, TypeOK
<1>2. UNCHANGED <<attemptCount, verifiedItems>> /\ Reply(h)
  BY DEF CommitFail
<1>3. RequestsBacked'
  BY <1>2, ReplyBacked DEF TypeOK
<1>4. r.token \in Tokens /\ r.key \in Codes /\ r.next # "verified"
  BY <1>1 DEF Failure
<1>5. lease' = NoLease \/ (lease' = lease /\ lease.token # r.token)
  BY <1>4, ReleaseBacked DEF CommitFail
<1>6. \A k \in Items \cup {Manifest} : acks'[k] = acks[k]
  BY <1>4 DEF CommitFail, AckRows, TypeOK, Keys
<1>7. /\ attempt' = IF Live(r) THEN [attempt EXCEPT ![attemptCount] = "failed"] ELSE attempt
      /\ Live(r) => attemptCount \in Tokens /\ lease' = NoLease /\ status # "verified"
  <2>1. Live(r) => /\ r.attempt = attemptCount
                   /\ attempt[attemptCount] = "running"
                   /\ attemptCount \in Tokens
                   /\ lease.token = r.token
                   /\ status # "verified"
    BY <1>1, LiveIsNewest
  <2> QED
    BY <1>5, <2>1 DEF CommitFail, EndAttempt
<1>8. UnusedAttempts'
  BY <1>2, <1>7 DEF UnusedAttempts, TypeOK, Tokens
<1>9. LeaseBacked'
  BY <1>2, <1>5, <1>7 DEF LeaseBacked
<1>10. ItemEvidence'
  BY <1>2, <1>6 DEF ItemEvidence
<1>11. VerifiedIsComplete'
  <2>1. status' = "verified" => status = "verified"
    BY <1>4 DEF CommitFail
  <2> QED
    BY <1>2, <1>5, <1>6, <1>7, <2>1 DEF VerifiedIsComplete
<1>12. ReplayIsHonest'
  <2>1. \A k \in Items \cup {Manifest} : idem'[k] = idem[k]
    BY <1>4 DEF CommitFail, Complete, TypeOK, Keys
  <2> QED
    BY <1>2, <1>6, <2>1 DEF ReplayIsHonest
<1> QED
  BY <1>3, <1>8, <1>9, <1>10, <1>11, <1>12

(* Every step keeps the invariant. *)
LEMMA IndStep == IndInv /\ [Next]_vars => IndInv'
<1> SUFFICES ASSUME IndInv, [Next]_vars PROVE IndInv'
  OBVIOUS
<1>1. TypeOK /\ TypeOK'
  BY TypeStep DEF IndInv
<1>2. ASSUME UNCHANGED <<attemptCount, lease, attempt, verifiedItems, acks, idem>>,
             status' = status \/ status' # "verified",
             NEW h \in Handlers, Reply(h)
      PROVE  IndInv'
  <2>1. \A g \in Handlers : req'[g] = req[g] \/ req'[g].op = "idle"
    BY <1>1, <1>2, ReplyBacked DEF IndInv, TypeOK
  <2> QED
    BY <1>1, <1>2, <2>1, RowsUnchanged
<1>3. ASSUME NEW h \in Handlers, LeaseStep(h) PROVE IndInv'
  <2>1. ASSUME NEW d \in LeaseMin..LeaseMax, StartLease(h, d) PROVE IndInv'
    <3>1. \A g \in Handlers : req'[g] = req[g] \/ req'[g].op = "lease"
      BY <1>1, <2>1 DEF StartLease, Await, TypeOK
    <3> QED
      BY <1>1, <2>1, <3>1, RowsUnchanged DEF StartLease, jobRows, evidence
  <2>2. CASE RejectManifest(h)
    BY <1>2, <2>2 DEF RejectManifest, MarkFailed, jobRows, evidence
  <2>3. CASE CommitLease(h)
    BY <1>1, <2>3, CommitLeaseInv
  <2>4. CASE LoseLease(h)
    BY <1>2, <2>4 DEF LoseLease, jobRows, evidence
  <2> QED
    BY <1>3, <2>1, <2>2, <2>3, <2>4 DEF LeaseStep
<1>4. ASSUME NEW h \in Handlers, AgentStep(h) PROVE IndInv'
  <2>1. ASSUME NEW t \in Tokens, StartHeartbeat(h, t) PROVE IndInv'
    <3>1. \A g \in Handlers : req'[g] = req[g] \/ req'[g].op = "heartbeat"
      BY <1>1, <2>1 DEF StartHeartbeat, Await, TypeOK
    <3> QED
      BY <1>1, <2>1, <3>1, RowsUnchanged DEF StartHeartbeat, jobRows, evidence
  <2>2. ASSUME NEW t \in Tokens, NEW k \in Items \cup {Manifest}, StartAcknowledge(h, t, k)
        PROVE IndInv'
    <3>1. t = attemptCount /\ t \in Nat
      BY <2>2, BoundsAssumption
      DEF StartAcknowledge, Authorized, IndInv, LeaseBacked, Tokens
    <3>2. \A g \in Handlers :
              req'[g] = req[g] \/ (req'[g].attempt = attemptCount /\ req'[g].token = t)
      BY <1>1, <2>2 DEF StartAcknowledge, Await, TypeOK
    <3>3. \A j \in Keys : idem'[j] = "completed" => idem[j] = "completed"
      BY <1>1, <2>2 DEF StartAcknowledge, Begin, TypeOK
    <3> QED
      BY <1>1, <2>2, <3>1, <3>2, <3>3, RowsUnchanged DEF StartAcknowledge, jobRows
  <2>3. ASSUME NEW t \in Tokens, NEW c \in Codes, StartFail(h, t, c) PROVE IndInv'
    <3>1. t = attemptCount /\ t \in Nat
      BY <2>3, BoundsAssumption DEF StartFail, Authorized, IndInv, LeaseBacked, Tokens
    <3>2. \A g \in Handlers :
              req'[g] = req[g] \/ (req'[g].attempt = attemptCount /\ req'[g].token = t)
      BY <1>1, <2>3 DEF StartFail, Await, TypeOK
    <3>3. \A j \in Keys : idem'[j] = "completed" => idem[j] = "completed"
      BY <1>1, <2>3 DEF StartFail, Begin, TypeOK
    <3> QED
      BY <1>1, <2>3, <3>1, <3>2, <3>3, RowsUnchanged DEF StartFail, jobRows
  <2>4. CASE CommitHeartbeat(h)
    BY <1>1, <2>4, CommitHeartbeatInv
  <2>5. CASE CommitItem(h)
    BY <1>1, <2>5, CommitItemInv
  <2>6. CASE CommitManifest(h)
    BY <1>1, <2>6, CommitManifestInv
  <2>7. CASE CommitFail(h)
    BY <1>1, <2>7, CommitFailInv
  <2> QED
    BY <1>4, <2>1, <2>2, <2>3, <2>4, <2>5, <2>6, <2>7 DEF AgentStep
<1>5. ASSUME NEW h \in Handlers, Drop(h) PROVE IndInv'
  BY <1>2, <1>5 DEF Drop, jobRows, evidence
<1>6. CASE RecordStep
  <2>1. UNCHANGED <<status, attemptCount, lease, attempt, verifiedItems, acks, req>>
    BY <1>6 DEF RecordStep, Refuse, Replay, jobRows, evidence
  <2>2. \A j \in Keys : idem'[j] = "completed" => idem[j] = "completed"
    BY <1>1, <1>6 DEF RecordStep, Refuse, Replay, Begin, evidence, TypeOK
  <2> QED
    BY <1>1, <2>1, <2>2, RowsUnchanged
<1>7. CASE WorkflowStep
  <2>1. /\ UNCHANGED <<attemptCount, lease, attempt, verifiedItems, acks, idem, req>>
        /\ status' = status \/ status' # "verified"
    BY <1>7 DEF WorkflowStep, CreateWorkflow, PrepareJob, PublishJob, ExhaustRetries,
       RecordPreparationFailure, MarkFailed, jobRows, evidence
  <2> QED
    BY <1>1, <2>1, RowsUnchanged
<1>8. CASE Tick
  BY <1>1, <1>8, RowsUnchanged DEF Tick, jobRows, evidence
<1>9. CASE UNCHANGED vars
  BY <1>1, <1>9, RowsUnchanged DEF vars
<1> QED
  BY <1>3, <1>4, <1>5, <1>6, <1>7, <1>8, <1>9 DEF Next

(* The invariant holds in every reachable state. *)
THEOREM Invariance == Spec => []IndInv
  BY IndInit, IndStep, PTL DEF Spec

(* A verified job has its complete evidence and no lease left: verified cannot *)
(* result from an incomplete manifest or from an agent that lost its lease.    *)
THEOREM VerifiedComplete == Spec => []VerifiedIsComplete
  BY Invariance, PTL DEF IndInv

(* The lease row always belongs to the newest attempt, which is running. *)
THEOREM LeaseIsBacked == Spec => []LeaseBacked
  BY Invariance, PTL DEF IndInv

(* An item is verified exactly when its acknowledgement row exists. *)
THEOREM EvidenceExists == Spec => []ItemEvidence
  BY Invariance, PTL DEF IndInv

(* A replayed record never reports an item, or a manifest, that was not verified. *)
THEOREM HonestReplay == Spec => []ReplayIsHonest
  BY Invariance, PTL DEF IndInv

-----------------------------------------------------------------------------
(* What a step may do to the ledger of acknowledgements and to the attempts. *)

(* AckRows adds at most the row of a live request, under the newest attempt. *)
LEMMA AckRowsStep ==
    ASSUME IndInv, NEW h \in Handlers, req[h].op \in {"acknowledge", "fail"},
           acks' = AckRows(req[h])
    PROVE  /\ req[h].key \in Keys
           /\ \/ acks' = acks
              \/ /\ lease # NoLease
                 /\ lease.token = attemptCount
                 /\ attempt[attemptCount] = "running"
                 /\ attemptCount \in Tokens
                 /\ acks[req[h].key] = 0
                 /\ acks' = [acks EXCEPT ![req[h].key] = attemptCount]
<1>1. req[h].key \in Keys
  BY RequestKinds DEF IndInv, TypeOK, Acknowledgement, Failure, Keys
<1>2. CASE Live(req[h]) /\ acks[req[h].key] = 0
  <2>1. lease # NoLease
    BY <1>2 DEF Live
  <2> QED
    BY <1>1, <1>2, <2>1, LiveIsNewest DEF AckRows
<1>3. CASE ~(Live(req[h]) /\ acks[req[h].key] = 0)
  BY <1>1, <1>3 DEF AckRows
<1> QED
  BY <1>2, <1>3

(* The only steps that touch the acknowledgement rows, the attempts or the *)
(* lease's token are the commits.                                          *)
LEMMA QuietStep ==
    ASSUME IndInv, [Next]_vars
    PROVE  \/ UNCHANGED <<attemptCount, attempt, verifiedItems, acks, lease>>
           \/ \E h \in Handlers : \/ CommitLease(h)
                                 \/ CommitHeartbeat(h)
                                 \/ CommitItem(h)
                                 \/ CommitManifest(h)
                                 \/ CommitFail(h)
<1> USE DEF jobRows, evidence
<1>1. ASSUME NEW h \in Handlers, LeaseStep(h), ~CommitLease(h)
      PROVE  UNCHANGED <<attemptCount, attempt, verifiedItems, acks, lease>>
  BY <1>1 DEF LeaseStep, StartLease, RejectManifest, MarkFailed, LoseLease
<1>2. ASSUME NEW h \in Handlers, AgentStep(h)
      PROVE  \/ UNCHANGED <<attemptCount, attempt, verifiedItems, acks, lease>>
             \/ CommitHeartbeat(h) \/ CommitItem(h) \/ CommitManifest(h) \/ CommitFail(h)
  BY <1>2 DEF AgentStep, StartHeartbeat, StartAcknowledge, StartFail
<1>3. ASSUME NEW h \in Handlers, Drop(h)
      PROVE  UNCHANGED <<attemptCount, attempt, verifiedItems, acks, lease>>
  BY <1>3 DEF Drop
<1>4. ASSUME RecordStep \/ WorkflowStep \/ Tick \/ UNCHANGED vars
      PROVE  UNCHANGED <<attemptCount, attempt, verifiedItems, acks, lease>>
  BY <1>4 DEF RecordStep, Refuse, Replay, WorkflowStep, CreateWorkflow, PrepareJob,
     PublishJob, ExhaustRetries, RecordPreparationFailure, MarkFailed, Tick, vars
<1> QED
  BY <1>1, <1>2, <1>3, <1>4 DEF Next

(* Evidence is only ever recorded under the newest attempt while it runs. *)
LEMMA FencedInv == ASSUME IndInv, [Next]_vars PROVE FencedStep
<1>1. CASE UNCHANGED acks
  BY <1>1 DEF FencedStep
<1>2. ASSUME NEW h \in Handlers, req[h].op \in {"acknowledge", "fail"}, acks' = AckRows(req[h])
      PROVE  FencedStep
  <2>1. CASE acks' = acks
    BY <2>1 DEF FencedStep
  <2>2. CASE acks' # acks
    <3>1. /\ attempt[attemptCount] = "running"
          /\ acks' = [acks EXCEPT ![req[h].key] = attemptCount]
      BY <1>2, <2>2, AckRowsStep
    <3> QED
      BY <3>1 DEF FencedStep, IndInv, TypeOK
  <2> QED
    BY <2>1, <2>2
<1> QED
  BY <1>1, <1>2, QuietStep
  DEF CommitLease, CommitHeartbeat, CommitItem, CommitManifest, CommitFail, evidence

(* A request that lost its lease leaves no row: see FencedEvidence. *)
THEOREM Fenced == Spec => FencedEvidence
<1>1. IndInv /\ [Next]_vars => [FencedStep]_vars
  BY FencedInv
<1> QED
  BY <1>1, Invariance, PTL DEF Spec, FencedEvidence

(* EndAttempt changes the outcome of a running attempt only. *)
LEMMA EndAttemptStep ==
    ASSUME NEW r, NEW o, EndAttempt(r, o), attempt \in [Tokens -> {"none", "running", "verified", "failed"}]
    PROVE  \A n \in Tokens : attempt[n] # "running" => attempt'[n] = attempt[n]
  BY DEF EndAttempt

LEMMA HistoryInv == ASSUME IndInv, [Next]_vars PROVE HistoryStep
<1> USE BoundsAssumption DEF IndInv
<1>0. attemptCount \in Nat
  BY DEF TypeOK
<1>1. CASE UNCHANGED <<attemptCount, attempt, verifiedItems, acks, lease>>
  BY <1>0, <1>1 DEF HistoryStep
<1>2. ASSUME NEW h \in Handlers, CommitLease(h) PROVE HistoryStep
  <2>1. attempt[attemptCount + 1] = "none"
    BY <1>0, <1>2 DEF CommitLease, UnusedAttempts, Tokens
  <2>2. \A m \in Tokens : m # attemptCount + 1 /\ attempt[m] # "running" => attempt'[m] = attempt[m]
    BY <1>2 DEF CommitLease, Reclaim
  <2> QED
    BY <1>0, <1>2, <2>1, <2>2 DEF CommitLease, evidence, HistoryStep
<1>3. ASSUME NEW h \in Handlers, CommitHeartbeat(h) PROVE HistoryStep
  BY <1>0, <1>3 DEF CommitHeartbeat, jobRows, evidence, HistoryStep
<1>4. ASSUME NEW h \in Handlers, req[h].op \in {"acknowledge", "fail"},
             UNCHANGED attemptCount,
             verifiedItems \subseteq verifiedItems',
             acks' = AckRows(req[h]),
             \A n \in Tokens : attempt[n] # "running" => attempt'[n] = attempt[n]
      PROVE  HistoryStep
  <2>1. \A k \in Keys : acks[k] # 0 => acks'[k] = acks[k]
    BY <1>4, AckRowsStep DEF TypeOK
  <2> QED
    BY <1>0, <1>4, <2>1 DEF HistoryStep
<1>5. ASSUME NEW h \in Handlers, CommitItem(h) PROVE HistoryStep
  BY <1>4, <1>5 DEF CommitItem
<1>6. ASSUME NEW h \in Handlers, CommitManifest(h) PROVE HistoryStep
  BY <1>4, <1>6, EndAttemptStep DEF CommitManifest, TypeOK
<1>7. ASSUME NEW h \in Handlers, CommitFail(h) PROVE HistoryStep
  BY <1>4, <1>7, EndAttemptStep DEF CommitFail, TypeOK
<1> QED
  BY <1>1, <1>2, <1>3, <1>5, <1>6, <1>7, QuietStep

(* Attempt history and evidence are append-only. *)
THEOREM HistoryIsAppendOnly == Spec => AppendOnlyHistory
<1>1. IndInv /\ [Next]_vars => [HistoryStep]_vars
  BY HistoryInv
<1> QED
  BY <1>1, Invariance, PTL DEF Spec, AppendOnlyHistory

-----------------------------------------------------------------------------
(* The protocol implements the fenced lock. *)

LEMMA LockInit == Init => Lock!Init
  BY DEF Init, NoLease, Lock!Init

(* A batch of an acknowledgement or a failure signs, releases, or stutters. *)
LEMMA SignStep ==
    ASSUME IndInv, NEW h \in Handlers, req[h].op \in {"acknowledge", "fail"},
           acks' = AckRows(req[h]), UNCHANGED attemptCount,
           lease' = lease \/ lease' = NoLease
    PROVE  [Lock!Next]_(Lock!vars)
<1> DEFINE k == req[h].key
<1>1. lease.token = 0 \/ lease # NoLease
  BY DEF NoLease
<1>2. lease # NoLease => lease.token # 0
  BY BoundsAssumption DEF IndInv, LeaseBacked, TypeOK
<1>3. lease'.token = lease.token \/ lease'.token = 0
  BY DEF NoLease
<1>4. CASE acks' = acks
  BY <1>1, <1>2, <1>3, <1>4 DEF Lock!Next, Lock!Release, Lock!vars
<1>5. CASE acks' # acks
  <2>1. /\ k \in Keys
        /\ lease # NoLease
        /\ lease.token = attemptCount
        /\ acks[k] = 0
        /\ acks' = [acks EXCEPT ![k] = attemptCount]
    BY <1>5, AckRowsStep
  <2>2. Lock!Sign(k)
    BY <1>2, <1>3, <2>1 DEF Lock!Sign
  <2> QED
    BY <2>1, <2>2 DEF Lock!Next
<1> QED
  BY <1>4, <1>5

LEMMA LockStep == ASSUME IndInv, [Next]_vars PROVE [Lock!Next]_(Lock!vars)
<1>1. CASE UNCHANGED <<attemptCount, attempt, verifiedItems, acks, lease>>
  BY <1>1 DEF Lock!vars
<1>2. ASSUME NEW h \in Handlers, CommitLease(h) PROVE Lock!Next
  BY <1>2 DEF CommitLease, evidence, Lock!Next, Lock!Grant
<1>3. ASSUME NEW h \in Handlers, CommitHeartbeat(h) PROVE UNCHANGED Lock!vars
  <2>1. lease'.token = lease.token
    BY <1>3 DEF CommitHeartbeat, IndInv, TypeOK
  <2> QED
    BY <1>3, <2>1 DEF CommitHeartbeat, jobRows, evidence, Lock!vars
<1>4. ASSUME NEW h \in Handlers, CommitItem(h) PROVE [Lock!Next]_(Lock!vars)
  BY <1>4, SignStep DEF CommitItem
<1>5. ASSUME NEW h \in Handlers, CommitManifest(h) PROVE [Lock!Next]_(Lock!vars)
  BY <1>5, SignStep DEF CommitManifest, Release
<1>6. ASSUME NEW h \in Handlers, CommitFail(h) PROVE [Lock!Next]_(Lock!vars)
  BY <1>6, SignStep DEF CommitFail, Release
<1> QED
  BY <1>1, <1>2, <1>3, <1>4, <1>5, <1>6, QuietStep

(* Whatever the interleaving of requests, delays and the workflow, leases and *)
(* acknowledgements behave as a fenced lock with a write-once ledger.         *)
THEOREM Refinement == Spec => ImplementsFencedLock
<1>1. Init => Lock!Init
  BY LockInit
<1>2. IndInv /\ [Next]_vars => [Lock!Next]_(Lock!vars)
  BY LockStep
<1> QED
  BY <1>1, <1>2, Invariance, PTL DEF Spec, ImplementsFencedLock, Lock!Spec

-----------------------------------------------------------------------------
(***************************************************************************)
(* When the agent never has two heartbeats of one lease running (the flag  *)
(* heartbeatInFlight of archive-agent.ts, and no heartbeat that outlives   *)
(* its caller), an active job always has its lease row and at most one     *)
(* attempt runs.  Without that premise TLC finds both violated.            *)
(***************************************************************************)

(* The lease was renewed in the past, for a legal duration. *)
LeaseTimes ==
    lease # NoLease => /\ lease.heartbeat <= clock
                       /\ lease.expires - lease.heartbeat \in LeaseMin..LeaseMax

(* Every request captured a time that has passed. *)
RequestTimes == \A h \in Handlers : req[h].op # "idle" => req[h].now <= clock

(* A heartbeat in flight is the only one of its token; if it holds the lease it *)
(* is not older than the last renewal and extends by the same duration.         *)
HeartbeatOrder ==
    \A h \in Handlers : req[h].op = "heartbeat" =>
        /\ req[h].token <= attemptCount
        /\ \A g \in Handlers :
               req[g].op = "heartbeat" /\ req[g].token = req[h].token => g = h
        /\ lease # NoLease /\ req[h].token = lease.token =>
               /\ lease.heartbeat <= req[h].now
               /\ req[h].duration = lease.expires - lease.heartbeat

(* An authorized request whose lease has not been replaced is still live. *)
AuthorizedStaysLive ==
    \A h \in Handlers :
        req[h].op \in {"acknowledge", "fail"} /\ lease # NoLease /\ req[h].token = lease.token =>
            req[h].now < lease.expires

(* The items a manifest acknowledgement counted stay verified. *)
ManifestWasComplete ==
    \A h \in Handlers :
        req[h].op = "acknowledge" /\ req[h].key = Manifest => verifiedItems = Items

(* The only attempt that runs is the one that holds the lease. *)
RunningIsLeased ==
    \A n \in Tokens : attempt[n] = "running" => lease # NoLease /\ n = attemptCount

OrderInv ==
    /\ LeaseTimes
    /\ RequestTimes
    /\ HeartbeatOrder
    /\ AuthorizedStaysLive
    /\ ManifestWasComplete
    /\ RunningIsLeased
    /\ ActiveIsReclaimable

LEMMA OrderInit == Init => OrderInv
  BY DEF Init, OrderInv, LeaseTimes, RequestTimes, HeartbeatOrder, AuthorizedStaysLive,
     ManifestWasComplete, RunningIsLeased, ActiveIsReclaimable, Idle, Active

(* What a handler keeps is typed. *)
LEMMA RequestTypes ==
    ASSUME TypeOK, NEW h \in Handlers
    PROVE  /\ req[h].op # "idle" => req[h].now \in Nat
           /\ req[h].op = "heartbeat" => req[h].duration \in Nat /\ req[h].token \in Nat
           /\ req[h].op \in {"acknowledge", "fail"} => req[h].token \in Nat \ {0}
<1>1. req[h] \in Requests
  BY DEF TypeOK
<1> QED
  BY <1>1, BoundsAssumption
  DEF Requests, Idle, LeaseRequest, Heartbeat, Acknowledgement, Failure, Tokens

(* A step that changes neither rows nor tokens and at most forgets requests. *)
LEMMA OrderUnchanged ==
    ASSUME IndInv, OrderInv,
           UNCHANGED <<attemptCount, lease, attempt, verifiedItems>>,
           status' = status \/ status' \notin Active,
           clock' \in Nat, clock' >= clock,
           \A h \in Handlers : req'[h] = req[h] \/ req'[h].op = "idle"
    PROVE  OrderInv'
<1> USE DEF OrderInv
<1>0. /\ clock \in Nat /\ lease.heartbeat \in Int
      /\ \A h \in Handlers : req[h].op # "idle" => req[h].now \in Int
  BY RequestTypes, BoundsAssumption DEF IndInv, TypeOK
<1>1. LeaseTimes'
  BY <1>0 DEF LeaseTimes
<1>2. RequestTimes'
  BY <1>0 DEF RequestTimes
<1>3. HeartbeatOrder'
  BY DEF HeartbeatOrder
<1>4. AuthorizedStaysLive' /\ ManifestWasComplete'
  BY DEF AuthorizedStaysLive, ManifestWasComplete
<1>5. RunningIsLeased' /\ ActiveIsReclaimable'
  BY DEF RunningIsLeased, ActiveIsReclaimable
<1> QED
  BY <1>1, <1>2, <1>3, <1>4, <1>5

(* Answering forgets one request. *)
LEMMA ReplyForgets ==
    ASSUME TypeOK, NEW h \in Handlers, Reply(h)
    PROVE  /\ req'[h] = Idle
           /\ \A g \in Handlers : g # h => req'[g] = req[g]
           /\ \A g \in Handlers : req'[g] = req[g] \/ req'[g].op = "idle"
  BY DEF Reply, TypeOK, Idle

(* A new lease is fresh: no request in flight can hold its token. *)
LEMMA CommitLeaseOrder ==
    ASSUME IndInv, OrderInv, NEW h \in Handlers, CommitLease(h)
    PROVE  OrderInv'
<1> USE DEF OrderInv
<1> DEFINE n == attemptCount + 1
<1>1. req[h] \in LeaseRequest
  BY RequestKinds DEF CommitLease, IndInv, TypeOK
<1>2. /\ req[h].now \in Nat /\ req[h].duration \in LeaseMin..LeaseMax
      /\ attemptCount \in Nat /\ clock \in Nat /\ n \in Tokens
  BY <1>1, BoundsAssumption DEF LeaseRequest, CommitLease, IndInv, TypeOK, Tokens
<1>3. /\ lease' = [token |-> n, heartbeat |-> req[h].now,
                  expires |-> req[h].now + req[h].duration]
      /\ attemptCount' = n
      /\ lease' # NoLease
      /\ UNCHANGED <<verifiedItems, clock>>
  BY <1>2 DEF CommitLease, evidence, NoLease
<1>4. /\ req'[h] = Idle
      /\ \A g \in Handlers : g # h => req'[g] = req[g]
      /\ \A g \in Handlers : req'[g] = req[g] \/ req'[g].op = "idle"
  BY ReplyForgets DEF CommitLease, IndInv
<1>5. \A g \in Handlers :
          req[g].op \in {"heartbeat", "acknowledge", "fail"} =>
              req[g].token \in Nat /\ req[g].token # n
  BY <1>2, RequestTypes DEF HeartbeatOrder, IndInv, RequestsBacked
<1>6. LeaseTimes'
  BY <1>1, <1>2, <1>3, BoundsAssumption DEF LeaseTimes, RequestTimes, CommitLease
<1>7. RequestTimes'
  BY <1>3, <1>4 DEF RequestTimes
<1>8. HeartbeatOrder'
  BY <1>2, <1>3, <1>4, <1>5 DEF HeartbeatOrder
<1>9. AuthorizedStaysLive' /\ ManifestWasComplete'
  BY <1>3, <1>4, <1>5 DEF AuthorizedStaysLive, ManifestWasComplete
<1>10. RunningIsLeased'
  <2>1. \A m \in Tokens : m # n => attempt'[m] # "running"
    BY <1>2 DEF CommitLease, Reclaim, RunningIsLeased
  <2> QED
    BY <1>3, <2>1 DEF RunningIsLeased
<1>11. ActiveIsReclaimable'
  BY <1>3 DEF ActiveIsReclaimable
<1> QED
  BY <1>6, <1>7, <1>8, <1>9, <1>10, <1>11

(* Heartbeats that do not overlap only ever move the expiry forward. *)
LEMMA CommitHeartbeatOrder ==
    ASSUME IndInv, OrderInv, NEW h \in Handlers, CommitHeartbeat(h)
    PROVE  OrderInv'
<1> USE DEF OrderInv
<1> DEFINE r == req[h]
<1>1. /\ UNCHANGED <<status, attemptCount, attempt, verifiedItems, clock>>
      /\ clock \in Nat
      /\ r.op = "heartbeat"
  BY BoundsAssumption DEF CommitHeartbeat, jobRows, evidence, IndInv, TypeOK
<1>2. /\ req'[h] = Idle
      /\ \A g \in Handlers : g # h => req'[g] = req[g]
      /\ \A g \in Handlers : req'[g] = req[g] \/ req'[g].op = "idle"
  BY ReplyForgets DEF CommitHeartbeat, IndInv
<1>3. CASE ~Live(r)
  BY <1>1, <1>2, <1>3, OrderUnchanged DEF CommitHeartbeat
<1>4. CASE Live(r)
  <2>1. lease # NoLease /\ lease.token = r.token
    BY <1>4 DEF Live
  <2>2. /\ lease.heartbeat <= r.now
        /\ r.duration = lease.expires - lease.heartbeat
        /\ r.now <= clock
        /\ r.now \in Nat /\ lease.heartbeat \in Nat /\ lease.expires \in Nat
    BY <1>1, <2>1, RequestTypes DEF HeartbeatOrder, RequestTimes, IndInv, TypeOK
  <2>3. /\ lease'.token = lease.token
        /\ lease'.heartbeat = r.now
        /\ lease'.expires = r.now + r.duration
    BY <1>4 DEF CommitHeartbeat, IndInv, TypeOK
  <2>4. lease'.expires >= lease.expires
        /\ lease'.expires - lease'.heartbeat = lease.expires - lease.heartbeat
    BY <2>2, <2>3
  <2>5. lease' # NoLease
    BY <2>1, <2>3, BoundsAssumption DEF NoLease, IndInv, LeaseBacked, TypeOK
  <2>6. LeaseTimes' /\ RequestTimes'
    BY <1>1, <1>2, <2>1, <2>2, <2>3, <2>4 DEF LeaseTimes, RequestTimes
  <2>7. HeartbeatOrder'
    <3>1. \A g \in Handlers :
              g # h /\ req[g].op = "heartbeat" => req[g].token # lease.token
      BY <1>1, <2>1 DEF HeartbeatOrder
    <3>2. req'[h].op # "heartbeat"
      BY <1>2 DEF Idle
    <3> QED
      BY <1>1, <1>2, <2>3, <3>1, <3>2 DEF HeartbeatOrder
  <2>8. AuthorizedStaysLive' /\ ManifestWasComplete'
    <3>1. \A g \in Handlers : req[g].op \in {"acknowledge", "fail"} => req[g].now \in Int
      BY RequestTypes DEF IndInv
    <3> QED
      BY <1>1, <1>2, <2>1, <2>2, <2>3, <2>4, <3>1
      DEF AuthorizedStaysLive, ManifestWasComplete
  <2>9. RunningIsLeased' /\ ActiveIsReclaimable'
    BY <1>1, <2>1, <2>5 DEF RunningIsLeased, ActiveIsReclaimable
  <2> QED
    BY <2>6, <2>7, <2>8, <2>9
<1> QED
  BY <1>3, <1>4

(* Verifying an item moves an active job only to another active state. *)
LEMMA CommitItemOrder ==
    ASSUME IndInv, OrderInv, NEW h \in Handlers, CommitItem(h)
    PROVE  OrderInv'
<1> USE DEF OrderInv
<1>1. /\ UNCHANGED <<attemptCount, lease, attempt, clock>>
      /\ clock \in Nat
      /\ status' \in Active => status \in Active
  BY BoundsAssumption DEF CommitItem, Active, IndInv, TypeOK
<1>2. \A g \in Handlers : req'[g] = req[g] \/ req'[g].op = "idle"
  BY ReplyForgets DEF CommitItem, IndInv
<1>3. verifiedItems = Items => verifiedItems' = Items
  BY DEF CommitItem
<1>4. LeaseTimes' /\ RequestTimes'
  BY <1>1, <1>2 DEF LeaseTimes, RequestTimes
<1>5. HeartbeatOrder'
  BY <1>1, <1>2 DEF HeartbeatOrder
<1>6. AuthorizedStaysLive' /\ ManifestWasComplete'
  BY <1>1, <1>2, <1>3 DEF AuthorizedStaysLive, ManifestWasComplete
<1>7. RunningIsLeased' /\ ActiveIsReclaimable'
  BY <1>1 DEF RunningIsLeased, ActiveIsReclaimable
<1> QED
  BY <1>4, <1>5, <1>6, <1>7

(* An acknowledgement or failure that releases the lease was still live, so the *)
(* attempt ends and the job leaves its active states in the same batch.         *)
LEMMA ReleaseOrder ==
    ASSUME IndInv, OrderInv, NEW h \in Handlers,
           req[h].op \in {"acknowledge", "fail"}, NEW o \in {"failed", "verified"},
           EndAttempt(req[h], o), Release(req[h].token), Reply(h),
           UNCHANGED <<attemptCount, verifiedItems, clock>>,
           Live(req[h]) => status' \notin Active,
           ~Live(req[h]) => status' = status
    PROVE  OrderInv'
<1> USE DEF OrderInv
<1> DEFINE r == req[h]
<1>1. r.token \in Nat \ {0}
  BY RequestTypes DEF IndInv
<1>2. \A g \in Handlers : req'[g] = req[g] \/ req'[g].op = "idle"
  BY ReplyForgets DEF IndInv
<1>3. clock \in Nat
  BY BoundsAssumption DEF IndInv, TypeOK
<1>4. CASE Live(r)
  <2>1. /\ r.attempt = attemptCount
        /\ attempt[attemptCount] = "running"
        /\ attemptCount \in Tokens
        /\ lease.token = r.token
    BY <1>4, LiveIsNewest
  <2>2. lease' = NoLease /\ attempt' = [attempt EXCEPT ![attemptCount] = o]
    BY <1>4, <2>1 DEF Release, EndAttempt
  <2>3. \A n \in Tokens : attempt'[n] # "running"
    BY <2>1, <2>2 DEF RunningIsLeased, IndInv, TypeOK
  <2>4. LeaseTimes' /\ RequestTimes'
    BY <1>2, <2>2 DEF LeaseTimes, RequestTimes
  <2>5. HeartbeatOrder'
    BY <1>2, <2>2 DEF HeartbeatOrder
  <2>6. AuthorizedStaysLive' /\ ManifestWasComplete'
    BY <1>2, <2>2 DEF AuthorizedStaysLive, ManifestWasComplete
  <2>7. RunningIsLeased' /\ ActiveIsReclaimable'
    BY <1>4, <2>3 DEF RunningIsLeased, ActiveIsReclaimable
  <2> QED
    BY <2>4, <2>5, <2>6, <2>7
<1>5. CASE ~Live(r)
  <2>1. lease = NoLease \/ lease.token # r.token
    BY <1>5, RequestTypes DEF AuthorizedStaysLive, Live, IndInv, TypeOK
  <2>2. UNCHANGED <<lease, attempt>>
    BY <1>1, <1>5, <2>1 DEF Release, EndAttempt, NoLease
  <2> QED
    BY <1>2, <1>3, <1>5, <2>2, OrderUnchanged
<1> QED
  BY <1>4, <1>5

(* A new request captured the present clock; it starts under the lease it read. *)
LEMMA AwaitOrder ==
    ASSUME IndInv, OrderInv, NEW h \in Handlers, NEW r, Await(h, r),
           UNCHANGED <<status, attemptCount, lease, attempt, verifiedItems, clock>>,
           r.now = clock,
           r.op = "heartbeat" =>
               /\ lease # NoLease /\ lease.token = r.token
               /\ r.duration = lease.expires - lease.heartbeat
               /\ \A g \in Handlers : req[g].op = "heartbeat" => req[g].token # r.token,
           r.op \in {"acknowledge", "fail"} => lease.expires > clock,
           r.op = "acknowledge" /\ r.key = Manifest => verifiedItems = Items
    PROVE  OrderInv'
<1> USE DEF OrderInv
<1>1. \A g \in Handlers : req'[g] = IF g = h THEN r ELSE req[g]
  BY DEF Await, IndInv, TypeOK
<1>2. clock \in Nat /\ attemptCount \in Nat /\ lease.heartbeat \in Nat
  BY BoundsAssumption DEF IndInv, TypeOK
<1>3. LeaseTimes' /\ RequestTimes'
  BY <1>1, <1>2 DEF LeaseTimes, RequestTimes
<1>4. HeartbeatOrder'
  <2>1. lease # NoLease => lease.token = attemptCount /\ lease.heartbeat <= clock
    BY DEF IndInv, LeaseBacked, LeaseTimes
  <2> QED
    BY <1>1, <1>2, <2>1 DEF HeartbeatOrder
<1>5. AuthorizedStaysLive' /\ ManifestWasComplete'
  BY <1>1, <1>2 DEF AuthorizedStaysLive, ManifestWasComplete, IndInv, TypeOK
<1>6. RunningIsLeased' /\ ActiveIsReclaimable'
  BY DEF RunningIsLeased, ActiveIsReclaimable
<1> QED
  BY <1>3, <1>4, <1>5, <1>6

(* Without overlapping heartbeats every step keeps the order. *)
LEMMA OrderStep == ~LateHeartbeats /\ IndInv /\ OrderInv /\ [Next]_vars => OrderInv'
<1> SUFFICES ASSUME ~LateHeartbeats, IndInv, OrderInv, [Next]_vars PROVE OrderInv'
  OBVIOUS
<1> USE DEF jobRows, evidence
<1>1. clock \in Nat /\ TypeOK
  BY BoundsAssumption DEF IndInv, TypeOK
<1>2. ASSUME UNCHANGED <<attemptCount, lease, attempt, verifiedItems, clock>>,
             status' = status \/ status' \notin Active,
             NEW h \in Handlers, Reply(h)
      PROVE  OrderInv'
  BY <1>1, <1>2, ReplyForgets, OrderUnchanged
<1>3. ASSUME NEW h \in Handlers, LeaseStep(h) PROVE OrderInv'
  <2>1. ASSUME NEW d \in LeaseMin..LeaseMax, StartLease(h, d) PROVE OrderInv'
    <3> DEFINE r == [op |-> "lease", now |-> clock, duration |-> d]
    <3> HIDE DEF r
    <3>1. r.op = "lease" /\ r.now = clock
      BY DEF r
    <3>2. Await(h, r)
      BY <2>1 DEF StartLease, r
    <3> QED
      BY <2>1, <3>1, <3>2, AwaitOrder DEF StartLease
  <2>2. CASE RejectManifest(h)
    BY <1>2, <2>2 DEF RejectManifest, MarkFailed, Active
  <2>3. CASE CommitLease(h)
    BY <2>3, CommitLeaseOrder
  <2>4. CASE LoseLease(h)
    BY <1>2, <2>4 DEF LoseLease
  <2> QED
    BY <1>3, <2>1, <2>2, <2>3, <2>4 DEF LeaseStep
<1>4. ASSUME NEW h \in Handlers, AgentStep(h) PROVE OrderInv'
  <2>1. ASSUME NEW t \in Tokens, StartHeartbeat(h, t) PROVE OrderInv'
    <3> DEFINE r == [op |-> "heartbeat", token |-> t, now |-> clock,
                     duration |-> Clamp(lease.expires - lease.heartbeat)]
    <3>1. Await(h, r)
      BY <2>1 DEF StartHeartbeat
    <3>2. lease # NoLease /\ lease.token = t
      BY <2>1 DEF StartHeartbeat, Authorized
    <3>3. Clamp(lease.expires - lease.heartbeat) = lease.expires - lease.heartbeat
      BY <3>2, BoundsAssumption DEF Clamp, OrderInv, LeaseTimes
    <3>4. \A g \in Handlers : req[g].op = "heartbeat" => req[g].token # t
      BY <2>1 DEF StartHeartbeat
    <3>5. /\ r.op = "heartbeat" /\ r.now = clock /\ r.token = t
          /\ r.duration = lease.expires - lease.heartbeat
      BY <3>3
    <3> HIDE DEF r
    <3> QED
      BY <2>1, <3>1, <3>2, <3>4, <3>5, AwaitOrder DEF StartHeartbeat
  <2>2. ASSUME NEW t \in Tokens, NEW k \in Items \cup {Manifest}, StartAcknowledge(h, t, k)
        PROVE OrderInv'
    <3> DEFINE r == [op |-> "acknowledge", key |-> k, token |-> t,
                     attempt |-> attemptCount, now |-> clock]
    <3>1. /\ Await(h, r)
          /\ lease.expires > clock
          /\ k = Manifest => verifiedItems = Items
      BY <2>2 DEF StartAcknowledge, Authorized
    <3>2. r.op = "acknowledge" /\ r.now = clock /\ r.key = k
      OBVIOUS
    <3> HIDE DEF r
    <3> QED
      BY <2>2, <3>1, <3>2, AwaitOrder DEF StartAcknowledge
  <2>3. ASSUME NEW t \in Tokens, NEW c \in Codes, StartFail(h, t, c) PROVE OrderInv'
    <3> DEFINE r == [op |-> "fail", key |-> c, token |-> t, attempt |-> attemptCount,
                     now |-> clock, next |-> NextStatus(c)]
    <3>1. Await(h, r) /\ lease.expires > clock
      BY <2>3 DEF StartFail, Authorized
    <3>2. r.op = "fail" /\ r.now = clock
      OBVIOUS
    <3> HIDE DEF r
    <3> QED
      BY <2>3, <3>1, <3>2, AwaitOrder DEF StartFail
  <2>4. CASE CommitHeartbeat(h)
    BY <2>4, CommitHeartbeatOrder
  <2>5. CASE CommitItem(h)
    BY <2>5, CommitItemOrder
  <2>6. CASE CommitManifest(h)
    <3>1. verifiedItems = Items
      BY <2>6 DEF CommitManifest, OrderInv, ManifestWasComplete
    <3>2. /\ Live(req[h]) => status' \notin Active
          /\ ~Live(req[h]) => status' = status
      BY <2>6, <3>1 DEF CommitManifest, Active
    <3> QED
      BY <2>6, <3>2, ReleaseOrder DEF CommitManifest
  <2>7. CASE CommitFail(h)
    <3>1. req[h] \in Failure
      BY <1>1, <2>7, RequestKinds DEF CommitFail, TypeOK
    <3>2. /\ Live(req[h]) => status' \notin Active
          /\ ~Live(req[h]) => status' = status
      BY <2>7, <3>1 DEF CommitFail, Failure, Active
    <3> QED
      BY <2>7, <3>2, ReleaseOrder DEF CommitFail
  <2> QED
    BY <1>4, <2>1, <2>2, <2>3, <2>4, <2>5, <2>6, <2>7 DEF AgentStep
<1>5. ASSUME NEW h \in Handlers, Drop(h) PROVE OrderInv'
  BY <1>2, <1>5 DEF Drop
<1>6. ASSUME RecordStep \/ WorkflowStep \/ Tick \/ UNCHANGED vars PROVE OrderInv'
  <2>1. /\ UNCHANGED <<attemptCount, lease, attempt, verifiedItems, req>>
        /\ status' = status \/ status' \notin Active
        /\ clock' = clock \/ clock' = clock + 1
    BY <1>6 DEF RecordStep, Refuse, Replay, WorkflowStep, CreateWorkflow, PrepareJob, PublishJob,
       ExhaustRetries, RecordPreparationFailure, MarkFailed, Tick, vars, Active
  <2> QED
    BY <1>1, <2>1, OrderUnchanged
<1> QED
  BY <1>3, <1>4, <1>5, <1>6 DEF Next

LEMMA OrderInvariance == ~LateHeartbeats => (Spec => []OrderInv)
<1> SUFFICES ASSUME ~LateHeartbeats PROVE Spec => []OrderInv
  OBVIOUS
<1>1. IndInv /\ OrderInv /\ [Next]_vars => OrderInv'
  BY OrderStep
<1> QED
  BY <1>1, OrderInit, Invariance, PTL DEF Spec

(* An active job can always be reclaimed: its lease row is there to expire. *)
THEOREM Reclaimable == ~LateHeartbeats => (Spec => []ActiveIsReclaimable)
  BY OrderInvariance, PTL DEF OrderInv

(* Reclaiming a job never leaves two of its attempts running. *)
THEOREM SingleRunningAttempt == ~LateHeartbeats => (Spec => []OneRunningAttempt)
<1>1. OrderInv => OneRunningAttempt
  BY DEF OrderInv, RunningIsLeased, OneRunningAttempt
<1> QED
  BY <1>1, OrderInvariance, PTL

----------------------------------------------------------------------------
(***************************************************************************)
(* NasInstall: what is installed is whole, and what was staged whole stays so. *)
(***************************************************************************)

Paths == {{}} \cup {{n} : n \in Inodes}
Contents == Seq(BOOLEAN)
NasPoints == {"idle", "prepare", "item", "stage", "download", "open", "write", "verify", "install",
              "rename", "unlink", "acknowledge", "fail"}
Procs == [at : NasPoints, item : ManifestItems, verified : SUBSET ManifestItems, offset : Nat,
          fd : Paths, attempt : Nat]

NasTypeOK ==
  /\ bytes \in [Inodes -> Contents]
  /\ partial \in [ManifestItems -> Paths]
  /\ destination \in [ManifestItems -> Paths]
  /\ foreign \in SUBSET ManifestItems
  /\ acked \in SUBSET ManifestItems
  /\ proc \in [Processes -> Procs]

\* Paths of two items never name one file, nor do those of an item whose place
\* somebody else has taken.
PathsApart ==
  /\ \A i, j \in ManifestItems : i # j =>
       /\ partial[i] \cap partial[j] = {}
       /\ destination[i] \cap destination[j] = {}
       /\ partial[i] \cap destination[j] = {}
  /\ \A i \in foreign : partial[i] \cap destination[i] = {}

ForeignIsEmpty == \A i \in foreign : destination[i] # {} /\ bytes[At(destination[i])] = << >>

Fresh(i) == destination[i] = {} \/ i \in foreign
Placed(i) == destination[i] # {} /\ i \notin foreign

Staging == {"stage", "download", "open", "write", "verify", "install", "rename"}

\* What a process alone on its disk relies on at each of its points.
ProcSound(r) ==
  /\ r.at = "write" =>
       /\ r.fd = partial[r.item] /\ r.fd # {}
       /\ r.offset <= Size /\ Len(bytes[At(r.fd)]) = r.offset
  /\ r.at \in {"download", "open"} =>
       /\ r.offset < Size
       /\ IF partial[r.item] = {} THEN r.offset = 0 ELSE Len(bytes[At(partial[r.item])]) = r.offset
  /\ r.at \in Staging => Fresh(r.item)
  /\ r.at \in {"install", "rename"} => Verifies(partial[r.item])
  /\ r.at \in {"unlink", "acknowledge"} => Placed(r.item)
  /\ r.at \notin {"idle", "prepare", "fail"} =>
       /\ \A j \in r.verified : Placed(j)
       /\ \A j \in ManifestItems \ r.verified :
            j > r.item \/ (j = r.item /\ r.at = "item") => Fresh(j)

ProcsSound == \A p \in Processes : \A r \in Procs : proc[p] = r => ProcSound(r)

NasInv == NasTypeOK /\ PathsApart /\ ForeignIsEmpty /\ InstalledIsWhole /\ ProcsSound

\* One agent process works on the disk at a time.
Alone == \A p, q \in Processes : p = q

Kept ==
  \A i \in ManifestItems : Verifies(partial[i]) =>
    Verifies(partial[i])' \/ Verifies(destination[i])'

----------------------------------------------------------------------------
LEMMA PathsAre ==
  /\ {} \in Paths
  /\ \A n \in Inodes : {n} \in Paths /\ At({n}) = n
  /\ \A path \in Paths : path # {} => path = {At(path)} /\ At(path) \in Inodes
<1>1. \A n \in Inodes : {n} \in Paths /\ At({n}) = n
  BY DEF Paths, At
<1> QED BY <1>1 DEF Paths

LEMMA SizesAre ==
  /\ Size \in Nat /\ Size > 0 /\ ItemCount \in Nat /\ ItemCount >= 1
  /\ Whole \in Contents /\ Len(Whole) = Size /\ Whole # << >>
  /\ << >> \in Contents /\ Len(<< >>) = 0
<1>1. Size \in Nat /\ Size > 0 /\ ItemCount \in Nat /\ ItemCount >= 1
  BY NasInstallAssumption DEF NasInstallAssumption
<1>2. Whole \in Contents /\ Len(Whole) = Size
  BY <1>1 DEF Whole, Contents
<1> QED BY <1>1, <1>2 DEF Contents

LEMMA NoProcIs == NoProc \in Procs /\ NoProc.at = "idle" /\ NoProc.fd = {} /\ ProcSound(NoProc)
<1>1. NoProc \in Procs /\ NoProc.at = "idle" /\ NoProc.fd = {}
  BY SizesAre, PathsAre DEF NoProc, Procs, NasPoints, ManifestItems
<1> QED BY <1>1 DEF ProcSound, Staging

LEMMA NasInitInv == NasInit => NasInv
<1> SUFFICES ASSUME NasInit PROVE NasInv
  OBVIOUS
<1>1. NasTypeOK
  BY NoProcIs, SizesAre, PathsAre DEF NasInit, NasTypeOK
<1>2. PathsApart /\ ForeignIsEmpty /\ InstalledIsWhole
  BY DEF NasInit, PathsApart, ForeignIsEmpty, InstalledIsWhole
<1>3. ProcsSound
  BY NoProcIs DEF NasInit, ProcsSound
<1> QED BY <1>1, <1>2, <1>3 DEF NasInv

\* What the process p relies on.
LEMMA ProcIs ==
  ASSUME NasInv, NEW p \in Processes
  PROVE  proc[p] \in Procs /\ \E r \in Procs : r = proc[p] /\ ProcSound(r)
BY DEF NasInv, NasTypeOK, ProcsSound

\* The process p goes on as s, and the others, of which there are none, as before.
ProcGoesOn(p, s) == proc' = [proc EXCEPT ![p] = s]

LEMMA ProcsSoundOn ==
  ASSUME Alone, NasInv, NEW p \in Processes, NEW s \in Procs, ProcGoesOn(p, s), ProcSound(s)'
  PROVE  proc' \in [Processes -> Procs] /\ ProcsSound'
<1>1. proc' \in [Processes -> Procs] /\ proc'[p] = s
  BY DEF ProcGoesOn, NasInv, NasTypeOK
<1>2. ASSUME NEW q \in Processes, NEW r \in Procs, proc'[q] = r
      PROVE  ProcSound(r)'
  <2>1. r = s
    BY <1>1, <1>2 DEF Alone
  <2> QED BY <2>1
<1> QED BY <1>1, <1>2 DEF ProcsSound

\* A step that leaves the disk as it is.
LEMMA QuietNasStep ==
  ASSUME Alone, NasInv, NEW p \in Processes, NEW s \in Procs, ProcGoesOn(p, s),
         ProcSound(s), UNCHANGED <<disk, acked>>
  PROVE  NasInv' /\ Kept
<1>1. UNCHANGED <<bytes, partial, destination, foreign, acked>>
  BY DEF disk
<1>2. ProcSound(s)'
  BY <1>1 DEF ProcSound, Fresh, Placed, Verifies
<1>3. proc' \in [Processes -> Procs] /\ ProcsSound'
  BY <1>2, ProcsSoundOn
<1>4. NasTypeOK' /\ PathsApart' /\ ForeignIsEmpty' /\ InstalledIsWhole'
  BY <1>1, <1>3 DEF NasInv, NasTypeOK, PathsApart, ForeignIsEmpty, InstalledIsWhole, Verifies
<1>5. Kept
  BY <1>1 DEF Kept, Verifies
<1> QED BY <1>3, <1>4, <1>5 DEF NasInv

\* The file at the staging path of an item that is not in its place is made,
\* or takes another content.
LEMMA StagedStep ==
  ASSUME Alone, NasInv, NEW i \in ManifestItems, Fresh(i),
         NEW n \in Inodes, partial[i] = {n} \/ (partial[i] = {} /\ n \in Unused),
         NEW c \in Contents, partial[i] # {} => ~Verifies(partial[i]) \/ c = bytes[n],
         bytes' = [bytes EXCEPT ![n] = c], partial' = [partial EXCEPT ![i] = {n}],
         UNCHANGED <<destination, foreign, acked>>,
         NEW p \in Processes, NEW s \in Procs, ProcGoesOn(p, s), ProcSound(s)'
  PROVE  NasInv' /\ Kept
<1>1. /\ bytes' \in [Inodes -> Contents] /\ bytes'[n] = c
      /\ \A m \in Inodes : m # n => bytes'[m] = bytes[m]
  BY DEF NasInv, NasTypeOK
<1>2. /\ partial' \in [ManifestItems -> Paths] /\ partial'[i] = {n}
      /\ \A j \in ManifestItems : j # i => partial'[j] = partial[j]
  BY PathsAre DEF NasInv, NasTypeOK
<1>3. \A j \in ManifestItems : n \notin destination[j] /\ (j # i => n \notin partial[j])
  BY DEF Fresh, Unused, NasInv, PathsApart
<1>4. proc' \in [Processes -> Procs] /\ ProcsSound'
  BY ProcsSoundOn
<1>5. NasTypeOK'
  BY <1>1, <1>2, <1>4 DEF NasInv, NasTypeOK
<1>6. PathsApart'
  BY <1>2, <1>3 DEF NasInv, NasTypeOK, PathsApart
<1>7. \A j \in ManifestItems : destination[j] # {} =>
        destination'[j] # {} /\ bytes'[At(destination'[j])] = bytes[At(destination[j])]
  BY <1>1, <1>3, PathsAre DEF NasInv, NasTypeOK
<1>8. ForeignIsEmpty' /\ InstalledIsWhole'
  BY <1>7 DEF NasInv, NasTypeOK, ForeignIsEmpty, InstalledIsWhole, Verifies
<1>9. Kept
  <2> SUFFICES ASSUME NEW j \in ManifestItems, Verifies(partial[j])
               PROVE  Verifies(partial[j])'
    BY DEF Kept
  <2>1. CASE j = i
    <3>1. partial[i] = {n} /\ c = bytes[n] /\ bytes[n] = Whole
      BY <2>1, PathsAre DEF Verifies
    <3> QED BY <1>1, <1>2, <2>1, <3>1, PathsAre DEF Verifies
  <2>2. CASE j # i
    <3>1. partial'[j] = partial[j] /\ partial[j] # {} /\ At(partial[j]) \in Inodes
          /\ At(partial[j]) # n
      BY <1>2, <1>3, <2>2, PathsAre DEF Verifies, NasInv, NasTypeOK
    <3> QED BY <1>1, <3>1 DEF Verifies
  <2> QED BY <2>1, <2>2
<1> QED BY <1>4, <1>5, <1>6, <1>8, <1>9 DEF NasInv

\* The staging path of an item is unlinked, from a file that is not whole or
\* is in its place.
LEMMA UnstagedStep ==
  ASSUME Alone, NasInv, NEW i \in ManifestItems, partial' = [partial EXCEPT ![i] = {}],
         ~Verifies(partial[i]) \/ Placed(i), UNCHANGED <<bytes, destination, foreign, acked>>,
         NEW p \in Processes, NEW s \in Procs, ProcGoesOn(p, s), ProcSound(s)'
  PROVE  NasInv' /\ Kept
<1>1. /\ partial' \in [ManifestItems -> Paths] /\ partial'[i] = {}
      /\ \A j \in ManifestItems : j # i => partial'[j] = partial[j]
  BY PathsAre DEF NasInv, NasTypeOK
<1>2. proc' \in [Processes -> Procs] /\ ProcsSound'
  BY ProcsSoundOn
<1>3. NasTypeOK'
  BY <1>1, <1>2 DEF NasInv, NasTypeOK
<1>4. PathsApart'
  BY <1>1 DEF NasInv, NasTypeOK, PathsApart
<1>5. ForeignIsEmpty' /\ InstalledIsWhole'
  BY DEF NasInv, ForeignIsEmpty, InstalledIsWhole, Verifies
<1>6. Kept
  <2> SUFFICES ASSUME NEW j \in ManifestItems, Verifies(partial[j])
               PROVE  Verifies(partial[j])' \/ Verifies(destination[j])'
    BY DEF Kept
  <2>1. CASE j = i
    <3>1. Verifies(destination[i])
      BY <2>1 DEF Placed, NasInv, InstalledIsWhole
    <3> QED BY <2>1, <3>1 DEF Verifies
  <2>2. CASE j # i
    BY <1>1, <2>2 DEF Verifies
  <2> QED BY <2>1, <2>2
<1> QED BY <1>2, <1>3, <1>4, <1>5, <1>6 DEF NasInv

\* The staged file of an item is linked or renamed to its place.
LEMMA PlacedStep ==
  ASSUME Alone, NasInv, NEW i \in ManifestItems, Fresh(i), Verifies(partial[i]),
         destination' = [destination EXCEPT ![i] = partial[i]],
         NEW left \in {{}, partial[i]}, partial' = [partial EXCEPT ![i] = left],
         foreign' = foreign \ {i}, UNCHANGED <<bytes, acked>>,
         NEW p \in Processes, NEW s \in Procs, ProcGoesOn(p, s), ProcSound(s)'
  PROVE  NasInv' /\ Kept
<1>1. /\ partial' \in [ManifestItems -> Paths] /\ partial'[i] \in {{}, partial[i]}
      /\ \A j \in ManifestItems : j # i => partial'[j] = partial[j]
  BY PathsAre DEF NasInv, NasTypeOK
<1>2. /\ destination' \in [ManifestItems -> Paths] /\ destination'[i] = partial[i]
      /\ \A j \in ManifestItems : j # i => destination'[j] = destination[j]
  BY DEF NasInv, NasTypeOK
<1>3. proc' \in [Processes -> Procs] /\ ProcsSound'
  BY ProcsSoundOn
<1>4. NasTypeOK'
  BY <1>1, <1>2, <1>3 DEF NasInv, NasTypeOK
<1>5. PathsApart'
  <2>1. \A j \in ManifestItems : partial'[j] \subseteq partial[j]
    BY <1>1
  <2>2. \A j \in foreign' : j \in foreign /\ j # i /\ j \in ManifestItems
    BY DEF NasInv, NasTypeOK
  <2> QED BY <1>2, <2>1, <2>2 DEF NasInv, PathsApart
<1>6. ForeignIsEmpty'
  BY <1>2 DEF NasInv, NasTypeOK, ForeignIsEmpty
<1>7. InstalledIsWhole'
  BY <1>2 DEF NasInv, NasTypeOK, InstalledIsWhole, Verifies
<1>8. Kept
  BY <1>1, <1>2 DEF Kept, Verifies
<1> QED BY <1>3, <1>4, <1>5, <1>6, <1>7, <1>8 DEF NasInv

LEMMA PutForeignStep ==
  ASSUME Alone, NasInv, NEW i \in ManifestItems, PutForeign(i)
  PROVE  NasInv' /\ Kept
<1>1. PICK n \in Inodes :
        /\ n \in Unused /\ destination' = [destination EXCEPT ![i] = {n}]
        /\ bytes' = [bytes EXCEPT ![n] = << >>]
  BY DEF PutForeign, NewInode, Unused
<1>2. destination[i] = {} /\ foreign' = foreign \cup {i} /\ UNCHANGED <<partial, acked, proc>>
  BY DEF PutForeign
<1>3. /\ \A j \in ManifestItems : n \notin partial[j] /\ n \notin destination[j]
      /\ \A p \in Processes : n \notin proc[p].fd
  BY <1>1 DEF Unused
<1>4. /\ bytes' \in [Inodes -> Contents] /\ bytes'[n] = << >>
      /\ \A m \in Inodes : m # n => bytes'[m] = bytes[m]
  BY <1>1, SizesAre DEF NasInv, NasTypeOK
<1>5. /\ destination' \in [ManifestItems -> Paths] /\ destination'[i] = {n}
      /\ \A j \in ManifestItems : j # i => destination'[j] = destination[j]
  BY <1>1, PathsAre DEF NasInv, NasTypeOK
<1>6. NasTypeOK'
  BY <1>2, <1>4, <1>5 DEF NasInv, NasTypeOK
<1>7. PathsApart'
  BY <1>2, <1>3, <1>5 DEF NasInv, NasTypeOK, PathsApart
<1>8. \A path \in Paths : path # {} /\ n \notin path => bytes'[At(path)] = bytes[At(path)]
  BY <1>4, PathsAre
<1>9. ForeignIsEmpty'
  BY <1>2, <1>3, <1>4, <1>5, <1>8, PathsAre DEF NasInv, NasTypeOK, ForeignIsEmpty
<1>10. InstalledIsWhole'
  BY <1>2, <1>3, <1>5, <1>8 DEF NasInv, NasTypeOK, InstalledIsWhole, Verifies
<1>11. \A j \in ManifestItems : (Fresh(j) => Fresh(j)') /\ (Placed(j) => Placed(j)')
  BY <1>2, <1>5 DEF Fresh, Placed
<1>12. \A j \in ManifestItems : Verifies(partial[j]) => Verifies(partial[j])'
  BY <1>2, <1>3, <1>8 DEF Verifies, NasInv, NasTypeOK
<1>13. ProcsSound'
  <2> SUFFICES ASSUME NEW p \in Processes, NEW r \in Procs, proc[p] = r PROVE ProcSound(r)'
    BY <1>2 DEF ProcsSound
  <2>1. ProcSound(r) /\ r.fd \in Paths /\ r.item \in ManifestItems /\ n \notin r.fd
        /\ r.verified \subseteq ManifestItems
    BY <1>3 DEF NasInv, ProcsSound, Procs
  <2>2. r.fd # {} => bytes'[At(r.fd)] = bytes[At(r.fd)]
    BY <1>8, <2>1
  <2>3. partial[r.item] # {} => bytes'[At(partial[r.item])] = bytes[At(partial[r.item])]
    BY <1>3, <1>8, <2>1 DEF NasInv, NasTypeOK
  <2> QED BY <1>2, <1>11, <1>12, <2>1, <2>2, <2>3 DEF ProcSound
<1> QED BY <1>6, <1>7, <1>9, <1>10, <1>12, <1>13 DEF NasInv, Kept

----------------------------------------------------------------------------
(* The steps of a process.                                                 *)

LEMMA GotoIs ==
  ASSUME NasInv, NEW p \in Processes, NEW r \in Procs, r = proc[p], NEW at \in NasPoints,
         NasGoto(p, at)
  PROVE  \E s \in Procs :
           /\ s.at = at /\ s.item = r.item /\ s.verified = r.verified /\ s.offset = r.offset
           /\ s.fd = r.fd /\ ProcGoesOn(p, s)
<1> DEFINE s == [r EXCEPT !.at = at]
<1>1. s \in Procs /\ s.at = at /\ s.item = r.item /\ s.verified = r.verified /\ s.offset = r.offset
      /\ s.fd = r.fd
  BY DEF Procs
<1>2. ProcGoesOn(p, s)
  BY DEF NasGoto, ProcGoesOn, NasInv, NasTypeOK
<1> QED BY <1>1, <1>2

LEMMA RetryIs ==
  ASSUME NasInv, NEW p \in Processes, NEW r \in Procs, r = proc[p], RetryItem(p)
  PROVE  \E s \in Procs :
           /\ s.at \in {"fail", "stage"} /\ s.item = r.item /\ s.verified = r.verified
           /\ s.fd = {} /\ ProcGoesOn(p, s)
<1> DEFINE at == IF r.at = "fail" \/ r.attempt >= MaxDownloads THEN "fail" ELSE "stage"
           tries == r.attempt + 1
           s == [r EXCEPT !.at = at, !.attempt = tries, !.fd = {}]
<1>1. at \in {"fail", "stage"} /\ at \in NasPoints /\ tries \in Nat
  BY DEF NasPoints, Procs
<1>2. ProcGoesOn(p, s)
  BY DEF RetryItem, ProcGoesOn, NasInv, NasTypeOK
<1> HIDE DEF at, tries
<1>3. s \in Procs /\ s.at = at /\ s.item = r.item /\ s.verified = r.verified /\ s.fd = {}
  BY <1>1, PathsAre DEF Procs
<1> QED BY <1>1, <1>2, <1>3

\* A process that leaves, or waits for a lease.
LEMMA LeaveStep ==
  ASSUME Alone, NasInv, NEW p \in Processes, Leave(p), UNCHANGED <<disk, acked>>
  PROVE  NasInv' /\ Kept
BY NoProcIs, QuietNasStep DEF Leave, ProcGoesOn

\* A process that goes to a point at which it relies on no more.
LEMMA NasGotoStep ==
  ASSUME Alone, NasInv, NEW p \in Processes, NEW at \in NasPoints, NasGoto(p, at),
         UNCHANGED <<disk, acked>>,
         \A s \in Procs : s.at = at /\ s.item = proc[p].item /\ s.verified = proc[p].verified
           /\ s.offset = proc[p].offset /\ s.fd = proc[p].fd => ProcSound(s)
  PROVE  NasInv' /\ Kept
<1>1. PICK r \in Procs : r = proc[p] /\ ProcSound(r)
  BY ProcIs
<1>2. PICK s \in Procs :
        /\ s.at = at /\ s.item = r.item /\ s.verified = r.verified /\ s.offset = r.offset
        /\ s.fd = r.fd /\ ProcGoesOn(p, s)
  BY <1>1, GotoIs
<1>3. ProcSound(s)
  BY <1>1, <1>2
<1> QED BY <1>2, <1>3, QuietNasStep

\* To a point at which it relies on nothing.
LEMMA FailStep ==
  ASSUME Alone, NasInv, NEW p \in Processes, NEW at \in {"fail", "prepare"}, NasGoto(p, at),
         UNCHANGED <<disk, acked>>
  PROVE  NasInv' /\ Kept
<1>1. \A s \in Procs : s.at = at => ProcSound(s)
  BY DEF ProcSound, Staging
<1> QED BY <1>1, NasGotoStep DEF NasPoints

\* A failed attempt.
LEMMA RetryStep ==
  ASSUME Alone, NasInv, NEW p \in Processes, RetryItem(p), UNCHANGED <<disk, acked>>,
         proc[p].at \in Staging
  PROVE  NasInv' /\ Kept
<1>1. PICK r \in Procs : r = proc[p] /\ ProcSound(r)
  BY ProcIs
<1>2. PICK s \in Procs :
        /\ s.at \in {"fail", "stage"} /\ s.item = r.item /\ s.verified = r.verified
        /\ s.fd = {} /\ ProcGoesOn(p, s)
  BY <1>1, RetryIs
<1>3. ProcSound(s)
  BY <1>1, <1>2 DEF ProcSound, Staging
<1> QED BY <1>2, <1>3, QuietNasStep

LEMMA PrepareStep ==
  ASSUME Alone, NasInv, NEW p \in Processes, Prepare(p)
  PROVE  NasInv' /\ Kept
<1>1. PICK r \in Procs : r = proc[p] /\ ProcSound(r)
  BY ProcIs
<1> DEFINE there == {i \in ManifestItems : destination[i] # {}}
           at == IF \A i \in there : Verifies(destination[i]) THEN "item" ELSE "fail"
           s == [r EXCEPT !.at = at, !.verified = there]
<1>2. ProcGoesOn(p, s)
  BY <1>1 DEF Prepare, ProcGoesOn, NasInv, NasTypeOK
<1>3. there \in SUBSET ManifestItems /\ at \in {"item", "fail"}
  OBVIOUS
<1>4. at = "item" => \A i \in there : Placed(i)
  BY SizesAre DEF Placed, NasInv, ForeignIsEmpty, Verifies
<1>5. \A i \in ManifestItems \ there : Fresh(i)
  BY DEF Fresh
<1> HIDE DEF there, at
<1>6. s \in Procs /\ s.at = at /\ s.verified = there
  BY <1>3 DEF Procs, NasPoints
<1> HIDE DEF s
<1>7. ProcSound(s)
  BY <1>3, <1>4, <1>5, <1>6 DEF ProcSound, Staging
<1>8. UNCHANGED <<disk, acked>>
  BY DEF Prepare
<1> QED BY <1>2, <1>6, <1>7, <1>8, QuietNasStep

LEMMA NextItemStep ==
  ASSUME Alone, NasInv, NEW p \in Processes, NextItem(p)
  PROVE  NasInv' /\ Kept
<1>1. PICK r \in Procs : r = proc[p] /\ ProcSound(r)
  BY ProcIs
<1> DEFINE at == IF r.item \in r.verified THEN "acknowledge" ELSE "stage"
<1>2. r.at = "item" /\ r.item \in ManifestItems /\ NasGoto(p, at) /\ UNCHANGED <<disk, acked>>
      /\ at \in NasPoints
  BY <1>1 DEF NextItem, Procs, NasPoints
<1>3. IF r.item \in r.verified THEN Placed(r.item) ELSE Fresh(r.item)
  BY <1>1, <1>2 DEF ProcSound
<1>4. \A s \in Procs : s.at = at /\ s.item = r.item /\ s.verified = r.verified => ProcSound(s)
  BY <1>1, <1>2, <1>3 DEF ProcSound, Staging
<1> HIDE DEF at
<1> QED BY <1>1, <1>2, <1>4, NasGotoStep

LEMMA StageStep ==
  ASSUME Alone, NasInv, NEW p \in Processes, Stage(p)
  PROVE  NasInv' /\ Kept
<1>1. PICK r \in Procs : r = proc[p] /\ ProcSound(r)
  BY ProcIs
<1> DEFINE i == r.item
<1>2. r.at = "stage" /\ i \in ManifestItems /\ UNCHANGED acked
  BY <1>1 DEF Stage, Procs
<1>3. CASE Verifies(partial[i]) /\ NasGoto(p, "install") /\ UNCHANGED disk
  <2>1. \A s \in Procs : s.at = "install" /\ s.item = r.item /\ s.verified = r.verified => ProcSound(s)
    BY <1>1, <1>2, <1>3 DEF ProcSound, Staging
  <2> QED BY <1>1, <1>2, <1>3, <2>1, NasGotoStep DEF NasPoints
<1>4. CASE /\ partial[i] # {} /\ ~Verifies(partial[i]) /\ Len(bytes[At(partial[i])]) = Size
           /\ partial' = [partial EXCEPT ![i] = {}]
           /\ RetryItem(p) /\ UNCHANGED <<bytes, destination, foreign>>
  <2>1. PICK s \in Procs :
          /\ s.at \in {"fail", "stage"} /\ s.item = r.item /\ s.verified = r.verified
          /\ s.fd = {} /\ ProcGoesOn(p, s)
    BY <1>1, <1>4, RetryIs
  <2>2. ProcSound(s)'
    BY <1>1, <1>2, <1>4, <2>1 DEF ProcSound, Staging, Fresh, Placed
  <2> QED BY <1>2, <1>4, <2>1, <2>2, UnstagedStep
<1>5. CASE /\ partial[i] # {} => Len(bytes[At(partial[i])]) < Size
           /\ proc' = [proc EXCEPT ![p].at = "download",
                        ![p].offset = IF partial[i] = {} THEN 0 ELSE Len(bytes[At(partial[i])])]
           /\ UNCHANGED disk
  <2> DEFINE offset == IF partial[i] = {} THEN 0 ELSE Len(bytes[At(partial[i])])
             s == [r EXCEPT !.at = "download", !.offset = offset]
  <2>1. ProcGoesOn(p, s)
    BY <1>1, <1>5 DEF ProcGoesOn, NasInv, NasTypeOK
  <2>2. offset \in Nat /\ offset < Size
    BY <1>2, <1>5, PathsAre, SizesAre DEF NasInv, NasTypeOK, Contents
  <2>3. IF partial[i] = {} THEN offset = 0 ELSE Len(bytes[At(partial[i])]) = offset
    OBVIOUS
  <2> HIDE DEF offset
  <2>4. s \in Procs /\ s.at = "download" /\ s.item = r.item /\ s.verified = r.verified
        /\ s.offset = offset
    BY <2>2 DEF Procs, NasPoints
  <2> HIDE DEF s
  <2>5. ProcSound(s)
    BY <1>1, <1>2, <2>2, <2>3, <2>4 DEF ProcSound, Staging
  <2> QED BY <1>2, <1>5, <2>1, <2>4, <2>5, QuietNasStep
<1> QED BY <1>1, <1>3, <1>4, <1>5 DEF Stage

LEMMA EmptiedIs ==
  ASSUME NasInv, NEW i \in ManifestItems, Emptied(i)
  PROVE  \E n \in Inodes :
           /\ partial[i] = {n} \/ (partial[i] = {} /\ n \in Unused)
           /\ bytes' = [bytes EXCEPT ![n] = << >>] /\ partial' = [partial EXCEPT ![i] = {n}]
<1>1. CASE partial[i] = {}
  BY <1>1 DEF Emptied, NewInode, Unused
<1>2. CASE partial[i] # {}
  <2>1. partial[i] = {At(partial[i])} /\ At(partial[i]) \in Inodes
    BY <1>2, PathsAre DEF NasInv, NasTypeOK
  <2>2. bytes' = [bytes EXCEPT ![At(partial[i])] = << >>] /\ partial' = partial
    BY <1>2 DEF Emptied
  <2>3. partial = [partial EXCEPT ![i] = {At(partial[i])}]
    BY <2>1 DEF NasInv, NasTypeOK
  <2> QED BY <2>1, <2>2, <2>3
<1> QED BY <1>1, <1>2

LEMMA NotWhole ==
  ASSUME NEW path, path # {}, Len(bytes[At(path)]) < Size
  PROVE  ~Verifies(path)
BY SizesAre DEF Verifies

\* A request empties the staged file, or makes one, and goes on as s.
LEMMA EmptiedStep ==
  ASSUME Alone, NasInv, NEW p \in Processes, NEW r \in Procs, r = proc[p],
         r.at \in {"download", "open"}, Emptied(r.item), UNCHANGED <<destination, foreign, acked>>,
         NEW at \in {"open", "write"},
         at = "open" => proc' = [proc EXCEPT ![p].at = "open", ![p].offset = 0],
         at = "write" => r.offset = 0
           /\ proc' = [proc EXCEPT ![p].at = "write", ![p].fd = partial'[r.item]]
  PROVE  NasInv' /\ Kept
<1> DEFINE i == r.item
<1>1. ProcSound(r) /\ i \in ManifestItems /\ r.offset \in Nat
  BY ProcIs DEF Procs
<1>2. PICK n \in Inodes :
        /\ partial[i] = {n} \/ (partial[i] = {} /\ n \in Unused)
        /\ bytes' = [bytes EXCEPT ![n] = << >>] /\ partial' = [partial EXCEPT ![i] = {n}]
  BY <1>1, EmptiedIs
<1>3. Fresh(i) /\ (partial[i] # {} => ~Verifies(partial[i]))
  BY <1>1, NotWhole DEF ProcSound, Staging
<1>4. partial'[i] = {n} /\ bytes'[n] = << >> /\ At({n}) = n /\ {n} \in Paths
  BY <1>1, <1>2, PathsAre DEF NasInv, NasTypeOK
<1> DEFINE fd == IF at = "open" THEN r.fd ELSE {n}
           s == [r EXCEPT !.at = at, !.offset = 0, !.fd = fd]
<1>5. ProcGoesOn(p, s)
  <2>1. CASE at = "open"
    <3>1. s = [r EXCEPT !.at = "open", !.offset = 0]
      BY <2>1 DEF Procs
    <3> QED BY <2>1, <3>1 DEF ProcGoesOn, NasInv, NasTypeOK
  <2>2. CASE at = "write"
    <3>1. s = [r EXCEPT !.at = "write", !.fd = {n}]
      BY <2>2 DEF Procs
    <3> QED BY <1>4, <2>2, <3>1 DEF ProcGoesOn, NasInv, NasTypeOK
  <2> QED BY <2>1, <2>2
<1>6. fd \in Paths /\ (at = "write" => fd = {n})
  BY <1>4 DEF Procs
<1> HIDE DEF fd
<1>7. s \in Procs /\ s.at = at /\ s.item = i /\ s.verified = r.verified /\ s.offset = 0 /\ s.fd = fd
  BY <1>6, SizesAre DEF Procs, NasPoints
<1>8. PICK q \in Procs : q = s
  BY <1>7
<1> HIDE DEF s
<1>9. ProcSound(q)'
  <2>1. /\ q.at \in {"open", "write"} /\ q.item = i /\ q.verified = r.verified /\ q.offset = 0
        /\ q.at = "write" => q.fd = {n}
    BY <1>6, <1>7, <1>8
  <2>2. Len(bytes'[At(partial'[i])]) = 0 /\ partial'[i] # {} /\ 0 < Size /\ 0 <= Size
    BY <1>4, SizesAre
  <2>3. Fresh(i)' /\ (\A j \in r.verified : Placed(j)')
        /\ (\A j \in ManifestItems \ r.verified : j > i => Fresh(j)')
    BY <1>1, <1>3 DEF ProcSound, Fresh, Placed
  <2> HIDE DEF i
  <2> QED BY <1>4, <2>1, <2>2, <2>3 DEF ProcSound, Staging
<1>10. << >> \in Contents
  BY SizesAre
<1> QED BY <1>1, <1>2, <1>3, <1>5, <1>8, <1>9, <1>10, StagedStep

LEMMA DownloadAnsweredStep ==
  ASSUME Alone, NasInv, NEW p \in Processes, NEW all \in BOOLEAN, DownloadAnswered(p, all)
  PROVE  NasInv' /\ Kept
<1>1. PICK r \in Procs : r = proc[p] /\ ProcSound(r)
  BY ProcIs
<1>2. r.at = "download" /\ r.item \in ManifestItems /\ r.offset \in Nat
      /\ UNCHANGED <<destination, foreign, acked>>
  BY <1>1 DEF DownloadAnswered, Procs
<1>3. CASE all /\ r.offset > 0
  <2>1. Emptied(r.item) /\ proc' = [proc EXCEPT ![p].at = "open", ![p].offset = 0]
    BY <1>1, <1>3 DEF DownloadAnswered
  <2> QED BY <1>1, <1>2, <2>1, EmptiedStep
<1>4. CASE ~(all /\ r.offset > 0)
  <2>1. UNCHANGED <<bytes, partial>>
    BY <1>1, <1>4 DEF DownloadAnswered
  <2>2. NasGoto(p, "open")
    <3>1. all => r.offset = 0
      BY <1>2, <1>4
    <3> QED BY <1>1, <3>1 DEF DownloadAnswered, NasGoto, NasInv, NasTypeOK, Procs
  <2>3. \A s \in Procs : s.at = "open" /\ s.item = r.item /\ s.verified = r.verified
          /\ s.offset = r.offset => ProcSound(s)
    BY <1>1, <1>2 DEF ProcSound, Staging
  <2> QED BY <1>1, <1>2, <2>1, <2>2, <2>3, NasGotoStep DEF disk, NasPoints
<1> QED BY <1>3, <1>4

LEMMA DownloadFailsStep ==
  ASSUME Alone, NasInv, NEW p \in Processes, DownloadFails(p)
  PROVE  NasInv' /\ Kept
BY RetryStep, FailStep DEF DownloadFails, Staging

LEMMA OpenPartialStep ==
  ASSUME Alone, NasInv, NEW p \in Processes, OpenPartial(p)
  PROVE  NasInv' /\ Kept
<1>1. PICK r \in Procs : r = proc[p] /\ ProcSound(r)
  BY ProcIs
<1> DEFINE i == r.item
<1>2. r.at = "open" /\ i \in ManifestItems /\ r.offset \in Nat
      /\ UNCHANGED <<destination, foreign, acked>>
  BY <1>1 DEF OpenPartial, Procs
<1>3. CASE r.offset = 0
  <2>1. Emptied(i)
    BY <1>1, <1>3 DEF OpenPartial
  <2>2. partial'[i] # {}
    <3>1. PICK n \in Inodes : partial' = [partial EXCEPT ![i] = {n}]
      BY <1>2, <2>1, EmptiedIs
    <3> QED BY <1>2, <3>1 DEF NasInv, NasTypeOK
  <2>3. proc' = [proc EXCEPT ![p].at = "write", ![p].fd = partial'[i]]
    BY <1>1, <2>2 DEF OpenPartial
  <2> QED BY <1>1, <1>2, <1>3, <2>1, <2>3, EmptiedStep
<1>4. CASE r.offset # 0
  <2>1. UNCHANGED <<bytes, partial>> /\ partial[i] # {} /\ partial[i] \in Paths
    BY <1>1, <1>2, <1>4 DEF OpenPartial, ProcSound, NasInv, NasTypeOK
  <2> DEFINE fd == partial[i]
             s == [r EXCEPT !.at = "write", !.fd = fd]
  <2>2. ProcGoesOn(p, s)
    BY <1>1, <2>1 DEF OpenPartial, ProcGoesOn, NasInv, NasTypeOK
  <2> HIDE DEF fd
  <2>3. s \in Procs /\ s.at = "write" /\ s.item = i /\ s.verified = r.verified
        /\ s.offset = r.offset /\ s.fd = fd
    BY <2>1 DEF Procs, NasPoints, fd
  <2> HIDE DEF s
  <2>4. ProcSound(s)
    BY <1>1, <1>2, <2>1, <2>3, SizesAre DEF ProcSound, Staging, fd
  <2> QED BY <1>2, <2>1, <2>2, <2>3, <2>4, QuietNasStep DEF disk
<1> QED BY <1>3, <1>4

LEMMA WrittenIs ==
  ASSUME NEW c \in Contents, NEW right \in BOOLEAN
  PROVE  Written(c, Len(c), right) \in Contents /\ Len(Written(c, Len(c), right)) = Len(c) + 1
<1> DEFINE n == Len(c) + 1
<1>1. Len(c) \in Nat /\ n \in Nat /\ ~(Len(c) > Len(c))
  BY DEF Contents
<1>2. Written(c, Len(c), right) \in [1 .. n -> BOOLEAN]
  BY <1>1 DEF Written
<1> QED BY <1>1, <1>2 DEF Contents

LEMMA CutAtTheEnd ==
  ASSUME NEW c \in Contents
  PROVE  [b \in 1 .. Len(c) |-> b <= Len(c) /\ c[b]] = c
<1>1. Len(c) \in Nat /\ c \in [1 .. Len(c) -> BOOLEAN]
  BY DEF Contents
<1>2. \A b \in 1 .. Len(c) : (b <= Len(c) /\ c[b]) = c[b]
  BY <1>1
<1> QED BY <1>1, <1>2

LEMMA WriteByteStep ==
  ASSUME Alone, NasInv, NEW p \in Processes, NEW right \in BOOLEAN, WriteByte(p, right)
  PROVE  NasInv' /\ Kept
<1>1. PICK r \in Procs : r = proc[p] /\ ProcSound(r)
  BY ProcIs
<1> DEFINE i == r.item
           n == At(r.fd)
           c == Written(bytes[n], r.offset, right)
           offset == r.offset + 1
           s == [r EXCEPT !.offset = offset]
<1>2. r.at = "write" /\ i \in ManifestItems /\ r.offset \in Nat /\ r.offset < Size
      /\ UNCHANGED <<partial, destination, foreign, acked>>
  BY <1>1 DEF WriteByte, Procs
<1>3. partial[i] = {n} /\ n \in Inodes /\ r.fd = {n} /\ Len(bytes[n]) = r.offset /\ Fresh(i)
  BY <1>1, <1>2, PathsAre DEF ProcSound, Staging, NasInv, NasTypeOK
<1>4. bytes' = [bytes EXCEPT ![n] = c] /\ ProcGoesOn(p, s)
  BY <1>1, <1>3 DEF WriteByte, ProcGoesOn, NasInv, NasTypeOK
<1>5. bytes[n] \in Contents
  BY <1>3 DEF NasInv, NasTypeOK
<1>6. c \in Contents /\ Len(c) = offset
  BY <1>3, <1>5, WrittenIs
<1>7. ~Verifies(partial[i])
  BY <1>2, <1>3, NotWhole
<1>8. partial' = [partial EXCEPT ![i] = {n}]
  BY <1>2, <1>3 DEF NasInv, NasTypeOK
<1>9. offset \in Nat /\ offset <= Size
  BY <1>2, SizesAre
<1> HIDE DEF c
<1>10. bytes'[n] = c
  BY <1>3, <1>4 DEF NasInv, NasTypeOK
<1> HIDE DEF offset
<1>11. s \in Procs /\ s.at = "write" /\ s.item = i /\ s.verified = r.verified
       /\ s.offset = offset /\ s.fd = r.fd
  BY <1>2, <1>9 DEF Procs
<1>12. PICK q \in Procs : q = s
  BY <1>11
<1>13. PICK m \in Inodes : m = n
  BY <1>3
<1>14. At({m}) = m
  BY PathsAre
<1> HIDE DEF s, n
<1>15. ProcSound(q)'
  BY <1>1, <1>2, <1>3, <1>6, <1>9, <1>10, <1>11, <1>12, <1>13, <1>14
     DEF ProcSound, Staging, Fresh, Placed
<1> QED BY <1>2, <1>3, <1>4, <1>6, <1>7, <1>8, <1>12, <1>13, <1>15, StagedStep

LEMMA EndBodyStep ==
  ASSUME Alone, NasInv, NEW p \in Processes, EndBody(p)
  PROVE  NasInv' /\ Kept
<1>1. PICK r \in Procs : r = proc[p] /\ ProcSound(r)
  BY ProcIs
<1> DEFINE n == At(r.fd)
           s == [r EXCEPT !.at = "verify", !.fd = {}]
<1>2. r.at = "write" /\ r.item \in ManifestItems /\ UNCHANGED <<partial, destination, foreign, acked>>
  BY <1>1 DEF EndBody, Procs
<1>3. n \in Inodes /\ Len(bytes[n]) = r.offset /\ bytes[n] \in Contents
  BY <1>1, <1>2, PathsAre DEF ProcSound, NasInv, NasTypeOK, Procs
<1>4. bytes' = [bytes EXCEPT ![n] = [b \in 1..r.offset |-> b <= Len(@) /\ @[b]]] /\ ProcGoesOn(p, s)
  BY <1>1 DEF EndBody, ProcGoesOn, NasInv, NasTypeOK
<1>5. bytes' = bytes
  BY <1>3, <1>4, CutAtTheEnd DEF NasInv, NasTypeOK
<1>6. s \in Procs /\ s.at = "verify" /\ s.item = r.item /\ s.verified = r.verified
  BY PathsAre DEF Procs, NasPoints
<1> HIDE DEF s
<1>7. ProcSound(s)
  BY <1>1, <1>2, <1>6 DEF ProcSound, Staging
<1> QED BY <1>2, <1>4, <1>5, <1>6, <1>7, QuietNasStep DEF disk

LEMMA BreakBodyStep ==
  ASSUME Alone, NasInv, NEW p \in Processes, BreakBody(p)
  PROVE  NasInv' /\ Kept
BY RetryStep DEF BreakBody, Staging

LEMMA VerifyPartialStep ==
  ASSUME Alone, NasInv, NEW p \in Processes, VerifyPartial(p)
  PROVE  NasInv' /\ Kept
<1>1. PICK r \in Procs : r = proc[p] /\ ProcSound(r)
  BY ProcIs
<1> DEFINE i == r.item
<1>2. r.at = "verify" /\ i \in ManifestItems /\ UNCHANGED <<bytes, destination, foreign, acked>>
  BY <1>1 DEF VerifyPartial, Procs
<1>3. CASE Verifies(partial[i]) /\ NasGoto(p, "install") /\ UNCHANGED partial
  <2>1. \A s \in Procs : s.at = "install" /\ s.item = r.item /\ s.verified = r.verified => ProcSound(s)
    BY <1>1, <1>2, <1>3 DEF ProcSound, Staging
  <2> QED BY <1>1, <1>2, <1>3, <2>1, NasGotoStep DEF NasPoints, disk
<1>4. CASE ~Verifies(partial[i]) /\ RetryItem(p) /\ partial' = [partial EXCEPT ![i] = {}]
  <2>1. PICK s \in Procs :
          /\ s.at \in {"fail", "stage"} /\ s.item = r.item /\ s.verified = r.verified
          /\ s.fd = {} /\ ProcGoesOn(p, s)
    BY <1>1, <1>4, RetryIs
  <2>2. ProcSound(s)'
    BY <1>1, <1>2, <1>4, <2>1 DEF ProcSound, Staging, Fresh, Placed
  <2> QED BY <1>2, <1>4, <2>1, <2>2, UnstagedStep
<1>5. CASE RetryItem(p) /\ UNCHANGED partial
  BY <1>1, <1>2, <1>5, RetryStep DEF Staging, disk
<1> QED BY <1>1, <1>3, <1>4, <1>5 DEF VerifyPartial, Accepts

\* What stands at the place of an item that is staged is somebody else's.
LEMMA InstallExistingStep ==
  ASSUME Alone, NasInv, NEW p \in Processes, InstallExisting(p)
  PROVE  NasInv' /\ Kept
<1>1. PICK r \in Procs : r = proc[p] /\ ProcSound(r)
  BY ProcIs
<1>2. r.at = "install" /\ destination[r.item] # {} /\ UNCHANGED <<disk, acked>>
  BY <1>1 DEF InstallExisting
<1>3. r.item \in foreign
  BY <1>1, <1>2 DEF ProcSound, Staging, Fresh
<1>4. ~Verifies(destination[r.item])
  BY <1>3, SizesAre DEF NasInv, ForeignIsEmpty, Verifies
<1> QED BY <1>1, <1>2, <1>4, FailStep DEF InstallExisting

LEMMA LinkStep ==
  ASSUME Alone, NasInv, NEW p \in Processes, Link(p)
  PROVE  NasInv' /\ Kept
<1>1. PICK r \in Procs : r = proc[p] /\ ProcSound(r)
  BY ProcIs
<1> DEFINE i == r.item
<1>2. /\ r.at = "install" /\ i \in ManifestItems /\ destination[i] = {}
      /\ UNCHANGED <<bytes, partial, foreign, acked>>
      /\ destination' = [destination EXCEPT ![i] = partial[i]]
  BY <1>1 DEF Link, Procs
<1>3. Verifies(partial[i]) /\ Fresh(i) /\ partial[i] # {}
  BY <1>1, <1>2 DEF ProcSound, Staging, Verifies
<1>4. i \notin foreign
  BY <1>2 DEF NasInv, ForeignIsEmpty
<1>5. PICK s \in Procs :
        /\ s.at = "unlink" /\ s.item = r.item /\ s.verified = r.verified /\ s.offset = r.offset
        /\ s.fd = r.fd /\ ProcGoesOn(p, s)
  <2>1. NasGoto(p, "unlink")
    BY <1>1, <1>3 DEF Link
  <2> QED BY <1>1, <2>1, GotoIs DEF NasPoints
<1>6. /\ destination'[i] = partial[i]
      /\ \A j \in ManifestItems : j # i => destination'[j] = destination[j]
  BY <1>2 DEF NasInv, NasTypeOK
<1>7. ProcSound(s)'
  <2>1. Placed(i)'
    BY <1>2, <1>3, <1>4, <1>6 DEF Placed
  <2>2. \A j \in ManifestItems : (Placed(j) => Placed(j)') /\ (j # i /\ Fresh(j) => Fresh(j)')
    BY <1>2, <1>3, <1>4, <1>6 DEF Placed, Fresh
  <2>3. \A j \in ManifestItems : j > i => j # i
    BY DEF ManifestItems, Procs
  <2>4. r.verified \subseteq ManifestItems
    BY DEF Procs
  <2> QED BY <1>1, <1>2, <1>5, <2>1, <2>2, <2>3, <2>4 DEF ProcSound, Staging
<1>8. partial[i] \in {{}, partial[i]} /\ partial' = [partial EXCEPT ![i] = partial[i]]
      /\ foreign' = foreign \ {i}
  BY <1>2, <1>4 DEF NasInv, NasTypeOK
<1> QED BY <1>2, <1>3, <1>5, <1>7, <1>8, PlacedStep

LEMMA NoLinksStep ==
  ASSUME Alone, NasInv, NEW p \in Processes, NoLinks(p)
  PROVE  NasInv' /\ Kept
<1>1. PICK r \in Procs : r = proc[p] /\ ProcSound(r)
  BY ProcIs
<1>2. r.at = "install" /\ NasGoto(p, "rename") /\ UNCHANGED <<disk, acked>>
  BY <1>1 DEF NoLinks
<1>3. \A s \in Procs : s.at = "rename" /\ s.item = r.item /\ s.verified = r.verified => ProcSound(s)
  BY <1>1, <1>2 DEF ProcSound, Staging
<1> QED BY <1>1, <1>2, <1>3, NasGotoStep DEF NasPoints

LEMMA RenameStep ==
  ASSUME Alone, NasInv, NEW p \in Processes, Rename(p)
  PROVE  NasInv' /\ Kept
<1>1. PICK r \in Procs : r = proc[p] /\ ProcSound(r)
  BY ProcIs
<1> DEFINE i == r.item
<1>2. r.at = "rename" /\ i \in ManifestItems /\ UNCHANGED <<bytes, acked>>
  BY <1>1 DEF Rename, Procs
<1>3. Verifies(partial[i]) /\ Fresh(i) /\ partial[i] # {}
  BY <1>1, <1>2 DEF ProcSound, Staging, Verifies
<1>4. /\ destination' = [destination EXCEPT ![i] = partial[i]]
      /\ foreign' = foreign \ {i} /\ partial' = [partial EXCEPT ![i] = {}]
      /\ NasGoto(p, "acknowledge")
  BY <1>1, <1>3 DEF Rename
<1>5. PICK s \in Procs :
        /\ s.at = "acknowledge" /\ s.item = r.item /\ s.verified = r.verified /\ s.offset = r.offset
        /\ s.fd = r.fd /\ ProcGoesOn(p, s)
  BY <1>1, <1>4, GotoIs DEF NasPoints
<1>6. /\ destination'[i] = partial[i]
      /\ \A j \in ManifestItems : j # i => destination'[j] = destination[j]
  BY <1>2, <1>4 DEF NasInv, NasTypeOK
<1>7. ProcSound(s)'
  <2>1. Placed(i)'
    BY <1>3, <1>4, <1>6 DEF Placed
  <2>2. \A j \in ManifestItems : (Placed(j) => Placed(j)') /\ (j # i /\ Fresh(j) => Fresh(j)')
    BY <1>3, <1>4, <1>6 DEF Placed, Fresh
  <2>3. \A j \in ManifestItems : j > i => j # i
    BY DEF ManifestItems, Procs
  <2>4. r.verified \subseteq ManifestItems
    BY DEF Procs
  <2> QED BY <1>1, <1>2, <1>5, <2>1, <2>2, <2>3, <2>4 DEF ProcSound, Staging
<1>8. {} \in {{}, partial[i]}
  OBVIOUS
<1> QED BY <1>2, <1>3, <1>4, <1>5, <1>7, <1>8, PlacedStep

LEMMA UnlinkStep ==
  ASSUME Alone, NasInv, NEW p \in Processes, Unlink(p)
  PROVE  NasInv' /\ Kept
<1>1. PICK r \in Procs : r = proc[p] /\ ProcSound(r)
  BY ProcIs
<1>2. /\ r.at = "unlink" /\ r.item \in ManifestItems
      /\ UNCHANGED <<bytes, destination, foreign, acked>>
      /\ partial' = [partial EXCEPT ![r.item] = {}] /\ NasGoto(p, "acknowledge")
  BY <1>1 DEF Unlink, Procs
<1>3. PICK s \in Procs :
        /\ s.at = "acknowledge" /\ s.item = r.item /\ s.verified = r.verified /\ s.offset = r.offset
        /\ s.fd = r.fd /\ ProcGoesOn(p, s)
  BY <1>1, <1>2, GotoIs DEF NasPoints
<1>4. ProcSound(s)' /\ Placed(r.item)
  BY <1>1, <1>2, <1>3 DEF ProcSound, Staging, Fresh, Placed
<1> QED BY <1>2, <1>3, <1>4, UnstagedStep

LEMMA AcknowledgeItemStep ==
  ASSUME Alone, NasInv, NEW p \in Processes, AcknowledgeItem(p)
  PROVE  NasInv' /\ Kept
<1>1. PICK r \in Procs : r = proc[p] /\ ProcSound(r)
  BY ProcIs
<1> DEFINE i == r.item
<1>2. r.at = "acknowledge" /\ i \in ManifestItems /\ UNCHANGED disk
  BY <1>1 DEF AcknowledgeItem, Procs
<1>3. CASE p \notin holder
  BY <1>2, <1>3, FailStep DEF AcknowledgeItem
<1>4. CASE p \in holder
  <2>1. Placed(i) /\ acked' = acked \cup {i}
    BY <1>1, <1>2, <1>4 DEF ProcSound, AcknowledgeItem
  <2>2. UNCHANGED <<bytes, partial, destination, foreign>>
    BY <1>2 DEF disk
  <2>3. InstalledIsWhole'
    BY <2>1, <2>2 DEF Placed, NasInv, InstalledIsWhole, Verifies
  <2>4. PICK s \in Procs : ProcGoesOn(p, s) /\ ProcSound(s)
    <3>1. CASE i = ItemCount
      BY <1>1, <1>4, <3>1, NoProcIs DEF AcknowledgeItem, Leave, ProcGoesOn
    <3>2. CASE i # ItemCount
      <4> DEFINE next == i + 1
                 s == [r EXCEPT !.at = "item", !.item = next, !.attempt = 1, !.offset = 0]
      <4>1. ProcGoesOn(p, s)
        BY <1>1, <1>4, <3>2 DEF AcknowledgeItem, ProcGoesOn, NasInv, NasTypeOK
      <4>2. next \in ManifestItems /\ \A j \in ManifestItems : j >= next => j > i
        BY <1>2, <3>2, SizesAre DEF ManifestItems
      <4> HIDE DEF next
      <4>3. s \in Procs /\ s.at = "item" /\ s.item = next /\ s.verified = r.verified
        BY <4>2, SizesAre DEF Procs, NasPoints
      <4> HIDE DEF s
      <4>4. \A j \in ManifestItems : j > next \/ j = next => j > i
        BY <4>2 DEF ManifestItems
      <4>5. ProcSound(s)
        BY <1>1, <1>2, <4>3, <4>4 DEF ProcSound, Staging
      <4> QED BY <4>1, <4>3, <4>5
    <3> QED BY <3>1, <3>2
  <2>5. ProcSound(s)'
    BY <2>2, <2>4 DEF ProcSound, Fresh, Placed, Verifies
  <2>6. proc' \in [Processes -> Procs] /\ ProcsSound'
    BY <2>4, <2>5, ProcsSoundOn
  <2>7. NasTypeOK' /\ PathsApart' /\ ForeignIsEmpty'
    BY <1>2, <2>1, <2>2, <2>6 DEF NasInv, NasTypeOK, PathsApart, ForeignIsEmpty
  <2>8. Kept
    BY <2>2 DEF Kept, Verifies
  <2> QED BY <2>3, <2>6, <2>7, <2>8 DEF NasInv
<1> QED BY <1>3, <1>4

\* A step that only the server or nobody takes.
LEMMA NobodyInstalls ==
  ASSUME NasInv, UNCHANGED <<disk, acked, proc>>
  PROVE  NasInv' /\ Kept
<1>1. UNCHANGED <<bytes, partial, destination, foreign, acked, proc>>
  BY DEF disk
<1>2. ProcsSound'
  BY <1>1 DEF NasInv, ProcsSound, ProcSound, Fresh, Placed, Verifies
<1>3. NasTypeOK' /\ PathsApart' /\ ForeignIsEmpty' /\ InstalledIsWhole' /\ Kept
  BY <1>1 DEF NasInv, NasTypeOK, PathsApart, ForeignIsEmpty, InstalledIsWhole, Kept, Verifies
<1> QED BY <1>2, <1>3 DEF NasInv

LEMMA NasNextInv == Alone /\ NasInv /\ [NasNext]_nasVars => NasInv' /\ Kept
<1> SUFFICES ASSUME Alone, NasInv, [NasNext]_nasVars PROVE NasInv' /\ Kept
  OBVIOUS
<1>1. CASE UNCHANGED nasVars
  BY <1>1, NobodyInstalls DEF nasVars, disk
<1>2. CASE LoseHold
  BY <1>2, NobodyInstalls DEF LoseHold
<1>3. ASSUME NEW i \in ManifestItems, PutForeign(i) PROVE NasInv' /\ Kept
  BY <1>3, PutForeignStep
<1>4. ASSUME NEW p \in Processes,
             \/ TakeLease(p) \/ Die(p) \/ FailRun(p) \/ NoticeLoss(p) \/ Prepare(p) \/ NextItem(p)
             \/ Stage(p) \/ DownloadFails(p) \/ OpenPartial(p) \/ EndBody(p) \/ BreakBody(p)
      PROVE  NasInv' /\ Kept
  <2>1. CASE TakeLease(p)
    BY <2>1, FailStep DEF TakeLease
  <2>2. CASE Die(p) \/ FailRun(p)
    BY <2>2, LeaveStep DEF Die, FailRun
  <2>3. CASE NoticeLoss(p)
    BY <2>3, FailStep DEF NoticeLoss
  <2> QED BY <1>4, <2>1, <2>2, <2>3, PrepareStep, NextItemStep, StageStep, DownloadFailsStep,
             OpenPartialStep, EndBodyStep, BreakBodyStep
<1>5. ASSUME NEW p \in Processes, NEW all \in BOOLEAN, DownloadAnswered(p, all) PROVE NasInv' /\ Kept
  BY <1>5, DownloadAnsweredStep
<1>6. ASSUME NEW p \in Processes, NEW right \in BOOLEAN, WriteByte(p, right) PROVE NasInv' /\ Kept
  BY <1>6, WriteByteStep
<1>7. ASSUME NEW p \in Processes,
             \/ VerifyPartial(p) \/ InstallExisting(p) \/ Link(p) \/ NoLinks(p) \/ Rename(p)
             \/ Unlink(p) \/ AcknowledgeItem(p)
      PROVE  NasInv' /\ Kept
  BY <1>7, VerifyPartialStep, InstallExistingStep, LinkStep, NoLinksStep, RenameStep, UnlinkStep,
     AcknowledgeItemStep
<1> QED BY <1>1, <1>2, <1>3, <1>4, <1>5, <1>6, <1>7 DEF NasNext

\* Of a process alone on its disk, however often it dies, is cut off or loses
\* its lease: what it put at a destination is the whole item, and what it
\* acknowledged is there (archive-agent.ts:385, :576).
THEOREM InstalledStaysWhole ==
  ASSUME Alone
  PROVE  NasSpec => []InstalledIsWhole
<1>1. NasInv /\ [NasNext]_nasVars => NasInv'
  BY NasNextInv
<1>2. NasInv => InstalledIsWhole
  BY DEF NasInv
<1> QED BY <1>1, <1>2, NasInitInv, PTL DEF NasSpec

\* Of a process alone on its disk: a file staged whole stays until the
\* destination is whole (archive-agent.ts:405).
THEOREM WholeStaysStaged ==
  ASSUME Alone
  PROVE  NasSpec => StagedWholeIsKept
<1>1. NasInv /\ [NasNext]_nasVars => NasInv'
  BY NasNextInv
<1>2. NasInv /\ [NasNext]_nasVars =>
        [\A i \in ManifestItems : Verifies(partial[i]) =>
           Verifies(partial[i])' \/ Verifies(destination[i])']_nasVars
  BY NasNextInv DEF Kept
<1> QED BY <1>1, <1>2, NasInitInv, PTL DEF NasSpec, StagedWholeIsKept
=============================================================================
