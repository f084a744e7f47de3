---------------------------- MODULE Idempotency ----------------------------
(***************************************************************************)
(* The records that make a repeated request answer like the first one:     *)
(* apps/web/src/server/idempotency.ts over idempotency_records.            *)
(*                                                                         *)
(* A record is begun on its own, before the work; it is completed in the   *)
(* batch of the work, and marked failed on its own again.  It expires      *)
(* after 24 hours and is never deleted.                                    *)
(***************************************************************************)
EXTENDS Naturals

CONSTANTS
  Operations,  \* what a key is used for: the operation, with its object
  Keys,        \* Idempotency-Key headers
  Bodies,      \* request bodies
  NoRef        \* response_ref of a record that is not completed

VARIABLE record  \* record[<<o, k>>]: the row of operation o under key k

NoRecord == [state |-> "none", body |-> NoRef, ref |-> NoRef, expired |-> FALSE]

IdempotencyInit == record = [ok \in Operations \X Keys |-> NoRecord]

\* The key is new: INSERT OR IGNORE makes the record this request owns.
Begin(o, k, b) ==
  /\ record[<<o, k>>] = NoRecord
  /\ record' = [record EXCEPT ![<<o, k>>] = [NoRecord EXCEPT !.state = "running", !.body = b]]

\* The key was used for this very request and its work is done.
Replays(o, k, b) ==
  /\ record[<<o, k>>].state = "completed"
  /\ record[<<o, k>>].body = b
  /\ ~record[<<o, k>>].expired

\* In progress, failed, expired, or used with another body: always a 409.
Refuses(o, k, b) == record[<<o, k>>] # NoRecord /\ ~Replays(o, k, b)

\* completeIdempotentOperation, a statement of the work's own batch.
Completed(o, k, ref) ==
  IF record[<<o, k>>].state = "running"
    THEN [record EXCEPT ![<<o, k>>].state = "completed", ![<<o, k>>].ref = ref]
    ELSE record

\* failIdempotentOperation: it leaves alone what is not running.
Failed(o, k) ==
  IF record[<<o, k>>].state = "running"
    THEN [record EXCEPT ![<<o, k>>].state = "failed"]
    ELSE record

\* expires_at passes.
Expire(o, k) ==
  /\ record[<<o, k>>] # NoRecord
  /\ ~record[<<o, k>>].expired
  /\ record' = [record EXCEPT ![<<o, k>>].expired = TRUE]
=============================================================================
