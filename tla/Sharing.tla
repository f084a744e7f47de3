------------------------------ MODULE Sharing ------------------------------
(***************************************************************************)
(* Links that let people without an account see, confirm, comment on,      *)
(* submit to or approve one object, and the approvals that members and     *)
(* links decide: apps/web/src/server/routes/shares.ts, collaboration.ts,   *)
(* and the confirmations of operations.ts.                                 *)
(*                                                                         *)
(* A request through a link is admitted when the link is open and its      *)
(* session live; it begins its key, and writes one batch, later: a link    *)
(* may be revoked, and an approval decided, in between.  A decision takes   *)
(* its time after its key and before its batch, and pages list decisions   *)
(* by that time: in another order, perhaps, than they were recorded.       *)
(***************************************************************************)
EXTENDS Integers, Sequences, FiniteSets

CONSTANTS
  Links,       \* share_links rows; a recipient link stands for its recipient issue too
  Approvals,   \* approval requests
  Members,     \* users who may edit the project
  Owners,      \* the workspace owners among them
  Decisions,   \* what may be decided: approved, changes_requested, rejected
  Requests,    \* approval requests made: <<who asks, who is asked, self-approval allowed>>
  ShKeys,      \* idempotency keys
  ShHandlers,  \* concurrent requests
  MaxBegun     \* bound: requests that begin a key

ASSUME SharingAssumption ==
  /\ Owners \subseteq Members /\ Links \cap Members = {}
  /\ Decisions \subseteq {"approved", "changes_requested", "rejected"}
  /\ Requests \subseteq Members \X Members \X BOOLEAN
  /\ MaxBegun \in Nat

VARIABLES
  share,     \* share[l]: the row of link l
  withdrawn, \* the links whose object may no longer be shown
  session,   \* the links somebody has exchanged for a session that still runs
  seen,      \* delivery events of links: viewed, downloaded
  approval,  \* approval[a]: the row of approval a
  decision,  \* decision[a]: its approval_decisions, as they were recorded
  made,      \* made[<<o, k>>]: how many rows operation o inserted under key k
  keyRow,    \* idempotency_records
  shReq      \* shReq[h]: what request h has read

sharingVars == <<share, withdrawn, session, seen, approval, decision, made, keyRow, shReq>>

\* PURPOSE_ACTIONS; a recipient link is made with "confirm" and "view" only.
PurposeActions ==
  [viewer    |-> {"view", "download"},
   recipient |-> {"view", "confirm"},
   commenter |-> {"view", "comment", "download"},
   approver  |-> {"view", "comment", "approve", "download"},
   candidate |-> {"view", "comment", "submit"}]

\* An operation is <<who, verb, what>>: the actor and the operation name of
\* the key.  One without an object of its own is for all of them: "any".
ShareOps ==
  Links \X {"confirm", "comment", "submit", "approve"} \X {"any"}
    \cup Members \X {"create", "request", "decide"} \X {"any"}
    \cup Members \X {"manual", "copied"} \X Links

Keyed == INSTANCE Idempotency WITH
  Operations <- ShareOps, Keys <- ShKeys, NoRef <- <<>>, record <- keyRow,
  Bodies <- {<<>>} \cup Decisions \X Approvals

NoShare == [state |-> "none", purpose |-> "none", for |-> {}]
NoApproval == [status |-> "none", version |-> 0, owner |-> {}, approver |-> {}, self |-> FALSE]
\* `after` is how many decisions were recorded when a decision took its time.
NoShReq == [at |-> "idle", op |-> <<>>, key |-> {}, body |-> <<>>, on |-> {}, status |-> "none",
            version |-> 0, after |-> 0]

SharingInit ==
  /\ share = [l \in Links |-> NoShare]
  /\ withdrawn = {}
  /\ session = {}
  /\ seen = {}
  /\ approval = [a \in Approvals |-> NoApproval]
  /\ decision = [a \in Approvals |-> << >>]
  /\ made = [ok \in ShareOps \X ShKeys |-> 0]
  /\ Keyed!IdempotencyInit
  /\ shReq = [h \in ShHandlers |-> NoShReq]

ShGoto(h, at) == shReq' = [shReq EXCEPT ![h].at = at]
ShFinish(h) == shReq' = [shReq EXCEPT ![h] = NoShReq]
StartKeyed(h, op, k, body, on, status, version) ==
  /\ shReq[h] = NoShReq
  /\ shReq' = [shReq EXCEPT ![h] =
       [at |-> "begin", op |-> op, key |-> k, body |-> body, on |-> on, status |-> status,
        version |-> version, after |-> 0]]
  /\ UNCHANGED <<share, withdrawn, session, seen, approval, decision, made, keyRow>>

----------------------------------------------------------------------------
(* Links.                                                                  *)

\* The batch that issues a call sheet makes a link for each recipient.
MakeRecipientLink(l) ==
  /\ share[l] = NoShare
  /\ share' = [share EXCEPT ![l] =
       [state |-> "open", purpose |-> "recipient", for |-> {}]]
  /\ UNCHANGED <<withdrawn, session, seen, approval, decision, made, keyRow, shReq>>

\* What a link may be for: the issued documents stay as they are, a file may be
\* removed from the cloud and a casting role archived.
MayBeWithdrawn(purpose) == purpose # "recipient"

\* The file is removed or the role archived, whoever holds a link to it ...
WithdrawObject(l) ==
  /\ share[l] # NoShare /\ l \notin withdrawn
  /\ MayBeWithdrawn(share[l].purpose)
  /\ withdrawn' = withdrawn \cup {l}
  /\ UNCHANGED <<share, session, seen, approval, decision, made, keyRow, shReq>>

\* ... or restored: a version uploaded to a removed file makes it active again.
RestoreObject(l) ==
  /\ l \in withdrawn
  /\ withdrawn' = withdrawn \ {l}
  /\ UNCHANGED <<share, session, seen, approval, decision, made, keyRow, shReq>>

\* validateApprovalScope: an approver link needs an approval still pending.
MayScope(purpose, a) == purpose = "approver" => approval[a].status = "requested"

\* POST /shares loads the object before its key begins; `on` holds the purpose,
\* with the approval of an approver link.
StartCreateLink(h, m, k, purpose, a) ==
  /\ MayScope(purpose, a)
  /\ StartKeyed(h, <<m, "create", "any">>, k, <<>>, <<purpose, a>>, "none", 0)

\* POST /shares/:id/revoke; again has no effect.
Revoke(l) ==
  /\ share[l].state \in {"open", "expired"}
  /\ share' = [share EXCEPT ![l].state = "revoked"]
  /\ UNCHANGED <<withdrawn, session, seen, approval, decision, made, keyRow, shReq>>

\* expires_at passes.
ExpireLink(l) ==
  /\ share[l].state = "open"
  /\ share' = [share EXCEPT ![l].state = "expired"]
  /\ UNCHANGED <<withdrawn, session, seen, approval, decision, made, keyRow, shReq>>

\* The 15 minutes of a session pass.
EndSession(l) ==
  /\ l \in session
  /\ session' = session \ {l}
  /\ UNCHANGED <<share, withdrawn, seen, approval, decision, made, keyRow, shReq>>

----------------------------------------------------------------------------
(* Requests through a link.                                                *)

\* assertShareAvailable and assertShareAction.
Permits(l, verb) == share[l].state = "open" /\ verb \in PurposeActions[share[l].purpose]

\* Mutant of InSession: a session is good for its 15 minutes.
OutlivesLink(l, verb) ==
  /\ l \in session
  /\ share[l].state # "none"
  /\ verb \in PurposeActions[share[l].purpose]

\* requirePublicSession.
InSession(l, verb) == l \in session /\ Permits(l, verb)

\* Mutant of Loads: whatever was shared can be loaded.
AlwaysLoads(l) == TRUE

\* loadArtifact.
Loads(l) == l \notin withdrawn

\* The verbs whose handler loads the object before it does anything.
Loading == {"comment", "approve", "download"}

\* POST /exchange: the secret buys a session and the view is recorded next, of
\* an object that may turn out not to load.
Exchange(h, l) ==
  /\ shReq[h] = NoShReq
  /\ Permits(l, "view")
  /\ session' = session \cup {l}
  /\ shReq' = [shReq EXCEPT ![h] = [NoShReq EXCEPT !.at = "record", !.on = <<"viewed", l>>]]
  /\ UNCHANGED <<share, withdrawn, seen, approval, decision, made, keyRow>>

StartDownload(h, l) ==
  /\ shReq[h] = NoShReq
  /\ InSession(l, "download") /\ Loads(l)
  /\ shReq' = [shReq EXCEPT ![h] = [NoShReq EXCEPT !.at = "record", !.on = <<"downloaded", l>>]]
  /\ UNCHANGED <<share, withdrawn, session, seen, approval, decision, made, keyRow>>

\* INSERT OR IGNORE: one event of each type per link.
RecordSeen(h) ==
  /\ shReq[h].at = "record"
  /\ seen' = seen \cup {shReq[h].on}
  /\ ShFinish(h)
  /\ UNCHANGED <<share, withdrawn, session, approval, decision, made, keyRow>>

\* POST /confirm, /comment and /submit; only a comment loads the object first.
StartThroughLink(h, l, verb, k) ==
  /\ verb \in {"confirm", "comment", "submit"}
  /\ InSession(l, verb)
  /\ verb \in Loading => Loads(l)
  /\ StartKeyed(h, <<l, verb, "any">>, k, <<>>, l, "none", 0)

\* POST /approve reads the approval before its key begins.
StartApprove(h, l, k, says) ==
  /\ InSession(l, "approve") /\ Loads(l)
  /\ LET a == CHOOSE a \in Approvals : share[l].for = {a} IN
       StartKeyed(h, <<l, "approve", "any">>, k, <<says, a>>, a,
                  approval[a].status, approval[a].version)

----------------------------------------------------------------------------
(* Requests of members.                                                    *)

\* POST /approvals.
StartRequest(h, m, k, a, approver, self) ==
  /\ approval[a] = NoApproval
  /\ <<m, approver, self>> \in Requests
  /\ approver = m => self
  /\ StartKeyed(h, <<m, "request", "any">>, k, <<>>, <<a, approver, self>>, "none", 0)

\* POST /approvals/:id/decisions, refused before the key when it is decided.
StartDecide(h, m, k, a, says) ==
  /\ approval[a].status = "requested"
  /\ m \in approval[a].approver \cup Owners
  /\ m \in approval[a].owner => approval[a].self
  /\ StartKeyed(h, <<m, "decide", "any">>, k, <<says, a>>, a, "requested", approval[a].version)

\* POST .../confirm-manual and .../link-copied.
StartOnRecipient(h, m, verb, k, l) ==
  /\ verb \in {"manual", "copied"}
  /\ share[l].purpose = "recipient"
  /\ StartKeyed(h, <<m, verb, l>>, k, <<>>, l, "none", 0)

----------------------------------------------------------------------------
(* The key, the batch and what may go wrong.                               *)

\* created_at is taken between the key and the batch: later than that of every
\* decision recorded by now, in any order with those recorded until the batch.
RecordedBefore(r) ==
  IF r.op[2] \in {"decide", "approve"} THEN Len(decision[r.on]) ELSE 0

BeginKey(h) ==
  LET r == shReq[h] IN
  /\ r.at = "begin"
  /\ Cardinality({ok \in ShareOps \X ShKeys : keyRow[ok] # Keyed!NoRecord}) < MaxBegun
  /\ Keyed!Begin(r.op, r.key, r.body)
  /\ shReq' = [shReq EXCEPT
       ![h].at = IF r.op[2] = "approve" /\ r.status # "requested" THEN "fail" ELSE "batch",
       ![h].after = RecordedBefore(r)]
  /\ UNCHANGED <<share, withdrawn, session, seen, approval, decision, made>>

\* A completed key answers as it did, any other known key with 409.
AnswerKnown(h) ==
  LET r == shReq[h] IN
  /\ r.at = "begin"
  /\ Keyed!Replays(r.op, r.key, r.body) \/ Keyed!Refuses(r.op, r.key, r.body)
  /\ ShFinish(h)
  /\ UNCHANGED <<share, withdrawn, session, seen, approval, decision, made, keyRow>>

Confirmations(l) ==
  {ok \in ShareOps \X ShKeys : made[ok] > 0 /\ ok[1] \in
     {<<l, "confirm", "any">>} \cup {<<m, "manual", l>> : m \in Members}}

Copies == {ok \in ShareOps \X ShKeys : made[ok] > 0 /\ ok[1][2] = "copied"}

\* Mutant of ShBatchHolds: the external decision carries no guard row.
DecisionUnguarded(r) == TRUE

\* The constraints a batch may meet: UNIQUE (recipient issue, key), UNIQUE
\* event key, the guard row of an external decision, and the trigger that
\* keeps a recipient issue from being given another link.
ShBatchHolds(r) ==
  CASE r.op[2] \in {"confirm", "manual"} -> ~\E ok \in Confirmations(r.on) : ok[2] = r.key
    [] r.op[2] = "copied" -> ~\E ok \in Copies : ok[2] = r.key
    [] r.op[2] = "approve" ->
         approval[r.on].status = "requested" /\ approval[r.on].version = r.version
    [] r.op[2] = "create" -> r.on[1] # "recipient"
    [] OTHER -> TRUE

\* Mutant of Decided: the status is set whatever it was.
DecidedAnyway(a, says) ==
  [approval EXCEPT ![a].status = says, ![a].version = @ + 1]

\* UPDATE approvals ... WHERE status = 'requested'.
Decided(a, says) ==
  IF approval[a].status = "requested"
    THEN [approval EXCEPT ![a].status = says, ![a].version = @ + 1]
    ELSE approval

\* Mutant of CountRow: the row is inserted and the key is left in progress.
CountRowOnly(r) ==
  /\ made' = [made EXCEPT ![<<r.op, r.key>>] = @ + 1]
  /\ keyRow' = keyRow

CountRow(r) ==
  /\ made' = [made EXCEPT ![<<r.op, r.key>>] = @ + 1]
  /\ keyRow' = Keyed!Completed(r.op, r.key, <<r.op, r.key>>)

CommitRow(h, verb) ==
  LET r == shReq[h] IN
  /\ r.at = "batch"
  /\ r.op[2] = verb
  /\ ShBatchHolds(r)
  /\ CountRow(r)
  /\ ShGoto(h, "answer")
  /\ UNCHANGED <<share, withdrawn, session, seen, approval, decision>>

ConfirmThroughLink(h) == CommitRow(h, "confirm")
CommentThroughLink(h) == CommitRow(h, "comment")
SubmitCandidate(h) == CommitRow(h, "submit")
ConfirmManually(h) == CommitRow(h, "manual")
MarkLinkCopied(h) == CommitRow(h, "copied")

\* The object was loaded before the key began, and may be withdrawn since.
CommitLink(h, l) ==
  LET r == shReq[h] IN
  /\ r.at = "batch"
  /\ r.op[2] = "create"
  /\ ShBatchHolds(r)
  /\ share[l] = NoShare
  /\ share' = [share EXCEPT ![l] =
       [state |-> "open", purpose |-> r.on[1],
        for |-> IF r.on[1] = "approver" THEN {r.on[2]} ELSE {}]]
  /\ withdrawn' \in {withdrawn, withdrawn \cup {l}}
  /\ CountRow(r)
  /\ ShGoto(h, "answer")
  /\ UNCHANGED <<session, seen, approval, decision>>

\* Another request may have used the model's slot for the new approval.
CommitApproval(h) ==
  LET r == shReq[h] IN
  /\ r.at = "batch"
  /\ r.op[2] = "request"
  /\ approval[r.on[1]] = NoApproval
  /\ approval' = [approval EXCEPT ![r.on[1]] =
       [status |-> "requested", version |-> 1, owner |-> {r.op[1]}, approver |-> {r.on[2]},
        self |-> r.on[3]]]
  /\ CountRow(r)
  /\ ShGoto(h, "answer")
  /\ UNCHANGED <<share, withdrawn, session, seen, decision>>

CommitDecision(h, verb) ==
  LET r == shReq[h] IN
  /\ r.at = "batch"
  /\ r.op[2] = verb
  /\ ShBatchHolds(r)
  /\ decision' = [decision EXCEPT ![r.on] =
       Append(@, [by |-> r.op[1], says |-> r.body[1], after |-> r.after])]
  /\ approval' = Decided(r.on, r.body[1])
  /\ CountRow(r)
  /\ ShGoto(h, "answer")
  /\ UNCHANGED <<share, withdrawn, session, seen>>

\* A member's decision is inserted whether or not another came first.
DecideAsMember(h) == CommitDecision(h, "decide")
ApproveThroughLink(h) == CommitDecision(h, "approve")

AbortRow(h) ==
  LET r == shReq[h] IN
  /\ r.at = "batch"
  /\ ~ShBatchHolds(r)
  /\ ShGoto(h, "fail")
  /\ UNCHANGED <<share, withdrawn, session, seen, approval, decision, made, keyRow>>

\* The batch ran and its answer did not arrive: the handler takes the error path.
ShLoseAnswer(h) ==
  /\ shReq[h].at = "answer"
  /\ ShGoto(h, "fail")
  /\ UNCHANGED <<share, withdrawn, session, seen, approval, decision, made, keyRow>>

MarkKeyFailed(h) ==
  LET r == shReq[h] IN
  /\ r.at = "fail"
  /\ keyRow' = Keyed!Failed(r.op, r.key)
  /\ ShFinish(h)
  /\ UNCHANGED <<share, withdrawn, session, seen, approval, decision, made>>

\* The answer is sent, or the Worker dies.
ShDrop(h) ==
  /\ shReq[h] # NoShReq
  /\ ShFinish(h)
  /\ UNCHANGED <<share, withdrawn, session, seen, approval, decision, made, keyRow>>

SharingNext ==
  \/ \E l \in Links : MakeRecipientLink(l) \/ Revoke(l) \/ ExpireLink(l) \/ EndSession(l)
                       \/ WithdrawObject(l) \/ RestoreObject(l)
  \/ \E h \in ShHandlers :
       \/ \E l \in Links :
            \/ Exchange(h, l) \/ StartDownload(h, l) \/ CommitLink(h, l)
            \/ \E k \in ShKeys :
                 \/ \E verb \in {"confirm", "comment", "submit"} : StartThroughLink(h, l, verb, k)
                 \/ \E says \in Decisions : StartApprove(h, l, k, says)
                 \/ \E m \in Members, verb \in {"manual", "copied"} :
                      StartOnRecipient(h, m, verb, k, l)
       \/ \E m \in Members, k \in ShKeys, a \in Approvals :
            \/ \E purpose \in DOMAIN PurposeActions : StartCreateLink(h, m, k, purpose, a)
            \/ \E approver \in Members, self \in BOOLEAN :
                 StartRequest(h, m, k, a, approver, self)
            \/ \E says \in Decisions : StartDecide(h, m, k, a, says)
       \/ BeginKey(h) \/ AnswerKnown(h) \/ RecordSeen(h)
       \/ ConfirmThroughLink(h) \/ CommentThroughLink(h) \/ SubmitCandidate(h)
       \/ ConfirmManually(h) \/ MarkLinkCopied(h)
       \/ CommitApproval(h) \/ DecideAsMember(h) \/ ApproveThroughLink(h)
       \/ AbortRow(h) \/ ShLoseAnswer(h) \/ MarkKeyFailed(h) \/ ShDrop(h)

SharingSpec == SharingInit /\ [][SharingNext]_sharingVars

----------------------------------------------------------------------------
(* What pages show.                                                        *)

\* Mutant of DeliveryState: a view is reported before a confirmation.
ViewedFirst(l) ==
  IF <<"viewed", l>> \in seen THEN 2 ELSE IF Confirmations(l) # {} THEN 3 ELSE 1

\* recipientIssueView: 1 not configured, 2 viewed, 3 confirmed.
DeliveryState(l) ==
  IF Confirmations(l) # {} THEN 3 ELSE IF <<"viewed", l>> \in seen THEN 2 ELSE 1

\* recipientState: what a recipient is shown of themselves.
OwnState(l) ==
  [viewed |-> <<"viewed", l>> \in seen,
   confirmed |-> \E k \in ShKeys : made[<<<<l, "confirm", "any">>, k>>] > 0]

\* ORDER BY created_at, id: p[n] is the decision listed n-th, after every one
\* recorded before it took its time.
ListOrders(a) ==
  {p \in [DOMAIN decision[a] -> DOMAIN decision[a]] :
     \A m, n \in DOMAIN p :
       /\ p[m] = p[n] => m = n
       /\ p[m] <= decision[a][p[n]].after => m < n}

\* approvalView: an approval with its decisions in the order of their times,
\* whichever those were.
ApprovalViews(a) ==
  {[status |-> approval[a].status, decisions |-> [n \in DOMAIN p |-> decision[a][p[n]]]] :
     p \in ListOrders(a)}

\* publicShareView: an approver is offered the decision while it is pending.
ShareView(l) ==
  [recipient |-> OwnState(l),
   approvals |-> UNION {ApprovalViews(a) : a \in share[l].for},
   mayApprove |-> /\ "approve" \in PurposeActions[share[l].purpose]
                  /\ \A a \in share[l].for : approval[a].status = "requested"]

----------------------------------------------------------------------------
(* Properties.                                                             *)

\* However many members and links decide at once, an approval is pending exactly
\* while no decision is listed, and its status is what the decision recorded first
\* says: a later one never replaces it (collaboration.ts:576, shares.ts:662).
\* That decision heads the list, unless one that took its time before the first
\* was recorded came to its batch later (collaboration.ts:151, :557).
FirstDecisionStands ==
  \A a \in Approvals : approval[a] # NoApproval => \A view \in ApprovalViews(a) :
    IF view.decisions = << >> THEN view.status = "requested"
    ELSE LET first == decision[a][1] IN
         /\ view.status = first.says
         /\ \E n \in DOMAIN view.decisions : view.decisions[n] = first
         /\ \/ view.decisions[1] = first
            \/ \E n \in 2..Len(decision[a]) : decision[a][n].after = 0

\* A decision through a link is the first: links never add to a decided
\* approval, though members may (shares.ts:646).
LinksDecideFirst ==
  \A a \in Approvals : \A n \in DOMAIN decision[a] : decision[a][n].by \in Links => n = 1

\* A key is completed exactly when one row was inserted under it, whatever is
\* retried, refused or lost (idempotency.ts:35, :108).
KeysMatchRows ==
  \A o \in ShareOps, k \in ShKeys :
    made[<<o, k>>] = IF keyRow[<<o, k>>].state = "completed" THEN 1 ELSE 0

\* The page behind a link agrees with the members' pages: it offers a decision
\* only while nobody has made one, and shows nothing of a recipient that the
\* producer is not shown (shares.ts:818, :825, operations.ts:3403).
PagesAgree ==
  \A l \in Links : share[l] # NoShare =>
    LET page == ShareView(l) IN
    /\ page.mayApprove => \A view \in page.approvals : view.decisions = << >>
    /\ page.recipient.viewed => DeliveryState(l) >= 2
    /\ page.recipient.confirmed => DeliveryState(l) = 3

\* Approvals, keys and pages agree with the decisions and rows that were made.
DecisionsStand == FirstDecisionStands /\ LinksDecideFirst /\ KeysMatchRows /\ PagesAgree

Closed(l) ==
  /\ share[l].state \in {"expired", "revoked"}
  /\ \A h \in ShHandlers :
       /\ shReq[h].at = "record" => shReq[h].on \notin {<<"viewed", l>>, <<"downloaded", l>>}
       /\ \A verb \in {"confirm", "comment", "submit", "approve"} :
            shReq[h].op # <<l, verb, "any">>

\* Once a link is expired or revoked and the requests it had admitted have
\* ended, nothing is seen, confirmed, said, submitted or decided through it
\* any more, though its sessions still run (shares.ts:1102).
NothingThroughClosed ==
  [][\A l \in Links : Closed(l) =>
       /\ Closed(l)'
       /\ \A o \in ShareOps, k \in ShKeys : o[1] = l => made'[<<o, k>>] = made[<<o, k>>]
       /\ \A type \in {"viewed", "downloaded"} : <<type, l>> \in seen' => <<type, l>> \in seen
    ]_sharingVars

Withdrawn(l) ==
  /\ l \in withdrawn
  /\ \A h \in ShHandlers :
       /\ shReq[h].at = "record" => shReq[h].on # <<"downloaded", l>>
       /\ \A verb \in Loading : shReq[h].op # <<l, verb, "any">>

\* While the object of a link is withdrawn and the requests admitted before it
\* have ended, nothing of it is downloaded and nothing said or decided of it
\* through the link, which itself stays open (shares.ts:407, :613, :740).
NothingOfWithdrawn ==
  [][\A l \in Links : Withdrawn(l) =>
       /\ Withdrawn(l)' \/ l \notin withdrawn'
       /\ \A verb \in Loading, k \in ShKeys : <<l, verb, "any">> \in ShareOps =>
            made'[<<<<l, verb, "any">>, k>>] = made[<<<<l, verb, "any">>, k>>]
       /\ <<"downloaded", l>> \in seen' => <<"downloaded", l>> \in seen
    ]_sharingVars

\* What the producer is shown of a recipient never goes back, in whichever order
\* views, manual and recipient confirmations arrive (operations.ts:3403).
DeliveryNeverGoesBack ==
  [][\A l \in Links : share[l] # NoShare => DeliveryState(l)' >= DeliveryState(l)]_sharingVars

Settled(a) ==
  /\ approval[a].status \notin {"none", "requested"}
  /\ \A h \in ShHandlers, m \in Members :
       shReq[h].on = a => shReq[h].op # <<m, "decide", "any">>

\* Once an approval is decided and the members who were deciding it have ended,
\* neither it nor its decisions ever change, whatever a link is still offered
\* and whoever retries (collaboration.ts:524, shares.ts:646).
DecidedSettles ==
  [][\A a \in Approvals : Settled(a) =>
       Settled(a)' /\ approval'[a] = approval[a] /\ decision'[a] = decision[a]]_sharingVars

\* A share only moves on: closed stays closed, confirmed stays confirmed, decided
\* stays decided, and what is withdrawn is out of reach.
SharesMoveOn ==
  NothingThroughClosed /\ NothingOfWithdrawn /\ DeliveryNeverGoesBack /\ DecidedSettles

=============================================================================
