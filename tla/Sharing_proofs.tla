-------------------------- MODULE Sharing_proofs --------------------------
(***************************************************************************)
(* Sharing and Discussions, for any links, members, approvals, comments    *)
(* and bounds: approvals, keys and pages agree with the decisions and rows *)
(* that were made, a share only moves on, and the activities of an object  *)
(* tell how each of its comments came to be resolved or open.              *)
(*                                                                         *)
(* Two facts carry Sharing.  A key belongs to the request that began it,   *)
(* which alone may count a row under it.  And what a handler checked       *)
(* before its key began, that somebody asked for the approval or what a    *)
(* link is for, is still true when its batch runs; that the approval is    *)
(* still pending is not, which is why the batch of a link checks it again. *)
(*                                                                         *)
(* Discussions rests on the version guard: a panel that shows a comment    *)
(* under its version shows whether it is resolved.                         *)
(***************************************************************************)
EXTENDS Sharing, Discussions, FiniteSetTheorems, TLAPS

----------------------------------------------------------------------------
(* Sharing.                                                               *)

Purposes == DOMAIN PurposeActions
States == {"open", "expired", "revoked"}
Shares == {NoShare} \cup [state : States, purpose : Purposes, for : SUBSET Approvals]
Statuses == {"requested"} \cup Decisions
ApprovalRows == {NoApproval} \cup
  [status : Statuses, version : Nat, owner : SUBSET Members, approver : SUBSET Members,
   self : BOOLEAN]
DecisionRows == [by : Links \cup Members, says : Decisions, after : Nat]
Bodies == {<<>>} \cup Decisions \X Approvals
KeyStates == {"none", "running", "completed", "failed"}
KeyRefs == {<<>>} \cup (ShareOps \X ShKeys)
KeyRows == [state : KeyStates, body : Bodies, ref : KeyRefs, expired : BOOLEAN]
Points == {"idle", "record", "begin", "batch", "answer", "fail"}

\* What a request is about: a link, an approval, or more than one thing.
Objects == {{}} \cup Links \cup Approvals \cup {"viewed", "downloaded"} \X Links
             \cup Purposes \X Approvals \cup Approvals \X Members \X BOOLEAN
ShareRequests ==
  [at : Points, op : {<<>>} \cup ShareOps, key : {{}} \cup ShKeys, body : Bodies, on : Objects,
   status : {"none"} \cup Statuses, version : Nat, after : Nat]

ShTypeOK ==
  /\ share \in [Links -> Shares]
  /\ withdrawn \in SUBSET Links
  /\ session \in SUBSET Links
  /\ seen \in SUBSET ({"viewed", "downloaded"} \X Links)
  /\ approval \in [Approvals -> ApprovalRows]
  /\ decision \in [Approvals -> Seq(DecisionRows)]
  /\ made \in [ShareOps \X ShKeys -> Nat]
  /\ keyRow \in [ShareOps \X ShKeys -> KeyRows]
  /\ shReq \in [ShHandlers -> ShareRequests]

Asked(a) == approval[a].status # "none"

\* An approver link is for one approval, which somebody asked for.
LinksAreFor ==
  \A l \in Links :
    /\ \A a \in share[l].for : Asked(a)
    /\ share[l].purpose = "approver" => \E a \in Approvals : share[l].for = {a}

\* What a handler may rely on from the checks it made before its key began.
Checked(r) ==
  /\ r.op \in ShareOps => r.key \in ShKeys
  /\ r.at = "record" => r.on \in {"viewed", "downloaded"} \X Links
  /\ r.at \in {"begin", "batch", "answer", "fail"} =>
       /\ r.op \in ShareOps
       /\ r.op[2] \in {"decide", "approve"} =>
            r.on \in Approvals /\ r.body \in Decisions \X Approvals /\ Asked(r.on)
       /\ r.op[2] = "create" =>
            /\ r.on \in Purposes \X Approvals
            /\ r.on[1] = "approver" => Asked(r.on[2])
       /\ r.op[2] = "request" => r.on \in Approvals \X Members \X BOOLEAN

RequestsChecked == \A h \in ShHandlers : \A r \in ShareRequests : shReq[h] = r => Checked(r)

\* The requests that began their key and have not ended.
Began(h) == shReq[h].at \in {"batch", "answer", "fail"}
Pair(h) == <<shReq[h].op, shReq[h].key>>

KeysBelong ==
  /\ \A g, h \in ShHandlers : Began(g) /\ Began(h) /\ Pair(g) = Pair(h) => g = h
  /\ \A h \in ShHandlers :
       /\ Began(h) => keyRow[Pair(h)] # Keyed!NoRecord
       /\ shReq[h].at = "batch" => keyRow[Pair(h)].state = "running"

KeysCount ==
  \A ok \in ShareOps \X ShKeys : made[ok] = IF keyRow[ok].state = "completed" THEN 1 ELSE 0

\* An approval and its decisions.
Agree(row, said) ==
  /\ row = NoApproval => said = << >>
  /\ row # NoApproval => row.status = IF said = << >> THEN "requested" ELSE said[1].says
  /\ \A n \in DOMAIN said : said[n].by \in Links => n = 1

DecisionsAgree == \A a \in Approvals : Agree(approval[a], decision[a])

ShInv ==
  ShTypeOK /\ LinksAreFor /\ RequestsChecked /\ KeysBelong /\ KeysCount /\ DecisionsAgree

----------------------------------------------------------------------------
LEMMA NoShReqIs ==
  NoShReq \in ShareRequests /\ NoShReq.at = "idle" /\ NoShReq.op = <<>> /\ Checked(NoShReq)
<1>1. NoShReq \in ShareRequests /\ NoShReq.at = "idle" /\ NoShReq.op = <<>>
  BY DEF NoShReq, ShareRequests, Points, Bodies, Objects, Statuses
<1>2. <<>> \notin ShareOps
  BY DEF ShareOps
<1> QED BY <1>1, <1>2 DEF Checked

LEMMA NoKeyIs == Keyed!NoRecord \in KeyRows /\ Keyed!NoRecord.state = "none"
BY DEF Keyed!NoRecord, KeyRows, KeyStates, Bodies, KeyRefs

LEMMA PurposesAre ==
  /\ Purposes = {"viewer", "recipient", "commenter", "approver", "candidate"}
  /\ \A p \in Purposes : "approve" \in PurposeActions[p] => p = "approver"
BY DEF Purposes, PurposeActions

LEMMA NoApprovalIs ==
  /\ NoApproval.status = "none"
  /\ \A row \in ApprovalRows : row = NoApproval <=> row.status = "none"
  /\ \A row \in ApprovalRows : row # NoApproval =>
       row \in [status : Statuses, version : Nat, owner : SUBSET Members,
                approver : SUBSET Members, self : BOOLEAN]
<1>1. NoApproval.status = "none"
  BY DEF NoApproval
<1>2. "none" \notin Statuses
  BY SharingAssumption DEF Statuses
<1> QED BY <1>1, <1>2 DEF ApprovalRows

LEMMA ShInitInv == SharingInit => ShInv
<1> SUFFICES ASSUME SharingInit PROVE ShInv
  OBVIOUS
<1>1. NoShare \in Shares /\ NoShare.for = {} /\ NoShare.purpose # "approver"
  BY DEF NoShare, Shares
<1>2. NoApproval \in ApprovalRows
  BY DEF ApprovalRows
<1>3. decision \in [Approvals -> Seq(DecisionRows)]
  BY DEF SharingInit
<1>4. keyRow \in [ShareOps \X ShKeys -> KeyRows]
  BY NoKeyIs DEF SharingInit, Keyed!IdempotencyInit
<1>5. ShTypeOK
  BY <1>1, <1>2, <1>3, <1>4, NoShReqIs DEF SharingInit, ShTypeOK
<1>6. LinksAreFor
  BY <1>1 DEF SharingInit, LinksAreFor
<1>7. RequestsChecked
  BY NoShReqIs DEF SharingInit, RequestsChecked
<1>8. KeysBelong
  BY NoShReqIs DEF SharingInit, KeysBelong, Began
<1>9. KeysCount
  BY NoKeyIs DEF SharingInit, KeysCount, Keyed!IdempotencyInit
<1>10. DecisionsAgree
  BY DEF SharingInit, DecisionsAgree, Agree
<1> QED BY <1>5, <1>6, <1>7, <1>8, <1>9, <1>10 DEF ShInv

----------------------------------------------------------------------------
(* What a step of any kind keeps.                                          *)

\* Nobody starts or goes on otherwise than it may.
RequestsGoOn ==
  /\ shReq' \in [ShHandlers -> ShareRequests]
  /\ \A g \in ShHandlers : \A r \in ShareRequests :
       shReq'[g] = r => shReq[g] = r \/ Checked(r)'
  /\ \A g \in ShHandlers : Began(g)' => Began(g) /\ Pair(g)' = Pair(g)
  /\ \A g \in ShHandlers : shReq'[g].at = "batch" => shReq[g].at = "batch"

AskedStay == \A a \in Approvals : Asked(a) => Asked(a)'

\* Keys stay begun, and those of the requests before their batch stay running.
KeysGoOn ==
  /\ keyRow' \in [ShareOps \X ShKeys -> KeyRows]
  /\ \A ok \in ShareOps \X ShKeys : keyRow[ok] # Keyed!NoRecord => keyRow'[ok] # Keyed!NoRecord
  /\ \A g \in ShHandlers : shReq'[g].at = "batch" =>
       keyRow'[Pair(g)].state = keyRow[Pair(g)].state

LEMMA CheckedStays ==
  ASSUME AskedStay, NEW r \in ShareRequests, Checked(r)
  PROVE  Checked(r)'
<1>1. /\ r.op \in ShareOps => r.key \in ShKeys
      /\ r.at = "record" => r.on \in {"viewed", "downloaded"} \X Links
  BY DEF Checked
<1>2. ASSUME r.at \in {"begin", "batch", "answer", "fail"}
      PROVE /\ r.op \in ShareOps
            /\ r.op[2] \in {"decide", "approve"} =>
                 r.on \in Approvals /\ r.body \in Decisions \X Approvals /\ Asked(r.on)'
            /\ r.op[2] = "create" =>
                 /\ r.on \in Purposes \X Approvals
                 /\ r.on[1] = "approver" => Asked(r.on[2])'
            /\ r.op[2] = "request" => r.on \in Approvals \X Members \X BOOLEAN
  <2>1. /\ r.op \in ShareOps
        /\ r.op[2] \in {"decide", "approve"} =>
             r.on \in Approvals /\ r.body \in Decisions \X Approvals /\ Asked(r.on)
        /\ r.op[2] = "create" =>
             /\ r.on \in Purposes \X Approvals
             /\ r.on[1] = "approver" => Asked(r.on[2])
        /\ r.op[2] = "request" => r.on \in Approvals \X Members \X BOOLEAN
    BY <1>2 DEF Checked
  <2>2. ASSUME r.on \in Purposes \X Approvals, Asked(r.on[2])
        PROVE  Asked(r.on[2])'
    <3>1. r.on[2] \in Approvals
      BY <2>2
    <3> QED BY <2>2, <3>1 DEF AskedStay
  <2>3. ASSUME r.on \in Approvals, Asked(r.on)
        PROVE  Asked(r.on)'
    BY <2>3 DEF AskedStay
  <2> QED BY <2>1, <2>2, <2>3
<1> QED BY <1>1, <1>2 DEF Checked, Purposes

LEMMA ChecksGoOn ==
  ASSUME ShInv, RequestsGoOn, AskedStay
  PROVE  RequestsChecked'
<1> SUFFICES ASSUME NEW g \in ShHandlers, NEW r \in ShareRequests, shReq'[g] = r
             PROVE  Checked(r)'
  BY DEF RequestsChecked, ShareRequests, Objects, Bodies, Statuses, Points, ShareOps
<1>1. shReq[g] = r \/ Checked(r)'
  BY DEF RequestsGoOn
<1>2. CASE shReq[g] = r
  BY <1>2, CheckedStays DEF ShInv, RequestsChecked
<1> QED BY <1>1, <1>2

LEMMA KeysBelongOn ==
  ASSUME ShInv, RequestsGoOn, KeysGoOn
  PROVE  KeysBelong'
<1>1. \A g \in ShHandlers : Began(g) => Pair(g) \in ShareOps \X ShKeys
  <2> SUFFICES ASSUME NEW g \in ShHandlers, Began(g) PROVE Pair(g) \in ShareOps \X ShKeys
    OBVIOUS
  <2>1. PICK r \in ShareRequests : r = shReq[g]
    BY DEF ShInv, ShTypeOK
  <2>2. Checked(r)
    BY <2>1 DEF ShInv, RequestsChecked
  <2> QED BY <2>1, <2>2 DEF Checked, Began, Pair
<1>2. \A g, h \in ShHandlers : Began(g)' /\ Began(h)' /\ Pair(g)' = Pair(h)' => g = h
  BY DEF RequestsGoOn, ShInv, KeysBelong
<1>3. ASSUME NEW g \in ShHandlers, Began(g)'
      PROVE  (keyRow[Pair(g)] # Keyed!NoRecord)'
  <2>1. Began(g) /\ Pair(g)' = Pair(g) /\ Pair(g) \in ShareOps \X ShKeys
    BY <1>1, <1>3 DEF RequestsGoOn
  <2>2. keyRow[Pair(g)] # Keyed!NoRecord
    BY <2>1 DEF ShInv, KeysBelong
  <2>3. keyRow'[Pair(g)] # Keyed!NoRecord
    BY <2>1, <2>2 DEF KeysGoOn
  <2> QED BY <2>1, <2>3 DEF Keyed!NoRecord
<1>4. ASSUME NEW g \in ShHandlers, shReq'[g].at = "batch"
      PROVE  (keyRow[Pair(g)].state = "running")'
  <2>1. shReq[g].at = "batch" /\ Pair(g)' = Pair(g)
    BY <1>4 DEF RequestsGoOn, Began
  <2>2. keyRow[Pair(g)].state = "running"
    BY <2>1 DEF ShInv, KeysBelong
  <2> QED BY <1>4, <2>1, <2>2 DEF KeysGoOn
<1> QED BY <1>2, <1>3, <1>4 DEF KeysBelong

\* A step that writes neither approvals nor rows under a key.
LEMMA QuietStep ==
  ASSUME ShInv, RequestsGoOn, UNCHANGED <<approval, decision, made, keyRow>>,
         share' \in [Links -> Shares], withdrawn' \in SUBSET Links, session' \in SUBSET Links,
         seen' \in SUBSET ({"viewed", "downloaded"} \X Links), LinksAreFor'
  PROVE  ShInv'
<1>1. ShTypeOK'
  BY DEF ShInv, ShTypeOK, RequestsGoOn
<1>2. AskedStay
  BY DEF AskedStay, Asked
<1>3. KeysGoOn
  BY DEF KeysGoOn, ShInv, ShTypeOK
<1>4. KeysCount' /\ DecisionsAgree'
  BY DEF ShInv, KeysCount, DecisionsAgree
<1> QED BY <1>1, <1>2, <1>3, <1>4, ChecksGoOn, KeysBelongOn DEF ShInv

LEMMA LinksStay ==
  ASSUME ShInv, UNCHANGED share, AskedStay
  PROVE  LinksAreFor'
<1>1. \A l \in Links : share[l].for \subseteq Approvals
  BY DEF ShInv, ShTypeOK, Shares, NoShare
<1> QED BY <1>1 DEF ShInv, LinksAreFor, AskedStay

\* Request h goes on as r.
LEMMA OneGoesOn ==
  ASSUME ShInv, NEW h \in ShHandlers, NEW r \in ShareRequests, Checked(r)',
         shReq' = [shReq EXCEPT ![h] = r],
         r.at \in {"batch", "answer", "fail"} =>
           Began(h) /\ r.op = shReq[h].op /\ r.key = shReq[h].key,
         r.at = "batch" => shReq[h].at = "batch"
  PROVE  RequestsGoOn
<1>1. shReq' \in [ShHandlers -> ShareRequests] /\ shReq'[h] = r
      /\ \A g \in ShHandlers : g # h => shReq'[g] = shReq[g]
  BY DEF ShInv, ShTypeOK
<1>2. ASSUME NEW g \in ShHandlers, NEW q \in ShareRequests, shReq'[g] = q
      PROVE  shReq[g] = q \/ Checked(q)'
  <2>1. CASE g = h
    <3>1. q = r
      BY <1>1, <1>2, <2>1
    <3> QED BY <3>1
  <2> QED BY <1>1, <1>2, <2>1
<1>3. \A g \in ShHandlers : Began(g)' => Began(g) /\ Pair(g)' = Pair(g)
  BY <1>1 DEF Began, Pair
<1>4. \A g \in ShHandlers : shReq'[g].at = "batch" => shReq[g].at = "batch"
  BY <1>1
<1> QED BY <1>1, <1>2, <1>3, <1>4 DEF RequestsGoOn

LEMMA NobodyGoesOn ==
  ASSUME ShInv, UNCHANGED shReq
  PROVE  RequestsGoOn
BY DEF RequestsGoOn, Began, Pair, ShInv, ShTypeOK

----------------------------------------------------------------------------
(* Links and what they show.                                               *)

LEMMA LinkRowStep ==
  ASSUME ShInv, NEW l \in Links,
         MakeRecipientLink(l) \/ Revoke(l) \/ ExpireLink(l)
  PROVE  ShInv'
<1>1. PICK state \in States, purpose \in Purposes :
        /\ share[l] = NoShare => purpose # "approver"
        /\ share[l] # NoShare => purpose = share[l].purpose
        /\ share' = [share EXCEPT ![l] =
             [state |-> state, purpose |-> purpose, for |-> share[l].for]]
  <2>0. share[l] \in Shares
    BY DEF ShInv, ShTypeOK
  <2>1. CASE MakeRecipientLink(l)
    <3>0. share[l] = NoShare /\ share[l].for = {}
      BY <2>1 DEF MakeRecipientLink, NoShare
    <3>1. share' = [share EXCEPT ![l] =
             [state |-> "open", purpose |-> "recipient", for |-> share[l].for]]
      BY <2>1, <3>0 DEF MakeRecipientLink
    <3>2. "recipient" \in Purposes
      BY PurposesAre
    <3> QED BY <3>0, <3>1, <3>2 DEF States
  <2>2. ASSUME NEW state \in {"revoked", "expired"}, share[l].state \in {"open", "expired"},
               share' = [share EXCEPT ![l].state = state]
        PROVE  /\ share[l] # NoShare /\ share[l].purpose \in Purposes
               /\ share' = [share EXCEPT ![l] =
                    [state |-> state, purpose |-> share[l].purpose, for |-> share[l].for]]
    <3>1. share[l] # NoShare
      BY <2>2 DEF NoShare
    <3>2. share[l] \in [state : States, purpose : Purposes, for : SUBSET Approvals]
      BY <2>0, <3>1 DEF Shares
    <3>3. [share[l] EXCEPT !.state = state] =
            [state |-> state, purpose |-> share[l].purpose, for |-> share[l].for]
      BY <3>2
    <3>4. share' = [share EXCEPT ![l] = [share[l] EXCEPT !.state = state]]
      BY <2>2 DEF ShInv, ShTypeOK
    <3> QED BY <3>1, <3>2, <3>3, <3>4
  <2>3. CASE Revoke(l)
    BY <2>2, <2>3 DEF Revoke, States
  <2>4. CASE ExpireLink(l)
    BY <2>2, <2>4 DEF ExpireLink, States
  <2> QED BY <2>1, <2>3, <2>4
<1>2. UNCHANGED <<withdrawn, session, seen, approval, decision, made, keyRow, shReq>>
  BY DEF MakeRecipientLink, Revoke, ExpireLink
<1> DEFINE new == [state |-> state, purpose |-> purpose, for |-> share[l].for]
<1>3. new.for \subseteq Approvals
  BY DEF ShInv, ShTypeOK, Shares, NoShare
<1>4. new \in Shares /\ new.for = share[l].for /\ new.purpose = purpose
  BY <1>3 DEF Shares
<1>5. share' = [share EXCEPT ![l] = new]
  BY <1>1
<1> HIDE DEF new
<1>6. share' \in [Links -> Shares]
  BY <1>4, <1>5 DEF ShInv, ShTypeOK
<1>7. LinksAreFor'
  <2> SUFFICES ASSUME NEW m \in Links
               PROVE  /\ \A a \in share'[m].for : Asked(a)'
                      /\ share'[m].purpose = "approver" => \E a \in Approvals : share'[m].for = {a}
    BY DEF LinksAreFor
  <2>1. share'[m] = IF m = l THEN new ELSE share[m]
    BY <1>5 DEF ShInv, ShTypeOK
  <2>2. share'[m].for = share[m].for
    BY <1>4, <2>1
  <2>3. share'[m].purpose = "approver" => share[m].purpose = "approver"
    BY <1>1, <1>4, <2>1
  <2>4. \A a \in share[m].for : Asked(a)'
    BY <1>2 DEF ShInv, LinksAreFor, Asked
  <2> QED BY <2>2, <2>3, <2>4 DEF ShInv, LinksAreFor
<1> QED BY <1>2, <1>6, <1>7, NobodyGoesOn, QuietStep DEF ShInv, ShTypeOK

LEMMA LinkObjectStep ==
  ASSUME ShInv, NEW l \in Links,
         WithdrawObject(l) \/ RestoreObject(l) \/ EndSession(l)
  PROVE  ShInv'
<1>1. /\ withdrawn' \in SUBSET Links /\ session' \in SUBSET Links
      /\ UNCHANGED <<share, seen, approval, decision, made, keyRow, shReq>>
  BY DEF WithdrawObject, RestoreObject, EndSession, ShInv, ShTypeOK
<1>2. LinksAreFor'
  BY <1>1 DEF ShInv, LinksAreFor, Asked
<1> QED BY <1>1, <1>2, NobodyGoesOn, QuietStep DEF ShInv, ShTypeOK

----------------------------------------------------------------------------
(* Requests before their key begins, and their ends.                       *)

\* A request that begins, or ends, as r.
LEMMA StartAs ==
  ASSUME ShInv, NEW h \in ShHandlers, NEW r \in ShareRequests, Checked(r),
         r.at \in {"idle", "record", "begin"},
         shReq' = [shReq EXCEPT ![h] = r],
         session' \in SUBSET Links, seen' \in SUBSET ({"viewed", "downloaded"} \X Links),
         UNCHANGED <<share, withdrawn, approval, decision, made, keyRow>>
  PROVE  ShInv'
<1>1. AskedStay
  BY DEF AskedStay, Asked
<1>2. Checked(r)'
  BY <1>1, CheckedStays
<1>3. RequestsGoOn
  BY <1>2, OneGoesOn
<1>4. LinksAreFor'
  BY <1>1, LinksStay
<1> QED BY <1>3, <1>4, QuietStep DEF ShInv, ShTypeOK

LEMMA FinishStep ==
  ASSUME ShInv, NEW h \in ShHandlers, ShFinish(h),
         session' \in SUBSET Links, seen' \in SUBSET ({"viewed", "downloaded"} \X Links),
         UNCHANGED <<share, withdrawn, approval, decision, made, keyRow>>
  PROVE  ShInv'
BY NoShReqIs, StartAs DEF ShFinish

LEMMA RecordLaterStep ==
  ASSUME ShInv, NEW h \in ShHandlers, NEW l \in Links, Exchange(h, l) \/ StartDownload(h, l)
  PROVE  ShInv'
<1>1. PICK type \in {"viewed", "downloaded"} :
        shReq' = [shReq EXCEPT ![h] = [NoShReq EXCEPT !.at = "record", !.on = <<type, l>>]]
  BY DEF Exchange, StartDownload
<1> DEFINE on == <<type, l>>
           r == [NoShReq EXCEPT !.at = "record", !.on = on]
<1>2. on \in {"viewed", "downloaded"} \X Links /\ on \in Objects
  BY DEF Objects
<1> HIDE DEF on
<1>3. r \in ShareRequests /\ r.at = "record" /\ r.on = on /\ r.op = <<>>
  BY <1>2, NoShReqIs DEF ShareRequests, Points
<1>4. <<>> \notin ShareOps
  BY DEF ShareOps
<1>5. Checked(r)
  BY <1>2, <1>3, <1>4 DEF Checked
<1>6. /\ session' \in SUBSET Links
      /\ UNCHANGED <<share, withdrawn, seen, approval, decision, made, keyRow>>
  BY DEF Exchange, StartDownload, ShInv, ShTypeOK
<1>7. shReq' = [shReq EXCEPT ![h] = r]
  BY <1>1 DEF on
<1> HIDE DEF r
<1> QED BY <1>3, <1>5, <1>6, <1>7, StartAs DEF ShInv, ShTypeOK

LEMMA RecordSeenStep ==
  ASSUME ShInv, NEW h \in ShHandlers, RecordSeen(h)
  PROVE  ShInv'
<1>1. PICK r \in ShareRequests : r = shReq[h]
  BY DEF ShInv, ShTypeOK
<1>2. r.on \in {"viewed", "downloaded"} \X Links
  BY <1>1 DEF RecordSeen, ShInv, RequestsChecked, Checked
<1>3. seen' \in SUBSET ({"viewed", "downloaded"} \X Links)
  BY <1>1, <1>2 DEF RecordSeen, ShInv, ShTypeOK
<1> QED BY <1>3, FinishStep DEF RecordSeen, ShInv, ShTypeOK

\* A request that starts with what it needs.
LEMMA KeyedStart ==
  ASSUME ShInv, NEW h \in ShHandlers, NEW op \in ShareOps, NEW k \in ShKeys, NEW body \in Bodies,
         NEW on \in Objects, NEW status \in {"none"} \cup Statuses, NEW version \in Nat,
         StartKeyed(h, op, k, body, on, status, version),
         op[2] \in {"decide", "approve"} =>
           on \in Approvals /\ body \in Decisions \X Approvals /\ Asked(on),
         op[2] = "create" =>
           on \in Purposes \X Approvals /\ (on[1] = "approver" => Asked(on[2])),
         op[2] = "request" => on \in Approvals \X Members \X BOOLEAN
  PROVE  ShInv'
<1> DEFINE r == [at |-> "begin", op |-> op, key |-> k, body |-> body, on |-> on,
                 status |-> status, version |-> version, after |-> 0]
<1>1. r \in ShareRequests /\ r.at = "begin" /\ r.op = op /\ r.key = k /\ r.on = on /\ r.body = body
  BY DEF ShareRequests, Points
<1>2. shReq' = [shReq EXCEPT ![h] = r]
      /\ UNCHANGED <<share, withdrawn, session, seen, approval, decision, made, keyRow>>
  BY DEF StartKeyed
<1> HIDE DEF r
<1>3. Checked(r)
  BY <1>1 DEF Checked
<1> QED BY <1>1, <1>2, <1>3, StartAs DEF ShInv, ShTypeOK

LEMMA StartThroughLinkStep ==
  ASSUME ShInv, NEW h \in ShHandlers, NEW l \in Links, NEW k \in ShKeys,
         NEW verb \in {"confirm", "comment", "submit"}, StartThroughLink(h, l, verb, k)
  PROVE  ShInv'
<1> DEFINE op == <<l, verb, "any">>
<1>1. op \in ShareOps /\ op[2] = verb
  BY DEF ShareOps
<1>2. l \in Objects /\ <<>> \in Bodies
  BY DEF Objects, Bodies
<1>3. StartKeyed(h, op, k, <<>>, l, "none", 0)
  BY DEF StartThroughLink
<1> HIDE DEF op
<1> QED BY <1>1, <1>2, <1>3, KeyedStart

LEMMA StartOnRecipientStep ==
  ASSUME ShInv, NEW h \in ShHandlers, NEW m \in Members, NEW l \in Links, NEW k \in ShKeys,
         NEW verb \in {"manual", "copied"}, StartOnRecipient(h, m, verb, k, l)
  PROVE  ShInv'
<1> DEFINE op == <<m, verb, l>>
<1>1. op \in ShareOps /\ op[2] = verb
  BY DEF ShareOps
<1>2. l \in Objects /\ <<>> \in Bodies
  BY DEF Objects, Bodies
<1>3. StartKeyed(h, op, k, <<>>, l, "none", 0)
  BY DEF StartOnRecipient
<1> HIDE DEF op
<1> QED BY <1>1, <1>2, <1>3, KeyedStart

LEMMA StartApproveStep ==
  ASSUME ShInv, NEW h \in ShHandlers, NEW l \in Links, NEW k \in ShKeys, NEW says \in Decisions,
         StartApprove(h, l, k, says)
  PROVE  ShInv'
<1>1. share[l].state = "open" /\ "approve" \in PurposeActions[share[l].purpose]
  BY DEF StartApprove, InSession, Permits
<1>2. share[l].purpose \in Purposes
  BY <1>1 DEF ShInv, ShTypeOK, Shares, NoShare
<1>3. share[l].purpose = "approver"
  BY <1>1, <1>2, PurposesAre
<1>4. PICK a \in Approvals : share[l].for = {a} /\ Asked(a)
  BY <1>3 DEF ShInv, LinksAreFor
<1>5. (CHOOSE b \in Approvals : share[l].for = {b}) = a
  BY <1>4
<1> DEFINE op == <<l, "approve", "any">>
           body == <<says, a>>
<1>6. StartKeyed(h, op, k, body, a, approval[a].status, approval[a].version)
  BY <1>5 DEF StartApprove
<1>7. op \in ShareOps /\ op[2] = "approve" /\ body \in Decisions \X Approvals
  BY DEF ShareOps
<1> HIDE DEF op, body
<1>8. a \in Objects /\ body \in Bodies
  BY <1>7 DEF Objects, Bodies
<1>9. approval[a].status \in {"none"} \cup Statuses /\ approval[a].version \in Nat
  BY DEF ShInv, ShTypeOK, ApprovalRows, NoApproval
<1> QED BY <1>4, <1>6, <1>7, <1>8, <1>9, KeyedStart

LEMMA StartDecideStep ==
  ASSUME ShInv, NEW h \in ShHandlers, NEW m \in Members, NEW k \in ShKeys, NEW a \in Approvals,
         NEW says \in Decisions, StartDecide(h, m, k, a, says)
  PROVE  ShInv'
<1> DEFINE op == <<m, "decide", "any">>
           body == <<says, a>>
<1>1. StartKeyed(h, op, k, body, a, "requested", approval[a].version)
  BY DEF StartDecide
<1>2. op \in ShareOps /\ op[2] = "decide" /\ body \in Decisions \X Approvals
  BY DEF ShareOps
<1> HIDE DEF op, body
<1>3. a \in Objects /\ body \in Bodies /\ Asked(a) /\ "requested" \in {"none"} \cup Statuses
  BY <1>2 DEF Objects, Bodies, Asked, StartDecide, Statuses
<1>4. approval[a].version \in Nat
  BY DEF ShInv, ShTypeOK, ApprovalRows, NoApproval
<1> QED BY <1>1, <1>2, <1>3, <1>4, KeyedStart

LEMMA StartRequestStep ==
  ASSUME ShInv, NEW h \in ShHandlers, NEW m \in Members, NEW k \in ShKeys, NEW a \in Approvals,
         NEW approver \in Members, NEW self \in BOOLEAN, StartRequest(h, m, k, a, approver, self)
  PROVE  ShInv'
<1> DEFINE op == <<m, "request", "any">>
           on == <<a, approver, self>>
<1>1. StartKeyed(h, op, k, <<>>, on, "none", 0)
  BY DEF StartRequest
<1>2. op \in ShareOps /\ op[2] = "request" /\ on \in Approvals \X Members \X BOOLEAN
  BY DEF ShareOps
<1> HIDE DEF op, on
<1>3. on \in Objects /\ <<>> \in Bodies
  BY <1>2 DEF Objects, Bodies
<1> QED BY <1>1, <1>2, <1>3, KeyedStart

LEMMA StartCreateLinkStep ==
  ASSUME ShInv, NEW h \in ShHandlers, NEW m \in Members, NEW k \in ShKeys, NEW a \in Approvals,
         NEW purpose \in Purposes, StartCreateLink(h, m, k, purpose, a)
  PROVE  ShInv'
<1> DEFINE op == <<m, "create", "any">>
           on == <<purpose, a>>
<1>1. StartKeyed(h, op, k, <<>>, on, "none", 0)
  BY DEF StartCreateLink
<1>2. op \in ShareOps /\ op[2] = "create" /\ on \in Purposes \X Approvals
      /\ on[1] = purpose /\ on[2] = a
  BY DEF ShareOps
<1> HIDE DEF op, on
<1>3. purpose = "approver" => Asked(a)
  BY DEF StartCreateLink, MayScope, Asked
<1>4. on \in Objects /\ <<>> \in Bodies
  BY <1>2 DEF Objects, Bodies
<1> QED BY <1>1, <1>2, <1>3, <1>4, KeyedStart

----------------------------------------------------------------------------
(* The key, the batch and what may go wrong.                               *)

\* What is known of a request that holds its key.
LEMMA BeganKnows ==
  ASSUME ShInv, NEW h \in ShHandlers, NEW r \in ShareRequests, r = shReq[h],
         r.at \in {"begin", "batch", "answer", "fail"}
  PROVE  r.op \in ShareOps /\ r.key \in ShKeys /\ Checked(r) /\ r.op \in {<<>>} \cup ShareOps
BY DEF ShInv, RequestsChecked, Checked

\* Request h takes another place.
LEMMA Placed ==
  ASSUME ShInv, NEW h \in ShHandlers, NEW at \in {"batch", "answer", "fail"},
         shReq[h].at \in {"begin", "batch", "answer", "fail"}, ShGoto(h, at)
  PROVE  \E r \in ShareRequests :
           /\ shReq' = [shReq EXCEPT ![h] = r]
           /\ r.at = at /\ r.op = shReq[h].op /\ r.key = shReq[h].key
           /\ Checked(r)
<1>1. PICK q \in ShareRequests : q = shReq[h]
  BY DEF ShInv, ShTypeOK
<1> DEFINE r == [q EXCEPT !.at = at]
<1>2. /\ r \in ShareRequests /\ r.at = at /\ r.op = q.op /\ r.key = q.key /\ r.body = q.body
      /\ r.on = q.on
  BY DEF ShareRequests, Points
<1>3. shReq' = [shReq EXCEPT ![h] = r]
  BY <1>1 DEF ShGoto, ShInv, ShTypeOK
<1> HIDE DEF r
<1>4. Checked(q)
  BY <1>1 DEF ShInv, RequestsChecked
<1>5. Checked(r)
  BY <1>1, <1>2, <1>4 DEF Checked
<1> QED BY <1>1, <1>2, <1>3, <1>5

\* Request h takes its time with its key.
LEMMA Timed ==
  ASSUME ShInv, NEW h \in ShHandlers, NEW at \in {"batch", "fail"}, NEW after \in Nat,
         shReq[h].at = "begin", shReq' = [shReq EXCEPT ![h].at = at, ![h].after = after]
  PROVE  \E r \in ShareRequests :
           /\ shReq' = [shReq EXCEPT ![h] = r]
           /\ r.at = at /\ r.op = shReq[h].op /\ r.key = shReq[h].key /\ r.on = shReq[h].on
           /\ Checked(r)
<1>1. PICK q \in ShareRequests : q = shReq[h]
  BY DEF ShInv, ShTypeOK
<1> DEFINE r == [q EXCEPT !.at = at, !.after = after]
<1>2. /\ r \in ShareRequests /\ r.at = at /\ r.op = q.op /\ r.key = q.key /\ r.body = q.body
      /\ r.on = q.on
  BY DEF ShareRequests, Points
<1>3. shReq' = [shReq EXCEPT ![h] = r]
  BY <1>1 DEF ShInv, ShTypeOK
<1> HIDE DEF r
<1>4. Checked(q)
  BY <1>1 DEF ShInv, RequestsChecked
<1>5. Checked(r)
  BY <1>1, <1>2, <1>4 DEF Checked
<1> QED BY <1>1, <1>2, <1>3, <1>5

LEMMA BeginsAfter ==
  ASSUME ShInv, NEW h \in ShHandlers, shReq[h].at = "begin"
  PROVE  RecordedBefore(shReq[h]) \in Nat
<1>1. PICK q \in ShareRequests : q = shReq[h]
  BY DEF ShInv, ShTypeOK
<1>2. q.op[2] \in {"decide", "approve"} => q.on \in Approvals
  BY <1>1, BeganKnows DEF Checked
<1>3. \A a \in Approvals : Len(decision[a]) \in Nat
  BY DEF ShInv, ShTypeOK
<1> QED BY <1>1, <1>2, <1>3 DEF RecordedBefore

\* A request goes to the error path: its key is as it was.
LEMMA FailingStep ==
  ASSUME ShInv, NEW h \in ShHandlers, Began(h), ShGoto(h, "fail"),
         UNCHANGED <<share, withdrawn, session, seen, approval, decision, made, keyRow>>
  PROVE  ShInv'
<1>1. PICK r \in ShareRequests :
        /\ shReq' = [shReq EXCEPT ![h] = r]
        /\ r.at = "fail" /\ r.op = shReq[h].op /\ r.key = shReq[h].key
        /\ Checked(r)
  BY Placed DEF Began
<1>2. AskedStay
  BY DEF AskedStay, Asked
<1>3. Checked(r)'
  BY <1>1, <1>2, CheckedStays
<1>4. RequestsGoOn
  BY <1>1, <1>3, OneGoesOn
<1>5. LinksAreFor'
  BY <1>2, LinksStay
<1> QED BY <1>4, <1>5, QuietStep DEF ShInv, ShTypeOK

LEMMA BeginKeyStep ==
  ASSUME ShInv, NEW h \in ShHandlers, BeginKey(h)
  PROVE  ShInv'
<1>1. PICK q \in ShareRequests : q = shReq[h]
  BY DEF ShInv, ShTypeOK
<1> DEFINE ok == <<q.op, q.key>>
<1>2. q.at = "begin" /\ q.op \in ShareOps /\ q.key \in ShKeys /\ q.body \in Bodies
  BY <1>1 DEF BeginKey, ShInv, RequestsChecked, Checked, ShareRequests
<1>3. ok \in ShareOps \X ShKeys
  BY <1>2
<1>4. PICK at \in {"fail", "batch"}, after \in Nat :
        shReq' = [shReq EXCEPT ![h].at = at, ![h].after = after]
  BY <1>1, BeginsAfter DEF BeginKey
<1>5. PICK r \in ShareRequests :
        /\ shReq' = [shReq EXCEPT ![h] = r]
        /\ r.at = at /\ r.op = shReq[h].op /\ r.key = shReq[h].key
        /\ Checked(r)
  BY <1>1, <1>2, <1>4, Timed
<1> DEFINE new == [Keyed!NoRecord EXCEPT !.state = "running", !.body = q.body]
<1>6. new \in KeyRows /\ new.state = "running"
  BY <1>2, NoKeyIs DEF KeyRows, KeyStates
<1>7. keyRow[ok] = Keyed!NoRecord /\ keyRow' = [keyRow EXCEPT ![ok] = new]
  BY <1>1 DEF BeginKey, Keyed!Begin
<1>8. UNCHANGED <<share, withdrawn, session, seen, approval, decision, made>>
  BY DEF BeginKey
<1> HIDE DEF new
<1>9. keyRow' \in [ShareOps \X ShKeys -> KeyRows]
      /\ keyRow'[ok] = new
      /\ \A o \in ShareOps \X ShKeys : o # ok => keyRow'[o] = keyRow[o]
  BY <1>3, <1>6, <1>7 DEF ShInv, ShTypeOK
<1>10. shReq' \in [ShHandlers -> ShareRequests] /\ shReq'[h] = r
       /\ \A g \in ShHandlers : g # h => shReq'[g] = shReq[g]
  BY <1>5 DEF ShInv, ShTypeOK
<1>11. ShTypeOK'
  BY <1>8, <1>9, <1>10 DEF ShInv, ShTypeOK
<1>12. AskedStay
  BY <1>8 DEF AskedStay, Asked
<1>13. RequestsChecked'
  <2> SUFFICES ASSUME NEW g \in ShHandlers, NEW p \in ShareRequests, shReq'[g] = p
               PROVE  Checked(p)'
    BY DEF RequestsChecked, ShareRequests, Objects, Bodies, Statuses, Points, ShareOps
  <2>1. Checked(p)
    <3>1. CASE g = h
      <4>1. p = r
        BY <1>10, <3>1
      <4> QED BY <1>5, <4>1
    <3> QED BY <1>10, <3>1 DEF ShInv, RequestsChecked
  <2> QED BY <1>12, <2>1, CheckedStays
<1>14. Pair(h)' = ok
  BY <1>1, <1>5, <1>10 DEF Pair
<1>15. \A g \in ShHandlers : g # h => Pair(g)' = Pair(g) /\ (Began(g)' <=> Began(g))
  BY <1>10 DEF Pair, Began
<1>16. \A g \in ShHandlers : Began(g) => Pair(g) # ok
  BY <1>7 DEF ShInv, KeysBelong
<1>17. \A g \in ShHandlers : Began(g) => Pair(g) \in ShareOps \X ShKeys
  <2> SUFFICES ASSUME NEW g \in ShHandlers, Began(g) PROVE Pair(g) \in ShareOps \X ShKeys
    OBVIOUS
  <2>1. PICK p \in ShareRequests : p = shReq[g]
    BY DEF ShInv, ShTypeOK
  <2> QED BY <2>1, BeganKnows DEF Began, Pair
<1>18. KeysBelong'
  <2> HIDE DEF ok
  <2>1. \A g, f \in ShHandlers : Began(g)' /\ Began(f)' /\ Pair(g)' = Pair(f)' => g = f
    BY <1>14, <1>15, <1>16 DEF ShInv, KeysBelong
  <2>2. ASSUME NEW g \in ShHandlers, Began(g)'
        PROVE  /\ (keyRow[Pair(g)] # Keyed!NoRecord)'
               /\ (keyRow[Pair(g)].state = "running" \/ shReq[g].at # "batch")'
    <3>1. CASE g = h
      <4>1. keyRow'[ok].state = "running" /\ keyRow'[ok] # Keyed!NoRecord
        BY <1>6, <1>9, NoKeyIs
      <4>2. Keyed!NoRecord' = Keyed!NoRecord
        BY DEF Keyed!NoRecord
      <4> QED BY <1>14, <3>1, <4>1, <4>2
    <3>2. CASE g # h
      <4>1. keyRow'[Pair(g)] = keyRow[Pair(g)] /\ Pair(g)' = Pair(g) /\ Began(g)
        BY <1>9, <1>15, <1>16, <1>17, <2>2, <3>2
      <4>2. /\ keyRow[Pair(g)] # Keyed!NoRecord
            /\ shReq[g].at = "batch" => keyRow[Pair(g)].state = "running"
        BY <4>1 DEF ShInv, KeysBelong
      <4>3. shReq'[g] = shReq[g]
        BY <1>10, <3>2
      <4>4. Keyed!NoRecord' = Keyed!NoRecord
        BY DEF Keyed!NoRecord
      <4> QED BY <4>1, <4>2, <4>3, <4>4
    <3> QED BY <3>1, <3>2
  <2>3. ASSUME NEW g \in ShHandlers, shReq'[g].at = "batch"
        PROVE  (keyRow[Pair(g)].state = "running")'
    BY <2>2, <2>3 DEF Began
  <2> QED BY <2>1, <2>2, <2>3 DEF KeysBelong
<1>19. KeysCount'
  BY <1>3, <1>6, <1>7, <1>8, <1>9, NoKeyIs DEF ShInv, KeysCount
<1>20. LinksAreFor' /\ DecisionsAgree'
  BY <1>8, <1>12, LinksStay DEF ShInv, DecisionsAgree
<1> QED BY <1>11, <1>13, <1>18, <1>19, <1>20 DEF ShInv

LEMMA AbortRowStep ==
  ASSUME ShInv, NEW h \in ShHandlers, AbortRow(h) \/ ShLoseAnswer(h)
  PROVE  ShInv'
BY FailingStep DEF AbortRow, ShLoseAnswer, Began

LEMMA MarkKeyFailedStep ==
  ASSUME ShInv, NEW h \in ShHandlers, MarkKeyFailed(h)
  PROVE  ShInv'
<1>1. PICK q \in ShareRequests : q = shReq[h]
  BY DEF ShInv, ShTypeOK
<1> DEFINE ok == <<q.op, q.key>>
           new == [keyRow[ok] EXCEPT !.state = "failed"]
<1>2. q.at = "fail" /\ q.op \in ShareOps /\ q.key \in ShKeys
  BY <1>1, BeganKnows DEF MarkKeyFailed
<1>3. ok \in ShareOps \X ShKeys /\ keyRow[ok] \in KeyRows
  BY <1>2 DEF ShInv, ShTypeOK
<1>4. new \in KeyRows /\ new.state = "failed"
  BY <1>3 DEF KeyRows, KeyStates
<1>5. \/ keyRow[ok].state = "running" /\ keyRow' = [keyRow EXCEPT ![ok] = new]
      \/ keyRow' = keyRow
  BY <1>1, <1>3 DEF MarkKeyFailed, Keyed!Failed, ShInv, ShTypeOK
<1>6. /\ UNCHANGED <<share, withdrawn, session, seen, approval, decision, made>>
      /\ shReq' = [shReq EXCEPT ![h] = NoShReq]
  BY DEF MarkKeyFailed, ShFinish
<1> HIDE DEF new
<1>7. /\ keyRow' \in [ShareOps \X ShKeys -> KeyRows]
      /\ \A o \in ShareOps \X ShKeys : o # ok => keyRow'[o] = keyRow[o]
      /\ keyRow'[ok] = keyRow[ok] \/ (keyRow[ok].state = "running" /\ keyRow'[ok].state = "failed")
  BY <1>3, <1>4, <1>5 DEF ShInv, ShTypeOK
<1>8. AskedStay
  BY <1>6 DEF AskedStay, Asked
<1>9. Checked(NoShReq)'
  BY <1>8, NoShReqIs, CheckedStays
<1>10. RequestsGoOn
  BY <1>6, <1>9, NoShReqIs, OneGoesOn
<1>11. KeysGoOn
  <2>1. ASSUME NEW g \in ShHandlers, shReq'[g].at = "batch"
        PROVE  keyRow'[Pair(g)].state = keyRow[Pair(g)].state
    <3>1. g # h /\ Began(g)
      BY <1>6, <1>10, <2>1, NoShReqIs DEF RequestsGoOn, Began, ShInv, ShTypeOK
    <3>2. Pair(g) # ok
      BY <1>1, <1>2, <3>1 DEF ShInv, KeysBelong, Began, Pair
    <3>3. PICK p \in ShareRequests : p = shReq[g]
      BY DEF ShInv, ShTypeOK
    <3>4. Pair(g) \in ShareOps \X ShKeys
      BY <3>1, <3>3, BeganKnows DEF Began, Pair
    <3> QED BY <1>7, <3>2, <3>4
  <2>2. \A o \in ShareOps \X ShKeys : keyRow[o] # Keyed!NoRecord => keyRow'[o] # Keyed!NoRecord
    BY <1>7, NoKeyIs
  <2> QED BY <1>7, <2>1, <2>2 DEF KeysGoOn
<1>12. ShTypeOK'
  BY <1>6, <1>7, <1>10 DEF ShInv, ShTypeOK, RequestsGoOn
<1>13. KeysCount'
  BY <1>3, <1>6, <1>7 DEF ShInv, KeysCount
<1>14. LinksAreFor' /\ DecisionsAgree'
  BY <1>6, <1>8, LinksStay DEF ShInv, DecisionsAgree
<1> QED BY <1>8, <1>10, <1>11, <1>12, <1>13, <1>14, ChecksGoOn, KeysBelongOn DEF ShInv

----------------------------------------------------------------------------
(* The batches.                                                            *)

\* A batch that inserts its row and completes its key.
LEMMA CommitStep ==
  ASSUME ShInv, NEW h \in ShHandlers, shReq[h].at = "batch", CountRow(shReq[h]),
         ShGoto(h, "answer"), UNCHANGED <<session, seen>>,
         share' \in [Links -> Shares], withdrawn' \in SUBSET Links, LinksAreFor',
         approval' \in [Approvals -> ApprovalRows], AskedStay,
         decision' \in [Approvals -> Seq(DecisionRows)], DecisionsAgree'
  PROVE  ShInv'
<1>1. PICK q \in ShareRequests : q = shReq[h]
  BY DEF ShInv, ShTypeOK
<1> DEFINE ok == <<q.op, q.key>>
           new == [keyRow[ok] EXCEPT !.state = "completed", !.ref = ok]
<1>2. q.op \in ShareOps /\ q.key \in ShKeys
  BY <1>1, BeganKnows
<1>3. ok \in ShareOps \X ShKeys /\ keyRow[ok] \in KeyRows /\ ok = Pair(h) /\ Began(h)
  BY <1>1, <1>2 DEF ShInv, ShTypeOK, Pair, Began
<1>4. ok \in KeyRefs
  BY <1>3 DEF KeyRefs
<1>5. keyRow[ok].state = "running" /\ made[ok] = 0
  BY <1>3 DEF ShInv, KeysBelong, KeysCount
<1>6. new \in KeyRows /\ new.state = "completed"
  <2> HIDE DEF ok
  <2> QED BY <1>3, <1>4 DEF KeyRows, KeyStates
<1>7. keyRow' = [keyRow EXCEPT ![ok] = new] /\ made' = [made EXCEPT ![ok] = 1]
  <2>1. keyRow' = [keyRow EXCEPT ![ok].state = "completed", ![ok].ref = ok]
    BY <1>1, <1>5 DEF CountRow, Keyed!Completed
  <2>2. made' = [made EXCEPT ![ok] = @ + 1]
    BY <1>1 DEF CountRow
  <2> HIDE DEF ok
  <2>3. keyRow' = [keyRow EXCEPT ![ok] = new]
    BY <1>3, <2>1 DEF ShInv, ShTypeOK
  <2>4. made' = [made EXCEPT ![ok] = 1]
    BY <1>3, <1>5, <2>2 DEF ShInv, ShTypeOK
  <2> QED BY <2>3, <2>4
<1> HIDE DEF new
<1>8. /\ keyRow' \in [ShareOps \X ShKeys -> KeyRows] /\ keyRow'[ok].state = "completed"
      /\ made' \in [ShareOps \X ShKeys -> Nat] /\ made'[ok] = 1
      /\ \A o \in ShareOps \X ShKeys : o # ok => keyRow'[o] = keyRow[o] /\ made'[o] = made[o]
  BY <1>3, <1>6, <1>7 DEF ShInv, ShTypeOK
<1>9. KeysCount'
  BY <1>3, <1>8 DEF ShInv, KeysCount
<1>10. PICK r \in ShareRequests :
         /\ shReq' = [shReq EXCEPT ![h] = r]
         /\ r.at = "answer" /\ r.op = shReq[h].op /\ r.key = shReq[h].key
         /\ Checked(r)
  BY Placed
<1>11. Checked(r)'
  BY <1>10, CheckedStays
<1>12. RequestsGoOn
  BY <1>3, <1>10, <1>11, OneGoesOn
<1>13. KeysGoOn
  <2>1. ASSUME NEW g \in ShHandlers, shReq'[g].at = "batch"
        PROVE  keyRow'[Pair(g)].state = keyRow[Pair(g)].state
    <3>1. g # h /\ Began(g)
      BY <1>10, <1>12, <2>1 DEF RequestsGoOn, Began, ShInv, ShTypeOK
    <3>2. Pair(g) # ok
      BY <1>3, <3>1 DEF ShInv, KeysBelong
    <3>3. PICK p \in ShareRequests : p = shReq[g]
      BY DEF ShInv, ShTypeOK
    <3>4. Pair(g) \in ShareOps \X ShKeys
      BY <3>1, <3>3, BeganKnows DEF Began, Pair
    <3> QED BY <1>8, <3>2, <3>4
  <2>2. \A o \in ShareOps \X ShKeys : keyRow[o] # Keyed!NoRecord => keyRow'[o] # Keyed!NoRecord
    BY <1>8, NoKeyIs
  <2> QED BY <1>8, <2>1, <2>2 DEF KeysGoOn
<1>14. ShTypeOK'
  BY <1>8, <1>12 DEF ShInv, ShTypeOK, RequestsGoOn
<1> QED BY <1>9, <1>12, <1>13, <1>14, ChecksGoOn, KeysBelongOn DEF ShInv

LEMMA CommitRowStep ==
  ASSUME ShInv, NEW h \in ShHandlers, NEW verb, CommitRow(h, verb)
  PROVE  ShInv'
<1>1. shReq[h].at = "batch" /\ CountRow(shReq[h]) /\ ShGoto(h, "answer")
      /\ UNCHANGED <<share, withdrawn, session, seen, approval, decision>>
  BY DEF CommitRow
<1>2. AskedStay
  BY <1>1 DEF AskedStay, Asked
<1>3. LinksAreFor' /\ DecisionsAgree'
  BY <1>1, <1>2, LinksStay DEF ShInv, DecisionsAgree
<1> QED BY <1>1, <1>2, <1>3, CommitStep DEF ShInv, ShTypeOK

LEMMA CommitLinkStep ==
  ASSUME ShInv, NEW h \in ShHandlers, NEW l \in Links, CommitLink(h, l)
  PROVE  ShInv'
<1>1. PICK q \in ShareRequests : q = shReq[h]
  BY DEF ShInv, ShTypeOK
<1>2. q.at = "batch" /\ q.op[2] = "create" /\ share[l] = NoShare
  BY <1>1 DEF CommitLink
<1>3. Checked(q)
  BY <1>1, <1>2, BeganKnows
<1>4. q.on \in Purposes \X Approvals /\ (q.on[1] = "approver" => Asked(q.on[2]))
  BY <1>2, <1>3 DEF Checked
<1> DEFINE purpose == q.on[1]
           for == IF purpose = "approver" THEN {q.on[2]} ELSE {}
           new == [state |-> "open", purpose |-> purpose, for |-> for]
<1>5. purpose \in Purposes /\ q.on[2] \in Approvals
  BY <1>4
<1>6. /\ for \subseteq Approvals /\ \A a \in for : Asked(a)
      /\ purpose = "approver" => \E a \in Approvals : for = {a}
  BY <1>4, <1>5
<1>7. share' = [share EXCEPT ![l] = new]
  BY <1>1 DEF CommitLink
<1>8. /\ shReq[h].at = "batch" /\ CountRow(shReq[h]) /\ ShGoto(h, "answer")
      /\ withdrawn' \in SUBSET Links /\ UNCHANGED <<session, seen, approval, decision>>
  BY DEF CommitLink, ShInv, ShTypeOK
<1>9. AskedStay
  BY <1>8 DEF AskedStay, Asked
<1>10. share' \in [Links -> Shares] /\ LinksAreFor'
  <2> HIDE DEF for, purpose
  <2>1. new \in Shares /\ new.for = for /\ new.purpose = purpose
    BY <1>5, <1>6 DEF Shares, States
  <2> HIDE DEF new
  <2>2. share' \in [Links -> Shares] /\ share'[l] = new
        /\ \A m \in Links : m # l => share'[m] = share[m]
    BY <1>7, <2>1 DEF ShInv, ShTypeOK
  <2>3. \A a : Asked(a)' <=> Asked(a)
    BY <1>8 DEF Asked
  <2>4. ASSUME NEW m \in Links
        PROVE  /\ \A a \in share'[m].for : Asked(a)'
               /\ share'[m].purpose = "approver" => \E a \in Approvals : share'[m].for = {a}
    <3>1. CASE m = l
      BY <1>6, <2>1, <2>2, <2>3, <3>1
    <3>2. CASE m # l
      BY <2>2, <2>3, <3>2 DEF ShInv, LinksAreFor
    <3> QED BY <3>1, <3>2
  <2> QED BY <2>2, <2>4 DEF LinksAreFor
<1>11. DecisionsAgree'
  BY <1>8 DEF ShInv, DecisionsAgree
<1> QED BY <1>8, <1>9, <1>10, <1>11, CommitStep DEF ShInv, ShTypeOK

LEMMA CommitApprovalStep ==
  ASSUME ShInv, NEW h \in ShHandlers, CommitApproval(h)
  PROVE  ShInv'
<1>1. PICK q \in ShareRequests : q = shReq[h]
  BY DEF ShInv, ShTypeOK
<1>2. q.at = "batch" /\ q.op[2] = "request" /\ approval[q.on[1]] = NoApproval
  BY <1>1 DEF CommitApproval
<1>3. Checked(q)
  BY <1>1, <1>2, BeganKnows
<1>4. q.op \in ShareOps /\ q.on \in Approvals \X Members \X BOOLEAN
  BY <1>2, <1>3 DEF Checked
<1> DEFINE a == q.on[1]
           who == q.op[1]
           approver == q.on[2]
           self == q.on[3]
           new == [status |-> "requested", version |-> 1, owner |-> {who},
                   approver |-> {approver}, self |-> self]
<1>5. a \in Approvals /\ approver \in Members /\ self \in BOOLEAN
  BY <1>4
<1>6. who \in Members
  BY <1>2, <1>4 DEF ShareOps
<1>7. approval' = [approval EXCEPT ![a] = new]
  BY <1>1 DEF CommitApproval
<1>8. /\ shReq[h].at = "batch" /\ CountRow(shReq[h]) /\ ShGoto(h, "answer")
      /\ UNCHANGED <<share, withdrawn, session, seen, decision>>
  BY DEF CommitApproval
<1>9. approval[a] = NoApproval
  BY <1>2
<1> HIDE DEF a, who, approver, self
<1>10. new \in ApprovalRows /\ new.status = "requested" /\ new # NoApproval
  BY <1>5, <1>6, NoApprovalIs DEF ApprovalRows, Statuses
<1> HIDE DEF new
<1>11. approval' \in [Approvals -> ApprovalRows]
       /\ approval'[a] = new /\ \A b \in Approvals : b # a => approval'[b] = approval[b]
  BY <1>5, <1>7, <1>10 DEF ShInv, ShTypeOK
<1>12. AskedStay
  BY <1>10, <1>11 DEF AskedStay, Asked
<1>13. DecisionsAgree'
  <2>1. decision[a] = << >>
    BY <1>5, <1>9 DEF ShInv, DecisionsAgree, Agree
  <2>2. Agree(new, << >>)
    BY <1>10 DEF Agree
  <2> QED BY <1>8, <1>11, <2>1, <2>2 DEF ShInv, DecisionsAgree, Agree
<1>14. LinksAreFor'
  BY <1>8, <1>12, LinksStay
<1> QED BY <1>8, <1>11, <1>12, <1>13, <1>14, CommitStep DEF ShInv, ShTypeOK

\* One more decision at the end of a list.
LEMMA OneMoreDecision ==
  ASSUME NEW said \in Seq(DecisionRows), NEW new \in DecisionRows
  PROVE  /\ Append(said, new) \in Seq(DecisionRows) /\ Append(said, new) # << >>
         /\ said = << >> => Append(said, new)[1] = new /\ DOMAIN Append(said, new) = {1}
         /\ said # << >> => Append(said, new)[1] = said[1]
         /\ \A n \in DOMAIN Append(said, new) :
              \/ n \in DOMAIN said /\ Append(said, new)[n] = said[n]
              \/ n = Len(said) + 1 /\ Append(said, new)[n] = new
OBVIOUS

LEMMA CommitDecisionStep ==
  ASSUME ShInv, NEW h \in ShHandlers, NEW verb \in {"decide", "approve"}, CommitDecision(h, verb)
  PROVE  ShInv'
<1>1. PICK q \in ShareRequests : q = shReq[h]
  BY DEF ShInv, ShTypeOK
<1>2. q.at = "batch" /\ q.op[2] = verb /\ ShBatchHolds(q)
  BY <1>1 DEF CommitDecision
<1>3. Checked(q)
  BY <1>1, <1>2, BeganKnows
<1>4. q.op \in ShareOps /\ q.on \in Approvals /\ q.body \in Decisions \X Approvals /\ Asked(q.on)
  BY <1>2, <1>3 DEF Checked
<1> DEFINE a == q.on
           by == q.op[1]
           says == q.body[1]
           new == [by |-> by, says |-> says, after |-> q.after]
           old == approval[a]
           said == decision[a]
           version == old.version + 1
<1>5. a \in Approvals /\ says \in Decisions /\ by \in Links \cup Members
  BY <1>4 DEF ShareOps
<1>6. by \in Links => verb = "approve"
  BY <1>2, <1>4, SharingAssumption DEF ShareOps
<1>7. verb = "approve" => old.status = "requested"
  BY <1>2 DEF ShBatchHolds
<1>8. old \in ApprovalRows /\ said \in Seq(DecisionRows) /\ old.status # "none" /\ Agree(old, said)
  BY <1>4, <1>5 DEF ShInv, ShTypeOK, DecisionsAgree, Asked
<1>9. old # NoApproval /\ version \in Nat
      /\ old \in [status : Statuses, version : Nat, owner : SUBSET Members,
                  approver : SUBSET Members, self : BOOLEAN]
  BY <1>8, NoApprovalIs
<1>10. /\ shReq[h].at = "batch" /\ CountRow(shReq[h]) /\ ShGoto(h, "answer")
       /\ UNCHANGED <<share, withdrawn, session, seen>>
       /\ approval' = Decided(a, says)
       /\ decision' = [decision EXCEPT ![a] = Append(said, new)]
  BY <1>1, <1>5 DEF CommitDecision, ShInv, ShTypeOK
<1> DEFINE row == IF old.status = "requested"
                    THEN [old EXCEPT !.status = says, !.version = version] ELSE old
<1>11. approval' = [approval EXCEPT ![a] = row]
  BY <1>5, <1>10 DEF Decided, ShInv, ShTypeOK
<1>12. says \in Statuses /\ says # "requested" /\ says # "none"
  BY <1>5, SharingAssumption DEF Statuses
<1> HIDE DEF a, by, says, old, said, version
<1>13. row \in ApprovalRows /\ row.status # "none"
       /\ row.status = IF old.status = "requested" THEN says ELSE old.status
  BY <1>8, <1>9, <1>12 DEF ApprovalRows
<1>14. new \in DecisionRows /\ new.by = by /\ new.says = says
  BY <1>5 DEF DecisionRows, ShareRequests
<1> HIDE DEF row, new
<1>15. said = << >> <=> old.status = "requested"
  <2>1. said # << >> => said[1] \in DecisionRows
    BY <1>8
  <2>2. said # << >> => said[1].says # "requested"
    BY <2>1, SharingAssumption DEF DecisionRows
  <2> QED BY <1>8, <1>9, <2>2 DEF Agree
<1>16. Agree(row, Append(said, new))
  <2>1. row # NoApproval
    BY <1>13, NoApprovalIs
  <2>2. row.status = Append(said, new)[1].says /\ Append(said, new) # << >>
    BY <1>8, <1>9, <1>13, <1>14, <1>15, OneMoreDecision DEF Agree
  <2>3. ASSUME NEW n \in DOMAIN Append(said, new), Append(said, new)[n].by \in Links
        PROVE  n = 1
    <3>1. CASE said = << >>
      BY <1>8, <1>14, <3>1, OneMoreDecision
    <3>2. CASE said # << >>
      BY <1>6, <1>7, <1>8, <1>14, <1>15, <2>3, <3>2, OneMoreDecision DEF Agree
    <3> QED BY <3>1, <3>2
  <2> QED BY <2>1, <2>2, <2>3 DEF Agree
<1>17. approval' \in [Approvals -> ApprovalRows] /\ decision' \in [Approvals -> Seq(DecisionRows)]
       /\ approval'[a] = row /\ decision'[a] = Append(said, new)
       /\ \A b \in Approvals : b # a => approval'[b] = approval[b] /\ decision'[b] = decision[b]
  BY <1>5, <1>8, <1>10, <1>11, <1>13, <1>14, OneMoreDecision DEF ShInv, ShTypeOK
<1>18. DecisionsAgree'
  <2>1. ASSUME NEW b \in Approvals
        PROVE  Agree(approval'[b], decision'[b])
    <3>1. CASE b = a
      BY <1>16, <1>17, <3>1
    <3>2. CASE b # a
      BY <1>17, <3>2 DEF ShInv, DecisionsAgree
    <3> QED BY <3>1, <3>2
  <2> QED BY <2>1 DEF DecisionsAgree, Agree, NoApproval
<1>19. AskedStay
  BY <1>13, <1>17 DEF AskedStay, Asked
<1>20. LinksAreFor'
  BY <1>10, <1>19, LinksStay
<1> QED BY <1>10, <1>17, <1>18, <1>19, <1>20, CommitStep DEF ShInv, ShTypeOK

----------------------------------------------------------------------------
LEMMA EndStep ==
  ASSUME ShInv, NEW h \in ShHandlers, AnswerKnown(h) \/ ShDrop(h)
  PROVE  ShInv'
BY FinishStep DEF AnswerKnown, ShDrop, ShInv, ShTypeOK

LEMMA ShNextInv == ShInv /\ [SharingNext]_sharingVars => ShInv'
<1> SUFFICES ASSUME ShInv, [SharingNext]_sharingVars PROVE ShInv'
  OBVIOUS
<1>1. CASE UNCHANGED sharingVars
  <2>1. LinksAreFor'
    BY <1>1 DEF sharingVars, ShInv, LinksAreFor, Asked
  <2> QED BY <1>1, <2>1, NobodyGoesOn, QuietStep DEF sharingVars, ShInv, ShTypeOK
<1>2. ASSUME NEW l \in Links,
             \/ MakeRecipientLink(l) \/ Revoke(l) \/ ExpireLink(l) \/ EndSession(l)
             \/ WithdrawObject(l) \/ RestoreObject(l)
      PROVE  ShInv'
  BY <1>2, LinkRowStep, LinkObjectStep
<1>3. ASSUME NEW h \in ShHandlers, NEW l \in Links,
             \/ Exchange(h, l) \/ StartDownload(h, l) \/ CommitLink(h, l)
             \/ \E k \in ShKeys :
                  \/ \E verb \in {"confirm", "comment", "submit"} : StartThroughLink(h, l, verb, k)
                  \/ \E says \in Decisions : StartApprove(h, l, k, says)
                  \/ \E m \in Members, verb \in {"manual", "copied"} :
                       StartOnRecipient(h, m, verb, k, l)
      PROVE  ShInv'
  BY <1>3, RecordLaterStep, CommitLinkStep, StartThroughLinkStep, StartApproveStep,
     StartOnRecipientStep
<1>4. ASSUME NEW h \in ShHandlers, NEW m \in Members, NEW k \in ShKeys, NEW a \in Approvals,
             \/ \E purpose \in Purposes : StartCreateLink(h, m, k, purpose, a)
             \/ \E approver \in Members, self \in BOOLEAN :
                  StartRequest(h, m, k, a, approver, self)
             \/ \E says \in Decisions : StartDecide(h, m, k, a, says)
      PROVE  ShInv'
  BY <1>4, StartCreateLinkStep, StartRequestStep, StartDecideStep
<1>5. ASSUME NEW h \in ShHandlers,
             \/ BeginKey(h) \/ AnswerKnown(h) \/ RecordSeen(h)
             \/ ConfirmThroughLink(h) \/ CommentThroughLink(h) \/ SubmitCandidate(h)
             \/ ConfirmManually(h) \/ MarkLinkCopied(h)
             \/ CommitApproval(h) \/ DecideAsMember(h) \/ ApproveThroughLink(h)
             \/ AbortRow(h) \/ ShLoseAnswer(h) \/ MarkKeyFailed(h) \/ ShDrop(h)
      PROVE  ShInv'
  <2>1. CASE BeginKey(h) \/ AnswerKnown(h) \/ RecordSeen(h) \/ AbortRow(h) \/ ShLoseAnswer(h)
               \/ MarkKeyFailed(h) \/ ShDrop(h)
    BY <2>1, BeginKeyStep, EndStep, RecordSeenStep, AbortRowStep, MarkKeyFailedStep
  <2>2. CASE ConfirmThroughLink(h) \/ CommentThroughLink(h) \/ SubmitCandidate(h)
               \/ ConfirmManually(h) \/ MarkLinkCopied(h)
    BY <2>2, CommitRowStep DEF ConfirmThroughLink, CommentThroughLink, SubmitCandidate,
       ConfirmManually, MarkLinkCopied
  <2>3. CASE CommitApproval(h) \/ DecideAsMember(h) \/ ApproveThroughLink(h)
    BY <2>3, CommitApprovalStep, CommitDecisionStep DEF DecideAsMember, ApproveThroughLink
  <2> QED BY <1>5, <2>1, <2>2, <2>3
<1> QED BY <1>1, <1>2, <1>3, <1>4, <1>5 DEF SharingNext, Purposes

\* Requests rely on what was checked before their key began, keys belong to who
\* began them, and approvals agree with their decisions, in every state of any
\* links, members and requests (shares.ts:646, :662, collaboration.ts:576).
THEOREM RequestsHoldTheirKeys == SharingSpec => []ShInv
BY ShInitInv, ShNextInv, PTL DEF SharingSpec

\* An order without repetition of finitely many rows lists each of them.
LEMMA EveryRowIsListed ==
  ASSUME NEW n \in Nat, NEW p \in [1..n -> 1..n], \A i, j \in 1..n : p[i] = p[j] => i = j,
         NEW x \in 1..n
  PROVE  \E i \in 1..n : p[i] = x
<1> DEFINE S == 1..n
<1>1. IsFiniteSet(S)
  BY FS_Interval
<1>2. p \in Injection(S, S)
  BY DEF Injection, IsInjective
<1>3. p \in Surjection(S, S)
  BY <1>1, <1>2, FS_Injection
<1> QED BY <1>3 DEF Surjection

LEMMA ShInvDecisions == ShInv => DecisionsStand
<1> SUFFICES ASSUME ShInv PROVE DecisionsStand
  OBVIOUS
<1>1. FirstDecisionStands
  <2> SUFFICES ASSUME NEW a \in Approvals, approval[a] # NoApproval, NEW p \in ListOrders(a)
               PROVE  LET said == decision[a]
                          list == [n \in DOMAIN p |-> said[p[n]]] IN
                      IF list = << >> THEN approval[a].status = "requested"
                      ELSE /\ approval[a].status = said[1].says
                           /\ \E n \in DOMAIN list : list[n] = said[1]
                           /\ \/ list[1] = said[1]
                              \/ \E n \in 2..Len(said) : said[n].after = 0
    BY DEF FirstDecisionStands, ApprovalViews
  <2> DEFINE said == decision[a]
             list == [n \in DOMAIN p |-> said[p[n]]]
  <2>1. said \in Seq(DecisionRows) /\ Agree(approval[a], said)
    BY DEF ShInv, ShTypeOK, DecisionsAgree
  <2>2. /\ p \in [DOMAIN said -> DOMAIN said]
        /\ \A m, n \in DOMAIN p : (p[m] = p[n] => m = n) /\ (p[m] <= said[p[n]].after => m < n)
    BY DEF ListOrders
  <2> HIDE DEF said
  <2>3. CASE said = << >>
    <3>1. list = << >>
      BY <2>2, <2>3
    <3> QED BY <2>1, <2>3, <3>1 DEF Agree, said
  <2>4. CASE said # << >>
    <3>1. 1 \in DOMAIN said /\ DOMAIN said = 1..Len(said) /\ Len(said) \in Nat
          /\ DOMAIN list = DOMAIN said
      BY <2>1, <2>2, <2>4
    <3>2. list # << >> /\ approval[a].status = said[1].says
      BY <2>1, <2>4, <3>1 DEF Agree
    <3>3. PICK m \in DOMAIN said : p[m] = 1
      <4> DEFINE len == Len(said)
      <4>1. len \in Nat /\ p \in [1..len -> 1..len] /\ 1 \in 1..len
            /\ \A i, j \in 1..len : p[i] = p[j] => i = j
        BY <2>2, <3>1
      <4> HIDE DEF len
      <4>2. \E i \in 1..len : p[i] = 1
        BY <4>1, EveryRowIsListed, ZenonT(30)
      <4> QED BY <3>1, <4>2 DEF len
    <3>4. \E n \in DOMAIN list : list[n] = said[1]
      BY <3>1, <3>3, <2>2
    <3>5. ASSUME list[1] # said[1]
          PROVE  \E n \in 2..Len(said) : said[n].after = 0
      <4>1. p[1] \in 1..Len(said) /\ p[1] # 1
        BY <2>2, <3>1, <3>5
      <4>2. said[p[1]].after \in Nat
        <5>1. \A i \in 1..Len(said) : said[i] \in DecisionRows
          BY <2>1
        <5>2. \A row \in DecisionRows : row.after \in Nat
          BY DEF DecisionRows
        <5> QED BY <4>1, <5>1, <5>2
      <4>3. ~ (p[m] <= said[p[1]].after)
        BY <2>2, <3>1, <3>3
      <4> QED BY <3>1, <3>3, <4>1, <4>2, <4>3
    <3> QED BY <3>2, <3>4, <3>5 DEF said
  <2> QED BY <2>3, <2>4
<1>2. LinksDecideFirst
  BY DEF ShInv, DecisionsAgree, Agree, LinksDecideFirst
<1>3. KeysMatchRows
  <2> SUFFICES ASSUME NEW o \in ShareOps, NEW k \in ShKeys
               PROVE  made[<<o, k>>] = IF keyRow[<<o, k>>].state = "completed" THEN 1 ELSE 0
    BY DEF KeysMatchRows
  <2> DEFINE ok == <<o, k>>
  <2>1. ok \in ShareOps \X ShKeys
    OBVIOUS
  <2> HIDE DEF ok
  <2>2. made[ok] = IF keyRow[ok].state = "completed" THEN 1 ELSE 0
    BY <2>1 DEF ShInv, KeysCount
  <2> QED BY <2>2 DEF ok
<1>4. PagesAgree
  <2> SUFFICES ASSUME NEW l \in Links, share[l] # NoShare
               PROVE  LET face == ShareView(l) IN
                      /\ face.mayApprove => \A view \in face.approvals : view.decisions = << >>
                      /\ face.recipient.viewed => DeliveryState(l) >= 2
                      /\ face.recipient.confirmed => DeliveryState(l) = 3
    BY DEF PagesAgree
  <2>1. ASSUME \A a \in share[l].for : approval[a].status = "requested", NEW a \in share[l].for
        PROVE  decision[a] = << >>
    <3>1. a \in Approvals
      BY DEF ShInv, ShTypeOK, Shares, NoShare
    <3> DEFINE said == decision[a]
    <3>2. said \in Seq(DecisionRows) /\ Agree(approval[a], said) /\ approval[a].status = "requested"
          /\ approval[a] # NoApproval
      BY <2>1, <3>1, NoApprovalIs DEF ShInv, ShTypeOK, DecisionsAgree
    <3> HIDE DEF said
    <3>3. said # << >> => said[1] \in DecisionRows
      BY <3>2
    <3>4. said # << >> => said[1].says # "requested"
      BY <3>3, SharingAssumption DEF DecisionRows
    <3>5. said = << >>
      BY <3>2, <3>4 DEF Agree
    <3> QED BY <3>5 DEF said
  <2>2. ASSUME \A a \in share[l].for : approval[a].status = "requested",
               NEW a \in share[l].for, NEW view \in ApprovalViews(a)
        PROVE  view.decisions = << >>
    <3>1. decision[a] = << >>
      BY <2>1, <2>2
    <3>2. PICK p \in ListOrders(a) :
            view = [status |-> approval[a].status,
                    decisions |-> [n \in DOMAIN p |-> decision[a][p[n]]]]
      BY <2>2 DEF ApprovalViews
    <3>3. DOMAIN p = {}
      BY <3>1, <3>2 DEF ListOrders
    <3>4. view.decisions = [n \in DOMAIN p |-> decision[a][p[n]]]
      BY <3>2
    <3> QED BY <3>3, <3>4
  <2>3. ASSUME NEW k \in ShKeys, made[<<<<l, "confirm", "any">>, k>>] > 0
        PROVE  Confirmations(l) # {}
    <3> DEFINE op == <<l, "confirm", "any">>
               ok == <<op, k>>
    <3>1. op \in ShareOps
      BY DEF ShareOps
    <3>2. ok \in ShareOps \X ShKeys /\ made[ok] > 0 /\ ok[1] = op
      BY <2>3, <3>1
    <3>3. ok \in Confirmations(l)
      BY <3>2 DEF Confirmations
    <3> QED BY <3>3
  <2>4. OwnState(l).viewed => DeliveryState(l) >= 2
    <3>1. OwnState(l).viewed = (<<"viewed", l>> \in seen)
      BY DEF OwnState
    <3>2. <<"viewed", l>> \in seen => DeliveryState(l) >= 2
      BY DEF DeliveryState
    <3> QED BY <3>1, <3>2
  <2>5. OwnState(l).confirmed => DeliveryState(l) = 3
    BY <2>3 DEF OwnState, DeliveryState
  <2> QED BY <2>2, <2>4, <2>5 DEF ShareView
<1> QED BY <1>1, <1>2, <1>3, <1>4 DEF DecisionsStand

\* However members and links interleave, and in whichever order their times list
\* the decisions, the one recorded first stands, a link only decides first, a key
\* stands for one row, and the page behind a link shows what members see
\* (collaboration.ts:151, :576, shares.ts:646, :718, idempotency.ts:108).
THEOREM FirstDecisionsStand == SharingSpec => []DecisionsStand
BY RequestsHoldTheirKeys, ShInvDecisions, PTL

----------------------------------------------------------------------------
(* What a step may never do.                                               *)

\* Request g goes on or ends: what it does for whom stays.
Continues(g) ==
  /\ shReq'[g].op \in {shReq[g].op, <<>>}
  /\ shReq'[g].at = "record" => shReq[g].at = "record" /\ shReq'[g].on = shReq[g].on

\* A request through a link was admitted: the link is open, and what it is
\* about is loaded if the verb asks for that.
Admitted(g) ==
  \E l \in Links :
    /\ share[l].state = "open"
    /\ \/ /\ shReq'[g].op = <<>>
          /\ \/ shReq'[g].on = <<"viewed", l>>
             \/ shReq'[g].on = <<"downloaded", l>> /\ l \notin withdrawn
       \/ /\ shReq'[g].at = "begin"
          /\ \E verb \in {"confirm", "comment", "submit", "approve"} :
               /\ shReq'[g].op = <<l, verb, "any">>
               /\ verb \in Loading => l \notin withdrawn

OfMember(g) == shReq'[g].at = "begin" /\ shReq'[g].op[1] \in Members /\ shReq'[g].op # <<>>

\* What a step does to the rows: one is counted for a request whose key began,
\* one view is recorded, a link is closed or made, an object withdrawn.
StepShape ==
  /\ made' = made \/ \E h \in ShHandlers : shReq[h].at = "batch" /\ CountRow(shReq[h])
  /\ seen' = seen \/ \E h \in ShHandlers : RecordSeen(h)
  /\ \A l \in Links : share[l].state \in {"expired", "revoked"} =>
       share'[l].state \in {"expired", "revoked"}
  /\ \A g \in ShHandlers : Continues(g) \/ Admitted(g) \/ OfMember(g)

LEMMA ContinuesAs ==
  ASSUME ShInv, NEW h \in ShHandlers,
         \/ ShFinish(h) \/ BeginKey(h)
         \/ \E at \in {"batch", "answer", "fail"} : ShGoto(h, at)
  PROVE  \A g \in ShHandlers : Continues(g)
<1>1. CASE ShFinish(h)
  BY <1>1, NoShReqIs DEF ShFinish, Continues, ShInv, ShTypeOK
<1>2. ASSUME NEW at \in {"batch", "answer", "fail"}, ShGoto(h, at)
      PROVE  \A g \in ShHandlers : Continues(g)
  <2>1. PICK q \in ShareRequests : q = shReq[h]
    BY DEF ShInv, ShTypeOK
  <2> DEFINE r == [q EXCEPT !.at = at]
  <2>2. r.at = at /\ r.op = q.op
    BY DEF ShareRequests
  <2>3. shReq' = [shReq EXCEPT ![h] = r]
    BY <1>2, <2>1 DEF ShGoto, ShInv, ShTypeOK
  <2> HIDE DEF r
  <2> QED BY <2>1, <2>2, <2>3 DEF Continues, ShInv, ShTypeOK
<1>3. CASE BeginKey(h)
  <2>1. PICK at \in {"batch", "fail"}, after \in Nat :
          shReq' = [shReq EXCEPT ![h].at = at, ![h].after = after]
    BY <1>3, BeginsAfter DEF BeginKey
  <2>2. PICK r \in ShareRequests :
          shReq' = [shReq EXCEPT ![h] = r] /\ r.at = at /\ r.op = shReq[h].op
    <3>1. shReq[h].at = "begin"
      BY <1>3 DEF BeginKey
    <3>2. PICK r \in ShareRequests :
            /\ shReq' = [shReq EXCEPT ![h] = r]
            /\ r.at = at /\ r.op = shReq[h].op /\ r.key = shReq[h].key /\ r.on = shReq[h].on
            /\ Checked(r)
      BY <2>1, <3>1, Timed
    <3> QED BY <3>2
  <2> QED BY <2>2 DEF Continues, ShInv, ShTypeOK
<1> QED BY <1>1, <1>2, <1>3

LEMMA LinkStepShape ==
  ASSUME ShInv, NEW l \in Links,
         \/ MakeRecipientLink(l) \/ Revoke(l) \/ ExpireLink(l) \/ EndSession(l)
         \/ WithdrawObject(l) \/ RestoreObject(l)
  PROVE  StepShape
<1>1. made' = made /\ seen' = seen /\ \A g \in ShHandlers : Continues(g)
  BY DEF MakeRecipientLink, Revoke, ExpireLink, EndSession, WithdrawObject, RestoreObject, Continues
<1>2. ASSUME NEW m \in Links, share[m].state \in {"expired", "revoked"}
      PROVE  share'[m].state \in {"expired", "revoked"}
  <2>1. CASE UNCHANGED share
    BY <1>2, <2>1
  <2>2. CASE MakeRecipientLink(l)
    <3>1. m # l
      BY <1>2, <2>2 DEF MakeRecipientLink, NoShare
    <3> QED BY <1>2, <2>2, <3>1 DEF MakeRecipientLink, ShInv, ShTypeOK
  <2>3. ASSUME NEW state \in {"revoked", "expired"}, share[l].state \in {"open", "expired"},
               share' = [share EXCEPT ![l].state = state]
        PROVE  share'[m].state \in {"expired", "revoked"}
    <3>1. share[l] \in [state : States, purpose : Purposes, for : SUBSET Approvals]
      BY <2>3 DEF ShInv, ShTypeOK, Shares, NoShare
    <3> DEFINE new == [share[l] EXCEPT !.state = state]
    <3>2. new.state = state
      BY <3>1
    <3>3. share' = [share EXCEPT ![l] = new]
      BY <2>3 DEF ShInv, ShTypeOK
    <3> HIDE DEF new
    <3> QED BY <1>2, <3>2, <3>3, <2>3 DEF ShInv, ShTypeOK
  <2> QED BY <2>1, <2>2, <2>3 DEF Revoke, ExpireLink, EndSession, WithdrawObject, RestoreObject
<1> QED BY <1>1, <1>2 DEF StepShape

\* A request that starts: everyone else continues.
LEMMA StartShape ==
  ASSUME ShInv, NEW h \in ShHandlers, NEW r,
         shReq' = [shReq EXCEPT ![h] = r], UNCHANGED <<made, seen, share>>,
         Admitted(h) \/ OfMember(h)
  PROVE  StepShape
<1>1. \A g \in ShHandlers : g # h => Continues(g)
  BY DEF Continues, ShInv, ShTypeOK
<1> QED BY <1>1 DEF StepShape

LEMMA KeyedIs ==
  ASSUME ShInv, NEW h \in ShHandlers, NEW op, NEW k, NEW body, NEW on, NEW status, NEW version,
         StartKeyed(h, op, k, body, on, status, version)
  PROVE  /\ shReq'[h].at = "begin" /\ shReq'[h].op = op
         /\ UNCHANGED <<made, seen, share>>
         /\ \E r : shReq' = [shReq EXCEPT ![h] = r]
BY DEF StartKeyed, ShInv, ShTypeOK

LEMMA ThroughLinkShape ==
  ASSUME ShInv, NEW h \in ShHandlers, NEW l \in Links,
         \/ Exchange(h, l) \/ StartDownload(h, l)
         \/ \E k \in ShKeys :
              \/ \E verb \in {"confirm", "comment", "submit"} : StartThroughLink(h, l, verb, k)
              \/ \E says \in Decisions : StartApprove(h, l, k, says)
  PROVE  StepShape
<1>1. share[l].state = "open"
  BY DEF Exchange, StartDownload, StartThroughLink, StartApprove, InSession, Permits
<1>2. ASSUME NEW type \in {"viewed", "downloaded"},
             type = "downloaded" => l \notin withdrawn,
             shReq' = [shReq EXCEPT ![h] = [NoShReq EXCEPT !.at = "record", !.on = <<type, l>>]],
             UNCHANGED <<made, seen, share>>
      PROVE  StepShape
  <2> DEFINE on == <<type, l>>
             r == [NoShReq EXCEPT !.at = "record", !.on = on]
  <2> HIDE DEF on
  <2>1. r.op = <<>> /\ r.on = on
    BY NoShReqIs DEF ShareRequests
  <2>2. shReq' = [shReq EXCEPT ![h] = r] /\ shReq'[h] = r
    BY <1>2 DEF on, ShInv, ShTypeOK
  <2> HIDE DEF r
  <2>3. Admitted(h)
    BY <1>1, <1>2, <2>1, <2>2 DEF Admitted, on
  <2> QED BY <1>2, <2>2, <2>3, StartShape
<1>3. CASE Exchange(h, l)
  BY <1>2, <1>3 DEF Exchange
<1>4. CASE StartDownload(h, l)
  BY <1>2, <1>4 DEF StartDownload, Loads
<1>5. ASSUME NEW k \in ShKeys, NEW verb \in {"confirm", "comment", "submit"},
             StartThroughLink(h, l, verb, k)
      PROVE  StepShape
  <2>1. shReq'[h].at = "begin" /\ shReq'[h].op = <<l, verb, "any">>
        /\ UNCHANGED <<made, seen, share>> /\ \E r : shReq' = [shReq EXCEPT ![h] = r]
    BY <1>5, KeyedIs DEF StartThroughLink
  <2>2. verb \in Loading => l \notin withdrawn
    BY <1>5 DEF StartThroughLink, Loads
  <2>3. Admitted(h)
    BY <1>1, <2>1, <2>2 DEF Admitted
  <2> QED BY <2>1, <2>3, StartShape
<1>6. ASSUME NEW k \in ShKeys, NEW says \in Decisions, StartApprove(h, l, k, says)
      PROVE  StepShape
  <2>1. shReq'[h].at = "begin" /\ shReq'[h].op = <<l, "approve", "any">>
        /\ UNCHANGED <<made, seen, share>> /\ \E r : shReq' = [shReq EXCEPT ![h] = r]
    BY <1>6, KeyedIs DEF StartApprove
  <2>2. l \notin withdrawn
    BY <1>6 DEF StartApprove, Loads
  <2>3. Admitted(h)
    BY <1>1, <2>1, <2>2 DEF Admitted
  <2> QED BY <2>1, <2>3, StartShape
<1> QED BY <1>3, <1>4, <1>5, <1>6

LEMMA MemberShape ==
  ASSUME ShInv, NEW h \in ShHandlers, NEW m \in Members, NEW op, op[1] = m, op # <<>>,
         NEW k, NEW body, NEW on, NEW status, NEW version,
         StartKeyed(h, op, k, body, on, status, version)
  PROVE  StepShape
<1>1. shReq'[h].at = "begin" /\ shReq'[h].op = op
      /\ UNCHANGED <<made, seen, share>> /\ \E r : shReq' = [shReq EXCEPT ![h] = r]
  BY KeyedIs
<1>2. OfMember(h)
  BY <1>1 DEF OfMember
<1> QED BY <1>1, <1>2, StartShape

\* Request h goes on, or ends; if it inserts a row, its key had begun.
LEMMA GoesOnShape ==
  ASSUME ShInv, NEW h \in ShHandlers,
         \/ ShFinish(h) \/ BeginKey(h)
         \/ \E at \in {"batch", "answer", "fail"} : ShGoto(h, at),
         made' = made \/ (shReq[h].at = "batch" /\ CountRow(shReq[h])),
         seen' = seen \/ RecordSeen(h),
         \/ UNCHANGED share
         \/ \E l \in Links : \E new : share[l] = NoShare /\ share' = [share EXCEPT ![l] = new]
  PROVE  StepShape
<1>1. \A g \in ShHandlers : Continues(g)
  BY ContinuesAs
<1>2. \A l \in Links : share[l].state \in {"expired", "revoked"} =>
        share'[l].state \in {"expired", "revoked"}
  <2>1. ASSUME NEW m \in Links, NEW new, share[m] = NoShare, share' = [share EXCEPT ![m] = new],
               NEW l \in Links, share[l].state \in {"expired", "revoked"}
        PROVE  share'[l].state \in {"expired", "revoked"}
    <3>1. l # m
      BY <2>1 DEF NoShare
    <3> QED BY <2>1, <3>1 DEF ShInv, ShTypeOK
  <2> QED BY <2>1
<1> QED BY <1>1, <1>2 DEF StepShape

LEMMA RequestShape ==
  ASSUME ShInv, NEW h \in ShHandlers,
         \/ BeginKey(h) \/ AnswerKnown(h) \/ RecordSeen(h)
         \/ ConfirmThroughLink(h) \/ CommentThroughLink(h) \/ SubmitCandidate(h)
         \/ ConfirmManually(h) \/ MarkLinkCopied(h)
         \/ CommitApproval(h) \/ DecideAsMember(h) \/ ApproveThroughLink(h)
         \/ AbortRow(h) \/ ShLoseAnswer(h) \/ MarkKeyFailed(h) \/ ShDrop(h)
         \/ \E l \in Links : CommitLink(h, l)
  PROVE  StepShape
<1>1. ASSUME \/ ShFinish(h) \/ BeginKey(h)
             \/ \E at \in {"batch", "answer", "fail"} : ShGoto(h, at),
             made' = made, share' = share, seen' = seen \/ RecordSeen(h)
      PROVE  StepShape
  <2>1. made' = made \/ (shReq[h].at = "batch" /\ CountRow(shReq[h]))
    BY <1>1
  <2>2. \/ UNCHANGED share
        \/ \E l \in Links : \E new : share[l] = NoShare /\ share' = [share EXCEPT ![l] = new]
    BY <1>1
  <2> QED BY <1>1, <2>1, <2>2, GoesOnShape
<1>2. CASE BeginKey(h)
  BY <1>1, <1>2 DEF BeginKey
<1>3. CASE AnswerKnown(h) \/ MarkKeyFailed(h) \/ ShDrop(h) \/ RecordSeen(h)
  BY <1>1, <1>3 DEF AnswerKnown, MarkKeyFailed, ShDrop, RecordSeen
<1>4. CASE AbortRow(h) \/ ShLoseAnswer(h)
  BY <1>1, <1>4 DEF AbortRow, ShLoseAnswer
<1>5. ASSUME NEW verb, CommitRow(h, verb)
      PROVE  StepShape
  BY <1>5, GoesOnShape DEF CommitRow
<1>6. CASE CommitApproval(h)
  BY <1>6, GoesOnShape DEF CommitApproval
<1>7. ASSUME NEW verb, CommitDecision(h, verb)
      PROVE  StepShape
  BY <1>7, GoesOnShape DEF CommitDecision
<1>8. ASSUME NEW l \in Links, CommitLink(h, l)
      PROVE  StepShape
  <2>1. PICK new : share[l] = NoShare /\ share' = [share EXCEPT ![l] = new]
    BY <1>8 DEF CommitLink
  <2>2. /\ shReq[h].at = "batch" /\ CountRow(shReq[h]) /\ ShGoto(h, "answer")
        /\ seen' = seen
    BY <1>8 DEF CommitLink
  <2> QED BY <2>1, <2>2, GoesOnShape
<1> QED BY <1>2, <1>3, <1>4, <1>5, <1>6, <1>7, <1>8
     DEF ConfirmThroughLink, CommentThroughLink, SubmitCandidate, ConfirmManually, MarkLinkCopied,
         DecideAsMember, ApproveThroughLink

LEMMA NextShape == ShInv /\ SharingNext => StepShape
<1> SUFFICES ASSUME ShInv, SharingNext PROVE StepShape
  OBVIOUS
<1>1. ASSUME NEW h \in ShHandlers, NEW m \in Members, NEW k \in ShKeys,
             \/ \E l \in Links, verb \in {"manual", "copied"} : StartOnRecipient(h, m, verb, k, l)
             \/ \E a \in Approvals :
                  \/ \E purpose \in DOMAIN PurposeActions : StartCreateLink(h, m, k, purpose, a)
                  \/ \E approver \in Members, self \in BOOLEAN :
                       StartRequest(h, m, k, a, approver, self)
                  \/ \E says \in Decisions : StartDecide(h, m, k, a, says)
      PROVE  StepShape
  <2>1. PICK verb, what, body, on, status, version :
          StartKeyed(h, <<m, verb, what>>, k, body, on, status, version)
    BY <1>1 DEF StartOnRecipient, StartCreateLink, StartRequest, StartDecide
  <2> DEFINE op == <<m, verb, what>>
  <2>2. op[1] = m /\ op # <<>>
    OBVIOUS
  <2>3. StartKeyed(h, op, k, body, on, status, version)
    BY <2>1
  <2> HIDE DEF op
  <2> QED BY <2>2, <2>3, MemberShape
<1>2. ASSUME NEW h \in ShHandlers, NEW l \in Links, Exchange(h, l) \/ StartDownload(h, l)
      PROVE  StepShape
  BY <1>2, ThroughLinkShape
<1> QED BY <1>1, <1>2, LinkStepShape, ThroughLinkShape, RequestShape DEF SharingNext

\* The row that a batch counts is of the request whose key began.
LEMMA CountedRow ==
  ASSUME ShInv, NEW h \in ShHandlers, shReq[h].at = "batch", CountRow(shReq[h]),
         NEW o \in ShareOps, NEW k \in ShKeys
  PROVE  /\ o # shReq[h].op => made'[<<o, k>>] = made[<<o, k>>]
         /\ made'[<<o, k>>] >= made[<<o, k>>]
<1>1. PICK q \in ShareRequests : q = shReq[h]
  BY DEF ShInv, ShTypeOK
<1> DEFINE ok == <<q.op, q.key>>
           pair == <<o, k>>
<1>2. ok \in ShareOps \X ShKeys /\ pair \in ShareOps \X ShKeys
  BY <1>1, BeganKnows
<1>3. made' = [made EXCEPT ![ok] = @ + 1]
  BY <1>1 DEF CountRow
<1>4. o # q.op => pair # ok
  OBVIOUS
<1> HIDE DEF ok, pair
<1>5. made[ok] \in Nat /\ made[pair] \in Nat
  BY <1>2 DEF ShInv, ShTypeOK
<1>6. (pair # ok => made'[pair] = made[pair]) /\ made'[pair] >= made[pair]
  BY <1>2, <1>3, <1>5 DEF ShInv, ShTypeOK
<1> QED BY <1>1, <1>4, <1>6 DEF pair

LEMMA RowsStay ==
  ASSUME ShInv, StepShape, NEW o \in ShareOps, NEW k \in ShKeys
  PROVE  /\ made'[<<o, k>>] >= made[<<o, k>>]
         /\ (\A h \in ShHandlers : shReq[h].op # o) => made'[<<o, k>>] = made[<<o, k>>]
<1> DEFINE pair == <<o, k>>
<1>1. CASE made' = made
  <2>1. made[pair] \in Nat
    BY DEF ShInv, ShTypeOK
  <2> QED BY <1>1, <2>1
<1>2. CASE \E h \in ShHandlers : shReq[h].at = "batch" /\ CountRow(shReq[h])
  BY <1>2, CountedRow
<1> QED BY <1>1, <1>2 DEF StepShape

LEMMA SeenStays ==
  ASSUME StepShape, NEW type, NEW l
  PROVE  /\ <<type, l>> \in seen => <<type, l>> \in seen'
         /\ (\A h \in ShHandlers : shReq[h].at = "record" => shReq[h].on # <<type, l>>) =>
              (<<type, l>> \in seen' => <<type, l>> \in seen)
BY DEF StepShape, RecordSeen

LEMMA LinksAreNobody ==
  ASSUME NEW l \in Links, NEW verb, NEW op, op[1] \in Members
  PROVE  op # <<l, verb, "any">>
BY SharingAssumption

LEMMA ClosedStep ==
  ASSUME ShInv, StepShape, NEW l \in Links, Closed(l)
  PROVE  /\ Closed(l)'
         /\ \A o \in ShareOps, k \in ShKeys : o[1] = l => made'[<<o, k>>] = made[<<o, k>>]
         /\ \A type \in {"viewed", "downloaded"} : <<type, l>> \in seen' => <<type, l>> \in seen
<1>1. ASSUME NEW o \in ShareOps, NEW k \in ShKeys, o[1] = l
      PROVE  made'[<<o, k>>] = made[<<o, k>>]
  <2>1. l \notin Members
    BY SharingAssumption
  <2>2. \E verb \in {"confirm", "comment", "submit", "approve"} : o = <<l, verb, "any">>
    BY <1>1, <2>1 DEF ShareOps
  <2>3. \A h \in ShHandlers : shReq[h].op # o
    BY <2>2 DEF Closed
  <2> QED BY <2>3, RowsStay
<1>2. ASSUME NEW type \in {"viewed", "downloaded"}, <<type, l>> \in seen'
      PROVE  <<type, l>> \in seen
  <2>1. \A h \in ShHandlers : shReq[h].at = "record" => shReq[h].on # <<type, l>>
    BY DEF Closed
  <2> QED BY <1>2, <2>1, SeenStays
<1>3. share'[l].state \in {"expired", "revoked"}
  BY DEF Closed, StepShape
<1>4. ASSUME NEW g \in ShHandlers
      PROVE  /\ shReq'[g].at = "record" =>
                  shReq'[g].on \notin {<<"viewed", l>>, <<"downloaded", l>>}
             /\ \A verb \in {"confirm", "comment", "submit", "approve"} :
                  shReq'[g].op # <<l, verb, "any">>
  <2>1. CASE Continues(g)
    <3>1. shReq[g].at = "record" => shReq[g].on \notin {<<"viewed", l>>, <<"downloaded", l>>}
      BY DEF Closed
    <3>2. \A verb \in {"confirm", "comment", "submit", "approve"} : shReq[g].op # <<l, verb, "any">>
      BY DEF Closed
    <3> QED BY <2>1, <3>1, <3>2 DEF Continues
  <2>2. CASE Admitted(g)
    <3>1. PICK m \in Links :
            /\ share[m].state = "open"
            /\ \/ /\ shReq'[g].op = <<>>
                  /\ shReq'[g].on = <<"viewed", m>> \/ shReq'[g].on = <<"downloaded", m>>
               \/ /\ shReq'[g].at = "begin"
                  /\ \E verb \in {"confirm", "comment", "submit", "approve"} :
                       shReq'[g].op = <<m, verb, "any">>
      BY <2>2 DEF Admitted
    <3>2. m # l
      BY <3>1 DEF Closed
    <3> QED BY <3>1, <3>2
  <2>3. CASE OfMember(g)
    BY <2>3, LinksAreNobody DEF OfMember
  <2> QED BY <2>1, <2>2, <2>3 DEF StepShape
<1>5. Closed(l)'
  BY <1>3, <1>4 DEF Closed
<1> QED BY <1>1, <1>2, <1>5

LEMMA WithdrawnStep ==
  ASSUME ShInv, StepShape, NEW l \in Links, Withdrawn(l)
  PROVE  /\ Withdrawn(l)' \/ l \notin withdrawn'
         /\ \A verb \in Loading, k \in ShKeys : <<l, verb, "any">> \in ShareOps =>
              made'[<<<<l, verb, "any">>, k>>] = made[<<<<l, verb, "any">>, k>>]
         /\ <<"downloaded", l>> \in seen' => <<"downloaded", l>> \in seen
<1>1. ASSUME NEW verb \in Loading, NEW k \in ShKeys, <<l, verb, "any">> \in ShareOps
      PROVE  made'[<<<<l, verb, "any">>, k>>] = made[<<<<l, verb, "any">>, k>>]
  <2> DEFINE o == <<l, verb, "any">>
  <2>1. o \in ShareOps /\ \A h \in ShHandlers : shReq[h].op # o
    BY <1>1 DEF Withdrawn
  <2> HIDE DEF o
  <2>2. made'[<<o, k>>] = made[<<o, k>>]
    BY <2>1, RowsStay
  <2> QED BY <2>2 DEF o
<1>2. <<"downloaded", l>> \in seen' => <<"downloaded", l>> \in seen
  <2>1. \A h \in ShHandlers : shReq[h].at = "record" => shReq[h].on # <<"downloaded", l>>
    BY DEF Withdrawn
  <2> QED BY <2>1, SeenStays
<1>3. ASSUME NEW g \in ShHandlers
      PROVE  /\ shReq'[g].at = "record" => shReq'[g].on # <<"downloaded", l>>
             /\ \A verb \in Loading : shReq'[g].op # <<l, verb, "any">>
  <2>1. CASE Continues(g)
    BY <2>1 DEF Continues, Withdrawn
  <2>2. CASE Admitted(g)
    <3>1. l \in withdrawn
      BY DEF Withdrawn
    <3>2. PICK m \in Links :
            \/ /\ shReq'[g].op = <<>>
               /\ \/ shReq'[g].on = <<"viewed", m>>
                  \/ shReq'[g].on = <<"downloaded", m>> /\ m \notin withdrawn
            \/ /\ shReq'[g].at = "begin"
               /\ \E verb \in {"confirm", "comment", "submit", "approve"} :
                    /\ shReq'[g].op = <<m, verb, "any">>
                    /\ verb \in Loading => m \notin withdrawn
      BY <2>2 DEF Admitted
    <3>3. CASE shReq'[g].op = <<>> /\ shReq'[g].on = <<"viewed", m>>
      BY <3>3
    <3>4. CASE shReq'[g].op = <<>> /\ shReq'[g].on = <<"downloaded", m>> /\ m \notin withdrawn
      BY <3>1, <3>4
    <3>5. CASE /\ shReq'[g].at = "begin"
               /\ \E verb \in {"confirm", "comment", "submit", "approve"} :
                    /\ shReq'[g].op = <<m, verb, "any">>
                    /\ verb \in Loading => m \notin withdrawn
      BY <3>1, <3>5
    <3> QED BY <3>2, <3>3, <3>4, <3>5
  <2>3. CASE OfMember(g)
    BY <2>3, LinksAreNobody DEF OfMember
  <2> QED BY <2>1, <2>2, <2>3 DEF StepShape
<1>4. Withdrawn(l)' \/ l \notin withdrawn'
  BY <1>3 DEF Withdrawn, Loading
<1> QED BY <1>1, <1>2, <1>4

LEMMA DeliveryStep ==
  ASSUME ShInv, StepShape, NEW l \in Links
  PROVE  DeliveryState(l)' >= DeliveryState(l)
<1>1. Confirmations(l) \subseteq Confirmations(l)'
  <2> SUFFICES ASSUME NEW ok \in Confirmations(l) PROVE ok \in Confirmations(l)'
    OBVIOUS
  <2>1. ok \in ShareOps \X ShKeys /\ made[ok] > 0
    BY DEF Confirmations
  <2>2. PICK o \in ShareOps, k \in ShKeys : ok = <<o, k>>
    BY <2>1
  <2>3. made'[ok] >= made[ok]
    BY <2>2, RowsStay
  <2>4. made[ok] \in Nat
    BY <2>1 DEF ShInv, ShTypeOK
  <2>5. made'[ok] \in Nat
    <3>1. CASE made' = made
      BY <2>4, <3>1
    <3>2. ASSUME NEW h \in ShHandlers, shReq[h].at = "batch", CountRow(shReq[h])
          PROVE  made'[ok] \in Nat
      <4>1. PICK q \in ShareRequests : q = shReq[h]
        BY DEF ShInv, ShTypeOK
      <4> DEFINE pair == <<q.op, q.key>>
      <4>2. pair \in ShareOps \X ShKeys
        BY <3>2, <4>1, BeganKnows
      <4>3. made' = [made EXCEPT ![pair] = @ + 1]
        BY <3>2, <4>1 DEF CountRow
      <4> HIDE DEF pair
      <4> QED BY <2>1, <4>2, <4>3 DEF ShInv, ShTypeOK
    <3> QED BY <3>1, <3>2 DEF StepShape
  <2>6. made'[ok] > 0
    BY <2>1, <2>3, <2>4, <2>5
  <2> QED BY <2>1, <2>6 DEF Confirmations
<1>2. <<"viewed", l>> \in seen => <<"viewed", l>> \in seen'
  BY SeenStays
<1> QED BY <1>1, <1>2 DEF DeliveryState

\* A step keeps what is decided, and nobody begins to decide it again.
Keeps(a) ==
  /\ approval'[a] = approval[a] /\ decision'[a] = decision[a]
  /\ \A g \in ShHandlers, m \in Members :
       shReq'[g].on = a /\ shReq'[g].op = <<m, "decide", "any">> =>
         shReq[g].on = a /\ shReq[g].op = <<m, "decide", "any">>

\* A request ends or goes on: who decides what is as it was.
LEMMA GoingOnKeeps ==
  ASSUME ShInv, NEW h \in ShHandlers,
         \/ ShFinish(h) \/ BeginKey(h)
         \/ \E at \in {"batch", "answer", "fail"} : ShGoto(h, at)
  PROVE  \A g \in ShHandlers :
           \/ shReq'[g].op = <<>>
           \/ (shReq'[g].op = shReq[g].op /\ shReq'[g].on = shReq[g].on)
<1>1. CASE ShFinish(h)
  BY <1>1, NoShReqIs DEF ShFinish, ShInv, ShTypeOK
<1>2. PICK q \in ShareRequests : q = shReq[h]
  BY DEF ShInv, ShTypeOK
<1>3. ASSUME NEW at \in {"batch", "answer", "fail"}, ShGoto(h, at)
      PROVE  \A g \in ShHandlers : shReq'[g].op = shReq[g].op /\ shReq'[g].on = shReq[g].on
  <2> DEFINE r == [q EXCEPT !.at = at]
  <2>1. r.op = q.op /\ r.on = q.on /\ shReq' = [shReq EXCEPT ![h] = r]
    BY <1>2, <1>3 DEF ShareRequests, ShGoto, ShInv, ShTypeOK
  <2> HIDE DEF r
  <2> QED BY <1>2, <2>1 DEF ShInv, ShTypeOK
<1>4. CASE BeginKey(h)
  <2>1. PICK at \in {"batch", "fail"}, after \in Nat :
          shReq' = [shReq EXCEPT ![h].at = at, ![h].after = after]
    BY <1>4, BeginsAfter DEF BeginKey
  <2> DEFINE r == [q EXCEPT !.at = at, !.after = after]
  <2>2. r.op = q.op /\ r.on = q.on /\ shReq' = [shReq EXCEPT ![h] = r]
    BY <1>2, <2>1 DEF ShareRequests, ShInv, ShTypeOK
  <2> HIDE DEF r
  <2> QED BY <1>2, <2>2 DEF ShInv, ShTypeOK
<1> QED BY <1>1, <1>3, <1>4

LEMMA SettledStep ==
  ASSUME ShInv, SharingNext, NEW a \in Approvals, Settled(a)
  PROVE  Keeps(a)
<1>1. ASSUME \A g \in ShHandlers :
               \/ shReq'[g].op = <<>>
               \/ (shReq'[g].op = shReq[g].op /\ shReq'[g].on = shReq[g].on)
               \/ shReq'[g].op[2] # "decide" \/ shReq'[g].on # a,
             approval'[a] = approval[a], decision'[a] = decision[a]
      PROVE  Keeps(a)
  BY <1>1 DEF Keeps
<1>2. ASSUME NEW h \in ShHandlers, NEW op, NEW k, NEW body, NEW on, NEW status, NEW version,
             StartKeyed(h, op, k, body, on, status, version), op[2] # "decide" \/ on # a
      PROVE  Keeps(a)
  <2> DEFINE r == [at |-> "begin", op |-> op, key |-> k, body |-> body, on |-> on,
                   status |-> status, version |-> version, after |-> 0]
  <2>1. r.op = op /\ r.on = on /\ shReq' = [shReq EXCEPT ![h] = r]
        /\ UNCHANGED <<approval, decision>>
    BY <1>2 DEF StartKeyed
  <2> HIDE DEF r
  <2>2. \A g \in ShHandlers : g # h => shReq'[g] = shReq[g]
    BY <2>1 DEF ShInv, ShTypeOK
  <2>3. shReq'[h] = r
    BY <2>1 DEF ShInv, ShTypeOK
  <2> QED BY <1>1, <1>2, <2>1, <2>2, <2>3
<1>3. ASSUME NEW h \in ShHandlers,
             \/ ShFinish(h) \/ BeginKey(h)
             \/ \E at \in {"batch", "answer", "fail"} : ShGoto(h, at),
             approval'[a] = approval[a], decision'[a] = decision[a]
      PROVE  Keeps(a)
  BY <1>1, <1>3, GoingOnKeeps
<1>4. ASSUME NEW l \in Links,
             \/ MakeRecipientLink(l) \/ Revoke(l) \/ ExpireLink(l) \/ EndSession(l)
             \/ WithdrawObject(l) \/ RestoreObject(l)
      PROVE  Keeps(a)
  BY <1>4 DEF Keeps, MakeRecipientLink, Revoke, ExpireLink, EndSession, WithdrawObject,
     RestoreObject
<1>5. ASSUME NEW h \in ShHandlers, NEW l \in Links, Exchange(h, l) \/ StartDownload(h, l)
      PROVE  Keeps(a)
  <2>1. PICK on : shReq' = [shReq EXCEPT ![h] = [NoShReq EXCEPT !.at = "record", !.on = on]]
    BY <1>5 DEF Exchange, StartDownload
  <2> DEFINE r == [NoShReq EXCEPT !.at = "record", !.on = on]
  <2>2. r.op = <<>>
    BY DEF NoShReq
  <2>3. shReq' = [shReq EXCEPT ![h] = r]
    BY <2>1
  <2> HIDE DEF r
  <2>4. \A g \in ShHandlers :
          \/ shReq'[g].op = <<>>
          \/ (shReq'[g].op = shReq[g].op /\ shReq'[g].on = shReq[g].on)
    BY <2>2, <2>3 DEF ShInv, ShTypeOK
  <2>5. approval' = approval /\ decision' = decision
    BY <1>5 DEF Exchange, StartDownload
  <2> QED BY <1>1, <2>4, <2>5
<1>6. ASSUME NEW h \in ShHandlers, NEW l \in Links, NEW k \in ShKeys,
             \/ \E verb \in {"confirm", "comment", "submit"} : StartThroughLink(h, l, verb, k)
             \/ \E says \in Decisions : StartApprove(h, l, k, says)
             \/ \E m \in Members, verb \in {"manual", "copied"} : StartOnRecipient(h, m, verb, k, l)
      PROVE  Keeps(a)
  <2>1. PICK who, verb, what, body, on, status, version :
          verb # "decide" /\ StartKeyed(h, <<who, verb, what>>, k, body, on, status, version)
    BY <1>6 DEF StartThroughLink, StartApprove, StartOnRecipient
  <2> DEFINE op == <<who, verb, what>>
  <2>2. op[2] # "decide" /\ StartKeyed(h, op, k, body, on, status, version)
    BY <2>1
  <2> HIDE DEF op
  <2> QED BY <1>2, <2>2
<1>7. ASSUME NEW h \in ShHandlers, NEW m \in Members, NEW k \in ShKeys, NEW b \in Approvals,
             \/ \E purpose \in DOMAIN PurposeActions : StartCreateLink(h, m, k, purpose, b)
             \/ \E approver \in Members, self \in BOOLEAN : StartRequest(h, m, k, b, approver, self)
             \/ \E says \in Decisions : StartDecide(h, m, k, b, says)
      PROVE  Keeps(a)
  <2>1. ASSUME NEW verb, NEW body, NEW on, NEW status, NEW version,
               StartKeyed(h, <<m, verb, "any">>, k, body, on, status, version),
               verb # "decide" \/ on # a
        PROVE  Keeps(a)
    <3> DEFINE op == <<m, verb, "any">>
    <3>1. StartKeyed(h, op, k, body, on, status, version) /\ (op[2] # "decide" \/ on # a)
      BY <2>1
    <3> HIDE DEF op
    <3> QED BY <1>2, <3>1
  <2>2. ASSUME NEW says \in Decisions, StartDecide(h, m, k, b, says)
        PROVE  Keeps(a)
    <3> DEFINE body == <<says, b>>
               version == approval[b].version
    <3>1. StartKeyed(h, <<m, "decide", "any">>, k, body, b, "requested", version) /\ b # a
      BY <2>2 DEF StartDecide, Settled
    <3> HIDE DEF body, version
    <3> QED BY <2>1, <3>1
  <2>3. ASSUME NEW purpose, StartCreateLink(h, m, k, purpose, b)
        PROVE  Keeps(a)
    <3> DEFINE on == <<purpose, b>>
    <3>1. StartKeyed(h, <<m, "create", "any">>, k, <<>>, on, "none", 0)
      BY <2>3 DEF StartCreateLink
    <3> HIDE DEF on
    <3> QED BY <2>1, <3>1
  <2>4. ASSUME NEW approver, NEW self, StartRequest(h, m, k, b, approver, self)
        PROVE  Keeps(a)
    <3> DEFINE on == <<b, approver, self>>
    <3>1. StartKeyed(h, <<m, "request", "any">>, k, <<>>, on, "none", 0)
      BY <2>4 DEF StartRequest
    <3> HIDE DEF on
    <3> QED BY <2>1, <3>1
  <2> QED BY <1>7, <2>2, <2>3, <2>4
<1>8. ASSUME NEW h \in ShHandlers,
             \/ BeginKey(h) \/ AnswerKnown(h) \/ RecordSeen(h)
             \/ AbortRow(h) \/ ShLoseAnswer(h) \/ MarkKeyFailed(h) \/ ShDrop(h)
             \/ \E verb : CommitRow(h, verb)
             \/ \E l \in Links : CommitLink(h, l)
      PROVE  Keeps(a)
  BY <1>3, <1>8 DEF BeginKey, AnswerKnown, RecordSeen, AbortRow, ShLoseAnswer, MarkKeyFailed,
     ShDrop, CommitRow, CommitLink
<1>9. ASSUME NEW h \in ShHandlers, CommitApproval(h)
      PROVE  Keeps(a)
  <2>1. approval[a] # NoApproval
    BY NoApprovalIs DEF Settled
  <2>2. approval'[a] = approval[a]
    BY <1>9, <2>1 DEF CommitApproval, ShInv, ShTypeOK
  <2> QED BY <1>3, <1>9, <2>2 DEF CommitApproval
<1>10. ASSUME NEW h \in ShHandlers, NEW verb \in {"decide", "approve"}, CommitDecision(h, verb)
       PROVE  Keeps(a)
  <2>1. PICK q \in ShareRequests : q = shReq[h]
    BY DEF ShInv, ShTypeOK
  <2>2. q.at = "batch" /\ q.op[2] = verb /\ ShBatchHolds(q)
    BY <1>10, <2>1 DEF CommitDecision
  <2>3. q.op \in ShareOps /\ q.on \in Approvals
    BY <2>1, <2>2, BeganKnows DEF Checked
  <2>4. q.on # a
    <3>1. CASE verb = "decide"
      <4>1. \E m \in Members : q.op = <<m, "decide", "any">>
        BY <2>2, <2>3, <3>1 DEF ShareOps
      <4> QED BY <2>1, <4>1 DEF Settled
    <3>2. CASE verb = "approve"
      BY <2>2, <3>2 DEF ShBatchHolds, Settled
    <3> QED BY <3>1, <3>2
  <2>5. approval'[a] = approval[a] /\ decision'[a] = decision[a]
    BY <1>10, <2>1, <2>3, <2>4 DEF CommitDecision, Decided, ShInv, ShTypeOK
  <2> QED BY <1>3, <1>10, <2>5 DEF CommitDecision
<1>11. ASSUME NEW h \in ShHandlers,
              \/ ConfirmThroughLink(h) \/ CommentThroughLink(h) \/ SubmitCandidate(h)
              \/ ConfirmManually(h) \/ MarkLinkCopied(h)
              \/ DecideAsMember(h) \/ ApproveThroughLink(h)
       PROVE  Keeps(a)
  BY <1>8, <1>10, <1>11 DEF ConfirmThroughLink, CommentThroughLink, SubmitCandidate,
     ConfirmManually, MarkLinkCopied, DecideAsMember, ApproveThroughLink
<1> QED BY <1>4, <1>5, <1>6, <1>7, <1>8, <1>9, <1>11 DEF SharingNext

LEMMA DecidedStep ==
  ASSUME ShInv, [SharingNext]_sharingVars, NEW a \in Approvals, Settled(a)
  PROVE  Settled(a)' /\ approval'[a] = approval[a] /\ decision'[a] = decision[a]
<1>1. Keeps(a)
  BY SettledStep DEF Keeps, sharingVars
<1> QED BY <1>1 DEF Keeps, Settled

LEMMA QuietShape == ShInv /\ UNCHANGED sharingVars => StepShape
BY DEF StepShape, Continues, sharingVars

LEMMA ShNextShape == ShInv /\ [SharingNext]_sharingVars => StepShape
BY NextShape, QuietShape

\* A closed link stays closed and nothing reaches anybody through it, nothing of
\* a withdrawn object is downloaded or decided through its links, what a recipient
\* has done is never undone, and a decided approval settles (shares.ts:1102, :407,
\* :613, :646, operations.ts:3403).
THEOREM SharesOnlyMoveOn == SharingSpec => SharesMoveOn
<1>1. ShInv /\ [SharingNext]_sharingVars =>
        [\A l \in Links : Closed(l) =>
           /\ Closed(l)'
           /\ \A o \in ShareOps, k \in ShKeys : o[1] = l => made'[<<o, k>>] = made[<<o, k>>]
           /\ \A type \in {"viewed", "downloaded"} : <<type, l>> \in seen' => <<type, l>> \in seen
        ]_sharingVars
  BY ShNextShape, ClosedStep
<1>2. ShInv /\ [SharingNext]_sharingVars =>
        [\A l \in Links : Withdrawn(l) =>
           /\ Withdrawn(l)' \/ l \notin withdrawn'
           /\ \A verb \in Loading, k \in ShKeys : <<l, verb, "any">> \in ShareOps =>
                made'[<<<<l, verb, "any">>, k>>] = made[<<<<l, verb, "any">>, k>>]
           /\ <<"downloaded", l>> \in seen' => <<"downloaded", l>> \in seen
        ]_sharingVars
  BY ShNextShape, WithdrawnStep
<1>3. ShInv /\ [SharingNext]_sharingVars =>
        [\A l \in Links : share[l] # NoShare => DeliveryState(l)' >= DeliveryState(l)]_sharingVars
  BY ShNextShape, DeliveryStep
<1>4. SharingSpec => NothingThroughClosed
  BY <1>1, RequestsHoldTheirKeys, PTL DEF NothingThroughClosed, SharingSpec
<1>5. SharingSpec => NothingOfWithdrawn
  BY <1>2, RequestsHoldTheirKeys, PTL DEF NothingOfWithdrawn, SharingSpec
<1>6. SharingSpec => DeliveryNeverGoesBack
  BY <1>3, RequestsHoldTheirKeys, PTL DEF DeliveryNeverGoesBack, SharingSpec
<1>7. ShInv /\ [SharingNext]_sharingVars =>
        [\A a \in Approvals : Settled(a) =>
           Settled(a)' /\ approval'[a] = approval[a] /\ decision'[a] = decision[a]]_sharingVars
  BY DecidedStep
<1>8. SharingSpec => DecidedSettles
  BY <1>7, RequestsHoldTheirKeys, PTL DEF DecidedSettles, SharingSpec
<1> QED BY <1>4, <1>5, <1>6, <1>8 DEF SharesMoveOn

----------------------------------------------------------------------------
(* Discussions.                                                           *)

Comments == [version : Nat, resolved : BOOLEAN, under : SUBSET CommentIds]
Verbs == {"commented", "comment_resolved", "comment_reopened"}
Shown == [CommentIds -> Comments]

DsTypeOK ==
  /\ comment \in Shown
  /\ activity \in Seq(Verbs \X CommentIds)
  /\ notice \in [Writers -> SUBSET [about : CommentIds, read : BOOLEAN]]
  /\ page \in [Writers -> Shown]

\* A row that was not posted is the empty one.
EmptyUntilPosted == \A c \in CommentIds : comment[c].version = 0 => comment[c] = NoComment

\* A panel is not ahead of a comment, and shows its state if it has its version.
PanelsAreOld ==
  \A w \in Writers, c \in CommentIds :
    /\ page[w][c].version <= comment[c].version
    /\ page[w][c].version = comment[c].version => page[w][c].resolved = comment[c].resolved

DsInv == DsTypeOK /\ EmptyUntilPosted /\ PanelsAreOld /\ ActivitiesTellTheComments

----------------------------------------------------------------------------
\* Where activity tells of <<verb, c>>.
Where(verb, c) == {n \in DOMAIN activity : activity[n] = <<verb, c>>}

LEMMA CountsAreNumbers ==
  ASSUME DsTypeOK, NEW verb, NEW c
  PROVE  IsFiniteSet(Where(verb, c)) /\ Told(verb, c) \in Nat
<1>1. IsFiniteSet(DOMAIN activity)
  BY FS_Interval DEF DsTypeOK
<1>2. IsFiniteSet(Where(verb, c))
  BY <1>1, FS_Subset DEF Where
<1> QED BY <1>2, FS_CardinalityType DEF Told, Where

LEMMA ToldIsCounted ==
  ASSUME NEW verb, NEW c
  PROVE  Told(verb, c) = Cardinality(Where(verb, c)) /\ Told(verb, c)' = Cardinality(Where(verb, c)')
BY DEF Told, Where

\* One more activity is counted once, for its verb and its comment.
LEMMA OneMoreTold ==
  ASSUME DsTypeOK, NEW v \in Verbs, NEW d \in CommentIds, WithActivity(v, d),
         NEW verb \in Verbs, NEW c \in CommentIds
  PROVE  Told(verb, c)' = Told(verb, c) + (IF verb = v /\ c = d THEN 1 ELSE 0)
<1> DEFINE new == Len(activity) + 1
<1>1. /\ activity' = Append(activity, <<v, d>>) /\ DOMAIN activity = 1 .. Len(activity)
      /\ Len(activity) \in Nat
      /\ DOMAIN activity' = 1 .. new /\ activity'[new] = <<v, d>>
      /\ \A n \in 1 .. Len(activity) : activity'[n] = activity[n]
  BY DEF WithActivity, DsTypeOK
<1>2. CASE verb = v /\ c = d
  <2>1. Where(verb, c)' = Where(verb, c) \cup {new} /\ new \notin Where(verb, c)
    BY <1>1, <1>2 DEF Where
  <2>2. Cardinality(Where(verb, c) \cup {new}) = Cardinality(Where(verb, c)) + 1
    BY <2>1, CountsAreNumbers, FS_AddElement
  <2> QED BY <1>2, <2>1, <2>2, ToldIsCounted
<1>3. CASE ~(verb = v /\ c = d)
  <2>1. <<v, d>> # <<verb, c>>
    BY <1>3
  <2>2. Where(verb, c)' = Where(verb, c)
    BY <1>1, <2>1 DEF Where
  <2>3. Told(verb, c)' = Told(verb, c)
    BY <2>2, ToldIsCounted
  <2> QED BY <1>3, <2>3, CountsAreNumbers
<1> QED BY <1>2, <1>3

LEMMA DiscussionsInitInv == DiscussionsInit => DsInv
<1> SUFFICES ASSUME DiscussionsInit PROVE DsInv
  OBVIOUS
<1>1. NoComment \in Comments /\ NoComment.version = 0 /\ NoComment.resolved = FALSE
  BY DEF NoComment, Comments
<1>2. DsTypeOK
  BY <1>1 DEF DiscussionsInit, DsTypeOK, Shown
<1>3. EmptyUntilPosted /\ PanelsAreOld
  BY <1>1 DEF DiscussionsInit, EmptyUntilPosted, PanelsAreOld
<1>4. ActivitiesTellTheComments
  <2>1. \A verb, c : Where(verb, c) = {}
    BY DEF DiscussionsInit, Where
  <2>2. \A verb, c : Told(verb, c) = 0
    BY <2>1, FS_EmptySet DEF Told, Where
  <2> QED BY <1>1, <2>2 DEF DiscussionsInit, ActivitiesTellTheComments
<1> QED BY <1>2, <1>3, <1>4 DEF DsInv

----------------------------------------------------------------------------
\* Comment c is inserted.
LEMMA PostedInv ==
  ASSUME DsInv, NEW c \in CommentIds, NEW under \in SUBSET CommentIds, ~Posted(c),
         comment' = [comment EXCEPT ![c] = NewComment(under)], page' = page
  PROVE  /\ comment' \in Shown /\ EmptyUntilPosted' /\ PanelsAreOld'
         /\ \A d \in CommentIds : comment'[d].resolved = comment[d].resolved
<1> DEFINE new == NewComment(under)
<1>1. new \in Comments /\ new.version = 1 /\ new.resolved = FALSE
  BY DEF NewComment, Comments
<1>2. comment[c] = NoComment /\ comment[c].version = 0 /\ comment[c].resolved = FALSE
  BY DEF Posted, NoComment
<1>3. comment' = [comment EXCEPT ![c] = new]
  OBVIOUS
<1> HIDE DEF new
<1>4. comment' \in Shown
  BY <1>1, <1>3 DEF DsInv, DsTypeOK, Shown
<1>5. EmptyUntilPosted'
  BY <1>1, <1>3 DEF DsInv, DsTypeOK, Shown, EmptyUntilPosted
<1>6. PanelsAreOld'
  BY <1>1, <1>2, <1>3 DEF DsInv, DsTypeOK, Shown, Comments, PanelsAreOld
<1> QED BY <1>1, <1>2, <1>3, <1>4, <1>5, <1>6 DEF DsInv, DsTypeOK, Shown

LEMMA ParentsAreComments == Parents \subseteq SUBSET CommentIds
BY DEF Parents

LEMMA PostThroughLinkStep ==
  ASSUME DsInv, NEW c \in CommentIds, PostThroughLink(c)
  PROVE  DsInv'
<1>1. /\ comment' \in Shown /\ EmptyUntilPosted' /\ PanelsAreOld'
      /\ \A d \in CommentIds : comment'[d].resolved = comment[d].resolved
  <2>1. {} \in SUBSET CommentIds
    OBVIOUS
  <2>2. ~Posted(c) /\ comment' = [comment EXCEPT ![c] = NewComment({})] /\ page' = page
    BY DEF PostThroughLink
  <2> QED BY <2>1, <2>2, PostedInv
<1>2. UNCHANGED <<activity, notice, page>>
  BY DEF PostThroughLink
<1>3. DsTypeOK'
  BY <1>1, <1>2 DEF DsInv, DsTypeOK
<1>4. ActivitiesTellTheComments'
  BY <1>1, <1>2 DEF DsInv, ActivitiesTellTheComments, Told
<1> QED BY <1>1, <1>3, <1>4 DEF DsInv

LEMMA PostCommentStep ==
  ASSUME DsInv, NEW w \in Writers, NEW c \in CommentIds, NEW mentioned \in SUBSET Writers,
         NEW under \in Parents, PostComment(w, c, under, mentioned)
  PROVE  DsInv'
<1>1. /\ comment' \in Shown /\ EmptyUntilPosted' /\ PanelsAreOld'
      /\ \A d \in CommentIds : comment'[d].resolved = comment[d].resolved
  BY PostedInv, ParentsAreComments DEF PostComment
<1>2. WithActivity("commented", c)
  BY DEF PostComment
<1>3. DsTypeOK'
  <2>1. activity' \in Seq(Verbs \X CommentIds)
    BY <1>2 DEF WithActivity, DsInv, DsTypeOK, Verbs
  <2>2. notice' \in [Writers -> SUBSET [about : CommentIds, read : BOOLEAN]]
    <3>1. [about |-> c, read |-> FALSE] \in [about : CommentIds, read : BOOLEAN]
      OBVIOUS
    <3>2. notice' = Notified(w, c, mentioned)
      BY DEF PostComment
    <3> DEFINE note == [about |-> c, read |-> FALSE]
               Notes == [about : CommentIds, read : BOOLEAN]
    <3>3. notice' = [m \in Writers |-> notice[m] \cup IF m \in mentioned \ {w} THEN {note} ELSE {}]
      BY <3>2 DEF Notified
    <3>4. note \in Notes /\ notice \in [Writers -> SUBSET Notes]
      BY <3>1 DEF DsInv, DsTypeOK
    <3> HIDE DEF note, Notes
    <3>5. notice' \in [Writers -> SUBSET Notes]
      BY <3>3, <3>4
    <3> QED BY <3>5 DEF Notes
  <2> QED BY <1>1, <2>1, <2>2 DEF PostComment, DsInv, DsTypeOK
<1>4. ActivitiesTellTheComments'
  <2> SUFFICES ASSUME NEW d \in CommentIds
               PROVE  (Told("comment_resolved", d) - Told("comment_reopened", d))' =
                        IF comment'[d].resolved THEN 1 ELSE 0
    BY DEF ActivitiesTellTheComments
  <2>1. /\ Told("comment_resolved", d)' = Told("comment_resolved", d)
        /\ Told("comment_reopened", d)' = Told("comment_reopened", d)
    BY <1>2, OneMoreTold, CountsAreNumbers DEF DsInv, Verbs
  <2> QED BY <1>1, <2>1 DEF DsInv, ActivitiesTellTheComments
<1> QED BY <1>1, <1>3, <1>4 DEF DsInv

\* The row as the batch leaves it.
LEMMA SettledComment ==
  ASSUME NEW old \in Comments, NEW r \in {TRUE, FALSE}
  PROVE  LET new == [old EXCEPT !.resolved = r, !.version = old.version + 1]
         IN  new \in Comments /\ new.version = old.version + 1 /\ new.resolved = r
<1> DEFINE v == old.version + 1
<1>1. v \in Nat
  BY DEF Comments
<1> HIDE DEF v
<1>2. LET new == [old EXCEPT !.resolved = r, !.version = v]
      IN  new \in Comments /\ new.version = v /\ new.resolved = r
  BY <1>1 DEF Comments
<1> QED BY <1>2 DEF v

LEMMA SettleCommentStep ==
  ASSUME DsInv, NEW w \in Writers, NEW c \in CommentIds, SettleComment(w, c)
  PROVE  DsInv'
<1> DEFINE new == IF page[w][c].resolved
                    THEN [comment[c] EXCEPT !.resolved = FALSE, !.version = comment[c].version + 1]
                    ELSE [comment[c] EXCEPT !.resolved = TRUE, !.version = comment[c].version + 1]
           verb == IF page[w][c].resolved THEN "comment_reopened" ELSE "comment_resolved"
<1>1. page[w][c].resolved = comment[c].resolved /\ comment[c].resolved \in BOOLEAN
  BY DEF SettleComment, SettleHolds, DsInv, DsTypeOK, Shown, Comments, PanelsAreOld
<1>2. /\ comment' = [comment EXCEPT ![c] = new] /\ WithActivity(verb, c)
      /\ UNCHANGED <<notice, page>>
  BY DEF SettleComment, DsInv, DsTypeOK, Shown, Comments
<1>3. /\ new \in Comments /\ new.version = comment[c].version + 1
      /\ new.resolved = ~comment[c].resolved
  <2>1. comment[c] \in Comments
    BY DEF DsInv, DsTypeOK, Shown
  <2>2. ASSUME comment[c].resolved
        PROVE  new \in Comments /\ new.version = comment[c].version + 1 /\ new.resolved = FALSE
    <3>1. new = [comment[c] EXCEPT !.resolved = FALSE, !.version = comment[c].version + 1]
      BY <1>1, <2>2
    <3> QED BY <2>1, <3>1, SettledComment
  <2>3. ASSUME ~comment[c].resolved
        PROVE  new \in Comments /\ new.version = comment[c].version + 1 /\ new.resolved = TRUE
    <3>1. new = [comment[c] EXCEPT !.resolved = TRUE, !.version = comment[c].version + 1]
      BY <1>1, <2>3
    <3> QED BY <2>1, <3>1, SettledComment
  <2> QED BY <1>1, <2>2, <2>3
<1> HIDE DEF new
<1>4. DsTypeOK'
  <2>1. activity' \in Seq(Verbs \X CommentIds)
    BY <1>2 DEF WithActivity, DsInv, DsTypeOK, Verbs
  <2> QED BY <1>2, <1>3, <2>1 DEF DsInv, DsTypeOK, Shown
<1>5. EmptyUntilPosted'
  BY <1>2, <1>3 DEF DsInv, DsTypeOK, Shown, Comments, EmptyUntilPosted
<1>6. PanelsAreOld'
  BY <1>2, <1>3 DEF DsInv, DsTypeOK, Shown, Comments, PanelsAreOld
<1>7. ActivitiesTellTheComments'
  <2> SUFFICES ASSUME NEW d \in CommentIds
               PROVE  (Told("comment_resolved", d) - Told("comment_reopened", d))' =
                        IF comment'[d].resolved THEN 1 ELSE 0
    BY DEF ActivitiesTellTheComments
  <2>1. verb \in Verbs /\ "comment_resolved" \in Verbs /\ "comment_reopened" \in Verbs
    BY DEF Verbs
  <2>2. \A v \in Verbs : Told(v, d) \in Nat
           /\ Told(v, d)' = Told(v, d) + (IF v = verb /\ d = c THEN 1 ELSE 0)
    BY <1>2, <2>1, OneMoreTold, CountsAreNumbers DEF DsInv
  <2>3. Told("comment_resolved", d) - Told("comment_reopened", d) =
          IF comment[d].resolved THEN 1 ELSE 0
    BY DEF DsInv, ActivitiesTellTheComments
  <2>4. /\ Told("comment_resolved", d)' = Told("comment_resolved", d)
              + (IF "comment_resolved" = verb /\ d = c THEN 1 ELSE 0)
        /\ Told("comment_reopened", d)' = Told("comment_reopened", d)
              + (IF "comment_reopened" = verb /\ d = c THEN 1 ELSE 0)
    BY <2>1, <2>2
  <2>5. Told("comment_resolved", d) \in Nat /\ Told("comment_reopened", d) \in Nat
    BY <2>1, <2>2
  <2>6. CASE d # c
    <3>1. comment'[d] = comment[d]
      BY <1>2, <2>6 DEF DsInv, DsTypeOK, Shown
    <3> QED BY <2>3, <2>4, <2>5, <2>6, <3>1
  <2>7. CASE d = c
    <3>1. comment'[d].resolved = ~comment[d].resolved
      BY <1>2, <1>3, <2>7 DEF DsInv, DsTypeOK, Shown
    <3>2. CASE ~comment[d].resolved
      <4>1. verb = "comment_resolved" /\ d = c
        BY <1>1, <2>7, <3>2
      <4>2. Told("comment_resolved", d) - Told("comment_reopened", d) = 0
        BY <2>3, <3>2
      <4>3. (Told("comment_resolved", d) - Told("comment_reopened", d))' = 1
        <5> HIDE DEF verb
        <5> QED BY <2>4, <2>5, <4>1, <4>2
      <4> QED BY <3>1, <3>2, <4>3
    <3>3. CASE comment[d].resolved
      <4>1. verb = "comment_reopened" /\ d = c
        BY <1>1, <2>7, <3>3
      <4>2. Told("comment_resolved", d) - Told("comment_reopened", d) = 1
        BY <2>3, <3>3
      <4>3. (Told("comment_resolved", d) - Told("comment_reopened", d))' = 0
        <5> HIDE DEF verb
        <5> QED BY <2>4, <2>5, <4>1, <4>2
      <4> QED BY <3>1, <3>3, <4>3
    <3> QED BY <1>1, <2>7, <3>2, <3>3
  <2> QED BY <2>6, <2>7
<1> QED BY <1>4, <1>5, <1>6, <1>7 DEF DsInv

LEMMA LoadPanelStep ==
  ASSUME DsInv, NEW w \in Writers, LoadPanel(w)
  PROVE  DsInv'
<1>1. DsTypeOK' /\ EmptyUntilPosted'
  BY DEF LoadPanel, DsInv, DsTypeOK, EmptyUntilPosted
<1>2. PanelsAreOld'
  BY DEF LoadPanel, DsInv, DsTypeOK, Shown, Comments, PanelsAreOld
<1>3. ActivitiesTellTheComments'
  BY DEF LoadPanel, DsInv, ActivitiesTellTheComments, Told
<1> QED BY <1>1, <1>2, <1>3 DEF DsInv

LEMMA MarkReadStep ==
  ASSUME DsInv, NEW w \in Writers, MarkRead(w)
  PROVE  DsInv'
<1>1. DsTypeOK'
  <2>1. notice' \in [Writers -> SUBSET [about : CommentIds, read : BOOLEAN]]
    BY DEF MarkRead, DsInv, DsTypeOK
  <2> QED BY <2>1 DEF MarkRead, DsInv, DsTypeOK
<1>2. EmptyUntilPosted' /\ PanelsAreOld' /\ ActivitiesTellTheComments'
  BY DEF MarkRead, DsInv, EmptyUntilPosted, PanelsAreOld, ActivitiesTellTheComments, Told
<1> QED BY <1>1, <1>2 DEF DsInv

LEMMA DiscussionsNextInv == DsInv /\ [DiscussionsNext]_discussionsVars => DsInv'
<1> SUFFICES ASSUME DsInv, [DiscussionsNext]_discussionsVars PROVE DsInv'
  OBVIOUS
<1>1. CASE UNCHANGED discussionsVars
  BY <1>1 DEF discussionsVars, DsInv, DsTypeOK, EmptyUntilPosted, PanelsAreOld,
              ActivitiesTellTheComments, Told
<1>2. CASE \E c \in CommentIds : PostThroughLink(c)
  BY <1>2, PostThroughLinkStep
<1>3. ASSUME NEW w \in Writers,
             \E c \in CommentIds, mentioned \in SUBSET Writers, under \in Parents :
               PostComment(w, c, under, mentioned)
      PROVE  DsInv'
  BY <1>3, PostCommentStep
<1>4. ASSUME NEW w \in Writers,
             (\E c \in CommentIds : SettleComment(w, c)) \/ LoadPanel(w) \/ MarkRead(w)
      PROVE  DsInv'
  BY <1>4, SettleCommentStep, LoadPanelStep, MarkReadStep
<1> QED BY <1>1, <1>2, <1>3, <1>4 DEF DiscussionsNext

\* However old the panels, a comment is resolved and reopened in turn and is
\* as its last activity left it (collaboration.ts:329).
THEOREM ActivitiesTell == DiscussionsSpec => []ActivitiesTellTheComments
<1>1. DsInv => ActivitiesTellTheComments
  BY DEF DsInv
<1> QED BY <1>1, DiscussionsInitInv, DiscussionsNextInv, PTL DEF DiscussionsSpec
=============================================================================
