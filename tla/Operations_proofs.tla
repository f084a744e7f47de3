-------------------------- MODULE Operations_proofs --------------------------
(***************************************************************************)
(* Theorems about what operations plan and issue.                          *)
(*                                                                         *)
(* Schedules, for any schedules, plans, clashes, day counts, requests and  *)
(* bounds: they rest on what a request may rely on when its batch runs.    *)
(* The schedule it revises is there, the one it copies to is not, and a    *)
(* row whose version has not moved is the row it read.                     *)
(*                                                                         *)
(* Issuing implements FrozenIssues, for any documents, people, keys,       *)
(* requests and bounds: an issue freezes what its draft says at that       *)
(* moment, and a key makes one; and the keys and the drafts always agree   *)
(* with the issues made.  Two facts carry it.  A version tells what the    *)
(* draft says: what a request has read under a version is the draft's      *)
(* text while the draft has that version.  And a key belongs to the        *)
(* request that began it: until that one commits, no issue is under it.    *)
(***************************************************************************)
EXTENDS Schedules, Issuing, SequenceTheorems, FiniteSetTheorems, TLAPS

-----------------------------------------------------------------------------
(* Schedules.                                                              *)

ScheduleRows == [status : {"none", "working", "approved"}, default : BOOLEAN,
                 current : Nat, approved : Nat]
RevisionRows == [status : {"draft", "approved"}, plan : Plans]
ConflictRows == [status : {"none", "open", "resolved", "overridden"}, version : Nat,
                 day : DayCounts \cup {0}]
DayRows == [status : {"none", "planned", "confirmed"}, title : Nat, version : Nat]
DayIds == Schedules \X Numbers \X DayCounts

Rows == {<< >>} \cup {<<s>> : s \in Schedules} \cup ConflictIds \cup DayIds
Ops == {"idle", "revise", "source", "approve", "duplicate", "resolve", "day"}
ScheduleRequests == [op : Ops, row : Rows, number : Nat, plan : Plans \cup {{}},
             clashes : SUBSET Clashes, version : Nat, day : DayRows]

SchedulesTypeOK ==
  /\ schedule \in [Schedules -> ScheduleRows]
  /\ revision \in [Schedules -> Seq(RevisionRows)]
  /\ conflict \in [ConflictIds -> ConflictRows]
  /\ resolutions \in [ConflictIds -> Nat]
  /\ shootDay \in [DayIds -> DayRows]
  /\ srReq \in [SrHandlers -> ScheduleRequests]

\* Row x points into the revisions rows.
PointsInto(x, rows) ==
  IF x.status = "none" THEN rows = << >>
  ELSE /\ x.current = Len(rows) /\ 0 < x.current
       /\ x.approved <= Len(rows)
       /\ x.approved # 0 => rows[x.approved].status = "approved"
       /\ x.status = "approved" <=> x.approved = x.current

PointersHold == \A s \in Schedules : PointsInto(schedule[s], revision[s])

DefaultsAgree ==
  \A s, t \in Schedules : schedule[s].default /\ schedule[t].default => s = t

Closed(x) == x.status \in {"resolved", "overridden"}

\* Conflict row x of revision n of a schedule with m revisions, whose days are D.
AccountsFor(x, resolved, n, m, D) ==
  /\ resolved = IF Closed(x) THEN 1 ELSE 0
  /\ x.status = "none" => x.version = 0
  /\ x.status # "none" => /\ n <= m
                          /\ IF D = {} THEN x.day = 0 ELSE x.day \in D

ConflictsHold ==
  \A s \in Schedules, n \in Numbers, c \in Clashes :
    AccountsFor(conflict[<<s, n, c>>], resolutions[<<s, n, c>>], n, Len(revision[s]), DaysOf(s, n))

DaysHold ==
  \A s \in Schedules, n \in Numbers : DaysOf(s, n) # {} => n <= Len(revision[s])

\* What request r relies on.
Relies(r) ==
  /\ r.op \in {"revise", "source", "approve", "duplicate"} => r.plan \in Plans
  /\ r.op \in {"revise", "source", "approve"} => \E s \in Schedules : r.row = <<s>> /\ Exists(s)
  /\ r.op = "duplicate" => \E s \in Schedules : r.row = <<s>> /\ ~Exists(s)
  /\ r.op = "resolve" =>
       /\ r.row \in ConflictIds
       /\ r.version <= conflict[r.row].version
       /\ r.version = conflict[r.row].version => conflict[r.row].status = "open"
  /\ r.op = "day" =>
       /\ r.row \in DayIds
       /\ shootDay[r.row] # NoDay
       /\ r.version <= shootDay[r.row].version
       /\ r.version = shootDay[r.row].version => r.day = shootDay[r.row]

RequestsRely == \A h \in SrHandlers, r \in ScheduleRequests : srReq[h] = r => Relies(r)

\* No two requests copy to one schedule.
CopiesDiffer ==
  \A g, h \in SrHandlers :
    srReq[g].op = "duplicate" /\ srReq[h].op = "duplicate" /\ srReq[g].row = srReq[h].row => g = h

SchedulesInv ==
  /\ SchedulesTypeOK /\ PointersHold /\ DefaultsAgree /\ ConflictsHold /\ DaysHold
  /\ RequestsRely /\ CopiesDiffer

----------------------------------------------------------------------------
LEMMA NoRows ==
  /\ NoSchedule \in ScheduleRows /\ NoSchedule.status = "none" /\ NoSchedule.default = FALSE
  /\ NoConflict \in ConflictRows /\ NoConflict.status = "none" /\ NoConflict.version = 0
  /\ NoDay \in DayRows
  /\ NoRequest \in ScheduleRequests /\ NoRequest.op = "idle"
<1>1. NoDay \in DayRows
  BY DEF NoDay, DayRows
<1>2. << >> \in Rows
  BY DEF Rows
<1>3. NoRequest \in ScheduleRequests /\ NoRequest.op = "idle"
  BY <1>1, <1>2 DEF NoRequest, ScheduleRequests, Ops
<1> QED BY <1>1, <1>3 DEF NoSchedule, ScheduleRows, NoConflict, ConflictRows

LEMMA SchedulesInitInv == SchedulesInit => SchedulesInv
<1> SUFFICES ASSUME SchedulesInit PROVE SchedulesInv
  OBVIOUS
<1>1. SchedulesTypeOK
  BY NoRows DEF SchedulesInit, SchedulesTypeOK, DayIds
<1>2. PointersHold /\ DefaultsAgree
  BY NoRows DEF SchedulesInit, PointersHold, PointsInto, DefaultsAgree
<1>3. \A s \in Schedules, n \in Numbers : DaysOf(s, n) = {}
  BY DEF SchedulesInit, DaysOf
<1>4. ConflictsHold
  BY <1>3, NoRows DEF SchedulesInit, ConflictsHold, AccountsFor, Closed, ConflictIds
<1>5. DaysHold /\ RequestsRely /\ CopiesDiffer
  BY <1>3, NoRows DEF SchedulesInit, DaysHold, RequestsRely, Relies, CopiesDiffer
<1> QED BY <1>1, <1>2, <1>4, <1>5 DEF SchedulesInv

----------------------------------------------------------------------------
(* What the other requests may rely on still holds after a step.           *)

\* Rows stay, and a row that changes takes a higher version.
RowsStay ==
  /\ \A s \in Schedules : Exists(s) => Exists(s)'
  /\ \A s \in Schedules : ~Exists(s) /\ Exists(s)' =>
       \A h \in SrHandlers : srReq'[h].op = "duplicate" => srReq'[h].row # <<s>>
  /\ \A k \in ConflictIds : conflict'[k] = conflict[k] \/ conflict[k].version < conflict'[k].version
  /\ \A k \in DayIds : shootDay'[k] = shootDay[k] \/ (shootDay'[k] # NoDay /\ shootDay[k].version < shootDay'[k].version)

LEMMA OthersRely ==
  ASSUME SchedulesInv, SchedulesTypeOK', RowsStay,
         \A h \in SrHandlers, r \in ScheduleRequests : srReq'[h] = r => srReq[h] = r \/ Relies(r)'
  PROVE  RequestsRely'
<1> SUFFICES ASSUME NEW h \in SrHandlers, NEW r \in ScheduleRequests, srReq[h] = r, srReq'[h] = r
             PROVE  Relies(r)'
  BY DEF RequestsRely
<1>1. Relies(r)
  BY DEF SchedulesInv, RequestsRely
<1>2. r.op = "duplicate" => \E s \in Schedules : r.row = <<s>> /\ ~Exists(s)'
  BY <1>1 DEF Relies, RowsStay
<1>3. r.op \in {"revise", "source", "approve"} => \E s \in Schedules : r.row = <<s>> /\ Exists(s)'
  BY <1>1 DEF Relies, RowsStay
<1>4. ASSUME r.op = "resolve"
      PROVE  /\ r.row \in ConflictIds
             /\ r.version <= conflict'[r.row].version
             /\ r.version = conflict'[r.row].version => conflict'[r.row].status = "open"
  <2>1. r.row \in ConflictIds /\ conflict[r.row].version \in Nat /\ conflict'[r.row].version \in Nat
        /\ r.version \in Nat
    BY <1>1, <1>4 DEF Relies, SchedulesInv, SchedulesTypeOK, ConflictRows, ScheduleRequests
  <2> QED BY <1>1, <1>4, <2>1 DEF Relies, RowsStay
<1>5. ASSUME r.op = "day"
      PROVE  /\ r.row \in DayIds
             /\ shootDay'[r.row] # NoDay
             /\ r.version <= shootDay'[r.row].version
             /\ r.version = shootDay'[r.row].version => r.day = shootDay'[r.row]
  <2>1. r.row \in DayIds /\ shootDay[r.row].version \in Nat /\ shootDay'[r.row].version \in Nat
        /\ r.version \in Nat
    BY <1>1, <1>5 DEF Relies, SchedulesInv, SchedulesTypeOK, DayRows, ScheduleRequests
  <2> QED BY <1>1, <1>5, <2>1 DEF Relies, RowsStay
<1> QED BY <1>1, <1>2, <1>3, <1>4, <1>5 DEF Relies

----------------------------------------------------------------------------
(* ScheduleRequests that only read, or that end.                                   *)

LEMMA ReadingStep ==
  ASSUME SchedulesInv, NEW h \in SrHandlers, NEW r \in ScheduleRequests, Relies(r),
         srReq' = [srReq EXCEPT ![h] = r],
         UNCHANGED <<schedule, revision, conflict, resolutions, shootDay>>,
         r.op = "duplicate" =>
           \A g \in SrHandlers : srReq[g].op # "duplicate" \/ srReq[g].row # r.row
  PROVE  SchedulesInv'
<1>1. SchedulesTypeOK'
  BY DEF SchedulesInv, SchedulesTypeOK
<1>2. PointersHold' /\ DefaultsAgree'
  BY DEF SchedulesInv, PointersHold, DefaultsAgree
<1>3. \A s \in Schedules, n \in Numbers : DaysOf(s, n)' = DaysOf(s, n)
  BY DEF DaysOf
<1>4. ConflictsHold' /\ DaysHold'
  BY <1>3 DEF SchedulesInv, ConflictsHold, DaysHold
<1>5. RequestsRely'
  <2>1. RowsStay
    BY DEF RowsStay, Exists
  <2>2. Relies(r)'
    BY DEF Relies, Exists
  <2>3. \A g \in SrHandlers, q \in ScheduleRequests : srReq'[g] = q => srReq[g] = q \/ q = r
    BY DEF SchedulesInv, SchedulesTypeOK
  <2>4. \A g \in SrHandlers, q \in ScheduleRequests : srReq'[g] = q => srReq[g] = q \/ Relies(q)'
    BY <2>2, <2>3
  <2> QED BY <1>1, <2>1, <2>4, OthersRely
<1>6. CopiesDiffer'
  BY DEF SchedulesInv, SchedulesTypeOK, CopiesDiffer
<1> QED BY <1>1, <1>2, <1>4, <1>5, <1>6 DEF SchedulesInv

\* A request that ends.
LEMMA FinishRequestStep ==
  ASSUME SchedulesInv, NEW h \in SrHandlers, SrFinish(h),
         UNCHANGED <<schedule, revision, conflict, resolutions, shootDay>>
  PROVE  SchedulesInv'
BY ReadingStep, NoRows DEF SrFinish, Relies

LEMMA PlanOfCurrent ==
  ASSUME SchedulesInv, NEW s \in Schedules, Exists(s)
  PROVE  CurrentPlan(s) \in Plans
<1>1. revision[s] \in Seq(RevisionRows) /\ PointsInto(schedule[s], revision[s])
      /\ schedule[s] \in ScheduleRows
  BY DEF SchedulesInv, SchedulesTypeOK, PointersHold
<1>2. schedule[s].current \in 1 .. Len(revision[s])
  BY <1>1 DEF PointsInto, Exists, ScheduleRows
<1>3. revision[s][schedule[s].current] \in RevisionRows
  BY <1>1, <1>2
<1> QED BY <1>3 DEF CurrentPlan, RevisionRows

LEMMA StartRequestStep ==
  ASSUME SchedulesInv, NEW h \in SrHandlers,
         \/ \E s \in Schedules, p \in Plans, c \in SUBSET Clashes : StartRevision(h, s, p, c)
         \/ \E s \in Schedules : StartRevisionApproval(h, s)
         \/ NumberApproval(h)
         \/ \E s, t \in Schedules : StartDuplicate(h, s, t)
         \/ \E k \in ConflictIds : StartResolve(h, k)
         \/ \E k \in DOMAIN shootDay : StartPatchDay(h, k)
  PROVE  SchedulesInv'
<1>0. \A s \in Schedules : <<s>> \in Rows /\ Len(revision[s]) + 1 \in Nat
  BY DEF Rows, SchedulesInv, SchedulesTypeOK
<1>1. ASSUME NEW s \in Schedules, NEW p \in Plans, NEW c \in SUBSET Clashes, StartRevision(h, s, p, c)
      PROVE  SchedulesInv'
  <2> DEFINE n == Len(revision[s]) + 1
             r == [NoRequest EXCEPT !.op = "revise", !.row = <<s>>, !.plan = p,
                     !.clashes = c, !.number = n]
  <2>1. srReq' = [srReq EXCEPT ![h] = r] /\ Exists(s)
        /\ UNCHANGED <<schedule, revision, conflict, resolutions, shootDay>>
    BY <1>1 DEF StartRevision, SrStart
  <2>2. n \in Nat /\ <<s>> \in Rows
    BY <1>0
  <2> HIDE DEF n
  <2>3. r \in ScheduleRequests /\ r.op = "revise" /\ r.row = <<s>> /\ r.plan = p
    BY <2>2, NoRows DEF ScheduleRequests, Ops
  <2> HIDE DEF r
  <2>4. Relies(r)
    BY <2>1, <2>3 DEF Relies
  <2> QED BY <2>1, <2>3, <2>4, ReadingStep
<1>2. ASSUME NEW s \in Schedules, StartRevisionApproval(h, s)
      PROVE  SchedulesInv'
  <2> DEFINE p == CurrentPlan(s)
             r == [NoRequest EXCEPT !.op = "source", !.row = <<s>>, !.plan = p]
  <2>1. srReq' = [srReq EXCEPT ![h] = r] /\ Exists(s)
        /\ UNCHANGED <<schedule, revision, conflict, resolutions, shootDay>>
    BY <1>2 DEF StartRevisionApproval, SrStart
  <2>2. p \in Plans /\ <<s>> \in Rows
    BY <1>0, <2>1, PlanOfCurrent
  <2> HIDE DEF p
  <2>3. r \in ScheduleRequests /\ r.op = "source" /\ r.row = <<s>> /\ r.plan = p
    BY <2>2, NoRows DEF ScheduleRequests, Ops
  <2> HIDE DEF r
  <2>4. Relies(r)
    BY <2>1, <2>2, <2>3 DEF Relies
  <2> QED BY <2>1, <2>3, <2>4, ReadingStep
<1>3. CASE NumberApproval(h)
  <2>1. PICK q \in ScheduleRequests : q = srReq[h]
    BY DEF SchedulesInv, SchedulesTypeOK
  <2>2. q.op = "source" /\ Relies(q)
    BY <1>3, <2>1 DEF NumberApproval, SchedulesInv, RequestsRely
  <2>3. PICK s \in Schedules : q.row = <<s>> /\ Exists(s)
    BY <2>2 DEF Relies
  <2> DEFINE n == Len(revision[s]) + 1
             r == [q EXCEPT !.op = "approve", !.number = n]
  <2>4. q.row[1] = s
    BY <2>3
  <2>5. srReq' = [srReq EXCEPT ![h].op = "approve", ![h].number = n]
        /\ UNCHANGED <<schedule, revision, conflict, resolutions, shootDay>>
    BY <1>3, <2>1, <2>4 DEF NumberApproval
  <2>6. n \in Nat
    BY <1>0
  <2> HIDE DEF n
  <2>7. srReq' = [srReq EXCEPT ![h] = r]
    BY <2>1, <2>5 DEF SchedulesInv, SchedulesTypeOK
  <2>8. r \in ScheduleRequests /\ r.op = "approve" /\ r.row = q.row /\ r.plan = q.plan
    BY <2>6 DEF ScheduleRequests, Ops
  <2> HIDE DEF r
  <2>9. Relies(r)
    BY <2>2, <2>3, <2>8 DEF Relies
  <2> QED BY <2>5, <2>7, <2>8, <2>9, ReadingStep
<1>4. ASSUME NEW s \in Schedules, NEW t \in Schedules, StartDuplicate(h, s, t)
      PROVE  SchedulesInv'
  <2> DEFINE p == CurrentPlan(s)
             r == [NoRequest EXCEPT !.op = "duplicate", !.row = <<t>>, !.plan = p]
  <2>1. srReq' = [srReq EXCEPT ![h] = r] /\ Exists(s) /\ ~Exists(t)
        /\ \A g \in SrHandlers : (srReq[g].op # "duplicate" \/ srReq[g].row # <<t>>)
        /\ UNCHANGED <<schedule, revision, conflict, resolutions, shootDay>>
    BY <1>4 DEF StartDuplicate, SrStart
  <2>2. p \in Plans /\ <<t>> \in Rows
    BY <1>0, <2>1, PlanOfCurrent
  <2> HIDE DEF p
  <2>3. r \in ScheduleRequests /\ r.op = "duplicate" /\ r.row = <<t>> /\ r.plan = p
    BY <2>2, NoRows DEF ScheduleRequests, Ops
  <2> HIDE DEF r
  <2>4. Relies(r)
    BY <2>1, <2>2, <2>3 DEF Relies
  <2> QED BY <2>1, <2>3, <2>4, ReadingStep
<1>5. ASSUME NEW k \in ConflictIds, StartResolve(h, k)
      PROVE  SchedulesInv'
  <2> DEFINE v == conflict[k].version
             r == [NoRequest EXCEPT !.op = "resolve", !.row = k, !.version = v]
  <2>1. srReq' = [srReq EXCEPT ![h] = r] /\ conflict[k].status = "open"
        /\ UNCHANGED <<schedule, revision, conflict, resolutions, shootDay>>
    BY <1>5 DEF StartResolve, SrStart
  <2>2. v \in Nat /\ k \in Rows /\ v = conflict[k].version
    BY DEF Rows, SchedulesInv, SchedulesTypeOK, ConflictRows
  <2> HIDE DEF v
  <2>3. r \in ScheduleRequests /\ r.op = "resolve" /\ r.row = k /\ r.version = v
    BY <2>2, NoRows DEF ScheduleRequests, Ops
  <2> HIDE DEF r
  <2>4. Relies(r)
    BY <2>1, <2>2, <2>3 DEF Relies
  <2> QED BY <2>1, <2>3, <2>4, ReadingStep
<1>6. ASSUME NEW k \in DOMAIN shootDay, StartPatchDay(h, k)
      PROVE  SchedulesInv'
  <2> DEFINE x == shootDay[k]
             v == x.version
             r == [NoRequest EXCEPT !.op = "day", !.row = k, !.version = v, !.day = x]
  <2>1. srReq' = [srReq EXCEPT ![h] = r] /\ x # NoDay
        /\ UNCHANGED <<schedule, revision, conflict, resolutions, shootDay>>
    BY <1>6 DEF StartPatchDay, SrStart
  <2>2. k \in DayIds /\ k \in Rows /\ x \in DayRows /\ x = shootDay[k]
    BY DEF Rows, SchedulesInv, SchedulesTypeOK
  <2>3. v \in Nat /\ v = x.version
    BY <2>2 DEF DayRows
  <2> HIDE DEF x, v
  <2>4. r \in ScheduleRequests /\ r.op = "day" /\ r.row = k /\ r.version = v /\ r.day = x
    BY <2>2, <2>3, NoRows DEF ScheduleRequests, Ops
  <2> HIDE DEF r
  <2>5. Relies(r)
    BY <2>1, <2>2, <2>3, <2>4 DEF Relies
  <2> QED BY <2>1, <2>4, <2>5, ReadingStep
<1> QED BY <1>1, <1>2, <1>3, <1>4, <1>5, <1>6

----------------------------------------------------------------------------
(* A batch that inserts a revision.                                        *)

\* One more revision, and what the rows say then.
LEMMA OneMoreRevision ==
  ASSUME NEW rows \in Seq(RevisionRows), NEW row \in RevisionRows
  PROVE  /\ Append(rows, row) \in Seq(RevisionRows) /\ Append(rows, row) # << >>
         /\ Len(rows) \in Nat /\ Len(Append(rows, row)) = Len(rows) + 1
         /\ Append(rows, row)[Len(rows) + 1] = row
         /\ \A n \in 1 .. Len(rows) : Append(rows, row)[n] = rows[n]
OBVIOUS

LEMMA InsertStep ==
  ASSUME SchedulesInv, NEW s \in Schedules, NEW status \in {"draft", "approved"}, NEW p \in Plans,
         NEW clashes \in SUBSET Clashes,
         InsertRevision(s, PreparedRevision(s, status, p, clashes)),
         UNCHANGED <<resolutions, shootDay>>,
         schedule' \in [Schedules -> ScheduleRows], DefaultsAgree',
         \A t \in Schedules : t # s => /\ schedule'[t].status = schedule[t].status
                                       /\ schedule'[t].current = schedule[t].current
                                       /\ schedule'[t].approved = schedule[t].approved,
         PointsInto(schedule'[s], revision'[s]), schedule'[s].status # "none",
         \A h \in SrHandlers : srReq'[h] = srReq[h] \/ srReq'[h] = NoRequest,
         srReq' \in [SrHandlers -> ScheduleRequests],
         ~Exists(s) => \A h \in SrHandlers : srReq'[h].op = "duplicate" => srReq'[h].row # <<s>>
  PROVE  SchedulesInv'
<1> DEFINE row == [status |-> status, plan |-> p]
           m == Len(revision[s])
           found == {s} \X {m + 1} \X clashes
<1>1. /\ revision' = [revision EXCEPT ![s] = Append(revision[s], row)]
      /\ conflict' = [k \in ConflictIds |-> IF k \in found THEN FoundConflict ELSE conflict[k]]
  BY DEF InsertRevision, PreparedRevision
<1>2. row \in RevisionRows /\ revision[s] \in Seq(RevisionRows) /\ m \in Nat
  <2>1. revision[s] \in Seq(RevisionRows)
    BY DEF SchedulesInv, SchedulesTypeOK
  <2>2. row \in RevisionRows
    BY DEF RevisionRows
  <2> QED BY <2>1, <2>2
<1> HIDE DEF row
<1>3. /\ revision'[s] = Append(revision[s], row) /\ revision' \in [Schedules -> Seq(RevisionRows)]
      /\ Len(revision'[s]) = m + 1
      /\ \A t \in Schedules : t # s => revision'[t] = revision[t]
  BY <1>1, <1>2, OneMoreRevision DEF SchedulesInv, SchedulesTypeOK
<1> HIDE DEF m
<1>4. FoundConflict \in ConflictRows /\ FoundConflict.status = "open" /\ FoundConflict.day = 0
      /\ FoundConflict.version = 1
  BY DEF FoundConflict, ConflictRows
<1>5. conflict' \in [ConflictIds -> ConflictRows]
  BY <1>1, <1>4 DEF SchedulesInv, SchedulesTypeOK
<1>6. SchedulesTypeOK'
  BY <1>3, <1>5 DEF SchedulesInv, SchedulesTypeOK
<1>7. PointersHold'
  <2>1. ASSUME NEW t \in Schedules PROVE PointsInto(schedule'[t], revision'[t])
    <3>1. CASE t # s
      <4>1. PointsInto(schedule[t], revision[t]) /\ revision'[t] = revision[t]
        BY <1>3, <3>1 DEF SchedulesInv, PointersHold
      <4> QED BY <3>1, <4>1 DEF PointsInto
    <3> QED BY <3>1
  <2> QED BY <2>1 DEF PointersHold
<1>8. \A t \in Schedules, n \in Numbers : DaysOf(t, n)' = DaysOf(t, n)
  BY DEF DaysOf
<1>9. \A t \in Schedules, n \in Numbers, c \in Clashes :
        /\ <<t, n, c>> \in ConflictIds
        /\ <<t, n, c>> \in found <=> t = s /\ n = m + 1 /\ c \in clashes
        /\ conflict'[<<t, n, c>>] = IF <<t, n, c>> \in found THEN FoundConflict ELSE conflict[<<t, n, c>>]
  BY <1>1 DEF ConflictIds
<1>10. \A n \in Numbers : n \in Int
  BY DEF Numbers
<1>11. ASSUME NEW n \in Numbers, n = m + 1
       PROVE  DaysOf(s, n) = {} /\ \A c \in Clashes : conflict[<<s, n, c>>].status = "none"
                                                   /\ resolutions[<<s, n, c>>] = 0
                                                   /\ conflict[<<s, n, c>>].version = 0
  <2>1. ~(n <= m)
    BY <1>2, <1>11
  <2> QED BY <2>1 DEF SchedulesInv, DaysHold, ConflictsHold, AccountsFor, Closed, m
<1>12. ConflictsHold'
  <2> SUFFICES ASSUME NEW t \in Schedules, NEW n \in Numbers, NEW c \in Clashes
               PROVE  AccountsFor(conflict'[<<t, n, c>>], resolutions[<<t, n, c>>], n,
                                  Len(revision'[t]), DaysOf(t, n))
    BY <1>8 DEF ConflictsHold
  <2>1. AccountsFor(conflict[<<t, n, c>>], resolutions[<<t, n, c>>], n, Len(revision[t]), DaysOf(t, n))
    BY DEF SchedulesInv, ConflictsHold
  <2>2. CASE <<t, n, c>> \in found
    BY <1>2, <1>3, <1>4, <1>9, <1>11, <2>2 DEF AccountsFor, Closed
  <2>3. CASE <<t, n, c>> \notin found
    <3>1. conflict'[<<t, n, c>>] = conflict[<<t, n, c>>]
      BY <1>9, <2>3
    <3>2. n <= Len(revision[t]) => n <= Len(revision'[t])
      <4>1. CASE t = s
        <5>1. n \in Int
          BY <1>10
        <5> QED BY <1>2, <1>3, <4>1, <5>1 DEF m
      <4>2. CASE t # s
        BY <1>3, <4>2
      <4> QED BY <4>1, <4>2
    <3> QED BY <2>1, <3>1, <3>2 DEF AccountsFor
  <2> QED BY <2>2, <2>3
<1>13. DaysHold'
  <2> SUFFICES ASSUME NEW t \in Schedules, NEW n \in Numbers, DaysOf(t, n) # {}
               PROVE  n <= Len(revision'[t])
    BY <1>8 DEF DaysHold
  <2>1. n <= Len(revision[t]) /\ n \in Int
    BY <1>10 DEF SchedulesInv, DaysHold
  <2>2. CASE t = s
    BY <1>2, <1>3, <2>1, <2>2 DEF m
  <2>3. CASE t # s
    BY <1>3, <2>1, <2>3
  <2> QED BY <2>2, <2>3
<1>14. RowsStay
  <2>1. \A t \in Schedules : Exists(t)' <=> Exists(t) \/ t = s
    BY DEF Exists
  <2>2. ASSUME NEW k \in ConflictIds
        PROVE  conflict'[k] = conflict[k] \/ conflict[k].version < conflict'[k].version
    <3> PICK t \in Schedules, n \in Numbers, c \in Clashes : k = <<t, n, c>>
      BY DEF ConflictIds
    <3>1. CASE k \in found
      <4>1. conflict'[k].version = 1 /\ conflict[k].version = 0
        BY <1>4, <1>9, <1>11, <3>1
      <4> QED BY <1>9, <3>1, <4>1 DEF ConflictIds
    <3>2. CASE k \notin found
      BY <1>9, <3>2
    <3> QED BY <3>1, <3>2
  <2> QED BY <2>1, <2>2 DEF RowsStay
<1>15. RequestsRely'
  <2>1. Relies(NoRequest)'
    BY NoRows DEF Relies
  <2>2. \A h \in SrHandlers, r \in ScheduleRequests : srReq'[h] = r => srReq[h] = r \/ Relies(r)'
    BY <2>1
  <2> QED BY <1>6, <1>14, <2>2, OthersRely
<1>16. CopiesDiffer'
  BY NoRows DEF SchedulesInv, CopiesDiffer
<1> QED BY <1>6, <1>7, <1>12, <1>13, <1>15, <1>16 DEF SchedulesInv

LEMMA CreateScheduleStep ==
  ASSUME SchedulesInv, NEW s \in Schedules, NEW p \in Plans, NEW c \in SUBSET Clashes, NEW f \in BOOLEAN,
         CreateSchedule(s, p, c, f)
  PROVE  SchedulesInv'
<1> DEFINE x == [status |-> "working", default |-> f, current |-> 1, approved |-> 0]
           row == [status |-> "draft", plan |-> p]
           cleared == ClearDefault(f)
<1>1. x \in ScheduleRows /\ x.status = "working" /\ x.default = f /\ x.current = 1 /\ x.approved = 0
  BY DEF ScheduleRows
<1>2. ASSUME NEW t \in Schedules
      PROVE  /\ cleared[t] \in ScheduleRows
             /\ cleared[t].status = schedule[t].status
             /\ cleared[t].current = schedule[t].current
             /\ cleared[t].approved = schedule[t].approved
             /\ cleared[t].default => schedule[t].default /\ ~f
  <2>1. schedule[t] \in ScheduleRows
    BY DEF SchedulesInv, SchedulesTypeOK
  <2>2. CASE f = TRUE
    <3>1. cleared[t] = [schedule[t] EXCEPT !.default = FALSE]
      BY <2>2 DEF ClearDefault
    <3> QED BY <2>1, <2>2, <3>1 DEF ScheduleRows
  <2>3. CASE f = FALSE
    <3>1. cleared[t] = [schedule[t] EXCEPT !.default = schedule[t].default]
      BY <2>1, <2>3 DEF ClearDefault, ScheduleRows
    <3>2. cleared[t] = schedule[t]
      BY <2>1, <3>1 DEF ScheduleRows
    <3> QED BY <2>1, <2>3, <3>2
  <2> QED BY <2>2, <2>3
<1>3. /\ schedule' = [cleared EXCEPT ![s] = x] /\ DOMAIN cleared = Schedules
      /\ cleared = [t \in Schedules |-> cleared[t]]
      /\ InsertRevision(s, PreparedRevision(s, "draft", p, c))
      /\ UNCHANGED <<resolutions, shootDay, srReq>> /\ ~Exists(s)
      /\ \A h \in SrHandlers : srReq[h].op # "duplicate" \/ srReq[h].row # <<s>>
  BY DEF CreateSchedule, ClearDefault
<1> HIDE DEF x, cleared
<1>4. schedule'[s] = x /\ \A t \in Schedules : t # s => schedule'[t] = cleared[t]
  BY <1>3
<1>5. schedule' \in [Schedules -> ScheduleRows]
  BY <1>1, <1>2, <1>3
<1>6. DefaultsAgree'
  BY <1>1, <1>2, <1>4 DEF SchedulesInv, DefaultsAgree
<1>7. PointsInto(schedule'[s], revision'[s])
  <2>1. revision[s] = << >> /\ revision[s] \in Seq(RevisionRows)
    BY <1>3 DEF Exists, SchedulesInv, SchedulesTypeOK, PointersHold, PointsInto
  <2>2. row \in RevisionRows
    BY DEF RevisionRows
  <2>3. revision'[s] = Append(revision[s], row)
    BY <1>3 DEF InsertRevision, PreparedRevision, SchedulesInv, SchedulesTypeOK
  <2>4. Len(revision'[s]) = 1
    BY <2>1, <2>2, <2>3, OneMoreRevision
  <2> QED BY <1>1, <1>4, <2>4 DEF PointsInto
<1>8. srReq \in [SrHandlers -> ScheduleRequests]
  BY DEF SchedulesInv, SchedulesTypeOK
<1>9. "draft" \in {"draft", "approved"} /\ schedule'[s].status # "none"
  BY <1>1, <1>4
<1>10. \A t \in Schedules : t # s => /\ schedule'[t].status = schedule[t].status
                                     /\ schedule'[t].current = schedule[t].current
                                     /\ schedule'[t].approved = schedule[t].approved
  BY <1>2, <1>4
<1>11. /\ UNCHANGED <<resolutions, shootDay>>
       /\ InsertRevision(s, PreparedRevision(s, "draft", p, c))
       /\ srReq' \in [SrHandlers -> ScheduleRequests] /\ \A h \in SrHandlers : srReq'[h] = srReq[h]
       /\ \A h \in SrHandlers : srReq'[h].op = "duplicate" => srReq'[h].row # <<s>>
  BY <1>3, <1>8
<1> QED BY <1>5, <1>6, <1>7, <1>9, <1>10, <1>11, InsertStep

\* What a request that holds a revision inserts, and where.
LEMMA CommitRevisionStep ==
  ASSUME SchedulesInv, NEW h \in SrHandlers, CommitRevision(h) \/ CommitRevisionApproval(h)
  PROVE  SchedulesInv'
<1>1. PICK r \in ScheduleRequests : r = srReq[h]
  BY DEF SchedulesInv, SchedulesTypeOK
<1>2. r.op \in {"revise", "approve"} /\ Relies(r)
  BY <1>1 DEF CommitRevision, CommitRevisionApproval, SchedulesInv, RequestsRely
<1>3. PICK s \in Schedules : r.row = <<s>> /\ Exists(s)
  BY <1>2 DEF Relies
<1>4. r.row[1] = s /\ r.plan \in Plans /\ r.clashes \in SUBSET Clashes
  BY <1>2, <1>3 DEF Relies, ScheduleRequests
<1> DEFINE m == Len(revision[s])
<1>5. /\ schedule[s] \in ScheduleRows /\ revision[s] \in Seq(RevisionRows) /\ m \in Nat
      /\ PointsInto(schedule[s], revision[s]) /\ schedule[s].status # "none"
  BY <1>3 DEF SchedulesInv, SchedulesTypeOK, PointersHold, Exists
<1>6. PICK x \in ScheduleRows, status \in {"draft", "approved"}, clashes \in SUBSET Clashes :
        /\ schedule' = [schedule EXCEPT ![s] = x]
        /\ InsertRevision(s, PreparedRevision(s, status, r.plan, clashes))
        /\ x.current = m + 1 /\ x.default = schedule[s].default
        /\ \/ x.status = "working" /\ x.approved = schedule[s].approved
           \/ x.status = "approved" /\ x.approved = m + 1 /\ status = "approved"
  <2>1. CASE CommitRevision(h)
    <3> DEFINE n == r.number
               x == [schedule[s] EXCEPT !.current = n, !.status = "working"]
    <3>1. n = m + 1 /\ InsertRevision(s, PreparedRevision(s, "draft", r.plan, r.clashes))
      BY <1>1, <1>4, <2>1 DEF CommitRevision, NumberIsFree
    <3>2. schedule' = [schedule EXCEPT ![s] = x]
      BY <1>1, <1>4, <2>1 DEF CommitRevision, SchedulesInv, SchedulesTypeOK
    <3>3. n \in Nat
      BY <1>5, <3>1
    <3> HIDE DEF n
    <3>4. x \in ScheduleRows /\ x.current = n /\ x.default = schedule[s].default
          /\ x.status = "working" /\ x.approved = schedule[s].approved
      BY <1>5, <3>3 DEF ScheduleRows
    <3> QED BY <1>4, <3>1, <3>2, <3>4
  <2>2. CASE CommitRevisionApproval(h)
    <3> DEFINE n == r.number
               x == [schedule[s] EXCEPT !.current = n, !.approved = n, !.status = "approved"]
    <3>1. n = m + 1 /\ InsertRevision(s, PreparedRevision(s, "approved", r.plan, {}))
      BY <1>1, <1>4, <2>2 DEF CommitRevisionApproval, NumberIsFree
    <3>2. schedule' = [schedule EXCEPT ![s] = x]
      BY <1>1, <1>4, <2>2 DEF CommitRevisionApproval, SchedulesInv, SchedulesTypeOK
    <3>3. n \in Nat
      BY <1>5, <3>1
    <3> HIDE DEF n
    <3>4. x \in ScheduleRows /\ x.current = n /\ x.default = schedule[s].default
          /\ x.status = "approved" /\ x.approved = n
      BY <1>5, <3>3 DEF ScheduleRows
    <3> HIDE DEF x
    <3>5. "approved" \in {"draft", "approved"} /\ {} \in SUBSET Clashes
      OBVIOUS
    <3> QED BY <3>1, <3>2, <3>4, <3>5
  <2> QED BY <2>1, <2>2
<1>7. /\ srReq' = [srReq EXCEPT ![h] = NoRequest] /\ UNCHANGED <<resolutions, shootDay>>
  BY DEF CommitRevision, CommitRevisionApproval, SrFinish
<1>8. schedule'[s] = x /\ \A t \in Schedules : t # s => schedule'[t] = schedule[t]
  BY <1>6 DEF SchedulesInv, SchedulesTypeOK
<1>9. schedule' \in [Schedules -> ScheduleRows]
  BY <1>6 DEF SchedulesInv, SchedulesTypeOK
<1>10. DefaultsAgree'
  BY <1>6, <1>8 DEF SchedulesInv, DefaultsAgree
<1>11. PointsInto(schedule'[s], revision'[s])
  <2> DEFINE row == [status |-> status, plan |-> r.plan]
  <2>1. row \in RevisionRows /\ row.status = status
    BY <1>4 DEF RevisionRows
  <2>2. revision'[s] = Append(revision[s], row)
    BY <1>6 DEF InsertRevision, PreparedRevision, SchedulesInv, SchedulesTypeOK
  <2> HIDE DEF row
  <2>3. /\ Len(revision'[s]) = m + 1 /\ revision'[s][m + 1] = row
        /\ \A n \in 1 .. m : revision'[s][n] = revision[s][n]
    BY <1>5, <2>1, <2>2, OneMoreRevision
  <2>4. schedule[s].approved \in Nat /\ schedule[s].approved <= m
    BY <1>5 DEF PointsInto, ScheduleRows
  <2>5. x.approved # 0 => revision'[s][x.approved].status = "approved"
    <3>1. CASE x.approved = m + 1 /\ status = "approved"
      BY <2>1, <2>3, <3>1
    <3>2. CASE x.approved = schedule[s].approved /\ x.approved # 0
      <4>1. x.approved \in 1 .. m
        BY <1>5, <2>4, <3>2
      <4> QED BY <1>5, <2>3, <3>2, <4>1 DEF PointsInto
    <3> QED BY <1>6, <3>1, <3>2
  <2> HIDE DEF m
  <2> QED BY <1>5, <1>6, <1>8, <2>3, <2>4, <2>5 DEF PointsInto
<1>12. /\ srReq' \in [SrHandlers -> ScheduleRequests]
       /\ \A g \in SrHandlers : srReq'[g] = srReq[g] \/ srReq'[g] = NoRequest
  BY <1>7, NoRows DEF SchedulesInv, SchedulesTypeOK
<1>13. schedule'[s].status # "none"
  BY <1>6, <1>8
<1> QED BY <1>3, <1>4, <1>6, <1>7, <1>8, <1>9, <1>10, <1>11, <1>12, <1>13, InsertStep

LEMMA CommitDuplicateStep ==
  ASSUME SchedulesInv, NEW h \in SrHandlers, CommitDuplicate(h)
  PROVE  SchedulesInv'
<1>1. PICK r \in ScheduleRequests : r = srReq[h]
  BY DEF SchedulesInv, SchedulesTypeOK
<1>2. r.op = "duplicate" /\ Relies(r)
  BY <1>1 DEF CommitDuplicate, SchedulesInv, RequestsRely
<1>3. PICK s \in Schedules : r.row = <<s>> /\ ~Exists(s)
  BY <1>2 DEF Relies
<1>4. r.row[1] = s /\ r.plan \in Plans
  BY <1>2, <1>3 DEF Relies
<1> DEFINE x == [status |-> "working", default |-> FALSE, current |-> 1, approved |-> 0]
           row == [status |-> "draft", plan |-> r.plan]
<1>5. x \in ScheduleRows /\ x.status = "working" /\ x.default = FALSE /\ x.current = 1 /\ x.approved = 0
  BY DEF ScheduleRows
<1>6. /\ schedule' = [schedule EXCEPT ![s] = x]
      /\ InsertRevision(s, PreparedRevision(s, "draft", r.plan, {}))
      /\ srReq' = [srReq EXCEPT ![h] = NoRequest] /\ UNCHANGED <<resolutions, shootDay>>
  BY <1>1, <1>4 DEF CommitDuplicate, SrFinish
<1> HIDE DEF x
<1>7. schedule'[s] = x /\ \A t \in Schedules : t # s => schedule'[t] = schedule[t]
  BY <1>6 DEF SchedulesInv, SchedulesTypeOK
<1>8. schedule' \in [Schedules -> ScheduleRows]
  BY <1>5, <1>6 DEF SchedulesInv, SchedulesTypeOK
<1>9. DefaultsAgree'
  BY <1>5, <1>7 DEF SchedulesInv, DefaultsAgree
<1>10. PointsInto(schedule'[s], revision'[s])
  <2>1. revision[s] = << >> /\ revision[s] \in Seq(RevisionRows)
    BY <1>3 DEF Exists, SchedulesInv, SchedulesTypeOK, PointersHold, PointsInto
  <2>2. row \in RevisionRows
    BY <1>4 DEF RevisionRows
  <2>3. revision'[s] = Append(revision[s], row)
    BY <1>6 DEF InsertRevision, PreparedRevision, SchedulesInv, SchedulesTypeOK
  <2>4. Len(revision'[s]) = 1
    BY <2>1, <2>2, <2>3, OneMoreRevision
  <2> QED BY <1>5, <1>7, <2>4 DEF PointsInto
<1>11. /\ srReq' \in [SrHandlers -> ScheduleRequests]
       /\ \A g \in SrHandlers : srReq'[g] = srReq[g] \/ srReq'[g] = NoRequest
  BY <1>6, NoRows DEF SchedulesInv, SchedulesTypeOK
<1>12. \A g \in SrHandlers : srReq'[g].op = "duplicate" => srReq'[g].row # <<s>>
  BY <1>1, <1>2, <1>3, <1>6, NoRows DEF SchedulesInv, SchedulesTypeOK, CopiesDiffer
<1>13. "draft" \in {"draft", "approved"} /\ {} \in SUBSET Clashes /\ schedule'[s].status # "none"
  BY <1>5, <1>7
<1>14. \A t \in Schedules : t # s => /\ schedule'[t].status = schedule[t].status
                                     /\ schedule'[t].current = schedule[t].current
                                     /\ schedule'[t].approved = schedule[t].approved
  BY <1>7
<1>15. UNCHANGED <<resolutions, shootDay>>
       /\ InsertRevision(s, PreparedRevision(s, "draft", r.plan, {})) /\ r.plan \in Plans
  BY <1>4, <1>6
<1> QED BY <1>8, <1>9, <1>10, <1>11, <1>12, <1>13, <1>14, <1>15, InsertStep

----------------------------------------------------------------------------
(* Conflicts and days.                                                     *)

LEMMA CommitResolveStep ==
  ASSUME SchedulesInv, NEW h \in SrHandlers, NEW outcome \in {"resolved", "overridden"},
         CommitResolve(h, outcome)
  PROVE  SchedulesInv'
<1>1. PICK r \in ScheduleRequests : r = srReq[h]
  BY DEF SchedulesInv, SchedulesTypeOK
<1>2. PICK k \in ConflictIds : k = r.row
  BY <1>1 DEF CommitResolve, SchedulesInv, RequestsRely, Relies
<1>3. conflict[k].version = r.version /\ conflict[k].status = "open"
  BY <1>1, <1>2 DEF CommitResolve, ConflictUnchanged, SchedulesInv, RequestsRely, Relies
<1> DEFINE v == conflict[k].version + 1
           x == [conflict[k] EXCEPT !.status = outcome, !.version = v]
           n1 == resolutions[k] + 1
<1>4. conflict[k] \in ConflictRows /\ v \in Nat /\ conflict[k].version < v /\ n1 \in Nat
  BY DEF SchedulesInv, SchedulesTypeOK, ConflictRows
<1>5. /\ conflict' = [conflict EXCEPT ![k] = x] /\ resolutions' = [resolutions EXCEPT ![k] = n1]
      /\ srReq' = [srReq EXCEPT ![h] = NoRequest]
      /\ UNCHANGED <<schedule, revision, shootDay>>
  BY <1>1, <1>2 DEF CommitResolve, SrFinish, SchedulesInv, SchedulesTypeOK
<1> HIDE DEF v
<1>6. x \in ConflictRows /\ x.status = outcome /\ x.version = v /\ x.day = conflict[k].day
  BY <1>4 DEF ConflictRows
<1> HIDE DEF x, n1
<1>7. conflict'[k] = x /\ resolutions'[k] = n1
      /\ \A j \in ConflictIds : j # k => conflict'[j] = conflict[j] /\ resolutions'[j] = resolutions[j]
  BY <1>5 DEF SchedulesInv, SchedulesTypeOK
<1>8. SchedulesTypeOK'
  BY <1>4, <1>5, <1>6, NoRows DEF SchedulesInv, SchedulesTypeOK
<1>9. \A s \in Schedules, n \in Numbers : DaysOf(s, n)' = DaysOf(s, n)
  BY <1>5 DEF DaysOf
<1>10. PointersHold' /\ DefaultsAgree' /\ DaysHold'
  BY <1>5, <1>9 DEF SchedulesInv, PointersHold, DefaultsAgree, DaysHold
<1>11. ConflictsHold'
  <2> SUFFICES ASSUME NEW s \in Schedules, NEW n \in Numbers, NEW c \in Clashes
               PROVE  AccountsFor(conflict'[<<s, n, c>>], resolutions'[<<s, n, c>>], n,
                                  Len(revision[s]), DaysOf(s, n))
    BY <1>5, <1>9 DEF ConflictsHold
  <2>1. AccountsFor(conflict[<<s, n, c>>], resolutions[<<s, n, c>>], n, Len(revision[s]), DaysOf(s, n))
        /\ <<s, n, c>> \in ConflictIds
    BY DEF SchedulesInv, ConflictsHold, ConflictIds
  <2>2. CASE <<s, n, c>> = k
    <3>1. n1 = 1
      BY <1>3, <2>1, <2>2 DEF AccountsFor, Closed, n1
    <3> QED BY <1>3, <1>6, <1>7, <2>1, <2>2, <3>1 DEF AccountsFor, Closed
  <2>3. CASE <<s, n, c>> # k
    BY <1>7, <2>1, <2>3
  <2> QED BY <2>2, <2>3
<1>12. RowsStay
  BY <1>4, <1>5, <1>6, <1>7 DEF RowsStay, Exists
<1>13. RequestsRely'
  <2>1. Relies(NoRequest)'
    BY NoRows DEF Relies
  <2>2. \A g \in SrHandlers, q \in ScheduleRequests : srReq'[g] = q => srReq[g] = q \/ Relies(q)'
    BY <1>5, <2>1 DEF SchedulesInv, SchedulesTypeOK
  <2> QED BY <1>8, <1>12, <2>2, OthersRely
<1>14. CopiesDiffer'
  BY <1>5, NoRows DEF SchedulesInv, SchedulesTypeOK, CopiesDiffer
<1> QED BY <1>8, <1>10, <1>11, <1>13, <1>14 DEF SchedulesInv

LEMMA GenerateDayStep ==
  ASSUME SchedulesInv, NEW s \in Schedules, NEW n \in Numbers, NEW d \in DayCounts, GenerateDay(s, n, d)
  PROVE  SchedulesInv'
<1> DEFINE x == [status |-> "planned", title |-> 0, version |-> 1]
           j == <<s, n, d>>
<1>1. x \in DayRows /\ x # NoDay /\ x.version = 1 /\ NoDay.version = 0
  BY DEF DayRows, NoDay
<1>2. /\ shootDay' = [shootDay EXCEPT ![j] = x] /\ shootDay[j] = NoDay
      /\ conflict' = AttachConflicts(s, n, d) /\ n \in 1 .. Len(revision[s])
      /\ UNCHANGED <<schedule, revision, resolutions, srReq>>
  BY DEF GenerateDay
<1>3. j \in DayIds
  BY DEF DayIds
<1> HIDE DEF x
<1>4. /\ shootDay'[j] = x /\ \A i \in DayIds : i # j => shootDay'[i] = shootDay[i]
      /\ shootDay' \in [DayIds -> DayRows]
  BY <1>1, <1>2, <1>3 DEF SchedulesInv, SchedulesTypeOK
<1>5. ASSUME NEW t \in Schedules, NEW m \in Numbers
      PROVE  DaysOf(t, m)' = IF t = s /\ m = n THEN DaysOf(t, m) \cup {d} ELSE DaysOf(t, m)
  <2>1. \A e \in DayCounts : <<t, m, e>> \in DayIds
    BY DEF DayIds
  <2>2. \A e \in DayCounts : shootDay'[<<t, m, e>>] # NoDay <=>
          shootDay[<<t, m, e>>] # NoDay \/ (t = s /\ m = n /\ e = d)
    BY <1>1, <1>4, <2>1
  <2> QED BY <2>2 DEF DaysOf
<1>6. ASSUME NEW k \in ConflictIds
      PROVE  /\ conflict'[k] \in ConflictRows
             /\ conflict'[k].status = conflict[k].status
             /\ conflict'[k] = conflict[k] \/ conflict[k].version < conflict'[k].version
             /\ conflict[k].status = "none" => conflict'[k] = conflict[k]
             /\ conflict[k].status # "none" =>
                  conflict'[k].day = IF k[1] = s /\ k[2] = n /\ conflict[k].day = 0 THEN d ELSE conflict[k].day
  <2> DEFINE v == conflict[k].version + 1
             y == [conflict[k] EXCEPT !.day = d, !.version = v]
  <2>1. conflict[k] \in ConflictRows /\ v \in Nat /\ conflict[k].version < v
    BY DEF SchedulesInv, SchedulesTypeOK, ConflictRows
  <2>2. conflict'[k] = IF k[1] = s /\ k[2] = n /\ conflict[k].status # "none" /\ conflict[k].day = 0
                         THEN y ELSE conflict[k]
    BY <1>2 DEF AttachConflicts
  <2> HIDE DEF v
  <2>3. y \in ConflictRows /\ y.status = conflict[k].status /\ y.version = v /\ y.day = d
    BY <2>1 DEF ConflictRows
  <2> HIDE DEF y
  <2> QED BY <2>1, <2>2, <2>3
<1>7. SchedulesTypeOK'
  <2>1. conflict' \in [ConflictIds -> ConflictRows]
    BY <1>2, <1>6 DEF AttachConflicts
  <2> QED BY <1>2, <1>4, <2>1 DEF SchedulesInv, SchedulesTypeOK
<1>8. PointersHold' /\ DefaultsAgree' /\ CopiesDiffer'
  BY <1>2 DEF SchedulesInv, PointersHold, DefaultsAgree, CopiesDiffer
<1>9. ConflictsHold'
  <2> SUFFICES ASSUME NEW t \in Schedules, NEW m \in Numbers, NEW c \in Clashes
               PROVE  AccountsFor(conflict'[<<t, m, c>>], resolutions[<<t, m, c>>], m,
                                  Len(revision[t]), DaysOf(t, m)')
    BY <1>2 DEF ConflictsHold
  <2> DEFINE k == <<t, m, c>>
  <2>1. /\ AccountsFor(conflict[k], resolutions[k], m, Len(revision[t]), DaysOf(t, m))
        /\ k \in ConflictIds /\ k[1] = t /\ k[2] = m
    BY DEF SchedulesInv, ConflictsHold, ConflictIds
  <2>2. 0 \notin DaysOf(t, m)
    BY SchedulesAssumption DEF DaysOf
  <2> HIDE DEF k
  <2>3. CASE conflict[k].status = "none"
    BY <1>6, <2>1, <2>3 DEF AccountsFor, Closed, k
  <2>4. CASE conflict[k].status # "none"
    <3>1. /\ conflict'[k].status = conflict[k].status
          /\ conflict'[k].day = IF t = s /\ m = n /\ conflict[k].day = 0 THEN d ELSE conflict[k].day
      BY <1>6, <2>1, <2>4
    <3>2. m <= Len(revision[t])
      BY <2>1, <2>4 DEF AccountsFor
    <3>3. IF DaysOf(t, m)' = {} THEN conflict'[k].day = 0 ELSE conflict'[k].day \in DaysOf(t, m)'
      BY <1>5, <2>1, <2>2, <2>4, <3>1 DEF AccountsFor
    <3> QED BY <2>1, <2>4, <3>1, <3>2, <3>3 DEF AccountsFor, Closed, k
  <2> QED BY <2>3, <2>4
<1>10. DaysHold'
  BY <1>2, <1>5 DEF SchedulesInv, DaysHold
<1>11. RowsStay
  <2>1. \A i \in DayIds : shootDay'[i] = shootDay[i] \/ (shootDay'[i] # NoDay /\ shootDay[i].version < shootDay'[i].version)
    BY <1>1, <1>2, <1>4
  <2> QED BY <1>2, <1>6, <2>1 DEF RowsStay, Exists
<1>12. RequestsRely'
  <2>1. \A g \in SrHandlers, q \in ScheduleRequests : srReq'[g] = q => srReq[g] = q
    BY <1>2
  <2> QED BY <1>7, <1>11, <2>1, OthersRely
<1> QED BY <1>7, <1>8, <1>9, <1>10, <1>12 DEF SchedulesInv

\* The row that a change of a shoot day writes.
PatchedDay(x, y) ==
  /\ x \in DayRows /\ x # NoDay /\ y.version < x.version
  /\ y.title <= x.title /\ (y.status = "confirmed" => x.status = "confirmed")

LEMMA PatchIs ==
  ASSUME SchedulesInv, NEW h \in SrHandlers, NEW f \in {"title", "status"}, CommitPatchDay(h, f)
  PROVE  \E k \in DayIds, x \in DayRows :
           /\ shootDay' = [shootDay EXCEPT ![k] = x] /\ shootDay[k] # NoDay
           /\ PatchedDay(x, shootDay[k])
<1>1. PICK r \in ScheduleRequests : r = srReq[h]
  BY DEF SchedulesInv, SchedulesTypeOK
<1>2. PICK k \in DayIds : k = r.row
  BY <1>1 DEF CommitPatchDay, SchedulesInv, RequestsRely, Relies
<1>3. shootDay[k] # NoDay /\ r.day = shootDay[k] /\ shootDay[k] \in DayRows
  BY <1>1, <1>2 DEF CommitPatchDay, DayUnchanged, SchedulesInv, SchedulesTypeOK, RequestsRely, Relies
<1> PICK y \in DayRows : y = shootDay[k]
  BY <1>3
<1> DEFINE t == y.title + 1
           v == y.version + 1
           named == IF f = "title" THEN [y EXCEPT !.title = t] ELSE [y EXCEPT !.status = "confirmed"]
           x == [named EXCEPT !.version = v]
<1>4. shootDay' = [shootDay EXCEPT ![k] = x]
  BY <1>1, <1>2, <1>3 DEF CommitPatchDay
<1>5. t \in Nat /\ v \in Nat /\ y.title < t /\ y.version < v /\ y.title <= y.title /\ y.version >= 0
  BY DEF DayRows
<1> HIDE DEF t, v
<1>6. named \in DayRows /\ y.title <= named.title /\ (y.status = "confirmed" => named.status = "confirmed")
  <2>1. CASE f = "title"
    BY <1>5, <2>1 DEF DayRows
  <2>2. CASE f = "status"
    BY <1>5, <2>2 DEF DayRows
  <2> QED BY <2>1, <2>2
<1> HIDE DEF named
<1>7. x \in DayRows /\ x.version = v /\ x.title = named.title /\ x.status = named.status
  BY <1>5, <1>6 DEF DayRows
<1>8. x # NoDay
  <2>1. v # 0 /\ NoDay.version = 0
    BY <1>5 DEF NoDay, DayRows
  <2> QED BY <1>7, <2>1
<1> HIDE DEF x
<1> QED BY <1>3, <1>4, <1>5, <1>6, <1>7, <1>8 DEF PatchedDay

LEMMA PatchStep ==
  ASSUME SchedulesInv, NEW h \in SrHandlers, NEW f \in {"title", "status"}, CommitPatchDay(h, f)
  PROVE  SchedulesInv'
<1>1. PICK k \in DayIds, x \in DayRows :
        /\ shootDay' = [shootDay EXCEPT ![k] = x] /\ shootDay[k] # NoDay
        /\ PatchedDay(x, shootDay[k])
  BY PatchIs
<1>2. /\ srReq' = [srReq EXCEPT ![h] = NoRequest]
      /\ UNCHANGED <<schedule, revision, conflict, resolutions>>
  BY DEF CommitPatchDay, SrFinish
<1>3. shootDay'[k] = x /\ \A i \in DayIds : i # k => shootDay'[i] = shootDay[i]
  BY <1>1 DEF SchedulesInv, SchedulesTypeOK
<1>4. SchedulesTypeOK'
  BY <1>1, <1>2, NoRows DEF SchedulesInv, SchedulesTypeOK
<1>5. \A s \in Schedules, n \in Numbers : DaysOf(s, n)' = DaysOf(s, n)
  <2>1. \A i \in DayIds : shootDay'[i] # NoDay <=> shootDay[i] # NoDay
    BY <1>1, <1>3 DEF PatchedDay
  <2> QED BY <2>1 DEF DaysOf, DayIds
<1>6. PointersHold' /\ DefaultsAgree' /\ CopiesDiffer'
  BY <1>2, NoRows DEF SchedulesInv, SchedulesTypeOK, PointersHold, DefaultsAgree, CopiesDiffer
<1>7. ConflictsHold' /\ DaysHold'
  BY <1>2, <1>5 DEF SchedulesInv, ConflictsHold, DaysHold
<1>8. RowsStay
  BY <1>1, <1>2, <1>3 DEF RowsStay, Exists, PatchedDay
<1>9. RequestsRely'
  <2>1. Relies(NoRequest)'
    BY NoRows DEF Relies
  <2>2. \A g \in SrHandlers, q \in ScheduleRequests : srReq'[g] = q => srReq[g] = q \/ Relies(q)'
    BY <1>2, <2>1 DEF SchedulesInv, SchedulesTypeOK
  <2> QED BY <1>4, <1>8, <2>2, OthersRely
<1> QED BY <1>4, <1>6, <1>7, <1>9 DEF SchedulesInv

----------------------------------------------------------------------------
LEMMA QuietStep ==
  ASSUME SchedulesInv, UNCHANGED <<schedule, revision, conflict, resolutions, shootDay, srReq>>
  PROVE  SchedulesInv'
<1>1. \A s \in Schedules, n \in Numbers : DaysOf(s, n)' = DaysOf(s, n)
  BY DEF DaysOf
<1>2. ConflictsHold' /\ DaysHold'
  BY <1>1 DEF SchedulesInv, ConflictsHold, DaysHold
<1>3. RequestsRely'
  BY DEF SchedulesInv, RequestsRely, Relies, Exists
<1> QED BY <1>2, <1>3 DEF SchedulesInv, SchedulesTypeOK, PointersHold, DefaultsAgree, CopiesDiffer

LEMMA SchedulesNextInv == SchedulesInv /\ [SchedulesNext]_schedulesVars => SchedulesInv'
<1> SUFFICES ASSUME SchedulesInv, [SchedulesNext]_schedulesVars PROVE SchedulesInv'
  OBVIOUS
<1>1. CASE UNCHANGED schedulesVars \/ FreezeReadiness
  BY <1>1, QuietStep DEF schedulesVars, FreezeReadiness
<1>2. CASE \E s \in Schedules, p \in Plans, c \in SUBSET Clashes, f \in BOOLEAN :
             CreateSchedule(s, p, c, f)
  BY <1>2, CreateScheduleStep
<1>3. ASSUME NEW h \in SrHandlers,
             \/ \E s \in Schedules, p \in Plans, c \in SUBSET Clashes : StartRevision(h, s, p, c)
             \/ \E s \in Schedules : StartRevisionApproval(h, s)
             \/ NumberApproval(h)
             \/ \E s, t \in Schedules : StartDuplicate(h, s, t)
             \/ \E k \in ConflictIds : StartResolve(h, k)
             \/ \E k \in DOMAIN shootDay : StartPatchDay(h, k)
      PROVE  SchedulesInv'
  BY <1>3, StartRequestStep
<1>4. ASSUME NEW h \in SrHandlers,
             \/ CommitRevision(h) \/ CommitRevisionApproval(h) \/ CommitDuplicate(h)
             \/ \E o \in {"resolved", "overridden"} : CommitResolve(h, o)
             \/ \E f \in {"title", "status"} : CommitPatchDay(h, f)
      PROVE  SchedulesInv'
  BY <1>4, CommitRevisionStep, CommitDuplicateStep, CommitResolveStep, PatchStep
<1>5. ASSUME NEW h \in SrHandlers, SrDrop(h)
      PROVE  SchedulesInv'
  BY <1>5, FinishRequestStep DEF SrDrop
<1>6. CASE \E s \in Schedules, n \in Numbers, d \in DayCounts : GenerateDay(s, n, d)
  BY <1>6, GenerateDayStep
<1> QED BY <1>1, <1>2, <1>3, <1>4, <1>5, <1>6 DEF SchedulesNext

\* Rows are typed, and a request whose row has not moved holds what the row
\* says (operations.ts:643, :845, :1089).
THEOREM RequestsMayRely == SchedulesSpec => []SchedulesInv
BY SchedulesInitInv, SchedulesNextInv, PTL DEF SchedulesSpec

----------------------------------------------------------------------------
(* What the invariant says of the pages.                                   *)

LEMMA AtMostOne ==
  ASSUME NEW S, \A x, y \in S : x = y
  PROVE  Cardinality(S) \in Nat /\ Cardinality(S) <= 1
<1>1. CASE S = {}
  BY <1>1, FS_EmptySet
<1>2. CASE S # {}
  <2> PICK x \in S : TRUE
    BY <1>2
  <2>1. S = {x}
    OBVIOUS
  <2>2. Cardinality(S) = 1
    BY <2>1, FS_Singleton
  <2> QED BY <2>2
<1> QED BY <1>1, <1>2

LEMMA PlansFollow == SchedulesInv => PlansStand
<1> SUFFICES ASSUME SchedulesInv PROVE PlansStand
  OBVIOUS
<1>1. CurrentIsNewest
  <2> SUFFICES ASSUME NEW s \in Schedules, Exists(s)
               PROVE  LET view == ScheduleView(s) IN
                      /\ view.number = Len(revision[s])
                      /\ \A copy \in view.approved : copy.status = "approved"
                      /\ view.status = "approved" <=> schedule[s].approved = view.number
    BY DEF CurrentIsNewest
  <2>1. PointsInto(schedule[s], revision[s])
    BY DEF SchedulesInv, PointersHold
  <2> QED BY <2>1 DEF PointsInto, Exists, ScheduleView
<1>2. OneDefault
  <2>1. \A s, t \in {u \in Schedules : schedule[u].default} : s = t
    BY DEF SchedulesInv, DefaultsAgree
  <2> QED BY <2>1, AtMostOne DEF OneDefault
<1> QED BY <1>1, <1>2 DEF PlansStand

LEMMA ConflictsFollow == SchedulesInv => ConflictsAreAccounted
<1> SUFFICES ASSUME SchedulesInv PROVE ConflictsAreAccounted
  OBVIOUS
<1>1. ShownOnOneDay
  <2> SUFFICES ASSUME NEW s \in Schedules, NEW n \in Numbers, NEW c \in Clashes,
                      conflict[<<s, n, c>>].status = "open", DaysOf(s, n) # {}
               PROVE  Cardinality({d \in DaysOf(s, n) : c \in OpenConflicts(<<s, n, d>>)}) = 1
    BY DEF ShownOnOneDay
  <2> DEFINE e == conflict[<<s, n, c>>].day
  <2>1. e \in DaysOf(s, n) /\ e # 0
    BY SchedulesAssumption DEF SchedulesInv, ConflictsHold, AccountsFor, DaysOf
  <2>2. \A d \in DaysOf(s, n) : c \in OpenConflicts(<<s, n, d>>) <=> e \in {0, d}
    BY DEF OpenConflicts
  <2>3. {d \in DaysOf(s, n) : c \in OpenConflicts(<<s, n, d>>)} = {e}
    BY <2>1, <2>2
  <2> QED BY <2>3, FS_Singleton
<1>2. ResolvedOnce
  BY DEF SchedulesInv, ConflictsHold, AccountsFor, Closed, ResolvedOnce, ConflictIds
<1> QED BY <1>1, <1>2 DEF ConflictsAreAccounted

\* The page of a schedule shows its newest revision, calls it approved exactly
\* when the newest is an approved copy, and one plan is the default, in every
\* order of racing revisions, approvals and copies (operations.ts:477, :550, :643).
THEOREM SchedulesStand == SchedulesSpec => []PlansStand
BY RequestsMayRely, PlansFollow, PTL

\* An open conflict of a revision with shoot days is on exactly one of them, and
\* each conflict is closed once (operations.ts:845, :1043, :3073).
THEOREM ConflictsAccounted == SchedulesSpec => []ConflictsAreAccounted
BY RequestsMayRely, ConflictsFollow, PTL

LEMMA DaysKeepStep ==
  ASSUME SchedulesInv, [SchedulesNext]_schedulesVars, NEW k \in DOMAIN shootDay, shootDay[k] # NoDay
  PROVE  /\ shootDay'[k].title >= shootDay[k].title
         /\ shootDay[k].status = "confirmed" => shootDay'[k].status = "confirmed"
<1>1. k \in DayIds /\ shootDay[k] \in DayRows
  BY DEF SchedulesInv, SchedulesTypeOK
<1>2. CASE shootDay' = shootDay
  BY <1>1, <1>2 DEF DayRows
<1>3. ASSUME NEW s \in Schedules, NEW n \in Numbers, NEW d \in DayCounts, GenerateDay(s, n, d)
      PROVE  shootDay'[k] = shootDay[k]
  BY <1>1, <1>3 DEF GenerateDay, SchedulesInv, SchedulesTypeOK
<1>4. ASSUME NEW h \in SrHandlers, NEW f \in {"title", "status"}, CommitPatchDay(h, f)
      PROVE  shootDay'[k] = shootDay[k] \/ PatchedDay(shootDay'[k], shootDay[k])
  BY <1>1, <1>4, PatchIs DEF SchedulesInv, SchedulesTypeOK
<1>5. \/ shootDay' = shootDay
      \/ \E s \in Schedules, n \in Numbers, d \in DayCounts : GenerateDay(s, n, d)
      \/ \E h \in SrHandlers, f \in {"title", "status"} : CommitPatchDay(h, f)
  BY DEF SchedulesNext, schedulesVars, CreateSchedule, StartRevision, CommitRevision,
         StartRevisionApproval, NumberApproval, CommitRevisionApproval, StartDuplicate,
         CommitDuplicate, StartResolve, CommitResolve, StartPatchDay, SrDrop, FreezeReadiness
<1> QED BY <1>1, <1>2, <1>3, <1>4, <1>5 DEF PatchedDay, DayRows

\* A change of a shoot day keeps what other people changed (operations.ts:1089).
THEOREM DaysKeepChanges == SchedulesSpec => DayChangesAreKept
<1>1. SchedulesInv /\ [SchedulesNext]_schedulesVars =>
        [\A k \in DOMAIN shootDay : shootDay[k] # NoDay =>
           /\ shootDay'[k].title >= shootDay[k].title
           /\ shootDay[k].status = "confirmed" => shootDay'[k].status = "confirmed"]_schedulesVars
  BY DaysKeepStep
<1> QED BY <1>1, RequestsMayRely, PTL DEF SchedulesSpec, DayChangesAreKept

-----------------------------------------------------------------------------
(* Issuing.                                                                *)

Drafts == [status : {"none", "draft", "issued"}, version : Nat, next : Nat, text : Nat,
           to : SUBSET People]
Issues == [text : Nat, to : SUBSET People, key : Keys, corrects : Corrections]
Steps == {"idle", "begin", "read", "batch", "answer", "fail"}
IssueRequests == [at : Steps, doc : Documents \cup {{}}, key : Keys \cup {{}}, corrects : Corrections,
             version : Nat, number : Nat, text : Nat, to : SUBSET People]
States == {"none", "running", "completed", "failed"}
IdemRecords == [state : States, body : Corrections, ref : Nat, expired : BOOLEAN]

IssuingTypeOK ==
  /\ draft \in [Documents -> Drafts]
  /\ issue \in [Documents -> Seq(Issues)]
  /\ record \in [Documents \X Keys -> IdemRecords]
  /\ isReq \in [IsHandlers -> IssueRequests]

\* What request r read is what draft d says, if d still has the version.
TellsOf(r, d) ==
  /\ r.version <= d.version
  /\ r.version = d.version => r.text = d.text /\ (r.at = "batch" => r.to = d.to)

\* A request that is under way names a draft and a key.
VersionsTell ==
  \A h \in IsHandlers : isReq[h].at # "idle" =>
    /\ isReq[h].doc \in Documents /\ isReq[h].key \in Keys
    /\ TellsOf(isReq[h], draft[isReq[h].doc])

\* Request h began its key and may still commit.
Owns(h) == isReq[h].at \in {"read", "batch"}

\* The document and the key of a request.
Pair(h) == <<isReq[h].doc, isReq[h].key>>

OwnersDiffer ==
  \A g, h \in IsHandlers : Owns(g) /\ Owns(h) /\ Pair(g) = Pair(h) => g = h

NothingUnder(d, k) == \A n \in DOMAIN issue[d] : issue[d][n].key # k

KeysBelong ==
  /\ \A h \in IsHandlers : Owns(h) =>
       record[Pair(h)].state # "none" /\ NothingUnder(isReq[h].doc, isReq[h].key)
  /\ \A d \in Documents, k \in Keys : record[<<d, k>>].state = "none" => NothingUnder(d, k)

IssuingInv == IssuingTypeOK /\ VersionsTell /\ OwnersDiffer /\ KeysBelong

----------------------------------------------------------------------------
LEMMA NoIssuingIs == NoIssuing \in IssueRequests /\ NoIssuing.at = "idle"
BY IssuingAssumption DEF NoIssuing, IssueRequests, Steps, Corrections

LEMMA NoRecordIs == Idem!NoRecord \in IdemRecords /\ Idem!NoRecord.state = "none"
BY IssuingAssumption DEF Idem!NoRecord, IdemRecords, States, Corrections

LEMMA IssuingInitInv == IssuingInit => IssuingInv
<1> SUFFICES ASSUME IssuingInit PROVE IssuingInv
  OBVIOUS
<1>1. NoDraft \in Drafts
  BY DEF NoDraft, Drafts
<1>2. issue \in [Documents -> Seq(Issues)]
  BY DEF IssuingInit
<1>3. record \in [Documents \X Keys -> IdemRecords]
  BY NoRecordIs DEF IssuingInit, Idem!IdempotencyInit
<1>4. IssuingTypeOK
  BY <1>1, <1>2, <1>3, NoIssuingIs DEF IssuingInit, IssuingTypeOK
<1>5. VersionsTell /\ OwnersDiffer
  BY NoIssuingIs DEF IssuingInit, VersionsTell, OwnersDiffer, Owns
<1>6. KeysBelong
  BY NoIssuingIs DEF IssuingInit, KeysBelong, NothingUnder, Owns
<1> QED BY <1>4, <1>5, <1>6 DEF IssuingInv

----------------------------------------------------------------------------
(* The three kinds of steps: on a draft, on a request, on a record.        *)

\* Draft d is written under a higher version, and nothing else.
LEMMA DraftStep ==
  ASSUME IssuingInv, NEW d \in Documents, NEW new \in Drafts, draft[d].version < new.version,
         draft' = [draft EXCEPT ![d] = new], UNCHANGED <<issue, record, isReq>>
  PROVE  IssuingInv'
<1>1. IssuingTypeOK'
  BY DEF IssuingInv, IssuingTypeOK
<1>2. VersionsTell'
  <2> SUFFICES ASSUME NEW h \in IsHandlers, isReq[h].at # "idle"
               PROVE  /\ isReq[h].doc \in Documents /\ isReq[h].key \in Keys
                      /\ TellsOf(isReq[h], draft'[isReq[h].doc])
    BY DEF VersionsTell, TellsOf
  <2>1. /\ isReq[h].doc \in Documents /\ isReq[h].key \in Keys
        /\ TellsOf(isReq[h], draft[isReq[h].doc])
    BY DEF IssuingInv, VersionsTell
  <2>2. CASE isReq[h].doc = d
    <3>1. isReq[h].version < new.version
      BY <2>1, <2>2 DEF TellsOf, IssuingInv, IssuingTypeOK, IssueRequests, Drafts
    <3> QED BY <2>1, <2>2, <3>1 DEF TellsOf, IssuingInv, IssuingTypeOK, IssueRequests, Drafts
  <2>3. CASE isReq[h].doc # d
    BY <2>1, <2>3 DEF IssuingInv, IssuingTypeOK
  <2> QED BY <2>2, <2>3
<1>3. OwnersDiffer' /\ KeysBelong'
  BY DEF IssuingInv, OwnersDiffer, KeysBelong, Owns, Pair, NothingUnder
<1> QED BY <1>1, <1>2, <1>3 DEF IssuingInv

\* Request h goes on, and becomes the owner of no key that it did not own.
LEMMA RequestStep ==
  ASSUME IssuingInv, NEW h \in IsHandlers, NEW r \in IssueRequests,
         isReq' = [isReq EXCEPT ![h] = r], UNCHANGED <<draft, issue, record>>,
         r.at # "idle" => /\ r.doc \in Documents /\ r.key \in Keys
                          /\ TellsOf(r, draft[r.doc]),
         r.at \in {"read", "batch"} =>
           Owns(h) /\ r.doc = isReq[h].doc /\ r.key = isReq[h].key
  PROVE  IssuingInv'
<1>1. IssuingTypeOK'
  BY DEF IssuingInv, IssuingTypeOK
<1>2. VersionsTell'
  BY DEF IssuingInv, IssuingTypeOK, VersionsTell, TellsOf
<1>3. \A g \in IsHandlers : Owns(g)' => Owns(g) /\ Pair(g)' = Pair(g)
  BY DEF IssuingInv, IssuingTypeOK, Owns, Pair
<1>4. OwnersDiffer'
  BY <1>3 DEF IssuingInv, OwnersDiffer
<1>5. KeysBelong'
  BY <1>3 DEF IssuingInv, KeysBelong, NothingUnder, Pair
<1> QED BY <1>1, <1>2, <1>4, <1>5 DEF IssuingInv

\* A record keeps that it was begun.
RecordGoesOn ==
  /\ record' \in [Documents \X Keys -> IdemRecords]
  /\ \A d \in Documents, k \in Keys : record'[<<d, k>>].state = "none" <=> record[<<d, k>>].state = "none"

LEMMA RecordStep ==
  ASSUME IssuingInv, RecordGoesOn, UNCHANGED <<draft, issue>>,
         \/ UNCHANGED isReq
         \/ \E h \in IsHandlers : isReq' = [isReq EXCEPT ![h] = NoIssuing]
  PROVE  IssuingInv'
<1>1. isReq' \in [IsHandlers -> IssueRequests]
      /\ \A g \in IsHandlers : isReq'[g] = isReq[g] \/ isReq'[g].at = "idle"
  BY NoIssuingIs DEF IssuingInv, IssuingTypeOK
<1>2. IssuingTypeOK'
  BY <1>1 DEF RecordGoesOn, IssuingInv, IssuingTypeOK
<1>3. VersionsTell'
  BY <1>1 DEF IssuingInv, VersionsTell, TellsOf
<1>4. \A g \in IsHandlers : Owns(g)' => Owns(g) /\ isReq'[g] = isReq[g] /\ Pair(g)' = Pair(g)
  BY <1>1 DEF Owns, Pair
<1>5. OwnersDiffer'
  BY <1>4 DEF IssuingInv, OwnersDiffer
<1>6. KeysBelong'
  <2>1. \A g \in IsHandlers : Owns(g) => isReq[g].doc \in Documents /\ isReq[g].key \in Keys
    BY DEF Owns, IssuingInv, VersionsTell
  <2>2. ASSUME NEW g \in IsHandlers, Owns(g)'
        PROVE  (record[Pair(g)].state # "none" /\ NothingUnder(isReq[g].doc, isReq[g].key))'
    <3>1. Owns(g) /\ isReq'[g] = isReq[g] /\ Pair(g)' = Pair(g)
      BY <1>4, <2>2
    <3>2. record[Pair(g)].state # "none" /\ NothingUnder(isReq[g].doc, isReq[g].key)
      BY <3>1 DEF IssuingInv, KeysBelong
    <3>3. record'[Pair(g)].state # "none"
      BY <2>1, <3>1, <3>2 DEF RecordGoesOn, Pair
    <3> QED BY <3>1, <3>2, <3>3 DEF NothingUnder
  <2>3. ASSUME NEW d \in Documents, NEW k \in Keys, record'[<<d, k>>].state = "none"
        PROVE  NothingUnder(d, k)'
    BY <2>3 DEF RecordGoesOn, IssuingInv, KeysBelong, NothingUnder
  <2> QED BY <2>2, <2>3 DEF KeysBelong
<1> QED BY <1>2, <1>3, <1>5, <1>6 DEF IssuingInv

----------------------------------------------------------------------------
(* Drafts.                                                                 *)

LEMMA CreateDraftStep ==
  ASSUME IssuingInv, NEW d \in Documents, NEW to \in SUBSET People,
         (d \in Sheets /\ CreateSheet(d, to)) \/ (d \in Packs /\ CreatePack(d, to))
  PROVE  IssuingInv'
<1>1. NewDraft(to) \in Drafts /\ NewDraft(to).version = 1
  BY DEF NewDraft, FirstText, Drafts
<1>2. draft[d].version = 0
  BY DEF CreateSheet, CreatePack, MayAdd, NoDraft
<1>3. draft' = [draft EXCEPT ![d] = NewDraft(to)] /\ UNCHANGED <<issue, record, isReq>>
  BY DEF CreateSheet, CreatePack
<1>4. draft[d].version < NewDraft(to).version
  BY <1>1, <1>2
<1> QED BY <1>1, <1>3, <1>4, DraftStep

LEMMA EditSheetStep ==
  ASSUME IssuingInv, NEW d \in Sheets, EditSheet(d)
  PROVE  IssuingInv'
<1>1. d \in Documents /\ draft[d] \in Drafts
  BY DEF Documents, IssuingInv, IssuingTypeOK
<1>2. EditedDraft(d) \in Drafts /\ draft[d].version < EditedDraft(d).version
  <2> DEFINE old == draft[d]
             text == old.text + 1
             version == old.version + 1
  <2>1. text \in Nat /\ version \in Nat /\ old.version < version /\ old \in Drafts
    BY <1>1 DEF Drafts
  <2>2. EditedDraft(d) = [old EXCEPT !.text = text, !.version = version, !.status = "draft"]
    BY DEF EditedDraft
  <2> HIDE DEF text, version, old
  <2>3. EditedDraft(d) \in Drafts /\ EditedDraft(d).version = version
    BY <2>1, <2>2 DEF Drafts
  <2> QED BY <2>1, <2>3 DEF old
<1>3. draft' = [draft EXCEPT ![d] = EditedDraft(d)] /\ UNCHANGED <<issue, record, isReq>>
  BY DEF EditSheet
<1> QED BY <1>1, <1>2, <1>3, DraftStep

----------------------------------------------------------------------------
(* IssueRequests.                                                               *)

LEMMA StartStep ==
  ASSUME IssuingInv, NEW h \in IsHandlers, NEW d \in Documents, NEW k \in Keys, NEW c \in Corrections,
         StartSheetIssue(h, d, k, c) \/ StartPackIssue(h, d, k, c)
  PROVE  IssuingInv'
<1> DEFINE r == Expected(d, k, c)
<1>1. draft[d] \in Drafts
  BY DEF IssuingInv, IssuingTypeOK
<1>2. /\ r \in IssueRequests /\ r.at = "begin" /\ r.doc = d /\ r.key = k
      /\ r.version = draft[d].version /\ r.text = draft[d].text
  BY <1>1, NoIssuingIs DEF Expected, IssueRequests, Steps, Drafts
<1>3. isReq' = [isReq EXCEPT ![h] = r] /\ UNCHANGED <<draft, issue, record>>
  BY DEF StartSheetIssue, StartPackIssue
<1> HIDE DEF r
<1>4. TellsOf(r, draft[d])
  BY <1>1, <1>2 DEF TellsOf, Drafts
<1> QED BY <1>2, <1>3, <1>4, RequestStep

\* A request that ends.
LEMMA FinishStep ==
  ASSUME IssuingInv, NEW h \in IsHandlers, IsFinish(h), UNCHANGED <<draft, issue, record>>
  PROVE  IssuingInv'
BY NoIssuingIs, RequestStep DEF IsFinish

\* A request that takes the error path.
LEMMA FailingStep ==
  ASSUME IssuingInv, NEW h \in IsHandlers, isReq[h].at # "idle", IsGoto(h, "fail"),
         UNCHANGED <<draft, issue, record>>
  PROVE  IssuingInv'
<1> DEFINE r == [isReq[h] EXCEPT !.at = "fail"]
<1>1. isReq[h] \in IssueRequests
  BY DEF IssuingInv, IssuingTypeOK
<1>2. /\ r \in IssueRequests /\ r.at = "fail" /\ r.doc = isReq[h].doc /\ r.key = isReq[h].key
      /\ r.version = isReq[h].version /\ r.text = isReq[h].text
  BY <1>1 DEF IssueRequests, Steps
<1>3. isReq' = [isReq EXCEPT ![h] = r]
  BY DEF IsGoto, IssuingInv, IssuingTypeOK
<1> HIDE DEF r
<1>4. r.doc \in Documents /\ r.key \in Keys /\ TellsOf(r, draft[r.doc])
  BY <1>2 DEF IssuingInv, VersionsTell, TellsOf
<1> QED BY <1>2, <1>3, <1>4, RequestStep

\* What an issue will hold is read.
LEMMA ReadStep ==
  ASSUME IssuingInv, NEW h \in IsHandlers, ReadRecipients(h) \/ ReadItems(h)
  PROVE  IssuingInv'
<1> DEFINE doc == isReq[h].doc
<1>1. isReq[h] \in IssueRequests /\ Owns(h)
  BY DEF ReadRecipients, ReadItems, Owns, IssuingInv, IssuingTypeOK
<1>2. doc \in Documents /\ isReq[h].key \in Keys /\ TellsOf(isReq[h], draft[doc])
  BY <1>1 DEF Owns, IssuingInv, VersionsTell
<1>3. draft[doc] \in Drafts /\ draft[doc].to \in SUBSET People /\ Len(issue[doc]) \in Nat
  BY <1>2 DEF IssuingInv, IssuingTypeOK, Drafts
<1>4. PICK n \in Nat :
        isReq' = [isReq EXCEPT ![h] = [isReq[h] EXCEPT !.at = "batch", !.to = draft[doc].to,
                                                       !.number = n]]
  <2>1. CASE ReadItems(h)
    <3> DEFINE n == Len(issue[doc]) + 1
    <3>1. n \in Nat
      BY <1>3
    <3>2. isReq' = [isReq EXCEPT ![h].at = "batch", ![h].to = draft[doc].to, ![h].number = n]
      BY <2>1 DEF ReadItems
    <3> HIDE DEF n
    <3>3. isReq' = [isReq EXCEPT ![h] = [isReq[h] EXCEPT !.at = "batch", !.to = draft[doc].to,
                                                         !.number = n]]
      BY <3>2 DEF IssuingInv, IssuingTypeOK
    <3> QED BY <3>1, <3>3
  <2>2. CASE ReadRecipients(h)
    <3>1. isReq' = [isReq EXCEPT ![h] = [isReq[h] EXCEPT !.at = "batch", !.to = draft[doc].to]]
      BY <2>2 DEF ReadRecipients, DraftPeople, IssuingInv, IssuingTypeOK
    <3>2. [isReq[h] EXCEPT !.at = "batch", !.to = draft[doc].to] =
            [isReq[h] EXCEPT !.at = "batch", !.to = draft[doc].to, !.number = isReq[h].number]
      BY <1>1 DEF IssueRequests
    <3>3. isReq[h].number \in Nat
      BY <1>1 DEF IssueRequests
    <3> QED BY <3>1, <3>2, <3>3
  <2> QED BY <2>1, <2>2
<1>5. UNCHANGED <<draft, issue, record>>
  BY DEF ReadRecipients, ReadItems
<1> DEFINE r == [isReq[h] EXCEPT !.at = "batch", !.to = draft[doc].to, !.number = n]
<1>6. /\ r \in IssueRequests /\ r.at = "batch" /\ r.doc = doc /\ r.key = isReq[h].key
      /\ r.version = isReq[h].version /\ r.text = isReq[h].text /\ r.to = draft[doc].to
  BY <1>1, <1>3 DEF IssueRequests, Steps
<1> HIDE DEF r
<1>7. TellsOf(r, draft[doc])
  BY <1>2, <1>6 DEF TellsOf
<1>8. isReq' = [isReq EXCEPT ![h] = r]
  BY <1>4 DEF r
<1> QED BY <1>1, <1>2, <1>5, <1>6, <1>7, <1>8, RequestStep

----------------------------------------------------------------------------
(* Records.                                                                *)

\* Row ok of the records gets the value new, which is begun as the old one was.
LEMMA OneRecord ==
  ASSUME IssuingInv, NEW ok \in Documents \X Keys, NEW new \in IdemRecords,
         new.state = "none" <=> record[ok].state = "none",
         record' = [record EXCEPT ![ok] = new]
  PROVE  RecordGoesOn
BY DEF RecordGoesOn, IssuingInv, IssuingTypeOK

LEMMA MarkedFailed ==
  ASSUME IssuingInv, NEW d \in Documents, NEW k \in Keys, record' = Idem!Failed(d, k)
  PROVE  RecordGoesOn
<1> DEFINE ok == <<d, k>>
           new == [record[ok] EXCEPT !.state = "failed"]
<1>1. ok \in Documents \X Keys /\ record[ok] \in IdemRecords
  BY DEF IssuingInv, IssuingTypeOK
<1>2. CASE record[ok].state = "running"
  <2>1. new \in IdemRecords /\ new.state = "failed"
    BY <1>1 DEF IdemRecords, States
  <2>2. record' = [record EXCEPT ![ok] = new]
    BY <1>1, <1>2 DEF Idem!Failed, IssuingInv, IssuingTypeOK
  <2> HIDE DEF new, ok
  <2> QED BY <1>1, <1>2, <2>1, <2>2, OneRecord
<1>3. CASE record[ok].state # "running"
  BY <1>3 DEF Idem!Failed, RecordGoesOn, IssuingInv, IssuingTypeOK
<1> QED BY <1>2, <1>3

LEMMA ExpireStep ==
  ASSUME IssuingInv, NEW d \in Documents, NEW k \in Keys, ExpireKey(d, k)
  PROVE  IssuingInv'
<1> DEFINE ok == <<d, k>>
           new == [record[ok] EXCEPT !.expired = TRUE]
<1>1. ok \in Documents \X Keys /\ record[ok] \in IdemRecords
  BY DEF IssuingInv, IssuingTypeOK
<1>2. new \in IdemRecords /\ new.state = record[ok].state
  BY <1>1 DEF IdemRecords
<1>3. record' = [record EXCEPT ![ok] = new] /\ UNCHANGED <<draft, issue, isReq>>
  BY <1>1 DEF ExpireKey, Idem!Expire, IssuingInv, IssuingTypeOK
<1> HIDE DEF new, ok
<1>4. RecordGoesOn
  BY <1>1, <1>2, <1>3, OneRecord
<1> QED BY <1>3, <1>4, RecordStep

LEMMA FailedStep ==
  ASSUME IssuingInv, NEW h \in IsHandlers, RejectRecipients(h) \/ RejectItems(h) \/ MarkFailed(h)
  PROVE  IssuingInv'
<1>1. /\ isReq[h].at # "idle" /\ record' = Idem!Failed(isReq[h].doc, isReq[h].key)
      /\ IsFinish(h) /\ UNCHANGED <<draft, issue>>
  BY DEF RejectRecipients, RejectItems, MarkFailed
<1>2. isReq[h].doc \in Documents /\ isReq[h].key \in Keys
  BY <1>1 DEF IssuingInv, VersionsTell
<1>3. RecordGoesOn
  BY <1>1, <1>2, MarkedFailed
<1> QED BY <1>1, <1>3, RecordStep DEF IsFinish

----------------------------------------------------------------------------
LEMMA BeginIssueStep ==
  ASSUME IssuingInv, NEW h \in IsHandlers, BeginIssue(h)
  PROVE  IssuingInv'
<1> DEFINE r == [isReq[h] EXCEPT !.at = "read"]
           body == isReq[h].corrects
           new == [Idem!NoRecord EXCEPT !.state = "running", !.body = body]
<1>1. isReq[h] \in IssueRequests /\ isReq[h].at = "begin" /\ body \in Corrections
  BY DEF BeginIssue, IssuingInv, IssuingTypeOK, IssueRequests
<1>2. /\ isReq[h].doc \in Documents /\ isReq[h].key \in Keys
      /\ TellsOf(isReq[h], draft[isReq[h].doc])
  BY <1>1 DEF IssuingInv, VersionsTell
<1>3. /\ isReq' = [isReq EXCEPT ![h] = r] /\ record[Pair(h)].state = "none"
      /\ record' = [record EXCEPT ![Pair(h)] = new] /\ UNCHANGED <<draft, issue>>
  BY NoRecordIs DEF BeginIssue, Idem!Begin, IsGoto, Pair, IssuingInv, IssuingTypeOK
<1>4. /\ r \in IssueRequests /\ r.at = "read" /\ r.doc = isReq[h].doc /\ r.key = isReq[h].key
      /\ r.version = isReq[h].version /\ r.text = isReq[h].text
  BY <1>1 DEF IssueRequests, Steps
<1> HIDE DEF body
<1>5. new \in IdemRecords /\ new.state = "running"
  BY <1>1, NoRecordIs DEF IdemRecords, States
<1> HIDE DEF r, new
<1>6. IssuingTypeOK'
  BY <1>3, <1>4, <1>5, <1>2 DEF IssuingInv, IssuingTypeOK, Pair
<1>7. VersionsTell'
  BY <1>2, <1>3, <1>4 DEF IssuingInv, IssuingTypeOK, VersionsTell, TellsOf
<1>8. \A g \in IsHandlers : /\ Pair(g)' = Pair(g)
                            /\ Owns(g)' => g = h \/ Owns(g)
  BY <1>3, <1>4 DEF IssuingInv, IssuingTypeOK, Owns, Pair
<1>9. \A g \in IsHandlers : Owns(g) => Pair(g) # Pair(h)
  BY <1>3 DEF IssuingInv, KeysBelong
<1>10. OwnersDiffer'
  BY <1>8, <1>9 DEF IssuingInv, OwnersDiffer
<1>11. \A g \in IsHandlers : isReq'[g].doc = isReq[g].doc /\ isReq'[g].key = isReq[g].key
  BY <1>3, <1>4 DEF IssuingInv, IssuingTypeOK
<1>12. NothingUnder(isReq[h].doc, isReq[h].key)
  BY <1>2, <1>3 DEF IssuingInv, KeysBelong, Pair
<1>13. KeysBelong'
  <2>1. ASSUME NEW g \in IsHandlers, Owns(g)'
        PROVE  (record[Pair(g)].state # "none" /\ NothingUnder(isReq[g].doc, isReq[g].key))'
    <3>1. CASE g = h
      <4>1. record'[Pair(h)].state # "none"
        BY <1>2, <1>3, <1>5 DEF Pair, IssuingInv, IssuingTypeOK
      <4> QED BY <1>3, <1>8, <1>11, <1>12, <3>1, <4>1 DEF NothingUnder
    <3>2. CASE g # h
      <4>1. Owns(g) /\ Pair(g) # Pair(h)
        BY <1>8, <1>9, <2>1, <3>2
      <4>2. record[Pair(g)].state # "none" /\ NothingUnder(isReq[g].doc, isReq[g].key)
        BY <4>1 DEF IssuingInv, KeysBelong
      <4>3. isReq[g].doc \in Documents /\ isReq[g].key \in Keys
        BY <4>1 DEF Owns, IssuingInv, VersionsTell
      <4>4. record'[Pair(g)].state # "none"
        BY <1>3, <4>1, <4>2, <4>3 DEF IssuingInv, IssuingTypeOK, Pair
      <4> QED BY <1>3, <1>8, <1>11, <4>2, <4>4 DEF NothingUnder
    <3> QED BY <3>1, <3>2
  <2>2. ASSUME NEW d \in Documents, NEW k \in Keys, record'[<<d, k>>].state = "none"
        PROVE  NothingUnder(d, k)'
    <3>1. record[<<d, k>>].state = "none"
      BY <1>3, <1>5, <2>2 DEF IssuingInv, IssuingTypeOK
    <3> QED BY <1>3, <3>1 DEF IssuingInv, KeysBelong, NothingUnder
  <2> QED BY <2>1, <2>2 DEF KeysBelong
<1> QED BY <1>6, <1>7, <1>10, <1>13 DEF IssuingInv

----------------------------------------------------------------------------
(* The batch.                                                              *)

\* What request r freezes.
Entry(r) == [text |-> r.text, to |-> r.to, key |-> r.key, corrects |-> r.corrects]

LEMMA CommitIs ==
  ASSUME IssuingInv, NEW h \in IsHandlers, CommitSheetIssue(h) \/ CommitPackIssue(h)
  PROVE  /\ isReq[h] \in IssueRequests /\ isReq[h].at = "batch"
         /\ isReq[h].doc \in Documents /\ isReq[h].key \in Keys
         /\ draft[isReq[h].doc] \in Drafts /\ Entry(isReq[h]) \in Issues
         /\ isReq[h].text = draft[isReq[h].doc].text /\ isReq[h].to = draft[isReq[h].doc].to
         /\ issue' = [issue EXCEPT ![isReq[h].doc] = Append(issue[isReq[h].doc], Entry(isReq[h]))]
         /\ draft' = [draft EXCEPT ![isReq[h].doc] = IssuedDraft(isReq[h])]
         /\ record' = Idem!Completed(isReq[h].doc, isReq[h].key, isReq[h].number)
         /\ isReq' = [isReq EXCEPT ![h] = [isReq[h] EXCEPT !.at = "answer"]]
         /\ NothingUnder(isReq[h].doc, isReq[h].key) /\ record[Pair(h)].state # "none"
<1>1. /\ isReq[h] \in IssueRequests /\ isReq[h].at = "batch" /\ Owns(h)
      /\ draft[isReq[h].doc].version = isReq[h].version
  BY DEF CommitSheetIssue, CommitPackIssue, BatchHolds, Owns, IssuingInv, IssuingTypeOK
<1>2. /\ isReq[h].doc \in Documents /\ isReq[h].key \in Keys
      /\ TellsOf(isReq[h], draft[isReq[h].doc])
  BY <1>1 DEF IssuingInv, VersionsTell
<1>3. /\ issue' = [issue EXCEPT ![isReq[h].doc] = Append(issue[isReq[h].doc], Entry(isReq[h]))]
      /\ draft' = [draft EXCEPT ![isReq[h].doc] = IssuedDraft(isReq[h])]
      /\ record' = Idem!Completed(isReq[h].doc, isReq[h].key, isReq[h].number)
  BY <1>2 DEF CommitSheetIssue, CommitPackIssue, IssuedSheet, IssuedPack, Entry, IssuingInv, IssuingTypeOK
<1>4. isReq' = [isReq EXCEPT ![h] = [isReq[h] EXCEPT !.at = "answer"]]
  BY DEF CommitSheetIssue, CommitPackIssue, IsGoto, IssuingInv, IssuingTypeOK
<1>5. draft[isReq[h].doc] \in Drafts /\ Entry(isReq[h]) \in Issues
  BY <1>1, <1>2 DEF IssuingInv, IssuingTypeOK, Entry, Issues, IssueRequests
<1>6. isReq[h].text = draft[isReq[h].doc].text /\ isReq[h].to = draft[isReq[h].doc].to
  BY <1>1, <1>2 DEF TellsOf
<1>7. NothingUnder(isReq[h].doc, isReq[h].key) /\ record[Pair(h)].state # "none"
  BY <1>1 DEF IssuingInv, KeysBelong
<1> QED BY <1>1, <1>2, <1>3, <1>4, <1>5, <1>6, <1>7

LEMMA IssuedDraftIs ==
  ASSUME NEW r \in IssueRequests, draft[r.doc] \in Drafts
  PROVE  /\ IssuedDraft(r) \in Drafts
         /\ draft[r.doc].version < IssuedDraft(r).version
         /\ IssuedDraft(r).text = draft[r.doc].text /\ IssuedDraft(r).to = draft[r.doc].to
         /\ IssuedDraft(r).status = "issued" /\ IssuedDraft(r).next = draft[r.doc].next + 1
<1> DEFINE old == draft[r.doc]
           next == old.next + 1
           version == old.version + 1
<1>1. next \in Nat /\ version \in Nat /\ old.version < version /\ old \in Drafts
  BY DEF Drafts
<1>2. IssuedDraft(r) = [old EXCEPT !.status = "issued", !.next = next, !.version = version]
  BY DEF IssuedDraft
<1> HIDE DEF next, version, old
<1>3. /\ IssuedDraft(r) \in Drafts /\ IssuedDraft(r).version = version
      /\ IssuedDraft(r).text = old.text /\ IssuedDraft(r).to = old.to
      /\ IssuedDraft(r).status = "issued" /\ IssuedDraft(r).next = next
  BY <1>1, <1>2 DEF Drafts
<1> QED BY <1>1, <1>3 DEF old, next

LEMMA MarkedCompleted ==
  ASSUME IssuingInv, NEW d \in Documents, NEW k \in Keys, NEW n \in Nat,
         record' = Idem!Completed(d, k, n)
  PROVE  RecordGoesOn
<1> DEFINE ok == <<d, k>>
           new == [record[ok] EXCEPT !.state = "completed", !.ref = n]
<1>1. ok \in Documents \X Keys /\ record[ok] \in IdemRecords
  BY DEF IssuingInv, IssuingTypeOK
<1>2. CASE record[ok].state = "running"
  <2>1. new \in IdemRecords /\ new.state = "completed"
    BY <1>1 DEF IdemRecords, States
  <2>2. record' = [record EXCEPT ![ok] = new]
    BY <1>1, <1>2 DEF Idem!Completed, IssuingInv, IssuingTypeOK
  <2> HIDE DEF new, ok
  <2> QED BY <1>1, <1>2, <2>1, <2>2, OneRecord
<1>3. CASE record[ok].state # "running"
  BY <1>3 DEF Idem!Completed, RecordGoesOn, IssuingInv, IssuingTypeOK
<1> QED BY <1>2, <1>3

\* One more issue, under another key.
LEMMA OneMoreIssue ==
  ASSUME NEW S, NEW s \in Seq(S), NEW e \in S, NEW k, e.key # k,
         \A n \in DOMAIN s : s[n].key # k
  PROVE  \A n \in DOMAIN Append(s, e) : Append(s, e)[n].key # k
OBVIOUS

LEMMA CommitStep ==
  ASSUME IssuingInv, NEW h \in IsHandlers, CommitSheetIssue(h) \/ CommitPackIssue(h)
  PROVE  IssuingInv'
<1> DEFINE r == isReq[h]
           doc == r.doc
           e == Entry(r)
           new == [r EXCEPT !.at = "answer"]
           d2 == IssuedDraft(r)
<1>1. /\ r \in IssueRequests /\ r.at = "batch" /\ doc \in Documents /\ r.key \in Keys
      /\ draft[doc] \in Drafts /\ e \in Issues /\ e.key = r.key
      /\ issue' = [issue EXCEPT ![doc] = Append(issue[doc], e)]
      /\ draft' = [draft EXCEPT ![doc] = d2] /\ isReq' = [isReq EXCEPT ![h] = new]
      /\ record[Pair(h)].state # "none" /\ Pair(h) = <<doc, r.key>>
  BY CommitIs DEF Entry, Pair
<1>2. /\ d2 \in Drafts /\ draft[doc].version < d2.version
  BY <1>1, IssuedDraftIs
<1>3. /\ new \in IssueRequests /\ new.at = "answer" /\ new.doc = doc /\ new.key = r.key
      /\ new.version = r.version /\ new.text = r.text
  BY <1>1 DEF IssueRequests, Steps
<1>4. RecordGoesOn
  <2>1. record' = Idem!Completed(doc, r.key, r.number) /\ r.number \in Nat
    BY CommitIs DEF IssueRequests
  <2> QED BY <1>1, <2>1, MarkedCompleted
<1> HIDE DEF new, d2, e
<1>5. IssuingTypeOK'
  <2>1. Append(issue[doc], e) \in Seq(Issues)
    BY <1>1 DEF IssuingInv, IssuingTypeOK
  <2> HIDE DEF r, doc
  <2> QED BY <1>1, <1>2, <1>3, <1>4, <2>1 DEF RecordGoesOn, IssuingInv, IssuingTypeOK
<1>6. VersionsTell'
  <2> SUFFICES ASSUME NEW g \in IsHandlers, isReq'[g].at # "idle"
               PROVE  /\ isReq'[g].doc \in Documents /\ isReq'[g].key \in Keys
                      /\ TellsOf(isReq'[g], draft'[isReq'[g].doc])
    BY DEF VersionsTell, TellsOf
  <2>1. /\ isReq[g].at # "idle" /\ isReq'[g].doc = isReq[g].doc /\ isReq'[g].key = isReq[g].key
        /\ isReq'[g].version = isReq[g].version /\ isReq[g].version \in Nat
        /\ g # h => isReq'[g] = isReq[g]
    BY <1>1, <1>3 DEF IssuingInv, IssuingTypeOK, IssueRequests
  <2>2. /\ isReq[g].doc \in Documents /\ isReq[g].key \in Keys
        /\ TellsOf(isReq[g], draft[isReq[g].doc])
    BY <2>1 DEF IssuingInv, VersionsTell
  <2>3. CASE isReq[g].doc = doc
    <3>1. draft'[doc] = d2 /\ isReq[g].version <= draft[doc].version
      BY <1>1, <2>2, <2>3 DEF TellsOf, IssuingInv, IssuingTypeOK
    <3>2. isReq[g].version < d2.version
      BY <1>1, <1>2, <2>1, <3>1 DEF Drafts
    <3> QED BY <1>2, <2>1, <2>2, <2>3, <3>1, <3>2 DEF TellsOf, Drafts
  <2>4. CASE isReq[g].doc # doc
    BY <1>1, <2>1, <2>2, <2>4 DEF IssuingInv, IssuingTypeOK
  <2> QED BY <2>3, <2>4
<1>7. \A g \in IsHandlers : Owns(g)' => g # h /\ Owns(g) /\ isReq'[g] = isReq[g] /\ Pair(g)' = Pair(g)
  BY <1>1, <1>3 DEF IssuingInv, IssuingTypeOK, Owns, Pair
<1>8. OwnersDiffer'
  BY <1>7 DEF IssuingInv, OwnersDiffer
<1>9. \A d \in Documents, k \in Keys : NothingUnder(d, k) /\ <<d, k>> # Pair(h) => NothingUnder(d, k)'
  <2> SUFFICES ASSUME NEW d \in Documents, NEW k \in Keys, NothingUnder(d, k), <<d, k>> # Pair(h)
               PROVE  NothingUnder(d, k)'
    OBVIOUS
  <2>1. CASE d # doc
    <3>1. issue'[d] = issue[d]
      BY <1>1, <2>1 DEF IssuingInv, IssuingTypeOK
    <3> QED BY <3>1 DEF NothingUnder
  <2>2. CASE d = doc
    <3>1. e.key # k
      BY <1>1, <2>2
    <3>2. issue'[d] = Append(issue[d], e) /\ issue[d] \in Seq(Issues)
      BY <1>1, <2>2 DEF IssuingInv, IssuingTypeOK
    <3>3. \A n \in DOMAIN issue[d] : issue[d][n].key # k
      BY DEF NothingUnder
    <3>4. \A n \in DOMAIN Append(issue[d], e) : Append(issue[d], e)[n].key # k
      BY <1>1, <3>1, <3>2, <3>3, OneMoreIssue
    <3> QED BY <3>2, <3>4 DEF NothingUnder
  <2> QED BY <2>1, <2>2
<1>10. KeysBelong'
  <2>1. ASSUME NEW g \in IsHandlers, Owns(g)'
        PROVE  (record[Pair(g)].state # "none" /\ NothingUnder(isReq[g].doc, isReq[g].key))'
    <3>1. /\ g # h /\ Owns(g) /\ Owns(h) /\ Pair(g)' = Pair(g)
          /\ isReq'[g].doc = isReq[g].doc /\ isReq'[g].key = isReq[g].key
      BY <1>1, <1>7, <2>1 DEF Owns
    <3>2. Pair(g) # Pair(h)
      BY <3>1 DEF IssuingInv, OwnersDiffer
    <3>3. isReq[g].doc \in Documents /\ isReq[g].key \in Keys
      BY <3>1 DEF Owns, IssuingInv, VersionsTell
    <3>4. record[Pair(g)].state # "none" /\ NothingUnder(isReq[g].doc, isReq[g].key)
      BY <3>1 DEF IssuingInv, KeysBelong
    <3>5. record'[Pair(g)].state # "none"
      BY <1>4, <3>3, <3>4 DEF RecordGoesOn, Pair
    <3>6. NothingUnder(isReq[g].doc, isReq[g].key)'
      BY <1>9, <3>1, <3>2, <3>3, <3>4 DEF Pair, NothingUnder
    <3> QED BY <3>1, <3>5, <3>6
  <2>2. ASSUME NEW d \in Documents, NEW k \in Keys, record'[<<d, k>>].state = "none"
        PROVE  NothingUnder(d, k)'
    <3>1. record[<<d, k>>].state = "none" /\ <<d, k>> # Pair(h)
      BY <1>1, <1>4, <2>2 DEF RecordGoesOn
    <3> QED BY <1>9, <3>1 DEF IssuingInv, KeysBelong
  <2> QED BY <2>1, <2>2 DEF KeysBelong
<1> QED BY <1>5, <1>6, <1>8, <1>10 DEF IssuingInv

----------------------------------------------------------------------------
\* A request that ends, or takes the error path.
LEMMA EndingStep ==
  ASSUME IssuingInv, NEW h \in IsHandlers,
         AnswerKnownKey(h) \/ AbortIssue(h) \/ LoseAnswer(h) \/ IsDrop(h)
  PROVE  IssuingInv'
<1>1. CASE AnswerKnownKey(h) \/ IsDrop(h)
  BY <1>1, FinishStep DEF AnswerKnownKey, IsDrop
<1>2. CASE AbortIssue(h) \/ LoseAnswer(h)
  BY <1>2, FailingStep DEF AbortIssue, LoseAnswer
<1> QED BY <1>1, <1>2

LEMMA IssuingNextInv == IssuingInv /\ [IssuingNext]_issuingVars => IssuingInv'
<1> SUFFICES ASSUME IssuingInv, [IssuingNext]_issuingVars PROVE IssuingInv'
  OBVIOUS
<1>1. Sheets \subseteq Documents /\ Packs \subseteq Documents
  BY DEF Documents
<1>2. CASE UNCHANGED issuingVars
  BY <1>2 DEF issuingVars, IssuingInv, IssuingTypeOK, VersionsTell, TellsOf, OwnersDiffer, Owns, Pair,
              KeysBelong, NothingUnder
<1>3. ASSUME NEW to \in SUBSET People,
             (\E d \in Sheets : CreateSheet(d, to)) \/ (\E d \in Packs : CreatePack(d, to))
      PROVE  IssuingInv'
  BY <1>1, <1>3, CreateDraftStep
<1>4. CASE \E d \in Sheets : EditSheet(d)
  BY <1>4, EditSheetStep
<1>5. ASSUME NEW h \in IsHandlers,
             \E k \in Keys, c \in Corrections :
               (\E d \in Sheets : StartSheetIssue(h, d, k, c)) \/ (\E d \in Packs : StartPackIssue(h, d, k, c))
      PROVE  IssuingInv'
  BY <1>1, <1>5, StartStep
<1>6. ASSUME NEW h \in IsHandlers,
             BeginIssue(h) \/ AnswerKnownKey(h) \/ ReadRecipients(h) \/ RejectRecipients(h)
               \/ ReadItems(h) \/ RejectItems(h)
      PROVE  IssuingInv'
  BY <1>6, BeginIssueStep, EndingStep, ReadStep, FailedStep
<1>7. ASSUME NEW h \in IsHandlers,
             CommitSheetIssue(h) \/ CommitPackIssue(h) \/ AbortIssue(h) \/ LoseAnswer(h)
               \/ MarkFailed(h) \/ IsDrop(h)
      PROVE  IssuingInv'
  BY <1>7, CommitStep, EndingStep, FailedStep
<1>8. CASE \E d \in Documents, k \in Keys : ExpireKey(d, k)
  BY <1>8, ExpireStep
<1> QED BY <1>2, <1>3, <1>4, <1>5, <1>6, <1>7, <1>8 DEF IssuingNext

\* A version tells what its draft says, and a key that was begun and not
\* completed has no issue (operations.ts:1487, idempotency.ts:35).
THEOREM VersionsAndKeysTell == IssuingSpec => []IssuingInv
BY IssuingInitInv, IssuingNextInv, PTL DEF IssuingSpec

----------------------------------------------------------------------------
(* Keys and drafts agree with the issues.  A request that has begun its    *)
(* key is the only one of that key, and the key runs until it commits or   *)
(* gives up; a link to an issue is one of the links of that issue; and a   *)
(* draft says as much as its last issue or more.                           *)

\* Request h began its key and has not ended.
Began(h) == isReq[h].at \in {"read", "batch", "answer", "fail"}

BeginnersDiffer ==
  \A g, h \in IsHandlers : Began(g) /\ Began(h) /\ Pair(g) = Pair(h) => g = h

RequestsStand ==
  \A h \in IsHandlers :
    /\ Began(h) => record[Pair(h)].state # "none"
    /\ Owns(h) => record[Pair(h)].state = "running"
    /\ isReq[h].at = "batch" => isReq[h].to # {}
    /\ isReq[h].at # "idle" => 0 < draft[isReq[h].doc].version

KeyTells(d, k) ==
  IssuesUnder(d, k) =
    IF record[<<d, k>>].state = "completed" THEN {record[<<d, k>>].ref} ELSE {}

LinksTell ==
  \A d \in Sheets, n \in Nat, p \in People :
    <<d, n, p>> \in link <=> n \in DOMAIN issue[d] /\ p \in issue[d][n].to

IssuesHold == \A d \in Documents : \A n \in DOMAIN issue[d] : issue[d][n].to # {}

\* Draft row x tells of the issues s made from it.
RowTells(x, s, sheet) ==
  IF x.version = 0 THEN x = NoDraft /\ s = << >>
  ELSE /\ sheet => x.next = Len(s) + 1
       /\ \A n \in DOMAIN s : s[n].text <= x.text
       /\ x.status = "issued" <=> s # << >> /\ s[Len(s)].text = x.text

DraftsTell == \A d \in Documents : RowTells(draft[d], issue[d], d \in Sheets)

Agreed ==
  /\ BeginnersDiffer /\ RequestsStand /\ LinksTell /\ IssuesHold /\ DraftsTell
  /\ \A d \in Documents, k \in Keys : KeyTells(d, k)

LEMMA AgreedInit == IssuingInit => Agreed
<1> SUFFICES ASSUME IssuingInit PROVE Agreed
  OBVIOUS
<1>1. BeginnersDiffer /\ RequestsStand
  BY NoIssuingIs DEF IssuingInit, BeginnersDiffer, RequestsStand, Began, Owns
<1>2. LinksTell /\ IssuesHold
  BY DEF IssuingInit, LinksTell, IssuesHold, Documents
<1>3. DraftsTell
  BY DEF IssuingInit, DraftsTell, RowTells, NoDraft
<1>4. \A d \in Documents, k \in Keys : KeyTells(d, k)
  BY NoRecordIs DEF IssuingInit, Idem!IdempotencyInit, KeyTells, IssuesUnder
<1> QED BY <1>1, <1>2, <1>3, <1>4 DEF Agreed

LEMMA AgreeingMeans == IssuingInv /\ Agreed => IssuesStand
<1> SUFFICES ASSUME IssuingInv, Agreed PROVE IssuesStand
  OBVIOUS
<1>1. KeyTellsTheTruth
  BY DEF Agreed, KeyTells, KeyTellsTheTruth
<1>2. AnswersAreWhole
  <2> SUFFICES ASSUME NEW d \in Documents, NEW k \in Keys, record[<<d, k>>].state = "completed"
               PROVE  IF d \in Sheets
                        THEN LET view == SheetIssueView(d, record[<<d, k>>].ref) IN
                             view.key = k /\ view.to # {} /\ view.linked = view.to
                        ELSE LET view == PackIssueView(d, record[<<d, k>>].ref) IN
                             view.key = k /\ view.items # {}
    BY DEF AnswersAreWhole
  <2> DEFINE n == record[<<d, k>>].ref
  <2>1. n \in IssuesUnder(d, k)
    BY DEF Agreed, KeyTells
  <2>2. n \in DOMAIN issue[d] /\ issue[d][n].key = k /\ issue[d][n].to # {}
    BY <2>1 DEF IssuesUnder, Agreed, IssuesHold
  <2>3. n \in Nat /\ issue[d][n].to \subseteq People
    <3>1. issue[d] \in Seq(Issues)
      BY DEF IssuingInv, IssuingTypeOK
    <3>2. n \in Nat /\ issue[d][n] \in Issues
      BY <2>2, <3>1
    <3> QED BY <3>2 DEF Issues
  <2>4. CASE d \in Sheets
    <3>1. {p \in People : <<d, n, p>> \in link} = issue[d][n].to
      BY <2>2, <2>3, <2>4 DEF Agreed, LinksTell
    <3> QED BY <2>2, <2>4, <3>1 DEF SheetIssueView
  <2>5. CASE d \notin Sheets
    BY <2>2, <2>5 DEF PackIssueView
  <2> QED BY <2>4, <2>5
<1>3. IssuedIsUnchanged
  <2>1. ASSUME NEW d \in Documents, draft[d] # NoDraft
        PROVE  /\ d \in Sheets => draft[d].next = Len(issue[d]) + 1
               /\ draft[d].status = "issued" <=> \E last \in Newest(d) : last.text = draft[d].text
    BY <2>1 DEF Agreed, DraftsTell, RowTells, Newest
  <2>2. \A view \in ListedSheets : view.next = view.issues + 1
    BY <2>1 DEF ListedSheets, SheetView, Documents
  <2>3. \A view \in ListedSheets \cup ListedPacks :
          view.status = "issued" <=> \E last \in view.latest : last.text = view.text
    BY <2>1 DEF ListedSheets, ListedPacks, SheetView, PackView, Documents
  <2> QED BY <2>2, <2>3 DEF IssuedIsUnchanged
<1> QED BY <1>1, <1>2, <1>3 DEF IssuesStand

\* No record is completed, and none that was becomes another.
AnswersStay ==
  \A d \in Documents, k \in Keys :
    /\ record'[<<d, k>>].state = "completed" <=> record[<<d, k>>].state = "completed"
    /\ record'[<<d, k>>].ref = record[<<d, k>>].ref

\* Draft d is written, and nothing else.
LEMMA DraftAgrees ==
  ASSUME IssuingInv, Agreed, NEW d \in Documents, NEW new \in Drafts, 0 < new.version,
         RowTells(new, issue[d], d \in Sheets),
         draft' = [draft EXCEPT ![d] = new], UNCHANGED <<issue, link, record, isReq>>
  PROVE  Agreed'
<1>1. BeginnersDiffer' /\ LinksTell' /\ IssuesHold'
  BY DEF Agreed, BeginnersDiffer, Began, Pair, LinksTell, IssuesHold
<1>3. DraftsTell'
  BY DEF Agreed, DraftsTell, IssuingInv, IssuingTypeOK
<1>4. RequestsStand'
  BY DEF Agreed, RequestsStand, Began, Owns, Pair, IssuingInv, IssuingTypeOK, VersionsTell
<1>5. \A e \in Documents, k \in Keys : KeyTells(e, k)'
  BY DEF Agreed, KeyTells, IssuesUnder
<1> QED BY <1>1, <1>3, <1>4, <1>5 DEF Agreed

\* IssueRequests and records go on, and no issue is made.
LEMMA RequestAgrees ==
  ASSUME IssuingInv, Agreed, UNCHANGED <<draft, issue, link>>, AnswersStay, BeginnersDiffer', RequestsStand'
  PROVE  Agreed'
<1>1. LinksTell' /\ IssuesHold' /\ DraftsTell'
  BY DEF Agreed, LinksTell, IssuesHold, DraftsTell
<1>2. \A e \in Documents, k \in Keys : IssuesUnder(e, k)' = IssuesUnder(e, k)
  BY DEF IssuesUnder
<1>3. \A e \in Documents, k \in Keys : KeyTells(e, k)'
  BY <1>2 DEF Agreed, KeyTells, AnswersStay
<1> QED BY <1>1, <1>3 DEF Agreed

\* Request h goes on, and no record changes.
LEMMA QuietAgrees ==
  ASSUME IssuingInv, Agreed, NEW h \in IsHandlers, NEW r \in IssueRequests,
         isReq' = [isReq EXCEPT ![h] = r], UNCHANGED <<draft, issue, link, record>>,
         r.at # "idle" => 0 < draft[r.doc].version,
         r.at = "batch" => r.to # {},
         r.at \in {"read", "batch"} => Owns(h),
         r.at \in {"answer", "fail"} => Began(h),
         r.at \notin {"idle", "begin"} => r.doc = isReq[h].doc /\ r.key = isReq[h].key
  PROVE  Agreed'
<1>1. r.at \in Steps
  BY DEF IssueRequests
<1>2. \A g \in IsHandlers : Began(g)' => Began(g) /\ Pair(g)' = Pair(g)
  BY <1>1 DEF IssuingInv, IssuingTypeOK, Began, Owns, Pair, Steps
<1>3. BeginnersDiffer'
  BY <1>2 DEF Agreed, BeginnersDiffer
<1>4. RequestsStand'
  <2> SUFFICES ASSUME NEW g \in IsHandlers
               PROVE  /\ Began(g)' => record[Pair(g)'].state # "none"
                      /\ Owns(g)' => record[Pair(g)'].state = "running"
                      /\ isReq'[g].at = "batch" => isReq'[g].to # {}
                      /\ isReq'[g].at # "idle" => 0 < draft[isReq'[g].doc].version
    BY DEF RequestsStand
  <2>1. Owns(g)' => Owns(g) /\ Began(g)'
    BY DEF IssuingInv, IssuingTypeOK, Owns, Began
  <2>2. /\ isReq'[g].at = "batch" => isReq'[g].to # {}
        /\ isReq'[g].at # "idle" => 0 < draft[isReq'[g].doc].version
    BY DEF IssuingInv, IssuingTypeOK, Agreed, RequestsStand
  <2> QED BY <1>2, <2>1, <2>2 DEF Agreed, RequestsStand
<1>5. AnswersStay
  BY DEF AnswersStay
<1> QED BY <1>3, <1>4, <1>5, RequestAgrees

\* Request h ends, and the record of its key may be marked failed.
LEMMA EndAgrees ==
  ASSUME IssuingInv, Agreed, NEW h \in IsHandlers, IsFinish(h), UNCHANGED <<draft, issue, link>>,
         record' = record \/ (Began(h) /\ record' = Idem!Failed(isReq[h].doc, isReq[h].key))
  PROVE  Agreed'
<1>1. isReq' = [isReq EXCEPT ![h] = NoIssuing]
  BY DEF IsFinish
<1>2. \A g \in IsHandlers : /\ isReq'[g].at # "idle" => g # h
                            /\ g # h => isReq'[g] = isReq[g] /\ Pair(g)' = Pair(g)
  BY <1>1, NoIssuingIs DEF IssuingInv, IssuingTypeOK, Pair
<1>3. \A g \in IsHandlers : (Began(g)' => Began(g) /\ g # h) /\ (Owns(g)' => Owns(g) /\ Began(g) /\ g # h)
  BY <1>2 DEF Began, Owns
<1>4. \A g \in IsHandlers : Began(g) => isReq[g].doc \in Documents /\ isReq[g].key \in Keys
  BY DEF Began, IssuingInv, VersionsTell
<1>5. /\ AnswersStay
      /\ \A d \in Documents, k \in Keys :
           /\ record'[<<d, k>>].state = "none" <=> record[<<d, k>>].state = "none"
           /\ <<d, k>> # Pair(h) \/ ~Began(h) => record'[<<d, k>>] = record[<<d, k>>]
  <2> DEFINE ok == Pair(h)
             new == [record[ok] EXCEPT !.state = "failed"]
  <2>1. CASE Began(h) /\ record[ok].state = "running" /\ record' # record
    <3>1. ok \in Documents \X Keys /\ record[ok] \in IdemRecords
      BY <1>4, <2>1 DEF Pair, IssuingInv, IssuingTypeOK
    <3>2. new.state = "failed" /\ new.ref = record[ok].ref
      BY <3>1 DEF IdemRecords
    <3>3. record' = [record EXCEPT ![ok] = new]
      BY <2>1, <3>1 DEF Idem!Failed, Pair, IssuingInv, IssuingTypeOK
    <3> HIDE DEF new, ok
    <3>4. \A d \in Documents, k \in Keys : <<d, k>> # ok => record'[<<d, k>>] = record[<<d, k>>]
      BY <3>3 DEF IssuingInv, IssuingTypeOK
    <3>5. record'[ok] = new
      BY <3>1, <3>3 DEF IssuingInv, IssuingTypeOK
    <3>6. record'[ok].state = "failed" /\ record[ok].state = "running" /\ record'[ok].ref = record[ok].ref
      BY <2>1, <3>2, <3>5
    <3>7. AnswersStay
      BY <3>4, <3>6 DEF AnswersStay
    <3>8. \A d \in Documents, k \in Keys :
           record'[<<d, k>>].state = "none" <=> record[<<d, k>>].state = "none"
      BY <3>4, <3>6
    <3> QED BY <2>1, <3>4, <3>7, <3>8 DEF ok
  <2>2. CASE record' = record
    BY <2>2 DEF AnswersStay
  <2> QED BY <2>1, <2>2 DEF Idem!Failed, Pair
<1>6. BeginnersDiffer'
  BY <1>2, <1>3 DEF Agreed, BeginnersDiffer
<1>7. RequestsStand'
  <2> SUFFICES ASSUME NEW g \in IsHandlers
               PROVE  /\ Began(g)' => record'[Pair(g)'].state # "none"
                      /\ Owns(g)' => record'[Pair(g)'].state = "running"
                      /\ isReq'[g].at = "batch" => isReq'[g].to # {}
                      /\ isReq'[g].at # "idle" => 0 < draft[isReq'[g].doc].version
    BY DEF RequestsStand
  <2>1. /\ isReq'[g].at = "batch" => isReq'[g].to # {}
        /\ isReq'[g].at # "idle" => 0 < draft[isReq'[g].doc].version
    BY <1>2 DEF Agreed, RequestsStand
  <2>2. ASSUME Began(g)' PROVE record'[Pair(g)'].state # "none"
    BY <1>2, <1>3, <1>4, <1>5, <2>2 DEF Agreed, RequestsStand, Pair
  <2>3. ASSUME Owns(g)' PROVE record'[Pair(g)'].state = "running"
    <3>1. Owns(g) /\ Began(g) /\ g # h /\ Pair(g)' = Pair(g)
      BY <1>2, <1>3, <2>3
    <3>2. Pair(g) # Pair(h) \/ ~Began(h)
      BY <3>1 DEF Agreed, BeginnersDiffer
    <3>3. record'[Pair(g)] = record[Pair(g)]
      BY <1>4, <1>5, <3>1, <3>2 DEF Pair
    <3> QED BY <3>1, <3>3 DEF Agreed, RequestsStand
  <2> QED BY <2>1, <2>2, <2>3
<1> QED BY <1>5, <1>6, <1>7, RequestAgrees

LEMMA BeginAgrees ==
  ASSUME IssuingInv, Agreed, NEW h \in IsHandlers, BeginIssue(h)
  PROVE  Agreed'
<1> DEFINE r == [isReq[h] EXCEPT !.at = "read"]
           body == isReq[h].corrects
           new == [Idem!NoRecord EXCEPT !.state = "running", !.body = body]
<1>1. isReq[h] \in IssueRequests /\ isReq[h].at = "begin" /\ body \in Corrections
      /\ isReq[h].doc \in Documents /\ isReq[h].key \in Keys
  BY DEF BeginIssue, IssuingInv, IssuingTypeOK, IssueRequests, VersionsTell
<1>2. /\ isReq' = [isReq EXCEPT ![h] = r] /\ record[Pair(h)] = Idem!NoRecord
      /\ record' = [record EXCEPT ![Pair(h)] = new] /\ UNCHANGED <<draft, issue, link>>
  BY DEF BeginIssue, Idem!Begin, IsGoto, Pair, IssuingInv, IssuingTypeOK
<1>3. /\ r \in IssueRequests /\ r.at = "read" /\ r.doc = isReq[h].doc /\ r.key = isReq[h].key
  BY <1>1 DEF IssueRequests, Steps
<1> HIDE DEF body
<1>4. new \in IdemRecords /\ new.state = "running" /\ new.ref = Idem!NoRecord.ref
  BY <1>1, NoRecordIs DEF IdemRecords, States
<1> HIDE DEF r, new
<1>5. AnswersStay
  BY <1>1, <1>2, <1>4, NoRecordIs DEF AnswersStay, Pair, IssuingInv, IssuingTypeOK
<1>6. \A g \in IsHandlers : /\ g # h => isReq'[g] = isReq[g]
                            /\ isReq'[g].doc = isReq[g].doc /\ isReq'[g].key = isReq[g].key
                            /\ Pair(g)' = Pair(g)
                            /\ Began(g)' => g = h \/ Began(g)
                            /\ Owns(g)' => g = h \/ Owns(g)
                            /\ isReq'[g].at # "idle" => isReq[g].at # "idle"
  BY <1>1, <1>2, <1>3 DEF IssuingInv, IssuingTypeOK, Began, Owns, Pair
<1>7. \A g \in IsHandlers : (Began(g) \/ Owns(g)) => Began(g) /\ Pair(g) # Pair(h)
  BY <1>2, NoRecordIs DEF Agreed, RequestsStand, Began, Owns
<1>8. BeginnersDiffer'
  BY <1>6, <1>7 DEF Agreed, BeginnersDiffer
<1>9. \A g \in IsHandlers : isReq[g].at # "idle" => Pair(g) \in Documents \X Keys
  BY DEF IssuingInv, VersionsTell, Pair
<1>10. record'[Pair(h)] = new /\ \A g \in IsHandlers :
         Pair(g) \in Documents \X Keys /\ Pair(g) # Pair(h) => record'[Pair(g)] = record[Pair(g)]
  BY <1>1, <1>2, <1>9 DEF IssuingInv, IssuingTypeOK
<1>11. RequestsStand'
  <2> SUFFICES ASSUME NEW g \in IsHandlers
               PROVE  /\ Began(g)' => record'[Pair(g)'].state # "none"
                      /\ Owns(g)' => record'[Pair(g)'].state = "running"
                      /\ isReq'[g].at = "batch" => isReq'[g].to # {}
                      /\ isReq'[g].at # "idle" => 0 < draft[isReq'[g].doc].version
    BY <1>2 DEF RequestsStand
  <2>1. CASE g = h
    BY <1>1, <1>2, <1>3, <1>4, <1>6, <1>10, <2>1 DEF Agreed, RequestsStand, IssuingInv, IssuingTypeOK
  <2>2. CASE g # h
    <3>1. Began(g)' => Began(g) /\ record'[Pair(g)'] = record[Pair(g)]
      BY <1>6, <1>7, <1>9, <1>10, <2>2 DEF Began
    <3>2. Owns(g)' => Owns(g) /\ record'[Pair(g)'] = record[Pair(g)]
      BY <1>6, <1>7, <1>9, <1>10, <2>2 DEF Began
    <3> QED BY <1>6, <2>2, <3>1, <3>2 DEF Agreed, RequestsStand
  <2> QED BY <2>1, <2>2
<1> QED BY <1>2, <1>5, <1>8, <1>11, RequestAgrees

LEMMA ExpireAgrees ==
  ASSUME IssuingInv, Agreed, NEW d \in Documents, NEW k \in Keys, ExpireKey(d, k)
  PROVE  Agreed'
<1> DEFINE new == [record[<<d, k>>] EXCEPT !.expired = TRUE]
<1>1. record[<<d, k>>] \in IdemRecords
  BY DEF IssuingInv, IssuingTypeOK
<1>2. new.state = record[<<d, k>>].state /\ new.ref = record[<<d, k>>].ref
  BY <1>1 DEF IdemRecords
<1>3. record' = [record EXCEPT ![<<d, k>>] = new] /\ UNCHANGED <<draft, issue, link, isReq>>
  BY DEF ExpireKey, Idem!Expire, IssuingInv, IssuingTypeOK
<1> HIDE DEF new
<1>4. \A e \in Documents, c \in Keys : /\ record'[<<e, c>>].state = record[<<e, c>>].state
                                       /\ record'[<<e, c>>].ref = record[<<e, c>>].ref
  BY <1>2, <1>3 DEF IssuingInv, IssuingTypeOK
<1>5. AnswersStay
  BY <1>4 DEF AnswersStay
<1>6. BeginnersDiffer'
  BY <1>3 DEF Agreed, BeginnersDiffer, Began, Pair
<1>7. RequestsStand'
  <2>1. \A g \in IsHandlers : Began(g) \/ Owns(g) => record'[Pair(g)].state = record[Pair(g)].state
    BY <1>4 DEF Began, Owns, Pair, IssuingInv, VersionsTell
  <2> QED BY <1>3, <2>1 DEF Agreed, RequestsStand, Began, Owns, Pair
<1> QED BY <1>3, <1>5, <1>6, <1>7, RequestAgrees

\* One more entry, and what the entries under a key are then.
LEMMA OneMoreEntry ==
  ASSUME NEW s \in Seq(Issues), NEW e \in Issues
  PROVE  /\ Append(s, e) \in Seq(Issues) /\ Append(s, e) # << >>
         /\ DOMAIN Append(s, e) = DOMAIN s \cup {Len(s) + 1}
         /\ Len(s) + 1 \notin DOMAIN s /\ Len(s) + 1 \in Nat /\ Len(Append(s, e)) = Len(s) + 1
         /\ Append(s, e)[Len(s) + 1] = e
         /\ \A n \in DOMAIN s : Append(s, e)[n] = s[n] /\ n \in Nat
OBVIOUS

LEMMA CommitAgrees ==
  ASSUME IssuingInv, Agreed, NEW h \in IsHandlers, CommitSheetIssue(h) \/ CommitPackIssue(h)
  PROVE  Agreed'
<1> DEFINE r == isReq[h]
           doc == r.doc
           e == Entry(r)
           m == r.number
           s == issue[doc]
           d2 == IssuedDraft(r)
           new == [record[Pair(h)] EXCEPT !.state = "completed", !.ref = m]
<1>1. /\ r \in IssueRequests /\ r.at = "batch" /\ doc \in Documents /\ r.key \in Keys
      /\ draft[doc] \in Drafts /\ e \in Issues /\ r.text = draft[doc].text
      /\ issue' = [issue EXCEPT ![doc] = Append(s, e)]
      /\ draft' = [draft EXCEPT ![doc] = d2]
      /\ isReq' = [isReq EXCEPT ![h] = [r EXCEPT !.at = "answer"]]
      /\ NothingUnder(doc, r.key) /\ Pair(h) = <<doc, r.key>>
  BY CommitIs DEF Pair
<1>2. /\ e.to = r.to /\ e.key = r.key /\ e.text = r.text /\ e.to \subseteq People
  BY <1>1 DEF Entry, Issues
<1>3. Owns(h) /\ Began(h) /\ record[Pair(h)].state = "running" /\ r.to # {} /\ 0 < draft[doc].version
  BY <1>1 DEF Owns, Began, Agreed, RequestsStand
<1>4. m = Len(s) + 1
  BY DEF CommitSheetIssue, CommitPackIssue, BatchHolds
<1>5. Pair(h) \in Documents \X Keys /\ record[Pair(h)] \in IdemRecords
  BY <1>1 DEF IssuingInv, IssuingTypeOK
<1>6. s \in Seq(Issues)
  BY <1>1 DEF IssuingInv, IssuingTypeOK
<1>7. m \in Nat /\ m \notin DOMAIN s
  BY <1>1, <1>4, <1>6, OneMoreEntry
<1>8. new \in IdemRecords /\ new.state = "completed" /\ new.ref = m
  BY <1>5, <1>7 DEF IdemRecords, States
<1>9. record' = [record EXCEPT ![Pair(h)] = new]
  <2>1. record' = Idem!Completed(doc, r.key, m)
    BY CommitIs
  <2> QED BY <1>1, <1>3, <1>5, <2>1 DEF Idem!Completed, IssuingInv, IssuingTypeOK
<1>10. /\ d2 \in Drafts /\ d2.status = "issued" /\ d2.next = draft[doc].next + 1
       /\ d2.text = draft[doc].text /\ 0 < d2.version
  <2>1. draft[doc].version < d2.version /\ d2 \in Drafts
    BY <1>1, IssuedDraftIs
  <2>2. 0 < d2.version
    BY <1>1, <1>3, <2>1 DEF Drafts
  <2> QED BY <1>1, <2>1, <2>2, IssuedDraftIs
<1>11. link' = link \cup (IF doc \in Sheets THEN RecipientLinks(r) ELSE {})
  BY IssuingAssumption DEF CommitSheetIssue, CommitPackIssue
<1> HIDE DEF new, d2, e
<1>12. record'[Pair(h)] = new /\ \A d \in Documents, k \in Keys :
         <<d, k>> # Pair(h) => record'[<<d, k>>] = record[<<d, k>>]
  BY <1>5, <1>9 DEF IssuingInv, IssuingTypeOK
<1>13. issue'[doc] = Append(s, e) /\ \A d \in Documents : d # doc => issue'[d] = issue[d]
  BY <1>1 DEF IssuingInv, IssuingTypeOK
<1>14. draft'[doc] = d2 /\ \A d \in Documents : d # doc => draft'[d] = draft[d]
  BY <1>1 DEF IssuingInv, IssuingTypeOK
<1>15. /\ DOMAIN issue'[doc] = DOMAIN s \cup {m} /\ issue'[doc][m] = e /\ issue'[doc] # << >>
       /\ Len(issue'[doc]) = m /\ \A n \in DOMAIN s : issue'[doc][n] = s[n]
  BY <1>1, <1>4, <1>6, <1>13, OneMoreEntry
<1>16. \A g \in IsHandlers : /\ g # h => isReq'[g] = isReq[g]
                             /\ isReq'[g].doc = isReq[g].doc /\ Pair(g)' = Pair(g)
                             /\ Began(g)' => Began(g)
                             /\ Owns(g)' => Owns(g) /\ g # h
                             /\ isReq'[g].at = "batch" => g # h
                             /\ isReq'[g].at # "idle" => isReq[g].at # "idle"
  BY <1>1 DEF IssuingInv, IssuingTypeOK, IssueRequests, Began, Owns, Pair
<1>17. BeginnersDiffer'
  BY <1>16 DEF Agreed, BeginnersDiffer
<1>18. \A g \in IsHandlers : isReq[g].at # "idle" => isReq[g].doc \in Documents /\ isReq[g].key \in Keys
  BY DEF IssuingInv, VersionsTell
<1>19. RequestsStand'
  <2> SUFFICES ASSUME NEW g \in IsHandlers
               PROVE  /\ Began(g)' => record'[Pair(g)'].state # "none"
                      /\ Owns(g)' => record'[Pair(g)'].state = "running"
                      /\ isReq'[g].at = "batch" => isReq'[g].to # {}
                      /\ isReq'[g].at # "idle" => 0 < draft'[isReq'[g].doc].version
    BY DEF RequestsStand
  <2>1. isReq'[g].at = "batch" => isReq'[g].to # {}
    BY <1>16 DEF Agreed, RequestsStand
  <2>2. isReq'[g].at # "idle" => 0 < draft'[isReq'[g].doc].version
    BY <1>10, <1>14, <1>16, <1>18 DEF Agreed, RequestsStand
  <2>3. ASSUME Began(g)' PROVE record'[Pair(g)'].state # "none"
    <3>1. Began(g) /\ Pair(g)' = Pair(g) /\ isReq[g].doc \in Documents /\ isReq[g].key \in Keys
      BY <1>16, <1>18, <2>3 DEF Began
    <3>2. CASE Pair(g) = Pair(h)
      BY <1>8, <1>12, <3>1, <3>2
    <3>3. CASE Pair(g) # Pair(h)
      BY <1>12, <3>1, <3>3 DEF Agreed, RequestsStand, Pair
    <3> QED BY <3>2, <3>3
  <2>4. ASSUME Owns(g)' PROVE record'[Pair(g)'].state = "running"
    <3>1. Owns(g) /\ g # h /\ Began(g) /\ Pair(g)' = Pair(g)
          /\ isReq[g].doc \in Documents /\ isReq[g].key \in Keys
      BY <1>16, <1>18, <2>4 DEF Began, Owns
    <3>2. Pair(g) # Pair(h)
      BY <1>3, <3>1 DEF Agreed, BeginnersDiffer
    <3> QED BY <1>12, <3>1, <3>2 DEF Agreed, RequestsStand, Pair
  <2> QED BY <2>1, <2>2, <2>3, <2>4
<1>20. LinksTell'
  <2> SUFFICES ASSUME NEW d \in Sheets, NEW n \in Nat, NEW p \in People
               PROVE  <<d, n, p>> \in link' <=> n \in DOMAIN issue'[d] /\ p \in issue'[d][n].to
    BY DEF LinksTell
  <2>1. d \in Documents
    BY DEF Documents
  <2>2. <<d, n, p>> \in link <=> n \in DOMAIN issue[d] /\ p \in issue[d][n].to
    BY DEF Agreed, LinksTell
  <2>3. CASE d # doc
    <3>1. <<d, n, p>> \in link' <=> <<d, n, p>> \in link
      BY <1>11, <2>3 DEF RecipientLinks
    <3> QED BY <1>13, <2>1, <2>2, <2>3, <3>1
  <2>4. CASE d = doc
    <3>1. <<d, n, p>> \in link' <=> <<d, n, p>> \in link \/ (n = m /\ p \in r.to)
      BY <1>11, <2>4 DEF RecipientLinks
    <3> QED BY <1>2, <1>7, <1>15, <2>2, <2>4, <3>1
  <2> QED BY <2>3, <2>4
<1>21. IssuesHold'
  BY <1>1, <1>2, <1>3, <1>13, <1>15 DEF Agreed, IssuesHold
<1>22. DraftsTell'
  <2> SUFFICES ASSUME NEW d \in Documents PROVE RowTells(draft'[d], issue'[d], d \in Sheets)
    BY DEF DraftsTell
  <2>1. RowTells(draft[d], issue[d], d \in Sheets)
    BY DEF Agreed, DraftsTell
  <2>2. CASE d # doc
    BY <1>13, <1>14, <2>1, <2>2
  <2>3. CASE d = doc
    <3>1. d \in Sheets => d2.next = m + 1
      <4>1. draft[doc].version # 0
        BY <1>1, <1>3 DEF IssuingInv, IssuingTypeOK, Drafts
      <4>2. d \in Sheets => draft[doc].next = Len(s) + 1
        BY <2>1, <2>3, <4>1 DEF RowTells
      <4> QED BY <1>4, <1>10, <4>2
    <3>2. \A n \in DOMAIN s : s[n].text <= d2.text
      BY <1>3, <1>10, <2>1, <2>3 DEF RowTells
    <3>3. e.text = d2.text /\ d2.text \in Nat
      BY <1>1, <1>2, <1>10 DEF Drafts
    <3>4. \A n \in DOMAIN issue'[doc] : issue'[doc][n].text <= d2.text
      BY <1>15, <3>2, <3>3
    <3>5. d2.version # 0
      BY <1>10 DEF Drafts
    <3> QED BY <1>10, <1>14, <1>15, <2>3, <3>1, <3>3, <3>4, <3>5 DEF RowTells
  <2> QED BY <2>2, <2>3
<1>23. ASSUME NEW d \in Documents, NEW k \in Keys
       PROVE  KeyTells(d, k)'
  <2>1. KeyTells(d, k)
    BY DEF Agreed
  <2>2. CASE d # doc
    <3>1. IssuesUnder(d, k)' = IssuesUnder(d, k)
      BY <1>13, <2>2 DEF IssuesUnder
    <3>2. record'[<<d, k>>] = record[<<d, k>>]
      BY <1>1, <1>12, <2>2
    <3> QED BY <2>1, <3>1, <3>2 DEF KeyTells
  <2>3. CASE d = doc /\ k # r.key
    <3>1. IssuesUnder(d, k)' = IssuesUnder(d, k)
      BY <1>2, <1>15, <2>3 DEF IssuesUnder
    <3>2. record'[<<d, k>>] = record[<<d, k>>]
      BY <1>1, <1>12, <2>3
    <3> QED BY <2>1, <3>1, <3>2 DEF KeyTells
  <2>4. CASE d = doc /\ k = r.key
    <3>1. IssuesUnder(d, k)' = {m}
      BY <1>1, <1>2, <1>15, <2>4 DEF IssuesUnder, NothingUnder
    <3>2. record'[<<d, k>>] = new
      BY <1>1, <1>12, <2>4
    <3> QED BY <1>8, <3>1, <3>2 DEF KeyTells
  <2> QED BY <2>2, <2>3, <2>4
<1> QED BY <1>17, <1>19, <1>20, <1>21, <1>22, <1>23 DEF Agreed

LEMMA DraftsAgree ==
  ASSUME IssuingInv, Agreed, NEW d \in Documents,
         \/ \E to \in SUBSET People : CreateSheet(d, to) \/ CreatePack(d, to)
         \/ EditSheet(d)
  PROVE  Agreed'
<1>1. draft[d] \in Drafts /\ RowTells(draft[d], issue[d], d \in Sheets) /\ issue[d] \in Seq(Issues)
  BY DEF IssuingInv, IssuingTypeOK, Agreed, DraftsTell
<1>2. ASSUME NEW to \in SUBSET People, CreateSheet(d, to) \/ CreatePack(d, to)
      PROVE  Agreed'
  <2>1. draft' = [draft EXCEPT ![d] = NewDraft(to)] /\ UNCHANGED <<issue, link, record, isReq>>
    BY <1>2 DEF CreateSheet, CreatePack
  <2>2. issue[d] = << >>
    BY <1>1, <1>2 DEF CreateSheet, CreatePack, MayAdd, NoDraft, RowTells
  <2>3. NewDraft(to) \in Drafts /\ 0 < NewDraft(to).version
    BY DEF NewDraft, FirstText, Drafts
  <2>4. RowTells(NewDraft(to), << >>, d \in Sheets)
    BY DEF RowTells, NewDraft
  <2> QED BY <2>1, <2>2, <2>3, <2>4, DraftAgrees
<1>3. CASE EditSheet(d)
  <2> DEFINE old == draft[d]
             text == old.text + 1
             version == old.version + 1
             new == [old EXCEPT !.text = text, !.version = version, !.status = "draft"]
  <2>1. /\ text \in Nat /\ version \in Nat /\ old.version # 0 /\ 0 < version
        /\ old.text \in Nat /\ old.text < text
    BY <1>1, <1>3 DEF Drafts, EditSheet, RowTells
  <2>2. draft' = [draft EXCEPT ![d] = new] /\ UNCHANGED <<issue, link, record, isReq>>
    BY <1>3 DEF EditSheet, EditedDraft
  <2> HIDE DEF text, version
  <2>3. /\ new \in Drafts /\ new.version = version /\ new.text = text /\ new.next = old.next
        /\ new.status = "draft"
    BY <1>1, <2>1 DEF Drafts
  <2> HIDE DEF new, old
  <2>4. \A n \in DOMAIN issue[d] : issue[d][n].text \in Nat /\ issue[d][n].text < text
    <3> SUFFICES ASSUME NEW n \in DOMAIN issue[d] PROVE issue[d][n].text \in Nat /\ issue[d][n].text < text
      OBVIOUS
    <3>1. issue[d][n] \in Issues
      BY <1>1
    <3>2. issue[d][n].text <= old.text
      BY <1>1, <2>1 DEF RowTells, old
    <3> QED BY <2>1, <3>1, <3>2 DEF Issues
  <2>5. d \in Sheets => old.next = Len(issue[d]) + 1
    BY <1>1, <2>1 DEF RowTells, old
  <2>6. issue[d] # << >> => Len(issue[d]) \in DOMAIN issue[d]
    BY <1>1
  <2>7. RowTells(new, issue[d], d \in Sheets)
    <3>1. version # 0
      BY <2>1
    <3>2. \A n \in DOMAIN issue[d] : issue[d][n].text <= text /\ issue[d][n].text # text
      BY <2>1, <2>4
    <3> QED BY <2>3, <2>5, <2>6, <3>1, <3>2 DEF RowTells
  <2>8. 0 < new.version
    BY <2>1, <2>3
  <2> QED BY <2>2, <2>3, <2>7, <2>8, DraftAgrees
<1> QED BY <1>2, <1>3

LEMMA RequestsAgree ==
  ASSUME IssuingInv, Agreed, NEW h \in IsHandlers,
         \/ \E d \in Documents, k \in Keys, c \in Corrections :
              StartSheetIssue(h, d, k, c) \/ StartPackIssue(h, d, k, c)
         \/ ReadRecipients(h) \/ ReadItems(h) \/ AbortIssue(h) \/ LoseAnswer(h)
  PROVE  Agreed'
<1>0. isReq[h] \in IssueRequests
  BY DEF IssuingInv, IssuingTypeOK
<1>1. ASSUME NEW d \in Documents, NEW k \in Keys, NEW c \in Corrections,
             StartSheetIssue(h, d, k, c) \/ StartPackIssue(h, d, k, c)
      PROVE  Agreed'
  <2> DEFINE r == Expected(d, k, c)
  <2>1. draft[d] \in Drafts /\ RowTells(draft[d], issue[d], d \in Sheets)
    BY DEF IssuingInv, IssuingTypeOK, Agreed, DraftsTell
  <2>2. r \in IssueRequests /\ r.at = "begin" /\ r.doc = d
    BY <2>1, NoIssuingIs DEF Expected, IssueRequests, Steps, Drafts
  <2>3. isReq' = [isReq EXCEPT ![h] = r] /\ UNCHANGED <<draft, issue, link, record>>
    BY <1>1 DEF StartSheetIssue, StartPackIssue
  <2> HIDE DEF r
  <2>4. draft[d] # NoDraft
    BY <1>1 DEF StartSheetIssue, StartPackIssue
  <2>5. 0 < draft[d].version
    BY <2>1, <2>4 DEF RowTells, Drafts
  <2> QED BY <2>2, <2>3, <2>5, QuietAgrees
<1>2. CASE ReadRecipients(h) \/ ReadItems(h)
  <2> DEFINE doc == isReq[h].doc
  <2>1. Owns(h) /\ Began(h) /\ doc \in Documents /\ 0 < draft[doc].version
    BY <1>2 DEF ReadRecipients, ReadItems, Owns, Began, IssuingInv, VersionsTell, Agreed, RequestsStand
  <2>2. draft[doc].to \in SUBSET People /\ draft[doc].to # {} /\ Len(issue[doc]) + 1 \in Nat
    BY <1>2, <2>1 DEF ReadRecipients, ReadItems, DraftPeople, IssuingInv, IssuingTypeOK, Drafts
  <2>3. PICK r \in IssueRequests : /\ isReq' = [isReq EXCEPT ![h] = r]
                              /\ r.at = "batch" /\ r.doc = doc /\ r.key = isReq[h].key
                              /\ r.to = draft[doc].to
    <3>1. CASE ReadRecipients(h)
      <4> DEFINE r == [isReq[h] EXCEPT !.at = "batch", !.to = draft[doc].to]
      <4>1. isReq' = [isReq EXCEPT ![h] = r]
        BY <3>1 DEF ReadRecipients, DraftPeople, IssuingInv, IssuingTypeOK
      <4>2. r \in IssueRequests /\ r.at = "batch" /\ r.doc = doc /\ r.key = isReq[h].key
            /\ r.to = draft[doc].to
        BY <1>0, <2>2 DEF IssueRequests, Steps
      <4> QED BY <4>1, <4>2
    <3>2. CASE ReadItems(h)
      <4> DEFINE n == Len(issue[doc]) + 1
                 r == [isReq[h] EXCEPT !.at = "batch", !.to = draft[doc].to, !.number = n]
      <4>1. isReq' = [isReq EXCEPT ![h] = r]
        BY <3>2 DEF ReadItems, IssuingInv, IssuingTypeOK
      <4>2. n \in Nat
        BY <2>2
      <4> HIDE DEF n
      <4>3. r \in IssueRequests /\ r.at = "batch" /\ r.doc = doc /\ r.key = isReq[h].key
            /\ r.to = draft[doc].to
        BY <1>0, <2>2, <4>2 DEF IssueRequests, Steps
      <4> QED BY <4>1, <4>3
    <3> QED BY <1>2, <3>1, <3>2
  <2>4. UNCHANGED <<draft, issue, link, record>>
    BY <1>2 DEF ReadRecipients, ReadItems
  <2> QED BY <2>1, <2>2, <2>3, <2>4, QuietAgrees
<1>3. CASE AbortIssue(h) \/ LoseAnswer(h)
  <2> DEFINE r == [isReq[h] EXCEPT !.at = "fail"]
  <2>1. Began(h) /\ 0 < draft[isReq[h].doc].version
    BY <1>3 DEF AbortIssue, LoseAnswer, Began, Agreed, RequestsStand
  <2>2. isReq' = [isReq EXCEPT ![h] = r] /\ UNCHANGED <<draft, issue, link, record>>
    BY <1>3 DEF AbortIssue, LoseAnswer, IsGoto, IssuingInv, IssuingTypeOK
  <2>3. r \in IssueRequests /\ r.at = "fail" /\ r.doc = isReq[h].doc /\ r.key = isReq[h].key
    BY <1>0 DEF IssueRequests, Steps
  <2> HIDE DEF r
  <2> QED BY <2>1, <2>2, <2>3, QuietAgrees
<1> QED BY <1>1, <1>2, <1>3

LEMMA EndsAgree ==
  ASSUME IssuingInv, Agreed, NEW h \in IsHandlers,
         AnswerKnownKey(h) \/ RejectRecipients(h) \/ RejectItems(h) \/ MarkFailed(h) \/ IsDrop(h)
  PROVE  Agreed'
BY EndAgrees DEF AnswerKnownKey, RejectRecipients, RejectItems, MarkFailed, IsDrop, Began

LEMMA AgreedNext == IssuingInv /\ Agreed /\ [IssuingNext]_issuingVars => Agreed'
<1> SUFFICES ASSUME IssuingInv, Agreed, [IssuingNext]_issuingVars PROVE Agreed'
  OBVIOUS
<1>1. Sheets \subseteq Documents /\ Packs \subseteq Documents
  BY DEF Documents
<1>2. CASE UNCHANGED issuingVars
  BY <1>2 DEF issuingVars, Agreed, BeginnersDiffer, Began, RequestsStand, Owns, Pair, LinksTell,
              IssuesHold, DraftsTell, KeyTells, IssuesUnder
<1>3. CASE \/ \E to \in SUBSET People : \/ \E d \in Sheets : CreateSheet(d, to)
                                        \/ \E d \in Packs : CreatePack(d, to)
           \/ \E d \in Sheets : EditSheet(d)
  BY <1>1, <1>3, DraftsAgree
<1>4. ASSUME NEW h \in IsHandlers,
             \/ \E k \in Keys, c \in Corrections :
                  \/ \E d \in Sheets : StartSheetIssue(h, d, k, c)
                  \/ \E d \in Packs : StartPackIssue(h, d, k, c)
             \/ ReadRecipients(h) \/ ReadItems(h) \/ AbortIssue(h) \/ LoseAnswer(h)
      PROVE  Agreed'
  BY <1>1, <1>4, RequestsAgree
<1>5. ASSUME NEW h \in IsHandlers,
             \/ AnswerKnownKey(h) \/ RejectRecipients(h) \/ RejectItems(h) \/ MarkFailed(h)
             \/ IsDrop(h) \/ BeginIssue(h) \/ CommitSheetIssue(h) \/ CommitPackIssue(h)
      PROVE  Agreed'
  BY <1>5, EndsAgree, BeginAgrees, CommitAgrees
<1>6. CASE \E d \in Documents, k \in Keys : ExpireKey(d, k)
  BY <1>6, ExpireAgrees
<1> QED BY <1>2, <1>3, <1>4, <1>5, <1>6 DEF IssuingNext

\* A key is completed exactly when one issue was made under it, which it names
\* and for which every person on the sheet has a link; and a draft listed as
\* issued says what its last issue says, whatever requests overlap, die or
\* lose their answers (operations.ts:1429, :1500, :1609, :1753).
THEOREM KeysAndDraftsStand == IssuingSpec => []IssuesStand
<1>1. IssuingInv /\ Agreed /\ [IssuingNext]_issuingVars => IssuingInv' /\ Agreed'
  BY IssuingNextInv, AgreedNext
<1> QED BY <1>1, IssuingInitInv, AgreedInit, AgreeingMeans, PTL DEF IssuingSpec

----------------------------------------------------------------------------
(* The refinement.                                                         *)

Says == [d \in Documents |-> [text |-> draft[d].text, to |-> draft[d].to]]
IssueKept(x) == [text |-> [text |-> x.text, to |-> x.to], key |-> x.key]
Kept(s) == [n \in DOMAIN s |-> IssueKept(s[n])]
Issued == [d \in Documents |-> Kept(issue[d])]

LEMMA KeptAppends ==
  ASSUME NEW s \in Seq(Issues), NEW e \in Issues
  PROVE  Kept(Append(s, e)) = Append(Kept(s), IssueKept(e))
<1> DEFINE m == Len(s)
           T == {IssueKept(x) : x \in Issues}
           t == Kept(s)
           kept == Kept(Append(s, e))
           appended == Append(t, IssueKept(e))
<1>1. DOMAIN s = 1 .. m /\ m \in Nat /\ \A n \in 1 .. m : s[n] \in Issues
  OBVIOUS
<1>2. t \in Seq(T) /\ Len(t) = m /\ \A n \in 1 .. m : t[n] = IssueKept(s[n])
  BY <1>1 DEF Kept
<1>3. IssueKept(e) \in T
  OBVIOUS
<1>4. /\ DOMAIN Append(s, e) = 1 .. m + 1 /\ Append(s, e)[m + 1] = e
      /\ \A n \in 1 .. m : Append(s, e)[n] = s[n]
  BY <1>1
<1>5. /\ kept = [n \in 1 .. m + 1 |-> IssueKept(Append(s, e)[n])]
      /\ kept[m + 1] = IssueKept(e) /\ \A n \in 1 .. m : kept[n] = IssueKept(s[n])
  BY <1>1, <1>4 DEF Kept
<1> HIDE DEF T, t
<1>6. /\ appended \in Seq(T) /\ Len(appended) = m + 1
      /\ appended[m + 1] = IssueKept(e) /\ \A n \in 1 .. m : appended[n] = t[n]
  BY <1>1, <1>2, <1>3, AppendProperties
<1> HIDE DEF appended, m, kept
<1>7. appended = [n \in 1 .. m + 1 |-> appended[n]]
  BY <1>6
<1>8. \A n \in 1 .. m + 1 : n = m + 1 \/ n \in 1 .. m
  BY <1>1
<1>9. \A n \in 1 .. m + 1 : kept[n] = appended[n]
  BY <1>2, <1>5, <1>6, <1>8
<1>10. kept = [n \in 1 .. m + 1 |-> kept[n]]
  BY <1>5
<1>11. kept = appended
  BY <1>7, <1>9, <1>10
<1> QED BY <1>11 DEF kept, appended, t

LEMMA FrozenInit == IssuingInit => Frozen!Init
<1> SUFFICES ASSUME IssuingInit PROVE Frozen!Init
  OBVIOUS
<1>1. Says \in [Documents -> [text : Nat, to : SUBSET People]]
  BY DEF IssuingInit, Says, NoDraft
<1>2. Kept(<< >>) = << >>
  BY DEF Kept
<1>3. Issued = [d \in Documents |-> << >>]
  BY <1>2 DEF IssuingInit, Issued
<1> QED BY <1>1, <1>3 DEF Frozen!Init, Says, Issued, Kept, IssueKept

\* A draft is written.
LEMMA WriteStep ==
  ASSUME IssuingInv, NEW d \in Documents, NEW new \in Drafts,
         draft' = [draft EXCEPT ![d] = new], issue' = issue
  PROVE  Frozen!Write(d)
<1>1. Says'[d] = [text |-> new.text, to |-> new.to]
  BY DEF Says, IssuingInv, IssuingTypeOK
<1>2. Says'[d] \in [text : Nat, to : SUBSET People]
  BY <1>1 DEF Drafts
<1>3. Says' = [Says EXCEPT ![d] = Says'[d]]
  BY DEF Says, IssuingInv, IssuingTypeOK
<1>4. Issued' = Issued
  BY DEF Issued
<1> QED BY <1>2, <1>3, <1>4 DEF Frozen!Write, Says, Issued, Kept, IssueKept

\* An issue freezes what the draft says.
LEMMA FreezeStep ==
  ASSUME IssuingInv, NEW h \in IsHandlers, CommitSheetIssue(h) \/ CommitPackIssue(h),
         NEW d \in Documents, NEW k \in Keys, d = isReq[h].doc, k = isReq[h].key
  PROVE  Frozen!Freeze(d, k)
<1> DEFINE r == isReq[h]
           e == Entry(r)
           d2 == IssuedDraft(r)
<1>1. /\ d \in Documents /\ r \in IssueRequests /\ draft[d] \in Drafts /\ e \in Issues
      /\ issue' = [issue EXCEPT ![d] = Append(issue[d], e)]
      /\ draft' = [draft EXCEPT ![d] = d2]
      /\ IssueKept(e) = [text |-> [text |-> draft[d].text, to |-> draft[d].to], key |-> k]
      /\ NothingUnder(d, k)
  BY CommitIs DEF Entry, IssueKept
<1>2. d2.text = draft[d].text /\ d2.to = draft[d].to
  BY <1>1, IssuedDraftIs
<1> HIDE DEF e, d2
<1>3. Says' = Says
  BY <1>1, <1>2 DEF Says, IssuingInv, IssuingTypeOK
<1>4. Says[d] = [text |-> draft[d].text, to |-> draft[d].to] /\ Issued[d] = Kept(issue[d])
  BY <1>1 DEF Says, Issued
<1>5. Kept(Append(issue[d], e)) = Append(Kept(issue[d]), IssueKept(e))
  BY <1>1, KeptAppends DEF IssuingInv, IssuingTypeOK
<1>6. Issued' = [Issued EXCEPT ![d] = Append(Issued[d], [text |-> Says[d], key |-> k])]
  <2>1. Issued' = [Issued EXCEPT ![d] = Kept(Append(issue[d], e))]
    BY <1>1 DEF Issued, IssuingInv, IssuingTypeOK
  <2> QED BY <1>1, <1>4, <1>5, <2>1
<1>7. \A n \in DOMAIN Issued[d] : Issued[d][n].key # k
  BY <1>1, <1>4 DEF NothingUnder, Kept, IssueKept
<1> QED BY <1>3, <1>6, <1>7 DEF Frozen!Freeze, Says, Issued, Kept, IssueKept

LEMMA FrozenStep == IssuingInv /\ [IssuingNext]_issuingVars => [Frozen!Next]_<<Says, Issued>>
<1> SUFFICES ASSUME IssuingInv, [IssuingNext]_issuingVars
             PROVE  Frozen!Next \/ UNCHANGED <<Says, Issued>>
  OBVIOUS
<1>1. Sheets \subseteq Documents /\ Packs \subseteq Documents
  BY DEF Documents
<1>2. CASE UNCHANGED <<draft, issue>>
  BY <1>2 DEF Says, Issued
<1>3. ASSUME NEW to \in SUBSET People, NEW d \in Documents, CreateSheet(d, to) \/ CreatePack(d, to)
      PROVE  Frozen!Next
  <2>1. NewDraft(to) \in Drafts /\ draft' = [draft EXCEPT ![d] = NewDraft(to)] /\ issue' = issue
    BY <1>3 DEF CreateSheet, CreatePack, NewDraft, FirstText, Drafts
  <2> QED BY <2>1, WriteStep DEF Frozen!Next
<1>4. ASSUME NEW d \in Sheets, EditSheet(d)
      PROVE  Frozen!Next
  <2>1. d \in Documents /\ draft[d] \in Drafts
    BY <1>1 DEF IssuingInv, IssuingTypeOK
  <2> DEFINE text == draft[d].text + 1
             version == draft[d].version + 1
             new == [draft[d] EXCEPT !.text = text, !.version = version, !.status = "draft"]
  <2>2. text \in Nat /\ version \in Nat
    BY <2>1 DEF Drafts
  <2>3. draft' = [draft EXCEPT ![d] = new] /\ issue' = issue
    BY <1>4 DEF EditSheet, EditedDraft
  <2> HIDE DEF text, version
  <2>4. new \in Drafts
    BY <2>1, <2>2 DEF Drafts
  <2> HIDE DEF new
  <2> QED BY <2>1, <2>3, <2>4, WriteStep DEF Frozen!Next
<1>5. ASSUME NEW h \in IsHandlers, CommitSheetIssue(h) \/ CommitPackIssue(h)
      PROVE  Frozen!Next
  <2>1. PICK d \in Documents, k \in Keys : d = isReq[h].doc /\ k = isReq[h].key
    BY <1>5, CommitIs
  <2>2. Frozen!Freeze(d, k)
    BY <1>5, <2>1, FreezeStep
  <2> QED BY <2>1, <2>2 DEF Frozen!Next
<1>6. \/ UNCHANGED <<draft, issue>>
      \/ \E to \in SUBSET People : \/ \E d \in Sheets : CreateSheet(d, to)
                                   \/ \E d \in Packs : CreatePack(d, to)
      \/ \E d \in Sheets : EditSheet(d)
      \/ \E h \in IsHandlers : CommitSheetIssue(h) \/ CommitPackIssue(h)
  BY DEF IssuingNext, issuingVars, StartSheetIssue, StartPackIssue, BeginIssue, AnswerKnownKey,
         ReadRecipients, RejectRecipients, ReadItems, RejectItems, AbortIssue, LoseAnswer,
         MarkFailed, IsDrop, ExpireKey
<1> QED BY <1>1, <1>2, <1>3, <1>4, <1>5, <1>6

\* Every issue freezes its draft as it is when the issue appears, for ever, and
\* no key makes two of them (operations.ts:1585, migrations/0006:294).
THEOREM IssuingRefines == IssuingSpec => ImplementsFrozenIssues
<1>1. [Frozen!Next]_<<Says, Issued>> => [Frozen!Next]_(Frozen!vars)
  BY DEF Frozen!vars, Says, Issued, Kept, IssueKept
<1> QED
  BY <1>1, FrozenInit, FrozenStep, VersionsAndKeysTell, PTL
     DEF IssuingSpec, ImplementsFrozenIssues, Frozen!Spec

=============================================================================
