----------------------------- MODULE Schedules -----------------------------
(***************************************************************************)
(* Schedules, their immutable revisions, the conflicts found in them and   *)
(* the shoot days generated from them:                                     *)
(* apps/web/src/server/routes/operations.ts over D1.                       *)
(*                                                                         *)
(* A request reads, then writes one D1 batch: what it read is kept in      *)
(* `srReq` and may be outdated when the batch runs.  A revision is known   *)
(* by its schedule and number, a shoot day by its revision and day count,  *)
(* as the unique indexes of migrations/0004 have it.                       *)
(***************************************************************************)
EXTENDS Integers, FiniteSets, Sequences, Functions

CONSTANTS
  Schedules,     \* schedules of one project
  Plans,         \* what the items of a revision say
  Clashes,       \* conflicts the assignments of a request may contain
  DayCounts,     \* the day counts of the day breaks
  BreaksOf,      \* BreaksOf[p]: the day breaks among the items of plan p
  SrHandlers,    \* concurrent requests
  MaxRevisions,  \* bound: revisions of all schedules
  MaxDays,       \* bound: shoot days
  MaxPatches     \* bound: version of a shoot day

ASSUME SchedulesAssumption ==
  /\ BreaksOf \in [Plans -> SUBSET DayCounts]
  /\ MaxRevisions \in Nat
  /\ {MaxDays, MaxPatches} \subseteq Nat
  /\ 0 \notin DayCounts  \* a conflict on no day has day 0

VARIABLES
  schedule,     \* schedule[s]: the schedules row
  revision,     \* revision[s]: the schedule_revisions rows by revision_number
  conflict,     \* conflict[s][n][c]: the resource_conflicts row
  resolutions,  \* conflict_resolutions rows, with how many times each is there
  shootDay,     \* shootDay[s][n][d]: the shoot_days row
  readiness,    \* projects.readiness_state: is it 'ready'?
  srReq         \* srReq[h]: what request h has read

schedulesVars == <<schedule, revision, conflict, resolutions, shootDay, readiness, srReq>>

Numbers == 1..MaxRevisions
ConflictIds == Schedules \X Numbers \X Clashes

NoSchedule == [status |-> "none", default |-> FALSE, current |-> 0, approved |-> 0]
NoConflict == [status |-> "none", version |-> 0, day |-> 0]
NoDay == [status |-> "none", title |-> 0, version |-> 0]
NoRequest == [op |-> "idle", row |-> << >>, number |-> 0,
              plan |-> {}, clashes |-> {}, version |-> 0, day |-> NoDay]

SchedulesInit ==
  /\ schedule = [s \in Schedules |-> NoSchedule]
  /\ revision = [s \in Schedules |-> << >>]
  /\ conflict = [k \in ConflictIds |-> NoConflict]
  /\ resolutions = [k \in ConflictIds |-> 0]
  /\ shootDay = [k \in Schedules \X Numbers \X DayCounts |-> NoDay]
  /\ readiness = FALSE
  /\ srReq = [h \in SrHandlers |-> NoRequest]

Exists(s) == schedule[s].status # "none"
CurrentPlan(s) == revision[s][schedule[s].current].plan
SrStart(h, r) == srReq[h] = NoRequest /\ srReq' = [srReq EXCEPT ![h] = r]
SrFinish(h) == srReq' = [srReq EXCEPT ![h] = NoRequest]

----------------------------------------------------------------------------
(* The statements the batches are made of.                                 *)

\* prepareConflict: a clash of two assignments is an open conflict on no day.
FoundConflict == [status |-> "open", version |-> 1, day |-> 0]

\* prepareRevision: the row and the conflicts found among its assignments.
PreparedRevision(s, status, p, clashes) ==
  [row |-> [status |-> status, plan |-> p],
   found |-> {s} \X {Len(revision[s]) + 1} \X clashes]

\* preparedStatements: the revision, its items and its conflicts.
InsertRevision(s, prepared) ==
  /\ revision' = [revision EXCEPT ![s] = Append(@, prepared.row)]
  /\ conflict' = [k \in ConflictIds |->
       IF k \in prepared.found THEN FoundConflict ELSE conflict[k]]

RevisionsLeft == FoldFunction(LAMBDA rows, sum : sum - Len(rows), MaxRevisions, revision)

\* A number taken by another request breaks UNIQUE (schedule_id, revision_number).
NumberIsFree(s, n) == n = Len(revision[s]) + 1

----------------------------------------------------------------------------
(* POST /schedules.                                                        *)

\* Mutant of ClearDefault: the batch clears no other default.
ClearNoDefault(makeDefault) == schedule

\* A new default takes over: the batch first clears the flag of the others.
ClearDefault(makeDefault) ==
  [s \in Schedules |-> [schedule[s] EXCEPT !.default = @ /\ ~makeDefault]]

CreateSchedule(s, p, clashes, makeDefault) ==
  /\ ~Exists(s)
  /\ RevisionsLeft > 0
  /\ \A h \in SrHandlers : srReq[h].op # "duplicate" \/ srReq[h].row # <<s>>
  /\ schedule' = [ClearDefault(makeDefault) EXCEPT ![s] =
       [status |-> "working", default |-> makeDefault, current |-> 1, approved |-> 0]]
  /\ InsertRevision(s, PreparedRevision(s, "draft", p, clashes))
  /\ UNCHANGED <<resolutions, shootDay, readiness, srReq>>

(* POST /schedules/:id/revisions: the next number is read before the batch. *)

StartRevision(h, s, p, clashes) ==
  /\ Exists(s)
  /\ RevisionsLeft > 0
  /\ SrStart(h, [NoRequest EXCEPT !.op = "revise", !.row = <<s>>, !.plan = p,
                   !.clashes = clashes, !.number = Len(revision[s]) + 1])
  /\ UNCHANGED <<schedule, revision, conflict, resolutions, shootDay, readiness>>

CommitRevision(h) ==
  LET r == srReq[h]
      s == r.row[1] IN
  /\ r.op = "revise"
  /\ NumberIsFree(s, r.number) /\ RevisionsLeft > 0
  /\ InsertRevision(s, PreparedRevision(s, "draft", r.plan, r.clashes))
  /\ schedule' = [schedule EXCEPT ![s].current = r.number,
                                  ![s].status = "working"]
  /\ readiness' = FALSE
  /\ SrFinish(h)
  /\ UNCHANGED <<resolutions, shootDay>>

(* POST /schedules/:id/approve: the current revision and its items are read, *)
(* then the next number, and the batch copies the items under that number.   *)

StartRevisionApproval(h, s) ==
  /\ Exists(s)
  /\ SrStart(h, [NoRequest EXCEPT !.op = "source", !.row = <<s>>,
                   !.plan = CurrentPlan(s)])
  /\ UNCHANGED <<schedule, revision, conflict, resolutions, shootDay, readiness>>

NumberApproval(h) ==
  LET r == srReq[h]
      s == r.row[1] IN
  /\ r.op = "source"
  /\ srReq' = [srReq EXCEPT ![h].op = "approve", ![h].number = Len(revision[s]) + 1]
  /\ UNCHANGED <<schedule, revision, conflict, resolutions, shootDay, readiness>>

\* Mutant of CommitRevisionApproval: only the approved pointer moves.
ApproveRevisionBeside(h) ==
  LET r == srReq[h]
      s == r.row[1] IN
  /\ r.op = "approve"
  /\ NumberIsFree(s, r.number) /\ RevisionsLeft > 0
  /\ InsertRevision(s, PreparedRevision(s, "approved", r.plan, {}))
  /\ schedule' = [schedule EXCEPT ![s].approved = r.number,
                                  ![s].status = "approved"]
  /\ readiness' = FALSE
  /\ SrFinish(h)
  /\ UNCHANGED <<resolutions, shootDay>>

CommitRevisionApproval(h) ==
  LET r == srReq[h]
      s == r.row[1] IN
  /\ r.op = "approve"
  /\ NumberIsFree(s, r.number) /\ RevisionsLeft > 0
  /\ InsertRevision(s, PreparedRevision(s, "approved", r.plan, {}))
  /\ schedule' = [schedule EXCEPT ![s].current = r.number,
                                  ![s].approved = r.number,
                                  ![s].status = "approved"]
  /\ readiness' = FALSE
  /\ SrFinish(h)
  /\ UNCHANGED <<resolutions, shootDay>>

(* POST /schedules/:id/duplicate: items are copied, assignments are not, so  *)
(* the copy starts without conflicts and its day breaks survive.             *)

StartDuplicate(h, s, t) ==
  /\ Exists(s) /\ ~Exists(t)
  /\ SrStart(h, [NoRequest EXCEPT !.op = "duplicate", !.row = <<t>>,
                   !.plan = CurrentPlan(s)])
  /\ \A g \in SrHandlers : srReq[g].op # "duplicate" \/ srReq[g].row # <<t>>
  /\ UNCHANGED <<schedule, revision, conflict, resolutions, shootDay, readiness>>

CommitDuplicate(h) ==
  LET r == srReq[h]
      s == r.row[1] IN
  /\ r.op = "duplicate"
  /\ RevisionsLeft > 0
  /\ schedule' = [schedule EXCEPT ![s] =
       [status |-> "working", default |-> FALSE, current |-> 1, approved |-> 0]]
  /\ InsertRevision(s, PreparedRevision(s, "draft", r.plan, {}))
  /\ SrFinish(h)
  /\ UNCHANGED <<resolutions, shootDay, readiness>>

----------------------------------------------------------------------------
(* POST /conflicts/:id/resolve, with the version the caller saw: the one the *)
(* request reads, since with an older one the batch can only abort.          *)

StartResolve(h, k) ==
  /\ conflict[k].status = "open"
  /\ SrStart(h, [NoRequest EXCEPT !.op = "resolve", !.row = k, !.version = conflict[k].version])
  /\ UNCHANGED <<schedule, revision, conflict, resolutions, shootDay, readiness>>

\* Mutant of ConflictUnchanged: the batch carries no version guard.
ConflictUnguarded(r) == TRUE

\* versionGuard: the guard row's CHECK aborts the batch when the version moved.
ConflictUnchanged(r) == conflict[r.row].version = r.version

CommitResolve(h, outcome) ==
  LET r == srReq[h] IN
  /\ r.op = "resolve"
  /\ ConflictUnchanged(r)
  /\ conflict' = [conflict EXCEPT ![r.row].status = outcome,
                                  ![r.row].version = @ + 1]
  /\ resolutions' = [resolutions EXCEPT ![r.row] = @ + 1]
  /\ SrFinish(h)
  /\ UNCHANGED <<schedule, revision, shootDay, readiness>>

----------------------------------------------------------------------------
(* POST /shoot-days.  The revision and its items never change, so only the   *)
(* batch matters: the day, unless this revision has it already, and every    *)
(* conflict of the revision that is on no day yet.                           *)

\* Mutant of AttachConflicts: the new day takes no conflict.
AttachNothing(s, n, d) == conflict

AttachConflicts(s, n, d) ==
  [k \in ConflictIds |->
     IF k[1] = s /\ k[2] = n /\ conflict[k].status # "none" /\ conflict[k].day = 0
       THEN [conflict[k] EXCEPT !.day = d, !.version = @ + 1]
       ELSE conflict[k]]

GenerateDay(s, n, d) ==
  /\ n \in 1..Len(revision[s])
  /\ d \in BreaksOf[revision[s][n].plan]
  /\ shootDay[<<s, n, d>>] = NoDay
  /\ Cardinality({k \in DOMAIN shootDay : shootDay[k] # NoDay}) < MaxDays
  /\ shootDay' = [shootDay EXCEPT ![<<s, n, d>>] = [status |-> "planned", title |-> 0, version |-> 1]]
  /\ conflict' = AttachConflicts(s, n, d)
  /\ UNCHANGED <<schedule, revision, resolutions, readiness, srReq>>

(* PATCH /shoot-days/:id: the row is read, the fields the caller names are   *)
(* replaced, and the whole row is written back under the version guard.      *)

StartPatchDay(h, k) ==
  /\ shootDay[k] # NoDay
  /\ shootDay[k].version < MaxPatches
  /\ SrStart(h, [NoRequest EXCEPT !.op = "day", !.row = k, !.version = shootDay[k].version,
                                  !.day = shootDay[k]])
  /\ UNCHANGED <<schedule, revision, conflict, resolutions, shootDay, readiness>>

\* Mutant of DayUnchanged: the batch carries no version guard.
DayUnguarded(r) == TRUE

DayUnchanged(r) == shootDay[r.row].version = r.version

CommitPatchDay(h, field) ==
  LET r == srReq[h]
      named == IF field = "title" THEN [r.day EXCEPT !.title = @ + 1]
                                  ELSE [r.day EXCEPT !.status = "confirmed"]
  IN
  /\ r.op = "day"
  /\ DayUnchanged(r)
  /\ shootDay' = [shootDay EXCEPT ![r.row] =
       [named EXCEPT !.version = shootDay[r.row].version + 1]]
  /\ SrFinish(h)
  /\ UNCHANGED <<schedule, revision, conflict, resolutions, readiness>>

----------------------------------------------------------------------------

\* A request whose batch aborts, or whose Worker dies before it.
SrDrop(h) ==
  /\ srReq[h] # NoRequest
  /\ SrFinish(h)
  /\ UNCHANGED <<schedule, revision, conflict, resolutions, shootDay, readiness>>

\* routes/readiness.ts freezes an issue and marks the project ready.
FreezeReadiness ==
  /\ ~readiness
  /\ readiness' = TRUE
  /\ UNCHANGED <<schedule, revision, conflict, resolutions, shootDay, srReq>>

SchedulesNext ==
  \/ \E s \in Schedules, p \in Plans, c \in SUBSET Clashes, f \in BOOLEAN :
       CreateSchedule(s, p, c, f)
  \/ \E h \in SrHandlers :
       \/ \E s \in Schedules, p \in Plans, c \in SUBSET Clashes : StartRevision(h, s, p, c)
       \/ CommitRevision(h)
       \/ \E s \in Schedules : StartRevisionApproval(h, s)
       \/ NumberApproval(h)
       \/ CommitRevisionApproval(h)
       \/ \E s, t \in Schedules : StartDuplicate(h, s, t)
       \/ CommitDuplicate(h)
       \/ \E k \in ConflictIds : StartResolve(h, k)
       \/ \E o \in {"resolved", "overridden"} : CommitResolve(h, o)
       \/ \E k \in DOMAIN shootDay : StartPatchDay(h, k)
       \/ \E f \in {"title", "status"} : CommitPatchDay(h, f)
       \/ SrDrop(h)
  \/ \E s \in Schedules, n \in Numbers, d \in DayCounts : GenerateDay(s, n, d)
  \/ FreezeReadiness

SchedulesSpec == SchedulesInit /\ [][SchedulesNext]_schedulesVars

----------------------------------------------------------------------------
(* What pages show.                                                          *)

\* shootDayView: the open conflicts of the day's revision that are on it, or
\* on no day.
OpenConflicts(k) ==
  {c \in Clashes : /\ conflict[<<k[1], k[2], c>>].status = "open"
                   /\ conflict[<<k[1], k[2], c>>].day \in {0, k[3]}}

\* loadScheduleView: the schedule with the rows its pointers name.
ScheduleView(s) ==
  [status |-> schedule[s].status, number |-> schedule[s].current,
   current |-> revision[s][schedule[s].current],
   approved |-> IF schedule[s].approved = 0 THEN {} ELSE {revision[s][schedule[s].approved]}]

DaysOf(s, n) == {d \in DayCounts : shootDay[<<s, n, d>>] # NoDay}

----------------------------------------------------------------------------
(* Properties.                                                               *)

\* The page of a schedule shows its newest revision and, as approved, an
\* approved copy, and calls the schedule approved exactly when that copy is the
\* newest: no order of racing revisions and approvals leaves a pointer on an
\* older row (operations.ts:550, :643).
CurrentIsNewest ==
  \A s \in Schedules : Exists(s) =>
    LET view == ScheduleView(s) IN
    /\ view.number = Len(revision[s])
    /\ \A copy \in view.approved : copy.status = "approved"
    /\ view.status = "approved" <=> schedule[s].approved = view.number

\* At most one schedule of a project is the default, which the unique index
\* schedules_one_default_idx demands of every batch (operations.ts:477).
OneDefault == Cardinality({s \in Schedules : schedule[s].default}) <= 1

\* An open conflict of a revision that has shoot days is shown on exactly one
\* of them, however many days are generated and whatever is resolved between
\* (operations.ts:1043, :3073).
ShownOnOneDay ==
  \A s \in Schedules, n \in Numbers, c \in Clashes :
    conflict[<<s, n, c>>].status = "open" /\ DaysOf(s, n) # {} =>
      Cardinality({d \in DaysOf(s, n) : c \in OpenConflicts(<<s, n, d>>)}) = 1

\* A conflict has one resolution when it is closed and none while it is open,
\* though several people close it at once (operations.ts:845).
ResolvedOnce ==
  \A k \in ConflictIds :
    resolutions[k] = IF conflict[k].status \in {"resolved", "overridden"} THEN 1 ELSE 0

\* However revisions, approvals, copies and days of the schedules interleave,
\* their pointers name the rows they should and one plan is the default.
PlansStand == CurrentIsNewest /\ OneDefault

\* The same of the conflicts of a revision: each is shown while it is open and
\* closed by one person.
ConflictsAreAccounted == ShownOnOneDay /\ ResolvedOnce

\* A change of a shoot day keeps what other people changed: it never takes a
\* field back to what an earlier version had (operations.ts:1089).
DayChangesAreKept ==
  [][\A k \in DOMAIN shootDay : shootDay[k] # NoDay =>
       /\ shootDay'[k].title >= shootDay[k].title
       /\ shootDay[k].status = "confirmed" => shootDay'[k].status = "confirmed"]_schedulesVars
=============================================================================
