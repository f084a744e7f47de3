------------------------------ MODULE Records ------------------------------
(***************************************************************************)
(* The generic records of a project, the project itself, and the ideas of  *)
(* a workspace that become projects: apps/web/src/server/routes/records.ts,*)
(* projects.ts and ideas.ts.                                               *)
(*                                                                         *)
(* A request checks that the project is open and reads the rows it needs;  *)
(* it writes one batch later, which a guard row ties to the version of one *)
(* row.  Whether the project is still open is not looked at again.         *)
(*                                                                         *)
(* An idea of the project is a row of both: records.ts edits it as one of  *)
(* its records, ideas.ts as one of the workspace.                          *)
(***************************************************************************)
EXTENDS Integers, FiniteSets

CONSTANTS
  Recs,          \* records of the project: its ideas, and those of one other table
  Ideas,         \* ideas of the workspace, with or without a project
  RcFields,      \* columns that a PATCH may name
  Shadowed,      \* those of them that details_json may hold as well: type, source
  Refilled,      \* those that the schema of ideas.ts fills in when a PATCH leaves them out
  RcCodes,       \* project codes
  RcKeys,        \* Idempotency-Key headers of promotions
  RcHandlers,    \* concurrent requests
  TopRank,       \* MAX of packages/domain/src/rank.ts
  LegacyRank,    \* where the short rank "a0" sorts
  MaxRecordWrites, MaxIdeaWrites  \* bounds: versions of a record or project, of an idea

\* Canonical ranks are 2*v for v in 0..TopRank; "a0" sorts between two of them.
ASSUME RecordsAssumption ==
  /\ {TopRank, LegacyRank, MaxRecordWrites, MaxIdeaWrites} \subseteq Nat
  /\ LegacyRank % 2 = 1 /\ LegacyRank < 2 * TopRank
  /\ {"project", "none"} \cap (Recs \cup Ideas) = {}
  /\ Shadowed \cup Refilled \subseteq RcFields

VARIABLES
  row,        \* row[x]: record, idea or the project; version 0 does not exist
  registry,   \* registry[x]: the object_registry row, as far as the archive goes
  born,       \* projects made: their code, idea and key
  promoteKey, \* idempotency_records of idea.promote
  rcReq       \* rcReq[h]: what request h has read

recordsVars == <<row, registry, born, promoteKey, rcReq>>

Promoting == INSTANCE Idempotency WITH
  Operations <- {"promote"}, Keys <- RcKeys, Bodies <- Ideas \X RcCodes, NoRef <- <<>>,
  record <- promoteKey

\* The columns or details of S: those of D carry a mark, the version that wrote
\* them, the others 0.
Marked(S, D, mark) == [f \in S |-> IF f \in D THEN mark ELSE 0]

NoRow == [version |-> 0, value |-> Marked(RcFields, {}, 0), details |-> Marked(Shadowed, {}, 0),
          archived |-> FALSE, rank |-> LegacyRank]

\* `held`: the shadowed columns that the details sent with a POST hold.
NewRow(rank, held) ==
  [NoRow EXCEPT !.version = 1, !.rank = rank,
     !.value = Marked(RcFields, held, 1), !.details = Marked(Shadowed, held, 1)]
NoRcReq == [at |-> "idle", on |-> "none", version |-> 0, read |-> {}, write |-> {}]

\* A project made from an idea has that idea as its first record; it and what
\* early builds made have the short rank.  A project made as such has no record.
RecordsInit ==
  /\ \E first \in {{}} \cup {{x} : x \in Recs} :
       row = [x \in Recs \cup Ideas \cup {"project"} |->
                IF x \in first \cup {"project"} THEN NewRow(LegacyRank, {}) ELSE NoRow]
  /\ registry = [x \in Recs \cup Ideas \cup {"project"} |-> [archived |-> FALSE]]
  /\ born = {}
  /\ Promoting!IdempotencyInit
  /\ rcReq = [h \in RcHandlers |-> NoRcReq]

RcGoto(h, at) == rcReq' = [rcReq EXCEPT ![h].at = at]
RcFinish(h) == rcReq' = [rcReq EXCEPT ![h] = NoRcReq]
StartRecords(h, req) ==
  /\ rcReq[h].at = "idle"
  /\ rcReq' = [rcReq EXCEPT ![h] = req]
  /\ UNCHANGED <<row, registry, born, promoteKey>>

Exists(x) == row[x].version > 0
Writable(x) == row[x].version < IF x \in Ideas THEN MaxIdeaWrites ELSE MaxRecordWrites

\* assertProjectAccess(..., "edit").
OpenProject == ~row["project"].archived

\* Mutant of RcGuard: the guard row is left out of the batch.
RcUnguarded(r) == TRUE

\* optimistic_mutation_guards: the version the client knows is still the row's.
RcGuard(r) == row[r.on].version = r.version

----------------------------------------------------------------------------
(* Ranks.                                                                  *)

Canonical(rank) == rank % 2 = 0

\* rankBetween; 0 when it throws: a rank is not canonical, or no rank is left.
RankBetween(lower, upper) ==
  LET mid == 2 * ((lower + upper) \div 4)
  IN  IF Canonical(lower) /\ Canonical(upper) /\ lower < mid /\ mid < upper THEN mid ELSE 0

SameTable(x) == IF x \in Ideas THEN Recs \cap Ideas ELSE Recs \ Ideas
Ranked(x) == {y \in SameTable(x) : Exists(y)}
LastRank(x) == IF Ranked(x) = {} THEN 0 ELSE
  CHOOSE rank \in {row[y].rank : y \in Ranked(x)} : \A y \in Ranked(x) : row[y].rank <= rank

\* appendRankPlan: the rank after the last one or, when there is none, ranks
\* for all: `repairs` are the records whose rank is to be written anew.
AppendRankPlan(x) ==
  LET next == RankBetween(LastRank(x), 2 * TopRank)
      spacing == TopRank \div (Cardinality(Ranked(x)) + 2)
  IN  IF next > 0 THEN [rank |-> next, repairs |-> {}]
      ELSE [rank |-> 2 * spacing * (Cardinality(Ranked(x)) + 1), repairs |-> Ranked(x)]

\* The version_step triggers of migration 0006 let an UPDATE pass that adds 1.
VersionSteps(old, new) == new.version = old.version + 1

\* The repairs write sort_rank and leave the version.
RepairsHold(plan) ==
  \A x \in plan.repairs : VersionSteps(row[x], [row[x] EXCEPT !.rank = plan.rank])

\* POST /:recordType.
StartCreate(h, x, held) ==
  /\ ~Exists(x) /\ OpenProject
  /\ StartRecords(h, [NoRcReq EXCEPT !.at = "create", !.on = x, !.read = AppendRankPlan(x),
                                     !.write = held])

CommitCreate(h) ==
  LET r == rcReq[h] IN
  /\ r.at = "create" /\ ~Exists(r.on)
  /\ RepairsHold(r.read)
  /\ row' = [row EXCEPT ![r.on] = NewRow(r.read.rank, r.write)]
  /\ RcFinish(h)
  /\ UNCHANGED <<registry, born, promoteKey>>

\* The trigger aborts the batch, and the request ends with an error.
AbortCreate(h) ==
  /\ rcReq[h].at = "create"
  /\ ~RepairsHold(rcReq[h].read)
  /\ RcGoto(h, "stranded")
  /\ UNCHANGED <<row, registry, born, promoteKey>>

\* PATCH /:recordId/rank: the window is what the neighbours' ranks are now.
StartRank(h, x, expected, after, before) ==
  LET lower == IF after = {} THEN 0 ELSE row[CHOOSE y \in after : TRUE].rank
      upper == IF before = {} THEN 2 * TopRank ELSE row[CHOOSE y \in before : TRUE].rank
  IN  /\ Exists(x) /\ OpenProject
      /\ Writable(x)
      /\ \A y \in after \cup before : y \in Ranked(x) \ {x}
      /\ RankBetween(lower, upper) > 0
      /\ StartRecords(h, [NoRcReq EXCEPT !.at = "rank", !.on = x, !.version = expected,
                                         !.read = RankBetween(lower, upper)])

CommitRank(h) ==
  LET r == rcReq[h] IN
  /\ r.at = "rank" /\ RcGuard(r)
  /\ row' = [row EXCEPT ![r.on].rank = r.read, ![r.on].version = @ + 1]
  /\ RcFinish(h)
  /\ UNCHANGED <<registry, born, promoteKey>>

----------------------------------------------------------------------------
(* Edits, the archive and ideas.                                           *)

\* The row is read whole, and all its columns are written back.
StartPatch(h, at, x, expected, fields, details) ==
  /\ Exists(x) /\ Writable(x)
  /\ StartRecords(h, [NoRcReq EXCEPT !.at = at, !.on = x, !.version = expected,
       !.read = row[x], !.write = [fields |-> fields, details |-> details]])

Mark(r) == row[r.on].version + 1

\* details_json: the details that the body names replace those of the row.
NewDetails(r) ==
  IF r.write.details = {} THEN r.read.details ELSE Marked(Shadowed, UNION r.write.details, Mark(r))

\* What becomes of a column that the body does not name: records.ts asks the
\* details before the column, and zod fills in what ideas.ts has a default for.
LeftOut(r, f) ==
  CASE r.at = "edit" /\ f \in Shadowed /\ NewDetails(r)[f] # 0 -> NewDetails(r)[f]
    [] r.at = "idea" /\ f \in Refilled -> 0
    [] OTHER -> r.read.value[f]

NewValue(r) == [f \in RcFields |-> IF f \in r.write.fields THEN Mark(r) ELSE LeftOut(r, f)]

CommitPatch(h, at) ==
  LET r == rcReq[h] IN
  /\ r.at = at /\ RcGuard(r)
  /\ row' = [row EXCEPT ![r.on].version = Mark(r), ![r.on].value = NewValue(r),
                        ![r.on].details = NewDetails(r)]
  /\ RcFinish(h)
  /\ UNCHANGED <<registry, born, promoteKey>>

\* PATCH of a record: it names a shadowed column only through the details,
\* which it may replace.
StartEdit(h, x, expected, fields, details) ==
  /\ x \in Recs /\ OpenProject /\ (fields # {} \/ details # {})
  /\ StartPatch(h, "edit", x, expected, fields, details)
CommitEdit(h) == CommitPatch(h, "edit")

\* PATCH of the project.
PatchProject(h, expected, fields) ==
  OpenProject /\ StartPatch(h, "patch", "project", expected, fields, {})
CommitProject(h) == CommitPatch(h, "patch")

\* PATCH of an idea keeps the details that hold no note, link or tag.
PatchIdea(h, i, expected, fields) ==
  i \in Ideas /\ ~row[i].archived /\ StartPatch(h, "idea", i, expected, fields, {})
CommitIdea(h) == CommitPatch(h, "idea")

\* PATCH /creative-progress/:moduleKey writes one flag of a JSON column, and
\* refuses an old version before the batch as well.
StartProgress(h, expected, flag) ==
  /\ row["project"].version = expected /\ OpenProject
  /\ StartPatch(h, "progress", "project", expected, {flag}, {})

CommitProgress(h) == CommitPatch(h, "progress")

Archiving(h, at, x, expected, to) ==
  /\ Exists(x) /\ Writable(x)
  /\ StartRecords(h, [NoRcReq EXCEPT !.at = at, !.on = x, !.version = expected, !.write = {to}])

Archived(h, at) ==
  LET r == rcReq[h] IN
  /\ r.at = at /\ RcGuard(r)
  /\ row' = [row EXCEPT ![r.on].archived = TRUE \in r.write, ![r.on].version = @ + 1]
  /\ RcFinish(h)
  /\ UNCHANGED <<born, promoteKey>>

\* The registry row follows a project and an idea, not what records.ts archives.
ArchivedWithRegistry(h) ==
  /\ Archived(h, "lifecycle")
  /\ registry' = [registry EXCEPT ![rcReq[h].on].archived = TRUE \in rcReq[h].write]

\* POST .../archive and /restore of records: again has no 409 of its own.
StartRecordLifecycle(h, x, expected, to) ==
  x \in Recs /\ OpenProject /\ Archiving(h, "archive", x, expected, to)
CommitRecordLifecycle(h) == Archived(h, "archive") /\ UNCHANGED registry

\* Those of the project; an archived one may be restored.
StartLifecycle(h, expected, to) ==
  row["project"].archived # to /\ Archiving(h, "lifecycle", "project", expected, to)
CommitLifecycle(h) == rcReq[h].on = "project" /\ ArchivedWithRegistry(h)

\* Those of an idea.
StartIdeaLifecycle(h, i, expected, to) ==
  i \in Ideas /\ row[i].archived # to /\ Archiving(h, "lifecycle", i, expected, to)
CommitIdeaLifecycle(h) == rcReq[h].on \in Ideas /\ ArchivedWithRegistry(h)

AbortRecords(h) ==
  /\ rcReq[h].at \in {"rank", "edit", "patch", "idea", "progress", "archive", "lifecycle"}
  /\ ~RcGuard(rcReq[h])
  /\ RcFinish(h)
  /\ UNCHANGED <<row, registry, born, promoteKey>>

\* POST /ideas: an idea without a project, whose details hold none of its columns.
CaptureIdea(i) ==
  /\ i \notin Recs /\ ~Exists(i)
  /\ row' = [row EXCEPT ![i] = NewRow(LegacyRank, {})]
  /\ UNCHANGED <<registry, born, promoteKey, rcReq>>

CodeIsFree(c) == \A p \in born : p.code # c

\* POST /projects: no key; a code in use makes the batch fail.
CreateProject(c) ==
  /\ CodeIsFree(c)
  /\ born' = born \cup {[code |-> c, idea |-> {}, key |-> {}]}
  /\ UNCHANGED <<row, registry, promoteKey, rcReq>>

PromotedFrom(i) == {p \in born : p.idea = {i}}

\* POST /ideas/:id/promote reads the idea, and whether it has a project, before
\* the key begins.
StartPromote(h, i, expected, c, k) ==
  /\ Exists(i)
  /\ Writable(i)
  /\ StartRecords(h, [NoRcReq EXCEPT !.at = "begin", !.on = i, !.version = expected,
       !.read = (i \in Recs \/ PromotedFrom(i) # {}), !.write = [code |-> c, key |-> k]])

BeginPromotion(h) ==
  LET r == rcReq[h] IN
  /\ r.at = "begin"
  /\ Promoting!Begin("promote", r.write.key, <<r.on, r.write.code>>)
  /\ RcGoto(h, IF r.read THEN "fail" ELSE "promote")
  /\ UNCHANGED <<row, registry, born>>

AnswerPromoted(h) ==
  LET r == rcReq[h]
      body == <<r.on, r.write.code>>
  IN  /\ r.at = "begin"
      /\ \/ Promoting!Replays("promote", r.write.key, body)
         \/ Promoting!Refuses("promote", r.write.key, body)
      /\ RcFinish(h)
      /\ UNCHANGED <<row, registry, born, promoteKey>>

\* Mutant of Promoted: the key is completed by a statement after the batch.
PromotedWithoutKey(r) ==
  /\ born' = born \cup {[code |-> r.write.code, idea |-> {r.on}, key |-> {r.write.key}]}
  /\ UNCHANGED promoteKey

Promoted(r) ==
  /\ born' = born \cup {[code |-> r.write.code, idea |-> {r.on}, key |-> {r.write.key}]}
  /\ promoteKey' = Promoting!Completed("promote", r.write.key, <<r.write.code>>)

\* The batch: the project with its screenplay, folders and memberships, and
\* the idea that now belongs to it.
CommitPromotion(h) ==
  LET r == rcReq[h] IN
  /\ r.at = "promote" /\ RcGuard(r) /\ CodeIsFree(r.write.code)
  /\ Promoted(r)
  /\ row' = [row EXCEPT ![r.on].version = @ + 1]
  /\ RcGoto(h, "answer")
  /\ UNCHANGED registry

AbortPromotion(h) ==
  LET r == rcReq[h] IN
  /\ r.at = "promote"
  /\ ~RcGuard(r) \/ ~CodeIsFree(r.write.code)
  /\ RcGoto(h, "fail")
  /\ UNCHANGED <<row, registry, born, promoteKey>>

\* The batch ran and its answer did not arrive: the handler takes the error path.
LosePromotion(h) ==
  /\ rcReq[h].at = "answer"
  /\ RcGoto(h, "fail")
  /\ UNCHANGED <<row, registry, born, promoteKey>>

MarkPromotionFailed(h) ==
  LET r == rcReq[h] IN
  /\ r.at = "fail"
  /\ promoteKey' = Promoting!Failed("promote", r.write.key)
  /\ RcFinish(h)
  /\ UNCHANGED <<row, registry, born>>

\* The answer is sent, or the Worker dies.
RcDrop(h) ==
  /\ rcReq[h].at # "idle"
  /\ RcFinish(h)
  /\ UNCHANGED <<row, registry, born, promoteKey>>

RecordsNext ==
  \/ \E i \in Ideas : CaptureIdea(i)
  \/ \E c \in RcCodes : CreateProject(c)
  \/ \E h \in RcHandlers :
       \/ \E x \in Recs, held \in SUBSET Shadowed : StartCreate(h, x, held)
       \/ \E x \in DOMAIN row : \E e \in 1..row[x].version :
            \/ \E f \in SUBSET RcFields \ {{}} : PatchIdea(h, x, e, f)
            \/ \E f \in SUBSET (RcFields \ Shadowed), d \in {{}} \cup {{held} : held \in SUBSET Shadowed} :
                 StartEdit(h, x, e, f, d)
            \/ \E to \in BOOLEAN :
                 StartRecordLifecycle(h, x, e, to) \/ StartIdeaLifecycle(h, x, e, to)
       \/ \E e \in 1..row["project"].version :
            \/ \E f \in SUBSET RcFields \ {{}} : PatchProject(h, e, f)
            \/ \E f \in RcFields : StartProgress(h, e, f)
            \/ \E to \in BOOLEAN : StartLifecycle(h, e, to)
       \/ \E x \in Recs : \E e \in 1..row[x].version :
            \E after, before \in {{}} \cup {{y} : y \in Recs} : StartRank(h, x, e, after, before)
       \/ \E i \in Ideas, c \in RcCodes, k \in RcKeys :
            \E e \in 1..row[i].version : StartPromote(h, i, e, c, k)
       \/ CommitCreate(h) \/ AbortCreate(h) \/ CommitRank(h) \/ CommitEdit(h)
       \/ CommitProject(h) \/ CommitIdea(h) \/ CommitProgress(h) \/ CommitRecordLifecycle(h)
       \/ CommitLifecycle(h) \/ CommitIdeaLifecycle(h) \/ AbortRecords(h)
       \/ BeginPromotion(h) \/ AnswerPromoted(h) \/ CommitPromotion(h) \/ AbortPromotion(h)
       \/ LosePromotion(h) \/ MarkPromotionFailed(h) \/ RcDrop(h)

RecordsSpec == RecordsInit /\ [][RecordsNext]_recordsVars

----------------------------------------------------------------------------
(* Properties.                                                             *)

\* A PATCH loses nobody's work: a column that its body does not name keeps the
\* value that it has when the batch is committed, whoever wrote it meanwhile, and
\* so do the details (records.ts:418, projects.ts:446, ideas.ts:158).  Two kinds
\* of columns do not: records.ts writes what the details hold instead, and ideas.ts
\* empties what its schema fills in.
RecordEditsAreKept ==
  [][\A h \in RcHandlers :
       /\ rcReq[h].at \in {"edit", "patch", "idea", "progress"}
       /\ rcReq'[h].at = "idle" /\ row' # row
       => LET r == rcReq[h]
              held == row'[r.on].details
          IN  /\ r.write.details = {} => held = row[r.on].details
              /\ \A f \in RcFields \ r.write.fields :
                   row'[r.on].value[f] =
                     CASE r.at = "edit" /\ f \in Shadowed /\ held[f] # 0 -> held[f]
                       [] r.at = "idea" /\ f \in Refilled -> 0
                       [] OTHER -> row[r.on].value[f]]_recordsVars

\* However often the promotion of an idea is sent, retried under its key or
\* another, or loses its answer, the idea becomes at most one project, and a
\* key is completed exactly when that project was made under it (ideas.ts:294).
PromotedOnce ==
  /\ \A i \in Ideas : Cardinality(PromotedFrom(i)) <= 1
  /\ \A k \in RcKeys :
       promoteKey[<<"promote", k>>].state = "completed" <=> \E p \in born : p.key = {k}

\* Once the project is archived and the requests admitted before have ended,
\* its records stay as they are until it is restored (policy.ts:71); its ideas
\* do not, for ideas.ts does not ask for the project.
ArchivedProjectSettles ==
  [][row["project"].archived /\ (\A h \in RcHandlers : rcReq[h].on \notin Recs \ Ideas) =>
       /\ \A x \in Recs \ Ideas : row'[x] = row[x]
       /\ \A h \in RcHandlers : rcReq'[h].on \notin Recs \ Ideas]_recordsVars

\* What a request may never do to a row.
RecordsStand == RecordEditsAreKept /\ ArchivedProjectSettles /\ []PromotedOnce

=============================================================================
