------------------------------ MODULE Controls ------------------------------
(***************************************************************************)
(* The registers of a project's planning controls that only grow there:    *)
(* risks with their hazards and control measures, equipment, kits and      *)
(* logistics, and its legal holds:                                         *)
(* apps/web/src/server/routes/planning-controls.ts.                        *)
(*                                                                         *)
(* A request that adds a row reads the last rank of its register and       *)
(* writes one batch later: the row, its object_registry row and its audit  *)
(* event, which are one row here.  No guard ties the batch to the read.    *)
(***************************************************************************)
EXTENDS Integers, Sequences

CONSTANTS
  ProjectRegisters,      \* the registers kept per project
  EndRank,              \* MAX of packages/domain/src/rank.ts
  HoldIds,               \* legal holds
  HoldOwners,            \* who may manage legal holds
  CtHandlers,            \* concurrent requests
  MaxRows, MaxHoldEvents \* bounds

ASSUME ControlsAssumption ==
  /\ ProjectRegisters \subseteq {"risk", "equipment", "kit", "logistics", "transport", "catering"}
  /\ {EndRank, MaxRows, MaxHoldEvents} \subseteq Nat
  /\ "none" \notin HoldOwners

VARIABLES
  rows,       \* the rows of all registers, in the order of their batches
  holds,      \* holds[x]: who placed and who released hold x; "none" nobody
  holdEvents, \* audit_events about holds, in order: <<action, hold, actor>>
  ctReq       \* ctReq[h]: what request h has read

controlsVars == <<rows, holds, holdEvents, ctReq>>

Registers == ProjectRegisters \cup {"hazard", "control"}
NoHold == [placed |-> "none", released |-> "none"]
NoCtReq == [at |-> "idle", of |-> "none", under |-> 0, last |-> {}, settled |-> FALSE]

ControlsInit ==
  /\ rows = << >>
  /\ holds = [x \in HoldIds |-> NoHold]
  /\ holdEvents = << >>
  /\ ctReq = [h \in CtHandlers |-> NoCtReq]

----------------------------------------------------------------------------
(* Ranks.                                                                  *)

\* Rows are ranked within the project, a hazard's within its risk and a
\* control's within its hazard.  Row 0 stands for the project.
Siblings(register, under) ==
  {i \in DOMAIN rows : rows[i].of = register /\ rows[i].under = under}

\* nextRank and its kin, up to the rank they read: archived rows count.
RanksIn(register, under) == {rows[i].rank : i \in Siblings(register, under)}
LastOf(ranks) == {r \in ranks : \A s \in ranks : s <= r}

\* Mutant of NextRank: every row takes the first rank.
AlwaysMiddle(last) == EndRank \div 2

\* safeNextRank: half way from the last rank to the end, and the first rank
\* again once no rank is left.
NextRank(last) ==
  LET lower == IF last = {} THEN 0 ELSE CHOOSE r \in last : TRUE
      half == (lower + EndRank) \div 2
  IN  IF half \in {lower, EndRank} THEN EndRank \div 2 ELSE half

----------------------------------------------------------------------------
(* Adding a row.                                                           *)

\* A request that will add a row to a register has read its last rank.
Reading(h, register, under, settled) ==
  /\ ctReq[h].at = "idle" /\ register \in Registers
  /\ ctReq' = [ctReq EXCEPT ![h] =
       [at |-> "add", of |-> register, under |-> under, settled |-> settled,
        last |-> LastOf(RanksIn(register, under))]]
  /\ UNCHANGED <<rows, holds, holdEvents>>

\* Mutant of Stands: the parent is not looked for.
StandsAnywhere(register, i) == TRUE

\* requireRisk, requireHazard.
Stands(register, i) == i \in DOMAIN rows /\ rows[i].of = register

AddRisk(h) == Reading(h, "risk", 0, FALSE)
AddHazard(h, risk) == Stands("risk", risk) /\ Reading(h, "hazard", risk, FALSE)
AddControl(h, hazard) == Stands("hazard", hazard) /\ Reading(h, "control", hazard, FALSE)
AddEquipment(h) == Reading(h, "equipment", 0, FALSE)
AddKit(h) == Reading(h, "kit", 0, FALSE)

\* A logistics plan is settled when its status is ready, approved or confirmed
\* and its five notes are there, the others also when they are not required.
AddLogistics(h, settled) == Reading(h, "logistics", 0, settled)
AddTransport(h, settled) == Reading(h, "transport", 0, settled)
AddCatering(h, settled) == Reading(h, "catering", 0, settled)

\* The batch of any of them.
CommitRow(h) ==
  LET r == ctReq[h] IN
  /\ r.at = "add"
  /\ Len(rows) < MaxRows
  /\ rows' = Append(rows, [of |-> r.of, under |-> r.under, rank |-> NextRank(r.last),
                           settled |-> r.settled, archived |-> FALSE])
  /\ ctReq' = [ctReq EXCEPT ![h] = NoCtReq]
  /\ UNCHANGED <<holds, holdEvents>>

\* The Worker dies before the batch.
DropRow(h) ==
  /\ ctReq[h].at = "add"
  /\ ctReq' = [ctReq EXCEPT ![h] = NoCtReq]
  /\ UNCHANGED <<rows, holds, holdEvents>>

\* The generic records archive and restore logistics plans and equipment.
SetArchived(i, archived) ==
  /\ i \in DOMAIN rows
  /\ rows[i].of \in {"logistics", "equipment"} /\ rows[i].archived # archived
  /\ rows' = [rows EXCEPT ![i].archived = archived]
  /\ UNCHANGED <<holds, holdEvents, ctReq>>

----------------------------------------------------------------------------
(* The page, loadPlanningControls.                                         *)

\* Risks with the hazards of each, and those with the controls of each.
ShownRisks == Siblings("risk", 0)
ShownHazards == UNION {Siblings("hazard", i) : i \in ShownRisks}
ShownControls == UNION {Siblings("control", i) : i \in ShownHazards}
ShownRows == ShownRisks \cup ShownHazards \cup ShownControls
  \cup UNION {Siblings(r, 0) : r \in {"equipment", "kit", "logistics", "transport", "catering"}}

Current(register) == {i \in Siblings(register, 0) : ~rows[i].archived}

\* The first current plan in the order of ranks; plans of one rank come in no
\* order that the query states.
PrimaryPlans == {i \in Current("logistics") :
                   \A j \in Current("logistics") : rows[i].rank <= rows[j].rank}

Resolved(register) ==
  Current(register) # {} /\ \A i \in Current(register) : rows[i].settled

\* evaluateLogisticsReadiness, for every plan that the page may take first.
LogisticsReady ==
  {rows[i].settled /\ Resolved("transport") /\ Resolved("catering") : i \in PrimaryPlans}

----------------------------------------------------------------------------
(* Legal holds.                                                            *)

Logged(action, x, actor) ==
  /\ Len(holdEvents) < MaxHoldEvents
  /\ holdEvents' = Append(holdEvents, <<action, x, actor>>)

\* POST /legal-holds.
PlaceHold(x, actor) ==
  /\ holds[x] = NoHold
  /\ holds' = [holds EXCEPT ![x].placed = actor]
  /\ Logged("placed", x, actor)
  /\ UNCHANGED <<rows, ctReq>>

\* Mutant of Releasable: the UPDATE does not ask for released_at IS NULL.
ReleasableAgain(x) == holds[x].placed # "none"
Releasable(x) == holds[x].placed # "none" /\ holds[x].released = "none"

\* POST /legal-holds/:id/release: the event is in the batch of the UPDATE,
\* and stays though the UPDATE found no row and the answer is 409.
ReleaseHold(x, actor) ==
  /\ holds' = IF Releasable(x) THEN [holds EXCEPT ![x].released = actor] ELSE holds
  /\ Logged("released", x, actor)
  /\ UNCHANGED <<rows, ctReq>>

----------------------------------------------------------------------------
ControlsNext ==
  \/ \E h \in CtHandlers :
       \/ AddRisk(h) \/ AddEquipment(h) \/ AddKit(h)
       \/ \E i \in 1..MaxRows : AddHazard(h, i) \/ AddControl(h, i)
       \/ \E settled \in BOOLEAN :
            AddLogistics(h, settled) \/ AddTransport(h, settled) \/ AddCatering(h, settled)
       \/ CommitRow(h) \/ DropRow(h)
  \/ \E i \in 1..MaxRows, archived \in BOOLEAN : SetArchived(i, archived)
  \/ \E x \in HoldIds, actor \in HoldOwners : PlaceHold(x, actor) \/ ReleaseHold(x, actor)

ControlsSpec == ControlsInit /\ [][ControlsNext]_controlsVars

----------------------------------------------------------------------------
(* Properties.                                                             *)

\* A hold is released exactly when a release of it was logged after its
\* placing, and by whoever logged the first, however many were tried
\* (planning-controls.ts:1478).
FirstReleaseStands ==
  \A x \in HoldIds :
    LET placed == {i \in DOMAIN holdEvents : holdEvents[i][1] = "placed" /\ holdEvents[i][2] = x}
        tried == {i \in DOMAIN holdEvents : /\ holdEvents[i][1] = "released" /\ holdEvents[i][2] = x
                                            /\ \E j \in placed : j < i}
    IN  IF tried = {} THEN holds[x].released = "none"
        ELSE \E i \in tried : /\ \A j \in tried : i <= j
                              /\ holds[x].released = holdEvents[i][3]

\* A logistics plan that is added does not become the primary one, on which
\* the readiness that the page shows rests: the ranks keep the first plan the
\* first, whichever requests overlap, while the last rank that was read leaves
\* one after it (planning-controls.ts:2772; packages/domain/src/rank.ts:26).
AddedPlanComesLast ==
  [][\A h \in CtHandlers :
       /\ ctReq[h].of = "logistics" /\ ctReq'[h].of = "none" /\ rows' # rows
       /\ PrimaryPlans # {} /\ \E i \in PrimaryPlans : \E last \in ctReq[h].last :
            rows[i].rank <= last /\ last < EndRank - 1
       => PrimaryPlans' = PrimaryPlans /\ LogisticsReady' = LogisticsReady]_controlsVars

\* Every row that was added is on the page, below its parent if it has one
\* (planning-controls.ts:2240).
EveryRowIsShown == ShownRows = DOMAIN rows

\* What the registers owe to those who add to them and lift holds.
ControlsStand == []FirstReleaseStands /\ []EveryRowIsShown /\ AddedPlanComesLast
=============================================================================
