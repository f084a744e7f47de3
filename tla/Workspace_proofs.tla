-------------------------- MODULE Workspace_proofs --------------------------
(***************************************************************************)
(* Theorems about what members plan, record and write, one part of the     *)
(* workspace after the other: Planning, Controls, Records, ScriptEditor    *)
(* and OfflineDrafts, each for all values of its constants.                *)
(***************************************************************************)
EXTENDS Planning, Controls, Records, ScriptEditor, OfflineDrafts,
        FiniteSetTheorems, SequenceTheorems, TLAPS

----------------------------------------------------------------------------
(***************************************************************************)
(* Planning: a budget stands as it was approved, its totals are those of its *)
(* lines, and the edits of requirements are kept.                          *)
(***************************************************************************)

PlanStates == {"none", "working", "approved"}
LineSets == UNION {[L -> Amounts] : L \in SUBSET Lines}
Sums == {0} \cup {SumOf(lines) : lines \in LineSets}
Percents == {0} \cup Contingencies
Estimates == {0} \cup {WithContingency(sum, c) : sum \in Sums, c \in Percents}
PlanContents == [accounts : SUBSET Codes, lines : LineSets, contingency : Percents, net : Sums,
                 estimate : Estimates]
PlanRows == [status : PlanStates, accounts : SUBSET Codes, lines : LineSets,
             contingency : Percents, net : Sums, estimate : Estimates,
             hash : SUBSET PlanContents]
Values == [Fields -> Nat]
ReservationRows == [on : Items \cup Kits, window : Windows, overridden : BOOLEAN]
PlPoints == {"idle", "version", "account", "line", "begin", "read", "approve", "answer", "fail",
             "requirement", "reserve"}

\* What requests read and what they mean to write, of each kind.
PlReads == {{}} \cup PlanRows \cup (SUBSET Lines) \cup PlanContents \cup Values
           \cup (SUBSET Reservations)
Writes == {{}} \cup Contingencies \cup Codes \cup (Lines \X Amounts) \cup (SUBSET Fields)
            \cup ReservationRows
PlanRequests == [at : PlPoints, on : Nat \cup Reservations, version : Nat,
                 key : {{}} \cup PlKeys, read : PlReads, write : Writes]

PlanKeyStates == {"none", "running", "completed", "failed"}
PlanKeyRows == [state : PlanKeyStates, body : {0} \cup Versions, ref : {0} \cup Versions,
                expired : BOOLEAN]
PlanKeys == {"approve"} \X PlKeys
PlKeyOf(k) == <<"approve", k>>

PlTypeOK ==
  /\ budget \in [working : {0} \cup Versions, approved : {0} \cup Versions, version : Nat]
  /\ plan \in [Versions -> PlanRows]
  /\ signed \in SUBSET (Versions \X PlKeys)
  /\ planKey \in [PlanKeys -> PlanKeyRows]
  /\ requirement \in [version : Nat, value : Values]
  /\ plReq \in [PlHandlers -> PlanRequests]

\* The versions are the approved ones, then the one in work, if there is one.
StatusOf(n) ==
  IF n <= budget.approved THEN "approved" ELSE IF n = budget.working THEN "working" ELSE "none"

Numbering ==
  /\ budget.working \in {0, budget.approved + 1}
  /\ \A n \in Versions : plan[n].status = StatusOf(n)

RowHolds(v) ==
  /\ v.net = SumOf(v.lines)
  /\ v.status = "approved" => v.hash = {Content(v)}

RowsHold == \A n \in Versions : RowHolds(plan[n])

\* What is read under a version of the budget is so while it has that version.
BudgetRelied(r) ==
  /\ r.at \in {"version", "account", "line", "begin", "read", "approve"} =>
       r.version >= 1 /\ r.version <= budget.version /\ r.on \in Versions
  /\ r.at = "version" =>
       /\ r.write \in Contingencies /\ r.read \in PlanRows /\ r.read.net = SumOf(r.read.lines)
       /\ r.version = budget.version => budget.working = 0 /\ r.on = budget.approved + 1
  /\ r.at = "account" => r.write \in Codes /\ (r.version = budget.version => Working(r.on))
  /\ r.at = "line" => r.write \in Lines \X Amounts /\ (r.version = budget.version => Working(r.on))
  /\ r.at = "approve" =>
       r.read \in PlanContents /\ (r.version = budget.version =>
                                     Working(r.on) /\ r.read = Content(plan[r.on]))
  /\ r.at \in {"begin", "read", "approve", "answer", "fail"} => r.key \in PlKeys

\* The same of the requirement.
RequirementRelied(r) ==
  r.at = "requirement" =>
    /\ r.write \in SUBSET Fields /\ r.read \in Values
    /\ r.version <= requirement.version
    /\ r.version = requirement.version => r.read = requirement.value

PlRequestsHold ==
  \A h \in PlHandlers : \A r \in PlanRequests : plReq[h] = r =>
    BudgetRelied(r) /\ RequirementRelied(r)

\* A key belongs to the request that began it, and is running until its batch.
HasKey(h) == plReq[h].at \in {"read", "approve", "answer", "fail"}
PlKeysBelong ==
  /\ \A g, h \in PlHandlers : HasKey(g) /\ HasKey(h) /\ plReq[g].key = plReq[h].key => g = h
  /\ \A h \in PlHandlers : HasKey(h) => planKey[PlKeyOf(plReq[h].key)] # Approving!NoRecord
  /\ \A h \in PlHandlers : plReq[h].at \in {"read", "approve"} =>
       planKey[PlKeyOf(plReq[h].key)].state = "running"

SignedUnder(k) == {s[1] : s \in {t \in signed : t[2] = k}}

SignedOnce ==
  /\ \A k \in PlKeys : SignedUnder(k) =
       IF planKey[PlKeyOf(k)].state = "completed" THEN {planKey[PlKeyOf(k)].ref} ELSE {}
  /\ \A s \in signed : s[1] <= budget.approved
  /\ \A s, t \in signed : s[1] = t[1] => s = t

PlInv == PlTypeOK /\ Numbering /\ RowsHold /\ PlRequestsHold /\ PlKeysBelong /\ SignedOnce

----------------------------------------------------------------------------
LEMMA NothingSums == SumOf(<< >>) = 0
<1> DEFINE none == << >>
           steps(i) == [s \in SUBSET {} |-> IF s = {} THEN 0
                          ELSE none[CHOOSE x \in s : TRUE] + i[s \ {CHOOSE x \in s : TRUE}]]
           iter == CHOOSE i : i = steps(i)
           f == [s \in SUBSET {} |-> 0]
<1>1. f = steps(f)
  OBVIOUS
<1>2. iter = steps(iter)
  BY <1>1
<1>3. iter[{}] = 0
  BY <1>2
<1>4. DOMAIN none = {}
  OBVIOUS
<1>5. SumOf(none) = iter[DOMAIN none]
  BY <1>4 DEF SumOf, FoldFunction, FoldFunctionOnSet, MapThenFoldSet
<1> QED BY <1>3, <1>4, <1>5

LEMMA VersionsAre ==
  /\ MaxPlanVersions \in Nat /\ Versions = 1 .. MaxPlanVersions /\ 1 \in Versions
  /\ \A n \in Versions : n \in Nat /\ n >= 1 /\ n <= MaxPlanVersions
<1>1. MaxPlanVersions \in Nat \ {0}
  BY PlanningAssumption DEF PlanningAssumption
<1>2. MaxPlanVersions \in Nat /\ MaxPlanVersions >= 1
  BY <1>1
<1> QED BY <1>2 DEF Versions

LEMMA NoLines == << >> \in LineSets /\ DOMAIN << >> = {}
<1>1. << >> \in [{} -> Amounts]
  OBVIOUS
<1> QED BY <1>1 DEF LineSets

LEMMA NoPlanIs ==
  /\ NoPlan \in PlanRows /\ NoPlan.status = "none" /\ NoPlan.lines = << >> /\ NoPlan.net = 0
  /\ NoPlan.contingency = 0
BY NoLines DEF NoPlan, PlanRows, PlanStates, Percents, Sums, Estimates

LEMMA NoPlReqIs == NoPlReq \in PlanRequests /\ NoPlReq.at = "idle" /\ NoPlReq.version = 0
BY DEF NoPlReq, PlanRequests, PlPoints, PlReads, Writes

LEMMA NoPlanKeyIs == Approving!NoRecord \in PlanKeyRows /\ Approving!NoRecord.state = "none"
BY DEF Approving!NoRecord, PlanKeyRows, PlanKeyStates

LEMMA IdleHolds == \A r \in PlanRequests : r.at = "idle" => BudgetRelied(r) /\ RequirementRelied(r)
BY DEF BudgetRelied, RequirementRelied

LEMMA PlInitInv == PlanningInit => PlInv
<1> SUFFICES ASSUME PlanningInit PROVE PlInv
  OBVIOUS
<1>1. budget.working = 0 /\ budget.approved = 0
      /\ budget \in [working : {0} \cup Versions, approved : {0} \cup Versions, version : Nat]
  BY DEF PlanningInit, NoBudget
<1>2. planKey \in [PlanKeys -> PlanKeyRows]
  BY NoPlanKeyIs DEF PlanningInit, Approving!IdempotencyInit, PlanKeys
<1>3. requirement \in [version : Nat, value : Values]
  BY DEF PlanningInit, Values
<1>4. plan \in [Versions -> PlanRows] /\ plReq \in [PlHandlers -> PlanRequests]
  BY NoPlanIs, NoPlReqIs DEF PlanningInit
<1>5. PlTypeOK
  BY <1>1, <1>2, <1>3, <1>4 DEF PlanningInit, PlTypeOK
<1>6. Numbering
  <2>1. \A n \in Versions : n \in Nat /\ n >= 1
    BY VersionsAre
  <2>2. \A n \in Versions : StatusOf(n) = "none"
    BY <1>1, <2>1 DEF StatusOf
  <2> QED BY <1>1, <2>2, NoPlanIs DEF PlanningInit, Numbering
<1>7. RowsHold
  BY NoPlanIs, NothingSums DEF PlanningInit, RowsHold, RowHolds
<1>8. PlRequestsHold
  BY NoPlReqIs, IdleHolds DEF PlanningInit, PlRequestsHold
<1>9. PlKeysBelong
  BY NoPlReqIs DEF PlanningInit, PlKeysBelong, HasKey
<1>10. SignedOnce
  BY NoPlanKeyIs DEF PlanningInit, SignedOnce, SignedUnder, Approving!IdempotencyInit, PlKeyOf
<1> QED BY <1>5, <1>6, <1>7, <1>8, <1>9, <1>10 DEF PlInv

----------------------------------------------------------------------------
(* What a step of any kind keeps.                                          *)

\* The budget and its versions stay, or the budget takes a higher version.
BudgetMoves == UNCHANGED <<budget, plan>> \/ budget'.version > budget.version
RequirementMoves == UNCHANGED requirement \/ requirement'.version > requirement.version

PlRequestsGoOn ==
  /\ plReq' \in [PlHandlers -> PlanRequests]
  /\ \A g \in PlHandlers : \A r \in PlanRequests :
       plReq'[g] = r => plReq[g] = r \/ (BudgetRelied(r) /\ RequirementRelied(r))'
  /\ \A g \in PlHandlers : HasKey(g)' => HasKey(g) /\ plReq'[g].key = plReq[g].key
  /\ \A g \in PlHandlers : plReq'[g].at \in {"read", "approve"} => plReq[g].at \in {"read", "approve"}

LEMMA ReliedStays ==
  ASSUME PlTypeOK, PlTypeOK', BudgetMoves, RequirementMoves,
         NEW r \in PlanRequests, BudgetRelied(r), RequirementRelied(r)
  PROVE  (BudgetRelied(r) /\ RequirementRelied(r))'
<1>1. BudgetRelied(r)'
  <2>1. CASE UNCHANGED <<budget, plan>>
    BY <2>1 DEF BudgetRelied, Working
  <2>2. CASE budget'.version > budget.version
    <3>1. r.version \in Nat /\ budget.version \in Nat /\ budget'.version \in Nat
      BY DEF PlanRequests, PlTypeOK
    <3>2. r.version <= budget.version => r.version <= budget'.version /\ r.version # budget'.version
      BY <2>2, <3>1
    <3> QED BY <3>2 DEF BudgetRelied
  <2> QED BY <2>1, <2>2 DEF BudgetMoves
<1>2. RequirementRelied(r)'
  <2>1. CASE UNCHANGED requirement
    BY <2>1 DEF RequirementRelied
  <2>2. CASE requirement'.version > requirement.version
    <3>1. r.version \in Nat /\ requirement.version \in Nat /\ requirement'.version \in Nat
      BY DEF PlanRequests, PlTypeOK
    <3> QED BY <2>2, <3>1 DEF RequirementRelied
  <2> QED BY <2>1, <2>2 DEF RequirementMoves
<1> QED BY <1>1, <1>2

LEMMA PlRequestsHoldOn ==
  ASSUME PlInv, PlTypeOK', PlRequestsGoOn, BudgetMoves, RequirementMoves
  PROVE  PlRequestsHold'
<1> SUFFICES ASSUME NEW g \in PlHandlers, NEW r \in PlanRequests, plReq'[g] = r
             PROVE  (BudgetRelied(r) /\ RequirementRelied(r))'
  BY DEF PlRequestsHold
<1>1. CASE plReq[g] = r
  BY <1>1, ReliedStays DEF PlInv, PlRequestsHold
<1> QED BY <1>1 DEF PlRequestsGoOn

\* Requests that hold a key keep it.
LEMMA PlKeysBelongOn ==
  ASSUME PlInv, PlRequestsGoOn,
         planKey' \in [PlanKeys -> PlanKeyRows],
         \A g \in PlHandlers : HasKey(g)' =>
           (planKey[PlKeyOf(plReq[g].key)] # Approving!NoRecord =>
             planKey'[PlKeyOf(plReq[g].key)] # Approving!NoRecord),
         \A g \in PlHandlers : plReq'[g].at \in {"read", "approve"} =>
           planKey'[PlKeyOf(plReq[g].key)].state = planKey[PlKeyOf(plReq[g].key)].state
  PROVE  PlKeysBelong'
<1>1. \A g, h \in PlHandlers : HasKey(g)' /\ HasKey(h)' /\ plReq'[g].key = plReq'[h].key => g = h
  BY DEF PlRequestsGoOn, PlInv, PlKeysBelong
<1>2. ASSUME NEW g \in PlHandlers, HasKey(g)'
      PROVE  (planKey[PlKeyOf(plReq[g].key)] # Approving!NoRecord)'
  <2>1. HasKey(g) /\ plReq'[g].key = plReq[g].key
    BY <1>2 DEF PlRequestsGoOn
  <2>2. planKey[PlKeyOf(plReq[g].key)] # Approving!NoRecord
    BY <2>1 DEF PlInv, PlKeysBelong
  <2>3. planKey'[PlKeyOf(plReq[g].key)] # Approving!NoRecord
    BY <1>2, <2>2
  <2> QED BY <2>1, <2>3 DEF PlKeyOf, Approving!NoRecord
<1>3. ASSUME NEW g \in PlHandlers, plReq'[g].at \in {"read", "approve"}
      PROVE  (planKey[PlKeyOf(plReq[g].key)].state = "running")'
  <2>1. plReq[g].at \in {"read", "approve"} /\ plReq'[g].key = plReq[g].key
    BY <1>3 DEF PlRequestsGoOn, HasKey
  <2>2. planKey[PlKeyOf(plReq[g].key)].state = "running"
    BY <2>1 DEF PlInv, PlKeysBelong
  <2> QED BY <1>3, <2>1, <2>2 DEF PlKeyOf
<1> QED BY <1>1, <1>2, <1>3 DEF PlKeysBelong

\* Request h goes on as r.
LEMMA OnePlGoesOn ==
  ASSUME PlInv, NEW h \in PlHandlers, NEW r \in PlanRequests,
         (BudgetRelied(r) /\ RequirementRelied(r))',
         plReq' = [plReq EXCEPT ![h] = r],
         r.at \in {"read", "approve", "answer", "fail"} => HasKey(h) /\ r.key = plReq[h].key,
         r.at \in {"read", "approve"} => plReq[h].at \in {"read", "approve"}
  PROVE  PlRequestsGoOn
<1>1. plReq' \in [PlHandlers -> PlanRequests] /\ plReq'[h] = r
      /\ \A g \in PlHandlers : g # h => plReq'[g] = plReq[g]
  BY DEF PlInv, PlTypeOK
<1>2. ASSUME NEW g \in PlHandlers, NEW q \in PlanRequests, plReq'[g] = q
      PROVE  plReq[g] = q \/ (BudgetRelied(q) /\ RequirementRelied(q))'
  <2>1. CASE g = h
    <3>1. q = r
      BY <1>1, <1>2, <2>1
    <3> QED BY <3>1
  <2> QED BY <1>1, <1>2, <2>1
<1>3. \A g \in PlHandlers : HasKey(g)' => HasKey(g) /\ plReq'[g].key = plReq[g].key
  BY <1>1 DEF HasKey
<1>4. \A g \in PlHandlers : plReq'[g].at \in {"read", "approve"} => plReq[g].at \in {"read", "approve"}
  BY <1>1
<1> QED BY <1>1, <1>2, <1>3, <1>4 DEF PlRequestsGoOn

LEMMA NobodyPlans ==
  ASSUME PlInv, UNCHANGED plReq
  PROVE  PlRequestsGoOn
BY DEF PlRequestsGoOn, HasKey, PlInv, PlTypeOK

\* A step that leaves the budget, its approvals and its keys as they are.
LEMMA QuietPlStep ==
  ASSUME PlInv, PlRequestsGoOn, UNCHANGED budgetVars, RequirementMoves,
         requirement' \in [version : Nat, value : Values]
  PROVE  PlInv'
<1>1. UNCHANGED <<budget, plan, signed, planKey>>
  BY DEF budgetVars
<1>2. PlTypeOK'
  BY <1>1 DEF PlInv, PlTypeOK, PlRequestsGoOn
<1>3. PlRequestsHold'
  BY <1>1, <1>2, PlRequestsHoldOn DEF BudgetMoves
<1>4. PlKeysBelong'
  BY <1>1, PlKeysBelongOn DEF PlInv, PlTypeOK
<1>5. Numbering' /\ RowsHold' /\ SignedOnce'
  BY <1>1 DEF PlInv, Numbering, StatusOf, RowsHold, RowHolds, Content, SignedOnce, SignedUnder, PlKeyOf
<1> QED BY <1>2, <1>3, <1>4, <1>5 DEF PlInv

----------------------------------------------------------------------------
(* Requests that start and end.                                            *)

\* A request that starts, or ends, as r.
LEMMA PlStartAs ==
  ASSUME PlInv, NEW h \in PlHandlers, NEW r \in PlanRequests, BudgetRelied(r), RequirementRelied(r),
         r.at \notin {"read", "approve", "answer", "fail"},
         plReq' = [plReq EXCEPT ![h] = r], UNCHANGED <<budgetVars, requirement>>
  PROVE  PlInv'
<1>1. (BudgetRelied(r) /\ RequirementRelied(r))'
  BY DEF BudgetRelied, RequirementRelied, Working, budgetVars
<1>2. PlRequestsGoOn
  BY <1>1, OnePlGoesOn
<1> QED BY <1>2, QuietPlStep DEF RequirementMoves, PlInv, PlTypeOK

LEMMA PlFinishStep ==
  ASSUME PlInv, NEW h \in PlHandlers, PlFinish(h), UNCHANGED <<budgetVars, requirement>>
  PROVE  PlInv'
BY NoPlReqIs, IdleHolds, PlStartAs DEF PlFinish

\* A request that starts with what it read.
LEMMA PlStarts ==
  ASSUME PlInv, NEW h \in PlHandlers, NEW r \in PlanRequests, BudgetRelied(r), RequirementRelied(r),
         r.at \notin {"read", "approve", "answer", "fail"}, StartPlanning(h, r)
  PROVE  PlInv'
BY PlStartAs DEF StartPlanning, otherVars

LEMMA SeenIs ==
  ASSUME PlInv, NEW e \in SeenBudget
  PROVE  e \in Nat /\ e >= 1 /\ e <= budget.version
BY DEF SeenBudget, PlInv, PlTypeOK

LEMMA NumberedIs ==
  ASSUME PlInv
  PROVE  /\ budget.working = 0 => Numbered = 1 .. budget.approved
         /\ budget.working = 0 => Cardinality(Numbered) = budget.approved
<1>1. budget.approved \in {0} \cup Versions /\ budget.approved \in Nat /\ budget.approved <= MaxPlanVersions
  BY VersionsAre DEF PlInv, PlTypeOK
<1>2. ASSUME budget.working = 0
      PROVE  Numbered = 1 .. budget.approved
  <2>1. \A n \in Versions : plan[n].status # "none" <=> n <= budget.approved
    BY <1>1, <1>2, VersionsAre DEF PlInv, Numbering, StatusOf
  <2> QED BY <1>1, <2>1, VersionsAre DEF Numbered
<1>3. ASSUME budget.working = 0
      PROVE  Cardinality(Numbered) = budget.approved
  BY <1>1, <1>2, <1>3, FS_Interval
<1> QED BY <1>2, <1>3

LEMMA StartVersionStep ==
  ASSUME PlInv, NEW h \in PlHandlers, NEW e \in SeenBudget, NEW n \in Versions,
         NEW c \in Contingencies, StartVersion(h, e, n, c)
  PROVE  PlInv'
<1> DEFINE on == Cardinality(Numbered) + 1
           read == plan[n]
           r == [NoPlReq EXCEPT !.at = "version", !.version = e, !.on = on, !.read = read, !.write = c]
<1>1. budget.working = 0 /\ Cardinality(Numbered) < MaxPlanVersions /\ StartPlanning(h, r)
  BY DEF StartVersion
<1>2. on = budget.approved + 1 /\ on \in Versions /\ on \in Nat
  BY <1>1, NumberedIs, VersionsAre DEF PlInv, PlTypeOK
<1>3. read \in PlanRows /\ read.net = SumOf(read.lines)
  BY DEF PlInv, PlTypeOK, RowsHold, RowHolds
<1>4. e \in Nat /\ e >= 1 /\ e <= budget.version
  BY SeenIs
<1>5. read \in PlReads /\ c \in Writes
  BY <1>3 DEF PlReads, Writes
<1> HIDE DEF on, read
<1>6. r \in PlanRequests /\ r.at = "version" /\ r.version = e /\ r.on = on /\ r.read = read
      /\ r.write = c
  BY <1>2, <1>4, <1>5, NoPlReqIs DEF PlanRequests, PlPoints
<1> HIDE DEF r
<1>7. BudgetRelied(r) /\ RequirementRelied(r)
  BY <1>1, <1>2, <1>3, <1>4, <1>6 DEF BudgetRelied, RequirementRelied
<1> QED BY <1>1, <1>6, <1>7, PlStarts

LEMMA StartAccountStep ==
  ASSUME PlInv, NEW h \in PlHandlers, NEW e \in SeenBudget, NEW n \in Versions,
         NEW c \in Codes, StartAccount(h, e, n, c)
  PROVE  PlInv'
<1> DEFINE r == [NoPlReq EXCEPT !.at = "account", !.version = e, !.on = n, !.write = c]
<1>1. Working(n) /\ StartPlanning(h, r)
  BY DEF StartAccount
<1>2. n \in Nat /\ e \in Nat /\ e >= 1 /\ e <= budget.version /\ c \in Writes
  BY SeenIs, VersionsAre DEF Writes
<1>3. r \in PlanRequests /\ r.at = "account" /\ r.version = e /\ r.on = n /\ r.write = c
  BY <1>2, NoPlReqIs DEF PlanRequests, PlPoints
<1> HIDE DEF r
<1>4. BudgetRelied(r) /\ RequirementRelied(r)
  BY <1>1, <1>2, <1>3 DEF BudgetRelied, RequirementRelied
<1> QED BY <1>1, <1>3, <1>4, PlStarts

LEMMA StartLineStep ==
  ASSUME PlInv, NEW h \in PlHandlers, NEW e \in SeenBudget, NEW n \in Versions,
         NEW l \in Lines, NEW a \in Amounts, StartLine(h, e, n, l, a)
  PROVE  PlInv'
<1> DEFINE read == DOMAIN plan[n].lines
           write == <<l, a>>
           r == [NoPlReq EXCEPT !.at = "line", !.version = e, !.on = n, !.read = read,
                                !.write = write]
<1>1. Working(n) /\ StartPlanning(h, r)
  BY DEF StartLine
<1>2. n \in Nat /\ e \in Nat /\ e >= 1 /\ e <= budget.version
  BY SeenIs, VersionsAre
<1>3. read \in PlReads
  <2>1. plan[n].lines \in LineSets
    BY DEF PlInv, PlTypeOK, PlanRows
  <2>2. read \in SUBSET Lines
    BY <2>1 DEF LineSets
  <2> QED BY <2>2 DEF PlReads
<1>4. write \in Lines \X Amounts /\ write \in Writes
  BY DEF Writes
<1> HIDE DEF read, write
<1>5. r \in PlanRequests /\ r.at = "line" /\ r.version = e /\ r.on = n /\ r.write = write
  BY <1>2, <1>3, <1>4, NoPlReqIs DEF PlanRequests, PlPoints
<1> HIDE DEF r
<1>6. BudgetRelied(r) /\ RequirementRelied(r)
  BY <1>1, <1>2, <1>4, <1>5 DEF BudgetRelied, RequirementRelied
<1> QED BY <1>1, <1>5, <1>6, PlStarts

LEMMA StartBudgetApprovalStep ==
  ASSUME PlInv, NEW h \in PlHandlers, NEW e \in SeenBudget, NEW n \in Versions,
         NEW k \in PlKeys, StartBudgetApproval(h, k, e, n)
  PROVE  PlInv'
<1> DEFINE r == [NoPlReq EXCEPT !.at = "begin", !.key = k, !.version = e, !.on = n]
<1>1. StartPlanning(h, r)
  BY DEF StartBudgetApproval
<1>2. n \in Nat /\ e \in Nat /\ e >= 1 /\ e <= budget.version
  BY SeenIs, VersionsAre
<1>3. r \in PlanRequests /\ r.at = "begin" /\ r.version = e /\ r.on = n /\ r.key = k
  BY <1>2, NoPlReqIs DEF PlanRequests, PlPoints
<1> HIDE DEF r
<1>4. BudgetRelied(r) /\ RequirementRelied(r)
  BY <1>1, <1>2, <1>3 DEF BudgetRelied, RequirementRelied
<1> QED BY <1>1, <1>3, <1>4, PlStarts

LEMMA StartRequirementStep ==
  ASSUME PlInv, NEW h \in PlHandlers, NEW e \in 1 .. requirement.version, NEW f \in SUBSET Fields,
         StartRequirement(h, e, f)
  PROVE  PlInv'
<1> DEFINE read == requirement.value
           r == [NoPlReq EXCEPT !.at = "requirement", !.version = e, !.read = read, !.write = f]
<1>1. StartPlanning(h, r)
  BY DEF StartRequirement
<1>2. read \in Values /\ read \in PlReads /\ f \in Writes
  BY DEF PlInv, PlTypeOK, PlReads, Writes
<1>3. e \in Nat /\ e <= requirement.version
  BY DEF PlInv, PlTypeOK
<1> HIDE DEF read
<1>4. r \in PlanRequests /\ r.at = "requirement" /\ r.version = e /\ r.read = read /\ r.write = f
  BY <1>2, <1>3, NoPlReqIs DEF PlanRequests, PlPoints
<1> HIDE DEF r
<1>5. BudgetRelied(r) /\ RequirementRelied(r)
  BY <1>2, <1>3, <1>4 DEF BudgetRelied, RequirementRelied, read
<1> QED BY <1>1, <1>4, <1>5, PlStarts

LEMMA StartReservationStep ==
  ASSUME PlInv, NEW h \in PlHandlers, NEW x \in Reservations, NEW on \in Items \cup Kits,
         NEW w \in Windows, NEW b \in BOOLEAN, StartReservation(h, x, on, w, b)
  PROVE  PlInv'
<1> DEFINE read == ClashesWith(on, w)
           write == [on |-> on, window |-> w, overridden |-> b]
           r == [NoPlReq EXCEPT !.at = "reserve", !.on = x, !.read = read, !.write = write]
<1>1. StartPlanning(h, r)
  BY DEF StartReservation
<1>2. read \in PlReads /\ write \in Writes
  BY DEF ClashesWith, PlReads, Writes, ReservationRows
<1> HIDE DEF read, write
<1>3. r \in PlanRequests /\ r.at = "reserve"
  BY <1>2, NoPlReqIs DEF PlanRequests, PlPoints
<1> HIDE DEF r
<1>4. BudgetRelied(r) /\ RequirementRelied(r)
  BY <1>3 DEF BudgetRelied, RequirementRelied
<1> QED BY <1>1, <1>3, <1>4, PlStarts

LEMMA PlEndStep ==
  ASSUME PlInv, NEW h \in PlHandlers,
         AnswerApproved(h) \/ AbortRequirement(h) \/ CommitReservation(h) \/ PlDrop(h)
  PROVE  PlInv'
BY PlFinishStep DEF AnswerApproved, AbortRequirement, CommitReservation, PlDrop, otherVars

LEMMA SetKitMemberStep ==
  ASSUME PlInv, NEW k \in Kits, NEW i \in Items, SetKitMember(k, i)
  PROVE  PlInv'
BY NobodyPlans, QuietPlStep DEF SetKitMember, RequirementMoves, PlInv, PlTypeOK

----------------------------------------------------------------------------
(* The requirement.                                                        *)

LEMMA AddRequirementStep ==
  ASSUME PlInv, AddRequirement
  PROVE  PlInv' /\ requirement'.value = requirement.value
<1>1. requirement' \in [version : Nat, value : Values] /\ requirement'.version = 1
      /\ requirement.version = 0 /\ requirement'.value = requirement.value
  BY DEF AddRequirement, PlInv, PlTypeOK
<1>2. RequirementMoves
  BY <1>1 DEF RequirementMoves
<1> QED BY <1>1, <1>2, NobodyPlans, QuietPlStep DEF AddRequirement

LEMMA CommitRequirementStep ==
  ASSUME PlInv, NEW h \in PlHandlers, CommitRequirement(h)
  PROVE  /\ PlInv'
         /\ \A f \in Fields \ (plReq[h].write \cup Defaulted) :
              requirement'.value[f] = requirement.value[f]
<1>1. PICK r \in PlanRequests : r = plReq[h]
  BY DEF PlInv, PlTypeOK
<1>2. r.at = "requirement" /\ r.version = requirement.version
  BY <1>1 DEF CommitRequirement, RequirementGuard
<1>3. RequirementRelied(r)
  BY <1>1 DEF PlInv, PlRequestsHold
<1>4. r.read = requirement.value /\ requirement.value \in Values /\ requirement.version \in Nat
  BY <1>2, <1>3 DEF RequirementRelied, PlInv, PlTypeOK
<1> DEFINE value == [f \in Fields |-> CASE f \in r.write -> requirement.version
                                     [] f \in Defaulted \ r.write -> 0
                                     [] OTHER -> r.read[f]]
           after == requirement.version + 1
<1>5. requirement' = [version |-> after, value |-> value]
  BY <1>1 DEF CommitRequirement
<1>6. value \in Values /\ after \in Nat /\ after > requirement.version
      /\ \A f \in Fields \ (r.write \cup Defaulted) : value[f] = requirement.value[f]
  BY <1>4 DEF Values
<1> HIDE DEF value, after
<1>7. requirement' \in [version : Nat, value : Values] /\ requirement'.value = value
      /\ RequirementMoves
  BY <1>5, <1>6 DEF RequirementMoves
<1>8. PlFinish(h) /\ UNCHANGED budgetVars
  BY DEF CommitRequirement
<1>9. (BudgetRelied(NoPlReq) /\ RequirementRelied(NoPlReq))'
  BY NoPlReqIs DEF BudgetRelied, RequirementRelied
<1>10. PlRequestsGoOn
  BY <1>8, <1>9, NoPlReqIs, OnePlGoesOn DEF PlFinish
<1> QED BY <1>1, <1>6, <1>7, <1>8, <1>10, QuietPlStep

----------------------------------------------------------------------------
(* The budget and its versions.                                            *)

\* The budget takes a higher version, and version n becomes new.
LEMMA BudgetStep ==
  ASSUME PlInv, PlRequestsGoOn, UNCHANGED <<signed, planKey, requirement>>,
         NEW w \in {0} \cup Versions, NEW v \in Nat, v > budget.version,
         budget' = [working |-> w, approved |-> budget.approved, version |-> v],
         w = budget.working \/ w = budget.approved + 1,
         NEW n \in Versions, NEW new \in PlanRows, plan' = [plan EXCEPT ![n] = new],
         budget.working \in {0, w}, n = w,
         new.status = "working", RowHolds(new)
  PROVE  PlInv'
<1>1. /\ budget' \in [working : {0} \cup Versions, approved : {0} \cup Versions, version : Nat]
      /\ budget'.version = v /\ budget'.working = w /\ budget'.approved = budget.approved
  BY DEF PlInv, PlTypeOK
<1>2. /\ plan' \in [Versions -> PlanRows] /\ plan'[n] = new
      /\ \A m \in Versions : m # n => plan'[m] = plan[m]
  BY DEF PlInv, PlTypeOK
<1>3. PlTypeOK'
  BY <1>1, <1>2 DEF PlInv, PlTypeOK, PlRequestsGoOn
<1>4. budget.working \in Nat /\ budget.approved \in Nat /\ w \in Nat /\ w > budget.approved
  BY VersionsAre DEF PlInv, PlTypeOK, Numbering
<1>5. \A m \in Versions : plan'[m].status = StatusOf(m)'
  <2> SUFFICES ASSUME NEW m \in Versions PROVE plan'[m].status = StatusOf(m)'
    OBVIOUS
  <2>1. m \in Nat /\ n \in Nat
    BY VersionsAre
  <2>2. plan[m].status = StatusOf(m)
    BY DEF PlInv, Numbering
  <2>3. CASE m = n
    BY <1>1, <1>2, <1>4, <2>1, <2>3 DEF StatusOf
  <2>4. CASE m # n
    BY <1>1, <1>2, <1>4, <2>1, <2>2, <2>4 DEF StatusOf
  <2> QED BY <2>3, <2>4
<1>6. Numbering'
  BY <1>1, <1>4, <1>5 DEF Numbering, PlInv
<1>7. RowsHold'
  BY <1>2 DEF PlInv, RowsHold, RowHolds, Content
<1>8. PlRequestsHold'
  BY <1>1, <1>3, PlRequestsHoldOn DEF BudgetMoves, RequirementMoves
<1>9. PlKeysBelong'
  BY PlKeysBelongOn DEF PlInv, PlTypeOK
<1>10. SignedOnce'
  BY <1>1 DEF PlInv, SignedOnce, SignedUnder, PlKeyOf
<1> QED BY <1>3, <1>6, <1>7, <1>8, <1>9, <1>10 DEF PlInv

LEMMA CreateBudgetStep ==
  ASSUME PlInv, NEW c \in Contingencies, CreateBudget(c)
  PROVE  PlInv'
<1> DEFINE new == [NoPlan EXCEPT !.status = "working", !.contingency = c]
<1>1. new \in PlanRows /\ new.status = "working" /\ new.net = 0 /\ new.lines = << >>
  BY NoPlanIs DEF PlanRows, PlanStates, Percents
<1>2. RowHolds(new)
  <2> HIDE DEF new
  <2> QED BY <1>1, NothingSums DEF RowHolds
<1>3. budget.working = 0 /\ budget.approved = 0 /\ budget.version = 0
  BY DEF CreateBudget, NoBudget
<1>4. budget' = [working |-> 1, approved |-> budget.approved, version |-> 1]
  BY <1>3 DEF CreateBudget
<1>5. plan' = [plan EXCEPT ![1] = new] /\ UNCHANGED <<signed, planKey, requirement, plReq>>
  BY DEF CreateBudget, otherVars
<1>6. 1 \in Versions
  BY VersionsAre
<1>7. PlRequestsGoOn
  BY <1>5, NobodyPlans
<1>8. /\ 1 \in {0} \cup Versions /\ 1 \in Nat /\ 1 > budget.version
      /\ budget.working \in {0, 1}
  BY <1>3, <1>6
<1>9. 1 = budget.approved + 1
  BY <1>3
<1> HIDE DEF new
<1> QED BY <1>1, <1>2, <1>4, <1>5, <1>6, <1>7, <1>8, <1>9, BudgetStep

LEMMA FinishGoesOn ==
  ASSUME PlInv, NEW h \in PlHandlers, PlFinish(h)
  PROVE  PlRequestsGoOn
<1>1. (BudgetRelied(NoPlReq) /\ RequirementRelied(NoPlReq))'
  BY NoPlReqIs DEF BudgetRelied, RequirementRelied
<1> QED BY <1>1, NoPlReqIs, OnePlGoesOn DEF PlFinish

\* What a batch on the budget may rely on.
LEMMA BatchRelies ==
  ASSUME PlInv, NEW h \in PlHandlers, NEW r \in PlanRequests, r = plReq[h]
  PROVE  BudgetRelied(r) /\ RequirementRelied(r)
BY DEF PlInv, PlRequestsHold

LEMMA CommitVersionStep ==
  ASSUME PlInv, NEW h \in PlHandlers, CommitVersion(h)
  PROVE  PlInv'
<1>1. PICK r \in PlanRequests : r = plReq[h]
  BY DEF PlInv, PlTypeOK
<1>2. r.at = "version" /\ r.version = budget.version
  BY <1>1 DEF CommitVersion, GuardHolds
<1>3. BudgetRelied(r)
  BY <1>1, BatchRelies
<1> DEFINE n == r.on
           read == r.read
           write == r.write
           new == [read EXCEPT !.status = "working", !.contingency = write, !.hash = {}]
           v == budget.version + 1
<1>4. n \in Versions /\ n = budget.approved + 1 /\ budget.working = 0
  BY <1>2, <1>3 DEF BudgetRelied
<1>5. read \in PlanRows /\ read.net = SumOf(read.lines) /\ write \in Contingencies
  BY <1>2, <1>3 DEF BudgetRelied
<1>6. /\ budget' = [budget EXCEPT !.working = n, !.version = @ + 1]
      /\ plan' = [plan EXCEPT ![n] = new] /\ PlFinish(h)
      /\ UNCHANGED <<signed, planKey, requirement>>
  BY <1>1 DEF CommitVersion, otherVars
<1>7. v \in Nat /\ v > budget.version
  BY DEF PlInv, PlTypeOK
<1> HIDE DEF n, read, write
<1>8. budget' = [working |-> n, approved |-> budget.approved, version |-> v]
  BY <1>6 DEF PlInv, PlTypeOK
<1>9. new \in PlanRows /\ new.status = "working" /\ new.net = read.net /\ new.lines = read.lines
  BY <1>5 DEF PlanRows, PlanStates, Percents
<1> HIDE DEF new, v
<1>10. RowHolds(new)
  BY <1>5, <1>9 DEF RowHolds
<1>11. PlRequestsGoOn
  BY <1>6, FinishGoesOn
<1> QED BY <1>4, <1>6, <1>7, <1>8, <1>9, <1>10, <1>11, BudgetStep

LEMMA CommitAccountStep ==
  ASSUME PlInv, NEW h \in PlHandlers, CommitAccount(h)
  PROVE  PlInv'
<1>1. PICK r \in PlanRequests : r = plReq[h]
  BY DEF PlInv, PlTypeOK
<1>2. r.at = "account" /\ r.version = budget.version
  BY <1>1 DEF CommitAccount, GuardHolds
<1>3. BudgetRelied(r)
  BY <1>1, BatchRelies
<1> DEFINE n == r.on
           write == r.write
           old == plan[n]
           accounts == old.accounts \cup {write}
           new == [old EXCEPT !.accounts = accounts]
           v == budget.version + 1
<1>4. Working(n) /\ write \in Codes
  BY <1>2, <1>3 DEF BudgetRelied
<1>5. n \in Versions /\ budget.working = n /\ old.status = "working"
  BY <1>4 DEF Working
<1>6. old \in PlanRows /\ RowHolds(old)
  BY <1>5 DEF PlInv, PlTypeOK, RowsHold
<1>7. /\ budget' = [budget EXCEPT !.version = @ + 1]
      /\ plan' = [plan EXCEPT ![n].accounts = @ \cup {write}] /\ PlFinish(h)
      /\ UNCHANGED <<signed, planKey, requirement>>
  BY <1>1 DEF CommitAccount, otherVars
<1>8. v \in Nat /\ v > budget.version
  BY DEF PlInv, PlTypeOK
<1>9. plan' = [plan EXCEPT ![n] = new]
  BY <1>5, <1>7 DEF PlInv, PlTypeOK
<1>10. accounts \in SUBSET Codes
  BY <1>4, <1>6 DEF PlanRows
<1>11. budget' = [working |-> n, approved |-> budget.approved, version |-> v]
  BY <1>5, <1>7 DEF PlInv, PlTypeOK
<1> HIDE DEF n, write, old, accounts
<1>12. new \in PlanRows /\ new.status = "working" /\ new.net = old.net /\ new.lines = old.lines
  BY <1>5, <1>6, <1>10 DEF PlanRows
<1> HIDE DEF new, v
<1>13. RowHolds(new)
  BY <1>6, <1>12 DEF RowHolds
<1>14. PlRequestsGoOn
  BY <1>7, FinishGoesOn
<1>15. n \in {0} \cup Versions /\ budget.working \in {0, n}
  BY <1>5
<1> QED BY <1>5, <1>7, <1>8, <1>9, <1>11, <1>12, <1>13, <1>14, <1>15, BudgetStep

LEMMA WithLineIs ==
  ASSUME NEW lines \in LineSets, NEW l \in Lines, NEW a \in Amounts
  PROVE  WithLine(lines, l, a) \in LineSets
<1>1. PICK L \in SUBSET Lines : lines \in [L -> Amounts]
  BY DEF LineSets
<1>2. WithLine(lines, l, a) \in [(L \cup {l}) -> Amounts]
  BY <1>1 DEF WithLine
<1>3. (L \cup {l}) \in SUBSET Lines
  OBVIOUS
<1> QED BY <1>2, <1>3 DEF LineSets

\* A line keeps the totals of a version those of its lines.
LEMMA TotalledHolds ==
  ASSUME NEW v \in PlanRows, v.status = "working", NEW l \in Lines, NEW a \in Amounts
  PROVE  /\ Totalled(v, l, a) \in PlanRows /\ Totalled(v, l, a).status = "working"
         /\ RowHolds(Totalled(v, l, a))
<1> DEFINE after == WithLine(v.lines, l, a)
           net == SumOf(after)
           estimate == WithContingency(net, v.contingency)
           new == [v EXCEPT !.lines = after, !.net = net, !.estimate = estimate]
<1>1. v.lines \in LineSets /\ v.contingency \in Percents
  BY DEF PlanRows
<1>2. after \in LineSets
  BY <1>1, WithLineIs
<1>3. net \in Sums
  BY <1>2 DEF Sums
<1>4. estimate \in Estimates
  BY <1>1, <1>3 DEF Estimates
<1>5. Totalled(v, l, a) = new
  BY DEF Totalled
<1> HIDE DEF after, net, estimate
<1>6. new \in PlanRows /\ new.status = "working" /\ new.lines = after /\ new.net = net
  BY <1>2, <1>3, <1>4 DEF PlanRows
<1> HIDE DEF new
<1>7. RowHolds(new)
  BY <1>6 DEF RowHolds, net
<1> QED BY <1>5, <1>6, <1>7

LEMMA CommitLineStep ==
  ASSUME PlInv, NEW h \in PlHandlers, CommitLine(h)
  PROVE  PlInv'
<1>1. PICK r \in PlanRequests : r = plReq[h]
  BY DEF PlInv, PlTypeOK
<1>2. r.at = "line" /\ r.version = budget.version
  BY <1>1 DEF CommitLine, GuardHolds
<1>3. BudgetRelied(r)
  BY <1>1, BatchRelies
<1> DEFINE n == r.on
           l == r.write[1]
           a == r.write[2]
           old == plan[n]
           new == Totalled(old, l, a)
           v == budget.version + 1
<1>4. Working(n) /\ l \in Lines /\ a \in Amounts
  BY <1>2, <1>3 DEF BudgetRelied
<1>5. n \in Versions /\ budget.working = n /\ old.status = "working"
  BY <1>4 DEF Working
<1>6. old \in PlanRows
  BY <1>5 DEF PlInv, PlTypeOK
<1>7. /\ budget' = [budget EXCEPT !.version = @ + 1]
      /\ plan' = [plan EXCEPT ![n] = new] /\ PlFinish(h)
      /\ UNCHANGED <<signed, planKey, requirement>>
  BY <1>1, <1>5 DEF CommitLine, otherVars
<1>8. v \in Nat /\ v > budget.version
  BY DEF PlInv, PlTypeOK
<1>9. budget' = [working |-> n, approved |-> budget.approved, version |-> v]
  BY <1>5, <1>7 DEF PlInv, PlTypeOK
<1>10. new \in PlanRows /\ new.status = "working" /\ RowHolds(new)
  <2> HIDE DEF l, a, old
  <2> QED BY <1>4, <1>5, <1>6, TotalledHolds
<1>11. PlRequestsGoOn
  BY <1>7, FinishGoesOn
<1>12. n \in {0} \cup Versions /\ budget.working \in {0, n}
  BY <1>5
<1> HIDE DEF n, new, v
<1> QED BY <1>5, <1>7, <1>8, <1>9, <1>10, <1>11, <1>12, BudgetStep

----------------------------------------------------------------------------
(* The approval.                                                           *)

\* A request goes to another point with what it was sent.
LEMMA PlGotoIs ==
  ASSUME PlInv, NEW h \in PlHandlers, NEW r \in PlanRequests, r = plReq[h],
         NEW at \in PlPoints, PlGoto(h, at)
  PROVE  \E s \in PlanRequests :
           /\ s.at = at /\ s.key = r.key /\ s.version = r.version /\ s.on = r.on
           /\ plReq' = [plReq EXCEPT ![h] = s]
<1> DEFINE s == [r EXCEPT !.at = at, !.read = {}]
<1>1. s \in PlanRequests /\ s.at = at /\ s.key = r.key /\ s.version = r.version /\ s.on = r.on
  BY DEF PlanRequests, PlReads
<1>2. plReq' = [plReq EXCEPT ![h] = s]
  BY DEF PlGoto, PlInv, PlTypeOK
<1> QED BY <1>1, <1>2

LEMMA BeginApprovalStep ==
  ASSUME PlInv, NEW h \in PlHandlers, BeginApproval(h)
  PROVE  PlInv'
<1>1. PICK r \in PlanRequests : r = plReq[h]
  BY DEF PlInv, PlTypeOK
<1>2. r.at = "begin" /\ PlGoto(h, "read") /\ UNCHANGED <<budget, plan, signed, requirement>>
  BY <1>1 DEF BeginApproval, otherVars
<1>3. PICK s \in PlanRequests :
        /\ s.at = "read" /\ s.key = r.key /\ s.version = r.version /\ s.on = r.on
        /\ plReq' = [plReq EXCEPT ![h] = s]
  BY <1>1, <1>2, PlGotoIs DEF PlPoints
<1>4. BudgetRelied(r)
  BY <1>1, BatchRelies
<1> DEFINE key == PlKeyOf(r.key)
           new == [Approving!NoRecord EXCEPT !.state = "running", !.body = r.on]
<1>5. r.key \in PlKeys /\ r.on \in Versions /\ key \in PlanKeys
  BY <1>2, <1>4 DEF BudgetRelied, PlanKeys, PlKeyOf
<1>6. planKey[key] = Approving!NoRecord /\ planKey' = [planKey EXCEPT ![key] = new]
  BY <1>1 DEF BeginApproval, Approving!Begin, PlKeyOf, Approving!NoRecord
<1>7. new \in PlanKeyRows /\ new.state = "running" /\ new # Approving!NoRecord
  BY <1>5 DEF PlanKeyRows, PlanKeyStates, Approving!NoRecord
<1> HIDE DEF new
<1>8. /\ planKey' \in [PlanKeys -> PlanKeyRows] /\ planKey'[key] = new
      /\ \A k \in PlKeys : k # r.key => planKey'[PlKeyOf(k)] = planKey[PlKeyOf(k)]
  BY <1>5, <1>6, <1>7 DEF PlInv, PlTypeOK, PlanKeys, PlKeyOf
<1>9. /\ plReq' \in [PlHandlers -> PlanRequests] /\ plReq'[h] = s
      /\ \A g \in PlHandlers : g # h => plReq'[g] = plReq[g]
  BY <1>3 DEF PlInv, PlTypeOK
<1>10. PlTypeOK'
  BY <1>2, <1>8, <1>9 DEF PlInv, PlTypeOK
<1>11. PlRequestsHold'
  <2> SUFFICES ASSUME NEW g \in PlHandlers, NEW q \in PlanRequests, plReq'[g] = q
               PROVE  (BudgetRelied(q) /\ RequirementRelied(q))'
    BY DEF PlRequestsHold
  <2>1. CASE g = h
    <3>1. q.at = "read" /\ q.key \in PlKeys /\ q.on = r.on /\ q.version = r.version
      BY <1>3, <1>5, <1>9, <2>1
    <3>2. r.version >= 1 /\ r.version <= budget.version
      BY <1>2, <1>4 DEF BudgetRelied
    <3> QED BY <1>2, <1>5, <3>1, <3>2 DEF BudgetRelied, RequirementRelied
  <2>2. CASE g # h
    <3>1. BudgetRelied(q) /\ RequirementRelied(q)
      BY <1>9, <2>2 DEF PlInv, PlRequestsHold
    <3> QED BY <1>2, <3>1 DEF BudgetRelied, RequirementRelied, Working
  <2> QED BY <2>1, <2>2
<1>12. PlKeysBelong'
  <2>1. ASSUME NEW g \in PlHandlers, g # h, HasKey(g)
        PROVE  plReq[g].key \in PlKeys /\ plReq[g].key # r.key
    <3>1. PICK q \in PlanRequests : q = plReq[g]
      BY DEF PlInv, PlTypeOK
    <3>2. q.key \in PlKeys
      BY <2>1, <3>1, BatchRelies DEF BudgetRelied, HasKey
    <3>3. planKey[PlKeyOf(q.key)] # Approving!NoRecord
      BY <2>1, <3>1 DEF PlInv, PlKeysBelong
    <3> QED BY <1>6, <3>1, <3>2, <3>3
  <2>2. \A f, g \in PlHandlers : HasKey(f)' /\ HasKey(g)' /\ plReq'[f].key = plReq'[g].key => f = g
    BY <1>3, <1>9, <2>1 DEF HasKey, PlInv, PlKeysBelong
  <2>3. ASSUME NEW g \in PlHandlers, HasKey(g)'
        PROVE  /\ (planKey[PlKeyOf(plReq[g].key)] # Approving!NoRecord)'
               /\ (plReq[g].at \in {"read", "approve"} => planKey[PlKeyOf(plReq[g].key)].state = "running")'
    <3>1. CASE g = h
      <4>1. plReq'[g].key = r.key
        BY <1>3, <1>9, <3>1
      <4>2. planKey'[PlKeyOf(r.key)] # Approving!NoRecord /\ planKey'[PlKeyOf(r.key)].state = "running"
        BY <1>7, <1>8
      <4> QED BY <4>1, <4>2 DEF PlKeyOf, Approving!NoRecord
    <3>2. CASE g # h
      <4>1. HasKey(g) /\ plReq'[g] = plReq[g]
        BY <1>9, <2>3, <3>2 DEF HasKey
      <4>2. planKey'[PlKeyOf(plReq[g].key)] = planKey[PlKeyOf(plReq[g].key)]
        BY <1>8, <2>1, <3>2, <4>1
      <4>3. planKey[PlKeyOf(plReq[g].key)] # Approving!NoRecord
            /\ (plReq[g].at \in {"read", "approve"} => planKey[PlKeyOf(plReq[g].key)].state = "running")
        BY <4>1 DEF PlInv, PlKeysBelong
      <4> QED BY <4>1, <4>2, <4>3 DEF PlKeyOf, Approving!NoRecord
    <3> QED BY <3>1, <3>2
  <2> QED BY <2>2, <2>3 DEF PlKeysBelong, HasKey
<1>13. Numbering' /\ RowsHold'
  BY <1>2 DEF PlInv, Numbering, StatusOf, RowsHold, RowHolds, Content
<1>14. SignedOnce'
  <2>1. \A k \in PlKeys : planKey'[PlKeyOf(k)].state = "completed"
           <=> planKey[PlKeyOf(k)].state = "completed"
    BY <1>6, <1>7, <1>8, NoPlanKeyIs
  <2>2. \A k \in PlKeys : planKey[PlKeyOf(k)].state = "completed" => planKey'[PlKeyOf(k)] = planKey[PlKeyOf(k)]
    BY <1>6, <1>8, NoPlanKeyIs
  <2> QED BY <1>2, <2>1, <2>2 DEF PlInv, SignedOnce, SignedUnder, PlKeyOf
<1> QED BY <1>10, <1>11, <1>12, <1>13, <1>14 DEF PlInv

LEMMA ReadForApprovalStep ==
  ASSUME PlInv, NEW h \in PlHandlers, ReadForApproval(h)
  PROVE  PlInv'
<1>1. PICK r \in PlanRequests : r = plReq[h]
  BY DEF PlInv, PlTypeOK
<1>2. r.at = "read" /\ UNCHANGED <<budgetVars, requirement>>
  BY <1>1 DEF ReadForApproval, otherVars
<1>3. BudgetRelied(r)
  BY <1>1, BatchRelies
<1> DEFINE read == Content(plan[r.on])
           found == Working(r.on) /\ DOMAIN plan[r.on].lines # {}
           at == IF found THEN "approve" ELSE "fail"
           content == IF found THEN read ELSE {}
           s == [r EXCEPT !.at = at, !.read = content]
<1>4. plReq' = [plReq EXCEPT ![h] = s]
  BY <1>1 DEF ReadForApproval, PlInv, PlTypeOK
<1>5. found => read \in PlanContents
  <2>1. found => plan[r.on] \in PlanRows
    BY DEF Working, PlInv, PlTypeOK
  <2> QED BY <2>1 DEF Content, PlanContents, PlanRows
<1>6. content \in PlReads /\ at \in PlPoints
  BY <1>5 DEF PlReads, PlPoints
<1>7. found => Working(r.on)
  OBVIOUS
<1>8. at \in {"approve", "fail"} /\ (at = "approve" => found /\ content = read)
  OBVIOUS
<1> HIDE DEF content, at, found
<1>9. s \in PlanRequests /\ s.at = at /\ s.read = content /\ s.key = r.key
      /\ s.version = r.version /\ s.on = r.on
  BY <1>6 DEF PlanRequests
<1>10. PICK q \in PlanRequests : q = s
  BY <1>9
<1> HIDE DEF s
<1>11. BudgetRelied(q) /\ RequirementRelied(q)
  BY <1>2, <1>3, <1>5, <1>7, <1>8, <1>9, <1>10 DEF BudgetRelied, RequirementRelied
<1>12. (BudgetRelied(q) /\ RequirementRelied(q))'
  BY <1>2, <1>11 DEF BudgetRelied, RequirementRelied, Working, budgetVars, Content
<1>13. HasKey(h)
  BY <1>1, <1>2 DEF HasKey
<1>14. PlRequestsGoOn
  BY <1>1, <1>2, <1>4, <1>8, <1>9, <1>12, <1>13, <1>10, OnePlGoesOn
<1> QED BY <1>2, <1>14, QuietPlStep DEF RequirementMoves, PlInv, PlTypeOK

\* A request that failed while it held a key.
LEMMA PlFailsStep ==
  ASSUME PlInv, NEW h \in PlHandlers, HasKey(h), PlGoto(h, "fail"),
         UNCHANGED <<budgetVars, requirement>>
  PROVE  PlInv'
<1>1. PICK r \in PlanRequests : r = plReq[h]
  BY DEF PlInv, PlTypeOK
<1>2. PICK s \in PlanRequests :
        /\ s.at = "fail" /\ s.key = r.key /\ s.version = r.version /\ s.on = r.on
        /\ plReq' = [plReq EXCEPT ![h] = s]
  BY <1>1, PlGotoIs DEF PlPoints
<1>3. r.key \in PlKeys
  BY <1>1, BatchRelies DEF BudgetRelied, HasKey
<1>4. (BudgetRelied(s) /\ RequirementRelied(s))'
  BY <1>2, <1>3 DEF BudgetRelied, RequirementRelied
<1>5. PlRequestsGoOn
  BY <1>1, <1>2, <1>4, OnePlGoesOn
<1> QED BY <1>5, QuietPlStep DEF RequirementMoves, PlInv, PlTypeOK

LEMMA AbortPlanningStep ==
  ASSUME PlInv, NEW h \in PlHandlers, AbortPlanning(h)
  PROVE  PlInv'
<1>1. UNCHANGED <<budgetVars, requirement>>
  BY DEF AbortPlanning, otherVars
<1>2. CASE plReq[h].at = "approve"
  <2>1. HasKey(h) /\ PlGoto(h, "fail")
    BY <1>2 DEF AbortPlanning, HasKey
  <2> QED BY <1>1, <2>1, PlFailsStep
<1>3. CASE plReq[h].at # "approve"
  <2>1. PlFinish(h)
    BY <1>3 DEF AbortPlanning
  <2> QED BY <1>1, <2>1, PlFinishStep
<1> QED BY <1>2, <1>3

LEMMA LoseApprovalStep ==
  ASSUME PlInv, NEW h \in PlHandlers, LoseApproval(h)
  PROVE  PlInv'
BY PlFailsStep DEF LoseApproval, HasKey, otherVars

LEMMA MarkApprovalFailedStep ==
  ASSUME PlInv, NEW h \in PlHandlers, MarkApprovalFailed(h)
  PROVE  PlInv'
<1>1. PICK r \in PlanRequests : r = plReq[h]
  BY DEF PlInv, PlTypeOK
<1>2. r.at = "fail" /\ PlFinish(h) /\ UNCHANGED <<budget, plan, signed, requirement>>
  BY <1>1 DEF MarkApprovalFailed, otherVars
<1>3. r.key \in PlKeys
  BY <1>1, <1>2, BatchRelies DEF BudgetRelied
<1>4. planKey' = Approving!Failed("approve", r.key)
  BY <1>1 DEF MarkApprovalFailed
<1> DEFINE key == PlKeyOf(r.key)
           new == IF planKey[key].state = "running" THEN [planKey[key] EXCEPT !.state = "failed"]
                    ELSE planKey[key]
<1>5. key \in PlanKeys /\ planKey[key] \in PlanKeyRows
  BY <1>3 DEF PlKeyOf, PlanKeys, PlInv, PlTypeOK
<1>6. planKey' = [planKey EXCEPT ![key] = new]
  BY <1>4, <1>5 DEF Approving!Failed, PlKeyOf, PlInv, PlTypeOK
<1>7. /\ new \in PlanKeyRows
      /\ planKey[key] # Approving!NoRecord => new # Approving!NoRecord
      /\ new.state = "completed" <=> planKey[key].state = "completed"
      /\ planKey[key].state = "completed" => new = planKey[key]
  BY <1>5 DEF PlanKeyRows, PlanKeyStates, Approving!NoRecord
<1> HIDE DEF new
<1>8. /\ planKey' \in [PlanKeys -> PlanKeyRows] /\ planKey'[key] = new
      /\ \A k \in PlKeys : k # r.key => planKey'[PlKeyOf(k)] = planKey[PlKeyOf(k)]
  BY <1>5, <1>6, <1>7 DEF PlInv, PlTypeOK, PlanKeys, PlKeyOf
<1>9. PlRequestsGoOn
  BY <1>2, FinishGoesOn
<1>10. PlTypeOK'
  BY <1>2, <1>8, <1>9 DEF PlInv, PlTypeOK, PlRequestsGoOn
<1>11. PlRequestsHold'
  BY <1>2, <1>9, <1>10, PlRequestsHoldOn DEF BudgetMoves, RequirementMoves
<1>12. \A g \in PlHandlers : HasKey(g)' => g # h /\ HasKey(g) /\ plReq[g].key \in PlKeys
  <2> SUFFICES ASSUME NEW g \in PlHandlers, HasKey(g)'
               PROVE  g # h /\ HasKey(g) /\ plReq[g].key \in PlKeys
    OBVIOUS
  <2>1. HasKey(g)
    BY <1>9 DEF PlRequestsGoOn
  <2>2. PICK q \in PlanRequests : q = plReq[g]
    BY DEF PlInv, PlTypeOK
  <2>3. q.key \in PlKeys
    BY <2>1, <2>2, BatchRelies DEF BudgetRelied, HasKey
  <2>4. plReq'[h].at = "idle"
    BY <1>2, NoPlReqIs DEF PlFinish, PlInv, PlTypeOK
  <2> QED BY <2>1, <2>2, <2>3, <2>4 DEF HasKey
<1>13. \A g \in PlHandlers : HasKey(g)' => planKey'[PlKeyOf(plReq[g].key)] = planKey[PlKeyOf(plReq[g].key)]
  <2>1. HasKey(h)
    BY <1>1, <1>2 DEF HasKey
  <2>2. \A g \in PlHandlers : HasKey(g)' => plReq[g].key # r.key
    BY <1>1, <1>12, <2>1 DEF PlInv, PlKeysBelong
  <2> QED BY <1>8, <1>12, <2>2
<1>14. PlKeysBelong'
  <2>1. \A g \in PlHandlers : plReq'[g].at \in {"read", "approve"} => HasKey(g)'
    BY DEF HasKey
  <2> QED BY <1>8, <1>9, <1>13, <2>1, PlKeysBelongOn
<1>15. Numbering' /\ RowsHold'
  BY <1>2 DEF PlInv, Numbering, StatusOf, RowsHold, RowHolds, Content
<1>16. SignedOnce'
  <2>1. \A k \in PlKeys : planKey'[PlKeyOf(k)].state = "completed"
           <=> planKey[PlKeyOf(k)].state = "completed"
    BY <1>7, <1>8
  <2>2. \A k \in PlKeys : planKey[PlKeyOf(k)].state = "completed" => planKey'[PlKeyOf(k)] = planKey[PlKeyOf(k)]
    BY <1>7, <1>8
  <2> QED BY <1>2, <2>1, <2>2 DEF PlInv, SignedOnce, SignedUnder, PlKeyOf
<1> QED BY <1>10, <1>11, <1>14, <1>15, <1>16 DEF PlInv

LEMMA CommitBudgetApprovalStep ==
  ASSUME PlInv, NEW h \in PlHandlers, CommitBudgetApproval(h)
  PROVE  PlInv'
<1>1. PICK r \in PlanRequests : r = plReq[h]
  BY DEF PlInv, PlTypeOK
<1>2. /\ r.at = "approve" /\ r.version = budget.version
      /\ PlGoto(h, "answer") /\ UNCHANGED requirement
  BY <1>1 DEF CommitBudgetApproval, GuardHolds, otherVars
<1>3. PICK s \in PlanRequests :
        /\ s.at = "answer" /\ s.key = r.key /\ s.version = r.version /\ s.on = r.on
        /\ plReq' = [plReq EXCEPT ![h] = s]
  BY <1>1, <1>2, PlGotoIs DEF PlPoints
<1>4. BudgetRelied(r)
  BY <1>1, BatchRelies
<1> DEFINE n == r.on
           k == r.key
           key == PlKeyOf(k)
           old == plan[n]
           new == [old EXCEPT !.status = "approved", !.hash = {r.read}]
           done == [planKey[key] EXCEPT !.state = "completed", !.ref = n]
           v == budget.version + 1
<1>5. k \in PlKeys /\ Working(n) /\ r.read = Content(old) /\ r.read \in PlanContents
  BY <1>2, <1>4 DEF BudgetRelied
<1>6. n \in Versions /\ budget.working = n /\ old.status = "working"
  BY <1>5 DEF Working
<1>7. old \in PlanRows /\ RowHolds(old) /\ key \in PlanKeys /\ planKey[key] \in PlanKeyRows
  BY <1>5, <1>6 DEF PlInv, PlTypeOK, RowsHold, PlKeyOf, PlanKeys
<1>8. HasKey(h) /\ planKey[key].state = "running"
  BY <1>1, <1>2 DEF HasKey, PlInv, PlKeysBelong
<1>9. plan' = [plan EXCEPT ![n] = new]
  BY <1>1, <1>6 DEF CommitBudgetApproval, PlInv, PlTypeOK
<1>10. budget' = [working |-> 0, approved |-> n, version |-> v] /\ signed' = signed \cup {<<n, k>>}
  BY <1>1 DEF CommitBudgetApproval
<1>11. planKey' = [planKey EXCEPT ![key] = done]
  BY <1>1, <1>7, <1>8 DEF CommitBudgetApproval, Approving!Completed, PlKeyOf, PlInv, PlTypeOK
<1>12. v \in Nat /\ v > budget.version
  BY DEF PlInv, PlTypeOK
<1>13. n \in Nat /\ n = budget.approved + 1 /\ budget.approved \in Nat
  BY <1>6, VersionsAre DEF PlInv, PlTypeOK, Numbering
<1>14. done \in PlanKeyRows /\ done.state = "completed" /\ done.ref = n
       /\ done # Approving!NoRecord
  BY <1>6, <1>7 DEF PlanKeyRows, PlanKeyStates, Approving!NoRecord
<1>15. /\ new \in PlanRows /\ new.status = "approved" /\ new.net = old.net
       /\ new.lines = old.lines /\ new.hash = {r.read} /\ Content(new) = Content(old)
  BY <1>5, <1>7 DEF PlanRows, PlanStates, Content
<1> HIDE DEF n, k, key, old, new, done, v
<1>16. RowHolds(new)
  BY <1>5, <1>7, <1>15 DEF RowHolds
<1>17. /\ plan' \in [Versions -> PlanRows] /\ plan'[n] = new
       /\ \A m \in Versions : m # n => plan'[m] = plan[m]
  BY <1>6, <1>9, <1>15 DEF PlInv, PlTypeOK
<1>18. /\ planKey' \in [PlanKeys -> PlanKeyRows] /\ planKey'[key] = done
       /\ \A j \in PlKeys : j # k => planKey'[PlKeyOf(j)] = planKey[PlKeyOf(j)]
  <2>1. \A j \in PlKeys : j # k => PlKeyOf(j) # key /\ PlKeyOf(j) \in PlanKeys
    BY DEF PlKeyOf, PlanKeys, key
  <2> QED BY <1>7, <1>11, <1>14, <2>1 DEF PlInv, PlTypeOK
<1>19. /\ budget' \in [working : {0} \cup Versions, approved : {0} \cup Versions, version : Nat]
       /\ budget'.working = 0 /\ budget'.approved = n /\ budget'.version = v
  BY <1>6, <1>10, <1>12
<1>20. (BudgetRelied(s) /\ RequirementRelied(s))'
  BY <1>3, <1>5 DEF BudgetRelied, RequirementRelied, k
<1>21. PlRequestsGoOn
  BY <1>1, <1>3, <1>8, <1>20, OnePlGoesOn
<1>22. PlTypeOK'
  BY <1>2, <1>5, <1>6, <1>10, <1>17, <1>18, <1>19, <1>21 DEF PlInv, PlTypeOK, PlRequestsGoOn
<1>23. PlRequestsHold'
  BY <1>2, <1>12, <1>19, <1>21, <1>22, PlRequestsHoldOn DEF BudgetMoves, RequirementMoves
<1>24. PlKeysBelong'
  <2>1. \A g \in PlHandlers : HasKey(g)' /\ g # h => plReq[g].key # k
    BY <1>1, <1>8, <1>21 DEF PlRequestsGoOn, PlInv, PlKeysBelong, k
  <2>2. \A g \in PlHandlers : HasKey(g)' => plReq[g].key \in PlKeys
    <3> SUFFICES ASSUME NEW g \in PlHandlers, HasKey(g)' PROVE plReq[g].key \in PlKeys
      OBVIOUS
    <3>1. PICK q \in PlanRequests : q = plReq[g]
      BY DEF PlInv, PlTypeOK
    <3>2. HasKey(g)
      BY <1>21 DEF PlRequestsGoOn
    <3> QED BY <3>1, <3>2, BatchRelies DEF BudgetRelied, HasKey
  <2>3. \A g \in PlHandlers : HasKey(g)' =>
          (planKey[PlKeyOf(plReq[g].key)] # Approving!NoRecord =>
            planKey'[PlKeyOf(plReq[g].key)] # Approving!NoRecord)
    BY <1>1, <1>14, <1>18, <2>1, <2>2 DEF key, k
  <2>4. ASSUME NEW g \in PlHandlers, plReq'[g].at \in {"read", "approve"}
        PROVE  planKey'[PlKeyOf(plReq[g].key)].state = planKey[PlKeyOf(plReq[g].key)].state
    <3>1. plReq'[h].at = "answer"
      BY <1>3 DEF PlInv, PlTypeOK
    <3>2. g # h /\ HasKey(g)'
      BY <2>4, <3>1 DEF HasKey
    <3> QED BY <1>18, <2>1, <2>2, <3>2
  <2> QED BY <1>18, <1>21, <2>3, <2>4, PlKeysBelongOn
<1>25. Numbering'
  <2>1. ASSUME NEW m \in Versions
        PROVE  plan'[m].status = StatusOf(m)'
    <3>1. m \in Nat /\ plan[m].status = StatusOf(m)
      BY VersionsAre DEF PlInv, Numbering
    <3>2. CASE m = n
      BY <1>13, <1>15, <1>17, <1>19, <3>2 DEF StatusOf
    <3>3. CASE m # n
      BY <1>6, <1>13, <1>17, <1>19, <3>1, <3>3, VersionsAre DEF StatusOf
    <3> QED BY <3>2, <3>3
  <2> QED BY <1>19, <2>1 DEF Numbering
<1>26. RowsHold'
  BY <1>16, <1>17 DEF PlInv, RowsHold, RowHolds, Content
<1>27. SignedOnce'
  <2>1. \A t \in signed : t[1] \in Nat /\ t[1] <= budget.approved /\ t[1] # n
    BY <1>13, VersionsAre DEF PlInv, PlTypeOK, SignedOnce
  <2>2. \A t \in signed' : t[1] <= budget'.approved
    BY <1>10, <1>13, <1>19, <2>1
  <2>3. \A t, u \in signed' : t[1] = u[1] => t = u
    BY <1>10, <2>1 DEF PlInv, SignedOnce
  <2>4. ASSUME NEW j \in PlKeys
        PROVE  SignedUnder(j)' =
                 IF planKey'[PlKeyOf(j)].state = "completed" THEN {planKey'[PlKeyOf(j)].ref} ELSE {}
    <3>1. SignedUnder(j) = IF planKey[PlKeyOf(j)].state = "completed" THEN {planKey[PlKeyOf(j)].ref} ELSE {}
      BY DEF PlInv, SignedOnce
    <3>2. CASE j = k
      <4>1. SignedUnder(j) = {}
        BY <1>8, <3>1, <3>2 DEF key
      <4>2. SignedUnder(j)' = {n}
        <5>1. ~ \E t \in signed : t[2] = k
          BY <3>2, <4>1 DEF SignedUnder
        <5>2. {t \in signed' : t[2] = k} = {<<n, k>>}
          BY <1>10, <5>1
        <5>3. SignedUnder(j)' = {t[1] : t \in {t \in signed' : t[2] = k}}
          BY <3>2 DEF SignedUnder
        <5>4. {t[1] : t \in {<<n, k>>}} = {n}
          OBVIOUS
        <5> QED BY <5>2, <5>3, <5>4
      <4> QED BY <1>14, <1>18, <3>2, <4>2 DEF key
    <3>3. CASE j # k
      <4>1. SignedUnder(j)' = SignedUnder(j)
        BY <1>10, <3>3 DEF SignedUnder
      <4> QED BY <1>18, <3>1, <3>3, <4>1
    <3> QED BY <3>2, <3>3
  <2> QED BY <2>2, <2>3, <2>4 DEF SignedOnce, PlKeyOf
<1> QED BY <1>22, <1>23, <1>24, <1>25, <1>26, <1>27 DEF PlInv

----------------------------------------------------------------------------
LEMMA PlNextInv == PlInv /\ [PlanningNext]_planningVars => PlInv'
<1> SUFFICES ASSUME PlInv, [PlanningNext]_planningVars PROVE PlInv'
  OBVIOUS
<1>1. CASE UNCHANGED planningVars
  BY <1>1, NobodyPlans, QuietPlStep
     DEF planningVars, budgetVars, RequirementMoves, PlInv, PlTypeOK
<1>2. ASSUME NEW c \in Contingencies, CreateBudget(c) PROVE PlInv'
  BY <1>2, CreateBudgetStep
<1>3. CASE AddRequirement
  BY <1>3, AddRequirementStep
<1>4. ASSUME NEW k \in Kits, NEW i \in Items, SetKitMember(k, i) PROVE PlInv'
  BY <1>4, SetKitMemberStep
<1>5. ASSUME NEW h \in PlHandlers, NEW e \in SeenBudget, NEW n \in Versions,
             \/ \E c \in Contingencies : StartVersion(h, e, n, c)
             \/ \E c \in Codes : StartAccount(h, e, n, c)
             \/ \E l \in Lines, a \in Amounts : StartLine(h, e, n, l, a)
             \/ \E k \in PlKeys : StartBudgetApproval(h, k, e, n)
      PROVE  PlInv'
  BY <1>5, StartVersionStep, StartAccountStep, StartLineStep, StartBudgetApprovalStep
<1>6. ASSUME NEW h \in PlHandlers, NEW e \in 1 .. requirement.version,
             NEW f \in SUBSET Fields \ {{}}, StartRequirement(h, e, f)
      PROVE  PlInv'
  BY <1>6, StartRequirementStep
<1>7. ASSUME NEW h \in PlHandlers, NEW r \in Reservations, NEW on \in Items \cup Kits,
             NEW w \in Windows, NEW b \in BOOLEAN, StartReservation(h, r, on, w, b)
      PROVE  PlInv'
  BY <1>7, StartReservationStep
<1>8. ASSUME NEW h \in PlHandlers,
             \/ CommitVersion(h) \/ CommitAccount(h) \/ CommitLine(h) \/ AbortPlanning(h)
             \/ BeginApproval(h) \/ AnswerApproved(h) \/ ReadForApproval(h)
             \/ CommitBudgetApproval(h) \/ LoseApproval(h) \/ MarkApprovalFailed(h)
             \/ CommitRequirement(h) \/ AbortRequirement(h) \/ CommitReservation(h) \/ PlDrop(h)
      PROVE  PlInv'
  BY <1>8, CommitVersionStep, CommitAccountStep, CommitLineStep, AbortPlanningStep,
     BeginApprovalStep, ReadForApprovalStep, CommitBudgetApprovalStep, LoseApprovalStep,
     MarkApprovalFailedStep, CommitRequirementStep, PlEndStep
<1> QED BY <1>1, <1>2, <1>3, <1>4, <1>5, <1>6, <1>7, <1>8 DEF PlanningNext

\* What any of the requests on a budget read is still so when its batch is
\* written under the guard row: an approver's content, the version in work and
\* the number that comes next (planning-controls.ts:625, :884).
THEOREM BudgetsAreGuarded == PlanningSpec => []PlInv
BY PlInitInv, PlNextInv, PTL DEF PlanningSpec

LEMMA OneIsInWork == PlInv => OneWorkingVersion
<1> SUFFICES ASSUME PlInv PROVE OneWorkingVersion
  OBVIOUS
<1> DEFINE approved == budget.approved
           working == budget.working
           highest == IF working = 0 THEN approved ELSE working
           done == {n \in Versions : plan[n].status = "approved"}
<1>1. approved \in Nat /\ working \in Nat /\ highest \in Nat /\ approved <= MaxPlanVersions
      /\ highest <= MaxPlanVersions /\ working \in {0, approved + 1}
  BY VersionsAre DEF PlInv, PlTypeOK, Numbering
<1>2. \A n \in Versions : plan[n].status =
        IF n <= approved THEN "approved" ELSE IF n = working THEN "working" ELSE "none"
  BY DEF PlInv, Numbering, StatusOf
<1> HIDE DEF approved, working
<1>3. \A n \in Versions : plan[n].status = "working" <=> working = n
  BY <1>1, <1>2, VersionsAre
<1>4. Numbered = 1 .. highest
  <2>1. \A n \in Versions : plan[n].status # "none" <=> n <= highest
    BY <1>1, <1>2, VersionsAre
  <2>2. \A n \in 1 .. highest : n \in Versions
    BY <1>1, VersionsAre
  <2> HIDE DEF highest
  <2> QED BY <1>1, <2>1, <2>2, VersionsAre DEF Numbered
<1>5. done = 1 .. approved
  <2>1. \A n \in Versions : plan[n].status = "approved" <=> n <= approved
    BY <1>2
  <2>2. \A n \in 1 .. approved : n \in Versions
    BY <1>1, VersionsAre
  <2> QED BY <1>1, <2>1, <2>2, VersionsAre
<1> HIDE DEF highest, done
<1>6. Cardinality(Numbered) = highest /\ Cardinality(done) = approved
  BY <1>1, <1>4, <1>5, FS_Interval
<1> QED BY <1>3, <1>4, <1>5, <1>6 DEF OneWorkingVersion, done, approved, working

LEMMA BudgetStandsHere == PlInv => BudgetStands
<1> SUFFICES ASSUME PlInv PROVE BudgetStands
  OBVIOUS
<1>1. OneWorkingVersion
  BY OneIsInWork
<1>2. ApprovedAsHashed /\ TotalsAreOfLines
  BY DEF PlInv, RowsHold, RowHolds, ApprovedAsHashed, TotalsAreOfLines
<1>3. ApprovedOncePerKey
  BY DEF PlInv, SignedOnce, SignedUnder, PlKeyOf, ApprovedOncePerKey
<1> QED BY <1>1, <1>2, <1>3 DEF BudgetStands

\* One version at most is in work and the numbers have no gap; what is
\* approved is what its approver hashed, with the amounts of its lines; and a
\* key says that a version is approved exactly when its own request did it
\* (planning-controls.ts:625, :884, :937, :2706).
THEOREM BudgetAlwaysStands == PlanningSpec => []BudgetStands
BY BudgetsAreGuarded, BudgetStandsHere, PTL

LEMMA EditIsKept ==
  ASSUME PlInv, [PlanningNext]_planningVars, NEW h \in PlHandlers,
         plReq[h].at = "requirement", requirement' # requirement, plReq'[h].at = "idle"
  PROVE  \A f \in Fields \ (plReq[h].write \cup Defaulted) :
           requirement'.value[f] = requirement.value[f]
<1>1. plReq' # plReq
  OBVIOUS
<1>2. ~(UNCHANGED planningVars) /\ ~AddRequirement
  BY <1>1 DEF planningVars, AddRequirement
<1>3. ~ \E c \in Contingencies : CreateBudget(c)
  BY DEF CreateBudget, otherVars
<1>4. ~ \E k \in Kits, i \in Items : SetKitMember(k, i)
  BY DEF SetKitMember
<1>5. \A g, r : ~StartPlanning(g, r)
  BY DEF StartPlanning, otherVars
<1>6. PICK g \in PlHandlers :
        \/ CommitVersion(g) \/ CommitAccount(g) \/ CommitLine(g) \/ AbortPlanning(g)
        \/ BeginApproval(g) \/ AnswerApproved(g) \/ ReadForApproval(g)
        \/ CommitBudgetApproval(g) \/ LoseApproval(g) \/ MarkApprovalFailed(g)
        \/ CommitRequirement(g) \/ AbortRequirement(g) \/ CommitReservation(g) \/ PlDrop(g)
  BY <1>2, <1>3, <1>4, <1>5
     DEF PlanningNext, StartVersion, StartAccount, StartLine, StartBudgetApproval,
         StartRequirement, StartReservation
<1>7. CommitRequirement(g)
  BY <1>6 DEF CommitVersion, CommitAccount, CommitLine, AbortPlanning, BeginApproval,
     AnswerApproved, ReadForApproval, CommitBudgetApproval, LoseApproval, MarkApprovalFailed,
     AbortRequirement, CommitReservation, PlDrop, otherVars
<1>8. g = h
  BY <1>7 DEF CommitRequirement, PlFinish, PlInv, PlTypeOK
<1> QED BY <1>7, <1>8, CommitRequirementStep

LEMMA EditsAreKept ==
  PlInv /\ [PlanningNext]_planningVars =>
    [\A h \in PlHandlers : plReq[h].at = "requirement" /\ requirement' # requirement
         /\ plReq'[h].at = "idle" =>
         \A f \in Fields \ (plReq[h].write \cup Defaulted) :
           requirement'.value[f] = requirement.value[f]]_planningVars
BY EditIsKept

\* A PATCH keeps every column that its body does not name, but for those that
\* zod gives a default, whoever changed it since the request read the row
\* (planning-controls.ts:1180).
THEOREM EditsOfRequirementsAreKept == PlanningSpec => RequirementEditsAreKept
BY BudgetsAreGuarded, EditsAreKept, PTL DEF RequirementEditsAreKept, PlanningSpec

----------------------------------------------------------------------------
(***************************************************************************)
(* Controls: releases stand, rows are shown and added plans come last.     *)
(***************************************************************************)

CtRows == [of : Registers, under : Nat, rank : Nat, settled : BOOLEAN, archived : BOOLEAN]
Lasts == {{}} \cup {{r} : r \in Nat}
CtRequests == [at : {"idle", "add"}, of : Registers \cup {"none"}, under : Nat, last : Lasts,
               settled : BOOLEAN]

\* Where a row of a register belongs.
ParentStands(register, under) ==
  /\ register = "hazard" => Stands("risk", under)
  /\ register = "control" => Stands("hazard", under)
  /\ register \notin {"hazard", "control"} => under = 0

RowsInv ==
  /\ rows \in Seq(CtRows)
  /\ ctReq \in [CtHandlers -> CtRequests]
  /\ \A i \in DOMAIN rows, r \in CtRows : rows[i] = r => ParentStands(r.of, r.under)
  /\ \A h \in CtHandlers, r \in CtRequests :
       ctReq[h] = r /\ r.at = "add" => r.of \in Registers /\ ParentStands(r.of, r.under)

Owners == HoldOwners \cup {"none"}
HoldRows == [placed : Owners, released : Owners]
HoldLogs == Seq({"placed", "released"} \X HoldIds \X HoldOwners)

PlacedAt(x) == {i \in DOMAIN holdEvents : holdEvents[i][1] = "placed" /\ holdEvents[i][2] = x}
TriedAt(x) == {i \in DOMAIN holdEvents : /\ holdEvents[i][1] = "released" /\ holdEvents[i][2] = x
                                         /\ \E j \in PlacedAt(x) : j < i}

\* The hold x is what the log says of it.
HoldIsLogged(x) ==
  /\ IF holds[x].placed = "none" THEN holds[x] = NoHold /\ PlacedAt(x) = {} ELSE PlacedAt(x) # {}
  /\ IF TriedAt(x) = {} THEN holds[x].released = "none"
     ELSE \E i \in TriedAt(x) : /\ \A j \in TriedAt(x) : i <= j
                                /\ holds[x].released = holdEvents[i][3]

HoldsInv ==
  /\ holds \in [HoldIds -> HoldRows]
  /\ holdEvents \in HoldLogs
  /\ \A x \in HoldIds : HoldIsLogged(x)

CtInv == RowsInv /\ HoldsInv

----------------------------------------------------------------------------
LEMMA RegistersAre ==
  /\ {"hazard", "control"} \subseteq Registers
  /\ \A r \in Registers : r \in {"risk", "equipment", "kit", "logistics", "transport", "catering",
                                 "hazard", "control"}
  /\ EndRank \in Nat /\ "none" \notin HoldOwners
BY ControlsAssumption DEF ControlsAssumption, Registers

LEMMA NoCtReqIs == NoCtReq \in CtRequests /\ NoCtReq.at = "idle" /\ NoCtReq.of = "none"
BY DEF NoCtReq, CtRequests, Lasts

LEMMA ControlsInitInv == ControlsInit => CtInv
<1> SUFFICES ASSUME ControlsInit PROVE CtInv
  OBVIOUS
<1>1. rows \in Seq(CtRows) /\ DOMAIN rows = {} /\ holdEvents \in HoldLogs /\ DOMAIN holdEvents = {}
  BY EmptySeq DEF ControlsInit, HoldLogs
<1>2. RowsInv
  BY <1>1, NoCtReqIs DEF ControlsInit, RowsInv
<1>3. NoHold \in HoldRows /\ NoHold.placed = "none" /\ NoHold.released = "none"
  BY DEF NoHold, HoldRows, Owners
<1>4. HoldsInv
  BY <1>1, <1>3 DEF ControlsInit, HoldsInv, HoldIsLogged, PlacedAt, TriedAt
<1> QED BY <1>2, <1>4 DEF CtInv

\* A row that was added stays in its register.
RowsGrow == \A i \in DOMAIN rows : i \in DOMAIN rows' /\ rows'[i].of = rows[i].of

LEMMA ParentStays ==
  ASSUME RowsGrow, NEW register, NEW under, ParentStands(register, under)
  PROVE  ParentStands(register, under)'
BY DEF RowsGrow, ParentStands, Stands

LEMMA RowsAre ==
  ASSUME CtInv
  PROVE  /\ Len(rows) \in Nat /\ DOMAIN rows = 1 .. Len(rows)
         /\ \A i \in DOMAIN rows : rows[i] \in CtRows
BY LenProperties DEF CtInv, RowsInv

LEMMA LastOfIs ==
  ASSUME NEW ranks \in SUBSET Nat
  PROVE  LastOf(ranks) \in Lasts
<1>1. CASE LastOf(ranks) = {}
  BY <1>1 DEF Lasts
<1>2. CASE LastOf(ranks) # {}
  <2>1. PICK r \in ranks : r \in LastOf(ranks)
    BY <1>2 DEF LastOf
  <2>2. ASSUME NEW s \in LastOf(ranks)
        PROVE  s = r
    <3>1. s \in Nat /\ r \in Nat /\ s <= r /\ r <= s
      BY <2>1 DEF LastOf
    <3> QED BY <3>1
  <2>3. LastOf(ranks) = {r} /\ r \in Nat
    BY <2>1, <2>2
  <2> QED BY <2>3 DEF Lasts
<1> QED BY <1>1, <1>2

LEMMA LastIs ==
  ASSUME CtInv, NEW register, NEW under
  PROVE  LastOf(RanksIn(register, under)) \in Lasts
<1>1. RanksIn(register, under) \in SUBSET Nat
  BY RowsAre DEF RanksIn, Siblings, CtRows
<1> QED BY <1>1, LastOfIs

LEMMA ReadingStep ==
  ASSUME CtInv, NEW h \in CtHandlers, NEW register \in Registers, NEW under \in Nat,
         NEW settled \in BOOLEAN, ParentStands(register, under),
         Reading(h, register, under, settled)
  PROVE  CtInv' /\ rows' = rows
<1> DEFINE last == LastOf(RanksIn(register, under))
           r == [at |-> "add", of |-> register, under |-> under, settled |-> settled, last |-> last]
<1>1. ctReq' = [ctReq EXCEPT ![h] = r] /\ UNCHANGED <<rows, holds, holdEvents>>
  BY DEF Reading
<1>2. last \in Lasts
  BY LastIs
<1> HIDE DEF last
<1>3. r \in CtRequests /\ r.at = "add" /\ r.of = register /\ r.under = under
  BY <1>2 DEF CtRequests
<1> HIDE DEF r
<1>4. RowsInv'
  BY <1>1, <1>3 DEF CtInv, RowsInv, ParentStands, Stands
<1>5. HoldsInv'
  BY <1>1 DEF CtInv, HoldsInv, HoldIsLogged, PlacedAt, TriedAt
<1> QED BY <1>1, <1>4, <1>5 DEF CtInv

\* Requests that read, of each register.
LEMMA AddStep ==
  ASSUME CtInv, NEW h \in CtHandlers,
         \/ AddRisk(h) \/ AddEquipment(h) \/ AddKit(h)
         \/ \E i \in 1..MaxRows : AddHazard(h, i) \/ AddControl(h, i)
         \/ \E settled \in BOOLEAN :
              AddLogistics(h, settled) \/ AddTransport(h, settled) \/ AddCatering(h, settled)
  PROVE  CtInv' /\ rows' = rows
<1>1. ASSUME NEW register \in {"risk", "equipment", "kit", "logistics", "transport", "catering"},
             NEW settled \in BOOLEAN, Reading(h, register, 0, settled)
      PROVE  CtInv' /\ rows' = rows
  <2>1. register \in Registers /\ ParentStands(register, 0)
    BY <1>1 DEF Reading, ParentStands
  <2> QED BY <1>1, <2>1, ReadingStep
<1>2. ASSUME NEW i \in 1..MaxRows, AddHazard(h, i) \/ AddControl(h, i)
      PROVE  CtInv' /\ rows' = rows
  <2>1. i \in Nat
    BY ControlsAssumption DEF ControlsAssumption
  <2>2. CASE AddHazard(h, i)
    <3>1. ParentStands("hazard", i) /\ Reading(h, "hazard", i, FALSE) /\ "hazard" \in Registers
      BY <2>2, RegistersAre DEF AddHazard, ParentStands
    <3> QED BY <2>1, <3>1, ReadingStep
  <2>3. CASE AddControl(h, i)
    <3>1. ParentStands("control", i) /\ Reading(h, "control", i, FALSE) /\ "control" \in Registers
      BY <2>3, RegistersAre DEF AddControl, ParentStands
    <3> QED BY <2>1, <3>1, ReadingStep
  <2> QED BY <1>2, <2>2, <2>3
<1> QED BY <1>1, <1>2 DEF AddRisk, AddEquipment, AddKit, AddLogistics, AddTransport, AddCatering

----------------------------------------------------------------------------
(* The batch.                                                              *)

LEMMA NextRankIs ==
  ASSUME NEW last \in Lasts
  PROVE  /\ NextRank(last) \in Nat
         /\ \A r \in last : r < EndRank - 1 => NextRank(last) > r
<1>1. EndRank \in Nat
  BY RegistersAre
<1>2. CASE last = {}
  BY <1>1, <1>2 DEF NextRank
<1>3. CASE last # {}
  <2>1. PICK r \in Nat : last = {r}
    BY <1>3 DEF Lasts
  <2>2. (CHOOSE x \in last : TRUE) = r
    BY <2>1
  <2>3. NextRank(last) = IF (r + EndRank) \div 2 \in {r, EndRank} THEN EndRank \div 2
                         ELSE (r + EndRank) \div 2
    BY <2>1, <2>2 DEF NextRank
  <2>4. EndRank \div 2 \in Nat /\ (r + EndRank) \div 2 \in Nat
    BY <1>1
  <2>5. r < EndRank - 1 => (r + EndRank) \div 2 > r /\ (r + EndRank) \div 2 < EndRank
    BY <1>1
  <2> QED BY <1>1, <2>1, <2>3, <2>4, <2>5
<1> QED BY <1>2, <1>3

\* What a batch adds at the end of the rows.
LEMMA CommitRowIs ==
  ASSUME CtInv, NEW h \in CtHandlers, CommitRow(h)
  PROVE  \E r \in CtRequests, new \in CtRows :
           /\ r = ctReq[h] /\ r.at = "add" /\ r.of \in Registers /\ ParentStands(r.of, r.under)
           /\ new.of = r.of /\ new.under = r.under /\ new.rank = NextRank(r.last)
           /\ new.settled = r.settled /\ new.archived = FALSE
           /\ rows' = Append(rows, new) /\ rows' \in Seq(CtRows)
           /\ DOMAIN rows' = DOMAIN rows \cup {Len(rows) + 1} /\ Len(rows) + 1 \notin DOMAIN rows
           /\ rows'[Len(rows) + 1] = new /\ \A i \in DOMAIN rows : rows'[i] = rows[i]
           /\ ctReq' = [ctReq EXCEPT ![h] = NoCtReq] /\ UNCHANGED <<holds, holdEvents>>
<1>1. PICK r \in CtRequests : r = ctReq[h]
  BY DEF CtInv, RowsInv
<1>2. r.at = "add" /\ r.of \in Registers /\ ParentStands(r.of, r.under)
  BY <1>1 DEF CommitRow, CtInv, RowsInv
<1> DEFINE rank == NextRank(r.last)
           new == [of |-> r.of, under |-> r.under, rank |-> rank, settled |-> r.settled,
                   archived |-> FALSE]
<1>3. rank \in Nat
  BY NextRankIs DEF CtRequests
<1>4. /\ rows' = Append(rows, new) /\ ctReq' = [ctReq EXCEPT ![h] = NoCtReq]
      /\ UNCHANGED <<holds, holdEvents>>
  BY <1>1 DEF CommitRow
<1> HIDE DEF rank
<1>5. /\ new \in CtRows /\ new.of = r.of /\ new.under = r.under /\ new.rank = rank
      /\ new.settled = r.settled /\ new.archived = FALSE
  BY <1>2, <1>3 DEF CtRows, CtRequests
<1> HIDE DEF new
<1>6. Append(rows, new) \in Seq(CtRows) /\ Len(Append(rows, new)) = Len(rows) + 1
      /\ Append(rows, new)[Len(rows) + 1] = new
      /\ \A i \in 1 .. Len(rows) : Append(rows, new)[i] = rows[i]
  BY <1>5, AppendProperties DEF CtInv, RowsInv
<1>7. DOMAIN Append(rows, new) = 1 .. Len(rows) + 1
  BY <1>6, LenProperties
<1>8. 1 .. Len(rows) + 1 = (1 .. Len(rows)) \cup {Len(rows) + 1}
  BY RowsAre
<1> QED BY <1>1, <1>2, <1>4, <1>5, <1>6, <1>7, <1>8, RowsAre DEF rank

LEMMA CommitRowStep ==
  ASSUME CtInv, NEW h \in CtHandlers, CommitRow(h)
  PROVE  CtInv'
<1>1. PICK r \in CtRequests, new \in CtRows :
           /\ r = ctReq[h] /\ r.at = "add" /\ r.of \in Registers /\ ParentStands(r.of, r.under)
           /\ new.of = r.of /\ new.under = r.under
           /\ rows' \in Seq(CtRows)
           /\ DOMAIN rows' = DOMAIN rows \cup {Len(rows) + 1} /\ Len(rows) + 1 \notin DOMAIN rows
           /\ rows'[Len(rows) + 1] = new /\ \A i \in DOMAIN rows : rows'[i] = rows[i]
           /\ ctReq' = [ctReq EXCEPT ![h] = NoCtReq] /\ UNCHANGED <<holds, holdEvents>>
  BY CommitRowIs
<1>2. RowsGrow
  BY <1>1 DEF RowsGrow
<1>3. ASSUME NEW i \in DOMAIN rows', NEW q \in CtRows, rows'[i] = q
      PROVE  ParentStands(q.of, q.under)'
  <2>1. ParentStands(q.of, q.under)
    BY <1>1, <1>3 DEF CtInv, RowsInv
  <2> QED BY <1>2, <2>1, ParentStays
<1>4. ASSUME NEW g \in CtHandlers, NEW q \in CtRequests, ctReq'[g] = q, q.at = "add"
      PROVE  q.of \in Registers /\ ParentStands(q.of, q.under)'
  <2>1. q = ctReq[g]
    BY <1>1, <1>4, NoCtReqIs DEF CtInv, RowsInv
  <2>2. q.of \in Registers /\ ParentStands(q.of, q.under)
    BY <1>4, <2>1 DEF CtInv, RowsInv
  <2> QED BY <1>2, <2>2, ParentStays
<1>5. ctReq' \in [CtHandlers -> CtRequests]
  BY <1>1, NoCtReqIs DEF CtInv, RowsInv
<1>6. RowsInv'
  BY <1>1, <1>3, <1>4, <1>5 DEF RowsInv
<1>7. HoldsInv'
  BY <1>1 DEF CtInv, HoldsInv, HoldIsLogged, PlacedAt, TriedAt
<1> QED BY <1>6, <1>7 DEF CtInv

LEMMA DropRowStep ==
  ASSUME CtInv, NEW h \in CtHandlers, DropRow(h)
  PROVE  CtInv' /\ rows' = rows
<1>1. ctReq' = [ctReq EXCEPT ![h] = NoCtReq] /\ UNCHANGED <<rows, holds, holdEvents>>
  BY DEF DropRow
<1>2. RowsInv'
  BY <1>1, NoCtReqIs DEF CtInv, RowsInv, ParentStands, Stands
<1>3. HoldsInv'
  BY <1>1 DEF CtInv, HoldsInv, HoldIsLogged, PlacedAt, TriedAt
<1> QED BY <1>1, <1>2, <1>3 DEF CtInv

LEMMA SetArchivedStep ==
  ASSUME CtInv, NEW i \in 1..MaxRows, NEW archived \in BOOLEAN, SetArchived(i, archived)
  PROVE  CtInv'
<1>1. PICK r \in CtRows : r = rows[i]
  BY RowsAre DEF SetArchived
<1> DEFINE new == [r EXCEPT !.archived = archived]
<1>2. new \in CtRows /\ new.of = r.of /\ new.under = r.under
  BY DEF CtRows
<1>3. rows' = [rows EXCEPT ![i] = new] /\ i \in DOMAIN rows /\ UNCHANGED <<holds, holdEvents, ctReq>>
  BY <1>1 DEF SetArchived
<1> HIDE DEF new
<1>4. rows' \in Seq(CtRows) /\ DOMAIN rows' = DOMAIN rows
      /\ \A j \in DOMAIN rows : rows'[j] = IF j = i THEN new ELSE rows[j]
  <2>1. i \in 1 .. Len(rows)
    BY <1>3, RowsAre
  <2>2. rows' \in Seq(CtRows) /\ Len(rows') = Len(rows)
        /\ \A j \in 1 .. Len(rows) : rows'[j] = IF j = i THEN new ELSE rows[j]
    BY <1>2, <1>3, <2>1, ExceptSeq DEF CtInv, RowsInv
  <2> QED BY <2>2, RowsAre, LenProperties
<1>5. RowsGrow
  BY <1>1, <1>2, <1>4 DEF RowsGrow
<1>6. ASSUME NEW j \in DOMAIN rows', NEW q \in CtRows, rows'[j] = q
      PROVE  ParentStands(q.of, q.under)'
  <2>1. PICK o \in CtRows : o = rows[j]
    BY <1>4, RowsAre
  <2>2. o.of = q.of /\ o.under = q.under
    BY <1>1, <1>2, <1>4, <1>6, <2>1
  <2>3. ParentStands(q.of, q.under)
    BY <1>4, <2>1, <2>2 DEF CtInv, RowsInv
  <2> QED BY <1>5, <2>3, ParentStays
<1>7. ASSUME NEW g \in CtHandlers, NEW q \in CtRequests, ctReq'[g] = q, q.at = "add"
      PROVE  q.of \in Registers /\ ParentStands(q.of, q.under)'
  <2>1. q.of \in Registers /\ ParentStands(q.of, q.under)
    BY <1>3, <1>7 DEF CtInv, RowsInv
  <2> QED BY <1>5, <2>1, ParentStays
<1>8. RowsInv'
  BY <1>3, <1>4, <1>6, <1>7 DEF CtInv, RowsInv
<1>9. HoldsInv'
  BY <1>3 DEF CtInv, HoldsInv, HoldIsLogged, PlacedAt, TriedAt
<1> QED BY <1>8, <1>9 DEF CtInv

----------------------------------------------------------------------------
(* Holds.                                                                  *)

LEMMA LoggedIs ==
  ASSUME CtInv, NEW action \in {"placed", "released"}, NEW x \in HoldIds, NEW actor \in HoldOwners,
         Logged(action, x, actor)
  PROVE  /\ holdEvents' \in HoldLogs
         /\ DOMAIN holdEvents \subseteq Nat /\ Len(holdEvents) + 1 \in Nat
         /\ Len(holdEvents) + 1 \notin DOMAIN holdEvents
         /\ DOMAIN holdEvents' = DOMAIN holdEvents \cup {Len(holdEvents) + 1}
         /\ \A i \in DOMAIN holdEvents : i < Len(holdEvents) + 1 /\ holdEvents'[i] = holdEvents[i]
         /\ holdEvents'[Len(holdEvents) + 1][1] = action
         /\ holdEvents'[Len(holdEvents) + 1][2] = x
         /\ holdEvents'[Len(holdEvents) + 1][3] = actor
<1> DEFINE e == <<action, x, actor>>
           n == Len(holdEvents) + 1
<1>1. holdEvents' = Append(holdEvents, e)
  BY DEF Logged
<1>2. e \in {"placed", "released"} \X HoldIds \X HoldOwners /\ e[1] = action /\ e[2] = x /\ e[3] = actor
  OBVIOUS
<1> HIDE DEF e
<1>3. holdEvents' \in HoldLogs /\ Len(holdEvents') = n /\ holdEvents'[n] = e
      /\ \A i \in 1 .. Len(holdEvents) : holdEvents'[i] = holdEvents[i]
  BY <1>1, <1>2, AppendProperties DEF CtInv, HoldsInv, HoldLogs
<1>4. DOMAIN holdEvents = 1 .. Len(holdEvents) /\ Len(holdEvents) \in Nat
      /\ DOMAIN holdEvents' = 1 .. n
  BY <1>3, LenProperties DEF CtInv, HoldsInv, HoldLogs
<1>5. 1 .. n = (1 .. Len(holdEvents)) \cup {n} /\ n \in Nat
  BY <1>4
<1> QED BY <1>2, <1>3, <1>4, <1>5

\* What one more event does to the placings and the tries of a hold.
LEMMA LogGrows ==
  ASSUME CtInv, NEW action \in {"placed", "released"}, NEW x \in HoldIds, NEW actor \in HoldOwners,
         Logged(action, x, actor)
  PROVE  \E n \in Nat :
           /\ \A i \in DOMAIN holdEvents : i < n /\ holdEvents'[i] = holdEvents[i]
           /\ holdEvents'[n][3] = actor /\ n \notin DOMAIN holdEvents
           /\ \A y \in HoldIds :
                /\ PlacedAt(y)' = IF y = x /\ action = "placed" THEN PlacedAt(y) \cup {n} ELSE PlacedAt(y)
                /\ TriedAt(y)' = IF y = x /\ action = "released" /\ PlacedAt(y) # {}
                                THEN TriedAt(y) \cup {n} ELSE TriedAt(y)
<1>1. PICK n \in Nat : n = Len(holdEvents) + 1
  BY LoggedIs
<1>2. /\ DOMAIN holdEvents' = DOMAIN holdEvents \cup {n}
      /\ \A i \in DOMAIN holdEvents : i < n /\ holdEvents'[i] = holdEvents[i]
      /\ holdEvents'[n][1] = action /\ holdEvents'[n][2] = x /\ holdEvents'[n][3] = actor
      /\ DOMAIN holdEvents \subseteq Nat /\ n \notin DOMAIN holdEvents
  BY <1>1, LoggedIs
<1>3. ASSUME NEW y \in HoldIds
      PROVE  PlacedAt(y)' = IF y = x /\ action = "placed" THEN PlacedAt(y) \cup {n} ELSE PlacedAt(y)
  BY <1>2 DEF PlacedAt
<1>4. ASSUME NEW y \in HoldIds
      PROVE  TriedAt(y)' = IF y = x /\ action = "released" /\ PlacedAt(y) # {}
                           THEN TriedAt(y) \cup {n} ELSE TriedAt(y)
  <2>1. PlacedAt(y) \subseteq DOMAIN holdEvents
    BY DEF PlacedAt
  <2>2. \A i \in DOMAIN holdEvents :
          (\E j \in PlacedAt(y)' : j < i) <=> (\E j \in PlacedAt(y) : j < i)
    BY <1>2, <1>3, <2>1
  <2>3. \A i \in DOMAIN holdEvents : i \in TriedAt(y)' <=> i \in TriedAt(y)
    BY <1>2, <2>2 DEF TriedAt
  <2>4. n \in TriedAt(y)' <=> y = x /\ action = "released" /\ PlacedAt(y) # {}
    BY <1>2, <1>3, <2>1 DEF TriedAt
  <2>5. TriedAt(y)' \subseteq DOMAIN holdEvents \cup {n} /\ TriedAt(y) \subseteq DOMAIN holdEvents
    BY <1>2 DEF TriedAt
  <2> QED BY <1>2, <2>3, <2>4, <2>5
<1> QED BY <1>2, <1>3, <1>4

\* A hold of which nothing is logged keeps what its log says of it.
LEMMA OtherHoldsKeep ==
  ASSUME NEW y \in HoldIds, HoldIsLogged(y), holds'[y] = holds[y],
         PlacedAt(y)' = PlacedAt(y), TriedAt(y)' = TriedAt(y),
         \A i \in DOMAIN holdEvents : holdEvents'[i] = holdEvents[i]
  PROVE  HoldIsLogged(y)'
<1>1. TriedAt(y) \subseteq DOMAIN holdEvents
  BY DEF TriedAt
<1> QED BY <1>1 DEF HoldIsLogged

LEMMA NoHoldIs == NoHold \in HoldRows /\ NoHold.placed = "none" /\ NoHold.released = "none"
BY DEF NoHold, HoldRows, Owners

LEMMA PlaceHoldStep ==
  ASSUME CtInv, NEW x \in HoldIds, NEW actor \in HoldOwners, PlaceHold(x, actor)
  PROVE  CtInv'
<1> DEFINE new == [NoHold EXCEPT !.placed = actor]
<1>1. holds[x] = NoHold /\ holds' = [holds EXCEPT ![x] = new] /\ Logged("placed", x, actor)
      /\ UNCHANGED <<rows, ctReq>>
  BY DEF PlaceHold
<1>2. \A r \in HoldRows : /\ [r EXCEPT !.placed = actor] \in HoldRows
                          /\ [r EXCEPT !.placed = actor].placed = actor
                          /\ [r EXCEPT !.placed = actor].released = r.released
  BY DEF HoldRows, Owners
<1>3. new \in HoldRows /\ new.placed = actor /\ new.released = "none"
  BY <1>2, NoHoldIs
<1> HIDE DEF new
<1>4. PICK n \in Nat :
        /\ \A i \in DOMAIN holdEvents : i < n /\ holdEvents'[i] = holdEvents[i]
        /\ \A y \in HoldIds :
             /\ PlacedAt(y)' = IF y = x THEN PlacedAt(y) \cup {n} ELSE PlacedAt(y)
             /\ TriedAt(y)' = TriedAt(y)
  BY <1>1, LogGrows
<1>5. holds' \in [HoldIds -> HoldRows] /\ holdEvents' \in HoldLogs
      /\ holds'[x] = new /\ \A y \in HoldIds \ {x} : holds'[y] = holds[y]
  BY <1>1, <1>3, LoggedIs DEF CtInv, HoldsInv
<1>6. HoldIsLogged(x)'
  <2>1. PlacedAt(x) = {}
    BY <1>1, NoHoldIs DEF CtInv, HoldsInv, HoldIsLogged
  <2>2. TriedAt(x)' = {}
    BY <1>4, <2>1 DEF TriedAt
  <2>3. PlacedAt(x)' # {}
    BY <1>4
  <2> QED BY <1>3, <1>5, <2>2, <2>3, RegistersAre DEF HoldIsLogged
<1>7. ASSUME NEW y \in HoldIds, y # x
      PROVE  HoldIsLogged(y)'
  BY <1>4, <1>5, <1>7, OtherHoldsKeep DEF CtInv, HoldsInv
<1>8. RowsInv'
  BY <1>1 DEF CtInv, RowsInv, ParentStands, Stands
<1> QED BY <1>5, <1>6, <1>7, <1>8 DEF CtInv, HoldsInv

LEMMA ReleaseHoldStep ==
  ASSUME CtInv, NEW x \in HoldIds, NEW actor \in HoldOwners, ReleaseHold(x, actor)
  PROVE  CtInv'
<1>1. PICK r \in HoldRows : r = holds[x]
  BY DEF CtInv, HoldsInv
<1> DEFINE new == IF r.placed # "none" /\ r.released = "none"
                  THEN [r EXCEPT !.released = actor] ELSE r
<1>2. holds' = [holds EXCEPT ![x] = new] /\ Logged("released", x, actor) /\ UNCHANGED <<rows, ctReq>>
  BY <1>1 DEF ReleaseHold, Releasable, CtInv, HoldsInv
<1>3. /\ new \in HoldRows /\ new.placed = r.placed
      /\ (r.placed # "none" /\ r.released = "none") => new.released = actor
      /\ ~(r.placed # "none" /\ r.released = "none") => new = r
  BY DEF HoldRows, Owners
<1> HIDE DEF new
<1>4. PICK n \in Nat :
        /\ \A i \in DOMAIN holdEvents : i < n /\ holdEvents'[i] = holdEvents[i]
        /\ holdEvents'[n][3] = actor
        /\ \A y \in HoldIds :
             /\ PlacedAt(y)' = PlacedAt(y)
             /\ TriedAt(y)' = IF y = x /\ PlacedAt(y) # {} THEN TriedAt(y) \cup {n} ELSE TriedAt(y)
  BY <1>2, LogGrows
<1>5. holds' \in [HoldIds -> HoldRows] /\ holdEvents' \in HoldLogs
      /\ holds'[x] = new /\ \A y \in HoldIds \ {x} : holds'[y] = holds[y]
  BY <1>2, <1>3, LoggedIs DEF CtInv, HoldsInv
<1>6. HoldIsLogged(x)'
  <2>0. HoldIsLogged(x)
    BY DEF CtInv, HoldsInv
  <2>1. TriedAt(x) \subseteq DOMAIN holdEvents /\ DOMAIN holdEvents \subseteq Nat
    BY <1>2, LoggedIs DEF TriedAt
  <2>2. CASE r.placed = "none"
    <3>1. PlacedAt(x)' = PlacedAt(x) /\ TriedAt(x)' = TriedAt(x) /\ new = r
      BY <1>1, <1>3, <1>4, <2>0, <2>2 DEF HoldIsLogged
    <3> QED BY <1>1, <1>4, <1>5, <2>0, <3>1, OtherHoldsKeep
  <2>3. CASE r.placed # "none" /\ r.released = "none"
    <3>1. TriedAt(x) = {}
      <4>1. ASSUME NEW i \in TriedAt(x), r.released = holdEvents[i][3]
            PROVE  FALSE
        <5>1. holdEvents[i] \in {"placed", "released"} \X HoldIds \X HoldOwners
          BY <2>1, LenProperties DEF CtInv, HoldsInv, HoldLogs
        <5>2. holdEvents[i][3] \in HoldOwners
          BY <5>1
        <5> QED BY <2>3, <4>1, <5>2, RegistersAre
      <4> QED BY <1>1, <2>0, <4>1 DEF HoldIsLogged
    <3>2. TriedAt(x)' \subseteq {n} /\ new.placed = r.placed /\ new.released = actor
      BY <1>3, <1>4, <2>3, <3>1
    <3>3. PlacedAt(x) # {} /\ TriedAt(x)' = {n} /\ PlacedAt(x)' = PlacedAt(x)
      BY <1>1, <1>4, <2>0, <2>3, <3>1 DEF HoldIsLogged
    <3> QED BY <1>1, <1>4, <1>5, <2>3, <3>2, <3>3 DEF HoldIsLogged
  <2>4. CASE r.placed # "none" /\ r.released # "none"
    <3>1. PICK i \in TriedAt(x) : (\A j \in TriedAt(x) : i <= j) /\ r.released = holdEvents[i][3]
      BY <1>1, <2>0, <2>4 DEF HoldIsLogged
    <3>2. i < n /\ holdEvents'[i] = holdEvents[i] /\ new = r /\ i \in Nat
      BY <1>3, <1>4, <2>1, <2>4, <3>1
    <3>3. PlacedAt(x)' = PlacedAt(x) /\ PlacedAt(x) # {} /\ TriedAt(x)' = TriedAt(x) \cup {n}
      BY <1>1, <1>4, <2>0, <2>4 DEF HoldIsLogged
    <3>4. i \in TriedAt(x)' /\ \A j \in TriedAt(x)' : i <= j
      <4>1. i <= n
        BY <3>2
      <4> QED BY <3>1, <3>3, <4>1
    <3> QED BY <1>5, <2>4, <3>1, <3>2, <3>3, <3>4 DEF HoldIsLogged
  <2> QED BY <2>2, <2>3, <2>4
<1>7. ASSUME NEW y \in HoldIds, y # x
      PROVE  HoldIsLogged(y)'
  BY <1>4, <1>5, <1>7, OtherHoldsKeep DEF CtInv, HoldsInv
<1>8. RowsInv'
  BY <1>2 DEF CtInv, RowsInv, ParentStands, Stands
<1> QED BY <1>5, <1>6, <1>7, <1>8 DEF CtInv, HoldsInv

----------------------------------------------------------------------------
(* Every step.                                                             *)

LEMMA ControlsStep ==
  ASSUME CtInv, [ControlsNext]_controlsVars
  PROVE  CtInv'
<1>1. CASE UNCHANGED controlsVars
  BY <1>1 DEF controlsVars, CtInv, RowsInv, HoldsInv, HoldIsLogged, PlacedAt, TriedAt,
     ParentStands, Stands
<1>2. CASE ControlsNext
  <2>1. ASSUME NEW h \in CtHandlers,
               \/ AddRisk(h) \/ AddEquipment(h) \/ AddKit(h)
               \/ \E i \in 1..MaxRows : AddHazard(h, i) \/ AddControl(h, i)
               \/ \E settled \in BOOLEAN :
                    AddLogistics(h, settled) \/ AddTransport(h, settled) \/ AddCatering(h, settled)
        PROVE  CtInv'
    BY <2>1, AddStep
  <2>2. ASSUME NEW h \in CtHandlers, CommitRow(h) \/ DropRow(h)
        PROVE  CtInv'
    BY <2>2, CommitRowStep, DropRowStep
  <2>3. ASSUME NEW i \in 1..MaxRows, NEW archived \in BOOLEAN, SetArchived(i, archived)
        PROVE  CtInv'
    BY <2>3, SetArchivedStep
  <2>4. ASSUME NEW x \in HoldIds, NEW actor \in HoldOwners,
               PlaceHold(x, actor) \/ ReleaseHold(x, actor)
        PROVE  CtInv'
    BY <2>4, PlaceHoldStep, ReleaseHoldStep
  <2> QED BY <1>2, <2>1, <2>2, <2>3, <2>4 DEF ControlsNext
<1> QED BY <1>1, <1>2

\* The registers reach back to the project along the parents of their rows.
LEMMA RowsAreShown == CtInv => EveryRowIsShown
<1> SUFFICES ASSUME CtInv PROVE EveryRowIsShown
  OBVIOUS
<1>1. ShownRows \subseteq DOMAIN rows
  BY DEF ShownRows, ShownRisks, ShownHazards, ShownControls, Siblings
<1>2. ASSUME NEW i \in DOMAIN rows
      PROVE  /\ rows[i].of = "risk" => i \in ShownRisks
             /\ rows[i].of = "hazard" => i \in ShownHazards
             /\ rows[i].of = "control" => i \in ShownControls
             /\ rows[i].of \notin {"risk", "hazard", "control"} =>
                  i \in UNION {Siblings(r, 0) : r \in {"equipment", "kit", "logistics", "transport",
                                                     "catering"}}
  <2>1. \A k \in DOMAIN rows : rows[k] \in CtRows /\ ParentStands(rows[k].of, rows[k].under)
    BY RowsAre DEF CtInv, RowsInv
  <2>2. \A k \in DOMAIN rows : rows[k].of = "risk" => k \in ShownRisks
    BY <2>1 DEF ShownRisks, Siblings, ParentStands
  <2>3. \A k \in DOMAIN rows : rows[k].of = "hazard" => k \in ShownHazards
    BY <2>1, <2>2 DEF ShownHazards, Siblings, ParentStands, Stands
  <2>4. rows[i].of = "control" => i \in ShownControls
    BY <2>1, <2>3 DEF ShownControls, Siblings, ParentStands, Stands
  <2>5. rows[i].of \in Registers
    BY <2>1 DEF CtRows
  <2>6. ASSUME rows[i].of \notin {"risk", "hazard", "control"}
        PROVE  i \in UNION {Siblings(r, 0) : r \in {"equipment", "kit", "logistics", "transport",
                                                  "catering"}}
    <3>1. rows[i].of \in {"equipment", "kit", "logistics", "transport", "catering"}
      BY <2>5, <2>6, RegistersAre
    <3>2. i \in Siblings(rows[i].of, 0)
      BY <2>1, <2>6 DEF Siblings, ParentStands
    <3> QED BY <3>1, <3>2
  <2> QED BY <2>2, <2>3, <2>4, <2>6
<1>3. DOMAIN rows \subseteq ShownRows
  BY <1>2 DEF ShownRows
<1> QED BY <1>1, <1>3 DEF EveryRowIsShown

LEMMA ReleasesStand == CtInv => FirstReleaseStands
BY DEF CtInv, HoldsInv, HoldIsLogged, PlacedAt, TriedAt, FirstReleaseStands

\* The batch of a logistics plan whose rank comes after those of the first.
LEMMA PlanComesLast ==
  ASSUME CtInv, NEW h \in CtHandlers, CommitRow(h), ctReq[h].of = "logistics",
         NEW p \in PrimaryPlans, NEW last \in ctReq[h].last,
         rows[p].rank <= last, last < EndRank - 1
  PROVE  PrimaryPlans' = PrimaryPlans /\ LogisticsReady' = LogisticsReady
<1>1. PICK r \in CtRequests, new \in CtRows :
           /\ r = ctReq[h] /\ r.at = "add" /\ r.of \in Registers /\ ParentStands(r.of, r.under)
           /\ new.of = r.of /\ new.under = r.under /\ new.rank = NextRank(r.last)
           /\ new.settled = r.settled /\ new.archived = FALSE
           /\ rows' = Append(rows, new) /\ rows' \in Seq(CtRows)
           /\ DOMAIN rows' = DOMAIN rows \cup {Len(rows) + 1} /\ Len(rows) + 1 \notin DOMAIN rows
           /\ rows'[Len(rows) + 1] = new /\ \A i \in DOMAIN rows : rows'[i] = rows[i]
           /\ ctReq' = [ctReq EXCEPT ![h] = NoCtReq] /\ UNCHANGED <<holds, holdEvents>>
  BY CommitRowIs
<1>2. PICK n : n = Len(rows) + 1
  OBVIOUS
<1>3. /\ DOMAIN rows' = DOMAIN rows \cup {n} /\ n \notin DOMAIN rows
      /\ rows'[n] = new /\ \A i \in DOMAIN rows : rows'[i] = rows[i]
  BY <1>1, <1>2
<1>4. new.of = "logistics" /\ new.under = 0
  BY <1>1, RegistersAre DEF ParentStands
<1>5. Current("logistics")' = Current("logistics") \cup {n}
  BY <1>1, <1>3, <1>4 DEF Current, Siblings
<1>6. ASSUME NEW register, register # "logistics"
      PROVE  Resolved(register)' = Resolved(register)
  <2>1. Current(register)' = Current(register) /\ Current(register) \subseteq DOMAIN rows
    BY <1>1, <1>3, <1>4, <1>6 DEF Current, Siblings
  <2> QED BY <1>3, <2>1 DEF Resolved
<1>7. p \in DOMAIN rows /\ rows[p].rank \in Nat /\ p \in Current("logistics")
      /\ Current("logistics") \subseteq DOMAIN rows
      /\ \A i \in Current("logistics") : rows[i].rank \in Nat
  BY RowsAre DEF PrimaryPlans, Current, Siblings, CtRows
<1>8. rows[p].rank < new.rank
  <2>1. r.last \in Lasts /\ last \in r.last
    BY <1>1 DEF CtRequests
  <2>2. last \in Nat /\ NextRank(r.last) \in Nat /\ NextRank(r.last) > last
    BY <2>1, NextRankIs DEF Lasts
  <2> QED BY <1>1, <1>7, <2>2
<1>9. PrimaryPlans' = PrimaryPlans
  <2>1. ASSUME NEW i \in Current("logistics")
        PROVE  i \in PrimaryPlans' <=> i \in PrimaryPlans
    <3>1. rows'[i] = rows[i] /\ rows[i].rank \in Nat /\ new.rank \in Nat
      BY <1>3, <1>7 DEF CtRows
    <3>2. ASSUME i \in PrimaryPlans
          PROVE  i \in PrimaryPlans'
      <4>1. rows[i].rank <= rows[p].rank
        BY <1>7, <3>2 DEF PrimaryPlans
      <4>2. \A j \in Current("logistics") : rows[i].rank <= rows'[j].rank
        BY <1>3, <1>7, <3>2 DEF PrimaryPlans
      <4> QED BY <1>3, <1>5, <1>7, <1>8, <3>1, <4>1, <4>2 DEF PrimaryPlans
    <3>3. ASSUME i \in PrimaryPlans'
          PROVE  i \in PrimaryPlans
      BY <1>3, <1>5, <1>7, <3>1, <3>3 DEF PrimaryPlans
    <3> QED BY <3>2, <3>3
  <2>2. n \notin PrimaryPlans'
    BY <1>3, <1>5, <1>7, <1>8 DEF PrimaryPlans, CtRows
  <2>3. PrimaryPlans' \subseteq Current("logistics") \cup {n}
    BY <1>5 DEF PrimaryPlans
  <2>4. PrimaryPlans \subseteq Current("logistics")
    BY DEF PrimaryPlans
  <2> QED BY <2>1, <2>2, <2>3, <2>4
<1>10. LogisticsReady' = LogisticsReady
  <2>1. \A i \in PrimaryPlans : rows'[i].settled = rows[i].settled
    BY <1>3, <1>7 DEF PrimaryPlans
  <2>2. Resolved("transport")' = Resolved("transport") /\ Resolved("catering")' = Resolved("catering")
    BY <1>6
  <2> QED BY <1>9, <2>1, <2>2 DEF LogisticsReady
<1> QED BY <1>9, <1>10

\* Only the batch of a request adds a row and ends it.
LEMMA PlansStep ==
  ASSUME CtInv, [ControlsNext]_controlsVars, NEW h \in CtHandlers,
         ctReq[h].of = "logistics", ctReq'[h].of = "none", rows' # rows
  PROVE  CommitRow(h)
<1>1. ControlsNext
  BY DEF controlsVars
<1>2. ASSUME NEW g \in CtHandlers, CommitRow(g)
      PROVE  g = h
  BY <1>2 DEF CommitRow, CtInv, RowsInv
<1>3. ASSUME NEW i \in 1..MaxRows, NEW archived \in BOOLEAN, SetArchived(i, archived)
      PROVE  FALSE
  BY <1>3 DEF SetArchived
<1>4. ASSUME NEW x \in HoldIds, NEW actor \in HoldOwners,
             PlaceHold(x, actor) \/ ReleaseHold(x, actor)
      PROVE  FALSE
  BY <1>4 DEF PlaceHold, ReleaseHold
<1>5. ASSUME NEW g \in CtHandlers,
               \/ AddRisk(g) \/ AddEquipment(g) \/ AddKit(g)
               \/ \E i \in 1..MaxRows : AddHazard(g, i) \/ AddControl(g, i)
               \/ \E settled \in BOOLEAN :
                    AddLogistics(g, settled) \/ AddTransport(g, settled) \/ AddCatering(g, settled)
      PROVE  FALSE
  BY <1>5, AddStep
<1>6. ASSUME NEW g \in CtHandlers, DropRow(g)
      PROVE  FALSE
  BY <1>6, DropRowStep
<1> QED BY <1>1, <1>2, <1>3, <1>4, <1>5, <1>6 DEF ControlsNext

LEMMA PlansStepLast ==
  ASSUME CtInv, [ControlsNext]_controlsVars, NEW h \in CtHandlers,
         ctReq[h].of = "logistics", ctReq'[h].of = "none", rows' # rows,
         \E i \in PrimaryPlans : \E last \in ctReq[h].last :
            rows[i].rank <= last /\ last < EndRank - 1
  PROVE  PrimaryPlans' = PrimaryPlans /\ LogisticsReady' = LogisticsReady
BY PlansStep, PlanComesLast

\* Whatever requests overlap and wherever a Worker dies: a hold's release is
\* the first that was tried after its placing, whoever tried later
\* (planning-controls.ts:1478); every row of a register is on the page, below
\* the row it was added to (:2240); and a logistics plan that is added stays
\* behind the plan on which the page's readiness rests (:2772, rank.ts:26).
THEOREM ControlsAlwaysStand == ControlsSpec => ControlsStand
<1>1. ControlsInit => CtInv
  BY ControlsInitInv
<1>2. CtInv /\ [ControlsNext]_controlsVars => CtInv'
  BY ControlsStep
<1>3. CtInv => FirstReleaseStands /\ EveryRowIsShown
  BY ReleasesStand, RowsAreShown
<1>4. CtInv /\ [ControlsNext]_controlsVars =>
        [\A h \in CtHandlers :
           /\ ctReq[h].of = "logistics" /\ ctReq'[h].of = "none" /\ rows' # rows
           /\ PrimaryPlans # {} /\ \E i \in PrimaryPlans : \E last \in ctReq[h].last :
                rows[i].rank <= last /\ last < EndRank - 1
           => PrimaryPlans' = PrimaryPlans /\ LogisticsReady' = LogisticsReady]_controlsVars
  BY PlansStepLast
<1> QED BY <1>1, <1>2, <1>3, <1>4, PTL DEF ControlsSpec, ControlsStand, AddedPlanComesLast

----------------------------------------------------------------------------
(***************************************************************************)
(* Records: edits are kept, an archived project settles and an idea becomes *)
(* one project.                                                            *)
(***************************************************************************)

RcObjects == Recs \cup Ideas \cup {"project"}

\* What records.ts alone writes.
Plain == Recs \ Ideas

\* Where a request is that has read a row to patch it.
Patching == {"edit", "patch", "idea", "progress"}

\* Where a request may be that has begun its key.
Owning == {"promote", "answer", "fail"}

IsRow(r) ==
  {"version", "value", "details", "archived", "rank"} \subseteq DOMAIN r /\ r.version \in Nat

IsRcReq(r) == {"at", "on", "version", "read", "write"} \subseteq DOMAIN r

IsKeyRow(r) == {"state", "body", "ref", "expired"} \subseteq DOMAIN r

PromoteKeyOf(k) == promoteKey[<<"promote", k>>]

\* What a request read of its row is what the row still has, unless its
\* version went on.
RequestStands(r) ==
  /\ r.at \in {"create", "rank"} => r.on \in Recs
  /\ r.at \in {"archive", "lifecycle"} => r.on \in RcObjects
  /\ r.at \in Patching =>
       /\ r.on \in RcObjects /\ r.version \in Nat \ {0} /\ r.version <= row[r.on].version
       /\ r.version = row[r.on].version =>
            r.read.value = row[r.on].value /\ r.read.details = row[r.on].details
  /\ r.at \in {"begin"} \cup Owning =>
       r.on \in Ideas /\ r.write.code \in RcCodes /\ r.write.key \in RcKeys
  /\ r.at \in {"begin", "promote"} =>
       /\ r.version \in Nat \ {0} /\ r.version <= row[r.on].version
       /\ r.version = row[r.on].version /\ (r.at = "begin" => ~r.read) => PromotedFrom(r.on) = {}

\* A request past the beginning of its key has the key, running until its batch.
KeyStands(r) ==
  /\ r.at \in Owning => PromoteKeyOf(r.write.key).state # "none"
  /\ r.at = "promote" => PromoteKeyOf(r.write.key).state = "running"

Shapes ==
  /\ DOMAIN row = RcObjects /\ \A x \in RcObjects : IsRow(row[x])
  /\ rcReq = [h \in RcHandlers |-> rcReq[h]] /\ \A h \in RcHandlers : IsRcReq(rcReq[h])
  /\ DOMAIN promoteKey = {"promote"} \X RcKeys /\ \A k \in RcKeys : IsKeyRow(PromoteKeyOf(k))

RequestsInv ==
  /\ \A h \in RcHandlers : \A r : rcReq[h] = r => RequestStands(r) /\ KeyStands(r)
  /\ \A h, g \in RcHandlers :
       rcReq[h].at \in Owning /\ rcReq[g].at \in Owning /\ rcReq[h].write.key = rcReq[g].write.key
         => h = g

PromotedInv ==
  /\ \A i \in Ideas : \A p, q \in PromotedFrom(i) : p = q
  /\ \A k \in RcKeys : PromoteKeyOf(k).state = "completed" <=> \E p \in born : p.key = {k}

RcInv == Shapes /\ RequestsInv /\ PromotedInv

----------------------------------------------------------------------------
LEMMA RcSentinels ==
  /\ "project" \notin Recs \cup Ideas /\ "none" \notin Recs \cup Ideas
  /\ "project" \in RcObjects /\ Recs \subseteq RcObjects /\ Ideas \subseteq RcObjects
BY RecordsAssumption DEF RecordsAssumption, RcObjects

LEMMA NewRowIs ==
  ASSUME NEW rank, NEW held
  PROVE  IsRow(NewRow(rank, held)) /\ NewRow(rank, held).version = 1 /\ IsRow(NoRow) /\ NoRow.version = 0
BY DEF NewRow, NoRow, IsRow

LEMMA NoRcReqIs == IsRcReq(NoRcReq) /\ NoRcReq.at = "idle" /\ NoRcReq.on = "none"
BY DEF NoRcReq, IsRcReq

LEMMA RcChange ==
  ASSUME NEW r, IsRcReq(r), NEW at
  PROVE  /\ IsRcReq([r EXCEPT !.at = at]) /\ [r EXCEPT !.at = at].at = at
         /\ [r EXCEPT !.at = at].on = r.on /\ [r EXCEPT !.at = at].version = r.version
         /\ [r EXCEPT !.at = at].read = r.read /\ [r EXCEPT !.at = at].write = r.write
BY DEF IsRcReq

LEMMA KeyChange ==
  ASSUME NEW r, IsKeyRow(r), NEW state, NEW ref
  PROVE  /\ IsKeyRow([r EXCEPT !.state = state]) /\ [r EXCEPT !.state = state].state = state
         /\ IsKeyRow([r EXCEPT !.state = state, !.ref = ref])
         /\ [r EXCEPT !.state = state, !.ref = ref].state = state
BY DEF IsKeyRow

LEMMA RcInitInv == RecordsInit => RcInv
<1> SUFFICES ASSUME RecordsInit PROVE RcInv
  OBVIOUS
<1>1. PICK first \in {{}} \cup {{x} : x \in Recs} :
        row = [x \in RcObjects |-> IF x \in first \cup {"project"} THEN NewRow(LegacyRank, {}) ELSE NoRow]
  BY DEF RecordsInit, RcObjects
<1>2. DOMAIN row = RcObjects /\ \A x \in RcObjects : IsRow(row[x])
  BY <1>1, NewRowIs
<1>3. promoteKey = [ok \in {"promote"} \X RcKeys |-> Promoting!NoRecord]
  BY DEF RecordsInit, Promoting!IdempotencyInit
<1>4. IsKeyRow(Promoting!NoRecord) /\ Promoting!NoRecord.state = "none"
  BY DEF IsKeyRow, Promoting!NoRecord
<1>5. \A k \in RcKeys : PromoteKeyOf(k) = Promoting!NoRecord
  BY <1>3 DEF PromoteKeyOf
<1>6. Shapes
  BY <1>2, <1>3, <1>4, <1>5, NoRcReqIs DEF RecordsInit, Shapes
<1>7. RequestsInv
  BY NoRcReqIs DEF RecordsInit, RequestsInv, RequestStands, KeyStands, Owning, Patching
<1>8. PromotedInv
  BY <1>4, <1>5 DEF RecordsInit, PromotedInv, PromotedFrom
<1> QED BY <1>6, <1>7, <1>8 DEF RcInv

----------------------------------------------------------------------------
(* A step of one request.                                                  *)

\* Rows change with their version, and an idea becomes a project with it.
RowsGoOn ==
  /\ DOMAIN row' = RcObjects
  /\ \A x \in RcObjects :
       /\ IsRow(row'[x]) /\ row[x].version <= row'[x].version
       /\ row[x].version = row'[x].version /\ row[x].version # 0 =>
            /\ row'[x].value = row[x].value /\ row'[x].details = row[x].details
            /\ x \in Ideas => PromotedFrom(x)' = PromotedFrom(x)

LEMMA RequestGoesOn ==
  ASSUME Shapes, RowsGoOn, NEW r, RequestStands(r)
  PROVE  RequestStands(r)'
<1>1. \A x \in RcObjects : row[x].version \in Nat /\ row'[x].version \in Nat
  BY DEF Shapes, RowsGoOn, IsRow
<1>2. ASSUME r.at \in Patching
      PROVE  /\ r.version <= row'[r.on].version
             /\ r.version = row'[r.on].version =>
                  r.read.value = row'[r.on].value /\ r.read.details = row'[r.on].details
  BY <1>1, <1>2 DEF RowsGoOn, RequestStands
<1>3. ASSUME r.at \in {"begin", "promote"}
      PROVE  /\ r.version <= row'[r.on].version
             /\ r.version = row'[r.on].version /\ (r.at = "begin" => ~r.read)
                  => PromotedFrom(r.on)' = {}
  <2>1. r.on \in Ideas /\ r.on \in RcObjects
    BY <1>3, RcSentinels DEF RequestStands, Owning
  <2> QED BY <1>1, <1>3, <2>1 DEF RowsGoOn, RequestStands
<1> QED BY <1>2, <1>3 DEF RequestStands

\* Request h becomes q; the others keep their keys.
LEMMA RcStep ==
  ASSUME RcInv, NEW h \in RcHandlers, NEW q, rcReq' = [rcReq EXCEPT ![h] = q], RowsGoOn,
         IsRcReq(q), RequestStands(q)', KeyStands(q)',
         q.at \in Owning => \A g \in RcHandlers \ {h} :
           rcReq[g].at \in Owning => rcReq[g].write.key # q.write.key,
         \A g \in RcHandlers \ {h}, j \in RcKeys :
           rcReq[g].at \in Owning /\ rcReq[g].write.key = j => PromoteKeyOf(j)' = PromoteKeyOf(j),
         DOMAIN promoteKey' = {"promote"} \X RcKeys, \A k \in RcKeys : IsKeyRow(PromoteKeyOf(k)'),
         PromotedInv'
  PROVE  RcInv'
<1>1. rcReq' = [g \in RcHandlers |-> IF g = h THEN q ELSE rcReq[g]]
  BY DEF RcInv, Shapes
<1>2. Shapes'
  BY <1>1 DEF RcInv, Shapes, RowsGoOn
<1>3. ASSUME NEW g \in RcHandlers, NEW r, rcReq'[g] = r
      PROVE  RequestStands(r)' /\ KeyStands(r)'
  <2>1. CASE g = h
    BY <1>1, <1>3, <2>1
  <2>2. CASE g # h
    <3>1. r = rcReq[g] /\ RequestStands(r) /\ KeyStands(r)
      BY <1>1, <1>3, <2>2 DEF RcInv, RequestsInv
    <3>2. r.at \in Owning => PromoteKeyOf(r.write.key)' = PromoteKeyOf(r.write.key)
      BY <2>2, <3>1 DEF RequestStands
    <3>3. KeyStands(r)'
      BY <3>1, <3>2 DEF KeyStands, Owning
    <3> QED BY <3>1, <3>3, RequestGoesOn DEF RcInv
  <2> QED BY <2>1, <2>2
<1>4. ASSUME NEW f \in RcHandlers, NEW g \in RcHandlers, rcReq'[f].at \in Owning,
             rcReq'[g].at \in Owning, rcReq'[f].write.key = rcReq'[g].write.key
      PROVE  f = g
  BY <1>1, <1>4 DEF RcInv, RequestsInv
<1>5. RequestsInv'
  BY <1>3, <1>4 DEF RequestsInv
<1> QED BY <1>2, <1>5 DEF RcInv

\* The same when no key and no project changes.
LEMMA RcQuiet ==
  ASSUME RcInv, NEW h \in RcHandlers, NEW q, rcReq' = [rcReq EXCEPT ![h] = q], RowsGoOn,
         IsRcReq(q), RequestStands(q)',
         q.at \in Owning => /\ rcReq[h].at \in Owning /\ q.write = rcReq[h].write
                            /\ q.at # "promote",
         UNCHANGED <<born, promoteKey>>
  PROVE  RcInv'
<1>1. \A k : PromoteKeyOf(k)' = PromoteKeyOf(k)
  BY DEF PromoteKeyOf
<1>2. PICK r : r = rcReq[h]
  OBVIOUS
<1>3. KeyStands(q)'
  <2>1. KeyStands(r)
    BY <1>2 DEF RcInv, RequestsInv
  <2> QED BY <1>1, <1>2, <2>1 DEF KeyStands, Owning
<1>4. q.at \in Owning => \A g \in RcHandlers \ {h} :
        rcReq[g].at \in Owning => rcReq[g].write.key # q.write.key
  BY DEF RcInv, RequestsInv
<1>5. PromotedInv'
  BY <1>1 DEF RcInv, PromotedInv, PromotedFrom
<1>6. DOMAIN promoteKey' = {"promote"} \X RcKeys /\ \A k \in RcKeys : IsKeyRow(PromoteKeyOf(k)')
  BY <1>1 DEF RcInv, Shapes
<1>7. \A g \in RcHandlers \ {h}, j \in RcKeys :
        rcReq[g].at \in Owning /\ rcReq[g].write.key = j => PromoteKeyOf(j)' = PromoteKeyOf(j)
  BY <1>1
<1> QED BY <1>3, <1>4, <1>5, <1>6, <1>7, RcStep

LEMMA RowsStay ==
  ASSUME RcInv, UNCHANGED <<row, born>>
  PROVE  RowsGoOn
BY DEF RcInv, Shapes, RowsGoOn, PromotedFrom, IsRow

\* One row gets its next version.
LEMMA RowMoves ==
  ASSUME Shapes, NEW x \in RcObjects, DOMAIN row' = RcObjects,
         \A y \in RcObjects \ {x} :
           row'[y] = row[y] /\ (y \in Ideas => PromotedFrom(y)' = PromotedFrom(y)),
         IsRow(row'[x]), row[x].version < row'[x].version
  PROVE  RowsGoOn
<1>1. \A y \in RcObjects : IsRow(row[y]) /\ row[y].version \in Nat
  BY DEF Shapes, IsRow
<1>2. row'[x].version \in Nat
  BY DEF IsRow
<1> QED BY <1>1, <1>2 DEF RowsGoOn

LEMMA StartStep ==
  ASSUME RcInv, NEW h \in RcHandlers, NEW q, StartRecords(h, q), IsRcReq(q), RequestStands(q),
         q.at \notin Owning
  PROVE  RcInv' /\ UNCHANGED row
<1>1. rcReq' = [rcReq EXCEPT ![h] = q] /\ UNCHANGED <<row, born, promoteKey>>
  BY DEF StartRecords
<1>2. RequestStands(q)'
  BY <1>1 DEF RequestStands, PromotedFrom
<1> QED BY <1>1, <1>2, RowsStay, RcQuiet

LEMMA FinishStep ==
  ASSUME RcInv, NEW h \in RcHandlers, RcFinish(h), RowsGoOn, UNCHANGED <<born, promoteKey>>
  PROVE  RcInv'
<1>1. rcReq' = [rcReq EXCEPT ![h] = NoRcReq]
  BY DEF RcFinish
<1>2. IsRcReq(NoRcReq) /\ RequestStands(NoRcReq)' /\ NoRcReq.at \notin Owning
  BY NoRcReqIs DEF RequestStands, Owning, Patching
<1> QED BY <1>1, <1>2, RcQuiet

\* A request that goes on with what it read, to its end or to its error path.
LEMMA RcGotoStep ==
  ASSUME RcInv, NEW h \in RcHandlers, NEW at, RcGoto(h, at),
         at = "stranded" \/ (at = "fail" /\ rcReq[h].at \in Owning),
         UNCHANGED <<row, born, promoteKey>>
  PROVE  RcInv'
<1>1. PICK r : r = rcReq[h]
  OBVIOUS
<1> DEFINE q == [r EXCEPT !.at = at]
<1>2. IsRcReq(r) /\ RequestStands(r)
  BY <1>1 DEF RcInv, Shapes, RequestsInv
<1>3. IsRcReq(q) /\ q.at = at /\ q.on = r.on /\ q.write = r.write
  BY <1>2, RcChange
<1>4. rcReq' = [rcReq EXCEPT ![h] = q]
  BY <1>1 DEF RcGoto
<1> HIDE DEF q
<1>5. RequestStands(q)'
  BY <1>1, <1>2, <1>3 DEF RequestStands, Owning, PromotedFrom, Patching
<1>6. q.at \in Owning => rcReq[h].at \in Owning /\ q.write = rcReq[h].write /\ q.at # "promote"
  BY <1>1, <1>3 DEF Owning
<1> QED BY <1>3, <1>4, <1>5, <1>6, RowsStay, RcQuiet

----------------------------------------------------------------------------
(* Requests that read.                                                     *)

LEMMA StartCreateStep ==
  ASSUME RcInv, NEW h \in RcHandlers, NEW x \in Recs, NEW held, StartCreate(h, x, held)
  PROVE  RcInv' /\ UNCHANGED row
<1> DEFINE q == [NoRcReq EXCEPT !.at = "create", !.on = x, !.read = AppendRankPlan(x), !.write = held]
<1>1. IsRcReq(q) /\ q.at = "create" /\ q.on = x
  BY NoRcReqIs DEF IsRcReq
<1>2. StartRecords(h, q)
  BY DEF StartCreate
<1> HIDE DEF q
<1>3. RequestStands(q) /\ q.at \notin Owning
  BY <1>1 DEF RequestStands, Owning, Patching
<1> QED BY <1>1, <1>2, <1>3, StartStep

LEMMA StartRankStep ==
  ASSUME RcInv, NEW h \in RcHandlers, NEW x \in Recs, NEW e, NEW after, NEW before,
         StartRank(h, x, e, after, before)
  PROVE  RcInv' /\ UNCHANGED row
<1>1. PICK read : StartRecords(h, [NoRcReq EXCEPT !.at = "rank", !.on = x, !.version = e, !.read = read])
  BY DEF StartRank
<1> DEFINE q == [NoRcReq EXCEPT !.at = "rank", !.on = x, !.version = e, !.read = read]
<1>2. IsRcReq(q) /\ q.at = "rank" /\ q.on = x
  BY NoRcReqIs DEF IsRcReq
<1>3. StartRecords(h, q)
  BY <1>1
<1> HIDE DEF q
<1>4. RequestStands(q) /\ q.at \notin Owning
  BY <1>2 DEF RequestStands, Owning, Patching
<1> QED BY <1>2, <1>3, <1>4, StartStep

LEMMA StartPatchStep ==
  ASSUME RcInv, NEW h \in RcHandlers, NEW at \in Patching, NEW x \in RcObjects,
         NEW e \in 1 .. row[x].version, NEW fields, NEW details,
         StartPatch(h, at, x, e, fields, details)
  PROVE  RcInv' /\ UNCHANGED row
<1> DEFINE read == row[x]
           write == [fields |-> fields, details |-> details]
           q == [NoRcReq EXCEPT !.at = at, !.on = x, !.version = e, !.read = read, !.write = write]
<1>1. StartRecords(h, q)
  BY DEF StartPatch
<1>2. read = row[x]
  OBVIOUS
<1> HIDE DEF read, write
<1>3. IsRcReq(q) /\ q.at = at /\ q.on = x /\ q.version = e /\ q.read = read
  BY NoRcReqIs DEF IsRcReq
<1> HIDE DEF q
<1>4. row[x].version \in Nat
  BY DEF RcInv, Shapes, IsRow
<1>5. q.at \notin Owning \cup {"begin", "create", "rank", "archive", "lifecycle"}
  BY <1>3 DEF Owning, Patching
<1>6. RequestStands(q)
  BY <1>2, <1>3, <1>4, <1>5 DEF RequestStands, Owning
<1> QED BY <1>1, <1>3, <1>5, <1>6, StartStep

LEMMA ArchivingStep ==
  ASSUME RcInv, NEW h \in RcHandlers, NEW at \in {"archive", "lifecycle"}, NEW x \in RcObjects,
         NEW e, NEW to, Archiving(h, at, x, e, to)
  PROVE  RcInv' /\ UNCHANGED row
<1> DEFINE q == [NoRcReq EXCEPT !.at = at, !.on = x, !.version = e, !.write = {to}]
<1>1. IsRcReq(q) /\ q.at = at /\ q.on = x
  BY NoRcReqIs DEF IsRcReq
<1>2. StartRecords(h, q)
  BY DEF Archiving
<1> HIDE DEF q
<1>3. RequestStands(q) /\ q.at \notin Owning
  BY <1>1 DEF RequestStands, Owning, Patching
<1> QED BY <1>1, <1>2, <1>3, StartStep

LEMMA StartPromoteStep ==
  ASSUME RcInv, NEW h \in RcHandlers, NEW i \in Ideas, NEW e \in 1 .. row[i].version,
         NEW c \in RcCodes, NEW k \in RcKeys, StartPromote(h, i, e, c, k)
  PROVE  RcInv' /\ UNCHANGED row
<1> DEFINE w == [code |-> c, key |-> k]
           taken == i \in Recs \/ PromotedFrom(i) # {}
           q == [NoRcReq EXCEPT !.at = "begin", !.on = i, !.version = e, !.read = taken, !.write = w]
<1>0. w.code = c /\ w.key = k
  OBVIOUS
<1>1. StartRecords(h, q)
  BY DEF StartPromote
<1>t. ~taken => PromotedFrom(i) = {}
  OBVIOUS
<1> HIDE DEF w, taken
<1>2. IsRcReq(q) /\ q.at = "begin" /\ q.on = i /\ q.version = e /\ q.read = taken
      /\ q.write = w
  BY NoRcReqIs DEF IsRcReq
<1> HIDE DEF q
<1>3. row[i].version \in Nat
  BY RcSentinels DEF RcInv, Shapes, IsRow
<1>4. RequestStands(q) /\ q.at \notin Owning
  BY <1>0, <1>t, <1>2, <1>3 DEF RequestStands, Owning, Patching
<1> QED BY <1>1, <1>2, <1>4, StartStep

----------------------------------------------------------------------------
(* Batches.                                                                *)

LEMMA CommitCreateStep ==
  ASSUME RcInv, NEW h \in RcHandlers, CommitCreate(h)
  PROVE  RcInv' /\ rcReq[h].on \in Recs /\ \A x \in RcObjects \ {rcReq[h].on} : row'[x] = row[x]
<1>1. PICK r : r = rcReq[h]
  OBVIOUS
<1>2. r.at = "create" /\ RequestStands(r)
  BY <1>1 DEF CommitCreate, RcInv, RequestsInv
<1>3. r.on \in Recs /\ r.on \in RcObjects
  BY <1>2, RcSentinels DEF RequestStands
<1>4. PICK rank, held : row' = [row EXCEPT ![r.on] = NewRow(rank, held)]
  BY <1>1 DEF CommitCreate
<1>5. row[r.on].version = 0
  BY <1>1, <1>3 DEF CommitCreate, Exists, RcInv, Shapes, IsRow
<1>6. RowsGoOn
  <2>1. DOMAIN row' = RcObjects /\ \A y \in RcObjects \ {r.on} : row'[y] = row[y]
    BY <1>4 DEF RcInv, Shapes
  <2>2. row'[r.on] = NewRow(rank, held)
    BY <1>3, <1>4 DEF RcInv, Shapes
  <2>3. born' = born
    BY DEF CommitCreate
  <2> QED BY <1>3, <1>5, <2>1, <2>2, <2>3, NewRowIs, RowMoves DEF RcInv, PromotedFrom
<1>7. RcFinish(h) /\ UNCHANGED <<born, promoteKey>>
  BY DEF CommitCreate
<1> QED BY <1>1, <1>3, <1>4, <1>6, <1>7, FinishStep DEF RcInv, Shapes

\* A batch that the guard row lets pass writes one row, with its next version.
LEMMA GuardedStep ==
  ASSUME RcInv, NEW h \in RcHandlers, NEW r, r = rcReq[h], r.on \in RcObjects,
         DOMAIN row' = RcObjects, \A y \in RcObjects \ {r.on} : row'[y] = row[y],
         IsRow(row'[r.on]), row'[r.on].version = row[r.on].version + 1,
         RcFinish(h), UNCHANGED <<born, promoteKey>>
  PROVE  RcInv'
<1>1. row[r.on].version \in Nat
  BY DEF RcInv, Shapes, IsRow
<1>2. RowsGoOn
  BY <1>1, RowMoves DEF RcInv, PromotedFrom
<1> QED BY <1>2, FinishStep

LEMMA CommitRankStep ==
  ASSUME RcInv, NEW h \in RcHandlers, CommitRank(h)
  PROVE  RcInv' /\ rcReq[h].on \in Recs /\ \A x \in RcObjects \ {rcReq[h].on} : row'[x] = row[x]
<1>1. PICK r : r = rcReq[h]
  OBVIOUS
<1>2. r.at = "rank" /\ RequestStands(r)
  BY <1>1 DEF CommitRank, RcInv, RequestsInv
<1>3. r.on \in Recs /\ r.on \in RcObjects
  BY <1>2, RcSentinels DEF RequestStands
<1>4. row' = [row EXCEPT ![r.on].rank = r.read, ![r.on].version = @ + 1]
  BY <1>1 DEF CommitRank
<1>5. DOMAIN row' = RcObjects /\ \A y \in RcObjects \ {r.on} : row'[y] = row[y]
  BY <1>4 DEF RcInv, Shapes
<1>6. IsRow(row'[r.on]) /\ row'[r.on].version = row[r.on].version + 1
  BY <1>3, <1>4 DEF RcInv, Shapes, IsRow
<1>7. RcFinish(h) /\ UNCHANGED <<born, promoteKey>>
  BY DEF CommitRank
<1> QED BY <1>1, <1>3, <1>5, <1>6, <1>7, GuardedStep

\* What a PATCH does to the columns that it does not name, and to the details.
LeavesOthers(h) ==
  LET r == rcReq[h]
      held == row'[r.on].details
  IN  /\ r.write.details = {} => held = row[r.on].details
      /\ \A f \in RcFields \ r.write.fields :
           row'[r.on].value[f] =
             CASE r.at = "edit" /\ f \in Shadowed /\ held[f] # 0 -> held[f]
               [] r.at = "idea" /\ f \in Refilled -> 0
               [] OTHER -> row[r.on].value[f]

LEMMA CommitPatchStep ==
  ASSUME RcInv, NEW h \in RcHandlers, NEW at \in Patching, CommitPatch(h, at)
  PROVE  /\ RcInv' /\ rcReq[h].on \in RcObjects
         /\ \A x \in RcObjects \ {rcReq[h].on} : row'[x] = row[x]
         /\ LeavesOthers(h)
<1>1. PICK r : r = rcReq[h]
  OBVIOUS
<1>2. r.at = at /\ RequestStands(r) /\ r.version = row[r.on].version
  BY <1>1 DEF CommitPatch, RcGuard, RcInv, RequestsInv
<1>3. r.on \in RcObjects /\ r.read.value = row[r.on].value /\ r.read.details = row[r.on].details
  BY <1>2 DEF RequestStands
<1>4. PICK value, details : value = NewValue(r) /\ details = NewDetails(r)
  OBVIOUS
<1>5. row' = [row EXCEPT ![r.on].version = @ + 1, ![r.on].value = value, ![r.on].details = details]
  <2>1. row' = [row EXCEPT ![r.on].version = Mark(r), ![r.on].value = value, ![r.on].details = details]
    BY <1>1, <1>4 DEF CommitPatch
  <2> QED BY <1>3, <2>1 DEF RcInv, Shapes, IsRow, Mark
<1>6. DOMAIN row' = RcObjects /\ \A y \in RcObjects \ {r.on} : row'[y] = row[y]
  BY <1>5 DEF RcInv, Shapes
<1>7. /\ IsRow(row'[r.on]) /\ row'[r.on].version = row[r.on].version + 1
      /\ row'[r.on].value = value /\ row'[r.on].details = details
  BY <1>3, <1>5 DEF RcInv, Shapes, IsRow
<1>8. RcFinish(h) /\ UNCHANGED <<born, promoteKey>>
  BY DEF CommitPatch
<1>9. RcInv'
  BY <1>1, <1>3, <1>6, <1>7, <1>8, GuardedStep
<1>10. r.write.details = {} => details = row[r.on].details
  BY <1>3, <1>4 DEF NewDetails
<1>11. ASSUME NEW f \in RcFields \ r.write.fields
       PROVE  value[f] = CASE r.at = "edit" /\ f \in Shadowed /\ details[f] # 0 -> details[f]
                           [] r.at = "idea" /\ f \in Refilled -> 0
                           [] OTHER -> row[r.on].value[f]
  <2>1. value[f] = LeftOut(r, f)
    BY <1>4 DEF NewValue
  <2> QED BY <1>3, <1>4, <2>1 DEF LeftOut
<1>12. LeavesOthers(h)
  BY <1>1, <1>7, <1>10, <1>11 DEF LeavesOthers
<1> QED BY <1>1, <1>3, <1>6, <1>9, <1>12

LEMMA ArchivedStep ==
  ASSUME RcInv, NEW h \in RcHandlers, NEW at \in {"archive", "lifecycle"}, Archived(h, at)
  PROVE  RcInv' /\ rcReq[h].on \in RcObjects /\ \A x \in RcObjects \ {rcReq[h].on} : row'[x] = row[x]
<1>1. PICK r : r = rcReq[h]
  OBVIOUS
<1>2. r.at \in {"archive", "lifecycle"} /\ RequestStands(r)
  BY <1>1 DEF Archived, RcInv, RequestsInv
<1>3. r.on \in RcObjects
  BY <1>2 DEF RequestStands
<1>4. PICK to : row' = [row EXCEPT ![r.on].archived = to, ![r.on].version = @ + 1]
  BY <1>1 DEF Archived
<1>5. DOMAIN row' = RcObjects /\ \A y \in RcObjects \ {r.on} : row'[y] = row[y]
  BY <1>4 DEF RcInv, Shapes
<1>6. IsRow(row'[r.on]) /\ row'[r.on].version = row[r.on].version + 1
  BY <1>3, <1>4 DEF RcInv, Shapes, IsRow
<1>7. RcFinish(h) /\ UNCHANGED <<born, promoteKey>>
  BY DEF Archived
<1> QED BY <1>1, <1>3, <1>5, <1>6, <1>7, GuardedStep

LEMMA CaptureIdeaStep ==
  ASSUME RcInv, NEW i \in Ideas, CaptureIdea(i)
  PROVE  RcInv'
<1>1. row' = [row EXCEPT ![i] = NewRow(LegacyRank, {})] /\ UNCHANGED <<born, promoteKey, rcReq>>
  BY DEF CaptureIdea
<1>2. i \in RcObjects /\ row[i].version = 0
  BY RcSentinels DEF CaptureIdea, Exists, RcInv, Shapes, IsRow
<1>3. RowsGoOn
  BY <1>1, <1>2, NewRowIs, RowMoves DEF RcInv, Shapes, PromotedFrom
<1>4. Shapes'
  BY <1>1, <1>3 DEF RcInv, Shapes, RowsGoOn, PromoteKeyOf
<1>5. ASSUME NEW h \in RcHandlers, NEW r, rcReq'[h] = r
      PROVE  RequestStands(r)' /\ KeyStands(r)'
  <2>1. RequestStands(r) /\ KeyStands(r)
    BY <1>1, <1>5 DEF RcInv, RequestsInv
  <2> QED BY <1>1, <1>3, <2>1, RequestGoesOn DEF RcInv, KeyStands, PromoteKeyOf
<1> QED BY <1>1, <1>4, <1>5 DEF RcInv, RequestsInv, PromotedInv, PromotedFrom, PromoteKeyOf

LEMMA CreateProjectStep ==
  ASSUME RcInv, NEW c \in RcCodes, CreateProject(c)
  PROVE  RcInv' /\ UNCHANGED row
<1> DEFINE new == [code |-> c, idea |-> {}, key |-> {}]
<1>1. born' = born \cup {new} /\ UNCHANGED <<row, promoteKey, rcReq>>
  BY DEF CreateProject
<1>2. new.idea = {} /\ new.key = {}
  OBVIOUS
<1> HIDE DEF new
<1>3. \A i : PromotedFrom(i)' = PromotedFrom(i)
  BY <1>1, <1>2 DEF PromotedFrom
<1>4. \A k : (\E p \in born' : p.key = {k}) <=> \E p \in born : p.key = {k}
  BY <1>1, <1>2
<1>5. Shapes'
  BY <1>1 DEF RcInv, Shapes, PromoteKeyOf
<1>6. RequestsInv'
  BY <1>1, <1>3 DEF RcInv, RequestsInv, RequestStands, KeyStands, PromoteKeyOf
<1>7. PromotedInv'
  BY <1>1, <1>3, <1>4 DEF RcInv, PromotedInv, PromoteKeyOf
<1> QED BY <1>1, <1>5, <1>6, <1>7 DEF RcInv

----------------------------------------------------------------------------
(* Promotions.                                                             *)

LEMMA BeginPromotionStep ==
  ASSUME RcInv, NEW h \in RcHandlers, BeginPromotion(h)
  PROVE  RcInv' /\ UNCHANGED row
<1>1. PICK r : r = rcReq[h]
  OBVIOUS
<1>2. IsRcReq(r) /\ RequestStands(r) /\ r.at = "begin"
  BY <1>1 DEF BeginPromotion, RcInv, Shapes, RequestsInv
<1>3. PICK k \in RcKeys : k = r.write.key
  BY <1>2 DEF RequestStands
<1>4. PICK body, at : /\ Promoting!Begin("promote", k, body) /\ RcGoto(h, at)
                      /\ at = IF r.read THEN "fail" ELSE "promote"
  BY <1>1, <1>3 DEF BeginPromotion
<1> DEFINE ok == <<"promote", k>>
           new == [Promoting!NoRecord EXCEPT !.state = "running", !.body = body]
           q == [r EXCEPT !.at = at]
<1>5. promoteKey[ok] = Promoting!NoRecord /\ promoteKey' = [promoteKey EXCEPT ![ok] = new]
  BY <1>4 DEF Promoting!Begin
<1>6. IsKeyRow(new) /\ new.state = "running" /\ Promoting!NoRecord.state = "none"
  BY DEF Promoting!NoRecord, IsKeyRow
<1> HIDE DEF new
<1>7. /\ \A j \in RcKeys \ {k} : PromoteKeyOf(j)' = PromoteKeyOf(j)
      /\ PromoteKeyOf(k)' = new /\ PromoteKeyOf(k).state = "none"
      /\ DOMAIN promoteKey' = {"promote"} \X RcKeys
  BY <1>5, <1>6 DEF RcInv, Shapes, PromoteKeyOf
<1>8. IsRcReq(q) /\ q.at = at /\ q.on = r.on /\ q.version = r.version /\ q.write = r.write
  BY <1>2, RcChange
<1>9. rcReq' = [rcReq EXCEPT ![h] = q] /\ UNCHANGED <<row, born>>
  BY <1>1, <1>4 DEF RcGoto, BeginPromotion
<1> HIDE DEF q
<1>10. RequestStands(q)'
  <2>1. at \in {"fail", "promote"} /\ (at = "promote" => ~r.read)
    BY <1>4
  <2>2. RequestStands(q)
    BY <1>2, <1>8, <2>1 DEF RequestStands, Owning, Patching
  <2> QED BY <1>9, <2>2 DEF RequestStands, PromotedFrom
<1>11. KeyStands(q)'
  BY <1>3, <1>6, <1>7, <1>8 DEF KeyStands
<1>12. ASSUME NEW g \in RcHandlers, rcReq[g].at \in Owning
       PROVE  rcReq[g].write.key \in RcKeys \ {k}
  <2>1. PICK o : o = rcReq[g]
    OBVIOUS
  <2>2. RequestStands(o) /\ KeyStands(o)
    BY <2>1 DEF RcInv, RequestsInv
  <2> QED BY <1>7, <1>12, <2>1, <2>2 DEF RequestStands, KeyStands
<1>13. PromotedInv'
  <2>1. \A i : PromotedFrom(i)' = PromotedFrom(i)
    BY <1>9 DEF PromotedFrom
  <2>2. \A j \in RcKeys : PromoteKeyOf(j)'.state = "completed" <=> PromoteKeyOf(j).state = "completed"
    BY <1>6, <1>7
  <2> QED BY <1>9, <2>1, <2>2 DEF RcInv, PromotedInv
<1>14. \A j \in RcKeys : IsKeyRow(PromoteKeyOf(j)')
  BY <1>6, <1>7 DEF RcInv, Shapes
<1>15. \A g \in RcHandlers \ {h} : rcReq[g].at \in Owning => rcReq[g].write.key # q.write.key
  BY <1>3, <1>8, <1>12
<1>16. \A g \in RcHandlers \ {h}, j \in RcKeys :
         rcReq[g].at \in Owning /\ rcReq[g].write.key = j => PromoteKeyOf(j)' = PromoteKeyOf(j)
  BY <1>7, <1>12
<1>17. RowsGoOn
  BY <1>9, RowsStay
<1> QED BY <1>7, <1>8, <1>9, <1>10, <1>11, <1>13, <1>14, <1>15, <1>16, <1>17, RcStep

LEMMA CommitPromotionStep ==
  ASSUME RcInv, NEW h \in RcHandlers, CommitPromotion(h)
  PROVE  RcInv' /\ rcReq[h].on \in Ideas /\ \A x \in RcObjects \ {rcReq[h].on} : row'[x] = row[x]
<1>1. PICK r : r = rcReq[h]
  OBVIOUS
<1>2. /\ IsRcReq(r) /\ RequestStands(r) /\ KeyStands(r) /\ r.at = "promote"
      /\ r.version = row[r.on].version
  BY <1>1 DEF CommitPromotion, RcGuard, RcInv, Shapes, RequestsInv
<1>3. PICK k \in RcKeys : k = r.write.key
  BY <1>2 DEF RequestStands, Owning
<1>4. r.on \in Ideas /\ r.on \in RcObjects /\ PromotedFrom(r.on) = {} /\ PromoteKeyOf(k).state = "running"
  BY <1>2, <1>3, RcSentinels DEF RequestStands, KeyStands, Owning
<1>5. Promoted(r) /\ row' = [row EXCEPT ![r.on].version = @ + 1] /\ RcGoto(h, "answer")
  BY <1>1 DEF CommitPromotion
<1> DEFINE ok == <<"promote", k>>
           new == [code |-> r.write.code, idea |-> {r.on}, key |-> {k}]
           q == [r EXCEPT !.at = "answer"]
<1>6. born' = born \cup {new} /\ new.idea = {r.on} /\ new.key = {k}
  BY <1>3, <1>5 DEF Promoted
<1> HIDE DEF new
<1>7. PICK ref : promoteKey' = [promoteKey EXCEPT ![ok].state = "completed", ![ok].ref = ref]
  BY <1>3, <1>4, <1>5 DEF Promoted, Promoting!Completed, PromoteKeyOf
<1>8. /\ \A j \in RcKeys \ {k} : PromoteKeyOf(j)' = PromoteKeyOf(j)
      /\ IsKeyRow(PromoteKeyOf(k)') /\ PromoteKeyOf(k)'.state = "completed"
      /\ DOMAIN promoteKey' = {"promote"} \X RcKeys
  BY <1>7 DEF RcInv, Shapes, PromoteKeyOf, IsKeyRow
<1>9. IsRcReq(q) /\ q.at = "answer" /\ q.on = r.on /\ q.write = r.write
  BY <1>2, RcChange
<1>10. rcReq' = [rcReq EXCEPT ![h] = q]
  BY <1>1, <1>5 DEF RcGoto
<1> HIDE DEF q
<1>11. RequestStands(q)'
  BY <1>2, <1>9 DEF RequestStands, Owning, Patching
<1>12. KeyStands(q)'
  BY <1>3, <1>8, <1>9 DEF KeyStands
<1>13. \A i \in Ideas \ {r.on} : PromotedFrom(i)' = PromotedFrom(i)
  BY <1>6 DEF PromotedFrom
<1>14. PromotedFrom(r.on)' = {new}
  BY <1>4, <1>6 DEF PromotedFrom
<1>15. PromotedInv'
  <2>1. ASSUME NEW i \in Ideas, NEW p, NEW o, p \in PromotedFrom(i)', o \in PromotedFrom(i)'
        PROVE  p = o
    <3>1. CASE i = r.on
      BY <1>14, <2>1, <3>1
    <3>2. CASE i # r.on
      BY <1>13, <2>1, <3>2 DEF RcInv, PromotedInv
    <3> QED BY <3>1, <3>2
  <2>2. \A j \in RcKeys \ {k} : (\E p \in born' : p.key = {j}) <=> \E p \in born : p.key = {j}
    BY <1>6
  <2>3. \E p \in born' : p.key = {k}
    BY <1>6
  <2>4. \A j \in RcKeys : PromoteKeyOf(j)'.state = "completed" <=> \E p \in born' : p.key = {j}
    BY <1>8, <2>2, <2>3 DEF RcInv, PromotedInv
  <2> QED BY <2>1, <2>4 DEF PromotedInv
<1>16. \A y \in RcObjects \ {r.on} : row'[y] = row[y]
  BY <1>5 DEF RcInv, Shapes
<1>17. RowsGoOn
  <2>1. DOMAIN row' = RcObjects /\ IsRow(row'[r.on]) /\ row'[r.on].version = row[r.on].version + 1
    BY <1>4, <1>5 DEF RcInv, Shapes, IsRow
  <2>2. row[r.on].version \in Nat
    BY <1>4 DEF RcInv, Shapes, IsRow
  <2> QED BY <1>4, <1>13, <1>16, <2>1, <2>2, RowMoves DEF RcInv
<1>18. \A g \in RcHandlers \ {h} : rcReq[g].at \in Owning => rcReq[g].write.key # q.write.key
  BY <1>1, <1>2, <1>9 DEF RcInv, RequestsInv, Owning
<1>19. \A g \in RcHandlers \ {h}, j \in RcKeys :
         rcReq[g].at \in Owning /\ rcReq[g].write.key = j => PromoteKeyOf(j)' = PromoteKeyOf(j)
  BY <1>3, <1>8, <1>9, <1>18
<1>20. \A j \in RcKeys : IsKeyRow(PromoteKeyOf(j)')
  BY <1>8 DEF RcInv, Shapes
<1>21. RcInv'
  BY <1>8, <1>9, <1>10, <1>11, <1>12, <1>15, <1>17, <1>18, <1>19, <1>20, RcStep
<1> QED BY <1>1, <1>4, <1>16, <1>21

LEMMA MarkPromotionFailedStep ==
  ASSUME RcInv, NEW h \in RcHandlers, MarkPromotionFailed(h)
  PROVE  RcInv' /\ UNCHANGED row
<1>1. PICK r : r = rcReq[h]
  OBVIOUS
<1>2. /\ RequestStands(r) /\ KeyStands(r) /\ r.at = "fail"
      /\ promoteKey' = Promoting!Failed("promote", r.write.key)
      /\ RcFinish(h) /\ UNCHANGED <<row, registry, born>>
  BY <1>1 DEF MarkPromotionFailed, RcInv, RequestsInv
<1>3. PICK k \in RcKeys : k = r.write.key
  BY <1>2 DEF RequestStands, Owning
<1>4. promoteKey' = IF PromoteKeyOf(k).state = "running"
                    THEN [promoteKey EXCEPT ![<<"promote", k>>].state = "failed"] ELSE promoteKey
  BY <1>2, <1>3 DEF Promoting!Failed, PromoteKeyOf
<1>5. /\ \A j \in RcKeys \ {k} : PromoteKeyOf(j)' = PromoteKeyOf(j)
      /\ IsKeyRow(PromoteKeyOf(k)')
      /\ PromoteKeyOf(k)'.state = "completed" <=> PromoteKeyOf(k).state = "completed"
      /\ DOMAIN promoteKey' = {"promote"} \X RcKeys
  BY <1>4 DEF RcInv, Shapes, PromoteKeyOf, IsKeyRow
<1>6. PromotedInv'
  <2>1. \A i : PromotedFrom(i)' = PromotedFrom(i)
    BY <1>2 DEF PromotedFrom
  <2> QED BY <1>2, <1>5, <2>1 DEF RcInv, PromotedInv
<1>7. \A g \in RcHandlers \ {h} : rcReq[g].at \in Owning => rcReq[g].write.key # k
  BY <1>1, <1>2, <1>3 DEF RcInv, RequestsInv, Owning
<1>8. \A g \in RcHandlers \ {h}, j \in RcKeys :
        rcReq[g].at \in Owning /\ rcReq[g].write.key = j => PromoteKeyOf(j)' = PromoteKeyOf(j)
  BY <1>5, <1>7
<1>9. IsRcReq(NoRcReq) /\ RequestStands(NoRcReq)' /\ NoRcReq.at \notin Owning /\ KeyStands(NoRcReq)'
  BY NoRcReqIs DEF RequestStands, KeyStands, Owning, Patching
<1>10. rcReq' = [rcReq EXCEPT ![h] = NoRcReq] /\ RowsGoOn
  BY <1>2, RowsStay DEF RcFinish
<1>11. \A j \in RcKeys : IsKeyRow(PromoteKeyOf(j)')
  BY <1>5 DEF RcInv, Shapes
<1>12. RcInv'
  BY <1>5, <1>6, <1>8, <1>9, <1>10, <1>11, RcStep
<1> QED BY <1>2, <1>12

----------------------------------------------------------------------------
(* Every step.                                                             *)

\* Requests that start.
RcReads(h) ==
  \/ \E x \in Recs, held \in SUBSET Shadowed : StartCreate(h, x, held)
  \/ \E x \in DOMAIN row : \E e \in 1..row[x].version :
       \/ \E f \in SUBSET RcFields \ {{}} : PatchIdea(h, x, e, f)
       \/ \E f \in SUBSET (RcFields \ Shadowed), d \in {{}} \cup {{held} : held \in SUBSET Shadowed} :
            StartEdit(h, x, e, f, d)
       \/ \E to \in BOOLEAN :
            StartRecordLifecycle(h, x, e, to) \/ StartIdeaLifecycle(h, x, e, to)
  \/ \E e \in 1..row["project"].version :
       \/ \E f \in SUBSET RcFields \ {{}} : PatchProject(h, e, f)
       \/ \E f \in RcFields : StartProgress(h, e, f)
       \/ \E to \in BOOLEAN : StartLifecycle(h, e, to)
  \/ \E x \in Recs : \E e \in 1..row[x].version :
       \E after, before \in {{}} \cup {{y} : y \in Recs} : StartRank(h, x, e, after, before)
  \/ \E i \in Ideas, c \in RcCodes, k \in RcKeys :
       \E e \in 1..row[i].version : StartPromote(h, i, e, c, k)

\* Batches that write.
RcCommits(h) ==
  \/ CommitCreate(h) \/ CommitRank(h) \/ CommitEdit(h) \/ CommitProject(h) \/ CommitIdea(h)
  \/ CommitProgress(h) \/ CommitRecordLifecycle(h) \/ CommitLifecycle(h)
  \/ CommitIdeaLifecycle(h) \/ CommitPromotion(h)

\* The other steps of a request.
RcGoesOn(h) ==
  \/ AbortCreate(h) \/ AbortRecords(h) \/ BeginPromotion(h) \/ AnswerPromoted(h)
  \/ AbortPromotion(h) \/ LosePromotion(h) \/ MarkPromotionFailed(h) \/ RcDrop(h)

LEMMA RecordsNextIs ==
  RecordsNext <=> \/ \E i \in Ideas : CaptureIdea(i)
                  \/ \E c \in RcCodes : CreateProject(c)
                  \/ \E h \in RcHandlers : RcReads(h) \/ RcCommits(h) \/ RcGoesOn(h)
BY Zenon DEF RecordsNext, RcReads, RcCommits, RcGoesOn

LEMMA ReadsStep ==
  ASSUME RcInv, NEW h \in RcHandlers, RcReads(h)
  PROVE  RcInv' /\ UNCHANGED row
<1>1. ASSUME NEW x \in RcObjects, NEW e \in 1..row[x].version, NEW f, NEW d,
             StartEdit(h, x, e, f, d) \/ PatchIdea(h, x, e, f)
      PROVE  RcInv' /\ UNCHANGED row
  BY <1>1, StartPatchStep DEF StartEdit, PatchIdea, Patching
<1>2. ASSUME NEW x \in RcObjects, NEW e \in 1..row[x].version, NEW to,
             StartRecordLifecycle(h, x, e, to) \/ StartIdeaLifecycle(h, x, e, to)
      PROVE  RcInv' /\ UNCHANGED row
  BY <1>2, ArchivingStep DEF StartRecordLifecycle, StartIdeaLifecycle
<1>3. ASSUME NEW e \in 1..row["project"].version, NEW f, PatchProject(h, e, f) \/ StartProgress(h, e, f)
      PROVE  RcInv' /\ UNCHANGED row
  BY <1>3, StartPatchStep, RcSentinels DEF PatchProject, StartProgress, Patching
<1>4. ASSUME NEW e, NEW to, StartLifecycle(h, e, to)
      PROVE  RcInv' /\ UNCHANGED row
  BY <1>4, ArchivingStep, RcSentinels DEF StartLifecycle
<1>5. DOMAIN row = RcObjects
  BY DEF RcInv, Shapes
<1>6. ASSUME NEW x \in Recs, NEW held, StartCreate(h, x, held)
      PROVE  RcInv' /\ UNCHANGED row
  BY <1>6, StartCreateStep
<1> QED BY <1>1, <1>2, <1>3, <1>4, <1>5, <1>6, StartRankStep, StartPromoteStep DEF RcReads

LEMMA CommitsStep ==
  ASSUME RcInv, NEW h \in RcHandlers, RcCommits(h)
  PROVE  RcInv' /\ \A x \in RcObjects \ {rcReq[h].on} : row'[x] = row[x]
<1>1. CASE CommitEdit(h) \/ CommitProject(h) \/ CommitIdea(h) \/ CommitProgress(h)
  <2>1. \E at \in Patching : CommitPatch(h, at)
    BY <1>1 DEF CommitEdit, CommitProject, CommitIdea, CommitProgress, Patching
  <2> QED BY <2>1, CommitPatchStep
<1>2. CASE CommitRecordLifecycle(h) \/ CommitLifecycle(h) \/ CommitIdeaLifecycle(h)
  BY <1>2, ArchivedStep
  DEF CommitRecordLifecycle, CommitLifecycle, CommitIdeaLifecycle, ArchivedWithRegistry
<1> QED BY <1>1, <1>2, CommitCreateStep, CommitRankStep, CommitPromotionStep DEF RcCommits

LEMMA GoesOnStep ==
  ASSUME RcInv, NEW h \in RcHandlers, RcGoesOn(h)
  PROVE  RcInv' /\ UNCHANGED row
<1>1. CASE AbortRecords(h) \/ AnswerPromoted(h) \/ RcDrop(h)
  <2>1. RcFinish(h) /\ UNCHANGED <<row, born, promoteKey>>
    BY <1>1 DEF AbortRecords, AnswerPromoted, RcDrop
  <2> QED BY <2>1, RowsStay, FinishStep
<1>2. CASE AbortCreate(h)
  BY <1>2, RcGotoStep DEF AbortCreate
<1>3. CASE AbortPromotion(h) \/ LosePromotion(h)
  BY <1>3, RcGotoStep DEF AbortPromotion, LosePromotion, Owning
<1> QED BY <1>1, <1>2, <1>3, BeginPromotionStep, MarkPromotionFailedStep DEF RcGoesOn

LEMMA RecordsNextInv ==
  ASSUME RcInv, [RecordsNext]_recordsVars
  PROVE  RcInv'
<1>1. CASE UNCHANGED recordsVars
  <2>1. UNCHANGED <<row, born, promoteKey, rcReq>>
    BY <1>1 DEF recordsVars
  <2>2. Shapes'
    BY <2>1 DEF RcInv, Shapes, PromoteKeyOf
  <2>3. RequestsInv'
    BY <2>1 DEF RcInv, RequestsInv, RequestStands, KeyStands, PromotedFrom, PromoteKeyOf
  <2>4. PromotedInv'
    BY <2>1 DEF RcInv, PromotedInv, PromotedFrom, PromoteKeyOf
  <2> QED BY <2>2, <2>3, <2>4 DEF RcInv
<1> QED BY <1>1, RecordsNextIs, CaptureIdeaStep, CreateProjectStep, ReadsStep, CommitsStep, GoesOnStep

----------------------------------------------------------------------------
(* What a step may not do.                                                 *)

\* A step of one request leaves the others alone, and its own row with it
\* unless it starts.
LEMMA CommitsAlone ==
  ASSUME RcInv, NEW h \in RcHandlers, RcCommits(h) \/ RcGoesOn(h)
  PROVE  /\ \A g \in RcHandlers \ {h} : rcReq'[g] = rcReq[g]
         /\ rcReq'[h].on \in {"none", rcReq[h].on}
<1>1. RcFinish(h) \/ \E at : RcGoto(h, at)
  BY DEF RcCommits, RcGoesOn, CommitCreate, CommitRank, CommitEdit, CommitProject, CommitIdea,
     CommitProgress, CommitPatch, CommitRecordLifecycle, CommitLifecycle, CommitIdeaLifecycle,
     ArchivedWithRegistry, Archived, CommitPromotion, AbortCreate, AbortRecords, BeginPromotion,
     AnswerPromoted, AbortPromotion, LosePromotion, MarkPromotionFailed, RcDrop
<1> QED BY <1>1, NoRcReqIs DEF RcFinish, RcGoto, RcInv, Shapes, IsRcReq

LEMMA EditsStep ==
  ASSUME RcInv, [RecordsNext]_recordsVars, NEW h \in RcHandlers, rcReq[h].at \in Patching,
         rcReq'[h].at = "idle", row' # row
  PROVE  LeavesOthers(h)
<1>1. RecordsNext
  BY DEF recordsVars
<1>2. \A i \in Ideas : ~CaptureIdea(i)
  BY DEF CaptureIdea, Patching
<1>3. RcCommits(h)
  BY <1>1, <1>2, RecordsNextIs, CreateProjectStep, ReadsStep, GoesOnStep, CommitsAlone DEF Patching
<1>4. \E at \in Patching : CommitPatch(h, at)
  BY <1>3 DEF RcCommits, CommitCreate, CommitRank, CommitEdit, CommitProject, CommitIdea, CommitProgress,
     CommitRecordLifecycle, CommitLifecycle, CommitIdeaLifecycle, ArchivedWithRegistry, Archived,
     CommitPromotion, Patching
<1> QED BY <1>4, CommitPatchStep

\* A request that starts on anything but a record that records.ts alone writes.
StartsOutside(h) ==
  /\ \A g \in RcHandlers \ {h} : rcReq'[g] = rcReq[g]
  /\ rcReq'[h].on \notin Plain

LEMMA OutsideIs ==
  ASSUME RcInv, NEW h \in RcHandlers, NEW x, x \notin Plain, NEW at, NEW e, NEW read, NEW write,
         StartRecords(h, [NoRcReq EXCEPT !.at = at, !.on = x, !.version = e, !.read = read,
                                         !.write = write])
  PROVE  StartsOutside(h)
<1> DEFINE q == [NoRcReq EXCEPT !.at = at, !.on = x, !.version = e, !.read = read, !.write = write]
<1>1. q.on = x /\ rcReq' = [rcReq EXCEPT ![h] = q]
  BY NoRcReqIs DEF IsRcReq, StartRecords
<1> HIDE DEF q
<1> QED BY <1>1 DEF StartsOutside, RcInv, Shapes

LEMMA ReadsOutside ==
  ASSUME RcInv, NEW h \in RcHandlers, RcReads(h), row["project"].archived
  PROVE  StartsOutside(h)
<1>1. ~OpenProject
  BY DEF OpenProject
<1>2. "project" \notin Plain /\ \A i \in Ideas : i \notin Plain
  BY RcSentinels DEF Plain
<1>3. ASSUME NEW x, x \notin Plain, NEW at, NEW e, NEW f, NEW d, StartPatch(h, at, x, e, f, d)
      PROVE  StartsOutside(h)
  BY <1>3, OutsideIs DEF StartPatch
<1>4. ASSUME NEW x, x \notin Plain, NEW at, NEW e, NEW to, Archiving(h, at, x, e, to)
      PROVE  StartsOutside(h)
  <2>1. StartRecords(h, [NoRcReq EXCEPT !.at = at, !.on = x, !.version = e, !.write = {to}])
    BY <1>4 DEF Archiving
  <2> DEFINE q == [NoRcReq EXCEPT !.at = at, !.on = x, !.version = e, !.write = {to}]
  <2>2. q.on = x /\ rcReq' = [rcReq EXCEPT ![h] = q]
    BY <2>1, NoRcReqIs DEF IsRcReq, StartRecords
  <2> HIDE DEF q
  <2> QED BY <1>4, <2>2 DEF StartsOutside, RcInv, Shapes
<1>5. ASSUME NEW i \in Ideas, NEW e, NEW c, NEW k, StartPromote(h, i, e, c, k)
      PROVE  StartsOutside(h)
  BY <1>2, <1>5, OutsideIs DEF StartPromote
<1>6. ASSUME NEW x, NEW e, NEW f, NEW d, StartEdit(h, x, e, f, d) \/ PatchIdea(h, x, e, f)
      PROVE  StartsOutside(h)
  BY <1>1, <1>2, <1>3, <1>6 DEF StartEdit, PatchIdea
<1>7. ASSUME NEW x, NEW e, NEW to, StartRecordLifecycle(h, x, e, to) \/ StartIdeaLifecycle(h, x, e, to)
      PROVE  StartsOutside(h)
  BY <1>1, <1>2, <1>4, <1>7 DEF StartRecordLifecycle, StartIdeaLifecycle
<1>8. ASSUME NEW e, NEW f, PatchProject(h, e, f) \/ StartProgress(h, e, f)
      PROVE  StartsOutside(h)
  BY <1>1, <1>8 DEF PatchProject, StartProgress
<1>9. ASSUME NEW e, NEW to, StartLifecycle(h, e, to)
      PROVE  StartsOutside(h)
  BY <1>2, <1>4, <1>9 DEF StartLifecycle
<1>10. \A x \in Recs : \A held : ~StartCreate(h, x, held)
  BY <1>1 DEF StartCreate
<1>11. \A x \in Recs : \A e, after, before : ~StartRank(h, x, e, after, before)
  BY <1>1 DEF StartRank
<1> QED BY <1>5, <1>6, <1>7, <1>8, <1>9, <1>10, <1>11 DEF RcReads

LEMMA SettledStep ==
  ASSUME RcInv, [RecordsNext]_recordsVars, row["project"].archived,
         \A h \in RcHandlers : rcReq[h].on \notin Plain
  PROVE  /\ \A x \in Plain : row'[x] = row[x]
         /\ \A h \in RcHandlers : rcReq'[h].on \notin Plain
<1>1. CASE UNCHANGED recordsVars
  BY <1>1 DEF recordsVars
<1>2. ASSUME NEW i \in Ideas, CaptureIdea(i)
      PROVE  (\A x \in Plain : row'[x] = row[x]) /\ rcReq' = rcReq
  BY <1>2, RcSentinels DEF CaptureIdea, RcInv, Shapes, Plain
<1>3. ASSUME NEW c \in RcCodes, CreateProject(c)
      PROVE  row' = row /\ rcReq' = rcReq
  BY <1>3 DEF CreateProject
<1>4. ASSUME NEW h \in RcHandlers, RcReads(h)
      PROVE  row' = row /\ \A g \in RcHandlers : rcReq'[g].on \notin Plain
  BY <1>4, ReadsStep, ReadsOutside DEF StartsOutside
<1>5. ASSUME NEW h \in RcHandlers, RcCommits(h) \/ RcGoesOn(h)
      PROVE  /\ \A x \in Plain : row'[x] = row[x]
             /\ \A g \in RcHandlers : rcReq'[g].on \notin Plain
  <2>1. \A x \in Plain : row'[x] = row[x]
    BY <1>5, CommitsStep, GoesOnStep, RcSentinels DEF Plain
  <2> QED BY <1>5, <2>1, CommitsAlone, RcSentinels DEF Plain
<1> QED BY <1>1, <1>2, <1>3, <1>4, <1>5, RecordsNextIs

LEMMA PromotionsStand == RcInv => PromotedOnce
<1> SUFFICES ASSUME RcInv PROVE PromotedOnce
  OBVIOUS
<1>1. ASSUME NEW i \in Ideas
      PROVE  Cardinality(PromotedFrom(i)) <= 1
  <2>1. CASE PromotedFrom(i) = {}
    BY <2>1, FS_EmptySet
  <2>2. CASE PromotedFrom(i) # {}
    <3>1. PICK p : PromotedFrom(i) = {p}
      BY <2>2 DEF RcInv, PromotedInv
    <3>2. Cardinality({p}) = 1
      BY FS_Singleton
    <3> QED BY <3>1, <3>2
  <2> QED BY <2>1, <2>2
<1> QED BY <1>1 DEF RcInv, PromotedInv, PromotedOnce, PromoteKeyOf

\* Whatever requests overlap, lose their answers or die, on records, on the
\* project and on ideas that both records.ts and ideas.ts write: a PATCH loses no
\* column that it does not name, but for those that the details or the defaults
\* of the schema decide (records.ts:418, projects.ts:446, ideas.ts:158); an
\* archived project's other records settle once the requests admitted before have
\* ended (policy.ts:71); and an idea becomes at most one project, its keys being
\* completed exactly when that is made (ideas.ts:294).
THEOREM RecordsAlwaysStand == RecordsSpec => RecordsStand
<1>1. RecordsInit => RcInv
  BY RcInitInv
<1>2. RcInv /\ [RecordsNext]_recordsVars => RcInv'
  BY RecordsNextInv
<1>3. RcInv => PromotedOnce
  BY PromotionsStand
<1>4. RcInv /\ [RecordsNext]_recordsVars =>
        [\A h \in RcHandlers :
           /\ rcReq[h].at \in {"edit", "patch", "idea", "progress"}
           /\ rcReq'[h].at = "idle" /\ row' # row
           => LET r == rcReq[h]
                  held == row'[r.on].details
              IN  /\ r.write.details = {} => held = row[r.on].details
                  /\ \A f \in RcFields \ r.write.fields :
                       row'[r.on].value[f] =
                         CASE r.at = "edit" /\ f \in Shadowed /\ held[f] # 0 -> held[f]
                           [] r.at = "idea" /\ f \in Refilled -> 0
                           [] OTHER -> row[r.on].value[f]]_recordsVars
  BY EditsStep, Zenon DEF LeavesOthers, Patching
<1>5. RcInv /\ [RecordsNext]_recordsVars =>
        [row["project"].archived /\ (\A h \in RcHandlers : rcReq[h].on \notin Recs \ Ideas) =>
           /\ \A x \in Recs \ Ideas : row'[x] = row[x]
           /\ \A h \in RcHandlers : rcReq'[h].on \notin Recs \ Ideas]_recordsVars
  BY SettledStep DEF Plain
<1> QED BY <1>1, <1>2, <1>3, <1>4, <1>5, PTL
    DEF RecordsSpec, RecordsStand, RecordEditsAreKept, ArchivedProjectSettles

----------------------------------------------------------------------------
(***************************************************************************)
(* ScriptEditor: a save that is accepted replaces only texts its page had  *)
(* loaded.  What travels as a version and a copy of the text is never ahead *)
(* of the server, and is its text if it carries its version.               *)
(***************************************************************************)

Texts == [Blocks -> Int]
Views == [version : Int, text : Texts]
PageStates == [cache : Views, draft : Texts, from : Texts, base : Int, dirty : BOOLEAN, conflict : BOOLEAN]
SaveSteps == {"none", "sent", "checked", "refused", "conflict", "committed", "blocks", "answered"}
Saves == [at : SaveSteps, base : Int, sent : Texts, from : Texts, view : Views]
Fetches == [at : {"none", "blocks", "arriving"}, view : Views]

EdTypeOK ==
  /\ script \in Views
  /\ typed \in Int
  /\ page \in [Pages -> PageStates]
  /\ save \in [Pages -> Saves]
  /\ fetch \in [Pages -> Fetches]

\* A copy of the draft under version v, seen from the server's state now.
Sound(v, now) == v.version <= now.version /\ (v.version = now.version => v.text = now.text)

PageSound(p, now) == Sound(p.cache, now) /\ Sound(View(p.base, p.from), now)

SaveSound(v, now) ==
  /\ v.at \in {"sent", "checked"} => Sound(View(v.base, v.from), now)
  /\ v.at = "blocks" => v.view.version <= now.version
  /\ v.at = "answered" => Sound(v.view, now)

FetchSound(f, now) ==
  /\ f.at = "blocks" => f.view.version <= now.version
  /\ f.at = "arriving" => Sound(f.view, now)

AllSound ==
  \A s \in Pages : PageSound(page[s], script) /\ SaveSound(save[s], script) /\ FetchSound(fetch[s], script)

EdInv == EdTypeOK /\ AllSound

----------------------------------------------------------------------------

LEMMA NothingLoaded == NoTexts \in Texts /\ NoView \in Views
BY DEF NoTexts, NoView, View, Texts, Views, Gone

LEMMA NoSaveUnderWay == NoSave \in Saves /\ NoSave.at = "none"
BY NothingLoaded DEF NoSave, Saves, SaveSteps

LEMMA NoFetchUnderWay == NoFetch \in Fetches /\ NoFetch.at = "none"
BY NothingLoaded DEF NoFetch, Fetches

\* The page as Showing makes it.
LEMMA ShowingIs ==
  ASSUME NEW p \in PageStates, NEW v \in Views
  PROVE  /\ Showing(p, v) \in PageStates
         /\ Showing(p, v).cache = p.cache
         /\ View(Showing(p, v).base, Showing(p, v).from) = v
BY DEF Showing, View, Views, PageStates

LEMMA ScriptInitInv == ScriptInit => EdInv
<1> SUFFICES ASSUME ScriptInit PROVE EdInv
  OBVIOUS
<1> DEFINE start == View(1, [b \in Blocks |-> IF b \in FirstBlocks THEN 0 ELSE Gone])
           blank == [cache |-> start, draft |-> NoTexts, from |-> NoTexts, base |-> 0,
                     dirty |-> FALSE, conflict |-> FALSE]
<1>1. start \in Views
  BY DEF View, Views, Texts, Gone
<1>2. /\ script = start /\ typed = 0
      /\ page = [s \in Pages |-> Showing(blank, start)]
      /\ save = [s \in Pages |-> NoSave] /\ fetch = [s \in Pages |-> NoFetch]
  BY DEF ScriptInit
<1>3. blank.cache = start
  OBVIOUS
<1>4. blank \in PageStates
  BY <1>1, NothingLoaded DEF PageStates
<1> HIDE DEF start, blank
<1>5. EdTypeOK
  BY <1>1, <1>2, <1>4, ShowingIs, NoSaveUnderWay, NoFetchUnderWay DEF EdTypeOK
<1>6. Sound(start, start)
  BY <1>1 DEF Sound, Views
<1>7. AllSound
  <2> SUFFICES ASSUME NEW s \in Pages
               PROVE  /\ PageSound(page[s], script)
                      /\ SaveSound(save[s], script) /\ FetchSound(fetch[s], script)
    BY DEF AllSound
  <2>1. PageSound(page[s], script)
    BY <1>1, <1>2, <1>3, <1>4, <1>6, ShowingIs DEF PageSound
  <2>2. SaveSound(save[s], script) /\ FetchSound(fetch[s], script)
    BY <1>2, NoSaveUnderWay, NoFetchUnderWay DEF SaveSound, FetchSound
  <2> QED BY <2>1, <2>2
<1> QED BY <1>5, <1>7 DEF EdInv

----------------------------------------------------------------------------
\* Under a later version of the draft every copy is merely old.
LEMMA OldCopiesStaySound ==
  ASSUME EdInv, script' \in Views, script.version < script'.version
  PROVE  \A s \in Pages : /\ PageSound(page[s], script')
                          /\ SaveSound(save[s], script') /\ FetchSound(fetch[s], script')
<1> SUFFICES ASSUME NEW s \in Pages
             PROVE  /\ PageSound(page[s], script')
                    /\ SaveSound(save[s], script') /\ FetchSound(fetch[s], script')
  OBVIOUS
<1> USE DEF EdInv, EdTypeOK, AllSound
<1>1. PageSound(page[s], script')
  BY DEF PageSound, Sound, View, Views, PageStates
<1>2. SaveSound(save[s], script')
  BY DEF SaveSound, Sound, View, Views, Saves
<1>3. FetchSound(fetch[s], script')
  BY DEF FetchSound, Sound, Views, Fetches
<1> QED BY <1>1, <1>2, <1>3

\* A step that writes the draft and nothing else.
LEMMA RewriteInv ==
  ASSUME EdInv, NEW text \in Texts, Rewrite(text)
  PROVE  EdInv'
<1>1. script' \in Views /\ script.version < script'.version
  BY DEF EdInv, EdTypeOK, Rewrite, View, Views
<1>2. UNCHANGED <<typed, page, save, fetch>>
  BY DEF Rewrite
<1> QED BY <1>1, <1>2, OldCopiesStaySound DEF EdInv, EdTypeOK, AllSound

\* A step that changes only what page s shows, sends and fetches.
LEMMA PageStepInv ==
  ASSUME EdInv, NEW s \in Pages, NEW p \in PageStates, NEW v \in Saves, NEW f \in Fetches,
         script' = script, typed' \in Int,
         page' = [page EXCEPT ![s] = p], save' = [save EXCEPT ![s] = v],
         fetch' = [fetch EXCEPT ![s] = f],
         PageSound(p, script), SaveSound(v, script), FetchSound(f, script)
  PROVE  EdInv'
<1> USE DEF EdInv, EdTypeOK, AllSound
<1>1. EdTypeOK'
  OBVIOUS
<1>2. AllSound'
  <2> SUFFICES ASSUME NEW q \in Pages
               PROVE  /\ PageSound(page'[q], script')
                      /\ SaveSound(save'[q], script') /\ FetchSound(fetch'[q], script')
    BY DEF AllSound
  <2>1. CASE q = s
    BY <2>1
  <2>2. CASE q # s
    BY <2>2
  <2> QED BY <2>1, <2>2
<1> QED BY <1>1, <1>2

\* What a page starts a step with.
LEMMA PageHas ==
  ASSUME EdInv, NEW s \in Pages
  PROVE  /\ page[s] \in PageStates /\ save[s] \in Saves /\ fetch[s] \in Fetches
         /\ PageSound(page[s], script) /\ SaveSound(save[s], script) /\ FetchSound(fetch[s], script)
         /\ page = [page EXCEPT ![s] = page[s]] /\ save = [save EXCEPT ![s] = save[s]]
         /\ fetch = [fetch EXCEPT ![s] = fetch[s]]
BY DEF EdInv, EdTypeOK, AllSound

LEMMA TypeStep ==
  ASSUME EdInv, NEW s \in Pages, NEW b \in Blocks, Type(s, b)
  PROVE  EdInv'
<1> DEFINE d == [page[s].draft EXCEPT ![b] = typed + 1]
           p == [page[s] EXCEPT !.draft = d, !.dirty = TRUE]
<1>1. d \in Texts
  BY PageHas DEF EdInv, EdTypeOK, PageStates, Texts
<1>2. page' = [page EXCEPT ![s] = p]
  BY PageHas DEF Type, EdInv, EdTypeOK, PageStates
<1> HIDE DEF d
<1>3. p \in PageStates /\ p.cache = page[s].cache /\ p.base = page[s].base /\ p.from = page[s].from
  BY <1>1, PageHas DEF PageStates
<1> HIDE DEF p
<1>4. PageSound(p, script)
  BY <1>3, PageHas DEF PageSound
<1>5. typed' \in Int /\ UNCHANGED <<script, save, fetch>>
  BY DEF Type, EdInv, EdTypeOK
<1> QED BY <1>2, <1>3, <1>4, <1>5, PageHas, PageStepInv

LEMMA SendSaveStep ==
  ASSUME EdInv, NEW s \in Pages, SendSave(s)
  PROVE  EdInv'
<1> DEFINE v == [NoSave EXCEPT !.at = "sent", !.base = page[s].base,
                               !.sent = page[s].draft, !.from = page[s].from]
<1>1. /\ v \in Saves /\ v.at = "sent" /\ v.base = page[s].base /\ v.from = page[s].from
  BY PageHas, NothingLoaded, NoSaveUnderWay DEF PageStates, Saves, SaveSteps
<1>2. save' = [save EXCEPT ![s] = v] /\ UNCHANGED <<script, typed, page, fetch>>
  BY DEF SendSave
<1> HIDE DEF v
<1>3. SaveSound(v, script)
  BY <1>1, PageHas DEF PageSound, SaveSound
<1> QED BY <1>1, <1>2, <1>3, PageHas, PageStepInv DEF EdInv, EdTypeOK

\* A page that shows view v, which its cache holds now.
LEMMA ShowingSound ==
  ASSUME NEW p \in PageStates, NEW v \in Views, Sound(v, script), p.cache = v
  PROVE  Showing(p, v) \in PageStates /\ PageSound(Showing(p, v), script)
BY ShowingIs DEF PageSound

LEMMA AnswerSaveStep ==
  ASSUME EdInv, NEW s \in Pages, AnswerSave(s)
  PROVE  EdInv'
<1> DEFINE v == save[s].view
           p == [page[s] EXCEPT !.dirty = FALSE, !.conflict = FALSE, !.cache = v]
<1>1. v \in Views /\ Sound(v, script)
  BY PageHas DEF AnswerSave, SaveSound, Saves
<1>2. p \in PageStates /\ p.cache = v
  BY <1>1, PageHas DEF PageStates
<1>3. /\ page' = [page EXCEPT ![s] = Showing(p, v)] /\ save' = [save EXCEPT ![s] = NoSave]
      /\ UNCHANGED <<script, typed, fetch>>
  BY DEF AnswerSave, EdInv, EdTypeOK
<1> HIDE DEF v, p
<1>4. SaveSound(NoSave, script)
  BY NoSaveUnderWay DEF SaveSound
<1> QED BY <1>1, <1>2, <1>3, <1>4, PageHas, ShowingSound, NoSaveUnderWay, PageStepInv DEF EdInv, EdTypeOK

LEMMA FailSaveStep ==
  ASSUME EdInv, NEW s \in Pages, FailSave(s)
  PROVE  EdInv'
<1> DEFINE p == [page[s] EXCEPT !.conflict = @ \/ save[s].at = "conflict"]
<1>1. p \in PageStates /\ p.cache = page[s].cache /\ p.base = page[s].base /\ p.from = page[s].from
  BY PageHas DEF PageStates
<1>2. /\ page' = [page EXCEPT ![s] = p] /\ save' = [save EXCEPT ![s] = NoSave]
      /\ UNCHANGED <<script, typed, fetch>>
  BY DEF FailSave, EdInv, EdTypeOK
<1> HIDE DEF p
<1>3. PageSound(p, script) /\ SaveSound(NoSave, script)
  BY <1>1, PageHas, NoSaveUnderWay DEF PageSound, SaveSound
<1> QED BY <1>1, <1>2, <1>3, PageHas, NoSaveUnderWay, PageStepInv DEF EdInv, EdTypeOK

----------------------------------------------------------------------------
\* A fetch that has read the version.
LEMMA BegunFetch ==
  ASSUME EdInv
  PROVE  LET f == [at |-> "blocks", view |-> Read(NoView, "version")]
         IN  f \in Fetches /\ FetchSound(f, script)
BY NothingLoaded DEF EdInv, EdTypeOK, Read, Views, Fetches, FetchSound

LEMMA StartFetchStep ==
  ASSUME EdInv, NEW s \in Pages, StartFetch(s)
  PROVE  EdInv'
<1> DEFINE f == [at |-> "blocks", view |-> Read(NoView, "version")]
<1>1. f \in Fetches /\ FetchSound(f, script)
  BY BegunFetch
<1>2. fetch' = [fetch EXCEPT ![s] = f] /\ UNCHANGED <<script, typed, page, save>>
  BY DEF StartFetch
<1> HIDE DEF f
<1> QED BY <1>1, <1>2, PageHas, PageStepInv DEF EdInv, EdTypeOK

LEMMA ReadFetchStep ==
  ASSUME EdInv, NEW s \in Pages, ReadFetch(s)
  PROVE  EdInv'
<1> DEFINE v == Read(fetch[s].view, "blocks")
           f == [at |-> "arriving", view |-> v]
<1>1. v \in Views /\ v.version <= script.version /\ v.text = script.text
  BY PageHas DEF ReadFetch, Read, EdInv, EdTypeOK, Fetches, FetchSound, Views
<1>2. fetch' = [fetch EXCEPT ![s] = f] /\ UNCHANGED <<script, typed, page, save>>
  BY DEF ReadFetch, EdInv, EdTypeOK
<1> HIDE DEF v
<1>3. f \in Fetches /\ FetchSound(f, script)
  BY <1>1 DEF Fetches, FetchSound, Sound
<1> HIDE DEF f
<1> QED BY <1>2, <1>3, PageHas, PageStepInv DEF EdInv, EdTypeOK

LEMMA ArriveStep ==
  ASSUME EdInv, NEW s \in Pages, Arrive(s)
  PROVE  EdInv'
<1> DEFINE v == fetch[s].view
           p == [page[s] EXCEPT !.cache = v]
           q == IF page[s].dirty THEN p ELSE Showing(p, v)
<1>1. v \in Views /\ Sound(v, script)
  BY PageHas DEF Arrive, FetchSound, Fetches
<1>2. p \in PageStates /\ p.cache = v /\ p.base = page[s].base /\ p.from = page[s].from
  BY <1>1, PageHas DEF PageStates
<1>3. page' = [page EXCEPT ![s] = q]
  BY DEF Arrive, EdInv, EdTypeOK
<1>4. fetch' = [fetch EXCEPT ![s] = NoFetch] /\ UNCHANGED <<script, typed, save>>
  BY DEF Arrive
<1> HIDE DEF v, p
<1>5. q \in PageStates /\ PageSound(q, script)
  <2>1. PageSound(p, script)
    BY <1>1, <1>2, PageHas DEF PageSound
  <2> QED BY <1>1, <1>2, <2>1, ShowingSound
<1> HIDE DEF q
<1>6. FetchSound(NoFetch, script)
  BY NoFetchUnderWay DEF FetchSound
<1> QED BY <1>3, <1>4, <1>5, <1>6, PageHas, NoFetchUnderWay, PageStepInv DEF EdInv, EdTypeOK

LEMMA LoadServerVersionStep ==
  ASSUME EdInv, NEW s \in Pages, LoadServerVersion(s)
  PROVE  EdInv'
<1> DEFINE v == page[s].cache
           p == [page[s] EXCEPT !.dirty = FALSE, !.conflict = FALSE]
           begun == [at |-> "blocks", view |-> Read(NoView, "version")]
           f == IF fetch[s].at # "none" THEN fetch[s] ELSE begun
<1>1. v \in Views /\ Sound(v, script) /\ p \in PageStates /\ p.cache = v
  BY PageHas DEF PageSound, PageStates
<1>2. page' = [page EXCEPT ![s] = Showing(p, v)] /\ UNCHANGED <<script, typed, save>>
  BY PageHas DEF LoadServerVersion, EdInv, EdTypeOK, PageStates
<1>3. begun \in Fetches /\ FetchSound(begun, script)
  BY BegunFetch
<1>4. fetch' = [fetch EXCEPT ![s] = f]
  BY PageHas DEF LoadServerVersion
<1> HIDE DEF v, p, begun
<1>5. f \in Fetches /\ FetchSound(f, script)
  BY <1>3, PageHas
<1> HIDE DEF f
<1> QED BY <1>1, <1>2, <1>4, <1>5, PageHas, ShowingSound, PageStepInv DEF EdInv, EdTypeOK

----------------------------------------------------------------------------
LEMMA CheckSaveStep ==
  ASSUME EdInv, NEW s \in Pages, CheckSave(s) \/ RefuseSave(s)
  PROVE  EdInv'
<1> PICK at \in {"checked", "refused", "conflict"} :
      /\ save' = [save EXCEPT ![s].at = at] /\ save[s].at \in {"sent", "checked"}
      /\ UNCHANGED <<script, typed, page, fetch>>
  BY DEF CheckSave, RefuseSave
<1> DEFINE v == [save[s] EXCEPT !.at = at]
<1>1. v \in Saves /\ v.at = at /\ v.base = save[s].base /\ v.from = save[s].from
  BY PageHas DEF Saves, SaveSteps
<1>2. save' = [save EXCEPT ![s] = v]
  BY DEF EdInv, EdTypeOK
<1> HIDE DEF v
<1>3. SaveSound(v, script)
  BY <1>1, PageHas DEF SaveSound
<1> QED BY <1>1, <1>2, <1>3, PageHas, PageStepInv DEF EdInv, EdTypeOK

LEMMA CommitSaveStep ==
  ASSUME EdInv, NEW s \in Pages, CommitSave(s)
  PROVE  EdInv'
<1> DEFINE v == [save[s] EXCEPT !.at = "committed"]
<1>1. script' \in Views /\ script.version < script'.version
  BY PageHas DEF CommitSave, EdInv, EdTypeOK, Views, Texts, Saves
<1>2. v \in Saves /\ v.at = "committed"
  BY PageHas DEF Saves, SaveSteps
<1>3. save' = [save EXCEPT ![s] = v] /\ UNCHANGED <<typed, page, fetch>>
  BY DEF CommitSave, EdInv, EdTypeOK
<1> HIDE DEF v
<1>4. SaveSound(v, script')
  BY <1>2 DEF SaveSound
<1>5. EdTypeOK'
  BY <1>1, <1>2, <1>3 DEF EdInv, EdTypeOK
<1>6. AllSound'
  <2> SUFFICES ASSUME NEW q \in Pages
               PROVE  /\ PageSound(page'[q], script')
                      /\ SaveSound(save'[q], script') /\ FetchSound(fetch'[q], script')
    BY DEF AllSound
  <2>1. PageSound(page[q], script') /\ SaveSound(save[q], script') /\ FetchSound(fetch[q], script')
    BY <1>1, OldCopiesStaySound
  <2> QED BY <1>3, <1>4, <2>1 DEF EdInv, EdTypeOK
<1> QED BY <1>5, <1>6 DEF EdInv

LEMMA ViewSavedStep ==
  ASSUME EdInv, NEW s \in Pages, ViewSaved(s)
  PROVE  EdInv'
<1>1. CASE save[s].at = "committed"
  <2> DEFINE view == Read(save[s].view, "version")
             v == [save[s] EXCEPT !.at = "blocks", !.view = view]
  <2>1. view \in Views /\ view.version = script.version
    BY PageHas DEF Read, EdInv, EdTypeOK, Saves, Views
  <2>2. save' = [save EXCEPT ![s] = v] /\ UNCHANGED <<script, typed, page, fetch>>
    BY <1>1 DEF ViewSaved, EdInv, EdTypeOK
  <2> HIDE DEF view
  <2>3. v \in Saves /\ v.at = "blocks" /\ v.view = view
    BY <2>1, PageHas DEF Saves, SaveSteps
  <2> HIDE DEF v
  <2>4. SaveSound(v, script)
    BY <2>1, <2>3 DEF SaveSound, Views
  <2> QED BY <2>2, <2>3, <2>4, PageHas, PageStepInv DEF EdInv, EdTypeOK
<1>2. CASE save[s].at = "blocks"
  <2> DEFINE view == Read(save[s].view, "blocks")
             v == [save[s] EXCEPT !.at = "answered", !.view = view]
  <2>1. view \in Views /\ view.version <= script.version /\ view.text = script.text
    BY <1>2, PageHas DEF Read, EdInv, EdTypeOK, Saves, SaveSound, Views
  <2>2. save' = [save EXCEPT ![s] = v] /\ UNCHANGED <<script, typed, page, fetch>>
    BY <1>2 DEF ViewSaved, EdInv, EdTypeOK
  <2> HIDE DEF view
  <2>3. v \in Saves /\ v.at = "answered" /\ v.view = view
    BY <2>1, PageHas DEF Saves, SaveSteps
  <2> HIDE DEF v
  <2>4. SaveSound(v, script)
    BY <2>1, <2>3 DEF SaveSound, Sound
  <2> QED BY <2>2, <2>3, <2>4, PageHas, PageStepInv DEF EdInv, EdTypeOK
<1> QED BY <1>1, <1>2 DEF ViewSaved

LEMMA BlocksStep ==
  ASSUME EdInv,
         \/ \E s \in Pages, b \in Blocks : AddBlock(s, b) \/ DeleteBlock(s, b)
         \/ \E new \in SUBSET Blocks : Import(new)
  PROVE  EdInv'
<1>1. ASSUME NEW s \in Pages, NEW b \in Blocks, AddBlock(s, b)
      PROVE  EdInv'
  <2>1. [script.text EXCEPT ![b] = 0] \in Texts
    BY DEF EdInv, EdTypeOK, Views, Texts
  <2> QED BY <1>1, <2>1, RewriteInv DEF AddBlock
<1>2. ASSUME NEW s \in Pages, NEW b \in Blocks, DeleteBlock(s, b)
      PROVE  EdInv'
  <2>1. [script.text EXCEPT ![b] = Gone] \in Texts
    BY DEF EdInv, EdTypeOK, Views, Texts, Gone
  <2> QED BY <1>2, <2>1, RewriteInv DEF DeleteBlock
<1>3. ASSUME NEW new \in SUBSET Blocks, Import(new)
      PROVE  EdInv'
  <2>1. [b \in Blocks |-> IF b \in new THEN 0 ELSE Gone] \in Texts
    BY DEF Texts, Gone
  <2> QED BY <1>3, <2>1, RewriteInv DEF Import
<1> QED BY <1>1, <1>2, <1>3

LEMMA ScriptNextInv == EdInv /\ [ScriptNext]_scriptVars => EdInv'
<1> SUFFICES ASSUME EdInv, [ScriptNext]_scriptVars PROVE EdInv'
  OBVIOUS
<1>1. CASE UNCHANGED scriptVars
  BY <1>1 DEF scriptVars, EdInv, EdTypeOK, AllSound
<1>2. CASE \E new \in SUBSET Blocks : Import(new)
  BY <1>2, BlocksStep
<1>3. ASSUME NEW s \in Pages, \E b \in Blocks : Type(s, b) \/ AddBlock(s, b) \/ DeleteBlock(s, b)
      PROVE  EdInv'
  BY <1>3, TypeStep, BlocksStep
<1>4. ASSUME NEW s \in Pages, SendSave(s) \/ AnswerSave(s) \/ FailSave(s)
      PROVE  EdInv'
  BY <1>4, SendSaveStep, AnswerSaveStep, FailSaveStep
<1>5. ASSUME NEW s \in Pages, StartFetch(s) \/ ReadFetch(s) \/ Arrive(s) \/ LoadServerVersion(s)
      PROVE  EdInv'
  BY <1>5, StartFetchStep, ReadFetchStep, ArriveStep, LoadServerVersionStep
<1>6. ASSUME NEW s \in Pages, CheckSave(s) \/ CommitSave(s) \/ RefuseSave(s) \/ ViewSaved(s)
      PROVE  EdInv'
  BY <1>6, CheckSaveStep, CommitSaveStep, ViewSavedStep
<1> QED BY <1>1, <1>2, <1>3, <1>4, <1>5, <1>6 DEF ScriptNext

\* What a page, a save, a fetch or an answer holds is never ahead of the draft,
\* and is the draft if it carries its version.
THEOREM CopiesAreSound == ScriptSpec => []EdInv
BY ScriptInitInv, ScriptNextInv, PTL DEF ScriptSpec

\* An accepted save replaces only texts its page had loaded (screenplay.ts:127).
THEOREM LoadedIsReplaced == ScriptSpec => OnlyLoadedIsReplaced
<1> DEFINE Kept == \A s \in Pages : save[s].at = "checked" /\ save'[s].at = "committed" =>
                     \A b \in Blocks : save[s].sent[b] # Gone => script.text[b] = save[s].from[b]
<1>1. EdInv /\ [ScriptNext]_scriptVars => [Kept]_scriptVars
  <2> SUFFICES ASSUME EdInv, ScriptNext, NEW s \in Pages,
                      save[s].at = "checked", save'[s].at = "committed"
               PROVE  script.text = save[s].from
    BY DEF scriptVars
  <2>1. CommitSave(s)
    <3>1. \E q \in Pages : \/ SendSave(q) \/ AnswerSave(q) \/ FailSave(q) \/ CheckSave(q)
                           \/ CommitSave(q) \/ RefuseSave(q) \/ ViewSaved(q)
      BY DEF ScriptNext, Type, AddBlock, DeleteBlock, Import, Rewrite, StartFetch, ReadFetch,
             Arrive, LoadServerVersion
    <3>2. PICK q \in Pages : \/ SendSave(q) \/ AnswerSave(q) \/ FailSave(q) \/ CheckSave(q)
                             \/ CommitSave(q) \/ RefuseSave(q) \/ ViewSaved(q)
      BY <3>1
    <3>3. q = s
      BY <3>2 DEF SendSave, AnswerSave, FailSave, CheckSave, CommitSave, RefuseSave, ViewSaved,
             EdInv, EdTypeOK
    <3>4. ~SendSave(s) /\ ~AnswerSave(s) /\ ~FailSave(s) /\ ~CheckSave(s) /\ ~ViewSaved(s)
      BY DEF SendSave, AnswerSave, FailSave, CheckSave, ViewSaved
    <3>5. ~RefuseSave(s)
      BY DEF RefuseSave, EdInv, EdTypeOK, Saves
    <3> QED BY <3>2, <3>3, <3>4, <3>5
  <2>2. save[s].base = script.version
    BY <2>1 DEF CommitSave, GuardPasses
  <2>3. Sound(View(save[s].base, save[s].from), script)
    BY PageHas DEF SaveSound
  <2> QED BY <2>2, <2>3 DEF Sound, View
<1> QED BY <1>1, CopiesAreSound, PTL DEF ScriptSpec, OnlyLoadedIsReplaced

----------------------------------------------------------------------------
(***************************************************************************)
(* OfflineDrafts: a draft replaces only what its author had seen.          *)
(***************************************************************************)

DraftStates == {"queued", "syncing", "failed", "conflict"}
Ops == {"create", "update"}
DraftRows == [state : DraftStates, op : Ops, base : Nat, edit : Nat, serverVersion : Nat]
Snapshots == [id : DraftIds, op : Ops, base : Nat, edit : Nat]

\* Drafts of an update are based on versions in seen, and so are the copies
\* of them that runs have taken.
RowsOn(seen) ==
  {r \in DraftRows : /\ r.op = "update" => r.base \in seen
                     /\ r.serverVersion # 0 => r.serverVersion \in seen}
SnapshotsOn(seen) == {s \in Snapshots : s.op = "update" => s.base \in seen}
RunsOn(seen) ==
  {r \in [at : {"idle", "list", "mark", "send", "settle"}, list : Seq(SnapshotsOn(seen)),
          answer : {"none", "applied", "failed", "conflict"}, current : Nat] :
     /\ r.at \in {"mark", "send", "settle"} => r.list # << >>
     /\ r.at = "settle" => r.answer # "none"}

SeenInv ==
  /\ version \in Nat /\ shown \in Nat /\ edits \in Nat
  /\ shown \in reviewed
  /\ draft \in [DraftIds -> {NoDraft} \cup RowsOn(reviewed)]
  /\ sync \in [Hooks -> RunsOn(reviewed)]
  /\ IsFiniteSet(Held)

LEMMA RunsGrow ==
  ASSUME NEW S, NEW T, S \subseteq T
  PROVE  RowsOn(S) \subseteq RowsOn(T) /\ SnapshotsOn(S) \subseteq SnapshotsOn(T)
         /\ RunsOn(S) \subseteq RunsOn(T)
<1>1. RowsOn(S) \subseteq RowsOn(T)
  BY DEF RowsOn
<1>2. SnapshotsOn(S) \subseteq SnapshotsOn(T)
  BY DEF SnapshotsOn
<1>3. Seq(SnapshotsOn(S)) \subseteq Seq(SnapshotsOn(T))
  BY <1>2
<1>4. RunsOn(S) \subseteq RunsOn(T)
  BY <1>3 DEF RunsOn
<1> QED BY <1>1, <1>2, <1>4

LEMMA NoRunIs == \A S : NoRun \in RunsOn(S)
BY DEF NoRun, RunsOn

LEMMA OfflineInitInv == OfflineInit => SeenInv
<1> SUFFICES ASSUME OfflineInit PROVE SeenInv
  OBVIOUS
<1>1. Held = {}
  BY DEF OfflineInit, Held
<1>2. IsFiniteSet(Held)
  BY <1>1, FS_EmptySet
<1> QED BY <1>2, NoRunIs DEF OfflineInit, SeenInv

\* What has been seen grows, and drafts and runs are based on it.
LEMMA SeenStep ==
  ASSUME SeenInv, reviewed \subseteq reviewed', version' \in Nat, shown' \in Nat, edits' \in Nat,
         shown' \in reviewed',
         draft' \in [DraftIds -> {NoDraft} \cup RowsOn(reviewed')],
         sync' \in [Hooks -> RunsOn(reviewed')],
         \E d : Held' \subseteq Held \cup {d}
  PROVE  SeenInv'
<1>1. PICK d : Held' \subseteq Held \cup {d}
  OBVIOUS
<1>2. IsFiniteSet(Held \cup {d})
  BY FS_AddElement DEF SeenInv
<1>3. IsFiniteSet(Held')
  BY <1>1, <1>2, FS_Subset
<1> QED BY <1>3 DEF SeenInv

\* The drafts, the versions and what was seen stay; runs go on.
LEMMA RunsStep ==
  ASSUME SeenInv, UNCHANGED <<draft, edits, version, shown, reviewed>>,
         sync' \in [Hooks -> RunsOn(reviewed)]
  PROVE  SeenInv'
BY DEF SeenInv, Held

LEMMA RowIs ==
  ASSUME SeenInv, NEW d \in Held
  PROVE  /\ d \in DraftIds /\ draft[d] \in RowsOn(reviewed)
         /\ Snapshot(d, draft[d]) \in SnapshotsOn(reviewed)
BY DEF SeenInv, Held, RowsOn, DraftRows, Snapshot, SnapshotsOn, Snapshots

LEMMA QueueStep ==
  ASSUME SeenInv, NEW op \in Ops, QueueOfflineDraft(op)
  PROVE  SeenInv'
<1> DEFINE base == IF op = "update" THEN shown ELSE 0
           new == DraftRow(op, base, edits + 1)
<1>1. PICK d \in DraftIds : draft' = [draft EXCEPT ![d] = new]
  BY DEF QueueOfflineDraft, Replaceable, Held
<1>2. UNCHANGED <<version, shown, reviewed, sync>> /\ edits' = edits + 1
  BY DEF QueueOfflineDraft
<1>3. base \in Nat /\ (op = "update" => base \in reviewed)
  BY DEF SeenInv
<1> HIDE DEF base
<1>4. new \in RowsOn(reviewed)
  BY <1>3 DEF DraftRow, RowsOn, DraftRows, DraftStates, SeenInv
<1> HIDE DEF new
<1>5. Held' \subseteq Held \cup {d}
  BY <1>1 DEF Held, SeenInv
<1>6. draft' \in [DraftIds -> {NoDraft} \cup RowsOn(reviewed)]
  BY <1>1, <1>4 DEF SeenInv
<1> QED BY <1>2, <1>5, <1>6, SeenStep DEF SeenInv

LEMMA DiscardStep ==
  ASSUME SeenInv, NEW d \in DraftIds, DiscardOfflineDraft(d)
  PROVE  SeenInv'
<1>1. draft' \in [DraftIds -> {NoDraft} \cup RowsOn(reviewed)] /\ Held' \subseteq Held \cup {d}
  BY DEF DiscardOfflineDraft, SeenInv, Held
<1> QED BY <1>1, SeenStep DEF DiscardOfflineDraft, SeenInv

LEMMA StartRunIs ==
  ASSUME SeenInv, NEW h \in Hooks, NEW list \in Seq(SnapshotsOn(reviewed)), list # << >>
  PROVE  StartRun(h, list) \in [Hooks -> RunsOn(reviewed)]
<1> DEFINE run == [NoRun EXCEPT !.at = "mark", !.list = list]
<1>1. run \in RunsOn(reviewed)
  BY DEF NoRun, RunsOn
<1> QED BY <1>1 DEF StartRun, SeenInv

LEMMA KeepLocalStep ==
  ASSUME SeenInv, NEW h \in Hooks, NEW d \in DraftIds, KeepLocal(h, d)
  PROVE  SeenInv'
<1> DEFINE new == DraftRow("update", draft[d].serverVersion, draft[d].edit)
           list == <<Snapshot(d, new)>>
<1>1. d \in Held /\ draft[d].serverVersion # 0 /\ draft' = [draft EXCEPT ![d] = new]
      /\ UNCHANGED <<edits, version, shown, reviewed>>
      /\ sync' \in {sync, StartRun(h, list)}
  BY DEF KeepLocal, RebasedVersion
<1>2. draft[d] \in RowsOn(reviewed)
  BY <1>1, RowIs
<1>3. new \in RowsOn(reviewed)
  BY <1>1, <1>2 DEF DraftRow, RowsOn, DraftRows, DraftStates, Ops
<1>4. Snapshot(d, new) \in SnapshotsOn(reviewed)
  <2> HIDE DEF new
  <2> QED BY <1>3 DEF RowsOn, DraftRows, Snapshot, SnapshotsOn, Snapshots
<1> HIDE DEF new
<1>5. list \in Seq(SnapshotsOn(reviewed)) /\ list # << >>
  BY <1>4
<1>6. sync' \in [Hooks -> RunsOn(reviewed)]
  BY <1>1, <1>5, StartRunIs DEF SeenInv
<1>7. draft' \in [DraftIds -> {NoDraft} \cup RowsOn(reviewed)] /\ Held' \subseteq Held \cup {d}
  BY <1>1, <1>3 DEF SeenInv, Held
<1> QED BY <1>1, <1>6, <1>7, SeenStep DEF SeenInv

LEMMA RetryDraftStep ==
  ASSUME SeenInv, NEW h \in Hooks, NEW d \in DraftIds, Retry(h, d)
  PROVE  SeenInv'
<1> DEFINE list == <<Snapshot(d, draft[d])>>
<1>1. list \in Seq(SnapshotsOn(reviewed)) /\ list # << >>
  BY RowIs DEF Retry
<1>2. sync' = StartRun(h, list) /\ UNCHANGED <<draft, edits, version, shown, reviewed>>
  BY DEF Retry
<1> HIDE DEF list
<1> QED BY <1>1, <1>2, StartRunIs, RunsStep

LEMMA ConnectionStep ==
  ASSUME SeenInv, GoOffline \/ GoOnline \/ CloseTab
  PROVE  SeenInv'
<1>1. CASE GoOffline
  BY <1>1, RunsStep DEF GoOffline, SeenInv
<1>2. CASE CloseTab
  BY <1>2, RunsStep, NoRunIs DEF CloseTab
<1>3. CASE GoOnline
  <2> DEFINE run == [NoRun EXCEPT !.at = "list"]
  <2>1. run \in RunsOn(reviewed)
    <3>1. \A r \in RunsOn(reviewed) : [r EXCEPT !.at = "list"] \in RunsOn(reviewed)
      BY DEF RunsOn
    <3> QED BY <3>1, NoRunIs
  <2>2. sync' \in [Hooks -> RunsOn(reviewed)]
    BY <1>3, <2>1 DEF GoOnline, SeenInv
  <2> QED BY <1>3, <2>2, RunsStep DEF GoOnline
<1> QED BY <1>1, <1>2, <1>3

LEMMA ListQueuedStep ==
  ASSUME SeenInv, NEW h \in Hooks, ListQueued(h)
  PROVE  SeenInv'
<1>1. UNCHANGED <<draft, edits, version, shown, reviewed>>
  BY DEF ListQueued
<1>2. CASE Unsent = {}
  BY <1>1, <1>2, NoRunIs, RunsStep DEF ListQueued, SeenInv
<1>3. CASE Unsent # {}
  <2> DEFINE n == Cardinality(Unsent)
  <2>1. PICK list \in [1 .. n -> Unsent] :
          sync' = StartRun(h, [i \in DOMAIN list |-> Snapshot(list[i], draft[list[i]])])
    BY <1>3 DEF ListQueued
  <2>2. Unsent \subseteq Held /\ IsFiniteSet(Unsent)
    BY FS_Subset DEF Unsent, SeenInv
  <2>3. n \in Nat /\ n >= 1
    BY <1>3, <2>2, FS_CardinalityType, FS_EmptySet
  <2> DEFINE copies == [i \in DOMAIN list |-> Snapshot(list[i], draft[list[i]])]
  <2> HIDE DEF n
  <2>4. copies \in [1 .. n -> SnapshotsOn(reviewed)]
    BY <2>1, <2>2, RowIs
  <2> HIDE DEF copies
  <2>5. copies \in Seq(SnapshotsOn(reviewed)) /\ copies # << >>
    BY <2>3, <2>4
  <2> QED BY <1>1, <2>1, <2>5, StartRunIs, RunsStep DEF copies
<1> QED BY <1>2, <1>3

LEMMA SentIs ==
  ASSUME SeenInv, NEW h \in Hooks, sync[h].at \in {"mark", "send", "settle"}
  PROVE  Sent(h) \in SnapshotsOn(reviewed) /\ Sent(h).id \in DraftIds
<1>1. sync[h].list \in Seq(SnapshotsOn(reviewed)) /\ sync[h].list # << >>
  BY DEF SeenInv, RunsOn
<1>2. Sent(h) \in SnapshotsOn(reviewed)
  BY <1>1 DEF Sent
<1> QED BY <1>2 DEF SnapshotsOn, Snapshots

LEMMA RunMoves ==
  ASSUME SeenInv, NEW h \in Hooks, sync[h].at \in {"mark", "send", "settle"}
  PROVE  /\ SyncGoto(h, "send") \in [Hooks -> RunsOn(reviewed)]
         /\ \A answer \in {"applied", "failed", "conflict"}, current \in Nat :
              Answered(h, answer, current) \in [Hooks -> RunsOn(reviewed)]
         /\ AfterSettling(h) \in [Hooks -> RunsOn(reviewed)]
<1>1. sync[h] \in RunsOn(reviewed) /\ sync[h].list # << >>
  BY DEF SeenInv, RunsOn
<1>2. [sync[h] EXCEPT !.at = "send"] \in RunsOn(reviewed)
  BY <1>1 DEF RunsOn
<1>3. ASSUME NEW answer \in {"applied", "failed", "conflict"}, NEW current \in Nat
      PROVE  Answered(h, answer, current) \in [Hooks -> RunsOn(reviewed)]
  <2>1. [sync[h] EXCEPT !.at = "settle", !.answer = answer, !.current = current] \in RunsOn(reviewed)
    BY <1>1 DEF RunsOn
  <2> QED BY <2>1 DEF Answered, SeenInv
<1>4. AfterSettling(h) \in [Hooks -> RunsOn(reviewed)]
  <2>1. CASE sync[h].answer = "failed" \/ Len(sync[h].list) = 1
    BY <2>1, NoRunIs DEF AfterSettling, SeenInv
  <2>2. CASE ~(sync[h].answer = "failed" \/ Len(sync[h].list) = 1)
    <3>1. sync[h].list \in Seq(SnapshotsOn(reviewed))
      BY <1>1 DEF RunsOn
    <3> DEFINE list == sync[h].list
    <3>2. Len(list) # 1 /\ list # << >> /\ list \in Seq(SnapshotsOn(reviewed))
      BY <1>1, <2>2, <3>1
    <3> HIDE DEF list
    <3>3. Len(list) \in Nat \ {0}
      BY <3>2, EmptySeq
    <3>4. Tail(list) \in Seq(SnapshotsOn(reviewed)) /\ Len(Tail(list)) = Len(list) - 1
      BY <3>2, HeadTailProperties
    <3>5. Tail(list) # << >>
      <4>1. Len(Tail(list)) # 0
        BY <3>2, <3>3, <3>4
      <4> QED BY <4>1, EmptySeq
    <3> QED BY <2>2, <3>4, <3>5, StartRunIs DEF AfterSettling, list
  <2> QED BY <2>1, <2>2
<1> QED BY <1>2, <1>3, <1>4 DEF SyncGoto, SeenInv

LEMMA MarkSyncingStep ==
  ASSUME SeenInv, NEW h \in Hooks, MarkSyncing(h)
  PROVE  SeenInv'
<1> DEFINE d == Sent(h).id
<1>1. sync' \in [Hooks -> RunsOn(reviewed)] /\ UNCHANGED <<edits, version, shown, reviewed>>
  BY RunMoves DEF MarkSyncing
<1>2. draft' \in [DraftIds -> {NoDraft} \cup RowsOn(reviewed)] /\ Held' \subseteq Held \cup {d}
  <2>1. CASE d \notin Held
    BY <2>1 DEF MarkSyncing, SeenInv, Held
  <2>2. CASE d \in Held
    <3>1. draft' = [draft EXCEPT ![d].state = "syncing"]
      BY <2>2 DEF MarkSyncing
    <3>2. [draft[d] EXCEPT !.state = "syncing"] \in RowsOn(reviewed)
      BY <2>2, RowIs DEF RowsOn, DraftRows, DraftStates
    <3> HIDE DEF d
    <3> QED BY <3>1, <3>2 DEF SeenInv, Held
  <2> QED BY <2>1, <2>2
<1> QED BY <1>1, <1>2, SeenStep DEF SeenInv

LEMMA ServerAnswersStep ==
  ASSUME SeenInv, NEW h \in Hooks, ServerAnswers(h)
  PROVE  /\ SeenInv'
         /\ version' # version /\ landed' # landed => version \in reviewed
<1>1. sync[h].at = "send" /\ UNCHANGED <<draft, edits, shown, reviewed>>
  BY DEF ServerAnswers
<1>2. Sent(h) \in SnapshotsOn(reviewed)
  BY <1>1, SentIs
<1>3. version' \in {version, version + 1} /\ version' \in Nat
  BY DEF ServerAnswers, SeenInv
<1>4. sync' \in [Hooks -> RunsOn(reviewed)]
  BY <1>1, RunMoves DEF ServerAnswers, SeenInv
<1>5. SeenInv'
  BY <1>1, <1>3, <1>4, SeenStep DEF SeenInv, Held
<1>6. version' # version => Sent(h).op = "update" /\ Accepted(h)
  BY DEF ServerAnswers
<1>7. version' # version => version \in reviewed
  BY <1>2, <1>6 DEF Accepted, SnapshotsOn
<1> QED BY <1>5, <1>7

LEMMA SettleStep ==
  ASSUME SeenInv, NEW h \in Hooks, Settle(h)
  PROVE  SeenInv'
<1> DEFINE d == Sent(h).id
           current == sync[h].current
           answer == sync[h].answer
<1>1. sync[h].at = "settle" /\ sync' = AfterSettling(h) /\ UNCHANGED <<online, edits, version, shown>>
  BY DEF Settle
<1>2. d \in DraftIds /\ current \in Nat /\ AfterSettling(h) \in [Hooks -> RunsOn(reviewed)]
  BY <1>1, SentIs, RunMoves DEF SeenInv, RunsOn
<1>3. reviewed \subseteq reviewed'
      /\ (answer = "conflict" /\ current # 0 /\ d \in Held => current \in reviewed')
  BY DEF Settle
<1>4. RowsOn(reviewed) \subseteq RowsOn(reviewed') /\ RunsOn(reviewed) \subseteq RunsOn(reviewed')
  BY <1>3, RunsGrow
<1>5. sync' \in [Hooks -> RunsOn(reviewed')]
  BY <1>1, <1>2, <1>4
<1>6. draft \in [DraftIds -> {NoDraft} \cup RowsOn(reviewed')]
  BY <1>4 DEF SeenInv
<1>7. draft' \in [DraftIds -> {NoDraft} \cup RowsOn(reviewed')] /\ Held' \subseteq Held \cup {d}
  <2>1. CASE answer = "applied"
    <3>1. draft' = [draft EXCEPT ![d] = NoDraft]
      BY <2>1 DEF Settle, Settled
    <3> HIDE DEF d
    <3> QED BY <1>6, <3>1 DEF Held
  <2>2. CASE answer # "applied" /\ d \notin Held
    <3>1. draft' = draft
      BY <2>2 DEF Settle, Settled
    <3> QED BY <1>6, <3>1 DEF Held
  <2>3. CASE answer = "failed" /\ d \in Held
    <3> DEFINE state == IF online THEN "failed" ELSE "queued"
               new == [draft[d] EXCEPT !.state = state]
    <3>1. draft' = [draft EXCEPT ![d] = new]
      BY <2>3 DEF Settle, Settled
    <3>2. draft[d] \in RowsOn(reviewed) /\ state \in DraftStates
      BY <2>3, RowIs DEF DraftStates
    <3> HIDE DEF state
    <3>3. new \in RowsOn(reviewed')
      BY <1>4, <3>2 DEF RowsOn, DraftRows
    <3> HIDE DEF new, d
    <3> QED BY <1>6, <3>1, <3>3 DEF Held
  <2>4. CASE answer \notin {"applied", "failed"} /\ d \in Held
    <3> DEFINE seen == IF current = 0 THEN draft[d].serverVersion ELSE current
               new == [draft[d] EXCEPT !.state = "conflict", !.serverVersion = seen]
    <3>1. answer = "conflict"
      BY <1>1, <2>4 DEF SeenInv, RunsOn
    <3>2. draft' = [draft EXCEPT ![d] = new]
      BY <2>4, <3>1 DEF Settle, Settled
    <3>3. draft[d] \in RowsOn(reviewed')
      BY <1>4, <2>4, RowIs
    <3>4. seen \in Nat /\ (seen # 0 => seen \in reviewed')
      BY <1>2, <1>3, <2>4, <3>3, <3>1 DEF RowsOn, DraftRows
    <3> HIDE DEF seen
    <3>5. new \in RowsOn(reviewed')
      BY <3>3, <3>4 DEF RowsOn, DraftRows, DraftStates
    <3> HIDE DEF new, d
    <3> QED BY <1>6, <3>2, <3>5 DEF Held
  <2> QED BY <2>1, <2>2, <2>3, <2>4
<1> QED BY <1>1, <1>3, <1>5, <1>7, SeenStep DEF SeenInv

LEMMA RecordStep ==
  ASSUME SeenInv, Refetch \/ OtherUserEdits
  PROVE  SeenInv'
<1>1. reviewed \subseteq reviewed' /\ shown' \in reviewed' /\ version' \in Nat /\ shown' \in Nat
      /\ UNCHANGED <<draft, edits, sync>>
  BY DEF Refetch, OtherUserEdits, SeenInv
<1>2. RowsOn(reviewed) \subseteq RowsOn(reviewed') /\ RunsOn(reviewed) \subseteq RunsOn(reviewed')
  BY <1>1, RunsGrow
<1>3. draft' \in [DraftIds -> {NoDraft} \cup RowsOn(reviewed')]
      /\ sync' \in [Hooks -> RunsOn(reviewed')] /\ Held' = Held
  BY <1>1, <1>2 DEF SeenInv, Held
<1> QED BY <1>1, <1>3, SeenStep DEF SeenInv

LEMMA OfflineNextInv ==
  SeenInv /\ [OfflineNext]_offlineVars =>
    /\ SeenInv'
    /\ [version' # version /\ landed' # landed => version \in reviewed]_offlineVars
<1> SUFFICES ASSUME SeenInv, [OfflineNext]_offlineVars
             PROVE  SeenInv' /\ (version' # version /\ landed' # landed => version \in reviewed)
  OBVIOUS
<1>1. CASE UNCHANGED offlineVars
  BY <1>1 DEF offlineVars, SeenInv, Held
<1>2. ASSUME NEW op \in {"create", "update"}, QueueOfflineDraft(op)
      PROVE  SeenInv' /\ version' = version
  BY <1>2, QueueStep DEF QueueOfflineDraft, Ops
<1>3. ASSUME NEW d \in DraftIds, DiscardOfflineDraft(d)
      PROVE  SeenInv' /\ version' = version
  BY <1>3, DiscardStep DEF DiscardOfflineDraft
<1>4. ASSUME NEW h \in Hooks, NEW d \in DraftIds, KeepLocal(h, d) \/ Retry(h, d)
      PROVE  SeenInv' /\ version' = version
  BY <1>4, KeepLocalStep, RetryDraftStep DEF KeepLocal, Retry
<1>5. ASSUME GoOffline \/ GoOnline \/ CloseTab
      PROVE  SeenInv' /\ version' = version
  BY <1>5, ConnectionStep DEF GoOffline, GoOnline, CloseTab
<1>6. ASSUME NEW h \in Hooks, ListQueued(h) \/ MarkSyncing(h) \/ Settle(h)
      PROVE  SeenInv' /\ version' = version
  BY <1>6, ListQueuedStep, MarkSyncingStep, SettleStep DEF ListQueued, MarkSyncing, Settle
<1>7. ASSUME Refetch \/ OtherUserEdits
      PROVE  SeenInv' /\ landed' = landed
  BY <1>7, RecordStep DEF Refetch, OtherUserEdits
<1> QED BY <1>1, <1>2, <1>3, <1>4, <1>5, <1>6, <1>7, ServerAnswersStep DEF OfflineNext

\* A draft replaces a version of the record only if the user has seen that
\* very version, however many hooks synchronise and whatever they list
\* (database.ts:111, :147).
THEOREM SeenIsReplaced == OfflineSpec => OnlySeenIsReplaced
BY OfflineInitInv, OfflineNextInv, PTL DEF OfflineSpec, OnlySeenIsReplaced
=============================================================================
