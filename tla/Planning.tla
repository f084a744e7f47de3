------------------------------ MODULE Planning ------------------------------
(***************************************************************************)
(* The planning controls of a project that several requests may change:    *)
(* its budget with its numbered versions, a requirement of the legal       *)
(* register, equipment reservations and legal holds:                       *)
(* apps/web/src/server/routes/planning-controls.ts.                        *)
(*                                                                         *)
(* A request reads rows, checks them, and writes one batch later.  The     *)
(* batches on a budget or a requirement hold a guard row on its version;   *)
(* the one that inserts a reservation holds none.                          *)
(***************************************************************************)
EXTENDS Integers, FiniteSets, Folds, Functions

CONSTANTS
  Codes,          \* codes of budget accounts added to the default ones
  Lines,          \* budget lines
  Amounts,        \* what a line may come to, in minor units
  Contingencies,  \* contingency_basis_points
  PlKeys,         \* Idempotency-Key headers of approvals
  PlHandlers,     \* concurrent requests
  Fields,         \* columns of the requirement that a PATCH may name
  Defaulted,      \* those whose schema has a default: status, priority, is_blocking
  Items, Kits,    \* equipment items and kits
  Windows,        \* <<starts_at, ends_at>> of reservations
  Reservations,   \* reservations
  MaxPlanVersions, MaxBudgetWrites, MaxRequirementWrites  \* bounds

ASSUME PlanningAssumption ==
  /\ Amounts \subseteq Nat /\ Contingencies \subseteq 0..100000
  /\ Windows \subseteq {w \in Nat \X Nat : w[1] < w[2]}
  /\ Defaulted \subseteq Fields
  /\ MaxPlanVersions \in Nat \ {0} /\ MaxBudgetWrites \in Nat /\ MaxRequirementWrites \in Nat

VARIABLES
  budget,       \* the budgets row
  plan,         \* plan[n]: budget version n with its accounts and lines
  signed,       \* approvals rows of the budget, with the key they were made under
  planKey,      \* idempotency_records of budget.approve
  requirement,  \* the requirements row
  kitMember,    \* kit_members: <<kit, item>>
  reserved,     \* reserved[r]: reservation r
  plReq         \* plReq[h]: what request h has read

planningVars == <<budget, plan, signed, planKey, requirement, kitMember, reserved, plReq>>

Versions == 1..MaxPlanVersions
Approving == INSTANCE Idempotency WITH
  Operations <- {"approve"}, Keys <- PlKeys, Bodies <- Versions, NoRef <- 0, record <- planKey

NoBudget == [working |-> 0, approved |-> 0, version |-> 0]
NoPlan == [status |-> "none", accounts |-> {}, lines |-> << >>, contingency |-> 0,
           net |-> 0, estimate |-> 0, hash |-> {}]
NoReservation == [on |-> {}, window |-> {}, overridden |-> FALSE]
NoPlReq == [at |-> "idle", on |-> 0, version |-> 0, key |-> {}, read |-> {}, write |-> {}]

PlanningInit ==
  /\ budget = NoBudget
  /\ plan = [n \in Versions |-> NoPlan]
  /\ signed = {}
  /\ Approving!IdempotencyInit
  /\ requirement = [version |-> 0, value |-> [f \in Fields |-> 0]]
  /\ kitMember = {}
  /\ reserved = [r \in Reservations |-> NoReservation]
  /\ plReq = [h \in PlHandlers |-> NoPlReq]

budgetVars == <<budget, plan, signed, planKey>>
otherVars == <<requirement, kitMember, reserved>>

StartPlanning(h, req) ==
  /\ plReq[h].at = "idle"
  /\ plReq' = [plReq EXCEPT ![h] = req]
  /\ UNCHANGED <<budgetVars, otherVars>>
PlGoto(h, at) == plReq' = [plReq EXCEPT ![h].at = at, ![h].read = {}]
PlFinish(h) == plReq' = [plReq EXCEPT ![h] = NoPlReq]

----------------------------------------------------------------------------
(* Money.                                                                  *)

SumOf(lines) == FoldFunction(LAMBDA a, b : a + b, 0, lines)

\* Amounts are not negative, so the integer division rounds half up.
WithContingency(sum, bps) == sum + (sum * bps + 5000) \div 10000

\* Line l comes to a.
WithLine(lines, l, a) == [m \in DOMAIN lines \cup {l} |-> IF m = l THEN a ELSE lines[m]]

\* Mutant of Totalled: the totals are brought up to date by what the line costs.
TotalledByDelta(v, l, a) ==
  [v EXCEPT !.lines = WithLine(@, l, a), !.net = @ + a,
            !.estimate = WithContingency(v.net + a, v.contingency)]

\* budgetTotalsStatement: the columns of a version after line l comes to a.
Totalled(v, l, a) ==
  LET after == WithLine(v.lines, l, a)
  IN  [v EXCEPT !.lines = after, !.net = SumOf(after),
                !.estimate = WithContingency(SumOf(after), v.contingency)]

----------------------------------------------------------------------------
(* The budget.                                                             *)

\* POST /budgets: version 1, empty and working.
CreateBudget(c) ==
  /\ budget = NoBudget
  /\ budget' = [working |-> 1, approved |-> 0, version |-> 1]
  /\ plan' = [plan EXCEPT ![1] = [NoPlan EXCEPT !.status = "working", !.contingency = c]]
  /\ UNCHANGED <<signed, planKey, otherVars, plReq>>

Numbered == {n \in Versions : plan[n].status # "none"}

\* POST /budgets/:id/versions.  No version may be in work; the source, the
\* approved version unless the body names another, is read, and the number
\* that follows the highest.
StartVersion(h, expected, source, c) ==
  /\ budget.working = 0
  /\ source \in Numbered
  /\ Cardinality(Numbered) < MaxPlanVersions
  /\ StartPlanning(h, [NoPlReq EXCEPT !.at = "version", !.version = expected,
                        !.on = Cardinality(Numbered) + 1, !.read = plan[source], !.write = c])

\* Mutant of GuardHolds: the batch carries no guard row.
Unguarded(expected) == TRUE

\* The guard row's CHECK: the version is still the one the client named.
GuardHolds(expected) == budget.version = expected

\* The totals are copied with the lines, whatever the contingency.
CommitVersion(h) ==
  LET r == plReq[h] IN
  /\ r.at = "version"
  /\ GuardHolds(r.version) /\ plan[r.on] = NoPlan
  /\ plan' = [plan EXCEPT ![r.on] =
       [r.read EXCEPT !.status = "working", !.contingency = r.write, !.hash = {}]]
  /\ budget' = [budget EXCEPT !.working = r.on, !.version = @ + 1]
  /\ PlFinish(h)
  /\ UNCHANGED <<signed, planKey, otherVars>>

\* requireWorkingBudget.
Working(n) == n \in Versions /\ budget.working = n /\ plan[n].status = "working"

\* POST /budgets/:id/accounts.
StartAccount(h, expected, n, code) ==
  /\ Working(n)
  /\ StartPlanning(h, [NoPlReq EXCEPT !.at = "account", !.version = expected, !.on = n,
                                      !.write = code])

CommitAccount(h) ==
  LET r == plReq[h] IN
  /\ r.at = "account"
  /\ GuardHolds(r.version) /\ r.write \notin plan[r.on].accounts
  /\ plan' = [plan EXCEPT ![r.on].accounts = @ \cup {r.write}]
  /\ budget' = [budget EXCEPT !.version = @ + 1]
  /\ PlFinish(h)
  /\ UNCHANGED <<signed, planKey, otherVars>>

\* POST and PUT /budgets/:id/lines: the line is new, or is one of the version.
StartLine(h, expected, n, l, a) ==
  /\ Working(n)
  /\ StartPlanning(h, [NoPlReq EXCEPT !.at = "line", !.version = expected, !.on = n,
                                      !.read = DOMAIN plan[n].lines, !.write = <<l, a>>])

\* The trigger refuses to update a line of an approved version, and lets one
\* be inserted; the totals of an approved version stay as they are.
CommitLine(h) ==
  LET r == plReq[h]
      v == plan[r.on]
      after == Totalled(v, r.write[1], r.write[2])
  IN  /\ r.at = "line"
      /\ GuardHolds(r.version)
      /\ r.write[1] \in r.read => v.status = "working"
      /\ r.write[1] \notin r.read => r.write[1] \notin DOMAIN v.lines
      /\ plan' = [plan EXCEPT ![r.on] =
           IF v.status = "working" THEN after ELSE [v EXCEPT !.lines = after.lines]]
      /\ budget' = [budget EXCEPT !.version = @ + 1]
      /\ PlFinish(h)
      /\ UNCHANGED <<signed, planKey, otherVars>>

----------------------------------------------------------------------------
(* POST /budgets/:id/approve.                                              *)

StartBudgetApproval(h, k, expected, n) ==
  StartPlanning(h, [NoPlReq EXCEPT !.at = "begin", !.key = k, !.version = expected, !.on = n])

\* The key is begun before anything about the budget is read.
BeginApproval(h) ==
  LET r == plReq[h] IN
  /\ r.at = "begin"
  /\ Approving!Begin("approve", r.key, r.on)
  /\ PlGoto(h, "read")
  /\ UNCHANGED <<budget, plan, signed, otherVars>>

\* A completed key answers with the version it approved, any other with 409.
AnswerApproved(h) ==
  LET r == plReq[h] IN
  /\ r.at = "begin"
  /\ \/ Approving!Replays("approve", r.key, r.on)
     \/ Approving!Refuses("approve", r.key, r.on)
  /\ PlFinish(h)
  /\ UNCHANGED <<budgetVars, otherVars>>

\* What the content hash is computed from.
Content(v) == [accounts |-> v.accounts, lines |-> v.lines, contingency |-> v.contingency,
               net |-> v.net, estimate |-> v.estimate]

\* Only a working version with at least one line is approved.
ReadForApproval(h) ==
  LET r == plReq[h] IN
  /\ r.at = "read"
  /\ plReq' = IF Working(r.on) /\ DOMAIN plan[r.on].lines # {}
                THEN [plReq EXCEPT ![h].at = "approve", ![h].read = Content(plan[r.on])]
                ELSE [plReq EXCEPT ![h].at = "fail", ![h].read = {}]
  /\ UNCHANGED <<budgetVars, otherVars>>

CommitBudgetApproval(h) ==
  LET r == plReq[h] IN
  /\ r.at = "approve"
  /\ GuardHolds(r.version)
  /\ plan' = IF plan[r.on].status = "working"
               THEN [plan EXCEPT ![r.on].status = "approved", ![r.on].hash = {r.read}]
               ELSE plan
  /\ budget' = [working |-> 0, approved |-> r.on, version |-> budget.version + 1]
  /\ signed' = signed \cup {<<r.on, r.key>>}
  /\ planKey' = Approving!Completed("approve", r.key, r.on)
  /\ PlGoto(h, "answer")
  /\ UNCHANGED otherVars

\* A batch whose guard, trigger or UNIQUE fails changes nothing.
AbortPlanning(h) ==
  LET r == plReq[h] IN
  /\ r.at \in {"version", "account", "line", "approve"}
  /\ \/ ~GuardHolds(r.version)
     \/ r.at = "version" /\ plan[r.on] # NoPlan
     \/ r.at = "account" /\ r.write \in plan[r.on].accounts
     \/ r.at = "line" /\ r.write[1] \in r.read /\ plan[r.on].status # "working"
  /\ IF r.at = "approve" THEN PlGoto(h, "fail") ELSE PlFinish(h)
  /\ UNCHANGED <<budgetVars, otherVars>>

\* The approval was written and something after it failed: the last read, or
\* the answer of the batch.
LoseApproval(h) ==
  /\ plReq[h].at = "answer"
  /\ PlGoto(h, "fail")
  /\ UNCHANGED <<budgetVars, otherVars>>

\* Mutant of MarkApprovalFailed: the record is marked whatever it says.
MarkApprovalAnyway(h) ==
  LET r == plReq[h] IN
  /\ r.at = "fail"
  /\ planKey' = [planKey EXCEPT ![<<"approve", r.key>>].state = "failed"]
  /\ PlFinish(h)
  /\ UNCHANGED <<budget, plan, signed, otherVars>>

MarkApprovalFailed(h) ==
  LET r == plReq[h] IN
  /\ r.at = "fail"
  /\ planKey' = Approving!Failed("approve", r.key)
  /\ PlFinish(h)
  /\ UNCHANGED <<budget, plan, signed, otherVars>>

----------------------------------------------------------------------------
(* A requirement.                                                          *)

\* POST /requirements.
AddRequirement ==
  /\ requirement.version = 0
  /\ requirement' = [requirement EXCEPT !.version = 1]
  /\ UNCHANGED <<budgetVars, kitMember, reserved, plReq>>

\* PATCH /requirements/:id: the row is read, what the body leaves out is
\* taken from it, and all columns are written back under the guard row.  But
\* zod 4 fills in the default (0) of a column that the body leaves out, under
\* partial() as well, so that one is not taken from the row.
StartRequirement(h, expected, fields) ==
  /\ requirement.version < MaxRequirementWrites
  /\ StartPlanning(h, [NoPlReq EXCEPT !.at = "requirement", !.version = expected,
                                      !.read = requirement.value, !.write = fields])

\* Mutant of RequirementGuard: the guard row is left out.
RequirementUnguarded(expected) == TRUE
RequirementGuard(expected) == requirement.version = expected

CommitRequirement(h) ==
  LET r == plReq[h] IN
  /\ r.at = "requirement"
  /\ RequirementGuard(r.version)
  /\ requirement' = [version |-> requirement.version + 1,
                     value |-> [f \in Fields |->
                       CASE f \in r.write -> requirement.version
                         [] f \in Defaulted \ r.write -> 0
                         [] OTHER -> r.read[f]]]
  /\ PlFinish(h)
  /\ UNCHANGED <<budgetVars, kitMember, reserved>>

AbortRequirement(h) ==
  /\ plReq[h].at = "requirement"
  /\ ~RequirementGuard(plReq[h].version)
  /\ PlFinish(h)
  /\ UNCHANGED <<budgetVars, otherVars>>

----------------------------------------------------------------------------
(* Equipment.                                                              *)

\* POST /kits/:id/members.
SetKitMember(k, i) ==
  /\ kitMember' = kitMember \cup {<<k, i>>}
  /\ UNCHANGED <<budgetVars, requirement, reserved, plReq>>

Made(r) == reserved[r].on # {}

\* A kit stands for the items in it.
ItemsOf(on) == IF on \in Items THEN {on} ELSE {i \in Items : <<on, i>> \in kitMember}
Overlap(v, w) == v[1] < w[2] /\ w[1] < v[2]

\* reservationConflictsWith.
ClashesWith(on, w) ==
  {r \in Reservations : /\ Made(r)
                        /\ Overlap(reserved[r].window, w)
                        /\ ItemsOf(reserved[r].on) \cap ItemsOf(on) # {}}

\* POST /reservations: a conflict is accepted only with a reason.
StartReservation(h, r, on, w, reason) ==
  /\ ~Made(r)
  /\ ClashesWith(on, w) = {} \/ reason
  /\ StartPlanning(h, [NoPlReq EXCEPT !.at = "reserve", !.on = r,
                        !.read = ClashesWith(on, w),
                        !.write = [on |-> on, window |-> w, overridden |-> reason]])

CommitReservation(h) ==
  LET r == plReq[h] IN
  /\ r.at = "reserve"
  /\ ~Made(r.on)
  /\ reserved' = [reserved EXCEPT ![r.on] = r.write]
  /\ PlFinish(h)
  /\ UNCHANGED <<budgetVars, requirement, kitMember>>

\* The answer is sent, the request is refused, or the Worker dies.
PlDrop(h) ==
  /\ plReq[h].at # "idle"
  /\ PlFinish(h)
  /\ UNCHANGED <<budgetVars, otherVars>>

\* Who names a version in If-Match has seen it.
SeenBudget == IF budget.version < MaxBudgetWrites THEN 1..budget.version ELSE {}

PlanningNext ==
  \/ \E c \in Contingencies : CreateBudget(c)
  \/ AddRequirement
  \/ \E k \in Kits, i \in Items : SetKitMember(k, i)
  \/ \E h \in PlHandlers :
       \/ \E e \in SeenBudget, n \in Versions :
            \/ \E c \in Contingencies : StartVersion(h, e, n, c)
            \/ \E c \in Codes : StartAccount(h, e, n, c)
            \/ \E l \in Lines, a \in Amounts : StartLine(h, e, n, l, a)
            \/ \E k \in PlKeys : StartBudgetApproval(h, k, e, n)
       \/ \E e \in 1..requirement.version, f \in SUBSET Fields \ {{}} :
            StartRequirement(h, e, f)
       \/ \E r \in Reservations, on \in Items \cup Kits, w \in Windows, b \in BOOLEAN :
            StartReservation(h, r, on, w, b)
       \/ CommitVersion(h) \/ CommitAccount(h) \/ CommitLine(h) \/ AbortPlanning(h)
       \/ BeginApproval(h) \/ AnswerApproved(h) \/ ReadForApproval(h)
       \/ CommitBudgetApproval(h) \/ LoseApproval(h) \/ MarkApprovalFailed(h)
       \/ CommitRequirement(h) \/ AbortRequirement(h) \/ CommitReservation(h) \/ PlDrop(h)

PlanningSpec == PlanningInit /\ [][PlanningNext]_planningVars

----------------------------------------------------------------------------
(* Properties.                                                             *)

\* At any time at most one version is worked on, the one the budget names;
\* versions are numbered without a gap; and the budget's approved version is
\* the last one approved (planning-controls.ts:625, :667, :964).
OneWorkingVersion ==
  /\ \A n \in Versions : plan[n].status = "working" <=> budget.working = n
  /\ Numbered = 1..Cardinality(Numbered)
  /\ LET done == {n \in Versions : plan[n].status = "approved"}
     IN  budget.approved = Cardinality(done) /\ done = 1..Cardinality(done)

\* What is approved is what the approver's request read and hashed, though
\* accounts and lines are written between, and nothing is added to it later:
\* the triggers let lines and accounts be inserted into an approved version
\* (planning-controls.ts:937; migrations/0006:179-200).
ApprovedAsHashed ==
  \A n \in Versions : plan[n].status = "approved" => plan[n].hash = {Content(plan[n])}

\* The amounts a version carries without contingency are those of its lines,
\* also when lines of it are changed, copied and changed again
\* (planning-controls.ts:2706).
TotalsAreOfLines == \A n \in Versions : plan[n].net = SumOf(plan[n].lines)

\* A key says that a version is approved exactly when its own request
\* approved it, and no version is approved twice (planning-controls.ts:884).
ApprovedOncePerKey ==
  /\ \A k \in PlKeys : {s[1] : s \in {t \in signed : t[2] = k}} =
       IF planKey[<<"approve", k>>].state = "completed" THEN {planKey[<<"approve", k>>].ref} ELSE {}
  /\ \A s, t \in signed : s[1] = t[1] => s = t

\* Versions, approvals and keys of a budget agree, whoever works on them.
BudgetStands == OneWorkingVersion /\ ApprovedAsHashed /\ TotalsAreOfLines /\ ApprovedOncePerKey

\* A PATCH of the requirement loses nobody's work: the columns its body does not
\* name keep the values that they have when it is committed, whoever changed them
\* since it read them, but for those that get a default (planning-controls.ts:1180).
RequirementEditsAreKept ==
  [][\A h \in PlHandlers : plReq[h].at = "requirement" /\ requirement' # requirement
        /\ plReq'[h].at = "idle" =>
        \A f \in Fields \ (plReq[h].write \cup Defaulted) :
          requirement'.value[f] = requirement.value[f]]_planningVars

=============================================================================
