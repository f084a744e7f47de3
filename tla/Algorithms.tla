----------------------------- MODULE Algorithms -----------------------------
(***************************************************************************)
(* The pure algorithms of packages/domain and server/planning/services.ts, *)
(* each put to bounded questions and compared with what it promises.  A    *)
(* behaviour poses one question and gives the answer the code computes.    *)
(*                                                                         *)
(* Amounts, frames and times are integers, as in the code, which computes  *)
(* in BigInt and refuses what leaves the safe range; the questions stay    *)
(* inside it.  Identifiers that the code sorts are numbers, so "<" stands  *)
(* for localeCompare.                                                      *)
(***************************************************************************)
EXTENDS Integers, FiniteSets, Sequences, Functions

CONSTANTS Allocations,   \* questions [total, weights] to allocateMinorUnits
          BudgetLines,   \* budget lines [rate, quantity, duration, fringe, tax, markup]
          Timecodes,     \* questions [rate, frames] to formatTimecode
          Calendars,     \* functions from assignment ids to assignments
          Networks,      \* [nodes, edges]: task dependencies
          Reorderings,   \* sequences of old scene positions, in their new order
          Merges,        \* [references, target, sources, archived]
          Travel         \* from sets of two places to the known time between them

(* frameRateSchema *)
MaxNumerator == 240000
MaxDenominator == 10000

Rates == [numerator : 1 .. MaxNumerator, denominator : 1 .. MaxDenominator, dropFrame : BOOLEAN]

MayDrop(rate) == rate.numerator \in {30000, 60000} /\ rate.denominator = 1001

FrameRates == {r \in Rates : r.dropFrame => MayDrop(r)}

Nowhere == "nowhere"  \* in place of a locationId that is left out

(* What the schemas and the checks at the head of each algorithm let in.   *)
ASSUME AlgorithmsAssumption ==
  /\ \A a \in Allocations : /\ a.total \in Nat /\ a.weights \in Seq(Nat)
                            /\ \E i \in DOMAIN a.weights : a.weights[i] > 0
  /\ BudgetLines \subseteq
       [rate : Int, quantity : Nat, duration : Nat, fringe : Nat, tax : Nat, markup : Nat]
  /\ \A t \in Timecodes : t.rate \in FrameRates /\ t.frames \in Nat
  /\ \A c \in Calendars : /\ DOMAIN c \subseteq Nat /\ IsFiniteSet(DOMAIN c)
                          /\ \A a \in DOMAIN c : /\ c[a].start \in Nat /\ c[a].end \in Nat
                                                /\ c[a].rest \in Nat /\ c[a].start < c[a].end
  /\ \A n \in Networks : /\ n.nodes \subseteq Nat /\ IsFiniteSet(n.nodes)
                         /\ n.edges \subseteq n.nodes \X n.nodes
  /\ Reorderings \subseteq Seq(Nat)
  /\ \A m \in Merges : LET r == m.references IN
       /\ r \in Seq(Range(r))
       /\ \A i \in DOMAIN r : r[i] = [by |-> r[i].by, element |-> r[i].element]
  /\ Nowhere \notin UNION DOMAIN Travel
  /\ \A way \in DOMAIN Travel : Travel[way] \in Nat

VARIABLES question, answer

algorithmsVars == <<question, answer>>

Unanswered == [kind |-> "none"]

AlgorithmsInit ==
  /\ answer = Unanswered
  /\ \/ \E a \in Allocations : question = [kind |-> "allocate", of |-> a]
     \/ \E l \in BudgetLines : question = [kind |-> "line", of |-> l]
     \/ \E t \in Timecodes : question = [kind |-> "timecode", of |-> t]
     \/ \E c \in Calendars : question = [kind |-> "calendar", of |-> c]
     \/ \E n \in Networks : question = [kind |-> "order", of |-> n]
     \/ \E s \in Reorderings : question = [kind |-> "moves", of |-> s]
     \/ \E m \in Merges : question = [kind |-> "merge", of |-> m]

Answer(kind, result) ==
  /\ question.kind = kind
  /\ answer = Unanswered
  /\ answer' = [kind |-> kind, is |-> result]
  /\ UNCHANGED question

-----------------------------------------------------------------------------
(* money.ts *)

Abs(n) == IF n < 0 THEN -n ELSE n

DivideHalfAwayFromZero(n, d) ==
  LET rounded == (Abs(n) + d \div 2) \div d IN IF n < 0 THEN -rounded ELSE rounded

ApplyBasisPoints(amount, bps) == DivideHalfAwayFromZero(amount * bps, 10000)

(* Fringe on the subtotal; tax and markup on subtotal plus fringe.         *)
CalculateBudgetLine(line) ==
  LET subtotal == DivideHalfAwayFromZero(line.rate * line.quantity * line.duration, 1000000)
      taxable  == subtotal + ApplyBasisPoints(subtotal, line.fringe)
  IN taxable + ApplyBasisPoints(taxable, line.tax) + ApplyBasisPoints(taxable, line.markup)

Total(weights) ==
  LET sum[n \in 0 .. Len(weights)] == IF n = 0 THEN 0 ELSE sum[n - 1] + weights[n]
  IN sum[Len(weights)]

PriorityOrder(left, right, remainder) ==
  \/ remainder[left] > remainder[right]
  \/ remainder[left] = remainder[right] /\ left < right

(* Every row gets its floor, and the rows first in priority one unit more. *)
AllocateMinorUnits(total, weights) ==
  LET whole     == Total(weights)
      value     == [i \in DOMAIN weights |-> (total * weights[i]) \div whole]
      remainder == [i \in DOMAIN weights |-> (total * weights[i]) % whole]
      ahead(i)  == {j \in DOMAIN weights : PriorityOrder(j, i, remainder)}
      remaining == total - Total(value)
  IN [i \in DOMAIN weights |-> value[i] + IF Cardinality(ahead(i)) < remaining THEN 1 ELSE 0]

Allocate == Answer("allocate", AllocateMinorUnits(question.of.total, question.of.weights))

TotalLine == Answer("line", CalculateBudgetLine(question.of))

-----------------------------------------------------------------------------
(* timecode.ts: a rate is [numerator, denominator, dropFrame].             *)

Nominal(rate) == (2 * rate.numerator + rate.denominator) \div (2 * rate.denominator)

DropFramesPerMinute(rate) == IF Nominal(rate) = 60 THEN 4 ELSE 2

FramesPerDay(rate) ==
  (Nominal(rate) * 3600 - IF rate.dropFrame THEN DropFramesPerMinute(rate) * 54 ELSE 0) * 24

Nearest(n, d) == n \div d + IF 2 * (n % d) >= d THEN 1 ELSE 0

FramesFromMilliseconds(ms, rate) == Nearest(ms * rate.numerator, 1000 * rate.denominator)

MillisecondsFromFrames(frames, rate) == Nearest(frames * 1000 * rate.denominator, rate.numerator)

Skipped(remainder, dropped, perMinute) ==
  IF remainder >= dropped THEN dropped * ((remainder - dropped) \div perMinute) ELSE 0

(* The number the label of a frame spells.                                 *)
LabelFrames(frames, rate) ==
  LET nominal == Nominal(rate)
      dropped == DropFramesPerMinute(rate)
      wrapped == frames % FramesPerDay(rate)
      per10   == nominal * 600 - dropped * 9
  IN IF ~rate.dropFrame THEN frames
     ELSE wrapped + dropped * 9 * (wrapped \div per10)
                  + Skipped(wrapped % per10, dropped, nominal * 60 - dropped)

FormatTimecode(frames, rate) ==
  LET label   == LabelFrames(frames, rate)
      seconds == label \div Nominal(rate)
  IN [h |-> (seconds \div 3600) % 24, m |-> (seconds \div 60) % 60, s |-> seconds % 60,
      f |-> label % Nominal(rate)]

OmittedLabel == -1

ParseTimecode(code, rate) ==
  LET dropped == DropFramesPerMinute(rate)
      minutes == code.h * 60 + code.m
      named   == (minutes * 60 + code.s) * Nominal(rate) + code.f
  IN IF ~rate.dropFrame THEN named
     ELSE IF code.m % 10 # 0 /\ code.s = 0 /\ code.f < dropped THEN OmittedLabel
     ELSE named - dropped * (minutes - minutes \div 10)

Label == Answer("timecode", FormatTimecode(question.of.frames, question.of.rate))

-----------------------------------------------------------------------------
(* schedule.ts, conflicts.ts, planning/services.ts: an assignment is       *)
(* [of, start, end, rest, place]; "of" is the unit, the resource or the    *)
(* equipment it takes.  The three sweeps are one loop written three times. *)

Earlier(calendar, a, b) ==
  \/ calendar[a].start < calendar[b].start
  \/ calendar[a].start = calendar[b].start /\ a < b

(* Sorted: the assignment in place i has i - 1 ahead of it.                *)
InOrder(calendar, ids) ==
  [i \in 1 .. Cardinality(ids) |->
     CHOOSE a \in ids : Cardinality({b \in ids : Earlier(calendar, b, a)}) = i - 1]

(* The inner loop stops at the first assignment that starts after left.    *)
Sweep(calendar, row) ==
  LET pairs == {p \in (DOMAIN row) \X (DOMAIN row) : p[1] < p[2]}
      met(p) == \A k \in p[1] + 1 .. p[2] : calendar[row[k]].start < calendar[row[p[1]]].end
  IN {<<row[p[1]], row[p[2]]>> : p \in {q \in pairs : met(q)}}

GroupsOf(calendar) ==
  {{a \in DOMAIN calendar : calendar[a].of = r} : r \in {calendar[a].of : a \in DOMAIN calendar}}

UnitOverlaps(calendar) ==
  UNION {Sweep(calendar, InOrder(calendar, group)) : group \in GroupsOf(calendar)}

(* Turnaround and travel are looked at between neighbours that do not      *)
(* overlap.                                                                *)
Larger(a, b) == IF a > b THEN a ELSE b

RestTooShort(before, after) ==
  /\ after.start >= before.end
  /\ after.start - before.end < Larger(before.rest, after.rest)

(* Known in both directions or in none.                                    *)
WayTooLong(before, after) ==
  LET way == {before.place, after.place} IN
  /\ after.start >= before.end
  /\ Nowhere \notin way /\ before.place # after.place
  /\ way \in DOMAIN Travel /\ after.start - before.end < Travel[way]

TooClose(before, after) == RestTooShort(before, after) \/ WayTooLong(before, after)

NeighbourGaps(calendar, row) ==
  {<<row[i], row[i + 1]>> : i \in {k \in 1 .. Len(row) - 1 :
                                    TooClose(calendar[row[k]], calendar[row[k + 1]])}}

DetectResourceConflicts(calendar) ==
  [overlap |-> UnitOverlaps(calendar),
   gap     |-> UNION {NeighbourGaps(calendar, InOrder(calendar, g)) : g \in GroupsOf(calendar)}]

Detect == Answer("calendar", DetectResourceConflicts(question.of))

-----------------------------------------------------------------------------
(* dependencies.ts: an edge <<a, b>> says that b waits for a.              *)

Successors(edges, reached) == reached \cup {e[2] : e \in {d \in edges : d[1] \in reached}}

(* A path that visits no node twice has at most one edge for each node.    *)
Reachable(nodes, edges, node) ==
  LET within[n \in 0 .. Cardinality(nodes)] ==
        IF n = 0 THEN {e[2] : e \in {d \in edges : d[1] = node}}
        ELSE Successors(edges, within[n - 1])
  IN within[Cardinality(nodes)]

(* What detectDependencyCycle answers: a node that waits for itself.       *)
DetectDependencyCycle(nodes, edges) == \E n \in nodes : n \in Reachable(nodes, edges, n)

Ready(edges, taken, n) == \A e \in edges : e[2] = n => e[1] \in taken

TakeReady(nodes, edges, order) ==
  LET ready == {n \in nodes \ Range(order) : Ready(edges, Range(order), n)}
  IN IF ready = {} THEN order ELSE Append(order, CHOOSE n \in ready : \A m \in ready : n <= m)

TopologicalOrder(nodes, edges) ==
  LET order[n \in 0 .. Cardinality(nodes)] ==
        IF n = 0 THEN <<>> ELSE TakeReady(nodes, edges, order[n - 1])
  IN IF DetectDependencyCycle(nodes, edges) THEN <<>> ELSE order[Cardinality(nodes)]

Order == Answer("order", TopologicalOrder(question.of.nodes, question.of.edges))

-----------------------------------------------------------------------------
(* scene-sync.ts: the scenes that count as not moved.                      *)

RunLengths(values) ==
  LET length[i \in DOMAIN values] ==
        LET before == {length[j] : j \in {k \in 1 .. i - 1 : values[k] < values[i]}}
        IN IF before = {} THEN 1 ELSE 1 + CHOOSE n \in before : \A m \in before : m <= n
  IN [i \in DOMAIN values |-> length[i]]

(* previous[] is the first candidate of the length that was needed.        *)
LongestRun(values) ==
  LET length == RunLengths(values)
      best   == CHOOSE i \in DOMAIN values :
                  \A j \in DOMAIN values : length[j] < length[i] \/ (length[j] = length[i] /\ i <= j)
      step(i) == {k \in 1 .. i - 1 : values[k] < values[i] /\ length[k] = length[i] - 1}
      run[i \in DOMAIN values] ==
        IF step(i) = {} THEN {i} ELSE {i} \cup run[CHOOSE k \in step(i) : \A j \in step(i) : k <= j]
  IN IF values = <<>> THEN {} ELSE run[best]

FindMoves == Answer("moves", LongestRun(question.of))

-----------------------------------------------------------------------------
(* element-merge.ts: a reference is [by, element].                         *)

Refused == [refused |-> TRUE]

Redirected(merge, r) ==
  IF r.element \in merge.sources THEN [r EXCEPT !.element = merge.target] ELSE r

PreviewElementMerge(merge) ==
  IF merge.sources = {} \/ merge.target \in merge.sources
     \/ merge.target \in merge.archived \/ merge.sources \cap merge.archived # {}
  THEN Refused
  ELSE LET moved == [i \in DOMAIN merge.references |-> Redirected(merge, merge.references[i])]
           first(i) == \A j \in 1 .. i - 1 : moved[j] # moved[i]
       IN [references |-> {moved[i] : i \in {k \in DOMAIN moved : first(k)}},
           removed |-> Cardinality({i \in DOMAIN moved : ~first(i)})]

ApplyElementMerge(merge, preview) ==
  IF preview = Refused THEN Refused
  ELSE [references |-> preview.references, removed |-> preview.removed,
        archived |-> merge.archived \cup merge.sources]

Merge == Answer("merge", ApplyElementMerge(question.of, PreviewElementMerge(question.of)))

-----------------------------------------------------------------------------
AlgorithmsNext == Allocate \/ TotalLine \/ Label \/ Detect \/ Order \/ FindMoves \/ Merge

AlgorithmsSpec == AlgorithmsInit /\ [][AlgorithmsNext]_algorithmsVars

-----------------------------------------------------------------------------
(* Properties *)

AllocationIsExact(total, weights, shares) ==
  /\ Total(shares) = total
  /\ \A i \in DOMAIN weights : Abs(shares[i] * Total(weights) - total * weights[i]) < Total(weights)
  /\ \A i, j \in DOMAIN weights : weights[i] > weights[j] => shares[i] >= shares[j]

(* No minor unit is lost or invented: an allocation adds up to its total,  *)
(* every share is within one unit of the exact one and a larger weight     *)
(* never gets less (money.ts:132); and the line that takes a charge back   *)
(* is exactly its negative, whatever the fringe, tax and markup            *)
(* (money.ts:44, :64).                                                     *)
MoneyIsExact ==
  /\ answer.kind = "allocate" =>
       AllocationIsExact(question.of.total, question.of.weights, answer.is)
  /\ answer.kind = "line" =>
       CalculateBudgetLine([question.of EXCEPT !.rate = -@]) = -answer.is

(* A timecode names one frame of the day: the label of a frame is never    *)
(* one drop-frame counting omits, and parsing it gives the frame back      *)
(* (timecode.ts:84, :119); frames survive a detour through milliseconds    *)
(* (timecode.ts:57).                                                       *)
TimecodesRoundTrip ==
  answer.kind = "timecode" =>
    LET rate == question.of.rate
    IN /\ ParseTimecode(answer.is, rate) = question.of.frames % FramesPerDay(rate)
       /\ question.of.frames <= 2000 =>
            FramesFromMilliseconds(MillisecondsFromFrames(question.of.frames, rate), rate)
              = question.of.frames

OverlapsByDefinition(calendar) ==
  {{q[1], q[2]} : q \in
     {p \in (DOMAIN calendar) \X (DOMAIN calendar) :
        /\ p[1] # p[2] /\ calendar[p[1]].of = calendar[p[2]].of
        /\ calendar[p[1]].start < calendar[p[2]].end /\ calendar[p[2]].start < calendar[p[1]].end}}

CloseByDefinition(calendar) ==
  {p \in (DOMAIN calendar) \X (DOMAIN calendar) :
     p[1] # p[2] /\ calendar[p[1]].of = calendar[p[2]].of
     /\ TooClose(calendar[p[1]], calendar[p[2]])}

Between(p, q) == IF p = q THEN 0 ELSE Travel[{p, q}]

(* All the times between places are known, and no detour is shorter.       *)
Charted(places) ==
  /\ Nowhere \notin places
  /\ \A p, q \in places : p # q => {p, q} \in DOMAIN Travel
  /\ \A p, q, r \in places : Between(p, r) <= Between(p, q) + Between(q, r)

PlacesOf(calendar, of) == {calendar[a].place : a \in {b \in DOMAIN calendar : calendar[b].of = of}}

(* Nobody rests too little, and who does not get somewhere in time has a   *)
(* way to go that is not charted.                                          *)
OnlyUnchartedAreClose(calendar) ==
  \A p \in CloseByDefinition(calendar) :
    /\ ~RestTooShort(calendar[p[1]], calendar[p[2]])
    /\ ~Charted(PlacesOf(calendar, calendar[p[1]].of))

(* A calendar the detector passes is clean: the sweep, which stops at the  *)
(* first assignment past the current one, finds exactly the overlapping    *)
(* pairs, and although only neighbours are asked about turnaround and      *)
(* travel, a calendar without any report has no pair with too little rest, *)
(* nor, where the places of a resource and the times between them are      *)
(* known, one with too little time to travel (conflicts.ts:158, :174,      *)
(* :189; schedule.ts:131).                                                 *)
CleanCalendarsAreClean ==
  answer.kind = "calendar" =>
    /\ {{p[1], p[2]} : p \in answer.is.overlap} = OverlapsByDefinition(question.of)
    /\ answer.is.gap \subseteq CloseByDefinition(question.of)
    /\ answer.is.overlap \cup answer.is.gap = {} => OnlyUnchartedAreClose(question.of)

Increasing(values, run) == \A i, j \in run : i < j => values[i] < values[j]

(* Orders lose nothing: tasks come out after all they wait for, all of     *)
(* them unless the graph has a cycle (dependencies.ts:62); and the scenes  *)
(* not counted as moved are a longest run that kept its order, so as few   *)
(* scenes as possible are shown as moved (scene-sync.ts:86).               *)
OrdersAreBest ==
  /\ answer.kind = "order" =>
       LET edges == question.of.edges
           place(n) == CHOOSE i \in DOMAIN answer.is : answer.is[i] = n
       IN IF DetectDependencyCycle(question.of.nodes, edges) THEN answer.is = <<>>
          ELSE /\ Range(answer.is) = question.of.nodes
               /\ Len(answer.is) = Cardinality(question.of.nodes)
               /\ \A e \in edges : place(e[1]) < place(e[2])
  /\ answer.kind = "moves" =>
       /\ Increasing(question.of, answer.is)
       /\ \A run \in SUBSET DOMAIN question.of :
            Increasing(question.of, run) => Cardinality(run) <= Cardinality(answer.is)

(* A merge keeps every reference: what pointed at a source points at the   *)
(* target, nothing points at a source any more, other references are as    *)
(* they were, and only duplicates are removed (element-merge.ts:47, :148). *)
MergeKeepsReferences ==
  answer.kind = "merge" /\ answer.is # Refused =>
    LET merge == question.of
        survivor(e) == IF e \in merge.sources THEN merge.target ELSE e
    IN /\ answer.is.references =
            {[by |-> r.by, element |-> survivor(r.element)] : r \in Range(merge.references)}
       /\ Len(merge.references) = Cardinality(answer.is.references) + answer.is.removed
       /\ merge.target \notin answer.is.archived

(* Amounts and timecodes, which other rows are computed from, are exact.   *)
FiguresAreExact == MoneyIsExact /\ TimecodesRoundTrip

(* What is shown of calendars, plans and merges is what their rows say.    *)
FindingsAreSound == CleanCalendarsAreClean /\ OrdersAreBest /\ MergeKeepsReferences

(* Every answer is what the algorithm promises.                            *)
AnswersAreRight == FiguresAreExact /\ FindingsAreSound
=============================================================================
