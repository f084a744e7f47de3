---------------------------- MODULE MCWorkspace ----------------------------
(* What members plan and record, the clients that work on their own and what *)
(* is computed from it all: Planning, Controls, Records, ScriptEditor,       *)
(* Listings, NasInstall, OfflineDrafts, Algorithms, ReadinessSources and     *)
(* ReadinessVerdicts on small instances.  Their rows are disjoint, so one    *)
(* behaviour explores one of them; budgets apart from the rest of Planning,  *)
(* the project's ideas and those that become projects from other records.    *)
EXTENDS Planning, Controls, Records, Listings, ScriptEditor, NasInstall, OfflineDrafts, Algorithms,
        MCSources, TLC

VARIABLE focus  \* what this behaviour changes

Foci == {"budget", "logistics", "plans", "risks", "holds", "records", "shared", "ideas", "script", "nas",
         "offline", "algorithms", "sources", "lists", "creative"}

----------------------------------------------------------------------------
MCWindows == {<<1, 3>>}

MCPlanRows == 3  \* bound: rows of the three registers of plans

\* The requests of one focus.  The records whose details hold columns are here
\* the ideas of the project, which nobody moves or promotes meanwhile.
InFocus(h) ==
  CASE focus = "budget"    -> plReq'[h].at \notin {"requirement", "reserve"}
    [] focus = "logistics" -> plReq'[h].at # "begin"
    [] focus = "plans"     -> /\ ctReq'[h].of \in {"none", "logistics", "transport", "catering"}
                              /\ Len(rows') <= MCPlanRows
    [] focus = "risks"     -> ctReq'[h].of \in {"none", "risk", "hazard", "control", "equipment", "kit"}
    [] focus = "holds"     -> ctReq'[h].of = "none"
    [] focus = "records"   -> /\ rcReq'[h].on \notin Ideas
                              /\ \A x \in Recs : row'[x].details = Marked(Shadowed, {}, 0)
    [] focus = "shared"    -> /\ rcReq'[h].on \in (Recs \cap Ideas) \cup {"none"}
                              /\ rcReq'[h].at \notin {"rank", "begin"}
    [] focus = "ideas"     -> rcReq'[h].on \in (Ideas \ Recs) \cup {"none"}
    [] OTHER               -> TRUE

\* Pages fetch one at a time, and not while an answer of the other is read.
FetchesApart ==
  \A s, t \in Pages : s # t /\ fetch'[s].at # "none" =>
    fetch'[t].at = "none" /\ save'[t].at \in {"none", "checked", "committed"}

\* Requests that write a list at once write the same row of it, row 2 alone is
\* archived and restored, and the longer pages are of rows in any state.
WritesMeet ==
  /\ \A v, w \in ListWriters :
       writing'[v].on # {} /\ writing'[w].on # {} => writing'[v].on = writing'[w].on
  /\ \A x \in ListIds : shelf'[x].archived => x = 2
  /\ \A r \in Readers : listing'[r].limit > 1 => listing'[r].state = "all"

----------------------------------------------------------------------------
(* The questions put to the algorithms.                                      *)

Fps(n, d, drop) == [numerator |-> n, denominator |-> d, dropFrame |-> drop]

MCAllocations ==
  {[total |-> t, weights |-> w] : t \in 0 .. 7, w \in {s \in [1 .. 3 -> 0 .. 4] : s # [i \in 1 .. 3 |-> 0]}}

MCBudgetLines ==
  [rate : {1, 25, 99}, quantity : {500, 1500}, duration : {1000, 1500}, fringe : {0, 1250},
   tax : {0, 2100}, markup : {0, 500, 1550}]

\* The frames around every label that is skipped, and the end of a day.
Edges(n) == {k + d : k \in {0, n, 2 * n, 9 * n, 10 * n, 11 * n, 60 * n, 1439 * n, 1440 * n}, d \in 0 .. 5}
MCTimecodes ==
  UNION {[rate : {Fps(24, 1, FALSE), Fps(25, 1, FALSE)}, frames : 0 .. 60 \cup Edges(1440)],
         [rate : {Fps(30000, 1001, TRUE)},
          frames : Edges(1798) \cup Edges(1800) \cup {17982 * k + d : k \in 0 .. 144, d \in 0 .. 3}
                     \cup {2589407, 2589408, 2589410}],
         [rate : {Fps(60000, 1001, TRUE)},
          frames : Edges(3596) \cup Edges(3600) \cup {35964 * k + d : k \in 0 .. 144, d \in 0 .. 5}]}

\* Three assignments of two resources, overlapping, touching and apart; nobody
\* knows the way to w.
Slots ==
  {s \in [of : {"a", "b"}, start : 0 .. 4, end : {1, 3, 5}, rest : {0, 2},
          place : {"x", "y", "z", "w", Nowhere}] :
     s.start < s.end /\ (s.rest = 2 \/ s.of = "b" => s.place = "x")}
MCCalendars ==
  {c \in [1 .. 3 -> Slots] :
     c[1].of = "a" /\ c[1].place = "x" /\ c[1].start <= c[2].start
     /\ \A i \in 2 .. 3 : c[i].of = "b" => c[i].rest = 0}
MCTravel == ({"x", "y"} :> 1) @@ ({"y", "z"} :> 2) @@ ({"x", "z"} :> 3)

MCNetworks == [nodes : {1 .. 3}, edges : SUBSET ((1 .. 3) \X (1 .. 3))]

MCReorderings ==
  {s \in UNION {[1 .. n -> 1 .. 5] : n \in 0 .. 5} : \A i, j \in DOMAIN s : s[i] = s[j] => i = j}

MCMerges ==
  [references : UNION {[1 .. n -> [by : {"r", "q"}, element : 1 .. 3]] : n \in 0 .. 3},
   target : {1}, sources : SUBSET (1 .. 3), archived : {{}, {2}}]

----------------------------------------------------------------------------
computedVars == <<algorithmsVars, sourcesVars, listingsVars>>

NothingAsked == [code |-> "unconfigured", of |-> [documents |-> {}]]

WorkspaceInit ==
  /\ PlanningInit /\ ControlsInit /\ RecordsInit /\ ScriptInit /\ NasInit /\ OfflineInit
  /\ ListingsInit
  /\ focus \in Foci
  /\ focus # "lists" => shelf = [x \in ListIds |-> NoShelf]
  /\ focus # "records" => \A x \in Recs \ Ideas : row[x] = NoRow
  /\ focus # "shared" => \A x \in Recs \cap Ideas : row[x] = NoRow
  /\ IF focus = "algorithms" THEN AlgorithmsInit
     ELSE question = Unanswered /\ answer = Unanswered
  /\ IF focus = "sources" THEN SourcesInit
     ELSE asked = NothingAsked /\ observed = NotObserved

WorkspaceNext ==
  /\ \/ /\ \/ focus = "budget" /\ UNCHANGED otherVars
           \/ focus = "logistics" /\ UNCHANGED budgetVars
        /\ PlanningNext
        /\ UNCHANGED <<controlsVars, scriptVars, recordsVars, nasVars, offlineVars, computedVars>>
     \/ /\ \/ focus \in {"plans", "risks"} /\ UNCHANGED <<holds, holdEvents>>
           \/ focus = "holds"
        /\ ControlsNext
        /\ UNCHANGED <<planningVars, recordsVars, scriptVars, nasVars, offlineVars, computedVars>>
     \/ /\ \/ focus \in {"records", "shared"} /\ UNCHANGED born
           \/ focus = "ideas"
        /\ RecordsNext
        /\ focus # "ideas" => \A i \in Ideas \ Recs : row'[i] = row[i]
        /\ UNCHANGED <<controlsVars, scriptVars, planningVars, nasVars, offlineVars, computedVars>>
     \/ /\ focus = "script" /\ ScriptNext /\ FetchesApart
        /\ UNCHANGED <<planningVars, controlsVars, recordsVars, nasVars, offlineVars, computedVars>>
     \/ /\ focus = "nas" /\ NasNext
        /\ UNCHANGED <<controlsVars, scriptVars, planningVars, recordsVars, offlineVars, computedVars>>
     \/ /\ focus = "offline" /\ OfflineNext
        /\ UNCHANGED <<controlsVars, scriptVars, planningVars, recordsVars, nasVars, computedVars>>
     \/ /\ focus = "algorithms" /\ AlgorithmsNext
        /\ UNCHANGED <<controlsVars, scriptVars, planningVars, recordsVars, nasVars, offlineVars, sourcesVars, listingsVars>>
     \/ /\ focus = "sources" /\ VerdictsNext
        /\ UNCHANGED <<controlsVars, scriptVars, planningVars, recordsVars, nasVars, offlineVars, algorithmsVars, listingsVars>>
     \/ /\ \/ focus = "lists" /\ UNCHANGED creative
           \/ focus = "creative" /\ UNCHANGED <<shelf, clock, writing, listing>>
        /\ ListingsNext /\ WritesMeet
        /\ UNCHANGED <<controlsVars, scriptVars, planningVars, recordsVars, nasVars, offlineVars, algorithmsVars, sourcesVars>>
  /\ \A h \in PlHandlers : InFocus(h)
  /\ UNCHANGED focus

workspaceVars == <<planningVars, controlsVars, recordsVars, scriptVars, nasVars, offlineVars,
                   computedVars, focus>>

WorkspaceSpec == WorkspaceInit /\ [][WorkspaceNext]_workspaceVars

\* What is computed is right, and what is listed is right whoever writes
\* meanwhile, but for rows whose time goes back (packages/domain/src,
\* projects.ts:147, readiness.ts:487).
ShownIsRight == AnswersAreRight /\ ListsAreWhole /\ StatusesAgree

\* Planning and Records share their handlers and keys.
Symmetry == Permutations(PlHandlers) \cup Permutations(PlKeys)
=============================================================================
