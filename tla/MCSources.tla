------------------------------ MODULE MCSources ------------------------------
(* The projects ReadinessSources is asked about, and the verdicts of          *)
(* ReadinessVerdicts.  Each register holds any of a few rows: some that are   *)
(* ready, and some that fall short in one column.                             *)
EXTENDS ReadinessVerdicts

\* The row, and the rows that differ from it in one column.
But(row, columns) == {row} \cup {[row EXCEPT ![c] = columns[c]] : c \in DOMAIN columns}

\* At most so many of the rows.
Some(rows, most) == {{}} \cup {{f[i] : i \in 1 .. most} : f \in [1 .. most -> rows]}

Ask(code, projects) == [code : {code}, of : projects]

----------------------------------------------------------------------------
AskedDevelopment ==
  Ask("development_approved",
    [documents : Some([kind : {"brief", "treatment", "outline"}, status : {"approved", "draft"},
                       revision : {Nil, "r1"}], 4)])

AskedWriting ==
  Ask("writing_approved_synced",
    [documents : Some([kind : {"av", "screenplay"}, status : {"approved", "draft"},
                       current : {Nil, "r1", "r2"}, approved : {Nil, "r1"}], 2),
     syncs : Some([status : {"applied", "ready"}, to : {"r1", "r2"}, unresolved : {0, 1}], 1)])

AskedBreakdown ==
  Ask("breakdown_complete",
    [scenes : Some(But([scene |-> 1, omitted |-> FALSE, revision |-> "r2", source |-> "r2",
                        status |-> "approved", readiness |-> "ready"],
                       [scene |-> 2, omitted |-> TRUE, source |-> "r1", status |-> Nil,
                        readiness |-> "blocked"])
                   \cup {[scene |-> 3, omitted |-> FALSE, revision |-> "r1", source |-> Nil,
                          status |-> Nil, readiness |-> Nil]}, 3)])

Assignments ==
  But([status |-> "booked", confirmed |-> TRUE, requirement |-> "executed", signed |-> "signed"],
      [status |-> "tentative", confirmed |-> FALSE, requirement |-> Nil, signed |-> "unsigned"])
AskedCast ==
  Ask("cast_ready",
    [characters : Some([name : {1, 2}, speaking : BOOLEAN, assignments : Some(Assignments, 2)], 2)])

AskedCrew ==
  LET ready(d) == [department |-> d, booking |-> "booked", confirmation |-> "confirmed",
                   availability |-> "available", deal |-> "signed"]
      gaps == [booking |-> "requested", confirmation |-> "pending", availability |-> Nil, deal |-> Nil]
  IN Ask("crew_ready",
       [crew : {{ready(d) : d \in e} \cup s : e \in SUBSET CrewDepartments,
                                              s \in Some(But(ready("sound"), gaps), 2)}])

AskedLocations ==
  LET ready == [name |-> 1, archived |-> FALSE, linked |-> FALSE, status |-> "approved", availability |-> "available",
                legal |-> "complete", safety |-> "approved", approval |-> "approved", windows |-> 1]
      gaps == [name |-> 2, archived |-> TRUE, linked |-> TRUE, status |-> "scouting", availability |-> "unknown",
               legal |-> "pending", safety |-> "pending", approval |-> "draft", windows |-> 0]
  IN Ask("locations_ready",
       [locations : Some(But(ready, gaps) \cup But([ready EXCEPT !.linked = TRUE], gaps), 3)])

AskedBudget ==
  Ask("budget_ready",
    [budgets : Some([version : {Nil, "approved", "superseded"}, committed : 0 .. 2, approved : 0 .. 1], 2)])

----------------------------------------------------------------------------
AskedLegal ==
  LET complete == [name |-> 1, insurance |-> FALSE, blocking |-> TRUE, status |-> "executed",
                   signed |-> "signed", expires |-> 0, approval |-> Nil]
      gaps == [name |-> 2, insurance |-> TRUE, blocking |-> FALSE, status |-> "draft",
               signed |-> "unsigned", expires |-> 2, approval |-> "requested"]
  IN Ask("legal_rights_clearance", [requirements : Some(But(complete, gaps), 3), now : 1 .. 3])

AskedHolds ==
  Ask("legal_hold",
    [holds : Some([name : {1, 2}, released : BOOLEAN, project : {Nil, "p", "q"}], 3), id : {"p"}])

AskedInsurance ==
  Ask("insurance_current",
    [insurances : Some(But([status |-> "approved", approval |-> "approved", from |-> 0, until |-> 2,
                            expires |-> 0],
                           [status |-> "requested", approval |-> "rejected", from |-> 2, until |-> 0,
                            expires |-> 1]), 3), now : 1 .. 3])

AskedSafety ==
  Ask("safety_ready",
    [risks : Some([status : {"approved", "draft"}, approval : {Nil, "approved"}], 1),
     plans : Some(But([status |-> "approved", approval |-> "approved", detailed |-> TRUE],
                      [status |-> "draft", approval |-> Nil, detailed |-> FALSE]), 2),
     hazards : Some([status : {"closed", "open"}, residual : {12, 13}, openControls : {0, 1}]
                    \cup {[status |-> "closed", residual |-> Unscored, openControls |-> 0]}, 2)])

----------------------------------------------------------------------------
Conflicts(types) ==
  Some([type : types, severity : {"blocker", "warning"}, status : {"open", "overridden"},
        day : {Nil, "d1", "d2"}], 1)

Members == But([archived |-> FALSE, condition |-> TRUE, status |-> "ready"],
               [archived |-> TRUE, condition |-> FALSE, status |-> "repair"])
AskedEquipment ==
  Ask("equipment_ready",
    [reservations : Some(But([name |-> 1, kit |-> FALSE, members |-> {}, condition |-> TRUE,
                              status |-> "reserved", equipment |-> "available"],
                             [name |-> 2, condition |-> FALSE, status |-> "requested",
                              equipment |-> Nil, kit |-> TRUE])
                         \cup {[name |-> 3, kit |-> TRUE, members |-> m, condition |-> FALSE,
                                status |-> "ready", equipment |-> "active"] : m \in Some(Members, 2)}, 2),
     conflicts : Conflicts({"equipment", "people"}), day : {Nil, "d1"}])

AskedResources ==
  Ask("department_resources_ready",
    [elements : Some(But([name |-> 1, category |-> "props", status |-> "sourced",
                          procurement |-> "reserved", records |-> {"ready"}],
                         [name |-> 2, category |-> "vehicles", status |-> "needed",
                          procurement |-> Nil, records |-> {"ready", "ordered"}]), 3)])

AskedLogistics ==
  Ask("logistics_ready",
    [logistics : Some([kind : {"logistics", "transport", "catering", "travel"},
                       status : {"ready", "not_required"}], 5)])

AskedSchedule ==
  Ask("schedule_ready",
    [schedules : Some([default : BOOLEAN, at : {1}, approved : {Nil, "r1"}, revision : {"approved", "draft"}]
                      \cup {[default |-> FALSE, at |-> 2, approved |-> "r2", revision |-> "approved"]}, 2),
     days : Some([id : {"d1"}, revision : {"r1", "r2"}, dated : BOOLEAN, called : BOOLEAN]
                 \cup {[id |-> "d2", revision |-> "r1", dated |-> TRUE, called |-> TRUE]}, 2),
     conflicts : Conflicts({"people"}), day : {Nil, "d1"}])

AskedVisual ==
  Ask("visual_plan_ready",
    [plans : Some([kind : VisualKinds, status : {"approved", "draft"}], 5),
     shots : Some([name : {1, 2}, status : {"must_have", "planned"}], 2)])

----------------------------------------------------------------------------
\* No two rows of the same time.
Timed(rows, most) == {s \in Some(rows, most) : \A r, q \in s : r # q => r.at # q.at}

AskedIssues ==
  LET row == [kind |-> "sides", at |-> 1, day |-> Nil, sourceCurrent |-> TRUE, required |-> 0,
              confirmed |-> 0]
      calls == [kind : {"call_sheet"}, at : {2, 3}, day : {"d1", "d2"}, sourceCurrent : BOOLEAN,
                required : {0, 1}, confirmed : {0, 1}]
  IN Ask("issued_documents_ready",
       [issues : {s \cup c \cup p :
                    s \in Timed({[row EXCEPT !.at = t, !.sourceCurrent = b] : t \in {1, 4}, b \in BOOLEAN}, 2),
                    c \in Timed({i \in calls : i.confirmed <= i.required}, 2),
                    p \in Some({[row EXCEPT !.kind = "pack"]}, 1)},
        day : {Nil, "d1"}])

AskedArchive ==
  Ask("archive_integrity",
    [snapshots : Timed(But([at |-> 1, state |-> "complete", hashed |-> TRUE, completed |-> TRUE, job |-> Nil],
                          [at |-> 2, job |-> "failed", state |-> "building", hashed |-> FALSE])
                       \cup [at : {2, 3}, state : {"complete"}, hashed : {TRUE}, completed : BOOLEAN,
                             job : {"verified", "promoting"}], 3)])

Users ==
  {<<"workspace_owner", FALSE>>, <<"producer", FALSE>>, <<"producer", TRUE>>}
AskedUsers ==
  Ask("workspace_security",
    [users : Some(UNION {But([active |-> TRUE, credential |-> TRUE, role |-> u[1], viewer |-> u[2],
                              membership |-> u[1]],
                             [active |-> FALSE, credential |-> FALSE, viewer |-> ~u[2],
                              membership |-> Nil]) : u \in Users}, 4)])

----------------------------------------------------------------------------
(* The launch profile, one whose gates were edited and that has another rule, *)
(* and one that lost a gate.  Three rules are not always satisfied.           *)
Varied == {"legal_hold", "cast_ready", "custom"}

Rule == [severity : {"blocker", "warning"}, required : BOOLEAN]
Profiles ==
  {[c \in DefaultCodes \cup {"custom"} |->
      IF c = "custom" THEN own ELSE IF c = "legal_hold" THEN edited ELSE DefaultRules[c]] :
     own, edited \in Rule}
  \cup {DefaultRules, [c \in DefaultCodes \ {"crew_ready"} |-> DefaultRules[c]]}

Met == [present |-> TRUE, satisfied |-> TRUE]
SourcesOf(rules) ==
  {[c \in DOMAIN rules |-> IF c \in Varied THEN f[c] ELSE Met] :
     f \in [Varied -> {[present |-> p, satisfied |-> s] : p, s \in BOOLEAN}]}

Given(code, role) == [code : {code}, at : {1}, expires : {0, 1, 2}, role : role]

AskedVerdicts ==
  UNION {Ask("judge",
             [rules : {rules}, now : {1},
              sources : SourcesOf(rules),
              overrides : {{}} \cup {{a, b} : a \in Given("legal_hold", {"workspace_owner"}),
                                             b \in Given("custom", {"producer"})}]) : rules \in Profiles}

MCProjects ==
  AskedVerdicts \cup AskedDevelopment \cup AskedWriting \cup AskedBreakdown \cup AskedCast \cup AskedCrew
  \cup AskedLocations \cup AskedBudget \cup AskedLegal \cup AskedHolds \cup AskedInsurance
  \cup AskedSafety \cup AskedEquipment \cup AskedResources \cup AskedLogistics \cup AskedSchedule
  \cup AskedVisual \cup AskedIssues \cup AskedArchive \cup AskedUsers
  \cup Ask("unconfigured", {[documents |-> {}]})
=============================================================================
