---------------------------- MODULE MCDocuments ----------------------------
(* From the schedule to the people it is sent to and what they say of it:   *)
(* Schedules, Issuing, Sharing and Discussions on small instances.  Their   *)
(* rows are disjoint, so one behaviour explores one of them, and of Sharing *)
(* one family of requests.                                                  *)
EXTENDS Schedules, Issuing, Sharing, Discussions, TLC

CONSTANTS m1, m2, s1, s2, k1, k2, n1, n2

VARIABLE focus  \* the component whose rows this behaviour changes

MCBreaks == [p \in Plans |-> DayCounts]

\* Member m2 requests an approval of m1.
MCRequests == {<<m2, m1, FALSE>>}

\* Requests to links and approvals that read or write the same rows.
Deciding == {"decide", "approve"}
Families == {Deciding, {"confirm", "manual", "copied"}, {"request", "create"},
             {"create", "comment", "submit"}}

InFamily(family) == \A h \in ShHandlers : shReq'[h].op # << >> => shReq'[h].op[2] \in family

\* Where members and a link decide, m2 has asked m1 for an approval and made a
\* link for it, each under a key.
AskedOps == {<<m2, "request", "any">>, <<m2, "create", "any">>} \X ShKeys

AskedInit ==
  /\ share = [l \in Links |-> [state |-> "open", purpose |-> "approver", for |-> Approvals]]
  /\ approval = [a \in Approvals |->
       [status |-> "requested", version |-> 1, owner |-> {m2}, approver |-> {m1}, self |-> FALSE]]
  /\ made = [ok \in ShareOps \X ShKeys |-> IF ok \in AskedOps THEN 1 ELSE 0]
  /\ keyRow = [ok \in ShareOps \X ShKeys |->
       IF ok \in AskedOps THEN [Keyed!NoRecord EXCEPT !.state = "completed", !.ref = ok]
                          ELSE Keyed!NoRecord]
  /\ withdrawn = {}
  /\ session = {}
  /\ seen = {}
  /\ decision = [a \in Approvals |-> << >>]
  /\ shReq = [h \in ShHandlers |-> NoShReq]

\* Deciding takes two more keys; for the others two are enough.
MayBegin ==
  \/ focus = Deciding
  \/ Cardinality({ok \in DOMAIN keyRow' : keyRow'[ok] # Keyed!NoRecord}) <= 2

\* Withdrawing what is shared matters to requests that load it.
MayWithdraw == withdrawn' = {} \/ focus \in {Deciding, {"create", "comment", "submit"}}

DocumentsInit ==
  /\ SchedulesInit /\ IssuingInit /\ DiscussionsInit
  /\ focus \in {{"schedules"}, {"issuing"}, {"discussions"}} \cup Families
  /\ IF focus = Deciding THEN AskedInit ELSE SharingInit

DocumentsNext ==
  /\ \/ /\ focus = {"schedules"} /\ SchedulesNext
        /\ UNCHANGED <<issuingVars, sharingVars, discussionsVars>>
     \/ /\ focus = {"issuing"} /\ IssuingNext
        /\ UNCHANGED <<schedulesVars, sharingVars, discussionsVars>>
     \/ /\ focus = {"discussions"} /\ DiscussionsNext
        /\ UNCHANGED <<schedulesVars, issuingVars, sharingVars>>
     \/ /\ focus \in Families
        /\ SharingNext /\ InFamily(focus) /\ MayBegin /\ MayWithdraw
        /\ UNCHANGED <<schedulesVars, issuingVars, discussionsVars>>
  /\ UNCHANGED focus

documentsVars == <<schedulesVars, issuingVars, sharingVars, discussionsVars, focus>>

DocumentsSpec == DocumentsInit /\ [][DocumentsNext]_documentsVars

\* The components share their request handlers; schedules, keys and comments
\* are swapped together, since no behaviour changes rows of both.
Swap == (s1 :> s2) @@ (s2 :> s1) @@ (k1 :> k2) @@ (k2 :> k1)
        @@ (n1 :> n2) @@ (n2 :> n1)
Symmetry == Permutations(SrHandlers) \cup {Swap}
=============================================================================
