------------------------------ MODULE MCSettling ------------------------------
(***************************************************************************)
(* What must come to an end by itself in the signed-in application: its    *)
(* requests, the search for an interview among the pages of the desk, and  *)
(* the list of opportunities and its address.  A behaviour is about one of *)
(* the three and nothing passes between them; `route' says which.          *)
(***************************************************************************)
EXTENDS ScopedRequests

CONSTANTS NoDate, Absent

VARIABLES
    route,
    agenda, listed, fetching, requested, intent, workspace, schedule, saving, canceling, outcome,
    asked, shown, typed, waiting, preferred, due, staged, undone

Desk == INSTANCE InterviewDesk WITH Dates <- {1, 2, 3}, Booked <- {1, 3}, Moving <- {1}

List == INSTANCE OpportunityList WITH
    Views <- {"ACTIVE", "ALL"}, Statuses <- {"SAVED"},
    Words <- {<<0, FALSE>>, <<1, FALSE>>, <<1, TRUE>>}

deskVars == <<agenda, listed, fetching, requested, intent, workspace, schedule, saving, canceling, outcome>>
listVars == <<asked, shown, typed, waiting, preferred, due, staged, undone>>

\* What has a choice of beginnings has it where it is looked at.
MCInit ==
    /\ route \in {"requests", "desk", "list"}
    /\ Init
    /\ Desk!DeskInit /\ (route # "desk" => requested = NoDate /\ ~ intent)
    /\ List!ListInit /\ (route # "list" => asked = CHOOSE a \in List!Addresses : TRUE)

MCNext ==
    \/ route = "requests" /\ Next /\ UNCHANGED <<route, deskVars, listVars>>
    \/ route = "desk" /\ Desk!DeskNext /\ UNCHANGED <<route, vars, listVars>>
    \/ route = "list" /\ List!ListNext /\ UNCHANGED <<route, vars, deskVars>>

\* The fairness of each, as its module states it, where it is looked at.
MCFairness ==
    /\ \A r \in Requests :
        /\ WF_vars(route = "requests" /\ Going(r))
        /\ WF_vars(route = "requests" /\ Serving(r))
    /\ WF_vars(route = "requests" /\ (RenewalFails \/ RenewalStale))
    /\ WF_deskVars(route = "desk" /\ (Desk!Arrives \/ Desk!Fails))
    /\ WF_deskVars(route = "desk" /\ Desk!Effects)
    /\ WF_listVars(route = "list" /\ List!Render)
    /\ WF_listVars(route = "list" /\ List!Normalize)
    /\ WF_listVars(route = "list" /\ List!SearchTimer)

MCSpec == MCInit /\ [][MCNext]_<<route, vars, deskVars, listVars>> /\ MCFairness

DeskResolves == Desk!DeskResolves
ListSettles == List!ListSettles
===============================================================================
