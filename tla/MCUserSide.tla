----------------------------- MODULE MCUserSide -----------------------------
(* Where the user decides: plans whose effects need approval, the extension's
   radar, its bridge to the dashboard, and the dashboard's shell. They share no
   state here: `focus` picks, in the initial state, which one runs; of the
   shell, the poller and the panels are explored apart, each together with the
   connection they depend on. *)
EXTENDS PlanExecution, AutoRadar, DashboardBridge, DashboardShell

CONSTANTS
    Parts    \* the ones a run explores

VARIABLE focus
mcVars == <<planVars, radarVars, bridgeVars, shellVars, focus>>

\* A read-only and an external capability; one Goal edited between two versions,
\* the second asks for approval of everything and drops a scope.
MCCapabilities == {"web.read", "mail.send"}
MCDefinition ==
    [c \in MCCapabilities |->
        IF c = "web.read"
        THEN [risk |-> "r0_observe", consent |-> "none",
              health |-> "available", scopes |-> {"public_web"}]
        ELSE [risk |-> "r2_external", consent |-> "policy",
              health |-> "available", scopes |-> {"mailbox"}]]
MCProposals == {{"web.read"}, MCCapabilities}

GoalVersion(scopes, policy) ==
    [allowed |-> MCCapabilities, constrained |-> {},
     forbidden |-> {}, scopes |-> scopes, constrainedScopes |-> {},
     forbiddenScopes |-> {}, policy |-> policy]
MCGoalVersions == {GoalVersion({}, "none"),
                   GoalVersion({"public_web"}, "all_actions")}

MCReports == {[blocked |-> FALSE, waiting |-> FALSE, tasksDone |-> FALSE,
               conditionsMet |-> TRUE]}

MCInit ==
    /\ PlanInit /\ RadarInit /\ BridgeInit /\ ShellInit
    /\ focus \in Parts
    /\ focus = "plans" \/ goal = GoalVersion({}, "none")
    /\ focus = "bridge" \/ stored = [auto |-> FALSE, token |-> 0]
    /\ focus \in {"poll", "panel"} \/ (kernel = "up" /\ saved = "none")
MCNext ==
    /\ UNCHANGED focus
    /\ focus # "plans" => UNCHANGED planVars
    /\ focus # "radar" => UNCHANGED radarVars
    /\ focus # "bridge" => UNCHANGED bridgeVars
    /\ focus \notin {"poll", "panel"} => UNCHANGED shellVars
    /\ \/ focus = "plans" /\ PlanNext
       \/ focus = "radar" /\ RadarNext
       \/ focus = "bridge" /\ BridgeNext
       \/ focus = "poll" /\ PollNext
       \/ focus = "panel" /\ PanelNext
       \/ focus \in {"poll", "panel"} /\ ConnectionNext

\* Calls, pages, jobs, ports and Cases are interchangeable, and named alike here.
Symmetry == Permutations(Calls)

MCSpec == MCInit /\ [][MCNext]_mcVars
=============================================================================
