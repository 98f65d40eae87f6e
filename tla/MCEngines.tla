------------------------------ MODULE MCEngines ------------------------------
(* The engines: Mission tasks, a research lifecycle, the resolution of a Goal
   in web mode, the graph of a proposed plan, the managers of Cases, Evidence
   and entities, the Hermes adapter's search and the reader of public pages.
   They share no state here: `focus` picks, in the initial state, which one
   runs, so that one run of TLC explores each without their product. *)
EXTENDS MissionTasks, ResearchRun, GoalResolution, PlanGraph, KnowledgeBase,
        HermesSearch, WebReading

CONSTANTS
    Parts,         \* the ones a run explores
    k1, k2, k3,    \* task keys
    need           \* an evidence requirement

VARIABLE focus
mcVars == <<taskVars, researchVars, goalVars, planGraphVars, knowledgeVars,
            searchVars, webVars, focus>>

MCDraftTasks ==
    [key: {k1, k2, k3}, dependsOn: SUBSET {k1, k2, k3}, required: {{need}}, optional: {{}}]
    \cup {[key |-> k1, dependsOn |-> {}, required |-> {need}, optional |-> {need}],
          [key |-> k3, dependsOn |-> {k1, k2}, required |-> {}, optional |-> {need}],
          [key |-> k2, dependsOn |-> {}, required |-> {}, optional |-> {}]}

MCTexts ==
    {h \cup s \cup f \cup m \cup k :
        h \in {{}, {"20 horas"}, {"40 horas"}, {"media jornada"}}, s \in {{}, {"600 euros"}},
        f \in {{}, {"al mes"}, {"por semana"}, {"por hora", "al mes"}}, m \in {{}, {"remoto"}},
        k \in {{}, {"tiempo parcial"}, {"tiempo completo"}, {"freelance"},
               {"contrato", "freelance"}, {"contrato"}}}
MCPages == {{"20", "horas", "600", "eur"}, {"600", "eur", "monthly", "freelance"}}

\* Search hits: pages of four hosts, an advertisement, a broken and a private URL, one with a password.
U(k, h, f) == [key |-> k, host |-> h, form |-> f, dated |-> TRUE]
Undated(u) == [u EXCEPT !.dated = FALSE]
MCHits ==
    {<<>>, <<U(1, "x", "page"), U(2, "x", "page")>>,
     <<U(3, "y", "page"), U(4, "y", "ad"), U(5, "x", "broken")>>,
     <<U(6, "z", "private"), U(7, "w", "credentials"), U(1, "x", "page")>>,
     <<U(1, "x", "page"), U(1, "x", "page")>>}
MCReplies ==
    {[kind |-> "text"],
     [kind |-> "urls", text |-> "prose", urls |-> <<U(1, "x", "page"), U(1, "x", "page"), U(5, "x", "broken"), U(2, "x", "page"), U(3, "y", "debris")>>],
     [kind |-> "urls", text |-> "json", urls |-> <<U(1, "x", "page"), U(1, "x", "page"), U(1, "x", "page"), U(2, "x", "page"), U(3, "y", "page")>>],
     [kind |-> "urls", text |-> "json", urls |-> <<>>],
     [kind |-> "urls", text |-> "json", urls |-> <<U(1, "x", "page"), U(1, "x", "page"), U(2, "x", "page")>>],
     [kind |-> "urls", text |-> "json", urls |-> <<U(1, "x", "debris"), U(5, "x", "broken"), U(3, "y", "page"), U(9, "w", "page")>>],
     [kind |-> "urls", text |-> "repairable", urls |-> <<U(4, "y", "ad"), U(6, "z", "private"), U(3, "y", "debris")>>],
     [kind |-> "urls", text |-> "json", urls |-> <<U(1, "x", "page"), U(2, "x", "page"), U(3, "y", "page"), U(7, "w", "page")>>],
     [kind |-> "urls", text |-> "json", urls |-> <<U(3, "y", "page"), U(1, "x", "credentials")>>],
     [kind |-> "urls", text |-> "json", urls |-> <<U(1, "x", "page"), Undated(U(1, "x", "page")), U(3, "y", "page")>>],
     [kind |-> "urls", text |-> "json", urls |-> <<U(3, "y", "page"), Undated(U(1, "x", "page"))>>],
     [kind |-> "urls", text |-> "prose", urls |-> <<Undated(U(1, "x", "page")), U(3, "y", "page")>>],
     [kind |-> "numbers", numbers |-> <<2, 1, 2, 9>>], [kind |-> "numbers", numbers |-> <<7>>]}
MCMissions ==
    {[title |-> <<"jobs", "IA", "madrid">>, keywords |-> <<"jobs", "madrid">>, acronyms |-> {"IA"},
      location |-> "none", known |-> {2}],
     [title |-> <<"de">>, keywords |-> <<"de">>, acronyms |-> {}, location |-> "madrid", known |-> {}],
     [title |-> <<>>, keywords |-> <<>>, acronyms |-> {}, location |-> "none", known |-> {}]}

\* Result pages, redirect targets and lookups: public, private and mixed answers.
W(s, h, k) == [scheme |-> s, host |-> h, kind |-> k]
Link(target, titled) == [url |-> target, wrapped |-> FALSE, inner |-> NoUrl, titled |-> titled]
MCResultPages ==
    {<<>>,
     <<Link(W("web", "a", "name"), TRUE), Link(W("web", "a", "name"), TRUE), Link(W("web", "lit", "literal"), TRUE)>>,
     <<[url |-> W("web", "ddg", "name"), wrapped |-> TRUE, inner |-> W("user", "b", "name"), titled |-> TRUE],
       Link(W("web", "b", "name"), FALSE), Link(W("other", "c", "name"), TRUE), Link(W("web", "a", "name"), TRUE)>>}
MCTargets == {W("web", "b", "name"), W("web", "lit", "literal"), W("other", "f", "name"), W("web", "me", "localhost")}
V(n1, n2) == [form |-> "v4", quad |-> <<n1, n2, 7>>]
MCLookups ==
    {{}, {V(93, 184)}, {V(93, 184), V(10, 0)}, {[form |-> "mapped", quad |-> <<127, 0, 0>>]},
     {[form |-> "v6", quad |-> <<0, 0, 0>>]}, {[form |-> "local6", quad |-> <<0, 0, 0>>]}}
MCLiteralOf == [h \in {"lit"} |-> [form |-> "nat64", quad |-> <<8, 8, 8>>]]

MCInit ==
    /\ TasksInit /\ ResearchInit /\ GoalInit /\ PlanGraphInit /\ KnowledgeInit
    /\ SearchInit /\ WebInit
    /\ focus \in Parts
    /\ focus = "research" \/ tools = 0
    /\ focus = "goal" \/ text = {}
    /\ focus = "search" \/ (mission.title = <<>> /\ backend = "ollama" /\ hasFallback)
MCNext ==
    /\ UNCHANGED focus
    /\ focus # "tasks" => UNCHANGED taskVars
    /\ focus # "research" => UNCHANGED researchVars
    /\ focus # "goal" => UNCHANGED goalVars
    /\ focus # "graph" => UNCHANGED planGraphVars
    /\ focus # "knowledge" => UNCHANGED knowledgeVars
    /\ focus # "search" => UNCHANGED searchVars
    /\ focus # "web" => UNCHANGED webVars
    /\ \/ focus = "tasks" /\ TasksNext
       \/ focus = "research" /\ ResearchNext
       \/ focus = "goal" /\ GoalNext
       \/ focus = "graph" /\ PlanGraphNext
       \/ focus = "knowledge" /\ KnowledgeNext
       \/ focus = "search" /\ SearchNext
       \/ focus = "web" /\ WebNext
\* ResearchFairness, SearchFairness and WebFairness, for the one that runs.
MCFairness ==
    /\ WF_researchVars(focus = "research" /\ StartAttempt)
    /\ WF_researchVars(focus = "research" /\ TimesOut)
    /\ WF_searchVars(focus = "search" /\ SearchesDone)
    /\ WF_searchVars(focus = "search" /\ \E routed, sourceHome \in BOOLEAN : PrepareHome(routed, sourceHome))
    /\ WF_searchVars(focus = "search" /\ \E sourceRouted \in BOOLEAN : Spawn(sourceRouted))
    /\ WF_searchVars(focus = "search" /\ \E i \in DOMAIN queryOutcomes : QueryFails(i) \/ SearchFallsBack(i, FALSE))
    /\ WF_searchVars(focus = "search" /\ \E i \in DOMAIN queryOutcomes : FallbackFails(i))
    /\ WF_searchVars(focus = "search" /\ \E f \in CredentialFiles : SeedSkips(f))
    /\ WF_searchVars(focus = "search" /\ TimerFires)
    /\ WF_searchVars(focus = "search" /\ ProcessCloses)
    /\ WF_searchVars(focus = "search" /\ CleansUp)
    /\ WF_searchVars(focus = "search" /\ SubmitFindings)
    /\ WF_webVars(focus = "web" /\ ReadNext)
    /\ WF_webVars(focus = "web" /\ ReadsDone)
    /\ WF_webVars(focus = "web" /\ ((\E found1 \in Lookups : Lookup(found1))
                                    \/ (\E error \in {"dnsAgain", "dnsUnknown"} : LookupFails(error))))
    /\ WF_webVars(focus = "web" /\ ReadTimesOut)
    /\ WF_webVars(focus = "web" /\ AbortRead)
MCSpec == MCInit /\ [][MCNext]_mcVars /\ MCFairness
=============================================================================
