---------------------------- MODULE HermesSearch ----------------------------
(***************************************************************************)
(* One attempt of the Hermes adapter (scripts/hermes-efesto-adapter.mjs)   *)
(* up to what the Kernel makes of its answer (agent-mission-executor.mjs): *)
(* the adapter plans queries from the Goal's words, runs them side by side *)
(* with a fallback source, lets a model select from the results, filters   *)
(* and counts what it drops, and submits findings with a telemetry record  *)
(* that the Kernel validates as a whole.                                   *)
(*                                                                         *)
(* The model runs as a child process in a home of its own, into which      *)
(* credentials are copied and from which they are wiped; the worker may    *)
(* kill the adapter at any moment.                                         *)
(*                                                                         *)
(* A URL is a record of what the checks on both sides tell apart: key is   *)
(* what comparableUrl keeps, form what the syntax and host checks say.  A  *)
(* finding is the URL the model chose; dated is FALSE when the discoveredAt *)
(* it wrote beside it is no date, which only the Kernel looks at.          *)
(***************************************************************************)
EXTENDS Naturals, Sequences, FiniteSets, SequencesExt

CONSTANTS
    ClaimedMissions,\* the Missions: [title, keywords, acronyms, location, known]
    Fillers,        \* GOAL_STOPWORDS
    HitLists,       \* what a search may answer
    Replies,        \* what the model may answer
    CredentialFiles,\* HERMES_CREDENTIAL_FILES
    UrlKeys,        \* what comparableUrl keeps of the URLs
    UrlHosts,       \* their hosts, without "www."
    MaxCoreTerms, MaxQueryTerms, MaxSearches, MaxReturned, MaxFindings, MaxPerHost  \* the adapter's limits

UrlForms == {"page", "debris", "broken", "ad", "private", "credentials"}
WebUrl == [key : UrlKeys, host : UrlHosts, form : UrlForms, dated : BOOLEAN]

ASSUME FilesAreFiles == CredentialFiles \cap {"no home", "home", "config", "routed config"} = {}

ASSUME SearchLimits ==
    /\ {MaxCoreTerms, MaxQueryTerms, MaxSearches, MaxReturned, MaxFindings, MaxPerHost} \subseteq Nat
    /\ \A hits \in HitLists : hits \in Seq(WebUrl)
    /\ \A reply \in Replies :
        /\ reply.kind = "urls" => reply.urls \in Seq(WebUrl)
        /\ reply.kind = "numbers" => reply.numbers \in Seq(Nat)

\* A private host and a sensitive query are in the part of a URL that comparableUrl keeps
\* (all but a www. before a name like localhost, which no public search answers with).
ASSUME PrivacyIsInTheKey ==
    \A reply \in Replies : reply.kind = "urls" =>
        \A i \in DOMAIN reply.urls : reply.urls[i].form = "private" =>
            \A hits \in HitLists : \A j \in DOMAIN hits :
                hits[j].key = reply.urls[i].key => hits[j].form # "page"

VARIABLES
    step,       \* where the adapter is
    mission,    \* the claimed Mission
    backend,    \* selectionBackend: "hermes" or "ollama"
    hasFallback,\* HEPHAESTUS_SEARCH_FALLBACK is not off
    plannedQueries,
    queryOutcomes,   \* per query: waiting for the primary or the fallback source, or its answer
    home,       \* files in the isolated home; NoHome when there is none
    toSeed,     \* credential files still to be copied
    undeleted,  \* what the clean-up could not delete: copied files, and "home" when rm threw
    answer,     \* what the adapter has decided: findings and funnel, or a failure
    kernel      \* what the Kernel recorded: candidates and telemetry

searchVars == <<step, mission, backend, hasFallback, plannedQueries, queryOutcomes, home, toSeed, undeleted, answer, kernel>>

NoHome == {"no home"}
Failed == [ok |-> FALSE]
Unsent == [state |-> "none"]

-----------------------------------------------------------------------------
(* Planning: the Goal's own words.                                         *)

\* The terms so far, with an acronym inserted after the word that precedes it in the title.
insertGoalAcronyms(terms, m) ==
    FoldLeft(LAMBDA ts, i :
        LET word == m.title[i]
            before == {j \in DOMAIN ts : \E k \in 1..(i - 1) : m.title[k] = ts[j]
                          /\ \A l \in (k + 1)..(i - 1) : ~Contains(ts, m.title[l])}
            at == IF before = {} THEN 0 ELSE CHOOSE j \in before : TRUE
        IN IF word \in m.acronyms /\ ~Contains(ts, word) /\ Len(ts) < MaxCoreTerms
           THEN SubSeq(ts, 1, at) \o <<word>> \o SubSeq(ts, at + 1, Len(ts)) ELSE ts,
        terms, [i \in DOMAIN m.title |-> i])

goalCoreTerms(m) ==
    LET kept == FoldLeft(LAMBDA ts, w : IF w \in Fillers \/ Contains(ts, w) \/ Len(ts) = MaxCoreTerms
                                        THEN ts ELSE Append(ts, w), <<>>, m.keywords)
    IN insertGoalAcronyms(kept, m)

\* The entries of a list at some of its places, in their order.
EntriesAt(s, places) ==
    [n \in 1..Cardinality(places) |-> s[CHOOSE i \in places : Cardinality(places \cap 1..i) = n]]

Capped(s, n) == SubSeq(s, 1, IF Len(s) < n THEN Len(s) ELSE n)
Unique(s) == EntriesAt(s, {i \in DOMAIN s : \A j \in 1..(i - 1) : s[j] # s[i]})
Present(s) == EntriesAt(s, {i \in DOMAIN s : s[i] # <<>>})
NothingTwice(s) == \A i, j \in DOMAIN s : s[i] = s[j] => i = j

\* A query is the sequence of its words.
planSearchQueries(m) ==
    LET terms == Capped(goalCoreTerms(m), MaxQueryTerms)
        base == IF terms = <<>> THEN m.title ELSE terms
        If(s) == IF Len(terms) >= 3 THEN s ELSE <<>>
        variants == IF m.location # "none" /\ ~Contains(base, m.location)
                    THEN <<base, Append(base, m.location), If(Append(Tail(terms), m.location))>>
                    ELSE <<base, If(Tail(terms)), If(Front(terms))>>
    IN IF base = <<>> THEN <<>> ELSE Capped(Unique(Present(variants)), MaxSearches)

-----------------------------------------------------------------------------
(* URLs, on both sides.                                                    *)

isWellFormedWebUrl(u) == u.form \notin {"debris", "broken"}
isAdRedirect(u) == u.form = "ad"
isPrivate(u) == u.form \in {"private", "credentials"}   \* private host or sensitive query key; user and password
\* Markdown debris points at one page; a broken URL at none.
Recoverable(u) == u.form # "broken"
recoverWebUrl(u) == IF u.form = "debris" THEN [u EXCEPT !.form = "page"] ELSE u

displayableResults(hits) ==
    Unique(EntriesAt(hits, {i \in DOMAIN hits : isWellFormedWebUrl(hits[i]) /\ ~isPrivate(hits[i])}))

\* The list the model selects from: in the order of the plan, one entry per comparable URL.
searchResults ==
    LET all == FlattenSeq([i \in DOMAIN queryOutcomes |-> queryOutcomes[i].hits])
        eligible == {i \in DOMAIN all : isWellFormedWebUrl(all[i]) /\ ~isAdRedirect(all[i])}
    IN EntriesAt(all, {i \in eligible : \A j \in eligible : all[j].key = all[i].key => i <= j})

-----------------------------------------------------------------------------
(* The model's reply and the funnel.                                       *)

Selected(fs, returned, malformed) ==
    [ok |-> TRUE, findings |-> fs, funnel |-> [returned |-> returned, malformed_url |-> malformed,
                                               duplicate |-> 0, per_domain_cap |-> 0, other |-> 0]]

\* A reply is JSON, JSON with a stray escape or comma, which is repaired, or prose with URLs in it.
repairHermesJson(text) == IF text = "repairable" THEN "json" ELSE text
\* Of prose only the URLs are read, and no dates.
extractLiteralWebUrls(urls) == Unique([i \in DOMAIN urls |-> [urls[i] EXCEPT !.dated = TRUE]])

\* Unrecoverable URLs are dropped and counted, debris is repaired; too many findings fail it all.
parseHermesFindingsWithFunnel(text, urls) ==
    LET found == IF repairHermesJson(text) = "json" THEN urls ELSE extractLiteralWebUrls(urls)
        usable == EntriesAt(found, {i \in DOMAIN found : Recoverable(found[i])})
    IN IF Len(found) > MaxReturned \/ (text = "prose" /\ found = <<>>) THEN Failed
       ELSE Selected([i \in DOMAIN usable |-> recoverWebUrl(usable[i])], Len(found), Len(found) - Len(usable))

\* Numbers outside the list are ignored, repeated ones count once.
findingsFromResultRefs(ns) ==
    LET read == IF backend = "ollama" THEN Capped(ns, MaxReturned) ELSE ns
        hits == Capped(Unique(EntriesAt(read, {i \in DOMAIN read : read[i] \in DOMAIN searchResults})), MaxReturned)
    IN [i \in DOMAIN hits |-> searchResults[hits[i]]]

parseSelectionOutput(reply) ==
    CASE reply.kind = "urls" -> parseHermesFindingsWithFunnel(reply.text, reply.urls)
      [] reply.kind = "numbers" /\ (findingsFromResultRefs(reply.numbers) # <<>> \/ backend = "ollama") ->
            parseHermesFindingsWithFunnel("json", findingsFromResultRefs(reply.numbers))
      [] OTHER -> Failed

Drop(a, fs, reason) == [a EXCEPT !.findings = fs, !.funnel[reason] = @ + (Len(a.findings) - Len(fs))]

Listed(u) == \E i \in DOMAIN searchResults : searchResults[i].key = u.key
keepListedFindings(a) ==
    Drop(a, EntriesAt(a.findings, {i \in DOMAIN a.findings : Listed(a.findings[i])}), "other")
dropKnownFindings(a) ==
    Drop(a, EntriesAt(a.findings, {i \in DOMAIN a.findings : a.findings[i].key \notin mission.known}), "duplicate")

\* Whether the finding at place i is taken after those at the places kept, and if not, why.
Full(kept) == Cardinality(kept) >= MaxFindings
SameUrl(a, b) == a.key = b.key /\ a.host = b.host /\ a.form = b.form
Seen(fs, kept, i) == \E k \in kept : SameUrl(fs[k], fs[i])
Crowded(fs, kept, i) == Cardinality({k \in kept : fs[k].host = fs[i].host}) >= MaxPerHost

\* The places of the findings taken: in the reply's order, each once, few of a host and few in all.
keptPlaces(fs) ==
    LET kept[n \in 0..Len(fs)] ==
            IF n = 0 THEN {}
            ELSE IF Full(kept[n - 1]) \/ Seen(fs, kept[n - 1], n) \/ Crowded(fs, kept[n - 1], n)
                 THEN kept[n - 1] ELSE kept[n - 1] \cup {n}
    IN kept[Len(fs)]

diversifyFindings(a) ==
    LET fs == a.findings
        kept == keptPlaces(fs)
        dropped == DOMAIN fs \ kept
        late == {i \in dropped : Full(kept \cap 1..i)}
        twice == {i \in dropped \ late : Seen(fs, kept \cap 1..i, i)}
    IN [a EXCEPT !.findings = EntriesAt(fs, kept),
                 !.funnel.other = @ + Cardinality(late),
                 !.funnel.duplicate = @ + Cardinality(twice),
                 !.funnel.per_domain_cap = @ + Cardinality((dropped \ late) \ twice)]

finalize(a) == IF a.ok THEN diversifyFindings(dropKnownFindings(keepListedFindings(a))) ELSE a

-----------------------------------------------------------------------------
(* The adapter.                                                            *)

SearchInit ==
    /\ step = "idle" /\ mission \in ClaimedMissions /\ backend \in {"hermes", "ollama"}
    /\ hasFallback \in BOOLEAN
    /\ plannedQueries = <<>> /\ queryOutcomes = <<>> /\ home = NoHome /\ toSeed = {} /\ undeleted = {}
    /\ answer = Failed /\ kernel = Unsent

\* runHermesOneShot up to the searches; a Goal without words fails at once.
PlanSearches ==
    /\ step = "idle"
    /\ plannedQueries' = planSearchQueries(mission)
    /\ queryOutcomes' = [i \in DOMAIN plannedQueries' |-> [state |-> "primary", ok |-> FALSE, hits |-> <<>>]]
    /\ step' = IF plannedQueries' = <<>> THEN "failed" ELSE "searching"
    /\ UNCHANGED <<mission, backend, hasFallback, home, toSeed, undeleted, answer, kernel>>

\* resolveSearchWorker finds no Python next to Hermes: the adapter fails closed.
NoSearchWorker ==
    /\ step = "idle" /\ planSearchQueries(mission) # <<>> /\ step' = "failed"
    /\ UNCHANGED <<mission, backend, hasFallback, plannedQueries, queryOutcomes, home, toSeed, undeleted, answer, kernel>>

Settles(i, ok, hits) ==
    /\ queryOutcomes' = [queryOutcomes EXCEPT ![i] = [state |-> "done", ok |-> ok, hits |-> hits]]
    /\ UNCHANGED <<step, mission, backend, hasFallback, plannedQueries, home, toSeed, undeleted, answer, kernel>>

\* The search worker answers; an empty answer goes to the fallback source when there is one.
SearchAnswers(i, hits) ==
    /\ queryOutcomes[i].state = "primary" /\ (hits # <<>> \/ ~hasFallback)
    /\ Settles(i, TRUE, hits)
\* The worker fails, overruns its output or its time, or answers nothing.
SearchFallsBack(i, ok) ==
    /\ queryOutcomes[i].state = "primary" /\ hasFallback
    /\ queryOutcomes' = [queryOutcomes EXCEPT ![i] = [state |-> "fallback", ok |-> ok, hits |-> <<>>]]
    /\ UNCHANGED <<step, mission, backend, hasFallback, plannedQueries, home, toSeed, undeleted, answer, kernel>>
QueryFails(i) == queryOutcomes[i].state = "primary" /\ ~hasFallback /\ Settles(i, FALSE, <<>>)
\* The fallback's results count when there are any, else the primary answer stands.
FallbackAnswers(i, hits) ==
    /\ queryOutcomes[i].state = "fallback"
    /\ Settles(i, hits # <<>> \/ queryOutcomes[i].ok, hits)
FallbackFails(i) == queryOutcomes[i].state = "fallback" /\ Settles(i, queryOutcomes[i].ok, <<>>)

\* Mutant: a search without an answer is waited for.
SearchesDone_allAnswered ==
    /\ step = "searching" /\ \A i \in DOMAIN queryOutcomes : queryOutcomes[i].state = "done" /\ queryOutcomes[i].ok
    /\ step' = IF searchResults = <<>> THEN "submitting" ELSE "selecting"
    /\ answer' = Selected(<<>>, 0, 0)
    /\ UNCHANGED <<mission, backend, hasFallback, plannedQueries, queryOutcomes, home, toSeed, undeleted, kernel>>

\* All searches have settled: nothing to choose from needs no model.
SearchesDone ==
    /\ step = "searching" /\ \A i \in DOMAIN queryOutcomes : queryOutcomes[i].state = "done"
    /\ CASE searchResults = <<>> -> /\ step' = "submitting" /\ answer' = Selected(<<>>, 0, 0)
                              /\ UNCHANGED <<home, toSeed>>
         [] searchResults # <<>> /\ backend = "ollama" -> step' = "selecting" /\ UNCHANGED <<home, toSeed, answer>>
         [] OTHER -> step' = "preparing" /\ home' = {} /\ UNCHANGED <<toSeed, answer>>
    /\ UNCHANGED <<mission, backend, hasFallback, plannedQueries, queryOutcomes, undeleted, kernel>>

\* buildHermesArgs refuses the provider or model name, before the try: the empty home stays.
RouteRefused ==
    /\ step = "preparing" /\ step' = "failed"
    /\ UNCHANGED <<mission, backend, hasFallback, plannedQueries, queryOutcomes, home, toSeed, undeleted, answer, kernel>>

\* resolveSourceHermesHome: nothing is copied when there is no home to copy from.
FilesToCopy(sourceHome) == IF sourceHome THEN CredentialFiles ELSE {}

\* prepareHermesHome writes the configuration, with a model route when the environment names one.
PrepareHome(routed, sourceHome) ==
    /\ step = "preparing" /\ step' = "seeding"
    /\ home' = {IF routed THEN "routed config" ELSE "config"}
    /\ toSeed' = FilesToCopy(sourceHome)
    /\ UNCHANGED <<mission, backend, hasFallback, plannedQueries, queryOutcomes, undeleted, answer, kernel>>

\* seedIsolatedHermesCredentials, one file at a time: copied or absent.
SeedFile(f) ==
    /\ step = "seeding" /\ f \in toSeed /\ toSeed' = toSeed \ {f}
    /\ home' = home \cup {f}
    /\ UNCHANGED <<step, mission, backend, hasFallback, plannedQueries, queryOutcomes, undeleted, answer, kernel>>
SeedSkips(f) ==
    /\ step = "seeding" /\ f \in toSeed /\ toSeed' = toSeed \ {f}
    /\ UNCHANGED <<step, mission, backend, hasFallback, plannedQueries, queryOutcomes, home, undeleted, answer, kernel>>

\* The source's model route is taken over only where the isolated configuration names none.
applySourceHermesModelRoute(files, sourceRouted) ==
    IF sourceRouted /\ "config" \in files THEN (files \ {"config"}) \cup {"routed config"} ELSE files

\* buildHermesEnvironment and the start of the process.
Spawn(sourceRouted) ==
    /\ step = "seeding" /\ toSeed = {} /\ step' = "selecting"
    /\ home' = applySourceHermesModelRoute(home, sourceRouted)
    /\ UNCHANGED <<mission, backend, hasFallback, plannedQueries, queryOutcomes, toSeed, undeleted, answer, kernel>>

\* Any other error on the way to the process: an unwritable home, an unreadable source, a bad token limit.
PreparationFails ==
    /\ step \in {"preparing", "seeding"} /\ step' = "cleaning" /\ answer' = Failed
    /\ UNCHANGED <<mission, backend, hasFallback, plannedQueries, queryOutcomes, home, toSeed, undeleted, kernel>>

AfterModel(a) ==
    /\ answer' = finalize(a)
    /\ step' = IF backend = "hermes" THEN "cleaning" ELSE IF a.ok THEN "submitting" ELSE "failed"
    /\ UNCHANGED <<mission, backend, hasFallback, plannedQueries, queryOutcomes, home, toSeed, undeleted, kernel>>

\* What the debug log in the home holds: only a readable record of a search counts as one.
Logs == {"no calls", "web_search", "unreadable"}
collectHermesSearchTelemetry(log) == log = "web_search"

\* The process closes; after a nonzero exit only an answer with findings is salvaged.
ModelAnswers(reply, code, log) ==
    /\ step = "selecting"
    /\ backend = "ollama" => code = 0 /\ log = "no calls"
    /\ LET a == parseSelectionOutput(reply)
       IN AfterModel(IF collectHermesSearchTelemetry(log) \/ (code # 0 /\ (~a.ok \/ a.findings = <<>>))
                     THEN Failed ELSE a)

\* The timer asks the process to stop; whatever it still prints, the attempt fails when it closes.
TimerFires ==
    /\ step = "selecting"
    /\ IF backend = "hermes"
       THEN /\ step' = "stopping"
            /\ UNCHANGED <<mission, backend, hasFallback, plannedQueries, queryOutcomes, home, toSeed, undeleted, answer, kernel>>
       ELSE AfterModel(Failed)
ProcessCloses == step = "stopping" /\ AfterModel(Failed)

\* finally: wipeCopiedHermesCredentials deletes the copied files and goes on past those it cannot
\* delete (kept); then rm removes the home, or throws after its retries and leaves part of it,
\* and the attempt fails whatever it had to answer.
CleanUp(kept, left) ==
    /\ step = "cleaning"
    /\ kept \subseteq home \cap CredentialFiles
    /\ left = NoHome \/ left \subseteq (home \ CredentialFiles) \cup kept
    /\ home' = left /\ toSeed' = {}
    /\ undeleted' = kept \cup (IF left = NoHome THEN {} ELSE {"home"})
    /\ step' = IF left = NoHome /\ answer.ok THEN "submitting" ELSE "failed"
    /\ UNCHANGED <<mission, backend, hasFallback, plannedQueries, queryOutcomes, answer, kernel>>
CleansUp == \E kept \in SUBSET CredentialFiles, left \in (SUBSET home) \cup {NoHome} : CleanUp(kept, left)

\* The worker's own timer kills the adapter.
KilledByWorker ==
    /\ step \notin {"idle", "submitting", "submitted", "failed", "killed"}
    /\ step' = "killed"
    /\ UNCHANGED <<mission, backend, hasFallback, plannedQueries, queryOutcomes, home, toSeed, undeleted, answer, kernel>>

-----------------------------------------------------------------------------
(* The Kernel's side of the submission.                                    *)

\* One finding with a private, sensitive or malformed URL, or a date that is none, refuses the whole batch.
normalizeCandidates(fs) == \A i \in DOMAIN fs : isWellFormedWebUrl(fs[i]) /\ ~isPrivate(fs[i]) /\ fs[i].dated

normalizeFunnel(funnel, submitted) ==
    funnel.malformed_url + funnel.duplicate + funnel.per_domain_cap + funnel.other + submitted = funnel.returned

\* The whole telemetry record is kept or dropped.
normalizeSearchTelemetry(submitted) ==
    /\ NothingTwice(plannedQueries)
    /\ \A i \in DOMAIN queryOutcomes :
        LET shown == displayableResults(queryOutcomes[i].hits)
        IN /\ Len(shown) <= Len(queryOutcomes[i].hits) /\ NothingTwice(shown)
           /\ \A j \in DOMAIN shown : isWellFormedWebUrl(shown[j]) /\ ~isPrivate(shown[j])
    /\ normalizeFunnel(answer.funnel, submitted)

SubmitFindings ==
    /\ step = "submitting"
    /\ IF normalizeCandidates(answer.findings)
       THEN /\ step' = "submitted"
            /\ kernel' = [state |-> IF answer.findings = <<>> THEN "completed" ELSE "verifying",
                          candidates |-> ToSet(answer.findings),
                          telemetry |-> normalizeSearchTelemetry(Len(answer.findings))]
       ELSE step' = "failed" /\ kernel' = [state |-> "refused"]
    /\ UNCHANGED <<mission, backend, hasFallback, plannedQueries, queryOutcomes, home, toSeed, undeleted, answer>>

SearchNext ==
    \/ PlanSearches
    \/ NoSearchWorker
    \/ \E i \in DOMAIN queryOutcomes :
        \/ \E hits \in HitLists : SearchAnswers(i, hits) \/ FallbackAnswers(i, hits)
        \/ \E ok \in BOOLEAN : SearchFallsBack(i, ok)
        \/ QueryFails(i)
        \/ FallbackFails(i)
    \/ SearchesDone
    \/ RouteRefused
    \/ \E routed, sourceHome \in BOOLEAN : PrepareHome(routed, sourceHome)
    \/ \E f \in CredentialFiles : SeedFile(f) \/ SeedSkips(f)
    \/ \E sourceRouted \in BOOLEAN : Spawn(sourceRouted)
    \/ PreparationFails
    \/ \E reply \in Replies, code \in {0, 1}, log \in Logs : ModelAnswers(reply, code, log)
    \/ TimerFires
    \/ ProcessCloses
    \/ CleansUp
    \/ KilledByWorker
    \/ SubmitFindings

\* Timers fire, a killed process closes, and the adapter's own code runs.
SearchFairness ==
    /\ WF_searchVars(PlanSearches) /\ WF_searchVars(SearchesDone)
    /\ WF_searchVars(\E routed, sourceHome \in BOOLEAN : PrepareHome(routed, sourceHome))
    /\ WF_searchVars(\E sourceRouted \in BOOLEAN : Spawn(sourceRouted))
    /\ WF_searchVars(\E i \in DOMAIN queryOutcomes : QueryFails(i) \/ SearchFallsBack(i, FALSE))
    /\ WF_searchVars(\E i \in DOMAIN queryOutcomes : FallbackFails(i))
    /\ WF_searchVars(\E f \in CredentialFiles : SeedSkips(f))
    /\ WF_searchVars(TimerFires) /\ WF_searchVars(ProcessCloses)
    /\ WF_searchVars(CleansUp) /\ WF_searchVars(SubmitFindings)
SearchSpec == SearchInit /\ [][SearchNext]_searchVars /\ SearchFairness

-----------------------------------------------------------------------------

(* The two sides agree: every batch the Kernel takes comes with telemetry  *)
(* it keeps, so the counts of what was dropped on the way add up through   *)
(* all four filters, and the plan it shows has no query twice.             *)
TelemetryIsKept == step = "submitted" => kernel.telemetry

(* What reaches the Kernel was found: every candidate is a result of a     *)
(* search of this attempt, new to the Mission, no advertisement, and not   *)
(* more per domain and in all than the limits say.                         *)
CandidatesWereFound ==
    step = "submitted" =>
        /\ \A u \in kernel.candidates :
            /\ \E i \in DOMAIN queryOutcomes : \E j \in DOMAIN queryOutcomes[i].hits :
                queryOutcomes[i].hits[j].key = u.key /\ ~isAdRedirect(queryOutcomes[i].hits[j])
            /\ u.key \notin mission.known
            /\ Cardinality({v \in kernel.candidates : v.host = u.host}) <= MaxPerHost
        /\ Cardinality(kernel.candidates) <= MaxFindings

(* A model sinks a batch in two ways only: by writing a user or password   *)
(* into a URL, which the comparison with the results does not see, and by  *)
(* writing a discoveredAt that is no date, which the adapter lets through; *)
(* else the Kernel refuses one only for a page that was itself found under *)
(* such a URL or a private or sensitive one.                               *)
RefusedOnlyForPrivate ==
    kernel.state = "refused" =>
        \/ \E i \in DOMAIN searchResults : isPrivate(searchResults[i])
        \/ \E i \in DOMAIN answer.findings : answer.findings[i].form = "credentials" \/ ~answer.findings[i].dated

(* An adapter that ends by itself, however it ends, leaves no home with    *)
(* anything in it behind, unless the file system refused to remove it: a   *)
(* copied credential is left only when both its own deletion and that of   *)
(* the home failed, and then nothing is submitted.                         *)
NoCredentialsLeft ==
    step \in {"submitting", "submitted", "failed"} =>
        /\ home = NoHome \/ (home = {} /\ ~answer.ok) \/ "home" \in undeleted
        /\ home \cap CredentialFiles \subseteq undeleted
        /\ step # "failed" => home = NoHome

(* An attempt ends: no silent search, no hanging model and no process that *)
(* ignores its signal keeps the Mission's lease busy for ever.             *)
AttemptEnds == step # "idle" ~> step \in {"submitted", "failed", "killed"}

(* An attempt is honest to the Kernel and leaves nothing behind: what it   *)
(* submits was found and is counted, the Kernel refuses it for such a URL  *)
(* or date only, its credentials are gone, and it ends.                    *)
AttemptIsHonest == TelemetryIsKept /\ CandidatesWereFound /\ RefusedOnlyForPrivate /\ NoCredentialsLeft
SearchIsHonest == []AttemptIsHonest /\ AttemptEnds
=============================================================================
