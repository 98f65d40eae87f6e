------------------------------ MODULE AutoRadar ------------------------------
(***************************************************************************)
(* The browser extension's page captures (apps/extension/src): the Auto    *)
(* Radar kept in the memory of the background service worker, the older    *)
(* capture that reads its settings from storage every time, and the popup, *)
(* which edits the same storage.  Every await is a step boundary; writes   *)
(* of chrome.storage.local take effect in the order they are issued.       *)
(*                                                                         *)
(* A page stands for its URL, its origin and its text: two pages have      *)
(* different origins and dissimilar texts.                                 *)
(***************************************************************************)
EXTENDS Naturals, FiniteSets

CONSTANTS
    Pages,
    Sensitive,          \* pages evaluateAutoCapture refuses whatever the list
    Jobs,               \* evaluations in flight
    StateMessages,      \* states an extension page may set by message
    MaxQueueRetry,
    MaxReady,           \* bound: page announcements
    MaxEdits,           \* bound: edits by the user (sites, pairing, toggles)
    MaxRestarts         \* bound: restarts of the service worker

VARIABLES
    radar,              \* the AutoRadar object in the worker's memory
    loading,            \* what loadState will install, FALSE when done
    store,              \* chrome.storage.local
    timer,              \* pages waiting for the debounce, at most one
    job,                \* job -> evaluation
    later,              \* pending timeouts that go back to observing
    manual,             \* captures of the older path in flight, at most one
    granted,            \* sites the user authorizes now, and ever authorized
    captured,           \* pages the Kernel received
    used                \* bounds: announcements, edits, restarts

radarVars == <<radar, loading, store, timer, job, later, manual, granted,
               captured, used>>

IdleJob == [at |-> "idle"]
Fresh == [enabled |-> FALSE, state |-> "paused", origins |-> {}, token |-> FALSE,
          seen |-> {}, unreadable |-> FALSE, queue |-> [p \in Pages |-> 0]]

----------------------------------------------------------------------------
(* State and storage.                                                      *)

\* saveState: the whole object replaces the settings in storage, the ones
\* the popup owns included.  The fuzzy history holds Sets, which storage
\* turns into empty objects.
Saved(r) ==
    [store EXCEPT !.enabled = r.enabled, !.state = r.state, !.origins = r.origins,
                  !.token = r.token, !.queue = r.queue,
                  !.prints = r.seen # {} \/ r.unreadable]

\* setState and setEnabled: memory, storage, badge.
SetRadar(r) == radar' = r /\ store' = Saved(r)
SetState(r, s) == SetRadar([r EXCEPT !.state = s])

\* loadState, when its read returns: everything but the exact history, which
\* it saves and does not ask for.
LoadState ==
    /\ loading.pending
    /\ loading' = [loading EXCEPT !.pending = FALSE]
    /\ radar' = [enabled |-> loading.read.enabled, state |-> loading.read.state,
                 origins |-> loading.read.origins, token |-> loading.read.token,
                 seen |-> radar.seen, unreadable |-> loading.read.prints,
                 queue |-> loading.read.queue]
    /\ UNCHANGED <<store, timer, job, later, manual, granted, captured, used>>

\* The browser stops the worker and a later event starts it again: timers,
\* evaluations and memory are gone, the constructor asks for the settings.
RestartWorker ==
    /\ used.restarts < MaxRestarts
    /\ used' = [used EXCEPT !.restarts = @ + 1]
    /\ radar' = Fresh
    /\ loading' = [pending |-> TRUE, read |-> store]
    /\ timer' = {}
    /\ job' = [j \in Jobs |-> IdleJob]
    /\ later' = 0
    /\ manual' = {}
    /\ UNCHANGED <<store, granted, captured>>

----------------------------------------------------------------------------
(* One evaluation.                                                         *)

\* runtimeMessageDecision: commands are taken from the extension's own pages,
\* the announcement of a page from its content script.
MessageAllowed(type, sender) ==
    sender = IF type = "ready" THEN "content script" ELSE "extension page"

\* isUrlAllowed: the site is on the list in memory.
UrlAllowed(p, origins) == p \in origins

\* An empty list means every site.
AllowedFailOpen(p, origins, last) ==
    (origins = {} \/ p \in origins) /\ p \notin Sensitive /\ p \notin last

\* evaluateAutoCapture: the site is on the list, nothing about the URL or the
\* page is sensitive, and the last capture is older than the cooldown.
Allowed(p, origins, last) == p \in origins /\ p \notin Sensitive /\ p \notin last

\* isDuplicate: exact keys, then the fuzzy history; a page that is new is
\* remembered at once.  A restored fuzzy entry has no `has`: the comparison
\* throws, and the page is neither a duplicate nor remembered.
IsDuplicate(p) ==
    [duplicate |-> p \in radar.seen,
     seen |-> IF radar.unreadable THEN radar.seen ELSE radar.seen \cup {p}]

\* listGoals: without a token, or with the Kernel asleep, it throws.
GoalsRead(token) == IF token THEN {"failed", "none", "some"} ELSE {"failed"}

\* scoreRelevance: nothing is relevant without Goals; with Goals, the words
\* of the page decide.
Relevance(goals) == IF goals = "some" THEN BOOLEAN ELSE {FALSE}

\* sendPageContext: stored and answered, or an exception.  Without a token
\* nothing is sent; a time-out may come after the Kernel has stored the page.
Sent(p, token) ==
    IF token THEN {[ok |-> TRUE, stored |-> {p}], [ok |-> FALSE, stored |-> {p}],
                   [ok |-> FALSE, stored |-> {}]}
    ELSE {[ok |-> FALSE, stored |-> {}]}

\* enqueueForRetry.
Enqueued(r, p) ==
    [r EXCEPT !.queue[p] = IF @ < MaxQueueRetry THEN @ + 1 ELSE @]

\* EFESTO_PUBLIC_PAGE_READY with the radar on: analyzePage restarts the
\* debounce.  Otherwise the older path reads the settings from storage.
PageReady(p, sender) ==
    /\ MessageAllowed("ready", sender)
    /\ used.ready < MaxReady
    /\ used' = [used EXCEPT !.ready = @ + 1]
    /\ \/ /\ radar.enabled /\ radar.state # "paused"
          /\ SetState(radar, "observing")
          /\ timer' = {p}
          /\ UNCHANGED manual
       \/ /\ ~ (radar.enabled /\ radar.state # "paused")
          /\ manual = {}
          /\ store.radarEnabled /\ store.token
          /\ manual' = {[page |-> p, origins |-> store.origins, last |-> store.last]}
          /\ UNCHANGED <<radar, store, timer>>
    /\ UNCHANGED <<loading, job, later, granted, captured>>

\* The debounce elapses: evaluatePage, up to the question to the page.
DebounceElapses(j, p) ==
    /\ p \in timer
    /\ job[j] = IdleJob
    /\ timer' = {}
    /\ SetState(radar, "evaluating")
    /\ job' = [job EXCEPT ![j] = [at |-> "capturing", page |-> p]]
    /\ UNCHANGED <<loading, later, manual, granted, captured, used>>

Ends(j) == job' = [job EXCEPT ![j] = IdleJob]

\* The page answers: refused by the policy, a duplicate, or the Goals are
\* asked for.
PageAnswers(j) ==
    LET p == job[j].page
        allowed == UrlAllowed(p, radar.origins) /\ Allowed(p, radar.origins, {})
        check == IsDuplicate(p)
    IN  /\ job[j].at = "capturing"
        /\ \/ /\ ~ allowed
              /\ SetState(radar, "blocked")
              /\ Ends(j) /\ later' = later + 1
           \/ /\ allowed /\ check.duplicate
              /\ SetState(radar, "duplicate")
              /\ Ends(j) /\ later' = later + 1
           \/ /\ allowed /\ ~ check.duplicate
              /\ radar' = [radar EXCEPT !.seen = check.seen]
              /\ job' = [job EXCEPT ![j].at = "matching"]
              /\ UNCHANGED <<store, later>>
        /\ UNCHANGED <<loading, timer, manual, granted, captured, used>>

\* The page does not answer (`ok` false), or the tab is gone and the call
\* throws.
PageFails(j) ==
    /\ job[j].at = "capturing"
    /\ Ends(j)
    /\ \/ SetState(radar, "failed") /\ UNCHANGED later
       \/ SetState(Enqueued(radar, job[j].page), "failed") /\ later' = later + 1
    /\ UNCHANGED <<loading, timer, manual, granted, captured, used>>

\* listGoals returns or throws; a relevant page is submitted.
GoalsAnswer(j) ==
    /\ job[j].at = "matching"
    /\ \E goals \in GoalsRead(radar.token) : \E relevant \in Relevance(goals) :
          \/ /\ relevant
             /\ SetState(radar, "submitting")
             /\ job' = [job EXCEPT ![j].at = "submitting"]
             /\ UNCHANGED later
          \/ /\ ~ relevant
             /\ SetState(radar, "irrelevant")
             /\ Ends(j) /\ later' = later + 1
    /\ UNCHANGED <<loading, timer, manual, granted, captured, used>>

\* sendPageContext returns or throws.
SendAnswers(j) ==
    /\ job[j].at = "submitting"
    /\ Ends(j) /\ later' = later + 1
    /\ \E sent \in Sent(job[j].page, radar.token) :
          /\ captured' = captured \cup sent.stored
          /\ SetState(IF sent.ok THEN radar ELSE Enqueued(radar, job[j].page),
                      IF sent.ok THEN "captured" ELSE "rejected")
    /\ UNCHANGED <<loading, timer, manual, granted, used>>

\* The timeouts set at the end of an evaluation.
BackToObserving ==
    /\ later > 0
    /\ later' = later - 1
    /\ SetState(radar, "observing")
    /\ UNCHANGED <<loading, timer, job, manual, granted, captured, used>>

\* processQueue, on the alarm: entries too old are removed and everything is
\* saved; the retry itself is left to the next visit.
ProcessQueue ==
    /\ radar.enabled /\ radar.state # "paused"
    /\ \E p \in Pages : radar.queue[p] > 0
    /\ \E old \in SUBSET Pages :
          SetRadar([radar EXCEPT !.queue =
              [p \in Pages |-> IF p \in old THEN 0 ELSE @[p]]])
    /\ UNCHANGED <<loading, timer, job, later, manual, granted, captured, used>>

\* rememberAutoCapture: the entries still within the cooldown, and this one.
Remembered(last, p) == {kept \cup {p} : kept \in SUBSET last}

\* autoCapture, after the page answered: the policy on the settings it read,
\* the cooldown, the upload, and the cooldown map written from that read.
ManualCapture ==
    \E m \in manual :
        /\ manual' = {}
        /\ \/ /\ Allowed(m.page, m.origins, m.last)
              /\ \E sent \in Sent(m.page, TRUE) :
                    /\ captured' = captured \cup sent.stored
                    /\ IF sent.ok
                       THEN \E last \in Remembered(m.last, m.page) :
                               store' = [store EXCEPT !.last = last]
                       ELSE UNCHANGED store
           \/ ~ Allowed(m.page, m.origins, m.last) /\ UNCHANGED <<captured, store>>
        /\ UNCHANGED <<radar, loading, timer, job, later, granted, used>>

----------------------------------------------------------------------------
(* The user, through the popup and through messages to the background.     *)

Edit == used.edits < MaxEdits /\ used' = [used EXCEPT !.edits = @ + 1]

\* toggleRadar in the popup: the box shows what storage says of the site,
\* the user flips it, the new list goes to storage only.
ToggleSite(p) ==
    LET on == store.radarEnabled /\ p \in store.origins
        list == IF on THEN store.origins \ {p} ELSE store.origins \cup {p}
    IN  /\ Edit
        /\ store' = [store EXCEPT !.origins = list, !.radarEnabled = list # {}]
        /\ granted' = IF on THEN [granted EXCEPT !.now = @ \ {p}]
                      ELSE [now |-> granted.now \cup {p}, ever |-> granted.ever \cup {p}]
        /\ UNCHANGED <<radar, loading, timer, job, later, manual, captured>>

\* pair, saveToken and redeemDashboardCode: the token, in storage only.
Pair ==
    /\ Edit
    /\ store' = [store EXCEPT !.token = TRUE]
    /\ UNCHANGED <<radar, loading, timer, job, later, manual, granted, captured>>

\* EFESTO_AUTO_RADAR_TOGGLE: on or off; the state is left as it is.
Toggle(sender) ==
    /\ MessageAllowed("toggle", sender)
    /\ Edit
    /\ SetRadar([radar EXCEPT !.enabled = ~ @])
    /\ UNCHANGED <<loading, timer, job, later, manual, granted, captured>>

\* EFESTO_AUTO_RADAR_SET_STATE and _UPDATE_CONFIG from an extension page.
Configure(sender) ==
    /\ MessageAllowed("configure", sender)
    /\ Edit
    /\ \/ \E s \in StateMessages : SetState(radar, s)
       \/ /\ StateMessages # {}
          /\ SetRadar([radar EXCEPT !.origins = granted.now, !.token = TRUE])
    /\ UNCHANGED <<loading, timer, job, later, manual, granted, captured>>

RadarInit ==
    /\ radar = Fresh
    /\ store = [enabled |-> FALSE, state |-> "paused", origins |-> {},
                token |-> FALSE, queue |-> Fresh.queue, prints |-> FALSE,
                radarEnabled |-> FALSE, last |-> {}]
    /\ loading = [pending |-> FALSE, read |-> store]
    /\ timer = {}
    /\ job = [j \in Jobs |-> IdleJob]
    /\ later = 0
    /\ manual = {}
    /\ granted = [now |-> {}, ever |-> {}]
    /\ captured = {}
    /\ used = [ready |-> 0, edits |-> 0, restarts |-> 0]

RadarNext ==
    \/ LoadState \/ RestartWorker \/ BackToObserving \/ ProcessQueue
    \/ ManualCapture \/ Pair
    \/ \E sender \in {"content script", "extension page"} :
          \/ Toggle(sender) \/ Configure(sender)
          \/ \E p \in Pages : PageReady(p, sender)
    \/ \E p \in Pages : ToggleSite(p)
    \/ \E j \in Jobs :
          \/ \E p \in Pages : DebounceElapses(j, p)
          \/ PageAnswers(j) \/ PageFails(j) \/ GoalsAnswer(j) \/ SendAnswers(j)

RadarSpec == RadarInit /\ [][RadarNext]_radarVars

----------------------------------------------------------------------------
\* Two evaluations of one page never go past the duplicate check together:
\* the check and the entry in the history are one step, although the upload
\* comes two awaits later.  Only a history restored from storage, which
\* cannot be compared with, lets both through.
OverlapIsDeduplicated ==
    \A j, k \in Jobs :
        (/\ j # k
         /\ {job[j].at, job[k].at} \subseteq {"matching", "submitting"}
         /\ job[j].page = job[k].page)
        => radar.unreadable

\* The Kernel receives pages of sites the user authorized at some time, and
\* no sensitive ones, however stale the list in memory is: a worker that
\* has not loaded its settings captures nothing.
CapturedWasGranted == captured \subseteq granted.ever \ Sensitive

\* Captures are wanted: of sites that were authorized, and not twice.
CapturesAreWanted == OverlapIsDeduplicated /\ CapturedWasGranted
=============================================================================
