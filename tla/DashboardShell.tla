--------------------------- MODULE DashboardShell ---------------------------
(* The dashboard's shell (efesto-product-shell.tsx): how it comes to a
   connection (restored or chosen by the user), the polling of the Kernel
   (visible-poller.ts, live-refresh.ts, overview.ts), the manual refresh, the
   Cases opened while other reads are under way, and the confirmation of a
   Goal. All the asynchronous reads of the page interleave.

   A connection is its transport; a snapshot keeps whose it is, whether it
   says the Kernel is online and whether it still holds the Kernel's records. *)
EXTENDS Integers, FiniteSets

CONSTANTS
    Cases,        \* Cases a user may open
    MaxRestores,  \* tries of the automatic connection (5 in the source)
    OfflineAfter,  \* KERNEL_UNREACHABLE_AFTER_FAILURES (2 in the source)
    MaxChoices,   \* bound: connections and disconnections by the user
    MaxOutages,   \* bound: changes of the Kernel's state
    MaxOpens      \* bound: Case reads under way

VARIABLES
    kernel,    \* "up", "down" or "rotated" (the token is refused)
    conn,      \* the connection, or "none"
    saved,     \* the connection kept in sessionStorage, or "none"
    autoPaused,    \* automaticPaused
    restore,   \* [pc, tries]: the automatic connection
    link,      \* the connectWith under way: [pc, to, attempt, choice, remember]
    attempt,   \* connectionAttempt
    choice,    \* choices the user has made
    by,        \* history: the choice that established conn
    snap,      \* [of, online, records]: what the page shows
    poll,      \* [wave, of, failures, rerun, hint]: the visible poller
    visible,
    refreshing,  \* the connection a manual refresh reads, or "none"
    overtaken,   \* history: a refresh answered after its connection had gone
    opened, spinner, details,  \* Case reads, the spinner, Cases read
    goalDraft,      \* [pc, made]: the Goal being confirmed; made: Goals created
    outages

linkVars == <<conn, saved, autoPaused, restore, link, attempt, choice, by>>
caseVars == <<opened, spinner, details>>
shellVars == <<kernel, conn, saved, autoPaused, restore, link, attempt, choice, by, snap, poll,
               visible, refreshing, overtaken, opened, spinner, details, goalDraft, outages>>

Nothing == [of |-> "none", online |-> FALSE, records |-> FALSE]
NoLink == [pc |-> "none", to |-> "none", attempt |-> 0, choice |-> 0, remember |-> FALSE]
FreshPoll == [wave |-> FALSE, of |-> "none", failures |-> 0, rerun |-> FALSE, hint |-> FALSE]

\* KernelClient.request: an answer, a refusal (401), or none in time.
Asking ==
    CASE kernel = "up" -> "answered" [] kernel = "down" -> "offline" [] OTHER -> "unauthorized"

\* What loadOverview can return: a list that fails is an empty list and an issue;
\* without /health the snapshot says offline and every list is empty.
Overviews(of) ==
    CASE Asking = "answered" -> {[of |-> of, online |-> TRUE, records |-> r] : r \in BOOLEAN}
      [] Asking = "offline" -> {[of |-> of, online |-> FALSE, records |-> FALSE]}
      [] OTHER -> {}  \* throwUnauthorized

ShellInit ==
    /\ kernel \in {"up", "down"}
    /\ conn = "none" /\ saved \in {"none", "token"} /\ autoPaused = FALSE
    /\ attempt = IF saved = "none" THEN 0 ELSE 1
    /\ restore = [pc |-> IF saved = "none" THEN "local" ELSE "off", tries |-> 0]
    /\ link = IF saved = "none" THEN NoLink
              ELSE [pc |-> "load", to |-> "token", attempt |-> 1, choice |-> 0, remember |-> TRUE]
    /\ choice = 0 /\ by = 0 /\ snap = Nothing /\ poll = FreshPoll /\ visible = TRUE
    /\ refreshing = "none" /\ overtaken = FALSE
    /\ opened = {} /\ spinner = "none" /\ details = {}
    /\ goalDraft = [pc |-> "idle", made |-> 0] /\ outages = 0

Connecting == link.pc # "none"

---------------------------------------------------------------------------
\* The connection.

\* restore(): it gives way to a connection and to anything the user chose.
MayRestore == ~autoPaused /\ conn = "none" /\ ~Connecting

\* A discovery answers: the installed bridge, then the extension, then a timer.
Discovered(found) ==
    /\ restore.pc \in {"local", "ext"}
    /\ IF found /\ MayRestore
       THEN /\ attempt' = attempt + 1
            /\ link' = [pc |-> "load", to |-> restore.pc, attempt |-> attempt + 1,
                        choice |-> 0, remember |-> FALSE]
            /\ restore' = [restore EXCEPT !.pc =
                             IF restore.pc = "local" THEN "linking_local" ELSE "linking_ext"]
       ELSE /\ restore' = IF restore.pc = "local" THEN [restore EXCEPT !.pc = "ext"]
                          ELSE [tries |-> restore.tries + 1,
                                pc |-> IF ~autoPaused /\ restore.tries + 1 < MaxRestores
                                       THEN "timer" ELSE "off"]
            /\ UNCHANGED <<link, attempt>>
    /\ UNCHANGED <<kernel, conn, saved, autoPaused, choice, by, snap, poll, visible, refreshing,
                   overtaken, caseVars, goalDraft, outages>>

RestoreTimer ==
    /\ restore.pc = "timer"
    /\ restore' = [restore EXCEPT !.pc = IF autoPaused \/ conn # "none" THEN "off" ELSE "local"]
    /\ UNCHANGED <<kernel, conn, saved, autoPaused, link, attempt, choice, by, snap, poll, visible,
                   refreshing, overtaken, caseVars, goalDraft, outages>>

\* connect, connectLocal, connectExtension: offered while there is no connection
\* and none is being made. A pairing code, the bridge and the extension take a
\* request of their own before connectWith.
Choose(to) ==
    /\ conn = "none" /\ ~Connecting /\ choice < MaxChoices
    /\ choice' = choice + 1 /\ autoPaused' = TRUE /\ attempt' = attempt + 1
    /\ link' = [pc |-> "ask", to |-> to, attempt |-> attempt + 1, choice |-> choice + 1,
                remember |-> to = "token"]
    /\ UNCHANGED <<kernel, conn, saved, restore, by, snap, poll, visible, refreshing, overtaken,
                   caseVars, goalDraft, outages>>

\* The request before connectWith answers, or fails and the user is told.
Asked ==
    /\ link.pc = "ask"
    /\ \/ /\ kernel = "up" /\ attempt' = attempt + 1
          /\ link' = [link EXCEPT !.pc = "load", !.attempt = attempt + 1]
       \/ link' = NoLink /\ UNCHANGED attempt
    /\ UNCHANGED <<kernel, conn, saved, autoPaused, restore, choice, by, snap, poll, visible,
                   refreshing, overtaken, caseVars, goalDraft, outages>>

\* What follows connectWith in restore(): done, or the next way to connect.
AfterLink(made) ==
    IF restore.pc \notin {"linking_local", "linking_ext"} THEN restore
    ELSE IF made THEN [restore EXCEPT !.pc = "off"]
    ELSE IF restore.pc = "linking_local" THEN [restore EXCEPT !.pc = "ext"]
    ELSE [tries |-> restore.tries + 1,
          pc |-> IF ~autoPaused /\ restore.tries + 1 < MaxRestores THEN "timer" ELSE "off"]

\* connectWith: the overview and the providers answer, and the attempt is still the newest.
Linked ==
    /\ link.pc = "load" /\ link.attempt = attempt
    /\ link' = NoLink
    /\ \/ \E s \in {o \in Overviews(link.to) : o.online} :
              /\ conn' = link.to /\ by' = link.choice /\ snap' = s
              /\ saved' = IF link.remember THEN "token" ELSE "none"
              /\ poll' = FreshPoll /\ restore' = AfterLink(TRUE)
       \/ /\ conn' = "none" /\ snap' = Nothing /\ saved' = "none"
          /\ restore' = AfterLink(FALSE) /\ UNCHANGED <<by, poll>>
    /\ UNCHANGED <<kernel, autoPaused, attempt, choice, visible, refreshing, overtaken, caseVars,
                   goalDraft, outages>>

CancelledKept(p) == p

\* The clean-up of the polling effect: the wave under way is cancelled.
Cancelled(p) == FreshPoll

\* disconnect(): offered while connected.
Disconnect ==
    /\ conn # "none" /\ choice < MaxChoices
    /\ choice' = choice + 1 /\ autoPaused' = TRUE /\ attempt' = attempt + 1
    /\ conn' = "none" /\ saved' = "none" /\ snap' = Nothing /\ poll' = Cancelled(poll)
    /\ details' = {}
    /\ UNCHANGED <<kernel, restore, link, by, visible, refreshing, overtaken, opened, spinner,
                   goalDraft, outages>>

---------------------------------------------------------------------------
\* Polling.

\* tick(): a wave starts unless one is in flight or the page is hidden.
Tick(p) == IF p.wave \/ ~visible THEN p ELSE [p EXCEPT !.wave = TRUE, !.of = conn, !.hint = FALSE]

\* now(): a hint during a wave asks for exactly one more.
Now(p) == IF p.wave THEN [p EXCEPT !.rerun = TRUE, !.hint = TRUE] ELSE Tick(p)

PollTick ==
    /\ conn # "none" /\ poll' = Tick(poll) /\ poll' # poll
    /\ UNCHANGED <<kernel, linkVars, snap, visible, refreshing, overtaken, caseVars, goalDraft, outages>>

\* refreshOnKernelEvents: a mission event arrives on the stream.
Hint ==
    /\ conn # "none" /\ kernel = "up" /\ visible
    /\ poll' = Now(poll)
    /\ UNCHANGED <<kernel, linkVars, snap, visible, refreshing, overtaken, caseVars, goalDraft, outages>>

Visibility ==
    /\ visible' = ~visible
    /\ poll' = IF conn # "none" /\ visible' /\ ~poll.wave
               THEN [poll EXCEPT !.wave = TRUE, !.of = conn, !.hint = FALSE] ELSE poll
    /\ UNCHANGED <<kernel, linkVars, snap, refreshing, overtaken, caseVars, goalDraft, outages>>

\* finally(): the rerun that was asked for starts at once if the page is visible.
Rerun(p) ==
    LET ended == [p EXCEPT !.wave = FALSE, !.of = "none", !.rerun = FALSE]
    IN  IF p.rerun THEN Tick(ended) ELSE ended

\* markKernelUnreachable keeps the records.
markKernelUnreachable(s) == [s EXCEPT !.online = FALSE]

\* poll(): a read overview replaces the snapshot; a thrown one counts as a failure.
\* The wave of a connection that has gone is cancelled with it.
WaveEnds ==
    /\ poll.wave
    /\ \/ \E s \in Overviews(poll.of) :
              /\ snap' = s
              /\ poll' = Rerun([poll EXCEPT !.failures = 0])
       \/ /\ Asking = "unauthorized"
          /\ snap' = IF poll.failures + 1 >= OfflineAfter THEN markKernelUnreachable(snap) ELSE snap
          /\ poll' = Rerun([poll EXCEPT !.failures =
                               IF @ < OfflineAfter THEN @ + 1 ELSE @])
    /\ UNCHANGED <<kernel, linkVars, visible, refreshing, overtaken, caseVars, goalDraft, outages>>

\* refresh(): nothing ties its answer to the connection it was asked with.
Refresh ==
    /\ conn # "none" /\ refreshing = "none" /\ refreshing' = conn
    /\ UNCHANGED <<kernel, linkVars, snap, poll, visible, overtaken, caseVars, goalDraft, outages>>

RefreshEnds ==
    /\ refreshing # "none" /\ refreshing' = "none"
    /\ \/ \E s \in {o \in Overviews(refreshing) : o.online} :
              snap' = s /\ overtaken' = (overtaken \/ conn # refreshing)
       \/ UNCHANGED <<snap, overtaken>>
    /\ UNCHANGED <<kernel, linkVars, poll, visible, caseVars, goalDraft, outages>>

---------------------------------------------------------------------------
\* Cases and Goals.

\* openCase: re-read every time; the spinner only when nothing was read yet.
OpenCase(c) ==
    /\ conn # "none"
    /\ \E n \in 1..MaxOpens \ {o.n : o \in opened} : opened' = opened \cup {[case |-> c, n |-> n]}
    /\ spinner' = IF c \in details THEN spinner ELSE c
    /\ UNCHANGED <<kernel, linkVars, snap, poll, visible, refreshing, overtaken, details, goalDraft, outages>>

\* Only the spinner this request owns is cleared.
SpinnerAfter(c) == IF spinner = c THEN "none" ELSE spinner

CaseAnswers(o) ==
    /\ opened' = opened \ {o}
    /\ spinner' = SpinnerAfter(o.case)
    /\ details' \in {details, details \cup {o.case}}
    /\ UNCHANGED <<kernel, linkVars, snap, poll, visible, refreshing, overtaken, goalDraft, outages>>

\* confirmGoal: the Goal, then its Mission; a failed second request leaves the
\* prepared text, and the next confirmation creates another Goal.
ConfirmGoal ==
    /\ conn # "none" /\ goalDraft.pc = "idle" /\ goalDraft.made < 2
    /\ goalDraft' = [goalDraft EXCEPT !.pc = "creating"]
    /\ UNCHANGED <<kernel, linkVars, snap, poll, visible, refreshing, overtaken, caseVars, outages>>

GoalAnswers ==
    /\ goalDraft.pc \in {"creating", "starting"}
    /\ goalDraft' \in {[pc |-> IF goalDraft.pc = "creating" THEN "starting" ELSE "done",
                   made |-> goalDraft.made + (IF goalDraft.pc = "creating" THEN 1 ELSE 0)],
                  [goalDraft EXCEPT !.pc = "idle"]}
    /\ UNCHANGED <<kernel, linkVars, snap, poll, visible, refreshing, overtaken, caseVars, outages>>

\* The Kernel stops, starts, or runs with another token.
KernelChanges ==
    /\ outages < MaxOutages /\ outages' = outages + 1
    /\ kernel' \in {"up", "down", "rotated"} \ {kernel}
    /\ UNCHANGED <<linkVars, snap, poll, visible, refreshing, overtaken, caseVars, goalDraft>>

ConnectionNext ==
    \/ \E found \in BOOLEAN : Discovered(found)
    \/ \E to \in {"local", "ext", "token"} : Choose(to)
    \/ RestoreTimer \/ Asked \/ Linked \/ Disconnect \/ KernelChanges

PollNext == PollTick \/ Hint \/ Visibility \/ WaveEnds \/ Refresh \/ RefreshEnds

PanelNext ==
    \/ \E c \in Cases : OpenCase(c)
    \/ \E o \in opened : CaseAnswers(o)
    \/ ConfirmGoal \/ GoalAnswers

ShellNext == ConnectionNext \/ PollNext \/ PanelNext

ShellSpec == ShellInit /\ [][ShellNext]_shellVars

---------------------------------------------------------------------------
(* The automatic connection never overrides the user: a connection in place
   was made by the newest choice, and after a disconnection the page stays
   disconnected whatever discovery was still under way ("Restoration is bounded
   and cannot override a manual disconnect or newer connection"). *)
NewestChoiceWins == conn # "none" => by = choice

(* What the page shows comes from the Kernel it is connected to: polls that end
   after their connection went change nothing. (Only a manual refresh overtaken
   by a disconnection escapes: see the hazards.) *)
SnapshotIsOfConnection == ~overtaken => snap.of \in {conn, "none"}

(* A mission event seen while the page is visible is followed by a read that
   started after it, even when it arrived during a wave. *)
HintIsFollowed == poll.hint /\ visible /\ conn # "none" => poll.wave /\ poll.rerun

(* A spinner belongs to a read that is under way, and goes with it. *)
SpinnerHasRead == spinner # "none" => \E o \in opened : o.case = spinner

(* The shell follows the user and the Kernel: the newest choice of connection,
   its own snapshot, every hint read, every spinner with its read. *)
ShellFollowsTheUser ==
    NewestChoiceWins /\ SnapshotIsOfConnection /\ HintIsFollowed /\ SpinnerHasRead
===============================================================================
