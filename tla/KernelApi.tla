------------------------------ MODULE KernelApi ------------------------------
(***************************************************************************)
(* The Kernel's HTTP server (apps/local-kernel/server.mjs) and the agent   *)
(* presence it reports: who is let through, in which order a request is    *)
(* checked, what a handler does after its transaction (vault notes, a      *)
(* second transaction, live events), and what is answered when one of      *)
(* these steps fails.                                                      *)
(*                                                                         *)
(* What the routes store is the business of the other modules: here a Goal *)
(* is its revision, and every other write is one fact that it happened.  A *)
(* Mission is its phase: "queued" also when it waits for its agent,        *)
(* "settled" once an attempt's result is in, be it being verified,         *)
(* completed or failed without support.  Answers are "done" (2xx),         *)
(* "refused" (4xx) and "failed" (5xx).                                     *)
(***************************************************************************)
EXTENDS Naturals, Sequences, FiniteSets

CONSTANTS
  Connections,        \* requests in flight at a time
  ExtensionOrigins, DashboardOrigins, ForeignOrigins,
  OwnOrigins,         \* what the locally served dashboard may be addressed as
  Services,           \* the optional services this Kernel was composed with
  MaxRevision         \* bound: revisions of the Goal

VARIABLES
  flight,             \* connection -> the request being handled
  answer,             \* what the last step answered
  goalRevision,       \* 0: no Goal
  missionPhase, leaseLive,
  vaultReceipt,       \* does the Mission record carry a vault receipt?
  trespass,           \* was anything stored for a request that was not admitted?
  published,          \* the last live event
  identities,         \* extension origins that were paired
  contact,            \* presence: nobody, recently, or longer ago
  reached             \* has a process without an Origin got through since the start?

apiVars == <<flight, answer, goalRevision, missionPhase, leaseLive, vaultReceipt,
             trespass, published, identities, contact, reached>>
knowledge == <<goalRevision, missionPhase, leaseLive, vaultReceipt, trespass>>

NoOrigin == "none"
Free == [route |-> "none"]
NoAnswer == "none"
NoEvent == <<"none", "none">>

Origins == ExtensionOrigins \cup DashboardOrigins \cup ForeignOrigins \cup {NoOrigin}
Requesters == [loopback : BOOLEAN, token : BOOLEAN, origin : Origins]

-----------------------------------------------------------------------------
(* The routes: what each needs before its handler runs.                       *)

Route(name, needs, json, id, write) ==
  [name |-> name, needs |-> needs, json |-> json, id |-> id, write |-> write]

CaseRoutes ==
  {Route("cases", "projector", FALSE, FALSE, FALSE), Route("case", "projector", FALSE, TRUE, FALSE)}

ChatRoutes ==
  {Route("forge", "models", FALSE, FALSE, FALSE), Route("providers", "providers", FALSE, FALSE, FALSE),
   Route("saveProvider", "providers", TRUE, FALSE, TRUE),
   Route("removeProvider", "providers", FALSE, TRUE, TRUE),
   Route("complete", "chat", TRUE, FALSE, FALSE),
   Route("conversations", "chat", FALSE, FALSE, FALSE),
   Route("createConversation", "chat", TRUE, FALSE, TRUE)}

StreamRoute == Route("stream", "chat", TRUE, FALSE, TRUE)

ConversationRoutes ==
  {Route("conversation", "chat", FALSE, TRUE, FALSE), Route("removeConversation", "chat", FALSE, TRUE, TRUE)}

NotificationRoutes ==
  {Route("opportunities", "opportunities", FALSE, FALSE, FALSE),
   Route("notifications", "notifications", FALSE, FALSE, FALSE),
   Route("markNotification", "notifications", FALSE, TRUE, TRUE)}

PreferenceRoutes ==
  {Route("feedback", "preferences", TRUE, TRUE, TRUE),
   Route("preferences", "preferences", FALSE, FALSE, FALSE),
   Route("resetPreferences", "preferences", FALSE, FALSE, TRUE)}

SurfaceRoutes ==
  {Route("surfaces", "surfaces", FALSE, FALSE, FALSE), Route("surface", "surfaces", FALSE, TRUE, FALSE)}

GoalRoutes ==
  {Route("goals", "goals", FALSE, FALSE, FALSE), Route("createGoal", "goals", TRUE, FALSE, TRUE),
   Route("reviseGoal", "goals", TRUE, TRUE, TRUE)}

MissionRoutes ==
  {Route("missions", "missions", FALSE, FALSE, FALSE), Route("evidence", "missions", FALSE, TRUE, FALSE),
   Route("createMission", "missions", TRUE, TRUE, TRUE),
   Route("agents", "always", FALSE, FALSE, FALSE), Route("ping", "always", FALSE, FALSE, TRUE)}

ExecutorRoutes ==
  {Route("claim", "executor", FALSE, FALSE, TRUE), Route("results", "executor", TRUE, TRUE, TRUE),
   Route("failures", "executor", TRUE, TRUE, TRUE)}

ReplayRoutes ==
  {Route("replayCases", "replay", FALSE, FALSE, FALSE), Route("replayCase", "replay", FALSE, TRUE, FALSE),
   Route("validateImport", "imports", TRUE, FALSE, FALSE), Route("import", "imports", TRUE, FALSE, TRUE)}

CaptureRoute == Route("pageContext", "always", TRUE, FALSE, TRUE)

ApiRoutes ==
  CaseRoutes \cup ChatRoutes \cup {StreamRoute, CaptureRoute} \cup ConversationRoutes
  \cup NotificationRoutes \cup PreferenceRoutes \cup SurfaceRoutes \cup GoalRoutes
  \cup MissionRoutes \cup ExecutorRoutes \cup ReplayRoutes

-----------------------------------------------------------------------------
(* Who is let through.                                                        *)

isAllowedOrigin(o) == o \in ExtensionOrigins \cup DashboardOrigins

(* Every request: loopback Host, an allowed Origin if there is one.           *)
AtTheDoor(by) == by.loopback /\ (by.origin # NoOrigin => isAllowedOrigin(by.origin))

hasValidToken(by) == by.token

(* Every /api/ request: the token as well, and for an extension a pairing     *)
(* that is on file.                                                           *)
LetThrough(by) ==
  /\ AtTheDoor(by)
  /\ hasValidToken(by)
  /\ by.origin \in ExtensionOrigins => by.origin \in identities

(* interactiveMissionConfirmationActor *)
interactive(o) == isAllowedOrigin(o)

Answer(c, status) ==
  /\ answer' = status
  /\ flight' = [flight EXCEPT ![c] = Free]

(* A request that the gate stops never gets to a route.                       *)
TurnedAway(c) ==
  /\ flight[c] = Free
  /\ {by \in Requesters : ~LetThrough(by)} # {}
  /\ Answer(c, "refused")
  /\ UNCHANGED <<knowledge, published, identities, contact, reached>>

(* The routes without a token, and what they may answer: the probes, the      *)
(* replay page, and Hermes's ingestion, which has an authority of its own.    *)
PublicRoutes == {"health", "status", "bootstrap", "page", "hermes"}

publicAnswers(r) ==
  CASE r = "bootstrap" -> {"done", "failed"}
    [] r = "hermes" -> IF "hermes" \in Services THEN {"done", "refused", "failed"} ELSE {"refused"}
    [] OTHER -> {"done"}

ProbeAnswered(c) ==
  /\ flight[c] = Free
  /\ {by \in Requesters : AtTheDoor(by)} # {}
  /\ \E s \in UNION {publicAnswers(r) : r \in PublicRoutes} : Answer(c, s)
  /\ UNCHANGED <<knowledge, published, identities, contact, reached>>

(* The handlers that are told apart below; reads are one kind, those that     *)
(* list the Missions another, since the list puts expired leases right, the   *)
(* other writes a third, and the routes of a service this Kernel lacks a      *)
(* fourth.                                                                    *)
handler(r) ==
  CASE r.needs \notin Services \cup {"always"} -> "missing"
    [] r.needs \in Services \cup {"always"} /\ ~r.write ->
         IF r.name \in {"missions", "agents"} THEN "list" ELSE "read"
    [] OTHER -> IF r.name \in {"createGoal", "reviseGoal", "createMission", "claim", "results",
                               "failures", "ping", "stream"} THEN r.name ELSE "write"

RouteHandlers == {[name |-> handler(r), input |-> r.write /\ (r.json \/ r.id)] : r \in ApiRoutes}

(* A request nobody admitted: stated apart from the gate.                     *)
Admitted(by) ==
  by.loopback /\ by.token /\ by.origin \in {NoOrigin} \cup DashboardOrigins \cup identities

(* The route: 404 for a service this Kernel does not have; a read is answered *)
(* from one snapshot; a write goes on.                                        *)
Enter(c, h, by, admitted) ==
  /\ CASE h.name = "missing" -> Answer(c, "refused")
       [] h.name = "read" -> \E s \in {"done", "refused", "failed"} : Answer(c, s)
       [] OTHER ->
            /\ flight' = [flight EXCEPT ![c] =
                 [route |-> h.name, stage |-> "reading", input |-> h.input, gone |-> FALSE,
                  revision |-> 0, admitted |-> admitted, interactive |-> interactive(by.origin),
                  bare |-> by.origin = NoOrigin]]
            /\ answer' = NoAnswer
  /\ reached' = (reached \/ by.origin = NoOrigin)
  /\ UNCHANGED <<knowledge, published, identities, contact>>

Arrive(c, h, by) ==
  /\ flight[c] = Free /\ LetThrough(by)
  /\ Enter(c, h, by, Admitted(by))

-----------------------------------------------------------------------------
(* The bridge of the locally served dashboard (local-kernel-proxy.ts): its     *)
(* server adds the token, so its own check decides who may use it.            *)

(* Who may send it a request, and what a browser makes of the headers: only a *)
(* page of the same address can set the marker, and a name that was rebound   *)
(* to this machine is still the Host.                                         *)
Senders == {"own page", "other site", "rebound site", "local process"}
Headers(sender) ==
  CASE sender = "own page" -> [loopback |-> TRUE, origin |-> {"own", "absent"}, site |-> {"same"}, marker |-> TRUE]
    [] sender = "other site" -> [loopback |-> TRUE, origin |-> {"other", "absent"}, site |-> {"cross"}, marker |-> FALSE]
    [] sender = "rebound site" -> [loopback |-> FALSE, origin |-> {"own", "absent"}, site |-> {"same"}, marker |-> TRUE]
    [] OTHER -> [loopback |-> TRUE, origin |-> {"absent"}, site |-> {"absent"}, marker |-> TRUE]

checkLocalRequest(loopback, origin, site, marker) ==
  loopback /\ origin # "other" /\ site # "cross" /\ marker

mayUseBridge(sender) ==
  \E origin \in Headers(sender).origin, site \in Headers(sender).site :
    checkLocalRequest(Headers(sender).loopback, origin, site, Headers(sender).marker)

(* Is the sender the user's own, for those who may use the bridge.            *)
BridgeUsers == {(s \in {"own page", "local process"}) : s \in {x \in Senders : mayUseBridge(x)}}

(* The request goes on as the dashboard's own.                                *)
ThroughBridge(c, h, admitted, own) ==
  LET by == [loopback |-> TRUE, token |-> TRUE, origin |-> own]
  IN /\ flight[c] = Free /\ LetThrough(by)
     /\ Enter(c, h, by, admitted)

(* The check says no, the path is not the Kernel's (kernelPathFrom), the       *)
(* address is another machine's, there is no readable token or no Kernel.     *)
BridgeDeclines(c) ==
  /\ flight[c] = Free
  /\ \E s \in {"refused", "failed"} : Answer(c, s)
  /\ UNCHANGED <<knowledge, published, identities, contact, reached>>

-----------------------------------------------------------------------------
(* Content type, path id (decodePathId) and query: a bad one is refused.      *)
badAddress(f) == f.input

(* The same for the body up to its limit - failed, where the handler's catch  *)
(* does not know the error.                                                   *)
BadInput(c) ==
  /\ flight[c] # Free /\ flight[c].stage = "reading"
  /\ \/ badAddress(flight[c]) /\ Answer(c, "refused")
     \/ flight[c].route \in {"write", "claim"} /\ Answer(c, "failed")
  /\ UNCHANGED <<knowledge, published, identities, contact, reached>>

-----------------------------------------------------------------------------
(* The handlers.                                                              *)

Writes(c) == trespass' = (trespass \/ ~flight[c].admitted)

Stage(c, s) == flight' = [flight EXCEPT ![c].stage = s] /\ answer' = NoAnswer

Acting(c, name) == flight[c] # Free /\ flight[c].stage = "reading" /\ flight[c].route = name

(* Only requests without an Origin count as contact with the agent.           *)
Contact(c) == contact' = IF flight[c].bare THEN "recent" ELSE contact

CreateGoal(c) ==
  /\ Acting(c, "createGoal")
  /\ goalRevision' = IF goalRevision = 0 THEN 1 ELSE goalRevision
  /\ Writes(c)
  /\ Stage(c, "notes")
  /\ UNCHANGED <<missionPhase, leaseLive, vaultReceipt, published, identities, contact,
                 reached>>

(* Confirmed interactively; an unchanged Goal is answered at once.            *)
ReviseGoal(c, changed) ==
  /\ Acting(c, "reviseGoal")
  /\ IF ~flight[c].interactive \/ goalRevision = 0
     THEN Answer(c, "refused") /\ UNCHANGED <<goalRevision, trespass>>
     ELSE IF ~changed THEN Answer(c, "done") /\ UNCHANGED <<goalRevision, trespass>>
     ELSE /\ goalRevision < MaxRevision
          /\ goalRevision' = goalRevision + 1
          /\ Writes(c)
          /\ flight' = [flight EXCEPT ![c].stage = "notes", ![c].revision = goalRevision + 1]
          /\ answer' = NoAnswer
  /\ UNCHANGED <<missionPhase, leaseLive, vaultReceipt, published, identities, contact,
                 reached>>

(* The vault notes follow the transaction; then the revision this request     *)
(* made is announced, though others may have followed.  When the notes fail   *)
(* the answer is a failure, the Goal stays stored and nothing is announced.   *)
WriteNotes(c) ==
  /\ flight[c] # Free /\ flight[c].stage = "notes"
  /\ published' = IF flight[c].route = "reviseGoal"
                  THEN <<"goal.revised", flight[c].revision>> ELSE published
  /\ Answer(c, "done")
  /\ UNCHANGED <<goalRevision, missionPhase, leaseLive, vaultReceipt, trespass, identities, contact,
                 reached>>

NotesFail(c) ==
  /\ flight[c] # Free /\ flight[c].stage = "notes"
  /\ Answer(c, "failed")
  /\ UNCHANGED <<knowledge, published, identities, contact, reached>>

(* isMissionActive: the Mission waits for a worker, or one holds its lease.    *)
isActive == missionPhase = "queued" \/ (missionPhase = "running" /\ leaseLive)

(* A Mission is created, or what is left of its last attempt is started over; *)
(* an active one is left as it is.  Only "search more" must be interactive,   *)
(* and it wants an attempt that is finished: a failed or abandoned one may    *)
(* not be.                                                                    *)
RefusesMission(c, more) ==
  \/ goalRevision = 0
  \/ more /\ (~flight[c].interactive \/ missionPhase = "none")
  \/ more /\ missionPhase = "failed"
  \/ more /\ missionPhase = "running" /\ ~leaseLive

StartsMission(c, more) ==
  /\ goalRevision # 0
  /\ more => flight[c].interactive /\ missionPhase # "none"
  /\ IF isActive THEN UNCHANGED <<missionPhase, vaultReceipt>>
     ELSE missionPhase' = "queued" /\ vaultReceipt' = FALSE
  /\ Writes(c)
  /\ published' = <<"mission.created", missionPhase'>>
  /\ Answer(c, "done")

CreateMission(c, more) ==
  /\ Acting(c, "createMission")
  /\ \/ StartsMission(c, more)
     \/ /\ RefusesMission(c, more)
        /\ Answer(c, "refused")
        /\ UNCHANGED <<missionPhase, vaultReceipt, trespass, published>>
  /\ UNCHANGED <<goalRevision, leaseLive, identities, contact, reached>>

(* A GET that lists the Missions stores what it puts right: an expired lease  *)
(* is taken back, for a retry or for good; an agent that became ready or a    *)
(* stranded verification changes the record within its phase.                 *)
ReadMissions(c) ==
  /\ Acting(c, "list")
  /\ CASE missionPhase = "running" /\ ~leaseLive ->
            missionPhase' \in {"queued", "failed"} /\ Writes(c)
       [] missionPhase \in {"queued", "settled"} ->
            UNCHANGED missionPhase /\ (Writes(c) \/ UNCHANGED trespass)
       [] OTHER -> UNCHANGED <<missionPhase, trespass>>
  /\ Answer(c, "done")
  /\ UNCHANGED <<goalRevision, leaseLive, vaultReceipt, published, identities, contact, reached>>

(* The gate on automatic claims and the limit of attempts may say no; the     *)
(* gate's reason goes on the record.                                          *)
Claim(c, allowed) ==
  /\ Acting(c, "claim")
  /\ IF allowed /\ (missionPhase = "queued" \/ (missionPhase = "running" /\ ~leaseLive))
     THEN /\ missionPhase' = "running"
          /\ leaseLive' = TRUE
          /\ Writes(c)
          /\ published' = <<"mission.updated", "running">>
     ELSE /\ Writes(c) \/ UNCHANGED trespass
          /\ UNCHANGED <<missionPhase, leaseLive, published>>
  /\ Contact(c)
  /\ Answer(c, "done")
  /\ UNCHANGED <<goalRevision, vaultReceipt, identities, reached>>

(* complete(): settled Missions answer idempotently and announce nothing.     *)
(* Between this transaction and the receipt's the Mission may be started over.*)
Results(c) ==
  /\ Acting(c, "results")
  /\ CASE missionPhase = "running" /\ leaseLive ->
            /\ missionPhase' = "settled" /\ leaseLive' = FALSE
            /\ Writes(c) /\ Contact(c) /\ Stage(c, "vault")
       [] missionPhase = "settled" ->
            /\ Contact(c) /\ Answer(c, "done")
            /\ UNCHANGED <<missionPhase, leaseLive, trespass>>
       [] OTHER ->
            /\ Answer(c, "refused")
            /\ UNCHANGED <<missionPhase, leaseLive, trespass, contact>>
  /\ UNCHANGED <<goalRevision, vaultReceipt, published, identities, reached>>

(* syncMissionObsidian reports every outcome (synced, partial, failed) as a   *)
(* receipt, and attachMissionObsidianReceipt puts it on the Mission, whatever *)
(* has become of it since.                                                    *)
AttachReceipt_later(c) ==
  /\ flight[c] # Free /\ flight[c].stage = "vault"
  /\ published' = <<"mission.updated", missionPhase>>
  /\ Answer(c, "done")
  /\ UNCHANGED <<knowledge, identities, contact, reached>>

AttachReceipt(c) ==
  /\ flight[c] # Free /\ flight[c].stage = "vault"
  /\ vaultReceipt' = TRUE
  /\ published' = <<"mission.updated", missionPhase>>
  /\ Answer(c, "done")
  /\ UNCHANGED <<goalRevision, missionPhase, leaseLive, trespass, identities, contact,
                 reached>>

AttachFails(c) ==
  /\ flight[c] # Free /\ flight[c].stage = "vault"
  /\ Answer(c, "failed")
  /\ UNCHANGED <<knowledge, published, identities, contact, reached>>

(* fail(): another attempt, or none is left.                                  *)
Failures(c) ==
  /\ Acting(c, "failures")
  /\ IF ~(missionPhase = "running" /\ leaseLive)
     THEN /\ Answer(c, "refused")
          /\ UNCHANGED <<missionPhase, leaseLive, trespass, published, contact>>
     ELSE /\ missionPhase' \in {"queued", "failed"} /\ leaseLive' = FALSE
          /\ Writes(c) /\ Contact(c)
          /\ published' = <<"mission.updated", missionPhase'>>
          /\ Answer(c, "done")
  /\ UNCHANGED <<goalRevision, vaultReceipt, identities, reached>>

(* A browser cannot mark the agent as connected.                              *)
Ping(c) ==
  /\ Acting(c, "ping")
  /\ IF ~flight[c].bare
     THEN Answer(c, "refused") /\ UNCHANGED contact
     ELSE Answer(c, "done") /\ contact' = "recent"
  /\ UNCHANGED <<knowledge, published, identities, reached>>

(* Every other write: one transaction of its component, then the answer.      *)
OtherWrite(c) ==
  /\ flight[c] # Free /\ flight[c].stage = "reading"
  /\ flight[c].route = "write"
  /\ \/ Writes(c) /\ Answer(c, "done")
     \/ UNCHANGED trespass /\ Answer(c, "refused")
  /\ UNCHANGED <<goalRevision, missionPhase, leaseLive, vaultReceipt, published, identities,
                 contact, reached>>

(* A transaction whose write fails: 500, nothing stored.                      *)
StoreFails(c) ==
  /\ flight[c] # Free /\ flight[c].stage = "reading"
  /\ flight[c].route \notin {"ping", "stream"}
  /\ Answer(c, "failed")
  /\ UNCHANGED <<knowledge, published, identities, contact, reached>>

-----------------------------------------------------------------------------
(* The chat stream: writeStreamEvent waits for the client to drain.           *)

StreamStarts(c) ==
  /\ Acting(c, "stream")
  /\ Stage(c, "streaming") /\ Writes(c)
  /\ UNCHANGED <<goalRevision, missionPhase, leaseLive, vaultReceipt, published, identities,
                 contact, reached>>

(* What wakes a handler that waits for its client.                            *)
Listens == {"drain", "close", "error"}

(* write() returned false: the handler waits. Nothing is written to a         *)
(* response that is destroyed.                                                *)
Blocks(c) ==
  /\ flight[c] # Free /\ flight[c].stage = "streaming" /\ ~flight[c].gone
  /\ Stage(c, "blocked")
  /\ UNCHANGED <<knowledge, published, identities, contact, reached>>

Drains(c) ==
  /\ flight[c] # Free /\ flight[c].stage = "blocked" /\ ~flight[c].gone
  /\ "drain" \in Listens
  /\ Stage(c, "streaming")
  /\ UNCHANGED <<knowledge, published, identities, contact, reached>>

(* The response closes under the handler: a wait ends, the rest is skipped.   *)
ClientGone(c) ==
  /\ flight[c] # Free /\ flight[c].stage \in {"streaming", "blocked"} /\ ~flight[c].gone
  /\ flight' = [flight EXCEPT ![c].gone = TRUE,
       ![c].stage = IF "close" \in Listens THEN "streaming" ELSE @]
  /\ answer' = NoAnswer
  /\ UNCHANGED <<knowledge, published, identities, contact, reached>>

StreamEnds(c) ==
  /\ flight[c] # Free /\ flight[c].stage = "streaming"
  /\ answer' = IF flight[c].gone THEN NoAnswer ELSE "done"
  /\ flight' = [flight EXCEPT ![c] = Free]
  /\ UNCHANGED <<knowledge, published, identities, contact, reached>>

-----------------------------------------------------------------------------
(* Presence, pairing, time, restarts.                                         *)

hasLiveLease == missionPhase = "running" /\ leaseLive

(* describeAgent; "away" stands for "history" and "never", which differ in    *)
(* whether a stored Mission has ever been claimed.                            *)
agentState ==
  CASE hasLiveLease -> "working"
    [] ~hasLiveLease /\ contact # "nobody" ->
         IF contact = "recent" THEN "online" ELSE "seen"
    [] OTHER -> "away"

Paired(e) ==
  /\ e \notin identities
  /\ identities' = identities \cup {e}
  /\ answer' = NoAnswer
  /\ UNCHANGED <<flight, knowledge, published, contact, reached>>

(* Time passes: a lease runs out, a contact leaves the online window.         *)
LeaseExpires ==
  /\ leaseLive
  /\ leaseLive' = FALSE
  /\ answer' = NoAnswer
  /\ UNCHANGED <<flight, goalRevision, missionPhase, vaultReceipt, trespass, published,
                 identities, contact, reached>>

ContactAges ==
  /\ contact = "recent"
  /\ contact' = "old"
  /\ answer' = NoAnswer
  /\ UNCHANGED <<flight, knowledge, published, identities, reached>>

(* Presence and requests are memory; Missions and pairings are on disk.       *)
KernelRestarts ==
  /\ flight' = [c \in Connections |-> Free]
  /\ answer' = NoAnswer
  /\ published' = NoEvent
  /\ contact' = "nobody"
  /\ reached' = FALSE
  /\ UNCHANGED <<knowledge, identities>>

ApiInit ==
  /\ flight = [c \in Connections |-> Free] /\ answer = NoAnswer
  /\ goalRevision = 0 /\ missionPhase = "none" /\ leaseLive = FALSE
  /\ vaultReceipt = FALSE /\ trespass = FALSE /\ published = NoEvent /\ identities = {}
  /\ contact = "nobody" /\ reached = FALSE

ApiNext ==
  \/ \E c \in Connections :
       \/ TurnedAway(c)
       \/ \E by \in {by \in Requesters : flight[c] = Free /\ LetThrough(by)}, h \in RouteHandlers :
            Arrive(c, h, by)
       \/ ProbeAnswered(c)
       \/ \E admitted \in BridgeUsers, own \in {o \in OwnOrigins : flight[c] = Free}, h \in RouteHandlers :
            ThroughBridge(c, h, admitted, own)
       \/ BridgeDeclines(c)
       \/ BadInput(c) \/ StoreFails(c) \/ OtherWrite(c)
       \/ CreateGoal(c) \/ WriteNotes(c) \/ NotesFail(c)
       \/ \E changed \in BOOLEAN : ReviseGoal(c, changed)
       \/ \E more \in BOOLEAN : CreateMission(c, more)
       \/ \E allowed \in BOOLEAN : Claim(c, allowed)
       \/ ReadMissions(c) \/ Failures(c) \/ Ping(c)
       \/ Results(c) \/ AttachReceipt(c) \/ AttachFails(c)
       \/ StreamStarts(c) \/ Blocks(c) \/ Drains(c) \/ StreamEnds(c)
       \/ ClientGone(c)
  \/ \E e \in ExtensionOrigins : Paired(e)
  \/ LeaseExpires
  \/ ContactAges
  \/ KernelRestarts

ApiSpec == ApiInit /\ [][ApiNext]_apiVars

-----------------------------------------------------------------------------
(* Properties *)

(* Nothing was ever stored for a request that came with another Host, with an *)
(* Origin that is neither a dashboard nor a paired extension, or without the  *)
(* token - nor, through the bridge that adds the token, for a page of another *)
(* site - whichever route it took and whatever happened in between.           *)
WritesAreAdmitted == ~trespass

(* A live event never runs ahead of the store: who refetches on the hint      *)
(* finds the Mission, and at least the revision of the Goal that the event    *)
(* names, in whatever order the vault notes of several revisions end.         *)
EventsFollowTheStore ==
  /\ published[1] = "goal.revised" => published[2] > 0 /\ goalRevision >= published[2]
  /\ published[1] \in {"mission.created", "mission.updated"} => missionPhase # "none"

(* What an event says of a Mission is what the store holds when it is sent,   *)
(* also the one that follows a receipt, whose Mission may have been started   *)
(* over or have failed since its result was taken.                            *)
MissionEventsAreTrue ==
  [][published' # published /\ published'[1] \in {"mission.created", "mission.updated"} =>
       published'[2] = missionPhase']_apiVars

(* An accepted result is complete: when the agent is told 2xx for the batch   *)
(* it delivered, a vault receipt is on the Mission's record and the Mission   *)
(* has been announced as it is by then, although these are separate steps     *)
(* that other requests interleave with, a restart of the Mission that drops   *)
(* the receipt of its last attempt among them.                                *)
AcceptedResultIsComplete ==
  [][\A c \in Connections :
       (IF flight[c] = Free THEN FALSE ELSE flight[c].stage = "vault") /\ flight'[c] = Free
         /\ answer' = "done" =>
       vaultReceipt' /\ published' = <<"mission.updated", missionPhase'>>]_apiVars

(* "Online" and "seen" are never a browser's doing: since this Kernel started *)
(* a process without an Origin header has got through with the token.         *)
OnlineMeansAgent == agentState \in {"online", "seen"} => reached

(* No stream handler waits for a client that is gone: close wakes it as drain *)
(* does.                                                                      *)
NoHandlerIsStranded ==
  \A c \in Connections :
    IF flight[c] = Free THEN TRUE ELSE ~(flight[c].gone /\ flight[c].stage = "blocked")

(* The HTTP surface as a whole: writes are admitted ones - those of the GETs  *)
(* that put leases right among them -, events follow the store and say what   *)
(* it holds, presence means an agent, no stream handler is stranded, and an   *)
(* accepted result is complete.                                               *)
RequestsAreHonoured ==
  /\ [](WritesAreAdmitted /\ EventsFollowTheStore /\ OnlineMeansAgent /\ NoHandlerIsStranded)
  /\ MissionEventsAreTrue
  /\ AcceptedResultIsComplete
=============================================================================
