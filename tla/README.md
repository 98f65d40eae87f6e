# Verification of the Hephaestus / Efesto local Kernel

TLA+ models of the parts of this repository that keep state and can go wrong in
ways a unit test hardly reaches. TLC checks each model on small instances; TLAPS
proves the theorems of section 4 for every value of the constants.

    tlc -workers 2 -config Leases.cfg MCMissions     # one run
    tlapm MissionsProofs.tla                         # the proofs of one module

## 1. The system

### Local Kernel (`apps/local-kernel`)

A Node process on loopback HTTP. Most knowledge lives in one JSON document
(`LocalKnowledgeStore`, `capture-projector.mjs`): Goals, agent Missions, Cases,
Evidence, Opportunities ("Finds"), feedback. `project(mutator)` chains the
mutators on one promise queue, so each is a transaction; `write` replaces the
file by rename, so a crash leaves the old or the new document. `read()` does not
queue: it sees the last document written.

| Part | State | Operations | Interacts with |
|---|---|---|---|
| Goals (`goals.mjs`) | revision, content, history | create, revise, list | re-scopes and re-authorizes its Missions in the same transaction |
| Missions (`agent-missions.mjs`) | one record per (Goal, agent, cadence) | create / confirm / restart / "Buscar más", list | `list` reconciles: queues waiting Missions, takes back expired leases, settles stranded verifications |
| Executor (`agent-mission-executor*.mjs`) | lease, attempt, candidates on the record | claim, results, failures | automatic claim gate, continuation policy |
| Verifier (`mission-search-candidate-verifier.mjs`) | verification rows, seal, Evidence, Finds | verify | reads the store, fetches every page, reads again, then one transaction; then notifies |
| Notifications (`supported-find-notifier.mjs`, `NotificationGateway`, receipt store) | append-only receipts | queue, read, dismiss, list | called by the verifier, read by the extension |
| Hermes worker (`hermes-mission-worker.mjs`), adapter | a child process and its private home | claim, run adapter, submit, reconcile, report | every request has a deadline |
| One-click runtime (`one-click-kernel.mjs`, `kernel-proxy.mjs`), recovery | `activeRuns`, timers | start a run, run until terminal, restart, recover | recovery precedes the public port |
| Captures, inbox, vault notes | inbox file, store, notes | capture, project, summarise, note | extension |
| Chat, providers | conversations, provider file | stream, append, trim, delete | external models |
| Pairing, identities, token | token file, registry, codes | mint, exchange, authorize, rotate | extension, dashboard, CLI |
| HTTP server, event bus | requests in flight, listeners | routes, events, presence | everything above |

### Kernel packages (`packages/kernel/src`, `packages/connectors/src`)

Memory authority (append-only receipts, lifecycle, projection, reconciliation,
retrieval gate, quarantine recommendations, recovery reviews, prevention),
Hermes ingestion and the cognitive pipeline, Mission and research engines, proposed plans,
approvals, capabilities and the execution engine, scheduler and triggers, goal
interpretation, Cases / Evidence / entities, replay lab, web page reader.

### Around them

`apps/extension` (captures, Auto Radar, watchtower, forge switch, the bridge
that lends its token to the hosted dashboard), `apps/dashboard` (shell, polling,
local proxy), `scripts` (adapter, launcher, bootstrap, CLI, development
orchestrator). They share the store file, the token file, the port and the
extension's storage, and otherwise meet over HTTP and messages.

### What is hard

* Several processes work on one Mission: one-click runs, standalone workers that
  survive a Kernel restart, API clients asking for verification, the recovery
  pass. They only meet in the store.
* A request its sender gave up on is still handled, possibly much later.
* Almost everything that decides does so on a read and acts after an `await`:
  the verifier, the plan and execution engines, memory callers, the extension's
  evaluations, the dashboard's reads.
* Memory runs ahead of disk where a write fails; a restart loses memory, timers
  and requests, and keeps files, extension storage and standalone processes.
* An agent may die silently; only lease expiry and a later listing notice.
* The CLI, the MCP server and the Kernel write one file without a common lock.

The hazards, each with the line where it bites and the properties aimed at it,
are in `PROJECT.json`; so is the list of components, with what of each is
modelled.

## 2. Modules

| Module | Models |
|---|---|
| `MissionLifecycle` | abstract specification: what a Mission promises, with no leases, requests or processes |
| `Missions` | Goals, Missions, executor, claim gate, verifier, notifications, worker, one-click runtime, recovery |
| `MissionSurfaces` | what popup, orb, forge, Goal surface and dashboard say of a Mission, as functions of `Missions`' records |
| `HermesIngestion` | idempotency receipts, record store, requests, crash and start-up repair |
| `CognitivePipeline` | mapping and the three gates as functions of a submission |
| `ReplayLab` | the read-only views over pipeline records and receipts, two files read in either order |
| `MemoryAuthority` | lifecycle policy, receipt file, projector, reconciliation, retrieval gate |
| `MemoryReview`, `MemorySafety` | quarantine recommendations and recovery reviews; repeated failures and the safety view |
| `PlanExecution`, `PlanGraph` | proposed plans, approvals, capabilities, execution engine; the checks on a plan's task graph |
| `Scheduler`, `Notifications` | schedules and claims with their calendar arithmetic; triggers, gateway and receipt file |
| `AutoRadar`, `Watchtower`, `ForgePower` | the extension's captures, inspections and forge switch |
| `DashboardBridge`, `DashboardShell`, `LiveStreams` | the bridge through the extension, the dashboard's connections and polls, event streams and the hub's refresh loop |
| `Captures`, `Chat`, `KernelPairing`, `FindInbox`, `KernelApi` | the Kernel's services and its HTTP surface |
| `SharedStore`, `Launcher`, `DevTasks` | the file that Kernel, CLI and MCP server share; launcher processes; the development orchestrator |
| `MissionTasks`, `ResearchRun`, `GoalResolution`, `KnowledgeBase` | the kernel package's engines |
| `HermesSearch`, `WebReading` | one attempt of the Hermes adapter; looking up, connecting to and reading pages |

`MCMissions`, `MCMissionSurfaces` and `MCIngestion` instantiate one component
each. `MCCognition`, `MCUserSide`, `MCBackground`, `MCServices` and `MCEngines`
hold components that share no state: a variable `focus`, chosen in the initial
state among the constant `Parts`, says which of them moves, so that one run
explores each component alone and no product of them. Setting `Parts` to one
name checks one component.

### Missions

`mission[m]` is the persisted record, reduced to the fields the code decides on
(`MissionRecord`); `goal[g]` is the Goal's revision; `evidence`, `finds` and
`notices` are sets keyed by what the code hashes into the ids, so a duplicate
write is a no-op as in the code. `proc[p]` is where a run, worker, client or the
recovery pass is between two accesses to the store. `late` holds requests whose
sender has given up. `starts` are `startMission` calls not made yet, immediate or
timed; `todo` is what is left of the recovery loop.

Each store transaction is one action; each `await` between two of them is a
point where others may act. `VerifyStart`, `VerifyRead`, `ProjectVerified` are
the three store accesses of `verify`. The page fetches and `evidenceSupportsGoal`
are an arbitrary choice of the pages that could be read and, of those, the
supported ones.

Abstractions: time is the question "has this lease expired", which may become
true at any moment (a `now` taken before the queue only makes an operation a
no-op earlier than it would be); receipt and lease ids are fresh (they hash a
timestamp, or are random UUIDs); Goals are active and of the legacy contract;
content, limitation texts, telemetry, known-URL lists and validation of input
are left out; the order in which Finds are notified is arbitrary. `gated` and
`round` are history: whether the current lease came through the claim gate, and
how often the user (re)started the Mission.

`LiveLeaseUndisturbed` is about steps: it allows a change of a record under a live
lease only in the step in which the process that holds this very lease has its
result or failure handled (`StepOf`), or in which such a request nobody waits for
any more is (`Handles`), and then to the record that request asks for.

Bounds of the model, all in guards: `MaxRevision`, `MaxDecisions`,
`MaxRestarts`, `MaxLate`. `MaxAttempts`, `MaxRuns` and `MaxPrior` are constants
of the code (3, 3, 5), taken smaller for TLC. With two attempts, two decisions
and one late request every case the properties speak of occurs: a lease
re-granted after expiry, a late answer after a re-grant, a second round bringing
the same batch, a revision between the verifier's reads.

### HermesIngestion

`receipt[k]` is the entry of one idempotency key, `records[r]` the input a stored
pipeline record was made from (the pipeline is deterministic), `req[p]` a request
between two awaits. `Begin`, `Ingest`, `Complete` and `Fail` are the four awaited
mutations of a request; each is atomic because `AtomicJsonCollection` queues its
mutations and replaces the file by rename. Any of their writes may fail
(`MaxFailedWrites`), and the Kernel may stop between any two (`MaxCrashes`), after
which `RecoverOne` and `ExpireOne` are the iterations of the two start-up loops,
all before the server listens. Expiry is judged by the code at `receivedAt`, not
when the queued mutation runs: `early` remembers that a request was received
before its key's lease ran out. Transport checks are one predicate; they change
nothing.

### CognitivePipeline and ReplayLab

A submission is its event stream's shape, the evidence events, the list of cited
ids (a list, since the gate counts its length), a confidence in hundredths, the
Kernel's claims and the list of comparisons. `Run` is the whole of the
orchestrator, the repository's `validateRecord` included. TLC checks every
submission with two evidence ids, two claims, up to two citations and comparisons,
and confidences on both sides of each threshold of the default policy. The
records `ReplayLab` files are the outcomes `CognitivePipeline` computes. A query
reads records and receipts in either order while ingestions go on between. `asked`
is history: the records filed and the keys completed when the question was put.
Receipts are written with any time, because `receivedAt` comes with a request.

### MemoryAuthority, MemoryReview, MemorySafety

`file` is the durable receipt file. Every repository call is synchronous, so an
execution is one step; what interleaves are callers, which read state and
revision, get approvals and execute later, perhaps twice (`again`) and perhaps
under a request id somebody else uses. The chain of a memory is the set of
places of its receipts in the file; `loads` says that replaying the file gives
the file back, which precedes every operation. A payload stands for its digest.
Receipts altered on disk by somebody else are not modelled. An input holds two
sets of approvals, those of the transition that is validated and those of the
receipt that is stored: `contractBinds` compares them by their ids and nothing else,
as the service does, so the file may name another approver or outcome than the one
it was authorized with. `authorized` is history: the decisions each stored request
was authorized with, which is what `ReusableIsApproved` speaks of. What a caller
states of a memory besides (its impact, its admission record) is taken at its word.
Two receipts are enough for TLC: the theorem holds for chains of any length, and for
first receipts from any state (`GivenStates`; the run has one). `recovery` may
execute nothing; the kernel may execute whatever a human or the founder may, so it
stands for them.

In `MemoryReview` a memory's state moves on its own, so every evaluation can be
stale when it is appended. A recovery review carries whatever its caller claims of
the memory's state, revision and of the policy (`Claims`); nothing compares that
with the authority, when it is stored or later. What holds all the same is that no
review reopens a memory, and that the freshness check lets a review pass only for a
memory that is terminal, and for good until the policy changes. In `MemorySafety`
failures carry references, leave the window as time passes, and may be listed again
with other data; three lists are read in any order.

### PlanExecution and PlanGraph

Stores are transactions; what a caller read before (`call[c]`) may be stale when
its transaction runs. `effects` counts what an adapter did to the outside world
and is written by nothing the code can see, which is what makes "at most once"
worth stating: a crash between the adapter and the record leaves the reservation
in doubt, and only `Reconcile` settles it. `PlanGraph` is the checks on a task
graph, with the depth-first visit as a function of the levels left to it.

### The extension and the dashboard

In `AutoRadar`, `Watchtower` and `ForgePower` each `await` of the source is a
boundary between two actions, storage writes take effect in the order they are
issued, and the service worker may be stopped at any boundary. `DashboardBridge`
keeps the stored connection apart from the change events that announce it
(`changes`), because the code acts on the latter. `DashboardShell` keeps for
every read under way which connection it was started for. `LiveStreams` keeps
both ends of each stream and the proxy between them.

### The Kernel's services

`Captures` is one handler with an await between the inbox line, the projection,
the summary and the note, each of which may fail. `Chat` is a stream's life from
the provider check to the stored exchange, while conversations are evicted and
deleted. `KernelPairing` keeps the token file, the process and the registry, on
disk and in memory, apart. `KernelApi` is what every route has in common: who is
admitted, in which order a request is checked, and the steps after its
transaction; a request keeps whether it was admitted by a rule stated apart from
the gate's. A Mission is its phase there: it may be started over whenever it is not
active, also between the acceptance of a result and the receipt that follows, and a
GET that lists the Missions takes back an expired lease and stores that
(`ReadMissions`). A vault receipt on the record may belong to an earlier attempt,
since `attachMissionObsidianReceipt` looks only at the Mission's id; which attempt it
is of is not told apart. `FindInbox` follows a fetched page to Evidence, Find, inbox
and feedback; a word covers a term it begins with (`startsWith`), and a Mission that
is started over without a person has no authorization, which takes its Finds out of
the scorecard until somebody confirms it. `SharedStore` models files as inodes, so that two writers of one
temporary file meet as they do on disk. `Launcher` has launcher processes and
Kernels that boot in two steps, with reused pids. `DevTasks` writes its files one
at a time under a lock file that a dying process leaves behind.

### The engines

`MissionTasks` and `KnowledgeBase` are managers whose callers hold copies; an entity
is created with the status and Evidence its creator states, which `create` does not
check against each other, so what `VerifiedHasEvidence` excludes is that any other
call leaves one verified without Evidence. `ResearchRun` keeps the attempts that
time-outs leave behind: they go on beside the retry and are accounted for, and what
they do outside is left out. `GoalResolution`
takes a text as the phrases it contains; `HermesSearch` follows one attempt of
the adapter up to the Kernel's verdict on its batch, its private home included,
a URL being what `comparableUrl` keeps of it and what the checks find wrong with it,
a finding also whether its date is one; the clean-up may fail to delete any copied
file (the code ignores that) and `rm` may leave any part of the home and throw;
`WebReading` lets two look-ups of one name differ.

## 3. The runs

Each run asks one question; `PROJECT.json` lists its properties and, for every
property, a mutant of the code (an operator beside the definition it mutates)
under which TLC finds the property violated. Lost answers to a worker occur in the
safety run `leases` only: in `liveness` no request is abandoned (`MaxLate = 0`).

| Run | Properties | Instance and why it is enough |
|---|---|---|
| `leases` | `LeaseExclusive`, `LiveLeaseUndisturbed`, `ImplementsLifecycle` | one Mission, a run and an external worker, two attempts, two decisions, one late request: a lease expires and is granted again while its first holder, and a request nobody waits for, are still on their way |
| `verification` | `GatedWorkStaysAuthorized`, `SealedOnCurrentGround` | two Missions of one Goal, two verifying processes, a revision between any two reads |
| `liveness` | `CompletedMeansSupport`, `FinishedIsFinal`, `WorkEnds` | one Mission with two candidates (so that one may be supported and one not), a crash, a restart, a record an older Kernel left behind |
| `surfaces` | `SurfacesTellTheTruth` | every view over every reachable Mission, the dashboard's from two reads |
| `cognition` | `GatesAgree`, `CaseViewIsTrue`, `AuthorityHolds` | confidences on both sides of every threshold, two of everything cited or compared; two memories, callers, requests and decision ids, one of them with two approvers |
| `user_side` | `EffectsAreSafe`, `CapturesAreWanted`, `BridgeIsFaithful`, `ShellFollowsTheUser` | two calls under one key and two revisions; two pages and two evaluations; two ports and two chunks; two polls and two Case panels |
| `background` | `NotificationsHold`, `ScheduleIsKept`, `FindsReachTheUser`, `ForgeObeys`, `StreamsRecover` | two pollers on a calendar of two ticks a day and two days a week; two wakes of the watchtower; three presses; two tabs |
| `ingestion` | `ReceiptsAreSafe`, `PendingEnds` | two keys and two requests, one crash and one failed write |
| `services` | `CapturesAreKept`, `ChatIsKept`, `PairingIsSafe`, `InboxIsHonest`, `RequestsAreHonoured`, `StoreIsSound`, `LauncherIsSafe`, `DevTasksAreVerified`, `ReviewsAreTrue`, `AdviceIsTrue` | two actors of each component, one or two faults of each kind; three conversations where two are kept; a Goal revised twice; failures over three units of time with windows of one and two |
| `engines` | `TasksAreOrdered`, `EveryConstraintIsAsked`, `PlansAreClosed`, `KnowledgeIsConsistent`, `ResearchIsAccounted`, `SearchIsHonest`, `ReadingIsSafe` | graphs of three tasks, two attempts of a research stage, two searches of the adapter, two redirects |
| `pipeline_block` | `VerifiedMaterialConflictBlocks` (violated) | see section 6 |
| `shared_file` | `SharedFileKeepsRecords` (violated) | see section 6 |

**Bounds.** Every bound is a CONSTANT used in a guard, with its meaning beside
its declaration. Two actors suffice for the races the properties are about,
since each is between a step and one other that overtakes it. Where a theorem of section 4
covers a property, the instance only has to be large enough to find a wrong
formula. Some are deliberately small: `cognition` gives records one moment
(`Times = {1}`, timelines tie); `services` keeps two conversations and four messages
of one (the code keeps 100 of each), so that three streams push a conversation out
while its model answers, and trim one; `user_side` has two revisions of a plan.
Four bounds are stated as formulas in the MC modules: `Plain` (a quarantine, for
which no approval is looked at, comes with one set of them), `FewRecords` (a filed
record has all its evidence), `ShortList` (queries of the safety view are explored
over two failures, the evaluations alone over longer lists) and `SettledFirst` (an
extension is paired before the Goal is stored, and contacts age before it is
revised). `review` and `recovery` explore the two files of `MemoryReview` apart.
The retry policy of `ResearchRun` declines no category there (`Declines = {}`). Actors of
components that never meet share names (`x1`, `x2`, `y1`, `y2`): it keeps the
symmetry set small. Symmetry is used in the runs whose properties are safety
properties only, over sets no definition distinguishes the members of.

**Deadlock** is not checked: users' decisions, faults, crashes and rounds are
bounded, and a system whose user does nothing more rightly stands still.
"Everyone waits" is instead what the liveness properties and
`NoHandlerIsStranded`, `SpinnerHasRead` and the like exclude.

**Fairness** is weak fairness of what the code schedules itself, and of nothing
a user does:

* `FairSpec` (Missions): the steps of processes that exist (their requests carry
  deadlines, their awaits return or fail), the recovery pass, scheduled starts,
  the passing of a lease's time, and the listing the extension and the dashboard poll.
* `IngestionFairness`: request steps, the start-up loops, lease expiry; and
  strong fairness of a client repeating a pending submission, which is what the
  contract asks of it (`docs/hermes-ingestion-contract.md`).
* `MCBackground`: the clock and the pollers, a wake's own steps and the alarm
  that starts one, forge timers and cycles, the proxy's pipe and the browser's
  reconnection.
* `MCEngines`: the stages and time-outs of a research run, each await of the adapter
  and each read of a page, which have timers, and the look-up of a name, which is
  under none and ends because the resolver answers or gives up.

## 4. The proofs

Five modules, each beside the components it is about. Every theorem holds for
every value of the constants; the bounds of section 3 play no part in them.

| Theorem | States | Along |
|---|---|---|
| `TypeCorrect` (MissionsProofs) | `Spec => []TypeOK` | each transformation of a record keeps its type |
| `FinishedMissionsAreFinal` | `FinishedIsFinal` | `RecordInv`, `RecordStep` |
| `LiveLeasesAreUndisturbed` | `LiveLeaseUndisturbed` | `RecordStep` |
| `MissionsImplementLifecycle` | `ImplementsLifecycle` | the same ways, one abstract step each |
| `LeasesAreExclusive` | `LeaseExclusive` | `LeaseInv` |
| `CompletedIsSupported` | `CompletedMeansSupport` | inductive as it stands, of archived attempts too |
| `GatedWorkIsAuthorized` | `GatedWorkStaysAuthorized` | `GatedInv`, `GroundInv` |
| `SealsAreCurrent` | `SealedOnCurrentGround` if `LegacyStranded = {}` | `GroundInv` = `ReceiptInv`, `VerifierInv` |
| `PairingStaysSafe` (ServicesProofs) | `PairingIsSafe` | `PairingInv` |
| `ReviewsStayTrue` | `ReviewsAreTrue` | `ReviewInv` |
| `CapturesStayKept` | `CapturesAreKept` | `CaptureInv` |
| `DevTasksStayVerified` | `DevTasksAreVerified` | `DevInv` |
| `ChatStaysKept` | `ChatIsKept` | `ChatInv` |
| `RequestsAreKept` | `RequestsAreHonoured` | `ApiInv` |
| `LauncherStaysSafe` | `LauncherIsSafe` | `LauncherInv` |
| `StoreStaysSound` | `StoreIsSound` if commands do not overlap | `StoreInv` |
| `AuthorityStands` (CognitionProofs) | `AuthorityHolds` | `AuthorityInv` |
| `GatesStandTogether` | `GatesAgree` if `MinimumEvidenceCount = 1` | `PipelineInv`: the shapes an outcome can have |
| `CaseViewsAreTrue` | `CaseViewIsTrue` | `ReplayInv` |
| `AdviceStaysTrue` | `AdviceIsTrue` | `SafetyInv` |
| `KnowledgeStaysConsistent` (EnginesProofs) | `KnowledgeIsConsistent` | `KnowledgeInv` |
| `TasksStayOrdered` | `TasksAreOrdered` | `TaskInv`, and that an accepted graph has no cycle |
| `ReceiptsStaySafe` | `ReceiptsAreSafe` | `IngestionInv` |
| `EffectsStaySafe` (UserSideProofs) | `EffectsAreSafe` | `GovernanceInv` |
| `CapturesStayWanted` | `CapturesAreWanted` | `RadarInv` |
| `BridgeStaysFaithful` | `BridgeIsFaithful` | `BridgeInv` |
| `ShellKeepsFollowing` | `ShellFollowsTheUser` | `ShellInv` |
| `NotificationsStayTrue` | `NotificationsHold` | `NotificationInv` |
| `SurfacesStayTrue` (MissionsProofs) | `SurfacesTellTheTruth` if `Candidates` is finite | the invariants of `Missions`, one view at a time |
| `InboxStaysHonest` (ServicesProofs) | `InboxIsHonest` | `InboxInv`, `FindsStand` |
| `EveryConstraintStaysAsked` (EnginesProofs) | `EveryConstraintIsAsked` if `MaxQueries >= 16` | `QueriesInv`: the longest plan a text can give |
| `PlansStayClosed` | `PlansAreClosed` if the limits of tasks, dependencies and levels are numbers | the visit, level by level |
| `ResearchStaysTrue` | `ResearchIsAccounted` but that a run ends | `ResearchInv` |
| `ReadsStaySafe` | `ReadingIsSafe` but that a read ends | `WebInv` |
| `ClaimsStayRight`, `SettledClaimsStay` | `ScheduleIsKept` but that claims are made | `SchedulerInv` |
| `AttemptsStayHonest` | `SearchIsHonest` but that an attempt ends | `AttemptInv`, `HomeInv` |
| `ForgeStaysObedient` (UserSideProofs) | `ForgeObeys` but that a press is answered | `ForgeInv` |
| `RefreshingStaysAlive` | of `StreamsRecover`, what refreshing promises at every moment | `HubGood` |
| `FindsAreToldOnce` | `FindsReachTheUser` but that every Find is shown | `TowerInv` |

**Missions.** `RecordStep` says that a step changes a Mission's record in one of
ten ways or not at all; it is proved once, action by action, and the action
properties and the refinement follow from it way by way. `LeaseExclusive` is not
inductive: a lease is exclusive because its id is issued once, so `LeaseInv`
also speaks of the ids of expired leases and of requests that nobody waits for.
`SealedOnCurrentGround` relates what a verifier read before its awaits with the
store it seals in: `VerifierInv` says that what it holds is still what the store
says of the same receipt, `ReceiptInv` that receipts are issued once and are
never ahead of their Goal. The hypothesis `LegacyStranded = {}` is needed: a
revision may overtake a verifier on a record that an older Kernel left running
with its rows written (`goals.mjs` asks only for a verification that is pending).

**Services.** Each invariant says what a handler may rely on after an await.
`PairingInv`: the registry file is written before a token is handed out and is
cleared only under a token nobody holds yet. `CaptureInv`: what a handler has
achieved is never taken back. `DevInv`: every prefix of a round's writes leaves
files that keep the promises. `ChatInv`: conversations are pairs and are trimmed
by an even number. `ApiInv`: a request in flight was admitted, one that waits for
its vault receipt is of a Mission that exists, one that waits for its notes is of a
revision the Goal has reached, one whose client left is never blocked. `LauncherInv`: a nonce names one Kernel for ever, a verified pid
is a Kernel or nobody until the signal, and a stopped Kernel never binds the
port again. `StoreInv`: the temporary file is another inode than `store.json`
until it is whole, and what each program is about to write is closed by itself.
`ReviewInv`: a stale recommendation is still true of the revision it names, and a
review was decided by somebody who may, for another memory. That a fresh review
stays fresh rests on the authority: a terminal memory has no later revision.
`InboxInv`: the Finds that attempts and feedback name carry a receipt and the
stamps they need, which is what every view filters by; the order of the list (what
is told first) follows row by row from the ranks. `SupportIsMonotone`
is of the support rule alone: a conjunction of conditions on sets of words, each of
which more text can only fill, and none of which filler alone fills.

**Cognition.** `PipelineInv` lists the shapes an outcome can have; the
repository accepts each, and the replay lab derives a consistent view from each.
`ReplayInv`: each view shown is built from a filed record and a receipt that
names it, and what a query has read so far holds all that was there when it was
asked. `AuthorityInv`: every chain continues as the projector expects, nothing
follows an end state, and each stored receipt passes the policy with the decisions
it was authorized with. `SafetyInv`: failures only grow, an id is bound to its data
unless it was listed with other data, and a query in which nothing moved has every
entry of the lists it has read.

**Engines.** `KnowledgeInv` speaks of the writes that wait in the queue, and of
creations by what their callers said. `TaskInv`
rests on the lemma that a draft the depth-first visit lets through has, among any
of its tasks, one that depends on none of the others. `IngestionInv`: while the
Kernel starts, every pending receipt whose record is stored is still on the
loop's list. `ResearchInv` ties each attempt a time-out left behind to the events
written for it; `WebInv` says that a connection is to an address that was itself
examined, not to one of an earlier look-up; `HomeInv` that whoever holds the
private home is still there to remove it, or could not. `SchedulerInv` rests on the calendar:
the latest instant of a rule at or before a moment is computed by quotients and
remainders, and the lemmas say that it is one of the rule's instants and that no
other lies between. `PlansStayClosed` follows the visit level by level: what one
visit has closed stays closed for the next. `QueriesInv` is a count: the most
phrases a text can contain give sixteen queries, so no cut drops one.
`AttemptInv` says what the list of results, the reply and the funnel have to do
with each other: nothing is answered while a search is out, and what is answered
adds up, was found and is few. Every filter of the adapter takes the entries of a
list at some of its places, so that what it drops is a number of places
(`EntriesTell`), and the four reasons split the reply into disjoint parts.

**Induction.** The library's induction theorems take an operator, which no
prover here can instantiate. Where a list or a number of levels has no bound, the
proof takes the least counterexample instead (`WFMin` of `WellFoundedInduction`,
or the least element of a set of numbers) and contradicts it.

**The user's side.** `GovernanceInv` has four parts, on plans, records, calls in
flight and effects; an adapter acts only for the call that owns its key.
`RadarInv`: every copy of a list of sites holds sites the user once authorized.
`BridgeInv`: what is on the wire is the rest of one answer. `ShellInv`: a hint no
wave has followed waits for the end of one. `NotificationInv`: the file is behind
the memory, never ahead of it. `ForgeInv`: at most one start is on its way for
the forge's own work, and none after a press that switched it off. `HubGood` holds
of a hub after each of its steps: what it counts, and that it waits for a read or a
timer. `TowerInv`: one inspection at a time; a Find's receipt is remembered, or
this wake made its notification, or a stop or failed delivery accounts for it.

**Missions' surfaces.** `SurfacesStayTrue` needs no invariant of its own: a record
that any view is computed from obeys `TypeOK`, `CompletedMeansSupport` and
`LeaseInv`, and the dashboard's two reads are related by `RecordStep`.

**Assumptions** on constants are named beside their declaration:
`ConstantsAssumption`, `PairingBounds`, `ChatBounds` (the limit on messages is
even; the source's is 100), `ShellNames`, `DraftShape`, `PlanAssumption`,
`BridgeAssumption`, `IngestionAssumption`, `AuthorityAssumption`,
`PolicyAssumption`, `RulesAssumption`, `LauncherAssumption`, `ResearchBounds`,
`WebReadingBounds`, `SchedulerTimes`, `UnreachableIsCounted`, `ForgeGoals`,
`WatchtowerBounds`, `InboxLimits`, `TextsAreFinite`, `FillerIsPlain` (the generic
words of the source are plain words: none is a synonym or an identifier),
`SearchLimits`, `PrivacyIsInTheKey` (what makes a URL private is its host or a name
in its query, which `comparableUrl` keeps; it drops `www.`, so names that are private
only with or only without it, `localhost` and `www.local`, are left out: no public
search answers with their twins), `FilesAreFiles`, `ReplayAssumption`. Each is a shape, a bound that is a number, or a fact of the source;
TLC evaluates them all.

Some theorems have a hypothesis of their own, given in the table. Seals need that
no record of an older Kernel is stranded (above); the store, that commands of the
CLI do not overlap, since two can tear the file (section 6); the gates, the default
minimum, since with a higher one the claim gate counts a citation twice (section
6); the constraints, that a plan may hold sixteen queries, which is the source's
limit and the exact one: with fifteen TLC finds a constraint that is not asked for.
The other two are shapes: candidates are finitely many, limits are numbers.

**What stays with TLC.** Liveness (`WorkEnds`, `PendingEnds`, and what
`ScheduleIsKept`, `FindsReachTheUser`, `ForgeObeys`, `StreamsRecover`,
`ResearchIsAccounted`, `SearchIsHonest`, `ReadingIsSafe` promise of an end),
since the prover handles neither fairness nor ENABLED; and what a definition by
a fold over data returns where no proof needs it: the words `goalCoreTerms` takes
from a title are checked by the run only as far as the queries show them.

## 5. Plan

The models of section 2, the runs of section 3 and the proofs of section 4 are
done. What is left, by what it would say of the system:

1. The parts listed as `partly` in `PROJECT.json`, where they begin to keep state.
2. The liveness properties, if the prover learns ENABLED.

## 6. Findings

Two runs expect a violation:

* `pipeline_block`: `contradiction-engine.test.ts:81` says the engine blocks
  material conflicts with verified claims; the loop at
  `contradiction-engine.ts:56` lets a later material conflict with an unverified
  claim turn the block into a review.
* `shared_file`: `JsonStore.read` in `scripts/hephaestus.mjs` keeps Cases and
  Evidence and writes only these back, which erases the Goals and Missions of the
  store it shares with the Kernel (`brain/BRAIN_LOG.md:222`).

Found by the proofs:

* `claim-validation-gate.ts:45` compares `proposal.evidenceIds.length` with the
  minimum: under a policy of two, one piece cited twice passes. The default is
  one, where it makes no difference.
* Two overlapping commands of the CLI write one temporary file; the second
  truncates what the first is about to rename, so `store.json` can be torn.
* A revision overtakes the verifier of a record stranded by an older Kernel
  (`goals.mjs:186`).
* A user or password that the model writes into the URL of a result sinks its whole
  batch. `comparableUrl` (`hermes-efesto-adapter.mjs:142`) compares without them and
  `normalizeFinding` lets them through, but the Kernel refuses such a finding
  (`agent-mission-executor.mjs:286`) and the batch with it. The adapter drops what
  "would otherwise fail the batch" (`hermes-efesto-adapter.mjs:585`) for its
  syntax only. A `discoveredAt` that is no date does the same: `normalizeFinding`
  (`hermes-efesto-adapter.mjs:757`) passes it on and `normalizeDate`
  (`agent-mission-executor.mjs:323`) throws. `RefusedOnlyForPrivate` names these two
  as the model's only ways.
* Advice that is not stale may have another id when it is made again: a failure id
  listed again with other references, after the old record has left the window,
  changes the hash (`memory-failure-prevention-evaluator.ts:143`), and the staleness
  check compares failure ids only.
* The transition service stores approvals it has not looked at
  (`memory-authority-transition-service.ts:103`): with the ids right, approver and
  outcome on file may differ from those that authorized the transition.
* A recovery review is stored with the state and revision its caller names, of a
  memory that may be neither (`memory-recovery-review-repository.ts:159`).

Other disagreements, kept in the models as the code has them: the idempotency
view of the replay lab (`docs/internal-uat-v0.1.0.md:78`); confirming a Goal
again (`docs/goal-revision.md:34`); one record id shared by two keys in the
recovery; retries of an ingestion (`docs/hermes-ingestion-contract.md:200`); the
orb on the last attempt (`efesto-orb-state.test.js:50`); Finds that cite stale
Evidence (verifier line 309); records that stay visible after a failed poll
(`poll-health.ts:7`); ties of the replay timeline; the chat dock's "La respuesta
parcial no se guardó" for an exchange that was stored after its client left; an
empty Hermes home left behind when a provider or model name is refused; the
bridge accepting Host `[::1]`, which the Kernel's `isDashboardOrigin` does not;
a Goal's remote preference, which is asked of the search but never measured.

States the models reach and no property excludes, since nothing in the
repository promises otherwise: a crash between a seal and its notification; a
recovery pass abandoned half-way (`automatic-mission-recovery:26`); two Kernels
on one receipt file; a retrieval gate's stale report; a claim whose poller died;
the radar's resume timer (`auto-radar:485`); a forge left idle
(`central-forge:52`, `117`); an empty conversation (`server:352`); a stale lock
(`orchestrator-store:165`); a second Kernel that finds the port taken
(`efesto-bootstrap-status:41`); a revision stored whose notes failed
(`server:524`); a plain restart that drops earlier attempts
(`agent-missions:58`); a manual refresh overtaken by a disconnection.

## 7. Not modelled

The legacy memory manager, event log and consolidation; the internal port and
product cohort; Hermes import, log extractor and orchestrator; claims,
relationships, knowledge graph, reports, quality and deduplication; the replay
lab's page and types; access to language models; presentation in the extension,
the dashboard and the web app; connectors, Obsidian, skills, agents and shared
packages; build, acceptance, packaging and Windows scripts. `PROJECT.json`
(`components`) gives the reason for each and, for the parts modelled in part,
what is left out: they hold no state that later decisions read, repeat a shape
that is modelled, or are external programs and page text, of which the models
keep every possible outcome.
