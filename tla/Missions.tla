------------------------------ MODULE Missions ------------------------------
(***************************************************************************)
(* The Mission core of the local Kernel: Goals and their revisions, the    *)
(* persisted Mission records, the leases an agent works under, the Kernel's *)
(* own web.read verification of what the agent brought, the one-click       *)
(* runtime that drives Missions, and its recovery after a restart.          *)
(*                                                                          *)
(* Every LocalKnowledgeStore.project() callback is one atomic step (the     *)
(* store serialises them and replaces its file by rename); everything a     *)
(* process does between two store accesses interleaves with the others.     *)
(*                                                                          *)
(* Time is abstracted to what the code asks of it: whether a lease has      *)
(* expired (LeaseExpires may happen at any moment), and that two decisions  *)
(* are never taken in the same millisecond (receipt ids are fresh).         *)
(***************************************************************************)
EXTENDS Naturals, FiniteSets, Sequences

CONSTANTS
  Goals, Missions,     \* record ids
  GoalOf,              \* the Goal of each Mission (hashed into its id)
  Candidates,          \* public pages an agent may bring
  Slots,               \* concurrent runs, standalone workers, API clients
  Boot,                \* the recovery pass of the one-click runtime
  None,
  Environments,        \* what a (re)start may find: see Env
  ExternalKinds,       \* "worker", "client": who else calls the Kernel
  LegacyStranded,      \* Missions an older Kernel left running/verifying
  MaxAttempts, MaxRuns, MaxPrior,            \* constants of the code
  MaxRevision, MaxDecisions, MaxRestarts, MaxLate   \* bounds of the model

Procs == Slots \cup {Boot}

(* hermesWorkerReady or an ingestion route (ready), the automatic claim gate *)
(* (gate), and the certified read-only runtime (ro).                         *)
Env == [ready : BOOLEAN, gate : BOOLEAN, ro : BOOLEAN]

ASSUME ConstantsAssumption ==
  /\ GoalOf \in [Missions -> Goals]
  /\ Boot \notin Slots
  /\ None \notin Missions
  /\ Environments \subseteq Env
  /\ Environments # {}
  /\ ExternalKinds \subseteq {"worker", "client"}
  /\ LegacyStranded \subseteq Missions
  /\ MaxAttempts \in Nat \ {0}
  /\ MaxRuns \in Nat \ {0}
  /\ MaxPrior \in Nat \ {0}
  /\ {MaxRevision, MaxDecisions, MaxRestarts, MaxLate} \subseteq Nat

VARIABLES
  goal,      \* the revision of each Goal, 0 before it is created
  mission,   \* the persisted Mission records
  evidence,  \* Evidence records: <<mission, candidate>> (their id's basis)
  finds,     \* Opportunities promoted by Kernel SUPPORT
  notices,   \* queued Notifications of supported Finds
  env,       \* what the running Kernel process was started with
  proc,      \* runs, workers, clients and the recovery pass
  starts,    \* startMission calls still to be made (0) or timed (a lease)
  todo,      \* listed Missions the recovery loop has still to handle
  late,      \* result requests whose sender has given up waiting
  receipts,  \* receipt ids issued so far
  leases,    \* lease ids issued so far
  decisions, \* user decisions so far (bounded)
  restarts   \* restarts so far (bounded)

store == <<goal, mission, evidence, finds>>
vars == <<goal, mission, evidence, finds, notices, env, proc, starts, todo,
          late, receipts, leases, decisions, restarts>>

-----------------------------------------------------------------------------
(* Records *)

Statuses == {"none", "waiting_for_agent", "queued", "running", "completed", "failed"}
Phases   == {"none", "queued", "investigating", "verifying", "forged", "failed"}
Rows     == [Candidates -> {"none", "verification_failed", "unsupported", "supported"}]
Reasons  == {"none", "verification_pending", "runtime_read_only_unverified",
             "authorization_missing", "authorization_revision_mismatch"}
Receipt  == [id : Nat, rev : Nat]
Attempt  == [status : Statuses, cands : SUBSET Candidates, rows : Rows]

NoRows == [c \in Candidates |-> "none"]
NoReceipt == [id |-> 0, rev |-> 0]

(* A Mission record. lease = 0: no leaseId/leaseExpiresAt; live: the lease   *)
(* has not expired; sealed: verificationDigest is set. gated and round are   *)
(* history: the current lease was granted by the automatic claim gate, and   *)
(* how many times the user (re)started the Mission.                          *)
MissionRecord ==
  [status : Statuses, phase : Phases, attempt : 0..MaxAttempts,
   lease : Nat, live : BOOLEAN, scope : Nat, auth : Receipt,
   cands : SUBSET Candidates, rows : Rows, sealed : BOOLEAN,
   automaticBlock : Reasons, verificationBlock : Reasons,
   verifyingAt : BOOLEAN, completedAt : BOOLEAN, failedAt : BOOLEAN,
   prior : Seq(Attempt), gated : BOOLEAN, round : Nat]

Absent ==
  [status |-> "none", phase |-> "none", attempt |-> 0, lease |-> 0, live |-> FALSE,
   scope |-> 0, auth |-> NoReceipt, cands |-> {}, rows |-> NoRows, sealed |-> FALSE,
   automaticBlock |-> "none", verificationBlock |-> "none", verifyingAt |-> FALSE,
   completedAt |-> FALSE, failedAt |-> FALSE, prior |-> <<>>, gated |-> FALSE, round |-> 0]

(* A batch read without Kernel SUPPORT, as older Kernels left it. *)
StrandedRecord ==
  [Absent EXCEPT !.status = "running", !.phase = "verifying", !.attempt = 1,
                 !.scope = 1, !.auth = [id |-> 1, rev |-> 1], !.cands = Candidates,
                 !.rows = [c \in Candidates |-> "unsupported"], !.verifyingAt = TRUE,
                 !.round = 1]

(* A process: what it is, where it is, the Mission and lease it works on,    *)
(* how many claims its run has made, and the verification it has under way   *)
(* (receipt id, batch and round it read; pages read; block reason).          *)
Idle == [kind |-> "none", pc |-> "idle", m |-> None, lease |-> 0, tries |-> 0,
         auth |-> 0, cands |-> {}, round |-> 0, out |-> {}, reason |-> "none"]

Kinds == {"none", "run", "worker", "client", "recovery"}
PCs == {"idle", "claim", "work", "reconcile", "report", "verify", "read",
        "block", "commit", "notify", "list", "loop"}
ProcRecord ==
  [kind : Kinds, pc : PCs, m : Missions \cup {None}, lease : Nat, tries : Nat,
   auth : Nat, cands : SUBSET Candidates, round : Nat, out : SUBSET Candidates,
   reason : Reasons]

-----------------------------------------------------------------------------
(* Faulty variants of definitions below, each a plausible slip in the code,   *)
(* used to show that a property notices it.                                   *)

isActive_ignoresRunning(r) == r.status \in {"waiting_for_agent", "queued"}

isClaimable_retriesFailed(r) == r.status \in {"queued", "failed"}

requireActiveLease_ignoresExpiry(r, lease) ==
  r.status = "running" /\ r.lease = lease /\ r.lease # 0

reconcileMission_ignoresExpiry(r) ==
  IF r.status = "waiting_for_agent" /\ env.ready
  THEN [r EXCEPT !.status = "queued", !.phase = "queued"] ELSE r

requireSameCandidateBatch_digestOnly(p, r) ==
  r.status = "running" /\ r.phase = "verifying" /\ r.cands # {} /\ r.cands = proc[p].cands

NewLease_perAttempt(m) == mission[m].attempt + 1

anySupported_anyRead(p, supported) == proc[p].out # {}

-----------------------------------------------------------------------------
(* Predicates and transformations of one Mission record *)

Present(r) == r.status # "none"
Expired(r) == r.lease # 0 /\ ~r.live

isActive(r) ==
  \/ r.status \in {"waiting_for_agent", "queued"}
  \/ r.status = "running" /\ r.lease # 0 /\ r.live

hasFinishedAttempt(r) ==
  \/ r.completedAt \/ r.verifyingAt \/ r.failedAt
  \/ r.rows # NoRows

attemptsLeft(r) == r.attempt < MaxAttempts

isClaimable(r) ==
  r.status = "queued" \/ (r.status = "running" /\ Expired(r) /\ attemptsLeft(r))

requireActiveLease(r, lease) ==
  r.status = "running" /\ r.lease = lease /\ r.lease # 0 /\ r.live

isVerifying(r) == r.status = "running" /\ r.phase = "verifying" /\ r.cands # {}

isSettledVerification(r) == r.sealed /\ r.status \in {"completed", "failed"}

isStranded(r) ==
  /\ isVerifying(r) /\ r.verificationBlock = "none" /\ ~r.live
  /\ \A c \in r.cands : r.rows[c] \in {"verification_failed", "unsupported"}
  /\ \A c \in Candidates : r.rows[c] # "supported"

isVerificationPending(r) ==
  /\ r.status = "running" /\ r.phase = "verifying" /\ r.verificationBlock = "none"
  /\ ~isStranded(r)

(* An attempt that ended without a result: back to the queue, or failed once *)
(* the attempts are used up. (Neither sets failedAt.)                        *)
Requeue(r) ==
  LET next == IF r.attempt >= MaxAttempts THEN "failed" ELSE "queued"
  IN  [r EXCEPT !.status = next, !.phase = next, !.lease = 0, !.live = FALSE,
                !.gated = FALSE]

settleVerificationWithoutFind(r) ==
  [r EXCEPT !.status = "failed", !.phase = "failed", !.failedAt = TRUE,
            !.lease = 0, !.live = FALSE, !.verificationBlock = "none"]

reconcileMission(r) ==
  CASE r.status = "waiting_for_agent" /\ env.ready ->
         [r EXCEPT !.status = "queued", !.phase = "queued"]
    [] isStranded(r) -> settleVerificationWithoutFind(r)
    [] r.status = "running" /\ Expired(r) -> Requeue(r)
    [] OTHER -> r

Reconciled == [m \in Missions |-> reconcileMission(mission[m])]

(* restartMission: everything but the identity starts afresh. *)
restartMission(r, revision, auth) ==
  [Absent EXCEPT !.status = IF env.ready THEN "queued" ELSE "waiting_for_agent",
                 !.scope = revision, !.auth = auth, !.round = r.round + 1]

archivedAttempt(r) == [status |-> r.status, cands |-> r.cands, rows |-> r.rows]

KeepLast(s) == IF Len(s) > MaxPrior THEN SubSeq(s, Len(s) - MaxPrior + 1, Len(s)) ELSE s

searchMoreMission(r, revision, auth) ==
  [restartMission(r, revision, auth) EXCEPT
     !.prior = KeepLast(Append(r.prior, archivedAttempt(r)))]

(* evaluateAutomaticReadOnlyContinuation for a legacy Goal: the receipt must  *)
(* exist and name the Goal's current revision.                                *)
Continuation(m) ==
  CASE mission[m].auth.id = 0 -> "authorization_missing"
    [] mission[m].auth.rev # goal[GoalOf[m]] -> "authorization_revision_mismatch"
    [] OTHER -> "none"

(* AutomaticMissionClaimGate.evaluate: "none" allows the claim. *)
ClaimGate(m) ==
  CASE ~env.gate -> "none"
    [] env.gate /\ mission[m].cands # {} -> "verification_pending"
    [] env.gate /\ mission[m].cands = {} /\ ~env.ro -> "runtime_read_only_unverified"
    [] OTHER -> Continuation(m)

(* A settled or changed batch makes a verification stale. *)
requireSameCandidateBatch(p, r) ==
  /\ isVerifying(r)
  /\ r.auth.id = proc[p].auth
  /\ r.cands = proc[p].cands

Supported(r) == {c \in Candidates : r.rows[c] = "supported"}

-----------------------------------------------------------------------------
Init ==
  /\ goal = [g \in Goals |-> IF \E m \in LegacyStranded : GoalOf[m] = g THEN 1 ELSE 0]
  /\ mission = [m \in Missions |-> IF m \in LegacyStranded THEN StrandedRecord ELSE Absent]
  /\ evidence = LegacyStranded \X Candidates
  /\ finds = {} /\ notices = {}
  /\ env \in Environments
  /\ proc = [p \in Procs |-> Idle]
  /\ starts = {} /\ todo = {} /\ late = {}
  /\ receipts = 1 /\ leases = 0
  /\ decisions = 0 /\ restarts = 0

(* The public port opens once the recovery pass has ended. *)
PortOpen == proc[Boot].pc = "idle"

-----------------------------------------------------------------------------
(* User decisions: goals.mjs and agent-missions.mjs *)

CreateGoal(g) ==
  /\ PortOpen
  /\ goal[g] = 0
  /\ goal' = [goal EXCEPT ![g] = 1]
  /\ UNCHANGED <<mission, evidence, finds, notices, env, proc, starts, todo, late,
                 receipts, leases, decisions, restarts>>

RevisionAllowed_some(own) ==
  \E m \in own : /\ ~(mission[m].status = "running" /\ isActive(mission[m]))
                 /\ ~isVerificationPending(mission[m])

RevisionAllowed(own) ==
  \A m \in own : /\ ~(mission[m].status = "running" /\ isActive(mission[m]))
                 /\ ~isVerificationPending(mission[m])

Rescoped(r, g) ==
  [r EXCEPT !.scope = goal[g] + 1,
            !.auth = IF r.auth.id = 0 THEN r.auth
                     ELSE [id |-> receipts + 1, rev |-> goal[g] + 1]]

(* GoalManager.revise with changed content: refused while an agent works     *)
(* under a live lease or a batch awaits verification; Missions that have not  *)
(* started follow the new text and, if authorized, get a receipt for it.      *)
ReviseGoal(g) ==
  LET own == {m \in Missions : GoalOf[m] = g}
  IN
  /\ PortOpen
  /\ decisions < MaxDecisions
  /\ goal[g] > 0 /\ goal[g] < MaxRevision
  /\ RevisionAllowed(own)
  /\ goal' = [goal EXCEPT ![g] = goal[g] + 1]
  /\ mission' = [m \in Missions |->
       IF m \in own /\ isActive(mission[m]) THEN Rescoped(mission[m], g) ELSE mission[m]]
  /\ receipts' = receipts + 1
  /\ decisions' = decisions + 1
  /\ UNCHANGED <<evidence, finds, notices, env, proc, starts, todo, late, leases, restarts>>

NewReceipt(m, actor) ==
  IF actor THEN [id |-> receipts + 1, rev |-> goal[GoalOf[m]]] ELSE NoReceipt

(* The kernel proxy starts a run for the Mission a create request returned.   *)
Respond(m, r) ==
  starts' = IF r.status \in {"queued", "running"}
            THEN starts \cup {[m |-> m, after |-> 0]} ELSE starts

(* AgentMissionManager.create while the Mission is active: at most a receipt  *)
(* is added. actor: the request came from an interactive surface.             *)
ConfirmActive(m, actor) ==
  LET r == mission[m]
      next == IF r.auth.id # 0 \/ ~actor THEN r
              ELSE [r EXCEPT !.auth = NewReceipt(m, actor)]
  IN
  /\ PortOpen
  /\ decisions < MaxDecisions
  /\ isActive(r)
  /\ mission' = [mission EXCEPT ![m] = next]
  /\ Respond(m, next)
  /\ receipts' = IF actor THEN receipts + 1 ELSE receipts
  /\ decisions' = decisions + 1
  /\ UNCHANGED <<goal, evidence, finds, notices, env, proc, todo, late, leases, restarts>>

(* ... and when it is not: a new Mission, a restart, or "Buscar mas".         *)
StartMission(m, mode, actor) ==
  LET r == mission[m]
      receipt == NewReceipt(m, actor)
      next == IF mode = "search_more"
              THEN searchMoreMission(r, goal[GoalOf[m]], receipt)
              ELSE restartMission(r, goal[GoalOf[m]], receipt)
  IN
  /\ PortOpen
  /\ decisions < MaxDecisions
  /\ goal[GoalOf[m]] > 0
  /\ ~isActive(r)
  /\ mode = "search_more" => actor /\ Present(r) /\ hasFinishedAttempt(r)
  /\ mission' = [mission EXCEPT ![m] = next]
  /\ Respond(m, next)
  /\ receipts' = IF actor THEN receipts + 1 ELSE receipts
  /\ decisions' = decisions + 1
  /\ UNCHANGED <<goal, evidence, finds, notices, env, proc, todo, late, leases, restarts>>

-----------------------------------------------------------------------------
(* Time and the reconciling Mission list *)

LeaseExpires(m) ==
  /\ mission[m].live
  /\ mission' = [mission EXCEPT ![m].live = FALSE]
  /\ UNCHANGED <<goal, evidence, finds, notices, env, proc, starts, todo, late,
                 receipts, leases, decisions, restarts>>

List ==
  /\ Reconciled # mission
  /\ mission' = Reconciled
  /\ UNCHANGED <<goal, evidence, finds, notices, env, proc, starts, todo, late,
                 receipts, leases, decisions, restarts>>

-----------------------------------------------------------------------------
(* Starting processes *)

At(p, pc) == proc[p].pc = pc
Become(p, r) == proc' = [proc EXCEPT ![p] = r]
Goto(p, pc) == Become(p, [proc[p] EXCEPT !.pc = pc])
Stop(p) == Become(p, Idle)

(* startMissionRuntime: ignored while a run of the Mission is active. A timed *)
(* start fires once the lease it waited for is over.                          *)
StartRun(x, p) ==
  LET busy == \E q \in Slots : proc[q].kind = "run" /\ proc[q].m = x.m
      over == ~(mission[x.m].lease = x.after /\ mission[x.m].live)
  IN
  /\ x.after = 0 \/ over
  /\ starts' = starts \ {x}
  /\ IF busy THEN proc' = proc
     ELSE /\ proc[p] = Idle
          /\ Become(p, [Idle EXCEPT !.kind = "run", !.pc = "claim", !.m = x.m, !.tries = 1])
  /\ UNCHANGED <<goal, mission, evidence, finds, notices, env, todo, late,
                 receipts, leases, decisions, restarts>>

(* A standalone Hermes worker, or an API client that asks for verification.   *)
StartExternal(p, m, kind) ==
  /\ PortOpen
  /\ proc[p] = Idle
  /\ Present(mission[m])
  /\ Become(p, [Idle EXCEPT !.kind = kind, !.m = m, !.tries = 1,
                            !.pc = IF kind = "worker" THEN "claim" ELSE "verify"])
  /\ UNCHANGED <<goal, mission, evidence, finds, notices, env, starts, todo, late,
                 receipts, leases, decisions, restarts>>

-----------------------------------------------------------------------------
(* claim, complete and fail, as the Kernel handles the request *)

(* A random leaseId: never one that was used before. *)
NewLease(m) == leases + 1

(* AgentMissionExecutor.claim: the record it leaves. *)
Claimed(m) ==
  LET r == mission[m] IN
  IF ClaimGate(m) # "none" THEN [r EXCEPT !.automaticBlock = ClaimGate(m)]
  ELSE IF ~attemptsLeft(r) THEN r
  ELSE [r EXCEPT !.status = "running", !.phase = "investigating",
                 !.attempt = r.attempt + 1, !.lease = NewLease(m), !.live = TRUE,
                 !.automaticBlock = "none", !.gated = env.gate]

Grants(m) == isClaimable(mission[m]) /\ ClaimGate(m) = "none" /\ attemptsLeft(mission[m])

(* #recordSearchCandidates: an exact replay changes nothing; otherwise the    *)
(* lease must be active. No findings complete the Mission at once.            *)
SameBatch(r, batch) == r.phase = "verifying" /\ r.cands = batch
Accepts(r, lease, batch) == SameBatch(r, batch) \/ requireActiveLease(r, lease)
Recorded(r, batch) ==
  IF SameBatch(r, batch) THEN r
  ELSE IF batch = {}
  THEN [r EXCEPT !.status = "completed", !.completedAt = TRUE, !.phase = "none",
                 !.lease = 0, !.live = FALSE, !.cands = {}]
  ELSE [r EXCEPT !.status = "running", !.phase = "verifying", !.verifyingAt = TRUE,
                 !.cands = batch, !.lease = 0, !.live = FALSE]

HandleResult(m, lease, batch) ==
  IF Accepts(mission[m], lease, batch)
  THEN mission' = [mission EXCEPT ![m] = Recorded(mission[m], batch)]
  ELSE mission' = mission

HandleFailure(m, lease) ==
  IF requireActiveLease(mission[m], lease)
  THEN mission' = [mission EXCEPT ![m] = Requeue(mission[m])]
  ELSE mission' = mission

HandleClaim(m) ==
  /\ mission' = IF isClaimable(mission[m]) THEN [mission EXCEPT ![m] = Claimed(m)]
                ELSE mission
  /\ leases' = IF Grants(m) THEN leases + 1 ELSE leases

(* A request its sender stopped waiting for is still handled (or dropped by a *)
(* restart).                                                                  *)
TimesOut(kind, m, lease, batch) ==
  /\ Cardinality(late) < MaxLate
  /\ late' = late \cup {[kind |-> kind, m |-> m, lease |-> lease, batch |-> batch]}

DeliverLate(x) ==
  /\ late' = late \ {x}
  /\ \/ x.kind = "claim" /\ HandleClaim(x.m)
     \/ x.kind = "result" /\ HandleResult(x.m, x.lease, x.batch) /\ leases' = leases
     \/ x.kind = "failure" /\ HandleFailure(x.m, x.lease) /\ leases' = leases
  /\ UNCHANGED <<goal, evidence, finds, notices, env, proc, starts, todo,
                 receipts, decisions, restarts>>

-----------------------------------------------------------------------------
(* The Hermes mission worker: hermes-mission-worker.mjs and, for a run, the   *)
(* loop of one-click-kernel.mjs around it                                     *)

(* What follows a submission: a run asks for verification, then ends.         *)
AfterSubmit(p, r) ==
  IF r.phase = "verifying" /\ proc[p].kind = "run"
  THEN Become(p, [proc[p] EXCEPT !.pc = "verify", !.lease = 0])
  ELSE Stop(p)

(* What follows a failed attempt: a run claims again, up to MaxRuns times.    *)
AfterFailure(p) ==
  IF proc[p].kind = "run" /\ proc[p].tries < MaxRuns
  THEN Become(p, [proc[p] EXCEPT !.pc = "claim", !.lease = 0, !.tries = proc[p].tries + 1])
  ELSE Stop(p)

(* Nothing to claim (204): the worker is idle, and a run ends. *)
AfterRefusedClaim(p) == Stop(p)

Claim(p) ==
  LET m == proc[p].m IN
  /\ At(p, "claim")
  /\ \/ /\ HandleClaim(m)
        /\ IF Grants(m)
           THEN Become(p, [proc[p] EXCEPT !.pc = "work", !.lease = NewLease(m)])
           ELSE AfterRefusedClaim(p)
        /\ late' = late
     \/ /\ TimesOut("claim", m, 0, {})
        /\ Stop(p)
        /\ UNCHANGED <<mission, leases>>
  /\ UNCHANGED <<goal, evidence, finds, notices, env, starts, todo,
                 receipts, decisions, restarts>>

(* The adapter answered with findings (deduplicated by URL): POST results.    *)
Submit(p, batch) ==
  LET m == proc[p].m IN
  /\ At(p, "work")
  /\ \/ /\ HandleResult(m, proc[p].lease, batch)
        /\ IF Accepts(mission[m], proc[p].lease, batch)
           THEN AfterSubmit(p, Recorded(mission[m], batch))
           ELSE Goto(p, "reconcile")
        /\ late' = late
     \/ /\ TimesOut("result", m, proc[p].lease, batch)
        /\ Goto(p, "reconcile")
        /\ mission' = mission
  /\ UNCHANGED <<goal, evidence, finds, notices, env, starts, todo, receipts, leases,
                 decisions, restarts>>

(* The adapter crashed, timed out or answered nonsense. *)
AdapterFails(p) ==
  /\ At(p, "work")
  /\ Goto(p, "report")
  /\ UNCHANGED <<goal, mission, evidence, finds, notices, env, starts, todo, late,
                 receipts, leases, decisions, restarts>>

(* reconcileSettledMission: was the submission recorded after all? The GET    *)
(* itself reconciles the list; when it fails the attempt counts as failed.    *)
Reconcile(p) ==
  LET r == Reconciled[proc[p].m] IN
  /\ At(p, "reconcile")
  /\ \/ /\ mission' = Reconciled
        /\ IF r.status = "completed" \/ r.phase = "verifying"
           THEN AfterSubmit(p, r) ELSE Goto(p, "report")
     \/ /\ Goto(p, "report")
        /\ mission' = mission
  /\ UNCHANGED <<goal, evidence, finds, notices, env, starts, todo, late, receipts, leases,
                 decisions, restarts>>

(* POST failures: handled (or refused), or never answered. *)
Report(p) ==
  LET m == proc[p].m IN
  /\ At(p, "report")
  /\ \/ HandleFailure(m, proc[p].lease) /\ late' = late
     \/ /\ TimesOut("failure", m, proc[p].lease, {})
        /\ mission' = mission
  /\ AfterFailure(p)
  /\ UNCHANGED <<goal, evidence, finds, notices, env, starts, todo, receipts, leases,
                 decisions, restarts>>

-----------------------------------------------------------------------------
(* MissionSearchCandidateVerifier.verify *)

(* The call returns, or throws: a run or client ends either way, the recovery *)
(* loop goes on, or is abandoned.                                             *)
VerifyReturns(p) ==
  /\ Become(p, IF p = Boot THEN [Idle EXCEPT !.kind = "recovery", !.pc = "loop"] ELSE Idle)
  /\ todo' = todo
VerifyThrows(p) ==
  /\ Stop(p)
  /\ todo' = IF p = Boot THEN {} ELSE todo

Notifying(p, pages) == Become(p, [proc[p] EXCEPT !.pc = "notify", !.out = pages])

Blocking(p, r, reason) ==
  Become(p, [proc[p] EXCEPT !.pc = "block", !.reason = reason,
                            !.auth = r.auth.id, !.cands = r.cands])

VerifyStart(p) ==
  LET m == proc[p].m  r == mission[m] IN
  /\ At(p, "verify")
  /\ \/ /\ isSettledVerification(r)
        /\ Notifying(p, Supported(r)) /\ todo' = todo
     \/ /\ ~isSettledVerification(r) /\ ~isVerifying(r)
        /\ VerifyThrows(p)
     \/ /\ isVerifying(r) /\ Continuation(m) # "none"
        /\ Blocking(p, r, Continuation(m)) /\ todo' = todo
     \/ /\ isVerifying(r) /\ Continuation(m) = "none"
        /\ Become(p, [proc[p] EXCEPT !.pc = "read", !.auth = r.auth.id,
                                     !.cands = r.cands, !.round = r.round])
        /\ todo' = todo
  /\ UNCHANGED <<goal, mission, evidence, finds, notices, env, starts, late,
                 receipts, leases, decisions, restarts>>

(* Every candidate page has been fetched (pages: the ones that could be read) *)
(* and the store is read again.                                               *)
VerifyRead(p, pages) ==
  LET m == proc[p].m  r == mission[m] IN
  /\ At(p, "read")
  /\ \/ /\ isSettledVerification(r)
        /\ Notifying(p, Supported(r)) /\ todo' = todo
     \/ /\ ~isSettledVerification(r) /\ ~requireSameCandidateBatch(p, r)
        /\ VerifyThrows(p)
     \/ /\ requireSameCandidateBatch(p, r) /\ Continuation(m) # "none"
        /\ Blocking(p, r, Continuation(m)) /\ todo' = todo
     \/ /\ requireSameCandidateBatch(p, r) /\ Continuation(m) = "none"
        /\ pages \subseteq proc[p].cands
        /\ Become(p, [proc[p] EXCEPT !.pc = "commit", !.out = pages])
        /\ todo' = todo
  /\ UNCHANGED <<goal, mission, evidence, finds, notices, env, starts, late,
                 receipts, leases, decisions, restarts>>

(* #recordBlock *)
RecordBlock(p) ==
  LET m == proc[p].m IN
  /\ At(p, "block")
  /\ IF requireSameCandidateBatch(p, mission[m])
     THEN /\ mission' = [mission EXCEPT ![m].verificationBlock = proc[p].reason]
          /\ VerifyReturns(p)
     ELSE mission' = mission /\ VerifyThrows(p)
  /\ UNCHANGED <<goal, evidence, finds, notices, env, starts, late,
                 receipts, leases, decisions, restarts>>

(* The verification row of each candidate: supported \subseteq pages read.    *)
Verdicts(p, supported) ==
  [c \in Candidates |-> IF c \in supported THEN "supported"
                        ELSE IF c \in proc[p].out THEN "unsupported"
                        ELSE IF c \in proc[p].cands THEN "verification_failed"
                        ELSE "none"]

anySupported(p, supported) == supported # {}

Sealed(p, r, supported) ==
  LET base == [r EXCEPT !.rows = Verdicts(p, supported), !.sealed = TRUE]
  IN  IF anySupported(p, supported)
      THEN [base EXCEPT !.status = "completed", !.phase = "forged",
                        !.completedAt = TRUE, !.verificationBlock = "none"]
      ELSE settleVerificationWithoutFind(base)

(* #projectVerified: Evidence for every page read, a Find for every supported *)
(* one, and the Mission sealed, in one store transaction.                     *)
ProjectVerified(p, supported) ==
  LET m == proc[p].m  r == mission[m] IN
  /\ At(p, "commit") /\ proc[p].out # {}
  /\ \/ /\ isSettledVerification(r)
        /\ Notifying(p, Supported(r))
        /\ UNCHANGED <<mission, evidence, finds, todo>>
     \/ /\ ~isSettledVerification(r) /\ ~requireSameCandidateBatch(p, r)
        /\ VerifyThrows(p)
        /\ UNCHANGED <<mission, evidence, finds>>
     \/ /\ requireSameCandidateBatch(p, r)
        /\ supported \subseteq proc[p].out
        /\ mission' = [mission EXCEPT ![m] = Sealed(p, r, supported)]
        /\ evidence' = evidence \cup ({m} \X proc[p].out)
        /\ finds' = finds \cup ({m} \X supported)
        /\ Notifying(p, supported)
        /\ todo' = todo
  /\ UNCHANGED <<goal, notices, env, starts, late, receipts, leases, decisions, restarts>>

(* #recordFailures: no page could be read. *)
RecordFailures(p) ==
  LET m == proc[p].m  r == mission[m] IN
  /\ At(p, "commit") /\ proc[p].out = {}
  /\ IF requireSameCandidateBatch(p, r)
     THEN /\ mission' = [mission EXCEPT ![m] = Sealed(p, r, {})]
          /\ VerifyReturns(p)
     ELSE mission' = mission /\ VerifyThrows(p)
  /\ UNCHANGED <<goal, evidence, finds, notices, env, starts, late, receipts, leases,
                 decisions, restarts>>

(* queueSupportedFindNotifications: one gateway.queue per supported Find. The *)
(* dedupe key names the Find; a key queued before with another createdAt (any *)
(* other millisecond) is a conflict, which ends the call.                     *)
NotifyNext(p, c) ==
  LET key == <<proc[p].m, c>> IN
  /\ At(p, "notify") /\ c \in proc[p].out
  /\ Become(p, [proc[p] EXCEPT !.out = proc[p].out \ {c}])
  /\ notices' = notices \cup {key}
  /\ UNCHANGED <<goal, mission, evidence, finds, env, starts, todo, late, receipts, leases,
                 decisions, restarts>>

NotifyConflict(p) ==
  /\ At(p, "notify")
  /\ \E c \in proc[p].out : <<proc[p].m, c>> \in notices
  /\ VerifyThrows(p)
  /\ UNCHANGED <<goal, mission, evidence, finds, notices, env, starts, late,
                 receipts, leases, decisions, restarts>>

NotifyDone(p) ==
  /\ At(p, "notify") /\ proc[p].out = {}
  /\ VerifyReturns(p)
  /\ UNCHANGED <<goal, mission, evidence, finds, notices, env, starts, late,
                 receipts, leases, decisions, restarts>>

-----------------------------------------------------------------------------
(* Restart and recovery: one-click-kernel.mjs, automatic-mission-recovery.mjs *)

(* The Kernel and the one-click runtime stop and start again: the store and   *)
(* the notification receipts survive, runs, timers and open requests do not,  *)
(* a standalone worker lives on.                                              *)
Restart ==
  /\ restarts < MaxRestarts
  /\ restarts' = restarts + 1
  /\ env' \in Environments
  /\ proc' = [p \in Procs |->
       IF p = Boot THEN [Idle EXCEPT !.kind = "recovery", !.pc = "list"]
       ELSE IF proc[p].kind = "worker" THEN proc[p] ELSE Idle]
  /\ starts' = {} /\ todo' = {} /\ late' = {}
  /\ UNCHANGED <<goal, mission, evidence, finds, notices, receipts, leases, decisions>>

(* The first request of the recovery pass lists (and reconciles) the Missions;*)
(* without an API token or an answer there is no recovery.                    *)
RecoveryWork(records) ==
  {[m |-> m, do |-> "verify", after |-> 0] :
      m \in {n \in Missions : isVerifying(records[n])}}
  \cup {[m |-> m, do |-> "start", after |-> 0] :
      m \in {n \in Missions : records[n].status = "queued"}}
  \cup {[m |-> m, do |-> "start", after |-> records[m].lease] :
      m \in {n \in Missions : records[n].status = "running"
                              /\ records[n].phase = "investigating" /\ records[n].live}}

RecoverList ==
  /\ At(Boot, "list")
  /\ \/ /\ mission' = Reconciled
        /\ todo' = RecoveryWork(Reconciled)
        /\ Goto(Boot, "loop")
     \/ /\ Stop(Boot)
        /\ UNCHANGED <<mission, todo>>
  /\ UNCHANGED <<goal, evidence, finds, notices, env, starts, late, receipts, leases,
                 decisions, restarts>>

RecoverNext(x) ==
  /\ At(Boot, "loop")
  /\ todo' = todo \ {x}
  /\ \/ /\ x.do = "verify"
        /\ Become(Boot, [proc[Boot] EXCEPT !.pc = "verify", !.m = x.m])
        /\ starts' = starts
     \/ /\ x.do = "start"
        /\ starts' = starts \cup {[m |-> x.m, after |-> x.after]}
        /\ proc' = proc
  /\ UNCHANGED <<goal, mission, evidence, finds, notices, env, late, receipts, leases,
                 decisions, restarts>>

RecoverEnd ==
  /\ At(Boot, "loop") /\ todo = {}
  /\ Stop(Boot)
  /\ UNCHANGED <<goal, mission, evidence, finds, notices, env, starts, todo, late,
                 receipts, leases, decisions, restarts>>

-----------------------------------------------------------------------------
WorkerStep(p) ==
  \/ Claim(p) \/ AdapterFails(p) \/ Reconcile(p) \/ Report(p)
  \/ \E batch \in SUBSET Candidates : Submit(p, batch)

VerifierStep(p) ==
  \/ VerifyStart(p) \/ RecordBlock(p) \/ RecordFailures(p)
  \/ \E pages \in SUBSET Candidates : VerifyRead(p, pages) \/ ProjectVerified(p, pages)
  \/ \E c \in Candidates : NotifyNext(p, c)
  \/ NotifyConflict(p) \/ NotifyDone(p)

RecoveryStep == RecoverList \/ RecoverEnd \/ \E x \in todo : RecoverNext(x)

UserStep ==
  \/ \E g \in Goals : CreateGoal(g) \/ ReviseGoal(g)
  \/ \E m \in Missions, actor \in BOOLEAN :
       ConfirmActive(m, actor)
       \/ \E mode \in {"restart", "search_more"} : StartMission(m, mode, actor)

Launch(x) == \E p \in Slots : StartRun(x, p)

Next ==
  \/ UserStep
  \/ \E m \in Missions : LeaseExpires(m)
  \/ List
  \/ \E x \in starts : Launch(x)
  \/ \E p \in Slots, m \in Missions, kind \in ExternalKinds : StartExternal(p, m, kind)
  \/ \E x \in late : DeliverLate(x)
  \/ \E p \in Procs : WorkerStep(p) \/ VerifierStep(p)
  \/ RecoveryStep
  \/ Restart

Spec == Init /\ [][Next]_vars

-----------------------------------------------------------------------------
(* Fairness. Every process of the Kernel's host keeps taking its steps (each  *)
(* request has a deadline, the adapter is killed at its timeout), the event   *)
(* loop gets to every scheduled start, leases expire, and a client (the       *)
(* dashboard's poller) keeps listing the Missions.                            *)
Fairness ==
  /\ \A p \in Procs : WF_vars(WorkerStep(p)) /\ WF_vars(VerifierStep(p))
  /\ WF_vars(RecoveryStep)
  /\ WF_vars(\E x \in starts : Launch(x))
  /\ \A m \in Missions : WF_vars(LeaseExpires(m))
  /\ WF_vars(List)

FairSpec == Spec /\ Fairness

-----------------------------------------------------------------------------
(* Properties *)

(* Every variable keeps its shape, and a process that is doing something has  *)
(* a Mission to do it on.                                                     *)
TypeOK ==
  /\ goal \in [Goals -> Nat]
  /\ mission \in [Missions -> MissionRecord]
  /\ evidence \subseteq Missions \X Candidates
  /\ finds \subseteq Missions \X Candidates
  /\ notices \subseteq Missions \X Candidates
  /\ env \in Env
  /\ proc \in [Procs -> ProcRecord]
  /\ \A p \in Procs : proc[p].pc \notin {"idle", "list", "loop"} => proc[p].m \in Missions
  /\ starts \subseteq [m : Missions, after : Nat]
  /\ todo \subseteq [m : Missions, do : {"verify", "start"}, after : Nat]
  /\ late \subseteq [kind : {"claim", "result", "failure"}, m : Missions,
                     lease : Nat, batch : SUBSET Candidates]
  /\ receipts \in Nat /\ leases \in Nat /\ decisions \in Nat /\ restarts \in Nat

(* No two processes ever both hold the right to report on the same Mission:   *)
(* of all the agents still working, at most one has the Mission's live lease, *)
(* however many leases expired, were re-granted or were granted to a request  *)
(* nobody waits for any more.                                                 *)
HoldsLease(p) ==
  /\ proc[p].pc \in {"work", "reconcile", "report"}
  /\ requireActiveLease(mission[proc[p].m], proc[p].lease)

LeaseExclusive ==
  \A p, q \in Procs :
    HoldsLease(p) /\ HoldsLease(q) /\ proc[p].m = proc[q].m => p = q

(* This step is the request of somebody who holds the lease of m, about m:    *)
(* of the process p, which takes the step and nobody else, or of the request  *)
(* x nobody waits for any more, which is handled now.                         *)
StepOf(p, pc, m) ==
  /\ At(p, pc) /\ proc[p].m = m /\ proc[p].lease = mission[m].lease
  /\ proc'[p].pc # pc /\ \A q \in Procs \ {p} : proc'[q] = proc[q]
Handles(x, kind, m) ==
  /\ x \in late \ late' /\ x.kind = kind /\ x.m = m /\ x.lease = mission[m].lease

ResultHandled(m, batch) ==
  \/ \E p \in Procs : StepOf(p, "work", m)
  \/ \E x \in late : Handles(x, "result", m) /\ x.batch = batch
FailureHandled(m) ==
  \/ \E p \in Procs : StepOf(p, "report", m)
  \/ \E x \in late : Handles(x, "failure", m)

(* While a lease is live nobody disturbs the attempt: apart from its expiry,  *)
(* and a receipt added by a decision of the user, the record only changes in  *)
(* a step that handles the result or the failure of whoever holds that very   *)
(* lease, and then to what that request asks for. (Listing, recovery,         *)
(* restarts, revisions, verifications, other claims and requests under an     *)
(* older lease leave it alone, whatever the holder is doing meanwhile.)       *)
LiveLeaseUndisturbed ==
  [][\A m \in Missions :
       mission[m].live /\ mission'[m] # mission[m] =>
         \/ mission'[m] = [mission[m] EXCEPT !.live = FALSE]
         \/ /\ decisions' = decisions + 1
            /\ mission'[m] = [mission[m] EXCEPT !.auth = mission'[m].auth]
         \/ \E batch \in SUBSET Candidates :
              ResultHandled(m, batch) /\ mission'[m] = Recorded(mission[m], batch)
         \/ FailureHandled(m) /\ mission'[m] = Requeue(mission[m])]_vars

(* A finished Mission stays exactly as it finished (late answers, stale       *)
(* verifications, reconciliation and recovery included) until the user        *)
(* explicitly starts it again.                                                *)
Finished(r) == r.status \in {"completed", "failed"}

FinishedIsFinal ==
  [][\A m \in Missions :
       Finished(mission[m]) /\ mission'[m] # mission[m] =>
         /\ mission'[m].round = mission[m].round + 1
         /\ decisions' = decisions + 1]_vars

(* Work an automatic claim started stays authorized for the Goal revision it  *)
(* started under: neither a live lease nor its batch awaiting verification    *)
(* can be overtaken by a revision, so no batch is stranded behind             *)
(* authorization_revision_mismatch.                                           *)
GatedWorkStaysAuthorized ==
  \A m \in Missions :
    mission[m].gated /\ (mission[m].live \/ isVerifying(mission[m])) =>
      /\ mission[m].auth.id # 0
      /\ mission[m].auth.rev = goal[GoalOf[m]]
      /\ mission[m].verificationBlock = "none"

(* A Find is forged only under a receipt for the revision the Goal has at     *)
(* that moment, although the store was last checked a transaction earlier.    *)
ForgedUnderAuthorizedRevision ==
  [][\A m \in Missions :
       mission[m].phase # "forged" /\ mission'[m].phase = "forged" =>
         /\ mission[m].auth.id # 0
         /\ mission[m].auth.rev = goal[GoalOf[m]]]_vars

(* The verdicts a Mission is sealed with were read for the attempt being      *)
(* sealed, never for an earlier one that happened to bring the same batch.    *)
VerdictsFromThisRound ==
  [][\A m \in Missions :
       ~mission[m].sealed /\ mission'[m].sealed =>
         \E p \in Procs : /\ At(p, "commit") /\ proc[p].m = m
                          /\ proc[p].round = mission[m].round]_vars

(* A Mission is sealed on current ground only: the Goal's revision is the     *)
(* authorized one, and the verdicts are those of the attempt being sealed.    *)
SealedOnCurrentGround == ForgedUnderAuthorizedRevision /\ VerdictsFromThisRound

(* Completado is reserved for Kernel SUPPORT: a completed Mission that        *)
(* brought candidates has a supported one; and every verified row, of the     *)
(* current attempt or of an archived one, links to stored Evidence, every     *)
(* supported one to a Find.                                                   *)
RowsLink(m, rows) ==
  \A c \in Candidates :
    /\ rows[c] \in {"supported", "unsupported"} => <<m, c>> \in evidence
    /\ rows[c] = "supported" => <<m, c>> \in finds

CompletedMeansSupport ==
  \A m \in Missions :
    /\ mission[m].status = "completed" /\ mission[m].cands # {} => Supported(mission[m]) # {}
    /\ RowsLink(m, mission[m].rows)
    /\ \A i \in DOMAIN mission[m].prior : RowsLink(m, mission[m].prior[i].rows)

(* Every run of the one-click runtime ends, so that its Mission can be        *)
(* started again (an activeRuns entry that never settled would forbid it).    *)
RunsEnd ==
  \A p \in Slots : proc[p].kind = "run" ~> proc[p].kind # "run"

(* No Mission stays under investigation for ever: its agent reports, or its   *)
(* lease expires and the next listing takes it back.                          *)
InvestigationEnds ==
  \A m \in Missions :
    mission[m].phase = "investigating" ~> mission[m].phase # "investigating"

(* Work ends: neither a run nor an investigation goes on for ever, through    *)
(* agents that never report, expired leases and restarts of the Kernel.       *)
WorkEnds == RunsEnd /\ InvestigationEnds

-----------------------------------------------------------------------------
(* What the records amount to: the abstract Mission lifecycle, seen through   *)
(* LifeOf.                                                                     *)

LifeOf(r) ==
  CASE r.status = "none" -> "absent"
    [] r.status \in {"waiting_for_agent", "queued"} -> "ready"
    [] r.status = "running" /\ r.phase # "verifying" /\ r.live -> "leased"
    [] r.status = "running" /\ r.phase # "verifying" /\ ~r.live -> "lapsed"
    [] r.status = "running" /\ r.phase = "verifying" -> "pending"
    [] r.status = "completed" /\ r.phase = "forged" -> "forged"
    [] r.status = "completed" /\ r.phase # "forged" -> "empty"
    [] r.status = "failed" -> "failed"

lifeOf == [m \in Missions |-> LifeOf(mission[m])]
budgetOf == [m \in Missions |-> MaxAttempts - mission[m].attempt]

Lifecycle == INSTANCE MissionLifecycle WITH life <- lifeOf, budget <- budgetOf

(* Every behaviour of the Mission core (leases, late requests, stale          *)
(* verifications, restarts and recovery included) is, seen through LifeOf, a  *)
(* behaviour of the abstract lifecycle.                                       *)
ImplementsLifecycle == Lifecycle!Spec

=============================================================================
