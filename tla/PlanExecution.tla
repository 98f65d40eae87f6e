---------------------------- MODULE PlanExecution ----------------------------
(***************************************************************************)
(* From a Goal to an external effect: the Kernel's governed path           *)
(* (packages/kernel/src/{capability,proposed-plan,approval,                *)
(* goal-evaluation,execution}).  One Goal, one proposed plan with          *)
(* immutable revisions, approval receipts bound to one revision, and the   *)
(* execution engine, which reserves an idempotency key before it lets an   *)
(* adapter touch the outside world.                                        *)
(*                                                                         *)
(* Every store is a `transaction` (one step here); everything a caller     *)
(* reads before it - the Goal, the plan revision, the receipt - may be     *)
(* stale when the transaction runs.  A crash drops the calls in flight     *)
(* and keeps the stores.                                                   *)
(***************************************************************************)
EXTENDS Naturals, Sequences, FiniteSets, SequencesExt

CONSTANTS
    Capabilities,   \* the capabilities (id and version) a plan may request
    Definition,     \* registered capability -> [risk, consent, health, scopes]
    Adapters,       \* capability ids with an execution adapter
    GoalVersions,   \* the Goal records its owner moves between
    Proposals,      \* the capability sets callers propose
    Keys,           \* idempotency keys
    Calls,          \* concurrent callers of the services
    Actors,         \* who decides an approval
    Reports,        \* what a caller reports of a plan's progress
    MaxRevisions    \* bound: revisions of the plan

VARIABLES
    goal,           \* the Goal as its own store holds it now
    plans,          \* ProposedPlanStore: the revisions, in the order written
    receipts,       \* ApprovalReceiptStore
    evaluations,    \* GoalEvaluationStore
    records,        \* ExecutionRecordStore, append only
    call,           \* caller -> the call it has in flight
    effects         \* history: what adapters did to the outside world

ASSUME PlanAssumption ==
    /\ Proposals \subseteq SUBSET Capabilities
    /\ MaxRevisions \in Nat \ {0}

planVars == <<goal, plans, receipts, evaluations, records, call, effects>>

Idle == [op |-> "idle"]

----------------------------------------------------------------------------
(* Capability registry and risk.                                           *)

\* The Goal's allow-list narrowed by its constraints; an empty constraint
\* narrows nothing.
Narrowed(allowed, constrained) ==
    IF constrained = {} THEN allowed ELSE allowed \cap constrained

\* CapabilityRegistry.authorize: registered, available, allowed and not
\* forbidden by the Goal, and every data scope of the capability within the
\* Goal's scopes (an empty scope list of the Goal allows every scope).
Authorize(c, g) ==
    /\ c \in DOMAIN Definition
    /\ Definition[c].health = "available"
    /\ c \in Narrowed(g.allowed, g.constrained)
    /\ c \notin g.forbidden
    /\ LET scopes == Narrowed(g.scopes, g.constrainedScopes)
       IN  \A s \in Definition[c].scopes :
              /\ s \notin g.forbiddenScopes
              /\ scopes # {} => s \in scopes

RiskRequirement(risk) ==
    CASE risk = "r0_observe" -> 0
      [] risk = "r1_reversible" -> 1
      [] OTHER -> 2

GoalApprovalRequirement(policy) ==
    CASE policy = "none" -> 0
      [] policy = "all_actions" -> 2
      [] OTHER -> 1

ConsentRequirement(consent) ==
    CASE consent = "always" -> 2
      [] consent = "policy" -> 1
      [] OTHER -> 0

\* PlanRiskAssessor.assess for one capability: the strictest of the
\* capability's risk, its consent policy and the Goal's approval policy
\* (0 none, 1 policy, 2 explicit).
ApprovalRequirement(c, g) ==
    LET all == {RiskRequirement(Definition[c].risk),
                ConsentRequirement(Definition[c].consent),
                GoalApprovalRequirement(g.policy)}
    IN  CHOOSE m \in all : \A n \in all : n <= m

\* assess authorizes every capability the plan requests and throws when one
\* is refused, so one dead capability stops the execution of the others.
Assessable(caps, g) == \A c \in caps : Authorize(c, g)

\* ProposedPlanManager.validateRequestedCapabilities: the allow and forbid
\* lists only - health and data scopes are the gated service's business.
PlanAllows(caps, g) ==
    \A c \in caps :
        /\ c \in g.allowed
        /\ g.constrained = {} \/ c \in g.constrained
        /\ c \notin g.forbidden

\* CapabilityGatedProposedPlanService.authorizeRequests.
GateAllows(caps, g) == \A c \in caps : Authorize(c, g)

----------------------------------------------------------------------------
(* Proposed plans: immutable revisions behind an optimistic revision check *)

\* latestRevision: the reduce keeps the highest revision number.
LatestRevision ==
    CHOOSE r \in ToSet(plans) : \A q \in ToSet(plans) : q.number <= r.number

Revision(n, previous, caps, by) ==
    [number |-> n, previous |-> previous, caps |-> caps, by |-> by]

\* CapabilityGatedProposedPlanService.create up to its call of the manager.
GateCreate(k, caps) ==
    /\ call[k] = Idle
    /\ GateAllows(caps, goal)
    /\ call' = [call EXCEPT ![k] =
            [op |-> "create", stage |-> "gated", caps |-> caps]]
    /\ UNCHANGED <<goal, plans, receipts, evaluations, records, effects>>

\* createProposedPlan reads the Goal again and validates against that copy,
\* before the transaction.
ValidateCreate(k) ==
    /\ call[k].op = "create"
    /\ call[k].stage = "gated"
    /\ call' = [call EXCEPT ![k] =
            IF PlanAllows(call[k].caps, goal)
            THEN [call[k] EXCEPT !.stage = "validated"] ELSE Idle]
    /\ UNCHANGED <<goal, plans, receipts, evaluations, records, effects>>

CommitCreate(k) ==
    /\ call[k].op = "create"
    /\ call[k].stage = "validated"
    /\ plans' = IF plans = <<>>
                THEN <<Revision(1, 0, call[k].caps, "owner")>> ELSE plans
    /\ call' = [call EXCEPT ![k] = Idle]
    /\ UNCHANGED <<goal, receipts, evaluations, records, effects>>

\* CapabilityGatedProposedPlanService.update up to its call of the manager:
\* `expected` is the revision the caller read some time ago.
GateUpdate(k, caps, expected) ==
    /\ call[k] = Idle
    /\ plans # <<>>
    /\ expected \in 1..LatestRevision.number
    /\ GateAllows(caps, goal)
    /\ call' = [call EXCEPT ![k] =
            [op |-> "update", caps |-> caps, expected |-> expected,
             by |-> "owner"]]
    /\ UNCHANGED <<goal, plans, receipts, evaluations, records, effects>>

\* GoalReplanningService.createNextRevision: only a `continue` evaluation,
\* and its revision is the expected one.  It calls the manager directly,
\* past the capability gate.
Replan(k, e, caps) ==
    /\ call[k] = Idle
    /\ e \in evaluations
    /\ e.status = "continue"
    /\ call' = [call EXCEPT ![k] =
            [op |-> "update", caps |-> caps, expected |-> e.number,
             by |-> "goal-evaluator"]]
    /\ UNCHANGED <<goal, plans, receipts, evaluations, records, effects>>

\* updateProposedPlan: one transaction around the revision check, the Goal
\* read, the validation and the append.
CommitUpdate(k) ==
    /\ call[k].op = "update"
    /\ plans' =
        IF /\ plans # <<>>
           /\ LatestRevision.number = call[k].expected
           /\ PlanAllows(call[k].caps, goal)
           /\ Len(plans) < MaxRevisions
        THEN Append(plans, Revision(LatestRevision.number + 1,
                                    LatestRevision.number,
                                    call[k].caps, call[k].by))
        ELSE plans
    /\ call' = [call EXCEPT ![k] = Idle]
    /\ UNCHANGED <<goal, receipts, evaluations, records, effects>>

----------------------------------------------------------------------------
(* Approvals and evaluations: decided on a revision the caller holds.      *)

Receipt(n, decision, caps, by) ==
    [number |-> n, decision |-> decision, caps |-> caps, by |-> by]

\* ApprovalManager.decide: an approval names exactly the capabilities the
\* revision requests, a rejection none; the receipt's id is a hash of its
\* content, so the same decision again is a replay; the opposite decision
\* on the same revision is refused inside the transaction.  The revision
\* need not be the latest.
Decide(r, decision, by) ==
    /\ r \in ToSet(plans)
    /\ LET caps == IF decision = "approved" THEN r.caps ELSE {}
           new  == Receipt(r.number, decision, caps, by)
       IN  /\ ~ \E x \in receipts : x.number = r.number /\ x.decision # decision
           /\ receipts' = receipts \cup {new}
    /\ UNCHANGED <<goal, plans, evaluations, records, call, effects>>

\* decide() of goal-evaluator.ts on what the caller reports: blockers win,
\* then a wait, then completion; everything else asks for a new revision.
EvaluationStatus(report) ==
    IF report.blocked THEN "blocked"
    ELSE IF report.waiting THEN "waiting"
    ELSE IF report.tasksDone /\ report.conditionsMet THEN "completed"
    ELSE "continue"

\* GoalEvaluator.evaluate: bound to the exact revision, replayed by the hash
\* of its input.
Evaluate(r, report) ==
    /\ r \in ToSet(plans)
    /\ evaluations' = evaluations \cup
           {[number |-> r.number, status |-> EvaluationStatus(report)]}
    /\ UNCHANGED <<goal, plans, receipts, records, call, effects>>

----------------------------------------------------------------------------
(* Execution: reserve, act, record.                                        *)

\* latestByIdempotencyKey / latestByExecutionId: highest sequence.  One key
\* keeps one execution id, because a reuse with another request conflicts.
RecordsOf(key) == {r \in ToSet(records) : r.key = key}
LatestRecord(key) ==
    CHOOSE r \in RecordsOf(key) : \A q \in RecordsOf(key) : q.seq <= r.seq

\* validateAuthority, on the Goal, the revision and the receipt the caller
\* passes in.
ValidateAuthority(r, c, g, approval) ==
    /\ c \in r.caps
    /\ Authorize(c, g)
    /\ Assessable(r.caps, g)
    /\ ApprovalRequirement(c, g) # 0 =>
         \E x \in approval : /\ x.decision = "approved"
                             /\ x.number = r.number
                             /\ c \in x.caps

\* execute up to its first transaction: the caller read the plan, the Goal
\* and possibly one receipt, and the checks run on those copies.
BeginExecute(k, key, r, c, approval) ==
    /\ call[k] = Idle
    /\ r \in ToSet(plans)
    /\ ValidateAuthority(r, c, goal, approval)
    /\ c \in Adapters
    /\ call' = [call EXCEPT ![k] =
            [op |-> "execute", stage |-> "checked", key |-> key,
             hash |-> <<r.number, c>>,
             needed |-> ApprovalRequirement(c, goal)]]
    /\ UNCHANGED <<goal, plans, receipts, evaluations, records, effects>>

\* A retry of a key whose record is not completed acts again.
ReserveRetriesInDoubt(k) ==
    /\ call[k].op = "execute"
    /\ call[k].stage = "checked"
    /\ IF RecordsOf(call[k].key) # {}
          /\ LatestRecord(call[k].key).status = "completed"
       THEN call' = [call EXCEPT ![k] = Idle] /\ UNCHANGED records
       ELSE /\ records' = Append(records,
                   [key |-> call[k].key, hash |-> call[k].hash,
                    seq |-> Cardinality(RecordsOf(call[k].key)) + 1,
                    status |-> "reserved"])
            /\ call' = [call EXCEPT ![k].stage = "reserved"]
    /\ UNCHANGED <<goal, plans, receipts, evaluations, effects>>

\* The reservation transaction: a key seen before never reaches the adapter
\* again - another request conflicts, a completed one is replayed, anything
\* else is in doubt.
Reserve(k) ==
    /\ call[k].op = "execute"
    /\ call[k].stage = "checked"
    /\ IF RecordsOf(call[k].key) # {}
       THEN /\ call' = [call EXCEPT ![k] = Idle]
            /\ UNCHANGED records
       ELSE /\ records' = Append(records,
                   [key |-> call[k].key, seq |-> 1, hash |-> call[k].hash,
                    status |-> "reserved"])
            /\ call' = [call EXCEPT ![k].stage = "reserved"]
    /\ UNCHANGED <<goal, plans, receipts, evaluations, effects>>

\* The adapter acts outside; it may act and still throw, or throw without
\* having acted.
AdapterActs(k, acted, threw) ==
    /\ call[k].op = "execute"
    /\ call[k].stage = "reserved"
    /\ acted \/ threw
    /\ effects' = IF acted
                  THEN Append(effects, [key |-> call[k].key,
                                        number |-> call[k].hash[1],
                                        cap |-> call[k].hash[2],
                                        needed |-> call[k].needed])
                  ELSE effects
    /\ call' = [call EXCEPT ![k].stage = IF threw THEN "threw" ELSE "returned"]
    /\ UNCHANGED <<goal, plans, receipts, evaluations, records>>

\* appendTerminal: completed after a return, in_doubt after a throw.  The
\* completed append is returned without await, so a failing write leaves
\* the record reserved and skips the in_doubt handler.
AppendTerminal(k, written) ==
    /\ call[k].op = "execute"
    /\ call[k].stage \in {"threw", "returned"}
    /\ RecordsOf(call[k].key) # {}
    /\ LET current == LatestRecord(call[k].key)
       IN  records' = IF written
                      THEN Append(records, [current EXCEPT
                               !.seq = @ + 1,
                               !.status = IF call[k].stage = "returned"
                                          THEN "completed" ELSE "in_doubt"])
                      ELSE records
    /\ call' = [call EXCEPT ![k] = Idle]
    /\ UNCHANGED <<goal, plans, receipts, evaluations, effects>>

\* reconcile: an operator settles an in-doubt execution; a settled one is
\* returned as it is and a reserved one refused.
Reconcile(key, outcome) ==
    /\ RecordsOf(key) # {}
    /\ LatestRecord(key).status = "in_doubt"
    /\ records' = Append(records, [LatestRecord(key) EXCEPT
                                      !.seq = @ + 1, !.status = outcome])
    /\ UNCHANGED <<goal, plans, receipts, evaluations, call, effects>>

----------------------------------------------------------------------------
\* The Goal's owner edits it at any time.
EditGoal(g) ==
    /\ g # goal
    /\ goal' = g
    /\ UNCHANGED <<plans, receipts, evaluations, records, call, effects>>

\* The Kernel stops: calls in flight are gone, stores are not.
Crash ==
    /\ \E k \in Calls : call[k] # Idle
    /\ call' = [k \in Calls |-> Idle]
    /\ UNCHANGED <<goal, plans, receipts, evaluations, records, effects>>

PlanInit ==
    /\ goal \in GoalVersions
    /\ plans = <<>>
    /\ receipts = {}
    /\ evaluations = {}
    /\ records = <<>>
    /\ call = [k \in Calls |-> Idle]
    /\ effects = <<>>

\* A create that starts after the plan exists is refused like the loser of a
\* race of two, so callers start one only before.
Planning ==
    \E k \in Calls :
        \/ plans = <<>> /\ \E caps \in Proposals : GateCreate(k, caps)
        \/ ValidateCreate(k)
        \/ CommitCreate(k)
        \/ \E caps \in Proposals, n \in 1..MaxRevisions :
              GateUpdate(k, caps, n)
        \/ \E caps \in Proposals, e \in evaluations :
              Replan(k, e, caps)
        \/ CommitUpdate(k)

\* The last revision the bound admits is not evaluated: nothing can follow.
Deciding ==
    \E r \in ToSet(plans) :
        \/ \E d \in {"approved", "rejected"}, by \in Actors : Decide(r, d, by)
        \/ r.number < MaxRevisions /\ \E report \in Reports : Evaluate(r, report)

Executing ==
    \/ \E k \in Calls, key \in Keys, r \in ToSet(plans), c \in Capabilities :
          \E approval \in {{}} \cup {{x} : x \in receipts} :
              BeginExecute(k, key, r, c, approval)
    \/ \E k \in Calls :
          \/ Reserve(k)
          \/ \E acted, threw \in BOOLEAN : AdapterActs(k, acted, threw)
          \/ \E written \in BOOLEAN : AppendTerminal(k, written)
    \/ \E key \in Keys, o \in {"completed", "failed"} : Reconcile(key, o)

PlanNext ==
    \/ Planning
    \/ Deciding
    \/ Executing
    \/ \E g \in GoalVersions : EditGoal(g)
    \/ Crash

PlanSpec == PlanInit /\ [][PlanNext]_planVars

----------------------------------------------------------------------------
(* Properties.                                                             *)

RevisionType == [number: 1..MaxRevisions, previous: 0..MaxRevisions,
                 caps: SUBSET Capabilities, by: {"owner", "goal-evaluator"}]

\* The stores hold well-formed, append-only data: revisions numbered in the
\* order written, each pointing at its predecessor, and per key one record
\* sequence without gaps (buildRevision, reserve and appendTerminal).
PlanTypeOK ==
    /\ goal \in GoalVersions
    /\ plans \in Seq(RevisionType)
    /\ \A i \in DOMAIN plans : plans[i].number = i /\ plans[i].previous = i - 1
    /\ \A x \in receipts : x.number \in DOMAIN plans
    /\ \A key \in Keys :
          {r.seq : r \in RecordsOf(key)} = 1..Cardinality(RecordsOf(key))

\* However callers retry, race, crash or reconcile, one idempotency key
\* touches the outside world at most once (execution-engine.test.ts: "a
\* retry cannot duplicate the external action").
EffectAtMostOnce ==
    \A i, j \in DOMAIN effects : effects[i].key = effects[j].key => i = j

\* What an adapter did, a revision asked for and, where any approval was
\* needed, a receipt approved that very revision - which nobody has rejected
\* before or since.
EffectWasApproved ==
    \A i \in DOMAIN effects :
        LET e == effects[i]
        IN  /\ e.cap \in plans[e.number].caps
            /\ e.needed # 0 =>
                 /\ \E x \in receipts : /\ x.number = e.number
                                        /\ x.decision = "approved"
                                        /\ x.caps = plans[e.number].caps
                 /\ ~ \E x \in receipts : x.number = e.number
                                           /\ x.decision = "rejected"

\* A revision made by re-planning follows, without a gap, a revision whose
\* evaluation asked for more work: an evaluation overtaken by somebody
\* else's revision never produces one.
ReplanFollowsEvaluation ==
    \A i \in DOMAIN plans :
        plans[i].by = "goal-evaluator" =>
            [number |-> i - 1, status |-> "continue"] \in evaluations

\* A settled execution stays as it was settled: no late answer, retry or
\* second reconciliation writes a record after `completed` or `failed`.
SettledStaysSettled ==
    \A r, q \in ToSet(records) :
        r.key = q.key /\ r.status \in {"completed", "failed"} => q.seq <= r.seq

\* Every effect was recorded before it happened, under the request that
\* caused it: after a crash the store knows every key that may have acted.
EffectsAreAccounted ==
    \A i \in DOMAIN effects :
        \E r \in RecordsOf(effects[i].key) :
            r.hash = <<effects[i].number, effects[i].cap>>

\* Effects are safe: at most one per key, approved for the revision that
\* asked for it, recorded before it happens and settled for good; and plans
\* grow only from evaluations of the revision they replace.
EffectsAreSafe ==
    /\ PlanTypeOK
    /\ EffectAtMostOnce /\ EffectWasApproved /\ EffectsAreAccounted
    /\ ReplanFollowsEvaluation /\ SettledStaysSettled
=============================================================================
