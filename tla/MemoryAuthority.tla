--------------------------- MODULE MemoryAuthority ---------------------------
(***************************************************************************)
(* Authority over durable memory: transition requests checked by the       *)
(* lifecycle policy, appended to one receipt file, and read back as the    *)
(* state of each memory (projector), at start-up (reconciliation) and for  *)
(* retrieval.                                                              *)
(*                                                                         *)
(* The repository is synchronous: one execute() is one step. What          *)
(* interleaves are its callers, who read the store, obtain approvals and   *)
(* execute later, possibly twice. Digests are taken to be injective, so a  *)
(* payload stands for its digest; dates and reasons are left out. What a   *)
(* caller states of a memory (its impact, its admission record, whether    *)
(* the replacement is admitted) is not checked by the code, and taken here *)
(* to be true when the caller says it.                                     *)
(***************************************************************************)
EXTENDS Integers, FiniteSets, Sequences, FiniteSetsExt

CONSTANTS
  Memories, Requests, Callers, None,
  DecisionIds,   \* ids of approval decisions
  Executors,     \* actor types that execute transitions
  Approvals,     \* the sets of approval decisions callers may attach
  HighImpact,    \* memories whose transitions are high impact
  GivenStates,   \* states a memory may have been given before its first receipt
  MaxReceipts    \* bound of the model: receipts in the file

States == {"proposed", "quarantined", "admitted", "rejected", "superseded", "revoked"}
ActorTypes == {"kernel", "human", "founder", "recovery"}

(* current: the decision names the policy version of the request.             *)
Decision ==
  [id : DecisionIds, by : ActorTypes, outcome : {"approved", "rejected"}, current : BOOLEAN]

ASSUME AuthorityAssumption ==
  /\ None \notin Memories
  /\ Executors \subseteq ActorTypes
  /\ Approvals \subseteq SUBSET Decision
  /\ HighImpact \subseteq Memories
  /\ GivenStates \subseteq States
  /\ MaxReceipts \in Nat

VARIABLES
  file,     \* the receipts of the durable repository, in order of appending
  draft,    \* what each caller is about to execute
  authorized \* history: the decisions the service authorized a stored request with

authorityVars == <<file, draft, authorized>>

Payload == [memory : Memories, request : Requests, from : States, to : States, expected : Nat,
            executor : ActorTypes, approvals : SUBSET Decision, replacement : Memories \cup {None}]

(* ExecuteMemoryAuthorityTransitionInput: the receipt to store and, with the  *)
(* transition to authorize, approval decisions of its own. The other fields   *)
(* they share must be equal, and are one here.                                *)
Input == [receipt : Payload, decisions : SUBSET Decision]

-----------------------------------------------------------------------------
(* Faulty variants. *)

approvalValid_anyApprover(p, decisions) ==
  /\ \A d \in decisions : d.current
  /\ \E d \in decisions : d.outcome = "approved"

-----------------------------------------------------------------------------
(* memory-authority-lifecycle.ts *)

validTransitions(s) ==
  CASE s = "proposed" -> {"quarantined", "admitted", "rejected"}
    [] s = "quarantined" -> {"proposed", "admitted", "rejected"}
    [] s = "admitted" -> {"quarantined", "superseded", "revoked"}
    [] OTHER -> {}

isTerminal(s) == s \in {"rejected", "superseded", "revoked"}

mayExecute(executor) == executor \in {"kernel", "human", "founder"}

founderRequired(p) == p.memory \in HighImpact /\ p.to # "proposed"

approvalValid(p, decisions) ==
  LET matching == {d \in decisions : d.outcome = "approved" /\ d.current} IN
  /\ \A d \in decisions : d.current
  /\ founderRequired(p) => \E d \in matching : d.by = "founder"
  /\ \E d \in matching : d.by \in {"human", "founder"}

(* validateMemoryAuthorityTransition. proofs: what the caller states besides  *)
(* the transition, facts it looked up before.                                 *)
validTransition(p, decisions, proofs) ==
  /\ p.to \in validTransitions(p.from)
  /\ mayExecute(p.executor)
  /\ CASE p.to = "quarantined" -> "signal" \in proofs
       [] p.to = "admitted" -> {"admission", "resolved"} \subseteq proofs /\ approvalValid(p, decisions)
       [] p.to = "superseded" ->
            /\ p.replacement # None /\ "replacementIsAdmitted" \in proofs
            /\ approvalValid(p, decisions)
       [] p.to \in {"revoked", "proposed"} -> approvalValid(p, decisions)
       [] p.to = "rejected" ->
            (p.executor = "kernel" /\ "hardFailure" \in proofs) \/ approvalValid(p, decisions)

(* memory-authority-transition-service.ts, validateContractBinding: the       *)
(* approvals are compared by their ids and nothing else.                      *)
decisionIds(decisions) == {d.id : d \in decisions}

contractBinds(p, decisions) == decisionIds(p.approvals) = decisionIds(decisions)

-----------------------------------------------------------------------------
(* memory-authority-receipt-repository.ts *)

(* The chain of a memory: the places of its receipts in the file.             *)
chain(f, m) == {i \in DOMAIN f : f[i].memory = m}

latest(f, m) == f[Max(chain(f, m))]

currentRevision(f, m) == IF chain(f, m) = {} THEN 0 ELSE latest(f, m).expected + 1

sameRequest(f, p) == {i \in DOMAIN f : f[i].request = p.request}

rightRevision(f, p) == p.expected = currentRevision(f, p.memory)

rightState(f, p) == chain(f, p.memory) # {} => p.from = latest(f, p.memory).to

(* append: a known requestId is replayed or refused and changes nothing.      *)
appends(f, p) == sameRequest(f, p) = {} /\ rightRevision(f, p) /\ rightState(f, p)

(* DurableMemoryAuthorityReceiptRepository.append: what is in the file after; *)
(* the temporary file is renamed, so a crash leaves all of it or none.        *)
stored(f, p) == IF appends(f, p) THEN Append(f, p) ELSE f

(* DurableMemoryAuthorityReceiptRepository.loadRepository: every call appends *)
(* the whole file to an empty repository, and throws unless each receipt      *)
(* comes out as it was stored: appended to the ones before it.                *)
loads(f) == \A i \in DOMAIN f : appends(SubSeq(f, 1, i - 1), f[i])

-----------------------------------------------------------------------------
(* One receipt of the projector's loop, at place i of the file.               *)
before(f, m, i) == {j \in chain(f, m) : j < i}

continues(f, m, i) ==
  /\ f[i].expected = Cardinality(before(f, m, i))
  /\ before(f, m, i) # {} =>
       LET previous == f[Max(before(f, m, i))]
       IN  ~isTerminal(previous.to) /\ f[i].from = previous.to
  /\ f[i].to \in validTransitions(f[i].from)

(* projectMemoryAuthorityState: the projected state, or "blocked".            *)
projection(f, m) ==
  IF chain(f, m) # {} /\ \A i \in chain(f, m) : continues(f, m, i) THEN latest(f, m).to ELSE "blocked"

(* reconcileMemoryAuthorityAtStartup, for a store whose references resolve    *)
(* for the memories in available.                                             *)
ambiguousRequest(f, m) ==
  \E i, j \in DOMAIN f :
    f[i].memory = m /\ f[j].memory # m /\ f[i].request = f[j].request

reusable(f, available) ==
  {m \in available : ~ambiguousRequest(f, m) /\ projection(f, m) = "admitted"}

gateMemoryRetrieval(candidates, f, available) == candidates \cap reusable(f, available)

-----------------------------------------------------------------------------
AuthorityInit ==
  file = <<>> /\ draft = [c \in Callers |-> None] /\ authorized = [rq \in Requests |-> {}]

(* The facts that matter for a target state, as a caller can truthfully state *)
(* them: whether the replacement is admitted is read from the store.          *)
statedProofs(to, replacement) ==
  CASE to = "quarantined" -> SUBSET {"signal"}
    [] to = "admitted" -> SUBSET {"admission", "resolved"}
    [] to = "rejected" -> SUBSET {"hardFailure"}
    [] to = "superseded" ->
         {IF replacement # None /\ projection(file, replacement) = "admitted"
          THEN {"replacementIsAdmitted"} ELSE {}}
    [] OTHER -> {{}}

(* The state a caller finds a memory in; without receipts, the state the      *)
(* memory record was given before.                                            *)
statesRead(m) == IF chain(file, m) = {} THEN GivenStates ELSE {latest(file, m).to}

(* A caller reads state and revision of a memory and prepares a transition.   *)
(* contractBinds and validTransition look at nothing but the input, so an     *)
(* input they refuse appends nothing whenever it is executed, and is not kept *)
(* here.                                                                      *)
Prepare(c) ==
  /\ draft[c] = None
  /\ loads(file)
  /\ \E m \in Memories, rq \in Requests, to \in States, ex \in Executors, a, ds \in Approvals :
     \E from \in statesRead(m), rep \in IF to = "superseded" THEN Memories \cup {None} ELSE {None} :
       LET p == [memory |-> m, request |-> rq, from |-> from, to |-> to,
                 expected |-> currentRevision(file, m), executor |-> ex,
                 approvals |-> a, replacement |-> rep]
       IN /\ contractBinds(p, ds)
          /\ \E proofs \in statedProofs(to, rep) : validTransition(p, ds, proofs)
          /\ draft' = [draft EXCEPT ![c] = [receipt |-> p, decisions |-> ds]]
  /\ UNCHANGED <<file, authorized>>

(* MemoryAuthorityTransitionService.execute: what is stored is the receipt    *)
(* with the decisions it came with. again: the caller lost the answer and     *)
(* will execute the same request once more.                                   *)
Execute(c, again) ==
  LET p == draft[c].receipt IN
  /\ draft[c] # None
  /\ loads(file)
  /\ file' = stored(file, p) /\ Len(file') <= MaxReceipts
  /\ authorized' = IF appends(file, p) THEN [authorized EXCEPT ![p.request] = draft[c].decisions] ELSE authorized
  /\ draft' = IF again THEN draft ELSE [draft EXCEPT ![c] = None]

GiveUp(c) ==
  /\ draft[c] # None
  /\ draft' = [draft EXCEPT ![c] = None]
  /\ UNCHANGED <<file, authorized>>

AuthorityNext == \E c \in Callers :
          Prepare(c) \/ GiveUp(c) \/ \E again \in BOOLEAN : Execute(c, again)

AuthoritySpec == AuthorityInit /\ [][AuthorityNext]_authorityVars

-----------------------------------------------------------------------------
(* Properties *)

(* The receipt file keeps its shape.                                          *)
AuthorityTypeOK ==
  /\ file \in Seq(Payload)
  /\ draft \in [Callers -> Input \cup {None}]
  /\ authorized \in [Requests -> SUBSET Decision]

(* The store can always be opened again: whatever callers did in whatever     *)
(* order, replaying the file through append gives the file back, so no legal  *)
(* sequence of requests leaves a repository on which every call throws.       *)
FileReloads == loads(file)

(* The projector accepts every chain the service let grow: no memory whose    *)
(* transitions were all authorized is excluded from use as an ambiguous chain *)
(* at the next start.                                                         *)
ChainsProject ==
  \A m \in Memories : chain(file, m) # {} =>
    projection(file, m) = latest(file, m).to /\ ~ambiguousRequest(file, m)

(* A rejected, superseded or revoked memory never changes state again, not    *)
(* even for a caller that prepared its transition before.                     *)
TerminalIsFinal ==
  \A m \in Memories : \A i, j \in chain(file, m) : isTerminal(file[i].to) => j <= i

(* What retrieval lets through was admitted by a person: the service was      *)
(* given an approval of a human or the founder (of the founder for a          *)
(* high-impact memory) and no decision under another policy version when it   *)
(* appended the receipt that admitted it, and the receipt names these very    *)
(* decisions by their ids. What it stores of them is the caller's word: the   *)
(* same id with another approver or outcome passes the service.               *)
ReusableIsApproved ==
  \A m \in gateMemoryRetrieval(Memories, file, Memories) :
    LET decisions == authorized[latest(file, m).request] IN
    /\ decisionIds(latest(file, m).approvals) = decisionIds(decisions)
    /\ \A d \in decisions : d.current
    /\ \E d \in decisions :
         /\ d.outcome = "approved"
         /\ d.by \in IF m \in HighImpact THEN {"founder"} ELSE {"human", "founder"}

(* The authority of memories holds: the file stays readable and every chain   *)
(* projects, what may be reused was approved, and an end state is an end.     *)
AuthorityHolds ==
  AuthorityTypeOK /\ FileReloads /\ ChainsProject /\ TerminalIsFinal /\ ReusableIsApproved
=============================================================================
