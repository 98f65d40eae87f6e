--------------------------- MODULE MissionsProofs ---------------------------
(* Theorems about the Mission core, for every value of its constants: its      *)
(* type, the record invariant, what one step may do to one Mission, the        *)
(* theorems that rest on them, what a Mission is completed and sealed on, and  *)
(* what the surfaces show of it.                                               *)
EXTENDS MissionSurfaces, SequenceTheorems, FiniteSetTheorems, TLAPS

-----------------------------------------------------------------------------
(* The transformations of a Mission record keep its type. *)

LEMMA AbsentType == Absent \in MissionRecord
  BY ConstantsAssumption, EmptySeq
     DEF Absent, MissionRecord, NoRows, NoReceipt, Receipt, Rows, Statuses, Phases, Reasons

LEMMA StrandedType == StrandedRecord \in MissionRecord
  <1>1. [c \in Candidates |-> "unsupported"] \in Rows
    BY DEF Rows
  <1>2. [id |-> 1, rev |-> 1] \in Receipt
    BY DEF Receipt
  <1>3. 1 \in 0..MaxAttempts
    BY ConstantsAssumption
  <1> QED BY <1>1, <1>2, <1>3, AbsentType DEF StrandedRecord, MissionRecord, Statuses, Phases

LEMMA RequeueType ==
  ASSUME NEW r \in MissionRecord
  PROVE  Requeue(r) \in MissionRecord
  BY DEF Requeue, MissionRecord, Statuses, Phases

LEMMA SettleType ==
  ASSUME NEW r \in MissionRecord
  PROVE  settleVerificationWithoutFind(r) \in MissionRecord
  BY DEF settleVerificationWithoutFind, MissionRecord, Statuses, Phases, Reasons

LEMMA ReconcileType ==
  ASSUME NEW r \in MissionRecord
  PROVE  reconcileMission(r) \in MissionRecord
  <1>1. [r EXCEPT !.status = "queued", !.phase = "queued"] \in MissionRecord
    BY DEF MissionRecord, Statuses, Phases
  <1> QED BY <1>1, RequeueType, SettleType DEF reconcileMission

LEMMA KeepLastType ==
  ASSUME NEW s \in Seq(Attempt)
  PROVE  KeepLast(s) \in Seq(Attempt)
  <1>1. CASE Len(s) > MaxPrior
    <2>1. /\ Len(s) - MaxPrior + 1 \in 1..Len(s)+1
          /\ Len(s) \in 1..Len(s)+1
      BY <1>1, ConstantsAssumption, LenProperties
    <2> QED BY <1>1, <2>1, ConstantsAssumption, LenProperties, SubSeqProperties DEF KeepLast
  <1> QED BY <1>1 DEF KeepLast

LEMMA RestartType ==
  ASSUME NEW r \in MissionRecord, NEW rev \in Nat, NEW auth \in Receipt
  PROVE  restartMission(r, rev, auth) \in MissionRecord
  <1>1. (IF env.ready THEN "queued" ELSE "waiting_for_agent") \in Statuses
    BY DEF Statuses
  <1>2. r.round + 1 \in Nat
    BY DEF MissionRecord
  <1> QED BY <1>1, <1>2, AbsentType DEF restartMission, MissionRecord

LEMMA SearchMoreType ==
  ASSUME NEW r \in MissionRecord, NEW rev \in Nat, NEW auth \in Receipt
  PROVE  searchMoreMission(r, rev, auth) \in MissionRecord
  <1>1. archivedAttempt(r) \in Attempt
    BY DEF archivedAttempt, Attempt, MissionRecord
  <1>2. r.prior \in Seq(Attempt)
    BY DEF MissionRecord
  <1>3. KeepLast(Append(r.prior, archivedAttempt(r))) \in Seq(Attempt)
    BY <1>1, <1>2, KeepLastType, AppendProperties
  <1>4. restartMission(r, rev, auth) \in MissionRecord
    BY RestartType
  <1>5. \A s \in MissionRecord, q \in Seq(Attempt) : [s EXCEPT !.prior = q] \in MissionRecord
    BY DEF MissionRecord
  <1> QED BY <1>3, <1>4, <1>5 DEF searchMoreMission

LEMMA RecordedType ==
  ASSUME NEW r \in MissionRecord, NEW batch \in SUBSET Candidates
  PROVE  Recorded(r, batch) \in MissionRecord
  <1>1. [r EXCEPT !.status = "completed", !.completedAt = TRUE, !.phase = "none",
                  !.lease = 0, !.live = FALSE, !.cands = {}] \in MissionRecord
    <2>1. "completed" \in Statuses /\ "none" \in Phases
      BY DEF Statuses, Phases
    <2> QED BY <2>1 DEF MissionRecord
  <1>2. [r EXCEPT !.status = "running", !.phase = "verifying", !.verifyingAt = TRUE,
                  !.cands = batch, !.lease = 0, !.live = FALSE] \in MissionRecord
    <2>1. "running" \in Statuses /\ "verifying" \in Phases
      BY DEF Statuses, Phases
    <2> QED BY <2>1 DEF MissionRecord
  <1> QED BY <1>1, <1>2 DEF Recorded

LEMMA SealedType ==
  ASSUME TypeOK, NEW p \in Procs, NEW r \in MissionRecord, NEW supported \in SUBSET Candidates
  PROVE  Sealed(p, r, supported) \in MissionRecord
  <1>1. Verdicts(p, supported) \in Rows
    BY DEF Verdicts, Rows
  <1>2. [r EXCEPT !.rows = Verdicts(p, supported), !.sealed = TRUE] \in MissionRecord
    BY <1>1 DEF MissionRecord
  <1>3. \A s \in MissionRecord :
          [s EXCEPT !.status = "completed", !.phase = "forged",
                    !.completedAt = TRUE, !.verificationBlock = "none"] \in MissionRecord
    <2>1. "completed" \in Statuses /\ "forged" \in Phases /\ "none" \in Reasons
      BY DEF Statuses, Phases, Reasons
    <2> QED BY <2>1 DEF MissionRecord
  <1> QED BY <1>2, <1>3, SettleType DEF Sealed

LEMMA ClaimedType ==
  ASSUME TypeOK, NEW m \in Missions
  PROVE  Claimed(m) \in MissionRecord
  <1>1. mission[m] \in MissionRecord /\ leases \in Nat /\ env \in Env
    BY DEF TypeOK
  <1>2. ClaimGate(m) \in Reasons
    BY DEF ClaimGate, Continuation, Reasons
  <1>3. attemptsLeft(mission[m]) => mission[m].attempt + 1 \in 0..MaxAttempts
    BY <1>1, ConstantsAssumption DEF attemptsLeft, MissionRecord
  <1>4. [mission[m] EXCEPT !.automaticBlock = ClaimGate(m)] \in MissionRecord
    BY <1>1, <1>2 DEF MissionRecord
  <1>5. env.gate \in BOOLEAN /\ leases + 1 \in Nat
    BY <1>1 DEF Env
  <1>6. ASSUME NEW a \in 0..MaxAttempts, NEW n \in Nat, NEW b \in BOOLEAN
        PROVE  [mission[m] EXCEPT !.status = "running", !.phase = "investigating",
                  !.attempt = a, !.lease = n, !.live = TRUE,
                  !.automaticBlock = "none", !.gated = b] \in MissionRecord
    <2>1. "running" \in Statuses /\ "investigating" \in Phases /\ "none" \in Reasons
      BY DEF Statuses, Phases, Reasons
    <2>2. PICK r \in MissionRecord : r = mission[m]
      BY <1>1
    <2>3. [r EXCEPT !.status = "running", !.phase = "investigating",
             !.attempt = a, !.lease = n, !.live = TRUE,
             !.automaticBlock = "none", !.gated = b] \in MissionRecord
      BY <2>1 DEF MissionRecord
    <2> QED BY <2>2, <2>3
  <1> QED BY <1>1, <1>3, <1>4, <1>5, <1>6 DEF Claimed, NewLease

-----------------------------------------------------------------------------
(* Type correctness of the specification. *)

LEMMA IdleType == Idle \in ProcRecord
  BY ConstantsAssumption DEF Idle, ProcRecord, Kinds, PCs, Reasons

(* The part of TypeOK about processes, and what a move of one process needs.  *)
ProcTypeOK ==
  /\ proc \in [Procs -> ProcRecord]
  /\ \A p \in Procs : proc[p].pc \notin {"idle", "list", "loop"} => proc[p].m \in Missions

LEMMA BecomeType ==
  ASSUME ProcTypeOK, NEW p \in Procs, NEW r \in ProcRecord,
         r.pc \notin {"idle", "list", "loop"} => r.m \in Missions,
         Become(p, r)
  PROVE  ProcTypeOK'
  BY DEF ProcTypeOK, Become

LEMMA StopType ==
  ASSUME ProcTypeOK, NEW p \in Procs, Stop(p)
  PROVE  ProcTypeOK'
  BY IdleType, BecomeType DEF Stop, Idle

LEMMA GotoType ==
  ASSUME ProcTypeOK, NEW p \in Procs, NEW pc \in PCs, proc[p].m \in Missions, Goto(p, pc)
  PROVE  ProcTypeOK'
  <1>1. proc[p] \in ProcRecord
    BY DEF ProcTypeOK
  <1>2. [proc[p] EXCEPT !.pc = pc] \in ProcRecord /\ [proc[p] EXCEPT !.pc = pc].m \in Missions
    BY <1>1 DEF ProcRecord
  <1> QED BY <1>2, BecomeType DEF Goto

LEMMA ContinuationType == \A m \in Missions : Continuation(m) \in Reasons
  BY DEF Continuation, Reasons

LEMMA BootProc == Boot \in Procs /\ Slots \subseteq Procs
  BY DEF Procs

(* TypeOK of the variables a step leaves alone, and of the others. *)
LEMMA TypeInit == Init => TypeOK
  <1> SUFFICES ASSUME Init PROVE TypeOK
    OBVIOUS
  <1>1. mission \in [Missions -> MissionRecord]
    BY AbsentType, StrandedType DEF Init
  <1>2. goal \in [Goals -> Nat]
    BY DEF Init
  <1>3. /\ proc \in [Procs -> ProcRecord]
        /\ \A p \in Procs : proc[p].pc \notin {"idle", "list", "loop"} => proc[p].m \in Missions
    BY IdleType DEF Init, Idle
  <1>4. evidence \subseteq Missions \X Candidates /\ env \in Env
    BY ConstantsAssumption DEF Init
  <1> QED BY <1>1, <1>2, <1>3, <1>4 DEF Init, TypeOK

LEMMA ReconciledType ==
  ASSUME TypeOK
  PROVE  Reconciled \in [Missions -> MissionRecord]
  BY ReconcileType DEF Reconciled, TypeOK

LEMMA HandleResultType ==
  ASSUME TypeOK, NEW m \in Missions, NEW lease \in Nat, NEW batch \in SUBSET Candidates,
         HandleResult(m, lease, batch)
  PROVE  mission' \in [Missions -> MissionRecord]
  BY RecordedType DEF HandleResult, TypeOK

LEMMA HandleFailureType ==
  ASSUME TypeOK, NEW m \in Missions, NEW lease \in Nat, HandleFailure(m, lease)
  PROVE  mission' \in [Missions -> MissionRecord]
  BY RequeueType DEF HandleFailure, TypeOK

LEMMA HandleClaimType ==
  ASSUME TypeOK, NEW m \in Missions, HandleClaim(m)
  PROVE  mission' \in [Missions -> MissionRecord] /\ leases' \in Nat
  BY ClaimedType DEF HandleClaim, TypeOK

LEMMA UserType ==
  ASSUME TypeOK, UserStep
  PROVE  TypeOK'
  <1>1. ASSUME NEW g \in Goals, CreateGoal(g) PROVE TypeOK'
    BY <1>1 DEF CreateGoal, TypeOK
  <1>2. ASSUME NEW g \in Goals, ReviseGoal(g) PROVE TypeOK'
    <2>1. \A r \in MissionRecord, a \in Receipt, n \in Nat :
            [r EXCEPT !.scope = n, !.auth = a] \in MissionRecord
      BY DEF MissionRecord
    <2>2. \A r \in MissionRecord : r.auth \in Receipt
      BY DEF MissionRecord
    <2>3. goal[g] + 1 \in Nat /\ [id |-> receipts + 1, rev |-> goal[g] + 1] \in Receipt
      BY DEF TypeOK, Receipt
    <2>6. \A r \in MissionRecord : Rescoped(r, g) \in MissionRecord
      BY <2>1, <2>2, <2>3 DEF Rescoped
    <2>4. mission' \in [Missions -> MissionRecord]
      BY <1>2, <2>6 DEF ReviseGoal, TypeOK
    <2>5. goal' \in [Goals -> Nat] /\ receipts' \in Nat /\ decisions' \in Nat
      BY <1>2, <2>3 DEF ReviseGoal, TypeOK
    <2> QED BY <1>2, <2>4, <2>5 DEF ReviseGoal, TypeOK
  <1>3. ASSUME NEW m \in Missions, NEW actor \in BOOLEAN PROVE NewReceipt(m, actor) \in Receipt
    BY <1>3, ConstantsAssumption DEF NewReceipt, NoReceipt, Receipt, TypeOK
  <1>4. ASSUME NEW m \in Missions, NEW r, Respond(m, r)
        PROVE  starts' \subseteq [m : Missions, after : Nat]
    BY <1>4 DEF Respond, TypeOK
  <1>5. ASSUME NEW m \in Missions, NEW actor \in BOOLEAN, ConfirmActive(m, actor) PROVE TypeOK'
    <2>1. \A r \in MissionRecord, a \in Receipt : [r EXCEPT !.auth = a] \in MissionRecord
      BY DEF MissionRecord
    <2>2. mission' \in [Missions -> MissionRecord]
      BY <1>3, <1>5, <2>1 DEF ConfirmActive, TypeOK
    <2>3. starts' \subseteq [m : Missions, after : Nat]
      BY <1>4, <1>5 DEF ConfirmActive
    <2>4. receipts' \in Nat /\ decisions' \in Nat
      BY <1>5 DEF ConfirmActive, TypeOK
    <2> QED BY <1>5, <2>2, <2>3, <2>4 DEF ConfirmActive, TypeOK
  <1>6. ASSUME NEW m \in Missions, NEW actor \in BOOLEAN,
               NEW mode \in {"restart", "search_more"}, StartMission(m, mode, actor)
        PROVE  TypeOK'
    <2>1. mission[m] \in MissionRecord /\ goal[GoalOf[m]] \in Nat
      BY ConstantsAssumption DEF TypeOK
    <2>2. mission' \in [Missions -> MissionRecord]
      BY <1>3, <1>6, <2>1, RestartType, SearchMoreType DEF StartMission, TypeOK
    <2>3. starts' \subseteq [m : Missions, after : Nat]
      BY <1>4, <1>6 DEF StartMission
    <2>4. receipts' \in Nat /\ decisions' \in Nat
      BY <1>6 DEF StartMission, TypeOK
    <2> QED BY <1>6, <2>2, <2>3, <2>4 DEF StartMission, TypeOK
  <1> QED BY <1>1, <1>2, <1>5, <1>6 DEF UserStep

LEMMA LaunchType ==
  ASSUME TypeOK,
         \/ \E x \in starts : Launch(x)
         \/ \E p \in Slots, m \in Missions, kind \in ExternalKinds : StartExternal(p, m, kind)
  PROVE  TypeOK'
  <1> USE BootProc
  <1>1. \A m \in Missions, k \in Kinds, pc \in {"claim", "verify"} :
          /\ [Idle EXCEPT !.kind = k, !.pc = pc, !.m = m, !.tries = 1] \in ProcRecord
          /\ [Idle EXCEPT !.kind = k, !.m = m, !.tries = 1, !.pc = pc] \in ProcRecord
    <2>1. "claim" \in PCs /\ "verify" \in PCs
      BY DEF PCs
    <2> QED BY <2>1, IdleType DEF ProcRecord
  <1>2. \A m \in Missions, k \in Kinds, pc \in {"claim", "verify"} :
          /\ [Idle EXCEPT !.kind = k, !.pc = pc, !.m = m, !.tries = 1].m = m
          /\ [Idle EXCEPT !.kind = k, !.m = m, !.tries = 1, !.pc = pc].m = m
    BY DEF Idle
  <1>3. ASSUME NEW x \in starts, NEW p \in Slots, StartRun(x, p) PROVE TypeOK'
    <2>1. x.m \in Missions
      BY DEF TypeOK
    <2>2. ProcTypeOK'
      <3>1. CASE proc' = proc
        BY <3>1 DEF TypeOK, ProcTypeOK
      <3>2. CASE Become(p, [Idle EXCEPT !.kind = "run", !.pc = "claim", !.m = x.m, !.tries = 1])
        <4>1. "run" \in Kinds /\ ProcTypeOK /\ p \in Procs
          BY DEF Kinds, TypeOK, ProcTypeOK, Procs
        <4>2. /\ [Idle EXCEPT !.kind = "run", !.pc = "claim", !.m = x.m, !.tries = 1] \in ProcRecord
              /\ [Idle EXCEPT !.kind = "run", !.pc = "claim", !.m = x.m, !.tries = 1].m \in Missions
          BY <1>1, <1>2, <2>1, <4>1
        <4> QED BY <3>2, <4>1, <4>2, BecomeType
      <3> QED BY <1>3, <3>1, <3>2 DEF StartRun
    <2> QED BY <1>3, <2>2 DEF StartRun, TypeOK, ProcTypeOK
  <1>4. ASSUME NEW p \in Slots, NEW m \in Missions, NEW kind \in ExternalKinds,
               StartExternal(p, m, kind)
        PROVE  TypeOK'
    <2>1. kind \in Kinds
      BY ConstantsAssumption DEF Kinds
    <2> DEFINE next == [Idle EXCEPT !.kind = kind, !.m = m, !.tries = 1,
                                    !.pc = IF kind = "worker" THEN "claim" ELSE "verify"]
    <2>2. next \in ProcRecord /\ next.m = m
      BY <2>1, IdleType DEF Idle, ProcRecord, PCs
    <2>4. Become(p, next)
      BY <1>4 DEF StartExternal
    <2> HIDE DEF next
    <2>3. ProcTypeOK'
      BY <2>2, <2>4, BecomeType DEF TypeOK, ProcTypeOK
    <2> QED BY <1>4, <2>3 DEF StartExternal, TypeOK, ProcTypeOK
  <1> QED BY <1>3, <1>4 DEF Launch

LEMMA DeliverLateType ==
  ASSUME TypeOK, NEW x \in late, DeliverLate(x)
  PROVE  TypeOK'
  <1>1. x.m \in Missions /\ x.lease \in Nat /\ x.batch \in SUBSET Candidates
    BY DEF TypeOK
  <1>2. mission' \in [Missions -> MissionRecord] /\ leases' \in Nat
    BY <1>1, HandleClaimType, HandleResultType, HandleFailureType DEF DeliverLate, TypeOK
  <1> QED BY <1>2 DEF DeliverLate, TypeOK

(* A worker's step: the Mission it names, its lease and the requests it may   *)
(* leave behind are well typed.                                               *)
LEMMA WorkerType ==
  ASSUME TypeOK, NEW p \in Procs, WorkerStep(p)
  PROVE  TypeOK'
  <1> DEFINE LateOK == late \subseteq [kind : {"claim", "result", "failure"}, m : Missions,
                                       lease : Nat, batch : SUBSET Candidates]
  <1>1. proc[p] \in ProcRecord /\ proc[p].lease \in Nat /\ proc[p].tries \in Nat /\ ProcTypeOK
    BY DEF TypeOK, ProcRecord, ProcTypeOK
  <1>2. \A pc \in PCs, n \in Nat, k \in Nat :
          /\ [proc[p] EXCEPT !.pc = pc, !.lease = n] \in ProcRecord
          /\ [proc[p] EXCEPT !.pc = pc, !.lease = n, !.tries = k] \in ProcRecord
          /\ [proc[p] EXCEPT !.pc = pc, !.lease = n].m = proc[p].m
          /\ [proc[p] EXCEPT !.pc = pc, !.lease = n, !.tries = k].m = proc[p].m
    BY <1>1 DEF ProcRecord
  <1>5. ASSUME proc[p].m \in Missions, NEW r, AfterSubmit(p, r) PROVE ProcTypeOK'
    BY <1>1, <1>2, <1>5, StopType, BecomeType DEF AfterSubmit, PCs
  <1>6. ASSUME proc[p].m \in Missions, AfterFailure(p) PROVE ProcTypeOK'
    <2> DEFINE next == [proc[p] EXCEPT !.pc = "claim", !.lease = 0, !.tries = proc[p].tries + 1]
    <2>3. proc[p].tries + 1 \in Nat /\ 0 \in Nat /\ "claim" \in PCs
      BY <1>1 DEF PCs
    <2>1. next \in ProcRecord /\ next.m = proc[p].m
      BY <1>2, <2>3
    <2>2. Become(p, next) \/ Stop(p)
      BY <1>6 DEF AfterFailure
    <2> HIDE DEF next
    <2> QED BY <1>1, <1>6, <2>1, <2>2, StopType, BecomeType
  <1>7. ASSUME NEW kind \in {"claim", "result", "failure"}, NEW m \in Missions,
               NEW lease \in Nat, NEW batch \in SUBSET Candidates, TimesOut(kind, m, lease, batch)
        PROVE  LateOK'
    BY <1>7 DEF TimesOut, TypeOK
  <1>8. CASE Claim(p)
    <2>1. proc[p].m \in Missions
      BY <1>8 DEF Claim, At, TypeOK
    <2>2. mission' \in [Missions -> MissionRecord] /\ leases' \in Nat
      BY <1>8, <2>1, HandleClaimType DEF Claim, TypeOK
    <2>3. LateOK'
      <3>1. CASE late' = late
        BY <3>1 DEF TypeOK
      <3>2. CASE TimesOut("claim", proc[p].m, 0, {})
        <4>1. {} \in SUBSET Candidates /\ "claim" \in {"claim", "result", "failure"} /\ 0 \in Nat
          OBVIOUS
        <4> QED BY <1>7, <2>1, <3>2, <4>1
      <3> QED BY <1>8, <3>1, <3>2 DEF Claim
    <2>4. ProcTypeOK'
      <3>1. CASE Stop(p)
        BY <1>1, <3>1, StopType
      <3> DEFINE next == [proc[p] EXCEPT !.pc = "work", !.lease = leases + 1]
      <3>4. leases + 1 \in Nat /\ "work" \in PCs
        BY DEF PCs, TypeOK
      <3>2. next \in ProcRecord /\ next.m = proc[p].m
        BY <1>2, <3>4
      <3>3. Become(p, next) \/ Stop(p)
        BY <1>8 DEF Claim, AfterRefusedClaim, NewLease
      <3> HIDE DEF next
      <3> QED BY <1>1, <2>1, <3>1, <3>2, <3>3, BecomeType
    <2> QED BY <1>8, <2>2, <2>3, <2>4 DEF Claim, TypeOK, ProcTypeOK
  <1>9. ASSUME NEW batch \in SUBSET Candidates, Submit(p, batch) PROVE TypeOK'
    <2>1. proc[p].m \in Missions
      BY <1>9 DEF Submit, At, TypeOK
    <2>2. mission' \in [Missions -> MissionRecord]
      BY <1>1, <1>9, <2>1, HandleResultType DEF Submit, TypeOK
    <2>3. LateOK'
      BY <1>1, <1>7, <1>9, <2>1 DEF Submit, TypeOK
    <2>4. ProcTypeOK'
      BY <1>1, <1>5, <1>9, <2>1, GotoType DEF Submit, PCs
    <2> QED BY <1>9, <2>2, <2>3, <2>4 DEF Submit, TypeOK, ProcTypeOK
  <1>10. CASE AdapterFails(p)
    <2>1. proc[p].m \in Missions
      BY <1>10 DEF AdapterFails, At, TypeOK
    <2>2. ProcTypeOK'
      BY <1>1, <1>10, <2>1, GotoType DEF AdapterFails, PCs
    <2> QED BY <1>10, <2>2 DEF AdapterFails, TypeOK, ProcTypeOK
  <1>11. CASE Reconcile(p)
    <2>1. proc[p].m \in Missions
      BY <1>11 DEF Reconcile, At, TypeOK
    <2>2. mission' \in [Missions -> MissionRecord]
      BY <1>11, ReconciledType DEF Reconcile, TypeOK
    <2>3. ProcTypeOK'
      BY <1>1, <1>5, <1>11, <2>1, GotoType DEF Reconcile, PCs
    <2> QED BY <1>11, <2>2, <2>3 DEF Reconcile, TypeOK, ProcTypeOK
  <1>12. CASE Report(p)
    <2>1. proc[p].m \in Missions
      BY <1>12 DEF Report, At, TypeOK
    <2>2. mission' \in [Missions -> MissionRecord]
      BY <1>1, <1>12, <2>1, HandleFailureType DEF Report, TypeOK
    <2>3. LateOK'
      BY <1>1, <1>7, <1>12, <2>1 DEF Report, TypeOK
    <2>4. ProcTypeOK'
      BY <1>6, <1>12, <2>1 DEF Report
    <2> QED BY <1>12, <2>2, <2>3, <2>4 DEF Report, TypeOK, ProcTypeOK
  <1> QED BY <1>8, <1>9, <1>10, <1>11, <1>12 DEF WorkerStep

(* A verifier's step, by a run, a client or the recovery pass. *)
LEMMA VerifierType ==
  ASSUME TypeOK, NEW p \in Procs, VerifierStep(p)
  PROVE  TypeOK'
  <1> DEFINE TodoOK == todo \subseteq [m : Missions, do : {"verify", "start"}, after : Nat]
             r == mission[proc[p].m]
  <1>1. proc[p] \in ProcRecord /\ ProcTypeOK /\ TodoOK
    BY DEF TypeOK, ProcTypeOK
  <1>2. ASSUME NEW pc \in PCs, NEW pages \in SUBSET Candidates, NEW batch \in SUBSET Candidates,
               NEW a \in Nat, NEW n \in Nat, NEW reason \in Reasons
        PROVE  /\ [proc[p] EXCEPT !.pc = pc, !.out = pages] \in ProcRecord
               /\ [proc[p] EXCEPT !.out = pages] \in ProcRecord
               /\ [proc[p] EXCEPT !.pc = pc, !.reason = reason, !.auth = a, !.cands = batch]
                    \in ProcRecord
               /\ [proc[p] EXCEPT !.pc = pc, !.auth = a, !.cands = batch, !.round = n]
                    \in ProcRecord
    BY <1>1 DEF ProcRecord
  <1>3. ASSUME VerifyReturns(p) PROVE ProcTypeOK' /\ TodoOK'
    <2> DEFINE next == IF p = Boot THEN [Idle EXCEPT !.kind = "recovery", !.pc = "loop"] ELSE Idle
    <2>1. next \in ProcRecord /\ next.pc \in {"idle", "list", "loop"}
      BY IdleType DEF Idle, ProcRecord, Kinds, PCs
    <2>2. Become(p, next) /\ TodoOK'
      BY <1>1, <1>3 DEF VerifyReturns
    <2> HIDE DEF next
    <2> QED BY <1>1, <2>1, <2>2, BecomeType
  <1>4. ASSUME VerifyThrows(p) PROVE ProcTypeOK' /\ TodoOK'
    BY <1>1, <1>4, StopType DEF VerifyThrows
  <1>5. ASSUME NEW pages \in SUBSET Candidates, Notifying(p, pages), proc[p].m \in Missions
        PROVE  ProcTypeOK'
    <2> DEFINE next == [proc[p] EXCEPT !.pc = "notify", !.out = pages]
    <2>1. next \in ProcRecord /\ next.m = proc[p].m
      BY <1>1 DEF ProcRecord, PCs
    <2>2. Become(p, next)
      BY <1>5 DEF Notifying
    <2> HIDE DEF next
    <2> QED BY <1>1, <1>5, <2>1, <2>2, BecomeType
  <1>6. ASSUME proc[p].m \in Missions
        PROVE  /\ r \in MissionRecord /\ r.auth.id \in Nat /\ r.cands \in SUBSET Candidates
               /\ r.round \in Nat /\ Supported(r) \in SUBSET Candidates
    BY <1>6 DEF TypeOK, MissionRecord, Receipt, Supported
  <1>7. ASSUME NEW reason \in Reasons, Blocking(p, r, reason), proc[p].m \in Missions
        PROVE  ProcTypeOK'
    <2> DEFINE next == [proc[p] EXCEPT !.pc = "block", !.reason = reason,
                                       !.auth = r.auth.id, !.cands = r.cands]
    <2>1. next \in ProcRecord /\ next.m = proc[p].m
      BY <1>1, <1>6, <1>7 DEF ProcRecord, PCs
    <2>2. Become(p, next)
      BY <1>7 DEF Blocking
    <2> HIDE DEF next
    <2> QED BY <1>1, <1>7, <2>1, <2>2, BecomeType
  <1>8. CASE VerifyStart(p)
    <2>1. proc[p].m \in Missions
      BY <1>8 DEF VerifyStart, At, TypeOK
    <2> DEFINE next == [proc[p] EXCEPT !.pc = "read", !.auth = r.auth.id,
                                       !.cands = r.cands, !.round = r.round]
    <2>2. next \in ProcRecord /\ next.m = proc[p].m
      BY <1>1, <1>6, <2>1 DEF ProcRecord, PCs
    <2>3. Become(p, next) => ProcTypeOK'
      <3> HIDE DEF next
      <3> QED BY <1>1, <2>1, <2>2, BecomeType
    <2>4. ProcTypeOK' /\ TodoOK'
      BY <1>1, <1>4, <1>5, <1>6, <1>7, <1>8, <2>1, <2>3, ContinuationType DEF VerifyStart
    <2> QED BY <1>8, <2>4 DEF VerifyStart, TypeOK, ProcTypeOK
  <1>9. ASSUME NEW pages \in SUBSET Candidates, VerifyRead(p, pages) PROVE TypeOK'
    <2>1. proc[p].m \in Missions
      BY <1>9 DEF VerifyRead, At, TypeOK
    <2> DEFINE next == [proc[p] EXCEPT !.pc = "commit", !.out = pages]
    <2>2. next \in ProcRecord /\ next.m = proc[p].m
      BY <1>1 DEF ProcRecord, PCs
    <2>3. Become(p, next) => ProcTypeOK'
      <3> HIDE DEF next
      <3> QED BY <1>1, <2>1, <2>2, BecomeType
    <2>4. ProcTypeOK' /\ TodoOK'
      BY <1>1, <1>4, <1>5, <1>6, <1>7, <1>9, <2>1, <2>3, ContinuationType DEF VerifyRead
    <2> QED BY <1>9, <2>4 DEF VerifyRead, TypeOK, ProcTypeOK
  <1>10. CASE RecordBlock(p)
    <2>1. proc[p].m \in Missions /\ proc[p].reason \in Reasons
      BY <1>1, <1>10 DEF RecordBlock, At, TypeOK, ProcRecord
    <2>2. \A s \in MissionRecord, why \in Reasons :
            [s EXCEPT !.verificationBlock = why] \in MissionRecord
      BY DEF MissionRecord
    <2>3. mission' \in [Missions -> MissionRecord]
      BY <1>10, <2>1, <2>2 DEF RecordBlock, TypeOK
    <2>4. ProcTypeOK' /\ TodoOK'
      BY <1>3, <1>4, <1>10 DEF RecordBlock
    <2> QED BY <1>10, <2>3, <2>4 DEF RecordBlock, TypeOK, ProcTypeOK
  <1>11. ASSUME NEW supported \in SUBSET Candidates, ProjectVerified(p, supported) PROVE TypeOK'
    <2>1. proc[p].m \in Missions /\ proc[p].out \in SUBSET Candidates
      BY <1>1, <1>11 DEF ProjectVerified, At, TypeOK, ProcRecord
    <2>2. mission' \in [Missions -> MissionRecord]
      BY <1>6, <1>11, <2>1, SealedType DEF ProjectVerified, TypeOK
    <2>3. evidence' \subseteq Missions \X Candidates /\ finds' \subseteq Missions \X Candidates
      BY <1>11, <2>1 DEF ProjectVerified, TypeOK
    <2>4. ProcTypeOK' /\ TodoOK'
      BY <1>1, <1>4, <1>5, <1>6, <1>11, <2>1 DEF ProjectVerified
    <2> QED BY <1>11, <2>2, <2>3, <2>4 DEF ProjectVerified, TypeOK, ProcTypeOK
  <1>12. CASE RecordFailures(p)
    <2>1. proc[p].m \in Missions
      BY <1>12 DEF RecordFailures, At, TypeOK
    <2>2. mission' \in [Missions -> MissionRecord]
      BY <1>6, <1>12, <2>1, SealedType DEF RecordFailures, TypeOK
    <2>3. ProcTypeOK' /\ TodoOK'
      BY <1>3, <1>4, <1>12 DEF RecordFailures
    <2> QED BY <1>12, <2>2, <2>3 DEF RecordFailures, TypeOK, ProcTypeOK
  <1>13. ASSUME NEW c \in Candidates, NotifyNext(p, c) PROVE TypeOK'
    <2> DEFINE next == [proc[p] EXCEPT !.out = proc[p].out \ {c}]
    <2>1. proc[p].m \in Missions
      BY <1>13 DEF NotifyNext, At, TypeOK
    <2>2. next \in ProcRecord /\ next.m = proc[p].m
      BY <1>1 DEF ProcRecord
    <2>3. Become(p, next)
      BY <1>13 DEF NotifyNext
    <2>4. ProcTypeOK'
      <3> HIDE DEF next
      <3> QED BY <1>1, <2>1, <2>2, <2>3, BecomeType
    <2>5. notices' \subseteq Missions \X Candidates
      BY <1>13, <2>1 DEF NotifyNext, TypeOK
    <2> QED BY <1>13, <2>4, <2>5 DEF NotifyNext, TypeOK, ProcTypeOK
  <1>14. CASE NotifyConflict(p)
    BY <1>4, <1>14 DEF NotifyConflict, TypeOK, ProcTypeOK
  <1>15. CASE NotifyDone(p)
    BY <1>3, <1>15 DEF NotifyDone, TypeOK, ProcTypeOK
  <1> QED BY <1>8, <1>9, <1>10, <1>11, <1>12, <1>13, <1>14, <1>15 DEF VerifierStep

(* The recovery pass and the restart before it. *)
LEMMA RecoveryWorkType ==
  ASSUME NEW records, \A m \in Missions : records[m].lease \in Nat
  PROVE  RecoveryWork(records) \subseteq [m : Missions, do : {"verify", "start"}, after : Nat]
  BY DEF RecoveryWork

LEMMA RecoveryType ==
  ASSUME TypeOK, RecoveryStep
  PROVE  TypeOK'
  <1>1. ProcTypeOK /\ proc[Boot] \in ProcRecord
    BY BootProc DEF TypeOK, ProcTypeOK
  <1>2. CASE RecoverList
    <2> DEFINE next == [proc[Boot] EXCEPT !.pc = "loop"]
    <2>1. next \in ProcRecord /\ next.pc = "loop"
      BY <1>1 DEF ProcRecord, PCs
    <2>2. Become(Boot, next) \/ Stop(Boot)
      BY <1>2 DEF RecoverList, Goto
    <2>3. ProcTypeOK'
      <3> HIDE DEF next
      <3> QED BY <1>1, <2>1, <2>2, BootProc, BecomeType, StopType
    <2>4. mission' \in [Missions -> MissionRecord]
      BY <1>2, ReconciledType DEF RecoverList, TypeOK
    <2>5. \A m \in Missions : Reconciled[m].lease \in Nat
      BY ReconciledType DEF MissionRecord
    <2>6. RecoveryWork(Reconciled) \subseteq [m : Missions, do : {"verify", "start"}, after : Nat]
      BY <2>5, RecoveryWorkType
    <2>7. todo' \subseteq [m : Missions, do : {"verify", "start"}, after : Nat]
      BY <1>2, <2>6 DEF RecoverList, TypeOK
    <2> QED BY <1>2, <2>3, <2>4, <2>7 DEF RecoverList, TypeOK, ProcTypeOK
  <1>3. CASE RecoverEnd
    BY <1>1, <1>3, BootProc, StopType DEF RecoverEnd, TypeOK, ProcTypeOK
  <1>4. ASSUME NEW x \in todo, RecoverNext(x) PROVE TypeOK'
    <2>1. x.m \in Missions /\ x.after \in Nat
      BY DEF TypeOK
    <2> DEFINE next == [proc[Boot] EXCEPT !.pc = "verify", !.m = x.m]
    <2>2. next \in ProcRecord /\ next.m \in Missions
      BY <1>1, <2>1 DEF ProcRecord, PCs
    <2>3. Become(Boot, next) \/ proc' = proc
      BY <1>4 DEF RecoverNext
    <2>4. ProcTypeOK'
      <3>1. CASE proc' = proc
        BY <1>1, <3>1 DEF ProcTypeOK
      <3> HIDE DEF next
      <3> QED BY <1>1, <2>2, <2>3, <3>1, BootProc, BecomeType
    <2>5. starts' \subseteq [m : Missions, after : Nat]
      BY <1>4, <2>1 DEF RecoverNext, TypeOK
    <2>6. todo' \subseteq [m : Missions, do : {"verify", "start"}, after : Nat]
      BY <1>4 DEF RecoverNext, TypeOK
    <2> QED BY <1>4, <2>4, <2>5, <2>6 DEF RecoverNext, TypeOK, ProcTypeOK
  <1> QED BY <1>2, <1>3, <1>4 DEF RecoveryStep

LEMMA OtherType ==
  ASSUME TypeOK, List \/ Restart \/ \E m \in Missions : LeaseExpires(m)
  PROVE  TypeOK'
  <1>1. CASE List
    BY <1>1, ReconciledType DEF List, TypeOK
  <1>2. CASE Restart
    <2> DEFINE boot == [Idle EXCEPT !.kind = "recovery", !.pc = "list"]
    <2>1. boot \in ProcRecord /\ boot.pc = "list"
      BY IdleType DEF Idle, ProcRecord, Kinds, PCs
    <2>2. proc' = [p \in Procs |-> IF p = Boot THEN boot
                                   ELSE IF proc[p].kind = "worker" THEN proc[p] ELSE Idle]
      BY <1>2 DEF Restart
    <2>3. ProcTypeOK'
      <3>1. Idle.pc = "idle"
        BY DEF Idle
      <3> HIDE DEF boot
      <3> QED BY <2>1, <2>2, <3>1, IdleType DEF TypeOK, ProcTypeOK
    <2>4. env' \in Env /\ restarts' \in Nat
      BY <1>2, ConstantsAssumption DEF Restart, TypeOK
    <2> QED BY <1>2, <2>3, <2>4 DEF Restart, TypeOK, ProcTypeOK
  <1>3. ASSUME NEW m \in Missions, LeaseExpires(m) PROVE TypeOK'
    <2>1. \A s \in MissionRecord : [s EXCEPT !.live = FALSE] \in MissionRecord
      BY DEF MissionRecord
    <2> QED BY <1>3, <2>1 DEF LeaseExpires, TypeOK
  <1> QED BY <1>1, <1>2, <1>3

LEMMA TypeStep == TypeOK /\ [Next]_vars => TypeOK'
  <1> SUFFICES ASSUME TypeOK, [Next]_vars PROVE TypeOK'
    OBVIOUS
  <1>1. CASE UNCHANGED vars
    BY <1>1 DEF vars, TypeOK
  <1>2. CASE Next
    BY <1>2, UserType, LaunchType, DeliverLateType, WorkerType, VerifierType, RecoveryType,
       OtherType DEF Next
  <1> QED BY <1>1, <1>2

(* Every Mission record, process, scheduled start, recovery item and abandoned *)
(* request stays well formed along every behaviour of the Kernel: no step of a *)
(* user, worker, verifier or recovery pass writes a record outside its shape   *)
(* (an attempt number above MaxAttempts included).                             *)
THEOREM TypeCorrect == Spec => []TypeOK
  BY TypeInit, TypeStep, PTL DEF Spec

-----------------------------------------------------------------------------
(* How a step may change one Mission record. Every action of Missions does    *)
(* one of these to each record, and most leave all but one alone.             *)

Reauthorized(m) ==
  /\ isActive(mission[m])
  /\ decisions' = decisions + 1
  /\ \E n \in Nat, a \in Receipt :
       \/ /\ mission[m].status # "running"
          /\ mission'[m] = [mission[m] EXCEPT !.scope = n, !.auth = a]
       \/ mission'[m] = [mission[m] EXCEPT !.auth = a]

Started(m) ==
  /\ ~isActive(mission[m])
  /\ goal[GoalOf[m]] > 0
  /\ decisions' = decisions + 1
  /\ \E a \in Receipt :
       \/ mission'[m] = restartMission(mission[m], goal[GoalOf[m]], a)
       \/ mission'[m] = searchMoreMission(mission[m], goal[GoalOf[m]], a)

Lapsed(m) == mission[m].live /\ mission'[m] = [mission[m] EXCEPT !.live = FALSE]

Listed(m) == mission'[m] = reconcileMission(mission[m])

Taken(m) == isClaimable(mission[m]) /\ mission'[m] = Claimed(m)

Delivered(m) ==
  \E lease \in Nat, batch \in SUBSET Candidates :
    /\ Accepts(mission[m], lease, batch)
    /\ mission'[m] = Recorded(mission[m], batch)
    /\ SameBatch(mission[m], batch) \/ ResultHandled(m, batch)

GivenUp(m) ==
  \E lease \in Nat :
    /\ requireActiveLease(mission[m], lease)
    /\ mission'[m] = Requeue(mission[m])
    /\ FailureHandled(m)

Blocked(m) ==
  /\ isVerifying(mission[m])
  /\ \E p \in Procs :
       /\ At(p, "block") /\ proc[p].m = m
       /\ requireSameCandidateBatch(p, mission[m])
       /\ mission'[m] = [mission[m] EXCEPT !.verificationBlock = proc[p].reason]

Settled(m) ==
  /\ isVerifying(mission[m])
  /\ \E p \in Procs, supported \in SUBSET Candidates :
       /\ At(p, "commit") /\ proc[p].m = m
       /\ requireSameCandidateBatch(p, mission[m])
       /\ supported \subseteq proc[p].out
       /\ {m} \X proc[p].out \subseteq evidence'
       /\ {m} \X supported \subseteq finds'
       /\ mission'[m] = Sealed(p, mission[m], supported)

RecordStep(m) ==
  \/ mission'[m] = mission[m]
  \/ Reauthorized(m) \/ Started(m) \/ Lapsed(m) \/ Listed(m) \/ Taken(m)
  \/ Delivered(m) \/ GivenUp(m) \/ Blocked(m) \/ Settled(m)

LEMMA UserRecordStep ==
  ASSUME TypeOK, UserStep, NEW n \in Missions
  PROVE  RecordStep(n)
  <1>0. mission \in [Missions -> MissionRecord] /\ goal \in [Goals -> Nat] /\ receipts \in Nat
    BY DEF TypeOK
  <1>1. ASSUME NEW m \in Missions, NEW actor \in BOOLEAN PROVE NewReceipt(m, actor) \in Receipt
    BY <1>0, <1>1, ConstantsAssumption DEF NewReceipt, NoReceipt, Receipt
  <1>2. ASSUME NEW g \in Goals, CreateGoal(g) PROVE RecordStep(n)
    BY <1>2 DEF CreateGoal, RecordStep
  <1>3. ASSUME NEW g \in Goals, ReviseGoal(g) PROVE RecordStep(n)
    <2>1. CASE mission'[n] = mission[n]
      BY <2>1 DEF RecordStep
    <2>2. CASE /\ isActive(mission[n]) /\ mission[n].status # "running"
               /\ mission'[n] = Rescoped(mission[n], g)
      <3> DEFINE a == IF mission[n].auth.id = 0 THEN mission[n].auth
                      ELSE [id |-> receipts + 1, rev |-> goal[g] + 1]
      <3>1. mission[n].auth \in Receipt
        BY <1>0 DEF MissionRecord
      <3>2. [id |-> receipts + 1, rev |-> goal[g] + 1] \in Receipt /\ goal[g] + 1 \in Nat
        BY <1>0 DEF Receipt
      <3>3. a \in Receipt
        BY <3>1, <3>2
      <3>4. mission'[n] = [mission[n] EXCEPT !.scope = goal[g] + 1, !.auth = a]
        BY <2>2 DEF Rescoped
      <3> HIDE DEF a
      <3>5. decisions' = decisions + 1
        BY <1>3 DEF ReviseGoal
      <3> QED BY <2>2, <3>2, <3>3, <3>4, <3>5 DEF RecordStep, Reauthorized
    <2> QED BY <1>0, <1>3, <2>1, <2>2 DEF ReviseGoal, RevisionAllowed
  <1>4. ASSUME NEW m \in Missions, NEW actor \in BOOLEAN, ConfirmActive(m, actor)
        PROVE  RecordStep(n)
    <2>1. CASE mission'[n] = mission[n]
      BY <2>1 DEF RecordStep
    <2>2. CASE isActive(mission[n]) /\ mission'[n] = [mission[n] EXCEPT !.auth = NewReceipt(n, actor)]
      <3>1. decisions' = decisions + 1
        BY <1>4 DEF ConfirmActive
      <3> QED BY <1>1, <2>2, <3>1 DEF RecordStep, Reauthorized
    <2> QED BY <1>0, <1>4, <2>1, <2>2 DEF ConfirmActive
  <1>5. ASSUME NEW m \in Missions, NEW actor \in BOOLEAN,
               NEW mode \in {"restart", "search_more"}, StartMission(m, mode, actor)
        PROVE  RecordStep(n)
    <2>1. CASE mission'[n] = mission[n]
      BY <2>1 DEF RecordStep
    <2>2. CASE n = m
      <3>1. \/ mission'[n] = restartMission(mission[n], goal[GoalOf[n]], NewReceipt(n, actor))
            \/ mission'[n] = searchMoreMission(mission[n], goal[GoalOf[n]], NewReceipt(n, actor))
        BY <1>0, <1>5, <2>2 DEF StartMission
      <3>2. ~isActive(mission[n]) /\ goal[GoalOf[n]] > 0 /\ decisions' = decisions + 1
        BY <1>5, <2>2 DEF StartMission
      <3> QED BY <1>1, <3>1, <3>2 DEF RecordStep, Started
    <2> QED BY <1>0, <1>5, <2>1, <2>2 DEF StartMission
  <1> QED BY <1>2, <1>3, <1>4, <1>5 DEF UserStep

LEMMA ResultRecordStep ==
  ASSUME TypeOK, NEW m \in Missions, NEW lease \in Nat, NEW batch \in SUBSET Candidates,
         HandleResult(m, lease, batch), lease = mission[m].lease => ResultHandled(m, batch),
         NEW n \in Missions
  PROVE  RecordStep(n)
  <1>0. mission \in [Missions -> MissionRecord]
    BY DEF TypeOK
  <1>1. CASE mission'[n] = mission[n]
    BY <1>1 DEF RecordStep
  <1>2. CASE n = m /\ Accepts(mission[m], lease, batch) /\ mission'[m] = Recorded(mission[m], batch)
    <2>1. SameBatch(mission[m], batch) \/ ResultHandled(m, batch)
      BY <1>2 DEF Accepts, requireActiveLease
    <2> QED BY <1>2, <2>1 DEF RecordStep, Delivered
  <1> QED BY <1>0, <1>1, <1>2 DEF HandleResult

LEMMA FailureRecordStep ==
  ASSUME TypeOK, NEW m \in Missions, NEW lease \in Nat,
         HandleFailure(m, lease), lease = mission[m].lease => FailureHandled(m),
         NEW n \in Missions
  PROVE  RecordStep(n)
  <1>0. mission \in [Missions -> MissionRecord]
    BY DEF TypeOK
  <1>1. CASE mission'[n] = mission[n]
    BY <1>1 DEF RecordStep
  <1>2. CASE n = m /\ requireActiveLease(mission[m], lease) /\ mission'[m] = Requeue(mission[m])
    BY <1>2 DEF RecordStep, GivenUp, requireActiveLease
  <1> QED BY <1>0, <1>1, <1>2 DEF HandleFailure

LEMMA ClaimRecordStep ==
  ASSUME TypeOK, NEW m \in Missions, HandleClaim(m), NEW n \in Missions
  PROVE  RecordStep(n)
  <1>0. mission \in [Missions -> MissionRecord]
    BY DEF TypeOK
  <1>1. CASE mission'[n] = mission[n]
    BY <1>1 DEF RecordStep
  <1>2. CASE n = m /\ isClaimable(mission[m]) /\ mission'[m] = Claimed(m)
    BY <1>2 DEF RecordStep, Taken
  <1> QED BY <1>0, <1>1, <1>2 DEF HandleClaim

LEMMA ListRecordStep ==
  ASSUME mission' = Reconciled, NEW n \in Missions
  PROVE  RecordStep(n)
  BY DEF Reconciled, RecordStep, Listed

LEMMA DeliverLateRecordStep ==
  ASSUME TypeOK, NEW x \in late, DeliverLate(x), NEW n \in Missions
  PROVE  RecordStep(n)
  <1>1. x.m \in Missions /\ x.lease \in Nat /\ x.batch \in SUBSET Candidates
    BY DEF TypeOK
  <1>2. x \in late \ late'
    BY DEF DeliverLate
  <1>3. CASE x.kind = "claim" /\ HandleClaim(x.m)
    BY <1>1, <1>3, ClaimRecordStep
  <1>4. CASE x.kind = "result" /\ HandleResult(x.m, x.lease, x.batch)
    <2>1. x.lease = mission[x.m].lease => ResultHandled(x.m, x.batch)
      BY <1>2, <1>4 DEF ResultHandled, Handles
    <2> QED BY <1>1, <1>4, <2>1, ResultRecordStep
  <1>5. CASE x.kind = "failure" /\ HandleFailure(x.m, x.lease)
    <2>1. x.lease = mission[x.m].lease => FailureHandled(x.m)
      BY <1>2, <1>5 DEF FailureHandled, Handles
    <2> QED BY <1>1, <1>5, <2>1, FailureRecordStep
  <1> QED BY <1>3, <1>4, <1>5 DEF DeliverLate

LEMMA WorkerRecordStep ==
  ASSUME TypeOK, NEW p \in Procs, WorkerStep(p), NEW n \in Missions
  PROVE  RecordStep(n)
  <1>1. proc[p] \in ProcRecord /\ proc[p].lease \in Nat
    BY DEF TypeOK, ProcRecord
  <1>2. ASSUME mission' = mission PROVE RecordStep(n)
    BY <1>2 DEF RecordStep
  <1>3. ASSUME NEW pc, At(p, pc), NEW r, r.pc # pc, Become(p, r), NEW m, m = proc[p].m,
               proc[p].lease = mission[m].lease
        PROVE  StepOf(p, pc, m)
    <2>1. proc \in [Procs -> ProcRecord] /\ proc' = [proc EXCEPT ![p] = r]
      BY <1>3 DEF TypeOK, Become
    <2> QED BY <1>3, <2>1 DEF StepOf, At
  <1>4. CASE Claim(p)
    <2>1. proc[p].m \in Missions
      BY <1>4 DEF Claim, At, TypeOK
    <2> QED BY <1>2, <1>4, <2>1, ClaimRecordStep DEF Claim
  <1>5. ASSUME NEW batch \in SUBSET Candidates, Submit(p, batch) PROVE RecordStep(n)
    <2> DEFINE Asks == [proc[p] EXCEPT !.pc = "verify", !.lease = 0]
               Looks == [proc[p] EXCEPT !.pc = "reconcile"]
    <2>1. proc[p].m \in Missions
      BY <1>5 DEF Submit, At, TypeOK
    <2>2. proc[p].lease = mission[proc[p].m].lease => ResultHandled(proc[p].m, batch)
      <3>1. At(p, "work") /\ (Become(p, Idle) \/ Become(p, Asks) \/ Become(p, Looks))
        BY <1>5 DEF Submit, AfterSubmit, Goto, Stop
      <3>2. Asks.pc # "work" /\ Looks.pc # "work" /\ Idle.pc # "work"
        BY <1>1 DEF ProcRecord, Idle
      <3> HIDE DEF Asks, Looks
      <3> QED BY <1>3, <3>1, <3>2 DEF ResultHandled
    <2>3. mission' = mission \/ HandleResult(proc[p].m, proc[p].lease, batch)
      BY <1>5 DEF Submit
    <2> QED BY <1>1, <1>2, <2>1, <2>2, <2>3, ResultRecordStep
  <1>6. CASE AdapterFails(p)
    BY <1>2, <1>6 DEF AdapterFails
  <1>7. CASE Reconcile(p)
    BY <1>2, <1>7, ListRecordStep DEF Reconcile
  <1>8. CASE Report(p)
    <2> DEFINE Again == [proc[p] EXCEPT !.pc = "claim", !.lease = 0, !.tries = proc[p].tries + 1]
    <2>1. proc[p].m \in Missions
      BY <1>8 DEF Report, At, TypeOK
    <2>2. proc[p].lease = mission[proc[p].m].lease => FailureHandled(proc[p].m)
      <3>1. At(p, "report") /\ (Become(p, Idle) \/ Become(p, Again))
        BY <1>8 DEF Report, AfterFailure, Stop
      <3>2. Again.pc # "report" /\ Idle.pc # "report" /\ Idle.pc # "work"
        BY <1>1 DEF ProcRecord, Idle
      <3> HIDE DEF Again
      <3> QED BY <1>3, <3>1, <3>2 DEF FailureHandled
    <2>3. mission' = mission \/ HandleFailure(proc[p].m, proc[p].lease)
      BY <1>8 DEF Report
    <2> QED BY <1>1, <1>2, <2>1, <2>2, <2>3, FailureRecordStep
  <1> QED BY <1>4, <1>5, <1>6, <1>7, <1>8 DEF WorkerStep

LEMMA VerifierRecordStep ==
  ASSUME TypeOK, NEW p \in Procs, VerifierStep(p), NEW n \in Missions
  PROVE  RecordStep(n)
  <1>0. mission \in [Missions -> MissionRecord] /\ proc[p] \in ProcRecord
    BY DEF TypeOK
  <1>1. ASSUME mission' = mission PROVE RecordStep(n)
    BY <1>1 DEF RecordStep
  <1>2. CASE VerifyStart(p)
    BY <1>1, <1>2 DEF VerifyStart
  <1>3. ASSUME NEW pages \in SUBSET Candidates, VerifyRead(p, pages) PROVE RecordStep(n)
    BY <1>1, <1>3 DEF VerifyRead
  <1>4. CASE RecordBlock(p)
    <2>1. proc[p].m \in Missions
      BY <1>4 DEF RecordBlock, At, TypeOK
    <2>2. CASE mission'[n] = mission[n]
      BY <2>2 DEF RecordStep
    <2>3. CASE /\ n = proc[p].m /\ requireSameCandidateBatch(p, mission[n])
               /\ mission'[n] = [mission[n] EXCEPT !.verificationBlock = proc[p].reason]
      BY <1>4, <2>3 DEF RecordStep, Blocked, RecordBlock, requireSameCandidateBatch
    <2> QED BY <1>0, <1>4, <2>1, <2>2, <2>3 DEF RecordBlock
  <1>5. ASSUME NEW supported \in SUBSET Candidates, ProjectVerified(p, supported)
        PROVE  RecordStep(n)
    <2>1. proc[p].m \in Missions
      BY <1>5 DEF ProjectVerified, At, TypeOK
    <2>2. CASE mission'[n] = mission[n]
      BY <2>2 DEF RecordStep
    <2>3. CASE /\ n = proc[p].m /\ requireSameCandidateBatch(p, mission[n])
               /\ supported \subseteq proc[p].out
               /\ {n} \X proc[p].out \subseteq evidence'
               /\ {n} \X supported \subseteq finds'
               /\ mission'[n] = Sealed(p, mission[n], supported)
      BY <1>5, <2>3 DEF RecordStep, Settled, ProjectVerified, requireSameCandidateBatch
    <2> QED BY <1>0, <1>5, <2>1, <2>2, <2>3 DEF ProjectVerified
  <1>6. CASE RecordFailures(p)
    <2>1. proc[p].m \in Missions
      BY <1>6 DEF RecordFailures, At, TypeOK
    <2>2. CASE mission'[n] = mission[n]
      BY <2>2 DEF RecordStep
    <2>3. CASE /\ n = proc[p].m /\ requireSameCandidateBatch(p, mission[n])
               /\ mission'[n] = Sealed(p, mission[n], {})
      <3>1. {} \in SUBSET Candidates /\ {} \subseteq proc[p].out
        OBVIOUS
      <3>2. {n} \X proc[p].out \subseteq evidence' /\ {n} \X {} \subseteq finds'
        BY <1>6 DEF RecordFailures
      <3> QED BY <1>6, <2>3, <3>1, <3>2
              DEF RecordStep, Settled, RecordFailures, requireSameCandidateBatch
    <2> QED BY <1>0, <1>6, <2>1, <2>2, <2>3 DEF RecordFailures
  <1>7. ASSUME NEW c \in Candidates, NotifyNext(p, c) PROVE RecordStep(n)
    BY <1>1, <1>7 DEF NotifyNext
  <1>8. CASE NotifyConflict(p)
    BY <1>1, <1>8 DEF NotifyConflict
  <1>9. CASE NotifyDone(p)
    BY <1>1, <1>9 DEF NotifyDone
  <1> QED BY <1>2, <1>3, <1>4, <1>5, <1>6, <1>7, <1>8, <1>9 DEF VerifierStep

(* What any step of the system does to any Mission. *)
LEMMA NextRecordStep ==
  ASSUME TypeOK, [Next]_vars, NEW n \in Missions
  PROVE  RecordStep(n)
  <1>0. mission \in [Missions -> MissionRecord]
    BY DEF TypeOK
  <1>1. ASSUME mission' = mission PROVE RecordStep(n)
    BY <1>1 DEF RecordStep
  <1>2. CASE UNCHANGED vars
    BY <1>1, <1>2 DEF vars
  <1>3. ASSUME NEW m \in Missions, LeaseExpires(m) PROVE RecordStep(n)
    <2>1. mission'[n] = mission[n] \/ Lapsed(n)
      BY <1>0, <1>3 DEF LeaseExpires, Lapsed
    <2> QED BY <2>1 DEF RecordStep
  <1>4. CASE List
    BY <1>4, ListRecordStep DEF List
  <1>5. ASSUME NEW x \in starts, Launch(x) PROVE RecordStep(n)
    BY <1>1, <1>5 DEF Launch, StartRun
  <1>6. ASSUME NEW p \in Slots, NEW m \in Missions, NEW kind \in ExternalKinds,
               StartExternal(p, m, kind)
        PROVE  RecordStep(n)
    BY <1>1, <1>6 DEF StartExternal
  <1>7. CASE RecoveryStep
    <2>1. CASE RecoverList
      BY <1>1, <2>1, ListRecordStep DEF RecoverList
    <2>2. CASE RecoverEnd
      BY <1>1, <2>2 DEF RecoverEnd
    <2>3. ASSUME NEW x \in todo, RecoverNext(x) PROVE RecordStep(n)
      BY <1>1, <2>3 DEF RecoverNext
    <2> QED BY <1>7, <2>1, <2>2, <2>3 DEF RecoveryStep
  <1>8. CASE Restart
    BY <1>1, <1>8 DEF Restart
  <1> QED BY <1>2, <1>3, <1>4, <1>5, <1>6, <1>7, <1>8, UserRecordStep, DeliverLateRecordStep,
             WorkerRecordStep, VerifierRecordStep DEF Next

-----------------------------------------------------------------------------
(* The record invariant: which fields of a Mission may go together.           *)

RecordInv(r) ==
  /\ r.live => r.status = "running" /\ r.phase = "investigating" /\ r.lease # 0
  /\ r.status \in {"waiting_for_agent", "queued"} =>
       /\ r.attempt < MaxAttempts /\ r.lease = 0
       /\ r.rows = NoRows /\ r.phase \in {"none", "queued"}
  /\ r.status = "running" =>
       \/ r.phase = "investigating" /\ r.lease # 0 /\ r.rows = NoRows
       \/ r.phase = "verifying" /\ r.lease = 0
  /\ r.phase = "verifying" => r.status = "running"
  /\ r.status = "completed" => r.phase \in {"none", "forged"}
  /\ r.status = "failed" => r.phase = "failed"
  /\ r.verificationBlock # "none" => r.phase = "verifying"
  /\ r.gated /\ r.status = "running" => r.rows = NoRows

LEMMA RecordInvInit == RecordInv(Absent) /\ RecordInv(StrandedRecord)
  BY DEF RecordInv, Absent, StrandedRecord

LEMMA RequeueInv ==
  ASSUME NEW r \in MissionRecord, RecordInv(r), r.status = "running", r.phase = "investigating"
  PROVE  RecordInv(Requeue(r))
  BY ConstantsAssumption DEF RecordInv, Requeue, MissionRecord

LEMMA ReconcileInv ==
  ASSUME NEW r \in MissionRecord, RecordInv(r)
  PROVE  RecordInv(reconcileMission(r))
  <1>1. CASE r.status = "waiting_for_agent"
    BY <1>1 DEF reconcileMission, RecordInv, MissionRecord, isStranded, isVerifying
  <1>2. CASE isStranded(r)
    <2>1. r.status = "running" /\ r.phase = "verifying" /\ ~r.live /\ r.lease = 0
      BY <1>2 DEF isStranded, isVerifying, RecordInv
    <2>2. reconcileMission(r) = settleVerificationWithoutFind(r)
      BY <1>2, <2>1 DEF reconcileMission, Expired
    <2>3. RecordInv(settleVerificationWithoutFind(r))
      BY DEF settleVerificationWithoutFind, RecordInv, MissionRecord
    <2> QED BY <2>2, <2>3
  <1>3. CASE ~isStranded(r) /\ r.status = "running" /\ Expired(r)
    <2>1. r.phase = "investigating"
      BY <1>3 DEF RecordInv, Expired
    <2>2. reconcileMission(r) = Requeue(r)
      BY <1>3 DEF reconcileMission
    <2> QED BY <1>3, <2>1, <2>2, RequeueInv
  <1>4. CASE r.status # "waiting_for_agent" /\ ~isStranded(r) /\ ~(r.status = "running" /\ Expired(r))
    BY <1>4 DEF reconcileMission
  <1> QED BY <1>1, <1>2, <1>3, <1>4

LEMMA ClaimInv ==
  ASSUME TypeOK, NEW m \in Missions, RecordInv(mission[m]), isClaimable(mission[m])
  PROVE  RecordInv(Claimed(m))
  <1>1. mission[m] \in MissionRecord /\ leases \in Nat /\ env.gate \in BOOLEAN
    BY DEF TypeOK, Env
  <1>2. CASE ClaimGate(m) # "none"
    BY <1>1, <1>2 DEF Claimed, RecordInv, MissionRecord
  <1>3. CASE ClaimGate(m) = "none" /\ ~attemptsLeft(mission[m])
    BY <1>3 DEF Claimed
  <1>4. CASE ClaimGate(m) = "none" /\ attemptsLeft(mission[m])
    <2>1. mission[m].rows = NoRows /\ mission[m].verificationBlock = "none"
      BY DEF isClaimable, Expired, RecordInv
    <2>2. NewLease(m) # 0
      BY <1>1 DEF NewLease
    <2> QED BY <1>1, <1>4, <2>1, <2>2 DEF Claimed, RecordInv, MissionRecord
  <1> QED BY <1>2, <1>3, <1>4

LEMMA SealInv ==
  ASSUME NEW p, NEW r \in MissionRecord, NEW supported, RecordInv(r), isVerifying(r)
  PROVE  RecordInv(Sealed(p, r, supported))
  BY DEF RecordInv, Sealed, isVerifying, settleVerificationWithoutFind, MissionRecord

LEMMA RecordInvStep ==
  ASSUME TypeOK, NEW m \in Missions, RecordInv(mission[m]), RecordStep(m)
  PROVE  RecordInv(mission'[m])
  <1>0. mission[m] \in MissionRecord
    BY DEF TypeOK
  <1>1. CASE mission'[m] = mission[m]
    BY <1>1
  <1>2. CASE Reauthorized(m)
    BY <1>0, <1>2 DEF Reauthorized, RecordInv, MissionRecord
  <1>3. CASE Started(m)
    <2>1. ASSUME NEW revision, NEW auth PROVE RecordInv(restartMission(mission[m], revision, auth))
      BY ConstantsAssumption DEF RecordInv, restartMission, Absent
    <2>2. ASSUME NEW revision, NEW auth
          PROVE  RecordInv(searchMoreMission(mission[m], revision, auth))
      BY ConstantsAssumption DEF RecordInv, searchMoreMission, restartMission, Absent
    <2> QED BY <1>3, <2>1, <2>2 DEF Started
  <1>4. CASE Lapsed(m)
    BY <1>0, <1>4 DEF Lapsed, RecordInv, MissionRecord
  <1>5. CASE Listed(m)
    BY <1>0, <1>5, ReconcileInv DEF Listed
  <1>6. CASE Taken(m)
    BY <1>6, ClaimInv DEF Taken
  <1>7. CASE Delivered(m)
    BY <1>0, <1>7 DEF Delivered, Accepts, SameBatch, requireActiveLease, Recorded,
                     RecordInv, MissionRecord
  <1>8. CASE GivenUp(m)
    BY <1>0, <1>8, RequeueInv DEF GivenUp, requireActiveLease, RecordInv
  <1>9. CASE Blocked(m)
    BY <1>0, <1>9 DEF Blocked, isVerifying, RecordInv, MissionRecord
  <1>10. CASE Settled(m)
    BY <1>0, <1>10, SealInv DEF Settled
  <1> QED BY <1>1, <1>2, <1>3, <1>4, <1>5, <1>6, <1>7, <1>8, <1>9, <1>10 DEF RecordStep

RecordsOK == \A m \in Missions : RecordInv(mission[m])

LEMMA RecordsInvariant == Spec => []RecordsOK
  <1>1. Init => RecordsOK
    BY RecordInvInit DEF Init, RecordsOK
  <1>2. TypeOK /\ RecordsOK /\ [Next]_vars => RecordsOK'
    BY NextRecordStep, RecordInvStep DEF RecordsOK
  <1> QED BY <1>1, <1>2, TypeCorrect, PTL DEF Spec

-----------------------------------------------------------------------------
(* A finished Mission stays exactly as it finished, whatever arrives late,    *)
(* until the user starts it again: FinishedIsFinal, for any number of         *)
(* Missions, processes, late requests and restarts.                           *)
THEOREM FinishedMissionsAreFinal == Spec => FinishedIsFinal
  <1>1. ASSUME TypeOK, RecordsOK, [Next]_vars, NEW m \in Missions,
               Finished(mission[m]), mission'[m] # mission[m]
        PROVE  mission'[m].round = mission[m].round + 1 /\ decisions' = decisions + 1
    <2>0. RecordInv(mission[m]) /\ mission[m].status \in {"completed", "failed"}
      BY <1>1 DEF RecordsOK, Finished
    <2>1. Started(m)
      <3>1. ~Listed(m)
        BY <1>1, <2>0 DEF Listed, reconcileMission, isStranded, isVerifying
      <3>2. ~Delivered(m)
        BY <1>1, <2>0 DEF Delivered, Accepts, SameBatch, requireActiveLease, RecordInv
      <3>3. ~Reauthorized(m) /\ ~Lapsed(m) /\ ~Taken(m) /\ ~GivenUp(m)
        BY <2>0 DEF Reauthorized, isActive, Lapsed, RecordInv, Taken, isClaimable, GivenUp,
                    requireActiveLease
      <3>4. ~Blocked(m) /\ ~Settled(m)
        BY <2>0 DEF Blocked, Settled, isVerifying
      <3> QED BY <1>1, <3>1, <3>2, <3>3, <3>4, NextRecordStep DEF RecordStep
    <2>2. ASSUME NEW revision, NEW auth
          PROVE  /\ restartMission(mission[m], revision, auth).round = mission[m].round + 1
                 /\ searchMoreMission(mission[m], revision, auth).round = mission[m].round + 1
      BY DEF restartMission, searchMoreMission, Absent
    <2> QED BY <2>1, <2>2 DEF Started
  <1>2. TypeOK /\ RecordsOK /\ [Next]_vars =>
          \A m \in Missions : Finished(mission[m]) /\ mission'[m] # mission[m] =>
            /\ mission'[m].round = mission[m].round + 1
            /\ decisions' = decisions + 1
    BY <1>1
  <1> QED BY <1>2, TypeCorrect, RecordsInvariant, PTL DEF Spec, FinishedIsFinal

(* While a lease is live only its expiry, a receipt added by a decision, or   *)
(* the handling of its holder's own result or failure changes the record, the *)
(* last two to what the request asks for: LiveLeaseUndisturbed.               *)
THEOREM LiveLeasesAreUndisturbed == Spec => LiveLeaseUndisturbed
  <1> DEFINE Kept(m) == \/ mission'[m] = [mission[m] EXCEPT !.live = FALSE]
                        \/ /\ decisions' = decisions + 1
                           /\ mission'[m] = [mission[m] EXCEPT !.auth = mission'[m].auth]
                        \/ \E batch \in SUBSET Candidates :
                             ResultHandled(m, batch) /\ mission'[m] = Recorded(mission[m], batch)
                        \/ FailureHandled(m) /\ mission'[m] = Requeue(mission[m])
  <1>1. ASSUME TypeOK, RecordsOK, [Next]_vars, NEW m \in Missions,
               mission[m].live, mission'[m] # mission[m]
        PROVE  Kept(m)
    <2>0. /\ mission[m].status = "running" /\ mission[m].phase = "investigating"
          /\ mission[m].lease # 0 /\ mission[m] \in MissionRecord
      BY <1>1 DEF RecordsOK, RecordInv, TypeOK
    <2>1. CASE Reauthorized(m)
      <3>1. PICK a \in Receipt : mission'[m] = [mission[m] EXCEPT !.auth = a] /\ decisions' = decisions + 1
        BY <2>0, <2>1 DEF Reauthorized
      <3>2. mission'[m].auth = a
        BY <2>0, <3>1 DEF MissionRecord
      <3> QED BY <3>1, <3>2
    <2>2. CASE Lapsed(m)
      BY <2>2 DEF Lapsed
    <2>3. CASE Delivered(m) \/ GivenUp(m)
      BY <2>0, <2>3 DEF Delivered, GivenUp, SameBatch
    <2>4. ~Started(m) /\ ~Taken(m) /\ ~Blocked(m) /\ ~Settled(m)
      BY <1>1, <2>0 DEF Started, isActive, Taken, isClaimable, Expired, Blocked, Settled, isVerifying
    <2>5. ~Listed(m)
      BY <1>1, <2>0 DEF Listed, reconcileMission, isStranded, isVerifying, Expired
    <2> QED BY <1>1, <2>1, <2>2, <2>3, <2>4, <2>5, NextRecordStep DEF RecordStep
  <1>2. TypeOK /\ RecordsOK /\ [Next]_vars =>
          \A m \in Missions : mission[m].live /\ mission'[m] # mission[m] => Kept(m)
    BY <1>1
  <1> QED BY <1>2, TypeCorrect, RecordsInvariant, PTL DEF Spec, LiveLeaseUndisturbed

-----------------------------------------------------------------------------
(* Refinement: each change RecordStep allows is a step of the abstract        *)
(* lifecycle.                                                                 *)

LEMMA LifeType ==
  ASSUME NEW r \in MissionRecord
  PROVE  LifeOf(r) \in Lifecycle!Life /\ MaxAttempts - r.attempt \in 0..MaxAttempts
  <1>1. r.attempt \in 0..MaxAttempts /\ r.status \in Statuses /\ r.live \in BOOLEAN
    BY DEF MissionRecord
  <1>2. MaxAttempts - r.attempt \in 0..MaxAttempts
    BY <1>1, ConstantsAssumption
  <1>3. LifeOf(r) \in Lifecycle!Life
    BY <1>1 DEF LifeOf, Lifecycle!Life, Statuses
  <1> QED BY <1>2, <1>3

LEMMA MapsType ==
  ASSUME TypeOK
  PROVE  /\ lifeOf \in [Missions -> Lifecycle!Life]
         /\ budgetOf \in [Missions -> 0..MaxAttempts]
  BY LifeType DEF TypeOK, lifeOf, budgetOf

(* The abstract steps, said of two records. *)
LifeStep(r, s) ==
  \/ LifeOf(r) \notin {"ready", "leased"} /\ LifeOf(s) = "ready" /\ s.attempt = 0
  \/ LifeOf(r) \in {"ready", "lapsed"} /\ LifeOf(s) = "leased" /\ s.attempt = r.attempt + 1
                                       /\ r.attempt < MaxAttempts
  \/ LifeOf(r) = "leased" /\ LifeOf(s) \in {"lapsed", "pending", "empty"} /\ s.attempt = r.attempt
  \/ /\ LifeOf(r) \in {"leased", "lapsed"} /\ s.attempt = r.attempt
     /\ LifeOf(s) = IF r.attempt < MaxAttempts THEN "ready" ELSE "failed"
  \/ LifeOf(r) = "pending" /\ LifeOf(s) \in {"forged", "failed"} /\ s.attempt = r.attempt
  \/ LifeOf(s) = LifeOf(r) /\ s.attempt = r.attempt

LEMMA RequeueLife ==
  ASSUME NEW r \in MissionRecord, LifeOf(r) \in {"leased", "lapsed"}
  PROVE  LifeStep(r, Requeue(r))
  <1>1. r.attempt \in 0..MaxAttempts
    BY DEF MissionRecord
  <1>2. Requeue(r).attempt = r.attempt
    BY DEF Requeue, MissionRecord
  <1>3. Requeue(r).status = IF r.attempt < MaxAttempts THEN "queued" ELSE "failed"
    BY <1>1, ConstantsAssumption DEF Requeue, MissionRecord
  <1>4. LifeOf(Requeue(r)) = IF r.attempt < MaxAttempts THEN "ready" ELSE "failed"
    BY <1>3 DEF LifeOf
  <1> QED BY <1>2, <1>4 DEF LifeStep

LEMMA StartedLife ==
  ASSUME TypeOK, NEW m \in Missions, RecordInv(mission[m]), Started(m)
  PROVE  LifeStep(mission[m], mission'[m])
  <1>1. ASSUME NEW revision, NEW auth
        PROVE  /\ restartMission(mission[m], revision, auth).status \in {"queued", "waiting_for_agent"}
               /\ searchMoreMission(mission[m], revision, auth).status \in {"queued", "waiting_for_agent"}
               /\ restartMission(mission[m], revision, auth).attempt = 0
               /\ searchMoreMission(mission[m], revision, auth).attempt = 0
    BY DEF restartMission, searchMoreMission, Absent
  <1>2. mission'[m].status \in {"queued", "waiting_for_agent"} /\ mission'[m].attempt = 0
    BY <1>1 DEF Started
  <1>3. LifeOf(mission'[m]) = "ready"
    BY <1>2 DEF LifeOf
  <1>4. LifeOf(mission[m]) \notin {"ready", "leased"}
    <2>1. mission[m].status \in Statuses /\ mission[m].live \in BOOLEAN
      BY DEF TypeOK, MissionRecord
    <2>2. ~isActive(mission[m])
      BY DEF Started
    <2> QED BY <2>1, <2>2 DEF isActive, LifeOf, RecordInv, Statuses
  <1> QED BY <1>2, <1>3, <1>4 DEF LifeStep

LEMMA TakenLife ==
  ASSUME TypeOK, NEW m \in Missions, RecordInv(mission[m]), Taken(m)
  PROVE  LifeStep(mission[m], mission'[m])
  <1>0. mission[m] \in MissionRecord /\ mission'[m] = Claimed(m) /\ isClaimable(mission[m])
    BY DEF TypeOK, Taken
  <1>1. CASE ClaimGate(m) # "none"
    <2>1. mission'[m] = [mission[m] EXCEPT !.automaticBlock = ClaimGate(m)]
      BY <1>0, <1>1 DEF Claimed
    <2> QED BY <1>0, <2>1 DEF LifeStep, LifeOf, MissionRecord
  <1>2. CASE ClaimGate(m) = "none" /\ ~attemptsLeft(mission[m])
    BY <1>0, <1>2 DEF Claimed, LifeStep
  <1>3. CASE ClaimGate(m) = "none" /\ attemptsLeft(mission[m])
    <2>1. /\ mission'[m].status = "running" /\ mission'[m].phase = "investigating"
          /\ mission'[m].live /\ mission'[m].attempt = mission[m].attempt + 1
      BY <1>0, <1>3 DEF Claimed, MissionRecord
    <2>2. LifeOf(mission'[m]) = "leased"
      BY <2>1 DEF LifeOf
    <2>3. LifeOf(mission[m]) \in {"ready", "lapsed"}
      BY <1>0 DEF isClaimable, Expired, LifeOf, RecordInv
    <2> QED BY <1>3, <2>1, <2>2, <2>3 DEF LifeStep, attemptsLeft
  <1> QED BY <1>1, <1>2, <1>3

LEMMA ListedLife ==
  ASSUME NEW r \in MissionRecord, RecordInv(r)
  PROVE  LifeStep(r, reconcileMission(r))
  <1>1. CASE r.status = "waiting_for_agent"
    <2>1. /\ reconcileMission(r).status \in {"waiting_for_agent", "queued"}
          /\ reconcileMission(r).attempt = r.attempt
      BY <1>1 DEF reconcileMission, isStranded, isVerifying, MissionRecord
    <2> QED BY <1>1, <2>1 DEF LifeStep, LifeOf
  <1>2. CASE isStranded(r)
    <2>1. r.status = "running" /\ r.phase = "verifying" /\ ~r.live /\ r.lease = 0
      BY <1>2 DEF isStranded, isVerifying, RecordInv
    <2>2. reconcileMission(r) = settleVerificationWithoutFind(r)
      BY <1>2, <2>1 DEF reconcileMission, Expired
    <2>3. reconcileMission(r).status = "failed" /\ reconcileMission(r).attempt = r.attempt
      BY <2>2 DEF settleVerificationWithoutFind, MissionRecord
    <2> QED BY <2>1, <2>3 DEF LifeStep, LifeOf
  <1>3. CASE ~isStranded(r) /\ r.status = "running" /\ Expired(r)
    <2>1. LifeOf(r) = "lapsed"
      BY <1>3 DEF RecordInv, Expired, LifeOf
    <2>2. reconcileMission(r) = Requeue(r)
      BY <1>3 DEF reconcileMission
    <2> QED BY <2>1, <2>2, RequeueLife
  <1>4. CASE r.status # "waiting_for_agent" /\ ~isStranded(r) /\ ~(r.status = "running" /\ Expired(r))
    BY <1>4 DEF reconcileMission, LifeStep
  <1> QED BY <1>1, <1>2, <1>3, <1>4

LEMMA DeliveredLife ==
  ASSUME TypeOK, NEW m \in Missions, RecordInv(mission[m]), Delivered(m)
  PROVE  LifeStep(mission[m], mission'[m])
  <1>0. mission[m] \in MissionRecord
    BY DEF TypeOK
  <1>1. PICK lease \in Nat, batch \in SUBSET Candidates :
          Accepts(mission[m], lease, batch) /\ mission'[m] = Recorded(mission[m], batch)
    BY DEF Delivered
  <1>2. CASE SameBatch(mission[m], batch)
    BY <1>1, <1>2 DEF Recorded, LifeStep
  <1>3. CASE ~SameBatch(mission[m], batch)
    <2>1. mission[m].status = "running" /\ mission[m].live /\ mission[m].phase = "investigating"
      BY <1>1, <1>3 DEF Accepts, requireActiveLease, RecordInv
    <2>2. /\ \/ mission'[m].status = "completed" /\ mission'[m].phase = "none"
             \/ mission'[m].status = "running" /\ mission'[m].phase = "verifying"
          /\ mission'[m].attempt = mission[m].attempt
      BY <1>0, <1>1, <1>3 DEF Recorded, MissionRecord
    <2>3. LifeOf(mission[m]) = "leased"
      BY <2>1 DEF LifeOf
    <2>4. LifeOf(mission'[m]) \in {"pending", "empty"}
      BY <2>2 DEF LifeOf
    <2> QED BY <2>2, <2>3, <2>4 DEF LifeStep
  <1> QED BY <1>2, <1>3

LEMMA SettledLife ==
  ASSUME TypeOK, NEW m \in Missions, Settled(m)
  PROVE  LifeStep(mission[m], mission'[m])
  <1>0. mission[m] \in MissionRecord
    BY DEF TypeOK
  <1>1. mission[m].status = "running" /\ mission[m].phase = "verifying"
    BY DEF Settled, isVerifying
  <1>2. PICK p \in Procs, supported \in SUBSET Candidates :
          mission'[m] = Sealed(p, mission[m], supported)
    BY DEF Settled
  <1>3. /\ \/ mission'[m].status = "completed" /\ mission'[m].phase = "forged"
           \/ mission'[m].status = "failed"
        /\ mission'[m].attempt = mission[m].attempt
    BY <1>0, <1>2 DEF Sealed, settleVerificationWithoutFind, MissionRecord
  <1>4. LifeOf(mission[m]) = "pending"
    BY <1>1 DEF LifeOf
  <1>5. LifeOf(mission'[m]) \in {"forged", "failed"}
    BY <1>3 DEF LifeOf
  <1> QED BY <1>3, <1>4, <1>5 DEF LifeStep

LEMMA RecordLife ==
  ASSUME TypeOK, NEW m \in Missions, RecordInv(mission[m]), RecordStep(m)
  PROVE  LifeStep(mission[m], mission'[m])
  <1>0. mission[m] \in MissionRecord
    BY DEF TypeOK
  <1>1. CASE mission'[m] = mission[m]
    BY <1>1 DEF LifeStep
  <1>2. CASE Reauthorized(m) \/ Blocked(m)
    <2>1. /\ mission'[m].status = mission[m].status /\ mission'[m].phase = mission[m].phase
          /\ mission'[m].live = mission[m].live /\ mission'[m].attempt = mission[m].attempt
      BY <1>0, <1>2 DEF Reauthorized, Blocked, MissionRecord
    <2> QED BY <2>1 DEF LifeStep, LifeOf
  <1>3. CASE Lapsed(m)
    <2>1. mission[m].status = "running" /\ mission[m].phase = "investigating" /\ mission[m].live
      BY <1>3 DEF Lapsed, RecordInv
    <2>2. /\ mission'[m].status = "running" /\ mission'[m].phase = "investigating"
          /\ ~mission'[m].live /\ mission'[m].attempt = mission[m].attempt
      BY <1>0, <1>3, <2>1 DEF Lapsed, MissionRecord
    <2> QED BY <2>1, <2>2 DEF LifeStep, LifeOf
  <1>4. CASE GivenUp(m)
    <2>1. LifeOf(mission[m]) = "leased"
      BY <1>4 DEF GivenUp, requireActiveLease, RecordInv, LifeOf
    <2> QED BY <1>0, <1>4, <2>1, RequeueLife DEF GivenUp
  <1>5. CASE Listed(m)
    BY <1>0, <1>5, ListedLife DEF Listed
  <1> QED BY <1>1, <1>2, <1>3, <1>4, <1>5, StartedLife, TakenLife, DeliveredLife, SettledLife
          DEF RecordStep

LEMMA AbstractStep ==
  ASSUME TypeOK, TypeOK', NEW m \in Missions, LifeStep(mission[m], mission'[m])
  PROVE  Lifecycle!Step(m)
  <1>1. /\ lifeOf[m] = LifeOf(mission[m]) /\ lifeOf'[m] = LifeOf(mission'[m])
        /\ budgetOf[m] = MaxAttempts - mission[m].attempt
        /\ budgetOf'[m] = MaxAttempts - mission'[m].attempt
    BY DEF lifeOf, budgetOf
  <1>2. mission[m].attempt \in 0..MaxAttempts /\ mission'[m].attempt \in 0..MaxAttempts
    BY DEF TypeOK, MissionRecord
  <1>3. lifeOf[m] \in Lifecycle!Life
    BY MapsType
  <1>4. MaxAttempts \in Nat
    BY ConstantsAssumption
  <1> QED BY <1>1, <1>2, <1>3, <1>4
          DEF LifeStep, Lifecycle!Step, Lifecycle!Open, Lifecycle!Grant, Lifecycle!Lapse,
              Lifecycle!Release, Lifecycle!Deliver, Lifecycle!Settle, Lifecycle!Stay, Lifecycle!Moves

(* The Mission core implements the abstract Mission lifecycle, for any number *)
(* of Missions, processes and attempts: ImplementsLifecycle.                  *)
THEOREM MissionsImplementLifecycle == Spec => ImplementsLifecycle
  <1>1. Init => Lifecycle!Init
    <2> SUFFICES ASSUME Init PROVE Lifecycle!Init
      OBVIOUS
    <2>1. lifeOf \in [Missions -> {"absent", "pending"}]
      <3>1. ASSUME NEW m \in Missions PROVE LifeOf(mission[m]) \in {"absent", "pending"}
        <4>1. mission[m] = Absent \/ mission[m] = StrandedRecord
          BY DEF Init
        <4>2. Absent.status = "none"
          BY DEF Absent
        <4>3. StrandedRecord.status = "running" /\ StrandedRecord.phase = "verifying"
          BY DEF StrandedRecord, Absent
        <4>4. LifeOf(Absent) = "absent" /\ LifeOf(StrandedRecord) = "pending"
          BY <4>2, <4>3 DEF LifeOf
        <4> QED BY <4>1, <4>4
      <3> QED BY <3>1 DEF lifeOf
    <2>2. budgetOf \in [Missions -> 0..MaxAttempts]
      BY TypeInit, MapsType
    <2> QED BY <2>1, <2>2 DEF Lifecycle!Init
  <1>2. TypeOK /\ TypeOK' /\ RecordsOK /\ [Next]_vars => [Lifecycle!Next]_<<lifeOf, budgetOf>>
    <2> SUFFICES ASSUME TypeOK, TypeOK', RecordsOK, [Next]_vars PROVE Lifecycle!Next
      OBVIOUS
    <2>1. /\ lifeOf' \in [Missions -> Lifecycle!Life]
          /\ budgetOf' \in [Missions -> 0..MaxAttempts]
      <3>1. ASSUME NEW m \in Missions
            PROVE  /\ LifeOf(mission'[m]) \in Lifecycle!Life
                   /\ MaxAttempts - mission'[m].attempt \in 0..MaxAttempts
        BY LifeType DEF TypeOK
      <3> QED BY <3>1 DEF lifeOf, budgetOf
    <2>2. ASSUME NEW m \in Missions PROVE Lifecycle!Step(m)
      <3>1. LifeStep(mission[m], mission'[m])
        BY NextRecordStep, RecordLife DEF RecordsOK
      <3> QED BY <3>1, AbstractStep
    <2> QED BY <2>1, <2>2 DEF Lifecycle!Next
  <1> QED BY <1>1, <1>2, TypeCorrect, RecordsInvariant, PTL
          DEF Spec, ImplementsLifecycle, Lifecycle!Spec

-----------------------------------------------------------------------------
(* Lease exclusivity: a lease id is issued once, and the processes that work  *)
(* under one all got theirs from a grant of their own.                        *)

Working(r) == r.pc \in {"work", "reconcile", "report"}

LeaseInv ==
  /\ \A p \in Procs : Working(proc[p]) => proc[p].lease <= leases
  /\ \A p, q \in Procs :
       Working(proc[p]) /\ Working(proc[q]) /\ proc[p].lease = proc[q].lease => p = q

(* A step hands out no lease, or a fresh one to one process.                  *)
NoGrant ==
  /\ leases' \in {leases, leases + 1}
  /\ \A p \in Procs : Working(proc'[p]) => Working(proc[p]) /\ proc'[p].lease = proc[p].lease

FreshGrant ==
  /\ leases' = leases + 1
  /\ \E p \in Procs : /\ proc'[p].lease = leases + 1
                      /\ \A q \in Procs \ {p} : proc'[q] = proc[q]

LEMMA IdleNotWorking == ~Working(Idle)
  BY DEF Working, Idle

LEMMA BecomeIdles ==
  ASSUME TypeOK, NEW p \in Procs, NEW r, Become(p, r), ~Working(r), leases' \in {leases, leases + 1}
  PROVE  NoGrant
  BY DEF TypeOK, Become, NoGrant

LEMMA StopIdles ==
  ASSUME TypeOK, NEW p \in Procs, Stop(p), leases' \in {leases, leases + 1}
  PROVE  NoGrant
  BY BecomeIdles, IdleNotWorking DEF Stop

LEMMA GotoKeeps ==
  ASSUME TypeOK, NEW p \in Procs, NEW pc, Goto(p, pc), Working(proc[p]), leases' = leases
  PROVE  NoGrant
  <1>1. proc'[p].lease = proc[p].lease /\ \A q \in Procs \ {p} : proc'[q] = proc[q]
    BY DEF TypeOK, ProcRecord, Goto, Become
  <1> QED BY <1>1 DEF NoGrant

LEMMA SameProc ==
  ASSUME proc' = proc, leases' \in {leases, leases + 1}
  PROVE  NoGrant
  BY DEF NoGrant

LEMMA ClaimLeases ==
  ASSUME TypeOK, NEW m, HandleClaim(m)
  PROVE  leases' \in {leases, leases + 1}
  BY DEF HandleClaim

LEMMA WorkerGrant ==
  ASSUME TypeOK, NEW p \in Procs, WorkerStep(p)
  PROVE  NoGrant \/ FreshGrant
  <1>0. proc \in [Procs -> ProcRecord] /\ leases \in Nat
    BY DEF TypeOK
  <1>1. CASE Claim(p)
    <2>1. CASE Stop(p)
      BY <1>1, <2>1, StopIdles, ClaimLeases DEF Claim
    <2>2. CASE /\ leases' = leases + 1
               /\ Become(p, [proc[p] EXCEPT !.pc = "work", !.lease = NewLease(proc[p].m)])
      <3>1. proc'[p].lease = leases + 1 /\ \A q \in Procs \ {p} : proc'[q] = proc[q]
        BY <1>0, <2>2 DEF Become, NewLease, ProcRecord
      <3> QED BY <2>2, <3>1 DEF FreshGrant
    <2> QED BY <1>1, <2>1, <2>2 DEF Claim, HandleClaim, AfterRefusedClaim
  <1>2. ASSUME NEW r, AfterSubmit(p, r), leases' = leases PROVE NoGrant
    <2>1. ~Working([proc[p] EXCEPT !.pc = "verify", !.lease = 0])
      BY <1>0 DEF Working, ProcRecord
    <2> QED BY <1>2, <2>1, BecomeIdles, StopIdles DEF AfterSubmit
  <1>3. ASSUME NEW batch, Submit(p, batch) PROVE NoGrant
    <2>1. Working(proc[p]) /\ leases' = leases
      BY <1>3 DEF Submit, At, Working
    <2>2. Goto(p, "reconcile") \/ AfterSubmit(p, Recorded(mission[proc[p].m], batch))
      BY <1>3 DEF Submit
    <2> QED BY <1>2, <2>1, <2>2, GotoKeeps
  <1>4. CASE AdapterFails(p)
    BY <1>4, GotoKeeps DEF AdapterFails, At, Working
  <1>5. CASE Reconcile(p)
    <2>1. Working(proc[p]) /\ leases' = leases
      BY <1>5 DEF Reconcile, At, Working
    <2>2. Goto(p, "report") \/ AfterSubmit(p, Reconciled[proc[p].m])
      BY <1>5 DEF Reconcile
    <2> QED BY <1>2, <2>1, <2>2, GotoKeeps
  <1>6. CASE Report(p)
    <2>1. AfterFailure(p) /\ leases' = leases
      BY <1>6 DEF Report
    <2>2. ~Working([proc[p] EXCEPT !.pc = "claim", !.lease = 0, !.tries = proc[p].tries + 1])
      BY <1>0 DEF Working, ProcRecord
    <2> QED BY <2>1, <2>2, BecomeIdles, StopIdles DEF AfterFailure
  <1> QED BY <1>1, <1>3, <1>4, <1>5, <1>6 DEF WorkerStep

LEMMA VerifierGrant ==
  ASSUME TypeOK, NEW p \in Procs, VerifierStep(p)
  PROVE  NoGrant
  <1>0. proc \in [Procs -> ProcRecord]
    BY DEF TypeOK
  <1>1. ASSUME VerifyReturns(p) \/ VerifyThrows(p), leases' = leases PROVE NoGrant
    <2>1. ~Working([Idle EXCEPT !.kind = "recovery", !.pc = "loop"])
      BY DEF Working, Idle
    <2> QED BY <1>1, <2>1, BecomeIdles, StopIdles, IdleNotWorking DEF VerifyReturns, VerifyThrows
  <1>2. ASSUME NEW pages, Notifying(p, pages), leases' = leases PROVE NoGrant
    <2>1. ~Working([proc[p] EXCEPT !.pc = "notify", !.out = pages])
      BY <1>0 DEF Working, ProcRecord
    <2> QED BY <1>2, <2>1, BecomeIdles DEF Notifying
  <1>3. ASSUME NEW r, NEW reason, Blocking(p, r, reason), leases' = leases PROVE NoGrant
    <2>1. ~Working([proc[p] EXCEPT !.pc = "block", !.reason = reason,
                                   !.auth = r.auth.id, !.cands = r.cands])
      BY <1>0 DEF Working, ProcRecord
    <2> QED BY <1>3, <2>1, BecomeIdles DEF Blocking
  <1>4. CASE VerifyStart(p)
    <2>1. ~Working([proc[p] EXCEPT !.pc = "read", !.auth = mission[proc[p].m].auth.id,
                      !.cands = mission[proc[p].m].cands, !.round = mission[proc[p].m].round])
      BY <1>0 DEF Working, ProcRecord
    <2> QED BY <1>1, <1>2, <1>3, <1>4, <2>1, BecomeIdles DEF VerifyStart
  <1>5. ASSUME NEW pages, VerifyRead(p, pages) PROVE NoGrant
    <2>1. ~Working([proc[p] EXCEPT !.pc = "commit", !.out = pages])
      BY <1>0 DEF Working, ProcRecord
    <2> QED BY <1>1, <1>2, <1>3, <1>5, <2>1, BecomeIdles DEF VerifyRead
  <1>6. CASE RecordBlock(p) \/ RecordFailures(p) \/ NotifyConflict(p) \/ NotifyDone(p)
    BY <1>1, <1>6 DEF RecordBlock, RecordFailures, NotifyConflict, NotifyDone
  <1>7. ASSUME NEW supported, ProjectVerified(p, supported) PROVE NoGrant
    BY <1>1, <1>2, <1>7 DEF ProjectVerified
  <1>8. ASSUME NEW c, NotifyNext(p, c) PROVE NoGrant
    <2>1. ~Working([proc[p] EXCEPT !.out = proc[p].out \ {c}])
      BY <1>0, <1>8 DEF NotifyNext, At, Working, ProcRecord
    <2> QED BY <1>8, <2>1, BecomeIdles DEF NotifyNext
  <1> QED BY <1>4, <1>5, <1>6, <1>7, <1>8 DEF VerifierStep

LEMMA RecoveryGrant ==
  ASSUME TypeOK, RecoveryStep
  PROVE  NoGrant
  <1>0. proc \in [Procs -> ProcRecord] /\ Boot \in Procs
    BY BootProc DEF TypeOK
  <1>1. CASE RecoverList
    <2>1. ~Working([proc[Boot] EXCEPT !.pc = "loop"])
      BY <1>0 DEF Working, ProcRecord
    <2> QED BY <1>0, <1>1, <2>1, BecomeIdles, StopIdles DEF RecoverList, Goto
  <1>2. CASE RecoverEnd
    BY <1>0, <1>2, StopIdles DEF RecoverEnd
  <1>3. ASSUME NEW x \in todo, RecoverNext(x) PROVE NoGrant
    <2>1. ~Working([proc[Boot] EXCEPT !.pc = "verify", !.m = x.m])
      BY <1>0 DEF Working, ProcRecord
    <2> QED BY <1>0, <1>3, <2>1, BecomeIdles, SameProc DEF RecoverNext
  <1> QED BY <1>1, <1>2, <1>3 DEF RecoveryStep

LEMMA NextGrant ==
  ASSUME TypeOK, [Next]_vars
  PROVE  NoGrant \/ FreshGrant
  <1>1. CASE UNCHANGED vars
    BY <1>1, SameProc DEF vars
  <1>2. CASE UserStep
    BY <1>2, SameProc DEF UserStep, CreateGoal, ReviseGoal, ConfirmActive, StartMission
  <1>3. ASSUME NEW m \in Missions, LeaseExpires(m) PROVE NoGrant
    BY <1>3, SameProc DEF LeaseExpires
  <1>4. CASE List
    BY <1>4, SameProc DEF List
  <1>5. ASSUME NEW x \in starts, Launch(x) PROVE NoGrant
    <2>1. PICK p \in Slots : StartRun(x, p)
      BY <1>5 DEF Launch
    <2>2. ~Working([Idle EXCEPT !.kind = "run", !.pc = "claim", !.m = x.m, !.tries = 1])
      BY DEF Working, Idle
    <2> QED BY <2>1, <2>2, BecomeIdles, SameProc, BootProc DEF StartRun
  <1>6. ASSUME NEW p \in Slots, NEW m \in Missions, NEW kind \in ExternalKinds,
               StartExternal(p, m, kind)
        PROVE  NoGrant
    <2>1. ~Working([Idle EXCEPT !.kind = kind, !.m = m, !.tries = 1,
                                !.pc = IF kind = "worker" THEN "claim" ELSE "verify"])
      BY DEF Working, Idle
    <2> QED BY <1>6, <2>1, BecomeIdles, BootProc DEF StartExternal
  <1>7. ASSUME NEW x \in late, DeliverLate(x) PROVE NoGrant
    BY <1>7, SameProc, ClaimLeases DEF DeliverLate
  <1>8. CASE Restart
    <2>1. ~Working([Idle EXCEPT !.kind = "recovery", !.pc = "list"])
      BY DEF Working, Idle
    <2> QED BY <1>8, <2>1, IdleNotWorking DEF Restart, NoGrant
  <1> QED BY <1>1, <1>2, <1>3, <1>4, <1>5, <1>6, <1>7, <1>8,
             WorkerGrant, VerifierGrant, RecoveryGrant DEF Next

LEMMA LeaseInvariant == Spec => []LeaseInv
  <1>1. Init => LeaseInv
    BY IdleNotWorking DEF Init, LeaseInv
  <1>2. TypeOK /\ LeaseInv /\ [Next]_vars => LeaseInv'
    <2> SUFFICES ASSUME TypeOK, LeaseInv, [Next]_vars PROVE LeaseInv'
      OBVIOUS
    <2>0. leases \in Nat /\ \A p \in Procs : proc[p].lease \in Nat
      BY DEF TypeOK, ProcRecord
    <2>1. CASE NoGrant
      BY <2>0, <2>1 DEF NoGrant, LeaseInv
    <2>2. CASE FreshGrant
      BY <2>0, <2>2 DEF FreshGrant, LeaseInv
    <2> QED BY <2>1, <2>2, NextGrant
  <1> QED BY <1>1, <1>2, TypeCorrect, PTL DEF Spec

(* Of all the agents still working, whatever expired, was granted again or    *)
(* was granted to a request nobody waits for, at most one holds the live      *)
(* lease of a Mission: LeaseExclusive, for any number of Missions and         *)
(* processes.                                                                 *)
THEOREM LeasesAreExclusive == Spec => []LeaseExclusive
  <1>1. LeaseInv => LeaseExclusive
    BY DEF LeaseInv, LeaseExclusive, HoldsLease, requireActiveLease, Working
  <1> QED BY <1>1, LeaseInvariant, PTL

-----------------------------------------------------------------------------
(* What a Mission is completed and sealed on: stored Evidence and Finds, a     *)
(* receipt for the Goal's current revision, and verdicts of the attempt.       *)

(* What a step does outside the Mission records. *)

(* Evidence and Finds are only ever added. *)
Grows == evidence \subseteq evidence' /\ finds \subseteq finds'

(* Goals, receipts and decisions change by user decisions only. *)
Kept == goal' = goal /\ receipts' = receipts /\ decisions' = decisions

LEMMA WorkerKeeps ==
  ASSUME NEW p \in Procs, WorkerStep(p)
  PROVE  Grows /\ Kept
  BY DEF WorkerStep, Claim, AdapterFails, Reconcile, Report, Submit, Grows, Kept

LEMMA VerifierKeeps ==
  ASSUME NEW p \in Procs, VerifierStep(p)
  PROVE  Grows /\ Kept
  <1>1. CASE VerifyStart(p) \/ RecordBlock(p) \/ RecordFailures(p) \/ NotifyConflict(p) \/ NotifyDone(p)
    BY <1>1 DEF VerifyStart, RecordBlock, RecordFailures, NotifyConflict, NotifyDone, Grows, Kept
  <1>2. ASSUME NEW pages \in SUBSET Candidates, VerifyRead(p, pages) PROVE Grows /\ Kept
    BY <1>2 DEF VerifyRead, Grows, Kept
  <1>3. ASSUME NEW pages \in SUBSET Candidates, ProjectVerified(p, pages) PROVE Grows /\ Kept
    BY <1>3 DEF ProjectVerified, Grows, Kept
  <1>4. ASSUME NEW c \in Candidates, NotifyNext(p, c) PROVE Grows /\ Kept
    BY <1>4 DEF NotifyNext, Grows, Kept
  <1> QED BY <1>1, <1>2, <1>3, <1>4 DEF VerifierStep

LEMMA UserGrows == UserStep => Grows
  BY DEF UserStep, CreateGoal, ReviseGoal, ConfirmActive, StartMission, Grows

LEMMA NextKeeps ==
  ASSUME [Next]_vars
  PROVE  Grows /\ (UserStep \/ Kept)
  <1>1. CASE UNCHANGED vars
    BY <1>1 DEF vars, Grows, Kept
  <1>2. ASSUME NEW m \in Missions, LeaseExpires(m) PROVE Grows /\ Kept
    BY <1>2 DEF LeaseExpires, Grows, Kept
  <1>3. CASE List
    BY <1>3 DEF List, Grows, Kept
  <1>4. ASSUME NEW x \in starts, Launch(x) PROVE Grows /\ Kept
    BY <1>4 DEF Launch, StartRun, Grows, Kept
  <1>5. ASSUME NEW p \in Slots, NEW m \in Missions, NEW kind \in ExternalKinds,
               StartExternal(p, m, kind)
        PROVE  Grows /\ Kept
    BY <1>5 DEF StartExternal, Grows, Kept
  <1>6. ASSUME NEW x \in late, DeliverLate(x) PROVE Grows /\ Kept
    BY <1>6 DEF DeliverLate, Grows, Kept
  <1>7. CASE RecoveryStep
    BY <1>7 DEF RecoveryStep, RecoverList, RecoverEnd, RecoverNext, Grows, Kept
  <1>8. CASE Restart
    BY <1>8 DEF Restart, Grows, Kept
  <1> QED BY <1>1, <1>2, <1>3, <1>4, <1>5, <1>6, <1>7, <1>8,
             WorkerKeeps, VerifierKeeps, UserGrows DEF Next

-----------------------------------------------------------------------------
(* Completed means Kernel SUPPORT: CompletedMeansSupport, said of one record  *)
(* r of Mission m and of the Evidence E and the Finds F that are stored.      *)

Links(m, rows, E, F) ==
  \A c \in Candidates :
    /\ rows[c] \in {"supported", "unsupported"} => <<m, c>> \in E
    /\ rows[c] = "supported" => <<m, c>> \in F

SupportOf(m, r, E, F) ==
  /\ r.status = "completed" /\ r.cands # {} => Supported(r) # {}
  /\ Links(m, r.rows, E, F)
  /\ \A i \in DOMAIN r.prior : Links(m, r.prior[i].rows, E, F)

(* Record s keeps the rows of record r, and is completed empty, if at all.    *)
KeepsRows(r, s) ==
  /\ s.rows = r.rows /\ s.prior = r.prior
  /\ s.status = "completed" => s.cands = {} \/ (r.status = "completed" /\ s.cands = r.cands)

LEMMA KeepsRowsSupport ==
  ASSUME NEW m, NEW r, NEW s, NEW E, NEW F, KeepsRows(r, s), SupportOf(m, r, E, F)
  PROVE  SupportOf(m, s, E, F)
  BY DEF KeepsRows, SupportOf, Supported

LEMMA SupportGrows ==
  ASSUME NEW m, NEW r, NEW E, NEW F, NEW E1, NEW F1, E \subseteq E1, F \subseteq F1,
         SupportOf(m, r, E, F)
  PROVE  SupportOf(m, r, E1, F1)
  <1>1. ASSUME NEW rows, Links(m, rows, E, F) PROVE Links(m, rows, E1, F1)
    BY <1>1 DEF Links
  <1> QED BY <1>1 DEF SupportOf

LEMMA NoRowsLink == \A m, E, F : Links(m, NoRows, E, F)
  BY DEF Links, NoRows

LEMMA RequeueKeepsRows ==
  ASSUME NEW r \in MissionRecord
  PROVE  KeepsRows(r, Requeue(r))
  BY DEF KeepsRows, Requeue, MissionRecord

LEMMA ReconcileKeepsRows ==
  ASSUME NEW r \in MissionRecord
  PROVE  KeepsRows(r, reconcileMission(r))
  <1>1. KeepsRows(r, [r EXCEPT !.status = "queued", !.phase = "queued"])
    BY DEF KeepsRows, MissionRecord
  <1>2. KeepsRows(r, settleVerificationWithoutFind(r))
    BY DEF KeepsRows, settleVerificationWithoutFind, MissionRecord
  <1>3. KeepsRows(r, r)
    BY DEF KeepsRows
  <1> QED BY <1>1, <1>2, <1>3, RequeueKeepsRows DEF reconcileMission

(* "Buscar mas" archives the attempt: the kept attempts are attempts there were. *)
LEMMA KeepLastElements ==
  ASSUME NEW s \in Seq(Attempt), NEW i \in DOMAIN KeepLast(s)
  PROVE  \E j \in DOMAIN s : KeepLast(s)[i] = s[j]
  <1>1. CASE Len(s) > MaxPrior
    <2> DEFINE a == Len(s) - MaxPrior + 1
    <2>1. KeepLast(s) = SubSeq(s, a, Len(s))
      BY <1>1 DEF KeepLast
    <2>2. Len(s) \in Nat /\ a \in 1..Len(s) /\ MaxPrior \in Nat
      BY <1>1, ConstantsAssumption
    <2> HIDE DEF a
    <2>5. DOMAIN SubSeq(s, a, Len(s)) = 1..(Len(s) - a + 1)
          /\ \A k \in 1..(Len(s) - a + 1) : SubSeq(s, a, Len(s))[k] = s[a + k - 1]
      BY <2>2
    <2>3. i \in 1..(Len(s) - a + 1) /\ SubSeq(s, a, Len(s))[i] = s[a + i - 1]
      BY <2>1, <2>5
    <2>4. a + i - 1 \in DOMAIN s
      BY <2>2, <2>3
    <2> QED BY <2>1, <2>3, <2>4
  <1>2. CASE ~(Len(s) > MaxPrior)
    BY <1>2 DEF KeepLast
  <1> QED BY <1>1, <1>2

LEMMA StartSupport ==
  ASSUME NEW m, NEW r \in MissionRecord, NEW E, NEW F, SupportOf(m, r, E, F),
         NEW revision, NEW auth
  PROVE  /\ SupportOf(m, restartMission(r, revision, auth), E, F)
         /\ SupportOf(m, searchMoreMission(r, revision, auth), E, F)
  <1> DEFINE fresh == restartMission(r, revision, auth)
             more == searchMoreMission(r, revision, auth)
             attempts == Append(r.prior, archivedAttempt(r))
  <1>1. fresh.status # "completed" /\ fresh.rows = NoRows /\ fresh.prior = << >>
    BY DEF restartMission, Absent
  <1>2. more.status # "completed" /\ more.rows = NoRows /\ more.prior = KeepLast(attempts)
    BY DEF searchMoreMission, restartMission, Absent
  <1>3. archivedAttempt(r) \in Attempt /\ r.prior \in Seq(Attempt) /\ attempts \in Seq(Attempt)
    BY DEF archivedAttempt, Attempt, MissionRecord
  <1>4. ASSUME NEW j \in DOMAIN attempts PROVE Links(m, attempts[j].rows, E, F)
    <2>1. CASE j = Len(r.prior) + 1
      <3>1. attempts[j] = archivedAttempt(r)
        BY <1>3, <2>1
      <3> QED BY <3>1 DEF archivedAttempt, SupportOf
    <2>2. CASE j # Len(r.prior) + 1
      <3>1. j \in DOMAIN r.prior /\ attempts[j] = r.prior[j]
        BY <1>3, <2>2
      <3> QED BY <3>1 DEF SupportOf
    <2> QED BY <2>1, <2>2
  <1>5. ASSUME NEW i \in DOMAIN KeepLast(attempts)
        PROVE  Links(m, KeepLast(attempts)[i].rows, E, F)
    BY <1>3, <1>4, KeepLastElements
  <1>6. SupportOf(m, fresh, E, F)
    BY <1>1, NoRowsLink DEF SupportOf
  <1>7. SupportOf(m, more, E, F)
    <2> HIDE DEF more, attempts
    <2> QED BY <1>2, <1>5, NoRowsLink DEF SupportOf
  <1> QED BY <1>6, <1>7

LEMMA SealSupport ==
  ASSUME TypeOK, NEW p \in Procs, NEW r \in MissionRecord, NEW m,
         NEW supported \in SUBSET Candidates, supported \subseteq proc[p].out,
         NEW E, NEW F, SupportOf(m, r, E, F),
         {m} \X proc[p].out \subseteq E, {m} \X supported \subseteq F
  PROVE  SupportOf(m, Sealed(p, r, supported), E, F)
  <1> DEFINE s == Sealed(p, r, supported)
  <1>1. s.rows = Verdicts(p, supported) /\ s.prior = r.prior
    BY DEF Sealed, settleVerificationWithoutFind, MissionRecord
  <1>2. s.status = "completed" => supported # {}
    BY DEF Sealed, settleVerificationWithoutFind, MissionRecord, anySupported
  <1>3. \A c \in supported : s.rows[c] = "supported"
    BY <1>1 DEF Verdicts
  <1>4. supported \subseteq Supported(s)
    BY <1>3 DEF Supported
  <1>5. Links(m, s.rows, E, F)
    <2>1. ASSUME NEW c \in Candidates, s.rows[c] \in {"supported", "unsupported"}
          PROVE  c \in proc[p].out
      BY <1>1, <2>1 DEF Verdicts
    <2>2. ASSUME NEW c \in Candidates, s.rows[c] = "supported" PROVE c \in supported
      BY <1>1, <2>2 DEF Verdicts
    <2> QED BY <2>1, <2>2 DEF Links
  <1>6. SupportOf(m, s, E, F)
    <2> HIDE DEF s
    <2> QED BY <1>1, <1>2, <1>4, <1>5 DEF SupportOf
  <1> QED BY <1>6

LEMMA SupportStep ==
  ASSUME TypeOK, Grows, NEW m \in Missions, RecordStep(m),
         SupportOf(m, mission[m], evidence, finds)
  PROVE  SupportOf(m, mission'[m], evidence', finds')
  <1>0. mission[m] \in MissionRecord /\ SupportOf(m, mission[m], evidence', finds')
    BY SupportGrows DEF TypeOK, Grows
  <1>1. ASSUME KeepsRows(mission[m], mission'[m])
        PROVE  SupportOf(m, mission'[m], evidence', finds')
    BY <1>0, <1>1, KeepsRowsSupport
  <1>2. CASE mission'[m] = mission[m]
    BY <1>0, <1>2
  <1>3. CASE Reauthorized(m) \/ Lapsed(m)
    BY <1>0, <1>1, <1>3 DEF Reauthorized, Lapsed, KeepsRows, MissionRecord
  <1>4. CASE Started(m)
    BY <1>0, <1>4, StartSupport DEF Started
  <1>5. CASE Listed(m)
    BY <1>0, <1>1, <1>5, ReconcileKeepsRows DEF Listed
  <1>6. CASE Taken(m)
    BY <1>0, <1>1, <1>6 DEF Taken, Claimed, KeepsRows, MissionRecord
  <1>7. CASE Delivered(m)
    BY <1>0, <1>1, <1>7 DEF Delivered, Recorded, KeepsRows, MissionRecord
  <1>8. CASE GivenUp(m)
    BY <1>0, <1>1, <1>8, RequeueKeepsRows DEF GivenUp
  <1>9. CASE Blocked(m)
    BY <1>0, <1>1, <1>9 DEF Blocked, KeepsRows, MissionRecord
  <1>10. CASE Settled(m)
    BY <1>0, <1>10, SealSupport DEF Settled
  <1> QED BY <1>2, <1>3, <1>4, <1>5, <1>6, <1>7, <1>8, <1>9, <1>10 DEF RecordStep

LEMMA SupportSaid ==
  CompletedMeansSupport <=> \A m \in Missions : SupportOf(m, mission[m], evidence, finds)
  BY DEF CompletedMeansSupport, SupportOf, RowsLink, Links

(* Completado is reserved for Kernel SUPPORT: through late results, stale     *)
(* verifications, restarts and archived attempts, a Mission completed with    *)
(* candidates has a supported one, and no verified row ever loses the         *)
(* Evidence, no supported one the Find, it was recorded with.                 *)
THEOREM CompletedIsSupported == Spec => []CompletedMeansSupport
  <1>1. Init => CompletedMeansSupport
    <2> SUFFICES ASSUME Init, NEW m \in Missions
                 PROVE  SupportOf(m, mission[m], evidence, finds)
      BY SupportSaid
    <2>1. CASE m \in LegacyStranded
      <3>1. mission[m] = StrandedRecord /\ \A c \in Candidates : <<m, c>> \in evidence
        BY <2>1, ConstantsAssumption DEF Init
      <3>2. /\ StrandedRecord.status = "running" /\ StrandedRecord.prior = << >>
            /\ StrandedRecord.rows = [c \in Candidates |-> "unsupported"]
        BY DEF StrandedRecord, Absent
      <3> QED BY <3>1, <3>2 DEF SupportOf, Links
    <2>2. CASE m \notin LegacyStranded
      <3>1. mission[m] = Absent
        BY <2>2 DEF Init
      <3>2. Absent.status = "none" /\ Absent.prior = << >> /\ Absent.rows = NoRows
        BY DEF Absent
      <3> QED BY <3>1, <3>2, NoRowsLink DEF SupportOf
    <2> QED BY <2>1, <2>2
  <1>2. TypeOK /\ CompletedMeansSupport /\ [Next]_vars => CompletedMeansSupport'
    <2> SUFFICES ASSUME TypeOK, CompletedMeansSupport, [Next]_vars
                 PROVE  CompletedMeansSupport'
      OBVIOUS
    <2>1. \A m \in Missions : SupportOf(m, mission'[m], evidence', finds')
      BY NextKeeps, NextRecordStep, SupportStep, SupportSaid
    <2> QED BY <2>1 DEF CompletedMeansSupport, SupportOf, RowsLink, Links
  <1> QED BY <1>1, <1>2, TypeCorrect, PTL DEF Spec

-----------------------------------------------------------------------------
(* Receipts. Receipt ids are issued once, so a receipt seen again under the   *)
(* same id is the same receipt; a receipt's revision is never ahead of the    *)
(* Goal's.                                                                    *)

AuthKept(m) == mission'[m].auth = mission[m].auth /\ mission'[m].round = mission[m].round

AuthIssued(m) ==
  /\ mission'[m].auth = [id |-> receipts + 1, rev |-> goal'[GoalOf[m]]]
  /\ receipts' = receipts + 1

AuthStep(m) ==
  /\ goal[GoalOf[m]] <= goal'[GoalOf[m]] /\ receipts <= receipts'
  /\ \/ AuthKept(m) \/ AuthIssued(m)
     \/ mission'[m].auth.id = 0 /\ ~mission'[m].gated

LEMMA UserAuthStep ==
  ASSUME TypeOK, UserStep, NEW n \in Missions
  PROVE  AuthStep(n)
  <1>0. /\ goal \in [Goals -> Nat] /\ receipts \in Nat /\ GoalOf[n] \in Goals
        /\ mission \in [Missions -> MissionRecord] /\ goal[GoalOf[n]] \in Nat
    BY ConstantsAssumption DEF TypeOK
  <1>1. ASSUME NEW g \in Goals, CreateGoal(g) PROVE AuthStep(n)
    BY <1>0, <1>1 DEF CreateGoal, AuthStep, AuthKept
  <1>2. ASSUME NEW g \in Goals, ReviseGoal(g) PROVE AuthStep(n)
    <2>1. goal[GoalOf[n]] <= goal'[GoalOf[n]] /\ receipts' = receipts + 1
      BY <1>0, <1>2 DEF ReviseGoal
    <2>2. CASE mission'[n] = mission[n]
      BY <1>0, <2>1, <2>2 DEF AuthStep, AuthKept
    <2>3. CASE g = GoalOf[n] /\ mission'[n] = Rescoped(mission[n], g)
      <3>1. goal'[GoalOf[n]] = goal[g] + 1
        BY <1>0, <1>2, <2>3 DEF ReviseGoal
      <3>2. mission'[n].round = mission[n].round
        BY <1>0, <2>3 DEF Rescoped, MissionRecord
      <3>3. mission'[n].auth = IF mission[n].auth.id = 0 THEN mission[n].auth
                               ELSE [id |-> receipts + 1, rev |-> goal[g] + 1]
        BY <1>0, <2>3 DEF Rescoped, MissionRecord
      <3> QED BY <1>0, <2>1, <3>1, <3>2, <3>3 DEF AuthStep, AuthKept, AuthIssued
    <2> QED BY <1>0, <1>2, <2>2, <2>3 DEF ReviseGoal
  <1>3. ASSUME NEW m \in Missions, NEW actor \in BOOLEAN, ConfirmActive(m, actor)
        PROVE  AuthStep(n)
    <2>1. goal' = goal /\ receipts' = IF actor THEN receipts + 1 ELSE receipts
      BY <1>3 DEF ConfirmActive
    <2>2. CASE mission'[n] = mission[n]
      BY <1>0, <2>1, <2>2 DEF AuthStep, AuthKept
    <2>3. CASE actor /\ mission'[n] = [mission[n] EXCEPT !.auth = NewReceipt(n, actor)]
      <3>1. mission'[n].auth = [id |-> receipts + 1, rev |-> goal[GoalOf[n]]]
        BY <1>0, <2>3 DEF NewReceipt, MissionRecord
      <3>2. receipts' = receipts + 1 /\ goal'[GoalOf[n]] = goal[GoalOf[n]]
        BY <2>1, <2>3
      <3> QED BY <1>0, <3>1, <3>2 DEF AuthStep, AuthIssued
    <2> QED BY <1>0, <1>3, <2>2, <2>3 DEF ConfirmActive
  <1>4. ASSUME NEW m \in Missions, NEW actor \in BOOLEAN,
               NEW mode \in {"restart", "search_more"}, StartMission(m, mode, actor)
        PROVE  AuthStep(n)
    <2>1. goal' = goal /\ receipts' = IF actor THEN receipts + 1 ELSE receipts
      BY <1>4 DEF StartMission
    <2>2. CASE mission'[n] = mission[n]
      BY <1>0, <2>1, <2>2 DEF AuthStep, AuthKept
    <2>3. CASE n = m
      <3>1. \/ mission'[n] = restartMission(mission[n], goal[GoalOf[n]], NewReceipt(n, actor))
            \/ mission'[n] = searchMoreMission(mission[n], goal[GoalOf[n]], NewReceipt(n, actor))
        BY <1>0, <1>4, <2>3 DEF StartMission
      <3>2. mission'[n].auth = NewReceipt(n, actor) /\ ~mission'[n].gated
        BY <3>1 DEF restartMission, searchMoreMission, Absent
      <3> QED BY <1>0, <2>1, <3>2 DEF AuthStep, AuthIssued, NewReceipt, NoReceipt
    <2> QED BY <1>0, <1>4, <2>2, <2>3 DEF StartMission
  <1> QED BY <1>1, <1>2, <1>3, <1>4 DEF UserStep

(* Only user decisions start a Mission or change its receipt.                 *)
LEMMA KeptRecordStep ==
  ASSUME TypeOK, Kept, NEW n \in Missions
  PROVE  ~Started(n) /\ ~Reauthorized(n)
  <1>1. decisions' # decisions + 1
    BY DEF TypeOK, Kept
  <1> QED BY <1>1 DEF Started, Reauthorized

LEMMA NextAuthStep ==
  ASSUME TypeOK, [Next]_vars, NEW n \in Missions
  PROVE  AuthStep(n)
  <1>1. CASE UserStep
    BY <1>1, UserAuthStep
  <1>2. CASE Kept
    <2>0. mission[n] \in MissionRecord /\ goal[GoalOf[n]] \in Nat /\ receipts \in Nat
      BY ConstantsAssumption DEF TypeOK
    <2>1. RecordStep(n) /\ ~Started(n) /\ ~Reauthorized(n)
      BY <1>2, NextRecordStep, KeptRecordStep
    <2>2. ASSUME Listed(n) \/ Lapsed(n) PROVE AuthKept(n)
      BY <2>0, <2>2 DEF Listed, Lapsed, reconcileMission, Requeue, settleVerificationWithoutFind,
                        MissionRecord, AuthKept
    <2>3. ASSUME Taken(n) \/ Delivered(n) \/ GivenUp(n) PROVE AuthKept(n)
      BY <2>0, <2>3 DEF Taken, Claimed, Delivered, Recorded, GivenUp, Requeue,
                        MissionRecord, AuthKept
    <2>4. ASSUME Blocked(n) \/ Settled(n) PROVE AuthKept(n)
      BY <2>0, <2>4 DEF Blocked, Settled, Sealed, settleVerificationWithoutFind,
                        MissionRecord, AuthKept
    <2>5. ASSUME mission'[n] = mission[n] PROVE AuthKept(n)
      BY <2>5 DEF AuthKept
    <2>6. AuthKept(n)
      BY <2>1, <2>2, <2>3, <2>4, <2>5 DEF RecordStep
    <2> QED BY <1>2, <2>0, <2>6 DEF AuthStep, Kept
  <1> QED BY <1>1, <1>2, NextKeeps

(* A revision never overtakes work in progress: neither a live lease nor a    *)
(* batch nobody has read yet.                                                 *)
LEMMA NotOvertaken ==
  ASSUME TypeOK, [Next]_vars, NEW n \in Missions, RecordInv(mission[n]), goal[GoalOf[n]] > 0,
         \/ mission[n].live
         \/ /\ mission[n].phase = "verifying" /\ mission[n].verificationBlock = "none"
            /\ mission[n].rows = NoRows
  PROVE  goal'[GoalOf[n]] = goal[GoalOf[n]]
  <1>0. goal \in [Goals -> Nat] /\ GoalOf[n] \in Goals
    BY ConstantsAssumption DEF TypeOK
  <1>1. \/ mission[n].status = "running" /\ isActive(mission[n])
        \/ isVerificationPending(mission[n])
    <2>1. CASE mission[n].live
      BY <2>1 DEF RecordInv, isActive
    <2>2. CASE /\ mission[n].phase = "verifying" /\ mission[n].verificationBlock = "none"
               /\ mission[n].rows = NoRows
      <3>1. ~isStranded(mission[n])
        <4> SUFFICES ASSUME mission[n].cands # {}, mission[n].cands \subseteq Candidates
                     PROVE  \E c \in mission[n].cands :
                               mission[n].rows[c] \notin {"verification_failed", "unsupported"}
          BY DEF isStranded, isVerifying, TypeOK, MissionRecord
        <4> QED BY <2>2 DEF NoRows
      <3> QED BY <2>2, <3>1 DEF isVerificationPending, RecordInv
    <2> QED BY <2>1, <2>2
  <1>2. ASSUME NEW g \in Goals, CreateGoal(g) PROVE goal'[GoalOf[n]] = goal[GoalOf[n]]
    BY <1>0, <1>2 DEF CreateGoal
  <1>3. ASSUME NEW g \in Goals, ReviseGoal(g) PROVE goal'[GoalOf[n]] = goal[GoalOf[n]]
    BY <1>0, <1>1, <1>3 DEF ReviseGoal, RevisionAllowed
  <1>4. ASSUME NEW m \in Missions, NEW actor \in BOOLEAN, NEW mode \in {"restart", "search_more"},
               ConfirmActive(m, actor) \/ StartMission(m, mode, actor)
        PROVE  goal'[GoalOf[n]] = goal[GoalOf[n]]
    BY <1>4 DEF ConfirmActive, StartMission
  <1>5. UserStep \/ goal' = goal
    BY NextKeeps DEF Kept
  <1> QED BY <1>2, <1>3, <1>4, <1>5 DEF UserStep

-----------------------------------------------------------------------------
(* What a step does to a process that is verifying a batch. *)

Verifying(v) == v.pc \in {"read", "block", "commit"}

(* The store it decides on: a batch that awaits verification.                 *)
Looks(p) ==
  /\ UNCHANGED <<goal, mission, receipts>>
  /\ proc'[p].m = proc[p].m /\ proc[p].m \in Missions
  /\ isVerifying(mission[proc[p].m])
  /\ proc'[p].auth = mission[proc[p].m].auth.id

ProcStep(p) ==
  \/ proc'[p] = proc[p]
  \/ ~Verifying(proc'[p]) /\ proc'[p].auth \in {0, proc[p].auth}
  \/ /\ Looks(p) /\ proc'[p].pc = "read"
     /\ Continuation(proc[p].m) = "none"
     /\ proc'[p].round = mission[proc[p].m].round
  \/ Looks(p) /\ proc'[p].pc = "block" /\ Continuation(proc[p].m) # "none"
  \/ /\ Looks(p) /\ proc'[p].pc = "commit" /\ proc[p].pc = "read"
     /\ Continuation(proc[p].m) = "none"
     /\ proc'[p].auth = proc[p].auth /\ proc'[p].round = proc[p].round

LEMMA IdleNotVerifying == ~Verifying(Idle) /\ Idle.auth = 0
  BY DEF Verifying, Idle

LEMMA BecomeProcStep ==
  ASSUME TypeOK, NEW p \in Procs, NEW r, Become(p, r), ~Verifying(r),
         r.auth \in {0, proc[p].auth}, NEW q \in Procs
  PROVE  ProcStep(q)
  BY DEF TypeOK, Become, ProcStep

LEMMA StopProcStep ==
  ASSUME TypeOK, NEW p \in Procs, Stop(p), NEW q \in Procs
  PROVE  ProcStep(q)
  BY BecomeProcStep, IdleNotVerifying DEF Stop

LEMMA GotoProcStep ==
  ASSUME TypeOK, NEW p \in Procs, NEW pc \in {"reconcile", "report", "loop"}, Goto(p, pc),
         NEW q \in Procs
  PROVE  ProcStep(q)
  <1>1. /\ ~Verifying([proc[p] EXCEPT !.pc = pc])
        /\ [proc[p] EXCEPT !.pc = pc].auth = proc[p].auth
    BY DEF TypeOK, ProcRecord, Verifying
  <1> QED BY <1>1, BecomeProcStep DEF Goto

LEMMA WorkerProcStep ==
  ASSUME TypeOK, NEW p \in Procs, WorkerStep(p), NEW q \in Procs
  PROVE  ProcStep(q)
  <1>0. proc[p] \in ProcRecord
    BY DEF TypeOK
  <1>1. CASE Claim(p)
    <2>1. /\ ~Verifying([proc[p] EXCEPT !.pc = "work", !.lease = NewLease(proc[p].m)])
          /\ [proc[p] EXCEPT !.pc = "work", !.lease = NewLease(proc[p].m)].auth = proc[p].auth
      BY <1>0 DEF ProcRecord, Verifying
    <2> QED BY <1>1, <2>1, BecomeProcStep, StopProcStep DEF Claim, AfterRefusedClaim
  <1>2. ASSUME NEW r, AfterSubmit(p, r) PROVE ProcStep(q)
    <2>1. /\ ~Verifying([proc[p] EXCEPT !.pc = "verify", !.lease = 0])
          /\ [proc[p] EXCEPT !.pc = "verify", !.lease = 0].auth = proc[p].auth
      BY <1>0 DEF ProcRecord, Verifying
    <2> QED BY <1>2, <2>1, BecomeProcStep, StopProcStep DEF AfterSubmit
  <1>3. ASSUME NEW batch, Submit(p, batch) PROVE ProcStep(q)
    BY <1>2, <1>3, GotoProcStep DEF Submit
  <1>4. CASE AdapterFails(p)
    BY <1>4, GotoProcStep DEF AdapterFails
  <1>5. CASE Reconcile(p)
    BY <1>2, <1>5, GotoProcStep DEF Reconcile
  <1>6. CASE Report(p)
    <2>1. /\ ~Verifying([proc[p] EXCEPT !.pc = "claim", !.lease = 0, !.tries = proc[p].tries + 1])
          /\ [proc[p] EXCEPT !.pc = "claim", !.lease = 0,
                             !.tries = proc[p].tries + 1].auth = proc[p].auth
      BY <1>0 DEF ProcRecord, Verifying
    <2> QED BY <1>6, <2>1, BecomeProcStep, StopProcStep DEF Report, AfterFailure
  <1> QED BY <1>1, <1>3, <1>4, <1>5, <1>6 DEF WorkerStep

LEMMA VerifierProcStep ==
  ASSUME TypeOK, NEW p \in Procs, VerifierStep(p), NEW q \in Procs
  PROVE  ProcStep(q)
  <1>0. proc \in [Procs -> ProcRecord] /\ proc[p] \in ProcRecord
    BY DEF TypeOK
  <1>1. ASSUME VerifyReturns(p) \/ VerifyThrows(p) PROVE ProcStep(q)
    <2>1. /\ ~Verifying([Idle EXCEPT !.kind = "recovery", !.pc = "loop"])
          /\ [Idle EXCEPT !.kind = "recovery", !.pc = "loop"].auth = 0
      BY DEF Idle, Verifying
    <2> QED BY <1>1, <2>1, BecomeProcStep, StopProcStep, IdleNotVerifying
            DEF VerifyReturns, VerifyThrows
  <1>2. ASSUME NEW pages, Notifying(p, pages) PROVE ProcStep(q)
    <2>1. /\ ~Verifying([proc[p] EXCEPT !.pc = "notify", !.out = pages])
          /\ [proc[p] EXCEPT !.pc = "notify", !.out = pages].auth = proc[p].auth
      BY <1>0 DEF ProcRecord, Verifying
    <2> QED BY <1>2, <2>1, BecomeProcStep DEF Notifying
  <1>3. ASSUME proc[p].m \in Missions, isVerifying(mission[proc[p].m]),
               Continuation(proc[p].m) # "none",
               Blocking(p, mission[proc[p].m], Continuation(proc[p].m)),
               UNCHANGED <<goal, mission, receipts>>
        PROVE  ProcStep(q)
    <2>1. /\ proc'[p].pc = "block" /\ proc'[p].m = proc[p].m
          /\ proc'[p].auth = mission[proc[p].m].auth.id
          /\ q # p => proc'[q] = proc[q]
      BY <1>0, <1>3 DEF Blocking, Become, ProcRecord
    <2> QED BY <1>3, <2>1 DEF ProcStep, Looks
  <1>4. CASE VerifyStart(p)
    <2>1. proc[p].m \in Missions /\ UNCHANGED <<goal, mission, receipts>>
      BY <1>4 DEF VerifyStart, At, TypeOK
    <2>2. CASE /\ isVerifying(mission[proc[p].m]) /\ Continuation(proc[p].m) = "none"
               /\ Become(p, [proc[p] EXCEPT !.pc = "read", !.auth = mission[proc[p].m].auth.id,
                      !.cands = mission[proc[p].m].cands, !.round = mission[proc[p].m].round])
      <3>1. /\ proc'[p].pc = "read" /\ proc'[p].m = proc[p].m
            /\ proc'[p].auth = mission[proc[p].m].auth.id
            /\ proc'[p].round = mission[proc[p].m].round
            /\ q # p => proc'[q] = proc[q]
        BY <1>0, <2>2 DEF Become, ProcRecord
      <3> QED BY <2>1, <2>2, <3>1 DEF ProcStep, Looks
    <2> QED BY <1>1, <1>2, <1>3, <1>4, <2>1, <2>2 DEF VerifyStart
  <1>5. ASSUME NEW pages, VerifyRead(p, pages) PROVE ProcStep(q)
    <2>1. proc[p].m \in Missions /\ UNCHANGED <<goal, mission, receipts>> /\ proc[p].pc = "read"
      BY <1>5 DEF VerifyRead, At, TypeOK
    <2>2. CASE /\ requireSameCandidateBatch(p, mission[proc[p].m])
               /\ Continuation(proc[p].m) = "none"
               /\ Become(p, [proc[p] EXCEPT !.pc = "commit", !.out = pages])
      <3>1. /\ proc'[p].pc = "commit" /\ proc'[p].m = proc[p].m
            /\ proc'[p].auth = proc[p].auth /\ proc'[p].round = proc[p].round
            /\ q # p => proc'[q] = proc[q]
        BY <1>0, <2>2 DEF Become, ProcRecord
      <3> QED BY <2>1, <2>2, <3>1 DEF ProcStep, Looks, requireSameCandidateBatch
    <2>3. requireSameCandidateBatch(p, mission[proc[p].m]) => isVerifying(mission[proc[p].m])
      BY DEF requireSameCandidateBatch
    <2> QED BY <1>1, <1>2, <1>3, <1>5, <2>1, <2>2, <2>3 DEF VerifyRead
  <1>6. CASE RecordBlock(p) \/ RecordFailures(p) \/ NotifyConflict(p) \/ NotifyDone(p)
    BY <1>1, <1>6 DEF RecordBlock, RecordFailures, NotifyConflict, NotifyDone
  <1>7. ASSUME NEW supported, ProjectVerified(p, supported) PROVE ProcStep(q)
    BY <1>1, <1>2, <1>7 DEF ProjectVerified
  <1>8. ASSUME NEW c, NotifyNext(p, c) PROVE ProcStep(q)
    <2>1. /\ ~Verifying([proc[p] EXCEPT !.out = proc[p].out \ {c}])
          /\ [proc[p] EXCEPT !.out = proc[p].out \ {c}].auth = proc[p].auth
      BY <1>0, <1>8 DEF NotifyNext, At, Verifying, ProcRecord
    <2> QED BY <1>8, <2>1, BecomeProcStep DEF NotifyNext
  <1> QED BY <1>4, <1>5, <1>6, <1>7, <1>8 DEF VerifierStep

LEMMA NextProcStep ==
  ASSUME TypeOK, [Next]_vars, NEW q \in Procs
  PROVE  ProcStep(q)
  <1>0. proc \in [Procs -> ProcRecord] /\ proc[Boot] \in ProcRecord /\ Boot \in Procs
    BY BootProc DEF TypeOK
  <1>1. ASSUME proc' = proc PROVE ProcStep(q)
    BY <1>1 DEF ProcStep
  <1>2. CASE UNCHANGED vars
    BY <1>1, <1>2 DEF vars
  <1>3. CASE UserStep
    BY <1>1, <1>3 DEF UserStep, CreateGoal, ReviseGoal, ConfirmActive, StartMission
  <1>4. ASSUME NEW m \in Missions, LeaseExpires(m) PROVE ProcStep(q)
    BY <1>1, <1>4 DEF LeaseExpires
  <1>5. CASE List
    BY <1>1, <1>5 DEF List
  <1>6. ASSUME NEW x \in starts, Launch(x) PROVE ProcStep(q)
    <2>1. PICK p \in Slots : StartRun(x, p)
      BY <1>6 DEF Launch
    <2>2. /\ ~Verifying([Idle EXCEPT !.kind = "run", !.pc = "claim", !.m = x.m, !.tries = 1])
          /\ [Idle EXCEPT !.kind = "run", !.pc = "claim", !.m = x.m, !.tries = 1].auth = 0
      BY DEF Idle, Verifying
    <2> QED BY <1>1, <2>1, <2>2, BecomeProcStep, BootProc DEF StartRun
  <1>7. ASSUME NEW p \in Slots, NEW m \in Missions, NEW kind \in ExternalKinds,
               StartExternal(p, m, kind)
        PROVE  ProcStep(q)
    <2> DEFINE r == [Idle EXCEPT !.kind = kind, !.m = m, !.tries = 1,
                                 !.pc = IF kind = "worker" THEN "claim" ELSE "verify"]
    <2>1. ~Verifying(r) /\ r.auth = 0
      BY DEF Idle, Verifying
    <2> QED BY <1>7, <2>1, BecomeProcStep, BootProc DEF StartExternal
  <1>8. ASSUME NEW x \in late, DeliverLate(x) PROVE ProcStep(q)
    BY <1>1, <1>8 DEF DeliverLate
  <1>9. CASE RecoveryStep
    <2>1. CASE RecoverList
      BY <1>0, <2>1, GotoProcStep, StopProcStep DEF RecoverList
    <2>2. CASE RecoverEnd
      BY <1>0, <2>2, StopProcStep DEF RecoverEnd
    <2>3. ASSUME NEW x \in todo, RecoverNext(x) PROVE ProcStep(q)
      <3>1. /\ ~Verifying([proc[Boot] EXCEPT !.pc = "verify", !.m = x.m])
            /\ [proc[Boot] EXCEPT !.pc = "verify", !.m = x.m].auth = proc[Boot].auth
        BY <1>0 DEF ProcRecord, Verifying
      <3> QED BY <1>0, <1>1, <2>3, <3>1, BecomeProcStep DEF RecoverNext
    <2> QED BY <1>9, <2>1, <2>2, <2>3 DEF RecoveryStep
  <1>10. CASE Restart
    <2>1. /\ ~Verifying([Idle EXCEPT !.kind = "recovery", !.pc = "list"])
          /\ [Idle EXCEPT !.kind = "recovery", !.pc = "list"].auth = 0
      BY DEF Idle, Verifying
    <2> QED BY <1>10, <2>1, IdleNotVerifying DEF Restart, ProcStep
  <1> QED BY <1>2, <1>3, <1>4, <1>5, <1>6, <1>7, <1>8, <1>9, <1>10,
             WorkerProcStep, VerifierProcStep DEF Next

-----------------------------------------------------------------------------
(* The invariant. A receipt is never ahead of its Goal, a blocked batch is    *)
(* behind it, and what a verifying process read is what the store still says  *)
(* of the same receipt.                                                       *)

ReceiptInv(m) ==
  /\ Present(mission[m]) => goal[GoalOf[m]] > 0
  /\ mission[m].auth.id <= receipts
  /\ mission[m].auth.id # 0 => mission[m].auth.rev <= goal[GoalOf[m]]
  /\ mission[m].verificationBlock # "none" =>
       mission[m].auth.id = 0 \/ mission[m].auth.rev < goal[GoalOf[m]]

(* The Mission has brought a batch: it can only be settled or started anew.   *)
PastBatch(r) == r.phase = "verifying" \/ Finished(r)

Same(p) == mission[proc[p].m].auth.id = proc[p].auth

VerifierInv(p) ==
  /\ proc[p].auth <= receipts
  /\ At(p, "block") /\ proc[p].auth # 0 /\ Same(p) =>
       mission[proc[p].m].auth.rev < goal[GoalOf[proc[p].m]]
  /\ proc[p].pc \in {"read", "commit"} =>
       /\ proc[p].auth # 0
       /\ Same(p) => /\ mission[proc[p].m].round = proc[p].round
                     /\ PastBatch(mission[proc[p].m])
  /\ /\ At(p, "commit") /\ Same(p)
     /\ mission[proc[p].m].phase = "verifying" /\ mission[proc[p].m].rows = NoRows
     => mission[proc[p].m].auth.rev = goal[GoalOf[proc[p].m]]

GroundInv ==
  /\ \A m \in Missions : ReceiptInv(m)
  /\ \A p \in Procs : VerifierInv(p)

LEMMA ReceiptTypes ==
  ASSUME TypeOK, NEW m \in Missions
  PROVE  /\ mission[m] \in MissionRecord /\ mission[m].auth \in Receipt
         /\ mission[m].auth.id \in Nat /\ mission[m].auth.rev \in Nat
         /\ mission[m].round \in Nat /\ goal[GoalOf[m]] \in Nat /\ receipts \in Nat
  BY ConstantsAssumption DEF TypeOK, MissionRecord, Receipt

LEMMA ContinuationNone ==
  ASSUME NEW m, Continuation(m) = "none"
  PROVE  mission[m].auth.id # 0 /\ mission[m].auth.rev = goal[GoalOf[m]]
  BY DEF Continuation

LEMMA ContinuationSome ==
  ASSUME NEW m, Continuation(m) # "none"
  PROVE  mission[m].auth.id = 0 \/ mission[m].auth.rev # goal[GoalOf[m]]
  BY DEF Continuation

(* A Mission appears by being started. *)
LEMMA PresentStep ==
  ASSUME TypeOK, NEW m \in Missions, RecordInv(mission[m]), RecordStep(m), Present(mission'[m])
  PROVE  Present(mission[m]) \/ Started(m)
  <1>0. mission[m] \in MissionRecord
    BY DEF TypeOK
  <1>1. CASE Reauthorized(m) \/ Lapsed(m)
    BY <1>1 DEF Reauthorized, isActive, Lapsed, RecordInv, Present
  <1>2. CASE Listed(m)
    BY <1>0, <1>2 DEF Listed, reconcileMission, isStranded, isVerifying, Present
  <1>3. CASE Taken(m)
    BY <1>3 DEF Taken, isClaimable, Present
  <1>4. CASE Delivered(m) \/ GivenUp(m)
    BY <1>4 DEF Delivered, GivenUp, Accepts, SameBatch, requireActiveLease, RecordInv, Present
  <1>5. CASE Blocked(m) \/ Settled(m)
    BY <1>5 DEF Blocked, Settled, isVerifying, Present
  <1> QED BY <1>1, <1>2, <1>3, <1>4, <1>5 DEF RecordStep, Present

(* A batch is blocked by #recordBlock and by nothing else. *)
LEMMA BlockStep ==
  ASSUME TypeOK, NEW m \in Missions, RecordInv(mission[m]), RecordStep(m),
         mission'[m].verificationBlock # "none"
  PROVE  \/ Blocked(m)
         \/ /\ mission[m].verificationBlock # "none" /\ mission'[m].auth = mission[m].auth
  <1>0. mission[m] \in MissionRecord
    BY DEF TypeOK
  <1>1. ASSUME Reauthorized(m) PROVE FALSE
    <2>1. mission'[m].verificationBlock = mission[m].verificationBlock
      BY <1>0, <1>1 DEF Reauthorized, MissionRecord
    <2> QED BY <1>1, <2>1 DEF Reauthorized, isActive, RecordInv
  <1>2. ASSUME Started(m) PROVE FALSE
    BY <1>2 DEF Started, restartMission, searchMoreMission, Absent
  <1>3. CASE Listed(m) \/ Lapsed(m)
    BY <1>0, <1>3 DEF Listed, Lapsed, reconcileMission, Requeue, settleVerificationWithoutFind,
                      MissionRecord
  <1>4. CASE Taken(m) \/ Delivered(m) \/ GivenUp(m)
    BY <1>0, <1>4 DEF Taken, Claimed, Delivered, Recorded, GivenUp, Requeue, MissionRecord
  <1>5. ASSUME Settled(m) PROVE FALSE
    BY <1>0, <1>5 DEF Settled, Sealed, settleVerificationWithoutFind, MissionRecord
  <1> QED BY <1>1, <1>2, <1>3, <1>4, <1>5 DEF RecordStep

LEMMA ReceiptStep ==
  ASSUME TypeOK, TypeOK', NEW m \in Missions, RecordInv(mission[m]), RecordStep(m), AuthStep(m),
         ReceiptInv(m), \A p \in Procs : VerifierInv(p)
  PROVE  ReceiptInv(m)'
  <1>0. /\ mission[m].auth.id \in Nat /\ mission[m].auth.rev \in Nat
        /\ goal[GoalOf[m]] \in Nat /\ receipts \in Nat
        /\ mission'[m].auth.id \in Nat /\ mission'[m].auth.rev \in Nat
        /\ goal'[GoalOf[m]] \in Nat /\ receipts' \in Nat
    BY ConstantsAssumption DEF TypeOK, MissionRecord, Receipt
  <1>1. Present(mission'[m]) => goal'[GoalOf[m]] > 0
    BY <1>0, PresentStep DEF ReceiptInv, AuthStep, Started
  <1>2. mission'[m].auth.id <= receipts'
    BY <1>0 DEF ReceiptInv, AuthStep, AuthKept, AuthIssued
  <1>3. mission'[m].auth.id # 0 => mission'[m].auth.rev <= goal'[GoalOf[m]]
    BY <1>0 DEF ReceiptInv, AuthStep, AuthKept, AuthIssued
  <1>4. mission'[m].verificationBlock # "none" =>
          mission'[m].auth.id = 0 \/ mission'[m].auth.rev < goal'[GoalOf[m]]
    <2>1. CASE /\ mission[m].verificationBlock # "none" /\ mission'[m].auth = mission[m].auth
      BY <1>0, <2>1 DEF ReceiptInv, AuthStep
    <2>2. CASE Blocked(m)
      <3>1. PICK p \in Procs :
              /\ At(p, "block") /\ proc[p].m = m /\ requireSameCandidateBatch(p, mission[m])
              /\ mission'[m] = [mission[m] EXCEPT !.verificationBlock = proc[p].reason]
        BY <2>2 DEF Blocked
      <3>2. mission'[m].auth = mission[m].auth
        BY <3>1 DEF TypeOK, MissionRecord
      <3>3. mission[m].auth.id = 0 \/ mission[m].auth.rev < goal[GoalOf[m]]
        BY <3>1 DEF VerifierInv, Same, requireSameCandidateBatch
      <3> QED BY <1>0, <3>2, <3>3 DEF AuthStep
    <2> QED BY <2>1, <2>2, BlockStep
  <1> QED BY <1>1, <1>2, <1>3, <1>4 DEF ReceiptInv

(* Once past its batch a Mission leaves only by being started again, and its  *)
(* rows stay as they are while it is verifying.                               *)
LEMMA PastBatchStep ==
  ASSUME TypeOK, NEW m \in Missions, RecordInv(mission[m]), RecordStep(m),
         PastBatch(mission[m]), ~Started(m)
  PROVE  /\ PastBatch(mission'[m])
         /\ mission'[m].phase = "verifying" =>
              mission[m].phase = "verifying" /\ mission'[m].rows = mission[m].rows
  <1>0. mission[m] \in MissionRecord
    BY DEF TypeOK
  <1>1. ~Reauthorized(m) /\ ~Lapsed(m) /\ ~Taken(m) /\ ~GivenUp(m)
    BY DEF PastBatch, Finished, RecordInv, Reauthorized, isActive, Lapsed, Taken, isClaimable,
           Expired, GivenUp, requireActiveLease
  <1>2. CASE mission'[m] = mission[m]
    BY <1>2
  <1>3. CASE Listed(m)
    <2>1. CASE isStranded(mission[m])
      <3>1. mission'[m].status = "failed" /\ mission'[m].phase = "failed"
        BY <1>0, <1>3, <2>1 DEF Listed, reconcileMission, isStranded, isVerifying, RecordInv, Expired,
                                settleVerificationWithoutFind, MissionRecord
      <3> QED BY <3>1 DEF PastBatch, Finished
    <2>2. CASE ~isStranded(mission[m])
      BY <1>3, <2>2 DEF Listed, reconcileMission, PastBatch, Finished, RecordInv, Expired
    <2> QED BY <2>1, <2>2
  <1>4. CASE Delivered(m)
    BY <1>4 DEF Delivered, Accepts, Recorded, requireActiveLease, PastBatch, Finished, RecordInv
  <1>5. CASE Blocked(m)
    BY <1>0, <1>5 DEF Blocked, PastBatch, Finished, MissionRecord
  <1>6. CASE Settled(m)
    BY <1>0, <1>6 DEF Settled, Sealed, settleVerificationWithoutFind, PastBatch, Finished, MissionRecord
  <1> QED BY <1>1, <1>2, <1>3, <1>4, <1>5, <1>6 DEF RecordStep

(* A process waits while the rest of the system moves: what it read still     *)
(* goes for the receipt it read it under.                                     *)
LEMMA WaitingVerifier ==
  ASSUME TypeOK, TypeOK', RecordsOK, GroundInv, [Next]_vars, NEW p \in Procs,
         proc'[p] = proc[p], Verifying(proc[p])
  PROVE  VerifierInv(p)'
  <1> DEFINE m == proc[p].m
  <1>0. /\ m \in Missions /\ RecordInv(mission[m]) /\ ReceiptInv(m) /\ VerifierInv(p)
        /\ RecordStep(m) /\ AuthStep(m)
    <2>1. m \in Missions
      BY DEF TypeOK, Verifying
    <2> QED BY <2>1, NextRecordStep, NextAuthStep DEF RecordsOK, GroundInv
  <1>1. /\ mission[m].auth.id \in Nat /\ mission[m].auth.rev \in Nat /\ mission[m].round \in Nat
        /\ goal[GoalOf[m]] \in Nat /\ goal'[GoalOf[m]] \in Nat
        /\ receipts \in Nat /\ receipts' \in Nat /\ proc[p].auth \in Nat
    BY <1>0, ConstantsAssumption DEF TypeOK, MissionRecord, Receipt, ProcRecord
  <1>2. proc'[p].auth <= receipts'
    BY <1>0, <1>1 DEF VerifierInv, AuthStep
  <1>3. ASSUME proc[p].auth # 0, mission'[m].auth.id = proc[p].auth
        PROVE  AuthKept(m) /\ Same(p) /\ ~Started(m)
    <2>1. AuthKept(m)
      BY <1>0, <1>1, <1>3 DEF AuthStep, AuthIssued, VerifierInv
    <2>2. ASSUME Started(m) PROVE mission'[m].round = mission[m].round + 1
      BY <2>2 DEF Started, restartMission, searchMoreMission, Absent
    <2> QED BY <1>1, <1>3, <2>1, <2>2 DEF AuthKept, Same
  <1>4. At(p, "block") /\ proc[p].auth # 0 /\ mission'[m].auth.id = proc[p].auth =>
          mission'[m].auth.rev < goal'[GoalOf[m]]
    BY <1>0, <1>1, <1>3 DEF VerifierInv, AuthKept, AuthStep
  <1>5. proc[p].pc \in {"read", "commit"} =>
          /\ proc[p].auth # 0
          /\ mission'[m].auth.id = proc[p].auth =>
               mission'[m].round = proc[p].round /\ PastBatch(mission'[m])
    BY <1>0, <1>3, PastBatchStep DEF VerifierInv, AuthKept
  <1>6. ASSUME At(p, "commit"), mission'[m].auth.id = proc[p].auth,
               mission'[m].phase = "verifying", mission'[m].rows = NoRows
        PROVE  mission'[m].auth.rev = goal'[GoalOf[m]]
    <2>1. proc[p].auth # 0 /\ proc[p].pc = "commit"
      BY <1>0, <1>6 DEF VerifierInv, At
    <2>2. AuthKept(m) /\ Same(p) /\ ~Started(m) /\ PastBatch(mission[m])
      BY <1>0, <1>3, <1>6, <2>1 DEF VerifierInv
    <2>3. mission[m].phase = "verifying" /\ mission[m].rows = NoRows
      BY <1>0, <1>6, <2>2, PastBatchStep
    <2>4. mission[m].auth.rev = goal[GoalOf[m]] /\ mission[m].auth.id # 0
      BY <1>0, <1>6, <2>1, <2>2, <2>3 DEF VerifierInv, Same
    <2>5. mission[m].verificationBlock = "none" /\ goal[GoalOf[m]] > 0
      BY <1>0, <1>1, <2>3, <2>4 DEF ReceiptInv, RecordInv, Present
    <2>6. goal'[GoalOf[m]] = goal[GoalOf[m]]
      BY <1>0, <2>3, <2>5, NotOvertaken
    <2> QED BY <2>2, <2>4, <2>6 DEF AuthKept
  <1> QED BY <1>2, <1>4, <1>5, <1>6 DEF VerifierInv, Same, At

LEMMA VerifierInvStep ==
  ASSUME TypeOK, TypeOK', RecordsOK, GroundInv, [Next]_vars, NEW p \in Procs
  PROVE  VerifierInv(p)'
  <1>0. /\ proc[p].auth \in Nat /\ receipts \in Nat /\ receipts' \in Nat /\ receipts <= receipts'
        /\ proc[p].auth <= receipts
    <2>1. proc[p].auth \in Nat /\ receipts \in Nat /\ receipts' \in Nat
      BY DEF TypeOK, ProcRecord
    <2>2. receipts <= receipts'
      <3>1. CASE Kept
        BY <2>1, <3>1 DEF Kept
      <3>2. CASE UserStep
        <4>1. receipts' \in {receipts, receipts + 1}
          <5>1. ASSUME NEW g \in Goals, CreateGoal(g) \/ ReviseGoal(g) PROVE receipts' \in {receipts, receipts + 1}
            BY <5>1 DEF CreateGoal, ReviseGoal
          <5>2. ASSUME NEW m \in Missions, NEW actor \in BOOLEAN, ConfirmActive(m, actor)
                PROVE  receipts' \in {receipts, receipts + 1}
            BY <5>2 DEF ConfirmActive
          <5>3. ASSUME NEW m \in Missions, NEW actor \in BOOLEAN, NEW mode \in {"restart", "search_more"},
                       StartMission(m, mode, actor)
                PROVE  receipts' \in {receipts, receipts + 1}
            BY <5>3 DEF StartMission
          <5> QED BY <3>2, <5>1, <5>2, <5>3 DEF UserStep
        <4> QED BY <2>1, <4>1
      <3> QED BY <3>1, <3>2, NextKeeps
    <2> QED BY <2>1, <2>2 DEF GroundInv, VerifierInv
  <1>1. CASE proc'[p] = proc[p] /\ Verifying(proc[p])
    BY <1>1, WaitingVerifier
  <1>2. CASE ~Verifying(proc'[p]) /\ proc'[p].auth \in {0, proc[p].auth}
    BY <1>0, <1>2 DEF VerifierInv, Verifying, At
  <1>3. CASE Looks(p) /\ proc'[p].pc \in {"read", "block", "commit"}
    <2> DEFINE m == proc[p].m
    <2>1. /\ m \in Missions /\ proc'[p].m = m /\ mission' = mission /\ goal' = goal
          /\ receipts' = receipts /\ proc'[p].auth = mission[m].auth.id
          /\ mission[m].phase = "verifying"
      BY <1>3 DEF Looks, isVerifying
    <2>2. ReceiptInv(m) /\ mission[m].auth.id \in Nat /\ mission[m].auth.rev \in Nat
          /\ goal[GoalOf[m]] \in Nat
      BY <2>1, ReceiptTypes DEF GroundInv
    <2>3. CASE proc'[p].pc = "read" /\ Continuation(m) = "none"
               /\ proc'[p].round = mission[m].round
      BY <2>1, <2>2, <2>3, ContinuationNone DEF VerifierInv, At, Same, PastBatch, ReceiptInv
    <2>4. CASE proc'[p].pc = "block" /\ Continuation(m) # "none"
      <3>1. mission[m].auth.id # 0 => mission[m].auth.rev < goal[GoalOf[m]]
        BY <2>2, <2>4, ContinuationSome DEF ReceiptInv
      <3> QED BY <2>1, <2>2, <2>4, <3>1 DEF VerifierInv, At, Same, ReceiptInv
    <2>5. CASE /\ proc'[p].pc = "commit" /\ proc[p].pc = "read" /\ Continuation(m) = "none"
               /\ proc'[p].auth = proc[p].auth /\ proc'[p].round = proc[p].round
      <3>1. mission[m].round = proc[p].round /\ PastBatch(mission[m])
        <4>1. VerifierInv(p) /\ Same(p)
          BY <2>1, <2>5 DEF GroundInv, Same
        <4> QED BY <2>5, <4>1 DEF VerifierInv
      <3>2. mission[m].auth.id # 0 /\ mission[m].auth.rev = goal[GoalOf[m]]
        BY <2>5, ContinuationNone
      <3>3. proc'[p].auth <= receipts' /\ proc'[p].auth # 0 /\ mission'[m].round = proc'[p].round
        BY <2>1, <2>2, <2>5, <3>1, <3>2 DEF ReceiptInv
      <3>4. mission'[m].phase = "verifying" /\ mission'[m].auth.rev = goal'[GoalOf[m]]
        BY <2>1, <3>2
      <3> QED BY <2>1, <2>5, <3>3, <3>4 DEF VerifierInv, At, Same, PastBatch
    <2> QED BY <1>1, <1>3, <2>3, <2>4, <2>5, NextProcStep DEF ProcStep, Verifying
  <1> QED BY <1>1, <1>2, <1>3, NextProcStep DEF ProcStep, Verifying

LEMMA GroundInvariant == Spec => []GroundInv
  <1>1. Init => GroundInv
    <2> SUFFICES ASSUME Init PROVE GroundInv
      OBVIOUS
    <2>1. ASSUME NEW m \in Missions PROVE ReceiptInv(m)
      <3>1. CASE m \in LegacyStranded
        <4>1. mission[m] = StrandedRecord /\ goal[GoalOf[m]] = 1 /\ receipts = 1
          BY <3>1, ConstantsAssumption DEF Init
        <4>2. /\ StrandedRecord.auth = [id |-> 1, rev |-> 1]
              /\ StrandedRecord.verificationBlock = "none"
          BY DEF StrandedRecord, Absent
        <4> QED BY <4>1, <4>2 DEF ReceiptInv
      <3>2. CASE m \notin LegacyStranded
        <4>1. mission[m] = Absent /\ receipts = 1
          BY <3>2 DEF Init
        <4>2. Absent.auth.id = 0 /\ Absent.status = "none" /\ Absent.verificationBlock = "none"
          BY DEF Absent, NoReceipt
        <4> QED BY <4>1, <4>2 DEF ReceiptInv, Present
      <3> QED BY <3>1, <3>2
    <2>2. ASSUME NEW p \in Procs PROVE VerifierInv(p)
      <3>1. proc[p].pc = "idle" /\ proc[p].auth = 0 /\ receipts = 1
        BY DEF Init, Idle
      <3> QED BY <3>1 DEF VerifierInv, At
    <2> QED BY <2>1, <2>2 DEF GroundInv
  <1>2. TypeOK /\ TypeOK' /\ RecordsOK /\ GroundInv /\ [Next]_vars => GroundInv'
    <2> SUFFICES ASSUME TypeOK, TypeOK', RecordsOK, GroundInv, [Next]_vars PROVE GroundInv'
      OBVIOUS
    <2>1. \A m \in Missions : ReceiptInv(m)'
      BY NextRecordStep, NextAuthStep, ReceiptStep DEF RecordsOK, GroundInv
    <2>2. \A p \in Procs : VerifierInv(p)'
      BY VerifierInvStep
    <2> QED BY <2>1, <2>2 DEF GroundInv
  <1> QED BY <1>1, <1>2, TypeCorrect, RecordsInvariant, PTL DEF Spec

-----------------------------------------------------------------------------
(* Work under a gated lease. *)

Ongoing(r) == r.gated /\ (r.live \/ isVerifying(r))

GatedInv(m) ==
  Ongoing(mission[m]) =>
    /\ mission[m].auth.id # 0
    /\ mission[m].auth.rev = goal[GoalOf[m]]
    /\ mission[m].verificationBlock = "none"

(* A user decision starts ungated work, or leaves the work there is alone.    *)
LEMMA UserOngoing ==
  ASSUME TypeOK, UserStep, NEW n \in Missions, Ongoing(mission'[n])
  PROVE  Ongoing(mission[n]) /\ mission'[n].verificationBlock = mission[n].verificationBlock
  <1>0. mission \in [Missions -> MissionRecord]
    BY DEF TypeOK
  <1> DEFINE Goal == Ongoing(mission[n])
                     /\ mission'[n].verificationBlock = mission[n].verificationBlock
  <1>1. ASSUME NEW scope, NEW auth,
               mission'[n] = [mission[n] EXCEPT !.scope = scope, !.auth = auth]
        PROVE  Goal
    BY <1>0, <1>1 DEF Ongoing, isVerifying, MissionRecord
  <1>2. ASSUME NEW auth, mission'[n] = [mission[n] EXCEPT !.auth = auth] PROVE Goal
    BY <1>0, <1>2 DEF Ongoing, isVerifying, MissionRecord
  <1>3. CASE mission'[n] = mission[n]
    BY <1>3
  <1>4. ASSUME NEW g \in Goals, CreateGoal(g) \/ ReviseGoal(g) PROVE Goal
    BY <1>0, <1>1, <1>3, <1>4 DEF CreateGoal, ReviseGoal, Rescoped
  <1>5. ASSUME NEW m \in Missions, NEW actor \in BOOLEAN, ConfirmActive(m, actor) PROVE Goal
    BY <1>0, <1>2, <1>3, <1>5 DEF ConfirmActive
  <1>6. ASSUME NEW m \in Missions, NEW actor \in BOOLEAN,
               NEW mode \in {"restart", "search_more"}, StartMission(m, mode, actor)
        PROVE  Goal
    <2>1. CASE n = m
      <3>1. \/ mission'[n] = restartMission(mission[n], goal[GoalOf[n]], NewReceipt(n, actor))
            \/ mission'[n] = searchMoreMission(mission[n], goal[GoalOf[n]], NewReceipt(n, actor))
        BY <1>0, <1>6, <2>1 DEF StartMission
      <3>2. ~mission'[n].gated
        BY <3>1 DEF restartMission, searchMoreMission, Absent
      <3> QED BY <3>2 DEF Ongoing
    <2> QED BY <1>0, <1>3, <1>6, <2>1 DEF StartMission
  <1> QED BY <1>4, <1>5, <1>6 DEF UserStep

LEMMA GatedInvStep ==
  ASSUME TypeOK, TypeOK', RecordsOK, RecordsOK', GroundInv, [Next]_vars,
         NEW m \in Missions, GatedInv(m)
  PROVE  GatedInv(m)'
  <1> SUFFICES ASSUME Ongoing(mission'[m])
               PROVE  /\ mission'[m].auth.id # 0
                      /\ mission'[m].auth.rev = goal'[GoalOf[m]]
                      /\ mission'[m].verificationBlock = "none"
    BY DEF GatedInv
  <1>0. /\ mission[m] \in MissionRecord /\ RecordInv(mission[m]) /\ RecordInv(mission'[m])
        /\ ReceiptInv(m) /\ RecordStep(m) /\ AuthStep(m) /\ receipts \in Nat
        /\ mission[m].auth.id \in Nat /\ goal[GoalOf[m]] \in Nat /\ mission[m].auth.rev \in Nat
    BY NextRecordStep, NextAuthStep, ReceiptTypes DEF RecordsOK, GroundInv
  <1>1. ASSUME Ongoing(mission[m]) PROVE goal'[GoalOf[m]] = goal[GoalOf[m]]
    <2>1. mission[m].verificationBlock = "none"
      BY <1>1 DEF GatedInv
    <2>2. isVerifying(mission[m]) => mission[m].phase = "verifying" /\ mission[m].rows = NoRows
      BY <1>0, <1>1 DEF isVerifying, RecordInv, Ongoing
    <2>3. Present(mission[m])
      BY <1>0, <1>1 DEF Ongoing, isVerifying, RecordInv, Present
    <2>4. goal[GoalOf[m]] > 0
      BY <1>0, <2>3 DEF ReceiptInv
    <2> QED BY <1>0, <1>1, <2>1, <2>2, <2>4, NotOvertaken DEF Ongoing
  <1>2. CASE UserStep
    <2>1. Ongoing(mission[m]) /\ mission'[m].verificationBlock = mission[m].verificationBlock
      BY <1>2, UserOngoing
    <2>2. mission'[m].gated /\ goal'[GoalOf[m]] = goal[GoalOf[m]]
      BY <1>1, <2>1 DEF Ongoing
    <2> QED BY <1>0, <2>1, <2>2 DEF GatedInv, AuthStep, AuthKept, AuthIssued
  <1>3. CASE Kept
    <2>1. ~Started(m) /\ ~Reauthorized(m) /\ goal' = goal
      BY <1>3, KeptRecordStep DEF Kept
    <2>2. CASE mission'[m] = mission[m]
      BY <2>1, <2>2 DEF GatedInv
    <2>3. ASSUME Listed(m), mission'[m] # mission[m] PROVE FALSE
      <3>1. CASE mission'[m].status \in {"queued", "failed"}
        BY <1>0, <3>1 DEF Ongoing, isVerifying, RecordInv
      <3>2. mission'[m].status \in {"queued", "failed"}
        BY <1>0, <2>3 DEF Listed, reconcileMission, Requeue, settleVerificationWithoutFind,
                          MissionRecord
      <3> QED BY <3>1, <3>2
    <2>4. CASE Lapsed(m)
      <3>1. /\ mission'[m].status = mission[m].status /\ mission'[m].phase = mission[m].phase
            /\ ~mission'[m].live /\ mission[m].phase = "investigating"
        BY <1>0, <2>4 DEF Lapsed, RecordInv, MissionRecord
      <3> QED BY <3>1 DEF Ongoing, isVerifying
    <2>5. CASE Taken(m)
      <3>1. ~mission[m].live /\ ~isVerifying(mission[m]) /\ mission[m].verificationBlock = "none"
        BY <1>0, <2>5 DEF Taken, isClaimable, Expired, isVerifying, RecordInv
      <3>2. CASE Claimed(m) = [mission[m] EXCEPT !.automaticBlock = ClaimGate(m)]
        BY <1>0, <2>5, <3>1, <3>2 DEF Taken, Ongoing, isVerifying, MissionRecord
      <3>3. CASE Claimed(m) = mission[m]
        BY <2>2, <2>5, <3>3 DEF Taken
      <3>4. CASE /\ ClaimGate(m) = "none"
                 /\ mission'[m] = [mission[m] EXCEPT !.status = "running", !.phase = "investigating",
                      !.attempt = mission[m].attempt + 1, !.lease = NewLease(m), !.live = TRUE,
                      !.automaticBlock = "none", !.gated = env.gate]
        <4>1. /\ mission'[m].gated = env.gate /\ mission'[m].auth = mission[m].auth
              /\ mission'[m].verificationBlock = mission[m].verificationBlock
          BY <1>0, <3>4 DEF MissionRecord
        <4>2. env.gate
          BY <4>1 DEF Ongoing
        <4>3. Continuation(m) = "none"
          BY <3>4, <4>2 DEF ClaimGate
        <4> QED BY <2>1, <3>1, <4>1, <4>3, ContinuationNone
      <3> QED BY <2>5, <3>2, <3>3, <3>4 DEF Taken, Claimed
    <2>6. CASE Delivered(m)
      <3>1. PICK lease \in Nat, batch \in SUBSET Candidates :
              Accepts(mission[m], lease, batch) /\ mission'[m] = Recorded(mission[m], batch)
        BY <2>6 DEF Delivered
      <3>2. CASE SameBatch(mission[m], batch)
        BY <2>2, <3>1, <3>2 DEF Recorded
      <3>3. CASE ~SameBatch(mission[m], batch)
        <4>1. mission[m].live
          BY <3>1, <3>3 DEF Accepts, requireActiveLease
        <4>2. /\ mission'[m].gated = mission[m].gated /\ mission'[m].auth = mission[m].auth
              /\ mission'[m].verificationBlock = mission[m].verificationBlock
          BY <1>0, <3>1, <3>3 DEF Recorded, MissionRecord
        <4> QED BY <2>1, <4>1, <4>2 DEF GatedInv, Ongoing
      <3> QED BY <3>2, <3>3
    <2>7. CASE GivenUp(m)
      <3>1. ~mission'[m].gated
        BY <1>0, <2>7 DEF GivenUp, Requeue, MissionRecord
      <3> QED BY <3>1 DEF Ongoing
    <2>8. CASE Blocked(m)
      <3>1. PICK p \in Procs :
              /\ At(p, "block") /\ proc[p].m = m /\ requireSameCandidateBatch(p, mission[m])
              /\ mission'[m] = [mission[m] EXCEPT !.verificationBlock = proc[p].reason]
        BY <2>8 DEF Blocked
      <3>2. mission'[m].gated = mission[m].gated /\ isVerifying(mission[m])
        BY <1>0, <3>1 DEF MissionRecord, requireSameCandidateBatch
      <3>3. mission[m].auth.id # 0 /\ mission[m].auth.rev = goal[GoalOf[m]]
        BY <3>2 DEF GatedInv, Ongoing
      <3>4. VerifierInv(p)
        BY DEF GroundInv
      <3> QED BY <1>0, <3>1, <3>3, <3>4 DEF VerifierInv, Same, requireSameCandidateBatch
    <2>9. CASE Settled(m)
      <3>1. mission'[m].status \in {"completed", "failed"}
        BY <1>0, <2>9 DEF Settled, Sealed, settleVerificationWithoutFind, MissionRecord
      <3> QED BY <1>0, <3>1 DEF Ongoing, isVerifying, RecordInv
    <2> QED BY <1>0, <2>1, <2>2, <2>3, <2>4, <2>5, <2>6, <2>7, <2>8, <2>9 DEF RecordStep
  <1> QED BY <1>2, <1>3, NextKeeps

(* Work an automatic claim started stays authorized for the revision the Goal *)
(* has: with any number of Missions per Goal, revisions, confirmations, late  *)
(* results and verifiers, no gated batch is stranded behind                   *)
(* authorization_revision_mismatch.                                           *)
THEOREM GatedWorkIsAuthorized == Spec => []GatedWorkStaysAuthorized
  <1>1. GatedWorkStaysAuthorized <=> \A m \in Missions : GatedInv(m)
    BY DEF GatedWorkStaysAuthorized, GatedInv, Ongoing
  <1>2. Init => \A m \in Missions : GatedInv(m)
    <2>1. ~Absent.gated /\ ~StrandedRecord.gated
      BY DEF Absent, StrandedRecord
    <2> QED BY <2>1 DEF Init, GatedInv, Ongoing
  <1>3. /\ TypeOK /\ TypeOK' /\ RecordsOK /\ RecordsOK' /\ GroundInv /\ [Next]_vars
        /\ \A m \in Missions : GatedInv(m)
        => (\A m \in Missions : GatedInv(m))'
    BY GatedInvStep
  <1>4. Spec => [](\A m \in Missions : GatedInv(m))
    BY <1>2, <1>3, TypeCorrect, RecordsInvariant, GroundInvariant, PTL DEF Spec
  <1> QED BY <1>1, <1>4, PTL

-----------------------------------------------------------------------------
(* Sealing. *)

(* Without a record stranded by an older Kernel, a running Mission has no     *)
(* verification rows: they are written by the step that settles it.           *)
FreshRows == \A m \in Missions : mission[m].status = "running" => mission[m].rows = NoRows

(* A Mission that was just started, again or for more, waits for an agent.    *)
LEMMA StartedWaits ==
  ASSUME NEW m \in Missions, Started(m)
  PROVE  mission'[m].status # "running"
  <1>1. PICK a : \/ mission'[m] = restartMission(mission[m], goal[GoalOf[m]], a)
                 \/ mission'[m] = searchMoreMission(mission[m], goal[GoalOf[m]], a)
    BY DEF Started
  <1>2. PICK r : r = restartMission(mission[m], goal[GoalOf[m]], a)
    OBVIOUS
  <1>3. r.status \in {"queued", "waiting_for_agent"}
    BY <1>2 DEF restartMission, Absent
  <1>4. CASE mission'[m] = r
    BY <1>3, <1>4
  <1>5. CASE mission'[m] = searchMoreMission(mission[m], goal[GoalOf[m]], a)
    <2>1. PICK s : mission'[m] = [r EXCEPT !.prior = s]
      BY <1>2, <1>5 DEF searchMoreMission
    <2> QED BY <1>3, <2>1
  <1> QED BY <1>1, <1>2, <1>4, <1>5

LEMMA FreshRowsStep ==
  ASSUME TypeOK, NEW m \in Missions, RecordInv(mission[m]), RecordInv(mission'[m]), RecordStep(m),
         mission[m].status = "running" => mission[m].rows = NoRows, mission'[m].status = "running"
  PROVE  mission'[m].rows = NoRows
  <1>0. mission[m] \in MissionRecord
    BY DEF TypeOK
  <1>1. CASE mission'[m].phase = "investigating"
    BY <1>1 DEF RecordInv
  <1>2. CASE mission'[m].phase = "verifying"
    <2>1. CASE mission'[m] = mission[m] \/ Reauthorized(m) \/ Lapsed(m) \/ Blocked(m)
      BY <1>0, <2>1 DEF Reauthorized, Lapsed, Blocked, MissionRecord
    <2>2. ASSUME Started(m) PROVE FALSE
      BY <2>2, StartedWaits
    <2>3. CASE Listed(m)
      BY <1>0, <2>3 DEF Listed, reconcileMission, Requeue, settleVerificationWithoutFind, MissionRecord
    <2>4. CASE Taken(m)
      BY <1>0, <2>4 DEF Taken, isClaimable, Claimed, MissionRecord, RecordInv
    <2>5. CASE Delivered(m)
      BY <1>0, <2>5 DEF Delivered, Accepts, SameBatch, requireActiveLease, Recorded, RecordInv,
                        MissionRecord
    <2>6. ASSUME GivenUp(m) PROVE FALSE
      BY <1>0, <2>6 DEF GivenUp, Requeue, MissionRecord
    <2>7. ASSUME Settled(m) PROVE FALSE
      BY <1>0, <2>7 DEF Settled, Sealed, settleVerificationWithoutFind, MissionRecord
    <2> QED BY <2>1, <2>2, <2>3, <2>4, <2>5, <2>6, <2>7 DEF RecordStep
  <1> QED BY <1>1, <1>2 DEF RecordInv

(* A record is sealed, and a Find forged, by settling a batch and by nothing  *)
(* else.                                                                      *)
LEMMA SealedBySettling ==
  ASSUME TypeOK, NEW m \in Missions, RecordStep(m),
         \/ ~mission[m].sealed /\ mission'[m].sealed
         \/ mission[m].phase # "forged" /\ mission'[m].phase = "forged"
  PROVE  Settled(m)
  <1>0. mission[m] \in MissionRecord
    BY DEF TypeOK
  <1>1. ASSUME Reauthorized(m) \/ Lapsed(m) \/ Blocked(m) PROVE FALSE
    BY <1>0, <1>1 DEF Reauthorized, Lapsed, Blocked, MissionRecord
  <1>2. ASSUME Started(m) PROVE FALSE
    <2>1. PICK a \in Receipt :
            \/ mission'[m] = restartMission(mission[m], goal[GoalOf[m]], a)
            \/ mission'[m] = searchMoreMission(mission[m], goal[GoalOf[m]], a)
      BY <1>2 DEF Started
    <2>2. ~mission'[m].sealed
      BY <2>1 DEF restartMission, searchMoreMission, Absent
    <2>3. restartMission(mission[m], goal[GoalOf[m]], a).phase = "none"
      BY DEF restartMission, Absent
    <2>4. searchMoreMission(mission[m], goal[GoalOf[m]], a).phase = "none"
      BY <2>3 DEF searchMoreMission, restartMission, Absent
    <2> QED BY <2>1, <2>2, <2>3, <2>4
  <1>3. ASSUME Listed(m) PROVE FALSE
    BY <1>0, <1>3 DEF Listed, reconcileMission, Requeue, settleVerificationWithoutFind, MissionRecord
  <1>4. ASSUME Taken(m) PROVE FALSE
    BY <1>0, <1>4 DEF Taken, Claimed, MissionRecord
  <1>5. ASSUME Delivered(m) \/ GivenUp(m) PROVE FALSE
    BY <1>0, <1>5 DEF Delivered, Recorded, GivenUp, Requeue, MissionRecord
  <1> QED BY <1>1, <1>2, <1>3, <1>4, <1>5 DEF RecordStep

(* A Mission is sealed on current ground only, although the pages were read   *)
(* and the receipt was checked in earlier transactions: no revision, restart  *)
(* or other verifier in between makes a stale verdict count. It needs a store *)
(* without records an older Kernel left running/verifying with their rows     *)
(* already written: those do not hold a revision back (goals.mjs asks only    *)
(* for a verification that is pending), so a verifier that is under way on    *)
(* one can be overtaken.                                                      *)
THEOREM SealsAreCurrent == LegacyStranded = {} => (Spec => SealedOnCurrentGround)
  <1> SUFFICES ASSUME LegacyStranded = {} PROVE Spec => SealedOnCurrentGround
    OBVIOUS
  <1>1. Init => FreshRows
    <2>1. Absent.status = "none"
      BY DEF Absent
    <2> QED BY <2>1 DEF Init, FreshRows
  <1>2. TypeOK /\ RecordsOK /\ RecordsOK' /\ FreshRows /\ [Next]_vars => FreshRows'
    BY NextRecordStep, FreshRowsStep DEF FreshRows, RecordsOK
  <1>3. Spec => []FreshRows
    BY <1>1, <1>2, TypeCorrect, RecordsInvariant, PTL DEF Spec
  <1>4. ASSUME TypeOK, GroundInv, FreshRows, [Next]_vars, NEW m \in Missions, Settled(m)
        PROVE  /\ mission[m].auth.id # 0 /\ mission[m].auth.rev = goal[GoalOf[m]]
               /\ \E p \in Procs : /\ At(p, "commit") /\ proc[p].m = m
                                   /\ proc[p].round = mission[m].round
    <2>1. PICK p \in Procs :
            At(p, "commit") /\ proc[p].m = m /\ requireSameCandidateBatch(p, mission[m])
      BY <1>4 DEF Settled
    <2>2. VerifierInv(p) /\ Same(p) /\ proc[p].pc = "commit"
      BY <1>4, <2>1 DEF GroundInv, Same, requireSameCandidateBatch, At
    <2>3. mission[m].phase = "verifying" /\ mission[m].rows = NoRows
      BY <1>4, <2>1 DEF requireSameCandidateBatch, isVerifying, FreshRows
    <2> QED BY <2>1, <2>2, <2>3 DEF VerifierInv, Same
  <1>5. TypeOK /\ GroundInv /\ FreshRows /\ [Next]_vars =>
          \A m \in Missions :
            mission[m].phase # "forged" /\ mission'[m].phase = "forged" =>
              /\ mission[m].auth.id # 0
              /\ mission[m].auth.rev = goal[GoalOf[m]]
    BY <1>4, NextRecordStep, SealedBySettling
  <1>6. TypeOK /\ GroundInv /\ FreshRows /\ [Next]_vars =>
          \A m \in Missions :
            ~mission[m].sealed /\ mission'[m].sealed =>
              \E p \in Procs : /\ At(p, "commit") /\ proc[p].m = m
                               /\ proc[p].round = mission[m].round
    BY <1>4, NextRecordStep, SealedBySettling
  <1>7. Spec => ForgedUnderAuthorizedRevision
    BY <1>3, <1>5, TypeCorrect, GroundInvariant, PTL DEF Spec, ForgedUnderAuthorizedRevision
  <1>8. Spec => VerdictsFromThisRound
    BY <1>3, <1>6, TypeCorrect, GroundInvariant, PTL DEF Spec, VerdictsFromThisRound
  <1> QED BY <1>7, <1>8 DEF SealedOnCurrentGround

-----------------------------------------------------------------------------
(* What the product shows of a Mission is read from one record: ShowInv says  *)
(* which verdicts and marks a record of each status carries.                  *)

(* An attempt under way, or not yet begun, has nothing to show. *)
Untouched(r) ==
  /\ r.cands = {} /\ r.rows = NoRows
  /\ ~r.completedAt /\ ~r.verifyingAt /\ ~r.failedAt

ShowInv(r) ==
  /\ (\/ r.status \in {"waiting_for_agent", "queued"}
      \/ r.status = "running" /\ r.phase = "investigating")
     => Untouched(r)
  /\ r.phase = "verifying" => Supported(r) = {} /\ ~r.failedAt
  /\ r.status = "completed" => (r.phase = "forged" <=> Supported(r) # {})
  /\ r.status = "failed" =>
       /\ Supported(r) = {}
       /\ r.failedAt => r.cands # {} /\ \A c \in r.cands : r.rows[c] # "none"
       /\ ~r.failedAt => r.cands = {} /\ r.rows = NoRows

LEMMA NoRowsSupport == \A r : r.rows = NoRows => Supported(r) = {} /\ reads(r) = {}
  BY DEF NoRows, Supported, reads

LEMMA ShowInvInit == ShowInv(Absent) /\ ShowInv(StrandedRecord)
  <1>1. ShowInv(Absent)
    BY DEF Absent, ShowInv
  <1>2. Supported(StrandedRecord) = {}
    BY DEF StrandedRecord, Absent, Supported
  <1> QED BY <1>1, <1>2 DEF StrandedRecord, Absent, ShowInv

LEMMA SettleShow ==
  ASSUME NEW r \in MissionRecord, RecordInv(r), isVerifying(r), Supported(r) = {},
         \A c \in r.cands : r.rows[c] # "none"
  PROVE  ShowInv(settleVerificationWithoutFind(r))
  <1> DEFINE s == settleVerificationWithoutFind(r)
  <1>1. /\ s.status = "failed" /\ s.phase = "failed" /\ s.failedAt
        /\ s.cands = r.cands /\ s.rows = r.rows
    BY DEF settleVerificationWithoutFind, MissionRecord
  <1>2. Supported(s) = {} /\ r.cands # {}
    BY <1>1 DEF Supported, isVerifying
  <1>3. ShowInv(s)
    <2> HIDE DEF s
    <2> QED BY <1>1, <1>2 DEF ShowInv
  <1> QED BY <1>3

LEMMA RequeueShow ==
  ASSUME NEW r \in MissionRecord, RecordInv(r), ShowInv(r),
         r.status = "running", r.phase = "investigating"
  PROVE  ShowInv(Requeue(r))
  <1> DEFINE s == Requeue(r)
  <1>1. Untouched(r)
    BY DEF ShowInv
  <1>2. /\ s.phase = s.status /\ s.status \in {"failed", "queued"}
        /\ Untouched(s)
    BY <1>1 DEF Requeue, MissionRecord, Untouched
  <1>3. Supported(s) = {}
    BY <1>2, NoRowsSupport DEF Untouched
  <1>4. ShowInv(s)
    <2> HIDE DEF s
    <2> QED BY <1>2, <1>3 DEF ShowInv, Untouched
  <1> QED BY <1>4

LEMMA ReconcileShow ==
  ASSUME NEW r \in MissionRecord, RecordInv(r), ShowInv(r)
  PROVE  ShowInv(reconcileMission(r))
  <1>1. CASE r.status = "waiting_for_agent" /\ env.ready
    <2> DEFINE s == [r EXCEPT !.status = "queued", !.phase = "queued"]
    <2>1. s.status = "queued" /\ s.phase = "queued" /\ Untouched(s)
      BY <1>1 DEF ShowInv, Untouched, MissionRecord
    <2>2. reconcileMission(r) = s
      BY <1>1 DEF reconcileMission, isStranded, isVerifying
    <2> HIDE DEF s
    <2> QED BY <2>1, <2>2 DEF ShowInv
  <1>2. CASE isStranded(r)
    <2>1. isVerifying(r) /\ r.status = "running" /\ r.phase = "verifying" /\ r.lease = 0
      BY <1>2 DEF isStranded, isVerifying, RecordInv
    <2>2. reconcileMission(r) = settleVerificationWithoutFind(r)
      BY <1>2, <2>1 DEF reconcileMission, Expired
    <2>3. Supported(r) = {} /\ \A c \in r.cands : r.rows[c] # "none"
      BY <1>2 DEF isStranded, Supported
    <2> QED BY <2>1, <2>2, <2>3, SettleShow
  <1>3. CASE ~isStranded(r) /\ r.status = "running" /\ Expired(r)
    <2>1. r.phase = "investigating" /\ reconcileMission(r) = Requeue(r)
      BY <1>3 DEF RecordInv, Expired, reconcileMission
    <2> QED BY <1>3, <2>1, RequeueShow
  <1>4. CASE /\ ~(r.status = "waiting_for_agent" /\ env.ready) /\ ~isStranded(r)
             /\ ~(r.status = "running" /\ Expired(r))
    BY <1>4 DEF reconcileMission
  <1> QED BY <1>1, <1>2, <1>3, <1>4

LEMMA SealShow ==
  ASSUME TypeOK, NEW p \in Procs, NEW r \in MissionRecord, RecordInv(r), ShowInv(r),
         requireSameCandidateBatch(p, r), NEW supported \in SUBSET Candidates
  PROVE  ShowInv(Sealed(p, r, supported))
  <1> DEFINE base == [r EXCEPT !.rows = Verdicts(p, supported), !.sealed = TRUE]
  <1>0. isVerifying(r) /\ r.cands = proc[p].cands /\ r.cands \subseteq Candidates
    BY DEF requireSameCandidateBatch, MissionRecord
  <1>1. /\ base.status = r.status /\ base.phase = r.phase /\ base.cands = r.cands
        /\ base.rows = Verdicts(p, supported) /\ base.lease = r.lease /\ base.live = r.live
    BY DEF MissionRecord
  <1>2. \A c \in r.cands : base.rows[c] # "none"
    BY <1>0, <1>1 DEF Verdicts
  <1>3. Supported(base) = supported
    BY <1>1 DEF Supported, Verdicts
  <1>4. CASE anySupported(p, supported)
    <2> DEFINE s == [base EXCEPT !.status = "completed", !.phase = "forged",
                                 !.completedAt = TRUE, !.verificationBlock = "none"]
    <2>1. s.status = "completed" /\ s.phase = "forged" /\ s.rows = base.rows
      BY DEF MissionRecord
    <2>2. Supported(s) # {}
      BY <1>3, <1>4, <2>1 DEF Supported, anySupported
    <2>3. Sealed(p, r, supported) = s
      BY <1>4 DEF Sealed
    <2> HIDE DEF s
    <2> QED BY <2>1, <2>2, <2>3 DEF ShowInv
  <1>5. CASE ~anySupported(p, supported)
    <2>1. Sealed(p, r, supported) = settleVerificationWithoutFind(base)
      BY <1>5 DEF Sealed
    <2> DEFINE s == settleVerificationWithoutFind(base)
    <2>2. s.status = "failed" /\ s.phase = "failed" /\ s.failedAt /\ s.rows = base.rows
          /\ s.cands = base.cands
      BY DEF settleVerificationWithoutFind, MissionRecord
    <2>3. Supported(s) = {} /\ s.cands # {} /\ \A c \in s.cands : s.rows[c] # "none"
      BY <1>0, <1>1, <1>2, <1>3, <1>5, <2>2 DEF Supported, anySupported, isVerifying
    <2> HIDE DEF s, base
    <2> QED BY <2>1, <2>2, <2>3 DEF s, ShowInv
  <1> QED BY <1>4, <1>5

LEMMA ShowInvStep ==
  ASSUME TypeOK, NEW m \in Missions, RecordInv(mission[m]), ShowInv(mission[m]), RecordStep(m)
  PROVE  ShowInv(mission'[m])
  <1>0. mission[m] \in MissionRecord
    BY DEF TypeOK
  <1> DEFINE r == mission[m]
             s == mission'[m]
  <1>1. ASSUME r.status = s.status, r.phase = s.phase, r.cands = s.cands, r.rows = s.rows,
               r.completedAt = s.completedAt, r.verifyingAt = s.verifyingAt,
               r.failedAt = s.failedAt
        PROVE  ShowInv(s)
    <2>1. Supported(s) = Supported(r)
      BY <1>1 DEF Supported
    <2> HIDE DEF r, s
    <2> QED BY <1>1, <2>1 DEF ShowInv, Untouched, r
  <1>2. CASE s = r
    BY <1>2
  <1>3. CASE Reauthorized(m) \/ Lapsed(m) \/ Blocked(m)
    BY <1>0, <1>1, <1>3 DEF Reauthorized, Lapsed, Blocked, MissionRecord
  <1>4. CASE Started(m)
    <2>1. ASSUME NEW revision, NEW auth
          PROVE  ShowInv(restartMission(r, revision, auth))
      BY DEF restartMission, Absent, ShowInv, Untouched
    <2>2. ASSUME NEW revision, NEW auth
          PROVE  ShowInv(searchMoreMission(r, revision, auth))
      BY DEF searchMoreMission, restartMission, Absent, ShowInv, Untouched
    <2> QED BY <1>4, <2>1, <2>2 DEF Started
  <1>5. CASE Listed(m)
    BY <1>0, <1>5, ReconcileShow DEF Listed
  <1>6. CASE Taken(m)
    <2>1. CASE ClaimGate(m) # "none" \/ ~attemptsLeft(r)
      BY <1>0, <1>1, <1>6, <2>1 DEF Taken, Claimed, MissionRecord
    <2>2. CASE ClaimGate(m) = "none" /\ attemptsLeft(r)
      <3>1. Untouched(r)
        BY <1>6 DEF Taken, isClaimable, Expired, RecordInv, ShowInv
      <3>2. s.status = "running" /\ s.phase = "investigating" /\ Untouched(s)
        BY <1>0, <1>6, <2>2, <3>1 DEF Taken, Claimed, MissionRecord, Untouched
      <3>3. ShowInv(s)
        <4> HIDE DEF s
        <4> QED BY <3>2 DEF ShowInv
      <3> QED BY <3>3
    <2> QED BY <2>1, <2>2
  <1>7. CASE Delivered(m)
    <2>1. PICK lease \in Nat, batch \in SUBSET Candidates :
            Accepts(r, lease, batch) /\ s = Recorded(r, batch)
      BY <1>7 DEF Delivered
    <2>2. CASE SameBatch(r, batch)
      BY <1>2, <2>1, <2>2 DEF Recorded
    <2>3. CASE ~SameBatch(r, batch)
      <3>1. Untouched(r)
        BY <2>1, <2>3 DEF Accepts, requireActiveLease, RecordInv, ShowInv
      <3>2. /\ s.rows = NoRows /\ s.failedAt = r.failedAt
            /\ \/ s.status = "completed" /\ s.phase = "none"
               \/ s.status = "running" /\ s.phase = "verifying"
        BY <1>0, <2>1, <2>3, <3>1 DEF Recorded, MissionRecord, Untouched
      <3>3. Supported(s) = {}
        BY <3>2, NoRowsSupport
      <3>4. ShowInv(s)
        <4> HIDE DEF s
        <4> QED BY <3>1, <3>2, <3>3 DEF ShowInv, Untouched
      <3> QED BY <3>4
    <2> QED BY <2>2, <2>3
  <1>8. CASE GivenUp(m)
    <2>1. r.status = "running" /\ r.phase = "investigating" /\ s = Requeue(r)
      BY <1>8 DEF GivenUp, requireActiveLease, RecordInv
    <2> QED BY <1>0, <2>1, RequeueShow
  <1>9. CASE Settled(m)
    BY <1>0, <1>9, SealShow DEF Settled
  <1> QED BY <1>2, <1>3, <1>4, <1>5, <1>6, <1>7, <1>8, <1>9 DEF RecordStep

-----------------------------------------------------------------------------
(* Counting, on finite sets of candidates. *)

LEMMA CountNone ==
  ASSUME IsFiniteSet(Candidates), NEW S, S \subseteq Candidates
  PROVE  Cardinality(S) \in Nat /\ (Cardinality(S) = 0 <=> S = {})
  BY FS_Subset, FS_CardinalityType, FS_EmptySet

LEMMA FindCount ==
  ASSUME IsFiniteSet(Candidates), NEW r
  PROVE  /\ countSupportedFinds(r) \in Nat
         /\ countSupportedFinds(r) > 0 <=> Supported(r) # {}
  <1>1. Supported(r) \subseteq Candidates
    BY DEF Supported
  <1> QED BY <1>1, CountNone DEF countSupportedFinds

(* What the dashboard's counts say of a row. *)
LEMMA SourceCounts ==
  ASSUME IsFiniteSet(Candidates), NEW row \in MissionRecord
  PROVE  LET n == countSources(buildSources(row)) IN
         /\ n.sources \in Nat /\ n.read \in Nat /\ n.failed \in Nat /\ n.supported \in Nat
         /\ n.supported > 0 <=> Supported(row) # {}
         /\ n.read > 0 <=> reads(row) # {}
         /\ n.sources > 0 <=> \E c \in Candidates : c \in row.cands \/ row.rows[c] # "none"
         /\ n.failed = n.sources <=>
              \A c \in Candidates : c \in row.cands \/ row.rows[c] # "none" =>
                                      row.rows[c] = "verification_failed"
         /\ n.failed > 0 => n.sources > 0
  <1> DEFINE Known == {c \in Candidates : c \in row.cands \/ row.rows[c] # "none"}
             S == buildSources(row)
             Pick(states) == {x \in S : x.state \in states}
             n == countSources(S)
  <1>0. \A c \in Candidates : row.rows[c] \in {"none", "verification_failed", "unsupported", "supported"}
    BY DEF MissionRecord, Rows
  <1>1. S = {[id |-> c, state |-> sourceState(row, c)] : c \in Known}
    BY DEF buildSources
  <1>2. IsFiniteSet(S)
    <2>1. IsFiniteSet(Known)
      BY FS_Subset
    <2> DEFINE f == [c \in Known |-> [id |-> c, state |-> sourceState(row, c)]]
    <2>2. f \in [Known -> S] /\ \A x \in S : \E c \in Known : f[c] = x
      BY <1>1
    <2>3. f \in Surjection(Known, S)
      BY <2>2 DEF Surjection
    <2> QED BY <2>1, <2>3, FS_Surjection
  <1>3. ASSUME NEW T, T \subseteq S
        PROVE  /\ Cardinality(T) \in Nat /\ (Cardinality(T) = 0 <=> T = {})
               /\ Cardinality(T) = Cardinality(S) <=> T = S
               /\ Cardinality(T) <= Cardinality(S)
    BY <1>2, <1>3, FS_Subset, FS_CardinalityType, FS_EmptySet
  <1>4. \A states : Pick(states) \subseteq S
    OBVIOUS
  <1>5. /\ n.sources = Cardinality(S)
        /\ n.read = Cardinality(Pick({"supported", "unsupported"}))
        /\ n.failed = Cardinality(Pick({"read_failed"}))
        /\ n.supported = Cardinality(Pick({"supported"}))
    <2>1. /\ {x \in S : x.state = "read_failed"} = Pick({"read_failed"})
          /\ {x \in S : x.state = "supported"} = Pick({"supported"})
      OBVIOUS
    <2> HIDE DEF S
    <2> QED BY <2>1 DEF countSources
  <1>6. ASSUME NEW c \in Candidates
        PROVE  /\ sourceState(row, c) = "supported" <=> row.rows[c] = "supported"
               /\ sourceState(row, c) = "unsupported" <=> row.rows[c] = "unsupported"
               /\ sourceState(row, c) = "read_failed" <=> row.rows[c] = "verification_failed"
    BY <1>0 DEF sourceState
  <1>15. /\ \A c \in Known : \E x \in S : x.state = sourceState(row, c)
         /\ \A x \in S : \E c \in Known : x.state = sourceState(row, c)
    <2>1. ASSUME NEW c \in Known PROVE \E x \in S : x.state = sourceState(row, c)
      <3>1. [id |-> c, state |-> sourceState(row, c)] \in S
        BY <1>1
      <3> QED BY <3>1
    <2>2. ASSUME NEW x \in S PROVE \E c \in Known : x.state = sourceState(row, c)
      <3>1. PICK c \in Known : x = [id |-> c, state |-> sourceState(row, c)]
        BY <1>1
      <3> QED BY <3>1
    <2> QED BY <2>1, <2>2
  <1>16. Supported(row) \subseteq Known /\ reads(row) \subseteq Known
    BY DEF Supported, reads
  <1> HIDE DEF S
  <1>7. ASSUME NEW states
        PROVE  Pick(states) # {} <=> \E c \in Known : sourceState(row, c) \in states
    BY <1>15
  <1>8. Pick({"supported"}) # {} <=> Supported(row) # {}
    <2>1. Supported(row) # {} <=> \E c \in Known : row.rows[c] = "supported"
      BY <1>16 DEF Supported
    <2>2. Supported(row) # {} <=> \E c \in Known : sourceState(row, c) \in {"supported"}
      BY <1>6, <2>1
    <2>3. Pick({"supported"}) # {} <=> \E c \in Known : sourceState(row, c) \in {"supported"}
      BY <1>7
    <2> QED BY <2>2, <2>3
  <1>9. Pick({"supported", "unsupported"}) # {} <=> reads(row) # {}
    <2>1. reads(row) # {} <=> \E c \in Known : row.rows[c] \in {"supported", "unsupported"}
      BY <1>16 DEF reads
    <2>2. reads(row) # {} <=>
            \E c \in Known : sourceState(row, c) \in {"supported", "unsupported"}
      BY <1>6, <2>1
    <2>3. Pick({"supported", "unsupported"}) # {} <=>
            \E c \in Known : sourceState(row, c) \in {"supported", "unsupported"}
      BY <1>7
    <2> QED BY <2>2, <2>3
  <1>10. S # {} <=> Known # {}
    BY <1>15
  <1>11. Pick({"read_failed"}) = S <=> \A c \in Known : row.rows[c] = "verification_failed"
    <2>1. Pick({"read_failed"}) = S <=> \A x \in S : x.state = "read_failed"
      OBVIOUS
    <2>2. (\A x \in S : x.state = "read_failed") <=>
            \A c \in Known : sourceState(row, c) = "read_failed"
      BY <1>15
    <2> QED BY <1>6, <2>1, <2>2
  <1> HIDE DEF S, Pick, n
  <1>12. S \subseteq S
    OBVIOUS
  <1>13. /\ n.sources \in Nat /\ n.read \in Nat /\ n.failed \in Nat /\ n.supported \in Nat
         /\ n.sources > 0 <=> S # {}
         /\ n.read > 0 <=> Pick({"supported", "unsupported"}) # {}
         /\ n.supported > 0 <=> Pick({"supported"}) # {}
         /\ n.failed = n.sources <=> Pick({"read_failed"}) = S
         /\ n.failed <= n.sources
    BY <1>3, <1>4, <1>5, <1>12
  <1>14. n.failed > 0 => n.sources > 0
    BY <1>13
  <1> QED BY <1>8, <1>9, <1>10, <1>11, <1>13, <1>14 DEF n, S

-----------------------------------------------------------------------------
(* What is shown of one record. *)

Shown(r) == r \in MissionRecord /\ RecordInv(r) /\ ShowInv(r)

Forged(r) == r.status = "completed" /\ Supported(r) # {}

LEMMA ShownCases ==
  ASSUME NEW r, Shown(r), Present(r)
  PROVE  \/ r.status \in {"waiting_for_agent", "queued"} /\ r.phase \in {"none", "queued"}
         \/ r.status = "running" /\ r.phase \in {"investigating", "verifying"}
         \/ r.status = "completed" /\ r.phase = "forged" /\ Supported(r) # {}
         \/ r.status = "completed" /\ r.phase = "none" /\ Supported(r) = {}
         \/ r.status = "failed" /\ r.phase = "failed" /\ Supported(r) = {}
  BY DEF Shown, Present, MissionRecord, Statuses, RecordInv, ShowInv

LEMMA OrbClaims ==
  ASSUME IsFiniteSet(Candidates), NEW r, Shown(r), Present(r)
  PROVE  deriveEfestoOrbState(r) = "completed" <=> Forged(r)
  <1>1. countSupportedFinds(r) > 0 <=> Supported(r) # {}
    BY FindCount
  <1> DEFINE k == countSupportedFinds(r) > 0
  <1> HIDE DEF k
  <1>2. k <=> Supported(r) # {}
    BY <1>1 DEF k
  <1>3. isReadWithoutSupportSettlement(r) => r.status = "failed"
    BY DEF isReadWithoutSupportSettlement
  <1>4. CASE r.status \in {"waiting_for_agent", "queued", "running"}
    BY <1>3, <1>4, ShownCases DEF deriveEfestoOrbState, Forged, isForged
  <1>5. CASE r.status = "completed"
    BY <1>1, <1>3, <1>5, ShownCases DEF deriveEfestoOrbState, Forged, isForged, exhausted
  <1>6. CASE r.status = "failed"
    BY <1>6, ShownCases DEF deriveEfestoOrbState, Forged
  <1> QED BY <1>4, <1>5, <1>6, ShownCases

LEMMA SettlementCodes ==
  \A r : kernelSettlementCode(r) \in {"none", "verified_without_support", "web_read_failed"}
  BY DEF kernelSettlementCode, failureCode

LEMMA CardClaims ==
  ASSUME IsFiniteSet(Candidates), NEW r, Shown(r), Present(r)
  PROVE  /\ \A listed : LivingForge(r, listed) = "find" <=> Forged(r)
         /\ missionStatusCopy(r) = "find" <=> Forged(r)
         /\ missionTimelineSeal(r) = "find" <=> Forged(r)
         /\ missionJourney(r).forged <=> Forged(r)
  <1>1. countSupportedFinds(r) > 0 <=> Supported(r) # {}
    BY FindCount
  <1>2. kernelSettlementCode(r) # "find"
    BY SettlementCodes
  <1>3. ASSUME NEW listed PROVE LivingForge(r, listed) = "find" <=> Forged(r)
    <2>1. Supported(r) = {} => kernelSupportedFindsForMission(listed, r) = {}
      BY DEF kernelSupportedFindsForMission
    <2>2. CASE r.status \in {"waiting_for_agent", "queued", "running"}
      BY <2>2, ShownCases DEF LivingForge, Forged, isForged, Present
    <2>3. CASE r.status = "completed"
      BY <1>1, <2>1, <2>3, ShownCases DEF LivingForge, Forged, isForged, Present
    <2>4. CASE r.status = "failed"
      BY <1>2, <2>4, ShownCases DEF LivingForge, Forged, isForged, Present
    <2> QED BY <2>2, <2>3, <2>4, ShownCases
  <1>4. missionStatusCopy(r) = "find" <=> Forged(r)
    <2>1. CASE r.status = "completed"
      BY <1>1, <2>1, ShownCases DEF missionStatusCopy, Forged, isForged
    <2>2. CASE r.status # "completed"
      BY <1>2, <2>2, ShownCases DEF missionStatusCopy, Forged, isForged
    <2> QED BY <2>1, <2>2
  <1>5. missionTimelineSeal(r) = "find" <=> Forged(r)
    BY <1>1, ShownCases DEF missionTimelineSeal, Forged
  <1>6. missionJourney(r).forged <=> Forged(r)
    BY <1>1, ShownCases DEF missionJourney, Forged
  <1> QED BY <1>3, <1>4, <1>5, <1>6

(* The dashboard's gold step needs a supported row, whatever the surface, of  *)
(* an earlier moment, says.                                                   *)
LEMMA DashGold ==
  ASSUME IsFiniteSet(Candidates), NEW row, Shown(row), Present(row), NEW s,
         forgePhase(s, row) = "forged"
  PROVE  Forged(row)
  <1> DEFINE work == settledWorkState(s.workState, row)
             blocked == s.blockedReason # "none" \/ blockedOnRow(row)
             n == countSources(buildSources(row))
  <1>1. derivePhase(work, blocked, n) = "forged"
    BY DEF forgePhase
  <1> HIDE DEF work, blocked, n
  <1>2. n.supported > 0
    BY <1>1 DEF derivePhase
  <1>3. Supported(row) # {}
    BY <1>2, SourceCounts DEF n, Shown
  <1>4. row.status \notin {"waiting_for_agent", "queued"}
        /\ ~(row.status = "running" /\ row.phase = "investigating")
    BY <1>3, NoRowsSupport DEF Shown, ShowInv, Untouched
  <1>5. row.phase # "verifying"
    BY <1>3 DEF Shown, ShowInv
  <1> QED BY <1>3, <1>4, <1>5, ShownCases DEF Forged

LEMMA DashGreen ==
  ASSUME IsFiniteSet(Candidates), NEW r, Shown(r), Forged(r)
  PROVE  forgePhase(projectMission(r), r) \in {"forged", "blocked"}
  <1> DEFINE s == projectMission(r)
             blocked == s.blockedReason # "none" \/ blockedOnRow(r)
             n == countSources(buildSources(r))
  <1>1. r.status = "completed" /\ r.phase = "forged" /\ Supported(r) # {}
    BY DEF Forged, Shown, ShowInv
  <1>2. n.supported > 0
    BY <1>1, SourceCounts DEF Shown
  <1>3. CASE blocked
    BY <1>3 DEF forgePhase, derivePhase
  <1>4. CASE ~blocked
    <2>1. s.workState = "forged"
      BY <1>1, <1>4 DEF projectMission, deriveWorkState
    <2>4. settledWorkState("forged", r) = "forged"
      BY DEF settledWorkState
    <2>2. settledWorkState(s.workState, r) = "forged"
      BY <2>1, <2>4
    <2> HIDE DEF s, blocked, n
    <2>3. derivePhase("forged", blocked, n) = "forged"
      BY <1>2, <1>4 DEF derivePhase
    <2> QED BY <2>2, <2>3 DEF forgePhase, s, blocked, n
  <1> QED BY <1>3, <1>4

LEMMA SurfaceParses ==
  ASSUME IsFiniteSet(Candidates), NEW r, Shown(r), Present(r)
  PROVE  parsesMission(projectMission(r))
  <1> DEFINE s == projectMission(r)
  <1>1. s.status = r.status /\ s.workState = deriveWorkState(r)
        /\ s.findCount \subseteq {countSupportedFinds(r)}
    BY DEF projectMission
  <1>2. r.status \in {"waiting_for_agent", "queued", "running", "completed", "failed"}
    BY ShownCases
  <1>3. deriveWorkState(r) \in {"waiting_for_agent", "queued", "running", "investigating",
                                "verifying", "forged", "completed", "failed"}
    BY ShownCases DEF deriveWorkState
  <1> HIDE DEF s
  <1>4. parsesMission(s)
    BY <1>1, <1>2, <1>3, FindCount DEF parsesMission
  <1> QED BY <1>4 DEF s

LEMMA OneName ==
  ASSUME IsFiniteSet(Candidates), NEW r, Shown(r), r.status = "failed", r.automaticBlock = "none"
  PROVE  LET s == projectMission(r)
             code == failureCode(r)
         IN  /\ missionStatusCopy(r) = (IF code = "none" THEN "failed" ELSE code)
             /\ LivingForge(r, {}) = missionStatusCopy(r)
             /\ forgeActivityForGoalSurface(s) = missionStatusCopy(r)
             /\ (code = "verified_without_support") = (forgePhase(s, r) = "verified_unsupported")
             /\ (code = "verified_without_support") = missionVerifiedWithoutSupport(r)
             /\ (code = "web_read_failed") = (forgePhase(s, r) = "read_failed_all")
             /\ missionJourney(r).error = (code # "verified_without_support")
  <1> DEFINE s == projectMission(r)
             code == failureCode(r)
             n == countSources(buildSources(r))
  <1>1. r.phase = "failed" /\ Supported(r) = {} /\ Present(r) /\ r.verificationBlock = "none"
    BY DEF Shown, RecordInv, ShowInv, Present
  <1>2. countSupportedFinds(r) = 0
    BY <1>1, FindCount
  <1>3. kernelSettlementCode(r) = code
    BY <1>2 DEF kernelSettlementCode
  <1>4. code \in {"none", "verified_without_support", "web_read_failed"}
    BY DEF failureCode
  <1>5. code = "verified_without_support" <=> reads(r) # {}
    <2>1. ~r.failedAt => reads(r) = {}
      BY NoRowsSupport DEF Shown, ShowInv
    <2> QED BY <2>1 DEF failureCode
  <1>6. /\ s.workState = "failed" /\ s.blockedReason = "none" /\ s.limitation = code
        /\ settledWorkState("failed", r) = "failed" /\ ~blockedOnRow(r)
    BY <1>1 DEF projectMission, deriveWorkState, settledWorkState, blockedOnRow
  <1>7. forgePhase(s, r) = IF reads(r) # {} THEN "verified_unsupported"
                           ELSE IF n.sources > 0 /\ n.failed = n.sources THEN "read_failed_all"
                           ELSE "failed"
    <2>1. forgePhase(s, r) = derivePhase("failed", FALSE, n)
      BY <1>6 DEF forgePhase
    <2>2. n.supported = 0 /\ (n.read > 0 <=> reads(r) # {})
      BY <1>1, SourceCounts DEF Shown
    <2> HIDE DEF n
    <2> QED BY <2>1, <2>2 DEF derivePhase
  <1>8. ASSUME reads(r) = {}
        PROVE  code = "web_read_failed" <=> n.sources > 0 /\ n.failed = n.sources
    <2>0. r \in MissionRecord /\ r.cands \subseteq Candidates
      BY DEF Shown, MissionRecord
    <2>1. CASE r.failedAt
      <3>1. r.cands # {} /\ \A c \in r.cands : r.rows[c] # "none"
        BY <2>1 DEF Shown, ShowInv
      <3>2. \A c \in Candidates : r.rows[c] \in {"none", "verification_failed"}
        BY <1>8, <2>0 DEF reads, MissionRecord, Rows
      <3>3. n.sources > 0 /\ n.failed = n.sources
        BY <2>0, <3>1, <3>2, SourceCounts
      <3> QED BY <1>8, <2>1, <3>3 DEF failureCode
    <2>2. CASE ~r.failedAt
      <3>1. r.cands = {} /\ \A c \in Candidates : r.rows[c] = "none"
        BY <2>2 DEF Shown, ShowInv, NoRows
      <3>2. ~(n.sources > 0)
        BY <2>0, <3>1, SourceCounts
      <3> QED BY <2>2, <3>2 DEF failureCode
    <2> QED BY <2>1, <2>2
  <1> HIDE DEF s, n, code
  <1>9. missionStatusCopy(r) = (IF code = "none" THEN "failed" ELSE code)
    BY <1>1, <1>3 DEF missionStatusCopy, isForged
  <1>10. LivingForge(r, {}) = missionStatusCopy(r)
    BY <1>1, <1>3, <1>9 DEF LivingForge, isForged
  <1>11. forgeActivityForGoalSurface(s) = missionStatusCopy(r)
    BY <1>6, <1>9 DEF forgeActivityForGoalSurface, goalSurfaceSettlement
  <1>12. code = "verified_without_support" <=> forgePhase(s, r) = "verified_unsupported"
    BY <1>5, <1>7
  <1>13. code = "verified_without_support" <=> missionVerifiedWithoutSupport(r)
    BY <1>1, <1>5 DEF missionVerifiedWithoutSupport
  <1>14. code = "web_read_failed" <=> forgePhase(s, r) = "read_failed_all"
    BY <1>5, <1>7, <1>8
  <1>15. missionJourney(r).error <=> code # "verified_without_support"
    BY <1>2 DEF missionJourney, isReadWithoutSupportSettlement, code
  <1>16. missionVerifiedWithoutSupport(r) \in BOOLEAN /\ missionJourney(r).error \in BOOLEAN
    BY DEF missionVerifiedWithoutSupport, missionJourney
  <1>17. /\ (code = "verified_without_support") = (forgePhase(s, r) = "verified_unsupported")
         /\ (code = "verified_without_support") = missionVerifiedWithoutSupport(r)
         /\ (code = "web_read_failed") = (forgePhase(s, r) = "read_failed_all")
         /\ missionJourney(r).error = (code # "verified_without_support")
    BY <1>12, <1>13, <1>14, <1>15, <1>16, Zenon
  <1> QED BY <1>9, <1>10, <1>11, <1>17 DEF s, code

(* What the dashboard and the popup offer, whatever surface was read.         *)
LEMMA OffersHold ==
  ASSUME IsFiniteSet(Candidates), NEW r, Shown(r), Present(r),
         NEW t \in MissionRecord, Shown(t), Present(t)
  PROVE  LET s == projectMission(t)
             phase == forgePhase(s, r)
         IN  /\ motion(phase) = "active" => r.status \notin {"completed", "failed"}
             /\ canSearchMore(phase, s, r) => ~isActive(r) /\ hasFinishedAttempt(r)
             /\ canRelaunch(phase, s, r) => ~isActive(r)
  <1> DEFINE s == projectMission(t)
             work == settledWorkState(s.workState, r)
             blocked == s.blockedReason # "none" \/ blockedOnRow(r)
             n == countSources(buildSources(r))
             phase == forgePhase(s, r)
             working == {"waiting_for_agent", "queued", "running", "investigating", "verifying"}
  <1>1. phase = derivePhase(work, blocked, n)
    BY DEF forgePhase
  <1>2. r.status \in {"completed", "failed"} => work \notin working
    BY DEF settledWorkState
  <1>3. s.status = t.status /\ s.workState = deriveWorkState(t) /\ s.blockedReason = t.automaticBlock
    BY DEF projectMission
  <1>4. isActive(r) => Untouched(r)
    BY DEF isActive, Shown, RecordInv, ShowInv
  <1>5. isActive(r) => ~hasFinishedAttempt(r)
    BY <1>4 DEF Untouched, hasFinishedAttempt
  <1>6. isActive(r) => n.read = 0 /\ n.failed = 0 /\ n.sources = 0
    <2>1. ASSUME isActive(r)
          PROVE  reads(r) = {} /\ \A c \in Candidates : c \notin r.cands /\ r.rows[c] = "none"
      BY <1>4, <2>1, NoRowsSupport DEF Untouched, NoRows
    <2>2. /\ n.read \in Nat /\ n.sources \in Nat /\ n.failed \in Nat
          /\ n.read > 0 <=> reads(r) # {}
          /\ n.sources > 0 <=> \E c \in Candidates : c \in r.cands \/ r.rows[c] # "none"
          /\ n.failed > 0 => n.sources > 0
      BY SourceCounts DEF Shown
    <2> HIDE DEF n
    <2> QED BY <2>1, <2>2
  <1> HIDE DEF work, blocked, n, phase
  <1>7. ASSUME motion(phase) = "active" PROVE work \in working
    <2>1. phase \in {"waiting_for_agent", "queued", "searching", "verifying"}
      BY <1>7 DEF motion
    <2> QED BY <1>1, <2>1 DEF derivePhase
  <1>8. ASSUME isActive(r), s.status = "running",
               phase \in {"verified_unsupported", "read_failed_all"}
        PROVE  FALSE
    <2>1. ~blocked
      BY <1>1, <1>8 DEF derivePhase
    <2>2. t.phase \in {"investigating", "verifying"} /\ t.automaticBlock = "none"
      BY <1>3, <1>8, <2>1, ShownCases DEF blocked
    <2>3. s.workState \in {"investigating", "verifying"}
      BY <1>3, <2>2 DEF deriveWorkState
    <2>4. work = s.workState
      BY <1>8, <2>3 DEF work, settledWorkState, isActive
    <2> QED BY <1>1, <1>6, <1>8, <2>1, <2>3, <2>4 DEF derivePhase
  <1>9. canSearchMore(phase, s, r) => ~isActive(r) /\ hasFinishedAttempt(r)
    BY <1>5 DEF canSearchMore
  <1>10. canRelaunch(phase, s, r) => ~isActive(r)
    BY <1>8 DEF canRelaunch
  <1>11. motion(phase) = "active" => r.status \notin {"completed", "failed"}
    BY <1>2, <1>7
  <1> QED BY <1>9, <1>10, <1>11 DEF phase

LEMMA ResearchOffer ==
  ASSUME NEW r, Shown(r), isActive(r), canResearch(projectMission(r))
  PROVE  isReauthorizableBlock(r.automaticBlock)
  <1>1. projectMission(r).blockedReason = r.automaticBlock
        /\ projectMission(r).workState = deriveWorkState(r)
    BY DEF projectMission
  <1>2. CASE r.automaticBlock = "none"
    <2>1. Present(r) /\ (r.status = "running" => r.phase = "investigating")
      BY DEF isActive, Present, Shown, RecordInv
    <2>2. deriveWorkState(r) \in {"waiting_for_agent", "queued", "running", "investigating"}
      BY <1>2, <2>1, ShownCases DEF deriveWorkState, isActive
    <2> QED BY <1>1, <2>2 DEF canResearch
  <1>3. CASE r.automaticBlock # "none"
    BY <1>1, <1>3 DEF canResearch
  <1> QED BY <1>2, <1>3

LEMMA EditOffer ==
  ASSUME NEW m \in Missions, Shown(mission[m])
  PROVE  ~goalEditBlock(mission[m]) = RevisionAllowed({m})
  <1> DEFINE r == mission[m]
             unsettled == ~(/\ r.cands # {} /\ r.rows # NoRows /\ Supported(r) = {}
                            /\ \A c \in r.cands : r.rows[c] # "none")
  <1>1. hasLiveLease(r) <=> r.status = "running" /\ isActive(r)
    BY DEF hasLiveLease, isActive, Shown, RecordInv
  <1>2. ASSUME r.status = "running", r.phase = "verifying", r.verificationBlock = "none"
        PROVE  unsettled <=> ~isStranded(r)
    <2>0. r \in MissionRecord /\ r.cands \subseteq Candidates /\ ~r.live
      BY <1>2 DEF Shown, MissionRecord, RecordInv
    <2>1. \A c \in Candidates :
            r.rows[c] \in {"none", "verification_failed", "unsupported", "supported"}
      BY <2>0 DEF MissionRecord, Rows
    <2>2. (\A c \in r.cands : r.rows[c] # "none") /\ r.cands # {} => r.rows # NoRows
      BY <2>0 DEF NoRows
    <2>3. isStranded(r) <=> /\ r.cands # {} /\ Supported(r) = {}
                            /\ \A c \in r.cands : r.rows[c] \in {"verification_failed", "unsupported"}
      BY <1>2, <2>0 DEF isStranded, isVerifying, Supported
    <2>4. Supported(r) = {} =>
            \A c \in r.cands : r.rows[c] # "none" <=> r.rows[c] \in {"verification_failed", "unsupported"}
      BY <2>0, <2>1 DEF Supported
    <2> HIDE DEF r
    <2> QED BY <2>2, <2>3, <2>4
  <1>3. goalEditBlock(r) <=> \/ r.status = "running" /\ isActive(r)
                             \/ isVerificationPending(r)
    BY <1>1, <1>2 DEF goalEditBlock, isVerificationPending
  <1>4. RevisionAllowed({m}) <=> ~goalEditBlock(r)
    BY <1>3 DEF RevisionAllowed
  <1>5. RevisionAllowed({m}) \in BOOLEAN /\ goalEditBlock(r) \in BOOLEAN
    BY DEF RevisionAllowed, goalEditBlock
  <1> QED BY <1>4, <1>5, Zenon

-----------------------------------------------------------------------------
(* The system with the dashboard's reader.                                    *)

SurfaceInv ==
  /\ \A m \in Missions : Shown(mission[m])
  /\ \A m \in Missions : Shown(seen[m])

LEMMA SurfaceStep == [SurfaceNext]_surfaceVars => [Next]_vars
  BY DEF SurfaceNext, ReadSurfaces, KernelStep, surfaceVars, vars

(* A surface, however it was combined of two reads, claims support exactly    *)
(* when the Kernel holds it, names an outcome as the others do, and offers    *)
(* what the Kernel accepts. The set of candidate pages is finite, as the      *)
(* counts of the views take for granted.                                      *)
THEOREM SurfacesStayTrue ==
  IsFiniteSet(Candidates) => (SurfaceSpec => []SurfacesTellTheTruth)
  <1> SUFFICES ASSUME IsFiniteSet(Candidates) PROVE SurfaceSpec => []SurfacesTellTheTruth
    OBVIOUS
  <1>1. SurfaceSpec => Spec
    BY SurfaceStep, PTL DEF SurfaceSpec, SurfaceInit, Spec
  <1>2. SurfaceInit => SurfaceInv
    <2>1. Shown(Absent) /\ Shown(StrandedRecord)
      BY AbsentType, StrandedType, RecordInvInit, ShowInvInit DEF Shown
    <2> QED BY <2>1 DEF SurfaceInit, Init, SurfaceInv
  <1>3. TypeOK /\ RecordsOK /\ TypeOK' /\ RecordsOK' /\ SurfaceInv /\ [SurfaceNext]_surfaceVars
        => SurfaceInv'
    <2> SUFFICES ASSUME TypeOK, RecordsOK, TypeOK', RecordsOK', SurfaceInv,
                        [SurfaceNext]_surfaceVars
                 PROVE  SurfaceInv'
      OBVIOUS
    <2>1. ASSUME NEW m \in Missions PROVE Shown(mission'[m])
      <3>1. RecordStep(m) /\ RecordInv(mission[m]) /\ ShowInv(mission[m])
        BY NextRecordStep, SurfaceStep DEF RecordsOK, SurfaceInv, Shown
      <3>2. ShowInv(mission'[m])
        BY <3>1, ShowInvStep
      <3> QED BY <3>2 DEF TypeOK, RecordsOK, Shown
    <2>2. seen' = mission \/ seen' = seen
      BY DEF SurfaceNext, ReadSurfaces, KernelStep, surfaceVars
    <2>3. \A m \in Missions : Shown(seen'[m])
      BY <2>2 DEF SurfaceInv
    <2> QED BY <2>1, <2>3 DEF SurfaceInv
  <1>4. SurfaceInv /\ CompletedMeansSupport => SurfacesTellTheTruth
    <2> SUFFICES ASSUME SurfaceInv, CompletedMeansSupport PROVE SurfacesTellTheTruth
      OBVIOUS
    <2>1. SurfacesClaimOnlySupport
      <3> SUFFICES ASSUME NEW m \in Missions, Present(mission[m])
                   PROVE  LET r == mission[m]
                              truth == /\ r.status = "completed"
                                       /\ \E c \in Candidates :
                                            r.rows[c] = "supported" /\ <<m, c>> \in finds
                              inbox == {c \in Candidates : <<m, c>> \in finds}
                          IN  /\ (deriveEfestoOrbState(r) = "completed") = truth
                              /\ \A listed \in {inbox, {}} : (LivingForge(r, listed) = "find") = truth
                              /\ (missionStatusCopy(r) = "find") = truth
                              /\ (missionTimelineSeal(r) = "find") = truth
                              /\ missionJourney(r).forged = truth
                              /\ truth => forgePhase(projectMission(r), r) \in {"forged", "blocked"}
                              /\ Present(seen[m]) /\ goldStep(Dash(m)) => truth
        BY DEF SurfacesClaimOnlySupport
      <3> DEFINE r == mission[m]
                 truth == /\ r.status = "completed"
                          /\ \E c \in Candidates : r.rows[c] = "supported" /\ <<m, c>> \in finds
                 inbox == {c \in Candidates : <<m, c>> \in finds}
      <3>0. Shown(r) /\ Shown(seen[m])
        BY DEF SurfaceInv
      <3>1. truth = Forged(r)
        BY DEF CompletedMeansSupport, RowsLink, Forged, Supported
      <3>2. (deriveEfestoOrbState(r) = "completed") = truth
        BY <3>0, <3>1, OrbClaims
      <3>3. \A listed \in {inbox, {}} : (LivingForge(r, listed) = "find") = truth
        BY <3>0, <3>1, CardClaims
      <3>4. (missionStatusCopy(r) = "find") = truth /\ (missionTimelineSeal(r) = "find") = truth
        BY <3>0, <3>1, CardClaims
      <3>5. missionJourney(r).forged = truth
        <4>1. missionJourney(r).forged \in BOOLEAN
          BY DEF missionJourney
        <4> QED BY <3>0, <3>1, <4>1, CardClaims
      <3>6. truth => forgePhase(projectMission(r), r) \in {"forged", "blocked"}
        BY <3>0, <3>1, DashGreen
      <3>7. goldStep(Dash(m)) => truth
        BY <3>0, <3>1, DashGold DEF goldStep, Dash
      <3> QED BY <3>2, <3>3, <3>4, <3>5, <3>6, <3>7
    <2>2. SurfacesNameTheSameOutcome
      BY SurfaceParses, OneName DEF SurfacesNameTheSameOutcome, SurfaceInv
    <2>3. OffersAreAccepted
      BY OffersHold, ResearchOffer, EditOffer DEF OffersAreAccepted, SurfaceInv, Dash, Shown
    <2> QED BY <2>1, <2>2, <2>3 DEF SurfacesTellTheTruth
  <1> QED BY <1>1, <1>2, <1>3, <1>4, TypeCorrect, RecordsInvariant, CompletedIsSupported, PTL
          DEF SurfaceSpec
=============================================================================
