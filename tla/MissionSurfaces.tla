--------------------------- MODULE MissionSurfaces ---------------------------
(***************************************************************************)
(* What the product shows of a Mission: the Kernel's Goal surface, the      *)
(* popup (orb, Living Forge, Mission card, progress bar, Goal surface) and  *)
(* the dashboard's forge view, as functions of the Mission records of       *)
(* Missions. The dashboard reads the Goal surface and the Mission row with  *)
(* two requests, so it combines a surface that may be older (seen) with the *)
(* row as it is now.                                                        *)
(***************************************************************************)
EXTENDS Missions

VARIABLE seen    \* the Mission records behind the Goal surfaces last read

surfaceVars == <<vars, seen>>

reads(r)  == {c \in Candidates : r.rows[c] \in {"supported", "unsupported"}}

-----------------------------------------------------------------------------
(* Slips a change of this code could make. *)

derivePhase_trustsSurface(work, blocked, n) ==
  CASE blocked -> "blocked"
    [] ~blocked /\ work # "failed" -> work
    [] OTHER -> IF n.read > 0 THEN "verified_unsupported"
                ELSE IF n.sources > 0 THEN "read_failed_all" ELSE "failed"

-----------------------------------------------------------------------------
(* The Kernel: lastFailure.code and its Goal surface                          *)

failureCode(r) ==
  IF ~r.failedAt THEN "none"
  ELSE IF reads(r) # {} THEN "verified_without_support" ELSE "web_read_failed"

countSupportedFinds(r) == Cardinality(Supported(r))

deriveWorkState(r) ==
  CASE r.automaticBlock # "none" -> "failed"
    [] r.automaticBlock = "none" /\ r.phase # "none" -> r.phase
    [] OTHER -> r.status

(* findCount is absent while there are no verification rows; limitation says  *)
(* how a verification without a Find settled.                                 *)
projectMission(r) ==
  [status |-> r.status, workState |-> deriveWorkState(r), blockedReason |-> r.automaticBlock,
   findCount |-> IF r.rows = NoRows THEN {} ELSE {countSupportedFinds(r)},
   limitation |-> IF r.status = "failed" THEN failureCode(r) ELSE "none"]

(* parseMission, in the dashboard and in the popup: one surface outside the   *)
(* contract makes the whole list unreadable.                                  *)
parsesMission(s) ==
  /\ s.status \in {"waiting_for_agent", "queued", "running", "completed", "failed"}
  /\ s.workState \in {"idle", "waiting_for_agent", "queued", "running", "investigating",
                      "verifying", "forged", "completed", "failed"}
  /\ \A n \in s.findCount : n \in Nat

-----------------------------------------------------------------------------
(* The popup, from the Mission row                                            *)

isForged(r) == r.status = "completed" /\ r.phase = "forged"

kernelSettlementCode(r) ==
  IF r.status = "failed" /\ countSupportedFinds(r) = 0 THEN failureCode(r) ELSE "none"

isReadWithoutSupportSettlement(r) ==
  /\ r.status = "failed" /\ failureCode(r) = "verified_without_support"
  /\ countSupportedFinds(r) = 0

exhausted(r) == r.attempt >= MaxAttempts /\ r.status # "completed"

(* deriveEfestoOrbState of an enabled forge over a ready Kernel. *)
deriveEfestoOrbState(r) ==
  CASE ~Present(r) -> "starting"
    [] r.status = "waiting_for_agent" -> "failed"
    [] isReadWithoutSupportSettlement(r) -> "research_completed"
    [] /\ r.status # "waiting_for_agent" /\ ~isReadWithoutSupportSettlement(r)
       /\ r.status = "failed" \/ (r.status = "running" /\ Expired(r)) \/ (Present(r) /\ exhausted(r))
       -> "failed"
    [] OTHER ->
       CASE r.phase = "verifying" -> "verifying"
         [] r.phase # "verifying" /\ r.status = "running" -> "researching"
         [] r.status = "queued" -> "queued"
         [] isForged(r) -> IF countSupportedFinds(r) > 0 THEN "completed" ELSE "research_completed"
         [] OTHER -> "completed_without_forge"

(* forgeActivityForMission: the Living Forge. inbox: the Opportunities listed *)
(* (none when the request failed), of which this Mission's rows must support. *)
kernelSupportedFindsForMission(inbox, r) == inbox \cap Supported(r)

LivingForge(r, inbox) ==
  CASE ~Present(r) -> "idle"
    [] r.phase = "verifying" -> "verifying"
    [] r.phase # "verifying" /\ r.status \in {"running", "waiting_for_agent", "queued"} -> r.status
    [] isForged(r) ->
         IF kernelSupportedFindsForMission(inbox, r) # {} \/ countSupportedFinds(r) > 0
         THEN "find" ELSE "research_completed"
    [] r.status = "completed" /\ ~isForged(r) -> "without_evidence"
    [] OTHER -> IF kernelSettlementCode(r) = "none" THEN "failed" ELSE kernelSettlementCode(r)

(* presentMission: status line and the seal event of its timeline. *)
missionStatusCopy(r) ==
  CASE r.phase = "verifying" -> "verifying"
    [] isForged(r) -> IF countSupportedFinds(r) > 0 THEN "find" ELSE "research_completed"
    [] r.status = "completed" /\ ~isForged(r) -> "without_evidence"
    [] OTHER -> IF kernelSettlementCode(r) # "none" THEN kernelSettlementCode(r) ELSE r.status

missionTimelineSeal(r) ==
  CASE r.phase = "forged" -> IF countSupportedFinds(r) > 0 THEN "find" ELSE "research_completed"
    [] r.phase # "forged" /\ r.status = "completed" -> "without_evidence"
    [] OTHER -> "none"

(* missionJourney: the stage of the four the progress bar paints active, and  *)
(* whether the Forged stage is painted complete.                              *)
missionJourney(r) ==
  LET forgedWithSupport == r.phase = "forged" /\ countSupportedFinds(r) > 0
  IN  [forged |-> r.status = "completed" /\ forgedWithSupport,
       error  |-> r.status = "failed" /\ ~isReadWithoutSupportSettlement(r)]

-----------------------------------------------------------------------------
(* The popup, from the Goal surface                                           *)

goalSurfaceSettlement(s) == s.limitation

surfaceFound(s) == s.findCount # {} /\ s.findCount # {0}

forgeActivityForGoalSurface(s) ==
  CASE s.blockedReason # "none" -> "blocked"
    [] s.blockedReason = "none" /\ s.workState = "completed" -> "without_evidence"
    [] s.blockedReason = "none" /\ s.workState = "forged" ->
         IF surfaceFound(s) THEN "find" ELSE "research_completed"
    [] s.blockedReason = "none" /\ s.workState = "failed" ->
         IF goalSurfaceSettlement(s) # "none" THEN goalSurfaceSettlement(s) ELSE "failed"
    [] OTHER -> s.workState

(* presentGoalSurface: may the popup offer to research this Goal?            *)
isReauthorizableBlock(reason) ==
  reason \in {"authorization_missing", "authorization_revision_mismatch"}

canResearch(s) ==
  /\ s.blockedReason = "none" \/ isReauthorizableBlock(s.blockedReason)
  /\ s.workState \notin {"waiting_for_agent", "queued", "running", "investigating", "verifying"}

-----------------------------------------------------------------------------
(* The dashboard's forge model                                                *)

(* buildSources and sourceFrom: one source per candidate or verification row. *)
sourceState(row, c) ==
  CASE row.rows[c] = "verification_failed" -> "read_failed"
    [] row.rows[c] = "none" -> "candidate"
    [] OTHER -> row.rows[c]

buildSources(row) ==
  {[id |-> c, state |-> sourceState(row, c)] :
     c \in {x \in Candidates : x \in row.cands \/ row.rows[x] # "none"}}

countSources(sources) ==
  [sources |-> Cardinality(sources),
   read |-> Cardinality({s \in sources : s.state \in {"supported", "unsupported"}}),
   failed |-> Cardinality({s \in sources : s.state = "read_failed"}),
   supported |-> Cardinality({s \in sources : s.state = "supported"})]

(* A settled row wins over a surface that still says it is working. *)
settledWorkState(work, row) ==
  IF work \notin {"waiting_for_agent", "queued", "running", "investigating", "verifying"} THEN work
  ELSE CASE row.status = "failed" -> "failed"
         [] row.status = "completed" -> IF row.phase = "forged" THEN "forged" ELSE "completed"
         [] OTHER -> work

blockedOnRow(row) == row.automaticBlock # "none" \/ row.verificationBlock # "none"

derivePhase(work, blocked, n) ==
  CASE blocked -> "blocked"
    [] ~blocked /\ work \in {"waiting_for_agent", "queued"} -> work
    [] ~blocked /\ work \in {"running", "investigating"} -> "searching"
    [] ~blocked /\ work = "verifying" ->
         IF n.read > 0 /\ n.supported = 0 THEN "verified_unsupported"
         ELSE IF n.read = 0 /\ n.failed > 0 /\ n.failed = n.sources THEN "read_failed_all"
         ELSE "verifying"
    [] ~blocked /\ work = "forged" -> IF n.supported > 0 THEN "forged" ELSE "research_completed"
    [] ~blocked /\ work = "completed" ->
         IF n.sources = 0 THEN "completed_empty" ELSE "completed_without_evidence"
    [] OTHER ->
         IF n.read > 0 /\ n.supported = 0 THEN "verified_unsupported"
         ELSE IF n.sources > 0 /\ n.failed = n.sources THEN "read_failed_all" ELSE "failed"

(* buildForgeModel, for a surface and the row of the same Mission. *)
forgePhase(s, row) ==
  derivePhase(settledWorkState(s.workState, row), s.blockedReason # "none" \/ blockedOnRow(row),
              countSources(buildSources(row)))

motion(phase) ==
  IF phase \in {"waiting_for_agent", "queued", "searching", "verifying"} THEN "active" ELSE "settled"

(* buildSteps: the Find step turns gold. *)
goldStep(phase) == phase = "forged"

(* supported-find.ts: read without SUPPORT, settled or (older Kernels) not.   *)
missionVerifiedWithoutSupport(row) ==
  /\ row.phase \in {"verifying", "failed"}
  /\ Supported(row) = {} /\ reads(row) # {}

hasLiveLease(row) == row.status = "running" /\ row.live

(* goalEditBlock: "Editar Goal" is offered when it does not block. *)
goalEditBlock(row) ==
  \/ hasLiveLease(row)
  \/ /\ row.status = "running" /\ row.phase = "verifying" /\ row.verificationBlock = "none"
     /\ ~(/\ row.cands # {} /\ row.rows # NoRows /\ Supported(row) = {}
          /\ \A c \in row.cands : row.rows[c] # "none")

canRelaunch(phase, s, row) ==
  /\ phase \in {"verified_unsupported", "read_failed_all"}
  /\ s.status = "running" /\ ~row.live

canSearchMore(phase, s, row) ==
  /\ phase \in {"forged", "research_completed", "verified_unsupported", "read_failed_all",
                "completed_empty", "completed_without_evidence", "failed"}
  /\ s.status \notin {"queued", "waiting_for_agent"}
  /\ ~(s.status = "running" /\ row.live)
  /\ hasFinishedAttempt(row)

-----------------------------------------------------------------------------
SurfaceInit == Init /\ seen = [m \in Missions |-> Absent]

(* The dashboard's Goal-surface request is answered (control-center's poll). *)
ReadSurfaces ==
  /\ seen # mission
  /\ seen' = mission
  /\ UNCHANGED vars

KernelStep == Next /\ UNCHANGED seen

SurfaceNext == ReadSurfaces \/ KernelStep
SurfaceSpec == SurfaceInit /\ [][SurfaceNext]_surfaceVars

-----------------------------------------------------------------------------
(* Properties *)

Dash(m) == forgePhase(projectMission(seen[m]), mission[m])

(* Green is earned: the orb, the Living Forge, the Mission card and its       *)
(* timeline, the progress bar, the Goal surface and the dashboard announce a  *)
(* Find exactly when the Kernel holds a promoted, supported Find of the       *)
(* Mission's current attempt. The dashboard never announces one earlier, even *)
(* when its Goal surface and its Mission row were read at different times.    *)
SurfacesClaimOnlySupport ==
  \A m \in Missions :
    LET r == mission[m]
        truth == /\ r.status = "completed"
                 /\ \E c \in Candidates : r.rows[c] = "supported" /\ <<m, c>> \in finds
        inbox == {c \in Candidates : <<m, c>> \in finds}
    IN  Present(r) =>
          /\ (deriveEfestoOrbState(r) = "completed") = truth
          /\ \A listed \in {inbox, {}} : (LivingForge(r, listed) = "find") = truth
          /\ (missionStatusCopy(r) = "find") = truth
          /\ (missionTimelineSeal(r) = "find") = truth
          /\ missionJourney(r).forged = truth
          /\ truth => forgePhase(projectMission(r), r) \in {"forged", "blocked"}
          /\ Present(seen[m]) /\ goldStep(Dash(m)) => truth

(* One outcome, one name: a batch read without SUPPORT, or not readable at    *)
(* all, is named the same by the Mission card, the Living Forge, the Goal     *)
(* surface and the dashboard, and the progress bar paints no error for it;    *)
(* and every Mission the Kernel publishes passes the readers' contract.       *)
SurfacesNameTheSameOutcome ==
  \A m \in Missions :
    /\ Present(mission[m]) => parsesMission(projectMission(mission[m]))
    /\ LET r == mission[m]
           s == projectMission(r)
           code == failureCode(r)
       IN r.status = "failed" /\ r.automaticBlock = "none" =>
          /\ missionStatusCopy(r) = (IF code = "none" THEN "failed" ELSE code)
          /\ LivingForge(r, {}) = missionStatusCopy(r)
          /\ forgeActivityForGoalSurface(s) = missionStatusCopy(r)
          /\ (code = "verified_without_support") = (forgePhase(s, r) = "verified_unsupported")
          /\ (code = "verified_without_support") = missionVerifiedWithoutSupport(r)
          /\ (code = "web_read_failed") = (forgePhase(s, r) = "read_failed_all")
          /\ missionJourney(r).error = (code # "verified_without_support")

(* The dashboard keeps no live clock on a Mission whose row is settled, and   *)
(* what it offers the Kernel accepts: "Buscar mas" and a relaunch are only    *)
(* offered on a Mission that is not active and (for the first) has finished   *)
(* an attempt, research on an active one only to confirm it again, and        *)
(* "Editar Goal" exactly when the Kernel would take the revision, although    *)
(* surface and row are from different moments.                                *)
OffersAreAccepted ==
  \A m \in Missions :
    LET r == mission[m]
        s == projectMission(seen[m])
    IN  Present(r) /\ Present(seen[m]) =>
          /\ motion(Dash(m)) = "active" => r.status \notin {"completed", "failed"}
          /\ canSearchMore(Dash(m), s, r) => ~isActive(r) /\ hasFinishedAttempt(r)
          /\ canRelaunch(Dash(m), s, r) => ~isActive(r)
          /\ canResearch(projectMission(r)) /\ isActive(r) => isReauthorizableBlock(r.automaticBlock)
          /\ ~goalEditBlock(r) = RevisionAllowed({m})

(* The surfaces tell the truth: they announce a Find when there is one, give  *)
(* an outcome one name, and offer what the Kernel accepts.                    *)
SurfacesTellTheTruth ==
  SurfacesClaimOnlySupport /\ SurfacesNameTheSameOutcome /\ OffersAreAccepted

=============================================================================
