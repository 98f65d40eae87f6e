-------------------------- MODULE CognitivePipeline --------------------------
(***************************************************************************)
(* The Kernel's cognitive pipeline as a function of one Hermes submission: *)
(* mapping, claim validation, contradiction analysis, knowledge admission, *)
(* and the consistency check of the record repository.                     *)
(*                                                                         *)
(* Confidences are hundredths; texts, ids and dates are left out. The      *)
(* default policies of the gates are constants here.                       *)
(***************************************************************************)
EXTENDS Naturals, Sequences, SequencesExt

CONSTANTS
  EvidenceIds, ClaimIds,
  Confidences,                                   \* proposal confidences tried
  ComparisonConfidences,
  MaxCited, MaxComparisons,                      \* bounds of the model: list lengths
  MinimumEvidenceCount, MinimumAcceptedConfidence, MinimumReviewConfidence,
  PossibleThreshold, MaterialThreshold

ASSUME PolicyAssumption ==
  /\ Confidences \subseteq 0..100 /\ ComparisonConfidences \subseteq 0..100
  /\ MinimumEvidenceCount \in Nat \ {0}
  /\ {MinimumReviewConfidence, MinimumAcceptedConfidence, PossibleThreshold, MaterialThreshold}
       \subseteq 0..100
  /\ MinimumReviewConfidence <= MinimumAcceptedConfidence
  /\ PossibleThreshold <= MaterialThreshold
  /\ MaxCited \in Nat /\ MaxComparisons \in Nat

VARIABLES input, stage, record

pipelineVars == <<input, stage, record>>

Comparison == [claim : ClaimIds, kind : {"none", "possible", "material"},
               confidence : ComparisonConfidences]

(* A submission: the event stream's shape, what the evidence events say of    *)
(* each id, what the claim cites, how sure it is, the Kernel's own claims and *)
(* the comparisons with them.                                                 *)
Submission ==
  [wellFormed : BOOLEAN, evidence : [EvidenceIds -> {"absent", "unverified", "verified"}],
   cited : BoundedSeq(EvidenceIds, MaxCited), confidence : Confidences,
   existing : [ClaimIds -> {"none", "unverified", "verified"}],
   comparisons : BoundedSeq(Comparison, MaxComparisons)]

-----------------------------------------------------------------------------
(* Faulty variants. *)

unverified_uncited(s) == {e \in EvidenceIds : s.evidence[e] = "unverified"} \ Range(s.cited)

-----------------------------------------------------------------------------
(* HermesExecutionMapper.map: exactly one start, one end (not before it) and  *)
(* one claim, and the claim cites only recorded evidence.                     *)
mapThrows(s) ==
  \/ ~s.wellFormed
  \/ \E e \in Range(s.cited) : s.evidence[e] = "absent"

(* HermesCognitiveAdapter.validateSubmission: only comparisons with claims    *)
(* the Kernel has.                                                            *)
submitThrows(s) == \E i \in DOMAIN s.comparisons : s.existing[s.comparisons[i].claim] = "none"

(* ClaimValidationGate.evaluate *)
validateThrows(s) == s.cited = <<>>

missing(s) == {e \in Range(s.cited) : s.evidence[e] = "absent"}
unverified(s) == {e \in Range(s.cited) : s.evidence[e] = "unverified"}

validationReasons(s) ==
  {r \in {"missing_evidence", "insufficient_evidence", "unverified_evidence", "low_confidence"} :
     \/ r = "missing_evidence" /\ missing(s) # {}
     \/ r = "insufficient_evidence" /\ Len(s.cited) < MinimumEvidenceCount
     \/ r = "unverified_evidence" /\ unverified(s) # {}
     \/ r = "low_confidence" /\ s.confidence < MinimumAcceptedConfidence}

validation(s) ==
  LET reasons == validationReasons(s)
      hardReject == \/ reasons \cap {"missing_evidence", "insufficient_evidence"} # {}
                    \/ s.confidence < MinimumReviewConfidence
  IN CASE hardReject -> "rejected"
       [] ~hardReject /\ reasons # {} -> "needs_review"
       [] OTHER -> "accepted"

(* ContradictionEngine.evaluate: a comparison is made once per claim.         *)
evaluateThrows(s) ==
  \E i, j \in DOMAIN s.comparisons : i # j /\ s.comparisons[i].claim = s.comparisons[j].claim

relevant(c) == c.kind # "none" /\ c.confidence >= PossibleThreshold

isMaterial(c) == c.kind = "material" /\ c.confidence >= MaterialThreshold

(* The pass over the comparisons, in order: a material conflict sets the      *)
(* action anew, a possible one only turns "admit" into "review". So the last  *)
(* material conflict decides, whatever came before it.                        *)
contradictionAction(s) ==
  LET conflicts == {i \in DOMAIN s.comparisons : relevant(s.comparisons[i])}
      material == {i \in conflicts : isMaterial(s.comparisons[i])}
  IN CASE material # {} ->
            IF s.existing[s.comparisons[Max(material)].claim] = "verified" THEN "block" ELSE "review"
       [] material = {} /\ conflicts # {} -> "review"
       [] OTHER -> "admit"

contradicts(s) == {s.comparisons[i].claim : i \in {j \in DOMAIN s.comparisons : relevant(s.comparisons[j])}}

(* KnowledgeAdmissionGate.admit *)
admissionDecision(action) ==
  CASE action = "admit" -> "admitted"
    [] action = "review" -> "review"
    [] action = "block" -> "blocked"

(* CognitivePipelineOrchestrator.run: the record it appends.                  *)
NoRecord == [validation |-> "none", contradiction |-> "none", admission |-> "none",
             claim |-> FALSE, contradicts |-> {}]

pipelineRecord(s) ==
  IF validation(s) # "accepted" THEN [NoRecord EXCEPT !.validation = validation(s)]
  ELSE LET action == contradictionAction(s)
           decision == admissionDecision(action)
       IN [validation |-> "accepted", contradiction |-> action, admission |-> decision,
           claim |-> decision = "admitted", contradicts |-> contradicts(s)]

Throws(s) ==
  \/ mapThrows(s) \/ submitThrows(s) \/ validateThrows(s)
  \/ validation(s) = "accepted" /\ evaluateThrows(s)

(* JsonCognitivePipelineRepository.validateRecord *)
validRecord(r) ==
  /\ r.contradiction # "none" => r.validation = "accepted"
  /\ r.admission # "none" => r.contradiction # "none"
  /\ r.claim <=> r.admission = "admitted"

-----------------------------------------------------------------------------
PipelineInit == input \in Submission /\ stage = "submitted" /\ record = NoRecord

Refuse ==
  /\ stage = "submitted" /\ Throws(input)
  /\ stage' = "refused"
  /\ UNCHANGED <<input, record>>

Run ==
  /\ stage = "submitted" /\ ~Throws(input)
  /\ record' = pipelineRecord(input)
  /\ stage' = IF validRecord(record') THEN "stored" ELSE "refused"
  /\ UNCHANGED input

PipelineNext == Refuse \/ Run

PipelineSpec == PipelineInit /\ [][PipelineNext]_pipelineVars

-----------------------------------------------------------------------------
(* Properties *)

(* Knowledge is admitted only from a submission in which nothing speaks       *)
(* against it: every cited page recorded and verified, confidence at the      *)
(* acceptance threshold, no comparison at or above the possible threshold;    *)
(* and a submission like that is always admitted.                             *)
Clean(s) ==
  /\ Cardinality(Range(s.cited)) >= MinimumEvidenceCount
  /\ \A e \in Range(s.cited) : s.evidence[e] = "verified"
  /\ s.confidence >= MinimumAcceptedConfidence
  /\ \A i \in DOMAIN s.comparisons :
       s.comparisons[i].kind = "none" \/ s.comparisons[i].confidence < PossibleThreshold

AdmittedExactlyWhenClean ==
  stage = "stored" => (record.admission = "admitted" <=> Clean(input))

(* The gates agree with the repository: a record the pipeline builds is never *)
(* refused by validateRecord, so an accepted reservation never dies there.    *)
StoreAcceptsPipelineRecords == record # NoRecord => stage = "stored"

(* An admitted claim names no contradicted claim, and every contradiction is  *)
(* kept on the record of a claim that was not admitted.                       *)
ContradictionsKept ==
  stage = "stored" /\ record.validation = "accepted" =>
    (record.claim <=> record.contradicts = {})

(* contradiction-engine.test.ts: "blocks material conflicts with verified     *)
(* claims". A material conflict with a verified claim blocks the admission,   *)
(* whatever else was compared.                                                *)
VerifiedMaterialConflictBlocks ==
  stage = "stored" /\ record.validation = "accepted" =>
    ((\E i \in DOMAIN input.comparisons :
        isMaterial(input.comparisons[i]) /\ input.existing[input.comparisons[i].claim] = "verified")
     => record.admission = "blocked")

(* The gates agree with one another and with the repository: what is admitted *)
(* is clean, what is built is stored, and a contradiction is never lost.      *)
GatesAgree == AdmittedExactlyWhenClean /\ StoreAcceptsPipelineRecords /\ ContradictionsKept
=============================================================================
