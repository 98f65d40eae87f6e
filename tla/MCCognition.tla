----------------------------- MODULE MCCognition -----------------------------
(* What becomes of a submission: the gates of the cognitive pipeline, the
   replay lab's view of a stored record, and the authority of a memory. They
   share no state here: `focus` picks, in the initial state, which one runs. *)
EXTENDS ReplayLab, MemoryAuthority

CONSTANTS
    Parts,    \* the ones a run explores
    m1, m2

VARIABLE focus
mcVars == <<pipelineVars, replayVars, authorityVars, focus>>

\* A human's approval, enough for ordinary memories, the founder's under the
\* same id, and one under another.
By(actor, id) == {[id |-> id, by |-> actor, outcome |-> "approved", current |-> TRUE]}
PersonApprovals == {By("human", 1), By("founder", 1), By("founder", 2)}

\* A bound on the inputs: a quarantine, for which no approval is looked at, comes
\* with one set of them.
Plain ==
    \A c \in Callers : draft[c] # None /\ draft[c].receipt.to = "quarantined" =>
        draft[c].decisions = By("human", 1) /\ draft[c].receipt.approvals = By("human", 1)

\* A bound on the records of the replay lab: all evidence was recorded, cited or
\* not, and a task that failed was rejected.
FewRecords ==
    \A r \in filed : recorded(r) = EvidenceIds /\ (r.run.failed => r.gates.validation = "rejected")

\* The submission of the behaviours in which the pipeline does not run.
Nothing ==
    [wellFormed |-> FALSE, evidence |-> [e \in EvidenceIds |-> "absent"], cited |-> <<>>,
     confidence |-> MinimumReviewConfidence, existing |-> [c \in ClaimIds |-> "none"],
     comparisons |-> <<>>]

MCInit ==
    /\ focus \in Parts
    /\ IF focus = "pipeline" THEN PipelineInit
       ELSE input = Nothing /\ stage = "submitted" /\ record = NoRecord
    /\ ReplayInit /\ AuthorityInit
MCNext ==
    /\ UNCHANGED focus
    /\ \/ focus = "pipeline" /\ PipelineNext /\ UNCHANGED <<replayVars, authorityVars>>
       \/ focus = "replay" /\ ReplayNext /\ FewRecords' /\ UNCHANGED <<pipelineVars, authorityVars>>
       \/ focus = "authority" /\ AuthorityNext /\ Plain' /\ UNCHANGED <<pipelineVars, replayVars>>

\* The ids of a kind are interchangeable; kinds that never meet share their names.
Symmetry == Permutations(Callers) \cup Permutations(Requests)

MCSpec == MCInit /\ [][MCNext]_mcVars
=============================================================================
