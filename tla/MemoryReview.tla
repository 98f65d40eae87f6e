---------------------------- MODULE MemoryReview ----------------------------
(***************************************************************************)
(* What may be said about a memory without changing it                     *)
(* (packages/kernel/src/memory): quarantine signals and the                *)
(* recommendations derived from them, recovery reviews of terminal         *)
(* memories, and the two durable files that hold them.  The memory's       *)
(* authority state is the one MemoryAuthority keeps; here it moves on its  *)
(* own, so that every record can be stale by the time it is read.          *)
(*                                                                         *)
(* An evaluator reads a memory, then appends its recommendation later.     *)
(* The files are replaced by a rename: an append happens or it does not.   *)
(***************************************************************************)
EXTENDS Naturals, Sequences, FiniteSets, SequencesExt

CONSTANTS
    Memories,
    Signals,            \* signal types with persisted references
    Evaluators,         \* evaluations in flight
    Versions,           \* evaluator versions deployed
    Requests,           \* recovery request ids
    PolicyVersions,
    MaxMoves            \* bound: authority transitions in all

VARIABLES
    authority,          \* memory -> [state, revision]
    references,         \* memory -> signal types it has references for
    version,            \* the evaluator version now deployed
    policy,             \* the policy version now in force
    evaluating,         \* evaluator -> what it computed, not yet appended
    recommendations,    \* the recommendation file, in order
    reviews             \* the recovery review file, in order

reviewVars == <<authority, references, version, policy, evaluating,
                recommendations, reviews>>

Terminal == {"rejected", "superseded", "revoked"}
Live == {"proposed", "quarantined", "admitted"}
Nothing == [kind |-> "nothing"]

----------------------------------------------------------------------------
(* Evaluation.                                                             *)

\* evaluateMemoryQuarantineSignals on what was read: terminal memories and
\* memories without signals get nothing, a quarantined one is retained.
\* The id is a hash of memory, revision, evaluator version and signals.
RecommendationFor(m, a, v, sigs) ==
    IF a.state \in Terminal \/ sigs = {} THEN Nothing
    ELSE [kind |-> "recommendation",
          id |-> <<m, a.revision, v, sigs>>,
          memory |-> m, revision |-> a.revision, version |-> v, signals |-> sigs,
          decision |-> IF a.state = "quarantined" THEN "retain_quarantine"
                       ELSE "recommend_quarantine"]

EvaluateSignals(e, m) ==
    /\ evaluating[e] = Nothing
    /\ RecommendationFor(m, authority[m], version, references[m]) # Nothing
    /\ evaluating' = [evaluating EXCEPT ![e] =
            RecommendationFor(m, authority[m], version, references[m])]
    /\ UNCHANGED <<authority, references, version, policy, recommendations,
                   reviews>>

\* normalizeRecommendation, normalizeSignals: what the repository lets in has
\* signals, a pending decision, and the id its own basis gives.
Storable(r) ==
    /\ r.signals # {}
    /\ r.decision \in {"recommend_quarantine", "retain_quarantine"}
    /\ r.id = <<r.memory, r.revision, r.version, r.signals>>

\* append of the durable repository: the file is loaded and verified, an id
\* already there is a replay (the same basis) or refused (another one), a
\* new one is added and the file replaced.
AppendRecommendation(e) ==
    /\ evaluating[e] # Nothing
    /\ Storable(evaluating[e])
    /\ recommendations' =
          IF \E r \in ToSet(recommendations) : r.id = evaluating[e].id
          THEN recommendations ELSE Append(recommendations, evaluating[e])
    /\ evaluating' = [evaluating EXCEPT ![e] = Nothing]
    /\ UNCHANGED <<authority, references, version, policy, reviews>>

\* A write that fails, or a process that stops: the evaluation is lost and
\* the file is as it was.
EvaluationLost(e) ==
    /\ evaluating[e] # Nothing
    /\ evaluating' = [evaluating EXCEPT ![e] = Nothing]
    /\ UNCHANGED <<authority, references, version, policy, recommendations,
                   reviews>>

\* Freshness compares signals and version, not the lifecycle revision.
FreshBySignals(r) ==
    /\ version = r.version
    /\ references[r.memory] = r.signals

\* assessMemoryQuarantineRecommendationFreshness against the current state:
\* revision, evaluator version, and the id the current basis would have.
FreshRecommendation(r) ==
    /\ authority[r.memory].revision = r.revision
    /\ version = r.version
    /\ <<r.memory, authority[r.memory].revision, version,
         references[r.memory]>> = r.id

----------------------------------------------------------------------------
(* Recovery reviews.                                                       *)

\* normalizeRequest: terminal memory, human or founder reviewer (founder
\* when demanded), and for an approval a candidate that is another memory.
ValidReview(r) ==
    /\ r.state \in Terminal
    /\ r.reviewer \in {"human", "founder"}
    /\ r.founder => r.reviewer = "founder"
    /\ r.outcome = "approved_new_candidate" => r.candidate # {} /\ r.memory \notin r.candidate
\* A denial's candidate is dropped.
normalizeRequest(r) == IF r.outcome = "denied" THEN [r EXCEPT !.candidate = {}] ELSE r

\* loadRepository of the durable file: every stored review is appended again
\* to an empty repository, and must be accepted and come out as it is stored.
Reloads(file) ==
    \A i \in DOMAIN file :
        /\ ValidReview(file[i]) /\ normalizeRequest(file[i]) = file[i]
        /\ \A j \in 1 .. i - 1 : file[j].request # file[i].request

\* persist: the file is replaced by a rename, all of it or none.
persistReview(r) == reviews' = Append(reviews, r)

\* What a caller says of the memory and the policy: nothing compares it with
\* the authority file, when it is stored or later.
Claims == [state : Live \cup Terminal, revision : 0 .. MaxMoves, policy : PolicyVersions]

\* append: the file is reloaded, a request id binds one payload (the same one
\* is a replay), and the file is replaced.
AppendReview(q, m) ==
    /\ Reloads(reviews)
    /\ ~ \E r \in ToSet(reviews) : r.request = q
    /\ \E claim \in Claims, who \in {"human", "founder", "kernel"}, founder \in BOOLEAN,
          o \in {"approved_new_candidate", "denied"}, c \in {{}} \cup {{x} : x \in Memories} :
       LET asked == [request |-> q, memory |-> m, state |-> claim.state,
                     revision |-> claim.revision, reviewer |-> who, founder |-> founder,
                     policy |-> claim.policy, outcome |-> o, candidate |-> c]
       IN  ValidReview(asked) /\ persistReview(normalizeRequest(asked))
    /\ UNCHANGED <<authority, references, version, policy, evaluating,
                   recommendations>>

\* assessMemoryRecoveryReviewFreshness: state, revision and policy version.
FreshReview(r) ==
    /\ authority[r.memory].state = r.state
    /\ authority[r.memory].revision = r.revision
    /\ policy = r.policy

----------------------------------------------------------------------------
(* The world the records are about.                                        *)

\* An authority transition (MemoryAuthority): one revision more, and never
\* out of a terminal state.
MemoryMoves(m, s) ==
    /\ authority[m].state \in Live
    /\ authority[m].state # s
    /\ FoldFunction(LAMBDA x, y : x.revision + y, 0, authority) < MaxMoves
    /\ authority' = [authority EXCEPT ![m] =
            [state |-> s, revision |-> @.revision + 1]]
    /\ UNCHANGED <<references, version, policy, evaluating, recommendations,
                   reviews>>

\* Persisted references come and are resolved.
ReferencesChange(m, s) ==
    /\ references' = [references EXCEPT ![m] =
            IF s \in @ THEN @ \ {s} ELSE @ \cup {s}]
    /\ UNCHANGED <<authority, version, policy, evaluating, recommendations,
                   reviews>>

Deploy(v, p) ==
    /\ <<v, p>> # <<version, policy>>
    /\ version' = v
    /\ policy' = p
    /\ UNCHANGED <<authority, references, evaluating, recommendations, reviews>>

ReviewInit ==
    /\ authority = [m \in Memories |-> [state |-> "proposed", revision |-> 0]]
    /\ references = [m \in Memories |-> {}]
    /\ version \in Versions
    /\ policy \in PolicyVersions
    /\ evaluating = [e \in Evaluators |-> Nothing]
    /\ recommendations = <<>>
    /\ reviews = <<>>

Evaluation ==
    \E e \in Evaluators :
       \/ \E m \in Memories : EvaluateSignals(e, m)
       \/ AppendRecommendation(e)
       \/ EvaluationLost(e)

Recovery ==
    \E q \in Requests, m \in Memories : AppendReview(q, m)

World ==
    \/ \E m \in Memories :
          \/ \E s \in Live \cup Terminal : MemoryMoves(m, s)
          \/ \E s \in Signals : ReferencesChange(m, s)
    \/ \E v \in Versions, p \in PolicyVersions : Deploy(v, p)

ReviewNext == Evaluation \/ Recovery \/ World

ReviewSpec == ReviewInit /\ [][ReviewNext]_reviewVars

----------------------------------------------------------------------------
\* A recommendation that still counts as fresh describes the memory as it is
\* now: it is not terminal, its signals are the ones on record, and `retain`
\* is said of quarantined memories only - although it was computed on an
\* earlier read and appended after any number of transitions.
FreshRecommendationIsTrue ==
    \A i \in DOMAIN recommendations :
        LET r == recommendations[i]
            s == authority[r.memory].state
        IN  FreshRecommendation(r) =>
              /\ s \in Live
              /\ references[r.memory] = r.signals
              /\ (r.decision = "retain_quarantine") <=> (s = "quarantined")

\* One basis is stored once, however often and from wherever it is
\* evaluated again; a recommendation, once stored, is never rewritten.
OneRecommendationPerBasis ==
    \A i, j \in DOMAIN recommendations :
        recommendations[i].id = recommendations[j].id => i = j

\* No memory is reopened by a review, whatever its caller claimed of it: an
\* approval leads to another memory and was decided by a person, the founder
\* where that was demanded, and a review that counts as fresh is about a memory
\* that is terminal now, though it may have been stored while the memory was
\* alive, or with claims that were never true.
ReviewsNeverReopen ==
    \A i \in DOMAIN reviews :
        LET r == reviews[i]
        IN  /\ r.memory \notin r.candidate
            /\ r.reviewer \in IF r.founder THEN {"founder"} ELSE {"human", "founder"}
            /\ FreshReview(r) => authority[r.memory].state \in Terminal

\* A review that counts as fresh stays so until the policy changes, whatever
\* else moves: the end it names is the memory's last revision.
FreshReviewsStay ==
    \A i \in DOMAIN reviews : FreshReview(reviews[i]) /\ policy' = policy => FreshReview(reviews[i])'

\* The review file can always be loaded again: every record, denials that
\* named a candidate among them, is accepted a second time by the checks it
\* passed once, although the memory it is about may have moved since.
ReviewFileReloads == Reloads(reviews)

\* The two advisory files as a whole: fresh recommendations are true, no basis
\* is stored twice, no review reopens a memory, the review file reloads, and
\* what is fresh stays fresh under one policy.
ReviewsAreTrue ==
    /\ [](/\ FreshRecommendationIsTrue /\ OneRecommendationPerBasis
          /\ ReviewsNeverReopen /\ ReviewFileReloads)
    /\ [][FreshReviewsStay]_reviewVars
=============================================================================
