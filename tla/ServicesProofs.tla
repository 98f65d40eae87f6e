--------------------------- MODULE ServicesProofs ---------------------------
(* Safety of the Kernel's services, for every value of their constants. The    *)
(* components share no state: each section strengthens one component's         *)
(* invariant until it is inductive, and proves it of that component's own      *)
(* specification.                                                              *)
EXTENDS Captures, Chat, DevTasks, FindInbox, KernelApi, KernelPairing, Launcher, MemoryReview, SharedStore,
        WellFoundedInduction, FiniteSetTheorems, SequenceTheorems, TLAPS

-----------------------------------------------------------------------------
(* Pairing. A code is worth one token because the session remembers that it    *)
(* was used, and because a later session never gets an earlier one's code; who *)
(* paired stays paired because the registry file is written before the token   *)
(* is handed out, and cleared only under a token nobody holds yet.             *)

PairingTypeOK ==
  /\ tokenFile \in Nat /\ token \in Nat /\ codes \in 0..MaxCodes
  /\ kernel \in {"down", "rotated", "up"}
  /\ registry \in SUBSET Extensions /\ registryFile \in SUBSET Extensions
  /\ session \in [code : 0..MaxCodes, attempts : Nat, used : BOOLEAN, expired : BOOLEAN]
  /\ pairing \in [Extensions -> [pc : {"none", "body", "authorize"}, code : Nat]]
  /\ held \in [Extensions -> Nat]
  /\ delivered \in [1..MaxCodes -> Nat] /\ tried \in [1..MaxCodes -> Nat]

CodesInv ==
  /\ session.code <= codes
  /\ \A c \in 1..MaxCodes : c > codes => delivered[c] = 0 /\ tried[c] = 0
  /\ session.code # 0 =>
       /\ ~session.used => delivered[session.code] = 0
       /\ tried[session.code] = session.attempts
  /\ CodeGivesOneToken /\ GuessesAreBounded

(* A request is handled by a running Kernel, and came in under a session.      *)
RequestsInv ==
  \A e \in Extensions : pairing[e].pc # "none" => kernel = "up" /\ session.code # 0

RegistryInv ==
  /\ kernel # "down" => token = tokenFile /\ token > 0
  /\ kernel = "up" => registry = registryFile
  /\ \A e \in Extensions :
       /\ held[e] <= tokenFile
       /\ held[e] = tokenFile /\ tokenFile > 0 => e \in registryFile /\ kernel # "rotated"

PairingInv == PairingTypeOK /\ CodesInv /\ RequestsInv /\ RegistryInv

LEMMA NewSessionType ==
  ASSUME PairingTypeOK, CodesInv, NEW w \in BOOLEAN, NewSession(w),
         UNCHANGED <<delivered, tried>>
  PROVE  /\ codes' \in 0..MaxCodes /\ codes <= codes'
         /\ session' \in [code : 0..MaxCodes, attempts : Nat, used : BOOLEAN, expired : BOOLEAN]
         /\ CodesInv'
         /\ w /\ codes < MaxCodes => session'.code # 0
  <1> USE PairingBounds
  <1>1. CASE w /\ codes < MaxCodes
    <2>1. /\ codes' = codes + 1
          /\ session' = [code |-> codes + 1, attempts |-> 0, used |-> FALSE, expired |-> FALSE]
      BY <1>1 DEF NewSession, NoSession
    <2>2. codes + 1 \in 1..MaxCodes
      BY <1>1 DEF PairingTypeOK
    <2> QED BY <2>1, <2>2 DEF PairingTypeOK, CodesInv, CodeGivesOneToken, GuessesAreBounded
  <1>2. CASE ~(w /\ codes < MaxCodes)
    <2>1. codes' = codes /\ session' = NoSession
      BY <1>2 DEF NewSession
    <2> QED BY <1>2, <2>1 DEF PairingTypeOK, CodesInv, NoSession, CodeGivesOneToken, GuessesAreBounded
  <1> QED BY <1>1, <1>2

(* Comparing a code with the session: it is the one place where a code gives a *)
(* token and where a try is counted.                                           *)
LEMMA ConsumeKeepsCodes ==
  ASSUME PairingInv, NEW e \in Extensions, ConsumeCode(e)
  PROVE  CodesInv' /\ PairingTypeOK' /\ RequestsInv'
  <1> USE PairingBounds
  <1> DEFINE c == pairing[e].code
             right == Usable(session) /\ c = session.code
  <1>1. session.code \in 1..MaxCodes /\ c \in Nat /\ kernel = "up"
    BY DEF PairingInv, PairingTypeOK, RequestsInv, ConsumeCode
  <1>2. CASE ~Usable(session)
    <2>1. /\ UNCHANGED <<session, delivered, tried, codes, tokenFile, token, kernel, registryFile, registry, held>>
          /\ pairing' = [pairing EXCEPT ![e] = NoCodeRequest]
      BY <1>2 DEF ConsumeCode
    <2> QED BY <2>1 DEF PairingInv, PairingTypeOK, RequestsInv, CodesInv, CodeGivesOneToken, GuessesAreBounded, NoCodeRequest
  <1>3. CASE Usable(session)
    <2>0. session' = [session EXCEPT !.attempts = session.attempts + 1, !.used = c = session.code]
      BY <1>3 DEF ConsumeCode, Consumed
    <2>1. /\ tried' = [tried EXCEPT ![session.code] = tried[session.code] + 1]
          /\ UNCHANGED <<codes, tokenFile, token, kernel, registryFile, registry, held>>
      BY <1>3 DEF ConsumeCode, Consumed
    <2>2. ~session.used /\ session.attempts < MaxAttempts
      BY <1>3 DEF Usable
    <2>3. CASE c = session.code
      <3>1. /\ delivered' = [delivered EXCEPT ![c] = delivered[c] + 1]
            /\ pairing' = [pairing EXCEPT ![e] = [pc |-> "authorize", code |-> c]]
        BY <1>3, <2>3 DEF ConsumeCode
      <3>0. session' = [code |-> session.code, attempts |-> session.attempts + 1,
                        used |-> TRUE, expired |-> session.expired]
        BY <2>0, <2>3 DEF PairingInv, PairingTypeOK
      <3>2. PairingTypeOK'
        <4>0. session' \in [code : 0..MaxCodes, attempts : Nat, used : BOOLEAN, expired : BOOLEAN]
          BY <3>0 DEF PairingInv, PairingTypeOK
        <4>1. tried' \in [1..MaxCodes -> Nat] /\ delivered' \in [1..MaxCodes -> Nat]
          <5>1. tried \in [1..MaxCodes -> Nat] /\ delivered \in [1..MaxCodes -> Nat]
            BY DEF PairingInv, PairingTypeOK
          <5>2. tried[session.code] + 1 \in Nat /\ delivered[c] + 1 \in Nat
            BY <1>1, <2>3, <5>1
          <5>3. tried' \in [1..MaxCodes -> Nat]
            BY <2>1, <5>1, <5>2
          <5>4. delivered' \in [1..MaxCodes -> Nat]
            BY <3>1, <5>1, <5>2
          <5> QED BY <5>3, <5>4
        <4>2. pairing' \in [Extensions -> [pc : {"none", "body", "authorize"}, code : Nat]]
          BY <1>1, <3>1 DEF PairingInv, PairingTypeOK
        <4> QED BY <2>1, <4>0, <4>1, <4>2 DEF PairingInv, PairingTypeOK
      <3>3. RequestsInv'
        BY <1>1, <2>1, <3>0, <3>1 DEF PairingInv, PairingTypeOK, RequestsInv
      <3>4. delivered'[session.code] = 1 /\ tried'[session.code] = session.attempts + 1
        <4>1. tried \in [1..MaxCodes -> Nat] /\ delivered \in [1..MaxCodes -> Nat]
          BY DEF PairingInv, PairingTypeOK
        <4>2. delivered[session.code] = 0 /\ tried[session.code] = session.attempts
          BY <1>1, <2>2 DEF PairingInv, PairingTypeOK, CodesInv
        <4>3. tried'[session.code] = tried[session.code] + 1
          BY <1>1, <2>1, <4>1
        <4>4. delivered'[session.code] = delivered[session.code] + 1
          BY <1>1, <2>3, <3>1, <4>1
        <4> QED BY <4>2, <4>3, <4>4
      <3>5. \A d \in (1..MaxCodes) \ {session.code} : delivered'[d] = delivered[d] /\ tried'[d] = tried[d]
        BY <1>1, <2>1, <2>3, <3>1 DEF PairingInv, PairingTypeOK
      <3>6. session'.code = session.code /\ session'.used /\ session'.attempts = session.attempts + 1
        BY <3>0 DEF PairingInv, PairingTypeOK
      <3>7. CodesInv'
        <4>1. session'.code <= codes' /\ session'.code # 0
              /\ tried'[session'.code] = session'.attempts
          BY <1>1, <2>1, <3>4, <3>6 DEF PairingInv, CodesInv
        <4>2. \A d \in 1..MaxCodes : d > codes' => delivered'[d] = 0 /\ tried'[d] = 0
          BY <1>1, <2>1, <3>5 DEF PairingInv, PairingTypeOK, CodesInv
        <4>3. CodeGivesOneToken' /\ GuessesAreBounded'
          <5>1. session.attempts + 1 <= MaxAttempts
            BY <2>2 DEF PairingInv, PairingTypeOK
          <5>2. \A d \in 1..MaxCodes : delivered[d] <= 1 /\ tried[d] <= MaxAttempts
            BY DEF PairingInv, CodesInv, CodeGivesOneToken, GuessesAreBounded
          <5> QED BY <3>4, <3>5, <5>1, <5>2 DEF CodeGivesOneToken, GuessesAreBounded
        <4> QED BY <3>6, <4>1, <4>2, <4>3 DEF CodesInv
      <3> QED BY <3>2, <3>3, <3>7
    <2>4. CASE c # session.code
      <3>1. /\ delivered' = delivered
            /\ pairing' = [pairing EXCEPT ![e] = NoCodeRequest]
        BY <1>3, <2>4 DEF ConsumeCode
      <3>0. session' = [code |-> session.code, attempts |-> session.attempts + 1,
                        used |-> FALSE, expired |-> session.expired]
        BY <2>0, <2>4 DEF PairingInv, PairingTypeOK
      <3>2. PairingTypeOK'
        <4>0. session' \in [code : 0..MaxCodes, attempts : Nat, used : BOOLEAN, expired : BOOLEAN]
          BY <3>0 DEF PairingInv, PairingTypeOK
        <4>1. tried' \in [1..MaxCodes -> Nat]
          <5>1. tried \in [1..MaxCodes -> Nat]
            BY DEF PairingInv, PairingTypeOK
          <5>2. tried[session.code] + 1 \in Nat
            BY <1>1, <5>1
          <5> QED BY <2>1, <5>1, <5>2
        <4>2. pairing' \in [Extensions -> [pc : {"none", "body", "authorize"}, code : Nat]]
          BY <3>1 DEF PairingInv, PairingTypeOK, NoCodeRequest
        <4> QED BY <2>1, <3>1, <4>0, <4>1, <4>2 DEF PairingInv, PairingTypeOK
      <3>3. RequestsInv'
        BY <1>1, <2>1, <3>0, <3>1 DEF PairingInv, PairingTypeOK, RequestsInv, NoCodeRequest
      <3>4. tried'[session.code] = session.attempts + 1
        <4>1. tried \in [1..MaxCodes -> Nat]
          BY DEF PairingInv, PairingTypeOK
        <4>2. tried[session.code] = session.attempts
          BY <1>1 DEF PairingInv, CodesInv
        <4> QED BY <1>1, <2>1, <4>1, <4>2
      <3>5. \A d \in (1..MaxCodes) \ {session.code} : tried'[d] = tried[d]
        BY <1>1, <2>1 DEF PairingInv, PairingTypeOK
      <3>6. session'.code = session.code /\ session'.attempts = session.attempts + 1
        BY <3>0 DEF PairingInv, PairingTypeOK
      <3>7. CodesInv'
        <4>1. session'.code <= codes' /\ tried'[session'.code] = session'.attempts
          BY <1>1, <2>1, <3>4, <3>6 DEF PairingInv, CodesInv
        <4>2. \A d \in 1..MaxCodes : d > codes' => delivered'[d] = 0 /\ tried'[d] = 0
          BY <1>1, <2>1, <3>1, <3>5 DEF PairingInv, PairingTypeOK, CodesInv
        <4>3. delivered'[session'.code] = 0
          BY <1>1, <2>2, <3>1, <3>6 DEF PairingInv, CodesInv
        <4>4. CodeGivesOneToken' /\ GuessesAreBounded'
          <5>1. session.attempts + 1 <= MaxAttempts
            BY <2>2 DEF PairingInv, PairingTypeOK
          <5>2. \A d \in 1..MaxCodes : delivered[d] <= 1 /\ tried[d] <= MaxAttempts
            BY DEF PairingInv, CodesInv, CodeGivesOneToken, GuessesAreBounded
          <5> QED BY <3>1, <3>4, <3>5, <5>1, <5>2 DEF CodeGivesOneToken, GuessesAreBounded
        <4> QED BY <4>1, <4>2, <4>3, <4>4 DEF CodesInv
      <3> QED BY <3>2, <3>3, <3>7
    <2> QED BY <2>3, <2>4
  <1> QED BY <1>2, <1>3

LEMMA PairingStep ==
  ASSUME PairingInv, [PairingNext]_pairingVars
  PROVE  PairingInv'
  <1> USE PairingBounds
  <1> USE DEF PairingInv
  <1>1. CASE Start
    <2>1. PICK asked \in BOOLEAN : NewSession(asked \/ tokenFile = 0)
      BY <1>1 DEF Start
    <2>2. /\ codes' \in 0..MaxCodes
          /\ session' \in [code : 0..MaxCodes, attempts : Nat, used : BOOLEAN, expired : BOOLEAN]
          /\ CodesInv'
      BY <1>1, <2>1, NewSessionType DEF Start
    <2>3. PairingTypeOK'
      BY <1>1, <2>2 DEF Start, PairingTypeOK
    <2>4. RequestsInv'
      BY <1>1 DEF Start, RequestsInv
    <2>5. RegistryInv'
      BY <1>1 DEF Start, RegistryInv, PairingTypeOK
    <2> QED BY <2>2, <2>3, <2>4, <2>5
  <1>2. CASE StartRotating
    <2>2. /\ codes' \in 0..MaxCodes
          /\ session' \in [code : 0..MaxCodes, attempts : Nat, used : BOOLEAN, expired : BOOLEAN]
          /\ CodesInv'
      BY <1>2, NewSessionType DEF StartRotating
    <2>1. /\ tokenFile' \in Nat /\ token' \in Nat /\ kernel' = "rotated"
          /\ registry' = registryFile /\ UNCHANGED <<registryFile, pairing, held, delivered, tried>>
      BY <1>2 DEF StartRotating, PairingTypeOK
    <2>3. PairingTypeOK'
      BY <2>1, <2>2 DEF PairingTypeOK
    <2>4. RequestsInv'
      BY <1>2 DEF StartRotating, RequestsInv
    <2>5. RegistryInv'
      BY <1>2 DEF StartRotating, RegistryInv, PairingTypeOK
    <2> QED BY <2>2, <2>3, <2>4, <2>5
  <1>3. CASE ClearRegistry
    BY <1>3 DEF ClearRegistry, PairingTypeOK, CodesInv, RequestsInv, RegistryInv, CodeGivesOneToken, GuessesAreBounded
  <1>4. CASE Stop
    BY <1>4 DEF Stop, PairingTypeOK, CodesInv, RequestsInv, RegistryInv, NoSession, NoCodeRequest,
                CodeGivesOneToken, GuessesAreBounded
  <1>5. CASE Mint
    <2>1. /\ codes' \in 0..MaxCodes
          /\ session' \in [code : 0..MaxCodes, attempts : Nat, used : BOOLEAN, expired : BOOLEAN]
          /\ CodesInv' /\ session'.code # 0
      BY <1>5, NewSessionType DEF Mint
    <2>2. PairingTypeOK' /\ RequestsInv' /\ RegistryInv'
      BY <1>5, <2>1 DEF Mint, PairingTypeOK, RequestsInv, RegistryInv
    <2> QED BY <2>1, <2>2
  <1>6. CASE SessionExpires
    BY <1>6 DEF SessionExpires, PairingTypeOK, CodesInv, RequestsInv, RegistryInv, CodeGivesOneToken, GuessesAreBounded
  <1>7. ASSUME NEW e \in Extensions, SubmitCode(e) PROVE PairingInv'
    <2>1. /\ UNCHANGED <<tokenFile, kernel, token, registryFile, registry, session, codes, held, delivered, tried>>
          /\ kernel = "up" /\ session.code # 0
      BY <1>7 DEF SubmitCode, processVars
    <2>2. PICK c \in 0..codes : pairing' = [pairing EXCEPT ![e] = [pc |-> "body", code |-> c]]
      BY <1>7 DEF SubmitCode
    <2>3. PairingTypeOK' /\ RequestsInv'
      <3>1. pairing \in [Extensions -> [pc : {"none", "body", "authorize"}, code : Nat]] /\ c \in Nat
        BY DEF PairingTypeOK
      <3>2. [pc |-> "body", code |-> c] \in [pc : {"none", "body", "authorize"}, code : Nat]
        BY <3>1
      <3>3. pairing' \in [Extensions -> [pc : {"none", "body", "authorize"}, code : Nat]]
        BY <2>2, <3>1, <3>2
      <3>4. PairingTypeOK'
        BY <2>1, <3>3 DEF PairingTypeOK
      <3>5. RequestsInv'
        BY <2>1 DEF RequestsInv
      <3> QED BY <3>4, <3>5
    <2>4. CodesInv' /\ RegistryInv'
      BY <2>1 DEF CodesInv, RegistryInv, CodeGivesOneToken, GuessesAreBounded
    <2> QED BY <2>3, <2>4
  <1>8. ASSUME NEW e \in Extensions, ConsumeCode(e) PROVE PairingInv'
    <2>1. RegistryInv'
      BY <1>8 DEF ConsumeCode, RegistryInv
    <2> QED BY <1>8, <2>1, ConsumeKeepsCodes
  <1>9. ASSUME NEW e \in Extensions, Authorize(e) PROVE PairingInv'
    <2>1. /\ UNCHANGED <<tokenFile, kernel, token, session, codes, delivered, tried>>
          /\ pairing' = [pairing EXCEPT ![e] = NoCodeRequest]
          /\ pairing[e].pc = "authorize"
      BY <1>9 DEF Authorize
    <2>a. \/ /\ registryFile' = registry \cup {e} /\ registry' = registry \cup {e}
             /\ held' = [held EXCEPT ![e] = token]
          \/ UNCHANGED <<registryFile, registry, held>>
      BY <1>9 DEF Authorize
    <2>2. PairingTypeOK'
      <3>1. pairing' \in [Extensions -> [pc : {"none", "body", "authorize"}, code : Nat]]
        BY <2>1 DEF PairingTypeOK, NoCodeRequest
      <3>2. /\ registry' \in SUBSET Extensions /\ registryFile' \in SUBSET Extensions
            /\ held' \in [Extensions -> Nat]
        <4>1. registry \in SUBSET Extensions /\ registryFile \in SUBSET Extensions
          BY DEF PairingTypeOK
        <4>2. held \in [Extensions -> Nat] /\ token \in Nat
          BY DEF PairingTypeOK
        <4>3. registry' \in SUBSET Extensions /\ registryFile' \in SUBSET Extensions
          BY <2>a, <4>1
        <4>4. held' \in [Extensions -> Nat]
          BY <2>a, <4>2
        <4> QED BY <4>3, <4>4
      <3> QED BY <2>1, <3>1, <3>2 DEF PairingTypeOK
    <2>3. RequestsInv'
      BY <2>1 DEF PairingTypeOK, RequestsInv, NoCodeRequest
    <2>4. CodesInv'
      BY <2>1 DEF CodesInv, CodeGivesOneToken, GuessesAreBounded
    <2>5. RegistryInv'
      <3>1. kernel = "up" /\ registry = registryFile /\ token = tokenFile
        BY <2>1 DEF RequestsInv, RegistryInv
      <3>2. CASE UNCHANGED <<registryFile, registry, held>>
        BY <2>1, <3>2 DEF RegistryInv
      <3>3. CASE /\ registryFile' = registry \cup {e} /\ registry' = registry \cup {e}
                 /\ held' = [held EXCEPT ![e] = token]
        <4>1. \A x \in Extensions : held'[x] = IF x = e THEN token ELSE held[x]
          BY <3>3 DEF PairingTypeOK
        <4> QED BY <2>1, <3>1, <3>3, <4>1 DEF RegistryInv, PairingTypeOK
      <3> QED BY <2>a, <3>2, <3>3
    <2> QED BY <2>2, <2>3, <2>4, <2>5
  <1>10. CASE UNCHANGED pairingVars
    BY <1>10 DEF pairingVars, PairingTypeOK, CodesInv, RequestsInv, RegistryInv,
                 CodeGivesOneToken, GuessesAreBounded
  <1> QED BY <1>1, <1>2, <1>3, <1>4, <1>5, <1>6, <1>7, <1>8, <1>9, <1>10 DEF PairingNext

(* A pairing code is worth one token, guesses at it are bounded, and an        *)
(* extension that paired is let through, for any number of extensions, codes   *)
(* and tokens: PairingSession, ExtensionIdentityRegistry and the start-up that *)
(* rotates the token and clears the registry in two steps.                     *)
THEOREM PairingStaysSafe == PairingSpec => []PairingIsSafe
  <1> USE PairingBounds
  <1>1. PairingInit => PairingInv
    BY DEF PairingInit, PairingInv, PairingTypeOK, CodesInv, RequestsInv, RegistryInv,
           NoSession, NoCodeRequest, CodeGivesOneToken, GuessesAreBounded
  <1>2. PairingInv => PairingIsSafe
    BY DEF PairingInv, PairingTypeOK, CodesInv, RegistryInv, PairingIsSafe, PairedIsLetThrough, Allows
  <1> QED BY <1>1, <1>2, PairingStep, PTL DEF PairingSpec

-----------------------------------------------------------------------------
(* What is said about memories. A recommendation or review may be stale by the *)
(* time it is stored; it is still true of the revision it names, revisions     *)
(* only grow, and a terminal memory has its last one.                          *)

Recommendation ==
  [kind : {"recommendation"}, id : Memories \X Nat \X Versions \X SUBSET Signals,
   memory : Memories, revision : Nat, version : Versions, signals : SUBSET Signals,
   decision : {"recommend_quarantine", "retain_quarantine"}]

Review ==
  [request : Requests, memory : Memories, state : Live \cup Terminal, revision : Nat,
   reviewer : {"human", "founder", "kernel"}, founder : BOOLEAN, policy : PolicyVersions,
   outcome : {"approved_new_candidate", "denied"}, candidate : SUBSET Memories]

ReviewTypeOK ==
  /\ authority \in [Memories -> [state : Live \cup Terminal, revision : Nat]]
  /\ references \in [Memories -> SUBSET Signals]
  /\ version \in Versions /\ policy \in PolicyVersions
  /\ evaluating \in [Evaluators -> Recommendation \cup {Nothing}]
  /\ recommendations \in Seq(Recommendation)
  /\ reviews \in Seq(Review)

(* True of the revision it names, which the memory has or once had.            *)
TrueOfItsRevision(r) ==
  /\ r.id = <<r.memory, r.revision, r.version, r.signals>>
  /\ r.revision <= authority[r.memory].revision
  /\ r.revision = authority[r.memory].revision =>
       /\ authority[r.memory].state \in Live
       /\ (r.decision = "retain_quarantine") <=> (authority[r.memory].state = "quarantined")

RecommendationInv ==
  /\ \A e \in Evaluators : evaluating[e] # Nothing => TrueOfItsRevision(evaluating[e])
  /\ \A i \in DOMAIN recommendations : TrueOfItsRevision(recommendations[i])
  /\ OneRecommendationPerBasis

(* What was checked when the review was stored; whether it says the truth of   *)
(* its memory was not.                                                         *)
Decided(r) ==
  /\ r.state \in Terminal /\ r.memory \notin r.candidate
  /\ r.reviewer \in IF r.founder THEN {"founder"} ELSE {"human", "founder"}

ReviewInv ==
  /\ ReviewTypeOK /\ RecommendationInv
  /\ \A i \in DOMAIN reviews : Decided(reviews[i])
  /\ Reloads(reviews)

LEMMA RecommendationForType ==
  ASSUME ReviewTypeOK, NEW m \in Memories, NEW r,
         r = RecommendationFor(m, authority[m], version, references[m]), r # Nothing
  PROVE  r \in Recommendation /\ TrueOfItsRevision(r)
  <1>1. authority[m].state \notin Terminal /\ references[m] # {}
    BY DEF RecommendationFor
  <1>2. /\ authority[m].state \in Live /\ authority[m].revision \in Nat
        /\ references[m] \in SUBSET Signals /\ version \in Versions
    BY <1>1 DEF ReviewTypeOK
  <1>3. r = [kind |-> "recommendation",
             id |-> <<m, authority[m].revision, version, references[m]>>,
             memory |-> m, revision |-> authority[m].revision, version |-> version,
             signals |-> references[m],
             decision |-> IF authority[m].state = "quarantined" THEN "retain_quarantine"
                          ELSE "recommend_quarantine"]
    BY <1>1 DEF RecommendationFor
  <1> QED BY <1>2, <1>3 DEF Recommendation, TrueOfItsRevision

LEMMA EvaluateKeeps ==
  ASSUME ReviewInv, NEW e \in Evaluators, NEW m \in Memories, EvaluateSignals(e, m)
  PROVE  ReviewInv'
  <1> DEFINE r == RecommendationFor(m, authority[m], version, references[m])
  <1>1. r \in Recommendation /\ TrueOfItsRevision(r)
    BY RecommendationForType DEF EvaluateSignals, ReviewInv
  <1>2. /\ evaluating' = [evaluating EXCEPT ![e] = r]
        /\ UNCHANGED <<authority, references, version, policy, recommendations, reviews>>
    BY DEF EvaluateSignals
  <1> HIDE DEF r
  <1>3. ReviewTypeOK'
    BY <1>1, <1>2 DEF ReviewInv, ReviewTypeOK
  <1>4. \A x \in Evaluators : evaluating'[x] = IF x = e THEN r ELSE evaluating[x]
    BY <1>2 DEF ReviewInv, ReviewTypeOK
  <1>5. \A x : TrueOfItsRevision(x) => TrueOfItsRevision(x)'
    BY <1>2 DEF TrueOfItsRevision
  <1>6. RecommendationInv'
    BY <1>1, <1>2, <1>4, <1>5 DEF ReviewInv, RecommendationInv, OneRecommendationPerBasis
  <1> QED BY <1>2, <1>3, <1>6 DEF ReviewInv, Decided

LEMMA AppendRecommendationKeeps ==
  ASSUME ReviewInv, NEW e \in Evaluators, AppendRecommendation(e)
  PROVE  ReviewInv'
  <1> DEFINE r == evaluating[e]
  <1>1. r \in Recommendation /\ TrueOfItsRevision(r)
    BY DEF AppendRecommendation, ReviewInv, ReviewTypeOK, RecommendationInv
  <1>2. /\ evaluating' = [evaluating EXCEPT ![e] = Nothing]
        /\ UNCHANGED <<authority, references, version, policy, reviews>>
    BY DEF AppendRecommendation
  <1>3. \A x : TrueOfItsRevision(x) => TrueOfItsRevision(x)'
    BY <1>2 DEF TrueOfItsRevision
  <1>4. \/ recommendations' = recommendations
        \/ /\ recommendations' = Append(recommendations, r)
           /\ \A i \in DOMAIN recommendations : recommendations[i].id # r.id
    BY DEF AppendRecommendation, ToSet
  <1> HIDE DEF r
  <1>5. \A x \in Evaluators : evaluating'[x] = IF x = e THEN Nothing ELSE evaluating[x]
    BY <1>2 DEF ReviewInv, ReviewTypeOK
  <1>6. \A x \in Evaluators : evaluating'[x] # Nothing => TrueOfItsRevision(evaluating[x])'
    BY <1>3, <1>5 DEF ReviewInv, RecommendationInv
  <1>7. CASE recommendations' = recommendations
    <2>1. ReviewTypeOK'
      BY <1>2, <1>7 DEF ReviewInv, ReviewTypeOK
    <2>2. RecommendationInv'
      BY <1>3, <1>6, <1>7 DEF ReviewInv, RecommendationInv, OneRecommendationPerBasis
    <2> QED BY <1>2, <2>1, <2>2 DEF ReviewInv, Decided
  <1>8. CASE /\ recommendations' = Append(recommendations, r)
             /\ \A i \in DOMAIN recommendations : recommendations[i].id # r.id
    <2>1. ReviewTypeOK'
      BY <1>1, <1>2, <1>8 DEF ReviewInv, ReviewTypeOK
    <2>2. /\ DOMAIN recommendations' = 1 .. Len(recommendations) + 1
          /\ \A i \in DOMAIN recommendations' :
               recommendations'[i] = IF i = Len(recommendations) + 1 THEN r ELSE recommendations[i]
          /\ DOMAIN recommendations = 1 .. Len(recommendations) /\ Len(recommendations) \in Nat
      BY <1>1, <1>8 DEF ReviewInv, ReviewTypeOK
    <2>3. \A i \in DOMAIN recommendations' : TrueOfItsRevision(recommendations[i])'
      BY <1>1, <1>3, <2>2 DEF ReviewInv, RecommendationInv
    <2>4. OneRecommendationPerBasis'
      BY <1>8, <2>2 DEF ReviewInv, RecommendationInv, OneRecommendationPerBasis
    <2>5. RecommendationInv'
      BY <1>6, <2>3, <2>4 DEF RecommendationInv
    <2> QED BY <1>2, <2>1, <2>5 DEF ReviewInv, Decided
  <1> QED BY <1>4, <1>7, <1>8

LEMMA LostEvaluationKeeps ==
  ASSUME ReviewInv, NEW e \in Evaluators, EvaluationLost(e)
  PROVE  ReviewInv'
  <1>1. /\ evaluating' = [evaluating EXCEPT ![e] = Nothing]
        /\ UNCHANGED <<authority, references, version, policy, recommendations, reviews>>
    BY DEF EvaluationLost
  <1>2. ReviewTypeOK'
    BY <1>1 DEF ReviewInv, ReviewTypeOK
  <1>3. \A x : TrueOfItsRevision(x) => TrueOfItsRevision(x)'
    BY <1>1 DEF TrueOfItsRevision
  <1>4. \A x \in Evaluators : evaluating'[x] = IF x = e THEN Nothing ELSE evaluating[x]
    BY <1>1 DEF ReviewInv, ReviewTypeOK
  <1>5. RecommendationInv'
    BY <1>1, <1>3, <1>4 DEF ReviewInv, RecommendationInv, OneRecommendationPerBasis
  <1> QED BY <1>1, <1>2, <1>5 DEF ReviewInv, Decided

(* A review is about a terminal memory, names another memory if any, and comes *)
(* out of normalizeRequest as a record the same checks accept again.           *)
LEMMA NormalizedReview ==
  ASSUME NEW r \in Review, ValidReview(r)
  PROVE  /\ normalizeRequest(r) \in Review /\ ValidReview(normalizeRequest(r))
         /\ normalizeRequest(normalizeRequest(r)) = normalizeRequest(r)
         /\ r.memory \notin normalizeRequest(r).candidate
         /\ normalizeRequest(r).memory = r.memory /\ normalizeRequest(r).request = r.request
  <1>1. CASE r.outcome = "denied"
    <2>1. normalizeRequest(r) = [request |-> r.request, memory |-> r.memory, state |-> r.state,
             revision |-> r.revision, reviewer |-> r.reviewer, founder |-> r.founder,
             policy |-> r.policy, outcome |-> r.outcome, candidate |-> {}]
      BY <1>1 DEF normalizeRequest, Review
    <2>2. normalizeRequest(normalizeRequest(r)) = normalizeRequest(r)
      BY <1>1, <2>1 DEF normalizeRequest
    <2> QED BY <1>1, <2>1, <2>2 DEF Review, ValidReview
  <1>2. CASE r.outcome # "denied"
    BY <1>2 DEF normalizeRequest, Review, ValidReview
  <1> QED BY <1>1, <1>2

LEMMA AppendReviewKeeps ==
  ASSUME ReviewInv, NEW q \in Requests, NEW m \in Memories, AppendReview(q, m)
  PROVE  ReviewInv'
  <1>0. PICK claim \in Claims, who \in {"human", "founder", "kernel"}, founder \in BOOLEAN,
             o \in {"approved_new_candidate", "denied"}, c \in {{}} \cup {{x} : x \in Memories} :
          LET p == [request |-> q, memory |-> m, state |-> claim.state,
                    revision |-> claim.revision, reviewer |-> who, founder |-> founder,
                    policy |-> claim.policy, outcome |-> o, candidate |-> c]
          IN  ValidReview(p) /\ persistReview(normalizeRequest(p))
    BY DEF AppendReview
  <1> DEFINE asked == [request |-> q, memory |-> m, state |-> claim.state,
                       revision |-> claim.revision, reviewer |-> who, founder |-> founder,
                       policy |-> claim.policy, outcome |-> o, candidate |-> c]
             r == normalizeRequest(asked)
  <1>1. asked \in Review
    <2>1. c \in SUBSET Memories
      OBVIOUS
    <2>2. claim.state \in Live \cup Terminal /\ claim.revision \in Nat /\ claim.policy \in PolicyVersions
      BY DEF Claims
    <2> QED BY <2>1, <2>2 DEF Review
  <1>2. /\ ValidReview(asked)
        /\ \A i \in DOMAIN reviews : reviews[i].request # q
        /\ reviews' = Append(reviews, r)
        /\ UNCHANGED <<authority, references, version, policy, evaluating, recommendations>>
    <2>1. ValidReview(asked) /\ reviews' = Append(reviews, r)
      BY <1>0 DEF persistReview
    <2> QED BY <2>1 DEF AppendReview, ToSet
  <1>3. /\ r \in Review /\ ValidReview(r) /\ normalizeRequest(r) = r
        /\ m \notin r.candidate /\ r.memory = m /\ r.request = q
    <2> HIDE DEF asked
    <2>1. /\ r \in Review /\ ValidReview(r) /\ normalizeRequest(r) = r
          /\ asked.memory \notin r.candidate /\ r.memory = asked.memory /\ r.request = asked.request
      BY <1>1, <1>2, NormalizedReview
    <2> QED BY <2>1 DEF asked
  <1>4. Decided(r)
    BY <1>3 DEF ValidReview, Decided, Review
  <1> HIDE DEF r, asked
  <1>5. /\ DOMAIN reviews' = 1 .. Len(reviews) + 1
        /\ \A i \in DOMAIN reviews' :
             reviews'[i] = IF i = Len(reviews) + 1 THEN r ELSE reviews[i]
        /\ DOMAIN reviews = 1 .. Len(reviews) /\ Len(reviews) \in Nat
    BY <1>2, <1>3 DEF ReviewInv, ReviewTypeOK
  <1>6. ReviewTypeOK'
    BY <1>2, <1>3 DEF ReviewInv, ReviewTypeOK
  <1>7. RecommendationInv'
    BY <1>2 DEF ReviewInv, RecommendationInv, TrueOfItsRevision, OneRecommendationPerBasis
  <1>8. \A i \in DOMAIN reviews' : Decided(reviews'[i])
    BY <1>4, <1>5 DEF ReviewInv
  <1>9. Reloads(reviews')
    <2> SUFFICES ASSUME NEW i \in DOMAIN reviews'
                 PROVE  /\ ValidReview(reviews'[i]) /\ normalizeRequest(reviews'[i]) = reviews'[i]
                        /\ \A j \in 1 .. i - 1 : reviews'[j].request # reviews'[i].request
      BY DEF Reloads
    <2>1. CASE i = Len(reviews) + 1
      BY <1>2, <1>3, <1>5, <2>1
    <2>2. CASE i \in DOMAIN reviews
      <3>1. reviews'[i] = reviews[i] /\ \A j \in 1 .. i - 1 : reviews'[j] = reviews[j]
        BY <1>5, <2>2
      <3> QED BY <2>2, <3>1 DEF ReviewInv, Reloads
    <2> QED BY <1>5, <2>1, <2>2
  <1> QED BY <1>6, <1>7, <1>8, <1>9 DEF ReviewInv, Decided

LEMMA MemoryMovesKeeps ==
  ASSUME ReviewInv, NEW m \in Memories, NEW s \in Live \cup Terminal, MemoryMoves(m, s)
  PROVE  ReviewInv'
  <1>1. /\ authority' = [authority EXCEPT ![m] = [state |-> s, revision |-> authority[m].revision + 1]]
        /\ UNCHANGED <<references, version, policy, evaluating, recommendations, reviews>>
        /\ authority[m].state \in Live
    BY DEF MemoryMoves
  <1>2. \A x \in Memories : authority'[x] = IF x = m THEN [state |-> s, revision |-> authority[m].revision + 1]
                                            ELSE authority[x]
    BY <1>1 DEF ReviewInv, ReviewTypeOK
  <1>3. authority[m].revision \in Nat
    BY DEF ReviewInv, ReviewTypeOK
  <1>4. ReviewTypeOK'
    BY <1>1, <1>3 DEF ReviewInv, ReviewTypeOK
  <1>5. ASSUME NEW r \in Recommendation, TrueOfItsRevision(r) PROVE TrueOfItsRevision(r)'
    <2>1. r.memory \in Memories /\ r.revision \in Nat
      BY DEF Recommendation
    <2>2. CASE r.memory = m
      BY <1>2, <1>3, <1>5, <2>1, <2>2 DEF TrueOfItsRevision
    <2>3. CASE r.memory # m
      <3>1. authority'[r.memory] = authority[r.memory]
        BY <1>2, <2>1, <2>3
      <3> QED BY <1>5, <3>1 DEF TrueOfItsRevision
    <2> QED BY <2>2, <2>3
  <1>6. RecommendationInv'
    BY <1>1, <1>5 DEF ReviewInv, ReviewTypeOK, RecommendationInv, OneRecommendationPerBasis
  <1> QED BY <1>1, <1>4, <1>6 DEF ReviewInv, Decided

LEMMA ReviewStep ==
  ASSUME ReviewInv, [ReviewNext]_reviewVars
  PROVE  ReviewInv'
  <1>1. CASE Evaluation
    BY <1>1, EvaluateKeeps, AppendRecommendationKeeps, LostEvaluationKeeps DEF Evaluation
  <1>2. CASE Recovery
    BY <1>2, AppendReviewKeeps DEF Recovery
  <1>3. CASE \E m \in Memories, s \in Live \cup Terminal : MemoryMoves(m, s)
    BY <1>3, MemoryMovesKeeps
  <1>4. ASSUME NEW m \in Memories, NEW s \in Signals, ReferencesChange(m, s) PROVE ReviewInv'
    <2>1. references' \in [Memories -> SUBSET Signals]
      BY <1>4 DEF ReferencesChange, ReviewInv, ReviewTypeOK
    <2>2. UNCHANGED <<authority, version, policy, evaluating, recommendations, reviews>>
      BY <1>4 DEF ReferencesChange
    <2> QED BY <2>1, <2>2 DEF ReviewInv, ReviewTypeOK, RecommendationInv, TrueOfItsRevision,
                             OneRecommendationPerBasis, Decided
  <1>5. ASSUME NEW v \in Versions, NEW p \in PolicyVersions, Deploy(v, p) PROVE ReviewInv'
    BY <1>5 DEF Deploy, ReviewInv, ReviewTypeOK, RecommendationInv, TrueOfItsRevision,
                OneRecommendationPerBasis, Decided
  <1>6. CASE UNCHANGED reviewVars
    BY <1>6 DEF reviewVars, ReviewInv, ReviewTypeOK, RecommendationInv, TrueOfItsRevision,
                OneRecommendationPerBasis, Decided
  <1> QED BY <1>1, <1>2, <1>3, <1>4, <1>5, <1>6 DEF ReviewNext, World

(* The end a fresh review names is the memory's last revision.                 *)
LEMMA FreshStays ==
  ASSUME ReviewInv, [ReviewNext]_reviewVars
  PROVE  [FreshReviewsStay]_reviewVars
  <1> SUFFICES ASSUME NEW i \in DOMAIN reviews, FreshReview(reviews[i]), policy' = policy
               PROVE  FreshReview(reviews[i])'
    BY DEF FreshReviewsStay
  <1>1. reviews[i] \in Review /\ Decided(reviews[i]) /\ reviews[i].memory \in Memories
    <2>1. reviews \in Seq(Review) /\ \A j \in DOMAIN reviews : Decided(reviews[j])
      BY DEF ReviewInv, ReviewTypeOK
    <2>2. reviews[i] \in Review
      BY <2>1
    <2> QED BY <2>1, <2>2 DEF Review
  <1>2. reviews'[i] = reviews[i]
    <2>1. ASSUME NEW q \in Requests, NEW m \in Memories, AppendReview(q, m) PROVE reviews'[i] = reviews[i]
      <3>1. PICK r : reviews' = Append(reviews, r)
        BY <2>1 DEF AppendReview, persistReview
      <3>2. reviews \in Seq(Review)
        BY DEF ReviewInv, ReviewTypeOK
      <3> QED BY <3>1, <3>2
    <2>2. CASE ~Recovery
      BY <2>2 DEF ReviewNext, reviewVars, Evaluation, World, EvaluateSignals, AppendRecommendation,
                  EvaluationLost, MemoryMoves, ReferencesChange, Deploy
    <2> QED BY <2>1, <2>2 DEF Recovery
  <1>3. authority'[reviews[i].memory] = authority[reviews[i].memory]
    <2>1. ASSUME NEW m \in Memories, NEW s, MemoryMoves(m, s)
          PROVE  authority'[reviews[i].memory] = authority[reviews[i].memory]
      <3>1. reviews[i].memory # m
        BY <1>1, <2>1 DEF FreshReview, MemoryMoves, Decided, Live, Terminal
      <3> QED BY <1>1, <2>1, <3>1 DEF MemoryMoves, ReviewInv, ReviewTypeOK
    <2>2. CASE UNCHANGED authority
      BY <2>2
    <2> QED BY <2>1, <2>2 DEF ReviewNext, reviewVars, Evaluation, Recovery, World, EvaluateSignals,
               AppendRecommendation, EvaluationLost, AppendReview, ReferencesChange, Deploy
  <1> QED BY <1>2, <1>3 DEF FreshReview

(* The two advisory files tell the truth, for any number of memories, signals, *)
(* evaluators and requests, and whatever the callers of the review file claim: *)
(* a recommendation that still counts as fresh describes the memory as it is,  *)
(* no basis is stored twice, no review reopens a memory, a fresh one is about  *)
(* a terminal memory and stays fresh under its policy, and the review file can *)
(* always be loaded again.                                                     *)
THEOREM ReviewsStayTrue == ReviewSpec => ReviewsAreTrue
  <1>1. ReviewInit => ReviewInv
    BY DEF ReviewInit, ReviewInv, ReviewTypeOK, RecommendationInv, OneRecommendationPerBasis, Reloads, Live
  <1>2. ReviewInv => FreshRecommendationIsTrue /\ OneRecommendationPerBasis /\ ReviewsNeverReopen /\ ReviewFileReloads
    <2> SUFFICES ASSUME ReviewInv PROVE FreshRecommendationIsTrue /\ OneRecommendationPerBasis /\ ReviewsNeverReopen /\ ReviewFileReloads
      OBVIOUS
    <2>1. FreshRecommendationIsTrue
      <3> SUFFICES ASSUME NEW i \in DOMAIN recommendations, FreshRecommendation(recommendations[i])
                   PROVE  LET r == recommendations[i]
                              s == authority[r.memory].state
                          IN  /\ s \in Live
                              /\ references[r.memory] = r.signals
                              /\ (r.decision = "retain_quarantine") <=> (s = "quarantined")
        BY DEF FreshRecommendationIsTrue
      <3>1. TrueOfItsRevision(recommendations[i])
        BY DEF ReviewInv, RecommendationInv
      <3> QED BY <3>1 DEF FreshRecommendation, TrueOfItsRevision
    <2>2. ReviewsNeverReopen
      BY DEF ReviewInv, Decided, ReviewsNeverReopen, FreshReview
    <2> QED BY <2>1, <2>2 DEF ReviewInv, RecommendationInv, ReviewFileReloads
  <1>3. ReviewSpec => []ReviewInv
    BY <1>1, ReviewStep, PTL DEF ReviewSpec
  <1> QED BY <1>2, <1>3, FreshStays, PTL DEF ReviewSpec, ReviewsAreTrue

-----------------------------------------------------------------------------
(* Captures. A handler carries what it has achieved from one await to the next *)
(* - the line in the inbox file, the Evidence, its place in the snapshot - and *)
(* nothing ever takes one of them back.                                        *)

Achieved(r) ==
  /\ r.pc \in {"none", "append", "project", "summarize", "read", "write"}
  /\ r.pc # "none" => r.ctx \in Contexts
  /\ r.pc \in {"project", "summarize", "read", "write"} => r.ctx \in inboxFile
  /\ r.pc \in {"summarize", "read", "write"} => Stored(r.ctx)
  /\ r.pc = "write" => r.ctx \in r.snapshot

CaptureRequest ==
  [pc : {"none", "append", "project", "summarize", "read", "write"},
   ctx : Contexts \cup {"none"}, snapshot : SUBSET Contexts]

CaptureInv ==
  /\ receipts \subseteq inboxFile
  /\ request \in [Handlers -> CaptureRequest]
  /\ \A h \in Handlers : Achieved(request[h])
  /\ evidence \in Seq([receipt : Contexts, case : CaseIds])
  /\ \A i \in DOMAIN evidence : evidence[i].case = CaseOf(evidence[i].receipt)
  /\ cases \in [CaseIds -> {"none", "draft", "archived"}]
  /\ acked \subseteq Contexts
  /\ CapturesAreKept

(* The inbox file and the Evidence only grow, and what was achieved stands.    *)
CaptureGrows ==
  /\ inboxFile \subseteq inboxFile'
  /\ \A c : Stored(c) => Stored(c)'

LEMMA AchievedStands ==
  ASSUME NEW r, Achieved(r), CaptureGrows
  PROVE  Achieved(r)'
  BY DEF Achieved, CaptureGrows

LEMMA RequestKept ==
  ASSUME CaptureInv, CaptureGrows, NEW h \in Handlers, NEW r \in CaptureRequest, Achieved(r)',
         request' = [request EXCEPT ![h] = r]
  PROVE  request' \in [Handlers -> CaptureRequest] /\ \A x \in Handlers : Achieved(request[x])'
  <1>1. request' \in [Handlers -> CaptureRequest]
    BY DEF CaptureInv
  <1>2. \A x \in Handlers : request'[x] = IF x = h THEN r ELSE request[x]
    BY DEF CaptureInv
  <1>3. \A x \in Handlers : Achieved(request[x])
    BY DEF CaptureInv
  <1>4. ASSUME NEW x \in Handlers PROVE Achieved(request[x])'
    <2>1. CASE x = h
      <3>1. request'[x] = r
        BY <1>2, <2>1
      <3> QED BY <3>1 DEF Achieved
    <2>2. CASE x # h
      <3>1. request'[x] = request[x] /\ Achieved(request[x])
        BY <1>2, <1>3, <2>2
      <3> QED BY <3>1 DEF Achieved, CaptureGrows
    <2> QED BY <2>1, <2>2
  <1> QED BY <1>1, <1>4

LEMMA CaptureGoto ==
  ASSUME CaptureInv, NEW h \in Handlers, NEW pc \in {"none", "append", "project", "summarize", "read", "write"},
         Goto(h, pc)
  PROVE  LET r == [pc |-> pc, ctx |-> request[h].ctx, snapshot |-> request[h].snapshot]
         IN  r \in CaptureRequest /\ request' = [request EXCEPT ![h] = r]
  <1>1. request[h] \in CaptureRequest
    BY DEF CaptureInv
  <1>2. [request[h] EXCEPT !.pc = pc] = [pc |-> pc, ctx |-> request[h].ctx, snapshot |-> request[h].snapshot]
    BY <1>1 DEF CaptureRequest
  <1>3. request' = [request EXCEPT ![h] = [request[h] EXCEPT !.pc = pc]]
    BY DEF Goto
  <1> QED BY <1>1, <1>2, <1>3 DEF CaptureRequest

LEMMA CaptureEnd ==
  ASSUME CaptureInv, CaptureGrows, NEW h \in Handlers, End(h)
  PROVE  request' \in [Handlers -> CaptureRequest] /\ \A x \in Handlers : Achieved(request[x])'
  <1>1. NoRequest \in CaptureRequest /\ Achieved(NoRequest)'
    BY DEF NoRequest, CaptureRequest, Achieved
  <1> QED BY <1>1, RequestKept DEF End

LEMMA SubmitKeeps ==
  ASSUME CaptureInv, NEW h \in Handlers, Submit(h)
  PROVE  CaptureInv'
  <1>1. PICK c \in Contexts : request' = [request EXCEPT ![h] =
               [pc |-> IF c \in receipts THEN "project" ELSE "append", ctx |-> c, snapshot |-> {}]]
    BY DEF Submit
  <1>2. UNCHANGED <<inboxFile, receipts, evidence, cases, evidenceNotes, acked>>
    BY DEF Submit, inboxVars, storeVars, vaultVars
  <1>r. PICK r : r = [pc |-> IF c \in receipts THEN "project" ELSE "append", ctx |-> c, snapshot |-> {}]
    OBVIOUS
  <1>3. CaptureGrows
    BY <1>2 DEF CaptureGrows, Stored
  <1>4. r \in CaptureRequest /\ Achieved(r)'
    BY <1>2, <1>r DEF CaptureInv, CaptureRequest, Achieved
  <1>5. request' \in [Handlers -> CaptureRequest] /\ \A x \in Handlers : Achieved(request[x])'
    BY <1>1, <1>3, <1>4, <1>r, RequestKept
  <1> QED BY <1>2, <1>5 DEF CaptureInv, CapturesAreKept, CaptureAckIsDurable, OneEvidencePerReceipt,
                           EvidenceHasOpenCase, Stored

LEMMA AppendLineKeeps ==
  ASSUME CaptureInv, NEW h \in Handlers, AppendLine(h)
  PROVE  CaptureInv'
  <1>1. UNCHANGED <<evidence, cases, evidenceNotes, acked>> /\ request[h].pc = "append"
    BY DEF AppendLine, storeVars, vaultVars
  <1>2. \/ /\ Goto(h, "project") /\ inboxFile' = inboxFile \cup {request[h].ctx}
           /\ receipts' = receipts \cup {request[h].ctx}
        \/ End(h) /\ UNCHANGED <<inboxFile, receipts>>
    BY DEF AppendLine
  <1>3. inboxFile \subseteq inboxFile' /\ receipts' \subseteq inboxFile'
    BY <1>2 DEF CaptureInv
  <1>4. CaptureGrows
    BY <1>1, <1>3 DEF CaptureGrows, Stored
  <1>5. request' \in [Handlers -> CaptureRequest] /\ \A x \in Handlers : Achieved(request[x])'
    <2>1. CASE End(h)
      BY <1>4, <2>1, CaptureEnd
    <2>2. CASE Goto(h, "project") /\ inboxFile' = inboxFile \cup {request[h].ctx}
      <3>r. PICK r : r = [pc |-> "project", ctx |-> request[h].ctx, snapshot |-> request[h].snapshot]
        OBVIOUS
      <3>1. r \in CaptureRequest /\ request' = [request EXCEPT ![h] = r]
        BY <2>2, <3>r, CaptureGoto
      <3>2. request[h].ctx \in Contexts
        BY <1>1 DEF CaptureInv, Achieved
      <3>3. Achieved(r)'
        BY <2>2, <3>2, <3>r DEF Achieved
      <3> QED BY <1>4, <3>1, <3>3, RequestKept
    <2> QED BY <1>2, <2>1, <2>2
  <1>6. CapturesAreKept'
    BY <1>1, <1>3 DEF CaptureInv, CapturesAreKept, CaptureAckIsDurable, OneEvidencePerReceipt,
                      EvidenceHasOpenCase, Stored
  <1> QED BY <1>1, <1>3, <1>5, <1>6 DEF CaptureInv

(* One projection: a fresh record under an open Case, or nothing.              *)
LEMMA EvidenceWritten ==
  ASSUME CaptureInv, NEW h \in Handlers, request[h].pc = "project",
         TakesEvidence(request[h].ctx), WriteEvidence(h),
         UNCHANGED <<inboxFile, receipts, evidenceNotes, acked>>
  PROVE  CaptureInv'
  <1>c. PICK c : c = request[h].ctx
    OBVIOUS
  <1>r. PICK r : r = [pc |-> "summarize", ctx |-> c, snapshot |-> request[h].snapshot]
    OBVIOUS
  <1> DEFINE new == [receipt |-> c, case |-> CaseOf(c)]
  <1>1. c \in Contexts /\ c \in inboxFile
    BY <1>c DEF CaptureInv, Achieved
  <1>2. CaseOf(c) \in CaseIds
    BY <1>1 DEF CaseIds
  <1>3. new \in [receipt : Contexts, case : CaseIds]
    BY <1>1, <1>2
  <1>4. evidence' = Append(evidence, new) /\ Goto(h, "summarize")
    BY <1>c DEF WriteEvidence, Projected
  <1>5. /\ evidence' \in Seq([receipt : Contexts, case : CaseIds])
        /\ DOMAIN evidence' = 1 .. Len(evidence) + 1 /\ DOMAIN evidence = 1 .. Len(evidence)
        /\ Len(evidence) \in Nat
        /\ \A i \in DOMAIN evidence' : evidence'[i] = IF i = Len(evidence) + 1 THEN new ELSE evidence[i]
    <2> HIDE DEF new
    <2>1. evidence \in Seq([receipt : Contexts, case : CaseIds])
      BY DEF CaptureInv
    <2> QED BY <1>3, <1>4, <2>1
  <1>6. ~Stored(c) /\ (Target[c] = "own" \/ cases[CaseOf(c)] = "draft")
    BY <1>c DEF TakesEvidence
  <1>7. /\ cases' \in [CaseIds -> {"none", "draft", "archived"}]
        /\ cases'[CaseOf(c)] = "draft"
        /\ \A k \in CaseIds : cases[k] = "draft" => cases'[k] = "draft"
    BY <1>2, <1>6, <1>c DEF WriteEvidence, CaptureInv, CaseOf, Own
  <1>8. new.receipt = c /\ new.case = CaseOf(c)
    OBVIOUS
  <1> HIDE DEF new
  <1>9. \A x : Stored(x) => Stored(x)'
    BY <1>5 DEF Stored
  <1>10. CaptureGrows
    BY <1>9 DEF CaptureGrows
  <1>11. Stored(c)'
    BY <1>5, <1>8 DEF Stored
  <1>12. request' \in [Handlers -> CaptureRequest] /\ \A x \in Handlers : Achieved(request[x])'
    <2>1. r \in CaptureRequest /\ request' = [request EXCEPT ![h] = r]
      BY <1>4, <1>c, <1>r, CaptureGoto
    <2>2. Achieved(r)'
      BY <1>1, <1>11, <1>r DEF Achieved
    <2> QED BY <1>10, <2>1, <2>2, RequestKept
  <1>13. \A i \in DOMAIN evidence' : evidence'[i].case = CaseOf(evidence'[i].receipt)
    BY <1>5, <1>8 DEF CaptureInv
  <1>14. EvidenceHasOpenCase'
    <2> SUFFICES ASSUME NEW i \in DOMAIN evidence' PROVE cases'[evidence'[i].case] = "draft"
      BY DEF EvidenceHasOpenCase
    <2>1. CASE i = Len(evidence) + 1
      BY <1>5, <1>7, <1>8, <2>1
    <2>2. CASE i # Len(evidence) + 1
      <3>1. i \in DOMAIN evidence /\ evidence'[i] = evidence[i]
        BY <1>5, <2>2
      <3>a. evidence[i] \in [receipt : Contexts, case : CaseIds]
        <4>1. evidence \in Seq([receipt : Contexts, case : CaseIds])
          BY DEF CaptureInv
        <4> QED BY <1>5, <3>1, <4>1, ElementOfSeq
      <3>2. evidence[i].case \in CaseIds /\ cases[evidence[i].case] = "draft"
        BY <3>1, <3>a DEF CaptureInv, CapturesAreKept, EvidenceHasOpenCase
      <3> QED BY <1>7, <3>1, <3>2
    <2> QED BY <2>1, <2>2
  <1>15. OneEvidencePerReceipt'
    <2>1. \A i \in DOMAIN evidence : evidence[i].receipt # c
      BY <1>6 DEF Stored
    <2> QED BY <1>5, <1>8, <2>1 DEF CaptureInv, CapturesAreKept, OneEvidencePerReceipt
  <1>16. CaptureAckIsDurable'
    BY <1>9 DEF CaptureInv, CapturesAreKept, CaptureAckIsDurable
  <1> QED BY <1>5, <1>7, <1>12, <1>13, <1>14, <1>15, <1>16 DEF CaptureInv, CapturesAreKept

LEMMA ProjectKeeps ==
  ASSUME CaptureInv, NEW h \in Handlers, Project(h)
  PROVE  CaptureInv'
  <1>1. UNCHANGED <<inboxFile, receipts, evidenceNotes, acked>> /\ request[h].pc = "project"
    BY DEF Project, inboxVars, vaultVars
  <1>2. CASE TakesEvidence(request[h].ctx) /\ WriteEvidence(h)
    BY <1>1, <1>2, EvidenceWritten
  <1>3. CASE /\ UNCHANGED <<evidence, cases>>
             /\ End(h) \/ (Goto(h, "summarize") /\ Stored(request[h].ctx))
    <2>1. CaptureGrows
      BY <1>1, <1>3 DEF CaptureGrows, Stored
    <2>2. request' \in [Handlers -> CaptureRequest] /\ \A x \in Handlers : Achieved(request[x])'
      <3>1. CASE End(h)
        BY <2>1, <3>1, CaptureEnd
      <3>2. CASE Goto(h, "summarize") /\ Stored(request[h].ctx)
        <4>c. PICK c : c = request[h].ctx
          OBVIOUS
        <4>r. PICK r : r = [pc |-> "summarize", ctx |-> c, snapshot |-> request[h].snapshot]
          OBVIOUS
        <4>1. r \in CaptureRequest /\ request' = [request EXCEPT ![h] = r]
          BY <3>2, <4>c, <4>r, CaptureGoto
        <4>2. c \in Contexts /\ c \in inboxFile /\ Stored(c)
          BY <1>1, <3>2, <4>c DEF CaptureInv, Achieved
        <4>3. Achieved(r)'
          BY <1>1, <2>1, <4>2, <4>r DEF Achieved, CaptureGrows
        <4> QED BY <2>1, <4>1, <4>3, RequestKept
      <3> QED BY <1>3, <3>1, <3>2
    <2> QED BY <1>1, <1>3, <2>2 DEF CaptureInv, CapturesAreKept, CaptureAckIsDurable, OneEvidencePerReceipt,
                                    EvidenceHasOpenCase, Stored
  <1> QED BY <1>2, <1>3 DEF Project

LEMMA SummarizeKeeps ==
  ASSUME CaptureInv, NEW h \in Handlers, Summarize(h)
  PROVE  CaptureInv'
  <1>1. /\ UNCHANGED <<inboxFile, receipts, evidence, cases, evidenceNotes, acked>>
        /\ request[h].pc = "summarize" /\ Goto(h, "read")
    BY DEF Summarize, inboxVars, vaultVars
  <1>2. CaptureGrows
    BY <1>1 DEF CaptureGrows, Stored
  <1>c. PICK c : c = request[h].ctx
    OBVIOUS
  <1>r. PICK r : r = [pc |-> "read", ctx |-> c, snapshot |-> request[h].snapshot]
    OBVIOUS
  <1>3. r \in CaptureRequest /\ request' = [request EXCEPT ![h] = r]
    BY <1>1, <1>c, <1>r, CaptureGoto
  <1>4. c \in Contexts /\ c \in inboxFile /\ Stored(c)
    BY <1>1, <1>c DEF CaptureInv, Achieved
  <1>5. Achieved(r)'
    BY <1>1, <1>2, <1>4, <1>r DEF Achieved, CaptureGrows
  <1>6. request' \in [Handlers -> CaptureRequest] /\ \A x \in Handlers : Achieved(request[x])'
    BY <1>2, <1>3, <1>5, RequestKept
  <1> QED BY <1>1, <1>6 DEF CaptureInv, CapturesAreKept, CaptureAckIsDurable, OneEvidencePerReceipt,
                            EvidenceHasOpenCase, Stored

LEMMA SyncReadKeeps ==
  ASSUME CaptureInv, NEW h \in Handlers, SyncRead(h)
  PROVE  CaptureInv'
  <1>c. PICK c : c = request[h].ctx
    OBVIOUS
  <1>r. PICK r : r = [pc |-> "write", ctx |-> c, snapshot |-> EvidenceOfCase(CaseOf(c))]
    OBVIOUS
  <1>1. /\ UNCHANGED <<inboxFile, receipts, evidence, cases, evidenceNotes, acked>>
        /\ request[h].pc = "read"
    BY DEF SyncRead, inboxVars, storeVars, vaultVars
  <1>2. CaptureGrows
    BY <1>1 DEF CaptureGrows, Stored
  <1>3. c \in Contexts /\ c \in inboxFile /\ Stored(c)
    BY <1>1, <1>c DEF CaptureInv, Achieved
  <1>4. EvidenceOfCase(CaseOf(c)) \subseteq Contexts /\ c \in EvidenceOfCase(CaseOf(c))
    BY <1>3 DEF CaptureInv, EvidenceOfCase, Stored
  <1>5. request' = [request EXCEPT ![h] = r]
    <2>1. request[h] \in CaptureRequest
      BY DEF CaptureInv
    <2>2. ASSUME NEW q \in CaptureRequest, NEW e \in SUBSET Contexts,
                 NEW f, f = [q EXCEPT !.pc = "write", !.snapshot = e]
          PROVE  f = [pc |-> "write", ctx |-> q.ctx, snapshot |-> e]
      BY <2>2 DEF CaptureRequest
    <2>3. request' = [request EXCEPT ![h] = [request[h] EXCEPT !.pc = "write",
                                                !.snapshot = EvidenceOfCase(CaseOf(c))]]
      BY <1>c DEF SyncRead, CaptureInv
    <2> QED BY <1>4, <1>c, <1>r, <2>1, <2>2, <2>3
  <1>6. r \in CaptureRequest
    BY <1>3, <1>4, <1>r DEF CaptureRequest
  <1>7. Achieved(r)'
    BY <1>1, <1>2, <1>3, <1>4, <1>r DEF Achieved, CaptureGrows
  <1>8. request' \in [Handlers -> CaptureRequest] /\ \A x \in Handlers : Achieved(request[x])'
    BY <1>2, <1>5, <1>6, <1>7, RequestKept
  <1> QED BY <1>1, <1>8 DEF CaptureInv, CapturesAreKept, CaptureAckIsDurable, OneEvidencePerReceipt,
                            EvidenceHasOpenCase, Stored

LEMMA SyncEndsKeeps ==
  ASSUME CaptureInv, NEW h \in Handlers, SyncWrite(h) \/ SyncFails(h)
  PROVE  CaptureInv'
  <1>1. /\ UNCHANGED <<inboxFile, receipts, evidence, cases>>
        /\ request[h].pc = "write" /\ End(h)
    BY DEF SyncWrite, SyncFails, inboxVars, storeVars
  <1>2. CaptureGrows
    BY <1>1 DEF CaptureGrows, Stored
  <1>3. request' \in [Handlers -> CaptureRequest] /\ \A x \in Handlers : Achieved(request[x])'
    BY <1>1, <1>2, CaptureEnd
  <1>4. /\ request[h].ctx \in Contexts /\ request[h].ctx \in inboxFile /\ Stored(request[h].ctx)
        /\ request[h].ctx \in request[h].snapshot
    BY <1>1 DEF CaptureInv, Achieved
  <1>5. /\ evidenceNotes \subseteq evidenceNotes'
        /\ \/ acked' = acked
           \/ acked' = acked \cup {request[h].ctx} /\ request[h].ctx \in evidenceNotes'
    BY <1>4 DEF SyncWrite, SyncFails
  <1>6. CaptureAckIsDurable' /\ acked' \subseteq Contexts
    BY <1>1, <1>2, <1>4, <1>5 DEF CaptureInv, CapturesAreKept, CaptureAckIsDurable, CaptureGrows
  <1> QED BY <1>1, <1>3, <1>6 DEF CaptureInv, CapturesAreKept, OneEvidencePerReceipt, EvidenceHasOpenCase

LEMMA RestartKeeps ==
  ASSUME CaptureInv, Restart
  PROVE  CaptureInv'
  <1>1. /\ UNCHANGED <<inboxFile, evidence, cases, evidenceNotes, acked>>
        /\ receipts' = inboxFile /\ request' = [h \in Handlers |-> NoRequest]
    BY DEF Restart, storeVars, vaultVars
  <1>2. request' \in [Handlers -> CaptureRequest] /\ \A x \in Handlers : Achieved(request[x])'
    BY <1>1 DEF NoRequest, CaptureRequest, Achieved
  <1> QED BY <1>1, <1>2 DEF CaptureInv, CapturesAreKept, CaptureAckIsDurable, OneEvidencePerReceipt,
                            EvidenceHasOpenCase, Stored

(* An acknowledged capture is in the inbox file, in the Evidence and in the    *)
(* vault, no capture is counted twice, and all Evidence lies under an open     *)
(* Case, for any number of captures and handlers: PageContextInbox, the        *)
(* projector's transaction and the vault's notes, with an await between every  *)
(* two of them.                                                                *)
THEOREM CapturesStayKept == CaptureSpec => []CapturesAreKept
  <1>1. CaptureInit => CaptureInv
    BY DEF CaptureInit, CaptureInv, CapturesAreKept, CaptureAckIsDurable, OneEvidencePerReceipt,
           EvidenceHasOpenCase, NoRequest, CaptureRequest, Achieved, CaseIds
  <1>2. CaptureInv /\ [CaptureNext]_captureVars => CaptureInv'
    <2> SUFFICES ASSUME CaptureInv, [CaptureNext]_captureVars PROVE CaptureInv'
      OBVIOUS
    <2>1. CASE UNCHANGED captureVars
      BY <2>1 DEF captureVars, inboxVars, storeVars, vaultVars, CaptureInv, CapturesAreKept, CaptureAckIsDurable,
                  OneEvidencePerReceipt, EvidenceHasOpenCase, Stored, Achieved
    <2> QED BY <2>1, SubmitKeeps, AppendLineKeeps, ProjectKeeps, SummarizeKeeps, SyncReadKeeps, SyncEndsKeeps,
               RestartKeeps DEF CaptureNext, Handle
  <1>3. CaptureInv => CapturesAreKept
    BY DEF CaptureInv
  <1> QED BY <1>1, <1>2, <1>3, PTL DEF CaptureSpec

-----------------------------------------------------------------------------
(* The development orchestrator. One process at a time decides and writes, so  *)
(* what it decided on still holds before each of its writes; and each prefix   *)
(* of its writes leaves files that keep the promises, wherever it breaks off.  *)

DevStatus == {"pending", "active", "review", "blocked", "completed"}
DevReport == [status : {"none", "completed", "blocked", "failed"}, commit : Commits \cup {0}, round : Nat]
DevDecision == [decision : {"none", "APPROVED", "CORRECTIONS_REQUIRED"}, commit : Commits \cup {0}, founder : BOOLEAN]
DevWrite == [file : {"new", "task", "rename", "hermes", "cto"}, task : DevTaskIds,
             to : DevStatus \cup DevReport \cup DevDecision]

DevTypeOK ==
  /\ taskFiles \in [DevTaskIds -> [dir : DevStatus \cup {"none"}, status : DevStatus \cup {"none"}]]
  /\ hermesReport \in [DevTaskIds -> DevReport]
  /\ ctoReport \in [DevTaskIds -> DevDecision]
  /\ round \in [DevTaskIds -> Nat]
  /\ shell \in [Shells -> {Prompt} \cup [name : {"locked"}, command : DevCommands]
                                   \cup [name : {"writing"}, todo : Seq(DevWrite)]]

NoOtherActive(t) == \A u \in DevTaskIds \ {t} : taskFiles[u].status # "active"
ReportIsCurrent(t) == hermesReport[t].status = "completed" /\ hermesReport[t].round = round[t]
Approves(d, t) ==
  /\ d.decision = "APPROVED" /\ d.commit = hermesReport[t].commit
  /\ t \in FounderTasks => d.founder

(* What may stand in a task's file, given what is on file beside it.           *)
MayBecome(t, status) ==
  /\ status = "active" => NoOtherActive(t)
  /\ status = "review" => ReportIsCurrent(t)
  /\ status = "completed" => ReportIsCurrent(t) /\ Approves(ctoReport[t], t)

(* The writes a command has left, and what they rest on.                       *)
Planned(todo) ==
  \/ todo = <<>>
  \/ \E t \in DevTaskIds : todo = <<[file |-> "new", task |-> t, to |-> "pending"]>>
  \/ \E t \in DevTaskIds, x \in DevStatus : todo = <<Move(t, x)>>
  \/ \E t \in DevTaskIds, x \in DevStatus : todo = moveTo(t, x) /\ MayBecome(t, x)
  \/ \E t \in DevTaskIds, x \in {"review", "blocked"}, r \in DevReport :
       /\ todo = <<SaveReport(t, r), Rewrite(t, x), Move(t, x)>>
       /\ taskFiles[t].status = "active" /\ r.round = round[t]
       /\ x = "review" => r.status = "completed"
  \/ \E t \in DevTaskIds, x \in {"active", "completed"}, d \in DevDecision :
       /\ todo = <<SaveDecision(t, d), Rewrite(t, x), Move(t, x)>>
       /\ taskFiles[t].status = "review"
       /\ x = "active" => NoOtherActive(t)
       /\ x = "completed" => ReportIsCurrent(t) /\ Approves(d, t)

DevInv ==
  /\ DevTypeOK /\ DevTasksAreVerified
  /\ \A s \in Shells : /\ shell[s] # Prompt => mutex = s
                       /\ shell[s].name = "writing" => Planned(shell[s].todo)

LEMMA ShortLists ==
  ASSUME NEW a, NEW b, NEW c
  PROVE  /\ Head(<<a>>) = a /\ Tail(<<a>>) = <<>>
         /\ Head(<<a, b>>) = a /\ Tail(<<a, b>>) = <<b>>
         /\ Head(<<a, b, c>>) = a /\ Tail(<<a, b, c>>) = <<b, c>>
         /\ <<a>> \o <<b, c>> = <<a, b, c>>
  <1> DEFINE S == {a, b, c}
  <1>1. <<a>> \in Seq(S) /\ <<b, c>> \in Seq(S) /\ <<a, b, c>> \in Seq(S)
    OBVIOUS
  <1>2. Len(<<a>>) = 1 /\ Len(<<b, c>>) = 2 /\ Len(<<a, b, c>>) = 3
    OBVIOUS
  <1>3. <<a>> \o <<b, c>> \in Seq(S) /\ Len(<<a>> \o <<b, c>>) = 3
    BY <1>1, <1>2, ConcatProperties
  <1>4. \A i \in 1..3 : (<<a>> \o <<b, c>>)[i] = (<<a, b, c>>)[i]
    BY <1>1, <1>2, ConcatProperties
  <1>5. <<a>> \o <<b, c>> = <<a, b, c>>
    BY <1>1, <1>2, <1>3, <1>4, SeqEqual
  <1>6. Head(<<a>>) = a /\ Head(<<a, b>>) = a /\ Head(<<a, b, c>>) = a
    OBVIOUS
  <1>7. Tail(<<a>>) = <<>> /\ Tail(<<a, b>>) = <<b>> /\ Tail(<<a, b, c>>) = <<b, c>>
    OBVIOUS
  <1> QED BY <1>5, <1>6, <1>7

LEMMA DevWriteType ==
  ASSUME NEW t \in DevTaskIds, NEW x \in DevStatus, NEW r \in DevReport, NEW d \in DevDecision
  PROVE  /\ Rewrite(t, x) \in DevWrite /\ Move(t, x) \in DevWrite
         /\ SaveReport(t, r) \in DevWrite /\ SaveDecision(t, d) \in DevWrite
         /\ [file |-> "new", task |-> t, to |-> "pending"] \in DevWrite
  BY DEF Rewrite, Move, SaveReport, SaveDecision, DevWrite, DevStatus

LEMMA PlannedType ==
  ASSUME NEW todo, Planned(todo)
  PROVE  todo \in Seq(DevWrite)
  <1>0. "pending" \in DevStatus /\ "review" \in DevStatus /\ "blocked" \in DevStatus
        /\ "active" \in DevStatus /\ "completed" \in DevStatus
    BY DEF DevStatus
  <1>1. \A a, b, c \in DevWrite : <<a>> \in Seq(DevWrite) /\ <<a, b>> \in Seq(DevWrite)
                                  /\ <<a, b, c>> \in Seq(DevWrite) /\ <<>> \in Seq(DevWrite)
    OBVIOUS
  <1>2. CASE todo = <<>>
    BY <1>2
  <1>3. CASE \E t \in DevTaskIds : todo = <<[file |-> "new", task |-> t, to |-> "pending"]>>
    BY <1>0, <1>1, <1>3 DEF DevWrite
  <1>4. CASE \E t \in DevTaskIds, x \in DevStatus : todo = <<Move(t, x)>> \/ todo = moveTo(t, x)
    <2>1. \A t \in DevTaskIds, x \in DevStatus : Move(t, x) \in DevWrite /\ Rewrite(t, x) \in DevWrite
      BY DEF Rewrite, Move, DevWrite
    <2> QED BY <1>1, <1>4, <2>1 DEF moveTo
  <1>5. CASE \E t \in DevTaskIds, x \in DevStatus, r \in DevReport :
               todo = <<SaveReport(t, r), Rewrite(t, x), Move(t, x)>>
    <2>1. \A t \in DevTaskIds, x \in DevStatus, r \in DevReport :
             Move(t, x) \in DevWrite /\ Rewrite(t, x) \in DevWrite /\ SaveReport(t, r) \in DevWrite
      BY DEF Rewrite, Move, SaveReport, DevWrite
    <2> QED BY <1>1, <1>5, <2>1
  <1>6. CASE \E t \in DevTaskIds, x \in DevStatus, d \in DevDecision :
               todo = <<SaveDecision(t, d), Rewrite(t, x), Move(t, x)>>
    <2>1. \A t \in DevTaskIds, x \in DevStatus, d \in DevDecision :
             Move(t, x) \in DevWrite /\ Rewrite(t, x) \in DevWrite /\ SaveDecision(t, d) \in DevWrite
      BY DEF Rewrite, Move, SaveDecision, DevWrite
    <2> QED BY <1>1, <1>6, <2>1
  <1> QED BY <1>0, <1>2, <1>3, <1>4, <1>5, <1>6 DEF Planned

(* What a command decides, on a store it has just read.                        *)
LEMMA WritesArePlanned ==
  ASSUME DevInv, NEW c \in DevCommands
  PROVE  Planned(WritesOf(c))
  <1> DEFINE t == c.task
  <1>1. t \in DevTaskIds
    BY DEF DevCommands
  <1>2. /\ c.name \in {"create", "activate", "retry", "reject", "report", "approve"}
        /\ c.name = "report" => /\ c.status \in {"completed", "blocked", "failed"} /\ c.commit \in Commits
        /\ c.name = "approve" => c.head \in Commits /\ c.founder \in BOOLEAN
    BY DEF DevCommands
  <1>3. CASE ~Readable
    BY <1>3 DEF WritesOf, Planned
  <1>4. CASE Readable
    <2>1. taskFiles[t].dir = taskFiles[t].status
      BY <1>1, <1>4 DEF Readable
    <2>2. CASE c.name = "create"
      <3>1. WritesOf(c) = create(c)
        BY <1>4, <2>2 DEF WritesOf
      <3> QED BY <1>1, <3>1 DEF create, Planned
    <2>3. CASE c.name = "activate"
      <3>1. WritesOf(c) = activate(c)
        BY <1>4, <2>3 DEF WritesOf
      <3>2. transitionTask(t, "active") => MayBecome(t, "active")
        BY <1>1 DEF transitionTask, MayBecome, NoOtherActive
      <3> QED BY <1>1, <3>1, <3>2 DEF activate, Planned, DevStatus
    <2>4. CASE c.name = "report"
      <3>1. WritesOf(c) = report(c)
        BY <1>4, <2>4 DEF WritesOf
      <3> DEFINE r == [status |-> c.status, commit |-> c.commit, round |-> round[t]]
                 x == IF c.status = "completed" THEN "review" ELSE "blocked"
      <3>2. CASE Lies(t, "active") /\ validateExecutionReport(c)
        <4>1. r \in DevReport /\ r.round = round[t] /\ r.status = c.status
          BY <1>1, <1>2, <2>4 DEF DevInv, DevTypeOK, DevReport
        <4>2. report(c) = <<SaveReport(t, r), Rewrite(t, x), Move(t, x)>>
          <5>1. report(c) = <<SaveReport(t, r)>> \o moveTo(t, x)
            BY <3>2 DEF report
          <5>2. moveTo(t, x) = <<Rewrite(t, x), Move(t, x)>>
            BY DEF moveTo
          <5>3. \A u, v, y : <<u>> \o <<v, y>> = <<u, v, y>>
            BY ShortLists
          <5> HIDE DEF r, x
          <5> QED BY <5>1, <5>2, <5>3
        <4>3. x \in {"review", "blocked"} /\ (x = "review" => c.status = "completed")
          OBVIOUS
        <4>4. taskFiles[t].status = "active"
          BY <2>1, <3>2 DEF Lies
        <4> HIDE DEF r, x
        <4> QED BY <1>1, <3>1, <4>1, <4>2, <4>3, <4>4 DEF Planned
      <3>3. CASE ~(Lies(t, "active") /\ validateExecutionReport(c))
        BY <3>1, <3>3 DEF report, Planned
      <3> QED BY <3>2, <3>3
    <2>5. CASE c.name = "retry"
      <3>1. WritesOf(c) = retry(c)
        BY <1>4, <2>5 DEF WritesOf
      <3> QED BY <1>1, <3>1 DEF retry, Planned, DevStatus, MayBecome
    <2>6. CASE c.name = "approve"
      <3>1. WritesOf(c) = approve(c)
        BY <1>4, <2>6 DEF WritesOf
      <3> DEFINE d == [decision |-> "APPROVED", commit |-> c.head, founder |-> c.founder]
      <3>2. CASE /\ Lies(t, "review") /\ (t \in FounderTasks => c.founder)
                 /\ evaluateGitEvidence(t, c) = "APPROVED"
        <4>1. d \in DevDecision /\ d.decision = "APPROVED" /\ d.commit = c.head /\ d.founder = c.founder
          BY <1>2, <2>6 DEF DevDecision
        <4>2. approve(c) = <<SaveDecision(t, d), Rewrite(t, "completed"), Move(t, "completed")>>
          <5>1. approve(c) = <<SaveDecision(t, d)>> \o moveTo(t, "completed")
            BY <3>2 DEF approve
          <5> HIDE DEF d
          <5> QED BY <5>1, ShortLists DEF moveTo
        <4>3. taskFiles[t].status = "review"
          BY <2>1, <3>2 DEF Lies
        <4>4. ReportIsCurrent(t)
          BY <1>1, <4>3 DEF DevInv, DevTasksAreVerified, ReviewHasItsReport, ReportIsCurrent
        <4>5. c.head = hermesReport[t].commit
          BY <3>2 DEF evaluateGitEvidence
        <4>6. Approves(d, t)
          BY <3>2, <4>1, <4>5 DEF Approves
        <4> HIDE DEF d
        <4> QED BY <1>1, <3>1, <4>1, <4>2, <4>3, <4>4, <4>6 DEF Planned
      <3>3. CASE ~(/\ Lies(t, "review") /\ (t \in FounderTasks => c.founder)
                   /\ evaluateGitEvidence(t, c) = "APPROVED")
        BY <3>1, <3>3 DEF approve, Planned
      <3> QED BY <3>2, <3>3
    <2>7. CASE c.name = "reject"
      <3>1. WritesOf(c) = reject(c)
        BY <1>4, <2>7 DEF WritesOf
      <3> DEFINE d == [NoDecision EXCEPT !.decision = "CORRECTIONS_REQUIRED"]
      <3>2. CASE Lies(t, "review") /\ transitionTask(t, "active")
        <4>1. d \in DevDecision
          BY DEF DevDecision, NoDecision
        <4>2. reject(c) = <<SaveDecision(t, d), Rewrite(t, "active"), Move(t, "active")>>
          BY <3>2, ShortLists DEF reject, moveTo
        <4>3. taskFiles[t].status = "review" /\ NoOtherActive(t)
          BY <2>1, <3>2 DEF Lies, transitionTask, NoOtherActive
        <4> HIDE DEF d
        <4> QED BY <1>1, <3>1, <4>1, <4>2, <4>3 DEF Planned
      <3>3. CASE ~(Lies(t, "review") /\ transitionTask(t, "active"))
        BY <3>1, <3>3 DEF reject, Planned
      <3> QED BY <3>2, <3>3
    <2> QED BY <1>2, <2>2, <2>3, <2>4, <2>5, <2>6, <2>7
  <1> QED BY <1>3, <1>4

(* The lock's holder is the only process that runs a command.                  *)
LEMMA ShellsKept ==
  ASSUME DevInv, NEW s \in Shells, shell[s] # Prompt, NEW x, shell' = [shell EXCEPT ![s] = x],
         mutex' = mutex, x.name = "writing" => Planned(x.todo)'
  PROVE  \A q \in Shells : /\ shell'[q] # Prompt => mutex' = q
                           /\ shell'[q].name = "writing" => Planned(shell[q].todo)'
  <1>1. mutex = s /\ \A q \in Shells \ {s} : shell[q] = Prompt
    BY DEF DevInv
  <1>2. \A q \in Shells : shell'[q] = IF q = s THEN x ELSE shell[q]
    BY DEF DevInv, DevTypeOK
  <1>3. ASSUME NEW q \in Shells \ {s} PROVE shell'[q] = Prompt /\ shell'[q].name # "writing"
    BY <1>1, <1>2 DEF Prompt
  <1>4. shell'[s] = x
    BY <1>2
  <1>5. shell'[s].name = "writing" => Planned(shell[s].todo)'
    <2>1. ASSUME Planned(x.todo)' PROVE Planned(shell[s].todo)'
      BY <1>4, <2>1 DEF Planned
    <2> QED BY <1>4, <2>1
  <1> QED BY <1>1, <1>3, <1>5

(* The five writes, each on the plan it belongs to.                            *)
LEMMA NewFileKeeps ==
  ASSUME DevInv, NEW t \in DevTaskIds,
         taskFiles' = [taskFiles EXCEPT ![t] = [dir |-> "pending", status |-> "pending"]],
         UNCHANGED <<hermesReport, ctoReport, round>>
  PROVE  DevTasksAreVerified' /\
         taskFiles' \in [DevTaskIds -> [dir : DevStatus \cup {"none"}, status : DevStatus \cup {"none"}]]
  <1>1. \A u \in DevTaskIds : taskFiles'[u] = IF u = t THEN [dir |-> "pending", status |-> "pending"]
                                              ELSE taskFiles[u]
    BY DEF DevInv, DevTypeOK
  <1>2. taskFiles' \in [DevTaskIds -> [dir : DevStatus \cup {"none"}, status : DevStatus \cup {"none"}]]
    BY DEF DevInv, DevTypeOK, DevStatus
  <1>3. OneActiveTask' /\ ReviewHasItsReport' /\ CompletedWasVerified'
    BY <1>1 DEF DevInv, DevTasksAreVerified, OneActiveTask, ReviewHasItsReport, CompletedWasVerified
  <1> QED BY <1>2, <1>3 DEF DevTasksAreVerified

(* Changing one field of one task file leaves the files well formed.           *)
LEMMA OneTaskFile ==
  ASSUME DevInv, NEW t \in DevTaskIds, NEW x \in DevStatus, NEW f,
         \/ f = [taskFiles EXCEPT ![t].dir = x]
         \/ f = [taskFiles EXCEPT ![t].status = x]
  PROVE  /\ f \in [DevTaskIds -> [dir : DevStatus \cup {"none"}, status : DevStatus \cup {"none"}]]
         /\ \A u \in DevTaskIds \ {t} : f[u] = taskFiles[u]
         /\ f = [taskFiles EXCEPT ![t].dir = x] => f[t].status = taskFiles[t].status
         /\ f = [taskFiles EXCEPT ![t].status = x] => f[t].status = x
  <1> DEFINE File == [dir : DevStatus \cup {"none"}, status : DevStatus \cup {"none"}]
  <1>1. taskFiles \in [DevTaskIds -> File]
    BY DEF DevInv, DevTypeOK
  <1>2. PICK file \in File : file = taskFiles[t]
    BY <1>1
  <1>3. PICK dirIs : dirIs = [file EXCEPT !.dir = x]
    OBVIOUS
  <1>4. PICK statusIs : statusIs = [file EXCEPT !.status = x]
    OBVIOUS
  <1>5. dirIs \in File /\ dirIs.status = file.status /\ statusIs \in File /\ statusIs.status = x
    BY <1>3, <1>4
  <1> HIDE DEF File
  <1>6. CASE f = [taskFiles EXCEPT ![t].dir = x]
    <2>1. f = [taskFiles EXCEPT ![t] = dirIs]
      BY <1>2, <1>3, <1>6
    <2>2. f \in [DevTaskIds -> File] /\ f[t] = dirIs /\ \A u \in DevTaskIds \ {t} : f[u] = taskFiles[u]
      BY <1>1, <1>5, <2>1
    <2>3. f = [taskFiles EXCEPT ![t].status = x] => f[t] = statusIs
      BY <1>1, <1>2, <1>4
    <2> QED BY <1>2, <1>5, <2>2, <2>3 DEF File
  <1>7. CASE f = [taskFiles EXCEPT ![t].status = x]
    <2>1. f = [taskFiles EXCEPT ![t] = statusIs]
      BY <1>2, <1>4, <1>7
    <2>2. f \in [DevTaskIds -> File] /\ f[t] = statusIs /\ \A u \in DevTaskIds \ {t} : f[u] = taskFiles[u]
      BY <1>1, <1>5, <2>1
    <2>3. f = [taskFiles EXCEPT ![t].dir = x] => f[t] = dirIs
      BY <1>1, <1>2, <1>3
    <2> QED BY <1>2, <1>5, <2>2, <2>3 DEF File
  <1> QED BY <1>6, <1>7

LEMMA MoveKeeps ==
  ASSUME DevInv, NEW t \in DevTaskIds, NEW x \in DevStatus,
         taskFiles' = [taskFiles EXCEPT ![t].dir = x],
         UNCHANGED <<hermesReport, ctoReport, round>>
  PROVE  DevTasksAreVerified' /\
         taskFiles' \in [DevTaskIds -> [dir : DevStatus \cup {"none"}, status : DevStatus \cup {"none"}]]
  <1>0. PICK f : f = taskFiles'
    OBVIOUS
  <1>1. \A u \in DevTaskIds : taskFiles'[u].status = taskFiles[u].status
    BY <1>0, OneTaskFile
  <1>2. taskFiles' \in [DevTaskIds -> [dir : DevStatus \cup {"none"}, status : DevStatus \cup {"none"}]]
    BY <1>0, OneTaskFile
  <1>3. OneActiveTask' /\ ReviewHasItsReport' /\ CompletedWasVerified'
    BY <1>1 DEF DevInv, DevTasksAreVerified, OneActiveTask, ReviewHasItsReport, CompletedWasVerified
  <1> QED BY <1>2, <1>3 DEF DevTasksAreVerified

LEMMA RewriteKeeps ==
  ASSUME DevInv, NEW t \in DevTaskIds, NEW x \in DevStatus, MayBecome(t, x),
         taskFiles' = [taskFiles EXCEPT ![t].status = x],
         round' = IF x = "active" THEN [round EXCEPT ![t] = round[t] + 1] ELSE round,
         UNCHANGED <<hermesReport, ctoReport>>
  PROVE  /\ DevTasksAreVerified' /\ round' \in [DevTaskIds -> Nat]
         /\ taskFiles' \in [DevTaskIds -> [dir : DevStatus \cup {"none"}, status : DevStatus \cup {"none"}]]
  <1>0. PICK f : f = taskFiles'
    OBVIOUS
  <1>1. \A u \in DevTaskIds : taskFiles'[u].status = IF u = t THEN x ELSE taskFiles[u].status
    BY <1>0, OneTaskFile
  <1>2. taskFiles' \in [DevTaskIds -> [dir : DevStatus \cup {"none"}, status : DevStatus \cup {"none"}]]
    BY <1>0, OneTaskFile
  <1>3. round' \in [DevTaskIds -> Nat] /\ \A u \in DevTaskIds : u # t \/ x # "active" => round'[u] = round[u]
    BY DEF DevInv, DevTypeOK
  <1>4. OneActiveTask'
    BY <1>1 DEF DevInv, DevTasksAreVerified, OneActiveTask, MayBecome, NoOtherActive
  <1>5. ReviewHasItsReport'
    BY <1>1, <1>3 DEF DevInv, DevTasksAreVerified, ReviewHasItsReport, MayBecome, ReportIsCurrent
  <1>6. CompletedWasVerified'
    BY <1>1, <1>3 DEF DevInv, DevTasksAreVerified, CompletedWasVerified, MayBecome, ReportIsCurrent, Approves
  <1> QED BY <1>2, <1>3, <1>4, <1>5, <1>6 DEF DevTasksAreVerified

LEMMA SaveReportKeeps ==
  ASSUME DevInv, NEW t \in DevTaskIds, NEW x \in {"review", "blocked"}, NEW r \in DevReport,
         taskFiles[t].status = "active", r.round = round[t], x = "review" => r.status = "completed",
         hermesReport' = [hermesReport EXCEPT ![t] = r],
         UNCHANGED <<taskFiles, ctoReport, round>>
  PROVE  DevTasksAreVerified' /\ hermesReport' \in [DevTaskIds -> DevReport] /\ MayBecome(t, x)'
  <1>1. /\ hermesReport' \in [DevTaskIds -> DevReport]
        /\ \A u \in DevTaskIds : hermesReport'[u] = IF u = t THEN r ELSE hermesReport[u]
    BY DEF DevInv, DevTypeOK
  <1>2. OneActiveTask' /\ ReviewHasItsReport' /\ CompletedWasVerified'
    BY <1>1 DEF DevInv, DevTasksAreVerified, OneActiveTask, ReviewHasItsReport, CompletedWasVerified
  <1>3. MayBecome(t, x)'
    BY <1>1 DEF MayBecome, ReportIsCurrent
  <1> QED BY <1>1, <1>2, <1>3 DEF DevTasksAreVerified

LEMMA SaveDecisionKeeps ==
  ASSUME DevInv, NEW t \in DevTaskIds, NEW x \in {"active", "completed"}, NEW d \in DevDecision,
         taskFiles[t].status = "review", x = "active" => NoOtherActive(t),
         x = "completed" => ReportIsCurrent(t) /\ Approves(d, t),
         ctoReport' = [ctoReport EXCEPT ![t] = d],
         UNCHANGED <<taskFiles, hermesReport, round>>
  PROVE  DevTasksAreVerified' /\ ctoReport' \in [DevTaskIds -> DevDecision] /\ MayBecome(t, x)'
  <1>1. /\ ctoReport' \in [DevTaskIds -> DevDecision]
        /\ \A u \in DevTaskIds : ctoReport'[u] = IF u = t THEN d ELSE ctoReport[u]
    BY DEF DevInv, DevTypeOK
  <1>2. OneActiveTask' /\ ReviewHasItsReport' /\ CompletedWasVerified'
    BY <1>1 DEF DevInv, DevTasksAreVerified, OneActiveTask, ReviewHasItsReport, CompletedWasVerified
  <1>3. MayBecome(t, x)'
    BY <1>1 DEF MayBecome, ReportIsCurrent, NoOtherActive, Approves
  <1> QED BY <1>1, <1>2, <1>3 DEF DevTasksAreVerified

LEMMA WriteNextKeeps ==
  ASSUME DevInv, NEW s \in Shells, WriteNext(s)
  PROVE  DevInv'
  <1>t. PICK todo : todo = shell[s].todo
    OBVIOUS
  <1>x. PICK x : x = [name |-> "writing", todo |-> Tail(todo)]
    OBVIOUS
  <1>1. shell[s].name = "writing" /\ todo # <<>> /\ mutex' = mutex
    BY <1>t DEF WriteNext
  <1>2. shell[s] # Prompt /\ shell[s] \in [name : {"writing"}, todo : Seq(DevWrite)]
    BY <1>1 DEF DevInv, DevTypeOK, Prompt
  <1>3. todo \in Seq(DevWrite) /\ Tail(todo) \in Seq(DevWrite)
    BY <1>1, <1>2, <1>t
  <1>4. x \in [name : {"writing"}, todo : Seq(DevWrite)] /\ x.name = "writing" /\ x.todo = Tail(todo)
    BY <1>3, <1>x
  <1>5. shell' = [shell EXCEPT ![s] = x]
    <2>1. shell' = [shell EXCEPT ![s] = [shell[s] EXCEPT !.todo = Tail(shell[s].todo)]]
      BY DEF WriteNext
    <2>2. PICK f : f = [shell[s] EXCEPT !.todo = Tail(shell[s].todo)]
      OBVIOUS
    <2>3. f = [name |-> "writing", todo |-> Tail(shell[s].todo)]
      BY <1>2, <2>2
    <2> QED BY <1>t, <1>x, <2>1, <2>2, <2>3
  <1>6. shell' \in [Shells -> {Prompt} \cup [name : {"locked"}, command : DevCommands]
                                       \cup [name : {"writing"}, todo : Seq(DevWrite)]]
    BY <1>4, <1>5 DEF DevInv, DevTypeOK
  <1>7. SUFFICES /\ DevTasksAreVerified' /\ Planned(Tail(todo))'
                 /\ taskFiles' \in [DevTaskIds -> [dir : DevStatus \cup {"none"}, status : DevStatus \cup {"none"}]]
                 /\ hermesReport' \in [DevTaskIds -> DevReport] /\ ctoReport' \in [DevTaskIds -> DevDecision]
                 /\ round' \in [DevTaskIds -> Nat]
    <2>1. Planned(x.todo)'
      BY <1>4, <1>7 DEF Planned
    <2> QED BY <1>1, <1>2, <1>5, <1>6, <1>7, <2>1, ShellsKept DEF DevInv, DevTypeOK
  <1> DEFINE w == Head(todo)
  <1>8. /\ taskFiles' = CASE w.file = "new" -> [taskFiles EXCEPT ![w.task] = [dir |-> w.to, status |-> w.to]]
                          [] w.file = "task" -> [taskFiles EXCEPT ![w.task].status = w.to]
                          [] w.file = "rename" -> [taskFiles EXCEPT ![w.task].dir = w.to]
                          [] OTHER -> taskFiles
        /\ hermesReport' = IF w.file = "hermes" THEN [hermesReport EXCEPT ![w.task] = w.to] ELSE hermesReport
        /\ ctoReport' = IF w.file = "cto" THEN [ctoReport EXCEPT ![w.task] = w.to] ELSE ctoReport
        /\ round' = IF w.file = "task" /\ w.to = "active" THEN [round EXCEPT ![w.task] = round[w.task] + 1] ELSE round
    BY <1>t DEF WriteNext
  <1>9. Planned(todo)
    BY <1>1, <1>t DEF DevInv
  <1>10. DevTypeOK
    BY DEF DevInv
  <1>11. CASE \E t \in DevTaskIds : todo = <<[file |-> "new", task |-> t, to |-> "pending"]>>
    <2>1. PICK t \in DevTaskIds : todo = <<[file |-> "new", task |-> t, to |-> "pending"]>>
      BY <1>11
    <2>2. w.file = "new" /\ w.task = t /\ w.to = "pending" /\ Tail(todo) = <<>>
      BY <2>1, ShortLists
    <2> HIDE DEF w
    <2>3. /\ taskFiles' = [taskFiles EXCEPT ![t] = [dir |-> "pending", status |-> "pending"]]
          /\ UNCHANGED <<hermesReport, ctoReport, round>>
      BY <1>8, <2>2
    <2>4. Planned(Tail(todo))'
      BY <2>2 DEF Planned
    <2> QED BY <1>10, <2>3, <2>4, NewFileKeeps DEF DevTypeOK
  <1>12. CASE \E t \in DevTaskIds, y \in DevStatus : todo = <<Move(t, y)>>
    <2>1. PICK t \in DevTaskIds, y \in DevStatus : todo = <<Move(t, y)>>
      BY <1>12
    <2>2. w.file = "rename" /\ w.task = t /\ w.to = y /\ Tail(todo) = <<>>
      BY <2>1, ShortLists DEF Move
    <2> HIDE DEF w
    <2>3. taskFiles' = [taskFiles EXCEPT ![t].dir = y] /\ UNCHANGED <<hermesReport, ctoReport, round>>
      BY <1>8, <2>2
    <2>4. Planned(Tail(todo))'
      BY <2>2 DEF Planned
    <2> QED BY <1>10, <2>3, <2>4, MoveKeeps DEF DevTypeOK
  <1>13. CASE \E t \in DevTaskIds, y \in DevStatus : todo = moveTo(t, y) /\ MayBecome(t, y)
    <2>1. PICK t \in DevTaskIds, y \in DevStatus : todo = moveTo(t, y) /\ MayBecome(t, y)
      BY <1>13
    <2>2. w.file = "task" /\ w.task = t /\ w.to = y /\ Tail(todo) = <<Move(t, y)>>
      BY <2>1, ShortLists DEF Rewrite, moveTo
    <2> HIDE DEF w
    <2>3. /\ taskFiles' = [taskFiles EXCEPT ![t].status = y] /\ UNCHANGED <<hermesReport, ctoReport>>
          /\ round' = IF y = "active" THEN [round EXCEPT ![t] = round[t] + 1] ELSE round
      BY <1>8, <2>2
    <2>4. Planned(Tail(todo))'
      BY <2>2 DEF Planned
    <2> QED BY <1>10, <2>1, <2>3, <2>4, RewriteKeeps DEF DevTypeOK
  <1>14. CASE \E t \in DevTaskIds, y \in {"review", "blocked"}, r \in DevReport :
                /\ todo = <<SaveReport(t, r), Rewrite(t, y), Move(t, y)>>
                /\ taskFiles[t].status = "active" /\ r.round = round[t]
                /\ y = "review" => r.status = "completed"
    <2>1. PICK t \in DevTaskIds, y \in {"review", "blocked"}, r \in DevReport :
                /\ todo = <<SaveReport(t, r), Rewrite(t, y), Move(t, y)>>
                /\ taskFiles[t].status = "active" /\ r.round = round[t]
                /\ y = "review" => r.status = "completed"
      BY <1>14
    <2>2. w.file = "hermes" /\ w.task = t /\ w.to = r /\ Tail(todo) = moveTo(t, y)
      BY <2>1, ShortLists DEF SaveReport, moveTo
    <2> HIDE DEF w
    <2>3. hermesReport' = [hermesReport EXCEPT ![t] = r] /\ UNCHANGED <<taskFiles, ctoReport, round>>
      BY <1>8, <2>2
    <2>4. DevTasksAreVerified' /\ hermesReport' \in [DevTaskIds -> DevReport] /\ MayBecome(t, y)'
      BY <2>1, <2>3, SaveReportKeeps
    <2>5. y \in DevStatus
      BY DEF DevStatus
    <2>6. Planned(Tail(todo))'
      BY <2>2, <2>4, <2>5 DEF Planned
    <2> QED BY <1>10, <2>3, <2>4, <2>6 DEF DevTypeOK
  <1>15. CASE \E t \in DevTaskIds, y \in {"active", "completed"}, d \in DevDecision :
                /\ todo = <<SaveDecision(t, d), Rewrite(t, y), Move(t, y)>>
                /\ taskFiles[t].status = "review"
                /\ y = "active" => NoOtherActive(t)
                /\ y = "completed" => ReportIsCurrent(t) /\ Approves(d, t)
    <2>1. PICK t \in DevTaskIds, y \in {"active", "completed"}, d \in DevDecision :
                /\ todo = <<SaveDecision(t, d), Rewrite(t, y), Move(t, y)>>
                /\ taskFiles[t].status = "review"
                /\ y = "active" => NoOtherActive(t)
                /\ y = "completed" => ReportIsCurrent(t) /\ Approves(d, t)
      BY <1>15
    <2>2. w.file = "cto" /\ w.task = t /\ w.to = d /\ Tail(todo) = moveTo(t, y)
      BY <2>1, ShortLists DEF SaveDecision, moveTo
    <2> HIDE DEF w
    <2>3. ctoReport' = [ctoReport EXCEPT ![t] = d] /\ UNCHANGED <<taskFiles, hermesReport, round>>
      BY <1>8, <2>2
    <2>4. DevTasksAreVerified' /\ ctoReport' \in [DevTaskIds -> DevDecision] /\ MayBecome(t, y)'
      BY <2>1, <2>3, SaveDecisionKeeps
    <2>5. y \in DevStatus
      BY DEF DevStatus
    <2>6. Planned(Tail(todo))'
      BY <2>2, <2>4, <2>5 DEF Planned
    <2> QED BY <1>10, <2>3, <2>4, <2>6 DEF DevTypeOK
  <1> QED BY <1>1, <1>9, <1>11, <1>12, <1>13, <1>14, <1>15 DEF Planned

LEMMA FilesUnchanged ==
  ASSUME DevInv, UNCHANGED <<taskFiles, hermesReport, ctoReport, round>>
  PROVE  DevTasksAreVerified' /\ \A todo : Planned(todo) => Planned(todo)'
  BY DEF DevInv, DevTasksAreVerified, OneActiveTask, ReviewHasItsReport, CompletedWasVerified,
         Planned, MayBecome, NoOtherActive, ReportIsCurrent, Approves

LEMMA DevStep ==
  ASSUME DevInv, NEW s \in Shells,
         \/ \E c \in DevCommands : TakeLock(s, c)
         \/ Decide(s) \/ WriteFails(s) \/ ReleaseLock(s) \/ ShellDies(s)
  PROVE  DevInv'
  <1>1. UNCHANGED <<taskFiles, hermesReport, ctoReport, round>>
    BY DEF TakeLock, Decide, WriteFails, ReleaseLock, ShellDies
  <1>2. DevTasksAreVerified' /\ \A todo : Planned(todo) => Planned(todo)'
    BY <1>1, FilesUnchanged
  <1>3. DevTypeOK
    BY DEF DevInv
  <1>4. CASE \E c \in DevCommands : TakeLock(s, c)
    <2>1. PICK c \in DevCommands : /\ mutex = Nobody /\ mutex' = s
                                   /\ shell' = [shell EXCEPT ![s] = [name |-> "locked", command |-> c]]
      BY <1>4 DEF TakeLock
    <2>2. \A q \in Shells : shell[q] = Prompt
      BY <2>1, ShellNames DEF DevInv
    <2>3. \A q \in Shells : shell'[q] = IF q = s THEN [name |-> "locked", command |-> c] ELSE Prompt
      BY <1>3, <2>1, <2>2 DEF DevTypeOK
    <2>4. \A q \in Shells : shell'[q].name # "writing"
      BY <2>3 DEF Prompt
    <2>5. DevTypeOK'
      BY <1>1, <1>3, <2>1 DEF DevTypeOK
    <2> QED BY <1>2, <2>1, <2>3, <2>4, <2>5 DEF DevInv
  <1>5. CASE Decide(s)
    <2>x. PICK x : x = [name |-> "writing", todo |-> WritesOf(shell[s].command)]
      OBVIOUS
    <2>1. shell[s].name = "locked" /\ shell' = [shell EXCEPT ![s] = x] /\ mutex' = mutex
      BY <1>5, <2>x DEF Decide
    <2>2. shell[s] \in [name : {"locked"}, command : DevCommands] /\ shell[s] # Prompt
      BY <1>3, <2>1 DEF DevTypeOK, Prompt
    <2>3. Planned(WritesOf(shell[s].command))
      BY <2>2, WritesArePlanned
    <2>4. x.todo = WritesOf(shell[s].command) /\ x.name = "writing"
      BY <2>x
    <2>5. Planned(x.todo)
      BY <2>3, <2>4
    <2>6. x.todo \in Seq(DevWrite) /\ Planned(x.todo)'
      BY <1>2, <2>5, PlannedType
    <2>7. x \in [name : {"writing"}, todo : Seq(DevWrite)]
      BY <2>4, <2>6, <2>x
    <2>8. DevTypeOK'
      BY <1>1, <1>3, <2>1, <2>7 DEF DevTypeOK
    <2> QED BY <1>2, <2>1, <2>2, <2>6, <2>8, ShellsKept DEF DevInv
  <1>6. CASE WriteFails(s)
    <2>x. PICK x : x = [name |-> "writing", todo |-> <<>>]
      OBVIOUS
    <2>1. /\ shell[s].name = "writing" /\ mutex' = mutex
          /\ shell' = [shell EXCEPT ![s] = [shell[s] EXCEPT !.todo = <<>>]]
      BY <1>6 DEF WriteFails
    <2>2. shell[s] \in [name : {"writing"}, todo : Seq(DevWrite)] /\ shell[s] # Prompt
      BY <1>3, <2>1 DEF DevTypeOK, Prompt
    <2>f. PICK f : f = [shell[s] EXCEPT !.todo = <<>>]
      OBVIOUS
    <2>3. f = [name |-> "writing", todo |-> <<>>]
      BY <2>2, <2>f
    <2>4. shell' = [shell EXCEPT ![s] = x] /\ x.todo = <<>> /\ x.name = "writing"
      BY <2>1, <2>3, <2>f, <2>x
    <2>5. Planned(x.todo)' /\ x \in [name : {"writing"}, todo : Seq(DevWrite)]
      BY <2>4, <2>x DEF Planned
    <2>6. DevTypeOK'
      BY <1>1, <1>3, <2>4, <2>5 DEF DevTypeOK
    <2> QED BY <1>2, <2>1, <2>2, <2>4, <2>5, <2>6, ShellsKept DEF DevInv
  <1>7. CASE ReleaseLock(s) \/ ShellDies(s)
    <2>1. shell' = [shell EXCEPT ![s] = Prompt] /\ shell[s] # Prompt
      BY <1>7 DEF ReleaseLock, ShellDies, Prompt
    <2>2. \A q \in Shells : shell'[q] = Prompt
      BY <1>3, <2>1 DEF DevInv, DevTypeOK
    <2>3. DevTypeOK'
      BY <1>1, <1>3, <2>1 DEF DevTypeOK
    <2> QED BY <1>2, <2>2, <2>3 DEF DevInv, Prompt
  <1> QED BY <1>4, <1>5, <1>6, <1>7

(* One task is active, a task under review has the report of its last round,   *)
(* and a completed one an approval of the reported commit, for any number of   *)
(* tasks and processes, whichever write fails and wherever a process dies: the *)
(* orchestrator's lock and the order of its writes.                            *)
THEOREM DevTasksStayVerified == DevSpec => []DevTasksAreVerified
  <1>1. DevInit => DevInv
    <2> SUFFICES ASSUME DevInit PROVE DevInv
      OBVIOUS
    <2>1. DevTypeOK
      BY DEF DevInit, DevTypeOK, NoFile, NoReport, NoDecision, DevReport, DevDecision
    <2>2. DevTasksAreVerified
      BY DEF DevInit, DevTasksAreVerified, OneActiveTask, ReviewHasItsReport, CompletedWasVerified, NoFile
    <2> QED BY <2>1, <2>2 DEF DevInit, DevInv, Prompt
  <1>2. DevInv /\ [DevNext]_devVars => DevInv'
    <2> SUFFICES ASSUME DevInv, [DevNext]_devVars PROVE DevInv'
      OBVIOUS
    <2>1. CASE UNCHANGED devVars
      <3>1. DevTasksAreVerified' /\ \A todo : Planned(todo) => Planned(todo)'
        BY <2>1, FilesUnchanged DEF devVars
      <3>2. shell' = shell /\ mutex' = mutex /\ DevTypeOK'
        BY <2>1 DEF devVars, DevInv, DevTypeOK
      <3>3. ASSUME NEW s \in Shells, shell[s].name = "writing" PROVE Planned(shell[s].todo)'
        <4>t. PICK todo : todo = shell[s].todo
          OBVIOUS
        <4>1. Planned(todo)'
          BY <3>1, <3>3, <4>t DEF DevInv
        <4> QED BY <3>2, <4>1, <4>t DEF Planned
      <3> QED BY <3>1, <3>2, <3>3 DEF DevInv
    <2> QED BY <2>1, DevStep, WriteNextKeeps DEF DevNext
  <1>3. DevInv => DevTasksAreVerified
    BY DEF DevInv
  <1> QED BY <1>1, <1>2, <1>3, PTL DEF DevSpec

-----------------------------------------------------------------------------
(* Chat. A stream is past its append only if the exchange is stored; and a     *)
(* conversation is trimmed by an even number of messages, so that the pairs    *)
(* stay pairs.                                                                 *)

ChatMessage == [role : {"user", "assistant"}, of : Streams]
ChatEvent == {"head", "conversation", "delta", "error", "done"}
StreamState ==
  [pc : {"new", "reading", "append", "finish", "done", "failed"}, provider : Providers \cup {"none"},
   conversation : Streams \cup {0}, pieces : Nat, aborted : BOOLEAN]

(* Every question is followed by its own answer.                               *)
WholeExchanges(m) ==
  \A j \in DOMAIN m :
    IF j % 2 = 1 THEN m[j].role = "user" /\ j + 1 \in DOMAIN m
                      /\ m[j + 1] = [role |-> "assistant", of |-> m[j].of]
                 ELSE m[j].role = "assistant"

WholeConversation == {c \in [id : Streams, messages : Seq(ChatMessage)] : WholeExchanges(c.messages)}

ChatInv ==
  /\ conversations \in Seq(WholeConversation)
  /\ stream \in [Streams -> StreamState]
  /\ events \in [Streams -> Seq(ChatEvent)]
  /\ \A s \in Streams : stream[s].pc \in {"finish", "done"} => s \in stored
  /\ DoneMeansStored

LEMMA Parity ==
  /\ \A j, k \in Nat : k % 2 = 0 => (j + k) % 2 = j % 2
  /\ \A j \in Nat : j % 2 \in {0, 1} /\ (j + 1) % 2 = 1 - (j % 2)
  /\ \A j, k \in Nat : k % 2 = 0 /\ j % 2 = 0 /\ k <= j => (j - k) % 2 = 0
  <1>1. \A j, k \in Nat : k % 2 = 0 => (j + k) % 2 = j % 2
    OBVIOUS
  <1>2. \A j \in Nat : j % 2 \in {0, 1} /\ (j + 1) % 2 = 1 - (j % 2)
    OBVIOUS
  <1>3. \A j, k \in Nat : k % 2 = 0 /\ j % 2 = 0 /\ k <= j => (j - k) % 2 = 0
    OBVIOUS
  <1> QED BY <1>1, <1>2, <1>3

LEMMA WholeIsEven ==
  ASSUME NEW m \in Seq(ChatMessage), WholeExchanges(m)
  PROVE  Len(m) \in Nat /\ Len(m) % 2 = 0
  <1>1. Len(m) \in Nat /\ DOMAIN m = 1 .. Len(m)
    OBVIOUS
  <1>2. CASE Len(m) = 0
    BY <1>2
  <1>3. CASE Len(m) # 0
    <2>1. Len(m) \in DOMAIN m /\ Len(m) + 1 \notin DOMAIN m
      BY <1>1, <1>3
    <2>2. Len(m) % 2 # 1
      BY <2>1 DEF WholeExchanges
    <2> QED BY <1>1, <2>2, Parity
  <1> QED BY <1>2, <1>3, <1>1

LEMMA ExchangeAdded ==
  ASSUME NEW m \in Seq(ChatMessage), WholeExchanges(m), NEW s \in Streams
  PROVE  m \o Exchange(s) \in Seq(ChatMessage) /\ WholeExchanges(m \o Exchange(s))
  <1> DEFINE e == Exchange(s)
             t == m \o e
             n == Len(m)
  <1>1. n \in Nat /\ n % 2 = 0 /\ DOMAIN m = 1 .. n
    BY WholeIsEven
  <1>2. /\ e \in Seq(ChatMessage) /\ Len(e) = 2
        /\ e[1] = [role |-> "user", of |-> s] /\ e[2] = [role |-> "assistant", of |-> s]
    BY DEF Exchange, ChatMessage
  <1> HIDE DEF e
  <1>3. /\ t \in Seq(ChatMessage) /\ Len(t) = n + 2 /\ DOMAIN t = 1 .. n + 2
        /\ \A i \in 1 .. n + 2 : t[i] = IF i <= n THEN m[i] ELSE e[i - n]
    <2>1. /\ m \o e \in Seq(ChatMessage) /\ Len(m \o e) = Len(m) + Len(e)
          /\ \A i \in 1 .. Len(m) + Len(e) : (m \o e)[i] = IF i <= Len(m) THEN m[i] ELSE e[i - Len(m)]
      BY <1>2, ConcatProperties
    <2>2. t \in Seq(ChatMessage) /\ Len(t) = n + 2
      BY <1>2, <2>1
    <2>3. \A i \in 1 .. n + 2 : t[i] = IF i <= n THEN m[i] ELSE e[i - n]
      BY <1>2, <2>1
    <2> HIDE DEF t
    <2>4. DOMAIN t = 1 .. Len(t)
      BY <2>2
    <2> QED BY <2>2, <2>3, <2>4
  <1> HIDE DEF t
  <1>4. (n + 1) % 2 = 1 /\ (n + 2) % 2 = 0
    BY <1>1, Parity
  <1>5. t[n + 1] = [role |-> "user", of |-> s] /\ t[n + 2] = [role |-> "assistant", of |-> s]
    <2>1. /\ n + 1 \in 1 .. n + 2 /\ ~(n + 1 <= n) /\ (n + 1) - n = 1
          /\ n + 2 \in 1 .. n + 2 /\ ~(n + 2 <= n) /\ (n + 2) - n = 2
      BY <1>1
    <2> HIDE DEF n
    <2>2. t[n + 1] = e[(n + 1) - n] /\ t[n + 2] = e[(n + 2) - n]
      BY <1>3, <2>1
    <2> QED BY <1>2, <2>1, <2>2
  <1>6. ASSUME NEW j \in DOMAIN t
        PROVE  IF j % 2 = 1 THEN t[j].role = "user" /\ j + 1 \in DOMAIN t
                                 /\ t[j + 1] = [role |-> "assistant", of |-> t[j].of]
               ELSE t[j].role = "assistant"
    <2>1. CASE j \in DOMAIN m
      <3>1. t[j] = m[j]
        BY <1>1, <1>3, <2>1
      <3>2. CASE j % 2 = 1
        <4>1. j + 1 \in DOMAIN m
          BY <2>1, <3>2 DEF WholeExchanges
        <4>2. t[j + 1] = m[j + 1] /\ j + 1 \in DOMAIN t
          BY <1>1, <1>3, <4>1
        <4> QED BY <2>1, <3>1, <3>2, <4>2 DEF WholeExchanges
      <3>3. CASE j % 2 # 1
        BY <2>1, <3>1, <3>3 DEF WholeExchanges
      <3> QED BY <3>2, <3>3
    <2>2. CASE j = n + 1
      BY <1>1, <1>3, <1>4, <1>5, <2>2
    <2>3. CASE j = n + 2
      BY <1>1, <1>3, <1>4, <1>5, <2>3
    <2> QED BY <1>1, <1>3, <2>1, <2>2, <2>3
  <1> QED BY <1>3, <1>6 DEF WholeExchanges, t, e

LEMMA TrimmedWhole ==
  ASSUME NEW t \in Seq(ChatMessage), WholeExchanges(t)
  PROVE  LastMessages(t, MaxMessages) \in Seq(ChatMessage) /\ WholeExchanges(LastMessages(t, MaxMessages))
  <1> USE ChatBounds
  <1>1. Len(t) \in Nat /\ Len(t) % 2 = 0 /\ DOMAIN t = 1 .. Len(t)
    BY WholeIsEven
  <1>2. CASE Len(t) <= MaxMessages
    BY <1>2 DEF LastMessages
  <1>3. CASE Len(t) > MaxMessages
    <2> DEFINE k == Len(t) - MaxMessages
               u == SubSeq(t, k + 1, Len(t))
    <2>a. Len(t) \in Nat
      BY <1>1
    <2>0. k \in Nat /\ Len(t) = MaxMessages + k
      BY <1>3, <2>a
    <2>1. k \in Nat /\ k % 2 = 0 /\ k + 1 \in 1 .. Len(t) + 1 /\ Len(t) - k = MaxMessages
      BY <1>1, <1>3, Parity
    <2>2. LastMessages(t, MaxMessages) = u
      BY <1>1, <1>3 DEF LastMessages
    <2> HIDE DEF k
    <2>3. /\ u \in Seq(ChatMessage) /\ DOMAIN u = 1 .. MaxMessages
          /\ \A j \in 1 .. MaxMessages : u[j] = t[j + k] /\ j + k \in DOMAIN t
      <3>1. \A j \in k + 1 .. Len(t) : t[j] \in ChatMessage
        BY <1>1, <2>0
      <3>2. /\ u \in Seq(ChatMessage)
            /\ Len(u) = IF k + 1 <= Len(t) THEN Len(t) - (k + 1) + 1 ELSE 0
            /\ \A j \in 1 .. Len(t) - (k + 1) + 1 : u[j] = t[(k + 1) + j - 1]
        BY <1>1, <2>0, <3>1, SubSeqProperties
      <3>3. k + 1 <= Len(t) /\ Len(t) - (k + 1) + 1 = MaxMessages
        BY <2>0
      <3>4. \A j \in 1 .. MaxMessages : (k + 1) + j - 1 = j + k /\ j + k \in DOMAIN t
        BY <1>1, <2>0
      <3> HIDE DEF u
      <3>5. DOMAIN u = 1 .. Len(u) /\ Len(u) = MaxMessages
        BY <3>2, <3>3
      <3>6. \A j \in 1 .. MaxMessages : u[j] = t[(k + 1) + j - 1]
        BY <3>2, <3>3
      <3> QED BY <3>2, <3>4, <3>5, <3>6
    <2> HIDE DEF u
    <2>4. ASSUME NEW j \in DOMAIN u
          PROVE  IF j % 2 = 1 THEN u[j].role = "user" /\ j + 1 \in DOMAIN u
                                   /\ u[j + 1] = [role |-> "assistant", of |-> u[j].of]
                 ELSE u[j].role = "assistant"
      <3>1. u[j] = t[j + k] /\ j + k \in DOMAIN t /\ j \in Nat
        BY <2>3
      <3>2. (j + k) % 2 = j % 2
        BY <2>1, <3>1, Parity
      <3>3. CASE j % 2 = 1
        <4>1. t[j + k].role = "user" /\ (j + k) + 1 \in DOMAIN t
              /\ t[(j + k) + 1] = [role |-> "assistant", of |-> t[j + k].of]
          BY <3>1, <3>2, <3>3 DEF WholeExchanges
        <4>2. j + 1 \in 1 .. MaxMessages /\ (j + 1) + k = (j + k) + 1
          BY <1>1, <2>1, <3>1, <4>1
        <4> QED BY <2>3, <3>1, <3>3, <4>1, <4>2
      <3>4. CASE j % 2 # 1
        BY <3>1, <3>2, <3>4 DEF WholeExchanges
      <3> QED BY <3>3, <3>4
    <2> QED BY <2>2, <2>3, <2>4 DEF WholeExchanges
  <1> QED BY <1>1, <1>2, <1>3

LEMMA ConversationsKept ==
  ASSUME conversations \in Seq(WholeConversation)
  PROVE  /\ \A i \in DOMAIN conversations : Without(conversations, i) \in Seq(WholeConversation)
         /\ \A s \in Streams : Created(s) \in Seq(WholeConversation)
  <1> USE ChatBounds
  <1>1. ASSUME NEW q \in Seq(WholeConversation), NEW a \in Nat, NEW b \in Nat, 1 <= a, b <= Len(q)
        PROVE  SubSeq(q, a, b) \in Seq(WholeConversation)
    <2>1. \A i \in a .. b : q[i] \in WholeConversation
      BY <1>1
    <2> QED BY <2>1, SubSeqProperties
  <1>2. Len(conversations) \in Nat /\ DOMAIN conversations = 1 .. Len(conversations)
    OBVIOUS
  <1>3. ASSUME NEW i \in DOMAIN conversations PROVE Without(conversations, i) \in Seq(WholeConversation)
    <2>1. i - 1 \in Nat /\ i - 1 <= Len(conversations) /\ i + 1 \in Nat /\ 1 <= i + 1
      BY <1>2
    <2>2. /\ SubSeq(conversations, 1, i - 1) \in Seq(WholeConversation)
          /\ SubSeq(conversations, i + 1, Len(conversations)) \in Seq(WholeConversation)
      BY <1>1, <1>2, <2>1
    <2> QED BY <2>2, ConcatProperties DEF Without
  <1>4. ASSUME NEW s \in Streams PROVE Created(s) \in Seq(WholeConversation)
    <2>1. PICK c : c = [id |-> s, messages |-> <<>>]
      OBVIOUS
    <2>2. c \in WholeConversation
      BY <2>1 DEF WholeConversation, WholeExchanges
    <2>3. PICK q : q = <<c>> \o conversations
      OBVIOUS
    <2>4. q \in Seq(WholeConversation) /\ Len(q) \in Nat
      BY <2>2, <2>3, ConcatProperties
    <2>5. Created(s) = First(q, MaxConversations)
      BY <2>1, <2>3 DEF Created
    <2> QED BY <1>1, <2>4, <2>5 DEF First
  <1> QED BY <1>3, <1>4

LEMMA ExchangeStored ==
  ASSUME conversations \in Seq(WholeConversation), NEW s \in Streams, NEW id
  PROVE  [i \in DOMAIN conversations |->
            IF conversations[i].id = id
              THEN [conversations[i] EXCEPT !.messages = Appended(conversations[i], s)]
              ELSE conversations[i]] \in Seq(WholeConversation)
  <1>1. Len(conversations) \in Nat /\ DOMAIN conversations = 1 .. Len(conversations)
    OBVIOUS
  <1>2. ASSUME NEW c \in WholeConversation, NEW d, d = [c EXCEPT !.messages = Appended(c, s)]
        PROVE  d \in WholeConversation
    <2>1. c \in [id : Streams, messages : Seq(ChatMessage)] /\ WholeExchanges(c.messages)
      BY DEF WholeConversation
    <2>2. PICK m : m = Appended(c, s)
      OBVIOUS
    <2>3. m \in Seq(ChatMessage) /\ WholeExchanges(m)
      BY <2>1, <2>2, ExchangeAdded, TrimmedWhole DEF Appended
    <2>4. d = [id |-> c.id, messages |-> m]
      BY <1>2, <2>1, <2>2
    <2> QED BY <2>1, <2>3, <2>4 DEF WholeConversation
  <1>3. ASSUME NEW i \in DOMAIN conversations
        PROVE  (IF conversations[i].id = id
                  THEN [conversations[i] EXCEPT !.messages = Appended(conversations[i], s)]
                  ELSE conversations[i]) \in WholeConversation
    <2>1. conversations[i] \in WholeConversation
      BY <1>1
    <2> QED BY <1>2, <2>1
  <1>4. PICK f : f = [i \in DOMAIN conversations |->
            IF conversations[i].id = id
              THEN [conversations[i] EXCEPT !.messages = Appended(conversations[i], s)]
              ELSE conversations[i]]
    OBVIOUS
  <1>5. f \in [1 .. Len(conversations) -> WholeConversation]
    BY <1>1, <1>3, <1>4
  <1>6. f \in Seq(WholeConversation)
    BY <1>1, <1>5, SeqDef
  <1> QED BY <1>4, <1>6

(* What one stream does to its own request and to what its client has seen.    *)
LEMMA StreamMoves ==
  ASSUME ChatInv, NEW s \in Streams, NEW x \in StreamState, stream' = [stream EXCEPT ![s] = x],
         NEW ev \in Seq(ChatEvent), events' = [events EXCEPT ![s] = @ \o ev], stored \subseteq stored',
         x.pc \in {"finish", "done"} => s \in stored',
         (\A i \in DOMAIN ev : ev[i] # "done") \/ s \in stored',
         conversations' \in Seq(WholeConversation)
  PROVE  ChatInv'
  <1>1. stream' \in [Streams -> StreamState] /\ \A q \in Streams : stream'[q] = IF q = s THEN x ELSE stream[q]
    BY DEF ChatInv
  <1>2. events[s] \in Seq(ChatEvent)
    BY DEF ChatInv
  <1>3. PICK seen : seen = events[s] \o ev
    OBVIOUS
  <1>4. /\ seen \in Seq(ChatEvent) /\ DOMAIN seen = 1 .. Len(events[s]) + Len(ev)
        /\ \A i \in 1 .. Len(events[s]) + Len(ev) :
             seen[i] = IF i <= Len(events[s]) THEN events[s][i] ELSE ev[i - Len(events[s])]
    <2>1. /\ seen \in Seq(ChatEvent) /\ Len(seen) = Len(events[s]) + Len(ev)
          /\ \A i \in 1 .. Len(events[s]) + Len(ev) :
               seen[i] = IF i <= Len(events[s]) THEN events[s][i] ELSE ev[i - Len(events[s])]
      BY <1>2, <1>3, ConcatProperties
    <2>2. DOMAIN seen = 1 .. Len(seen)
      BY <2>1
    <2> QED BY <2>1, <2>2
  <1>5. /\ events' \in [Streams -> Seq(ChatEvent)]
        /\ \A q \in Streams : events'[q] = IF q = s THEN seen ELSE events[q]
    BY <1>3, <1>4 DEF ChatInv
  <1>6. ASSUME NEW i \in DOMAIN seen, seen[i] = "done" PROVE s \in stored'
    <2>1. Len(events[s]) \in Nat /\ Len(ev) \in Nat /\ DOMAIN events[s] = 1 .. Len(events[s])
          /\ DOMAIN ev = 1 .. Len(ev)
      BY <1>2
    <2>2. CASE i <= Len(events[s])
      <3>1. i \in DOMAIN events[s] /\ events[s][i] = "done"
        BY <1>4, <1>6, <2>1, <2>2
      <3> QED BY <3>1 DEF ChatInv, DoneMeansStored
    <2>3. CASE ~(i <= Len(events[s]))
      <3>1. i - Len(events[s]) \in DOMAIN ev /\ ev[i - Len(events[s])] = "done"
        BY <1>4, <1>6, <2>1, <2>3
      <3> QED BY <3>1
    <2> QED BY <2>2, <2>3
  <1>7. DoneMeansStored'
    BY <1>5, <1>6 DEF ChatInv, DoneMeansStored
  <1> QED BY <1>1, <1>5, <1>7 DEF ChatInv

(* The same when the client is sent nothing.                                   *)
LEMMA StreamMovesSilently ==
  ASSUME ChatInv, NEW s \in Streams, NEW x \in StreamState, stream' = [stream EXCEPT ![s] = x],
         events' = events, stored \subseteq stored',
         x.pc \in {"finish", "done"} => s \in stored',
         conversations' \in Seq(WholeConversation)
  PROVE  ChatInv'
  <1>1. stream' \in [Streams -> StreamState] /\ \A q \in Streams : stream'[q] = IF q = s THEN x ELSE stream[q]
    BY DEF ChatInv
  <1>2. DoneMeansStored'
    BY DEF ChatInv, DoneMeansStored
  <1> QED BY <1>1, <1>2 DEF ChatInv

LEMMA StreamSets ==
  ASSUME NEW f \in StreamState, NEW pc \in {"new", "reading", "append", "finish", "done", "failed"},
         NEW a \in BOOLEAN, NEW n \in Nat, NEW c \in Streams \cup {0}
  PROVE  /\ [f EXCEPT !.pc = pc] \in StreamState /\ [f EXCEPT !.pc = pc].pc = pc
         /\ [f EXCEPT !.aborted = a] \in StreamState /\ [f EXCEPT !.aborted = a].pc = f.pc
         /\ [f EXCEPT !.pieces = n, !.conversation = c] \in StreamState
         /\ [f EXCEPT !.pieces = n, !.conversation = c].pc = f.pc
  BY DEF StreamState

LEMMA ChatEvents ==
  /\ <<>> \in Seq(ChatEvent) /\ \A i \in DOMAIN <<>> : <<>>[i] # "done"
  /\ \A e \in ChatEvent \ {"done"} :
       <<e>> \in Seq(ChatEvent) /\ \A i \in DOMAIN <<e>> : <<e>>[i] # "done"
  /\ \A e, f \in ChatEvent \ {"done"} :
       <<e, f>> \in Seq(ChatEvent) /\ \A i \in DOMAIN <<e, f>> : <<e, f>>[i] # "done"
  /\ <<"done">> \in Seq(ChatEvent)
  BY DEF ChatEvent

LEMMA ErrorAdded ==
  ASSUME NEW h \in Seq(ChatEvent), \A i \in DOMAIN h : h[i] # "done"
  PROVE  /\ Append(h, "error") \in Seq(ChatEvent)
         /\ \A i \in DOMAIN Append(h, "error") : Append(h, "error")[i] # "done"
  <1>1. "error" \in ChatEvent
    BY DEF ChatEvent
  <1> QED BY <1>1, AppendProperties

(* A stream that gives up, whatever it tells its client about it.              *)
LEMMA StreamFails ==
  ASSUME ChatInv, NEW s \in Streams, stream' = [stream EXCEPT ![s].pc = "failed"],
         NEW ev \in Seq(ChatEvent), \A i \in DOMAIN ev : ev[i] # "done", Send(s, ev),
         UNCHANGED <<conversations, stored>>
  PROVE  ChatInv'
  <1>1. PICK x : x = [stream[s] EXCEPT !.pc = "failed"]
    OBVIOUS
  <1>2. stream[s] \in StreamState
    BY DEF ChatInv
  <1>3. x \in StreamState /\ x.pc = "failed"
    BY <1>1, <1>2 DEF StreamState
  <1>4. stream' = [stream EXCEPT ![s] = x]
    BY <1>1
  <1>5. conversations' \in Seq(WholeConversation)
    BY DEF ChatInv
  <1>6. events' = [events EXCEPT ![s] = @ \o ev]
    BY DEF Send
  <1> QED BY <1>3, <1>4, <1>5, <1>6, StreamMoves

LEMMA OpenKeeps ==
  ASSUME ChatInv, NEW s \in Streams, Open(s)
  PROVE  ChatInv'
  <1>1. PICK p \in Providers, id \in Ids \cup {0} :
           LET head == IF id = 0 THEN <<"head">> ELSE <<"head", "conversation">>
           IN  IF Resolves(p)
               THEN /\ Send(s, head)
                    /\ stream' = [stream EXCEPT ![s] =
                           [NoStream EXCEPT !.pc = "reading", !.provider = p,
                                            !.conversation = id]]
               ELSE /\ Send(s, Append(head, "error"))
                    /\ stream' = [stream EXCEPT ![s].pc = "failed"]
    BY DEF Open
  <1>2. UNCHANGED <<conversations, stored>> /\ conversations \in Seq(WholeConversation)
    BY DEF Open, ChatInv
  <1>3. id \in Streams \cup {0}
    <2>1. \A i \in DOMAIN conversations : conversations[i] \in WholeConversation
      BY <1>2
    <2> QED BY <2>1 DEF Ids, WholeConversation
  <1>4. PICK head : head = IF id = 0 THEN <<"head">> ELSE <<"head", "conversation">>
    OBVIOUS
  <1>5. head \in Seq(ChatEvent) /\ \A i \in DOMAIN head : head[i] # "done"
    BY <1>4, ChatEvents DEF ChatEvent
  <1>6. CASE Resolves(p)
    <2>1. PICK x : x = [NoStream EXCEPT !.pc = "reading", !.provider = p, !.conversation = id]
      OBVIOUS
    <2>2. x = [pc |-> "reading", provider |-> p, conversation |-> id, pieces |-> 0, aborted |-> FALSE]
      BY <2>1 DEF NoStream
    <2>3. x \in StreamState /\ x.pc = "reading"
      BY <2>2, <1>3 DEF StreamState
    <2>4. stream' = [stream EXCEPT ![s] = x] /\ events' = [events EXCEPT ![s] = @ \o head]
      BY <1>1, <1>4, <1>6, <2>1 DEF Send
    <2> QED BY <1>2, <1>5, <2>3, <2>4, StreamMoves
  <1>7. CASE ~Resolves(p)
    <2>1. PICK ev : ev = Append(head, "error")
      OBVIOUS
    <2>3. ev \in Seq(ChatEvent) /\ \A i \in DOMAIN ev : ev[i] # "done"
      BY <1>5, <2>1, ErrorAdded
    <2>4. Send(s, ev) /\ stream' = [stream EXCEPT ![s].pc = "failed"]
      BY <1>1, <1>4, <1>7, <2>1
    <2> QED BY <1>2, <2>3, <2>4, StreamFails
  <1> QED BY <1>6, <1>7

(* The request is refused before or after its head is out, or its provider     *)
(* fails.                                                                      *)
LEMMA RefusalKeeps ==
  ASSUME ChatInv, NEW s \in Streams, OpenMissing(s) \/ OpenRefused(s) \/ ProviderFails(s)
  PROVE  ChatInv'
  <1>1. UNCHANGED <<conversations, stored>> /\ stream' = [stream EXCEPT ![s].pc = "failed"]
    BY DEF OpenMissing, OpenRefused, ProviderFails
  <1>2. CASE OpenMissing(s) \/ ProviderFails(s)
    <2>1. Send(s, <<"error">>)
      BY <1>2 DEF OpenMissing, ProviderFails
    <2>2. <<"error">> \in Seq(ChatEvent) /\ \A i \in DOMAIN <<"error">> : <<"error">>[i] # "done"
      BY ChatEvents DEF ChatEvent
    <2> QED BY <1>1, <2>1, <2>2, StreamFails
  <1>3. CASE OpenRefused(s)
    <2>1. PICK head \in {<<"head">>} \cup {<<"head", "conversation">> : id \in Ids} :
              Send(s, Append(head, "error"))
      BY <1>3 DEF OpenRefused
    <2>2. head = <<"head">> \/ head = <<"head", "conversation">>
      BY <2>1
    <2>3. head \in Seq(ChatEvent) /\ \A i \in DOMAIN head : head[i] # "done"
      BY <2>2, ChatEvents DEF ChatEvent
    <2>4. PICK ev : ev = Append(head, "error")
      OBVIOUS
    <2>5. ev \in Seq(ChatEvent) /\ \A i \in DOMAIN ev : ev[i] # "done"
      BY <2>3, <2>4, ErrorAdded
    <2> QED BY <1>1, <2>1, <2>4, <2>5, StreamFails
  <1> QED BY <1>2, <1>3

LEMMA DeltaKeeps ==
  ASSUME ChatInv, NEW s \in Streams, Delta(s)
  PROVE  ChatInv'
  <1>1. stream[s] \in StreamState /\ stream[s].pc = "reading" /\ UNCHANGED stored
    BY DEF ChatInv, Delta
  <1>2. PICK n : n = stream[s].pieces + 1
    OBVIOUS
  <1>3. n \in Nat
    BY <1>1, <1>2 DEF StreamState
  <1>4. CASE n > MaxResponse
    <2>1. stream' = [stream EXCEPT ![s].pc = "failed"] /\ Send(s, <<"error">>) /\ UNCHANGED conversations
      BY <1>2, <1>4 DEF Delta
    <2>2. <<"error">> \in Seq(ChatEvent) /\ \A i \in DOMAIN <<"error">> : <<"error">>[i] # "done"
      BY ChatEvents DEF ChatEvent
    <2> QED BY <1>1, <2>1, <2>2, StreamFails
  <1>5. CASE ~(n > MaxResponse)
    <2>1. PICK c : c = IF stream[s].conversation = 0 THEN s ELSE stream[s].conversation
      OBVIOUS
    <2>2. PICK x : x = [stream[s] EXCEPT !.pieces = n, !.conversation = c]
      OBVIOUS
    <2>3. c \in Streams \cup {0}
      BY <1>1, <2>1 DEF StreamState
    <2>4. x \in StreamState /\ x.pc = "reading"
      BY <1>1, <1>3, <2>2, <2>3 DEF StreamState
    <2>5. stream' = [stream EXCEPT ![s] = x]
      <3>1. stream' = [stream EXCEPT ![s].pieces = n,
                         ![s].conversation = IF stream[s].conversation = 0 THEN s ELSE @]
        BY <1>2, <1>5 DEF Delta
      <3> QED BY <1>1, <2>1, <2>2, <3>1 DEF ChatInv
    <2>6. PICK ev : ev = IF stream[s].conversation = 0 THEN <<"conversation", "delta">> ELSE <<"delta">>
      OBVIOUS
    <2>7. ev \in Seq(ChatEvent) /\ \A i \in DOMAIN ev : ev[i] # "done"
      BY <2>6, ChatEvents DEF ChatEvent
    <2>8. events' = [events EXCEPT ![s] = @ \o ev]
      BY <1>2, <1>5, <2>6 DEF Delta, Send
    <2>9. conversations' \in Seq(WholeConversation)
      <3>1. conversations' = Created(s) \/ conversations' = conversations
        BY <1>2, <1>5 DEF Delta
      <3> QED BY <3>1, ConversationsKept DEF ChatInv
    <2> QED BY <1>1, <2>4, <2>5, <2>7, <2>8, <2>9, StreamMoves
  <1> QED BY <1>4, <1>5

LEMMA AnswerKeeps ==
  ASSUME ChatInv, NEW s \in Streams, AnswerEnds(s)
  PROVE  ChatInv'
  <1>1. stream[s] \in StreamState /\ UNCHANGED <<conversations, stored>> /\ conversations \in Seq(WholeConversation)
    BY DEF ChatInv, AnswerEnds
  <1>2. CASE stream[s].pieces = 0
    <2>1. stream' = [stream EXCEPT ![s].pc = "failed"] /\ Send(s, <<"error">>)
      BY <1>2 DEF AnswerEnds
    <2>2. <<"error">> \in Seq(ChatEvent) /\ \A i \in DOMAIN <<"error">> : <<"error">>[i] # "done"
      BY ChatEvents DEF ChatEvent
    <2> QED BY <1>1, <2>1, <2>2, StreamFails
  <1>3. CASE stream[s].pieces # 0
    <2>1. stream' = [stream EXCEPT ![s].pc = "append"] /\ UNCHANGED events
      BY <1>3 DEF AnswerEnds
    <2>2. PICK x : x = [stream[s] EXCEPT !.pc = "append"]
      OBVIOUS
    <2>3. x \in StreamState /\ x.pc = "append" /\ stream' = [stream EXCEPT ![s] = x]
      BY <1>1, <2>1, <2>2, StreamSets
    <2> QED BY <1>1, <2>1, <2>3, StreamMovesSilently
  <1> QED BY <1>2, <1>3

(* A client that leaves changes nothing but the request; a request it left     *)
(* before the answer was complete is given up.                                 *)
LEMMA LeavingKeeps ==
  ASSUME ChatInv, NEW s \in Streams, ClientLeaves(s) \/ Cancelled(s)
  PROVE  ChatInv'
  <1>1. /\ stream[s] \in StreamState /\ UNCHANGED <<conversations, stored, events>>
        /\ conversations \in Seq(WholeConversation)
    BY DEF ChatInv, ClientLeaves, Cancelled
  <1>2. CASE ClientLeaves(s)
    <2>1. PICK x : x = [stream[s] EXCEPT !.aborted = TRUE]
      OBVIOUS
    <2>2. x \in StreamState /\ x.pc = stream[s].pc /\ stream' = [stream EXCEPT ![s] = x]
      BY <1>1, <1>2, <2>1, StreamSets DEF ClientLeaves
    <2>3. x.pc \in {"finish", "done"} => s \in stored'
      BY <1>1, <2>2 DEF ChatInv
    <2> QED BY <1>1, <2>2, <2>3, StreamMovesSilently
  <1>3. CASE Cancelled(s)
    <2>1. PICK x : x = [stream[s] EXCEPT !.pc = "failed"]
      OBVIOUS
    <2>2. x \in StreamState /\ x.pc = "failed" /\ stream' = [stream EXCEPT ![s] = x]
      BY <1>1, <1>3, <2>1, StreamSets DEF Cancelled
    <2> QED BY <1>1, <2>2, StreamMovesSilently
  <1> QED BY <1>2, <1>3

LEMMA AppendKeeps ==
  ASSUME ChatInv, NEW s \in Streams, AppendExchange(s) \/ AppendRefused(s)
  PROVE  ChatInv'
  <1>1. stream[s] \in StreamState /\ conversations \in Seq(WholeConversation)
    BY DEF ChatInv
  <1>2. PICK ev : ev = IF stream[s].aborted THEN <<>> ELSE <<"error">>
    OBVIOUS
  <1>3. ev \in Seq(ChatEvent) /\ \A i \in DOMAIN ev : ev[i] # "done"
    <2>1. CASE stream[s].aborted
      BY <1>2, <2>1, ChatEvents
    <2>2. CASE ~stream[s].aborted
      BY <1>2, <2>2, ChatEvents DEF ChatEvent
    <2> QED BY <2>1, <2>2
  <1>4. CASE AppendExchange(s) /\ stream[s].conversation \in Ids
    <2>1. /\ stored' = stored \cup {s} /\ UNCHANGED events
          /\ stream' = [stream EXCEPT ![s].pc = "finish"]
      BY <1>4 DEF AppendExchange
    <2>2. conversations' = [i \in DOMAIN conversations |->
            IF conversations[i].id = stream[s].conversation
              THEN [conversations[i] EXCEPT !.messages = Appended(conversations[i], s)]
              ELSE conversations[i]]
      BY <1>4 DEF AppendExchange
    <2>3. conversations' \in Seq(WholeConversation)
      BY <1>1, <2>2, ExchangeStored
    <2>4. PICK x : x = [stream[s] EXCEPT !.pc = "finish"]
      OBVIOUS
    <2>5. x \in StreamState /\ stream' = [stream EXCEPT ![s] = x]
      BY <1>1, <2>1, <2>4, StreamSets
    <2> QED BY <2>1, <2>3, <2>5, StreamMovesSilently
  <1>5. CASE (AppendExchange(s) /\ stream[s].conversation \notin Ids) \/ AppendRefused(s)
    <2>1. UNCHANGED <<conversations, stored>> /\ stream' = [stream EXCEPT ![s].pc = "failed"] /\ Send(s, ev)
      BY <1>2, <1>5 DEF AppendExchange, AppendRefused
    <2> QED BY <1>3, <2>1, StreamFails
  <1> QED BY <1>4, <1>5

LEMMA FinishKeeps ==
  ASSUME ChatInv, NEW s \in Streams, Finish(s)
  PROVE  ChatInv'
  <1>1. /\ stream[s] \in StreamState /\ conversations' \in Seq(WholeConversation)
        /\ s \in stored /\ stored' = stored
    BY DEF ChatInv, Finish
  <1>2. PICK ev : ev = IF stream[s].aborted THEN <<>> ELSE <<"done">>
    OBVIOUS
  <1>3. ev \in Seq(ChatEvent)
    BY <1>2, ChatEvents
  <1>4. PICK x : x = [stream[s] EXCEPT !.pc = "done"]
    OBVIOUS
  <1>5. x \in StreamState
    BY <1>1, <1>4, StreamSets
  <1>6. stream' = [stream EXCEPT ![s] = x] /\ events' = [events EXCEPT ![s] = @ \o ev]
    BY <1>2, <1>4 DEF Finish, Send
  <1> QED BY <1>1, <1>3, <1>5, <1>6, StreamMoves

(* ChatIsKept for every number of streams, conversations and pieces and every  *)
(* even limit on the messages kept: POST /api/chat/stream answers "done" only  *)
(* for an exchange appendExchange has written, whatever was deleted, evicted   *)
(* or aborted while the model answered, and slicing a conversation to its last *)
(* MAX_MESSAGES messages never leaves an answer without its question.          *)
THEOREM ChatStaysKept == ChatSpec => []ChatIsKept
  <1>1. ChatInit => ChatInv
    BY DEF ChatInit, ChatInv, NoStream, StreamState, DoneMeansStored
  <1>2. ChatInv /\ [ChatNext]_chatVars => ChatInv'
    <2> SUFFICES ASSUME ChatInv, [ChatNext]_chatVars PROVE ChatInv'
      OBVIOUS
    <2>1. CASE UNCHANGED chatVars \/ SaveProvider \/ RemoveProvider
      <3>1. UNCHANGED <<conversations, stream, events, stored>>
        BY <2>1 DEF chatVars, SaveProvider, RemoveProvider
      <3> QED BY <3>1 DEF ChatInv, DoneMeansStored
    <2>2. CASE RemoveConversation
      <3>1. UNCHANGED <<stream, events, stored>> /\ conversations' \in Seq(WholeConversation)
        BY <2>2, ConversationsKept DEF RemoveConversation, ChatInv
      <3> QED BY <3>1 DEF ChatInv, DoneMeansStored
    <2>3. ASSUME NEW s \in Streams, Relay(s) PROVE ChatInv'
      BY <2>3, OpenKeeps, RefusalKeeps, DeltaKeeps, AnswerKeeps, LeavingKeeps, AppendKeeps, FinishKeeps DEF Relay
    <2> QED BY <2>1, <2>2, <2>3 DEF ChatNext
  <1>3. ChatInv => ChatIsKept
    <2>1. ASSUME ChatInv, NEW i \in DOMAIN conversations PROVE WholeExchanges(conversations[i].messages)
      <3>1. conversations[i] \in WholeConversation
        BY <2>1 DEF ChatInv
      <3> QED BY <3>1 DEF WholeConversation
    <2> QED BY <2>1 DEF ChatInv, ChatIsKept, ExchangesStayWhole, WholeExchanges
  <1> QED BY <1>1, <1>2, <1>3, PTL DEF ChatSpec

-----------------------------------------------------------------------------
(* The HTTP surface. A request in flight was admitted, one that waits for its  *)
(* vault receipt knows that there is a Mission, one that waits for its notes   *)
(* made a revision the Goal has by now, and one without an Origin has been     *)
(* remembered in reached.                                                      *)

HandlerStages == {"reading", "notes", "vault", "streaming", "blocked"}
Request ==
  [route : {h.name : h \in RouteHandlers}, stage : HandlerStages, input : {h.input : h \in RouteHandlers},
   revision : Nat, gone : BOOLEAN, admitted : BOOLEAN, interactive : BOOLEAN, bare : BOOLEAN]

Phases == {"none", "queued", "running", "settled", "failed"}

Sound(f, goalNow, phase, known) ==
  f # Free =>
    /\ f \in Request
    /\ f.admitted = TRUE
    /\ f.revision <= goalNow
    /\ f.stage = "notes" /\ f.route = "reviseGoal" => f.revision > 0
    /\ f.stage = "vault" => phase # "none"
    /\ f.bare => known
    /\ ~(f.gone /\ f.stage = "blocked")

Announced(event, revision, phase) ==
  \/ event = NoEvent
  \/ \E n \in Nat : event = <<"goal.revised", n>> /\ n > 0 /\ n <= revision
  \/ \E k \in {"mission.created", "mission.updated"} : \E s \in Phases :
       event = <<k, s>> /\ phase # "none"

ApiInv ==
  /\ flight \in [Connections -> {Free} \cup Request]
  /\ \A c \in Connections : Sound(flight[c], goalRevision, missionPhase, reached)
  /\ goalRevision \in Nat /\ missionPhase \in Phases /\ trespass = FALSE
  /\ reached \in BOOLEAN
  /\ contact # "nobody" => reached
  /\ Announced(published, goalRevision, missionPhase)

(* The handlers move a Mission from phase to phase, and never remove it.       *)
PhaseStep(p, q) == q = p \/ q \in Phases \ {"none"}

LEMMA PhaseFacts ==
  ASSUME NEW p \in Phases, NEW q, PhaseStep(p, q)
  PROVE  /\ q \in Phases
         /\ p # "none" => q # "none"
  BY DEF PhaseStep

(* Announcements stay true while the store moves on.                           *)
LEMMA AnnouncedStays ==
  ASSUME NEW e, NEW r \in Nat, NEW s \in Nat, r <= s, NEW p \in Phases, NEW q, PhaseStep(p, q),
         Announced(e, r, p)
  PROVE  Announced(e, s, q)
  <1>1. CASE e = NoEvent
    BY <1>1 DEF Announced
  <1>2. CASE \E n \in Nat : e = <<"goal.revised", n>> /\ n > 0 /\ n <= r
    <2>1. PICK n \in Nat : e = <<"goal.revised", n>> /\ n > 0 /\ n <= r
      BY <1>2
    <2>2. n <= s
      BY <2>1
    <2> QED BY <2>1, <2>2 DEF Announced
  <1>3. ASSUME NEW k \in {"mission.created", "mission.updated"}, NEW t \in Phases,
               e = <<k, t>>, p # "none"
        PROVE  Announced(e, s, q)
    BY <1>3, PhaseFacts DEF Announced
  <1> QED BY <1>1, <1>2, <1>3 DEF Announced

(* The bridge lets nobody through but the user's own pages and processes.      *)
LEMMA BridgeIsTheUsers == BridgeUsers \subseteq {TRUE}
  <1>1. ~mayUseBridge("other site")
    BY DEF mayUseBridge, Headers, checkLocalRequest
  <1>2. ~mayUseBridge("rebound site")
    BY DEF mayUseBridge, Headers, checkLocalRequest
  <1>3. ASSUME NEW s \in Senders, mayUseBridge(s) PROVE s \in {"own page", "local process"}
    BY <1>1, <1>2, <1>3 DEF Senders
  <1> QED BY <1>3 DEF BridgeUsers

(* A step of one connection: the others keep their requests.                   *)
Only(c) == \A d \in Connections \ {c} : flight'[d] = flight[d]

(* A request whose work is over, and one that goes on at another stage.        *)
LEMMA AnswerFrees ==
  ASSUME NEW c \in Connections, NEW status, ApiInv, Answer(c, status)
  PROVE  flight' \in [Connections -> {Free} \cup Request] /\ flight'[c] = Free /\ Only(c)
  BY DEF Answer, ApiInv, Only

LEMMA StageMoves ==
  ASSUME NEW c \in Connections, NEW s \in HandlerStages, ApiInv, flight[c] # Free, Stage(c, s)
  PROVE  /\ flight' \in [Connections -> {Free} \cup Request] /\ Only(c)
         /\ flight'[c] = [flight[c] EXCEPT !.stage = s]
         /\ answer' = NoAnswer
  <1>1. flight[c] \in Request
    BY DEF ApiInv, Sound
  <1>2. [flight[c] EXCEPT !.stage = s] \in Request
    BY <1>1 DEF Request
  <1> QED BY <1>1, <1>2 DEF Stage, ApiInv, Only

(* What a step must do: an event of a Mission is sent with what the store      *)
(* holds, and a handler that was waiting for its vault receipt answers "done"  *)
(* only with it.                                                               *)
TellsTheStore ==
  published' # published /\ published'[1] \in {"mission.created", "mission.updated"} =>
    published'[2] = missionPhase'

Honest ==
  /\ TellsTheStore
  /\ \A d \in Connections :
       (IF flight[d] = Free THEN FALSE ELSE flight[d].stage = "vault") /\ flight'[d] = Free
         /\ answer' = "done" =>
       vaultReceipt' /\ published' = <<"mission.updated", missionPhase'>>

(* An event that is sent: the revision a request made, or the phase the        *)
(* Mission has by then.                                                        *)
Sends ==
  \/ published' = published
  \/ \E n \in Nat : published' = <<"goal.revised", n>> /\ n > 0 /\ n <= goalRevision'
  \/ \E k \in {"mission.created", "mission.updated"} :
       published' = <<k, missionPhase'>> /\ missionPhase' # "none"

LEMMA SendingTells ==
  ASSUME Sends, missionPhase' \in Phases
  PROVE  /\ TellsTheStore
         /\ published' = published \/ Announced(published', goalRevision', missionPhase')
  <1>1. CASE published' = published
    BY <1>1 DEF TellsTheStore
  <1>2. ASSUME NEW n \in Nat, published' = <<"goal.revised", n>>, n > 0, n <= goalRevision'
        PROVE  /\ TellsTheStore
               /\ Announced(published', goalRevision', missionPhase')
    <2>1. published'[1] = "goal.revised"
      BY <1>2
    <2> QED BY <1>2, <2>1 DEF TellsTheStore, Announced
  <1>3. ASSUME NEW k \in {"mission.created", "mission.updated"},
               published' = <<k, missionPhase'>>, missionPhase' # "none"
        PROVE  /\ TellsTheStore
               /\ Announced(published', goalRevision', missionPhase')
    <2>1. published'[2] = missionPhase'
      BY <1>3
    <2> QED BY <1>3, <2>1 DEF TellsTheStore, Announced
  <1> QED BY <1>1, <1>2, <1>3 DEF Sends

(* The other connections stay sound whenever the store moves on.               *)
LEMMA OthersSound ==
  ASSUME NEW c \in Connections, ApiInv, Only(c), PhaseStep(missionPhase, missionPhase'),
         goalRevision' \in Nat, goalRevision <= goalRevision', reached => reached'
  PROVE  /\ \A d \in Connections \ {c} : Sound(flight'[d], goalRevision', missionPhase', reached')
         /\ \A d \in Connections \ {c} : flight[d] # Free => flight'[d] # Free
  <1>1. missionPhase # "none" => missionPhase' # "none"
    BY PhaseFacts DEF ApiInv
  <1>2. ASSUME NEW d \in Connections \ {c}
        PROVE  Sound(flight'[d], goalRevision', missionPhase', reached')
    <2>1. flight'[d] = flight[d] /\ Sound(flight[d], goalRevision, missionPhase, reached)
      BY <1>2 DEF Only, ApiInv
    <2>2. flight[d] # Free => flight[d].revision \in Nat /\ goalRevision \in Nat
      BY <2>1 DEF Sound, Request, ApiInv
    <2>3. flight[d] # Free => flight[d].revision <= goalRevision'
      BY <2>1, <2>2 DEF Sound
    <2> QED BY <2>1, <2>3, <1>1 DEF Sound
  <1> QED BY <1>2 DEF Only

(* The two together, for a step of connection c that ends or goes on.          *)
LEMMA RequestStep ==
  ASSUME NEW c \in Connections, ApiInv, Only(c),
         flight' \in [Connections -> {Free} \cup Request],
         Sound(flight'[c], goalRevision', missionPhase', reached'),
         PhaseStep(missionPhase, missionPhase'),
         goalRevision' \in Nat, goalRevision <= goalRevision',
         trespass' = FALSE, reached' \in BOOLEAN, reached => reached',
         contact' # "nobody" => reached',
         Sends,
         \/ flight[c] = Free \/ flight'[c] # Free \/ flight[c].stage # "vault" \/ answer' # "done"
         \/ vaultReceipt' /\ published' = <<"mission.updated", missionPhase'>>
  PROVE  ApiInv' /\ Honest
  <1>1. \A d \in Connections : Sound(flight'[d], goalRevision', missionPhase', reached')
    BY OthersSound
  <1>2. missionPhase' \in Phases
    BY PhaseFacts DEF ApiInv
  <1>3. Announced(published', goalRevision', missionPhase')
    <2>1. CASE published' = published
      BY <2>1, AnnouncedStays DEF ApiInv
    <2>2. CASE published' # published
      BY <1>2, <2>2, SendingTells
    <2> QED BY <2>1, <2>2
  <1>4. Honest
    BY <1>2, OthersSound, SendingTells DEF Honest
  <1> QED BY <1>1, <1>2, <1>3, <1>4 DEF ApiInv

(* The store is left alone, and so is what the requests may rely on.           *)
Untouched == UNCHANGED <<goalRevision, missionPhase, trespass, published, contact, reached>>

LEMMA Unmoved == ASSUME ApiInv PROVE PhaseStep(missionPhase, missionPhase)
  BY DEF PhaseStep

LEMMA QuietAnswer ==
  ASSUME NEW c \in Connections, NEW status, ApiInv, Answer(c, status), Untouched,
         flight[c] = Free \/ flight[c].stage # "vault" \/ status # "done"
  PROVE  ApiInv' /\ Honest
  <1>1. Sound(flight'[c], goalRevision', missionPhase', reached')
    BY AnswerFrees DEF Sound
  <1>2. answer' = status
    BY DEF Answer
  <1>3. goalRevision \in Nat /\ goalRevision' = goalRevision /\ goalRevision <= goalRevision'
    BY DEF ApiInv, Untouched
  <1>4. PhaseStep(missionPhase, missionPhase')
    BY DEF PhaseStep, Untouched
  <1>5. /\ trespass' = FALSE /\ reached' \in BOOLEAN /\ (reached => reached')
        /\ contact' # "nobody" => reached'
        /\ Sends
    BY DEF ApiInv, Untouched, Sends
  <1> QED BY <1>1, <1>2, <1>3, <1>4, <1>5, AnswerFrees, RequestStep

(* A request whose handler goes on at another stage.                           *)
LEMMA StagedSound ==
  ASSUME NEW c \in Connections, NEW s \in HandlerStages, ApiInv, flight[c] # Free, Stage(c, s),
         s = "vault" => missionPhase' # "none", s = "blocked" => ~flight[c].gone,
         s = "notes" => flight[c].route # "reviseGoal",
         goalRevision' \in Nat, goalRevision <= goalRevision', reached => reached'
  PROVE  /\ flight' \in [Connections -> {Free} \cup Request] /\ Only(c)
         /\ Sound(flight'[c], goalRevision', missionPhase', reached')
         /\ answer' # "done"
  <1>0. flight[c] \in Request /\ Sound(flight[c], goalRevision, missionPhase, reached)
        /\ goalRevision \in Nat
    BY DEF ApiInv, Sound
  <1>1. /\ flight'[c] \in Request /\ flight'[c].admitted = flight[c].admitted
        /\ flight'[c].stage = s /\ flight'[c].bare = flight[c].bare
        /\ flight'[c].gone = flight[c].gone /\ flight'[c].revision = flight[c].revision
        /\ flight'[c].route = flight[c].route
    <2>1. PICK f : f = flight[c]
      OBVIOUS
    <2>2. f \in Request /\ flight'[c] = [f EXCEPT !.stage = s]
      BY <1>0, <2>1, StageMoves
    <2> QED BY <2>1, <2>2 DEF Request
  <1>2. flight[c].revision <= goalRevision'
    <2>1. flight[c].revision \in Nat /\ flight[c].revision <= goalRevision
      BY <1>0 DEF Request, Sound
    <2> QED BY <1>0, <2>1
  <1>3. Sound(flight'[c], goalRevision', missionPhase', reached')
    BY <1>0, <1>1, <1>2 DEF Sound
  <1>4. answer' # "done"
    BY StageMoves DEF NoAnswer
  <1> QED BY <1>3, <1>4, StageMoves

LEMMA QuietStage ==
  ASSUME NEW c \in Connections, NEW s \in HandlerStages, ApiInv, flight[c] # Free, Stage(c, s),
         s \notin {"vault", "notes"}, s = "blocked" => ~flight[c].gone, Untouched
  PROVE  ApiInv' /\ Honest
  <1>1. goalRevision \in Nat /\ goalRevision' = goalRevision /\ goalRevision <= goalRevision'
    BY DEF ApiInv, Untouched
  <1>2. PhaseStep(missionPhase, missionPhase')
    BY DEF PhaseStep, Untouched
  <1>3. /\ trespass' = FALSE /\ reached' \in BOOLEAN /\ (reached => reached')
        /\ contact' # "nobody" => reached'
        /\ Sends
    BY DEF ApiInv, Untouched, Sends
  <1> QED BY <1>1, <1>2, <1>3, StagedSound, RequestStep

(* The door: what is not let through, what is answered at once, and what goes  *)
(* on to a handler, by itself or through the bridge.                           *)
LEMMA DoorHonest ==
  ASSUME NEW c \in Connections, ApiInv, TurnedAway(c) \/ ProbeAnswered(c) \/ BridgeDeclines(c)
  PROVE  ApiInv' /\ Honest
  <1>1. flight[c] = Free /\ Untouched
    BY DEF TurnedAway, ProbeAnswered, BridgeDeclines, knowledge, Untouched
  <1>2. PICK status : Answer(c, status)
    BY DEF TurnedAway, ProbeAnswered, BridgeDeclines
  <1> QED BY <1>1, <1>2, QuietAnswer

LEMMA EnterHonest ==
  ASSUME NEW c \in Connections, NEW h \in RouteHandlers, NEW by \in Requesters, NEW admitted,
         admitted = TRUE, flight[c] = Free, Enter(c, h, by, admitted), ApiInv
  PROVE  ApiInv' /\ Honest
  <1>1. /\ goalRevision \in Nat /\ goalRevision' = goalRevision /\ goalRevision <= goalRevision'
        /\ trespass' = FALSE /\ Sends /\ contact' = contact
        /\ reached' \in BOOLEAN /\ (reached => reached')
    BY DEF ApiInv, Enter, knowledge, Sends
  <1>2. PhaseStep(missionPhase, missionPhase')
    BY DEF PhaseStep, Enter, knowledge
  <1>3. contact' # "nobody" => reached'
    BY <1>1 DEF ApiInv
  <1>4. /\ flight' \in [Connections -> {Free} \cup Request] /\ Only(c)
        /\ Sound(flight'[c], goalRevision', missionPhase', reached')
    <2>1. CASE h.name \in {"missing", "read"}
      <3>1. PICK status : Answer(c, status)
        BY <2>1 DEF Enter
      <3> QED BY <3>1, AnswerFrees DEF Sound
    <2>2. CASE h.name \notin {"missing", "read"}
      <3> DEFINE new == [route |-> h.name, stage |-> "reading", input |-> h.input, gone |-> FALSE,
                         revision |-> 0, admitted |-> admitted, interactive |-> interactive(by.origin),
                         bare |-> by.origin = NoOrigin]
      <3>1. flight' = [flight EXCEPT ![c] = new] /\ reached' = (reached \/ by.origin = NoOrigin)
        BY <2>2 DEF Enter
      <3>2. interactive(by.origin) \in BOOLEAN /\ (by.origin = NoOrigin) \in BOOLEAN
        BY DEF interactive, isAllowedOrigin
      <3>3. new \in Request
        BY <3>2 DEF Request, HandlerStages
      <3>4. /\ new.admitted = TRUE /\ new.stage = "reading" /\ new.gone = FALSE
            /\ new.bare = (by.origin = NoOrigin) /\ new.revision = 0
        OBVIOUS
      <3>5. Sound(new, goalRevision', missionPhase', reached')
        BY <1>1, <3>1, <3>3, <3>4 DEF Sound
      <3>6. flight'[c] = new /\ Only(c) /\ flight' \in [Connections -> {Free} \cup Request]
        BY <3>1, <3>3 DEF Only, ApiInv
      <3> QED BY <3>5, <3>6
    <2> QED BY <2>1, <2>2
  <1> QED BY <1>1, <1>2, <1>3, <1>4, RequestStep

LEMMA ArriveHonest ==
  ASSUME NEW c \in Connections, NEW h \in RouteHandlers, NEW by \in Requesters,
         ApiInv, Arrive(c, h, by)
  PROVE  ApiInv' /\ Honest
  <1>1. by.loopback /\ by.token /\ by.origin \in {NoOrigin} \cup DashboardOrigins \cup identities
    BY DEF Arrive, LetThrough, AtTheDoor, hasValidToken, isAllowedOrigin
  <1>2. Admitted(by) = TRUE
    BY <1>1 DEF Admitted
  <1> QED BY <1>2, EnterHonest DEF Arrive

LEMMA BridgeHonest ==
  ASSUME NEW c \in Connections, NEW h \in RouteHandlers, NEW admitted \in BridgeUsers,
         NEW own \in OwnOrigins, ApiInv, ThroughBridge(c, h, admitted, own)
  PROVE  ApiInv' /\ Honest
  <1> DEFINE by == [loopback |-> TRUE, token |-> TRUE, origin |-> own]
  <1>1. flight[c] = Free /\ LetThrough(by) /\ Enter(c, h, by, admitted)
    BY DEF ThroughBridge
  <1>2. own \in Origins
    BY <1>1 DEF LetThrough, AtTheDoor, isAllowedOrigin, Origins
  <1>3. by \in Requesters
    BY <1>2 DEF Requesters
  <1>4. admitted = TRUE
    BY BridgeIsTheUsers
  <1> QED BY <1>1, <1>3, <1>4, EnterHonest

(* Steps that only end a request, or only move it on.                          *)
LEMMA EndHonest ==
  ASSUME NEW c \in Connections, ApiInv,
         BadInput(c) \/ StoreFails(c) \/ NotesFail(c) \/ AttachFails(c) \/ StreamEnds(c)
  PROVE  ApiInv' /\ Honest
  <1>1. Untouched /\ flight[c] # Free
    BY DEF BadInput, StoreFails, NotesFail, AttachFails, StreamEnds, knowledge, Untouched
  <1>2. PICK status : Answer(c, status) /\ (flight[c].stage # "vault" \/ status # "done")
    <2>1. CASE BadInput(c) \/ StoreFails(c)
      BY <2>1 DEF BadInput, StoreFails
    <2>2. CASE NotesFail(c) \/ AttachFails(c)
      BY <2>2 DEF NotesFail, AttachFails
    <2>3. CASE StreamEnds(c)
      BY <2>3 DEF StreamEnds, Answer
    <2> QED BY <2>1, <2>2, <2>3
  <1> QED BY <1>1, <1>2, QuietAnswer

LEMMA StreamHonest ==
  ASSUME NEW c \in Connections, ApiInv, Blocks(c) \/ Drains(c)
  PROVE  ApiInv' /\ Honest
  <1>1. Untouched /\ flight[c] # Free /\ ~flight[c].gone
    BY DEF Blocks, Drains, knowledge, Untouched
  <1>2. Stage(c, "blocked") \/ Stage(c, "streaming")
    BY DEF Blocks, Drains
  <1> QED BY <1>1, <1>2, QuietStage DEF HandlerStages

LEMMA ClientGoneHonest ==
  ASSUME NEW c \in Connections, ApiInv, ClientGone(c)
  PROVE  ApiInv' /\ Honest
  <1>0. /\ flight[c] # Free /\ flight[c] \in Request
        /\ Sound(flight[c], goalRevision, missionPhase, reached)
        /\ Untouched /\ answer' = NoAnswer
    BY DEF ApiInv, Sound, ClientGone, knowledge, Untouched
  <1> DEFINE new == [flight[c] EXCEPT !.gone = TRUE, !.stage = "streaming"]
  <1>1. flight' = [flight EXCEPT ![c] = new]
    BY <1>0 DEF ClientGone, Listens, ApiInv, Request
  <1>2. /\ new \in Request /\ new.admitted = flight[c].admitted
        /\ new.stage = "streaming" /\ new.bare = flight[c].bare /\ new.revision = flight[c].revision
    BY <1>0 DEF Request, HandlerStages
  <1>3. Sound(new, goalRevision', missionPhase', reached')
    BY <1>0, <1>2 DEF Sound, Untouched
  <1>4. flight'[c] = new /\ Only(c) /\ flight' \in [Connections -> {Free} \cup Request]
    BY <1>1, <1>2 DEF Only, ApiInv
  <1>5. goalRevision \in Nat /\ goalRevision' = goalRevision /\ goalRevision <= goalRevision'
    BY <1>0 DEF ApiInv, Untouched
  <1>6. PhaseStep(missionPhase, missionPhase')
    BY <1>0 DEF PhaseStep, Untouched
  <1>7. /\ trespass' = FALSE /\ reached' \in BOOLEAN /\ (reached => reached')
        /\ contact' # "nobody" => reached'
        /\ Sends
    BY <1>0 DEF ApiInv, Untouched, Sends
  <1>8. answer' # "done"
    BY <1>0 DEF NoAnswer
  <1> QED BY <1>3, <1>4, <1>5, <1>6, <1>7, <1>8, RequestStep

(* The handlers. What they write is written for an admitted request, and a     *)
(* contact is remembered when the request was let in.                          *)
LEMMA HandlerFacts ==
  ASSUME NEW c \in Connections, ApiInv, flight[c] # Free
  PROVE  /\ Writes(c) => trespass' = FALSE
         /\ (Contact(c) /\ reached' = reached) => (contact' # "nobody" => reached')
         /\ goalRevision \in Nat /\ missionPhase \in Phases /\ reached \in BOOLEAN
         /\ trespass = FALSE
         /\ contact # "nobody" => reached
  <1>1. flight[c] \in Request /\ flight[c].admitted = TRUE /\ (flight[c].bare => reached)
    BY DEF ApiInv, Sound
  <1>2. Writes(c) => trespass' = FALSE
    BY <1>1, Zenon DEF ApiInv, Writes
  <1> QED BY <1>1, <1>2 DEF ApiInv, Contact

LEMMA RevisionFacts ==
  ASSUME ApiInv
  PROVE  /\ goalRevision \in Nat /\ goalRevision <= goalRevision
         /\ goalRevision + 1 \in Nat /\ goalRevision <= goalRevision + 1
         /\ 0 <= 1
  <1>1. goalRevision \in Nat
    BY DEF ApiInv
  <1> QED BY <1>1

LEMMA NothingMoves == PhaseStep(missionPhase, missionPhase)
  BY DEF PhaseStep

LEMMA CreateGoalHonest ==
  ASSUME NEW c \in Connections, ApiInv, CreateGoal(c)
  PROVE  ApiInv' /\ Honest
  <1>1. /\ flight[c] # Free /\ Stage(c, "notes") /\ Writes(c) /\ reached' = reached
        /\ missionPhase' = missionPhase /\ contact' = contact /\ Sends
        /\ flight[c].route # "reviseGoal"
    BY DEF CreateGoal, Acting, Sends
  <1>2. goalRevision' \in Nat /\ goalRevision <= goalRevision'
    BY <1>1, RevisionFacts DEF CreateGoal
  <1>3. "notes" \in HandlerStages
    BY DEF HandlerStages
  <1> QED BY <1>1, <1>2, <1>3, HandlerFacts, NothingMoves, StagedSound, RequestStep

LEMMA ReviseGoalHonest ==
  ASSUME NEW c \in Connections, NEW changed \in BOOLEAN, ApiInv, ReviseGoal(c, changed)
  PROVE  ApiInv' /\ Honest
  <1>1. /\ flight[c] # Free /\ flight[c].stage = "reading" /\ reached' = reached
        /\ missionPhase' = missionPhase /\ contact' = contact /\ published' = published
    BY DEF ReviseGoal, Acting
  <1>2. CASE ~flight[c].interactive \/ goalRevision = 0 \/ ~changed
    <2>1. Untouched
      BY <1>1, <1>2 DEF ReviseGoal, Untouched
    <2>2. PICK status : Answer(c, status)
      BY <1>2 DEF ReviseGoal
    <2> QED BY <1>1, <2>1, <2>2, QuietAnswer
  <1>3. CASE ~(~flight[c].interactive \/ goalRevision = 0 \/ ~changed)
    <2> DEFINE new == [flight[c] EXCEPT !.stage = "notes", !.revision = goalRevision + 1]
    <2>0. /\ flight[c] \in Request /\ Sound(flight[c], goalRevision, missionPhase, reached)
          /\ goalRevision \in Nat
      BY <1>1 DEF ApiInv, Sound
    <2>1. /\ flight' = [flight EXCEPT ![c] = new] /\ answer' = NoAnswer
          /\ Writes(c) /\ goalRevision' = goalRevision + 1
      BY <1>3, <2>0 DEF ReviseGoal, ApiInv, Request
    <2>2. goalRevision' \in Nat /\ goalRevision <= goalRevision' /\ goalRevision' > 0
          /\ goalRevision + 1 <= goalRevision'
      BY <2>0, <2>1
    <2>3. /\ new \in Request /\ new.admitted = flight[c].admitted /\ new.stage = "notes"
          /\ new.bare = flight[c].bare /\ new.revision = goalRevision + 1
      <3>1. PICK f : f = flight[c]
        OBVIOUS
      <3>2. f \in Request /\ goalRevision + 1 \in Nat /\ new = [f EXCEPT !.stage = "notes", !.revision = goalRevision + 1]
        BY <2>0, <3>1
      <3> HIDE DEF new
      <3>3. /\ new \in Request /\ new.admitted = f.admitted /\ new.stage = "notes"
            /\ new.bare = f.bare /\ new.revision = goalRevision + 1
        BY <3>2 DEF Request, HandlerStages
      <3> QED BY <3>1, <3>3
    <2>4. Sound(new, goalRevision', missionPhase', reached')
      BY <1>1, <2>0, <2>1, <2>2, <2>3 DEF Sound
    <2>5. flight'[c] = new /\ Only(c) /\ flight' \in [Connections -> {Free} \cup Request]
      BY <2>1, <2>3 DEF Only, ApiInv
    <2>6. Sends /\ answer' # "done"
      BY <1>1, <2>1 DEF Sends, NoAnswer
    <2> QED BY <1>1, <2>1, <2>2, <2>4, <2>5, <2>6, HandlerFacts, NothingMoves, RequestStep
  <1> QED BY <1>2, <1>3

LEMMA WriteNotesHonest ==
  ASSUME NEW c \in Connections, ApiInv, WriteNotes(c)
  PROVE  ApiInv' /\ Honest
  <1>1. /\ flight[c] # Free /\ flight[c].stage = "notes" /\ reached' = reached /\ trespass' = trespass
        /\ missionPhase' = missionPhase /\ contact' = contact /\ goalRevision' = goalRevision
        /\ Answer(c, "done")
    BY DEF WriteNotes
  <1>2. /\ flight[c].revision \in Nat /\ flight[c].revision <= goalRevision
        /\ flight[c].route = "reviseGoal" => flight[c].revision > 0
    BY <1>1 DEF ApiInv, Sound, Request
  <1>3. goalRevision <= goalRevision'
    BY <1>1, RevisionFacts
  <1>4. Sends
    BY <1>1, <1>2 DEF WriteNotes, Sends
  <1>5. Sound(flight'[c], goalRevision', missionPhase', reached')
    BY <1>1, AnswerFrees DEF Sound
  <1> QED BY <1>1, <1>2, <1>3, <1>4, <1>5, HandlerFacts, NothingMoves, AnswerFrees, RequestStep

LEMMA CreateMissionHonest ==
  ASSUME NEW c \in Connections, NEW more \in BOOLEAN, ApiInv, CreateMission(c, more)
  PROVE  ApiInv' /\ Honest
  <1>1. /\ flight[c] # Free /\ flight[c].stage = "reading" /\ reached' = reached
        /\ goalRevision' = goalRevision /\ contact' = contact
    BY DEF CreateMission, Acting
  <1>2. CASE Answer(c, "refused") /\ UNCHANGED <<missionPhase, vaultReceipt, trespass, published>>
    <2>1. Untouched
      BY <1>1, <1>2 DEF Untouched
    <2> QED BY <1>1, <1>2, <2>1, QuietAnswer
  <1>3. CASE StartsMission(c, more)
    <2>1. /\ missionPhase' = "queued" \/ (isActive /\ missionPhase' = missionPhase)
          /\ Writes(c) /\ Answer(c, "done") /\ published' = <<"mission.created", missionPhase'>>
      BY <1>3 DEF StartsMission
    <2>2. PhaseStep(missionPhase, missionPhase') /\ missionPhase' # "none"
      BY <2>1 DEF PhaseStep, Phases, isActive
    <2>3. Sends
      BY <2>1, <2>2 DEF Sends
    <2>4. goalRevision' \in Nat /\ goalRevision <= goalRevision'
      BY <1>1, RevisionFacts
    <2>5. Sound(flight'[c], goalRevision', missionPhase', reached')
      BY <2>1, AnswerFrees DEF Sound
    <2> QED BY <1>1, <2>1, <2>2, <2>3, <2>4, <2>5, HandlerFacts, AnswerFrees, RequestStep
  <1> QED BY <1>2, <1>3 DEF CreateMission

(* Reading the Missions may put one right; it is there before and after.       *)
LEMMA ReadMissionsHonest ==
  ASSUME NEW c \in Connections, ApiInv, ReadMissions(c)
  PROVE  ApiInv' /\ Honest
  <1>1. /\ flight[c] # Free /\ flight[c].stage = "reading" /\ reached' = reached
        /\ goalRevision' = goalRevision /\ contact' = contact /\ Sends /\ Answer(c, "done")
    BY DEF ReadMissions, Acting, Sends
  <1>2. /\ missionPhase' = missionPhase \/ missionPhase' \in {"queued", "failed"}
        /\ Writes(c) \/ trespass' = trespass
    BY DEF ReadMissions
  <1>3. PhaseStep(missionPhase, missionPhase') /\ trespass' = FALSE
    BY <1>1, <1>2, HandlerFacts DEF PhaseStep, Phases
  <1>4. goalRevision' \in Nat /\ goalRevision <= goalRevision'
    BY <1>1, RevisionFacts
  <1>5. Sound(flight'[c], goalRevision', missionPhase', reached')
    BY <1>1, AnswerFrees DEF Sound
  <1> QED BY <1>1, <1>3, <1>4, <1>5, HandlerFacts, AnswerFrees, RequestStep

LEMMA ClaimHonest ==
  ASSUME NEW c \in Connections, NEW allowed \in BOOLEAN, ApiInv, Claim(c, allowed)
  PROVE  ApiInv' /\ Honest
  <1>1. /\ flight[c] # Free /\ flight[c].stage = "reading" /\ reached' = reached
        /\ goalRevision' = goalRevision /\ Contact(c) /\ Answer(c, "done")
    BY DEF Claim, Acting
  <1>2. PhaseStep(missionPhase, missionPhase') /\ trespass' = FALSE /\ Sends
    <2>1. CASE /\ missionPhase' = "running" /\ Writes(c)
               /\ published' = <<"mission.updated", "running">>
      <3>1. missionPhase' # "none" /\ PhaseStep(missionPhase, missionPhase')
        BY <2>1 DEF PhaseStep, Phases
      <3> QED BY <1>1, <2>1, <3>1, HandlerFacts DEF Sends
    <2>2. CASE (Writes(c) \/ UNCHANGED trespass) /\ UNCHANGED <<missionPhase, leaseLive, published>>
      BY <1>1, <2>2, HandlerFacts DEF PhaseStep, Sends
    <2> QED BY <2>1, <2>2 DEF Claim
  <1>3. goalRevision' \in Nat /\ goalRevision <= goalRevision'
    BY <1>1, RevisionFacts
  <1>4. Sound(flight'[c], goalRevision', missionPhase', reached')
    BY <1>1, AnswerFrees DEF Sound
  <1> QED BY <1>1, <1>2, <1>3, <1>4, HandlerFacts, AnswerFrees, RequestStep

LEMMA ResultsHonest ==
  ASSUME NEW c \in Connections, ApiInv, Results(c)
  PROVE  ApiInv' /\ Honest
  <1>1. /\ flight[c] # Free /\ flight[c].stage = "reading" /\ reached' = reached
        /\ goalRevision' = goalRevision /\ Sends
        /\ flight[c].route # "reviseGoal"
    BY DEF Results, Acting, Sends
  <1>2. goalRevision' \in Nat /\ goalRevision <= goalRevision'
    BY <1>1, RevisionFacts
  <1>3. CASE missionPhase = "running" /\ leaseLive
    <2>1. missionPhase' = "settled" /\ Writes(c) /\ Contact(c) /\ Stage(c, "vault")
      BY <1>3 DEF Results
    <2>2. PhaseStep(missionPhase, missionPhase') /\ missionPhase' # "none" /\ "vault" \in HandlerStages
      BY <2>1 DEF PhaseStep, Phases, HandlerStages
    <2> QED BY <1>1, <1>2, <2>1, <2>2, HandlerFacts, StagedSound, RequestStep
  <1>4. CASE ~(missionPhase = "running" /\ leaseLive)
    <2>1. /\ missionPhase' = missionPhase /\ trespass' = trespass
          /\ Contact(c) \/ contact' = contact
          /\ Answer(c, "done") \/ Answer(c, "refused")
      BY <1>4 DEF Results
    <2>2. contact' # "nobody" => reached'
      BY <1>1, <2>1, HandlerFacts
    <2>3. PICK status : Answer(c, status)
      BY <2>1
    <2>4. Sound(flight'[c], goalRevision', missionPhase', reached')
      BY <2>3, AnswerFrees DEF Sound
    <2> QED BY <1>1, <1>2, <2>1, <2>2, <2>3, <2>4, HandlerFacts, NothingMoves, AnswerFrees, RequestStep
  <1> QED BY <1>3, <1>4

LEMMA AttachReceiptHonest ==
  ASSUME NEW c \in Connections, ApiInv, AttachReceipt(c)
  PROVE  ApiInv' /\ Honest
  <1>1. /\ flight[c] # Free /\ flight[c].stage = "vault" /\ reached' = reached /\ trespass' = trespass
        /\ missionPhase' = missionPhase /\ contact' = contact /\ goalRevision' = goalRevision
        /\ vaultReceipt' = TRUE /\ published' = <<"mission.updated", missionPhase>>
        /\ Answer(c, "done")
    BY DEF AttachReceipt
  <1>2. missionPhase # "none"
    BY <1>1 DEF ApiInv, Sound
  <1>3. Sends
    BY <1>1, <1>2 DEF Sends
  <1>4. goalRevision' \in Nat /\ goalRevision <= goalRevision'
    BY <1>1, RevisionFacts
  <1>5. Sound(flight'[c], goalRevision', missionPhase', reached')
    BY <1>1, AnswerFrees DEF Sound
  <1> QED BY <1>1, <1>2, <1>3, <1>4, <1>5, HandlerFacts, NothingMoves, AnswerFrees, RequestStep

LEMMA FailuresHonest ==
  ASSUME NEW c \in Connections, ApiInv, Failures(c)
  PROVE  ApiInv' /\ Honest
  <1>1. /\ flight[c] # Free /\ flight[c].stage = "reading" /\ reached' = reached
        /\ goalRevision' = goalRevision
    BY DEF Failures, Acting
  <1>2. CASE ~(missionPhase = "running" /\ leaseLive)
    <2>1. Untouched /\ Answer(c, "refused")
      BY <1>1, <1>2 DEF Failures, Untouched
    <2> QED BY <1>1, <2>1, QuietAnswer
  <1>3. CASE missionPhase = "running" /\ leaseLive
    <2>1. /\ missionPhase' \in {"queued", "failed"} /\ Writes(c) /\ Contact(c) /\ Answer(c, "done")
          /\ published' = <<"mission.updated", missionPhase'>>
      BY <1>3 DEF Failures
    <2>2. PhaseStep(missionPhase, missionPhase') /\ missionPhase' # "none"
      BY <2>1 DEF PhaseStep, Phases
    <2>3. Sends
      BY <2>1, <2>2 DEF Sends
    <2>4. goalRevision' \in Nat /\ goalRevision <= goalRevision'
      BY <1>1, RevisionFacts
    <2>5. Sound(flight'[c], goalRevision', missionPhase', reached')
      BY <2>1, AnswerFrees DEF Sound
    <2> QED BY <1>1, <2>1, <2>2, <2>3, <2>4, <2>5, HandlerFacts, AnswerFrees, RequestStep
  <1> QED BY <1>2, <1>3

LEMMA PingHonest ==
  ASSUME NEW c \in Connections, ApiInv, Ping(c)
  PROVE  ApiInv' /\ Honest
  <1>1. /\ flight[c] # Free /\ flight[c].stage = "reading" /\ reached' = reached /\ trespass' = trespass
        /\ goalRevision' = goalRevision /\ missionPhase' = missionPhase /\ Sends
    BY DEF Ping, Acting, knowledge, Sends
  <1>2. PICK status : Answer(c, status)
    BY DEF Ping
  <1>3. contact' = contact \/ flight[c].bare
    BY DEF Ping
  <1>4. contact' # "nobody" => reached'
    BY <1>1, <1>3 DEF ApiInv, Sound
  <1>5. goalRevision' \in Nat /\ goalRevision <= goalRevision'
    BY <1>1, RevisionFacts
  <1>6. Sound(flight'[c], goalRevision', missionPhase', reached')
    BY <1>2, AnswerFrees DEF Sound
  <1> QED BY <1>1, <1>2, <1>4, <1>5, <1>6, HandlerFacts, NothingMoves, AnswerFrees, RequestStep

LEMMA OtherWriteHonest ==
  ASSUME NEW c \in Connections, ApiInv, OtherWrite(c) \/ StreamStarts(c)
  PROVE  ApiInv' /\ Honest
  <1>1. /\ flight[c] # Free /\ flight[c].stage = "reading"
        /\ goalRevision' = goalRevision /\ missionPhase' = missionPhase /\ Sends
        /\ reached' = reached /\ contact' = contact
    BY DEF OtherWrite, StreamStarts, Acting, Sends
  <1>2. trespass' = FALSE
    BY <1>1, HandlerFacts DEF OtherWrite, StreamStarts
  <1>3. goalRevision' \in Nat /\ goalRevision <= goalRevision'
    BY <1>1, RevisionFacts
  <1>4. CASE OtherWrite(c)
    <2>1. PICK status : Answer(c, status)
      BY <1>4 DEF OtherWrite
    <2>2. Sound(flight'[c], goalRevision', missionPhase', reached')
      BY <2>1, AnswerFrees DEF Sound
    <2> QED BY <1>1, <1>2, <1>3, <2>1, <2>2, HandlerFacts, NothingMoves, AnswerFrees, RequestStep
  <1>5. CASE StreamStarts(c)
    <2>1. Stage(c, "streaming") /\ "streaming" \in HandlerStages
      BY <1>5 DEF StreamStarts, HandlerStages
    <2> QED BY <1>1, <1>2, <1>3, <2>1, HandlerFacts, NothingMoves, StagedSound, RequestStep
  <1> QED BY <1>4, <1>5

(* Pairing, time and restarts.                                                 *)
LEMMA WorldHonest ==
  ASSUME ApiInv,
         (\E e \in ExtensionOrigins : Paired(e)) \/ LeaseExpires \/ ContactAges
  PROVE  ApiInv' /\ Honest
  <1>1. /\ flight' = flight /\ goalRevision' = goalRevision /\ missionPhase' = missionPhase
        /\ trespass' = trespass /\ published' = published /\ reached' = reached
        /\ contact' = contact \/ contact # "nobody"
        /\ answer' = NoAnswer
    BY DEF Paired, LeaseExpires, ContactAges, knowledge
  <1>2. ApiInv'
    BY <1>1 DEF ApiInv
  <1> QED BY <1>1, <1>2 DEF Honest, TellsTheStore, NoAnswer

LEMMA RestartHonest ==
  ASSUME ApiInv, KernelRestarts
  PROVE  ApiInv' /\ Honest
  <1>1. \A c \in Connections : Sound(flight'[c], goalRevision', missionPhase', reached')
    BY DEF KernelRestarts, Sound
  <1>2. Announced(published', goalRevision', missionPhase')
    BY DEF KernelRestarts, Announced
  <1>3. ApiInv'
    BY <1>1, <1>2 DEF KernelRestarts, ApiInv, knowledge
  <1>4. Honest
    <2>1. published'[1] = "none" /\ answer' = "none"
      BY DEF KernelRestarts, NoEvent, NoAnswer
    <2> QED BY <2>1 DEF Honest, TellsTheStore
  <1> QED BY <1>3, <1>4

LEMMA ApiSteps ==
  ASSUME ApiInv, ApiNext
  PROVE  ApiInv' /\ Honest
  <1>1. ASSUME NEW c \in Connections,
               \/ TurnedAway(c) \/ ProbeAnswered(c) \/ BridgeDeclines(c)
               \/ BadInput(c) \/ StoreFails(c) \/ NotesFail(c) \/ AttachFails(c) \/ StreamEnds(c)
               \/ Blocks(c) \/ Drains(c) \/ ClientGone(c)
               \/ CreateGoal(c) \/ WriteNotes(c) \/ ReadMissions(c) \/ Failures(c)
               \/ Ping(c) \/ Results(c) \/ AttachReceipt(c) \/ StreamStarts(c) \/ OtherWrite(c)
        PROVE  ApiInv' /\ Honest
    BY <1>1, DoorHonest, EndHonest, StreamHonest, ClientGoneHonest, CreateGoalHonest,
       WriteNotesHonest, ReadMissionsHonest, FailuresHonest, PingHonest,
       ResultsHonest, AttachReceiptHonest, OtherWriteHonest
  <1>2. ASSUME NEW c \in Connections, NEW changed \in BOOLEAN, ReviseGoal(c, changed)
        PROVE  ApiInv' /\ Honest
    BY <1>2, ReviseGoalHonest
  <1>6. ASSUME NEW c \in Connections, NEW more \in BOOLEAN, CreateMission(c, more)
        PROVE  ApiInv' /\ Honest
    BY <1>6, CreateMissionHonest
  <1>7. ASSUME NEW c \in Connections, NEW allowed \in BOOLEAN, Claim(c, allowed)
        PROVE  ApiInv' /\ Honest
    BY <1>7, ClaimHonest
  <1>3. ASSUME NEW c \in Connections, NEW by \in Requesters, NEW h \in RouteHandlers, Arrive(c, h, by)
        PROVE  ApiInv' /\ Honest
    BY <1>3, ArriveHonest
  <1>4. ASSUME NEW c \in Connections, NEW admitted \in BridgeUsers, NEW own \in OwnOrigins,
               NEW h \in RouteHandlers, ThroughBridge(c, h, admitted, own)
        PROVE  ApiInv' /\ Honest
    BY <1>4, BridgeHonest
  <1>5. CASE (\E e \in ExtensionOrigins : Paired(e)) \/ LeaseExpires \/ ContactAges \/ KernelRestarts
    BY <1>5, WorldHonest, RestartHonest
  <1> QED BY <1>1, <1>2, <1>3, <1>4, <1>5, <1>6, <1>7 DEF ApiNext

(* Writes are admitted ones, events follow the store and say what it holds,    *)
(* presence means an agent, no stream handler is stranded, and an accepted     *)
(* result is complete.                                                         *)
THEOREM RequestsAreKept == ApiSpec => RequestsAreHonoured
  <1>1. ApiInit => ApiInv
    <2>1. ASSUME ApiInit PROVE /\ flight \in [Connections -> {Free} \cup Request]
                               /\ \A c \in Connections : flight[c] = Free
      BY <2>1 DEF ApiInit
    <2>2. ASSUME ApiInit PROVE \A c \in Connections : Sound(flight[c], goalRevision, missionPhase, reached)
      BY <2>1, <2>2 DEF Sound
    <2>3. ASSUME ApiInit PROVE Announced(published, goalRevision, missionPhase)
      BY <2>3 DEF ApiInit, Announced
    <2>4. ASSUME ApiInit PROVE /\ goalRevision \in Nat /\ missionPhase \in Phases
                               /\ trespass = FALSE /\ reached \in BOOLEAN
                               /\ contact # "nobody" => reached
      BY <2>4 DEF ApiInit, Phases
    <2> QED BY <2>1, <2>2, <2>3, <2>4 DEF ApiInv
  <1>2. ApiInv /\ [ApiNext]_apiVars => ApiInv' /\ [Honest]_apiVars
    <2>1. CASE ApiNext
      BY <2>1, ApiSteps
    <2>2. CASE UNCHANGED apiVars
      BY <2>2 DEF apiVars, ApiInv
    <2> QED BY <2>1, <2>2
  <1>3. ApiInv => WritesAreAdmitted /\ OnlineMeansAgent /\ NoHandlerIsStranded
    <2>1. ApiInv => OnlineMeansAgent
      BY DEF ApiInv, OnlineMeansAgent, agentState, hasLiveLease
    <2> QED BY <2>1 DEF ApiInv, Sound, WritesAreAdmitted, NoHandlerIsStranded
  <1>4. ApiInv => EventsFollowTheStore
    <2>1. CASE published = NoEvent
      BY <2>1 DEF EventsFollowTheStore, NoEvent
    <2>2. ASSUME NEW n \in Nat, published = <<"goal.revised", n>>, n > 0, n <= goalRevision,
                 goalRevision \in Nat
          PROVE  EventsFollowTheStore
      <3>1. published[1] = "goal.revised" /\ published[2] = n /\ goalRevision >= n
        BY <2>2
      <3> QED BY <2>2, <3>1 DEF EventsFollowTheStore
    <2>3. ASSUME NEW k \in {"mission.created", "mission.updated"}, NEW s \in Phases,
                 published = <<k, s>>, missionPhase # "none"
          PROVE  EventsFollowTheStore
      <3>1. published[1] = k /\ k # "goal.revised"
        BY <2>3
      <3> QED BY <2>3, <3>1 DEF EventsFollowTheStore
    <2> QED BY <2>1, <2>2, <2>3 DEF ApiInv, Announced
  <1>5. [Honest]_apiVars => [\A c \in Connections :
       (IF flight[c] = Free THEN FALSE ELSE flight[c].stage = "vault") /\ flight'[c] = Free
         /\ answer' = "done" =>
       vaultReceipt' /\ published' = <<"mission.updated", missionPhase'>>]_apiVars
    BY DEF Honest
  <1>6. [Honest]_apiVars =>
          [published' # published /\ published'[1] \in {"mission.created", "mission.updated"} =>
             published'[2] = missionPhase']_apiVars
    BY DEF Honest, TellsTheStore
  <1> QED BY <1>1, <1>2, <1>3, <1>4, <1>5, <1>6, PTL
      DEF ApiSpec, RequestsAreHonoured, MissionEventsAreTrue, AcceptedResultIsComplete

-----------------------------------------------------------------------------
(* The launcher. No other program gets the pid a launcher has just verified,   *)
(* so a signal meets a Kernel or nobody; and a stopped Kernel never binds the  *)
(* port again, since every start has a nonce of its own.                       *)

Kinds == {"none", "kernel", "other"}
ProcessPhases == {"none", "booting", "opened", "serving", "stopping"}
Process == [kind : Kinds, nonce : Nat, phase : ProcessPhases, certified : BOOLEAN]
Seen ==
  [command : {"none", "repair", "autostart", "shutdown"},
   at : {"idle", "looked", "stopping", "stopped", "started", "waiting"},
   kernel : {"ready", "port_conflict", "stale", "offline"}, hermes : BOOLEAN,
   pid : Pids \cup {NoPid}, verified : BOOLEAN, stopped : Nat, round : Nat]

MachineTypeOK ==
  /\ process \in [Pids -> Process]
  /\ portHolder \in Pids \cup {NoPid}
  /\ pidFile \in [pid : Pids \cup {NoPid}, nonce : Nat]
  /\ hermesWorks \in BOOLEAN /\ starts \in Nat
  /\ launcher \in [Launchers -> Seen]

(* A Kernel has the nonce of its start, and nobody else does.                  *)
NoncesInv ==
  /\ \A p \in Pids :
       /\ process[p].kind = "kernel" <=> process[p].nonce # 0
       /\ process[p].nonce <= starts
       /\ process[p].kind # "kernel" => process[p].phase = "none"
  /\ \A p, q \in Pids : process[p].nonce = process[q].nonce /\ process[p].nonce # 0 => p = q
  /\ portHolder # NoPid => process[portHolder].kind # "none"

Verified(v) ==
  v.at = "looked" /\ v.verified => v.pid \in Pids /\ process[v.pid].kind \in {"none", "kernel"}

Replaced(v) ==
  v.at \in {"stopping", "stopped", "looked"} /\ v.stopped # 0 =>
    /\ v.stopped <= starts
    /\ \A p \in Pids : process[p].nonce = v.stopped =>
         process[p].phase = "stopping" /\ (v.at # "stopping" => portHolder # p)

LauncherInv ==
  /\ MachineTypeOK
  /\ NoncesInv
  /\ \A l \in Launchers : Verified(launcher[l]) /\ Replaced(launcher[l])
  /\ \A l \in Launchers : launcher[l].at = "started" => launcher[l].pid \in Pids
  /\ \A l \in Launchers : launcher[l].at = "idle" => launcher[l].stopped = 0

(* What a step may not do.                                                     *)
Careful ==
  /\ \A p \in Pids :
       process[p].phase # "stopping" /\ process'[p].phase = "stopping" => process[p].kind = "kernel"
  /\ \A l \in Launchers :
       launcher[l].at = "looked" /\ launcher'[l].at = "started" /\ launcher[l].stopped # 0 =>
         ~\E p \in Pids : process[p].nonce = launcher[l].stopped /\ portHolder = p

(* A launcher moves on while the processes stay as they are.                   *)
LEMMA LooksAndWaits ==
  ASSUME LauncherInv, NEW l \in Launchers, NEW v \in Seen, launcher' = [launcher EXCEPT ![l] = v],
         UNCHANGED <<process, portHolder, starts, hermesWorks>>,
         pidFile' \in [pid : Pids \cup {NoPid}, nonce : Nat],
         Verified(v), Replaced(v), v.at # "started", v.at = "idle" => v.stopped = 0
  PROVE  LauncherInv' /\ Careful
  <1>1. launcher' \in [Launchers -> Seen] /\ launcher'[l] = v /\ \A m \in Launchers \ {l} : launcher'[m] = launcher[m]
    BY DEF LauncherInv, MachineTypeOK
  <1>2. MachineTypeOK'
    BY <1>1 DEF LauncherInv, MachineTypeOK
  <1>3. NoncesInv'
    BY DEF LauncherInv, NoncesInv
  <1>4. ASSUME NEW m \in Launchers PROVE Verified(launcher[m])' /\ Replaced(launcher[m])'
    BY <1>1 DEF LauncherInv, Verified, Replaced
  <1>5. \A m \in Launchers : /\ launcher'[m].at = "started" => launcher'[m].pid \in Pids
                             /\ launcher'[m].at = "idle" => launcher'[m].stopped = 0
    BY <1>1 DEF LauncherInv
  <1>6. Careful
    BY <1>1 DEF Careful
  <1> QED BY <1>2, <1>3, <1>4, <1>5, <1>6 DEF LauncherInv

LEMMA StatusFacts ==
  ASSUME LauncherInv
  PROVE  /\ deriveKernelStatus \in {"ready", "port_conflict", "stale", "offline"}
         /\ readRunningKernelBootstrap \in BOOLEAN
         /\ deriveKernelStatus # "ready" /\ portHolder # NoPid => process[portHolder].kind # "kernel"
         /\ verifyProcessIdentity(pidFile) \in BOOLEAN
         /\ verifyProcessIdentity(pidFile) => pidFile.pid \in Pids /\ process[pidFile.pid].kind = "kernel"
  <1>1. deriveKernelStatus \in {"ready", "port_conflict", "stale", "offline"}
    BY DEF deriveKernelStatus
  <1>2. deriveKernelStatus # "ready" /\ portHolder # NoPid => process[portHolder].kind # "kernel"
    BY DEF deriveKernelStatus, probeKernel
  <1>3. readRunningKernelBootstrap \in BOOLEAN
    <2>1. CASE probeKernel = "kernel"
      <3>1. portHolder \in Pids
        BY <2>1 DEF probeKernel, LauncherInv, MachineTypeOK
      <3>2. process[portHolder].certified \in BOOLEAN
        BY <3>1 DEF LauncherInv, MachineTypeOK, Process
      <3> QED BY <2>1, <3>2 DEF readRunningKernelBootstrap
    <2>2. CASE probeKernel # "kernel"
      BY <2>2 DEF readRunningKernelBootstrap, LauncherInv, MachineTypeOK
    <2> QED BY <2>1, <2>2
  <1>4. verifyProcessIdentity(pidFile) \in BOOLEAN
    BY DEF verifyProcessIdentity
  <1>5. verifyProcessIdentity(pidFile) => pidFile.pid \in Pids /\ process[pidFile.pid].kind = "kernel"
    BY DEF verifyProcessIdentity, alive
  <1> QED BY <1>1, <1>2, <1>3, <1>4, <1>5

LEMMA IdleFacts == Idle \in Seen /\ Idle.at = "idle" /\ Idle.stopped = 0
  BY DEF Idle, Seen

(* A look keeps what the launcher knows of the Kernel it stopped.              *)
LEMMA InspectFacts ==
  ASSUME LauncherInv, NEW l \in Launchers, NEW v, v = inspect(l, "looked")
  PROVE  /\ v \in Seen /\ v.at = "looked" /\ v.stopped = launcher[l].stopped
         /\ v.pid = pidFile.pid /\ v.verified = verifyProcessIdentity(pidFile)
         /\ v.command = launcher[l].command /\ v.round = launcher[l].round
  <1>1. launcher[l] \in Seen /\ pidFile.pid \in Pids \cup {NoPid}
    BY DEF LauncherInv, MachineTypeOK
  <1>2. PICK status \in {"ready", "port_conflict", "stale", "offline"} : status = deriveKernelStatus
    BY StatusFacts
  <1>3. PICK hermes \in BOOLEAN : hermes = readRunningKernelBootstrap
    BY StatusFacts
  <1>4. PICK ok \in BOOLEAN : ok = verifyProcessIdentity(pidFile)
    BY StatusFacts
  <1>5. v = [launcher[l] EXCEPT !.at = "looked", !.kernel = status, !.hermes = hermes,
                                !.pid = pidFile.pid, !.verified = ok]
    BY <1>2, <1>3, <1>4 DEF inspect
  <1> QED BY <1>1, <1>4, <1>5 DEF Seen

LEMMA EndKeeps ==
  ASSUME LauncherInv, NEW l \in Launchers, Ends(l),
         UNCHANGED <<process, portHolder, starts, hermesWorks>>,
         pidFile' \in [pid : Pids \cup {NoPid}, nonce : Nat]
  PROVE  LauncherInv' /\ Careful
  BY IdleFacts, LooksAndWaits DEF Ends, Step, Verified, Replaced

LEMMA CommandKeeps ==
  ASSUME LauncherInv, NEW l \in Launchers,
         \/ \E command \in {"repair", "autostart", "shutdown"} : Begin(l, command)
         \/ Leave(l) \/ WaitForStopped(l) \/ LookAgain(l) \/ WaitForReady(l) \/ LauncherKilled(l)
         \/ WriteRecord(l)
  PROVE  LauncherInv' /\ Careful
  <1>0. pidFile \in [pid : Pids \cup {NoPid}, nonce : Nat] /\ launcher[l] \in Seen
    BY DEF LauncherInv, MachineTypeOK
  <1>1. ASSUME NEW command \in {"repair", "autostart", "shutdown"}, Begin(l, command)
        PROVE  LauncherInv' /\ Careful
    <2>0. PICK w : w = inspect(l, "looked")
      OBVIOUS
    <2> DEFINE v == [w EXCEPT !.command = command, !.round = 1]
    <2>1. launcher' = [launcher EXCEPT ![l] = v] /\ UNCHANGED <<process, portHolder, starts, hermesWorks, pidFile>>
      BY <1>1, <2>0 DEF Begin, Step, machine
    <2>2. /\ w \in Seen /\ w.at = "looked" /\ w.stopped = 0 /\ w.pid = pidFile.pid
          /\ w.verified = verifyProcessIdentity(pidFile)
      BY <1>1, <2>0, InspectFacts DEF Begin, LauncherInv
    <2>3. /\ v \in Seen /\ v.at = "looked" /\ v.stopped = 0 /\ v.pid = w.pid /\ v.verified = w.verified
      BY <2>2 DEF Seen
    <2>4. Verified(v) /\ Replaced(v)
      BY <2>2, <2>3, StatusFacts DEF Verified, Replaced
    <2> HIDE DEF v
    <2> QED BY <1>0, <2>1, <2>3, <2>4, LooksAndWaits
  <1>2. CASE Leave(l) \/ WaitForReady(l)
    BY <1>0, <1>2, EndKeeps DEF Leave, WaitForReady, machine
  <1>3. CASE LauncherKilled(l)
    BY <1>0, <1>3, EndKeeps DEF LauncherKilled
  <1>4. CASE WaitForStopped(l)
    <2>1. CASE deriveKernelStatus = "ready"
      BY <1>0, <1>4, <2>1, EndKeeps DEF WaitForStopped, machine
    <2>2. CASE deriveKernelStatus # "ready"
      <3> DEFINE v == [launcher[l] EXCEPT !.at = "stopped"]
      <3>1. /\ launcher' = [launcher EXCEPT ![l] = v] /\ launcher[l].at = "stopping"
            /\ UNCHANGED <<process, portHolder, starts, hermesWorks, pidFile>>
        BY <1>4, <2>2 DEF WaitForStopped, Step, machine
      <3>2. v \in Seen /\ v.at = "stopped" /\ v.stopped = launcher[l].stopped
        BY <1>0 DEF Seen
      <3>3. Replaced(launcher[l]) /\ \A p \in Pids : process[p].nonce # 0 => process[p].kind = "kernel"
        BY DEF LauncherInv, NoncesInv
      <3>4. \A p \in Pids : process[p].nonce # 0 => portHolder # p
        BY <2>2, <3>3, StatusFacts, LauncherAssumption
      <3>5. Verified(v) /\ Replaced(v)
        BY <3>1, <3>2, <3>3, <3>4 DEF Verified, Replaced
      <3> HIDE DEF v
      <3> QED BY <1>0, <3>1, <3>2, <3>5, LooksAndWaits
    <2> QED BY <2>1, <2>2
  <1>5. CASE LookAgain(l)
    <2>0. PICK w : w = inspect(l, "looked")
      OBVIOUS
    <2>1. /\ launcher' = [launcher EXCEPT ![l] = w] /\ launcher[l].at = "stopped"
          /\ UNCHANGED <<process, portHolder, starts, hermesWorks, pidFile>>
      BY <1>5, <2>0 DEF LookAgain, Step, machine
    <2>2. /\ w \in Seen /\ w.at = "looked" /\ w.stopped = launcher[l].stopped /\ w.pid = pidFile.pid
          /\ w.verified = verifyProcessIdentity(pidFile)
      BY <2>0, InspectFacts
    <2>3. Replaced(launcher[l])
      BY DEF LauncherInv
    <2>4. Verified(w) /\ Replaced(w)
      BY <2>1, <2>2, <2>3, StatusFacts DEF Verified, Replaced
    <2> QED BY <1>0, <2>1, <2>2, <2>4, LooksAndWaits
  <1>6. CASE WriteRecord(l)
    <2> DEFINE v == [Idle EXCEPT !.at = "waiting"]
    <2>1. /\ launcher' = [launcher EXCEPT ![l] = v] /\ launcher[l].at = "started"
          /\ UNCHANGED <<process, portHolder, starts, hermesWorks>>
          /\ pidFile' = [pid |-> launcher[l].pid, nonce |-> process[launcher[l].pid].nonce]
      BY <1>6 DEF WriteRecord, Step, machine
    <2>2. launcher[l].pid \in Pids
      BY <2>1 DEF LauncherInv
    <2>3. process[launcher[l].pid].nonce \in Nat
      BY <2>2 DEF LauncherInv, MachineTypeOK, Process
    <2>4. pidFile' \in [pid : Pids \cup {NoPid}, nonce : Nat]
      BY <2>1, <2>2, <2>3
    <2>5. v \in Seen /\ v.at = "waiting"
      BY DEF Idle, Seen
    <2>6. Verified(v) /\ Replaced(v)
      BY <2>5 DEF Verified, Replaced
    <2> HIDE DEF v
    <2> QED BY <2>1, <2>4, <2>5, <2>6, LooksAndWaits
  <1> QED BY <1>1, <1>2, <1>3, <1>4, <1>5, <1>6

(* The signal: the process the launcher verified is a Kernel or gone.          *)
LEMMA StopKeeps ==
  ASSUME LauncherInv, NEW l \in Launchers, StopOwned(l)
  PROVE  LauncherInv' /\ Careful
  <1> DEFINE v == launcher[l]
  <1>0. /\ v.at = "looked" /\ v.verified /\ v \in Seen /\ v.pid \in Pids
        /\ process[v.pid].kind \in {"none", "kernel"}
        /\ UNCHANGED <<portHolder, starts, changes, hermesWorks, paired, pairingOptional>>
    BY DEF StopOwned, Replaces, MayReplace, LauncherInv, MachineTypeOK, Verified
  <1>1. CASE ~alive(v.pid)
    <2>1. Ends(l) /\ process' = process /\ pidFile' = pidFile
      BY <1>1 DEF StopOwned
    <2> QED BY <1>0, <2>1, EndKeeps DEF LauncherInv, MachineTypeOK
  <1>2. CASE alive(v.pid)
    <2>1. /\ process' = [process EXCEPT ![v.pid].phase = "stopping"] /\ pidFile' = NoRecord
          /\ process[v.pid].kind = "kernel"
      BY <1>0, <1>2 DEF StopOwned, alive
    <2>2. /\ process' \in [Pids -> Process]
          /\ \A p \in Pids : /\ process'[p].kind = process[p].kind /\ process'[p].nonce = process[p].nonce
                             /\ p # v.pid => process'[p] = process[p]
          /\ process'[v.pid].phase = "stopping"
      BY <1>0, <2>1 DEF LauncherInv, MachineTypeOK, Process, ProcessPhases
    <2>3. PICK w \in Seen : /\ launcher' = [launcher EXCEPT ![l] = w]
                            /\ w = Idle \/ (w.at = "stopping" /\ w.stopped = process[v.pid].nonce)
      <3>1. CASE v.command = "shutdown"
        BY <1>2, <3>1, IdleFacts DEF StopOwned, Ends, Step
      <3>2. CASE v.command # "shutdown"
        <4> DEFINE w == [Idle EXCEPT !.command = v.command, !.at = "stopping", !.stopped = process[v.pid].nonce,
                                     !.round = IF Recertifies(v) THEN 2 ELSE 3]
        <4>1. launcher' = [launcher EXCEPT ![l] = w]
          BY <1>2, <3>2 DEF StopOwned, Step
        <4>2. process[v.pid].nonce \in Nat
          BY <1>0 DEF LauncherInv, MachineTypeOK, Process
        <4>3. PICK again \in Nat : again = IF Recertifies(v) THEN 2 ELSE 3
          OBVIOUS
        <4>4. w = [Idle EXCEPT !.command = v.command, !.at = "stopping", !.stopped = process[v.pid].nonce, !.round = again]
          BY <4>3
        <4>5. w \in Seen /\ w.at = "stopping" /\ w.stopped = process[v.pid].nonce
          BY <1>0, <4>2, <4>4, IdleFacts DEF Seen
        <4> HIDE DEF w
        <4> QED BY <4>1, <4>5
      <3> QED BY <3>1, <3>2
    <2>4. /\ launcher' \in [Launchers -> Seen] /\ launcher'[l] = w
          /\ \A m \in Launchers \ {l} : launcher'[m] = launcher[m]
      BY <2>3 DEF LauncherInv, MachineTypeOK
    <2>5. MachineTypeOK'
      BY <1>0, <2>1, <2>2, <2>4 DEF LauncherInv, MachineTypeOK, NoRecord
    <2>6. NoncesInv'
      <3>1. \A p \in Pids : process'[p].kind # "kernel" => process'[p].phase = "none"
        BY <2>1, <2>2 DEF LauncherInv, NoncesInv
      <3>2. portHolder' # NoPid => process'[portHolder'].kind # "none"
        BY <1>0, <2>2 DEF LauncherInv, NoncesInv, MachineTypeOK
      <3> QED BY <1>0, <2>2, <3>1, <3>2 DEF LauncherInv, NoncesInv
    <2>7. ASSUME NEW m \in Launchers \ {l} PROVE Verified(launcher[m])' /\ Replaced(launcher[m])'
      <3>1. Verified(launcher[m]) /\ Replaced(launcher[m]) /\ launcher'[m] = launcher[m]
        BY <2>4 DEF LauncherInv
      <3>2. Verified(launcher[m])'
        BY <2>2, <3>1 DEF Verified
      <3>3. \A p \in Pids : process[p].phase = "stopping" => process'[p].phase = "stopping"
        BY <2>2
      <3>4. Replaced(launcher[m])'
        BY <1>0, <2>2, <3>1, <3>3 DEF Replaced
      <3> QED BY <3>2, <3>4
    <2>8. Verified(launcher[l])' /\ Replaced(launcher[l])'
      <3>1. process[v.pid].nonce <= starts /\ \A p \in Pids : process[p].nonce = process[v.pid].nonce => p = v.pid
        BY <1>0, <2>1 DEF LauncherInv, NoncesInv
      <3>2. CASE w = Idle
        BY <2>4, <3>2, IdleFacts DEF Verified, Replaced
      <3>3. CASE w.at = "stopping" /\ w.stopped = process[v.pid].nonce
        BY <1>0, <2>2, <2>4, <3>1, <3>3 DEF Verified, Replaced
      <3> QED BY <2>3, <3>2, <3>3
    <2>9. \A m \in Launchers : /\ launcher'[m].at = "started" => launcher'[m].pid \in Pids
                               /\ launcher'[m].at = "idle" => launcher'[m].stopped = 0
      BY <2>3, <2>4, IdleFacts DEF LauncherInv
    <2>10. Careful
      <3>1. \A p \in Pids : process[p].phase # "stopping" /\ process'[p].phase = "stopping" => process[p].kind = "kernel"
        BY <2>1, <2>2
      <3>2. \A m \in Launchers : launcher[m].at = "looked" => launcher'[m].at # "started"
        BY <2>3, <2>4, IdleFacts
      <3> QED BY <3>1, <3>2 DEF Careful
    <2> QED BY <2>5, <2>6, <2>7, <2>8, <2>9, <2>10 DEF LauncherInv
  <1> QED BY <1>1, <1>2

(* One process changes, and the launchers look on. A Kernel that was told to   *)
(* stop changes only by leaving.                                               *)
LEMMA ProcessKeeps ==
  ASSUME LauncherInv, NEW p \in Pids, NEW r \in Process,
         process' = [process EXCEPT ![p] = r],
         UNCHANGED <<pidFile, launcher, starts>>, hermesWorks' \in BOOLEAN,
         portHolder' \in {portHolder, NoPid, p},
         r.nonce \in {0, process[p].nonce}, r.kind = "kernel" <=> r.nonce # 0,
         r.kind # "kernel" => r.phase = "none", r.phase # "stopping",
         process[p].phase = "stopping" => r.nonce = 0,
         r.kind # "other" \/ ~\E l \in Launchers : launcher[l].at = "looked" /\ launcher[l].pid = p,
         portHolder' = p => r.kind # "none"
  PROVE  LauncherInv' /\ Careful
  <1>1. process' \in [Pids -> Process] /\ process'[p] = r /\ \A q \in Pids \ {p} : process'[q] = process[q]
    BY DEF LauncherInv, MachineTypeOK
  <1>2. MachineTypeOK'
    BY <1>1 DEF LauncherInv, MachineTypeOK
  <1>3. NoncesInv'
    <2>1. \A q \in Pids : /\ process'[q].kind = "kernel" <=> process'[q].nonce # 0
                          /\ process'[q].nonce <= starts'
                          /\ process'[q].kind # "kernel" => process'[q].phase = "none"
      BY <1>1 DEF LauncherInv, NoncesInv, MachineTypeOK
    <2>2. \A q, o \in Pids : process'[q].nonce = process'[o].nonce /\ process'[q].nonce # 0 => q = o
      BY <1>1 DEF LauncherInv, NoncesInv
    <2>3. portHolder' # NoPid => process'[portHolder'].kind # "none"
      BY <1>1 DEF LauncherInv, NoncesInv, MachineTypeOK
    <2> QED BY <2>1, <2>2, <2>3 DEF NoncesInv
  <1>4. ASSUME NEW m \in Launchers PROVE Verified(launcher[m])' /\ Replaced(launcher[m])'
    <2>1. Verified(launcher[m]) /\ Replaced(launcher[m]) /\ launcher'[m] = launcher[m]
      BY DEF LauncherInv
    <2>2. Verified(launcher[m])'
      BY <1>1, <2>1 DEF Verified, Process, Kinds
    <2>3. \A q \in Pids : process'[q].nonce # 0 /\ process[q].phase = "stopping" =>
            process'[q] = process[q] /\ (portHolder # q => portHolder' # q)
      BY <1>1, LauncherAssumption
    <2>4. \A q \in Pids : process'[q].nonce # 0 => process'[q].nonce = process[q].nonce
      BY <1>1
    <2>5. Replaced(launcher[m])'
      BY <2>1, <2>3, <2>4 DEF Replaced
    <2> QED BY <2>2, <2>5
  <1>5. Careful
    BY <1>1 DEF Careful
  <1> QED BY <1>2, <1>3, <1>4, <1>5 DEF LauncherInv

LEMMA GoneKeeps ==
  ASSUME LauncherInv, NEW p \in Pids, Gone(p), UNCHANGED <<pidFile, launcher, starts, hermesWorks>>
  PROVE  LauncherInv' /\ Careful
  <1>1. NoProcess \in Process /\ NoProcess.nonce = 0 /\ NoProcess.kind = "none" /\ NoProcess.phase = "none"
    BY DEF NoProcess, Process, Kinds, ProcessPhases
  <1>2. /\ process' = [process EXCEPT ![p] = NoProcess] /\ portHolder' \in {portHolder, NoPid, p}
        /\ portHolder' # p
    BY LauncherAssumption DEF Gone
  <1>3. hermesWorks' \in BOOLEAN
    BY DEF LauncherInv, MachineTypeOK
  <1> QED BY <1>1, <1>2, <1>3, ProcessKeeps

LEMMA MachineKeeps ==
  ASSUME LauncherInv,
         \/ \E p \in Pids : Boot(p) \/ Listen(p) \/ Exit(p) \/ Crash(p) \/ PidReused(p)
         \/ HermesChanges \/ Pair
  PROVE  LauncherInv' /\ Careful
  <1>0. hermesWorks \in BOOLEAN /\ process \in [Pids -> Process]
    BY DEF LauncherInv, MachineTypeOK
  <1>1. ASSUME NEW p \in Pids, Boot(p) PROVE LauncherInv' /\ Careful
    <2> DEFINE r == [process[p] EXCEPT !.phase = "opened", !.certified = hermesWorks]
    <2>0. process' = [process EXCEPT ![p] = r]
      BY <1>0, <1>1 DEF Boot
    <2>1. r \in Process /\ r.nonce = process[p].nonce /\ r.kind = process[p].kind /\ r.phase = "opened"
      BY <1>0 DEF Process, ProcessPhases
    <2>2. /\ process[p].phase = "booting"
          /\ UNCHANGED <<portHolder, pidFile, launcher, starts, hermesWorks>>
      BY <1>1 DEF Boot
    <2>3. r.kind = "kernel" /\ r.nonce # 0
      BY <2>1, <2>2 DEF LauncherInv, NoncesInv
    <2> HIDE DEF r
    <2> QED BY <1>0, <2>0, <2>1, <2>2, <2>3, ProcessKeeps
  <1>2. ASSUME NEW p \in Pids, Listen(p) PROVE LauncherInv' /\ Careful
    <2>1. CASE portHolder # NoPid
      BY <1>2, <2>1, GoneKeeps DEF Listen
    <2>2. CASE portHolder = NoPid
      <3>1. PICK r \in Process : /\ process' = [process EXCEPT ![p] = r]
                                 /\ r.nonce = process[p].nonce /\ r.kind = process[p].kind /\ r.phase = "serving"
        BY <1>0, <1>2, <2>2 DEF Listen, Process, ProcessPhases
      <3>2. /\ process[p].phase = "opened" /\ portHolder' = p
            /\ UNCHANGED <<pidFile, launcher, starts, hermesWorks>>
        BY <1>2, <2>2 DEF Listen
      <3>3. r.kind = "kernel" /\ r.nonce # 0
        BY <3>1, <3>2 DEF LauncherInv, NoncesInv
      <3> QED BY <1>0, <3>1, <3>2, <3>3, ProcessKeeps
    <2> QED BY <2>1, <2>2
  <1>3. ASSUME NEW p \in Pids, Exit(p) \/ Crash(p) PROVE LauncherInv' /\ Careful
    BY <1>3, GoneKeeps DEF Exit, Crash
  <1>4. ASSUME NEW p \in Pids, PidReused(p) PROVE LauncherInv' /\ Careful
    <2> DEFINE r == [NoProcess EXCEPT !.kind = "other"]
    <2>1. r \in Process /\ r.nonce = 0 /\ r.kind = "other" /\ r.phase = "none"
      BY DEF NoProcess, Process, Kinds, ProcessPhases
    <2>2. /\ process' = [process EXCEPT ![p] = r] /\ portHolder' \in {portHolder, NoPid, p}
          /\ ~\E l \in Launchers : launcher[l].at = "looked" /\ launcher[l].pid = p
          /\ UNCHANGED <<pidFile, launcher, starts, hermesWorks>>
      BY <1>4 DEF PidReused
    <2> HIDE DEF r
    <2> QED BY <1>0, <2>1, <2>2, ProcessKeeps
  <1>5. CASE HermesChanges \/ Pair
    <2>1. UNCHANGED <<process, portHolder, pidFile, launcher, starts>> /\ hermesWorks' \in BOOLEAN
      BY <1>0, <1>5 DEF HermesChanges, Pair
    <2>2. MachineTypeOK' /\ NoncesInv'
      BY <2>1 DEF LauncherInv, MachineTypeOK, NoncesInv
    <2>3. \A l \in Launchers : Verified(launcher[l])' /\ Replaced(launcher[l])'
      BY <2>1 DEF LauncherInv, Verified, Replaced
    <2>4. Careful
      BY <2>1 DEF Careful
    <2> QED BY <2>1, <2>2, <2>3, <2>4 DEF LauncherInv
  <1> QED BY <1>1, <1>2, <1>3, <1>4, <1>5

(* A start: the new Kernel has a nonce nobody has had, and a launcher that     *)
(* stopped one before it has seen that one leave the port.                     *)
LEMMA StartKeeps ==
  ASSUME LauncherInv, NEW l \in Launchers, StartKernel(l)
  PROVE  LauncherInv' /\ Careful
  <1>1. PICK p \in Pids :
          /\ ~alive(p)
          /\ process' = [process EXCEPT ![p] = [kind |-> "kernel", nonce |-> starts + 1, phase |-> "booting", certified |-> FALSE]]
          /\ Step(l, [Idle EXCEPT !.at = "started", !.pid = p])
    BY DEF StartKernel
  <1>2. /\ launcher[l].at = "looked" /\ starts \in Nat /\ starts' = starts + 1
        /\ pidFile' \in {NoRecord, pidFile} /\ UNCHANGED <<portHolder, hermesWorks>>
    BY DEF StartKernel, LauncherInv, MachineTypeOK
  <1> DEFINE r == [kind |-> "kernel", nonce |-> starts + 1, phase |-> "booting", certified |-> FALSE]
             v == [Idle EXCEPT !.at = "started", !.pid = p]
  <1>3. /\ r \in Process /\ r.kind = "kernel" /\ r.nonce = starts + 1 /\ r.phase = "booting"
        /\ v \in Seen /\ v.at = "started" /\ v.pid = p
    <2>1. starts + 1 \in Nat
      BY <1>2
    <2>2. r \in Process /\ r.kind = "kernel" /\ r.nonce = starts + 1 /\ r.phase = "booting"
      BY <2>1 DEF Process, Kinds, ProcessPhases
    <2>3. v \in Seen /\ v.at = "started" /\ v.pid = p
      BY DEF Idle, Seen
    <2> QED BY <2>2, <2>3
  <1>4. process' = [process EXCEPT ![p] = r] /\ launcher' = [launcher EXCEPT ![l] = v]
    BY <1>1 DEF Step
  <1> HIDE DEF r, v
  <1>5. /\ process' \in [Pids -> Process] /\ process'[p] = r /\ \A q \in Pids \ {p} : process'[q] = process[q]
        /\ launcher' \in [Launchers -> Seen] /\ launcher'[l] = v
        /\ \A m \in Launchers \ {l} : launcher'[m] = launcher[m]
    BY <1>3, <1>4 DEF LauncherInv, MachineTypeOK
  <1>6. MachineTypeOK'
    BY <1>2, <1>5 DEF LauncherInv, MachineTypeOK, NoRecord
  <1>7. /\ \A q \in Pids : process[q].nonce \in Nat /\ process[q].nonce <= starts
        /\ portHolder # p
    <2>1. \A q \in Pids : process[q].nonce \in Nat /\ process[q].nonce <= starts
      BY DEF LauncherInv, NoncesInv, MachineTypeOK, Process
    <2>2. portHolder # p
      BY <1>1, LauncherAssumption DEF LauncherInv, NoncesInv, alive
    <2> QED BY <2>1, <2>2
  <1>8. NoncesInv'
    <2>1. \A q \in Pids : /\ process'[q].kind = "kernel" <=> process'[q].nonce # 0
                          /\ process'[q].nonce <= starts'
                          /\ process'[q].kind # "kernel" => process'[q].phase = "none"
      BY <1>2, <1>3, <1>5, <1>7 DEF LauncherInv, NoncesInv
    <2>2. \A q, o \in Pids : process'[q].nonce = process'[o].nonce /\ process'[q].nonce # 0 => q = o
      BY <1>2, <1>3, <1>5, <1>7 DEF LauncherInv, NoncesInv
    <2>3. portHolder' # NoPid => process'[portHolder'].kind # "none"
      BY <1>2, <1>3, <1>5, <1>7 DEF LauncherInv, NoncesInv, MachineTypeOK
    <2> QED BY <2>1, <2>2, <2>3 DEF NoncesInv
  <1>9. ASSUME NEW m \in Launchers PROVE Verified(launcher[m])' /\ Replaced(launcher[m])'
    <2>1. CASE m = l
      BY <1>3, <1>5, <2>1 DEF Verified, Replaced
    <2>2. CASE m # l
      <3>1. Verified(launcher[m]) /\ Replaced(launcher[m]) /\ launcher'[m] = launcher[m]
        BY <1>5, <2>2 DEF LauncherInv
      <3>2. Verified(launcher[m])'
        BY <1>3, <1>5, <3>1 DEF Verified
      <3>3. launcher[m].stopped \in Nat
        BY DEF LauncherInv, MachineTypeOK, Seen
      <3>4. Replaced(launcher[m])'
        BY <1>2, <1>3, <1>5, <1>7, <3>1, <3>3 DEF Replaced
      <3> QED BY <3>2, <3>4
    <2> QED BY <2>1, <2>2
  <1>10. \A m \in Launchers : /\ launcher'[m].at = "started" => launcher'[m].pid \in Pids
                              /\ launcher'[m].at = "idle" => launcher'[m].stopped = 0
    BY <1>3, <1>5 DEF LauncherInv
  <1>11. Careful
    <2>1. \A q \in Pids : process[q].phase # "stopping" => process'[q].phase # "stopping"
      BY <1>3, <1>5
    <2>2. launcher[l].stopped # 0 => ~\E q \in Pids : process[q].nonce = launcher[l].stopped /\ portHolder = q
      BY <1>2 DEF LauncherInv, Replaced
    <2>3. \A m \in Launchers : launcher[m].at = "looked" /\ launcher'[m].at = "started" => m = l
      BY <1>5
    <2> QED BY <2>1, <2>2, <2>3 DEF Careful
  <1> QED BY <1>6, <1>8, <1>9, <1>10, <1>11 DEF LauncherInv

(* The launcher signals nothing but a Kernel, however often pids change hands, *)
(* and replaces one only when the old one has left the port                    *)
(* (efesto-launcher-core.mjs), for any launchers, pids and order of events.    *)
THEOREM LauncherStaysSafe == LauncherSpec => LauncherIsSafe
  <1>1. LauncherInit => LauncherInv
    <2> SUFFICES ASSUME LauncherInit PROVE LauncherInv
      OBVIOUS
    <2>1. NoProcess \in Process /\ NoProcess.nonce = 0 /\ NoProcess.kind = "none" /\ NoProcess.phase = "none"
      BY DEF NoProcess, Process, Kinds, ProcessPhases
    <2>2. MachineTypeOK
      BY <2>1, IdleFacts DEF LauncherInit, MachineTypeOK, NoRecord
    <2>3. NoncesInv
      BY <2>1 DEF LauncherInit, NoncesInv
    <2> QED BY <2>2, <2>3, IdleFacts DEF LauncherInit, LauncherInv, Verified, Replaced
  <1>2. LauncherInv /\ [LauncherNext]_launcherVars => LauncherInv' /\ (Careful \/ UNCHANGED launcherVars)
    <2> SUFFICES ASSUME LauncherInv, [LauncherNext]_launcherVars
                 PROVE  LauncherInv' /\ (Careful \/ UNCHANGED launcherVars)
      OBVIOUS
    <2>1. CASE UNCHANGED launcherVars
      <3>1. MachineTypeOK' /\ NoncesInv'
        BY <2>1 DEF LauncherInv, MachineTypeOK, NoncesInv, launcherVars
      <3>2. \A l \in Launchers : Verified(launcher[l])' /\ Replaced(launcher[l])'
        BY <2>1 DEF LauncherInv, Verified, Replaced, launcherVars
      <3> QED BY <2>1, <3>1, <3>2 DEF LauncherInv, launcherVars
    <2>2. CASE LauncherNext
      BY <2>2, CommandKeeps, StopKeeps, StartKeeps, MachineKeeps DEF LauncherNext
    <2> QED BY <2>1, <2>2
  <1>3. Careful \/ UNCHANGED launcherVars =>
          /\ [\A p \in Pids : process[p].phase # "stopping" /\ process'[p].phase = "stopping" => process[p].kind = "kernel"]_launcherVars
          /\ [\A l \in Launchers :
                launcher[l].at = "looked" /\ launcher'[l].at = "started" /\ launcher[l].stopped # 0 =>
                  ~\E p \in Pids : process[p].nonce = launcher[l].stopped /\ portHolder = p]_launcherVars
    BY DEF Careful
  <1> QED BY <1>1, <1>2, <1>3, PTL DEF LauncherSpec, LauncherIsSafe, ForeignIsNeverStopped, ReplacedKernelIsGone

-----------------------------------------------------------------------------
(* The store. With one command at a time, the command line's temporary file is *)
(* never the inode of store.json until it is whole; and what each program has  *)
(* in hand to write is closed by itself, so it does not matter whose write     *)
(* comes last.                                                                 *)

StoredRecord == [kind : {"case", "evidence", "goal", "mission"}, id : Nat, of : Nat, leased : BOOLEAN]
Inode == [whole : BOOLEAN, records : SUBSET StoredRecord]
Invocation ==
  [step : {"off", "command", "open", "fill", "rename"}, command : Commands,
   read : SUBSET StoredRecord, inode : Nat]

ClosedSet(records) ==
  /\ \A r \in records : r.kind = "evidence" => r.of \in RecordIdsIn(records, "case")
  /\ \A r \in records : r.kind = "mission" => r.of \in RecordIdsIn(records, "goal")

StoreTypeOK ==
  /\ inodes \in Seq(Inode)
  /\ store \in 0..Len(inodes) /\ temporary \in 0..Len(inodes)
  /\ server \in [step : {"idle", "write"}, records : SUBSET StoredRecord]
  /\ cli \in [Clis -> Invocation]
  /\ lastId \in Nat

Writing(v) ==
  /\ v.step # "off" => ClosedSet(v.read)
  /\ v.step = "fill" => v.inode = temporary /\ temporary # 0
  /\ v.step = "rename" => temporary # 0 /\ inodes[temporary] = Whole(v.read)

FileInv ==
  /\ store # 0 => inodes[store].whole /\ ClosedSet(inodes[store].records)
  /\ temporary # 0 => temporary # store

StoreInv ==
  /\ StoreTypeOK
  /\ FileInv
  /\ ClosedSet(server.records)
  /\ \A c \in Clis : Writing(cli[c])

(* A record set stays closed when a Case, a Goal, Evidence of a Case or a      *)
(* Mission of a Goal in it is added.                                           *)
LEMMA AddingStaysClosed ==
  ASSUME NEW R \in SUBSET StoredRecord, ClosedSet(R), NEW S \in SUBSET StoredRecord,
         \A r \in S : /\ r.kind = "evidence" => r.of \in RecordIdsIn(R \cup S, "case")
                      /\ r.kind = "mission" => r.of \in RecordIdsIn(R \cup S, "goal")
  PROVE  ClosedSet(R \cup S)
  <1>1. \A k : RecordIdsIn(R, k) \subseteq RecordIdsIn(R \cup S, k)
    BY DEF RecordIdsIn
  <1> QED BY <1>1 DEF ClosedSet

LEMMA RecFacts ==
  ASSUME NEW kind \in {"case", "evidence", "goal", "mission"}, NEW id \in Nat, NEW of \in Nat
  PROVE  /\ Rec(kind, id, of) \in StoredRecord
         /\ Rec(kind, id, of).kind = kind /\ Rec(kind, id, of).id = id /\ Rec(kind, id, of).of = of
  BY DEF Rec, StoredRecord

(* The Kernel's mutators keep a record set closed.                             *)
LEMMA MutatedIsClosed ==
  ASSUME NEW R \in SUBSET StoredRecord, ClosedSet(R), NEW id \in Nat, NEW after \in Mutated(R, id)
  PROVE  after \in SUBSET StoredRecord /\ ClosedSet(after)
  <1>1. CASE after = R \cup {Rec("case", id, 0), Rec("evidence", id, id)}
    <2> DEFINE S == {Rec("case", id, 0), Rec("evidence", id, id)}
    <2>1. S \in SUBSET StoredRecord
      BY RecFacts
    <2>2. id \in RecordIdsIn(R \cup S, "case")
      BY RecFacts DEF RecordIdsIn
    <2>3. \A r \in S : /\ r.kind = "evidence" => r.of \in RecordIdsIn(R \cup S, "case")
                       /\ r.kind = "mission" => r.of \in RecordIdsIn(R \cup S, "goal")
      BY <2>2, RecFacts
    <2> HIDE DEF S
    <2>4. ClosedSet(R \cup S)
      BY <2>1, <2>3, AddingStaysClosed
    <2>5. after = R \cup S
      BY <1>1 DEF S
    <2> QED BY <2>1, <2>4, <2>5
  <1>2. CASE after = R \cup {Rec("goal", id, 0)}
    <2> DEFINE S == {Rec("goal", id, 0)}
    <2>1. S \in SUBSET StoredRecord /\ \A r \in S : r.kind = "goal"
      BY RecFacts
    <2> HIDE DEF S
    <2>2. ClosedSet(R \cup S)
      BY <2>1, AddingStaysClosed
    <2>3. after = R \cup S
      BY <1>2 DEF S
    <2> QED BY <2>1, <2>2, <2>3
  <1>3. ASSUME NEW g \in RecordIdsIn(R, "goal"), after = R \cup {Rec("mission", id, g)}
        PROVE  after \in SUBSET StoredRecord /\ ClosedSet(after)
    <2> DEFINE S == {Rec("mission", id, g)}
    <2>0. g \in Nat
      BY DEF RecordIdsIn, StoredRecord
    <2>1. S \in SUBSET StoredRecord /\ \A r \in S : r.kind = "mission" /\ r.of = g
      BY <2>0, RecFacts
    <2>2. g \in RecordIdsIn(R \cup S, "goal")
      BY DEF RecordIdsIn
    <2> HIDE DEF S
    <2>3. ClosedSet(R \cup S)
      BY <2>1, <2>2, AddingStaysClosed
    <2>4. after = R \cup S
      BY <1>3 DEF S
    <2> QED BY <2>1, <2>3, <2>4
  <1>4. ASSUME NEW m \in R, m.kind = "mission", after = (R \ {m}) \cup {[m EXCEPT !.leased = ~@]}
        PROVE  after \in SUBSET StoredRecord /\ ClosedSet(after)
    <2>0. PICK n : n = [m EXCEPT !.leased = ~@]
      OBVIOUS
    <2>1. n \in StoredRecord /\ n.kind = "mission" /\ n.of = m.of /\ n = [m EXCEPT !.leased = ~@]
      <3>1. PICK leased \in BOOLEAN : leased = ~m.leased
        OBVIOUS
      <3>2. n = [m EXCEPT !.leased = leased]
        BY <2>0, <3>1
      <3> QED BY <1>4, <2>0, <3>2 DEF StoredRecord
    <2>2. after = (R \ {m}) \cup {n}
      BY <1>4, <2>1
    <2>3. \A k \in {"case", "goal"} : RecordIdsIn(R, k) \subseteq RecordIdsIn(after, k)
      BY <1>4, <2>2 DEF RecordIdsIn
    <2>4. ClosedSet(after)
      BY <1>4, <2>1, <2>2, <2>3 DEF ClosedSet
    <2> QED BY <2>1, <2>2, <2>4
  <1> QED BY <1>1, <1>2, <1>3, <1>4 DEF Mutated

LEMMA ContentsFacts ==
  ASSUME StoreInv
  PROVE  Contents \in SUBSET StoredRecord /\ ClosedSet(Contents) /\ Parses
  <1>1. CASE store = 0
    BY <1>1 DEF Contents, Parses, ClosedSet
  <1>2. CASE store # 0
    <2>1. store \in 1..Len(inodes) /\ inodes[store] \in Inode
      BY <1>2 DEF StoreInv, StoreTypeOK
    <2> QED BY <1>2, <2>1 DEF Contents, Parses, StoreInv, FileInv, Inode
  <1> QED BY <1>1, <1>2

LEMMA WholeFacts ==
  ASSUME NEW R \in SUBSET StoredRecord
  PROVE  Whole(R) \in Inode /\ Whole(R).whole /\ Whole(R).records = R
  BY DEF Whole, Inode

(* The Kernel's transaction.                                                   *)
LEMMA KernelKeepsStore ==
  ASSUME StoreInv, ProjectRead \/ ProjectWrite
  PROVE  StoreInv' /\ mcp' = mcp
  <1>1. CASE ProjectRead
    <2>1. lastId' = lastId + 1 /\ lastId' \in Nat /\ mcp' = mcp
          /\ UNCHANGED <<inodes, store, temporary, cli>>
      BY <1>1 DEF ProjectRead, StoreInv, StoreTypeOK
    <2>2. PICK after \in Mutated(Contents, lastId') : server' = [step |-> "write", records |-> after]
      BY <1>1 DEF ProjectRead
    <2>3. after \in SUBSET StoredRecord /\ ClosedSet(after)
      BY <2>1, <2>2, ContentsFacts, MutatedIsClosed
    <2>4. StoreTypeOK'
      BY <2>1, <2>2, <2>3 DEF StoreInv, StoreTypeOK
    <2>5. ClosedSet(server.records)'
      BY <2>2, <2>3 DEF ClosedSet, RecordIdsIn
    <2>6. FileInv'
      BY <2>1 DEF StoreInv, FileInv, ClosedSet, RecordIdsIn
    <2>7. \A c \in Clis : Writing(cli[c])'
      BY <2>1 DEF StoreInv, Writing, ClosedSet, RecordIdsIn
    <2> QED BY <2>1, <2>4, <2>5, <2>6, <2>7 DEF StoreInv
  <1>2. CASE ProjectWrite
    <2> DEFINE new == Whole(server.records)
    <2>1. /\ inodes' = Append(inodes, new) /\ store' = Len(inodes') /\ server' = IdleCli
          /\ UNCHANGED <<temporary, cli, mcp, lastId>>
      BY <1>2 DEF ProjectWrite
    <2>2. new \in Inode /\ new.whole /\ new.records = server.records /\ ClosedSet(server.records)
      BY WholeFacts DEF StoreInv, StoreTypeOK
    <2> HIDE DEF new
    <2>3. /\ inodes' \in Seq(Inode) /\ Len(inodes') = Len(inodes) + 1
          /\ inodes'[Len(inodes) + 1] = new /\ \A i \in 1..Len(inodes) : inodes'[i] = inodes[i]
      BY <2>1, <2>2, AppendProperties DEF StoreInv, StoreTypeOK
    <2>4. StoreTypeOK'
      BY <2>1, <2>3 DEF StoreInv, StoreTypeOK, IdleCli
    <2>5. temporary \in 0..Len(inodes) /\ Len(inodes) \in Nat
      BY DEF StoreInv, StoreTypeOK
    <2>6. FileInv'
      BY <2>1, <2>2, <2>3, <2>5 DEF FileInv, ClosedSet, RecordIdsIn
    <2>7. ClosedSet(server.records)'
      BY <2>1 DEF IdleCli, ClosedSet
    <2>8. \A c \in Clis : Writing(cli[c])'
      BY <2>1, <2>3, <2>5 DEF StoreInv, Writing, ClosedSet, RecordIdsIn
    <2> QED BY <2>1, <2>4, <2>6, <2>7, <2>8 DEF StoreInv
  <1> QED BY <1>1, <1>2

(* A question to the MCP server leaves the file alone: a leased Mission makes  *)
(* its reconciliation throw, and without one there is nothing to reconcile.    *)
LEMMA McpKeepsStore ==
  ASSUME StoreInv, ListMissions \/ OtherTool
  PROVE  StoreInv' /\ UNCHANGED <<inodes, store>>
  <1>1. UNCHANGED <<inodes, store>>
    BY DEF ListMissions, OtherTool, Reconciled
  <1>2. UNCHANGED <<temporary, server, cli, lastId>>
    BY DEF ListMissions, OtherTool
  <1> QED BY <1>1, <1>2 DEF StoreInv, StoreTypeOK, FileInv, Writing, ClosedSet, RecordIdsIn

(* The command line, one command at a time.                                    *)
LEMMA CommandKeepsStore ==
  ASSUME StoreInv, NEW c \in Clis, \A d \in Clis : d = c,
         NEW v \in Invocation, cli' = [cli EXCEPT ![c] = v],
         UNCHANGED <<inodes, store, temporary, server, mcp>>, lastId' \in Nat,
         Writing(v)
  PROVE  StoreInv' /\ mcp' = mcp
  <1>1. cli' \in [Clis -> Invocation] /\ cli'[c] = v
    BY DEF StoreInv, StoreTypeOK
  <1>2. StoreTypeOK'
    BY <1>1 DEF StoreInv, StoreTypeOK
  <1>3. FileInv' /\ ClosedSet(server.records)'
    BY DEF StoreInv, FileInv, ClosedSet, RecordIdsIn
  <1>4. \A d \in Clis : Writing(cli[d])'
    BY <1>1 DEF Writing, ClosedSet, RecordIdsIn
  <1> QED BY <1>2, <1>3, <1>4 DEF StoreInv

LEMMA NoCommandFacts == NoCommand \in Invocation /\ NoCommand.step = "off" /\ Writing(NoCommand)
  BY DEF NoCommand, Invocation, Commands, Writing

LEMMA CliKeepsStore ==
  ASSUME StoreInv, NEW c \in Clis, \A d \in Clis : d = c,
         \/ \E command \in Commands : CliRead(c, command)
         \/ \E ok \in BOOLEAN : Fetched(c, ok)
         \/ Added(c) \/ Printed(c) \/ Interrupt(c)
  PROVE  StoreInv' /\ mcp' = mcp
  <1>0. cli[c] \in Invocation /\ Writing(cli[c]) /\ lastId \in Nat /\ cli \in [Clis -> Invocation]
    BY DEF StoreInv, StoreTypeOK
  <1>1. ASSUME NEW command \in Commands, CliRead(c, command) PROVE StoreInv' /\ mcp' = mcp
    <2> DEFINE v == [step |-> "command", command |-> command, read |-> Kept(Contents), inode |-> 0]
    <2>1. /\ cli' = [cli EXCEPT ![c] = v]
          /\ UNCHANGED <<inodes, store, temporary, server, mcp, lastId>>
      BY <1>1, ContentsFacts DEF CliRead
    <2>2. Kept(Contents) \in SUBSET StoredRecord
      BY ContentsFacts DEF Kept
    <2>3. ClosedSet(Kept(Contents))
      <3>1. RecordIdsIn(Contents, "case") = RecordIdsIn(Kept(Contents), "case")
        BY DEF RecordIdsIn, Kept
      <3> QED BY <3>1, ContentsFacts DEF ClosedSet, Kept
    <2>4. v \in Invocation /\ v.step = "command" /\ v.read = Kept(Contents)
      BY <2>2 DEF Invocation
    <2>5. Writing(v)
      BY <2>3, <2>4 DEF Writing
    <2> HIDE DEF v
    <2> QED BY <1>0, <2>1, <2>4, <2>5, CommandKeepsStore
  <1>2. ASSUME NEW ok \in BOOLEAN, Fetched(c, ok) PROVE StoreInv' /\ mcp' = mcp
    <2>1. UNCHANGED <<inodes, store, temporary, server, mcp, lastId>> /\ cli[c].step = "command"
      BY <1>2 DEF Fetched
    <2>2. CASE ok
      <3> DEFINE v == [cli[c] EXCEPT !.command = "evidence"]
      <3>1. cli' = [cli EXCEPT ![c] = v]
        BY <1>0, <1>2, <2>2 DEF Fetched
      <3>2. v \in Invocation /\ v.step = "command" /\ v.read = cli[c].read
        BY <1>0, <2>1 DEF Invocation, Commands
      <3>3. Writing(v)
        BY <1>0, <2>1, <3>2 DEF Writing
      <3> HIDE DEF v
      <3> QED BY <1>0, <2>1, <3>1, <3>2, <3>3, CommandKeepsStore
    <2>3. CASE ~ok
      <3>1. cli' = [cli EXCEPT ![c] = NoCommand]
        BY <1>2, <2>3 DEF Fetched
      <3> QED BY <1>0, <2>1, <3>1, NoCommandFacts, CommandKeepsStore
    <2> QED BY <2>2, <2>3
  <1>3. CASE Added(c)
    <2>1. /\ cli[c].step = "command" /\ cli[c].command \in {"case", "evidence"}
          /\ lastId' = lastId + 1 /\ lastId' \in Nat
          /\ UNCHANGED <<inodes, store, temporary, server, mcp>>
      <3>1. /\ cli[c].step = "command" /\ cli[c].command \in {"case", "evidence"} /\ lastId' = lastId + 1
            /\ UNCHANGED <<inodes, store, temporary, server, mcp>>
        BY <1>3 DEF Added
      <3> QED BY <1>0, <3>1
    <2>2. PICK r \in IF cli[c].command = "case" THEN {Rec("case", lastId', 0)}
                     ELSE {Rec("evidence", lastId', of) : of \in CaseFor(cli[c].read)} :
            cli' = [cli EXCEPT ![c].step = "open", ![c].read = @ \cup {r}]
      BY <1>3 DEF Added
    <2>3. /\ r \in StoredRecord /\ r.kind \in {"case", "evidence"}
          /\ r.kind = "evidence" => r.of \in RecordIdsIn(cli[c].read, "case")
      <3>1. CASE cli[c].command = "case"
        BY <2>1, <2>2, <3>1, RecFacts
      <3>2. CASE cli[c].command # "case"
        <4>1. PICK of \in CaseFor(cli[c].read) : r = Rec("evidence", lastId', of)
          BY <2>2, <3>2
        <4>2. of \in Nat
          BY <1>0, <4>1 DEF CaseFor, RecordIdsIn, Invocation, StoredRecord
        <4> QED BY <2>1, <4>1, <4>2, RecFacts DEF CaseFor
      <3> QED BY <3>1, <3>2
    <2> DEFINE v == [cli[c] EXCEPT !.step = "open", !.read = cli[c].read \cup {r}]
    <2>4. cli' = [cli EXCEPT ![c] = v]
      BY <1>0, <2>2
    <2>5. v \in Invocation /\ v.step = "open" /\ v.read = cli[c].read \cup {r}
      BY <1>0, <2>3 DEF Invocation
    <2>6. ClosedSet(cli[c].read \cup {r})
      <3>1. cli[c].read \in SUBSET StoredRecord /\ ClosedSet(cli[c].read)
        BY <1>0, <2>1 DEF Writing, Invocation
      <3>2. RecordIdsIn(cli[c].read, "case") \subseteq RecordIdsIn(cli[c].read \cup {r}, "case")
        BY DEF RecordIdsIn
      <3> QED BY <2>3, <3>1, <3>2, AddingStaysClosed
    <2>7. Writing(v)
      BY <2>5, <2>6 DEF Writing
    <2> HIDE DEF v
    <2> QED BY <2>1, <2>4, <2>5, <2>7, CommandKeepsStore
  <1>4. CASE Printed(c) \/ Interrupt(c)
    <2>1. cli' = [cli EXCEPT ![c] = NoCommand] /\ UNCHANGED <<inodes, store, temporary, server, mcp, lastId>>
      BY <1>4 DEF Printed, Interrupt
    <2> QED BY <1>0, <2>1, NoCommandFacts, CommandKeepsStore
  <1> QED BY <1>1, <1>2, <1>3, <1>4

(* The write of the command line: the temporary file is torn while it is       *)
(* filled, and store.json is another inode until the rename.                   *)
LEMMA OpenKeepsStore ==
  ASSUME StoreInv, NEW c \in Clis, \A d \in Clis : d = c, OpenTemporary(c)
  PROVE  StoreInv' /\ mcp' = mcp
  <1>0. cli[c] \in Invocation /\ Writing(cli[c]) /\ cli \in [Clis -> Invocation] /\ cli[c].step = "open"
    BY DEF StoreInv, StoreTypeOK, OpenTemporary
  <1>1. UNCHANGED <<store, server, mcp, lastId>>
    BY DEF OpenTemporary
  <1>2. /\ inodes' \in Seq(Inode) /\ Len(inodes) <= Len(inodes') /\ Len(inodes) \in Nat /\ Len(inodes') \in Nat
        /\ temporary' \in 1..Len(inodes') /\ temporary' # store
        /\ \A i \in 1..Len(inodes) : i # temporary' => inodes'[i] = inodes[i]
    <2>0. Torn \in Inode /\ Len(inodes) \in Nat /\ store \in 0..Len(inodes) /\ inodes \in Seq(Inode)
      BY DEF StoreInv, StoreTypeOK, Torn, Inode
    <2>1. CASE temporary = 0
      <3>1. inodes' = Append(inodes, Torn) /\ temporary' = Len(inodes')
        BY <2>1 DEF OpenTemporary
      <3>2. /\ inodes' \in Seq(Inode) /\ Len(inodes') = Len(inodes) + 1
            /\ \A i \in 1..Len(inodes) : inodes'[i] = inodes[i]
        BY <2>0, <3>1, AppendProperties
      <3> QED BY <2>0, <3>1, <3>2
    <2>2. CASE temporary # 0
      <3>1. inodes' = [inodes EXCEPT ![temporary] = Torn] /\ temporary' = temporary
        BY <2>2 DEF OpenTemporary
      <3>2. temporary \in 1..Len(inodes) /\ temporary # store
        BY <2>2 DEF StoreInv, StoreTypeOK, FileInv
      <3>3. /\ inodes' \in Seq(Inode) /\ Len(inodes') = Len(inodes)
            /\ \A i \in 1..Len(inodes) : i # temporary => inodes'[i] = inodes[i]
        BY <2>0, <3>1, <3>2, ExceptSeq
      <3> QED BY <2>0, <3>1, <3>2, <3>3
    <2> QED BY <2>1, <2>2
  <1>3. PICK v \in Invocation : /\ cli' = [cli EXCEPT ![c] = v]
                                /\ v.step = "fill" /\ v.inode = temporary' /\ v.read = cli[c].read
    <2> DEFINE v == [cli[c] EXCEPT !.step = "fill", !.inode = temporary']
    <2>1. cli' = [cli EXCEPT ![c] = v]
      BY <1>0 DEF OpenTemporary
    <2>2. temporary' \in Nat
      BY <1>2
    <2>3. v \in Invocation /\ v.step = "fill" /\ v.inode = temporary' /\ v.read = cli[c].read
      BY <1>0, <2>2 DEF Invocation
    <2> HIDE DEF v
    <2> QED BY <2>1, <2>3
  <1>4. cli' \in [Clis -> Invocation] /\ cli'[c] = v
    BY <1>0, <1>3
  <1>5. StoreTypeOK'
    BY <1>1, <1>2, <1>4 DEF StoreInv, StoreTypeOK
  <1>6. FileInv'
    <2>1. store # 0 => store \in 1..Len(inodes)
      BY DEF StoreInv, StoreTypeOK
    <2> QED BY <1>1, <1>2, <2>1 DEF StoreInv, FileInv, ClosedSet, RecordIdsIn
  <1>7. ClosedSet(server.records)'
    BY <1>1 DEF StoreInv, ClosedSet, RecordIdsIn
  <1>8. \A d \in Clis : Writing(cli[d])'
    BY <1>0, <1>2, <1>3, <1>4 DEF Writing, ClosedSet, RecordIdsIn
  <1> QED BY <1>1, <1>5, <1>6, <1>7, <1>8 DEF StoreInv

LEMMA FillKeepsStore ==
  ASSUME StoreInv, NEW c \in Clis, \A d \in Clis : d = c, FillTemporary(c)
  PROVE  StoreInv' /\ mcp' = mcp
  <1>0. /\ cli[c] \in Invocation /\ Writing(cli[c]) /\ cli \in [Clis -> Invocation] /\ cli[c].step = "fill"
        /\ UNCHANGED <<store, temporary, server, mcp, lastId>>
    BY DEF StoreInv, StoreTypeOK, FillTemporary
  <1>1. /\ temporary \in 1..Len(inodes) /\ cli[c].inode = temporary /\ temporary # store
        /\ ClosedSet(cli[c].read) /\ cli[c].read \in SUBSET StoredRecord /\ inodes \in Seq(Inode)
    BY <1>0 DEF StoreInv, StoreTypeOK, FileInv, Writing, Invocation
  <1>2. inodes' = [inodes EXCEPT ![temporary] = Whole(cli[c].read)]
    BY <1>1 DEF FillTemporary
  <1>3. /\ inodes' \in Seq(Inode) /\ Len(inodes') = Len(inodes)
        /\ \A i \in 1..Len(inodes) : i # temporary => inodes'[i] = inodes[i]
        /\ inodes'[temporary] = Whole(cli[c].read)
    BY <1>1, <1>2, WholeFacts, ExceptSeq
  <1>4. PICK v \in Invocation : cli' = [cli EXCEPT ![c] = v] /\ v.step = "rename" /\ v.read = cli[c].read
    <2> DEFINE v == [cli[c] EXCEPT !.step = "rename"]
    <2>1. cli' = [cli EXCEPT ![c] = v]
      BY <1>0 DEF FillTemporary
    <2>2. v \in Invocation /\ v.step = "rename" /\ v.read = cli[c].read
      BY <1>0 DEF Invocation
    <2> HIDE DEF v
    <2> QED BY <2>1, <2>2
  <1>5. cli' \in [Clis -> Invocation] /\ cli'[c] = v
    BY <1>0, <1>4
  <1>6. StoreTypeOK'
    BY <1>0, <1>3, <1>5 DEF StoreInv, StoreTypeOK
  <1>7. FileInv'
    <2>1. store # 0 => store \in 1..Len(inodes)
      BY DEF StoreInv, StoreTypeOK
    <2> QED BY <1>0, <1>1, <1>3, <2>1 DEF StoreInv, FileInv, ClosedSet, RecordIdsIn
  <1>8. ClosedSet(server.records)'
    BY <1>0 DEF StoreInv, ClosedSet, RecordIdsIn
  <1>9. \A d \in Clis : Writing(cli[d])'
    <2>1. temporary' # 0 /\ inodes'[temporary'] = Whole(cli'[c].read)
      BY <1>0, <1>1, <1>3, <1>4, <1>5
    <2> QED BY <1>1, <1>4, <1>5, <2>1 DEF Writing, ClosedSet, RecordIdsIn
  <1> QED BY <1>0, <1>6, <1>7, <1>8, <1>9 DEF StoreInv

LEMMA RenameKeepsStore ==
  ASSUME StoreInv, NEW c \in Clis, \A d \in Clis : d = c, RenameTemporary(c)
  PROVE  StoreInv' /\ mcp' = mcp
  <1>1. /\ cli[c] \in Invocation /\ Writing(cli[c]) /\ cli[c].step = "rename"
        /\ cli' = [cli EXCEPT ![c] = NoCommand] /\ UNCHANGED <<inodes, server, mcp, lastId>>
    BY DEF StoreInv, StoreTypeOK, RenameTemporary
  <1>2. /\ temporary # 0 /\ store' = temporary /\ temporary' = 0
        /\ inodes[temporary] = Whole(cli[c].read) /\ ClosedSet(cli[c].read)
    BY <1>1 DEF RenameTemporary, Writing
  <1>3. Whole(cli[c].read).whole /\ Whole(cli[c].read).records = cli[c].read
    BY DEF Whole
  <1>4. StoreTypeOK'
    BY <1>1, <1>2, NoCommandFacts DEF StoreInv, StoreTypeOK
  <1>5. FileInv'
    BY <1>1, <1>2, <1>3 DEF FileInv, ClosedSet, RecordIdsIn
  <1>6. ClosedSet(server.records)' /\ \A d \in Clis : Writing(cli[d])'
    BY <1>1, NoCommandFacts DEF StoreInv, StoreTypeOK, Writing, ClosedSet, RecordIdsIn
  <1> QED BY <1>1, <1>4, <1>5, <1>6 DEF StoreInv

(* With one command at a time, store.json is whole at every moment (also when  *)
(* a command is interrupted), it has no dangling reference whichever program   *)
(* wrote last, and the MCP server never writes it.                             *)
THEOREM StoreStaysSound ==
  ASSUME \A c, d \in Clis : c = d
  PROVE  StoreSpec => StoreIsSound
  <1>1. StoreInit => StoreInv
    BY NoCommandFacts DEF StoreInit, StoreInv, StoreTypeOK, FileInv, IdleCli, ClosedSet
  <1>2. StoreInv /\ [StoreNext]_fileVars => StoreInv' /\ (mcp' # mcp => UNCHANGED <<inodes, store>>)
    <2> SUFFICES ASSUME StoreInv, [StoreNext]_fileVars
                 PROVE  StoreInv' /\ (mcp' # mcp => UNCHANGED <<inodes, store>>)
      OBVIOUS
    <2>1. CASE UNCHANGED fileVars
      BY <2>1 DEF StoreInv, StoreTypeOK, FileInv, Writing, ClosedSet, RecordIdsIn, fileVars
    <2>2. CASE StoreNext
      <3>1. CASE ProjectRead \/ ProjectWrite
        BY <3>1, KernelKeepsStore
      <3>2. CASE ListMissions \/ OtherTool
        BY <3>2, McpKeepsStore
      <3>3. ASSUME NEW c \in Clis,
                   \/ \E command \in Commands : CliRead(c, command)
                   \/ \E ok \in BOOLEAN : Fetched(c, ok)
                   \/ Added(c) \/ Printed(c) \/ OpenTemporary(c) \/ FillTemporary(c) \/ RenameTemporary(c) \/ Interrupt(c)
            PROVE  StoreInv' /\ (mcp' # mcp => UNCHANGED <<inodes, store>>)
        BY <3>3, CliKeepsStore, OpenKeepsStore, FillKeepsStore, RenameKeepsStore
      <3> QED BY <2>2, <3>1, <3>2, <3>3 DEF StoreNext
    <2> QED BY <2>1, <2>2
  <1>3. StoreInv => StoreIsWhole /\ StoreIsClosed
    BY ContentsFacts DEF StoreIsWhole, StoreIsClosed, ClosedSet
  <1> QED BY <1>1, <1>2, <1>3, PTL DEF StoreSpec, StoreIsSound, McpIsReadOnly

-----------------------------------------------------------------------------
(* The inbox of Finds. The SUPPORT rule first: what covers more terms is       *)
(* supported at least as well, and filler covers none.                         *)

LEMMA LargerOf ==
  ASSUME NEW a \in Int, NEW b \in Int
  PROVE  Max({a, b}) = IF a >= b THEN a ELSE b
  <1>1. PICK c : c = IF a >= b THEN a ELSE b
    OBVIOUS
  <1>2. c \in {a, b} /\ \A y \in {a, b} : c >= y
    BY <1>1
  <1>3. \A x \in {a, b} : (\A y \in {a, b} : x >= y) => x = c
    BY <1>1
  <1> QED BY <1>1, <1>2, <1>3 DEF Max

LEMMA SmallerOf ==
  ASSUME NEW a \in Int, NEW b \in Int
  PROVE  Min({a, b}) = IF a <= b THEN a ELSE b
  <1>1. PICK c : c = IF a <= b THEN a ELSE b
    OBVIOUS
  <1>2. c \in {a, b} /\ \A y \in {a, b} : c <= y
    BY <1>1
  <1>3. \A x \in {a, b} : (\A y \in {a, b} : x <= y) => x = c
    BY <1>1
  <1> QED BY <1>1, <1>2, <1>3 DEF Min

(* Every word has one canonical form: a list of words has no more of them. *)
LEMMA TermsAreFinite ==
  ASSUME NEW words, IsFiniteSet(words)
  PROVE  IsFiniteSet(uniqueMeaningfulTerms(words))
  <1>1. PICK f : f = [w \in words |-> canonical(w)]
    OBVIOUS
  <1>2. PICK T : T = uniqueMeaningfulTerms(words)
    OBVIOUS
  <1>3. f \in Surjection(words, T)
    <2>1. f \in [words -> T] /\ \A t \in T : \E w \in words : f[w] = t
      BY <1>1, <1>2 DEF uniqueMeaningfulTerms
    <2> QED BY <2>1 DEF Surjection
  <1> QED BY <1>2, <1>3, FS_Surjection

LEMMA HitsGrow ==
  ASSUME NEW terms, IsFiniteSet(terms), NEW page, NEW fuller, page \subseteq fuller
  PROVE  /\ Hits(terms, page) \in Nat /\ Hits(terms, fuller) \in Nat
         /\ Hits(terms, page) <= Hits(terms, fuller)
  <1>1. PICK S, T : /\ S = {t \in terms \ Generic : termCovered(t, page)}
                    /\ T = {t \in terms \ Generic : termCovered(t, fuller)}
    OBVIOUS
  <1>2. S \subseteq T /\ T \subseteq terms
    BY <1>1 DEF termCovered
  <1>3. IsFiniteSet(T)
    BY <1>2, FS_Subset
  <1>4. IsFiniteSet(S) /\ Cardinality(S) <= Cardinality(T)
    BY <1>2, <1>3, FS_Subset
  <1>5. Cardinality(S) \in Nat /\ Cardinality(T) \in Nat
    BY <1>3, <1>4, FS_CardinalityType
  <1> QED BY <1>1, <1>4, <1>5 DEF Hits

(* Filler in a Goal is one more term, and never a hit. *)
LEMMA FillerHitsNothing ==
  ASSUME NEW terms, NEW filler \in Generic, NEW page
  PROVE  Hits(terms \cup {filler}, page) = Hits(terms, page)
  <1>1. (terms \cup {filler}) \ Generic = terms \ Generic
    OBVIOUS
  <1> QED BY <1>1 DEF Hits

LEMMA FillerIsATerm ==
  ASSUME NEW words, NEW filler \in Generic
  PROVE  uniqueMeaningfulTerms(words \cup {filler}) = uniqueMeaningfulTerms(words) \cup {filler}
  <1>1. canonical(filler) = filler
    BY FillerIsPlain DEF canonical
  <1> QED BY <1>1 DEF uniqueMeaningfulTerms

LEMMA FillerAsksForMore ==
  ASSUME NEW terms, IsFiniteSet(terms), NEW filler, NEW home \in BOOLEAN
  PROVE  RequiredHits(terms, home) <= RequiredHits(terms \cup {filler}, home)
  <1>1. PICK more : more = terms \cup {filler}
    OBVIOUS
  <1>2. IsFiniteSet(more) /\ terms \subseteq more
    BY <1>1, FS_AddElement
  <1>3. PICK n, k \in Nat : n = Cardinality(terms) /\ k = Cardinality(more)
    BY <1>2, FS_CardinalityType
  <1>4. n <= k
    BY <1>2, <1>3, FS_Subset
  <1>5. PICK a, b, c, d \in Nat : /\ a = (3 * n + 4) \div 5 /\ b = (3 * k + 4) \div 5
                                 /\ c = (2 * n + 4) \div 5 /\ d = (2 * k + 4) \div 5
    OBVIOUS
  <1>6. a <= b /\ c <= d
    <2>1. 5 * a <= 3 * n + 4 /\ 3 * k + 4 < 5 * b + 5
      BY <1>5
    <2>2. 5 * c <= 2 * n + 4 /\ 2 * k + 4 < 5 * d + 5
      BY <1>5
    <2> QED BY <1>4, <2>1, <2>2
  <1>7. /\ Max({3, a}) = (IF 3 >= a THEN 3 ELSE a) /\ Max({3, b}) = (IF 3 >= b THEN 3 ELSE b)
        /\ Max({2, c}) = (IF 2 >= c THEN 2 ELSE c) /\ Max({2, d}) = (IF 2 >= d THEN 2 ELSE d)
    BY LargerOf
  <1>8. Max({3, a}) <= Max({3, b}) /\ Max({2, c}) <= Max({2, d})
    BY <1>6, <1>7
  <1>9. /\ RequiredHits(terms, home) = IF home THEN Max({3, a}) ELSE Max({2, c})
        /\ RequiredHits(more, home) = IF home THEN Max({3, b}) ELSE Max({2, d})
    BY <1>3, <1>5 DEF RequiredHits
  <1> QED BY <1>1, <1>8, <1>9

LEMMA FewerAtTheFrontPage ==
  ASSUME NEW terms, IsFiniteSet(terms)
  PROVE  /\ RequiredHits(terms, TRUE) \in Nat /\ RequiredHits(terms, FALSE) \in Nat
         /\ RequiredHits(terms, FALSE) <= RequiredHits(terms, TRUE)
         /\ RequiredHits(terms, FALSE) >= 2
  <1>1. PICK n \in Nat : n = Cardinality(terms)
    BY FS_CardinalityType
  <1>2. PICK a, b \in Nat : a = (3 * n + 4) \div 5 /\ b = (2 * n + 4) \div 5
    OBVIOUS
  <1>3. b <= a
    <2>1. 5 * a <= 3 * n + 4 /\ 3 * n + 4 < 5 * a + 5
      BY <1>2
    <2>2. 5 * b <= 2 * n + 4 /\ 2 * n + 4 < 5 * b + 5
      BY <1>2
    <2> QED BY <2>1, <2>2
  <1>4. Max({3, a}) = (IF 3 >= a THEN 3 ELSE a) /\ Max({2, b}) = (IF 2 >= b THEN 2 ELSE b)
    BY LargerOf
  <1>5. RequiredHits(terms, TRUE) = Max({3, a}) /\ RequiredHits(terms, FALSE) = Max({2, b})
    BY <1>1, <1>2 DEF RequiredHits
  <1>6. PICK home, other \in Nat : home = (IF 3 >= a THEN 3 ELSE a) /\ other = (IF 2 >= b THEN 2 ELSE b)
    OBVIOUS
  <1>7. other <= home /\ other >= 2
    BY <1>3, <1>6
  <1>8. RequiredHits(terms, TRUE) = home /\ RequiredHits(terms, FALSE) = other
    BY <1>4, <1>5, <1>6
  <1> QED BY <1>7, <1>8

LEMMA KeywordsStayCovered ==
  ASSUME NEW keywords, IsFiniteSet(keywords), NEW page, NEW fuller, page \subseteq fuller,
         keywordsCovered(keywords, page)
  PROVE  keywordsCovered(keywords, fuller)
  <1>1. PICK ks : ks = uniqueMeaningfulTerms(keywords) \ Generic
    OBVIOUS
  <1>2. IsFiniteSet(ks)
    BY <1>1, TermsAreFinite, FS_Difference
  <1>3. PICK n \in Nat : n = Cardinality(ks)
    BY <1>2, FS_CardinalityType
  <1>4. PICK k \in Nat : k = Min({2, Cardinality(ks)})
    <2>1. Min({2, n}) \in Nat
      BY SmallerOf
    <2> QED BY <1>3, <2>1
  <1>5. Hits(ks, page) >= k
    BY <1>1, <1>4 DEF keywordsCovered
  <1>6. /\ Hits(ks, page) \in Nat /\ Hits(ks, fuller) \in Nat
        /\ Hits(ks, page) <= Hits(ks, fuller)
    BY <1>2, HitsGrow
  <1>7. Hits(ks, fuller) >= k
    BY <1>5, <1>6
  <1> QED BY <1>1, <1>4, <1>7 DEF keywordsCovered

LEMMA SupportGrows ==
  ASSUME NEW i \in DOMAIN GoalTexts
  PROVE  LET text == GoalTexts[i] IN
         /\ \A page : explainEvidenceSupport(text, page, TRUE) => explainEvidenceSupport(text, page, FALSE)
         /\ \A page, fuller : page \subseteq fuller /\ explainEvidenceSupport(text, page, FALSE)
                                => explainEvidenceSupport(text, fuller, FALSE)
         /\ \A page : \A filler \in Generic, b \in BOOLEAN :
              explainEvidenceSupport(Padded(text, filler), page, b)
                => explainEvidenceSupport(text, page, b)
  <1>1. PICK text : text = GoalTexts[i]
    OBVIOUS
  <1>2. PICK terms : terms = uniqueMeaningfulTerms(text.terms \cup text.keywords)
    OBVIOUS
  <1>3. IsFiniteSet(terms) /\ IsFiniteSet(text.keywords)
    <2>1. IsFiniteSet(text.terms) /\ IsFiniteSet(text.keywords)
      BY <1>1, TextsAreFinite
    <2>2. IsFiniteSet(text.terms \cup text.keywords)
      BY <2>1, FS_Union
    <2> QED BY <1>2, <2>1, <2>2, TermsAreFinite
  <1>4. PICK home, other \in Nat : home = RequiredHits(terms, TRUE) /\ other = RequiredHits(terms, FALSE)
    BY <1>3, FewerAtTheFrontPage
  <1>5. other <= home /\ other >= 2
    BY <1>3, <1>4, FewerAtTheFrontPage
  <1>6. \A page : Hits(terms, page) \in Nat
    BY <1>3, HitsGrow
  <1>7. \A page, b : explainEvidenceSupport(text, page, b) <=>
          /\ page # {} /\ text.ids \subseteq page
          /\ \/ terms = {} /\ text.ids # {}
             \/ /\ terms # {} /\ Hits(terms, page) >= RequiredHits(terms, b)
                /\ keywordsCovered(text.keywords, page)
    BY <1>2 DEF explainEvidenceSupport
  <1>8. \A page : explainEvidenceSupport(text, page, TRUE) => explainEvidenceSupport(text, page, FALSE)
    <2> SUFFICES ASSUME NEW page, explainEvidenceSupport(text, page, TRUE)
                 PROVE  explainEvidenceSupport(text, page, FALSE)
      OBVIOUS
    <2>1. Hits(terms, page) >= home => Hits(terms, page) >= other
      BY <1>5, <1>6
    <2> QED BY <1>4, <1>7, <2>1
  <1>9. ASSUME NEW page, NEW fuller, page \subseteq fuller, explainEvidenceSupport(text, page, FALSE)
        PROVE  explainEvidenceSupport(text, fuller, FALSE)
    <2>1. Hits(terms, page) >= other => Hits(terms, fuller) >= other
      <3>1. /\ Hits(terms, page) \in Nat /\ Hits(terms, fuller) \in Nat
            /\ Hits(terms, page) <= Hits(terms, fuller)
        BY <1>3, <1>9, HitsGrow
      <3> QED BY <3>1
    <2>2. keywordsCovered(text.keywords, page) => keywordsCovered(text.keywords, fuller)
      BY <1>3, <1>9, KeywordsStayCovered
    <2> QED BY <1>4, <1>7, <1>9, <2>1, <2>2
  <1>10. ASSUME NEW page, NEW filler \in Generic, NEW b \in BOOLEAN,
                explainEvidenceSupport(Padded(text, filler), page, b)
         PROVE  explainEvidenceSupport(text, page, b)
    <2>1. PICK wide : wide = Padded(text, filler)
      OBVIOUS
    <2>2. /\ wide.terms = text.terms \cup {filler}
          /\ wide.keywords = text.keywords /\ wide.ids = text.ids
      BY <1>1, <2>1, TextsAreFinite DEF Padded
    <2>3. wide.terms \cup wide.keywords = (text.terms \cup text.keywords) \cup {filler}
      BY <2>2
    <2>4. uniqueMeaningfulTerms(wide.terms \cup wide.keywords) = terms \cup {filler}
      BY <1>2, <2>3, FillerIsATerm
    <2>5. terms \cup {filler} # {}
      OBVIOUS
    <2>6. /\ page # {} /\ text.ids \subseteq page
          /\ Hits(terms \cup {filler}, page) >= RequiredHits(terms \cup {filler}, b)
          /\ keywordsCovered(text.keywords, page)
      BY <1>10, <2>1, <2>2, <2>4, <2>5 DEF explainEvidenceSupport
    <2>7. Hits(terms, page) >= RequiredHits(terms \cup {filler}, b)
      BY <2>6, FillerHitsNothing
    <2>8. /\ RequiredHits(terms, b) \in Nat /\ RequiredHits(terms \cup {filler}, b) \in Nat
          /\ RequiredHits(terms, b) >= 2
      <3>1. IsFiniteSet(terms \cup {filler})
        BY <1>3, FS_AddElement
      <3>2. /\ RequiredHits(terms, b) \in Nat /\ RequiredHits(terms \cup {filler}, b) \in Nat
        BY <1>3, <3>1, FewerAtTheFrontPage
      <3>3. CASE b = TRUE
        <4>1. RequiredHits(terms, b) = home
          BY <1>4, <3>3
        <4> QED BY <1>5, <3>2, <4>1
      <3>4. CASE b = FALSE
        <4>1. RequiredHits(terms, b) = other
          BY <1>4, <3>4
        <4> QED BY <1>5, <3>2, <4>1
      <3> QED BY <3>3, <3>4
    <2>9. Hits(terms, page) >= RequiredHits(terms, b)
      <3>1. RequiredHits(terms, b) <= RequiredHits(terms \cup {filler}, b)
        BY <1>3, FillerAsksForMore
      <3>2. PICK h : h = Hits(terms, page)
        OBVIOUS
      <3>3. h \in Nat
        BY <1>6, <3>2
      <3>4. PICK q, r \in Nat : q = RequiredHits(terms, b) /\ r = RequiredHits(terms \cup {filler}, b)
        BY <2>8
      <3>5. h >= r /\ q <= r
        BY <2>7, <3>1, <3>2, <3>4
      <3>6. h >= q
        BY <3>3, <3>4, <3>5
      <3> QED BY <3>2, <3>4, <3>6
    <2>10. terms # {}
      <3>1. CASE terms = {}
        <4>1. Hits(terms, page) = 0
          <5>1. {t \in terms \ Generic : termCovered(t, page)} = {}
            BY <3>1
          <5> QED BY <5>1, FS_EmptySet DEF Hits
        <4> QED BY <2>8, <2>9, <4>1
      <3> QED BY <3>1
    <2> QED BY <1>7, <2>6, <2>9, <2>10
  <1> QED BY <1>1, <1>8, <1>9, <1>10

LEMMA SupportStaysMonotone == SupportIsMonotone
  <1> SUFFICES ASSUME NEW i \in DOMAIN GoalTexts
               PROVE  LET text == GoalTexts[i] IN
                      /\ \A page \in SUBSET Tokens : explainEvidenceSupport(text, page, TRUE)
                                                       => explainEvidenceSupport(text, page, FALSE)
                      /\ \A page \in SUBSET Tokens, more \in Tokens :
                           explainEvidenceSupport(text, page, FALSE)
                             => explainEvidenceSupport(text, page \cup {more}, FALSE)
                      /\ \A page \in SUBSET Tokens, filler \in Generic, home \in BOOLEAN :
                           explainEvidenceSupport(Padded(text, filler), page, home)
                             => explainEvidenceSupport(text, page, home)
    BY DEF SupportIsMonotone
  <1>1. PICK text : text = GoalTexts[i]
    OBVIOUS
  <1>2. /\ \A page : explainEvidenceSupport(text, page, TRUE) => explainEvidenceSupport(text, page, FALSE)
        /\ \A page, fuller : page \subseteq fuller /\ explainEvidenceSupport(text, page, FALSE)
                               => explainEvidenceSupport(text, fuller, FALSE)
        /\ \A page : \A filler \in Generic, b \in BOOLEAN :
             explainEvidenceSupport(Padded(text, filler), page, b)
               => explainEvidenceSupport(text, page, b)
    BY <1>1, SupportGrows
  <1>3. \A page, more : page \subseteq page \cup {more}
    OBVIOUS
  <1>4. \A page \in SUBSET Tokens, filler \in Generic, home \in BOOLEAN :
          explainEvidenceSupport(Padded(text, filler), page, home)
            => explainEvidenceSupport(text, page, home)
    <2> SUFFICES ASSUME NEW page \in SUBSET Tokens, NEW filler \in Generic, NEW home \in BOOLEAN,
                        explainEvidenceSupport(Padded(text, filler), page, home)
                 PROVE  explainEvidenceSupport(text, page, home)
      OBVIOUS
    <2> QED BY <1>2
  <1>5. /\ \A page \in SUBSET Tokens : explainEvidenceSupport(text, page, TRUE)
                                        => explainEvidenceSupport(text, page, FALSE)
        /\ \A page \in SUBSET Tokens, more \in Tokens :
             explainEvidenceSupport(text, page, FALSE)
               => explainEvidenceSupport(text, page \cup {more}, FALSE)
    BY <1>2, <1>3
  <1> QED BY <1>1, <1>4, <1>5

(* Induction over the numbers, from the least counterexample.                  *)
LEMMA EveryNumber ==
  ASSUME NEW S, 0 \in S, \A n \in Nat : n \in S => n + 1 \in S
  PROVE  Nat \subseteq S
  <1> SUFFICES ASSUME Nat \ S # {} PROVE FALSE
    OBVIOUS
  <1> DEFINE R == OpToRel(<, Nat)
  <1>1. PICK x \in Nat \ S : \A y \in Nat \ S : ~(<<y, x>> \in R)
    BY NatLessThanWellFounded, WFMin
  <1>2. \A y \in Nat : y < x => <<y, x>> \in R
    BY DEF OpToRel
  <1> HIDE DEF R
  <1>3. x \in Nat /\ x # 0 /\ x - 1 \in Nat /\ x - 1 < x
    BY <1>1
  <1>4. x - 1 \in S
    BY <1>1, <1>2, <1>3
  <1>5. x - 1 + 1 \in S
    BY <1>3, <1>4
  <1> QED BY <1>1, <1>3, <1>5

-----------------------------------------------------------------------------
(* What the feedback teaches: one event more moves the sum by its own delta.   *)

Categories == {Labels[w] : w \in UNION PageTexts} \cup {GoalTexts[i].scope : i \in DOMAIN GoalTexts} \cup {"goal"}
FindIds == Owners \X Urls
FeedbackRecord == [find : FindIds, signal : FeedbackSignals, category : Categories, at : Nat]

LearnStep(e, category, s) == IF e.category = category THEN Bounded(-20, 20, s + Deltas[e.signal]) ELSE s
LearnedUpTo(given, category, n, sum) ==
  sum = [i \in 0..n |-> IF i = 0 THEN 0
                        ELSE IF given[i].category = category
                             THEN Bounded(-20, 20, sum[i - 1] + Deltas[given[i].signal])
                        ELSE sum[i - 1]]

LEMMA LearnedExists ==
  ASSUME NEW given, NEW category
  PROVE  \A n \in Nat : \E sum : LearnedUpTo(given, category, n, sum)
  <1> DEFINE S == {n \in Nat : \E sum : LearnedUpTo(given, category, n, sum)}
             next(a, i) == LearnStep(given[i], category, a[i - 1])
  <1>1. 0 \in S
    <2>1. LearnedUpTo(given, category, 0, [i \in 0..0 |-> 0])
      BY DEF LearnedUpTo
    <2> QED BY <2>1
  <1>2. ASSUME NEW n \in Nat, n \in S PROVE n + 1 \in S
    <2>1. PICK a : LearnedUpTo(given, category, n, a)
      BY <1>2
    <2>2. \A i \in 0..n : a[i] = IF i = 0 THEN 0 ELSE next(a, i)
      BY <2>1 DEF LearnedUpTo, LearnStep
    <2> DEFINE b == [i \in 0..n + 1 |-> IF i = n + 1 THEN next(a, n + 1) ELSE a[i]]
    <2>3. \A i \in 0..n : b[i] = a[i]
      OBVIOUS
    <2>4. b[n + 1] = next(a, n + 1)
      OBVIOUS
    <2>5. \A i \in 0..n + 1 : b[i] = IF i = 0 THEN 0 ELSE next(b, i)
      <3> SUFFICES ASSUME NEW i \in 0..n + 1 PROVE b[i] = IF i = 0 THEN 0 ELSE next(b, i)
        OBVIOUS
      <3>1. CASE i = n + 1
        <4>1. b[i - 1] = a[i - 1]
          BY <2>3, <3>1
        <4>2. i # 0
          BY <3>1
        <4> HIDE DEF b
        <4> QED BY <2>4, <3>1, <4>1, <4>2
      <3>2. CASE i # n + 1
        <4>1. i \in 0..n /\ (i # 0 => i - 1 \in 0..n)
          BY <3>2
        <4>2. b[i] = a[i] /\ (i # 0 => b[i - 1] = a[i - 1])
          BY <2>3, <4>1
        <4> HIDE DEF b
        <4> QED BY <2>2, <4>1, <4>2
      <3> QED BY <3>1, <3>2
    <2>6. b = [i \in 0..n + 1 |-> b[i]]
      OBVIOUS
    <2>7. LearnedUpTo(given, category, n + 1, b)
      <3> HIDE DEF b
      <3> QED BY <2>5, <2>6 DEF LearnedUpTo, LearnStep
    <2> QED BY <2>7
  <1>3. Nat \subseteq S
    <2> HIDE DEF S
    <2> QED BY <1>1, <1>2, EveryNumber
  <1> QED BY <1>3

LEMMA LearnedIs ==
  ASSUME NEW given, Len(given) \in Nat, NEW category
  PROVE  \E sum : /\ Learned(given, category) = sum[Len(given)] /\ sum[0] = 0
                  /\ \A i \in 1..Len(given) : sum[i] = LearnStep(given[i], category, sum[i - 1])
  <1>1. \E sum : LearnedUpTo(given, category, Len(given), sum)
    BY LearnedExists
  <1>2. PICK sum : /\ LearnedUpTo(given, category, Len(given), sum)
                   /\ Learned(given, category) = sum[Len(given)]
    BY <1>1 DEF Learned, LearnedUpTo
  <1>3. sum[0] = 0
    BY <1>2 DEF LearnedUpTo
  <1>4. ASSUME NEW i \in 1..Len(given)
        PROVE  sum[i] = LearnStep(given[i], category, sum[i - 1])
    <2>1. i \in 0..Len(given) /\ i # 0
      OBVIOUS
    <2>2. sum[i] = IF i = 0 THEN 0
                   ELSE IF given[i].category = category
                        THEN Bounded(-20, 20, sum[i - 1] + Deltas[given[i].signal])
                   ELSE sum[i - 1]
      BY <1>2, <2>1 DEF LearnedUpTo
    <2> QED BY <2>1, <2>2 DEF LearnStep
  <1> QED BY <1>2, <1>3, <1>4

LEMMA DeltasAre ==
  /\ \A s \in FeedbackSignals : Deltas[s] \in Int
  /\ Deltas["useful"] > 0 /\ Deltas["saved"] > 0 /\ Deltas["dismissed"] < 0 /\ Deltas["not_interested"] < 0
  BY DEF Deltas, FeedbackSignals

LEMMA BoundedIs ==
  ASSUME NEW lo \in Int, NEW hi \in Int, lo <= hi, NEW n \in Int
  PROVE  Bounded(lo, hi, n) \in lo..hi /\ (n \in lo..hi => Bounded(lo, hi, n) = n)
         /\ \A k \in Int : k >= n => Bounded(lo, hi, k) >= Bounded(lo, hi, n)
  BY DEF Bounded

LEMMA LearnedIsBounded == \A k \in Int : Bounded(-20, 20, k) \in -20..20
  BY DEF Bounded

LEMMA OneEventMoves ==
  ASSUME NEW old \in -20..20, NEW d \in Int
  PROVE  LET new == Bounded(-20, 20, old + d) IN new \in Int /\ (d > 0 => new >= old) /\ (d < 0 => new <= old)
  <1>1. PICK k \in Int : k = old + d
    OBVIOUS
  <1>2. PICK new : new = IF k < -20 THEN -20 ELSE IF k > 20 THEN 20 ELSE k
    OBVIOUS
  <1>3. new = Bounded(-20, 20, old + d)
    BY <1>1, <1>2 DEF Bounded
  <1>4. new \in Int
    BY <1>2
  <1>5. d > 0 => new >= old
    BY <1>1, <1>2
  <1>6. d < 0 => new <= old
    BY <1>1, <1>2
  <1> QED BY <1>3, <1>4, <1>5, <1>6

LEMMA LearnedMoves ==
  ASSUME NEW given \in Seq(FeedbackRecord), NEW e \in FeedbackRecord, NEW category
  PROVE  /\ Learned(given, category) \in -20..20
         /\ Learned(Append(given, e), category) = LearnStep(e, category, Learned(given, category))
  <1>1. PICK n \in Nat : n = Len(given)
    OBVIOUS
  <1>2. PICK more : more = Append(given, e)
    OBVIOUS
  <1>3. Len(more) = n + 1 /\ more[n + 1] = e /\ \A i \in 1..n : more[i] = given[i] /\ given[i] \in FeedbackRecord
    BY <1>1, <1>2, AppendProperties
  <1>4. PICK a : /\ Learned(given, category) = a[n] /\ a[0] = 0
                 /\ \A i \in 1..n : a[i] = LearnStep(given[i], category, a[i - 1])
    BY <1>1, LearnedIs
  <1>5. PICK b : /\ Learned(more, category) = b[n + 1] /\ b[0] = 0
                 /\ \A i \in 1..n + 1 : b[i] = LearnStep(more[i], category, b[i - 1])
    <2>1. Len(more) \in Nat
      BY <1>3
    <2>2. \E b : /\ Learned(more, category) = b[Len(more)] /\ b[0] = 0
                 /\ \A i \in 1..Len(more) : b[i] = LearnStep(more[i], category, b[i - 1])
      BY <2>1, LearnedIs
    <2> QED BY <1>3, <2>2
  <1>6. Nat \subseteq {i \in Nat : i <= n => a[i] = b[i] /\ a[i] \in -20..20}
    <2> DEFINE S == {i \in Nat : i <= n => a[i] = b[i] /\ a[i] \in -20..20}
    <2>1. 0 \in S
      BY <1>4, <1>5
    <2>2. ASSUME NEW i \in Nat, i \in S PROVE i + 1 \in S
      <3> SUFFICES ASSUME i + 1 <= n PROVE a[i + 1] = b[i + 1] /\ a[i + 1] \in -20..20
        OBVIOUS
      <3>1. i + 1 \in 1..n /\ i + 1 \in 1..n + 1 /\ i + 1 - 1 = i
        BY <1>1
      <3>2. a[i] = b[i] /\ a[i] \in -20..20
        BY <2>2, <3>1
      <3>3. a[i + 1] = LearnStep(given[i + 1], category, a[i])
        BY <1>4, <3>1
      <3>4. b[i + 1] = LearnStep(given[i + 1], category, a[i])
        <4>1. b[i + 1] = LearnStep(more[i + 1], category, b[i + 1 - 1])
          BY <1>5, <3>1
        <4> QED BY <1>3, <3>1, <3>2, <4>1
      <3>5. LearnStep(given[i + 1], category, a[i]) \in -20..20
        <4>1. Deltas[given[i + 1].signal] \in Int
          BY <1>3, <3>1, DeltasAre DEF FeedbackRecord
        <4> PICK x \in Int : x = a[i]
          BY <3>2
        <4> PICK d \in Int : d = Deltas[given[i + 1].signal]
          BY <4>1
        <4>2. PICK k \in Int : k = a[i] + Deltas[given[i + 1].signal]
          <5>1. x + d \in Int /\ a[i] + Deltas[given[i + 1].signal] = x + d
            OBVIOUS
          <5> QED BY <5>1
        <4>3. Bounded(-20, 20, k) \in -20..20
          BY <4>2, LearnedIsBounded
        <4> QED BY <3>2, <4>2, <4>3 DEF LearnStep
      <3> QED BY <3>3, <3>4, <3>5
    <2> HIDE DEF S
    <2>3. Nat \subseteq S
      BY <2>1, <2>2, EveryNumber
    <2> QED BY <2>3 DEF S
  <1>7. a[n] = b[n] /\ a[n] \in -20..20
    BY <1>1, <1>6
  <1>8. b[n + 1] = LearnStep(e, category, a[n])
    <2>1. n + 1 \in 1..n + 1 /\ n + 1 - 1 = n
      BY <1>1
    <2>2. b[n + 1] = LearnStep(more[n + 1], category, b[n + 1 - 1])
      BY <1>5, <2>1
    <2> QED BY <1>3, <1>7, <2>1, <2>2
  <1> QED BY <1>2, <1>4, <1>5, <1>7, <1>8

-----------------------------------------------------------------------------
(* The Evidence of a Mission: a list whose head has an id per row is told by   *)
(* its head first.                                                             *)

RowsList(rows, limit) ==
  LET first == {i \in DOMAIN rows : \A j \in 1..i - 1 : rows[j].id # rows[i].id}
  IN  {rows[i] : i \in {k \in first : Cardinality(first \cap 1..k) <= limit}}

HeadIsTold(a, b, limit, told) ==
  /\ Len(a) <= limit => \A i \in 1..Len(a) : a[i] \in told
  /\ \A e \in told : \/ \E i \in 1..Len(a) : e = a[i]
                    \/ /\ \E j \in 1..Len(b) : e = b[j]
                       /\ \A i \in 1..Len(a) : a[i].id # e.id

LEMMA HeadRowsComeFirst ==
  ASSUME NEW R, NEW a \in Seq(R), NEW b \in Seq(R), NEW limit \in Nat,
         \A i, j \in 1..Len(a) : a[i].id = a[j].id => i = j
  PROVE  HeadIsTold(a, b, limit, RowsList(a \o b, limit))
  <1>1. PICK n, k \in Nat : n = Len(a) /\ k = Len(b)
    OBVIOUS
  <1>2. PICK rows : rows = a \o b
    OBVIOUS
  <1>3. /\ rows \in Seq(R) /\ Len(rows) = n + k
        /\ \A i \in 1..n + k : rows[i] = IF i <= n THEN a[i] ELSE b[i - n]
    BY <1>1, <1>2, ConcatProperties
  <1>4. DOMAIN rows = 1..n + k
    BY <1>3
  <1>5. PICK first : first = {i \in 1..n + k : \A j \in 1..i - 1 : rows[j].id # rows[i].id}
    OBVIOUS
  <1>6. RowsList(rows, limit) = {rows[i] : i \in {l \in first : Cardinality(first \cap 1..l) <= limit}}
    BY <1>4, <1>5 DEF RowsList
  <1>7. ASSUME n <= limit, NEW i \in 1..n PROVE a[i] \in RowsList(rows, limit)
    <2>1. i \in 1..n + k /\ rows[i] = a[i]
      BY <1>1, <1>3
    <2>2. ASSUME NEW j \in 1..i - 1 PROVE rows[j].id # rows[i].id
      <3>1. j \in 1..n /\ j \in 1..n + k /\ j # i
        BY <1>1
      <3>2. rows[j] = a[j]
        BY <1>3, <3>1
      <3> QED BY <1>1, <2>1, <3>1, <3>2
    <2>3. i \in first
      BY <1>5, <2>1, <2>2
    <2>4. Cardinality(first \cap 1..i) <= limit
      <3>1. IsFiniteSet(1..i) /\ Cardinality(1..i) = i
        BY FS_Interval
      <3>2. IsFiniteSet(first \cap 1..i) /\ Cardinality(first \cap 1..i) <= Cardinality(1..i)
        BY <3>1, FS_Subset
      <3>3. PICK c \in Nat : c = Cardinality(first \cap 1..i)
        BY <3>2, FS_CardinalityType
      <3> QED BY <1>1, <1>7, <3>1, <3>2, <3>3
    <2> QED BY <1>6, <2>1, <2>3, <2>4
  <1>8. ASSUME NEW e \in RowsList(rows, limit)
        PROVE  \/ \E i \in 1..n : e = a[i]
               \/ (\E j \in 1..k : e = b[j]) /\ \A i \in 1..n : a[i].id # e.id
    <2>1. PICK l \in first : e = rows[l]
      BY <1>6
    <2>2. l \in 1..n + k /\ \A j \in 1..l - 1 : rows[j].id # rows[l].id
      BY <1>5
    <2>3. CASE l <= n
      <3>1. l \in 1..n /\ e = a[l]
        BY <1>3, <2>1, <2>2, <2>3
      <3> QED BY <3>1
    <2>4. CASE ~(l <= n)
      <3>1. l - n \in 1..k /\ e = b[l - n]
        BY <1>1, <1>3, <2>1, <2>2, <2>4
      <3>2. \A i \in 1..n : i \in 1..n + k /\ i \in 1..l - 1 /\ rows[i] = a[i]
        BY <1>1, <1>3, <2>2, <2>4
      <3>3. \A i \in 1..n : a[i].id # e.id
        BY <2>1, <2>2, <3>2
      <3> QED BY <3>1, <3>3
    <2> QED BY <2>3, <2>4
  <1> QED BY <1>1, <1>2, <1>7, <1>8 DEF HeadIsTold

LEMMA ListedOnce ==
  ASSUME NEW S, IsFiniteSet(S)
  PROVE  /\ Cardinality(S) \in Nat /\ SetToSeq(S) \in [1..Cardinality(S) -> S]
         /\ \A i, j \in 1..Cardinality(S) : SetToSeq(S)[i] = SetToSeq(S)[j] => i = j
         /\ \A x \in S : \E i \in 1..Cardinality(S) : SetToSeq(S)[i] = x
  <1>1. PICK n \in Nat : n = Cardinality(S)
    BY FS_CardinalityType
  <1>2. \E f \in [1..n -> S] : IsInjective(f)
    <2>1. ExistsBijection(1..n, S)
      BY <1>1, FS_CardinalityType
    <2>2. PICK g \in Bijection(1..n, S) : TRUE
      BY <2>1 DEF ExistsBijection
    <2>3. g \in [1..n -> S] /\ IsInjective(g)
      BY <2>2 DEF Bijection, Injection
    <2> QED BY <2>3
  <1>3. PICK f : f = SetToSeq(S)
    OBVIOUS
  <1>4. f \in [1..n -> S] /\ IsInjective(f)
    BY <1>1, <1>2, <1>3 DEF SetToSeq
  <1>5. f \in Injection(1..n, S)
    BY <1>4 DEF Injection
  <1>6. Cardinality(1..n) = n
    BY FS_Interval
  <1>7. f \in Surjection(1..n, S)
    BY <1>1, <1>5, <1>6, FS_Injection
  <1>8. \A x \in S : \E i \in 1..n : f[i] = x
    BY <1>7 DEF Surjection
  <1>9. \A i, j \in 1..n : f[i] = f[j] => i = j
    BY <1>4 DEF IsInjective
  <1> QED BY <1>1, <1>3, <1>4, <1>8, <1>9

(* What a step of a list computes from what the step before left.              *)
StepsFrom(V, v, step, n, f) ==
  f \in [0..n -> V] /\ \A i \in 0..n : f[i] = IF i = 0 THEN v ELSE step[i][f[i - 1]]

LEMMA RecursionExists ==
  ASSUME NEW V, NEW v \in V, NEW step \in [Nat -> [V -> V]]
  PROVE  \A n \in Nat : \E f : StepsFrom(V, v, step, n, f)
  <1> DEFINE Good(n, f) == f \in [0..n -> V] /\ \A i \in 0..n : f[i] = IF i = 0 THEN v ELSE step[i][f[i - 1]]
             S == {n \in Nat : \E f : Good(n, f)}
  <1>1. 0 \in S
    <2>1. Good(0, [i \in 0..0 |-> v])
      OBVIOUS
    <2> QED BY <2>1
  <1>2. ASSUME NEW n \in Nat, n \in S PROVE n + 1 \in S
    <2>1. PICK a : Good(n, a)
      BY <1>2
    <2>2. PICK x \in V : x = step[n + 1][a[n]]
      <3>1. a[n] \in V /\ n + 1 \in Nat
        BY <2>1
      <3> QED BY <3>1
    <2>3. PICK b : b = [i \in 0..n + 1 |-> IF i = n + 1 THEN x ELSE a[i]]
      OBVIOUS
    <2>4. b \in [0..n + 1 -> V] /\ b[n + 1] = x /\ \A i \in 0..n : b[i] = a[i]
      <3>1. \A i \in 0..n : i # n + 1 /\ a[i] \in V /\ i \in 0..n + 1
        BY <2>1
      <3>2. \A i \in 0..n + 1 : i = n + 1 \/ i \in 0..n
        OBVIOUS
      <3> QED BY <2>3, <3>1, <3>2
    <2>5. ASSUME NEW i \in 0..n + 1 PROVE b[i] = IF i = 0 THEN v ELSE step[i][b[i - 1]]
      <3>1. CASE i = n + 1
        <4>1. i # 0 /\ i - 1 = n /\ n \in 0..n
          BY <3>1
        <4>2. b[i - 1] = a[n]
          BY <2>4, <4>1
        <4> QED BY <2>2, <2>4, <3>1, <4>1, <4>2
      <3>2. CASE i # n + 1
        <4>1. i \in 0..n /\ (i # 0 => i - 1 \in 0..n)
          BY <3>2
        <4>2. b[i] = a[i] /\ (i # 0 => b[i - 1] = a[i - 1])
          BY <2>4, <4>1
        <4> QED BY <2>1, <4>1, <4>2
      <3> QED BY <3>1, <3>2
    <2>6. Good(n + 1, b)
      BY <2>4, <2>5
    <2> QED BY <2>6
  <1>3. Nat \subseteq S
    <2> HIDE DEF S
    <2> QED BY <1>1, <1>2, EveryNumber
  <1> QED BY <1>3 DEF StepsFrom

IdsOf(m) == {m} \X Urls
PriorRecord(m) == [read : SUBSET IdsOf(m), supported : SUBSET IdsOf(m)]
Row(m, b) == [id : IdsOf(m), supported : BOOLEAN, priorAttempt : {b}, excerpt : {"none", "goal_term", "start"}]

LEMMA ReadIsFinite ==
  ASSUME NEW m, NEW read \in SUBSET IdsOf(m)
  PROVE  IsFiniteSet(read)
  <1>1. IsFiniteSet(IdsOf(m))
    BY TextsAreFinite, FS_Singleton, FS_Product DEF IdsOf
  <1> QED BY <1>1, FS_Subset

(* A row for each page an attempt read, with the decision of that attempt. *)
RowsTell(a, m, attempt, b) ==
  /\ a \in Seq(Row(m, b)) /\ Len(a) = Cardinality(attempt.read)
  /\ \A i, j \in 1..Len(a) : a[i].id = a[j].id => i = j
  /\ \A x \in attempt.read : \E i \in 1..Len(a) : a[i].id = x
  /\ \A i \in 1..Len(a) : /\ a[i].id \in attempt.read /\ a[i].priorAttempt = b
                          /\ a[i].supported <=> a[i].id \in attempt.supported

LEMMA RowsOfAttempt ==
  ASSUME NEW m \in Owners, NEW attempt, attempt.read \in SUBSET IdsOf(m), NEW b \in BOOLEAN
  PROVE  RowsTell(rowsOf(m, attempt, b), m, attempt, b)
  <1>1. PICK S, n, ids : S = attempt.read /\ n = Cardinality(S) /\ ids = SetToSeq(S)
    OBVIOUS
  <1>2. /\ n \in Nat /\ ids \in [1..n -> S]
        /\ \A i, j \in 1..n : ids[i] = ids[j] => i = j
        /\ \A x \in S : \E i \in 1..n : ids[i] = x
    BY <1>1, ReadIsFinite, ListedOnce
  <1>3. PICK a : a = rowsOf(m, attempt, b)
    OBVIOUS
  <1>4. a = [i \in 1..n |-> projectEvidence(m, ids[i], attempt, b)]
    BY <1>1, <1>3 DEF rowsOf
  <1>5. ASSUME NEW i \in 1..n
        PROVE  /\ a[i] \in Row(m, b) /\ a[i].id = ids[i] /\ a[i].priorAttempt = b
               /\ a[i].supported <=> a[i].id \in attempt.supported
    <2>1. PICK e : e = excerptFrom(findEvidence[ids[i]], anchorTerms(GoalTexts[goal[m]]))
      OBVIOUS
    <2>2. e \in {"none", "goal_term", "start"}
      BY <2>1 DEF excerptFrom
    <2>3. PICK s \in BOOLEAN : s = (ids[i] \in attempt.supported)
      <3>1. CASE ids[i] \in attempt.supported
        <4>1. (ids[i] \in attempt.supported) = TRUE
          BY <3>1, Zenon
        <4> QED BY <4>1
      <3>2. CASE ids[i] \notin attempt.supported
        <4>1. (ids[i] \in attempt.supported) = FALSE
          BY <3>2
        <4> QED BY <4>1
      <3> QED BY <3>1, <3>2
    <2>4. a[i] = [id |-> ids[i], supported |-> s, priorAttempt |-> b, excerpt |-> e]
      BY <1>4, <2>1, <2>3 DEF projectEvidence
    <2>5. ids[i] \in IdsOf(m)
      BY <1>1, <1>2
    <2>7. a[i] \in Row(m, b)
      BY <2>2, <2>3, <2>4, <2>5 DEF Row
    <2>8. a[i].id = ids[i] /\ a[i].priorAttempt = b /\ a[i].supported = s
      BY <2>4
    <2>9. a[i].supported <=> ids[i] \in attempt.supported
      BY <2>3, <2>8, Zenon
    <2> QED BY <2>7, <2>8, <2>9
  <1>6. a \in Seq(Row(m, b)) /\ Len(a) = n
    <2>1. PICK T : T = Row(m, b)
      OBVIOUS
    <2>2. a \in [1..n -> T]
      BY <1>4, <1>5, <2>1
    <2> QED BY <1>2, <2>1, <2>2
  <1> QED BY <1>1, <1>2, <1>3, <1>5, <1>6 DEF RowsTell

-----------------------------------------------------------------------------
(* What the inbox, the attempts and the feedback are at every moment.          *)

FindRecord == [category : Categories, status : {"new", "dismissed"}, supported : BOOLEAN]
AttemptRecord(m) == [status : {"open", "forged", "empty", "failed"}, authorized : BOOLEAN, decidedAt : Nat, revision : Nat,
                     read : SUBSET IdsOf(m), supported : SUBSET IdsOf(m), prior : Seq(PriorRecord(m))]

AttemptsInv ==
  /\ now \in Nat /\ goal \in [Owners -> DOMAIN GoalTexts]
  /\ attempts = [m \in Owners |-> attempts[m]]
  /\ \A m \in Owners : attempts[m] \in AttemptRecord(m) /\ attempts[m].decidedAt <= now
  /\ \A m \in Owners : attempts[m].authorized \/ attempts[m].read = {}
FindsInv ==
  /\ DOMAIN finds \subseteq FindIds /\ finds \in [DOMAIN finds -> FindRecord]
FeedbackInv ==
  /\ feedback \in Seq(FeedbackRecord)
  /\ \A i \in DOMAIN feedback : feedback[i].at <= now

(* What an attempt or an event of feedback names is a Find that has support.   *)
Stamped == {id \in DOMAIN finds : finds[id].supported}
SupportIsStamped ==
  /\ \A m \in Owners : /\ attempts[m].supported \subseteq Stamped
                       /\ attempts[m].status = "forged" => attempts[m].supported # {}
  /\ \A i \in DOMAIN feedback : feedback[i].find \in Stamped
InboxInv == AttemptsInv /\ FindsInv /\ FeedbackInv /\ SupportIsStamped

LEMMA EarlierRows ==
  ASSUME NEW m \in Owners, AttemptsInv
  PROVE  LET prior == attempts[m].prior IN
         \E earlier \in [0..Len(prior) -> Seq(Row(m, TRUE))] :
           /\ resultRows(m) = rowsOf(m, attempts[m], FALSE) \o earlier[Len(prior)]
           /\ \A k \in 1..Len(prior) : earlier[k] = rowsOf(m, prior[k], TRUE) \o earlier[k - 1]
  <1>1. PICK prior, n : prior = attempts[m].prior /\ n = Len(prior)
    OBVIOUS
  <1>2. prior \in Seq(PriorRecord(m)) /\ n \in Nat
    BY <1>1 DEF AttemptsInv, AttemptRecord
  <1>3. PICK V : V = Seq(Row(m, TRUE))
    OBVIOUS
  <1>4. PICK v \in V : v = <<>>
    <2>1. PICK U : U = Row(m, TRUE)
      OBVIOUS
    <2>2. <<>> \in Seq(U)
      OBVIOUS
    <2> QED BY <1>3, <2>1, <2>2
  <1>5. PICK step : step = [i \in Nat |-> [x \in V |-> IF i \in 1..n THEN rowsOf(m, prior[i], TRUE) \o x ELSE x]]
    OBVIOUS
  <1>6. ASSUME NEW i \in 1..n, NEW x \in V PROVE rowsOf(m, prior[i], TRUE) \o x \in V
    <2>1. prior[i].read \in SUBSET IdsOf(m)
      <3>1. PICK P : P = PriorRecord(m)
        OBVIOUS
      <3>2. prior[i] \in P
        BY <1>1, <1>2, <3>1, ElementOfSeq
      <3> QED BY <3>1, <3>2 DEF PriorRecord
    <2>2. PICK a : a = rowsOf(m, prior[i], TRUE)
      OBVIOUS
    <2>3. a \in Seq(Row(m, TRUE))
      BY <2>1, <2>2, RowsOfAttempt DEF RowsTell
    <2> QED BY <1>3, <2>2, <2>3, ConcatProperties
  <1>7. step \in [Nat -> [V -> V]]
    BY <1>5, <1>6
  <1>8. PICK f \in [0..n -> V] : \A i \in 0..n : f[i] = IF i = 0 THEN v ELSE step[i][f[i - 1]]
    <2>1. PICK f : StepsFrom(V, v, step, n, f)
      BY <1>2, <1>7, RecursionExists
    <2> QED BY <2>1 DEF StepsFrom
  <1>9. \A i \in 1..n : f[i] = rowsOf(m, prior[i], TRUE) \o f[i - 1]
    <2> SUFFICES ASSUME NEW i \in 1..n PROVE f[i] = rowsOf(m, prior[i], TRUE) \o f[i - 1]
      OBVIOUS
    <2>1. i \in Nat /\ i \in 0..n /\ i # 0 /\ i - 1 \in 0..n
      BY <1>2
    <2>2. PICK x \in V : x = f[i - 1]
      BY <2>1
    <2>3. f[i] = step[i][x]
      BY <1>8, <2>1, <2>2
    <2> QED BY <1>5, <2>1, <2>2, <2>3
  <1>10. f = [k \in 0..n |-> IF k = 0 THEN <<>> ELSE rowsOf(m, prior[k], TRUE) \o f[k - 1]]
    <2>1. \A k \in 0..n : f[k] = IF k = 0 THEN <<>> ELSE rowsOf(m, prior[k], TRUE) \o f[k - 1]
      <3>1. 0 \in 0..n /\ f[0] = v
        BY <1>2, <1>8
      <3>2. \A k \in 0..n : k # 0 => k \in 1..n
        BY <1>2
      <3> QED BY <1>4, <1>9, <3>1, <3>2
    <2> QED BY <2>1
  <1>11. PICK g : /\ g = [k \in 0..n |-> IF k = 0 THEN <<>> ELSE rowsOf(m, prior[k], TRUE) \o g[k - 1]]
                  /\ resultRows(m) = rowsOf(m, attempts[m], FALSE) \o g[n]
    BY <1>1, <1>10 DEF resultRows
  <1>12. \A i \in Nat : i <= n => g[i] = f[i]
    <2> DEFINE S == {i \in Nat : i <= n => g[i] = f[i]}
    <2>1. 0 \in S
      <3>1. 0 \in 0..n
        BY <1>2
      <3>2. g[0] = <<>> /\ f[0] = <<>>
        BY <1>10, <1>11, <3>1
      <3> QED BY <3>2
    <2>2. ASSUME NEW i \in Nat, i \in S PROVE i + 1 \in S
      <3> SUFFICES ASSUME i + 1 <= n PROVE g[i + 1] = f[i + 1]
        OBVIOUS
      <3>1. i + 1 \in 0..n /\ i + 1 # 0 /\ i + 1 - 1 = i /\ g[i] = f[i]
        BY <1>2, <2>2
      <3>2. \A k \in 0..n : k # 0 => g[k] = rowsOf(m, prior[k], TRUE) \o g[k - 1]
        BY <1>11
      <3>3. \A k \in 0..n : k # 0 => f[k] = rowsOf(m, prior[k], TRUE) \o f[k - 1]
        BY <1>10
      <3>4. PICK k \in 0..n : k = i + 1
        BY <3>1
      <3>5. k # 0 /\ k - 1 = i
        BY <3>4
      <3>6. g[k] = f[k]
        BY <3>1, <3>2, <3>3, <3>5
      <3> QED BY <3>4, <3>6
    <2>3. Nat \subseteq S
      <3> HIDE DEF S
      <3> QED BY <2>1, <2>2, EveryNumber
    <2> QED BY <2>3
  <1>13. resultRows(m) = rowsOf(m, attempts[m], FALSE) \o f[n]
    BY <1>2, <1>11, <1>12
  <1> QED BY <1>1, <1>3, <1>9, <1>13

LEMMA EvidenceIsRows ==
  ASSUME NEW m, NEW limit
  PROVE  missionEvidence(m, limit) = RowsList(resultRows(m), limit)
  BY DEF missionEvidence, RowsList

(* The rows of the present attempt, and behind them marked ones. *)
LEMMA RowsOfMission ==
  ASSUME NEW m \in Owners, AttemptsInv, NEW limit \in Nat
  PROVE  LET read == attempts[m].read IN
         /\ Cardinality(read) <= limit => read \subseteq Shown(m, limit)
         /\ \A e \in missionEvidence(m, limit) :
              IF e.id \in read
              THEN ~e.priorAttempt /\ (e.supported <=> e.id \in attempts[m].supported)
              ELSE e.priorAttempt
         /\ /\ read = {} /\ attempts[m].prior # <<>>
            /\ Cardinality(attempts[m].prior[Len(attempts[m].prior)].read) <= limit
            => attempts[m].prior[Len(attempts[m].prior)].read \subseteq Shown(m, limit)
  <1>1. PICK prior, n, read : prior = attempts[m].prior /\ n = Len(prior) /\ read = attempts[m].read
    OBVIOUS
  <1>2. prior \in Seq(PriorRecord(m)) /\ n \in Nat /\ read \in SUBSET IdsOf(m)
    BY <1>1 DEF AttemptsInv, AttemptRecord
  <1>3. PICK R : R = Row(m, TRUE) \cup Row(m, FALSE)
    OBVIOUS
  <1>4. PICK earlier \in [0..n -> Seq(Row(m, TRUE))] :
          /\ resultRows(m) = rowsOf(m, attempts[m], FALSE) \o earlier[n]
          /\ \A k \in 1..n : earlier[k] = rowsOf(m, prior[k], TRUE) \o earlier[k - 1]
    BY <1>1, EarlierRows
  <1>5. PICK a, b : a = rowsOf(m, attempts[m], FALSE) /\ b = earlier[n]
    OBVIOUS
  <1>6. /\ a \in Seq(Row(m, FALSE)) /\ Len(a) = Cardinality(read)
        /\ \A i, j \in 1..Len(a) : a[i].id = a[j].id => i = j
        /\ \A x \in read : \E i \in 1..Len(a) : a[i].id = x
        /\ \A i \in 1..Len(a) : /\ a[i].id \in read /\ a[i].priorAttempt = FALSE
                                /\ a[i].supported <=> a[i].id \in attempts[m].supported
    <2>1. RowsTell(a, m, attempts[m], FALSE)
      BY <1>1, <1>2, <1>5, RowsOfAttempt
    <2> QED BY <1>1, <2>1 DEF RowsTell
  <1>7. b \in Seq(Row(m, TRUE))
    <2>1. PICK V : V = Seq(Row(m, TRUE))
      OBVIOUS
    <2>2. n \in 0..n
      BY <1>2
    <2> QED BY <1>4, <1>5, <2>1, <2>2
  <1>8. a \in Seq(R) /\ b \in Seq(R)
    <2>1. PICK T, F : T = Row(m, TRUE) /\ F = Row(m, FALSE)
      OBVIOUS
    <2>2. T \subseteq R /\ F \subseteq R
      BY <1>3, <2>1
    <2> QED BY <1>6, <1>7, <2>1, <2>2, SeqMonotonic
  <1>9. PICK list : list = missionEvidence(m, limit)
    OBVIOUS
  <1>10. list = RowsList(a \o b, limit)
    BY <1>4, <1>5, <1>9, EvidenceIsRows
  <1>11. /\ Len(a) <= limit => \A i \in 1..Len(a) : a[i] \in list
         /\ \A e \in list : \/ \E i \in 1..Len(a) : e = a[i]
                            \/ /\ \E j \in 1..Len(b) : e = b[j]
                               /\ \A i \in 1..Len(a) : a[i].id # e.id
    <2>1. \A i, j \in 1..Len(a) : a[i].id = a[j].id => i = j
      BY <1>6
    <2>2. HeadIsTold(a, b, limit, RowsList(a \o b, limit))
      BY <1>8, <2>1, HeadRowsComeFirst
    <2> QED BY <1>10, <2>2 DEF HeadIsTold
  <1>12. Shown(m, limit) = {e.id : e \in list}
    BY <1>9 DEF Shown
  <1>13. Cardinality(read) <= limit => read \subseteq Shown(m, limit)
    <2> SUFFICES ASSUME Cardinality(read) <= limit, NEW x \in read PROVE x \in Shown(m, limit)
      OBVIOUS
    <2>1. PICK i \in 1..Len(a) : a[i].id = x
      BY <1>6
    <2>2. a[i] \in list
      BY <1>6, <1>11
    <2> QED BY <1>12, <2>1, <2>2
  <1>14. ASSUME NEW e \in list
         PROVE  IF e.id \in read THEN ~e.priorAttempt /\ (e.supported <=> e.id \in attempts[m].supported)
                ELSE e.priorAttempt
    <2>1. CASE \E i \in 1..Len(a) : e = a[i]
      BY <1>6, <2>1
    <2>2. CASE (\E j \in 1..Len(b) : e = b[j]) /\ \A i \in 1..Len(a) : a[i].id # e.id
      <3>1. e.id \notin read
        BY <1>6, <2>2
      <3>2. e \in Row(m, TRUE)
        <4>1. PICK T : T = Row(m, TRUE)
          OBVIOUS
        <4> QED BY <1>7, <2>2, <4>1, ElementOfSeq
      <3>3. e.priorAttempt
        BY <3>2 DEF Row
      <3> QED BY <3>1, <3>3
    <2> QED BY <1>11, <2>1, <2>2
  <1>15. ASSUME read = {}, prior # <<>>, Cardinality(prior[n].read) <= limit
         PROVE  prior[n].read \subseteq Shown(m, limit)
    <2>1. n \in 1..n /\ n - 1 \in 0..n
      BY <1>1, <1>2, <1>15
    <2>2. PICK c, d : c = rowsOf(m, prior[n], TRUE) /\ d = earlier[n - 1]
      OBVIOUS
    <2>3. prior[n].read \in SUBSET IdsOf(m)
      <3>1. PICK P : P = PriorRecord(m)
        OBVIOUS
      <3>2. prior[n] \in P
        BY <1>1, <1>2, <2>1, <3>1, ElementOfSeq
      <3> QED BY <3>1, <3>2 DEF PriorRecord
    <2>4. /\ c \in Seq(Row(m, TRUE)) /\ Len(c) = Cardinality(prior[n].read)
          /\ \A i, j \in 1..Len(c) : c[i].id = c[j].id => i = j
          /\ \A x \in prior[n].read : \E i \in 1..Len(c) : c[i].id = x
      <3>1. RowsTell(c, m, prior[n], TRUE)
        BY <2>2, <2>3, RowsOfAttempt
      <3> QED BY <3>1 DEF RowsTell
    <2>5. d \in Seq(Row(m, TRUE)) /\ b = c \o d
      BY <1>4, <1>5, <2>1, <2>2
    <2>6. Len(a) = 0
      BY <1>6, <1>15, FS_EmptySet
    <2>7. a = <<>>
      BY <1>8, <2>6, EmptySeq
    <2>8. a \o b = b
      BY <1>8, <2>7, ConcatEmptySeq
    <2>9. list = RowsList(c \o d, limit)
      BY <1>10, <2>5, <2>8
    <2>10. Len(c) <= limit => \A i \in 1..Len(c) : c[i] \in list
      <3>1. HeadIsTold(c, d, limit, RowsList(c \o d, limit))
        BY <2>4, <2>5, HeadRowsComeFirst
      <3> QED BY <2>9, <3>1 DEF HeadIsTold
    <2> SUFFICES ASSUME NEW x \in prior[n].read PROVE x \in Shown(m, limit)
      OBVIOUS
    <2>11. PICK i \in 1..Len(c) : c[i].id = x
      BY <2>4
    <2>12. c[i] \in list
      BY <1>15, <2>4, <2>10
    <2> QED BY <1>12, <2>11, <2>12
  <1> QED BY <1>1, <1>9, <1>13, <1>14, <1>15
-----------------------------------------------------------------------------
(* Every action keeps what the inbox is; none drops a Find, takes its stamp,   *)
(* or brings a dismissed one back.                                             *)

FindsStand ==
  \A id \in DOMAIN finds : /\ id \in DOMAIN finds'
                           /\ finds[id].supported => finds'[id].supported
                           /\ finds[id].status = "dismissed" => finds'[id].status = "dismissed"

LEMMA CategoryOfPage ==
  ASSUME NEW page \in PageTexts, NEW i \in DOMAIN GoalTexts
  PROVE  classifySupportedGoalFind(page, GoalTexts[i].scope) \in Categories
  <1>1. PICK seen : seen = {Labels[w] : w \in page} \ {"none"}
    OBVIOUS
  <1>2. PICK found : found = classifyOpportunity(page)
    OBVIOUS
  <1>3. found # "ordinary" => found \in Categories
    <2>1. \A c \in seen : c \in Categories
      BY <1>1 DEF Categories
    <2>2. found = IF seen = {} THEN "ordinary" ELSE CHOOSE c \in seen : TRUE
      BY <1>1, <1>2 DEF classifyOpportunity
    <2>3. seen # {} => (CHOOSE c \in seen : TRUE) \in seen
      OBVIOUS
    <2> QED BY <2>1, <2>2, <2>3
  <1>4. GoalTexts[i].scope \in Categories /\ "goal" \in Categories
    BY DEF Categories
  <1> QED BY <1>2, <1>3, <1>4 DEF classifySupportedGoalFind

LEMMA InboxStarts == InboxInit => InboxInv
  <1> SUFFICES ASSUME InboxInit PROVE InboxInv
    OBVIOUS
  <1>1. AttemptsInv
    <2>1. ASSUME NEW m \in Owners PROVE attempts[m] \in AttemptRecord(m) /\ attempts[m].decidedAt <= now
      <3>1. PICK P : P = PriorRecord(m)
        OBVIOUS
      <3>2. <<>> \in Seq(P)
        OBVIOUS
      <3>3. attempts[m] = [status |-> "open", authorized |-> TRUE, decidedAt |-> 0, revision |-> 1,
                           read |-> {}, supported |-> {}, prior |-> <<>>]
        BY DEF InboxInit
      <3> QED BY <3>1, <3>2, <3>3 DEF InboxInit, AttemptRecord
    <2>2. /\ attempts = [m \in Owners |-> attempts[m]] /\ now \in Nat /\ goal \in [Owners -> DOMAIN GoalTexts]
          /\ \A m \in Owners : attempts[m].authorized
      BY DEF InboxInit
    <2> QED BY <2>1, <2>2 DEF AttemptsInv
  <1>2. FindsInv
    BY DEF InboxInit, FindsInv
  <1>3. FeedbackInv
    BY DEF InboxInit, FeedbackInv
  <1>4. SupportIsStamped
    BY DEF InboxInit, SupportIsStamped
  <1> QED BY <1>1, <1>2, <1>3, <1>4 DEF InboxInv

LEMMA SealKeeps ==
  ASSUME InboxInv, NEW m \in Owners, NEW fetched \in SUBSET Urls, NEW pages \in [fetched -> PageTexts],
         SealBatch(m, pages)
  PROVE  InboxInv' /\ FindsStand
  <1>1. PICK S, read : S = Supporting(m, pages) /\ read = {<<m, url>> : url \in fetched}
    OBVIOUS
  <1>2. /\ S \in SUBSET IdsOf(m) /\ read \in SUBSET IdsOf(m)
        /\ \A id \in S : pages[id[2]] \in PageTexts
    BY <1>1 DEF Supporting, IdsOf
  <1>3. PICK status : status = IF S = {} THEN "failed" ELSE "forged"
    OBVIOUS
  <1>4. PICK a : a = attempts[m]
    OBVIOUS
  <1>5. a \in AttemptRecord(m) /\ attempts = [x \in Owners |-> attempts[x]] /\ a.authorized
    BY <1>4 DEF InboxInv, AttemptsInv, SealBatch
  <1>6. PICK b : b = [a EXCEPT !.supported = S, !.read = read, !.status = status]
    OBVIOUS
  <1>7. attempts' = [attempts EXCEPT ![m] = b]
    BY <1>1, <1>3, <1>4, <1>6 DEF SealBatch
  <1>8. /\ attempts' = [x \in Owners |-> attempts'[x]] /\ attempts'[m] = b
        /\ \A x \in Owners : x # m => attempts'[x] = attempts[x]
    BY <1>5, <1>7
  <1>9. /\ b \in AttemptRecord(m) /\ b.supported = S /\ b.status = status /\ b.decidedAt = a.decidedAt
        /\ b.authorized
    BY <1>2, <1>3, <1>5, <1>6 DEF AttemptRecord
  <1>10. now' = now /\ goal' = goal /\ feedback' = feedback
    BY DEF SealBatch
  <1>11. AttemptsInv'
    <2>1. ASSUME NEW x \in Owners
          PROVE  /\ attempts'[x] \in AttemptRecord(x) /\ attempts'[x].decidedAt <= now
                 /\ attempts'[x].authorized \/ attempts'[x].read = {}
      BY <1>4, <1>8, <1>9 DEF InboxInv, AttemptsInv
    <2> QED BY <1>8, <1>10, <2>1 DEF InboxInv, AttemptsInv
  <1>12. PICK D : D = S \cup DOMAIN finds
    OBVIOUS
  <1>13. finds' = [id \in D |-> IF id \in S THEN projectVerifiedDocument(m, id, pages[id[2]]) ELSE finds[id]]
    BY <1>1, <1>12 DEF SealBatch
  <1>14. DOMAIN finds' = D /\ DOMAIN finds \subseteq D /\ D \subseteq FindIds
    <2>1. IdsOf(m) \subseteq FindIds
      BY DEF IdsOf, FindIds
    <2> QED BY <1>2, <1>12, <1>13, <2>1 DEF InboxInv, FindsInv
  <1>15. ASSUME NEW id \in S
         PROVE  /\ finds'[id] \in FindRecord /\ finds'[id].supported
                /\ id \in DOMAIN finds => finds'[id].status = finds[id].status
    <2>1. PICK label : label = classifySupportedGoalFind(pages[id[2]], GoalTexts[goal[m]].scope)
      OBVIOUS
    <2>2. label \in Categories
      <3>1. goal[m] \in DOMAIN GoalTexts /\ pages[id[2]] \in PageTexts
        BY <1>2 DEF InboxInv, AttemptsInv
      <3> QED BY <2>1, <3>1, CategoryOfPage
    <2>3. PICK f : f = projectClassified(finds, id, label)
      OBVIOUS
    <2>4. f \in FindRecord /\ (id \in DOMAIN finds => f = finds[id])
      BY <2>2, <2>3 DEF projectClassified, FindRecord, InboxInv, FindsInv
    <2>5. finds'[id] = [f EXCEPT !.supported = TRUE]
      BY <1>12, <1>13, <2>1, <2>3 DEF projectVerifiedDocument, stamp
    <2>6. [f EXCEPT !.supported = TRUE] \in FindRecord
      BY <2>4 DEF FindRecord
    <2> QED BY <2>4, <2>5, <2>6 DEF FindRecord
  <1>16. ASSUME NEW id \in DOMAIN finds, id \notin S PROVE finds'[id] = finds[id]
    BY <1>12, <1>13, <1>16
  <1>17. FindsInv'
    <2>1. \A id \in D : finds'[id] \in FindRecord
      BY <1>12, <1>15, <1>16 DEF InboxInv, FindsInv
    <2>2. finds' = [id \in D |-> finds'[id]]
      BY <1>13
    <2> QED BY <1>14, <2>1, <2>2 DEF FindsInv
  <1>18. FindsStand
    BY <1>14, <1>15, <1>16 DEF FindsStand
  <1>19. Stamped \subseteq Stamped' /\ S \subseteq Stamped'
    BY <1>12, <1>14, <1>15, <1>18 DEF Stamped, FindsStand
  <1>20. SupportIsStamped'
    <2>1. \A x \in Owners : /\ attempts[x].supported \subseteq Stamped
                            /\ attempts[x].status = "forged" => attempts[x].supported # {}
      BY DEF InboxInv, SupportIsStamped
    <2>2. ASSUME NEW x \in Owners
          PROVE  /\ attempts'[x].supported \subseteq Stamped'
                 /\ attempts'[x].status = "forged" => attempts'[x].supported # {}
      BY <1>3, <1>8, <1>9, <1>19, <2>1
    <2>3. \A i \in DOMAIN feedback : feedback[i].find \in Stamped
      BY DEF InboxInv, SupportIsStamped
    <2> QED BY <1>10, <1>19, <2>2, <2>3 DEF SupportIsStamped
  <1>21. FeedbackInv'
    BY <1>10 DEF InboxInv, FeedbackInv
  <1> QED BY <1>11, <1>17, <1>18, <1>20, <1>21 DEF InboxInv

(* What a search for more archives is the attempt that just ended. *)
LEMMA ArchivedIs ==
  ASSUME NEW m \in Owners, NEW a \in AttemptRecord(m)
  PROVE  /\ archived(a) \in Seq(PriorRecord(m))
         /\ archived(a) # <<>> => archived(a)[Len(archived(a))].read = a.read
  <1>1. PICK r : r = [read |-> a.read, supported |-> a.supported]
    OBVIOUS
  <1>2. r \in PriorRecord(m) /\ a.prior \in Seq(PriorRecord(m)) /\ r.read = a.read
    BY <1>1 DEF PriorRecord, AttemptRecord
  <1>3. PICK P, all : P = PriorRecord(m) /\ all = Append(a.prior, r)
    OBVIOUS
  <1>4. PICK n \in Nat : n = Len(a.prior)
    BY <1>2
  <1>5. all \in Seq(P) /\ all # <<>> /\ Len(all) = n + 1 /\ all[n + 1] = r
    BY <1>2, <1>3, <1>4, AppendProperties
  <1>6. archived(a) = IF Len(all) > MaxPrior THEN Tail(all) ELSE all
    BY <1>1, <1>3 DEF archived
  <1>7. CASE archived(a) = all
    BY <1>2, <1>3, <1>5, <1>7
  <1>8. CASE archived(a) = Tail(all)
    <2>1. PICK t : t = Tail(all)
      OBVIOUS
    <2>2. t \in Seq(P) /\ Len(t) = n /\ \A i \in 1..n : t[i] = all[i + 1]
      BY <1>5, <2>1, HeadTailProperties
    <2>3. t # <<>> => n \in 1..n
      <3>1. t # <<>> => Len(t) \in Nat \ {0}
        BY <2>2, EmptySeq
      <3> QED BY <2>2, <3>1
    <2>4. t # <<>> => t[Len(t)] = r
      BY <1>5, <2>2, <2>3
    <2> QED BY <1>2, <1>3, <1>8, <2>1, <2>2, <2>4
  <1> QED BY <1>6, <1>7, <1>8

LEMMA AttemptEndKeeps ==
  ASSUME InboxInv, NEW m \in Owners, NEW status \in Unread, EndsUnread(m, status)
  PROVE  /\ InboxInv' /\ FindsStand
         /\ \A x \in Owners : attempts'[x].decidedAt = attempts[x].decidedAt
  <1>0. PICK a : a = attempts[m]
    OBVIOUS
  <1>1. PICK b : a = attempts[m] /\ b = [a EXCEPT !.status = status]
    BY <1>0
  <1>2. a \in AttemptRecord(m) /\ attempts = [x \in Owners |-> attempts[x]]
    BY <1>1 DEF InboxInv, AttemptsInv
  <1>3. attempts' = [attempts EXCEPT ![m] = b]
    BY <1>1 DEF EndsUnread
  <1>4. /\ b \in AttemptRecord(m) /\ b.supported = a.supported /\ b.status = status
        /\ b.decidedAt = a.decidedAt /\ b.authorized = a.authorized /\ b.read = a.read /\ b.status # "forged"
    BY <1>1, <1>2 DEF AttemptRecord, Unread
  <1>5. /\ attempts' = [x \in Owners |-> attempts'[x]] /\ attempts'[m] = b
        /\ \A x \in Owners : x # m => attempts'[x] = attempts[x]
    BY <1>2, <1>3
  <1>6. now' = now /\ goal' = goal /\ feedback' = feedback /\ finds' = finds
    BY DEF EndsUnread
  <1>7. AttemptsInv'
    <2>1. ASSUME NEW x \in Owners
          PROVE  /\ attempts'[x] \in AttemptRecord(x) /\ attempts'[x].decidedAt <= now
                 /\ attempts'[x].authorized \/ attempts'[x].read = {}
      BY <1>1, <1>4, <1>5 DEF InboxInv, AttemptsInv
    <2> QED BY <1>5, <1>6, <2>1 DEF InboxInv, AttemptsInv
  <1>8. FindsInv' /\ FeedbackInv' /\ FindsStand /\ Stamped' = Stamped
    BY <1>6 DEF InboxInv, FindsInv, FeedbackInv, FindsStand, Stamped
  <1>9. SupportIsStamped'
    <2>1. \A x \in Owners : /\ attempts[x].supported \subseteq Stamped
                            /\ attempts[x].status = "forged" => attempts[x].supported # {}
      BY DEF InboxInv, SupportIsStamped
    <2>2. ASSUME NEW x \in Owners
          PROVE  /\ attempts'[x].supported \subseteq Stamped'
                 /\ attempts'[x].status = "forged" => attempts'[x].supported # {}
      <3>1. CASE x = m
        <4>1. a.supported \subseteq Stamped
          BY <1>1, <2>1
        <4>2. attempts'[x].supported = a.supported /\ attempts'[x].status # "forged"
          BY <1>4, <1>5, <3>1
        <4> QED BY <1>8, <4>1, <4>2
      <3>2. CASE x # m
        BY <1>5, <1>8, <2>1, <3>2
      <3> QED BY <3>1, <3>2
    <2>3. \A i \in DOMAIN feedback : feedback[i].find \in Stamped
      BY DEF InboxInv, SupportIsStamped
    <2> QED BY <1>6, <1>8, <2>2, <2>3 DEF SupportIsStamped
  <1>10. \A x \in Owners : attempts'[x].decidedAt = attempts[x].decidedAt
    BY <1>1, <1>4, <1>5
  <1> QED BY <1>7, <1>8, <1>9, <1>10 DEF InboxInv

(* An attempt that is confirmed or authorized now, and supports nothing yet.   *)
LEMMA RenewedKeeps ==
  ASSUME InboxInv, NEW m \in Owners, NEW b \in AttemptRecord(m), attempts' = [attempts EXCEPT ![m] = b],
         b.decidedAt = now', b.authorized \/ b.read = {}, b.supported \subseteq Stamped, b.status = "open",
         now' = now + 1, goal' \in [Owners -> DOMAIN GoalTexts], UNCHANGED <<findEvidence, finds, feedback>>
  PROVE  /\ InboxInv' /\ FindsStand
         /\ attempts'[m] = b /\ \A x \in Owners : x # m => attempts'[x] = attempts[x]
  <1>1. attempts = [x \in Owners |-> attempts[x]] /\ now \in Nat
    BY DEF InboxInv, AttemptsInv
  <1>2. /\ attempts' = [x \in Owners |-> attempts'[x]] /\ attempts'[m] = b
        /\ \A x \in Owners : x # m => attempts'[x] = attempts[x]
    BY <1>1
  <1>3. AttemptsInv'
    <2>1. ASSUME NEW x \in Owners
          PROVE  /\ attempts'[x] \in AttemptRecord(x) /\ attempts'[x].decidedAt <= now'
                 /\ attempts'[x].authorized \/ attempts'[x].read = {}
      <3>1. CASE x = m
        BY <1>1, <1>2, <3>1
      <3>2. CASE x # m
        <4>1. /\ attempts[x] \in AttemptRecord(x) /\ attempts[x].decidedAt <= now
              /\ attempts[x].authorized \/ attempts[x].read = {}
          BY DEF InboxInv, AttemptsInv
        <4>2. attempts[x].decidedAt \in Nat
          BY <4>1 DEF AttemptRecord
        <4> QED BY <1>1, <1>2, <3>2, <4>1, <4>2
      <3> QED BY <3>1, <3>2
    <2>2. now' \in Nat
      BY <1>1
    <2> QED BY <1>2, <2>1, <2>2 DEF AttemptsInv
  <1>4. FindsInv' /\ FindsStand /\ Stamped' = Stamped
    BY DEF InboxInv, FindsInv, FindsStand, Stamped
  <1>5. FeedbackInv'
    <2>1. feedback \in Seq(FeedbackRecord) /\ \A i \in DOMAIN feedback : feedback[i].at <= now
      BY DEF InboxInv, FeedbackInv
    <2>2. \A i \in DOMAIN feedback : feedback[i].at \in Nat
      <3>1. \A i \in DOMAIN feedback : feedback[i] \in FeedbackRecord
        BY <2>1
      <3> QED BY <3>1 DEF FeedbackRecord
    <2>3. \A i \in DOMAIN feedback : feedback[i].at <= now + 1
      BY <1>1, <2>1, <2>2
    <2> QED BY <2>1, <2>3 DEF FeedbackInv
  <1>6. SupportIsStamped'
    <2>1. \A x \in Owners : /\ attempts[x].supported \subseteq Stamped
                            /\ attempts[x].status = "forged" => attempts[x].supported # {}
      BY DEF InboxInv, SupportIsStamped
    <2>2. ASSUME NEW x \in Owners
          PROVE  /\ attempts'[x].supported \subseteq Stamped'
                 /\ attempts'[x].status = "forged" => attempts'[x].supported # {}
      BY <1>2, <1>4, <2>1
    <2>3. \A i \in DOMAIN feedback : feedback[i].find \in Stamped
      BY DEF InboxInv, SupportIsStamped
    <2> QED BY <1>4, <2>2, <2>3 DEF SupportIsStamped
  <1> QED BY <1>2, <1>3, <1>4, <1>5, <1>6 DEF InboxInv

LEMMA ConfirmWaitingKeeps ==
  ASSUME InboxInv, NEW m \in Owners, NEW text \in DOMAIN GoalTexts, ConfirmWaiting(m, text)
  PROVE  /\ InboxInv' /\ FindsStand
         /\ attempts[m].read = {} /\ \A x \in Owners : x # m => attempts'[x] = attempts[x]
  <1>0. PICK a : a = attempts[m]
    OBVIOUS
  <1>1. PICK revision : a = attempts[m] /\ revision = Revision(m, text)
    BY <1>0
  <1>2. /\ a \in AttemptRecord(m) /\ a.status = "open" /\ ~a.authorized /\ a.read = {}
        /\ a.supported \subseteq Stamped /\ now \in Nat
    BY <1>1 DEF InboxInv, AttemptsInv, SupportIsStamped, ConfirmWaiting
  <1>3. revision \in Nat
    BY <1>1, <1>2 DEF Revision, AttemptRecord
  <1>4. PICK b : b = [a EXCEPT !.authorized = TRUE, !.decidedAt = now', !.revision = revision]
    OBVIOUS
  <1>5. attempts' = [attempts EXCEPT ![m] = b] /\ now' = now + 1
    BY <1>1, <1>4 DEF ConfirmWaiting
  <1>6. /\ b \in AttemptRecord(m) /\ b.authorized /\ b.decidedAt = now' /\ b.status = "open"
        /\ b.supported \subseteq Stamped
    <2>1. now' \in Nat
      BY <1>2, <1>5
    <2> QED BY <1>2, <1>3, <1>4, <2>1 DEF AttemptRecord
  <1>7. goal' \in [Owners -> DOMAIN GoalTexts] /\ UNCHANGED <<findEvidence, finds, feedback>>
    BY DEF ConfirmWaiting, InboxInv, AttemptsInv
  <1>8. InboxInv' /\ FindsStand /\ \A x \in Owners : x # m => attempts'[x] = attempts[x]
    BY <1>5, <1>6, <1>7, RenewedKeeps
  <1> QED BY <1>1, <1>2, <1>8

LEMMA ConfirmKeeps ==
  ASSUME InboxInv, NEW m \in Owners, NEW text \in DOMAIN GoalTexts, NEW more \in BOOLEAN, NEW person \in BOOLEAN,
         Confirm(m, text, more, person)
  PROVE  /\ InboxInv' /\ FindsStand
         /\ attempts'[m].read = {}
         /\ attempts'[m].prior # <<>>
              => attempts'[m].prior[Len(attempts'[m].prior)].read = attempts[m].read
         /\ \A x \in Owners : x # m => attempts'[x] = attempts[x]
  <1>1. PICK a : a = attempts[m]
    OBVIOUS
  <1>2. a \in AttemptRecord(m) /\ attempts = [x \in Owners |-> attempts[x]]
    BY <1>1 DEF InboxInv, AttemptsInv
  <1>3. PICK kept : kept = IF more THEN archived(a) ELSE <<>>
    OBVIOUS
  <1>4. kept \in Seq(PriorRecord(m)) /\ (kept # <<>> => kept[Len(kept)].read = a.read)
    <2>1. PICK P : P = PriorRecord(m)
      OBVIOUS
    <2>2. <<>> \in Seq(P)
      OBVIOUS
    <2> QED BY <1>2, <1>3, <2>1, <2>2, ArchivedIs
  <1>5. PICK revision : revision = Revision(m, text)
    OBVIOUS
  <1>6. revision \in Nat
    BY <1>1, <1>2, <1>5 DEF Revision, AttemptRecord
  <1>7. PICK b : b = [status |-> "open", authorized |-> person, decidedAt |-> now', read |-> {}, supported |-> {},
                      prior |-> kept, revision |-> revision]
    OBVIOUS
  <1>8. attempts' = [attempts EXCEPT ![m] = b]
    BY <1>1, <1>3, <1>5, <1>7 DEF Confirm
  <1>9. now \in Nat /\ now' = now + 1
    BY DEF Confirm, InboxInv, AttemptsInv
  <1>10. /\ b \in AttemptRecord(m) /\ b.decidedAt = now' /\ b.read = {} /\ b.supported = {} /\ b.status = "open"
         /\ b.prior = kept
    BY <1>4, <1>6, <1>7, <1>9 DEF AttemptRecord
  <1>11. goal' \in [Owners -> DOMAIN GoalTexts] /\ UNCHANGED <<findEvidence, finds, feedback>>
    BY DEF Confirm, InboxInv, AttemptsInv
  <1>12. InboxInv' /\ FindsStand /\ attempts'[m] = b /\ \A x \in Owners : x # m => attempts'[x] = attempts[x]
    BY <1>8, <1>9, <1>10, <1>11, RenewedKeeps
  <1> QED BY <1>1, <1>4, <1>10, <1>12

LEMMA RecordKeeps ==
  ASSUME InboxInv, NEW id \in DOMAIN finds, NEW signal \in FeedbackSignals, Record(id, signal)
  PROVE  /\ InboxInv' /\ FindsStand
         /\ \/ Len(feedback') <= Len(feedback)
            \/ \E e \in FeedbackRecord : /\ feedback' = Append(feedback, e)
                                         /\ e.find = id /\ e.category = finds[id].category
  <1>1. /\ finds[id].supported /\ now \in Nat /\ now' = now + 1
        /\ attempts' = attempts /\ goal' = goal
    BY DEF Record, InboxInv, AttemptsInv
  <1>2. DOMAIN finds \subseteq FindIds /\ finds \in [DOMAIN finds -> FindRecord]
    BY DEF InboxInv, FindsInv
  <1>3. PICK f : f = [finds[id] EXCEPT !.status = "dismissed"]
    OBVIOUS
  <1>4. f \in FindRecord /\ f.supported = finds[id].supported /\ f.status = "dismissed"
    <2>1. finds[id] \in FindRecord
      BY <1>2
    <2> QED BY <1>3, <2>1 DEF FindRecord
  <1>5. finds' = [finds EXCEPT ![id] = f] \/ finds' = finds
    BY <1>3 DEF Record
  <1>6. finds' \in [DOMAIN finds -> FindRecord] /\ FindsStand /\ Stamped' = Stamped
    <2>1. CASE finds' = finds
      BY <1>2, <2>1 DEF FindsStand, Stamped
    <2>2. CASE finds' = [finds EXCEPT ![id] = f]
      <3>1. /\ finds' \in [DOMAIN finds -> FindRecord] /\ DOMAIN finds' = DOMAIN finds
            /\ finds'[id] = f /\ \A x \in DOMAIN finds : x # id => finds'[x] = finds[x]
        BY <1>2, <1>4, <2>2
      <3>2. \A x \in DOMAIN finds : finds'[x].supported <=> finds[x].supported
        BY <1>4, <3>1
      <3>3. FindsStand
        BY <1>4, <3>1 DEF FindsStand
      <3> QED BY <3>1, <3>2, <3>3 DEF Stamped
    <2> QED BY <1>5, <2>1, <2>2
  <1>7. FindsInv'
    BY <1>2, <1>6 DEF FindsInv
  <1>8. AttemptsInv'
    <2>1. \A m \in Owners : attempts[m].decidedAt \in Nat /\ attempts[m].decidedAt <= now
      BY DEF InboxInv, AttemptsInv, AttemptRecord
    <2>2. \A m \in Owners : attempts[m].decidedAt <= now + 1
      BY <1>1, <2>1
    <2> QED BY <1>1, <2>2 DEF InboxInv, AttemptsInv
  <1>9. /\ feedback \in Seq(FeedbackRecord)
        /\ \A i \in DOMAIN feedback : feedback[i].at <= now /\ feedback[i].find \in Stamped
    BY DEF InboxInv, FeedbackInv, SupportIsStamped
  <1>10. PICK n \in Nat : n = Len(feedback)
    BY <1>9
  <1>11. \A i \in 1..n : feedback[i] \in FeedbackRecord /\ feedback[i].at <= now + 1 /\ feedback[i].find \in Stamped
    <2>1. \A i \in 1..n : feedback[i] \in FeedbackRecord /\ feedback[i].at <= now /\ feedback[i].find \in Stamped
      BY <1>9, <1>10
    <2>2. \A i \in 1..n : feedback[i].at \in Nat
      BY <2>1 DEF FeedbackRecord
    <2> QED BY <1>1, <2>1, <2>2
  <1>12. PICK e : e = [find |-> id, signal |-> signal, category |-> finds[id].category, at |-> now']
    OBVIOUS
  <1>13. /\ e \in FeedbackRecord /\ e.find = id /\ e.category = finds[id].category /\ e.at = now'
         /\ e.find \in Stamped
    BY <1>1, <1>2, <1>12 DEF FeedbackRecord, FindRecord, Stamped
  <1>14. PICK kept : kept = IF n < MaxEvents THEN feedback ELSE Tail(feedback)
    OBVIOUS
  <1>15. feedback' = feedback \/ feedback' = Append(kept, e)
    BY <1>10, <1>12, <1>14 DEF Record
  <1>16. /\ kept \in Seq(FeedbackRecord)
         /\ \A i \in 1..Len(kept) : kept[i].at <= now + 1 /\ kept[i].find \in Stamped
         /\ kept = feedback \/ Len(kept) = n - 1
    <2>1. CASE n < MaxEvents
      BY <1>9, <1>10, <1>11, <1>14, <2>1
    <2>2. CASE ~(n < MaxEvents)
      <3>1. feedback # <<>>
        BY <1>10, <2>2, InboxLimits
      <3>2. PICK t : t = Tail(feedback)
        OBVIOUS
      <3>3. t \in Seq(FeedbackRecord) /\ Len(t) = n - 1 /\ \A i \in 1..Len(t) : t[i] = feedback[i + 1]
        BY <1>9, <1>10, <3>1, <3>2, HeadTailProperties
      <3>4. \A i \in 1..Len(t) : i + 1 \in 1..n
        BY <1>10, <3>3
      <3>5. \A i \in 1..Len(t) : t[i].at <= now + 1 /\ t[i].find \in Stamped
        BY <1>11, <3>3, <3>4
      <3> QED BY <1>14, <2>2, <3>2, <3>3, <3>5
    <2> QED BY <2>1, <2>2
  <1>17. PICK k \in Nat : k = Len(kept)
    BY <1>16
  <1>18. PICK new : new = Append(kept, e)
    OBVIOUS
  <1>19. /\ new \in Seq(FeedbackRecord) /\ Len(new) = k + 1 /\ new[k + 1] = e
         /\ \A i \in 1..k : new[i] = kept[i]
    BY <1>13, <1>16, <1>17, <1>18, AppendProperties
  <1>20. \A i \in 1..Len(new) : new[i].at <= now + 1 /\ new[i].find \in Stamped
    <2> SUFFICES ASSUME NEW i \in 1..k + 1 PROVE new[i].at <= now + 1 /\ new[i].find \in Stamped
      BY <1>19
    <2>1. CASE i = k + 1
      BY <1>1, <1>13, <1>19, <2>1
    <2>2. CASE i # k + 1
      <3>1. i \in 1..k
        BY <2>2
      <3> QED BY <1>16, <1>17, <1>19, <3>1
    <2> QED BY <2>1, <2>2
  <1>21. feedback' \in Seq(FeedbackRecord) /\ \A i \in 1..Len(feedback') : feedback'[i].at <= now' /\ feedback'[i].find \in Stamped
    BY <1>1, <1>9, <1>10, <1>11, <1>15, <1>18, <1>19, <1>20
  <1>22. DOMAIN feedback' = 1..Len(feedback')
    BY <1>21
  <1>23. FeedbackInv'
    BY <1>21, <1>22 DEF FeedbackInv
  <1>24. SupportIsStamped'
    <2>1. \A x \in Owners : /\ attempts[x].supported \subseteq Stamped
                            /\ attempts[x].status = "forged" => attempts[x].supported # {}
      BY DEF InboxInv, SupportIsStamped
    <2> QED BY <1>1, <1>6, <1>21, <1>22, <2>1 DEF SupportIsStamped
  <1>25. \/ Len(feedback') <= Len(feedback)
         \/ \E x \in FeedbackRecord : feedback' = Append(feedback, x) /\ x.find = id /\ x.category = finds[id].category
    <2>1. CASE feedback' = feedback
      BY <1>10, <2>1
    <2>2. CASE feedback' = Append(kept, e) /\ kept = feedback
      BY <1>13, <2>2
    <2>3. CASE feedback' = Append(kept, e) /\ Len(kept) = n - 1
      <3>1. Len(feedback') = k + 1 /\ k = n - 1
        BY <1>17, <1>18, <1>19, <2>3
      <3> QED BY <1>10, <3>1
    <2> QED BY <1>15, <1>16, <2>1, <2>2, <2>3
  <1> QED BY <1>6, <1>7, <1>8, <1>23, <1>24, <1>25 DEF InboxInv

LEMMA ResetKeeps ==
  ASSUME InboxInv, ResetFeedback
  PROVE  InboxInv' /\ FindsStand /\ feedback' = <<>>
  <1>1. /\ feedback' = <<>> /\ attempts' = attempts /\ goal' = goal /\ finds' = finds /\ now' = now
    BY DEF ResetFeedback
  <1>2. AttemptsInv' /\ FindsInv' /\ FindsStand /\ Stamped' = Stamped
    BY <1>1 DEF InboxInv, AttemptsInv, FindsInv, FindsStand, Stamped
  <1>3. FeedbackInv'
    BY <1>1 DEF FeedbackInv
  <1>4. SupportIsStamped'
    <2>1. \A x \in Owners : /\ attempts[x].supported \subseteq Stamped
                            /\ attempts[x].status = "forged" => attempts[x].supported # {}
      BY DEF InboxInv, SupportIsStamped
    <2> QED BY <1>1, <1>2, <2>1 DEF SupportIsStamped
  <1> QED BY <1>1, <1>2, <1>3, <1>4 DEF InboxInv

LEMMA InboxStands ==
  ASSUME InboxInv, UNCHANGED findVars
  PROVE  InboxInv' /\ FindsStand
  <1>1. /\ feedback' = feedback /\ attempts' = attempts /\ goal' = goal /\ finds' = finds /\ now' = now
    BY DEF findVars
  <1>2. AttemptsInv' /\ FindsInv' /\ FeedbackInv' /\ FindsStand /\ Stamped' = Stamped
    BY <1>1 DEF InboxInv, AttemptsInv, FindsInv, FeedbackInv, FindsStand, Stamped
  <1>3. SupportIsStamped'
    <2>1. SupportIsStamped
      BY DEF InboxInv
    <2> QED BY <1>1, <1>2, <2>1 DEF SupportIsStamped
  <1> QED BY <1>2, <1>3 DEF InboxInv

LEMMA InboxSteps == InboxInv /\ [InboxNext]_findVars => InboxInv' /\ FindsStand
  <1> SUFFICES ASSUME InboxInv, [InboxNext]_findVars PROVE InboxInv' /\ FindsStand
    OBVIOUS
  <1>1. CASE \E m \in Owners : \E fetched \in SUBSET Urls : \E pages \in [fetched -> PageTexts] : SealBatch(m, pages)
    BY <1>1, SealKeeps
  <1>2. CASE \E m \in Owners : \E text \in DOMAIN GoalTexts : \E more, person \in BOOLEAN : Confirm(m, text, more, person)
    BY <1>2, ConfirmKeeps
  <1>6. CASE \E m \in Owners : \E text \in DOMAIN GoalTexts : ConfirmWaiting(m, text)
    BY <1>6, ConfirmWaitingKeeps
  <1>7. CASE \E m \in Owners : \E status \in Unread : EndsUnread(m, status)
    BY <1>7, AttemptEndKeeps
  <1>3. CASE \E id \in DOMAIN finds, signal \in FeedbackSignals : Record(id, signal)
    BY <1>3, RecordKeeps
  <1>4. CASE ResetFeedback
    BY <1>4, ResetKeeps
  <1>5. CASE UNCHANGED findVars
    BY <1>5, InboxStands
  <1> QED BY <1>1, <1>2, <1>3, <1>4, <1>5, <1>6, <1>7 DEF InboxNext

-----------------------------------------------------------------------------
(* What follows from it at every moment.                                       *)

LEMMA InboxTellsTheTruth == InboxInv => ListedTakesFeedback /\ ScorecardMeasuresTheInbox
  <1> SUFFICES ASSUME InboxInv PROVE ListedTakesFeedback /\ ScorecardMeasuresTheInbox
    OBVIOUS
  <1>1. \A id \in Listed : id \in DOMAIN finds /\ finds[id].supported
    BY DEF Listed, hasKernelSupport, InboxInv, SupportIsStamped, Stamped
  <1>2. /\ \A id \in Stamped : id[1] \in Executed => id \in goalLinkedFinds
        /\ \A id \in Listed : id[1] \in Executed => id \in goalLinkedFinds
    BY <1>1 DEF Stamped, goalLinkedFinds, isKernelSupportedOpportunity
  <1>3. \A m \in Owners : attempts[m].status = "forged" => isKernelForgedMission(m)
    BY DEF InboxInv, SupportIsStamped, isKernelForgedMission
  <1>4. ASSUME NEW i \in DOMAIN feedback
        PROVE  /\ feedback[i].find[1] \in Owners /\ feedback[i].signal \in FeedbackSignals
               /\ feedback[i].find \in Stamped /\ feedback[i].at \in Nat
    <2>1. feedback[i] \in FeedbackRecord
      BY DEF InboxInv, FeedbackInv
    <2>2. feedback[i].find \in FindIds
      BY <2>1 DEF FeedbackRecord
    <2> QED BY <2>1, <2>2 DEF FeedbackRecord, FindIds, InboxInv, SupportIsStamped
  <1>5. UsefulGoals \subseteq ExecutedGoals
    BY DEF UsefulGoals, ExecutedGoals, Counted, goalLinkedFinds
  <1>6. ASSUME NEW i \in DOMAIN feedback, feedback[i].at = now, feedback[i].find[1] \in Executed
        PROVE  i \in Counted(FeedbackSignals)
    <2>1. PICK m \in Owners : m = feedback[i].find[1]
      BY <1>4
    <2>4. attempts[m].authorized /\ feedback[i].find \in goalLinkedFinds
      BY <1>2, <1>4, <1>6, <2>1 DEF Executed
    <2>2. attempts[m].decidedAt <= now /\ attempts[m].decidedAt \in Nat /\ now \in Nat
      BY DEF InboxInv, AttemptsInv, AttemptRecord
    <2>3. feedback[i].at >= attempts[m].decidedAt
      BY <1>6, <2>2
    <2> QED BY <1>4, <2>1, <2>3, <2>4 DEF Counted
  <1> QED BY <1>1, <1>2, <1>3, <1>5, <1>6 DEF ListedTakesFeedback, ScorecardMeasuresTheInbox

LEMMA AttemptsAreTold == InboxInv => AttemptsAreToldApart
  <1> SUFFICES ASSUME InboxInv, NEW m \in Owners, NEW limit \in 1..MaxShown
               PROVE  /\ Cardinality(attempts[m].read) <= limit => attempts[m].read \subseteq Shown(m, limit)
                      /\ \A e \in missionEvidence(m, limit) :
                           IF e.id \in attempts[m].read
                           THEN /\ ~e.priorAttempt
                                /\ e.supported <=> e.id \in attempts[m].supported
                                /\ e.supported => e.id \in DOMAIN finds /\ finds[e.id].supported
                           ELSE e.priorAttempt
    BY DEF AttemptsAreToldApart
  <1>1. limit \in Nat /\ AttemptsInv
    BY InboxLimits DEF InboxInv
  <1>2. /\ Cardinality(attempts[m].read) <= limit => attempts[m].read \subseteq Shown(m, limit)
        /\ \A e \in missionEvidence(m, limit) :
             IF e.id \in attempts[m].read
             THEN ~e.priorAttempt /\ (e.supported <=> e.id \in attempts[m].supported)
             ELSE e.priorAttempt
    BY <1>1, RowsOfMission
  <1>3. \A x \in attempts[m].supported : x \in DOMAIN finds /\ finds[x].supported
    BY DEF InboxInv, SupportIsStamped, Stamped
  <1> QED BY <1>2, <1>3

(* What a search for more archived is told behind an attempt that read nothing yet. *)
FormerIsShown ==
  \A m \in Owners, limit \in Nat :
    LET prior == attempts[m].prior IN
    /\ attempts[m].read = {} /\ prior # <<>> /\ Cardinality(prior[Len(prior)].read) <= limit
    => prior[Len(prior)].read \subseteq Shown(m, limit)

LEMMA FormerStaysShown == AttemptsInv => FormerIsShown
  BY RowsOfMission DEF FormerIsShown

-----------------------------------------------------------------------------
(* And at every step.                                                          *)

LEMMA OnlyDismissalHides ==
  ASSUME InboxInv, FindsStand, NEW id \in DOMAIN finds
  PROVE  /\ finds[id].status = "dismissed" => id \notin Listed'
         /\ id \in Listed => id \in Listed' \/ finds'[id].status = "dismissed"
  <1>1. /\ id \in DOMAIN finds' /\ finds[id].supported => finds'[id].supported
        /\ finds[id].status = "dismissed" => finds'[id].status = "dismissed"
    BY DEF FindsStand
  <1>2. id \in Listed => finds[id].supported
    BY InboxTellsTheTruth DEF ListedTakesFeedback
  <1>3. id \in Listed' <=> finds'[id].status # "dismissed" /\ (finds'[id].supported \/ \E m \in Owners : id \in attempts'[m].supported)
    BY <1>1 DEF Listed, hasKernelSupport, FindsStand
  <1> QED BY <1>1, <1>2, <1>3 DEF FindsStand

MovesRight(id) ==
  Len(feedback') = Len(feedback) + 1 /\ feedback'[Len(feedback')].find = id =>
    IF feedback'[Len(feedback')].signal \in {"useful", "saved"}
    THEN preferenceAdjustment(feedback', id) >= preferenceAdjustment(feedback, id)
    ELSE preferenceAdjustment(feedback', id) <= preferenceAdjustment(feedback, id)

LEMMA AppendedMoves ==
  ASSUME InboxInv, NEW id, NEW e \in FeedbackRecord, feedback' = Append(feedback, e), e.find = id,
         e.category = finds[id].category
  PROVE  MovesRight(id)
  <1>1. feedback \in Seq(FeedbackRecord)
    BY DEF InboxInv, FeedbackInv
  <1>2. PICK n \in Nat : n = Len(feedback)
    BY <1>1
  <1>3. Len(feedback') = n + 1 /\ feedback'[n + 1] = e
    BY <1>1, <1>2, AppendProperties
  <1>4. PICK c : c = finds[id].category
    OBVIOUS
  <1>5. PICK old \in -20..20 : old = Learned(feedback, c)
    BY <1>1, LearnedMoves
  <1>6. PICK d \in Int : d = Deltas[e.signal]
    BY DeltasAre DEF FeedbackRecord
  <1>7. PICK new : new = Learned(feedback', c)
    OBVIOUS
  <1>8. new = Bounded(-20, 20, old + d)
    <2>1. new = LearnStep(e, c, old)
      BY <1>1, <1>5, <1>7, LearnedMoves
    <2> QED BY <1>4, <1>6, <2>1 DEF LearnStep
  <1>9. new \in Int /\ (d > 0 => new >= old) /\ (d < 0 => new <= old)
    BY <1>8, OneEventMoves
  <1>10. /\ preferenceAdjustment(feedback', id) = Bounded(-25, 25, new)
         /\ preferenceAdjustment(feedback, id) = Bounded(-25, 25, old)
    BY <1>4, <1>5, <1>7 DEF preferenceAdjustment
  <1>11. /\ d > 0 => Bounded(-25, 25, new) >= Bounded(-25, 25, old)
         /\ d < 0 => Bounded(-25, 25, new) <= Bounded(-25, 25, old)
    BY <1>9 DEF Bounded
  <1>12. IF e.signal \in {"useful", "saved"} THEN d > 0 ELSE d < 0
    BY <1>6, DeltasAre DEF FeedbackRecord, FeedbackSignals
  <1> QED BY <1>3, <1>10, <1>11, <1>12 DEF MovesRight

LEMMA FeedbackMoves ==
  ASSUME InboxInv, [InboxNext]_findVars, NEW id \in DOMAIN finds
  PROVE  MovesRight(id)
  <1>1. PICK n \in Nat : n = Len(feedback)
    BY DEF InboxInv, FeedbackInv
  <1>2. Len(feedback') <= n => MovesRight(id)
    <2> SUFFICES ASSUME Len(feedback') <= n, Len(feedback') = n + 1 PROVE FALSE
      BY <1>1 DEF MovesRight
    <2> QED BY <1>1
  <1>3. CASE feedback' = feedback
    BY <1>1, <1>2, <1>3
  <1>4. CASE ResetFeedback
    <2>1. Len(feedback') = 0
      BY <1>4, EmptySeq DEF ResetFeedback
    <2> QED BY <1>1, <1>2, <2>1
  <1>5. ASSUME NEW x \in DOMAIN finds, NEW signal \in FeedbackSignals, Record(x, signal) PROVE MovesRight(id)
    <2>1. \/ Len(feedback') <= Len(feedback)
          \/ \E e \in FeedbackRecord : feedback' = Append(feedback, e) /\ e.find = x /\ e.category = finds[x].category
      BY <1>5, RecordKeeps
    <2>2. CASE Len(feedback') <= Len(feedback)
      BY <1>1, <1>2, <2>2
    <2>3. CASE \E e \in FeedbackRecord : feedback' = Append(feedback, e) /\ e.find = x /\ e.category = finds[x].category
      <3>1. PICK e \in FeedbackRecord : feedback' = Append(feedback, e) /\ e.find = x /\ e.category = finds[x].category
        BY <2>3
      <3>2. CASE id = x
        BY <3>1, <3>2, AppendedMoves
      <3>3. CASE id # x
        <4>1. feedback \in Seq(FeedbackRecord)
          BY DEF InboxInv, FeedbackInv
        <4>2. Len(feedback') = n + 1 /\ feedback'[n + 1] = e
          BY <1>1, <3>1, <4>1, AppendProperties
        <4> QED BY <3>1, <3>3, <4>2 DEF MovesRight
      <3> QED BY <3>2, <3>3
    <2> QED BY <2>1, <2>2, <2>3
  <1>6. feedback' = feedback \/ ResetFeedback \/ \E x \in DOMAIN finds, signal \in FeedbackSignals : Record(x, signal)
    BY DEF InboxNext, SealBatch, EndsUnread, Confirm, ConfirmWaiting, findVars
  <1> QED BY <1>3, <1>4, <1>5, <1>6

LEMMA MoreLosesNothing ==
  ASSUME InboxInv, [InboxNext]_findVars, FormerIsShown', NEW m \in Owners, NEW limit \in 1..MaxShown,
         attempts'[m].prior # <<>>, attempts'[m].decidedAt > attempts[m].decidedAt,
         Cardinality(attempts[m].read) <= limit
  PROVE  attempts[m].read \subseteq Shown(m, limit)'
  <1>1. attempts[m].decidedAt \in Nat
    BY DEF InboxInv, AttemptsInv, AttemptRecord
  <1>2. attempts'[m].decidedAt # attempts[m].decidedAt
    BY <1>1
  <1>3. \/ \E x \in Owners : \E text \in DOMAIN GoalTexts : \E more, person \in BOOLEAN : Confirm(x, text, more, person)
        \/ \E x \in Owners : \E text \in DOMAIN GoalTexts : ConfirmWaiting(x, text)
    <2>1. ASSUME NEW x \in Owners, NEW fetched \in SUBSET Urls, NEW pages \in [fetched -> PageTexts], SealBatch(x, pages)
          PROVE  attempts'[m].decidedAt = attempts[m].decidedAt
      <3>1. attempts = [y \in Owners |-> attempts[y]] /\ attempts[m] \in AttemptRecord(m)
        BY DEF InboxInv, AttemptsInv
      <3>2. PICK S, r, st : attempts' = [attempts EXCEPT ![x] = [@ EXCEPT !.supported = S, !.read = r, !.status = st]]
        BY <2>1 DEF SealBatch
      <3>3. CASE x = m
        <4>1. attempts'[m] = [attempts[m] EXCEPT !.supported = S, !.read = r, !.status = st]
          BY <3>1, <3>2, <3>3
        <4> QED BY <3>1, <4>1 DEF AttemptRecord
      <3>4. CASE x # m
        BY <3>1, <3>2, <3>4
      <3> QED BY <3>3, <3>4
    <2>2. (attempts' = attempts) => attempts'[m].decidedAt = attempts[m].decidedAt
      OBVIOUS
    <2>3. ASSUME NEW x \in Owners, NEW status \in Unread, EndsUnread(x, status)
          PROVE  attempts'[m].decidedAt = attempts[m].decidedAt
      BY <2>3, AttemptEndKeeps
    <2> QED BY <1>2, <2>1, <2>2, <2>3 DEF InboxNext, Record, ResetFeedback, findVars
  <1>4. ASSUME NEW x \in Owners, NEW text \in DOMAIN GoalTexts, ConfirmWaiting(x, text)
        PROVE  attempts[m].read = {}
    BY <1>2, <1>4, ConfirmWaitingKeeps
  <1>5. ASSUME NEW x \in Owners, NEW text \in DOMAIN GoalTexts, NEW more \in BOOLEAN, NEW person \in BOOLEAN,
               Confirm(x, text, more, person)
        PROVE  attempts[m].read \subseteq Shown(m, limit)'
    <2>1. /\ attempts'[x].read = {}
          /\ attempts'[x].prior # <<>> => attempts'[x].prior[Len(attempts'[x].prior)].read = attempts[x].read
          /\ \A y \in Owners : y # x => attempts'[y] = attempts[y]
      BY <1>5, ConfirmKeeps
    <2>2. x = m
      BY <1>2, <2>1
    <2>3. limit \in Nat
      BY InboxLimits
    <2>4. /\ attempts'[m].read = {} /\ attempts'[m].prior # <<>>
          /\ Cardinality(attempts'[m].prior[Len(attempts'[m].prior)].read) <= limit
          => attempts'[m].prior[Len(attempts'[m].prior)].read \subseteq Shown(m, limit)'
      BY <2>3 DEF FormerIsShown
    <2> QED BY <2>1, <2>2, <2>4
  <1> QED BY <1>3, <1>4, <1>5

(* SUPPORT is monotone and filler widens no Goal; what the inbox lists takes    *)
(* feedback and, while its Mission has an authorization, is measured; nothing   *)
(* but a dismissal takes a Find out and                                         *)
(* nothing brings a dismissed one back; the Evidence of a Mission is told by    *)
(* attempt; feedback moves Finds the way it says: for any Missions, Goals,      *)
(* pages, limits and number of rounds (support.ts, the candidate verifier,      *)
(* preference-learner.mjs, product-value-scorecard.mjs).                        *)
THEOREM InboxStaysHonest == InboxSpec => InboxIsHonest
  <1>1. InboxInit => InboxInv
    BY InboxStarts
  <1>2. InboxInv /\ [InboxNext]_findVars => InboxInv' /\ FindsStand
    BY InboxSteps
  <1>3. InboxInv => SupportIsMonotone /\ ListedTakesFeedback /\ ScorecardMeasuresTheInbox /\ AttemptsAreToldApart
    BY SupportStaysMonotone, InboxTellsTheTruth, AttemptsAreTold
  <1>4. InboxInv => FormerIsShown
    BY FormerStaysShown DEF InboxInv
  <1>5. InboxInv /\ [InboxNext]_findVars =>
          [\A id \in DOMAIN finds :
             /\ finds[id].status = "dismissed" => id \notin Listed'
             /\ id \in Listed => id \in Listed' \/ finds'[id].status = "dismissed"]_findVars
    BY <1>2, OnlyDismissalHides
  <1>6. InboxInv /\ [InboxNext]_findVars =>
          [\A id \in DOMAIN finds : Len(feedback') = Len(feedback) + 1 /\ feedback'[Len(feedback')].find = id =>
             IF feedback'[Len(feedback')].signal \in {"useful", "saved"}
             THEN preferenceAdjustment(feedback', id) >= preferenceAdjustment(feedback, id)
             ELSE preferenceAdjustment(feedback', id) <= preferenceAdjustment(feedback, id)]_findVars
    BY FeedbackMoves DEF MovesRight
  <1>7. InboxInv /\ FormerIsShown' /\ [InboxNext]_findVars =>
          [\A m \in Owners, limit \in 1 .. MaxShown :
             /\ attempts'[m].prior # <<>> /\ attempts'[m].decidedAt > attempts[m].decidedAt
             /\ Cardinality(attempts[m].read) <= limit
             => attempts[m].read \subseteq Shown(m, limit)']_findVars
    BY MoreLosesNothing
  <1> QED BY <1>1, <1>2, <1>3, <1>4, <1>5, <1>6, <1>7, PTL DEF InboxSpec, InboxIsHonest,
          InboxChangesByDismissalOnly, FeedbackMovesTheRightWay, EvidenceListFollowsAttempts, SearchForMoreLosesNothing
=============================================================================
