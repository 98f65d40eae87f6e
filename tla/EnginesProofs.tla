---------------------------- MODULE EnginesProofs ----------------------------
(* Safety of the kernel's engines for every value of their constants:          *)
(* the knowledge base, the tasks of a Mission, the ingestion of Hermes's       *)
(* submissions, the queries of a Goal, the task graphs of proposed plans,      *)
(* research runs, the reading of web pages, the schedules, and an attempt of   *)
(* the search adapter with its private home.                                   *)
EXTENDS KnowledgeBase, MissionTasks, HermesIngestion, GoalResolution, PlanGraph,
        ResearchRun, WebReading, Scheduler, HermesSearch,
        WellFoundedInduction, FiniteSetTheorems, SequenceTheorems, TLAPS

-----------------------------------------------------------------------------
(* Cases, Evidence and entities. A record is checked long before it is         *)
(* written, so that the invariant is also about the writes that wait: what     *)
(* they were checked against must still hold when their turn comes. It does    *)
(* because no record is ever removed, and nobody changes who created one.      *)

CaseRecord == [status : {"draft", "active", "completed", "archived"}, at : Nat]
EvidenceRecord ==
  [case : CaseIds \cup {NoCase}, links : SUBSET EntityIds, at : Nat, by : Callers]
EntityRecord == [verified : BOOLEAN, cites : SUBSET EvidenceIds]

KnowledgeTypeOK ==
  /\ cases \in [CaseIds -> CaseRecord \cup {Missing}]
  /\ evidence \in [EvidenceIds -> EvidenceRecord \cup {Missing}]
  /\ entities \in [EntityIds -> EntityRecord \cup {Missing}]
  /\ calledAt \in Nat
  /\ DOMAIN calls = Callers

(* What a write that waits may rely on.                                        *)
CaseWrite(w) == w.store = "cases" /\ w.id \in CaseIds /\ w.value \in CaseRecord
EvidenceWrite(p, w) ==
  /\ w.store = "evidence" /\ w.id \in EvidenceIds /\ w.value \in EvidenceRecord
  /\ w.value.case # NoCase => cases[w.value.case] # Missing
  /\ IF w.create THEN w.value.by = p
     ELSE evidence[w.id] # Missing /\ w.value.by = evidence[w.id].by
EntityWrite(w) ==
  /\ w.store = "entities" /\ w.id \in EntityIds /\ w.value \in EntityRecord
  /\ ~w.create /\ Bare(w.value) => w.id \in BareCreations
LinksRead(w) ==
  /\ w.store = "links" /\ w.id \in EvidenceIds /\ w.value \in SUBSET EntityIds
  /\ evidence[w.id] # Missing
Waits(p, w) ==
  \/ w = Idle \/ LinksRead(w)
  \/ w.create \in BOOLEAN /\ (CaseWrite(w) \/ EvidenceWrite(p, w) \/ EntityWrite(w))

(* An acknowledged creation is in its collection.                              *)
Stands(a) ==
  \/ a.store = "cases" /\ a.id \in CaseIds /\ cases[a.id] # Missing
  \/ a.store = "evidence" /\ a.id \in EvidenceIds /\ evidence[a.id] # Missing /\ evidence[a.id].by = a.by
  \/ a.store = "entities" /\ a.id \in EntityIds /\ entities[a.id] # Missing

CreatedInv ==
  /\ \A a \in created : Stands(a)
  /\ \A a, b \in created : a.store = b.store /\ a.id = b.id => a.by = b.by

KnowledgeInv ==
  /\ KnowledgeTypeOK
  /\ \A p \in Callers : Waits(p, calls[p])
  /\ CreatedInv /\ EvidenceHasItsCase /\ VerifiedHasEvidence

LEMMA RecordsExist ==
  /\ \A r \in CaseRecord : r # Missing
  /\ \A r \in EvidenceRecord : r # Missing
  /\ \A r \in EntityRecord : r # Missing
  <1>1. DOMAIN Missing = {"missing"}
    BY DEF Missing
  <1>2. \A r \in CaseRecord : DOMAIN r = {"status", "at"}
    BY DEF CaseRecord
  <1>3. \A r \in EvidenceRecord : DOMAIN r = {"case", "links", "at", "by"}
    BY DEF EvidenceRecord
  <1>4. \A r \in EntityRecord : DOMAIN r = {"verified", "cites"}
    BY DEF EntityRecord
  <1>5. \A r \in CaseRecord : r # Missing
    <2>1. "status" # "missing"
      OBVIOUS
    <2> QED BY <1>1, <1>2, <2>1
  <1>6. \A r \in EvidenceRecord : r # Missing
    BY <1>1, <1>3
  <1>7. \A r \in EntityRecord : r # Missing
    BY <1>1, <1>4
  <1> QED BY <1>5, <1>6, <1>7

(* What is read from a collection is a record of it.                           *)
LEMMA ReadsRecords ==
  ASSUME KnowledgeTypeOK
  PROVE  /\ \A c \in CaseIds : cases[c] # Missing => cases[c] \in CaseRecord
         /\ \A e \in EvidenceIds : evidence[e] # Missing => evidence[e] \in EvidenceRecord
         /\ \A n \in EntityIds : entities[n] # Missing => entities[n] \in EntityRecord
  BY DEF KnowledgeTypeOK

(* A caller starts to wait with what its checks allow.                         *)
LEMMA WaitingKeeps ==
  ASSUME KnowledgeInv, NEW p \in Callers, NEW w, calls' = [calls EXCEPT ![p] = w], Waits(p, w),
         calledAt' \in Nat, UNCHANGED <<cases, evidence, entities, created>>
  PROVE  KnowledgeInv'
  <1>1. DOMAIN calls' = Callers /\ \A q \in Callers : calls'[q] = IF q = p THEN w ELSE calls[q]
    BY DEF KnowledgeInv, KnowledgeTypeOK
  <1>2. \A q \in Callers : Waits(q, calls'[q])
    BY <1>1 DEF KnowledgeInv
  <1>3. (\A q \in Callers : Waits(q, calls[q]))'
    BY <1>2 DEF Waits, LinksRead, CaseWrite, EvidenceWrite, EntityWrite, BareCreations
  <1>4. KnowledgeTypeOK'
    BY <1>1 DEF KnowledgeInv, KnowledgeTypeOK
  <1>5. CreatedInv'
    BY DEF KnowledgeInv, CreatedInv, Stands
  <1>6. EvidenceHasItsCase' /\ VerifiedHasEvidence'
    BY DEF KnowledgeInv, EvidenceHasItsCase, VerifiedHasEvidence, BareCreations
  <1> QED BY <1>3, <1>4, <1>5, <1>6 DEF KnowledgeInv

LEMMA QueuesKeeps ==
  ASSUME KnowledgeInv, NEW p \in Callers, NEW store, NEW id, NEW create \in BOOLEAN, NEW value,
         Queues(p, store, id, create, value),
         NEW w, w = [store |-> store, id |-> id, create |-> create, value |-> value], Waits(p, w)
  PROVE  KnowledgeInv'
  <1>1. calls' = [calls EXCEPT ![p] = w] /\ UNCHANGED <<cases, evidence, entities, created>>
    BY DEF Queues
  <1>2. calledAt' \in Nat
    BY DEF Queues, KnowledgeInv, KnowledgeTypeOK
  <1> QED BY <1>1, <1>2, WaitingKeeps

LEMMA CaseCallsKeep ==
  ASSUME KnowledgeInv, NEW p \in Callers, NEW c \in CaseIds,
         \/ CreateCase(p, c) \/ UpdateCase(p, c)
         \/ \E s \in DOMAIN canTransition : TransitionStatus(p, c, s)
  PROVE  KnowledgeInv'
  <1>1. PICK create \in BOOLEAN, value \in CaseRecord : Queues(p, "cases", c, create, value)
    <2>0. Now \in Nat
      BY DEF KnowledgeInv, KnowledgeTypeOK, Now
    <2>1. CASE CreateCase(p, c)
      <3>1. [status |-> "draft", at |-> Now] \in CaseRecord
        BY <2>0 DEF CaseRecord
      <3> QED BY <2>1, <3>1 DEF CreateCase
    <2>2. CASE UpdateCase(p, c)
      <3>1. cases[c] \in CaseRecord
        BY <2>2, ReadsRecords DEF UpdateCase, KnowledgeInv
      <3>2. [cases[c] EXCEPT !.at = Now] \in CaseRecord
        BY <2>0, <3>1 DEF CaseRecord
      <3> QED BY <2>2, <3>2 DEF UpdateCase
    <2>3. ASSUME NEW s \in DOMAIN canTransition, TransitionStatus(p, c, s)
          PROVE  \E create \in BOOLEAN, value \in CaseRecord : Queues(p, "cases", c, create, value)
      <3>1. [status |-> s, at |-> Now] \in CaseRecord
        BY <2>0 DEF CaseRecord, canTransition
      <3> QED BY <2>3, <3>1 DEF TransitionStatus
    <2> QED BY <2>1, <2>2, <2>3
  <1>2. PICK w : w = [store |-> "cases", id |-> c, create |-> create, value |-> value]
    OBVIOUS
  <1>3. Waits(p, w)
    BY <1>1, <1>2 DEF Waits, CaseWrite
  <1> QED BY <1>1, <1>2, <1>3, QueuesKeeps

LEMMA EvidenceCallsKeep ==
  ASSUME KnowledgeInv, NEW p \in Callers, NEW e \in EvidenceIds, NEW c \in CaseIds \cup {NoCase},
         CreateEvidence(p, e, c) \/ MoveEvidence(p, e, c)
  PROVE  KnowledgeInv'
  <1>0. Now \in Nat
    BY DEF KnowledgeInv, KnowledgeTypeOK, Now
  <1>1. CASE CreateEvidence(p, e, c)
    <2>1. PICK value : value = [case |-> c, links |-> {}, at |-> Now, by |-> p]
      OBVIOUS
    <2>2. value \in EvidenceRecord /\ value.case = c /\ value.by = p
      BY <1>0, <2>1 DEF EvidenceRecord
    <2>3. PICK w : w = [store |-> "evidence", id |-> e, create |-> TRUE, value |-> value]
      OBVIOUS
    <2>4. Waits(p, w)
      BY <1>1, <2>2, <2>3 DEF Waits, EvidenceWrite, CreateEvidence, assertCaseAcceptsEvidence
    <2>5. Queues(p, "evidence", e, TRUE, value)
      BY <1>1, <2>1 DEF CreateEvidence
    <2> QED BY <2>3, <2>4, <2>5, QueuesKeeps
  <1>2. CASE MoveEvidence(p, e, c)
    <2>1. PICK value : value = [evidence[e] EXCEPT !.case = c, !.at = Now]
      OBVIOUS
    <2>2. evidence[e] \in EvidenceRecord /\ evidence[e] # Missing
      BY <1>2, ReadsRecords DEF MoveEvidence, KnowledgeInv
    <2>3. value \in EvidenceRecord /\ value.case = c /\ value.by = evidence[e].by
      BY <1>0, <2>1, <2>2 DEF EvidenceRecord
    <2>4. c # NoCase => cases[c] # Missing
      <3>1. CASE c = evidence[e].case
        BY <2>2, <3>1 DEF KnowledgeInv, EvidenceHasItsCase
      <3>2. CASE c # evidence[e].case
        BY <1>2, <3>2 DEF MoveEvidence, assertCaseAcceptsEvidence
      <3> QED BY <3>1, <3>2
    <2>5. PICK w : w = [store |-> "evidence", id |-> e, create |-> FALSE, value |-> value]
      OBVIOUS
    <2>6. Waits(p, w)
      BY <2>2, <2>3, <2>4, <2>5 DEF Waits, EvidenceWrite
    <2>7. Queues(p, "evidence", e, FALSE, value)
      BY <1>2, <2>1 DEF MoveEvidence
    <2> QED BY <2>5, <2>6, <2>7, QueuesKeeps
  <1> QED BY <1>1, <1>2

(* A link is prepared, and later written over the record as it is by then.     *)
LEMMA LinkCallsKeep ==
  ASSUME KnowledgeInv, NEW p \in Callers,
         \/ \E e \in EvidenceIds, n \in EntityIds : LinkEntity(p, e, n) \/ UnlinkEntity(p, e, n)
         \/ WriteLinks(p)
  PROVE  KnowledgeInv'
  <1>1. CASE \E e \in EvidenceIds, n \in EntityIds : LinkEntity(p, e, n) \/ UnlinkEntity(p, e, n)
    <2>1. PICK e \in EvidenceIds, n \in EntityIds : LinkEntity(p, e, n) \/ UnlinkEntity(p, e, n)
      BY <1>1
    <2>2. evidence[e] \in EvidenceRecord /\ evidence[e] # Missing
      BY <2>1, ReadsRecords DEF LinkEntity, UnlinkEntity, KnowledgeInv
    <2>3. PICK links \in SUBSET EntityIds : ReadLinks(p, e, links)
      BY <2>1, <2>2 DEF LinkEntity, UnlinkEntity, EvidenceRecord
    <2>4. PICK w : w = [store |-> "links", id |-> e, value |-> links]
      OBVIOUS
    <2>5. Waits(p, w)
      BY <2>2, <2>4 DEF Waits, LinksRead
    <2>6. calls' = [calls EXCEPT ![p] = w] /\ UNCHANGED <<cases, evidence, entities, created>>
      BY <2>3, <2>4 DEF ReadLinks
    <2>7. calledAt' \in Nat
      BY <2>3 DEF ReadLinks, KnowledgeInv, KnowledgeTypeOK
    <2> QED BY <2>5, <2>6, <2>7, WaitingKeeps
  <1>2. CASE WriteLinks(p)
    <2>1. LinksRead(calls[p])
      <3>1. Waits(p, calls[p]) /\ calls[p].store = "links"
        BY <1>2 DEF KnowledgeInv, WriteLinks
      <3> QED BY <3>1 DEF Waits, Idle, CaseWrite, EvidenceWrite, EntityWrite
    <2>2. PICK e : e = calls[p].id
      OBVIOUS
    <2>3. /\ e \in EvidenceIds /\ evidence[e] # Missing /\ evidence[e] \in EvidenceRecord
          /\ calls[p].value \in SUBSET EntityIds /\ calledAt \in Nat
      BY <2>1, <2>2, ReadsRecords DEF LinksRead, KnowledgeInv, KnowledgeTypeOK
    <2>4. PICK value : value = [evidence[e] EXCEPT !.links = calls[p].value, !.at = calledAt]
      OBVIOUS
    <2>5. value \in EvidenceRecord /\ value.case = evidence[e].case /\ value.by = evidence[e].by
      BY <2>3, <2>4 DEF EvidenceRecord
    <2>6. PICK w : w = IF calledAt > evidence[e].at
                       THEN [store |-> "evidence", id |-> e, create |-> FALSE, value |-> value] ELSE Idle
      OBVIOUS
    <2>7. Waits(p, w)
      <3>1. CASE calledAt > evidence[e].at
        <4>1. w = [store |-> "evidence", id |-> e, create |-> FALSE, value |-> value]
          BY <2>6, <3>1
        <4> QED BY <2>3, <2>5, <4>1 DEF Waits, EvidenceWrite, KnowledgeInv, EvidenceHasItsCase
      <3>2. CASE ~(calledAt > evidence[e].at)
        BY <2>6, <3>2 DEF Waits
      <3> QED BY <3>1, <3>2
    <2>8. /\ calls' = [calls EXCEPT ![p] = w]
          /\ UNCHANGED <<cases, evidence, entities, calledAt, created>>
      BY <1>2, <2>2, <2>4, <2>6 DEF WriteLinks
    <2> QED BY <2>3, <2>7, <2>8, WaitingKeeps
  <1> QED BY <1>1, <1>2

LEMMA EntityCallsKeep ==
  ASSUME KnowledgeInv, NEW p \in Callers, NEW n \in EntityIds,
         \/ \E verified \in BOOLEAN, cites \in SUBSET EvidenceIds : CreateEntity(p, n, verified, cites)
         \/ EditEntity(p, n)
         \/ \E e \in EvidenceIds : LinkEvidence(p, n, e) \/ Verify(p, n, e) \/ Unverify(p, n, e)
  PROVE  KnowledgeInv'
  <1> DEFINE Fit(create, value) == value \in EntityRecord /\ (~create /\ Bare(value) => n \in BareCreations)
             Goal == \E create \in BOOLEAN : \E value : Queues(p, "entities", n, create, value) /\ Fit(create, value)
  <1>1. Goal
    <2>1. ASSUME NEW verified \in BOOLEAN, NEW cites \in SUBSET EvidenceIds, CreateEntity(p, n, verified, cites)
          PROVE  Goal
      <3>1. PICK v : v = [verified |-> verified, cites |-> cites]
        OBVIOUS
      <3>2. Fit(TRUE, v)
        BY <3>1 DEF EntityRecord
      <3>3. Queues(p, "entities", n, TRUE, v)
        BY <2>1, <3>1 DEF CreateEntity
      <3> HIDE DEF Fit
      <3> QED BY <3>2, <3>3
    <2>2. CASE EditEntity(p, n)
      <3>1. Fit(FALSE, entities[n]) /\ Queues(p, "entities", n, FALSE, entities[n])
        BY <2>2, ReadsRecords DEF EditEntity, KnowledgeInv, VerifiedHasEvidence
      <3> HIDE DEF Fit
      <3> QED BY <3>1
    <2>3. ASSUME NEW e \in EvidenceIds, LinkEvidence(p, n, e) \/ Verify(p, n, e) \/ Unverify(p, n, e)
          PROVE  Goal
      <3>1. entities[n] \in EntityRecord /\ (Bare(entities[n]) => n \in BareCreations)
        BY <2>3, ReadsRecords DEF LinkEvidence, Verify, Unverify, KnowledgeInv, VerifiedHasEvidence
      <3>2. CASE LinkEvidence(p, n, e)
        <4>1. PICK v : v = [entities[n] EXCEPT !.cites = @ \cup {e}]
          OBVIOUS
        <4>2. v \in EntityRecord
          BY <3>1, <4>1 DEF EntityRecord
        <4>3. v.cites = entities[n].cites \cup {e}
          BY <3>1, <4>1 DEF EntityRecord
        <4>4. Fit(FALSE, v)
          BY <4>2, <4>3 DEF Bare
        <4>5. Queues(p, "entities", n, FALSE, v)
          BY <3>2, <4>1 DEF LinkEvidence
        <4> HIDE DEF Fit
        <4> QED BY <4>4, <4>5
      <3>3. CASE Verify(p, n, e)
        <4>1. PICK v : v = [verified |-> TRUE, cites |-> entities[n].cites \cup {e}]
          OBVIOUS
        <4>2. v \in EntityRecord /\ v.cites # {}
          BY <3>1, <4>1 DEF EntityRecord
        <4>3. Fit(FALSE, v)
          BY <4>2 DEF Bare
        <4>4. Queues(p, "entities", n, FALSE, v)
          BY <3>3, <4>1 DEF Verify
        <4> HIDE DEF Fit
        <4> QED BY <4>3, <4>4
      <3>4. CASE Unverify(p, n, e)
        <4>1. PICK v : v = Unverified(entities[n], e)
          OBVIOUS
        <4>2. v \in EntityRecord /\ (v.verified <=> v.cites # {})
          BY <3>1, <4>1 DEF EntityRecord, Unverified
        <4>3. Fit(FALSE, v)
          BY <4>2 DEF Bare
        <4>4. Queues(p, "entities", n, FALSE, v)
          BY <3>4, <4>1 DEF Unverify
        <4> HIDE DEF Fit
        <4> QED BY <4>3, <4>4
      <3> QED BY <2>3, <3>2, <3>3, <3>4
    <2> HIDE DEF Goal
    <2> QED BY <2>1, <2>2, <2>3
  <1>2. PICK create \in BOOLEAN : \E value : Queues(p, "entities", n, create, value) /\ Fit(create, value)
    BY <1>1
  <1>3. PICK value : Queues(p, "entities", n, create, value) /\ Fit(create, value)
    BY <1>2
  <1>4. PICK w : w = [store |-> "entities", id |-> n, create |-> create, value |-> value]
    OBVIOUS
  <1>5. Waits(p, w)
    BY <1>3, <1>4 DEF Waits, EntityWrite
  <1> QED BY <1>3, <1>4, <1>5, QueuesKeeps

(* Nothing that exists is ever removed, and no Evidence changes its creator.   *)
Grows ==
  /\ \A c \in CaseIds : cases[c] # Missing => cases'[c] # Missing
  /\ \A e \in EvidenceIds :
       evidence[e] # Missing => evidence'[e] # Missing /\ evidence'[e].by = evidence[e].by
  /\ \A n \in EntityIds : entities[n] # Missing => entities'[n] # Missing
  /\ created \subseteq created'

LEMMA GrowthKeeps ==
  ASSUME Grows
  PROVE  /\ \A w : \A p \in Callers : Waits(p, w) => Waits(p, w)'
         /\ \A a : Stands(a) => Stands(a)'
  <1>b. BareCreations \subseteq BareCreations'
    BY DEF Grows, BareCreations
  <1>1. ASSUME NEW p \in Callers, NEW w, Waits(p, w) PROVE Waits(p, w)'
    <2>1. CASE w = Idle
      BY <2>1 DEF Waits
    <2>2. CASE LinksRead(w)
      BY <2>2 DEF Waits, LinksRead, Grows
    <2>3. CASE w.create \in BOOLEAN /\ CaseWrite(w)
      BY <2>3 DEF Waits, CaseWrite
    <2>4. CASE w.create \in BOOLEAN /\ EvidenceWrite(p, w)
      <3>1. w.value.case \in CaseIds \cup {NoCase}
        BY <2>4 DEF EvidenceWrite, EvidenceRecord
      <3>2. EvidenceWrite(p, w)'
        BY <2>4, <3>1 DEF EvidenceWrite, Grows
      <3> QED BY <2>4, <3>2 DEF Waits
    <2>5. CASE w.create \in BOOLEAN /\ EntityWrite(w)
      BY <1>b, <2>5 DEF Waits, EntityWrite
    <2> QED BY <1>1, <2>1, <2>2, <2>3, <2>4, <2>5 DEF Waits
  <1>2. ASSUME NEW a, Stands(a) PROVE Stands(a)'
    BY <1>2 DEF Stands, Grows
  <1> QED BY <1>1, <1>2

(* Only a queued write is made, and it was checked.                            *)
LEMMA WriteIs ==
  ASSUME KnowledgeInv, NEW p \in Callers, Write(p), NEW w, w = calls[p]
  PROVE  w.create \in BOOLEAN /\ (CaseWrite(w) \/ EvidenceWrite(p, w) \/ EntityWrite(w))
  <1>1. Waits(p, calls[p]) /\ calls[p].store \notin {"none", "links"}
    BY DEF KnowledgeInv, Write
  <1>2. Idle.store = "none"
    BY DEF Idle
  <1> QED BY <1>1, <1>2 DEF Waits, LinksRead

(* The write is refused.                                                       *)
LEMMA RefusedWriteKeeps ==
  ASSUME KnowledgeInv, NEW p \in Callers, Write(p), ~mayWrite(Stored(calls[p].store)[calls[p].id], calls[p].create)
  PROVE  KnowledgeInv'
  <1>1. UNCHANGED <<cases, evidence, entities, created, calledAt>> /\ calls' = [calls EXCEPT ![p] = Idle]
    BY DEF Write, EntityRow, Stored
  <1>2. calledAt' \in Nat /\ Waits(p, Idle)
    BY <1>1 DEF KnowledgeInv, KnowledgeTypeOK, Waits
  <1> QED BY <1>1, <1>2, WaitingKeeps

(* The write is taken: every collection but its own is as it was.              *)
LEMMA TakenWrite ==
  ASSUME KnowledgeInv, NEW p \in Callers, Write(p), NEW w, w = calls[p], w.create \in BOOLEAN,
         mayWrite(Stored(w.store)[w.id], w.create)
  PROVE  /\ w.create <=> Stored(w.store)[w.id] = Missing
         /\ cases' = IF w.store = "cases" THEN [cases EXCEPT ![w.id] = w.value] ELSE cases
         /\ evidence' = IF w.store = "evidence" THEN [evidence EXCEPT ![w.id] = w.value] ELSE evidence
         /\ entities' = IF w.store = "entities" THEN [entities EXCEPT ![w.id] = w.value] ELSE entities
         /\ created' = IF w.create THEN created \cup {Creation(w, p)} ELSE created
         /\ calls' = [calls EXCEPT ![p] = Idle] /\ calledAt' = calledAt
  <1>1. w.create <=> Stored(w.store)[w.id] = Missing
    BY DEF mayWrite
  <1>2. cases' = IF w.store = "cases" THEN [cases EXCEPT ![w.id] = w.value] ELSE cases
    BY DEF Write, Stored
  <1>3. evidence' = IF w.store = "evidence" THEN [evidence EXCEPT ![w.id] = w.value] ELSE evidence
    BY DEF Write, Stored
  <1>4. entities' = IF w.store = "entities" THEN [entities EXCEPT ![w.id] = w.value] ELSE entities
    BY DEF Write, EntityRow
  <1>5. created' = IF w.create THEN created \cup {Creation(w, p)} ELSE created
    BY DEF Write
  <1>6. calls' = [calls EXCEPT ![p] = Idle] /\ calledAt' = calledAt
    BY DEF Write
  <1> QED BY <1>1, <1>2, <1>3, <1>4, <1>5, <1>6

LEMMA TakenWriteKeeps ==
  ASSUME KnowledgeInv, NEW p \in Callers, Write(p), NEW w, w = calls[p], w.create \in BOOLEAN,
         CaseWrite(w) \/ EvidenceWrite(p, w) \/ EntityWrite(w),
         mayWrite(Stored(w.store)[w.id], w.create)
  PROVE  KnowledgeInv'
  <1> USE DEF KnowledgeTypeOK
  <1>0. KnowledgeTypeOK
    BY DEF KnowledgeInv
  <1>t. calls' = [calls EXCEPT ![p] = Idle] /\ calledAt' = calledAt
    BY TakenWrite
  <1>1. /\ cases' \in [CaseIds -> CaseRecord \cup {Missing}]
        /\ \A c \in CaseIds : cases'[c] = IF w.store = "cases" /\ c = w.id THEN w.value ELSE cases[c]
    BY <1>0, TakenWrite DEF CaseWrite, EvidenceWrite, EntityWrite
  <1>2. /\ evidence' \in [EvidenceIds -> EvidenceRecord \cup {Missing}]
        /\ \A e \in EvidenceIds : evidence'[e] = IF w.store = "evidence" /\ e = w.id THEN w.value ELSE evidence[e]
    BY <1>0, TakenWrite DEF CaseWrite, EvidenceWrite, EntityWrite
  <1>3. /\ entities' \in [EntityIds -> EntityRecord \cup {Missing}]
        /\ \A n \in EntityIds : entities'[n] = IF w.store = "entities" /\ n = w.id THEN w.value ELSE entities[n]
    BY <1>0, TakenWrite DEF CaseWrite, EvidenceWrite, EntityWrite
  <1>4. /\ w.store = "cases" => w.value # Missing
        /\ w.store = "evidence" => w.value # Missing
        /\ w.store = "entities" => w.value # Missing
    BY RecordsExist DEF CaseWrite, EvidenceWrite, EntityWrite
  <1>5. Grows
    <2>1. ASSUME NEW e \in EvidenceIds, evidence[e] # Missing
          PROVE  evidence'[e] # Missing /\ evidence'[e].by = evidence[e].by
      <3>1. CASE w.store = "evidence" /\ e = w.id
        <4>1. ~w.create
          BY <2>1, <3>1, TakenWrite DEF Stored
        <4>2. w.value.by = evidence[e].by
          BY <3>1, <4>1 DEF CaseWrite, EvidenceWrite, EntityWrite
        <4> QED BY <1>2, <1>4, <3>1, <4>2
      <3>2. CASE ~(w.store = "evidence" /\ e = w.id)
        BY <1>2, <2>1, <3>2
      <3> QED BY <3>1, <3>2
    <2>2. created \subseteq created'
      BY TakenWrite
    <2> QED BY <1>1, <1>3, <1>4, <2>1, <2>2 DEF Grows
  <1>6. /\ DOMAIN calls' = Callers
        /\ \A q \in Callers : calls'[q] = IF q = p THEN Idle ELSE calls[q]
    BY <1>0, <1>t
  <1>7. KnowledgeTypeOK'
    BY <1>0, <1>t, <1>1, <1>2, <1>3, <1>6
  <1>8. (\A q \in Callers : Waits(q, calls[q]))'
    <2>1. ASSUME NEW q \in Callers PROVE Waits(q, calls[q])'
      <3>1. PICK v : v = calls'[q]
        OBVIOUS
      <3>2. Waits(q, v)
        BY <1>6, <3>1 DEF KnowledgeInv, Waits
      <3>3. Waits(q, v)'
        BY <1>5, <3>2, GrowthKeeps
      <3> QED BY <3>1, <3>3
    <2> QED BY <2>1
  <1>9. CreatedInv'
    <2>1. \A a \in created : Stands(a) /\ Stands(a)'
      BY <1>5, GrowthKeeps DEF KnowledgeInv, CreatedInv
    <2>2. CASE ~w.create
      <3>1. created' = created
        BY <2>2, TakenWrite
      <3> QED BY <2>1, <3>1 DEF KnowledgeInv, CreatedInv
    <2>3. CASE w.create
      <3>1. PICK n : n = Creation(w, p)
        OBVIOUS
      <3>2. created' = created \cup {n} /\ n.store = w.store /\ n.id = w.id /\ n.by = p
        BY <2>3, <3>1, TakenWrite DEF Creation
      <3>3. Stored(w.store)[w.id] = Missing
        BY <2>3, TakenWrite
      <3>4. Stands(n)'
        BY <1>1, <1>2, <1>3, <1>4, <2>3, <3>2 DEF Stands, CaseWrite, EvidenceWrite, EntityWrite
      <3>5. \A a \in created : ~(a.store = n.store /\ a.id = n.id)
        BY <2>1, <3>2, <3>3 DEF Stands, Stored
      <3> QED BY <2>1, <3>2, <3>4, <3>5 DEF KnowledgeInv, CreatedInv
    <2> QED BY <2>2, <2>3
  <1>10. EvidenceHasItsCase'
    <2>1. ASSUME NEW e \in EvidenceIds, evidence'[e] # Missing, evidence'[e].case # NoCase
          PROVE  cases'[evidence'[e].case] # Missing
      <3>1. PICK c : c = evidence'[e].case
        OBVIOUS
      <3>2. c \in CaseIds
        BY <1>2, <2>1, <3>1 DEF EvidenceRecord
      <3>3. cases[c] # Missing
        <4>1. CASE w.store = "evidence" /\ e = w.id
          BY <1>2, <2>1, <3>1, <4>1 DEF CaseWrite, EvidenceWrite, EntityWrite
        <4>2. CASE ~(w.store = "evidence" /\ e = w.id)
          BY <1>2, <2>1, <3>1, <4>2 DEF KnowledgeInv, EvidenceHasItsCase
        <4> QED BY <4>1, <4>2
      <3> QED BY <1>5, <3>1, <3>2, <3>3 DEF Grows
    <2> QED BY <2>1 DEF EvidenceHasItsCase
  <1>11. VerifiedHasEvidence'
    <2>1. BareCreations \subseteq BareCreations'
      BY <1>5 DEF Grows, BareCreations
    <2>2. ASSUME NEW n \in EntityIds, entities'[n] # Missing, Bare(entities'[n]) PROVE n \in BareCreations'
      <3>1. CASE ~(w.store = "entities" /\ n = w.id)
        BY <1>3, <2>1, <2>2, <3>1 DEF KnowledgeInv, VerifiedHasEvidence
      <3>2. CASE w.store = "entities" /\ n = w.id /\ ~w.create
        BY <1>3, <2>1, <2>2, <3>2 DEF CaseWrite, EvidenceWrite, EntityWrite
      <3>3. CASE w.store = "entities" /\ n = w.id /\ w.create
        <4>1. PICK a : a = Creation(w, p)
          OBVIOUS
        <4>2. a.store = "entities" /\ a.id = n /\ a.bare
          BY <1>3, <2>2, <3>3, <4>1 DEF Creation
        <4>3. a \in created'
          BY <3>3, <4>1, TakenWrite
        <4> QED BY <4>2, <4>3 DEF BareCreations
      <3> QED BY <3>1, <3>2, <3>3
    <2>3. ASSUME NEW v PROVE Bare(v)' <=> Bare(v)
      BY DEF Bare
    <2> QED BY <2>2 DEF VerifiedHasEvidence, Bare
  <1> QED BY <1>7, <1>8, <1>9, <1>10, <1>11 DEF KnowledgeInv

(* KnowledgeIsConsistent for every number of records and concurrent callers:   *)
(* although the managers check against records read before their write is      *)
(* queued, and the process may stop in between, an acknowledged creation is    *)
(* never taken over or lost, Evidence names only Cases that exist, and an      *)
(* entity is never verified without Evidence, unless its creator said so.      *)
THEOREM KnowledgeStaysConsistent == KnowledgeSpec => []KnowledgeIsConsistent
  <1>1. KnowledgeInit => KnowledgeInv
    BY DEF KnowledgeInit, KnowledgeInv, KnowledgeTypeOK, Waits, CreatedInv, EvidenceHasItsCase,
           VerifiedHasEvidence
  <1>2. KnowledgeInv /\ [KnowledgeNext]_knowledgeVars => KnowledgeInv'
    <2> SUFFICES ASSUME KnowledgeInv, [KnowledgeNext]_knowledgeVars PROVE KnowledgeInv'
      OBVIOUS
    <2>1. CASE UNCHANGED knowledgeVars \/ Stop
      <3>1. UNCHANGED <<cases, evidence, entities, calledAt, created>>
        BY <2>1 DEF knowledgeVars, Stop
      <3>2. DOMAIN calls' = Callers /\ \A q \in Callers : calls'[q] \in {calls[q], Idle}
        BY <2>1 DEF knowledgeVars, Stop, KnowledgeInv, KnowledgeTypeOK
      <3>3. Grows
        BY <3>1 DEF Grows
      <3>4. ASSUME NEW q \in Callers PROVE Waits(q, calls[q])'
        <4>1. PICK v : v = calls'[q]
          OBVIOUS
        <4>2. Waits(q, v)
          BY <3>2, <4>1 DEF KnowledgeInv, Waits
        <4>3. Waits(q, v)'
          BY <3>3, <4>2, GrowthKeeps
        <4> QED BY <4>1, <4>3
      <3>5. KnowledgeTypeOK' /\ EvidenceHasItsCase' /\ VerifiedHasEvidence'
        BY <3>1, <3>2 DEF KnowledgeInv, KnowledgeTypeOK, EvidenceHasItsCase, VerifiedHasEvidence, BareCreations
      <3>6. CreatedInv'
        BY <3>1 DEF KnowledgeInv, CreatedInv, Stands
      <3> QED BY <3>4, <3>5, <3>6 DEF KnowledgeInv
    <2>2. ASSUME NEW p \in Callers, Write(p) PROVE KnowledgeInv'
      <3>1. PICK w : w = calls[p]
        OBVIOUS
      <3>2. w.create \in BOOLEAN /\ (CaseWrite(w) \/ EvidenceWrite(p, w) \/ EntityWrite(w))
        BY <2>2, <3>1, WriteIs
      <3> QED BY <2>2, <3>1, <3>2, RefusedWriteKeeps, TakenWriteKeeps
    <2> QED BY <2>1, <2>2, CaseCallsKeep, EvidenceCallsKeep, LinkCallsKeep, EntityCallsKeep DEF KnowledgeNext
  <1>3. KnowledgeInv => KnowledgeIsConsistent
    <2>1. KnowledgeInv => CreationsStand
      BY DEF KnowledgeInv, CreatedInv, Stands, CreationsStand, Stored
    <2> QED BY <2>1 DEF KnowledgeInv, KnowledgeIsConsistent
  <1> QED BY <1>1, <1>2, <1>3, PTL DEF KnowledgeSpec

-----------------------------------------------------------------------------
(* The tasks of a Mission. Nobody waits in vain because the plan has no cycle, *)
(* which is what the depth-first visit establishes: a plan it lets through     *)
(* has, among any of its tasks, one that depends on none of the others.        *)

Grounded(tasks) ==
  \A S \in SUBSET DOMAIN tasks : S # {} => \E t \in S : tasks[t].dependsOn \cap S = {}

(* The visit is what its recursive definition says: the pairs of a set of      *)
(* tasks being visited and a task that may be visited under it are the largest *)
(* set that the definition allows.                                             *)
LEMMA VisitsRecurse ==
  ASSUME NEW tasks, \A t \in DOMAIN tasks : tasks[t].dependsOn \subseteq DOMAIN tasks
  PROVE  visits(tasks) = [V \in SUBSET DOMAIN tasks |-> [t \in DOMAIN tasks |->
           /\ t \notin V
           /\ \A d \in tasks[t].dependsOn : visits(tasks)[V \cup {t}][d]]]
  <1> DEFINE D == DOMAIN tasks
             Is(g) == g = [V \in SUBSET D |-> [t \in D |->
                /\ t \notin V
                /\ \A d \in tasks[t].dependsOn : g[V \cup {t}][d]]]
             Post(X) == \A V \in SUBSET D, t \in D : <<V, t>> \in X => t \notin V /\ \A d \in tasks[t].dependsOn : <<V \cup {t}, d>> \in X
             G == UNION {X \in SUBSET ((SUBSET D) \X D) : Post(X)}
  <1>1. visits(tasks) = CHOOSE g : Is(g)
    BY DEF visits
  <1>2. \A V \in SUBSET D, t \in D : <<V, t>> \in G <=> t \notin V /\ \A d \in tasks[t].dependsOn : <<V \cup {t}, d>> \in G
    <2>1. ASSUME NEW V \in SUBSET D, NEW t \in D, <<V, t>> \in G
          PROVE t \notin V /\ \A d \in tasks[t].dependsOn : <<V \cup {t}, d>> \in G
      <3>1. PICK X \in SUBSET ((SUBSET D) \X D) : Post(X) /\ <<V, t>> \in X
        BY <2>1
      <3> QED BY <3>1
    <2>2. ASSUME NEW V \in SUBSET D, NEW t \in D, t \notin V, \A d \in tasks[t].dependsOn : <<V \cup {t}, d>> \in G
          PROVE <<V, t>> \in G
      <3>1. PICK X : X = G \cup {<<V, t>>}
        OBVIOUS
      <3>2. X \in SUBSET ((SUBSET D) \X D)
        BY <3>1
      <3>3. ASSUME NEW W \in SUBSET D, NEW s \in D, <<W, s>> \in X
            PROVE s \notin W /\ \A d \in tasks[s].dependsOn : <<W \cup {s}, d>> \in X
        <4>1. CASE <<W, s>> \in G
           <5> HIDE DEF G
           <5> QED BY <2>1, <3>1, <4>1
        <4>2. CASE W = V /\ s = t
           <5> HIDE DEF G
           <5> QED BY <2>2, <3>1, <4>2
        <4> HIDE DEF G
        <4> QED BY <3>1, <3>3, <4>1, <4>2
      <3>4. Post(X)
        BY <3>3
      <3>5. X \in {Y \in SUBSET ((SUBSET D) \X D) : Post(Y)} /\ <<V, t>> \in X
        BY <3>1, <3>2, <3>4
      <3> HIDE DEF Post
      <3> QED BY <3>5
    <2> HIDE DEF G
    <2> QED BY <2>1, <2>2
  <1>3. \E g : Is(g)
    <2> HIDE DEF G
    <2>1. PICK g : g = [V \in SUBSET D |-> [t \in D |-> <<V, t>> \in G]]
      OBVIOUS
    <2>2. ASSUME NEW V \in SUBSET D, NEW t \in D
          PROVE (<<V, t>> \in G) <=> (t \notin V /\ \A d \in tasks[t].dependsOn : g[V \cup {t}][d])
      <3>1. \A d \in tasks[t].dependsOn : d \in D /\ V \cup {t} \in SUBSET D
         OBVIOUS
      <3>2. \A d \in tasks[t].dependsOn : g[V \cup {t}][d] = (<<V \cup {t}, d>> \in G)
         BY <3>1, <2>1
      <3> QED BY <1>2, <3>2
    <2>3. \A V \in SUBSET D : [t \in D |-> <<V, t>> \in G] = [t \in D |->
                /\ t \notin V
                /\ \A d \in tasks[t].dependsOn : g[V \cup {t}][d]]
      <3> TAKE V \in SUBSET D
      <3>1. \A t \in D : (<<V, t>> \in G) = (t \notin V /\ \A d \in tasks[t].dependsOn : g[V \cup {t}][d])
        <4> TAKE t \in D
        <4> DEFINE a == <<V, t>> \in G
                   b == t \notin V /\ \A d \in tasks[t].dependsOn : g[V \cup {t}][d]
        <4>1. a <=> b
          BY <2>2
        <4>2. a \in BOOLEAN /\ b \in BOOLEAN
          OBVIOUS
        <4> HIDE DEF a, b
        <4>3. a = b
          BY <4>1, <4>2
        <4> QED BY <4>3 DEF a, b
      <3> QED BY <3>1, Zenon
    <2>4. Is(g)
      BY <2>1, <2>3
    <2> HIDE DEF Is
    <2> QED BY <2>4
  <1>4. Is(visits(tasks))
    <2> HIDE DEF Is
    <2> QED BY <1>1, <1>3
  <1> QED BY <1>4

LEMMA VisitedIsGrounded ==
  ASSUME NEW tasks, IsFiniteSet(DOMAIN tasks),
         \A t \in DOMAIN tasks : tasks[t].dependsOn \subseteq DOMAIN tasks, assertAcyclic(tasks)
  PROVE  Grounded(tasks)
  <1> DEFINE D == DOMAIN tasks
             v == visits(tasks)
  <1>1. \A V \in SUBSET D, t \in D : v[V][t] => t \notin V /\ \A d \in tasks[t].dependsOn : v[V \cup {t}][d]
    <2>1. v = [V \in SUBSET D |-> [t \in D |->
            /\ t \notin V
            /\ \A d \in tasks[t].dependsOn : v[V \cup {t}][d]]]
      BY VisitsRecurse
    <2> HIDE DEF v, D
    <2> TAKE V \in SUBSET D, t \in D
    <2>2. v[V] = [q \in D |-> q \notin V /\ \A d \in tasks[q].dependsOn : v[V \cup {q}][d]]
      BY <2>1, Zenon
    <2>3. v[V][t] = (t \notin V /\ \A d \in tasks[t].dependsOn : v[V \cup {t}][d])
      BY <2>2, Zenon
    <2> QED BY <2>3, Zenon
  <1>2. \A t \in D : v[{}][t]
    BY DEF assertAcyclic
  <1>3. \A t \in D : tasks[t].dependsOn \subseteq D
    OBVIOUS
  <1>4. IsFiniteSet(D)
    OBVIOUS
  <1> HIDE DEF D, v
  <1>5. SUFFICES ASSUME NEW S \in SUBSET D, S # {}, \A t \in S : tasks[t].dependsOn \cap S # {}
                 PROVE  FALSE
    BY DEF Grounded, D
  <1> DEFINE Left == {D \ V : V \in {W \in SUBSET D : \E t \in S : v[W][t]}}
  <1>6. IsWellFoundedOn(StrictSubsetOrdering(D), SUBSET D)
    BY <1>4, FS_StrictSubsetOrderingWellFounded, FS_FiniteSubsetsOfFinite
  <1>7. Left \subseteq SUBSET D
    OBVIOUS
  <1>8. Left # {}
    <2>1. PICK t \in S : TRUE
      BY <1>5
    <2>2. {} \in {W \in SUBSET D : \E q \in S : v[W][q]}
      BY <1>2, <2>1
    <2> QED BY <2>2
  <1>9. PICK X \in Left : \A Y \in Left : <<Y, X>> \notin StrictSubsetOrdering(D)
    <2> HIDE DEF Left
    <2> QED BY <1>6, <1>7, <1>8, WFMin
  <1>10. PICK V \in SUBSET D : X = D \ V /\ \E t \in S : v[V][t]
    BY <1>9
  <1>11. PICK t \in S : v[V][t]
    BY <1>10
  <1>12. PICK d \in S : d \in tasks[t].dependsOn
    BY <1>5
  <1>13. t \notin V /\ t \in D /\ v[V \cup {t}][d]
    BY <1>1, <1>11, <1>12
  <1>14. PICK W : W = V \cup {t}
    OBVIOUS
  <1>15. W \in SUBSET D /\ v[W][d] /\ D \ W \in Left
    <2>1. W \in {Z \in SUBSET D : \E q \in S : v[Z][q]}
      BY <1>13, <1>14
    <2> QED BY <1>13, <1>14, <2>1
  <1>16. D \ W \subseteq X /\ D \ W # X
    BY <1>10, <1>13, <1>14
  <1>17. <<D \ W, X>> \in StrictSubsetOrdering(D)
    <2>1. D \ W \in SUBSET D /\ X \in SUBSET D
      BY <1>10
    <2> QED BY <1>16, <2>1 DEF StrictSubsetOrdering
  <1> QED BY <1>9, <1>15, <1>17

TaskState ==
  [status : {"pending", "ready", "active", "completed", "failed"},
   evidence : [Requirements -> TaskEvidence \cup {NoEvidence}]]

(* A plan that was accepted, and what has become of its tasks. Only a draft    *)
(* can be planned, and a draft is not executed.                                *)
TasksTypeOK ==
  /\ missionStatus \in {"draft", "planned", "active", "completed", "failed", "cancelled"}
  /\ \A t \in DOMAIN plan : plan[t].dependsOn \subseteq DOMAIN plan
  /\ \/ execution = <<>>
     \/ execution \in [DOMAIN plan -> TaskState] /\ missionStatus # "draft"

TaskInv ==
  /\ TasksTypeOK
  /\ Grounded(plan)
  /\ OrderIsKept
  /\ \A t \in DOMAIN execution :
       execution[t].status = "completed" => plan[t].required \subseteq Collected(execution[t])
  /\ \A r \in results :
       /\ r.task \in DOMAIN execution /\ execution[r.task].status = "completed"
       /\ r.cited \subseteq r.evidenceIds /\ r.evidenceIds = Recorded(execution[r.task])

(* Among tasks of which none can be worked on and none failed, one that        *)
(* depends on none of the waiting ones would have been ready.                  *)
LEMMA NobodyWaits == TaskInv => NoTaskWaitsInVain
  <1> SUFFICES ASSUME TaskInv, execution # <<>>, \A t \in DOMAIN execution : execution[t].status # "failed",
                      ~ \E t \in DOMAIN execution : execution[t].status \in {"ready", "active"}
               PROVE  isComplete
    BY DEF NoTaskWaitsInVain
  <1>1. execution \in [DOMAIN plan -> TaskState]
    BY DEF TaskInv, TasksTypeOK
  <1>2. PICK S : S = {t \in DOMAIN plan : execution[t].status = "pending"}
    OBVIOUS
  <1>3. \A t \in DOMAIN plan : t \in S \/ t \in CompletedTasks(execution)
    BY <1>1, <1>2 DEF TaskState, CompletedTasks
  <1>4. S = {}
    <2>1. SUFFICES ASSUME S # {} PROVE FALSE
      OBVIOUS
    <2>2. PICK t \in S : plan[t].dependsOn \cap S = {}
      BY <1>2, <2>1 DEF TaskInv, Grounded
    <2>3. plan[t].dependsOn \subseteq CompletedTasks(execution)
      BY <1>2, <1>3, <2>2 DEF TaskInv, TasksTypeOK
    <2> QED BY <1>1, <1>2, <2>2, <2>3 DEF TaskInv, OrderIsKept
  <1> QED BY <1>1, <1>3, <1>4 DEF isComplete, CompletedTasks

LEMMA TasksOrdered == TaskInv => TasksAreOrdered
  <1>1. TaskInv => ResultsStayTrue
    BY DEF TaskInv, ResultsStayTrue
  <1> QED BY <1>1, NobodyWaits DEF TaskInv, TasksAreOrdered

LEMMA PlanKeeps ==
  ASSUME TaskInv, NEW draft \in Drafts, "planned" \in transitions[missionStatus], Plan(draft)
  PROVE  TaskInv'
  <1>1. missionStatus = "draft" /\ execution = <<>>
    BY DEF TaskInv, TasksTypeOK, transitions
  <1>2. PICK n \in 0 .. MaxTasks : draft \in [1 .. n -> DraftTasks]
    BY DEF Drafts
  <1>3. IsFiniteSet(DOMAIN draft)
    <2>1. DOMAIN draft = 1 .. n /\ n \in Int
      BY <1>2
    <2>2. \A i \in Int : IsFiniteSet(1 .. i)
      BY FS_Interval
    <2> QED BY <2>1, <2>2
  <1>4. PICK p : p = Planned(draft)
    OBVIOUS
  <1>5. DOMAIN p = DOMAIN draft /\ \A t \in DOMAIN p : p[t].dependsOn = {Position(draft, k) : k \in draft[t].dependsOn}
    BY <1>4 DEF Planned
  <1>6. \A t \in DOMAIN p : p[t].dependsOn \subseteq DOMAIN p
    <2>1. ASSUME NEW t \in DOMAIN draft, NEW k \in draft[t].dependsOn PROVE Position(draft, k) \in DOMAIN draft
      <3>1. \E j \in DOMAIN draft : draft[j].key = k
        BY DEF Plan, DraftAccepted
      <3> QED BY <3>1 DEF Position
    <2> QED BY <1>5, <2>1
  <1>7. Grounded(p)
    BY <1>3, <1>4, <1>5, <1>6, VisitedIsGrounded DEF Plan, validatePlan
  <1>8. plan' = p /\ missionStatus' = "planned" /\ execution' = execution /\ results' = results
    BY <1>4 DEF Plan
  <1>9. TasksTypeOK' /\ Grounded(plan)'
    BY <1>1, <1>6, <1>7, <1>8 DEF TasksTypeOK, Grounded
  <1>10. OrderIsKept'
    BY <1>1, <1>8 DEF OrderIsKept
  <1>11. results' = {}
    BY <1>1, <1>8 DEF TaskInv
  <1> QED BY <1>1, <1>8, <1>9, <1>10, <1>11 DEF TaskInv

LEMMA TransitionKeeps ==
  ASSUME TaskInv, NEW s \in DOMAIN transitions, Transition(s)
  PROVE  TaskInv'
  <1>1. UNCHANGED <<plan, execution, results>> /\ missionStatus' = s /\ s \in transitions[missionStatus]
    BY DEF Transition
  <1>2. missionStatus' \in {"planned", "active", "completed", "failed", "cancelled"}
    BY <1>1 DEF transitions, TaskInv, TasksTypeOK
  <1>3. TasksTypeOK'
    BY <1>1, <1>2 DEF TaskInv, TasksTypeOK
  <1> QED BY <1>1, <1>3 DEF TaskInv, Grounded, OrderIsKept, CompletedTasks, Collected, Recorded

LEMMA InitializeKeeps ==
  ASSUME TaskInv, Initialize
  PROVE  TaskInv'
  <1>1. execution = <<>> /\ UNCHANGED <<missionStatus, plan, results>> /\ missionStatus # "draft"
    BY DEF Initialize
  <1>2. results = {}
    BY <1>1 DEF TaskInv
  <1>3. /\ execution' = [i \in DOMAIN plan |-> Fresh(IF dependenciesComplete(i, {}) THEN "ready" ELSE "pending")]
    BY DEF Initialize
  <1>4. \A s \in {"ready", "pending"} : Fresh(s) \in TaskState /\ Fresh(s).status = s
    BY DEF Fresh, TaskState
  <1>5. /\ execution' \in [DOMAIN plan -> TaskState]
        /\ \A i \in DOMAIN plan : execution'[i].status = IF plan[i].dependsOn \subseteq {} THEN "ready" ELSE "pending"
    BY <1>3, <1>4 DEF dependenciesComplete
  <1>6. CompletedTasks(execution') = {}
    BY <1>5 DEF CompletedTasks
  <1>7. OrderIsKept'
    BY <1>1, <1>5, <1>6 DEF OrderIsKept, CompletedTasks
  <1>8. TasksTypeOK' /\ Grounded(plan)'
    BY <1>1, <1>5 DEF TaskInv, TasksTypeOK, Grounded
  <1> QED BY <1>1, <1>2, <1>5, <1>7, <1>8 DEF TaskInv

(* One task moves on; tasks that are not pending keep what they have.          *)
LEMMA TaskMoves ==
  ASSUME TaskInv, NEW t \in DOMAIN execution, NEW x \in TaskState,
         execution[t].status \in {"ready", "active"}, x.status \in {"active", "failed"},
         execution' = [execution EXCEPT ![t] = x], UNCHANGED <<missionStatus, plan, results>>
  PROVE  TaskInv'
  <1>1. execution \in [DOMAIN plan -> TaskState] /\ missionStatus # "draft"
    BY DEF TaskInv, TasksTypeOK
  <1>2. /\ execution' \in [DOMAIN plan -> TaskState]
        /\ \A q \in DOMAIN plan : execution'[q] = IF q = t THEN x ELSE execution[q]
    BY <1>1
  <1>3. CompletedTasks(execution') = CompletedTasks(execution)
    BY <1>1, <1>2 DEF CompletedTasks
  <1>4. OrderIsKept'
    BY <1>1, <1>2, <1>3 DEF TaskInv, OrderIsKept, CompletedTasks
  <1>5. TasksTypeOK' /\ Grounded(plan)'
    BY <1>1, <1>2 DEF TaskInv, TasksTypeOK, Grounded
  <1>6. \A q \in DOMAIN plan : execution'[q].status = "completed" =>
             execution'[q] = execution[q] /\ execution[q].status = "completed"
    BY <1>2
  <1>7. (\A q \in DOMAIN execution :
          execution[q].status = "completed" => plan[q].required \subseteq Collected(execution[q]))'
    BY <1>1, <1>2, <1>6 DEF TaskInv, Collected
  <1>8. \A q \in DOMAIN plan : execution[q].status = "completed" => execution'[q] = execution[q]
    BY <1>2
  <1>9. (\A r \in results :
          /\ r.task \in DOMAIN execution /\ execution[r.task].status = "completed"
          /\ r.cited \subseteq r.evidenceIds /\ r.evidenceIds = Recorded(execution[r.task]))'
    BY <1>1, <1>2, <1>8 DEF TaskInv, Recorded, Collected
  <1> QED BY <1>4, <1>5, <1>7, <1>9 DEF TaskInv

LEMMA WorkKeeps ==
  ASSUME TaskInv, NEW t \in DOMAIN execution,
         \/ StartTask(t) \/ FailTask(t)
         \/ \E r \in Requirements, e \in TaskEvidence : RecordEvidence(t, r, e)
  PROVE  TaskInv'
  <1>1. execution \in [DOMAIN plan -> TaskState] /\ execution[t] \in TaskState
    BY DEF TaskInv, TasksTypeOK
  <1>2. CASE StartTask(t)
    <2>1. PICK x : x = [execution[t] EXCEPT !.status = "active"]
      OBVIOUS
    <2>2. x \in TaskState /\ x.status = "active"
      BY <1>1, <2>1 DEF TaskState
    <2>3. execution' = [execution EXCEPT ![t] = x]
      BY <1>2, <2>1 DEF StartTask
    <2> QED BY <1>2, <2>2, <2>3, TaskMoves DEF StartTask
  <1>3. CASE FailTask(t)
    <2>1. PICK x : x = [execution[t] EXCEPT !.status = "failed"]
      OBVIOUS
    <2>2. x \in TaskState /\ x.status = "failed"
      BY <1>1, <2>1 DEF TaskState
    <2>3. execution' = [execution EXCEPT ![t] = x]
      BY <1>3, <2>1 DEF FailTask
    <2> QED BY <1>3, <2>2, <2>3, TaskMoves DEF FailTask
  <1>4. ASSUME NEW r \in Requirements, NEW e \in TaskEvidence, RecordEvidence(t, r, e) PROVE TaskInv'
    <2>1. PICK f : f = [execution[t].evidence EXCEPT ![r] = e]
      OBVIOUS
    <2>2. f \in [Requirements -> TaskEvidence \cup {NoEvidence}]
      BY <1>1, <2>1 DEF TaskState
    <2>3. PICK x : x = [execution[t] EXCEPT !.evidence = f]
      OBVIOUS
    <2>4. execution[t].status = "active"
      BY <1>4 DEF RecordEvidence, AcceptsEvidence
    <2>5. x \in TaskState /\ x.status = "active"
      BY <1>1, <2>2, <2>3, <2>4 DEF TaskState
    <2>6. execution' = [execution EXCEPT ![t] = x]
      BY <1>4, <2>1, <2>3 DEF RecordEvidence
    <2> QED BY <1>4, <2>4, <2>5, <2>6, TaskMoves DEF RecordEvidence
  <1> QED BY <1>2, <1>3, <1>4

(* A task is completed, and everything that waited only for it becomes ready.  *)
LEMMA CompleteKeeps ==
  ASSUME TaskInv, NEW t \in DOMAIN execution, CompleteTask(t)
  PROVE  TaskInv'
  <1>1. /\ execution \in [DOMAIN plan -> TaskState] /\ missionStatus # "draft"
        /\ execution[t].status = "active" /\ plan[t].required \subseteq Collected(execution[t])
        /\ UNCHANGED <<missionStatus, plan, results>>
    BY DEF TaskInv, TasksTypeOK, CompleteTask
  <1>2. PICK m : m = [execution EXCEPT ![t].status = "completed"]
    OBVIOUS
  <1>3. PICK x : x = [execution[t] EXCEPT !.status = "completed"]
    OBVIOUS
  <1>4. x \in TaskState /\ x.status = "completed" /\ x.evidence = execution[t].evidence
    BY <1>1, <1>3 DEF TaskState
  <1>5. m \in [DOMAIN plan -> TaskState] /\ \A q \in DOMAIN plan : m[q] = IF q = t THEN x ELSE execution[q]
    BY <1>1, <1>2, <1>3, <1>4
  <1>6. PICK done : done = CompletedTasks(m)
    OBVIOUS
  <1>7. done = CompletedTasks(execution) \cup {t}
    BY <1>1, <1>4, <1>5, <1>6 DEF CompletedTasks
  <1>8. execution' = [i \in DOMAIN m |-> IF m[i].status = "pending" /\ plan[i].dependsOn \subseteq done
                                        THEN [m[i] EXCEPT !.status = "ready"] ELSE m[i]]
    BY <1>2, <1>6 DEF CompleteTask, refreshReadiness, dependenciesComplete
  <1>9. \A q \in DOMAIN plan : /\ [m[q] EXCEPT !.status = "ready"] \in TaskState
                               /\ [m[q] EXCEPT !.status = "ready"].status = "ready"
    BY <1>5 DEF TaskState
  <1>10. /\ execution' \in [DOMAIN plan -> TaskState]
         /\ \A q \in DOMAIN plan :
              IF m[q].status = "pending" /\ plan[q].dependsOn \subseteq done
                THEN execution'[q].status = "ready" ELSE execution'[q] = m[q]
    BY <1>5, <1>8, <1>9
  <1>11. CompletedTasks(execution') = done
    BY <1>5, <1>6, <1>10 DEF CompletedTasks
  <1>12. OrderIsKept'
    <2>1. ASSUME NEW q \in DOMAIN plan
          PROVE  execution'[q].status # "pending" <=> plan[q].dependsOn \subseteq done
      <3>1. execution[q].status # "pending" <=> plan[q].dependsOn \subseteq CompletedTasks(execution)
        BY <1>1 DEF TaskInv, OrderIsKept
      <3> QED BY <1>1, <1>4, <1>5, <1>7, <1>10, <3>1
    <2> QED BY <1>1, <1>10, <1>11, <2>1 DEF OrderIsKept, CompletedTasks
  <1>13. TasksTypeOK' /\ Grounded(plan)'
    BY <1>1, <1>10 DEF TaskInv, TasksTypeOK, Grounded
  <1>14. \A q \in DOMAIN plan : execution'[q].status = "completed" =>
             IF q = t THEN execution'[q] = x ELSE execution'[q] = execution[q]
    BY <1>5, <1>10
  <1>15. Collected(x) = Collected(execution[t])
    BY <1>4 DEF Collected
  <1>16. (\A q \in DOMAIN execution :
           execution[q].status = "completed" => plan[q].required \subseteq Collected(execution[q]))'
    <2>1. ASSUME NEW q \in DOMAIN plan, execution'[q].status = "completed"
          PROVE  plan[q].required \subseteq Collected(execution'[q])
      <3>1. CASE q = t
        BY <1>1, <1>14, <1>15, <2>1, <3>1
      <3>2. CASE q # t
        BY <1>1, <1>14, <2>1, <3>2 DEF TaskInv
      <3> QED BY <3>1, <3>2
    <2> QED BY <1>1, <1>10, <2>1 DEF Collected
  <1>17. \A q \in DOMAIN plan : execution[q].status = "completed" => execution'[q] = execution[q]
    BY <1>1, <1>5, <1>10
  <1>18. (\A r \in results :
           /\ r.task \in DOMAIN execution /\ execution[r.task].status = "completed"
           /\ r.cited \subseteq r.evidenceIds /\ r.evidenceIds = Recorded(execution[r.task]))'
    BY <1>1, <1>10, <1>17 DEF TaskInv, Recorded, Collected
  <1> QED BY <1>12, <1>13, <1>16, <1>18 DEF TaskInv

LEMMA BuildKeeps ==
  ASSUME TaskInv, NEW t \in DOMAIN execution, NEW cited, BuildResult(t, cited)
  PROVE  TaskInv'
  <1>1. PICK r : r = [task |-> t, evidenceIds |-> Recorded(execution[t]), cited |-> cited]
    OBVIOUS
  <1>2. /\ results' = results \cup {r} /\ UNCHANGED <<missionStatus, plan, execution>>
        /\ execution[t].status = "completed" /\ cited \subseteq Recorded(execution[t])
    BY <1>1 DEF BuildResult
  <1>3. r.task = t /\ r.evidenceIds = Recorded(execution[t]) /\ r.cited = cited
    BY <1>1
  <1>4. (\A q \in results :
          /\ q.task \in DOMAIN execution /\ execution[q.task].status = "completed"
          /\ q.cited \subseteq q.evidenceIds /\ q.evidenceIds = Recorded(execution[q.task]))'
    BY <1>2, <1>3 DEF TaskInv, Recorded, Collected
  <1> QED BY <1>2, <1>4 DEF TaskInv, TasksTypeOK, Grounded, OrderIsKept, CompletedTasks, Collected

(* TasksAreOrdered for drafts of every length and every graph of dependencies: *)
(* what assertAcyclic of the Mission engine lets through can be worked off to  *)
(* the end, the execution engine starts a task only after everything it        *)
(* depends on is completed, and a task result stays backed by the Evidence its *)
(* task recorded.                                                              *)
THEOREM TasksStayOrdered == TasksSpec => []TasksAreOrdered
  <1>1. TasksInit => TaskInv
    BY DEF TasksInit, TaskInv, TasksTypeOK, Grounded, OrderIsKept
  <1>2. TaskInv /\ [TasksNext]_taskVars => TaskInv'
    <2> SUFFICES ASSUME TaskInv, [TasksNext]_taskVars PROVE TaskInv'
      OBVIOUS
    <2>1. CASE UNCHANGED taskVars
      BY <2>1 DEF taskVars, TaskInv, TasksTypeOK, Grounded, OrderIsKept, CompletedTasks, Collected, Recorded
    <2>2. ASSUME NEW t \in DOMAIN execution, TaskStep(t) PROVE TaskInv'
      BY <2>2, WorkKeeps, CompleteKeeps, BuildKeeps DEF TaskStep
    <2> QED BY <2>1, <2>2, PlanKeeps, TransitionKeeps, InitializeKeeps DEF TasksNext
  <1> QED BY <1>1, <1>2, TasksOrdered, PTL DEF TasksSpec

-----------------------------------------------------------------------------
(* Ingestion. A request about to complete has its record stored; while the     *)
(* Kernel starts nothing else runs, the loop's list holds pending receipts     *)
(* only, and every pending receipt whose record is stored is still on it       *)
(* until the recovery has ended.                                               *)

WorkIsStored == \A p \in Slots : req[p].pc = "complete" => records[RecordOf[req[p].input]] = req[p].input
Done(k) == records[RecordOf[receipt[k].input]] # None

StartupInv ==
  /\ boot # "up" => \A p \in Slots : req[p].pc = "idle"
  /\ boot = "recover" => /\ \A k \in todo : receipt[k].status = "pending"
                         /\ \A k \in IdempotencyKeys : receipt[k].status = "pending" /\ Done(k) => k \in todo
  /\ boot = "expire" => \A k \in IdempotencyKeys : receipt[k].status = "pending" => ~Done(k)

IngestionInv == IngestionTypeOK /\ CompletedIsStored /\ WorkIsStored /\ StartupInv

(* What a step may do to the receipts: one of them moves, and not a completed  *)
(* one; it keeps its input unless it was unused.                               *)
ReceiptMove(r, s) ==
  /\ s \in Receipt
  /\ s.status # "none" /\ s.input \in Inputs
  /\ r.status # "completed"
  /\ r.status # "none" => s.input = r.input
  /\ s.status = "completed" => records[RecordOf[s.input]] # None /\ s.record = records[RecordOf[s.input]]

LEMMA RecordFacts ==
  ASSUME IngestionTypeOK, NEW in \in Inputs
  PROVE  RecordOf[in] \in RecordIds /\ records[RecordOf[in]] \in Inputs \cup {None} /\ in # None
  BY IngestionAssumption DEF IngestionTypeOK

(* The three ways a receipt is written.                                        *)
LEMMA ReservedMove ==
  ASSUME IngestionTypeOK, NEW k \in IdempotencyKeys, NEW in \in Inputs, NEW s,
         s = [receipt[k] EXCEPT !.status = "pending", !.input = in, !.leaseLive = TRUE],
         receipt[k].status \in {"none", "failed", "pending"}, receipt[k].status # "none" => receipt[k].input = in
  PROVE  ReceiptMove(receipt[k], s) /\ s.status = "pending" /\ s.input = in
  <1>1. receipt[k] \in Receipt
    BY DEF IngestionTypeOK
  <1>2. s \in Receipt /\ s.status = "pending" /\ s.input = in
    BY <1>1 DEF Receipt
  <1> QED BY <1>2 DEF ReceiptMove

LEMMA CompletedMove ==
  ASSUME IngestionTypeOK, NEW k \in IdempotencyKeys, NEW in \in Inputs, NEW s,
         s = [receipt[k] EXCEPT !.status = "completed", !.record = in, !.leaseLive = FALSE],
         receipt[k].status = "pending", records[RecordOf[receipt[k].input]] = in
  PROVE  ReceiptMove(receipt[k], s) /\ s.status = "completed"
  <1>1. receipt[k] \in Receipt /\ receipt[k].input \in Inputs
    BY DEF IngestionTypeOK
  <1>2. s \in Receipt /\ s.status = "completed" /\ s.input = receipt[k].input /\ s.record = in
    BY <1>1 DEF Receipt
  <1>3. in # None
    BY RecordFacts
  <1> QED BY <1>1, <1>2, <1>3 DEF ReceiptMove

LEMMA FailedMove ==
  ASSUME IngestionTypeOK, NEW k \in IdempotencyKeys, NEW s,
         s = [receipt[k] EXCEPT !.status = "failed", !.leaseLive = FALSE], receipt[k].status = "pending"
  PROVE  ReceiptMove(receipt[k], s) /\ s.status = "failed"
  <1>1. receipt[k] \in Receipt /\ receipt[k].input \in Inputs
    BY DEF IngestionTypeOK
  <1>2. s \in Receipt /\ s.status = "failed" /\ s.input = receipt[k].input
    BY <1>1 DEF Receipt
  <1> QED BY <1>1, <1>2 DEF ReceiptMove

LEMMA ExpiredMove ==
  ASSUME IngestionTypeOK, NEW k \in IdempotencyKeys, NEW s,
         s = [receipt[k] EXCEPT !.leaseLive = FALSE], receipt[k].status = "pending"
  PROVE  ReceiptMove(receipt[k], s) /\ s.status = "pending"
  <1>1. receipt[k] \in Receipt /\ receipt[k].input \in Inputs
    BY DEF IngestionTypeOK
  <1>2. s \in Receipt /\ s.status = "pending" /\ s.input = receipt[k].input
    BY <1>1 DEF Receipt
  <1> QED BY <1>1, <1>2 DEF ReceiptMove

(* A move keeps what is said of receipts.                                      *)
LEMMA MoveKeeps ==
  ASSUME IngestionTypeOK, CompletedIsStored, NEW k \in IdempotencyKeys, NEW s, ReceiptMove(receipt[k], s),
         receipt' = [receipt EXCEPT ![k] = s], records' = records
  PROVE  /\ receipt' \in [IdempotencyKeys -> Receipt]
         /\ \A x \in IdempotencyKeys : receipt'[x].status # "none" => receipt'[x].input \in Inputs
         /\ CompletedIsStored'
  <1>1. \A x \in IdempotencyKeys : receipt'[x] = IF x = k THEN s ELSE receipt[x]
    BY DEF IngestionTypeOK
  <1>2. receipt' \in [IdempotencyKeys -> Receipt]
    BY DEF IngestionTypeOK, ReceiptMove
  <1>3. \A x \in IdempotencyKeys : receipt'[x].status # "none" => receipt'[x].input \in Inputs
    BY <1>1 DEF IngestionTypeOK, ReceiptMove
  <1>4. ASSUME NEW x \in IdempotencyKeys, receipt'[x].status = "completed"
        PROVE  /\ records'[RecordOf[receipt'[x].input]] # None
               /\ receipt'[x].record = records'[RecordOf[receipt'[x].input]]
    BY <1>1, <1>4 DEF ReceiptMove, CompletedIsStored
  <1> QED BY <1>2, <1>3, <1>4 DEF CompletedIsStored


(* A completed receipt stays as it is, and a used one keeps its input.         *)
Steady ==
  \A k \in IdempotencyKeys :
    /\ receipt[k].status = "completed" => receipt'[k] = receipt[k]
    /\ receipt[k].status # "none" => receipt'[k].input = receipt[k].input

LEMMA MoveIsSteady ==
  ASSUME IngestionTypeOK, NEW k \in IdempotencyKeys, NEW s, ReceiptMove(receipt[k], s),
         receipt' = [receipt EXCEPT ![k] = s]
  PROVE  Steady
  <1>1. \A x \in IdempotencyKeys : receipt'[x] = IF x = k THEN s ELSE receipt[x]
    BY DEF IngestionTypeOK
  <1> QED BY <1>1 DEF Steady, ReceiptMove

RequestsOK(f) ==
  /\ f \in [Slots -> Request]
  /\ \A p \in Slots : f[p].pc # "idle" => f[p].key \in IdempotencyKeys /\ f[p].input \in Inputs

(* A request moves to its next step, or is answered.                           *)
LEMMA RequestMoves ==
  ASSUME IngestionTypeOK, NEW p \in Slots, NEW pc \in {"run", "complete", "fail"},
         req[p].pc # "idle", Goto(p, pc) \/ Answer(p)
  PROVE  /\ RequestsOK(req')
         /\ \A q \in Slots : q # p => req'[q] = req[q]
         /\ req'[p].pc \in {pc, "idle"} /\ (req'[p].pc # "idle" => req'[p].input = req[p].input)
  <1>1. req[p] \in Request /\ req[p].key \in IdempotencyKeys /\ req[p].input \in Inputs
    BY DEF IngestionTypeOK
  <1>2. CASE Goto(p, pc)
    <2>1. PICK r : r = [req[p] EXCEPT !.pc = pc]
      OBVIOUS
    <2>2. r \in Request /\ r.pc = pc /\ r.key = req[p].key /\ r.input = req[p].input
      BY <1>1, <2>1 DEF Request
    <2>3. req' = [req EXCEPT ![p] = r]
      BY <1>2, <2>1 DEF Goto
    <2> QED BY <1>1, <2>2, <2>3 DEF RequestsOK, IngestionTypeOK
  <1>3. CASE Answer(p)
    <2>1. IdleReq \in Request /\ IdleReq.pc = "idle"
      BY DEF IdleReq, Request
    <2>2. req' = [req EXCEPT ![p] = IdleReq]
      BY <1>3 DEF Answer
    <2> QED BY <2>1, <2>2 DEF RequestsOK, IngestionTypeOK
  <1> QED BY <1>2, <1>3

(* While the Kernel serves, nothing is said of the start-up.                   *)
LEMMA ServingKeeps ==
  ASSUME IngestionInv, boot = "up", RequestsOK(req'),
         UNCHANGED <<boot, todo, crashes>>, failedWrites' \in Nat,
         receipt' \in [IdempotencyKeys -> Receipt],
         \A x \in IdempotencyKeys : receipt'[x].status # "none" => receipt'[x].input \in Inputs,
         records' \in [RecordIds -> Inputs \cup {None}],
         \A r \in RecordIds : records'[r] # None => RecordOf[records'[r]] = r,
         CompletedIsStored', WorkIsStored'
  PROVE  IngestionInv'
  <1>1. IngestionTypeOK'
    BY DEF IngestionInv, IngestionTypeOK, RequestsOK
  <1>2. StartupInv'
    BY DEF StartupInv
  <1> QED BY <1>1, <1>2 DEF IngestionInv

(* A request runs only while the Kernel serves.                                *)
LEMMA BusyMeansUp ==
  ASSUME IngestionInv, NEW p \in Slots, req[p].pc # "idle"
  PROVE  boot = "up" /\ req[p].key \in IdempotencyKeys /\ req[p].input \in Inputs
  BY DEF IngestionInv, IngestionTypeOK, StartupInv

LEMMA FaultCounts ==
  ASSUME IngestionTypeOK, failedWrites' = failedWrites \/ FaultHappens
  PROVE  failedWrites' \in Nat
  BY DEF IngestionTypeOK, FaultHappens

LEMMA BeginKeeps ==
  ASSUME IngestionInv, NEW p \in Slots, Begin(p)
  PROVE  IngestionInv' /\ Steady
  <1>1. PICK k \in IdempotencyKeys, in \in Inputs : k = req[p].key /\ in = req[p].input
    BY BusyMeansUp DEF Begin
  <1>2. boot = "up" /\ req[p].pc = "begin" /\ UNCHANGED <<records, boot, todo, crashes>> /\ IngestionTypeOK
    BY BusyMeansUp DEF Begin, IngestionInv
  <1>3. Goto(p, "run") \/ Answer(p)
    BY DEF Begin
  <1>4. /\ RequestsOK(req') /\ \A q \in Slots : q # p => req'[q] = req[q]
        /\ req'[p].pc \in {"run", "idle"}
    BY <1>2, <1>3, RequestMoves
  <1>5. failedWrites' \in Nat
    BY <1>2, FaultCounts DEF Begin
  <1>6. WorkIsStored'
    BY <1>2, <1>4 DEF WorkIsStored, IngestionInv
  <1>7. CASE receipt' = receipt
    BY <1>2, <1>4, <1>5, <1>6, <1>7, ServingKeeps DEF IngestionInv, IngestionTypeOK, CompletedIsStored, Steady
  <1>8. CASE receipt' # receipt
    <2>1. /\ Reserve(k, in) /\ (receipt[k].status # "none" => receipt[k].input = in)
          /\ receipt[k].status # "completed"
      BY <1>1, <1>8 DEF Begin, sameRequest
    <2>2. PICK s : s = [receipt[k] EXCEPT !.status = "pending", !.input = in, !.leaseLive = TRUE]
      OBVIOUS
    <2>3. receipt' = [receipt EXCEPT ![k] = s]
      BY <2>1, <2>2 DEF Reserve
    <2>4. receipt[k].status \in {"none", "failed", "pending"}
      BY <1>2, <2>1 DEF IngestionTypeOK, Receipt
    <2>5. ReceiptMove(receipt[k], s)
      BY <1>2, <2>1, <2>2, <2>4, ReservedMove
    <2> QED BY <1>2, <1>4, <1>5, <1>6, <2>3, <2>5, MoveKeeps, MoveIsSteady, ServingKeeps DEF IngestionInv, IngestionTypeOK
  <1> QED BY <1>7, <1>8

LEMMA IngestKeeps ==
  ASSUME IngestionInv, NEW p \in Slots, Ingest(p)
  PROVE  IngestionInv' /\ Steady
  <1>1. PICK in \in Inputs : in = req[p].input
    BY BusyMeansUp DEF Ingest
  <1>2. boot = "up" /\ req[p].pc = "run" /\ UNCHANGED <<receipt, boot, todo, crashes>> /\ IngestionTypeOK
    BY BusyMeansUp DEF Ingest, IngestionInv
  <1>3. failedWrites' \in Nat
    BY <1>2, FaultCounts DEF Ingest
  <1>4. Steady
    BY <1>2 DEF Steady
  <1>5. CASE records' = records /\ Goto(p, "fail")
    <2>1. /\ RequestsOK(req') /\ \A q \in Slots : q # p => req'[q] = req[q]
          /\ req'[p].pc \in {"fail", "idle"}
      BY <1>2, <1>5, RequestMoves
    <2>2. WorkIsStored'
      BY <1>5, <2>1 DEF WorkIsStored, IngestionInv
    <2> QED BY <1>2, <1>3, <1>4, <1>5, <2>1, <2>2, ServingKeeps DEF IngestionInv, IngestionTypeOK, CompletedIsStored
  <1>6. CASE mayAppend(in) /\ records' = [records EXCEPT ![RecordOf[in]] = in] /\ Goto(p, "complete")
    <2>1. /\ RequestsOK(req') /\ \A q \in Slots : q # p => req'[q] = req[q]
          /\ req'[p].pc \in {"complete", "idle"} /\ (req'[p].pc # "idle" => req'[p].input = in)
      BY <1>1, <1>2, <1>6, RequestMoves
    <2>2. PICK r \in RecordIds : r = RecordOf[in]
      BY IngestionAssumption
    <2>3. records[r] = None
      BY <1>6, <2>2 DEF mayAppend
    <2>4. /\ records' \in [RecordIds -> Inputs \cup {None}]
          /\ \A x \in RecordIds : records'[x] = IF x = r THEN in ELSE records[x]
      BY <1>2, <1>6, <2>2 DEF IngestionTypeOK
    <2>5. \A x \in RecordIds : records[x] # None => records'[x] = records[x]
      BY <2>3, <2>4
    <2>6. \A x \in RecordIds : records'[x] # None => RecordOf[records'[x]] = x
      BY <1>2, <2>2, <2>4 DEF IngestionTypeOK
    <2>7. ASSUME NEW k \in IdempotencyKeys, receipt'[k].status = "completed"
          PROVE  /\ records'[RecordOf[receipt'[k].input]] # None
                 /\ receipt'[k].record = records'[RecordOf[receipt'[k].input]]
      <3>1. RecordOf[receipt[k].input] \in RecordIds
        BY <1>2, <2>7, IngestionAssumption DEF IngestionTypeOK
      <3> QED BY <1>2, <2>5, <2>7, <3>1 DEF IngestionInv, CompletedIsStored
    <2>8. ASSUME NEW q \in Slots, req'[q].pc = "complete"
          PROVE  records'[RecordOf[req'[q].input]] = req'[q].input
      <3>1. CASE q = p
        BY <2>1, <2>2, <2>4, <2>8, <3>1
      <3>2. CASE q # p
        <4>1. req'[q] = req[q] /\ req[q].input \in Inputs /\ req[q].input # None
          BY <1>2, <2>1, <2>8, <3>2, RecordFacts DEF IngestionTypeOK
        <4>2. records[RecordOf[req[q].input]] = req[q].input /\ RecordOf[req[q].input] \in RecordIds
          BY <1>2, <2>8, <4>1, RecordFacts DEF IngestionInv, WorkIsStored
        <4> QED BY <2>5, <4>1, <4>2
      <3> QED BY <3>1, <3>2
    <2>9. CompletedIsStored' /\ WorkIsStored'
      BY <2>7, <2>8 DEF CompletedIsStored, WorkIsStored
    <2> QED BY <1>2, <1>3, <1>4, <2>1, <2>4, <2>6, <2>9, ServingKeeps DEF IngestionTypeOK
  <1> QED BY <1>1, <1>5, <1>6 DEF Ingest


LEMMA CompletionKeeps ==
  ASSUME IngestionInv, NEW p \in Slots, Complete(p)
  PROVE  IngestionInv' /\ Steady
  <1>1. PICK k \in IdempotencyKeys, in \in Inputs : k = req[p].key /\ in = req[p].input
    BY BusyMeansUp DEF Complete
  <1>2. boot = "up" /\ req[p].pc = "complete" /\ UNCHANGED <<records, boot, todo, crashes>> /\ IngestionTypeOK
    BY BusyMeansUp DEF Complete, IngestionInv
  <1>3. Goto(p, "fail") \/ Answer(p)
    BY DEF Complete
  <1>4. /\ RequestsOK(req') /\ \A q \in Slots : q # p => req'[q] = req[q]
        /\ req'[p].pc \in {"fail", "idle"}
    BY <1>2, <1>3, RequestMoves
  <1>5. failedWrites' \in Nat
    BY <1>2, FaultCounts DEF Complete
  <1>6. WorkIsStored'
    BY <1>2, <1>4 DEF WorkIsStored, IngestionInv
  <1>7. CASE receipt' = receipt
    BY <1>2, <1>4, <1>5, <1>6, <1>7, ServingKeeps DEF IngestionInv, IngestionTypeOK, CompletedIsStored, Steady
  <1>8. CASE receipt' # receipt
    <2>1. mayComplete(k, in) /\ receipt' = Completed(k, in)
      BY <1>1, <1>8 DEF Complete
    <2>2. PICK s : s = [receipt[k] EXCEPT !.status = "completed", !.record = in, !.leaseLive = FALSE]
      OBVIOUS
    <2>3. receipt' = [receipt EXCEPT ![k] = s]
      BY <2>1, <2>2 DEF Completed
    <2>4. receipt[k].status = "pending" /\ records[RecordOf[receipt[k].input]] = in
      BY <1>1, <1>2, <2>1 DEF mayComplete, IngestionInv, WorkIsStored
    <2>5. ReceiptMove(receipt[k], s)
      BY <1>2, <2>2, <2>4, CompletedMove
    <2> QED BY <1>2, <1>4, <1>5, <1>6, <2>3, <2>5, MoveKeeps, MoveIsSteady, ServingKeeps DEF IngestionInv, IngestionTypeOK
  <1> QED BY <1>7, <1>8

(* Marking a receipt failed is a move of a pending one, or nothing.            *)
LEMMA MarkFailedMoves ==
  ASSUME IngestionTypeOK, NEW k \in IdempotencyKeys, receipt' = MarkFailed(k), receipt' # receipt
  PROVE  /\ receipt[k].status = "pending"
         /\ \E s : ReceiptMove(receipt[k], s) /\ s.status = "failed" /\ receipt' = [receipt EXCEPT ![k] = s]
  <1>1. receipt[k].status = "pending"
    BY DEF MarkFailed
  <1>2. PICK s : s = [receipt[k] EXCEPT !.status = "failed", !.leaseLive = FALSE]
    OBVIOUS
  <1>3. receipt' = [receipt EXCEPT ![k] = s]
    BY <1>1, <1>2 DEF MarkFailed
  <1> QED BY <1>1, <1>2, <1>3, FailedMove

LEMMA FailKeeps ==
  ASSUME IngestionInv, NEW p \in Slots, Fail(p)
  PROVE  IngestionInv' /\ Steady
  <1>1. PICK k \in IdempotencyKeys : k = req[p].key
    BY BusyMeansUp DEF Fail
  <1>2. boot = "up" /\ req[p].pc = "fail" /\ UNCHANGED <<records, boot, todo, crashes>> /\ IngestionTypeOK
    BY BusyMeansUp DEF Fail, IngestionInv
  <1>3. /\ RequestsOK(req') /\ \A q \in Slots : q # p => req'[q] = req[q]
        /\ req'[p].pc \in {"fail", "idle"}
    BY <1>2, RequestMoves DEF Fail
  <1>4. failedWrites' \in Nat
    BY <1>2, FaultCounts DEF Fail
  <1>5. WorkIsStored'
    BY <1>2, <1>3 DEF WorkIsStored, IngestionInv
  <1>6. CASE receipt' = receipt
    BY <1>2, <1>3, <1>4, <1>5, <1>6, ServingKeeps DEF IngestionInv, IngestionTypeOK, CompletedIsStored, Steady
  <1>7. CASE receipt' # receipt
    <2>1. PICK s : ReceiptMove(receipt[k], s) /\ receipt' = [receipt EXCEPT ![k] = s]
      BY <1>1, <1>2, <1>7, MarkFailedMoves DEF Fail
    <2> QED BY <1>2, <1>3, <1>4, <1>5, <2>1, MoveKeeps, MoveIsSteady, ServingKeeps DEF IngestionInv, IngestionTypeOK
  <1> QED BY <1>6, <1>7

LEMMA ReceiveKeeps ==
  ASSUME IngestionInv, NEW p \in Slots, NEW k \in IdempotencyKeys, NEW in \in Inputs,
         NEW bodyKey, NEW transported, Receive(p, k, in, bodyKey, transported)
  PROVE  IngestionInv' /\ Steady
  <1>1. PICK r : r = [IdleReq EXCEPT !.pc = "begin", !.key = k, !.input = in]
    OBVIOUS
  <1>2. r \in Request /\ r.pc = "begin" /\ r.key = k /\ r.input = in
    BY <1>1 DEF IdleReq, Request
  <1>3. /\ boot = "up" /\ req' = [req EXCEPT ![p] = r] /\ IngestionTypeOK
        /\ UNCHANGED <<receipt, records, boot, todo, crashes, failedWrites>>
    BY <1>1 DEF Receive, IngestionInv
  <1>4. RequestsOK(req') /\ \A q \in Slots : req'[q] = IF q = p THEN r ELSE req[q]
    BY <1>2, <1>3 DEF RequestsOK, IngestionTypeOK
  <1>5. WorkIsStored'
    BY <1>2, <1>3, <1>4 DEF WorkIsStored, IngestionInv
  <1>6. Steady
    BY <1>3 DEF Steady
  <1> QED BY <1>3, <1>4, <1>5, <1>6, ServingKeeps DEF IngestionInv, IngestionTypeOK, CompletedIsStored

LEMMA LeaseExpiresKeeps ==
  ASSUME IngestionInv, NEW k \in IdempotencyKeys, LeaseExpires(k)
  PROVE  IngestionInv' /\ Steady
  <1>1. /\ receipt[k].status = "pending" /\ UNCHANGED <<records, boot, todo, crashes, failedWrites>>
        /\ IngestionTypeOK /\ CompletedIsStored /\ WorkIsStored /\ StartupInv
    BY DEF LeaseExpires, IngestionInv
  <1>2. PICK s : s = [receipt[k] EXCEPT !.leaseLive = FALSE]
    OBVIOUS
  <1>3. receipt' = [receipt EXCEPT ![k] = s]
    BY <1>2 DEF LeaseExpires
  <1>4. ReceiptMove(receipt[k], s) /\ s.status = "pending" /\ s.input = receipt[k].input
    BY <1>1, <1>2, ExpiredMove DEF ReceiptMove
  <1>5. \A x \in IdempotencyKeys : receipt'[x].status = receipt[x].status
                                   /\ (receipt[x].status # "none" => receipt'[x].input = receipt[x].input)
    BY <1>1, <1>3, <1>4 DEF IngestionTypeOK
  <1>6. ASSUME NEW p \in Slots
        PROVE  /\ req'[p] \in Request /\ req'[p].pc = req[p].pc
               /\ req'[p].key = req[p].key /\ req'[p].input = req[p].input
    <2>1. PICK e \in BOOLEAN : e = (req[p].early \/ (req[p].pc = "begin" /\ req[p].key = k))
      BY <1>1 DEF IngestionTypeOK, Request
    <2>2. req'[p] = [req[p] EXCEPT !.early = e] /\ req[p] \in Request
      BY <1>1, <2>1 DEF LeaseExpires, IngestionTypeOK
    <2> QED BY <2>2 DEF Request
  <1>7. RequestsOK(req')
    <2>1. req' = [p \in Slots |-> req'[p]]
      BY DEF LeaseExpires
    <2>2. req' \in [Slots -> Request]
      BY <1>6, <2>1
    <2> QED BY <1>1, <1>6, <2>2 DEF RequestsOK, IngestionTypeOK
  <1>8. /\ receipt' \in [IdempotencyKeys -> Receipt] /\ CompletedIsStored'
        /\ \A x \in IdempotencyKeys : receipt'[x].status # "none" => receipt'[x].input \in Inputs
    BY <1>1, <1>3, <1>4, MoveKeeps
  <1>9. IngestionTypeOK'
    BY <1>1, <1>7, <1>8 DEF IngestionTypeOK, RequestsOK
  <1>10. WorkIsStored'
    BY <1>1, <1>6 DEF WorkIsStored
  <1>11. StartupInv'
    BY <1>1, <1>5, <1>6 DEF StartupInv, Done, IngestionTypeOK
  <1> QED BY <1>1, <1>3, <1>4, <1>8, <1>9, <1>10, <1>11, MoveIsSteady DEF IngestionInv

(* The start-up: what is left of the two loops.                                *)
LEMMA CrashKeepsReceipts ==
  ASSUME IngestionInv, Crash
  PROVE  IngestionInv' /\ Steady
  <1>1. IdleReq \in Request /\ IdleReq.pc = "idle"
    BY DEF IdleReq, Request
  <1>2. RequestsOK(req') /\ \A p \in Slots : req'[p].pc = "idle"
    BY <1>1 DEF Crash, RequestsOK
  <1>3. /\ UNCHANGED <<receipt, records, failedWrites>> /\ boot' = "recover" /\ crashes' = crashes + 1
        /\ todo' = Pending /\ IngestionTypeOK /\ CompletedIsStored
    BY DEF Crash, IngestionInv
  <1>4. crashes' \in Nat /\ todo' \subseteq IdempotencyKeys
    BY <1>3 DEF IngestionTypeOK, Pending
  <1>5. IngestionTypeOK'
    BY <1>2, <1>3, <1>4 DEF IngestionTypeOK, RequestsOK
  <1>6. WorkIsStored' /\ CompletedIsStored' /\ Steady
    BY <1>2, <1>3 DEF WorkIsStored, CompletedIsStored, Steady
  <1>7. StartupInv'
    BY <1>2, <1>3 DEF StartupInv, Pending
  <1> QED BY <1>5, <1>6, <1>7 DEF IngestionInv

LEMMA StartupKeeps ==
  ASSUME IngestionInv, StartupStep
  PROVE  IngestionInv' /\ Steady
  <1>0. /\ UNCHANGED <<records, req, crashes>> /\ boot # "up"
        /\ IngestionTypeOK /\ CompletedIsStored /\ WorkIsStored /\ StartupInv
    BY DEF StartupStep, RecoveryEnds, StartupEnds, RecoverOne, ExpireOne, IngestionInv
  <1>1. WorkIsStored'
    BY <1>0 DEF WorkIsStored
  <1>2. CASE RecoveryEnds \/ StartupEnds
    <2>1. UNCHANGED <<receipt, failedWrites>> /\ boot' \in {"up", "expire"} /\ todo' \subseteq IdempotencyKeys
      BY <1>0, <1>2 DEF RecoveryEnds, StartupEnds, Pending, IngestionTypeOK
    <2>2. IngestionTypeOK' /\ CompletedIsStored' /\ Steady
      BY <1>0, <2>1 DEF IngestionTypeOK, CompletedIsStored, Steady
    <2>3. StartupInv'
      BY <1>0, <1>2, <2>1 DEF StartupInv, Done, RecoveryEnds, StartupEnds
    <2> QED BY <1>1, <2>2, <2>3 DEF IngestionInv
  <1>3. ASSUME NEW k \in todo, RecoverOne(k) \/ ExpireOne(k) PROVE IngestionInv' /\ Steady
    <2>0. k \in IdempotencyKeys /\ todo' = todo \ {k} /\ boot' = boot
      BY <1>0, <1>3 DEF IngestionTypeOK, RecoverOne, ExpireOne
    <2>1. failedWrites' \in Nat
      BY <1>0, <1>3, FaultCounts DEF RecoverOne, ExpireOne
    <2>2. CASE receipt' = receipt
      <3>1. IngestionTypeOK' /\ CompletedIsStored' /\ Steady
        BY <1>0, <2>0, <2>1, <2>2 DEF IngestionTypeOK, CompletedIsStored, Steady
      <3>2. boot = "recover" => ~Done(k)
        <4>1. ASSUME boot = "recover" PROVE receipt[k].status = "pending" /\ receipt[k].input \in Inputs
          BY <1>0, <2>0, <4>1 DEF StartupInv, IngestionTypeOK
        <4>2. ASSUME boot = "recover", NEW in \in Inputs \cup {None} PROVE receipt # Completed(k, in)
          <5>1. Completed(k, in)[k].status = "completed"
            BY <1>0, <2>0 DEF Completed, IngestionTypeOK, Receipt
          <5> QED BY <4>1, <4>2, <5>1
        <4>3. ASSUME boot = "recover" PROVE receipt # MarkFailed(k)
          <5>1. MarkFailed(k)[k].status = "failed"
            BY <1>0, <2>0, <4>1, <4>3 DEF MarkFailed, IngestionTypeOK, Receipt
          <5> QED BY <4>1, <4>3, <5>1
        <4> QED BY <1>0, <1>3, <2>2, <4>1, <4>2, <4>3, RecordFacts DEF RecoverOne, ExpireOne, recoverable, Done
      <3>3. StartupInv'
        BY <1>0, <2>0, <2>2, <3>2 DEF StartupInv, Done
      <3> QED BY <1>1, <3>1, <3>3 DEF IngestionInv
    <2>3. CASE receipt' # receipt
      <3>1. PICK s : /\ ReceiptMove(receipt[k], s) /\ s.status \in {"completed", "failed"}
                     /\ receipt' = [receipt EXCEPT ![k] = s]
        <4>1. CASE receipt' = MarkFailed(k)
          BY <1>0, <2>0, <2>3, <4>1, MarkFailedMoves
        <4>2. CASE boot = "recover" /\ recoverable(k) /\ receipt' = Completed(k, records[RecordOf[receipt[k].input]])
          <5>1. receipt[k].status = "pending" /\ receipt[k].input \in Inputs
            BY <1>0, <1>3, <2>0, <4>2 DEF StartupInv, IngestionTypeOK
          <5>2. PICK in \in Inputs : in = records[RecordOf[receipt[k].input]]
            BY <1>0, <4>2, <5>1, RecordFacts DEF recoverable
          <5>3. PICK s : s = [receipt[k] EXCEPT !.status = "completed", !.record = in, !.leaseLive = FALSE]
            OBVIOUS
          <5>4. receipt' = [receipt EXCEPT ![k] = s]
            BY <4>2, <5>2, <5>3 DEF Completed
          <5> QED BY <1>0, <2>0, <5>1, <5>2, <5>3, <5>4, CompletedMove
        <4> QED BY <1>3, <2>3, <4>1, <4>2 DEF RecoverOne, ExpireOne
      <3>2. /\ receipt' \in [IdempotencyKeys -> Receipt] /\ CompletedIsStored' /\ Steady
            /\ \A x \in IdempotencyKeys : receipt'[x].status # "none" => receipt'[x].input \in Inputs
        BY <1>0, <2>0, <3>1, MoveKeeps, MoveIsSteady
      <3>3. IngestionTypeOK'
        BY <1>0, <2>0, <2>1, <3>2 DEF IngestionTypeOK
      <3>4. \A x \in IdempotencyKeys : receipt'[x] = IF x = k THEN s ELSE receipt[x]
        BY <1>0, <2>0, <3>1 DEF IngestionTypeOK
      <3>5. StartupInv'
        BY <1>0, <2>0, <3>1, <3>4 DEF StartupInv, Done, IngestionTypeOK
      <3> QED BY <1>1, <3>2, <3>3, <3>5 DEF IngestionInv
    <2> QED BY <2>2, <2>3
  <1> QED BY <1>2, <1>3 DEF StartupStep

LEMMA IngestionStarts ==
  ASSUME IngestionInit
  PROVE  IngestionInv
  <1>1. NoReceipt \in Receipt /\ NoReceipt.status = "none" /\ IdleReq \in Request /\ IdleReq.pc = "idle"
    BY DEF NoReceipt, Receipt, IdleReq, Request
  <1>2. IngestionTypeOK
    BY <1>1 DEF IngestionInit, IngestionTypeOK
  <1> QED BY <1>1, <1>2 DEF IngestionInit, IngestionInv, CompletedIsStored, WorkIsStored, StartupInv

LEMMA IngestionStep ==
  ASSUME IngestionInv, [IngestionNext]_ingestionVars
  PROVE  IngestionInv' /\ Steady
  <1>1. CASE UNCHANGED ingestionVars
    BY <1>1 DEF ingestionVars, IngestionInv, IngestionTypeOK, CompletedIsStored, WorkIsStored, StartupInv, Done, Steady
  <1> QED BY <1>1, BeginKeeps, IngestKeeps, CompletionKeeps, FailKeeps, ReceiveKeeps, LeaseExpiresKeeps,
             CrashKeepsReceipts, StartupKeeps
          DEF IngestionNext, RequestStep, Submission

(* However requests under the same keys overlap, whatever is lost to failed    *)
(* writes and crashes, and whatever start-up repairs: a completed receipt      *)
(* replays the stored record and never changes, a key keeps its payload, and   *)
(* the Kernel serves again only when no finished work is left pending          *)
(* (json-hermes-ingestion-receipt-repository.ts, the ingestion service, the    *)
(* recovery coordinator and the start-up reconciler).                          *)
THEOREM ReceiptsStaySafe == IngestionSpec => ReceiptsAreSafe
  <1>1. IngestionInit => IngestionInv
    BY IngestionStarts
  <1>2. IngestionInv /\ [IngestionNext]_ingestionVars => IngestionInv'
    BY IngestionStep
  <1>3. IngestionInv => IngestionTypeOK /\ CompletedIsStored
    BY DEF IngestionInv
  <1>4. IngestionInv /\ [IngestionNext]_ingestionVars =>
          [\A k \in IdempotencyKeys : receipt[k].status = "completed" => receipt'[k] = receipt[k]]_ingestionVars
    BY IngestionStep DEF Steady
  <1>5. IngestionInv /\ [IngestionNext]_ingestionVars =>
          [\A k \in IdempotencyKeys : receipt[k].status # "none" => receipt'[k].input = receipt[k].input]_ingestionVars
    BY IngestionStep DEF Steady
  <1>6. IngestionInv /\ [IngestionNext]_ingestionVars =>
          [boot # "up" /\ boot' = "up" =>
             \A k \in Pending : records[RecordOf[receipt[k].input]] = None]_ingestionVars
    <2>1. ASSUME IngestionInv, IngestionNext, boot # "up", boot' = "up"
          PROVE  \A k \in Pending : records[RecordOf[receipt[k].input]] = None
      <3>1. boot = "expire"
        BY <2>1 DEF IngestionNext, RequestStep, Submission, StartupStep, Receive, Begin, Ingest, Complete, Fail,
                    LeaseExpires, Crash, RecoverOne, ExpireOne, RecoveryEnds, StartupEnds
      <3> QED BY <2>1, <3>1 DEF IngestionInv, StartupInv, Done, Pending
    <2> QED BY <2>1
  <1> QED BY <1>1, <1>2, <1>3, <1>4, <1>5, <1>6, PTL
          DEF IngestionSpec, ReceiptsAreSafe, CompletedIsFinal, RecoveredBeforeServing, KeyKeepsItsInput

-----------------------------------------------------------------------------
(* The queries of a Goal. The plan keeps the first MaxQueries distinct         *)
(* queries; a query survives when it stands at one of the first MaxQueries     *)
(* places before duplicates go, and each constraint has one that does.         *)

LEMMA LeastPlace ==
  ASSUME NEW S, S \subseteq Nat, S # {}
  PROVE  \E x \in S : \A y \in S : x <= y
  <1> DEFINE R == OpToRel(<, Nat)
  <1>1. PICK x \in S : \A y \in S : ~(<<y, x>> \in R)
    BY NatLessThanWellFounded, WFMin
  <1>2. \A y \in S : y < x => <<y, x>> \in R
    BY DEF OpToRel
  <1>3. \A y \in S : ~(y < x)
    BY <1>1, <1>2
  <1> QED BY <1>3

(* What occurs at a place of a list occurs for the first time no later.       *)
LEMMA FirstPlace ==
  ASSUME NEW S, NEW qs \in Seq(S), NEW i \in 1..Len(qs)
  PROVE  \E p \in firstPlaces(qs) : p <= i /\ qs[p] = qs[i]
  <1> DEFINE same == {j \in 1..i : qs[j] = qs[i]}
  <1>1. same \subseteq Nat /\ same # {}
    OBVIOUS
  <1>2. PICK p \in same : \A j \in same : p <= j
    BY <1>1, LeastPlace
  <1>3. \A j \in 1..p - 1 : qs[j] # qs[p]
    BY <1>2
  <1>4. p \in DOMAIN qs
    BY <1>2
  <1> QED BY <1>2, <1>3, <1>4 DEF firstPlaces

(* The k-th place is where it should be: after k - 1 others.                  *)
LEMMA PlaceFound ==
  ASSUME NEW S, NEW qs \in Seq(S), NEW p \in firstPlaces(qs)
  PROVE  LET k == Cardinality(firstPlaces(qs) \cap 1..p) IN
         /\ k \in 1..p /\ k <= Cardinality(firstPlaces(qs))
         /\ Cardinality(firstPlaces(qs)) \in Nat
         /\ placeOf(qs, k) = p
  <1> DEFINE F == firstPlaces(qs)
             upTo(i) == F \cap 1..i
             k == Cardinality(upTo(p))
  <1>1. F \subseteq 1..Len(qs) /\ p \in Nat \ {0} /\ p \in upTo(p)
    BY DEF firstPlaces
  <1>2. IsFiniteSet(F) /\ Cardinality(F) \in Nat
    <2>1. IsFiniteSet(1..Len(qs))
      BY FS_Interval
    <2> QED BY <1>1, <2>1, FS_Subset, FS_CardinalityType
  <1>3. \A i : IsFiniteSet(upTo(i)) /\ Cardinality(upTo(i)) \in Nat /\ Cardinality(upTo(i)) <= Cardinality(F)
    BY <1>2, FS_Subset, FS_CardinalityType
  <1>4. k <= p
    <2>1. IsFiniteSet(1..p) /\ Cardinality(1..p) = p
      BY <1>1, FS_Interval
    <2>2. upTo(p) \in SUBSET (1..p)
      OBVIOUS
    <2> QED BY <2>1, <2>2, FS_Subset
  <1>5. k # 0
    BY <1>1, <1>3, FS_EmptySet
  <1>6. ASSUME NEW i \in F, NEW j \in F, Cardinality(upTo(i)) = Cardinality(upTo(j)), i < j
        PROVE  FALSE
    <2>1. upTo(i) \in SUBSET upTo(j) /\ j \in upTo(j) /\ j \notin upTo(i)
      BY <1>1, <1>6
    <2> QED BY <1>3, <1>6, <2>1, FS_Subset
  <1>7. \A i \in F : Cardinality(upTo(i)) = k => i = p
    <2> SUFFICES ASSUME NEW i \in F, Cardinality(upTo(i)) = k PROVE i = p
      OBVIOUS
    <2>1. i \in Nat /\ p \in F
      BY <1>1
    <2>2. ~(i < p) /\ ~(p < i)
      BY <1>6, <2>1
    <2> QED BY <1>1, <2>1, <2>2
  <1>8. placeOf(qs, k) = p
    <2> HIDE DEF k
    <2>1. p \in F /\ Cardinality(F \cap 1..p) = k
      BY DEF k
    <2>2. \A i \in F : Cardinality(F \cap 1..i) = k => i = p
      BY <1>7
    <2> QED BY <2>1, <2>2 DEF placeOf
  <1>9. k \in Nat /\ k <= Cardinality(F)
    BY <1>3
  <1>10. k \in 1..p
    <2> HIDE DEF k
    <2> QED BY <1>1, <1>4, <1>5, <1>9
  <1> QED BY <1>2, <1>8, <1>9, <1>10

(* All the queries of a plan, before duplicates go. *)
AllQueries(t) == hoursQueries(t) \o salaryQueries(t) \o modalityQueries(t) \o contractQueries(t)

(* A query at one of the first MaxQueries places is in the plan.              *)
LEMMA EarlyQueryStays ==
  ASSUME NEW t, NEW S, AllQueries(t) \in Seq(S), MaxQueries \in Nat,
         NEW i \in 1..Len(AllQueries(t)), i <= MaxQueries
  PROVE  AllQueries(t)[i] \in ToSet(createQueries(t))
  <1> DEFINE all == AllQueries(t)
             distinct == Cardinality(firstPlaces(all))
             limit == IF distinct < MaxQueries THEN distinct ELSE MaxQueries
  <1>1. createQueries(t) = [k \in 1..limit |-> all[placeOf(all, k)]]
    BY DEF createQueries, AllQueries
  <1> HIDE DEF all
  <1>0. all \in Seq(S) /\ i \in 1..Len(all)
    BY DEF all
  <1>2. PICK p \in firstPlaces(all) : p <= i /\ all[p] = all[i]
    BY <1>0, FirstPlace
  <1> DEFINE k == Cardinality(firstPlaces(all) \cap 1..p)
  <1>3. p \in Nat
    BY <1>0 DEF firstPlaces
  <1>4. k \in 1..p /\ k <= distinct /\ distinct \in Nat /\ placeOf(all, k) = p
    BY <1>0, PlaceFound
  <1> HIDE DEF k, distinct
  <1>5. k \in 1..limit
    BY <1>0, <1>2, <1>3, <1>4
  <1>6. createQueries(t)[k] = all[i] /\ k \in DOMAIN createQueries(t)
    BY <1>1, <1>2, <1>4, <1>5
  <1> QED BY <1>6 DEF ToSet, all

(* How many queries each constraint takes. *)
Words(t) ==
  {"base", hours(t) \o "h", hours(t) \o "hrs", "media jornada", "jornada parcial", "medio tiempo",
   "600 al mes", "600 mensual", "600 EUR mensual", "600 por semana", "600 semanal",
   "600 EUR semanal", "600 por hora", "600 euros por hora", "600 EUR horario", "600EURsign",
   "600 EUR", "600 euros", "remote", "remoto", "trabajo desde casa", "part-time",
   "tiempo parcial", "full-time", "tiempo completo", "freelance", "autonomo", contractType(t)}

(* A list of at most n queries. *)
Short(q, W, n) == q \in Seq(W) /\ Len(q) \in 0..n

LEMMA ShortLists ==
  ASSUME NEW W
  PROVE  /\ Short(<<>>, W, 0)
         /\ \A a \in W : Short(<<a>>, W, 1)
         /\ \A a, b \in W : Short(<<a, b>>, W, 2)
         /\ \A a, b, c \in W : Short(<<a, b, c>>, W, 3)
         /\ \A q : Short(q, W, 0) \/ Short(q, W, 1) \/ Short(q, W, 2) => Short(q, W, 3)
         /\ \A q : Short(q, W, 3) => Short(q, W, 6)
         /\ \A q, r : Short(q, W, 3) /\ Short(r, W, 3) => Short(q \o r, W, 6)
  <1>1. Short(<<>>, W, 0)
    BY DEF Short
  <1>2. \A a \in W : Short(<<a>>, W, 1)
    BY DEF Short
  <1>3. \A a, b \in W : Short(<<a, b>>, W, 2)
    BY DEF Short
  <1>4. \A a, b, c \in W : Short(<<a, b, c>>, W, 3)
    BY DEF Short
  <1>5. \A q : Short(q, W, 0) \/ Short(q, W, 1) \/ Short(q, W, 2) => Short(q, W, 3)
    BY DEF Short
  <1>6. \A q : Short(q, W, 3) => Short(q, W, 6)
    BY DEF Short
  <1>7. ASSUME NEW q, NEW r, Short(q, W, 3), Short(r, W, 3) PROVE Short(q \o r, W, 6)
    <2>1. q \o r \in Seq(W) /\ Len(q \o r) = Len(q) + Len(r)
      BY <1>7, ConcatProperties DEF Short
    <2>2. Len(q) \in 0..3 /\ Len(r) \in 0..3
      BY <1>7 DEF Short
    <2>3. \A i, j \in 0..3 : i + j \in 0..6
      OBVIOUS
    <2>4. Len(q \o r) \in 0..6
      BY <2>1, <2>2, <2>3
    <2> QED BY <2>1, <2>4 DEF Short
  <1> QED BY <1>1, <1>2, <1>3, <1>4, <1>5, <1>6, <1>7

LEMMA ListLengths ==
  ASSUME NEW t
  PROVE  /\ Short(hoursQueries(t), Words(t), 6) /\ Short(salaryQueries(t), Words(t), 6)
         /\ Short(modalityQueries(t), Words(t), 3) /\ Short(contractQueries(t), Words(t), 3)
  <1> DEFINE W == Words(t)
  <1>1. /\ "base" \in W /\ hours(t) \o "h" \in W /\ hours(t) \o "hrs" \in W
        /\ {"media jornada", "jornada parcial", "medio tiempo"} \subseteq W
        /\ {"600 al mes", "600 mensual", "600 EUR mensual"} \subseteq W
        /\ {"600 por semana", "600 semanal", "600 EUR semanal"} \subseteq W
        /\ {"600 por hora", "600 euros por hora", "600 EUR horario"} \subseteq W
        /\ {"600EURsign", "600 EUR", "600 euros"} \subseteq W
        /\ {"remote", "remoto", "trabajo desde casa"} \subseteq W
        /\ {"part-time", "tiempo parcial", "full-time", "tiempo completo"} \subseteq W
        /\ {"freelance", "autonomo", contractType(t)} \subseteq W
    BY DEF Words
  <1> HIDE DEF W
  <1>2. Short(hoursQueries(t), W, 6)
    <2> DEFINE base == <<"base", hours(t) \o "h", hours(t) \o "hrs">>
               more == IF hours(t) = "20" THEN halfDayQueries ELSE <<>>
    <2>1. Short(base, W, 3)
      BY <1>1, ShortLists
    <2>2. Short(halfDayQueries, W, 3) /\ Short(<<>>, W, 3)
      BY <1>1, ShortLists DEF halfDayQueries
    <2>3. Short(more, W, 3)
      BY <2>2
    <2>4. hoursQueries(t) \in {base \o more, halfDayQueries, <<>>}
      BY DEF hoursQueries
    <2> HIDE DEF base, more
    <2> QED BY <2>1, <2>2, <2>3, <2>4, ShortLists
  <1>3. Short(salaryQueries(t), W, 6)
    <2> DEFINE often == CASE frequency(t) = "monthly" -> <<"600 al mes", "600 mensual", "600 EUR mensual">>
                          [] frequency(t) = "weekly" -> <<"600 por semana", "600 semanal", "600 EUR semanal">>
                          [] frequency(t) = "hourly" -> <<"600 por hora", "600 euros por hora", "600 EUR horario">>
                          [] OTHER -> <<>>
               base == <<"600EURsign", "600 EUR", "600 euros">>
    <2>1. Short(base, W, 3) /\ Short(<<>>, W, 3)
      BY <1>1, ShortLists
    <2>2. /\ Short(<<"600 al mes", "600 mensual", "600 EUR mensual">>, W, 3)
          /\ Short(<<"600 por semana", "600 semanal", "600 EUR semanal">>, W, 3)
          /\ Short(<<"600 por hora", "600 euros por hora", "600 EUR horario">>, W, 3)
      BY <1>1, ShortLists
    <2>3. Short(often, W, 3)
      BY <2>1, <2>2
    <2>4. salaryQueries(t) \in {<<>>, often \o base}
      BY DEF salaryQueries
    <2> HIDE DEF often, base
    <2> QED BY <2>1, <2>3, <2>4, ShortLists
  <1>4. Short(modalityQueries(t), W, 3)
    BY <1>1, ShortLists DEF modalityQueries
  <1>5. Short(contractQueries(t), W, 3)
    <2>1. /\ Short(<<"part-time", "tiempo parcial", "medio tiempo">>, W, 3)
          /\ Short(<<"full-time", "tiempo completo">>, W, 3)
          /\ Short(<<"freelance", "freelance", "autonomo">>, W, 3)
          /\ Short(<<contractType(t)>>, W, 3) /\ Short(<<>>, W, 3)
      BY <1>1, ShortLists
    <2> QED BY <2>1 DEF contractQueries
  <1> QED BY <1>2, <1>3, <1>4, <1>5 DEF W

(* Each constraint that has queries has its first one among the first 16.     *)
LEMMA EachAsked ==
  ASSUME NEW t, MaxQueries \in Nat, MaxQueries >= 16,
         NEW qs \in {hoursQueries(t), salaryQueries(t), modalityQueries(t), contractQueries(t)},
         qs # <<>>
  PROVE  ToSet(qs) \cap ToSet(createQueries(t)) # {}
  <1> DEFINE W == Words(t)
             h == hoursQueries(t)
             s == salaryQueries(t)
             m == modalityQueries(t)
             c == contractQueries(t)
  <1>1. /\ h \in Seq(W) /\ Len(h) \in 0..6
        /\ s \in Seq(W) /\ Len(s) \in 0..6
        /\ m \in Seq(W) /\ Len(m) \in 0..3
        /\ c \in Seq(W) /\ Len(c) \in 0..3
    BY ListLengths DEF Short
  <1> HIDE DEF W, h, s, m, c
  <1>2. /\ h \o s \in Seq(W) /\ Len(h \o s) = Len(h) + Len(s)
        /\ \A i \in 1..Len(h) : (h \o s)[i] = h[i]
        /\ \A i \in 1..Len(s) : (h \o s)[Len(h) + i] = s[i]
    BY <1>1
  <1>3. /\ h \o s \o m \in Seq(W) /\ Len(h \o s \o m) = Len(h) + Len(s) + Len(m)
        /\ \A i \in 1..Len(h) : (h \o s \o m)[i] = h[i]
        /\ \A i \in 1..Len(s) : (h \o s \o m)[Len(h) + i] = s[i]
        /\ \A i \in 1..Len(m) : (h \o s \o m)[Len(h) + Len(s) + i] = m[i]
    <2> DEFINE q == h \o s
    <2> HIDE DEF q
    <2>0. q \in Seq(W) /\ Len(q) = Len(h) + Len(s)
      BY <1>2 DEF q
    <2>1. q \o m \in Seq(W) /\ Len(q \o m) = Len(q) + Len(m)
      BY <1>1, <2>0, ConcatProperties
    <2>2. \A i \in 1..Len(q) : (q \o m)[i] = q[i]
      BY <1>1, <2>0
    <2>3. \A i \in 1..Len(m) : (q \o m)[Len(q) + i] = m[i]
      BY <1>1, <2>0
    <2>4. \A i \in 1..Len(h) : i \in 1..Len(q)
      BY <1>1, <2>0
    <2>5. \A i \in 1..Len(s) : Len(h) + i \in 1..Len(q)
      BY <1>1, <2>0
    <2> QED BY <1>2, <2>0, <2>1, <2>2, <2>3, <2>4, <2>5 DEF q
  <1> DEFINE all == h \o s \o m \o c
  <1>4. /\ all \in Seq(W) /\ Len(all) = Len(h) + Len(s) + Len(m) + Len(c)
        /\ \A i \in 1..Len(h) : all[i] = h[i]
        /\ \A i \in 1..Len(s) : all[Len(h) + i] = s[i]
        /\ \A i \in 1..Len(m) : all[Len(h) + Len(s) + i] = m[i]
        /\ \A i \in 1..Len(c) : all[Len(h) + Len(s) + Len(m) + i] = c[i]
    <2> DEFINE q == h \o s \o m
    <2> HIDE DEF q
    <2>0. q \in Seq(W) /\ Len(q) = Len(h) + Len(s) + Len(m)
      BY <1>3 DEF q
    <2>1. q \o c \in Seq(W) /\ Len(q \o c) = Len(q) + Len(c)
      BY <1>1, <2>0, ConcatProperties
    <2>2. \A i \in 1..Len(q) : (q \o c)[i] = q[i]
      BY <1>1, <2>0
    <2>3. ASSUME NEW i \in 1..Len(c) PROVE (q \o c)[Len(q) + i] = c[i]
      <3>1. PICK k : k = Len(q) + i
        OBVIOUS
      <3>2. k \in 1..Len(q) + Len(c) /\ ~(k <= Len(q)) /\ k - Len(q) = i
        BY <1>1, <2>0, <3>1
      <3>3. (q \o c)[k] = IF k <= Len(q) THEN q[k] ELSE c[k - Len(q)]
        BY <1>1, <2>0, <3>2, ConcatProperties
      <3> QED BY <3>1, <3>2, <3>3
    <2>4. \A i \in 1..Len(h) : i \in 1..Len(q)
      BY <1>1, <2>0
    <2>5. \A i \in 1..Len(s) : Len(h) + i \in 1..Len(q)
      BY <1>1, <2>0
    <2>6. \A i \in 1..Len(m) : Len(h) + Len(s) + i \in 1..Len(q)
      BY <1>1, <2>0
    <2> QED BY <1>3, <2>0, <2>1, <2>2, <2>3, <2>4, <2>5, <2>6 DEF q
  <1>5. all = AllQueries(t)
    BY DEF AllQueries, h, s, m, c
  <1> HIDE DEF all
  <1>6. qs \in Seq(W) /\ Len(qs) > 0
    BY <1>1, EmptySeq DEF h, s, m, c
  <1>10. /\ Len(h) \in 0..6 /\ Len(s) \in 0..6 /\ Len(m) \in 0..3 /\ Len(c) \in 0..3
         /\ Len(all) = Len(h) + Len(s) + Len(m) + Len(c)
         /\ Len(qs) > 0
    BY <1>1, <1>4, <1>6
  <1>11. \A x, y \in 0..6, v, w \in 0..3 :
           /\ x > 0 => 1 \in 1..x /\ 1 \in 1..x + y + v + w
           /\ y > 0 => 1 \in 1..y /\ x + 1 \in 1..x + y + v + w /\ x + 1 <= 16
           /\ v > 0 => 1 \in 1..v /\ x + y + 1 \in 1..x + y + v + w /\ x + y + 1 <= 16
           /\ w > 0 => 1 \in 1..w /\ x + y + v + 1 \in 1..x + y + v + w /\ x + y + v + 1 <= 16
    OBVIOUS
  <1>7. \E i \in 1..Len(all) : i <= 16 /\ all[i] = qs[1]
    <2>1. CASE qs = h
      <3>1. 1 \in 1..Len(h) /\ 1 \in 1..Len(all)
        BY <1>10, <1>11, <2>1
      <3> QED BY <1>4, <2>1, <3>1
    <2>2. CASE qs = s
      <3>1. 1 \in 1..Len(s) /\ Len(h) + 1 \in 1..Len(all) /\ Len(h) + 1 <= 16
        BY <1>10, <1>11, <2>2
      <3> QED BY <1>4, <2>2, <3>1
    <2>3. CASE qs = m
      <3>1. 1 \in 1..Len(m) /\ Len(h) + Len(s) + 1 \in 1..Len(all) /\ Len(h) + Len(s) + 1 <= 16
        BY <1>10, <1>11, <2>3
      <3> QED BY <1>4, <2>3, <3>1
    <2>4. CASE qs = c
      <3>1. /\ 1 \in 1..Len(c) /\ Len(h) + Len(s) + Len(m) + 1 \in 1..Len(all)
            /\ Len(h) + Len(s) + Len(m) + 1 <= 16
        BY <1>10, <1>11, <2>4
      <3> QED BY <1>4, <2>4, <3>1
    <2> QED BY <2>1, <2>2, <2>3, <2>4 DEF h, s, m, c
  <1>8. qs[1] \in ToSet(createQueries(t))
    <2>1. PICK i \in 1..Len(all) : i <= 16 /\ all[i] = qs[1]
      BY <1>7
    <2>2. i <= MaxQueries
      BY <1>4, <2>1
    <2> QED BY <1>4, <1>5, <2>1, <2>2, EarlyQueryStays
  <1>9. qs[1] \in ToSet(qs)
    BY <1>6 DEF ToSet
  <1> QED BY <1>8, <1>9

QueriesInv ==
  /\ queries = createQueries(text)
  /\ asked \in Nat
  /\ found # {} => asked > 0

LEMMA QueriesInvHolds == GoalSpec => []QueriesInv
  <1>1. GoalInit => QueriesInv
    BY DEF GoalInit, QueriesInv
  <1>2. QueriesInv /\ [GoalNext]_goalVars => QueriesInv'
    BY DEF QueriesInv, GoalNext, Search, SearchFails, goalVars
  <1> QED BY <1>1, <1>2, PTL DEF GoalSpec

(* With room for 16 queries, which is what the planner takes, no text of a    *)
(* Goal silences one of its constraints; with room for 15 one could.          *)
THEOREM EveryConstraintStaysAsked ==
  MaxQueries \in Nat /\ MaxQueries >= 16 => (GoalSpec => []EveryConstraintIsAsked)
  <1> SUFFICES ASSUME MaxQueries \in Nat, MaxQueries >= 16
               PROVE  GoalSpec => []EveryConstraintIsAsked
    OBVIOUS
  <1>1. QueriesInv => EveryConstraintIsAsked
    <2> SUFFICES ASSUME QueriesInv PROVE EveryConstraintIsAsked
      OBVIOUS
    <2>1. ASSUME NEW qs \in {hoursQueries(text), salaryQueries(text), modalityQueries(text),
                             contractQueries(text)}, qs # <<>>
          PROVE  ToSet(qs) \cap ToSet(queries) # {}
      BY <2>1, EachAsked DEF QueriesInv
    <2>2. ASSUME criteria(text) # {} PROVE queries # <<>>
      <3>1. hours(text) # NotStated \/ salary(text) # NotStated \/ contractType(text) # NotStated
        BY <2>2 DEF criteria
      <3>2. hours(text) # NotStated => hoursQueries(text) # <<>>
        BY ShortLists DEF hoursQueries, Short, halfDayQueries
      <3>3. salary(text) # NotStated => salaryQueries(text) # <<>>
        BY ShortLists DEF salaryQueries, Short
      <3>4. contractType(text) # NotStated => contractQueries(text) # <<>>
        BY DEF contractQueries
      <3>5. ToSet(<<>>) = {}
        BY DEF ToSet
      <3> QED BY <2>1, <3>1, <3>2, <3>3, <3>4, <3>5
    <2>3. resolutionState = "partial" => asked > 0
      BY DEF resolutionState, QueriesInv
    <2> QED BY <2>1, <2>2, <2>3 DEF EveryConstraintIsAsked
  <1> QED BY <1>1, QueriesInvHolds, PTL

-----------------------------------------------------------------------------
(* The graphs of proposed plans. The check is a recursive visit with a memory, *)
(* so that it is proved level by level: what is marked visited can always be   *)
(* put in an order, and a visit only ever marks a task whose dependencies all  *)
(* are. The numbers stand in for an induction principle over data.             *)

(* A set that has 0, and with every number the next one, has every number.    *)
LEMMA EveryNumber ==
  ASSUME NEW S, 0 \in S, \A n \in Nat : n \in S => n + 1 \in S
  PROVE  Nat \subseteq S
  <1> SUFFICES ASSUME Nat \ S # {} PROVE FALSE
    OBVIOUS
  <1>1. PICK x \in Nat \ S : \A y \in Nat \ S : x <= y
    BY LeastPlace
  <1>2. x \in Nat /\ x # 0 /\ x - 1 \in Nat
    BY <1>1
  <1>3. x - 1 \in S
    BY <1>1, <1>2
  <1>4. x - 1 + 1 \in S
    BY <1>2, <1>3
  <1> QED BY <1>1, <1>2, <1>4

(* What a loop over a list leaves after each of its first n elements.         *)
LoopOf(go, list, visited, n, after) ==
  after = [i \in 0..n |-> IF i = 0 THEN Ok(visited)
                          ELSE IF after[i - 1].ok THEN go[list[i]][after[i - 1].visited] ELSE Threw]

LEMMA LoopExists ==
  ASSUME NEW go, NEW list, NEW visited
  PROVE  \A n \in Nat : \E after : LoopOf(go, list, visited, n, after)
  <1> DEFINE S == {n \in Nat : \E after : LoopOf(go, list, visited, n, after)}
             next(a, i) == IF a[i - 1].ok THEN go[list[i]][a[i - 1].visited] ELSE Threw
  <1>1. 0 \in S
    <2>1. LoopOf(go, list, visited, 0, [i \in 0..0 |-> Ok(visited)])
      BY DEF LoopOf
    <2> QED BY <2>1
  <1>2. ASSUME NEW n \in Nat, n \in S PROVE n + 1 \in S
    <2>1. PICK a : LoopOf(go, list, visited, n, a)
      BY <1>2
    <2> DEFINE b == [i \in 0..n + 1 |-> IF i = n + 1 THEN next(a, n + 1) ELSE a[i]]
    <2>2. \A i \in 0..n : b[i] = a[i] /\ i # n + 1
      OBVIOUS
    <2>3. b[n + 1] = next(a, n + 1)
      OBVIOUS
    <2>4. \A i \in 1..n + 1 : b[i - 1] = a[i - 1]
      OBVIOUS
    <2>5. \A i \in 0..n : a[i] = IF i = 0 THEN Ok(visited) ELSE next(a, i)
      BY <2>1 DEF LoopOf
    <2> HIDE DEF next, b
    <2>6. \A i \in 0..n + 1 : b[i] = IF i = 0 THEN Ok(visited) ELSE next(b, i)
      <3>1. \A i \in 1..n + 1 : next(b, i) = next(a, i)
        BY <2>4 DEF next
      <3>2. \A i \in 0..n + 1 : i = n + 1 \/ i \in 0..n
        OBVIOUS
      <3>3. \A i \in 0..n : i \in 1..n + 1 \/ i = 0
        OBVIOUS
      <3>4. \A i \in 0..n : b[i] = IF i = 0 THEN Ok(visited) ELSE next(b, i)
        BY <2>2, <2>5, <3>1, <3>3
      <3>5. n + 1 \in 1..n + 1 /\ n + 1 # 0
        OBVIOUS
      <3>6. b[n + 1] = next(b, n + 1)
        BY <2>3, <3>1, <3>5
      <3> QED BY <3>2, <3>4, <3>5, <3>6
    <2>7. b = [i \in 0..n + 1 |-> b[i]]
      BY DEF b
    <2>8. LoopOf(go, list, visited, n + 1, b)
      BY <2>6, <2>7 DEF LoopOf, next
    <2> QED BY <2>8
  <1> HIDE DEF S
  <1>3. Nat \subseteq S
    BY <1>1, <1>2, EveryNumber
  <1> QED BY <1>3 DEF S

LEMMA LoopOfList ==
  ASSUME NEW go, NEW list, NEW visited, Len(list) \in Nat
  PROVE  \E after : LoopOf(go, list, visited, Len(list), after) /\ eachIn(go, list, visited) = after[Len(list)]
  <1>1. \E after : LoopOf(go, list, visited, Len(list), after)
    BY LoopExists
  <1> QED BY <1>1 DEF eachIn, LoopOf

(* The tasks of V can be put in an order: each after the ones it depends on,  *)
(* which are in V too.                                                        *)
Ordered(tasks, V) ==
  \E f \in [V -> 1..Cardinality(V)] : \A t \in V : \A d \in ToSet(tasks[t]) : d \in V /\ f[d] < f[t]

LEMMA OrderGrows ==
  ASSUME NEW tasks, NEW V, IsFiniteSet(V), Ordered(tasks, V), NEW t, ToSet(tasks[t]) \subseteq V
  PROVE  Ordered(tasks, V \cup {t})
  <1>1. CASE t \in V
    <2>1. V \cup {t} = V
      BY <1>1
    <2> QED BY <2>1
  <1>2. CASE t \notin V
    <2> DEFINE W == V \cup {t}
               n == Cardinality(V)
    <2>1. PICK f \in [V -> 1..n] : \A x \in V : \A d \in ToSet(tasks[x]) : d \in V /\ f[d] < f[x]
      BY DEF Ordered
    <2>2. n \in Nat /\ Cardinality(W) = n + 1
      BY <1>2, FS_CardinalityType, FS_AddElement
    <2> DEFINE g == [x \in W |-> IF x = t THEN n + 1 ELSE f[x]]
    <2> HIDE DEF n
    <2>3. g[t] = n + 1 /\ \A x \in V : g[x] = f[x] /\ f[x] \in 1..n
      BY <1>2, <2>1
    <2>4. g \in [W -> 1..(n + 1)]
      <3>1. \A x \in W : (IF x = t THEN n + 1 ELSE f[x]) \in 1..(n + 1)
        BY <2>1, <2>2
      <3> QED BY <3>1
    <2> HIDE DEF g
    <2>5. ASSUME NEW x \in W, NEW d \in ToSet(tasks[x]) PROVE d \in W /\ g[d] < g[x]
      <3>1. CASE x = t
        <4>1. d \in V /\ f[d] \in 1..n
          BY <2>1, <3>1, <2>5
        <4> QED BY <2>2, <2>3, <3>1, <4>1
      <3>2. CASE x # t
        <4>1. x \in V /\ d \in V /\ f[d] < f[x]
          BY <2>1, <2>5, <3>2
        <4> QED BY <2>3, <4>1
      <3> QED BY <3>1, <3>2
    <2> QED BY <2>2, <2>4, <2>5 DEF Ordered
  <1> QED BY <1>1, <1>2

(* What visiting the tasks of T leaves of the set V of tasks visited before.  *)
Leaves(tasks, T, V, r) ==
  /\ r.ok \in BOOLEAN
  /\ r.ok => /\ r.visited \in SUBSET DOMAIN tasks
             /\ V \subseteq r.visited /\ T \subseteq r.visited
             /\ Ordered(tasks, V) => Ordered(tasks, r.visited)

Visits(tasks, go) ==
  \A t \in DOMAIN tasks : \A V \in SUBSET DOMAIN tasks : Leaves(tasks, {t}, V, go[t][V])

(* A loop over a list visits every task of the list.                          *)
LEMMA LoopLeaves ==
  ASSUME NEW tasks, NEW go, Visits(tasks, go), NEW list \in Seq(DOMAIN tasks), NEW V \in SUBSET DOMAIN tasks
  PROVE  Leaves(tasks, ToSet(list), V, eachIn(go, list, V))
  <1> DEFINE D == DOMAIN tasks
             n == Len(list)
             upTo(i) == {list[j] : j \in 1..i}
  <1>1. PICK after : LoopOf(go, list, V, n, after) /\ eachIn(go, list, V) = after[n]
    BY LoopOfList
  <1>0. n \in Nat /\ \A j \in 1..n : list[j] \in D
    OBVIOUS
  <1>a. \A j \in 0..n : after[j] = IF j = 0 THEN Ok(V)
                                   ELSE IF after[j - 1].ok THEN go[list[j]][after[j - 1].visited] ELSE Threw
    BY <1>1 DEF LoopOf
  <1> HIDE DEF n
  <1> DEFINE S == {i \in Nat : i <= n => Leaves(tasks, upTo(i), V, after[i])}
  <1>2. 0 \in S
    <2>1. after[0] = Ok(V)
      BY <1>0, <1>a
    <2>2. upTo(0) = {}
      OBVIOUS
    <2>3. Leaves(tasks, {}, V, Ok(V))
      BY DEF Leaves, Ok
    <2> QED BY <2>1, <2>2, <2>3
  <1>3. ASSUME NEW i \in Nat, i \in S, i + 1 <= n PROVE Leaves(tasks, upTo(i + 1), V, after[i + 1])
    <2>1. Leaves(tasks, upTo(i), V, after[i])
      BY <1>0, <1>3
    <2>2. i + 1 \in 1..n /\ i + 1 \in 0..n /\ i + 1 - 1 = i /\ i + 1 # 0
      BY <1>0, <1>3
    <2>3. after[i + 1] = IF after[i].ok THEN go[list[i + 1]][after[i].visited] ELSE Threw
      BY <1>a, <2>2
    <2>4. CASE ~after[i].ok
      BY <2>3, <2>4 DEF Leaves, Threw
    <2>5. CASE after[i].ok
      <3>1. list[i + 1] \in D /\ after[i].visited \in SUBSET D
        BY <1>0, <2>1, <2>2, <2>5 DEF Leaves
      <3>2. Leaves(tasks, {list[i + 1]}, after[i].visited, after[i + 1])
        BY <2>3, <2>5, <3>1 DEF Visits
      <3>3. upTo(i + 1) = upTo(i) \cup {list[i + 1]}
        <4>1. 1..(i + 1) = 1..i \cup {i + 1}
          BY <1>3
        <4> QED BY <4>1
      <3> HIDE DEF upTo
      <3> QED BY <2>1, <2>5, <3>2, <3>3 DEF Leaves
    <2> QED BY <2>1, <2>4, <2>5 DEF Leaves
  <1> HIDE DEF upTo
  <1>4. \A i \in Nat : i \in S => i + 1 \in S
    <2>1. \A i \in Nat : i + 1 \in Nat
      OBVIOUS
    <2> QED BY <1>3, <2>1
  <1>5. Nat \subseteq S
    <2> HIDE DEF S
    <2> QED BY <1>2, <1>4, EveryNumber
  <1>6. Leaves(tasks, upTo(n), V, after[n])
    BY <1>0, <1>5
  <1>7. upTo(n) = ToSet(list)
    BY DEF ToSet, upTo, n
  <1> QED BY <1>1, <1>6, <1>7 DEF n

(* One level of the visits, on top of the levels below it.                    *)
Level(tasks, left, below) ==
  LET D == DOMAIN tasks
  IN [visiting \in SUBSET D |-> [t \in D |-> [visited \in SUBSET D |->
       IF left = 0 THEN Threw
       ELSE IF t \in visited THEN Ok(visited)
       ELSE IF t \in visiting THEN Threw
       ELSE LET r == eachIn(below[visiting \cup {t}], tasks[t], visited)
            IN IF r.ok THEN Ok(r.visited \cup {t}) ELSE Threw]]]

Levels(tasks, n, at) == at = [left \in 0..n |-> Level(tasks, left, at[left - 1])]

LEMMA LevelsExist ==
  ASSUME NEW tasks
  PROVE  \A n \in Nat : \E at : Levels(tasks, n, at)
  <1> DEFINE S == {n \in Nat : \E at : Levels(tasks, n, at)}
  <1>1. 0 \in S
    <2> DEFINE ground == Level(tasks, 0, 0)
               at == [left \in 0..0 |-> ground]
    <2>1. \A below : Level(tasks, 0, below) = ground
      BY DEF Level
    <2> HIDE DEF ground
    <2>2. \A left \in 0..0 : at[left] = Level(tasks, left, at[left - 1])
      BY <2>1
    <2>3. at = [left \in 0..0 |-> at[left]]
      OBVIOUS
    <2> HIDE DEF at
    <2>4. Levels(tasks, 0, at)
      BY <2>2, <2>3 DEF Levels
    <2> QED BY <2>4
  <1>2. ASSUME NEW n \in Nat, n \in S PROVE n + 1 \in S
    <2>1. PICK a : Levels(tasks, n, a)
      BY <1>2
    <2> DEFINE b == [left \in 0..n + 1 |-> IF left = n + 1 THEN Level(tasks, n + 1, a[n]) ELSE a[left]]
    <2>2. \A i \in 0..n : b[i] = a[i]
      OBVIOUS
    <2>3. b[n + 1] = Level(tasks, n + 1, a[n])
      OBVIOUS
    <2>4. \A i \in 1..n + 1 : i - 1 \in 0..n
      OBVIOUS
    <2>5. \A i \in 0..n : a[i] = Level(tasks, i, a[i - 1])
      BY <2>1 DEF Levels
    <2>6. b = [left \in 0..n + 1 |-> b[left]]
      OBVIOUS
    <2> HIDE DEF b
    <2>7. \A i \in 1..n + 1 : b[i - 1] = a[i - 1]
      BY <2>2, <2>4
    <2>8. \A i \in 1..n : b[i] = Level(tasks, i, b[i - 1])
      <3>1. \A i \in 1..n : i \in 0..n /\ i \in 1..n + 1
        OBVIOUS
      <3> QED BY <2>2, <2>5, <2>7, <3>1
    <2>9. b[0] = Level(tasks, 0, b[0 - 1])
      <3>1. \A x, y : Level(tasks, 0, x) = Level(tasks, 0, y)
        BY DEF Level
      <3> QED BY <2>2, <2>5, <3>1
    <2>10. b[n + 1] = Level(tasks, n + 1, b[n + 1 - 1])
      <3>1. n + 1 \in 1..n + 1 /\ n + 1 - 1 = n
        OBVIOUS
      <3> QED BY <2>3, <2>7, <3>1
    <2>11. \A i \in 0..n + 1 : b[i] = Level(tasks, i, b[i - 1])
      <3>1. \A i \in 0..n + 1 : i = 0 \/ i = n + 1 \/ i \in 1..n
        OBVIOUS
      <3> QED BY <2>8, <2>9, <2>10, <3>1
    <2>12. Levels(tasks, n + 1, b)
      BY <2>6, <2>11 DEF Levels
    <2> QED BY <2>12
  <1> HIDE DEF S
  <1>3. Nat \subseteq S
    BY <1>1, <1>2, EveryNumber
  <1> QED BY <1>3 DEF S

LEMMA LevelsOfVisit ==
  ASSUME NEW tasks, MaxDepth \in Nat
  PROVE  Levels(tasks, MaxDepth, visit(tasks))
  <1>1. \E at : Levels(tasks, MaxDepth, at)
    BY LevelsExist
  <1> QED BY <1>1 DEF visit, Levels, Level

(* Lists of dependencies, each naming tasks of the same list.                 *)
Known(tasks) ==
  \E n \in Nat : DOMAIN tasks = 1..n /\ \A t \in 1..n : tasks[t] \in Seq(1..n)

LEMMA VisitLeaves ==
  ASSUME NEW tasks, Known(tasks), MaxDepth \in Nat
  PROVE  \A left \in 0..MaxDepth : \A visiting \in SUBSET DOMAIN tasks :
           Visits(tasks, visit(tasks)[left][visiting])
  <1> DEFINE D == DOMAIN tasks
             at == visit(tasks)
             S == {i \in Nat : i <= MaxDepth => \A visiting \in SUBSET D : Visits(tasks, at[i][visiting])}
  <1>1. \A i \in 0..MaxDepth : at[i] = Level(tasks, i, at[i - 1])
    BY LevelsOfVisit DEF Levels
  <1>2. \A V \in SUBSET D : IsFiniteSet(V)
    BY FS_Interval, FS_Subset DEF Known
  <1> HIDE DEF at
  <1>3. \A x, y, r : Leaves(tasks, x, y, Threw)
    BY DEF Leaves, Threw
  <1>4. 0 \in S
    <2>1. at[0] = Level(tasks, 0, at[0 - 1])
      BY <1>1
    <2>2. \A visiting \in SUBSET D : \A t \in D : \A V \in SUBSET D : at[0][visiting][t][V] = Threw
      BY <2>1 DEF Level
    <2> QED BY <1>3, <2>2 DEF Visits
  <1>5. ASSUME NEW i \in Nat, i \in S, i + 1 <= MaxDepth,
               NEW visiting \in SUBSET D, NEW t \in D, NEW V \in SUBSET D
        PROVE  Leaves(tasks, {t}, V, at[i + 1][visiting][t][V])
    <2> DEFINE below == at[i][visiting \cup {t}]
               r == eachIn(below, tasks[t], V)
    <2>1. Visits(tasks, below)
      BY <1>5
    <2>2. at[i + 1] = Level(tasks, i + 1, at[i])
      <3>1. i + 1 \in 0..MaxDepth /\ i + 1 - 1 = i
        BY <1>5
      <3> QED BY <1>1, <3>1
    <2>3. at[i + 1][visiting][t][V] = IF t \in V THEN Ok(V) ELSE IF t \in visiting THEN Threw
                                      ELSE IF r.ok THEN Ok(r.visited \cup {t}) ELSE Threw
      <3>1. i + 1 # 0
        OBVIOUS
      <3> QED BY <2>2, <3>1 DEF Level
    <2>4. tasks[t] \in Seq(D)
      BY DEF Known
    <2>5. Leaves(tasks, ToSet(tasks[t]), V, r)
      BY <2>1, <2>4, LoopLeaves
    <2> HIDE DEF r
    <2>6. CASE t \in V
      BY <2>3, <2>6 DEF Leaves, Ok
    <2>7. CASE t \notin V /\ r.ok
      <3>1. Leaves(tasks, {t}, V, Ok(r.visited \cup {t}))
        <4>1. /\ r.visited \in SUBSET D /\ V \subseteq r.visited /\ ToSet(tasks[t]) \subseteq r.visited
              /\ Ordered(tasks, V) => Ordered(tasks, r.visited)
          BY <2>5, <2>7 DEF Leaves
        <4>2. Ordered(tasks, V) => Ordered(tasks, r.visited \cup {t})
          BY <1>2, <4>1, OrderGrows
        <4> QED BY <4>1, <4>2 DEF Leaves, Ok
      <3> QED BY <1>3, <2>3, <2>7, <3>1
    <2>8. CASE t \notin V /\ ~r.ok
      BY <1>3, <2>3, <2>8
    <2> QED BY <2>6, <2>7, <2>8
  <1>6. \A i \in Nat : i \in S => (i + 1 <= MaxDepth => \A visiting \in SUBSET D : Visits(tasks, at[i + 1][visiting]))
    <2> HIDE DEF S
    <2> QED BY <1>5 DEF Visits
  <1>7. \A i \in Nat : i \in S => i + 1 \in S
    <2>1. \A i : i \in Nat /\ (i <= MaxDepth => \A visiting \in SUBSET D : Visits(tasks, at[i][visiting])) => i \in S
      OBVIOUS
    <2>2. \A i \in Nat : i + 1 \in Nat
      OBVIOUS
    <2> HIDE DEF S
    <2> QED BY <1>6, <2>1, <2>2
  <1>8. Nat \subseteq S
    <2> HIDE DEF S
    <2> QED BY <1>4, <1>7, EveryNumber
  <1>9. \A i \in 0..MaxDepth : i \in Nat /\ i <= MaxDepth
    OBVIOUS
  <1>10. \A i \in 0..MaxDepth : \A visiting \in SUBSET D : Visits(tasks, at[i][visiting])
    BY <1>8, <1>9
  <1> QED BY <1>10 DEF at

(* A graph that passes the check can be worked through.                       *)
LEMMA AcceptedAreOrdered ==
  ASSUME NEW tasks, Known(tasks), visitAll(tasks), MaxDepth \in Nat
  PROVE  \E turn \in [DOMAIN tasks -> DOMAIN tasks] :
           \A t \in DOMAIN tasks : \A d \in ToSet(tasks[t]) : turn[d] < turn[t]
  <1>1. PICK n \in Nat : DOMAIN tasks = 1..n /\ \A t \in 1..n : tasks[t] \in Seq(1..n)
    BY DEF Known
  <1> DEFINE list == [i \in 1..Len(tasks) |-> i]
             r == eachIn(visit(tasks)[MaxDepth][{}], list, {})
  <1>2. Len(tasks) = n
    BY <1>1
  <1>3. list \in Seq(DOMAIN tasks) /\ ToSet(list) = DOMAIN tasks
    BY <1>1, <1>2 DEF ToSet
  <1>4. Visits(tasks, visit(tasks)[MaxDepth][{}])
    BY VisitLeaves
  <1>5. Leaves(tasks, DOMAIN tasks, {}, r)
    <2> HIDE DEF list
    <2>1. Leaves(tasks, ToSet(list), {}, r)
      BY <1>3, <1>4, LoopLeaves
    <2> QED BY <1>3, <2>1
  <1>6. r.ok
    BY DEF visitAll
  <1>7. Ordered(tasks, {})
    <2>1. [x \in {} |-> x] \in [{} -> 1..Cardinality({})]
      OBVIOUS
    <2> QED BY <2>1 DEF Ordered
  <1>8. Ordered(tasks, DOMAIN tasks)
    <2>1. r.visited = DOMAIN tasks
      BY <1>5, <1>6 DEF Leaves
    <2> QED BY <1>5, <1>6, <1>7, <2>1 DEF Leaves
  <1>9. Cardinality(DOMAIN tasks) = n
    BY <1>1, FS_Interval
  <1> QED BY <1>1, <1>8, <1>9 DEF Ordered

(* No proposed plan that was ever stored has a cycle or waits for a task that *)
(* is not there: createProposedPlan and updateProposedPlan.                   *)
THEOREM PlansStayClosed ==
  MaxPlanTasks \in Nat /\ MaxDependencies \in Nat /\ MaxDepth \in Nat
    => (PlanGraphSpec => []PlansAreClosed)
  <1> SUFFICES ASSUME MaxPlanTasks \in Nat, MaxDependencies \in Nat, MaxDepth \in Nat
               PROVE  PlanGraphSpec => []PlansAreClosed
    OBVIOUS
  <1>1. ASSUME NEW tasks \in AcceptedGraphs
        PROVE  \E turn \in [DOMAIN tasks -> DOMAIN tasks] :
                 \A t \in DOMAIN tasks : \A d \in ToSet(tasks[t]) : turn[d] < turn[t]
    <2>1. PICK n \in 0..MaxPlanTasks : tasks \in [1..n -> Dependencies(n)]
      BY DEF AcceptedGraphs, Graphs
    <2>2. visitAll(tasks) /\ \A t \in 1..n : ToSet(tasks[t]) \subseteq 1..n
      BY <2>1 DEF AcceptedGraphs, validateTaskGraph
    <2>3. \A t \in 1..n : tasks[t] \in Seq(1..n)
      <3> SUFFICES ASSUME NEW t \in 1..n PROVE tasks[t] \in Seq(1..n)
        OBVIOUS
      <3>1. tasks[t] \in Dependencies(n)
        BY <2>1
      <3>2. PICK k \in 0..MaxDependencies : tasks[t] \in [1..k -> 0..n]
        BY <3>1 DEF Dependencies, BoundedSeq, SeqOf
      <3>3. \A i \in 1..k : tasks[t][i] \in 1..n
        BY <2>2, <3>2 DEF ToSet
      <3>4. tasks[t] \in [1..k -> 1..n]
        BY <3>2, <3>3
      <3> QED BY <3>4
    <2>4. n \in Nat /\ DOMAIN tasks = 1..n
      BY <2>1
    <2>5. Known(tasks)
      BY <2>3, <2>4 DEF Known
    <2> QED BY <2>2, <2>5, AcceptedAreOrdered
  <1>2. PlanGraphInit => PlansAreClosed
    <2> SUFFICES ASSUME PlanGraphInit PROVE PlansAreClosed
      OBVIOUS
    <2>1. stored.tasks = <<>> /\ stored.approval = {} /\ stored.completion = {}
      BY DEF PlanGraphInit
    <2>2. DOMAIN stored.tasks = {}
      BY <2>1
    <2>3. [x \in {} |-> x] \in [{} -> {}]
      OBVIOUS
    <2> QED BY <2>1, <2>2, <2>3 DEF PlansAreClosed, StoredPlansAreAcyclic, CheckpointsNameTasks
  <1>3. ASSUME NEW content, NEW a, NEW c, Propose(content, a, c) PROVE PlansAreClosed'
    <2>1. content.tasks \in AcceptedGraphs /\ content.approval \cup content.completion \subseteq DOMAIN content.tasks
      BY <1>3 DEF Propose, validateContent, validateCheckpoints
    <2>2. stored' = content
      BY <1>3 DEF Propose
    <2> QED BY <1>1, <2>1, <2>2 DEF PlansAreClosed, StoredPlansAreAcyclic, CheckpointsNameTasks
  <1>4. PlansAreClosed /\ [PlanGraphNext]_planGraphVars => PlansAreClosed'
    <2> SUFFICES ASSUME PlansAreClosed, [PlanGraphNext]_planGraphVars PROVE PlansAreClosed'
      OBVIOUS
    <2>1. CASE PlanGraphNext
      BY <1>3, <2>1 DEF PlanGraphNext
    <2>2. CASE UNCHANGED planGraphVars
      BY <2>2 DEF planGraphVars, PlansAreClosed, StoredPlansAreAcyclic, CheckpointsNameTasks
    <2> QED BY <2>1, <2>2
  <1> QED BY <1>2, <1>4, PTL DEF PlanGraphSpec

-----------------------------------------------------------------------------
(* A research run. Its history is the beginning of the one path there is, and  *)
(* the failures of a stage are those of the attempts made so far.              *)

Path == <<"created", "discovering", "ingesting", "analyzing", "validating", "memorizing", "reporting", "completed">>
Stage(s) == s \in {"discovering", "ingesting", "analyzing", "validating", "memorizing", "reporting"}

\* k transitions of the path, and perhaps the one to "failed".
Walked(k) ==
  /\ \A i \in 1..k : history[i] = [from |-> Path[i], to |-> Path[i + 1]]
  /\ stageResults = {Path[i] : i \in 2..k}
  /\ \/ Len(history) = k /\ machine = Path[k + 1]
     \/ /\ k \in 1..6 /\ machine = "failed"
        /\ Len(history) = k + 1 /\ history[k + 1] = [from |-> Path[k + 1], to |-> "failed"]

MachineStates ==
  {"created", "discovering", "ingesting", "analyzing", "validating", "memorizing", "reporting", "completed", "failed"}
Transitions == [from : MachineStates, to : MachineStates]

\* While a stage is under way every failure so far was worth another attempt.
AttemptsInv ==
  /\ \A i \in 1..(Len(failures) - 1) : Retryable(failures[i]) /\ failures[i] \notin Declines
  /\ Len(failures) <= MaxAttempts
  /\ tool > 0 => Stage(machine) /\ attempt = Len(failures) + 1
  /\ Stage(machine) =>
       /\ Len(failures) < MaxAttempts
       /\ \A i \in 1..Len(failures) : Retryable(failures[i]) /\ failures[i] \notin Declines
       /\ tool = 0 => attempt = Len(failures)
  /\ machine = "failed" =>
       \/ Len(failures) = MaxAttempts
       \/ ~Retryable(failures[Len(failures)])
       \/ failures[Len(failures)] \in Declines

ResearchInv ==
  /\ tool \in Nat /\ tools \in Nat
  /\ history \in Seq(Transitions) /\ failures \in Seq({"retryable", "timeout", "non_retryable", "unknown", "cancelled"})
  /\ hasRun \/ machine = "created"
  /\ machine = "created" => failures = <<>> /\ attempt = 0 /\ tool = 0 /\ ~hasRun
  /\ \E k \in 0..7 : Walked(k)
  /\ AttemptsInv

LEMMA Stages ==
  /\ \A s : IsStage(s) <=> Stage(s)
  /\ \A k \in 1..6 : Stage(Path[k + 1]) /\ Successor(Path[k + 1], "complete") = Path[k + 2]
  /\ \A k \in 1..6 : Successor(Path[k + 1], "fail") = "failed"
  /\ Successor("created", "start_discovery") = "discovering"
  /\ \A k \in 0..7 : Stage(Path[k + 1]) => k \in 1..6
  /\ \A k \in 0..7 : Path[k + 1] \in MachineStates /\ Path[k + 1] # "failed"
  <1>1. \A s : IsStage(s) <=> Stage(s)
    BY DEF IsStage, Stage, canonicalPlan
  <1>2. \A k \in 1..6 : Stage(Path[k + 1]) /\ Path[k + 1] = canonicalPlan[k] /\ k \in DOMAIN canonicalPlan
    BY DEF Path, Stage, canonicalPlan
  <1>3. \A k \in 1..6 : StageIndex(Path[k + 1]) = k
    <2>1. \A i \in DOMAIN canonicalPlan, k \in 1..6 : canonicalPlan[i] = canonicalPlan[k] => i = k
      BY DEF canonicalPlan
    <2> SUFFICES ASSUME NEW k \in 1..6 PROVE StageIndex(Path[k + 1]) = k
      OBVIOUS
    <2> QED BY <1>2, <2>1 DEF StageIndex
  <1>4. Len(canonicalPlan) = 6
    BY DEF canonicalPlan
  <1>5. \A k \in 1..6 : Successor(Path[k + 1], "complete") = Path[k + 2]
    <2>1. \A k \in 1..6 : Successor(Path[k + 1], "complete") = IF k = 6 THEN "completed" ELSE canonicalPlan[k + 1]
      BY <1>1, <1>2, <1>3, <1>4 DEF Successor, Stage
    <2>2. \A k \in 1..6 : Path[k + 2] = IF k = 6 THEN "completed" ELSE canonicalPlan[k + 1]
      BY DEF Path, canonicalPlan
    <2> QED BY <2>1, <2>2
  <1>6. \A k \in 1..6 : Successor(Path[k + 1], "fail") = "failed"
    BY <1>1, <1>2 DEF Successor, Stage
  <1>7. Successor("created", "start_discovery") = "discovering"
    BY DEF Successor
  <1>8. \A k \in 0..7 : Stage(Path[k + 1]) => k \in 1..6
    BY DEF Path, Stage
  <1>9. \A k \in 0..7 : Path[k + 1] \in MachineStates /\ Path[k + 1] # "failed"
    BY DEF Path, MachineStates
  <1> QED BY <1>1, <1>2, <1>5, <1>6, <1>7, <1>8, <1>9

LEMMA ResearchStarts == ResearchInit => ResearchInv
  <1> SUFFICES ASSUME ResearchInit PROVE ResearchInv
    OBVIOUS
  <1>1. Walked(0)
    BY DEF ResearchInit, Walked, Path
  <1>2. AttemptsInv
    BY ResearchBounds DEF ResearchInit, AttemptsInv, Stage
  <1> QED BY <1>1, <1>2, ResearchBounds DEF ResearchInit, ResearchInv

(* One more transition of the path. *)
LEMMA WalkOn ==
  ASSUME ResearchInv, NEW k \in 0..6, Walked(k), machine = Path[k + 1],
         machine' = Path[k + 2], recordTransition(machine, Path[k + 2]),
         stageResults' = IF k = 0 THEN stageResults ELSE stageResults \cup {machine}
  PROVE  Walked(k + 1)' /\ history' \in Seq(Transitions)
  <1>1. PICK t : t = [from |-> machine, to |-> Path[k + 2]]
    OBVIOUS
  <1>2. t \in Transitions /\ t = [from |-> Path[k + 1], to |-> Path[k + 2]]
    <2>1. k \in 0..7 /\ k + 1 \in 0..7 /\ k + 1 + 1 = k + 2
      OBVIOUS
    <2>2. Path[k + 1] \in MachineStates /\ Path[k + 2] \in MachineStates
      BY <2>1, Stages
    <2> QED BY <1>1, <2>2 DEF Transitions, MachineStates
  <1>3. history \in Seq(Transitions) /\ Len(history) = k
    <2>1. machine # "failed"
      BY Stages
    <2> QED BY <2>1 DEF ResearchInv, Walked
  <1>4. /\ history' \in Seq(Transitions) /\ Len(history') = k + 1 /\ history'[k + 1] = t
        /\ \A i \in 1..k : history'[i] = history[i]
    BY <1>1, <1>2, <1>3, AppendProperties DEF recordTransition
  <1>5. \A i \in 1..(k + 1) : history'[i] = [from |-> Path[i], to |-> Path[i + 1]]
    <2>1. \A i \in 1..(k + 1) : i \in 1..k \/ i = k + 1
      OBVIOUS
    <2>2. \A i \in 1..k : history'[i] = [from |-> Path[i], to |-> Path[i + 1]]
      BY <1>4 DEF Walked
    <2>3. history'[k + 1] = [from |-> Path[k + 1], to |-> Path[k + 1 + 1]]
      BY <1>2, <1>4
    <2> QED BY <2>1, <2>2, <2>3
  <1>6. stageResults' = {Path[i] : i \in 2..(k + 1)}
    <2>1. CASE k = 0
      BY <2>1 DEF Walked
    <2>2. CASE k # 0
      <3>1. 2..(k + 1) = 2..k \cup {k + 1}
        BY <2>2
      <3> QED BY <2>2, <3>1 DEF Walked
    <2> QED BY <2>1, <2>2
  <1>7. Path' = Path
    BY DEF Path
  <1> QED BY <1>4, <1>5, <1>6 DEF Walked, Path

(* A stage is given up. *)
LEMMA WalkFails ==
  ASSUME ResearchInv, NEW k \in 1..6, Walked(k), machine = Path[k + 1],
         machine' = "failed", recordTransition(machine, "failed"), UNCHANGED stageResults
  PROVE  Walked(k)' /\ history' \in Seq(Transitions)
  <1>1. PICK t : t = [from |-> machine, to |-> "failed"]
    OBVIOUS
  <1>2. t \in Transitions /\ t = [from |-> Path[k + 1], to |-> "failed"]
    <2>1. k \in 0..7
      OBVIOUS
    <2>2. Path[k + 1] \in MachineStates
      BY <2>1, Stages
    <2> QED BY <1>1, <2>2 DEF Transitions, MachineStates
  <1>3. history \in Seq(Transitions) /\ Len(history) = k
    <2>1. machine # "failed"
      BY Stages
    <2> QED BY <2>1 DEF ResearchInv, Walked
  <1>4. /\ history' \in Seq(Transitions) /\ Len(history') = k + 1 /\ history'[k + 1] = t
        /\ \A i \in 1..k : history'[i] = history[i]
    BY <1>1, <1>2, <1>3, AppendProperties DEF recordTransition
  <1> QED BY <1>2, <1>4 DEF Walked, Path

(* The machine is in a stage: where it is on the path. *)
LEMMA InStage ==
  ASSUME ResearchInv, Stage(machine)
  PROVE  \E k \in 1..6 : Walked(k) /\ machine = Path[k + 1]
  <1>1. PICK k \in 0..7 : Walked(k)
    BY DEF ResearchInv
  <1>2. machine = Path[k + 1]
    BY <1>1 DEF Walked, Stage
  <1> QED BY <1>1, <1>2, Stages

(* The end of an attempt that failed. *)
LEMMA FailsKeeps ==
  ASSUME ResearchInv, Stage(machine),
         NEW category \in {"retryable", "timeout", "non_retryable", "unknown", "cancelled"},
         Fails(Len(failures) + 1, category), UNCHANGED <<tools, hasRun, stageResults>>
  PROVE  ResearchInv' /\ tool' = 0
  <1>1. PICK k \in 1..6 : Walked(k) /\ machine = Path[k + 1]
    BY InStage
  <1>2. PICK f : f = Append(failures, category)
    OBVIOUS
  <1> DEFINE n == Len(failures)
  <1>3. /\ f \in Seq({"retryable", "timeout", "non_retryable", "unknown", "cancelled"})
        /\ n \in Nat /\ Len(f) = n + 1 /\ f[n + 1] = category /\ \A i \in 1..n : f[i] = failures[i]
    BY <1>2, AppendProperties DEF ResearchInv
  <1>4. failures' = f /\ tool' = 0
    BY <1>2 DEF Fails
  <1>5. n < MaxAttempts /\ \A i \in 1..n : f[i] = failures[i] /\ Retryable(failures[i]) /\ failures[i] \notin Declines
    BY <1>3 DEF ResearchInv, AttemptsInv
  <1>6. machine # "created" /\ hasRun
    BY DEF ResearchInv, Stage
  <1>7. CASE StageFails(n + 1, category)
    <2>1. machine' = "failed" /\ recordTransition(machine, "failed") /\ attempt' = 0
      BY <1>1, <1>7, Stages DEF Fails, Moves
    <2>2. Walked(k)' /\ history' \in Seq(Transitions)
      BY <1>1, <2>1, WalkFails
    <2>3. n + 1 = MaxAttempts \/ ~Retryable(category) \/ category \in Declines
      BY <1>3, <1>5, <1>7, ResearchBounds DEF StageFails
    <2>4. AttemptsInv'
      BY <1>3, <1>4, <1>5, <2>1, <2>3, ResearchBounds DEF AttemptsInv, Stage, Retryable
    <2>5. \E j \in 0..7 : Walked(j)'
      BY <2>2
    <2> QED BY <1>3, <1>4, <1>6, <2>1, <2>2, <2>4, <2>5 DEF ResearchInv
  <1>8. CASE ~StageFails(n + 1, category)
    <2>1. attempt' = n + 1 /\ UNCHANGED <<machine, history>>
      BY <1>8 DEF Fails
    <2>2. n + 1 < MaxAttempts /\ Retryable(category) /\ category \notin Declines
      BY <1>3, <1>8, ResearchBounds DEF StageFails
    <2>3. Walked(k)'
      BY <1>1, <2>1 DEF Walked, Path
    <2>4. AttemptsInv'
      <3>1. \A i \in 1..(n + 1) : i \in 1..n \/ i = n + 1
        BY <1>3
      <3>2. \A i \in 1..(n + 1) : Retryable(f[i]) /\ f[i] \notin Declines
        BY <1>3, <1>5, <2>2, <3>1
      <3>3. \A i \in 1..n : i \in 1..(n + 1)
        BY <1>3
      <3>4. machine # "failed"
        BY DEF Stage
      <3>5. /\ Len(f) = n + 1 /\ n + 1 < MaxAttempts /\ n + 1 <= MaxAttempts /\ Len(f) - 1 = n
        BY <1>3, <2>2, ResearchBounds
      <3>6. \A i \in 1..(Len(f) - 1) : Retryable(f[i]) /\ f[i] \notin Declines
        BY <3>2, <3>3, <3>5
      <3>7. failures' = f /\ tool' = 0 /\ attempt' = Len(f) /\ machine' = machine
        BY <1>4, <2>1, <3>5
      <3> QED BY <3>2, <3>4, <3>5, <3>6, <3>7 DEF AttemptsInv, Stage, Retryable
    <2>5. \E j \in 0..7 : Walked(j)'
      BY <2>3
    <2> QED BY <1>3, <1>4, <1>6, <2>1, <2>4, <2>5 DEF ResearchInv
  <1> QED BY <1>4, <1>7, <1>8

LEMMA ResearchStep ==
  ASSUME ResearchInv, [ResearchNext]_researchVars
  PROVE  ResearchInv' /\ (aborted /\ tool = 0 => tool' = 0)
  <1>0. ASSUME NEW k, UNCHANGED <<machine, history, stageResults>>, Walked(k) PROVE Walked(k)'
    <2>1. Path' = Path
      BY DEF Path
    <2> QED BY <1>0, <2>1 DEF Walked
  <1>1. CASE Run
    <2>1. machine = "created" /\ machine' = "discovering" /\ recordTransition(machine, "discovering")
      BY <1>1, Stages DEF Run, Moves, ResearchInv
    <2>2. Walked(0) /\ machine = Path[0 + 1]
      <3>1. PICK k \in 0..7 : Walked(k)
        BY DEF ResearchInv
      <3>2. machine = Path[k + 1]
        BY <2>1, <3>1 DEF Walked
      <3>3. k = 0
        BY <2>1, <3>2 DEF Path
      <3> QED BY <3>1, <3>2, <3>3
    <2>3. "discovering" = Path[0 + 2]
      BY DEF Path
    <2>4. Walked(0 + 1)' /\ history' \in Seq(Transitions)
      BY <1>1, <2>1, <2>2, <2>3, WalkOn DEF Run
    <2>5. AttemptsInv'
      BY <1>1, <2>1, ResearchBounds DEF Run, AttemptsInv, Stage, ResearchInv
    <2>6. \E j \in 0..7 : Walked(j)'
      BY <2>4
    <2> QED BY <1>1, <2>1, <2>4, <2>5, <2>6 DEF Run, ResearchInv
  <1>2. CASE StartAttempt
    <2>1. Stage(machine) /\ tool = 0 /\ attempt + 1 = Len(failures) + 1
      BY <1>2, Stages DEF StartAttempt, ResearchInv, AttemptsInv
    <2>2. CASE Cancelled
      <3>1. Fails(Len(failures) + 1, "cancelled") /\ UNCHANGED <<tools, hasRun, stageResults>>
        BY <1>2, <2>1, <2>2 DEF StartAttempt
      <3> QED BY <2>1, <3>1, FailsKeeps
    <2>3. CASE ~Cancelled /\ tools = 0
      <3>1. Fails(Len(failures) + 1, "non_retryable") /\ UNCHANGED <<tools, hasRun, stageResults>>
        BY <1>2, <2>1, <2>3 DEF StartAttempt
      <3> QED BY <2>1, <3>1, FailsKeeps
    <2>4. CASE ~Cancelled /\ tools # 0
      <3>1. /\ attempt' = Len(failures) + 1 /\ tool' = 1
            /\ UNCHANGED <<machine, history, failures, tools, hasRun, stageResults>>
        BY <1>2, <2>1, <2>4 DEF StartAttempt
      <3>2. \E k \in 0..7 : Walked(k)'
        BY <1>0, <3>1 DEF ResearchInv
      <3>3. AttemptsInv'
        BY <2>1, <3>1 DEF ResearchInv, AttemptsInv, Stage, Retryable
      <3> QED BY <2>1, <2>4, <3>1, <3>2, <3>3 DEF ResearchInv, Cancelled, Stage
    <2> QED BY <2>2, <2>3, <2>4
  <1>3. CASE ToolReturns
    <2>1. Stage(machine) /\ tool > 0
      BY <1>3 DEF ToolReturns, ResearchInv, AttemptsInv
    <2>2. PICK k \in 1..6 : Walked(k) /\ machine = Path[k + 1]
      BY <2>1, InStage
    <2>3. machine' = Path[k + 2] /\ recordTransition(machine, Path[k + 2])
      BY <1>3, <2>2, Stages DEF ToolReturns, Moves
    <2>4. Walked(k + 1)' /\ history' \in Seq(Transitions)
      BY <1>3, <2>2, <2>3, WalkOn DEF ToolReturns
    <2>5. machine' # "failed" /\ machine' # "created" /\ hasRun
      <3>1. machine' # "failed" /\ machine' # "created"
        BY <2>2, <2>3 DEF Path
      <3> QED BY <2>1, <3>1 DEF ResearchInv, Stage
    <2>6. AttemptsInv'
      BY <1>3, <2>5, ResearchBounds DEF ToolReturns, AttemptsInv, Stage
    <2>7. \E j \in 0..7 : Walked(j)'
      BY <2>4
    <2> QED BY <1>3, <2>1, <2>4, <2>5, <2>6, <2>7 DEF ToolReturns, ResearchInv
  <1>4. ASSUME NEW c \in {"retryable", "non_retryable", "unknown"}, ToolThrows(c)
        PROVE  ResearchInv' /\ (aborted /\ tool = 0 => tool' = 0)
    <2>1. Stage(machine) /\ tool > 0 /\ attempt = Len(failures) + 1
      BY <1>4 DEF ToolThrows, ResearchInv, AttemptsInv
    <2>2. CASE c = "retryable" /\ tool < tools
      <3>1. tool' = tool + 1 /\ UNCHANGED <<machine, history, failures, attempt, tools, hasRun, stageResults>>
        BY <1>4, <2>2 DEF ToolThrows
      <3>2. \E k \in 0..7 : Walked(k)'
        BY <1>0, <3>1 DEF ResearchInv
      <3>3. AttemptsInv'
        BY <2>1, <3>1 DEF ResearchInv, AttemptsInv, Stage, Retryable
      <3> QED BY <2>1, <3>1, <3>2, <3>3 DEF ResearchInv, Stage
    <2>3. CASE ~(c = "retryable" /\ tool < tools)
      <3>1. Fails(Len(failures) + 1, c) /\ UNCHANGED <<tools, hasRun, stageResults>>
        BY <1>4, <2>1, <2>3 DEF ToolThrows
      <3> QED BY <2>1, <3>1, FailsKeeps
    <2> QED BY <2>2, <2>3
  <1>5. CASE TimesOut
    <2>1. Stage(machine) /\ tool > 0 /\ attempt = Len(failures) + 1
      BY <1>5 DEF TimesOut, ResearchInv, AttemptsInv
    <2>2. Fails(Len(failures) + 1, "timeout") /\ UNCHANGED <<tools, hasRun, stageResults>>
      BY <1>5, <2>1 DEF TimesOut
    <2> QED BY <2>1, <2>2, FailsKeeps
  <1>6. CASE UNCHANGED <<tools, hasRun, machine, history, stageResults, attempt, tool, failures>>
    <2>1. \E k \in 0..7 : Walked(k)'
      BY <1>0, <1>6 DEF ResearchInv
    <2> QED BY <1>6, <2>1 DEF ResearchInv, AttemptsInv, Stage, Retryable
  <1>7. ASSUME NEW s \in strays, NEW retryable, StraySettles(s, retryable)
        PROVE  UNCHANGED <<tools, hasRun, machine, history, stageResults, attempt, tool, failures>>
    BY <1>7 DEF StraySettles
  <1>8. Abort \/ UNCHANGED researchVars
          => UNCHANGED <<tools, hasRun, machine, history, stageResults, attempt, tool, failures>>
    BY DEF Abort, researchVars
  <1> QED BY <1>1, <1>2, <1>3, <1>4, <1>5, <1>6, <1>7, <1>8 DEF ResearchNext

(* Six stages, and only the whole path completes them.                        *)
LEMMA SixStages ==
  ASSUME NEW k \in 0..7
  PROVE  Cardinality({Path[i] : i \in 2..k}) = 6 <=> k = 7
  <1> DEFINE five == {"discovering", "ingesting", "analyzing", "validating", "memorizing"}
  <1>1. IsFiniteSet(five) /\ Cardinality(five) = 5
    <2>1. Cardinality({"discovering"}) = 1 /\ IsFiniteSet({"discovering"})
      BY FS_Singleton
    <2>2. Cardinality({"discovering", "ingesting"}) = 2 /\ IsFiniteSet({"discovering", "ingesting"})
      <3>1. {"discovering", "ingesting"} = {"discovering"} \cup {"ingesting"} /\ "ingesting" \notin {"discovering"}
        OBVIOUS
      <3> QED BY <2>1, <3>1, FS_AddElement
    <2>3. /\ Cardinality({"discovering", "ingesting", "analyzing"}) = 3
          /\ IsFiniteSet({"discovering", "ingesting", "analyzing"})
      <3>1. /\ {"discovering", "ingesting", "analyzing"} = {"discovering", "ingesting"} \cup {"analyzing"}
            /\ "analyzing" \notin {"discovering", "ingesting"}
        OBVIOUS
      <3> QED BY <2>2, <3>1, FS_AddElement
    <2>4. /\ Cardinality({"discovering", "ingesting", "analyzing", "validating"}) = 4
          /\ IsFiniteSet({"discovering", "ingesting", "analyzing", "validating"})
      <3>1. /\ {"discovering", "ingesting", "analyzing", "validating"}
                 = {"discovering", "ingesting", "analyzing"} \cup {"validating"}
            /\ "validating" \notin {"discovering", "ingesting", "analyzing"}
        OBVIOUS
      <3> QED BY <2>3, <3>1, FS_AddElement
    <2>5. Cardinality(five) = 5 /\ IsFiniteSet(five)
      <3>1. /\ five = {"discovering", "ingesting", "analyzing", "validating"} \cup {"memorizing"}
            /\ "memorizing" \notin {"discovering", "ingesting", "analyzing", "validating"}
        OBVIOUS
      <3> QED BY <2>4, <3>1, FS_AddElement
    <2> QED BY <2>5
  <1>2. CASE k # 7
    <2>1. {Path[i] : i \in 2..k} \subseteq five
      BY <1>2 DEF Path
    <2> HIDE DEF five
    <2>2. Cardinality({Path[i] : i \in 2..k}) <= Cardinality(five)
      BY <1>1, <2>1, FS_Subset
    <2>3. Cardinality({Path[i] : i \in 2..k}) \in Nat
      BY <1>1, <2>1, FS_Subset, FS_CardinalityType
    <2> QED BY <1>1, <1>2, <2>2, <2>3
  <1>3. CASE k = 7
    <2>1. {Path[i] : i \in 2..7} = {"discovering", "ingesting", "analyzing", "validating", "memorizing", "reporting"}
      BY DEF Path
    <2>2. Cardinality({"discovering", "ingesting", "analyzing", "validating", "memorizing", "reporting"}) = 6
      <3>6. /\ {"discovering", "ingesting", "analyzing", "validating", "memorizing", "reporting"}
                 = five \cup {"reporting"}
            /\ "reporting" \notin five
        OBVIOUS
      <3> HIDE DEF five
      <3> QED BY <1>1, <3>6, FS_AddElement
    <2> QED BY <1>3, <2>1, <2>2
  <1> QED BY <1>2, <1>3

LEMMA ResearchAgrees == ResearchInv => TelemetryAgrees /\ GivenUpForAReason
  <1> SUFFICES ASSUME ResearchInv PROVE TelemetryAgrees /\ GivenUpForAReason
    OBVIOUS
  <1>1. GivenUpForAReason
    BY DEF ResearchInv, AttemptsInv, GivenUpForAReason
  <1>2. PICK k \in 0..7 : Walked(k)
    BY DEF ResearchInv
  <1>3. Len(canonicalPlan) = 6
    BY DEF canonicalPlan
  <1>4. machine = "completed" <=> k = 7
    BY <1>2 DEF Walked, Path
  <1>5. machine = "completed" <=> Cardinality(stageResults) = Len(canonicalPlan)
    BY <1>2, <1>3, <1>4, SixStages DEF Walked
  <1>6. Len(history) = k \/ Len(history) = k + 1
    BY <1>2 DEF Walked
  <1>7. history # <<>> => history[1].from = "created" /\ history[Len(history)].to = machine
    <2> SUFFICES ASSUME history # <<>> PROVE history[1].from = "created" /\ history[Len(history)].to = machine
      OBVIOUS
    <2>1. Len(history) # 0
      BY EmptySeq DEF ResearchInv
    <2>2. k # 0
      BY <1>2, <2>1 DEF Walked
    <2>3. 1 \in 1..k /\ k \in 1..k
      BY <2>2
    <2>4. history[1] = [from |-> Path[1], to |-> Path[1 + 1]] /\ history[k] = [from |-> Path[k], to |-> Path[k + 1]]
      BY <1>2, <2>3 DEF Walked
    <2>5. Path[1] = "created"
      BY DEF Path
    <2>6. history[1].from = "created" /\ history[k].to = Path[k + 1]
      BY <2>4, <2>5
    <2> QED BY <1>2, <2>6 DEF Walked
  <1>8. \A i \in 1..(Len(history) - 1) : history[i].to = history[i + 1].from
    <2> SUFFICES ASSUME NEW i \in 1..(Len(history) - 1) PROVE history[i].to = history[i + 1].from
      OBVIOUS
    <2>1. i \in 1..k
      BY <1>6
    <2>0. \A j \in 1..k : history[j].from = Path[j] /\ history[j].to = Path[j + 1]
      <3> SUFFICES ASSUME NEW j \in 1..k PROVE history[j].from = Path[j] /\ history[j].to = Path[j + 1]
        OBVIOUS
      <3>1. history[j] = [from |-> Path[j], to |-> Path[j + 1]]
        BY <1>2 DEF Walked
      <3> QED BY <3>1
    <2>2. history[i].to = Path[i + 1]
      BY <2>0, <2>1
    <2>3. CASE i + 1 \in 1..k
      BY <2>0, <2>2, <2>3
    <2>4. CASE i + 1 \notin 1..k
      <3>1. i = k /\ Len(history) = k + 1
        BY <1>6, <2>1, <2>4
      <3>2. history[k + 1] = [from |-> Path[k + 1], to |-> "failed"]
        BY <1>2, <3>1 DEF Walked
      <3> QED BY <2>2, <3>1, <3>2
    <2> QED BY <2>3, <2>4
  <1>9. stageResults = {history[i].from : i \in {j \in DOMAIN history : history[j].to # "failed"}} \ {"created"}
    <2>1. \A i \in 1..k : history[i].from = Path[i] /\ history[i].to = Path[i + 1] /\ history[i].to # "failed"
      <3>1. \A i \in 1..k : Path[i + 1] # "failed"
        BY Stages
      <3> SUFFICES ASSUME NEW i \in 1..k PROVE history[i].from = Path[i] /\ history[i].to = Path[i + 1]
        BY <3>1
      <3>2. history[i] = [from |-> Path[i], to |-> Path[i + 1]]
        BY <1>2 DEF Walked
      <3> QED BY <3>2
    <2>2. PICK n : n = Len(history)
      OBVIOUS
    <2>a. DOMAIN history = 1..n /\ (n = k \/ n = k + 1)
      BY <1>6, <2>2 DEF ResearchInv
    <2>3. \A j \in DOMAIN history : history[j].to # "failed" <=> j \in 1..k
      <3>1. \A j \in DOMAIN history : j \in 1..k \/ (j = k + 1 /\ n = k + 1)
        BY <2>a
      <3>2. n = k + 1 => history[k + 1].to = "failed"
        BY <1>2, <2>2 DEF Walked
      <3> QED BY <2>1, <3>1, <3>2
    <2>4. 1..k \subseteq DOMAIN history
      BY <2>a
    <2>5. {j \in DOMAIN history : history[j].to # "failed"} = 1..k
      BY <2>3, <2>4
    <2>6. {history[i].from : i \in 1..k} = {Path[i] : i \in 1..k}
      BY <2>1
    <2>7. {Path[i] : i \in 1..k} \ {"created"} = {Path[i] : i \in 2..k}
      <3>1. \A i \in 1..k : Path[i] = "created" <=> i = 1
        BY DEF Path
      <3>2. \A i \in 1..k : i = 1 \/ i \in 2..k
        OBVIOUS
      <3>3. \A i \in 2..k : i \in 1..k /\ i # 1
        OBVIOUS
      <3> QED BY <3>1, <3>2, <3>3
    <2> QED BY <1>2, <2>5, <2>6, <2>7 DEF Walked
  <1> QED BY <1>1, <1>5, <1>7, <1>8, <1>9 DEF TelemetryAgrees

(* A research run accounts for itself (ResearchExecutionRuntime.run): with    *)
(* any number of tools and attempts, and any policy.                          *)
THEOREM ResearchStaysTrue == ResearchSpec => ResearchStaysAccounted
  <1>1. ResearchInv /\ [ResearchNext]_researchVars => ResearchInv'
    BY ResearchStep
  <1>2. ResearchInv /\ [ResearchNext]_researchVars => [aborted /\ tool = 0 => tool' = 0]_researchVars
    BY ResearchStep
  <1> QED BY <1>1, <1>2, ResearchStarts, ResearchAgrees, PTL
          DEF ResearchSpec, ResearchStaysAccounted, AbortStartsNothing

-----------------------------------------------------------------------------
(* Reading the web. What is pinned was checked, and a read that goes on has   *)
(* met no refusal.                                                            *)

\* The results of the first n anchors.
ResultsOf(anchors, n, kept) ==
  kept = [i \in 0..n |->
    IF i = 0 THEN <<>>
    ELSE IF /\ Len(kept[i - 1]) < MaxResults /\ Usable(anchors[i])
            /\ normalizeResultUrl(anchors[i]) \notin ToSet(kept[i - 1])
         THEN Append(kept[i - 1], normalizeResultUrl(anchors[i])) ELSE kept[i - 1]]

LEMMA ResultsExist ==
  ASSUME NEW anchors
  PROVE  \A n \in Nat : \E kept : ResultsOf(anchors, n, kept)
  <1> DEFINE S == {n \in Nat : \E kept : ResultsOf(anchors, n, kept)}
             next(a, i) == IF /\ Len(a[i - 1]) < MaxResults /\ Usable(anchors[i])
                              /\ normalizeResultUrl(anchors[i]) \notin ToSet(a[i - 1])
                           THEN Append(a[i - 1], normalizeResultUrl(anchors[i])) ELSE a[i - 1]
  <1>1. 0 \in S
    <2>1. ResultsOf(anchors, 0, [i \in 0..0 |-> <<>>])
      BY DEF ResultsOf
    <2> QED BY <2>1
  <1>2. ASSUME NEW n \in Nat, n \in S PROVE n + 1 \in S
    <2>1. PICK a : ResultsOf(anchors, n, a)
      BY <1>2
    <2> DEFINE b == [i \in 0..n + 1 |-> IF i = n + 1 THEN next(a, n + 1) ELSE a[i]]
    <2>2. \A i \in 0..n : b[i] = a[i] /\ i # n + 1
      OBVIOUS
    <2>3. b[n + 1] = next(a, n + 1)
      OBVIOUS
    <2>4. \A i \in 1..n + 1 : b[i - 1] = a[i - 1]
      OBVIOUS
    <2>5. \A i \in 0..n : a[i] = IF i = 0 THEN <<>> ELSE next(a, i)
      BY <2>1 DEF ResultsOf
    <2> HIDE DEF next, b
    <2>6. \A i \in 0..n + 1 : b[i] = IF i = 0 THEN <<>> ELSE next(b, i)
      <3>1. \A i \in 1..n + 1 : next(b, i) = next(a, i)
        BY <2>4 DEF next
      <3>2. \A i \in 0..n + 1 : i = n + 1 \/ i \in 0..n
        OBVIOUS
      <3>3. \A i \in 0..n : i \in 1..n + 1 \/ i = 0
        OBVIOUS
      <3>4. \A i \in 0..n : b[i] = IF i = 0 THEN <<>> ELSE next(b, i)
        BY <2>2, <2>5, <3>1, <3>3
      <3>5. n + 1 \in 1..n + 1 /\ n + 1 # 0
        OBVIOUS
      <3>6. b[n + 1] = next(b, n + 1)
        BY <2>3, <3>1, <3>5
      <3> QED BY <3>2, <3>4, <3>5, <3>6
    <2>7. b = [i \in 0..n + 1 |-> b[i]]
      BY DEF b
    <2>8. ResultsOf(anchors, n + 1, b)
      BY <2>6, <2>7 DEF ResultsOf, next
    <2> QED BY <2>8
  <1> HIDE DEF S
  <1>3. Nat \subseteq S
    BY <1>1, <1>2, EveryNumber
  <1> QED BY <1>3 DEF S

Readable(urls) == \E U : urls \in Seq(U) /\ \A u \in U : u.scheme = "web"

LEMMA ResultsReadable ==
  ASSUME NEW anchors, Len(anchors) \in Nat
  PROVE  Readable(parseDuckDuckGoHtml(anchors))
  <1> DEFINE n == Len(anchors)
             U == {normalizeResultUrl(anchors[i]) : i \in {j \in 1..n : Usable(anchors[j])}}
  <1>1. PICK kept : ResultsOf(anchors, n, kept) /\ parseDuckDuckGoHtml(anchors) = kept[n]
    <2>1. \E kept : ResultsOf(anchors, n, kept)
      BY ResultsExist
    <2> QED BY <2>1 DEF parseDuckDuckGoHtml, ResultsOf
  <1>2. \A i \in 0..n : kept[i] = IF i = 0 THEN <<>>
                            ELSE IF /\ Len(kept[i - 1]) < MaxResults /\ Usable(anchors[i])
                                    /\ normalizeResultUrl(anchors[i]) \notin ToSet(kept[i - 1])
                                 THEN Append(kept[i - 1], normalizeResultUrl(anchors[i])) ELSE kept[i - 1]
    BY <1>1 DEF ResultsOf
  <1>0. n \in Nat
    OBVIOUS
  <1>3. \A i \in 1..n : Usable(anchors[i]) => normalizeResultUrl(anchors[i]) \in U
    OBVIOUS
  <1>4. \A u \in U : u.scheme = "web"
    BY DEF Usable
  <1> HIDE DEF n, U
  <1> DEFINE S == {i \in Nat : i <= n => kept[i] \in Seq(U)}
  <1>5. 0 \in S
    <2>1. 0 \in 0..n
      BY <1>0
    <2>2. kept[0] = <<>>
      BY <1>2, <2>1
    <2>3. <<>> \in Seq(U)
      OBVIOUS
    <2> QED BY <2>2, <2>3
  <1>6. \A i \in Nat : i \in S => i + 1 \in S
    <2> SUFFICES ASSUME NEW i \in Nat, i \in S, i + 1 <= n PROVE kept[i + 1] \in Seq(U)
      OBVIOUS
    <2>1. i + 1 \in 0..n /\ i + 1 \in 1..n /\ i + 1 - 1 = i /\ i + 1 # 0 /\ kept[i] \in Seq(U)
      BY <1>0
    <2>2. PICK u : u = normalizeResultUrl(anchors[i + 1])
      OBVIOUS
    <2>3. \/ kept[i + 1] = kept[i]
          \/ kept[i + 1] = Append(kept[i], u) /\ Usable(anchors[i + 1])
      <3>1. kept[i + 1] = IF i + 1 = 0 THEN <<>>
                 ELSE IF /\ Len(kept[i + 1 - 1]) < MaxResults /\ Usable(anchors[i + 1])
                         /\ normalizeResultUrl(anchors[i + 1]) \notin ToSet(kept[i + 1 - 1])
                      THEN Append(kept[i + 1 - 1], normalizeResultUrl(anchors[i + 1])) ELSE kept[i + 1 - 1]
        BY <1>2, <2>1
      <3> QED BY <2>1, <2>2, <3>1
    <2>4. Usable(anchors[i + 1]) => u \in U
      BY <1>3, <2>1, <2>2
    <2>5. CASE kept[i + 1] = kept[i]
      BY <2>1, <2>5
    <2>6. CASE kept[i + 1] = Append(kept[i], u) /\ Usable(anchors[i + 1])
      <3>1. u \in U /\ kept[i] \in Seq(U)
        BY <2>1, <2>4, <2>6
      <3>2. Append(kept[i], u) \in Seq(U)
        BY <3>1, AppendProperties
      <3> QED BY <2>6, <3>2
    <2> QED BY <2>3, <2>5, <2>6
  <1>7. Nat \subseteq S
    <2> HIDE DEF S
    <2> QED BY <1>5, <1>6, EveryNumber
  <1>8. kept[n] \in Seq(U)
    BY <1>0, <1>7
  <1> QED BY <1>1, <1>4, <1>8 DEF Readable

(* What can end an attempt. *)
ReadErrors ==
  {"scheme", "private", "dnsAgain", "dnsUnknown", "redirects", "location", "reset", "exceeds", "coding",
   "binary", "http503", "abort"}

UnderWay == reading \in {"lookup", "request"}
NoRefusalYet == \A i \in DOMAIN readFailures : readFailures[i] \notin Refusals

WebInv ==
  /\ reading \in {"search", "next", "lookup", "request", "done"}
  /\ Readable(pending)
  /\ UnderWay => pending # <<>>
  /\ readFailures \in Seq(ReadErrors)
  /\ reading = "request" => isPublicAddress(pinned)
  /\ reading = "search" => readFailures = <<>>
  /\ UnderWay => Len(readFailures) <= Retries /\ NoRefusalYet
  /\ RefusalIsFinal /\ OnlyPublicIsReached

LEMMA WebStarts == WebInit => WebInv
  <1> SUFFICES ASSUME WebInit PROVE WebInv
    OBVIOUS
  <1>1. Readable(<<>>)
    <2>1. PICK U : U = {}
      OBVIOUS
    <2>2. <<>> \in Seq(U) /\ \A u \in U : u.scheme = "web"
      BY <2>1
    <2> QED BY <2>2 DEF Readable
  <1> QED BY <1>1, WebReadingBounds
          DEF WebInit, WebInv, UnderWay, NoRefusalYet, RefusalIsFinal, OnlyPublicIsReached

(* The end of an attempt: the outcome is recorded, or the next attempt starts *)
(* because what ended this one is no refusal.                                 *)
LEMMA AttemptFailsKeeps ==
  ASSUME WebInv, UnderWay, NEW error \in ReadErrors, AttemptFails(error),
         \A a \in reached' : isPublicAddress(a)
  PROVE  WebInv'
  <1>1. PICK f : f = Append(readFailures, error)
    OBVIOUS
  <1>2. /\ f \in Seq(ReadErrors) /\ Len(f) = Len(readFailures) + 1
        /\ f[Len(f)] = error /\ \A i \in 1..Len(readFailures) : f[i] = readFailures[i]
    BY <1>1, AppendProperties DEF WebInv
  <1>3. readFailures' = f
    BY <1>1 DEF AttemptFails
  <1>4. /\ Len(readFailures) \in Nat /\ Len(readFailures) <= Retries /\ Retries \in Nat
        /\ \A i \in 1..Len(readFailures) : readFailures[i] \notin Refusals
    BY WebReadingBounds DEF WebInv, NoRefusalYet
  <1>5. DOMAIN f = 1..Len(f) /\ Len(f) <= Retries + 1
        /\ \A i \in 1..Len(f) : f[i] \in Refusals => i = Len(f)
    BY <1>2, <1>4
  <1>6. OnlyPublicIsReached'
    BY DEF OnlyPublicIsReached
  <1>7. CASE isTransientError(error) /\ Len(readFailures) < Retries
    <2>1. reading' = "lookup" /\ pending' = pending
      BY <1>7 DEF AttemptFails, BeginAttempt
    <2>2. error \notin Refusals
      BY <1>7 DEF isTransientError, Mentions, Refusals
    <2>3. Len(f) <= Retries
      BY <1>2, <1>4, <1>7
    <2>4. \A i \in 1..Len(f) : f[i] \notin Refusals
      BY <1>2, <1>5, <2>2
    <2> QED BY <1>2, <1>3, <1>5, <1>6, <2>1, <2>3, <2>4
            DEF WebInv, UnderWay, NoRefusalYet, RefusalIsFinal
  <1>8. CASE ~(isTransientError(error) /\ Len(readFailures) < Retries)
    <2>1. reading' = "next" /\ pending' = Tail(pending)
      BY <1>8 DEF AttemptFails, Settle
    <2>2. Readable(Tail(pending))
      <3>1. PICK U : pending \in Seq(U) /\ \A u \in U : u.scheme = "web"
        BY DEF WebInv, Readable
      <3>2. Tail(pending) \in Seq(U)
        BY <3>1 DEF WebInv
      <3> QED BY <3>1, <3>2 DEF Readable
    <2> QED BY <1>2, <1>3, <1>5, <1>6, <2>1, <2>2
            DEF WebInv, UnderWay, NoRefusalYet, RefusalIsFinal
  <1> QED BY <1>7, <1>8

LEMMA SettleKeeps ==
  ASSUME WebInv, UnderWay, NEW outcome, Settle(outcome), UNCHANGED readFailures,
         \A a \in reached' : isPublicAddress(a)
  PROVE  WebInv'
  <1>1. Readable(Tail(pending))
    <2>1. PICK U : pending \in Seq(U) /\ \A u \in U : u.scheme = "web"
      BY DEF WebInv, Readable
    <2>2. Tail(pending) \in Seq(U)
      BY <2>1 DEF WebInv
    <2> QED BY <2>1, <2>2 DEF Readable
  <1> QED BY <1>1, WebReadingBounds
          DEF WebInv, UnderWay, NoRefusalYet, RefusalIsFinal, OnlyPublicIsReached, Settle

LEMMA WebStep == WebInv /\ [WebNext]_webVars => WebInv'
  <1> SUFFICES ASSUME WebInv, [WebNext]_webVars PROVE WebInv'
    OBVIOUS
  <1>1. ASSUME reading = "request", reached' = reached \cup {pinned}
        PROVE  \A a \in reached' : isPublicAddress(a)
    BY <1>1 DEF WebInv, OnlyPublicIsReached
  <1>2. ASSUME UNCHANGED reached PROVE \A a \in reached' : isPublicAddress(a)
    BY <1>2 DEF WebInv, OnlyPublicIsReached
  <1>3. ASSUME NEW page \in ResultPages, SearchWeb(page) PROVE WebInv'
    <2>1. Readable(parseDuckDuckGoHtml(page))
      BY ResultsReadable, WebReadingBounds
    <2> QED BY <1>3, <2>1, WebReadingBounds
            DEF SearchWeb, WebInv, UnderWay, NoRefusalYet, RefusalIsFinal, OnlyPublicIsReached
  <1>4. CASE ReadNext
    BY <1>4, WebReadingBounds
       DEF ReadNext, BeginAttempt, WebInv, UnderWay, NoRefusalYet, RefusalIsFinal, OnlyPublicIsReached
  <1>5. CASE ReadsDone
    BY <1>5 DEF ReadsDone, WebInv, UnderWay, NoRefusalYet, RefusalIsFinal, OnlyPublicIsReached
  <1>6. CASE AbortRead
    BY <1>2, <1>6, AttemptFailsKeeps DEF ReadErrors, AbortRead, UnderWay
  <1>7. CASE ReadTimesOut
    BY <1>7 DEF ReadTimesOut, WebInv, UnderWay, NoRefusalYet, RefusalIsFinal, OnlyPublicIsReached
  <1>8. ASSUME NEW addresses, Lookup(addresses) PROVE WebInv'
    <2>1. CASE url.scheme # "web"
      BY <1>2, <1>8, <2>1, AttemptFailsKeeps DEF ReadErrors, Lookup, UnderWay
    <2>2. CASE url.scheme = "web" /\ (url.kind = "localhost" \/ ~Admits(addresses))
      BY <1>2, <1>8, <2>2, AttemptFailsKeeps DEF ReadErrors, Lookup, UnderWay
    <2>3. CASE url.scheme = "web" /\ ~(url.kind = "localhost" \/ ~Admits(addresses))
      <3>1. isPublicAddress(pinned')
        BY <1>8, <2>3 DEF Lookup, Admits
      <3>2. isPublicAddress(pinned)'
        BY <3>1 DEF isPublicAddress, ipv4MappedFromAddress
      <3> QED BY <1>8, <2>3, <3>2
              DEF Lookup, WebInv, UnderWay, NoRefusalYet, RefusalIsFinal, OnlyPublicIsReached
    <2> QED BY <2>1, <2>2, <2>3
  <1>9. ASSUME NEW error \in {"dnsAgain", "dnsUnknown"}, LookupFails(error) PROVE WebInv'
    BY <1>2, <1>9, AttemptFailsKeeps DEF ReadErrors, LookupFails, UnderWay
  <1>10. ASSUME NEW to, Redirect(to) PROVE WebInv'
    <2>1. \A a \in reached' : isPublicAddress(a)
      BY <1>1, <1>10 DEF Redirect, Connects
    <2>2. CASE hops = MaxRedirects
      BY <1>10, <2>1, <2>2, AttemptFailsKeeps DEF ReadErrors, Redirect, Connects, UnderWay
    <2>3. CASE hops # MaxRedirects
      BY <1>10, <2>1, <2>3
         DEF Redirect, Connects, WebInv, UnderWay, NoRefusalYet, RefusalIsFinal, OnlyPublicIsReached
    <2> QED BY <2>2, <2>3
  <1>11. ASSUME NEW error \in ReadErrors, BadAnswer(error) PROVE WebInv'
    <2>1. \A a \in reached' : isPublicAddress(a)
      BY <1>1, <1>11 DEF BadAnswer, Connects
    <2> QED BY <1>11, <2>1, AttemptFailsKeeps DEF BadAnswer, Connects, UnderWay
  <1>12. ASSUME NEW status, NEW body, AnswerReader(status, body) PROVE WebInv'
    <2>1. \A a \in reached' : isPublicAddress(a)
      BY <1>1, <1>12 DEF AnswerReader, Connects
    <2>2. CASE status = 503 /\ Len(readFailures) < Retries
      BY <1>12, <2>1, <2>2, AttemptFailsKeeps DEF ReadErrors, AnswerReader, Connects, UnderWay
    <2>3. CASE ~(status = 503 /\ Len(readFailures) < Retries)
      BY <1>12, <2>1, <2>3, SettleKeeps DEF AnswerReader, Connects, UnderWay
    <2> QED BY <2>2, <2>3
  <1>13. CASE UNCHANGED webVars
    BY <1>13 DEF webVars, WebInv, UnderWay, NoRefusalYet, RefusalIsFinal, OnlyPublicIsReached
  <1> QED BY <1>3, <1>4, <1>5, <1>6, <1>7, <1>8, <1>9, <1>10, <1>11, <1>12, <1>13 DEF WebNext, ReadErrors

(* Reading pages stays safe: whatever resolvers and servers answer, only      *)
(* public addresses are reached, a refusal is not tried again, and no result  *)
(* of a search is refused for its form (WebPageFetcher).                      *)
THEOREM ReadsStaySafe == WebSpec => []ReadsAreSafe
  <1>1. WebInv => ReadsAreSafe
    <2> SUFFICES ASSUME WebInv PROVE ResultsCanBeRead
      BY DEF WebInv, ReadsAreSafe
    <2>1. PICK U : pending \in Seq(U) /\ \A u \in U : u.scheme = "web"
      BY DEF WebInv, Readable
    <2> QED BY <2>1 DEF ResultsCanBeRead
  <1> QED BY <1>1, WebStarts, WebStep, PTL DEF WebSpec

-----------------------------------------------------------------------------
(* Quotients and remainders.                                                   *)

LEMMA DivMod ==
  ASSUME NEW a \in Int, NEW b \in Nat \ {0}
  PROVE  \E q \in Int, r \in 0..b - 1 : q = a \div b /\ r = a % b /\ a = b * q + r
  <1>1. PICK q, r : q = a \div b /\ r = a % b
    OBVIOUS
  <1>2. q \in Int /\ r \in 0..b - 1
    BY <1>1
  <1>3. a = b * q + r
    BY <1>1, <1>2
  <1> QED BY <1>1, <1>2, <1>3

(* Multiples of a number are at least that number apart.                       *)
LEMMA AtLeast ==
  ASSUME NEW b \in Nat \ {0}, NEW x \in Int, NEW y \in Int, x < y
  PROVE  b * x + b <= b * y
  <1>1. PICK d \in Nat : y = x + 1 + d
    <2>1. y - x - 1 \in Nat /\ y = x + 1 + (y - x - 1)
      OBVIOUS
    <2> QED BY <2>1
  <1>2. b * y = b * x + b + b * d
    BY <1>1
  <1>3. b * d \in Nat /\ b * x \in Int
    OBVIOUS
  <1> QED BY <1>2, <1>3

(* There is only one way to divide.                                            *)
LEMMA DivUnique ==
  ASSUME NEW b \in Nat \ {0}, NEW q \in Int, NEW r \in 0..b - 1
  PROVE  (b * q + r) \div b = q /\ (b * q + r) % b = r
  <1>1. PICK p : p = b * q
    OBVIOUS
  <1>2. p \in Int
    BY <1>1
  <1>3. PICK k \in Int, m \in 0..b - 1 : k = (p + r) \div b /\ m = (p + r) % b /\ p + r = b * k + m
    BY <1>2, DivMod
  <1>4. b * k \in Int /\ b * q \in Int
    OBVIOUS
  <1>5. k = q
    <2>1. k < q => b * k + b <= b * q
      BY AtLeast
    <2>2. q < k => b * q + b <= b * k
      BY AtLeast
    <2> QED BY <1>1, <1>2, <1>3, <1>4, <2>1, <2>2
  <1>6. m = r
    <2>1. b * k = p
      BY <1>1, <1>5
    <2> QED BY <1>2, <1>3, <2>1
  <1> QED BY <1>1, <1>3, <1>5, <1>6

-----------------------------------------------------------------------------
(* The scheduler. What latestDueAt computes from quotients is the largest      *)
(* instant of the calendar that is not after the clock the poller read; that   *)
(* instant does not change afterwards, because a schedule, once registered,    *)
(* stays as it is.                                                             *)

(* What it means that an instant is the last one a schedule names by now.      *)
LastOccurrence(s, now, t) ==
  /\ t \in Occurrences(s) /\ t <= now
  /\ \A u \in Occurrences(s) : u <= now => u <= t

LEMMA IntervalOccurrence ==
  ASSUME NEW s, s.kind = "interval", s.start \in Nat, s.interval \in Nat \ {0},
         NEW now \in 0..Horizon, s.start <= now
  PROVE  LastOccurrence(s, now, s.start + ((now - s.start) \div s.interval) * s.interval)
  <1>1. PICK st \in Nat, i \in Nat \ {0} : st = s.start /\ i = s.interval
    OBVIOUS
  <1>2. PICK n \in Int, r \in 0..i - 1 : n = (now - st) \div i /\ now - st = i * n + r
    <2>1. now - st \in Int
      OBVIOUS
    <2> QED BY <2>1, DivMod
  <1>3. n >= 0
    <2>1. n < 0 => i * n + i <= i * 0
      BY AtLeast
    <2> QED BY <1>1, <1>2, <2>1, SchedulerTimes
  <1>4. PICK p \in Nat : p = i * n
    BY <1>3
  <1>5. st + p \in st..Horizon /\ st + p <= now
    BY <1>1, <1>2, <1>4, SchedulerTimes
  <1>6. (st + p - st) % i = 0
    <2>1. (i * n + 0) % i = 0
      <3>1. 0 \in 0..i - 1
        OBVIOUS
      <3>2. \A q \in Int, x \in 0..i - 1 : (i * q + x) % i = x
        BY DivUnique
      <3> QED BY <3>1, <3>2
    <2>2. st + p - st = i * n + 0
      BY <1>4
    <2> QED BY <2>1, <2>2
  <1>7. ASSUME NEW u \in st..Horizon, u <= now, (u - st) % i = 0 PROVE u <= st + p
    <2>1. PICK k \in Int : u - st = i * k + 0
      <3>1. u - st \in Int
        OBVIOUS
      <3>2. PICK k \in Int, r1 \in 0..i - 1 : r1 = (u - st) % i /\ u - st = i * k + r1
        BY <3>1, DivMod
      <3> QED BY <1>7, <3>2
    <2>2. n < k => i * n + i <= i * k
      BY AtLeast
    <2>3. k < n => i * k + i <= i * n
      BY AtLeast
    <2>4. i * k \in Int
      OBVIOUS
    <2> QED BY <1>2, <1>4, <1>7, <2>1, <2>2, <2>3, <2>4
  <1>8. s.start + ((now - s.start) \div s.interval) * s.interval = st + p
    BY <1>1, <1>2, <1>4
  <1> QED BY <1>1, <1>5, <1>6, <1>7, <1>8 DEF LastOccurrence, Occurrences

(* The clock and the instants of a day, as whole days and what is left.        *)
LEMMA DaysAndTime ==
  ASSUME NEW now \in Nat
  PROVE  \E d \in Nat, m \in 0..TicksPerDay - 1 :
           d = now \div TicksPerDay /\ m = now % TicksPerDay /\ now = TicksPerDay * d + m
  <1>1. PICK d \in Int, m \in 0..TicksPerDay - 1 :
          d = now \div TicksPerDay /\ m = now % TicksPerDay /\ now = TicksPerDay * d + m
    BY DivMod, SchedulerTimes
  <1>2. d >= 0
    <2>1. d < 0 => TicksPerDay * d + TicksPerDay <= TicksPerDay * 0
      BY AtLeast, SchedulerTimes
    <2>2. TicksPerDay * 0 = 0 /\ TicksPerDay * d \in Int
      BY SchedulerTimes
    <2> QED BY <1>1, <2>1, <2>2, SchedulerTimes
  <1> QED BY <1>1, <1>2

LEMMA DailyOccurrence ==
  ASSUME NEW s, s.kind = "daily", s.start \in Nat, s.timeOfDay \in 0..(TicksPerDay - 1),
         NEW now \in 0..Horizon, NEW c, c >= s.start,
         c = IF Today(s, now) > now THEN Today(s, now) - TicksPerDay ELSE Today(s, now)
  PROVE  LastOccurrence(s, now, c)
  <1>1. PICK st \in Nat, tod \in 0..TicksPerDay - 1, D \in Nat \ {0} :
          st = s.start /\ tod = s.timeOfDay /\ D = TicksPerDay
    BY SchedulerTimes
  <1>2. now \in Nat
    BY SchedulerTimes
  <1>3. PICK d \in Nat, m \in 0..D - 1 : d = now \div D /\ now = D * d + m
    BY <1>1, <1>2, DaysAndTime
  <1>4. Today(s, now) = D * d + tod
    BY <1>1, <1>3 DEF Today
  <1>5. PICK q \in Int : /\ c = D * q + tod /\ c <= now /\ now < D * q + D + tod
    <2>1. PICK p \in Int : p = D * d
      OBVIOUS
    <2>2. D * (d - 1) = p - D /\ d - 1 \in Int
      BY <2>1
    <2>3. c = IF p + tod > now THEN p + tod - D ELSE p + tod
      BY <1>1, <1>4, <2>1
    <2>4. now = p + m
      BY <1>3, <2>1
    <2>5. tod \in 0..D - 1 /\ now \in Nat
      BY <1>1, <1>2
    <2>6. CASE p + tod > now
      <3>1. c = p - D + tod /\ c <= now /\ now < p - D + D + tod
        BY <2>5, <2>3, <2>4, <2>6
      <3> QED BY <2>2, <3>1
    <2>7. CASE ~(p + tod > now)
      <3>1. c = p + tod /\ c <= now /\ now < p + D + tod
        BY <2>5, <2>3, <2>4, <2>7
      <3>2. c = D * d + tod /\ now < D * d + D + tod /\ d \in Int
        BY <2>1, <3>1
      <3> QED BY <3>1, <3>2
    <2> QED BY <2>6, <2>7
  <1>6. PICK p \in Int : p = D * q
    OBVIOUS
  <1>7. c \in st..Horizon /\ c % D = tod
    <2>1. (D * q + tod) % D = tod
      BY <1>1, DivUnique
    <2>2. c \in st..Horizon
      BY <1>1, <1>2, <1>5, <1>6, SchedulerTimes
    <2> QED BY <1>5, <2>1, <2>2
  <1>8. ASSUME NEW u \in st..Horizon, u <= now, u % D = tod PROVE u <= c
    <2>1. u \in Nat
      OBVIOUS
    <2>2. PICK k \in Nat, m1 \in 0..D - 1 : m1 = u % D /\ u = D * k + m1
      BY <1>1, <2>1, DaysAndTime
    <2>3. m1 = tod
      BY <1>8, <2>2
    <2>4. u = D * k + tod
      BY <2>2, <2>3
    <2>5. q < k => D * q + D <= D * k
      BY AtLeast
    <2>6. k < q => D * k + D <= D * q
      BY AtLeast
    <2>7. D * k \in Int
      OBVIOUS
    <2> QED BY <1>1, <1>2, <1>5, <1>6, <1>8, <2>4, <2>5, <2>6, <2>7
  <1> QED BY <1>1, <1>5, <1>7, <1>8 DEF LastOccurrence, Occurrences

(* The days back to a day of the week, and what is left of them.               *)
LEMMA DaysBack ==
  ASSUME NEW W \in Nat \ {0}, NEW x \in 0..W - 1, NEW dow \in 0..W - 1
  PROVE  LET e == (x - dow + W) % W IN
         e \in 0..W - 1 /\ (e = x - dow \/ e = x - dow + W)
  <1>1. CASE x < dow
    <2>1. (W * 0 + (x - dow + W)) % W = x - dow + W
      BY <1>1, DivUnique
    <2>2. W * 0 + (x - dow + W) = x - dow + W
      OBVIOUS
    <2> QED BY <1>1, <2>1, <2>2
  <1>2. CASE ~(x < dow)
    <2>1. (W * 1 + (x - dow)) % W = x - dow
      BY <1>2, DivUnique
    <2>2. W * 1 + (x - dow) = x - dow + W
      OBVIOUS
    <2> QED BY <1>2, <2>1, <2>2
  <1> QED BY <1>1, <1>2

LEMMA WeeklyOccurrence ==
  ASSUME NEW s, s.kind = "weekly", s.start \in Nat, s.timeOfDay \in 0..(TicksPerDay - 1),
         s.dayOfWeek \in 0..(DaysPerWeek - 1),
         NEW now \in 0..Horizon, NEW c, c >= s.start,
         c = Today(s, now) - WeeklyDelta(s, now) * TicksPerDay
  PROVE  LastOccurrence(s, now, c)
  <1>a. PICK st \in Nat, D \in Nat \ {0}, W \in Nat \ {0} :
          st = s.start /\ D = TicksPerDay /\ W = DaysPerWeek
    BY SchedulerTimes
  <1>b. PICK tod \in 0..D - 1, dow \in 0..W - 1 : tod = s.timeOfDay /\ dow = s.dayOfWeek
    BY <1>a
  <1>1. /\ st = s.start /\ tod = s.timeOfDay /\ D = TicksPerDay /\ W = DaysPerWeek
        /\ dow = s.dayOfWeek
    BY <1>a, <1>b
  <1>2. now \in Nat
    BY SchedulerTimes
  <1>3. PICK d \in Nat, m \in 0..D - 1 : d = now \div D /\ now = D * d + m
    BY <1>1, <1>2, DaysAndTime
  <1>4. PICK w \in Int, x \in 0..W - 1 : w = d \div W /\ x = d % W /\ d = W * w + x
    <2>1. d \in Int
      OBVIOUS
    <2> QED BY <2>1, DivMod
  <1>5. Today(s, now) = D * d + tod
    BY <1>1, <1>3 DEF Today
  <1>6. PICK e \in 0..W - 1 : e = DaysSince(s, now) /\ (e = x - dow \/ e = x - dow + W)
    <2>1. DayOfWeek(now) = x
      BY <1>1, <1>3, <1>4 DEF DayOfWeek
    <2>2. DaysSince(s, now) = (x - dow + W) % W
      BY <1>1, <2>1 DEF DaysSince
    <2> QED BY <2>2, DaysBack
  <1>7. PICK dl \in Nat : /\ dl = WeeklyDelta(s, now)
                          /\ IF e = 0 /\ D * d + tod > now THEN dl = W ELSE dl = e
    BY <1>1, <1>5, <1>6 DEF WeeklyDelta
  <1>8. PICK q \in Int : q = d - dl
    OBVIOUS
  <1>9. PICK v \in Int : q = W * v + dow
    <2>1. PICK p \in Int : p = W * w
      OBVIOUS
    <2>2. W * (w - 1) = p - W /\ w - 1 \in Int
      BY <2>1
    <2>3. q = p + x - dl
      <3>1. d = p + x
        BY <1>4, <2>1
      <3> QED BY <1>8, <3>1
    <2>4. q = p + dow \/ q = p - W + dow
      BY <1>6, <1>7, <2>3
    <2> QED BY <2>1, <2>2, <2>4
  <1>10. c = D * q + tod
    <2>1. PICK p1, p2 \in Int : p1 = D * d /\ p2 = dl * D
      OBVIOUS
    <2>2. D * q = p1 - p2
      BY <1>8, <2>1
    <2>3. c = p1 + tod - p2
      BY <1>1, <1>5, <1>7, <2>1
    <2> QED BY <2>1, <2>2, <2>3
  <1>11. D * d \in Int /\ D * q \in Int
    OBVIOUS
  <1>12. c <= now
    <2>1. PICK p1, p2 \in Int : p1 = D * d /\ p2 = D * q
      OBVIOUS
    <2>2. q < d => p2 + D <= p1
      BY <2>1, AtLeast
    <2>3. q = d => p1 + tod <= now /\ p2 = p1
      BY <1>2, <1>7, <1>8, <2>1
    <2> QED BY <1>2, <1>3, <1>7, <1>8, <1>10, <2>1, <2>2, <2>3
  <1>13. c \in st..Horizon /\ c % D = tod /\ DayOfWeek(c) = dow
    <2>1. (D * q + tod) % D = tod /\ (D * q + tod) \div D = q
      BY DivUnique
    <2>2. (W * v + dow) % W = dow
      BY DivUnique
    <2>3. c \in st..Horizon
      BY <1>1, <1>2, <1>10, <1>11, <1>12, SchedulerTimes
    <2> QED BY <1>1, <1>9, <1>10, <2>1, <2>2, <2>3 DEF DayOfWeek
  <1>14. ASSUME NEW u \in st..Horizon, u <= now, u % D = tod, DayOfWeek(u) = dow PROVE u <= c
    <2>1. u \in Nat
      OBVIOUS
    <2>2. PICK k \in Nat : k = u \div D /\ u = D * k + tod
      <3>1. PICK k \in Nat, m1 \in 0..D - 1 : k = u \div D /\ m1 = u % D /\ u = D * k + m1
        BY <1>1, <2>1, DaysAndTime
      <3> QED BY <1>14, <3>1
    <2>3. PICK j \in Int : k = W * j + dow
      <3>1. k % W = dow
        BY <1>1, <1>14, <2>2 DEF DayOfWeek
      <3>2. k \in Int
        OBVIOUS
      <3>3. PICK j \in Int, x1 \in 0..W - 1 : j = k \div W /\ x1 = k % W /\ k = W * j + x1
        BY <3>2, DivMod
      <3>4. x1 = dow
        BY <3>1, <3>3
      <3> QED BY <3>3, <3>4
    <2>4. W * j \in Int /\ W * v \in Int /\ D * k \in Int
      OBVIOUS
    <2>5. k <= d
      <3>1. d < k => D * d + D <= D * k
        BY AtLeast
      <3> QED BY <1>2, <1>3, <1>11, <1>14, <2>2, <2>4, <3>1
    <2>6. q < k => k >= q + W
      <3>1. v < j => W * v + W <= W * j
        BY AtLeast
      <3>2. j < v => W * j + W <= W * v
        BY AtLeast
      <3> QED BY <1>9, <2>3, <2>4, <3>1, <3>2
    <2>7. q < k => k = d /\ D * d + tod > now
      BY <1>6, <1>7, <1>8, <2>5, <2>6
    <2>8. ~(q < k)
      BY <1>2, <1>11, <1>14, <2>2, <2>7
    <2>9. k < q => D * k + D <= D * q
      BY AtLeast
    <2> QED BY <1>10, <1>11, <2>2, <2>4, <2>8, <2>9
  <1> QED BY <1>1, <1>12, <1>13, <1>14 DEF LastOccurrence, Occurrences

(* latestDueAt against the calendar.                                           *)
LEMMA LatestIsLast ==
  ASSUME NEW s, ValidSchedule(s), s.start \in Nat, NEW now \in 0..Horizon,
         LatestDueAt(s, now) # NotDue
  PROVE  LastOccurrence(s, now, LatestDueAt(s, now))
  <1>1. CASE s.kind = "once"
    <2>1. LatestDueAt(s, now) = s.start /\ s.start <= now
      BY <1>1, SchedulerTimes DEF LatestDueAt
    <2> QED BY <1>1, <2>1, SchedulerTimes DEF LastOccurrence, Occurrences
  <1>2. CASE s.kind = "interval"
    <2>1. PICK c : c = s.start + ((now - s.start) \div s.interval) * s.interval
      OBVIOUS
    <2>2. LatestDueAt(s, now) = IF s.start > now \/ c < s.start THEN NotDue ELSE c
      BY <1>2, <2>1 DEF LatestDueAt
    <2>3. s.interval \in Nat \ {0}
      BY <1>2 DEF ValidSchedule
    <2> QED BY <1>2, <2>1, <2>2, <2>3, IntervalOccurrence, SchedulerTimes
  <1>3. CASE s.kind = "daily"
    <2>1. PICK c : c = IF Today(s, now) > now THEN Today(s, now) - TicksPerDay ELSE Today(s, now)
      OBVIOUS
    <2>2. LatestDueAt(s, now) = IF s.start > now \/ c < s.start THEN NotDue ELSE c
      BY <1>3, <2>1 DEF LatestDueAt
    <2>3. s.timeOfDay \in 0..(TicksPerDay - 1)
      BY <1>3 DEF ValidSchedule
    <2>4. c \in Int
      <3>1. now \in Int /\ TicksPerDay \in Nat \ {0} /\ s.timeOfDay \in Int
        BY <2>3, SchedulerTimes
      <3>2. Today(s, now) \in Int
        <4>1. now \div TicksPerDay \in Int
          BY <3>1, DivMod
        <4> QED BY <3>1, <4>1 DEF Today
      <3> QED BY <2>1, <3>1, <3>2
    <2>5. LatestDueAt(s, now) = c /\ c >= s.start
      BY <2>2, <2>4
    <2> QED BY <1>3, <2>1, <2>3, <2>5, DailyOccurrence
  <1>4. CASE s.kind = "weekly"
    <2>1. PICK c : c = Today(s, now) - WeeklyDelta(s, now) * TicksPerDay
      OBVIOUS
    <2>2. LatestDueAt(s, now) = IF s.start > now \/ c < s.start THEN NotDue ELSE c
      BY <1>4, <2>1 DEF LatestDueAt
    <2>3. s.timeOfDay \in 0..(TicksPerDay - 1) /\ s.dayOfWeek \in 0..(DaysPerWeek - 1)
      BY <1>4 DEF ValidSchedule
    <2>4. c \in Int
      <3>1. now \in Int /\ TicksPerDay \in Nat \ {0} /\ s.timeOfDay \in Int /\ s.dayOfWeek \in Int
            /\ DaysPerWeek \in Nat \ {0}
        BY <2>3, SchedulerTimes
      <3>2. now \div TicksPerDay \in Int
        BY <3>1, DivMod
      <3>3. DayOfWeek(now) \in Int
        BY <3>1, <3>2, DivMod DEF DayOfWeek
      <3>4. DaysSince(s, now) \in Int
        <4>1. DayOfWeek(now) - s.dayOfWeek + DaysPerWeek \in Int
          BY <3>1, <3>3
        <4> QED BY <3>1, <4>1, DivMod DEF DaysSince
      <3>5. WeeklyDelta(s, now) \in Int
        BY <3>1, <3>4 DEF WeeklyDelta
      <3>6. Today(s, now) \in Int
        BY <3>1, <3>2 DEF Today
      <3> QED BY <2>1, <3>1, <3>5, <3>6
    <2>5. LatestDueAt(s, now) = c /\ c >= s.start
      BY <2>2, <2>4
    <2> QED BY <1>4, <2>1, <2>3, <2>5, WeeklyOccurrence
  <1> QED BY <1>1, <1>2, <1>3, <1>4 DEF ValidSchedule

(* A claim keeps what it was made from: the schedule and the clock of its      *)
(* poller.                                                                     *)
ClaimRecord == [schedule : Schedules, due : Int, claimedAt : 0..Horizon,
                status : {"claimed", "completed", "failed"}]

SchedulesInv ==
  \A id \in DOMAIN schedules :
    id \in Schedules /\ schedules[id] \in ScheduleSpecs[id] /\ ValidSchedule(schedules[id])
PollingInv ==
  /\ clock \in 0..Horizon
  /\ DOMAIN polling = Pollers /\ \A p \in Pollers : polling[p] \in 0..Horizon \cup {Unread}
ClaimInv ==
  \A c \in claims :
    /\ c \in ClaimRecord /\ c.schedule \in DOMAIN schedules
    /\ c.due # NotDue /\ c.due = LatestDueAt(schedules[c.schedule], c.claimedAt)

SchedulerInv == SchedulesInv /\ PollingInv /\ ClaimInv /\ OccurrenceClaimedOnce

LEMMA DueIsLast ==
  ASSUME SchedulesInv, NEW id \in DOMAIN schedules, NEW now \in 0..Horizon,
         LatestDueAt(schedules[id], now) # NotDue
  PROVE  LastOccurrence(schedules[id], now, LatestDueAt(schedules[id], now))
  BY LatestIsLast, SchedulerTimes DEF SchedulesInv

LEMMA SchedulerInitInv == SchedulerInit => SchedulerInv
  BY SchedulerTimes DEF SchedulerInit, SchedulerInv, SchedulesInv, PollingInv, ClaimInv,
     OccurrenceClaimedOnce

LEMMA RegisterKeeps ==
  ASSUME SchedulerInv, NEW id \in Schedules, NEW s \in ScheduleSpecs[id], Register(id, s)
  PROVE  SchedulerInv'
  <1>1. /\ DOMAIN schedules' = DOMAIN schedules \cup {id} /\ schedules'[id] = s
        /\ \A x \in DOMAIN schedules : schedules'[x] = schedules[x]
    BY DEF Register
  <1>2. UNCHANGED <<clock, claims, polling>> /\ ValidSchedule(s)
    BY DEF Register
  <1>3. SchedulesInv'
    <2> SUFFICES ASSUME NEW x \in DOMAIN schedules'
                 PROVE  x \in Schedules /\ schedules'[x] \in ScheduleSpecs[x] /\ ValidSchedule(schedules'[x])
      BY DEF SchedulesInv
    <2> QED BY <1>1, <1>2 DEF SchedulerInv, SchedulesInv
  <1>4. ClaimInv'
    BY <1>1, <1>2 DEF SchedulerInv, ClaimInv
  <1> QED BY <1>2, <1>3, <1>4 DEF SchedulerInv, PollingInv, OccurrenceClaimedOnce

LEMMA ClaimDueKeeps ==
  ASSUME SchedulerInv, NEW p \in Pollers, NEW n \in Limits, ClaimDue(p, n)
  PROVE  SchedulerInv' /\ claims \subseteq claims'
  <1>1. PICK now : now = polling[p]
    OBVIOUS
  <1>2. now \in 0..Horizon
    BY <1>1 DEF ClaimDue, SchedulerInv, PollingInv
  <1>3. PICK taken \in SUBSET Due(now) :
          claims' = claims \cup {RunClaim(id, LatestDueAt(schedules[id], now), now) : id \in taken}
    <2>1. PICK taken : taken = {id \in Due(now) : Cardinality({x \in Due(now) : Precedes(x, id, now)}) < BoundedLimit(n)}
      OBVIOUS
    <2>2. claims' = claims \cup {RunClaim(id, LatestDueAt(schedules[id], now), now) : id \in taken}
      BY <1>1, <2>1 DEF ClaimDue
    <2>3. taken \in SUBSET Due(now)
      BY <2>1
    <2> QED BY <2>2, <2>3
  <1>4. \A id \in taken :
          /\ id \in DOMAIN schedules /\ LatestDueAt(schedules[id], now) # NotDue
          /\ ~ \E c \in claims : c.schedule = id /\ c.due = LatestDueAt(schedules[id], now)
    BY <1>3 DEF Due
  <1>5. UNCHANGED <<clock, schedules>>
    BY DEF ClaimDue
  <1>6. PollingInv'
    BY <1>5 DEF ClaimDue, SchedulerInv, PollingInv
  <1>7. ASSUME NEW c \in claims', c \notin claims
        PROVE  \E id \in taken : /\ c = RunClaim(id, LatestDueAt(schedules[id], now), now)
                                 /\ c.schedule = id /\ c.due = LatestDueAt(schedules[id], now)
                                 /\ c.claimedAt = now /\ c.status = "claimed"
    BY <1>3, <1>7 DEF RunClaim
  <1>8. ClaimInv'
    <2> SUFFICES ASSUME NEW c \in claims'
                 PROVE  /\ c \in ClaimRecord /\ c.schedule \in DOMAIN schedules
                        /\ c.due # NotDue /\ c.due = LatestDueAt(schedules[c.schedule], c.claimedAt)
      BY <1>5 DEF ClaimInv
    <2>1. CASE c \in claims
      BY <2>1 DEF SchedulerInv, ClaimInv
    <2>2. CASE c \notin claims
      <3>1. PICK id \in taken : /\ c = RunClaim(id, LatestDueAt(schedules[id], now), now)
                                /\ c.schedule = id /\ c.due = LatestDueAt(schedules[id], now)
                                /\ c.claimedAt = now /\ c.status = "claimed"
        BY <1>7, <2>2
      <3>2. LatestDueAt(schedules[id], now) \in Int
        <4>1. LastOccurrence(schedules[id], now, LatestDueAt(schedules[id], now))
          BY <1>2, <1>4, DueIsLast DEF SchedulerInv
        <4>2. schedules[id].start \in Nat /\ Horizon \in Nat
          BY <1>4, SchedulerTimes DEF SchedulerInv, SchedulesInv
        <4> QED BY <4>1, <4>2 DEF LastOccurrence, Occurrences
      <3>3. id \in Schedules
        BY <1>4 DEF SchedulerInv, SchedulesInv
      <3>4. c \in ClaimRecord
        BY <1>2, <3>1, <3>2, <3>3 DEF ClaimRecord, RunClaim
      <3> QED BY <1>4, <3>1, <3>4
    <2> QED BY <2>1, <2>2
  <1>9. OccurrenceClaimedOnce'
    <2> SUFFICES ASSUME NEW c \in claims', NEW d \in claims', c.schedule = d.schedule, c.due = d.due
                 PROVE  c = d
      BY DEF OccurrenceClaimedOnce
    <2>1. CASE c \in claims /\ d \in claims
      BY <2>1 DEF SchedulerInv, OccurrenceClaimedOnce
    <2>2. CASE c \notin claims /\ d \notin claims
      BY <1>7, <2>2
    <2>3. CASE c \in claims /\ d \notin claims
      BY <1>4, <1>7, <2>3
    <2>4. CASE c \notin claims /\ d \in claims
      BY <1>4, <1>7, <2>4
    <2> QED BY <2>1, <2>2, <2>3, <2>4
  <1>10. SchedulesInv'
    BY <1>5 DEF SchedulerInv, SchedulesInv
  <1> QED BY <1>3, <1>6, <1>8, <1>9, <1>10 DEF SchedulerInv

LEMMA MarkTerminalKeeps ==
  ASSUME SchedulerInv, NEW c \in claims, NEW status \in {"completed", "failed"}, MarkTerminal(c, status)
  PROVE  SchedulerInv'
  <1>1. PICK e : e = [c EXCEPT !.status = status]
    OBVIOUS
  <1>2. claims' = (claims \ {c}) \cup {e} /\ UNCHANGED <<clock, schedules, polling>>
    BY <1>1 DEF MarkTerminal
  <1>3. /\ e \in ClaimRecord /\ e.schedule = c.schedule /\ e.due = c.due /\ e.claimedAt = c.claimedAt
    BY <1>1 DEF SchedulerInv, ClaimInv, ClaimRecord
  <1>4. ClaimInv'
    BY <1>2, <1>3 DEF SchedulerInv, ClaimInv
  <1>5. OccurrenceClaimedOnce'
    BY <1>2, <1>3 DEF SchedulerInv, OccurrenceClaimedOnce
  <1> QED BY <1>2, <1>4, <1>5 DEF SchedulerInv, SchedulesInv, PollingInv

LEMMA SchedulerNextInv == SchedulerInv /\ [SchedulerNext]_schedulerVars => SchedulerInv'
  <1> SUFFICES ASSUME SchedulerInv, [SchedulerNext]_schedulerVars PROVE SchedulerInv'
    OBVIOUS
  <1>1. CASE ClockAdvances
    <2>1. clock' \in 0..Horizon /\ UNCHANGED <<schedules, claims, polling>>
      BY <1>1, SchedulerTimes DEF ClockAdvances, SchedulerInv, PollingInv
    <2> QED BY <2>1 DEF SchedulerInv, SchedulesInv, PollingInv, ClaimInv, OccurrenceClaimedOnce
  <1>2. CASE \E id \in Schedules : \E s \in ScheduleSpecs[id] : Register(id, s)
    BY <1>2, RegisterKeeps
  <1>3. ASSUME NEW p \in Pollers, ReadClock(p) PROVE SchedulerInv'
    BY <1>3 DEF ReadClock, SchedulerInv, SchedulesInv, PollingInv, ClaimInv, OccurrenceClaimedOnce
  <1>4. CASE \E p \in Pollers : \E n \in Limits : ClaimDue(p, n)
    BY <1>4, ClaimDueKeeps
  <1>5. CASE \E c \in claims, status \in {"completed", "failed"} : MarkTerminal(c, status)
    BY <1>5, MarkTerminalKeeps
  <1>6. CASE UNCHANGED schedulerVars
    BY <1>6 DEF schedulerVars, SchedulerInv, SchedulesInv, PollingInv, ClaimInv, OccurrenceClaimedOnce
  <1> QED BY <1>1, <1>2, <1>3, <1>4, <1>5, <1>6 DEF SchedulerNext

(* However many pollers race with clocks read at different moments, no         *)
(* occurrence is claimed twice, and what is claimed is the most recent instant *)
(* the schedule names at the poller's clock (claimDue and latestDueAt), for    *)
(* any schedules, lengths of day and week, and limits.                         *)
THEOREM ClaimsStayRight == SchedulerSpec => []ClaimsAreRight
  <1>1. SchedulerInv => ClaimsAreRight
    <2> SUFFICES ASSUME SchedulerInv PROVE ClaimsAreRight
      OBVIOUS
    <2>1. ClaimsFollowCalendar
      <3> SUFFICES ASSUME NEW c \in claims
                   PROVE  LET past == {t \in Occurrences(schedules[c.schedule]) : t <= c.claimedAt}
                          IN  c.due \in past /\ \A t \in past : t <= c.due
        BY DEF ClaimsFollowCalendar
      <3>1. LastOccurrence(schedules[c.schedule], c.claimedAt, c.due)
        BY DueIsLast DEF SchedulerInv, ClaimInv, ClaimRecord
      <3> QED BY <3>1 DEF LastOccurrence
    <2> QED BY <2>1 DEF SchedulerInv, ClaimsAreRight
  <1> QED BY <1>1, SchedulerInitInv, SchedulerNextInv, PTL DEF SchedulerSpec

(* A settled run is never settled again or reopened (markTerminal).            *)
THEOREM SettledClaimsStay == SchedulerSpec => SettledClaimsFinal
  <1>1. SchedulerInv /\ [SchedulerNext]_schedulerVars
          => [\A c \in claims : c.status # "claimed" => c \in claims']_schedulerVars
    <2> SUFFICES ASSUME SchedulerInv, SchedulerNext, NEW c \in claims, c.status # "claimed"
                 PROVE  c \in claims'
      OBVIOUS
    <2>1. CASE \E p \in Pollers : \E n \in Limits : ClaimDue(p, n)
      BY <2>1, ClaimDueKeeps
    <2>2. CASE \E d \in claims, status \in {"completed", "failed"} : MarkTerminal(d, status)
      BY <2>2 DEF MarkTerminal
    <2>3. CASE claims' = claims
      BY <2>3
    <2> QED BY <2>1, <2>2, <2>3 DEF SchedulerNext, ClockAdvances, Register, ReadClock
  <1>2. SchedulerSpec => []SchedulerInv
    BY SchedulerInitInv, SchedulerNextInv, PTL DEF SchedulerSpec
  <1> QED BY <1>1, <1>2, PTL DEF SchedulerSpec, SettledClaimsFinal

-----------------------------------------------------------------------------
(* The home of the model. Only an attempt that the Hermes backend serves has   *)
(* one; it is made before the try block whose finally removes it, and is still *)
(* empty there.                                                                *)

HomeInv ==
  /\ backend \in {"hermes", "ollama"}
  /\ step \in {"idle", "searching"} => home = NoHome /\ answer = Failed
  /\ step = "preparing" => home = {} /\ answer = Failed
  /\ step \in {"preparing", "seeding", "stopping", "cleaning"} => backend = "hermes"
  /\ step = "selecting" /\ backend = "ollama" => home = NoHome
  /\ step \notin {"submitting", "submitted", "failed"} => undeleted = {}
  /\ NoCredentialsLeft

LEMMA NoFileIsHome == NoHome \cap CredentialFiles = {}
  BY FilesAreFiles DEF NoHome

LEMMA AfterModelKeeps ==
  ASSUME HomeInv, NEW a, AfterModel(a), undeleted = {},
         backend = "ollama" => home = NoHome
  PROVE  HomeInv'
  <1>1. UNCHANGED <<backend, home, undeleted>>
    BY DEF AfterModel
  <1>2. step' \in {"cleaning", "submitting", "failed"} /\ (step' = "cleaning" <=> backend = "hermes")
    BY DEF AfterModel
  <1> QED BY <1>1, <1>2, NoFileIsHome DEF HomeInv, NoCredentialsLeft

LEMMA SearchInitInv == SearchInit => HomeInv
  BY NoFileIsHome DEF SearchInit, HomeInv, NoCredentialsLeft

LEMMA SearchNextInv == HomeInv /\ [SearchNext]_searchVars => HomeInv'
  <1> SUFFICES ASSUME HomeInv, [SearchNext]_searchVars PROVE HomeInv'
    OBVIOUS
  <1>u. ASSUME UNCHANGED <<step, backend, home, undeleted, answer>> PROVE HomeInv'
    BY <1>u DEF HomeInv, NoCredentialsLeft
  <1>1. CASE PlanSearches
    <2>1. step' \in {"failed", "searching"} /\ UNCHANGED <<backend, home, undeleted, answer>> /\ step = "idle"
      BY <1>1 DEF PlanSearches
    <2> QED BY <2>1, NoFileIsHome DEF HomeInv, NoCredentialsLeft
  <1>2. CASE NoSearchWorker
    BY <1>2, NoFileIsHome DEF NoSearchWorker, HomeInv, NoCredentialsLeft
  <1>3. ASSUME NEW i \in DOMAIN queryOutcomes,
               \/ \E hits \in HitLists : SearchAnswers(i, hits) \/ FallbackAnswers(i, hits)
               \/ \E ok \in BOOLEAN : SearchFallsBack(i, ok)
               \/ QueryFails(i)
               \/ FallbackFails(i)
        PROVE  HomeInv'
    <2>1. UNCHANGED <<step, backend, home, undeleted, answer>>
      BY <1>3 DEF SearchAnswers, FallbackAnswers, SearchFallsBack, QueryFails, FallbackFails, Settles
    <2> QED BY <1>u, <2>1
  <1>4. CASE SearchesDone
    <2>1. step = "searching" /\ UNCHANGED backend
      BY <1>4 DEF SearchesDone
    <2>2. CASE searchResults = <<>>
      <3>1. step' = "submitting" /\ UNCHANGED <<home, undeleted>>
        BY <1>4, <2>2 DEF SearchesDone
      <3> QED BY <2>1, <3>1, NoFileIsHome DEF HomeInv, NoCredentialsLeft
    <2>3. CASE searchResults # <<>> /\ backend = "ollama"
      <3>1. step' = "selecting" /\ UNCHANGED <<home, undeleted, answer>>
        BY <1>4, <2>3 DEF SearchesDone
      <3> QED BY <2>1, <2>3, <3>1 DEF HomeInv, NoCredentialsLeft
    <2>4. CASE searchResults # <<>> /\ backend # "ollama"
      <3>1. step' = "preparing" /\ home' = {} /\ UNCHANGED <<answer, undeleted>>
        BY <1>4, <2>4 DEF SearchesDone
      <3> QED BY <2>1, <2>4, <3>1 DEF HomeInv, NoCredentialsLeft
    <2> QED BY <2>2, <2>3, <2>4
  <1>5. CASE RouteRefused
    BY <1>5 DEF RouteRefused, HomeInv, NoCredentialsLeft, Failed
  <1>6. ASSUME NEW routed \in BOOLEAN, NEW sourceHome \in BOOLEAN, PrepareHome(routed, sourceHome)
        PROVE  HomeInv'
    BY <1>6 DEF PrepareHome, HomeInv, NoCredentialsLeft
  <1>7. ASSUME NEW f \in CredentialFiles, SeedFile(f) \/ SeedSkips(f) PROVE HomeInv'
    BY <1>7 DEF SeedFile, SeedSkips, HomeInv, NoCredentialsLeft
  <1>8. ASSUME NEW sourceRouted \in BOOLEAN, Spawn(sourceRouted) PROVE HomeInv'
    BY <1>8 DEF Spawn, HomeInv, NoCredentialsLeft
  <1>9. CASE PreparationFails
    BY <1>9 DEF PreparationFails, HomeInv, NoCredentialsLeft
  <1>10. ASSUME NEW reply \in Replies, NEW code \in {0, 1}, NEW log \in Logs, ModelAnswers(reply, code, log)
         PROVE  HomeInv'
    <2>1. step = "selecting" /\ \E a : AfterModel(a)
      BY <1>10 DEF ModelAnswers
    <2> QED BY <2>1, AfterModelKeeps DEF HomeInv
  <1>11. CASE TimerFires
    <2>1. step = "selecting"
      BY <1>11 DEF TimerFires
    <2>2. CASE backend = "hermes"
      <3>1. step' = "stopping" /\ UNCHANGED <<backend, home, undeleted, answer>>
        BY <1>11, <2>2 DEF TimerFires
      <3> QED BY <2>1, <2>2, <3>1 DEF HomeInv, NoCredentialsLeft
    <2>3. CASE backend # "hermes"
      <3>1. AfterModel(Failed)
        BY <1>11, <2>3 DEF TimerFires
      <3> QED BY <2>1, <3>1, AfterModelKeeps DEF HomeInv
    <2> QED BY <2>2, <2>3
  <1>12. CASE ProcessCloses
    BY <1>12, AfterModelKeeps DEF ProcessCloses, HomeInv
  <1>13. CASE CleansUp
    <2>1. PICK kept \in SUBSET CredentialFiles, left \in (SUBSET home) \cup {NoHome} : CleanUp(kept, left)
      BY <1>13 DEF CleansUp
    <2>2. home' = left /\ UNCHANGED backend /\ undeleted' = kept \cup (IF left = NoHome THEN {} ELSE {"home"})
      BY <2>1 DEF CleanUp
    <2>3. CASE left = NoHome
      <3>1. step' \in {"submitting", "failed"}
        BY <2>1, <2>3 DEF CleanUp
      <3> QED BY <2>2, <2>3, <3>1, NoFileIsHome DEF HomeInv, NoCredentialsLeft
    <2>4. CASE left # NoHome
      <3>1. step' = "failed" /\ left \subseteq (home \ CredentialFiles) \cup kept
        BY <2>1, <2>4 DEF CleanUp
      <3>2. left \cap CredentialFiles \subseteq kept
        BY <3>1
      <3> QED BY <2>2, <2>4, <3>1, <3>2 DEF HomeInv, NoCredentialsLeft
    <2> QED BY <2>3, <2>4
  <1>14. CASE KilledByWorker
    BY <1>14 DEF KilledByWorker, HomeInv, NoCredentialsLeft
  <1>15. CASE SubmitFindings
    <2>1. step = "submitting" /\ step' \in {"submitted", "failed"} /\ UNCHANGED <<backend, home, undeleted, answer>>
      BY <1>15 DEF SubmitFindings
    <2> QED BY <2>1 DEF HomeInv, NoCredentialsLeft
  <1>16. CASE UNCHANGED searchVars
    BY <1>u, <1>16 DEF searchVars
  <1> QED BY <1>1, <1>2, <1>3, <1>4, <1>5, <1>6, <1>7, <1>8, <1>9, <1>10, <1>11, <1>12, <1>13,
             <1>14, <1>15, <1>16 DEF SearchNext

-----------------------------------------------------------------------------
(* The answer of an attempt. Each filter of the adapter takes the entries of a *)
(* list at some of its places; what it drops is a number of places, so that    *)
(* the funnel adds up whatever the filters are.                                *)

(* There is an n-th among places in a list, for every n up to their number.    *)
LEMMA PlaceOfRank ==
  ASSUME NEW N \in Nat, NEW I, I \subseteq 1..N
  PROVE  /\ IsFiniteSet(I) /\ Cardinality(I) \in Nat /\ Cardinality(I) <= N
         /\ \A n \in 1..Cardinality(I) : \E i \in I : Cardinality(I \cap 1..i) = n
  <1> DEFINE upTo(i) == I \cap 1..i
  <1>1. IsFiniteSet(I) /\ Cardinality(I) \in Nat /\ Cardinality(I) <= N
    <2>1. IsFiniteSet(1..N) /\ Cardinality(1..N) = N
      BY FS_Interval
    <2> QED BY <2>1, FS_Subset, FS_CardinalityType
  <1>2. \A i : IsFiniteSet(upTo(i)) /\ Cardinality(upTo(i)) \in Nat
    BY <1>1, FS_Subset, FS_CardinalityType
  <1>3. ASSUME NEW n \in 1..Cardinality(I) PROVE \E i \in I : Cardinality(upTo(i)) = n
    <2> DEFINE S == {i \in 0..N : n <= Cardinality(upTo(i))}
    <2>1. N \in S
      <3>1. upTo(N) = I
        OBVIOUS
      <3> HIDE DEF upTo
      <3> QED BY <1>1, <1>3, <3>1
    <2>2. PICK i \in S : \A j \in S : i <= j
      <3>1. S \subseteq Nat
        OBVIOUS
      <3> HIDE DEF S
      <3> QED BY <2>1, <3>1, LeastPlace
    <2>3. i # 0
      <3>1. upTo(0) = {}
        OBVIOUS
      <3>2. Cardinality(upTo(0)) = 0
        BY <3>1, FS_EmptySet
      <3> HIDE DEF upTo
      <3> QED BY <1>1, <1>3, <2>2, <3>2
    <2>4. i - 1 \in 0..N /\ i - 1 \notin S
      BY <2>2, <2>3
    <2>5. Cardinality(upTo(i - 1)) < n
      <3> HIDE DEF upTo
      <3> QED BY <1>1, <1>2, <1>3, <2>4
    <2>6. n <= Cardinality(upTo(i))
      BY <2>2
    <2>7. i \in I /\ upTo(i) = upTo(i - 1) \cup {i} /\ i \notin upTo(i - 1)
      <3>1. 1..i = 1..(i - 1) \cup {i}
        BY <2>2, <2>3
      <3>2. CASE i \notin I
        <4>1. upTo(i) = upTo(i - 1)
          BY <3>1, <3>2
        <4> HIDE DEF upTo
        <4> QED BY <1>1, <1>2, <1>3, <2>5, <2>6, <4>1
      <3>3. CASE i \in I
        BY <2>2, <3>1, <3>3
      <3> QED BY <3>2, <3>3
    <2>8. Cardinality(upTo(i)) = Cardinality(upTo(i - 1)) + 1
      <3> HIDE DEF upTo
      <3> QED BY <1>2, <2>7, FS_AddElement
    <2>9. Cardinality(upTo(i)) = n
      <3> HIDE DEF upTo
      <3> QED BY <1>1, <1>2, <1>3, <2>5, <2>6, <2>8
    <2> QED BY <2>7, <2>9
  <1> QED BY <1>1, <1>3

(* t is the list of the entries of s at the places I. *)
Entries(s, I, t) ==
  /\ IsFiniteSet(I) /\ Cardinality(I) \in Nat /\ Cardinality(I) <= Len(s)
  /\ DOMAIN t = 1..Cardinality(I) /\ Len(t) = Cardinality(I)
  /\ \A n \in 1..Cardinality(I) : \E i \in I : t[n] = s[i] /\ Cardinality(I \cap 1..i) = n

LEMMA EntriesTell ==
  ASSUME NEW S, NEW s \in Seq(S), NEW I, I \subseteq DOMAIN s
  PROVE  EntriesAt(s, I) \in Seq(S) /\ Entries(s, I, EntriesAt(s, I))
  <1>1. PICK N, m, t : N = Len(s) /\ m = Cardinality(I) /\ t = EntriesAt(s, I)
    OBVIOUS
  <1>2. N \in Nat /\ I \subseteq 1..N /\ \A i \in 1..N : s[i] \in S
    BY <1>1
  <1>3. /\ IsFiniteSet(I) /\ m \in Nat /\ m <= N
        /\ \A n \in 1..m : \E i \in I : Cardinality(I \cap 1..i) = n
    BY <1>1, <1>2, PlaceOfRank
  <1>4. t = [n \in 1..m |-> s[CHOOSE i \in I : Cardinality(I \cap 1..i) = n]]
    BY <1>1 DEF EntriesAt
  <1>5. \A n \in 1..m : \E i \in I : t[n] = s[i] /\ Cardinality(I \cap 1..i) = n
    <2> SUFFICES ASSUME NEW n \in 1..m PROVE \E i \in I : t[n] = s[i] /\ Cardinality(I \cap 1..i) = n
      OBVIOUS
    <2>1. PICK c : c = CHOOSE i \in I : Cardinality(I \cap 1..i) = n
      OBVIOUS
    <2>2. c \in I /\ Cardinality(I \cap 1..c) = n
      BY <1>3, <2>1
    <2>3. t[n] = s[c]
      BY <1>4, <2>1
    <2> QED BY <2>2, <2>3
  <1>6. t \in [1..m -> S]
    BY <1>2, <1>4, <1>5
  <1>7. t \in Seq(S) /\ Len(t) = m /\ DOMAIN t = 1..m
    BY <1>3, <1>6
  <1> QED BY <1>1, <1>3, <1>5, <1>7 DEF Entries

LEMMA UniqueTells ==
  ASSUME NEW S, NEW s \in Seq(S)
  PROVE  /\ Unique(s) \in Seq(S) /\ Len(Unique(s)) <= Len(s) /\ NothingTwice(Unique(s))
         /\ \A n \in DOMAIN Unique(s) : \E i \in DOMAIN s : Unique(s)[n] = s[i]
  <1>1. PICK I, t : I = {i \in DOMAIN s : \A j \in 1..(i - 1) : s[j] # s[i]} /\ t = EntriesAt(s, I)
    OBVIOUS
  <1>2. t = Unique(s) /\ I \subseteq DOMAIN s
    BY <1>1 DEF Unique
  <1>3. t \in Seq(S) /\ Entries(s, I, t)
    BY <1>1, <1>2, EntriesTell
  <1>4. NothingTwice(t)
    <2> SUFFICES ASSUME NEW k \in DOMAIN t, NEW l \in DOMAIN t, t[k] = t[l] PROVE k = l
      BY DEF NothingTwice
    <2>1. PICK i \in I : t[k] = s[i] /\ Cardinality(I \cap 1..i) = k
      BY <1>3 DEF Entries
    <2>2. PICK j \in I : t[l] = s[j] /\ Cardinality(I \cap 1..j) = l
      BY <1>3 DEF Entries
    <2>3. i \in Nat \ {0} /\ j \in Nat \ {0}
      BY <1>2
    <2>4. ~(i < j) /\ ~(j < i)
      <3>1. i < j => i \in 1..(j - 1)
        BY <2>3
      <3>2. j < i => j \in 1..(i - 1)
        BY <2>3
      <3>3. s[i] = s[j]
        BY <2>1, <2>2
      <3> QED BY <1>1, <3>1, <3>2, <3>3
    <2>5. i = j
      BY <2>3, <2>4
    <2> QED BY <2>1, <2>2, <2>5
  <1> QED BY <1>2, <1>3, <1>4 DEF Entries

LEMMA CappedTells ==
  ASSUME NEW S, NEW s \in Seq(S), NEW n \in Nat
  PROVE  /\ Capped(s, n) \in Seq(S) /\ Len(Capped(s, n)) <= n
         /\ \A i \in DOMAIN Capped(s, n) : i \in DOMAIN s /\ Capped(s, n)[i] = s[i]
  <1>1. PICK m : m = IF Len(s) < n THEN Len(s) ELSE n
    OBVIOUS
  <1>2. m \in Nat /\ m <= n /\ m <= Len(s)
    BY <1>1
  <1>3. PICK t : t = SubSeq(s, 1, m)
    OBVIOUS
  <1>4. t \in Seq(S) /\ Len(t) = m /\ \A i \in 1..m : t[i] = s[i]
    BY <1>2, <1>3, SubSeqProperties
  <1>5. t = Capped(s, n)
    BY <1>1, <1>3 DEF Capped
  <1> QED BY <1>2, <1>4, <1>5

(* All the results, in the order of the plan.                                  *)
FlatOf(lists, n, all) == all = [i \in 1..n |-> IF i = 1 THEN lists[i] ELSE all[i - 1] \o lists[i]]

LEMMA FlatExists ==
  ASSUME NEW lists
  PROVE  \A n \in Nat : \E all : FlatOf(lists, n, all)
  <1> DEFINE S == {n \in Nat : \E all : FlatOf(lists, n, all)}
             next(a, i) == a[i - 1] \o lists[i]
  <1>1. 0 \in S
    <2>1. FlatOf(lists, 0, [i \in 1..0 |-> lists[i]])
      BY DEF FlatOf
    <2> QED BY <2>1
  <1>2. ASSUME NEW n \in Nat, n \in S PROVE n + 1 \in S
    <2>1. PICK a : FlatOf(lists, n, a)
      BY <1>2
    <2> DEFINE b == [i \in 1..n + 1 |-> IF i = n + 1 THEN IF i = 1 THEN lists[i] ELSE next(a, i) ELSE a[i]]
    <2>2. \A i \in 1..n : b[i] = a[i] /\ i # n + 1
      OBVIOUS
    <2>3. b[n + 1] = IF n + 1 = 1 THEN lists[n + 1] ELSE next(a, n + 1)
      BY n + 1 \in 1..n + 1
    <2>4. \A i \in 2..n + 1 : b[i - 1] = a[i - 1]
      OBVIOUS
    <2>5. \A i \in 1..n : a[i] = IF i = 1 THEN lists[i] ELSE next(a, i)
      BY <2>1 DEF FlatOf
    <2> HIDE DEF next, b
    <2>6. \A i \in 1..n + 1 : b[i] = IF i = 1 THEN lists[i] ELSE next(b, i)
      <3>1. \A i \in 2..n + 1 : next(b, i) = next(a, i)
        BY <2>4 DEF next
      <3>2. \A i \in 1..n + 1 : i = n + 1 \/ i \in 1..n
        OBVIOUS
      <3>3. \A i \in 1..n + 1 : i \in 2..n + 1 \/ i = 1
        OBVIOUS
      <3>4. \A i \in 1..n : i \in 1..n + 1
        OBVIOUS
      <3>5. \A i \in 1..n : b[i] = IF i = 1 THEN lists[i] ELSE next(b, i)
        BY <2>2, <2>5, <3>1, <3>3, <3>4
      <3>6. n + 1 \in 1..n + 1
        OBVIOUS
      <3>7. b[n + 1] = IF n + 1 = 1 THEN lists[n + 1] ELSE next(b, n + 1)
        BY <2>3, <3>1, <3>3, <3>6
      <3> QED BY <3>2, <3>5, <3>7
    <2>7. b = [i \in 1..n + 1 |-> b[i]]
      BY DEF b
    <2>8. FlatOf(lists, n + 1, b)
      BY <2>6, <2>7 DEF FlatOf, next
    <2> QED BY <2>8
  <1> HIDE DEF S
  <1>3. Nat \subseteq S
    BY <1>1, <1>2, EveryNumber
  <1> QED BY <1>3 DEF S

(* A list of entries of some lists.                                            *)
From(lists, all) ==
  \A i \in DOMAIN all : \E j \in DOMAIN lists : \E k \in DOMAIN lists[j] : all[i] = lists[j][k]

LEMMA FlattenTells ==
  ASSUME NEW U, NEW lists \in Seq(Seq(U))
  PROVE  FlattenSeq(lists) \in Seq(U) /\ From(lists, FlattenSeq(lists))
  <1>1. PICK N, V : N = Len(lists) /\ V = Seq(U)
    OBVIOUS
  <1>2. N \in Nat /\ DOMAIN lists = 1..N /\ \A i \in 1..N : lists[i] \in V
    BY <1>1
  <1>3. CASE N = 0
    <2>1. lists = <<>>
      BY <1>1, <1>3, EmptySeq
    <2>2. FlattenSeq(lists) = <<>>
      BY <1>1, <1>3, <2>1 DEF FlattenSeq
    <2> QED BY <2>2 DEF From
  <1>4. CASE N # 0
    <2>1. PICK all : FlatOf(lists, N, all) /\ FlattenSeq(lists) = all[N]
      <3>1. \E all : FlatOf(lists, N, all)
        BY <1>2, FlatExists
      <3> QED BY <1>1, <1>4, <3>1 DEF FlattenSeq, FlatOf
    <2>2. \A i \in 1..N : all[i] = IF i = 1 THEN lists[i] ELSE all[i - 1] \o lists[i]
      BY <2>1 DEF FlatOf
    <2> DEFINE S == {n \in Nat : n \in 1..N => all[n] \in V /\ From(lists, all[n])}
    <2>3. 0 \in S
      OBVIOUS
    <2>4. ASSUME NEW n \in Nat, n \in S, n + 1 \in 1..N PROVE all[n + 1] \in V /\ From(lists, all[n + 1])
      <3>1. PICK x : x = lists[n + 1]
        OBVIOUS
      <3>2. x \in V /\ From(lists, x)
        BY <1>2, <2>4, <3>1 DEF From
      <3>3. CASE n = 0
        <4>1. all[n + 1] = x
          BY <2>2, <2>4, <3>1, <3>3
        <4> QED BY <3>2, <4>1
      <3>4. CASE n # 0
        <4>1. n \in 1..N
          BY <1>2, <2>4, <3>4
        <4>2. PICK y : y = all[n]
          OBVIOUS
        <4>3. y \in V /\ From(lists, y)
          BY <2>4, <4>1, <4>2
        <4>4. all[n + 1] = y \o x
          <5>1. n + 1 \in 1..N /\ n + 1 # 1 /\ (n + 1) - 1 = n
            BY <2>4, <3>4
          <5> QED BY <2>2, <3>1, <4>2, <5>1
        <4>5. y \in Seq(U) /\ x \in Seq(U)
          BY <1>1, <3>2, <4>3
        <4>6. PICK z : z = y \o x
          OBVIOUS
        <4>7. /\ z \in Seq(U) /\ Len(z) = Len(y) + Len(x)
              /\ \A i \in 1..Len(y) + Len(x) : z[i] = IF i <= Len(y) THEN y[i] ELSE x[i - Len(y)]
          BY <4>5, <4>6, ConcatProperties
        <4>8. \A i \in DOMAIN z : (i \in DOMAIN y /\ z[i] = y[i]) \/ (i - Len(y) \in DOMAIN x /\ z[i] = x[i - Len(y)])
          BY <4>5, <4>7
        <4>9. From(lists, z)
          BY <3>2, <4>3, <4>8 DEF From
        <4> QED BY <1>1, <4>4, <4>6, <4>7, <4>9
      <3> QED BY <3>3, <3>4
    <2>5. \A n \in Nat : n \in S => n + 1 \in S
      <3>1. \A n \in Nat : n + 1 \in Nat
        OBVIOUS
      <3> QED BY <2>4, <3>1
    <2>6. Nat \subseteq S
      <3> HIDE DEF S
      <3> QED BY <2>3, <2>5, EveryNumber
    <2>7. N \in 1..N
      BY <1>2, <1>4
    <2> QED BY <1>1, <1>2, <2>1, <2>6, <2>7
  <1> QED BY <1>3, <1>4

(* The findings taken.                                                         *)
KeptOf(fs, n, kept) ==
  kept = [i \in 0..n |->
            IF i = 0 THEN {}
            ELSE IF Full(kept[i - 1]) \/ Seen(fs, kept[i - 1], i) \/ Crowded(fs, kept[i - 1], i)
                 THEN kept[i - 1] ELSE kept[i - 1] \cup {i}]

LEMMA KeptExists ==
  ASSUME NEW fs
  PROVE  \A n \in Nat : \E kept : KeptOf(fs, n, kept)
  <1> DEFINE S == {n \in Nat : \E kept : KeptOf(fs, n, kept)}
             next(a, i) == IF Full(a[i - 1]) \/ Seen(fs, a[i - 1], i) \/ Crowded(fs, a[i - 1], i)
                           THEN a[i - 1] ELSE a[i - 1] \cup {i}
  <1>1. 0 \in S
    <2>1. KeptOf(fs, 0, [i \in 0..0 |-> {}])
      BY DEF KeptOf
    <2> QED BY <2>1
  <1>2. ASSUME NEW n \in Nat, n \in S PROVE n + 1 \in S
    <2>1. PICK a : KeptOf(fs, n, a)
      BY <1>2
    <2> DEFINE b == [i \in 0..n + 1 |-> IF i = n + 1 THEN next(a, n + 1) ELSE a[i]]
    <2>2. \A i \in 0..n : b[i] = a[i] /\ i # n + 1
      OBVIOUS
    <2>3. b[n + 1] = next(a, n + 1)
      OBVIOUS
    <2>4. \A i \in 1..n + 1 : b[i - 1] = a[i - 1]
      OBVIOUS
    <2>5. \A i \in 0..n : a[i] = IF i = 0 THEN {} ELSE next(a, i)
      BY <2>1 DEF KeptOf
    <2> HIDE DEF next, b
    <2>6. \A i \in 0..n + 1 : b[i] = IF i = 0 THEN {} ELSE next(b, i)
      <3>1. \A i \in 1..n + 1 : next(b, i) = next(a, i)
        BY <2>4 DEF next
      <3>2. \A i \in 0..n + 1 : i = n + 1 \/ i \in 0..n
        OBVIOUS
      <3>3. \A i \in 0..n : i \in 1..n + 1 \/ i = 0
        OBVIOUS
      <3>4. \A i \in 0..n : b[i] = IF i = 0 THEN {} ELSE next(b, i)
        BY <2>2, <2>5, <3>1, <3>3
      <3>5. n + 1 \in 1..n + 1 /\ n + 1 # 0
        OBVIOUS
      <3>6. b[n + 1] = next(b, n + 1)
        BY <2>3, <3>1, <3>5
      <3> QED BY <3>2, <3>4, <3>5, <3>6
    <2>7. b = [i \in 0..n + 1 |-> b[i]]
      BY DEF b
    <2>8. KeptOf(fs, n + 1, b)
      BY <2>6, <2>7 DEF KeptOf, next
    <2> QED BY <2>8
  <1> HIDE DEF S
  <1>3. Nat \subseteq S
    BY <1>1, <1>2, EveryNumber
  <1> QED BY <1>3 DEF S

OfHost(fs, K, h) == {k \in K : fs[k].host = h}

\* Few in all, few of a host, each place a place of the list.
Moderate(fs, n, K) ==
  /\ K \subseteq 1..n /\ IsFiniteSet(K) /\ Cardinality(K) <= MaxFindings
  /\ \A h : Cardinality(OfHost(fs, K, h)) <= MaxPerHost

LEMMA OneMoreFinding ==
  ASSUME NEW fs, NEW n \in Nat, NEW K, Moderate(fs, n, K), ~Full(K), ~Crowded(fs, K, n + 1)
  PROVE  Moderate(fs, n + 1, K \cup {n + 1})
  <1>1. MaxFindings \in Nat /\ MaxPerHost \in Nat
    BY SearchLimits
  <1>2. K \subseteq 1..n /\ IsFiniteSet(K) /\ n + 1 \notin K
    BY DEF Moderate
  <1>3. Cardinality(K) \in Nat /\ Cardinality(K) < MaxFindings
    BY <1>1, <1>2, FS_CardinalityType DEF Full
  <1>4. IsFiniteSet(K \cup {n + 1}) /\ Cardinality(K \cup {n + 1}) <= MaxFindings
    BY <1>1, <1>2, <1>3, FS_AddElement
  <1>5. ASSUME NEW h PROVE Cardinality(OfHost(fs, K \cup {n + 1}, h)) <= MaxPerHost
    <2>1. IsFiniteSet(OfHost(fs, K, h)) /\ Cardinality(OfHost(fs, K, h)) \in Nat
      BY <1>2, FS_Subset, FS_CardinalityType DEF OfHost
    <2>2. CASE fs[n + 1].host = h
      <3>1. OfHost(fs, K \cup {n + 1}, h) = OfHost(fs, K, h) \cup {n + 1} /\ n + 1 \notin OfHost(fs, K, h)
        BY <1>2, <2>2 DEF OfHost
      <3>2. OfHost(fs, K, h) = {k \in K : fs[k].host = fs[n + 1].host}
        BY <2>2 DEF OfHost
      <3>3. Cardinality(OfHost(fs, K, h)) < MaxPerHost
        BY <1>1, <2>1, <3>2 DEF Crowded
      <3>4. Cardinality(OfHost(fs, K \cup {n + 1}, h)) = Cardinality(OfHost(fs, K, h)) + 1
        BY <2>1, <3>1, FS_AddElement
      <3> QED BY <1>1, <2>1, <3>3, <3>4
    <2>3. CASE fs[n + 1].host # h
      <3>1. OfHost(fs, K \cup {n + 1}, h) = OfHost(fs, K, h)
        BY <2>3 DEF OfHost
      <3> QED BY <3>1 DEF Moderate
    <2> QED BY <2>2, <2>3
  <1>6. K \cup {n + 1} \subseteq 1..n + 1
    BY <1>2
  <1> QED BY <1>4, <1>5, <1>6 DEF Moderate

LEMMA KeptTells ==
  ASSUME NEW fs, Len(fs) \in Nat
  PROVE  Moderate(fs, Len(fs), keptPlaces(fs))
  <1>1. PICK N : N = Len(fs) /\ N \in Nat
    OBVIOUS
  <1>2. PICK kept : KeptOf(fs, N, kept) /\ keptPlaces(fs) = kept[N]
    <2>1. \E kept : KeptOf(fs, N, kept)
      BY <1>1, KeptExists
    <2> QED BY <1>1, <2>1 DEF keptPlaces, KeptOf
  <1> DEFINE S == {n \in Nat : n <= N => Moderate(fs, n, kept[n])}
  <1>3. 0 \in S
    <2>1. kept[0] = {}
      BY <1>1, <1>2 DEF KeptOf
    <2>2. \A h : OfHost(fs, {}, h) = {}
      BY DEF OfHost
    <2>3. MaxFindings \in Nat /\ MaxPerHost \in Nat
      BY SearchLimits
    <2>4. IsFiniteSet({}) /\ Cardinality({}) = 0
      BY FS_EmptySet
    <2>5. 0 <= MaxFindings /\ 0 <= MaxPerHost
      BY <2>3
    <2>6. Moderate(fs, 0, {})
      BY <2>2, <2>4, <2>5 DEF Moderate
    <2> QED BY <2>1, <2>6
  <1>4. ASSUME NEW n \in Nat, n \in S, n + 1 <= N PROVE Moderate(fs, n + 1, kept[n + 1])
    <2>1. PICK K : K = kept[n]
      OBVIOUS
    <2>2. Moderate(fs, n, K)
      BY <1>1, <1>4, <2>1
    <2>3. kept[n + 1] = IF Full(K) \/ Seen(fs, K, n + 1) \/ Crowded(fs, K, n + 1) THEN K ELSE K \cup {n + 1}
      <3>1. n + 1 \in 0..N /\ n + 1 # 0 /\ (n + 1) - 1 = n
        BY <1>1, <1>4
      <3>2. \A i \in 0..N : i # 0 => kept[i] = IF Full(kept[i - 1]) \/ Seen(fs, kept[i - 1], i) \/ Crowded(fs, kept[i - 1], i)
                                               THEN kept[i - 1] ELSE kept[i - 1] \cup {i}
        BY <1>2 DEF KeptOf
      <3> QED BY <2>1, <3>1, <3>2
    <2>4. Moderate(fs, n + 1, K)
      <3>1. 1..n \subseteq 1..n + 1
        OBVIOUS
      <3> QED BY <2>2, <3>1 DEF Moderate
    <2>5. ~Full(K) /\ ~Crowded(fs, K, n + 1) => Moderate(fs, n + 1, K \cup {n + 1})
      BY <2>2, OneMoreFinding
    <2> QED BY <2>3, <2>4, <2>5
  <1>5. \A n \in Nat : n \in S => n + 1 \in S
    <2>1. \A n \in Nat : n + 1 \in Nat
      OBVIOUS
    <2> QED BY <1>4, <2>1
  <1>6. Nat \subseteq S
    <2> HIDE DEF S
    <2> QED BY <1>3, <1>5, EveryNumber
  <1> QED BY <1>1, <1>2, <1>6

(* The funnel adds up.                                                         *)
FunnelRecord == [returned : Nat, malformed_url : Nat, duplicate : Nat, per_domain_cap : Nat, other : Nat]
AttemptAnswer == [ok : {TRUE}, findings : Seq(WebUrl), funnel : FunnelRecord]
AddsUp(a) ==
  /\ a \in AttemptAnswer
  /\ a.funnel.malformed_url + a.funnel.duplicate + a.funnel.per_domain_cap + a.funnel.other + Len(a.findings)
       = a.funnel.returned

LEMMA ThreeReasons ==
  ASSUME NEW d \in Nat, NEW p \in Nat, NEW o \in Nat, NEW m \in Nat, NEW k \in Nat,
         NEW l \in Nat, NEW w \in Nat, NEW r \in Nat, NEW all,
         m + d + p + o + (l + w + r + k) = all
  PROVE  m + (d + w) + (p + r) + (o + l) + k = all
  OBVIOUS

LEMMA OneReason ==
  ASSUME NEW d \in Nat, NEW p \in Nat, NEW o \in Nat, NEW m \in Nat, NEW x \in Nat, NEW y \in Nat, NEW all,
         m + d + p + o + x = all
  PROVE  m + d + p + (o + (x - y)) + y = all /\ m + (d + (x - y)) + p + o + y = all
  OBVIOUS

LEMMA DropAddsUp ==
  ASSUME NEW a, AddsUp(a), NEW fs \in Seq(WebUrl), Len(fs) <= Len(a.findings),
         NEW reason \in {"other", "duplicate"}
  PROVE  AddsUp(Drop(a, fs, reason)) /\ Drop(a, fs, reason).findings = fs
  <1>1. PICK n, x, y : x = Len(a.findings) /\ y = Len(fs) /\ n = x - y
    OBVIOUS
  <1>2. a \in AttemptAnswer /\ x \in Nat /\ y \in Nat /\ n \in Nat
    <2>1. a \in AttemptAnswer /\ a.findings \in Seq(WebUrl)
      BY DEF AddsUp, AttemptAnswer
    <2>2. x \in Nat /\ y \in Nat
      BY <1>1, <2>1, LenProperties
    <2> QED BY <1>1, <2>1, <2>2
  <1>3. PICK f : f = [a.funnel EXCEPT ![reason] = @ + n]
    OBVIOUS
  <1>4. PICK b : b = Drop(a, fs, reason)
    OBVIOUS
  <1>5. a.funnel \in FunnelRecord
    BY <1>2 DEF AttemptAnswer
  <1>6. /\ f \in FunnelRecord
        /\ f.malformed_url + f.duplicate + f.per_domain_cap + f.other + y = f.returned
    <2>1. PICK g : g = a.funnel
      OBVIOUS
    <2>2. /\ g = [returned |-> g.returned, malformed_url |-> g.malformed_url, duplicate |-> g.duplicate,
                  per_domain_cap |-> g.per_domain_cap, other |-> g.other]
          /\ g.returned \in Nat /\ g.malformed_url \in Nat /\ g.duplicate \in Nat /\ g.per_domain_cap \in Nat
          /\ g.other \in Nat
      BY <1>5, <2>1 DEF FunnelRecord
    <2>3. g.malformed_url + g.duplicate + g.per_domain_cap + g.other + x = g.returned
      BY <1>1, <2>1 DEF AddsUp
    <2>0. /\ g.malformed_url + g.duplicate + g.per_domain_cap + (g.other + (x - y)) + y = g.returned
          /\ g.malformed_url + (g.duplicate + (x - y)) + g.per_domain_cap + g.other + y = g.returned
      <3>1. \A d, p, o, m \in Nat : m + d + p + o + x = g.returned =>
              m + d + p + (o + (x - y)) + y = g.returned /\ m + (d + (x - y)) + p + o + y = g.returned
        BY <1>2, OneReason
      <3> QED BY <2>2, <2>3, <3>1
    <2>4. g.other + n \in Nat /\ g.duplicate + n \in Nat
      BY <1>2, <2>2
    <2>5. CASE reason = "other"
      <3>1. f = [returned |-> g.returned, malformed_url |-> g.malformed_url, duplicate |-> g.duplicate,
                 per_domain_cap |-> g.per_domain_cap, other |-> g.other + n]
        BY <1>3, <2>1, <2>2, <2>5
      <3>2. g.malformed_url + g.duplicate + g.per_domain_cap + (g.other + n) + y = g.returned
        BY <1>1, <2>0
      <3> QED BY <2>2, <2>4, <3>1, <3>2 DEF FunnelRecord
    <2>6. CASE reason = "duplicate"
      <3>1. f = [returned |-> g.returned, malformed_url |-> g.malformed_url, duplicate |-> g.duplicate + n,
                 per_domain_cap |-> g.per_domain_cap, other |-> g.other]
        BY <1>3, <2>1, <2>2, <2>6
      <3>2. g.malformed_url + (g.duplicate + n) + g.per_domain_cap + g.other + y = g.returned
        BY <1>1, <2>0
      <3> QED BY <2>2, <2>4, <3>1, <3>2 DEF FunnelRecord
    <2> QED BY <2>5, <2>6
  <1>7. b = [a EXCEPT !.findings = fs, !.funnel = f]
    BY <1>1, <1>2, <1>3, <1>4 DEF Drop, AttemptAnswer
  <1>8. b \in AttemptAnswer /\ b.findings = fs /\ b.funnel = f
    BY <1>2, <1>6, <1>7 DEF AttemptAnswer
  <1> QED BY <1>1, <1>4, <1>6, <1>8 DEF AddsUp

\* Every entry of the second list is one of the first.
SomeOf(fs, gs) == \A i \in DOMAIN gs : \E j \in DOMAIN fs : gs[i] = fs[j]

LEMMA ImageBound ==
  ASSUME NEW fs, NEW K, IsFiniteSet(K), NEW T, T \subseteq {fs[i] : i \in K}
  PROVE  IsFiniteSet(T) /\ Cardinality(T) <= Cardinality(K)
  <1>1. PICK J : J = {i \in K : fs[i] \in T}
    OBVIOUS
  <1>2. IsFiniteSet(J) /\ Cardinality(J) <= Cardinality(K) /\ Cardinality(J) \in Nat /\ Cardinality(K) \in Nat
    <2>1. J \in SUBSET K
      BY <1>1
    <2> QED BY <2>1, FS_Subset, FS_CardinalityType
  <1>3. PICK f : f = [i \in J |-> fs[i]]
    OBVIOUS
  <1>4. f \in Surjection(J, T)
    BY <1>1, <1>3 DEF Surjection
  <1>5. IsFiniteSet(T) /\ Cardinality(T) <= Cardinality(J)
    BY <1>2, <1>4, FS_Surjection
  <1>6. Cardinality(T) \in Nat
    BY <1>5, FS_CardinalityType
  <1> QED BY <1>2, <1>5, <1>6

\* Few findings in all and few of a host.
Few(fs) ==
  /\ Cardinality(ToSet(fs)) <= MaxFindings
  /\ \A h : Cardinality({v \in ToSet(fs) : v.host = h}) <= MaxPerHost

LEMMA KeptAreFew ==
  ASSUME NEW fs \in Seq(WebUrl), NEW t, Entries(fs, keptPlaces(fs), t)
  PROVE  Few(t) /\ SomeOf(fs, t)
  <1>1. PICK K : K = keptPlaces(fs)
    OBVIOUS
  <1>2. Moderate(fs, Len(fs), K)
    BY <1>1, KeptTells
  <1>3. ToSet(t) \subseteq {fs[i] : i \in K} /\ K \subseteq DOMAIN fs /\ IsFiniteSet(K)
    <2>1. K \subseteq DOMAIN fs /\ IsFiniteSet(K)
      BY <1>2 DEF Moderate
    <2>2. \A n \in DOMAIN t : \E i \in K : t[n] = fs[i]
      BY <1>1 DEF Entries
    <2> QED BY <2>1, <2>2 DEF ToSet
  <1>4. MaxFindings \in Nat /\ MaxPerHost \in Nat
    BY SearchLimits
  <1>5. Cardinality(ToSet(t)) <= MaxFindings
    <2>1. IsFiniteSet(ToSet(t)) /\ Cardinality(ToSet(t)) <= Cardinality(K)
      BY <1>3, ImageBound
    <2>2. Cardinality(ToSet(t)) \in Nat /\ Cardinality(K) \in Nat
      BY <1>3, <2>1, FS_CardinalityType
    <2> QED BY <1>2, <1>4, <2>1, <2>2 DEF Moderate
  <1>6. ASSUME NEW h PROVE Cardinality({v \in ToSet(t) : v.host = h}) <= MaxPerHost
    <2>1. PICK J, T : J = OfHost(fs, K, h) /\ T = {v \in ToSet(t) : v.host = h}
      OBVIOUS
    <2>2. J \in SUBSET K /\ T \subseteq {fs[i] : i \in J}
      BY <1>3, <2>1 DEF OfHost
    <2>3. IsFiniteSet(J) /\ Cardinality(J) \in Nat /\ Cardinality(J) <= MaxPerHost
      BY <1>2, <1>3, <2>1, <2>2, FS_Subset, FS_CardinalityType DEF Moderate
    <2>4. IsFiniteSet(T) /\ Cardinality(T) <= Cardinality(J)
      BY <2>2, <2>3, ImageBound
    <2>5. Cardinality(T) \in Nat
      BY <2>4, FS_CardinalityType
    <2> QED BY <1>4, <2>1, <2>3, <2>4, <2>5
  <1>7. SomeOf(fs, t)
    BY <1>1, <1>3 DEF Entries, SomeOf
  <1> QED BY <1>5, <1>6, <1>7 DEF Few

LEMMA TwoParts ==
  ASSUME NEW S, IsFiniteSet(S), NEW T, T \subseteq S
  PROVE  /\ IsFiniteSet(T) /\ IsFiniteSet(S \ T)
         /\ Cardinality(T) \in Nat /\ Cardinality(S \ T) \in Nat
         /\ Cardinality(T) + Cardinality(S \ T) = Cardinality(S)
  <1>1. IsFiniteSet(T) /\ IsFiniteSet(S \ T)
    <2>1. T \in SUBSET S /\ S \ T \in SUBSET S
      OBVIOUS
    <2> QED BY <2>1, FS_Subset
  <1>2. Cardinality(T) \in Nat /\ Cardinality(S \ T) \in Nat /\ Cardinality(S) \in Nat
    BY <1>1, FS_CardinalityType
  <1>3. Cardinality(S \ T) = Cardinality(S) - Cardinality(S \cap T) /\ S \cap T = T
    <2>1. Cardinality(S \ T) = Cardinality(S) - Cardinality(S \cap T)
      BY FS_Difference
    <2>2. S \cap T = T
      OBVIOUS
    <2> QED BY <2>1, <2>2
  <1>4. Cardinality(S \ T) = Cardinality(S) - Cardinality(T)
    BY <1>3
  <1> QED BY <1>1, <1>2, <1>4

LEMMA DiversifyTells ==
  ASSUME NEW a, AddsUp(a)
  PROVE  LET b == diversifyFindings(a) IN
         AddsUp(b) /\ SomeOf(a.findings, b.findings) /\ Few(b.findings)
  <1>1. PICK fs, K, t : fs = a.findings /\ K = keptPlaces(fs) /\ t = EntriesAt(fs, K)
    OBVIOUS
  <1>2. a \in AttemptAnswer /\ fs \in Seq(WebUrl)
    BY <1>1 DEF AddsUp, AttemptAnswer
  <1>3. PICK N : N = Len(fs) /\ N \in Nat /\ DOMAIN fs = 1..N
    BY <1>2
  <1>4. K \subseteq 1..N
    BY <1>1, <1>3, KeptTells DEF Moderate
  <1>5. t \in Seq(WebUrl) /\ Entries(fs, K, t)
    BY <1>1, <1>2, <1>3, <1>4, EntriesTell
  <1>6. Few(t) /\ SomeOf(fs, t)
    BY <1>1, <1>2, <1>5, KeptAreFew
  <1>7. PICK out : out = (1..N) \ K
    OBVIOUS
  <1>8. PICK late : late = {i \in out : Full(K \cap 1..i)}
    OBVIOUS
  <1>9. PICK twice : twice = {i \in out \ late : Seen(fs, K \cap 1..i, i)}
    OBVIOUS
  <1>10. PICK rest : rest = (out \ late) \ twice
    OBVIOUS
  <1>11. /\ Cardinality(late) \in Nat /\ Cardinality(twice) \in Nat /\ Cardinality(rest) \in Nat
         /\ Cardinality(K) \in Nat /\ Len(t) = Cardinality(K)
         /\ Cardinality(late) + Cardinality(twice) + Cardinality(rest) + Cardinality(K) = N
    <2>1. IsFiniteSet(1..N) /\ Cardinality(1..N) = N
      <3>1. \A n \in Nat : IsFiniteSet(1..n) /\ Cardinality(1..n) = n
        BY FS_Interval
      <3> QED BY <1>3, <3>1
    <2>2. /\ IsFiniteSet(out) /\ Cardinality(K) \in Nat /\ Cardinality(out) \in Nat
          /\ Cardinality(K) + Cardinality(out) = N
      BY <1>4, <1>7, <2>1, TwoParts
    <2>3. /\ IsFiniteSet(out \ late) /\ Cardinality(late) \in Nat /\ Cardinality(out \ late) \in Nat
          /\ Cardinality(late) + Cardinality(out \ late) = Cardinality(out)
      <3>1. late \subseteq out
        BY <1>8
      <3> QED BY <2>2, <3>1, TwoParts
    <2>4. /\ Cardinality(twice) \in Nat /\ Cardinality(rest) \in Nat
          /\ Cardinality(twice) + Cardinality(rest) = Cardinality(out \ late)
      <3>1. twice \subseteq out \ late
        BY <1>9
      <3> QED BY <1>10, <2>3, <3>1, TwoParts
    <2>5. Len(t) = Cardinality(K)
      BY <1>5 DEF Entries
    <2> QED BY <1>3, <2>2, <2>3, <2>4, <2>5
  <1>12. PICK l, w, r : l = Cardinality(late) /\ w = Cardinality(twice) /\ r = Cardinality(rest)
    OBVIOUS
  <1>13. PICK f : f = [a.funnel EXCEPT !.other = @ + l, !.duplicate = @ + w, !.per_domain_cap = @ + r]
    OBVIOUS
  <1>14. PICK b : b = diversifyFindings(a)
    OBVIOUS
  <1>15. b = [a EXCEPT !.findings = t, !.funnel.other = @ + l, !.funnel.duplicate = @ + w,
                       !.funnel.per_domain_cap = @ + r]
    BY <1>1, <1>3, <1>7, <1>8, <1>9, <1>10, <1>12, <1>14 DEF diversifyFindings
  <1>16. b = [a EXCEPT !.findings = t, !.funnel = f]
    BY <1>2, <1>13, <1>15 DEF AttemptAnswer, FunnelRecord
  <1>17. l \in Nat /\ w \in Nat /\ r \in Nat
    BY <1>11, <1>12
  <1>18. a.funnel \in FunnelRecord
    BY <1>2 DEF AttemptAnswer
  <1>19. /\ f \in FunnelRecord /\ f.returned = a.funnel.returned /\ f.malformed_url = a.funnel.malformed_url
         /\ f.other = a.funnel.other + l /\ f.duplicate = a.funnel.duplicate + w
         /\ f.per_domain_cap = a.funnel.per_domain_cap + r
    <2>1. PICK g : g = a.funnel
      OBVIOUS
    <2>2. /\ g = [returned |-> g.returned, malformed_url |-> g.malformed_url, duplicate |-> g.duplicate,
                  per_domain_cap |-> g.per_domain_cap, other |-> g.other]
          /\ g.returned \in Nat /\ g.malformed_url \in Nat /\ g.duplicate \in Nat /\ g.per_domain_cap \in Nat
          /\ g.other \in Nat
      BY <1>18, <2>1 DEF FunnelRecord
    <2>3. f = [returned |-> g.returned, malformed_url |-> g.malformed_url, duplicate |-> g.duplicate + w,
               per_domain_cap |-> g.per_domain_cap + r, other |-> g.other + l]
      BY <1>13, <2>1, <2>2
    <2>4. g.duplicate + w \in Nat /\ g.per_domain_cap + r \in Nat /\ g.other + l \in Nat
      BY <1>17, <2>2
    <2> QED BY <2>1, <2>2, <2>3, <2>4 DEF FunnelRecord
  <1>20. b \in AttemptAnswer /\ b.findings = t /\ b.funnel = f
    BY <1>2, <1>5, <1>16, <1>19 DEF AttemptAnswer
  <1>21. /\ a.funnel.malformed_url \in Nat /\ a.funnel.duplicate \in Nat /\ a.funnel.per_domain_cap \in Nat
         /\ a.funnel.other \in Nat /\ a.funnel.returned \in Nat
    BY <1>18 DEF FunnelRecord
  <1>22. a.funnel.malformed_url + a.funnel.duplicate + a.funnel.per_domain_cap + a.funnel.other + N
           = a.funnel.returned
    BY <1>1, <1>3 DEF AddsUp
  <1>23. f.malformed_url + f.duplicate + f.per_domain_cap + f.other + Len(t) = f.returned
    <2>1. PICK d, p, o, m, k : /\ d = a.funnel.duplicate /\ p = a.funnel.per_domain_cap /\ o = a.funnel.other
                               /\ m = a.funnel.malformed_url /\ k = Len(t)
      OBVIOUS
    <2>2. /\ d \in Nat /\ p \in Nat /\ o \in Nat /\ m \in Nat /\ k \in Nat
          /\ m + d + p + o + (l + w + r + k) = a.funnel.returned
      BY <1>11, <1>12, <1>21, <1>22, <2>1
    <2>3. m + (d + w) + (p + r) + (o + l) + k = a.funnel.returned
      BY <1>17, <2>2, ThreeReasons
    <2> QED BY <1>19, <2>1, <2>3
  <1> QED BY <1>1, <1>6, <1>14, <1>20, <1>23 DEF AddsUp

(* What may be said of a finding on its way from the reply to the Kernel.      *)
Among(u, rs) == \E j \in DOMAIN rs : rs[j].key = u.key
Sound(u, rs) ==
  /\ isWellFormedWebUrl(u)
  /\ u.form = "private" /\ Among(u, rs) => \E j \in DOMAIN rs : isPrivate(rs[j])
Chosen(a, rs) == AddsUp(a) /\ \A i \in DOMAIN a.findings : Sound(a.findings[i], rs)
Honest(a, rs, known) ==
  /\ Chosen(a, rs) /\ Few(a.findings)
  /\ \A i \in DOMAIN a.findings : Among(a.findings[i], rs) /\ a.findings[i].key \notin known

LEMMA KeepListedTells ==
  ASSUME NEW a, Chosen(a, searchResults)
  PROVE  LET b == keepListedFindings(a) IN
         Chosen(b, searchResults) /\ \A i \in DOMAIN b.findings : Among(b.findings[i], searchResults)
  <1>1. PICK fs, rs : fs = a.findings /\ rs = searchResults
    OBVIOUS
  <1>2. AddsUp(a) /\ fs \in Seq(WebUrl) /\ \A i \in DOMAIN fs : Sound(fs[i], rs)
    BY <1>1 DEF Chosen, AddsUp, AttemptAnswer
  <1>3. PICK I, t : I = {i \in DOMAIN fs : Listed(fs[i])} /\ t = EntriesAt(fs, I)
    OBVIOUS
  <1>4. t \in Seq(WebUrl) /\ Entries(fs, I, t)
    BY <1>2, <1>3, EntriesTell
  <1>5. \A n \in DOMAIN t : \E i \in I : t[n] = fs[i]
    BY <1>4 DEF Entries
  <1>6. \A n \in DOMAIN t : Sound(t[n], rs) /\ Among(t[n], rs)
    BY <1>1, <1>2, <1>3, <1>5 DEF Among, Listed
  <1>7. AddsUp(Drop(a, t, "other")) /\ Drop(a, t, "other").findings = t
    BY <1>1, <1>2, <1>4, DropAddsUp DEF Entries
  <1>8. keepListedFindings(a) = Drop(a, t, "other")
    BY <1>1, <1>3 DEF keepListedFindings
  <1> QED BY <1>1, <1>6, <1>7, <1>8 DEF Chosen

LEMMA DropKnownTells ==
  ASSUME NEW a, NEW rs, Chosen(a, rs), \A i \in DOMAIN a.findings : Among(a.findings[i], rs)
  PROVE  LET b == dropKnownFindings(a) IN
         /\ Chosen(b, rs)
         /\ \A i \in DOMAIN b.findings : Among(b.findings[i], rs) /\ b.findings[i].key \notin mission.known
  <1>1. PICK fs : fs = a.findings
    OBVIOUS
  <1>2. AddsUp(a) /\ fs \in Seq(WebUrl) /\ \A i \in DOMAIN fs : Sound(fs[i], rs) /\ Among(fs[i], rs)
    BY <1>1 DEF Chosen, AddsUp, AttemptAnswer
  <1>3. PICK I, t : I = {i \in DOMAIN fs : fs[i].key \notin mission.known} /\ t = EntriesAt(fs, I)
    OBVIOUS
  <1>4. t \in Seq(WebUrl) /\ Entries(fs, I, t)
    BY <1>2, <1>3, EntriesTell
  <1>5. \A n \in DOMAIN t : \E i \in I : t[n] = fs[i]
    BY <1>4 DEF Entries
  <1>6. \A n \in DOMAIN t : Sound(t[n], rs) /\ Among(t[n], rs) /\ t[n].key \notin mission.known
    BY <1>2, <1>3, <1>5
  <1>7. AddsUp(Drop(a, t, "duplicate")) /\ Drop(a, t, "duplicate").findings = t
    BY <1>1, <1>2, <1>4, DropAddsUp DEF Entries
  <1>8. dropKnownFindings(a) = Drop(a, t, "duplicate")
    BY <1>1, <1>3 DEF dropKnownFindings
  <1> QED BY <1>6, <1>7, <1>8 DEF Chosen

LEMMA FinalizeTells ==
  ASSUME NEW a, Chosen(a, searchResults)
  PROVE  Honest(finalize(a), searchResults, mission.known)
  <1>1. PICK rs, b, c, d : /\ rs = searchResults /\ b = keepListedFindings(a)
                           /\ c = dropKnownFindings(b) /\ d = diversifyFindings(c)
    OBVIOUS
  <1>2. Chosen(b, rs) /\ \A i \in DOMAIN b.findings : Among(b.findings[i], rs)
    BY <1>1, KeepListedTells
  <1>3. Chosen(c, rs) /\ \A i \in DOMAIN c.findings : Among(c.findings[i], rs) /\ c.findings[i].key \notin mission.known
    BY <1>1, <1>2, DropKnownTells
  <1>4. AddsUp(d) /\ SomeOf(c.findings, d.findings) /\ Few(d.findings)
    BY <1>1, <1>3, DiversifyTells DEF Chosen
  <1>5. \A i \in DOMAIN d.findings :
          Sound(d.findings[i], rs) /\ Among(d.findings[i], rs) /\ d.findings[i].key \notin mission.known
    BY <1>3, <1>4 DEF SomeOf, Chosen
  <1>6. a.ok
    BY DEF Chosen, AddsUp, AttemptAnswer
  <1>7. finalize(a) = d
    BY <1>1, <1>6 DEF finalize
  <1> QED BY <1>1, <1>4, <1>5, <1>7 DEF Honest, Chosen

(* The results of the searches.                                                *)
Outcome == [state : {"primary", "fallback", "done"}, ok : BOOLEAN, hits : HitLists \cup {<<>>}]
OutcomesInv == queryOutcomes \in Seq(Outcome)

LEMMA HitsAreUrls == \A o \in Outcome : o.hits \in Seq(WebUrl)
  <1>1. \A hits \in HitLists : hits \in Seq(WebUrl)
    BY SearchLimits
  <1>2. <<>> \in Seq(WebUrl)
    BY EmptySeq
  <1>3. \A o \in Outcome : o.hits \in HitLists \cup {<<>>}
    BY DEF Outcome
  <1> QED BY <1>1, <1>2, <1>3

\* u is what a search of this attempt answered, and may be selected.
Hit(u) ==
  /\ isWellFormedWebUrl(u) /\ ~isAdRedirect(u)
  /\ \E i \in DOMAIN queryOutcomes : \E k \in DOMAIN queryOutcomes[i].hits : u = queryOutcomes[i].hits[k]

LEMMA ResultsTell ==
  ASSUME OutcomesInv
  PROVE  searchResults \in Seq(WebUrl) /\ \A j \in DOMAIN searchResults : Hit(searchResults[j])
  <1>1. PICK lists : lists = [i \in DOMAIN queryOutcomes |-> queryOutcomes[i].hits]
    OBVIOUS
  <1>2. lists \in Seq(Seq(WebUrl)) /\ DOMAIN lists = DOMAIN queryOutcomes
    <2>1. PICK N : N = Len(queryOutcomes) /\ N \in Nat /\ DOMAIN queryOutcomes = 1..N
      BY DEF OutcomesInv
    <2>2. PICK U : U = Seq(WebUrl)
      OBVIOUS
    <2>3. \A i \in 1..N : queryOutcomes[i].hits \in U
      BY <2>1, <2>2, HitsAreUrls DEF OutcomesInv
    <2>4. lists \in [1..N -> U]
      BY <1>1, <2>1, <2>3
    <2>5. lists \in Seq(U)
      BY <2>1, <2>4
    <2> QED BY <1>1, <2>2, <2>5
  <1>3. PICK all : all = FlattenSeq(lists)
    OBVIOUS
  <1>4. all \in Seq(WebUrl) /\ From(lists, all)
    BY <1>2, <1>3, FlattenTells
  <1>5. PICK eligible : eligible = {i \in DOMAIN all : isWellFormedWebUrl(all[i]) /\ ~isAdRedirect(all[i])}
    OBVIOUS
  <1>6. PICK I : I = {i \in eligible : \A j \in eligible : all[j].key = all[i].key => i <= j}
    OBVIOUS
  <1>7. PICK t : t = EntriesAt(all, I)
    OBVIOUS
  <1>8. t \in Seq(WebUrl) /\ Entries(all, I, t)
    BY <1>4, <1>5, <1>6, <1>7, EntriesTell
  <1>9. t = searchResults
    BY <1>1, <1>3, <1>5, <1>6, <1>7 DEF searchResults
  <1>10. \A n \in DOMAIN t : \E i \in eligible : t[n] = all[i]
    BY <1>6, <1>8 DEF Entries
  <1>11. \A i \in eligible : \E j \in DOMAIN queryOutcomes :
           \E k \in DOMAIN queryOutcomes[j].hits : all[i] = queryOutcomes[j].hits[k]
    BY <1>1, <1>2, <1>4, <1>5 DEF From
  <1>12. \A n \in DOMAIN t : Hit(t[n])
    BY <1>5, <1>10, <1>11 DEF Hit
  <1> QED BY <1>8, <1>9, <1>12

LEMMA SelectedTells ==
  ASSUME NEW fs \in Seq(WebUrl), NEW returned \in Nat, NEW malformed \in Nat, malformed + Len(fs) = returned
  PROVE  AddsUp(Selected(fs, returned, malformed)) /\ Selected(fs, returned, malformed).findings = fs
  <1>1. Len(fs) \in Nat
    OBVIOUS
  <1>2. PICK f : f = [returned |-> returned, malformed_url |-> malformed, duplicate |-> 0,
                      per_domain_cap |-> 0, other |-> 0]
    OBVIOUS
  <1>3. f \in FunnelRecord /\ f.malformed_url + f.duplicate + f.per_domain_cap + f.other + Len(fs) = f.returned
    BY <1>1, <1>2 DEF FunnelRecord
  <1>4. PICK a : a = [ok |-> TRUE, findings |-> fs, funnel |-> f]
    OBVIOUS
  <1>5. a \in AttemptAnswer /\ a.findings = fs /\ a.funnel = f
    BY <1>3, <1>4 DEF AttemptAnswer
  <1>6. a = Selected(fs, returned, malformed)
    BY <1>2, <1>4 DEF Selected
  <1> QED BY <1>3, <1>5, <1>6 DEF AddsUp

\* A URL is private in the eyes of the results when it is one of them.
Traced(u, rs) == u.form = "private" /\ Among(u, rs) => \E j \in DOMAIN rs : isPrivate(rs[j])

SameTrace(u, v) == u.key = v.key /\ u.form = v.form

LEMMA RecoveredIsSound ==
  ASSUME NEW u \in WebUrl, NEW rs, Recoverable(u), Traced(u, rs)
  PROVE  recoverWebUrl(u) \in WebUrl /\ Sound(recoverWebUrl(u), rs)
  <1>1. CASE u.form = "debris"
    <2>1. PICK v : v = [u EXCEPT !.form = "page"]
      OBVIOUS
    <2>2. v \in WebUrl /\ v.form = "page"
      BY <2>1 DEF WebUrl, UrlForms
    <2>3. recoverWebUrl(u) = v
      BY <1>1, <2>1 DEF recoverWebUrl
    <2> QED BY <2>2, <2>3 DEF Sound, isWellFormedWebUrl
  <1>2. CASE u.form # "debris"
    BY <1>2 DEF recoverWebUrl, Sound, Traced, isWellFormedWebUrl, Recoverable
  <1> QED BY <1>1, <1>2

LEMMA ParsedIsChosen ==
  ASSUME NEW written, NEW urls \in Seq(WebUrl), NEW rs, \A i \in DOMAIN urls : Traced(urls[i], rs)
  PROVE  LET a == parseHermesFindingsWithFunnel(written, urls) IN a = Failed \/ Chosen(a, rs)
  <1>1. PICK read : read = IF repairHermesJson(written) = "json" THEN urls ELSE extractLiteralWebUrls(urls)
    OBVIOUS
  <1>2. read \in Seq(WebUrl) /\ \A i \in DOMAIN read : \E j \in DOMAIN urls : SameTrace(read[i], urls[j])
    <2>1. urls \in Seq(WebUrl) /\ SomeOf(urls, urls)
      BY DEF SomeOf
    <2>2. PICK said : said = [i \in DOMAIN urls |-> [urls[i] EXCEPT !.dated = TRUE]]
      OBVIOUS
    <2>3. ASSUME NEW i \in DOMAIN urls
          PROVE  said[i] \in WebUrl /\ said[i].key = urls[i].key /\ said[i].form = urls[i].form
      <3>1. PICK u \in WebUrl : u = urls[i]
        OBVIOUS
      <3>2. said[i] = [u EXCEPT !.dated = TRUE]
        BY <2>2, <3>1
      <3> QED BY <3>1, <3>2 DEF WebUrl
    <2>4. said \in Seq(WebUrl) /\ DOMAIN said = DOMAIN urls
      <3>1. PICK n : n = Len(urls) /\ n \in Nat /\ DOMAIN urls = 1..n
        OBVIOUS
      <3>2. said \in [1..n -> WebUrl]
        BY <2>2, <2>3, <3>1
      <3> QED BY <2>2, <3>1, <3>2
    <2>5. PICK once : once = Unique(said)
      OBVIOUS
    <2>6. once \in Seq(WebUrl) /\ \A i \in DOMAIN once : \E j \in DOMAIN urls : SameTrace(once[i], urls[j])
      <3>1. once \in Seq(WebUrl) /\ \A i \in DOMAIN once : \E j \in DOMAIN said : once[i] = said[j]
        BY <2>4, <2>5, UniqueTells
      <3> QED BY <2>3, <2>4, <3>1 DEF SameTrace
    <2>7. once = extractLiteralWebUrls(urls)
      BY <2>2, <2>5 DEF extractLiteralWebUrls
    <2> QED BY <1>1, <2>1, <2>6, <2>7 DEF SomeOf, SameTrace
  <1>3. PICK I, usable : I = {i \in DOMAIN read : Recoverable(read[i])} /\ usable = EntriesAt(read, I)
    OBVIOUS
  <1>4. usable \in Seq(WebUrl) /\ Entries(read, I, usable)
    BY <1>2, <1>3, EntriesTell
  <1>5. PICK fs : fs = [i \in DOMAIN usable |-> recoverWebUrl(usable[i])]
    OBVIOUS
  <1>6. \A i \in DOMAIN usable : usable[i] \in WebUrl /\ Recoverable(usable[i]) /\ Traced(usable[i], rs)
    <2>1. \A i \in DOMAIN usable : \E k \in I : usable[i] = read[k]
      BY <1>4 DEF Entries
    <2>2. \A k \in DOMAIN read : read[k] \in WebUrl /\ Traced(read[k], rs)
      BY <1>2 DEF SameTrace, Traced, Among
    <2> QED BY <1>3, <2>1, <2>2
  <1>7. \A i \in DOMAIN usable : fs[i] \in WebUrl /\ Sound(fs[i], rs)
    BY <1>5, <1>6, RecoveredIsSound
  <1>8. PICK n, m : n = Len(usable) /\ m = Len(read)
    OBVIOUS
  <1>9. n \in Nat /\ m \in Nat /\ n <= m /\ DOMAIN usable = 1..n
    BY <1>2, <1>4, <1>8 DEF Entries
  <1>10. fs \in Seq(WebUrl) /\ Len(fs) = n /\ DOMAIN fs = 1..n
    <2>1. fs \in [1..n -> WebUrl]
      BY <1>5, <1>7, <1>9
    <2> QED BY <1>9, <2>1
  <1>11. m - n \in Nat /\ (m - n) + Len(fs) = m
    BY <1>9, <1>10
  <1>12. AddsUp(Selected(fs, m, m - n)) /\ Selected(fs, m, m - n).findings = fs
    BY <1>9, <1>10, <1>11, SelectedTells
  <1>13. Chosen(Selected(fs, m, m - n), rs)
    BY <1>7, <1>9, <1>10, <1>12 DEF Chosen
  <1>14. parseHermesFindingsWithFunnel(written, urls) \in {Failed, Selected(fs, m, m - n)}
    BY <1>1, <1>3, <1>5, <1>8 DEF parseHermesFindingsWithFunnel
  <1> QED BY <1>13, <1>14

LEMMA NumbersAreResults ==
  ASSUME NEW ns \in Seq(Nat), NEW rs, rs = searchResults, rs \in Seq(WebUrl)
  PROVE  LET fs == findingsFromResultRefs(ns) IN
         fs \in Seq(WebUrl) /\ \A i \in DOMAIN fs : Traced(fs[i], rs)
  <1>0. MaxReturned \in Nat
    BY SearchLimits
  <1>1. PICK read : read = IF backend = "ollama" THEN Capped(ns, MaxReturned) ELSE ns
    OBVIOUS
  <1>2. read \in Seq(Nat)
    BY <1>0, <1>1, CappedTells
  <1>3. PICK I, t : I = {i \in DOMAIN read : read[i] \in DOMAIN rs} /\ t = EntriesAt(read, I)
    OBVIOUS
  <1>4. t \in Seq(Nat) /\ Entries(read, I, t)
    BY <1>2, <1>3, EntriesTell
  <1>5. \A i \in DOMAIN t : t[i] \in DOMAIN rs
    BY <1>3, <1>4 DEF Entries
  <1>6. PICK u, hits : u = Unique(t) /\ hits = Capped(u, MaxReturned)
    OBVIOUS
  <1>7. u \in Seq(Nat) /\ \A i \in DOMAIN u : u[i] \in DOMAIN rs
    BY <1>4, <1>5, <1>6, UniqueTells
  <1>8. hits \in Seq(Nat) /\ \A i \in DOMAIN hits : hits[i] \in DOMAIN rs
    BY <1>0, <1>6, <1>7, CappedTells
  <1>9. PICK fs : fs = [i \in DOMAIN hits |-> rs[hits[i]]]
    OBVIOUS
  <1>10. fs = findingsFromResultRefs(ns)
    BY <1>1, <1>3, <1>6, <1>9 DEF findingsFromResultRefs
  <1>11. \A i \in DOMAIN hits : fs[i] \in WebUrl /\ Traced(fs[i], rs)
    BY <1>8, <1>9 DEF Traced, isPrivate
  <1>12. fs \in Seq(WebUrl) /\ DOMAIN fs = DOMAIN hits
    <2>1. PICK n : n = Len(hits) /\ n \in Nat /\ DOMAIN hits = 1..n
      BY <1>8
    <2>2. fs \in [1..n -> WebUrl]
      BY <1>9, <1>11, <2>1
    <2> QED BY <2>1, <2>2
  <1> QED BY <1>10, <1>11, <1>12

LEMMA ReplyIsChosen ==
  ASSUME OutcomesInv, NEW reply \in Replies
  PROVE  LET a == parseSelectionOutput(reply) IN a = Failed \/ Chosen(a, searchResults)
  <1>1. PICK rs : rs = searchResults
    OBVIOUS
  <1>2. rs \in Seq(WebUrl) /\ \A j \in DOMAIN rs : Hit(rs[j])
    BY <1>1, ResultsTell
  <1>3. CASE reply.kind = "urls"
    <2>1. PICK urls : urls = reply.urls
      OBVIOUS
    <2>2. urls \in Seq(WebUrl)
      BY <1>3, <2>1, SearchLimits
    <2>3. ASSUME NEW i \in DOMAIN urls PROVE Traced(urls[i], rs)
      <3> SUFFICES ASSUME urls[i].form = "private", NEW j \in DOMAIN rs, rs[j].key = urls[i].key
                   PROVE  isPrivate(rs[j])
        BY DEF Traced, Among
      <3>1. PICK q \in DOMAIN queryOutcomes : \E k \in DOMAIN queryOutcomes[q].hits : rs[j] = queryOutcomes[q].hits[k]
        BY <1>2 DEF Hit
      <3>2. PICK hits : hits = queryOutcomes[q].hits
        OBVIOUS
      <3>3. hits \in HitLists \cup {<<>>}
        <4>1. PICK O : O = Outcome
          OBVIOUS
        <4>2. queryOutcomes[q] \in O
          BY <4>1 DEF OutcomesInv
        <4> QED BY <3>2, <4>1, <4>2 DEF Outcome
      <3>4. PICK k \in DOMAIN hits : rs[j] = hits[k]
        BY <3>1, <3>2
      <3>5. hits \in HitLists
        BY <3>3, <3>4
      <3>6. hits[k].form # "page"
        BY <1>3, <2>1, <3>4, <3>5, PrivacyIsInTheKey
      <3>7. rs[j].form \notin {"debris", "broken", "ad", "page"} /\ rs[j].form \in UrlForms
        <4>1. isWellFormedWebUrl(rs[j]) /\ ~isAdRedirect(rs[j])
          BY <1>2 DEF Hit
        <4>2. rs[j] \in WebUrl
          BY <1>2
        <4>3. rs[j].form \in UrlForms
          BY <4>2 DEF WebUrl
        <4> QED BY <3>4, <3>6, <4>1, <4>3 DEF isWellFormedWebUrl, isAdRedirect
      <3> QED BY <3>7 DEF isPrivate, UrlForms
    <2>4. PICK a : a = parseHermesFindingsWithFunnel(reply.text, urls)
      OBVIOUS
    <2>5. a = Failed \/ Chosen(a, rs)
      BY <2>2, <2>3, <2>4, ParsedIsChosen
    <2> QED BY <1>1, <1>3, <2>1, <2>4, <2>5 DEF parseSelectionOutput
  <1>4. CASE reply.kind = "numbers"
    <2>1. PICK fs : fs = findingsFromResultRefs(reply.numbers)
      OBVIOUS
    <2>2. fs \in Seq(WebUrl) /\ \A i \in DOMAIN fs : Traced(fs[i], rs)
      BY <1>1, <1>2, <1>4, <2>1, SearchLimits, NumbersAreResults
    <2>3. PICK a : a = parseHermesFindingsWithFunnel("json", fs)
      OBVIOUS
    <2>4. a = Failed \/ Chosen(a, rs)
      BY <2>2, <2>3, ParsedIsChosen
    <2>5. parseSelectionOutput(reply) \in {Failed, a}
      BY <1>4, <2>1, <2>3 DEF parseSelectionOutput
    <2> QED BY <1>1, <2>4, <2>5
  <1>5. CASE reply.kind \notin {"urls", "numbers"}
    BY <1>5 DEF parseSelectionOutput
  <1> QED BY <1>3, <1>4, <1>5

(* The plan.                                                                   *)
PlanInv == /\ Len(plannedQueries) \in Nat /\ DOMAIN plannedQueries = 1..Len(plannedQueries)
           /\ NothingTwice(plannedQueries)

LEMMA PlanTells ==
  ASSUME NEW m
  PROVE  LET qs == planSearchQueries(m) IN
         Len(qs) \in Nat /\ DOMAIN qs = 1..Len(qs) /\ NothingTwice(qs)
  <1> DEFINE PlannedOnce(qs) == Len(qs) \in Nat /\ DOMAIN qs = 1..Len(qs) /\ NothingTwice(qs)
  <1>1. PlannedOnce(<<>>)
    BY DEF NothingTwice
  <1>2. ASSUME NEW x, NEW y, NEW z PROVE PlannedOnce(Capped(Unique(Present(<<x, y, z>>)), MaxSearches))
    <2>1. PICK V, v : V = {x, y, z} /\ v = <<x, y, z>>
      OBVIOUS
    <2>2. v \in Seq(V)
      BY <2>1
    <2>3. PICK p : p = Present(v)
      OBVIOUS
    <2>4. p \in Seq(V)
      <3>1. {i \in DOMAIN v : v[i] # <<>>} \subseteq DOMAIN v
        OBVIOUS
      <3> QED BY <2>2, <2>3, <3>1, EntriesTell DEF Present
    <2>5. PICK u : u = Unique(p)
      OBVIOUS
    <2>6. u \in Seq(V) /\ NothingTwice(u)
      BY <2>4, <2>5, UniqueTells
    <2>7. PICK c : c = Capped(u, MaxSearches)
      OBVIOUS
    <2>8. MaxSearches \in Nat
      BY SearchLimits
    <2>9. c \in Seq(V) /\ \A i \in DOMAIN c : i \in DOMAIN u /\ c[i] = u[i]
      BY <2>6, <2>7, <2>8, CappedTells
    <2>10. NothingTwice(c)
      BY <2>6, <2>9 DEF NothingTwice
    <2>11. PlannedOnce(c)
      BY <2>9, <2>10
    <2> QED BY <2>1, <2>3, <2>5, <2>7, <2>11
  <1> HIDE DEF PlannedOnce
  <1>3. \/ planSearchQueries(m) = <<>>
        \/ \E x, y, z : planSearchQueries(m) = Capped(Unique(Present(<<x, y, z>>)), MaxSearches)
    BY DEF planSearchQueries
  <1>4. PlannedOnce(planSearchQueries(m))
    BY <1>1, <1>2, <1>3
  <1> QED BY <1>4 DEF PlannedOnce

(* The telemetry is kept whenever the funnel adds up.                          *)
LEMMA ShownAreShowable ==
  ASSUME NEW hits \in Seq(WebUrl)
  PROVE  LET shown == displayableResults(hits) IN
         /\ Len(shown) <= Len(hits) /\ NothingTwice(shown)
         /\ \A j \in DOMAIN shown : isWellFormedWebUrl(shown[j]) /\ ~isPrivate(shown[j])
  <1>1. PICK I, t : /\ I = {i \in DOMAIN hits : isWellFormedWebUrl(hits[i]) /\ ~isPrivate(hits[i])}
                    /\ t = EntriesAt(hits, I)
    OBVIOUS
  <1>2. t \in Seq(WebUrl) /\ Entries(hits, I, t)
    BY <1>1, EntriesTell
  <1>3. PICK u : u = Unique(t)
    OBVIOUS
  <1>4. u \in Seq(WebUrl) /\ Len(u) <= Len(t) /\ NothingTwice(u) /\ \A n \in DOMAIN u : \E i \in DOMAIN t : u[n] = t[i]
    BY <1>2, <1>3, UniqueTells
  <1>5. Len(u) <= Len(hits)
    <2>1. Len(u) \in Nat /\ Len(t) \in Nat /\ Len(hits) \in Nat /\ Len(t) <= Len(hits)
      BY <1>2, <1>4 DEF Entries
    <2> QED BY <1>4, <2>1
  <1>6. \A n \in DOMAIN u : isWellFormedWebUrl(u[n]) /\ ~isPrivate(u[n])
    <2>1. \A i \in DOMAIN t : isWellFormedWebUrl(t[i]) /\ ~isPrivate(t[i])
      BY <1>1, <1>2 DEF Entries
    <2> QED BY <1>4, <2>1
  <1>7. u = displayableResults(hits)
    BY <1>1, <1>3 DEF displayableResults
  <1> QED BY <1>4, <1>5, <1>6, <1>7

LEMMA TelemetryTells ==
  ASSUME OutcomesInv, PlanInv, AddsUp(answer)
  PROVE  normalizeSearchTelemetry(Len(answer.findings))
  <1>1. ASSUME NEW i \in DOMAIN queryOutcomes
        PROVE  LET shown == displayableResults(queryOutcomes[i].hits)
               IN /\ Len(shown) <= Len(queryOutcomes[i].hits) /\ NothingTwice(shown)
                  /\ \A j \in DOMAIN shown : isWellFormedWebUrl(shown[j]) /\ ~isPrivate(shown[j])
    <2>1. queryOutcomes[i].hits \in Seq(WebUrl)
      BY HitsAreUrls DEF OutcomesInv
    <2> QED BY <2>1, ShownAreShowable
  <1>2. normalizeFunnel(answer.funnel, Len(answer.findings))
    BY DEF AddsUp, normalizeFunnel
  <1> QED BY <1>1, <1>2 DEF normalizeSearchTelemetry, PlanInv

(* The attempt.                                                                *)
Settled == \A i \in DOMAIN queryOutcomes : queryOutcomes[i].state = "done"
HonestAnswer == Settled /\ Honest(answer, searchResults, mission.known)
RefusalInv ==
  \/ \E i \in DOMAIN searchResults : isPrivate(searchResults[i])
  \/ \E i \in DOMAIN answer.findings : answer.findings[i].form = "credentials" \/ ~answer.findings[i].dated
AttemptInv ==
  /\ OutcomesInv /\ PlanInv
  /\ step \in {"preparing", "seeding", "selecting", "stopping", "cleaning"} => Settled
  /\ answer.ok => HonestAnswer
  /\ step \in {"submitting", "submitted"} => answer.ok
  /\ kernel.state = "refused" => step = "failed" /\ answer.ok /\ RefusalInv
  /\ step = "submitted" => kernel.telemetry /\ kernel.candidates = ToSet(answer.findings)

LEMMA AttemptInitInv == SearchInit => AttemptInv
  <1> SUFFICES ASSUME SearchInit PROVE AttemptInv
    OBVIOUS
  <1>1. queryOutcomes = <<>> /\ plannedQueries = <<>> /\ step = "idle" /\ ~answer.ok /\ kernel.state # "refused"
    BY DEF SearchInit, Failed, Unsent
  <1>2. OutcomesInv
    <2>1. PICK O : O = Outcome
      OBVIOUS
    <2>2. <<>> \in Seq(O)
      OBVIOUS
    <2> QED BY <1>1, <2>1, <2>2 DEF OutcomesInv
  <1>3. PlanInv
    BY <1>1 DEF PlanInv, NothingTwice
  <1> QED BY <1>1, <1>2, <1>3 DEF AttemptInv

(* Steps that leave searches and answer alone.                                 *)
LEMMA SameAttempt ==
  ASSUME AttemptInv, UNCHANGED <<mission, plannedQueries, queryOutcomes>>
  PROVE  /\ OutcomesInv' /\ PlanInv' /\ (Settled' <=> Settled) /\ searchResults' = searchResults
         /\ UNCHANGED answer => (HonestAnswer' <=> HonestAnswer) /\ (RefusalInv' <=> RefusalInv)
  <1>1. OutcomesInv' /\ PlanInv' /\ (Settled' <=> Settled)
    BY DEF AttemptInv, OutcomesInv, PlanInv, Settled
  <1>2. searchResults' = searchResults
    BY DEF searchResults
  <1>3. UNCHANGED answer => (HonestAnswer' <=> HonestAnswer)
    BY <1>1, <1>2 DEF HonestAnswer
  <1>4. UNCHANGED answer => (RefusalInv' <=> RefusalInv)
    BY <1>2 DEF RefusalInv
  <1> QED BY <1>1, <1>2, <1>3, <1>4

LEMMA AfterModelAttempt ==
  ASSUME AttemptInv, NEW a, a = Failed \/ Chosen(a, searchResults), step \in {"selecting", "stopping"}, AfterModel(a)
  PROVE  AttemptInv'
  <1>1. UNCHANGED <<mission, plannedQueries, queryOutcomes, kernel>> /\ answer' = finalize(a)
    BY DEF AfterModel
  <1>2. kernel.state # "refused" /\ Settled
    BY DEF AttemptInv
  <1>3. OutcomesInv' /\ PlanInv' /\ Settled' /\ searchResults' = searchResults
    BY <1>1, <1>2, SameAttempt
  <1>4. CASE Chosen(a, searchResults)
    <2>1. Honest(answer', searchResults, mission.known)
      BY <1>1, <1>4, FinalizeTells
    <2>2. HonestAnswer' /\ answer'.ok
      BY <1>1, <1>3, <2>1 DEF HonestAnswer, Honest, Chosen, AddsUp, AttemptAnswer
    <2>3. step' # "submitted"
      BY DEF AfterModel
    <2> QED BY <1>1, <1>2, <1>3, <2>2, <2>3 DEF AttemptInv
  <1>5. CASE a = Failed
    <2>1. answer' = Failed /\ ~answer'.ok
      BY <1>1, <1>5 DEF finalize, Failed
    <2>2. step' \in {"cleaning", "failed"}
      BY <1>5 DEF AfterModel, Failed
    <2> QED BY <1>1, <1>2, <1>3, <2>1, <2>2 DEF AttemptInv
  <1> QED BY <1>4, <1>5

LEMMA OutcomeChanges ==
  ASSUME AttemptInv, NEW i \in DOMAIN queryOutcomes, queryOutcomes[i].state # "done", NEW o \in Outcome,
         queryOutcomes' = [queryOutcomes EXCEPT ![i] = o],
         UNCHANGED <<step, mission, plannedQueries, answer, kernel>>
  PROVE  AttemptInv'
  <1>1. ~Settled
    BY DEF Settled
  <1>2. OutcomesInv'
    <2>1. PICK O : O = Outcome
      OBVIOUS
    <2>2. queryOutcomes \in Seq(O) /\ o \in O /\ i \in 1..Len(queryOutcomes)
      BY <2>1 DEF AttemptInv, OutcomesInv
    <2>3. queryOutcomes' \in Seq(O)
      BY <2>2, ExceptSeq
    <2> QED BY <2>1, <2>3 DEF OutcomesInv
  <1>3. PlanInv'
    BY DEF AttemptInv, PlanInv
  <1>4. ~answer.ok
    BY <1>1 DEF AttemptInv, HonestAnswer
  <1> QED BY <1>1, <1>2, <1>3, <1>4 DEF AttemptInv

(* Nothing is answered before the searches have settled.                       *)
LEMMA PlanSearchesAttempt == AttemptInv /\ HomeInv /\ PlanSearches => AttemptInv'
  <1> SUFFICES ASSUME AttemptInv, HomeInv, PlanSearches PROVE AttemptInv'
    OBVIOUS
  <1>1. /\ step = "idle" /\ step' \in {"failed", "searching"} /\ UNCHANGED <<answer, kernel>>
        /\ plannedQueries' = planSearchQueries(mission)
        /\ queryOutcomes' = [i \in DOMAIN plannedQueries' |-> [state |-> "primary", ok |-> FALSE, hits |-> <<>>]]
    BY DEF PlanSearches
  <1>2. ~answer.ok /\ kernel.state # "refused"
    BY <1>1 DEF HomeInv, Failed, AttemptInv
  <1>3. PICK qs : qs = plannedQueries'
    OBVIOUS
  <1>4. Len(qs) \in Nat /\ DOMAIN qs = 1..Len(qs) /\ NothingTwice(qs)
    BY <1>1, <1>3, PlanTells
  <1>5. PlanInv'
    BY <1>3, <1>4 DEF PlanInv
  <1>6. OutcomesInv'
    <2>1. PICK O, o, n : O = Outcome /\ o = [state |-> "primary", ok |-> FALSE, hits |-> <<>>] /\ n = Len(qs)
      OBVIOUS
    <2>2. o \in O
      BY <2>1 DEF Outcome
    <2>3. queryOutcomes' \in [1..n -> O]
      BY <1>1, <1>3, <1>4, <2>1, <2>2
    <2>4. queryOutcomes' \in Seq(O)
      BY <1>4, <2>1, <2>3
    <2> QED BY <2>1, <2>4 DEF OutcomesInv
  <1> QED BY <1>1, <1>2, <1>5, <1>6 DEF AttemptInv

LEMMA OutcomesAttempt ==
  ASSUME AttemptInv, NEW i \in DOMAIN queryOutcomes,
         \/ \E hits \in HitLists : SearchAnswers(i, hits) \/ FallbackAnswers(i, hits)
         \/ \E ok \in BOOLEAN : SearchFallsBack(i, ok)
         \/ QueryFails(i)
         \/ FallbackFails(i)
  PROVE  AttemptInv'
  <1>1. PICK O : O = Outcome
    OBVIOUS
  <1>2. queryOutcomes[i] \in O
    BY <1>1 DEF AttemptInv, OutcomesInv
  <1>3. queryOutcomes[i].ok \in BOOLEAN
    BY <1>1, <1>2 DEF Outcome
  <1>4. ASSUME NEW state \in {"fallback", "done"}, NEW b \in BOOLEAN, NEW hits \in HitLists \cup {<<>>}
        PROVE  [state |-> state, ok |-> b, hits |-> hits] \in Outcome
    BY DEF Outcome
  <1>5. ASSUME NEW hits \in HitLists, SearchAnswers(i, hits) PROVE AttemptInv'
    <2>1. /\ queryOutcomes[i].state # "done"
          /\ queryOutcomes' = [queryOutcomes EXCEPT ![i] = [state |-> "done", ok |-> TRUE, hits |-> hits]]
          /\ UNCHANGED <<step, mission, plannedQueries, answer, kernel>>
      BY <1>5 DEF SearchAnswers, Settles
    <2> QED BY <1>4, <2>1, OutcomeChanges
  <1>6. ASSUME NEW hits \in HitLists, FallbackAnswers(i, hits) PROVE AttemptInv'
    <2>1. PICK b \in BOOLEAN : b = (hits # <<>> \/ queryOutcomes[i].ok)
      OBVIOUS
    <2>2. /\ queryOutcomes[i].state # "done"
          /\ queryOutcomes' = [queryOutcomes EXCEPT ![i] = [state |-> "done", ok |-> b, hits |-> hits]]
          /\ UNCHANGED <<step, mission, plannedQueries, answer, kernel>>
      BY <1>6, <2>1 DEF FallbackAnswers, Settles
    <2> QED BY <1>4, <2>2, OutcomeChanges
  <1>7. ASSUME NEW b \in BOOLEAN, SearchFallsBack(i, b) PROVE AttemptInv'
    <2>1. /\ queryOutcomes[i].state # "done"
          /\ queryOutcomes' = [queryOutcomes EXCEPT ![i] = [state |-> "fallback", ok |-> b, hits |-> <<>>]]
          /\ UNCHANGED <<step, mission, plannedQueries, answer, kernel>>
      BY <1>7 DEF SearchFallsBack
    <2> QED BY <1>4, <2>1, OutcomeChanges
  <1>8. CASE QueryFails(i)
    <2>1. /\ queryOutcomes[i].state # "done"
          /\ queryOutcomes' = [queryOutcomes EXCEPT ![i] = [state |-> "done", ok |-> FALSE, hits |-> <<>>]]
          /\ UNCHANGED <<step, mission, plannedQueries, answer, kernel>>
      BY <1>8 DEF QueryFails, Settles
    <2> QED BY <1>4, <2>1, OutcomeChanges
  <1>9. CASE FallbackFails(i)
    <2>1. PICK b \in BOOLEAN : b = queryOutcomes[i].ok
      BY <1>3
    <2>2. /\ queryOutcomes[i].state # "done"
          /\ queryOutcomes' = [queryOutcomes EXCEPT ![i] = [state |-> "done", ok |-> b, hits |-> <<>>]]
          /\ UNCHANGED <<step, mission, plannedQueries, answer, kernel>>
      BY <1>9, <2>1 DEF FallbackFails, Settles
    <2> QED BY <1>4, <2>2, OutcomeChanges
  <1> QED BY <1>5, <1>6, <1>7, <1>8, <1>9

(* An empty answer is an honest one.                                           *)
LEMMA NothingIsHonest ==
  ASSUME NEW rs, NEW known
  PROVE  Honest(Selected(<<>>, 0, 0), rs, known) /\ Selected(<<>>, 0, 0).ok
  <1>1. PICK a : a = Selected(<<>>, 0, 0)
    OBVIOUS
  <1>2. <<>> \in Seq(WebUrl) /\ 0 + Len(<<>>) = 0
    BY EmptySeq
  <1>3. AddsUp(a) /\ a.findings = <<>>
    BY <1>1, <1>2, SelectedTells
  <1>4. Few(<<>>)
    <2>1. ToSet(<<>>) = {}
      BY DEF ToSet
    <2>2. \A h : {v \in ToSet(<<>>) : v.host = h} = {}
      BY <2>1
    <2>3. Cardinality({}) = 0 /\ 0 <= MaxFindings /\ 0 <= MaxPerHost
      BY FS_EmptySet, SearchLimits
    <2> QED BY <2>1, <2>2, <2>3 DEF Few
  <1>5. a.ok
    BY <1>1 DEF Selected
  <1> QED BY <1>1, <1>3, <1>4, <1>5 DEF Honest, Chosen

LEMMA SearchesDoneAttempt == AttemptInv /\ HomeInv /\ SearchesDone => AttemptInv'
  <1> SUFFICES ASSUME AttemptInv, HomeInv, SearchesDone PROVE AttemptInv'
    OBVIOUS
  <1>1. /\ step = "searching" /\ Settled /\ UNCHANGED <<mission, plannedQueries, queryOutcomes, kernel>>
        /\ kernel.state # "refused"
    BY DEF SearchesDone, Settled, AttemptInv
  <1>2. OutcomesInv' /\ PlanInv' /\ Settled' /\ searchResults' = searchResults
    BY <1>1, SameAttempt
  <1>3. CASE searchResults = <<>>
    <2>1. step' = "submitting" /\ answer' = Selected(<<>>, 0, 0)
      BY <1>3 DEF SearchesDone
    <2>2. Honest(answer', searchResults, mission.known) /\ answer'.ok
      BY <2>1, NothingIsHonest
    <2>3. HonestAnswer'
      BY <1>1, <1>2, <2>2 DEF HonestAnswer
    <2> QED BY <1>1, <1>2, <2>1, <2>2, <2>3 DEF AttemptInv
  <1>4. CASE searchResults # <<>>
    <2>1. step' \in {"selecting", "preparing"} /\ UNCHANGED answer
      BY <1>4 DEF SearchesDone
    <2>2. ~answer.ok
      BY <1>1 DEF HomeInv, Failed
    <2> QED BY <1>1, <1>2, <2>1, <2>2 DEF AttemptInv
  <1> QED BY <1>3, <1>4

LEMMA SubmitFindingsAttempt == AttemptInv /\ SubmitFindings => AttemptInv'
  <1> SUFFICES ASSUME AttemptInv, SubmitFindings PROVE AttemptInv'
    OBVIOUS
  <1>1. /\ step = "submitting" /\ answer.ok /\ HonestAnswer
        /\ UNCHANGED <<mission, plannedQueries, queryOutcomes, answer>>
    BY DEF SubmitFindings, AttemptInv
  <1>2. OutcomesInv' /\ PlanInv' /\ HonestAnswer' /\ (RefusalInv' <=> RefusalInv)
    BY <1>1, SameAttempt
  <1>3. PICK fs, rs : fs = answer.findings /\ rs = searchResults
    OBVIOUS
  <1>4. CASE normalizeCandidates(fs)
    <2>1. normalizeSearchTelemetry(Len(fs))
      BY <1>1, <1>3, TelemetryTells DEF AttemptInv, HonestAnswer, Honest, Chosen
    <2>2. PICK tel : tel = normalizeSearchTelemetry(Len(fs))
      OBVIOUS
    <2>3. PICK s : s = IF fs = <<>> THEN "completed" ELSE "verifying"
      OBVIOUS
    <2>4. step' = "submitted" /\ kernel' = [state |-> s, candidates |-> ToSet(fs), telemetry |-> tel]
      BY <1>3, <1>4, <2>2, <2>3 DEF SubmitFindings
    <2>5. kernel'.telemetry /\ kernel'.candidates = ToSet(fs) /\ kernel'.state # "refused"
      BY <2>1, <2>2, <2>3, <2>4
    <2> QED BY <1>1, <1>2, <1>3, <2>4, <2>5 DEF AttemptInv
  <1>5. CASE ~normalizeCandidates(fs)
    <2>1. step' = "failed"
      BY <1>3, <1>5 DEF SubmitFindings
    <2>2. RefusalInv
      <3>1. PICK i \in DOMAIN fs : ~(isWellFormedWebUrl(fs[i]) /\ ~isPrivate(fs[i]) /\ fs[i].dated)
        BY <1>5 DEF normalizeCandidates
      <3>2. Sound(fs[i], rs) /\ Among(fs[i], rs)
        BY <1>1, <1>3 DEF HonestAnswer, Honest, Chosen
      <3> QED BY <1>3, <3>1, <3>2 DEF Sound, isPrivate, RefusalInv
    <2> QED BY <1>1, <1>2, <2>1, <2>2 DEF AttemptInv
  <1> QED BY <1>3, <1>4, <1>5

LEMMA AttemptNextInv == AttemptInv /\ HomeInv /\ [SearchNext]_searchVars => AttemptInv'
  <1> SUFFICES ASSUME AttemptInv, HomeInv, [SearchNext]_searchVars PROVE AttemptInv'
    OBVIOUS
  <1> DEFINE quiet == UNCHANGED <<mission, plannedQueries, queryOutcomes, answer, kernel>>
             busy == {"preparing", "seeding", "selecting", "stopping", "cleaning"}
  <1>q. ASSUME quiet, step' \in busy => Settled, step \notin {"submitting", "submitted", "failed"},
               step' \in {"submitting", "submitted"} => answer.ok, step' # "submitted"
        PROVE  AttemptInv'
    <2>1. /\ OutcomesInv' /\ PlanInv' /\ (Settled' <=> Settled) /\ (HonestAnswer' <=> HonestAnswer)
      BY <1>q, SameAttempt
    <2>2. kernel.state # "refused"
      BY <1>q DEF AttemptInv
    <2> QED BY <1>q, <2>1, <2>2 DEF AttemptInv
  <1> HIDE DEF quiet
  <1>1. CASE PlanSearches
    BY <1>1, PlanSearchesAttempt
  <1>2. CASE NoSearchWorker
    <2>1. quiet /\ step = "idle" /\ step' = "failed"
      BY <1>2 DEF NoSearchWorker, quiet
    <2> QED BY <1>q, <2>1
  <1>3. ASSUME NEW i \in DOMAIN queryOutcomes,
               \/ \E hits \in HitLists : SearchAnswers(i, hits) \/ FallbackAnswers(i, hits)
               \/ \E ok \in BOOLEAN : SearchFallsBack(i, ok)
               \/ QueryFails(i)
               \/ FallbackFails(i)
        PROVE  AttemptInv'
    BY <1>3, OutcomesAttempt
  <1>4. CASE SearchesDone
    BY <1>4, SearchesDoneAttempt
  <1>5. CASE RouteRefused
    <2>1. quiet /\ step = "preparing" /\ step' = "failed"
      BY <1>5 DEF RouteRefused, quiet
    <2> QED BY <1>q, <2>1
  <1>6. ASSUME NEW routed \in BOOLEAN, NEW sourceHome \in BOOLEAN, PrepareHome(routed, sourceHome)
        PROVE  AttemptInv'
    <2>1. quiet /\ step = "preparing" /\ step' = "seeding"
      BY <1>6 DEF PrepareHome, quiet
    <2> QED BY <1>q, <2>1 DEF AttemptInv
  <1>7. ASSUME NEW f \in CredentialFiles, SeedFile(f) \/ SeedSkips(f) PROVE AttemptInv'
    <2>1. quiet /\ step = "seeding" /\ step' = "seeding"
      BY <1>7 DEF SeedFile, SeedSkips, quiet
    <2> QED BY <1>q, <2>1 DEF AttemptInv
  <1>8. ASSUME NEW sourceRouted \in BOOLEAN, Spawn(sourceRouted) PROVE AttemptInv'
    <2>1. quiet /\ step = "seeding" /\ step' = "selecting"
      BY <1>8 DEF Spawn, quiet
    <2> QED BY <1>q, <2>1 DEF AttemptInv
  <1>9. CASE PreparationFails
    <2>1. /\ step \in {"preparing", "seeding"} /\ step' = "cleaning" /\ answer' = Failed
          /\ UNCHANGED <<mission, plannedQueries, queryOutcomes, kernel>>
      BY <1>9 DEF PreparationFails
    <2>2. Settled /\ kernel.state # "refused"
      BY <2>1 DEF AttemptInv
    <2>3. OutcomesInv' /\ PlanInv' /\ Settled'
      BY <2>1, <2>2, SameAttempt
    <2>4. ~answer'.ok
      BY <2>1 DEF Failed
    <2> QED BY <2>1, <2>2, <2>3, <2>4 DEF AttemptInv
  <1>10. ASSUME NEW reply \in Replies, NEW code \in {0, 1}, NEW log \in Logs, ModelAnswers(reply, code, log)
         PROVE  AttemptInv'
    <2>1. PICK a : a = parseSelectionOutput(reply)
      OBVIOUS
    <2>2. PICK b : b = IF collectHermesSearchTelemetry(log) \/ (code # 0 /\ (~a.ok \/ a.findings = <<>>))
                       THEN Failed ELSE a
      OBVIOUS
    <2>3. step = "selecting" /\ AfterModel(b)
      BY <1>10, <2>1, <2>2 DEF ModelAnswers
    <2>4. b = Failed \/ Chosen(b, searchResults)
      BY <2>1, <2>2, ReplyIsChosen DEF AttemptInv
    <2> QED BY <2>3, <2>4, AfterModelAttempt
  <1>11. CASE TimerFires
    <2>1. step = "selecting"
      BY <1>11 DEF TimerFires
    <2>2. CASE backend = "hermes"
      <3>1. quiet /\ step' = "stopping"
        BY <1>11, <2>2 DEF TimerFires, quiet
      <3> QED BY <1>q, <2>1, <3>1 DEF AttemptInv
    <2>3. CASE backend # "hermes"
      <3>1. AfterModel(Failed)
        BY <1>11, <2>3 DEF TimerFires
      <3> QED BY <2>1, <3>1, AfterModelAttempt
    <2> QED BY <2>2, <2>3
  <1>12. CASE ProcessCloses
    BY <1>12, AfterModelAttempt DEF ProcessCloses
  <1>13. CASE CleansUp
    <2>1. /\ quiet /\ step = "cleaning" /\ step' \in {"submitting", "failed"}
          /\ step' = "submitting" => answer.ok
      BY <1>13 DEF CleansUp, CleanUp, quiet
    <2> QED BY <1>q, <2>1
  <1>14. CASE KilledByWorker
    <2>1. quiet /\ step \notin {"submitting", "submitted", "failed"} /\ step' = "killed"
      BY <1>14 DEF KilledByWorker, quiet
    <2> QED BY <1>q, <2>1
  <1>15. CASE SubmitFindings
    BY <1>15, SubmitFindingsAttempt
  <1>16. CASE UNCHANGED searchVars
    <2>1. UNCHANGED <<step, mission, plannedQueries, queryOutcomes, answer, kernel>>
      BY <1>16 DEF searchVars
    <2>2. /\ OutcomesInv' /\ PlanInv' /\ (Settled' <=> Settled) /\ (HonestAnswer' <=> HonestAnswer)
          /\ (RefusalInv' <=> RefusalInv)
      BY <2>1, SameAttempt
    <2> QED BY <2>1, <2>2 DEF AttemptInv
  <1> QED BY <1>1, <1>2, <1>3, <1>4, <1>5, <1>6, <1>7, <1>8, <1>9, <1>10, <1>11, <1>12, <1>13,
             <1>14, <1>15, <1>16 DEF SearchNext

(* What the invariant says of a submission.                                    *)
LEMMA AttemptTells == AttemptInv => TelemetryIsKept /\ CandidatesWereFound /\ RefusedOnlyForPrivate
  <1> SUFFICES ASSUME AttemptInv PROVE TelemetryIsKept /\ CandidatesWereFound /\ RefusedOnlyForPrivate
    OBVIOUS
  <1>1. TelemetryIsKept
    BY DEF AttemptInv, TelemetryIsKept
  <1>2. RefusedOnlyForPrivate
    BY DEF AttemptInv, RefusalInv, RefusedOnlyForPrivate
  <1>3. ASSUME step = "submitted"
        PROVE  /\ \A u \in kernel.candidates :
                   /\ \E i \in DOMAIN queryOutcomes : \E j \in DOMAIN queryOutcomes[i].hits :
                       queryOutcomes[i].hits[j].key = u.key /\ ~isAdRedirect(queryOutcomes[i].hits[j])
                   /\ u.key \notin mission.known
                   /\ Cardinality({v \in kernel.candidates : v.host = u.host}) <= MaxPerHost
               /\ Cardinality(kernel.candidates) <= MaxFindings
    <2>1. PICK fs, rs : fs = answer.findings /\ rs = searchResults
      OBVIOUS
    <2>2. kernel.candidates = ToSet(fs) /\ Honest(answer, rs, mission.known)
      BY <1>3, <2>1 DEF AttemptInv, HonestAnswer
    <2>3. Few(fs) /\ \A i \in DOMAIN fs : Among(fs[i], rs) /\ fs[i].key \notin mission.known
      BY <2>1, <2>2 DEF Honest
    <2>4. ASSUME NEW u \in ToSet(fs)
          PROVE  /\ \E i \in DOMAIN queryOutcomes : \E j \in DOMAIN queryOutcomes[i].hits :
                      queryOutcomes[i].hits[j].key = u.key /\ ~isAdRedirect(queryOutcomes[i].hits[j])
                 /\ u.key \notin mission.known
      <3>1. PICK n \in DOMAIN fs : u = fs[n]
        BY DEF ToSet
      <3>2. PICK m \in DOMAIN rs : rs[m].key = u.key
        BY <2>3, <3>1 DEF Among
      <3>3. Hit(rs[m])
        BY <2>1, ResultsTell DEF AttemptInv
      <3> QED BY <2>3, <3>1, <3>2, <3>3 DEF Hit
    <2> QED BY <2>2, <2>3, <2>4 DEF Few
  <1>4. CandidatesWereFound
    BY <1>3 DEF CandidatesWereFound
  <1> QED BY <1>1, <1>2, <1>4

(* An attempt is honest to the Kernel: the funnel it reports adds up through   *)
(* all four filters, every candidate was found by one of its own searches and  *)
(* is new to the Mission, and a batch is refused for the URLs and dates named  *)
(* only (hermes-efesto-adapter.mjs, parseHermesFindingsWithFunnel, its filters  *)
(* and finalize; normalizeCandidate and normalizeSearchTelemetry of the Kernel). *)
(* However it ends by itself - a refused route, a failed preparation, a timer, *)
(* a bad exit - no configuration and no copied credential is left (the finally *)
(* of runHermesOneShot), but for what the file system would not delete, and    *)
(* then nothing is submitted. All of it for any results, replies and files.    *)
THEOREM AttemptsStayHonest == SearchSpec => []AttemptIsHonest
  <1>1. HomeInv /\ AttemptInv => AttemptIsHonest
    BY AttemptTells DEF AttemptIsHonest, HomeInv
  <1> QED BY <1>1, SearchInitInv, SearchNextInv, AttemptInitInv, AttemptNextInv, PTL DEF SearchSpec
=============================================================================
