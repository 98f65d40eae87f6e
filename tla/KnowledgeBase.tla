---------------------------- MODULE KnowledgeBase ----------------------------
(***************************************************************************)
(* Cases, Evidence and entities of the kernel package: the managers        *)
(* (case-manager.ts, evidence-manager.ts, entity-manager.ts) over JSON     *)
(* collections (atomic-json-file.ts, json-case-repository.ts,              *)
(* json-evidence-repository.ts) and the entity table                       *)
(* (sqlite-entity-repository.ts).                                          *)
(*                                                                         *)
(* A manager call reads, checks and builds the record to write; the write  *)
(* joins the queue of its file and happens later.  Calls of two callers    *)
(* interleave between the two, and a stop of the process loses what is     *)
(* still queued: the file itself is replaced by rename.                    *)
(***************************************************************************)
EXTENDS Naturals, Sequences, FiniteSets

CONSTANTS
    CaseIds, EvidenceIds, EntityIds,
    Callers,    \* concurrent callers of the managers
    MaxCalls,   \* bound on the calls made; also their updatedAt
    MaxStops    \* bound on process stops

VARIABLES
    cases, evidence, entities,  \* the three collections
    calls,      \* per caller: Idle, the record waiting to be written, or a link being prepared
    calledAt,   \* calls made so far
    stops,      \* process stops so far
    created     \* creations acknowledged: [store, id, by, bare]

knowledgeVars == <<cases, evidence, entities, calls, calledAt, stops, created>>

Missing == [missing |-> TRUE]
Idle == [store |-> "none"]
NoCase == "no case"

canTransition == [draft |-> {"active", "archived"}, active |-> {"completed", "archived"},
                  completed |-> {"archived"}, archived |-> {}]

KnowledgeInit ==
    /\ cases = [c \in CaseIds |-> Missing]
    /\ evidence = [e \in EvidenceIds |-> Missing]
    /\ entities = [n \in EntityIds |-> Missing]
    /\ calls = [p \in Callers |-> Idle]
    /\ calledAt = 0 /\ stops = 0 /\ created = {}

-----------------------------------------------------------------------------

\* A call has passed its checks: the record waits for its turn in the write queue.
Queues(p, store, id, create, value) ==
    /\ calls[p] = Idle /\ calledAt < MaxCalls
    /\ calls' = [calls EXCEPT ![p] = [store |-> store, id |-> id, create |-> create, value |-> value]]
    /\ calledAt' = calledAt + 1
    /\ UNCHANGED <<cases, evidence, entities, stops, created>>

Now == calledAt + 1
Newer(record) == Now > record.at

CreateCase(p, c) ==
    /\ cases[c] = Missing
    /\ Queues(p, "cases", c, TRUE, [status |-> "draft", at |-> Now])

\* update: texts only; the whole record is written back.
UpdateCase(p, c) ==
    /\ cases[c] # Missing /\ cases[c].status # "archived" /\ Newer(cases[c])
    /\ Queues(p, "cases", c, FALSE, [cases[c] EXCEPT !.at = Now])

\* transitionStatus and archive.
TransitionStatus(p, c, status) ==
    /\ cases[c] # Missing /\ cases[c].status # "archived" /\ Newer(cases[c])
    /\ status \in canTransition[cases[c].status]
    /\ Queues(p, "cases", c, FALSE, [status |-> status, at |-> Now])

assertCaseAcceptsEvidence(c) == c # NoCase => cases[c] # Missing /\ cases[c].status # "archived"

CreateEvidence(p, e, c) ==
    /\ evidence[e] = Missing
    /\ assertCaseAcceptsEvidence(c)
    /\ Queues(p, "evidence", e, TRUE, [case |-> c, links |-> {}, at |-> Now, by |-> p])

\* attachToCase and detachFromCase: only a new Case is looked up.
MoveEvidence(p, e, c) ==
    /\ evidence[e] # Missing /\ Newer(evidence[e])
    /\ c # evidence[e].case => assertCaseAcceptsEvidence(c)
    /\ Queues(p, "evidence", e, FALSE, [evidence[e] EXCEPT !.case = c, !.at = Now])

\* linkEntity and unlinkEntity read the links first ...
ReadLinks(p, e, links) ==
    /\ calls[p] = Idle /\ calledAt < MaxCalls /\ evidence[e] # Missing
    /\ calls' = [calls EXCEPT ![p] = [store |-> "links", id |-> e, value |-> links]]
    /\ calledAt' = calledAt + 1
    /\ UNCHANGED <<cases, evidence, entities, stops, created>>
LinkEntity(p, e, n) == evidence[e] # Missing /\ ReadLinks(p, e, evidence[e].links \cup {n})
UnlinkEntity(p, e, n) == evidence[e] # Missing /\ ReadLinks(p, e, evidence[e].links \ {n})

\* ... and then call updateMetadata, which reads the record again.
WriteLinks(p) ==
    /\ calls[p].store = "links"
    /\ LET e == calls[p].id
       IN calls' = [calls EXCEPT ![p] =
            IF calledAt > evidence[e].at
            THEN [store |-> "evidence", id |-> e, create |-> FALSE,
                  value |-> [evidence[e] EXCEPT !.links = calls[p].value, !.at = calledAt]]
            ELSE Idle]
    /\ UNCHANGED <<cases, evidence, entities, calledAt, stops, created>>

\* The status and the Evidence are the caller's, and neither is checked against the other.
CreateEntity(p, n, verified, cites) ==
    /\ entities[n] = Missing
    /\ Queues(p, "entities", n, TRUE, [verified |-> verified, cites |-> cites])

\* addAlias, removeAlias, updateConfidence: the whole entity is written back as it was read.
EditEntity(p, n) ==
    /\ entities[n] # Missing
    /\ Queues(p, "entities", n, FALSE, entities[n])

LinkEvidence(p, n, e) ==
    /\ entities[n] # Missing
    /\ Queues(p, "entities", n, FALSE, [entities[n] EXCEPT !.cites = @ \cup {e}])

Verify(p, n, e) ==
    /\ entities[n] # Missing
    /\ Queues(p, "entities", n, FALSE, [verified |-> TRUE, cites |-> entities[n].cites \cup {e}])

Unverified(entity, e) == [verified |-> entity.cites \ {e} # {}, cites |-> entity.cites \ {e}]
Unverify(p, n, e) ==
    /\ entities[n] # Missing
    /\ Queues(p, "entities", n, FALSE, Unverified(entities[n], e))

-----------------------------------------------------------------------------
(* The queue of a file: one mutate at a time.                              *)

\* Mutant: creating writes over what is there, as the in-memory repositories do.
mayWrite_overwrites(old, create) == create \/ old # Missing
\* create refuses an existing id, update a missing one.
mayWrite(old, create) == create <=> old = Missing

\* The entity table takes the same row: an INSERT under its primary key, an UPDATE that must meet one row.
EntityRow(w, ok) == entities' = IF w.store = "entities" /\ ok THEN [entities EXCEPT ![w.id] = w.value] ELSE entities

Stored(store) == CASE store = "cases" -> cases [] store = "evidence" -> evidence [] OTHER -> entities

\* An entity called verified that cites nothing.
Bare(entity) == entity.verified /\ entity.cites = {}

\* What is remembered of an acknowledged creation.
Creation(w, p) == [store |-> w.store, id |-> w.id, by |-> p, bare |-> w.store = "entities" /\ Bare(w.value)]

\* The write succeeds and the caller is answered, or the mutator throws and the file stays.
Write(p) ==
    /\ calls[p].store \notin {"none", "links"}
    /\ LET w == calls[p]
           old == Stored(w.store)
           ok == mayWrite(old[w.id], w.create)
           new == IF ok THEN [old EXCEPT ![w.id] = w.value] ELSE old
       IN /\ cases' = IF w.store = "cases" THEN new ELSE cases
          /\ evidence' = IF w.store = "evidence" THEN new ELSE evidence
          /\ EntityRow(w, ok)
          /\ created' = IF ok /\ w.create THEN created \cup {Creation(w, p)} ELSE created
    /\ calls' = [calls EXCEPT ![p] = Idle]
    /\ UNCHANGED <<calledAt, stops>>

\* The process stops: what was queued is gone, the renamed files are complete.
Stop ==
    /\ stops < MaxStops /\ stops' = stops + 1
    /\ calls' = [p \in Callers |-> Idle]
    /\ UNCHANGED <<cases, evidence, entities, calledAt, created>>

KnowledgeNext ==
    \/ \E p \in Callers :
        \/ \E c \in CaseIds : CreateCase(p, c) \/ UpdateCase(p, c)
                              \/ \E s \in DOMAIN canTransition : TransitionStatus(p, c, s)
        \/ \E e \in EvidenceIds :
            \/ \E c \in CaseIds \cup {NoCase} : CreateEvidence(p, e, c) \/ MoveEvidence(p, e, c)
            \/ \E n \in EntityIds : LinkEntity(p, e, n) \/ UnlinkEntity(p, e, n)
        \/ \E n \in EntityIds :
            \/ \E verified \in BOOLEAN, cites \in SUBSET EvidenceIds : CreateEntity(p, n, verified, cites)
            \/ EditEntity(p, n)
            \/ \E e \in EvidenceIds : LinkEvidence(p, n, e) \/ Verify(p, n, e) \/ Unverify(p, n, e)
        \/ WriteLinks(p)
        \/ Write(p)
    \/ Stop

KnowledgeSpec == KnowledgeInit /\ [][KnowledgeNext]_knowledgeVars

-----------------------------------------------------------------------------

(* A creation that was acknowledged stands: no concurrent creation of the  *)
(* same id is acknowledged too, and the record is still there, and still   *)
(* its creator's, after later calls and process stops.                     *)
CreationsStand ==
    /\ \A a, b \in created : a.store = b.store /\ a.id = b.id => a.by = b.by
    /\ \A a \in created :
        /\ Stored(a.store)[a.id] # Missing
        /\ a.store = "evidence" => evidence[a.id].by = a.by

(* Evidence never points at a Case that does not exist, although the Case  *)
(* is looked up long before the Evidence is written.                       *)
EvidenceHasItsCase ==
    \A e \in EvidenceIds :
        evidence[e] # Missing /\ evidence[e].case # NoCase => cases[evidence[e].case] # Missing

(* The calls of the entity manager never leave an entity verified without  *)
(* Evidence, even when calls that read the same record overwrite one       *)
(* another: one that is was acknowledged so when it was created, and its   *)
(* creator said it.                                                        *)
BareCreations == {a.id : a \in {b \in created : b.store = "entities" /\ b.bare}}
VerifiedHasEvidence ==
    \A n \in EntityIds : entities[n] # Missing /\ Bare(entities[n]) => n \in BareCreations

(* The three files agree, whatever calls overlap and whenever the process  *)
(* stops between two of them.                                              *)
KnowledgeIsConsistent == CreationsStand /\ EvidenceHasItsCase /\ VerifiedHasEvidence
=============================================================================
