------------------------------ MODULE ReplayLab ------------------------------
(***************************************************************************)
(* The Replay Lab (packages/kernel/src/replay-lab): the read-only view of  *)
(* what the cognitive pipeline recorded about a Hermes run.  Records and   *)
(* receipts are two files; a query reads both, in either order, while the  *)
(* ingestion goes on writing them.                                         *)
(*                                                                         *)
(* Texts, labels and explanations are left out.  A record's gates are one  *)
(* of the outcomes CognitivePipeline computes; its execution is the one    *)
(* the orchestrator was given.                                             *)
(***************************************************************************)
EXTENDS CognitivePipeline, FiniteSets

CONSTANTS
  RecordIds,
  LostIds,        \* record ids whose ingestion ends before the record is stored
  ReceiptKeys,
  Times,          \* date-times an execution names
  MaxClock        \* bound: the times updates of receipts carry

ASSUME ReplayAssumption == MaxClock \in Nat

VARIABLES
  filed,          \* the cognitive pipeline records
  receipts,       \* the receipt file, in order
  query,          \* the query being answered: what it has read so far
  shown,          \* the case views it answered with
  asked           \* history: what was there to be shown when it was asked

replayVars == <<filed, receipts, query, shown, asked>>

Unread == <<>>
Idle == [kind |-> "idle"]
Never == 0

GateOutcomes == {pipelineRecord(s) : s \in {s \in Submission : ~Throws(s)}}

(* An execution as the mapper builds it (or with its task failed): started,   *)
(* ended, evidence recorded at some time, and the claim citing some of it.    *)
(* Every gate is stamped with the end.                                        *)
Executions ==
  {x \in [failed : BOOLEAN, start : Times, end : Times,
          evidence : [EvidenceIds -> Times \cup {Never}], cited : SUBSET EvidenceIds] :
     /\ x.start <= x.end
     /\ x.cited # {}
     /\ \A e \in x.cited : x.evidence[e] # Never}

recorded(r) == {e \in EvidenceIds : r.run.evidence[e] # Never}

-----------------------------------------------------------------------------
(* Faulty variants. *)

deriveStatus_byAction(r) ==
  IF r.gates.contradiction \in {"block", "review"} THEN "blocked" ELSE r.gates.validation

-----------------------------------------------------------------------------
(* The read model.                                                            *)

deriveStatus(r) ==
  CASE r.gates.admission # "none" -> r.gates.admission
    [] r.gates.admission = "none" /\ r.gates.contradiction = "block" -> "blocked"
    [] r.gates.admission = "none" /\ r.gates.contradiction = "review" -> "review"
    [] OTHER -> r.gates.validation

(* buildIdempotencyView: attached only when the receipt names the record.     *)
idempotency(r, receipt) ==
  IF receipt = {} THEN "not_attached_to_record"
  ELSE IF \A x \in receipt : x.record = r.id THEN "attached" ELSE "record_mismatch"

(* buildAutopsyView: the first of these that applies.                         *)
autopsy(r, status) ==
  LET g == r.gates
  IN CASE status = "record_mismatch" -> "receipt_record_mismatch"
       [] status # "record_mismatch" /\ r.run.failed -> "task_failed"
       [] OTHER ->
          IF g.validation = "rejected" THEN "validation_rejected"
          ELSE IF g.validation = "needs_review" THEN "human_review_required"
          ELSE IF g.contradiction = "block" THEN "contradiction_blocked"
          ELSE IF "review" \in {g.contradiction, g.admission} THEN "human_review_required"
          ELSE IF "none" \in {g.contradiction, g.admission} THEN "pipeline_incomplete"
          ELSE "no_failure_observed"

(* buildPreventionView: one proposal per failure, never enforced.             *)
prevention(outcome) == IF outcome = "no_failure_observed" THEN {} ELSE {outcome}

(* buildCausalityView: gates hang together as far as the record goes.         *)
Nodes(r) ==
  {<<"evidence", e>> : e \in recorded(r)} \cup {<<"proposal">>, <<"validation">>}
  \cup (IF r.gates.contradiction = "none" THEN {}
        ELSE {<<"contradiction">>} \cup {<<"existing", c>> : c \in r.gates.contradicts})
  \cup (IF r.gates.admission = "none" THEN {} ELSE {<<"admission">>})
  \cup (IF r.gates.claim THEN {<<"claim">>} ELSE {})

Edges(r) ==
  {<<<<"evidence", e>>, <<"proposal">>>> : e \in recorded(r) \cap r.run.cited}
  \cup {<<<<"proposal">>, <<"validation">>>>}
  \cup (IF r.gates.contradiction = "none" THEN {}
        ELSE {<<<<"validation">>, <<"contradiction">>>>}
             \cup {<<<<"proposal">>, <<"existing", c>>>> : c \in r.gates.contradicts})
  \cup (IF r.gates.admission = "none" THEN {} ELSE {<<<<"contradiction">>, <<"admission">>>>})
  \cup (IF r.gates.claim THEN {<<<<"admission">>, <<"claim">>>>} ELSE {})

(* buildTimeline: by time, then by the name of the event type.                *)
EventTypes == <<"admission_evaluated", "contradiction_evaluated", "evidence_recorded",
                "mission_created", "result_created", "task_completed", "task_failed",
                "task_started", "validation_evaluated">>

alphabetical(type) == CHOOSE i \in DOMAIN EventTypes : EventTypes[i] = type

TimelineEvents(r) ==
  LET event(type, at) == [type |-> type, at |-> at]
      evidence == [i \in 1..Cardinality(recorded(r)) |->
                     event("evidence_recorded", r.run.evidence[SetToSeq(recorded(r))[i]])]
  IN <<event("mission_created", r.run.start), event("task_started", r.run.start)>>
     \o evidence
     \o <<event(IF r.run.failed THEN "task_failed" ELSE "task_completed", r.run.end),
          event("result_created", r.run.end), event("validation_evaluated", r.run.end)>>
     \o (IF r.gates.contradiction = "none" THEN <<>>
         ELSE <<event("contradiction_evaluated", r.run.end)>>)
     \o (IF r.gates.admission = "none" THEN <<>>
         ELSE <<event("admission_evaluated", r.run.end)>>)

timeline(r) ==
  SortSeq(TimelineEvents(r), LAMBDA a, b :
    \/ a.at < b.at
    \/ a.at = b.at /\ alphabetical(a.type) < alphabetical(b.type))

(* deriveWarnings *)
warnings(r, status) ==
  {w \in {"not_accepted", "no_contradiction", "no_admission", "receipt_mismatch"} :
     \/ w = "not_accepted" /\ r.gates.validation # "accepted"
     \/ w = "no_contradiction" /\ r.gates.validation = "accepted" /\ r.gates.contradiction = "none"
     \/ w = "no_admission" /\ r.gates.contradiction # "none" /\ r.gates.admission = "none"
     \/ w = "receipt_mismatch" /\ status = "record_mismatch"}

buildReplayLabCaseView(r, receipt) ==
  LET status == idempotency(r, receipt)
      outcome == autopsy(r, status)
  IN [id |-> r.id, status |-> deriveStatus(r), idempotency |-> status,
      receipt |-> receipt, autopsy |-> outcome, prevention |-> prevention(outcome),
      nodes |-> Nodes(r), edges |-> Edges(r), timeline |-> timeline(r),
      warnings |-> warnings(r, status)]

-----------------------------------------------------------------------------
(* ReplayLabQueryService.                                                     *)

namingRecord(list, id) == {i \in DOMAIN list : list[i].record = id}

(* getCase: the first receipt of the file that names the record.              *)
receiptOf(list, id) ==
  LET of == namingRecord(list, id)
  IN {list[i] : i \in {i \in of : \A j \in of : i <= j}}

(* indexReceiptsByRecordId, for the list: the one updated last, the first of  *)
(* these when they tie.                                                       *)
newestReceiptOf(list, id) ==
  LET of == namingRecord(list, id)
      newest == {i \in of : \A j \in of : list[j].updated <= list[i].updated}
  IN {list[i] : i \in {i \in newest : \A j \in newest : i <= j}}

filedIds == {r.id : r \in filed}

completedKeys == {x.key : x \in {x \in Range(receipts) : x.status = "completed"}}

Ask(q, ids) ==
  /\ query = Idle
  /\ query' = q
  /\ shown' = {}
  /\ asked' = [ids |-> ids, completed |-> completedKeys]
  /\ UNCHANGED <<filed, receipts>>

ListCases == Ask([kind |-> "list", records |-> Unread, receipts |-> Unread], filedIds)

GetCase(id) ==
  Ask([kind |-> "case", id |-> id, records |-> Unread, receipts |-> Unread], filedIds \cap {id})

ReadRecords ==
  /\ query # Idle /\ query.records = Unread
  /\ query' = [query EXCEPT !.records =
       <<{r \in filed : IF query.kind = "list" THEN TRUE ELSE r.id = query.id}>>]
  /\ UNCHANGED <<filed, receipts, shown, asked>>

ReadReceipts ==
  /\ query # Idle /\ query.receipts = Unread
  /\ query' = [query EXCEPT !.receipts = <<receipts>>]
  /\ UNCHANGED <<filed, receipts, shown, asked>>

(* Both reads are in; getCase throws (404) when the record is not there.      *)
Answer ==
  /\ query # Idle /\ query.records # Unread /\ query.receipts # Unread
  /\ shown' = {buildReplayLabCaseView(r,
                 IF query.kind = "list" THEN newestReceiptOf(query.receipts[1], r.id)
                 ELSE receiptOf(query.receipts[1], r.id)) : r \in query.records[1]}
  /\ query' = Idle
  /\ UNCHANGED <<filed, receipts, asked>>

-----------------------------------------------------------------------------
(* The writers (HermesIngestion): begin, append the record, settle. Which of  *)
(* several ingestions does it is left open, and so is the time: receivedAt    *)
(* comes with the request, and an older one may be written last.              *)

(* JsonHermesIngestionReceiptRepository.begin: a new reservation, or the one  *)
(* of this key again, failed or (whenever that is) expired.                   *)
Reserve(k, id, at) ==
  /\ \/ /\ \A x \in Range(receipts) : x.key # k
        /\ receipts' = Append(receipts, [key |-> k, record |-> id, status |-> "pending", updated |-> at])
     \/ \E i \in DOMAIN receipts :
          /\ receipts[i].key = k /\ receipts[i].record = id /\ receipts[i].status # "completed"
          /\ receipts' = [receipts EXCEPT ![i].status = "pending", ![i].updated = at]
  /\ UNCHANGED <<filed, query, shown, asked>>

(* The record is appended by an ingestion that began; its receipt may have    *)
(* been failed or taken over since.                                           *)
FileRecord(id, gates, run) ==
  /\ id \notin filedIds
  /\ \E x \in Range(receipts) : x.record = id
  /\ filed' = filed \cup {[id |-> id, gates |-> gates, run |-> run]}
  /\ UNCHANGED <<receipts, query, shown, asked>>

(* complete, with the record that was stored, and fail.                       *)
Settle(k, status, at) ==
  /\ \E i \in DOMAIN receipts :
       /\ receipts[i].key = k /\ receipts[i].status = "pending"
       /\ status = "completed" => receipts[i].record \in filedIds
       /\ receipts' = [receipts EXCEPT ![i].status = status, ![i].updated = at]
  /\ UNCHANGED <<filed, query, shown, asked>>

ReplayInit ==
  /\ filed = {} /\ receipts = <<>> /\ query = Idle /\ shown = {}
  /\ asked = [ids |-> {}, completed |-> {}]

ReplayNext ==
  \/ ListCases
  \/ ReadRecords
  \/ ReadReceipts
  \/ Answer
  \/ \E id \in RecordIds \cup LostIds : GetCase(id)
  \/ \E k \in ReceiptKeys, id \in RecordIds \cup LostIds, at \in 0..MaxClock : Reserve(k, id, at)
  \/ \E k \in ReceiptKeys, s \in {"completed", "failed"}, at \in 0..MaxClock : Settle(k, s, at)
  \/ \E id \in RecordIds, g \in GateOutcomes, x \in Executions : FileRecord(id, g, x)

ReplaySpec == ReplayInit /\ [][ReplayNext]_replayVars

-----------------------------------------------------------------------------
(* Properties *)

(* The derivations of a case view, written apart, tell one story of a run     *)
(* whose task completed: shown as admitted, no failure in the autopsy, no     *)
(* prevention rule, a durable claim at the end of the map and no warning all  *)
(* mean the same, and what the autopsy blames is what the status says.        *)
ViewTellsOneStory ==
  \A v \in shown :
    (\A r \in filed : r.id = v.id => ~r.run.failed) =>
      /\ (v.status = "admitted") <=> (v.autopsy = "no_failure_observed")
      /\ (v.status = "admitted") <=> (v.prevention = {})
      /\ (v.status = "admitted") <=> (<<"claim">> \in v.nodes)
      /\ (v.status = "blocked") <=> (v.autopsy = "contradiction_blocked")
      /\ (v.status \in {"review", "needs_review"}) <=> (v.autopsy = "human_review_required")
      /\ (v.status \in {"rejected", "needs_review"}) <=> (v.warnings # {})

(* The causality map has no loose ends and invents none: every link joins two *)
(* nodes that are shown, exactly the Evidence the claim cites leads to its    *)
(* proposal, and from there an unbroken chain of gates leads to the durable   *)
(* claim, where there is one.                                                 *)
CausalityHasNoLooseEnds ==
  \A v \in shown : \A r \in filed : r.id = v.id =>
    /\ \A e \in v.edges : e[1] \in v.nodes /\ e[2] \in v.nodes
    /\ {e \in EvidenceIds : <<<<"evidence", e>>, <<"proposal">>>> \in v.edges} = r.run.cited
    /\ <<"claim">> \in v.nodes =>
         {<<<<"proposal">>, <<"validation">>>>, <<<<"validation">>, <<"contradiction">>>>,
          <<<<"contradiction">>, <<"admission">>>>, <<<<"admission">>, <<"claim">>>>} \subseteq v.edges

(* Whatever is written between the two reads, and in whichever order they     *)
(* are made: every case that was recorded when the question was put is in the *)
(* answer, with a receipt (it was reserved before it was recorded), and an    *)
(* ingestion that was completed by then is not shown pending or failed.       *)
NothingAskedForIsMissing ==
  query = Idle => \A id \in asked.ids :
    \E v \in shown :
      /\ v.id = id /\ v.idempotency = "attached"
      /\ \A x \in v.receipt : x.key \in asked.completed => x.status = "completed"

(* A case view is true: its derivations agree, its map is that of the record, *)
(* and what was there when it was asked for is in it.                         *)
CaseViewIsTrue == ViewTellsOneStory /\ CausalityHasNoLooseEnds /\ NothingAskedForIsMissing
=============================================================================
