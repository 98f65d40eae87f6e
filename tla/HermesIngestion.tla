--------------------------- MODULE HermesIngestion ---------------------------
(***************************************************************************)
(* Idempotent ingestion of Hermes executions: a signed local request       *)
(* reserves its idempotency key, the cognitive pipeline appends one record, *)
(* the receipt is completed with it; and what the Kernel repairs when it    *)
(* starts again after a crash in between.                                   *)
(*                                                                          *)
(* Both collections are AtomicJsonCollections: one mutate() is one atomic   *)
(* step, everything between two of them interleaves. The pipeline is        *)
(* deterministic, so a record is identified by the input it came from.      *)
(***************************************************************************)
EXTENDS Naturals, FiniteSets

CONSTANTS
  IdempotencyKeys,          \* idempotency keys
  Inputs,        \* payloads, as fingerprinted
  RecordOf,      \* the recordId each payload names
  RecordIds,
  Invalid,       \* payloads the mapper or the adapter refuses
  Slots,         \* concurrent requests
  None,
  MaxCrashes, MaxFailedWrites      \* bounds: Kernel restarts, failed file writes

ASSUME IngestionAssumption ==
  /\ RecordOf \in [Inputs -> RecordIds]
  /\ Invalid \subseteq Inputs
  /\ None \notin Inputs /\ None \notin IdempotencyKeys
  /\ MaxCrashes \in Nat /\ MaxFailedWrites \in Nat

VARIABLES
  receipt,   \* hermes-ingestion-receipts.json
  records,   \* cognitive-pipeline.json: the input behind each stored record
  req,       \* requests being handled
  boot,      \* start-up: "recover", "expire" or "up" (serving)
  todo,      \* receipts the start-up loop listed and has not handled yet
  crashes, failedWrites

ingestionVars == <<receipt, records, req, boot, todo, crashes, failedWrites>>

(* leaseLive: leaseExpiresAt is in the future. *)
NoReceipt == [status |-> "none", input |-> None, leaseLive |-> FALSE, record |-> None]
Receipt == [status : {"none", "pending", "completed", "failed"}, input : Inputs \cup {None},
            leaseLive : BOOLEAN, record : Inputs \cup {None}]

(* early: the request was received before the key's current lease expired.    *)
(* (Expiry is judged at receivedAt, not when begin() gets its turn.)          *)
IdleReq == [pc |-> "idle", key |-> None, input |-> None, early |-> FALSE]
Request == [pc : {"idle", "begin", "run", "complete", "fail"}, key : IdempotencyKeys \cup {None},
            input : Inputs \cup {None}, early : BOOLEAN]

-----------------------------------------------------------------------------
(* Faulty variants, used to show that a property notices them. *)

isExpired_never(r, early) == FALSE

sameRequest_keyOnly(r, in) == TRUE

-----------------------------------------------------------------------------
IngestionInit ==
  /\ receipt = [k \in IdempotencyKeys |-> NoReceipt]
  /\ records = [r \in RecordIds |-> None]
  /\ req = [p \in Slots |-> IdleReq]
  /\ boot = "up" /\ todo = {}
  /\ crashes = 0 /\ failedWrites = 0

Goto(p, pc) == req' = [req EXCEPT ![p].pc = pc]
Answer(p) == req' = [req EXCEPT ![p] = IdleReq]
FaultHappens == failedWrites < MaxFailedWrites /\ failedWrites' = failedWrites + 1

(* HermesLocalIngestionHttpRoute.handle and HermesLocalIngestionBoundary:     *)
(* transported = loopback, JSON POST within the size limit, all headers,      *)
(* fresh timestamp and a matching signature; a key in the body must agree.    *)
admissible(transported, headerKey, bodyKey) ==
  transported /\ bodyKey \in {None, headerKey}

Receive(p, k, in, bodyKey, transported) ==
  /\ boot = "up"
  /\ req[p].pc = "idle"
  /\ admissible(transported, k, bodyKey)
  /\ req' = [req EXCEPT ![p] = [IdleReq EXCEPT !.pc = "begin", !.key = k, !.input = in]]
  /\ UNCHANGED <<receipt, records, boot, todo, crashes, failedWrites>>

-----------------------------------------------------------------------------
(* JsonHermesIngestionReceiptRepository *)

isExpired(r, early) == ~r.leaseLive /\ ~early

sameRequest(r, in) == r.input = in

Reserve(k, in) ==
  receipt' = [receipt EXCEPT ![k] = [@ EXCEPT !.status = "pending", !.input = in,
                                             !.leaseLive = TRUE]]

(* begin: acquired, replayed (the stored record is the answer), or refused    *)
(* with HermesIngestionConflictError / HermesIngestionInProgressError.        *)
Begin(p) ==
  LET k == req[p].key
      in == req[p].input
      r == receipt[k]
      conflict == r.status # "none" /\ ~sameRequest(r, in)
      inProgress == r.status = "pending" /\ ~isExpired(r, req[p].early)
      replay == r.status = "completed"
  IN
  /\ req[p].pc = "begin"
  /\ \/ /\ conflict \/ inProgress \/ replay
        /\ Answer(p)
        /\ UNCHANGED <<receipt, failedWrites>>
     \/ /\ ~conflict /\ ~inProgress /\ ~replay
        /\ Reserve(k, in)
        /\ Goto(p, "run")
        /\ failedWrites' = failedWrites
     \/ /\ FaultHappens
        /\ Answer(p)
        /\ receipt' = receipt
  /\ UNCHANGED <<records, boot, todo, crashes>>

mayComplete(k, in) ==
  receipt[k].status = "pending" /\ RecordOf[receipt[k].input] = RecordOf[in]

Completed(k, in) ==
  [receipt EXCEPT ![k] = [@ EXCEPT !.status = "completed", !.record = in, !.leaseLive = FALSE]]

MarkFailed(k) ==
  IF receipt[k].status = "pending"
  THEN [receipt EXCEPT ![k] = [@ EXCEPT !.status = "failed", !.leaseLive = FALSE]]
  ELSE receipt

-----------------------------------------------------------------------------
(* IdempotentHermesExecutionIngestionService.ingest, after the reservation *)

(* Mapper, adapter, gates and JsonCognitivePipelineRepository.append: one     *)
(* record per id, or an error.                                                *)
mayAppend(in) == in \notin Invalid /\ records[RecordOf[in]] = None

Ingest(p) ==
  LET in == req[p].input IN
  /\ req[p].pc = "run"
  /\ \/ /\ mayAppend(in)
        /\ records' = [records EXCEPT ![RecordOf[in]] = in]
        /\ Goto(p, "complete")
        /\ failedWrites' = failedWrites
     \/ /\ ~mayAppend(in)
        /\ Goto(p, "fail")
        /\ UNCHANGED <<records, failedWrites>>
     \/ /\ FaultHappens
        /\ Goto(p, "fail")
        /\ records' = records
  /\ UNCHANGED <<receipt, boot, todo, crashes>>

(* receipts.complete is inside the try: its refusal or its failed write ends  *)
(* in receipts.fail too.                                                      *)
Complete(p) ==
  LET k == req[p].key  in == req[p].input IN
  /\ req[p].pc = "complete"
  /\ \/ /\ mayComplete(k, in)
        /\ receipt' = Completed(k, in)
        /\ Answer(p)
        /\ failedWrites' = failedWrites
     \/ /\ ~mayComplete(k, in)
        /\ Goto(p, "fail")
        /\ UNCHANGED <<receipt, failedWrites>>
     \/ /\ FaultHappens
        /\ Goto(p, "fail")
        /\ receipt' = receipt
  /\ UNCHANGED <<records, boot, todo, crashes>>

(* The catch block: whatever the receipt's reservation is by now, a pending   *)
(* one is marked failed; then the error is the answer.                        *)
Fail(p) ==
  /\ req[p].pc = "fail"
  /\ \/ receipt' = MarkFailed(req[p].key) /\ failedWrites' = failedWrites
     \/ FaultHappens /\ receipt' = receipt
  /\ Answer(p)
  /\ UNCHANGED <<records, boot, todo, crashes>>

LeaseExpires(k) ==
  /\ receipt[k].status = "pending" /\ receipt[k].leaseLive
  /\ receipt' = [receipt EXCEPT ![k].leaseLive = FALSE]
  /\ req' = [p \in Slots |-> [req[p] EXCEPT !.early = @ \/ (req[p].pc = "begin" /\ req[p].key = k)]]
  /\ UNCHANGED <<records, boot, todo, crashes, failedWrites>>

-----------------------------------------------------------------------------
(* Crash and start-up: hermes-route-factory.mjs awaits reconcileStartup       *)
(* before the server listens.                                                 *)

Pending == {k \in IdempotencyKeys : receipt[k].status = "pending"}

Crash ==
  /\ crashes < MaxCrashes
  /\ crashes' = crashes + 1
  /\ req' = [p \in Slots |-> IdleReq]
  /\ boot' = "recover" /\ todo' = Pending
  /\ UNCHANGED <<receipt, records, failedWrites>>

recoverable(k) == records[RecordOf[receipt[k].input]] # None

(* HermesIngestionRecoveryCoordinator.reconcile, one receipt: completed from  *)
(* the stored record, left pending if there is none, failed on any other      *)
(* error. A start-up whose fail() cannot write is a crash.                    *)
RecoverOne(k) ==
  /\ boot = "recover"
  /\ todo' = todo \ {k}
  /\ \/ /\ recoverable(k)
        /\ receipt' = Completed(k, records[RecordOf[receipt[k].input]])
        /\ failedWrites' = failedWrites
     \/ /\ ~recoverable(k)
        /\ UNCHANGED <<receipt, failedWrites>>
     \/ /\ FaultHappens
        /\ receipt' = MarkFailed(k)
  /\ UNCHANGED <<records, req, boot, crashes>>

RecoveryEnds ==
  /\ boot = "recover" /\ todo = {}
  /\ boot' = "expire"
  /\ todo' = {k \in Pending : isExpired(receipt[k], FALSE)}
  /\ UNCHANGED <<receipt, records, req, crashes, failedWrites>>

(* HermesIngestionStartupReconciler.reconcileStartup, after the recovery.     *)
ExpireOne(k) ==
  /\ boot = "expire"
  /\ todo' = todo \ {k}
  /\ receipt' = MarkFailed(k)
  /\ UNCHANGED <<records, req, boot, crashes, failedWrites>>

StartupEnds ==
  /\ boot = "expire" /\ todo = {}
  /\ boot' = "up"
  /\ UNCHANGED <<receipt, records, req, todo, crashes, failedWrites>>

-----------------------------------------------------------------------------
RequestStep(p) == Begin(p) \/ Ingest(p) \/ Complete(p) \/ Fail(p)
StartupStep == RecoveryEnds \/ StartupEnds \/ \E k \in todo : RecoverOne(k) \/ ExpireOne(k)
Submission(k, in) ==
  \E p \in Slots, bodyKey \in IdempotencyKeys \cup {None}, transported \in BOOLEAN :
    Receive(p, k, in, bodyKey, transported)

IngestionNext ==
  \/ \E k \in IdempotencyKeys, in \in Inputs : Submission(k, in)
  \/ \E p \in Slots : RequestStep(p)
  \/ \E k \in IdempotencyKeys : LeaseExpires(k)
  \/ StartupStep
  \/ Crash

(* The event loop gets to every request and to the start-up loop, leases      *)
(* expire, and a client whose request has not been completed sends it again.  *)
IngestionFairness ==
  /\ \A p \in Slots : WF_ingestionVars(RequestStep(p))
  /\ WF_ingestionVars(StartupStep)
  /\ \A k \in IdempotencyKeys : WF_ingestionVars(LeaseExpires(k))
  /\ \A k \in IdempotencyKeys :
       SF_ingestionVars(receipt[k].status = "pending" /\ Submission(k, receipt[k].input))

IngestionSpec == IngestionInit /\ [][IngestionNext]_ingestionVars /\ IngestionFairness

-----------------------------------------------------------------------------
(* Properties *)

(* Every variable keeps its shape; a used receipt names an input, a busy      *)
(* request a key and an input.                                                *)
IngestionTypeOK ==
  /\ receipt \in [IdempotencyKeys -> Receipt]
  /\ \A k \in IdempotencyKeys : receipt[k].status # "none" => receipt[k].input \in Inputs
  /\ records \in [RecordIds -> Inputs \cup {None}]
  /\ \A r \in RecordIds : records[r] # None => RecordOf[records[r]] = r
  /\ req \in [Slots -> Request]
  /\ \A p \in Slots : req[p].pc # "idle" => req[p].key \in IdempotencyKeys /\ req[p].input \in Inputs
  /\ boot \in {"up", "recover", "expire"}
  /\ todo \subseteq IdempotencyKeys
  /\ crashes \in Nat /\ failedWrites \in Nat

(* What a completed receipt replays is the record that is stored under its    *)
(* recordId: an answer is never invented, and a stored record is never        *)
(* replaced under a receipt that vouches for it.                              *)
CompletedIsStored ==
  \A k \in IdempotencyKeys : receipt[k].status = "completed" =>
    records[RecordOf[receipt[k].input]] # None /\ receipt[k].record = records[RecordOf[receipt[k].input]]

(* A completed receipt never changes again, whoever still runs, fails, or     *)
(* recovers under its key: every later retry gets the same record.            *)
CompletedIsFinal ==
  [][\A k \in IdempotencyKeys : receipt[k].status = "completed" => receipt'[k] = receipt[k]]_ingestionVars

(* The crash window is closed: when the Kernel starts to serve, no pending    *)
(* receipt has its record already stored, so no start-up leaves a key whose   *)
(* work is done to be reported as in progress.                                *)
RecoveredBeforeServing ==
  [][boot # "up" /\ boot' = "up" =>
       \A k \in Pending : records[RecordOf[receipt[k].input]] = None]_ingestionVars

(* A receipt belongs to one input for ever: a request answered under a key    *)
(* has the payload the key was first reserved with.                           *)
KeyKeepsItsInput ==
  [][\A k \in IdempotencyKeys : receipt[k].status # "none" => receipt'[k].input = receipt[k].input]_ingestionVars

(* A key is never blocked for ever: as long as its client retries, a pending  *)
(* receipt is completed or failed, also after a crash that left it behind.    *)
PendingEnds ==
  \A k \in IdempotencyKeys : receipt[k].status = "pending" ~> receipt[k].status # "pending"

(* Receipts are safe through concurrent requests, failed writes and crashes:  *)
(* what is completed is stored and stays, a key keeps its payload, and no     *)
(* start-up leaves finished work pending.                                     *)
ReceiptsAreSafe ==
  /\ [](IngestionTypeOK /\ CompletedIsStored)
  /\ CompletedIsFinal /\ RecoveredBeforeServing /\ KeyKeepsItsInput

=============================================================================
