--------------------------- MODULE UserSideProofs ---------------------------
(* Safety of the parts a user meets - the governed path to external effects,  *)
(* the extension's Auto Radar, bridge, forge and refresher, the dashboard's    *)
(* shell, and the notifications - for every value of their constants.          *)
EXTENDS PlanExecution, AutoRadar, DashboardBridge, DashboardShell, Notifications,
        ForgePower, LiveStreams, Watchtower, WellFoundedInduction, SequenceTheorems, FiniteSetTheorems, TLAPS

-----------------------------------------------------------------------------
(* A call acts outside only while it owns its idempotency key: it wrote the    *)
(* first record of the key, and until it writes the next one nobody else can,  *)
(* because a key that was seen is never reserved again and only a key in doubt *)
(* is reconciled. What a call was checked against - the revision, the receipt, *)
(* the evaluation - may be overtaken while it waits, but is never taken back.  *)

RecordType == [key : Keys, seq : Nat, hash : Nat \X Capabilities,
               status : {"reserved", "completed", "failed", "in_doubt"}]
EffectType == [key : Keys, number : Nat, cap : Capabilities, needed : 0 .. 2]
ReceiptType == [number : Nat, decision : {"approved", "rejected"}, caps : SUBSET Capabilities, by : Actors]
EvaluationType == [number : Nat, status : {"blocked", "waiting", "completed", "continue"}]

PlansInv ==
  /\ goal \in GoalVersions
  /\ plans \in Seq(RevisionType)
  /\ \A i \in DOMAIN plans : plans[i].number = i /\ plans[i].previous = i - 1
  /\ receipts \subseteq ReceiptType
  /\ \A x \in receipts :
       /\ x.number \in DOMAIN plans
       /\ x.decision = "approved" => x.caps = plans[x.number].caps
  /\ \A x, y \in receipts : x.number = y.number => x.decision = y.decision
  /\ evaluations \subseteq EvaluationType
  /\ ReplanFollowsEvaluation

RecordsInv ==
  /\ records \in Seq(RecordType)
  /\ \A key \in Keys :
       /\ IsFiniteSet(RecordsOf(key))
       /\ {r.seq : r \in RecordsOf(key)} = 1 .. Cardinality(RecordsOf(key))
       /\ \A r, q \in RecordsOf(key) : r.seq = q.seq => r = q
  /\ SettledStaysSettled

Approved(n) == \E x \in receipts : x.number = n /\ x.decision = "approved"

CreateCall == [op : {"create"}, stage : {"gated", "validated"}, caps : SUBSET Capabilities]
UpdateCall == [op : {"update"}, caps : SUBSET Capabilities, expected : Nat, by : {"owner", "goal-evaluator"}]
ExecuteCall == [op : {"execute"}, stage : {"checked", "reserved", "threw", "returned"}, key : Keys,
                hash : Nat \X Capabilities, needed : 0 .. 2]

(* A call that owns its key, and what that entitles it to.                     *)
Owns(w) == w \in ExecuteCall /\ w.stage # "checked"

UpdateOK(w) ==
  w.by = "goal-evaluator" => [number |-> w.expected, status |-> "continue"] \in evaluations
AskedFor(w) ==
  /\ w.hash[1] \in DOMAIN plans /\ w.hash[2] \in plans[w.hash[1]].caps
  /\ w.needed # 0 => Approved(w.hash[1])
Reserved(w) ==
  /\ \E r \in RecordsOf(w.key) : r.hash = w.hash
  /\ \A r \in RecordsOf(w.key) : r.status = "reserved"
NotYetActed(w) == \A i \in DOMAIN effects : effects[i].key # w.key

CallOK(w) ==
  \/ w = Idle \/ w \in CreateCall
  \/ w \in UpdateCall /\ UpdateOK(w)
  \/ /\ w \in ExecuteCall /\ AskedFor(w)
     /\ w.stage # "checked" => Reserved(w)
     /\ w.stage = "reserved" => NotYetActed(w)

CallsInv ==
  /\ DOMAIN call = Calls
  /\ \A k \in Calls : CallOK(call[k])
  /\ \A k, q \in Calls : Owns(call[k]) /\ Owns(call[q]) /\ call[k].key = call[q].key => k = q

EffectsInv ==
  /\ effects \in Seq(EffectType)
  /\ EffectAtMostOnce /\ EffectsAreAccounted
  /\ \A i \in DOMAIN effects :
       LET e == effects[i]
       IN  /\ e.number \in DOMAIN plans /\ e.cap \in plans[e.number].caps
           /\ e.needed # 0 => Approved(e.number)

GovernanceInv == PlansInv /\ RecordsInv /\ CallsInv /\ EffectsInv

-----------------------------------------------------------------------------
(* Revisions and records.                                                      *)

LEMMA ToSetAppend ==
  ASSUME NEW S, NEW s \in Seq(S), NEW x \in S
  PROVE  Append(s, x) \in Seq(S) /\ ToSet(Append(s, x)) = ToSet(s) \cup {x}
  <1>1. /\ Append(s, x) \in Seq(S) /\ Len(Append(s, x)) = Len(s) + 1 /\ Len(s) \in Nat
        /\ \A i \in 1 .. Len(s) : Append(s, x)[i] = s[i]
        /\ Append(s, x)[Len(s) + 1] = x
    BY AppendProperties
  <1>2. PICK a : a = Append(s, x)
    OBVIOUS
  <1>3. /\ a \in Seq(S) /\ DOMAIN a = 1 .. Len(s) + 1 /\ DOMAIN s = 1 .. Len(s)
        /\ \A i \in DOMAIN s : a[i] = s[i] /\ a[Len(s) + 1] = x
    BY <1>1, <1>2
  <1>4. a[Len(s) + 1] = x
    BY <1>1, <1>2
  <1>5. ToSet(a) = ToSet(s) \cup {x}
    <2>1. DOMAIN a = DOMAIN s \cup {Len(s) + 1}
      BY <1>1, <1>3
    <2> QED BY <1>3, <1>4, <2>1 DEF ToSet
  <1> QED BY <1>1, <1>2, <1>5

LEMMA RevisionFacts ==
  ASSUME PlansInv
  PROVE  /\ Len(plans) \in Nat /\ DOMAIN plans = 1 .. Len(plans)
         /\ \A i \in DOMAIN plans : plans[i] \in RevisionType
         /\ \A r \in ToSet(plans) : r.number \in DOMAIN plans /\ r = plans[r.number]
         /\ plans # <<>> => Len(plans) > 0 /\ LatestRevision.number = Len(plans)
  <1>1. /\ Len(plans) \in Nat /\ DOMAIN plans = 1 .. Len(plans)
        /\ \A i \in DOMAIN plans : plans[i] \in RevisionType
    BY DEF PlansInv
  <1>2. \A r \in ToSet(plans) : r.number \in DOMAIN plans /\ r = plans[r.number]
    BY DEF PlansInv, ToSet
  <1>3. ASSUME plans # <<>> PROVE Len(plans) > 0 /\ LatestRevision.number = Len(plans)
    <2>1. Len(plans) > 0
      BY <1>1, <1>3, EmptySeq DEF PlansInv
    <2>2. /\ plans[Len(plans)] \in ToSet(plans) /\ plans[Len(plans)].number = Len(plans)
          /\ \A q \in ToSet(plans) : q.number <= Len(plans)
      BY <1>1, <1>2, <2>1 DEF PlansInv, ToSet
    <2>3. PICK l : l = LatestRevision
      OBVIOUS
    <2>4. l \in ToSet(plans) /\ \A q \in ToSet(plans) : q.number <= l.number
      BY <1>1, <2>2, <2>3 DEF LatestRevision
    <2>5. l.number = Len(plans)
      BY <1>1, <1>2, <2>2, <2>4
    <2> QED BY <2>1, <2>3, <2>5
  <1> QED BY <1>1, <1>2, <1>3

LEMMA LatestRecordFacts ==
  ASSUME RecordsInv, NEW key \in Keys, RecordsOf(key) # {}
  PROVE  /\ LatestRecord(key) \in RecordsOf(key) /\ LatestRecord(key) \in RecordType
         /\ LatestRecord(key).key = key
         /\ LatestRecord(key).seq = Cardinality(RecordsOf(key))
         /\ \A q \in RecordsOf(key) : q.seq <= LatestRecord(key).seq
  <1>1. PICK n : n = Cardinality(RecordsOf(key))
    OBVIOUS
  <1>2. n \in Nat /\ n # 0
    BY <1>1, FS_CardinalityType, FS_EmptySet DEF RecordsInv
  <1>3. {r.seq : r \in RecordsOf(key)} = 1 .. n
    BY <1>1 DEF RecordsInv
  <1>4. \A q \in RecordsOf(key) : q.seq \in 1 .. n
    BY <1>3
  <1>5. PICK r \in RecordsOf(key) : r.seq = n
    BY <1>2, <1>3
  <1>6. \A q \in RecordsOf(key) : q.seq <= r.seq
    BY <1>2, <1>4, <1>5
  <1>7. PICK l : l = LatestRecord(key)
    OBVIOUS
  <1>8. l \in RecordsOf(key) /\ \A q \in RecordsOf(key) : q.seq <= l.seq
    BY <1>6, <1>7 DEF LatestRecord
  <1>9. l.seq = n
    BY <1>2, <1>4, <1>5, <1>8
  <1>10. l \in RecordType /\ l.key = key
    BY <1>8 DEF RecordsOf, RecordsInv, ToSet
  <1> QED BY <1>1, <1>7, <1>8, <1>9, <1>10

(* A record is added to a key none of whose records is settled yet.            *)
LEMMA RecordAdded ==
  ASSUME RecordsInv, NEW x \in RecordType, records' = Append(records, x),
         x.seq = Cardinality(RecordsOf(x.key)) + 1,
         \A r \in RecordsOf(x.key) : r.status \notin {"completed", "failed"}
  PROVE  /\ RecordsInv'
         /\ \A key \in Keys : RecordsOf(key)' = IF key = x.key THEN RecordsOf(key) \cup {x} ELSE RecordsOf(key)
  <1>1. records' \in Seq(RecordType) /\ ToSet(records)' = ToSet(records) \cup {x} /\ x.key \in Keys
    <2>1. records \in Seq(RecordType) /\ x.key \in Keys
      BY DEF RecordsInv, RecordType
    <2>2. /\ Append(records, x) \in Seq(RecordType)
          /\ ToSet(Append(records, x)) = ToSet(records) \cup {x}
      BY <2>1, ToSetAppend
    <2>3. ToSet(records)' = ToSet(Append(records, x))
      BY DEF ToSet
    <2> QED BY <2>1, <2>2, <2>3
  <1>2. \A key \in Keys : RecordsOf(key)' = IF key = x.key THEN RecordsOf(key) \cup {x} ELSE RecordsOf(key)
    BY <1>1 DEF RecordsOf
  <1>3. PICK n : n = Cardinality(RecordsOf(x.key))
    OBVIOUS
  <1>4. n \in Nat
    BY <1>1, <1>3, FS_CardinalityType DEF RecordsInv
  <1>5. {r.seq : r \in RecordsOf(x.key)} = 1 .. n
    BY <1>1, <1>3 DEF RecordsInv
  <1>6. \A q \in RecordsOf(x.key) : q.seq \in 1 .. n
    BY <1>5
  <1>7. x.seq = n + 1 /\ x \notin RecordsOf(x.key)
    BY <1>3, <1>4, <1>6
  <1>8. PICK all : all = RecordsOf(x.key) \cup {x}
    OBVIOUS
  <1>9. IsFiniteSet(all) /\ Cardinality(all) = n + 1
    BY <1>1, <1>3, <1>7, <1>8, FS_AddElement DEF RecordsInv
  <1>10. {r.seq : r \in all} = 1 .. n + 1
    <2>1. {r.seq : r \in all} = {r.seq : r \in RecordsOf(x.key)} \cup {n + 1}
      BY <1>7, <1>8
    <2>2. (1 .. n) \cup {n + 1} = 1 .. n + 1
      BY <1>4
    <2> QED BY <1>5, <2>1, <2>2
  <1>11. \A r, q \in all : r.seq = q.seq => r = q
    BY <1>1, <1>4, <1>6, <1>7, <1>8 DEF RecordsInv
  <1>12. ASSUME NEW key \in Keys
         PROVE  (/\ IsFiniteSet(RecordsOf(key))
                 /\ {r.seq : r \in RecordsOf(key)} = 1 .. Cardinality(RecordsOf(key))
                 /\ \A r, q \in RecordsOf(key) : r.seq = q.seq => r = q)'
    <2>1. CASE key = x.key
      <3>1. RecordsOf(key)' = all
        BY <1>2, <1>8, <2>1
      <3> QED BY <1>9, <1>10, <1>11, <3>1
    <2>2. CASE key # x.key
      <3>1. RecordsOf(key)' = RecordsOf(key)
        BY <1>2, <2>2
      <3> QED BY <3>1 DEF RecordsInv
    <2> QED BY <2>1, <2>2
  <1>13. SettledStaysSettled'
    <2>1. \A r \in ToSet(records) : r \in RecordType /\ r \in RecordsOf(r.key)
      BY DEF RecordsInv, ToSet, RecordsOf
    <2>2. ASSUME NEW r \in ToSet(records) \cup {x}, NEW q \in ToSet(records) \cup {x},
                 r.key = q.key, r.status \in {"completed", "failed"}
          PROVE  q.seq <= r.seq
      <3>1. CASE r = x
        <4>1. CASE q = x
          BY <1>4, <1>7, <3>1, <4>1
        <4>2. CASE q \in ToSet(records)
          <5>1. q.seq \in 1 .. n
            BY <1>6, <2>1, <2>2, <3>1, <4>2
          <5> QED BY <1>4, <1>7, <3>1, <5>1
        <4> QED BY <4>1, <4>2
      <3>2. CASE r \in ToSet(records)
        <4>1. q # x
          BY <2>1, <2>2, <3>2
        <4> QED BY <2>2, <3>2, <4>1 DEF RecordsInv, SettledStaysSettled
      <3> QED BY <3>1, <3>2
    <2> QED BY <1>1, <2>2 DEF SettledStaysSettled
  <1> QED BY <1>1, <1>2, <1>12, <1>13 DEF RecordsInv

-----------------------------------------------------------------------------
(* What calls and effects rest on is never taken back.                         *)

PlansGrow ==
  /\ DOMAIN plans \subseteq DOMAIN plans' /\ \A i \in DOMAIN plans : plans'[i] = plans[i]
  /\ receipts \subseteq receipts' /\ evaluations \subseteq evaluations'

LEMMA CallStays ==
  ASSUME PlansGrow, NEW w, CallOK(w),
         Owns(w) => RecordsOf(w.key)' = RecordsOf(w.key),
         Owns(w) /\ w.stage = "reserved" => NotYetActed(w)'
  PROVE  CallOK(w)'
  <1>1. CASE w = Idle \/ w \in CreateCall
    BY <1>1 DEF CallOK
  <1>2. CASE w \in UpdateCall /\ UpdateOK(w)
    BY <1>2 DEF CallOK, UpdateOK, PlansGrow
  <1>3. CASE w \in ExecuteCall /\ AskedFor(w)
    <2>1. AskedFor(w)'
      BY <1>3 DEF AskedFor, Approved, PlansGrow
    <2>2. w.stage # "checked" => Reserved(w) /\ Owns(w)
      <3>1. w \notin CreateCall /\ w \notin UpdateCall /\ w # Idle
        BY <1>3 DEF ExecuteCall, CreateCall, UpdateCall, Idle
      <3> QED BY <1>3, <3>1 DEF CallOK, Owns
    <2>3. w.stage # "checked" => Reserved(w)'
      BY <2>2 DEF Reserved
    <2>4. w.stage = "reserved" => NotYetActed(w)'
      BY <1>3 DEF Owns
    <2> QED BY <1>3, <2>1, <2>3, <2>4 DEF CallOK
  <1> QED BY <1>1, <1>2, <1>3 DEF CallOK

LEMMA EffectsStay ==
  ASSUME EffectsInv, PlansGrow, effects' = effects,
         \A i \in DOMAIN effects : RecordsOf(effects[i].key) \subseteq RecordsOf(effects[i].key)'
  PROVE  EffectsInv'
  <1>1. EffectAtMostOnce'
    BY DEF EffectsInv, EffectAtMostOnce
  <1>2. EffectsAreAccounted'
    BY DEF EffectsInv, EffectsAreAccounted
  <1>3. ASSUME NEW i \in DOMAIN effects
        PROVE  (LET e == effects[i]
                IN  /\ e.number \in DOMAIN plans /\ e.cap \in plans[e.number].caps
                    /\ e.needed # 0 => Approved(e.number))'
    BY DEF EffectsInv, PlansGrow, Approved
  <1> QED BY <1>1, <1>2, <1>3 DEF EffectsInv

(* Steps that touch neither the records nor the outside world.                 *)
LEMMA QuietStep ==
  ASSUME GovernanceInv, PlansInv', PlansGrow, UNCHANGED <<records, effects>>,
         DOMAIN call' = Calls, \A q \in Calls : CallOK(call'[q]),
         \A q \in Calls : Owns(call'[q]) => call'[q] = call[q]
  PROVE  GovernanceInv'
  <1>1. \A key : RecordsOf(key)' = RecordsOf(key)
    BY DEF RecordsOf, ToSet
  <1>2. RecordsInv'
    BY <1>1 DEF GovernanceInv, RecordsInv, SettledStaysSettled, ToSet
  <1>3. ASSUME NEW q \in Calls PROVE CallOK(call[q])'
    <2>1. PICK w : w = call'[q]
      OBVIOUS
    <2>2. CallOK(w)
      BY <2>1
    <2>3. Owns(w) /\ w.stage = "reserved" => NotYetActed(w)'
      <3>1. SUFFICES ASSUME Owns(w), w.stage = "reserved" PROVE NotYetActed(w)
        BY DEF NotYetActed
      <3> QED BY <2>2, <3>1 DEF Owns, CallOK, ExecuteCall, CreateCall, UpdateCall, Idle
    <2>4. CallOK(w)'
      BY <1>1, <2>2, <2>3, CallStays
    <2> QED BY <2>1, <2>4
  <1>4. CallsInv'
    <2>1. \A k, q \in Calls : Owns(call'[k]) /\ Owns(call'[q]) /\ call'[k].key = call'[q].key => k = q
      BY DEF GovernanceInv, CallsInv
    <2> QED BY <1>3, <2>1 DEF CallsInv, Owns
  <1>5. EffectsInv'
    BY <1>1, EffectsStay DEF GovernanceInv
  <1> QED BY <1>2, <1>4, <1>5 DEF GovernanceInv

(* A call begins, moves on or ends before it owns a key.                       *)
LEMMA CallMoves ==
  ASSUME GovernanceInv, NEW k \in Calls, NEW w, call' = [call EXCEPT ![k] = w], CallOK(w), ~Owns(w),
         PlansInv', PlansGrow, UNCHANGED <<records, effects>>
  PROVE  GovernanceInv'
  <1>1. DOMAIN call' = Calls /\ \A q \in Calls : call'[q] = IF q = k THEN w ELSE call[q]
    BY DEF GovernanceInv, CallsInv
  <1>2. \A q \in Calls : CallOK(call'[q])
    BY <1>1 DEF GovernanceInv, CallsInv
  <1>3. \A q \in Calls : Owns(call'[q]) => call'[q] = call[q]
    BY <1>1
  <1> QED BY <1>1, <1>2, <1>3, QuietStep

LEMMA PlansSame ==
  ASSUME PlansInv, UNCHANGED <<goal, plans, receipts, evaluations>>
  PROVE  PlansInv' /\ PlansGrow
  BY DEF PlansInv, PlansGrow, ReplanFollowsEvaluation

LEMMA IdleFacts == CallOK(Idle) /\ ~Owns(Idle)
  BY DEF CallOK, Owns, Idle, ExecuteCall

-----------------------------------------------------------------------------
(* Planning and deciding.                                                      *)

LEMMA CallKinds ==
  ASSUME NEW w, CallOK(w)
  PROVE  /\ w.op = "create" => w \in CreateCall
         /\ w.op = "update" => w \in UpdateCall /\ UpdateOK(w)
         /\ w.op = "execute" => /\ w \in ExecuteCall /\ AskedFor(w)
                                /\ w.stage # "checked" => Owns(w) /\ Reserved(w)
                                /\ w.stage = "reserved" => NotYetActed(w)
  <1>1. Idle.op = "idle"
    BY DEF Idle
  <1>2. \A v \in CreateCall : v.op = "create"
    BY DEF CreateCall
  <1>3. \A v \in UpdateCall : v.op = "update"
    BY DEF UpdateCall
  <1>4. \A v \in ExecuteCall : v.op = "execute"
    BY DEF ExecuteCall
  <1> QED BY <1>1, <1>2, <1>3, <1>4 DEF CallOK, Owns

LEMMA OwnerFacts ==
  ASSUME NEW w, CallOK(w), Owns(w)
  PROVE  /\ w.op = "execute" /\ w.key \in Keys /\ Reserved(w)
         /\ w.stage = "reserved" => NotYetActed(w)
  <1>1. w.op = "execute" /\ w.key \in Keys /\ w.stage # "checked"
    BY DEF Owns, ExecuteCall
  <1>2. w.op = "execute" => /\ w \in ExecuteCall /\ AskedFor(w)
                            /\ w.stage # "checked" => Owns(w) /\ Reserved(w)
                            /\ w.stage = "reserved" => NotYetActed(w)
    BY CallKinds
  <1> QED BY <1>1, <1>2

(* A revision is added: everything written about earlier ones stays true.      *)
LEMMA RevisionAdded ==
  ASSUME PlansInv, NEW caps \in SUBSET Capabilities, NEW who \in {"owner", "goal-evaluator"},
         NEW n, n = Len(plans) + 1, n \in 1 .. MaxRevisions,
         NEW x, x = Revision(n, n - 1, caps, who), plans' = Append(plans, x),
         who = "goal-evaluator" => [number |-> n - 1, status |-> "continue"] \in evaluations,
         UNCHANGED <<goal, receipts, evaluations>>
  PROVE  PlansInv' /\ PlansGrow
  <1> USE PlanAssumption
  <1>1. /\ x \in RevisionType /\ x.number = n /\ x.previous = n - 1 /\ x.by = who
    BY DEF Revision, RevisionType
  <1>2. /\ plans' \in Seq(RevisionType) /\ DOMAIN plans' = 1 .. n /\ DOMAIN plans = 1 .. n - 1
        /\ \A i \in DOMAIN plans : plans'[i] = plans[i]
        /\ plans'[n] = x /\ n \in Nat
    <2>1. /\ Len(plans) \in Nat /\ Append(plans, x) \in Seq(RevisionType)
          /\ Len(Append(plans, x)) = Len(plans) + 1
          /\ \A i \in 1 .. Len(plans) : Append(plans, x)[i] = plans[i]
          /\ Append(plans, x)[Len(plans) + 1] = x
      BY <1>1, AppendProperties DEF PlansInv
    <2>2. DOMAIN plans' = 1 .. Len(plans') /\ DOMAIN plans = 1 .. Len(plans)
      BY <2>1 DEF PlansInv
    <2> QED BY <2>1, <2>2
  <1>3. DOMAIN plans \subseteq DOMAIN plans' /\ DOMAIN plans' = DOMAIN plans \cup {n}
    BY <1>2
  <1>4. PlansGrow
    BY <1>2, <1>3 DEF PlansGrow
  <1>5. (\A i \in DOMAIN plans : plans[i].number = i /\ plans[i].previous = i - 1)'
    BY <1>1, <1>2, <1>3 DEF PlansInv
  <1>6. ReplanFollowsEvaluation'
    BY <1>1, <1>2, <1>3 DEF PlansInv, ReplanFollowsEvaluation
  <1>7. (\A y \in receipts : /\ y.number \in DOMAIN plans
                             /\ y.decision = "approved" => y.caps = plans[y.number].caps)'
    BY <1>2, <1>3 DEF PlansInv
  <1> QED BY <1>2, <1>4, <1>5, <1>6, <1>7 DEF PlansInv

LEMMA CreateKeeps ==
  ASSUME GovernanceInv, NEW k \in Calls,
         \/ \E caps \in Proposals : GateCreate(k, caps)
         \/ ValidateCreate(k) \/ CommitCreate(k)
  PROVE  GovernanceInv'
  <1> USE PlanAssumption
  <1>0. PlansInv /\ CallOK(call[k])
    BY DEF GovernanceInv, CallsInv
  <1>1. ASSUME NEW caps \in Proposals, GateCreate(k, caps) PROVE GovernanceInv'
    <2>1. PICK w : w = [op |-> "create", stage |-> "gated", caps |-> caps]
      OBVIOUS
    <2>2. w \in CreateCall
      BY <2>1 DEF CreateCall
    <2>3. CallOK(w) /\ ~Owns(w)
      BY <2>2 DEF CallOK, Owns, CreateCall, ExecuteCall
    <2>4. call' = [call EXCEPT ![k] = w] /\ UNCHANGED <<goal, plans, receipts, evaluations, records, effects>>
      BY <1>1, <2>1 DEF GateCreate
    <2> QED BY <1>0, <2>3, <2>4, PlansSame, CallMoves
  <1>2. CASE ValidateCreate(k)
    <2>1. call[k] \in CreateCall
      BY <1>0, <1>2, CallKinds DEF ValidateCreate
    <2>2. PICK w : w = IF PlanAllows(call[k].caps, goal) THEN [call[k] EXCEPT !.stage = "validated"] ELSE Idle
      OBVIOUS
    <2>3. w = Idle \/ w \in CreateCall
      BY <2>1, <2>2 DEF CreateCall
    <2>4. CallOK(w) /\ ~Owns(w)
      BY <2>3, IdleFacts DEF CallOK, Owns, CreateCall, ExecuteCall
    <2>5. call' = [call EXCEPT ![k] = w] /\ UNCHANGED <<goal, plans, receipts, evaluations, records, effects>>
      BY <1>2, <2>2 DEF ValidateCreate
    <2> QED BY <1>0, <2>4, <2>5, PlansSame, CallMoves
  <1>3. CASE CommitCreate(k)
    <2>1. call[k] \in CreateCall
      BY <1>0, <1>3, CallKinds DEF CommitCreate
    <2>2. call' = [call EXCEPT ![k] = Idle] /\ UNCHANGED <<goal, receipts, evaluations, records, effects>>
      BY <1>3 DEF CommitCreate
    <2>3. PlansInv' /\ PlansGrow
      <3>1. CASE plans # <<>>
        BY <1>0, <1>3, <2>2, <3>1, PlansSame DEF CommitCreate
      <3>2. CASE plans = <<>>
        <4>1. PICK x : x = Revision(1, 0, call[k].caps, "owner")
          OBVIOUS
        <4>2. Len(plans) = 0 /\ plans' = <<x>>
          BY <1>3, <3>2, <4>1 DEF CommitCreate
        <4>3. <<x>> = Append(<<>>, x)
          OBVIOUS
        <4>4. PICK caps \in SUBSET Capabilities : caps = call[k].caps
          BY <2>1 DEF CreateCall
        <4>5. x = Revision(1, 1 - 1, caps, "owner") /\ plans' = Append(plans, x) /\ 1 = Len(plans) + 1
          BY <3>2, <4>1, <4>2, <4>3, <4>4
        <4> QED BY <1>0, <2>2, <4>5, RevisionAdded
      <3> QED BY <3>1, <3>2
    <2> QED BY <2>2, <2>3, IdleFacts, CallMoves
  <1> QED BY <1>1, <1>2, <1>3

LEMMA UpdateKeeps ==
  ASSUME GovernanceInv, NEW k \in Calls,
         \/ \E caps \in Proposals, n \in 1 .. MaxRevisions : GateUpdate(k, caps, n)
         \/ \E caps \in Proposals, e \in evaluations : Replan(k, e, caps)
         \/ CommitUpdate(k)
  PROVE  GovernanceInv'
  <1> USE PlanAssumption
  <1>0. PlansInv /\ CallOK(call[k])
    BY DEF GovernanceInv, CallsInv
  <1>1. ASSUME NEW caps \in Proposals, NEW n \in 1 .. MaxRevisions, GateUpdate(k, caps, n) PROVE GovernanceInv'
    <2>1. PICK w : w = [op |-> "update", caps |-> caps, expected |-> n, by |-> "owner"]
      OBVIOUS
    <2>2. w \in UpdateCall /\ w.by = "owner"
      BY <2>1 DEF UpdateCall
    <2>3. CallOK(w) /\ ~Owns(w)
      BY <2>2 DEF CallOK, Owns, UpdateOK, UpdateCall, ExecuteCall
    <2>4. call' = [call EXCEPT ![k] = w] /\ UNCHANGED <<goal, plans, receipts, evaluations, records, effects>>
      BY <1>1, <2>1 DEF GateUpdate
    <2> QED BY <1>0, <2>3, <2>4, PlansSame, CallMoves
  <1>2. ASSUME NEW caps \in Proposals, NEW e \in evaluations, Replan(k, e, caps) PROVE GovernanceInv'
    <2>0. e \in EvaluationType /\ e.status = "continue"
      BY <1>0, <1>2 DEF PlansInv, Replan
    <2>1. PICK w : w = [op |-> "update", caps |-> caps, expected |-> e.number, by |-> "goal-evaluator"]
      OBVIOUS
    <2>2. w \in UpdateCall /\ w.expected = e.number
      BY <2>0, <2>1 DEF UpdateCall, EvaluationType
    <2>3. e = [number |-> w.expected, status |-> "continue"]
      BY <2>0, <2>2 DEF EvaluationType
    <2>4. CallOK(w) /\ ~Owns(w)
      BY <2>2, <2>3 DEF CallOK, Owns, UpdateOK, UpdateCall, ExecuteCall
    <2>5. call' = [call EXCEPT ![k] = w] /\ UNCHANGED <<goal, plans, receipts, evaluations, records, effects>>
      BY <1>2, <2>1 DEF Replan
    <2> QED BY <1>0, <2>4, <2>5, PlansSame, CallMoves
  <1>3. CASE CommitUpdate(k)
    <2>1. call[k] \in UpdateCall /\ UpdateOK(call[k])
      BY <1>0, <1>3, CallKinds DEF CommitUpdate
    <2>2. call' = [call EXCEPT ![k] = Idle] /\ UNCHANGED <<goal, receipts, evaluations, records, effects>>
      BY <1>3 DEF CommitUpdate
    <2>3. PlansInv' /\ PlansGrow
      <3>1. CASE plans' = plans
        BY <1>0, <2>2, <3>1, PlansSame
      <3>2. CASE plans' # plans
        <4>1. /\ plans # <<>> /\ LatestRevision.number = call[k].expected /\ Len(plans) < MaxRevisions
              /\ plans' = Append(plans, Revision(LatestRevision.number + 1, LatestRevision.number,
                                                 call[k].caps, call[k].by))
          BY <1>3, <3>2 DEF CommitUpdate
        <4>2. LatestRevision.number = Len(plans) /\ Len(plans) \in Nat
          BY <1>0, <4>1, RevisionFacts
        <4>3. PICK n : n = Len(plans) + 1
          OBVIOUS
        <4>4. n \in 1 .. MaxRevisions /\ n - 1 = Len(plans)
          BY <4>1, <4>2, <4>3
        <4>5. PICK caps \in SUBSET Capabilities, who \in {"owner", "goal-evaluator"} :
                 caps = call[k].caps /\ who = call[k].by
          BY <2>1 DEF UpdateCall
        <4>6. PICK x : x = Revision(n, n - 1, caps, who)
          OBVIOUS
        <4>7. plans' = Append(plans, x)
          BY <4>1, <4>2, <4>3, <4>4, <4>5, <4>6
        <4>8. who = "goal-evaluator" => [number |-> n - 1, status |-> "continue"] \in evaluations
          BY <2>1, <4>1, <4>2, <4>4, <4>5 DEF UpdateOK
        <4> QED BY <1>0, <2>2, <4>3, <4>4, <4>6, <4>7, <4>8, RevisionAdded
      <3> QED BY <3>1, <3>2
    <2> QED BY <2>2, <2>3, IdleFacts, CallMoves
  <1> QED BY <1>1, <1>2, <1>3

(* Steps of nobody's call: only what calls rest on may grow.                   *)
LEMMA StoresMove ==
  ASSUME GovernanceInv, PlansInv', PlansGrow, UNCHANGED <<records, call, effects>>
  PROVE  GovernanceInv'
  <1>1. DOMAIN call' = Calls /\ \A q \in Calls : CallOK(call'[q]) /\ call'[q] = call[q]
    BY DEF GovernanceInv, CallsInv
  <1> QED BY <1>1, QuietStep

LEMMA DecidingKeeps ==
  ASSUME GovernanceInv, Deciding
  PROVE  GovernanceInv'
  <1>0. PlansInv
    BY DEF GovernanceInv
  <1>1. PICK r \in ToSet(plans) :
          \/ \E d \in {"approved", "rejected"}, who \in Actors : Decide(r, d, who)
          \/ \E report \in Reports : Evaluate(r, report)
    BY DEF Deciding
  <1>2. r.number \in DOMAIN plans /\ r = plans[r.number] /\ r \in RevisionType /\ r.number \in Nat
    BY <1>0, <1>1, RevisionFacts DEF RevisionType
  <1>3. ASSUME NEW d \in {"approved", "rejected"}, NEW who \in Actors, Decide(r, d, who) PROVE GovernanceInv'
    <2>1. PICK caps : caps = IF d = "approved" THEN r.caps ELSE {}
      OBVIOUS
    <2>2. PICK x : x = Receipt(r.number, d, caps, who)
      OBVIOUS
    <2>3. x \in ReceiptType /\ x.number = r.number /\ x.decision = d /\ (d = "approved" => x.caps = r.caps)
      BY <1>2, <2>1, <2>2 DEF Receipt, ReceiptType, RevisionType
    <2>4. /\ receipts' = receipts \cup {x} /\ UNCHANGED <<goal, plans, evaluations, records, call, effects>>
          /\ \A y \in receipts : y.number = r.number => y.decision = d
      BY <1>3, <2>1, <2>2 DEF Decide
    <2>5. PlansGrow
      BY <2>4 DEF PlansGrow
    <2>6. PlansInv'
      <3>1. \A y \in receipts' : /\ y \in ReceiptType /\ y.number \in DOMAIN plans
                                 /\ y.decision = "approved" => y.caps = plans[y.number].caps
        BY <1>0, <1>2, <2>3, <2>4 DEF PlansInv
      <3>2. \A y, z \in receipts' : y.number = z.number => y.decision = z.decision
        BY <1>0, <2>3, <2>4 DEF PlansInv
      <3>3. ReplanFollowsEvaluation'
        BY <1>0, <2>4 DEF PlansInv, ReplanFollowsEvaluation
      <3>4. receipts' \subseteq ReceiptType
        BY <1>0, <2>3, <2>4 DEF PlansInv
      <3>5. (\A y \in receipts : /\ y.number \in DOMAIN plans
                                 /\ y.decision = "approved" => y.caps = plans[y.number].caps)'
        BY <2>4, <3>1
      <3> QED BY <1>0, <2>4, <3>2, <3>3, <3>4, <3>5 DEF PlansInv
    <2> QED BY <2>4, <2>5, <2>6, StoresMove
  <1>4. ASSUME NEW report \in Reports, Evaluate(r, report) PROVE GovernanceInv'
    <2>1. PICK e : e = [number |-> r.number, status |-> EvaluationStatus(report)]
      OBVIOUS
    <2>2. e \in EvaluationType
      BY <1>2, <2>1 DEF EvaluationType, EvaluationStatus
    <2>3. evaluations' = evaluations \cup {e} /\ UNCHANGED <<goal, plans, receipts, records, call, effects>>
      BY <1>4, <2>1 DEF Evaluate
    <2>4. PlansGrow /\ PlansInv'
      BY <1>0, <2>2, <2>3 DEF PlansGrow, PlansInv, ReplanFollowsEvaluation
    <2> QED BY <2>3, <2>4, StoresMove
  <1> QED BY <1>1, <1>3, <1>4

LEMMA CrashKeeps ==
  ASSUME GovernanceInv, Crash
  PROVE  GovernanceInv'
  <1>1. call' = [k \in Calls |-> Idle] /\ UNCHANGED <<goal, plans, receipts, evaluations, records, effects>>
    BY DEF Crash
  <1>2. DOMAIN call' = Calls /\ \A q \in Calls : CallOK(call'[q]) /\ ~Owns(call'[q])
    BY <1>1, IdleFacts
  <1>3. PlansInv' /\ PlansGrow
    BY <1>1, PlansSame DEF GovernanceInv
  <1> QED BY <1>1, <1>2, <1>3, QuietStep

LEMMA GoalEditKeeps ==
  ASSUME GovernanceInv, NEW g \in GoalVersions, EditGoal(g)
  PROVE  GovernanceInv'
  <1>1. PlansInv' /\ PlansGrow
    BY DEF GovernanceInv, EditGoal, PlansInv, PlansGrow, ReplanFollowsEvaluation
  <1> QED BY <1>1, StoresMove DEF EditGoal

-----------------------------------------------------------------------------
(* Executing.                                                                  *)

LEMMA RequirementType ==
  ASSUME NEW c, NEW g
  PROVE  ApprovalRequirement(c, g) \in 0 .. 2
  <1>1. /\ RiskRequirement(Definition[c].risk) \in 0 .. 2
        /\ ConsentRequirement(Definition[c].consent) \in 0 .. 2
        /\ GoalApprovalRequirement(g.policy) \in 0 .. 2
    BY DEF RiskRequirement, ConsentRequirement, GoalApprovalRequirement
  <1>2. PICK all : all = {RiskRequirement(Definition[c].risk), ConsentRequirement(Definition[c].consent),
                          GoalApprovalRequirement(g.policy)}
    OBVIOUS
  <1>3. \E m \in all : \A n \in all : n <= m
    BY <1>1, <1>2
  <1>4. ApprovalRequirement(c, g) = CHOOSE m \in all : \A n \in all : n <= m
    BY <1>2 DEF ApprovalRequirement
  <1>5. ApprovalRequirement(c, g) \in all
    BY <1>3, <1>4
  <1> QED BY <1>1, <1>2, <1>5

LEMMA BeginKeeps ==
  ASSUME GovernanceInv, NEW k \in Calls, NEW key \in Keys, NEW r \in ToSet(plans), NEW c \in Capabilities,
         NEW approval \in {{}} \cup {{x} : x \in receipts}, BeginExecute(k, key, r, c, approval)
  PROVE  GovernanceInv'
  <1>1. PlansInv /\ PlansInv' /\ PlansGrow
    BY PlansSame DEF GovernanceInv, BeginExecute
  <1>2. r.number \in DOMAIN plans /\ r = plans[r.number] /\ r.number \in Nat
    BY <1>1, RevisionFacts DEF RevisionType
  <1>3. PICK w : w = [op |-> "execute", stage |-> "checked", key |-> key, hash |-> <<r.number, c>>,
                      needed |-> ApprovalRequirement(c, goal)]
    OBVIOUS
  <1>4. w \in ExecuteCall /\ w.stage = "checked" /\ w.hash = <<r.number, c>> /\ w.needed = ApprovalRequirement(c, goal)
    BY <1>2, <1>3, RequirementType DEF ExecuteCall
  <1>5. c \in r.caps /\ (ApprovalRequirement(c, goal) # 0 => Approved(r.number))
    BY DEF BeginExecute, ValidateAuthority, Approved
  <1>6. AskedFor(w)
    BY <1>2, <1>4, <1>5 DEF AskedFor
  <1>7. CallOK(w) /\ ~Owns(w)
    BY <1>4, <1>6 DEF CallOK, Owns
  <1>8. call' = [call EXCEPT ![k] = w] /\ UNCHANGED <<records, effects>>
    BY <1>3 DEF BeginExecute
  <1> QED BY <1>1, <1>7, <1>8, CallMoves

(* A key that was seen is never reserved again: whoever reserves it is alone   *)
(* with it, and nobody has acted under it.                                     *)
LEMMA ReserveKeeps ==
  ASSUME GovernanceInv, NEW k \in Calls, Reserve(k)
  PROVE  GovernanceInv'
  <1>1. PICK o : o = call[k]
    OBVIOUS
  <1>2. /\ o \in ExecuteCall /\ AskedFor(o) /\ o.stage = "checked" /\ CallOK(o)
        /\ PlansInv' /\ PlansGrow /\ UNCHANGED effects
    <2>1. CallOK(o) /\ o.op = "execute" /\ o.stage = "checked"
      BY <1>1 DEF GovernanceInv, CallsInv, Reserve
    <2>2. PlansInv /\ UNCHANGED <<goal, plans, receipts, evaluations, effects>>
      BY DEF GovernanceInv, Reserve
    <2>3. o.op = "execute" => o \in ExecuteCall /\ AskedFor(o)
      BY <2>1, CallKinds
    <2> QED BY <2>1, <2>2, <2>3, PlansSame
  <1>3. CASE RecordsOf(o.key) # {}
    <2>1. call' = [call EXCEPT ![k] = Idle] /\ UNCHANGED <<records, effects>>
      BY <1>1, <1>3 DEF Reserve
    <2> QED BY <1>2, <2>1, IdleFacts, CallMoves
  <1>4. CASE RecordsOf(o.key) = {}
    <2>1. PICK x : x = [key |-> o.key, seq |-> 1, hash |-> o.hash, status |-> "reserved"]
      OBVIOUS
    <2>2. x \in RecordType /\ x.key = o.key /\ x.seq = 1 /\ x.hash = o.hash /\ x.status = "reserved"
      BY <1>2, <2>1 DEF RecordType, ExecuteCall
    <2>3. PICK w : w = [o EXCEPT !.stage = "reserved"]
      OBVIOUS
    <2>4. /\ w \in ExecuteCall /\ w.stage = "reserved" /\ w.key = o.key /\ w.hash = o.hash
          /\ w.needed = o.needed
      BY <1>2, <2>3 DEF ExecuteCall
    <2>5. records' = Append(records, x) /\ call' = [call EXCEPT ![k] = w]
      BY <1>1, <1>4, <2>1, <2>3 DEF Reserve
    <2>6. Cardinality(RecordsOf(x.key)) = 0
      BY <1>4, <2>2, FS_EmptySet
    <2>7. /\ RecordsInv'
          /\ \A key \in Keys : RecordsOf(key)' = IF key = x.key THEN RecordsOf(key) \cup {x} ELSE RecordsOf(key)
      BY <1>4, <2>2, <2>5, <2>6, RecordAdded DEF GovernanceInv
    <2>8. /\ DOMAIN call' = Calls /\ w.key \in Keys
          /\ \A q \in Calls : call'[q] = IF q = k THEN w ELSE call[q]
      BY <2>4, <2>5 DEF GovernanceInv, CallsInv, ExecuteCall
    <2>9. \A q \in Calls : Owns(call[q]) => call[q].key # w.key /\ call[q].key \in Keys
      <3>1. \A q \in Calls : Owns(call[q]) => Reserved(call[q])
        BY OwnerFacts DEF GovernanceInv, CallsInv
      <3>2. \A q \in Calls : Owns(call[q]) => call[q].key \in Keys
        BY OwnerFacts DEF GovernanceInv, CallsInv
      <3> QED BY <1>4, <2>4, <3>1, <3>2 DEF Reserved
    <2>10. NotYetActed(w)
      BY <1>4, <2>4 DEF NotYetActed, GovernanceInv, EffectsInv, EffectsAreAccounted
    <2>11. CallOK(w)'
      <3>1. AskedFor(w)'
        BY <1>2, <2>4 DEF AskedFor, Approved, PlansGrow
      <3>2. RecordsOf(w.key)' = {x}
        BY <1>4, <2>2, <2>4, <2>7, <2>8
      <3>3. Reserved(w)'
        BY <2>2, <2>4, <3>2 DEF Reserved
      <3>4. NotYetActed(w)'
        BY <1>2, <2>10 DEF NotYetActed
      <3> QED BY <2>4, <3>1, <3>3, <3>4 DEF CallOK
    <2>12. ASSUME NEW q \in Calls PROVE CallOK(call[q])'
      <3>1. CASE q = k
        BY <2>8, <2>11, <3>1
      <3>2. CASE q # k
        <4>1. PICK v : v = call[q]
          OBVIOUS
        <4>2. CallOK(v) /\ call'[q] = v
          BY <2>8, <3>2, <4>1 DEF GovernanceInv, CallsInv
        <4>3. Owns(v) => RecordsOf(v.key)' = RecordsOf(v.key)
          BY <2>2, <2>4, <2>7, <2>9, <4>1
        <4>4. Owns(v) /\ v.stage = "reserved" => NotYetActed(v)'
          BY <1>2, <4>2, OwnerFacts DEF NotYetActed
        <4>5. CallOK(v)'
          BY <1>2, <4>2, <4>3, <4>4, CallStays
        <4> QED BY <4>2, <4>5
      <3> QED BY <3>1, <3>2
    <2>13. CallsInv'
      <3>1. \A p, q \in Calls : Owns(call'[p]) /\ Owns(call'[q]) /\ call'[p].key = call'[q].key => p = q
        BY <2>8, <2>9 DEF GovernanceInv, CallsInv
      <3> QED BY <2>8, <2>12, <3>1 DEF CallsInv, Owns
    <2>14. EffectsInv'
      <3>1. ASSUME NEW i \in DOMAIN effects PROVE effects[i].key \in Keys
        <4>1. effects[i] \in EffectType
          BY DEF GovernanceInv, EffectsInv
        <4> QED BY <4>1 DEF EffectType
      <3> QED BY <1>2, <2>7, <3>1, EffectsStay DEF GovernanceInv
    <2> QED BY <1>2, <2>7, <2>13, <2>14 DEF GovernanceInv
  <1> QED BY <1>3, <1>4

(* A record is added to a key that no remaining call owns.                     *)
LEMMA RecordWritten ==
  ASSUME GovernanceInv, NEW x \in RecordType, records' = Append(records, x),
         x.seq = Cardinality(RecordsOf(x.key)) + 1,
         \A r \in RecordsOf(x.key) : r.status \notin {"completed", "failed"},
         UNCHANGED <<goal, plans, receipts, evaluations, effects>>,
         DOMAIN call' = Calls, \A q \in Calls : call'[q] = call[q] \/ call'[q] = Idle,
         \A q \in Calls : Owns(call'[q]) => call'[q].key # x.key
  PROVE  GovernanceInv'
  <1>1. PlansInv' /\ PlansGrow
    BY PlansSame DEF GovernanceInv
  <1>2. /\ RecordsInv'
        /\ \A key \in Keys : RecordsOf(key)' = IF key = x.key THEN RecordsOf(key) \cup {x} ELSE RecordsOf(key)
    BY RecordAdded DEF GovernanceInv
  <1>3. ASSUME NEW q \in Calls PROVE CallOK(call[q])'
    <2>1. PICK v : v = call'[q]
      OBVIOUS
    <2>2. CallOK(v)
      BY <2>1, IdleFacts DEF GovernanceInv, CallsInv
    <2>3. Owns(v) => RecordsOf(v.key)' = RecordsOf(v.key)
      BY <1>2, <2>1, <2>2, OwnerFacts
    <2>4. Owns(v) /\ v.stage = "reserved" => NotYetActed(v)'
      BY <2>2, OwnerFacts DEF NotYetActed
    <2>5. CallOK(v)'
      BY <1>1, <2>2, <2>3, <2>4, CallStays
    <2> QED BY <2>1, <2>5
  <1>4. CallsInv'
    <2>1. \A p, q \in Calls : Owns(call'[p]) /\ Owns(call'[q]) /\ call'[p].key = call'[q].key => p = q
      BY IdleFacts DEF GovernanceInv, CallsInv
    <2> QED BY <1>3, <2>1 DEF CallsInv, Owns
  <1>5. EffectsInv'
    <2>1. ASSUME NEW i \in DOMAIN effects PROVE effects[i].key \in Keys
      <3>1. effects[i] \in EffectType
        BY DEF GovernanceInv, EffectsInv
      <3> QED BY <3>1 DEF EffectType
    <2> QED BY <1>1, <1>2, <2>1, EffectsStay DEF GovernanceInv
  <1> QED BY <1>1, <1>2, <1>4, <1>5 DEF GovernanceInv

LEMMA AppendTerminalKeeps ==
  ASSUME GovernanceInv, NEW k \in Calls, NEW written \in BOOLEAN, AppendTerminal(k, written)
  PROVE  GovernanceInv'
  <1>1. PICK o : o = call[k]
    OBVIOUS
  <1>2. CallOK(o) /\ o.op = "execute" /\ o.stage \in {"threw", "returned"} /\ RecordsOf(o.key) # {}
    BY <1>1 DEF GovernanceInv, CallsInv, AppendTerminal
  <1>3. Owns(o) /\ o.key \in Keys /\ Reserved(o)
    <2>1. Owns(o)
      BY <1>2, CallKinds
    <2> QED BY <1>2, <2>1, OwnerFacts
  <1>4. call' = [call EXCEPT ![k] = Idle] /\ UNCHANGED <<goal, plans, receipts, evaluations, effects>>
    BY DEF AppendTerminal
  <1>5. DOMAIN call' = Calls /\ \A q \in Calls : call'[q] = IF q = k THEN Idle ELSE call[q]
    BY <1>4 DEF GovernanceInv, CallsInv
  <1>6. CASE ~written
    <2>1. UNCHANGED <<records, effects>>
      BY <1>4, <1>6 DEF AppendTerminal
    <2>2. PlansInv' /\ PlansGrow
      BY <1>4, PlansSame DEF GovernanceInv
    <2> QED BY <1>4, <2>1, <2>2, IdleFacts, CallMoves
  <1>7. CASE written
    <2>1. PICK l : l = LatestRecord(o.key)
      OBVIOUS
    <2>2. l \in RecordType /\ l.key = o.key /\ l.seq = Cardinality(RecordsOf(o.key)) /\ l.seq \in Nat
      BY <1>2, <1>3, <2>1, LatestRecordFacts DEF GovernanceInv, RecordType
    <2>3. PICK s : s = IF o.stage = "returned" THEN "completed" ELSE "in_doubt"
      OBVIOUS
    <2>4. PICK x : x = [l EXCEPT !.seq = @ + 1, !.status = s]
      OBVIOUS
    <2>5. x \in RecordType /\ x.key = o.key /\ x.seq = Cardinality(RecordsOf(o.key)) + 1
      <3>1. s \in {"reserved", "completed", "failed", "in_doubt"}
        BY <2>3
      <3>2. PICK n : n = l.seq + 1
        OBVIOUS
      <3>3. x = [l EXCEPT !.seq = n, !.status = s] /\ n \in Nat /\ l \in RecordType
        BY <2>2, <2>4, <3>2
      <3>4. x \in RecordType /\ x.seq = n
        BY <3>1, <3>3 DEF RecordType
      <3>5. x.key = l.key
        BY <3>3 DEF RecordType
      <3> QED BY <2>2, <3>2, <3>4, <3>5
    <2>6. records' = Append(records, x)
      BY <1>1, <1>7, <2>1, <2>3, <2>4 DEF AppendTerminal
    <2>7. \A r \in RecordsOf(x.key) : r.status \notin {"completed", "failed"}
      BY <1>3, <2>5 DEF Reserved
    <2>8. \A q \in Calls : Owns(call'[q]) => call'[q].key # x.key
      BY <1>1, <1>3, <1>5, <2>5, IdleFacts DEF GovernanceInv, CallsInv
    <2>9. \A q \in Calls : call'[q] = call[q] \/ call'[q] = Idle
      BY <1>5
    <2> QED BY <1>4, <1>5, <2>5, <2>6, <2>7, <2>8, <2>9, RecordWritten
  <1> QED BY <1>6, <1>7

(* Only a key in doubt is reconciled, and nobody in flight owns such a key.    *)
LEMMA ReconcileKeeps ==
  ASSUME GovernanceInv, NEW key \in Keys, NEW outcome \in {"completed", "failed"}, Reconcile(key, outcome)
  PROVE  GovernanceInv'
  <1>1. PICK l : l = LatestRecord(key)
    OBVIOUS
  <1>2. /\ l \in RecordsOf(key) /\ l \in RecordType /\ l.key = key /\ l.status = "in_doubt"
        /\ l.seq = Cardinality(RecordsOf(key)) /\ l.seq \in Nat
        /\ \A q \in RecordsOf(key) : q.seq <= l.seq
    BY <1>1, LatestRecordFacts DEF GovernanceInv, RecordType, Reconcile
  <1>3. PICK x : x = [l EXCEPT !.seq = @ + 1, !.status = outcome]
    OBVIOUS
  <1>4. x \in RecordType /\ x.key = key /\ x.seq = Cardinality(RecordsOf(key)) + 1
    <2>1. outcome \in {"reserved", "completed", "failed", "in_doubt"}
      OBVIOUS
    <2>2. PICK n : n = l.seq + 1
      OBVIOUS
    <2>3. x = [l EXCEPT !.seq = n, !.status = outcome] /\ n \in Nat /\ l \in RecordType
      BY <1>2, <1>3, <2>2
    <2>4. x \in RecordType /\ x.seq = n
      BY <2>1, <2>3 DEF RecordType
    <2>5. x.key = l.key
      BY <2>3 DEF RecordType
    <2> QED BY <1>2, <2>2, <2>4, <2>5
  <1>5. records' = Append(records, x) /\ UNCHANGED <<goal, plans, receipts, evaluations, call, effects>>
    BY <1>1, <1>3 DEF Reconcile
  <1>6. \A r \in RecordsOf(x.key) : r.status \notin {"completed", "failed"}
    <2>1. SUFFICES ASSUME NEW r \in RecordsOf(key), r.status \in {"completed", "failed"} PROVE FALSE
      BY <1>4
    <2>2. l.seq <= r.seq /\ r.seq <= l.seq /\ r.seq \in Nat
      <3>1. r \in ToSet(records) /\ l \in ToSet(records) /\ r.key = key /\ r \in RecordType
        BY <1>2, <2>1 DEF GovernanceInv, RecordsInv, RecordsOf, ToSet
      <3>2. l.seq <= r.seq
        BY <1>2, <2>1, <3>1 DEF GovernanceInv, RecordsInv, SettledStaysSettled
      <3> QED BY <1>2, <2>1, <3>1, <3>2 DEF RecordType
    <2>3. r = l
      BY <1>2, <2>2 DEF GovernanceInv, RecordsInv
    <2> QED BY <1>2, <2>1, <2>3
  <1>7. \A q \in Calls : Owns(call'[q]) => call'[q].key # x.key
    <2>1. \A q \in Calls : Owns(call[q]) => Reserved(call[q])
      BY OwnerFacts DEF GovernanceInv, CallsInv
    <2> QED BY <1>2, <1>4, <1>5, <2>1 DEF Reserved
  <1>8. DOMAIN call' = Calls /\ \A q \in Calls : call'[q] = call[q] \/ call'[q] = Idle
    BY <1>5 DEF GovernanceInv, CallsInv
  <1> QED BY <1>4, <1>5, <1>6, <1>7, <1>8, RecordWritten

(* The adapter acts once for the call that owns the key.                       *)
LEMMA AdapterActsKeeps ==
  ASSUME GovernanceInv, NEW k \in Calls, NEW acted \in BOOLEAN, NEW threw \in BOOLEAN, AdapterActs(k, acted, threw)
  PROVE  GovernanceInv'
  <1>1. PICK o : o = call[k]
    OBVIOUS
  <1>2. CallOK(o) /\ o.op = "execute" /\ o.stage = "reserved"
    BY <1>1 DEF GovernanceInv, CallsInv, AdapterActs
  <1>3. o \in ExecuteCall /\ AskedFor(o) /\ Owns(o) /\ Reserved(o) /\ NotYetActed(o)
    <2>1. o.op = "execute" => /\ o \in ExecuteCall /\ AskedFor(o)
                              /\ o.stage # "checked" => Owns(o) /\ Reserved(o)
                              /\ o.stage = "reserved" => NotYetActed(o)
      BY <1>2, CallKinds
    <2> QED BY <1>2, <2>1
  <1>4. PICK s : s = IF threw THEN "threw" ELSE "returned"
    OBVIOUS
  <1>5. PICK w : w = [o EXCEPT !.stage = s]
    OBVIOUS
  <1>6. /\ w \in ExecuteCall /\ w.stage \in {"threw", "returned"} /\ w.key = o.key /\ w.hash = o.hash
        /\ w.needed = o.needed /\ w.key \in Keys
    <2>1. s \in {"threw", "returned"}
      BY <1>4
    <2> QED BY <1>3, <1>5, <2>1 DEF ExecuteCall
  <1>7. call' = [call EXCEPT ![k] = w] /\ UNCHANGED <<goal, plans, receipts, evaluations, records>>
    BY <1>1, <1>4, <1>5 DEF AdapterActs
  <1>8. DOMAIN call' = Calls /\ \A q \in Calls : call'[q] = IF q = k THEN w ELSE call[q]
    BY <1>7 DEF GovernanceInv, CallsInv
  <1>9. /\ PlansInv' /\ PlansGrow /\ RecordsInv'
        /\ \A key : RecordsOf(key)' = RecordsOf(key)
    <2>1. \A key : RecordsOf(key)' = RecordsOf(key)
      BY <1>7 DEF RecordsOf, ToSet
    <2>2. RecordsInv'
      BY <1>7, <2>1 DEF GovernanceInv, RecordsInv, SettledStaysSettled, ToSet
    <2> QED BY <1>7, <2>1, <2>2, PlansSame DEF GovernanceInv
  <1>10. PICK e : e = [key |-> o.key, number |-> o.hash[1], cap |-> o.hash[2], needed |-> o.needed]
    OBVIOUS
  <1>11. /\ e \in EffectType /\ e.key = o.key /\ e.number = o.hash[1] /\ e.cap = o.hash[2]
         /\ e.needed = o.needed
    BY <1>3, <1>10 DEF EffectType, ExecuteCall
  <1>12. effects' = effects \/ effects' = Append(effects, e)
    BY <1>1, <1>10 DEF AdapterActs
  <1>13. /\ effects' \in Seq(EffectType)
         /\ \A i \in DOMAIN effects' : \/ i \in DOMAIN effects /\ effects'[i] = effects[i]
                                       \/ i = Len(effects) + 1 /\ effects'[i] = e
    <2>1. effects \in Seq(EffectType)
      BY DEF GovernanceInv, EffectsInv
    <2>2. PICK a : a = Append(effects, e)
      OBVIOUS
    <2>3. /\ a \in Seq(EffectType) /\ Len(a) = Len(effects) + 1 /\ Len(effects) \in Nat
          /\ \A i \in 1 .. Len(effects) : a[i] = effects[i]
          /\ a[Len(effects) + 1] = e
      BY <1>11, <2>1, <2>2, AppendProperties
    <2>4. DOMAIN a = 1 .. Len(effects) + 1 /\ DOMAIN effects = 1 .. Len(effects)
      BY <2>1, <2>3
    <2>5. \A i \in DOMAIN a : \/ i \in DOMAIN effects /\ a[i] = effects[i]
                              \/ i = Len(effects) + 1 /\ a[i] = e
      BY <2>3, <2>4
    <2> QED BY <1>12, <2>1, <2>2, <2>3, <2>5
  <1>14. CallsInv'
    <2>1. ASSUME NEW q \in Calls PROVE CallOK(call[q])'
      <3>1. CASE q = k
        <4>1. AskedFor(w)'
          BY <1>3, <1>6, <1>9 DEF AskedFor, Approved, PlansGrow
        <4>2. Reserved(w)'
          BY <1>3, <1>6, <1>9 DEF Reserved
        <4>3. CallOK(w)'
          BY <1>6, <4>1, <4>2 DEF CallOK
        <4> QED BY <1>8, <3>1, <4>3
      <3>2. CASE q # k
        <4>1. PICK v : v = call[q]
          OBVIOUS
        <4>2. CallOK(v) /\ call'[q] = v
          BY <1>8, <3>2, <4>1 DEF GovernanceInv, CallsInv
        <4>3. Owns(v) => v.key # e.key
          BY <1>1, <1>3, <1>11, <3>2, <4>1 DEF GovernanceInv, CallsInv
        <4>4. Owns(v) /\ v.stage = "reserved" => NotYetActed(v)'
          BY <1>13, <4>2, <4>3, OwnerFacts DEF NotYetActed
        <4>5. CallOK(v)'
          BY <1>9, <4>2, <4>4, CallStays
        <4> QED BY <4>2, <4>5
      <3> QED BY <3>1, <3>2
    <2>2. \A p, q \in Calls : Owns(call'[p]) /\ Owns(call'[q]) /\ call'[p].key = call'[q].key => p = q
      BY <1>1, <1>3, <1>6, <1>8 DEF GovernanceInv, CallsInv
    <2> QED BY <1>8, <2>1, <2>2 DEF CallsInv, Owns
  <1>15. EffectsInv'
    <2>1. EffectAtMostOnce'
      BY <1>3, <1>11, <1>13 DEF GovernanceInv, EffectsInv, EffectAtMostOnce, NotYetActed
    <2>2. EffectsAreAccounted'
      <3>1. SUFFICES ASSUME NEW i \in DOMAIN effects'
                     PROVE  \E r \in RecordsOf(effects'[i].key) : r.hash = <<effects'[i].number, effects'[i].cap>>
        BY <1>9 DEF EffectsAreAccounted
      <3>2. CASE i \in DOMAIN effects /\ effects'[i] = effects[i]
        BY <3>2 DEF GovernanceInv, EffectsInv, EffectsAreAccounted
      <3>3. CASE effects'[i] = e
        <4>1. o.hash = <<e.number, e.cap>>
          BY <1>3, <1>11 DEF ExecuteCall
        <4> QED BY <1>3, <1>11, <3>3, <4>1 DEF Reserved
      <3> QED BY <1>13, <3>2, <3>3
    <2>3. ASSUME NEW i \in DOMAIN effects'
          PROVE  /\ effects'[i].number \in DOMAIN plans /\ effects'[i].cap \in plans[effects'[i].number].caps
                 /\ effects'[i].needed # 0 => Approved(effects'[i].number)
      <3>1. CASE i \in DOMAIN effects /\ effects'[i] = effects[i]
        BY <3>1 DEF GovernanceInv, EffectsInv
      <3>2. CASE effects'[i] = e
        BY <1>3, <1>11, <3>2 DEF AskedFor
      <3> QED BY <1>13, <3>1, <3>2
    <2>4. (\A i \in DOMAIN effects :
             LET f == effects[i]
             IN  /\ f.number \in DOMAIN plans /\ f.cap \in plans[f.number].caps
                 /\ f.needed # 0 => Approved(f.number))'
      BY <1>7, <2>3 DEF Approved
    <2> QED BY <1>13, <2>1, <2>2, <2>4 DEF EffectsInv
  <1> QED BY <1>9, <1>14, <1>15 DEF GovernanceInv

-----------------------------------------------------------------------------
LEMMA GovernanceInit ==
  ASSUME PlanInit
  PROVE  GovernanceInv
  <1>1. PlansInv
    <2>1. plans \in Seq(RevisionType) /\ DOMAIN plans = {}
      BY DEF PlanInit
    <2> QED BY <2>1 DEF PlanInit, PlansInv, ReplanFollowsEvaluation
  <1>2. RecordsInv
    <2>1. records \in Seq(RecordType) /\ ToSet(records) = {}
      BY DEF PlanInit, ToSet
    <2>2. \A key : RecordsOf(key) = {}
      BY <2>1 DEF RecordsOf
    <2>3. IsFiniteSet({}) /\ Cardinality({}) = 0
      BY FS_EmptySet
    <2>4. {r.seq : r \in {}} = 1 .. 0
      OBVIOUS
    <2> QED BY <2>1, <2>2, <2>3, <2>4 DEF RecordsInv, SettledStaysSettled
  <1>3. CallsInv
    BY IdleFacts DEF PlanInit, CallsInv
  <1>4. EffectsInv
    <2>1. effects \in Seq(EffectType) /\ DOMAIN effects = {}
      BY DEF PlanInit
    <2> QED BY <2>1 DEF EffectsInv, EffectAtMostOnce, EffectsAreAccounted
  <1> QED BY <1>1, <1>2, <1>3, <1>4 DEF GovernanceInv

LEMMA GovernanceStep ==
  ASSUME GovernanceInv, [PlanNext]_planVars
  PROVE  GovernanceInv'
  <1>1. CASE Planning
    BY <1>1, CreateKeeps, UpdateKeeps DEF Planning
  <1>2. CASE Deciding
    BY <1>2, DecidingKeeps
  <1>3. CASE Executing
    BY <1>3, BeginKeeps, ReserveKeeps, AdapterActsKeeps, AppendTerminalKeeps, ReconcileKeeps DEF Executing
  <1>4. CASE \E g \in GoalVersions : EditGoal(g)
    BY <1>4, GoalEditKeeps
  <1>5. CASE Crash
    BY <1>5, CrashKeeps
  <1>6. CASE UNCHANGED planVars
    <2>1. UNCHANGED <<goal, plans, receipts, evaluations, records, call, effects>>
      BY <1>6 DEF planVars
    <2>2. PlansInv' /\ PlansGrow
      BY <2>1, PlansSame DEF GovernanceInv
    <2> QED BY <2>1, <2>2, StoresMove
  <1> QED BY <1>1, <1>2, <1>3, <1>4, <1>5, <1>6 DEF PlanNext

LEMMA GovernanceIsSafe ==
  ASSUME GovernanceInv
  PROVE  EffectsAreSafe
  <1>1. PlanTypeOK
    BY DEF GovernanceInv, PlansInv, RecordsInv, PlanTypeOK
  <1>2. EffectWasApproved
    <2>1. SUFFICES ASSUME NEW i \in DOMAIN effects, NEW e, e = effects[i]
                   PROVE  /\ e.cap \in plans[e.number].caps
                          /\ e.needed # 0 =>
                               /\ \E x \in receipts : /\ x.number = e.number
                                                      /\ x.decision = "approved"
                                                      /\ x.caps = plans[e.number].caps
                               /\ ~ \E x \in receipts : x.number = e.number /\ x.decision = "rejected"
      BY DEF EffectWasApproved
    <2>2. e.cap \in plans[e.number].caps /\ (e.needed # 0 => Approved(e.number))
      BY <2>1 DEF GovernanceInv, EffectsInv
    <2>3. ASSUME Approved(e.number)
          PROVE  /\ \E x \in receipts : /\ x.number = e.number /\ x.decision = "approved"
                                        /\ x.caps = plans[e.number].caps
                 /\ ~ \E x \in receipts : x.number = e.number /\ x.decision = "rejected"
      BY <2>3 DEF GovernanceInv, PlansInv, Approved
    <2> QED BY <2>2, <2>3
  <1> QED BY <1>1, <1>2 DEF EffectsAreSafe, GovernanceInv, PlansInv, RecordsInv, EffectsInv

(* Whatever callers propose, approve, retry, race or reconcile, and whenever   *)
(* the Kernel stops, an adapter acts at most once per idempotency key, for a   *)
(* capability its plan revision asked for and, where the risk or the Goal      *)
(* demands it, its owner approved; the record store knows every key that may   *)
(* have acted, a settled execution stays settled, and a re-planned revision    *)
(* directly follows the one whose evaluation asked for it (ExecutionEngine,    *)
(* ApprovalManager, ProposedPlanManager, GoalReplanningService).               *)
THEOREM EffectsStaySafe == PlanSpec => []EffectsAreSafe
  <1>1. PlanInit => GovernanceInv
    BY GovernanceInit
  <1>2. GovernanceInv /\ [PlanNext]_planVars => GovernanceInv'
    BY GovernanceStep
  <1>3. GovernanceInv => EffectsAreSafe
    BY GovernanceIsSafe
  <1> QED BY <1>1, <1>2, <1>3, PTL DEF PlanSpec

-----------------------------------------------------------------------------
(* The Auto Radar. Lists of sites travel between storage, memory and captures  *)
(* in flight, and every copy holds sites the user authorized at some time. An  *)
(* evaluation past the duplicate check has its page in the history, or the     *)
(* history cannot be compared with.                                            *)

RadarStates == StateMessages \cup {"paused", "observing", "evaluating", "blocked", "duplicate", "failed",
                                  "submitting", "irrelevant", "captured", "rejected"}
RadarType == [enabled : BOOLEAN, state : RadarStates, origins : SUBSET Pages, token : BOOLEAN, seen : SUBSET Pages,
              unreadable : BOOLEAN, queue : [Pages -> Nat]]
StoreType == [enabled : BOOLEAN, state : RadarStates, origins : SUBSET Pages, token : BOOLEAN, queue : [Pages -> Nat],
              prints : BOOLEAN, radarEnabled : BOOLEAN, last : SUBSET Pages]
CaptureType == [page : Pages, origins : SUBSET Pages, last : SUBSET Pages]
JobType == {IdleJob} \cup [at : {"capturing", "matching", "submitting"}, page : Pages]

RadarTypeOK ==
  /\ radar \in RadarType /\ store \in StoreType
  /\ loading \in [pending : BOOLEAN, read : StoreType]
  /\ job \in [Jobs -> JobType]
  /\ timer \subseteq Pages
  /\ manual \subseteq CaptureType
  /\ granted \in [now : SUBSET Pages, ever : SUBSET Pages]

PastCheck(j) == job[j].at \in {"matching", "submitting"}

SitesWereGranted ==
  /\ radar.origins \subseteq granted.ever /\ store.origins \subseteq granted.ever
  /\ loading.read.origins \subseteq granted.ever /\ granted.now \subseteq granted.ever
  /\ \A m \in manual : m.origins \subseteq granted.ever
  /\ \A j \in Jobs : PastCheck(j) => job[j].page \in granted.ever \ Sensitive
  /\ CapturedWasGranted

ChecksAreRemembered ==
  /\ loading.pending => ~radar.unreadable
  /\ \A j \in Jobs : PastCheck(j) => job[j].page \in radar.seen \/ radar.unreadable
  /\ OverlapIsDeduplicated

RadarInv == RadarTypeOK /\ SitesWereGranted /\ ChecksAreRemembered

-----------------------------------------------------------------------------
LEMMA SavedFacts ==
  ASSUME RadarTypeOK, NEW r \in RadarType, NEW s, s = Saved(r)
  PROVE  s \in StoreType /\ s.origins = r.origins
  <1>2. PICK b \in BOOLEAN : b = (r.seen # {} \/ r.unreadable)
    OBVIOUS
  <1>3. s = [store EXCEPT !.enabled = r.enabled, !.state = r.state, !.origins = r.origins,
                          !.token = r.token, !.queue = r.queue, !.prints = b]
    BY <1>2 DEF Saved
  <1> QED BY <1>3 DEF RadarTypeOK, RadarType, StoreType

(* The radar changes state and saves itself; no evaluation goes past the       *)
(* duplicate check.                                                            *)
LEMMA RadarSaves ==
  ASSUME RadarInv, NEW r \in RadarType, SetRadar(r), r.origins \subseteq granted.ever,
         r.seen = radar.seen, r.unreadable = radar.unreadable,
         job' \in [Jobs -> JobType],
         \A j \in Jobs : PastCheck(j)' => PastCheck(j) /\ job'[j].page = job[j].page,
         timer' \subseteq Pages, manual' \subseteq manual, UNCHANGED <<loading, granted>>,
         captured' \subseteq granted.ever \ Sensitive
  PROVE  RadarInv'
  <1>1. radar' = r /\ store' \in StoreType /\ store'.origins = r.origins
    BY SavedFacts DEF SetRadar, RadarInv
  <1>2. RadarTypeOK'
    BY <1>1 DEF RadarInv, RadarTypeOK
  <1>3. SitesWereGranted'
    BY <1>1 DEF RadarInv, SitesWereGranted, CapturedWasGranted
  <1>4. ChecksAreRemembered'
    <2>1. (\A j \in Jobs : PastCheck(j) => job[j].page \in radar.seen \/ radar.unreadable)'
      BY <1>1 DEF RadarInv, ChecksAreRemembered
    <2>2. OverlapIsDeduplicated'
      <3>1. SUFFICES ASSUME NEW j \in Jobs, NEW k \in Jobs, j # k, PastCheck(j)', PastCheck(k)',
                            job'[j].page = job'[k].page
                     PROVE  radar'.unreadable
        BY DEF OverlapIsDeduplicated, PastCheck
      <3>2. PastCheck(j) /\ PastCheck(k) /\ job[j].page = job[k].page
        BY <3>1
      <3> QED BY <1>1, <3>1, <3>2 DEF RadarInv, ChecksAreRemembered, OverlapIsDeduplicated, PastCheck
    <2> QED BY <1>1, <2>1, <2>2 DEF RadarInv, ChecksAreRemembered
  <1> QED BY <1>2, <1>3, <1>4 DEF RadarInv

LEMMA StateSet ==
  ASSUME RadarInv, NEW s \in RadarStates, NEW r, r = [radar EXCEPT !.state = s]
  PROVE  /\ r \in RadarType /\ r.origins \subseteq granted.ever
         /\ r.seen = radar.seen /\ r.unreadable = radar.unreadable
  BY DEF RadarInv, RadarTypeOK, SitesWereGranted, RadarType

(* Only the job of the evaluation moves.                                       *)
LEMMA JobEnds ==
  ASSUME RadarTypeOK, NEW j \in Jobs, Ends(j)
  PROVE  /\ job' \in [Jobs -> JobType]
         /\ \A k \in Jobs : PastCheck(k)' => PastCheck(k) /\ job'[k].page = job[k].page
  <1>1. job' \in [Jobs -> JobType] /\ \A k \in Jobs : job'[k] = IF k = j THEN IdleJob ELSE job[k]
    BY DEF RadarTypeOK, Ends, JobType
  <1>2. ASSUME NEW k \in Jobs, PastCheck(k)' PROVE PastCheck(k) /\ job'[k].page = job[k].page
    BY <1>1, <1>2 DEF PastCheck, IdleJob
  <1> QED BY <1>1, <1>2

LEMMA JobsStay ==
  ASSUME RadarTypeOK, job' = job
  PROVE  /\ job' \in [Jobs -> JobType]
         /\ \A k \in Jobs : PastCheck(k)' => PastCheck(k) /\ job'[k].page = job[k].page
  BY DEF RadarTypeOK, PastCheck

LEMMA EnqueuedFacts ==
  ASSUME RadarInv, NEW p \in Pages, NEW r, r = Enqueued(radar, p)
  PROVE  /\ r \in RadarType /\ r.origins \subseteq granted.ever
         /\ r.seen = radar.seen /\ r.unreadable = radar.unreadable
  <1>1. PICK q : q = [radar.queue EXCEPT ![p] = IF @ < MaxQueueRetry THEN @ + 1 ELSE @]
    OBVIOUS
  <1>2. radar \in RadarType /\ radar.queue \in [Pages -> Nat]
    BY DEF RadarInv, RadarTypeOK, RadarType
  <1>3. q \in [Pages -> Nat]
    BY <1>1, <1>2
  <1>4. r = [radar EXCEPT !.queue = q]
    BY <1>1, <1>2 DEF Enqueued, RadarType
  <1> QED BY <1>2, <1>3, <1>4 DEF RadarInv, SitesWereGranted, RadarType

LEMMA EvaluationKeeps ==
  ASSUME RadarInv, NEW j \in Jobs, PageFails(j) \/ GoalsAnswer(j) \/ SendAnswers(j)
  PROVE  RadarInv'
  <1>0. RadarTypeOK /\ job[j] \in JobType /\ captured \subseteq granted.ever \ Sensitive
    BY DEF RadarInv, RadarTypeOK, SitesWereGranted, CapturedWasGranted
  <1>9. job[j].at \in {"capturing", "matching", "submitting"} => job[j].page \in Pages
    BY <1>0 DEF JobType, IdleJob
  <1>1. ASSUME PageFails(j) PROVE RadarInv'
    <2>1. /\ job[j].page \in Pages /\ Ends(j)
          /\ UNCHANGED <<loading, timer, manual, granted, captured>>
      BY <1>1, <1>9 DEF PageFails
    <2>2. PICK q : q = Enqueued(radar, job[j].page)
      OBVIOUS
    <2>3. /\ q \in RadarType /\ q.origins \subseteq granted.ever
          /\ q.seen = radar.seen /\ q.unreadable = radar.unreadable
      BY <2>1, <2>2, EnqueuedFacts
    <2>4. PICK r : r = [q EXCEPT !.state = "failed"]
      OBVIOUS
    <2>5. /\ r \in RadarType /\ r.origins \subseteq granted.ever
          /\ r.seen = radar.seen /\ r.unreadable = radar.unreadable
      BY <2>3, <2>4 DEF RadarType, RadarStates
    <2>6. PICK s : s = [radar EXCEPT !.state = "failed"]
      OBVIOUS
    <2>7. /\ s \in RadarType /\ s.origins \subseteq granted.ever
          /\ s.seen = radar.seen /\ s.unreadable = radar.unreadable
      BY <2>6, StateSet DEF RadarStates
    <2>8. SetRadar(r) \/ SetRadar(s)
      BY <1>1, <2>2, <2>4, <2>6 DEF PageFails, SetState
    <2>9. /\ job' \in [Jobs -> JobType]
          /\ \A k \in Jobs : PastCheck(k)' => PastCheck(k) /\ job'[k].page = job[k].page
      BY <1>0, <2>1, JobEnds
    <2>10. timer' \subseteq Pages /\ manual' \subseteq manual /\ captured' \subseteq granted.ever \ Sensitive
      BY <1>0, <2>1 DEF RadarTypeOK
    <2> QED BY <2>1, <2>5, <2>7, <2>8, <2>9, <2>10, RadarSaves
  <1>2. ASSUME GoalsAnswer(j) PROVE RadarInv'
    <2>1. job[j].at = "matching" /\ UNCHANGED <<loading, timer, manual, granted, captured>>
      BY <1>2 DEF GoalsAnswer
    <2>2. \/ SetState(radar, "submitting") /\ job' = [job EXCEPT ![j].at = "submitting"]
          \/ SetState(radar, "irrelevant") /\ Ends(j)
      BY <1>2 DEF GoalsAnswer
    <2>3. PICK s \in {"submitting", "irrelevant"} :
            /\ SetState(radar, s)
            /\ Ends(j) \/ job' = [job EXCEPT ![j].at = "submitting"]
      BY <2>2
    <2>4. PICK r : r = [radar EXCEPT !.state = s]
      OBVIOUS
    <2>5. /\ r \in RadarType /\ r.origins \subseteq granted.ever
          /\ r.seen = radar.seen /\ r.unreadable = radar.unreadable
      BY <2>4, StateSet DEF RadarStates
    <2>6. SetRadar(r)
      BY <2>3, <2>4 DEF SetState
    <2>7. /\ job' \in [Jobs -> JobType]
          /\ \A k \in Jobs : PastCheck(k)' => PastCheck(k) /\ job'[k].page = job[k].page
      <3>1. CASE Ends(j)
        BY <1>0, <3>1, JobEnds
      <3>2. CASE job' = [job EXCEPT ![j].at = "submitting"]
        <4>1. PICK n : n = [job[j] EXCEPT !.at = "submitting"]
          OBVIOUS
        <4>2. n \in JobType /\ n.page = job[j].page /\ job[j].at = "matching"
          BY <1>0, <2>1, <4>1 DEF JobType, IdleJob
        <4>3. \A k \in Jobs : job'[k] = IF k = j THEN n ELSE job[k]
          BY <1>0, <3>2, <4>1 DEF RadarTypeOK
        <4>4. job' \in [Jobs -> JobType]
          BY <1>0, <3>2, <4>1, <4>2 DEF RadarTypeOK
        <4> QED BY <4>2, <4>3, <4>4 DEF PastCheck
      <3> QED BY <2>3, <3>1, <3>2
    <2>8. timer' \subseteq Pages /\ manual' \subseteq manual /\ captured' \subseteq granted.ever \ Sensitive
      BY <1>0, <2>1 DEF RadarTypeOK
    <2> QED BY <2>1, <2>5, <2>6, <2>7, <2>8, RadarSaves
  <1>3. ASSUME SendAnswers(j) PROVE RadarInv'
    <2>1. job[j].at = "submitting" /\ job[j].page \in Pages /\ Ends(j) /\ UNCHANGED <<loading, timer, manual, granted>>
      BY <1>3, <1>9 DEF SendAnswers
    <2>2. PICK sent \in Sent(job[j].page, radar.token) :
            /\ captured' = captured \cup sent.stored
            /\ SetState(IF sent.ok THEN radar ELSE Enqueued(radar, job[j].page),
                        IF sent.ok THEN "captured" ELSE "rejected")
      BY <1>3 DEF SendAnswers
    <2>3. captured' \subseteq granted.ever \ Sensitive
      <3>1. job[j].page \in granted.ever \ Sensitive
        BY <2>1 DEF RadarInv, SitesWereGranted, PastCheck
      <3>2. sent.stored \subseteq {job[j].page}
        BY <2>2 DEF Sent
      <3> QED BY <1>0, <2>2, <3>1, <3>2
    <2>4. PICK q : q = IF sent.ok THEN radar ELSE Enqueued(radar, job[j].page)
      OBVIOUS
    <2>5. /\ q \in RadarType /\ q.origins \subseteq granted.ever
          /\ q.seen = radar.seen /\ q.unreadable = radar.unreadable
      <3>1. PICK e : e = Enqueued(radar, job[j].page)
        OBVIOUS
      <3>2. /\ e \in RadarType /\ e.origins \subseteq granted.ever
            /\ e.seen = radar.seen /\ e.unreadable = radar.unreadable
        BY <2>1, <3>1, EnqueuedFacts
      <3> QED BY <2>4, <3>1, <3>2 DEF RadarInv, RadarTypeOK, SitesWereGranted
    <2>6. PICK s : s = IF sent.ok THEN "captured" ELSE "rejected"
      OBVIOUS
    <2>7. PICK r : r = [q EXCEPT !.state = s]
      OBVIOUS
    <2>8. /\ r \in RadarType /\ r.origins \subseteq granted.ever
          /\ r.seen = radar.seen /\ r.unreadable = radar.unreadable
      <3>1. s \in RadarStates
        BY <2>6 DEF RadarStates
      <3> QED BY <2>5, <2>7, <3>1 DEF RadarType
    <2>9. SetRadar(r)
      BY <2>2, <2>4, <2>6, <2>7 DEF SetState
    <2>10. /\ job' \in [Jobs -> JobType]
           /\ \A k \in Jobs : PastCheck(k)' => PastCheck(k) /\ job'[k].page = job[k].page
      BY <1>0, <2>1, JobEnds
    <2>11. timer' \subseteq Pages /\ manual' \subseteq manual
      BY <1>0, <2>1 DEF RadarTypeOK
    <2> QED BY <2>1, <2>3, <2>8, <2>9, <2>10, <2>11, RadarSaves
  <1> QED BY <1>1, <1>2, <1>3

(* The page answers: it goes past the check only if it is not in the history,  *)
(* and enters the history in the same step.                                    *)
LEMMA PageAnswersKeeps ==
  ASSUME RadarInv, NEW j \in Jobs, PageAnswers(j)
  PROVE  RadarInv'
  <1>0. RadarTypeOK /\ job[j] \in JobType /\ captured \subseteq granted.ever \ Sensitive
    BY DEF RadarInv, RadarTypeOK, SitesWereGranted, CapturedWasGranted
  <1>1. PICK p : p = job[j].page
    OBVIOUS
  <1>2. p \in Pages /\ job[j].at = "capturing" /\ UNCHANGED <<loading, timer, manual, granted, captured>>
    BY <1>0, <1>1 DEF PageAnswers, JobType, IdleJob
  <1>3. ASSUME NEW s \in {"blocked", "duplicate"}, SetState(radar, s), Ends(j) PROVE RadarInv'
    <2>1. PICK r : r = [radar EXCEPT !.state = s]
      OBVIOUS
    <2>2. /\ r \in RadarType /\ r.origins \subseteq granted.ever
          /\ r.seen = radar.seen /\ r.unreadable = radar.unreadable
      BY <2>1, StateSet DEF RadarStates
    <2>3. SetRadar(r)
      BY <1>3, <2>1 DEF SetState
    <2>4. /\ job' \in [Jobs -> JobType]
          /\ \A k \in Jobs : PastCheck(k)' => PastCheck(k) /\ job'[k].page = job[k].page
      BY <1>0, <1>3, JobEnds
    <2>5. timer' \subseteq Pages /\ manual' \subseteq manual /\ captured' \subseteq granted.ever \ Sensitive
      BY <1>0, <1>2 DEF RadarTypeOK
    <2> QED BY <1>2, <2>2, <2>3, <2>4, <2>5, RadarSaves
  <1>4. ASSUME p \in radar.origins, p \notin Sensitive, p \notin radar.seen,
               radar' = [radar EXCEPT !.seen = IF radar.unreadable THEN radar.seen ELSE radar.seen \cup {p}],
               job' = [job EXCEPT ![j].at = "matching"], UNCHANGED store
        PROVE  RadarInv'
    <2>1. PICK seen : seen = IF radar.unreadable THEN radar.seen ELSE radar.seen \cup {p}
      OBVIOUS
    <2>2. /\ radar' \in RadarType /\ radar'.seen = seen /\ radar'.origins = radar.origins
          /\ radar'.unreadable = radar.unreadable
      <3>1. radar \in RadarType /\ seen \in SUBSET Pages
        BY <1>0, <1>2, <2>1 DEF RadarTypeOK, RadarType
      <3>2. radar' = [radar EXCEPT !.seen = seen]
        BY <1>4, <2>1
      <3> QED BY <3>1, <3>2 DEF RadarType
    <2>3. PICK n : n = [job[j] EXCEPT !.at = "matching"]
      OBVIOUS
    <2>4. n \in JobType /\ n.page = p /\ n.at = "matching"
      BY <1>0, <1>1, <1>2, <2>3 DEF JobType, IdleJob
    <2>5. job' \in [Jobs -> JobType] /\ \A k \in Jobs : job'[k] = IF k = j THEN n ELSE job[k]
      BY <1>0, <1>4, <2>3, <2>4 DEF RadarTypeOK
    <2>6. RadarTypeOK'
      BY <1>0, <1>2, <1>4, <2>2, <2>5 DEF RadarTypeOK
    <2>7. SitesWereGranted'
      <3>1. \A k \in Jobs : PastCheck(k)' => job'[k].page \in granted.ever \ Sensitive
        BY <1>4, <2>4, <2>5 DEF RadarInv, SitesWereGranted, PastCheck
      <3> QED BY <1>2, <1>4, <2>2, <3>1 DEF RadarInv, SitesWereGranted, CapturedWasGranted
    <2>8. ChecksAreRemembered'
      <3>1. \A k \in Jobs : PastCheck(k)' => job'[k].page \in radar'.seen \/ radar'.unreadable
        BY <2>1, <2>2, <2>4, <2>5 DEF RadarInv, ChecksAreRemembered, PastCheck
      <3>2. ASSUME NEW i \in Jobs, NEW k \in Jobs, i # k, PastCheck(i)', PastCheck(k)',
                   job'[i].page = job'[k].page
            PROVE  radar.unreadable
        <4>1. \A q \in Jobs : q # j /\ PastCheck(q)' => PastCheck(q) /\ job'[q] = job[q]
          BY <2>5 DEF PastCheck
        <4>2. CASE i # j /\ k # j
          BY <3>2, <4>1, <4>2 DEF RadarInv, ChecksAreRemembered, OverlapIsDeduplicated, PastCheck
        <4>3. ASSUME NEW q \in Jobs, q # j, PastCheck(q)', job'[q].page = p PROVE radar.unreadable
          BY <1>4, <4>1, <4>3 DEF RadarInv, ChecksAreRemembered
        <4> QED BY <2>4, <2>5, <3>2, <4>2, <4>3
      <3>3. OverlapIsDeduplicated'
        BY <2>2, <3>2 DEF OverlapIsDeduplicated, PastCheck
      <3> QED BY <1>2, <2>2, <3>1, <3>3 DEF RadarInv, ChecksAreRemembered
    <2> QED BY <2>6, <2>7, <2>8 DEF RadarInv
  <1>5. \/ SetState(radar, "blocked") /\ Ends(j)
        \/ SetState(radar, "duplicate") /\ Ends(j)
        \/ /\ p \in radar.origins /\ p \notin Sensitive /\ p \notin radar.seen
           /\ radar' = [radar EXCEPT !.seen = IF radar.unreadable THEN radar.seen ELSE radar.seen \cup {p}]
           /\ job' = [job EXCEPT ![j].at = "matching"] /\ UNCHANGED store
    BY <1>1 DEF PageAnswers, UrlAllowed, Allowed, IsDuplicate
  <1> QED BY <1>3, <1>4, <1>5

(* Steps that leave the radar's memory and its evaluations alone: the popup,   *)
(* the older path, and lists of sites only from what was authorized.           *)
LEMMA StoreEdited ==
  ASSUME RadarInv, UNCHANGED <<radar, loading, job>>, timer' \subseteq Pages,
         store' \in StoreType, manual' \subseteq CaptureType,
         granted' \in [now : SUBSET Pages, ever : SUBSET Pages],
         granted.ever \subseteq granted'.ever, granted'.now \subseteq granted'.ever,
         store'.origins \subseteq granted'.ever, \A m \in manual' : m.origins \subseteq granted'.ever,
         captured' \subseteq granted'.ever \ Sensitive
  PROVE  RadarInv'
  <1>1. RadarTypeOK'
    BY DEF RadarInv, RadarTypeOK
  <1>2. SitesWereGranted'
    BY DEF RadarInv, SitesWereGranted, PastCheck, CapturedWasGranted
  <1>3. ChecksAreRemembered'
    BY DEF RadarInv, ChecksAreRemembered, PastCheck, OverlapIsDeduplicated
  <1> QED BY <1>1, <1>2, <1>3 DEF RadarInv

LEMMA StoredFacts ==
  ASSUME RadarInv
  PROVE  /\ RadarTypeOK /\ store \in StoreType /\ store.origins \subseteq granted.ever
         /\ store.origins \subseteq Pages /\ store.last \subseteq Pages
         /\ granted.now \subseteq granted.ever /\ granted.ever \subseteq Pages
         /\ captured \subseteq granted.ever \ Sensitive /\ manual \subseteq CaptureType
         /\ \A m \in manual : m.origins \subseteq granted.ever
         /\ timer \subseteq Pages
         /\ granted \in [now : SUBSET Pages, ever : SUBSET Pages]
  BY DEF RadarInv, RadarTypeOK, SitesWereGranted, CapturedWasGranted, StoreType

LEMMA ManualCaptureKeeps ==
  ASSUME RadarInv, ManualCapture
  PROVE  RadarInv'
  <1>1. PICK m \in manual :
          /\ manual' = {} /\ UNCHANGED <<radar, loading, timer, job, granted>>
          /\ \/ /\ Allowed(m.page, m.origins, m.last)
                /\ \E sent \in Sent(m.page, TRUE) :
                      /\ captured' = captured \cup sent.stored
                      /\ \/ \E last \in Remembered(m.last, m.page) : store' = [store EXCEPT !.last = last]
                         \/ UNCHANGED store
             \/ UNCHANGED <<captured, store>>
    BY DEF ManualCapture
  <1>2. m \in CaptureType /\ m.origins \subseteq granted.ever
    BY <1>1, StoredFacts
  <1>3. captured' \subseteq granted.ever \ Sensitive
    <2>1. CASE UNCHANGED captured
      BY <2>1, StoredFacts
    <2>2. ASSUME Allowed(m.page, m.origins, m.last), NEW sent \in Sent(m.page, TRUE),
                 captured' = captured \cup sent.stored
          PROVE  captured' \subseteq granted.ever \ Sensitive
      <3>1. m.page \in granted.ever \ Sensitive
        BY <1>2, <2>2 DEF Allowed
      <3>2. sent.stored \subseteq {m.page}
        BY <2>2 DEF Sent
      <3> QED BY <2>2, <3>1, <3>2, StoredFacts
    <2> QED BY <1>1, <2>1, <2>2
  <1>4. store' \in StoreType /\ store'.origins = store.origins
    <2>1. ASSUME NEW last \in Remembered(m.last, m.page), store' = [store EXCEPT !.last = last]
          PROVE  store' \in StoreType /\ store'.origins = store.origins
      <3>1. last \subseteq Pages
        BY <1>2, <2>1 DEF Remembered, CaptureType
      <3> QED BY <2>1, <3>1, StoredFacts DEF StoreType
    <2> QED BY <1>1, <2>1, StoredFacts
  <1> QED BY <1>1, <1>3, <1>4, StoredFacts, StoreEdited

LEMMA ToggleSiteKeeps ==
  ASSUME RadarInv, NEW p \in Pages, ToggleSite(p)
  PROVE  RadarInv'
  <1>1. PICK on : on = (store.radarEnabled /\ p \in store.origins)
    OBVIOUS
  <1>2. PICK list : list = IF on THEN store.origins \ {p} ELSE store.origins \cup {p}
    OBVIOUS
  <1>3. PICK some \in BOOLEAN : some = (list # {})
    OBVIOUS
  <1>4. /\ store' = [store EXCEPT !.origins = list, !.radarEnabled = some]
        /\ granted' = IF on THEN [granted EXCEPT !.now = @ \ {p}]
                      ELSE [now |-> granted.now \cup {p}, ever |-> granted.ever \cup {p}]
        /\ UNCHANGED <<radar, loading, timer, job, manual, captured>>
    BY <1>1, <1>2, <1>3 DEF ToggleSite
  <1>5. list \subseteq Pages /\ store' \in StoreType /\ store'.origins = list
    <2>1. list \in SUBSET Pages
      BY <1>2, StoredFacts
    <2> QED BY <1>3, <1>4, <2>1, StoredFacts DEF StoreType
  <1>6. /\ granted' \in [now : SUBSET Pages, ever : SUBSET Pages]
        /\ granted.ever \subseteq granted'.ever /\ granted'.now \subseteq granted'.ever
        /\ list \subseteq granted'.ever
    <2>1. CASE on
      <3>1. PICK now : now = granted.now \ {p}
        OBVIOUS
      <3>2. granted' = [granted EXCEPT !.now = now]
        BY <1>4, <2>1, <3>1
      <3> QED BY <1>2, <2>1, <3>1, <3>2, StoredFacts
    <2>2. CASE ~on
      BY <1>2, <1>4, <2>2, StoredFacts
    <2> QED BY <2>1, <2>2
  <1> QED BY <1>4, <1>5, <1>6, StoredFacts, StoreEdited

LEMMA PairKeeps ==
  ASSUME RadarInv, Pair
  PROVE  RadarInv'
  <1>1. store' \in StoreType /\ store'.origins = store.origins
    BY StoredFacts DEF Pair, StoreType
  <1> QED BY <1>1, StoredFacts, StoreEdited DEF Pair

LEMMA PageReadyKeeps ==
  ASSUME RadarInv, NEW p \in Pages, NEW sender, PageReady(p, sender)
  PROVE  RadarInv'
  <1>1. UNCHANGED <<loading, job, granted, captured>>
    BY DEF PageReady
  <1>2. CASE SetState(radar, "observing") /\ timer' = {p} /\ UNCHANGED manual
    <2>1. PICK r : r = [radar EXCEPT !.state = "observing"]
      OBVIOUS
    <2>2. /\ r \in RadarType /\ r.origins \subseteq granted.ever
          /\ r.seen = radar.seen /\ r.unreadable = radar.unreadable
      BY <2>1, StateSet DEF RadarStates
    <2>3. SetRadar(r)
      BY <1>2, <2>1 DEF SetState
    <2>4. /\ job' \in [Jobs -> JobType]
          /\ \A k \in Jobs : PastCheck(k)' => PastCheck(k) /\ job'[k].page = job[k].page
      BY <1>1, StoredFacts, JobsStay
    <2>5. timer' \subseteq Pages /\ manual' \subseteq manual /\ captured' \subseteq granted.ever \ Sensitive
      BY <1>1, <1>2, StoredFacts
    <2> QED BY <1>1, <2>2, <2>3, <2>4, <2>5, RadarSaves
  <1>3. CASE /\ manual' = {[page |-> p, origins |-> store.origins, last |-> store.last]}
             /\ UNCHANGED <<radar, store, timer>>
    <2>1. PICK m : m = [page |-> p, origins |-> store.origins, last |-> store.last]
      OBVIOUS
    <2>2. m \in CaptureType /\ m.origins = store.origins
      BY <2>1, StoredFacts DEF CaptureType
    <2>3. manual' \subseteq CaptureType /\ \A x \in manual' : x.origins \subseteq granted.ever
      BY <1>3, <2>1, <2>2, StoredFacts
    <2> QED BY <1>1, <1>3, <2>3, StoredFacts, StoreEdited
  <1> QED BY <1>2, <1>3 DEF PageReady

LEMMA DebounceKeeps ==
  ASSUME RadarInv, NEW j \in Jobs, NEW p \in Pages, DebounceElapses(j, p)
  PROVE  RadarInv'
  <1>1. /\ timer' = {} /\ SetState(radar, "evaluating")
        /\ job' = [job EXCEPT ![j] = [at |-> "capturing", page |-> p]]
        /\ UNCHANGED <<loading, manual, granted, captured>>
    BY DEF DebounceElapses
  <1>2. PICK r : r = [radar EXCEPT !.state = "evaluating"]
    OBVIOUS
  <1>3. /\ r \in RadarType /\ r.origins \subseteq granted.ever
        /\ r.seen = radar.seen /\ r.unreadable = radar.unreadable
    BY <1>2, StateSet DEF RadarStates
  <1>4. SetRadar(r)
    BY <1>1, <1>2 DEF SetState
  <1>5. PICK n : n = [at |-> "capturing", page |-> p]
    OBVIOUS
  <1>6. n \in JobType /\ n.at = "capturing"
    BY <1>5 DEF JobType
  <1>7. job' \in [Jobs -> JobType] /\ \A k \in Jobs : job'[k] = IF k = j THEN n ELSE job[k]
    BY <1>1, <1>5, <1>6, StoredFacts DEF RadarTypeOK
  <1>8. \A k \in Jobs : PastCheck(k)' => PastCheck(k) /\ job'[k].page = job[k].page
    BY <1>6, <1>7 DEF PastCheck
  <1>9. timer' \subseteq Pages /\ manual' \subseteq manual /\ captured' \subseteq granted.ever \ Sensitive
    BY <1>1, StoredFacts
  <1> QED BY <1>1, <1>3, <1>4, <1>7, <1>8, <1>9, RadarSaves

LEMMA CommandsKeep ==
  ASSUME RadarInv, NEW sender,
         BackToObserving \/ ProcessQueue \/ Toggle(sender) \/ Configure(sender)
  PROVE  RadarInv'
  <1>0. UNCHANGED <<loading, timer, job, manual, granted, captured>>
    BY DEF BackToObserving, ProcessQueue, Toggle, Configure
  <1>1. radar \in RadarType /\ radar.origins \subseteq granted.ever
    BY DEF RadarInv, RadarTypeOK, SitesWereGranted
  <1>2. SUFFICES \E r \in RadarType : /\ SetRadar(r) /\ r.origins \subseteq granted.ever
                                      /\ r.seen = radar.seen /\ r.unreadable = radar.unreadable
    <2>1. /\ job' \in [Jobs -> JobType]
          /\ \A k \in Jobs : PastCheck(k)' => PastCheck(k) /\ job'[k].page = job[k].page
      BY <1>0, StoredFacts, JobsStay
    <2>2. timer' \subseteq Pages /\ manual' \subseteq manual /\ captured' \subseteq granted.ever \ Sensitive
      BY <1>0, StoredFacts
    <2> QED BY <1>0, <2>1, <2>2, RadarSaves
  <1>3. ASSUME NEW s \in RadarStates, SetState(radar, s)
        PROVE  \E r \in RadarType : /\ SetRadar(r) /\ r.origins \subseteq granted.ever
                                    /\ r.seen = radar.seen /\ r.unreadable = radar.unreadable
    BY <1>3, StateSet DEF SetState
  <1>4. CASE BackToObserving
    BY <1>3, <1>4 DEF BackToObserving, RadarStates
  <1>5. CASE ProcessQueue
    <2>1. PICK old \in SUBSET Pages :
            SetRadar([radar EXCEPT !.queue = [p \in Pages |-> IF p \in old THEN 0 ELSE @[p]]])
      BY <1>5 DEF ProcessQueue
    <2>2. PICK q : q = [p \in Pages |-> IF p \in old THEN 0 ELSE radar.queue[p]]
      OBVIOUS
    <2>3. PICK r : r = [radar EXCEPT !.queue = q]
      OBVIOUS
    <2>4. q \in [Pages -> Nat]
      BY <1>1, <2>2 DEF RadarType
    <2>5. /\ r \in RadarType /\ r.origins = radar.origins
          /\ r.seen = radar.seen /\ r.unreadable = radar.unreadable
      BY <1>1, <2>3, <2>4 DEF RadarType
    <2>6. SetRadar(r)
      BY <2>1, <2>2, <2>3
    <2> QED BY <1>1, <2>5, <2>6
  <1>6. CASE Toggle(sender)
    <2>1. PICK b \in BOOLEAN : b = ~radar.enabled
      OBVIOUS
    <2>2. PICK r : r = [radar EXCEPT !.enabled = b]
      OBVIOUS
    <2>3. /\ r \in RadarType /\ r.origins = radar.origins
          /\ r.seen = radar.seen /\ r.unreadable = radar.unreadable
      BY <1>1, <2>2 DEF RadarType
    <2>4. SetRadar(r)
      BY <1>6, <2>1, <2>2 DEF Toggle
    <2> QED BY <1>1, <2>3, <2>4
  <1>7. CASE Configure(sender)
    <2>1. PICK r : r = [radar EXCEPT !.origins = granted.now, !.token = TRUE]
      OBVIOUS
    <2>2. /\ r \in RadarType /\ r.origins = granted.now
          /\ r.seen = radar.seen /\ r.unreadable = radar.unreadable
      BY <1>1, <2>1, StoredFacts DEF RadarType
    <2>3. SetRadar(r) \/ \E s \in StateMessages : SetState(radar, s)
      BY <1>7, <2>1 DEF Configure
    <2> QED BY <1>3, <2>2, <2>3, StoredFacts DEF RadarStates
  <1> QED BY <1>4, <1>5, <1>6, <1>7

LEMMA WorkerKeeps ==
  ASSUME RadarInv, LoadState \/ RestartWorker
  PROVE  RadarInv'
  <1>1. CASE LoadState
    <2>1. PICK l : l = loading.read
      OBVIOUS
    <2>2. l \in StoreType /\ l.origins \subseteq granted.ever /\ ~radar.unreadable
      BY <1>1, <2>1 DEF RadarInv, RadarTypeOK, SitesWereGranted, ChecksAreRemembered, LoadState
    <2>3. /\ radar' \in RadarType /\ radar'.origins = l.origins /\ radar'.seen = radar.seen
      BY <1>1, <2>1, <2>2, StoredFacts DEF LoadState, StoreType, RadarType, RadarTypeOK
    <2>4. /\ loading' \in [pending : BOOLEAN, read : StoreType] /\ loading'.read = l /\ ~loading'.pending
          /\ UNCHANGED <<store, timer, job, manual, granted, captured>>
      BY <1>1, <2>1, StoredFacts DEF LoadState, RadarTypeOK
    <2>5. RadarTypeOK'
      BY <2>3, <2>4 DEF RadarInv, RadarTypeOK
    <2>6. SitesWereGranted'
      BY <2>2, <2>3, <2>4 DEF RadarInv, SitesWereGranted, PastCheck, CapturedWasGranted
    <2>7. ChecksAreRemembered'
      BY <2>2, <2>3, <2>4 DEF RadarInv, ChecksAreRemembered, PastCheck, OverlapIsDeduplicated
    <2> QED BY <2>5, <2>6, <2>7 DEF RadarInv
  <1>2. CASE RestartWorker
    <2>1. /\ radar' = Fresh /\ loading' = [pending |-> TRUE, read |-> store] /\ timer' = {} /\ manual' = {}
          /\ job' = [j \in Jobs |-> IdleJob] /\ UNCHANGED <<store, granted, captured>>
      BY <1>2 DEF RestartWorker
    <2>2. Fresh \in RadarType /\ Fresh.origins = {} /\ ~Fresh.unreadable
      BY DEF Fresh, RadarType, RadarStates
    <2>3. RadarTypeOK'
      BY <2>1, <2>2 DEF RadarInv, RadarTypeOK, JobType
    <2>4. \A j \in Jobs : ~PastCheck(j)'
      BY <2>1 DEF PastCheck, IdleJob
    <2>5. SitesWereGranted'
      BY <2>1, <2>2, <2>4 DEF RadarInv, SitesWereGranted, CapturedWasGranted
    <2>6. ChecksAreRemembered'
      <3>1. OverlapIsDeduplicated'
        BY <2>4 DEF OverlapIsDeduplicated, PastCheck
      <3> QED BY <2>1, <2>2, <2>4, <3>1 DEF ChecksAreRemembered
    <2> QED BY <2>3, <2>5, <2>6 DEF RadarInv
  <1> QED BY <1>1, <1>2

LEMMA RadarStarts ==
  ASSUME RadarInit
  PROVE  RadarInv
  <1>1. Fresh \in RadarType /\ Fresh.origins = {} /\ ~Fresh.unreadable /\ Fresh.queue \in [Pages -> Nat]
    BY DEF Fresh, RadarType, RadarStates
  <1>2. store \in StoreType /\ store.origins = {}
    BY <1>1 DEF RadarInit, StoreType, RadarStates
  <1>3. RadarTypeOK
    BY <1>1, <1>2 DEF RadarInit, RadarTypeOK, JobType
  <1>4. \A j \in Jobs : ~PastCheck(j)
    BY DEF RadarInit, PastCheck, IdleJob
  <1>5. SitesWereGranted
    BY <1>1, <1>2, <1>4 DEF RadarInit, SitesWereGranted, CapturedWasGranted
  <1>6. ChecksAreRemembered
    <2>1. OverlapIsDeduplicated
      BY <1>4 DEF OverlapIsDeduplicated, PastCheck
    <2> QED BY <1>1, <1>4, <2>1 DEF RadarInit, ChecksAreRemembered
  <1> QED BY <1>3, <1>5, <1>6 DEF RadarInv

LEMMA RadarStep ==
  ASSUME RadarInv, [RadarNext]_radarVars
  PROVE  RadarInv'
  <1>1. CASE UNCHANGED radarVars
    BY <1>1, StoredFacts, StoreEdited DEF radarVars
  <1> QED BY <1>1, WorkerKeeps, CommandsKeep, ManualCaptureKeeps, PairKeeps, PageReadyKeeps, ToggleSiteKeeps,
             DebounceKeeps, PageAnswersKeeps, EvaluationKeeps DEF RadarNext

(* However the popup, messages, alarms, evaluations and restarts of the        *)
(* service worker interleave, the Kernel receives pages of sites the user      *)
(* authorized and no sensitive ones, and two evaluations of one page pass the  *)
(* duplicate check together only with a history that cannot be compared with   *)
(* (auto-radar.js, auto-capture.js, popup.js).                                 *)
THEOREM CapturesStayWanted == RadarSpec => []CapturesAreWanted
  <1>1. RadarInit => RadarInv
    BY RadarStarts
  <1>2. RadarInv /\ [RadarNext]_radarVars => RadarInv'
    BY RadarStep
  <1>3. RadarInv => CapturesAreWanted
    BY DEF RadarInv, SitesWereGranted, ChecksAreRemembered, CapturesAreWanted
  <1> QED BY <1>1, <1>2, <1>3, PTL DEF RadarSpec

-----------------------------------------------------------------------------
(* The bridge to the dashboard. A port past the storage's answer holds the     *)
(* connection stored now, unless the event of a change is still on its way;    *)
(* that event stops every port. What is on the wire of a port is the rest of   *)
(* one answer: its headers, as many chunks as the page is behind the worker,   *)
(* and only then an end.                                                       *)

Connections == [auto : BOOLEAN, token : Nat]
PortType == [pc : {"none", "connected", "reading", "answered", "fetching", "relaying", "ended"},
             finished : BOOLEAN, seen : Connections, left : Nat, total : Nat]
ClientType == [pc : {"none", "waiting", "settled", "closed", "failed"}, got : Nat]
Messages == {"headers", "chunk", "done", "error", "disconnect"}

BridgeTypeOK ==
  /\ stored \in Connections /\ changes \in Nat
  /\ port \in [Ports -> PortType]
  /\ wire \in [Ports -> Seq(Messages)]
  /\ client \in [Ports -> ClientType]

Uses(r) == r.pc \in {"fetching", "relaying"}

ConnectionOK(r) ==
  /\ Uses(r) => ~r.finished /\ r.seen.auto
  /\ (Uses(r) \/ (r.pc = "answered" /\ ~r.finished)) /\ changes = 0 => r.seen = stored

(* The answer of a port that is still before its headers, or past them.        *)
Before(r, w, c) ==
  /\ c.pc = "waiting" /\ c.got = 0 /\ r.total = 0 /\ r.pc # "relaying"
  /\ \A i \in DOMAIN w : w[i] \in {"error", "disconnect"}

Ahead(c) == IF c.pc = "waiting" THEN 1 ELSE 0

Past(r, w, c) ==
  /\ r.pc \in {"relaying", "ended"} /\ c.got <= r.total
  /\ c.pc = "waiting" => c.got = 0 /\ Len(w) > 0 /\ w[1] = "headers"
  /\ Len(w) >= Ahead(c) + (r.total - c.got)
  /\ r.pc = "relaying" => Len(w) = Ahead(c) + (r.total - c.got)
  /\ \A i \in DOMAIN w :
       /\ i > Ahead(c) /\ i <= Ahead(c) + (r.total - c.got) => w[i] = "chunk"
       /\ i > Ahead(c) + (r.total - c.got) => w[i] \in {"done", "error", "disconnect"}
       /\ w[i] = "done" => r.pc = "ended" /\ r.left = 0

AnswerOK(r, w, c) ==
  /\ r.pc = "none" => c.pc = "none" /\ w = <<>> /\ ~r.finished
  /\ c.pc = "none" => r.pc = "none"
  /\ r.pc \in {"none", "connected", "reading", "answered", "fetching"} => r.total = 0
  /\ r.pc \in {"connected", "reading", "answered", "fetching"} /\ ~r.finished => w = <<>> /\ c.pc = "waiting"
  /\ r.pc = "relaying" => c.pc \in {"waiting", "settled"} /\ Past(r, w, c)
  /\ c.pc \in {"waiting", "settled"} => Before(r, w, c) \/ Past(r, w, c)
  /\ c.pc = "none" => c.got = 0
  /\ c.pc = "closed" => r.pc = "ended" /\ r.left = 0 /\ c.got = r.total

BridgeInv ==
  /\ BridgeTypeOK
  /\ \A p \in Ports : ConnectionOK(port[p]) /\ AnswerOK(port[p], wire[p], client[p])

-----------------------------------------------------------------------------
(* One port: a worker's side r, its wire w and the page's side c.              *)

LEMMA WireAppend ==
  ASSUME NEW w \in Seq(Messages), NEW m \in Messages, NEW v, v = Append(w, m)
  PROVE  /\ v \in Seq(Messages) /\ Len(w) \in Nat /\ Len(v) = Len(w) + 1
         /\ DOMAIN w = 1 .. Len(w) /\ DOMAIN v = 1 .. Len(w) + 1
         /\ \A i \in DOMAIN v : v[i] = IF i <= Len(w) THEN w[i] ELSE m
  <1>1. /\ Append(w, m) \in Seq(Messages) /\ Len(Append(w, m)) = Len(w) + 1
        /\ \A i \in 1 .. Len(w) : Append(w, m)[i] = w[i]
        /\ Append(w, m)[Len(w) + 1] = m
    BY AppendProperties
  <1>2. /\ v \in Seq(Messages) /\ Len(v) = Len(w) + 1 /\ Len(w) \in Nat
        /\ \A i \in 1 .. Len(w) : v[i] = w[i]
        /\ v[Len(w) + 1] = m
    BY <1>1
  <1>3. DOMAIN w = 1 .. Len(w) /\ DOMAIN v = 1 .. Len(w) + 1
    BY <1>2
  <1> QED BY <1>2, <1>3

LEMMA BeforeAppend ==
  ASSUME NEW r, NEW s, NEW w \in Seq(Messages), NEW c, Before(r, w, c), s.total = 0, s.pc # "relaying",
         NEW m \in {"error", "disconnect"}, NEW v, v = Append(w, m)
  PROVE  Before(s, v, c) /\ v \in Seq(Messages)
  <1>1. /\ v \in Seq(Messages) /\ Len(w) \in Nat /\ Len(v) = Len(w) + 1
        /\ DOMAIN w = 1 .. Len(w) /\ DOMAIN v = 1 .. Len(w) + 1
        /\ \A i \in DOMAIN v : v[i] = IF i <= Len(w) THEN w[i] ELSE m
    BY WireAppend DEF Messages
  <1> QED BY <1>1 DEF Before

(* The end of an answer comes after every chunk of it.                         *)
LEMMA PastEnds ==
  ASSUME NEW r \in PortType, NEW s \in PortType, NEW w \in Seq(Messages), NEW c \in ClientType, Past(r, w, c),
         s.total = r.total, s.left = r.left, s.pc = "ended",
         NEW m \in {"done", "error", "disconnect"}, m = "done" => s.left = 0, NEW v, v = Append(w, m)
  PROVE  Past(s, v, c) /\ v \in Seq(Messages)
  <1>1. /\ v \in Seq(Messages) /\ Len(w) \in Nat /\ Len(v) = Len(w) + 1
        /\ DOMAIN w = 1 .. Len(w) /\ DOMAIN v = 1 .. Len(w) + 1
        /\ \A i \in DOMAIN v : v[i] = IF i <= Len(w) THEN w[i] ELSE m
    BY WireAppend DEF Messages
  <1>2. PICK n : n = Ahead(c) + (r.total - c.got)
    OBVIOUS
  <1>3. n \in Nat /\ Len(w) >= n /\ Ahead(c) \in Nat /\ Ahead(c) + (s.total - c.got) = n
    BY <1>2 DEF Past, Ahead, PortType, ClientType
  <1>4. \A i \in DOMAIN w : /\ i > Ahead(c) /\ i <= n => w[i] = "chunk"
                            /\ i > n => w[i] \in {"done", "error", "disconnect"}
                            /\ w[i] = "done" => r.left = 0
    BY <1>2 DEF Past
  <1>5. \A i \in DOMAIN v : /\ i > Ahead(c) /\ i <= n => v[i] = "chunk"
                            /\ i > n => v[i] \in {"done", "error", "disconnect"}
                            /\ v[i] = "done" => s.pc = "ended" /\ s.left = 0
    BY <1>1, <1>3, <1>4
  <1>6. c.pc = "waiting" => c.got = 0 /\ Len(v) > 0 /\ v[1] = "headers"
    BY <1>1 DEF Past
  <1>7. c.got <= s.total /\ Len(v) >= n
    BY <1>1, <1>3 DEF Past
  <1> QED BY <1>1, <1>3, <1>5, <1>6, <1>7 DEF Past

(* A chunk is relayed: the page is one chunk further behind.                   *)
LEMMA PastGrows ==
  ASSUME NEW r \in PortType, NEW s \in PortType, NEW w \in Seq(Messages), NEW c \in ClientType, Past(r, w, c),
         r.pc = "relaying", s.pc = "relaying", s.total = r.total + 1, NEW v, v = Append(w, "chunk")
  PROVE  Past(s, v, c) /\ v \in Seq(Messages)
  <1>1. /\ v \in Seq(Messages) /\ Len(w) \in Nat /\ Len(v) = Len(w) + 1
        /\ DOMAIN w = 1 .. Len(w) /\ DOMAIN v = 1 .. Len(w) + 1
        /\ \A i \in DOMAIN v : v[i] = IF i <= Len(w) THEN w[i] ELSE "chunk"
    BY WireAppend DEF Messages
  <1>2. PICK n : n = Ahead(c) + (r.total - c.got)
    OBVIOUS
  <1>3. /\ n \in Nat /\ Len(w) = n /\ Ahead(c) \in Nat /\ Ahead(c) + (s.total - c.got) = n + 1
        /\ c.got <= s.total
    BY <1>2 DEF Past, Ahead, PortType, ClientType
  <1>4. \A i \in DOMAIN w : /\ i > Ahead(c) /\ i <= n => w[i] = "chunk"
                            /\ w[i] # "done"
    BY <1>2 DEF Past
  <1>5. \A i \in DOMAIN v : /\ i > Ahead(c) /\ i <= n + 1 => v[i] = "chunk"
                            /\ ~(i > n + 1) /\ v[i] # "done"
    BY <1>1, <1>3, <1>4
  <1>6. c.pc = "waiting" => c.got = 0 /\ Len(v) > 0 /\ v[1] = "headers"
    BY <1>1 DEF Past
  <1> QED BY <1>1, <1>3, <1>5, <1>6 DEF Past

LEMMA StopFacts ==
  ASSUME NEW r \in PortType, NEW s, s = Stop(r)
  PROVE  /\ s \in PortType /\ s.finished /\ s.seen = r.seen /\ s.left = r.left /\ s.total = r.total
         /\ s.pc = IF r.pc \in {"fetching", "relaying"} THEN "ended" ELSE r.pc
  <1>1. PICK pc : pc = IF r.pc \in {"fetching", "relaying"} THEN "ended" ELSE r.pc
    OBVIOUS
  <1>2. pc \in {"none", "connected", "reading", "answered", "fetching", "relaying", "ended"}
    BY <1>1 DEF PortType
  <1>3. s = [r EXCEPT !.finished = TRUE, !.pc = pc]
    BY <1>1 DEF Stop
  <1> QED BY <1>1, <1>2, <1>3 DEF PortType

(* The worker stops a port.                                                    *)
LEMMA StopKeeps ==
  ASSUME NEW r \in PortType, NEW w \in Seq(Messages), NEW c \in ClientType, AnswerOK(r, w, c),
         r.pc # "none", ~r.finished, NEW s, s = Stop(r), NEW v, v = Append(w, "disconnect")
  PROVE  /\ s \in PortType /\ v \in Seq(Messages) /\ ~Uses(s) /\ s.finished /\ AnswerOK(s, v, c)
  <1>1. /\ s \in PortType /\ s.finished /\ s.left = r.left /\ s.total = r.total
        /\ s.pc = IF r.pc \in {"fetching", "relaying"} THEN "ended" ELSE r.pc
    BY StopFacts
  <1>2. ~Uses(s) /\ s.pc # "relaying" /\ s.pc # "none" /\ c.pc # "none"
    BY <1>1 DEF Uses, AnswerOK
  <1>3. v \in Seq(Messages)
    BY WireAppend DEF Messages
  <1>4. ASSUME c.pc \in {"waiting", "settled"} PROVE Before(s, v, c) \/ Past(s, v, c)
    <2>1. CASE Before(r, w, c)
      <3>1. s.total = 0
        BY <1>1, <2>1 DEF Before
      <3> QED BY <1>2, <2>1, <3>1, BeforeAppend
    <2>2. CASE Past(r, w, c)
      <3>1. s.pc = "ended"
        BY <1>1, <2>2 DEF Past
      <3> QED BY <1>1, <2>2, <3>1, PastEnds
    <2> QED BY <1>4, <2>1, <2>2 DEF AnswerOK
  <1>5. s.pc \in {"none", "connected", "reading", "answered", "fetching"} => s.total = 0
    BY <1>1 DEF AnswerOK
  <1>6. c.pc = "closed" => s.pc = "ended" /\ s.left = 0 /\ c.got = s.total
    BY <1>1 DEF AnswerOK
  <1> QED BY <1>1, <1>2, <1>3, <1>4, <1>5, <1>6 DEF AnswerOK

(* The page leaves a port: what was on its wire is dropped.                    *)
LEMMA LeaveKeeps ==
  ASSUME NEW r \in PortType, NEW w \in Seq(Messages), NEW c \in ClientType, AnswerOK(r, w, c),
         c.pc \in {"waiting", "settled"}, Uses(r) => ~r.finished, NEW d \in ClientType,
         d.pc = "failed" \/ (d.pc = "closed" /\ r.pc = "ended" /\ r.left = 0 /\ d.got = r.total),
         NEW s, s = IF r.pc # "none" /\ ~r.finished THEN Stop(r) ELSE r
  PROVE  s \in PortType /\ (Uses(s) => s = r) /\ (s # r => ~Uses(s) /\ s.finished) /\ AnswerOK(s, <<>>, d)
  <1>1. r.pc # "none"
    BY DEF AnswerOK
  <1>2. CASE r.finished
    <2>1. s = r
      BY <1>2
    <2> QED BY <1>1, <1>2, <2>1 DEF AnswerOK, Uses
  <1>3. CASE ~r.finished
    <2>1. /\ s \in PortType /\ s.finished /\ s.left = r.left /\ s.total = r.total
          /\ s.pc = IF r.pc \in {"fetching", "relaying"} THEN "ended" ELSE r.pc
      BY <1>1, <1>3, StopFacts
    <2> QED BY <1>1, <2>1 DEF AnswerOK, Uses
  <1> QED BY <1>2, <1>3

(* The page takes the next message of an answer.                               *)
LEMMA ReceivedFacts ==
  ASSUME NEW r \in PortType, NEW w \in Seq(Messages), NEW c \in ClientType, AnswerOK(r, w, c),
         c.pc \in {"waiting", "settled"}, w # <<>>, NEW d, d = Received(c, Head(w))
  PROVE  /\ d \in ClientType
         /\ \/ d.pc = "failed"
            \/ d.pc = "closed" /\ r.pc = "ended" /\ r.left = 0 /\ d.got = r.total
            \/ d.pc = "settled" /\ AnswerOK(r, Tail(w), d)
  <1>1. PICK v : v = Tail(w)
    OBVIOUS
  <1>2. /\ v \in Seq(Messages) /\ Len(w) \in Nat /\ Len(w) > 0 /\ Len(v) = Len(w) - 1 /\ Head(w) = w[1]
        /\ \A i \in 1 .. Len(v) : v[i] = w[i + 1]
    BY <1>1, HeadTailProperties, EmptySeq
  <1>3. DOMAIN w = 1 .. Len(w) /\ DOMAIN v = 1 .. Len(v) /\ 1 \in DOMAIN w /\ \A i \in DOMAIN v : i + 1 \in DOMAIN w
    BY <1>2
  <1>4. CASE w[1] = "headers" /\ c.pc = "waiting"
    <2>1. d = [c EXCEPT !.pc = "settled"]
      BY <1>2, <1>4 DEF Received
    <2>2. d \in ClientType /\ d.pc = "settled" /\ d.got = c.got
      BY <2>1 DEF ClientType
    <2>3. Past(r, w, c)
      BY <1>3, <1>4 DEF AnswerOK, Before
    <2>4. c.got = 0 /\ Ahead(c) = 1 /\ Ahead(d) = 0 /\ r.total \in Nat /\ r.pc \in {"relaying", "ended"}
      BY <1>4, <2>2, <2>3 DEF Past, Ahead, PortType
    <2>5. /\ Len(w) >= 1 + r.total /\ (r.pc = "relaying" => Len(w) = 1 + r.total)
          /\ \A i \in DOMAIN w : /\ i > 1 /\ i <= 1 + r.total => w[i] = "chunk"
                                 /\ i > 1 + r.total => w[i] \in {"done", "error", "disconnect"}
                                 /\ w[i] = "done" => r.pc = "ended" /\ r.left = 0
      BY <2>3, <2>4 DEF Past
    <2>6. /\ Len(v) >= r.total /\ (r.pc = "relaying" => Len(v) = r.total)
          /\ \A i \in DOMAIN v : /\ i > 0 /\ i <= r.total => v[i] = "chunk"
                                 /\ i > r.total => v[i] \in {"done", "error", "disconnect"}
                                 /\ v[i] = "done" => r.pc = "ended" /\ r.left = 0
      BY <1>2, <1>3, <2>4, <2>5
    <2>7. Past(r, v, d)
      BY <2>2, <2>4, <2>6 DEF Past
    <2>8. AnswerOK(r, v, d)
      BY <1>4, <2>2, <2>4, <2>7 DEF AnswerOK
    <2> QED BY <1>1, <2>2, <2>8
  <1>5. ASSUME c.pc = "settled"
        PROVE  /\ Past(r, w, c) /\ Ahead(c) = 0 /\ c.got \in Nat /\ r.total \in Nat /\ c.got <= r.total
               /\ Len(w) >= r.total - c.got /\ (r.pc = "relaying" => Len(w) = r.total - c.got)
               /\ r.pc \in {"relaying", "ended"}
               /\ \A i \in DOMAIN w : /\ i <= r.total - c.got => w[i] = "chunk"
                                      /\ i > r.total - c.got => w[i] \in {"done", "error", "disconnect"}
                                      /\ w[i] = "done" => r.pc = "ended" /\ r.left = 0
    <2>1. Past(r, w, c) /\ Ahead(c) = 0
      BY <1>5 DEF AnswerOK, Before, Ahead
    <2>2. c.got \in Nat /\ r.total \in Nat
      BY DEF ClientType, PortType
    <2> QED BY <1>3, <2>1, <2>2 DEF Past
  <1>6. CASE w[1] = "chunk" /\ c.pc = "settled"
    <2>1. PICK g : g = c.got + 1
      OBVIOUS
    <2>2. d = [c EXCEPT !.got = g]
      BY <1>2, <1>6, <2>1 DEF Received
    <2>3. g \in Nat /\ d \in ClientType /\ d.pc = "settled" /\ d.got = g /\ Ahead(d) = 0
      BY <1>5, <1>6, <2>1, <2>2 DEF ClientType, Ahead
    <2>4. g <= r.total
      BY <1>3, <1>5, <1>6, <2>1
    <2>5. /\ Len(v) >= r.total - g /\ (r.pc = "relaying" => Len(v) = r.total - g)
          /\ \A i \in DOMAIN v : /\ i <= r.total - g => v[i] = "chunk"
                                 /\ i > r.total - g => v[i] \in {"done", "error", "disconnect"}
                                 /\ v[i] = "done" => r.pc = "ended" /\ r.left = 0
      <3>1. c.got \in Nat /\ r.total \in Nat /\ Len(w) >= r.total - c.got /\ (r.pc = "relaying" => Len(w) = r.total - c.got)
        BY <1>5, <1>6
      <3>2. Len(v) >= r.total - g /\ (r.pc = "relaying" => Len(v) = r.total - g)
        <4>1. Len(w) \in Nat /\ Len(v) = Len(w) - 1
          BY <1>2
        <4> QED BY <2>1, <3>1, <4>1
      <3>3. ASSUME NEW i \in DOMAIN v
            PROVE  /\ i <= r.total - g => v[i] = "chunk"
                   /\ i > r.total - g => v[i] \in {"done", "error", "disconnect"}
                   /\ v[i] = "done" => r.pc = "ended" /\ r.left = 0
        <4>1. PICK j : j = i + 1
          OBVIOUS
        <4>2. i \in Int /\ j \in DOMAIN w /\ v[i] = w[j]
          <5>1. i \in 1 .. Len(v) /\ Len(v) \in Int
            BY <1>2, <1>3, <3>3
          <5>2. i + 1 \in DOMAIN w /\ v[i] = w[i + 1]
            BY <1>2, <1>3, <3>3, <5>1
          <5> QED BY <4>1, <5>1, <5>2
        <4>3. /\ j <= r.total - c.got => w[j] = "chunk"
              /\ j > r.total - c.got => w[j] \in {"done", "error", "disconnect"}
              /\ w[j] = "done" => r.pc = "ended" /\ r.left = 0
          BY <1>5, <1>6, <4>2
        <4>4. (i <= r.total - g <=> j <= r.total - c.got) /\ (i > r.total - g <=> j > r.total - c.got)
          BY <2>1, <3>1, <4>1, <4>2
        <4> QED BY <4>2, <4>3, <4>4
      <3> QED BY <3>2, <3>3
    <2>6. Past(r, v, d)
      BY <1>5, <1>6, <2>3, <2>4, <2>5 DEF Past
    <2>7. AnswerOK(r, v, d)
      BY <1>5, <1>6, <2>3, <2>6 DEF AnswerOK
    <2> QED BY <1>1, <2>3, <2>7
  <1>7. CASE w[1] = "done" /\ c.pc = "settled"
    <2>1. d = [c EXCEPT !.pc = "closed"]
      BY <1>2, <1>7 DEF Received
    <2>2. d \in ClientType /\ d.pc = "closed" /\ d.got = c.got
      BY <2>1 DEF ClientType
    <2>3. r.pc = "ended" /\ r.left = 0
      BY <1>3, <1>5, <1>7
    <2>4. c.got = r.total
      BY <1>3, <1>5, <1>7
    <2> QED BY <2>2, <2>3, <2>4
  <1>8. CASE /\ ~(w[1] = "headers" /\ c.pc = "waiting")
             /\ ~(w[1] = "chunk" /\ c.pc = "settled") /\ ~(w[1] = "done" /\ c.pc = "settled")
    <2>1. d = [c EXCEPT !.pc = "failed"]
      BY <1>2, <1>8 DEF Received
    <2> QED BY <2>1 DEF ClientType
  <1> QED BY <1>4, <1>6, <1>7, <1>8

-----------------------------------------------------------------------------
(* Steps of the whole bridge.                                                  *)

LEMMA PortFacts ==
  ASSUME BridgeInv, NEW p \in Ports
  PROVE  /\ port[p] \in PortType /\ wire[p] \in Seq(Messages) /\ client[p] \in ClientType
         /\ ConnectionOK(port[p]) /\ AnswerOK(port[p], wire[p], client[p])
  BY DEF BridgeInv, BridgeTypeOK

(* One port moves, under the connection as it is.                              *)
LEMMA PortMoves ==
  ASSUME BridgeInv, UNCHANGED <<stored, changes>>, NEW p \in Ports,
         NEW r \in PortType, NEW w \in Seq(Messages), NEW c \in ClientType,
         port' = [port EXCEPT ![p] = r], wire' = [wire EXCEPT ![p] = w], client' = [client EXCEPT ![p] = c],
         ConnectionOK(r), AnswerOK(r, w, c)
  PROVE  BridgeInv'
  <1>1. BridgeTypeOK'
    BY DEF BridgeInv, BridgeTypeOK
  <1>2. ASSUME NEW q \in Ports PROVE ConnectionOK(port'[q]) /\ AnswerOK(port'[q], wire'[q], client'[q])
    <2>1. CASE q = p
      <3>1. port'[q] = r /\ wire'[q] = w /\ client'[q] = c
        BY <2>1 DEF BridgeInv, BridgeTypeOK
      <3> QED BY <3>1
    <2>2. CASE q # p
      <3>1. port'[q] = port[q] /\ wire'[q] = wire[q] /\ client'[q] = client[q]
        BY <2>2 DEF BridgeInv, BridgeTypeOK
      <3> QED BY <3>1, PortFacts
    <2> QED BY <2>1, <2>2
  <1>3. \A q \in Ports : (ConnectionOK(port[q]) /\ AnswerOK(port[q], wire[q], client[q]))'
    BY <1>2 DEF ConnectionOK, AnswerOK
  <1> QED BY <1>1, <1>3 DEF BridgeInv

(* The parts of a port that a step names and the ones it leaves.               *)
LEMMA Untouched ==
  ASSUME BridgeTypeOK, NEW p \in Ports
  PROVE  /\ port = [port EXCEPT ![p] = port[p]] /\ wire = [wire EXCEPT ![p] = wire[p]]
         /\ client = [client EXCEPT ![p] = client[p]]
  BY DEF BridgeTypeOK

LEMMA ConnectKeeps ==
  ASSUME BridgeInv, NEW p \in Ports, Connect(p)
  PROVE  BridgeInv'
  <1>1. PICK c : c = [client[p] EXCEPT !.pc = "waiting"]
    OBVIOUS
  <1>2. /\ port[p].pc = "none" /\ client[p].pc = "none" /\ wire[p] = <<>> /\ client[p].got = 0
        /\ port[p].total = 0 /\ ~port[p].finished
    BY PortFacts DEF Connect, AnswerOK
  <1>3. c \in ClientType /\ c.pc = "waiting" /\ c.got = 0
    BY <1>1, <1>2, PortFacts DEF ClientType
  <1>4. client' = [client EXCEPT ![p] = c] /\ UNCHANGED <<stored, changes>>
    BY <1>1 DEF Connect, BridgeInv, BridgeTypeOK
  <1>5. CASE /\ port' = [port EXCEPT ![p] = [FreshPort EXCEPT !.pc = "ended", !.finished = TRUE]]
             /\ wire' = [wire EXCEPT ![p] = <<"disconnect">>]
    <2>1. PICK r : r = [FreshPort EXCEPT !.pc = "ended", !.finished = TRUE]
      OBVIOUS
    <2>2. r \in PortType /\ r.pc = "ended" /\ r.finished /\ r.total = 0
      BY <2>1 DEF FreshPort, PortType, Connections
    <2>3. PICK w : w = <<"disconnect">>
      OBVIOUS
    <2>4. w \in Seq(Messages) /\ \A i \in DOMAIN w : w[i] = "disconnect"
      BY <2>3 DEF Messages
    <2>5. Before(r, w, c)
      BY <1>3, <2>2, <2>4 DEF Before
    <2>6. AnswerOK(r, w, c) /\ ConnectionOK(r)
      BY <1>3, <2>2, <2>5 DEF AnswerOK, ConnectionOK, Uses
    <2> QED BY <1>3, <1>4, <1>5, <2>1, <2>2, <2>3, <2>4, <2>6, PortMoves
  <1>6. CASE port' = [port EXCEPT ![p].pc = "connected"] /\ UNCHANGED wire
    <2>1. PICK r : r = [port[p] EXCEPT !.pc = "connected"]
      OBVIOUS
    <2>2. r \in PortType /\ r.pc = "connected" /\ r.total = 0 /\ ~r.finished
      BY <1>2, <2>1, PortFacts DEF PortType
    <2>3. port' = [port EXCEPT ![p] = r] /\ wire' = [wire EXCEPT ![p] = wire[p]]
      BY <1>6, <2>1, Untouched DEF BridgeInv, BridgeTypeOK
    <2>4. Before(r, wire[p], c)
      BY <1>2, <1>3, <2>2 DEF Before
    <2>5. AnswerOK(r, wire[p], c) /\ ConnectionOK(r)
      BY <1>2, <1>3, <2>2, <2>4 DEF AnswerOK, ConnectionOK, Uses
    <2> QED BY <1>3, <1>4, <2>2, <2>3, <2>5, PortFacts, PortMoves
  <1> QED BY <1>5, <1>6 DEF Connect

(* The worker goes on with a request it has not answered yet.                  *)
LEMMA RequestKeeps ==
  ASSUME BridgeInv, NEW p \in Ports, NEW allowed \in BOOLEAN,
         Request(p, allowed) \/ StorageAnswers(p) \/ Check(p)
  PROVE  BridgeInv'
  <1>1. PICK o : o = port[p]
    OBVIOUS
  <1>2. PICK w : w = wire[p]
    OBVIOUS
  <1>3. PICK c : c = client[p]
    OBVIOUS
  <1>4. /\ o \in PortType /\ w \in Seq(Messages) /\ c \in ClientType /\ ConnectionOK(o) /\ AnswerOK(o, w, c)
        /\ client' = [client EXCEPT ![p] = c] /\ wire = [wire EXCEPT ![p] = w] /\ UNCHANGED <<stored, changes>>
    BY <1>1, <1>2, <1>3, PortFacts, Untouched DEF BridgeInv, Request, StorageAnswers, Check
  <1>5. stored \in Connections
    BY DEF BridgeInv, BridgeTypeOK
  <1>6. o.pc \in {"connected", "reading", "answered"}
    BY <1>1 DEF Request, StorageAnswers, Check
  <1>7. o.total = 0 /\ c.pc # "none" /\ c.pc # "closed" /\ (~o.finished => w = <<>> /\ c.pc = "waiting")
    BY <1>4, <1>6 DEF AnswerOK
  <1>8. c.pc \in {"waiting", "settled"} => Before(o, w, c)
    BY <1>4, <1>6 DEF AnswerOK, Past
  <1>9. ASSUME NEW r \in PortType, r.finished = o.finished, r.total = 0, r.pc \in {"reading", "answered", "fetching"},
               r.pc = "fetching" => ~r.finished /\ r.seen.auto,
               r.pc \in {"answered", "fetching"} /\ ~r.finished /\ changes = 0 => r.seen = stored,
               port' = [port EXCEPT ![p] = r], wire' = wire
        PROVE  BridgeInv'
    <2>1. c.pc \in {"waiting", "settled"} => Before(r, w, c)
      BY <1>8, <1>9 DEF Before
    <2>2. AnswerOK(r, w, c)
      BY <1>7, <1>9, <2>1 DEF AnswerOK
    <2>3. ConnectionOK(r)
      BY <1>9 DEF ConnectionOK, Uses
    <2> QED BY <1>4, <1>9, <2>2, <2>3, PortMoves
  <1>10. ASSUME NEW r, r = [o EXCEPT !.pc = "ended"], NEW v, v = w \/ (~o.finished /\ v = Append(w, "error")),
                port' = [port EXCEPT ![p] = r], wire' = [wire EXCEPT ![p] = v]
         PROVE  BridgeInv'
    <2>1. r \in PortType /\ r.pc = "ended" /\ r.total = 0
      BY <1>4, <1>7, <1>10 DEF PortType
    <2>2. v \in Seq(Messages) /\ (c.pc \in {"waiting", "settled"} => Before(r, v, c))
      <3>1. CASE v = w
        BY <1>4, <1>8, <2>1, <3>1 DEF Before
      <3>2. CASE ~o.finished /\ v = Append(w, "error")
        BY <1>4, <1>7, <1>8, <2>1, <3>2, BeforeAppend
      <3> QED BY <1>10, <3>1, <3>2
    <2>3. AnswerOK(r, v, c) /\ ConnectionOK(r)
      BY <1>7, <2>1, <2>2 DEF AnswerOK, ConnectionOK, Uses
    <2> QED BY <1>4, <1>10, <2>1, <2>2, <2>3, PortMoves
  <1>11. CASE Request(p, allowed)
    <2>1. CASE allowed
      <3>1. PICK r : r = [o EXCEPT !.pc = "reading"]
        OBVIOUS
      <3>2. r \in PortType /\ r.pc = "reading" /\ r.total = 0 /\ r.finished = o.finished
        BY <1>4, <1>7, <3>1 DEF PortType
      <3>3. port' = [port EXCEPT ![p] = r] /\ wire' = wire
        BY <1>1, <1>11, <2>1, <3>1 DEF Request, BridgeInv, BridgeTypeOK
      <3> QED BY <1>9, <3>2, <3>3
    <2>2. CASE ~allowed
      <3>1. PICK r : r = [o EXCEPT !.pc = "ended"]
        OBVIOUS
      <3>2. PICK v : v = Append(w, "error")
        OBVIOUS
      <3>3. port' = [port EXCEPT ![p] = r] /\ wire' = [wire EXCEPT ![p] = v] /\ ~o.finished
        BY <1>1, <1>2, <1>11, <2>2, <3>1, <3>2 DEF Request, Active, BridgeInv, BridgeTypeOK
      <3> QED BY <1>10, <3>1, <3>2, <3>3
    <2> QED BY <2>1, <2>2
  <1>12. CASE StorageAnswers(p)
    <2>1. PICK r : r = [o EXCEPT !.pc = "answered", !.seen = stored]
      OBVIOUS
    <2>2. r \in PortType /\ r.pc = "answered" /\ r.total = 0 /\ r.finished = o.finished /\ r.seen = stored
      BY <1>4, <1>5, <1>7, <2>1 DEF PortType
    <2>3. port' = [port EXCEPT ![p] = r] /\ wire' = wire
      BY <1>1, <1>12, <2>1 DEF StorageAnswers, BridgeInv, BridgeTypeOK
    <2> QED BY <1>9, <2>2, <2>3
  <1>13. CASE Check(p)
    <2>1. CASE MayFetch(o)
      <3>1. PICK r : r = [o EXCEPT !.pc = "fetching"]
        OBVIOUS
      <3>2. r \in PortType /\ r.pc = "fetching" /\ r.total = 0 /\ r.finished = o.finished /\ r.seen = o.seen
        BY <1>4, <1>7, <3>1 DEF PortType
      <3>3. port' = [port EXCEPT ![p] = r] /\ wire' = wire /\ o.pc = "answered"
        BY <1>1, <1>13, <2>1, <3>1 DEF Check, BridgeInv, BridgeTypeOK
      <3>4. ~o.finished /\ o.seen.auto /\ (changes = 0 => o.seen = stored)
        BY <1>4, <2>1, <3>3 DEF MayFetch, ConnectionOK
      <3> QED BY <1>9, <3>2, <3>3, <3>4
    <2>2. CASE ~MayFetch(o)
      <3>1. PICK r : r = [o EXCEPT !.pc = "ended"]
        OBVIOUS
      <3>2. PICK v : v = IF o.finished THEN w ELSE Append(w, "error")
        OBVIOUS
      <3>3. port' = [port EXCEPT ![p] = r] /\ wire' = [wire EXCEPT ![p] = v]
        BY <1>1, <1>2, <1>4, <1>13, <2>2, <3>1, <3>2 DEF Check, BridgeInv, BridgeTypeOK
      <3> QED BY <1>10, <3>1, <3>2, <3>3
    <2> QED BY <2>1, <2>2
  <1> QED BY <1>11, <1>12, <1>13

(* The Kernel answers a request, chunk by chunk.                               *)
LEMMA AnswerKeeps ==
  ASSUME BridgeInv, NEW p \in Ports, FetchAnswers(p) \/ Relay(p)
  PROVE  BridgeInv'
  <1>1. PICK o : o = port[p]
    OBVIOUS
  <1>2. PICK w : w = wire[p]
    OBVIOUS
  <1>3. PICK c : c = client[p]
    OBVIOUS
  <1>4. /\ o \in PortType /\ w \in Seq(Messages) /\ c \in ClientType /\ ConnectionOK(o) /\ AnswerOK(o, w, c)
        /\ client' = [client EXCEPT ![p] = c] /\ UNCHANGED <<stored, changes>>
    BY <1>1, <1>2, <1>3, PortFacts, Untouched DEF BridgeInv, FetchAnswers, Relay
  <1>5. ASSUME NEW r \in PortType, NEW v \in Seq(Messages), r.seen = o.seen, r.finished = o.finished,
               Uses(r) => Uses(o), r.pc # "answered", AnswerOK(r, v, c),
               port' = [port EXCEPT ![p] = r], wire' = [wire EXCEPT ![p] = v]
        PROVE  BridgeInv'
    <2>1. ConnectionOK(r)
      BY <1>4, <1>5 DEF ConnectionOK, Uses
    <2> QED BY <1>4, <1>5, <2>1, PortMoves
  <1>6. ASSUME NEW r, r = [o EXCEPT !.pc = "ended"], NEW m \in {"error", "done"}, NEW v, v = Append(w, m),
               m = "done" => o.pc = "relaying" /\ o.left = 0, Uses(o),
               port' = [port EXCEPT ![p] = r], wire' = [wire EXCEPT ![p] = v]
        PROVE  BridgeInv'
    <2>1. r \in PortType /\ r.pc = "ended" /\ r.total = o.total /\ r.left = o.left /\ r.seen = o.seen /\ r.finished = o.finished
      BY <1>4, <1>6 DEF PortType
    <2>2. c.pc \in {"waiting", "settled"} /\ ~o.finished
      BY <1>4, <1>6 DEF Uses, AnswerOK, ConnectionOK
    <2>3. v \in Seq(Messages) /\ (Before(r, v, c) \/ Past(r, v, c))
      <3>1. CASE Past(o, w, c)
        BY <1>4, <1>6, <2>1, <3>1, PastEnds
      <3>2. CASE Before(o, w, c)
        <4>1. m = "error" /\ r.total = 0 /\ r.pc # "relaying"
          BY <1>6, <2>1, <3>2 DEF Before
        <4> QED BY <1>4, <1>6, <3>2, <4>1, BeforeAppend
      <3> QED BY <1>4, <2>2, <3>1, <3>2 DEF AnswerOK
    <2>4. AnswerOK(r, v, c)
      BY <2>1, <2>2, <2>3 DEF AnswerOK
    <2> QED BY <1>5, <1>6, <2>1, <2>3, <2>4 DEF Uses
  <1>7. CASE FetchAnswers(p)
    <2>0. o.pc = "fetching" /\ Uses(o)
      BY <1>1, <1>7 DEF FetchAnswers, Uses
    <2>1. ASSUME NEW length \in 0 .. (MaxResponse + 1),
                 port' = [port EXCEPT ![p].pc = "relaying", ![p].left = length],
                 wire' = [wire EXCEPT ![p] = Append(@, "headers")]
          PROVE  BridgeInv'
      <3>1. PICK r : r = [o EXCEPT !.pc = "relaying", !.left = length]
        OBVIOUS
      <3>2. PICK v : v = Append(w, "headers")
        OBVIOUS
      <3>3. /\ r \in PortType /\ r.pc = "relaying" /\ r.total = o.total
            /\ r.seen = o.seen /\ r.finished = o.finished
        <4>1. length \in Nat
          BY BridgeAssumption
        <4> QED BY <1>4, <3>1, <4>1 DEF PortType
      <3>4. port' = [port EXCEPT ![p] = r] /\ wire' = [wire EXCEPT ![p] = v]
        BY <1>1, <1>2, <2>1, <3>1, <3>2 DEF BridgeInv, BridgeTypeOK
      <3>5. w = <<>> /\ c.pc = "waiting" /\ c.got = 0 /\ r.total = 0
        BY <1>4, <2>0, <3>3 DEF AnswerOK, ConnectionOK, Uses, Before, Past
      <3>6. v \in Seq(Messages) /\ Len(v) = 1 /\ DOMAIN v = {1} /\ v[1] = "headers"
        <4>1. v = <<"headers">>
          BY <3>2, <3>5
        <4> QED BY <4>1 DEF Messages
      <3>7. Ahead(c) = 1 /\ r.total - c.got = 0
        BY <3>5 DEF Ahead
      <3>8. Past(r, v, c)
        BY <3>3, <3>5, <3>6, <3>7 DEF Past
      <3>9. AnswerOK(r, v, c)
        BY <3>3, <3>5, <3>8 DEF AnswerOK
      <3> QED BY <1>5, <2>0, <3>3, <3>4, <3>6, <3>9
    <2>2. ASSUME port' = [port EXCEPT ![p].pc = "ended"], wire' = [wire EXCEPT ![p] = Append(@, "error")]
          PROVE  BridgeInv'
      <3>1. PICK r : r = [o EXCEPT !.pc = "ended"]
        OBVIOUS
      <3>2. PICK v : v = Append(w, "error")
        OBVIOUS
      <3>3. port' = [port EXCEPT ![p] = r] /\ wire' = [wire EXCEPT ![p] = v]
        BY <1>1, <1>2, <2>2, <3>1, <3>2 DEF BridgeInv, BridgeTypeOK
      <3> QED BY <1>6, <2>0, <3>1, <3>2, <3>3
    <2> QED BY <1>7, <2>1, <2>2 DEF FetchAnswers
  <1>8. CASE Relay(p)
    <2>0. o.pc = "relaying" /\ Uses(o) /\ Past(o, w, c) /\ c.pc \in {"waiting", "settled"}
      BY <1>1, <1>4, <1>8 DEF Relay, Uses, AnswerOK
    <2>1. ASSUME o.left > 0, port' = [port EXCEPT ![p].left = @ - 1, ![p].total = @ + 1],
                 wire' = [wire EXCEPT ![p] = Append(@, "chunk")]
          PROVE  BridgeInv'
      <3>1. PICK l : l = o.left - 1
        OBVIOUS
      <3>2. PICK t : t = o.total + 1
        OBVIOUS
      <3>3. PICK r : r = [o EXCEPT !.left = l, !.total = t]
        OBVIOUS
      <3>4. PICK v : v = Append(w, "chunk")
        OBVIOUS
      <3>5. l \in Nat /\ t \in Nat
        BY <1>4, <2>1, <3>1, <3>2 DEF PortType
      <3>6. /\ r \in PortType /\ r.pc = "relaying" /\ r.total = o.total + 1
            /\ r.seen = o.seen /\ r.finished = o.finished
        BY <1>4, <2>0, <3>2, <3>3, <3>5 DEF PortType
      <3>7. port' = [port EXCEPT ![p] = r] /\ wire' = [wire EXCEPT ![p] = v]
        BY <1>1, <1>2, <2>1, <3>1, <3>2, <3>3, <3>4 DEF BridgeInv, BridgeTypeOK
      <3>8. Past(r, v, c) /\ v \in Seq(Messages)
        BY <1>4, <2>0, <3>4, <3>6, PastGrows
      <3>9. AnswerOK(r, v, c)
        BY <2>0, <3>6, <3>8 DEF AnswerOK
      <3> QED BY <1>5, <2>0, <3>6, <3>7, <3>8, <3>9
    <2>2. ASSUME NEW m \in {"error", "done"}, m = "done" => o.left = 0,
                 port' = [port EXCEPT ![p].pc = "ended"], wire' = [wire EXCEPT ![p] = Append(@, m)]
          PROVE  BridgeInv'
      <3>1. PICK r : r = [o EXCEPT !.pc = "ended"]
        OBVIOUS
      <3>2. PICK v : v = Append(w, m)
        OBVIOUS
      <3>3. port' = [port EXCEPT ![p] = r] /\ wire' = [wire EXCEPT ![p] = v]
        BY <1>1, <1>2, <2>2, <3>1, <3>2 DEF BridgeInv, BridgeTypeOK
      <3> QED BY <1>6, <2>0, <2>2, <3>1, <3>2, <3>3
    <2>3. \/ /\ o.left > 0 /\ port' = [port EXCEPT ![p].left = @ - 1, ![p].total = @ + 1]
             /\ wire' = [wire EXCEPT ![p] = Append(@, "chunk")]
          \/ \E m \in {"error", "done"} :
                /\ m = "done" => o.left = 0
                /\ port' = [port EXCEPT ![p].pc = "ended"] /\ wire' = [wire EXCEPT ![p] = Append(@, m)]
      BY <1>1, <1>8 DEF Relay
    <2> QED BY <2>1, <2>2, <2>3
  <1> QED BY <1>7, <1>8

(* The page takes a message, or gives up.                                      *)
LEMMA PageKeeps ==
  ASSUME BridgeInv, NEW p \in Ports, Receive(p) \/ GiveUp(p)
  PROVE  BridgeInv'
  <1>1. PICK o : o = port[p]
    OBVIOUS
  <1>2. PICK w : w = wire[p]
    OBVIOUS
  <1>3. PICK c : c = client[p]
    OBVIOUS
  <1>4. /\ o \in PortType /\ w \in Seq(Messages) /\ c \in ClientType /\ ConnectionOK(o) /\ AnswerOK(o, w, c)
        /\ port = [port EXCEPT ![p] = o] /\ UNCHANGED <<stored, changes>> /\ c.pc \in {"waiting", "settled"}
    BY <1>1, <1>2, <1>3, PortFacts, Untouched DEF BridgeInv, Receive, GiveUp, Waiting
  <1>5. ASSUME NEW d \in ClientType, Leave(p, d),
               d.pc = "failed" \/ (d.pc = "closed" /\ o.pc = "ended" /\ o.left = 0 /\ d.got = o.total)
        PROVE  BridgeInv'
    <2>1. PICK s : s = IF o.pc # "none" /\ ~o.finished THEN Stop(o) ELSE o
      OBVIOUS
    <2>2. Uses(o) => ~o.finished
      BY <1>4 DEF ConnectionOK
    <2>3. s \in PortType /\ (Uses(s) => s = o) /\ (s # o => ~Uses(s) /\ s.finished) /\ AnswerOK(s, <<>>, d)
      BY <1>4, <1>5, <2>1, <2>2, LeaveKeeps
    <2>4. ConnectionOK(s)
      BY <1>4, <2>3 DEF ConnectionOK
    <2>5. /\ port' = [port EXCEPT ![p] = s] /\ wire' = [wire EXCEPT ![p] = <<>>]
          /\ client' = [client EXCEPT ![p] = d]
      BY <1>1, <1>5, <2>1 DEF Leave, Active
    <2>6. <<>> \in Seq(Messages)
      OBVIOUS
    <2> QED BY <1>4, <2>3, <2>4, <2>5, <2>6, PortMoves
  <1>6. CASE GiveUp(p)
    <2>1. PICK d : d = [c EXCEPT !.pc = "failed"]
      OBVIOUS
    <2>2. d \in ClientType /\ d.pc = "failed" /\ Leave(p, d)
      BY <1>3, <1>4, <1>6, <2>1 DEF GiveUp, ClientType
    <2> QED BY <1>5, <2>2
  <1>7. CASE Receive(p)
    <2>1. PICK d : d = Received(c, Head(w))
      OBVIOUS
    <2>2. w # <<>> /\ IF d.pc \in {"closed", "failed"} THEN Leave(p, d)
                      ELSE /\ client' = [client EXCEPT ![p] = d]
                           /\ wire' = [wire EXCEPT ![p] = Tail(@)] /\ UNCHANGED port
      BY <1>2, <1>3, <1>7, <2>1 DEF Receive
    <2>3. /\ d \in ClientType
          /\ \/ d.pc = "failed"
             \/ d.pc = "closed" /\ o.pc = "ended" /\ o.left = 0 /\ d.got = o.total
             \/ d.pc = "settled" /\ AnswerOK(o, Tail(w), d)
      BY <1>4, <2>1, <2>2, ReceivedFacts
    <2>4. CASE d.pc \in {"closed", "failed"}
      BY <1>5, <2>2, <2>3, <2>4
    <2>5. CASE d.pc = "settled" /\ AnswerOK(o, Tail(w), d)
      <3>1. PICK v : v = Tail(w)
        OBVIOUS
      <3>2. v \in Seq(Messages)
        BY <1>4, <2>2, <3>1, HeadTailProperties
      <3>3. /\ client' = [client EXCEPT ![p] = d] /\ wire' = [wire EXCEPT ![p] = v]
            /\ port' = [port EXCEPT ![p] = o]
        BY <1>2, <1>4, <2>2, <2>5, <3>1
      <3> QED BY <1>4, <2>3, <2>5, <3>1, <3>2, <3>3, PortMoves
    <2> QED BY <2>3, <2>4, <2>5
  <1> QED BY <1>6, <1>7

(* Ports are stopped, all of them by the event of a change.                    *)
LEMMA StoppedKeeps ==
  ASSUME BridgeInv, NEW P, Stopped(P), UNCHANGED <<stored, client>>, changes' \in Nat,
         changes' = changes \/ P = Ports
  PROVE  BridgeInv'
  <1>1. ASSUME NEW q \in Ports
        PROVE  /\ port'[q] \in PortType /\ wire'[q] \in Seq(Messages)
               /\ AnswerOK(port'[q], wire'[q], client[q])
               /\ Uses(port'[q]) => port'[q] = port[q]
               /\ port'[q] # port[q] => port'[q].finished
               /\ q \in P /\ port[q].pc # "none" => port'[q].finished
    <2>1. CASE q \in P /\ Active(q)
      <3>1. PICK s : s = Stop(port[q])
        OBVIOUS
      <3>2. PICK v : v = Append(wire[q], "disconnect")
        OBVIOUS
      <3>3. port'[q] = s /\ wire'[q] = v
        BY <2>1, <3>1, <3>2 DEF Stopped
      <3>4. /\ s \in PortType /\ v \in Seq(Messages) /\ ~Uses(s) /\ s.finished
            /\ AnswerOK(s, v, client[q])
        BY <2>1, <3>1, <3>2, PortFacts, StopKeeps DEF Active
      <3> QED BY <3>3, <3>4
    <2>2. CASE ~(q \in P /\ Active(q))
      <3>1. port'[q] = port[q] /\ wire'[q] = wire[q]
        BY <2>2 DEF Stopped
      <3>2. q \in P /\ port[q].pc # "none" => port[q].finished
        BY <2>2 DEF Active
      <3> QED BY <3>1, <3>2, PortFacts
    <2> QED BY <2>1, <2>2
  <1>2. ASSUME NEW q \in Ports PROVE ConnectionOK(port[q])'
    <2>1. PICK s : s = port'[q]
      OBVIOUS
    <2>2. CASE changes' = changes
      <3>1. CASE s = port[q]
        BY <2>1, <2>2, <3>1, PortFacts DEF ConnectionOK
      <3>2. CASE s # port[q]
        BY <1>1, <2>1, <3>2 DEF ConnectionOK
      <3> QED BY <3>1, <3>2
    <2>3. CASE P = Ports
      <3>1. ~Uses(s) /\ (s.pc = "answered" => s.finished)
        <4>1. Uses(s) => s = port[q] /\ ~s.finished
          BY <1>1, <2>1, PortFacts DEF ConnectionOK
        <4>2. port[q].pc # "none" => s.finished
          BY <1>1, <2>1, <2>3
        <4>3. port[q].pc = "none" => s = port[q]
          BY <2>1 DEF Stopped, Active
        <4> QED BY <4>1, <4>2, <4>3 DEF Uses
      <3> QED BY <2>1, <3>1 DEF ConnectionOK
    <2> QED BY <2>2, <2>3
  <1>3. BridgeTypeOK'
    <2>1. /\ port' = [p \in Ports |-> port'[p]] /\ wire' = [p \in Ports |-> wire'[p]]
      BY DEF Stopped
    <2> QED BY <1>1, <2>1 DEF BridgeInv, BridgeTypeOK
  <1>4. \A q \in Ports : AnswerOK(port[q], wire[q], client[q])'
    BY <1>1 DEF AnswerOK
  <1> QED BY <1>2, <1>3, <1>4 DEF BridgeInv

(* The stored connection is written: whoever holds the old one is stopped by   *)
(* the event that is now on its way.                                           *)
LEMMA WriteKeeps ==
  ASSUME BridgeInv, NEW value \in Connections, Write(value), UNCHANGED <<port, wire, client>>
  PROVE  BridgeInv'
  <1>1. stored' = value /\ changes' \in Nat /\ (changes' = 0 => changes = 0 /\ value = stored)
    BY DEF Write, BridgeInv, BridgeTypeOK
  <1>2. BridgeTypeOK'
    BY <1>1 DEF BridgeInv, BridgeTypeOK
  <1>3. \A q \in Ports : ConnectionOK(port[q])'
    BY <1>1 DEF BridgeInv, ConnectionOK
  <1>4. \A q \in Ports : AnswerOK(port[q], wire[q], client[q])'
    BY DEF BridgeInv, AnswerOK
  <1> QED BY <1>2, <1>3, <1>4 DEF BridgeInv

LEMMA NothingMoves ==
  ASSUME BridgeInv, UNCHANGED <<stored, changes, port, wire, client>>
  PROVE  BridgeInv'
  BY DEF BridgeInv, BridgeTypeOK, ConnectionOK, AnswerOK

LEMMA BridgeStarts ==
  ASSUME BridgeInit
  PROVE  BridgeInv
  <1>1. FreshPort \in PortType /\ FreshPort.pc = "none" /\ ~FreshPort.finished /\ FreshPort.total = 0
    BY DEF FreshPort, PortType, Connections
  <1>2. PICK c : c = [pc |-> "none", got |-> 0]
    OBVIOUS
  <1>3. c \in ClientType /\ c.pc = "none" /\ c.got = 0
    BY <1>2 DEF ClientType
  <1>4. \A q \in Ports : port[q] = FreshPort /\ wire[q] = <<>> /\ client[q] = c
    BY <1>2 DEF BridgeInit
  <1>5. BridgeTypeOK
    <2>1. stored \in Connections /\ changes \in Nat
      <3>1. [auto |-> TRUE, token |-> 1] \in Connections /\ [auto |-> FALSE, token |-> 0] \in Connections
        BY DEF Connections
      <3> QED BY <3>1 DEF BridgeInit
    <2>2. <<>> \in Seq(Messages)
      OBVIOUS
    <2>3. /\ port = [q \in Ports |-> FreshPort] /\ wire = [q \in Ports |-> <<>>]
          /\ client = [q \in Ports |-> c]
      BY <1>2 DEF BridgeInit
    <2> QED BY <1>1, <1>3, <2>1, <2>2, <2>3 DEF BridgeTypeOK
  <1>6. ConnectionOK(FreshPort) /\ AnswerOK(FreshPort, <<>>, c)
    BY <1>1, <1>3 DEF ConnectionOK, AnswerOK, Uses
  <1> QED BY <1>4, <1>5, <1>6 DEF BridgeInv

LEMMA BridgeStep ==
  ASSUME BridgeInv, [BridgeNext]_bridgeVars
  PROVE  BridgeInv'
  <1>1. CASE Changed
    <2>1. changes' \in Nat /\ Stopped(Ports) /\ UNCHANGED <<stored, client>>
      BY <1>1 DEF Changed, BridgeInv, BridgeTypeOK
    <2> QED BY <2>1, StoppedKeeps
  <1>2. CASE \E p \in Ports : PortTimesOut(p)
    <2>1. PICK p \in Ports : Stopped({p}) /\ UNCHANGED <<stored, changes, client>>
      BY <1>2 DEF PortTimesOut
    <2>2. changes' \in Nat
      BY <2>1 DEF BridgeInv, BridgeTypeOK
    <2> QED BY <2>1, <2>2, StoppedKeeps
  <1>3. stored \in Connections
    BY DEF BridgeInv, BridgeTypeOK
  <1>4. CASE Forget \/ AllowDashboard
    <2>1. [stored EXCEPT !.auto = FALSE] \in Connections /\ [stored EXCEPT !.auto = TRUE] \in Connections
      BY <1>3 DEF Connections
    <2> QED BY <1>4, <2>1, WriteKeeps DEF Forget, AllowDashboard
  <1>5. CASE Redeem
    <2>1. [stored EXCEPT !.token = 2] \in Connections
      BY <1>3 DEF Connections
    <2> QED BY <1>5, <2>1, WriteKeeps, NothingMoves DEF Redeem
  <1>6. CASE Ask \/ AskArrives \/ Minted \/ ReplyArrives \/ UNCHANGED bridgeVars
    BY <1>6, NothingMoves DEF Ask, AskArrives, Minted, ReplyArrives, bridgeVars
  <1> QED BY <1>1, <1>2, <1>4, <1>5, <1>6, ConnectKeeps, RequestKeeps, AnswerKeeps, PageKeeps DEF BridgeNext

(* Whatever the user revokes, pairs again or closes, and in whatever order     *)
(* storage answers, change events and messages of the ports arrive: once the   *)
(* event of a change has been delivered no request uses the old connection,    *)
(* and the page takes only whole answers for complete (dashboard-bridge.js,    *)
(* extension-bridge.ts, auto-pair.js).                                         *)
THEOREM BridgeStaysFaithful == BridgeSpec => []BridgeIsFaithful
  <1>1. BridgeInit => BridgeInv
    BY BridgeStarts
  <1>2. BridgeInv /\ [BridgeNext]_bridgeVars => BridgeInv'
    BY BridgeStep
  <1>3. BridgeInv => BridgeIsFaithful
    <2>1. ASSUME BridgeInv PROVE RevokedConnectionIsUnused
      BY <2>1 DEF BridgeInv, ConnectionOK, Uses, RevokedConnectionIsUnused
    <2>2. ASSUME BridgeInv PROVE CompleteAnswersAreWhole
      BY <2>2 DEF BridgeInv, AnswerOK, CompleteAnswersAreWhole
    <2> QED BY <2>1, <2>2 DEF BridgeIsFaithful
  <1> QED BY <1>1, <1>2, <1>3, PTL DEF BridgeSpec

-----------------------------------------------------------------------------
(* The dashboard's shell. Only one connection is made at a time, while there   *)
(* is none, and for the newest choice; a wave of the poller reads the          *)
(* connection in place; a hint that no wave has followed yet waits for the     *)
(* end of one, or for the page to be visible again.                            *)

Transports == {"none", "local", "ext", "token"}
SnapshotType == [of : Transports, online : BOOLEAN, records : BOOLEAN]
PollType == [wave : BOOLEAN, of : Transports, failures : Int, rerun : BOOLEAN, hint : BOOLEAN]
LinkType == [pc : {"none", "ask", "load"}, to : Transports, attempt : Int, choice : Int, remember : BOOLEAN]

LinkInv ==
  /\ autoPaused \in BOOLEAN /\ attempt \in Int /\ choice \in Int /\ conn \in Transports
  /\ link \in LinkType
  /\ Connecting => conn = "none" /\ link.choice = choice
  /\ ~autoPaused => choice = 0
  /\ NewestChoiceWins

HintWaits(p) == p.hint => IF p.wave THEN p.rerun ELSE ~visible
ReadsConnection(p) == p \in PollType /\ (p.wave => p.of = conn) /\ (conn = "none" => p = FreshPoll)

PollInv ==
  /\ visible \in BOOLEAN /\ refreshing \in Transports
  /\ snap \in SnapshotType
  /\ ReadsConnection(poll) /\ HintWaits(poll)
  /\ SnapshotIsOfConnection

ShellInv == LinkInv /\ PollInv /\ SpinnerHasRead

LEMMA OverviewFacts ==
  ASSUME NEW of \in Transports, NEW s \in Overviews(of)
  PROVE  s.of = of /\ s \in SnapshotType
  <1>1. CASE Asking = "answered"
    <2>1. s \in {[of |-> of, online |-> TRUE, records |-> r] : r \in BOOLEAN}
      BY <1>1 DEF Overviews
    <2>2. PICK r \in BOOLEAN : s = [of |-> of, online |-> TRUE, records |-> r]
      BY <2>1
    <2> QED BY <2>2 DEF SnapshotType
  <1>2. CASE Asking = "offline"
    <2>1. s \in {[of |-> of, online |-> FALSE, records |-> FALSE]}
      BY <1>2 DEF Overviews
    <2>2. s = [of |-> of, online |-> FALSE, records |-> FALSE]
      BY <2>1
    <2> QED BY <2>2 DEF SnapshotType
  <1>3. CASE Asking \notin {"answered", "offline"}
    BY <1>3 DEF Overviews
  <1> QED BY <1>1, <1>2, <1>3

LEMMA FreshFacts ==
  /\ FreshPoll \in PollType /\ ~FreshPoll.wave /\ ~FreshPoll.hint
  /\ Nothing \in SnapshotType /\ Nothing.of = "none"
  /\ NoLink \in LinkType /\ NoLink.pc = "none"
  BY DEF FreshPoll, PollType, Transports, Nothing, SnapshotType, NoLink, LinkType

(* A wave that starts reads the connection in place, and is what hints wait for. *)
LEMMA TickFacts ==
  ASSUME NEW p \in PollType, conn # "none", conn \in Transports, visible \in BOOLEAN,
         p.wave => p.of = conn, NEW t, t = Tick(p)
  PROVE  /\ t \in PollType /\ (t.wave => t.of = conn)
         /\ (p.hint /\ p.wave => p.rerun) => HintWaits(t)
  <1>1. CASE p.wave \/ ~visible
    <2>1. t = p
      BY <1>1 DEF Tick
    <2> QED BY <1>1, <2>1 DEF HintWaits
  <1>2. CASE ~p.wave /\ visible
    <2>1. t = [p EXCEPT !.wave = TRUE, !.of = conn, !.hint = FALSE]
      BY <1>2 DEF Tick
    <2>2. t \in PollType /\ t.of = conn /\ ~t.hint
      BY <2>1 DEF PollType
    <2> QED BY <2>2 DEF HintWaits
  <1> QED BY <1>1, <1>2

(* Steps that leave the connection and the page's visibility alone.            *)
LEMMA PollMoves ==
  ASSUME ShellInv, UNCHANGED <<conn, autoPaused, link, attempt, choice, by, visible>>,
         refreshing' \in Transports, snap' \in SnapshotType, poll' \in PollType, poll'.wave => poll'.of = conn,
         conn = "none" => poll' = FreshPoll, HintWaits(poll'), SnapshotIsOfConnection', SpinnerHasRead'
  PROVE  ShellInv'
  <1>1. LinkInv'
    BY DEF ShellInv, LinkInv, Connecting, NewestChoiceWins
  <1>2. ReadsConnection(poll)' /\ HintWaits(poll)'
    BY DEF ReadsConnection, HintWaits
  <1>3. PollInv'
    BY <1>2 DEF ShellInv, PollInv
  <1> QED BY <1>1, <1>3 DEF ShellInv

LEMMA ShellFacts ==
  ASSUME ShellInv
  PROVE  /\ conn \in Transports /\ visible \in BOOLEAN /\ refreshing \in Transports /\ snap \in SnapshotType
         /\ poll \in PollType /\ (poll.wave => poll.of = conn) /\ HintWaits(poll)
         /\ (conn = "none" => poll = FreshPoll) /\ SnapshotIsOfConnection /\ SpinnerHasRead
  BY DEF ShellInv, LinkInv, PollInv, ReadsConnection

LEMMA PollStarts ==
  ASSUME ShellInv, PollTick \/ Hint
  PROVE  ShellInv'
  <1>1. /\ conn # "none" /\ UNCHANGED <<conn, autoPaused, link, attempt, choice, by, visible, refreshing, snap>>
        /\ UNCHANGED <<overtaken, opened, spinner>>
    BY DEF PollTick, Hint, linkVars, caseVars
  <1>2. poll \in PollType /\ (poll.hint /\ poll.wave => poll.rerun) /\ (poll.wave => poll.of = conn)
    BY ShellFacts DEF HintWaits
  <1>3. poll' \in PollType /\ (poll'.wave => poll'.of = conn) /\ HintWaits(poll')
    <2>1. CASE poll' = Tick(poll)
      BY <1>1, <1>2, <2>1, ShellFacts, TickFacts
    <2>2. CASE Hint
      <3>1. CASE poll.wave
        <4>1. poll' = [poll EXCEPT !.rerun = TRUE, !.hint = TRUE]
          BY <2>2, <3>1 DEF Hint, Now
        <4>2. poll' \in PollType /\ poll'.wave /\ poll'.rerun /\ poll'.of = poll.of
          BY <1>2, <3>1, <4>1 DEF PollType
        <4> QED BY <1>2, <3>1, <4>2 DEF HintWaits
      <3>2. CASE ~poll.wave
        BY <2>1, <2>2, <3>2 DEF Hint, Now
      <3> QED BY <3>1, <3>2
    <2> QED BY <2>1, <2>2 DEF PollTick
  <1>4. SnapshotIsOfConnection' /\ SpinnerHasRead'
    BY <1>1, ShellFacts DEF SnapshotIsOfConnection, SpinnerHasRead
  <1> QED BY <1>1, <1>3, <1>4, ShellFacts, PollMoves

LEMMA WaveEndsKeeps ==
  ASSUME ShellInv, WaveEnds
  PROVE  ShellInv'
  <1>1. /\ poll.wave /\ UNCHANGED <<conn, autoPaused, link, attempt, choice, by, visible, refreshing>>
        /\ UNCHANGED <<overtaken, opened, spinner>>
    BY DEF WaveEnds, linkVars, caseVars
  <1>2. poll \in PollType /\ (poll.hint => poll.rerun) /\ poll.of = conn /\ conn # "none"
    <2>1. poll # FreshPoll
      BY <1>1, FreshFacts
    <2> QED BY <1>1, <2>1, ShellFacts DEF HintWaits
  <1>3. ASSUME NEW f \in Int, NEW p, p = [poll EXCEPT !.failures = f], poll' = Rerun(p)
        PROVE  poll' \in PollType /\ (poll'.wave => poll'.of = conn) /\ HintWaits(poll')
    <2>1. p \in PollType /\ (p.hint => p.rerun)
      BY <1>2, <1>3 DEF PollType
    <2>2. PICK e : e = [p EXCEPT !.wave = FALSE, !.of = "none", !.rerun = FALSE]
      OBVIOUS
    <2>3. e \in PollType /\ ~e.wave /\ e.hint = p.hint
      BY <2>1, <2>2 DEF PollType, Transports
    <2>4. CASE p.rerun
      <3>1. poll' = Tick(e)
        BY <1>3, <2>2, <2>4 DEF Rerun
      <3> QED BY <1>2, <2>3, <3>1, ShellFacts, TickFacts
    <2>5. CASE ~p.rerun
      <3>1. poll' = e
        BY <1>3, <2>2, <2>5 DEF Rerun
      <3> QED BY <2>1, <2>3, <2>5, <3>1 DEF HintWaits
    <2> QED BY <2>4, <2>5
  <1>4. SpinnerHasRead'
    BY <1>1, ShellFacts DEF SpinnerHasRead
  <1>5. ASSUME NEW s \in Overviews(poll.of), snap' = s, poll' = Rerun([poll EXCEPT !.failures = 0])
        PROVE  ShellInv'
    <2>1. s.of = conn /\ s \in SnapshotType
      BY <1>2, ShellFacts, OverviewFacts
    <2>2. SnapshotIsOfConnection'
      BY <1>1, <1>5, <2>1 DEF SnapshotIsOfConnection
    <2>3. poll' \in PollType /\ (poll'.wave => poll'.of = conn) /\ HintWaits(poll')
      BY <1>3, <1>5
    <2> QED BY <1>1, <1>2, <1>4, <1>5, <2>1, <2>2, <2>3, ShellFacts, PollMoves
  <1>6. ASSUME snap' = IF poll.failures + 1 >= OfflineAfter THEN markKernelUnreachable(snap) ELSE snap,
               poll' = Rerun([poll EXCEPT !.failures = IF @ < OfflineAfter THEN @ + 1 ELSE @])
        PROVE  ShellInv'
    <2>1. PICK u : u = markKernelUnreachable(snap)
      OBVIOUS
    <2>2. u \in SnapshotType /\ u.of = snap.of
      BY <2>1, ShellFacts DEF markKernelUnreachable, SnapshotType
    <2>3. snap' \in SnapshotType /\ snap'.of = snap.of
      BY <1>6, <2>1, <2>2, ShellFacts
    <2>4. SnapshotIsOfConnection'
      BY <1>1, <2>3, ShellFacts DEF SnapshotIsOfConnection
    <2>5. PICK f : f = IF poll.failures < OfflineAfter THEN poll.failures + 1 ELSE poll.failures
      OBVIOUS
    <2>6. f \in Int
      BY <1>2, <2>5 DEF PollType
    <2>7. poll' = Rerun([poll EXCEPT !.failures = f])
      BY <1>6, <2>5
    <2>8. poll' \in PollType /\ (poll'.wave => poll'.of = conn) /\ HintWaits(poll')
      BY <1>3, <2>6, <2>7
    <2> QED BY <1>1, <1>2, <1>4, <2>3, <2>4, <2>8, ShellFacts, PollMoves
  <1> QED BY <1>5, <1>6 DEF WaveEnds

LEMMA VisibilityKeeps ==
  ASSUME ShellInv, Visibility
  PROVE  ShellInv'
  <1>1. /\ visible' = ~visible /\ UNCHANGED <<conn, autoPaused, link, attempt, choice, by, refreshing, snap>>
        /\ UNCHANGED <<overtaken, opened, spinner>>
    BY DEF Visibility, linkVars, caseVars
  <1>2. LinkInv'
    BY <1>1 DEF ShellInv, LinkInv, Connecting, NewestChoiceWins
  <1>3. ReadsConnection(poll)' /\ HintWaits(poll)'
    <2>1. CASE conn # "none" /\ visible' /\ ~poll.wave
      <3>1. poll' = [poll EXCEPT !.wave = TRUE, !.of = conn, !.hint = FALSE]
        BY <2>1 DEF Visibility
      <3>2. poll' \in PollType /\ poll'.of = conn /\ ~poll'.hint
        BY <3>1, ShellFacts DEF PollType
      <3> QED BY <1>1, <2>1, <3>2 DEF ReadsConnection, HintWaits
    <2>2. CASE ~(conn # "none" /\ visible' /\ ~poll.wave)
      <3>1. poll' = poll
        BY <2>2 DEF Visibility
      <3>2. poll.hint => conn # "none"
        BY ShellFacts, FreshFacts
      <3> QED BY <1>1, <2>2, <3>1, <3>2, ShellFacts DEF ReadsConnection, HintWaits
    <2> QED BY <2>1, <2>2
  <1>4. SnapshotIsOfConnection' /\ SpinnerHasRead' /\ visible' \in BOOLEAN
    BY <1>1, ShellFacts DEF SnapshotIsOfConnection, SpinnerHasRead
  <1> QED BY <1>1, <1>2, <1>3, <1>4, ShellFacts DEF ShellInv, PollInv

(* Refreshes, Cases, Goals and the Kernel's own changes.                       *)
LEMMA PanelKeeps ==
  ASSUME ShellInv,
         \/ Refresh \/ RefreshEnds \/ ConfirmGoal \/ GoalAnswers \/ KernelChanges \/ UNCHANGED shellVars
         \/ (\E c \in Cases : OpenCase(c)) \/ (\E o \in opened : CaseAnswers(o))
  PROVE  ShellInv'
  <1>1. UNCHANGED <<conn, autoPaused, link, attempt, choice, by, visible, poll>>
    BY DEF Refresh, RefreshEnds, ConfirmGoal, GoalAnswers, KernelChanges, OpenCase, CaseAnswers, linkVars, shellVars
  <1>2. refreshing' \in Transports
    BY ShellFacts DEF Refresh, RefreshEnds, ConfirmGoal, GoalAnswers, KernelChanges, OpenCase, CaseAnswers,
                      shellVars, Transports
  <1>3. snap' \in SnapshotType /\ SnapshotIsOfConnection'
    <2>1. CASE RefreshEnds
      <3>1. ASSUME NEW s \in Overviews(refreshing), snap' = s, overtaken' = (overtaken \/ conn # refreshing)
            PROVE  snap' \in SnapshotType /\ SnapshotIsOfConnection'
        <4>1. s.of = refreshing /\ s \in SnapshotType
          BY ShellFacts, OverviewFacts
        <4> QED BY <1>1, <3>1, <4>1 DEF SnapshotIsOfConnection
      <3>2. CASE UNCHANGED <<snap, overtaken>>
        BY <1>1, <3>2, ShellFacts DEF SnapshotIsOfConnection
      <3> QED BY <2>1, <3>1, <3>2 DEF RefreshEnds
    <2>2. CASE UNCHANGED <<snap, overtaken>>
      BY <1>1, <2>2, ShellFacts DEF SnapshotIsOfConnection
    <2> QED BY <2>1, <2>2 DEF Refresh, ConfirmGoal, GoalAnswers, KernelChanges, OpenCase, CaseAnswers, shellVars
  <1>4. SpinnerHasRead'
    <2>1. ASSUME NEW c \in Cases, OpenCase(c) PROVE SpinnerHasRead'
      <3>1. PICK n : opened' = opened \cup {[case |-> c, n |-> n]}
        BY <2>1 DEF OpenCase
      <3>2. PICK o : o = [case |-> c, n |-> n]
        OBVIOUS
      <3>3. opened' = opened \cup {o} /\ o.case = c
        BY <3>1, <3>2
      <3>4. spinner' = spinner \/ spinner' = c
        BY <2>1 DEF OpenCase
      <3> QED BY <3>3, <3>4, ShellFacts DEF SpinnerHasRead
    <2>2. ASSUME NEW o \in opened, CaseAnswers(o) PROVE SpinnerHasRead'
      BY <2>2, ShellFacts DEF CaseAnswers, SpinnerAfter, SpinnerHasRead
    <2>3. CASE UNCHANGED <<opened, spinner>>
      BY <2>3, ShellFacts DEF SpinnerHasRead
    <2> QED BY <2>1, <2>2, <2>3 DEF Refresh, RefreshEnds, ConfirmGoal, GoalAnswers, KernelChanges, caseVars, shellVars
  <1> QED BY <1>1, <1>2, <1>3, <1>4, ShellFacts, PollMoves

(* Steps of a connection, all of them taken while there is none or ending it.  *)
LEMMA ConnectionKeeps ==
  ASSUME ShellInv,
         \/ (\E found \in BOOLEAN : Discovered(found)) \/ (\E to \in {"local", "ext", "token"} : Choose(to))
         \/ RestoreTimer \/ Asked
  PROVE  ShellInv'
  <1>1. /\ UNCHANGED <<conn, by, visible, refreshing, snap, poll, overtaken, opened, spinner>>
    BY DEF Discovered, Choose, RestoreTimer, Asked, caseVars
  <1>2. LinkInv
    BY DEF ShellInv
  <1>3. LinkInv'
    <2>1. ASSUME NEW found \in BOOLEAN, Discovered(found) PROVE LinkInv'
      <3>1. UNCHANGED <<autoPaused, choice>>
        BY <2>1 DEF Discovered
      <3>2. CASE found /\ MayRestore
        <4>1. PICK a : a = attempt + 1
          OBVIOUS
        <4>2. PICK to : to = restore.pc
          OBVIOUS
        <4>3. /\ attempt' = a /\ to \in {"local", "ext"}
              /\ link' = [pc |-> "load", to |-> to, attempt |-> a, choice |-> 0, remember |-> FALSE]
          BY <2>1, <3>2, <4>1, <4>2 DEF Discovered
        <4>4. a \in Int /\ link' \in LinkType /\ link'.choice = 0
          BY <1>2, <4>1, <4>3 DEF LinkInv, LinkType, Transports
        <4>5. conn = "none" /\ choice = 0
          BY <1>2, <3>2 DEF LinkInv, MayRestore
        <4> QED BY <1>1, <1>2, <3>1, <4>3, <4>4, <4>5 DEF LinkInv, NewestChoiceWins
      <3>3. CASE ~(found /\ MayRestore)
        <4>1. UNCHANGED <<link, attempt>>
          BY <2>1, <3>3 DEF Discovered
        <4> QED BY <1>1, <1>2, <3>1, <4>1 DEF LinkInv, Connecting, NewestChoiceWins
      <3> QED BY <3>2, <3>3
    <2>2. ASSUME NEW to \in {"local", "ext", "token"}, Choose(to) PROVE LinkInv'
      <3>1. PICK a : a = attempt + 1
        OBVIOUS
      <3>2. PICK n : n = choice + 1
        OBVIOUS
      <3>3. PICK b \in BOOLEAN : b = (to = "token")
        OBVIOUS
      <3>4. /\ conn = "none" /\ attempt' = a /\ choice' = n /\ autoPaused' = TRUE
            /\ link' = [pc |-> "ask", to |-> to, attempt |-> a, choice |-> n, remember |-> b]
        BY <2>2, <3>1, <3>2, <3>3 DEF Choose
      <3>5. a \in Int /\ n \in Int
        BY <1>2, <3>1, <3>2 DEF LinkInv
      <3>6. link' \in LinkType /\ link'.choice = n
        BY <3>3, <3>4, <3>5 DEF LinkType, Transports
      <3> QED BY <1>1, <1>2, <3>4, <3>5, <3>6 DEF LinkInv, NewestChoiceWins
    <2>3. ASSUME RestoreTimer PROVE LinkInv'
      BY <1>1, <1>2, <2>3 DEF RestoreTimer, LinkInv, Connecting, NewestChoiceWins
    <2>4. ASSUME Asked PROVE LinkInv'
      <3>1. UNCHANGED <<autoPaused, choice>> /\ link.pc = "ask" /\ conn = "none" /\ link.choice = choice
        BY <1>2, <2>4 DEF Asked, LinkInv, Connecting
      <3>2. CASE link' = NoLink /\ UNCHANGED attempt
        BY <1>1, <1>2, <3>1, <3>2, FreshFacts DEF LinkInv, Connecting, NewestChoiceWins
      <3>3. CASE attempt' = attempt + 1 /\ link' = [link EXCEPT !.pc = "load", !.attempt = attempt + 1]
        <4>1. PICK a : a = attempt + 1
          OBVIOUS
        <4>2. a \in Int
          BY <1>2, <4>1 DEF LinkInv
        <4>3. attempt' = a /\ link' = [link EXCEPT !.pc = "load", !.attempt = a]
          BY <3>3, <4>1
        <4>4. link' \in LinkType /\ link'.choice = link.choice
          BY <1>2, <4>2, <4>3 DEF LinkInv, LinkType
        <4> QED BY <1>1, <1>2, <3>1, <4>2, <4>3, <4>4 DEF LinkInv, NewestChoiceWins
      <3> QED BY <2>4, <3>2, <3>3 DEF Asked
    <2> QED BY <2>1, <2>2, <2>3, <2>4
  <1>4. PollInv'
    BY <1>1 DEF ShellInv, PollInv, ReadsConnection, HintWaits, SnapshotIsOfConnection
  <1>5. SpinnerHasRead'
    BY <1>1, ShellFacts DEF SpinnerHasRead
  <1> QED BY <1>3, <1>4, <1>5 DEF ShellInv

LEMMA LinkedKeeps ==
  ASSUME ShellInv, Linked \/ Disconnect
  PROVE  ShellInv'
  <1>1. LinkInv /\ UNCHANGED <<visible, refreshing, overtaken, opened, spinner>>
    BY DEF ShellInv, Linked, Disconnect, caseVars
  <1>2. SpinnerHasRead'
    BY <1>1, ShellFacts DEF SpinnerHasRead
  <1>3. CASE Disconnect
    <2>1. /\ choice' = choice + 1 /\ autoPaused' = TRUE /\ attempt' = attempt + 1 /\ conn' = "none"
          /\ snap' = Nothing /\ poll' = FreshPoll /\ link' = link /\ conn # "none" /\ by' = by
      BY <1>3 DEF Disconnect, Cancelled
    <2>2. LinkInv'
      BY <1>1, <2>1 DEF LinkInv, Connecting, NewestChoiceWins, Transports
    <2>3. PollInv'
      BY <1>1, <2>1, FreshFacts, ShellFacts DEF PollInv, ReadsConnection, HintWaits, SnapshotIsOfConnection
    <2> QED BY <1>2, <2>2, <2>3 DEF ShellInv
  <1>4. CASE Linked
    <2>1. /\ link.pc = "load" /\ link' = NoLink /\ UNCHANGED <<autoPaused, attempt, choice>>
          /\ conn = "none" /\ link.choice = choice /\ poll = FreshPoll /\ link.to \in Transports
      BY <1>1, <1>4, ShellFacts DEF Linked, LinkInv, Connecting, LinkType
    <2>2. ASSUME NEW s \in Overviews(link.to), conn' = link.to, by' = link.choice, snap' = s, poll' = FreshPoll
          PROVE  ShellInv'
      <3>1. s.of = link.to /\ s \in SnapshotType
        BY <2>1, OverviewFacts
      <3>2. LinkInv'
        BY <1>1, <2>1, <2>2, FreshFacts DEF LinkInv, Connecting, NewestChoiceWins
      <3>3. PollInv'
        BY <1>1, <2>1, <2>2, <3>1, FreshFacts, ShellFacts
           DEF PollInv, ReadsConnection, HintWaits, SnapshotIsOfConnection
      <3> QED BY <1>2, <3>2, <3>3 DEF ShellInv
    <2>3. ASSUME conn' = "none", snap' = Nothing, UNCHANGED <<by, poll>> PROVE ShellInv'
      <3>1. LinkInv'
        BY <1>1, <2>1, <2>3, FreshFacts DEF LinkInv, Connecting, NewestChoiceWins
      <3>2. PollInv'
        BY <1>1, <2>1, <2>3, FreshFacts, ShellFacts
           DEF PollInv, ReadsConnection, HintWaits, SnapshotIsOfConnection
      <3> QED BY <1>2, <3>1, <3>2 DEF ShellInv
    <2> QED BY <1>4, <2>2, <2>3 DEF Linked
  <1> QED BY <1>3, <1>4

LEMMA ShellStarts ==
  ASSUME ShellInit
  PROVE  ShellInv
  <1>1. LinkInv
    <2>1. PICK l : l = [pc |-> "load", to |-> "token", attempt |-> 1, choice |-> 0, remember |-> TRUE]
      OBVIOUS
    <2>2. l \in LinkType /\ l.choice = 0
      BY <2>1 DEF LinkType, Transports
    <2>3. link = l \/ link = NoLink
      BY <2>1 DEF ShellInit
    <2>4. attempt \in Int /\ choice = 0 /\ conn = "none" /\ autoPaused = FALSE
      BY DEF ShellInit
    <2>5. link \in LinkType
      BY <2>2, <2>3, FreshFacts
    <2>6. Connecting => conn = "none" /\ link.choice = choice
      BY <2>2, <2>3, <2>4, FreshFacts DEF Connecting
    <2>7. NewestChoiceWins
      BY <2>4 DEF NewestChoiceWins
    <2>8. autoPaused \in BOOLEAN
      BY <2>4, Zenon
    <2>9. choice \in Int /\ conn \in Transports
      BY <2>4 DEF Transports
    <2> QED BY <2>4, <2>5, <2>6, <2>7, <2>8, <2>9 DEF LinkInv
  <1>2. PollInv
    BY FreshFacts DEF ShellInit, PollInv, ReadsConnection, HintWaits, SnapshotIsOfConnection, Transports
  <1>3. SpinnerHasRead
    BY DEF ShellInit, SpinnerHasRead
  <1> QED BY <1>1, <1>2, <1>3 DEF ShellInv

LEMMA ShellStep ==
  ASSUME ShellInv, [ShellNext]_shellVars
  PROVE  ShellInv'
  BY ConnectionKeeps, LinkedKeeps, PollStarts, WaveEndsKeeps, VisibilityKeeps, PanelKeeps
     DEF ShellNext, ConnectionNext, PollNext, PanelNext

LEMMA ShellIsSafe ==
  ASSUME ShellInv
  PROVE  ShellFollowsTheUser
  <1>1. HintIsFollowed
    BY ShellFacts DEF HintIsFollowed, HintWaits
  <1> QED BY <1>1, ShellFacts DEF ShellFollowsTheUser, ShellInv, LinkInv

(* However discovery, the user's choices, polls, hints, refreshes and Case     *)
(* reads interleave, and whatever the Kernel does meanwhile: the connection in *)
(* place is the user's newest choice, the page shows that connection's         *)
(* records, every hint is followed by a read that starts after it, and every   *)
(* spinner has a read under way (efesto-product-shell.tsx, visible-poller.ts,  *)
(* live-refresh.ts).                                                           *)
THEOREM ShellKeepsFollowing == ShellSpec => []ShellFollowsTheUser
  <1>1. ShellInit => ShellInv
    BY ShellStarts
  <1>2. ShellInv /\ [ShellNext]_shellVars => ShellInv'
    BY ShellStep
  <1>3. ShellInv => ShellFollowsTheUser
    BY ShellIsSafe
  <1> QED BY <1>1, <1>2, <1>3, PTL DEF ShellSpec

-----------------------------------------------------------------------------
(* Notifications. The file is behind the memory after a failed write, never    *)
(* ahead of it: what it holds, the memory holds too, so nothing a caller was   *)
(* told is lost by the next write. A list of receipts is orderly when it is    *)
(* numbered upwards, has one receipt per notification and event, and queued    *)
(* every notification it says was read or dismissed.                           *)

NotificationIds == {EventKey(t, o) : t \in Triggers, o \in Observations}
NotificationReceipts ==
  [sequence : Nat, id : NotificationIds, event : {"queued", "read", "dismissed"}, content : Contents \cup {"none"}]

Has(list, id, event) == \E i \in DOMAIN list : list[i].id = id /\ list[i].event = event

Orderly(list) ==
  /\ list \in Seq(NotificationReceipts)
  /\ \A i, j \in DOMAIN list : i < j => list[i].sequence < list[j].sequence
  /\ \A i, j \in DOMAIN list : list[i].id = list[j].id /\ list[i].event = list[j].event => i = j
  /\ \A i \in DOMAIN list : Has(list, list[i].id, "queued")

NotificationInv ==
  /\ \A e \in events : e.key \in NotificationIds
  /\ loaded \in BOOLEAN
  /\ Orderly(Loaded) /\ Orderly(file)
  /\ \A i \in DOMAIN file : Has(Loaded, file[i].id, file[i].event)
  /\ told \in SUBSET (NotificationIds \X {"queued", "read", "dismissed"})
  /\ \A x \in told : Has(file, x[1], x[2])

LEMMA ViewFacts ==
  ASSUME NEW list, NEW id
  PROVE  /\ View(list, id) = "absent" <=> ~Has(list, id, "queued")
         /\ View(list, id) = "dismissed" <=> Has(list, id, "queued") /\ Has(list, id, "dismissed")
         /\ View(list, id) = "read" => Has(list, id, "read")
         /\ Has(list, id, "queued") /\ Has(list, id, "read") /\ ~Has(list, id, "dismissed") => View(list, id) = "read"
  <1>1. \A e : (\E i \in {i \in DOMAIN list : list[i].id = id} : list[i].event = e) <=> Has(list, id, e)
    BY DEF Has
  <1>2. CASE ~Has(list, id, "queued")
    <2>1. View(list, id) = "absent"
      BY <1>1, <1>2 DEF View
    <2> QED BY <1>2, <2>1
  <1>3. CASE Has(list, id, "queued") /\ Has(list, id, "dismissed")
    <2>1. View(list, id) = "dismissed"
      BY <1>1, <1>3 DEF View
    <2> QED BY <1>3, <2>1
  <1>4. CASE Has(list, id, "queued") /\ ~Has(list, id, "dismissed") /\ Has(list, id, "read")
    <2>1. View(list, id) = "read"
      BY <1>1, <1>4 DEF View
    <2> QED BY <1>4, <2>1
  <1>5. CASE Has(list, id, "queued") /\ ~Has(list, id, "dismissed") /\ ~Has(list, id, "read")
    <2>1. View(list, id) = "unread"
      BY <1>1, <1>5 DEF View
    <2> QED BY <1>5, <2>1
  <1> QED BY <1>2, <1>3, <1>4, <1>5

LEMMA SequenceType ==
  ASSUME NEW list, Orderly(list)
  PROVE  NextSequence(list) \in Nat
  <1>1. CASE list = <<>>
    BY <1>1 DEF NextSequence
  <1>2. CASE list # <<>>
    <2>1. Last(list) \in NotificationReceipts
      <3>1. list \in Seq(NotificationReceipts) /\ Len(list) \in 1 .. Len(list)
        BY <1>2 DEF Orderly
      <3> QED BY <3>1 DEF Last
    <2> QED BY <1>2, <2>1 DEF NextSequence, NotificationReceipts
  <1> QED BY <1>1, <1>2

(* A receipt of an event the notification has not had is added at the end.     *)
LEMMA ReceiptAdded ==
  ASSUME NEW list, Orderly(list), NEW x \in NotificationReceipts, NEW longer, longer = Append(list, x),
         x.sequence = NextSequence(list), ~Has(list, x.id, x.event),
         x.event = "queued" \/ Has(list, x.id, "queued")
  PROVE  /\ Orderly(longer) /\ Has(longer, x.id, x.event)
         /\ \A id, e : Has(list, id, e) => Has(longer, id, e)
  <1>1. /\ list \in Seq(NotificationReceipts) /\ Len(list) \in Nat /\ DOMAIN list = 1 .. Len(list)
        /\ \A i \in DOMAIN list : list[i] \in NotificationReceipts
    BY DEF Orderly
  <1>2. /\ longer \in Seq(NotificationReceipts) /\ Len(longer) = Len(list) + 1
        /\ \A i \in 1 .. Len(list) : longer[i] = list[i]
        /\ longer[Len(list) + 1] = x
    BY <1>1, AppendProperties
  <1>3. PICK n : n = Len(list) + 1
    OBVIOUS
  <1>4. /\ DOMAIN longer = DOMAIN list \cup {n} /\ n \notin DOMAIN list /\ longer[n] = x
        /\ \A i \in DOMAIN list : longer[i] = list[i] /\ i < n /\ i \in Nat
        /\ n \in Nat
    BY <1>1, <1>2, <1>3
  <1>5. \A i \in DOMAIN list : list[i].sequence < x.sequence
    <2>1. SUFFICES ASSUME NEW i \in DOMAIN list PROVE list[i].sequence < x.sequence
      OBVIOUS
    <2>2. list # <<>> /\ Len(list) \in DOMAIN list /\ i \in Nat /\ i <= Len(list)
      BY <1>1, <2>1
    <2>3. PICK l : l = list[Len(list)]
      OBVIOUS
    <2>4. l.sequence \in Nat /\ list[i].sequence \in Nat
      BY <1>1, <2>2, <2>3 DEF NotificationReceipts
    <2>5. x.sequence = l.sequence + 1
      BY <2>2, <2>3 DEF NextSequence, Last
    <2>6. list[i].sequence <= l.sequence
      BY <1>1, <2>2, <2>3, <2>4 DEF Orderly
    <2> QED BY <2>4, <2>5, <2>6
  <1>6. \A id, e : Has(list, id, e) => Has(longer, id, e)
    BY <1>4 DEF Has
  <1>7. Has(longer, x.id, x.event)
    BY <1>4 DEF Has
  <1>8. \A i, j \in DOMAIN longer : i < j => longer[i].sequence < longer[j].sequence
    BY <1>4, <1>5 DEF Orderly
  <1>9. \A i, j \in DOMAIN longer : longer[i].id = longer[j].id /\ longer[i].event = longer[j].event => i = j
    BY <1>4 DEF Orderly, Has
  <1>10. \A i \in DOMAIN longer : Has(longer, longer[i].id, "queued")
    <2>1. \A i \in DOMAIN list : Has(longer, longer[i].id, "queued")
      BY <1>4, <1>6 DEF Orderly
    <2>2. Has(longer, longer[n].id, "queued")
      BY <1>4, <1>6, <1>7
    <2> QED BY <1>4, <2>1, <2>2
  <1> QED BY <1>2, <1>6, <1>7, <1>8, <1>9, <1>10 DEF Orderly

(* A transaction that adds one receipt, whether or not the file is written.    *)
LEMMA ReceiptWritten ==
  ASSUME NotificationInv, NEW id \in NotificationIds, NEW event \in {"queued", "read", "dismissed"},
         NEW x \in NotificationReceipts, x.id = id, x.event = event, x.sequence = NextSequence(Loaded),
         NEW ok \in BOOLEAN, WriteReceipts(Append(Loaded, x), ok), UNCHANGED events,
         told' = IF ok THEN told \cup {<<id, event>>} ELSE told,
         ~Has(Loaded, id, event), event = "queued" \/ Has(Loaded, id, "queued")
  PROVE  NotificationInv'
  <1>1. PICK list : list = Loaded
    OBVIOUS
  <1>2. PICK longer : longer = Append(list, x)
    OBVIOUS
  <1>3. /\ Orderly(longer) /\ Has(longer, id, event)
        /\ \A i, e : Has(list, i, e) => Has(longer, i, e)
    BY <1>1, <1>2, ReceiptAdded DEF NotificationInv
  <1>4. Loaded' = longer /\ loaded' = TRUE /\ file' = IF ok THEN longer ELSE file
    BY <1>1, <1>2 DEF WriteReceipts, Loaded
  <1>5. Orderly(file')
    BY <1>3, <1>4 DEF NotificationInv
  <1>6. \A i \in DOMAIN file' : Has(longer, file'[i].id, file'[i].event)
    <2>1. CASE ok
      BY <1>4, <2>1 DEF Has
    <2>2. CASE ~ok
      BY <1>1, <1>3, <1>4, <2>2 DEF NotificationInv
    <2> QED BY <2>1, <2>2
  <1>7. \A y \in told' : Has(file', y[1], y[2])
    <2>1. \A i, e : Has(file, i, e) => Has(list, i, e)
      BY <1>1 DEF NotificationInv, Has
    <2>2. CASE ok
      <3>1. \A y \in told : Has(longer, y[1], y[2])
        BY <1>3, <2>1 DEF NotificationInv
      <3> QED BY <1>3, <1>4, <2>2, <3>1
    <2>3. CASE ~ok
      BY <1>4, <2>3 DEF NotificationInv
    <2> QED BY <2>2, <2>3
  <1>8. told' \in SUBSET (NotificationIds \X {"queued", "read", "dismissed"})
    BY DEF NotificationInv
  <1>9. Orderly(Loaded)' /\ Orderly(file)'
    BY <1>3, <1>4, <1>5 DEF Orderly, Has
  <1>10. (\A i \in DOMAIN file : Has(Loaded, file[i].id, file[i].event))'
    BY <1>4, <1>6 DEF Has
  <1>11. (\A y \in told : Has(file, y[1], y[2]))'
    BY <1>7 DEF Has
  <1>12. (\A e \in events : e.key \in NotificationIds)' /\ loaded' \in BOOLEAN
    BY <1>4 DEF NotificationInv
  <1> QED BY <1>8, <1>9, <1>10, <1>11, <1>12 DEF NotificationInv

(* A step that leaves the receipts as they are.                                *)
LEMMA ReceiptsKept ==
  ASSUME NotificationInv, UNCHANGED <<file, told>>, loaded' \in BOOLEAN, Loaded' \in {Loaded, file},
         \A e \in events' : e.key \in NotificationIds
  PROVE  NotificationInv'
  <1>1. Orderly(Loaded)' /\ Orderly(file)'
    <2>1. PICK list : list = Loaded'
      OBVIOUS
    <2>2. Orderly(list) /\ Orderly(file)
      BY <2>1 DEF NotificationInv
    <2> QED BY <2>1, <2>2 DEF Orderly, Has
  <1>2. (\A i \in DOMAIN file : Has(Loaded, file[i].id, file[i].event))'
    BY DEF NotificationInv, Has
  <1>3. (\A y \in told : Has(file, y[1], y[2]))'
    BY DEF NotificationInv, Has
  <1> QED BY <1>1, <1>2, <1>3 DEF NotificationInv

LEMMA QueueKeeps ==
  ASSUME NotificationInv, NEW e \in events, NEW content \in Contents, NEW ok \in BOOLEAN, Queue(e, content, ok)
  PROVE  NotificationInv'
  <1>1. CASE View(Loaded, e.key) # "absent"
    <2>1. loaded' = TRUE /\ Loaded' = Loaded /\ UNCHANGED <<file, told, events>>
      BY <1>1 DEF Queue, KeepReceipts, Loaded
    <2> QED BY <2>1, ReceiptsKept DEF NotificationInv
  <1>2. CASE View(Loaded, e.key) = "absent"
    <2>1. PICK x : x = [sequence |-> NextSequence(Loaded), id |-> e.key, event |-> "queued", content |-> content]
      OBVIOUS
    <2>2. e.key \in NotificationIds /\ ~Has(Loaded, e.key, "queued")
      BY <1>2, ViewFacts DEF NotificationInv
    <2>3. /\ x \in NotificationReceipts /\ x.id = e.key /\ x.event = "queued" /\ x.sequence = NextSequence(Loaded)
      BY <2>1, <2>2, SequenceType DEF NotificationInv, NotificationReceipts
    <2>4. /\ WriteReceipts(Append(Loaded, x), ok) /\ UNCHANGED events
          /\ told' = IF ok THEN told \cup {<<e.key, "queued">>} ELSE told
      BY <1>2, <2>1 DEF Queue
    <2> QED BY <2>2, <2>3, <2>4, ReceiptWritten
  <1> QED BY <1>1, <1>2

LEMMA AppendStateKeeps ==
  ASSUME NotificationInv, NEW e \in events, NEW event \in {"read", "dismissed"}, NEW ok \in BOOLEAN,
         AppendState(e, event, ok)
  PROVE  NotificationInv'
  <1>1. CASE View(Loaded, e.key) \in {event, "dismissed"}
    <2>1. loaded' = TRUE /\ Loaded' = Loaded /\ UNCHANGED <<file, told, events>>
      BY <1>1 DEF AppendState, KeepReceipts, Loaded
    <2> QED BY <2>1, ReceiptsKept DEF NotificationInv
  <1>2. CASE View(Loaded, e.key) \notin {event, "dismissed"}
    <2>1. PICK x : x = [sequence |-> NextSequence(Loaded), id |-> e.key, event |-> event, content |-> "none"]
      OBVIOUS
    <2>2. e.key \in NotificationIds /\ Has(Loaded, e.key, "queued") /\ ~Has(Loaded, e.key, event)
      <3>1. e.key \in NotificationIds /\ View(Loaded, e.key) # "absent"
        BY DEF NotificationInv, AppendState
      <3> QED BY <1>2, <3>1, ViewFacts
    <2>3. x \in NotificationReceipts /\ x.id = e.key /\ x.event = event /\ x.sequence = NextSequence(Loaded)
      BY <2>1, <2>2, SequenceType DEF NotificationInv, NotificationReceipts
    <2>4. /\ WriteReceipts(Append(Loaded, x), ok) /\ UNCHANGED events
          /\ told' = IF ok THEN told \cup {<<e.key, event>>} ELSE told
      BY <1>2, <2>1 DEF AppendState
    <2> QED BY <2>2, <2>3, <2>4, ReceiptWritten
  <1> QED BY <1>1, <1>2

LEMMA NotificationStarts ==
  ASSUME NotificationInit
  PROVE  NotificationInv
  <1>1. Loaded = <<>> /\ file = <<>> /\ DOMAIN file = {}
    BY DEF NotificationInit, Loaded
  <1>2. Orderly(<<>>)
    <2>1. PICK none : none = <<>>
      OBVIOUS
    <2>2. none \in Seq(NotificationReceipts) /\ DOMAIN none = {}
      BY <2>1
    <2>3. Orderly(none)
      BY <2>2 DEF Orderly
    <2> QED BY <2>1, <2>3
  <1> QED BY <1>1, <1>2 DEF NotificationInit, NotificationInv

LEMMA NotificationStep ==
  ASSUME NotificationInv, [NotificationNext]_notificationVars
  PROVE  NotificationInv'
  <1>1. ASSUME NEW t \in Triggers, NEW o \in Observations, EvaluateTrigger(t, o) PROVE NotificationInv'
    <2>1. EventKey(t, o) \in NotificationIds
      BY DEF NotificationIds
    <2>2. Loaded' = Loaded /\ loaded' = loaded /\ UNCHANGED <<file, told>>
      BY <1>1 DEF EvaluateTrigger, Loaded
    <2>3. \A e \in events' : e.key \in NotificationIds
      BY <1>1, <2>1 DEF EvaluateTrigger, NotificationInv
    <2> QED BY <2>2, <2>3, ReceiptsKept DEF NotificationInv
  <1>2. ASSUME RestartStore PROVE NotificationInv'
    <2>1. Loaded' = file /\ loaded' = FALSE /\ UNCHANGED <<file, told, events>>
      BY <1>2 DEF RestartStore, Loaded
    <2> QED BY <2>1, ReceiptsKept DEF NotificationInv
  <1>3. ASSUME UNCHANGED notificationVars PROVE NotificationInv'
    <2>1. Loaded' = Loaded /\ loaded' = loaded /\ UNCHANGED <<file, told, events>>
      BY <1>3 DEF notificationVars, Loaded
    <2> QED BY <2>1, ReceiptsKept DEF NotificationInv
  <1> QED BY <1>1, <1>2, <1>3, QueueKeeps, AppendStateKeeps DEF NotificationNext

LEMMA NotificationIsSafe ==
  ASSUME NotificationInv
  PROVE  NotificationsHold
  <1>1. OneNotificationPerEvent
    BY DEF NotificationInv, Orderly, OneNotificationPerEvent
  <1>2. AcknowledgedIsDurable
    BY DEF NotificationInv, AcknowledgedIsDurable, Has, ToSet
  <1>3. DismissedStaysDismissed
    <2>1. SUFFICES ASSUME NEW x \in told, x[2] = "dismissed" PROVE View(file, x[1]) = "dismissed"
      BY DEF DismissedStaysDismissed
    <2>2. Has(file, x[1], "dismissed")
      BY <2>1 DEF NotificationInv
    <2>3. Has(file, x[1], "queued")
      BY <2>2 DEF NotificationInv, Orderly, Has
    <2> QED BY <2>2, <2>3, ViewFacts
  <1> QED BY <1>1, <1>2, <1>3 DEF NotificationsHold

(* However often triggers fire again, writes of the receipt file fail and the  *)
(* Kernel restarts, one event is one notification, what a caller was told      *)
(* after its own write stays in the file, and a dismissed notification never   *)
(* comes back (TriggerEngine.evaluate, NotificationGateway,                    *)
(* FileNotificationReceiptStore).                                              *)
THEOREM NotificationsStayTrue == NotificationSpec => []NotificationsHold
  <1>1. NotificationInit => NotificationInv
    BY NotificationStarts
  <1>2. NotificationInv /\ [NotificationNext]_notificationVars => NotificationInv'
    BY NotificationStep
  <1>3. NotificationInv => NotificationsHold
    BY NotificationIsSafe
  <1> QED BY <1>1, <1>2, <1>3, PTL DEF NotificationSpec

-----------------------------------------------------------------------------
(* A finite set of numbers has a largest one: the one with the fewest above it. *)
LEMMA LargestNumber ==
  ASSUME NEW S, S \subseteq Nat, IsFiniteSet(S), S # {}
  PROVE  \E x \in S : \A y \in S : y <= x
  <1> DEFINE R == OpToRel(<, Nat)
             above(x) == {y \in S : x < y}
             counts == {Cardinality(above(x)) : x \in S}
  <1>1. \A x \in S : IsFiniteSet(above(x)) /\ Cardinality(above(x)) \in Nat
    BY FS_Subset, FS_CardinalityType
  <1>2. counts \subseteq Nat /\ counts # {}
    BY <1>1
  <1>3. PICK c \in counts : \A d \in counts : ~(<<d, c>> \in R)
    BY <1>2, NatLessThanWellFounded, WFMin
  <1>4. PICK x \in S : c = Cardinality(above(x))
    BY <1>3
  <1>5. \A y \in S : ~(Cardinality(above(y)) < Cardinality(above(x)))
    <2>1. \A d \in counts : d < c => <<d, c>> \in R
      BY <1>2 DEF OpToRel
    <2> HIDE DEF R
    <2> QED BY <1>2, <1>3, <1>4, <2>1
  <1>6. ASSUME NEW y \in S, x < y PROVE FALSE
    <2>0. ASSUME NEW z \in S, y < z PROVE x < z
      <3>1. x \in Nat /\ y \in Nat /\ z \in Nat
        OBVIOUS
      <3> QED BY <1>6, <2>0, <3>1
    <2>1. above(y) \subseteq above(x)
      BY <2>0, Zenon
    <2>2. y \in above(x)
      BY <1>6, Zenon
    <2>3. y \notin above(y)
      <3>1. y \in Nat
        OBVIOUS
      <3>2. ~(y < y)
        BY <3>1
      <3> QED BY <3>2, Zenon
    <2> HIDE DEF above
    <2>4. /\ Cardinality(above(y)) <= Cardinality(above(x))
          /\ Cardinality(above(x)) = Cardinality(above(y)) => above(x) = above(y)
      BY <1>1, <2>1, FS_Subset
    <2>5. above(x) # above(y)
      BY <2>2, <2>3, Zenon
    <2>6. PICK a, b : a = Cardinality(above(y)) /\ b = Cardinality(above(x))
      OBVIOUS
    <2>7. a \in Nat /\ b \in Nat /\ ~(a < b)
      BY <1>1, <1>5, <2>6
    <2>8. a <= b /\ a # b
      BY <2>4, <2>5, <2>6
    <2> QED BY <2>7, <2>8
  <1> QED BY <1>6

-----------------------------------------------------------------------------
(* The power button. A cycle that has read the switch goes on with what it     *)
(* read, so that a pause cannot stop the Mission it is about to start; but     *)
(* that cycle ends with it, and the next one reads the switch again. It starts *)
(* a Mission only after it saw that the newest one is not live, and no other   *)
(* can be, because whatever starts a Mission makes it the newest.              *)

CycleRecord == [pc : {"off", "read", "unpair", "list", "store", "start", "restart", "finish"},
                done : SUBSET Goals, goal : Goals \cup {0}, waits : BOOLEAN]

ForgeTypeOK ==
  /\ enabled \in BOOLEAN
  /\ doneGoals \subseteq Goals
  /\ forgeMission \in [Goals -> Statuses]
  /\ newest \in Goals \cup {0}
  /\ cycle \in CycleRecord

PauseInv ==
  /\ paused \in {0, 1}
  /\ paused = 1 => ~enabled /\ cycle.pc \in {"off", "read"}
OneLiveInv ==
  /\ \A g \in Goals : forgeMission[g] = "queued" => g = newest
  /\ cycle.pc \in {"store", "start", "restart", "finish"} => \A g \in Goals : forgeMission[g] # "queued"
  /\ cycle.pc \in {"start", "restart"} => cycle.goal \in Goals

ForgeInv == ForgeTypeOK /\ PauseInv /\ OneLiveInv

LEMMA IdleRecords ==
  /\ ForgeIdle \in CycleRecord /\ ForgeIdle.pc = "off"
  /\ \A p \in {"off", "read", "unpair", "list", "store", "start", "restart", "finish"} :
        /\ [ForgeIdle EXCEPT !.pc = p] \in CycleRecord
        /\ [ForgeIdle EXCEPT !.pc = p].pc = p
  BY DEF ForgeIdle, CycleRecord

LEMMA NextGoal ==
  ASSUME NEW d \in SUBSET Goals, Remaining(d) # {}
  PROVE  selectNextGoal(d) \in Goals
  <1>1. IsFiniteSet(Remaining(d)) /\ Remaining(d) \subseteq Nat /\ Remaining(d) \subseteq Goals
    BY ForgeGoals, FS_Subset DEF Remaining
  <1>2. \E g \in Remaining(d) : \A h \in Remaining(d) : h <= g
    BY <1>1, LargestNumber
  <1> QED BY <1>1, <1>2 DEF selectNextGoal

LEMMA ForgeInitInv == ForgeInit => ForgeInv
  <1> SUFFICES ASSUME ForgeInit PROVE ForgeInv
    OBVIOUS
  <1>1. cycle \in CycleRecord /\ cycle.pc \in {"off", "read"}
    BY IdleRecords DEF ForgeInit
  <1> QED BY <1>1 DEF ForgeInit, ForgeInv, ForgeTypeOK, PauseInv, OneLiveInv, Statuses

LEMMA ForgeNextInv == ForgeInv /\ [ForgeNext]_forgeVars => ForgeInv'
  <1> SUFFICES ASSUME ForgeInv, [ForgeNext]_forgeVars PROVE ForgeInv'
    OBVIOUS
  <1> USE DEF ForgeInv, ForgeTypeOK, PauseInv, OneLiveInv, storageVars, kernelVars, boundVars
  <1>1. CASE Press
    BY <1>1 DEF Press
  <1>2. CASE PressRead
    BY <1>2 DEF PressRead
  <1>3. CASE PressWrite
    <2>1. cycle' \in CycleRecord /\ cycle'.pc \in {cycle.pc, "read"} /\ (cycle' = cycle \/ cycle'.pc = "read")
      BY <1>3, IdleRecords DEF PressWrite
    <2>2. enabled' \in BOOLEAN
      BY <1>3 DEF PressWrite
    <2> QED BY <1>3, <2>1, <2>2 DEF PressWrite
  <1>4. CASE TimerFires
    <2>1. cycle' \in CycleRecord /\ (cycle' = cycle \/ (cycle.pc = "off" /\ cycle'.pc = "read"))
      BY <1>4, IdleRecords DEF TimerFires
    <2> QED BY <1>4, <2>1 DEF TimerFires
  <1>5. CASE CycleRead
    <2>1. /\ cycle' \in CycleRecord /\ cycle'.pc \in {"off", "unpair", "list"}
          /\ ~enabled => cycle'.pc = "off"
      <3>1. CASE ~enabled
        BY <1>5, <3>1, IdleRecords DEF CycleRead
      <3>2. CASE enabled /\ ~token
        BY <1>5, <3>2, IdleRecords DEF CycleRead
      <3>3. CASE enabled /\ token
        <4>1. cycle' = [ForgeIdle EXCEPT !.pc = "list", !.done = doneGoals]
          BY <1>5, <3>3 DEF CycleRead
        <4> QED BY <3>3, <4>1 DEF ForgeIdle, CycleRecord
      <3> QED BY <3>1, <3>2, <3>3
    <2> QED BY <1>5, <2>1 DEF CycleRead
  <1>6. CASE CycleUnpair
    BY <1>6, IdleRecords DEF CycleUnpair, StopForge
  <1>7. CASE CycleList
    <2>1. PICK s : s = StatusOf(newest)
      OBVIOUS
    <2>2. s # "none" => newest \in Goals /\ s = forgeMission[newest]
      BY <2>1 DEF StatusOf
    <2>3. s # "queued" => \A g \in Goals : forgeMission[g] # "queued"
      BY <2>1, ForgeGoals DEF StatusOf
    <2>u. UNCHANGED <<enabled, doneGoals, token, forgeMission, newest, paused>> /\ cycle.pc = "list"
      BY <1>7 DEF CycleList
    <2>4. CASE cycle' = [cycle EXCEPT !.pc = "restart", !.goal = newest] /\ s = "waiting_for_agent"
      <3>1. cycle' \in CycleRecord /\ cycle'.pc = "restart" /\ cycle'.goal = newest /\ newest \in Goals
        BY <2>2, <2>4 DEF CycleRecord
      <3> QED BY <2>3, <2>4, <2>u, <3>1
    <2>5. CASE Schedule
      BY <2>5, <2>u, IdleRecords DEF Schedule
    <2>6. CASE /\ s # "queued"
               /\ cycle' = [pc |-> "store", goal |-> newest, waits |-> s = "waiting_for_agent",
                            done |-> cycle.done \cup (IF s = "completed" THEN {newest} ELSE {})]
      <3>1. PICK b \in BOOLEAN : b = (s = "waiting_for_agent")
        OBVIOUS
      <3>2. PICK d \in SUBSET Goals : d = cycle.done \cup (IF s = "completed" THEN {newest} ELSE {})
        BY <2>2 DEF CycleRecord
      <3>3. cycle' = [pc |-> "store", goal |-> newest, waits |-> b, done |-> d]
        BY <2>6, <3>1, <3>2
      <3>4. cycle' \in CycleRecord /\ cycle'.pc = "store"
        BY <3>3 DEF CycleRecord
      <3> QED BY <2>3, <2>6, <2>u, <3>4
    <2> QED BY <1>7, <2>1, <2>4, <2>5, <2>6 DEF CycleList
  <1>8. CASE CycleStore
    <2>1. doneGoals' \subseteq Goals /\ UNCHANGED <<enabled, forgeMission, newest, paused>> /\ cycle.pc = "store"
      BY <1>8 DEF CycleStore, CycleRecord
    <2>2. CASE cycle' = [cycle EXCEPT !.pc = "finish"]
      <3>1. cycle' \in CycleRecord /\ cycle'.pc = "finish"
        BY <2>2 DEF CycleRecord
      <3> QED BY <2>1, <3>1
    <2>3. CASE cycle' = ForgeIdle
      BY <2>1, <2>3, IdleRecords
    <2>4. CASE Remaining(cycle.done) # {} /\ cycle' = [cycle EXCEPT !.pc = "start", !.goal = selectNextGoal(cycle.done)]
      <3>1. PICK g \in Goals : g = selectNextGoal(cycle.done)
        BY <2>4, NextGoal DEF CycleRecord
      <3>2. cycle' \in CycleRecord /\ cycle'.pc = "start" /\ cycle'.goal = g
        BY <2>4, <3>1 DEF CycleRecord
      <3> QED BY <2>1, <3>2
    <2> QED BY <1>8, <2>2, <2>3, <2>4 DEF CycleStore, StopForge
  <1>9. CASE CycleFinish
    BY <1>9, IdleRecords DEF CycleFinish, StopForge
  <1>10. CASE CycleStart
    <2>1. PICK g \in Goals : g = cycle.goal
      BY <1>10 DEF CycleStart
    <2>2. \A h \in Goals : forgeMission[h] # "queued"
      BY <1>10 DEF CycleStart
    <2>3. PICK s \in Statuses : forgeMission' = [forgeMission EXCEPT ![g] = s]
      <3>1. PICK s : s = IF forgeMission[cycle.goal] = "queued" \/ hermes THEN "queued" ELSE "waiting_for_agent"
        OBVIOUS
      <3>2. forgeMission' = [forgeMission EXCEPT ![g] = s] /\ s \in Statuses
        BY <1>10, <2>1, <3>1 DEF CycleStart, Statuses
      <3> QED BY <3>2
    <2>4. newest' = g
      BY <1>10, <2>1, <2>2 DEF CycleStart
    <2>5. forgeMission' \in [Goals -> Statuses] /\ \A h \in Goals : forgeMission'[h] = "queued" => h = g
      BY <2>2, <2>3
    <2>6. paused' = (IF enabled THEN paused ELSE paused + 1) /\ UNCHANGED <<enabled, doneGoals>>
      BY <1>10, <2>1, <2>2 DEF CycleStart
    <2>7. cycle' = ForgeIdle /\ cycle.pc \in {"start", "restart"}
      BY <1>10 DEF CycleStart, Schedule
    <2>8. paused = 0
      BY <2>7
    <2>9. paused' \in {0, 1} /\ (paused' = 1 => ~enabled')
      BY <2>6, <2>8
    <2> QED BY <2>4, <2>5, <2>6, <2>7, <2>9, IdleRecords
  <1>11. CASE CycleFails
    BY <1>11, IdleRecords DEF CycleFails, Schedule
  <1>12. CASE ReopenPanel
    <2>1. cycle' \in CycleRecord /\ cycle'.pc \in {"off", "read"}
      BY <1>12, IdleRecords DEF ReopenPanel
    <2> QED BY <1>12, <2>1 DEF ReopenPanel
  <1>13. CASE MissionEnds
    <2>1. PICK g \in Goals, s \in {"completed", "failed"} : forgeMission' = [forgeMission EXCEPT ![g] = s]
      BY <1>13 DEF MissionEnds
    <2>2. forgeMission' \in [Goals -> Statuses] /\ \A h \in Goals : forgeMission'[h] = "queued" => forgeMission[h] = "queued"
      BY <2>1 DEF Statuses
    <2> QED BY <1>13, <2>2 DEF MissionEnds
  <1>14. CASE HermesChanges
    BY <1>14 DEF HermesChanges
  <1>15. CASE Unpair
    BY <1>15 DEF Unpair
  <1>16. CASE UNCHANGED forgeVars
    BY <1>16 DEF forgeVars
  <1> QED BY <1>1, <1>2, <1>3, <1>4, <1>5, <1>6, <1>7, <1>8, <1>9, <1>10, <1>11, <1>12, <1>13,
             <1>14, <1>15, <1>16 DEF ForgeNext, CycleStep

(* A pause holds: at most one Mission is started after it, by a cycle that had *)
(* already read the switch; and the Goals are forged one after the other       *)
(* (central-forge-power-controller.js, runCycle and handlePress), for any      *)
(* number of Goals, presses, faults and reopened panels.                       *)
THEOREM ForgeStaysObedient == ForgeSpec => []ForgeKeepsToTheSwitch
  <1>1. ForgeInv => ForgeKeepsToTheSwitch
    <2> SUFFICES ASSUME ForgeInv PROVE ForgeKeepsToTheSwitch
      OBVIOUS
    <2>1. PauseStopsStarts
      BY DEF ForgeInv, PauseInv, PauseStopsStarts
    <2>2. {g \in Goals : forgeMission[g] = "queued"} \subseteq {newest}
      BY DEF ForgeInv, OneLiveInv
    <2>3. IsFiniteSet({newest}) /\ Cardinality({newest}) = 1
      BY FS_Singleton
    <2>4. OneMissionAtATime
      <3>1. PICK live : live = {g \in Goals : forgeMission[g] = "queued"}
        OBVIOUS
      <3>2. Cardinality(live) <= Cardinality({newest})
        BY <2>2, <2>3, <3>1, FS_Subset
      <3> QED BY <2>3, <3>1, <3>2 DEF OneMissionAtATime
    <2> QED BY <2>1, <2>4 DEF ForgeKeepsToTheSwitch
  <1> QED BY <1>1, ForgeInitInv, ForgeNextInv, PTL DEF ForgeSpec

-----------------------------------------------------------------------------
(* The popup's refresher. Its flags are set by five handlers in any order;     *)
(* the loop cannot die because whoever clears the timer while the popup is     *)
(* shown either starts a refresh or finds one under way, and a refresh that    *)
(* ends sets the timer whatever its outcome. The counter of failures is the    *)
(* number of failures in a row, kept across stops and hidden popups.           *)

HubRecord == [timer : BOOLEAN, refreshing : BOOLEAN, stopped : BOOLEAN, visible : BOOLEAN,
              failures : Nat, unreachable : BOOLEAN, streak : Nat]
HubCounts(h) ==
  /\ h.failures = h.streak
  /\ h.unreachable <=> h.streak >= UnreachableAfter
HubAlive(h) == ~h.stopped /\ h.visible => h.timer \/ h.refreshing
HubGood(h) == h \in HubRecord /\ HubCounts(h) /\ HubAlive(h)

LEMMA HubScheduleGood ==
  ASSUME NEW h \in HubRecord, HubCounts(h)
  PROVE  HubGood(HubSchedule(h))
  <1>1. PICK b \in BOOLEAN : b = (~h.stopped /\ h.visible)
    BY DEF HubRecord
  <1>2. HubSchedule(h) = [h EXCEPT !.timer = b]
    BY <1>1 DEF HubSchedule
  <1> QED BY <1>1, <1>2, Zenon DEF HubRecord, HubCounts, HubAlive, HubGood

LEMMA HubRunGood ==
  ASSUME NEW h \in HubRecord, HubCounts(h)
  PROVE  HubGood(HubRun(h))
  BY DEF HubRecord, HubCounts, HubAlive, HubGood, HubRun

LEMMA ReadsAreCounted ==
  ASSUME NEW h \in HubRecord, HubCounts(h)
  PROVE  /\ ReadSucceeded(h) \in HubRecord /\ HubCounts(ReadSucceeded(h))
         /\ ReadFailed(h) \in HubRecord /\ HubCounts(ReadFailed(h))
  <1>1. ReadSucceeded(h) \in HubRecord /\ HubCounts(ReadSucceeded(h))
    <2>1. ReadSucceeded(h) \in HubRecord
      BY DEF HubRecord, ReadSucceeded
    <2>2. /\ ReadSucceeded(h).failures = 0 /\ ReadSucceeded(h).streak = 0
          /\ ~ReadSucceeded(h).unreachable
      BY DEF HubRecord, ReadSucceeded
    <2>3. ~(0 >= UnreachableAfter)
      BY UnreachableIsCounted
    <2> QED BY <2>1, <2>2, <2>3 DEF HubCounts
  <1>2. PICK n \in Nat : n = IF h.failures < UnreachableAfter THEN h.failures + 1 ELSE h.failures
    BY UnreachableIsCounted DEF HubRecord
  <1>3. PICK u \in BOOLEAN : u = (h.unreachable \/ n >= UnreachableAfter)
    BY DEF HubRecord
  <1>4. ReadFailed(h) = [h EXCEPT !.failures = n, !.unreachable = u, !.streak = n]
    BY <1>2, <1>3 DEF ReadFailed, HubRecord, HubCounts
  <1>5. u <=> n >= UnreachableAfter
    <2>1. PICK f \in Nat : f = h.failures /\ (h.unreachable <=> f >= UnreachableAfter)
      BY DEF HubRecord, HubCounts
    <2>2. f >= UnreachableAfter => n >= UnreachableAfter
      BY <1>2, <2>1, UnreachableIsCounted
    <2> QED BY <1>3, <2>1, <2>2, Zenon
  <1>6. ReadFailed(h) \in HubRecord /\ HubCounts(ReadFailed(h))
    BY <1>4, <1>5 DEF HubRecord, HubCounts
  <1> QED BY <1>1, <1>6

LEMMA HubInitGood == StreamInit => HubGood(hub)
  BY UnreachableIsCounted DEF StreamInit, HubInit, HubGood, HubRecord, HubCounts, HubAlive

LEMMA HubNextGood ==
  HubGood(hub) /\ [StreamNext \/ HubNext]_streamVars => HubGood(hub')
  <1> SUFFICES ASSUME HubGood(hub), [StreamNext \/ HubNext]_streamVars
               PROVE  HubGood(hub')
    OBVIOUS
  <1>t. hub \in HubRecord /\ HubCounts(hub)
    BY DEF HubGood
  <1>1. CASE HubStart
    <2>1. [hub EXCEPT !.stopped = FALSE] \in HubRecord /\ HubCounts([hub EXCEPT !.stopped = FALSE])
      BY <1>t DEF HubRecord, HubCounts
    <2> QED BY <1>1, <2>1, HubScheduleGood DEF HubStart, Hub
  <1>2. CASE HubStop
    BY <1>t, <1>2 DEF HubStop, Hub, HubGood, HubRecord, HubCounts, HubAlive
  <1>3. CASE HubVisibility
    <2>1. PICK b \in BOOLEAN : b = ~hub.visible
      BY <1>t DEF HubRecord
    <2>2. PICK h : h = [hub EXCEPT !.visible = ~@, !.timer = FALSE]
      OBVIOUS
    <2>3. h = [hub EXCEPT !.visible = b, !.timer = FALSE]
      BY <2>1, <2>2
    <2>4. h \in HubRecord /\ HubCounts(h)
      BY <1>t, <2>3 DEF HubRecord, HubCounts
    <2>5. hub' = IF ~h.stopped /\ h.visible THEN HubRun(h) ELSE h
      BY <1>3, <2>2 DEF HubVisibility, Hub
    <2> QED BY <2>4, <2>5, HubRunGood DEF HubGood, HubAlive
  <1>4. CASE HubTimer
    BY <1>t, <1>4, HubRunGood DEF HubTimer, Hub
  <1>5. CASE HubAnswers
    <2>1. PICK h : h \in {ReadSucceeded(hub), ReadFailed(hub)} /\ hub' = Finished(h)
      BY <1>5 DEF HubAnswers, Hub
    <2>2. h \in HubRecord /\ HubCounts(h)
      BY <1>t, <2>1, ReadsAreCounted
    <2>3. [h EXCEPT !.refreshing = FALSE] \in HubRecord /\ HubCounts([h EXCEPT !.refreshing = FALSE])
      BY <2>2 DEF HubRecord, HubCounts
    <2> QED BY <2>1, <2>3, HubScheduleGood DEF Finished
  <1>6. CASE StreamNext
    <2>1. hub' = hub
      BY <1>6 DEF StreamNext, AskStream, Forward, Subscribe, HeadArrives, Pipe, Drained,
                  CloseSeen, LeavePage, Publish
    <2> QED BY <2>1
  <1>7. CASE UNCHANGED streamVars
    BY <1>7 DEF streamVars
  <1> QED BY <1>1, <1>2, <1>3, <1>4, <1>5, <1>6, <1>7 DEF HubNext

(* The popup's refresh loop never dies, and the popup says that the Kernel is  *)
(* unreachable exactly when enough reads failed in a row (agent-hub-refresh,   *)
(* run, schedule and setConnectionState), for any threshold and any order of   *)
(* starts, stops, hiding and answers.                                          *)
THEOREM RefreshingStaysAlive == StreamSpec => []RefreshingIsTrue
  <1>1. HubGood(hub) => RefreshingIsTrue
    BY DEF HubGood, HubAlive, HubCounts, RefreshingIsTrue, RefreshLoopAlive, UnreachableMeansRepeated
  <1>2. HubGood(hub)' <=> HubGood(hub')
    BY DEF HubGood, HubRecord, HubCounts, HubAlive
  <1>3. HubGood(hub) /\ [StreamNext \/ HubNext]_streamVars => HubGood(hub)'
    BY <1>2, HubNextGood
  <1> QED BY <1>1, <1>3, HubInitGood, PTL DEF StreamSpec

-----------------------------------------------------------------------------
(* Induction over the numbers, from the least counterexample.                  *)
LEMMA EveryNumber ==
  ASSUME NEW S, 0 \in S, \A n \in Nat : n \in S => n + 1 \in S
  PROVE  Nat \subseteq S
  <1> SUFFICES ASSUME Nat \ S # {} PROVE FALSE
    OBVIOUS
  <1> DEFINE R == OpToRel(<, Nat)
  <1>1. PICK x \in Nat \ S : \A y \in Nat \ S : ~(<<y, x>> \in R)
    BY NatLessThanWellFounded, WFMin
  <1>2. \A y \in Nat : y < x => <<y, x>> \in R
    BY DEF OpToRel
  <1> HIDE DEF R
  <1>3. x \in Nat /\ x # 0 /\ x - 1 \in Nat /\ x - 1 < x
    BY <1>1
  <1>4. x - 1 \in S
    BY <1>1, <1>2, <1>3
  <1>5. x - 1 + 1 \in S
    BY <1>3, <1>4
  <1> QED BY <1>1, <1>3, <1>5

(* The watchtower. Lists first: what is kept of a list of distinct receipts    *)
(* are distinct receipts of it.                                                *)

FindIds == {"find"} \X Missions \X Int
AvisoIds == {"aviso"} \X Missions \X Nat
ReceiptRecord == [id : FindIds, read : BOOLEAN]
Distinct(list) == \A i, j \in DOMAIN list : list[i].id = list[j].id => i = j

(* A list of distinct receipts, all of them in U. *)
ListOf(U, list) == list \in Seq(U) /\ Distinct(list)

KeptOf(list, places, n, kept) ==
  kept = [i \in 0..n |-> IF i = 0 THEN <<>>
                         ELSE IF i \in places THEN Append(kept[i - 1], list[i]) ELSE kept[i - 1]]

LEMMA KeptExists ==
  ASSUME NEW list, NEW places
  PROVE  \A n \in Nat : \E kept : KeptOf(list, places, n, kept)
  <1> DEFINE S == {n \in Nat : \E kept : KeptOf(list, places, n, kept)}
             next(a, i) == IF i \in places THEN Append(a[i - 1], list[i]) ELSE a[i - 1]
  <1>1. 0 \in S
    <2>1. KeptOf(list, places, 0, [i \in 0..0 |-> <<>>])
      BY DEF KeptOf
    <2> QED BY <2>1
  <1>2. ASSUME NEW n \in Nat, n \in S PROVE n + 1 \in S
    <2>1. PICK a : KeptOf(list, places, n, a)
      BY <1>2
    <2>2. \A i \in 0..n : a[i] = IF i = 0 THEN <<>> ELSE next(a, i)
      BY <2>1 DEF KeptOf
    <2> DEFINE b == [i \in 0..n + 1 |-> IF i = n + 1 THEN next(a, n + 1) ELSE a[i]]
    <2>3. \A i \in 0..n : b[i] = a[i]
      OBVIOUS
    <2>4. b[n + 1] = next(a, n + 1)
      OBVIOUS
    <2>5. \A i \in 0..n + 1 : b[i] = IF i = 0 THEN <<>> ELSE next(b, i)
      <3> SUFFICES ASSUME NEW i \in 0..n + 1 PROVE b[i] = IF i = 0 THEN <<>> ELSE next(b, i)
        OBVIOUS
      <3>1. CASE i = n + 1
        <4>1. b[i - 1] = a[i - 1]
          BY <2>3, <3>1
        <4>2. i # 0
          BY <3>1
        <4> HIDE DEF b
        <4> QED BY <2>4, <3>1, <4>1, <4>2
      <3>2. CASE i # n + 1
        <4>1. i \in 0..n /\ (i # 0 => i - 1 \in 0..n)
          BY <3>2
        <4>2. b[i] = a[i] /\ (i # 0 => b[i - 1] = a[i - 1])
          BY <2>3, <4>1
        <4> HIDE DEF b
        <4> QED BY <2>2, <4>1, <4>2
      <3> QED BY <3>1, <3>2
    <2>6. b = [i \in 0..n + 1 |-> b[i]]
      OBVIOUS
    <2>7. KeptOf(list, places, n + 1, b)
      <3> HIDE DEF b
      <3> QED BY <2>5, <2>6 DEF KeptOf
    <2> QED BY <2>7
  <1>3. Nat \subseteq S
    <2> HIDE DEF S
    <2> QED BY <1>1, <1>2, EveryNumber
  <1> QED BY <1>3

(* Every entry that was kept comes from a place of its own.                    *)
LEMMA KeptIsList ==
  ASSUME NEW U, NEW list, ListOf(U, list), NEW places \in SUBSET DOMAIN list
  PROVE  ListOf({list[i] : i \in places}, Kept(list, places))
  <1> DEFINE n == Len(list)
             V == {list[i] : i \in places}
  <1>0. n \in Nat /\ DOMAIN list = 1..n
    BY DEF ListOf
  <1>1. PICK kept : KeptOf(list, places, n, kept) /\ Kept(list, places) = kept[n]
    <2>1. \E kept : KeptOf(list, places, n, kept)
      BY <1>0, KeptExists
    <2> QED BY <2>1 DEF Kept, KeptOf
  <1>2. \A i \in 0..n : kept[i] = IF i = 0 THEN <<>>
            ELSE IF i \in places THEN Append(kept[i - 1], list[i]) ELSE kept[i - 1]
    BY <1>1 DEF KeptOf
  <1>3. \A i \in places : list[i] \in V
    OBVIOUS
  <1>4. \A i, j \in 1..n : list[i].id = list[j].id => i = j
    BY <1>0 DEF ListOf, Distinct
  <1> HIDE DEF n, V
  <1> DEFINE Upto(q, i) == /\ q \in Seq(V)
                           /\ \A k \in 1..Len(q) : \E j \in places : j <= i /\ q[k] = list[j]
                           /\ \A k, l \in 1..Len(q) : q[k].id = q[l].id => k = l
             S == {i \in Nat : i <= n => Upto(kept[i], i)}
  <1>5. 0 \in S
    <2>1. 0 \in 0..n
      BY <1>0
    <2>2. PICK q : q = <<>>
      OBVIOUS
    <2>3. kept[0] = q
      BY <1>2, <2>1, <2>2
    <2>4. q \in Seq(V) /\ Len(q) = 0
      BY <2>2
    <2>5. Upto(q, 0)
      BY <2>4
    <2> QED BY <2>3, <2>5
  <1>6. ASSUME NEW i \in Nat, i \in S PROVE i + 1 \in S
    <2> SUFFICES ASSUME i + 1 <= n PROVE Upto(kept[i + 1], i + 1)
      OBVIOUS
    <2>1. i + 1 \in 0..n /\ i + 1 \in 1..n /\ i + 1 - 1 = i /\ i + 1 # 0
      BY <1>0
    <2>2. PICK q : q = kept[i]
      OBVIOUS
    <2>3. Upto(q, i)
      BY <1>0, <1>6, <2>1, <2>2
    <2>4. kept[i + 1] = IF i + 1 \in places THEN Append(q, list[i + 1]) ELSE q
      <3>1. kept[i + 1] = IF i + 1 = 0 THEN <<>>
              ELSE IF i + 1 \in places THEN Append(kept[i + 1 - 1], list[i + 1]) ELSE kept[i + 1 - 1]
        BY <1>2, <2>1
      <3> QED BY <2>1, <2>2, <3>1
    <2>5. places \subseteq 1..n
      BY <1>0
    <2>6. CASE i + 1 \notin places
      <3>1. Upto(q, i + 1)
        BY <2>3, <2>5
      <3> QED BY <2>4, <2>6, <3>1
    <2>7. CASE i + 1 \in places
      <3>1. PICK p : p = Append(q, list[i + 1])
        OBVIOUS
      <3>2. list[i + 1] \in V
        BY <1>3, <2>7
      <3>3. /\ p \in Seq(V) /\ Len(p) = Len(q) + 1 /\ Len(q) \in Nat
            /\ p[Len(q) + 1] = list[i + 1]
            /\ \A k \in 1..Len(q) : p[k] = q[k]
        BY <2>3, <3>1, <3>2, AppendProperties
      <3>4. \A k \in 1..Len(p) : k \in 1..Len(q) \/ k = Len(q) + 1
        BY <3>3
      <3>5. \A k \in 1..Len(p) : \E j \in places : j <= i + 1 /\ p[k] = list[j]
        <4> SUFFICES ASSUME NEW k \in 1..Len(p) PROVE \E j \in places : j <= i + 1 /\ p[k] = list[j]
          OBVIOUS
        <4>1. CASE k \in 1..Len(q)
          <5>1. PICK j \in places : j <= i /\ q[k] = list[j]
            BY <2>3, <4>1
          <5> QED BY <2>5, <3>3, <4>1, <5>1
        <4>2. CASE k = Len(q) + 1
          BY <2>7, <3>3, <4>2
        <4> QED BY <3>4, <4>1, <4>2
      <3>6. \A k \in 1..Len(q) : q[k].id # list[i + 1].id
        <4> SUFFICES ASSUME NEW k \in 1..Len(q), q[k].id = list[i + 1].id PROVE FALSE
          OBVIOUS
        <4>1. PICK j \in places : j <= i /\ q[k] = list[j]
          BY <2>3
        <4>2. j \in 1..n /\ list[j].id = list[i + 1].id
          BY <2>5, <4>1
        <4>3. j = i + 1
          BY <1>4, <2>1, <4>2
        <4> QED BY <4>1, <4>3
      <3>7. \A k, l \in 1..Len(p) : p[k].id = p[l].id => k = l
        <4> SUFFICES ASSUME NEW k \in 1..Len(p), NEW l \in 1..Len(p), p[k].id = p[l].id PROVE k = l
          OBVIOUS
        <4>1. CASE k \in 1..Len(q) /\ l \in 1..Len(q)
          BY <2>3, <3>3, <4>1
        <4>2. CASE k \in 1..Len(q) /\ l = Len(q) + 1
          BY <3>3, <3>6, <4>2
        <4>3. CASE k = Len(q) + 1 /\ l \in 1..Len(q)
          BY <3>3, <3>6, <4>3
        <4> QED BY <3>4, <4>1, <4>2, <4>3
      <3> QED BY <2>4, <2>7, <3>1, <3>3, <3>5, <3>7
    <2> QED BY <2>6, <2>7
  <1>7. Nat \subseteq S
    <2> HIDE DEF S
    <2> QED BY <1>5, <1>6, EveryNumber
  <1>8. Upto(kept[n], n)
    BY <1>0, <1>7
  <1>9. PICK q : q = kept[n]
    OBVIOUS
  <1>10. q \in Seq(V) /\ \A k, l \in 1..Len(q) : q[k].id = q[l].id => k = l
    BY <1>8, <1>9
  <1>11. ListOf(V, q)
    <2>1. DOMAIN q = 1..Len(q)
      BY <1>10
    <2> QED BY <1>10, <2>1 DEF ListOf, Distinct
  <1> QED BY <1>1, <1>9, <1>11 DEF V

LEMMA WindowedIsList ==
  ASSUME NEW U, NEW list, ListOf(U, list), Window \in Nat
  PROVE  ListOf(U, Windowed(list))
  <1>1. PICK k : k = IF Len(list) < Window THEN Len(list) ELSE Window
    OBVIOUS
  <1>2. k \in 0..Len(list) /\ list \in Seq(U) /\ Len(list) \in Nat
    BY <1>1 DEF ListOf
  <1>3. Windowed(list) = SubSeq(list, 1, k)
    BY <1>1 DEF Windowed
  <1>4. PICK q : q = SubSeq(list, 1, k)
    OBVIOUS
  <1>5. q \in Seq(U) /\ Len(q) = k /\ \A i \in 1..k : q[i] = list[i]
    BY <1>2, <1>4, SubSeqProperties
  <1>6. Distinct(q)
    <2> SUFFICES ASSUME NEW i \in 1..k, NEW j \in 1..k, q[i].id = q[j].id PROVE i = j
      BY <1>5 DEF Distinct
    <2>1. list[i].id = list[j].id /\ i \in DOMAIN list /\ j \in DOMAIN list
      BY <1>2, <1>5
    <2> QED BY <2>1 DEF ListOf, Distinct
  <1> QED BY <1>3, <1>4, <1>5, <1>6 DEF ListOf

LEMMA ToldOnce ==
  ASSUME NEW list, ListOf(ReceiptRecord, list), Window \in Nat, NEW shownBefore
  PROVE  LET todo == Undelivered(Windowed(Kept(list, UnreadPlaces(list))), shownBefore)
         IN  ListOf(ReceiptRecord, todo) /\ \A k \in DOMAIN todo : todo[k].id \notin shownBefore
  <1>1. PICK a : a = Kept(list, UnreadPlaces(list))
    OBVIOUS
  <1>2. UnreadPlaces(list) \in SUBSET DOMAIN list
    BY DEF UnreadPlaces
  <1>3. ListOf({list[i] : i \in UnreadPlaces(list)}, a)
    BY <1>1, <1>2, KeptIsList
  <1>4. {list[i] : i \in UnreadPlaces(list)} \subseteq ReceiptRecord
    BY <1>2 DEF ListOf
  <1>5. ListOf(ReceiptRecord, a)
    BY <1>3, <1>4 DEF ListOf
  <1>6. PICK b : b = Windowed(a)
    OBVIOUS
  <1>7. ListOf(ReceiptRecord, b)
    BY <1>5, <1>6, WindowedIsList
  <1>8. PICK places : places = {i \in UnreadPlaces(b) : b[i].id \notin shownBefore}
    OBVIOUS
  <1>9. places \in SUBSET DOMAIN b /\ \A i \in places : b[i].id \notin shownBefore
    BY <1>8 DEF UnreadPlaces
  <1>10. PICK c : c = Kept(b, places)
    OBVIOUS
  <1>11. PICK V : V = {b[i] : i \in places}
    OBVIOUS
  <1>12. ListOf(V, c)
    BY <1>7, <1>9, <1>10, <1>11, KeptIsList
  <1>13. V \subseteq ReceiptRecord /\ \A r \in V : r.id \notin shownBefore
    BY <1>7, <1>9, <1>11 DEF ListOf
  <1>14. ListOf(ReceiptRecord, c) /\ \A k \in DOMAIN c : c[k].id \notin shownBefore
    BY <1>12, <1>13 DEF ListOf
  <1>15. Undelivered(Windowed(Kept(list, UnreadPlaces(list))), shownBefore) = c
    BY <1>1, <1>6, <1>8, <1>10 DEF Undelivered
  <1> QED BY <1>14, <1>15

(* Only one inspection is under way, so that what it copied from storage is    *)
(* what storage says - but for the popup, which may write an older observation *)
(* meanwhile. Observations only grow otherwise.                                *)

MissionRecord == [status : {"running", "completed", "failed"}, revision : Nat, supported : BOOLEAN]
TowerRecord == [initialized : BOOLEAN, known : [Missions -> Nat], unread : SUBSET AvisoIds]
MissionRecords == [Missions -> MissionRecord]

Beginning == [at : {"missions"}, tower : TowerRecord, delivered : SUBSET FindIds]
Informed == [at : {"covering"}, tower : TowerRecord, delivered : SUBSET FindIds, missions : MissionRecords]
Covered == [at : {"unread"}, tower : TowerRecord, delivered : SUBSET FindIds, missions : MissionRecords,
            cover : SUBSET FindIds]
Delivering == [at : {"deliver", "remember", "reconcile"}, tower : TowerRecord, delivered : SUBSET FindIds,
               missions : MissionRecords, cover : SUBSET FindIds, todo : Seq(ReceiptRecord),
               made : SUBSET FindIds]
Announcing == [at : {"announce"}, todo : SUBSET AvisoIds]

Observing == {"missions", "covering", "unread", "deliver", "remember", "reconcile"}

KernelInv ==
  /\ mission \in MissionRecords
  /\ ListOf(ReceiptRecord, findReceipts)
StorageInv ==
  /\ tower \in TowerRecord /\ popup \subseteq TowerRecord /\ delivered \subseteq FindIds
  /\ \A m \in Missions : tower.known[m] <= mission[m].revision
  /\ \A t \in popup : \A m \in Missions : t.known[m] <= tower.known[m]
CountersInv ==
  /\ faults \in [stop : Nat, call : Nat, unread : Nat, popup : Nat]
  /\ shown \in [ReceiptIds \cup Avisos -> Nat]

(* What an inspection has read, against what is now. *)
ReadTower(i) ==
  /\ i.at \in Observing => \A m \in Missions : tower.known[m] <= i.tower.known[m]
  /\ i.at \in Observing \ {"reconcile"} => i.delivered = delivered
ReadRevisions(i) ==
  IF i.at = "missions" THEN \A m \in Missions : i.tower.known[m] <= mission[m].revision
  ELSE i.at \in Observing =>
         \A m \in Missions : /\ i.tower.known[m] <= i.missions[m].revision
                             /\ i.missions[m].revision <= mission[m].revision
Delivery(i) ==
  i.at = "deliver" => /\ Distinct(i.todo) /\ i.todo # <<>>
                      /\ \A k \in DOMAIN i.todo : i.todo[k].id \notin i.delivered \cup i.made
InspectionOK(i) ==
  /\ i \in {Asleep} \cup Beginning \cup Informed \cup Covered \cup Delivering \cup Announcing
  /\ ReadTower(i) /\ ReadRevisions(i) /\ Delivery(i)

InspectionsInv ==
  /\ DOMAIN inspection = Wakes
  /\ \A w \in Wakes : InspectionOK(inspection[w])
  /\ \A v, w \in Wakes : inspection[v] # Asleep /\ inspection[w] # Asleep => v = w

(* A receipt that was shown is remembered, by storage or by the inspection     *)
(* that showed it; an aviso is announced for an observation already stored.    *)
MadeBy(i) == IF i.at \in {"deliver", "remember"} THEN i.made ELSE {}
AwaitedBy(i) == IF i.at = "announce" THEN i.todo ELSE {}
IsRemembered(id) == id \in delivered \/ \E w \in Wakes : id \in MadeBy(inspection[w])
Awaited(a) == \E w \in Wakes : a \in AwaitedBy(inspection[w])

ReceiptsCounted ==
  \A id \in ReceiptIds : shown[id] <= faults.stop + (IF IsRemembered(id) THEN 1 ELSE 0)
AvisosCounted ==
  \A m \in Missions : \A r \in 1..2 * MaxRounds :
    shown[Aviso(m, r)] + (IF Awaited(Aviso(m, r)) THEN 1 ELSE 0)
      <= faults.popup + (IF r <= tower.known[m] THEN 1 ELSE 0)

TowerInv ==
  /\ KernelInv /\ StorageInv /\ CountersInv /\ InspectionsInv
  /\ ReceiptsCounted /\ AvisosCounted

LEMMA Kinds ==
  /\ ReceiptIds \subseteq FindIds /\ Avisos \subseteq AvisoIds
  /\ \A x \in FindIds : x \notin AvisoIds
  /\ \A m \in Missions : \A r \in Nat : Aviso(m, r) \in AvisoIds
  /\ \A m \in Missions : \A r \in 1..2 * MaxRounds : Aviso(m, r) \in Avisos
  /\ \A a \in Avisos : \E m \in Missions : \E r \in 1..2 * MaxRounds : a = Aviso(m, r)
  /\ \A m, n : \A r, q : Aviso(m, r) = Aviso(n, q) => m = n /\ r = q
  <1>1. ReceiptIds \subseteq FindIds /\ Avisos \subseteq AvisoIds
    BY WatchtowerBounds DEF ReceiptIds, FindIds, Avisos, AvisoIds
  <1>2. \A x \in FindIds : x \notin AvisoIds
    BY DEF FindIds, AvisoIds
  <1>3. \A m \in Missions : \A r \in Nat : Aviso(m, r) \in AvisoIds
    BY DEF Aviso, AvisoIds
  <1>4. \A m \in Missions : \A r \in 1..2 * MaxRounds : Aviso(m, r) \in Avisos
    BY DEF Aviso, Avisos
  <1>5. \A a \in Avisos : \E m \in Missions : \E r \in 1..2 * MaxRounds : a = Aviso(m, r)
    BY DEF Aviso, Avisos
  <1>6. \A m, n : \A r, q : Aviso(m, r) = Aviso(n, q) => m = n /\ r = q
    BY DEF Aviso
  <1> QED BY <1>1, <1>2, <1>3, <1>4, <1>5, <1>6

LEMMA Faulted ==
  ASSUME CountersInv, NEW kind \in {"stop", "call", "unread", "popup"}, Fault(kind)
  PROVE  /\ faults' \in [stop : Nat, call : Nat, unread : Nat, popup : Nat]
         /\ faults.stop <= faults'.stop /\ faults.popup <= faults'.popup
         /\ kind = "stop" => faults'.stop = faults.stop + 1
         /\ kind = "popup" => faults'.popup = faults.popup + 1
  <1>1. PICK f : f = faults /\ f \in [stop : Nat, call : Nat, unread : Nat, popup : Nat]
    BY DEF CountersInv
  <1>2. faults' = [f EXCEPT ![kind] = @ + 1]
    BY <1>1 DEF Fault
  <1> QED BY <1>1, <1>2

LEMMA ShownOnceMore ==
  ASSUME CountersInv, NEW a, shown' = [shown EXCEPT ![a] = @ + 1]
  PROVE  /\ shown' \in [ReceiptIds \cup Avisos -> Nat]
         /\ \A x \in ReceiptIds \cup Avisos : shown'[x] = IF x = a THEN shown[x] + 1 ELSE shown[x]
  <1>1. PICK D, f, g : D = ReceiptIds \cup Avisos /\ f = shown /\ g = shown'
    OBVIOUS
  <1>2. f \in [D -> Nat] /\ g = [f EXCEPT ![a] = @ + 1]
    BY <1>1 DEF CountersInv
  <1>3. \A x \in D : g[x] = IF x = a THEN f[x] + 1 ELSE f[x]
    BY <1>2
  <1>4. g \in [D -> Nat]
    <2>1. g = [x \in D |-> g[x]]
      BY <1>2
    <2>2. \A x \in D : f[x] \in Nat
      BY <1>2
    <2>3. \A x \in D : g[x] \in Nat
      BY <1>3, <2>2
    <2> QED BY <2>1, <2>3
  <1> QED BY <1>1, <1>3, <1>4

LEMMA TowerStarts == TowerInit => TowerInv
  <1> SUFFICES ASSUME TowerInit PROVE TowerInv
    OBVIOUS
  <1>1. KernelInv
    <2>1. mission \in MissionRecords
      BY DEF TowerInit, MissionRecords, MissionRecord
    <2>2. PICK U : U = ReceiptRecord
      OBVIOUS
    <2>3. <<>> \in Seq(U)
      OBVIOUS
    <2>4. Distinct(<<>>)
      BY DEF Distinct
    <2> QED BY <2>1, <2>2, <2>3, <2>4 DEF TowerInit, KernelInv, ListOf
  <1>2. StorageInv
    BY DEF TowerInit, StorageInv, TowerRecord
  <1>3. CountersInv
    BY DEF TowerInit, CountersInv
  <1>4. InspectionsInv
    <2>1. InspectionOK(Asleep)
      BY DEF InspectionOK, Asleep, ReadTower, ReadRevisions, Delivery, Observing
    <2> QED BY <2>1 DEF TowerInit, InspectionsInv
  <1>5. ReceiptsCounted
    BY Kinds DEF TowerInit, ReceiptsCounted
  <1>6. AvisosCounted
    <2>1. \A a : ~Awaited(a)
      BY DEF TowerInit, Awaited, AwaitedBy, Asleep
    <2>2. \A a \in Avisos : shown[a] = 0
      BY DEF TowerInit
    <2>3. faults.popup = 0 /\ \A m \in Missions : tower.known[m] = 0
      BY DEF TowerInit
    <2> QED BY <2>1, <2>2, <2>3, Kinds DEF AvisosCounted
  <1> QED BY <1>1, <1>2, <1>3, <1>4, <1>5, <1>6 DEF TowerInv

LEMMA AsleepIsQuiet ==
  MadeBy(Asleep) = {} /\ AwaitedBy(Asleep) = {}
  BY DEF MadeBy, AwaitedBy, Asleep

LEMMA AsleepIsOK == InspectionOK(Asleep) /\ InspectionOK(Asleep)'
  BY DEF InspectionOK, Asleep, ReadTower, ReadRevisions, Delivery, Observing

LEMMA OthersAsleep ==
  ASSUME InspectionsInv, NEW w \in Wakes, inspection[w] # Asleep
  PROVE  \A v \in Wakes \ {w} : inspection[v] = Asleep
  BY DEF InspectionsInv

LEMMA OneInspects ==
  ASSUME InspectionsInv, NEW w \in Wakes, NEW i, Hold(w, i), InspectionOK(i)',
         \A v \in Wakes \ {w} : inspection[v] = Asleep
  PROVE  /\ InspectionsInv' /\ inspection'[w] = i
         /\ \A id : IsRemembered(id) <=> id \in delivered \/ id \in MadeBy(inspection[w])
         /\ \A id : IsRemembered(id)' <=> id \in delivered' \/ id \in MadeBy(i)
         /\ \A a : Awaited(a) <=> a \in AwaitedBy(inspection[w])
         /\ \A a : Awaited(a)' <=> a \in AwaitedBy(i)
  <1>1. DOMAIN inspection = Wakes /\ inspection' = [inspection EXCEPT ![w] = i]
    BY DEF InspectionsInv, Hold
  <1>2. PICK old, new : old = inspection /\ new = inspection'
    OBVIOUS
  <1>3. /\ DOMAIN new = Wakes /\ new[w] = i
        /\ \A v \in Wakes \ {w} : new[v] = Asleep /\ old[v] = Asleep
    BY <1>1, <1>2
  <1>4. InspectionsInv'
    <2>1. \A v \in Wakes : InspectionOK(new[v])'
      <3> SUFFICES ASSUME NEW v \in Wakes PROVE InspectionOK(new[v])'
        OBVIOUS
      <3>1. CASE v = w
        BY <1>3, <3>1
      <3>2. CASE v # w
        BY <1>3, <3>2, AsleepIsOK
      <3> QED BY <3>1, <3>2
    <2>2. \A v \in Wakes : InspectionOK(inspection[v])'
      BY <1>2, <2>1 DEF InspectionOK, ReadTower, ReadRevisions, Delivery
    <2> QED BY <1>2, <1>3, <2>2 DEF InspectionsInv
  <1>5. \A id : IsRemembered(id)' <=> id \in delivered' \/ id \in MadeBy(i)
    <2>1. \A id : IsRemembered(id)' <=> id \in delivered' \/ \E v \in Wakes : id \in MadeBy(new[v])
      BY <1>2 DEF IsRemembered, MadeBy
    <2> QED BY <1>3, <2>1, AsleepIsQuiet
  <1>6. \A a : Awaited(a)' <=> a \in AwaitedBy(i)
    <2>1. \A a : Awaited(a)' <=> \E v \in Wakes : a \in AwaitedBy(new[v])
      BY <1>2 DEF Awaited, AwaitedBy
    <2> QED BY <1>3, <2>1, AsleepIsQuiet
  <1>7. \A id : IsRemembered(id) <=> id \in delivered \/ id \in MadeBy(inspection[w])
    BY AsleepIsQuiet DEF IsRemembered
  <1>8. \A a : Awaited(a) <=> a \in AwaitedBy(inspection[w])
    BY AsleepIsQuiet DEF Awaited
  <1> QED BY <1>2, <1>3, <1>4, <1>5, <1>6, <1>7, <1>8

(* When nothing is shown, the counts stand as long as what was shown is still  *)
(* remembered and no observation is taken back - or a fault explains it.       *)
LEMMA ReceiptsStillCounted ==
  ASSUME ReceiptsCounted, CountersInv, CountersInv', NEW id \in ReceiptIds,
         shown'[id] = shown[id], faults.stop <= faults'.stop,
         IsRemembered(id) => IsRemembered(id)' \/ faults.stop + 1 <= faults'.stop
  PROVE  shown'[id] <= faults'.stop + (IF IsRemembered(id)' THEN 1 ELSE 0)
  <1>1. PICK n, f, g : n = shown[id] /\ f = faults.stop /\ g = faults'.stop
    OBVIOUS
  <1>2. n \in Nat /\ f \in Nat /\ g \in Nat
    BY <1>1 DEF CountersInv
  <1>3. n <= f + (IF IsRemembered(id) THEN 1 ELSE 0)
    BY <1>1 DEF ReceiptsCounted
  <1>4. CASE IsRemembered(id)
    BY <1>1, <1>2, <1>3, <1>4
  <1>5. CASE ~IsRemembered(id)
    BY <1>1, <1>2, <1>3, <1>5
  <1> QED BY <1>4, <1>5

LEMMA AvisosStillCounted ==
  ASSUME AvisosCounted, CountersInv, CountersInv', StorageInv, StorageInv',
         NEW m \in Missions, NEW r \in 1..2 * MaxRounds,
         shown'[Aviso(m, r)] = shown[Aviso(m, r)], faults.popup <= faults'.popup,
         Awaited(Aviso(m, r))' => Awaited(Aviso(m, r)),
         tower.known[m] <= tower'.known[m] \/ faults.popup + 1 <= faults'.popup
  PROVE  shown'[Aviso(m, r)] + (IF Awaited(Aviso(m, r))' THEN 1 ELSE 0)
           <= faults'.popup + (IF r <= tower'.known[m] THEN 1 ELSE 0)
  <1>1. PICK n, f, g, k, l : /\ n = shown[Aviso(m, r)] /\ f = faults.popup /\ g = faults'.popup
                             /\ k = tower.known[m] /\ l = tower'.known[m]
    OBVIOUS
  <1>2. n \in Nat /\ f \in Nat /\ g \in Nat /\ k \in Nat /\ l \in Nat /\ r \in Nat
    BY <1>1, Kinds, WatchtowerBounds DEF CountersInv, StorageInv, TowerRecord
  <1>3. n + (IF Awaited(Aviso(m, r)) THEN 1 ELSE 0) <= f + (IF r <= k THEN 1 ELSE 0)
    BY <1>1 DEF AvisosCounted
  <1>4. PICK a, b \in {0, 1} : /\ a = (IF Awaited(Aviso(m, r)) THEN 1 ELSE 0)
                               /\ b = (IF Awaited(Aviso(m, r))' THEN 1 ELSE 0)
    OBVIOUS
  <1>5. b <= a
    BY <1>4
  <1>6. n + b <= g + (IF r <= l THEN 1 ELSE 0)
    BY <1>1, <1>2, <1>3, <1>4, <1>5
  <1> QED BY <1>1, <1>4, <1>6

(* A step that shows nothing and leaves storage alone. *)
LEMMA TowerQuietStep ==
  ASSUME TowerInv, CountersInv', KernelInv', InspectionsInv',
         UNCHANGED <<tower, delivered, popup, shown>>,
         \A m \in Missions : mission[m].revision <= mission'[m].revision,
         faults.stop <= faults'.stop, faults.popup <= faults'.popup,
         \A id : IsRemembered(id) => IsRemembered(id)' \/ faults.stop + 1 <= faults'.stop,
         \A a : Awaited(a)' => Awaited(a)
  PROVE  TowerInv'
  <1>1. StorageInv'
    <2>1. \A m \in Missions : tower.known[m] \in Nat /\ mission[m].revision \in Nat /\ mission'[m].revision \in Nat
      BY DEF TowerInv, StorageInv, TowerRecord, KernelInv, MissionRecords, MissionRecord
    <2>2. \A m \in Missions : tower.known[m] <= mission'[m].revision
      BY <2>1 DEF TowerInv, StorageInv
    <2> QED BY <2>2 DEF TowerInv, StorageInv
  <1>2. ReceiptsCounted'
    BY ReceiptsStillCounted DEF TowerInv, ReceiptsCounted
  <1>3. AvisosCounted'
    <2> SUFFICES ASSUME NEW m \in Missions, NEW r \in 1..2 * MaxRounds
                 PROVE  shown'[Aviso(m, r)] + (IF Awaited(Aviso(m, r))' THEN 1 ELSE 0)
                          <= faults'.popup + (IF r <= tower'.known[m] THEN 1 ELSE 0)
      BY DEF AvisosCounted
    <2>1. tower.known[m] <= tower'.known[m]
      BY DEF TowerInv, StorageInv, TowerRecord
    <2> QED BY <1>1, <2>1, AvisosStillCounted DEF TowerInv
  <1> QED BY <1>1, <1>2, <1>3 DEF TowerInv

(* What was read from the Kernel and from storage may grow old meanwhile. *)
LEMMA InspectionsStand ==
  ASSUME KernelInv, KernelInv', StorageInv, InspectionsInv, UNCHANGED <<inspection, delivered>>,
         tower' \in TowerRecord,
         \A m \in Missions : tower'.known[m] <= tower.known[m],
         \A m \in Missions : mission[m].revision <= mission'[m].revision
  PROVE  /\ InspectionsInv'
         /\ \A id : IsRemembered(id)' <=> IsRemembered(id)
         /\ \A a : Awaited(a)' <=> Awaited(a)
  <1>1. \A m \in Missions : /\ tower.known[m] \in Nat /\ tower'.known[m] \in Nat
                            /\ mission[m].revision \in Nat /\ mission'[m].revision \in Nat
    BY DEF KernelInv, MissionRecords, MissionRecord, StorageInv, TowerRecord
  <1>2. ASSUME NEW i, InspectionOK(i) PROVE InspectionOK(i)'
    <2>1. ReadTower(i)'
      <3> SUFFICES ASSUME i.at \in Observing, NEW m \in Missions
                   PROVE  tower'.known[m] <= i.tower.known[m]
        BY <1>2 DEF InspectionOK, ReadTower
      <3>1. tower.known[m] <= i.tower.known[m]
        BY <1>2 DEF InspectionOK, ReadTower
      <3>2. i.tower.known[m] \in Nat
        BY <1>2 DEF InspectionOK, Asleep, Beginning, Informed, Covered, Delivering, Announcing, Observing,
                    TowerRecord
      <3> QED BY <1>1, <3>1, <3>2
    <2>2. ReadRevisions(i)'
      <3>1. CASE i.at = "missions"
        <4> SUFFICES ASSUME NEW m \in Missions PROVE i.tower.known[m] <= mission'[m].revision
          BY <3>1 DEF ReadRevisions
        <4>1. i.tower.known[m] <= mission[m].revision
          BY <1>2, <3>1 DEF InspectionOK, ReadRevisions
        <4>2. i.tower.known[m] \in Nat
          BY <1>2, <3>1 DEF InspectionOK, Asleep, Beginning, Informed, Covered, Delivering, Announcing, TowerRecord
        <4> QED BY <1>1, <4>1, <4>2
      <3>2. CASE i.at # "missions"
        <4> SUFFICES ASSUME i.at \in Observing, NEW m \in Missions
                     PROVE  /\ i.tower.known[m] <= i.missions[m].revision
                            /\ i.missions[m].revision <= mission'[m].revision
          BY <3>2 DEF ReadRevisions
        <4>1. i.tower.known[m] <= i.missions[m].revision /\ i.missions[m].revision <= mission[m].revision
          BY <1>2, <3>2 DEF InspectionOK, ReadRevisions
        <4>2. i.missions[m].revision \in Nat
          BY <1>2, <3>2 DEF InspectionOK, Asleep, Beginning, Informed, Covered, Delivering, Announcing, Observing,
                    MissionRecords, MissionRecord
        <4> QED BY <1>1, <4>1, <4>2
      <3> QED BY <3>1, <3>2
    <2>3. Delivery(i)'
      BY <1>2 DEF InspectionOK, Delivery, Distinct
    <2> QED BY <1>2, <2>1, <2>2, <2>3 DEF InspectionOK
  <1>3. PICK old : old = inspection /\ old = inspection'
    OBVIOUS
  <1>4. \A v \in Wakes : InspectionOK(old[v])
    BY <1>3 DEF InspectionsInv
  <1>5. \A v \in Wakes : InspectionOK(old[v])'
    BY <1>2, <1>4
  <1>6. \A v \in Wakes : InspectionOK(inspection[v])'
    BY <1>3, <1>5 DEF InspectionOK, ReadTower, ReadRevisions, Delivery
  <1>7. InspectionsInv'
    BY <1>6 DEF InspectionsInv
  <1>8. \A id : IsRemembered(id)' <=> IsRemembered(id)
    BY DEF IsRemembered, MadeBy
  <1>9. \A a : Awaited(a)' <=> Awaited(a)
    BY DEF Awaited, AwaitedBy
  <1> QED BY <1>7, <1>8, <1>9

(* ---- The Kernel. *)
LEMMA RevisionsGrow ==
  ASSUME TowerInv, NEW m \in Missions, NEW r \in MissionRecord,
         mission' = [mission EXCEPT ![m] = r], r.revision = mission[m].revision + 1,
         UNCHANGED <<findReceipts, tower, delivered, inspection, popup, shown, faults>>
  PROVE  TowerInv'
  <1>1. PICK k : k = mission /\ k \in MissionRecords
    BY DEF TowerInv, KernelInv
  <1>2. PICK l : l = mission' /\ l \in MissionRecords /\ l[m] = r /\ \A n \in Missions \ {m} : l[n] = k[n]
    BY <1>1 DEF MissionRecords
  <1>3. \A n \in Missions : k[n].revision \in Nat /\ k[n].revision <= l[n].revision
    <2> SUFFICES ASSUME NEW n \in Missions PROVE k[n].revision \in Nat /\ k[n].revision <= l[n].revision
      OBVIOUS
    <2>1. k[n].revision \in Nat
      BY <1>1 DEF MissionRecords, MissionRecord
    <2> QED BY <1>1, <1>2, <2>1
  <1>4. KernelInv'
    BY <1>2 DEF TowerInv, KernelInv, ListOf, Distinct
  <1>5. CountersInv'
    BY DEF TowerInv, CountersInv
  <1>6. tower' \in TowerRecord /\ \A n \in Missions : tower'.known[n] <= tower.known[n]
    BY DEF TowerInv, StorageInv, TowerRecord
  <1>7. /\ InspectionsInv'
        /\ \A id : IsRemembered(id)' <=> IsRemembered(id)
        /\ \A a : Awaited(a)' <=> Awaited(a)
    BY <1>1, <1>2, <1>3, <1>4, <1>6, InspectionsStand DEF TowerInv
  <1>8. faults.stop <= faults'.stop /\ faults.popup <= faults'.popup
    BY DEF TowerInv, CountersInv
  <1> QED BY <1>1, <1>2, <1>3, <1>4, <1>5, <1>7, <1>8, TowerQuietStep

LEMMA SettleCounts ==
  ASSUME TowerInv, NEW m \in Missions, NEW s \in Terminal, NEW f \in BOOLEAN, Settle(m, s, f)
  PROVE  TowerInv'
  <1>1. PICK r : r = [status |-> s, revision |-> mission[m].revision + 1, supported |-> f /\ s = "completed"]
    OBVIOUS
  <1>2. mission[m].revision \in Nat
    BY DEF TowerInv, KernelInv, MissionRecords, MissionRecord
  <1>3. r \in MissionRecord /\ r.revision = mission[m].revision + 1
    BY <1>1, <1>2 DEF MissionRecord, Terminal
  <1>4. mission' = [mission EXCEPT ![m] = r]
    BY <1>1 DEF Settle
  <1> QED BY <1>3, <1>4, RevisionsGrow DEF Settle

LEMMA SearchMoreCounts ==
  ASSUME TowerInv, NEW m \in Missions, SearchMore(m)
  PROVE  TowerInv'
  <1>1. PICK r : r = [status |-> "running", revision |-> mission[m].revision + 1, supported |-> FALSE]
    OBVIOUS
  <1>2. mission[m].revision \in Nat
    BY DEF TowerInv, KernelInv, MissionRecords, MissionRecord
  <1>3. r \in MissionRecord /\ r.revision = mission[m].revision + 1
    BY <1>1, <1>2 DEF MissionRecord
  <1>4. mission' = [mission EXCEPT ![m] = r]
    BY <1>1 DEF SearchMore
  <1> QED BY <1>3, <1>4, RevisionsGrow DEF SearchMore

(* Receipts come and go: nothing else looks at them. *)
LEMMA ReceiptsMove ==
  ASSUME TowerInv, ListOf(ReceiptRecord, findReceipts'),
         UNCHANGED <<mission, tower, delivered, inspection, popup, shown, faults>>
  PROVE  TowerInv'
  <1>1. KernelInv'
    <2>1. Distinct(findReceipts)'
      BY DEF ListOf, Distinct
    <2> QED BY <2>1 DEF TowerInv, KernelInv, ListOf
  <1>2. CountersInv'
    BY DEF TowerInv, CountersInv
  <1>3. tower' \in TowerRecord /\ \A n \in Missions : tower'.known[n] <= tower.known[n]
    BY DEF TowerInv, StorageInv, TowerRecord
  <1>4. \A n \in Missions : mission[n].revision <= mission'[n].revision
    BY DEF TowerInv, KernelInv, MissionRecords, MissionRecord
  <1>5. /\ InspectionsInv'
        /\ \A id : IsRemembered(id)' <=> IsRemembered(id)
        /\ \A a : Awaited(a)' <=> Awaited(a)
    BY <1>1, <1>3, <1>4, InspectionsStand DEF TowerInv
  <1>6. faults.stop <= faults'.stop /\ faults.popup <= faults'.popup
    BY DEF TowerInv, CountersInv
  <1> QED BY <1>1, <1>2, <1>4, <1>5, <1>6, TowerQuietStep

LEMMA QueueReceiptCounts ==
  ASSUME TowerInv, NEW m \in Missions, QueueReceipt(m)
  PROVE  TowerInv'
  <1>1. PICK id : id = Round(m, mission[m].revision)
    OBVIOUS
  <1>2. id \in FindIds
    <2>1. PICK n \in Nat : n = mission[m].revision
      BY DEF TowerInv, KernelInv, MissionRecords, MissionRecord
    <2>2. (n + 1) \div 2 \in Int
      OBVIOUS
    <2> QED BY <1>1, <2>1, <2>2 DEF Round, FindIds
  <1>3. PICK e : e = [id |-> id, read |-> FALSE]
    OBVIOUS
  <1>4. e \in ReceiptRecord /\ e.id = id
    BY <1>2, <1>3 DEF ReceiptRecord
  <1>5. PICK a, b, c : a = <<e>> /\ b = findReceipts /\ c = a \o b
    OBVIOUS
  <1>6. findReceipts' = c /\ \A i \in DOMAIN b : b[i].id # id
    BY <1>1, <1>3, <1>5 DEF QueueReceipt
  <1>7. PICK U : U = ReceiptRecord
    OBVIOUS
  <1>8. a \in Seq(U) /\ Len(a) = 1 /\ a[1] = e
    BY <1>4, <1>5, <1>7
  <1>9. b \in Seq(U) /\ Distinct(b)
    BY <1>5, <1>7 DEF TowerInv, KernelInv, ListOf
  <1>10. /\ c \in Seq(U) /\ Len(c) = 1 + Len(b) /\ Len(b) \in Nat
         /\ \A k \in 1..Len(c) : c[k] = IF k <= 1 THEN a[k] ELSE b[k - 1]
    BY <1>5, <1>8, <1>9, ConcatProperties
  <1>11. ASSUME NEW k \in 1..Len(c), NEW l \in 1..Len(c), c[k].id = c[l].id PROVE k = l
    <2>1. \A p \in 1..Len(c) : p # 1 => p - 1 \in DOMAIN b /\ c[p] = b[p - 1] /\ c[p].id # id
      <3> SUFFICES ASSUME NEW p \in 1..Len(c), p # 1
                   PROVE  p - 1 \in DOMAIN b /\ c[p] = b[p - 1] /\ c[p].id # id
        OBVIOUS
      <3>1. p - 1 \in 1..Len(b) /\ ~(p <= 1)
        BY <1>10
      <3>2. p - 1 \in DOMAIN b
        BY <1>9, <3>1
      <3> QED BY <1>6, <1>10, <3>1, <3>2
    <2>2. 1 \in 1..Len(c) /\ c[1] = e
      BY <1>8, <1>10
    <2>3. CASE k = 1 /\ l = 1
      BY <2>3
    <2>4. CASE k = 1 /\ l # 1
      BY <1>4, <1>11, <2>1, <2>2, <2>4
    <2>5. CASE k # 1 /\ l = 1
      BY <1>4, <1>11, <2>1, <2>2, <2>5
    <2>6. CASE k # 1 /\ l # 1
      <3>1. k - 1 = l - 1
        BY <1>9, <1>11, <2>1, <2>6 DEF Distinct
      <3> QED BY <1>10, <3>1
    <2> QED BY <2>3, <2>4, <2>5, <2>6
  <1>12. ListOf(ReceiptRecord, c)
    <2>1. DOMAIN c = 1..Len(c)
      BY <1>10
    <2> QED BY <1>7, <1>10, <1>11, <2>1 DEF ListOf, Distinct
  <1> QED BY <1>6, <1>12, ReceiptsMove DEF QueueReceipt

LEMMA ReadIsList ==
  ASSUME KernelInv, NEW id
  PROVE  ListOf(ReceiptRecord, Read(id))
  <1>1. PICK b, n : b = findReceipts /\ n = Len(b)
    OBVIOUS
  <1>2. b \in Seq(ReceiptRecord) /\ Distinct(b) /\ n \in Nat /\ DOMAIN b = 1..n
    BY <1>1 DEF KernelInv, ListOf
  <1>3. PICK c : c = Read(id)
    OBVIOUS
  <1>4. /\ c = [i \in 1..n |-> c[i]]
        /\ \A i \in 1..n : c[i] = IF b[i].id = id THEN [b[i] EXCEPT !.read = TRUE] ELSE b[i]
    BY <1>1, <1>2, <1>3 DEF Read
  <1>5. \A i \in 1..n : c[i] \in ReceiptRecord /\ c[i].id = b[i].id
    <2> SUFFICES ASSUME NEW i \in 1..n PROVE c[i] \in ReceiptRecord /\ c[i].id = b[i].id
      OBVIOUS
    <2>1. PICK e : e = b[i] /\ e \in ReceiptRecord
      BY <1>2
    <2>2. PICK d : d = [e EXCEPT !.read = TRUE]
      OBVIOUS
    <2>3. d \in ReceiptRecord /\ d.id = e.id
      BY <2>1, <2>2 DEF ReceiptRecord
    <2>4. c[i] = IF e.id = id THEN d ELSE e
      BY <1>4, <2>1, <2>2
    <2> QED BY <2>1, <2>3, <2>4
  <1>6. c \in Seq(ReceiptRecord) /\ DOMAIN c = 1..n
    BY <1>2, <1>4, <1>5
  <1> QED BY <1>2, <1>3, <1>5, <1>6 DEF ListOf, Distinct

LEMMA ClickCounts ==
  ASSUME TowerInv, NEW id, Click(id)
  PROVE  TowerInv'
  BY ReadIsList, ReceiptsMove DEF TowerInv, Click

(* ---- One inspection. *)

(* The steps that only fill in what the inspection holds. *)
LEMMA InspectionMovesOn ==
  ASSUME TowerInv, NEW w \in Wakes, NEW i, Hold(w, i), CountersInv', KernelInv', InspectionOK(i)',
         \A v \in Wakes \ {w} : inspection[v] = Asleep,
         UNCHANGED <<mission, tower, delivered, popup, shown>>,
         faults.stop <= faults'.stop, faults.popup <= faults'.popup,
         MadeBy(inspection[w]) \subseteq MadeBy(i) \/ faults.stop + 1 <= faults'.stop,
         AwaitedBy(i) \subseteq AwaitedBy(inspection[w])
  PROVE  TowerInv'
  <1>1. /\ InspectionsInv'
        /\ \A id : IsRemembered(id) <=> id \in delivered \/ id \in MadeBy(inspection[w])
        /\ \A id : IsRemembered(id)' <=> id \in delivered' \/ id \in MadeBy(i)
        /\ \A a : Awaited(a) <=> a \in AwaitedBy(inspection[w])
        /\ \A a : Awaited(a)' <=> a \in AwaitedBy(i)
    BY OneInspects DEF TowerInv
  <1>2. \A m \in Missions : mission[m].revision <= mission'[m].revision
    BY DEF TowerInv, KernelInv, MissionRecords, MissionRecord
  <1>3. \A id : IsRemembered(id) => IsRemembered(id)' \/ faults.stop + 1 <= faults'.stop
    BY <1>1
  <1>4. \A a : Awaited(a)' => Awaited(a)
    BY <1>1
  <1> QED BY <1>1, <1>2, <1>3, <1>4, TowerQuietStep

LEMMA StillQuiet ==
  ASSUME TowerInv, Quiet
  PROVE  CountersInv' /\ KernelInv' /\ faults.stop <= faults'.stop /\ faults.popup <= faults'.popup
  BY DEF TowerInv, Quiet, CountersInv, KernelInv, ListOf, Distinct

LEMMA StillFaulted ==
  ASSUME TowerInv, NEW kind \in {"stop", "call", "unread", "popup"}, Fault(kind),
         UNCHANGED <<mission, findReceipts, shown>>
  PROVE  /\ CountersInv' /\ KernelInv' /\ faults.stop <= faults'.stop /\ faults.popup <= faults'.popup
         /\ kind = "stop" => faults.stop + 1 <= faults'.stop
  <1>1. /\ faults' \in [stop : Nat, call : Nat, unread : Nat, popup : Nat]
        /\ faults.stop <= faults'.stop /\ faults.popup <= faults'.popup
        /\ kind = "stop" => faults'.stop = faults.stop + 1
    BY Faulted DEF TowerInv
  <1>2. CountersInv' /\ KernelInv'
    BY <1>1 DEF TowerInv, CountersInv, KernelInv, ListOf, Distinct
  <1>3. kind = "stop" => faults.stop + 1 <= faults'.stop
    <2>1. PICK a, b : a = faults.stop /\ b = faults'.stop
      OBVIOUS
    <2>2. a \in Nat /\ b \in Nat
      BY <1>1, <2>1 DEF TowerInv, CountersInv
    <2> QED BY <1>1, <2>1, <2>2
  <1> QED BY <1>1, <1>2, <1>3

LEMMA InspectCounts ==
  ASSUME TowerInv, NEW w \in Wakes, Inspect(w)
  PROVE  TowerInv'
  <1>1. PICK i : i = [at |-> "missions", tower |-> tower, delivered |-> delivered]
    OBVIOUS
  <1>2. Hold(w, i) /\ Quiet /\ \A v \in Wakes : inspection[v] = Asleep
    BY <1>1 DEF Inspect
  <1>3. UNCHANGED <<mission, tower, delivered, popup, shown>>
    BY <1>2 DEF Quiet
  <1>4. InspectionOK(i)'
    <2>1. i \in Beginning
      BY <1>1 DEF Beginning, TowerInv, StorageInv
    <2>2. \A m \in Missions : tower.known[m] \in Nat
      BY DEF TowerInv, StorageInv, TowerRecord
    <2>3. ReadTower(i)'
      BY <1>1, <1>3, <2>2 DEF ReadTower
    <2>4. ReadRevisions(i)'
      BY <1>1, <1>3 DEF ReadRevisions, TowerInv, StorageInv
    <2>5. Delivery(i)'
      BY <1>1 DEF Delivery
    <2> QED BY <2>1, <2>3, <2>4, <2>5 DEF InspectionOK
  <1>5. MadeBy(inspection[w]) = {} /\ AwaitedBy(i) = {}
    BY <1>1, <1>2, AsleepIsQuiet DEF AwaitedBy
  <1> QED BY <1>2, <1>3, <1>4, <1>5, StillQuiet, InspectionMovesOn

(* An inspection that ends because the Kernel does not answer. *)
LEMMA ReadMissionsCounts ==
  ASSUME TowerInv, NEW w \in Wakes, ReadMissions(w)
  PROVE  TowerInv'
  <1>1. PICK i : i = inspection[w]
    OBVIOUS
  <1>2. InspectionOK(i) /\ i.at = "missions"
    BY <1>1 DEF TowerInv, InspectionsInv, ReadMissions
  <1>3. i # Asleep
    BY <1>2 DEF Asleep
  <1>4. \A v \in Wakes \ {w} : inspection[v] = Asleep
    BY <1>1, <1>3, OthersAsleep DEF TowerInv
  <1>5. MadeBy(i) = {}
    BY <1>2 DEF MadeBy
  <1>6. i \in Beginning
    BY <1>2 DEF InspectionOK, Asleep, Informed, Covered, Delivering, Announcing
  <1>7. CASE Fault("call") /\ Hold(w, Asleep) /\ UNCHANGED <<mission, findReceipts, tower, delivered, popup, shown>>
    <2>1. CountersInv' /\ KernelInv' /\ faults.stop <= faults'.stop /\ faults.popup <= faults'.popup
      BY <1>7, StillFaulted
    <2> QED BY <1>1, <1>4, <1>5, <1>7, <2>1, AsleepIsOK, AsleepIsQuiet, InspectionMovesOn
  <1>8. CASE /\ Hold(w, [at |-> "covering", tower |-> inspection[w].tower,
                         delivered |-> inspection[w].delivered, missions |-> mission])
             /\ Quiet
    <2>1. PICK j : j = [at |-> "covering", tower |-> i.tower, delivered |-> i.delivered, missions |-> mission]
      OBVIOUS
    <2>2. Hold(w, j)
      BY <1>1, <1>8, <2>1
    <2>3. UNCHANGED <<mission, tower, delivered, popup, shown>>
      BY <1>8 DEF Quiet
    <2>4. InspectionOK(j)'
      <3>1. j \in Informed
        BY <1>6, <2>1 DEF Beginning, Informed, TowerInv, KernelInv
      <3>2. ReadTower(j)'
        BY <1>2, <2>1, <2>3 DEF ReadTower, InspectionOK, Observing
      <3>3. ReadRevisions(j)'
        <4>1. \A m \in Missions : i.tower.known[m] <= mission[m].revision
          BY <1>2 DEF InspectionOK, ReadRevisions
        <4>2. \A m \in Missions : mission[m].revision \in Nat
          BY DEF TowerInv, KernelInv, MissionRecords, MissionRecord
        <4> QED BY <2>1, <2>3, <4>1, <4>2 DEF ReadRevisions
      <3>4. Delivery(j)'
        BY <2>1 DEF Delivery
      <3> QED BY <3>1, <3>2, <3>3, <3>4 DEF InspectionOK
    <2>5. AwaitedBy(j) = {}
      BY <2>1 DEF AwaitedBy
    <2> QED BY <1>1, <1>4, <1>5, <1>8, <2>2, <2>3, <2>4, <2>5, StillQuiet, InspectionMovesOn
  <1> QED BY <1>7, <1>8 DEF ReadMissions

LEMMA ReadCoveringCounts ==
  ASSUME TowerInv, NEW w \in Wakes, ReadCovering(w)
  PROVE  TowerInv'
  <1>1. PICK i : i = inspection[w]
    OBVIOUS
  <1>2. InspectionOK(i) /\ i.at = "covering"
    BY <1>1 DEF TowerInv, InspectionsInv, ReadCovering
  <1>3. i # Asleep
    BY <1>2 DEF Asleep
  <1>4. \A v \in Wakes \ {w} : inspection[v] = Asleep
    BY <1>1, <1>3, OthersAsleep DEF TowerInv
  <1>5. MadeBy(i) = {}
    BY <1>2 DEF MadeBy
  <1>6. i \in Informed
    BY <1>2 DEF InspectionOK, Asleep, Beginning, Covered, Delivering, Announcing
  <1> DEFINE next(cover) == [at |-> "unread", tower |-> i.tower, delivered |-> i.delivered,
                             missions |-> i.missions, cover |-> cover]
  <1>7. ASSUME NEW cover \in SUBSET FindIds, Hold(w, next(cover)),
               CountersInv', KernelInv', faults.stop <= faults'.stop, faults.popup <= faults'.popup,
               UNCHANGED <<mission, tower, delivered, popup, shown>>
        PROVE  TowerInv'
    <2>1. PICK j : j = next(cover)
      OBVIOUS
    <2>2. InspectionOK(j)'
      <3>1. j \in Covered
        BY <1>6, <2>1 DEF Informed, Covered
      <3>2. ReadTower(j)'
        BY <1>2, <1>7, <2>1 DEF ReadTower, InspectionOK, Observing
      <3>3. ReadRevisions(j)'
        BY <1>2, <1>7, <2>1 DEF ReadRevisions, InspectionOK, Observing
      <3>4. Delivery(j)'
        BY <2>1 DEF Delivery
      <3> QED BY <3>1, <3>2, <3>3, <3>4 DEF InspectionOK
    <2>3. AwaitedBy(j) = {}
      BY <2>1 DEF AwaitedBy
    <2> HIDE DEF next
    <2> QED BY <1>1, <1>4, <1>5, <1>7, <2>1, <2>2, <2>3, InspectionMovesOn
  <1>8. CASE Hold(w, next({r.id : r \in ToSet(ListAny)})) /\ Quiet
    <2>1. {r.id : r \in ToSet(ListAny)} \subseteq FindIds
      <3>1. ListOf(ReceiptRecord, ListAny)
        BY WindowedIsList, WatchtowerBounds DEF TowerInv, KernelInv, ListAny
      <3>2. ToSet(ListAny) \subseteq ReceiptRecord
        BY <3>1 DEF ListOf, ToSet
      <3> QED BY <3>2 DEF ReceiptRecord
    <2>2. UNCHANGED <<mission, tower, delivered, popup, shown>>
      BY <1>8 DEF Quiet
    <2> HIDE DEF next
    <2> QED BY <1>7, <1>8, <2>1, <2>2, StillQuiet
  <1>9. CASE /\ Fault("call") /\ Hold(w, next({}))
             /\ UNCHANGED <<mission, findReceipts, tower, delivered, popup, shown>>
    <2>1. PICK none \in SUBSET FindIds : none = {}
      OBVIOUS
    <2> HIDE DEF next
    <2> QED BY <1>7, <1>9, <2>1, StillFaulted
  <1>10. \/ Hold(w, next({r.id : r \in ToSet(ListAny)})) /\ Quiet
         \/ /\ Fault("call") /\ Hold(w, next({}))
            /\ UNCHANGED <<mission, findReceipts, tower, delivered, popup, shown>>
    BY <1>1 DEF ReadCovering
  <1> QED BY <1>8, <1>9, <1>10

LEMMA ReadUnreadCounts ==
  ASSUME TowerInv, NEW w \in Wakes, ReadUnread(w)
  PROVE  TowerInv'
  <1>1. PICK i : i = inspection[w]
    OBVIOUS
  <1>2. InspectionOK(i) /\ i.at = "unread"
    BY <1>1 DEF TowerInv, InspectionsInv, ReadUnread
  <1>3. i # Asleep
    BY <1>2 DEF Asleep
  <1>4. \A v \in Wakes \ {w} : inspection[v] = Asleep
    BY <1>1, <1>3, OthersAsleep DEF TowerInv
  <1>5. MadeBy(i) = {}
    BY <1>2 DEF MadeBy
  <1>6. i \in Covered
    BY <1>2 DEF InspectionOK, Asleep, Beginning, Informed, Delivering, Announcing
  <1> DEFINE next(s, at) == [at |-> at, tower |-> i.tower, delivered |-> i.delivered,
                             missions |-> i.missions, cover |-> i.cover, todo |-> s, made |-> {}]
  <1>7. ASSUME NEW s \in Seq(ReceiptRecord), NEW at \in {"deliver", "reconcile"}, Hold(w, next(s, at)),
               at = "deliver" => /\ Distinct(s) /\ s # <<>>
                                 /\ \A k \in DOMAIN s : s[k].id \notin i.delivered,
               CountersInv', KernelInv', faults.stop <= faults'.stop, faults.popup <= faults'.popup,
               UNCHANGED <<mission, tower, delivered, popup, shown>>
        PROVE  TowerInv'
    <2>1. PICK j : j = next(s, at)
      OBVIOUS
    <2>2. InspectionOK(j)'
      <3>1. j \in Delivering
        BY <1>6, <1>7, <2>1 DEF Covered, Delivering
      <3>2. ReadTower(j)'
        BY <1>2, <1>7, <2>1 DEF ReadTower, InspectionOK, Observing
      <3>3. ReadRevisions(j)'
        BY <1>2, <1>7, <2>1 DEF ReadRevisions, InspectionOK, Observing
      <3>4. Delivery(j)'
        BY <1>7, <2>1 DEF Delivery, Distinct
      <3> QED BY <3>1, <3>2, <3>3, <3>4 DEF InspectionOK
    <2>3. AwaitedBy(j) = {}
      BY <1>7, <2>1 DEF AwaitedBy
    <2> HIDE DEF next
    <2> QED BY <1>1, <1>4, <1>5, <1>7, <2>1, <2>2, <2>3, InspectionMovesOn
  <1>8. PICK todo : todo = Undelivered(ListUnread, i.delivered)
    OBVIOUS
  <1>9. ListOf(ReceiptRecord, todo) /\ \A k \in DOMAIN todo : todo[k].id \notin i.delivered
    BY <1>8, ToldOnce, WatchtowerBounds DEF TowerInv, KernelInv, ListUnread
  <1>10. CASE Hold(w, next(todo, IF todo = <<>> THEN "reconcile" ELSE "deliver")) /\ Quiet
    <2>1. PICK at \in {"deliver", "reconcile"} : at = IF todo = <<>> THEN "reconcile" ELSE "deliver"
      OBVIOUS
    <2>2. UNCHANGED <<mission, tower, delivered, popup, shown>>
      BY <1>10 DEF Quiet
    <2>3. at = "deliver" => todo # <<>>
      BY <2>1
    <2> HIDE DEF next
    <2>4. Hold(w, next(todo, at))
      BY <1>10, <2>1
    <2> QED BY <1>7, <1>9, <1>10, <2>2, <2>3, <2>4, StillQuiet DEF ListOf
  <1>11. CASE /\ Fault("call") /\ Hold(w, next(<<>>, "reconcile"))
              /\ UNCHANGED <<mission, findReceipts, tower, delivered, popup, shown>>
    <2>1. PICK none \in Seq(ReceiptRecord) : none = <<>>
      <3>1. PICK U : U = ReceiptRecord
        OBVIOUS
      <3>2. <<>> \in Seq(U)
        OBVIOUS
      <3> QED BY <3>1, <3>2
    <2>2. PICK at \in {"deliver", "reconcile"} : at = "reconcile"
      OBVIOUS
    <2> HIDE DEF next
    <2> QED BY <1>7, <1>11, <2>1, <2>2, StillFaulted
  <1>12. \/ Hold(w, next(todo, IF todo = <<>> THEN "reconcile" ELSE "deliver")) /\ Quiet
         \/ /\ Fault("call") /\ Hold(w, next(<<>>, "reconcile"))
            /\ UNCHANGED <<mission, findReceipts, tower, delivered, popup, shown>>
    BY <1>1, <1>8 DEF ReadUnread
  <1> QED BY <1>10, <1>11, <1>12

(* A receipt is shown only while nothing remembers it, and from then on the    *)
(* inspection does.                                                            *)
LEMMA DeliverCounts ==
  ASSUME TowerInv, NEW w \in Wakes, Deliver(w)
  PROVE  TowerInv'
  <1>1. PICK i : i = inspection[w]
    OBVIOUS
  <1>2. InspectionOK(i) /\ i.at = "deliver"
    BY <1>1 DEF TowerInv, InspectionsInv, Deliver
  <1>3. i # Asleep
    BY <1>2 DEF Asleep
  <1>4. \A v \in Wakes \ {w} : inspection[v] = Asleep
    BY <1>1, <1>3, OthersAsleep DEF TowerInv
  <1>5. MadeBy(i) = i.made /\ AwaitedBy(i) = {}
    BY <1>2 DEF MadeBy, AwaitedBy
  <1>6. i \in Delivering
    BY <1>2 DEF InspectionOK, Asleep, Beginning, Informed, Covered, Announcing
  <1>7. PICK s, n : s = i.todo /\ n = Len(s)
    OBVIOUS
  <1>8. /\ s \in Seq(ReceiptRecord) /\ s # <<>> /\ Distinct(s) /\ i.delivered = delivered
        /\ \A k \in DOMAIN s : s[k].id \notin delivered /\ s[k].id \notin i.made
    BY <1>2, <1>6, <1>7 DEF Delivering, InspectionOK, Delivery, ReadTower, Observing
  <1>9. PICK r : r = Head(s)
    OBVIOUS
  <1>10. n \in Nat /\ n >= 1 /\ DOMAIN s = 1..n /\ r = s[1] /\ r \in ReceiptRecord
    BY <1>7, <1>8, <1>9
  <1>11. UNCHANGED <<mission, tower, delivered, popup>>
    BY DEF Deliver
  <1>12. CASE /\ Fault("stop")
              /\ Hold(w, [i EXCEPT !.at = "reconcile"])
              /\ UNCHANGED <<findReceipts, shown>>
    <2>1. PICK j : j = [i EXCEPT !.at = "reconcile"]
      OBVIOUS
    <2>2. InspectionOK(j)'
      <3>1. j \in Delivering
        BY <1>6, <2>1 DEF Delivering
      <3>2. ReadTower(j)'
        BY <1>2, <1>6, <1>11, <2>1 DEF ReadTower, InspectionOK, Observing, Delivering
      <3>3. ReadRevisions(j)'
        BY <1>2, <1>6, <1>11, <2>1 DEF ReadRevisions, InspectionOK, Observing, Delivering
      <3>4. Delivery(j)'
        BY <1>6, <2>1 DEF Delivery, Delivering
      <3> QED BY <3>1, <3>2, <3>3, <3>4 DEF InspectionOK
    <2>3. AwaitedBy(j) = {}
      BY <1>6, <2>1 DEF AwaitedBy, Delivering
    <2>4. /\ CountersInv' /\ KernelInv' /\ faults.stop <= faults'.stop /\ faults.popup <= faults'.popup
          /\ faults.stop + 1 <= faults'.stop
      BY <1>11, <1>12, StillFaulted
    <2> QED BY <1>1, <1>4, <1>11, <1>12, <2>1, <2>2, <2>3, <2>4, InspectionMovesOn
  <1>13. CASE /\ shown' = [shown EXCEPT ![r.id] = @ + 1]
              /\ Hold(w, [i EXCEPT !.todo = Tail(@), !.made = @ \cup {r.id},
                              !.at = IF Len(i.todo) = 1 THEN "remember" ELSE @])
              /\ \/ findReceipts' = Read(r.id) /\ UNCHANGED faults
                 \/ Fault("unread") /\ UNCHANGED findReceipts
    <2>1. PICK t, made, at : /\ t = Tail(s) /\ made = i.made \cup {r.id}
                             /\ at = IF n = 1 THEN "remember" ELSE "deliver"
      OBVIOUS
    <2>2. PICK j : j = [i EXCEPT !.todo = t, !.made = made, !.at = at]
      OBVIOUS
    <2>3. Hold(w, j)
      <3>1. [i EXCEPT !.todo = Tail(@), !.made = @ \cup {r.id},
                      !.at = IF Len(i.todo) = 1 THEN "remember" ELSE @] = j
        BY <1>2, <1>6, <1>7, <2>1, <2>2 DEF Delivering
      <3> QED BY <1>13, <3>1
    <2>4. t \in Seq(ReceiptRecord) /\ Len(t) = n - 1 /\ \A k \in 1..n - 1 : t[k] = s[k + 1]
      BY <1>7, <1>8, <1>10, <2>1
    <2>5. r.id \in FindIds
      BY <1>10 DEF ReceiptRecord
    <2>6. j \in Delivering /\ j.at = at /\ j.todo = t /\ j.made = made
          /\ j.tower = i.tower /\ j.delivered = i.delivered /\ j.missions = i.missions
      <3>1. made \subseteq FindIds
        BY <1>6, <2>1, <2>5 DEF Delivering
      <3>2. at \in {"deliver", "remember", "reconcile"}
        BY <2>1
      <3> QED BY <1>6, <2>2, <2>4, <3>1, <3>2 DEF Delivering
    <2>7. at \in {"deliver", "remember"}
      BY <2>1
    <2>8. InspectionOK(j)'
      <3>2. ReadTower(j)'
        BY <1>2, <1>11, <2>6, <2>7 DEF ReadTower, InspectionOK, Observing
      <3>3. ReadRevisions(j)'
        BY <1>2, <1>11, <2>6, <2>7 DEF ReadRevisions, InspectionOK, Observing
      <3>4. Delivery(j)'
        <4> SUFFICES ASSUME at = "deliver"
                     PROVE  /\ Distinct(t) /\ t # <<>>
                            /\ \A k \in DOMAIN t : t[k].id \notin i.delivered \cup made
          BY <2>6 DEF Delivery, Distinct
        <4>1. n # 1
          BY <2>1
        <4>2. DOMAIN t = 1..n - 1 /\ t # <<>>
          BY <1>10, <2>4, <4>1
        <4>3. \A k \in 1..n - 1 : k + 1 \in DOMAIN s /\ t[k] = s[k + 1] /\ k + 1 # 1
          BY <1>10, <2>4
        <4>4. Distinct(t)
          <5> SUFFICES ASSUME NEW k \in 1..n - 1, NEW l \in 1..n - 1, t[k].id = t[l].id PROVE k = l
            BY <4>2 DEF Distinct
          <5>1. k + 1 = l + 1
            BY <1>8, <4>3 DEF Distinct
          <5> QED BY <1>10, <5>1
        <4>5. \A k \in 1..n - 1 : t[k].id \notin i.delivered \cup made
          <5> SUFFICES ASSUME NEW k \in 1..n - 1 PROVE t[k].id \notin i.delivered \cup made
            OBVIOUS
          <5>1. 1 \in DOMAIN s
            BY <1>10
          <5>2. t[k].id # r.id
            BY <1>8, <1>10, <4>3, <5>1 DEF Distinct
          <5> QED BY <1>8, <2>1, <4>3, <5>2
        <4> QED BY <4>2, <4>4, <4>5
      <3> QED BY <2>6, <3>2, <3>3, <3>4 DEF InspectionOK
    <2>9. /\ InspectionsInv'
          /\ \A id : IsRemembered(id) <=> id \in delivered \/ id \in i.made
          /\ \A id : IsRemembered(id)' <=> id \in delivered' \/ id \in MadeBy(j)
          /\ \A a : Awaited(a) <=> a \in AwaitedBy(i)
          /\ \A a : Awaited(a)' <=> a \in AwaitedBy(j)
      BY <1>1, <1>4, <1>5, <2>3, <2>8, OneInspects DEF TowerInv
    <2>10. MadeBy(j) = made /\ AwaitedBy(j) = {}
      BY <2>6, <2>7 DEF MadeBy, AwaitedBy
    <2>11. /\ KernelInv' /\ faults' \in [stop : Nat, call : Nat, unread : Nat, popup : Nat]
           /\ faults.stop <= faults'.stop /\ faults.popup <= faults'.popup
      <3>1. CASE findReceipts' = Read(r.id) /\ UNCHANGED faults
        <4>1. ListOf(ReceiptRecord, Read(r.id))
          BY ReadIsList DEF TowerInv
        <4>2. ListOf(ReceiptRecord, findReceipts)'
          BY <3>1, <4>1 DEF ListOf, Distinct
        <4> QED BY <1>11, <3>1, <4>2 DEF TowerInv, KernelInv, CountersInv
      <3>2. CASE Fault("unread") /\ UNCHANGED findReceipts
        <4>1. /\ faults' \in [stop : Nat, call : Nat, unread : Nat, popup : Nat]
              /\ faults.stop <= faults'.stop /\ faults.popup <= faults'.popup
          BY <3>2, Faulted DEF TowerInv
        <4> QED BY <1>11, <3>2, <4>1 DEF TowerInv, KernelInv, ListOf, Distinct
      <3> QED BY <1>13, <3>1, <3>2
    <2>12. shown' \in [ReceiptIds \cup Avisos -> Nat]
           /\ \A x \in ReceiptIds \cup Avisos : shown'[x] = IF x = r.id THEN shown[x] + 1 ELSE shown[x]
      BY <1>13, ShownOnceMore DEF TowerInv
    <2>13. CountersInv'
      BY <2>11, <2>12 DEF CountersInv
    <2>14. StorageInv'
      BY <1>11 DEF TowerInv, StorageInv
    <2>15. ReceiptsCounted'
      <3> SUFFICES ASSUME NEW id \in ReceiptIds
                   PROVE  shown'[id] <= faults'.stop + (IF IsRemembered(id)' THEN 1 ELSE 0)
        BY DEF ReceiptsCounted
      <3>1. CASE id = r.id
        <4>1. ~IsRemembered(id) /\ IsRemembered(id)'
          BY <1>8, <1>10, <2>1, <2>9, <2>10, <3>1
        <4>2. PICK a, f, g : a = shown[id] /\ f = faults.stop /\ g = faults'.stop
          OBVIOUS
        <4>3. a \in Nat /\ f \in Nat /\ g \in Nat /\ f <= g
          BY <2>11, <4>2 DEF TowerInv, CountersInv
        <4>4. a <= f
          <5>1. a <= f + 0
            BY <4>1, <4>2 DEF TowerInv, ReceiptsCounted
          <5> QED BY <4>3, <5>1
        <4>5. shown'[id] = a + 1
          BY <2>12, <3>1, <4>2
        <4> QED BY <4>1, <4>2, <4>3, <4>4, <4>5
      <3>2. CASE id # r.id
        <4>1. shown'[id] = shown[id]
          BY <2>12, <3>2
        <4>2. IsRemembered(id) => IsRemembered(id)'
          BY <1>11, <2>1, <2>9, <2>10
        <4> QED BY <2>11, <2>13, <4>1, <4>2, ReceiptsStillCounted DEF TowerInv
      <3> QED BY <3>1, <3>2
    <2>16. AvisosCounted'
      <3> SUFFICES ASSUME NEW m \in Missions, NEW q \in 1..2 * MaxRounds
                   PROVE  shown'[Aviso(m, q)] + (IF Awaited(Aviso(m, q))' THEN 1 ELSE 0)
                            <= faults'.popup + (IF q <= tower'.known[m] THEN 1 ELSE 0)
        BY DEF AvisosCounted
      <3>1. Aviso(m, q) # r.id /\ Aviso(m, q) \in Avisos
        BY <2>5, Kinds
      <3>2. shown'[Aviso(m, q)] = shown[Aviso(m, q)]
        BY <2>12, <3>1
      <3>3. tower.known[m] <= tower'.known[m]
        BY <1>11 DEF TowerInv, StorageInv, TowerRecord
      <3>4. Awaited(Aviso(m, q))' => Awaited(Aviso(m, q))
        BY <2>9, <2>10
      <3> QED BY <2>11, <2>13, <2>14, <3>2, <3>3, <3>4, AvisosStillCounted DEF TowerInv
    <2> QED BY <2>9, <2>11, <2>13, <2>14, <2>15, <2>16 DEF TowerInv
  <1>14. \/ /\ shown' = [shown EXCEPT ![r.id] = @ + 1]
            /\ Hold(w, [i EXCEPT !.todo = Tail(@), !.made = @ \cup {r.id},
                              !.at = IF Len(i.todo) = 1 THEN "remember" ELSE @])
            /\ \/ findReceipts' = Read(r.id) /\ UNCHANGED faults
               \/ Fault("unread") /\ UNCHANGED findReceipts
         \/ /\ Fault("stop")
            /\ Hold(w, [i EXCEPT !.at = "reconcile"])
            /\ UNCHANGED <<findReceipts, shown>>
    BY <1>1, <1>7, <1>9 DEF Deliver
  <1> QED BY <1>12, <1>13, <1>14

LEMMA RememberCounts ==
  ASSUME TowerInv, NEW w \in Wakes, Remember(w)
  PROVE  TowerInv'
  <1>1. PICK i : i = inspection[w]
    OBVIOUS
  <1>2. InspectionOK(i) /\ i.at = "remember"
    BY <1>1 DEF TowerInv, InspectionsInv, Remember
  <1>3. i # Asleep
    BY <1>2 DEF Asleep
  <1>4. \A v \in Wakes \ {w} : inspection[v] = Asleep
    BY <1>1, <1>3, OthersAsleep DEF TowerInv
  <1>5. MadeBy(i) = i.made /\ AwaitedBy(i) = {}
    BY <1>2 DEF MadeBy, AwaitedBy
  <1>6. i \in Delivering /\ i.delivered = delivered
    BY <1>2 DEF InspectionOK, Asleep, Beginning, Informed, Covered, Announcing, ReadTower, Observing
  <1>7. PICK j : j = [i EXCEPT !.at = "reconcile"]
    OBVIOUS
  <1>8. /\ delivered' = delivered \cup i.made /\ Hold(w, j)
        /\ UNCHANGED <<mission, findReceipts, tower, popup, shown, faults>>
    BY <1>1, <1>6, <1>7 DEF Remember
  <1>9. InspectionOK(j)'
    <2>1. j \in Delivering
      BY <1>6, <1>7 DEF Delivering
    <2>2. ReadTower(j)'
      BY <1>2, <1>6, <1>7, <1>8 DEF ReadTower, InspectionOK, Observing, Delivering
    <2>3. ReadRevisions(j)'
      BY <1>2, <1>6, <1>7, <1>8 DEF ReadRevisions, InspectionOK, Observing, Delivering
    <2>4. Delivery(j)'
      BY <1>6, <1>7 DEF Delivery, Delivering
    <2> QED BY <2>1, <2>2, <2>3, <2>4 DEF InspectionOK
  <1>10. /\ InspectionsInv'
         /\ \A id : IsRemembered(id) <=> id \in delivered \/ id \in i.made
         /\ \A id : IsRemembered(id)' <=> id \in delivered' \/ id \in MadeBy(j)
         /\ \A a : Awaited(a) <=> a \in AwaitedBy(i)
         /\ \A a : Awaited(a)' <=> a \in AwaitedBy(j)
    BY <1>1, <1>4, <1>5, <1>8, <1>9, OneInspects DEF TowerInv
  <1>11. AwaitedBy(j) = {}
    BY <1>6, <1>7 DEF AwaitedBy, Delivering
  <1>12. KernelInv' /\ CountersInv'
    BY <1>8 DEF TowerInv, KernelInv, CountersInv, ListOf, Distinct
  <1>13. StorageInv'
    BY <1>6, <1>8 DEF TowerInv, StorageInv, Delivering
  <1>14. faults.stop <= faults'.stop /\ faults.popup <= faults'.popup
    BY <1>8 DEF TowerInv, CountersInv
  <1>15. ReceiptsCounted'
    <2>1. \A id : IsRemembered(id) => IsRemembered(id)'
      BY <1>8, <1>10
    <2> QED BY <1>8, <1>12, <1>14, <2>1, ReceiptsStillCounted DEF TowerInv, ReceiptsCounted
  <1>16. AvisosCounted'
    <2> SUFFICES ASSUME NEW m \in Missions, NEW q \in 1..2 * MaxRounds
                 PROVE  shown'[Aviso(m, q)] + (IF Awaited(Aviso(m, q))' THEN 1 ELSE 0)
                          <= faults'.popup + (IF q <= tower'.known[m] THEN 1 ELSE 0)
      BY DEF AvisosCounted
    <2>1. tower.known[m] <= tower'.known[m]
      BY <1>8 DEF TowerInv, StorageInv, TowerRecord
    <2>2. Awaited(Aviso(m, q))' => Awaited(Aviso(m, q))
      BY <1>10, <1>11
    <2> QED BY <1>8, <1>12, <1>13, <1>14, <2>1, <2>2, AvisosStillCounted DEF TowerInv
  <1> QED BY <1>10, <1>12, <1>13, <1>15, <1>16 DEF TowerInv

(* The observation that is stored is newer than the one it was compared with:  *)
(* no aviso of it was announced before.                                        *)
LEMMA ReconcileCounts ==
  ASSUME TowerInv, NEW w \in Wakes, ReconcileWatchtower(w)
  PROVE  TowerInv'
  <1>1. PICK i : i = inspection[w]
    OBVIOUS
  <1>2. InspectionOK(i) /\ i.at = "reconcile"
    BY <1>1 DEF TowerInv, InspectionsInv, ReconcileWatchtower
  <1>3. i # Asleep
    BY <1>2 DEF Asleep
  <1>4. \A v \in Wakes \ {w} : inspection[v] = Asleep
    BY <1>1, <1>3, OthersAsleep DEF TowerInv
  <1>5. MadeBy(i) = {} /\ AwaitedBy(i) = {}
    BY <1>2 DEF MadeBy, AwaitedBy
  <1>6. i \in Delivering
    BY <1>2 DEF InspectionOK, Asleep, Beginning, Informed, Covered, Announcing
  <1>7. PICK rev : rev = [m \in Missions |-> i.missions[m].revision]
    OBVIOUS
  <1>8. rev \in [Missions -> Nat] /\ \A m \in Missions : rev[m] = i.missions[m].revision
    BY <1>6, <1>7 DEF Delivering, MissionRecords, MissionRecord
  <1>9. PICK old : old = i.tower /\ old \in TowerRecord
    BY <1>6 DEF Delivering
  <1>10. \A m \in Missions : /\ tower.known[m] \in Nat /\ old.known[m] \in Nat /\ mission[m].revision \in Nat
                            /\ tower.known[m] <= old.known[m] /\ old.known[m] <= rev[m]
                            /\ rev[m] <= mission[m].revision
    <2>1. \A m \in Missions : tower.known[m] \in Nat /\ old.known[m] \in Nat /\ mission[m].revision \in Nat
      BY <1>9 DEF TowerInv, KernelInv, StorageInv, MissionRecords, MissionRecord, TowerRecord
    <2>2. \A m \in Missions : tower.known[m] <= old.known[m]
      BY <1>2, <1>9 DEF InspectionOK, ReadTower, Observing
    <2>3. \A m \in Missions : old.known[m] <= i.missions[m].revision /\ i.missions[m].revision <= mission[m].revision
      BY <1>2, <1>9 DEF InspectionOK, ReadRevisions, Observing
    <2> QED BY <1>8, <2>1, <2>2, <2>3
  <1>11. PICK new : new = Transitions(old, i.missions)
    OBVIOUS
  <1>12. new \subseteq Missions /\ \A m \in new : old.known[m] < rev[m]
    <2>1. \A m \in new : m \in Missions /\ old.known[m] # rev[m]
      BY <1>8, <1>11 DEF Transitions
    <2> QED BY <1>8, <1>10, <2>1
  <1>13. PICK spoken : spoken = {n \in new : Announced(i, n)}
    OBVIOUS
  <1>14. PICK all, todo : all = {Aviso(m, rev[m]) : m \in new} /\ todo = {Aviso(m, rev[m]) : m \in spoken}
    OBVIOUS
  <1>15. PICK j : j = [at |-> "announce", todo |-> todo]
    OBVIOUS
  <1>16. /\ tower' = [initialized |-> TRUE, known |-> rev, unread |-> old.unread \cup all]
         /\ Hold(w, j)
         /\ UNCHANGED <<mission, findReceipts, delivered, popup, shown, faults>>
    <2>1. \A m \in new : Aviso(m, i.missions[m].revision) = Aviso(m, rev[m])
      BY <1>8, <1>12
    <2>2. {Aviso(m, i.missions[m].revision) : m \in new} = all
      BY <1>14, <2>1
    <2>3. {Aviso(m, i.missions[m].revision) : m \in spoken} = todo
      BY <1>13, <1>14, <2>1
    <2> QED BY <1>1, <1>7, <1>9, <1>11, <1>13, <1>15, <2>2, <2>3 DEF ReconcileWatchtower
  <1>17. all \subseteq AvisoIds /\ todo \subseteq AvisoIds
    <2>1. \A m \in new : Aviso(m, rev[m]) \in AvisoIds
      BY <1>8, <1>12, Kinds
    <2> QED BY <1>13, <1>14, <2>1
  <1>18. /\ tower' \in TowerRecord /\ \A m \in Missions : tower'.known[m] = rev[m]
    <2>1. old.unread \cup all \subseteq AvisoIds
      BY <1>9, <1>17 DEF TowerRecord
    <2> QED BY <1>8, <1>16, <2>1 DEF TowerRecord
  <1>19. StorageInv'
    <2>1. \A m \in Missions : tower.known[m] <= tower'.known[m] /\ tower'.known[m] <= mission'[m].revision
      BY <1>8, <1>10, <1>16, <1>18
    <2>2. \A t \in popup' : \A m \in Missions : t.known[m] <= tower'.known[m]
      <3> SUFFICES ASSUME NEW t \in popup, NEW m \in Missions PROVE t.known[m] <= tower'.known[m]
        BY <1>16
      <3>1. t.known[m] <= tower.known[m] /\ t.known[m] \in Nat
        BY DEF TowerInv, StorageInv, TowerRecord
      <3> QED BY <1>8, <1>10, <1>18, <2>1, <3>1
    <2> QED BY <1>16, <1>18, <2>1, <2>2 DEF TowerInv, StorageInv
  <1>20. InspectionOK(j)'
    BY <1>15, <1>17 DEF InspectionOK, Announcing, ReadTower, ReadRevisions, Delivery, Observing
  <1>21. /\ InspectionsInv'
         /\ \A id : IsRemembered(id) <=> id \in delivered \/ id \in MadeBy(i)
         /\ \A id : IsRemembered(id)' <=> id \in delivered' \/ id \in MadeBy(j)
         /\ \A a : Awaited(a) <=> a \in AwaitedBy(i)
         /\ \A a : Awaited(a)' <=> a \in AwaitedBy(j)
    BY <1>1, <1>4, <1>16, <1>20, OneInspects DEF TowerInv
  <1>22. AwaitedBy(j) = todo
    BY <1>15 DEF AwaitedBy
  <1>23. KernelInv' /\ CountersInv'
    BY <1>16 DEF TowerInv, KernelInv, CountersInv, ListOf, Distinct
  <1>24. faults.stop <= faults'.stop /\ faults.popup <= faults'.popup
    BY <1>16 DEF TowerInv, CountersInv
  <1>25. ReceiptsCounted'
    <2>1. \A id : IsRemembered(id) => IsRemembered(id)'
      BY <1>5, <1>16, <1>21
    <2> QED BY <1>16, <1>23, <1>24, <2>1, ReceiptsStillCounted DEF TowerInv, ReceiptsCounted
  <1>26. AvisosCounted'
    <2> SUFFICES ASSUME NEW m \in Missions, NEW q \in 1..2 * MaxRounds
                 PROVE  shown'[Aviso(m, q)] + (IF Awaited(Aviso(m, q))' THEN 1 ELSE 0)
                          <= faults'.popup + (IF q <= tower'.known[m] THEN 1 ELSE 0)
      BY DEF AvisosCounted
    <2>1. CASE Aviso(m, q) \in todo
      <3>1. m \in new /\ q = rev[m]
        BY <1>13, <1>14, <2>1, Kinds
      <3>2. PICK a, f, k : a = shown[Aviso(m, q)] /\ f = faults.popup /\ k = tower.known[m]
        OBVIOUS
      <3>3. a \in Nat /\ f \in Nat /\ k \in Nat /\ q \in Nat
        BY <3>2, Kinds, WatchtowerBounds DEF TowerInv, CountersInv, StorageInv, TowerRecord
      <3>4. k < q
        BY <1>8, <1>10, <1>12, <3>1, <3>2
      <3>5. a + (IF Awaited(Aviso(m, q)) THEN 1 ELSE 0) <= f + (IF q <= k THEN 1 ELSE 0)
        BY <3>2 DEF TowerInv, AvisosCounted
      <3>6. ~Awaited(Aviso(m, q))
        BY <1>5, <1>21
      <3>7. a <= f
        <4>1. a + 0 <= f + 0
          BY <3>3, <3>4, <3>5, <3>6
        <4> QED BY <3>3, <4>1
      <3>8. shown'[Aviso(m, q)] = a /\ faults'.popup = f /\ tower'.known[m] = q
        BY <1>16, <1>18, <3>1, <3>2
      <3> QED BY <3>3, <3>7, <3>8
    <2>2. CASE Aviso(m, q) \notin todo
      <3>1. tower.known[m] <= tower'.known[m]
        BY <1>8, <1>10, <1>18
      <3>2. ~Awaited(Aviso(m, q))'
        BY <1>21, <1>22, <2>2
      <3> QED BY <1>16, <1>19, <1>23, <1>24, <3>1, <3>2, AvisosStillCounted DEF TowerInv
    <2> QED BY <2>1, <2>2
  <1> QED BY <1>19, <1>21, <1>23, <1>25, <1>26 DEF TowerInv

LEMMA AnnounceCounts ==
  ASSUME TowerInv, NEW w \in Wakes, Announce(w)
  PROVE  TowerInv'
  <1>1. PICK i : i = inspection[w]
    OBVIOUS
  <1>2. InspectionOK(i) /\ i.at = "announce"
    BY <1>1 DEF TowerInv, InspectionsInv, Announce
  <1>3. i # Asleep
    BY <1>2 DEF Asleep
  <1>4. \A v \in Wakes \ {w} : inspection[v] = Asleep
    BY <1>1, <1>3, OthersAsleep DEF TowerInv
  <1>5. MadeBy(i) = {} /\ AwaitedBy(i) = i.todo
    BY <1>2 DEF MadeBy, AwaitedBy
  <1>6. i \in Announcing
    BY <1>2 DEF InspectionOK, Asleep, Beginning, Informed, Covered, Delivering
  <1>7. UNCHANGED <<mission, findReceipts, tower, delivered, popup, faults>>
    BY DEF Announce
  <1>8. faults.stop <= faults'.stop /\ faults.popup <= faults'.popup
    BY <1>7 DEF TowerInv, CountersInv
  <1>9. KernelInv' /\ StorageInv'
    BY <1>7 DEF TowerInv, KernelInv, StorageInv, ListOf, Distinct
  <1>10. CASE Hold(w, Asleep) /\ UNCHANGED shown
    <2>1. CountersInv'
      BY <1>7, <1>10 DEF TowerInv, CountersInv
    <2> QED BY <1>1, <1>4, <1>5, <1>7, <1>8, <1>9, <1>10, <2>1, AsleepIsOK, AsleepIsQuiet, InspectionMovesOn
  <1>11. ASSUME NEW a \in i.todo, shown' = [shown EXCEPT ![a] = @ + 1],
                Hold(w, [i EXCEPT !.todo = @ \ {a}])
         PROVE  TowerInv'
    <2>1. PICK j : j = [i EXCEPT !.todo = @ \ {a}]
      OBVIOUS
    <2>2. j \in Announcing /\ j.at = "announce" /\ j.todo = i.todo \ {a}
      BY <1>6, <2>1 DEF Announcing
    <2>3. InspectionOK(j)'
      BY <2>2 DEF InspectionOK, ReadTower, ReadRevisions, Delivery, Observing
    <2>4. /\ InspectionsInv'
          /\ \A id : IsRemembered(id) <=> id \in delivered \/ id \in MadeBy(i)
          /\ \A id : IsRemembered(id)' <=> id \in delivered' \/ id \in MadeBy(j)
          /\ \A x : Awaited(x) <=> x \in AwaitedBy(i)
          /\ \A x : Awaited(x)' <=> x \in AwaitedBy(j)
      BY <1>1, <1>4, <1>11, <2>1, <2>3, OneInspects DEF TowerInv
    <2>5. AwaitedBy(j) = i.todo \ {a}
      BY <2>2 DEF AwaitedBy
    <2>6. a \in AvisoIds
      BY <1>6 DEF Announcing
    <2>7. /\ shown' \in [ReceiptIds \cup Avisos -> Nat]
          /\ \A x \in ReceiptIds \cup Avisos : shown'[x] = IF x = a THEN shown[x] + 1 ELSE shown[x]
      BY <1>11, ShownOnceMore DEF TowerInv
    <2>8. CountersInv'
      BY <1>7, <2>7 DEF TowerInv, CountersInv
    <2>9. ReceiptsCounted'
      <3> SUFFICES ASSUME NEW id \in ReceiptIds
                   PROVE  shown'[id] <= faults'.stop + (IF IsRemembered(id)' THEN 1 ELSE 0)
        BY DEF ReceiptsCounted
      <3>1. id # a
        BY <2>6, Kinds
      <3>2. shown'[id] = shown[id]
        BY <2>7, <3>1
      <3>3. IsRemembered(id) => IsRemembered(id)'
        BY <1>5, <1>7, <2>4
      <3> QED BY <1>8, <2>8, <3>2, <3>3, ReceiptsStillCounted DEF TowerInv
    <2>10. AvisosCounted'
      <3> SUFFICES ASSUME NEW m \in Missions, NEW q \in 1..2 * MaxRounds
                   PROVE  shown'[Aviso(m, q)] + (IF Awaited(Aviso(m, q))' THEN 1 ELSE 0)
                            <= faults'.popup + (IF q <= tower'.known[m] THEN 1 ELSE 0)
        BY DEF AvisosCounted
      <3>1. CASE Aviso(m, q) = a
        <4>1. Awaited(Aviso(m, q)) /\ ~Awaited(Aviso(m, q))'
          BY <1>5, <2>4, <2>5, <3>1
        <4>2. PICK n, f, b : /\ n = shown[Aviso(m, q)] /\ f = faults.popup
                             /\ b = (IF q <= tower.known[m] THEN 1 ELSE 0)
          OBVIOUS
        <4>3. n \in Nat /\ f \in Nat /\ b \in {0, 1}
          BY <4>2, Kinds DEF TowerInv, CountersInv
        <4>4. n + 1 <= f + b
          BY <4>1, <4>2 DEF TowerInv, AvisosCounted
        <4>5. shown'[Aviso(m, q)] = n + 1
          BY <2>7, <3>1, <4>2, Kinds
        <4>6. faults'.popup = f /\ b = (IF q <= tower'.known[m] THEN 1 ELSE 0)
          BY <1>7, <4>2
        <4> QED BY <4>1, <4>3, <4>4, <4>5, <4>6
      <3>2. CASE Aviso(m, q) # a
        <4>1. shown'[Aviso(m, q)] = shown[Aviso(m, q)]
          BY <2>7, <3>2, Kinds
        <4>2. tower.known[m] <= tower'.known[m]
          BY <1>7 DEF TowerInv, StorageInv, TowerRecord
        <4>3. Awaited(Aviso(m, q))' => Awaited(Aviso(m, q))
          BY <1>5, <2>4, <2>5
        <4> QED BY <1>8, <1>9, <2>8, <4>1, <4>2, <4>3, AvisosStillCounted DEF TowerInv
      <3> QED BY <3>1, <3>2
    <2> QED BY <1>9, <2>4, <2>8, <2>9, <2>10 DEF TowerInv
  <1>12. \/ Hold(w, Asleep) /\ UNCHANGED shown
         \/ \E a \in i.todo : shown' = [shown EXCEPT ![a] = @ + 1] /\ Hold(w, [i EXCEPT !.todo = @ \ {a}])
    BY <1>1 DEF Announce
  <1> QED BY <1>10, <1>11, <1>12

LEMMA StopWorkerCounts ==
  ASSUME TowerInv, StopWorker
  PROVE  TowerInv'
  <1>1. Fault("stop") /\ UNCHANGED <<mission, findReceipts, tower, delivered, popup, shown>>
    BY DEF StopWorker
  <1>2. /\ CountersInv' /\ KernelInv' /\ faults.stop <= faults'.stop /\ faults.popup <= faults'.popup
        /\ faults.stop + 1 <= faults'.stop
    BY <1>1, StillFaulted
  <1>3. PICK new : new = inspection' /\ new = [w \in Wakes |-> Asleep]
    BY DEF StopWorker
  <1>4. InspectionsInv'
    <2>1. \A w \in Wakes : InspectionOK(inspection[w])'
      <3> SUFFICES ASSUME NEW w \in Wakes PROVE InspectionOK(inspection[w])'
        OBVIOUS
      <3>1. inspection'[w] = Asleep
        BY <1>3
      <3> QED BY <3>1, AsleepIsOK DEF InspectionOK, ReadTower, ReadRevisions, Delivery, Asleep, Observing
    <2> QED BY <1>3, <2>1 DEF InspectionsInv
  <1>5. \A a : Awaited(a)' => Awaited(a)
    BY <1>3, AsleepIsQuiet DEF Awaited, AwaitedBy, Asleep
  <1>6. \A m \in Missions : mission[m].revision <= mission'[m].revision
    BY <1>1 DEF TowerInv, KernelInv, MissionRecords, MissionRecord
  <1> QED BY <1>1, <1>2, <1>4, <1>5, <1>6, TowerQuietStep

LEMMA OpenPopupCounts ==
  ASSUME TowerInv, OpenPopup
  PROVE  TowerInv'
  <1>1. popup' = {tower} /\ UNCHANGED <<mission, findReceipts, tower, delivered, inspection, shown, faults>>
    BY DEF OpenPopup
  <1>2. KernelInv' /\ CountersInv'
    BY <1>1 DEF TowerInv, KernelInv, CountersInv, ListOf, Distinct
  <1>3. StorageInv'
    BY <1>1 DEF TowerInv, StorageInv, TowerRecord
  <1>4. InspectionsInv'
    BY <1>1 DEF TowerInv, InspectionsInv, InspectionOK, ReadTower, ReadRevisions, Delivery, Distinct
  <1>5. ReceiptsCounted'
    BY <1>1 DEF TowerInv, ReceiptsCounted, IsRemembered, MadeBy
  <1>6. AvisosCounted'
    BY <1>1 DEF TowerInv, AvisosCounted, Awaited, AwaitedBy, Aviso
  <1> QED BY <1>2, <1>3, <1>4, <1>5, <1>6 DEF TowerInv

(* The popup takes observations back: one more announcement is then excused.   *)
LEMMA ReadResultsCounts ==
  ASSUME TowerInv, ReadResults
  PROVE  TowerInv'
  <1>1. /\ Fault("popup") /\ popup' = {}
        /\ UNCHANGED <<mission, findReceipts, delivered, inspection, shown>>
    BY DEF ReadResults
  <1>2. PICK t \in popup : tower' = [t EXCEPT !.unread = {}]
    BY DEF ReadResults
  <1>3. t \in TowerRecord /\ \A m \in Missions : t.known[m] <= tower.known[m]
    BY DEF TowerInv, StorageInv
  <1>4. tower' \in TowerRecord /\ tower'.known = t.known
    BY <1>2, <1>3 DEF TowerRecord
  <1>5. /\ CountersInv' /\ KernelInv' /\ faults.stop <= faults'.stop /\ faults.popup <= faults'.popup
    BY <1>1, StillFaulted
  <1>6. faults.popup + 1 <= faults'.popup
    <2>1. PICK f, g : f = faults.popup /\ g = faults'.popup
      OBVIOUS
    <2>2. f \in Nat /\ g \in Nat /\ g = f + 1
      BY <1>1, <1>5, <2>1, Faulted DEF TowerInv, CountersInv
    <2> QED BY <2>1, <2>2
  <1>7. \A m \in Missions : /\ tower'.known[m] <= tower.known[m] /\ tower.known[m] <= mission[m].revision
                           /\ tower'.known[m] \in Nat /\ tower.known[m] \in Nat /\ mission[m].revision \in Nat
    BY <1>3, <1>4 DEF TowerInv, StorageInv, KernelInv, TowerRecord, MissionRecords, MissionRecord
  <1>8. StorageInv'
    <2>1. \A m \in Missions : tower'.known[m] <= mission'[m].revision
      BY <1>1, <1>7
    <2> QED BY <1>1, <1>4, <2>1 DEF TowerInv, StorageInv
  <1>9. \A m \in Missions : mission[m].revision <= mission'[m].revision
    BY <1>1, <1>7
  <1>10. /\ InspectionsInv'
         /\ \A id : IsRemembered(id)' <=> IsRemembered(id)
         /\ \A a : Awaited(a)' <=> Awaited(a)
    BY <1>1, <1>4, <1>5, <1>7, <1>9, InspectionsStand DEF TowerInv
  <1>11. ReceiptsCounted'
    BY <1>1, <1>5, <1>10, ReceiptsStillCounted DEF TowerInv, ReceiptsCounted
  <1>12. AvisosCounted'
    <2> SUFFICES ASSUME NEW m \in Missions, NEW q \in 1..2 * MaxRounds
                 PROVE  shown'[Aviso(m, q)] + (IF Awaited(Aviso(m, q))' THEN 1 ELSE 0)
                          <= faults'.popup + (IF q <= tower'.known[m] THEN 1 ELSE 0)
      BY DEF AvisosCounted
    <2> QED BY <1>1, <1>5, <1>6, <1>8, <1>10, AvisosStillCounted DEF TowerInv
  <1> QED BY <1>5, <1>8, <1>10, <1>11, <1>12 DEF TowerInv

LEMMA TowerStands == TowerInv /\ UNCHANGED towerVars => TowerInv'
  <1> SUFFICES ASSUME TowerInv, UNCHANGED towerVars PROVE TowerInv'
    OBVIOUS
  <1>1. KernelInv' /\ StorageInv' /\ CountersInv'
    BY DEF TowerInv, KernelInv, StorageInv, CountersInv, ListOf, Distinct, towerVars
  <1>2. InspectionsInv'
    BY DEF TowerInv, InspectionsInv, InspectionOK, ReadTower, ReadRevisions, Delivery, Distinct, towerVars
  <1>3. ReceiptsCounted' /\ AvisosCounted'
    BY DEF TowerInv, ReceiptsCounted, IsRemembered, MadeBy, AvisosCounted, Awaited, AwaitedBy, Aviso, towerVars
  <1> QED BY <1>1, <1>2, <1>3 DEF TowerInv

LEMMA TowerSteps == TowerInv /\ [TowerNext]_towerVars => TowerInv'
  <1> SUFFICES ASSUME TowerInv, [TowerNext]_towerVars PROVE TowerInv'
    OBVIOUS
  <1>1. CASE \E m \in Missions : \E s \in Terminal, f \in BOOLEAN : Settle(m, s, f)
    BY <1>1, SettleCounts
  <1>2. CASE \E m \in Missions : QueueReceipt(m) \/ SearchMore(m)
    BY <1>2, QueueReceiptCounts, SearchMoreCounts
  <1>3. CASE \E w \in Wakes : Inspect(w)
    BY <1>3, InspectCounts
  <1>4. CASE \E w \in Wakes : Inspecting(w)
    BY <1>4, ReadMissionsCounts, ReadCoveringCounts, ReadUnreadCounts, DeliverCounts, RememberCounts,
       ReconcileCounts, AnnounceCounts DEF Inspecting
  <1>5. CASE \E id \in ReceiptIds : Click(id)
    BY <1>5, ClickCounts
  <1>6. CASE StopWorker \/ OpenPopup \/ ReadResults
    BY <1>6, StopWorkerCounts, OpenPopupCounts, ReadResultsCounts
  <1>7. CASE UNCHANGED towerVars
    BY <1>7, TowerStands
  <1> QED BY <1>1, <1>2, <1>3, <1>4, <1>5, <1>6, <1>7 DEF TowerNext

LEMMA CountedOnce == TowerInv => NothingIsRepeated
  <1> SUFFICES ASSUME TowerInv PROVE NothingIsRepeated
    OBVIOUS
  <1>1. faults.stop \in Nat /\ faults.popup \in Nat /\ \A x \in ReceiptIds \cup Avisos : shown[x] \in Nat
    BY DEF TowerInv, CountersInv
  <1>2. ReceiptsShownOnce
    <2> SUFFICES ASSUME NEW id \in ReceiptIds PROVE shown[id] <= 1 + faults.stop
      BY DEF ReceiptsShownOnce
    <2>1. PICK b \in {0, 1} : b = (IF IsRemembered(id) THEN 1 ELSE 0)
      OBVIOUS
    <2>2. shown[id] <= faults.stop + b
      BY <2>1 DEF TowerInv, ReceiptsCounted
    <2> QED BY <1>1, <2>1, <2>2
  <1>3. AvisosShownOnce
    <2> SUFFICES ASSUME NEW m \in Missions, NEW q \in 1..2 * MaxRounds
                 PROVE  shown[Aviso(m, q)] <= 1 + faults.popup
      BY Kinds DEF AvisosShownOnce
    <2>1. PICK b, c \in {0, 1} : /\ b = (IF Awaited(Aviso(m, q)) THEN 1 ELSE 0)
                                 /\ c = (IF q <= tower.known[m] THEN 1 ELSE 0)
      OBVIOUS
    <2>2. shown[Aviso(m, q)] + b <= faults.popup + c
      BY <2>1 DEF TowerInv, AvisosCounted
    <2>3. shown[Aviso(m, q)] \in Nat
      BY <1>1, Kinds
    <2> QED BY <1>1, <2>1, <2>2, <2>3
  <1> QED BY <1>2, <1>3 DEF NothingIsRepeated

(* A Find's receipt is shown once, and once more for each stop of the worker   *)
(* at most; a result is announced once, and once more for each older           *)
(* observation the popup writes back: for any number of Missions, wakes and    *)
(* faults (background.js, mission-watchtower.js,                               *)
(* kernel-supported-find-notify.js).                                           *)
THEOREM FindsAreToldOnce == TowerSpec => []NothingIsRepeated
  <1>1. TowerInit => TowerInv
    BY TowerStarts
  <1>2. TowerInv /\ [TowerNext]_towerVars => TowerInv'
    BY TowerSteps
  <1>3. TowerInv => NothingIsRepeated
    BY CountedOnce
  <1> QED BY <1>1, <1>2, <1>3, PTL DEF TowerSpec
=============================================================================
