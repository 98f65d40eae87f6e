----------------------------- MODULE MemorySafety -----------------------------
(***************************************************************************)
(* Repeated failures of a memory and what an operator is shown of them:    *)
(* the prevention evaluator (packages/kernel/src/memory) and the memory    *)
(* safety view of the Replay Lab.  Neither changes a memory.  What is      *)
(* stored about quarantine and recovery (MemoryReview) appears here as     *)
(* entries that are fresh until their basis changes.                       *)
(*                                                                         *)
(* A query reads three lists, one after the other in any order.            *)
(***************************************************************************)
EXTENDS Naturals, Sequences, FiniteSets

CONSTANTS
  SafetyMemories, Categories, FailureIds, References,
  Rules,            \* policies: [version, threshold, window]
  Entries,          \* stored records: [kind, memory, sound]
  MaxFailures,      \* bound: length of the failure list
  MaxNow            \* bound: time steps

ASSUME RulesAssumption ==
  /\ Rules \subseteq [version : Nat, threshold : Nat \ {0, 1}, window : Nat \ {0}]
  /\ \A e \in Entries : e.kind \in {"quarantine", "recovery"}

VARIABLES
  failures,         \* the persisted failures, as listed (an id may come twice)
  safetyNow, rule,
  advice,           \* the recommendations of the last evaluation, and its time
  storedAdvice, fresh,    \* entries on file, and those whose basis still holds
  reading, safety   \* the query in flight and the view it built

safetyVars == <<failures, safetyNow, rule, advice, storedAdvice, fresh, reading, safety>>

NoQuery == [memory |-> <<>>]
NoView == [items |-> {}, warnings |-> 0, of |-> <<>>]

-----------------------------------------------------------------------------
(* Faulty variants. *)

currentEntry_sound(e, isFresh) == e.sound

-----------------------------------------------------------------------------
(* evaluateRepeatedMemoryFailures *)

InWindow(p, t) == {i \in DOMAIN failures : failures[i].at <= t /\ failures[i].at + p.window >= t}

(* One id bound to different data ends the evaluation with an error.          *)
Conflicting(p, t) ==
  \E i, j \in InWindow(p, t) : failures[i].id = failures[j].id /\ failures[i] # failures[j]

Group(p, t, m, c) == {i \in InWindow(p, t) : failures[i].memory = m /\ failures[i].category = c}

idsOf(seen) == {failures[i].id : i \in seen}

CountedFailures(seen) == Cardinality(idsOf(seen))

referencesOf(seen) == UNION {failures[i].referenceIds : i \in seen}

Recommendation(p, t, m, c) ==
  LET group == Group(p, t, m, c)
  IN [memory |-> m, category |-> c, rule |-> p, failureIds |-> idsOf(group),
      referenceIds |-> referencesOf(group), at |-> t]

(* The recommendation's id is a hash of all but the time of evaluation.       *)
identity(a) == <<a.memory, a.category, a.rule, a.failureIds, a.referenceIds>>

evaluateRepeatedMemoryFailures(p, t) ==
  {Recommendation(p, t, mc[1], mc[2]) :
     mc \in {mc \in SafetyMemories \X Categories : CountedFailures(Group(p, t, mc[1], mc[2])) >= p.threshold}}

(* isMemoryFailurePreventionRecommendationStale: against the policy in force  *)
(* and the failures active now.                                               *)
isStale(a, p, active) ==
  \/ a.rule.version # p.version
  \/ a.rule.threshold # p.threshold
  \/ a.rule.window # p.window
  \/ a.failureIds # active

Stale(a) == isStale(a, rule, idsOf(Group(rule, safetyNow, a.memory, a.category)))

Evaluate ==
  /\ ~Conflicting(rule, safetyNow)
  /\ advice' = evaluateRepeatedMemoryFailures(rule, safetyNow)
  /\ UNCHANGED <<failures, safetyNow, rule, storedAdvice, fresh, reading, safety>>

(* normalizeFailure has let it through; a redelivered failure is listed again.*)
RecordFailure(id, m, c, refs) ==
  /\ Len(failures) < MaxFailures
  /\ failures' = Append(failures, [id |-> id, memory |-> m, category |-> c, at |-> safetyNow, referenceIds |-> refs])
  /\ UNCHANGED <<safetyNow, rule, advice, storedAdvice, fresh, reading, safety>>

Redelivered(i) ==
  /\ Len(failures) < MaxFailures
  /\ failures' = Append(failures, failures[i])
  /\ UNCHANGED <<safetyNow, rule, advice, storedAdvice, fresh, reading, safety>>

-----------------------------------------------------------------------------
(* The memory safety view.                                                    *)

currentEntry(e, isFresh) == isFresh

(* What each reader lists: entries with their freshness as of that moment.    *)
EntriesOf(kind) ==
  {[kind |-> kind, memory |-> e.memory, sound |-> e.sound, of |-> e,
    current |-> currentEntry(e, e \in fresh)] : e \in {e \in storedAdvice : e.kind = kind}}

AdviceEntries ==
  {[kind |-> "prevention", memory |-> a.memory, sound |-> TRUE, of |-> a,
    current |-> ~Stale(a)] : a \in advice}

getMemorySafety(m) ==
  /\ reading = NoQuery
  /\ reading' = [memory |-> <<m>>, lists |-> {}, got |-> {}, calm |-> TRUE]
  /\ safety' = NoView
  /\ UNCHANGED <<failures, safetyNow, rule, advice, storedAdvice, fresh>>

ReadList(kind) ==
  /\ reading # NoQuery /\ kind \notin reading.lists
  /\ reading' = [reading EXCEPT !.lists = @ \cup {kind}, !.got = @ \cup
       (IF kind = "prevention" THEN AdviceEntries ELSE EntriesOf(kind))]
  /\ UNCHANGED <<failures, safetyNow, rule, advice, storedAdvice, fresh, safety>>

(* buildReplayLabMemorySafetyView: malformed data of any memory is refused;   *)
(* the memory's own entries are kept and the stale ones counted.              *)
BuildView ==
  /\ reading # NoQuery /\ reading.lists = {"quarantine", "recovery", "prevention"}
  /\ LET mine == {e \in reading.got : <<e.memory>> = reading.memory}
     IN safety' = IF \E e \in reading.got : ~e.sound THEN NoView
                  ELSE [items |-> mine, of |-> reading.memory,
                        warnings |-> Cardinality({e \in mine : ~e.current})]
  /\ reading' = NoQuery
  /\ UNCHANGED <<failures, safetyNow, rule, advice, storedAdvice, fresh>>

-----------------------------------------------------------------------------
(* The world the records are about.                                           *)

disturbed == IF reading = NoQuery THEN NoQuery ELSE [reading EXCEPT !.calm = FALSE]

Store(e) ==
  /\ e \notin storedAdvice
  /\ storedAdvice' = storedAdvice \cup {e} /\ fresh' = fresh \cup {e}
  /\ reading' = disturbed
  /\ UNCHANGED <<failures, safetyNow, rule, advice, safety>>

BasisChanges(e) ==
  /\ fresh' = fresh \ {e}
  /\ reading' = disturbed
  /\ UNCHANGED <<failures, safetyNow, rule, advice, storedAdvice, safety>>

SetRule(p) ==
  /\ p # rule
  /\ rule' = p
  /\ reading' = disturbed
  /\ UNCHANGED <<failures, safetyNow, advice, storedAdvice, fresh, safety>>

TimePasses ==
  /\ safetyNow < MaxNow
  /\ safetyNow' = safetyNow + 1
  /\ reading' = disturbed
  /\ UNCHANGED <<failures, rule, advice, storedAdvice, fresh, safety>>

SafetyInit ==
  /\ failures = <<>> /\ safetyNow = 0 /\ rule \in Rules /\ advice = {}
  /\ storedAdvice = {} /\ fresh = {} /\ reading = NoQuery /\ safety = NoView

SafetyNext ==
  \/ Evaluate
  \/ BuildView
  \/ TimePasses
  \/ \E id \in FailureIds, m \in SafetyMemories, c \in Categories, refs \in (SUBSET References) \ {{}} :
       RecordFailure(id, m, c, refs)
  \/ \E i \in DOMAIN failures : Redelivered(i)
  \/ \E m \in SafetyMemories : getMemorySafety(m)
  \/ \E k \in {"quarantine", "recovery", "prevention"} : ReadList(k)
  \/ \E e \in Entries : Store(e)
  \/ \E e \in fresh : BasisChanges(e)
  \/ \E p \in Rules : SetRule(p)

SafetySpec == SafetyInit /\ [][SafetyNext]_safetyVars

-----------------------------------------------------------------------------
(* Properties *)

(* A prevention recommendation names enough different failures, however often *)
(* each was delivered, and all of them fall into the window it was made in.   *)
AdviceNeedsRepetition ==
  \A a \in advice :
    /\ Cardinality(a.failureIds) >= a.rule.threshold
    /\ \A id \in a.failureIds : \E i \in DOMAIN failures :
         /\ failures[i].id = id
         /\ failures[i].memory = a.memory /\ failures[i].category = a.category
         /\ failures[i].at <= a.at /\ a.at - failures[i].at <= a.rule.window

(* A recommendation that is not called stale is the one that an evaluation    *)
(* made now would give: policy and window are both part of what makes it      *)
(* stale, and so is a failure that has left the window.  It has the same id   *)
(* too, unless one of its failure ids was listed again with other data after  *)
(* the old record left the window, where the evaluator no longer compares the *)
(* two: the references are in the id, and the staleness check does not look   *)
(* at them.                                                                   *)
Rebound(a) ==
  \E i, j \in DOMAIN failures :
    failures[i].id \in a.failureIds /\ failures[i].id = failures[j].id /\ failures[i] # failures[j]
CurrentAdviceIsReproducible ==
  \A a \in advice :
    ~Stale(a) /\ ~Conflicting(rule, safetyNow) =>
      \E b \in evaluateRepeatedMemoryFailures(rule, safetyNow) :
        /\ b.memory = a.memory /\ b.category = a.category /\ b.rule = a.rule /\ b.failureIds = a.failureIds
        /\ ~Rebound(a) => identity(b) = identity(a)

(* The view of a query during which nothing moved calls current exactly what  *)
(* is fresh and warns of every other entry of the memory; the three separate  *)
(* reads lose nothing.                                                        *)
CalmViewIsTrue ==
  [][reading # NoQuery /\ reading' = NoQuery /\ safety' # NoView =>
       /\ reading.calm =>
            \A e \in {e \in storedAdvice : <<e.memory>> = reading.memory} :
              \E x \in safety'.items : x.of = e /\ (x.current <=> e \in fresh)
       /\ safety'.warnings = Cardinality({x \in safety'.items : ~x.current})
       /\ \A x \in safety'.items : <<x.memory>> = reading.memory]_safetyVars

(* The advice as a whole: it rests on repetition, is reproducible while it is *)
(* called current, and the view of it is true.                                *)
AdviceIsTrue ==
  /\ [](AdviceNeedsRepetition /\ CurrentAdviceIsReproducible)
  /\ CalmViewIsTrue
=============================================================================
