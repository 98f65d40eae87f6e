----------------------------- MODULE ResearchRun -----------------------------
(***************************************************************************)
(* One research lifecycle of the kernel package: the runtime drives the    *)
(* state machine through the canonical stages (research-execution.ts,      *)
(* research-state-machine.ts), each stage runs in bounded, classified      *)
(* attempts with a timeout (research-retry-policy.ts), an attempt falls    *)
(* back from tool to tool (hermes-hephaestus-orchestrator.ts), and every   *)
(* transition is kept (research-state-machine-history.ts).                 *)
(*                                                                         *)
(* A timed-out attempt is not stopped: its promise loses the race and goes *)
(* on calling its tools beside the next attempt.                           *)
(***************************************************************************)
EXTENDS Naturals, Sequences, FiniteSets

CONSTANTS
    ToolCounts,   \* how many Hermes tools may support a stage; 0 for none
    MaxAttempts,  \* policy.maxAttempts
    Declines      \* failure categories policy.shouldRetry declines

ASSUME ResearchBounds == ToolCounts \subseteq Nat /\ MaxAttempts \in Nat \ {0}

VARIABLES
    tools,      \* the number of tools configured for every stage
    hasRun,     \* ResearchExecutionRuntime.hasRun
    machine,    \* ResearchStateMachine.snapshot.state
    history,    \* InMemoryResearchStateHistory.transitions
    stageResults, \* stages with a recorded result
    attempt,    \* the attempt under way in the current stage; 0 between stages
    tool,       \* the tool this attempt is waiting for
    failures,   \* failure categories of the current stage, in order
    aborted,    \* policy.signal.aborted
    strays      \* timed-out attempts whose tools still run

researchVars == <<tools, hasRun, machine, history, stageResults, attempt, tool, failures, aborted, strays>>

canonicalPlan == <<"discovering", "ingesting", "analyzing", "validating", "memorizing", "reporting">>
StageIndex(s) == CHOOSE i \in DOMAIN canonicalPlan : canonicalPlan[i] = s
IsStage(s) == \E i \in DOMAIN canonicalPlan : canonicalPlan[i] = s

\* The table of the state machine; completing a stage has one event per stage.
Successor(s, event) ==
    CASE s = "created" /\ event = "start_discovery" -> "discovering"
      [] IsStage(s) /\ event = "complete" ->
            IF StageIndex(s) = Len(canonicalPlan) THEN "completed" ELSE canonicalPlan[StageIndex(s) + 1]
      [] IsStage(s) /\ event = "fail" -> "failed"
      [] s = "failed" /\ event = "retry" -> "discovering"

Retryable(category) == category \in {"retryable", "timeout"}

ResearchInit ==
    /\ tools \in ToolCounts
    /\ hasRun = FALSE /\ machine = "created" /\ history = <<>> /\ stageResults = {}
    /\ attempt = 0 /\ tool = 0 /\ failures = <<>> /\ aborted = FALSE /\ strays = {}

\* InMemoryResearchStateHistory.append: the machine's last transition, kept in order.
recordTransition(from, to) == history' = Append(history, [from |-> from, to |-> to])

\* machine.transition followed by record.
Moves(event) ==
    /\ machine' = Successor(machine, event)
    /\ recordTransition(machine, Successor(machine, event))

\* run: a second call of the same runtime is refused.
Run ==
    /\ ~hasRun /\ hasRun' = TRUE
    /\ Moves("start_discovery")
    /\ UNCHANGED <<tools, stageResults, attempt, tool, failures, aborted, strays>>

\* Mutant: the attempts are counted from zero.
StageFails_oneMore(n, category) ==
    \/ n > MaxAttempts
    \/ ~Retryable(category)
    \/ category \in Declines

\* The retry decision after attempt n failed with this category.
StageFails(n, category) ==
    \/ n >= MaxAttempts
    \/ ~Retryable(category)
    \/ category \in Declines

\* The catch of runResearchStage and, when the stage is given up, the catch of run.
Fails(n, category) ==
    IF StageFails(n, category)
    THEN /\ failures' = Append(failures, category)
         /\ attempt' = 0 /\ tool' = 0
         /\ Moves("fail")
    ELSE /\ failures' = Append(failures, category)
         /\ attempt' = n /\ tool' = 0
         /\ UNCHANGED <<machine, history>>

Cancelled == aborted

\* An attempt starts: under an aborted parent signal it fails before the stage is called.
StartAttempt ==
    /\ IsStage(machine) /\ tool = 0
    /\ LET n == attempt + 1 IN
        CASE Cancelled -> Fails(n, "cancelled")
          [] ~Cancelled /\ tools = 0 -> Fails(n, "non_retryable")
          [] OTHER -> /\ attempt' = n /\ tool' = 1
                      /\ UNCHANGED <<machine, history, failures>>
    /\ UNCHANGED <<tools, hasRun, stageResults, aborted, strays>>

\* The tool returns a value: the attempt wins, the stage is recorded.
ToolReturns ==
    /\ tool > 0
    /\ stageResults' = stageResults \cup {machine}
    /\ attempt' = 0 /\ tool' = 0 /\ failures' = <<>>
    /\ Moves("complete")
    /\ UNCHANGED <<tools, hasRun, aborted, strays>>

\* The tool throws: a retryable error falls back to the next tool of the same attempt.
ToolThrows(category) ==
    /\ tool > 0
    /\ IF category = "retryable" /\ tool < tools
       THEN tool' = tool + 1 /\ UNCHANGED <<machine, history, attempt, failures>>
       ELSE Fails(attempt, category)
    /\ UNCHANGED <<tools, hasRun, stageResults, aborted, strays>>

\* The timer wins the race; the attempt keeps running as a stray.
TimesOut ==
    /\ tool > 0
    /\ strays' = strays \cup {[stage |-> machine, attempt |-> attempt, tool |-> tool]}
    /\ Fails(attempt, "timeout")
    /\ UNCHANGED <<tools, hasRun, stageResults, aborted>>

\* A stray's tool settles: a retryable error makes it call the next tool, anything else ends it.
StraySettles(s, retryable) ==
    /\ strays' = (strays \ {s}) \cup (IF retryable /\ s.tool < tools THEN {[s EXCEPT !.tool = @ + 1]} ELSE {})
    /\ UNCHANGED <<tools, hasRun, machine, history, stageResults, attempt, tool, failures, aborted>>

\* The caller aborts the policy's signal.
Abort ==
    /\ ~aborted /\ aborted' = TRUE
    /\ UNCHANGED <<tools, hasRun, machine, history, stageResults, attempt, tool, failures, strays>>

ResearchNext ==
    \/ Run
    \/ StartAttempt
    \/ ToolReturns
    \/ \E c \in {"retryable", "non_retryable", "unknown"} : ToolThrows(c)
    \/ TimesOut
    \/ \E s \in strays, retryable \in BOOLEAN : StraySettles(s, retryable)
    \/ Abort

\* The event loop runs what is due: a called runtime starts its attempts, and every wait ends
\* by the tool or by the timer.
ResearchFairness == WF_researchVars(StartAttempt) /\ WF_researchVars(TimesOut)

ResearchSpec == ResearchInit /\ [][ResearchNext]_researchVars /\ ResearchFairness

-----------------------------------------------------------------------------

(* The telemetry tells one story: the history is an unbroken path from     *)
(* created to the machine's state, a result exists for exactly the stages    *)
(* that path completed, and only the whole canonical plan completes.       *)
TelemetryAgrees ==
    /\ history # <<>> => history[1].from = "created" /\ history[Len(history)].to = machine
    /\ \A i \in 1..(Len(history) - 1) : history[i].to = history[i + 1].from
    /\ stageResults = {history[i].from : i \in {j \in DOMAIN history : history[j].to # "failed"}} \ {"created"}
    /\ machine = "completed" <=> Cardinality(stageResults) = Len(canonicalPlan)

(* A stage is given up only for a reason: its last failure cannot be       *)
(* retried, the policy declined it, or the attempts are used up; before    *)
(* that every failure of the stage was retried.                            *)
GivenUpForAReason ==
    /\ Len(failures) <= MaxAttempts
    /\ \A i \in 1..(Len(failures) - 1) : Retryable(failures[i]) /\ failures[i] \notin Declines
    /\ machine = "failed" =>
        \/ Len(failures) = MaxAttempts
        \/ ~Retryable(failures[Len(failures)])
        \/ failures[Len(failures)] \in Declines

(* After the caller aborts, no attempt calls a tool for the first time:    *)
(* the run can only let its current attempt end.                           *)
AbortStartsNothing == [][aborted /\ tool = 0 => tool' = 0]_researchVars

(* Whatever is retried, times out or is aborted, the telemetry is one      *)
(* story, a stage is given up only for a reason, and an abort is obeyed.   *)
ResearchStaysAccounted ==
    [](TelemetryAgrees /\ GivenUpForAReason) /\ AbortStartsNothing

(* A run ends: with a timeout configured no tool that hangs and no         *)
(* sequence of retryable errors keeps the lifecycle open.                  *)
ResearchEnds == hasRun ~> machine \in {"completed", "failed"}

(* A research run accounts for itself: its telemetry is one story, it      *)
(* gives up only for a reason, starts nothing once aborted, and ends.      *)
ResearchIsAccounted == ResearchStaysAccounted /\ ResearchEnds
=============================================================================
