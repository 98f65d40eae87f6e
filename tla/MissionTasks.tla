---------------------------- MODULE MissionTasks ----------------------------
(***************************************************************************)
(* The kernel package's Mission engines: a draft of tasks becomes a plan   *)
(* (evidence-aware-planner.ts), the plan is checked and attached to the    *)
(* Mission (mission-engine.ts), its tasks run in dependency order and      *)
(* collect Evidence (mission-execution-engine.ts), and a completed task    *)
(* turns into a result whose claims cite that Evidence                     *)
(* (task-result-builder.ts).                                               *)
(*                                                                         *)
(* Every engine call returns a new record; the caller keeps the latest     *)
(* one.  A call that throws changes nothing, so a refused call is no step: *)
(* that covers an updatedAt that is not newer and a blank text.            *)
(***************************************************************************)
EXTENDS Naturals, Sequences, FiniteSets

CONSTANTS
    Keys,           \* task keys a decomposer may use
    DraftTasks,     \* the draft tasks it may give
    Requirements,   \* evidence requirement keys
    TaskEvidence,    \* evidence references
    MaxTasks,       \* longest draft
    EveryTaskNeedsEvidence  \* policy.requireEvidenceForEveryTask

VARIABLES
    missionStatus,  \* Mission.status
    plan,           \* Mission.plan.tasks; the empty sequence while there is none
    execution,      \* MissionExecutionState.tasks; the empty sequence before initialize
    results         \* the TaskResults built so far

taskVars == <<missionStatus, plan, execution, results>>

ASSUME DraftShape ==
    DraftTasks \subseteq [key: Keys, dependsOn: SUBSET Keys,
                          required: SUBSET Requirements, optional: SUBSET Requirements]

Drafts == UNION {[1..n -> DraftTasks] : n \in 0..MaxTasks}

transitions == [draft |-> {"planned", "cancelled"}, planned |-> {"active", "cancelled"},
                active |-> {"completed", "failed", "cancelled"},
                completed |-> {}, failed |-> {}, cancelled |-> {}]

-----------------------------------------------------------------------------
(* The planner.  A task's id is its position: the id text ends in it.      *)

Position(draft, key) == CHOOSE i \in DOMAIN draft : draft[i].key = key

\* required: keys are distinct, dependencies are keys of the draft, and the policy asks for evidence.
DraftAccepted(draft) ==
    /\ \A i, j \in DOMAIN draft : draft[i].key = draft[j].key => i = j
    /\ \A i \in DOMAIN draft :
        /\ draft[i].dependsOn \subseteq {draft[j].key : j \in DOMAIN draft}
        /\ EveryTaskNeedsEvidence => draft[i].required \cup draft[i].optional # {}

Planned(draft) ==
    [i \in DOMAIN draft |-> [dependsOn |-> {Position(draft, k) : k \in draft[i].dependsOn},
                             required |-> draft[i].required, optional |-> draft[i].optional]]

-----------------------------------------------------------------------------
(* The Mission engine's checks of a plan.                                  *)

\* A requirement key occurs once in a task.
validateTask(task) == task.required \cap task.optional = {}

\* The depth-first visit: a task met again while it is still being visited is a cycle. What
\* the visit remembers only saves it from walking a part that was found sound before.
visits(tasks) ==
    LET visit[visiting \in SUBSET DOMAIN tasks] ==
            [t \in DOMAIN tasks |->
                /\ t \notin visiting
                /\ \A d \in tasks[t].dependsOn : visit[visiting \cup {t}][d]]
    IN visit
assertAcyclic(tasks) == \A t \in DOMAIN tasks : visits(tasks)[{}][t]

validatePlan(tasks) ==
    /\ tasks # <<>>
    /\ \A i \in DOMAIN tasks : validateTask(tasks[i]) /\ i \notin tasks[i].dependsOn
    /\ assertAcyclic(tasks)

-----------------------------------------------------------------------------
(* The execution engine.                                                   *)

NoEvidence == "none"
Fresh(status) == [status |-> status, evidence |-> [r \in Requirements |-> NoEvidence]]
CompletedTasks(tasks) == {i \in DOMAIN tasks : tasks[i].status = "completed"}
dependenciesComplete(i, done) == plan[i].dependsOn \subseteq done

\* t is the task just completed; the code looks at all of them.
refreshReadiness(tasks, t) ==
    [i \in DOMAIN tasks |-> IF tasks[i].status = "pending" /\ dependenciesComplete(i, CompletedTasks(tasks))
                            THEN [tasks[i] EXCEPT !.status = "ready"] ELSE tasks[i]]

Collected(e) == {r \in Requirements : e.evidence[r] # NoEvidence}
Recorded(e) == {e.evidence[r] : r \in Collected(e)}

isComplete == execution # <<>> /\ CompletedTasks(execution) = DOMAIN execution

-----------------------------------------------------------------------------

TasksInit == missionStatus = "draft" /\ plan = <<>> /\ execution = <<>> /\ results = {}

\* MissionEngine.plan with the evidence-aware planner.
Plan(draft) ==
    /\ DraftAccepted(draft)
    /\ validatePlan(Planned(draft))
    /\ missionStatus' = "planned"
    /\ plan' = Planned(draft)
    /\ UNCHANGED <<execution, results>>

\* start, complete, fail and cancel: the Mission's own status, whatever its tasks do.
Transition(status) ==
    /\ status \in transitions[missionStatus] \ {"planned"}
    /\ missionStatus' = status
    /\ UNCHANGED <<plan, execution, results>>

\* MissionExecutionEngine.initialize, called once: a second call would start afresh.
Initialize ==
    /\ plan # <<>> /\ missionStatus \in {"planned", "active"} /\ execution = <<>>
    /\ execution' = [i \in DOMAIN plan |-> Fresh(IF dependenciesComplete(i, {}) THEN "ready" ELSE "pending")]
    /\ UNCHANGED <<missionStatus, plan, results>>

StartTask(t) ==
    /\ execution[t].status = "ready"
    /\ execution' = [execution EXCEPT ![t].status = "active"]
    /\ UNCHANGED <<missionStatus, plan, results>>

\* Mutant: evidence is taken for a task that is already completed too.
AcceptsEvidence_late(t) == execution[t].status \in {"active", "completed"}
AcceptsEvidence(t) == execution[t].status = "active"

\* The latest reference under a requirement replaces the one before.
RecordEvidence(t, requirement, evidence) ==
    /\ AcceptsEvidence(t)
    /\ requirement \in plan[t].required \cup plan[t].optional
    /\ execution' = [execution EXCEPT ![t].evidence[requirement] = evidence]
    /\ UNCHANGED <<missionStatus, plan, results>>

CompleteTask(t) ==
    /\ execution[t].status = "active"
    /\ plan[t].required \subseteq Collected(execution[t])
    /\ execution' = refreshReadiness([execution EXCEPT ![t].status = "completed"], t)
    /\ UNCHANGED <<missionStatus, plan, results>>

FailTask(t) ==
    /\ execution[t].status = "active"
    /\ execution' = [execution EXCEPT ![t].status = "failed"]
    /\ UNCHANGED <<missionStatus, plan, results>>

\* TaskResultBuilder.build with one claim proposal that cites the references in cited.
BuildResult(t, cited) ==
    /\ execution[t].status = "completed"
    /\ cited # {} /\ cited \subseteq Recorded(execution[t])
    /\ results' = results \cup {[task |-> t, evidenceIds |-> Recorded(execution[t]), cited |-> cited]}
    /\ UNCHANGED <<missionStatus, plan, execution>>

TaskStep(t) ==
    \/ StartTask(t)
    \/ \E r \in Requirements, e \in TaskEvidence : RecordEvidence(t, r, e)
    \/ CompleteTask(t)
    \/ FailTask(t)
    \/ \E cited \in SUBSET TaskEvidence : BuildResult(t, cited)

TasksNext ==
    \/ /\ "planned" \in transitions[missionStatus]
       /\ \E draft \in Drafts : Plan(draft)
    \/ \E s \in DOMAIN transitions : Transition(s)
    \/ Initialize
    \/ \E t \in DOMAIN execution : TaskStep(t)

TasksSpec == TasksInit /\ [][TasksNext]_taskVars

-----------------------------------------------------------------------------

(* Everyone waiting on everyone: as long as no task has failed, a plan the *)
(* engine accepted is finished or has a task that can be worked on.        *)
NoTaskWaitsInVain ==
    (execution # <<>> /\ \A t \in DOMAIN execution : execution[t].status # "failed") =>
        isComplete \/ \E t \in DOMAIN execution : execution[t].status \in {"ready", "active"}

(* A task is worked on only after everything it depends on is completed,   *)
(* and is held back for no other reason.                                   *)
OrderIsKept ==
    \A t \in DOMAIN execution :
        execution[t].status # "pending" <=> plan[t].dependsOn \subseteq CompletedTasks(execution)

(* A result keeps telling the truth: its task stays completed with its     *)
(* required Evidence, and the Evidence its claims cite is still the        *)
(* Evidence of the task, after whatever calls come later.                  *)
ResultsStayTrue ==
    \A r \in results :
        /\ execution[r.task].status = "completed"
        /\ plan[r.task].required \subseteq Collected(execution[r.task])
        /\ r.cited \subseteq r.evidenceIds
        /\ r.evidenceIds = Recorded(execution[r.task])

(* The tasks of a Mission as a whole: nobody waits in vain, nobody works   *)
(* before its turn, and what was reported stays true.                      *)
TasksAreOrdered == NoTaskWaitsInVain /\ OrderIsKept /\ ResultsStayTrue
=============================================================================
