------------------------------ MODULE PlanGraph ------------------------------
(***************************************************************************)
(* What a stored proposed plan may look like: the checks of                *)
(* proposed-plan-manager.ts on the task graph, the approval checkpoints    *)
(* and the completion conditions, at creation and at a partial update.     *)
(* Tasks are numbered by their position in planTasks, the order in which   *)
(* the depth-first check visits them; 0 stands for an unknown task id.     *)
(***************************************************************************)
EXTENDS Naturals, Sequences, SequencesExt, FiniteSets, Functions

CONSTANTS
    MaxPlanTasks,   \* the longest plan proposed
    MaxDependencies,    \* the longest list of dependencies proposed
    AllowedTasks,   \* maxTasks
    MaxDepth        \* maxDepth

VARIABLES stored    \* the latest revision: [tasks, approval, completion]; tasks = <<>> before it

planGraphVars == <<stored>>

\* What a task names as its dependencies: a list, in the order they are visited (a second
\* visit of the same task does nothing).
Dependencies(n) == {q \in BoundedSeq(0..n, MaxDependencies) : IsInjective(q)}
Graphs == UNION {[1..n -> Dependencies(n)] : n \in 0..MaxPlanTasks}
\* What a checkpoint or a condition waits for; the references are checked one by one.
Checkpoints == {{}} \cup {{t} : t \in 1..MaxPlanTasks}

-----------------------------------------------------------------------------

\* The result of visiting: whether it threw, and the visited set it leaves.
Ok(visited) == [ok |-> TRUE, visited |-> visited]
Threw == [ok |-> FALSE, visited |-> {}]

\* A loop over a list: go[t][v] is what visiting t leaves of v, and a throw ends the loop.
eachIn(go, list, visited) ==
    LET after[i \in 0..Len(list)] ==
            IF i = 0 THEN Ok(visited)
            ELSE IF after[i - 1].ok THEN go[list[i]][after[i - 1].visited] ELSE Threw
    IN after[Len(list)]

\* Mutant: a task counts as visited as soon as its visit begins.
visit_marksEarly(tasks) ==
    LET D == DOMAIN tasks
        at[left \in 0..MaxDepth] ==
            [visiting \in SUBSET D |-> [t \in D |-> [visited \in SUBSET D |->
                IF left = 0 THEN Threw
                ELSE IF t \in visited THEN Ok(visited)
                ELSE eachIn(at[left - 1][visiting \cup {t}], tasks[t], visited \cup {t})]]]
    IN at

\* The visit of t below the tasks being visited, with as many levels left: the depth is looked
\* at first, then the memory of tasks already visited, then the path.
visit(tasks) ==
    LET D == DOMAIN tasks
        at[left \in 0..MaxDepth] ==
            [visiting \in SUBSET D |-> [t \in D |-> [visited \in SUBSET D |->
                IF left = 0 THEN Threw
                ELSE IF t \in visited THEN Ok(visited)
                ELSE IF t \in visiting THEN Threw
                ELSE LET r == eachIn(at[left - 1][visiting \cup {t}], tasks[t], visited)
                     IN IF r.ok THEN Ok(r.visited \cup {t}) ELSE Threw]]]
    IN at

visitAll(tasks) == eachIn(visit(tasks)[MaxDepth][{}], [i \in 1..Len(tasks) |-> i], {}).ok

validateTaskGraph(tasks) ==
    /\ \A i \in DOMAIN tasks : ToSet(tasks[i]) \subseteq DOMAIN tasks
    /\ visitAll(tasks)

\* The task lists validateContent lets through, at most maxTasks long.
AcceptedGraphs == {tasks \in Graphs : Len(tasks) <= AllowedTasks /\ validateTaskGraph(tasks)}

validateCheckpoints(tasks, dependsOn) == dependsOn \subseteq DOMAIN tasks

\* The whole merged content is validated, whichever fields are new.
validateContent(plan, approval, completion) ==
    /\ plan.tasks \in AcceptedGraphs
    /\ validateCheckpoints(plan.tasks, plan.approval)
    /\ validateCheckpoints(plan.tasks, plan.completion)

PlanGraphInit == stored = [tasks |-> <<>>, approval |-> {}, completion |-> {}]

\* createProposedPlan and updateProposedPlan: a field that is not given keeps its current value.
Propose(plan, approval, completion) ==
    /\ validateContent(plan, approval, completion)
    /\ stored' = plan

PlanGraphNext ==
    \/ \E tasks \in AcceptedGraphs : Propose([stored EXCEPT !.tasks = tasks], FALSE, FALSE)
    \/ \E tasks \in AcceptedGraphs, c \in Checkpoints :
        Propose([stored EXCEPT !.tasks = tasks, !.approval = c], TRUE, FALSE)
    \/ \E c \in Checkpoints : Propose([stored EXCEPT !.completion = c], FALSE, TRUE)

PlanGraphSpec == PlanGraphInit /\ [][PlanGraphNext]_planGraphVars

-----------------------------------------------------------------------------

(* Whatever order the tasks are listed in, the depth-first check with its  *)
(* memory lets no cycle through: some order of work puts every task after  *)
(* the ones it depends on.                                                 *)
StoredPlansAreAcyclic ==
    LET D == DOMAIN stored.tasks
    IN \E turn \in [D -> D] : \A t \in D : \A d \in ToSet(stored.tasks[t]) : turn[d] < turn[t]

(* After any sequence of partial updates a stored plan is closed: its      *)
(* checkpoints and conditions wait only for tasks the plan still has.      *)
CheckpointsNameTasks ==
    stored.approval \cup stored.completion \subseteq DOMAIN stored.tasks

(* What is stored is a plan: no task waits for itself, and nothing waits   *)
(* for a task that is not there.                                           *)
PlansAreClosed == StoredPlansAreAcyclic /\ CheckpointsNameTasks
=============================================================================
