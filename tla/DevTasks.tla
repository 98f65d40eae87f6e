------------------------------ MODULE DevTasks ------------------------------
(***************************************************************************)
(* The development orchestrator (scripts/orchestrator-*.mjs): tasks as     *)
(* files in one directory per status, reports beside them, and CLI         *)
(* processes that change them under a lock file.                           *)
(*                                                                         *)
(* A command takes the lock, reads the whole store, and then writes up to  *)
(* three files one after another.  A write may fail, which ends the        *)
(* command and releases the lock; a process may die, which leaves the lock *)
(* behind.  A task's contract is whether it needs the founder; a report is *)
(* its status and commit, a review's evidence the branch head and whether  *)
(* everything else about the branch agrees.                                *)
(***************************************************************************)
EXTENDS Naturals, Sequences, FiniteSets, Functions

CONSTANTS
  DevTaskIds, Shells, Commits,
  FounderTasks,       \* contracts with requires_founder_approval
  MaxRoundsOfWork     \* bound: activations and rejections in all

VARIABLES
  mutex,              \* who created .mutation.lock: a shell, a dead one, nobody
  taskFiles,          \* task -> directory it lies in and status inside the file
  hermesReport,       \* task -> reports/hermes/<task>.json
  ctoReport,          \* task -> reports/cto/<task>.json
  shell,              \* process -> the command it runs
  round               \* task -> how often it was made active

devVars == <<mutex, taskFiles, hermesReport, ctoReport, shell, round>>

Nobody == "nobody"
ASSUME ShellNames == Nobody \notin Shells
Dead == "dead"
NoFile == [dir |-> "none", status |-> "none"]
NoReport == [status |-> "none", commit |-> 0, round |-> 0]
NoDecision == [decision |-> "none", commit |-> 0, founder |-> FALSE]
Prompt == [name |-> "none"]

DevCommands ==
  [name : {"create", "activate", "retry", "reject"}, task : DevTaskIds]
  \cup [name : {"report"}, task : DevTaskIds, status : {"completed", "blocked", "failed"},
        commit : Commits, work : {"out_of_scope", "unproved", "proved"}]
  \cup [name : {"approve"}, task : DevTaskIds, head : Commits, clean : BOOLEAN, founder : BOOLEAN]

-----------------------------------------------------------------------------
(* Contracts, transitions and reviews.                                        *)

transitions ==
  [pending |-> {"active"}, active |-> {"review", "blocked"},
   review |-> {"completed", "blocked", "active"}, blocked |-> {"pending"}, completed |-> {}]

(* transitionTask: the step is on the list, and only one task is active.      *)
transitionTask(t, next) ==
  /\ next \in transitions[taskFiles[t].status]
  /\ next = "active" => \A u \in DevTaskIds \ {t} : taskFiles[u].status # "active"

(* list: a file whose status is not that of its directory stops everything.   *)
Readable == \A t \in DevTaskIds : taskFiles[t].dir = taskFiles[t].status

(* require *)
Lies(t, status) == taskFiles[t].dir = status

(* The head of the branch is the reported commit, and branch, diff, checks,   *)
(* worktree and base are right.                                               *)
evaluateGitEvidence(t, c) ==
  IF hermesReport[t].status = "completed" /\ c.head = hermesReport[t].commit /\ c.clean
  THEN "APPROVED" ELSE "CORRECTIONS_REQUIRED"

-----------------------------------------------------------------------------
(* What a command writes, in order; nothing when it is refused.               *)

Rewrite(t, status) == [file |-> "task", task |-> t, to |-> status]
Move(t, status) == [file |-> "rename", task |-> t, to |-> status]
SaveReport(t, r) == [file |-> "hermes", task |-> t, to |-> r]
SaveDecision(t, d) == [file |-> "cto", task |-> t, to |-> d]

(* move: the file is rewritten where it lies, then renamed.                   *)
moveTo(t, status) == <<Rewrite(t, status), Move(t, status)>>

create(c) == IF taskFiles[c.task] = NoFile THEN <<[file |-> "new", task |-> c.task, to |-> "pending"]>>
             ELSE <<>>

activate(c) ==
  IF Lies(c.task, "pending") /\ transitionTask(c.task, "active")
  THEN moveTo(c.task, "active") ELSE <<>>

(* A report is about this task and stays in its paths; a completed one ran    *)
(* every required command and shows tests and acceptance.                     *)
validateExecutionReport(c) ==
  /\ c.work # "out_of_scope"
  /\ c.status = "completed" => c.work = "proved"

report_movedFirst(c) ==
  IF Lies(c.task, "active") /\ validateExecutionReport(c)
  THEN moveTo(c.task, IF c.status = "completed" THEN "review" ELSE "blocked")
       \o <<SaveReport(c.task, [status |-> c.status, commit |-> c.commit, round |-> round[c.task]])>>
  ELSE <<>>

(* The report is stored before the task moves.                                *)
report(c) ==
  IF Lies(c.task, "active") /\ validateExecutionReport(c)
  THEN <<SaveReport(c.task, [status |-> c.status, commit |-> c.commit, round |-> round[c.task]])>>
       \o moveTo(c.task, IF c.status = "completed" THEN "review" ELSE "blocked")
  ELSE <<>>

retry(c) == IF Lies(c.task, "blocked") THEN moveTo(c.task, "pending") ELSE <<>>

approve(c) ==
  IF /\ Lies(c.task, "review") /\ (c.task \in FounderTasks => c.founder)
     /\ evaluateGitEvidence(c.task, c) = "APPROVED"
  THEN <<SaveDecision(c.task, [decision |-> "APPROVED", commit |-> c.head, founder |-> c.founder])>>
       \o moveTo(c.task, "completed")
  ELSE <<>>

reject(c) ==
  IF Lies(c.task, "review") /\ transitionTask(c.task, "active")
  THEN <<SaveDecision(c.task, [NoDecision EXCEPT !.decision = "CORRECTIONS_REQUIRED"])>>
       \o moveTo(c.task, "active")
  ELSE <<>>

WritesOf(c) ==
  CASE ~Readable -> <<>>
    [] Readable /\ c.name = "create" -> create(c)
    [] Readable /\ c.name = "activate" -> activate(c)
    [] Readable /\ c.name = "report" -> report(c)
    [] Readable /\ c.name = "retry" -> retry(c)
    [] Readable /\ c.name = "approve" -> approve(c)
    [] Readable /\ c.name = "reject" -> reject(c)

-----------------------------------------------------------------------------
(* withLock *)

(* open with wx; a lock that is there refuses the command (STORE_BUSY).       *)
TakeLock(s, c) ==
  /\ shell[s] = Prompt
  /\ mutex = Nobody
  /\ mutex' = s
  /\ shell' = [shell EXCEPT ![s] = [name |-> "locked", command |-> c]]
  /\ UNCHANGED <<taskFiles, hermesReport, ctoReport, round>>

Decide(s) ==
  /\ shell[s].name = "locked"
  /\ shell' = [shell EXCEPT ![s] = [name |-> "writing", todo |-> WritesOf(shell[s].command)]]
  /\ UNCHANGED <<mutex, taskFiles, hermesReport, ctoReport, round>>

(* atomicWrite or rename: one file at a time.                                 *)
WriteNext(s) ==
  /\ shell[s].name = "writing" /\ shell[s].todo # <<>>
  /\ LET w == Head(shell[s].todo)
     IN /\ taskFiles' = CASE w.file = "new" -> [taskFiles EXCEPT ![w.task] = [dir |-> w.to, status |-> w.to]]
                          [] w.file = "task" -> [taskFiles EXCEPT ![w.task].status = w.to]
                          [] w.file = "rename" -> [taskFiles EXCEPT ![w.task].dir = w.to]
                          [] OTHER -> taskFiles
        /\ hermesReport' = IF w.file = "hermes" THEN [hermesReport EXCEPT ![w.task] = w.to] ELSE hermesReport
        /\ ctoReport' = IF w.file = "cto" THEN [ctoReport EXCEPT ![w.task] = w.to] ELSE ctoReport
        /\ round' = IF w.file = "task" /\ w.to = "active" THEN [round EXCEPT ![w.task] = @ + 1] ELSE round
        /\ FoldFunction(+, 0, round') <= MaxRoundsOfWork
  /\ shell' = [shell EXCEPT ![s].todo = Tail(@)]
  /\ UNCHANGED mutex

(* A write that fails: the rest is not done, what was written stays.          *)
WriteFails(s) ==
  /\ shell[s].name = "writing" /\ shell[s].todo # <<>>
  /\ shell' = [shell EXCEPT ![s].todo = <<>>]
  /\ UNCHANGED <<mutex, taskFiles, hermesReport, ctoReport, round>>

ReleaseLock(s) ==
  /\ shell[s].name = "writing" /\ shell[s].todo = <<>>
  /\ shell' = [shell EXCEPT ![s] = Prompt]
  /\ mutex' = Nobody
  /\ UNCHANGED <<taskFiles, hermesReport, ctoReport, round>>

(* Nothing removes the lock of a process that is gone.                        *)
ShellDies(s) ==
  /\ shell[s] # Prompt
  /\ shell' = [shell EXCEPT ![s] = Prompt]
  /\ mutex' = Dead
  /\ UNCHANGED <<taskFiles, hermesReport, ctoReport, round>>

DevInit ==
  /\ mutex = Nobody
  /\ taskFiles = [t \in DevTaskIds |-> NoFile]
  /\ hermesReport = [t \in DevTaskIds |-> NoReport]
  /\ ctoReport = [t \in DevTaskIds |-> NoDecision]
  /\ shell = [s \in Shells |-> Prompt]
  /\ round = [t \in DevTaskIds |-> 0]

DevNext ==
  \E s \in Shells :
    \/ \E c \in DevCommands : TakeLock(s, c)
    \/ Decide(s)
    \/ WriteNext(s)
    \/ WriteFails(s)
    \/ ReleaseLock(s)
    \/ ShellDies(s)

DevSpec == DevInit /\ [][DevNext]_devVars

-----------------------------------------------------------------------------
(* Properties *)

(* .orchestrator/README.md: "One active task at a time." - over any number of *)
(* processes, failing writes and crashes between a rewrite and its rename.    *)
OneActiveTask ==
  \A t, u \in DevTaskIds :
    taskFiles[t].status = "active" /\ taskFiles[u].status = "active" => t = u

(* A task under review has on file a completed report of its last round of    *)
(* work: never one left from before a rejection, whichever write failed.      *)
ReviewHasItsReport ==
  \A t \in DevTaskIds :
    taskFiles[t].status = "review" =>
      hermesReport[t].status = "completed" /\ hermesReport[t].round = round[t]

(* A completed task has an approval on file for the very commit its report    *)
(* names, by the founder where the contract asks for it.                      *)
CompletedWasVerified ==
  \A t \in DevTaskIds :
    taskFiles[t].status = "completed" =>
      /\ ctoReport[t].decision = "APPROVED"
      /\ hermesReport[t].status = "completed" /\ hermesReport[t].round = round[t]
      /\ ctoReport[t].commit = hermesReport[t].commit
      /\ t \in FounderTasks => ctoReport[t].founder

(* The orchestrator as a whole: one task is active, a review is about the last *)
(* round of work, and completion was verified for the reported commit.        *)
DevTasksAreVerified == OneActiveTask /\ ReviewHasItsReport /\ CompletedWasVerified
=============================================================================
