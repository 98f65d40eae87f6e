----------------------------- MODULE ForgePower -----------------------------
(* The power button of the extension's central forge
   (central-forge-power-controller.js): one press switches the forge on or
   off in browser storage, and a cycle, rescheduled by a timer, starts the
   Mission of the next Goal, waits for it, and switches the forge off when no
   Goal is left.

   Every `await` is a boundary between two steps. A press waits twice (reading
   and writing storage) and is ignored while a cycle runs, but a cycle started
   by the timer does not look at a press in progress. *)
EXTENDS Integers, FiniteSets

CONSTANTS
    Goals,       \* active Goals, as positive integers: the larger has priority
    Unpaired,    \* TRUE when the extension may lose its Kernel token
    MaxPresses,  \* bound: presses of the button
    MaxForgeFaults,   \* bound: failed requests, failed Missions, Hermes losses
    MaxPanels    \* bound: times the panel is closed and opened again

ASSUME ForgeGoals == Goals \subseteq Nat \ {0} /\ IsFiniteSet(Goals)

VARIABLES
    enabled,    \* storage: efestoForgeEnabled
    doneGoals,  \* storage: efestoForgeCompletedGoals
    token,      \* storage: whether a Kernel token is kept
    forgeMission,    \* Kernel: the status of each Goal's Mission
    newest,     \* Kernel: the Goal of the most recently created Mission, or 0
    hermes,     \* bootstrap: whether Hermes is ready
    press,      \* the press in progress: "none", "get", or the value to set
    cycle,      \* the cycle in progress: where it waits and what it has read
    forgeTimer,      \* whether the next cycle is scheduled
    forgeShown,      \* the state painted on the button
    presses, forgeFaults, panels,
    paused      \* history: Missions started since the user's last pause

forgeVars == <<enabled, doneGoals, token, forgeMission, newest, hermes, press, cycle,
               forgeTimer, forgeShown, presses, forgeFaults, panels, paused>>
kernelVars == <<forgeMission, newest, hermes>>
storageVars == <<enabled, doneGoals, token>>
boundVars == <<presses, forgeFaults, panels>>

Statuses == {"none", "waiting_for_agent", "queued", "completed", "failed"}
ForgeIdle == [pc |-> "off", done |-> {}, goal |-> 0, waits |-> FALSE]

\* deriveEfestoOrbState, as far as the button's behaviour depends on it.
OrbState(on, status) ==
    CASE ~on -> "idle"
      [] status = "none" -> "starting"
      [] status \in {"waiting_for_agent", "failed"} -> "failed"
      [] status = "queued" -> "queued"
      [] status = "completed" -> "completed"

StatusOf(g) == IF g = 0 THEN "none" ELSE forgeMission[g]

resolveForgePowerIntent(on, state) == state = "failed" \/ ~on

\* mutant: already completed Goals are offered again
RemainingAll(done) == Goals

Remaining(done) == Goals \ done
selectNextGoal(done) ==
    CHOOSE g \in Remaining(done) : \A h \in Remaining(done) : h <= g

ForgeInit ==
    /\ enabled \in BOOLEAN /\ doneGoals = {} /\ token = TRUE
    /\ forgeMission = [g \in Goals |-> "none"] /\ newest = 0 /\ hermes = TRUE
    /\ press = "none" /\ forgeTimer = FALSE
    /\ cycle = IF enabled THEN [ForgeIdle EXCEPT !.pc = "read"] ELSE ForgeIdle
    /\ forgeShown = IF enabled THEN "starting" ELSE "idle"
    /\ presses = 0 /\ forgeFaults = 0 /\ panels = 0 /\ paused = 0

---------------------------------------------------------------------------
\* The button.

\* handlePress up to its first await. While a press or a cycle is running the
\* click only repaints the button; the press remembers the previous state.
Press ==
    /\ presses < MaxPresses /\ presses' = presses + 1
    /\ press' = IF press = "none" /\ cycle.pc = "off" THEN "get" ELSE press
    /\ UNCHANGED <<storageVars, kernelVars, cycle, forgeTimer, forgeShown, forgeFaults, panels, paused>>

PressRead ==
    /\ press = "get"
    /\ press' = IF resolveForgePowerIntent(enabled, forgeShown) THEN "enable" ELSE "pause"
    /\ UNCHANGED <<storageVars, kernelVars, cycle, forgeTimer, forgeShown, boundVars, paused>>

\* The write, the immediate repaint and runCycle, which returns at once when a
\* cycle is already running.
PressWrite ==
    /\ press \in {"enable", "pause"}
    /\ press' = "none"
    /\ enabled' = (press = "enable")
    /\ forgeShown' = OrbState(enabled', "none")
    /\ paused' = 0
    /\ IF enabled' /\ cycle.pc = "off"
          THEN cycle' = [ForgeIdle EXCEPT !.pc = "read"] /\ forgeTimer' = FALSE
          ELSE UNCHANGED <<cycle, forgeTimer>>
    /\ UNCHANGED <<doneGoals, token, kernelVars, boundVars>>

---------------------------------------------------------------------------
\* The cycle.

StopForge == cycle' = ForgeIdle /\ UNCHANGED forgeTimer
Schedule == cycle' = ForgeIdle /\ forgeTimer' = TRUE

TimerFires ==
    /\ forgeTimer /\ forgeTimer' = FALSE
    /\ cycle' = IF cycle.pc = "off" THEN [ForgeIdle EXCEPT !.pc = "read"] ELSE cycle
    /\ UNCHANGED <<storageVars, kernelVars, press, forgeShown, boundVars, paused>>

\* What the cycle reads from storage decides whether it goes on.
CycleRead ==
    /\ cycle.pc = "read"
    /\ forgeShown' = IF enabled /\ token THEN forgeShown ELSE "idle"
    /\ cycle' = CASE ~enabled -> ForgeIdle
                  [] enabled /\ ~token -> [ForgeIdle EXCEPT !.pc = "unpair"]
                  [] OTHER -> [ForgeIdle EXCEPT !.pc = "list", !.done = doneGoals]
    /\ UNCHANGED <<storageVars, kernelVars, press, forgeTimer, boundVars, paused>>

\* Without a token the forge switches itself off.
CycleUnpair ==
    /\ cycle.pc = "unpair" /\ enabled' = FALSE /\ StopForge
    /\ UNCHANGED <<doneGoals, token, kernelVars, press, forgeShown, boundVars, paused>>

\* The three reads of the Kernel have answered.
CycleList ==
    /\ cycle.pc = "list"
    /\ LET status == StatusOf(newest)
       IN  /\ forgeShown' = OrbState(TRUE, status)
           /\ \/ status = "waiting_for_agent" /\ hermes
                 /\ cycle' = [cycle EXCEPT !.pc = "restart", !.goal = newest]
                 /\ UNCHANGED forgeTimer
              \/ status = "queued" /\ Schedule
              \/ ~(status = "waiting_for_agent" /\ hermes) /\ status # "queued"
                 /\ cycle' = [pc |-> "store", goal |-> newest,
                              waits |-> status = "waiting_for_agent",
                              done |-> cycle.done \cup
                                       (IF status = "completed" THEN {newest} ELSE {})]
                 /\ UNCHANGED forgeTimer
    /\ UNCHANGED <<storageVars, kernelVars, press, boundVars, paused>>

\* The completed Goals are written; what follows uses the lists already read.
CycleStore ==
    /\ cycle.pc = "store"
    /\ doneGoals' = cycle.done
    /\ \/ /\ Remaining(cycle.done) = {}
          /\ cycle' = [cycle EXCEPT !.pc = "finish"]
          /\ UNCHANGED <<forgeShown, forgeTimer>>
       \/ /\ Remaining(cycle.done) # {} /\ cycle.waits
          /\ StopForge /\ UNCHANGED forgeShown
       \/ /\ Remaining(cycle.done) # {} /\ ~cycle.waits
          /\ forgeShown' = "starting"
          /\ cycle' = [cycle EXCEPT !.pc = "start", !.goal = selectNextGoal(cycle.done)]
          /\ UNCHANGED forgeTimer
    /\ UNCHANGED <<enabled, token, kernelVars, press, boundVars, paused>>

\* No Goal is left: the forge switches itself off and forgets its progress.
CycleFinish ==
    /\ cycle.pc = "finish"
    /\ enabled' = FALSE /\ doneGoals' = {} /\ StopForge
    /\ UNCHANGED <<token, kernelVars, press, forgeShown, boundVars, paused>>

\* startGoalResearch: a live Mission is returned as it is, any other one is
\* restarted and becomes the newest.
CycleStart ==
    /\ cycle.pc \in {"start", "restart"}
    /\ LET g == cycle.goal
           live == forgeMission[g] = "queued"
           status == IF live \/ hermes THEN "queued" ELSE "waiting_for_agent"
       IN  /\ forgeMission' = [forgeMission EXCEPT ![g] = status]
           /\ newest' = IF live THEN newest ELSE g
           /\ forgeShown' = OrbState(TRUE, status)
           /\ paused' = IF enabled \/ live THEN paused ELSE paused + 1
    /\ Schedule
    /\ UNCHANGED <<storageVars, hermes, press, boundVars>>

\* Any request of the cycle may fail; the cycle is tried again later.
CycleFails ==
    /\ cycle.pc \in {"list", "start", "restart"}
    /\ forgeFaults < MaxForgeFaults /\ forgeFaults' = forgeFaults + 1
    /\ forgeShown' = "failed" /\ Schedule
    /\ UNCHANGED <<storageVars, kernelVars, press, presses, panels, paused>>

\* The panel is closed and opened again: everything in memory is lost, storage
\* stays, and initialize starts a cycle when the forge is enabled.
ReopenPanel ==
    /\ panels < MaxPanels /\ panels' = panels + 1
    /\ press' = "none" /\ forgeTimer' = FALSE
    /\ cycle' = IF enabled THEN [ForgeIdle EXCEPT !.pc = "read"] ELSE ForgeIdle
    /\ forgeShown' = OrbState(enabled, "none")
    /\ UNCHANGED <<storageVars, kernelVars, presses, forgeFaults, paused>>

---------------------------------------------------------------------------
\* The Kernel and its workers.

MissionEnds ==
    \E g \in Goals :
        /\ forgeMission[g] = "queued"
        /\ \/ forgeMission' = [forgeMission EXCEPT ![g] = "completed"] /\ UNCHANGED forgeFaults
           \/ /\ forgeFaults < MaxForgeFaults /\ forgeFaults' = forgeFaults + 1
              /\ forgeMission' = [forgeMission EXCEPT ![g] = "failed"]
        /\ UNCHANGED <<storageVars, newest, hermes, press, cycle, forgeTimer, forgeShown,
                       presses, panels, paused>>

\* Hermes is lost (a fault) or comes back; the token is lost (unpaired).
HermesChanges ==
    /\ hermes' = ~hermes
    /\ forgeFaults' = IF hermes THEN forgeFaults + 1 ELSE forgeFaults
    /\ forgeFaults' <= MaxForgeFaults
    /\ UNCHANGED <<storageVars, forgeMission, newest, press, cycle, forgeTimer, forgeShown,
                   presses, panels, paused>>
Unpair ==
    /\ Unpaired /\ token /\ token' = FALSE
    /\ UNCHANGED <<enabled, doneGoals, kernelVars, press, cycle, forgeTimer, forgeShown,
                   boundVars, paused>>

CycleStep == CycleRead \/ CycleUnpair \/ CycleList \/ CycleStore \/ CycleFinish \/ CycleStart
ForgeNext ==
    \/ Press \/ PressRead \/ PressWrite \/ TimerFires \/ CycleStep
    \/ CycleFails \/ ReopenPanel \/ MissionEnds \/ HermesChanges \/ Unpair

\* Promises settle, timers fire, live Missions end and Hermes comes back. The
\* user is under no obligation.
ForgeFairness ==
    /\ WF_forgeVars(PressRead) /\ WF_forgeVars(PressWrite) /\ WF_forgeVars(TimerFires)
    /\ WF_forgeVars(CycleStep) /\ WF_forgeVars(MissionEnds)
ForgeSpec == ForgeInit /\ [][ForgeNext]_forgeVars /\ ForgeFairness

---------------------------------------------------------------------------
(* A pause holds: between the press that switches the forge off and the next
   one, at most one Mission is started, by a cycle that had already read the
   switch ("Pause Efesto after current work"). *)
PauseStopsStarts == paused <= 1

(* Two Missions are never live at once for the forge's own work: the Goals are
   forged one after the other, even across forgeFaults and reopened panels. *)
OneMissionAtATime ==
    Cardinality({g \in Goals : forgeMission[g] = "queued"}) <= 1

(* A forge left alone works through its Goals: whenever every Mission ends
   well and the user lets it run, it switches itself off. *)
ForgeDrains ==
    (enabled /\ cycle.pc = "read") ~> (~enabled \/ presses > 0 \/ forgeFaults > 0)

\* What the forge never does.
ForgeKeepsToTheSwitch == PauseStopsStarts /\ OneMissionAtATime

(* The forge obeys its switch, works on one Goal at a time, and switches
   itself off when there is nothing left. *)
ForgeObeys == []ForgeKeepsToTheSwitch /\ ForgeDrains
=============================================================================
