---------------------------- MODULE MCBackground ----------------------------
(* What works while nobody looks: the scheduler, the notification path, the
   extension's watchtower and forge switch, the event streams through the proxy
   and the popup's refresh loop. They share no state here: `focus` picks, in the
   initial state, which one runs, so that one run of TLC explores each without
   their product. *)
EXTENDS Scheduler, Notifications, Watchtower, ForgePower, LiveStreams

CONSTANTS
    Parts    \* the ones a run explores

VARIABLE focus
mcVars == <<schedulerVars, notificationVars, towerVars, forgeVars,
            streamVars, focus>>

MCSchedule(kind, start) ==
    [kind |-> kind, start |-> start, interval |-> 2, timeOfDay |-> 1,
     dayOfWeek |-> 0, enabled |-> TRUE]
MCScheduleSpecs ==
    <<{MCSchedule("once", 1), MCSchedule("daily", 2)},
      {MCSchedule("interval", 1), MCSchedule("weekly", 0)}>>

MCTriggers ==
    {[id |-> "price", type |-> "price_below", bound |-> 3, enabled |-> TRUE],
     [id |-> "deadline", type |-> "deadline_near", bound |-> 2, enabled |-> TRUE],
     [id |-> "off", type |-> "new_match", bound |-> 0, enabled |-> FALSE]}
MCObservations ==
    {[source |-> "shop", at |-> 1, type |-> "number", value |-> 2],
     [source |-> "shop", at |-> 2, type |-> "number", value |-> 3],
     [source |-> "call", at |-> 2, type |-> "string", value |-> 4],
     [source |-> "call", at |-> 5, type |-> "string", value |-> 4]}

MCInit ==
    /\ SchedulerInit /\ NotificationInit /\ TowerInit /\ ForgeInit /\ StreamInit
    /\ focus \in Parts
    /\ focus = "forge" \/ ~enabled
MCNext ==
    /\ UNCHANGED focus
    /\ focus # "scheduler" => UNCHANGED schedulerVars
    /\ focus # "notifications" => UNCHANGED notificationVars
    /\ focus # "tower" => UNCHANGED towerVars
    /\ focus # "forge" => UNCHANGED forgeVars
    /\ focus \notin {"streams", "hub"} => UNCHANGED streamVars
    /\ \/ focus = "scheduler" /\ SchedulerNext
       \/ focus = "notifications" /\ NotificationNext
       \/ focus = "tower" /\ TowerNext
       \/ focus = "forge" /\ ForgeNext
       \/ focus = "streams" /\ StreamNext
       \/ focus = "hub" /\ HubNext
\* Each component's own fairness (SchedulerFairness, TowerFairness,
\* ForgeFairness, StreamFairness), for the one that runs.
MCFairness ==
    /\ WF_schedulerVars(focus = "scheduler" /\ ClockAdvances)
    /\ \A p \in Pollers :
          /\ WF_schedulerVars(focus = "scheduler" /\ ReadClock(p))
          /\ WF_schedulerVars(focus = "scheduler" /\ \E n \in Limits : ClaimDue(p, n))
    /\ \A w \in Wakes : WF_towerVars(focus = "tower" /\ Inspecting(w))
    /\ WF_towerVars(focus = "tower" /\ \E w \in Wakes : Inspect(w))
    /\ \A m \in Missions : WF_towerVars(focus = "tower" /\ QueueReceipt(m))
    /\ WF_forgeVars(focus = "forge" /\ PressRead) /\ WF_forgeVars(focus = "forge" /\ PressWrite)
    /\ WF_forgeVars(focus = "forge" /\ TimerFires) /\ WF_forgeVars(focus = "forge" /\ CycleStep)
    /\ WF_forgeVars(focus = "forge" /\ MissionEnds)
    /\ \A p \in Tabs :
          /\ WF_streamVars(focus = "streams" /\ Forward(p))
          /\ WF_streamVars(focus = "streams" /\ Subscribe(p))
          /\ WF_streamVars(focus = "streams" /\ HeadArrives(p))
          /\ WF_streamVars(focus = "streams" /\ Pipe(p))
          /\ WF_streamVars(focus = "streams" /\ CloseSeen(p))

MCSpec == MCInit /\ [][MCNext]_mcVars /\ MCFairness
=============================================================================
