----------------------------- MODULE Watchtower -----------------------------
(***************************************************************************)
(* Mission Watchtower and the delivery of Kernel Find receipts as system   *)
(* notifications (apps/extension/src/background.js, mission-watchtower.js, *)
(* kernel-supported-find-notify.js).  An inspection reads storage, asks    *)
(* the Kernel four questions, shows notifications one by one and writes    *)
(* storage twice; the worker may be stopped between any two of these, and  *)
(* the popup writes the same storage.                                      *)
(***************************************************************************)
EXTENDS Naturals, Sequences, FiniteSets, SequencesExt

CONSTANTS
    Missions,
    Wakes,              \* events that wake the worker: start-up, alarm
    Window,             \* receipts a listing returns (40 in the code)
    MaxRounds,          \* bound: terminal transitions of one Mission
    MaxFaults           \* bound: stops, failing calls, popup writes

ASSUME WatchtowerBounds == Window \in Nat /\ MaxRounds \in Nat

VARIABLES
    mission,            \* Kernel: mission -> [status, revision, supported]
    findReceipts,       \* Kernel: Find receipts, newest first
    tower,              \* storage: [initialized, known, unread]
    delivered,          \* storage: receipts shown before
    inspection,         \* wake -> what its inspection holds
    popup,              \* the popup's copy of tower, at most one
    shown,              \* notification -> times shown
    faults              \* faults so far, by kind

towerVars == <<mission, findReceipts, tower, delivered, inspection, popup, shown, faults>>

Asleep == [at |-> "asleep"]
Terminal == {"completed", "failed"}
Round(m, revision) == <<"find", m, (revision + 1) \div 2>>
Aviso(m, revision) == <<"aviso", m, revision>>
ReceiptIds == {"find"} \X Missions \X (1..MaxRounds)
Avisos == {"aviso"} \X Missions \X (1..(2 * MaxRounds))

Fault(kind) ==
    /\ faults.stop + faults.call + faults.unread + faults.popup < MaxFaults
    /\ faults' = [faults EXCEPT ![kind] = @ + 1]

----------------------------------------------------------------------------
(* The Kernel, as the extension sees it.                                   *)

\* A verification settles the Mission.
Settle(m, s, supported) ==
    /\ mission[m].status = "running"
    /\ mission' = [mission EXCEPT ![m] =
            [status |-> s, revision |-> @.revision + 1,
             supported |-> supported /\ s = "completed"]]
    /\ UNCHANGED <<findReceipts, tower, delivered, inspection, popup, shown, faults>>

\* The Find's receipt is queued after the Mission was settled.
QueueReceipt(m) ==
    LET id == Round(m, mission[m].revision)
    IN  /\ mission[m].supported
        /\ \A i \in DOMAIN findReceipts : findReceipts[i].id # id
        /\ findReceipts' = <<[id |-> id, read |-> FALSE]>> \o findReceipts
        /\ UNCHANGED <<mission, tower, delivered, inspection, popup, shown, faults>>

\* The user asks for more: the Mission runs again (bound: one of them does).
SearchMore(m) ==
    /\ mission[m].status \in Terminal
    /\ mission[m].revision < 2 * MaxRounds - 1
    /\ \A n \in Missions \ {m} : mission[n].revision <= 1
    /\ mission' = [mission EXCEPT ![m] =
            [status |-> "running", revision |-> @.revision + 1, supported |-> FALSE]]
    /\ UNCHANGED <<findReceipts, tower, delivered, inspection, popup, shown, faults>>

\* markNotificationRead.
Read(id) == [i \in DOMAIN findReceipts |->
                IF findReceipts[i].id = id THEN [findReceipts[i] EXCEPT !.read = TRUE]
                ELSE findReceipts[i]]

Windowed(list) == SubSeq(list, 1, IF Len(list) < Window THEN Len(list) ELSE Window)
ListAny == Windowed(findReceipts)

\* The entries of a list at the given places, in order.
Kept(list, places) ==
    LET kept[n \in 0..Len(list)] ==
            IF n = 0 THEN <<>>
            ELSE IF n \in places THEN Append(kept[n - 1], list[n]) ELSE kept[n - 1]
    IN  kept[Len(list)]

UnreadPlaces(list) == {i \in DOMAIN list : ~ list[i].read}

\* The listing is not filtered: read receipts keep their places.
ListUnreadOfAll == Kept(ListAny, UnreadPlaces(ListAny))

\* NotificationGateway.list: the state filter first, then the limit.
ListUnread == Windowed(Kept(findReceipts, UnreadPlaces(findReceipts)))

----------------------------------------------------------------------------
(* One inspection.                                                         *)

Hold(w, changes) == inspection' = [inspection EXCEPT ![w] = changes]
Quiet == UNCHANGED <<mission, findReceipts, tower, delivered, popup, shown, faults>>

\* inspectMissionTransitionsOnce: one inspection at a time; it starts from
\* what storage says now.
Inspect(w) ==
    /\ \A v \in Wakes : inspection[v] = Asleep
    /\ Hold(w, [at |-> "missions", tower |-> tower, delivered |-> delivered])
    /\ Quiet

\* listAgentMissions; when it fails the inspection ends.
ReadMissions(w) ==
    /\ inspection[w].at = "missions"
    /\ \/ /\ Hold(w, [at |-> "covering", tower |-> inspection[w].tower,
                      delivered |-> inspection[w].delivered, missions |-> mission])
          /\ Quiet
       \/ /\ Fault("call") /\ Hold(w, Asleep)
          /\ UNCHANGED <<mission, findReceipts, tower, delivered, popup, shown>>

\* The covering list, whatever the receipts' state; empty when it fails.
ReadCovering(w) ==
    LET i == inspection[w]
        next(cover) == [at |-> "unread", tower |-> i.tower, delivered |-> i.delivered,
                        missions |-> i.missions, cover |-> cover]
    IN  /\ i.at = "covering"
        /\ \/ Hold(w, next({r.id : r \in ToSet(ListAny)})) /\ Quiet
           \/ /\ Fault("call") /\ Hold(w, next({}))
              /\ UNCHANGED <<mission, findReceipts, tower, delivered, popup, shown>>

\* undeliveredKernelSupportedFindNotifications: unread Find receipts the
\* extension has not shown yet.
Undelivered(list, shownBefore) ==
    Kept(list, {i \in UnreadPlaces(list) : list[i].id \notin shownBefore})

\* The unread list; what was delivered before is left out.
ReadUnread(w) ==
    LET i == inspection[w]
        todo == Undelivered(ListUnread, i.delivered)
        next(s, at) == [at |-> at, tower |-> i.tower, delivered |-> i.delivered,
                        missions |-> i.missions, cover |-> i.cover, todo |-> s, made |-> {}]
    IN  /\ i.at = "unread"
        /\ \/ Hold(w, next(todo, IF todo = <<>> THEN "reconcile" ELSE "deliver")) /\ Quiet
           \/ /\ Fault("call") /\ Hold(w, next(<<>>, "reconcile"))
              /\ UNCHANGED <<mission, findReceipts, tower, delivered, popup, shown>>

\* One turn of deliverKernelSupportedFindNotifications: the notification is
\* created, then the receipt marked read (a failure is ignored).  A create
\* that throws ends the delivery without remembering the ones before it.
Deliver(w) ==
    LET i == inspection[w]
        r == Head(i.todo)
    IN  /\ i.at = "deliver"
        /\ \/ /\ shown' = [shown EXCEPT ![r.id] = @ + 1]
              /\ Hold(w, [i EXCEPT !.todo = Tail(@), !.made = @ \cup {r.id},
                              !.at = IF Len(i.todo) = 1 THEN "remember" ELSE @])
              /\ \/ findReceipts' = Read(r.id) /\ UNCHANGED faults
                 \/ Fault("unread") /\ UNCHANGED findReceipts
           \/ /\ Fault("stop")
              /\ Hold(w, [i EXCEPT !.at = "reconcile"])
              /\ UNCHANGED <<findReceipts, shown>>
        /\ UNCHANGED <<mission, tower, delivered, popup>>

\* rememberDeliveredKernelNotificationIds.
Remember(w) ==
    /\ inspection[w].at = "remember"
    /\ delivered' = inspection[w].delivered \cup inspection[w].made
    /\ Hold(w, [inspection[w] EXCEPT !.at = "reconcile"])
    /\ UNCHANGED <<mission, findReceipts, tower, popup, shown, faults>>

\* reconcileMissionWatchtower: transitions are terminal Missions known with
\* another revision.
Transitions(t, ms) ==
    {m \in Missions : /\ t.initialized
                      /\ ms[m].status \in Terminal
                      /\ t.known[m] # ms[m].revision}

\* presentWatchtowerAviso: what the result is announced as (a verification
\* that found no SUPPORT is announced as forged too, and never covered).
AvisoKind(r) ==
    IF r.status = "failed" THEN "attention" ELSE IF r.supported THEN "find" ELSE "forged"

\* kernelFindsCoveringMission: the receipts of this round's SUPPORT rows.
Covering(i, m) ==
    IF i.missions[m].supported THEN i.cover \cap {Round(m, i.missions[m].revision)} ELSE {}

\* shouldOsNotifyWatchtowerAviso: failures always; a completion unless the
\* Kernel has a receipt for it.
Announced(i, m) == AvisoKind(i.missions[m]) = "attention" \/ Covering(i, m) = {}

\* The observation is stored before anything is announced.
ReconcileWatchtower(w) ==
    LET i == inspection[w]
        new == Transitions(i.tower, i.missions)
    IN  /\ i.at = "reconcile"
        /\ tower' = [initialized |-> TRUE,
                     known |-> [m \in Missions |-> i.missions[m].revision],
                     unread |-> i.tower.unread
                                \cup {Aviso(m, i.missions[m].revision) : m \in new}]
        /\ Hold(w, [at |-> "announce",
                    todo |-> {Aviso(m, i.missions[m].revision) :
                              m \in {n \in new : Announced(i, n)}}])
        /\ UNCHANGED <<mission, findReceipts, delivered, popup, shown, faults>>

Announce(w) ==
    /\ inspection[w].at = "announce"
    /\ \/ \E a \in inspection[w].todo :
             /\ shown' = [shown EXCEPT ![a] = @ + 1]
             /\ Hold(w, [inspection[w] EXCEPT !.todo = @ \ {a}])
       \/ inspection[w].todo = {} /\ Hold(w, Asleep) /\ UNCHANGED shown
    /\ UNCHANGED <<mission, findReceipts, tower, delivered, popup, faults>>

\* The browser stops the worker.
StopWorker ==
    /\ \E w \in Wakes : inspection[w] # Asleep
    /\ Fault("stop")
    /\ inspection' = [w \in Wakes |-> Asleep]
    /\ UNCHANGED <<mission, findReceipts, tower, delivered, popup, shown>>

----------------------------------------------------------------------------
(* The user.                                                               *)

\* A click on a Find's notification marks its receipt read.
Click(id) ==
    /\ id \in ReceiptIds /\ shown[id] > 0
    /\ \E i \in DOMAIN findReceipts : findReceipts[i].id = id /\ ~ findReceipts[i].read
    /\ findReceipts' = Read(id)
    /\ UNCHANGED <<mission, tower, delivered, inspection, popup, shown, faults>>

\* The popup opens with a copy of the watchtower's state ...
OpenPopup ==
    /\ popup = {} /\ tower.unread # {}
    /\ popup' = {tower}
    /\ UNCHANGED <<mission, findReceipts, tower, delivered, inspection, shown, faults>>

\* ... and `open` writes that copy back, its events read.
ReadResults ==
    /\ Fault("popup")
    /\ \E t \in popup : tower' = [t EXCEPT !.unread = {}]
    /\ popup' = {}
    /\ UNCHANGED <<mission, findReceipts, delivered, inspection, shown>>

TowerInit ==
    /\ mission = [m \in Missions |->
                    [status |-> "running", revision |-> 0, supported |-> FALSE]]
    /\ findReceipts = <<>>
    /\ tower = [initialized |-> FALSE, known |-> [m \in Missions |-> 0], unread |-> {}]
    /\ delivered = {}
    /\ inspection = [w \in Wakes |-> Asleep]
    /\ popup = {}
    /\ shown = [n \in ReceiptIds \cup Avisos |-> 0]
    /\ faults = [stop |-> 0, call |-> 0, unread |-> 0, popup |-> 0]

Inspecting(w) ==
    \/ ReadMissions(w) \/ ReadCovering(w) \/ ReadUnread(w) \/ Deliver(w)
    \/ Remember(w) \/ ReconcileWatchtower(w) \/ Announce(w)

TowerNext ==
    \/ \E m \in Missions :
          \/ \E s \in Terminal, f \in BOOLEAN : Settle(m, s, f)
          \/ QueueReceipt(m) \/ SearchMore(m)
    \/ \E w \in Wakes : Inspect(w) \/ Inspecting(w)
    \/ \E id \in ReceiptIds : Click(id)
    \/ StopWorker \/ OpenPopup \/ ReadResults

\* Alarms keep coming, a started inspection goes on, a sealed Find gets its
\* receipt.
TowerFairness ==
    /\ \A w \in Wakes : WF_towerVars(Inspecting(w))
    /\ WF_towerVars(\E w \in Wakes : Inspect(w))
    /\ \A m \in Missions : WF_towerVars(QueueReceipt(m))

TowerSpec == TowerInit /\ [][TowerNext]_towerVars /\ TowerFairness

----------------------------------------------------------------------------
\* A Find's receipt is shown once, and again only because the worker was
\* stopped, or a notification could not be created, before the delivery was
\* remembered: overlapping wakes, failed mark-read calls and clicks do not
\* repeat it.
ReceiptsShownOnce ==
    \A id \in ReceiptIds : shown[id] <= 1 + faults.stop

\* A Mission's result is announced once, and again only because the popup
\* wrote back an older observation: stops of the worker lose it rather than
\* repeat it.
AvisosShownOnce ==
    \A a \in Avisos : shown[a] <= 1 + faults.popup

\* While every delivered receipt can be marked read, each queued receipt is
\* shown or read in the end, however many arrive before it: the unread
\* window moves on.
EveryFindShown ==
    \A id \in ReceiptIds :
        (\E i \in DOMAIN findReceipts : findReceipts[i].id = id) ~>
            (shown[id] > 0 \/ faults.unread > 0)

\* Nothing is shown again without a reason.
NothingIsRepeated == ReceiptsShownOnce /\ AvisosShownOnce

\* What was found reaches the user: in the end, and no more often than a lost
\* memory of having shown it explains.
FindsReachTheUser == []NothingIsRepeated /\ EveryFindShown
=============================================================================
