----------------------------- MODULE LiveStreams -----------------------------
(* How the surfaces follow the Kernel: the event stream (kernel-event-bus.mjs,
   the route /api/events, the one-click proxy of kernel-proxy.mjs, and the
   dashboard's subscriber in events.ts) and the popup's refresh loop
   (agent-hub-refresh.js).

   A page opens at most one stream. Its request passes the proxy, which may
   still be reading the request, waiting for the Kernel, forwarding, or waiting
   for a slow reader when the page goes away. *)
EXTENDS Integers, FiniteSets

CONSTANTS
    Tabs,         \* pages with a subscriber
    MaxListeners,  \* listeners of the bus (16 in the source)
    MaxBackoff,    \* attempts that lengthen the delay (5 in the source)
    UnreachableAfter,  \* UNREACHABLE_AFTER_FAILURES (2 in the source)
    MaxFrames,     \* bound: events published
    MaxReloads     \* bound: times a page leaves

ASSUME UnreachableIsCounted == UnreachableAfter \in Nat \ {0}

VARIABLES
    page,       \* [Tabs -> the subscriber: "off", "asking", "open", "waiting"]
    backoff,    \* [Tabs -> attempt]
    proxy,      \* [Tabs -> the proxy's handler]
    abortable,  \* [Tabs -> the close listener of the handler is in place]
    listeners,  \* pages whose stream the bus holds
    frame,      \* [Tabs -> a chunk the proxy has not read yet]
    frames, reloads,
    hub         \* the popup's refresher: [timer, refreshing, stopped, visible, failures,
                \*  unreachable, streak]; streak is history: failures in a row

streamVars == <<page, backoff, proxy, abortable, listeners, frame, frames, reloads, hub>>

HubInit == [timer |-> FALSE, refreshing |-> FALSE, stopped |-> TRUE, visible |-> TRUE,
            failures |-> 0, unreachable |-> FALSE, streak |-> 0]

StreamInit ==
    /\ page = [p \in Tabs |-> "off"] /\ backoff = [p \in Tabs |-> 0]
    /\ proxy = [p \in Tabs |-> "none"] /\ abortable = [p \in Tabs |-> FALSE]
    /\ listeners = {} /\ frame = [p \in Tabs |-> FALSE]
    /\ frames = 0 /\ reloads = 0 /\ hub = HubInit

---------------------------------------------------------------------------
\* The stream.

\* subscribeToKernelEvents: a request to the public port. The proxy's handler
\* for an earlier request of the page must be over: it is another request.
AskStream(p) ==
    /\ page[p] \in {"off", "waiting"} /\ proxy[p] = "none"
    /\ page' = [page EXCEPT ![p] = "asking"]
    /\ proxy' = [proxy EXCEPT ![p] = "body"] /\ abortable' = [abortable EXCEPT ![p] = FALSE]
    /\ UNCHANGED <<backoff, listeners, frame, frames, reloads, hub>>

\* readBody is over: the close listener is set and the Kernel is asked.
Forward(p) ==
    /\ proxy[p] = "body"
    /\ proxy' = [proxy EXCEPT ![p] = "fetching"]
    /\ abortable' = [abortable EXCEPT ![p] = page[p] = "asking"]
    /\ UNCHANGED <<page, backoff, listeners, frame, frames, reloads, hub>>

\* The route /api/events: the bus first, then the head; a full bus is a 503.
Subscribe(p) ==
    /\ proxy[p] = "fetching" /\ p \notin listeners
    /\ IF Cardinality(listeners) >= MaxListeners
       THEN /\ proxy' = [proxy EXCEPT ![p] = "none"]
            /\ page' = [page EXCEPT ![p] = IF @ = "asking" THEN "waiting" ELSE @]
            /\ backoff' = [backoff EXCEPT ![p] = IF page[p] = "asking" /\ @ < MaxBackoff THEN @ + 1 ELSE @]
            /\ UNCHANGED <<listeners, frame>>
       ELSE /\ listeners' = listeners \cup {p}
            /\ frame' = [frame EXCEPT ![p] = TRUE]  \* ": connected"
            /\ UNCHANGED <<proxy, page, backoff>>
    /\ UNCHANGED <<abortable, frames, reloads, hub>>

\* The head arrives: pipeStream takes over and the page is connected.
HeadArrives(p) ==
    /\ proxy[p] = "fetching" /\ p \in listeners
    /\ proxy' = [proxy EXCEPT ![p] = "piping"]
    /\ page' = [page EXCEPT ![p] = IF @ = "asking" THEN "open" ELSE @]
    /\ backoff' = [backoff EXCEPT ![p] = IF page[p] = "asking" THEN 0 ELSE @]
    /\ UNCHANGED <<abortable, listeners, frame, frames, reloads, hub>>

\* The proxy's side of a stream ends: the Kernel sees its request close and
\* unsubscribes.
Released(p) ==
    /\ proxy' = [proxy EXCEPT ![p] = "none"]
    /\ listeners' = listeners \ {p}
    /\ frame' = [frame EXCEPT ![p] = FALSE]

Gone(p) == page[p] \in {"off", "waiting"}

PipeStopsNever(p) == FALSE

\* pipeStream, after a chunk: the response may have been destroyed meanwhile.
PipeStops(p) == Gone(p)

\* One turn of pipeStream; a slow reader makes it wait for drain or close.
Pipe(p) ==
    /\ proxy[p] = "piping" /\ frame[p]
    /\ IF PipeStops(p) THEN Released(p)
       ELSE /\ frame' = [frame EXCEPT ![p] = FALSE]
            /\ proxy' \in {proxy, [proxy EXCEPT ![p] = "drain"]}
            /\ UNCHANGED listeners
    /\ UNCHANGED <<page, backoff, abortable, frames, reloads, hub>>

Drained(p) ==
    /\ proxy[p] = "drain"
    /\ proxy' = [proxy EXCEPT ![p] = "piping"]
    /\ UNCHANGED <<page, backoff, abortable, listeners, frame, frames, reloads, hub>>

\* The close event of a response that has its listener aborts the request upstream.
CloseSeen(p) ==
    /\ Gone(p) /\ abortable[p] /\ proxy[p] \in {"fetching", "piping", "drain"}
    /\ Released(p)
    /\ UNCHANGED <<page, backoff, abortable, frames, reloads, hub>>

\* publish: every live listener gets the frame.
Publish ==
    /\ frames < MaxFrames /\ frames' = frames + 1
    /\ frame' = [p \in Tabs |-> frame[p] \/ p \in listeners]
    /\ UNCHANGED <<page, backoff, proxy, abortable, listeners, reloads, hub>>

\* The page unsubscribes or reloads; the connection breaks.
LeavePage(p) ==
    /\ page[p] \in {"asking", "open"} /\ reloads < MaxReloads /\ reloads' = reloads + 1
    /\ page' \in {[page EXCEPT ![p] = "off"], [page EXCEPT ![p] = "waiting"]}
    /\ backoff' = [backoff EXCEPT ![p] = IF page'[p] = "off" THEN 0
                                         ELSE IF @ < MaxBackoff THEN @ + 1 ELSE @]
    /\ UNCHANGED <<proxy, abortable, listeners, frame, frames, hub>>

---------------------------------------------------------------------------
\* The popup's refresher.

HubSchedule(h) == [h EXCEPT !.timer = ~h.stopped /\ h.visible]

\* run(): nothing happens while stopped, hidden or already refreshing.
HubRun(h) == IF h.stopped \/ ~h.visible \/ h.refreshing THEN [h EXCEPT !.timer = FALSE]
          ELSE [h EXCEPT !.timer = FALSE, !.refreshing = TRUE]

Hub(next) == hub' = next /\ next # hub
             /\ UNCHANGED <<page, backoff, proxy, abortable, listeners, frame, frames, reloads>>

HubStart == Hub(HubSchedule([hub EXCEPT !.stopped = FALSE]))
HubStop == Hub([hub EXCEPT !.stopped = TRUE, !.timer = FALSE])
HubVisibility ==
    LET h == [hub EXCEPT !.visible = ~@, !.timer = FALSE]
    IN  Hub(IF ~h.stopped /\ h.visible THEN HubRun(h) ELSE h)
HubTimer == hub.timer /\ Hub(HubRun(hub))

ReadSucceeded(h) == [h EXCEPT !.failures = 0, !.unreachable = FALSE, !.streak = 0]
ReadFailed(h) ==
    LET n == IF h.failures < UnreachableAfter THEN h.failures + 1 ELSE h.failures
        m == IF h.streak < UnreachableAfter THEN h.streak + 1 ELSE h.streak
    IN  [h EXCEPT !.failures = n, !.unreachable = @ \/ n >= UnreachableAfter, !.streak = m]

\* finally: the next refresh is scheduled whatever happened.
Finished(h) == HubSchedule([h EXCEPT !.refreshing = FALSE])

HubAnswers == hub.refreshing /\ \/ Hub(Finished(ReadSucceeded(hub)))
                                \/ Hub(Finished(ReadFailed(hub)))

StreamNext ==
    \/ \E p \in Tabs : AskStream(p) \/ Forward(p) \/ Subscribe(p) \/ HeadArrives(p) \/ Pipe(p) \/ Drained(p)
                        \/ CloseSeen(p) \/ LeavePage(p)
    \/ Publish
HubNext == HubStart \/ HubStop \/ HubVisibility \/ HubTimer \/ HubAnswers

\* The proxy and the Kernel's route take their steps; the reader of a page that
\* is still there drains eventually, a close event is delivered.
StreamFairness ==
    \A p \in Tabs : WF_streamVars(Forward(p)) /\ WF_streamVars(Subscribe(p))
                     /\ WF_streamVars(HeadArrives(p)) /\ WF_streamVars(Pipe(p))
                     /\ WF_streamVars(CloseSeen(p))

StreamSpec == StreamInit /\ [][StreamNext \/ HubNext]_streamVars /\ StreamFairness

---------------------------------------------------------------------------
(* A page that left does not keep its place in the bounded bus: its listener
   goes, whenever during the request the page went, also before the proxy had
   set its close listener. *)
AbandonedStreamsAreReleased ==
    \A p \in Tabs : (p \in listeners /\ page[p] = "off") ~> (p \notin listeners)

(* The popup's refresh loop never dies: started and visible, it is refreshing
   or has its next refresh scheduled, through every order of stop, start,
   hiding and failing reads. *)
RefreshLoopAlive == ~hub.stopped /\ hub.visible => hub.timer \/ hub.refreshing

(* The popup says the Kernel is unreachable exactly when the last reads failed
   in a row that often: one blip is a restart. *)
UnreachableMeansRepeated == hub.unreachable <=> hub.streak >= UnreachableAfter

\* What the refresher never gets wrong.
RefreshingIsTrue == RefreshLoopAlive /\ UnreachableMeansRepeated

(* Live views recover: an abandoned stream gives its place back, the refresh
   loop stays alive and says the truth about the Kernel. *)
StreamsRecover == []RefreshingIsTrue /\ AbandonedStreamsAreReleased
===============================================================================
