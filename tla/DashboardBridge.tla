--------------------------- MODULE DashboardBridge ---------------------------
(* The hosted dashboard speaks to the Kernel through the extension: a page
   opens one port per request (extension-bridge.ts), the service worker reads
   its stored token, fetches and relays the answer (dashboard-bridge.js). A
   change of the stored connection stops every port. The local dashboard hands
   the extension a one-use pairing code (dashboard-pair-bridge.js,
   extension-pair-handoff.ts, auto-pair.js), which rewrites that connection.

   chrome.storage answers and its change events are delivered separately from
   the writes; a token is its version, 0 for none; a body is its number of
   chunks. *)
EXTENDS Integers, Sequences, FiniteSets

CONSTANTS
    Ports,         \* requests the page makes
    MaxActive,     \* open ports (32 in the source)
    MaxResponse,   \* chunks relayed (MAX_BRIDGE_RESPONSE)
    MaxAsks,       \* requests of the content script (10 in the source)
    MaxCodesPerPage,  \* codes a page hands over (3 in the source)
    MaxWrites      \* bound: writes of the stored connection

VARIABLES
    stored,   \* [auto, token]: dashboardAutoConnect, kernelApiToken
    changes,  \* change events not delivered yet
    port,     \* [Ports -> the worker's side of a request]
    wire,     \* [Ports -> messages on their way to the page]
    client,   \* [Ports -> the page's side of a request]
    pairing,  \* the content script, the page that mints and the handed code
    kernelCode,  \* the Kernel's active pairing session
    writes

ASSUME BridgeAssumption == MaxResponse \in Nat

bridgeVars == <<stored, changes, port, wire, client, pairing, kernelCode, writes>>

FreshPort == [pc |-> "none", finished |-> FALSE, seen |-> [auto |-> FALSE, token |-> 0],
          left |-> 0, total |-> 0]
Active(p) == port[p].pc # "none" /\ ~port[p].finished

BridgeInit ==
    /\ stored \in {[auto |-> TRUE, token |-> 1], [auto |-> FALSE, token |-> 0]}
    /\ changes = 0 /\ writes = 0 /\ kernelCode = 0
    /\ port = [p \in Ports |-> FreshPort]
    /\ wire = [p \in Ports |-> <<>>]
    /\ client = [p \in Ports |-> [pc |-> "none", got |-> 0]]
    /\ pairing = [asks |-> 0, queued |-> 0, minting |-> FALSE, issued |-> 0,
                  reply |-> 0, done |-> FALSE, redeem |-> 0]

\* chrome.storage.local.set: the event of the change is delivered later.
Write(value) ==
    /\ writes < MaxWrites /\ writes' = writes + 1
    /\ stored' = value
    /\ changes' = changes + (IF value = stored THEN 0 ELSE 1)

\* stop(): aborts the fetch or the reader and closes the port. The handler of
\* a request that waits for the storage goes on and finds finished set.
Stop(r) ==
    [r EXCEPT !.finished = TRUE,
              !.pc = IF r.pc \in {"fetching", "relaying"} THEN "ended" ELSE r.pc]

Stopped(P) ==
    /\ port' = [p \in Ports |-> IF p \in P /\ Active(p) THEN Stop(port[p]) ELSE port[p]]
    /\ wire' = [p \in Ports |-> IF p \in P /\ Active(p) THEN Append(wire[p], "disconnect")
                                                         ELSE wire[p]]

---------------------------------------------------------------------------
\* The worker.

\* runtime.onConnectExternal: over the limit the port is closed at once.
Connect(p) ==
    /\ client[p].pc = "none" /\ port[p].pc = "none"
    /\ client' = [client EXCEPT ![p].pc = "waiting"]
    /\ IF Cardinality({q \in Ports : Active(q)}) >= MaxActive
       THEN /\ port' = [port EXCEPT ![p] = [FreshPort EXCEPT !.pc = "ended", !.finished = TRUE]]
            /\ wire' = [wire EXCEPT ![p] = <<"disconnect">>]
       ELSE /\ port' = [port EXCEPT ![p].pc = "connected"] /\ UNCHANGED wire
    /\ UNCHANGED <<stored, changes, pairing, kernelCode, writes>>

\* port.onMessage: bridgeRequestAllowed, then the stored connection is asked for.
Request(p, allowed) ==
    /\ port[p].pc = "connected" /\ Active(p)
    /\ IF allowed THEN port' = [port EXCEPT ![p].pc = "reading"] /\ UNCHANGED wire
                  ELSE /\ port' = [port EXCEPT ![p].pc = "ended"]
                       /\ wire' = [wire EXCEPT ![p] = Append(@, "error")]
    /\ UNCHANGED <<stored, changes, client, pairing, kernelCode, writes>>

\* The storage answers with what it holds now.
StorageAnswers(p) ==
    /\ port[p].pc = "reading"
    /\ port' = [port EXCEPT ![p].pc = "answered", ![p].seen = stored]
    /\ UNCHANGED <<stored, changes, wire, client, pairing, kernelCode, writes>>

MayFetchUnlessUnpaired(r) == r.seen.auto /\ r.seen.token # 0

\* The check before the fetch.
MayFetch(r) == r.seen.auto /\ r.seen.token # 0 /\ ~r.finished

Check(p) ==
    /\ port[p].pc = "answered"
    /\ IF MayFetch(port[p])
       THEN port' = [port EXCEPT ![p].pc = "fetching"] /\ UNCHANGED wire
       ELSE /\ port' = [port EXCEPT ![p].pc = "ended"]
            /\ wire' = IF port[p].finished THEN wire ELSE [wire EXCEPT ![p] = Append(@, "error")]
    /\ UNCHANGED <<stored, changes, client, pairing, kernelCode, writes>>

\* The Kernel answers with a body of some length, or not at all.
FetchAnswers(p) ==
    /\ port[p].pc = "fetching"
    /\ \/ \E length \in 0..(MaxResponse + 1) :
              /\ port' = [port EXCEPT ![p].pc = "relaying", ![p].left = length]
              /\ wire' = [wire EXCEPT ![p] = Append(@, "headers")]
       \/ /\ port' = [port EXCEPT ![p].pc = "ended"]
          /\ wire' = [wire EXCEPT ![p] = Append(@, "error")]
    /\ UNCHANGED <<stored, changes, client, pairing, kernelCode, writes>>

\* One turn of the reading loop: a chunk, too large a body, a failing read, or the end.
Relay(p) ==
    /\ port[p].pc = "relaying"
    /\ \/ /\ port[p].left > 0 /\ port[p].total < MaxResponse
          /\ port' = [port EXCEPT ![p].left = @ - 1, ![p].total = @ + 1]
          /\ wire' = [wire EXCEPT ![p] = Append(@, "chunk")]
       \/ /\ port[p].left > 0
          /\ port' = [port EXCEPT ![p].pc = "ended"]
          /\ wire' = [wire EXCEPT ![p] = Append(@, "error")]
       \/ /\ port[p].left = 0
          /\ port' = [port EXCEPT ![p].pc = "ended"]
          /\ wire' = [wire EXCEPT ![p] = Append(@, "done")]
    /\ UNCHANGED <<stored, changes, client, pairing, kernelCode, writes>>

\* storage.onChanged: every active port is stopped.
Changed ==
    /\ changes > 0 /\ changes' = changes - 1
    /\ Stopped(Ports)
    /\ UNCHANGED <<stored, client, pairing, kernelCode, writes>>

\* The 120 second timer of a port.
PortTimesOut(p) ==
    /\ Active(p) /\ Stopped({p})
    /\ UNCHANGED <<stored, changes, client, pairing, kernelCode, writes>>

---------------------------------------------------------------------------
\* The page.

\* fail(), cancel() and cleanup(): the port is disconnected from the page's side.
Leave(p, c) ==
    /\ client' = [client EXCEPT ![p] = c]
    /\ port' = [port EXCEPT ![p] = IF Active(p) THEN Stop(@) ELSE @]
    /\ wire' = [wire EXCEPT ![p] = <<>>]

\* extensionFetch, port.onMessage and onDisconnect: only "done" closes the stream.
Received(c, m) ==
    CASE m = "headers" /\ c.pc = "waiting" -> [c EXCEPT !.pc = "settled"]
      [] m = "chunk" /\ c.pc = "settled" -> [c EXCEPT !.got = @ + 1]
      [] m = "done" /\ c.pc = "settled" -> [c EXCEPT !.pc = "closed"]
      [] OTHER -> [c EXCEPT !.pc = "failed"]

Waiting(p) == client[p].pc \in {"waiting", "settled"}

Receive(p) ==
    /\ Waiting(p) /\ wire[p] # <<>>
    /\ LET c == Received(client[p], Head(wire[p])) IN
       IF c.pc \in {"closed", "failed"}
       THEN Leave(p, c)
       ELSE /\ client' = [client EXCEPT ![p] = c]
            /\ wire' = [wire EXCEPT ![p] = Tail(@)]
            /\ UNCHANGED port
    /\ UNCHANGED <<stored, changes, pairing, kernelCode, writes>>

\* The caller aborts, or the page's own timer fires.
GiveUp(p) ==
    /\ Waiting(p) /\ Leave(p, [client[p] EXCEPT !.pc = "failed"])
    /\ UNCHANGED <<stored, changes, pairing, kernelCode, writes>>

\* revokeExtensionConnection: EFESTO_FORGET.
Forget ==
    /\ Write([stored EXCEPT !.auto = FALSE])
    /\ UNCHANGED <<port, wire, client, pairing, kernelCode>>

\* The user allows the hosted dashboard in the popup.
AllowDashboard ==
    /\ stored.token # 0 /\ Write([stored EXCEPT !.auto = TRUE])
    /\ UNCHANGED <<port, wire, client, pairing, kernelCode>>

---------------------------------------------------------------------------
\* Pairing through the local dashboard.

\* The content script asks, at most MaxAsks times, while it has no code.
Ask ==
    /\ stored.token = 0 \/ pairing.asks > 0
    /\ ~pairing.done /\ pairing.asks < MaxAsks
    /\ pairing' = [pairing EXCEPT !.asks = @ + 1, !.queued = @ + 1]
    /\ UNCHANGED <<stored, changes, port, wire, client, kernelCode, writes>>

HandsOut == ~pairing.minting /\ pairing.issued < MaxCodesPerPage

\* installExtensionPairHandoff: one mint at a time, a few codes per page.
AskArrives ==
    /\ pairing.queued > 0
    /\ pairing' = [pairing EXCEPT !.queued = @ - 1, !.minting = @ \/ HandsOut]
    /\ UNCHANGED <<stored, changes, port, wire, client, kernelCode, writes>>

\* The Kernel mints: the new session replaces the one before it.
Minted ==
    /\ pairing.minting
    /\ \/ /\ kernelCode' = pairing.issued + 1
          /\ pairing' = [pairing EXCEPT !.minting = FALSE, !.issued = @ + 1,
                                        !.reply = pairing.issued + 1]
       \/ pairing' = [pairing EXCEPT !.minting = FALSE] /\ UNCHANGED kernelCode
    /\ UNCHANGED <<stored, changes, port, wire, client, writes>>

\* The first reply is handed to the worker; later ones are ignored.
TakesReply == ~pairing.done

ReplyArrives ==
    /\ pairing.reply # 0
    /\ pairing' = [pairing EXCEPT !.reply = 0, !.done = TRUE,
                                  !.redeem = IF TakesReply THEN pairing.reply ELSE @]
    /\ UNCHANGED <<stored, changes, port, wire, client, kernelCode, writes>>

\* redeemDashboardCode: the Kernel accepts its active code once; then the token is stored.
Redeem ==
    /\ pairing.redeem # 0
    /\ pairing' = [pairing EXCEPT !.redeem = 0]
    /\ IF pairing.redeem = kernelCode
       THEN /\ kernelCode' = 0
            /\ Write([stored EXCEPT !.token = 2])
       ELSE UNCHANGED <<stored, changes, kernelCode, writes>>
    /\ UNCHANGED <<port, wire, client>>

BridgeNext ==
    \/ \E p \in Ports : Connect(p) \/ StorageAnswers(p) \/ Check(p) \/ FetchAnswers(p)
                        \/ Relay(p) \/ PortTimesOut(p) \/ Receive(p) \/ GiveUp(p)
    \/ \E p \in Ports, allowed \in BOOLEAN : Request(p, allowed)
    \/ Changed \/ Forget \/ AllowDashboard
    \/ Ask \/ AskArrives \/ Minted \/ ReplyArrives \/ Redeem

BridgeSpec == BridgeInit /\ [][BridgeNext]_bridgeVars

---------------------------------------------------------------------------
(* Once the event of a change has been delivered, no request uses the
   connection the user revoked or replaced, wherever it was when that happened
   (dashboard-bridge.js, the check of finished after the storage answered). *)
RevokedConnectionIsUnused ==
    changes = 0 =>
        \A p \in Ports : port[p].pc \in {"fetching", "relaying"} =>
            /\ port[p].seen = stored
            /\ stored.auto

(* The page never takes a cut answer for a whole one: a stream it closed as
   complete has every chunk the Kernel sent, whatever stopped the port between
   (extensionFetch ends the stream on "done" only). *)
CompleteAnswersAreWhole ==
    \A p \in Ports : client[p].pc = "closed" =>
        port[p].left = 0 /\ client[p].got = port[p].total

(* The bridge is faithful: it uses the connection the user left it, and the
   page gets whole answers or an error. *)
BridgeIsFaithful == RevokedConnectionIsUnused /\ CompleteAnswersAreWhole
===============================================================================
