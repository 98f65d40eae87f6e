---------------------------- MODULE Notifications ----------------------------
(***************************************************************************)
(* From an observation to the user's inbox: the trigger engine             *)
(* (packages/kernel/src/trigger), the notification gateway                 *)
(* (packages/kernel/src/notification) and the file behind it               *)
(* (apps/local-kernel/notification-receipt-store.mjs), wired as            *)
(* golden-drill-goal.e2e.test.mjs wires them: the event's key is the       *)
(* notification's dedupe key.                                              *)
(*                                                                         *)
(* The gateway's transactions are serialised by the file store's promise   *)
(* chain.  Its write replaces the receipts in memory before it writes the  *)
(* file, so a failing write leaves memory ahead of the file until the next *)
(* successful write or a restart.                                          *)
(***************************************************************************)
EXTENDS Integers, Sequences, FiniteSets, SequencesExt

CONSTANTS
    Triggers,       \* trigger definitions: [id, type, bound, enabled]
    Observations,   \* [source, at, type, value]: what a run observed
    Contents,       \* the notification bodies a caller composes
    MaxReceipts     \* bound: receipts in the file

VARIABLES
    events,         \* TriggerEventStore
    memory,         \* FileNotificationReceiptStore.receipts
    loaded,         \* memory was read from the file since the start
    file,           \* notification-receipts.json
    told            \* history: what callers were told after their own write

notificationVars == <<events, memory, loaded, file, told>>

----------------------------------------------------------------------------
\* matchReason.  A value carries its JavaScript type; a string's value is 0
\* when empty, 1 when blank, larger otherwise (an instant for a deadline).
Matches(t, o) ==
    CASE t.type = "price_below" -> o.type = "number" /\ o.value < t.bound
      [] t.type = "new_match" ->
           \/ o.type = "string" /\ o.value > 1
           \/ o.type = "list" /\ o.value > 0
           \/ o.type = "boolean" /\ o.value = 1
      [] t.type = "content_changed" ->
           o.type = "string" /\ o.value > 0 /\ o.value # t.bound
      [] t.type = "deadline_near" ->
           /\ o.type = "string"
           /\ o.value > 1
           /\ o.value >= o.at
           /\ o.value - o.at <= t.bound
      [] t.type = "availability_detected" ->
           \/ o.type = "boolean" /\ o.value = 1
           \/ o.type = "number" /\ o.value > 0

\* The event's key is a hash of trigger, source, instant and value.
EventKey(t, o) == <<t.id, o.source, o.at, o.value>>

\* TriggerEngine.evaluate: a disabled trigger or a condition that does not
\* hold is no event; an event seen before is replayed.
EvaluateTrigger(t, o) ==
    /\ t.enabled
    /\ Matches(t, o)
    /\ events' = IF \E e \in events : e.key = EventKey(t, o) THEN events
                 ELSE events \cup {[key |-> EventKey(t, o), trigger |-> t.id,
                                    observation |-> o]}
    /\ UNCHANGED <<memory, loaded, file, told>>

----------------------------------------------------------------------------
\* projectOrNull: the notification's state from its receipts in order;
\* dismissed is never left.
View(receipts, id) ==
    LET own == {i \in DOMAIN receipts : receipts[i].id = id}
        has(e) == \E i \in own : receipts[i].event = e
    IN  CASE ~has("queued") -> "absent"
          [] has("queued") /\ has("dismissed") -> "dismissed"
          [] has("queued") /\ ~has("dismissed") /\ has("read") -> "read"
          [] OTHER -> "unread"

\* #ensureLoaded: the file is read once, at the first transaction.
Loaded == IF loaded THEN memory ELSE file

\* nextSequence: one more than the last receipt's.
NextSequence(receipts) ==
    IF receipts = <<>> THEN 1 ELSE Last(receipts).sequence + 1

\* A write that truncates the file in place: a failure loses what it held.
WriteReceiptsInPlace(receipts, ok) ==
    /\ Len(receipts) <= MaxReceipts
    /\ memory' = receipts
    /\ loaded' = TRUE
    /\ file' = IF ok THEN receipts ELSE <<>>

\* write: memory first, then a temporary file and a rename; `ok` is whether
\* the file operations succeed.
WriteReceipts(receipts, ok) ==
    /\ Len(receipts) <= MaxReceipts
    /\ memory' = receipts
    /\ loaded' = TRUE
    /\ file' = IF ok THEN receipts ELSE file

KeepReceipts ==
    /\ memory' = Loaded
    /\ loaded' = TRUE
    /\ UNCHANGED file

\* NotificationGateway.queue for an event: a known notification with the
\* same content is answered from the receipts, with another content it is a
\* conflict (nothing written), a new one is appended.
Queue(e, content, ok) ==
    /\ e \in events
    /\ IF View(Loaded, e.key) # "absent"
       THEN KeepReceipts /\ UNCHANGED told
       ELSE /\ WriteReceipts(Append(Loaded,
                  [sequence |-> NextSequence(Loaded), id |-> e.key,
                   event |-> "queued", content |-> content]), ok)
            /\ told' = IF ok THEN told \cup {<<e.key, "queued">>} ELSE told
    /\ UNCHANGED events

\* appendState for markRead and dismiss: unknown is an error, a repeat or
\* anything after dismissal changes nothing.
AppendState(e, event, ok) ==
    /\ e \in events
    /\ View(Loaded, e.key) # "absent"
    /\ IF View(Loaded, e.key) \in {event, "dismissed"}
       THEN KeepReceipts /\ UNCHANGED told
       ELSE /\ WriteReceipts(Append(Loaded,
                  [sequence |-> NextSequence(Loaded), id |-> e.key,
                   event |-> event, content |-> "none"]), ok)
            /\ told' = IF ok THEN told \cup {<<e.key, event>>} ELSE told
    /\ UNCHANGED events

\* The Kernel restarts: only the file is left.
RestartStore ==
    /\ loaded
    /\ loaded' = FALSE
    /\ memory' = <<>>
    /\ UNCHANGED <<events, file, told>>

NotificationInit ==
    /\ events = {}
    /\ memory = <<>>
    /\ loaded = FALSE
    /\ file = <<>>
    /\ told = {}

NotificationNext ==
    \/ \E t \in Triggers, o \in Observations : EvaluateTrigger(t, o)
    \/ \E e \in events, content \in Contents, ok \in BOOLEAN :
          Queue(e, content, ok)
    \/ \E e \in events, ok \in BOOLEAN :
          AppendState(e, "read", ok) \/ AppendState(e, "dismissed", ok)
    \/ RestartStore

NotificationSpec ==
    NotificationInit /\ [][NotificationNext]_notificationVars

----------------------------------------------------------------------------
\* One event reaches the user as one notification, whatever is retried after
\* a failed write or a restart, and receipts are strictly ordered (queue,
\* nextSequence).
OneNotificationPerEvent ==
    \A receipts \in {Loaded, file} :
        \A i, j \in DOMAIN receipts :
            /\ i < j => receipts[i].sequence < receipts[j].sequence
            /\ /\ receipts[i].id = receipts[j].id
               /\ receipts[i].event = receipts[j].event
               => i = j

\* What a caller was told after its own write - queued, read, dismissed -
\* is in the file, through later failures and restarts.
AcknowledgedIsDurable ==
    \A x \in told :
        \E r \in ToSet(file) : r.id = x[1] /\ r.event = x[2]

\* A notification whose dismissal was acknowledged never comes back: later
\* receipts, failed writes and restarts leave it dismissed.
DismissedStaysDismissed ==
    \A x \in told : x[2] = "dismissed" => View(file, x[1]) = "dismissed"

\* Notifications hold: one per event, durable once acknowledged, and gone for
\* good once dismissed.
NotificationsHold ==
    OneNotificationPerEvent /\ AcknowledgedIsDurable /\ DismissedStaysDismissed
=============================================================================
