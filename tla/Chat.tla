-------------------------------- MODULE Chat --------------------------------
(* Chat through the Kernel: the model provider registry, the conversation
   store and POST /api/chat/stream, which relays a model's answer piece by
   piece, creates the conversation when the first piece arrives, and stores the
   exchange once the answer is complete.

   Both stores serialise their mutations (read the file, change it, write it),
   so a mutation is one step. The model, the client and other requests move
   between any two awaits of a stream. *)
EXTENDS Integers, Sequences, FiniteSets

CONSTANTS
    Streams,           \* stream requests
    Managed,           \* provider ids configured by the environment
    UserProviders,     \* provider ids a user may save and delete
    MaxConversations,  \* MAX_CONVERSATIONS
    MaxMessages,       \* MAX_MESSAGES
    MaxPieces,         \* bound: pieces of one answer
    MaxResponse,       \* limit on the length of an answer, in pieces
    MaxEdits           \* bound: deletions and provider changes

VARIABLES
    persisted,      \* provider ids in the registry's file
    conversations,  \* the conversations, newest first, each [id, messages]
    stream,         \* [Streams -> the state of the request]
    events,         \* [Streams -> what the client was sent, in order]
    stored,         \* history: exchanges that were ever appended
    edits

chatVars == <<persisted, conversations, stream, events, stored, edits>>

\* MaxMessages is even in the source (100): an exchange is two messages.
ASSUME ChatBounds == /\ MaxConversations \in Nat \ {0} /\ MaxPieces \in Nat
                     /\ MaxMessages \in Nat \ {0} /\ MaxMessages % 2 = 0
                     /\ MaxResponse \in Nat

Providers == Managed \cup UserProviders
NoStream == [pc |-> "new", provider |-> "none", conversation |-> 0, pieces |-> 0,
             aborted |-> FALSE]
Exchange(s) == <<[role |-> "user", of |-> s], [role |-> "assistant", of |-> s]>>
Ids == {conversations[i].id : i \in DOMAIN conversations}

\* mergeProviders: a saved provider never replaces one of the environment.
Resolves(p) == p \in Managed \cup persisted

ChatInit ==
    /\ persisted = {} /\ conversations = <<>>
    /\ stream = [s \in Streams |-> NoStream]
    /\ events = [s \in Streams |-> <<>>]
    /\ stored = {} /\ edits = 0

Send(s, event) == events' = [events EXCEPT ![s] = @ \o event]
First(seq, n) == SubSeq(seq, 1, IF Len(seq) < n THEN Len(seq) ELSE n)
LastMessages(seq, n) == IF Len(seq) <= n THEN seq ELSE SubSeq(seq, Len(seq) - n + 1, Len(seq))

---------------------------------------------------------------------------
\* The registry.

Edit == edits < MaxEdits /\ edits' = edits + 1
SaveProvider ==
    /\ Edit /\ \E p \in Providers : persisted' = persisted \cup {p}
    /\ UNCHANGED <<conversations, stream, events, stored>>
RemoveProvider ==
    /\ Edit /\ \E p \in persisted \ Managed : persisted' = persisted \ {p}
    /\ UNCHANGED <<conversations, stream, events, stored>>

\* DELETE /api/chat/conversations/:id. The ids are random, so that one
\* conversation has it.
Without(seq, i) == SubSeq(seq, 1, i - 1) \o SubSeq(seq, i + 1, Len(seq))
RemoveConversation ==
    /\ Edit
    /\ \E i \in DOMAIN conversations : conversations' = Without(conversations, i)
    /\ UNCHANGED <<persisted, stream, events, stored>>

---------------------------------------------------------------------------
\* One stream request.

\* The conversation named in the request is looked up, then the provider and
\* its model; the head is sent before the provider is resolved.
Open(s) ==
    /\ stream[s].pc = "new"
    /\ \E p \in Providers, id \in Ids \cup {0} :
           LET head == IF id = 0 THEN <<"head">> ELSE <<"head", "conversation">>
           IN  IF Resolves(p)
               THEN /\ Send(s, head)
                    /\ stream' = [stream EXCEPT ![s] =
                           [NoStream EXCEPT !.pc = "reading", !.provider = p,
                                            !.conversation = id]]
               ELSE /\ Send(s, Append(head, "error"))
                    /\ stream' = [stream EXCEPT ![s].pc = "failed"]
    /\ UNCHANGED <<persisted, conversations, stored, edits>>

\* A request for a conversation that does not exist is answered with 404.
OpenMissing(s) ==
    /\ stream[s].pc = "new"
    /\ stream' = [stream EXCEPT ![s].pc = "failed"]
    /\ Send(s, <<"error">>)
    /\ UNCHANGED <<persisted, conversations, stored, edits>>

\* validateMessages or the choice of model fails once the head is out.
OpenRefused(s) ==
    /\ stream[s].pc = "new"
    /\ \E head \in {<<"head">>} \cup {<<"head", "conversation">> : id \in Ids} :
           Send(s, Append(head, "error"))
    /\ stream' = [stream EXCEPT ![s].pc = "failed"]
    /\ UNCHANGED <<persisted, conversations, stored, edits>>

Created(s) == First(<<[id |-> s, messages |-> <<>>]>> \o conversations, MaxConversations)

\* A piece of the answer: the first one creates the conversation.
Delta(s) ==
    /\ stream[s].pc = "reading" /\ ~stream[s].aborted
    /\ stream[s].pieces < MaxPieces
    /\ LET n == stream[s].pieces + 1
           fresh == stream[s].conversation = 0
       IN  IF n > MaxResponse
           THEN /\ stream' = [stream EXCEPT ![s].pc = "failed"]
                /\ Send(s, <<"error">>) /\ UNCHANGED conversations
           ELSE /\ stream' = [stream EXCEPT ![s].pieces = n,
                                 ![s].conversation = IF fresh THEN s ELSE @]
                /\ conversations' = IF fresh THEN Created(s) ELSE conversations
                /\ Send(s, IF fresh THEN <<"conversation", "delta">> ELSE <<"delta">>)
    /\ UNCHANGED <<persisted, stored, edits>>

\* The answer ends. An empty answer is an error of the provider.
AnswerEnds(s) ==
    /\ stream[s].pc = "reading" /\ ~stream[s].aborted
    /\ IF stream[s].pieces = 0
          THEN stream' = [stream EXCEPT ![s].pc = "failed"] /\ Send(s, <<"error">>)
          ELSE stream' = [stream EXCEPT ![s].pc = "append"] /\ UNCHANGED events
    /\ UNCHANGED <<persisted, conversations, stored, edits>>

\* The provider fails or times out.
ProviderFails(s) ==
    /\ stream[s].pc = "reading" /\ ~stream[s].aborted
    /\ stream' = [stream EXCEPT ![s].pc = "failed"] /\ Send(s, <<"error">>)
    /\ UNCHANGED <<persisted, conversations, stored, edits>>

\* The client goes away; the model request is aborted, unless the answer is
\* already complete: then the exchange is still stored.
ClientLeaves(s) ==
    /\ stream[s].pc \in {"reading", "append", "finish"} /\ ~stream[s].aborted
    /\ stream' = [stream EXCEPT ![s].aborted = TRUE]
    /\ UNCHANGED <<persisted, conversations, events, stored, edits>>
Cancelled(s) ==
    /\ stream[s].pc = "reading" /\ stream[s].aborted
    /\ stream' = [stream EXCEPT ![s].pc = "failed"]
    /\ UNCHANGED <<persisted, conversations, events, stored, edits>>

Appended(c, s) == LastMessages(c.messages \o Exchange(s), MaxMessages)

\* mutant: a conversation that is gone is taken as stored
AppendExchangeLeniently(s) ==
    /\ stream[s].pc = "append"
    /\ stream' = [stream EXCEPT ![s].pc = "finish"]
    /\ LET id == stream[s].conversation
       IN  /\ conversations' = [i \in DOMAIN conversations |->
                  IF conversations[i].id = id
                     THEN [conversations[i] EXCEPT !.messages = Appended(conversations[i], s)]
                     ELSE conversations[i]]
           /\ stored' = IF id \in Ids THEN stored \cup {s} ELSE stored
    /\ UNCHANGED <<persisted, events, edits>>

\* conversations.appendExchange: the conversation may have been deleted, or
\* pushed out by newer ones, while the model was answering.
AppendExchange(s) ==
    /\ stream[s].pc = "append"
    /\ LET id == stream[s].conversation
       IN  IF id \in Ids
           THEN /\ conversations' = [i \in DOMAIN conversations |->
                       IF conversations[i].id = id
                          THEN [conversations[i] EXCEPT
                                  !.messages = Appended(conversations[i], s)]
                          ELSE conversations[i]]
                /\ stored' = stored \cup {s}
                /\ stream' = [stream EXCEPT ![s].pc = "finish"] /\ UNCHANGED events
           ELSE /\ stream' = [stream EXCEPT ![s].pc = "failed"]
                /\ Send(s, IF stream[s].aborted THEN <<>> ELSE <<"error">>)
                /\ UNCHANGED <<conversations, stored>>
    /\ UNCHANGED <<persisted, edits>>
\* appendExchange refuses: the messages held no question, or the file cannot be written.
AppendRefused(s) ==
    /\ stream[s].pc = "append"
    /\ stream' = [stream EXCEPT ![s].pc = "failed"]
    /\ Send(s, IF stream[s].aborted THEN <<>> ELSE <<"error">>)
    /\ UNCHANGED <<persisted, conversations, stored, edits>>
Finish(s) ==
    /\ stream[s].pc = "finish"
    /\ stream' = [stream EXCEPT ![s].pc = "done"]
    /\ Send(s, IF stream[s].aborted THEN <<>> ELSE <<"done">>)
    /\ UNCHANGED <<persisted, conversations, stored, edits>>

Relay(s) == Open(s) \/ OpenMissing(s) \/ OpenRefused(s) \/ Delta(s) \/ AnswerEnds(s) \/ ProviderFails(s)
            \/ ClientLeaves(s) \/ Cancelled(s) \/ AppendExchange(s) \/ AppendRefused(s)
            \/ Finish(s)
ChatNext ==
    \/ \E s \in Streams : Relay(s)
    \/ SaveProvider \/ RemoveProvider \/ RemoveConversation
ChatSpec == ChatInit /\ [][ChatNext]_chatVars

---------------------------------------------------------------------------
(* A client that is told "done" has its exchange in the store at that moment,
   whatever other streams, deletions and evictions happened meanwhile. *)
DoneMeansStored ==
    \A s \in Streams : (\E i \in DOMAIN events[s] : events[s][i] = "done") => s \in stored

(* Trimming a conversation to its newest messages never separates a question
   from its answer: every question is followed by its own answer. *)
ExchangesStayWhole ==
    \A i \in DOMAIN conversations :
        LET m == conversations[i].messages
        IN  \A j \in DOMAIN m :
                IF j % 2 = 1 THEN m[j].role = "user" /\ j + 1 \in DOMAIN m
                                  /\ m[j + 1] = [role |-> "assistant", of |-> m[j].of]
                             ELSE m[j].role = "assistant"

(* What the chat owes its client: an exchange called done is stored, and no
   stored exchange is ever torn apart. *)
ChatIsKept == DoneMeansStored /\ ExchangesStayWhole
=============================================================================
