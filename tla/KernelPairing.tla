---------------------------- MODULE KernelPairing ----------------------------
(* How a browser extension comes to speak to the Kernel: the private token
   file (api-token-store.mjs), created or rotated at start-up, one-use pairing
   codes (pairing-session.mjs) shown at start-up or minted by the dashboard,
   the registry of authorized extensions (extension-identity-registry.mjs) and
   the checks the server makes before any /api route.

   A token is its generation: 0 is no token. A code is the number of the
   session that was created with it. *)
EXTENDS Integers, FiniteSets

CONSTANTS
    Extensions,   \* extension identities
    MaxAttempts,  \* attempts per code (5 in the source)
    MaxMints,     \* codes minted per hour (20 in the source)
    MaxTokens,    \* bound: token generations
    MaxCodes,     \* bound: pairing sessions
    MaxWriteFaults     \* bound: failed registry writes

ASSUME PairingBounds == MaxAttempts \in Nat /\ MaxCodes \in Nat

VARIABLES
    tokenFile,     \* the generation in the token file
    kernel,        \* the process: "down", "rotated" (before clear), "up"
    token,         \* the token the process runs with
    registryFile, registry,  \* authorized identities, on disk and in memory
    session,       \* the active pairing session
    codes,         \* sessions created so far
    minted,        \* codes minted in the last hour
    pairing,       \* [Extensions -> the POST /pair being handled]
    held,          \* [Extensions -> the token kept in the browser]
    delivered,     \* history: [1..MaxCodes -> times the code gave a token]
    tried,         \* history: [1..MaxCodes -> codes compared with the session]
    writeFaults

processVars == <<kernel, token, registry, session, minted>>
pairingVars == <<tokenFile, kernel, token, registryFile, registry, session, codes,
                 minted, pairing, held, delivered, tried, writeFaults>>

NoSession == [code |-> 0, attempts |-> 0, used |-> FALSE, expired |-> FALSE]
NoCodeRequest == [pc |-> "none", code |-> 0]

\* ExtensionIdentityRegistry.allows: an empty registry lets everyone through.
Allows(e) == registry = {} \/ e \in registry

PairingInit ==
    /\ tokenFile = 0 /\ kernel = "down" /\ token = 0
    /\ registryFile = {} /\ registry = {}
    /\ session = NoSession /\ codes = 0 /\ minted = 0
    /\ pairing = [e \in Extensions |-> NoCodeRequest]
    /\ held = [e \in Extensions |-> 0]
    /\ delivered = [c \in 1..MaxCodes |-> 0] /\ tried = delivered /\ writeFaults = 0

\* new PairingSession, when a session is wanted and a code is left to model.
NewSession(wanted) ==
    IF wanted /\ codes < MaxCodes
    THEN /\ codes' = codes + 1
         /\ session' = [NoSession EXCEPT !.code = codes + 1]
    ELSE session' = NoSession /\ UNCHANGED codes

---------------------------------------------------------------------------
\* Start-up and stop.

\* loadOrCreateApiToken without rotation: the file's token, or a new one. A
\* session is offered for a new token, or when the environment asks for it.
Start ==
    /\ kernel = "down" /\ kernel' = "up"
    /\ tokenFile' = IF tokenFile = 0 THEN 1 ELSE tokenFile
    /\ token' = tokenFile'
    /\ registry' = registryFile
    /\ \E asked \in BOOLEAN : NewSession(asked \/ tokenFile = 0)
    /\ minted' = 0
    /\ UNCHANGED <<registryFile, pairing, held, delivered, tried, writeFaults>>

\* With rotation the file is replaced first, and the registry cleared after.
StartRotating ==
    /\ kernel = "down" /\ tokenFile < MaxTokens
    /\ kernel' = "rotated"
    /\ tokenFile' = tokenFile + 1 /\ token' = tokenFile'
    /\ registry' = registryFile /\ minted' = 0
    /\ NewSession(TRUE)
    /\ UNCHANGED <<registryFile, pairing, held, delivered, tried, writeFaults>>
ClearRegistry ==
    /\ kernel = "rotated" /\ kernel' = "up"
    /\ registryFile' = {} /\ registry' = {}
    /\ UNCHANGED <<tokenFile, token, session, codes, minted, pairing, held, delivered, tried, writeFaults>>

\* The process stops, at any moment; requests in progress are lost.
Stop ==
    /\ kernel # "down" /\ kernel' = "down" /\ token' = 0
    /\ registry' = {} /\ session' = NoSession /\ minted' = 0
    /\ pairing' = [e \in Extensions |-> NoCodeRequest]
    /\ UNCHANGED <<tokenFile, registryFile, codes, held, delivered, tried, writeFaults>>

---------------------------------------------------------------------------
\* Pairing.

\* POST /api/pairing/extension-code, by the dashboard's server, which reads the
\* token file. The new session replaces the active one.
Mint ==
    /\ kernel = "up" /\ minted < MaxMints /\ codes < MaxCodes
    /\ minted' = minted + 1
    /\ NewSession(TRUE)
    /\ UNCHANGED <<tokenFile, kernel, token, registryFile, registry, pairing, held,
                   delivered, tried, writeFaults>>
SessionExpires ==
    /\ session.code # 0 /\ ~session.expired
    /\ session' = [session EXCEPT !.expired = TRUE]
    /\ UNCHANGED <<tokenFile, kernel, token, registryFile, registry, codes, minted,
                   pairing, held, delivered, tried, writeFaults>>

\* POST /pair up to reading the body: a session must be active now. The code
\* may be the active one, an older one, or wrong (0).
SubmitCode(e) ==
    /\ kernel = "up" /\ session.code # 0 /\ pairing[e].pc = "none"
    /\ \E c \in 0..codes : pairing' = [pairing EXCEPT ![e] = [pc |-> "body", code |-> c]]
    /\ UNCHANGED <<tokenFile, processVars, registryFile, codes, held, delivered, tried, writeFaults>>

\* PairingSession.consume: every try counts, the right one uses the code up.
Usable(s) == ~s.used /\ ~s.expired /\ s.attempts < MaxAttempts
Consumed(s, code) == [s EXCEPT !.attempts = @ + 1, !.used = code = s.code]

\* The code is checked against the session that is active when the body has
\* been read, which may be a newer one than when the request came in.
ConsumeCode(e) ==
    /\ pairing[e].pc = "body"
    /\ LET c == pairing[e].code
           right == Usable(session) /\ c = session.code
       IN  /\ session' = IF Usable(session) THEN Consumed(session, c) ELSE session
           /\ pairing' = [pairing EXCEPT ![e] =
                             IF right THEN [pc |-> "authorize", code |-> c] ELSE NoCodeRequest]
           /\ delivered' = IF right THEN [delivered EXCEPT ![c] = @ + 1] ELSE delivered
           /\ tried' = IF Usable(session) THEN [tried EXCEPT ![session.code] = @ + 1] ELSE tried
    /\ UNCHANGED <<tokenFile, kernel, token, registryFile, registry, codes, minted,
                   held, writeFaults>>

\* mutant: the identity is only kept in memory
AuthorizeInMemory(e) ==
    /\ pairing[e].pc = "authorize"
    /\ registry' = registry \cup {e}
    /\ held' = [held EXCEPT ![e] = token]
    /\ pairing' = [pairing EXCEPT ![e] = NoCodeRequest]
    /\ UNCHANGED <<tokenFile, kernel, token, registryFile, session, codes, minted,
                   delivered, tried, writeFaults>>

\* registry.authorize writes the file before memory; only then does the browser
\* get the token. When the write fails the code is used up and no token is sent.
Authorize(e) ==
    /\ pairing[e].pc = "authorize"
    /\ \/ /\ registryFile' = registry \cup {e} /\ registry' = registry \cup {e}
          /\ held' = [held EXCEPT ![e] = token] /\ UNCHANGED writeFaults
       \/ /\ e \notin registry /\ writeFaults < MaxWriteFaults /\ writeFaults' = writeFaults + 1
          /\ UNCHANGED <<registryFile, registry, held>>
    /\ pairing' = [pairing EXCEPT ![e] = NoCodeRequest]
    /\ UNCHANGED <<tokenFile, kernel, token, session, codes, minted, delivered, tried>>

PairingNext ==
    \/ Start \/ StartRotating \/ ClearRegistry \/ Stop \/ Mint \/ SessionExpires
    \/ \E e \in Extensions : SubmitCode(e) \/ ConsumeCode(e) \/ Authorize(e)
PairingSpec == PairingInit /\ [][PairingNext]_pairingVars

---------------------------------------------------------------------------
(* A pairing code is worth one token, however requests, restarts and newly
   minted codes interleave. *)
CodeGivesOneToken == \A c \in 1..MaxCodes : delivered[c] <= 1

(* Guessing is bounded: the codes compared with one session never exceed
   MaxAttempts, also when several requests wait for their bodies at once. *)
GuessesAreBounded == \A c \in 1..MaxCodes : tried[c] <= MaxAttempts

(* An extension that paired is let through by the running Kernel as long as
   its token is the Kernel's: restarts, other extensions pairing, and a
   rotation interrupted half-way never lock it out. *)
PairedIsLetThrough ==
    \A e \in Extensions :
        kernel = "up" /\ held[e] = token => Allows(e)

(* Pairing as a whole: a code gives one token, guesses are bounded, and who has
   paired stays paired. *)
PairingIsSafe == CodeGivesOneToken /\ GuessesAreBounded /\ PairedIsLetThrough
=============================================================================
