------------------------------ MODULE SharedStore ------------------------------
(***************************************************************************)
(* One file, store.json in the data directory, and three programs: the     *)
(* Kernel (capture-projector.mjs, LocalKnowledgeStore), the command line   *)
(* (scripts/hephaestus.mjs) and the MCP server (mcp-server.mjs), which has *)
(* a LocalKnowledgeStore of its own.  Each reads the whole file and writes *)
(* the whole file back through a temporary file and a rename.              *)
(*                                                                         *)
(* The file holds a set of records: Cases, Evidence of a Case, Goals, and  *)
(* Missions of a Goal.  A temporary file is an inode: writing one that     *)
(* exists truncates it, and a rename moves the inode, whole or not.        *)
(***************************************************************************)
EXTENDS Integers, FiniteSets, Sequences

CONSTANTS
    Clis,           \* command line invocations
    MaxRecords,     \* bound: record ids
    MaxCommands     \* bound: commands run in all

VARIABLES
    inodes,         \* contents by inode: a set of records, or torn while being written
    store,          \* the inode of store.json, 0 when there is none
    temporary,      \* the inode of the command line's store.json.tmp, 0 when there is none
    server,         \* the transaction at the head of the Kernel's queue: idle, or the contents to write
    cli,            \* per invocation: step, command, what it read, the inode it writes
    mcp,            \* the MCP server's last answer to list_missions
    lastId, ran     \* ids given and commands run so far

fileVars == <<inodes, store, temporary, server, cli, mcp, lastId, ran>>

Torn == [whole |-> FALSE, records |-> {}]
Whole(records) == [whole |-> TRUE, records |-> records]
Rec(kind, id, of) == [kind |-> kind, id |-> id, of |-> of, leased |-> FALSE]
Commands == {"case", "evidence", "ingest", "list", "export"}
IdleCli == [step |-> "idle", records |-> {}]
NoCommand == [step |-> "off", command |-> "list", read |-> {}, inode |-> 0]

StoreInit ==
    /\ inodes = <<>> /\ store = 0 /\ temporary = 0 /\ server = IdleCli
    /\ cli = [c \in Clis |-> NoCommand] /\ mcp = "none" /\ lastId = 0 /\ ran = 0

Parses == IF store = 0 THEN TRUE ELSE inodes[store].whole
Contents == IF store = 0 THEN {} ELSE inodes[store].records
RecordIdsIn(records, kind) == {r.id : r \in {x \in records : x.kind = kind}}

-----------------------------------------------------------------------------
(* The Kernel.  project reads, applies the mutator and, when it changed    *)
(* something, writes a temporary file of its own and renames it.           *)

\* The mutators: a capture, a Goal, a Mission of a stored Goal, a claim of a Mission and its end.
Mutated(records, id) ==
    {records \cup {Rec("case", id, 0), Rec("evidence", id, id)}, records \cup {Rec("goal", id, 0)}}
    \cup {records \cup {Rec("mission", id, g)} : g \in RecordIdsIn(records, "goal")}
    \cup {(records \ {m}) \cup {[m EXCEPT !.leased = ~@]} : m \in {x \in records : x.kind = "mission"}}
ProjectRead ==
    /\ server.step = "idle" /\ Parses /\ lastId < MaxRecords
    /\ lastId' = lastId + 1
    /\ \E after \in Mutated(Contents, lastId') : server' = [step |-> "write", records |-> after]
    /\ UNCHANGED <<inodes, store, temporary, cli, mcp, ran>>
ProjectWrite ==
    /\ server.step = "write" /\ server' = IdleCli
    /\ inodes' = Append(inodes, Whole(server.records)) /\ store' = Len(inodes')
    /\ UNCHANGED <<temporary, cli, mcp, lastId, ran>>

-----------------------------------------------------------------------------
(* The command line.                                                       *)

\* JsonStore.read keeps the Cases and the Evidence; a file it cannot parse ends the command.
Kept(records) == {r \in records : r.kind \in {"case", "evidence"}}
CliRead(c, command) ==
    /\ cli[c].step = "off" /\ ran < MaxCommands /\ ran' = ran + 1
    /\ cli' = [cli EXCEPT ![c] = IF Parses THEN [step |-> "command", command |-> command, read |-> Kept(Contents), inode |-> 0] ELSE @]
    /\ UNCHANGED <<inodes, store, temporary, server, mcp, lastId>>

\* requireCase: Evidence is added to a Case of the data that was read.
CaseFor(records) == RecordIdsIn(records, "case")
\* fetchPublicPage, for ingest: minutes may pass, and it may fail.
Fetched(c, ok) ==
    /\ cli[c].step = "command" /\ cli[c].command = "ingest" /\ CaseFor(cli[c].read) # {}
    /\ cli' = [cli EXCEPT ![c] = IF ok THEN [@ EXCEPT !.command = "evidence"] ELSE NoCommand]
    /\ UNCHANGED <<inodes, store, temporary, server, mcp, lastId, ran>>
\* case create, evidence add.
Added(c) ==
    /\ cli[c].step = "command" /\ cli[c].command \in {"case", "evidence"} /\ lastId < MaxRecords
    /\ lastId' = lastId + 1
    /\ \E r \in IF cli[c].command = "case" THEN {Rec("case", lastId', 0)}
                ELSE {Rec("evidence", lastId', of) : of \in CaseFor(cli[c].read)} :
        cli' = [cli EXCEPT ![c].step = "open", ![c].read = @ \cup {r}]
    /\ UNCHANGED <<inodes, store, temporary, server, mcp, ran>>
\* Commands that only print or write notes elsewhere, and those that miss their Case.
Printed(c) ==
    /\ cli[c].step = "command"
    /\ \/ cli[c].command \in {"list", "export"}
       \/ cli[c].command # "case" /\ CaseFor(cli[c].read) = {}
    /\ cli' = [cli EXCEPT ![c] = NoCommand]
    /\ UNCHANGED <<inodes, store, temporary, server, mcp, lastId, ran>>

\* JsonStore.write: open (and truncate) the temporary file, fill it, rename it.
OpenTemporary(c) ==
    /\ cli[c].step = "open"
    /\ IF temporary = 0 THEN inodes' = Append(inodes, Torn) /\ temporary' = Len(inodes')
       ELSE inodes' = [inodes EXCEPT ![temporary] = Torn] /\ UNCHANGED temporary
    /\ cli' = [cli EXCEPT ![c].step = "fill", ![c].inode = temporary']
    /\ UNCHANGED <<store, server, mcp, lastId, ran>>
FillTemporary(c) ==
    /\ cli[c].step = "fill"
    /\ inodes' = [inodes EXCEPT ![cli[c].inode] = Whole(cli[c].read)]
    /\ cli' = [cli EXCEPT ![c].step = "rename"]
    /\ UNCHANGED <<store, temporary, server, mcp, lastId, ran>>
\* The rename fails when another invocation has moved the temporary file away.
RenameTemporary(c) ==
    /\ cli[c].step = "rename" /\ cli' = [cli EXCEPT ![c] = NoCommand]
    /\ IF temporary = 0 THEN UNCHANGED <<store, temporary>> ELSE store' = temporary /\ temporary' = 0
    /\ UNCHANGED <<inodes, server, mcp, lastId, ran>>
\* Interrupted: the temporary file stays as it is.
Interrupt(c) ==
    /\ cli[c].step # "off" /\ cli' = [cli EXCEPT ![c] = NoCommand]
    /\ UNCHANGED <<inodes, store, temporary, server, mcp, lastId, ran>>

-----------------------------------------------------------------------------
(* The MCP server.  list_missions runs the Kernel's list, which reconciles *)
(* expired leases in a transaction.  The server's clock is a string, not a *)
(* Date: the reconciliation of a leased Mission throws before it writes.   *)

\* Mutant: with a Date, what has expired is written back by this process.
Reconciled_withDate(records) == [throws |-> FALSE, records |-> {[r EXCEPT !.leased = FALSE] : r \in records}]
Reconciled(records) == [throws |-> \E r \in records : r.kind = "mission" /\ r.leased, records |-> records]
ListMissions ==
    /\ mcp = "none" /\ Parses
    /\ LET outcome == Reconciled(Contents)
       IN /\ mcp' = IF outcome.throws THEN "error" ELSE "missions"
          /\ IF outcome.throws \/ outcome.records = Contents THEN UNCHANGED <<inodes, store>>
             ELSE inodes' = Append(inodes, Whole(outcome.records)) /\ store' = Len(inodes')
    /\ UNCHANGED <<temporary, server, cli, lastId, ran>>
\* The other tools read; the client asks again.
OtherTool == mcp # "none" /\ mcp' = "none" /\ UNCHANGED <<inodes, store, temporary, server, cli, lastId, ran>>

StoreNext ==
    \/ ProjectRead \/ ProjectWrite \/ ListMissions \/ OtherTool
    \/ \E c \in Clis : \/ \E command \in Commands : CliRead(c, command)
                       \/ \E ok \in BOOLEAN : Fetched(c, ok)
                       \/ Added(c) \/ Printed(c) \/ OpenTemporary(c) \/ FillTemporary(c) \/ RenameTemporary(c) \/ Interrupt(c)
StoreSpec == StoreInit /\ [][StoreNext]_fileVars

-----------------------------------------------------------------------------

(* store.json is whole at every moment, also when a command is interrupted *)
(* half-way, with one command at a time.                                   *)
StoreIsWhole == Parses

(* The store has no dangling reference, though programs overwrite each     *)
(* other's work: Evidence has its Case and a Mission has its Goal.         *)
StoreIsClosed ==
    /\ \A r \in Contents : r.kind = "evidence" => r.of \in RecordIdsIn(Contents, "case")
    /\ \A r \in Contents : r.kind = "mission" => r.of \in RecordIdsIn(Contents, "goal")

(* The MCP server is read-only: answering a question never changes the     *)
(* file, whatever the Missions in it.                                      *)
McpIsReadOnly == [][mcp' # mcp => UNCHANGED <<inodes, store>>]_fileVars

(* Goals and Missions the Kernel has stored stay stored: programs that     *)
(* share the file keep what they do not know.                              *)
SharedFileKeepsRecords ==
    [][\A r \in Contents : r.kind = "goal" => \E x \in Contents' : x.kind = "goal" /\ x.id = r.id]_fileVars

(* The file as a whole: readable at every moment, without dangling         *)
(* references, and untouched by who only reads.                            *)
StoreIsSound == [](StoreIsWhole /\ StoreIsClosed) /\ McpIsReadOnly
==============================================================================
