------------------------------- MODULE Launcher -------------------------------
(***************************************************************************)
(* The launcher (scripts/efesto-launcher-core.mjs) and the processes it    *)
(* manages: it inspects the port, the pid record and the running Kernel's  *)
(* own bootstrap status (efesto-bootstrap.mjs, efesto-bootstrap-status     *)
(* .mjs), and starts, replaces or stops a Kernel accordingly.  Commands    *)
(* overlap: a login start, a user's repair and a shutdown are processes of *)
(* their own that share the record file and the port.                      *)
(*                                                                         *)
(* The one-click Kernel boots in two steps: it certifies Hermes and opens  *)
(* the data directory through its internal Kernel, then binds the port; a  *)
(* Kernel that finds the port taken ends.  Process ids are reused by other *)
(* programs, though not in the instant between a launcher's look at a      *)
(* process and its signal.                                                 *)
(***************************************************************************)
EXTENDS Naturals, FiniteSets

CONSTANTS
    Pids,           \* process ids
    Launchers,      \* launcher processes
    MaxStarts,      \* bound: Kernels started
    MaxChanges      \* bound: things that happen to the machine (pid reuse, crash, Hermes installed, pairing)

VARIABLES
    process,        \* per pid: kind, the nonce on its command line, phase, certified
    portHolder,     \* the pid that listens on the Kernel port
    pidFile,        \* efesto-launcher-process.json
    hermesWorks,    \* Hermes passes the read-only probe now
    paired,         \* the extension registry has an entry
    pairingOptional,\* EFESTO_PAIRING_OPTIONAL
    launcher,       \* per launcher: command, place, what it saw, whom it stopped
    starts, changes

launcherVars == <<process, portHolder, pidFile, hermesWorks, paired, pairingOptional, launcher, starts, changes>>
machine == <<process, portHolder, starts, changes, hermesWorks, paired, pairingOptional>>

NoPid == 0
NoRecord == [pid |-> NoPid, nonce |-> 0]
NoProcess == [kind |-> "none", nonce |-> 0, phase |-> "none", certified |-> FALSE]
Idle == [command |-> "none", at |-> "idle", kernel |-> "offline", hermes |-> FALSE,
         pid |-> NoPid, verified |-> FALSE, stopped |-> 0, round |-> 0]

ASSUME LauncherAssumption == NoPid \notin Pids

-----------------------------------------------------------------------------
(* The probes.                                                             *)

alive(p) == p \in Pids /\ process[p].kind # "none"
\* Mutant: any live process under the recorded pid.
verifyProcessIdentity_aliveOnly(record) == alive(record.pid)
\* The command line holds the record's nonce.
verifyProcessIdentity(record) == alive(record.pid) /\ process[record.pid].kind = "kernel" /\ process[record.pid].nonce = record.nonce

probeKernel == IF portHolder = NoPid THEN "closed" ELSE process[portHolder].kind

deriveKernelStatus ==
    CASE probeKernel = "kernel" -> "ready"
      [] probeKernel = "other" -> "port_conflict"
      [] probeKernel = "closed" /\ pidFile # NoRecord -> "stale"
      [] OTHER -> "offline"

\* A ready Kernel's own report of Hermes, settled when it started, wins over the presence probe.
readRunningKernelBootstrap == IF probeKernel = "kernel" THEN process[portHolder].certified ELSE hermesWorks

inspect(l, at) ==
    [launcher[l] EXCEPT !.at = at, !.kernel = deriveKernelStatus, !.hermes = readRunningKernelBootstrap,
                        !.pid = pidFile.pid, !.verified = verifyProcessIdentity(pidFile)]

-----------------------------------------------------------------------------

LauncherInit ==
    /\ process = [p \in Pids |-> NoProcess] /\ portHolder = NoPid /\ pidFile = NoRecord
    /\ hermesWorks \in BOOLEAN /\ paired \in BOOLEAN /\ pairingOptional \in BOOLEAN
    /\ launcher = [l \in Launchers |-> Idle] /\ starts = 0 /\ changes = 0

Step(l, rec) == launcher' = [launcher EXCEPT ![l] = rec]
Ends(l) == Step(l, Idle)

\* A command starts with an inspection.
Begin(l, command) ==
    /\ launcher[l].at = "idle"
    /\ Step(l, [inspect(l, "looked") EXCEPT !.command = command, !.round = 1])
    /\ UNCHANGED <<machine, pidFile>>

\* What the first look, and the looks after a restart, let repairEfestoLauncher do.
Required == ~paired /\ ~pairingOptional
Recertifies(v) == v.round = 1 /\ v.kernel = "ready" /\ (paired \/ pairingOptional) /\ ~v.hermes
RePairs(v) == v.round < 3 /\ v.kernel = "ready" /\ Required
MayReplace(v) == v.verified
Leaves(v) ==
    CASE v.command = "shutdown" -> ~v.verified
      [] v.command = "autostart" -> v.kernel \in {"ready", "port_conflict"}
      [] OTHER -> \/ v.kernel = "port_conflict"
                  \/ v.round = 1 /\ v.kernel = "ready" /\ (paired \/ pairingOptional) /\ v.hermes
                  \/ (Recertifies(v) \/ RePairs(v)) /\ ~MayReplace(v)
Replaces(v) == v.command = "repair" /\ (Recertifies(v) \/ RePairs(v)) /\ MayReplace(v)

\* The look ends the command: nothing to do, or nothing it may touch.
Leave(l) ==
    /\ launcher[l].at = "looked" /\ Leaves(launcher[l])
    /\ Ends(l) /\ UNCHANGED <<machine, pidFile>>

\* stopLauncherProcessTree signals the process and the record goes; a process already gone fails the stop.
StopOwned(l) ==
    LET v == launcher[l]
    IN /\ v.at = "looked" /\ (Replaces(v) \/ (v.command = "shutdown" /\ v.verified))
       /\ IF alive(v.pid)
          THEN /\ process' = [process EXCEPT ![v.pid].phase = "stopping"]
               /\ pidFile' = NoRecord
               /\ IF v.command = "shutdown" THEN Ends(l)
                  ELSE Step(l, [Idle EXCEPT !.command = v.command, !.at = "stopping", !.stopped = process[v.pid].nonce,
                                            !.round = IF Recertifies(v) THEN 2 ELSE 3])
          ELSE Ends(l) /\ UNCHANGED <<process, pidFile>>
       /\ UNCHANGED <<portHolder, starts, changes, hermesWorks, paired, pairingOptional>>

\* Polls until no Kernel is ready, then looks again; at the deadline a Kernel that still answers ends the command.
WaitForStopped(l) ==
    /\ launcher[l].at = "stopping"
    /\ IF deriveKernelStatus = "ready" THEN Ends(l) ELSE Step(l, [launcher[l] EXCEPT !.at = "stopped"])
    /\ UNCHANGED <<machine, pidFile>>
LookAgain(l) ==
    /\ launcher[l].at = "stopped" /\ Step(l, inspect(l, "looked"))
    /\ UNCHANGED <<machine, pidFile>>

\* Everything else starts a Kernel, a stale record removed first; the record of the new one is written after.
StartKernel(l) ==
    LET v == launcher[l]
    IN /\ v.at = "looked" /\ v.command # "shutdown" /\ ~Leaves(v) /\ ~Replaces(v)
       /\ starts < MaxStarts /\ starts' = starts + 1
       /\ \E p \in Pids :
            /\ ~alive(p)
            /\ process' = [process EXCEPT ![p] = [kind |-> "kernel", nonce |-> starts + 1, phase |-> "booting", certified |-> FALSE]]
            /\ Step(l, [Idle EXCEPT !.at = "started", !.pid = p])
       /\ pidFile' = IF v.kernel = "stale" THEN NoRecord ELSE pidFile
       /\ UNCHANGED <<portHolder, changes, hermesWorks, paired, pairingOptional>>
WriteRecord(l) ==
    /\ launcher[l].at = "started"
    /\ pidFile' = [pid |-> launcher[l].pid, nonce |-> process[launcher[l].pid].nonce]
    /\ Step(l, [Idle EXCEPT !.at = "waiting"])
    /\ UNCHANGED machine
\* Returns when a Kernel answers, another service does, or at the deadline.
WaitForReady(l) == launcher[l].at = "waiting" /\ Ends(l) /\ UNCHANGED <<machine, pidFile>>

\* The launcher's window is closed.
LauncherKilled(l) ==
    /\ launcher[l].at # "idle" /\ changes < MaxChanges /\ changes' = changes + 1
    /\ Ends(l)
    /\ UNCHANGED <<process, portHolder, pidFile, hermesWorks, paired, pairingOptional, starts>>

-----------------------------------------------------------------------------
(* The Kernel's processes and the machine.                                 *)

Gone(p) ==
    /\ process' = [process EXCEPT ![p] = NoProcess]
    /\ portHolder' = IF portHolder = p THEN NoPid ELSE portHolder

\* Hermes is probed, the internal Kernel started over the data directory and interrupted Missions recovered.
Boot(p) ==
    /\ process[p].phase = "booting"
    /\ process' = [process EXCEPT ![p].phase = "opened", ![p].certified = hermesWorks]
    /\ UNCHANGED <<portHolder, pidFile, launcher, starts, changes, hermesWorks, paired, pairingOptional>>
\* The proxy binds the port, or ends with the port taken.
Listen(p) ==
    /\ process[p].phase = "opened"
    /\ IF portHolder = NoPid
       THEN process' = [process EXCEPT ![p].phase = "serving"] /\ portHolder' = p
       ELSE Gone(p)
    /\ UNCHANGED <<pidFile, launcher, starts, changes, hermesWorks, paired, pairingOptional>>
\* A signalled Kernel closes its port and exits.
Exit(p) ==
    /\ process[p].phase = "stopping" /\ Gone(p)
    /\ UNCHANGED <<pidFile, launcher, starts, changes, hermesWorks, paired, pairingOptional>>

Changes == changes < MaxChanges /\ changes' = changes + 1
Crash(p) ==
    /\ alive(p) /\ Changes /\ Gone(p)
    /\ UNCHANGED <<pidFile, launcher, starts, hermesWorks, paired, pairingOptional>>
\* Another program gets the pid, perhaps one that takes the port.
PidReused(p) ==
    /\ ~alive(p) /\ ~\E l \in Launchers : launcher[l].at = "looked" /\ launcher[l].pid = p
    /\ Changes
    /\ process' = [process EXCEPT ![p] = [NoProcess EXCEPT !.kind = "other"]]
    /\ portHolder' \in {portHolder} \cup (IF portHolder = NoPid THEN {p} ELSE {})
    /\ UNCHANGED <<pidFile, launcher, starts, hermesWorks, paired, pairingOptional>>
HermesChanges ==
    /\ Changes /\ hermesWorks' = ~hermesWorks
    /\ UNCHANGED <<process, portHolder, pidFile, launcher, starts, paired, pairingOptional>>
Pair ==
    /\ ~paired /\ probeKernel = "kernel" /\ Changes /\ paired' = TRUE
    /\ UNCHANGED <<process, portHolder, pidFile, launcher, starts, hermesWorks, pairingOptional>>

LauncherNext ==
    \/ \E l \in Launchers :
        \/ \E command \in {"repair", "autostart", "shutdown"} : Begin(l, command)
        \/ Leave(l) \/ StopOwned(l) \/ WaitForStopped(l) \/ LookAgain(l)
        \/ StartKernel(l) \/ WriteRecord(l) \/ WaitForReady(l) \/ LauncherKilled(l)
    \/ \E p \in Pids : Boot(p) \/ Listen(p) \/ Exit(p) \/ Crash(p) \/ PidReused(p)
    \/ HermesChanges
    \/ Pair

LauncherSpec == LauncherInit /\ [][LauncherNext]_launcherVars

-----------------------------------------------------------------------------

(* A process that is not a Kernel is never stopped, however often the      *)
(* recorded pid has changed hands since the record was written.            *)
ForeignIsNeverStopped ==
    [][\A p \in Pids : process[p].phase # "stopping" /\ process'[p].phase = "stopping" => process[p].kind = "kernel"]_launcherVars

(* A replacement is started only once the Kernel it replaces has left the  *)
(* port: a Kernel that does not stop in time keeps its place.              *)
ReplacedKernelIsGone ==
    [][\A l \in Launchers :
        launcher[l].at = "looked" /\ launcher'[l].at = "started" /\ launcher[l].stopped # 0 =>
            ~\E p \in Pids : process[p].nonce = launcher[l].stopped /\ portHolder = p]_launcherVars

(* The launcher stops nothing but a Kernel, and replaces one only when the *)
(* old one is gone.                                                        *)
LauncherIsSafe == ForeignIsNeverStopped /\ ReplacedKernelIsGone
===============================================================================
