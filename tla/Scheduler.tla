------------------------------ MODULE Scheduler ------------------------------
(***************************************************************************)
(* The Kernel's scheduler (packages/kernel/src/scheduler): schedules bound *)
(* to one plan revision, and claims that let a poller run the latest due   *)
(* occurrence of each at most once.                                        *)
(*                                                                         *)
(* Time is a number of ticks; a day has TicksPerDay of them and a week     *)
(* DaysPerWeek days, so that the UTC arithmetic of the code keeps its      *)
(* shape on small numbers.  A poller reads the clock before its            *)
(* transaction, as claimDue does.                                          *)
(***************************************************************************)
EXTENDS Integers, FiniteSets

CONSTANTS
    Schedules,      \* schedule ids, numbers (localeCompare orders them)
    ScheduleSpecs,  \* per id: the definitions its owner may register, as records
    TicksPerDay,
    DaysPerWeek,
    Pollers,
    Limits,         \* the limits pollers pass to claimDue
    MaxLimit,       \* the code's 100
    Horizon         \* bound: the last tick

\* Instants count from the epoch; the rest of a schedule is validated when it
\* is registered.
ASSUME SchedulerTimes ==
    /\ TicksPerDay \in Nat \ {0} /\ DaysPerWeek \in Nat \ {0} /\ Horizon \in Nat
    /\ \A id \in Schedules : \A s \in ScheduleSpecs[id] : s.start \in Nat

VARIABLES
    clock,
    schedules,      \* SchedulerStore.schedules: id -> definition
    claims,         \* SchedulerStore.claims
    polling         \* poller -> the clock it read, or Unread

schedulerVars == <<clock, schedules, claims, polling>>

Unread == -1
NotDue == -1

----------------------------------------------------------------------------
\* validateSchedule: the kind's own fields must be present and in range.
ValidSchedule(s) ==
    /\ s.kind \in {"once", "interval", "daily", "weekly"}
    /\ s.kind = "interval" => s.interval \in Nat /\ s.interval >= 1
    /\ s.kind \in {"daily", "weekly"} => s.timeOfDay \in 0..(TicksPerDay - 1)
    /\ s.kind = "weekly" => s.dayOfWeek \in 0..(DaysPerWeek - 1)

DayOfWeek(t) == (t \div TicksPerDay) % DaysPerWeek

\* The time of day on the current day.
Today(s, now) == (now \div TicksPerDay) * TicksPerDay + s.timeOfDay

DaysSince(s, now) ==
    (DayOfWeek(now) - s.dayOfWeek + DaysPerWeek) % DaysPerWeek

\* Days back to the last occurrence of a weekly schedule: a whole week when
\* today is the day and the hour is still ahead.
WeeklyDelta(s, now) ==
    IF DaysSince(s, now) = 0 /\ Today(s, now) > now THEN DaysPerWeek
    ELSE DaysSince(s, now)

\* latestDueAt.
LatestDueAt(s, now) ==
    LET today == Today(s, now)
        candidate ==
            CASE s.kind = "once" -> s.start
              [] s.kind = "interval" ->
                   s.start + ((now - s.start) \div s.interval) * s.interval
              [] s.kind = "daily" ->
                   IF today > now THEN today - TicksPerDay ELSE today
              [] s.kind = "weekly" ->
                   today - WeeklyDelta(s, now) * TicksPerDay
    IN  IF s.start > now \/ candidate < s.start THEN NotDue ELSE candidate

\* Every instant a schedule names, without the code's arithmetic.
Occurrences(s) ==
    {t \in s.start..Horizon :
        CASE s.kind = "once" -> t = s.start
          [] s.kind = "interval" -> (t - s.start) % s.interval = 0
          [] s.kind = "daily" -> t % TicksPerDay = s.timeOfDay
          [] s.kind = "weekly" -> /\ t % TicksPerDay = s.timeOfDay
                                  /\ DayOfWeek(t) = s.dayOfWeek}

\* The claim of an occurrence; its idempotency key is schedule and instant.
RunClaim(id, due, now) ==
    [schedule |-> id, due |-> due, claimedAt |-> now, status |-> "claimed"]

\* Nothing is claimed while an earlier claim is still open.
DueWhenNothingRuns(now) ==
    {id \in DOMAIN schedules :
        /\ schedules[id].enabled
        /\ LatestDueAt(schedules[id], now) # NotDue
        /\ ~ \E c \in claims :
              \/ c.status = "claimed"
              \/ /\ c.schedule = id
                 /\ c.due = LatestDueAt(schedules[id], now)}

\* claimDue, inside its transaction: enabled schedules with a due occurrence
\* nobody claimed, oldest first, at most the bounded limit.
Due(now) ==
    {id \in DOMAIN schedules :
        /\ schedules[id].enabled
        /\ LatestDueAt(schedules[id], now) # NotDue
        /\ ~ \E c \in claims : /\ c.schedule = id
                               /\ c.due = LatestDueAt(schedules[id], now)}

\* The sort of claimDue: by due instant, then by schedule id.
Precedes(a, b, now) ==
    LET da == LatestDueAt(schedules[a], now)
        db == LatestDueAt(schedules[b], now)
    IN  da < db \/ (da = db /\ a < b)

BoundedLimit(limit) ==
    IF limit < 1 THEN 1 ELSE IF limit > MaxLimit THEN MaxLimit ELSE limit

----------------------------------------------------------------------------
\* SchedulerEngine.register: validated, and an id only once.
Register(id, s) ==
    /\ ValidSchedule(s)
    /\ id \notin DOMAIN schedules
    /\ schedules' = [x \in DOMAIN schedules \cup {id} |->
                        IF x = id THEN s ELSE schedules[x]]
    /\ UNCHANGED <<clock, claims, polling>>

\* claimDue reads the clock...
ReadClock(p) ==
    /\ polling[p] = Unread
    /\ polling' = [polling EXCEPT ![p] = clock]
    /\ UNCHANGED <<clock, schedules, claims>>

\* ... and claims in a later transaction.
ClaimDue(p, limit) ==
    /\ polling[p] # Unread
    /\ LET now   == polling[p]
           due   == Due(now)
           taken == {id \in due :
                        Cardinality({x \in due : Precedes(x, id, now)})
                            < BoundedLimit(limit)}
       IN  claims' = claims \cup
              {RunClaim(id, LatestDueAt(schedules[id], now), now) : id \in taken}
    /\ polling' = [polling EXCEPT ![p] = Unread]
    /\ UNCHANGED <<clock, schedules>>

\* markTerminal: a settled claim is returned as it is.
MarkTerminal(c, status) ==
    /\ c \in claims
    /\ c.status = "claimed"
    /\ claims' = (claims \ {c}) \cup {[c EXCEPT !.status = status]}
    /\ UNCHANGED <<clock, schedules, polling>>

ClockAdvances ==
    /\ clock < Horizon
    /\ clock' = clock + 1
    /\ UNCHANGED <<schedules, claims, polling>>

SchedulerInit ==
    /\ clock = 0
    /\ schedules = [x \in {} |-> 0]
    /\ claims = {}
    /\ polling = [p \in Pollers |-> Unread]

SchedulerNext ==
    \/ ClockAdvances
    \/ \E id \in Schedules : \E s \in ScheduleSpecs[id] : Register(id, s)
    \/ \E p \in Pollers : ReadClock(p) \/ \E n \in Limits : ClaimDue(p, n)
    \/ \E c \in claims, status \in {"completed", "failed"} :
          MarkTerminal(c, status)

----------------------------------------------------------------------------
\* However many pollers race, with clocks read at different moments and
\* limits that leave work behind, no occurrence of a schedule is claimed
\* twice (the idempotency key of a run).
OccurrenceClaimedOnce ==
    \A c, d \in claims : c.schedule = d.schedule /\ c.due = d.due => c = d

\* What is claimed is the most recent instant the schedule names at the
\* poller's clock: missed occurrences are skipped, none is invented, and
\* none from before the schedule's start (latestDueAt against the calendar).
ClaimsFollowCalendar ==
    \A c \in claims :
        LET past == {t \in Occurrences(schedules[c.schedule]) : t <= c.claimedAt}
        IN  c.due \in past /\ \A t \in past : t <= c.due

\* What every claim must be.
ClaimsAreRight == OccurrenceClaimedOnce /\ ClaimsFollowCalendar

\* A settled run is never settled again or reopened (markTerminal).
SettledClaimsFinal ==
    [][\A c \in claims : c.status # "claimed" => c \in claims']_schedulerVars

\* A one-time schedule that is enabled is claimed in the end, whatever the
\* limits leave behind, as long as pollers keep polling.
OnceIsClaimed ==
    \A id \in Schedules :
        (/\ id \in DOMAIN schedules
         /\ schedules[id].kind = "once"
         /\ schedules[id].enabled
         /\ schedules[id].start <= Horizon)
            ~> (\E c \in claims : c.schedule = id)

\* Pollers are timers: each keeps reading the clock and claiming, and time
\* passes.
SchedulerFairness ==
    /\ WF_schedulerVars(ClockAdvances)
    /\ \A p \in Pollers :
          /\ WF_schedulerVars(ReadClock(p))
          /\ WF_schedulerVars(\E n \in Limits : ClaimDue(p, n))

SchedulerSpec ==
    SchedulerInit /\ [][SchedulerNext]_schedulerVars /\ SchedulerFairness

\* The schedule is kept: every claim is of an occurrence the calendar names,
\* once, stays settled, and a one-time schedule gets its claim.
ScheduleIsKept ==
    []ClaimsAreRight /\ SettledClaimsFinal /\ OnceIsClaimed
=============================================================================
