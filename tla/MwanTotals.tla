------------------------------ MODULE MwanTotals ------------------------------
(***************************************************************************)
(* The MWAN3 online ratio (coordinator/network.py) of one interface: how   *)
(* long the line was down since the router booted, reconstructed from the  *)
(* counters that mwan3track keeps on the router.                           *)
(*                                                                         *)
(* The router tells only how long the CURRENT state has lasted.  What      *)
(* happened between two polls, across a restart of Home Assistant or after *)
(* a failed query has to be inferred, and the code promises to err low.    *)
(*                                                                         *)
(* Time is counted in ticks.  The router's counters and its uptime are of  *)
(* one instant here (the code reads them in one gather), interfaces are    *)
(* independent of each other, and the rounding of the boot time to the     *)
(* minute is left out.                                                     *)
(***************************************************************************)
EXTENDS Integers

CONSTANTS
    Tolerance,      \* _MWAN_SESSION_TOLERANCE, 5 s
    RebootMargin,   \* uptime may go back this far without a reboot, 10 s
    DriftMargin,    \* boot times closer than this are the same, 60 s
    EpochMargin,    \* ... and for the totals, 120 s
    SessionMargin,  \* a tracking session may be older than the router, 60 s
    MinDwell,       \* mwan3track keeps a state at least this long
    MinUp,          \* a router that was up for less may leave traces
    SampleAtChange, \* whether a poll can hit the very second of a change
    SaveMayFail,    \* whether the store can refuse a save
    MaxChanges,     \* bound: changes of the line between two samples
    MaxReboots,     \* bound: reboots of the router
    MaxRestarts,    \* bound: restarts of Home Assistant
    MaxTime         \* bound: ticks

MwanConstants ==
    /\ {Tolerance, RebootMargin, DriftMargin, EpochMargin, SessionMargin,
        MinDwell, MinUp, MaxChanges, MaxReboots, MaxRestarts, MaxTime}
            \subseteq Nat
    /\ MaxTime > 0
    /\ SampleAtChange \in BOOLEAN
    /\ SaveMayFail \in BOOLEAN
    \* mwan3track needs several checks to change a state, so that a spell
    \* hidden by the tolerance does not exist.
    /\ Tolerance < 2 * MinDwell

Never == -1     \* "not in the dictionary", "None"
NoSample == [uptime |-> Never, online |-> Never, offline |-> Never]

VARIABLES
    now,        \* the wall clock
    bootedAt,   \* when the router booted
    line,       \* mwan3track's state of the interface
    stamp,      \* the uptime at which that state began
    status,     \* data.mwan_status: the latest reply, or NoSample
    boot,       \* _boot_time
    lastUptime, \* _last_uptime
    totals,     \* the _mwan_* dictionaries of the interface
    sample,     \* _mwan_sample
    loaded,     \* _mwan_totals_loaded
    disk,       \* _mwan_store
    changes,    \* ghost: changes of the line since the last fresh sample
    reboots,    \* ghost: number of reboots
    restarts,   \* ghost: number of restarts
    down,       \* ghost: time offline since the window opened
    watched,    \* ghost: no change was missed since then
    fresh       \* ghost: the last step was an update with a sample of the state

router == <<now, bootedAt, line, stamp>>
memory == <<status, boot, lastUptime, totals, sample, loaded>>
vars == <<router, memory, disk, changes, reboots, restarts, down, watched, fresh>>

Uptime == now - bootedAt

Times == -MaxTime..MaxTime

Samples == [uptime : Times, online : Times, offline : Times]

NoTotals == [first |-> Never, total |-> 0, since |-> Never, lastUp |-> Never,
             start |-> Never, epoch |-> Never]

Totals == [first : Times, total : 0..MaxTime, since : Times, lastUp : Times,
           start : Times, epoch : Times]

TypeOK ==
    /\ now \in 0..MaxTime
    /\ bootedAt \in 0..now
    /\ line \in {"starting", "online", "offline"}
    /\ stamp \in 0..Uptime
    /\ status \in Samples
    /\ boot \in Times
    /\ lastUptime \in Times
    /\ totals \in Totals
    /\ sample \in Samples
    /\ loaded \in BOOLEAN
    /\ disk \in Totals
    /\ changes \in 0..MaxChanges
    /\ reboots \in 0..MaxReboots
    /\ restarts \in 0..MaxRestarts
    /\ down \in 0..MaxTime
    /\ watched \in BOOLEAN
    /\ fresh \in BOOLEAN

Init ==
    /\ now = 0
    /\ bootedAt = 0
    /\ line = "starting"
    /\ stamp = 0
    /\ status = NoSample
    /\ boot = Never
    /\ lastUptime = Never
    /\ totals = NoTotals
    /\ sample = NoSample
    /\ loaded = FALSE
    /\ disk = NoTotals
    /\ changes = 0
    /\ reboots = 0
    /\ restarts = 0
    /\ down = 0
    /\ watched = TRUE
    /\ fresh = FALSE

-----------------------------------------------------------------------------
(* The router. *)

Tick ==
    /\ now < MaxTime
    /\ now' = now + 1
    /\ down' = IF line = "offline" THEN down + 1 ELSE down
    /\ fresh' = FALSE
    /\ UNCHANGED <<bootedAt, line, stamp, memory, disk, changes, reboots, restarts,
                   watched>>

\* mwan3track commits a change and writes the uptime into one of its files.
LineChanges ==
    /\ changes < MaxChanges
    /\ line = "starting" \/ Uptime - stamp >= MinDwell
    /\ line' = IF line = "online" THEN "offline" ELSE "online"
    /\ stamp' = Uptime
    /\ changes' = changes + 1
    /\ watched' = (watched /\ changes = 0)
    /\ fresh' = FALSE
    /\ UNCHANGED <<now, bootedAt, memory, disk, reboots, restarts, down>>

Reboot ==
    /\ reboots < MaxReboots
    /\ now < MaxTime
    /\ now' = now + 1
    /\ bootedAt' = now'
    /\ line' = "starting"
    /\ stamp' = 0
    /\ reboots' = reboots + 1
    /\ changes' = 0
    /\ down' = 0
    /\ watched' = (watched /\ Uptime >= MinUp)
    /\ fresh' = FALSE
    /\ UNCHANGED <<memory, disk, restarts>>

\* ubus call mwan3 status
Reply ==
    [uptime  |-> Uptime,
     online  |-> IF line = "online" THEN Uptime - stamp ELSE 0,
     offline |-> IF line = "offline" THEN Uptime - stamp ELSE 0]

-----------------------------------------------------------------------------
(* One update of the totals. *)

Abs(x) == IF x < 0 THEN -x ELSE x
AtLeast0(x) == IF x < 0 THEN 0 ELSE x
Larger(x, y) == IF x < y THEN y ELSE x

\* _async_update_data: uptime went back, so the router rebooted.
Rebooted(u) == lastUptime # Never /\ u < lastUptime - RebootMargin

\* _async_update_data: the stabilised boot time.
BootTime(u) ==
    IF boot = Never \/ Rebooted(u) \/ Abs(bootedAt - boot) > DriftMargin
    THEN bootedAt
    ELSE boot

\* The first update of a run takes over the stored totals of this boot.
Load(b) ==
    IF ~loaded /\ disk.epoch # Never /\ Abs(disk.epoch - b) <= EpochMargin
    THEN disk
    ELSE totals

\* The totals belong to another boot.
MustReset(t, u, b) ==
    Rebooted(u) \/ (t.epoch # Never /\ Abs(b - t.epoch) > EpochMargin)

\* A reply of the previous boot, handed back by a failed query.
Dropped(s, u, reset) ==
    \/ s.uptime > u + SessionMargin
    \/ reset /\ s = sample

\* The uptime went backwards without a reboot being noticed.
Reanchor(t, u) ==
    IF t.first > u THEN [NoTotals EXCEPT !.lastUp = t.lastUp, !.epoch = t.epoch]
    ELSE t

\* Bug for the tests of the properties: an outage nobody saw is not counted.
CountOnlineIgnoringGaps(t, start) ==
    IF t.first = Never
    THEN [t EXCEPT !.first = start, !.start = start]
    ELSE IF t.since # Never
    THEN [t EXCEPT !.total = @ + AtLeast0(start - t.since),
                   !.since = Never, !.start = start]
    ELSE [t EXCEPT !.start = start]

\* Bug for the tests of the properties: an outage nobody saw is counted from
\* the start of the online spell before it.
CountOnlineFromSpellStart(t, start) ==
    IF t.first = Never
    THEN [t EXCEPT !.first = start, !.start = start]
    ELSE IF t.since # Never
    THEN [t EXCEPT !.total = @ + AtLeast0(start - t.since),
                   !.start = start]
    ELSE [t EXCEPT !.start = start]

\* The line is online since `start'.
CountOnline(t, start) ==
    IF t.first = Never                  \* the window opens
    THEN [t EXCEPT !.first = start, !.start = start]
    ELSE IF t.since # Never             \* an outage we saw is over
    THEN [t EXCEPT !.total = @ + AtLeast0(start - t.since),
                   !.since = Never, !.start = start]
    ELSE IF t.start = Never \/ start < t.start
    THEN [t EXCEPT !.start = start]
    ELSE IF start > t.start + Tolerance \* an outage we did not see
    THEN [t EXCEPT !.total = @ + AtLeast0(start - Larger(t.lastUp, t.start)),
                   !.start = start]
    ELSE t

\* The line is offline since `start'.
CountOffline(t, start) ==
    IF t.first = Never THEN t
    ELSE [t EXCEPT !.since = IF @ = Never \/ start < @ THEN start ELSE @]

Count(t, s, u) ==
    LET counted == IF s.online > 0 THEN CountOnline(t, u - s.online)
                   ELSE IF s.offline > 0 THEN CountOffline(t, u - s.offline)
                   ELSE t
    IN  [counted EXCEPT !.lastUp = u]

\* Whether there is anything to save: lastUp alone is not.
Changed(t) == [t EXCEPT !.lastUp = Never] # [totals EXCEPT !.lastUp = Never]

\* One update, with an answered (ok) or a failed query.  A failed query hands
\* back the previous reply.  saved: whether the store could be written.
Update(ok, saved) ==
    LET u == Uptime
        b == BootTime(u)
        s == IF ok THEN Reply ELSE status
        old == Load(b)
        reset == MustReset(old, u, b)
        base == [(IF reset THEN NoTotals ELSE old) EXCEPT !.epoch = b]
        drop == Dropped(s, u, reset)
        known == IF reset THEN NoSample ELSE sample
        isNew == ~drop /\ s # known
        anchored == IF drop THEN base ELSE Reanchor(base, u)
        new == IF isNew THEN Count(anchored, s, u) ELSE anchored
    IN  /\ u > 0
        /\ saved \/ SaveMayFail
        /\ ok => SampleAtChange \/ line = "starting" \/ u > stamp
        /\ s # NoSample
        /\ boot' = b
        /\ lastUptime' = u
        /\ loaded' = TRUE
        /\ totals' = new
        /\ status' = IF drop THEN NoSample ELSE s
        /\ sample' = IF drop THEN known ELSE s
        /\ disk' = IF saved /\ (reset \/ Changed(new)) THEN new ELSE disk
        /\ fresh' = (isNew /\ ok /\ u > stamp)
        /\ changes' = IF fresh' THEN 0 ELSE changes
        /\ LET opens == anchored.first = Never /\ new.first # Never
           IN  /\ down' = IF opens THEN 0 ELSE down
               /\ watched' = (watched \/ opens)
        /\ UNCHANGED <<router, reboots, restarts>>

\* No MWAN status at all (the very first query failed): only the boot time.
UpdateWithoutStatus ==
    /\ Uptime > 0
    /\ status = NoSample
    /\ boot' = BootTime(Uptime)
    /\ lastUptime' = Uptime
    /\ fresh' = FALSE
    /\ UNCHANGED <<router, status, totals, sample, loaded, disk, changes, reboots,
                   restarts, down, watched>>

\* Home Assistant restarts, or the entry is reloaded: only the store survives.
Restart ==
    /\ restarts < MaxRestarts
    /\ restarts' = restarts + 1
    /\ status' = NoSample
    /\ boot' = Never
    /\ lastUptime' = Never
    /\ totals' = NoTotals
    /\ sample' = NoSample
    /\ loaded' = FALSE
    /\ fresh' = FALSE
    /\ UNCHANGED <<router, disk, changes, reboots, down, watched>>

Next ==
    \/ Tick
    \/ LineChanges
    \/ Reboot
    \/ \E ok, saved \in BOOLEAN : Update(ok, saved)
    \/ UpdateWithoutStatus
    \/ Restart

Spec == Init /\ [][Next]_vars

-----------------------------------------------------------------------------
(* Properties. *)

\* The outage the published ratio counts.
Outage(t, u) == t.total + (IF t.since = Never THEN 0 ELSE AtLeast0(u - t.since))

WindowOpen == totals.first # Never

\* "The ratio errs low and never overstates availability" (network.py:57-59),
\* where it does: with every fresh sample the outage on record covers the time
\* the line was really down since the window opened, across missed transitions,
\* failed queries, restarts of Home Assistant and reboots of the router.  It
\* supposes that every save succeeds (~SaveMayFail), that no sample falls in the
\* very second of a change (~SampleAtChange), at most two changes between two
\* samples (MaxChanges <= 2) and boots longer than the margins; without any one
\* of the four the code overstates availability, and TLC refutes the invariant.
NeverOverstates == fresh /\ WindowOpen => Outage(totals, Uptime) >= down

\* Under the same assumptions, while every change of the line is seen by a sample
\* the metric is exact: an outage that was watched is counted to the second, and
\* nothing is invented after a failed query, a reboot or a restart.
ExactWhenWatched ==
    fresh /\ WindowOpen /\ watched => Outage(totals, Uptime) = down

=============================================================================
